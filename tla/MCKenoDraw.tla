----------------------------- MODULE MCKenoDraw -----------------------------
(* Small instances of KenoDraw, and what holds unless calls overlap.       *)
EXTENDS KenoDraw

CONSTANTS Casts          \* which draws, tickets and sessions take part in a behaviour

MCHits == {h \in Picks \X Outcomes : h[2] \in h[1]}

VARIABLES
  cast,     \* the members of one of Casts
  sound,    \* sessions whose call read an open draw
  late,     \* tickets written by a call after they had changed since its read
  orphans,  \* tickets sold to a draw that a call closed without having read them
  redone    \* draws that a call closed after another had
mcvars == <<vars, cast, sound, late, orphans, redone>>

DrawRead(s) == IF call'[s].op = "update" THEN ticket[call'[s].t].draw ELSE call'[s].d
SoundReads == {s \in Sessions : call'[s] # Idle /\ IF call[s] = Idle THEN DrawRead(s) \in Open \cup {0} ELSE s \in sound}

Commits(s) == call[s] # Idle /\ call'[s] = Idle /\ <<draw, ticket, credit>>' # <<draw, ticket, credit>>
Closes(s) == Commits(s) /\ call[s].op \in {"execute", "cancel"}
LateTickets(s) ==
  IF Closes(s) THEN {t \in DOMAIN call[s].rows : ticket[t] # call[s].rows[t]}
  ELSE IF Commits(s) /\ s \in sound /\ call[s].op = "update" /\ ticket[call[s].t].status # "pending" THEN {call[s].t}
  ELSE {}
OrphanTickets(s) ==
  IF Closes(s) THEN Pending(call[s].d) \ DOMAIN call[s].rows
  ELSE IF Commits(s) /\ call[s].op = "purchase" /\ call[s].d # 0 /\ call[s].d \notin Open THEN {call[s].t}
  ELSE {}
RedoneDraws(s) == IF Closes(s) /\ s \in sound /\ call[s].d \notin Open THEN {call[s].d} ELSE {}

\* Only members of the cast act; it disables no step that Spec's fairness asks for.
InCast ==
  /\ \A s \in Sessions \ cast : call'[s] = Idle
  /\ \A s \in Sessions : call'[s].op = "purchase" =>
       call'[s].t \in cast /\ (call'[s].d = 0 => \E d \in Draws : Insertable(d))

\* The draws out of the cast were cancelled before, without a ticket.
EarlierDraw == [NoDraw EXCEPT !.status = "cancelled", !.summary = [tickets |-> 0, winners |-> 0]]

MCInit ==
  /\ cast \in Casts
  /\ draw = [d \in Draws |-> IF d \in cast THEN NoDraw ELSE EarlierDraw]
  /\ ticket = [t \in Tickets |-> NoTicket]
  /\ credit = [t \in Tickets |-> [win |-> 0, refund |-> 0]]
  /\ call = [s \in Sessions |-> Idle] /\ crashes = 0
  /\ sound = {} /\ late = {} /\ orphans = {} /\ redone = {}
MCNext ==
  /\ Next /\ InCast /\ UNCHANGED cast
  /\ sound' = SoundReads
  /\ late' = late \cup UNION {LateTickets(s) : s \in Sessions}
  /\ orphans' = orphans \cup UNION {OrphanTickets(s) : s \in Sessions}
  /\ redone' = redone \cup UNION {RedoneDraws(s) : s \in Sessions}
MCSpec ==
  /\ MCInit /\ [][MCNext]_mcvars
  /\ \A d \in Draws : WF_vars(Reap(d)) /\ \A s \in Sessions : WF_vars(Finish(s))

-----------------------------------------------------------------------------
\* settleDrawTickets, cancelDraw: a ticket is credited what its row says, its prize or
\* its stake and never both, unless its draw was closed again after it had changed.
TicketsMatchCredits == \A t \in Tickets \ late : Matches(t)

\* settleDrawTickets: a settled ticket hits exactly when its numbers meet the drawn ones and
\* wins only then, the winners are no more than the cap, and the summary counts the tickets
\* and the winners, unless the draw was closed twice.
Meets(t) == \E o \in draw[ticket[t].draw].drawn : <<ticket[t].pick, o>> \in Hits
Played(d) == With(d, "won") \cup With(d, "lost")
DrawsMatchTickets ==
  \A d \in Draws \ redone :
    /\ \A t \in Played(d) \ late : (ticket[t].hit = 1 <=> Meets(t)) /\ (ticket[t].status = "won" => Meets(t))
    /\ MaxWinners > 0 => Cardinality(With(d, "won")) <= MaxWinners
    /\ draw[d].summary # <<>> => draw[d].summary =
         [tickets |-> Cardinality(Played(d) \cup With(d, "cancelled")), winners |-> Cardinality(With(d, "won"))]

\* Every ticket is settled in the end or is an orphan.
TicketsEnd == \A t \in Tickets : ticket[t].status = "pending" ~> ticket[t].status # "pending" \/ t \in orphans
=============================================================================
