------------------------------ MODULE KenoDraw ------------------------------
(***************************************************************************)
(* The keno game: src/src/keno/keno.service.ts, executed by the cron of    *)
(* src/src/scheduler/keno.scheduler.ts and the administration endpoints,   *)
(* reaped by src/src/scheduler/reaper.scheduler.ts.                        *)
(*                                                                         *)
(* Every transaction here decides on plain reads of its snapshot and       *)
(* writes later, so each is two steps: the read and the commit.  The row   *)
(* locks of the writes only order the commits, nothing is read again under *)
(* them, and save writes the columns that differ from the snapshot.  The   *)
(* statuses locked and drawn are never committed.  A ticket's numbers are  *)
(* a pick, the drawn numbers an outcome, and a ticket hits when they meet. *)
(***************************************************************************)
EXTENDS Integers, FiniteSets

CONSTANTS
  Draws,                     \* 1..n, in the order of scheduledAt
  Tickets,                   \* one per idempotency key
  Picks, Outcomes, Hits,     \* Hits: the pairs of a pick and an outcome that pays
  Players, Executors, Cancellers,   \* sessions: players, ticks and admins, admins and reaper
  Stake, Prize,
  MaxWinners,                \* maxWinnersPerDraw, 0 for no limit
  MaxCrashes                 \* bound on processes that die in a call

Sessions == Players \cup Executors \cup Cancellers

ASSUME KenoAssumption ==
  /\ Draws \subseteq Nat \ {0} /\ {MaxWinners, MaxCrashes} \subseteq Nat /\ IsFiniteSet(Tickets)
  /\ {Stake, Prize} \subseteq Nat \ {0} /\ Hits \subseteq Picks \X Outcomes

VARIABLES
  draw,      \* keno_draws
  ticket,    \* keno_tickets
  credit,    \* wallet credits of a ticket, by the key of the settlement and of the refund
  call,      \* per session: the call between its read and its commit
  crashes

vars == <<draw, ticket, credit, call, crashes>>

-----------------------------------------------------------------------------
NoDraw == [status |-> "none", drawn |-> {}, summary |-> <<>>]    \* drawn: {} or an outcome
NoTicket == [status |-> "none", draw |-> 0, pick |-> {}, hit |-> 0, payout |-> 0]
Idle == [op |-> "idle"]

Open == {d \in Draws : draw[d].status = "open"}
Pending(d) == {t \in Tickets : ticket[t].draw = d /\ ticket[t].status = "pending"}

Init ==
  /\ draw = [d \in Draws |-> NoDraw]
  /\ ticket = [t \in Tickets |-> NoTicket]
  /\ credit = [t \in Tickets |-> [win |-> 0, refund |-> 0]]
  /\ call = [s \in Sessions |-> Idle] /\ crashes = 0

Read(s, c) == call[s] = Idle /\ call' = [call EXCEPT ![s] = c] /\ UNCHANGED <<draw, ticket, credit, crashes>>
Return(s) == call' = [call EXCEPT ![s] = Idle] /\ UNCHANGED crashes

\* The next row of keno_draws, as long as Draws has one left.
Insertable(d) == draw[d] = NoDraw /\ \A e \in Draws : e < d => draw[e] # NoDraw
NewDraw == [NoDraw EXCEPT !.status = "open"]

-----------------------------------------------------------------------------
\* scheduleDraw.
ScheduleDraw(d) ==
  /\ Insertable(d) /\ draw' = [draw EXCEPT ![d] = NewDraw]
  /\ UNCHANGED <<ticket, credit, call, crashes>>

\* purchaseTicket takes the draw it was asked for or any open one, or opens one.
PurchaseRead(s, t, p) ==
  /\ ticket[t] = NoTicket
  /\ \/ \E d \in Open : Read(s, [op |-> "purchase", t |-> t, pick |-> p, d |-> d])
     \/ Open = {} /\ Read(s, [op |-> "purchase", t |-> t, pick |-> p, d |-> 0])

\* The unique key of the ticket holds back a repeated request.
Purchase(s) ==
  LET c == call[s]
      Sell(d) == ticket' = [ticket EXCEPT ![c.t] = [NoTicket EXCEPT !.status = "pending", !.draw = d, !.pick = c.pick]]
  IN
  /\ c.op = "purchase" /\ ticket[c.t] = NoTicket
  /\ \/ c.d # 0 /\ Sell(c.d) /\ UNCHANGED draw
     \/ c.d = 0 /\ \E d \in Draws : Insertable(d) /\ Sell(d) /\ draw' = [draw EXCEPT ![d] = NewDraw]
  /\ Return(s) /\ UNCHANGED credit

\* updateTicketNumbers.
Editable(t) == ticket[t].status = "pending" /\ ticket[t].draw \in Open

UpdateRead(s, t, p) ==
  /\ Editable(t) /\ p # ticket[t].pick
  /\ Read(s, [op |-> "update", t |-> t, pick |-> p])

UpdateTicketNumbers(s) ==
  /\ call[s].op = "update" /\ Return(s)
  /\ ticket' = [ticket EXCEPT ![call[s].t].pick = call[s].pick]
  /\ UNCHANGED <<draw, credit>>

-----------------------------------------------------------------------------
\* executeDraw: the draw must be open; its pending tickets are read with it, and
\* whether another draw is open.
ExecuteRead(s, d) ==
  /\ d \in Open
  /\ Read(s, [op |-> "execute", d |-> d, rows |-> [t \in Pending(d) |-> ticket[t]], next |-> Open = {d}])

CapPlusOne(n) == IF MaxWinners > 0 /\ n > MaxWinners THEN MaxWinners + 1 ELSE n
Cap(n) == IF MaxWinners > 0 /\ n > MaxWinners THEN MaxWinners ELSE n

HitBy(c, o) == {t \in DOMAIN c.rows : <<c.rows[t].pick, o>> \in Hits}

\* settleDrawTickets: the tickets are paid in the order of the query until the cap.
SettledRow(t, hit, won) ==
  LET row == [ticket[t] EXCEPT !.status = IF won THEN "won" ELSE "lost", !.hit = IF hit THEN 1 ELSE @]
  IN IF won THEN [row EXCEPT !.payout = Prize] ELSE row

CreditedUncapped(hits, winners) == hits
Credited(hits, winners) == winners

SettledHits(c, hits) == hits
Settled(c, hits) == DOMAIN c.rows

Summary(c, hits, winners) == [tickets |-> Cardinality(DOMAIN c.rows), winners |-> Cardinality(winners)]

ExecuteDraw(s) ==
  LET c == call[s] IN
  /\ c.op = "execute" /\ Return(s)
  /\ \E o \in Outcomes : \E winners \in SUBSET HitBy(c, o) :
       LET hits == HitBy(c, o) IN
       /\ Cardinality(winners) = Cap(Cardinality(hits))
       /\ \A t \in Credited(hits, winners) : credit[t].win = 0    \* else the insert of its key fails
       /\ ticket' = [t \in Tickets |->
            IF t \in Settled(c, hits) THEN SettledRow(t, t \in hits, t \in winners) ELSE ticket[t]]
       /\ credit' = [t \in Tickets |->
            IF t \in Credited(hits, winners) THEN [credit[t] EXCEPT !.win = Prize] ELSE credit[t]]
       /\ LET settled == [draw EXCEPT ![c.d] = [status |-> "settled", drawn |-> {o}, summary |-> Summary(c, hits, winners)]]
          IN \/ c.next /\ \E d \in Draws : Insertable(d) /\ draw' = [settled EXCEPT ![d] = NewDraw]
             \/ (c.next => \A d \in Draws : ~Insertable(d)) /\ draw' = settled    \* or Draws has none left

\* cancelDraw, of an administrator or the reaper.
Cancellable(d) == draw[d].status = "open"

CancelRead(s, d) ==
  /\ Cancellable(d)
  /\ Read(s, [op |-> "cancel", d |-> d, rows |-> [t \in Pending(d) |-> ticket[t]]])

CancelledRow(t) == [ticket[t] EXCEPT !.status = "cancelled"]

CancelDraw(s) ==
  LET c == call[s]  rows == DOMAIN c.rows IN
  /\ c.op = "cancel" /\ \A t \in rows : credit[t].refund = 0
  /\ ticket' = [t \in Tickets |-> IF t \in rows THEN CancelledRow(t) ELSE ticket[t]]
  /\ credit' = [t \in Tickets |-> IF t \in rows THEN [credit[t] EXCEPT !.refund = Stake] ELSE credit[t]]
  /\ draw' = [draw EXCEPT ![c.d] = [@ EXCEPT !.status = "cancelled",
                                              !.summary = [tickets |-> Cardinality(rows), winners |-> 0]]]
  /\ Return(s)

-----------------------------------------------------------------------------
\* An insert meets a unique key: the transaction is rolled back.
Refuse(s) ==
  /\ \/ call[s].op = "purchase" /\ ticket[call[s].t] # NoTicket
     \/ call[s].op = "execute" /\ \E t \in DOMAIN call[s].rows : credit[t].win > 0
     \/ call[s].op = "cancel" /\ \E t \in DOMAIN call[s].rows : credit[t].refund > 0
  /\ Return(s) /\ UNCHANGED <<draw, ticket, credit>>

\* The process dies, the connection is lost or InnoDB ends a deadlock.
Die(s) ==
  /\ call[s] # Idle /\ crashes < MaxCrashes /\ crashes' = crashes + 1
  /\ call' = [call EXCEPT ![s] = Idle] /\ UNCHANGED <<draw, ticket, credit>>

Finish(s) == Purchase(s) \/ UpdateTicketNumbers(s) \/ ExecuteDraw(s) \/ CancelDraw(s) \/ Refuse(s)
Reap(d) == \E s \in Cancellers : CancelRead(s, d)

Next ==
  \/ \E d \in Draws : ScheduleDraw(d) \/ Reap(d) \/ \E s \in Executors : ExecuteRead(s, d)
  \/ \E s \in Players, t \in Tickets, p \in Picks : PurchaseRead(s, t, p) \/ UpdateRead(s, t, p)
  \/ \E s \in Sessions : Finish(s) \/ Die(s)

\* The reaper visits every draw left open; it runs while the game is paused and the
\* scheduler does not.  A call ends.
Spec ==
  /\ Init /\ [][Next]_vars
  /\ \A d \in Draws : WF_vars(Reap(d)) /\ \A s \in Sessions : WF_vars(Finish(s))

-----------------------------------------------------------------------------

With(d, status) == {t \in Tickets : ticket[t].draw = d /\ ticket[t].status = status}

\* What a ticket was credited: its prize when won, its stake when cancelled.
Matches(t) == credit[t] =
  [win    |-> IF ticket[t].status = "won" THEN ticket[t].payout ELSE 0,
   refund |-> IF ticket[t].status = "cancelled" THEN Stake ELSE 0]
=============================================================================
