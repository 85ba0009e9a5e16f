----------------------------- MODULE KenoProofs -----------------------------
(***************************************************************************)
(* What holds of KenoDraw, with the history of MCKenoDraw, for all draws,  *)
(* tickets, sessions and numbers.                                          *)
(***************************************************************************)
EXTENDS MCKenoDraw, FiniteSetTheorems, TLAPS

DrawRows == [status : {"none", "open", "settled", "cancelled"}, drawn : SUBSET Outcomes,
             summary : {<<>>} \cup [tickets : Nat, winners : Nat]]
TicketRows == [status : {"none", "pending", "won", "lost", "cancelled"}, draw : Draws \cup {0},
               pick : Picks \cup {{}}, hit : {0, 1}, payout : {0, Prize}]
Credits == [win : {0, Prize}, refund : {0, Stake}]

RowsTyped ==
  /\ draw \in [Draws -> DrawRows] /\ ticket \in [Tickets -> TicketRows]
  /\ credit \in [Tickets -> Credits]

Sold(t) == ticket[t].status # "none"
Known(d) == d \in Draws /\ draw[d].status # "none"

\* What a call goes on with still names rows that are there: a ticket that was read pending
\* is one of the same draw.
CallOK(c) ==
  \/ c = Idle
  \/ c.op = "purchase" /\ c.t \in Tickets /\ c.pick \in Picks /\ (c.d = 0 \/ Known(c.d))
  \/ c.op = "update" /\ c.t \in Tickets /\ c.pick \in Picks /\ Sold(c.t)
  \/ /\ c.op \in {"execute", "cancel"} /\ Known(c.d) /\ DOMAIN c.rows \subseteq Tickets
     /\ \A t \in DOMAIN c.rows :
          Sold(t) /\ ticket[t].draw = c.d /\ c.rows[t].status = "pending" /\ c.rows[t].draw = c.d

CallsOK ==
  /\ call = [s \in Sessions |-> call[s]]
  /\ \A s \in Sessions : CallOK(call[s]) /\ (call[s] # Idle => s \in sound)

\* A ticket is sold to a draw, shows nothing while it is pending and is not written late before.
TicketsOK ==
  \A t \in Tickets : /\ Sold(t) <=> ticket[t].draw \in Draws
                     /\ Sold(t) => Known(ticket[t].draw)
                     /\ t \in late => Sold(t)
                     /\ ticket[t].status = "pending" => ticket[t].hit = 0 /\ ticket[t].payout = 0

\* Nothing is settled while a draw is open: no ticket, no summary, no late write.
OpenOK ==
  \A d \in Draws : draw[d].status \in {"none", "open"} =>
    /\ draw[d].summary = <<>> /\ d \notin redone
    /\ \A t \in Tickets : ticket[t].draw = d => ticket[t].status = "pending" /\ t \notin late

\* DrawsMatchTickets of one draw.
DrawOK(d) ==
  /\ \A t \in Played(d) \ late : (ticket[t].hit = 1 <=> Meets(t)) /\ (ticket[t].status = "won" => Meets(t))
  /\ MaxWinners > 0 => Cardinality(With(d, "won")) <= MaxWinners
  /\ draw[d].summary # <<>> => draw[d].summary =
       [tickets |-> Cardinality(Played(d) \cup With(d, "cancelled")), winners |-> Cardinality(With(d, "won"))]

KenoInv ==
  /\ RowsTyped /\ CallsOK /\ TicketsOK /\ OpenOK
  /\ TicketsMatchCredits /\ DrawsMatchTickets

LEMMA KenoStarts == MCInit => KenoInv
<1> SUFFICES ASSUME MCInit PROVE KenoInv
  OBVIOUS
<1>1. /\ \A t \in Tickets : ticket[t] = NoTicket /\ credit[t] = [win |-> 0, refund |-> 0]
      /\ \A d \in Draws : draw[d] = NoDraw \/ draw[d] = EarlierDraw
      /\ 0 \notin Draws /\ \A s \in Sessions : call[s] = Idle
  BY KenoAssumption DEF MCInit
<1>2. RowsTyped
  <2>1. NoDraw \in DrawRows /\ EarlierDraw \in DrawRows
    BY DEF NoDraw, EarlierDraw, DrawRows
  <2>2. NoTicket \in TicketRows /\ [win |-> 0, refund |-> 0] \in Credits
    BY DEF NoTicket, TicketRows, Credits
  <2> QED BY <2>1, <2>2 DEF MCInit, RowsTyped
<1>3. CallsOK
  BY <1>1 DEF MCInit, CallsOK, CallOK
<1>4. TicketsOK /\ TicketsMatchCredits
  BY <1>1 DEF TicketsOK, Sold, NoTicket, TicketsMatchCredits, Matches, MCInit
<1>5. OpenOK
  BY <1>1 DEF OpenOK, NoDraw, EarlierDraw, NoTicket, MCInit
<1>6. DrawsMatchTickets
  <2>1. \A d \in Draws, x \in {"won", "lost", "cancelled"} : With(d, x) = {}
    BY <1>1 DEF With, NoTicket
  <2>2. \A d \in Draws : Played(d) = {} /\ Played(d) \cup With(d, "cancelled") = {} /\ With(d, "won") = {}
    BY <2>1 DEF Played
  <2>3. Cardinality({}) = 0
    BY FS_EmptySet
  <2>4. SUFFICES ASSUME NEW d \in Draws PROVE DrawOK(d)
    BY DEF DrawsMatchTickets, DrawOK
  <2>5. NoDraw.summary = <<>> /\ EarlierDraw.summary = [tickets |-> 0, winners |-> 0]
    BY DEF NoDraw, EarlierDraw
  <2>6. draw[d].summary \in {<<>>, [tickets |-> 0, winners |-> 0]}
    BY <1>1, <2>5
  <2>7. MaxWinners > 0 => 0 <= MaxWinners
    BY KenoAssumption
  <2> QED BY <2>2, <2>3, <2>6, <2>7 DEF DrawOK
<1> QED BY <1>2, <1>3, <1>4, <1>5, <1>6 DEF KenoInv

\* What was sold stays with its draw and what was opened stays open or closed: the calls of
\* the others go on with what they read, and one call begins, goes on or ends.
Lasting ==
  /\ \A t \in Tickets : Sold(t) => Sold(t)' /\ ticket'[t].draw = ticket[t].draw
  /\ \A d \in Draws : draw[d].status # "none" => draw'[d].status # "none"

LEMMA CallsStep ==
  ASSUME CallsOK, Lasting, sound' = SoundReads, NEW s \in Sessions, NEW c,
         call' = [call EXCEPT ![s] = c], CallOK(c)',
         call[s] = Idle /\ c # Idle =>
           (IF c.op = "update" THEN ticket[c.t].draw ELSE c.d) \in Open \cup {0}
  PROVE  CallsOK'
<1>1. /\ call'[s] = c /\ \A x \in Sessions : x # s => call'[x] = call[x]
      /\ call' = [x \in Sessions |-> call'[x]]
  BY DEF CallsOK
<1>2. ASSUME NEW x \in Sessions, x # s PROVE CallOK(call[x])' /\ (call'[x] # Idle => x \in sound')
  <2>1. PICK k : k = call[x]
    OBVIOUS
  <2>2. CallOK(k) /\ (k # Idle => x \in sound) /\ call'[x] = k
    BY <1>1, <1>2, <2>1 DEF CallsOK
  <2>3. CallOK(k)'
    BY <2>2 DEF CallOK, Lasting, Sold, Known
  <2>4. k # Idle => x \in sound'
    BY <2>1, <2>2 DEF SoundReads
  <2> QED BY <2>2, <2>3, <2>4
<1>3. c # Idle => s \in sound'
  <2> SUFFICES ASSUME c # Idle PROVE s \in sound'
    OBVIOUS
  <2>1. CASE call[s] = Idle
    BY <1>1, <2>1 DEF SoundReads, DrawRead
  <2>2. CASE call[s] # Idle
    BY <1>1, <2>2 DEF SoundReads, CallsOK
  <2> QED BY <2>1, <2>2
<1> QED BY <1>1, <1>2, <1>3 DEF CallsOK

\* A step is one session's: the others commit nothing.
LEMMA OneCommits ==
  ASSUME CallsOK, NEW s \in Sessions, NEW c, call' = [call EXCEPT ![s] = c],
         late' = late \cup UNION {LateTickets(x) : x \in Sessions},
         redone' = redone \cup UNION {RedoneDraws(x) : x \in Sessions}
  PROVE  late' = late \cup LateTickets(s) /\ redone' = redone \cup RedoneDraws(s)
<1>1. \A x \in Sessions : x # s => ~ Commits(x)
  BY DEF CallsOK, Commits
<1>2. \A x \in Sessions : x # s => LateTickets(x) = {} /\ RedoneDraws(x) = {}
  BY <1>1 DEF LateTickets, RedoneDraws, Closes
<1> QED BY <1>2

\* A draw keeps what its summary says when its tickets keep their statuses.
LEMMA DrawKept ==
  ASSUME NEW d, DrawOK(d), draw'[d] = draw[d], late \subseteq late',
         \A t \in Tickets : \A x \in {"won", "lost", "cancelled"} :
           ticket'[t].draw = d /\ ticket'[t].status = x <=> ticket[t].draw = d /\ ticket[t].status = x,
         \A t \in Played(d) : ticket'[t] = ticket[t] \/ t \in late'
  PROVE  DrawOK(d)'
<1>1. \A x \in {"won", "lost", "cancelled"} : With(d, x)' = With(d, x)
  BY DEF With
<1>2. Played(d)' = Played(d) /\ With(d, "cancelled")' = With(d, "cancelled") /\ With(d, "won")' = With(d, "won")
  BY <1>1 DEF Played
<1>3. ASSUME NEW t \in Played(d) \ late'
      PROVE (ticket'[t].hit = 1 <=> Meets(t)') /\ (ticket'[t].status = "won" => Meets(t)')
  <2>1. ticket'[t] = ticket[t] /\ t \notin late /\ ticket[t].draw = d
    BY DEF Played, With
  <2>2. Meets(t)' <=> Meets(t)
    BY <2>1 DEF Meets
  <2> QED BY <2>1, <2>2 DEF DrawOK
<1> QED BY <1>2, <1>3 DEF DrawOK

\* Nothing was settled of a draw that is open.
LEMMA OpenMatches ==
  ASSUME OpenOK', NEW d \in Draws, draw'[d].status \in {"none", "open"}
  PROVE  DrawOK(d)'
<1>1. With(d, "won")' = {} /\ With(d, "lost")' = {}
  BY DEF OpenOK, With
<1>2. Played(d)' = {} /\ draw'[d].summary = <<>>
  BY <1>1 DEF OpenOK, Played
<1>3. Cardinality({}) = 0 /\ (MaxWinners > 0 => 0 <= MaxWinners)
  BY FS_EmptySet, KenoAssumption
<1> QED BY <1>1, <1>2, <1>3 DEF DrawOK

\* What is kept of the rows by a step.
RowsKept ==
  /\ RowsTyped' /\ Lasting /\ TicketsOK' /\ OpenOK'
  /\ TicketsMatchCredits' /\ DrawsMatchTickets'

LEMMA NothingWritten ==
  ASSUME KenoInv, UNCHANGED <<draw, ticket, credit, late, redone>>
  PROVE  RowsKept
<1>1. RowsTyped' /\ Lasting
  BY DEF KenoInv, RowsTyped, Lasting, Sold
<1>2. TicketsOK' /\ OpenOK'
  BY DEF KenoInv, TicketsOK, OpenOK, Sold, Known
<1>3. TicketsMatchCredits'
  BY DEF KenoInv, TicketsMatchCredits, Matches
<1>4. DrawsMatchTickets'
  <2>1. SUFFICES ASSUME NEW d \in Draws, d \notin redone' PROVE DrawOK(d)'
    BY DEF DrawsMatchTickets, DrawOK
  <2>2. DrawOK(d)
    BY <2>1 DEF KenoInv, DrawsMatchTickets, DrawOK
  <2> QED BY <2>2, DrawKept
<1> QED BY <1>1, <1>2, <1>3, <1>4 DEF RowsKept

LEMMA NewDrawRow == NewDraw \in DrawRows /\ NewDraw.status = "open" /\ NewDraw.summary = <<>>
<1>1. NoDraw \in DrawRows /\ NoDraw.summary = <<>>
  BY DEF NoDraw, DrawRows
<1>2. \A r \in DrawRows : /\ [r EXCEPT !.status = "open"] \in DrawRows
                          /\ [r EXCEPT !.status = "open"].status = "open"
                          /\ [r EXCEPT !.status = "open"].summary = r.summary
  BY DEF DrawRows
<1> QED BY <1>1, <1>2 DEF NewDraw

\* A new row of keno_draws: no ticket has its number.
LEMMA DrawOpens ==
  ASSUME KenoInv, NEW d \in Draws, Insertable(d), draw' = [draw EXCEPT ![d] = NewDraw],
         UNCHANGED <<ticket, credit, late, redone>>
  PROVE  RowsKept
<1>1. NewDraw \in DrawRows /\ NewDraw.status = "open" /\ NewDraw.summary = <<>> /\ draw[d].status = "none"
  BY NewDrawRow DEF Insertable, NoDraw
<1>2. draw \in [Draws -> DrawRows] /\ NewDraw \in DrawRows
  BY <1>1 DEF KenoInv, RowsTyped, DrawRows
<1>3. draw'[d] = NewDraw /\ \A e \in Draws : e # d => draw'[e] = draw[e]
  BY <1>2
<1>4. RowsTyped' /\ Lasting
  BY <1>1, <1>2, <1>3 DEF KenoInv, RowsTyped, Lasting, Sold
<1>5. TicketsOK'
  BY <1>4 DEF KenoInv, TicketsOK, Sold, Known, Lasting
<1>6. OpenOK'
  BY <1>1, <1>3 DEF KenoInv, OpenOK
<1>7. TicketsMatchCredits'
  BY DEF KenoInv, TicketsMatchCredits, Matches
<1>8. DrawsMatchTickets'
  <2>1. SUFFICES ASSUME NEW e \in Draws, e \notin redone' PROVE DrawOK(e)'
    BY DEF DrawsMatchTickets, DrawOK
  <2>2. CASE e = d
    <3>1. DrawOK(e)'
      BY <1>1, <1>3, <1>6, <2>2, OpenMatches
    <3> QED BY <3>1
  <2>3. CASE e # d
    <3>1. DrawOK(e)
      BY <2>1 DEF KenoInv, DrawsMatchTickets, DrawOK
    <3> QED BY <1>3, <2>3, <3>1, DrawKept
  <2> QED BY <2>2, <2>3
<1> QED BY <1>4, <1>5, <1>6, <1>7, <1>8 DEF RowsKept

\* A ticket is sold, with or without a draw opened for it.
LEMMA TicketSells ==
  ASSUME KenoInv, NEW s \in Tickets, NEW p \in Picks, NEW d \in Draws,
         ticket[s] = NoTicket, draw' \in [Draws -> DrawRows], draw'[d].status # "none",
         \A e \in Draws : draw'[e] = draw[e] \/ (draw[e].status = "none" /\ draw'[e] = NewDraw),
         ticket' = [ticket EXCEPT ![s] = [NoTicket EXCEPT !.status = "pending", !.draw = d, !.pick = p]],
         UNCHANGED <<credit, late, redone>>
  PROVE  RowsKept
<1> DEFINE row == [NoTicket EXCEPT !.status = "pending", !.draw = d, !.pick = p]
<1>1. ticket' = [ticket EXCEPT ![s] = row] /\ ticket[s].status = "none"
  BY DEF NoTicket
<1>2. row \in TicketRows /\ row.status = "pending" /\ row.draw = d
  <2>1. \A r \in TicketRows :
          LET q == [r EXCEPT !.status = "pending", !.draw = d, !.pick = p]
          IN q \in TicketRows /\ q.status = "pending" /\ q.draw = d /\ q.hit = r.hit /\ q.payout = r.payout
    BY DEF TicketRows
  <2>2. NoTicket \in TicketRows
    BY DEF NoTicket, TicketRows
  <2> QED BY <2>1, <2>2
<1>3. row.hit = 0 /\ row.payout = 0
  BY DEF NoTicket
<1> HIDE DEF row
<1>4. ticket'[s] = row /\ \A t \in Tickets : t # s => ticket'[t] = ticket[t]
  BY <1>1 DEF KenoInv, RowsTyped
<1>5. RowsTyped'
  BY <1>1, <1>2 DEF KenoInv, RowsTyped
<1>6. Lasting
  BY <1>1, <1>4, NewDrawRow DEF Lasting, Sold
<1>7. TicketsOK'
  <2>1. SUFFICES ASSUME NEW t \in Tickets
                 PROVE  /\ ticket'[t].status # "none" <=> ticket'[t].draw \in Draws
                        /\ ticket'[t].status # "none" =>
                             ticket'[t].draw \in Draws /\ draw'[ticket'[t].draw].status # "none"
                        /\ t \in late' => ticket'[t].status # "none"
                        /\ ticket'[t].status = "pending" => ticket'[t].hit = 0 /\ ticket'[t].payout = 0
    BY DEF TicketsOK, Sold, Known
  <2>2. CASE t = s
    BY <1>2, <1>3, <1>4, <2>2
  <2>3. CASE t # s
    BY <1>4, <1>6, <2>3 DEF KenoInv, TicketsOK, Sold, Known, Lasting
  <2> QED BY <2>2, <2>3
<1>8. s \notin late /\ ticket[s].draw \notin Draws
  BY <1>1 DEF KenoInv, TicketsOK, Sold
<1>9. OpenOK'
  BY <1>1, <1>2, <1>4, <1>8, NewDrawRow DEF KenoInv, OpenOK
<1>10. TicketsMatchCredits'
  <2>1. Matches(s)'
    BY <1>1, <1>2, <1>4, <1>8 DEF KenoInv, TicketsMatchCredits, Matches
  <2> QED BY <1>4, <2>1 DEF KenoInv, TicketsMatchCredits, Matches
<1>11. DrawsMatchTickets'
  <2>1. SUFFICES ASSUME NEW e \in Draws, e \notin redone' PROVE DrawOK(e)'
    BY DEF DrawsMatchTickets, DrawOK
  <2>2. CASE draw'[e] # draw[e]
    BY <1>9, <2>2, NewDrawRow, OpenMatches
  <2>3. CASE draw'[e] = draw[e]
    <3>1. DrawOK(e)
      BY <2>1 DEF KenoInv, DrawsMatchTickets, DrawOK
    <3>2. \A t \in Tickets : \A x \in {"won", "lost", "cancelled"} :
            ticket'[t].draw = e /\ ticket'[t].status = x <=> ticket[t].draw = e /\ ticket[t].status = x
      BY <1>1, <1>2, <1>4
    <3>3. \A t \in Played(e) : ticket'[t] = ticket[t]
      BY <1>1, <1>4 DEF Played, With
    <3> QED BY <2>3, <3>1, <3>2, <3>3, DrawKept
  <2> QED BY <2>2, <2>3
<1> QED BY <1>5, <1>6, <1>7, <1>9, <1>10, <1>11 DEF RowsKept

\* A pick is written over, of a ticket that is pending or was settled since it was read.
LEMMA PickChanges ==
  ASSUME KenoInv, NEW s \in Tickets, NEW p \in Picks, Sold(s),
         ticket' = [ticket EXCEPT ![s].pick = p], UNCHANGED <<draw, credit, redone>>,
         late' = late \cup (IF ticket[s].status # "pending" THEN {s} ELSE {})
  PROVE  RowsKept
<1>1. /\ ticket'[s] = [ticket[s] EXCEPT !.pick = p] /\ \A t \in Tickets : t # s => ticket'[t] = ticket[t]
      /\ DOMAIN ticket' = Tickets /\ ticket' = [t \in Tickets |-> ticket'[t]]
  BY DEF KenoInv, RowsTyped
<1>2. ticket[s] \in TicketRows
  BY DEF KenoInv, RowsTyped
<1>3. /\ ticket'[s].draw = ticket[s].draw /\ ticket'[s].status = ticket[s].status
      /\ ticket'[s].hit = ticket[s].hit /\ ticket'[s].payout = ticket[s].payout /\ ticket'[s] \in TicketRows
  BY <1>1, <1>2 DEF TicketRows
<1>4. RowsTyped'
  BY <1>1, <1>3 DEF KenoInv, RowsTyped
<1>5. Lasting
  BY <1>1, <1>3 DEF Lasting, Sold
<1>6. TicketsOK'
  BY <1>1, <1>3, <1>5 DEF KenoInv, TicketsOK, Sold, Known, Lasting
<1>7. OpenOK'
  BY <1>1, <1>3 DEF KenoInv, OpenOK
<1>8. TicketsMatchCredits'
  <2>1. SUFFICES ASSUME NEW t \in Tickets, t \notin late' PROVE Matches(t)'
    BY DEF TicketsMatchCredits
  <2>2. Matches(t)
    BY <2>1 DEF KenoInv, TicketsMatchCredits
  <2> QED BY <1>1, <1>3, <2>2 DEF Matches
<1>9. DrawsMatchTickets'
  <2>1. SUFFICES ASSUME NEW e \in Draws, e \notin redone' PROVE DrawOK(e)'
    BY DEF DrawsMatchTickets, DrawOK
  <2>2. DrawOK(e)
    BY <2>1 DEF KenoInv, DrawsMatchTickets, DrawOK
  <2>3. \A t \in Played(e) : ticket'[t] = ticket[t] \/ t \in late'
    BY <1>1 DEF Played, With
  <2>4. \A t \in Tickets : ticket'[t].draw = ticket[t].draw /\ ticket'[t].status = ticket[t].status
    BY <1>1, <1>3
  <2> QED BY <2>2, <2>3, <2>4, DrawKept
<1> QED BY <1>4, <1>5, <1>6, <1>7, <1>8, <1>9 DEF RowsKept

\* A draw is closed with the tickets that were read of it, seen: when it was open still and
\* what it says is right, and so is what the tickets say that had not changed since.
LEMMA DrawCloses ==
  ASSUME KenoInv, NEW d \in Draws, NEW seen, DOMAIN seen \subseteq Tickets,
         \A t \in DOMAIN seen : Sold(t) /\ ticket[t].draw = d,
         RowsTyped', draw[d].status # "none", draw'[d].status \in {"settled", "cancelled"},
         \A e \in Draws : e # d => draw'[e] = draw[e] \/ (draw[e].status = "none" /\ draw'[e] = NewDraw),
         \A t \in Tickets : t \notin DOMAIN seen => ticket'[t] = ticket[t] /\ credit'[t] = credit[t],
         \A t \in DOMAIN seen : ticket'[t].draw = d /\ ticket'[t].status \in {"won", "lost", "cancelled"},
         late' = late \cup {t \in DOMAIN seen : ticket[t] # seen[t]},
         redone' = redone \cup (IF d \in Open THEN {} ELSE {d}),
         \A t \in DOMAIN seen : t \notin late' => Matches(t)',
         d \in Open => DrawOK(d)'
  PROVE  RowsKept
<1>1. Lasting
  BY NewDrawRow DEF Lasting, Sold
<1>2. TicketsOK'
  <2>1. SUFFICES ASSUME NEW t \in Tickets
                 PROVE  /\ ticket'[t].status # "none" <=> ticket'[t].draw \in Draws
                        /\ ticket'[t].status # "none" =>
                             ticket'[t].draw \in Draws /\ draw'[ticket'[t].draw].status # "none"
                        /\ t \in late' => ticket'[t].status # "none"
                        /\ ticket'[t].status = "pending" => ticket'[t].hit = 0 /\ ticket'[t].payout = 0
    BY DEF TicketsOK, Sold, Known
  <2>2. CASE t \in DOMAIN seen
    BY <2>2
  <2>3. CASE t \notin DOMAIN seen
    BY <1>1, <2>3 DEF KenoInv, TicketsOK, Sold, Known, Lasting
  <2> QED BY <2>2, <2>3
<1>3. OpenOK'
  <2>1. SUFFICES ASSUME NEW e \in Draws, draw'[e].status \in {"none", "open"}
                 PROVE  /\ draw'[e].summary = <<>> /\ e \notin redone'
                        /\ \A t \in Tickets : ticket'[t].draw = e => ticket'[t].status = "pending" /\ t \notin late'
    BY DEF OpenOK
  <2>2. e # d /\ draw[e].status \in {"none", "open"}
    BY <2>1
  <2>3. draw'[e].summary = <<>> /\ e \notin redone'
    BY <2>2, NewDrawRow DEF KenoInv, OpenOK
  <2>4. ASSUME NEW t \in Tickets, ticket'[t].draw = e PROVE ticket'[t].status = "pending" /\ t \notin late'
    BY <2>2, <2>4 DEF KenoInv, OpenOK
  <2> QED BY <2>3, <2>4
<1>4. TicketsMatchCredits'
  <2>1. SUFFICES ASSUME NEW t \in Tickets, t \notin late' PROVE Matches(t)'
    BY DEF TicketsMatchCredits
  <2>2. CASE t \notin DOMAIN seen
    <3>1. Matches(t)
      BY <2>1 DEF KenoInv, TicketsMatchCredits
    <3> QED BY <2>2, <3>1 DEF Matches
  <2> QED BY <2>1, <2>2
<1>5. DrawsMatchTickets'
  <2>1. SUFFICES ASSUME NEW e \in Draws, e \notin redone' PROVE DrawOK(e)'
    BY DEF DrawsMatchTickets, DrawOK
  <2>2. CASE e = d
    BY <2>1, <2>2
  <2>3. CASE e # d /\ draw'[e] # draw[e]
    <3>1. draw'[e].status \in {"none", "open"}
      BY <2>3, NewDrawRow
    <3> QED BY <1>3, <3>1, OpenMatches
  <2>4. CASE e # d /\ draw'[e] = draw[e]
    <3>1. DrawOK(e)
      BY <2>1 DEF KenoInv, DrawsMatchTickets, DrawOK
    <3>2. \A t \in Tickets : \A x \in {"won", "lost", "cancelled"} :
            ticket'[t].draw = e /\ ticket'[t].status = x <=> ticket[t].draw = e /\ ticket[t].status = x
      BY <2>4
    <3>3. \A t \in Played(e) : ticket'[t] = ticket[t]
      BY <2>4 DEF Played, With
    <3> QED BY <2>4, <3>1, <3>2, <3>3, DrawKept
  <2> QED BY <2>2, <2>3, <2>4
<1> QED BY <1>1, <1>2, <1>3, <1>4, <1>5 DEF RowsKept

\* What a commit of a draw knows and what it adds to the history.
LEMMA CloseCommits ==
  ASSUME KenoInv, NEW s \in Sessions, NEW c, c = call[s], c.op \in {"execute", "cancel"}, Return(s),
         late' = late \cup LateTickets(s), redone' = redone \cup RedoneDraws(s)
  PROVE  /\ c.d \in Draws /\ draw[c.d].status # "none" /\ DOMAIN c.rows \subseteq Tickets
         /\ \A t \in DOMAIN c.rows :
              Sold(t) /\ ticket[t].draw = c.d /\ c.rows[t].status = "pending" /\ c.rows[t].draw = c.d
         /\ \/ UNCHANGED <<draw, ticket, credit, late, redone>>
            \/ /\ late' = late \cup {t \in DOMAIN c.rows : ticket[t] # c.rows[t]}
               /\ redone' = redone \cup (IF c.d \in Open THEN {} ELSE {c.d})
<1>1. c # Idle
  BY DEF Idle
<1>2. CallOK(c) /\ s \in sound
  BY <1>1 DEF KenoInv, CallsOK
<1>3. call'[s] = Idle
  BY DEF Return, KenoInv, CallsOK
<1>4. /\ c.d \in Draws /\ draw[c.d].status # "none" /\ DOMAIN c.rows \subseteq Tickets
      /\ \A t \in DOMAIN c.rows :
           Sold(t) /\ ticket[t].draw = c.d /\ c.rows[t].status = "pending" /\ c.rows[t].draw = c.d
  BY <1>1, <1>2 DEF CallOK, Known
<1>5. CASE UNCHANGED <<draw, ticket, credit>>
  <2>1. ~ Commits(s)
    BY <1>5 DEF Commits
  <2>2. LateTickets(s) = {} /\ RedoneDraws(s) = {}
    BY <2>1 DEF LateTickets, RedoneDraws, Closes
  <2> QED BY <1>4, <1>5, <2>2
<1>6. CASE ~ UNCHANGED <<draw, ticket, credit>>
  <2>1. Closes(s)
    BY <1>1, <1>3, <1>6 DEF Closes, Commits
  <2>2. LateTickets(s) = {t \in DOMAIN c.rows : ticket[t] # c.rows[t]}
    BY <2>1 DEF LateTickets
  <2>3. RedoneDraws(s) = IF c.d \in Open THEN {} ELSE {c.d}
    BY <1>2, <2>1 DEF RedoneDraws
  <2> QED BY <1>4, <2>2, <2>3
<1> QED BY <1>5, <1>6

LEMMA CancelCloses ==
  ASSUME KenoInv, NEW s \in Sessions, CancelDraw(s),
         late' = late \cup LateTickets(s), redone' = redone \cup RedoneDraws(s)
  PROVE  RowsKept
<1>1. PICK c : c = call[s]
  OBVIOUS
<1> DEFINE rows == DOMAIN c.rows
<1>2. /\ c.op = "cancel" /\ Return(s)
      /\ ticket' = [t \in Tickets |-> IF t \in rows THEN CancelledRow(t) ELSE ticket[t]]
      /\ credit' = [t \in Tickets |-> IF t \in rows THEN [credit[t] EXCEPT !.refund = Stake] ELSE credit[t]]
      /\ draw' = [draw EXCEPT ![c.d] = [@ EXCEPT !.status = "cancelled",
                                                  !.summary = [tickets |-> Cardinality(rows), winners |-> 0]]]
  BY <1>1 DEF CancelDraw
<1>3. /\ c.d \in Draws /\ draw[c.d].status # "none" /\ rows \subseteq Tickets
      /\ \A t \in rows :
           Sold(t) /\ ticket[t].draw = c.d /\ c.rows[t].status = "pending" /\ c.rows[t].draw = c.d
      /\ \/ UNCHANGED <<draw, ticket, credit, late, redone>>
         \/ /\ late' = late \cup {t \in rows : ticket[t] # c.rows[t]}
            /\ redone' = redone \cup (IF c.d \in Open THEN {} ELSE {c.d})
  BY <1>1, <1>2, CloseCommits
<1>4. CASE UNCHANGED <<draw, ticket, credit, late, redone>>
  BY <1>4, NothingWritten
<1>5. CASE /\ late' = late \cup {t \in rows : ticket[t] # c.rows[t]}
           /\ redone' = redone \cup (IF c.d \in Open THEN {} ELSE {c.d})
  <2>1. \A r \in TicketRows : LET q == [r EXCEPT !.status = "cancelled"] IN
          q \in TicketRows /\ q.status = "cancelled" /\ q.draw = r.draw
    BY DEF TicketRows
  <2>2. \A t \in rows : /\ ticket'[t] \in TicketRows /\ ticket'[t].status = "cancelled" /\ ticket'[t].draw = c.d
                        /\ credit'[t] = [credit[t] EXCEPT !.refund = Stake] /\ credit'[t] \in Credits
    <3> SUFFICES ASSUME NEW t \in rows
                 PROVE  /\ ticket'[t] \in TicketRows /\ ticket'[t].status = "cancelled" /\ ticket'[t].draw = c.d
                        /\ credit'[t] = [credit[t] EXCEPT !.refund = Stake] /\ credit'[t] \in Credits
      OBVIOUS
    <3>1. ticket[t] \in TicketRows /\ credit[t] \in Credits
      BY <1>3 DEF KenoInv, RowsTyped
    <3>2. ticket'[t] = [ticket[t] EXCEPT !.status = "cancelled"] /\ credit'[t] = [credit[t] EXCEPT !.refund = Stake]
      BY <1>2, <1>3 DEF CancelledRow
    <3>3. [credit[t] EXCEPT !.refund = Stake] \in Credits
      BY <3>1 DEF Credits
    <3> QED BY <1>3, <2>1, <3>1, <3>2, <3>3
  <2>3. \A t \in Tickets : t \notin rows => ticket'[t] = ticket[t] /\ credit'[t] = credit[t]
    BY <1>2
  <2>4. IsFiniteSet(rows) /\ Cardinality(rows) \in Nat
    BY <1>3, KenoAssumption, FS_Subset, FS_CardinalityType
  <2> DEFINE sum == [tickets |-> Cardinality(rows), winners |-> 0]
             row == [draw[c.d] EXCEPT !.status = "cancelled", !.summary = sum]
  <2>5. draw' = [draw EXCEPT ![c.d] = row]
    BY <1>2
  <2>6. row \in DrawRows /\ row.status = "cancelled" /\ row.summary = sum
    <3>1. sum \in [tickets : Nat, winners : Nat]
      BY <2>4
    <3>2. draw[c.d] \in DrawRows
      BY <1>3 DEF KenoInv, RowsTyped
    <3> HIDE DEF sum
    <3> QED BY <3>1, <3>2 DEF DrawRows
  <2> HIDE DEF row
  <2>7. draw'[c.d] = row /\ \A e \in Draws : e # c.d => draw'[e] = draw[e]
    BY <1>3, <2>5 DEF KenoInv, RowsTyped
  <2>8. RowsTyped'
    <3>1. draw' \in [Draws -> DrawRows]
      BY <1>3, <2>5, <2>6 DEF KenoInv, RowsTyped
    <3>2. \A t \in Tickets : ticket'[t] \in TicketRows /\ credit'[t] \in Credits
      BY <2>2, <2>3 DEF KenoInv, RowsTyped
    <3>3. ticket' = [t \in Tickets |-> ticket'[t]] /\ credit' = [t \in Tickets |-> credit'[t]]
      BY <1>2
    <3> QED BY <3>1, <3>2, <3>3 DEF RowsTyped
  <2>9. ASSUME NEW t \in rows, t \notin late' PROVE Matches(t)'
    <3>1. ticket[t].status = "pending" /\ t \notin late /\ t \in Tickets
      BY <1>3, <1>5, <2>9
    <3>2. credit[t] = [win |-> 0, refund |-> 0]
      BY <3>1 DEF KenoInv, TicketsMatchCredits, Matches
    <3>3. credit'[t] = [win |-> 0, refund |-> Stake]
      BY <2>2, <2>9, <3>2
    <3> QED BY <2>2, <2>9, <3>3 DEF Matches
  <2>10. ASSUME c.d \in Open PROVE DrawOK(c.d)'
    <3>1. \A t \in Tickets : ticket[t].draw = c.d => ticket[t].status = "pending"
      BY <2>10 DEF Open, KenoInv, OpenOK
    <3>7. \A t \in Tickets : /\ (t \in rows => ticket'[t].draw = c.d /\ ticket'[t].status = "cancelled")
                           /\ (t \notin rows /\ ticket'[t].draw = c.d => ticket'[t].status = "pending")
      BY <2>2, <2>3, <3>1
    <3>2. With(c.d, "won")' = {} /\ With(c.d, "lost")' = {}
      BY <3>7 DEF With
    <3>3. With(c.d, "cancelled")' = rows
      BY <1>3, <3>7 DEF With
    <3>4. Played(c.d)' = {}
      BY <3>2 DEF Played
    <3>5. Cardinality({}) = 0 /\ (MaxWinners > 0 => 0 <= MaxWinners)
      BY FS_EmptySet, KenoAssumption
    <3>6. {} \cup rows = rows
      OBVIOUS
    <3> QED BY <2>6, <2>7, <3>2, <3>3, <3>4, <3>5, <3>6 DEF DrawOK
  <2>11. \A t \in rows : ticket'[t].draw = c.d /\ ticket'[t].status \in {"won", "lost", "cancelled"}
    BY <2>2
  <2>12. \A t \in rows : t \notin late' => Matches(t)'
    BY <2>9
  <2>13. draw'[c.d].status \in {"settled", "cancelled"}
    BY <2>6, <2>7
  <2>14. \A e \in Draws : e # c.d => draw'[e] = draw[e] \/ (draw[e].status = "none" /\ draw'[e] = NewDraw)
    BY <2>7
  <2>15. \A t \in rows : Sold(t) /\ ticket[t].draw = c.d
    BY <1>3
  <2>16. c.d \in Open => DrawOK(c.d)'
    BY <2>10
  <2> QED BY <1>3, <1>5, <2>3, <2>8, <2>11, <2>12, <2>13, <2>14, <2>15, <2>16, DrawCloses
<1> QED BY <1>3, <1>4, <1>5

LEMMA SettledRowOf ==
  ASSUME RowsTyped, NEW t \in Tickets, NEW hits, NEW winners
  PROVE  LET r == SettledRow(t, t \in hits, t \in winners) IN
         /\ r \in TicketRows /\ r.status = (IF t \in winners THEN "won" ELSE "lost") /\ r.draw = ticket[t].draw
         /\ r.pick = ticket[t].pick /\ r.hit = (IF t \in hits THEN 1 ELSE ticket[t].hit)
         /\ r.payout = (IF t \in winners THEN Prize ELSE ticket[t].payout)
<1> DEFINE x == IF t \in winners THEN "won" ELSE "lost"
           row == [ticket[t] EXCEPT !.status = x, !.hit = IF t \in hits THEN 1 ELSE @]
<1>1. ticket[t] \in TicketRows /\ x \in {"won", "lost"}
  BY DEF RowsTyped
<1>2. SettledRow(t, t \in hits, t \in winners) = IF t \in winners THEN [row EXCEPT !.payout = Prize] ELSE row
  BY DEF SettledRow
<1> HIDE DEF x
<1>3. /\ row \in TicketRows /\ row.status = x /\ row.draw = ticket[t].draw /\ row.pick = ticket[t].pick
      /\ row.hit = (IF t \in hits THEN 1 ELSE ticket[t].hit) /\ row.payout = ticket[t].payout
  BY <1>1 DEF TicketRows
<1> HIDE DEF row
<1>4. LET q == [row EXCEPT !.payout = Prize] IN
      /\ q \in TicketRows /\ q.status = row.status /\ q.draw = row.draw /\ q.pick = row.pick
      /\ q.hit = row.hit /\ q.payout = Prize
  BY <1>3 DEF TicketRows
<1>5. CASE t \in winners
  BY <1>2, <1>3, <1>4, <1>5 DEF x
<1>6. CASE t \notin winners
  BY <1>2, <1>3, <1>6 DEF x
<1> QED BY <1>5, <1>6

\* What executeDraw writes for the call c when o is drawn.
Settles(c, o, winners) ==
  /\ Cardinality(winners) = Cap(Cardinality(HitBy(c, o)))
  /\ ticket' = [t \in Tickets |->
       IF t \in DOMAIN c.rows THEN SettledRow(t, t \in HitBy(c, o), t \in winners) ELSE ticket[t]]
  /\ credit' = [t \in Tickets |-> IF t \in winners THEN [credit[t] EXCEPT !.win = Prize] ELSE credit[t]]
  /\ LET settled == [draw EXCEPT ![c.d] =
           [status |-> "settled", drawn |-> {o}, summary |-> Summary(c, HitBy(c, o), winners)]]
     IN \/ \E d \in Draws : Insertable(d) /\ draw' = [settled EXCEPT ![d] = NewDraw]
        \/ draw' = settled

LEMMA ExecuteCloses ==
  ASSUME KenoInv, NEW s \in Sessions, ExecuteDraw(s),
         late' = late \cup LateTickets(s), redone' = redone \cup RedoneDraws(s)
  PROVE  RowsKept
<1>1. PICK c : c = call[s]
  OBVIOUS
<1> DEFINE rows == DOMAIN c.rows
<1>2. c.op = "execute" /\ Return(s)
  BY <1>1 DEF ExecuteDraw
<1>3. /\ c.d \in Draws /\ draw[c.d].status # "none" /\ rows \subseteq Tickets
      /\ \A t \in rows :
           Sold(t) /\ ticket[t].draw = c.d /\ c.rows[t].status = "pending" /\ c.rows[t].draw = c.d
      /\ \/ UNCHANGED <<draw, ticket, credit, late, redone>>
         \/ /\ late' = late \cup {t \in rows : ticket[t] # c.rows[t]}
            /\ redone' = redone \cup (IF c.d \in Open THEN {} ELSE {c.d})
  BY <1>1, <1>2, CloseCommits
<1>4. CASE UNCHANGED <<draw, ticket, credit, late, redone>>
  BY <1>4, NothingWritten
<1>5. CASE /\ late' = late \cup {t \in rows : ticket[t] # c.rows[t]}
           /\ redone' = redone \cup (IF c.d \in Open THEN {} ELSE {c.d})
  <2>1. \E o \in Outcomes : \E winners \in SUBSET HitBy(call[s], o) : Settles(call[s], o, winners)
    BY DEF ExecuteDraw, Credited, Settled, Settles
  <2>2. PICK o \in Outcomes : \E winners \in SUBSET HitBy(c, o) : Settles(c, o, winners)
    BY <1>1, <2>1
  <2>3. PICK winners \in SUBSET HitBy(c, o) : Settles(c, o, winners)
    BY <2>2
  <2>4. /\ Cardinality(winners) = Cap(Cardinality(HitBy(c, o)))
        /\ ticket' = [t \in Tickets |->
             IF t \in rows THEN SettledRow(t, t \in HitBy(c, o), t \in winners) ELSE ticket[t]]
        /\ credit' = [t \in Tickets |-> IF t \in winners THEN [credit[t] EXCEPT !.win = Prize] ELSE credit[t]]
        /\ LET settled == [draw EXCEPT ![c.d] =
                 [status |-> "settled", drawn |-> {o}, summary |-> Summary(c, HitBy(c, o), winners)]]
           IN \/ \E d \in Draws : Insertable(d) /\ draw' = [settled EXCEPT ![d] = NewDraw]
              \/ draw' = settled
    BY <2>3 DEF Settles
  <2> DEFINE hits == HitBy(c, o)
             sum == [tickets |-> Cardinality(rows), winners |-> Cardinality(winners)]
             row == [status |-> "settled", drawn |-> {o}, summary |-> sum]
  <2>5. winners \subseteq hits /\ hits \subseteq rows /\ \A t \in rows : t \in hits <=> <<c.rows[t].pick, o>> \in Hits
    BY DEF HitBy
  <2>6. /\ IsFiniteSet(rows) /\ Cardinality(rows) \in Nat
        /\ IsFiniteSet(hits) /\ Cardinality(hits) \in Nat
        /\ IsFiniteSet(winners) /\ Cardinality(winners) \in Nat
    BY <1>3, <2>5, KenoAssumption, FS_Subset, FS_CardinalityType
  <2>7. MaxWinners > 0 => Cardinality(winners) <= MaxWinners
    BY <2>4, <2>6, KenoAssumption DEF Cap
  <2>8. row \in DrawRows
    <3>1. sum \in [tickets : Nat, winners : Nat]
      BY <2>6
    <3> HIDE DEF sum
    <3> QED BY <3>1 DEF DrawRows
  <2>9. row.status = "settled" /\ row.drawn = {o} /\ row.summary = sum
    OBVIOUS
  <2>10. row = [status |-> "settled", drawn |-> {o}, summary |-> Summary(c, HitBy(c, o), winners)]
    BY DEF Summary
  <2> HIDE DEF row
  <2> DEFINE settled == [draw EXCEPT ![c.d] = row]
  <2>11. settled \in [Draws -> DrawRows] /\ settled[c.d] = row /\ \A e \in Draws : e # c.d => settled[e] = draw[e]
    BY <1>3, <2>8 DEF KenoInv, RowsTyped
  <2>12. \/ \E d \in Draws : Insertable(d) /\ draw' = [settled EXCEPT ![d] = NewDraw]
        \/ draw' = settled
    BY <2>4, <2>10
  <2> HIDE DEF settled
  <2>13. /\ draw' \in [Draws -> DrawRows] /\ draw'[c.d] = row
         /\ \A e \in Draws : e # c.d => draw'[e] = draw[e] \/ (draw[e].status = "none" /\ draw'[e] = NewDraw)
    <3>1. CASE draw' = settled
      BY <2>11, <3>1
    <3>2. ASSUME NEW d \in Draws, Insertable(d), draw' = [settled EXCEPT ![d] = NewDraw]
          PROVE /\ draw' \in [Draws -> DrawRows] /\ draw'[c.d] = row
                /\ \A e \in Draws : e # c.d => draw'[e] = draw[e] \/ (draw[e].status = "none" /\ draw'[e] = NewDraw)
      <4>1. draw[d].status = "none" /\ d # c.d
        BY <1>3, <3>2 DEF Insertable, NoDraw
      <4>2. draw' \in [Draws -> DrawRows]
        BY <2>11, <3>2, NewDrawRow
      <4>3. draw'[d] = NewDraw /\ \A e \in Draws : e # d => draw'[e] = settled[e]
        BY <2>11, <3>2
      <4> QED BY <1>3, <2>11, <4>1, <4>2, <4>3
    <3> QED BY <2>12, <3>1, <3>2
  <2>14. \A t \in rows : /\ ticket'[t] = SettledRow(t, t \in hits, t \in winners) /\ ticket'[t] \in TicketRows
                         /\ ticket'[t].draw = c.d /\ ticket'[t].pick = ticket[t].pick
                         /\ ticket'[t].status = (IF t \in winners THEN "won" ELSE "lost")
                         /\ ticket'[t].hit = (IF t \in hits THEN 1 ELSE ticket[t].hit)
                         /\ ticket'[t].payout = (IF t \in winners THEN Prize ELSE ticket[t].payout)
    <3> SUFFICES ASSUME NEW t \in rows
                 PROVE  /\ ticket'[t] = SettledRow(t, t \in hits, t \in winners) /\ ticket'[t] \in TicketRows
                        /\ ticket'[t].draw = c.d /\ ticket'[t].pick = ticket[t].pick
                        /\ ticket'[t].status = (IF t \in winners THEN "won" ELSE "lost")
                        /\ ticket'[t].hit = (IF t \in hits THEN 1 ELSE ticket[t].hit)
                        /\ ticket'[t].payout = (IF t \in winners THEN Prize ELSE ticket[t].payout)
      OBVIOUS
    <3>1. ticket'[t] = SettledRow(t, t \in hits, t \in winners) /\ t \in Tickets
      BY <1>3, <2>4
    <3>2. ticket[t].draw = c.d /\ RowsTyped
      BY <1>3 DEF KenoInv
    <3> HIDE DEF hits
    <3> QED BY <3>1, <3>2, SettledRowOf
  <2>15. \A t \in Tickets : /\ (t \notin rows => ticket'[t] = ticket[t] /\ credit'[t] = credit[t])
                            /\ credit'[t] = IF t \in winners THEN [credit[t] EXCEPT !.win = Prize] ELSE credit[t]
    BY <2>4, <2>5
  <2>16. RowsTyped'
    <3>1. \A t \in Tickets : credit[t] \in Credits /\ [credit[t] EXCEPT !.win = Prize] \in Credits
      BY DEF KenoInv, RowsTyped, Credits
    <3>2. \A t \in Tickets : ticket'[t] \in TicketRows /\ credit'[t] \in Credits
      BY <2>14, <2>15, <3>1 DEF KenoInv, RowsTyped
    <3>3. ticket' = [t \in Tickets |-> ticket'[t]] /\ credit' = [t \in Tickets |-> credit'[t]]
      BY <2>4
    <3> QED BY <2>13, <3>2, <3>3 DEF RowsTyped
  <2>17. ASSUME NEW t \in rows, t \notin late' PROVE Matches(t)'
    <3>1. ticket[t].status = "pending" /\ t \notin late /\ t \in Tickets
      BY <1>3, <1>5, <2>17
    <3>2. credit[t] = [win |-> 0, refund |-> 0]
      BY <3>1 DEF KenoInv, TicketsMatchCredits, Matches
    <3>3. CASE t \in winners
      <4>1. credit'[t] = [win |-> Prize, refund |-> 0]
        BY <2>15, <3>1, <3>2, <3>3
      <4> QED BY <2>14, <2>17, <3>3, <4>1 DEF Matches
    <3>4. CASE t \notin winners
      <4>1. credit'[t] = [win |-> 0, refund |-> 0]
        BY <2>15, <3>1, <3>2, <3>4
      <4> QED BY <2>14, <2>17, <3>4, <4>1 DEF Matches
    <3> QED BY <3>3, <3>4
  <2>18. ASSUME c.d \in Open PROVE DrawOK(c.d)'
    <3>1. \A t \in Tickets : ticket[t].draw = c.d => ticket[t].status = "pending"
      BY <2>18 DEF Open, KenoInv, OpenOK
    <3>2. \A t \in Tickets : /\ (t \in rows => ticket'[t].draw = c.d)
                             /\ (t \in winners => t \in rows /\ ticket'[t].status = "won")
                             /\ (t \in rows /\ t \notin winners => ticket'[t].status = "lost")
                             /\ (t \notin rows /\ ticket'[t].draw = c.d => ticket'[t].status = "pending")
      BY <2>5, <2>14, <2>15, <3>1
    <3>3. With(c.d, "won")' = winners
      BY <1>3, <2>5, <3>2 DEF With
    <3>4. With(c.d, "lost")' = rows \ winners /\ With(c.d, "cancelled")' = {}
      BY <1>3, <2>5, <3>2 DEF With
    <3>5. Played(c.d)' = rows /\ rows \cup {} = rows
      BY <2>5, <3>3, <3>4 DEF Played
    <3>6. ASSUME NEW t \in rows, t \notin late'
          PROVE  (ticket'[t].hit = 1 <=> Meets(t)') /\ (ticket'[t].status = "won" => Meets(t)')
      <4>1. ticket[t] = c.rows[t] /\ ticket[t].hit = 0 /\ t \in Tickets
        BY <1>3, <1>5, <3>6 DEF KenoInv, TicketsOK
      <4>2. Meets(t)' <=> <<ticket[t].pick, o>> \in Hits
        <5>1. ticket'[t].draw = c.d /\ ticket'[t].pick = ticket[t].pick /\ draw'[c.d].drawn = {o}
          BY <2>9, <2>13, <2>14, <3>6
        <5> QED BY <5>1 DEF Meets
      <4>3. Meets(t)' <=> t \in hits
        BY <2>5, <3>6, <4>1, <4>2
      <4> HIDE DEF hits
      <4> QED BY <2>5, <2>14, <3>6, <4>1, <4>3
    <3> QED BY <2>7, <2>9, <2>13, <3>3, <3>4, <3>5, <3>6 DEF DrawOK
  <2>19. \A t \in rows : ticket'[t].draw = c.d /\ ticket'[t].status \in {"won", "lost", "cancelled"}
    BY <2>14
  <2>20. \A t \in rows : t \notin late' => Matches(t)'
    BY <2>17
  <2>21. draw'[c.d].status \in {"settled", "cancelled"}
    BY <2>9, <2>13
  <2>22. \A t \in rows : Sold(t) /\ ticket[t].draw = c.d
    BY <1>3
  <2>23. c.d \in Open => DrawOK(c.d)'
    BY <2>18
  <2>24. /\ \A t \in Tickets : t \notin rows => ticket'[t] = ticket[t] /\ credit'[t] = credit[t]
         /\ \A e \in Draws : e # c.d => draw'[e] = draw[e] \/ (draw[e].status = "none" /\ draw'[e] = NewDraw)
    BY <2>13, <2>15
  <2> QED BY <1>3, <1>5, <2>16, <2>19, <2>20, <2>21, <2>22, <2>23, <2>24, DrawCloses
<1> QED BY <1>3, <1>4, <1>5

-----------------------------------------------------------------------------
\* The history a step writes.
History ==
  /\ sound' = SoundReads
  /\ late' = late \cup UNION {LateTickets(x) : x \in Sessions}
  /\ redone' = redone \cup UNION {RedoneDraws(x) : x \in Sessions}

LEMMA NoneCommits ==
  ASSUME History, UNCHANGED call
  PROVE  late' = late /\ redone' = redone
<1>1. \A x \in Sessions : ~ Commits(x)
  BY DEF Commits
<1>2. \A x \in Sessions : LateTickets(x) = {} /\ RedoneDraws(x) = {}
  BY <1>1 DEF LateTickets, RedoneDraws, Closes
<1> QED BY <1>2 DEF History

LEMMA CallsStay ==
  ASSUME CallsOK, Lasting, sound' = SoundReads, UNCHANGED call
  PROVE  CallsOK'
<1>1. ASSUME NEW x \in Sessions PROVE CallOK(call[x])' /\ (call'[x] # Idle => x \in sound')
  <2>1. PICK k : k = call[x]
    OBVIOUS
  <2>2. CallOK(k) /\ (k # Idle => x \in sound) /\ call'[x] = k
    BY <2>1 DEF CallsOK
  <2>3. CallOK(k)'
    BY <2>2 DEF CallOK, Lasting, Sold, Known
  <2>4. k # Idle => x \in sound'
    BY <2>1, <2>2 DEF SoundReads
  <2> QED BY <2>2, <2>3, <2>4
<1> QED BY <1>1 DEF CallsOK

\* A read: the call goes on with what is there.
LEMMA ReadKeeps ==
  ASSUME KenoInv, History, NEW s \in Sessions, NEW k, Read(s, k), CallOK(k), k.op # "idle",
         (IF k.op = "update" THEN ticket[k.t].draw ELSE k.d) \in Open \cup {0}
  PROVE  KenoInv'
<1>1. call' = [call EXCEPT ![s] = k] /\ call[s] = Idle /\ UNCHANGED <<draw, ticket, credit>>
  BY DEF Read
<1>2. ~ Commits(s)
  BY <1>1 DEF Commits
<1>3. LateTickets(s) = {} /\ RedoneDraws(s) = {}
  BY <1>2 DEF LateTickets, RedoneDraws, Closes
<1>4. late' = late /\ redone' = redone
  BY <1>1, <1>3, OneCommits DEF History, KenoInv
<1>5. RowsKept
  BY <1>1, <1>4, NothingWritten
<1>6. CallOK(k)'
  BY <1>1 DEF CallOK, Sold, Known
<1>7. CallsOK'
  BY <1>1, <1>5, <1>6, CallsStep DEF History, KenoInv, RowsKept
<1> QED BY <1>5, <1>7 DEF KenoInv, RowsKept

\* A return: the rows are kept and the call is gone.
LEMMA ReturnKeeps ==
  ASSUME KenoInv, History, NEW s \in Sessions, call' = [call EXCEPT ![s] = Idle],
         late' = late \cup LateTickets(s) /\ redone' = redone \cup RedoneDraws(s) => RowsKept
  PROVE  KenoInv'
<1>1. RowsKept
  BY OneCommits DEF History, KenoInv
<1>2. CallOK(Idle)'
  BY DEF CallOK
<1>3. CallsOK'
  BY <1>1, <1>2, CallsStep DEF History, KenoInv, RowsKept
<1> QED BY <1>1, <1>3 DEF KenoInv, RowsKept

LEMMA PurchaseSells ==
  ASSUME KenoInv, NEW s \in Sessions, Purchase(s),
         late' = late \cup LateTickets(s), redone' = redone \cup RedoneDraws(s)
  PROVE  RowsKept
<1>1. PICK c : c = call[s]
  OBVIOUS
<1> DEFINE Row(d) == [NoTicket EXCEPT !.status = "pending", !.draw = d, !.pick = c.pick]
<1>2. /\ c.op = "purchase" /\ ticket[c.t] = NoTicket /\ credit' = credit
      /\ \/ c.d # 0 /\ ticket' = [ticket EXCEPT ![c.t] = Row(c.d)] /\ draw' = draw
         \/ c.d = 0 /\ \E d \in Draws : /\ Insertable(d) /\ ticket' = [ticket EXCEPT ![c.t] = Row(d)]
                                      /\ draw' = [draw EXCEPT ![d] = NewDraw]
  BY <1>1 DEF Purchase
<1>3. c.t \in Tickets /\ c.pick \in Picks /\ (c.d = 0 \/ Known(c.d))
  <2>1. c.op = "purchase"
    BY <1>2
  <2>2. c # Idle
    BY <2>1 DEF Idle
  <2> QED BY <1>1, <2>1, <2>2 DEF KenoInv, CallsOK, CallOK
<1>4. late' = late /\ redone' = redone
  BY <1>1, <1>2 DEF LateTickets, RedoneDraws, Closes
<1>5. draw \in [Draws -> DrawRows]
  BY DEF KenoInv, RowsTyped
<1>6. CASE c.d # 0 /\ ticket' = [ticket EXCEPT ![c.t] = Row(c.d)] /\ draw' = draw
  <2>1. c.d \in Draws /\ draw'[c.d].status # "none"
    BY <1>3, <1>6 DEF Known
  <2> QED BY <1>2, <1>3, <1>4, <1>5, <1>6, <2>1, TicketSells
<1>7. ASSUME NEW d \in Draws, Insertable(d), ticket' = [ticket EXCEPT ![c.t] = Row(d)],
             draw' = [draw EXCEPT ![d] = NewDraw]
      PROVE  RowsKept
  <2>1. draw[d].status = "none"
    BY <1>7 DEF Insertable, NoDraw
  <2>2. draw' \in [Draws -> DrawRows] /\ draw'[d].status # "none"
    BY <1>5, <1>7, NewDrawRow
  <2>3. \A e \in Draws : draw'[e] = draw[e] \/ (draw[e].status = "none" /\ draw'[e] = NewDraw)
    BY <1>5, <1>7, <2>1
  <2> QED BY <1>2, <1>3, <1>4, <1>7, <2>2, <2>3, TicketSells
<1> QED BY <1>2, <1>6, <1>7

LEMMA UpdateChanges ==
  ASSUME KenoInv, NEW s \in Sessions, UpdateTicketNumbers(s),
         late' = late \cup LateTickets(s), redone' = redone \cup RedoneDraws(s)
  PROVE  RowsKept
<1>1. PICK c : c = call[s]
  OBVIOUS
<1>2. /\ c.op = "update" /\ Return(s) /\ ticket' = [ticket EXCEPT ![c.t].pick = c.pick]
      /\ UNCHANGED <<draw, credit>>
  BY <1>1 DEF UpdateTicketNumbers
<1>3. c # Idle
  BY <1>2 DEF Idle
<1>4. c.t \in Tickets /\ c.pick \in Picks /\ Sold(c.t) /\ s \in sound
  BY <1>1, <1>2, <1>3 DEF KenoInv, CallsOK, CallOK
<1>5. redone' = redone
  BY <1>1, <1>2 DEF RedoneDraws, Closes
<1>6. CASE ticket' = ticket
  <2>1. ~ Commits(s)
    BY <1>2, <1>6 DEF Commits
  <2>2. LateTickets(s) = {}
    BY <2>1 DEF LateTickets, Closes
  <2> QED BY <1>2, <1>5, <1>6, <2>2, NothingWritten
<1>7. CASE ticket' # ticket
  <2>1. call'[s] = Idle
    BY <1>2 DEF Return, KenoInv, CallsOK
  <2>2. Commits(s)
    BY <1>1, <1>3, <1>7, <2>1 DEF Commits
  <2>3. LateTickets(s) = IF ticket[c.t].status # "pending" THEN {c.t} ELSE {}
    BY <1>1, <1>2, <1>4, <2>2 DEF LateTickets, Closes
  <2> QED BY <1>2, <1>4, <1>5, <2>3, PickChanges
<1> QED BY <1>6, <1>7

LEMMA KenoStep == KenoInv /\ [MCNext]_mcvars => KenoInv'
<1> SUFFICES ASSUME KenoInv, [MCNext]_mcvars PROVE KenoInv'
  OBVIOUS
<1>1. CASE UNCHANGED mcvars
  <2>1. RowsKept
    BY <1>1, NothingWritten DEF mcvars, vars
  <2>2. CallsOK'
    BY <1>1 DEF mcvars, vars, KenoInv, CallsOK, CallOK, Sold, Known
  <2> QED BY <2>1, <2>2 DEF KenoInv, RowsKept
<1>2. CASE MCNext
  <2>1. Next /\ History
    BY <1>2 DEF MCNext, History
  <2>2. ASSUME NEW d \in Draws, ScheduleDraw(d) PROVE KenoInv'
    <3>1. UNCHANGED <<ticket, credit, call, late, redone>>
      BY <2>1, <2>2, NoneCommits DEF ScheduleDraw
    <3>2. RowsKept
      BY <2>2, <3>1, DrawOpens DEF ScheduleDraw
    <3>3. CallsOK'
      BY <2>1, <3>1, <3>2, CallsStay DEF History, KenoInv, RowsKept
    <3> QED BY <3>2, <3>3 DEF KenoInv, RowsKept
  <2>3. ASSUME NEW d \in Draws, Reap(d) PROVE KenoInv'
    <3>1. PICK s \in Cancellers : CancelRead(s, d)
      BY <2>3 DEF Reap
    <3>2. s \in Sessions /\ d \in Open
      BY <3>1 DEF Sessions, CancelRead, Cancellable, Open
    <3> DEFINE k == [op |-> "cancel", d |-> d, rows |-> [t \in Pending(d) |-> ticket[t]]]
    <3>3. Read(s, k)
      BY <3>1 DEF CancelRead
    <3>4. CallOK(k)
      BY <3>2 DEF CallOK, Known, Sold, Open, Pending
    <3>5. k.op = "cancel" /\ k.d = d
      OBVIOUS
    <3> HIDE DEF k
    <3> QED BY <2>1, <3>2, <3>3, <3>4, <3>5, ReadKeeps
  <2>4. ASSUME NEW d \in Draws, NEW s \in Executors, ExecuteRead(s, d) PROVE KenoInv'
    <3>1. s \in Sessions /\ d \in Open
      BY <2>4 DEF Sessions, ExecuteRead
    <3> DEFINE k == [op |-> "execute", d |-> d, rows |-> [t \in Pending(d) |-> ticket[t]], next |-> Open = {d}]
    <3>2. Read(s, k)
      BY <2>4 DEF ExecuteRead
    <3>3. k.op = "execute" /\ k.d = d /\ k.rows = [t \in Pending(d) |-> ticket[t]]
      OBVIOUS
    <3> HIDE DEF k
    <3>4. CallOK(k)
      BY <3>1, <3>3 DEF CallOK, Known, Sold, Open, Pending
    <3> QED BY <2>1, <3>1, <3>2, <3>3, <3>4, ReadKeeps
  <2>5. ASSUME NEW s \in Players, NEW t \in Tickets, NEW p \in Picks, PurchaseRead(s, t, p) PROVE KenoInv'
    <3>1. PICK d \in Open \cup {0} : Read(s, [op |-> "purchase", t |-> t, pick |-> p, d |-> d])
      BY <2>5 DEF PurchaseRead
    <3>2. CallOK([op |-> "purchase", t |-> t, pick |-> p, d |-> d])
      BY DEF CallOK, Known, Open
    <3> QED BY <2>1, <3>1, <3>2, ReadKeeps DEF Sessions
  <2>6. ASSUME NEW s \in Players, NEW t \in Tickets, NEW p \in Picks, UpdateRead(s, t, p) PROVE KenoInv'
    <3>1. Read(s, [op |-> "update", t |-> t, pick |-> p]) /\ ticket[t].draw \in Open /\ ticket[t].status = "pending"
      BY <2>6 DEF UpdateRead, Editable
    <3>2. CallOK([op |-> "update", t |-> t, pick |-> p])
      BY <3>1 DEF CallOK, Sold
    <3> QED BY <2>1, <3>1, <3>2, ReadKeeps DEF Sessions
  <2>7. ASSUME NEW s \in Sessions, Finish(s) \/ Die(s) PROVE KenoInv'
    <3>1. call' = [call EXCEPT ![s] = Idle]
      BY <2>7 DEF Finish, Die, Refuse, Purchase, UpdateTicketNumbers, ExecuteDraw, CancelDraw, Return
    <3>2. ASSUME late' = late \cup LateTickets(s) /\ redone' = redone \cup RedoneDraws(s) PROVE RowsKept
      <4>1. CASE Purchase(s)
        BY <3>2, <4>1, PurchaseSells
      <4>2. CASE UpdateTicketNumbers(s)
        BY <3>2, <4>2, UpdateChanges
      <4>3. CASE ExecuteDraw(s)
        BY <3>2, <4>3, ExecuteCloses
      <4>4. CASE CancelDraw(s)
        BY <3>2, <4>4, CancelCloses
      <4>5. CASE Refuse(s) \/ Die(s)
        <5>1. UNCHANGED <<draw, ticket, credit>>
          BY <4>5 DEF Refuse, Die
        <5>2. ~ Commits(s)
          BY <5>1 DEF Commits
        <5>3. LateTickets(s) = {} /\ RedoneDraws(s) = {}
          BY <5>2 DEF LateTickets, RedoneDraws, Closes
        <5> QED BY <3>2, <5>1, <5>3, NothingWritten
      <4> QED BY <2>7, <4>1, <4>2, <4>3, <4>4, <4>5 DEF Finish
    <3> QED BY <2>1, <3>1, <3>2, ReturnKeeps
  <2> QED BY <2>1, <2>2, <2>3, <2>4, <2>5, <2>6, <2>7 DEF Next
<1> QED BY <1>1, <1>2

LEMMA KenoHolds == MCSpec => []KenoInv
BY KenoStarts, KenoStep, PTL DEF MCSpec

\* Whatever calls overlap and whichever of them die, a ticket is credited its prize or its
\* stake and never both, as its row says, unless its draw was closed again after it changed.
THEOREM CreditsMatchTickets == MCSpec => []TicketsMatchCredits
<1>1. KenoInv => TicketsMatchCredits
  BY DEF KenoInv
<1> QED BY <1>1, KenoHolds, PTL

\* A draw that was closed once shows the outcome its tickets were settled by, no more winners
\* than the cap, and the counts of its tickets and winners.
THEOREM SummariesMatchTickets == MCSpec => []DrawsMatchTickets
<1>1. KenoInv => DrawsMatchTickets
  BY DEF KenoInv
<1> QED BY <1>1, KenoHolds, PTL
=============================================================================
