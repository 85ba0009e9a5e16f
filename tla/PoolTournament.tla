--------------------------- MODULE PoolTournament ---------------------------
(***************************************************************************)
(* A bracket of matches: src/src/pool/pool-tournament.service.ts over      *)
(* PoolMatch.  Nothing joins the commit of a match to the step of the      *)
(* bracket that follows it, nor the start of the tournament to the         *)
(* creation of its matches: each is a row of its own, and a process may    *)
(* die between two of them.                                                *)
(***************************************************************************)
EXTENDS PoolMatch, SequencesExt

CONSTANTS
  Orders,          \* the seedings the draw may give, as permutations of the entrants
  EntryFee, PrizeRakePct,
  Weights          \* of the winner, the runner-up and the two beaten in the semi-finals

VARIABLE t         \* the row of the tournament with its players

vars == <<match, queue, ledger, call, crashes, t>>

Size == Cardinality(Brackets) + 1
Sibling(m) == IF m % 2 = 0 THEN m + 1 ELSE m - 1

ASSUME TournamentAssumption ==
  /\ IsFiniteSet(Brackets) /\ Brackets = 1..(Size - 1) /\ Size % 2 = 0
  /\ Orders \subseteq [1..Size -> 1..Size] /\ \A order \in Orders : IsInjective(order)
  /\ EntryFee \in Nat /\ PrizeRakePct \in 0..100 /\ Weights \in [1..3 -> Nat]

UserOn(row, seat) == IF seat = None THEN None ELSE row.seat[seat]
WinnerOf(row) == UserOn(row, row.game.winner)
\* loserId: whoever sits on A, unless A won.
LoserOf(row) == IF row.game.winner = "A" THEN row.seat["B"] ELSE row.seat["A"]

-----------------------------------------------------------------------------
\* register: the row of the tournament is locked; the entry that fills it starts the bracket.
Register(s, u) ==
  /\ t.status = "registering" /\ Len(t.players) < Size /\ ~Contains(t.players, u) /\ Balance(u) >= EntryFee
  /\ t' = [t EXCEPT !.players = Append(@, u), !.pool = @ + EntryFee]
  /\ ledger' = ledger \cup {Movement(<<"entry">>, u, -EntryFee)}
  /\ IF Len(t.players) + 1 = Size THEN Call(s, [op |-> "start"]) ELSE UNCHANGED call
  /\ UNCHANGED <<match, queue, crashes>>

\* start by an administrator.
AdminStart(s) == Call(s, [op |-> "start"]) /\ UNCHANGED <<match, queue, ledger, crashes, t>>

StartRead(s) ==
  /\ call[s].op = "start"
  /\ IF t.status = "registering" /\ Len(t.players) = Size
     THEN \E order \in Orders : Goto(s, [op |-> "seed", order |-> [i \in 1..Size |-> t.players[order[i]]]])
     ELSE Return(s)
  /\ UNCHANGED <<match, queue, ledger, crashes, t>>

\* Whether the status was still the one read is not looked at.
SetActive(s) ==
  /\ call[s].op = "seed"
  /\ t' = IF t.status = "registering" THEN [t EXCEPT !.status = "active"] ELSE t
  /\ Goto(s, [op |-> "slots", order |-> call[s].order, slot |-> 0])
  /\ UNCHANGED <<match, queue, ledger, crashes>>

\* One match for each pair; a slot that exists ends the call.
NextSlot(s) == IF call[s].slot + 1 < Size \div 2 THEN Goto(s, [call[s] EXCEPT !.slot = @ + 1]) ELSE Return(s)
Duplicate(s) == Return(s)

CreateSlot(s) ==
  LET c == call[s]  m == Size \div 2 + c.slot IN
  /\ c.op = "slots"
  /\ IF match[m] # NoMatch THEN Duplicate(s) /\ UNCHANGED match
     ELSE /\ match' = [match EXCEPT ![m] = Created("tournament", c.order[2 * c.slot + 1], c.order[2 * c.slot + 2],
                                                    IF c.slot % 2 = 0 THEN "A" ELSE "B")]
          /\ NextSlot(s)
  /\ UNCHANGED <<queue, ledger, crashes, t>>

-----------------------------------------------------------------------------
\* onMatchCompleted reads the match again, strikes out the loser and looks at its sibling.
Semis == {m \in Brackets : m \div 2 = 1}
BeatenInSemis ==
  LET over == {m \in Semis : match[m].status = "completed"} IN
  SetToSeq({LoserOf(match[m]) : m \in over})

\* The winners, on A the one of the even slot.
Pairing(m) ==
  LET even == IF m % 2 = 0 THEN m ELSE Sibling(m) IN [A |-> WinnerOf(match[even]), B |-> WinnerOf(match[Sibling(even)])]

FeedersOver(m) == match[Sibling(m)].status = "completed"

OnMatchCompleted(s) ==
  LET m == call[s].m  row == match[m] IN
  /\ call[s].op = "completed"
  /\ t' = IF t.status = "active" THEN [t EXCEPT !.eliminated = @ \cup {LoserOf(row)}] ELSE t
  /\ CASE t.status # "active" \/ WinnerOf(row) = None -> Return(s)
       [] t.status = "active" /\ WinnerOf(row) # None /\ m = 1 ->
            Goto(s, [op |-> "pay", winner |-> WinnerOf(row), second |-> LoserOf(row), beaten |-> BeatenInSemis])
       [] t.status = "active" /\ WinnerOf(row) # None /\ m # 1 ->
            IF FeedersOver(m)
            THEN Goto(s, [op |-> "next", m |-> m \div 2, pair |-> Pairing(m)]) ELSE Return(s)
  /\ UNCHANGED <<match, queue, ledger, crashes>>

\* The slot of the next round may exist already.
CreateNext(s) ==
  LET c == call[s] IN
  /\ c.op = "next"
  /\ match' = IF match[c.m] # NoMatch THEN match
              ELSE [match EXCEPT ![c.m] = Created("tournament", c.pair["A"], c.pair["B"], "A")]
  /\ Return(s) /\ UNCHANGED <<queue, ledger, crashes, t>>

-----------------------------------------------------------------------------
\* computeTournamentPayouts: by weight, in equal parts within a place, the rest to the first.
\* places[i] is the sequence of those on place i.
NoDust(pool, paid) == 0
Dust(pool, paid) == pool - paid

computeTournamentPayouts(pool, places) ==
  LET active == {i \in DOMAIN places : Weights[i] > 0 /\ places[i] # <<>>}
      total == SumFunctionOnSet(Weights, active)
      per == [i \in active |-> ((pool * Weights[i]) \div total) \div Len(places[i])]
      dust == Dust(pool, SumFunctionOnSet([i \in active |-> per[i] * Len(places[i])], active))
      amount(i, j) == IF i = Min(active) /\ j = 1 THEN per[i] + dust ELSE per[i] IN
  IF total = 0 THEN {[user |-> Head(places[1]), place |-> 1, amount |-> pool]}
  ELSE UNION {{[user |-> places[i][j], place |-> i, amount |-> amount(i, j)] : j \in DOMAIN places[i]} : i \in active}

\* completeTournament: the row is locked.  A user in two places meets his own key with
\* another payload, and the whole transaction is rolled back.
Prizes(c) ==
  {p \in computeTournamentPayouts((t.pool * (100 - PrizeRakePct)) \div 100, <<<<c.winner>>, <<c.second>>, c.beaten>>) :
     p.amount > 0}

MayPay == t.status = "active"

CompleteTournament(s) ==
  LET c == call[s]  prizes == Prizes(c) IN
  /\ c.op = "pay"
  /\ IF MayPay /\ \A p, q \in prizes : p.user = q.user => p = q
     THEN /\ ledger' = ledger \cup {Movement(<<"prize">>, p.user, p.amount) : p \in prizes}
          /\ t' = [t EXCEPT !.status = "completed", !.winner = c.winner]
     ELSE UNCHANGED <<ledger, t>>
  /\ Return(s) /\ UNCHANGED <<match, queue, crashes>>

-----------------------------------------------------------------------------
Init ==
  /\ match = [m \in Matches |-> NoMatch] /\ queue = {} /\ ledger = {} /\ crashes = 0
  /\ call = [s \in Sessions |-> Idle]
  /\ t = [status |-> "registering", players |-> <<>>, pool |-> 0, eliminated |-> {}, winner |-> None]

Start(s) == StartRead(s) \/ SetActive(s) \/ CreateSlot(s)
Advance(s) == OnMatchCompleted(s) \/ CreateNext(s) \/ CompleteTournament(s)

Duel(u) == (CreateSingleMatch(u) \/ JoinQueue(u) \/ JoinPaired(u) \/ Leave(u)) /\ UNCHANGED t
Shoot(s, u) == (\E m \in Matches : SubmitShot(s, u, m)) /\ UNCHANGED t
Clock == (\E m \in Matches : Tick(m)) /\ UNCHANGED t
Scan(s) == (\E m \in Matches : TimeoutRead(s, m)) /\ UNCHANGED t
Work(s) == (PlayStep(s) /\ UNCHANGED t) \/ Start(s) \/ Advance(s)
Crash(s) == Die(s) /\ UNCHANGED t

Next ==
  \/ \E u \in Users : Duel(u)
  \/ \E s \in Clients, u \in Users : Shoot(s, u) \/ Register(s, u)
  \/ \E s \in Admins : AdminStart(s)
  \/ \E s \in Schedulers : Scan(s)
  \/ \E s \in Sessions : Work(s) \/ Crash(s)
  \/ Clock

\* Time passes, the scheduler scans, and a process that does not die goes on.
Fairness ==
  /\ \A m \in Matches : WF_vars(Tick(m) /\ UNCHANGED t)
  /\ \A s \in Schedulers, m \in Matches : SF_vars(TimeoutRead(s, m) /\ UNCHANGED t)
  /\ \A s \in Sessions : WF_vars(Work(s))

Spec == Init /\ [][Next]_vars /\ Fairness
=============================================================================
