---------------------------- MODULE CrashRound -----------------------------
(***************************************************************************)
(* The crash game: src/src/crash/crash.service.ts and the ticks of         *)
(* src/src/scheduler/crash.scheduler.ts.                                   *)
(*                                                                         *)
(* A transaction that reads rows without a lock and writes them later is   *)
(* two steps here, the read (its snapshot) and the commit; one that locks  *)
(* the row it decides on is one step.  Ticks of several processes          *)
(* interleave freely: their Redis lock is per process while Redis is not   *)
(* ready and expires under a slow tick, so nothing here relies on it.      *)
(* Multipliers are whole numbers, 1 stands for x100 = 100, and grow by one *)
(* per unit of a round's age.                                              *)
(***************************************************************************)
EXTENDS Integers, FiniteSets, Functions

CONSTANTS
  Rounds,                    \* 1..n, in the order of createdAt
  Users,
  Schedulers, Clients, Booting,   \* ticks, cash-out requests, starting processes
  Points,                    \* crash points the RNG may draw
  Autos,                     \* autoCashout values players set, 0 for none
  Stake,
  WaitFor,                   \* waitingDurationSeconds
  StaleWaiting, StaleRunning,     \* MAX_WAITING_AGE_MS, MAX_RUNNING_AGE_MS
  MaxAge,                    \* ages stop counting here
  MaxCrashes                 \* bound on processes that die in a call

Sessions == Schedulers \cup Clients \cup Booting
Multipliers == 1..(MaxAge + 1)

ASSUME CrashAssumption ==
  /\ Rounds \subseteq Nat \ {0} /\ Stake \in Nat \ {0} /\ MaxCrashes \in Nat
  /\ {WaitFor, StaleWaiting, StaleRunning, MaxAge} \subseteq Nat
  /\ Points \subseteq Multipliers /\ Autos \subseteq Multipliers \cup {0}
  /\ WaitFor < StaleWaiting /\ StaleWaiting < MaxAge /\ StaleRunning < MaxAge
  /\ \A p \in Points : p <= StaleRunning

VARIABLES
  round,     \* crash_rounds
  bet,       \* crash_bets, one per round and user
  credit,    \* wallet credits of a bet: cash-outs and abandon refunds
  call,      \* per session: the call between its read and its commit
  crashes

vars == <<round, bet, credit, call, crashes>>

-----------------------------------------------------------------------------
Bets == Rounds \X Users
RoundOf(b) == b[1]
BetsOf(r) == {r} \X Users

NoRound == [status |-> "none", age |-> 0, point |-> 0, summary |-> <<>>]   \* point 0: null
NoBet == [status |-> "none", auto |-> 0, at |-> 0, payout |-> 0]
Idle == [op |-> "idle"]

With(S, status) == {b \in S : bet[b].status = status}
Unfinished == {r \in Rounds : round[r].status \in {"waiting", "running"}}
Mult(r) == 1 + round[r].age
Stale(r) ==
  \/ round[r].status = "waiting" /\ round[r].age > StaleWaiting
  \/ round[r].status = "running" /\ round[r].age > StaleRunning

\* SELECT ... FOR UPDATE of the round row.
Unlocked(r) == \A s \in Sessions : call[s].op = "settle" => call[s].r # r

Init ==
  /\ round = [r \in Rounds |-> NoRound]
  /\ bet = [b \in Bets |-> NoBet]
  /\ credit = [b \in Bets |-> [win |-> 0, refund |-> 0]]
  /\ call = [s \in Sessions |-> Idle] /\ crashes = 0

Call(s, c) == call[s] = Idle /\ call' = [call EXCEPT ![s] = c]
Return(s) == call' = [call EXCEPT ![s] = Idle]

-----------------------------------------------------------------------------
\* runTick IDLE -> createRound: no unfinished round is seen, then one is inserted
\* (as long as Rounds has one left).
CreateRoundRead(s) ==
  /\ Unfinished = {} /\ \E r \in Rounds : round[r] = NoRound
  /\ Call(s, [op |-> "create"])
  /\ UNCHANGED <<round, bet, credit, crashes>>

CreateRound(s) ==
  /\ call[s].op = "create" /\ Return(s)
  /\ \E r \in Rounds :
       /\ round[r] = NoRound /\ \A q \in Rounds : q < r => round[q] # NoRound
       /\ round' = [round EXCEPT ![r].status = "waiting"]
  /\ UNCHANGED <<bet, credit, crashes>>

\* getActiveRoundEntity: the newest unfinished round.
Active(r) == r \in Unfinished /\ \A q \in Unfinished : q <= r

\* runTick WAITING -> startRound, under the round's row lock.
Startable(r) == round[r].status = "waiting" /\ round[r].age >= WaitFor

StartRound(r) ==
  /\ Active(r) /\ Unlocked(r) /\ Startable(r)
  /\ \E p \in Points :
       round' = [round EXCEPT ![r] = [@ EXCEPT !.status = "running", !.age = 0, !.point = p]]
  /\ UNCHANGED <<bet, credit, call, crashes>>

BettingOpenUnlocked(r) == round[r].status \in {"waiting", "running"}
BettingOpen(r) == round[r].status = "waiting" /\ Unlocked(r)

\* placeBet, under the round's row lock: debit and bet in one transaction.
PlaceBet(b, auto) ==
  /\ BettingOpen(RoundOf(b)) /\ bet[b] = NoBet
  /\ bet' = [bet EXCEPT ![b] = [NoBet EXCEPT !.status = "active", !.auto = auto]]
  /\ UNCHANGED <<round, credit, call, crashes>>

-----------------------------------------------------------------------------
\* cashOut reads the round without a lock; the multiplier comes with the request.
BelowPoint(r, m) == m < round[r].point

CashOutRead(s, b, m) ==
  /\ round[RoundOf(b)].status = "running" /\ BelowPoint(RoundOf(b), m)
  /\ Call(s, [op |-> "cashout", b |-> b, m |-> m])
  /\ UNCHANGED <<round, bet, credit, crashes>>

\* processAutoCashouts: the tick starts a cashOut and does not wait for it.
AutoCashOut(s, b) ==
  /\ bet[b].status = "active" /\ bet[b].auto > 0 /\ Mult(RoundOf(b)) >= bet[b].auto
  /\ CashOutRead(s, b, bet[b].auto)

\* The bet row is locked and must still be active.
StillActive(b) == bet[b].status = "active"

CashOut(s) ==
  LET b == call[s].b  payout == Stake * call[s].m IN
  /\ call[s].op = "cashout" /\ StillActive(b)
  /\ bet' = [bet EXCEPT ![b] = [@ EXCEPT !.status = "won", !.at = call[s].m, !.payout = payout]]
  /\ credit' = [credit EXCEPT ![b].win = @ + payout]
  /\ Return(s) /\ UNCHANGED <<round, crashes>>

Payouts(S) == SumFunction([b \in S |-> bet[b].payout])

\* handleCrash -> settleRound: the round is locked, its bets are read without a lock.
SettleRead(s, r) ==
  /\ Active(r) /\ round[r].status = "running" /\ Mult(r) >= round[r].point
  /\ Unlocked(r)
  /\ LET won == With(BetsOf(r), "won") IN
     Call(s, [op |-> "settle", r |-> r, active |-> With(BetsOf(r), "active"), won |-> won,
              payouts |-> Payouts(won)])
  /\ UNCHANGED <<round, bet, credit, crashes>>

Summary(c) == [lost |-> Cardinality(c.active), won |-> Cardinality(c.won), payouts |-> c.payouts]

LostBetsWithoutAuto(c) == {b \in c.active : bet[b].auto = 0}
LostBets(c) == c.active

SettleRound(s) ==
  LET c == call[s] IN
  /\ c.op = "settle" /\ Return(s)
  /\ bet' = [b \in Bets |-> IF b \in LostBets(c) THEN [bet[b] EXCEPT !.status = "lost"] ELSE bet[b]]
  /\ round' = [round EXCEPT ![c.r] = [@ EXCEPT !.status = "crashed", !.summary = Summary(c)]]
  /\ UNCHANGED <<credit, crashes>>

-----------------------------------------------------------------------------
\* abandonStaleRounds of a starting process: the stale rounds are read first ...
AbandonCandidate(s, r) ==
  /\ Stale(r) /\ Call(s, [op |-> "candidate", r |-> r])
  /\ UNCHANGED <<round, bet, credit, crashes>>

\* ... then a transaction per round reads its active bets and the round ...
AbandonRead(s) ==
  /\ call[s].op = "candidate"
  /\ LET r == call[s].r IN
     call' = [call EXCEPT ![s] = [op |-> "abandon", r |-> r, row |-> round[r],
                                  active |-> With(BetsOf(r), "active")]]
  /\ UNCHANGED <<round, bet, credit, crashes>>

\* ... and refunds them, once per bet by the key of the refund.
NotRefunded(b) == credit[b].refund = 0
RefundRowKept(b) == [bet[b] EXCEPT !.status = "won"]
RefundRow(b) == [bet[b] EXCEPT !.status = "won", !.at = 1, !.payout = Stake]

AbandonedRow(c) ==
  IF c.row.status = "crashed" THEN round[c.r]
  ELSE [round[c.r] EXCEPT !.status = "crashed", !.point = IF c.row.point = 0 THEN 1 ELSE @]

AbandonRound(s) ==
  LET c == call[s] IN
  /\ c.op = "abandon" /\ Unlocked(c.r) /\ \A b \in c.active : NotRefunded(b)
  /\ bet' = [b \in Bets |-> IF b \in c.active THEN RefundRow(b) ELSE bet[b]]
  /\ credit' = [b \in Bets |-> IF b \in c.active THEN [credit[b] EXCEPT !.refund = @ + Stake] ELSE credit[b]]
  /\ round' = [round EXCEPT ![c.r] = AbandonedRow(c)]
  /\ Return(s) /\ UNCHANGED crashes

-----------------------------------------------------------------------------
\* A check fails after the read: the transaction is rolled back.
Refuse(s) ==
  /\ \/ call[s].op = "cashout" /\ ~StillActive(call[s].b)
     \/ call[s].op = "abandon" /\ \E b \in call[s].active : ~NotRefunded(b)
  /\ Return(s) /\ UNCHANGED <<round, bet, credit, crashes>>

\* The process dies or the connection is lost before the commit.
Die(s) ==
  /\ call[s] # Idle /\ crashes < MaxCrashes /\ crashes' = crashes + 1
  /\ Return(s) /\ UNCHANGED <<round, bet, credit>>

Tick ==
  /\ \E r \in Unfinished : round[r].age < MaxAge
  /\ round' = [r \in Rounds |->
       IF r \in Unfinished /\ round[r].age < MaxAge THEN [round[r] EXCEPT !.age = @ + 1] ELSE round[r]]
  /\ UNCHANGED <<bet, credit, call, crashes>>

Finish(s) == CreateRound(s) \/ CashOut(s) \/ SettleRound(s) \/ AbandonRead(s) \/ AbandonRound(s) \/ Refuse(s)
Schedule == \E r \in Rounds : StartRound(r) \/ \E s \in Schedulers : SettleRead(s, r)

Next ==
  \/ Tick \/ Schedule
  \/ \E s \in Schedulers : CreateRoundRead(s)
  \/ \E b \in Bets, a \in Autos : PlaceBet(b, a)
  \/ \E s \in Clients, b \in Bets : AutoCashOut(s, b) \/ \E m \in Multipliers : CashOutRead(s, b, m)
  \/ \E s \in Booting, r \in Rounds : AbandonCandidate(s, r)
  \/ \E s \in Sessions : Finish(s) \/ Die(s)

\* The interval of a live process fires again and again, an await resolves.
Spec ==
  /\ Init /\ [][Next]_vars
  /\ WF_vars(Tick) /\ WF_vars(Schedule) /\ \A s \in Sessions : WF_vars(Finish(s))

-----------------------------------------------------------------------------

\* A bet's row says what the wallet was credited: its payout when won, nothing
\* while it is active or when it is lost.
Matches(b) == credit[b].win + credit[b].refund = (IF bet[b].status = "won" THEN bet[b].payout ELSE 0)

\* The settlement summary of a crashed round is that of its bets.
Summed(r) == round[r].summary # <<>> => round[r].summary =
  [lost |-> Cardinality(With(BetsOf(r), "lost")), won |-> Cardinality(With(BetsOf(r), "won")),
   payouts |-> Payouts(With(BetsOf(r), "won"))]

\* "Settle all still-active bets as lost": a bet that was paid out is not lost.
PaidBetsNotLost == \A b \in Bets : credit[b].win > 0 => bet[b].status # "lost"

\* A settled round has no bet left to settle.
SettledRoundsClosed == \A r \in Rounds : round[r].summary # <<>> => With(BetsOf(r), "active") = {}
=============================================================================
