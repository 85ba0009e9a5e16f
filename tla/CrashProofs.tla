---------------------------- MODULE CrashProofs ----------------------------
(***************************************************************************)
(* What holds of CrashRound for all rounds, users, sessions, points and    *)
(* bounds.                                                                 *)
(***************************************************************************)
EXTENDS MCCrashRound, TLAPS

\* The rows are records, whatever their fields hold.
Rows ==
  /\ round = [r \in Rounds |-> round[r]]
  /\ \A r \in Rounds : round[r] = [status |-> round[r].status, age |-> round[r].age,
                                   point |-> round[r].point, summary |-> round[r].summary]
  /\ bet = [b \in Bets |-> bet[b]]
  /\ \A b \in Bets : bet[b] = [status |-> bet[b].status, auto |-> bet[b].auto,
                               at |-> bet[b].at, payout |-> bet[b].payout]
  /\ call = [s \in Sessions |-> call[s]]

ActiveOf(r) == {b \in BetsOf(r) : bet[b].status = "active"}

\* A settlement between its read and its commit keeps the round running and has
\* read every bet that is active in it.
SettlesAll ==
  \A s \in Sessions : call[s].op = "settle" =>
    /\ call[s].r \in Rounds /\ round[call[s].r].status = "running"
    /\ ActiveOf(call[s].r) \subseteq call[s].active

OneSettles ==
  \A s, t \in Sessions : call[s].op = "settle" /\ call[t].op = "settle" /\ call[s].r = call[t].r => s = t

SummedIsCrashed == \A r \in Rounds : round[r].summary # <<>> => round[r].status = "crashed"
SummedIsClosed == \A r \in Rounds : round[r].summary # <<>> => ActiveOf(r) = {}

CrashInv == Rows /\ SettlesAll /\ OneSettles /\ SummedIsCrashed /\ SummedIsClosed

-----------------------------------------------------------------------------
\* The invariant survives a step that keeps the rows, gives no round a summary, takes
\* no round from its settlement, activates no bet and starts no settlement.
LEMMA QuietStep ==
  ASSUME CrashInv, Rows',
         \A r \in Rounds : round'[r].summary = round[r].summary,
         \A r \in Rounds : round[r].status = "crashed" => round'[r].status = "crashed",
         \A s \in Sessions : call'[s].op = "settle" => call'[s] = call[s] /\ round'[call[s].r].status = "running",
         \A b \in Bets : bet'[b].status = "active" => bet[b].status = "active"
  PROVE  CrashInv'
<1>1. \A r \in Rounds : ActiveOf(r)' \subseteq ActiveOf(r)
  BY DEF ActiveOf, BetsOf, Bets
<1>2. SettlesAll'
  BY <1>1 DEF CrashInv, SettlesAll
<1>3. OneSettles'
  BY DEF CrashInv, OneSettles
<1>4. SummedIsCrashed' /\ SummedIsClosed'
  BY <1>1 DEF CrashInv, SummedIsCrashed, SummedIsClosed
<1> QED BY <1>2, <1>3, <1>4 DEF CrashInv

LEMMA InitInv == Init => CrashInv
BY DEF Init, CrashInv, Rows, SettlesAll, OneSettles, SummedIsCrashed, SummedIsClosed, ActiveOf, BetsOf, Bets,
       NoRound, NoBet, Idle

\* A call that starts without locking a round, ends or moves on without writing rows.
LEMMA CallStep ==
  ASSUME CrashInv, NEW s \in Sessions, NEW c, c.op # "settle", call' = [call EXCEPT ![s] = c],
         UNCHANGED <<round, bet>>
  PROVE  CrashInv'
<1>1. Rows'
  BY DEF CrashInv, Rows
<1>2. \A t \in Sessions : call'[t].op = "settle" => call'[t] = call[t]
  BY DEF CrashInv, Rows
<1> QED
  BY <1>1, <1>2, QuietStep DEF CrashInv, SettlesAll

LEMMA CreateRoundInv == ASSUME CrashInv, NEW s \in Sessions, CreateRound(s) PROVE CrashInv'
<1>1. PICK r \in Rounds : round[r] = NoRound /\ round' = [round EXCEPT ![r].status = "waiting"]
  BY DEF CreateRound
<1>2. \A t \in Sessions : call'[t].op = "settle" => call'[t] = call[t]
  BY DEF CreateRound, Return, Idle, CrashInv, Rows
<1>3. Rows'
  BY <1>1 DEF CreateRound, Return, CrashInv, Rows
<1>4. \A q \in Rounds : round'[q].summary = round[q].summary /\ (q # r => round'[q] = round[q])
  BY <1>1 DEF CrashInv, Rows
<1>5. round[r].status = "none"
  BY <1>1 DEF NoRound
<1>6. \A t \in Sessions : call[t].op = "settle" => call[t].r # r
  BY <1>5 DEF CrashInv, SettlesAll
<1> QED
  BY <1>2, <1>3, <1>4, <1>5, <1>6, QuietStep DEF CrashInv, SettlesAll, CreateRound

LEMMA StartRoundInv == ASSUME CrashInv, NEW r \in Rounds, StartRound(r) PROVE CrashInv'
<1>1. PICK p \in Points :
        round' = [round EXCEPT ![r] = [@ EXCEPT !.status = "running", !.age = 0, !.point = p]]
  BY DEF StartRound
<1>2. Rows'
  BY <1>1 DEF StartRound, CrashInv, Rows
<1>3. \A q \in Rounds : round'[q].summary = round[q].summary /\ (q # r => round'[q] = round[q])
  BY <1>1 DEF CrashInv, Rows
<1>4. round[r].status = "waiting" /\ \A t \in Sessions : call[t].op = "settle" => call[t].r # r
  BY DEF StartRound, Startable, Unlocked
<1> QED
  BY <1>2, <1>3, <1>4, QuietStep DEF CrashInv, SettlesAll, StartRound

\* A bet is placed in a waiting round, which has no summary and no settlement.
LEMMA PlaceBetInv == ASSUME CrashInv, NEW b \in Bets, NEW a, PlaceBet(b, a) PROVE CrashInv'
<1> DEFINE q == RoundOf(b)
<1>1. q \in Rounds /\ round[q].status = "waiting" /\ UNCHANGED <<round, call>>
  BY DEF PlaceBet, BettingOpen, RoundOf, Bets
<1>2. \A c \in Bets : c # b => bet'[c] = bet[c]
  BY DEF PlaceBet, CrashInv, Rows
<1>3. \A r \in Rounds : r # q => ActiveOf(r)' = ActiveOf(r)
  BY <1>2 DEF ActiveOf, BetsOf, Bets, RoundOf
<1>4. Rows'
  BY DEF PlaceBet, CrashInv, Rows, NoBet
<1>5. round[q].summary = <<>> /\ \A s \in Sessions : call[s].op = "settle" => call[s].r # q
  BY <1>1 DEF CrashInv, SettlesAll, SummedIsCrashed
<1>6. SettlesAll'
  BY <1>1, <1>3, <1>5 DEF CrashInv, SettlesAll
<1>7. OneSettles' /\ SummedIsCrashed' /\ SummedIsClosed'
  BY <1>1, <1>3, <1>5 DEF CrashInv, OneSettles, SummedIsCrashed, SummedIsClosed
<1> QED BY <1>4, <1>6, <1>7 DEF CrashInv

LEMMA CashOutInv == ASSUME CrashInv, NEW s \in Sessions, CashOut(s) PROVE CrashInv'
<1>1. \A t \in Sessions : call'[t].op = "settle" => call'[t] = call[t]
  BY DEF CashOut, Return, Idle, CrashInv, Rows
<1>2. Rows'
  BY DEF CashOut, Return, CrashInv, Rows
<1>3. \A b \in Bets : bet'[b].status = "active" => bet[b].status = "active"
  BY DEF CashOut, CrashInv, Rows
<1> QED
  BY <1>1, <1>2, <1>3, QuietStep DEF CrashInv, SettlesAll, CashOut

\* The read of a settlement takes the lock of a running round and sees its active bets.
LEMMA SettleReadInv == ASSUME CrashInv, NEW s \in Sessions, NEW r \in Rounds, SettleRead(s, r) PROVE CrashInv'
<1>1. PICK c : c.op = "settle" /\ c.r = r /\ c.active = With(BetsOf(r), "active") /\ call' = [call EXCEPT ![s] = c]
  BY DEF SettleRead, Call
<1>2. UNCHANGED <<round, bet>> /\ round[r].status = "running" /\ \A t \in Sessions : call[t].op = "settle" => call[t].r # r
  BY DEF SettleRead, Unlocked
<1>3. call'[s] = c /\ \A t \in Sessions : t # s => call'[t] = call[t]
  BY <1>1 DEF CrashInv, Rows
<1>4. SettlesAll'
  BY <1>1, <1>2, <1>3 DEF CrashInv, SettlesAll, ActiveOf, With
<1>5. OneSettles'
  BY <1>1, <1>2, <1>3 DEF CrashInv, OneSettles
<1>6. Rows' /\ SummedIsCrashed' /\ SummedIsClosed'
  BY <1>1, <1>2 DEF CrashInv, Rows, SummedIsCrashed, SummedIsClosed, ActiveOf
<1> QED BY <1>4, <1>5, <1>6 DEF CrashInv

\* Its commit leaves none of them active, and no other settlement holds the round.
LEMMA SettleRoundInv == ASSUME CrashInv, NEW s \in Sessions, SettleRound(s) PROVE CrashInv'
<1> DEFINE c == call[s]
<1>1. c.op = "settle" /\ c.r \in Rounds /\ ActiveOf(c.r) \subseteq c.active
  BY DEF SettleRound, CrashInv, SettlesAll
<1>2. \A t \in Sessions : call'[t].op = "settle" => call'[t] = call[t] /\ t # s
  BY DEF SettleRound, Return, Idle, CrashInv, Rows
<1>3. \A t \in Sessions : call'[t].op = "settle" => call[t].r # c.r
  BY <1>1, <1>2 DEF CrashInv, OneSettles
<1>4. \A b \in Bets : bet'[b].status = "active" => bet[b].status = "active" /\ b \notin c.active
  BY DEF SettleRound, LostBets, CrashInv, Rows
<1>5. /\ round'[c.r].status = "crashed"
      /\ \A r \in Rounds : r # c.r => round'[r] = round[r]
  BY <1>1 DEF SettleRound, CrashInv, Rows
<1>6. Rows'
  BY DEF SettleRound, Return, CrashInv, Rows
<1>7. \A r \in Rounds : ActiveOf(r)' \subseteq ActiveOf(r) /\ ActiveOf(r)' \cap c.active = {}
  BY <1>4 DEF ActiveOf, BetsOf, Bets
<1>8. SettlesAll' /\ OneSettles'
  BY <1>2, <1>3, <1>5, <1>7 DEF CrashInv, SettlesAll, OneSettles
<1>9. SummedIsCrashed'
  BY <1>1, <1>5 DEF CrashInv, SummedIsCrashed
<1>10. SummedIsClosed'
  BY <1>1, <1>5, <1>7 DEF CrashInv, SummedIsClosed
<1> QED BY <1>6, <1>8, <1>9, <1>10 DEF CrashInv

\* An abandonment waits for a settlement of its round and adds no active bet.
LEMMA AbandonRoundInv == ASSUME CrashInv, NEW s \in Sessions, AbandonRound(s) PROVE CrashInv'
<1> DEFINE c == call[s]
<1>1. \A t \in Sessions : call'[t].op = "settle" => call'[t] = call[t] /\ call[t].r # c.r
  BY DEF AbandonRound, Return, Idle, Unlocked, CrashInv, Rows
<1>2. \A b \in Bets : bet'[b].status = "active" => bet[b].status = "active"
  <2>1. ASSUME NEW b \in Bets
        PROVE  RefundRow(b).status = "won"
    BY DEF RefundRow, CrashInv, Rows
  <2>2. \A b \in Bets : bet'[b] = IF b \in c.active THEN RefundRow(b) ELSE bet[b]
    BY DEF AbandonRound
  <2> QED BY <2>1, <2>2
<1>3. \A r \in Rounds : /\ round'[r].summary = round[r].summary
                        /\ r # c.r => round'[r] = round[r]
                        /\ round[r].status = "crashed" => round'[r].status = "crashed"
  BY DEF AbandonRound, AbandonedRow, CrashInv, Rows
<1>4. Rows'
  <2>1. round' = [r \in Rounds |-> round'[r]] /\ bet' = [b \in Bets |-> bet'[b]] /\ call' = [t \in Sessions |-> call'[t]]
    BY DEF AbandonRound, Return, CrashInv, Rows
  <2>2. \A r \in Rounds : round'[r] = [status |-> round'[r].status, age |-> round'[r].age,
                                       point |-> round'[r].point, summary |-> round'[r].summary]
    BY DEF AbandonRound, AbandonedRow, CrashInv, Rows
  <2>3. \A b \in Bets : bet'[b] = [status |-> bet'[b].status, auto |-> bet'[b].auto,
                                   at |-> bet'[b].at, payout |-> bet'[b].payout]
    BY DEF AbandonRound, RefundRow, CrashInv, Rows
  <2> QED BY <2>1, <2>2, <2>3 DEF Rows
<1> QED
  BY <1>1, <1>2, <1>3, <1>4, QuietStep DEF CrashInv, SettlesAll

LEMMA TickInv == ASSUME CrashInv, Tick PROVE CrashInv'
<1>1. \A r \in Rounds : round'[r].summary = round[r].summary /\ round'[r].status = round[r].status
  BY DEF Tick, CrashInv, Rows
<1>2. Rows'
  BY DEF Tick, CrashInv, Rows
<1> QED
  BY <1>1, <1>2, QuietStep DEF CrashInv, SettlesAll, Tick

-----------------------------------------------------------------------------
LEMMA NextInv == ASSUME CrashInv, [Next]_vars PROVE CrashInv'
<1>1. CASE UNCHANGED vars
  BY <1>1, QuietStep DEF vars, CrashInv, Rows, SettlesAll
<1>2. CASE Tick
  BY <1>2, TickInv
<1>3. CASE \E r \in Rounds : StartRound(r)
  BY <1>3, StartRoundInv
<1>4. CASE \E r \in Rounds, s \in Schedulers : SettleRead(s, r)
  BY <1>4, SettleReadInv DEF Sessions
<1>5. ASSUME NEW s \in Sessions, NEW c, c.op # "settle", Call(s, c), UNCHANGED <<round, bet>>
      PROVE  CrashInv'
  BY <1>5, CallStep DEF Call
<1>6. CASE \E s \in Schedulers : CreateRoundRead(s)
  BY <1>5, <1>6 DEF CreateRoundRead, Sessions
<1>7. CASE \E b \in Bets, a \in Autos : PlaceBet(b, a)
  BY <1>7, PlaceBetInv
<1>8. ASSUME NEW s \in Clients, NEW b \in Bets, NEW m, CashOutRead(s, b, m)
      PROVE  CrashInv'
  BY <1>5, <1>8 DEF CashOutRead, Sessions
<1>9. CASE \E s \in Clients, b \in Bets : AutoCashOut(s, b) \/ \E m \in Multipliers : CashOutRead(s, b, m)
  BY <1>8, <1>9 DEF AutoCashOut
<1>10. CASE \E s \in Booting, r \in Rounds : AbandonCandidate(s, r)
  BY <1>5, <1>10 DEF AbandonCandidate, Sessions
<1>11. ASSUME NEW s \in Sessions, Finish(s)
       PROVE  CrashInv'
  <2>1. CASE CreateRound(s)  BY <2>1, CreateRoundInv
  <2>2. CASE CashOut(s)      BY <2>2, CashOutInv
  <2>3. CASE SettleRound(s)  BY <2>3, SettleRoundInv
  <2>4. CASE AbandonRead(s)  BY <2>4, CallStep DEF AbandonRead
  <2>5. CASE AbandonRound(s) BY <2>5, AbandonRoundInv
  <2>6. CASE Refuse(s)       BY <2>6, CallStep DEF Refuse, Return, Idle
  <2> QED BY <1>11, <2>1, <2>2, <2>3, <2>4, <2>5, <2>6 DEF Finish
<1>12. ASSUME NEW s \in Sessions, Die(s)
       PROVE  CrashInv'
  BY <1>12, CallStep DEF Die, Return, Idle
<1> QED
  BY <1>1, <1>2, <1>3, <1>4, <1>6, <1>7, <1>9, <1>10, <1>11, <1>12 DEF Next, Schedule

\* settleRound: whatever overlaps with it, a round with a settlement summary has no
\* bet left to settle.
THEOREM SettledRoundsStayClosed == Spec => []SettledRoundsClosed
<1>1. CrashInv => SettledRoundsClosed
  BY DEF CrashInv, SummedIsClosed, SettledRoundsClosed, ActiveOf, With
<1> QED BY <1>1, InitInv, NextInv, PTL DEF Spec

-----------------------------------------------------------------------------
\* What rows and calls say, for bets that are not late and rounds that were not missed.
BetRows ==
  /\ credit = [b \in Bets |-> credit[b]]
  /\ \A b \in Bets : /\ credit[b] = [win |-> credit[b].win, refund |-> credit[b].refund]
                     /\ credit[b].win \in Nat /\ credit[b].refund \in Nat
                     /\ bet[b].status \in {"none", "active", "won", "lost"}
                     /\ bet[b].auto \in Autos \cup {0} /\ bet[b].at \in Nat /\ bet[b].payout \in Nat
RoundRows == \A r \in Rounds : round[r].point \in Nat /\ (round[r].status \in {"none", "waiting"} => round[r].point = 0)
LostIsCrashed == \A b \in Bets : bet[b].status = "lost" => round[RoundOf(b)].status = "crashed"

\* A cash-out goes on with a multiplier below the point of its round, a settlement with all
\* the bets that were won, those apart that are won since.
CashesBelow(c) ==
  c.b \in Bets /\ c.m \in Multipliers /\ (RoundOf(c.b) \in missed \/ c.m < round[RoundOf(c.b)].point)
SettlesWon(c) ==
  /\ c.won \subseteq BetsOf(c.r) /\ c.active \subseteq BetsOf(c.r) /\ c.active \cap c.won = {}
  /\ \A b \in BetsOf(c.r) : bet[b].status = "won" => b \in c.won \cup c.active
  /\ BetsOf(c.r) \cap late = {} => c.payouts = Payouts(c.won) /\ \A b \in c.won : bet[b].status = "won"
Follows(c) ==
  /\ c.op = "cashout" => CashesBelow(c)
  /\ c.op = "settle" => SettlesWon(c)
  /\ c.op = "candidate" => c.r \in Rounds
  /\ c.op = "abandon" => c.r \in Rounds /\ c.active \subseteq BetsOf(c.r)

MatchInv ==
  BetRows /\ RoundRows /\ LostIsCrashed /\ (\A s \in Sessions : Follows(call[s])) /\ BetsMatchCredits

LEMMA BetsOfRounds ==
  /\ \A b \in Bets : RoundOf(b) \in Rounds /\ b \in BetsOf(RoundOf(b))
  /\ \A r \in Rounds : BetsOf(r) \subseteq Bets /\ \A b \in BetsOf(r) : RoundOf(b) = r
BY DEF Bets, BetsOf, RoundOf

\* The summary of a round stands while no bet of it changes.
LEMMA SummedStays ==
  ASSUME NEW r \in Rounds, Summed(r), round'[r].summary = round[r].summary,
         round[r].summary = <<>> \/ \A b \in BetsOf(r) : bet'[b] = bet[b]
  PROVE  Summed(r)'
<1>1. CASE round[r].summary = <<>>
  BY <1>1 DEF Summed
<1>2. CASE \A b \in BetsOf(r) : bet'[b] = bet[b]
  <2>1. With(BetsOf(r), "lost")' = With(BetsOf(r), "lost") /\ With(BetsOf(r), "won")' = With(BetsOf(r), "won")
    BY <1>2 DEF With, BetsOf
  <2>2. [b \in With(BetsOf(r), "won") |-> bet[b].payout]' = [b \in With(BetsOf(r), "won") |-> bet[b].payout]
    BY <1>2, <2>1 DEF With
  <2>3. Payouts(With(BetsOf(r), "won"))' = Payouts(With(BetsOf(r), "won"))
    BY <2>2 DEF Payouts
  <2> QED BY <2>1, <2>3 DEF Summed
<1> QED BY <1>1, <1>2

\* A settlement goes on while no bet of its round changes but those it read as active.
LEMMA SettlesStays ==
  ASSUME NEW c, c.r \in Rounds, SettlesWon(c), late \subseteq late',
         \A b \in BetsOf(c.r) : bet'[b] = bet[b] \/ b \in c.active
  PROVE  SettlesWon(c)'
<1>1. \A b \in c.won : bet'[b] = bet[b]
  BY DEF SettlesWon
<1>2. Payouts(c.won)' = Payouts(c.won)
  <2>1. [b \in c.won |-> bet'[b].payout] = [b \in c.won |-> bet[b].payout]
    BY <1>1
  <2> QED BY <2>1 DEF Payouts
<1>3. \A b \in BetsOf(c.r) : bet'[b].status = "won" => b \in c.won \cup c.active
  BY DEF SettlesWon
<1>4. c.won \subseteq BetsOf(c.r) /\ c.active \subseteq BetsOf(c.r) /\ c.active \cap c.won = {}
  BY DEF SettlesWon
<1>5. BetsOf(c.r) \cap late' = {} => c.payouts = Payouts(c.won) /\ \A b \in c.won : bet'[b].status = "won"
  BY <1>1 DEF SettlesWon
<1> QED BY <1>2, <1>3, <1>4, <1>5 DEF SettlesWon, BetsOf

\* What a step may add to the history.
LEMMA HistoryGrows ==
  ASSUME MCNext
  PROVE  /\ late \subseteq late' /\ missed \subseteq missed'
         /\ \A s \in Sessions : LateBets(s) \subseteq late' /\ MissedRounds(s) \subseteq missed'
BY DEF MCNext

\* A call goes on while the bets it may settle are those it knows.
LEMMA FollowsStays ==
  ASSUME NEW c, Follows(c), MatchInv, late \subseteq late', missed \subseteq missed',
         \A r \in Rounds : round'[r].point = round[r].point \/ round[r].point = 0 \/ r \in missed',
         c.op = "settle" => c.r \in Rounds /\ \A b \in BetsOf(c.r) : bet'[b] = bet[b] \/ b \in c.active
  PROVE  Follows(c)'
<1>1. c.op = "settle" => SettlesWon(c)'
  BY SettlesStays DEF Follows
<1>2. ASSUME c.op = "cashout" PROVE CashesBelow(c)'
  <2>1. CashesBelow(c)
    BY <1>2 DEF Follows
  <2>2. RoundOf(c.b) \in Rounds /\ c.m \in Nat
    BY <2>1, BetsOfRounds, CrashAssumption DEF CashesBelow, Multipliers
  <2>3. c.m < round[RoundOf(c.b)].point => RoundOf(c.b) \in missed' \/ c.m < round'[RoundOf(c.b)].point
    BY <2>2
  <2> QED BY <2>1, <2>3 DEF CashesBelow, RoundOf, Multipliers
<1> QED BY <1>1, <1>2 DEF Follows, BetsOf

\* A step that leaves bets and credits alone, and the points that were drawn.
LEMMA MatchQuiet ==
  ASSUME CrashInv, MatchInv, UNCHANGED <<bet, credit>>, late \subseteq late', missed \subseteq missed',
         \A r \in Rounds : /\ round'[r].summary = round[r].summary
                           /\ round[r].status = "crashed" => round'[r].status = "crashed"
                           /\ round'[r].point \in Nat
                           /\ round'[r].status \in {"none", "waiting"} => round'[r].point = 0
                           /\ round'[r].point = round[r].point \/ round[r].point = 0,
         \A s \in Sessions : call'[s] = call[s] \/ \E c : call'[s] = c /\ Follows(c)'
  PROVE  MatchInv'
<1>1. BetRows' /\ RoundRows'
  BY DEF MatchInv, BetRows, RoundRows
<1>2. LostIsCrashed'
  BY BetsOfRounds DEF MatchInv, LostIsCrashed
<1>3. ASSUME NEW s \in Sessions PROVE Follows(call[s])'
  <2>1. ASSUME call'[s] = call[s] PROVE \E c : call'[s] = c /\ Follows(c)'
    <3>1. PICK c : c = call[s]
      OBVIOUS
    <3>2. Follows(c) /\ (c.op = "settle" => c.r \in Rounds)
      BY <3>1 DEF MatchInv, CrashInv, SettlesAll
    <3>3. Follows(c)'
      BY <3>2, FollowsStays
    <3> QED BY <2>1, <3>1, <3>3
  <2>2. PICK c : call'[s] = c /\ Follows(c)'
    BY <2>1
  <2> QED BY <2>2 DEF Follows, CashesBelow, SettlesWon
<1>4. \A b \in Bets \ late' : Matches(b)' /\ BelowItsPoint(b)'
  <2> SUFFICES ASSUME NEW b \in Bets \ late' PROVE Matches(b)' /\ BelowItsPoint(b)'
    OBVIOUS
  <2>1. Matches(b) /\ BelowItsPoint(b)
    BY DEF MatchInv, BetsMatchCredits
  <2>2. RoundOf(b) \in Rounds /\ bet[b].at \in Nat
    BY BetsOfRounds DEF MatchInv, BetRows
  <2> QED BY <2>1, <2>2 DEF Matches, BelowItsPoint, RoundOf
<1>5. \A r \in Rounds \ missed' : BetsOf(r)' \cap late' = {} => Summed(r)'
  <2> SUFFICES ASSUME NEW r \in Rounds \ missed', BetsOf(r) \cap late' = {} PROVE Summed(r)'
    BY DEF BetsOf
  <2>1. Summed(r)
    BY DEF MatchInv, BetsMatchCredits
  <2> QED BY <2>1, SummedStays
<1> QED BY <1>1, <1>2, <1>3, <1>4, <1>5 DEF MatchInv, BetsMatchCredits

\* Calls end or go on while the bets a settlement may settle are those it knows.
LEMMA CallsStay ==
  ASSUME CrashInv, MatchInv, late \subseteq late', missed \subseteq missed',
         \A r \in Rounds : round'[r].point = round[r].point \/ round[r].point = 0 \/ r \in missed',
         \A s \in Sessions : \/ call'[s] = Idle
                             \/ /\ call'[s] = call[s]
                                /\ call[s].op = "settle" => \A b \in BetsOf(call[s].r) : bet'[b] = bet[b] \/ b \in call[s].active
  PROVE  (\A s \in Sessions : Follows(call[s]))'
<1> SUFFICES ASSUME NEW s \in Sessions PROVE Follows(call[s])'
  BY DEF Sessions
<1>1. CASE call'[s] = Idle
  <2>1. call'[s].op \notin {"cashout", "settle", "candidate", "abandon"}
    BY <1>1 DEF Idle
  <2> QED BY <2>1 DEF Follows
<1>2. CASE /\ call'[s] = call[s]
           /\ call[s].op = "settle" => \A b \in BetsOf(call[s].r) : bet'[b] = bet[b] \/ b \in call[s].active
  <2>1. PICK c : c = call[s]
    OBVIOUS
  <2>2. Follows(c) /\ (c.op = "settle" => c.r \in Rounds)
    BY <2>1 DEF MatchInv, CrashInv, SettlesAll
  <2>3. Follows(c)'
    BY <1>2, <2>1, <2>2, FollowsStays
  <2>4. call'[s] = c
    BY <1>2, <2>1
  <2> QED BY <2>3, <2>4 DEF Follows, CashesBelow, SettlesWon
<1> QED BY <1>1, <1>2

\* A call begins, moves on or ends, and writes nothing.
LEMMA CallMatches ==
  ASSUME CrashInv, MatchInv, MCNext, NEW s \in Sessions, NEW c, Follows(c)',
         call' = [call EXCEPT ![s] = c], UNCHANGED <<round, bet, credit>>
  PROVE  MatchInv'
<1>1. \A t \in Sessions : call'[t] = call[t] \/ call'[t] = c
  BY DEF CrashInv, Rows
<1> QED BY <1>1, HistoryGrows, MatchQuiet DEF MatchInv, RoundRows

LEMMA IdleFollows == Follows(Idle)'
BY DEF Follows, Idle

LEMMA CreateRoundMatch == ASSUME CrashInv, MatchInv, MCNext, NEW s \in Sessions, CreateRound(s) PROVE MatchInv'
<1>1. PICK r \in Rounds : round[r] = NoRound /\ round' = [round EXCEPT ![r].status = "waiting"]
  BY DEF CreateRound
<1>2. \A q \in Rounds : /\ round'[q].summary = round[q].summary /\ round'[q].point = round[q].point
                        /\ q # r => round'[q] = round[q]
  BY <1>1 DEF CrashInv, Rows
<1>3. round[r].status = "none" /\ round[r].point = 0
  BY <1>1 DEF NoRound
<1>4. UNCHANGED <<bet, credit>> /\ \A t \in Sessions : call'[t] = call[t] \/ call'[t] = Idle
  BY DEF CreateRound, Return, CrashInv, Rows
<1> QED BY <1>2, <1>3, <1>4, HistoryGrows, MatchQuiet, IdleFollows DEF MatchInv, RoundRows

\* The point that is drawn is the first of its round: no bet of it was paid out before.
LEMMA StartRoundMatch == ASSUME CrashInv, MatchInv, MCNext, NEW r \in Rounds, StartRound(r) PROVE MatchInv'
<1>1. PICK p \in Points :
        round' = [round EXCEPT ![r] = [@ EXCEPT !.status = "running", !.age = 0, !.point = p]]
  BY DEF StartRound
<1>2. p \in Nat
  BY CrashAssumption DEF Multipliers
<1>3. \A q \in Rounds : /\ round'[q].summary = round[q].summary
                        /\ q # r => round'[q] = round[q]
                        /\ q = r => round'[q].point = p /\ round'[q].status = "running"
  BY <1>1 DEF CrashInv, Rows
<1>4. round[r].status = "waiting" /\ round[r].point = 0
  BY DEF StartRound, Startable, MatchInv, RoundRows
<1>5. UNCHANGED <<bet, credit, call>>
  BY DEF StartRound
<1> QED BY <1>2, <1>3, <1>4, <1>5, HistoryGrows, MatchQuiet DEF MatchInv, RoundRows

LEMMA TickMatch == ASSUME CrashInv, MatchInv, MCNext, Tick PROVE MatchInv'
<1>1. \A r \in Rounds : round'[r].summary = round[r].summary /\ round'[r].status = round[r].status /\ round'[r].point = round[r].point
  BY DEF Tick, CrashInv, Rows
<1>2. UNCHANGED <<bet, credit, call>>
  BY DEF Tick
<1> QED BY <1>1, <1>2, HistoryGrows, MatchQuiet DEF MatchInv, RoundRows

\* The read of a settlement sees every bet that was won.
LEMMA SettleReadMatch ==
  ASSUME CrashInv, MatchInv, MCNext, NEW s \in Sessions, NEW r \in Rounds, SettleRead(s, r)
  PROVE  MatchInv'
<1> PICK c : c = [op |-> "settle", r |-> r, active |-> With(BetsOf(r), "active"), won |-> With(BetsOf(r), "won"),
                  payouts |-> Payouts(With(BetsOf(r), "won"))]
  OBVIOUS
<1>1. call' = [call EXCEPT ![s] = c] /\ UNCHANGED <<round, bet, credit>>
  BY DEF SettleRead, Call
<1>2. SettlesWon(c) /\ c.r \in Rounds /\ c.op = "settle"
  BY BetsOfRounds DEF SettlesWon, With
<1>3. Follows(c)'
  BY <1>1, <1>2, HistoryGrows, FollowsStays DEF Follows
<1> QED BY <1>1, <1>3, CallMatches

\* A bet is placed in a waiting round, where nothing was lost, paid or settled.
LEMMA PlaceBetMatch ==
  ASSUME CrashInv, MatchInv, MCNext, NEW b \in Bets, NEW auto \in Autos, PlaceBet(b, auto)
  PROVE  MatchInv'
<1> DEFINE q == RoundOf(b)
<1>1. q \in Rounds /\ round[q].status = "waiting" /\ UNCHANGED <<round, credit, call>>
  BY BetsOfRounds DEF PlaceBet, BettingOpen
<1>2. bet[b] = NoBet /\ bet' = [bet EXCEPT ![b] = [NoBet EXCEPT !.status = "active", !.auto = auto]]
  BY DEF PlaceBet
<1>3. /\ \A d \in Bets : d # b => bet'[d] = bet[d]
      /\ bet'[b].status = "active" /\ bet'[b].auto = auto /\ bet'[b].at = 0 /\ bet'[b].payout = 0
      /\ bet[b].status = "none" /\ bet[b].at = 0
  <2> DEFINE x == [NoBet EXCEPT !.status = "active", !.auto = auto]
  <2>1. x.status = "active" /\ x.auto = auto /\ x.at = 0 /\ x.payout = 0 /\ NoBet.status = "none" /\ NoBet.at = 0
    BY DEF NoBet
  <2>2. bet = [d \in Bets |-> bet[d]]
    BY DEF CrashInv, Rows
  <2> HIDE DEF x
  <2> QED BY <1>2, <2>1, <2>2 DEF x
<1>4. BetRows' /\ RoundRows' /\ LostIsCrashed'
  BY <1>1, <1>3 DEF MatchInv, BetRows, RoundRows, LostIsCrashed, RoundOf
<1>5. \A r \in Rounds : r # q => \A d \in BetsOf(r) : bet'[d] = bet[d]
  BY <1>3, BetsOfRounds
<1>6. (\A s \in Sessions : Follows(call[s]))'
  BY <1>1, <1>5, HistoryGrows, CallsStay DEF CrashInv, SettlesAll
<1>7. \A d \in Bets \ late' : Matches(d)' /\ BelowItsPoint(d)'
  <2> SUFFICES ASSUME NEW d \in Bets \ late' PROVE Matches(d)' /\ BelowItsPoint(d)'
    OBVIOUS
  <2>1. Matches(d) /\ BelowItsPoint(d) /\ missed \subseteq missed'
    BY HistoryGrows DEF MatchInv, BetsMatchCredits
  <2> QED BY <1>1, <1>3, <2>1 DEF Matches, BelowItsPoint, RoundOf
<1>8. \A r \in Rounds \ missed' : BetsOf(r)' \cap late' = {} => Summed(r)'
  <2> SUFFICES ASSUME NEW r \in Rounds \ missed', BetsOf(r) \cap late' = {} PROVE Summed(r)'
    BY DEF BetsOf
  <2>1. Summed(r)
    BY HistoryGrows DEF MatchInv, BetsMatchCredits
  <2>2. round[q].summary = <<>>
    BY <1>1 DEF CrashInv, SummedIsCrashed
  <2> QED BY <1>1, <1>5, <2>1, <2>2, SummedStays
<1> QED BY <1>4, <1>6, <1>7, <1>8 DEF MatchInv, BetsMatchCredits

\* A cash-out pays a bet that is still active: it was paid nothing, and its settlement, which
\* read it as active, comes late.
LEMMA CashOutMatch == ASSUME CrashInv, MatchInv, MCNext, NEW s \in Sessions, CashOut(s) PROVE MatchInv'
<1> PICK b, m : b = call[s].b /\ m = call[s].m
  OBVIOUS
<1> DEFINE q == RoundOf(b)
           payout == Stake * m
<1>1. b \in Bets /\ m \in Multipliers /\ (q \in missed \/ m < round[q].point) /\ q \in Rounds
  BY BetsOfRounds DEF CashOut, MatchInv, Follows, CashesBelow
<1>2. m \in Nat /\ payout \in Nat
  BY <1>1, CrashAssumption DEF Multipliers
<1>3. bet[b].status = "active" /\ UNCHANGED round /\ \A t \in Sessions : call'[t] = call[t] \/ call'[t] = Idle
  BY DEF CashOut, StillActive, Return, CrashInv, Rows
<1>4. /\ bet' = [bet EXCEPT ![b] = [@ EXCEPT !.status = "won", !.at = m, !.payout = payout]]
      /\ credit' = [credit EXCEPT ![b].win = @ + payout]
  BY DEF CashOut
<1> HIDE DEF payout
<1>5. /\ \A d \in Bets : d # b => bet'[d] = bet[d] /\ credit'[d] = credit[d]
      /\ bet'[b].status = "won" /\ bet'[b].auto = bet[b].auto /\ bet'[b].at = m /\ bet'[b].payout = payout
      /\ credit'[b] = [win |-> credit[b].win + payout, refund |-> credit[b].refund] /\ credit' = [d \in Bets |-> credit'[d]]
  <2> DEFINE x == [bet[b] EXCEPT !.status = "won", !.at = m, !.payout = payout]
             y == [credit[b] EXCEPT !.win = credit[b].win + payout]
  <2>1. x.status = "won" /\ x.auto = bet[b].auto /\ x.at = m /\ x.payout = payout
    BY <1>1 DEF CrashInv, Rows
  <2>2. y = [win |-> credit[b].win + payout, refund |-> credit[b].refund]
    BY <1>1 DEF MatchInv, BetRows
  <2>3. bet' = [bet EXCEPT ![b] = x] /\ credit' = [credit EXCEPT ![b] = y]
    BY <1>4
  <2>4. bet = [d \in Bets |-> bet[d]] /\ credit = [d \in Bets |-> credit[d]]
    BY DEF CrashInv, Rows, MatchInv, BetRows
  <2> HIDE DEF x, y
  <2> QED BY <1>1, <2>1, <2>2, <2>3, <2>4
<1>6. BetRows' /\ RoundRows' /\ LostIsCrashed'
  BY <1>1, <1>2, <1>3, <1>5 DEF MatchInv, BetRows, RoundRows, LostIsCrashed, RoundOf
<1>7. \A r \in Rounds : r # q => \A d \in BetsOf(r) : bet'[d] = bet[d]
  BY <1>5, BetsOfRounds
<1>8. b \in ActiveOf(q)
  BY <1>1, <1>3, BetsOfRounds DEF ActiveOf
<1>9. (\A t \in Sessions : Follows(call[t]))'
  <2>1. \A t \in Sessions : call[t].op = "settle" => \A d \in BetsOf(call[t].r) : bet'[d] = bet[d] \/ d \in call[t].active
    BY <1>5, <1>7, <1>8, BetsOfRounds DEF CrashInv, SettlesAll
  <2> QED BY <1>3, <2>1, HistoryGrows, CallsStay
<1>10. \A d \in Bets \ late' : Matches(d)' /\ BelowItsPoint(d)'
  <2> SUFFICES ASSUME NEW d \in Bets \ late' PROVE Matches(d)' /\ BelowItsPoint(d)'
    OBVIOUS
  <2>1. Matches(d) /\ BelowItsPoint(d) /\ missed \subseteq missed'
    BY HistoryGrows DEF MatchInv, BetsMatchCredits
  <2>2. CASE d # b
    BY <1>3, <1>5, <2>1, <2>2 DEF Matches, BelowItsPoint, RoundOf
  <2>3. CASE d = b
    <3>1. credit[b].win + credit[b].refund = 0 /\ credit[b].win \in Nat /\ credit[b].refund \in Nat
      BY <1>1, <1>3, <2>1, <2>3 DEF Matches, MatchInv, BetRows
    <3>2. Matches(b)'
      BY <1>2, <1>5, <3>1 DEF Matches
    <3>3. BelowItsPoint(b)'
      BY <1>1, <1>3, <1>5, <2>1 DEF BelowItsPoint, RoundOf
    <3> QED BY <2>3, <3>2, <3>3
  <2> QED BY <2>2, <2>3
<1>11. \A r \in Rounds \ missed' : BetsOf(r)' \cap late' = {} => Summed(r)'
  <2> SUFFICES ASSUME NEW r \in Rounds \ missed', BetsOf(r) \cap late' = {} PROVE Summed(r)'
    BY DEF BetsOf
  <2>1. Summed(r)
    BY HistoryGrows DEF MatchInv, BetsMatchCredits
  <2>2. round[q].summary = <<>>
    BY <1>1, <1>8 DEF CrashInv, SummedIsClosed
  <2> QED BY <1>3, <1>7, <2>1, <2>2, SummedStays
<1> QED BY <1>6, <1>9, <1>10, <1>11 DEF MatchInv, BetsMatchCredits

\* A settlement loses the bets it read as active; those that are no longer become late.
LEMMA SettleRoundMatch == ASSUME CrashInv, MatchInv, MCNext, NEW s \in Sessions, SettleRound(s) PROVE MatchInv'
<1> PICK c : c = call[s]
  OBVIOUS
<1>1. /\ c.op = "settle" /\ c.r \in Rounds /\ round[c.r].status = "running" /\ ActiveOf(c.r) \subseteq c.active
      /\ SettlesWon(c) /\ c.active \subseteq BetsOf(c.r)
  BY DEF SettleRound, CrashInv, SettlesAll, MatchInv, Follows, SettlesWon
<1>2. /\ credit' = credit
      /\ \A b \in Bets : bet'[b] = IF b \in c.active THEN [bet[b] EXCEPT !.status = "lost"] ELSE bet[b]
  BY DEF SettleRound, LostBets
<1>12. \A r \in Rounds : r # c.r => \A b \in BetsOf(r) : b \in Bets /\ b \notin c.active
  BY <1>1, BetsOfRounds
<1>3. \A b \in Bets : /\ bet'[b].auto = bet[b].auto /\ bet'[b].at = bet[b].at /\ bet'[b].payout = bet[b].payout
                      /\ bet'[b].status = IF b \in c.active THEN "lost" ELSE bet[b].status
  BY <1>2 DEF CrashInv, Rows
<1>4. \A r \in Rounds : /\ r # c.r => round'[r] = round[r]
                        /\ r = c.r => round'[r].status = "crashed" /\ round'[r].point = round[r].point
                                      /\ round'[r].summary = Summary(c)
  BY <1>1 DEF SettleRound, CrashInv, Rows
<1>5. call'[s] = Idle /\ \A t \in Sessions : t # s => call'[t] = call[t]
  BY DEF SettleRound, Return, CrashInv, Rows
<1>6. \A b \in c.active : b \in late' \/ bet[b].status = "active"
  <2>1. round' # round /\ call[s] # Idle
    BY <1>1, <1>4 DEF Idle
  <2>2. LateBets(s) = {b \in c.active : bet[b].status # "active"}
    BY <1>1, <1>5, <2>1 DEF LateBets, Committed
  <2> QED BY <2>2, HistoryGrows
<1>7. BetRows' /\ RoundRows'
  BY <1>1, <1>2, <1>3, <1>4 DEF MatchInv, BetRows, RoundRows
<1>8. LostIsCrashed'
  BY <1>1, <1>3, <1>4, BetsOfRounds DEF MatchInv, LostIsCrashed, RoundOf
<1>9. (\A t \in Sessions : Follows(call[t]))'
  <2>1. \A t \in Sessions : t # s /\ call[t].op = "settle" => call[t].r # c.r /\ call[t].r \in Rounds
    BY <1>1 DEF CrashInv, OneSettles, SettlesAll
  <2>2. \A r \in Rounds : r # c.r => \A b \in BetsOf(r) : bet'[b] = bet[b]
    BY <1>2, <1>12
  <2> QED BY <1>4, <1>5, <2>1, <2>2, HistoryGrows, CallsStay
<1>10. \A b \in Bets \ late' : Matches(b)' /\ BelowItsPoint(b)'
  <2> SUFFICES ASSUME NEW b \in Bets \ late' PROVE Matches(b)' /\ BelowItsPoint(b)'
    OBVIOUS
  <2>1. Matches(b) /\ BelowItsPoint(b) /\ missed \subseteq missed' /\ RoundOf(b) \in Rounds
    BY HistoryGrows, BetsOfRounds DEF MatchInv, BetsMatchCredits
  <2>2. Matches(b)'
    BY <1>2, <1>3, <1>6, <2>1 DEF Matches
  <2>3. BelowItsPoint(b)'
    BY <1>2, <1>3, <1>4, <2>1 DEF BelowItsPoint, RoundOf
  <2> QED BY <2>2, <2>3
<1>11. \A r \in Rounds \ missed' : BetsOf(r)' \cap late' = {} => Summed(r)'
  <2> SUFFICES ASSUME NEW r \in Rounds \ missed', BetsOf(r) \cap late' = {} PROVE Summed(r)'
    BY DEF BetsOf
  <2>1. CASE r # c.r
    <3>1. Summed(r)
      BY HistoryGrows DEF MatchInv, BetsMatchCredits
    <3>2. \A b \in BetsOf(r) : bet'[b] = bet[b]
      BY <1>2, <1>12, <2>1
    <3> QED BY <1>4, <2>1, <3>1, <3>2, SummedStays
  <2>2. CASE r = c.r
    <3>1. \A b \in BetsOf(r) : b \in Bets /\ bet[b].status # "lost" /\ (b \in c.active => bet[b].status = "active")
      BY <1>1, <1>6, <2>2, BetsOfRounds DEF MatchInv, LostIsCrashed
    <3>2. c.won \subseteq BetsOf(r) /\ c.payouts = Payouts(c.won) /\ \A b \in c.won : bet[b].status = "won" /\ b \notin c.active
      BY <1>1, <2>2, HistoryGrows DEF SettlesWon
    <3>3. With(BetsOf(r), "lost")' = c.active
      BY <1>1, <1>3, <2>2, <3>1 DEF With, BetsOf
    <3>4. With(BetsOf(r), "won")' = c.won
      BY <1>1, <1>3, <2>2, <3>1, <3>2 DEF With, BetsOf, SettlesWon
    <3>5. Payouts(c.won)' = Payouts(c.won)
      <4>1. [b \in c.won |-> bet'[b].payout] = [b \in c.won |-> bet[b].payout]
        BY <1>3, <3>1, <3>2
      <4> QED BY <4>1 DEF Payouts
    <3>6. Payouts(With(BetsOf(r), "won"))' = Payouts(c.won)
      BY <3>4, <3>5 DEF Payouts
    <3>7. round'[r].summary = [lost |-> Cardinality(c.active), won |-> Cardinality(c.won), payouts |-> Payouts(c.won)]
      BY <1>4, <2>2, <3>2 DEF Summary
    <3> QED BY <3>3, <3>4, <3>6, <3>7 DEF Summed
  <2> QED BY <2>1, <2>2
<1> QED BY <1>7, <1>8, <1>9, <1>10, <1>11 DEF MatchInv, BetsMatchCredits

\* An abandonment refunds the bets it read as active; those that are no longer become late,
\* and a round that is another than it read is missed.
LEMMA AbandonRoundMatch == ASSUME CrashInv, MatchInv, MCNext, NEW s \in Sessions, AbandonRound(s) PROVE MatchInv'
<1> PICK c : c = call[s]
  OBVIOUS
<1>1. c.op = "abandon" /\ c.r \in Rounds /\ c.active \subseteq BetsOf(c.r)
  BY DEF AbandonRound, MatchInv, Follows
<1>2. \A b \in Bets : /\ b \notin c.active => bet'[b] = bet[b] /\ credit'[b] = credit[b]
                      /\ b \in c.active => bet'[b] = RefundRow(b) /\ credit[b].refund = 0
                                           /\ credit'[b] = [win |-> credit[b].win, refund |-> credit[b].refund + Stake]
  <2> SUFFICES ASSUME NEW b \in Bets
               PROVE  /\ b \notin c.active => bet'[b] = bet[b] /\ credit'[b] = credit[b]
                      /\ b \in c.active => bet'[b] = RefundRow(b) /\ credit[b].refund = 0
                                           /\ credit'[b] = [win |-> credit[b].win, refund |-> credit[b].refund + Stake]
    OBVIOUS
  <2>1. /\ bet'[b] = IF b \in c.active THEN RefundRow(b) ELSE bet[b]
        /\ credit'[b] = IF b \in c.active THEN [credit[b] EXCEPT !.refund = credit[b].refund + Stake] ELSE credit[b]
        /\ b \in c.active => credit[b].refund = 0
    BY DEF AbandonRound, NotRefunded
  <2>2. credit[b] = [win |-> credit[b].win, refund |-> credit[b].refund]
    BY DEF MatchInv, BetRows
  <2> QED BY <2>1, <2>2
<1>3. \A b \in Bets : /\ RefundRow(b).status = "won" /\ RefundRow(b).auto = bet[b].auto
                      /\ RefundRow(b).at = 1 /\ RefundRow(b).payout = Stake
  BY DEF RefundRow, CrashInv, Rows
<1>4. \A r \in Rounds : /\ r # c.r => round'[r] = round[r]
                        /\ r = c.r => round'[r] = AbandonedRow(c)
  BY <1>1 DEF AbandonRound, CrashInv, Rows
<1>5. /\ AbandonedRow(c).summary = round[c.r].summary
      /\ AbandonedRow(c) = round[c.r] \/ AbandonedRow(c).status = "crashed"
      /\ AbandonedRow(c).point = round[c.r].point \/ (c.row.point = 0 /\ AbandonedRow(c).point = 1)
  BY <1>1 DEF AbandonedRow, CrashInv, Rows
<1>6. call'[s] = Idle /\ \A t \in Sessions : t # s => call'[t] = call[t] /\ (call[t].op = "settle" => call[t].r # c.r)
  BY DEF AbandonRound, Return, Unlocked, CrashInv, Rows
<1>7. CASE UNCHANGED <<round, bet, credit>>
  BY <1>7, IdleFollows, CallMatches DEF AbandonRound, Return
<1>8. CASE <<round, bet, credit>>' # <<round, bet, credit>>
  <2>1. Abandoned(s) /\ LateBets(s) = {b \in c.active : bet[b].status # "active"}
    BY <1>1, <1>6, <1>8 DEF Abandoned, Committed, LateBets, Idle
  <2>2. \A b \in c.active : b \in late' \/ bet[b].status = "active"
    BY <2>1, HistoryGrows
  <2>3. c.r \in missed' \/ round[c.r] = c.row
    BY <1>1, <2>1, HistoryGrows DEF MissedRounds
  <2>4. \A r \in Rounds : round'[r].point = round[r].point \/ round[r].point = 0 \/ r \in missed'
    BY <1>4, <1>5, <2>3
  <2>5. Stake \in Nat
    BY CrashAssumption
  <2>6. RoundRows'
    BY <1>4, <1>5 DEF MatchInv, RoundRows
  <2>7. BetRows'
    <3>1. credit' = [b \in Bets |-> credit'[b]]
      BY DEF AbandonRound
    <3>2. ASSUME NEW b \in Bets, b \in c.active
          PROVE  bet'[b].at \in Nat /\ bet'[b].payout \in Nat /\ bet'[b].status = "won" /\ bet'[b].auto = bet[b].auto
      <4>1. bet'[b] = RefundRow(b)
        BY <1>2, <3>2
      <4> QED BY <1>3, <2>5, <4>1
    <3>3. ASSUME NEW b \in Bets
          PROVE  /\ credit'[b] = [win |-> credit'[b].win, refund |-> credit'[b].refund]
                 /\ credit'[b].win \in Nat /\ credit'[b].refund \in Nat
      <4>1. credit[b] = [win |-> credit[b].win, refund |-> credit[b].refund] /\ credit[b].win \in Nat /\ credit[b].refund \in Nat
        BY DEF MatchInv, BetRows
      <4>2. CASE b \in c.active
        <5>1. credit'[b] = [win |-> credit[b].win, refund |-> credit[b].refund + Stake]
          BY <1>2, <4>2
        <5> QED BY <2>5, <4>1, <5>1
      <4>3. CASE b \notin c.active
        BY <1>2, <4>1, <4>3
      <4> QED BY <4>2, <4>3
    <3> QED BY <1>2, <3>1, <3>2, <3>3 DEF MatchInv, BetRows
  <2>8. LostIsCrashed'
    <3>1. ASSUME NEW b \in Bets, bet'[b].status = "lost" PROVE bet[b].status = "lost"
      <4>1. b \notin c.active
        BY <1>2, <1>3, <3>1
      <4> QED BY <1>2, <3>1, <4>1
    <3> QED BY <1>4, <1>5, <3>1, BetsOfRounds DEF MatchInv, LostIsCrashed, RoundOf
  <2>9. ASSUME NEW r \in Rounds, r # c.r, NEW b \in BetsOf(r) PROVE bet'[b] = bet[b]
    <3>1. b \in Bets /\ b \notin c.active
      BY <1>1, <2>9, BetsOfRounds
    <3> QED BY <1>2, <3>1
  <2>10. (\A t \in Sessions : Follows(call[t]))'
    BY <1>6, <2>4, <2>9, HistoryGrows, CallsStay DEF CrashInv, SettlesAll
  <2>11. \A b \in Bets \ late' : Matches(b)' /\ BelowItsPoint(b)'
    <3> SUFFICES ASSUME NEW b \in Bets \ late' PROVE Matches(b)' /\ BelowItsPoint(b)'
      OBVIOUS
    <3>1. Matches(b) /\ BelowItsPoint(b) /\ missed \subseteq missed' /\ RoundOf(b) \in Rounds
      BY HistoryGrows, BetsOfRounds DEF MatchInv, BetsMatchCredits
    <3>2. CASE b \in c.active
      <4>1. credit[b].win = 0 /\ credit[b].refund = 0
        <5>1. bet[b].status = "active" /\ credit[b].refund = 0
          BY <1>2, <2>2, <3>2
        <5>2. credit[b].win \in Nat
          BY DEF MatchInv, BetRows
        <5> QED BY <3>1, <5>1, <5>2 DEF Matches
      <4>2. credit'[b].win = 0 /\ credit'[b].refund = Stake /\ bet'[b].status = "won" /\ bet'[b].payout = Stake
        <5>1. bet'[b] = RefundRow(b) /\ credit'[b] = [win |-> credit[b].win, refund |-> credit[b].refund + Stake]
          BY <1>2, <3>2
        <5> QED BY <1>3, <2>5, <4>1, <5>1
      <4> QED BY <2>5, <4>2 DEF Matches, BelowItsPoint
    <3>3. CASE b \notin c.active
      <4>1. Matches(b)'
        BY <1>2, <3>1, <3>3 DEF Matches
      <4>2. bet[b].at \in Nat
        BY DEF MatchInv, BetRows
      <4>3. bet'[b] = bet[b] /\ credit'[b] = credit[b]
        BY <1>2, <3>3
      <4>4. RoundOf(b) \in missed' \/ round'[RoundOf(b)].point = round[RoundOf(b)].point \/ round[RoundOf(b)].point = 0
        BY <2>4, <3>1
      <4>5. BelowItsPoint(b)'
        BY <3>1, <4>2, <4>3, <4>4 DEF BelowItsPoint, RoundOf
      <4> QED BY <4>1, <4>5
    <3> QED BY <3>2, <3>3
  <2>12. \A r \in Rounds \ missed' : BetsOf(r)' \cap late' = {} => Summed(r)'
    <3> SUFFICES ASSUME NEW r \in Rounds \ missed', BetsOf(r) \cap late' = {} PROVE Summed(r)'
      BY DEF BetsOf
    <3>1. Summed(r) /\ round'[r].summary = round[r].summary
      BY <1>4, <1>5, HistoryGrows DEF MatchInv, BetsMatchCredits
    <3>2. round[r].summary = <<>> \/ \A b \in BetsOf(r) : bet'[b] = bet[b]
      <4>1. CASE r # c.r
        BY <2>9, <4>1
      <4>2. CASE r = c.r
        <5>1. c.active \subseteq ActiveOf(r)
          BY <1>1, <2>2, <4>2 DEF ActiveOf
        <5>2. ActiveOf(r) # {} => round[r].summary = <<>>
          BY DEF CrashInv, SummedIsClosed
        <5> QED BY <1>2, <5>1, <5>2, BetsOfRounds
      <4> QED BY <4>1, <4>2
    <3> QED BY <3>1, <3>2, SummedStays
  <2> QED BY <2>6, <2>7, <2>8, <2>10, <2>11, <2>12 DEF MatchInv, BetsMatchCredits
<1> QED BY <1>7, <1>8

LEMMA MatchStarts == MCInit => MatchInv
<1> SUFFICES ASSUME MCInit PROVE MatchInv
  OBVIOUS
<1>1. /\ round = [r \in Rounds |-> NoRound] /\ bet = [b \in Bets |-> NoBet]
      /\ credit = [b \in Bets |-> [win |-> 0, refund |-> 0]] /\ call = [s \in Sessions |-> Idle]
  BY DEF MCInit, Init
<1>2. BetRows /\ RoundRows /\ LostIsCrashed
  BY <1>1 DEF BetRows, RoundRows, LostIsCrashed, NoRound, NoBet
<1>3. \A s \in Sessions : Follows(call[s])
  BY <1>1 DEF Follows, Idle
<1>4. BetsMatchCredits
  BY <1>1 DEF BetsMatchCredits, Matches, BelowItsPoint, Summed, NoRound, NoBet
<1> QED BY <1>2, <1>3, <1>4 DEF MatchInv

LEMMA MatchStep == ASSUME CrashInv, MatchInv, [MCNext]_mcvars PROVE MatchInv'
<1>1. CASE UNCHANGED mcvars
  BY <1>1, MatchQuiet DEF mcvars, vars, MatchInv, RoundRows
<1>2. ASSUME MCNext PROVE MatchInv'
  <2>1. CASE Tick
    BY <1>2, <2>1, TickMatch
  <2>2. CASE \E r \in Rounds : StartRound(r)
    BY <1>2, <2>2, StartRoundMatch
  <2>3. CASE \E r \in Rounds, s \in Schedulers : SettleRead(s, r)
    BY <1>2, <2>3, SettleReadMatch DEF Sessions
  <2>4. CASE \E s \in Schedulers : CreateRoundRead(s)
    <3>1. PICK s \in Sessions : CreateRoundRead(s)
      BY <2>4 DEF Sessions
    <3>2. PICK c : c = [op |-> "create"] /\ call' = [call EXCEPT ![s] = c] /\ UNCHANGED <<round, bet, credit>>
      BY <3>1 DEF CreateRoundRead, Call
    <3> QED BY <1>2, <3>2, CallMatches DEF Follows
  <2>5. CASE \E b \in Bets, a \in Autos : PlaceBet(b, a)
    BY <1>2, <2>5, PlaceBetMatch
  <2>6. ASSUME NEW s \in Clients, NEW b \in Bets, NEW m \in Multipliers, CashOutRead(s, b, m) PROVE MatchInv'
    <3>1. PICK c : c = [op |-> "cashout", b |-> b, m |-> m] /\ call' = [call EXCEPT ![s] = c] /\ UNCHANGED <<round, bet, credit>>
      BY <2>6 DEF CashOutRead, Call
    <3>2. m < round'[RoundOf(b)].point
      BY <2>6 DEF CashOutRead, BelowPoint
    <3>3. Follows(c)'
      BY <3>1, <3>2 DEF Follows, CashesBelow, Bets, RoundOf
    <3> QED BY <1>2, <3>1, <3>3, CallMatches DEF Sessions
  <2>7. ASSUME NEW s \in Clients, NEW b \in Bets, AutoCashOut(s, b) PROVE MatchInv'
    <3>1. bet[b].auto \in Multipliers
      BY <2>7, CrashAssumption DEF AutoCashOut, MatchInv, BetRows
    <3>2. PICK m \in Multipliers : m = bet[b].auto
      BY <3>1
    <3> QED BY <2>6, <2>7, <3>2 DEF AutoCashOut
  <2>8. ASSUME NEW s \in Booting, NEW r \in Rounds, AbandonCandidate(s, r) PROVE MatchInv'
    <3>1. PICK c : c = [op |-> "candidate", r |-> r] /\ call' = [call EXCEPT ![s] = c] /\ UNCHANGED <<round, bet, credit>>
      BY <2>8 DEF AbandonCandidate, Call
    <3> QED BY <1>2, <3>1, CallMatches DEF Follows, Sessions
  <2>9. ASSUME NEW s \in Sessions, AbandonRead(s) PROVE MatchInv'
    <3>1. PICK r : r = call[s].r
      OBVIOUS
    <3>2. r \in Rounds
      BY <2>9, <3>1 DEF AbandonRead, MatchInv, Follows
    <3>3. PICK c : /\ c = [op |-> "abandon", r |-> r, row |-> round[r], active |-> With(BetsOf(r), "active")]
                   /\ call' = [call EXCEPT ![s] = c] /\ UNCHANGED <<round, bet, credit>>
      BY <2>9, <3>1 DEF AbandonRead
    <3>4. c.op = "abandon" /\ c.r = r /\ c.active \subseteq BetsOf(r)
      BY <3>3 DEF With
    <3> QED BY <1>2, <3>2, <3>3, <3>4, CallMatches DEF Follows, BetsOf
  <2>10. ASSUME NEW s \in Sessions, Refuse(s) \/ Die(s) PROVE MatchInv'
    BY <1>2, <2>10, IdleFollows, CallMatches DEF Refuse, Die, Return
  <2>11. ASSUME NEW s \in Sessions, Finish(s) PROVE MatchInv'
    BY <1>2, <2>9, <2>10, <2>11, CreateRoundMatch, CashOutMatch, SettleRoundMatch, AbandonRoundMatch DEF Finish
  <2> QED
    BY <1>2, <2>1, <2>2, <2>3, <2>4, <2>5, <2>6, <2>7, <2>8, <2>10, <2>11 DEF MCNext, Next, Schedule
<1> QED BY <1>1, <1>2

\* cashOut, settleRound, abandonStaleRounds: what a bet was credited is what its row says, a
\* cash-out was paid below the crash point of its round, and the summary of a round adds up to
\* its bets, unless a settlement or a refund wrote to a bet or a round that had changed.
THEOREM CreditsMatchBets == MCSpec => []BetsMatchCredits
<1>1. MCInit => CrashInv
  BY InitInv DEF MCInit
<1>2. CrashInv /\ [MCNext]_mcvars => CrashInv'
  <2>1. [MCNext]_mcvars => [Next]_vars
    BY DEF MCNext, mcvars
  <2> QED BY <2>1, NextInv
<1>3. MatchInv => BetsMatchCredits
  BY DEF MatchInv
<1> QED BY <1>1, <1>2, <1>3, MatchStarts, MatchStep, PTL DEF MCSpec
=============================================================================
