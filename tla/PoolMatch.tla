----------------------------- MODULE PoolMatch ------------------------------
(***************************************************************************)
(* Matches of 8-ball: src/src/pool/pool-match.service.ts, the queue of     *)
(* pool-matchmaking.service.ts and the shot clock of                       *)
(* pool-scheduler.service.ts.                                              *)
(*                                                                         *)
(* A call reads the row of a match without a lock and writes it later, in  *)
(* a transaction that compares some columns with what was read.  Match 0   *)
(* is the one a player starts alone or that the queue pairs; the others    *)
(* are the bracket of a tournament, match 1 its final, fed by 2 and 3.     *)
(***************************************************************************)
EXTENDS PoolRules, FiniteSetsExt, Sequences

CONSTANTS
  Users, Funds,             \* players and what each has in the wallet
  Clients, Schedulers, Admins,
  Stake, RakePct,           \* stake of match 0
  Brackets,                 \* the matches of the tournament
  TimeoutLimit,             \* maxTimeoutFouls
  MaxShots,                 \* bound on the shots of each match
  MaxCrashes                \* bound on processes that die in a call

Sessions == Clients \cup Schedulers \cup Admins
Matches == Brackets \cup {0}
Bot == "bot"

ASSUME MatchAssumption ==
  /\ None \notin Users /\ Bot \notin Users /\ Funds \in [Users -> Nat] /\ Stake \in Nat /\ RakePct \in 0..100
  /\ Brackets \subseteq Nat \ {0}
  /\ TimeoutLimit \in Nat \ {0} /\ MaxShots \in [Matches -> Nat] /\ MaxCrashes \in Nat

VARIABLES
  match,    \* pool_matches
  queue,    \* pool_queue_entries: the users who wait
  ledger,   \* wallet movements: key, user, amount
  call,     \* per session: the call between its reads and its commit
  crashes

Idle == [op |-> "idle"]
NoMatch == [status |-> "none", mode |-> None, seat |-> [s \in Seats |-> None], game |-> newGame("A"), shots |-> 0,
            timeouts |-> [s \in Seats |-> 0], deadline |-> "none", settled |-> FALSE]

CreatedUntimed(mode, a, b, breaker) ==
  [NoMatch EXCEPT !.status = "active", !.mode = mode, !.seat = [A |-> a, B |-> b], !.game = newGame(breaker)]

\* createMatch
Created(mode, a, b, breaker) ==
  [NoMatch EXCEPT !.status = "active", !.mode = mode, !.seat = [A |-> a, B |-> b], !.game = newGame(breaker),
                  !.deadline = "set"]

Call(s, c) == call[s] = Idle /\ call' = [call EXCEPT ![s] = c]
Goto(s, c) == call' = [call EXCEPT ![s] = c]
Return(s) == Goto(s, Idle)

\* debitInSession, creditInSession: once per key and user.
Movement(key, u, amount) == [key |-> key, user |-> u, amount |-> amount]
Balance(u) == Funds[u] + MapThenSumSet(LAMBDA e : e.amount, {e \in ledger : e.user = u})

-----------------------------------------------------------------------------
\* createSingleMatch, join, leave.
CreateSingleMatch(u) ==
  /\ match[0] = NoMatch /\ Balance(u) >= Stake
  /\ match' = [match EXCEPT ![0] = Created("single", u, Bot, "A")]
  /\ ledger' = ledger \cup {Movement(<<"stake", 0>>, u, -Stake)}
  /\ UNCHANGED <<queue, call, crashes>>

Without(u) == queue \ {u}

\* The locking read of the queue keeps two joins apart; without funds all is rolled back.
JoinQueue(u) ==
  /\ Without(u) = {} /\ queue' = {u} /\ UNCHANGED <<match, ledger, call, crashes>>

\* Whoever waits is found by the next to join, so that no second one ever waits.
JoinPaired(u) ==
  \E w \in Without(u) :
    /\ match[0] = NoMatch /\ Balance(u) >= Stake /\ Balance(w) >= Stake
    /\ queue' = queue \ {u, w}
    /\ match' = [match EXCEPT ![0] = Created("two_player", w, u, "A")]
    /\ ledger' = ledger \cup {Movement(<<"stake", 0>>, v, -Stake) : v \in {u, w}}
    /\ UNCHANGED <<call, crashes>>

Leave(u) == u \in queue /\ queue' = Without(u) /\ UNCHANGED <<match, ledger, call, crashes>>

-----------------------------------------------------------------------------
\* submitShot: the match and the turn are checked on one read ...
SubmitShot(s, u, m) ==
  \E seat \in Seats :
    /\ match[m].status = "active" /\ match[m].seat[seat] = u /\ seat = match[m].game.turn
    /\ match[m].shots < MaxShots[m]
    /\ Call(s, [op |-> "checked", m |-> m, seat |-> seat]) /\ UNCHANGED <<match, queue, ledger, crashes>>

\* ... applyResolvedShot reads it again, and plays the shot for whoever is on turn then ...
ReadShot(s) ==
  LET c == call[s]  row == match[c.m] IN
  /\ c.op = "checked" /\ row.shots < MaxShots[c.m]
  /\ Goto(s, [op |-> "shot", m |-> c.m, seat |-> c.seat, index |-> row.shots, turn |-> row.game.turn,
             phase |-> IF row.game.phase = "break" THEN "break" ELSE "play", settled |-> row.settled])
  /\ UNCHANGED <<match, queue, ledger, crashes>>

\* settleWithinTx
Pot == Stake * 2
Payout == Pot - (Pot * RakePct) \div 100
Settles(m, winner, settled) ==
  /\ winner # None /\ ~settled /\ match[m].mode # "tournament" /\ Stake > 0 /\ match[m].seat[winner] # Bot

PaidIfSettled(m, winner, settled) ==
  ledger \cup (IF Settles(m, winner, settled) THEN {Movement(<<"payout", m>>, match[m].seat[winner], Payout)} ELSE {})

\* What a call does once its transaction is committed: the bracket, or the turns of the bot,
\* if the row it then reads gives the bot the turn.
After(s, m, over, bots) ==
  Goto(s, CASE over /\ match[m].mode = "tournament" -> [op |-> "completed", m |-> m]
            [] bots /\ match[m].mode = "single" -> [op |-> "bots", m |-> m]
            [] OTHER -> Idle)

\* ... and writes it where the count of shots is still the one it read.
LaterShot(c) == match[c.m].shots >= c.index
SameShot(c) == match[c.m].shots = c.index

Reset(row, seat) == [row EXCEPT !.timeouts[seat] = 0]
CommitShot(s) ==
  LET c == call[s]  row == match[c.m]
      pre == [row.game EXCEPT !.turn = c.turn, !.phase = c.phase, !.winner = None] IN
  /\ c.op = "shot" /\ SameShot(c)
  /\ \E game \in Outcomes[pre] :
       LET over == game.phase = "gameover" IN
       /\ match' = [match EXCEPT ![c.m] =
            [Reset(row, c.seat) EXCEPT !.game = game, !.shots = c.index + 1, !.status = IF over THEN "completed" ELSE "active",
               !.settled = Settles(c.m, game.winner, c.settled), !.deadline = IF over THEN "none" ELSE "set"]]
       /\ ledger' = PaidIfSettled(c.m, game.winner, c.settled)
       /\ After(s, c.m, over, TRUE)
  /\ UNCHANGED <<queue, crashes>>

\* runBotTurns, as long as the bot is on turn, on a row read anew for each shot; the code's cap
\* on the shots of one call is above MaxShots.
BotTurn(s) ==
  LET c == call[s]  row == match[c.m]  turn == row.game.turn IN
  /\ c.op = "bots"
  /\ IF row.status = "active" /\ row.seat[turn] = Bot /\ row.shots < MaxShots[c.m]
     THEN Goto(s, [op |-> "checked", m |-> c.m, seat |-> turn]) ELSE Return(s)
  /\ UNCHANGED <<match, queue, ledger, crashes>>

-----------------------------------------------------------------------------
\* findTimedOutMatches, handleShotTimeout.
TimeoutRead(s, m) ==
  LET row == match[m]  turn == row.game.turn IN
  /\ row.status = "active" /\ row.deadline = "due"
  /\ Call(s, [op |-> "timeout", m |-> m, offender |-> turn, prior |-> row.timeouts[turn], index |-> row.shots, settled |-> row.settled])
  /\ UNCHANGED <<match, queue, ledger, crashes>>

\* The compare-and-set of a timeout.
StillDue(c) == match[c.m].status = "active" /\ match[c.m].shots = c.index /\ match[c.m].timeouts[c.offender] = c.prior

Forfeits(c) == c.prior + 1 >= TimeoutLimit
HandleShotTimeout(s) ==
  LET c == call[s]  opponent == otherSeat(c.offender)
      charged == [match[c.m] EXCEPT !.timeouts[c.offender] = c.prior + 1] IN
  /\ c.op = "timeout" /\ StillDue(c)
  /\ IF Forfeits(c)
     THEN /\ match' = [match EXCEPT ![c.m] =
               [charged EXCEPT !.status = "completed", !.game = [@ EXCEPT !.phase = "gameover", !.winner = opponent],
                               !.deadline = "none", !.settled = Settles(c.m, opponent, c.settled)]]
          /\ ledger' = PaidIfSettled(c.m, opponent, c.settled)
     ELSE /\ match' = [match EXCEPT ![c.m] =
               [charged EXCEPT !.game = [@ EXCEPT !.turn = opponent], !.deadline = "set"]]
          /\ UNCHANGED ledger
  /\ After(s, c.m, Forfeits(c), ~Forfeits(c)) /\ UNCHANGED <<queue, crashes>>

\* The compare-and-set fails (or the bound on shots is met): the call ends with an error.
Conflict(s) ==
  LET c == call[s] IN
  /\ \/ c.op = "shot" /\ ~SameShot(c)
     \/ c.op = "timeout" /\ ~StillDue(c)
     \/ c.op = "checked" /\ match[c.m].shots >= MaxShots[c.m]
  /\ Return(s) /\ UNCHANGED <<match, queue, ledger, crashes>>

Die(s) ==
  /\ call[s] # Idle /\ crashes < MaxCrashes /\ crashes' = crashes + 1
  /\ Return(s) /\ UNCHANGED <<match, queue, ledger>>

\* The shot clock runs out.
Tick(m) ==
  /\ match[m].deadline = "set" /\ match' = [match EXCEPT ![m].deadline = "due"]
  /\ UNCHANGED <<queue, ledger, call, crashes>>

PlayStep(s) == ReadShot(s) \/ CommitShot(s) \/ BotTurn(s) \/ HandleShotTimeout(s) \/ Conflict(s)
=============================================================================
