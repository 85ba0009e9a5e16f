----------------------------- MODULE WerkRound ------------------------------
(***************************************************************************)
(* The shared Werk rounds: src/src/werk/round/werk-round-manager.service.ts*)
(* driven by src/src/scheduler/werk.scheduler.ts under the leader lock of  *)
(* src/src/redis/redis-lock.service.ts.  A process holds the round it      *)
(* drives in memory and saves it whole; the rows of rounds, participants   *)
(* and ledger are shared.  Every wait for the database is a step boundary. *)
(***************************************************************************)
EXTENDS WerkRules, Sequences

CONSTANTS
  Users, Processes, Rounds,    \* rounds are numbered in the order of their creation
  None,
  Stake, MaxPlayers,
  Bots, CoinValues, Draws,     \* what a game may end with, and the draws of the generator
  Options, Mults,              \* the configuration of the outcome and its paytable
  MaxFaults,                   \* bound: leases lapsed, outages, failed settlements and crashes
  MaxCalls                     \* bound: calls of one user

ASSUME WerkAssumption ==
  Rounds \subseteq Nat /\ IsFiniteSet(Rounds) /\ Stake \in Nat /\ MaxPlayers \in Nat /\ MaxFaults \in Nat /\ MaxCalls \in Nat

\* What a process and a user hold between two steps.
LiveRounds ==
  [r : Rounds, status : {"lobby", "running", "settling", "completed"}, scheduled : BOOLEAN, humans : SUBSET Users,
   timeUp : BOOLEAN]
Ops ==
  [do : {"open", "rehydrate", "save", "mark"}] \cup [do : {"cancel"}, r : Rounds, why : {"restart", "empty", "unwatched"}]
    \cup [do : {"settle"}, humans : UNION {[H -> 0..Cardinality(Rounds)] : H \in SUBSET Users}]
Calls ==
  [do : {"join", "joined", "leave", "left"}, p : Processes, r : Rounds, attached : BOOLEAN, scheduled : BOOLEAN]
ASSUME NoneAssumption == None \notin LiveRounds \cup Ops \cup Calls

VARIABLES
  round,    \* the rows: status, whether the active guard is set, whether the start is scheduled
  part,     \* part[r][u]: status of the participant, "none" without a row
  ledger,   \* the movements of werk_round
  live,     \* live[p]: the round p drives, from its memory, or None
  op,       \* op[p]: what p's lifecycle goes on with, or None
  call,     \* call[u]: the request of u that is being served, or None
  calls,    \* how many u has made
  lease, redisReady, faults
vars == <<round, part, ledger, live, op, call, calls, lease, redisReady, faults>>

Done == {"settled", "refunded"}
Movement(kind, r, u, amount, why) == [kind |-> kind, round |-> r, user |-> u, amount |-> amount, why |-> why]
Of(kind, r, u) == {e \in ledger : e.kind = kind /\ e.round = r /\ e.user = u}
\* creditInSession: a key that was used for something else refuses the transaction.
Refused(movements) == \E e \in movements : \E f \in Of(e.kind, e.round, e.user) : f # e

Goto(p, next) == op' = [op EXCEPT ![p] = next]
Over(p) == Goto(p, None)
Active == {r \in Rounds : round[r].guard}

\* renewLeadership: the lock of Redis excludes, the locks kept in memory exclude nobody else.
Free == lease = None
Leads(p) == ~redisReady \/ lease = p \/ Free
Tick(p) ==
  /\ op[p] = None /\ Leads(p)
  /\ lease' = IF redisReady THEN p ELSE lease
Unled == UNCHANGED <<lease, redisReady, faults>>

Hydrated(r, humans) ==
  [r |-> r, status |-> round[r].status, scheduled |-> round[r].scheduled, humans |-> humans, timeUp |-> FALSE]

\* A request keeps the object it found: when the process lets it go the request has its own.
LetGo(p, r) ==
  [u \in Users |-> IF call[u] # None /\ call[u].p = p /\ call[u].r = r /\ call[u].attached
                   THEN [call[u] EXCEPT !.attached = FALSE, !.scheduled = live[p].scheduled] ELSE call[u]]

-----------------------------------------------------------------------------
\* lifecycle without a live round: loadOrCreateActive.
LoadActive(p) ==
  /\ Tick(p) /\ live[p] = None
  /\ IF Active = {} THEN Goto(p, [do |-> "open"]) /\ UNCHANGED live
     ELSE LET r == CHOOSE r \in Active : TRUE IN
          CASE round[r].status \in {"running", "settling"} ->
                 Goto(p, [do |-> "cancel", r |-> r, why |-> "restart"]) /\ UNCHANGED live
            [] round[r].status = "lobby" ->
                 live' = [live EXCEPT ![p] = Hydrated(r, {})] /\ Goto(p, [do |-> "rehydrate"])
            [] OTHER -> live' = [live EXCEPT ![p] = Hydrated(r, {})] /\ UNCHANGED op
  /\ UNCHANGED <<round, part, ledger, call, calls, redisReady, faults>>

Rehydrate(p) ==
  /\ op[p] # None /\ op[p].do = "rehydrate"
  /\ live' = [live EXCEPT ![p].humans = @ \cup {u \in Users : part[live[p].r][u] = "joined"}]
  /\ Over(p) /\ UNCHANGED <<round, part, ledger, call, calls>> /\ Unled

\* ensureLobby, when somebody watches; the unique guard refuses a second open round.
OpenLobby(p) ==
  /\ op[p] # None /\ op[p].do = "open" /\ Over(p)
  /\ \E present \in BOOLEAN :
       LET new == {r \in Rounds : round[r].status = "none"} IN
       IF present /\ Active = {} /\ new # {}
       THEN /\ round' = [round EXCEPT ![Min(new)] = [status |-> "lobby", guard |-> TRUE, scheduled |-> FALSE]]
            /\ live' = [live EXCEPT ![p] = [r |-> Min(new), status |-> "lobby", scheduled |-> FALSE, humans |-> {},
                                            timeUp |-> FALSE]]
       ELSE UNCHANGED <<round, live>>
  /\ UNCHANGED <<part, ledger, call, calls>> /\ Unled

\* lifecycle in the lobby: the start is due, or nobody is left.  The status in memory changes
\* before the row is saved.
LobbyOf(p) == live[p] # None /\ live[p].status = "lobby"
StartRound(p) ==
  /\ Tick(p) /\ LobbyOf(p) /\ live[p].scheduled /\ live[p].humans # {}
  /\ live' = [live EXCEPT ![p].status = "running"] /\ Goto(p, [do |-> "save"])
  /\ UNCHANGED <<round, part, ledger, call, calls, redisReady, faults>>

GiveUp(p, why) ==
  /\ Tick(p) /\ LobbyOf(p) /\ live[p].humans = {} /\ Goto(p, [do |-> "cancel", r |-> live[p].r, why |-> why])
  /\ UNCHANGED <<round, part, ledger, live, call, calls, redisReady, faults>>
NoPlayers(p) == GiveUp(p, "empty") /\ live[p].scheduled
NobodyWatches(p) == GiveUp(p, "unwatched")

\* save writes every column of the object that differs from the row.
Saved(r, status, scheduled) == [round EXCEPT ![r] = [status |-> status, guard |-> TRUE, scheduled |-> scheduled]]
GuardTaken(r) == Active \ {r} # {}

SaveRunning(p) ==
  /\ op[p] # None /\ op[p].do = "save"
  /\ IF GuardTaken(live[p].r) THEN Over(p) /\ UNCHANGED round
     ELSE round' = Saved(live[p].r, "running", live[p].scheduled) /\ Goto(p, [do |-> "mark"])
  /\ UNCHANGED <<part, ledger, live, call, calls>> /\ Unled

MarkPlaying(p) ==
  /\ op[p] # None /\ op[p].do = "mark" /\ Over(p)
  /\ part' = [part EXCEPT ![live[p].r] = [u \in Users |-> IF u \in live[p].humans THEN "playing" ELSE @[u]]]
  /\ UNCHANGED <<round, ledger, live, call, calls>> /\ Unled

\* cancelRoundRow: one transaction on the locked row, everybody's stake back.
JoinedOnly(r) == {u \in Users : part[r][u] = "joined"}
ToRefund(r) == {u \in Users : part[r][u] \in {"joined", "playing"}}
CancelTx(p) ==
  LET r == op[p].r
      refunds == {Movement("refund", r, u, Stake, <<op[p].why>>) : u \in ToRefund(r)} IN
  /\ op[p] # None /\ op[p].do = "cancel" /\ Over(p)
  /\ IF round[r].status \in {"completed", "cancelled"} THEN UNCHANGED <<round, part, ledger>>
     ELSE IF Refused(refunds) THEN UNCHANGED <<round, part, ledger>>
     ELSE /\ ledger' = ledger \cup refunds
          /\ part' = [part EXCEPT ![r] = [u \in Users |-> IF u \in ToRefund(r) THEN "refunded" ELSE @[u]]]
          /\ round' = [round EXCEPT ![r].status = "cancelled", ![r].guard = FALSE]
  /\ IF live[p] # None /\ (round[r].status \in {"completed", "cancelled"} \/ ~Refused(refunds))
     THEN live' = [live EXCEPT ![p] = None] /\ call' = LetGo(p, r) ELSE UNCHANGED <<live, call>>
  /\ UNCHANGED calls /\ Unled

-----------------------------------------------------------------------------
\* fastTick, on a process that leads: the clock of the round runs out.  A request lasts less
\* than a game.
ElapsedOut(p) ==
  /\ live[p] # None /\ live[p].status = "running" /\ ~live[p].timeUp /\ op[p] = None /\ Leads(p)
  /\ \A u \in Users : call[u] # None => call[u].r # live[p].r
  /\ live' = [live EXCEPT ![p].timeUp = TRUE]
  /\ UNCHANGED <<round, part, ledger, op, call, calls>> /\ Unled

\* After an error the round runs again in memory, for the next tick.
StillSettling == "settling"
AfterError == "running"

\* settleRound: who plays is taken from memory, with the games he has settled before.
SettleRound(p) ==
  /\ Tick(p) /\ live[p] # None /\ live[p].status = "running" /\ live[p].timeUp
  /\ live' = [live EXCEPT ![p].status = "settling"]
  /\ Goto(p, [do |-> "settle", humans |-> [u \in live[p].humans |-> Cardinality({r \in Rounds : part[r][u] = "settled"})]])
  /\ UNCHANGED <<round, part, ledger, call, calls, redisReady, faults>>

\* The games that may have been played, with the standings they end with.
Games ==
  UNION {{[played |-> games,
           standings |-> Standings(rng, [u \in H |-> [coin |-> c[u], reached |-> TRUE, games |-> games[u]]],
                                   [b \in Bots |-> [id |-> 1, coin |-> c[b], reached |-> TRUE]], Options)] :
            games \in [H -> 0..Cardinality(Rounds)], c \in [H \cup Bots -> CoinValues], rng \in [Bots -> Draws]} :
         H \in SUBSET Users}

\* The row is locked; only a completed one is left alone.
Closed(status) == status = "completed"
SettleTx(p) ==
  LET r == live[p].r  humans == DOMAIN op[p].humans IN
  /\ op[p] # None /\ op[p].do = "settle" /\ Over(p)
  /\ IF Closed(round[r].status) THEN UNCHANGED <<round, part, ledger, live>>
     ELSE \E s \in {g.standings : g \in {h \in Games : h.played = op[p].humans}} :
       LET prize(u) == computePrize(Mults, Stake, s[u])
           prizes == {Movement("prize", r, u, prize(u), <<s[u].rank, s[u].tie>>) : u \in {v \in humans : prize(v) > 0}} IN
       IF Refused(prizes)
       THEN live' = [live EXCEPT ![p].status = AfterError] /\ UNCHANGED <<round, part, ledger>>
       ELSE /\ ledger' = ledger \cup prizes
            /\ part' = [part EXCEPT ![r] = [u \in Users |-> IF u \in humans THEN "settled" ELSE @[u]]]
            /\ round' = [round EXCEPT ![r].status = "completed"]
            /\ live' = [live EXCEPT ![p].status = "completed", ![p].scheduled = round[r].scheduled]
  /\ UNCHANGED <<call, calls>> /\ Unled

Finalize(p) ==
  /\ Tick(p) /\ live[p] # None /\ live[p].status = "completed"
  /\ round' = [round EXCEPT ![live[p].r].guard = FALSE]
  /\ live' = [live EXCEPT ![p] = None] /\ call' = LetGo(p, live[p].r) /\ Goto(p, [do |-> "open"])
  /\ UNCHANGED <<part, ledger, calls, redisReady, faults>>

-----------------------------------------------------------------------------
Request(u, p, do) ==
  call' = [call EXCEPT ![u] = [do |-> do, p |-> p, r |-> live[p].r, attached |-> TRUE, scheduled |-> FALSE]]
Called(u) == call[u] = None /\ calls[u] < MaxCalls /\ calls' = [calls EXCEPT ![u] = @ + 1]
Serve(u, do) == call[u] # None /\ call[u].do = do
Continued(u, do) == [call EXCEPT ![u].do = do]

\* join and leave look at the round in the memory of the process that serves them.
JoinCheck(u, p) ==
  /\ Called(u) /\ LobbyOf(p) /\ u \notin live[p].humans /\ Cardinality(live[p].humans) < MaxPlayers
  /\ Request(u, p, "join") /\ UNCHANGED <<round, part, ledger, live, op>> /\ Unled

\* One row for a user and a round; the first join schedules the start, and saves the object.
JoinTx(u) ==
  LET c == call[u]  r == c.r
      scheduled == IF c.attached THEN live[c.p].scheduled ELSE c.scheduled IN
  /\ Serve(u, "join")
  /\ IF part[r][u] # "none" \/ (~scheduled /\ GuardTaken(r))
     THEN /\ call' = [call EXCEPT ![u] = None]
          /\ UNCHANGED <<round, part, ledger>>
     ELSE /\ part' = [part EXCEPT ![r][u] = "joined"]
          /\ ledger' = ledger \cup {Movement("stake", r, u, -Stake, <<"join">>)}
          /\ round' = IF scheduled THEN round ELSE Saved(r, "lobby", TRUE)
          /\ call' = Continued(u, "joined")
  /\ live' = IF c.attached /\ part[r][u] = "none" THEN [live EXCEPT ![c.p].scheduled = TRUE] ELSE live
  /\ UNCHANGED <<op, calls>> /\ Unled

Joined(u) ==
  /\ Serve(u, "joined")
  /\ live' = IF call[u].attached THEN [live EXCEPT ![call[u].p].humans = @ \cup {u}] ELSE live
  /\ call' = [call EXCEPT ![u] = None] /\ UNCHANGED <<round, part, ledger, op, calls>> /\ Unled

LeaveCheck(u, p) ==
  /\ Called(u) /\ LobbyOf(p) /\ u \in live[p].humans
  /\ Request(u, p, "leave") /\ UNCHANGED <<round, part, ledger, live, op>> /\ Unled

LeaveTx(u) ==
  LET r == call[u].r  refund == {Movement("refund", r, u, Stake, <<"left">>)} IN
  /\ Serve(u, "leave")
  /\ IF part[r][u] # "joined" THEN UNCHANGED <<part, ledger>> /\ call' = Continued(u, "left")
     ELSE IF Refused(refund) THEN UNCHANGED <<part, ledger>> /\ call' = [call EXCEPT ![u] = None]
     ELSE /\ ledger' = ledger \cup refund /\ part' = [part EXCEPT ![r][u] = "refunded"]
          /\ call' = Continued(u, "left")
  /\ UNCHANGED <<round, live, op, calls>> /\ Unled

AllHumans(p, u) == live[p].humans
OtherHumans(p, u) == live[p].humans \ {u}

Left(u) ==
  /\ Serve(u, "left")
  /\ live' = IF call[u].attached THEN [live EXCEPT ![call[u].p].humans = OtherHumans(call[u].p, u)] ELSE live
  /\ call' = [call EXCEPT ![u] = None] /\ UNCHANGED <<round, part, ledger, op, calls>> /\ Unled

-----------------------------------------------------------------------------
Fault == faults < MaxFaults /\ faults' = faults + 1
\* A lease ends under a holder that is slow to extend it.
Lapse == Fault /\ lease # None /\ lease' = None /\ UNCHANGED <<round, part, ledger, live, op, call, calls, redisReady>>
Outage == Fault /\ redisReady /\ redisReady' = FALSE /\ UNCHANGED <<round, part, ledger, live, op, call, calls, lease>>
Reconnect == ~redisReady /\ redisReady' = TRUE /\ UNCHANGED <<round, part, ledger, live, op, call, calls, lease, faults>>
\* The transaction of settleRound is rolled back.
SettleFails(p) ==
  /\ Fault /\ op[p] # None /\ op[p].do = "settle" /\ Over(p)
  /\ live' = [live EXCEPT ![p].status = AfterError]
  /\ UNCHANGED <<round, part, ledger, call, calls, lease, redisReady>>
\* A process dies with its memory and the requests it serves; its lease expires.
Crash(p) ==
  /\ Fault /\ (live[p] # None \/ op[p] # None)
  /\ live' = [live EXCEPT ![p] = None] /\ Over(p) /\ lease' = IF lease = p THEN None ELSE lease
  /\ call' = [u \in Users |-> IF call[u] # None /\ call[u].p = p THEN None ELSE call[u]]
  /\ UNCHANGED <<round, part, ledger, calls, redisReady>>

Init ==
  /\ round = [r \in Rounds |-> [status |-> "none", guard |-> FALSE, scheduled |-> FALSE]]
  /\ part = [r \in Rounds |-> [u \in Users |-> "none"]] /\ ledger = {}
  /\ live = [p \in Processes |-> None] /\ op = [p \in Processes |-> None]
  /\ call = [u \in Users |-> None] /\ calls = [u \in Users |-> 0]
  /\ lease = None /\ redisReady = TRUE /\ faults = 0

Lifecycle(p) == LoadActive(p) \/ StartRound(p) \/ NoPlayers(p) \/ NobodyWatches(p) \/ SettleRound(p) \/ Finalize(p)
Continue(p) == Rehydrate(p) \/ OpenLobby(p) \/ SaveRunning(p) \/ MarkPlaying(p) \/ CancelTx(p) \/ SettleTx(p)
Answer(u) == JoinTx(u) \/ Joined(u) \/ LeaveTx(u) \/ Left(u)

Next ==
  \/ \E p \in Processes : Lifecycle(p) \/ Continue(p) \/ ElapsedOut(p) \/ SettleFails(p) \/ Crash(p)
  \/ \E u \in Users : Answer(u) \/ \E p \in Processes : JoinCheck(u, p) \/ LeaveCheck(u, p)
  \/ Lapse \/ Outage \/ Reconnect

\* Requests are answered, the tick comes every second and goes on, the game of a leader is played.
Fairness ==
  /\ \A p \in Processes : /\ WF_vars(StartRound(p)) /\ WF_vars(NoPlayers(p)) /\ WF_vars(ElapsedOut(p)) /\ WF_vars(SettleRound(p))
                          /\ WF_vars(LoadActive(p)) /\ WF_vars(Finalize(p)) /\ WF_vars(Continue(p))
  /\ \A u \in Users : WF_vars(Answer(u))

Spec == Init /\ [][Next]_vars /\ Fairness

TypeOK ==
  /\ \A r \in Rounds : round[r].status \in {"none", "lobby", "running", "settling", "completed", "cancelled"}
  /\ \A r \in Rounds, u \in Users : part[r][u] \in {"none", "joined", "playing"} \cup Done
  /\ \A p \in Processes : live[p] # None => live[p].r \in Rounds /\ live[p].humans \subseteq Users
  /\ \A e \in ledger : e.user \in Users /\ e.round \in Rounds /\ e.amount \in Int
  /\ lease \in Processes \cup {None} /\ faults \in 0..MaxFaults
=============================================================================
