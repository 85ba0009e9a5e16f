------------------------------- MODULE MCWerk -------------------------------
(***************************************************************************)
(* The Werk runs: rounds driven by two processes that may both believe     *)
(* they lead, and the score sheets a game may end with.                    *)
(***************************************************************************)
EXTENDS WerkRound

CONSTANTS Setups   \* of "round", "rounds", "leases" and "sheets": what a behaviour is about

VARIABLES
  setup,      \* the one of this behaviour
  sheet,      \* the game that is scored
  shared,     \* rounds two processes have held at once
  disturbed   \* rounds a request was committed on after their lobby

NoSheet == [humans |-> <<>>]
Humans == {"h1", "h2"}
SheetBots == {"b1", "b2"}
TwoBots(coins, reached) == [b \in SheetBots |-> [id |-> IF b = "b1" THEN 1 ELSE 2, coin |-> coins[b], reached |-> reached[b]]]
SheetOptions(mode, below, force) ==
  [mode |-> mode, botsEnabled |-> TRUE, payingRanks |-> 2, poolTotal |-> 4, onboarding |-> TRUE, botWinGames |-> 1,
   userWinGames |-> 1, winControl |-> TRUE, houseBelow |-> below, forceLose |-> force]
Plays == [coin : {0, 1, 3}, reached : BOOLEAN, games : 0..2]
BotPlays == {TwoBots(c, [b \in SheetBots |-> x]) : c \in [SheetBots -> {0, 3, 4}], x \in BOOLEAN}
Sheets ==
  [humans : [Humans -> Plays], bots : BotPlays, rng : {[b \in SheetBots |-> x] : x \in {0, 11}},
   o : {SheetOptions("A", 0, FALSE), SheetOptions("B", 3, FALSE), SheetOptions("A", 0, TRUE)}]

MCInit ==
  /\ Init /\ shared = {} /\ disturbed = {} /\ setup \in Setups
  /\ IF setup = "sheets" THEN sheet \in Sheets ELSE sheet = NoSheet

Holds(p, r) == (live'[p] # None /\ live'[p].r = r) \/ (op'[p] # None /\ op'[p].do = "cancel" /\ op'[p].r = r)
Shares == {r \in Rounds : \E p, q \in Processes : p # q /\ Holds(p, r) /\ Holds(q, r)}
Late == {call[u].r : u \in {v \in Users : call[v] # None /\ call'[v] # call[v] /\ ~(call[v].attached /\ LobbyOf(call[v].p))}}
\* Bounds: one round of two users, two rounds one of them joins, or the leases of two
\* processes over one user's call; whoever opens the first round is called p1.
Joining == \A u \in Users : call'[u] # None => call'[u].do \in {"join", "joined"}
Bounded ==
  /\ setup = "round" => round'[2].status = "none" /\ calls'["u2"] < 2
  /\ setup = "rounds" => calls'["u2"] = 0 /\ Joining
  /\ setup = "leases" => calls'["u2"] = 0 /\ calls'["u1"] < 2 /\ faults' < 2
  /\ setup # "leases" => redisReady' /\ ~Lapse
  /\ round[1].status = "none" /\ round'[1].status # "none" => live'["p1"] # None
MCNext ==
  /\ setup # "sheets" /\ Next /\ Bounded /\ UNCHANGED <<setup, sheet>>
  /\ shared' = shared \cup Shares /\ disturbed' = disturbed \cup Late
mcvars == <<vars, setup, sheet, shared, disturbed>>
MCSpec == MCInit /\ [][MCNext]_mcvars /\ Fairness

FirstPays == <<200, 0, 0>>
GameOptions ==
  [mode |-> "A", botsEnabled |-> TRUE, payingRanks |-> 1, poolTotal |-> 3, onboarding |-> TRUE, botWinGames |-> 0,
   userWinGames |-> 1, winControl |-> FALSE, houseBelow |-> 0, forceLose |-> FALSE]

Undisturbed(r) == r \notin shared \cup disturbed

-----------------------------------------------------------------------------
\* Nobody gets his stake back and a prize for one round, whatever crashes, rolls back or
\* runs at once, as long as no two processes hold the round (settleRound, cancelRoundRow).
PaidOrRefunded ==
  \A r \in Rounds, u \in Users : r \in shared \/ Of("refund", r, u) = {} \/ Of("prize", r, u) = {}

\* A round that is over has settled or refunded everybody who paid for it, as long as no
\* request was committed after its lobby and no two processes held it.
NobodyForgotten ==
  \A r \in Rounds : round[r].status \in {"completed", "cancelled"} /\ Undisturbed(r) =>
    \A u \in Users : Of("stake", r, u) # {} => part[r][u] \in Done

\* A stake is settled or refunded in the end, through crashes and settlements that roll back,
\* as long as leadership is exclusive: a process that leads again with a round another has
\* closed in its memory keeps the open one waiting.
StakesEnd ==
  \A r \in Rounds, u \in Users : part[r][u] \in {"joined", "playing"} ~> part[r][u] \in Done \/ shared # {} \/ r \in disturbed

SheetRequired(req) == Required(sheet.humans, sheet.o, req)
SheetStandings == Standings(sheet.rng, sheet.humans, sheet.bots, sheet.o)

\* A promised winner ranks before every bot, unless he has no coin or is out of a game that
\* wants the centre reached; where nobody was promised a win, losers are out of the ranks
\* that pay, unless one of them has every coin.
ControlHolds ==
  setup = "sheets" =>
    /\ \A k \in SheetRequired("win"), b \in SheetBots :
         sheet.humans[k].coin > 0 /\ Eligible(sheet.humans[k], sheet.o.mode) => SheetStandings[k].rank < SheetStandings[b].rank
    /\ (SheetRequired("win") = {} /\ \A k \in SheetRequired("lose") : sheet.humans[k].coin < sheet.o.poolTotal) =>
         \A k \in SheetRequired("lose") : computePrize(<<300, 100>>, 10, SheetStandings[k]) = 0
=============================================================================
