------------------------------- MODULE MCPool -------------------------------
(***************************************************************************)
(* Casts and properties of the pool runs: a duel of two players (or one    *)
(* against the bot) and a bracket of four, left to the clock or played.    *)
(***************************************************************************)
EXTENDS PoolTournament

CONSTANTS
  Entrant,  \* the users, in the order in which they register
  Setups     \* of "duel", "bracket", "abandoned", "played": what a behaviour is about

ASSUME EntrantAssumption == Entrant \in [1..Size -> Users] /\ IsInjective(Entrant)

VARIABLES
  setup,         \* the one of this behaviour
  overwritten    \* matches on which a shot was written after their end

\* Before a bracket all but one have registered.
Registered == IF setup = "duel" THEN <<>> ELSE [i \in 1..(Size - 1) |-> Entrant[i]]

MCInit ==
  /\ setup \in Setups /\ overwritten = {}
  /\ match = [m \in Matches |-> NoMatch] /\ queue = {} /\ crashes = 0 /\ call = [s \in Sessions |-> Idle]
  /\ t = [status |-> "registering", players |-> Registered, pool |-> EntryFee * Len(Registered), eliminated |-> {},
          winner |-> None]
  /\ ledger = {Movement(<<"entry">>, Registered[i], -EntryFee) : i \in DOMAIN Registered}

Overwrites == {m \in Matches : match[m].status = "completed" /\ match'[m].shots # match[m].shots}
\* Bounds: nobody shoots in an abandoned bracket; in one that is played nobody dies, and it is
\* started once.
MCNext ==
  /\ Next /\ overwritten' = overwritten \cup Overwrites /\ setup' = setup
  /\ IF setup = "duel"
     THEN t' = t /\ queue' \subseteq {"u1", "u2"} /\ \A s \in Sessions : call'[s].op # "start"
     ELSE match'[0] = match[0] /\ queue' = queue
  /\ setup = "abandoned" => \A s \in Sessions : call'[s].op # "checked"
  /\ setup = "played" => crashes' = crashes /\ \A s \in Sessions : call'[s].op = "start" => t.status = "registering"
mcvars == <<vars, setup, overwritten>>
MCSpec == MCInit /\ [][MCNext]_mcvars /\ Fairness

TwoHaveStake == [u \in Users |-> IF u \in {"u1", "u2"} THEN 10 ELSE 5]
FewShots == [m \in Matches |-> CASE m = 0 -> 3 [] m = 1 -> 1 [] OTHER -> 0]
TwoOrders == {[i \in 1..Size |-> i], [i \in 1..Size |-> IF i <= 2 THEN i + 2 ELSE i - 2]}
OneOrder == {[i \in 1..Size |-> i]}
InOrder == <<"u1", "u2", "u3", "u4">>
PrizeWeights == <<3, 2, 1>>

Payouts == {e \in ledger : e.key = <<"payout", 0>>}

-----------------------------------------------------------------------------
\* However shots, double submits and time-outs interleave, a match for a stake that is over has
\* paid its human winner, once and nobody else, and a match that is not over has paid nobody, as
\* long as no shot was written on a match already over (settleWithinTx under the
\* compare-and-set of applyResolvedShot and handleShotTimeout).
WinnerPaid ==
  0 \in overwritten \/
  Payouts = IF Stake > 0 /\ match[0].status = "completed" /\ WinnerOf(match[0]) \in Users
            THEN {Movement(<<"payout", 0>>, WinnerOf(match[0]), Payout)} ELSE {}

\* "Set once winnings/refunds have been settled (idempotency guard)": a match pays once.
PaidOnce == Cardinality(Payouts) <= 1

PrizeCredits == {e \in ledger : e.key = <<"prize">>}

\* The prizes of a tournament add up to its pool after the rake, once it is completed, and
\* are nothing before, whatever is completed twice (completeTournament, computeTournamentPayouts).
PrizesAddUp ==
  SumFunctionOnSet([e \in PrizeCredits |-> e.amount], PrizeCredits) =
    IF t.status = "completed" THEN (t.pool * (100 - PrizeRakePct)) \div 100 ELSE 0

FirstRound == {m \in Brackets : m >= Size \div 2}
PlayersOf(m) == {match[m].seat[s] : s \in Seats}

\* Two starts at once, the two ends of the semi-finals at once: nobody plays in two matches
\* of the first round, a later match is between the winners of the two that feed it, and the winner
\* of the tournament is the winner of the final (start, onMatchCompleted).
BracketFollows ==
  /\ \A m, n \in FirstRound : m # n /\ NoMatch \notin {match[m], match[n]} => PlayersOf(m) \cap PlayersOf(n) = {}
  /\ \A m \in Brackets \ FirstRound : match[m] # NoMatch /\ overwritten \cap {2 * m, 2 * m + 1} = {} =>
       match[m].seat = [A |-> WinnerOf(match[2 * m]), B |-> WinnerOf(match[2 * m + 1])]
  /\ t.status = "completed" /\ overwritten = {} => t.winner = WinnerOf(match[1])

\* Every match that is played comes to its end, abandoned or not, with the turn passing or a
\* forfeit, whoever dies (the shot clock): time and again no match is under way.  And the end of
\* both semi-finals makes the final, and its end pays the prizes, whichever call sees the other's
\* commit, unless a process died or a match was written over.
PlayEnds ==
  /\ []<>(\A m \in Matches : match[m].status # "active")
  /\ t.status = "active" ~> t.status = "completed" \/ crashes > 0 \/ overwritten # {}
=============================================================================
