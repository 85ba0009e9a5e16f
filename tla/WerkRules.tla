----------------------------- MODULE WerkRules ------------------------------
(***************************************************************************)
(* The outcome of a Werk round: src/src/werk/round/win-control.ts and the  *)
(* prize of src/src/werk/werk.service.ts.  Humans and bots are functions   *)
(* from keys to [coin, reached], humans with the games they settled        *)
(* before, bots with their id.  A value of the random generator counts     *)
(* twelfths, so that its thirds and quarters are whole.                    *)
(***************************************************************************)
EXTENDS Integers, FiniteSets, FiniteSetsExt

onboardingRequirement(h, o) ==
  CASE ~o.onboarding -> "neutral"
    [] o.onboarding /\ h.games < o.botWinGames -> "lose"
    [] o.onboarding /\ h.games \in o.botWinGames..(o.botWinGames + o.userWinGames - 1) -> "win"
    [] OTHER -> "neutral"

\* House rules turn a neutral human into a loser and never touch a promised win.
HouseLoses(humans, o) == o.winControl /\ (Cardinality(DOMAIN humans) < o.houseBelow \/ o.forceLose)
Requirement(humans, k, o) ==
  LET req == onboardingRequirement(humans[k], o) IN
  IF req = "neutral" /\ HouseLoses(humans, o) THEN "lose" ELSE req

Required(humans, o, req) == {k \in DOMAIN humans : Requirement(humans, k, o) = req}
Coins(humans, keys) == {humans[k].coin : k \in keys}

Clamp(v, o) == Max({0, Min({o.poolTotal, v})})
SomeBot(bots, o) == Min({o.payingRanks, Cardinality(DOMAIN bots)})
\* The bots by falling coin value, ties in their order; Place counts from 0.
Place(bots, b) ==
  Cardinality({c \in DOMAIN bots : bots[c].coin > bots[b].coin \/ (bots[c].coin = bots[b].coin /\ bots[c].id < bots[b].id)})
TopBots(bots, o) == {b \in DOMAIN bots : Place(bots, b) < SomeBot(bots, o)}
Reached(bot, o) == o.mode = "B" \/ bot.reached

\* With winners: every bot below the lowest of them, the first ones above the losers if there is room.
AnyWinner(coins) == Max(coins)
WinFloor(coins) == Min(coins)
BelowWinners(rng, bots, o, winFloor, loseCoins) ==
  LET ceil == Max({0, winFloor - 1})
      capped == [b \in DOMAIN bots |-> [bots[b] EXCEPT !.coin = Clamp(Min({@, ceil}), o)]]
      target(b) == Max(loseCoins) + 1 + rng[b] \div 4 IN
  IF loseCoins = {} \/ \E v \in loseCoins : ceil <= v THEN capped
  ELSE [b \in DOMAIN bots |->
          IF b \notin TopBots(capped, o) THEN capped[b]
          ELSE [capped[b] EXCEPT !.coin = Clamp(Min({Max({@, target(b)}), ceil}), o), !.reached = Reached(capped[b], o)]]

\* With losers only: as many bots as ranks pay strictly above the highest of them.
AboveLosers(rng, bots, o, loseCeil) ==
  LET target(b) == loseCeil + 1 + (SomeBot(bots, o) - Place(bots, b)) * 4 + rng[b] \div 3 IN
  [b \in DOMAIN bots |->
     IF b \notin TopBots(bots, o) THEN bots[b]
     ELSE [bots[b] EXCEPT !.coin = Clamp(Max({@, target(b)}), o), !.reached = Reached(bots[b], o)]]

applyRoundWinControl(rng, humans, bots, o) ==
  LET win == Coins(humans, Required(humans, o, "win"))  lose == Coins(humans, Required(humans, o, "lose")) IN
  CASE ~o.botsEnabled \/ win \cup lose = {} -> bots
    [] o.botsEnabled /\ win # {} -> BelowWinners(rng, bots, o, WinFloor(win), lose)
    [] o.botsEnabled /\ win = {} /\ lose # {} -> AboveLosers(rng, bots, o, Max(lose))

-----------------------------------------------------------------------------
\* rankParticipants: those out of the labyrinth's centre rank last in mode B.
Eligible(e, mode) == mode = "B" => e.reached
rankParticipants(mode, entries) ==
  LET in == {k \in DOMAIN entries : Eligible(entries[k], mode)}
      rank(k) == 1 + Cardinality({l \in in : entries[l].coin > entries[k].coin}) IN
  [k \in DOMAIN entries |->
     IF k \in in THEN [rank |-> rank(k), tie |-> Cardinality({l \in in : entries[l].coin = entries[k].coin}), eligible |-> TRUE]
     ELSE [rank |-> Cardinality(DOMAIN entries), tie |-> 1, eligible |-> FALSE]]

\* mults[r] is what rank r pays per hundred of the stake.
computePrize(mults, stake, ranked) ==
  IF ranked.eligible /\ ranked.rank \in DOMAIN mults /\ mults[ranked.rank] > 0
  THEN ((stake * mults[ranked.rank]) \div 100) \div ranked.tie ELSE 0

\* What settleRound pays each human.
Standings(rng, humans, bots, o) ==
  LET after == applyRoundWinControl(rng, humans, bots, o) IN
  rankParticipants(o.mode,
    [k \in DOMAIN humans \cup DOMAIN bots |-> IF k \in DOMAIN humans THEN humans[k] ELSE after[k]])
=============================================================================
