--------------------------- MODULE BingoSettlement --------------------------
(***************************************************************************)
(* The settlement of one Bingo room, as src/src/bingo/bingo.service.ts     *)
(* computes it inside a transaction that holds the lock of the room's row. *)
(*                                                                         *)
(* Every operator takes the rows "g" of the transaction and gives those it *)
(* leaves: the room, its tickets and their wallet credits; where the code  *)
(* shuffles, it gives the set of rows it may leave.  The cards and the     *)
(* order in which balls come are fixed by "deal": g.deal[c][p] is the draw *)
(* that completes the pattern of place p on card c.  In pattern mode a     *)
(* place stands for a pattern, in line mode place 1 for the full house.    *)
(***************************************************************************)
EXTENDS Integers, FiniteSets, FiniteSetsExt, Functions, Folds

CONSTANTS
  Tickets,              \* 1..n, in the order of createdAt
  Humans, Bots,
  CoolingBots,          \* bots that won one of the last rooms
  Cards, Places,        \* 1..n; place 1 is the first place
  Balls,                \* size of the ball pool
  Edge,                 \* house edge in percent
  PatternPrize          \* prize of a pattern, in pattern mode

Users == Humans \cup Bots
Modes == {"race", "leaderboard", "pattern", "line"}
AllDeals == [Cards -> [Places -> 1..Balls]]
AllConfigs == [places : {P \in SUBSET Places : 1 \in P}, weight : [Places -> Nat], cap : Nat,
            minDraws : Nat, botWinMode : {"off", "guaranteed", "hybrid", "cartel-dual"}, below : Nat]

ASSUME SettlementAssumption ==
  /\ Tickets \subseteq Nat \ {0} /\ Places \subseteq Nat \ {0} /\ 1 \in Places /\ Cards \subseteq Nat \ {0}
  /\ IsFiniteSet(Tickets) /\ IsFiniteSet(Places) /\ IsFiniteSet(Cards)
  /\ Balls \in Nat \ {0} /\ Edge \in 0..100 /\ PatternPrize \in Nat
  /\ CoolingBots \subseteq Bots /\ Humans \cap Bots = {}

-----------------------------------------------------------------------------
NewRoom(price) ==
  [status |-> "open", sold |-> 0, start |-> "none", drawn |-> 0, price |-> price,
   settled |-> {}, winners |-> [p \in Places |-> {}], shown |-> [p \in Places |-> 0]]
NoTicket == [status |-> "none", pending |-> FALSE, user |-> "none", card |-> 0, auto |-> TRUE,
             tiers |-> {}, payout |-> 0, stake |-> 0, forfeited |-> 0]
Idle == [op |-> "idle"]

\* creditInSession: a wallet credit is made once per key; another amount under the key
\* of an earlier credit is refused, and with it the transaction.  "due" says what the
\* tickets of its domain get.
CreditKeys == ({"settlement", "reconcile"} \X Places) \cup ({"refund", "noresult", "cartela"} \X {0})
Credited(x, key, amount) == [x EXCEPT ![key] = IF @ = 0 THEN amount ELSE @]
CreditEach(g, key, due) ==
  LET New == {t \in DOMAIN due : due[t] > 0} IN
  [g EXCEPT !.credit = [t \in Tickets |-> IF t \in New THEN Credited(g.credit[t], key, due[t]) ELSE g.credit[t]],
            !.refused = g.refused \/ \E t \in New : g.credit[t][key] \notin {0, due[t]}]
Credit(g, t, key, amount) == CreditEach(g, key, [u \in {t} |-> amount])

With(g, statuses) == {t \in Tickets : g.ticket[t].status \in statuses}
Live(g) == {t \in Tickets : g.ticket[t].status \notin {"none", "cancelled"}}   \* countSoldTickets
InPlay(g) == With(g, {"active", "won"})
PendingDq(g) == {t \in With(g, {"disqualified"}) : g.ticket[t].pending}
UserOf(g, t) == g.ticket[t].user
RealPlayers(g) == {UserOf(g, t) : t \in Live(g)} \ Bots
Completes(g, t, p) == g.room.drawn >= g.deal[g.ticket[t].card][p]

\* Step after step for the places of P, the lowest first; each step is applied to the
\* result of the one before as a function, so that TLC computes that result once.
Each(Step(_, _), start, P) == MapThenFoldSet(LAMBDA p, h : [k \in {h} |-> Step(k, p)][h], start, LAMBDA p : p, Max, P)

-----------------------------------------------------------------------------
\* Prizes.  computePrefilledPrizeMinor shares the pool among the enabled places,
\* computePrefilledFinalPrizeMinor among those that were filled.
Pool(g) == (Cardinality(Live(g)) * g.room.price * (100 - Edge)) \div 100
Weight(c, P) == SumFunctionOnSet(c.weight, P)
Share(g, p, P, c) == IF Weight(c, P) > 0 THEN (Pool(g) * c.weight[p]) \div Weight(c, P) ELSE 0
ProgressivePrize(g, p, c) == Share(g, p, c.places, c)
FinalPrize(g, p, c) == Share(g, p, g.room.settled, c)

OpenPlaces(g, c) == c.places \ g.room.settled
PlaceWinners(g) == UNION {g.room.winners[p] : p \in Places}

\* awardDerashPlace: one place per card, one place per bot.
AwardableTwice(g, t) == TRUE
Awardable(g, t) ==
  /\ t \notin PlaceWinners(g)
  /\ UserOf(g, t) \in Bots => UserOf(g, t) \notin {UserOf(g, w) : w \in PlaceWinners(g)}

\* A place is settled: its prize as shown, the card that won it.
Settled(room, p, W, prize) == [room EXCEPT !.settled = @ \cup {p}, !.winners[p] = W, !.shown[p] = prize]
Winner(row, p, prize) == [row EXCEPT !.status = "won", !.pending = FALSE, !.tiers = @ \cup {p}, !.payout = @ + prize]
Award(g, t, p, c) ==
  LET prize == ProgressivePrize(g, p, c) IN
  [Credit(g, t, <<"settlement", p>>, prize) EXCEPT !.ticket[t] = Winner(g.ticket[t], p, prize), !.room = Settled(g.room, p, {t}, prize)]

\* awardDerashPlaceToHouse: the place closes, nobody is credited.
Forfeiter(row, prize) == [row EXCEPT !.pending = FALSE, !.forfeited = @ + prize]
AwardToHouse(g, t, p, c) ==
  LET prize == ProgressivePrize(g, p, c) IN
  [g EXCEPT !.ticket[t] = Forfeiter(g.ticket[t], prize), !.room = Settled(g.room, p, {}, prize)]

\* A place goes to one of several candidates: a step has a set of outcomes, as the
\* candidates are shuffled.  0 stands for "no bot to hand the win to".
BelowThreshold(g, c) == Cardinality(RealPlayers(g)) < c.below
CartelDual(g, c) == BelowThreshold(g, c) /\ c.botWinMode = "cartel-dual"
Redirects(g, c) == BelowThreshold(g, c) /\ c.botWinMode \in {"guaranteed", "hybrid", "cartel-dual"}
AwardedBots(g) == {UserOf(g, t) : t \in {w \in InPlay(g) : g.ticket[w].tiers # {}}} \cap Bots

\* pickBotRedirectWinner: a bot whose card completes the place, or any with a made-up
\* winning card, which the balls drawn so far may not allow.
RedirectTo(g, p) ==
  LET Of(Excluded) == {t \in InPlay(g) : UserOf(g, t) \in Bots \ Excluded}
      Chosen == IF Of(AwardedBots(g) \cup CoolingBots) # {} THEN Of(AwardedBots(g) \cup CoolingBots)
                ELSE IF Of(AwardedBots(g)) # {} THEN Of(AwardedBots(g)) ELSE Of({})
      Natural == {t \in Chosen : Completes(g, t, p)} IN
  IF Natural # {} THEN Natural ELSE Chosen \cup {0}

Candidates(g, p) ==
  {t \in InPlay(g) : g.ticket[t].auto /\ Completes(g, t, p) /\ UserOf(g, t) \notin AwardedBots(g) \cup CoolingBots}

Awardees(g, t, p, c) ==
  IF ~Redirects(g, c) \/ UserOf(g, t) \in Bots THEN {t}
  ELSE (RedirectTo(g, p) \ {0}) \cup (IF 0 \notin RedirectTo(g, p) THEN {} ELSE IF CartelDual(g, c) THEN {0} ELSE {t})

AwardOutcomes(g, p, c) ==
  LET C == Candidates(g, p)
      OK(a) == a # 0 /\ Awardable(g, a)
      Final == IF CartelDual(g, c) /\ g.room.drawn >= Balls THEN RedirectTo(g, p) ELSE {0}
      Tried == IF C = {} THEN Final ELSE UNION {Awardees(g, t, p, c) : t \in C}
      MayFail == IF C = {} THEN \E a \in Final : ~OK(a) ELSE \A t \in C : \E a \in Awardees(g, t, p, c) : ~OK(a) IN
  {Award(g, a, p, c) : a \in {b \in Tried : OK(b)}} \cup (IF MayFail THEN {g} ELSE {})

\* Places still open after the honest cards go to the house when a card that was
\* disqualified, and is not resolved yet, completes them.
HouseOutcome(g, Dq, p, c) ==
  LET W == {t \in Dq : Completes(g, t, p)} IN IF W = {} THEN g ELSE AwardToHouse(g, Min(W), p, c)

AwardPlaces(g, c) == Each(LAMBDA G, p : UNION {AwardOutcomes(h, p, c) : h \in G}, {g}, OpenPlaces(g, c))
ForfeitPlaces(g, c) == Each(LAMBDA h, p : HouseOutcome(h, PendingDq(g), p, c), g, OpenPlaces(g, c))
EvaluateDerash(g, c) == IF InPlay(g) = {} THEN {g} ELSE {ForfeitPlaces(a, c) : a \in AwardPlaces(g, c)}

-----------------------------------------------------------------------------
\* reconcileDerashPool: the top-up from the progressive to the final prize, as the
\* configuration of now computes both; without any filled place stakes go back.
TopUp(g, p, c) == FinalPrize(g, p, c) - ProgressivePrize(g, p, c)
Beneficiaries(g, p, c) == IF TopUp(g, p, c) > 0 THEN g.room.winners[p] ELSE {}

TopUpPlace(g, p, c) ==
  LET W == Beneficiaries(g, p, c)  up == TopUp(g, p, c)
      shown == [g EXCEPT !.room.shown[p] = FinalPrize(g, p, c)] IN
  IF W = {} THEN shown
  ELSE LET t == CHOOSE w \in W : TRUE
       IN [Credit(shown, t, <<"reconcile", p>>, up) EXCEPT !.ticket[t].payout = @ + up]

RefundedRow(row) == [row EXCEPT !.status = "cancelled", !.pending = FALSE]
Refund(g, S, why) ==
  [CreditEach(g, <<why, 0>>, [t \in S |-> g.ticket[t].stake])
    EXCEPT !.ticket = [t \in Tickets |-> IF t \in S THEN RefundedRow(g.ticket[t]) ELSE g.ticket[t]]]

LosersAuto(g) == {t \in With(g, {"active"}) : g.ticket[t].auto}
Losers(g) == With(g, {"active"})
LostRow(row) == [row EXCEPT !.status = "lost", !.pending = FALSE]
MarkLost(g) == [g EXCEPT !.ticket = [t \in Tickets |-> IF t \in Losers(g) THEN LostRow(g.ticket[t]) ELSE g.ticket[t]]]

ReconcileFirst(g, c) == MarkLost(TopUpPlace(g, 1, c))
ResolveDq(g) ==
  [g EXCEPT !.ticket = [t \in Tickets |-> IF t \in PendingDq(g) THEN Forfeiter(g.ticket[t], 0) ELSE g.ticket[t]]]
TopUpPlaces(g, c) == Each(LAMBDA h, p : TopUpPlace(h, p, c), g, g.room.settled)
ReconcilePool(g, c) ==
  LET h == ResolveDq(g) IN
  IF h.room.settled = {} THEN Refund(h, InPlay(h), "noresult")
  ELSE MarkLost(TopUpPlaces(h, c))

Completed(g) == [g EXCEPT !.room.status = "completed"]

Done(g, c) ==
  \/ Cardinality(g.room.settled) >= Cardinality(c.places)
  \/ InPlay(g) = {} /\ PendingDq(g) = {}
  \/ g.room.drawn >= Balls
FinalizeDerashIfDone(g, c) == IF Done(g, c) THEN ReconcilePool(Completed(g), c) ELSE g

-----------------------------------------------------------------------------
\* Leaderboard: cards ranked by the hardest place they completed, then by who was first.
Best(g, t, P) == Min({p \in P : Completes(g, t, p)})
Before(g, P, t, u) ==
  LET At(x) == g.deal[g.ticket[x].card][Best(g, x, P)] IN
  \/ Best(g, t, P) < Best(g, u, P)
  \/ Best(g, t, P) = Best(g, u, P) /\ (At(t) < At(u) \/ (At(t) = At(u) /\ t < u))
Ranked(g, P) == {t \in InPlay(g) : UserOf(g, t) \notin CoolingBots /\ \E p \in P : Completes(g, t, p)}

\* The queue meets the places: a bot's card is passed over behind another one of it.
Queue(g, P) ==
  {t \in Ranked(g, P) : UserOf(g, t) \in Bots => \A u \in Ranked(g, P) : Before(g, P, u, t) => UserOf(g, u) # UserOf(g, t)}
Seated(g, P, p) ==
  {t \in Queue(g, P) : Cardinality({u \in Queue(g, P) : Before(g, P, u, t)}) = Cardinality({q \in P : q < p})}
SeatOne(h, g, p, c) ==
  LET W == Seated(g, OpenPlaces(g, c), p) IN IF W = {} THEN h ELSE Award(h, CHOOSE t \in W : TRUE, p, c)
SettleLeaderboard(g, c) ==
  IF InPlay(g) = {} THEN g ELSE ReconcilePool(Each(LAMBDA h, p : SeatOne(h, g, p, c), g, OpenPlaces(g, c)), c)

ProgressLeaderboard(g, c) ==
  IF InPlay(g) = {} THEN ReconcilePool(Completed(g), c)
  ELSE IF g.room.drawn >= Balls \/ (g.room.drawn >= c.minDraws /\ \E t \in InPlay(g) : Completes(g, t, 1))
       THEN Completed(SettleLeaderboard(g, c)) ELSE g

\* Pattern mode: the cards that complete a pattern on one draw split its prize, and
\* stay in play; line mode: the oldest card with a full house takes the pool.
PatternShare(n, i) == (PatternPrize \div n) + (IF i <= PatternPrize % n THEN 1 ELSE 0)
PatternWinner(row, share) == [row EXCEPT !.status = "won", !.payout = @ + share]
SettlePattern(g, p) ==
  LET W == {t \in Live(g) : Completes(g, t, p)}
      share(t) == PatternShare(Cardinality(W), Cardinality({u \in W : u <= t})) IN
  IF W = {} THEN g
  ELSE [CreditEach(g, <<"settlement", p>>, [t \in W |-> share(t)])
         EXCEPT !.ticket = [t \in Tickets |-> IF t \in W THEN PatternWinner(g.ticket[t], share(t)) ELSE g.ticket[t]],
                !.room = Settled(g.room, p, W, PatternPrize)]
SettlePatterns(g) == Each(SettlePattern, g, Places \ g.room.settled)

SettleFullHouse(g) ==
  LET W == {t \in Live(g) : Completes(g, t, 1)}  w == Min(W) IN
  IF W = {} \/ 1 \in g.room.settled THEN g
  ELSE [Credit(g, w, <<"settlement", 1>>, Pool(g))
         EXCEPT !.ticket[w] = Winner(g.ticket[w], 1, Pool(g)), !.room = Settled(g.room, 1, {w}, Pool(g))]

SettleFixed(g, c, goals) ==
  LET h == IF g.room.drawn < c.minDraws THEN g ELSE IF g.mode = "pattern" THEN SettlePatterns(g) ELSE SettleFullHouse(g)
  IN IF goals \subseteq h.room.settled \/ h.room.drawn >= Balls THEN MarkLost(Completed(h)) ELSE h

-----------------------------------------------------------------------------
\* cancelRoomWithRefundsInSession: what is not settled yet is refunded.
UnsettledOrWon(g) == InPlay(g)
Unsettled(g) == {t \in Tickets : g.ticket[t].pending}
Cancelled(g) == [Refund(g, Unsettled(g), "refund") EXCEPT !.room.status = "cancelled", !.room.sold = 0]

\* The row of the room stays as it is once it is completed or cancelled.
OverOnceCompleted(g) == g.room.status = "completed"
Over(g) == g.room.status \in {"completed", "cancelled"}

Drawn(g, c) ==
  LET h == [g EXCEPT !.room.status = "running", !.room.drawn = @ + 1] IN
  CASE g.mode = "race" ->
         {FinalizeDerashIfDone(k, c) : k \in IF h.room.drawn >= c.minDraws THEN EvaluateDerash(h, c) ELSE {h}}
    [] g.mode = "leaderboard" -> {ProgressLeaderboard(h, c)}
    [] g.mode = "pattern" -> {SettleFixed(h, c, Places)}
    [] g.mode = "line" -> {SettleFixed(h, c, {1})}

Exhausted(g, c) ==
  CASE g.mode = "race" -> {Completed(ReconcilePool(k, c)) : k \in EvaluateDerash(g, c)}
    [] g.mode = "leaderboard" -> {Completed(SettleLeaderboard(g, c))}
    [] OTHER -> {SettleFixed(g, [c EXCEPT !.minDraws = 0], {})}
=============================================================================
