----------------------------- MODULE BingoRoom ------------------------------
(***************************************************************************)
(* One Bingo room from its first sale to the commissions of its agents:    *)
(* src/src/bingo/bingo.service.ts, called by players, the administration   *)
(* and the ticks of src/src/scheduler/bingo.scheduler.ts.                  *)
(*                                                                         *)
(* Every transaction on a room locks its row first and is one step.  What  *)
(* a call reads before it holds the lock is a step of its own: the         *)
(* configuration, the snapshot of a purchase, the row an edit saves back.  *)
(***************************************************************************)
EXTENDS BingoSettlement

CONSTANTS
  Agents,
  AgentOf,              \* the agent of a human: referredByAgentId, else assignedAgentId
  Prices, CommissionPct,
  Configs, Deals,       \* the configurations the administration sets, the decks dealt
  Schedulers, Admins, Clients,
  MaxCrashes            \* bound on processes that die in a call

Sessions == Schedulers \cup Admins \cup Clients

ASSUME BingoAssumption ==
  /\ Prices # {} /\ Prices \subseteq Nat \ {0} /\ CommissionPct \in 0..100
  /\ Configs \subseteq AllConfigs /\ Deals \subseteq AllDeals /\ MaxCrashes \in Nat /\ AgentOf \in [Humans -> Agents]

VARIABLES
  room,         \* bingo_rooms, the row of this room
  ticket,       \* bingo_tickets
  card,         \* bingo_cards.assignedTicketId, 0 when free
  credit,       \* wallet credits of a ticket, by kind
  commission,   \* wallet credits of agents
  cfg,          \* bingo_config
  deal, mode,
  call,         \* per session: the call between its read and its commit
  crashes

rows == <<room, ticket, card, credit, commission>>
vars == <<rows, cfg, deal, mode, call, crashes>>

Rows == [room |-> room, ticket |-> ticket, credit |-> credit, deal |-> deal, mode |-> mode,
         refused |-> FALSE]
Prefilled == mode \in {"race", "leaderboard"}

Init ==
  /\ room \in {NewRoom(p) : p \in Prices}
  /\ ticket = [t \in Tickets |-> NoTicket] /\ card = [c \in Cards |-> 0]
  /\ credit = [t \in Tickets |-> [k \in CreditKeys |-> 0]]
  /\ commission = [a \in Agents |-> 0]
  /\ cfg \in Configs /\ deal \in Deals /\ mode \in Modes
  /\ call = [s \in Sessions |-> Idle] /\ crashes = 0

Call(s, c) == call[s] = Idle /\ call' = [call EXCEPT ![s] = c]
Return(s) == call' = [call EXCEPT ![s] = Idle]
Commit(g, cards) ==
  IF g.refused THEN UNCHANGED <<room, ticket, card, credit>>
  ELSE room' = g.room /\ ticket' = g.ticket /\ card' = cards /\ credit' = g.credit
AllFree == [k \in Cards |-> 0]
Settings == <<cfg, deal, mode>>

-----------------------------------------------------------------------------
\* purchaseTickets: the lookup of earlier tickets of the key fixes the snapshot.
OwnedBy(u) == {t \in Live(Rows) : ticket[t].user = u}
PurchaseRead(s, u, n) ==
  /\ Call(s, [op |-> "purchase", u |-> u, n |-> n, sold |-> room.sold, owned |-> Cardinality(OwnedBy(u))])
  /\ UNCHANGED <<rows, Settings, crashes>>

\* isCartelaChangeLocked: near the start, and after it.
ChangeLocked == room.start \in {"locked", "due", "overdue"}

\* maxCartelasPerUser, counted in the snapshot.
WithinCap(c) == cfg.cap > 0 => c.owned + c.n <= cfg.cap

\* The save of the room writes the columns that differ from the snapshot.
SoldSaved(c) == IF room.sold + c.n = c.sold THEN room.sold ELSE room.sold + c.n

CardAny(k) == TRUE
CardFree(k) == card[k] = 0

NextTickets(n) == {t \in Tickets : ticket[t] = NoTicket /\
                     Cardinality({u \in Tickets : u < t /\ ticket[u] = NoTicket}) < n}

\* One card for each new ticket: those the player asks for in a room with filled cards,
\* any that are free otherwise.
Sold(c, cardOf) ==
  LET T == DOMAIN cardOf
      row(t) == [NoTicket EXCEPT !.status = "active", !.pending = TRUE, !.user = c.u, !.stake = room.price, !.card = cardOf[t]] IN
  /\ ticket' = [t \in Tickets |-> IF t \in T THEN row(t) ELSE ticket[t]]
  /\ card' = [k \in Cards |-> IF \E t \in T : cardOf[t] = k THEN CHOOSE t \in T : cardOf[t] = k ELSE card[k]]

NotFull(c) == ~Prefilled => room.sold + c.n <= Cardinality(Cards)

Purchase(s) ==
  LET c == call[s] IN
  /\ c.op = "purchase" /\ room.status = "open" /\ ~ChangeLocked /\ WithinCap(c) /\ NotFull(c)
  /\ Cardinality(NextTickets(c.n)) = c.n
  /\ \E cardOf \in Injection(NextTickets(c.n), {k \in Cards : CardFree(k)}) : Sold(c, cardOf)
  /\ room' = [room EXCEPT !.sold = SoldSaved(c), !.start = IF room.sold = 0 THEN "counting" ELSE @]
  /\ Return(s) /\ UNCHANGED <<credit, commission, Settings, crashes>>

\* releaseCartela: the stake goes back; a room without real players is cancelled.
ReleaseCartela(t) ==
  LET g == [Refund(Rows, {t}, "cartela") EXCEPT !.room.sold = IF @ > 0 THEN @ - 1 ELSE 0] IN
  /\ Prefilled /\ room.status = "open" /\ ~ChangeLocked /\ ticket[t].status = "active"
  /\ IF RealPlayers(g) = {} THEN Commit(Cancelled(g), AllFree) ELSE Commit(g, [card EXCEPT ![ticket[t].card] = 0])
  /\ UNCHANGED <<commission, Settings, call, crashes>>

SetAutoClaim(u, auto) ==
  /\ \E t \in Tickets : ticket[t].user = u /\ ticket[t].status = "active"
  /\ ticket' = [t \in Tickets |-> IF ticket[t].user = u /\ ticket[t].status = "active"
                                  THEN [ticket[t] EXCEPT !.auto = auto] ELSE ticket[t]]
  /\ UNCHANGED <<room, card, credit, commission, Settings, call, crashes>>

-----------------------------------------------------------------------------
\* findRoomsToStart, findRunningRoomIdsDue: the tick lists the room, and draws it later.
Due == room.status = "running" \/
  (room.status = "open" /\ room.sold > 0 /\ room.start \in {"due", "overdue"} /\ Live(Rows) # {})

DrawRead(s) ==
  /\ s \in Schedulers => Due
  /\ Call(s, [op |-> "draw", cfg |-> cfg]) /\ UNCHANGED <<rows, Settings, crashes>>

\* A call that leaves the room completed goes on to the commissions.
Return1(s, g) == call' = [call EXCEPT ![s] = IF g.room.status = "completed" /\ ~g.refused THEN [op |-> "commission", todo |-> Agents]
                                             ELSE Idle]

Unplayed == room.status = "open" /\ RealPlayers(Rows) = {}
DrawOutcomes(c) ==
  IF Over(Rows) THEN {Rows}
  ELSE IF Live(Rows) = {} THEN {IF room.status = "running" THEN [Rows EXCEPT !.room.status = "cancelled"] ELSE Rows}
  ELSE IF Unplayed THEN {Cancelled(Rows)}
  ELSE IF room.drawn >= Balls THEN Exhausted(Rows, c) ELSE Drawn(Rows, c)

DrawNextNumber(s) ==
  /\ call[s].op = "draw"
  /\ \E g \in DrawOutcomes(call[s].cfg) :
       Commit(g, IF ~Over(Rows) /\ Live(Rows) # {} /\ Unplayed THEN AllFree ELSE card) /\ Return1(s, g)
  /\ UNCHANGED <<commission, Settings, crashes>>

ClaimRead(s, t) ==
  /\ ticket[t].status # "none" /\ Call(s, [op |-> "claim", t |-> t, cfg |-> cfg])
  /\ UNCHANGED <<rows, Settings, crashes>>

Claimed(t, c) == {p \in OpenPlaces(Rows, c) : Completes(Rows, t, p)}

\* A claim of one place: rows after it, and whether the place was held for a bot.
ClaimPlace(x, t, p, c) ==
  LET A == IF CartelDual(x.g, c) /\ ticket[t].user \notin Bots THEN RedirectTo(x.g, p) ELSE {t} IN
  {IF a = 0 THEN [x EXCEPT !.held = TRUE] ELSE IF Awardable(x.g, a) THEN [x EXCEPT !.g = Award(x.g, a, p, c)] ELSE x : a \in A}

ClaimPlaces(t, c) ==
  Each(LAMBDA X, p : UNION {ClaimPlace(x, t, p, c) : x \in X}, {[g |-> Rows, held |-> FALSE]}, Claimed(t, c))

Loser(row, pending) == [row EXCEPT !.status = "disqualified", !.pending = pending]
Disqualified(t, pending) == [Rows EXCEPT !.ticket[t] = Loser(ticket[t], pending)]

RaceClaim(x, t, c) ==
  IF x.g # Rows THEN FinalizeDerashIfDone(x.g, c)
  ELSE IF x.held \/ ticket[t].tiers # {} THEN Rows
  ELSE FinalizeDerashIfDone(Disqualified(t, TRUE), c)

LeaderboardClaim(t, c) == IF ticket[t].tiers # {} \/ Claimed(t, c) # {} THEN Rows ELSE Disqualified(t, FALSE)

ClaimOutcomes(t, c) ==
  IF ticket[t].status \notin {"active", "won"} THEN {Rows}
  ELSE IF mode = "leaderboard" THEN {LeaderboardClaim(t, c)}
  ELSE {RaceClaim(x, t, c) : x \in ClaimPlaces(t, c)}

ClaimBingo(s) ==
  LET c == call[s] IN
  /\ c.op = "claim" /\ Prefilled /\ room.status = "running"
  /\ \E g \in ClaimOutcomes(c.t, c.cfg) : Commit(g, card) /\ Return1(s, g)
  /\ UNCHANGED <<commission, Settings, crashes>>

-----------------------------------------------------------------------------
\* settleReferralCommission, agent by agent, once per agent by its key; an error
\* (the key is being written by another call) ends it.
Staked(a) == SumFunctionOnSet([t \in Tickets |-> ticket[t].stake], {t \in Live(Rows) : ticket[t].user \in Humans /\ AgentOf[ticket[t].user] = a})
ServiceFee(a) == (Staked(a) * Edge) \div 100
Commission(a) == (ServiceFee(a) * CommissionPct) \div 100
PaidCommissionAgain(a) == commission[a] + Commission(a)
PaidCommission(a) == IF commission[a] = 0 THEN Commission(a) ELSE commission[a]

SettleReferralCommission(s, a) ==
  /\ call[s].op = "commission" /\ a \in call[s].todo
  /\ commission' = [commission EXCEPT ![a] = PaidCommission(a)]
  /\ call' = [call EXCEPT ![s] = IF @.todo = {a} THEN Idle ELSE [op |-> "commission", todo |-> @.todo \ {a}]]
  /\ UNCHANGED <<room, ticket, card, credit, Settings, crashes>>

CommissionFails(s) ==
  /\ call[s].op = "commission" /\ \E q \in Sessions \ {s} : call[q].op = "commission" /\ call[q].todo \cap call[s].todo # {}
  /\ Return(s) /\ UNCHANGED <<rows, Settings, crashes>>

-----------------------------------------------------------------------------
\* cancelRoom, by the administration or for want of players ...
CancelRoom ==
  /\ ~Over(Rows) /\ Commit(Cancelled(Rows), AllFree)
  /\ UNCHANGED <<commission, Settings, call, crashes>>

\* ... and by the reaper, ten minutes after the scheduled start, running or not.
Reap == room.start = "overdue" /\ CancelRoom

UpdateBingoConfig(c) == cfg' = c /\ UNCHANGED <<rows, deal, mode, call, crashes>>

\* The bots' names, a new room name, another price for a room without sales: the
\* room is read without a lock, and saved whole.
EditRead(s, price) ==
  /\ price = room.price \/ room.sold = 0
  /\ Call(s, [op |-> "edit", row |-> [room EXCEPT !.price = price]]) /\ UNCHANGED <<rows, Settings, crashes>>

EditSave(s) ==
  /\ call[s].op = "edit" /\ room' = call[s].row /\ Return(s)
  /\ UNCHANGED <<ticket, card, credit, commission, Settings, crashes>>

-----------------------------------------------------------------------------
\* A check fails, the transaction is rolled back.
Refuse(s) ==
  LET c == call[s] IN
  /\ \/ /\ c.op = "purchase"
        /\ room.status # "open" \/ ChangeLocked \/ ~WithinCap(c) \/ Cardinality({k \in Cards : CardFree(k)}) < c.n
     \/ c.op = "claim" /\ (room.status # "running" \/ ~Prefilled)
  /\ Return(s) /\ UNCHANGED <<rows, Settings, crashes>>

Die(s) ==
  /\ call[s] # Idle /\ crashes < MaxCrashes /\ crashes' = crashes + 1
  /\ Return(s) /\ UNCHANGED <<rows, Settings>>

Later == [counting |-> "locked", locked |-> "due", due |-> "overdue"]
Tick ==
  /\ ~Over(Rows) /\ room.start \in DOMAIN Later /\ room' = [room EXCEPT !.start = Later[@]]
  /\ UNCHANGED <<ticket, card, credit, commission, Settings, call, crashes>>

Finish(s) ==
  \/ Purchase(s) \/ DrawNextNumber(s) \/ ClaimBingo(s) \/ EditSave(s) \/ Refuse(s)
  \/ \E a \in Agents : SettleReferralCommission(s, a)

Next ==
  \/ Tick \/ CancelRoom \/ Reap
  \/ \E c \in Configs : UpdateBingoConfig(c)
  \/ \E t \in Tickets : ReleaseCartela(t)
  \/ \E u \in Users, auto \in BOOLEAN : SetAutoClaim(u, auto)
  \/ \E s \in Clients, u \in Users, n \in 1..Cardinality(Cards) : PurchaseRead(s, u, n)
  \/ \E s \in Clients, t \in Tickets : ClaimRead(s, t)
  \/ \E s \in Schedulers \cup Admins : DrawRead(s)
  \/ \E s \in Admins, price \in Prices : EditRead(s, price)
  \/ \E s \in Sessions : Finish(s) \/ CommissionFails(s) \/ Die(s)

\* The tick of a live process fires again and again, an await resolves.
Fairness ==
  /\ WF_vars(Tick) /\ WF_vars(Reap) /\ WF_vars(\E s \in Schedulers : DrawRead(s))
  /\ \A s \in Sessions : WF_vars(Finish(s))
Spec == Init /\ [][Next]_vars /\ Fairness

-----------------------------------------------------------------------------

\* A ticket's row says what its owner was credited: its payout when it won, its stake
\* when it was cancelled, nothing otherwise.
CreditedBy(t, kinds) == SumFunctionOnSet(credit[t], {k \in CreditKeys : k[1] \in kinds})
Prizes(t) == CreditedBy(t, {"settlement", "reconcile"})
Matches(t) ==
  /\ Prizes(t) = ticket[t].payout
  /\ ticket[t].status # "won" => Prizes(t) = 0
  /\ CreditedBy(t, {"refund", "noresult", "cartela"}) = IF ticket[t].status = "cancelled" THEN ticket[t].stake ELSE 0

\* The pool of a completed room is shared among the places that were filled, a
\* rounding apart; the prizes shown are those paid, or forfeited to the house.
PaidOut == SumFunctionOnSet([t \in Tickets |-> Prizes(t)], Tickets)
PoolShared ==
  LET shown == SumFunctionOnSet(room.shown, room.settled) IN
  room.settled # {} =>
    /\ shown \in (Pool(Rows) - Cardinality(room.settled))..Pool(Rows)
    /\ \A p \in room.settled : \A t \in room.winners[p] : Prizes(t) = room.shown[p]
    /\ PaidOut <= Pool(Rows)

\* The cards in play are handed out once each, and the counter counts them.
CardsHandedOut ==
  /\ \A t \in Tickets : ticket[t].status \in {"active", "won", "disqualified"} => card[ticket[t].card] = t
  /\ \A k \in Cards : card[k] # 0 => ticket[card[k]].card = k
SoldCounted == room.sold = Cardinality(Live(Rows))
=============================================================================
