---------------------------- MODULE MCBingoRoom -----------------------------
(* Small instances of BingoRoom, and what holds unless calls overlap.      *)
EXTENDS BingoRoom

CONSTANTS Casts     \* in a behaviour: its mode, its configurations, the users and sessions that act

VARIABLES
  cast,     \* a member of Casts
  used,     \* the configurations that the calls which settled this room computed with
  undone,   \* an edit saved back a row that had changed since it was read
  drifted   \* a purchase committed after the room had changed since its snapshot
mcvars == <<vars, cast, used, undone, drifted>>

Conf(bots, below, cap, places) ==
  [places |-> places, weight |-> [p \in Places |-> 80 - 30 * p], cap |-> cap, minDraws |-> 1,
   botWinMode |-> bots, below |-> below]
Named ==
  [plain |-> Conf("off", 0, 2, Places), one |-> Conf("off", 0, 2, {1}),
   guaranteed |-> Conf("guaranteed", 3, 2, Places), dual |-> Conf("cartel-dual", 3, 2, Places)]
NamedConfigs == {Named[n] : n \in DOMAIN Named}

\* Card 1 completes both places with the second ball, the others with the last ones.
OneDeck == {[k \in Cards |-> [p \in Places |-> IF k = 1 THEN 2 ELSE IF p = 1 THEN Balls ELSE k - 1]]}
AgentsApart == CHOOSE f \in [Humans -> Agents] : \A a \in Agents : \E h \in Humans : f[h] = a

In(name) == name \in cast
InCast ==
  /\ \A s \in Sessions \ cast : call'[s] = Idle
  /\ \A s \in Sessions : call'[s].op = "purchase" => In(call'[s].u) /\ (call'[s].n = 1 \/ In("pair"))
  /\ \A s \in Admins : call[s] = Idle /\ call'[s].op = "edit" => ~undone
  /\ Cardinality({t \in Tickets : ticket'[t] # NoTicket}) <= IF In("three") THEN 3 ELSE IF In("single") THEN 1 ELSE 2
  /\ \A t \in Tickets : ticket'[t].auto = ticket[t].auto \/ (In("manual") /\ ticket[t].auto /\ room.status = "open")
  /\ crashes' > 0 => In("die")
  /\ cfg' = cfg \/ room.status = "running"
  /\ cfg' \in {Named[n] : n \in cast \cap DOMAIN Named}

Settles(s) == call[s].op \in {"draw", "claim"} /\ call'[s] # call[s] /\ <<room, ticket>>' # <<room, ticket>>
Undoes(s) == call[s].op = "edit" /\ call'[s] = Idle /\ room' = call[s].row /\ [room EXCEPT !.price = 0] # [room' EXCEPT !.price = 0]
Stale(c) == room.sold # c.sold \/ Cardinality(OwnedBy(c.u)) # c.owned
Drifts(s) == call[s].op = "purchase" /\ call'[s] = Idle /\ ticket' # ticket /\ Stale(call[s])

\* Any instance with its history, and the behaviours of the casts.
NotedInit == Init /\ used = {} /\ undone = FALSE /\ drifted = FALSE
NotedNext ==
  /\ Next
  /\ used' = used \cup {call[s].cfg : s \in {q \in Sessions : Settles(q)}}
  /\ undone' = (undone \/ \E s \in Sessions : Undoes(s))
  /\ drifted' = (drifted \/ \E s \in Sessions : Drifts(s))
NotedSpec == NotedInit /\ [][NotedNext]_<<vars, used, undone, drifted>>

MCInit ==
  /\ NotedInit /\ cast \in Casts /\ cfg \in {Named[n] : n \in cast \cap DOMAIN Named} /\ mode \in cast
MCNext == NotedNext /\ InCast /\ UNCHANGED cast
MCSpec == MCInit /\ [][MCNext]_mcvars /\ Fairness

-----------------------------------------------------------------------------
\* drawNextNumber, claimBingo, cancelRoom, releaseCartela: what a ticket's owner was
\* credited is what its row says, unless an edit took a settlement back; only the
\* cancellation of a room that draws patterns refunds tickets that have won.
TicketsMatchCredits == \A t \in Tickets : Matches(t) \/ undone \/ (mode = "pattern" /\ room.status = "cancelled" /\ ticket[t].payout > 0)

\* reconcileDerashPool: the whole pool of a completed room goes to the places that were
\* filled, unless the configuration changed between its settlements, or gives them no
\* weight, or the sales were miscounted, which lets the price change.
PoolSharedUnlessChanged ==
  /\ room.status = "completed" /\ Prefilled /\ ~undone /\ ~drifted
  /\ \A c \in used : used = {c} /\ Weight(c, room.settled) > 0
  => PoolShared

\* purchaseTickets, releaseCartela: until the room is over each card in play is held by
\* one ticket; soldTickets counts them, and no player holds more than some configuration
\* allowed, but for stale edits and purchases with a stale snapshot.
WithinSomeCap(u) == \E c \in Configs : c.cap = 0 \/ Cardinality(OwnedBy(u)) <= c.cap
SalesMatch ==
  ~Over(Rows) /\ ~undone => CardsHandedOut /\ (drifted \/ (SoldCounted /\ \A u \in Users : WithinSomeCap(u)))

\* awardDerashPlace: ticks and claims that compete give a place to one card at most, a
\* card is paid for a place it has, and no two places go to one bot.
OneWinnerEach ==
  Prefilled /\ ~undone =>
    /\ \A p \in Places : \A t \in room.winners[p] : room.winners[p] = {t}
    /\ \A t \in Tickets : Prizes(t) > 0 => \E p \in room.settled : room.winners[p] = {t}
    /\ \A p, q \in Places : \A t \in room.winners[p], u \in room.winners[q] :
         p # q /\ ticket[t].user \in Bots => ticket[u].user # ticket[t].user

\* drawNextNumber, claimBingo: no late draw or claim changes what an ended room paid.
OverIsFinal == [][room.status \in {"completed", "cancelled"} => UNCHANGED <<ticket, credit>> \/ undone]_mcvars

\* settleReferralCommission: the agents get their commission, once, unless a process dies.
CommissionsPaid ==
  room.status = "completed" ~> \A a \in Agents : commission[a] = Commission(a) \/ crashes > 0 \/ undone

\* A ticket is not left in play for ever, while processes keep ticking.
TicketsEnd == \A t \in Tickets : ticket[t].status = "active" ~> ticket[t].status # "active" \/ undone
=============================================================================
