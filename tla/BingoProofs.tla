----------------------------- MODULE BingoProofs ------------------------------
(* Proofs about one Bingo room, for any number of tickets, cards, places,   *)
(* players, bots, sessions and configurations, and about the lobby, for any *)
(* number of rooms, agents, processes and administrators.                   *)
EXTENDS MCBingoLobby, SetSums

-----------------------------------------------------------------------------
(* Steps for places one after the other, the lowest first.                  *)

LEMMA FiniteIsBounded ==
  ASSUME NEW S \in SUBSET Nat, IsFiniteSet(S) PROVE \E n \in Nat : \A x \in S : x <= n
<1> DEFINE G == {T \in SUBSET S : \E n \in Nat : \A x \in T : x <= n}
<1>1. {} \in G
  BY 0 \in Nat
<1>2. ASSUME NEW T \in SUBSET S, NEW y \in T, T \ {y} \in G PROVE T \in G
  <2>1. PICK n \in Nat : \A x \in T \ {y} : x <= n
    BY <1>2
  <2>2. y \in Nat
    OBVIOUS
  <2>3. PICK m \in Nat : n <= m /\ y <= m
    <3>1. CASE n <= y
      BY <2>2, <3>1
    <3>2. CASE ~(n <= y)
      BY <2>2, <3>2
    <3> QED BY <3>1, <3>2
  <2>4. \A x \in T : x <= m
    <3> TAKE x \in T
    <3>1. x \in Nat /\ (x = y \/ x <= n)
      BY <2>1
    <3> QED BY <2>2, <2>3, <3>1
  <2> QED BY <2>4
<1>3. \A T \in SUBSET S : T # {} => \E y \in T : T \ {y} \in G => T \in G
  BY <1>2
<1>4. S \in G
  <2> HIDE DEF G
  <2> QED BY <1>1, <1>3, SubsetInduction
<1> QED BY <1>4

LEMMA MaxIn ==
  ASSUME NEW S \in SUBSET Nat, IsFiniteSet(S), S # {}
  PROVE  Max(S) \in S /\ \A x \in S : x <= Max(S)
<1>1. PICK n \in Nat : \A x \in S : x <= n
  BY FiniteIsBounded
<1>2. \E x \in S : \A y \in S : x >= y
  BY <1>1, GreatestNat
<1>3. Max(S) \in S /\ \A y \in S : Max(S) >= y
  BY <1>2 DEF Max
<1> QED BY <1>3

LEMMA MaxOf ==
  ASSUME NEW S \in SUBSET Nat, NEW m \in S, \A x \in S : x <= m PROVE Max(S) = m
<1>1. Max(S) \in S /\ \A y \in S : Max(S) >= y
  BY DEF Max
<1>2. Max(S) \in Nat /\ m \in Nat /\ Max(S) >= m /\ Max(S) <= m
  BY <1>1
<1> HIDE DEF Max
<1> QED BY <1>2

LEMMA MinIn ==
  ASSUME NEW S \in SUBSET Nat, S # {} PROVE Min(S) \in S /\ \A x \in S : Min(S) <= x
BY LeastNat DEF Min

\* The recursion behind Each, for a step that is a function.
StepsFrom(S, start, step, it) ==
  it = [s \in SUBSET S |-> IF s = {} THEN start ELSE step[<<Max(s), it[s \ {Max(s)}]>>]]

LEMMA StepsExist ==
  ASSUME NEW S \in SUBSET Nat, IsFiniteSet(S), NEW D, NEW start \in D, NEW step \in [S \X D -> D]
  PROVE  \E it \in [SUBSET S -> D] : StepsFrom(S, start, step, it)
<1> DEFINE Solves(T, it) == it \in [SUBSET T -> D] /\ StepsFrom(T, start, step, it)
           G == {T \in SUBSET S : \E it : Solves(T, it)}
<1>1. {} \in G
  <2>1. Solves({}, [s \in SUBSET {} |-> start])
    BY DEF StepsFrom
  <2> HIDE DEF Solves
  <2> QED BY <2>1
<1>2. ASSUME NEW T \in SUBSET S, T # {}, T \ {Max(T)} \in G PROVE T \in G
  <2>2. T \in SUBSET Nat /\ IsFiniteSet(T)
    BY FS_Subset
  <2>3. \A s \in SUBSET T : s # {} => Max(s) \in s /\ \A x \in s : x <= Max(s)
    BY <2>2, MaxIn, FS_Subset
  <2> DEFINE m == Max(T)
             U == T \ {m}
  <2>5. m \in T /\ \A x \in T : x <= m
    BY <1>2, <2>3
  <2>6. PICK h : Solves(U, h)
    <3> HIDE DEF Solves
    <3> QED BY <1>2
  <2> HIDE DEF m
  <2> DEFINE it == [s \in SUBSET T |-> IF m \in s THEN step[<<m, h[s \ {m}]>>] ELSE h[s]]
  <2>7. it \in [SUBSET T -> D]
    <3> SUFFICES ASSUME NEW s \in SUBSET T PROVE (IF m \in s THEN step[<<m, h[s \ {m}]>>] ELSE h[s]) \in D
      OBVIOUS
    <3>1. m \in s => s \ {m} \in SUBSET U
      OBVIOUS
    <3>2. m \notin s => s \in SUBSET U
      OBVIOUS
    <3>3. m \in S
      BY <2>2, <2>5
    <3> HIDE DEF U
    <3> QED BY <2>6, <3>1, <3>2, <3>3
  <2>8. \A s \in SUBSET T : it[s] = IF s = {} THEN start ELSE step[<<Max(s), it[s \ {Max(s)}]>>]
    <3> SUFFICES ASSUME NEW s \in SUBSET T PROVE it[s] = IF s = {} THEN start ELSE step[<<Max(s), it[s \ {Max(s)}]>>]
      OBVIOUS
    <3>1. CASE m \in s
      <4>1. Max(s) = m
        BY <2>2, <2>5, <3>1, MaxOf
      <4>2. s \ {m} \in SUBSET T /\ m \notin s \ {m}
        OBVIOUS
      <4>3. it[s \ {m}] = h[s \ {m}] /\ it[s] = step[<<m, h[s \ {m}]>>]
        BY <3>1, <4>2
      <4> QED BY <3>1, <4>1, <4>3
    <3>2. CASE m \notin s
      <4>1. s \in SUBSET U /\ it[s] = h[s]
        BY <3>2
      <4>2. h[s] = IF s = {} THEN start ELSE step[<<Max(s), h[s \ {Max(s)}]>>]
        BY <2>6, <4>1 DEF StepsFrom
      <4>3. s \ {Max(s)} \in SUBSET T /\ m \notin s \ {Max(s)}
        BY <3>2
      <4>4. it[s \ {Max(s)}] = h[s \ {Max(s)}]
        BY <4>3
      <4> QED BY <4>1, <4>2, <4>4
    <3> QED BY <3>1, <3>2
  <2>9. Solves(T, it)
    BY <2>7, <2>8 DEF StepsFrom
  <2> HIDE DEF Solves
  <2> QED BY <2>9
<1>3. \A T \in SUBSET S : T # {} => \E y \in T : T \ {y} \in G => T \in G
  <2> SUFFICES ASSUME NEW T \in SUBSET S, T # {} PROVE \E y \in T : T \ {y} \in G => T \in G
    OBVIOUS
  <2>1. Max(T) \in T
    BY MaxIn, FS_Subset
  <2> HIDE DEF G
  <2> QED BY <1>2, <2>1
<1>4. S \in G
  <2> HIDE DEF G
  <2> QED BY <1>1, <1>3, SubsetInduction
<1> QED BY <1>4

\* What holds of no place, and of a set of places when it holds without the highest of
\* them, holds of all of them.
LEMMA PlaceByPlace ==
  ASSUME NEW S \in SUBSET Nat, IsFiniteSet(S), NEW G, {} \in G,
         \A s \in SUBSET S : s # {} /\ s \ {Max(s)} \in G => s \in G
  PROVE  S \in G
<1>1. ASSUME NEW T \in SUBSET S, T # {} PROVE \E y \in T : T \ {y} \in G => T \in G
  <2>1. Max(T) \in T
    BY <1>1, MaxIn, FS_Subset
  <2> QED BY <1>1, <2>1
<1> QED BY <1>1, SubsetInduction

-----------------------------------------------------------------------------
(* The rows of a transaction, and the prizes computed from them.            *)

Statuses == {"none", "active", "won", "lost", "disqualified", "cancelled"}
TicketRows ==
  [status : Statuses, pending : BOOLEAN, user : Users \cup {"none"}, card : Cards \cup {0}, auto : BOOLEAN,
   tiers : SUBSET Places, payout : Nat, stake : Nat, forfeited : Nat]
RoomRows ==
  [status : {"open", "running", "completed", "cancelled"}, sold : Nat,
   start : {"none", "counting", "locked", "due", "overdue"}, drawn : Nat, price : Nat \ {0},
   settled : SUBSET Places, winners : [Places -> SUBSET Tickets], shown : [Places -> Nat]]
Credits == [CreditKeys -> Nat]
AllRows ==
  [room : RoomRows, ticket : [Tickets -> TicketRows], credit : [Tickets -> Credits], deal : AllDeals, mode : Modes,
   refused : BOOLEAN]

LEMMA RowFields ==
  ASSUME NEW g \in AllRows
  PROVE  /\ g.room \in RoomRows /\ g.ticket \in [Tickets -> TicketRows] /\ g.credit \in [Tickets -> Credits]
         /\ g.deal \in AllDeals /\ g.mode \in Modes /\ g.refused \in BOOLEAN
BY DEF AllRows

LEMMA RoomFields ==
  ASSUME NEW r \in RoomRows
  PROVE  /\ r.status \in {"open", "running", "completed", "cancelled"} /\ r.sold \in Nat
         /\ r.start \in {"none", "counting", "locked", "due", "overdue"} /\ r.drawn \in Nat /\ r.price \in Nat \ {0}
         /\ r.settled \in SUBSET Places /\ r.winners \in [Places -> SUBSET Tickets] /\ r.shown \in [Places -> Nat]
BY DEF RoomRows

LEMMA TicketFields ==
  ASSUME NEW r \in TicketRows
  PROVE  /\ r.status \in Statuses /\ r.pending \in BOOLEAN /\ r.user \in Users \cup {"none"} /\ r.card \in Cards \cup {0}
         /\ r.auto \in BOOLEAN /\ r.tiers \in SUBSET Places /\ r.payout \in Nat /\ r.stake \in Nat /\ r.forfeited \in Nat
BY DEF TicketRows

LEMMA Percent ==
  ASSUME NEW a \in Nat, NEW b \in 0..100 PROVE (a * (100 - b)) \div 100 \in Nat
<1>1. PICK c : c = 100 - b
  OBVIOUS
<1>2. c \in Nat
  BY <1>1
<1>3. PICK d : d = a * c
  OBVIOUS
<1>4. d \in Nat
  BY <1>2, <1>3
<1>5. d \div 100 \in Nat
  BY <1>4
<1> QED BY <1>1, <1>3, <1>5

LEMMA PoolNat == ASSUME NEW g \in AllRows PROVE Pool(g) \in Nat
<1>1. g.room.price \in Nat
  BY RowFields, RoomFields
<1>2. Live(g) \subseteq Tickets
  BY DEF Live
<1>3. Cardinality(Live(g)) \in Nat
  BY <1>2, FS_Subset, FS_CardinalityType, SettlementAssumption
<1>4. PICK a : a = Cardinality(Live(g)) * g.room.price
  OBVIOUS
<1>5. a \in Nat
  BY <1>1, <1>3, <1>4
<1>6. Edge \in 0..100
  BY SettlementAssumption
<1>7. (a * (100 - Edge)) \div 100 \in Nat
  BY <1>5, <1>6, Percent
<1> QED BY <1>4, <1>7 DEF Pool

LEMMA WeightNat == ASSUME NEW c \in AllConfigs, NEW P \in SUBSET Places PROVE Weight(c, P) \in Nat
<1>1. c.weight \in [Places -> Nat]
  BY DEF AllConfigs
<1>2. IsFiniteSet(P)
  BY FS_Subset, SettlementAssumption
<1>3. \A p \in P : c.weight[p] \in Nat
  BY <1>1
<1> QED BY <1>2, <1>3, SumNat DEF Weight

LEMMA ShareNat ==
  ASSUME NEW g \in AllRows, NEW c \in AllConfigs, NEW P \in SUBSET Places, NEW p \in Places
  PROVE  Share(g, p, P, c) \in Nat
<1>1. c.weight[p] \in Nat
  BY DEF AllConfigs
<1>2. PICK w : w = Weight(c, P)
  OBVIOUS
<1>3. w \in Nat
  BY <1>2, WeightNat
<1>4. PICK a : a = Pool(g) * c.weight[p]
  OBVIOUS
<1>5. a \in Nat
  BY <1>1, <1>4, PoolNat
<1>6. w > 0 => a \div w \in Nat
  BY <1>3, <1>5
<1> QED BY <1>2, <1>3, <1>4, <1>6 DEF Share

LEMMA PrizesNat ==
  ASSUME NEW g \in AllRows, NEW c \in AllConfigs, NEW p \in Places
  PROVE  ProgressivePrize(g, p, c) \in Nat /\ FinalPrize(g, p, c) \in Nat
<1>1. c.places \in SUBSET Places /\ g.room.settled \in SUBSET Places
  BY RowFields, RoomFields DEF AllConfigs
<1> QED BY <1>1, ShareNat DEF ProgressivePrize, FinalPrize

\* The place p has the prize "amount", as shown and as paid to the card that has it.
Priced(g, p, amount) == g.room.shown[p] = amount /\ \A t \in g.room.winners[p] : g.ticket[t].payout = amount

\* The places settled so far have the prizes that c gives them: the final ones in s.
SplitUpTo(g, c, s) ==
  /\ g.room.settled \subseteq c.places
  /\ \A p \in g.room.settled : Priced(g, p, IF p \in s THEN FinalPrize(g, p, c) ELSE ProgressivePrize(g, p, c))
Split(g, c) == SplitUpTo(g, c, {})
SplitFinal(g, c) == SplitUpTo(g, c, g.room.settled)

-----------------------------------------------------------------------------
(* What each operator does to the rows.                                     *)

\* y is x with "amount" under a key that was free; other keys keep what they had.
Adds(x, y, key, amount) == (\A k \in CreditKeys : k # key => y[k] = x[k]) /\ (x[key] = 0 => y[key] = amount)

\* The room goes on as it was, apart from its places.
SameRoom(g, h) ==
  /\ h \in AllRows /\ h.mode = g.mode /\ h.deal = g.deal
  /\ h.room.status = g.room.status /\ h.room.sold = g.room.sold /\ h.room.start = g.room.start
  /\ h.room.drawn = g.room.drawn /\ h.room.price = g.room.price

\* As many cards are sold, for the same price.
SameSale(g, h) == h.room.sold = g.room.sold /\ h.room.price = g.room.price

\* A ticket stays with its owner.
SameOwner(x, y) == y.user = x.user /\ y.card = x.card /\ y.stake = x.stake /\ y.auto = x.auto

LEMMA CreditEachEffect ==
  ASSUME NEW g \in AllRows, NEW key \in CreditKeys, NEW S \in SUBSET Tickets, NEW due \in [S -> Nat], NEW r, r = CreditEach(g, key, due)
  PROVE  /\ r \in AllRows /\ r.room = g.room /\ r.ticket = g.ticket /\ r.mode = g.mode /\ r.deal = g.deal
         /\ \A t \in Tickets : t \notin S => r.credit[t] = g.credit[t]
         /\ \A t \in S : Adds(g.credit[t], r.credit[t], key, due[t])
<1> DEFINE New == {t \in DOMAIN due : due[t] > 0}
           paid == [t \in Tickets |-> IF t \in New THEN Credited(g.credit[t], key, due[t]) ELSE g.credit[t]]
           fails == g.refused \/ \E t \in New : g.credit[t][key] \notin {0, due[t]}
<1>1. r = [g EXCEPT !.credit = paid, !.refused = fails]
  BY Zenon DEF CreditEach
<1>2. g.credit \in [Tickets -> Credits] /\ g.refused \in BOOLEAN
  BY RowFields
<1>3. \A t \in New : t \in S /\ due[t] \in Nat
  OBVIOUS
<1>4. paid \in [Tickets -> Credits]
  <2> SUFFICES ASSUME NEW t \in Tickets PROVE (IF t \in New THEN Credited(g.credit[t], key, due[t]) ELSE g.credit[t]) \in Credits
    OBVIOUS
  <2>1. g.credit[t] \in [CreditKeys -> Nat]
    BY <1>2 DEF Credits
  <2>2. CASE t \in New
    <3>1. due[t] \in Nat
      BY <1>3, <2>2
    <3> HIDE DEF New
    <3> QED BY <2>1, <2>2, <3>1 DEF Credits, Credited
  <2>3. CASE t \notin New
    BY <2>1, <2>3 DEF Credits
  <2> QED BY <2>2, <2>3
<1>5. fails \in BOOLEAN
  BY <1>2
<1> HIDE DEF fails
<1>6. r \in AllRows /\ r.room = g.room /\ r.ticket = g.ticket /\ r.mode = g.mode /\ r.deal = g.deal /\ r.credit = paid
  <2> HIDE DEF paid
  <2> QED BY <1>1, <1>4, <1>5 DEF AllRows
<1>7. \A t \in Tickets : t \notin S => paid[t] = g.credit[t]
  BY <1>3
<1>8. \A t \in S : Adds(g.credit[t], paid[t], key, due[t])
  <2> SUFFICES ASSUME NEW t \in S PROVE Adds(g.credit[t], paid[t], key, due[t])
    OBVIOUS
  <2>1. g.credit[t] \in [CreditKeys -> Nat] /\ due[t] \in Nat
    BY <1>2 DEF Credits
  <2>2. CASE due[t] > 0
    <3>1. paid[t] = Credited(g.credit[t], key, due[t])
      BY <2>2
    <3> HIDE DEF paid
    <3> QED BY <2>1, <2>2, <3>1 DEF Adds, Credited
  <2>3. CASE ~(due[t] > 0)
    <3>1. paid[t] = g.credit[t] /\ due[t] = 0
      BY <2>1, <2>3
    <3> HIDE DEF paid
    <3> QED BY <2>1, <3>1 DEF Adds
  <2> QED BY <2>2, <2>3
<1> HIDE DEF paid
<1> QED BY <1>6, <1>7, <1>8

LEMMA CreditEffect ==
  ASSUME NEW g \in AllRows, NEW key \in CreditKeys, NEW a \in Tickets, NEW amount \in Nat, NEW r, r = Credit(g, a, key, amount)
  PROVE  /\ r \in AllRows /\ r.room = g.room /\ r.ticket = g.ticket /\ r.mode = g.mode /\ r.deal = g.deal
         /\ \A t \in Tickets : t # a => r.credit[t] = g.credit[t]
         /\ Adds(g.credit[a], r.credit[a], key, amount)
<1> DEFINE due == [u \in {a} |-> amount]
<1>1. PICK S \in SUBSET Tickets : S = {a}
  OBVIOUS
<1>2. due \in [S -> Nat] /\ due[a] = amount
  BY <1>1
<1>3. r = CreditEach(g, key, due)
  BY DEF Credit
<1> HIDE DEF due
<1>4. /\ r \in AllRows /\ r.room = g.room /\ r.ticket = g.ticket /\ r.mode = g.mode /\ r.deal = g.deal
      /\ \A t \in Tickets : t \notin S => r.credit[t] = g.credit[t]
      /\ \A t \in S : Adds(g.credit[t], r.credit[t], key, due[t])
  BY <1>2, <1>3, CreditEachEffect
<1> QED BY <1>1, <1>2, <1>4

LEMMA SettlementKey == ASSUME NEW p \in Places PROVE <<"settlement", p>> \in CreditKeys /\ <<"reconcile", p>> \in CreditKeys
BY DEF CreditKeys

LEMMA RefundKey == ASSUME NEW why \in {"refund", "noresult", "cartela"} PROVE <<why, 0>> \in CreditKeys
BY DEF CreditKeys

PlaceSettled(room0, p, W, r) ==
  /\ r \in RoomRows /\ r.settled = room0.settled \cup {p} /\ r.winners = [room0.winners EXCEPT ![p] = W]
  /\ r.status = room0.status /\ r.sold = room0.sold /\ r.start = room0.start /\ r.drawn = room0.drawn
  /\ r.price = room0.price
Shows(g, r, p, prize) == r.room.shown = [g.room.shown EXCEPT ![p] = prize]
RowWins(row, p, prize, new) ==
  /\ new \in TicketRows /\ new.status = "won" /\ new.pending = FALSE /\ new.tiers = row.tiers \cup {p}
  /\ new.payout = row.payout + prize /\ SameOwner(row, new)
\* A ticket that has nothing to wait for any more.
RowEnds(row, new, status) ==
  /\ new \in TicketRows /\ new.status = status /\ new.pending = FALSE /\ new.tiers = row.tiers
  /\ new.payout = row.payout /\ SameOwner(row, new)
RowPaid(row, new, amount) ==
  /\ new \in TicketRows /\ new.pending = row.pending /\ new.tiers = row.tiers /\ new.payout = row.payout + amount
  /\ SameOwner(row, new)

\* The place p went to the card a, which was credited; to the house, for the card a.
Awarded(g, r, a, p) ==
  /\ SameRoom(g, r) /\ PlaceSettled(g.room, p, {a}, r.room)
  /\ \A t \in Tickets : t # a => r.credit[t] = g.credit[t] /\ r.ticket[t] = g.ticket[t]
  /\ \E prize \in Nat : RowWins(g.ticket[a], p, prize, r.ticket[a]) /\ Adds(g.credit[a], r.credit[a], <<"settlement", p>>, prize)
Forfeited(g, r, a, p) ==
  /\ SameRoom(g, r) /\ PlaceSettled(g.room, p, {}, r.room) /\ r.credit = g.credit
  /\ \A t \in Tickets : t # a => r.ticket[t] = g.ticket[t]
  /\ RowEnds(g.ticket[a], r.ticket[a], g.ticket[a].status)

LEMMA SettledEffect ==
  ASSUME NEW room0 \in RoomRows, NEW p \in Places, NEW W \in SUBSET Tickets, NEW prize \in Nat, NEW r, r = Settled(room0, p, W, prize)
  PROVE  PlaceSettled(room0, p, W, r) /\ r.shown = [room0.shown EXCEPT ![p] = prize]
<1>1. PICK settled1 \in SUBSET Places : settled1 = room0.settled \cup {p}
  BY RoomFields
<1>2. PICK winners1 \in [Places -> SUBSET Tickets] : winners1 = [room0.winners EXCEPT ![p] = W]
  BY RoomFields
<1>3. PICK shown1 \in [Places -> Nat] : shown1 = [room0.shown EXCEPT ![p] = prize]
  BY RoomFields
<1>4. r = [room0 EXCEPT !.settled = settled1, !.winners = winners1, !.shown = shown1]
  BY <1>1, <1>2, <1>3 DEF RoomRows, Settled
<1> QED BY <1>1, <1>2, <1>3, <1>4 DEF RoomRows, PlaceSettled

LEMMA WinnerEffect ==
  ASSUME NEW row \in TicketRows, NEW p \in Places, NEW prize \in Nat, NEW new, new = Winner(row, p, prize)
  PROVE  RowWins(row, p, prize, new)
<1>1. PICK tiers1 \in SUBSET Places : tiers1 = row.tiers \cup {p}
  BY TicketFields
<1>2. PICK paid \in Nat : paid = row.payout + prize
  BY TicketFields
<1>3. new = [row EXCEPT !.status = "won", !.pending = FALSE, !.tiers = tiers1, !.payout = paid]
  BY <1>1, <1>2 DEF Winner
<1>4. new \in TicketRows
  BY <1>3 DEF TicketRows, Statuses
<1>5. new.status = "won" /\ new.pending = FALSE /\ new.tiers = tiers1 /\ new.payout = paid /\ SameOwner(row, new)
  BY <1>3 DEF TicketRows, SameOwner
<1> QED BY <1>1, <1>2, <1>4, <1>5 DEF RowWins

LEMMA ForfeiterEffect ==
  ASSUME NEW row \in TicketRows, NEW prize \in Nat, NEW new, new = Forfeiter(row, prize)
  PROVE  RowEnds(row, new, row.status)
<1>1. PICK lost \in Nat : lost = row.forfeited + prize
  BY TicketFields
<1>2. new = [row EXCEPT !.pending = FALSE, !.forfeited = lost]
  BY <1>1 DEF Forfeiter
<1> QED BY <1>2 DEF TicketRows, SameOwner, RowEnds

LEMMA AwardEffect ==
  ASSUME NEW g \in AllRows, NEW a \in Tickets, NEW p \in Places, NEW c \in AllConfigs, NEW r, r = Award(g, a, p, c)
  PROVE  /\ Awarded(g, r, a, p) /\ Shows(g, r, p, ProgressivePrize(g, p, c))
         /\ r.ticket[a].payout = g.ticket[a].payout + ProgressivePrize(g, p, c)
<1>1. PICK prize \in Nat : prize = ProgressivePrize(g, p, c)
  BY PrizesNat
<1>2. PICK key \in CreditKeys : key = <<"settlement", p>>
  BY SettlementKey
<1>3. PICK k : k = Credit(g, a, key, prize)
  OBVIOUS
<1>4. /\ k \in AllRows /\ k.room = g.room /\ k.ticket = g.ticket /\ k.mode = g.mode /\ k.deal = g.deal
      /\ \A t \in Tickets : t # a => k.credit[t] = g.credit[t]
      /\ Adds(g.credit[a], k.credit[a], key, prize)
  BY <1>3, CreditEffect
<1>5. PICK row \in TicketRows : row = g.ticket[a]
  BY RowFields
<1>6. PICK new : new = Winner(row, p, prize)
  OBVIOUS
<1>7. PICK room0 \in RoomRows : room0 = g.room
  BY RowFields
<1>8. PICK W \in SUBSET Tickets : W = {a}
  OBVIOUS
<1>9. PICK room1 : room1 = Settled(room0, p, W, prize)
  OBVIOUS
<1>10. r = [k EXCEPT !.ticket[a] = new, !.room = room1]
  BY <1>1, <1>2, <1>3, <1>5, <1>6, <1>7, <1>8, <1>9, Zenon DEF Award
<1>11. RowWins(row, p, prize, new)
  BY <1>6, WinnerEffect
<1>12. PlaceSettled(room0, p, W, room1) /\ room1.shown = [room0.shown EXCEPT ![p] = prize]
  BY <1>9, SettledEffect
<1>13. PICK tickets1 : tickets1 = [k.ticket EXCEPT ![a] = new]
  OBVIOUS
<1>14. tickets1 \in [Tickets -> TicketRows] /\ tickets1[a] = new /\ \A t \in Tickets : t # a => tickets1[t] = g.ticket[t]
  BY <1>4, <1>11, <1>13, RowFields DEF RowWins
<1>15. r = [k EXCEPT !.ticket = tickets1, !.room = room1]
  BY <1>10, <1>13
<1>16. r \in AllRows /\ r.room = room1 /\ r.ticket = tickets1 /\ r.credit = k.credit /\ r.mode = k.mode /\ r.deal = k.deal
  BY <1>4, <1>12, <1>14, <1>15 DEF AllRows, PlaceSettled
<1>17. SameRoom(g, r)
  BY <1>4, <1>7, <1>12, <1>16 DEF SameRoom, PlaceSettled
<1>18. Awarded(g, r, a, p)
  BY <1>2, <1>4, <1>5, <1>7, <1>8, <1>11, <1>12, <1>14, <1>16, <1>17 DEF Awarded
<1>19. r.ticket[a].payout = g.ticket[a].payout + prize
  BY <1>5, <1>11, <1>14, <1>16 DEF RowWins
<1>20. Shows(g, r, p, prize)
  BY <1>7, <1>12, <1>16 DEF Shows
<1> QED BY <1>1, <1>18, <1>19, <1>20

LEMMA HouseEffect ==
  ASSUME NEW g \in AllRows, NEW a \in Tickets, NEW p \in Places, NEW c \in AllConfigs, NEW r, r = AwardToHouse(g, a, p, c)
  PROVE  Forfeited(g, r, a, p) /\ Shows(g, r, p, ProgressivePrize(g, p, c))
<1>1. PICK prize \in Nat : prize = ProgressivePrize(g, p, c)
  BY PrizesNat
<1>5. PICK row \in TicketRows : row = g.ticket[a]
  BY RowFields
<1>6. PICK new : new = Forfeiter(row, prize)
  OBVIOUS
<1>7. PICK room0 \in RoomRows : room0 = g.room
  BY RowFields
<1>8. PICK W \in SUBSET Tickets : W = {}
  OBVIOUS
<1>9. PICK room1 : room1 = Settled(room0, p, W, prize)
  OBVIOUS
<1>10. r = [g EXCEPT !.ticket[a] = new, !.room = room1]
  BY <1>1, <1>5, <1>6, <1>7, <1>8, <1>9, Zenon DEF AwardToHouse
<1>11. RowEnds(row, new, row.status)
  BY <1>6, ForfeiterEffect
<1>12. PlaceSettled(room0, p, W, room1) /\ room1.shown = [room0.shown EXCEPT ![p] = prize]
  BY <1>9, SettledEffect
<1>13. PICK tickets1 : tickets1 = [g.ticket EXCEPT ![a] = new]
  OBVIOUS
<1>14. tickets1 \in [Tickets -> TicketRows] /\ tickets1[a] = new /\ \A t \in Tickets : t # a => tickets1[t] = g.ticket[t]
  BY <1>11, <1>13, RowFields DEF RowEnds
<1>15. r = [g EXCEPT !.ticket = tickets1, !.room = room1]
  BY <1>10, <1>13
<1>16. r \in AllRows /\ r.room = room1 /\ r.ticket = tickets1 /\ r.credit = g.credit /\ r.mode = g.mode /\ r.deal = g.deal
  BY <1>12, <1>14, <1>15 DEF AllRows, PlaceSettled
<1>17. SameRoom(g, r)
  BY <1>7, <1>12, <1>16 DEF SameRoom, PlaceSettled
<1>18. Forfeited(g, r, a, p)
  BY <1>5, <1>7, <1>8, <1>11, <1>12, <1>14, <1>16, <1>17 DEF Forfeited
<1>19. Shows(g, r, p, prize)
  BY <1>7, <1>12, <1>16 DEF Shows
<1> QED BY <1>1, <1>18, <1>19

\* S is refunded; those in play have lost; the disqualified are heard; p is topped up.
Refunded(g, r, S, why) ==
  /\ r \in AllRows /\ r.room = g.room /\ r.mode = g.mode /\ r.deal = g.deal
  /\ \A t \in Tickets : t \notin S => r.ticket[t] = g.ticket[t] /\ r.credit[t] = g.credit[t]
  /\ \A t \in S : RowEnds(g.ticket[t], r.ticket[t], "cancelled") /\ Adds(g.credit[t], r.credit[t], <<why, 0>>, g.ticket[t].stake)
Marked(g, r) ==
  /\ r \in AllRows /\ r.room = g.room /\ r.mode = g.mode /\ r.deal = g.deal /\ r.credit = g.credit
  /\ \A t \in Tickets : IF g.ticket[t].status = "active" THEN RowEnds(g.ticket[t], r.ticket[t], "lost") ELSE r.ticket[t] = g.ticket[t]
Heard(g, r) ==
  /\ r \in AllRows /\ r.room = g.room /\ r.mode = g.mode /\ r.deal = g.deal /\ r.credit = g.credit
  /\ \A t \in Tickets : IF g.ticket[t].status = "disqualified" /\ g.ticket[t].pending THEN RowEnds(g.ticket[t], r.ticket[t], "disqualified")
                        ELSE r.ticket[t] = g.ticket[t]
Topped(g, r, p) ==
  /\ SameRoom(g, r) /\ r.room.settled = g.room.settled /\ r.room.winners = g.room.winners
  /\ \E S \in SUBSET g.room.winners[p] :
       /\ \A t \in Tickets : t \notin S => r.ticket[t] = g.ticket[t] /\ r.credit[t] = g.credit[t]
       /\ \A t \in S : \E up \in Nat : /\ RowPaid(g.ticket[t], r.ticket[t], up) /\ r.ticket[t].status = g.ticket[t].status
                                       /\ Adds(g.credit[t], r.credit[t], <<"reconcile", p>>, up)

LEMMA RefundedRowEffect == ASSUME NEW row \in TicketRows, NEW new, new = RefundedRow(row) PROVE RowEnds(row, new, "cancelled")
BY DEF TicketRows, Statuses, SameOwner, RowEnds, RefundedRow

LEMMA RefundEffect ==
  ASSUME NEW g \in AllRows, NEW S \in SUBSET Tickets, NEW why \in {"refund", "noresult", "cartela"}, NEW r, r = Refund(g, S, why)
  PROVE  Refunded(g, r, S, why)
<1> DEFINE due == [t \in S |-> g.ticket[t].stake]
           rows1 == [t \in Tickets |-> IF t \in S THEN RefundedRow(g.ticket[t]) ELSE g.ticket[t]]
<1>1. PICK key \in CreditKeys : key = <<why, 0>>
  BY RefundKey
<1>0. due \in [S -> Nat] /\ \A t \in S : due[t] = g.ticket[t].stake
  BY RowFields, TicketFields
<1>3. PICK owed \in [S -> Nat] : owed = due /\ \A t \in S : owed[t] = g.ticket[t].stake
  BY <1>0
<1>2. PICK k : k = CreditEach(g, key, owed)
  OBVIOUS
<1>4. r = [k EXCEPT !.ticket = rows1]
  BY <1>1, <1>2, <1>3, Zenon DEF Refund
<1> HIDE DEF due
<1>5. /\ k \in AllRows /\ k.room = g.room /\ k.ticket = g.ticket /\ k.mode = g.mode /\ k.deal = g.deal
      /\ \A t \in Tickets : t \notin S => k.credit[t] = g.credit[t]
      /\ \A t \in S : Adds(g.credit[t], k.credit[t], key, owed[t])
  BY <1>2, CreditEachEffect
<1>6. ASSUME NEW t \in S PROVE RowEnds(g.ticket[t], rows1[t], "cancelled") /\ rows1[t] \in TicketRows
  <2>1. PICK row \in TicketRows : row = g.ticket[t]
    BY RowFields
  <2>2. PICK new : new = RefundedRow(row)
    OBVIOUS
  <2>3. RowEnds(row, new, "cancelled")
    BY <2>2, RefundedRowEffect
  <2>4. rows1[t] = new
    BY <2>1, <2>2
  <2> QED BY <2>1, <2>3, <2>4 DEF RowEnds
<1>7. \A t \in Tickets : t \notin S => rows1[t] = g.ticket[t]
  OBVIOUS
<1>8. rows1 = [t \in Tickets |-> rows1[t]]
  OBVIOUS
<1> HIDE DEF rows1
<1>9. \A t \in Tickets : rows1[t] \in TicketRows
  BY <1>6, <1>7, RowFields
<1>10. rows1 \in [Tickets -> TicketRows]
  BY <1>8, <1>9
<1>11. r \in AllRows /\ r.room = k.room /\ r.mode = k.mode /\ r.deal = k.deal /\ r.credit = k.credit /\ r.ticket = rows1
  BY <1>4, <1>5, <1>10 DEF AllRows
<1> QED BY <1>1, <1>3, <1>5, <1>6, <1>7, <1>11 DEF Refunded

LEMMA LostRowEffect == ASSUME NEW row \in TicketRows, NEW new, new = LostRow(row) PROVE RowEnds(row, new, "lost")
BY DEF TicketRows, Statuses, SameOwner, RowEnds, LostRow

LEMMA MarkLostEffect == ASSUME NEW g \in AllRows, NEW r, r = MarkLost(g) PROVE Marked(g, r)
<1> DEFINE rows1 == [t \in Tickets |-> IF t \in Losers(g) THEN LostRow(g.ticket[t]) ELSE g.ticket[t]]
<1>1. r = [g EXCEPT !.ticket = rows1]
  BY Zenon DEF MarkLost
<1>2. \A t \in Tickets : t \in Losers(g) <=> g.ticket[t].status = "active"
  BY DEF Losers, With
<1>3. ASSUME NEW t \in Tickets
      PROVE  /\ rows1[t] \in TicketRows
             /\ IF g.ticket[t].status = "active" THEN RowEnds(g.ticket[t], rows1[t], "lost") ELSE rows1[t] = g.ticket[t]
  <2>1. PICK row \in TicketRows : row = g.ticket[t]
    BY RowFields
  <2>2. PICK new : new = LostRow(row)
    OBVIOUS
  <2>3. RowEnds(row, new, "lost")
    BY <2>2, LostRowEffect
  <2>4. rows1[t] = IF row.status = "active" THEN new ELSE row
    BY <1>2, <2>1, <2>2
  <2> QED BY <2>1, <2>3, <2>4 DEF RowEnds
<1>4. rows1 = [t \in Tickets |-> rows1[t]]
  OBVIOUS
<1> HIDE DEF rows1
<1>5. rows1 \in [Tickets -> TicketRows]
  BY <1>3, <1>4
<1>6. r \in AllRows /\ r.room = g.room /\ r.mode = g.mode /\ r.deal = g.deal /\ r.credit = g.credit /\ r.ticket = rows1
  BY <1>1, <1>5 DEF AllRows
<1> QED BY <1>3, <1>6 DEF Marked

LEMMA ResolveDqEffect == ASSUME NEW g \in AllRows, NEW r, r = ResolveDq(g) PROVE Heard(g, r)
<1> DEFINE rows1 == [t \in Tickets |-> IF t \in PendingDq(g) THEN Forfeiter(g.ticket[t], 0) ELSE g.ticket[t]]
<1>1. r = [g EXCEPT !.ticket = rows1]
  BY Zenon DEF ResolveDq
<1>2. \A t \in Tickets : t \in PendingDq(g) <=> g.ticket[t].status = "disqualified" /\ g.ticket[t].pending
  BY DEF PendingDq, With
<1>3. ASSUME NEW t \in Tickets
      PROVE  /\ rows1[t] \in TicketRows
             /\ IF g.ticket[t].status = "disqualified" /\ g.ticket[t].pending THEN RowEnds(g.ticket[t], rows1[t], "disqualified")
                ELSE rows1[t] = g.ticket[t]
  <2>1. PICK row \in TicketRows : row = g.ticket[t]
    BY RowFields
  <2>2. PICK new : new = Forfeiter(row, 0)
    OBVIOUS
  <2>3. RowEnds(row, new, row.status)
    BY <2>2, ForfeiterEffect
  <2>4. rows1[t] = IF row.status = "disqualified" /\ row.pending THEN new ELSE row
    BY <1>2, <2>1, <2>2
  <2> QED BY <2>1, <2>3, <2>4 DEF RowEnds
<1>4. rows1 = [t \in Tickets |-> rows1[t]]
  OBVIOUS
<1> HIDE DEF rows1
<1>5. rows1 \in [Tickets -> TicketRows]
  BY <1>3, <1>4
<1>6. r \in AllRows /\ r.room = g.room /\ r.mode = g.mode /\ r.deal = g.deal /\ r.credit = g.credit /\ r.ticket = rows1
  BY <1>1, <1>5 DEF AllRows
<1> QED BY <1>3, <1>6 DEF Heard

LEMMA TopUpEffect ==
  ASSUME NEW g \in AllRows, NEW p \in Places, NEW c \in AllConfigs, NEW r, r = TopUpPlace(g, p, c)
  PROVE  /\ Topped(g, r, p) /\ Shows(g, r, p, FinalPrize(g, p, c))
         /\ \A t \in Tickets : t \notin g.room.winners[p] => r.ticket[t] = g.ticket[t]
         /\ \A t \in Tickets : g.room.winners[p] = {t} => r.ticket[t].payout = g.ticket[t].payout + (IF TopUp(g, p, c) > 0 THEN TopUp(g, p, c) ELSE 0)
<1>1. PICK prize \in Nat : prize = FinalPrize(g, p, c)
  BY PrizesNat
<1>3. PICK room0 \in RoomRows : room0 = g.room
  BY RowFields
<1>20. room0.winners[p] \in SUBSET Tickets
  BY RoomFields
<1>2. PICK W \in SUBSET Tickets : W = Beneficiaries(g, p, c) /\ W \subseteq g.room.winners[p]
  <2>1. Beneficiaries(g, p, c) \subseteq g.room.winners[p]
    BY DEF Beneficiaries
  <2> QED BY <1>3, <1>20, <2>1
<1>4. PICK shown1 \in [Places -> Nat] : shown1 = [room0.shown EXCEPT ![p] = prize]
  BY RoomFields
<1>21. PICK room1 : room1 = [room0 EXCEPT !.shown = shown1]
  OBVIOUS
<1>5. /\ room1 \in RoomRows /\ room1.settled = room0.settled /\ room1.winners = room0.winners
      /\ room1.status = room0.status /\ room1.sold = room0.sold /\ room1.start = room0.start
      /\ room1.drawn = room0.drawn /\ room1.price = room0.price /\ room1.shown = shown1
  BY <1>21 DEF RoomRows
<1>6. PICK h : h = [g EXCEPT !.room.shown[p] = prize]
  OBVIOUS
<1>7. h = [g EXCEPT !.room = room1]
  BY <1>3, <1>4, <1>21, <1>6 DEF AllRows, RoomRows
<1>8. h \in AllRows /\ h.room = room1 /\ h.ticket = g.ticket /\ h.credit = g.credit /\ h.mode = g.mode /\ h.deal = g.deal
  BY <1>5, <1>7 DEF AllRows
<1>9. SameRoom(g, h) /\ h.room.settled = g.room.settled /\ h.room.winners = g.room.winners
  BY <1>3, <1>5, <1>8 DEF SameRoom
<1>12. Shows(g, h, p, prize)
  BY <1>3, <1>4, <1>5, <1>8 DEF Shows
<1>13. W = IF TopUp(g, p, c) > 0 THEN g.room.winners[p] ELSE {}
  BY <1>2 DEF Beneficiaries
<1>10. CASE W = {}
  <2>1. r = h
    BY <1>1, <1>2, <1>6, <1>10, Zenon DEF TopUpPlace
  <2>2. PICK S \in SUBSET g.room.winners[p] : S = {}
    OBVIOUS
  <2>3. Topped(g, r, p)
    BY <1>8, <1>9, <2>1, <2>2 DEF Topped
  <2>4. \A t \in Tickets : r.ticket[t] = g.ticket[t] /\ g.ticket[t].payout \in Nat
    BY <1>8, <2>1, RowFields, TicketFields
  <2>5. ASSUME NEW t \in Tickets, g.room.winners[p] = {t}
        PROVE  r.ticket[t].payout = g.ticket[t].payout + (IF TopUp(g, p, c) > 0 THEN TopUp(g, p, c) ELSE 0)
    <3>1. ~(TopUp(g, p, c) > 0)
      BY <1>10, <1>13, <2>5
    <3> QED BY <2>4, <3>1
  <2> QED BY <1>1, <1>12, <2>1, <2>3, <2>4, <2>5
<1>11. CASE W # {}
  <2>1. PICK up \in Nat : up = TopUp(g, p, c)
    <3>1. FinalPrize(g, p, c) \in Nat /\ ProgressivePrize(g, p, c) \in Nat
      BY PrizesNat
    <3>2. TopUp(g, p, c) > 0
      BY <1>2, <1>11 DEF Beneficiaries
    <3>3. TopUp(g, p, c) \in Nat
      BY <3>1, <3>2 DEF TopUp
    <3> QED BY <3>3
  <2>2. PICK t \in W : t = CHOOSE w \in W : TRUE
    BY <1>11
  <2>3. PICK key \in CreditKeys : key = <<"reconcile", p>>
    BY SettlementKey
  <2>4. PICK k : k = Credit(h, t, key, up)
    OBVIOUS
  <2>5. r = [k EXCEPT !.ticket[t].payout = @ + up]
    BY <1>1, <1>2, <1>6, <1>11, <2>1, <2>2, <2>3, <2>4, Zenon DEF TopUpPlace
  <2>6. /\ k \in AllRows /\ k.room = h.room /\ k.ticket = h.ticket /\ k.mode = h.mode /\ k.deal = h.deal
        /\ \A u \in Tickets : u # t => k.credit[u] = h.credit[u]
        /\ Adds(h.credit[t], k.credit[t], key, up)
    BY <1>8, <2>4, CreditEffect
  <2>7. PICK row \in TicketRows : row = k.ticket[t]
    BY <2>6, RowFields
  <2>8. PICK new : new = [row EXCEPT !.payout = @ + up]
    OBVIOUS
  <2>9. new \in TicketRows /\ RowPaid(row, new, up) /\ new.status = row.status
    <3>1. PICK paid \in Nat : paid = row.payout + up
      BY TicketFields
    <3>2. new = [row EXCEPT !.payout = paid]
      BY <2>8, <3>1 DEF TicketRows
    <3> QED BY <3>1, <3>2 DEF TicketRows, RowPaid, SameOwner
  <2>10. PICK rows1 : rows1 = [k.ticket EXCEPT ![t] = new]
    OBVIOUS
  <2>11. k.ticket \in [Tickets -> TicketRows] /\ t \in Tickets
    BY <2>6, RowFields
  <2>12. rows1 \in [Tickets -> TicketRows] /\ rows1[t] = new /\ \A u \in Tickets : u # t => rows1[u] = k.ticket[u]
    BY <2>9, <2>10, <2>11
  <2>13. r = [k EXCEPT !.ticket = rows1]
    BY <2>5, <2>6, <2>7, <2>8, <2>10, <2>11 DEF AllRows
  <2>14. r \in AllRows /\ r.room = k.room /\ r.mode = k.mode /\ r.deal = k.deal /\ r.credit = k.credit /\ r.ticket = rows1
    BY <2>6, <2>12, <2>13 DEF AllRows
  <2>15. SameRoom(g, r) /\ r.room.settled = g.room.settled /\ r.room.winners = g.room.winners
    BY <1>9, <2>6, <2>14 DEF SameRoom
  <2>16. PICK S \in SUBSET g.room.winners[p] : S = {t}
    BY <1>2
  <2>17. \A u \in Tickets : u \notin S => r.ticket[u] = g.ticket[u] /\ r.credit[u] = g.credit[u]
    BY <1>8, <2>6, <2>12, <2>14, <2>16
  <2>18. /\ RowPaid(g.ticket[t], r.ticket[t], up) /\ r.ticket[t].status = g.ticket[t].status
         /\ Adds(g.credit[t], r.credit[t], <<"reconcile", p>>, up)
    BY <1>8, <2>3, <2>6, <2>7, <2>9, <2>12, <2>14
  <2>19. Topped(g, r, p)
    BY <2>15, <2>16, <2>17, <2>18 DEF Topped
  <2>20. \A u \in Tickets : u \notin g.room.winners[p] => r.ticket[u] = g.ticket[u]
    BY <1>2, <2>16, <2>17
  <2>21. ASSUME NEW u \in Tickets, g.room.winners[p] = {u}
         PROVE  r.ticket[u].payout = g.ticket[u].payout + (IF TopUp(g, p, c) > 0 THEN TopUp(g, p, c) ELSE 0)
    <3>1. u = t /\ TopUp(g, p, c) > 0
      BY <1>2, <1>11, <1>13, <2>21
    <3> QED BY <2>1, <2>18, <3>1 DEF RowPaid
  <2>22. Shows(g, r, p, prize)
    BY <1>12, <2>6, <2>14 DEF Shows
  <2> QED BY <1>1, <2>19, <2>20, <2>21, <2>22
<1> QED BY <1>10, <1>11

LEMMA ShareOfWinnersNat == ASSUME NEW n \in Nat, n # 0, NEW i \in Nat PROVE PatternShare(n, i) \in Nat
<1>1. PatternPrize \in Nat
  BY SettlementAssumption
<1>2. PatternPrize \div n \in Nat
  BY <1>1
<1> QED BY <1>2 DEF PatternShare

\* The cards W shared the prize of the pattern p, and stay in play.
Shared(g, r, W, p) ==
  /\ SameRoom(g, r) /\ PlaceSettled(g.room, p, W, r.room)
  /\ \A t \in Tickets : t \notin W => r.ticket[t] = g.ticket[t] /\ r.credit[t] = g.credit[t]
  /\ \A t \in W : /\ g.ticket[t].status \notin {"none", "cancelled"} /\ r.ticket[t].status = "won"
                  /\ \E share \in Nat : RowPaid(g.ticket[t], r.ticket[t], share) /\ Adds(g.credit[t], r.credit[t], <<"settlement", p>>, share)

LEMMA PatternWinnerEffect ==
  ASSUME NEW row \in TicketRows, NEW share \in Nat, NEW new, new = PatternWinner(row, share)
  PROVE  RowPaid(row, new, share) /\ new.status = "won"
<1>1. PICK paid \in Nat : paid = row.payout + share
  BY TicketFields
<1>2. new = [row EXCEPT !.status = "won", !.payout = paid]
  BY <1>1 DEF PatternWinner, TicketRows
<1>3. new \in TicketRows
  BY <1>2 DEF TicketRows, Statuses
<1> QED BY <1>1, <1>2, <1>3 DEF TicketRows, RowPaid, SameOwner

LEMMA SettlePatternEffect ==
  ASSUME NEW g \in AllRows, NEW p \in Places, NEW r, r = SettlePattern(g, p)
  PROVE  r = g \/ \E W \in SUBSET Tickets : Shared(g, r, W, p)
<1> DEFINE share(t, W) == PatternShare(Cardinality(W), Cardinality({u \in W : u <= t}))
<1>0. {t \in Live(g) : Completes(g, t, p)} \in SUBSET Tickets /\ \A t \in Live(g) : g.ticket[t].status \notin {"none", "cancelled"}
  BY DEF Live
<1>1. PICK W \in SUBSET Tickets : W = {t \in Live(g) : Completes(g, t, p)} /\ \A t \in W : g.ticket[t].status \notin {"none", "cancelled"}
  BY <1>0
<1>2. CASE W = {}
  BY <1>1, <1>2, Zenon DEF SettlePattern
<1>3. CASE W # {}
  <2>1. IsFiniteSet(W) /\ Cardinality(W) \in Nat /\ Cardinality(W) # 0
    BY <1>3, FS_Subset, FS_CardinalityType, FS_EmptySet, SettlementAssumption
  <2>2. ASSUME NEW t \in W PROVE share(t, W) \in Nat
    <3>1. Cardinality({u \in W : u <= t}) \in Nat
      BY <2>1, FS_Subset, FS_CardinalityType
    <3> QED BY <2>1, <3>1, ShareOfWinnersNat
  <2> HIDE DEF share
  <2>30. [t \in W |-> share(t, W)] \in [W -> Nat]
    BY <2>2
  <2>3. PICK due \in [W -> Nat] : due = [t \in W |-> share(t, W)] /\ \A t \in W : due[t] = share(t, W)
    BY <2>30
  <2>4. PICK key \in CreditKeys : key = <<"settlement", p>>
    BY SettlementKey
  <2>5. PICK k : k = CreditEach(g, key, due)
    OBVIOUS
  <2> DEFINE rows1 == [t \in Tickets |-> IF t \in W THEN PatternWinner(g.ticket[t], share(t, W)) ELSE g.ticket[t]]
  <2>6. PICK room0 \in RoomRows : room0 = g.room
    BY RowFields
  <2>7. PICK prize \in Nat : prize = PatternPrize
    BY SettlementAssumption
  <2>8. PICK room1 : room1 = Settled(room0, p, W, prize)
    OBVIOUS
  <2>9. r = [k EXCEPT !.ticket = rows1, !.room = room1]
    BY <1>1, <1>3, <2>3, <2>4, <2>5, <2>6, <2>7, <2>8, Zenon DEF SettlePattern, share
  <2>10. /\ k \in AllRows /\ k.room = g.room /\ k.ticket = g.ticket /\ k.mode = g.mode /\ k.deal = g.deal
         /\ \A t \in Tickets : t \notin W => k.credit[t] = g.credit[t]
         /\ \A t \in W : Adds(g.credit[t], k.credit[t], key, due[t])
    <3>1. W \in SUBSET Tickets /\ due \in [W -> Nat]
      OBVIOUS
    <3> QED BY <2>5, <3>1, CreditEachEffect, SMTT(60)
  <2>11. PlaceSettled(room0, p, W, room1)
    BY <2>8, SettledEffect
  <2>12. ASSUME NEW t \in W PROVE RowPaid(g.ticket[t], rows1[t], due[t]) /\ rows1[t].status = "won" /\ rows1[t] \in TicketRows
    <3>1. PICK row \in TicketRows : row = g.ticket[t]
      BY RowFields
    <3>2. PICK new : new = PatternWinner(row, due[t])
      OBVIOUS
    <3>3. due[t] \in Nat
      OBVIOUS
    <3>4. RowPaid(row, new, due[t]) /\ new.status = "won"
      BY <3>2, <3>3, PatternWinnerEffect
    <3>5. rows1[t] = new
      BY <2>3, <3>1, <3>2
    <3> QED BY <3>1, <3>4, <3>5 DEF RowPaid
  <2>13. \A t \in Tickets : t \notin W => rows1[t] = g.ticket[t]
    OBVIOUS
  <2>14. rows1 = [t \in Tickets |-> rows1[t]]
    OBVIOUS
  <2> HIDE DEF rows1
  <2>15. \A t \in Tickets : rows1[t] \in TicketRows
    BY <2>12, <2>13, RowFields
  <2>16. rows1 \in [Tickets -> TicketRows]
    BY <2>14, <2>15
  <2>17. room1 \in RoomRows
    BY <2>11 DEF PlaceSettled
  <2>18. r \in AllRows /\ r.room = room1 /\ r.mode = k.mode /\ r.deal = k.deal /\ r.credit = k.credit /\ r.ticket = rows1
    BY <2>9, <2>10, <2>16, <2>17 DEF AllRows
  <2>19. SameRoom(g, r)
    BY <2>6, <2>10, <2>11, <2>18 DEF SameRoom, PlaceSettled
  <2>20. \A t \in Tickets : t \notin W => r.ticket[t] = g.ticket[t] /\ r.credit[t] = g.credit[t]
    BY <2>10, <2>13, <2>18
  <2>21. \A t \in W : /\ g.ticket[t].status \notin {"none", "cancelled"} /\ r.ticket[t].status = "won"
                      /\ \E s \in Nat : RowPaid(g.ticket[t], r.ticket[t], s) /\ Adds(g.credit[t], r.credit[t], <<"settlement", p>>, s)
    BY <1>1, <2>4, <2>10, <2>12, <2>18
  <2>22. Shared(g, r, W, p)
    BY <2>6, <2>11, <2>18, <2>19, <2>20, <2>21 DEF Shared
  <2> QED BY <2>22
<1> QED BY <1>2, <1>3

LEMMA FullHouseEffect ==
  ASSUME NEW g \in AllRows, NEW r, r = SettleFullHouse(g)
  PROVE  r = g \/ (1 \notin g.room.settled /\ \E w \in Tickets : g.ticket[w].status \notin {"none", "cancelled"} /\ Awarded(g, r, w, 1))
<1>0. {t \in Live(g) : Completes(g, t, 1)} \in SUBSET Tickets /\ \A t \in Live(g) : g.ticket[t].status \notin {"none", "cancelled"}
  BY DEF Live
<1>1. PICK W \in SUBSET Tickets : W = {t \in Live(g) : Completes(g, t, 1)} /\ \A t \in W : g.ticket[t].status \notin {"none", "cancelled"}
  BY <1>0
<1>2. CASE W = {} \/ 1 \in g.room.settled
  BY <1>1, <1>2, Zenon DEF SettleFullHouse
<1>3. CASE ~(W = {} \/ 1 \in g.room.settled)
  <2>1. PICK w \in W : w = Min(W)
    BY <1>3, MinIn, SettlementAssumption
  <2>2. PICK prize \in Nat : prize = Pool(g)
    BY PoolNat
  <2>3. PICK p \in Places : p = 1
    BY SettlementAssumption
  <2>4. PICK key \in CreditKeys : key = <<"settlement", p>>
    BY SettlementKey
  <2>5. PICK k : k = Credit(g, w, key, prize)
    OBVIOUS
  <2>6. PICK row \in TicketRows : row = g.ticket[w]
    BY RowFields
  <2>7. PICK new : new = Winner(row, p, prize)
    OBVIOUS
  <2>8. PICK room0 \in RoomRows : room0 = g.room
    BY RowFields
  <2>9. PICK X \in SUBSET Tickets : X = {w}
    OBVIOUS
  <2>10. PICK room1 : room1 = Settled(room0, p, X, prize)
    OBVIOUS
  <2>11. r = [k EXCEPT !.ticket[w] = new, !.room = room1]
    BY <1>1, <1>3, <2>1, <2>2, <2>3, <2>4, <2>5, <2>6, <2>7, <2>8, <2>9, <2>10, Zenon DEF SettleFullHouse
  <2>12. /\ k \in AllRows /\ k.room = g.room /\ k.ticket = g.ticket /\ k.mode = g.mode /\ k.deal = g.deal
         /\ \A t \in Tickets : t # w => k.credit[t] = g.credit[t]
         /\ Adds(g.credit[w], k.credit[w], key, prize)
    BY <2>5, CreditEffect
  <2>13. RowWins(row, p, prize, new)
    BY <2>7, WinnerEffect
  <2>14. PlaceSettled(room0, p, X, room1)
    BY <2>10, SettledEffect
  <2>15. PICK rows1 : rows1 = [k.ticket EXCEPT ![w] = new]
    OBVIOUS
  <2>16. rows1 \in [Tickets -> TicketRows] /\ rows1[w] = new /\ \A t \in Tickets : t # w => rows1[t] = g.ticket[t]
    BY <2>12, <2>13, <2>15, RowFields DEF RowWins
  <2>17. r = [k EXCEPT !.ticket = rows1, !.room = room1]
    BY <2>11, <2>15
  <2>18. r \in AllRows /\ r.room = room1 /\ r.ticket = rows1 /\ r.credit = k.credit /\ r.mode = k.mode /\ r.deal = k.deal
    BY <2>12, <2>14, <2>16, <2>17 DEF AllRows, PlaceSettled
  <2>19. SameRoom(g, r)
    BY <2>8, <2>12, <2>14, <2>18 DEF SameRoom, PlaceSettled
  <2>20. Awarded(g, r, w, p)
    BY <2>4, <2>6, <2>8, <2>9, <2>12, <2>13, <2>14, <2>16, <2>18, <2>19 DEF Awarded
  <2> QED BY <1>1, <1>3, <2>3, <2>20
<1> QED BY <1>2, <1>3

\* The room closes, its places and its tickets as they are.
Closed(g, r, status) ==
  /\ r \in AllRows /\ r.mode = g.mode /\ r.deal = g.deal /\ r.ticket = g.ticket /\ r.credit = g.credit
  /\ r.room.status = status /\ r.room.settled = g.room.settled /\ r.room.winners = g.room.winners
  /\ r.room.shown = g.room.shown /\ r.room.price = g.room.price

LEMMA ClosedEffect ==
  ASSUME NEW g \in AllRows, NEW status \in {"completed", "cancelled"}, NEW r, r = [g EXCEPT !.room.status = status]
  PROVE  Closed(g, r, status) /\ r.room.sold = g.room.sold
<1>1. PICK room0 \in RoomRows : room0 = g.room
  BY RowFields
<1>2. PICK room1 : room1 = [room0 EXCEPT !.status = status]
  OBVIOUS
<1>3. /\ room1 \in RoomRows /\ room1.status = status /\ room1.settled = room0.settled /\ room1.winners = room0.winners
      /\ room1.sold = room0.sold /\ room1.shown = room0.shown /\ room1.price = room0.price
  BY <1>2 DEF RoomRows
<1>4. r = [g EXCEPT !.room = room1]
  BY <1>1, <1>2
<1>5. r \in AllRows /\ r.mode = g.mode /\ r.deal = g.deal /\ r.ticket = g.ticket /\ r.credit = g.credit /\ r.room = room1
  BY <1>3, <1>4 DEF AllRows
<1> QED BY <1>1, <1>3, <1>5 DEF Closed

LEMMA CompletedEffect == ASSUME NEW g \in AllRows, NEW r, r = Completed(g) PROVE Closed(g, r, "completed") /\ r.room.sold = g.room.sold
<1>1. r = [g EXCEPT !.room.status = "completed"]
  BY Zenon DEF Completed
<1> QED BY <1>1, ClosedEffect

\* What waits for a settlement is refunded, then the room closes.
CalledOff(g, r) ==
  \E W \in SUBSET Tickets : \E k \in AllRows :
    /\ \A t \in Tickets : t \in W <=> g.ticket[t].pending
    /\ Refunded(g, k, W, "refund") /\ Closed(k, r, "cancelled")

LEMMA CancelledEffect == ASSUME NEW g \in AllRows, NEW r, r = Cancelled(g) PROVE CalledOff(g, r)
<1>0. Unsettled(g) \in SUBSET Tickets /\ \A t \in Tickets : t \in Unsettled(g) <=> g.ticket[t].pending
  BY DEF Unsettled
<1>1. PICK W \in SUBSET Tickets : W = Unsettled(g) /\ \A t \in Tickets : t \in W <=> g.ticket[t].pending
  BY <1>0
<1>2. PICK k : k = Refund(g, W, "refund")
  OBVIOUS
<1>3. Refunded(g, k, W, "refund")
  BY <1>2, RefundEffect
<1>4. PICK h \in AllRows : h = k
  BY <1>3 DEF Refunded
<1>5. PICK room0 \in RoomRows : room0 = h.room
  BY RowFields
<1>6. PICK room1 : room1 = [room0 EXCEPT !.status = "cancelled", !.sold = 0]
  OBVIOUS
<1>7. /\ room1 \in RoomRows /\ room1.status = "cancelled" /\ room1.settled = room0.settled /\ room1.winners = room0.winners
      /\ room1.shown = room0.shown /\ room1.price = room0.price
  BY <1>6 DEF RoomRows
<1>8. r = [h EXCEPT !.room.status = "cancelled", !.room.sold = 0]
  BY <1>1, <1>2, <1>4, Zenon DEF Cancelled
<1>9. r = [h EXCEPT !.room = room1]
  BY <1>5, <1>6, <1>8 DEF AllRows, RoomRows
<1>10. r \in AllRows /\ r.mode = h.mode /\ r.deal = h.deal /\ r.ticket = h.ticket /\ r.credit = h.credit /\ r.room = room1
  BY <1>7, <1>9 DEF AllRows
<1>11. Closed(h, r, "cancelled")
  BY <1>5, <1>7, <1>10 DEF Closed
<1> QED BY <1>1, <1>3, <1>4, <1>11 DEF CalledOff

-----------------------------------------------------------------------------
(* What a ticket was credited, what it waits for, which places it has.      *)

PrizeKeys == {"settlement", "reconcile"} \X Places
RefundKeys == {"refund", "noresult", "cartela"} \X {0}

\* x are the credits of the ticket whose row is "row".
Money(row, x, m) ==
  /\ SumFunctionOnSet(x, PrizeKeys) = row.payout
  /\ row.status # "won" => row.payout = 0 \/ (m = "pattern" /\ row.status = "cancelled")
  /\ IF row.status = "cancelled" THEN SumFunctionOnSet(x, RefundKeys) = row.stake ELSE \A k \in RefundKeys : x[k] = 0

LEMMA KeysAreFinite ==
  IsFiniteSet(PrizeKeys) /\ IsFiniteSet(RefundKeys) /\ PrizeKeys \subseteq CreditKeys /\ RefundKeys \subseteq CreditKeys /\ PrizeKeys \cap RefundKeys = {}
<1>1. IsFiniteSet({"settlement", "reconcile"}) /\ IsFiniteSet({"refund", "noresult", "cartela"}) /\ IsFiniteSet({0})
  <2>1. IsFiniteSet({}) /\ \A S, x : IsFiniteSet(S) => IsFiniteSet(S \cup {x})
    BY FS_EmptySet, FS_AddElement
  <2>2. IsFiniteSet({} \cup {0}) /\ IsFiniteSet(({} \cup {"settlement"}) \cup {"reconcile"})
    BY <2>1
  <2>3. IsFiniteSet((({} \cup {"refund"}) \cup {"noresult"}) \cup {"cartela"})
    BY <2>1
  <2>4. {} \cup {0} = {0} /\ ({} \cup {"settlement"}) \cup {"reconcile"} = {"settlement", "reconcile"}
    OBVIOUS
  <2>5. (({} \cup {"refund"}) \cup {"noresult"}) \cup {"cartela"} = {"refund", "noresult", "cartela"}
    OBVIOUS
  <2> QED BY <2>2, <2>3, <2>4, <2>5
<1>2. IsFiniteSet(PrizeKeys) /\ IsFiniteSet(RefundKeys)
  BY <1>1, FS_Product, SettlementAssumption DEF PrizeKeys, RefundKeys
<1> QED BY <1>2 DEF PrizeKeys, RefundKeys, CreditKeys

LEMMA SumWithCredit ==
  ASSUME NEW x \in Credits, NEW y \in Credits, NEW K \in SUBSET CreditKeys, IsFiniteSet(K), NEW key \in K, NEW a \in Nat, Adds(x, y, key, a), x[key] = 0
  PROVE  SumFunctionOnSet(y, K) = SumFunctionOnSet(x, K) + a
<1>1. \A k \in K : x[k] \in Int /\ y[k] \in Int
  BY DEF Credits
<1>2. (\A k \in K \ {key} : y[k] = x[k]) /\ y[key] = a
  BY DEF Adds
<1>3. SumFunctionOnSet(y, K) = SumFunctionOnSet(x, K) - x[key] + y[key]
  BY <1>1, <1>2, SumChange
<1>4. SumFunctionOnSet(x, K) \in Int
  BY <1>1, SumInt
<1> QED BY <1>2, <1>3, <1>4

LEMMA SumWithout ==
  ASSUME NEW x \in Credits, NEW y \in Credits, NEW K \in SUBSET CreditKeys, IsFiniteSet(K), NEW key, key \notin K, NEW a, Adds(x, y, key, a)
  PROVE  SumFunctionOnSet(y, K) = SumFunctionOnSet(x, K)
<1>1. \A k \in K : x[k] = y[k]
  BY DEF Adds
<1> QED BY <1>1, SumEqual

LEMMA MoneyOfPrize ==
  ASSUME NEW row \in TicketRows, NEW new \in TicketRows, NEW x \in Credits, NEW y \in Credits, NEW m, NEW key \in PrizeKeys, NEW a \in Nat,
         Money(row, x, m), Adds(x, y, key, a), x[key] = 0, row.status # "cancelled", new.status = "won", new.payout = row.payout + a
  PROVE  Money(new, y, m)
<1>1. SumFunctionOnSet(y, PrizeKeys) = SumFunctionOnSet(x, PrizeKeys) + a
  BY KeysAreFinite, SumWithCredit
<1>2. SumFunctionOnSet(y, PrizeKeys) = new.payout
  BY <1>1 DEF Money
<1>3. \A k \in RefundKeys : y[k] = x[k]
  BY KeysAreFinite DEF Adds
<1>4. \A k \in RefundKeys : y[k] = 0
  BY <1>3 DEF Money
<1> QED BY <1>2, <1>4 DEF Money

LEMMA MoneyOfRefund ==
  ASSUME NEW row \in TicketRows, NEW new \in TicketRows, NEW x \in Credits, NEW y \in Credits, NEW m, NEW why \in {"refund", "noresult", "cartela"},
         Money(row, x, m), Adds(x, y, <<why, 0>>, row.stake), row.status # "cancelled", row.status = "won" => m = "pattern",
         RowEnds(row, new, "cancelled")
  PROVE  Money(new, y, m)
<1>0. new.status = "cancelled" /\ new.payout = row.payout /\ new.stake = row.stake
  BY DEF RowEnds, SameOwner
<1>1. PICK key \in RefundKeys : key = <<why, 0>>
  BY DEF RefundKeys
<1>2. \A k \in RefundKeys : x[k] = 0
  BY DEF Money
<1>3. row.stake \in Nat
  BY TicketFields
<1>4. SumFunctionOnSet(x, RefundKeys) = 0
  BY <1>2, KeysAreFinite, SumZero
<1>5. Adds(x, y, key, row.stake) /\ x[key] = 0
  BY <1>1, <1>2
<1>6. SumFunctionOnSet(y, RefundKeys) = SumFunctionOnSet(x, RefundKeys) + row.stake
  BY <1>3, <1>5, KeysAreFinite, SumWithCredit
<1>7. key \notin PrizeKeys
  BY KeysAreFinite
<1>8. SumFunctionOnSet(y, PrizeKeys) = SumFunctionOnSet(x, PrizeKeys)
  BY <1>5, <1>7, KeysAreFinite, SumWithout
<1> QED BY <1>0, <1>3, <1>4, <1>6, <1>8 DEF Money

LEMMA MoneyOfEnd ==
  ASSUME NEW row \in TicketRows, NEW new \in TicketRows, NEW x, NEW m, NEW status, Money(row, x, m), RowEnds(row, new, status),
         \/ row.status = status
         \/ row.status \notin {"won", "cancelled"} /\ status \notin {"won", "cancelled"}
  PROVE  Money(new, x, m)
BY DEF Money, RowEnds, SameOwner

\* While the room goes on: a ticket in play is not settled, prizes come from places.
Waits(row, x, settled, m) ==
  /\ row.status # "lost"
  /\ row.status = "active" => row.pending
  /\ row.pending => row.status \in {"active", "disqualified"} \/ (m = "pattern" /\ row.status = "won")
  /\ row.status = "cancelled" => m # "pattern"
  /\ row.status # "none" => row.card \in Cards
  /\ \A p \in Places : (x[<<"settlement", p>>] # 0 => p \in settled) /\ x[<<"reconcile", p>>] = 0

\* A place that went to a card is the only one of that card, and of that bot.
Seats(g) ==
  /\ \A t \in Tickets : g.ticket[t].status = "won" <=> g.ticket[t].tiers # {}
  /\ \A t \in Tickets : \A p \in g.ticket[t].tiers : p \in g.room.settled /\ g.room.winners[p] = {t} /\ g.ticket[t].tiers = {p}
  /\ \A p \in Places : \A t \in g.room.winners[p] : p \in g.ticket[t].tiers
  /\ \A p, q \in Places : \A t \in g.room.winners[p] : \A u \in g.room.winners[q] :
       p # q /\ g.ticket[t].user \in Bots => g.ticket[u].user # g.ticket[t].user

IsPrefilled(m) == m \in {"race", "leaderboard"}
MoneyRight(g) == \A t \in Tickets : Money(g.ticket[t], g.credit[t], g.mode)
Going(g) ==
  /\ MoneyRight(g) /\ \A t \in Tickets : Waits(g.ticket[t], g.credit[t], g.room.settled, g.mode)
  /\ IsPrefilled(g.mode) => Seats(g)
Ended(g) ==
  /\ MoneyRight(g) /\ \A t \in Tickets : g.ticket[t].status # "active"
  /\ g.mode = "pattern" /\ g.room.status = "completed" => \A t \in Tickets : g.ticket[t].status # "cancelled"
  /\ IsPrefilled(g.mode) => Seats(g)
RoomInv(g) == IF g.room.status \in {"completed", "cancelled"} THEN Ended(g) ELSE Going(g) /\ (g.mode = "leaderboard" => g.room.settled = {})

-----------------------------------------------------------------------------
(* A room that goes on stays right when a place is settled.                 *)

\* The cards are still those that were sold, to the same players.
KeptRow(x, y) == SameOwner(x, y) /\ (x.status \in {"none", "cancelled"} <=> y.status \in {"none", "cancelled"})
Kept(g, r) == SameRoom(g, r) /\ \A t \in Tickets : KeptRow(g.ticket[t], r.ticket[t])

LEMMA KeptStays == ASSUME NEW g \in AllRows PROVE Kept(g, g)
BY DEF Kept, KeptRow, SameRoom, SameOwner

LEMMA KeptThrough == ASSUME NEW g, NEW h, NEW r, Kept(g, h), Kept(h, r) PROVE Kept(g, r)
<1>1. SameRoom(g, r)
  BY DEF Kept, SameRoom
<1>2. \A t \in Tickets : KeptRow(g.ticket[t], r.ticket[t])
  BY DEF Kept, KeptRow, SameOwner
<1> QED BY <1>1, <1>2 DEF Kept

TicketsGo(g) == MoneyRight(g) /\ \A t \in Tickets : Waits(g.ticket[t], g.credit[t], g.room.settled, g.mode)

LEMMA WaitsLonger ==
  ASSUME NEW row, NEW x, NEW S, NEW T, NEW m, Waits(row, x, S, m), S \subseteq T
  PROVE  Waits(row, x, T, m)
BY DEF Waits

LEMMA AwardedKeeps ==
  ASSUME NEW g \in AllRows, NEW a \in Tickets, NEW p \in Places, NEW r, Awarded(g, r, a, p), g.ticket[a].status \notin {"none", "cancelled"}
  PROVE  Kept(g, r)
<1>1. \A t \in Tickets : t # a => r.ticket[t] = g.ticket[t]
  BY DEF Awarded
<1>2. KeptRow(g.ticket[a], r.ticket[a])
  BY DEF Awarded, RowWins, KeptRow
<1>3. \A t \in Tickets : KeptRow(g.ticket[t], r.ticket[t])
  BY <1>1, <1>2 DEF KeptRow, SameOwner
<1> QED BY <1>3 DEF Awarded, Kept

LEMMA AwardedTicketsGo ==
  ASSUME NEW g \in AllRows, NEW a \in Tickets, NEW p \in Places, NEW r, Awarded(g, r, a, p), TicketsGo(g),
         p \notin g.room.settled, g.ticket[a].status \notin {"none", "cancelled"}
  PROVE  TicketsGo(r)
<1>1. PICK prize \in Nat : RowWins(g.ticket[a], p, prize, r.ticket[a]) /\ Adds(g.credit[a], r.credit[a], <<"settlement", p>>, prize)
  BY DEF Awarded
<1>2. r \in AllRows /\ r.mode = g.mode /\ r.room.settled = g.room.settled \cup {p}
  BY DEF Awarded, SameRoom, PlaceSettled
<1>3. PICK row \in TicketRows : row = g.ticket[a]
  BY RowFields
<1>4. PICK new \in TicketRows : new = r.ticket[a]
  BY <1>2, RowFields
<1>5. PICK x \in Credits : x = g.credit[a]
  BY RowFields
<1>6. PICK y \in Credits : y = r.credit[a]
  BY <1>2, RowFields
<1>7. PICK key \in PrizeKeys : key = <<"settlement", p>>
  BY DEF PrizeKeys
<1>8. Money(row, x, g.mode) /\ Waits(row, x, g.room.settled, g.mode)
  BY <1>3, <1>5 DEF TicketsGo, MoneyRight
<1>9. x[key] = 0
  BY <1>7, <1>8 DEF Waits
<1>10. new.status = "won" /\ new.pending = FALSE /\ new.payout = row.payout + prize /\ new.card = row.card
  BY <1>1, <1>3, <1>4 DEF RowWins, SameOwner
<1>20. new.card \in Cards
  BY <1>3, <1>8, <1>10 DEF Waits
<1>11. Adds(x, y, key, prize) /\ row.status # "cancelled"
  BY <1>1, <1>3, <1>5, <1>6, <1>7
<1>12. Money(new, y, g.mode)
  BY <1>8, <1>9, <1>10, <1>11, MoneyOfPrize
<1>13. \A q \in Places : (y[<<"settlement", q>>] # 0 => q \in g.room.settled \cup {p}) /\ y[<<"reconcile", q>>] = 0
  <2> SUFFICES ASSUME NEW q \in Places PROVE (y[<<"settlement", q>>] # 0 => q \in g.room.settled \cup {p}) /\ y[<<"reconcile", q>>] = 0
    OBVIOUS
  <2>1. \A k \in CreditKeys : k # <<"settlement", p>> => y[k] = x[k]
    BY <1>7, <1>11 DEF Adds
  <2>2. <<"settlement", q>> \in CreditKeys /\ <<"reconcile", q>> \in CreditKeys
    BY SettlementKey
  <2>3. <<"reconcile", q>> # <<"settlement", p>> /\ (q # p => <<"settlement", q>> # <<"settlement", p>>)
    OBVIOUS
  <2>4. (x[<<"settlement", q>>] # 0 => q \in g.room.settled) /\ x[<<"reconcile", q>>] = 0
    BY <1>8 DEF Waits
  <2>5. y[<<"reconcile", q>>] = x[<<"reconcile", q>>] /\ (q # p => y[<<"settlement", q>>] = x[<<"settlement", q>>])
    BY <2>1, <2>2, <2>3
  <2> QED BY <2>4, <2>5
<1>14. Waits(new, y, g.room.settled \cup {p}, g.mode)
  BY <1>10, <1>13, <1>20 DEF Waits
<1>15. \A t \in Tickets : t # a => r.ticket[t] = g.ticket[t] /\ r.credit[t] = g.credit[t]
  BY DEF Awarded
<1>16. MoneyRight(r)
  BY <1>2, <1>4, <1>6, <1>12, <1>15 DEF TicketsGo, MoneyRight
<1>17. \A t \in Tickets : t # a => Waits(r.ticket[t], r.credit[t], g.room.settled \cup {p}, g.mode)
  BY <1>15, WaitsLonger DEF TicketsGo
<1> QED BY <1>2, <1>4, <1>6, <1>14, <1>16, <1>17 DEF TicketsGo

\* The card a may have the place p: neither it nor the bot it belongs to has one.
MayWin(g, a) ==
  /\ \A p \in Places : a \notin g.room.winners[p]
  /\ \A p \in Places : \A u \in g.room.winners[p] : g.ticket[a].user \in Bots => g.ticket[u].user # g.ticket[a].user

LEMMA AwardedSeats ==
  ASSUME NEW g \in AllRows, NEW a \in Tickets, NEW p \in Places, NEW r, Awarded(g, r, a, p), Seats(g),
         p \notin g.room.settled, MayWin(g, a)
  PROVE  Seats(r)
<1>1. /\ r.ticket[a].status = "won" /\ r.ticket[a].tiers = g.ticket[a].tiers \cup {p} /\ r.ticket[a].user = g.ticket[a].user
      /\ \A t \in Tickets : t # a => r.ticket[t] = g.ticket[t]
  BY DEF Awarded, RowWins, SameOwner
<1>2. r.room.settled = g.room.settled \cup {p} /\ r.room.winners = [g.room.winners EXCEPT ![p] = {a}]
  BY DEF Awarded, PlaceSettled
<1>3. PICK W : W = g.room.winners
  OBVIOUS
<1>4. W \in [Places -> SUBSET Tickets]
  BY <1>3, RowFields, RoomFields
<1>5. r.room.winners[p] = {a} /\ \A q \in Places : q # p => r.room.winners[q] = W[q]
  BY <1>2, <1>3, <1>4
<1>6. \A t \in Tickets : g.ticket[t].tiers \in SUBSET Places
  BY RowFields, TicketFields
<1>7. g.ticket[a].tiers = {}
  BY <1>6 DEF Seats, MayWin
<1>8. r.ticket[a].tiers = {p}
  BY <1>1, <1>7
<1>9. \A t \in Tickets : r.ticket[t].status = "won" <=> r.ticket[t].tiers # {}
  BY <1>1, <1>8 DEF Seats
<1>10. ASSUME NEW t \in Tickets, NEW q \in r.ticket[t].tiers
       PROVE  q \in r.room.settled /\ r.room.winners[q] = {t} /\ r.ticket[t].tiers = {q}
  <2>1. CASE t = a
    BY <1>2, <1>5, <1>8, <2>1
  <2>2. CASE t # a
    <3>1. q \in g.ticket[t].tiers /\ q \in Places
      BY <1>1, <1>6, <2>2
    <3>2. q \in g.room.settled /\ W[q] = {t} /\ g.ticket[t].tiers = {q}
      BY <1>3, <3>1 DEF Seats
    <3> QED BY <1>1, <1>2, <1>5, <2>2, <3>1, <3>2
  <2> QED BY <2>1, <2>2
<1>11. ASSUME NEW q \in Places, NEW t \in r.room.winners[q] PROVE q \in r.ticket[t].tiers /\ (q # p => t # a /\ t \in W[q] /\ t \in Tickets)
  <2>1. CASE q = p
    BY <1>5, <1>8, <2>1
  <2>2. CASE q # p
    <3>1. t \in W[q] /\ t \in Tickets
      BY <1>4, <1>5, <2>2
    <3>2. t # a
      BY <1>3, <3>1 DEF MayWin
    <3> QED BY <1>1, <1>3, <3>1, <3>2 DEF Seats
  <2> QED BY <2>1, <2>2
<1>12. ASSUME NEW q1 \in Places, NEW q2 \in Places, NEW t \in r.room.winners[q1], NEW u \in r.room.winners[q2],
              q1 # q2, r.ticket[t].user \in Bots
       PROVE  r.ticket[u].user # r.ticket[t].user
  <2>1. CASE q1 = p
    <3>1. t = a /\ u # a /\ u \in W[q2] /\ u \in Tickets
      BY <1>5, <1>11, <1>12, <2>1
    <3> QED BY <1>1, <1>3, <1>12, <3>1 DEF MayWin
  <2>2. CASE q2 = p
    <3>1. u = a /\ t # a /\ t \in W[q1] /\ t \in Tickets
      BY <1>5, <1>11, <1>12, <2>2
    <3> QED BY <1>1, <1>3, <1>12, <3>1 DEF MayWin
  <2>3. CASE q1 # p /\ q2 # p
    <3>1. t # a /\ t \in W[q1] /\ t \in Tickets /\ u # a /\ u \in W[q2] /\ u \in Tickets
      BY <1>11, <2>3
    <3> QED BY <1>1, <1>3, <1>12, <3>1 DEF Seats
  <2> QED BY <2>1, <2>2, <2>3
<1> QED BY <1>9, <1>10, <1>11, <1>12 DEF Seats

LEMMA ForfeitedGoes ==
  ASSUME NEW g \in AllRows, NEW a \in Tickets, NEW p \in Places, NEW r, Forfeited(g, r, a, p), Going(g),
         p \notin g.room.settled, g.ticket[a].status = "disqualified"
  PROVE  Going(r) /\ Kept(g, r) /\ \A t \in Tickets : r.ticket[t].status = g.ticket[t].status
<1>1. /\ SameRoom(g, r) /\ PlaceSettled(g.room, p, {}, r.room) /\ r.credit = g.credit
      /\ \A t \in Tickets : t # a => r.ticket[t] = g.ticket[t]
      /\ RowEnds(g.ticket[a], r.ticket[a], "disqualified")
  BY DEF Forfeited
<1>2. r \in AllRows /\ r.mode = g.mode /\ r.room.settled = g.room.settled \cup {p} /\ r.room.winners = [g.room.winners EXCEPT ![p] = {}]
  BY <1>1 DEF SameRoom, PlaceSettled
<1>3. PICK row \in TicketRows : row = g.ticket[a]
  BY RowFields
<1>4. PICK new \in TicketRows : new = r.ticket[a]
  BY <1>2, RowFields
<1>5. PICK x : x = g.credit[a]
  OBVIOUS
<1>6. /\ new.status = "disqualified" /\ new.pending = FALSE /\ new.tiers = row.tiers /\ SameOwner(row, new)
      /\ RowEnds(row, new, "disqualified") /\ row.status = "disqualified"
  BY <1>1, <1>3, <1>4 DEF RowEnds
<1>7. Money(row, x, g.mode) /\ Waits(row, x, g.room.settled, g.mode)
  BY <1>3, <1>5 DEF Going, MoneyRight
<1>8. Money(new, x, g.mode)
  BY <1>6, <1>7, MoneyOfEnd
<1>9. Waits(new, x, g.room.settled, g.mode)
  BY <1>6, <1>7 DEF Waits, SameOwner
<1>10. MoneyRight(r)
  BY <1>1, <1>2, <1>4, <1>5, <1>8 DEF Going, MoneyRight
<1>11. \A t \in Tickets : Waits(r.ticket[t], r.credit[t], g.room.settled, g.mode)
  BY <1>1, <1>4, <1>5, <1>9 DEF Going
<1>12. \A t \in Tickets : Waits(r.ticket[t], r.credit[t], r.room.settled, r.mode)
  BY <1>2, <1>11, WaitsLonger
<1>13. \A t \in Tickets : /\ r.ticket[t].status = g.ticket[t].status /\ r.ticket[t].tiers = g.ticket[t].tiers
                          /\ SameOwner(g.ticket[t], r.ticket[t])
  BY <1>1, <1>3, <1>4, <1>6 DEF SameOwner
<1>14. ASSUME IsPrefilled(g.mode) PROVE Seats(r)
  <2>1. Seats(g)
    BY <1>14 DEF Going
  <2>2. PICK W : W = g.room.winners
    OBVIOUS
  <2>3. W \in [Places -> SUBSET Tickets]
    BY <2>2, RowFields, RoomFields
  <2>4. r.room.winners[p] = {} /\ \A q \in Places : q # p => r.room.winners[q] = W[q]
    BY <1>2, <2>2, <2>3
  <2>5. \A t \in Tickets : r.ticket[t].status = "won" <=> r.ticket[t].tiers # {}
    BY <1>13, <2>1 DEF Seats
  <2>6. ASSUME NEW t \in Tickets, NEW q \in r.ticket[t].tiers
        PROVE  q \in r.room.settled /\ r.room.winners[q] = {t} /\ r.ticket[t].tiers = {q}
    <3>1. q \in g.ticket[t].tiers /\ q \in Places
      BY <1>13, RowFields, TicketFields
    <3>2. q \in g.room.settled /\ W[q] = {t} /\ g.ticket[t].tiers = {q}
      BY <2>1, <2>2, <3>1 DEF Seats
    <3> QED BY <1>2, <1>13, <2>4, <3>1, <3>2
  <2>7. ASSUME NEW q \in Places, NEW t \in r.room.winners[q] PROVE q \in r.ticket[t].tiers /\ t \in W[q] /\ t \in Tickets
    <3>1. q # p /\ t \in W[q] /\ t \in Tickets
      BY <2>3, <2>4
    <3> QED BY <1>13, <2>1, <2>2, <3>1 DEF Seats
  <2>8. ASSUME NEW q1 \in Places, NEW q2 \in Places, NEW t \in r.room.winners[q1], NEW u \in r.room.winners[q2],
               q1 # q2, r.ticket[t].user \in Bots
        PROVE  r.ticket[u].user # r.ticket[t].user
    <3>1. t \in W[q1] /\ t \in Tickets /\ u \in W[q2] /\ u \in Tickets
      BY <2>7
    <3>2. r.ticket[t].user = g.ticket[t].user /\ r.ticket[u].user = g.ticket[u].user
      BY <1>13, <3>1 DEF SameOwner
    <3> QED BY <2>1, <2>2, <2>8, <3>1, <3>2 DEF Seats
  <2> QED BY <2>5, <2>6, <2>7, <2>8 DEF Seats
<1>15. Going(r)
  BY <1>2, <1>10, <1>12, <1>14 DEF Going
<1>16. Kept(g, r)
  BY <1>1, <1>13 DEF Kept, KeptRow
<1> QED BY <1>13, <1>15, <1>16

LEMMA SharedGoes ==
  ASSUME NEW g \in AllRows, NEW W \in SUBSET Tickets, NEW p \in Places, NEW r, Shared(g, r, W, p), Going(g),
         p \notin g.room.settled, g.mode = "pattern"
  PROVE  Going(r) /\ Kept(g, r)
<1>1. r \in AllRows /\ r.mode = g.mode /\ r.room.settled = g.room.settled \cup {p}
  BY DEF Shared, SameRoom, PlaceSettled
<1>2. ASSUME NEW t \in Tickets
      PROVE  Money(r.ticket[t], r.credit[t], r.mode) /\ Waits(r.ticket[t], r.credit[t], r.room.settled, r.mode) /\ KeptRow(g.ticket[t], r.ticket[t])
  <2>1. PICK row \in TicketRows : row = g.ticket[t]
    BY RowFields
  <2>2. PICK new \in TicketRows : new = r.ticket[t]
    BY <1>1, RowFields
  <2>3. PICK x \in Credits : x = g.credit[t]
    BY RowFields
  <2>4. PICK y \in Credits : y = r.credit[t]
    BY <1>1, RowFields
  <2>5. Money(row, x, g.mode) /\ Waits(row, x, g.room.settled, g.mode)
    BY <2>1, <2>3 DEF Going, MoneyRight
  <2>6. CASE t \in W
    <3>1. row.status \notin {"none", "cancelled"} /\ new.status = "won"
      BY <2>1, <2>2, <2>6 DEF Shared
    <3>2. PICK share \in Nat : RowPaid(row, new, share) /\ Adds(x, y, <<"settlement", p>>, share)
      BY <2>1, <2>2, <2>3, <2>4, <2>6 DEF Shared
    <3>3. PICK key \in PrizeKeys : key = <<"settlement", p>>
      BY DEF PrizeKeys
    <3>4. x[key] = 0
      BY <2>5, <3>3 DEF Waits
    <3>5. new.payout = row.payout + share /\ new.pending = row.pending /\ SameOwner(row, new)
      BY <3>2 DEF RowPaid
    <3>6. Adds(x, y, key, share)
      BY <3>2, <3>3
    <3>7. Money(new, y, g.mode)
      BY <2>5, <3>1, <3>4, <3>5, <3>6, MoneyOfPrize
    <3>8. \A q \in Places : (y[<<"settlement", q>>] # 0 => q \in g.room.settled \cup {p}) /\ y[<<"reconcile", q>>] = 0
      <4> SUFFICES ASSUME NEW q \in Places PROVE (y[<<"settlement", q>>] # 0 => q \in g.room.settled \cup {p}) /\ y[<<"reconcile", q>>] = 0
        OBVIOUS
      <4>1. \A k \in CreditKeys : k # <<"settlement", p>> => y[k] = x[k]
        BY <3>2 DEF Adds
      <4>2. <<"settlement", q>> \in CreditKeys /\ <<"reconcile", q>> \in CreditKeys
        BY SettlementKey
      <4>3. <<"reconcile", q>> # <<"settlement", p>> /\ (q # p => <<"settlement", q>> # <<"settlement", p>>)
        OBVIOUS
      <4>4. (x[<<"settlement", q>>] # 0 => q \in g.room.settled) /\ x[<<"reconcile", q>>] = 0
        BY <2>5 DEF Waits
      <4>5. y[<<"reconcile", q>>] = x[<<"reconcile", q>>] /\ (q # p => y[<<"settlement", q>>] = x[<<"settlement", q>>])
        BY <4>1, <4>2, <4>3
      <4> QED BY <4>4, <4>5
    <3>9. Waits(new, y, r.room.settled, g.mode)
      BY <1>1, <2>5, <3>1, <3>5, <3>8 DEF Waits, SameOwner
    <3>10. KeptRow(row, new)
      BY <3>1, <3>5 DEF KeptRow
    <3> QED BY <1>1, <2>1, <2>2, <2>4, <3>7, <3>9, <3>10
  <2>7. CASE t \notin W
    <3>1. r.ticket[t] = g.ticket[t] /\ r.credit[t] = g.credit[t]
      BY <2>7 DEF Shared
    <3>2. Waits(row, x, r.room.settled, g.mode)
      BY <1>1, <2>5, WaitsLonger
    <3>3. KeptRow(row, row)
      BY DEF KeptRow, SameOwner
    <3> QED BY <1>1, <2>1, <2>3, <2>5, <3>1, <3>2, <3>3
  <2> QED BY <2>6, <2>7
<1>3. ~IsPrefilled(r.mode)
  BY <1>1 DEF IsPrefilled
<1>4. SameRoom(g, r)
  BY DEF Shared
<1> QED BY <1>2, <1>3, <1>4 DEF Going, MoneyRight, Kept

-----------------------------------------------------------------------------
(* How the pool is split among the places.                                  *)

LEMMA SamePool ==
  ASSUME NEW g, NEW r, r.room.price = g.room.price,
         \A t \in Tickets : r.ticket[t].status \in {"none", "cancelled"} <=> g.ticket[t].status \in {"none", "cancelled"}
  PROVE  Pool(r) = Pool(g)
<1>1. Live(r) = Live(g)
  BY DEF Live
<1> QED BY <1>1 DEF Pool

LEMMA KeptPool == ASSUME NEW g, NEW r, Kept(g, r) PROVE Pool(r) = Pool(g)
BY SamePool DEF Kept, KeptRow, SameRoom

LEMMA SamePrizes ==
  ASSUME NEW g, NEW r, NEW c, Pool(r) = Pool(g)
  PROVE  /\ \A p : ProgressivePrize(r, p, c) = ProgressivePrize(g, p, c)
         /\ r.room.settled = g.room.settled => \A p : FinalPrize(r, p, c) = FinalPrize(g, p, c)
BY DEF ProgressivePrize, FinalPrize, Share

\* What leaves the places, their cards and their payouts alone leaves the split alone.
LEMMA SplitSame ==
  ASSUME NEW g \in AllRows, NEW r, NEW c, NEW s, SplitUpTo(g, c, s), Pool(r) = Pool(g),
         r.room.settled = g.room.settled, r.room.winners = g.room.winners, r.room.shown = g.room.shown,
         \A t \in Tickets : r.ticket[t].payout = g.ticket[t].payout
  PROVE  SplitUpTo(r, c, s)
<1>1. g.room.settled \subseteq c.places
  BY DEF SplitUpTo
<1>2. ASSUME NEW p \in g.room.settled
      PROVE  Priced(r, p, IF p \in s THEN FinalPrize(r, p, c) ELSE ProgressivePrize(r, p, c))
  <2>1. PICK a : a = IF p \in s THEN FinalPrize(g, p, c) ELSE ProgressivePrize(g, p, c)
    OBVIOUS
  <2>2. a = IF p \in s THEN FinalPrize(r, p, c) ELSE ProgressivePrize(r, p, c)
    BY <2>1, SamePrizes
  <2>3. Priced(g, p, a)
    BY <2>1 DEF SplitUpTo
  <2>4. p \in Places /\ g.room.winners \in [Places -> SUBSET Tickets]
    BY RowFields, RoomFields
  <2>5. Priced(r, p, a)
    BY <2>3, <2>4 DEF Priced
  <2> QED BY <2>2, <2>5
<1> QED BY <1>1, <1>2 DEF SplitUpTo

\* A place is settled for the prize that c gives it.
LEMMA SplitMore ==
  ASSUME NEW g \in AllRows, NEW r, NEW c, Split(g, c), Kept(g, r), NEW p \in Places, p \in c.places, p \notin g.room.settled,
         NEW W \in SUBSET Tickets, PlaceSettled(g.room, p, W, r.room), Shows(g, r, p, ProgressivePrize(g, p, c)),
         \A t \in W : r.ticket[t].payout = ProgressivePrize(g, p, c),
         \A q \in g.room.settled : \A t \in g.room.winners[q] : r.ticket[t].payout = g.ticket[t].payout
  PROVE  Split(r, c)
<1>1. g.room.winners \in [Places -> SUBSET Tickets] /\ g.room.shown \in [Places -> Nat] /\ g.room.settled \in SUBSET Places
  BY RowFields, RoomFields
<1>2. r.room.settled = g.room.settled \cup {p} /\ r.room.winners = [g.room.winners EXCEPT ![p] = W]
  BY DEF PlaceSettled
<1>3. r.room.shown = [g.room.shown EXCEPT ![p] = ProgressivePrize(g, p, c)]
  BY DEF Shows
<1>4. \A q : ProgressivePrize(r, q, c) = ProgressivePrize(g, q, c)
  BY KeptPool, SamePrizes
<1>5. PICK a : a = ProgressivePrize(g, p, c)
  OBVIOUS
<1>6. Priced(r, p, a)
  <2>1. r.room.shown[p] = a /\ r.room.winners[p] = W
    BY <1>1, <1>2, <1>3, <1>5
  <2> QED BY <1>5, <2>1 DEF Priced
<1>7. g.room.settled \subseteq c.places /\ \A q \in g.room.settled : Priced(g, q, ProgressivePrize(g, q, c))
  BY DEF Split, SplitUpTo
<1>8. ASSUME NEW q \in g.room.settled PROVE Priced(r, q, ProgressivePrize(g, q, c))
  <2>1. q # p /\ q \in Places
    BY <1>1
  <2>2. r.room.shown[q] = g.room.shown[q] /\ r.room.winners[q] = g.room.winners[q]
    BY <1>1, <1>2, <1>3, <2>1
  <2> QED BY <1>7, <2>2 DEF Priced
<1> QED BY <1>2, <1>4, <1>5, <1>6, <1>7, <1>8 DEF Split, SplitUpTo

\* A card that has no place was not paid anything.
LEMMA UnplacedUnpaid ==
  ASSUME NEW g \in AllRows, NEW a \in Tickets, Going(g), IsPrefilled(g.mode), MayWin(g, a) PROVE g.ticket[a].payout = 0
<1>1. Seats(g) /\ Money(g.ticket[a], g.credit[a], g.mode) /\ g.mode # "pattern"
  BY DEF Going, MoneyRight, IsPrefilled
<1>2. g.ticket[a].tiers \in SUBSET Places
  BY RowFields, TicketFields
<1>3. g.ticket[a].tiers = {}
  BY <1>1, <1>2 DEF Seats, MayWin
<1>4. g.ticket[a].status # "won"
  BY <1>1, <1>3 DEF Seats
<1> QED BY <1>1, <1>4 DEF Money

\* A step of the race settles one place, or none, as c says.
GoesBy(g, r, p, c) == r = g \/ \E a \in Tickets : r = Award(g, a, p, c) /\ MayWin(g, a)

LEMMA AwardSplits ==
  ASSUME NEW g \in AllRows, NEW c \in AllConfigs, NEW p \in Places, p \in c.places, p \notin g.room.settled, Going(g), IsPrefilled(g.mode),
         Split(g, c), NEW r, GoesBy(g, r, p, c), Kept(g, r)
  PROVE  Split(r, c)
<1>1. ASSUME NEW a \in Tickets, r = Award(g, a, p, c), MayWin(g, a) PROVE Split(r, c)
  <2>1. /\ Awarded(g, r, a, p) /\ Shows(g, r, p, ProgressivePrize(g, p, c))
        /\ r.ticket[a].payout = g.ticket[a].payout + ProgressivePrize(g, p, c)
    BY <1>1, AwardEffect
  <2>2. g.ticket[a].payout = 0
    BY <1>1, UnplacedUnpaid
  <2>3. ProgressivePrize(g, p, c) \in Nat
    BY PrizesNat
  <2>4. PICK W \in SUBSET Tickets : W = {a}
    OBVIOUS
  <2>5. PlaceSettled(g.room, p, W, r.room) /\ \A t \in Tickets : t # a => r.ticket[t] = g.ticket[t]
    BY <2>1, <2>4 DEF Awarded
  <2>6. \A t \in W : r.ticket[t].payout = ProgressivePrize(g, p, c)
    BY <2>1, <2>2, <2>3, <2>4
  <2>7. ASSUME NEW q \in g.room.settled, NEW t \in g.room.winners[q] PROVE r.ticket[t].payout = g.ticket[t].payout
    <3>1. q \in Places /\ t \in Tickets
      BY RowFields, RoomFields
    <3>2. t # a
      BY <1>1, <3>1 DEF MayWin
    <3> QED BY <2>5, <3>1, <3>2
  <2> QED BY <2>1, <2>5, <2>6, <2>7, SplitMore
<1> QED BY <1>1 DEF GoesBy

LEMMA HouseSplits ==
  ASSUME NEW g \in AllRows, NEW c \in AllConfigs, NEW p \in Places, p \in c.places, p \notin g.room.settled, Split(g, c),
         NEW a \in Tickets, NEW r, r = AwardToHouse(g, a, p, c), Kept(g, r)
  PROVE  Split(r, c)
<1>1. Forfeited(g, r, a, p) /\ Shows(g, r, p, ProgressivePrize(g, p, c))
  BY HouseEffect
<1>2. PICK W \in SUBSET Tickets : W = {}
  OBVIOUS
<1>3. PlaceSettled(g.room, p, W, r.room)
  BY <1>1, <1>2 DEF Forfeited
<1>4. \A t \in Tickets : r.ticket[t].payout = g.ticket[t].payout
  BY <1>1 DEF Forfeited, RowEnds
<1>5. \A q \in g.room.settled : g.room.winners[q] \in SUBSET Tickets
  BY RowFields, RoomFields
<1>6. \A q \in g.room.settled : \A t \in g.room.winners[q] : r.ticket[t].payout = g.ticket[t].payout
  BY <1>4, <1>5
<1> QED BY <1>1, <1>2, <1>3, <1>6, SplitMore

LEMMA NothingToSplit == ASSUME NEW g, NEW c, g.room.settled = {} PROVE Split(g, c) /\ SplitFinal(g, c)
BY DEF Split, SplitFinal, SplitUpTo

-----------------------------------------------------------------------------
(* The places of a race, one after the other.                               *)

LEMMA InPlayFact == ASSUME NEW g PROVE \A t : t \in InPlay(g) <=> t \in Tickets /\ g.ticket[t].status \in {"active", "won"}
BY DEF InPlay, With

LEMMA RedirectFact == ASSUME NEW g, NEW p PROVE \A t \in RedirectTo(g, p) : t = 0 \/ t \in InPlay(g)
BY Zenon DEF RedirectTo

LEMMA AwardeesFact == ASSUME NEW g, NEW p, NEW c, NEW t \in InPlay(g) PROVE \A a \in Awardees(g, t, p, c) : a = 0 \/ a \in InPlay(g)
<1>1. \A a \in RedirectTo(g, p) : a = 0 \/ a \in InPlay(g)
  BY RedirectFact
<1> QED BY <1>1 DEF Awardees

LEMMA AwardableFact ==
  ASSUME NEW g \in AllRows, NEW a \in Tickets, Awardable(g, a) PROVE MayWin(g, a)
<1>1. \A p \in Places : \A u \in g.room.winners[p] : u \in PlaceWinners(g)
  BY DEF PlaceWinners
<1> QED BY <1>1 DEF Awardable, MayWin, UserOf

\* A step of the race settles one place, or none.
PlaceGoes(g, r, p) ==
  r = g \/ \E a \in Tickets : Awarded(g, r, a, p) /\ MayWin(g, a) /\ g.ticket[a].status \notin {"none", "cancelled"}

LEMMA AwardGoes ==
  ASSUME NEW g \in AllRows, NEW a, a \in InPlay(g), Awardable(g, a), NEW p \in Places, NEW c \in AllConfigs, NEW r, r = Award(g, a, p, c)
  PROVE  PlaceGoes(g, r, p) /\ GoesBy(g, r, p, c)
<1>1. a \in Tickets /\ g.ticket[a].status \in {"active", "won"}
  BY InPlayFact
<1>2. Awarded(g, r, a, p)
  BY <1>1, AwardEffect
<1>3. MayWin(g, a)
  BY <1>1, AwardableFact
<1> QED BY <1>1, <1>2, <1>3 DEF PlaceGoes, GoesBy

LEMMA AwardOutcomesGo ==
  ASSUME NEW g \in AllRows, NEW p \in Places, NEW c \in AllConfigs, NEW r \in AwardOutcomes(g, p, c)
  PROVE  PlaceGoes(g, r, p) /\ GoesBy(g, r, p, c)
<1> DEFINE C == Candidates(g, p)
           OK(a) == a # 0 /\ Awardable(g, a)
           Final == IF CartelDual(g, c) /\ g.room.drawn >= Balls THEN RedirectTo(g, p) ELSE {0}
           Tried == IF C = {} THEN Final ELSE UNION {Awardees(g, t, p, c) : t \in C}
           MayFail == IF C = {} THEN \E a \in Final : ~OK(a) ELSE \A t \in C : \E a \in Awardees(g, t, p, c) : ~OK(a)
<1>1. r \in {Award(g, a, p, c) : a \in {b \in Tried : OK(b)}} \cup (IF MayFail THEN {g} ELSE {})
  BY Zenon DEF AwardOutcomes
<1>2. \A a \in Final : a = 0 \/ a \in InPlay(g)
  BY RedirectFact
<1>3. \A t \in C : t \in InPlay(g)
  BY DEF Candidates
<1>4. \A t \in C : \A a \in Awardees(g, t, p, c) : a = 0 \/ a \in InPlay(g)
  BY <1>3, AwardeesFact
<1> HIDE DEF C, Final
<1>5. \A a \in Tried : a = 0 \/ a \in InPlay(g)
  BY <1>2, <1>4
<1> HIDE DEF Tried, MayFail
<1>6. r = g \/ \E a \in Tried : OK(a) /\ r = Award(g, a, p, c)
  BY <1>1
<1>7. r = g \/ \E a \in InPlay(g) : Awardable(g, a) /\ r = Award(g, a, p, c)
  BY <1>5, <1>6
<1>8. r = g => PlaceGoes(g, r, p) /\ GoesBy(g, r, p, c)
  BY DEF PlaceGoes, GoesBy
<1> QED BY <1>7, <1>8, AwardGoes

LEMMA PlaceGoesOn ==
  ASSUME NEW g \in AllRows, NEW p \in Places, NEW r, PlaceGoes(g, r, p), Going(g), p \notin g.room.settled
  PROVE  r \in AllRows /\ Going(r) /\ Kept(g, r) /\ r.room.settled \subseteq g.room.settled \cup {p}
<1>1. CASE r = g
  BY <1>1, KeptStays
<1>2. CASE r # g
  <2>1. PICK a \in Tickets : Awarded(g, r, a, p) /\ MayWin(g, a) /\ g.ticket[a].status \notin {"none", "cancelled"}
    BY <1>2 DEF PlaceGoes
  <2>2. g.ticket[a].status \notin {"none", "cancelled"}
    BY <2>1
  <2>3. TicketsGo(g)
    BY DEF Going, TicketsGo
  <2>4. TicketsGo(r)
    BY <2>1, <2>2, <2>3, AwardedTicketsGo
  <2>5. r \in AllRows /\ r.mode = g.mode /\ r.room.settled = g.room.settled \cup {p}
    BY <2>1 DEF Awarded, SameRoom, PlaceSettled
  <2>6. IsPrefilled(g.mode) => Seats(r)
    BY <2>1, AwardedSeats DEF Going
  <2>7. Going(r)
    BY <2>4, <2>5, <2>6 DEF Going, TicketsGo
  <2>8. Kept(g, r)
    BY <2>1, <2>2, AwardedKeeps
  <2> QED BY <2>5, <2>7, <2>8
<1> QED BY <1>1, <1>2

\* The rows h that a race may reach from g by settling places of s.
Reached(g, h, s) == h \in AllRows /\ Going(h) /\ Kept(g, h) /\ h.room.settled \subseteq g.room.settled \cup s

LEMMA ReachedStays == ASSUME NEW g \in AllRows, Going(g) PROVE Reached(g, g, {})
BY KeptStays DEF Reached

LEMMA ReachedOn ==
  ASSUME NEW g, NEW h, NEW r, NEW s, NEW p \in s, Reached(g, h, s \ {p}), p \notin g.room.settled, p \in Places, PlaceGoes(h, r, p)
  PROVE  Reached(g, r, s)
<1>1. h \in AllRows /\ Going(h) /\ Kept(g, h) /\ h.room.settled \subseteq g.room.settled \cup (s \ {p})
  BY DEF Reached
<1>2. p \notin h.room.settled
  BY <1>1
<1>3. r \in AllRows /\ Going(r) /\ Kept(h, r) /\ r.room.settled \subseteq h.room.settled \cup {p}
  BY <1>1, <1>2, PlaceGoesOn
<1>4. Kept(g, r)
  BY <1>1, <1>3, KeptThrough
<1>5. r.room.settled \subseteq g.room.settled \cup s
  BY <1>1, <1>3
<1> QED BY <1>3, <1>4, <1>5 DEF Reached

\* The split is kept on the way from g to r.
Fair(g, r, c) == IsPrefilled(g.mode) /\ Split(g, c) => Split(r, c)

LEMMA FairOn ==
  ASSUME NEW g, NEW h, NEW r, NEW s, NEW p \in s, Reached(g, h, s \ {p}), p \notin g.room.settled, p \in Places,
         NEW c \in AllConfigs, p \in c.places, PlaceGoes(h, r, p), GoesBy(h, r, p, c), Fair(g, h, c)
  PROVE  Fair(g, r, c)
<1>1. h \in AllRows /\ Going(h) /\ h.mode = g.mode /\ p \notin h.room.settled
  BY DEF Reached, Kept, SameRoom
<1>2. Kept(h, r)
  BY <1>1, PlaceGoesOn
<1>3. IsPrefilled(h.mode) /\ Split(h, c) => Split(r, c)
  BY <1>1, <1>2, AwardSplits
<1> QED BY <1>1, <1>3 DEF Fair

LEMMA OpenPlacesFact ==
  ASSUME NEW g, NEW c \in AllConfigs
  PROVE  OpenPlaces(g, c) \in SUBSET Places /\ OpenPlaces(g, c) \cap g.room.settled = {} /\ OpenPlaces(g, c) \subseteq c.places
BY DEF OpenPlaces, AllConfigs

LEMMA PlacesFinite == ASSUME NEW P \in SUBSET Places PROVE P \in SUBSET Nat /\ IsFiniteSet(P)
<1>1. IsFiniteSet(P)
  BY FS_Subset, SettlementAssumption
<1>2. Places \subseteq Nat
  BY SettlementAssumption
<1> QED BY <1>1, <1>2

LEMMA HighestPlace == ASSUME NEW s \in SUBSET Places, s # {} PROVE Max(s) \in s
<1>1. s \in SUBSET Nat /\ IsFiniteSet(s)
  BY PlacesFinite
<1> QED BY <1>1, MaxIn

AwardedFrom(H, p, c) == UNION {AwardOutcomes(h, p, c) : h \in H}
Awards(g, c, f) ==
  f = [s \in SUBSET OpenPlaces(g, c) |-> IF s = {} THEN {g} ELSE AwardedFrom(f[s \ {Max(s)}], Max(s), c)]

AwardsOnce(g, c, f) ==
  f = [s \in SUBSET OpenPlaces(g, c) |-> IF s = {} THEN {g} ELSE [k \in {f[s \ {Max(s)}]} |-> AwardedFrom(k, Max(s), c)][f[s \ {Max(s)}]]]

LEMMA AwardsSame == ASSUME NEW g, NEW c, NEW f PROVE AwardsOnce(g, c, f) <=> Awards(g, c, f)
<1>1. ASSUME NEW h, NEW p PROVE [k \in {h} |-> AwardedFrom(k, p, c)][h] = AwardedFrom(h, p, c)
  OBVIOUS
<1> QED BY Zenon, <1>1 DEF AwardsOnce, Awards

LEMMA AwardPlacesChosen == ASSUME NEW g, NEW c PROVE AwardPlaces(g, c) = (CHOOSE f : Awards(g, c, f))[OpenPlaces(g, c)]
<1>1. AwardPlaces(g, c) = (CHOOSE f : AwardsOnce(g, c, f))[OpenPlaces(g, c)]
  BY Zenon DEF AwardPlaces, Each, MapThenFoldSet, AwardsOnce, AwardedFrom
<1>2. (CHOOSE f : AwardsOnce(g, c, f)) = (CHOOSE f : Awards(g, c, f))
  BY Zenon, AwardsSame
<1> QED BY Zenon, <1>1, <1>2

LEMMA AwardsExist == ASSUME NEW g \in AllRows, NEW c \in AllConfigs PROVE \E f : Awards(g, c, f)
<1> DEFINE D == SUBSET AllRows
<1>1. PICK P \in SUBSET Places : P = OpenPlaces(g, c)
  BY OpenPlacesFact
<1> DEFINE step == [x \in P \X D |-> AwardedFrom(x[2], x[1], c)]
<1>2. ASSUME NEW p \in P, NEW H \in D PROVE AwardedFrom(H, p, c) \in D
  <2> SUFFICES ASSUME NEW h \in H, NEW r \in AwardOutcomes(h, p, c) PROVE r \in AllRows
    BY DEF AwardedFrom
  <2>1. PlaceGoes(h, r, p)
    BY AwardOutcomesGo
  <2> QED BY <2>1 DEF PlaceGoes, Awarded, SameRoom
<1> HIDE DEF D
<1>3. step \in [P \X D -> D]
  <2> SUFFICES ASSUME NEW x \in P \X D PROVE AwardedFrom(x[2], x[1], c) \in D
    OBVIOUS
  <2>1. x[1] \in P /\ x[2] \in D
    OBVIOUS
  <2> QED BY <1>2, <2>1
<1>4. \A p \in P, H \in D : step[<<p, H>>] = AwardedFrom(H, p, c)
  OBVIOUS
<1> HIDE DEF step
<1>5. PICK start \in D : start = {g}
  BY DEF D
<1>6. P \in SUBSET Nat /\ IsFiniteSet(P)
  BY PlacesFinite
<1>7. PICK it \in [SUBSET P -> D] : StepsFrom(P, start, step, it)
  BY <1>3, <1>5, <1>6, StepsExist
<1>8. ASSUME NEW s \in SUBSET P
      PROVE  it[s] = IF s = {} THEN {g} ELSE AwardedFrom(it[s \ {Max(s)}], Max(s), c)
  <2>1. it[s] = IF s = {} THEN {g} ELSE step[<<Max(s), it[s \ {Max(s)}]>>]
    BY <1>5, <1>7 DEF StepsFrom
  <2>2. CASE s = {}
    BY <2>1, <2>2
  <2>3. CASE s # {}
    <3>1. Max(s) \in P
      BY <2>3, HighestPlace
    <3>2. it[s \ {Max(s)}] \in D
      OBVIOUS
    <3> QED BY <1>4, <2>1, <2>3, <3>1, <3>2
  <2> QED BY <2>2, <2>3
<1>9. it = [s \in SUBSET P |-> it[s]]
  OBVIOUS
<1>10. it = [s \in SUBSET P |-> IF s = {} THEN {g} ELSE AwardedFrom(it[s \ {Max(s)}], Max(s), c)]
  BY <1>8, <1>9
<1>11. Awards(g, c, it)
  BY <1>1, <1>10 DEF Awards
<1> QED BY <1>11

\* awardDerashPlace, place after place: the room goes on, its places go to one card each.
LEMMA AwardPlacesGo ==
  ASSUME NEW g \in AllRows, NEW c \in AllConfigs, Going(g), NEW r \in AwardPlaces(g, c)
  PROVE  Reached(g, r, OpenPlaces(g, c)) /\ Fair(g, r, c)
<1>1. PICK P \in SUBSET Places : P = OpenPlaces(g, c) /\ P \cap g.room.settled = {} /\ P \subseteq c.places
  BY OpenPlacesFact
<1>2. PICK f : f = CHOOSE h : Awards(g, c, h)
  OBVIOUS
<1>3. Awards(g, c, f)
  BY <1>2, AwardsExist
<1>4. \A s \in SUBSET P : f[s] = IF s = {} THEN {g} ELSE AwardedFrom(f[s \ {Max(s)}], Max(s), c)
  BY <1>1, <1>3 DEF Awards
<1> DEFINE G == {s \in SUBSET P : \A h \in f[s] : Reached(g, h, s) /\ Fair(g, h, c)}
<1>5. {} \in G
  <2>1. f[{}] = {g}
    BY <1>4
  <2>2. Reached(g, g, {}) /\ Fair(g, g, c)
    BY ReachedStays DEF Fair
  <2> QED BY <2>1, <2>2
<1>6. ASSUME NEW s \in SUBSET P, s # {}, s \ {Max(s)} \in G PROVE s \in G
  <2>1. PICK p \in s : p = Max(s)
    BY <1>6, HighestPlace
  <2> SUFFICES ASSUME NEW k \in f[s] PROVE Reached(g, k, s) /\ Fair(g, k, c)
    OBVIOUS
  <2>7. f[s] = AwardedFrom(f[s \ {p}], p, c)
    BY <1>4, <1>6, <2>1
  <2>2. PICK h \in f[s \ {p}] : k \in AwardOutcomes(h, p, c)
    BY <2>7 DEF AwardedFrom
  <2>3. Reached(g, h, s \ {p}) /\ Fair(g, h, c)
    BY <1>6, <2>1
  <2>4. h \in AllRows
    BY <2>3 DEF Reached
  <2>5. p \in Places /\ p \notin g.room.settled /\ p \in c.places
    BY <1>1
  <2>6. PlaceGoes(h, k, p) /\ GoesBy(h, k, p, c)
    BY <2>2, <2>4, <2>5, AwardOutcomesGo
  <2>8. Reached(g, k, s)
    BY <2>3, <2>5, <2>6, ReachedOn
  <2>9. Fair(g, k, c)
    BY <2>3, <2>5, <2>6, FairOn
  <2> QED BY <2>8, <2>9
<1>7. P \in G
  <2>1. P \in SUBSET Nat /\ IsFiniteSet(P)
    BY PlacesFinite
  <2> HIDE DEF G
  <2> QED BY <1>5, <1>6, <2>1, PlaceByPlace
<1>8. AwardPlaces(g, c) = f[P]
  BY <1>1, <1>2, AwardPlacesChosen
<1> QED BY <1>1, <1>7, <1>8

\* Places still open go to the house for a card that was disqualified.
HouseGoes(g, h, r, p) == r = h \/ \E a \in Tickets : Forfeited(h, r, a, p) /\ g.ticket[a].status = "disqualified"

HousedBy(h, r, p, c) == r = h \/ \E a \in Tickets : r = AwardToHouse(h, a, p, c)

LEMMA HouseOutcomeGoes ==
  ASSUME NEW g \in AllRows, NEW h \in AllRows, NEW p \in Places, NEW c \in AllConfigs, NEW r, r = HouseOutcome(h, PendingDq(g), p, c)
  PROVE  r \in AllRows /\ HouseGoes(g, h, r, p) /\ HousedBy(h, r, p, c)
<1>0. {t \in PendingDq(g) : Completes(h, t, p)} \in SUBSET Tickets /\ \A t \in PendingDq(g) : g.ticket[t].status = "disqualified"
  BY DEF PendingDq, With
<1>1. PICK W \in SUBSET Tickets : W = {t \in PendingDq(g) : Completes(h, t, p)} /\ \A t \in W : g.ticket[t].status = "disqualified"
  BY <1>0
<1>2. r = IF W = {} THEN h ELSE AwardToHouse(h, Min(W), p, c)
  BY <1>1, Zenon DEF HouseOutcome
<1>3. CASE W = {}
  BY <1>2, <1>3 DEF HouseGoes, HousedBy
<1>4. CASE W # {}
  <2>1. PICK a \in Tickets : a = Min(W) /\ a \in W
    <3>1. W \in SUBSET Nat
      BY SettlementAssumption
    <3>2. Min(W) \in W
      BY <1>4, <3>1, MinIn
    <3> QED BY <3>2
  <2>2. r = AwardToHouse(h, a, p, c)
    BY <1>2, <1>4, <2>1
  <2>3. Forfeited(h, r, a, p)
    BY <2>2, HouseEffect
  <2>4. r \in AllRows
    BY <2>3 DEF Forfeited, SameRoom
  <2> QED BY <1>1, <2>1, <2>2, <2>3, <2>4 DEF HouseGoes, HousedBy
<1> QED BY <1>3, <1>4

LEMMA HouseFair ==
  ASSUME NEW g, NEW h \in AllRows, NEW r, NEW p \in Places, NEW c \in AllConfigs, p \in c.places, p \notin h.room.settled, h.mode = g.mode,
         HousedBy(h, r, p, c), Fair(g, h, c)
  PROVE  Fair(g, r, c)
<1>1. CASE r = h
  BY <1>1
<1>2. ASSUME NEW a \in Tickets, r = AwardToHouse(h, a, p, c) PROVE Split(h, c) => Split(r, c)
  <2>1. Forfeited(h, r, a, p)
    BY <1>2, HouseEffect
  <2>2. \A t \in Tickets : KeptRow(h.ticket[t], r.ticket[t])
    BY <2>1 DEF Forfeited, RowEnds, KeptRow, SameOwner
  <2>3. Kept(h, r)
    BY <2>1, <2>2 DEF Forfeited, Kept
  <2> QED BY <1>2, <2>3, HouseSplits
<1> QED BY <1>1, <1>2 DEF HousedBy, Fair

Forfeits(g, c, f) ==
  f = [s \in SUBSET OpenPlaces(g, c) |-> IF s = {} THEN g ELSE HouseOutcome(f[s \ {Max(s)}], PendingDq(g), Max(s), c)]

ForfeitsOnce(g, c, f) ==
  f = [s \in SUBSET OpenPlaces(g, c) |-> IF s = {} THEN g ELSE [k \in {f[s \ {Max(s)}]} |-> HouseOutcome(k, PendingDq(g), Max(s), c)][f[s \ {Max(s)}]]]

LEMMA ForfeitsSame == ASSUME NEW g, NEW c, NEW f PROVE ForfeitsOnce(g, c, f) <=> Forfeits(g, c, f)
<1>1. ASSUME NEW h, NEW p PROVE [k \in {h} |-> HouseOutcome(k, PendingDq(g), p, c)][h] = HouseOutcome(h, PendingDq(g), p, c)
  OBVIOUS
<1> QED BY Zenon, <1>1 DEF ForfeitsOnce, Forfeits

LEMMA ForfeitPlacesChosen == ASSUME NEW g, NEW c PROVE ForfeitPlaces(g, c) = (CHOOSE f : Forfeits(g, c, f))[OpenPlaces(g, c)]
<1>1. ForfeitPlaces(g, c) = (CHOOSE f : ForfeitsOnce(g, c, f))[OpenPlaces(g, c)]
  BY Zenon DEF ForfeitPlaces, Each, MapThenFoldSet, ForfeitsOnce
<1>2. (CHOOSE f : ForfeitsOnce(g, c, f)) = (CHOOSE f : Forfeits(g, c, f))
  BY Zenon, ForfeitsSame
<1> QED BY Zenon, <1>1, <1>2

LEMMA ForfeitsExist == ASSUME NEW g \in AllRows, NEW c \in AllConfigs PROVE \E f : Forfeits(g, c, f) /\ f \in [SUBSET OpenPlaces(g, c) -> AllRows]
<1>1. PICK P \in SUBSET Places : P = OpenPlaces(g, c)
  BY OpenPlacesFact
<1> DEFINE step == [x \in P \X AllRows |-> HouseOutcome(x[2], PendingDq(g), x[1], c)]
<1>2. \A p \in P, h \in AllRows : HouseOutcome(h, PendingDq(g), p, c) \in AllRows
  BY HouseOutcomeGoes
<1>3. step \in [P \X AllRows -> AllRows]
  <2> SUFFICES ASSUME NEW x \in P \X AllRows PROVE HouseOutcome(x[2], PendingDq(g), x[1], c) \in AllRows
    OBVIOUS
  <2>1. x[1] \in P /\ x[2] \in AllRows
    OBVIOUS
  <2> QED BY <1>2, <2>1
<1>4. \A p \in P, h \in AllRows : step[<<p, h>>] = HouseOutcome(h, PendingDq(g), p, c)
  OBVIOUS
<1> HIDE DEF step
<1>6. P \in SUBSET Nat /\ IsFiniteSet(P)
  BY PlacesFinite
<1>7. PICK it \in [SUBSET P -> AllRows] : StepsFrom(P, g, step, it)
  BY <1>3, <1>6, StepsExist
<1>8. ASSUME NEW s \in SUBSET P
      PROVE  it[s] = IF s = {} THEN g ELSE HouseOutcome(it[s \ {Max(s)}], PendingDq(g), Max(s), c)
  <2>1. it[s] = IF s = {} THEN g ELSE step[<<Max(s), it[s \ {Max(s)}]>>]
    BY <1>7 DEF StepsFrom
  <2>2. CASE s = {}
    BY <2>1, <2>2
  <2>3. CASE s # {}
    <3>1. Max(s) \in P
      BY <2>3, HighestPlace
    <3>2. it[s \ {Max(s)}] \in AllRows
      OBVIOUS
    <3> QED BY <1>4, <2>1, <2>3, <3>1, <3>2
  <2> QED BY <2>2, <2>3
<1>9. it = [s \in SUBSET P |-> it[s]]
  OBVIOUS
<1>10. it = [s \in SUBSET P |-> IF s = {} THEN g ELSE HouseOutcome(it[s \ {Max(s)}], PendingDq(g), Max(s), c)]
  BY <1>8, <1>9
<1>11. Forfeits(g, c, it)
  BY <1>1, <1>10 DEF Forfeits
<1> QED BY <1>1, <1>11

\* The same rows are reached, and no ticket changes its status on the way.
Quietly(g, h, s) == Reached(g, h, s) /\ \A t \in Tickets : h.ticket[t].status = g.ticket[t].status

LEMMA QuietlyOn ==
  ASSUME NEW g, NEW h, NEW r, NEW s, NEW p \in s, Quietly(g, h, s \ {p}), p \notin g.room.settled, p \in Places, HouseGoes(g, h, r, p)
  PROVE  Quietly(g, r, s)
<1>1. h \in AllRows /\ Going(h) /\ Kept(g, h) /\ h.room.settled \subseteq g.room.settled \cup (s \ {p})
  BY DEF Quietly, Reached
<1>2. \A t \in Tickets : h.ticket[t].status = g.ticket[t].status
  BY DEF Quietly
<1>3. CASE r = h
  BY <1>1, <1>2, <1>3 DEF Quietly, Reached
<1>4. CASE r # h
  <2>1. PICK a \in Tickets : Forfeited(h, r, a, p) /\ g.ticket[a].status = "disqualified"
    BY <1>4 DEF HouseGoes
  <2>2. p \notin h.room.settled /\ h.ticket[a].status = "disqualified"
    BY <1>1, <1>2, <2>1
  <2>3. Going(r) /\ Kept(h, r) /\ \A t \in Tickets : r.ticket[t].status = h.ticket[t].status
    BY <1>1, <2>1, <2>2, ForfeitedGoes
  <2>4. r \in AllRows /\ r.room.settled = h.room.settled \cup {p}
    BY <2>1 DEF Forfeited, SameRoom, PlaceSettled
  <2>5. Kept(g, r)
    BY <1>1, <2>3, KeptThrough
  <2>6. r.room.settled \subseteq g.room.settled \cup s
    BY <1>1, <2>4
  <2> QED BY <1>2, <2>3, <2>4, <2>5, <2>6 DEF Quietly, Reached
<1> QED BY <1>3, <1>4

\* awardDerashPlaceToHouse, place after place.
LEMMA ForfeitPlacesGo ==
  ASSUME NEW g \in AllRows, NEW c \in AllConfigs, Going(g), NEW r, r = ForfeitPlaces(g, c)
  PROVE  Quietly(g, r, OpenPlaces(g, c)) /\ Fair(g, r, c)
<1>1. PICK P \in SUBSET Places : P = OpenPlaces(g, c) /\ P \cap g.room.settled = {} /\ P \subseteq c.places
  BY OpenPlacesFact
<1>2. PICK f : f = CHOOSE h : Forfeits(g, c, h)
  OBVIOUS
<1>3. Forfeits(g, c, f)
  BY <1>2, ForfeitsExist
<1>4. \A s \in SUBSET P : f[s] = IF s = {} THEN g ELSE HouseOutcome(f[s \ {Max(s)}], PendingDq(g), Max(s), c)
  BY <1>1, <1>3 DEF Forfeits
<1> DEFINE G == {s \in SUBSET P : Quietly(g, f[s], s) /\ Fair(g, f[s], c)}
<1>5. {} \in G
  <2>1. f[{}] = g
    BY <1>4
  <2>2. Quietly(g, g, {}) /\ Fair(g, g, c)
    BY ReachedStays DEF Quietly, Fair
  <2> QED BY <2>1, <2>2
<1>6. ASSUME NEW s \in SUBSET P, s # {}, s \ {Max(s)} \in G PROVE s \in G
  <2>1. PICK p \in s : p = Max(s)
    BY <1>6, HighestPlace
  <2>2. PICK h : h = f[s \ {p}]
    OBVIOUS
  <2>3. f[s] = HouseOutcome(h, PendingDq(g), p, c)
    BY <1>4, <1>6, <2>1, <2>2
  <2>4. Quietly(g, h, s \ {p}) /\ Fair(g, h, c)
    BY <1>6, <2>1, <2>2
  <2>5. h \in AllRows /\ h.mode = g.mode /\ h.room.settled \subseteq g.room.settled \cup (s \ {p})
    BY <2>4 DEF Quietly, Reached, Kept, SameRoom
  <2>6. p \in Places /\ p \notin g.room.settled /\ p \in c.places
    BY <1>1
  <2>7. PICK k : k = f[s]
    OBVIOUS
  <2>8. HouseGoes(g, h, k, p) /\ HousedBy(h, k, p, c)
    BY <2>3, <2>5, <2>6, <2>7, HouseOutcomeGoes
  <2>9. Quietly(g, k, s)
    BY <2>4, <2>6, <2>8, QuietlyOn
  <2>10. p \notin h.room.settled
    BY <2>5, <2>6
  <2>11. Fair(g, k, c)
    BY <2>4, <2>5, <2>6, <2>8, <2>10, HouseFair
  <2> QED BY <2>7, <2>9, <2>11
<1>7. P \in G
  <2>1. P \in SUBSET Nat /\ IsFiniteSet(P)
    BY PlacesFinite
  <2> HIDE DEF G
  <2> QED BY <1>5, <1>6, <2>1, PlaceByPlace
<1>8. ForfeitPlaces(g, c) = f[P]
  BY <1>1, <1>2, ForfeitPlacesChosen
<1> QED BY <1>1, <1>7, <1>8

\* evaluateAndSettleDerash: the room goes on.
GoesOn(g, r) == r \in AllRows /\ Going(r) /\ Kept(g, r)

LEMMA GoesOnThrough == ASSUME NEW g, NEW h, NEW r, GoesOn(g, h), GoesOn(h, r) PROVE GoesOn(g, r)
BY KeptThrough DEF GoesOn

LEMMA EvaluateGoes ==
  ASSUME NEW g \in AllRows, NEW c \in AllConfigs, Going(g), NEW r \in EvaluateDerash(g, c)
  PROVE  GoesOn(g, r) /\ Fair(g, r, c)
<1>1. CASE InPlay(g) = {}
  <2>1. r = g
    BY <1>1 DEF EvaluateDerash
  <2> QED BY <2>1, KeptStays DEF GoesOn, Fair
<1>2. CASE InPlay(g) # {}
  <2>1. PICK h \in AwardPlaces(g, c) : r = ForfeitPlaces(h, c)
    BY <1>2 DEF EvaluateDerash
  <2>2. GoesOn(g, h) /\ h \in AllRows /\ Going(h) /\ h.mode = g.mode /\ Fair(g, h, c)
    BY AwardPlacesGo DEF Reached, GoesOn, Kept, SameRoom
  <2>3. Quietly(h, r, OpenPlaces(h, c)) /\ Fair(h, r, c)
    BY <2>1, <2>2, ForfeitPlacesGo
  <2>4. GoesOn(h, r)
    BY <2>3 DEF Quietly, Reached, GoesOn
  <2>5. Fair(g, r, c)
    BY <2>2, <2>3 DEF Fair
  <2> QED BY <2>2, <2>4, <2>5, GoesOnThrough
<1> QED BY <1>1, <1>2

-----------------------------------------------------------------------------
(* The end of a room: the pool is topped up, or the stakes go back.         *)

LEMMA SeatsSame ==
  ASSUME NEW g \in AllRows, NEW r \in AllRows, Seats(g), r.room.settled = g.room.settled, r.room.winners = g.room.winners,
         \A t \in Tickets : /\ r.ticket[t].status = "won" <=> g.ticket[t].status = "won"
                            /\ r.ticket[t].tiers = g.ticket[t].tiers /\ r.ticket[t].user = g.ticket[t].user
  PROVE  Seats(r)
<1>1. PICK W \in [Places -> SUBSET Tickets] : W = g.room.winners
  BY RowFields, RoomFields
<1>2. \A t \in Tickets : r.ticket[t].status = "won" <=> r.ticket[t].tiers # {}
  BY DEF Seats
<1>3. \A t \in Tickets : \A p \in r.ticket[t].tiers : p \in r.room.settled /\ r.room.winners[p] = {t} /\ r.ticket[t].tiers = {p}
  BY DEF Seats
<1>4. \A p \in Places : \A t \in W[p] : t \in Tickets /\ p \in r.ticket[t].tiers
  BY <1>1 DEF Seats
<1>5. \A p, q \in Places : \A t \in W[p] : \A u \in W[q] : p # q /\ r.ticket[t].user \in Bots => r.ticket[u].user # r.ticket[t].user
  BY <1>1, <1>4 DEF Seats
<1> QED BY <1>1, <1>2, <1>3, <1>4, <1>5 DEF Seats

LEMMA HeardGoes ==
  ASSUME NEW g \in AllRows, NEW r, Heard(g, r), Going(g)
  PROVE  r \in AllRows /\ Going(r) /\ r.room = g.room /\ r.mode = g.mode
<1>1. r \in AllRows /\ r.room = g.room /\ r.mode = g.mode /\ r.credit = g.credit
  BY DEF Heard
<1>2. ASSUME NEW t \in Tickets
      PROVE  /\ Money(r.ticket[t], r.credit[t], r.mode) /\ Waits(r.ticket[t], r.credit[t], r.room.settled, r.mode)
             /\ r.ticket[t].status = "won" <=> g.ticket[t].status = "won"
             /\ r.ticket[t].tiers = g.ticket[t].tiers /\ r.ticket[t].user = g.ticket[t].user
  <2>1. PICK row \in TicketRows : row = g.ticket[t]
    BY RowFields
  <2>2. PICK new \in TicketRows : new = r.ticket[t]
    BY <1>1, RowFields
  <2>3. PICK x : x = g.credit[t]
    OBVIOUS
  <2>4. Money(row, x, g.mode) /\ Waits(row, x, g.room.settled, g.mode)
    BY <2>1, <2>3 DEF Going, MoneyRight
  <2>5. CASE row.status = "disqualified" /\ row.pending
    <3>1. RowEnds(row, new, "disqualified")
      BY <2>1, <2>2, <2>5 DEF Heard
    <3>2. new.status = "disqualified" /\ new.pending = FALSE /\ new.tiers = row.tiers /\ new.user = row.user /\ new.card = row.card
      BY <3>1 DEF RowEnds, SameOwner
    <3>3. Money(new, x, g.mode)
      BY <2>4, <2>5, <3>1, MoneyOfEnd
    <3>4. Waits(new, x, g.room.settled, g.mode)
      BY <2>4, <2>5, <3>2 DEF Waits
    <3> QED BY <1>1, <2>1, <2>2, <2>3, <2>5, <3>2, <3>3, <3>4
  <2>6. CASE ~(row.status = "disqualified" /\ row.pending)
    <3>1. new = row
      BY <2>1, <2>2, <2>6 DEF Heard
    <3> QED BY <1>1, <2>1, <2>2, <2>3, <2>4, <3>1
  <2> QED BY <2>5, <2>6
<1>3. IsPrefilled(g.mode) => Seats(r)
  BY <1>1, <1>2, SeatsSame DEF Going
<1> QED BY <1>1, <1>2, <1>3 DEF Going, MoneyRight

\* The rows h when the places of s are topped up.
ToppedUp(g, h, s) ==
  /\ h \in AllRows /\ h.mode = g.mode /\ h.room.status = g.room.status /\ h.room.settled = g.room.settled
  /\ SameSale(g, h)
  /\ MoneyRight(h) /\ Seats(h)
  /\ \A t \in Tickets : \A p \in Places \ s : h.credit[t][<<"reconcile", p>>] = 0

LEMMA ToppedUpFirst == ASSUME NEW g \in AllRows, Going(g), IsPrefilled(g.mode) PROVE ToppedUp(g, g, {})
BY DEF Going, ToppedUp, Waits, SameSale

LEMMA ToppedUpOn ==
  ASSUME NEW g, NEW h, NEW r, NEW s, NEW p \in s, p \in Places, ToppedUp(g, h, s \ {p}), Topped(h, r, p)
  PROVE  ToppedUp(g, r, s)
<1>1. /\ h \in AllRows /\ h.mode = g.mode /\ h.room.status = g.room.status /\ h.room.settled = g.room.settled
      /\ SameSale(g, h)
      /\ MoneyRight(h) /\ Seats(h)
      /\ \A t \in Tickets : \A q \in Places \ (s \ {p}) : h.credit[t][<<"reconcile", q>>] = 0
  BY DEF ToppedUp
<1>2. /\ r \in AllRows /\ r.mode = h.mode /\ r.room.status = h.room.status /\ r.room.settled = h.room.settled
      /\ r.room.winners = h.room.winners /\ SameSale(h, r)
  BY DEF SameSale, Topped, SameRoom
<1>3. PICK S \in SUBSET h.room.winners[p] :
        /\ \A t \in Tickets : t \notin S => r.ticket[t] = h.ticket[t] /\ r.credit[t] = h.credit[t]
        /\ \A t \in S : \E up \in Nat : /\ RowPaid(h.ticket[t], r.ticket[t], up) /\ r.ticket[t].status = h.ticket[t].status
                                        /\ Adds(h.credit[t], r.credit[t], <<"reconcile", p>>, up)
  BY DEF Topped
<1>4. \A t \in Tickets : h.ticket[t].tiers \in SUBSET Places
  BY <1>1, RowFields, TicketFields
<1>5. \A t \in Tickets : t \in S => h.ticket[t].status = "won"
  BY <1>1, <1>3 DEF Seats
<1>6. ASSUME NEW t \in Tickets
      PROVE  /\ Money(r.ticket[t], r.credit[t], r.mode)
             /\ r.ticket[t].status = "won" <=> h.ticket[t].status = "won"
             /\ r.ticket[t].tiers = h.ticket[t].tiers /\ r.ticket[t].user = h.ticket[t].user
             /\ \A q \in Places \ s : r.credit[t][<<"reconcile", q>>] = 0
  <2>1. PICK row \in TicketRows : row = h.ticket[t]
    BY <1>1, RowFields
  <2>2. PICK new \in TicketRows : new = r.ticket[t]
    BY <1>2, RowFields
  <2>3. PICK x \in Credits : x = h.credit[t]
    BY <1>1, RowFields
  <2>4. PICK y \in Credits : y = r.credit[t]
    BY <1>2, RowFields
  <2>5. Money(row, x, h.mode) /\ \A q \in Places \ (s \ {p}) : x[<<"reconcile", q>>] = 0
    BY <1>1, <2>1, <2>3 DEF MoneyRight
  <2>6. CASE t \in S
    <3>1. PICK up \in Nat : RowPaid(row, new, up) /\ new.status = row.status /\ Adds(x, y, <<"reconcile", p>>, up)
      BY <1>3, <2>1, <2>2, <2>3, <2>4, <2>6
    <3>2. PICK key \in PrizeKeys : key = <<"reconcile", p>>
      BY DEF PrizeKeys
    <3>3. x[key] = 0 /\ row.status = "won" /\ new.status = "won"
      BY <1>5, <2>1, <2>5, <2>6, <3>1, <3>2
    <3>4. new.payout = row.payout + up /\ new.tiers = row.tiers /\ new.user = row.user
      BY <3>1 DEF RowPaid, SameOwner
    <3>5. Adds(x, y, key, up) /\ row.status # "cancelled"
      BY <3>1, <3>2, <3>3
    <3>6. Money(new, y, h.mode)
      BY <2>5, <3>3, <3>4, <3>5, MoneyOfPrize
    <3>7. ASSUME NEW q \in Places \ s PROVE y[<<"reconcile", q>>] = 0
      <4>1. <<"reconcile", q>> \in CreditKeys /\ <<"reconcile", q>> # <<"reconcile", p>> /\ q \in Places \ (s \ {p})
        BY SettlementKey
      <4>2. y[<<"reconcile", q>>] = x[<<"reconcile", q>>]
        BY <3>1, <4>1 DEF Adds
      <4> QED BY <2>5, <4>1, <4>2
    <3> QED BY <1>2, <2>1, <2>2, <2>4, <3>3, <3>4, <3>6, <3>7
  <2>7. CASE t \notin S
    <3>1. new = row /\ y = x
      BY <1>3, <2>1, <2>2, <2>3, <2>4, <2>7
    <3> QED BY <1>2, <2>1, <2>2, <2>4, <2>5, <3>1
  <2> QED BY <2>6, <2>7
<1>7. Seats(r)
  BY <1>1, <1>2, <1>6, SeatsSame
<1>8. MoneyRight(r)
  BY <1>6 DEF MoneyRight
<1> QED BY <1>1, <1>2, <1>6, <1>7, <1>8 DEF ToppedUp, SameSale

LEMMA Quotient ==
  ASSUME NEW a \in Nat, NEW n \in Nat \ {0}, NEW q, q = a \div n
  PROVE  q \in Nat /\ q * n <= a /\ a <= q * n + (n - 1)
<1>1. PICK m \in Nat : m = a % n
  OBVIOUS
<1>2. m <= n - 1 /\ q \in Nat
  BY <1>1
<1>3. a = n * q + m
  BY <1>1
<1>4. PICK b : b = n * q
  OBVIOUS
<1>5. b \in Nat /\ b = q * n
  BY <1>2, <1>4
<1> QED BY <1>2, <1>3, <1>4, <1>5

LEMMA TimesGrows == ASSUME NEW a \in Nat, NEW b \in Nat, NEW c \in Nat, a <= b PROVE a * c <= b * c
<1>1. PICK d \in Nat : b = a + d
  <2>1. b - a \in Nat /\ b = a + (b - a)
    OBVIOUS
  <2> QED BY <2>1
<1>2. b * c = a * c + d * c
  BY <1>1
<1>3. PICK x, y : x = a * c /\ y = d * c
  OBVIOUS
<1>4. x \in Nat /\ y \in Nat
  BY <1>1, <1>3
<1> QED BY <1>2, <1>3, <1>4

LEMMA QuotientGrows ==
  ASSUME NEW a \in Nat, NEW v \in Nat \ {0}, NEW w \in Nat \ {0}, v <= w
  PROVE  a \div w <= a \div v
<1>1. PICK q : q = a \div w
  OBVIOUS
<1>2. PICK k : k = a \div v
  OBVIOUS
<1>3. q \in Nat /\ k \in Nat /\ q * w <= a /\ a <= k * v + (v - 1)
  BY <1>1, <1>2, Quotient
<1> SUFFICES ASSUME ~(q <= k) PROVE FALSE
  BY <1>1, <1>2
<1>4. k + 1 <= q /\ k + 1 \in Nat
  BY <1>3
<1>5. (k + 1) * v <= q * v /\ v * q <= w * q
  BY <1>3, <1>4, TimesGrows
<1>6. (k + 1) * v = k * v + v /\ v * q = q * v /\ w * q = q * w
  BY <1>3
<1>7. PICK x, y, z : x = k * v /\ y = q * v /\ z = q * w
  OBVIOUS
<1>8. x \in Nat /\ y \in Nat /\ z \in Nat
  BY <1>3, <1>7
<1>9. x + v <= y /\ y <= z /\ z <= a /\ a <= x + (v - 1)
  BY <1>3, <1>5, <1>6, <1>7
<1> QED BY <1>8, <1>9

LEMMA WeightGrows ==
  ASSUME NEW c \in AllConfigs, NEW S, NEW T \in SUBSET Places, S \subseteq T PROVE Weight(c, S) <= Weight(c, T)
<1>1. PICK R \in SUBSET Places : S \cup R = T /\ S \cap R = {}
  <2>1. T \ S \in SUBSET Places /\ S \cup (T \ S) = T /\ S \cap (T \ S) = {}
    OBVIOUS
  <2> QED BY <2>1
<1>2. S \in SUBSET Places /\ IsFiniteSet(S) /\ IsFiniteSet(R)
  BY PlacesFinite
<1>3. PICK w : w = c.weight
  OBVIOUS
<1>4. \A p \in S \cup R : w[p] \in Int
  BY <1>1, <1>3 DEF AllConfigs
<1>7. SumFunctionOnSet(w, S \cup R) = SumFunctionOnSet(w, S) + SumFunctionOnSet(w, R)
  BY <1>1, <1>2, <1>4, SumUnion
<1>5. Weight(c, T) = Weight(c, S) + Weight(c, R)
  BY <1>1, <1>3, <1>7 DEF Weight
<1>6. Weight(c, S) \in Nat /\ Weight(c, R) \in Nat
  BY <1>2, WeightNat
<1> QED BY <1>5, <1>6

LEMMA WeightOf == ASSUME NEW c \in AllConfigs, NEW S \in SUBSET Places, NEW p \in S PROVE c.weight[p] <= Weight(c, S)
<1>1. IsFiniteSet(S) /\ S \ {p} \in SUBSET Places
  BY PlacesFinite
<1>2. \A q \in S : c.weight[q] \in Nat
  BY DEF AllConfigs
<1>3. SumFunctionOnSet(c.weight, S) = c.weight[p] + SumFunctionOnSet(c.weight, S \ {p})
  BY <1>1, <1>2, SumRemove
<1>4. Weight(c, S) = c.weight[p] + Weight(c, S \ {p})
  BY <1>3 DEF Weight
<1>5. Weight(c, S \ {p}) \in Nat /\ c.weight[p] \in Nat
  BY <1>1, <1>2, WeightNat
<1> QED BY <1>4, <1>5

\* The fewer places are filled, the more each gets.
LEMMA FinalIsMore ==
  ASSUME NEW g \in AllRows, NEW c \in AllConfigs, g.room.settled \subseteq c.places, NEW p \in g.room.settled
  PROVE  ProgressivePrize(g, p, c) <= FinalPrize(g, p, c)
<1>1. c.places \in SUBSET Places /\ p \in Places /\ g.room.settled \in SUBSET Places
  BY RowFields, RoomFields DEF AllConfigs
<1>2. PICK v : v = Weight(c, g.room.settled)
  OBVIOUS
<1>3. PICK w : w = Weight(c, c.places)
  OBVIOUS
<1>4. v \in Nat /\ w \in Nat /\ v <= w
  BY <1>1, <1>2, <1>3, WeightNat, WeightGrows
<1>5. PICK a \in Nat : a = Pool(g) * c.weight[p]
  <2>1. Pool(g) \in Nat /\ c.weight[p] \in Nat
    BY <1>1, PoolNat DEF AllConfigs
  <2> QED BY <2>1
<1>6. /\ FinalPrize(g, p, c) = IF v > 0 THEN a \div v ELSE 0
      /\ ProgressivePrize(g, p, c) = IF w > 0 THEN a \div w ELSE 0
  BY <1>2, <1>3, <1>5 DEF FinalPrize, ProgressivePrize, Share
<1>7. CASE v > 0
  <2>1. v \in Nat \ {0} /\ w \in Nat \ {0} /\ w > 0
    BY <1>4, <1>7
  <2> QED BY <1>4, <1>6, <1>7, <2>1, QuotientGrows
<1>8. CASE v = 0
  <2>1. c.weight[p] \in Nat /\ c.weight[p] <= v
    BY <1>1, <1>2, WeightOf DEF AllConfigs
  <2>2. c.weight[p] = 0 /\ Pool(g) \in Nat
    BY <1>4, <1>8, <2>1, PoolNat
  <2>3. a = 0
    BY <1>5, <2>2
  <2>4. w > 0 => a \div w = 0
    BY <1>4, <2>3
  <2> QED BY <1>4, <1>6, <1>8, <2>4
<1> QED BY <1>4, <1>7, <1>8

\* reconcileDerashPool tops the place p up: it has its final prize.
LEMMA TopUpSplits ==
  ASSUME NEW g \in AllRows, NEW c \in AllConfigs, NEW s, NEW p \in s, p \in g.room.settled, Seats(g), SplitUpTo(g, c, s \ {p}),
         NEW r, r = TopUpPlace(g, p, c)
  PROVE  SplitUpTo(r, c, s)
<1>1. p \in Places /\ g.room.winners \in [Places -> SUBSET Tickets] /\ g.room.shown \in [Places -> Nat] /\ g.room.settled \in SUBSET Places
  BY RowFields, RoomFields
<1>2. /\ Topped(g, r, p) /\ Shows(g, r, p, FinalPrize(g, p, c))
      /\ \A t \in Tickets : t \notin g.room.winners[p] => r.ticket[t] = g.ticket[t]
      /\ \A t \in Tickets : g.room.winners[p] = {t} => r.ticket[t].payout = g.ticket[t].payout + (IF TopUp(g, p, c) > 0 THEN TopUp(g, p, c) ELSE 0)
  BY <1>1, TopUpEffect
<1>3. /\ r.room.price = g.room.price /\ r.room.settled = g.room.settled /\ r.room.winners = g.room.winners
      /\ \A t \in Tickets : r.ticket[t].status = g.ticket[t].status
  BY <1>2 DEF Topped, SameRoom
<1>4. Pool(r) = Pool(g)
  BY <1>3, SamePool
<1>5. \A q : ProgressivePrize(r, q, c) = ProgressivePrize(g, q, c) /\ FinalPrize(r, q, c) = FinalPrize(g, q, c)
  BY <1>3, <1>4, SamePrizes
<1>6. g.room.settled \subseteq c.places
  BY DEF SplitUpTo
<1>7. ASSUME NEW q \in g.room.settled, NEW t \in g.room.winners[q] PROVE t \in Tickets /\ g.room.winners[q] = {t} /\ g.ticket[t].tiers = {q}
  <2>1. q \in Places /\ t \in Tickets
    BY <1>1
  <2>2. q \in g.ticket[t].tiers
    BY <2>1 DEF Seats
  <2> QED BY <2>1, <2>2 DEF Seats
<1>8. PICK a : a = FinalPrize(g, p, c)
  OBVIOUS
<1>9. PICK b : b = ProgressivePrize(g, p, c)
  OBVIOUS
<1>10. a \in Nat /\ b \in Nat /\ b <= a
  BY <1>1, <1>6, <1>8, <1>9, PrizesNat, FinalIsMore
<1>11. Priced(r, p, a)
  <2>1. r.room.shown[p] = a
    BY <1>1, <1>2, <1>8 DEF Shows
  <2>2. ASSUME NEW t \in g.room.winners[p] PROVE r.ticket[t].payout = a
    <3>1. t \in Tickets /\ g.room.winners[p] = {t}
      BY <1>7
    <3>2. g.ticket[t].payout = b
      BY <1>9 DEF SplitUpTo, Priced
    <3>3. TopUp(g, p, c) = a - b
      BY <1>8, <1>9 DEF TopUp
    <3>4. r.ticket[t].payout = b + (IF a - b > 0 THEN a - b ELSE 0)
      BY <1>2, <3>1, <3>2, <3>3
    <3> QED BY <1>10, <3>4
  <2> QED BY <1>3, <2>1, <2>2 DEF Priced
<1>12. ASSUME NEW q \in g.room.settled, q # p
       PROVE  Priced(r, q, IF q \in s THEN FinalPrize(g, q, c) ELSE ProgressivePrize(g, q, c))
  <2>1. PICK d : d = IF q \in s THEN FinalPrize(g, q, c) ELSE ProgressivePrize(g, q, c)
    OBVIOUS
  <2>2. q \in s <=> q \in s \ {p}
    BY <1>12
  <2>3. Priced(g, q, d)
    BY <2>1, <2>2 DEF SplitUpTo
  <2>4. r.room.shown[q] = g.room.shown[q]
    BY <1>1, <1>2, <1>12 DEF Shows
  <2>5. \A t \in g.room.winners[q] : r.ticket[t] = g.ticket[t]
    <3> TAKE t \in g.room.winners[q]
    <3>1. t \in Tickets /\ g.ticket[t].tiers = {q}
      BY <1>7
    <3>2. t \notin g.room.winners[p]
      BY <1>7, <1>12, <3>1
    <3> QED BY <1>2, <3>1, <3>2
  <2>6. Priced(r, q, d)
    BY <1>3, <2>3, <2>4, <2>5 DEF Priced
  <2> QED BY <2>1, <2>6
<1> QED BY <1>3, <1>5, <1>6, <1>8, <1>11, <1>12 DEF SplitUpTo

TopsUp(g, c, f) ==
  f = [s \in SUBSET g.room.settled |-> IF s = {} THEN g ELSE TopUpPlace(f[s \ {Max(s)}], Max(s), c)]

TopsUpOnce(g, c, f) ==
  f = [s \in SUBSET g.room.settled |-> IF s = {} THEN g ELSE [k \in {f[s \ {Max(s)}]} |-> TopUpPlace(k, Max(s), c)][f[s \ {Max(s)}]]]

LEMMA TopsUpSame == ASSUME NEW g, NEW c, NEW f PROVE TopsUpOnce(g, c, f) <=> TopsUp(g, c, f)
<1>1. ASSUME NEW h, NEW p PROVE [k \in {h} |-> TopUpPlace(k, p, c)][h] = TopUpPlace(h, p, c)
  OBVIOUS
<1> QED BY Zenon, <1>1 DEF TopsUpOnce, TopsUp

LEMMA TopUpPlacesChosen == ASSUME NEW g, NEW c PROVE TopUpPlaces(g, c) = (CHOOSE f : TopsUp(g, c, f))[g.room.settled]
<1>1. TopUpPlaces(g, c) = (CHOOSE f : TopsUpOnce(g, c, f))[g.room.settled]
  BY Zenon DEF TopUpPlaces, Each, MapThenFoldSet, TopsUpOnce
<1>2. (CHOOSE f : TopsUpOnce(g, c, f)) = (CHOOSE f : TopsUp(g, c, f))
  BY Zenon, TopsUpSame
<1> QED BY Zenon, <1>1, <1>2

LEMMA TopsUpExist == ASSUME NEW g \in AllRows, NEW c \in AllConfigs PROVE \E f : TopsUp(g, c, f)
<1>1. PICK P \in SUBSET Places : P = g.room.settled
  BY RowFields, RoomFields
<1> DEFINE step == [x \in P \X AllRows |-> TopUpPlace(x[2], x[1], c)]
<1>2. \A p \in P, h \in AllRows : TopUpPlace(h, p, c) \in AllRows
  BY TopUpEffect DEF Topped, SameRoom
<1>3. step \in [P \X AllRows -> AllRows]
  <2> SUFFICES ASSUME NEW x \in P \X AllRows PROVE TopUpPlace(x[2], x[1], c) \in AllRows
    OBVIOUS
  <2>1. x[1] \in P /\ x[2] \in AllRows
    OBVIOUS
  <2> QED BY <1>2, <2>1
<1>4. \A p \in P, h \in AllRows : step[<<p, h>>] = TopUpPlace(h, p, c)
  OBVIOUS
<1> HIDE DEF step
<1>6. P \in SUBSET Nat /\ IsFiniteSet(P)
  BY PlacesFinite
<1>7. PICK it \in [SUBSET P -> AllRows] : StepsFrom(P, g, step, it)
  BY <1>3, <1>6, StepsExist
<1>8. ASSUME NEW s \in SUBSET P PROVE it[s] = IF s = {} THEN g ELSE TopUpPlace(it[s \ {Max(s)}], Max(s), c)
  <2>1. it[s] = IF s = {} THEN g ELSE step[<<Max(s), it[s \ {Max(s)}]>>]
    BY <1>7 DEF StepsFrom
  <2>2. CASE s = {}
    BY <2>1, <2>2
  <2>3. CASE s # {}
    <3>1. Max(s) \in P
      BY <2>3, HighestPlace
    <3>2. it[s \ {Max(s)}] \in AllRows
      OBVIOUS
    <3> QED BY <1>4, <2>1, <2>3, <3>1, <3>2
  <2> QED BY <2>2, <2>3
<1>9. it = [s \in SUBSET P |-> it[s]]
  OBVIOUS
<1>10. it = [s \in SUBSET P |-> IF s = {} THEN g ELSE TopUpPlace(it[s \ {Max(s)}], Max(s), c)]
  BY <1>8, <1>9
<1>11. TopsUp(g, c, it)
  BY <1>1, <1>10 DEF TopsUp
<1> QED BY <1>11

\* reconcileDerashPool, place after place: payouts and credits grow together.
LEMMA TopUpPlacesGo ==
  ASSUME NEW g \in AllRows, NEW c \in AllConfigs, Going(g), IsPrefilled(g.mode), NEW r, r = TopUpPlaces(g, c)
  PROVE  ToppedUp(g, r, g.room.settled) /\ (Split(g, c) => SplitFinal(r, c))
<1>1. PICK P \in SUBSET Places : P = g.room.settled
  BY RowFields, RoomFields
<1>2. PICK f : f = CHOOSE h : TopsUp(g, c, h)
  OBVIOUS
<1>3. TopsUp(g, c, f)
  BY <1>2, TopsUpExist
<1>4. \A s \in SUBSET P : f[s] = IF s = {} THEN g ELSE TopUpPlace(f[s \ {Max(s)}], Max(s), c)
  BY <1>1, <1>3 DEF TopsUp
<1> DEFINE G == {s \in SUBSET P : ToppedUp(g, f[s], s) /\ (Split(g, c) => SplitUpTo(f[s], c, s))}
<1>5. {} \in G
  <2>1. f[{}] = g
    BY <1>4
  <2>2. ToppedUp(g, g, {})
    BY ToppedUpFirst
  <2> QED BY <2>1, <2>2 DEF Split
<1>6. ASSUME NEW s \in SUBSET P, s # {}, s \ {Max(s)} \in G PROVE s \in G
  <2>1. PICK p \in s : p = Max(s)
    BY <1>6, HighestPlace
  <2>2. PICK h : h = f[s \ {p}]
    OBVIOUS
  <2>3. PICK k : k = f[s]
    OBVIOUS
  <2>4. k = TopUpPlace(h, p, c)
    BY <1>4, <1>6, <2>1, <2>2, <2>3
  <2>5. ToppedUp(g, h, s \ {p}) /\ (Split(g, c) => SplitUpTo(h, c, s \ {p}))
    BY <1>6, <2>1, <2>2
  <2>6. h \in AllRows /\ p \in Places /\ p \in h.room.settled /\ Seats(h)
    BY <1>1, <2>5 DEF ToppedUp
  <2>7. Topped(h, k, p)
    BY <2>4, <2>6, TopUpEffect
  <2>8. ToppedUp(g, k, s)
    BY <2>5, <2>6, <2>7, ToppedUpOn
  <2>9. Split(g, c) => SplitUpTo(k, c, s)
    BY <2>4, <2>5, <2>6, TopUpSplits
  <2> QED BY <2>3, <2>8, <2>9
<1>7. P \in G
  <2>1. P \in SUBSET Nat /\ IsFiniteSet(P)
    BY PlacesFinite
  <2> HIDE DEF G
  <2> QED BY <1>5, <1>6, <2>1, PlaceByPlace
<1>8. TopUpPlaces(g, c) = f[P]
  BY <1>1, <1>2, TopUpPlacesChosen
<1>9. ToppedUp(g, r, P) /\ (Split(g, c) => SplitUpTo(r, c, P))
  BY <1>7, <1>8
<1> QED BY <1>1, <1>9 DEF ToppedUp, SplitFinal

\* No ticket is left in play, and every ticket has what it was credited.
Finished(g, r) ==
  /\ r \in AllRows /\ r.mode = g.mode /\ r.room.status = g.room.status /\ SameSale(g, r) /\ MoneyRight(r) /\ Seats(r)
  /\ \A t \in Tickets : r.ticket[t].status # "active"

LEMMA MarkedFinishes ==
  ASSUME NEW g \in AllRows, NEW r, Marked(g, r), MoneyRight(g)
  PROVE  /\ r \in AllRows /\ r.room = g.room /\ r.mode = g.mode /\ MoneyRight(r)
         /\ \A t \in Tickets : r.ticket[t].status # "active" /\ (r.ticket[t].status = "cancelled" => g.ticket[t].status = "cancelled")
         /\ Seats(g) => Seats(r)
<1>1. r \in AllRows /\ r.room = g.room /\ r.mode = g.mode /\ r.credit = g.credit
  BY DEF Marked
<1>2. ASSUME NEW t \in Tickets
      PROVE  /\ Money(r.ticket[t], r.credit[t], r.mode)
             /\ r.ticket[t].status # "active" /\ (r.ticket[t].status = "cancelled" => g.ticket[t].status = "cancelled")
             /\ r.ticket[t].status = "won" <=> g.ticket[t].status = "won"
             /\ r.ticket[t].tiers = g.ticket[t].tiers /\ r.ticket[t].user = g.ticket[t].user
  <2>1. PICK row \in TicketRows : row = g.ticket[t]
    BY RowFields
  <2>2. PICK new \in TicketRows : new = r.ticket[t]
    BY <1>1, RowFields
  <2>3. PICK x : x = g.credit[t]
    OBVIOUS
  <2>4. Money(row, x, g.mode)
    BY <2>1, <2>3 DEF MoneyRight
  <2>5. CASE row.status = "active"
    <3>1. RowEnds(row, new, "lost")
      BY <2>1, <2>2, <2>5 DEF Marked
    <3>2. new.status = "lost" /\ new.tiers = row.tiers /\ new.user = row.user
      BY <3>1 DEF RowEnds, SameOwner
    <3>3. Money(new, x, g.mode)
      BY <2>4, <2>5, <3>1, MoneyOfEnd
    <3> QED BY <1>1, <2>1, <2>2, <2>3, <2>5, <3>2, <3>3
  <2>6. CASE row.status # "active"
    <3>1. new = row
      BY <2>1, <2>2, <2>6 DEF Marked
    <3> QED BY <1>1, <2>1, <2>2, <2>3, <2>4, <2>6, <3>1
  <2> QED BY <2>5, <2>6
<1>3. Seats(g) => Seats(r)
  BY <1>1, <1>2, SeatsSame
<1> QED BY <1>1, <1>2, <1>3 DEF MoneyRight

\* A refund of tickets that have no prize.
LEMMA RefundedRight ==
  ASSUME NEW g \in AllRows, NEW S \in SUBSET Tickets, NEW why \in {"refund", "noresult", "cartela"}, NEW r, Refunded(g, r, S, why),
         MoneyRight(g),
         \A t \in S : g.ticket[t].status # "cancelled" /\ (g.ticket[t].status = "won" => g.mode = "pattern")
  PROVE  /\ r \in AllRows /\ r.room = g.room /\ r.mode = g.mode /\ MoneyRight(r)
         /\ \A t \in Tickets : r.ticket[t].status = IF t \in S THEN "cancelled" ELSE g.ticket[t].status
         /\ IsPrefilled(g.mode) /\ Seats(g) => Seats(r)
<1>1. r \in AllRows /\ r.room = g.room /\ r.mode = g.mode
  BY DEF Refunded
<1>2. ASSUME NEW t \in Tickets
      PROVE  /\ Money(r.ticket[t], r.credit[t], r.mode)
             /\ r.ticket[t].status = IF t \in S THEN "cancelled" ELSE g.ticket[t].status
             /\ r.ticket[t].tiers = g.ticket[t].tiers /\ r.ticket[t].user = g.ticket[t].user
  <2>1. PICK row \in TicketRows : row = g.ticket[t]
    BY RowFields
  <2>2. PICK new \in TicketRows : new = r.ticket[t]
    BY <1>1, RowFields
  <2>3. PICK x \in Credits : x = g.credit[t]
    BY RowFields
  <2>4. PICK y \in Credits : y = r.credit[t]
    BY <1>1, RowFields
  <2>5. Money(row, x, g.mode)
    BY <2>1, <2>3 DEF MoneyRight
  <2>6. CASE t \in S
    <3>1. RowEnds(row, new, "cancelled") /\ Adds(x, y, <<why, 0>>, row.stake)
      BY <2>1, <2>2, <2>3, <2>4, <2>6 DEF Refunded
    <3>2. new.status = "cancelled" /\ new.tiers = row.tiers /\ new.user = row.user
      BY <3>1 DEF RowEnds, SameOwner
    <3>3. row.status # "cancelled" /\ (row.status = "won" => g.mode = "pattern")
      BY <2>1, <2>6
    <3>4. Money(new, y, g.mode)
      BY <2>5, <3>1, <3>3, MoneyOfRefund
    <3> QED BY <1>1, <2>1, <2>2, <2>4, <2>6, <3>2, <3>4
  <2>7. CASE t \notin S
    <3>1. new = row /\ y = x
      BY <2>1, <2>2, <2>3, <2>4, <2>7 DEF Refunded
    <3> QED BY <1>1, <2>1, <2>2, <2>4, <2>5, <2>7, <3>1
  <2> QED BY <2>6, <2>7
<1>3. IsPrefilled(g.mode) /\ Seats(g) => Seats(r)
  <2>1. IsPrefilled(g.mode) => \A t \in Tickets : r.ticket[t].status = "won" <=> g.ticket[t].status = "won"
    BY <1>2 DEF IsPrefilled
  <2> QED BY <1>1, <1>2, <2>1, SeatsSame
<1> QED BY <1>1, <1>2, <1>3 DEF MoneyRight

LEMMA HeardSplits ==
  ASSUME NEW g \in AllRows, NEW r, Heard(g, r), NEW c, Split(g, c) PROVE Split(r, c)
<1>1. \A t \in Tickets : r.ticket[t].payout = g.ticket[t].payout /\ r.ticket[t].status = g.ticket[t].status
  BY DEF Heard, RowEnds
<1>2. r.room = g.room
  BY DEF Heard
<1>3. Pool(r) = Pool(g)
  BY <1>1, <1>2, SamePool
<1> QED BY <1>1, <1>2, <1>3, SplitSame DEF Split

LEMMA MarkedSplits ==
  ASSUME NEW g \in AllRows, NEW r, Marked(g, r), NEW c, SplitFinal(g, c) PROVE SplitFinal(r, c)
<1>1. ASSUME NEW t \in Tickets
      PROVE  /\ r.ticket[t].payout = g.ticket[t].payout
             /\ r.ticket[t].status \in {"none", "cancelled"} <=> g.ticket[t].status \in {"none", "cancelled"}
  BY DEF Marked, RowEnds
<1>2. r.room = g.room
  BY DEF Marked
<1>3. Pool(r) = Pool(g)
  BY <1>1, <1>2, SamePool
<1> QED BY <1>1, <1>2, <1>3, SplitSame DEF SplitFinal

LEMMA ClosedSplits ==
  ASSUME NEW g \in AllRows, NEW r, NEW status, Closed(g, r, status), NEW c
  PROVE  (Split(g, c) => Split(r, c)) /\ (SplitFinal(g, c) => SplitFinal(r, c))
<1>1. /\ r.ticket = g.ticket /\ r.room.settled = g.room.settled /\ r.room.winners = g.room.winners
      /\ r.room.shown = g.room.shown /\ r.room.price = g.room.price
  BY DEF Closed
<1>2. Pool(r) = Pool(g)
  BY <1>1, SamePool
<1> QED BY <1>1, <1>2, SplitSame DEF Split, SplitFinal

LEMMA ReconcileEnds ==
  ASSUME NEW g \in AllRows, NEW c \in AllConfigs, Going(g), IsPrefilled(g.mode), NEW r, r = ReconcilePool(g, c)
  PROVE  Finished(g, r) /\ (Split(g, c) => SplitFinal(r, c))
<1>1. PICK h : h = ResolveDq(g)
  OBVIOUS
<1>2. Heard(g, h)
  BY <1>1, ResolveDqEffect
<1>3. h \in AllRows /\ Going(h) /\ h.room = g.room /\ h.mode = g.mode
  BY <1>2, HeardGoes
<1>8. Split(g, c) => Split(h, c)
  BY <1>2, HeardSplits
<1>4. MoneyRight(h) /\ Seats(h)
  BY <1>3 DEF Going
<1>5. r = IF h.room.settled = {} THEN Refund(h, InPlay(h), "noresult") ELSE MarkLost(TopUpPlaces(h, c))
  BY <1>1, Zenon DEF ReconcilePool
<1>6. CASE h.room.settled = {}
  <2>1. PICK S \in SUBSET Tickets : S = InPlay(h)
    BY InPlayFact
  <2>2. PICK why \in {"refund", "noresult", "cartela"} : why = "noresult"
    OBVIOUS
  <2>3. r = Refund(h, S, why)
    BY <1>5, <1>6, <2>1, <2>2
  <2>4. Refunded(h, r, S, why)
    BY <1>3, <2>3, RefundEffect
  <2>5. \A t \in Tickets : t \in S <=> h.ticket[t].status \in {"active", "won"}
    BY <2>1, InPlayFact
  <2>6. \A t \in Tickets : h.ticket[t].status # "won"
    BY <1>4, <1>6 DEF Seats
  <2>7. \A t \in S : h.ticket[t].status # "cancelled" /\ (h.ticket[t].status = "won" => h.mode = "pattern")
    BY <2>5, <2>6
  <2>8. /\ r \in AllRows /\ r.room = h.room /\ r.mode = h.mode /\ MoneyRight(r)
        /\ \A t \in Tickets : r.ticket[t].status = IF t \in S THEN "cancelled" ELSE h.ticket[t].status
        /\ IsPrefilled(h.mode) /\ Seats(h) => Seats(r)
    BY <1>3, <1>4, <2>4, <2>7, RefundedRight
  <2>9. \A t \in Tickets : r.ticket[t].status # "active"
    BY <2>5, <2>8
  <2>10. SplitFinal(r, c)
    BY <1>6, <2>8, NothingToSplit
  <2> QED BY <1>3, <1>4, <2>8, <2>9, <2>10 DEF Finished, SameSale
<1>7. CASE h.room.settled # {}
  <2>1. PICK k : k = TopUpPlaces(h, c)
    OBVIOUS
  <2>2. ToppedUp(h, k, h.room.settled) /\ (Split(h, c) => SplitFinal(k, c))
    BY <1>3, <2>1, TopUpPlacesGo
  <2>3. r = MarkLost(k)
    BY <1>5, <1>7, <2>1
  <2>4. k \in AllRows /\ k.mode = h.mode /\ k.room.status = h.room.status /\ SameSale(h, k) /\ MoneyRight(k) /\ Seats(k)
    BY <2>2 DEF ToppedUp
  <2>5. Marked(k, r)
    BY <2>3, <2>4, MarkLostEffect
  <2>6. /\ r \in AllRows /\ r.room = k.room /\ r.mode = k.mode /\ MoneyRight(r)
        /\ \A t \in Tickets : r.ticket[t].status # "active" /\ (r.ticket[t].status = "cancelled" => k.ticket[t].status = "cancelled")
        /\ Seats(k) => Seats(r)
    BY <2>4, <2>5, MarkedFinishes
  <2>7. Split(g, c) => SplitFinal(r, c)
    BY <1>8, <2>2, <2>4, <2>5, MarkedSplits
  <2> QED BY <1>3, <2>4, <2>6, <2>7 DEF Finished, SameSale
<1> QED BY <1>6, <1>7

LEMMA ClosedGoes ==
  ASSUME NEW g \in AllRows, NEW status, NEW r, Closed(g, r, status)
  PROVE  (Going(g) => Going(r)) /\ (MoneyRight(g) => MoneyRight(r)) /\ (Seats(g) => Seats(r))
<1>1. r.mode = g.mode /\ r.ticket = g.ticket /\ r.credit = g.credit /\ r.room.settled = g.room.settled /\ r.room.winners = g.room.winners
  BY DEF Closed
<1>2. MoneyRight(g) => MoneyRight(r)
  BY <1>1 DEF MoneyRight
<1>3. Seats(g) => Seats(r)
  BY <1>1 DEF Seats
<1>4. Going(g) => \A t \in Tickets : Waits(r.ticket[t], r.credit[t], r.room.settled, r.mode)
  BY <1>1 DEF Going
<1> QED BY <1>1, <1>2, <1>3, <1>4 DEF Going

\* What a call on a room that is not over leaves: the room goes on with the cards it
\* has sold, or it is over and right.
Carried(g, r) == r.room.sold = g.room.sold /\ \A t \in Tickets : KeptRow(g.ticket[t], r.ticket[t])
Outcome(g, r) ==
  /\ r \in AllRows /\ r.mode = g.mode /\ RoomInv(r)
  /\ r.room.status \notin {"completed", "cancelled"} => Carried(g, r)

\* The pool of g is split as c says, or shared out when the room is completed; what was
\* sold stays sold, and an open room stays as it is.
Sharing(g, r, c) ==
  IsPrefilled(g.mode) =>
    /\ r.room.status = "open" => r = g
    /\ r.room.status # "cancelled" => SameSale(g, r)
    /\ Split(g, c) => IF r.room.status = "completed" THEN SplitFinal(r, c) ELSE r.room.status # "cancelled" => Split(r, c)

LEMMA FinishedIsOutcome ==
  ASSUME NEW g, NEW h, NEW r, Finished(h, r), h.mode = g.mode, IsPrefilled(g.mode), r.room.status \in {"completed", "cancelled"}
  PROVE  Outcome(g, r)
BY DEF Finished, Outcome, RoomInv, Ended, IsPrefilled

LEMMA CompletedFinished ==
  ASSUME NEW g \in AllRows, NEW h, NEW r, Finished(g, h), IsPrefilled(g.mode), r = Completed(h)
  PROVE  Outcome(g, r)
<1>1. h \in AllRows /\ h.mode = g.mode /\ MoneyRight(h) /\ Seats(h) /\ \A t \in Tickets : h.ticket[t].status # "active"
  BY DEF Finished
<1>2. Closed(h, r, "completed")
  BY <1>1, CompletedEffect
<1>3. MoneyRight(r) /\ Seats(r)
  BY <1>1, <1>2, ClosedGoes
<1>4. r \in AllRows /\ r.mode = h.mode /\ r.ticket = h.ticket /\ r.room.status = "completed"
  BY <1>2 DEF Closed
<1> QED BY <1>1, <1>3, <1>4 DEF Outcome, RoomInv, Ended, IsPrefilled

LEMMA FinalizeOutcome ==
  ASSUME NEW g \in AllRows, NEW c \in AllConfigs, Going(g), g.mode = "race", NEW r, r = FinalizeDerashIfDone(g, c)
  PROVE  /\ r = g \/ Outcome(g, r)
         /\ g.room.status = "running" => Sharing(g, r, c)
<1>1. CASE Done(g, c)
  <2>1. PICK h : h = Completed(g)
    OBVIOUS
  <2>2. r = ReconcilePool(h, c)
    BY <1>1, <2>1 DEF FinalizeDerashIfDone
  <2>3. Closed(g, h, "completed") /\ SameSale(g, h)
    BY <2>1, CompletedEffect DEF Closed, SameSale
  <2>4. h \in AllRows /\ h.mode = g.mode /\ h.room.status = "completed"
    BY <2>3 DEF Closed
  <2>5. Going(h) /\ IsPrefilled(h.mode)
    BY <2>3, <2>4, ClosedGoes DEF IsPrefilled
  <2>6. Finished(h, r) /\ (Split(h, c) => SplitFinal(r, c))
    BY <2>2, <2>4, <2>5, ReconcileEnds
  <2>7. r.room.status = "completed" /\ SameSale(g, r)
    BY <2>3, <2>4, <2>6 DEF Finished, SameSale
  <2>8. Sharing(g, r, c)
    BY <2>3, <2>6, <2>7, ClosedSplits DEF Sharing
  <2> QED BY <2>4, <2>5, <2>6, <2>7, <2>8, FinishedIsOutcome
<1>2. CASE ~Done(g, c)
  BY <1>2 DEF FinalizeDerashIfDone, Sharing, SameSale
<1> QED BY <1>1, <1>2

-----------------------------------------------------------------------------
(* The leaderboard: cards by the place they completed and by who was first. *)

LEMMA BestIsPlace ==
  ASSUME NEW g \in AllRows, NEW P \in SUBSET Places, NEW t \in Ranked(g, P) PROVE Best(g, t, P) \in P
<1>1. {p \in P : Completes(g, t, p)} # {}
  BY DEF Ranked
<1>2. {p \in P : Completes(g, t, p)} \in SUBSET Nat
  BY PlacesFinite
<1>3. Min({p \in P : Completes(g, t, p)}) \in {p \in P : Completes(g, t, p)}
  BY <1>1, <1>2, MinIn
<1> QED BY <1>3 DEF Best

LEMMA BeforeTotal ==
  ASSUME NEW g \in AllRows, Going(g), NEW P \in SUBSET Places, NEW t \in Ranked(g, P), NEW u \in Ranked(g, P), t # u
  PROVE  Before(g, P, t, u) \/ Before(g, P, u, t)
<1> DEFINE At(x) == g.deal[g.ticket[x].card][Best(g, x, P)]
<1>1. \A x \in Ranked(g, P) : x \in Tickets /\ g.ticket[x].status \in {"active", "won"}
  BY InPlayFact DEF Ranked
<1>2. \A x \in Ranked(g, P) : g.ticket[x].card \in Cards
  BY <1>1 DEF Going, Waits
<1>3. g.deal \in [Cards -> [Places -> 1..Balls]] /\ Balls \in Nat
  BY RowFields, SettlementAssumption DEF AllDeals
<1>4. ASSUME NEW x \in Ranked(g, P) PROVE At(x) \in Nat /\ Best(g, x, P) \in Nat /\ x \in Nat
  <2>1. PICK b \in Places : b = Best(g, x, P)
    BY BestIsPlace
  <2>2. PICK k \in Cards : k = g.ticket[x].card
    BY <1>2
  <2>3. g.deal[k][b] \in 1..Balls
    BY <1>3
  <2>4. b \in Nat /\ x \in Nat
    BY <1>1, SettlementAssumption
  <2> QED BY <1>3, <2>1, <2>2, <2>3, <2>4
<1>5. PICK a1 \in Nat : a1 = At(t)
  BY <1>4
<1>6. PICK a2 \in Nat : a2 = At(u)
  BY <1>4
<1>7. PICK b1 \in Nat : b1 = Best(g, t, P)
  BY <1>4
<1>8. PICK b2 \in Nat : b2 = Best(g, u, P)
  BY <1>4
<1>9. t \in Nat /\ u \in Nat
  BY <1>4
<1>10. Before(g, P, t, u) <=> b1 < b2 \/ (b1 = b2 /\ (a1 < a2 \/ (a1 = a2 /\ t < u)))
  BY <1>5, <1>6, <1>7, <1>8, Zenon DEF Before
<1>11. Before(g, P, u, t) <=> b2 < b1 \/ (b2 = b1 /\ (a2 < a1 \/ (a2 = a1 /\ u < t)))
  BY <1>5, <1>6, <1>7, <1>8, Zenon DEF Before
<1> HIDE DEF At
<1> QED BY <1>9, <1>10, <1>11

\* No bot queues twice.
LEMMA QueueApart ==
  ASSUME NEW g \in AllRows, Going(g), NEW P \in SUBSET Places, NEW t \in Queue(g, P), NEW u \in Queue(g, P), t # u, UserOf(g, t) \in Bots
  PROVE  UserOf(g, u) # UserOf(g, t)
<1>1. t \in Ranked(g, P) /\ u \in Ranked(g, P)
  BY DEF Queue
<1>2. \A v \in Ranked(g, P) : Before(g, P, v, t) => UserOf(g, v) # UserOf(g, t)
  BY DEF Queue
<1>3. UserOf(g, u) \in Bots => \A v \in Ranked(g, P) : Before(g, P, v, u) => UserOf(g, v) # UserOf(g, u)
  BY DEF Queue
<1>4. Before(g, P, t, u) \/ Before(g, P, u, t)
  BY <1>1, BeforeTotal
<1> QED BY <1>1, <1>2, <1>3, <1>4

LEMMA RankDistinct ==
  ASSUME NEW P \in SUBSET Places, NEW p \in P, NEW q \in P, Cardinality({r \in P : r < p}) = Cardinality({r \in P : r < q})
  PROVE  p = q
<1>1. P \in SUBSET Nat /\ IsFiniteSet(P)
  BY PlacesFinite
<1>2. ASSUME NEW a \in P, NEW b \in P, a < b PROVE Cardinality({r \in P : r < a}) # Cardinality({r \in P : r < b})
  <2> DEFINE A == {r \in P : r < a}
             B == {r \in P : r < b}
  <2>1. a \in Nat /\ b \in Nat /\ \A r \in P : r \in Nat
    BY <1>1
  <2>2. A \subseteq B
    <3> SUFFICES ASSUME NEW r \in P, r < a PROVE r < b
      OBVIOUS
    <3>1. r \in Nat
      BY <2>1
    <3> QED BY <1>2, <2>1, <3>1
  <2>3. a \in B /\ a \notin A
    BY <1>2, <2>1
  <2>4. IsFiniteSet(B)
    BY <1>1, FS_Subset
  <2> HIDE DEF A, B
  <2>5. Cardinality(A) # Cardinality(B)
    BY <2>2, <2>3, <2>4, FS_Subset
  <2> QED BY <2>5 DEF A, B
<1>3. p < q \/ q < p \/ p = q
  BY <1>1
<1> QED BY <1>2, <1>3

LEMMA SeatedFact ==
  ASSUME NEW g \in AllRows, NEW P \in SUBSET Places, NEW p \in P, NEW t \in Seated(g, P, p)
  PROVE  t \in Queue(g, P) /\ t \in Tickets /\ g.ticket[t].status \in {"active", "won"} /\ \A q \in P : t \in Seated(g, P, q) => q = p
<1>1. t \in Queue(g, P) /\ Cardinality({u \in Queue(g, P) : Before(g, P, u, t)}) = Cardinality({r \in P : r < p})
  BY DEF Seated
<1>2. t \in Tickets /\ g.ticket[t].status \in {"active", "won"}
  BY <1>1, InPlayFact DEF Queue, Ranked
<1>3. ASSUME NEW q \in P, t \in Seated(g, P, q) PROVE q = p
  <2>1. Cardinality({u \in Queue(g, P) : Before(g, P, u, t)}) = Cardinality({r \in P : r < q})
    BY <1>3 DEF Seated
  <2>2. Cardinality({r \in P : r < q}) = Cardinality({r \in P : r < p})
    BY <1>1, <2>1
  <2> QED BY <2>2, RankDistinct
<1> QED BY <1>1, <1>2, <1>3

\* The rows h when the places of s have met the queue.
SeatedUpTo(g, h, P, s) ==
  /\ h \in AllRows /\ Going(h) /\ Kept(g, h) /\ h.room.settled \subseteq s
  /\ \A p \in Places : \A t \in h.room.winners[p] : p \in s /\ t \in Seated(g, P, p)

LEMMA SeatedFirst ==
  ASSUME NEW g \in AllRows, Going(g), IsPrefilled(g.mode), g.room.settled = {}, NEW P PROVE SeatedUpTo(g, g, P, {})
<1>1. Seats(g)
  BY DEF Going
<1>2. \A p \in Places : g.room.winners[p] \in SUBSET Tickets
  BY RowFields, RoomFields
<1>3. \A p \in Places : g.room.winners[p] = {}
  BY <1>1, <1>2 DEF Seats
<1> QED BY <1>3, KeptStays DEF SeatedUpTo

LEMMA SeatedOn ==
  ASSUME NEW g \in AllRows, Going(g), NEW h, NEW P \in SUBSET Places, NEW s \in SUBSET P, NEW p \in s, SeatedUpTo(g, h, P, s \ {p}),
         NEW c \in AllConfigs, NEW r, r = IF Seated(g, P, p) = {} THEN h ELSE Award(h, CHOOSE t \in Seated(g, P, p) : TRUE, p, c)
  PROVE  SeatedUpTo(g, r, P, s) /\ (p \in c.places /\ IsPrefilled(g.mode) /\ Split(h, c) => Split(r, c))
<1>1. /\ h \in AllRows /\ Going(h) /\ Kept(g, h) /\ h.room.settled \subseteq s \ {p}
      /\ \A q \in Places : \A t \in h.room.winners[q] : q \in s \ {p} /\ t \in Seated(g, P, q)
  BY DEF SeatedUpTo
<1>2. CASE Seated(g, P, p) = {}
  <2>1. r = h
    BY <1>2
  <2> QED BY <1>1, <2>1 DEF SeatedUpTo
<1>3. CASE Seated(g, P, p) # {}
  <2>1. PICK a \in Seated(g, P, p) : a = CHOOSE t \in Seated(g, P, p) : TRUE
    BY <1>3
  <2>2. a \in Queue(g, P) /\ a \in Tickets /\ g.ticket[a].status \in {"active", "won"} /\ \A q \in P : a \in Seated(g, P, q) => q = p
    BY SeatedFact
  <2>3. r = Award(h, a, p, c)
    BY <1>3, <2>1
  <2>4. p \in Places
    OBVIOUS
  <2>5. Awarded(h, r, a, p)
    BY <1>1, <2>2, <2>3, <2>4, AwardEffect
  <2>6. h.ticket[a].status \notin {"none", "cancelled"} /\ \A t \in Tickets : h.ticket[t].user = g.ticket[t].user
    BY <1>1, <2>2 DEF Kept, KeptRow, SameOwner
  <2>7. \A q \in Places : h.room.winners[q] \in SUBSET Tickets
    BY <1>1, RowFields, RoomFields
  <2>8. ASSUME NEW q \in Places, NEW u \in h.room.winners[q]
        PROVE  u # a /\ (h.ticket[a].user \in Bots => h.ticket[u].user # h.ticket[a].user)
    <3>1. q \in P /\ q # p /\ u \in Seated(g, P, q)
      BY <1>1
    <3>2. u \in Queue(g, P) /\ u \in Tickets
      BY <3>1, SeatedFact
    <3>3. u # a
      BY <2>2, <3>1
    <3>4. UserOf(g, a) \in Bots => UserOf(g, u) # UserOf(g, a)
      BY <2>2, <3>2, <3>3, QueueApart
    <3> QED BY <2>2, <2>6, <3>2, <3>3, <3>4 DEF UserOf
  <2>9. MayWin(h, a)
    BY <2>8 DEF MayWin
  <2>10. PlaceGoes(h, r, p)
    BY <2>2, <2>5, <2>6, <2>9 DEF PlaceGoes
  <2>11. p \notin h.room.settled
    BY <1>1
  <2>12. r \in AllRows /\ Going(r) /\ Kept(h, r) /\ r.room.settled \subseteq h.room.settled \cup {p}
    BY <1>1, <2>4, <2>10, <2>11, PlaceGoesOn
  <2>13. r.room.winners = [h.room.winners EXCEPT ![p] = {a}]
    BY <2>5 DEF Awarded, PlaceSettled
  <2>14. PICK W \in [Places -> SUBSET Tickets] : W = h.room.winners
    BY <1>1, RowFields, RoomFields
  <2>15. r.room.winners[p] = {a} /\ \A q \in Places : q # p => r.room.winners[q] = W[q]
    BY <2>4, <2>13, <2>14
  <2>16. \A q \in Places : \A t \in r.room.winners[q] : q \in s /\ t \in Seated(g, P, q)
    BY <1>1, <2>1, <2>14, <2>15
  <2>17. Kept(g, r)
    BY <1>1, <2>12, KeptThrough
  <2>18. r.room.settled \subseteq s
    BY <1>1, <2>12
  <2>19. GoesBy(h, r, p, c) /\ h.mode = g.mode
    BY <1>1, <2>2, <2>3, <2>9 DEF GoesBy, Kept, SameRoom
  <2>20. p \in c.places /\ IsPrefilled(g.mode) /\ Split(h, c) => Split(r, c)
    BY <1>1, <2>4, <2>11, <2>12, <2>19, AwardSplits
  <2> QED BY <2>12, <2>16, <2>17, <2>18, <2>20 DEF SeatedUpTo
<1> QED BY <1>2, <1>3

SeatsAll(g, c, f) ==
  f = [s \in SUBSET OpenPlaces(g, c) |-> IF s = {} THEN g ELSE SeatOne(f[s \ {Max(s)}], g, Max(s), c)]

LEMMA SeatOneCase ==
  ASSUME NEW h, NEW g, NEW p, NEW c
  PROVE  SeatOne(h, g, p, c) = IF Seated(g, OpenPlaces(g, c), p) = {} THEN h
                               ELSE Award(h, CHOOSE t \in Seated(g, OpenPlaces(g, c), p) : TRUE, p, c)
BY Zenon DEF SeatOne

SeatsAllOnce(g, c, f) ==
  f = [s \in SUBSET OpenPlaces(g, c) |-> IF s = {} THEN g ELSE [k \in {f[s \ {Max(s)}]} |-> SeatOne(k, g, Max(s), c)][f[s \ {Max(s)}]]]

LEMMA SeatsAllSame == ASSUME NEW g, NEW c, NEW f PROVE SeatsAllOnce(g, c, f) <=> SeatsAll(g, c, f)
<1>1. ASSUME NEW h, NEW p PROVE [k \in {h} |-> SeatOne(k, g, p, c)][h] = SeatOne(h, g, p, c)
  OBVIOUS
<1> QED BY Zenon, <1>1 DEF SeatsAllOnce, SeatsAll

LEMMA SettleLeaderboardChosen ==
  ASSUME NEW g, NEW c
  PROVE  SettleLeaderboard(g, c) =
           IF InPlay(g) = {} THEN g ELSE ReconcilePool((CHOOSE f : SeatsAll(g, c, f))[OpenPlaces(g, c)], c)
<1>1. SettleLeaderboard(g, c) =
           IF InPlay(g) = {} THEN g ELSE ReconcilePool((CHOOSE f : SeatsAllOnce(g, c, f))[OpenPlaces(g, c)], c)
  BY Zenon DEF SettleLeaderboard, Each, MapThenFoldSet, SeatsAllOnce
<1>2. (CHOOSE f : SeatsAllOnce(g, c, f)) = (CHOOSE f : SeatsAll(g, c, f))
  BY Zenon, SeatsAllSame
<1> QED BY Zenon, <1>1, <1>2

LEMMA SeatsAllExist == ASSUME NEW g \in AllRows, NEW c \in AllConfigs PROVE \E f : SeatsAll(g, c, f)
<1>1. PICK P \in SUBSET Places : P = OpenPlaces(g, c)
  BY OpenPlacesFact
<1> DEFINE step == [x \in P \X AllRows |-> SeatOne(x[2], g, x[1], c)]
<1>2. ASSUME NEW p \in P, NEW h \in AllRows PROVE SeatOne(h, g, p, c) \in AllRows
  <2>1. CASE Seated(g, P, p) = {}
    BY <1>1, <2>1, SeatOneCase
  <2>2. CASE Seated(g, P, p) # {}
    <3>1. PICK a \in Seated(g, P, p) : a = CHOOSE t \in Seated(g, P, p) : TRUE
      BY <2>2
    <3>2. a \in Tickets
      BY SeatedFact
    <3>3. PICK r : r = Award(h, a, p, c)
      OBVIOUS
    <3>4. p \in Places
      OBVIOUS
    <3>5. Awarded(h, r, a, p)
      BY <3>2, <3>3, <3>4, AwardEffect
    <3>6. SeatOne(h, g, p, c) = r
      BY <1>1, <2>2, <3>1, <3>3, SeatOneCase
    <3> QED BY <3>5, <3>6 DEF Awarded, SameRoom
  <2> QED BY <2>1, <2>2
<1>3. step \in [P \X AllRows -> AllRows]
  <2> SUFFICES ASSUME NEW x \in P \X AllRows PROVE SeatOne(x[2], g, x[1], c) \in AllRows
    OBVIOUS
  <2>1. x[1] \in P /\ x[2] \in AllRows
    OBVIOUS
  <2> QED BY <1>2, <2>1
<1>4. \A p \in P, h \in AllRows : step[<<p, h>>] = SeatOne(h, g, p, c)
  OBVIOUS
<1> HIDE DEF step
<1>6. P \in SUBSET Nat /\ IsFiniteSet(P)
  BY PlacesFinite
<1>7. PICK it \in [SUBSET P -> AllRows] : StepsFrom(P, g, step, it)
  BY <1>3, <1>6, StepsExist
<1>8. ASSUME NEW s \in SUBSET P PROVE it[s] = IF s = {} THEN g ELSE SeatOne(it[s \ {Max(s)}], g, Max(s), c)
  <2>1. it[s] = IF s = {} THEN g ELSE step[<<Max(s), it[s \ {Max(s)}]>>]
    BY <1>7 DEF StepsFrom
  <2>2. CASE s = {}
    BY <2>1, <2>2
  <2>3. CASE s # {}
    <3>1. Max(s) \in P
      BY <2>3, HighestPlace
    <3>2. it[s \ {Max(s)}] \in AllRows
      OBVIOUS
    <3> QED BY <1>4, <2>1, <2>3, <3>1, <3>2
  <2> QED BY <2>2, <2>3
<1>9. it = [s \in SUBSET P |-> it[s]]
  OBVIOUS
<1>10. it = [s \in SUBSET P |-> IF s = {} THEN g ELSE SeatOne(it[s \ {Max(s)}], g, Max(s), c)]
  BY <1>8, <1>9
<1>11. SeatsAll(g, c, it)
  BY <1>1, <1>10 DEF SeatsAll
<1> QED BY <1>11

\* settleDerashLeaderboard: the queue takes the places, then the pool is shared out.
LEMMA LeaderboardEnds ==
  ASSUME NEW g \in AllRows, NEW c \in AllConfigs, Going(g), g.mode = "leaderboard", g.room.settled = {}, NEW r, r = SettleLeaderboard(g, c)
  PROVE  Finished(g, r) /\ SplitFinal(r, c)
<1>0. IsPrefilled(g.mode)
  BY DEF IsPrefilled
<1>1. PICK P \in SUBSET Places : P = OpenPlaces(g, c) /\ P \subseteq c.places
  BY OpenPlacesFact
<1>2. PICK f : f = CHOOSE h : SeatsAll(g, c, h)
  OBVIOUS
<1>3. SeatsAll(g, c, f)
  BY <1>2, SeatsAllExist
<1>4. \A s \in SUBSET P : f[s] = IF s = {} THEN g ELSE SeatOne(f[s \ {Max(s)}], g, Max(s), c)
  BY <1>1, <1>3 DEF SeatsAll
<1> DEFINE G == {s \in SUBSET P : SeatedUpTo(g, f[s], P, s) /\ Split(f[s], c)}
<1>5. {} \in G
  <2>1. f[{}] = g
    BY <1>4
  <2>2. SeatedUpTo(g, g, P, {}) /\ Split(g, c)
    BY <1>0, SeatedFirst, NothingToSplit
  <2> QED BY <2>1, <2>2
<1>6. ASSUME NEW s \in SUBSET P, s # {}, s \ {Max(s)} \in G PROVE s \in G
  <2>1. PICK p \in s : p = Max(s)
    BY <1>6, HighestPlace
  <2>2. PICK h : h = f[s \ {p}]
    OBVIOUS
  <2>3. PICK k : k = f[s]
    OBVIOUS
  <2>4. k = SeatOne(h, g, p, c)
    BY <1>4, <1>6, <2>1, <2>2, <2>3
  <2>5. k = IF Seated(g, P, p) = {} THEN h ELSE Award(h, CHOOSE t \in Seated(g, P, p) : TRUE, p, c)
    BY <1>1, <2>4, SeatOneCase
  <2>6. SeatedUpTo(g, h, P, s \ {p}) /\ Split(h, c) /\ p \in c.places
    BY <1>1, <1>6, <2>1, <2>2
  <2>7. SeatedUpTo(g, k, P, s) /\ Split(k, c)
    BY <1>0, <2>5, <2>6, SeatedOn
  <2> QED BY <2>3, <2>7
<1>7. P \in G
  <2>1. P \in SUBSET Nat /\ IsFiniteSet(P)
    BY PlacesFinite
  <2> HIDE DEF G
  <2> QED BY <1>5, <1>6, <2>1, PlaceByPlace
<1>8. CASE InPlay(g) = {}
  <2>1. r = g
    BY <1>8, SettleLeaderboardChosen
  <2>2. \A t \in Tickets : g.ticket[t].status # "active"
    BY <1>8, InPlayFact
  <2>3. SplitFinal(r, c)
    BY <2>1, NothingToSplit
  <2> QED BY <1>0, <2>1, <2>2, <2>3 DEF Finished, Going, SameSale
<1>9. CASE InPlay(g) # {}
  <2>1. PICK h : h = f[P]
    OBVIOUS
  <2>2. SeatedUpTo(g, h, P, P) /\ Split(h, c)
    BY <1>7, <2>1
  <2>3. r = ReconcilePool(h, c)
    BY <1>1, <1>2, <1>9, <2>1, SettleLeaderboardChosen
  <2>4. h \in AllRows /\ Going(h) /\ h.mode = g.mode /\ h.room.status = g.room.status /\ SameSale(g, h)
    BY <2>2 DEF SeatedUpTo, Kept, SameRoom, SameSale
  <2>5. Finished(h, r) /\ SplitFinal(r, c)
    BY <1>0, <2>2, <2>3, <2>4, ReconcileEnds
  <2> QED BY <2>4, <2>5 DEF Finished, SameSale
<1> QED BY <1>8, <1>9

LEMMA LeaderboardProgress ==
  ASSUME NEW g \in AllRows, NEW c \in AllConfigs, Going(g), g.mode = "leaderboard", g.room.settled = {}, NEW r, r = ProgressLeaderboard(g, c)
  PROVE  /\ r = g \/ Outcome(g, r)
         /\ g.room.status = "running" => Sharing(g, r, c)
<1>0. IsPrefilled(g.mode)
  BY DEF IsPrefilled
<1>1. CASE InPlay(g) = {}
  <2>1. PICK h : h = Completed(g)
    OBVIOUS
  <2>2. r = ReconcilePool(h, c)
    BY <1>1, <2>1 DEF ProgressLeaderboard
  <2>3. Closed(g, h, "completed") /\ SameSale(g, h)
    BY <2>1, CompletedEffect DEF Closed, SameSale
  <2>4. h \in AllRows /\ h.mode = g.mode /\ h.room.status = "completed"
    BY <2>3 DEF Closed
  <2>5. Going(h)
    BY <2>3, ClosedGoes
  <2>6. Finished(h, r) /\ (Split(h, c) => SplitFinal(r, c))
    BY <1>0, <2>2, <2>4, <2>5, ReconcileEnds
  <2>7. r.room.status = "completed" /\ SameSale(g, r)
    BY <2>3, <2>4, <2>6 DEF Finished, SameSale
  <2>8. Sharing(g, r, c)
    BY <2>3, <2>6, <2>7, ClosedSplits DEF Sharing
  <2> QED BY <1>0, <2>4, <2>6, <2>7, <2>8, FinishedIsOutcome
<1>2. CASE InPlay(g) # {}
  <2>1. PICK h : h = SettleLeaderboard(g, c)
    OBVIOUS
  <2>2. r = g \/ r = Completed(h)
    BY <1>2, <2>1, Zenon DEF ProgressLeaderboard
  <2>3. Finished(g, h) /\ SplitFinal(h, c)
    BY <2>1, LeaderboardEnds
  <2>4. r = Completed(h) => Outcome(g, r)
    BY <1>0, <2>3, CompletedFinished
  <2>5. ASSUME r = Completed(h) PROVE Sharing(g, r, c)
    <3>1. h \in AllRows /\ SameSale(g, h)
      BY <2>3 DEF Finished
    <3>2. Closed(h, r, "completed") /\ r.room.sold = h.room.sold
      BY <2>5, <3>1, CompletedEffect
    <3>3. r.room.status = "completed" /\ SameSale(g, r)
      BY <3>1, <3>2 DEF Closed, SameSale
    <3> QED BY <2>3, <3>1, <3>2, <3>3, ClosedSplits DEF Sharing
  <2>6. r = g /\ g.room.status = "running" => Sharing(g, r, c)
    BY DEF Sharing, SameSale
  <2> QED BY <2>2, <2>4, <2>5, <2>6
<1> QED BY <1>1, <1>2

-----------------------------------------------------------------------------
(* Patterns and the full house.                                             *)

Patterns(g, f) ==
  f = [s \in SUBSET (Places \ g.room.settled) |-> IF s = {} THEN g ELSE SettlePattern(f[s \ {Max(s)}], Max(s))]

PatternsOnce(g, f) ==
  f = [s \in SUBSET (Places \ g.room.settled) |-> IF s = {} THEN g ELSE [k \in {f[s \ {Max(s)}]} |-> SettlePattern(k, Max(s))][f[s \ {Max(s)}]]]

LEMMA PatternsSame == ASSUME NEW g, NEW f PROVE PatternsOnce(g, f) <=> Patterns(g, f)
<1>1. ASSUME NEW h, NEW p PROVE [k \in {h} |-> SettlePattern(k, p)][h] = SettlePattern(h, p)
  OBVIOUS
<1> QED BY Zenon, <1>1 DEF PatternsOnce, Patterns

LEMMA SettlePatternsChosen == ASSUME NEW g PROVE SettlePatterns(g) = (CHOOSE f : Patterns(g, f))[Places \ g.room.settled]
<1>1. SettlePatterns(g) = (CHOOSE f : PatternsOnce(g, f))[Places \ g.room.settled]
  BY Zenon DEF SettlePatterns, Each, MapThenFoldSet, PatternsOnce
<1>2. (CHOOSE f : PatternsOnce(g, f)) = (CHOOSE f : Patterns(g, f))
  BY Zenon, PatternsSame
<1> QED BY Zenon, <1>1, <1>2

LEMMA PatternsExist == ASSUME NEW g \in AllRows PROVE \E f : Patterns(g, f)
<1>1. PICK P \in SUBSET Places : P = Places \ g.room.settled
  OBVIOUS
<1> DEFINE step == [x \in P \X AllRows |-> SettlePattern(x[2], x[1])]
<1>2. \A p \in P, h \in AllRows : SettlePattern(h, p) \in AllRows
  BY SettlePatternEffect DEF Shared, SameRoom
<1>3. step \in [P \X AllRows -> AllRows]
  <2> SUFFICES ASSUME NEW x \in P \X AllRows PROVE SettlePattern(x[2], x[1]) \in AllRows
    OBVIOUS
  <2>1. x[1] \in P /\ x[2] \in AllRows
    OBVIOUS
  <2> QED BY <1>2, <2>1
<1>4. \A p \in P, h \in AllRows : step[<<p, h>>] = SettlePattern(h, p)
  OBVIOUS
<1> HIDE DEF step
<1>6. P \in SUBSET Nat /\ IsFiniteSet(P)
  BY PlacesFinite
<1>7. PICK it \in [SUBSET P -> AllRows] : StepsFrom(P, g, step, it)
  BY <1>3, <1>6, StepsExist
<1>8. ASSUME NEW s \in SUBSET P PROVE it[s] = IF s = {} THEN g ELSE SettlePattern(it[s \ {Max(s)}], Max(s))
  <2>1. it[s] = IF s = {} THEN g ELSE step[<<Max(s), it[s \ {Max(s)}]>>]
    BY <1>7 DEF StepsFrom
  <2>2. CASE s = {}
    BY <2>1, <2>2
  <2>3. CASE s # {}
    <3>1. Max(s) \in P
      BY <2>3, HighestPlace
    <3>2. it[s \ {Max(s)}] \in AllRows
      OBVIOUS
    <3> QED BY <1>4, <2>1, <2>3, <3>1, <3>2
  <2> QED BY <2>2, <2>3
<1>9. it = [s \in SUBSET P |-> it[s]]
  OBVIOUS
<1>10. it = [s \in SUBSET P |-> IF s = {} THEN g ELSE SettlePattern(it[s \ {Max(s)}], Max(s))]
  BY <1>8, <1>9
<1>11. Patterns(g, it)
  BY <1>1, <1>10 DEF Patterns
<1> QED BY <1>11

LEMMA PatternOn ==
  ASSUME NEW g, NEW h, NEW r, NEW s, NEW p \in s, Reached(g, h, s \ {p}), p \notin g.room.settled, p \in Places,
         g.mode = "pattern", r = SettlePattern(h, p)
  PROVE  Reached(g, r, s)
<1>1. h \in AllRows /\ Going(h) /\ Kept(g, h) /\ h.room.settled \subseteq g.room.settled \cup (s \ {p})
  BY DEF Reached
<1>2. p \notin h.room.settled /\ h.mode = "pattern"
  BY <1>1 DEF Kept, SameRoom
<1>3. CASE r = h
  BY <1>1, <1>3 DEF Reached
<1>4. CASE r # h
  <2>1. PICK W \in SUBSET Tickets : Shared(h, r, W, p)
    BY <1>1, <1>4, SettlePatternEffect
  <2>2. Going(r) /\ Kept(h, r)
    BY <1>1, <1>2, <2>1, SharedGoes
  <2>3. r \in AllRows /\ r.room.settled = h.room.settled \cup {p}
    BY <2>1 DEF Shared, SameRoom, PlaceSettled
  <2>4. Kept(g, r)
    BY <1>1, <2>2, KeptThrough
  <2>5. r.room.settled \subseteq g.room.settled \cup s
    BY <1>1, <2>3
  <2> QED BY <2>2, <2>3, <2>4, <2>5 DEF Reached
<1> QED BY <1>3, <1>4

\* evaluateAndSettlePatterns: the room goes on.
LEMMA SettlePatternsGo ==
  ASSUME NEW g \in AllRows, Going(g), g.mode = "pattern", NEW r, r = SettlePatterns(g)
  PROVE  GoesOn(g, r)
<1>1. PICK P \in SUBSET Places : P = Places \ g.room.settled
  OBVIOUS
<1>2. PICK f : f = CHOOSE h : Patterns(g, h)
  OBVIOUS
<1>3. Patterns(g, f)
  BY <1>2, PatternsExist
<1>4. \A s \in SUBSET P : f[s] = IF s = {} THEN g ELSE SettlePattern(f[s \ {Max(s)}], Max(s))
  BY <1>1, <1>3 DEF Patterns
<1> DEFINE G == {s \in SUBSET P : Reached(g, f[s], s)}
<1>5. {} \in G
  <2>1. f[{}] = g
    BY <1>4
  <2>2. Reached(g, g, {})
    BY ReachedStays
  <2> QED BY <2>1, <2>2
<1>6. ASSUME NEW s \in SUBSET P, s # {}, s \ {Max(s)} \in G PROVE s \in G
  <2>1. PICK p \in s : p = Max(s)
    BY <1>6, HighestPlace
  <2>2. PICK h : h = f[s \ {p}]
    OBVIOUS
  <2>3. PICK k : k = f[s]
    OBVIOUS
  <2>4. k = SettlePattern(h, p)
    BY <1>4, <1>6, <2>1, <2>2, <2>3
  <2>5. Reached(g, h, s \ {p}) /\ p \in Places /\ p \notin g.room.settled
    BY <1>1, <1>6, <2>1, <2>2
  <2>6. Reached(g, k, s)
    BY <2>4, <2>5, PatternOn
  <2> QED BY <2>3, <2>6
<1>7. P \in G
  <2>1. P \in SUBSET Nat /\ IsFiniteSet(P)
    BY PlacesFinite
  <2> HIDE DEF G
  <2> QED BY <1>5, <1>6, <2>1, PlaceByPlace
<1>8. r = f[P]
  BY <1>1, <1>2, SettlePatternsChosen
<1> QED BY <1>7, <1>8 DEF Reached, GoesOn

LEMMA FullHouseGoes ==
  ASSUME NEW g \in AllRows, Going(g), g.mode = "line", NEW r, r = SettleFullHouse(g)
  PROVE  GoesOn(g, r)
<1>1. CASE r = g
  BY <1>1, KeptStays DEF GoesOn
<1>2. CASE r # g
  <2>1. PICK w \in Tickets : 1 \notin g.room.settled /\ g.ticket[w].status \notin {"none", "cancelled"} /\ Awarded(g, r, w, 1)
    BY <1>2, FullHouseEffect
  <2>2. PICK p \in Places : p = 1
    BY SettlementAssumption
  <2>3. TicketsGo(g) /\ Awarded(g, r, w, p) /\ p \notin g.room.settled
    BY <2>1, <2>2 DEF Going, TicketsGo
  <2>4. TicketsGo(r)
    BY <2>1, <2>3, AwardedTicketsGo
  <2>5. Kept(g, r)
    BY <2>1, <2>3, AwardedKeeps
  <2>6. r \in AllRows /\ r.mode = "line"
    BY <2>5 DEF Kept, SameRoom
  <2> QED BY <2>4, <2>5, <2>6 DEF GoesOn, Going, TicketsGo, IsPrefilled
<1> QED BY <1>1, <1>2

LEMMA GoesOnOutcome ==
  ASSUME NEW g, NEW r, GoesOn(g, r), g.mode # "leaderboard", g.room.status \notin {"completed", "cancelled"}
  PROVE  Outcome(g, r)
BY DEF GoesOn, Kept, SameRoom, Outcome, RoomInv, Carried

\* drawNextNumber on a room that draws lines or patterns.
LEMMA FixedOutcome ==
  ASSUME NEW g \in AllRows, Going(g), g.mode \in {"pattern", "line"}, g.room.status \notin {"completed", "cancelled"},
         NEW c, NEW goals, NEW r, r = SettleFixed(g, c, goals)
  PROVE  Outcome(g, r)
<1>1. PICK h : h = IF g.room.drawn < c.minDraws THEN g ELSE IF g.mode = "pattern" THEN SettlePatterns(g) ELSE SettleFullHouse(g)
  OBVIOUS
<1>2. r = IF goals \subseteq h.room.settled \/ h.room.drawn >= Balls THEN MarkLost(Completed(h)) ELSE h
  BY <1>1, Zenon DEF SettleFixed
<1>3. GoesOn(g, g)
  BY KeptStays DEF GoesOn
<1>4. GoesOn(g, h)
  BY <1>1, <1>3, SettlePatternsGo, FullHouseGoes
<1>5. h \in AllRows /\ Going(h) /\ h.mode = g.mode
  BY <1>4 DEF GoesOn, Kept, SameRoom
<1>6. CASE r = h
  BY <1>4, <1>6, GoesOnOutcome
<1>7. CASE r = MarkLost(Completed(h))
  <2>1. PICK k : k = Completed(h)
    OBVIOUS
  <2>2. Closed(h, k, "completed")
    BY <1>5, <2>1, CompletedEffect
  <2>3. k \in AllRows /\ k.mode = h.mode /\ k.room.status = "completed"
    BY <2>2 DEF Closed
  <2>4. Going(k)
    BY <1>5, <2>2, ClosedGoes
  <2>5. MoneyRight(k)
    BY <2>4 DEF Going
  <2>6. Marked(k, r)
    BY <1>7, <2>1, <2>3, MarkLostEffect
  <2>7. /\ r \in AllRows /\ r.room = k.room /\ r.mode = k.mode /\ MoneyRight(r)
        /\ \A t \in Tickets : r.ticket[t].status # "active" /\ (r.ticket[t].status = "cancelled" => k.ticket[t].status = "cancelled")
        /\ Seats(k) => Seats(r)
    BY <2>3, <2>5, <2>6, MarkedFinishes
  <2>8. k.mode = "pattern" => \A t \in Tickets : k.ticket[t].status # "cancelled"
    BY <2>4 DEF Going, Waits
  <2>9. ~IsPrefilled(r.mode)
    BY <1>5, <2>3, <2>7 DEF IsPrefilled
  <2> QED BY <1>5, <2>3, <2>7, <2>8, <2>9 DEF Outcome, RoomInv, Ended
<1> QED BY <1>2, <1>6, <1>7

-----------------------------------------------------------------------------
(* A draw.                                                                  *)

LEMMA CarriedStays == ASSUME NEW g PROVE Carried(g, g)
BY DEF Carried, KeptRow, SameOwner

LEMMA KeptCarries == ASSUME NEW g, NEW h, Kept(g, h) PROVE Carried(g, h)
BY DEF Kept, SameRoom, Carried

LEMMA OutcomeThrough == ASSUME NEW g, NEW h, NEW r, Carried(g, h), h.mode = g.mode, Outcome(h, r) PROVE Outcome(g, r)
<1>1. Carried(h, r) => Carried(g, r)
  BY DEF Carried, KeptRow, SameOwner
<1> QED BY <1>1 DEF Outcome

LEMMA OutcomeStays == ASSUME NEW g \in AllRows, RoomInv(g) PROVE Outcome(g, g)
BY CarriedStays DEF Outcome

\* A ball is drawn: the rows before the settlement.
Ball(g, h) ==
  /\ h \in AllRows /\ h.mode = g.mode /\ h.ticket = g.ticket /\ h.credit = g.credit /\ h.room.status = "running"
  /\ h.room.sold = g.room.sold /\ h.room.settled = g.room.settled /\ h.room.winners = g.room.winners
  /\ h.room.shown = g.room.shown /\ h.room.price = g.room.price

LEMMA BallEffect ==
  ASSUME NEW g \in AllRows, NEW h, h = [g EXCEPT !.room.status = "running", !.room.drawn = @ + 1]
  PROVE  Ball(g, h)
<1>1. PICK room0 \in RoomRows : room0 = g.room
  BY RowFields
<1>2. PICK n \in Nat : n = room0.drawn + 1
  BY RoomFields
<1>3. PICK room1 : room1 = [room0 EXCEPT !.status = "running", !.drawn = n]
  OBVIOUS
<1>4. /\ room1 \in RoomRows /\ room1.status = "running" /\ room1.sold = room0.sold /\ room1.settled = room0.settled
      /\ room1.winners = room0.winners /\ room1.shown = room0.shown /\ room1.price = room0.price
  BY <1>3 DEF RoomRows
<1>5. h = [g EXCEPT !.room = room1]
  BY <1>1, <1>2, <1>3 DEF AllRows, RoomRows
<1>6. h \in AllRows /\ h.mode = g.mode /\ h.ticket = g.ticket /\ h.credit = g.credit /\ h.room = room1
  BY <1>4, <1>5 DEF AllRows
<1> QED BY <1>1, <1>4, <1>6 DEF Ball

LEMMA BallGoes ==
  ASSUME NEW g, NEW h, Ball(g, h), Going(g)
  PROVE  Going(h) /\ Carried(g, h) /\ h \in AllRows /\ h.mode = g.mode /\ h.room.settled = g.room.settled /\ h.room.status = "running"
<1>1. /\ h \in AllRows /\ h.mode = g.mode /\ h.ticket = g.ticket /\ h.credit = g.credit /\ h.room.status = "running"
      /\ h.room.sold = g.room.sold /\ h.room.settled = g.room.settled /\ h.room.winners = g.room.winners
  BY DEF Ball
<1>2. MoneyRight(h)
  BY <1>1 DEF Going, MoneyRight
<1>3. \A t \in Tickets : Waits(h.ticket[t], h.credit[t], h.room.settled, h.mode)
  BY <1>1 DEF Going
<1>4. IsPrefilled(h.mode) => Seats(h)
  BY <1>1 DEF Going, Seats
<1>5. Carried(g, h)
  BY <1>1 DEF Carried, KeptRow, SameOwner
<1> QED BY <1>1, <1>2, <1>3, <1>4, <1>5 DEF Going

LEMMA BallSplits == ASSUME NEW g \in AllRows, NEW h, Ball(g, h), NEW c PROVE Fair(g, h, c)
<1>1. /\ h.ticket = g.ticket /\ h.room.settled = g.room.settled /\ h.room.winners = g.room.winners
      /\ h.room.shown = g.room.shown /\ h.room.price = g.room.price
  BY DEF Ball
<1>2. Pool(h) = Pool(g)
  BY <1>1, SamePool
<1> QED BY <1>1, <1>2, SplitSame DEF Split, Fair

LEMMA SharingThrough ==
  ASSUME NEW g, NEW h, NEW r, NEW c, h.mode = g.mode, SameSale(g, h), h.room.status # "open", Fair(g, h, c), Sharing(h, r, c)
  PROVE  Sharing(g, r, c)
BY DEF Fair, Sharing, SameSale

\* A race that is evaluated, and perhaps ends.
LEMMA RaceOutcome ==
  ASSUME NEW g \in AllRows, NEW h, GoesOn(g, h), NEW c \in AllConfigs, g.mode = "race", g.room.status = "running",
         NEW r, r = FinalizeDerashIfDone(h, c)
  PROVE  Outcome(g, r) /\ (Fair(g, h, c) => Sharing(g, r, c))
<1>1. h \in AllRows /\ Going(h) /\ h.mode = "race" /\ Carried(g, h) /\ h.room.status = "running" /\ SameSale(g, h)
  BY KeptCarries DEF GoesOn, Kept, SameRoom, SameSale
<1>2. (r = h \/ Outcome(h, r)) /\ Sharing(h, r, c)
  BY <1>1, FinalizeOutcome
<1>3. Outcome(g, h)
  BY GoesOnOutcome
<1>4. Outcome(h, r) => Outcome(g, r)
  BY <1>1, OutcomeThrough
<1>5. Fair(g, h, c) => Sharing(g, r, c)
  BY <1>1, <1>2, SharingThrough
<1> QED BY <1>2, <1>3, <1>4, <1>5

LEMMA DrawnOutcome ==
  ASSUME NEW g \in AllRows, NEW c \in AllConfigs, RoomInv(g), g.room.status \notin {"completed", "cancelled"}, NEW r \in Drawn(g, c)
  PROVE  Outcome(g, r) /\ Sharing(g, r, c)
<1>1. PICK h : h = [g EXCEPT !.room.status = "running", !.room.drawn = @ + 1]
  OBVIOUS
<1>2. Going(g) /\ (g.mode = "leaderboard" => g.room.settled = {})
  BY DEF RoomInv
<1>3. Ball(g, h)
  BY <1>1, BallEffect
<1>4. Going(h) /\ Carried(g, h) /\ h \in AllRows /\ h.mode = g.mode /\ h.room.settled = g.room.settled /\ h.room.status = "running"
  BY <1>2, <1>3, BallGoes
<1>5. r \in CASE g.mode = "race" ->
                   {FinalizeDerashIfDone(k, c) : k \in IF h.room.drawn >= c.minDraws THEN EvaluateDerash(h, c) ELSE {h}}
              [] g.mode = "leaderboard" -> {ProgressLeaderboard(h, c)}
              [] g.mode = "pattern" -> {SettleFixed(h, c, Places)}
              [] g.mode = "line" -> {SettleFixed(h, c, {1})}
  BY <1>1, Zenon DEF Drawn
<1>6. g.mode \in {"race", "leaderboard", "pattern", "line"}
  BY RowFields DEF Modes
<1>7. Outcome(h, r) /\ Sharing(h, r, c)
  <2>1. CASE g.mode = "race"
    <3>1. PICK k \in IF h.room.drawn >= c.minDraws THEN EvaluateDerash(h, c) ELSE {h} : r = FinalizeDerashIfDone(k, c)
      BY <1>5, <2>1
    <3>2. GoesOn(h, k) /\ Fair(h, k, c)
      <4>1. GoesOn(h, h) /\ Fair(h, h, c)
        BY <1>4, KeptStays DEF GoesOn, Fair
      <4> QED BY <1>4, <3>1, <4>1, EvaluateGoes
    <3> QED BY <1>4, <2>1, <3>1, <3>2, RaceOutcome
  <2>2. CASE g.mode = "leaderboard"
    <3>1. r = ProgressLeaderboard(h, c)
      BY <1>5, <2>2
    <3>2. (r = h \/ Outcome(h, r)) /\ Sharing(h, r, c)
      BY <1>2, <1>4, <2>2, <3>1, LeaderboardProgress
    <3>3. RoomInv(h)
      BY <1>2, <1>4 DEF RoomInv
    <3>4. Outcome(h, h)
      BY <1>4, <3>3, OutcomeStays
    <3> QED BY <3>2, <3>4
  <2>3. CASE g.mode \in {"pattern", "line"}
    <3>1. r = SettleFixed(h, c, Places) \/ r = SettleFixed(h, c, {1})
      BY <1>5, <2>3
    <3>2. Sharing(h, r, c)
      BY <1>4, <2>3 DEF Sharing, IsPrefilled
    <3> QED BY <1>4, <2>3, <3>1, <3>2, FixedOutcome
  <2> QED BY <1>6, <2>1, <2>2, <2>3
<1>8. Fair(g, h, c)
  BY <1>3, BallSplits
<1>9. SameSale(g, h)
  BY <1>3 DEF Ball, SameSale
<1> QED BY <1>4, <1>7, <1>8, <1>9, OutcomeThrough, SharingThrough

LEMMA ExhaustedOutcome ==
  ASSUME NEW g \in AllRows, NEW c \in AllConfigs, RoomInv(g), g.room.status \notin {"completed", "cancelled"}, NEW r \in Exhausted(g, c)
  PROVE  Outcome(g, r) /\ Sharing(g, r, c)
<1>1. Going(g) /\ (g.mode = "leaderboard" => g.room.settled = {})
  BY DEF RoomInv
<1>2. r \in CASE g.mode = "race" -> {Completed(ReconcilePool(k, c)) : k \in EvaluateDerash(g, c)}
              [] g.mode = "leaderboard" -> {Completed(SettleLeaderboard(g, c))}
              [] OTHER -> {SettleFixed(g, [c EXCEPT !.minDraws = 0], {})}
  BY Zenon DEF Exhausted
<1>3. g.mode \in {"race", "leaderboard", "pattern", "line"}
  BY RowFields DEF Modes
<1>4. CASE g.mode = "race"
  <2>1. PICK k \in EvaluateDerash(g, c) : r = Completed(ReconcilePool(k, c))
    BY <1>2, <1>4
  <2>2. GoesOn(g, k) /\ Fair(g, k, c)
    BY <1>1, EvaluateGoes
  <2>3. k \in AllRows /\ Going(k) /\ k.mode = "race" /\ Carried(g, k) /\ SameSale(g, k)
    BY <1>4, <2>2, KeptCarries DEF GoesOn, Kept, SameRoom, SameSale
  <2>4. PICK h : h = ReconcilePool(k, c)
    OBVIOUS
  <2>5. IsPrefilled(k.mode)
    BY <2>3 DEF IsPrefilled
  <2>6. Finished(k, h) /\ (Split(k, c) => SplitFinal(h, c))
    BY <2>3, <2>4, <2>5, ReconcileEnds
  <2>7. Outcome(k, r)
    BY <2>1, <2>3, <2>4, <2>5, <2>6, CompletedFinished
  <2>8. h \in AllRows /\ SameSale(g, h)
    BY <2>3, <2>6 DEF Finished, SameSale
  <2>9. Closed(h, r, "completed") /\ r.room.sold = h.room.sold
    BY <2>1, <2>4, <2>8, CompletedEffect
  <2>10. r.room.status = "completed" /\ SameSale(g, r) /\ (SplitFinal(h, c) => SplitFinal(r, c))
    BY <2>8, <2>9, ClosedSplits DEF Closed, SameSale
  <2>11. Sharing(g, r, c)
    BY <2>2, <2>6, <2>10 DEF Fair, Sharing
  <2> QED BY <1>4, <2>3, <2>7, <2>11, OutcomeThrough
<1>5. CASE g.mode = "leaderboard"
  <2>1. PICK h : h = SettleLeaderboard(g, c)
    OBVIOUS
  <2>2. r = Completed(h)
    BY <1>2, <1>5, <2>1
  <2>3. Finished(g, h) /\ SplitFinal(h, c)
    BY <1>1, <1>5, <2>1, LeaderboardEnds
  <2>4. IsPrefilled(g.mode)
    BY <1>5 DEF IsPrefilled
  <2>5. h \in AllRows /\ SameSale(g, h)
    BY <2>3 DEF Finished
  <2>6. Closed(h, r, "completed") /\ r.room.sold = h.room.sold
    BY <2>2, <2>5, CompletedEffect
  <2>7. r.room.status = "completed" /\ SplitFinal(r, c) /\ SameSale(g, r)
    BY <2>3, <2>5, <2>6, ClosedSplits DEF Closed, SameSale
  <2> QED BY <2>2, <2>3, <2>4, <2>7, CompletedFinished DEF Sharing
<1>6. CASE g.mode \in {"pattern", "line"}
  <2>1. r = SettleFixed(g, [c EXCEPT !.minDraws = 0], {})
    BY <1>2, <1>6
  <2>2. Sharing(g, r, c)
    BY <1>6 DEF Sharing, IsPrefilled
  <2> QED BY <1>1, <1>6, <2>1, <2>2, FixedOutcome
<1> QED BY <1>3, <1>4, <1>5, <1>6

\* cancelRoomWithRefundsInSession: every ticket that waits gets its stake back.
LEMMA CancelledOutcome ==
  ASSUME NEW g \in AllRows, Going(g), NEW r, r = Cancelled(g)
  PROVE  r \in AllRows /\ r.room.status = "cancelled" /\ Outcome(g, r)
<1>1. CalledOff(g, r)
  BY CancelledEffect
<1>2. PICK W \in SUBSET Tickets, k \in AllRows :
        /\ \A t \in Tickets : t \in W <=> g.ticket[t].pending
        /\ Refunded(g, k, W, "refund") /\ Closed(k, r, "cancelled")
  BY <1>1 DEF CalledOff
<1>3. \A t \in Tickets : Waits(g.ticket[t], g.credit[t], g.room.settled, g.mode)
  BY DEF Going
<1>4. \A t \in W : g.ticket[t].status # "cancelled" /\ (g.ticket[t].status = "won" => g.mode = "pattern")
  BY <1>2, <1>3 DEF Waits
<1>5. PICK why \in {"refund", "noresult", "cartela"} : why = "refund"
  OBVIOUS
<1>6. Refunded(g, k, W, why) /\ MoneyRight(g)
  BY <1>2, <1>5 DEF Going
<1>7. /\ k \in AllRows /\ k.room = g.room /\ k.mode = g.mode /\ MoneyRight(k)
      /\ \A t \in Tickets : k.ticket[t].status = IF t \in W THEN "cancelled" ELSE g.ticket[t].status
      /\ IsPrefilled(g.mode) /\ Seats(g) => Seats(k)
  BY <1>4, <1>6, RefundedRight
<1>8. \A t \in Tickets : k.ticket[t].status # "active"
  BY <1>2, <1>3, <1>7 DEF Waits
<1>9. r \in AllRows /\ r.mode = k.mode /\ r.ticket = k.ticket /\ r.room.status = "cancelled"
  BY <1>2 DEF Closed
<1>10. MoneyRight(r) /\ (Seats(k) => Seats(r))
  BY <1>2, <1>7, ClosedGoes
<1>11. IsPrefilled(r.mode) => Seats(r)
  BY <1>7, <1>9, <1>10 DEF Going
<1>12. RoomInv(r)
  BY <1>8, <1>9, <1>10, <1>11 DEF RoomInv, Ended
<1> QED BY <1>7, <1>9, <1>12 DEF Outcome

\* drawNextNumber, whatever state the room is in.
LEMMA DrawOutcome ==
  ASSUME NEW g \in AllRows, g = Rows, NEW c \in AllConfigs, RoomInv(g), NEW r \in DrawOutcomes(c)
  PROVE  IF g.room.status \in {"completed", "cancelled"} THEN r = g ELSE Outcome(g, r) /\ Sharing(g, r, c)
<1>0. g.room = room /\ g.ticket = ticket
  BY DEF Rows
<1>1. CASE Over(g)
  <2>1. r = g
    BY <1>1 DEF DrawOutcomes
  <2> QED BY <1>1, <2>1 DEF Over
<1>2. CASE ~Over(g) /\ Live(g) = {}
  <2>1. r = IF g.room.status = "running" THEN [g EXCEPT !.room.status = "cancelled"] ELSE g
    BY <1>0, <1>2 DEF DrawOutcomes
  <2>2. g.room.status \notin {"completed", "cancelled"}
    BY <1>2 DEF Over
  <2>3. CASE r = g
    BY <2>2, <2>3, OutcomeStays DEF Sharing, SameSale
  <2>4. CASE r = [g EXCEPT !.room.status = "cancelled"]
    <3>1. Closed(g, r, "cancelled")
      BY <2>4, ClosedEffect
    <3>2. Going(g)
      BY <2>2 DEF RoomInv
    <3>3. MoneyRight(r) /\ (Seats(g) => Seats(r))
      BY <3>1, <3>2, ClosedGoes DEF Going
    <3>4. r \in AllRows /\ r.mode = g.mode /\ r.ticket = g.ticket /\ r.room.status = "cancelled"
      BY <3>1 DEF Closed
    <3>5. \A t \in Tickets : g.ticket[t].status # "active"
      BY <1>2 DEF Live
    <3>6. IsPrefilled(r.mode) => Seats(r)
      BY <3>2, <3>3, <3>4 DEF Going
    <3>7. Outcome(g, r)
      BY <3>3, <3>4, <3>5, <3>6 DEF Outcome, RoomInv, Ended
    <3>8. Sharing(g, r, c)
      BY <3>4 DEF Sharing
    <3> QED BY <2>2, <3>7, <3>8
  <2> QED BY <2>1, <2>2, <2>3, <2>4
<1>3. CASE ~Over(g) /\ Live(g) # {} /\ Unplayed
  <2>1. r = Cancelled(g)
    BY <1>0, <1>3 DEF DrawOutcomes
  <2>2. g.room.status \notin {"completed", "cancelled"}
    BY <1>3 DEF Over
  <2>3. Going(g)
    BY <2>2 DEF RoomInv
  <2>4. r.room.status = "cancelled" /\ Outcome(g, r)
    BY <2>1, <2>3, CancelledOutcome
  <2> QED BY <2>2, <2>4 DEF Sharing
<1>4. CASE ~Over(g) /\ Live(g) # {} /\ ~Unplayed
  <2>1. r \in IF g.room.drawn >= Balls THEN Exhausted(g, c) ELSE Drawn(g, c)
    BY <1>0, <1>4 DEF DrawOutcomes
  <2>2. g.room.status \notin {"completed", "cancelled"}
    BY <1>4 DEF Over
  <2> QED BY <2>1, <2>2, DrawnOutcome, ExhaustedOutcome
<1> QED BY <1>1, <1>2, <1>3, <1>4

-----------------------------------------------------------------------------
(* A claim.                                                                 *)

\* The card t is out of the race, or of the leaderboard.
Out(g, r, t) ==
  /\ r \in AllRows /\ r.room = g.room /\ r.mode = g.mode /\ r.deal = g.deal /\ r.credit = g.credit
  /\ \A u \in Tickets : u # t => r.ticket[u] = g.ticket[u]
  /\ r.ticket[t].status = "disqualified" /\ r.ticket[t].tiers = g.ticket[t].tiers /\ r.ticket[t].payout = g.ticket[t].payout
  /\ SameOwner(g.ticket[t], r.ticket[t])

LEMMA OutEffect ==
  ASSUME NEW g \in AllRows, g = Rows, NEW t \in Tickets, NEW pending \in BOOLEAN, NEW r, r = Disqualified(t, pending)
  PROVE  Out(g, r, t)
<1>1. PICK row \in TicketRows : row = g.ticket[t]
  BY RowFields
<1>2. PICK new : new = Loser(row, pending)
  OBVIOUS
<1>3. /\ new \in TicketRows /\ new.status = "disqualified" /\ new.tiers = row.tiers /\ new.payout = row.payout /\ SameOwner(row, new)
  BY <1>2 DEF TicketRows, Statuses, SameOwner, Loser
<1>4. PICK rows1 : rows1 = [g.ticket EXCEPT ![t] = new]
  OBVIOUS
<1>5. rows1 \in [Tickets -> TicketRows] /\ rows1[t] = new /\ \A u \in Tickets : u # t => rows1[u] = g.ticket[u]
  BY <1>3, <1>4, RowFields
<1>6. g.ticket = ticket
  BY DEF Rows
<1>7. r = [g EXCEPT !.ticket[t] = new]
  BY <1>1, <1>2, <1>6, Zenon DEF Disqualified
<1>8. r = [g EXCEPT !.ticket = rows1]
  BY <1>4, <1>7
<1>9. r \in AllRows /\ r.room = g.room /\ r.mode = g.mode /\ r.deal = g.deal /\ r.credit = g.credit /\ r.ticket = rows1
  BY <1>5, <1>8 DEF AllRows
<1> QED BY <1>1, <1>3, <1>5, <1>9 DEF Out

LEMMA OutGoes ==
  ASSUME NEW g \in AllRows, NEW t \in Tickets, NEW r, Out(g, r, t), Going(g), IsPrefilled(g.mode),
         g.ticket[t].status \in {"active", "won"}, g.ticket[t].tiers = {}
  PROVE  GoesOn(g, r) /\ \A c : Fair(g, r, c)
<1>1. /\ r \in AllRows /\ r.room = g.room /\ r.mode = g.mode /\ r.deal = g.deal /\ r.credit = g.credit
      /\ \A u \in Tickets : u # t => r.ticket[u] = g.ticket[u]
      /\ r.ticket[t].status = "disqualified" /\ r.ticket[t].tiers = g.ticket[t].tiers /\ r.ticket[t].payout = g.ticket[t].payout
      /\ SameOwner(g.ticket[t], r.ticket[t])
  BY DEF Out
<1>2. Seats(g) /\ MoneyRight(g)
  BY DEF Going
<1>3. g.ticket[t].status = "active"
  BY <1>2 DEF Seats
<1>4. PICK row : row = g.ticket[t]
  OBVIOUS
<1>5. PICK new : new = r.ticket[t]
  OBVIOUS
<1>6. PICK x : x = g.credit[t]
  OBVIOUS
<1>7. Money(row, x, g.mode) /\ Waits(row, x, g.room.settled, g.mode)
  BY <1>2, <1>4, <1>6 DEF Going, MoneyRight
<1>8. new.status = "disqualified" /\ new.payout = row.payout /\ new.card = row.card /\ row.status = "active"
  BY <1>1, <1>3, <1>4, <1>5 DEF SameOwner
<1>9. Money(new, x, g.mode)
  BY <1>7, <1>8 DEF Money
<1>10. Waits(new, x, g.room.settled, g.mode)
  BY <1>7, <1>8 DEF Waits
<1>11. MoneyRight(r)
  BY <1>1, <1>2, <1>5, <1>6, <1>9 DEF MoneyRight
<1>12. \A u \in Tickets : Waits(r.ticket[u], r.credit[u], r.room.settled, r.mode)
  BY <1>1, <1>5, <1>6, <1>10 DEF Going
<1>13. \A u \in Tickets : /\ r.ticket[u].status = "won" <=> g.ticket[u].status = "won"
                          /\ r.ticket[u].tiers = g.ticket[u].tiers /\ r.ticket[u].user = g.ticket[u].user
  BY <1>1, <1>3 DEF SameOwner
<1>14. Seats(r)
  BY <1>1, <1>2, <1>13, SeatsSame
<1>15. Going(r)
  BY <1>11, <1>12, <1>14 DEF Going
<1>16. \A u \in Tickets : KeptRow(g.ticket[u], r.ticket[u])
  BY <1>1, <1>3 DEF KeptRow, SameOwner
<1>17. SameRoom(g, r)
  BY <1>1 DEF SameRoom
<1>18. Pool(r) = Pool(g)
  BY <1>16, <1>17, KeptPool DEF Kept
<1>19. \A u \in Tickets : r.ticket[u].payout = g.ticket[u].payout
  BY <1>1
<1>20. ASSUME NEW c, Split(g, c) PROVE Split(r, c)
  BY <1>1, <1>18, <1>19, <1>20, SplitSame DEF Split
<1> QED BY <1>1, <1>15, <1>16, <1>17, <1>20 DEF GoesOn, Kept, Fair

\* The rows a claim is at, and whether a place was held for a bot.
Held == [g : AllRows, held : BOOLEAN]

LEMMA ClaimPlaceGoes ==
  ASSUME NEW t \in Tickets, NEW p \in Places, NEW c \in AllConfigs, NEW x \in Held, NEW y \in ClaimPlace(x, t, p, c)
  PROVE  y \in Held /\ (x.g.ticket[t].status \notin {"none", "cancelled"} => PlaceGoes(x.g, y.g, p) /\ GoesBy(x.g, y.g, p, c))
<1>1. PICK h \in AllRows : h = x.g
  BY DEF Held
<1> DEFINE A == IF CartelDual(h, c) /\ ticket[t].user \notin Bots THEN RedirectTo(h, p) ELSE {t}
<1>2. PICK a \in A : y = IF a = 0 THEN [x EXCEPT !.held = TRUE] ELSE IF Awardable(h, a) THEN [x EXCEPT !.g = Award(h, a, p, c)] ELSE x
  BY <1>1 DEF ClaimPlace
<1>3. a = 0 \/ a \in InPlay(h) \/ a = t
  BY RedirectFact
<1> HIDE DEF A
<1>4. a = 0 \/ (a \in Tickets /\ (h.ticket[t].status \notin {"none", "cancelled"} => h.ticket[a].status \notin {"none", "cancelled"}))
  BY <1>3, InPlayFact
<1>5. CASE a # 0 /\ Awardable(h, a)
  <2>1. PICK r : r = Award(h, a, p, c)
    OBVIOUS
  <2>2. Awarded(h, r, a, p) /\ MayWin(h, a)
    BY <1>4, <1>5, <2>1, AwardEffect, AwardableFact
  <2>3. r \in AllRows
    BY <2>2 DEF Awarded, SameRoom
  <2>4. y = [x EXCEPT !.g = r]
    BY <1>2, <1>5, <2>1
  <2>5. y \in Held /\ y.g = r
    BY <2>3, <2>4 DEF Held
  <2> QED BY <1>1, <1>4, <1>5, <2>1, <2>2, <2>5 DEF PlaceGoes, GoesBy
<1>6. CASE ~(a # 0 /\ Awardable(h, a))
  <2>1. y = [x EXCEPT !.held = TRUE] \/ y = x
    BY <1>2, <1>6
  <2>2. y \in Held /\ y.g = h
    BY <1>1, <2>1 DEF Held
  <2> QED BY <1>1, <2>2 DEF PlaceGoes, GoesBy
<1> QED BY <1>5, <1>6

ClaimedFrom(X, t, p, c) == UNION {ClaimPlace(x, t, p, c) : x \in X}
ClaimStart == [g |-> Rows, held |-> FALSE]
Claims(t, c, f) ==
  f = [s \in SUBSET Claimed(t, c) |-> IF s = {} THEN {ClaimStart} ELSE ClaimedFrom(f[s \ {Max(s)}], t, Max(s), c)]

ClaimsOnce(t, c, f) ==
  f = [s \in SUBSET Claimed(t, c) |-> IF s = {} THEN {ClaimStart} ELSE [k \in {f[s \ {Max(s)}]} |-> ClaimedFrom(k, t, Max(s), c)][f[s \ {Max(s)}]]]

LEMMA ClaimsSame == ASSUME NEW t, NEW c, NEW f PROVE ClaimsOnce(t, c, f) <=> Claims(t, c, f)
<1>1. ASSUME NEW h, NEW p PROVE [k \in {h} |-> ClaimedFrom(k, t, p, c)][h] = ClaimedFrom(h, t, p, c)
  OBVIOUS
<1> QED BY Zenon, <1>1 DEF ClaimsOnce, Claims

LEMMA ClaimPlacesChosen == ASSUME NEW t, NEW c PROVE ClaimPlaces(t, c) = (CHOOSE f : Claims(t, c, f))[Claimed(t, c)]
<1>1. ClaimPlaces(t, c) = (CHOOSE f : ClaimsOnce(t, c, f))[Claimed(t, c)]
  BY Zenon DEF ClaimPlaces, Each, MapThenFoldSet, ClaimsOnce, ClaimedFrom, ClaimStart
<1>2. (CHOOSE f : ClaimsOnce(t, c, f)) = (CHOOSE f : Claims(t, c, f))
  BY Zenon, ClaimsSame
<1> QED BY Zenon, <1>1, <1>2

LEMMA ClaimedFact ==
  ASSUME NEW t, NEW c \in AllConfigs
  PROVE  Claimed(t, c) \in SUBSET Places /\ Claimed(t, c) \cap Rows.room.settled = {} /\ Claimed(t, c) \subseteq c.places
BY OpenPlacesFact DEF Claimed

LEMMA ClaimsExist == ASSUME NEW t \in Tickets, NEW c \in AllConfigs, Rows \in AllRows PROVE \E f : Claims(t, c, f)
<1> DEFINE D == SUBSET Held
<1>1. PICK P \in SUBSET Places : P = Claimed(t, c)
  BY ClaimedFact
<1> DEFINE step == [x \in P \X D |-> ClaimedFrom(x[2], t, x[1], c)]
<1>2. ASSUME NEW p \in P, NEW H \in D PROVE ClaimedFrom(H, t, p, c) \in D
  <2> SUFFICES ASSUME NEW x \in H, NEW r \in ClaimPlace(x, t, p, c) PROVE r \in Held
    BY DEF ClaimedFrom
  <2> QED BY ClaimPlaceGoes
<1> HIDE DEF D
<1>3. step \in [P \X D -> D]
  <2> SUFFICES ASSUME NEW x \in P \X D PROVE ClaimedFrom(x[2], t, x[1], c) \in D
    OBVIOUS
  <2>1. x[1] \in P /\ x[2] \in D
    OBVIOUS
  <2> QED BY <1>2, <2>1
<1>4. \A p \in P, H \in D : step[<<p, H>>] = ClaimedFrom(H, t, p, c)
  OBVIOUS
<1> HIDE DEF step
<1>12. ClaimStart \in Held
  BY DEF ClaimStart, Held
<1>13. {ClaimStart} \in D
  BY <1>12 DEF D
<1>5. PICK start \in D : start = {ClaimStart}
  BY <1>13
<1>6. P \in SUBSET Nat /\ IsFiniteSet(P)
  BY PlacesFinite
<1>7. PICK it \in [SUBSET P -> D] : StepsFrom(P, start, step, it)
  BY <1>3, <1>5, <1>6, StepsExist
<1>8. ASSUME NEW s \in SUBSET P
      PROVE  it[s] = IF s = {} THEN {ClaimStart} ELSE ClaimedFrom(it[s \ {Max(s)}], t, Max(s), c)
  <2>1. it[s] = IF s = {} THEN {ClaimStart} ELSE step[<<Max(s), it[s \ {Max(s)}]>>]
    BY <1>5, <1>7 DEF StepsFrom
  <2>2. CASE s = {}
    BY <2>1, <2>2
  <2>3. CASE s # {}
    <3>1. Max(s) \in P
      BY <2>3, HighestPlace
    <3>2. it[s \ {Max(s)}] \in D
      OBVIOUS
    <3> QED BY <1>4, <2>1, <2>3, <3>1, <3>2
  <2> QED BY <2>2, <2>3
<1>9. it = [s \in SUBSET P |-> it[s]]
  OBVIOUS
<1>10. it = [s \in SUBSET P |-> IF s = {} THEN {ClaimStart} ELSE ClaimedFrom(it[s \ {Max(s)}], t, Max(s), c)]
  BY <1>8, <1>9
<1>11. Claims(t, c, it)
  BY <1>1, <1>10 DEF Claims
<1> QED BY <1>11

\* claimBingo, place after place: the room goes on.
LEMMA ClaimPlacesGo ==
  ASSUME NEW t \in Tickets, NEW c \in AllConfigs, NEW g \in AllRows, g = Rows, Going(g), g.ticket[t].status \notin {"none", "cancelled"},
         NEW x \in ClaimPlaces(t, c)
  PROVE  x \in Held /\ GoesOn(g, x.g) /\ Fair(g, x.g, c)
<1>1. PICK P \in SUBSET Places : P = Claimed(t, c) /\ P \cap g.room.settled = {} /\ P \subseteq c.places
  BY ClaimedFact
<1>2. PICK f : f = CHOOSE h : Claims(t, c, h)
  OBVIOUS
<1>3. Claims(t, c, f)
  BY <1>2, ClaimsExist
<1>4. \A s \in SUBSET P : f[s] = IF s = {} THEN {ClaimStart} ELSE ClaimedFrom(f[s \ {Max(s)}], t, Max(s), c)
  BY <1>1, <1>3 DEF Claims
<1> DEFINE G == {s \in SUBSET P : \A y \in f[s] : y \in Held /\ Reached(g, y.g, s) /\ Fair(g, y.g, c)}
<1>5. {} \in G
  <2>1. f[{}] = {ClaimStart}
    BY <1>4
  <2>2. ClaimStart \in Held /\ ClaimStart.g = g
    BY DEF ClaimStart, Held
  <2>3. Reached(g, ClaimStart.g, {}) /\ Fair(g, ClaimStart.g, c)
    BY <2>2, ReachedStays DEF Fair
  <2> QED BY <2>1, <2>2, <2>3
<1>6. ASSUME NEW s \in SUBSET P, s # {}, s \ {Max(s)} \in G PROVE s \in G
  <2>1. PICK p \in s : p = Max(s)
    BY <1>6, HighestPlace
  <2> SUFFICES ASSUME NEW k \in f[s] PROVE k \in Held /\ Reached(g, k.g, s) /\ Fair(g, k.g, c)
    OBVIOUS
  <2>2. f[s] = ClaimedFrom(f[s \ {p}], t, p, c)
    BY <1>4, <1>6, <2>1
  <2>3. PICK y \in f[s \ {p}] : k \in ClaimPlace(y, t, p, c)
    BY <2>2 DEF ClaimedFrom
  <2>4. y \in Held /\ Reached(g, y.g, s \ {p}) /\ Fair(g, y.g, c)
    BY <1>6, <2>1
  <2>5. PICK h : h = y.g
    OBVIOUS
  <2>6. KeptRow(g.ticket[t], h.ticket[t])
    BY <2>4, <2>5 DEF Reached, Kept
  <2>7. p \in Places /\ p \notin g.room.settled /\ p \in c.places
    BY <1>1
  <2>8. k \in Held /\ PlaceGoes(h, k.g, p) /\ GoesBy(h, k.g, p, c)
    BY <2>3, <2>4, <2>5, <2>6, <2>7, ClaimPlaceGoes DEF KeptRow
  <2>9. Reached(g, h, s \ {p}) /\ Fair(g, h, c)
    BY <2>4, <2>5
  <2>10. PICK r : r = k.g
    OBVIOUS
  <2>11. Reached(g, r, s)
    BY <2>7, <2>8, <2>9, <2>10, ReachedOn
  <2>12. Fair(g, r, c)
    BY <2>7, <2>8, <2>9, <2>10, FairOn
  <2> QED BY <2>8, <2>10, <2>11, <2>12
<1>7. P \in G
  <2>1. P \in SUBSET Nat /\ IsFiniteSet(P)
    BY PlacesFinite
  <2> HIDE DEF G
  <2> QED BY <1>5, <1>6, <2>1, PlaceByPlace
<1>8. ClaimPlaces(t, c) = f[P]
  BY <1>1, <1>2, ClaimPlacesChosen
<1>9. x \in Held /\ Reached(g, x.g, P) /\ Fair(g, x.g, c)
  BY <1>7, <1>8
<1> QED BY <1>9 DEF Reached, GoesOn

\* claimBingo on a running room.
LEMMA ClaimOutcome ==
  ASSUME NEW t \in Tickets, NEW c \in AllConfigs, NEW g \in AllRows, g = Rows, RoomInv(g), IsPrefilled(g.mode), g.room.status = "running",
         NEW r \in ClaimOutcomes(t, c)
  PROVE  Outcome(g, r) /\ Sharing(g, r, c)
<1>0. g.ticket = ticket /\ g.mode = mode
  BY DEF Rows
<1>1. Going(g)
  BY DEF RoomInv
<1>2. Outcome(g, g) /\ Sharing(g, g, c)
  BY OutcomeStays DEF Sharing, SameSale
<1>3. CASE g.ticket[t].status \notin {"active", "won"}
  BY <1>0, <1>2, <1>3 DEF ClaimOutcomes
<1>4. CASE g.ticket[t].status \in {"active", "won"} /\ g.mode = "leaderboard"
  <2>1. r = LeaderboardClaim(t, c)
    BY <1>0, <1>4 DEF ClaimOutcomes
  <2>2. r = g \/ (r = Disqualified(t, FALSE) /\ g.ticket[t].tiers = {})
    BY <1>0, <2>1 DEF LeaderboardClaim
  <2>3. ASSUME r = Disqualified(t, FALSE), g.ticket[t].tiers = {} PROVE Outcome(g, r) /\ Sharing(g, r, c)
    <3>1. Out(g, r, t)
      BY <2>3, OutEffect
    <3>2. GoesOn(g, r) /\ Fair(g, r, c)
      BY <1>1, <1>4, <2>3, <3>1, OutGoes
    <3>3. r \in AllRows /\ Going(r) /\ Carried(g, r) /\ r.mode = g.mode /\ r.room = g.room
      BY <3>1, <3>2, KeptCarries DEF GoesOn, Out
    <3>4. RoomInv(r)
      BY <3>3 DEF RoomInv
    <3>5. Sharing(g, r, c)
      BY <3>2, <3>3 DEF Fair, Sharing, SameSale
    <3> QED BY <3>3, <3>4, <3>5 DEF Outcome
  <2> QED BY <1>2, <2>2, <2>3
<1>5. CASE g.ticket[t].status \in {"active", "won"} /\ g.mode = "race"
  <2>1. PICK x \in ClaimPlaces(t, c) : r = RaceClaim(x, t, c)
    BY <1>0, <1>5 DEF ClaimOutcomes
  <2>2. GoesOn(g, x.g) /\ Fair(g, x.g, c)
    BY <1>1, <1>5, ClaimPlacesGo
  <2>3. PICK h : h = x.g
    OBVIOUS
  <2>4. r = FinalizeDerashIfDone(h, c) \/ r = g \/ (r = FinalizeDerashIfDone(Disqualified(t, TRUE), c) /\ g.ticket[t].tiers = {})
    BY <1>0, <2>1, <2>3 DEF RaceClaim
  <2>5. ASSUME r = FinalizeDerashIfDone(h, c) PROVE Outcome(g, r) /\ Sharing(g, r, c)
    BY <1>5, <2>2, <2>3, <2>5, RaceOutcome
  <2>6. ASSUME r = FinalizeDerashIfDone(Disqualified(t, TRUE), c), g.ticket[t].tiers = {} PROVE Outcome(g, r) /\ Sharing(g, r, c)
    <3>1. PICK k : k = Disqualified(t, TRUE)
      OBVIOUS
    <3>2. Out(g, k, t)
      BY <3>1, OutEffect
    <3>3. GoesOn(g, k) /\ Fair(g, k, c)
      BY <1>1, <1>5, <2>6, <3>2, OutGoes
    <3> QED BY <1>5, <2>6, <3>1, <3>3, RaceOutcome
  <2> QED BY <1>2, <2>4, <2>5, <2>6
<1> QED BY <1>3, <1>4, <1>5 DEF IsPrefilled

-----------------------------------------------------------------------------
(* The cards that are sold.                                                 *)

InHand(tk) == {t \in Tickets : tk[t].status \notin {"none", "cancelled"}}
HandOf(tk, u) == {t \in InHand(tk) : tk[t].user = u}
HandedOut(tk, cd) ==
  /\ \A t \in Tickets : tk[t].status \in {"active", "won", "disqualified"} => cd[tk[t].card] = t
  /\ \A k \in Cards : cd[k] # 0 => tk[cd[k]].card = k
Capped(tk) == \A u \in Users : \E c \in Configs : c.cap = 0 \/ Cardinality(HandOf(tk, u)) <= c.cap
CardRows == [Cards -> Tickets \cup {0}]
Sales(g, cd, dr) ==
  g.room.status \notin {"completed", "cancelled"} =>
    HandedOut(g.ticket, cd) /\ (dr \/ (g.room.sold = Cardinality(InHand(g.ticket)) /\ Capped(g.ticket)))

\* The rows g and the cards cd of a room that no edit took back.
Right(g, cd, dr) == g \in AllRows /\ cd \in CardRows /\ RoomInv(g) /\ Sales(g, cd, dr)

\* The same room, at another price, nearer its start or with another ball.
SameState(g, r) ==
  /\ r \in AllRows /\ r.ticket = g.ticket /\ r.credit = g.credit /\ r.mode = g.mode
  /\ r.room.status = g.room.status /\ r.room.sold = g.room.sold /\ r.room.settled = g.room.settled
  /\ r.room.winners = g.room.winners

LEMMA SameInv == ASSUME NEW g, NEW r, SameState(g, r), RoomInv(g) PROVE RoomInv(r)
<1>1. /\ r.ticket = g.ticket /\ r.credit = g.credit /\ r.mode = g.mode /\ r.room.status = g.room.status
      /\ r.room.settled = g.room.settled /\ r.room.winners = g.room.winners
  BY DEF SameState
<1>2. MoneyRight(g) => MoneyRight(r)
  BY <1>1 DEF MoneyRight
<1>3. Seats(g) => Seats(r)
  BY <1>1 DEF Seats
<1>4. Going(g) => Going(r)
  BY <1>1, <1>2, <1>3 DEF Going
<1>5. Ended(g) => Ended(r)
  BY <1>1, <1>2, <1>3 DEF Ended
<1> QED BY <1>1, <1>4, <1>5 DEF RoomInv

LEMMA SameRight == ASSUME NEW g, NEW r, NEW cd, NEW dr, Right(g, cd, dr), SameState(g, r) PROVE Right(r, cd, dr)
<1>1. RoomInv(r)
  BY SameInv DEF Right
<1>2. Sales(r, cd, dr)
  BY DEF Right, Sales, SameState
<1> QED BY <1>1, <1>2 DEF Right, SameState

LEMMA OverRight ==
  ASSUME NEW r \in AllRows, RoomInv(r), r.room.status \in {"completed", "cancelled"}, NEW cd \in CardRows, NEW dr
  PROVE  Right(r, cd, dr)
BY DEF Right, Sales

LEMMA CarriedSales ==
  ASSUME NEW g \in AllRows, NEW r, Going(g), Carried(g, r), NEW cd \in CardRows, NEW dr, Sales(g, cd, dr), g.room.status \notin {"completed", "cancelled"}
  PROVE  Sales(r, cd, dr)
<1>1. HandedOut(g.ticket, cd) /\ (dr \/ (g.room.sold = Cardinality(InHand(g.ticket)) /\ Capped(g.ticket)))
  BY DEF Sales
<1>2. \A t \in Tickets : /\ r.ticket[t].card = g.ticket[t].card /\ r.ticket[t].user = g.ticket[t].user
                         /\ r.ticket[t].status \in {"none", "cancelled"} <=> g.ticket[t].status \in {"none", "cancelled"}
  BY DEF Carried, KeptRow, SameOwner
<1>3. \A t \in Tickets : g.ticket[t].status \in Statuses \ {"lost"}
  BY RowFields, TicketFields DEF Going, Waits
<1>4. \A t \in Tickets : r.ticket[t].status \in {"active", "won", "disqualified"} => g.ticket[t].status \in {"active", "won", "disqualified"}
  BY <1>2, <1>3 DEF Statuses
<1>5. InHand(r.ticket) = InHand(g.ticket)
  BY <1>2 DEF InHand
<1>6. \A u : HandOf(r.ticket, u) = HandOf(g.ticket, u)
  BY <1>2, <1>5 DEF HandOf, InHand
<1>7. Capped(g.ticket) => Capped(r.ticket)
  BY <1>6 DEF Capped
<1>8. HandedOut(r.ticket, cd)
  <2>1. \A k \in Cards : cd[k] # 0 => cd[k] \in Tickets
    BY DEF CardRows
  <2> QED BY <1>1, <1>2, <1>4, <2>1 DEF HandedOut
<1> QED BY <1>1, <1>5, <1>7, <1>8 DEF Carried, Sales

LEMMA OutcomeRight ==
  ASSUME NEW g, NEW h, NEW r, NEW cd, NEW dr, Right(g, cd, dr), g.room.status \notin {"completed", "cancelled"}, Outcome(g, h), SameState(h, r)
  PROVE  Right(r, cd, dr)
<1>1. Going(g) /\ g \in AllRows /\ Sales(g, cd, dr) /\ cd \in CardRows
  BY DEF Right, RoomInv
<1>2. h \in AllRows /\ RoomInv(h) /\ (h.room.status \notin {"completed", "cancelled"} => Carried(g, h))
  BY DEF Outcome
<1>3. Right(h, cd, dr)
  <2>1. CASE h.room.status \in {"completed", "cancelled"}
    BY <1>1, <1>2, <2>1, OverRight
  <2>2. CASE h.room.status \notin {"completed", "cancelled"}
    <3>1. Sales(h, cd, dr)
      BY <1>1, <1>2, <2>2, CarriedSales
    <3> QED BY <1>1, <1>2, <3>1 DEF Right
  <2> QED BY <2>1, <2>2
<1> QED BY <1>3, SameRight

-----------------------------------------------------------------------------
(* A purchase.                                                              *)

NewTicket(row, u) ==
  /\ row.status = "active" /\ row.pending = TRUE /\ row.payout = 0 /\ row.tiers = {} /\ row.user = u /\ row.card \in Cards

\* The rows r and the cards ce when the player u has bought the tickets T.
Bought(g, cd, r, ce, T, u) ==
  /\ r \in AllRows /\ r.mode = g.mode /\ r.credit = g.credit /\ ce \in CardRows /\ T \in SUBSET Tickets
  /\ r.room.status = g.room.status /\ r.room.settled = g.room.settled /\ r.room.winners = g.room.winners
  /\ \A t \in Tickets \ T : r.ticket[t] = g.ticket[t]
  /\ \A t \in T : /\ g.ticket[t] = NoTicket /\ NewTicket(r.ticket[t], u) /\ cd[r.ticket[t].card] = 0 /\ ce[r.ticket[t].card] = t
  /\ \A k \in Cards : ce[k] = cd[k] \/ (ce[k] \in T /\ r.ticket[ce[k]].card = k)
  /\ \A k \in Cards : cd[k] # 0 => ce[k] = cd[k]

LEMMA NoTicketFields ==
  /\ NoTicket.status = "none" /\ NoTicket.tiers = {} /\ NoTicket.payout = 0 /\ NoTicket.card = 0 /\ NoTicket.pending = FALSE
BY DEF NoTicket

LEMMA BoughtGoes == ASSUME NEW g, NEW cd, NEW r, NEW ce, NEW T, NEW u, Bought(g, cd, r, ce, T, u), Going(g) PROVE Going(r)
<1>1. /\ r \in AllRows /\ r.mode = g.mode /\ r.credit = g.credit /\ T \in SUBSET Tickets
      /\ r.room.settled = g.room.settled /\ r.room.winners = g.room.winners
      /\ \A t \in Tickets \ T : r.ticket[t] = g.ticket[t]
      /\ \A t \in T : g.ticket[t] = NoTicket /\ NewTicket(r.ticket[t], u)
  BY DEF Bought
<1>2. ASSUME NEW t \in Tickets PROVE Money(r.ticket[t], r.credit[t], g.mode) /\ Waits(r.ticket[t], r.credit[t], g.room.settled, g.mode)
  <2>1. PICK x : x = g.credit[t]
    OBVIOUS
  <2>2. Money(g.ticket[t], x, g.mode) /\ Waits(g.ticket[t], x, g.room.settled, g.mode)
    BY <2>1 DEF Going, MoneyRight
  <2>3. CASE t \notin T
    BY <1>1, <2>1, <2>2, <2>3
  <2>4. CASE t \in T
    <3>1. PICK row : row = r.ticket[t]
      OBVIOUS
    <3>2. NewTicket(row, u)
      BY <1>1, <2>4, <3>1
    <3>3. Money(NoTicket, x, g.mode) /\ Waits(NoTicket, x, g.room.settled, g.mode)
      BY <1>1, <2>2, <2>4
    <3>4. Money(row, x, g.mode)
      BY <3>2, <3>3, NoTicketFields DEF Money, NewTicket
    <3>5. Waits(row, x, g.room.settled, g.mode)
      BY <3>2, <3>3, NoTicketFields DEF Waits, NewTicket
    <3> QED BY <1>1, <2>1, <3>1, <3>4, <3>5
  <2> QED BY <2>3, <2>4
<1>3. ASSUME Seats(g) PROVE Seats(r)
  <2>1. \A t \in T : g.ticket[t].tiers = {} /\ r.ticket[t].tiers = {} /\ r.ticket[t].status = "active"
    BY <1>1, NoTicketFields DEF NewTicket
  <2>2. \A p \in Places : \A t \in g.room.winners[p] : t \notin T
    BY <1>3, <2>1 DEF Seats
  <2>3. \A t \in Tickets : r.ticket[t].tiers = g.ticket[t].tiers
    BY <1>1, <2>1
  <2>4. \A t \in Tickets : r.ticket[t].status = "won" <=> r.ticket[t].tiers # {}
    BY <1>1, <1>3, <2>1 DEF Seats
  <2>5. \A t \in Tickets : \A p \in r.ticket[t].tiers : p \in r.room.settled /\ r.room.winners[p] = {t} /\ r.ticket[t].tiers = {p}
    BY <1>1, <1>3, <2>3 DEF Seats
  <2>6. \A p \in Places : \A t \in r.room.winners[p] : t \in Tickets
    BY <1>1, RowFields, RoomFields
  <2>7. \A p \in Places : \A t \in r.room.winners[p] : p \in r.ticket[t].tiers
    BY <1>1, <1>3, <2>3, <2>6 DEF Seats
  <2>8. \A p \in Places : \A t \in r.room.winners[p] : r.ticket[t].user = g.ticket[t].user
    BY <1>1, <2>2, <2>6
  <2>9. \A p, q \in Places : \A t \in r.room.winners[p] : \A v \in r.room.winners[q] :
          p # q /\ r.ticket[t].user \in Bots => r.ticket[v].user # r.ticket[t].user
    BY <1>1, <1>3, <2>8 DEF Seats
  <2> QED BY <2>4, <2>5, <2>7, <2>9 DEF Seats
<1> QED BY <1>1, <1>2, <1>3 DEF Going, MoneyRight

LEMMA BoughtCards ==
  ASSUME NEW g \in AllRows, NEW cd, NEW r, NEW ce, NEW T, NEW u, Bought(g, cd, r, ce, T, u), HandedOut(g.ticket, cd), Going(g)
  PROVE  HandedOut(r.ticket, ce)
<1>1. /\ r \in AllRows /\ T \in SUBSET Tickets /\ ce \in CardRows
      /\ \A t \in Tickets \ T : r.ticket[t] = g.ticket[t]
      /\ \A t \in T : g.ticket[t] = NoTicket /\ NewTicket(r.ticket[t], u) /\ ce[r.ticket[t].card] = t
      /\ \A k \in Cards : ce[k] = cd[k] \/ (ce[k] \in T /\ r.ticket[ce[k]].card = k)
      /\ \A k \in Cards : cd[k] # 0 => ce[k] = cd[k]
  BY DEF Bought
<1>2. 0 \notin Tickets /\ 0 \notin Cards
  BY SettlementAssumption
<1>3. ASSUME NEW t \in Tickets, r.ticket[t].status \in {"active", "won", "disqualified"} PROVE ce[r.ticket[t].card] = t
  <2>1. CASE t \in T
    BY <1>1, <2>1
  <2>2. CASE t \notin T
    <3>1. r.ticket[t] = g.ticket[t]
      BY <1>1, <2>2
    <3>2. cd[g.ticket[t].card] = t
      BY <1>3, <3>1 DEF HandedOut
    <3>3. g.ticket[t].card \in Cards
      BY <1>3, <3>1 DEF Going, Waits
    <3> QED BY <1>1, <1>2, <3>1, <3>2, <3>3
  <2> QED BY <2>1, <2>2
<1>4. ASSUME NEW k \in Cards, ce[k] # 0 PROVE r.ticket[ce[k]].card = k
  <2>1. CASE ce[k] = cd[k]
    <3>1. g.ticket[cd[k]].card = k
      BY <1>4, <2>1 DEF HandedOut
    <3>2. cd[k] \in Tickets
      BY <1>1, <1>4, <2>1 DEF CardRows
    <3>3. cd[k] \notin T
      BY <1>1, <1>2, <3>1, NoTicketFields
    <3> QED BY <1>1, <2>1, <3>1, <3>2, <3>3
  <2>2. CASE ce[k] \in T /\ r.ticket[ce[k]].card = k
    BY <2>2
  <2> QED BY <1>1, <2>1, <2>2
<1> QED BY <1>3, <1>4 DEF HandedOut

LEMMA BoughtHands ==
  ASSUME NEW g \in AllRows, NEW cd, NEW r, NEW ce, NEW T, NEW u, Bought(g, cd, r, ce, T, u)
  PROVE  /\ Cardinality(InHand(r.ticket)) = Cardinality(InHand(g.ticket)) + Cardinality(T)
         /\ Cardinality(HandOf(r.ticket, u)) = Cardinality(HandOf(g.ticket, u)) + Cardinality(T)
         /\ \A v : v # u => HandOf(r.ticket, v) = HandOf(g.ticket, v)
<1>1. /\ T \in SUBSET Tickets
      /\ \A t \in Tickets \ T : r.ticket[t] = g.ticket[t]
      /\ \A t \in T : g.ticket[t].status = "none" /\ r.ticket[t].status = "active" /\ r.ticket[t].user = u
  BY NoTicketFields DEF Bought, NewTicket
<1>2. InHand(r.ticket) = InHand(g.ticket) \cup T /\ InHand(g.ticket) \cap T = {} /\ InHand(g.ticket) \in SUBSET Tickets
  BY <1>1 DEF InHand
<1>3. HandOf(r.ticket, u) = HandOf(g.ticket, u) \cup T /\ HandOf(g.ticket, u) \cap T = {} /\ HandOf(g.ticket, u) \in SUBSET Tickets
  BY <1>1, <1>2 DEF HandOf
<1>4. \A v : v # u => HandOf(r.ticket, v) = HandOf(g.ticket, v)
  BY <1>1, <1>2 DEF HandOf
<1>5. \A S \in SUBSET Tickets : IsFiniteSet(S) /\ Cardinality(S) \in Nat
  BY SettlementAssumption, FS_Subset, FS_CardinalityType
<1>6. ASSUME NEW S \in SUBSET Tickets, S \cap T = {} PROVE Cardinality(S \cup T) = Cardinality(S) + Cardinality(T)
  <2>1. IsFiniteSet(S) /\ IsFiniteSet(T) /\ Cardinality(S) \in Nat /\ Cardinality(T) \in Nat /\ Cardinality({}) = 0
    BY <1>1, <1>5, FS_EmptySet
  <2>2. Cardinality(S \cup T) = Cardinality(S) + Cardinality(T) - Cardinality(S \cap T)
    BY <2>1, FS_Union
  <2>3. Cardinality(S \cap T) = 0
    BY <1>6, <2>1
  <2> QED BY <2>1, <2>2, <2>3
<1> QED BY <1>2, <1>3, <1>4, <1>6

\* purchaseTickets: what a purchase of n tickets with a fresh snapshot may count on.
Fresh(g, n, u) == \E c \in Configs : c.cap > 0 => Cardinality(HandOf(g.ticket, u)) + n <= c.cap
LEMMA BoughtRight ==
  ASSUME NEW g, NEW cd, NEW r, NEW ce, NEW T, NEW u, Bought(g, cd, r, ce, T, u), NEW dr \in BOOLEAN, NEW dr2 \in BOOLEAN, dr => dr2,
         Right(g, cd, dr), g.room.status = "open",
         dr2 \/ (r.room.sold = g.room.sold + Cardinality(T) /\ Fresh(g, Cardinality(T), u))
  PROVE  Right(r, ce, dr2)
<1>1. g \in AllRows /\ Going(g) /\ (g.mode = "leaderboard" => g.room.settled = {})
  BY DEF Right, RoomInv
<1>2. r \in AllRows /\ r.room.status = "open" /\ r.mode = g.mode /\ r.room.settled = g.room.settled /\ ce \in CardRows
  BY DEF Bought
<1>3. RoomInv(r)
  BY <1>1, <1>2, BoughtGoes DEF RoomInv
<1>4. HandedOut(r.ticket, ce)
  BY <1>1, BoughtCards DEF Right, Sales
<1>5. ASSUME ~dr2 PROVE r.room.sold = Cardinality(InHand(r.ticket)) /\ Capped(r.ticket)
  <2>1. g.room.sold = Cardinality(InHand(g.ticket)) /\ Capped(g.ticket)
    BY <1>5 DEF Right, Sales
  <2>2. /\ Cardinality(InHand(r.ticket)) = Cardinality(InHand(g.ticket)) + Cardinality(T)
        /\ Cardinality(HandOf(r.ticket, u)) = Cardinality(HandOf(g.ticket, u)) + Cardinality(T)
        /\ \A v : v # u => HandOf(r.ticket, v) = HandOf(g.ticket, v)
    BY <1>1, BoughtHands
  <2>3. ASSUME NEW v \in Users PROVE \E c \in Configs : c.cap = 0 \/ Cardinality(HandOf(r.ticket, v)) <= c.cap
    <3>1. CASE v # u
      BY <2>1, <2>2, <3>1 DEF Capped
    <3>2. CASE v = u
      <4>1. PICK c \in Configs : c.cap > 0 => Cardinality(HandOf(g.ticket, u)) + Cardinality(T) <= c.cap
        BY <1>5 DEF Fresh
      <4>2. c.cap \in Nat
        BY BingoAssumption DEF AllConfigs
      <4> QED BY <2>2, <3>2, <4>1, <4>2
    <3> QED BY <3>1, <3>2
  <2> QED BY <1>5, <2>1, <2>2, <2>3 DEF Capped
<1> QED BY <1>2, <1>3, <1>4, <1>5 DEF Right, Sales

-----------------------------------------------------------------------------
(* A release, and a change of the automatic claims.                         *)

\* The ticket t is handed back: its stake too, one card less is sold.
Released(g, h, t) ==
  \E k \in AllRows :
    /\ Refunded(g, k, {t}, "cartela")
    /\ h \in AllRows /\ h.ticket = k.ticket /\ h.credit = k.credit /\ h.mode = k.mode
    /\ h.room.status = k.room.status /\ h.room.settled = k.room.settled /\ h.room.winners = k.room.winners
    /\ h.room.sold = IF k.room.sold > 0 THEN k.room.sold - 1 ELSE 0

LEMMA ReleasedGoes ==
  ASSUME NEW g \in AllRows, NEW t \in Tickets, NEW h, Released(g, h, t), Going(g), IsPrefilled(g.mode), g.ticket[t].status = "active"
  PROVE  /\ h \in AllRows /\ Going(h) /\ h.mode = g.mode /\ h.room.status = g.room.status /\ h.room.settled = g.room.settled
         /\ h.room.sold = IF g.room.sold > 0 THEN g.room.sold - 1 ELSE 0
         /\ h.ticket[t].status = "cancelled" /\ \A u \in Tickets : u # t => h.ticket[u] = g.ticket[u]
         /\ h.ticket[t].card = g.ticket[t].card
<1>1. PICK k \in AllRows :
        /\ Refunded(g, k, {t}, "cartela")
        /\ h \in AllRows /\ h.ticket = k.ticket /\ h.credit = k.credit /\ h.mode = k.mode
        /\ h.room.status = k.room.status /\ h.room.settled = k.room.settled /\ h.room.winners = k.room.winners
        /\ h.room.sold = IF k.room.sold > 0 THEN k.room.sold - 1 ELSE 0
  BY DEF Released
<1>2. PICK why \in {"refund", "noresult", "cartela"} : why = "cartela"
  OBVIOUS
<1>3. PICK S \in SUBSET Tickets : S = {t}
  OBVIOUS
<1>4. Refunded(g, k, S, why) /\ MoneyRight(g)
  BY <1>1, <1>2, <1>3 DEF Going
<1>5. \A u \in S : g.ticket[u].status # "cancelled" /\ (g.ticket[u].status = "won" => g.mode = "pattern")
  BY <1>3
<1>6. /\ k.room = g.room /\ k.mode = g.mode /\ MoneyRight(k)
      /\ \A u \in Tickets : k.ticket[u].status = IF u \in S THEN "cancelled" ELSE g.ticket[u].status
      /\ IsPrefilled(g.mode) /\ Seats(g) => Seats(k)
  BY <1>4, <1>5, RefundedRight
<1>7. Seats(k)
  BY <1>6 DEF Going
<1>8. MoneyRight(h)
  BY <1>1, <1>6 DEF MoneyRight
<1>9. Seats(h)
  BY <1>1, <1>7 DEF Seats
<1>10. RowEnds(g.ticket[t], k.ticket[t], "cancelled") /\ Adds(g.credit[t], k.credit[t], <<"cartela", 0>>, g.ticket[t].stake)
  BY <1>1 DEF Refunded
<1>11. \A u \in Tickets : u # t => k.ticket[u] = g.ticket[u] /\ k.credit[u] = g.credit[u]
  BY <1>1 DEF Refunded
<1>12. Waits(k.ticket[t], k.credit[t], g.room.settled, g.mode)
  <2>1. PICK row, new, x, y : row = g.ticket[t] /\ new = k.ticket[t] /\ x = g.credit[t] /\ y = k.credit[t]
    OBVIOUS
  <2>2. Waits(row, x, g.room.settled, g.mode)
    BY <2>1 DEF Going
  <2>3. new.status = "cancelled" /\ new.pending = FALSE /\ new.card = row.card /\ row.status = "active"
    BY <1>10, <2>1 DEF RowEnds, SameOwner
  <2>4. \A p \in Places : y[<<"settlement", p>>] = x[<<"settlement", p>>] /\ y[<<"reconcile", p>>] = x[<<"reconcile", p>>]
    <3> SUFFICES ASSUME NEW p \in Places PROVE y[<<"settlement", p>>] = x[<<"settlement", p>>] /\ y[<<"reconcile", p>>] = x[<<"reconcile", p>>]
      OBVIOUS
    <3>1. \A key \in CreditKeys : key # <<"cartela", 0>> => y[key] = x[key]
      BY <1>10, <2>1 DEF Adds
    <3>2. <<"settlement", p>> \in CreditKeys /\ <<"reconcile", p>> \in CreditKeys
      BY SettlementKey
    <3>3. <<"settlement", p>> # <<"cartela", 0>> /\ <<"reconcile", p>> # <<"cartela", 0>>
      OBVIOUS
    <3> QED BY <3>1, <3>2, <3>3
  <2>5. Waits(new, y, g.room.settled, g.mode)
    BY <2>2, <2>3, <2>4 DEF Waits, IsPrefilled
  <2> QED BY <2>1, <2>5
<1>13. \A u \in Tickets : Waits(h.ticket[u], h.credit[u], h.room.settled, h.mode)
  BY <1>1, <1>6, <1>11, <1>12 DEF Going
<1>14. Going(h)
  BY <1>8, <1>9, <1>13 DEF Going
<1>15. k.ticket[t].card = g.ticket[t].card
  BY <1>10 DEF RowEnds, SameOwner
<1> QED BY <1>1, <1>3, <1>6, <1>11, <1>14, <1>15

\* The card of t is free again.
HandedBack(g, cd, t, h, ce) ==
  /\ Released(g, h, t) /\ IsPrefilled(g.mode) /\ g.room.status = "open" /\ g.ticket[t].status = "active"
  /\ ce = [cd EXCEPT ![g.ticket[t].card] = 0]

LEMMA ReleasedRight ==
  ASSUME NEW g, NEW cd, NEW dr, Right(g, cd, dr), NEW t \in Tickets, NEW h, NEW ce, HandedBack(g, cd, t, h, ce)
  PROVE  Going(h) /\ h.room.status = "open" /\ Right(h, ce, dr)
<1>0. Released(g, h, t) /\ IsPrefilled(g.mode) /\ g.room.status = "open" /\ g.ticket[t].status = "active"
  BY DEF HandedBack
<1>1. /\ g \in AllRows /\ Going(g) /\ (g.mode = "leaderboard" => g.room.settled = {}) /\ cd \in CardRows
      /\ HandedOut(g.ticket, cd) /\ (dr \/ (g.room.sold = Cardinality(InHand(g.ticket)) /\ Capped(g.ticket)))
  BY <1>0 DEF Right, RoomInv, Sales
<1>2. /\ h \in AllRows /\ Going(h) /\ h.mode = g.mode /\ h.room.status = "open" /\ h.room.settled = g.room.settled
      /\ h.room.sold = IF g.room.sold > 0 THEN g.room.sold - 1 ELSE 0
      /\ h.ticket[t].status = "cancelled" /\ \A u \in Tickets : u # t => h.ticket[u] = g.ticket[u]
      /\ h.ticket[t].card = g.ticket[t].card
  BY <1>0, <1>1, ReleasedGoes
<1>3. PICK k \in Cards : k = g.ticket[t].card
  BY <1>0, <1>1 DEF Going, Waits
<1>4. ce = [cd EXCEPT ![k] = 0]
  BY <1>3 DEF HandedBack
<1>5. ce \in CardRows /\ ce[k] = 0 /\ \A j \in Cards : j # k => ce[j] = cd[j]
  BY <1>1, <1>4 DEF CardRows
<1>6. \A u \in Tickets : g.ticket[u].status \in {"active", "won", "disqualified"} => g.ticket[u].card \in Cards /\ cd[g.ticket[u].card] = u
  BY <1>1 DEF HandedOut, Going, Waits
<1>7. HandedOut(h.ticket, ce)
  <2>1. ASSUME NEW u \in Tickets, h.ticket[u].status \in {"active", "won", "disqualified"} PROVE ce[h.ticket[u].card] = u
    <3>1. u # t /\ h.ticket[u] = g.ticket[u]
      BY <1>2, <2>1
    <3>2. g.ticket[u].card \in Cards /\ cd[g.ticket[u].card] = u /\ cd[k] = t
      BY <1>0, <1>3, <1>6, <2>1, <3>1
    <3> QED BY <1>5, <3>1, <3>2
  <2>2. ASSUME NEW j \in Cards, ce[j] # 0 PROVE h.ticket[ce[j]].card = j
    <3>1. ce[j] = cd[j] /\ cd[j] \in Tickets
      BY <1>1, <1>5, <2>2 DEF CardRows
    <3>2. g.ticket[cd[j]].card = j
      BY <1>1, <2>2, <3>1 DEF HandedOut
    <3> QED BY <1>2, <3>1, <3>2
  <2> QED BY <2>1, <2>2 DEF HandedOut
<1>8. InHand(h.ticket) = InHand(g.ticket) \ {t} /\ t \in InHand(g.ticket)
  BY <1>0, <1>2 DEF InHand
<1>9. \A S \in SUBSET Tickets : IsFiniteSet(S) /\ Cardinality(S) \in Nat
  BY SettlementAssumption, FS_Subset, FS_CardinalityType
<1>10. ASSUME ~dr PROVE h.room.sold = Cardinality(InHand(h.ticket)) /\ Capped(h.ticket)
  <2>1. InHand(g.ticket) \in SUBSET Tickets
    BY DEF InHand
  <2>2. Cardinality(InHand(h.ticket)) = Cardinality(InHand(g.ticket)) - 1
    BY <1>8, <1>9, <2>1, FS_RemoveElement
  <2>3. Cardinality(InHand(h.ticket)) \in Nat /\ Cardinality(InHand(g.ticket)) \in Nat
    BY <1>8, <1>9, <2>1
  <2>4. h.room.sold = Cardinality(InHand(h.ticket))
    BY <1>1, <1>2, <1>10, <2>2, <2>3
  <2>5. ASSUME NEW v \in Users PROVE \E c \in Configs : c.cap = 0 \/ Cardinality(HandOf(h.ticket, v)) <= c.cap
    <3>1. HandOf(h.ticket, v) \subseteq HandOf(g.ticket, v) /\ HandOf(g.ticket, v) \in SUBSET Tickets
      BY <1>2, <1>8 DEF HandOf, InHand
    <3>2. Cardinality(HandOf(h.ticket, v)) <= Cardinality(HandOf(g.ticket, v))
      BY <1>9, <3>1, FS_Subset
    <3>3. Cardinality(HandOf(h.ticket, v)) \in Nat /\ Cardinality(HandOf(g.ticket, v)) \in Nat
      BY <1>9, <3>1
    <3>4. PICK c \in Configs : c.cap = 0 \/ Cardinality(HandOf(g.ticket, v)) <= c.cap
      BY <1>1, <1>10 DEF Capped
    <3>5. c.cap \in Nat
      BY BingoAssumption DEF AllConfigs
    <3> QED BY <3>2, <3>3, <3>4, <3>5
  <2> QED BY <2>4, <2>5 DEF Capped
<1>11. Sales(h, ce, dr)
  BY <1>7, <1>10 DEF Sales
<1>12. RoomInv(h)
  BY <1>1, <1>2 DEF RoomInv
<1> QED BY <1>2, <1>3, <1>4, <1>5, <1>11, <1>12 DEF Right

\* Tickets that differ in their automatic claims only.
Alike(x, y) ==
  /\ y.status = x.status /\ y.pending = x.pending /\ y.user = x.user /\ y.card = x.card /\ y.tiers = x.tiers
  /\ y.payout = x.payout /\ y.stake = x.stake
AlikeRows(g, r) ==
  r \in AllRows /\ r.room = g.room /\ r.mode = g.mode /\ r.credit = g.credit /\ \A t \in Tickets : Alike(g.ticket[t], r.ticket[t])

LEMMA AlikeRight ==
  ASSUME NEW g, NEW r, NEW cd, NEW dr, Right(g, cd, dr), AlikeRows(g, r)
  PROVE  Right(r, cd, dr)
<1>1. g \in AllRows /\ r \in AllRows /\ r.room = g.room /\ r.mode = g.mode /\ r.credit = g.credit /\ cd \in CardRows
  BY DEF Right, AlikeRows
<1>2. \A t \in Tickets : Alike(g.ticket[t], r.ticket[t])
  BY DEF AlikeRows
<1>3. ASSUME MoneyRight(g) PROVE MoneyRight(r)
  BY <1>1, <1>2, <1>3 DEF MoneyRight, Money, Alike
<1>4. \A t \in Tickets : \A x, S, m : Waits(g.ticket[t], x, S, m) => Waits(r.ticket[t], x, S, m)
  BY <1>2 DEF Waits, Alike
<1>5. ASSUME Seats(g) PROVE Seats(r)
  <2>1. \A t \in Tickets : /\ r.ticket[t].status = "won" <=> g.ticket[t].status = "won"
                           /\ r.ticket[t].tiers = g.ticket[t].tiers /\ r.ticket[t].user = g.ticket[t].user
    BY <1>2 DEF Alike
  <2>2. r.room.settled = g.room.settled /\ r.room.winners = g.room.winners
    BY <1>1
  <2> QED BY <1>1, <1>5, <2>1, <2>2, SeatsSame
<1>6. Going(g) => Going(r)
  BY <1>1, <1>3, <1>4, <1>5 DEF Going
<1>7. Ended(g) => Ended(r)
  BY <1>1, <1>2, <1>3, <1>5 DEF Ended, Alike
<1>8. RoomInv(r)
  BY <1>1, <1>6, <1>7 DEF Right, RoomInv
<1>9. InHand(r.ticket) = InHand(g.ticket)
  BY <1>2 DEF InHand, Alike
<1>10. \A u : HandOf(r.ticket, u) = HandOf(g.ticket, u)
  BY <1>2, <1>9 DEF HandOf, InHand, Alike
<1>11. Capped(g.ticket) => Capped(r.ticket)
  BY <1>10 DEF Capped
<1>12. \A k \in Cards : cd[k] # 0 => cd[k] \in Tickets
  BY <1>1 DEF CardRows
<1>13. HandedOut(g.ticket, cd) => HandedOut(r.ticket, cd)
  BY <1>2, <1>12 DEF HandedOut, Alike
<1>14. Sales(r, cd, dr)
  BY <1>1, <1>9, <1>11, <1>13 DEF Right, Sales
<1> QED BY <1>1, <1>8, <1>14 DEF Right

-----------------------------------------------------------------------------
(* The steps of a room.                                                     *)

CallRecords ==
  {Idle} \cup [op : {"purchase"}, u : Users, n : 1..Cardinality(Cards), sold : Nat, owned : Nat]
    \cup [op : {"draw"}, cfg : AllConfigs] \cup [op : {"claim"}, t : Tickets, cfg : AllConfigs]
    \cup [op : {"commission"}, todo : SUBSET Agents] \cup [op : {"edit"}, row : RoomRows]

LEMMA CallFields ==
  ASSUME NEW c \in CallRecords
  PROVE  /\ c.op = "purchase" => c.u \in Users /\ c.n \in 1..Cardinality(Cards) /\ c.sold \in Nat /\ c.owned \in Nat
         /\ c.op \in {"draw", "claim"} => c.cfg \in AllConfigs
         /\ c.op = "claim" => c.t \in Tickets
         /\ c.op = "commission" => c.todo \in SUBSET Agents
         /\ c.op = "edit" => c.row \in RoomRows
BY DEF CallRecords, Idle

Typed == call \in [Sessions -> CallRecords] /\ cfg \in Configs /\ drifted \in BOOLEAN

LEMMA RowsAre ==
  ASSUME NEW g, g = Rows
  PROVE  g.room = room /\ g.ticket = ticket /\ g.credit = credit /\ g.deal = deal /\ g.mode = mode /\ g.refused = FALSE
BY DEF Rows

LEMMA RowsTyped ==
  ASSUME NEW g, g = Rows
  PROVE  g \in AllRows <=> /\ room \in RoomRows /\ ticket \in [Tickets -> TicketRows] /\ credit \in [Tickets -> Credits]
                           /\ deal \in AllDeals /\ mode \in Modes
BY DEF Rows, AllRows

LEMMA NextRowsAre ==
  ASSUME NEW r, r = Rows'
  PROVE  /\ r.room = room' /\ r.ticket = ticket' /\ r.credit = credit' /\ r.deal = deal' /\ r.mode = mode'
         /\ room' \in RoomRows /\ ticket' \in [Tickets -> TicketRows] /\ credit' \in [Tickets -> Credits]
            /\ deal' \in AllDeals /\ mode' \in Modes => r \in AllRows
BY DEF Rows, AllRows

\* A transaction commits the rows h, or leaves everything as it was.
LEMMA Committed ==
  ASSUME NEW g \in AllRows, g = Rows, NEW h \in AllRows, h.mode = g.mode, NEW cards, Commit(h, cards), UNCHANGED <<deal, mode>>, NEW r, r = Rows'
  PROVE  IF h.refused THEN r = g /\ card' = card ELSE SameState(h, r) /\ card' = cards
<1>1. r.room = room' /\ r.ticket = ticket' /\ r.credit = credit' /\ r.deal = deal /\ r.mode = mode
  BY NextRowsAre
<1>2. g.mode = mode /\ deal \in AllDeals /\ mode \in Modes
  BY RowsAre, RowsTyped
<1>3. CASE h.refused
  BY <1>3 DEF Commit, Rows
<1>4. CASE ~h.refused
  <2>1. room' = h.room /\ ticket' = h.ticket /\ card' = cards /\ credit' = h.credit
    BY <1>4 DEF Commit
  <2>2. h.room \in RoomRows /\ h.ticket \in [Tickets -> TicketRows] /\ h.credit \in [Tickets -> Credits]
    BY RowFields
  <2>3. r \in AllRows
    BY <1>2, <2>1, <2>2, NextRowsAre
  <2> QED BY <1>1, <1>2, <1>4, <2>1, <2>3 DEF SameState
<1> QED BY <1>3, <1>4

LEMMA AllFreeRows == AllFree \in CardRows
BY DEF AllFree, CardRows

\* A transaction of a room that is not over, with an outcome.
LEMMA CommittedOutcome ==
  ASSUME NEW g, g = Rows, NEW cd, cd = card, NEW dr, Right(g, cd, dr), g.room.status \notin {"completed", "cancelled"},
         NEW h, Outcome(g, h), NEW cards \in CardRows, cards = cd \/ h.room.status \in {"completed", "cancelled"},
         Commit(h, cards), UNCHANGED <<deal, mode>>, NEW r, r = Rows'
  PROVE  Right(r, card', dr)
<1>1. g \in AllRows /\ h \in AllRows /\ h.mode = g.mode
  BY DEF Right, Outcome
<1>2. IF h.refused THEN r = g /\ card' = cd ELSE SameState(h, r) /\ card' = cards
  BY <1>1, Committed
<1>3. CASE h.refused
  BY <1>2, <1>3
<1>4. CASE ~h.refused /\ cards = cd
  BY <1>2, <1>4, OutcomeRight
<1>5. CASE ~h.refused /\ h.room.status \in {"completed", "cancelled"}
  <2>1. SameState(h, r) /\ card' = cards
    BY <1>2, <1>5
  <2>2. RoomInv(r)
    BY <2>1, SameInv DEF Outcome
  <2>3. r \in AllRows /\ r.room.status \in {"completed", "cancelled"}
    BY <1>5, <2>1 DEF SameState
  <2>4. Right(r, cards, dr)
    BY <2>2, <2>3, OverRight
  <2> QED BY <2>1, <2>4
<1> QED BY <1>3, <1>4, <1>5

LEMMA CancelRight ==
  ASSUME NEW g, g = Rows, NEW cd, cd = card, NEW dr, Right(g, cd, dr), CancelRoom, NEW r, r = Rows'
  PROVE  Right(r, card', dr)
<1>1. PICK h : h = Cancelled(g)
  OBVIOUS
<1>2. Commit(h, AllFree) /\ UNCHANGED <<deal, mode>> /\ g.room.status \notin {"completed", "cancelled"}
  BY <1>1 DEF CancelRoom, Over, Settings
<1>3. g \in AllRows /\ Going(g)
  BY <1>2 DEF Right, RoomInv
<1>4. h.room.status = "cancelled" /\ Outcome(g, h)
  BY <1>1, <1>3, CancelledOutcome
<1>5. PICK free \in CardRows : free = AllFree
  BY AllFreeRows
<1>6. Commit(h, free) /\ h.room.status \in {"completed", "cancelled"}
  BY <1>2, <1>4, <1>5
<1> QED BY <1>2, <1>4, <1>6, CommittedOutcome

LEMMA DrawRight ==
  ASSUME Typed, NEW g, g = Rows, NEW cd, cd = card, NEW dr, Right(g, cd, dr), NEW s \in Sessions, DrawNextNumber(s), NEW r, r = Rows'
  PROVE  Right(r, card', dr)
<1>1. PICK e \in CallRecords : e = call[s]
  BY DEF Typed
<1>2. PICK c \in AllConfigs : c = e.cfg
  BY <1>1, CallFields DEF DrawNextNumber
<1>3. PICK h \in DrawOutcomes(c) : Commit(h, IF ~Over(Rows) /\ Live(Rows) # {} /\ Unplayed THEN AllFree ELSE card)
  BY <1>1, <1>2 DEF DrawNextNumber
<1>4. UNCHANGED <<deal, mode>>
  BY DEF DrawNextNumber, Settings
<1>5. g \in AllRows /\ RoomInv(g) /\ cd \in CardRows
  BY DEF Right
<1>6. IF g.room.status \in {"completed", "cancelled"} THEN h = g ELSE Outcome(g, h)
  BY <1>5, DrawOutcome
<1>7. CASE g.room.status \in {"completed", "cancelled"}
  <2>1. Commit(g, card)
    BY <1>3, <1>6, <1>7 DEF Over
  <2>2. IF g.refused THEN r = g /\ card' = card ELSE SameState(g, r) /\ card' = card
    BY <1>4, <1>5, <2>1, Committed
  <2>3. g.refused = FALSE
    BY RowsAre
  <2> QED BY <2>2, <2>3, SameRight
<1>8. CASE g.room.status \notin {"completed", "cancelled"} /\ ~(Live(Rows) # {} /\ Unplayed)
  <2>1. Commit(h, cd)
    BY <1>3, <1>8
  <2> QED BY <1>4, <1>5, <1>6, <1>8, <2>1, CommittedOutcome
<1>9. CASE g.room.status \notin {"completed", "cancelled"} /\ Live(Rows) # {} /\ Unplayed
  <2>1. Commit(h, AllFree)
    BY <1>3, <1>9 DEF Over
  <2>2. h = Cancelled(g)
    BY <1>9 DEF DrawOutcomes, Over
  <2>3. Going(g)
    BY <1>5, <1>9 DEF RoomInv
  <2>4. h.room.status = "cancelled" /\ Outcome(g, h)
    BY <1>5, <2>2, <2>3, CancelledOutcome
  <2>5. PICK free \in CardRows : free = AllFree
    BY AllFreeRows
  <2>6. Commit(h, free) /\ h.room.status \in {"completed", "cancelled"}
    BY <2>1, <2>4, <2>5
  <2> QED BY <1>4, <1>9, <2>4, <2>6, CommittedOutcome
<1> QED BY <1>7, <1>8, <1>9

LEMMA ClaimRight ==
  ASSUME Typed, NEW g, g = Rows, NEW cd, cd = card, NEW dr, Right(g, cd, dr), NEW s \in Sessions, ClaimBingo(s), NEW r, r = Rows'
  PROVE  Right(r, card', dr)
<1>1. PICK e \in CallRecords : e = call[s]
  BY DEF Typed
<1>2. PICK c \in AllConfigs : c = e.cfg
  BY <1>1, CallFields DEF ClaimBingo
<1>3. PICK t \in Tickets : t = e.t
  BY <1>1, CallFields DEF ClaimBingo
<1>4. PICK h \in ClaimOutcomes(t, c) : Commit(h, cd)
  BY <1>1, <1>2, <1>3 DEF ClaimBingo
<1>5. UNCHANGED <<deal, mode>> /\ IsPrefilled(g.mode) /\ g.room.status = "running"
  BY RowsAre DEF ClaimBingo, Settings, Prefilled, IsPrefilled
<1>6. g \in AllRows /\ RoomInv(g) /\ cd \in CardRows
  BY DEF Right
<1>7. Outcome(g, h)
  BY <1>5, <1>6, ClaimOutcome
<1> QED BY <1>4, <1>5, <1>6, <1>7, CommittedOutcome

LEMMA ReleaseEffect ==
  ASSUME NEW g \in AllRows, NEW t \in Tickets, NEW h,
         h = [Refund(g, {t}, "cartela") EXCEPT !.room.sold = IF @ > 0 THEN @ - 1 ELSE 0]
  PROVE  Released(g, h, t)
<1>1. PICK S \in SUBSET Tickets : S = {t}
  OBVIOUS
<1>2. PICK why \in {"refund", "noresult", "cartela"} : why = "cartela"
  OBVIOUS
<1>3. PICK k : k = Refund(g, S, why)
  OBVIOUS
<1>4. Refunded(g, k, S, why)
  BY <1>3, RefundEffect
<1>5. k \in AllRows
  BY <1>4 DEF Refunded
<1>6. PICK m : m = k.room
  OBVIOUS
<1>7. m \in RoomRows /\ m.sold \in Nat
  BY <1>5, <1>6, RowFields, RoomFields
<1>8. PICK n \in Nat : n = IF m.sold > 0 THEN m.sold - 1 ELSE 0
  BY <1>7
<1>9. PICK new : new = [m EXCEPT !.sold = n]
  OBVIOUS
<1>10. /\ new \in RoomRows /\ new.sold = n /\ new.status = m.status /\ new.settled = m.settled /\ new.winners = m.winners
  BY <1>7, <1>9 DEF RoomRows
<1>11. h = [k EXCEPT !.room = new]
  <2>1. h = [k EXCEPT !.room.sold = IF @ > 0 THEN @ - 1 ELSE 0]
    BY <1>1, <1>2, <1>3
  <2> QED BY <1>5, <1>6, <1>8, <1>9, <2>1 DEF AllRows
<1>12. h \in AllRows /\ h.ticket = k.ticket /\ h.credit = k.credit /\ h.mode = k.mode /\ h.room = new
  BY <1>5, <1>10, <1>11 DEF AllRows
<1> QED BY <1>1, <1>2, <1>4, <1>5, <1>6, <1>8, <1>10, <1>12 DEF Released

LEMMA ReleaseRight ==
  ASSUME NEW g, g = Rows, NEW cd, cd = card, NEW dr, Right(g, cd, dr), NEW t \in Tickets, ReleaseCartela(t), NEW r, r = Rows'
  PROVE  Right(r, card', dr)
<1>1. PICK h : h = [Refund(g, {t}, "cartela") EXCEPT !.room.sold = IF @ > 0 THEN @ - 1 ELSE 0]
  OBVIOUS
<1>2. /\ IsPrefilled(g.mode) /\ g.room.status = "open" /\ g.ticket[t].status = "active" /\ UNCHANGED <<deal, mode>>
      /\ IF RealPlayers(h) = {} THEN Commit(Cancelled(h), AllFree) ELSE Commit(h, [cd EXCEPT ![g.ticket[t].card] = 0])
  BY <1>1, RowsAre DEF ReleaseCartela, Prefilled, IsPrefilled, Settings
<1>3. g \in AllRows /\ Going(g) /\ cd \in CardRows
  BY <1>2 DEF Right, RoomInv
<1>4. Released(g, h, t)
  BY <1>1, <1>3, ReleaseEffect
<1>5. PICK ce : ce = [cd EXCEPT ![g.ticket[t].card] = 0]
  OBVIOUS
<1>10. IsPrefilled(g.mode) /\ g.room.status = "open" /\ g.ticket[t].status = "active"
  BY <1>2
<1>6. Going(h) /\ h.room.status = "open" /\ Right(h, ce, dr)
  <2>1. HandedBack(g, cd, t, h, ce)
    BY <1>4, <1>5, <1>10 DEF HandedBack
  <2> QED BY <2>1, ReleasedRight
<1>7. h \in AllRows /\ h.mode = g.mode
  BY <1>2, <1>3, <1>4, ReleasedGoes
<1>8. CASE RealPlayers(h) = {}
  <2>1. PICK q : q = Cancelled(h)
    OBVIOUS
  <2>2. q \in AllRows /\ q.room.status = "cancelled" /\ Outcome(h, q)
    BY <1>6, <1>7, <2>1, CancelledOutcome
  <2>3. q.mode = g.mode /\ RoomInv(q)
    BY <1>7, <2>2 DEF Outcome
  <2>4. PICK free \in CardRows : free = AllFree
    BY AllFreeRows
  <2>5. Commit(q, free)
    BY <1>2, <1>8, <2>1, <2>4
  <2>6. IF q.refused THEN r = g /\ card' = card ELSE SameState(q, r) /\ card' = free
    BY <1>2, <1>3, <2>2, <2>3, <2>5, Committed
  <2>7. ASSUME SameState(q, r), card' = free PROVE Right(r, card', dr)
    <3>1. RoomInv(r)
      BY <2>3, <2>7, SameInv
    <3>2. r \in AllRows /\ r.room.status \in {"completed", "cancelled"}
      BY <2>2, <2>7 DEF SameState
    <3>3. Right(r, free, dr)
      BY <3>1, <3>2, OverRight
    <3> QED BY <2>7, <3>3
  <2> QED BY <2>6, <2>7
<1>9. CASE RealPlayers(h) # {}
  <2>1. Commit(h, ce)
    BY <1>2, <1>5, <1>9
  <2>2. IF h.refused THEN r = g /\ card' = card ELSE SameState(h, r) /\ card' = ce
    BY <1>2, <1>3, <1>7, <2>1, Committed
  <2>3. SameState(h, r) => Right(r, ce, dr)
    BY <1>6, SameRight
  <2> QED BY <2>2, <2>3
<1> QED BY <1>8, <1>9

LEMMA AutoRight ==
  ASSUME NEW g, g = Rows, NEW cd, cd = card, NEW dr, Right(g, cd, dr), NEW u, NEW auto \in BOOLEAN, SetAutoClaim(u, auto), NEW r, r = Rows'
  PROVE  Right(r, card', dr)
<1>1. g \in AllRows
  BY DEF Right
<1>2. /\ ticket' = [t \in Tickets |-> IF ticket[t].user = u /\ ticket[t].status = "active" THEN [ticket[t] EXCEPT !.auto = auto] ELSE ticket[t]]
      /\ room' = room /\ card' = card /\ credit' = credit /\ deal' = deal /\ mode' = mode
  BY DEF SetAutoClaim, Settings
<1>3. /\ room \in RoomRows /\ ticket \in [Tickets -> TicketRows] /\ credit \in [Tickets -> Credits] /\ deal \in AllDeals /\ mode \in Modes
  BY <1>1, RowsTyped
<1>4. ASSUME NEW t \in Tickets PROVE ticket'[t] \in TicketRows /\ Alike(ticket[t], ticket'[t])
  <2>1. PICK row \in TicketRows : row = ticket[t]
    BY <1>3
  <2>2. PICK new : new = [row EXCEPT !.auto = auto]
    OBVIOUS
  <2>3. new \in TicketRows /\ Alike(row, new) /\ Alike(row, row)
    BY <2>2 DEF TicketRows, Alike
  <2>4. ticket'[t] = new \/ ticket'[t] = row
    BY <1>2, <2>1, <2>2
  <2> QED BY <2>1, <2>3, <2>4
<1>5. ticket' \in [Tickets -> TicketRows]
  BY <1>2, <1>4
<1>6. r \in AllRows /\ r.room = room' /\ r.ticket = ticket' /\ r.credit = credit' /\ r.mode = mode'
  BY <1>2, <1>3, <1>5, NextRowsAre
<1>7. AlikeRows(g, r)
  BY <1>2, <1>4, <1>6, RowsAre DEF AlikeRows
<1> QED BY <1>2, <1>7, AlikeRight

\* A step that changes the room's row, in what its tickets do not depend on.
LEMMA RoomStepRight ==
  ASSUME NEW g, g = Rows, NEW cd, cd = card, NEW dr, Right(g, cd, dr), room' \in RoomRows,
         room'.status = room.status, room'.sold = room.sold, room'.settled = room.settled, room'.winners = room.winners,
         UNCHANGED <<ticket, card, credit, deal, mode>>, NEW r, r = Rows'
  PROVE  Right(r, card', dr)
<1>1. g \in AllRows
  BY DEF Right
<1>2. /\ ticket \in [Tickets -> TicketRows] /\ credit \in [Tickets -> Credits] /\ deal \in AllDeals /\ mode \in Modes
  BY <1>1, RowsTyped
<1>3. r \in AllRows /\ r.room = room' /\ r.ticket = ticket /\ r.credit = credit /\ r.mode = mode
  BY <1>2, NextRowsAre
<1>4. SameState(g, r)
  BY <1>3, RowsAre DEF SameState
<1> QED BY <1>4, SameRight

LEMMA TickRight ==
  ASSUME NEW g, g = Rows, NEW cd, cd = card, NEW dr, Right(g, cd, dr), Tick, NEW r, r = Rows'
  PROVE  Right(r, card', dr)
<1>1. room \in RoomRows
  BY RowsTyped DEF Right
<1>2. room.start \in {"counting", "locked", "due"} /\ room' = [room EXCEPT !.start = Later[@]] /\ UNCHANGED <<ticket, card, credit, deal, mode>>
  BY DEF Tick, Later, Settings
<1>3. PICK next \in {"locked", "due", "overdue"} : next = Later[room.start]
  BY <1>2 DEF Later
<1>4. room' = [room EXCEPT !.start = next]
  BY <1>2, <1>3
<1>5. /\ room' \in RoomRows /\ room'.status = room.status /\ room'.sold = room.sold /\ room'.settled = room.settled
      /\ room'.winners = room.winners
  BY <1>1, <1>4 DEF RoomRows
<1> QED BY <1>2, <1>5, RoomStepRight

\* A room saved back as it was read, unless it changed since.
LEMMA EditRight ==
  ASSUME Typed, NEW g, g = Rows, NEW cd, cd = card, NEW dr, Right(g, cd, dr), NEW s \in Sessions, EditSave(s), ~Undoes(s), NEW r, r = Rows'
  PROVE  Right(r, card', dr)
<1>1. PICK e \in CallRecords : e = call[s]
  BY DEF Typed
<1>2. PICK row \in RoomRows : row = e.row
  BY <1>1, CallFields DEF EditSave
<1>3. e.op = "edit" /\ room' = row /\ call' = [call EXCEPT ![s] = Idle] /\ UNCHANGED <<ticket, card, credit, deal, mode>>
  BY <1>1, <1>2 DEF EditSave, Return, Settings
<1>4. call'[s] = Idle
  BY <1>3 DEF Typed
<1>5. [room EXCEPT !.price = 0] = [room' EXCEPT !.price = 0]
  BY <1>1, <1>2, <1>3, <1>4 DEF Undoes
<1>6. room \in RoomRows
  BY RowsTyped DEF Right
<1>7. PICK x, y : x = [room EXCEPT !.price = 0] /\ y = [row EXCEPT !.price = 0] /\ x = y
  BY <1>3, <1>5
<1>8. x.status = room.status /\ x.sold = room.sold /\ x.settled = room.settled /\ x.winners = room.winners
  BY <1>6, <1>7 DEF RoomRows
<1>9. y.status = row.status /\ y.sold = row.sold /\ y.settled = row.settled /\ y.winners = row.winners
  BY <1>7 DEF RoomRows
<1>10. room' \in RoomRows
  BY <1>3
<1>11. /\ room'.status = room.status /\ room'.sold = room.sold /\ room'.settled = room.settled /\ room'.winners = room.winners
  BY <1>3, <1>7, <1>8, <1>9
<1>12. UNCHANGED <<ticket, card, credit, deal, mode>>
  BY <1>3
<1> QED BY <1>10, <1>11, <1>12, RoomStepRight

\* purchaseTickets: the tickets of one purchase, each with a free card of its own.
Sale(g, cd, c, u, T, free, cardOf) ==
  /\ g \in AllRows /\ g = Rows /\ cd \in CardRows /\ cd = card /\ u \in Users /\ c.u = u
  /\ T \in SUBSET Tickets /\ \A t \in T : g.ticket[t] = NoTicket
  /\ free \in SUBSET Cards /\ \A k \in free : cd[k] = 0
  /\ cardOf \in Injection(T, free)
SaleSteps(g, cd, u, T) ==
  /\ ticket' \in [Tickets -> TicketRows] /\ card' \in CardRows
  /\ \A t \in Tickets \ T : ticket'[t] = g.ticket[t]
  /\ \A t \in T : NewTicket(ticket'[t], u) /\ cd[ticket'[t].card] = 0 /\ card'[ticket'[t].card] = t
  /\ \A k \in Cards : card'[k] = cd[k] \/ (card'[k] \in T /\ ticket'[card'[k]].card = k)
  /\ \A k \in Cards : cd[k] # 0 => card'[k] = cd[k]

LEMMA SoldEffect ==
  ASSUME NEW g, NEW cd, NEW c, NEW u, NEW T, NEW free, NEW cardOf, Sale(g, cd, c, u, T, free, cardOf), Sold(c, cardOf)
  PROVE  SaleSteps(g, cd, u, T)
<1>0. /\ g \in AllRows /\ g = Rows /\ cd \in CardRows /\ cd = card /\ u \in Users /\ c.u = u
      /\ T \in SUBSET Tickets /\ \A t \in T : g.ticket[t] = NoTicket
      /\ free \in SUBSET Cards /\ \A k \in free : cd[k] = 0
      /\ cardOf \in Injection(T, free)
  BY DEF Sale
<1>1. cardOf \in [T -> free] /\ \A a, b \in T : cardOf[a] = cardOf[b] => a = b
  BY <1>0 DEF Injection, IsInjective
<1>2. DOMAIN cardOf = T
  BY <1>1
<1> DEFINE row(t) == [NoTicket EXCEPT !.status = "active", !.pending = TRUE, !.user = c.u, !.stake = room.price, !.card = cardOf[t]]
<1>3. /\ ticket' = [t \in Tickets |-> IF t \in T THEN row(t) ELSE ticket[t]]
      /\ card' = [k \in Cards |-> IF \E t \in T : cardOf[t] = k THEN CHOOSE t \in T : cardOf[t] = k ELSE card[k]]
  BY <1>2 DEF Sold
<1>4. ticket \in [Tickets -> TicketRows] /\ room \in RoomRows /\ g.ticket = ticket
  BY <1>0, RowsTyped, RowsAre
<1>5. room.price \in Nat
  BY <1>4, RoomFields
<1>6. ASSUME NEW t \in T PROVE row(t) \in TicketRows /\ NewTicket(row(t), u) /\ row(t).card = cardOf[t]
  <2>1. PICK k \in Cards : k = cardOf[t]
    BY <1>0, <1>1
  <2>2. PICK new : new = [NoTicket EXCEPT !.status = "active", !.pending = TRUE, !.user = u, !.stake = room.price, !.card = k]
    OBVIOUS
  <2>3. new = [status |-> "active", pending |-> TRUE, user |-> u, card |-> k, auto |-> TRUE, tiers |-> {}, payout |-> 0,
               stake |-> room.price, forfeited |-> 0]
    BY <2>2 DEF NoTicket
  <2>4. new \in TicketRows /\ NewTicket(new, u) /\ new.card = k
    BY <1>0, <1>5, <2>3 DEF TicketRows, Statuses, NewTicket
  <2>5. row(t) = new
    BY <1>0, <2>1, <2>2
  <2> QED BY <2>1, <2>4, <2>5
<1> HIDE DEF row
<1>7. ASSUME NEW t \in T PROVE ticket'[t] = row(t) /\ cardOf[t] \in free /\ ticket'[t].card = cardOf[t]
  BY <1>0, <1>1, <1>3, <1>6
<1>8. ASSUME NEW t \in T PROVE card'[cardOf[t]] = t
  <2>1. PICK k \in Cards : k = cardOf[t]
    BY <1>0, <1>1
  <2>2. card'[k] = CHOOSE w \in T : cardOf[w] = k
    BY <1>3, <2>1
  <2>3. (CHOOSE w \in T : cardOf[w] = k) \in T /\ cardOf[CHOOSE w \in T : cardOf[w] = k] = k
    BY <2>1
  <2>4. card'[k] = t
    BY <1>1, <2>1, <2>2, <2>3
  <2> QED BY <2>1, <2>4
<1>9. ASSUME NEW k \in Cards
      PROVE  /\ card'[k] \in Tickets \cup {0} /\ (card'[k] = cd[k] \/ (card'[k] \in T /\ ticket'[card'[k]].card = k))
             /\ cd[k] # 0 => card'[k] = cd[k]
  <2>1. CASE \E t \in T : cardOf[t] = k
    <3>1. PICK t \in T : cardOf[t] = k
      BY <2>1
    <3>2. card'[k] = t /\ ticket'[t].card = k /\ cd[k] = 0
      BY <1>0, <1>7, <1>8, <3>1
    <3> QED BY <1>0, <3>2
  <2>2. CASE ~\E t \in T : cardOf[t] = k
    <3>1. card'[k] = cd[k]
      BY <1>0, <1>3, <2>2
    <3> QED BY <1>0, <3>1 DEF CardRows
  <2> QED BY <2>1, <2>2
<1>10. ticket' \in [Tickets -> TicketRows]
  BY <1>3, <1>4, <1>6
<1>11. card' = [k \in Cards |-> card'[k]]
  BY <1>3
<1>12. card' \in CardRows
  BY <1>9, <1>11 DEF CardRows
<1>13. \A t \in Tickets \ T : ticket'[t] = g.ticket[t]
  BY <1>0, <1>3, <1>4
<1>14. \A t \in T : NewTicket(ticket'[t], u) /\ cd[ticket'[t].card] = 0 /\ card'[ticket'[t].card] = t
  BY <1>0, <1>6, <1>7, <1>8
<1> QED BY <1>9, <1>10, <1>12, <1>13, <1>14 DEF SaleSteps

LEMMA PurchaseRight ==
  ASSUME Typed, NEW g, g = Rows, NEW cd, cd = card, NEW dr \in BOOLEAN, Right(g, cd, dr), NEW s \in Sessions, Purchase(s), NEW r, r = Rows',
         NEW dr2 \in BOOLEAN, dr => dr2, Drifts(s) => dr2
  PROVE  Right(r, card', dr2)
<1>1. PICK c \in CallRecords : c = call[s]
  BY DEF Typed
<1>2. c.op = "purchase" /\ room.status = "open" /\ WithinCap(c) /\ Cardinality(NextTickets(c.n)) = c.n
  BY <1>1 DEF Purchase
<1>3. PICK u \in Users, n \in Nat, sold \in Nat, owned \in Nat : u = c.u /\ n = c.n /\ sold = c.sold /\ owned = c.owned /\ n # 0
  <2>1. c.u \in Users /\ c.n \in Nat /\ c.n # 0 /\ c.sold \in Nat /\ c.owned \in Nat
    BY <1>2, CallFields
  <2> QED BY <2>1
<1>4. PICK T \in SUBSET Tickets : T = NextTickets(n) /\ \A t \in T : ticket[t] = NoTicket
  <2>1. NextTickets(n) \in SUBSET Tickets /\ \A t \in NextTickets(n) : ticket[t] = NoTicket
    BY DEF NextTickets
  <2> QED BY <2>1
<1>5. PICK free \in SUBSET Cards : free = {k \in Cards : CardFree(k)} /\ \A k \in free : card[k] = 0
  <2>1. {k \in Cards : CardFree(k)} \in SUBSET Cards /\ \A k \in {j \in Cards : CardFree(j)} : card[k] = 0
    BY DEF CardFree
  <2> QED BY <2>1
<1>6. PICK cardOf \in Injection(T, free) : Sold(c, cardOf)
  BY <1>1, <1>3, <1>4, <1>5 DEF Purchase
<1>7. PICK start \in {"none", "counting", "locked", "due", "overdue"} : start = IF room.sold = 0 THEN "counting" ELSE room.start
  <2>1. room.start \in {"none", "counting", "locked", "due", "overdue"}
    BY RowsTyped, RoomFields DEF Right
  <2> QED BY <2>1
<1>8. PICK more \in Nat : more = SoldSaved(c)
  <2>1. room.sold \in Nat
    BY RowsTyped, RoomFields DEF Right
  <2> QED BY <1>3, <2>1 DEF SoldSaved
<1>9. room' = [room EXCEPT !.sold = more, !.start = start] /\ UNCHANGED <<credit, deal, mode>> /\ call' = [call EXCEPT ![s] = Idle]
  BY <1>1, <1>7, <1>8 DEF Purchase, Return, Settings
<1>10. g \in AllRows /\ cd \in CardRows /\ g.ticket = ticket
  BY RowsAre DEF Right
<1>11. room \in RoomRows /\ credit \in [Tickets -> Credits] /\ deal \in AllDeals /\ mode \in Modes
  BY <1>10, RowsTyped
<1>12. /\ room' \in RoomRows /\ room'.status = room.status /\ room'.settled = room.settled /\ room'.winners = room.winners
       /\ room'.sold = more
  BY <1>7, <1>8, <1>9, <1>11 DEF RoomRows
<1>13. /\ ticket' \in [Tickets -> TicketRows] /\ card' \in CardRows
       /\ \A t \in Tickets \ T : ticket'[t] = g.ticket[t]
       /\ \A t \in T : NewTicket(ticket'[t], u) /\ cd[ticket'[t].card] = 0 /\ card'[ticket'[t].card] = t
       /\ \A k \in Cards : card'[k] = cd[k] \/ (card'[k] \in T /\ ticket'[card'[k]].card = k)
       /\ \A k \in Cards : cd[k] # 0 => card'[k] = cd[k]
  <2>1. \A t \in T : g.ticket[t] = NoTicket
    BY <1>4, <1>10
  <2>2. \A k \in free : cd[k] = 0
    BY <1>5
  <2>3. c.u = u
    BY <1>3
  <2>4. Sale(g, cd, c, u, T, free, cardOf)
    BY <1>6, <1>10, <2>1, <2>2, <2>3 DEF Sale
  <2>5. SaleSteps(g, cd, u, T)
    BY <1>6, <2>4, SoldEffect
  <2> QED BY <2>5 DEF SaleSteps
<1>14. r.room = room' /\ r.ticket = ticket' /\ r.credit = credit /\ r.mode = mode /\ r \in AllRows
  BY <1>9, <1>11, <1>12, <1>13, NextRowsAre
<1>15. g.room = room /\ g.credit = credit /\ g.mode = mode
  BY RowsAre
<1>16. PICK ce : ce = card'
  OBVIOUS
<1>17. Bought(g, cd, r, ce, T, u)
  BY <1>4, <1>10, <1>12, <1>13, <1>14, <1>15, <1>16 DEF Bought
<1>18. Cardinality(T) = n
  BY <1>2, <1>3, <1>4
<1>19. ASSUME ~dr2 PROVE r.room.sold = g.room.sold + n /\ Fresh(g, n, u)
  <2>1. ~Drifts(s)
    BY <1>19
  <2>2. T # {}
    BY <1>3, <1>18, FS_EmptySet
  <2>3. PICK t \in T : TRUE
    BY <2>2
  <2>4. ticket'[t] # ticket[t]
    BY <1>4, <1>13, <2>3, NoTicketFields DEF NewTicket
  <2>5. ~Stale(c)
    <3>1. call'[s] = Idle
      BY <1>9 DEF Typed
    <3>2. ticket' # ticket
      BY <2>4
    <3> QED BY <1>1, <1>2, <2>1, <3>1, <3>2 DEF Drifts
  <2>6. room.sold = sold /\ Cardinality(OwnedBy(u)) = owned
    BY <1>3, <2>5 DEF Stale
  <2>7. more = room.sold + n
    BY <1>3, <1>8, <2>6 DEF SoldSaved
  <2>8. OwnedBy(u) = HandOf(g.ticket, u)
    BY <1>10 DEF OwnedBy, Live, HandOf, InHand, Rows
  <2>9. cfg \in Configs /\ (cfg.cap > 0 => Cardinality(HandOf(g.ticket, u)) + n <= cfg.cap)
    BY <1>2, <1>3, <2>6, <2>8 DEF WithinCap, Typed
  <2>10. Fresh(g, n, u)
    BY <2>9 DEF Fresh
  <2> QED BY <1>12, <1>14, <1>15, <2>7, <2>10
<1>20. dr2 \/ (r.room.sold = g.room.sold + Cardinality(T) /\ Fresh(g, Cardinality(T), u))
  BY <1>18, <1>19
<1>21. g.room.status = "open"
  BY <1>2, <1>15
<1>22. Right(r, ce, dr2)
  BY <1>17, <1>20, <1>21, BoughtRight
<1> QED BY <1>16, <1>22

-----------------------------------------------------------------------------
(* The invariant: until an edit takes a settlement back, every call computes *)
(* with what it read, and the rows are right.                               *)

NotedInv ==
  ~undone =>
    /\ Typed
    /\ \A g, cd, dr : g = Rows /\ cd = card /\ dr = drifted => Right(g, cd, dr)

LEMMA StartInv == NotedInit => NotedInv
<1> SUFFICES ASSUME NotedInit PROVE NotedInv
  OBVIOUS
<1>1. Typed
  BY DEF NotedInit, Init, Typed, CallRecords
<1>2. ASSUME NEW g, g = Rows, NEW cd, cd = card, NEW dr PROVE Right(g, cd, dr)
  <2>1. PICK price \in Nat \ {0} : room = NewRoom(price)
    BY BingoAssumption DEF NotedInit, Init
  <2>2. /\ room.status = "open" /\ room.sold = 0 /\ room.settled = {} /\ room.winners = [q \in Places |-> {}]
        /\ room \in RoomRows
    BY <2>1 DEF NewRoom, RoomRows
  <2>3. /\ ticket = [t \in Tickets |-> NoTicket] /\ card = [c \in Cards |-> 0]
        /\ credit = [t \in Tickets |-> [k \in CreditKeys |-> 0]] /\ deal \in AllDeals /\ mode \in Modes /\ cfg \in Configs
    BY BingoAssumption DEF NotedInit, Init
  <2>4. NoTicket \in TicketRows
    BY DEF NoTicket, TicketRows, Statuses
  <2>5. ticket \in [Tickets -> TicketRows]
    BY <2>3, <2>4
  <2>6. credit \in [Tickets -> Credits]
    BY <2>3 DEF Credits
  <2>7. g \in AllRows /\ g.room = room /\ g.ticket = ticket /\ g.credit = credit
    BY <1>2, <2>2, <2>3, <2>5, <2>6, RowsTyped, RowsAre
  <2>8. ASSUME NEW t \in Tickets PROVE Money(g.ticket[t], g.credit[t], g.mode) /\ Waits(g.ticket[t], g.credit[t], g.room.settled, g.mode)
    <3>1. PICK x : x = [k \in CreditKeys |-> 0]
      OBVIOUS
    <3>2. g.ticket[t] = NoTicket /\ g.credit[t] = x
      BY <2>3, <2>7, <3>1
    <3>3. \A k \in CreditKeys : x[k] = 0
      BY <3>1
    <3>4. \A k \in PrizeKeys : x[k] = 0
      BY <3>3, KeysAreFinite
    <3>5. \A k \in RefundKeys : x[k] = 0
      BY <3>3, KeysAreFinite
    <3>6. SumFunctionOnSet(x, PrizeKeys) = 0
      BY <3>4, KeysAreFinite, SumZero
    <3>7. Money(NoTicket, x, g.mode)
      BY <3>5, <3>6, NoTicketFields DEF Money
    <3>8. \A p \in Places : x[<<"settlement", p>>] = 0 /\ x[<<"reconcile", p>>] = 0
      BY <3>3, SettlementKey
    <3>9. Waits(NoTicket, x, g.room.settled, g.mode)
      BY <3>8, NoTicketFields DEF Waits
    <3> QED BY <3>2, <3>7, <3>9
  <2>9. Seats(g)
    <3>1. \A t \in Tickets : g.ticket[t].status = "none" /\ g.ticket[t].tiers = {}
      BY <2>3, <2>7, NoTicketFields
    <3>2. \A p \in Places : g.room.winners[p] = {}
      BY <2>2, <2>7
    <3> QED BY <3>1, <3>2 DEF Seats
  <2>10. RoomInv(g)
    BY <2>2, <2>7, <2>8, <2>9 DEF RoomInv, Going, MoneyRight
  <2>11. \A t \in Tickets : g.ticket[t].status = "none"
    BY <2>3, <2>7, NoTicketFields
  <2>12. InHand(g.ticket) = {} /\ \A u : HandOf(g.ticket, u) = {}
    BY <2>11 DEF InHand, HandOf
  <2>13. Cardinality({}) = 0
    BY FS_EmptySet
  <2>14. Capped(g.ticket)
    <3> SUFFICES ASSUME NEW u \in Users PROVE \E c \in Configs : c.cap = 0 \/ Cardinality(HandOf(g.ticket, u)) <= c.cap
      BY DEF Capped
    <3>1. cfg \in Configs /\ cfg.cap \in Nat
      BY <2>3, BingoAssumption DEF AllConfigs
    <3>2. Cardinality(HandOf(g.ticket, u)) = 0
      BY <2>12, <2>13
    <3> QED BY <3>1, <3>2
  <2>15. HandedOut(g.ticket, cd)
    BY <1>2, <2>3, <2>11 DEF HandedOut
  <2>16. Sales(g, cd, dr)
    BY <2>2, <2>7, <2>12, <2>13, <2>14, <2>15 DEF Sales
  <2>17. cd \in CardRows
    BY <1>2, <2>3 DEF CardRows
  <2> QED BY <2>7, <2>10, <2>16, <2>17 DEF Right
<1> QED BY <1>1, <1>2 DEF NotedInv

\* What a step leaves of the calls.
LEMMA CallsStay ==
  ASSUME Typed, NEW g, g = Rows, g \in AllRows, Next, NEW d, d = drifted', d \in BOOLEAN
  PROVE  Typed'
<1>1. call \in [Sessions -> CallRecords] /\ cfg \in Configs
  BY DEF Typed
<1>2. room \in RoomRows
  BY RowsTyped
<1>3. ASSUME NEW s, NEW c \in CallRecords, call' = [call EXCEPT ![s] = c] PROVE call' \in [Sessions -> CallRecords]
  BY <1>1, <1>3
<1>4. Idle \in CallRecords /\ [op |-> "commission", todo |-> Agents] \in CallRecords
  BY DEF CallRecords
<1>5. ASSUME NEW s, Return(s) PROVE call' \in [Sessions -> CallRecords]
  BY <1>3, <1>4, <1>5 DEF Return
<1>6. ASSUME NEW s, NEW h, Return1(s, h) PROVE call' \in [Sessions -> CallRecords]
  BY <1>3, <1>4, <1>6 DEF Return1
<1>7. cfg' \in Configs
  <2>1. ASSUME ~\E c \in Configs : UpdateBingoConfig(c) PROVE cfg' = cfg
    BY <2>1 DEF Next, Tick, CancelRoom, Reap, ReleaseCartela, SetAutoClaim, PurchaseRead, ClaimRead, DrawRead, EditRead,
       Finish, Purchase, DrawNextNumber, ClaimBingo, EditSave, Refuse, SettleReferralCommission, CommissionFails, Die, Settings
  <2>2. ASSUME NEW c \in Configs, UpdateBingoConfig(c) PROVE cfg' \in Configs
    BY <2>2 DEF UpdateBingoConfig
  <2> QED BY <1>1, <2>1, <2>2
<1>8. call' \in [Sessions -> CallRecords]
  <2>1. CASE Tick \/ CancelRoom \/ Reap \/ (\E c \in Configs : UpdateBingoConfig(c)) \/ (\E t \in Tickets : ReleaseCartela(t))
              \/ (\E u \in Users, auto \in BOOLEAN : SetAutoClaim(u, auto))
    BY <1>1, <2>1 DEF Tick, CancelRoom, Reap, UpdateBingoConfig, ReleaseCartela, SetAutoClaim
  <2>2. ASSUME NEW s \in Clients, NEW u \in Users, NEW n \in 1..Cardinality(Cards), PurchaseRead(s, u, n) PROVE call' \in [Sessions -> CallRecords]
    <3>1. PICK sold \in Nat : sold = room.sold
      BY <1>2, RoomFields
    <3>2. PICK owned \in Nat : owned = Cardinality(OwnedBy(u))
      <4>1. OwnedBy(u) \in SUBSET Tickets
        BY DEF OwnedBy, Live
      <4> QED BY <4>1, SettlementAssumption, FS_Subset, FS_CardinalityType
    <3>3. PICK c : c = [op |-> "purchase", u |-> u, n |-> n, sold |-> sold, owned |-> owned]
      OBVIOUS
    <3>4. c \in CallRecords
      BY <3>3 DEF CallRecords
    <3>5. call' = [call EXCEPT ![s] = c]
      BY <2>2, <3>1, <3>2, <3>3 DEF PurchaseRead, Call
    <3> QED BY <1>3, <3>4, <3>5
  <2>3. ASSUME NEW s \in Clients, NEW t \in Tickets, ClaimRead(s, t) PROVE call' \in [Sessions -> CallRecords]
    <3>1. PICK k \in AllConfigs : k = cfg
      BY <1>1, BingoAssumption
    <3>2. PICK c : c = [op |-> "claim", t |-> t, cfg |-> k]
      OBVIOUS
    <3>3. c \in CallRecords
      BY <3>2 DEF CallRecords
    <3>4. call' = [call EXCEPT ![s] = c]
      BY <2>3, <3>1, <3>2 DEF ClaimRead, Call
    <3> QED BY <1>3, <3>3, <3>4
  <2>4. ASSUME NEW s, DrawRead(s) PROVE call' \in [Sessions -> CallRecords]
    <3>1. PICK k \in AllConfigs : k = cfg
      BY <1>1, BingoAssumption
    <3>2. PICK c : c = [op |-> "draw", cfg |-> k]
      OBVIOUS
    <3>3. c \in CallRecords
      BY <3>2 DEF CallRecords
    <3>4. call' = [call EXCEPT ![s] = c]
      BY <2>4, <3>1, <3>2 DEF DrawRead, Call
    <3> QED BY <1>3, <3>3, <3>4
  <2>5. ASSUME NEW s, NEW price \in Prices, EditRead(s, price) PROVE call' \in [Sessions -> CallRecords]
    <3>1. PICK row : row = [room EXCEPT !.price = price]
      OBVIOUS
    <3>2. row \in RoomRows
      BY <1>2, <3>1, BingoAssumption DEF RoomRows
    <3>3. PICK c : c = [op |-> "edit", row |-> row]
      OBVIOUS
    <3>4. c \in CallRecords
      BY <3>2, <3>3 DEF CallRecords
    <3>5. call' = [call EXCEPT ![s] = c]
      BY <2>5, <3>1, <3>3 DEF EditRead, Call
    <3> QED BY <1>3, <3>4, <3>5
  <2>6. ASSUME NEW s \in Sessions, Purchase(s) \/ EditSave(s) \/ Refuse(s) \/ CommissionFails(s) \/ Die(s) PROVE call' \in [Sessions -> CallRecords]
    BY <1>5, <2>6 DEF Purchase, EditSave, Refuse, CommissionFails, Die
  <2>7. ASSUME NEW s \in Sessions, DrawNextNumber(s) \/ ClaimBingo(s) PROVE call' \in [Sessions -> CallRecords]
    BY <1>6, <2>7 DEF DrawNextNumber, ClaimBingo
  <2>8. ASSUME NEW s \in Sessions, NEW a \in Agents, SettleReferralCommission(s, a) PROVE call' \in [Sessions -> CallRecords]
    <3>1. PICK e \in CallRecords : e = call[s]
      BY <1>1
    <3>2. PICK todo \in SUBSET Agents : todo = e.todo /\ e.op = "commission"
      BY <2>8, <3>1, CallFields DEF SettleReferralCommission
    <3>3. PICK rest \in SUBSET Agents : rest = todo \ {a}
      OBVIOUS
    <3>5. PICK c : c = IF todo = {a} THEN Idle ELSE [op |-> "commission", todo |-> rest]
      OBVIOUS
    <3>6. c \in CallRecords
      BY <1>4, <3>5 DEF CallRecords
    <3>7. call' = [call EXCEPT ![s] = IF e.todo = {a} THEN Idle ELSE [op |-> "commission", todo |-> e.todo \ {a}]]
      BY <2>8, <3>1 DEF SettleReferralCommission
    <3>8. call' = [call EXCEPT ![s] = c]
      BY <3>2, <3>3, <3>5, <3>7
    <3> QED BY <1>3, <3>6, <3>8
  <2> QED BY <2>1, <2>2, <2>3, <2>4, <2>5, <2>6, <2>7, <2>8 DEF Next, Finish
<1> QED BY <1>7, <1>8 DEF Typed

LEMMA RightLater == ASSUME NEW g, NEW cd, NEW dr, NEW dr2, Right(g, cd, dr), dr => dr2 PROVE Right(g, cd, dr2)
BY DEF Right, Sales

LEMMA StepRight ==
  ASSUME Typed, NEW g, g = Rows, NEW cd, cd = card, NEW dr \in BOOLEAN, dr = drifted, Right(g, cd, dr), Next,
         \A s \in Sessions : ~Undoes(s), NEW r, r = Rows', NEW dr2 \in BOOLEAN, dr => dr2, \A s \in Sessions : Drifts(s) => dr2
  PROVE  Right(r, card', dr2)
<1>1. ASSUME Right(r, card', dr) PROVE Right(r, card', dr2)
  <2>1. PICK ce : ce = card'
    OBVIOUS
  <2>2. Right(r, ce, dr2)
    BY <1>1, <2>1, RightLater
  <2> QED BY <2>1, <2>2
<1>2. ASSUME UNCHANGED <<room, ticket, card, credit, deal, mode>> PROVE Right(r, card', dr)
  <2>1. r = g
    BY <1>2 DEF Rows
  <2> QED BY <1>2, <2>1
<1>3. CASE Tick
  BY <1>1, <1>3, TickRight
<1>4. CASE CancelRoom \/ Reap
  <2>1. CancelRoom
    BY <1>4 DEF Reap
  <2> QED BY <1>1, <2>1, CancelRight
<1>5. CASE \E c \in Configs : UpdateBingoConfig(c)
  BY <1>1, <1>2, <1>5 DEF UpdateBingoConfig, rows
<1>6. ASSUME NEW t \in Tickets, ReleaseCartela(t) PROVE Right(r, card', dr2)
  BY <1>1, <1>6, ReleaseRight
<1>7. ASSUME NEW u \in Users, NEW auto \in BOOLEAN, SetAutoClaim(u, auto) PROVE Right(r, card', dr2)
  BY <1>1, <1>7, AutoRight
<1>8. CASE \/ \E s \in Clients, u \in Users, n \in 1..Cardinality(Cards) : PurchaseRead(s, u, n)
           \/ \E s \in Clients, t \in Tickets : ClaimRead(s, t)
           \/ \E s \in Schedulers \cup Admins : DrawRead(s)
           \/ \E s \in Admins, price \in Prices : EditRead(s, price)
  <2>1. UNCHANGED <<room, ticket, card, credit, deal, mode>>
    BY <1>8 DEF PurchaseRead, ClaimRead, DrawRead, EditRead, Settings, rows
  <2> QED BY <1>1, <1>2, <2>1
<1>9. ASSUME NEW s \in Sessions, Purchase(s) PROVE Right(r, card', dr2)
  BY <1>9, PurchaseRight
<1>10. ASSUME NEW s \in Sessions, DrawNextNumber(s) PROVE Right(r, card', dr2)
  BY <1>1, <1>10, DrawRight
<1>11. ASSUME NEW s \in Sessions, ClaimBingo(s) PROVE Right(r, card', dr2)
  BY <1>1, <1>11, ClaimRight
<1>12. ASSUME NEW s \in Sessions, EditSave(s) PROVE Right(r, card', dr2)
  BY <1>1, <1>12, EditRight
<1>13. ASSUME NEW s \in Sessions, Refuse(s) \/ (\E a \in Agents : SettleReferralCommission(s, a)) \/ CommissionFails(s) \/ Die(s)
       PROVE  Right(r, card', dr2)
  <2>1. UNCHANGED <<room, ticket, card, credit, deal, mode>>
    BY <1>13 DEF Refuse, SettleReferralCommission, CommissionFails, Die, Settings, rows
  <2> QED BY <1>1, <1>2, <2>1
<1> QED BY <1>3, <1>4, <1>5, <1>6, <1>7, <1>8, <1>9, <1>10, <1>11, <1>12, <1>13 DEF Next, Finish

LEMMA KeepsInv == NotedInv /\ [NotedNext]_<<vars, used, undone, drifted>> => NotedInv'
<1> SUFFICES ASSUME NotedInv, [NotedNext]_<<vars, used, undone, drifted>> PROVE NotedInv'
  OBVIOUS
<1>1. CASE NotedNext
  <2> SUFFICES ASSUME ~undone' PROVE Typed' /\ \A g, cd, dr : g = Rows' /\ cd = card' /\ dr = drifted' => Right(g, cd, dr)
    BY DEF NotedInv
  <2>1. /\ Next /\ ~undone /\ \A s \in Sessions : ~Undoes(s)
        /\ drifted' = (drifted \/ \E s \in Sessions : Drifts(s))
    BY <1>1 DEF NotedNext
  <2>2. Typed
    BY <2>1 DEF NotedInv
  <2>3. PICK g, cd : g = Rows /\ cd = card
    OBVIOUS
  <2>4. PICK dr \in BOOLEAN : dr = drifted
    BY <2>2 DEF Typed
  <2>5. Right(g, cd, dr)
    BY <2>1, <2>3, <2>4 DEF NotedInv
  <2>6. PICK r : r = Rows'
    OBVIOUS
  <2>7. PICK dr2 \in BOOLEAN : dr2 = drifted' /\ (dr => dr2) /\ \A s \in Sessions : Drifts(s) => dr2
    BY <2>1, <2>4
  <2>8. Right(r, card', dr2)
    BY <2>1, <2>2, <2>3, <2>4, <2>5, <2>6, <2>7, StepRight
  <2>9. Typed'
    <3>1. g \in AllRows
      BY <2>5 DEF Right
    <3> QED BY <2>1, <2>2, <2>3, <2>7, <3>1, CallsStay
  <2>10. PICK ce : ce = card'
    OBVIOUS
  <2>11. Right(r, ce, dr2)
    BY <2>8, <2>10
  <2> QED BY <2>6, <2>7, <2>9, <2>10, <2>11
<1>2. CASE UNCHANGED <<vars, used, undone, drifted>>
  <2>1. UNCHANGED <<room, ticket, card, credit, deal, mode, cfg, call, undone, drifted>>
    BY <1>2 DEF vars, rows
  <2>2. Rows' = Rows /\ (Typed => Typed')
    BY <2>1 DEF Rows, Typed
  <2> QED BY <2>1, <2>2 DEF NotedInv
<1> QED BY <1>1, <1>2

\* Whatever ticks, claims, purchases, edits and cancellations overlap, the rows of a room,
\* the cards held and the credits agree, until an edit has saved a stale row back.
THEOREM NotedInvHolds == NotedSpec => []NotedInv
BY StartInv, KeepsInv, PTL DEF NotedSpec

-----------------------------------------------------------------------------
(* The split of the pool, as long as the calls that settle agree on how.    *)

\* The calls that settled so far computed with U: if all of them with c, the places have
\* the prizes that c gives them.
SplitAs(g, c) == (g.room.status = "running" => Split(g, c)) /\ (g.room.status = "completed" => SplitFinal(g, c))
SplitBy(g, U) ==
  /\ g.room.status = "open" => g.room.settled = {}
  /\ g.room.status \in {"running", "completed"} => g.room.sold > 0 /\ (U = {} => g.room.settled = {})
  /\ \A c \in AllConfigs : U \subseteq {c} => SplitAs(g, c)

\* An edit that read the room when balls were drawn keeps its price.
EditsHold(g, calls) ==
  \A s \in Sessions : calls[s].op = "edit" /\ calls[s].row.status \in {"running", "completed"} =>
    /\ g.room.status # "open"
    /\ g.room.status \in {"running", "completed"} => calls[s].row.price = g.room.price

\* A room that leaves its places and its prizes as they are.
Frozen(g, r) ==
  /\ r.room.status = g.room.status /\ r.room.sold = g.room.sold /\ r.room.settled = g.room.settled
  /\ r.room.winners = g.room.winners /\ r.room.shown = g.room.shown
  /\ g.room.status \in {"running", "completed"} => r.room.price = g.room.price
  /\ \A t \in Tickets : r.ticket[t].status = g.ticket[t].status /\ r.ticket[t].payout = g.ticket[t].payout

LEMMA FrozenSplit ==
  ASSUME NEW g \in AllRows, NEW r, Frozen(g, r), NEW U, NEW V, U \subseteq V, SplitBy(g, U) PROVE SplitBy(r, V)
<1>1. /\ r.room.status = g.room.status /\ r.room.sold = g.room.sold /\ r.room.settled = g.room.settled
      /\ r.room.winners = g.room.winners /\ r.room.shown = g.room.shown
      /\ g.room.status \in {"running", "completed"} => r.room.price = g.room.price
      /\ \A t \in Tickets : r.ticket[t].status = g.ticket[t].status /\ r.ticket[t].payout = g.ticket[t].payout
  BY DEF Frozen
<1>2. ASSUME NEW c \in AllConfigs, V \subseteq {c} PROVE SplitAs(r, c)
  <2>1. SplitAs(g, c)
    BY <1>2 DEF SplitBy
  <2>2. CASE g.room.status \in {"running", "completed"}
    <3>1. Pool(r) = Pool(g)
      BY <1>1, <2>2, SamePool
    <3>2. ASSUME NEW s, SplitUpTo(g, c, s) PROVE SplitUpTo(r, c, s)
      BY <1>1, <3>1, <3>2, SplitSame
    <3> QED BY <1>1, <2>1, <3>2 DEF SplitAs, Split, SplitFinal
  <2>3. CASE g.room.status \notin {"running", "completed"}
    BY <1>1, <2>3 DEF SplitAs
  <2> QED BY <2>2, <2>3
<1> QED BY <1>1, <1>2 DEF SplitBy

\* A call settles the room as its configuration says.
LEMMA SettledSplit ==
  ASSUME NEW g \in AllRows, NEW r, NEW d \in AllConfigs, Sharing(g, r, d), IsPrefilled(g.mode), NEW U, NEW V, U \subseteq V, d \in V,
         SplitBy(g, U), g.room.status \in {"open", "running"}, g.room.sold > 0
  PROVE  SplitBy(r, V)
<1>1. /\ r.room.status = "open" => r = g
      /\ r.room.status # "cancelled" => SameSale(g, r)
      /\ Split(g, d) => IF r.room.status = "completed" THEN SplitFinal(r, d) ELSE r.room.status # "cancelled" => Split(r, d)
  BY DEF Sharing
<1>2. r.room.status = "open" => r.room.settled = {}
  BY <1>1 DEF SplitBy
<1>3. r.room.status \in {"running", "completed"} => r.room.sold > 0
  BY <1>1 DEF SameSale
<1>4. ASSUME NEW c \in AllConfigs, V \subseteq {c} PROVE SplitAs(r, c)
  <2>1. c = d /\ SplitAs(g, c)
    BY <1>4 DEF SplitBy
  <2>2. Split(g, c)
    BY <2>1, NothingToSplit DEF SplitBy, SplitAs
  <2> QED BY <1>1, <2>1, <2>2 DEF SplitAs
<1> QED BY <1>2, <1>3, <1>4 DEF SplitBy

\* How the room may go on while calls are under way.
Onward(g, r) ==
  /\ g.room.status # "open" => r.room.status # "open"
  /\ g.room.status = "cancelled" => r.room.status = "cancelled"
  /\ {g.room.status, r.room.status} \subseteq {"running", "completed"} => r.room.price = g.room.price

\* What a step leaves of the edits.
LEMMA EditsAre ==
  ASSUME Typed, Next, room \in RoomRows, NEW s \in Sessions, call'[s].op = "edit"
  PROVE  call'[s] = call[s] \/ \E price \in Prices : EditRead(s, price)
<1>1. call \in [Sessions -> CallRecords]
  BY DEF Typed
<1>2. ASSUME NEW q, NEW c, call' = [call EXCEPT ![q] = c], c.op # "edit" PROVE call'[s] = call[s]
  BY <1>1, <1>2
<1>3. Idle.op # "edit" /\ [op |-> "commission", todo |-> Agents].op # "edit"
  BY DEF Idle
<1>4. CASE Tick \/ CancelRoom \/ Reap \/ (\E c \in Configs : UpdateBingoConfig(c)) \/ (\E t \in Tickets : ReleaseCartela(t))
            \/ (\E u \in Users, auto \in BOOLEAN : SetAutoClaim(u, auto))
  BY <1>1, <1>4 DEF Tick, CancelRoom, Reap, UpdateBingoConfig, ReleaseCartela, SetAutoClaim
<1>5. ASSUME NEW q, NEW u, NEW n, PurchaseRead(q, u, n) PROVE call'[s] = call[s]
  <2>1. PICK c : c = [op |-> "purchase", u |-> u, n |-> n, sold |-> room.sold, owned |-> Cardinality(OwnedBy(u))]
    OBVIOUS
  <2>2. c.op # "edit" /\ call' = [call EXCEPT ![q] = c]
    BY <1>5, <2>1 DEF PurchaseRead, Call
  <2> QED BY <1>2, <2>2
<1>6. ASSUME NEW q, NEW t, ClaimRead(q, t) PROVE call'[s] = call[s]
  <2>1. PICK c : c = [op |-> "claim", t |-> t, cfg |-> cfg]
    OBVIOUS
  <2>2. c.op # "edit" /\ call' = [call EXCEPT ![q] = c]
    BY <1>6, <2>1 DEF ClaimRead, Call
  <2> QED BY <1>2, <2>2
<1>7. ASSUME NEW q, DrawRead(q) PROVE call'[s] = call[s]
  <2>1. PICK c : c = [op |-> "draw", cfg |-> cfg]
    OBVIOUS
  <2>2. c.op # "edit" /\ call' = [call EXCEPT ![q] = c]
    BY <1>7, <2>1 DEF DrawRead, Call
  <2> QED BY <1>2, <2>2
<1>8. ASSUME NEW q, NEW price \in Prices, EditRead(q, price) PROVE call'[s] = call[s] \/ EditRead(s, price)
  <2>1. CASE q = s
    BY <1>8, <2>1
  <2>2. CASE q # s
    BY <1>1, <1>8, <2>2 DEF EditRead, Call
  <2> QED BY <2>1, <2>2
<1>9. ASSUME NEW q, Purchase(q) \/ EditSave(q) \/ Refuse(q) \/ CommissionFails(q) \/ Die(q) PROVE call'[s] = call[s]
  <2>1. call' = [call EXCEPT ![q] = Idle]
    BY <1>9 DEF Purchase, EditSave, Refuse, CommissionFails, Die, Return
  <2> QED BY <1>2, <1>3, <2>1
<1>10. ASSUME NEW q, DrawNextNumber(q) \/ ClaimBingo(q) PROVE call'[s] = call[s]
  <2>1. PICK h : Return1(q, h)
    BY <1>10 DEF DrawNextNumber, ClaimBingo
  <2>2. PICK c : c = IF h.room.status = "completed" /\ ~h.refused THEN [op |-> "commission", todo |-> Agents] ELSE Idle
    OBVIOUS
  <2>3. call' = [call EXCEPT ![q] = c] /\ c.op # "edit"
    BY <1>3, <2>1, <2>2 DEF Return1
  <2> QED BY <1>2, <2>3
<1>11. ASSUME NEW q, NEW a, SettleReferralCommission(q, a) PROVE call'[s] = call[s]
  <2>1. PICK todo : todo = call[q].todo \ {a}
    OBVIOUS
  <2>2. PICK c : c = IF call[q].todo = {a} THEN Idle ELSE [op |-> "commission", todo |-> todo]
    OBVIOUS
  <2>3. c.op # "edit"
    BY <1>3, <2>2
  <2>4. call' = [call EXCEPT ![q] = IF @.todo = {a} THEN Idle ELSE [op |-> "commission", todo |-> @.todo \ {a}]]
    BY <1>11 DEF SettleReferralCommission
  <2>5. CASE q \in Sessions
    <3>1. call' = [call EXCEPT ![q] = c]
      BY <1>1, <2>1, <2>2, <2>4, <2>5
    <3> QED BY <1>2, <2>3, <3>1
  <2>6. CASE q \notin Sessions
    BY <1>1, <2>4, <2>6
  <2> QED BY <2>5, <2>6
<1> QED BY <1>4, <1>5, <1>6, <1>7, <1>8, <1>9, <1>10, <1>11 DEF Next, Finish

LEMMA FrozenOnward == ASSUME NEW g \in AllRows, NEW r, Frozen(g, r) PROVE Onward(g, r)
BY DEF Frozen, Onward

LEMMA SettledOnward ==
  ASSUME NEW g \in AllRows, NEW r, NEW d, Sharing(g, r, d), IsPrefilled(g.mode), g.room.status \in {"open", "running"}
  PROVE  Onward(g, r)
BY DEF Sharing, SameSale, Onward

\* A room that is cancelled, or still sells, has nothing to split.
LEMMA CancelledGoesOn ==
  ASSUME NEW g \in AllRows, NEW r, r.room.status = "cancelled", NEW V PROVE SplitBy(r, V) /\ Onward(g, r)
BY DEF SplitBy, SplitAs, Onward

LEMMA OpenGoesOn ==
  ASSUME NEW g \in AllRows, NEW r, g.room.status = "open", r.room.status = "open", r.room.settled = g.room.settled,
         NEW U, SplitBy(g, U), NEW V
  PROVE  SplitBy(r, V) /\ Onward(g, r)
BY DEF SplitBy, SplitAs, Onward

\* A step that settles nothing.
Still(g, r) == r = g \/ Frozen(g, r) \/ r.room.status = "cancelled" \/ (g.room.status = "open" /\ r.room.status = "open" /\ r.room.settled = g.room.settled)

LEMMA SameFrozen == ASSUME NEW g \in AllRows, NEW r, r.room = g.room, r.ticket = g.ticket PROVE Frozen(g, r)
BY DEF Frozen

LEMMA StillGoesOn ==
  ASSUME NEW g \in AllRows, NEW r, Still(g, r), NEW U, SplitBy(g, U), NEW V, U \subseteq V PROVE SplitBy(r, V) /\ Onward(g, r)
<1>1. CASE r = g \/ Frozen(g, r)
  <2>1. Frozen(g, r)
    BY <1>1, SameFrozen
  <2> QED BY <2>1, FrozenSplit, FrozenOnward
<1>2. CASE r.room.status = "cancelled"
  BY <1>2, CancelledGoesOn
<1>3. CASE g.room.status = "open" /\ r.room.status = "open" /\ r.room.settled = g.room.settled
  BY <1>3, OpenGoesOn
<1> QED BY <1>1, <1>2, <1>3 DEF Still

LEMMA TickStill == ASSUME NEW g \in AllRows, g = Rows, Tick, NEW r, r = Rows' PROVE Still(g, r)
<1>1. room \in RoomRows
  BY RowsTyped
<1>2. room' = [room EXCEPT !.start = Later[@]] /\ UNCHANGED <<ticket, card, credit, deal, mode>>
  BY DEF Tick, Settings
<1>3. PICK next : next = Later[room.start]
  OBVIOUS
<1>4. room' = [room EXCEPT !.start = next]
  BY <1>2, <1>3
<1>5. /\ room'.status = room.status /\ room'.sold = room.sold /\ room'.settled = room.settled
      /\ room'.winners = room.winners /\ room'.shown = room.shown /\ room'.price = room.price
  BY <1>1, <1>4 DEF RoomRows
<1>6. r.room = room' /\ r.ticket = ticket /\ g.room = room /\ g.ticket = ticket
  BY <1>2, NextRowsAre, RowsAre
<1> QED BY <1>5, <1>6 DEF Frozen, Still

LEMMA CancelStill == ASSUME NEW g \in AllRows, g = Rows, RoomInv(g), CancelRoom, NEW r, r = Rows' PROVE Still(g, r)
<1>1. PICK h : h = Cancelled(g)
  OBVIOUS
<1>2. Commit(h, AllFree) /\ UNCHANGED <<deal, mode>> /\ g.room.status \notin {"completed", "cancelled"}
  BY <1>1 DEF CancelRoom, Over, Settings
<1>3. Going(g)
  BY <1>2 DEF RoomInv
<1>4. h.room.status = "cancelled" /\ Outcome(g, h)
  BY <1>1, <1>3, CancelledOutcome
<1>5. IF h.refused THEN r = g /\ card' = card ELSE SameState(h, r) /\ card' = AllFree
  BY <1>2, <1>4, Committed DEF Outcome
<1> QED BY <1>4, <1>5 DEF SameState, Still

LEMMA ReleaseStill ==
  ASSUME NEW g \in AllRows, g = Rows, RoomInv(g), NEW t \in Tickets, ReleaseCartela(t), NEW r, r = Rows' PROVE Still(g, r)
<1>1. PICK h : h = [Refund(g, {t}, "cartela") EXCEPT !.room.sold = IF @ > 0 THEN @ - 1 ELSE 0]
  OBVIOUS
<1>2. PICK ce : ce = [card EXCEPT ![g.ticket[t].card] = 0]
  OBVIOUS
<1>3. /\ IsPrefilled(g.mode) /\ g.room.status = "open" /\ g.ticket[t].status = "active" /\ UNCHANGED <<deal, mode>>
      /\ IF RealPlayers(h) = {} THEN Commit(Cancelled(h), AllFree) ELSE Commit(h, ce)
  BY <1>1, <1>2, RowsAre DEF ReleaseCartela, Prefilled, IsPrefilled, Settings
<1>4. Going(g)
  BY <1>3 DEF RoomInv
<1>5. Released(g, h, t)
  BY <1>1, ReleaseEffect
<1>6. Going(h) /\ h \in AllRows /\ h.mode = g.mode
  BY <1>3, <1>4, <1>5, ReleasedGoes
<1>7. h.room.status = g.room.status /\ h.room.settled = g.room.settled
  BY <1>3, <1>4, <1>5, ReleasedGoes
<1>8. CASE RealPlayers(h) = {}
  <2>1. PICK q : q = Cancelled(h)
    OBVIOUS
  <2>2. q \in AllRows /\ q.room.status = "cancelled" /\ Outcome(h, q)
    BY <1>6, <2>1, CancelledOutcome
  <2>3. q.mode = g.mode
    BY <1>6, <2>2 DEF Outcome
  <2>4. IF q.refused THEN r = g /\ card' = card ELSE SameState(q, r) /\ card' = AllFree
    BY <1>3, <1>8, <2>1, <2>2, <2>3, Committed
  <2> QED BY <2>2, <2>4 DEF SameState, Still
<1>9. CASE RealPlayers(h) # {}
  <2>1. Commit(h, ce)
    BY <1>3, <1>9
  <2>2. IF h.refused THEN r = g /\ card' = card ELSE SameState(h, r) /\ card' = ce
    BY <1>3, <1>6, <2>1, Committed
  <2> QED BY <1>3, <1>7, <2>2 DEF SameState, Still
<1> QED BY <1>8, <1>9

LEMMA AutoStill == ASSUME NEW g \in AllRows, g = Rows, NEW u, NEW auto, SetAutoClaim(u, auto), NEW r, r = Rows' PROVE Still(g, r)
<1>1. /\ ticket' = [t \in Tickets |-> IF ticket[t].user = u /\ ticket[t].status = "active" THEN [ticket[t] EXCEPT !.auto = auto] ELSE ticket[t]]
      /\ room' = room
  BY DEF SetAutoClaim
<1>2. ticket \in [Tickets -> TicketRows]
  BY RowsTyped
<1>3. ASSUME NEW t \in Tickets PROVE ticket'[t].status = ticket[t].status /\ ticket'[t].payout = ticket[t].payout
  <2>1. PICK row \in TicketRows : row = ticket[t]
    BY <1>2
  <2>2. PICK new : new = [row EXCEPT !.auto = auto]
    OBVIOUS
  <2>3. new.status = row.status /\ new.payout = row.payout
    BY <2>2 DEF TicketRows
  <2>4. ticket'[t] = new \/ ticket'[t] = row
    BY <1>1, <2>1, <2>2
  <2> QED BY <2>1, <2>3, <2>4
<1>4. r.room = room' /\ r.ticket = ticket' /\ g.room = room /\ g.ticket = ticket
  BY NextRowsAre, RowsAre
<1> QED BY <1>1, <1>3, <1>4 DEF Frozen, Still

LEMMA PurchaseStill == ASSUME NEW g \in AllRows, g = Rows, NEW s, Purchase(s), NEW r, r = Rows' PROVE Still(g, r)
<1>1. PICK sold, start : room' = [room EXCEPT !.sold = sold, !.start = start]
  BY DEF Purchase
<1>2. room \in RoomRows /\ room.status = "open"
  BY RowsTyped DEF Purchase
<1>3. room'.status = room.status /\ room'.settled = room.settled
  BY <1>1, <1>2 DEF RoomRows
<1>4. r.room = room' /\ g.room = room
  BY NextRowsAre, RowsAre
<1> QED BY <1>2, <1>3, <1>4 DEF Still

\* A row saved back that was read before: its price is the room's.
LEMMA EditStill ==
  ASSUME Typed, NEW g \in AllRows, g = Rows, NEW s \in Sessions, EditSave(s), ~Undoes(s), EditsHold(g, call), NEW r, r = Rows'
  PROVE  Still(g, r)
<1>1. PICK e \in CallRecords : e = call[s]
  BY DEF Typed
<1>2. PICK row \in RoomRows : row = e.row
  BY <1>1, CallFields DEF EditSave
<1>3. e.op = "edit" /\ room' = row /\ call' = [call EXCEPT ![s] = Idle] /\ UNCHANGED <<ticket, card, credit, deal, mode>>
  BY <1>1, <1>2 DEF EditSave, Return, Settings
<1>4. call'[s] = Idle
  BY <1>3 DEF Typed
<1>5. [room EXCEPT !.price = 0] = [room' EXCEPT !.price = 0]
  BY <1>1, <1>2, <1>3, <1>4 DEF Undoes
<1>6. room \in RoomRows
  BY RowsTyped
<1>7. PICK x, y : x = [room EXCEPT !.price = 0] /\ y = [row EXCEPT !.price = 0] /\ x = y
  BY <1>3, <1>5
<1>8. x.status = room.status /\ x.sold = room.sold /\ x.settled = room.settled /\ x.winners = room.winners /\ x.shown = room.shown
  BY <1>6, <1>7 DEF RoomRows
<1>9. y.status = row.status /\ y.sold = row.sold /\ y.settled = row.settled /\ y.winners = row.winners /\ y.shown = row.shown
  BY <1>7 DEF RoomRows
<1>10. g.room = room /\ g.ticket = ticket /\ r.room = row /\ r.ticket = ticket
  BY <1>3, NextRowsAre, RowsAre
<1>11. row.status = room.status /\ row.sold = room.sold /\ row.settled = room.settled /\ row.winners = room.winners /\ row.shown = room.shown
  BY <1>7, <1>8, <1>9
<1>12. g.room.status \in {"running", "completed"} => row.price = g.room.price
  <2>1. call[s].op = "edit" /\ call[s].row = row
    BY <1>1, <1>2, <1>3
  <2> QED BY <1>10, <1>11, <2>1 DEF EditsHold
<1>13. Frozen(g, r)
  BY <1>10, <1>11, <1>12 DEF Frozen
<1> QED BY <1>13 DEF Still

\* A call that settles the room with the configuration d, known to V.
LEMMA DrawSplits ==
  ASSUME Typed, NEW g \in AllRows, g = Rows, RoomInv(g), NEW cd, Sales(g, cd, FALSE), IsPrefilled(g.mode), NEW s \in Sessions, DrawNextNumber(s),
         NEW U, SplitBy(g, U), NEW V, U \subseteq V, Settles(s) => call[s].cfg \in V, NEW r, r = Rows'
  PROVE  SplitBy(r, V) /\ Onward(g, r)
<1>1. PICK e \in CallRecords : e = call[s]
  BY DEF Typed
<1>2. e.op = "draw"
  BY <1>1 DEF DrawNextNumber
<1>3. PICK d \in AllConfigs : d = e.cfg
  BY <1>2, CallFields
<1>4. PICK h, cards : h \in DrawOutcomes(d) /\ Commit(h, cards) /\ Return1(s, h)
  BY <1>1, <1>3 DEF DrawNextNumber
<1>5. UNCHANGED <<deal, mode>> /\ g.room = room /\ g.ticket = ticket
  BY RowsAre DEF DrawNextNumber, Settings
<1>6. IF g.room.status \in {"completed", "cancelled"} THEN h = g ELSE Outcome(g, h) /\ Sharing(g, h, d)
  BY <1>4, DrawOutcome
<1>7. h \in AllRows /\ h.mode = g.mode
  BY <1>6 DEF Outcome
<1>8. IF h.refused THEN r = g ELSE SameState(h, r)
  BY <1>4, <1>5, <1>7, Committed
<1>9. CASE h.refused \/ h = g \/ (room' = room /\ ticket' = ticket)
  <2>1. r.room = room' /\ r.ticket = ticket'
    BY NextRowsAre
  <2>2. ASSUME h = g PROVE r = g \/ (r.room = g.room /\ r.ticket = g.ticket)
    BY <1>4, <1>5, <2>1, <2>2 DEF Commit
  <2>3. r = g \/ (r.room = g.room /\ r.ticket = g.ticket)
    BY <1>5, <1>8, <1>9, <2>1, <2>2
  <2>4. Still(g, r)
    BY <2>3, SameFrozen DEF Still
  <2> QED BY <2>4, StillGoesOn
<1>10. CASE h.room.status = "cancelled"
  <2>1. Still(g, r)
    BY <1>8, <1>10 DEF Still, SameState
  <2> QED BY <2>1, StillGoesOn
<1>11. CASE ~h.refused /\ h # g /\ ~(room' = room /\ ticket' = ticket) /\ h.room.status # "cancelled"
  <2>1. Sharing(g, h, d) /\ g.room.status \in {"open", "running"}
    <3>1. g.room.status \in {"open", "running", "completed", "cancelled"}
      BY RowFields, RoomFields
    <3> QED BY <1>6, <1>11, <3>1
  <2>2. Settles(s)
    <3>1. PICK new : new = IF h.room.status = "completed" /\ ~h.refused THEN [op |-> "commission", todo |-> Agents] ELSE Idle
      OBVIOUS
    <3>2. call'[s] = new
      BY <1>4, <3>1 DEF Typed, Return1
    <3>3. new.op # "draw"
      BY <3>1 DEF Idle
    <3> QED BY <1>1, <1>2, <1>11, <3>2, <3>3 DEF Settles
  <2>3. d \in V
    BY <1>1, <1>3, <2>2
  <2>4. g.room.sold > 0
    <3>1. CASE g.room.status = "running"
      BY <3>1 DEF SplitBy
    <3>2. CASE g.room.status = "open"
      <4>1. ASSUME Live(g) = {} PROVE FALSE
        <5>1. h = g
          BY <1>4, <1>5, <3>2, <4>1 DEF DrawOutcomes, Over
        <5> QED BY <1>11, <5>1
      <4>2. g.room.sold = Cardinality(InHand(g.ticket))
        BY <3>2 DEF Sales
      <4>3. Live(g) = InHand(g.ticket)
        BY DEF Live, InHand
      <4>4. IsFiniteSet(InHand(g.ticket))
        BY FS_Subset, SettlementAssumption DEF InHand
      <4>5. Cardinality(InHand(g.ticket)) \in Nat /\ Cardinality(InHand(g.ticket)) # 0
        BY <4>1, <4>3, <4>4, FS_EmptySet, FS_CardinalityType
      <4> QED BY <4>2, <4>5
    <3> QED BY <2>1, <3>1, <3>2
  <2>5. SplitBy(h, V) /\ Onward(g, h)
    BY <2>1, <2>3, <2>4, SettledSplit, SettledOnward
  <2>6. r.room = h.room /\ r.ticket = h.ticket
    BY <1>4, <1>11, NextRowsAre DEF Commit
  <2>7. SplitBy(r, V)
    BY <1>7, <2>5, <2>6, SameFrozen, FrozenSplit
  <2> QED BY <2>5, <2>6, <2>7 DEF Onward
<1> QED BY <1>9, <1>10, <1>11

LEMMA ClaimSplits ==
  ASSUME Typed, NEW g \in AllRows, g = Rows, RoomInv(g), NEW s \in Sessions, ClaimBingo(s),
         NEW U, SplitBy(g, U), NEW V, U \subseteq V, Settles(s) => call[s].cfg \in V, NEW r, r = Rows'
  PROVE  SplitBy(r, V) /\ Onward(g, r)
<1>1. PICK e \in CallRecords : e = call[s]
  BY DEF Typed
<1>2. e.op = "claim"
  BY <1>1 DEF ClaimBingo
<1>3. PICK d \in AllConfigs : d = e.cfg
  BY <1>2, CallFields
<1>4. PICK t \in Tickets : t = e.t
  BY <1>2, CallFields
<1>5. PICK h \in ClaimOutcomes(t, d) : Commit(h, card) /\ Return1(s, h)
  BY <1>1, <1>3, <1>4 DEF ClaimBingo
<1>6. UNCHANGED <<deal, mode>> /\ IsPrefilled(g.mode) /\ g.room.status = "running" /\ g.room = room /\ g.ticket = ticket
  BY RowsAre DEF ClaimBingo, Settings, Prefilled, IsPrefilled
<1>7. Outcome(g, h) /\ Sharing(g, h, d)
  BY <1>6, ClaimOutcome
<1>8. h \in AllRows /\ h.mode = g.mode
  BY <1>7 DEF Outcome
<1>9. IF h.refused THEN r = g ELSE SameState(h, r)
  BY <1>5, <1>6, <1>8, Committed
<1>10. CASE h.refused \/ (room' = room /\ ticket' = ticket)
  <2>1. r = g \/ (r.room = g.room /\ r.ticket = g.ticket)
    BY <1>6, <1>9, <1>10, NextRowsAre
  <2>2. Still(g, r)
    BY <2>1, SameFrozen DEF Still
  <2> QED BY <2>2, StillGoesOn
<1>11. CASE ~h.refused /\ ~(room' = room /\ ticket' = ticket)
  <2>1. Settles(s)
    <3>1. PICK new : new = IF h.room.status = "completed" /\ ~h.refused THEN [op |-> "commission", todo |-> Agents] ELSE Idle
      OBVIOUS
    <3>2. call'[s] = new
      BY <1>5, <3>1 DEF Typed, Return1
    <3>3. new.op # "claim"
      BY <3>1 DEF Idle
    <3> QED BY <1>1, <1>2, <1>11, <3>2, <3>3 DEF Settles
  <2>2. d \in V /\ g.room.sold > 0
    BY <1>1, <1>3, <1>6, <2>1 DEF SplitBy
  <2>3. SplitBy(h, V) /\ Onward(g, h)
    BY <1>6, <1>7, <2>2, SettledSplit, SettledOnward
  <2>4. r.room = h.room /\ r.ticket = h.ticket
    BY <1>5, <1>11, NextRowsAre DEF Commit
  <2>5. SplitBy(r, V)
    BY <1>8, <2>3, <2>4, SameFrozen, FrozenSplit
  <2> QED BY <2>3, <2>4, <2>5 DEF Onward
<1> QED BY <1>10, <1>11

\* However calls overlap, the places keep the prizes of the configurations V.
LEMMA StepSplits ==
  ASSUME Typed, NEW g \in AllRows, g = Rows, RoomInv(g), NEW cd, Sales(g, cd, FALSE), IsPrefilled(g.mode), Next, \A s \in Sessions : ~Undoes(s),
         EditsHold(g, call), NEW U, SplitBy(g, U), NEW V, U \subseteq V, \A s \in Sessions : Settles(s) => call[s].cfg \in V, NEW r, r = Rows'
  PROVE  SplitBy(r, V) /\ Onward(g, r)
<1>1. ASSUME Still(g, r) PROVE SplitBy(r, V) /\ Onward(g, r)
  BY <1>1, StillGoesOn
<1>2. ASSUME UNCHANGED <<room, ticket>> PROVE Still(g, r)
  <2>1. r.room = g.room /\ r.ticket = g.ticket
    BY <1>2, NextRowsAre, RowsAre
  <2> QED BY <2>1, SameFrozen DEF Still
<1>3. CASE Tick \/ CancelRoom \/ Reap \/ \E t \in Tickets : ReleaseCartela(t)
  BY <1>1, <1>3, TickStill, CancelStill, ReleaseStill DEF Reap
<1>4. CASE \E u \in Users, auto \in BOOLEAN : SetAutoClaim(u, auto)
  BY <1>1, <1>4, AutoStill
<1>5. CASE \/ \E c \in Configs : UpdateBingoConfig(c)
           \/ \E s \in Clients, u \in Users, n \in 1..Cardinality(Cards) : PurchaseRead(s, u, n)
           \/ \E s \in Clients, t \in Tickets : ClaimRead(s, t)
           \/ \E s \in Schedulers \cup Admins : DrawRead(s)
           \/ \E s \in Admins, price \in Prices : EditRead(s, price)
  <2>1. UNCHANGED <<room, ticket>>
    BY <1>5 DEF UpdateBingoConfig, PurchaseRead, ClaimRead, DrawRead, EditRead, rows
  <2> QED BY <1>1, <1>2, <2>1
<1>6. ASSUME NEW s \in Sessions, Purchase(s) \/ EditSave(s) PROVE SplitBy(r, V) /\ Onward(g, r)
  BY <1>1, <1>6, PurchaseStill, EditStill
<1>7. ASSUME NEW s \in Sessions, DrawNextNumber(s) PROVE SplitBy(r, V) /\ Onward(g, r)
  BY <1>7, DrawSplits
<1>8. ASSUME NEW s \in Sessions, ClaimBingo(s) PROVE SplitBy(r, V) /\ Onward(g, r)
  BY <1>8, ClaimSplits
<1>9. ASSUME NEW s \in Sessions, Refuse(s) \/ (\E a \in Agents : SettleReferralCommission(s, a)) \/ CommissionFails(s) \/ Die(s)
      PROVE  SplitBy(r, V) /\ Onward(g, r)
  <2>1. UNCHANGED <<room, ticket>>
    BY <1>9 DEF Refuse, SettleReferralCommission, CommissionFails, Die, rows
  <2> QED BY <1>1, <1>2, <2>1
<1> QED BY <1>3, <1>4, <1>5, <1>6, <1>7, <1>8, <1>9 DEF Next, Finish

LEMMA EditsStay ==
  ASSUME Typed, NEW g \in AllRows, g = Rows, Next, EditsHold(g, call), NEW U, SplitBy(g, U), NEW r, r = Rows', Onward(g, r)
  PROVE  EditsHold(r, call')
<1>1. room \in RoomRows /\ g.room = room
  BY RowsTyped, RowsAre
<1>2. SUFFICES ASSUME NEW s \in Sessions, call'[s].op = "edit", call'[s].row.status \in {"running", "completed"}
      PROVE  /\ r.room.status # "open"
             /\ r.room.status \in {"running", "completed"} => call'[s].row.price = r.room.price
  BY DEF EditsHold
<1>3. CASE call'[s] = call[s]
  <2>1. /\ g.room.status # "open"
        /\ g.room.status \in {"running", "completed"} => call[s].row.price = g.room.price
    BY <1>2, <1>3 DEF EditsHold
  <2>2. g.room.status \in {"open", "running", "completed", "cancelled"}
    BY RowFields, RoomFields
  <2> QED BY <1>3, <2>1, <2>2 DEF Onward
<1>4. ASSUME NEW price \in Prices, EditRead(s, price)
      PROVE  /\ r.room.status # "open"
             /\ r.room.status \in {"running", "completed"} => call'[s].row.price = r.room.price
  <2>1. PICK row : row = [room EXCEPT !.price = price]
    OBVIOUS
  <2>2. row.status = room.status /\ row.price = price
    BY <1>1, <2>1 DEF RoomRows
  <2>3. call'[s].row = row /\ room' = room /\ (price = room.price \/ room.sold = 0)
    <3>1. PICK c : c = [op |-> "edit", row |-> row]
      OBVIOUS
    <3>2. call'[s] = c
      BY <1>4, <2>1, <3>1 DEF EditRead, Call, Typed
    <3> QED BY <1>4, <3>1, <3>2 DEF EditRead, rows
  <2>4. r.room = room
    BY <2>3, NextRowsAre
  <2>5. room.status \in {"running", "completed"} => price = room.price
    BY <1>1, <2>3, RoomFields DEF SplitBy
  <2> QED BY <1>2, <2>2, <2>3, <2>4, <2>5
<1> QED BY <1>1, <1>2, <1>3, <1>4, EditsAre

\* The invariant of the split, on top of NotedInv.
SplitInv == ~undone /\ ~drifted /\ IsPrefilled(mode) => \A g, U : g = Rows /\ U = used => SplitBy(g, U) /\ EditsHold(g, call) /\ U \subseteq AllConfigs

LEMMA StartSplit == NotedInit => SplitInv
<1> SUFFICES ASSUME NotedInit, NEW g, g = Rows, NEW U, U = used PROVE SplitBy(g, U) /\ EditsHold(g, call) /\ U \subseteq AllConfigs
  BY DEF SplitInv
<1>0. U = {}
  BY DEF NotedInit
<1>1. g.room.status = "open" /\ g.room.settled = {}
  <2>1. g.room = room
    BY RowsAre
  <2>2. PICK p : room = NewRoom(p)
    BY DEF NotedInit, Init
  <2> QED BY <2>1, <2>2 DEF NewRoom
<1>2. \A s \in Sessions : call[s].op # "edit"
  BY DEF NotedInit, Init, Idle
<1> QED BY <1>0, <1>1, <1>2 DEF SplitBy, SplitAs, EditsHold

LEMMA KeepsSplit == NotedInv /\ SplitInv /\ [NotedNext]_<<vars, used, undone, drifted>> => SplitInv'
<1> SUFFICES ASSUME NotedInv, SplitInv, [NotedNext]_<<vars, used, undone, drifted>> PROVE SplitInv'
  OBVIOUS
<1>1. CASE NotedNext
  <2> SUFFICES ASSUME ~undone', ~drifted', IsPrefilled(mode')
      PROVE  \A g, U : g = Rows' /\ U = used' => SplitBy(g, U) /\ EditsHold(g, call') /\ U \subseteq AllConfigs
    BY DEF SplitInv
  <2>1. /\ Next /\ ~undone /\ ~drifted /\ \A s \in Sessions : ~Undoes(s)
        /\ used' = used \cup {call[s].cfg : s \in {q \in Sessions : Settles(q)}}
    BY <1>1 DEF NotedNext
  <2>2. mode' = mode
    BY <2>1 DEF Next, Tick, CancelRoom, Reap, ReleaseCartela, SetAutoClaim, UpdateBingoConfig, PurchaseRead, ClaimRead, DrawRead, EditRead,
       Finish, Purchase, DrawNextNumber, ClaimBingo, EditSave, Refuse, SettleReferralCommission, CommissionFails, Die, Settings
  <2>3. PICK g, cd, dr : g = Rows /\ cd = card /\ dr = drifted
    OBVIOUS
  <2>4. Typed /\ Right(g, cd, dr)
    BY <2>1, <2>3 DEF NotedInv
  <2>5. g \in AllRows /\ RoomInv(g) /\ Sales(g, cd, FALSE) /\ IsPrefilled(g.mode)
    BY <2>1, <2>2, <2>3, <2>4, RowsAre DEF Right, Sales
  <2>6. PICK U : U = used
    OBVIOUS
  <2>7. SplitBy(g, U) /\ EditsHold(g, call) /\ U \subseteq AllConfigs
    BY <2>1, <2>2, <2>3, <2>6 DEF SplitInv
  <2>8. PICK r, V : r = Rows' /\ V = used'
    OBVIOUS
  <2>9. U \subseteq V /\ \A s \in Sessions : Settles(s) => call[s].cfg \in V
    BY <2>1, <2>6, <2>8
  <2>10. SplitBy(r, V) /\ Onward(g, r)
    <3>1. Typed /\ Next /\ \A s \in Sessions : ~Undoes(s)
      BY <2>1, <2>4
    <3>2. g \in AllRows /\ g = Rows /\ RoomInv(g) /\ Sales(g, cd, FALSE) /\ IsPrefilled(g.mode)
      BY <2>3, <2>5
    <3>3. SplitBy(g, U) /\ EditsHold(g, call) /\ U \subseteq V /\ \A s \in Sessions : Settles(s) => call[s].cfg \in V
      BY <2>7, <2>9
    <3> QED BY <2>8, <3>1, <3>2, <3>3, StepSplits
  <2>11. EditsHold(r, call')
    BY <2>1, <2>3, <2>4, <2>5, <2>7, <2>8, <2>10, EditsStay
  <2>12. V \subseteq AllConfigs
    <3>1. ASSUME NEW s \in Sessions, Settles(s) PROVE call[s].cfg \in AllConfigs
      <4>1. PICK e \in CallRecords : e = call[s] /\ e.op \in {"draw", "claim"}
        BY <2>4, <3>1 DEF Typed, Settles
      <4> QED BY <4>1, CallFields
    <3> QED BY <2>1, <2>6, <2>7, <2>8, <3>1
  <2> QED BY <2>8, <2>10, <2>11, <2>12
<1>2. CASE UNCHANGED <<vars, used, undone, drifted>>
  <2>1. UNCHANGED <<room, ticket, credit, deal, mode, call, used, undone, drifted>>
    BY <1>2 DEF vars, rows
  <2>2. Rows' = Rows
    BY <2>1 DEF Rows
  <2> QED BY <2>1, <2>2 DEF SplitInv
<1> QED BY <1>1, <1>2

LEMMA SplitHolds == NotedSpec => [](NotedInv /\ SplitInv)
<1>1. NotedInv /\ NotedInv' /\ SplitInv /\ [NotedNext]_<<vars, used, undone, drifted>> => SplitInv'
  BY KeepsSplit
<1> QED BY <1>1, StartSplit, NotedInvHolds, PTL DEF NotedSpec

-----------------------------------------------------------------------------
(* The prizes of the places, added up.                                      *)

LEMMA CancelFactor == ASSUME NEW a \in Nat, NEW b \in Nat, NEW n \in Nat \ {0}, a * n <= b * n PROVE a <= b
<1> SUFFICES ASSUME b + 1 <= a PROVE FALSE
  OBVIOUS
<1>1. (b + 1) * n <= a * n
  BY TimesGrows
<1>2. (b + 1) * n = b * n + n
  OBVIOUS
<1>3. PICK x, y : x = a * n /\ y = b * n
  OBVIOUS
<1>4. x \in Nat /\ y \in Nat
  BY <1>3
<1> QED BY <1>1, <1>2, <1>3, <1>4

LEMMA SumOneMore ==
  ASSUME NEW a, NEW b, NEW S, IsFiniteSet(S), \A i \in S : a[i] \in Nat /\ b[i] = a[i] + 1
  PROVE  SumFunctionOnSet(b, S) = SumFunctionOnSet(a, S) + Cardinality(S)
<1> DEFINE G == {U \in SUBSET S : SumFunctionOnSet(b, U) = SumFunctionOnSet(a, U) + Cardinality(U)}
<1>1. {} \in G
  BY SumEmpty, FS_EmptySet
<1>2. ASSUME NEW U \in G, NEW y \in S, y \notin U PROVE U \cup {y} \in G
  <2>1. U \in SUBSET S /\ SumFunctionOnSet(b, U) = SumFunctionOnSet(a, U) + Cardinality(U) /\ IsFiniteSet(U)
    BY FS_Subset
  <2>2. \A x \in U \cup {y} : a[x] \in Int /\ b[x] \in Int
    BY <2>1
  <2>3. SumFunctionOnSet(a, U \cup {y}) = SumFunctionOnSet(a, U) + a[y]
    BY <1>2, <2>1, <2>2, SumAdd
  <2>4. SumFunctionOnSet(b, U \cup {y}) = SumFunctionOnSet(b, U) + b[y]
    BY <1>2, <2>1, <2>2, SumAdd
  <2>5. Cardinality(U \cup {y}) = Cardinality(U) + 1 /\ Cardinality(U) \in Nat
    BY <1>2, <2>1, FS_AddElement, FS_CardinalityType
  <2>6. SumFunctionOnSet(a, U) \in Int
    BY <2>1, <2>2, SumInt
  <2>7. a[y] \in Nat /\ b[y] = a[y] + 1
    OBVIOUS
  <2>8. PICK k \in Nat, n \in Int, m \in Nat : k = Cardinality(U) /\ n = SumFunctionOnSet(a, U) /\ m = a[y]
    BY <2>5, <2>6, <2>7
  <2>9. SumFunctionOnSet(b, U \cup {y}) = SumFunctionOnSet(a, U \cup {y}) + Cardinality(U \cup {y})
    BY <2>1, <2>3, <2>4, <2>5, <2>7, <2>8
  <2> QED BY <2>1, <2>9
<1>3. G \in SUBSET (SUBSET S)
  OBVIOUS
<1> HIDE DEF G
<1>4. \A U \in G, y \in S : y \notin U => U \cup {y} \in G
  BY <1>2
<1>5. S \in G
  BY <1>1, <1>3, <1>4, SubsetsGrow
<1> QED BY <1>5 DEF G

\* computePrefilledFinalPrizeMinor: the prizes of the filled places add up to the pool,
\* a unit less at most for each of them.
LEMMA SharesAddUp ==
  ASSUME NEW S, IsFiniteSet(S), NEW pool \in Nat, NEW total \in Nat \ {0}, NEW w, NEW a,
         \A i \in S : w[i] \in Nat /\ a[i] = (pool * w[i]) \div total, SumFunctionOnSet(w, S) = total
  PROVE  SumFunctionOnSet(a, S) \in (pool - Cardinality(S))..pool
<1>1. ASSUME NEW i \in S PROVE a[i] \in Nat /\ a[i] * total <= pool * w[i] /\ pool * w[i] <= a[i] * total + (total - 1)
  <2>1. PICK b : b = pool * w[i]
    OBVIOUS
  <2>2. b \in Nat
    BY <2>1
  <2>3. PICK q : q = a[i]
    OBVIOUS
  <2>4. q = b \div total
    BY <2>1, <2>3
  <2> QED BY <2>1, <2>2, <2>3, <2>4, Quotient
<1>2. PICK sum : sum = SumFunctionOnSet(a, S)
  OBVIOUS
<1>3. sum \in Nat /\ sum <= pool
  <2>1. sum \in Nat /\ sum * total <= pool * total
    BY <1>1, <1>2, SharesWithin
  <2> QED BY <2>1, CancelFactor
<1>4. PICK n \in Nat : n = Cardinality(S)
  BY FS_CardinalityType
<1>5. pool <= sum + n
  <2>1. PICK b : b = [i \in S |-> a[i] + 1]
    OBVIOUS
  <2>2. SumFunctionOnSet(b, S) = sum + n
    BY <1>1, <1>2, <1>4, <2>1, SumOneMore
  <2>3. ASSUME NEW i \in S PROVE w[i] \in Nat /\ b[i] \in Nat /\ w[i] * pool <= total * b[i]
    <3>1. PICK x, y, z : x = w[i] /\ y = a[i] /\ z = b[i]
      OBVIOUS
    <3>2. x \in Nat /\ y \in Nat /\ z = y + 1 /\ pool * x <= y * total + (total - 1)
      BY <1>1, <2>1, <3>1
    <3>3. x * pool = pool * x /\ total * z = y * total + total
      BY <3>2
    <3>4. PICK u, v : u = pool * x /\ v = y * total
      OBVIOUS
    <3>5. u \in Nat /\ v \in Nat
      BY <3>2, <3>4
    <3>6. x * pool <= total * z
      BY <3>2, <3>3, <3>4, <3>5
    <3> QED BY <3>1, <3>2, <3>6
  <2>4. \A i \in S : w[i] \in Nat /\ b[i] \in Nat /\ b[i] \in Int
    BY <2>3
  <2>5. SumFunctionOnSet(w, S) * pool <= total * SumFunctionOnSet(b, S)
    BY <2>3, <2>4, SharesWithin
  <2>6. pool * total <= (sum + n) * total
    BY <1>3, <2>2, <2>5
  <2> QED BY <1>3, <2>6, CancelFactor
<1> QED BY <1>2, <1>3, <1>4, <1>5

LEMMA PoolGoesOut ==
  ASSUME NEW g \in AllRows, NEW c \in AllConfigs, SplitFinal(g, c), Weight(c, g.room.settled) > 0
  PROVE  SumFunctionOnSet(g.room.shown, g.room.settled) \in (Pool(g) - Cardinality(g.room.settled))..Pool(g)
<1>1. PICK S \in SUBSET Places : S = g.room.settled
  BY RowFields, RoomFields
<1>2. IsFiniteSet(S)
  BY PlacesFinite
<1>3. PICK total \in Nat \ {0} : total = Weight(c, S)
  BY <1>1, WeightNat
<1>4. PICK pool \in Nat : pool = Pool(g)
  BY PoolNat
<1>5. PICK w, a : w = c.weight /\ a = g.room.shown
  OBVIOUS
<1>6. ASSUME NEW i \in S PROVE w[i] \in Nat /\ a[i] = (pool * w[i]) \div total
  <2>1. a[i] = FinalPrize(g, i, c)
    BY <1>1, <1>5 DEF SplitFinal, SplitUpTo, Priced
  <2>2. w[i] \in Nat
    BY <1>5 DEF AllConfigs
  <2> QED BY <1>1, <1>3, <1>4, <1>5, <2>1, <2>2 DEF FinalPrize, Share
<1>7. SumFunctionOnSet(w, S) = total
  BY <1>3, <1>5 DEF Weight
<1>8. SumFunctionOnSet(a, S) \in (pool - Cardinality(S))..pool
  BY <1>2, <1>6, <1>7, SharesAddUp
<1> QED BY <1>1, <1>4, <1>5, <1>8

LEMMA PartOfSum ==
  ASSUME NEW f, NEW S \in SUBSET Places, NEW T \in SUBSET S, \A p \in S : f[p] \in Nat
  PROVE  SumFunctionOnSet(f, T) <= SumFunctionOnSet(f, S)
<1>1. PICK R \in SUBSET S : T \cup R = S /\ T \cap R = {}
  <2>1. S \ T \in SUBSET S /\ T \cup (S \ T) = S /\ T \cap (S \ T) = {}
    OBVIOUS
  <2> QED BY <2>1
<1>2. IsFiniteSet(T) /\ IsFiniteSet(R)
  BY PlacesFinite
<1>3. SumFunctionOnSet(f, T \cup R) = SumFunctionOnSet(f, T) + SumFunctionOnSet(f, R)
  BY <1>1, <1>2, SumUnion
<1>4. SumFunctionOnSet(f, T) \in Nat /\ SumFunctionOnSet(f, R) \in Nat
  BY <1>2, SumNat
<1>5. PICK x \in Nat, y \in Nat : x = SumFunctionOnSet(f, T) /\ y = SumFunctionOnSet(f, R)
  BY <1>4
<1>6. SumFunctionOnSet(f, S) = x + y
  BY <1>1, <1>3, <1>5
<1> QED BY <1>5, <1>6

\* What the tickets were paid is part of the prizes of the places.
LEMMA PaidOfShown ==
  ASSUME NEW g \in AllRows, Seats(g), NEW f, \A t \in Tickets : f[t] = g.ticket[t].payout,
         \A t \in Tickets : g.ticket[t].status # "won" => g.ticket[t].payout = 0,
         \A p \in g.room.settled : \A t \in g.room.winners[p] : g.ticket[t].payout = g.room.shown[p]
  PROVE  SumFunctionOnSet(f, Tickets) <= SumFunctionOnSet(g.room.shown, g.room.settled)
<1>1. PICK W \in SUBSET Tickets : \A t \in Tickets : t \in W <=> g.ticket[t].status = "won"
  <2>1. {t \in Tickets : g.ticket[t].status = "won"} \in SUBSET Tickets
    OBVIOUS
  <2> QED BY <2>1
<1>2. \A t \in Tickets : f[t] \in Nat /\ f[t] = g.ticket[t].payout
  BY RowFields, TicketFields
<1>3. IsFiniteSet(W) /\ SumFunctionOnSet(f, Tickets) = SumFunctionOnSet(f, W)
  <2>1. \A t \in Tickets \ W : f[t] = 0
    BY <1>1
  <2>2. \A t \in W : f[t] \in Int
    BY <1>2
  <2> QED BY <2>1, <2>2, SettlementAssumption, SumOmit
<1>4. PICK h : h = [t \in W |-> CHOOSE p \in g.ticket[t].tiers : TRUE]
  OBVIOUS
<1>5. ASSUME NEW t \in W PROVE h[t] \in g.ticket[t].tiers /\ h[t] \in g.room.settled /\ g.room.winners[h[t]] = {t} /\ g.room.shown[h[t]] = f[t]
  <2>1. g.ticket[t].tiers # {}
    BY <1>1 DEF Seats
  <2>2. h[t] \in g.ticket[t].tiers
    BY <1>4, <2>1
  <2>3. h[t] \in g.room.settled /\ g.room.winners[h[t]] = {t}
    BY <2>2 DEF Seats
  <2>4. g.ticket[t].payout = g.room.shown[h[t]]
    BY <2>3
  <2> QED BY <2>2, <2>3, <2>4
<1>6. PICK T : T = {h[t] : t \in W}
  OBVIOUS
<1>7. PICK shown : shown = g.room.shown
  OBVIOUS
<1>8. Carries(h, W, T, f, shown)
  <2>1. ASSUME NEW t \in W, NEW u \in W, h[t] = h[u] PROVE t = u
    <3>1. g.room.winners[h[t]] = {t} /\ g.room.winners[h[u]] = {u}
      BY <1>5
    <3>2. {t} = {u}
      BY <2>1, <3>1
    <3> QED BY <3>2
  <2>2. \A t \in W : f[t] \in Int /\ shown[h[t]] = f[t]
    BY <1>2, <1>5, <1>7
  <2> QED BY <1>6, <2>1, <2>2 DEF Carries
<1>9. SumFunctionOnSet(shown, T) = SumFunctionOnSet(f, W)
  BY <1>3, <1>8, SumMapped
<1>10. PICK S \in SUBSET Places : S = g.room.settled
  BY RowFields, RoomFields
<1>11. T \in SUBSET S /\ \A p \in S : shown[p] \in Nat
  <2>1. shown \in [Places -> Nat]
    BY <1>7, RowFields, RoomFields
  <2> QED BY <1>5, <1>6, <1>10, <2>1
<1>12. SumFunctionOnSet(shown, T) <= SumFunctionOnSet(shown, S)
  BY <1>11, PartOfSum
<1> QED BY <1>3, <1>7, <1>9, <1>10, <1>12

-----------------------------------------------------------------------------
(* What the runs check, for every instance.                                 *)

LEMMA KindsOfKeys ==
  /\ {k \in CreditKeys : k[1] \in {"settlement", "reconcile"}} = PrizeKeys
  /\ {k \in CreditKeys : k[1] \in {"refund", "noresult", "cartela"}} = RefundKeys
<1>1. \A k \in PrizeKeys : k[1] \in {"settlement", "reconcile"} /\ k \in CreditKeys
  BY DEF PrizeKeys, CreditKeys
<1>2. \A k \in RefundKeys : k[1] \in {"refund", "noresult", "cartela"} /\ k \in CreditKeys
  BY DEF RefundKeys, CreditKeys
<1>3. \A k \in CreditKeys : k \in PrizeKeys \/ k \in RefundKeys
  BY DEF PrizeKeys, RefundKeys, CreditKeys
<1> QED BY <1>1, <1>2, <1>3

LEMMA RightMatches == ASSUME NEW g, g = Rows, NEW cd, NEW dr, Right(g, cd, dr) PROVE TicketsMatchCredits
<1>1. g \in AllRows /\ RoomInv(g) /\ g.room = room /\ g.ticket = ticket /\ g.credit = credit /\ g.mode = mode
  BY RowsAre DEF Right
<1> SUFFICES ASSUME NEW t \in Tickets, ~(mode = "pattern" /\ room.status = "cancelled" /\ ticket[t].payout > 0) PROVE Matches(t)
  BY DEF TicketsMatchCredits
<1>2. PICK row \in TicketRows : row = ticket[t]
  BY <1>1, RowFields
<1>3. PICK x : x = credit[t]
  OBVIOUS
<1>4. MoneyRight(g)
  BY <1>1 DEF RoomInv, Going, Ended
<1>5. Money(row, x, mode)
  BY <1>1, <1>2, <1>3, <1>4 DEF MoneyRight
<1>6. Prizes(t) = SumFunctionOnSet(x, PrizeKeys)
  BY <1>3, KindsOfKeys, Zenon DEF Prizes, CreditedBy
<1>7. CreditedBy(t, {"refund", "noresult", "cartela"}) = SumFunctionOnSet(x, RefundKeys)
  BY <1>3, KindsOfKeys, Zenon DEF CreditedBy
<1>8. Prizes(t) = row.payout
  BY <1>5, <1>6 DEF Money
<1>9. ASSUME row.status # "won" PROVE row.payout = 0
  <2>1. row.payout = 0 \/ (mode = "pattern" /\ row.status = "cancelled")
    BY <1>5, <1>9 DEF Money
  <2>2. ASSUME mode = "pattern", row.status = "cancelled" PROVE room.status = "cancelled"
    <3>1. CASE room.status \in {"completed", "cancelled"}
      BY <1>1, <1>2, <2>2, <3>1 DEF RoomInv, Ended
    <3>2. CASE room.status \notin {"completed", "cancelled"}
      BY <1>1, <1>2, <2>2, <3>2 DEF RoomInv, Going, Waits
    <3> QED BY <3>1, <3>2
  <2>3. row.payout \in Nat
    BY TicketFields
  <2> QED BY <1>2, <2>1, <2>2, <2>3
<1>10. SumFunctionOnSet(x, RefundKeys) = IF row.status = "cancelled" THEN row.stake ELSE 0
  <2>1. ASSUME row.status # "cancelled" PROVE SumFunctionOnSet(x, RefundKeys) = 0
    <3>1. \A k \in RefundKeys : x[k] = 0
      BY <1>5, <2>1 DEF Money
    <3> QED BY <3>1, KeysAreFinite, SumZero
  <2>2. row.status = "cancelled" => SumFunctionOnSet(x, RefundKeys) = row.stake
    BY <1>5 DEF Money
  <2> QED BY <2>1, <2>2
<1> QED BY <1>2, <1>7, <1>8, <1>9, <1>10 DEF Matches

\* drawNextNumber, claimBingo, cancelRoom, releaseCartela: the credits of every ticket's
\* owner add up to what its row says, however calls overlap.
THEOREM CreditsAreMatched == NotedSpec => []TicketsMatchCredits
<1>1. NotedInv => TicketsMatchCredits
  <2>1. ASSUME undone PROVE TicketsMatchCredits
    BY <2>1 DEF TicketsMatchCredits
  <2>2. ASSUME NotedInv, ~undone PROVE TicketsMatchCredits
    <3>1. PICK g, cd, dr : g = Rows /\ cd = card /\ dr = drifted
      OBVIOUS
    <3>2. Right(g, cd, dr)
      BY <2>2, <3>1 DEF NotedInv
    <3> QED BY <3>1, <3>2, RightMatches
  <2> QED BY <2>1, <2>2
<1> QED BY <1>1, NotedInvHolds, PTL

LEMMA RightSeats == ASSUME NEW g, g = Rows, NEW cd, NEW dr, Right(g, cd, dr) PROVE OneWinnerEach
<1>1. RoomInv(g) /\ g \in AllRows /\ g.room = room /\ g.ticket = ticket /\ g.credit = credit /\ g.mode = mode
  BY RowsAre DEF Right
<1> SUFFICES ASSUME Prefilled
    PROVE  /\ \A p \in Places : \A t \in room.winners[p] : room.winners[p] = {t}
           /\ \A t \in Tickets : Prizes(t) > 0 => \E p \in room.settled : room.winners[p] = {t}
           /\ \A p, q \in Places : \A t \in room.winners[p], u \in room.winners[q] :
                p # q /\ ticket[t].user \in Bots => ticket[u].user # ticket[t].user
  BY DEF OneWinnerEach
<1>2. Seats(g) /\ MoneyRight(g)
  BY <1>1 DEF RoomInv, Going, Ended, Prefilled, IsPrefilled
<1>3. ASSUME NEW p \in Places, NEW t \in room.winners[p] PROVE room.winners[p] = {t}
  <2>1. t \in Tickets
    BY <1>1, <1>3, RowFields, RoomFields
  <2>2. p \in ticket[t].tiers
    BY <1>1, <1>2, <1>3 DEF Seats
  <2> QED BY <1>1, <1>2, <2>1, <2>2 DEF Seats
<1>4. ASSUME NEW t \in Tickets, Prizes(t) > 0 PROVE \E p \in room.settled : room.winners[p] = {t}
  <2>1. PICK x, row : x = credit[t] /\ row = g.ticket[t]
    OBVIOUS
  <2>2. Money(row, x, g.mode)
    BY <1>1, <1>2, <2>1 DEF MoneyRight
  <2>3. Prizes(t) = SumFunctionOnSet(x, PrizeKeys)
    BY <2>1, KindsOfKeys, Zenon DEF Prizes, CreditedBy
  <2>4. row.payout # 0
    BY <1>4, <2>2, <2>3 DEF Money
  <2>5. row.status = "won"
    BY <1>1, <2>2, <2>4 DEF Money, Prefilled
  <2>6. PICK p : p \in g.ticket[t].tiers
    BY <1>2, <2>1, <2>5 DEF Seats
  <2> QED BY <1>1, <1>2, <2>6 DEF Seats
<1>5. ASSUME NEW p \in Places, NEW q \in Places, NEW t \in room.winners[p], NEW u \in room.winners[q], p # q, ticket[t].user \in Bots
      PROVE  ticket[u].user # ticket[t].user
  BY <1>1, <1>2, <1>5 DEF Seats
<1> QED BY <1>3, <1>4, <1>5

\* awardDerashPlace: however ticks and claims compete, a place has one card at most, a
\* card that was paid has a place, and no bot has two.
THEOREM PlacesAreApart == NotedSpec => []OneWinnerEach
<1>1. NotedInv => OneWinnerEach
  <2>1. ASSUME undone PROVE OneWinnerEach
    BY <2>1 DEF OneWinnerEach
  <2>2. ASSUME NotedInv, ~undone PROVE OneWinnerEach
    <3>1. PICK g, cd, dr : g = Rows /\ cd = card /\ dr = drifted
      OBVIOUS
    <3>2. Right(g, cd, dr)
      BY <2>2, <3>1 DEF NotedInv
    <3> QED BY <3>1, <3>2, RightSeats
  <2> QED BY <2>1, <2>2
<1> QED BY <1>1, NotedInvHolds, PTL

LEMMA SplitIsShared ==
  ASSUME NEW g, g = Rows, NEW cd, NEW dr, Right(g, cd, dr), IsPrefilled(g.mode), NEW c \in AllConfigs, SplitFinal(g, c), Weight(c, g.room.settled) > 0,
         g.room.status = "completed"
  PROVE  PoolShared
<1>1. g \in AllRows /\ RoomInv(g) /\ g.room = room /\ g.ticket = ticket /\ g.credit = credit /\ g.mode = mode
  BY RowsAre DEF Right
<1>2. MoneyRight(g) /\ Seats(g)
  BY <1>1 DEF RoomInv, Ended
<1>3. ASSUME NEW t \in Tickets PROVE Prizes(t) = g.ticket[t].payout /\ (g.ticket[t].status # "won" => g.ticket[t].payout = 0)
  <2>1. PICK x, row : x = credit[t] /\ row = g.ticket[t]
    OBVIOUS
  <2>2. Money(row, x, g.mode)
    BY <1>1, <1>2, <2>1 DEF MoneyRight
  <2>3. Prizes(t) = SumFunctionOnSet(x, PrizeKeys)
    BY <2>1, KindsOfKeys, Zenon DEF Prizes, CreditedBy
  <2> QED BY <2>1, <2>2, <2>3 DEF Money, IsPrefilled
<1>4. \A p \in g.room.settled : \A t \in g.room.winners[p] : g.ticket[t].payout = g.room.shown[p]
  BY DEF SplitFinal, SplitUpTo, Priced
<1>5. SumFunctionOnSet(g.room.shown, g.room.settled) \in (Pool(g) - Cardinality(g.room.settled))..Pool(g)
  BY <1>1, PoolGoesOut
<1>6. PICK f : f = [t \in Tickets |-> Prizes(t)]
  OBVIOUS
<1>7. \A t \in Tickets : f[t] = g.ticket[t].payout
  BY <1>3, <1>6
<1>8. SumFunctionOnSet(f, Tickets) <= SumFunctionOnSet(g.room.shown, g.room.settled)
  BY <1>1, <1>2, <1>3, <1>4, <1>7, PaidOfShown
<1>9. \A p \in g.room.settled : \A t \in g.room.winners[p] : t \in Tickets
  BY <1>1, RowFields, RoomFields
<1>10. PaidOut <= Pool(g)
  <2>1. PICK shown : shown = SumFunctionOnSet(g.room.shown, g.room.settled)
    OBVIOUS
  <2>2. PICK paid : paid = SumFunctionOnSet(f, Tickets)
    OBVIOUS
  <2>3. PICK n \in Nat : n = Cardinality(g.room.settled)
    <3>1. IsFiniteSet(g.room.settled)
      BY <1>1, RowFields, RoomFields, PlacesFinite
    <3> QED BY <3>1, FS_CardinalityType
  <2>4. PICK pool \in Nat : pool = Pool(g)
    BY <1>1, PoolNat
  <2>5. paid \in Nat
    <3>1. \A t \in Tickets : f[t] \in Nat
      BY <1>1, <1>7, RowFields, TicketFields
    <3> QED BY <2>2, <3>1, SumNat, SettlementAssumption
  <2>6. shown \in (pool - n)..pool /\ paid <= shown
    BY <1>5, <1>8, <2>1, <2>2, <2>3, <2>4
  <2>7. paid <= pool
    BY <2>3, <2>4, <2>5, <2>6
  <2>8. PaidOut = paid
    BY <1>6, <2>2 DEF PaidOut
  <2> QED BY <2>4, <2>7, <2>8
<1>11. \A p \in room.settled : \A t \in room.winners[p] : Prizes(t) = room.shown[p]
  BY <1>1, <1>3, <1>4, <1>9
<1> QED BY <1>1, <1>5, <1>10, <1>11 DEF PoolShared

\* reconcileDerashPool: the whole pool goes to the places that were filled, however ticks
\* and claims share the settlements, as long as all of them read the same configuration.
THEOREM PoolIsShared == NotedSpec => []PoolSharedUnlessChanged
<1>1. NotedInv /\ SplitInv => PoolSharedUnlessChanged
  <2> SUFFICES ASSUME NotedInv, SplitInv, room.status = "completed", Prefilled, ~undone, ~drifted,
                      \A c \in used : used = {c} /\ Weight(c, room.settled) > 0
      PROVE  PoolShared
    BY DEF PoolSharedUnlessChanged
  <2>1. PICK g, cd, dr : g = Rows /\ cd = card /\ dr = drifted
    OBVIOUS
  <2>2. PICK U : U = used
    OBVIOUS
  <2>3. Right(g, cd, dr) /\ g.room = room /\ g.mode = mode
    BY <2>1, RowsAre DEF NotedInv
  <2>4. IsPrefilled(mode)
    BY DEF Prefilled, IsPrefilled
  <2>5. SplitBy(g, U)
    BY <2>1, <2>2, <2>4 DEF SplitInv
  <2>6. CASE g.room.settled = {}
    BY <2>3, <2>6 DEF PoolShared
  <2>7. CASE g.room.settled # {}
    <3>1. PICK c \in U : TRUE
      BY <2>3, <2>5, <2>7 DEF SplitBy
    <3>5. U \subseteq AllConfigs
      BY <2>1, <2>2, <2>4 DEF SplitInv
    <3>2. U \subseteq {c} /\ Weight(c, g.room.settled) > 0
      BY <2>2, <2>3, <3>1
    <3>3. c \in AllConfigs
      BY <3>1, <3>5
    <3>4. SplitFinal(g, c)
      BY <2>3, <2>5, <3>2, <3>3 DEF SplitBy, SplitAs
    <3> QED BY <2>1, <2>3, <2>4, <3>2, <3>3, <3>4, SplitIsShared
  <2> QED BY <2>6, <2>7
<1> QED BY <1>1, SplitHolds, PTL

LEMMA RightSales == ASSUME NEW g, g = Rows, Right(g, card, drifted) PROVE SalesMatch
<1>1. g.room = room /\ g.ticket = ticket /\ g = Rows
  BY RowsAre
<1>2. Live(Rows) = InHand(ticket)
  BY <1>1 DEF Live, InHand
<1>3. \A u : OwnedBy(u) = HandOf(ticket, u)
  BY <1>2 DEF OwnedBy, HandOf
<1>4. SoldCounted <=> room.sold = Cardinality(InHand(ticket))
  BY <1>2 DEF SoldCounted
<1>5. (\A u \in Users : WithinSomeCap(u)) <=> Capped(ticket)
  BY <1>3 DEF WithinSomeCap, Capped
<1>6. CardsHandedOut <=> HandedOut(ticket, card)
  BY DEF CardsHandedOut, HandedOut
<1> QED BY <1>1, <1>4, <1>5, <1>6 DEF SalesMatch, Right, Sales, Over

\* purchaseTickets, releaseCartela: a card is held by one ticket, soldTickets counts the
\* cards and the limit of a player holds, but for stale edits and stale snapshots.
THEOREM SalesAreMatched == NotedSpec => []SalesMatch
<1>1. NotedInv => SalesMatch
  <2>1. ASSUME undone PROVE SalesMatch
    BY <2>1 DEF SalesMatch
  <2>2. ASSUME NotedInv, ~undone PROVE SalesMatch
    <3>1. PICK g, cd, dr : g = Rows /\ cd = card /\ dr = drifted
      OBVIOUS
    <3>2. Right(g, cd, dr)
      BY <2>2, <3>1 DEF NotedInv
    <3> QED BY <3>1, <3>2, RightSales
  <2> QED BY <2>1, <2>2
<1> QED BY <1>1, NotedInvHolds, PTL

\* What a step of a room that is over leaves alone.
LEMMA OverStays ==
  ASSUME Next, room.status \in {"completed", "cancelled"}, \A t \in Tickets : ticket[t].status # "active"
  PROVE  UNCHANGED <<ticket, credit>>
<1>1. Over(Rows)
  BY RowsAre DEF Over
<1>2. CASE \/ Tick \/ (\E c \in Configs : UpdateBingoConfig(c))
           \/ \E s \in Clients, u \in Users, n \in 1..Cardinality(Cards) : PurchaseRead(s, u, n)
           \/ \E s \in Clients, t \in Tickets : ClaimRead(s, t)
           \/ \E s \in Schedulers \cup Admins : DrawRead(s)
           \/ \E s \in Admins, price \in Prices : EditRead(s, price)
  BY <1>2 DEF Tick, UpdateBingoConfig, PurchaseRead, ClaimRead, DrawRead, EditRead, rows
<1>3. ~CancelRoom /\ ~Reap
  BY <1>1 DEF CancelRoom, Reap
<1>4. ASSUME NEW t \in Tickets PROVE ~ReleaseCartela(t)
  BY DEF ReleaseCartela
<1>5. ASSUME NEW u, NEW auto PROVE ~SetAutoClaim(u, auto)
  BY DEF SetAutoClaim
<1>6. ASSUME NEW s, DrawNextNumber(s) PROVE UNCHANGED <<ticket, credit>>
  <2>1. PICK g, cards : g \in DrawOutcomes(call[s].cfg) /\ Commit(g, cards)
    BY <1>6 DEF DrawNextNumber
  <2>2. g = Rows
    BY <1>1, <2>1 DEF DrawOutcomes
  <2>3. g.ticket = ticket /\ g.credit = credit
    BY <2>2, RowsAre
  <2> QED BY <2>1, <2>3 DEF Commit
<1>7. ASSUME NEW s PROVE ~Purchase(s) /\ ~ClaimBingo(s)
  BY DEF Purchase, ClaimBingo
<1>8. ASSUME NEW s, \/ EditSave(s) \/ Refuse(s) \/ (\E a \in Agents : SettleReferralCommission(s, a))
                    \/ CommissionFails(s) \/ Die(s)
      PROVE  UNCHANGED <<ticket, credit>>
  BY <1>8 DEF EditSave, Refuse, SettleReferralCommission, CommissionFails, Die, rows
<1> QED BY <1>2, <1>3, <1>4, <1>5, <1>6, <1>7, <1>8 DEF Next, Finish

\* drawNextNumber, claimBingo, releaseCartela: whatever the calls still under way do, the
\* tickets and the credits of a room that is over stay what they were.
THEOREM EndedRoomsAreFinal == NotedSpec => OverIsFinal
<1>1. NotedInv /\ [NotedNext]_<<vars, used, undone, drifted>>
        => [room.status \in {"completed", "cancelled"} => UNCHANGED <<ticket, credit>> \/ undone]_mcvars
  <2> SUFFICES ASSUME NotedInv, [NotedNext]_<<vars, used, undone, drifted>>, room.status \in {"completed", "cancelled"}, ~undone
      PROVE  UNCHANGED <<ticket, credit>>
    OBVIOUS
  <2>1. CASE NotedNext
    <3>1. PICK g, cd, dr : g = Rows /\ cd = card /\ dr = drifted
      OBVIOUS
    <3>2. Right(g, cd, dr)
      BY <3>1 DEF NotedInv
    <3>3. g.room = room /\ g.ticket = ticket
      BY <3>1, RowsAre
    <3>4. \A t \in Tickets : ticket[t].status # "active"
      BY <3>2, <3>3 DEF Right, RoomInv, Ended
    <3> QED BY <2>1, <3>4, OverStays DEF NotedNext
  <2>2. CASE UNCHANGED <<vars, used, undone, drifted>>
    BY <2>2 DEF vars, rows
  <2> QED BY <2>1, <2>2
<1> QED BY <1>1, NotedInvHolds, PTL DEF NotedSpec, OverIsFinal

-----------------------------------------------------------------------------
(* The lobby: which games a job may collapse.  What is said of a room that   *)
(* a job is about to cancel must survive what others do to the room until    *)
(* then; an edit that saves a row back is the one way a room can change      *)
(* its win mode, so edits are part of the invariant.                         *)

Things == Rooms \cup L!Owners \cup {Slot}
LobbyRows == [status : {"none", "open", "running", "over"}, for : Things \cup {OneOff}, win : {0} \cup WinModes,
              guard : BOOLEAN, sold : BOOLEAN, start : {"idle", "counting", "due", "late"}, balls : Nat]
LobbyConfigs == [win : WinModes, enabled : BOOLEAN]

Listing == {"tidy", "draw", "start", "shared", "next", "agents", "slots"}
Cancelling == {"tidying", "nexting", "dedupe"}
Listed == [at : Listing \cup Cancelling \cup {"drawing", "starting", "find", "create"}, tick : BOOLEAN,
           conf : LobbyConfigs, agents : BOOLEAN, play : BOOLEAN, todo : SUBSET Things,
           owners : SUBSET Things, kept : {"none", "open", "game", "agents", "slots"}]
RoomEdits == [at : {"saveRoom"}, id : Rooms, row : LobbyRows]
LobbyJobs == Listed \cup RoomEdits \cup [at : {"saveSlot"}, to : {"on", "off"}] \cup [at : {"idle", "boot"}]

SettingsTyped == config \in LobbyConfigs /\ perAgent \in BOOLEAN /\ playable \in BOOLEAN /\ active \subseteq RoomAgents
LobbyTyped == SettingsTyped /\ rooms \in [Rooms -> LobbyRows] /\ job \in [L!Sessions -> LobbyJobs]

\* The rows that edits are about to save back have the win mode of their room.
Edits(a, r) == job[a].at = "saveRoom" /\ job[a].id = r
RowsRemembered ==
  /\ \A a \in L!Sessions, r \in Rooms : Edits(a, r) /\ L!Alive(r) => job[a].row.win = rooms[r].win
  /\ \A a, b \in L!Sessions, r \in Rooms : Edits(a, r) /\ Edits(b, r) => job[a].row.win = job[b].row.win

\* A game that a job is about to cancel is one it may collapse.
MayCollapse ==
  \A s \in L!Sessions, r \in Rooms :
    r \in ToCancel(s) /\ r \in L!Running =>
      <<s, r>> \in excused \/ (job[s].at # "dedupe" /\ ~L!Fits(r, job[s].conf))

LobbyInv == LobbyTyped /\ RowsRemembered /\ MayCollapse

\* What a step does to the rooms, and to the job of a session.
RoomsGo ==
  /\ rooms' \in [Rooms -> LobbyRows]
  /\ \A r \in Rooms : L!Alive(r)' =>
       IF L!Alive(r) THEN rooms'[r].win = rooms[r].win
       ELSE \A a \in L!Sessions : Edits(a, r) => job[a].row.win = rooms'[r].win
Picks(t, k) ==
  /\ k.at \in Cancelling /\ rooms' = rooms /\ ToCancel(t) = {}
  /\ \A r \in Rooms : r \in ToCancel(t)' /\ r \in L!Running =>
       Rival(t, r) \/ (k.at # "dedupe" /\ ~L!Fits(r, k.conf))
Reads(k) == rooms' = rooms /\ k.at = "saveRoom" /\ L!Alive(k.id) /\ k.row = rooms[k.id]
Shrinks(t, k) ==
  /\ k.at \in Cancelling /\ k.at = job[t].at
  /\ k.conf = job[t].conf /\ k.todo \subseteq job[t].todo
Goes(t, k) == k = job[t] \/ k.at \notin Cancelling \cup {"saveRoom"} \/ Shrinks(t, k) \/ Picks(t, k) \/ Reads(k)
JobsGo == job' \in [L!Sessions -> LobbyJobs] /\ \A t \in L!Sessions : Goes(t, job'[t])
HistoryGoes == excused' = {p \in L!Sessions \X Rooms : Excuses(p[1], p[2])}

LEMMA JobShapes ==
  ASSUME NEW k \in LobbyJobs
  PROVE  /\ k.at \in Listing \cup Cancelling \cup {"drawing", "starting", "find", "create"} => k \in Listed
         /\ k.at = "saveRoom" => k \in RoomEdits
BY DEF LobbyJobs, Listed, RoomEdits, Listing, Cancelling

\* Such steps keep the invariant.
LEMMA LobbyGoes ==
  ASSUME LobbyInv, RoomsGo, JobsGo, HistoryGoes, SettingsTyped'
  PROVE  LobbyInv'
<1>1. LobbyTyped'
  BY DEF LobbyTyped, RoomsGo, JobsGo
<1>2. ASSUME NEW a \in L!Sessions, NEW r \in Rooms, Edits(a, r)'
      PROVE  \/ job'[a] = job[a] /\ Edits(a, r)
             \/ rooms' = rooms /\ L!Alive(r) /\ job'[a].row = rooms[r]
  <2>1. job'[a].at = "saveRoom" /\ job'[a].id = r
    BY <1>2 DEF Edits
  <2>2. ~Shrinks(a, job'[a]) /\ ~Picks(a, job'[a])
    BY <2>1 DEF Shrinks, Picks, Cancelling
  <2> QED BY <2>1, <2>2 DEF JobsGo, Goes, Reads, Edits
<1>3. ASSUME NEW a \in L!Sessions, NEW r \in Rooms, Edits(a, r)', L!Alive(r)'
      PROVE  job'[a].row.win = rooms'[r].win
  <2>1. CASE job'[a] = job[a] /\ Edits(a, r)
    BY <1>3, <2>1 DEF RoomsGo, LobbyInv, RowsRemembered
  <2>2. CASE rooms' = rooms /\ job'[a].row = rooms[r]
    BY <2>2
  <2> QED BY <1>2, <1>3, <2>1, <2>2
<1>4. ASSUME NEW a \in L!Sessions, NEW b \in L!Sessions, NEW r \in Rooms, Edits(a, r)', Edits(b, r)'
      PROVE  job'[a].row.win = job'[b].row.win
  <2>1. \/ job'[a] = job[a] /\ Edits(a, r)
        \/ rooms' = rooms /\ L!Alive(r) /\ job'[a].row = rooms[r]
    BY <1>2, <1>4
  <2>2. \/ job'[b] = job[b] /\ Edits(b, r)
        \/ rooms' = rooms /\ L!Alive(r) /\ job'[b].row = rooms[r]
    BY <1>2, <1>4
  <2> QED BY <2>1, <2>2 DEF LobbyInv, RowsRemembered
<1>5. ASSUME NEW t \in L!Sessions, NEW r \in Rooms, r \in ToCancel(t)', r \in L!Running'
      PROVE  <<t, r>> \in excused' \/ (job'[t].at # "dedupe" /\ ~L!Fits(r, job[t].conf)')
  <2> DEFINE k == job'[t]
  <2>1. k.at \in Cancelling /\ r \in k.todo
    BY <1>5 DEF ToCancel, Cancelling
  <2>2. CASE k = job[t] \/ Shrinks(t, k)
    <3>1. r \in ToCancel(t) /\ k.at = job[t].at /\ k.conf = job[t].conf
      BY <2>1, <2>2 DEF Shrinks, ToCancel, Cancelling
    <3>2. CASE r \in L!Running
      <4>1. rooms'[r].win = rooms[r].win
        BY <1>5, <3>2 DEF RoomsGo, L!Running, L!Alive
      <4>2. CASE <<t, r>> \in excused
        BY <1>5, <4>2 DEF HistoryGoes, Excuses
      <4>3. CASE job[t].at # "dedupe" /\ ~L!Fits(r, job[t].conf)
        BY <3>1, <4>1, <4>3 DEF L!Fits
      <4> QED BY <3>1, <3>2, <4>2, <4>3 DEF LobbyInv, MayCollapse
    <3>3. CASE r \notin L!Running
      BY <1>5, <3>1, <3>3 DEF HistoryGoes, Excuses
    <3> QED BY <3>2, <3>3
  <2>3. CASE Picks(t, k)
    <3>1. r \in L!Running /\ r \notin ToCancel(t)
      BY <1>5, <2>3 DEF Picks, L!Running
    <3>2. CASE Rival(t, r)
      BY <1>5, <3>1, <3>2 DEF HistoryGoes, Excuses
    <3>3. CASE k.at # "dedupe" /\ ~L!Fits(r, k.conf)
      BY <2>3, <3>3 DEF Picks, L!Fits
    <3> QED BY <1>5, <2>3, <3>1, <3>2, <3>3 DEF Picks
  <2>4. ~Reads(k) /\ k.at \in Cancelling
    BY <2>1 DEF Reads, Cancelling
  <2>5. Goes(t, k)
    BY DEF JobsGo
  <2> HIDE DEF k
  <2> QED BY <2>2, <2>3, <2>4, <2>5 DEF Goes, k
<1>6. RowsRemembered'
  BY <1>3, <1>4 DEF RowsRemembered
<1>7. MayCollapse'
  BY <1>5 DEF MayCollapse
<1> QED BY <1>1, <1>6, <1>7 DEF LobbyInv

\* One session goes on and the others stay.
LEMMA OneGoes ==
  ASSUME LobbyTyped, NEW s \in L!Sessions, NEW k \in LobbyJobs, job' = [job EXCEPT ![s] = k], Goes(s, k)
  PROVE  JobsGo
<1>1. job' \in [L!Sessions -> LobbyJobs] /\ \A t \in L!Sessions : job'[t] = IF t = s THEN k ELSE job[t]
  BY DEF LobbyTyped
<1>2. \A t \in L!Sessions : Goes(t, job'[t])
  <2> TAKE t \in L!Sessions
  <2>1. CASE t = s
    BY <1>1, <2>1
  <2>2. CASE t # s
    BY <1>1, <2>2 DEF Goes
  <2> QED BY <2>1, <2>2
<1> QED BY <1>1, <1>2 DEF JobsGo

LEMMA NoneGoes == ASSUME LobbyTyped, job' = job PROVE JobsGo
BY DEF LobbyTyped, JobsGo, Goes

\* A session that cancels nothing now and edits nothing.
LEMMA OneGoesOn ==
  ASSUME LobbyTyped, NEW s \in L!Sessions, NEW k \in LobbyJobs, job' = [job EXCEPT ![s] = k],
         k.at \notin Cancelling \cup {"saveRoom"}
  PROVE  JobsGo
<1>1. Goes(s, k)
  BY DEF Goes
<1> QED BY <1>1, OneGoes

LEMMA RoomsStay == ASSUME LobbyTyped, rooms' = rooms PROVE RoomsGo
BY DEF LobbyTyped, RoomsGo, L!Alive

\* A room that was not over changes, and keeps its win mode, or ends.
LEMMA RoomChanges ==
  ASSUME LobbyTyped, NEW r, NEW row, rooms' = [rooms EXCEPT ![r] = row],
         r \in Rooms => row \in LobbyRows,
         r \in Rooms /\ row.status \in {"open", "running"} => L!Alive(r) /\ row.win = rooms[r].win
  PROVE  RoomsGo
<1>1. rooms' \in [Rooms -> LobbyRows]
  BY DEF LobbyTyped
<1>2. \A q \in Rooms : rooms'[q] = IF q = r THEN row ELSE rooms[q]
  BY DEF LobbyTyped
<1>3. ASSUME NEW q \in Rooms, L!Alive(q)' PROVE L!Alive(q) /\ rooms'[q].win = rooms[q].win
  BY <1>2, <1>3 DEF L!Alive
<1> QED BY <1>1, <1>3 DEF RoomsGo

LEMMA OverRow == ASSUME NEW row PROVE L!Over(row) \in LobbyRows /\ L!Over(row).status = "over"
BY DEF L!Over, L!NoRoom, LobbyRows, Things, L!Owners

LEMMA RoomCloses == ASSUME LobbyTyped, NEW r, L!Closed(r) PROVE RoomsGo
<1>1. rooms' = [rooms EXCEPT ![r] = L!Over(rooms[r])]
  BY DEF L!Closed
<1>2. L!Over(rooms[r]) \in LobbyRows /\ L!Over(rooms[r]).status = "over"
  BY OverRow
<1> HIDE DEF L!Over
<1> QED BY <1>1, <1>2, RoomChanges

LEMMA RoomCancelled == ASSUME LobbyTyped, NEW r, L!Cancel(r) PROVE RoomsGo
BY RoomCloses, RoomsStay DEF L!Cancel

LEMMA RoomDrawn == ASSUME LobbyTyped, NEW r, L!Drawn(r) PROVE RoomsGo
<1>1. CASE rooms' = rooms
  BY <1>1, RoomsStay
<1>2. CASE L!Closed(r)
  BY <1>2, RoomCloses
<1>3. CASE L!Alive(r) /\ rooms' = [rooms EXCEPT ![r] = [rooms[r] EXCEPT !.status = "running", !.balls = @ + 1]]
  <2> DEFINE row == [rooms[r] EXCEPT !.status = "running", !.balls = @ + 1]
  <2>1. ASSUME r \in Rooms PROVE row \in LobbyRows /\ row.win = rooms[r].win
    <3>1. PICK old \in LobbyRows : old = rooms[r]
      BY <2>1 DEF LobbyTyped
    <3>2. PICK n \in Nat : n = old.balls + 1
      BY DEF LobbyRows
    <3>3. row = [old EXCEPT !.status = "running", !.balls = n]
      BY <3>1, <3>2
    <3> HIDE DEF row
    <3> QED BY <3>1, <3>3 DEF LobbyRows
  <2>2. rooms' = [rooms EXCEPT ![r] = row]
    BY <1>3
  <2> HIDE DEF row
  <2> QED BY <1>3, <2>1, <2>2, RoomChanges
<1> QED BY <1>1, <1>2, <1>3 DEF L!Drawn

LEMMA RoomInserted ==
  ASSUME LobbyTyped, NEW row \in LobbyRows, L!Free # {}, L!Insert(row)
  PROVE  RoomsGo
<1>1. PICK r \in L!Free : rooms' = [rooms EXCEPT ![r] = row]
  BY DEF L!Insert
<1>2. r \in Rooms /\ ~L!Alive(r) /\ ~L!Remembered(r)
  BY <1>1 DEF L!Free
<1>3. \A a \in L!Sessions : ~Edits(a, r)
  <2> SUFFICES ASSUME NEW a \in L!Sessions, Edits(a, r) PROVE FALSE
    OBVIOUS
  <2>1. job[a] \in RoomEdits
    BY JobShapes DEF Edits, LobbyTyped
  <2>2. "id" \in DOMAIN job[a]
    BY <2>1 DEF RoomEdits
  <2> QED BY <1>2, <2>2 DEF L!Remembered, Edits
<1>4. rooms' \in [Rooms -> LobbyRows] /\ \A q \in Rooms : q # r => rooms'[q] = rooms[q]
  BY <1>1 DEF LobbyTyped
<1>5. \A q \in Rooms : q # r => (L!Alive(q)' <=> L!Alive(q)) /\ rooms'[q].win = rooms[q].win
  BY <1>4 DEF L!Alive
<1> QED BY <1>2, <1>3, <1>4, <1>5 DEF RoomsGo

LEMMA NewRoomRow ==
  ASSUME NEW o \in Things \cup {OneOff}, NEW w \in WinModes, NEW guard \in BOOLEAN
  PROVE  L!NewRoom(o, w, guard) \in LobbyRows
BY DEF L!NewRoom, L!NoRoom, LobbyRows

-----------------------------------------------------------------------------
\* The end of a list, and a job that begins.
LEMMA ArriveIs ==
  ASSUME NEW j \in Listed, j.at \in Listing
  PROVE  L!Arrive(j) \in LobbyJobs /\ L!Arrive(j).at \notin Cancelling \cup {"saveRoom"}
<1> DEFINE next == L!After(j)
           todo == IF next = "create" THEN {House} ELSE {}
           k == [j EXCEPT !.at = next, !.todo = todo, !.owners = {}, !.kept = "none"]
<1>1. next \in {"draw", "start", "end", "agents", "shared", "create", "slots"}
  BY DEF L!After, Listing
<1>2. todo \subseteq Things
  BY DEF Things, L!Owners
<1> HIDE DEF next, todo
<1>3. CASE L!Arrive(j) = L!Idle
  BY <1>3 DEF L!Idle, LobbyJobs, Cancelling
<1>4. CASE L!Arrive(j) = k /\ next # "end"
  <2>1. k.at = next
    BY DEF Listed
  <2>2. k \in Listed
    BY <1>1, <1>2, <1>4 DEF Listed, Listing
  <2> HIDE DEF k
  <2> QED BY <1>1, <1>4, <2>1, <2>2 DEF LobbyJobs, Cancelling
<1> QED BY <1>3, <1>4 DEF L!Arrive, next, todo

LEMMA JobIs ==
  ASSUME LobbyTyped, NEW at \in Listing \cup {"create"}, NEW tick \in BOOLEAN
  PROVE  /\ L!Job(at, tick) \in Listed /\ L!Job(at, tick).at = at
         /\ L!Job(at, tick).conf = config /\ L!Job(at, tick).todo = {}
BY DEF L!Job, Listed, LobbyTyped, SettingsTyped

\* A list without cancellations was read.
LEMMA ListGoes ==
  ASSUME LobbyTyped, NEW s \in L!Sessions, job[s].at \in Listing, NEW at \in {"drawing", "starting"},
         NEW todo \in SUBSET Rooms, L!List(s, at, todo, "none")
  PROVE  JobsGo
<1> DEFINE j == [job[s] EXCEPT !.todo = todo, !.kept = "none"]
           k == IF todo = {} THEN L!Arrive(j) ELSE [j EXCEPT !.at = at]
<1>1. job[s] \in Listed
  BY JobShapes DEF LobbyTyped
<1>2. j \in Listed /\ j.at = job[s].at /\ [j EXCEPT !.at = at] \in Listed /\ [j EXCEPT !.at = at].at = at
  BY <1>1 DEF Listed, Things
<1>3. job' = [job EXCEPT ![s] = k]
  BY DEF L!List, L!Goto
<1> HIDE DEF j
<1>4. k \in LobbyJobs /\ k.at \notin Cancelling \cup {"saveRoom"}
  <2>1. CASE todo = {}
    BY <1>2, <2>1, ArriveIs
  <2>2. CASE todo # {}
    BY <1>2, <2>2 DEF LobbyJobs, Cancelling
  <2> QED BY <2>1, <2>2
<1> HIDE DEF k
<1> QED BY <1>3, <1>4, OneGoesOn

\* One of a list is done.
LEMMA DoneGoes ==
  ASSUME LobbyTyped, NEW s \in L!Sessions, job[s] \in Listed, NEW was \in Listing, NEW x, L!Done(s, was, x)
  PROVE  JobsGo
<1> DEFINE j == [job[s] EXCEPT !.todo = @ \ {x}]
           i == [j EXCEPT !.at = was]
           k == IF j.todo = {} THEN L!Arrive(i) ELSE j
<1>1. j \in Listed /\ i \in Listed /\ i.at = was
  BY DEF Listed
<1>2. j.at = job[s].at /\ j.conf = job[s].conf /\ j.todo \subseteq job[s].todo
  BY DEF Listed
<1>3. job' = [job EXCEPT ![s] = k]
  BY DEF L!Done, L!Goto
<1>4. j.at # "saveRoom"
  BY <1>1 DEF Listed, Listing, Cancelling
<1> HIDE DEF j, i
<1>5. CASE j.todo = {}
  <2>1. k \in LobbyJobs /\ k.at \notin Cancelling \cup {"saveRoom"}
    BY <1>1, <1>5, ArriveIs
  <2> HIDE DEF k
  <2> QED BY <1>3, <2>1, OneGoesOn
<1>6. CASE j.todo # {}
  <2>1. k = j /\ k \in LobbyJobs
    BY <1>1, <1>6 DEF LobbyJobs
  <2>2. Goes(s, k)
    BY <1>2, <1>4, <2>1 DEF Goes, Shrinks
  <2> HIDE DEF k
  <2> QED BY <1>3, <2>1, <2>2, OneGoes
<1> QED BY <1>5, <1>6

LEMMA NextOwnerGoes ==
  ASSUME LobbyTyped, NEW s \in L!Sessions, job[s] \in Listed, L!NextOwner(s)
  PROVE  JobsGo
<1> DEFINE i == [job[s] EXCEPT !.at = "find", !.todo = {}]
           at == IF ~job[s].tick \/ job[s].kept = "agents" THEN "agents" ELSE "slots"
           j == [job[s] EXCEPT !.todo = {}, !.at = at]
           k == IF job[s].owners # {} THEN i ELSE L!Arrive(j)
<1>1. at \in {"agents", "slots"}
  OBVIOUS
<1>2. job' = [job EXCEPT ![s] = k]
  BY DEF L!NextOwner, L!Goto
<1> HIDE DEF at
<1>3. i \in Listed /\ i.at = "find" /\ j \in Listed /\ j.at \in Listing
  BY <1>1 DEF Listed, Listing
<1> HIDE DEF i, j
<1>4. k \in LobbyJobs /\ k.at \notin Cancelling \cup {"saveRoom"}
  BY <1>3, ArriveIs DEF LobbyJobs, Cancelling
<1> HIDE DEF k
<1> QED BY <1>2, <1>4, OneGoesOn

-----------------------------------------------------------------------------
\* The room that a job keeps is a running one, if there is one.
LEMMA KeptRuns ==
  ASSUME NEW R, NEW keep \in L!Preferred(R)
  PROVE  keep \in R /\ (R \cap L!Running # {} => keep \in L!Running)
BY DEF L!Preferred, L!Earliest

\* reconcileActiveRooms.
LEMMA TidyGoes ==
  ASSUME LobbyTyped, NEW s \in L!Sessions, NEW at \in {"tidy", "next"}, NEW doing \in {"tidying", "nexting"},
         L!Tidy(s, at, doing)
  PROVE  RoomsGo /\ JobsGo
<1>1. rooms' = rooms /\ job[s].at = at
  BY DEF L!Tidy, L!At
<1>2. job[s] \in Listed /\ at \in Listing
  BY <1>1, JobShapes DEF LobbyTyped, Listing
<1>3. ASSUME NEW todo \in SUBSET Rooms, NEW kept \in {"none", "open", "game"}, L!List(s, doing, todo, kept),
             \A r \in todo : r \in L!Running =>
               \/ ~L!Fits(r, job[s].conf)
               \/ \E q \in L!Running : q # r /\ q \notin todo /\ L!Auto(q)
      PROVE  JobsGo
  <2> DEFINE j == [job[s] EXCEPT !.todo = todo, !.kept = kept]
             i == [j EXCEPT !.at = doing]
             k == IF todo = {} THEN L!Arrive(j) ELSE i
  <2>1. j \in Listed /\ j.at = at /\ i \in Listed
    BY <1>1, <1>2 DEF Listed, Things, Cancelling
  <2>2. i.at = doing /\ i.todo = todo /\ i.conf = job[s].conf
    BY <1>2 DEF Listed
  <2>3. job' = [job EXCEPT ![s] = k]
    BY <1>3 DEF L!List, L!Goto
  <2> HIDE DEF i, j
  <2>4. CASE todo = {}
    <3>1. k \in LobbyJobs /\ k.at \notin Cancelling \cup {"saveRoom"}
      BY <1>2, <2>1, <2>4, ArriveIs
    <3> HIDE DEF k
    <3> QED BY <2>3, <3>1, OneGoesOn
  <2>5. CASE todo # {}
    <3>1. k = i /\ k \in LobbyJobs
      BY <2>1, <2>5 DEF LobbyJobs
    <3> HIDE DEF k
    <3>2. job'[s] = i
      BY <2>3, <3>1 DEF LobbyTyped
    <3>3. ToCancel(s)' = todo /\ ToCancel(s) = {}
      BY <1>1, <2>2, <3>2 DEF ToCancel
    <3>4. ASSUME NEW r \in Rooms, r \in todo, r \in L!Running, L!Fits(r, job[s].conf)
          PROVE  Rival(s, r)
      <4>1. PICK q \in L!Running : q # r /\ q \notin todo /\ L!Auto(q)
        BY <1>3, <3>4
      <4>2. job'[s].at # "dedupe" /\ q \in L!Running \ ({r} \cup ToCancel(s)')
        BY <2>2, <3>2, <3>3, <4>1
      <4> QED BY <4>1, <4>2 DEF Rival
    <3>5. Picks(s, k)
      BY <1>1, <2>2, <3>1, <3>3, <3>4 DEF Picks, Cancelling
    <3>6. Goes(s, k)
      BY <3>5 DEF Goes
    <3> QED BY <2>3, <3>1, <3>6, OneGoes
  <2> QED BY <2>4, <2>5
<1>4. L!Shared \subseteq Rooms /\ \A r \in L!Shared : L!Auto(r)
  BY DEF L!Shared
<1> DEFINE fitting == {r \in L!Shared : L!Fits(r, job[s].conf)}
<1>5. CASE fitting = {}
  <2>1. L!List(s, doing, L!Shared, "none")
    BY <1>5 DEF L!Tidy
  <2>2. \A r \in L!Shared : ~L!Fits(r, job[s].conf)
    BY <1>5
  <2> QED BY <1>1, <1>3, <1>4, <2>1, <2>2, RoomsStay
<1>6. CASE fitting # {}
  <2>1. PICK keep \in L!Preferred(fitting) :
          L!List(s, doing, L!Stale(keep, job[s].conf), IF keep \in L!Running THEN "game" ELSE "open")
    BY <1>6 DEF L!Tidy
  <2>2. keep \in fitting /\ (fitting \cap L!Running # {} => keep \in L!Running)
    BY KeptRuns
  <2>3. PICK todo \in SUBSET Rooms : todo = L!Shared \ {keep} /\ todo = L!Stale(keep, job[s].conf)
    BY <1>4 DEF L!Stale
  <2>4. PICK kept \in {"none", "open", "game"} : kept = IF keep \in L!Running THEN "game" ELSE "open"
    OBVIOUS
  <2>5. L!List(s, doing, todo, kept)
    BY <2>1, <2>3, <2>4
  <2>6. ASSUME NEW r \in todo, r \in L!Running, L!Fits(r, job[s].conf)
        PROVE  \E q \in L!Running : q # r /\ q \notin todo /\ L!Auto(q)
    <3>1. r \in fitting
      BY <2>3, <2>6
    <3>2. keep \in L!Running /\ keep # r /\ keep \notin todo /\ L!Auto(keep)
      BY <1>4, <2>2, <2>3, <2>6, <3>1
    <3> QED BY <3>2
  <2> QED BY <1>1, <1>3, <2>5, <2>6, RoomsStay
<1> QED BY <1>5, <1>6

\* ensureAgentRooms, ensureCustomRoomSlots: one owner's rooms.
LEMMA FindGoes ==
  ASSUME LobbyTyped, NEW s \in L!Sessions, L!FindActive(s)
  PROVE  RoomsGo /\ JobsGo
<1>1. rooms' = rooms /\ job[s].at = "find"
  BY DEF L!FindActive, L!At
<1>2. job[s] \in Listed
  BY <1>1, JobShapes DEF LobbyTyped
<1>3. PICK o \in job[s].owners :
        LET j == [job[s] EXCEPT !.owners = @ \ {o}, !.kept = IF o = Slot THEN "slots" ELSE "agents"] IN
        IF L!RoomsFor(o) = {} THEN job' = [job EXCEPT ![s] = [j EXCEPT !.at = "create", !.todo = {o}]]
        ELSE \E keep \in L!Preferred(L!RoomsFor(o)) :
               job' = [job EXCEPT ![s] = [j EXCEPT !.at = "dedupe", !.todo = L!RoomsFor(o) \ {keep}]]
  BY DEF L!FindActive
<1> DEFINE kept == IF o = Slot THEN "slots" ELSE "agents"
           j == [job[s] EXCEPT !.owners = @ \ {o}, !.kept = kept]
<1>4. kept \in {"slots", "agents"} /\ o \in Things
  BY <1>2 DEF Listed
<1>5. CASE L!RoomsFor(o) = {}
  <2> DEFINE k == [j EXCEPT !.at = "create", !.todo = {o}]
  <2>1. job' = [job EXCEPT ![s] = k]
    BY <1>3, <1>5
  <2> HIDE DEF kept
  <2>2. k \in Listed /\ k.at = "create"
    BY <1>2, <1>4 DEF Listed
  <2> HIDE DEF k
  <2>3. k \in LobbyJobs /\ k.at \notin Cancelling \cup {"saveRoom"}
    BY <2>2 DEF LobbyJobs, Cancelling
  <2> QED BY <1>1, <2>1, <2>3, OneGoesOn, RoomsStay
<1>6. CASE L!RoomsFor(o) # {}
  <2>1. PICK keep \in L!Preferred(L!RoomsFor(o)) :
          job' = [job EXCEPT ![s] = [j EXCEPT !.at = "dedupe", !.todo = L!RoomsFor(o) \ {keep}]]
    BY <1>3, <1>6
  <2> DEFINE todo == L!RoomsFor(o) \ {keep}
             k == [j EXCEPT !.at = "dedupe", !.todo = todo]
  <2>2. job' = [job EXCEPT ![s] = k]
    BY <2>1
  <2>3. todo \subseteq Rooms /\ \A r \in L!RoomsFor(o) : rooms[r].for = o
    BY DEF L!RoomsFor
  <2> HIDE DEF kept, todo
  <2>4. k \in Listed /\ k.at = "dedupe" /\ k.todo = todo
    BY <1>2, <1>4, <2>3 DEF Listed, Things, Cancelling
  <2> HIDE DEF k
  <2>5. job'[s] = k /\ k \in LobbyJobs
    BY <2>2, <2>4 DEF LobbyTyped, LobbyJobs
  <2>6. ToCancel(s)' = todo /\ ToCancel(s) = {}
    BY <1>1, <2>4, <2>5 DEF ToCancel
  <2>7. ASSUME NEW r \in todo, r \in L!Running PROVE Rival(s, r)
    <3>1. r \in L!RoomsFor(o) /\ keep # r /\ keep \notin todo
      BY <2>7 DEF todo
    <3>2. keep \in L!RoomsFor(o) /\ keep \in L!Running
      BY <2>7, <3>1, KeptRuns
    <3>3. rooms[keep].for = rooms[r].for /\ keep \in L!Running \ ({r} \cup ToCancel(s)')
      BY <2>3, <2>6, <3>1, <3>2
    <3> QED BY <2>4, <2>5, <3>3 DEF Rival
  <2>8. Picks(s, k)
    BY <1>1, <2>4, <2>6, <2>7 DEF Picks, Cancelling
  <2>9. Goes(s, k)
    BY <2>8 DEF Goes
  <2> QED BY <1>1, <2>2, <2>5, <2>9, OneGoes, RoomsStay
<1> QED BY <1>5, <1>6

-----------------------------------------------------------------------------
\* The steps of a job, one lemma for each kind.
LEMMA SettingsStay == ASSUME LobbyTyped, UNCHANGED L!Settings PROVE SettingsTyped'
BY DEF LobbyTyped, SettingsTyped, L!Settings

LEMMA BootGoes == ASSUME LobbyTyped, NEW s \in L!Sessions, L!Boot(s) PROVE RoomsGo /\ JobsGo
<1>1. rooms' = [r \in Rooms |-> IF rooms[r].status = "open" /\ ~rooms[r].sold
                                  THEN [rooms[r] EXCEPT !.start = "idle"] ELSE rooms[r]]
  BY DEF L!Boot
<1>2. \A r \in Rooms : rooms[r] \in LobbyRows /\ [rooms[r] EXCEPT !.start = "idle"] \in LobbyRows
  BY DEF LobbyTyped, LobbyRows
<1>3. \A r \in Rooms : /\ rooms'[r] \in LobbyRows
                       /\ rooms'[r].status = rooms[r].status /\ rooms'[r].win = rooms[r].win
  BY <1>1, <1>2 DEF LobbyRows
<1>4. RoomsGo
  <2>1. rooms' \in [Rooms -> LobbyRows]
    BY <1>1, <1>3
  <2> QED BY <1>3, <2>1 DEF RoomsGo, L!Alive
<1>5. CASE job' = [job EXCEPT ![s] = L!Idle]
  <2>1. L!Idle \in LobbyJobs /\ L!Idle.at \notin Cancelling \cup {"saveRoom"}
    BY DEF L!Idle, LobbyJobs, Cancelling
  <2> QED BY <1>4, <1>5, <2>1, OneGoesOn
<1>6. CASE \E at \in {"agents", "shared"} : job' = [job EXCEPT ![s] = L!Job(at, FALSE)]
  <2>1. PICK at \in {"agents", "shared"} : job' = [job EXCEPT ![s] = L!Job(at, FALSE)]
    BY <1>6
  <2>2. L!Job(at, FALSE) \in LobbyJobs /\ L!Job(at, FALSE).at = at
    BY JobIs DEF LobbyJobs, Listing
  <2>3. at \notin Cancelling \cup {"saveRoom"}
    BY DEF Cancelling
  <2> QED BY <1>4, <2>1, <2>2, <2>3, OneGoesOn
<1> QED BY <1>5, <1>6 DEF L!Boot

LEMMA CancelGoes ==
  ASSUME LobbyTyped, NEW s \in L!Sessions, NEW was \in Listing, NEW doing \in {"tidying", "nexting"},
         L!CancelStale(s, was, doing)
  PROVE  RoomsGo /\ JobsGo
<1>1. job[s].at = doing
  BY DEF L!CancelStale, L!At
<1>2. job[s] \in Listed
  BY <1>1, JobShapes DEF LobbyTyped, Cancelling
<1>3. PICK r \in job[s].todo : L!Cancel(r) /\ L!Done(s, was, r)
  BY DEF L!CancelStale
<1> QED BY <1>2, <1>3, RoomCancelled, DoneGoes

LEMMA DrawGoes ==
  ASSUME LobbyTyped, NEW s \in L!Sessions, L!DrawNextNumber(s) \/ L!StartRoom(s)
  PROVE  RoomsGo /\ JobsGo
<1>1. PICK at \in {"drawing", "starting"}, was \in {"draw", "start"} :
        job[s].at = at /\ \E r \in job[s].todo : L!Drawn(r) /\ L!Done(s, was, r)
  BY DEF L!DrawNextNumber, L!StartRoom, L!At
<1>2. job[s] \in Listed /\ was \in Listing
  BY <1>1, JobShapes DEF LobbyTyped, Listing
<1>3. PICK r \in job[s].todo : L!Drawn(r) /\ L!Done(s, was, r)
  BY <1>1
<1> QED BY <1>2, <1>3, RoomDrawn, DoneGoes

LEMMA ReadGoes ==
  ASSUME LobbyTyped, NEW s \in L!Sessions, L!DrawRead(s) \/ L!StartRead(s)
  PROVE  RoomsGo /\ JobsGo
<1>1. rooms' = rooms /\ job[s].at \in Listing
  BY DEF L!DrawRead, L!StartRead, L!At, Listing
<1>2. PICK at \in {"drawing", "starting"} : \E todo \in SUBSET Rooms : L!List(s, at, todo, "none")
  <2>1. CASE L!DrawRead(s)
    <3>1. L!Running \in SUBSET Rooms /\ L!List(s, "drawing", L!Running, "none")
      BY <2>1 DEF L!DrawRead, L!Running
    <3> QED BY <3>1
  <2>2. CASE L!StartRead(s)
    <3>1. L!Due \subseteq Rooms
      BY DEF L!Due
    <3>2. \E todo \in SUBSET Rooms : L!List(s, "starting", todo, "none")
      <4>1. CASE L!List(s, "starting", {r \in L!Due : L!Auto(r) => L!RoomsFor(rooms[r].for) \cap L!Running = {}}, "none")
        <5>1. PICK todo \in SUBSET Rooms : todo = {r \in L!Due : L!Auto(r) => L!RoomsFor(rooms[r].for) \cap L!Running = {}}
          BY <3>1
        <5> QED BY <4>1, <5>1
      <4>2. CASE L!List(s, "starting", {}, "none")
        BY <4>2
      <4>3. CASE \E r \in L!Due : L!List(s, "starting", {r}, "none")
        <5>1. PICK r \in L!Due : L!List(s, "starting", {r}, "none")
          BY <4>3
        <5>2. {r} \in SUBSET Rooms
          BY <3>1
        <5> QED BY <5>1, <5>2
      <4> QED BY <2>2, <4>1, <4>2, <4>3 DEF L!StartRead
    <3> QED BY <3>2
  <2> QED BY <2>1, <2>2
<1>3. PICK todo \in SUBSET Rooms : L!List(s, at, todo, "none")
  BY <1>2
<1> QED BY <1>1, <1>3, ListGoes, RoomsStay

\* autoCreateNextRoom reads the configuration; the owners are listed.
LEMMA AutoCreateGoes == ASSUME LobbyTyped, NEW s \in L!Sessions, L!AutoCreate(s) PROVE RoomsGo /\ JobsGo
<1>1. rooms' = rooms /\ job[s].at = "shared"
  BY DEF L!AutoCreate, L!At
<1>2. job[s] \in Listed
  BY <1>1, JobShapes DEF LobbyTyped, Listing
<1> DEFINE k == [job[s] EXCEPT !.at = "next", !.conf = config]
           j == [job[s] EXCEPT !.kept = "open"]
<1>3. k \in Listed /\ k.at = "next" /\ j \in Listed /\ j.at = "shared"
  BY <1>1, <1>2 DEF Listed, Listing, LobbyTyped, SettingsTyped
<1>4. job' = [job EXCEPT ![s] = k] \/ job' = [job EXCEPT ![s] = L!Arrive(j)]
  BY DEF L!AutoCreate, L!Goto
<1> HIDE DEF j, k
<1>5. /\ k \in LobbyJobs /\ k.at \notin Cancelling \cup {"saveRoom"}
      /\ L!Arrive(j) \in LobbyJobs /\ L!Arrive(j).at \notin Cancelling \cup {"saveRoom"}
  BY <1>3, ArriveIs DEF LobbyJobs, Cancelling, Listing
<1>6. PICK i : i \in {k, L!Arrive(j)} /\ job' = [job EXCEPT ![s] = i]
  BY <1>4
<1>7. i \in LobbyJobs /\ i.at \notin Cancelling \cup {"saveRoom"}
  BY <1>5, <1>6
<1> QED BY <1>1, <1>6, <1>7, OneGoesOn, RoomsStay

LEMMA EnsureGoes == ASSUME LobbyTyped, NEW s \in L!Sessions, L!Ensure(s) PROVE RoomsGo /\ JobsGo
<1>1. rooms' = rooms /\ job[s].at \in {"agents", "slots"}
  BY DEF L!Ensure, L!At
<1>2. job[s] \in Listed /\ job[s].at \in Listing
  BY <1>1, JobShapes DEF LobbyTyped, Listing
<1> DEFINE owners == IF ~job[s].conf.enabled THEN {} ELSE IF L!At(s, "agents") THEN L!AgentOwners ELSE L!ActiveSlots
           k == [job[s] EXCEPT !.at = "find", !.owners = owners]
<1>3. owners \subseteq Things
  BY DEF L!AgentOwners, L!ActiveSlots, L!Owners, Things, LobbyTyped, SettingsTyped
<1>4. job' = [job EXCEPT ![s] = k] \/ job' = [job EXCEPT ![s] = L!Arrive(job[s])]
  BY DEF L!Ensure, L!Goto
<1> HIDE DEF owners
<1>5. k \in Listed /\ k.at = "find"
  BY <1>2, <1>3 DEF Listed
<1> HIDE DEF k
<1>6. /\ k \in LobbyJobs /\ k.at \notin Cancelling \cup {"saveRoom"}
      /\ L!Arrive(job[s]) \in LobbyJobs /\ L!Arrive(job[s]).at \notin Cancelling \cup {"saveRoom"}
  BY <1>2, <1>5, ArriveIs DEF LobbyJobs, Cancelling
<1>7. PICK i : i \in {k, L!Arrive(job[s])} /\ job' = [job EXCEPT ![s] = i]
  BY <1>4
<1>8. i \in LobbyJobs /\ i.at \notin Cancelling \cup {"saveRoom"}
  BY <1>6, <1>7
<1> QED BY <1>1, <1>7, <1>8, OneGoesOn, RoomsStay

LEMMA DedupeGoes == ASSUME LobbyTyped, NEW s \in L!Sessions, L!Dedupe(s) PROVE RoomsGo /\ JobsGo
<1>1. job[s].at = "dedupe"
  BY DEF L!Dedupe, L!At
<1>2. job[s] \in Listed
  BY <1>1, JobShapes DEF LobbyTyped, Cancelling
<1>3. CASE L!NextOwner(s) /\ rooms' = rooms
  BY <1>2, <1>3, NextOwnerGoes, RoomsStay
<1>4. CASE \E r \in job[s].todo : L!Cancel(r) /\ job' = [job EXCEPT ![s].todo = @ \ {r}]
  <2>1. PICK r \in job[s].todo : L!Cancel(r) /\ job' = [job EXCEPT ![s].todo = @ \ {r}]
    BY <1>4
  <2> DEFINE k == [job[s] EXCEPT !.todo = @ \ {r}]
  <2>2. job' = [job EXCEPT ![s] = k]
    BY <2>1
  <2>3. k \in Listed /\ k.at = job[s].at /\ k.conf = job[s].conf /\ k.todo \subseteq job[s].todo
    BY <1>2 DEF Listed
  <2> HIDE DEF k
  <2>4. k \in LobbyJobs /\ Goes(s, k)
    BY <1>1, <2>3 DEF LobbyJobs, Goes, Shrinks, Cancelling
  <2> QED BY <2>1, <2>2, <2>4, OneGoes, RoomCancelled
<1> QED BY <1>3, <1>4 DEF L!Dedupe

LEMMA CreateGoes == ASSUME LobbyTyped, NEW s \in L!Sessions, L!Create(s) PROVE RoomsGo /\ JobsGo
<1>1. job[s].at = "create" /\ L!Free # {}
  BY DEF L!Create, L!At
<1>2. job[s] \in Listed
  BY <1>1, JobShapes DEF LobbyTyped
<1>3. PICK o \in job[s].todo :
        IF job[s].kept = "none"
          THEN /\ IF L!Guarded THEN UNCHANGED rooms ELSE L!Insert(L!NewRoom(House, job[s].conf.win, TRUE))
               /\ L!Goto(s, L!Arrive([job[s] EXCEPT !.at = "shared", !.kept = "open", !.todo = {}]))
          ELSE L!Insert(L!NewRoom(o, job[s].conf.win, FALSE)) /\ L!NextOwner(s)
  BY DEF L!Create
<1>4. job[s].conf.win \in WinModes /\ o \in Things /\ House \in Things
  BY <1>2 DEF Listed, LobbyConfigs, Things, L!Owners
<1>5. /\ L!NewRoom(House, job[s].conf.win, TRUE) \in LobbyRows
      /\ L!NewRoom(o, job[s].conf.win, FALSE) \in LobbyRows
  BY <1>4, NewRoomRow
<1>6. CASE job[s].kept = "none"
  <2> DEFINE j == [job[s] EXCEPT !.at = "shared", !.kept = "open", !.todo = {}]
  <2>1. job' = [job EXCEPT ![s] = L!Arrive(j)]
    BY <1>3, <1>6 DEF L!Goto
  <2>2. j \in Listed /\ j.at \in Listing
    BY <1>2 DEF Listed, Listing
  <2> HIDE DEF j
  <2>3. L!Arrive(j) \in LobbyJobs /\ L!Arrive(j).at \notin Cancelling \cup {"saveRoom"}
    BY <2>2, ArriveIs
  <2>4. rooms' = rooms \/ L!Insert(L!NewRoom(House, job[s].conf.win, TRUE))
    BY <1>3, <1>6
  <2>5. RoomsGo
    BY <1>1, <1>5, <2>4, RoomsStay, RoomInserted
  <2> QED BY <2>1, <2>3, <2>5, OneGoesOn
<1>7. CASE job[s].kept # "none"
  <2>1. L!Insert(L!NewRoom(o, job[s].conf.win, FALSE)) /\ L!NextOwner(s)
    BY <1>3, <1>7
  <2> QED BY <1>1, <1>2, <1>5, <2>1, NextOwnerGoes, RoomInserted
<1> QED BY <1>6, <1>7

\* updateRoomSlot, updateRoomDisplay: a whole row is saved back.
LEMMA SaveGoes ==
  ASSUME LobbyInv, NEW s \in L!Sessions, L!EditSave(s) \/ L!UpdateSlotSave(s)
  PROVE  RoomsGo /\ JobsGo
<1>1. LobbyTyped /\ job' = [job EXCEPT ![s] = L!Idle]
  BY DEF LobbyInv, L!EditSave, L!UpdateSlotSave
<1>2. L!Idle \in LobbyJobs /\ L!Idle.at \notin Cancelling \cup {"saveRoom"}
  BY DEF L!Idle, LobbyJobs, Cancelling
<1>3. JobsGo
  BY <1>1, <1>2, OneGoesOn
<1>4. CASE rooms' = rooms
  BY <1>1, <1>3, <1>4, RoomsStay
<1>5. CASE job[s].at = "saveRoom" /\ rooms' = [rooms EXCEPT ![job[s].id] = job[s].row]
  <2>1. PICK r \in Rooms, row \in LobbyRows : r = job[s].id /\ row = job[s].row
    BY <1>1, <1>5, JobShapes DEF LobbyTyped, RoomEdits
  <2>2. Edits(s, r)
    BY <1>5, <2>1 DEF Edits
  <2>3. /\ L!Alive(r) => row.win = rooms[r].win
        /\ \A a \in L!Sessions : Edits(a, r) => job[a].row.win = row.win
    BY <2>1, <2>2 DEF LobbyInv, RowsRemembered
  <2>4. rooms' \in [Rooms -> LobbyRows] /\ \A q \in Rooms : rooms'[q] = IF q = r THEN row ELSE rooms[q]
    BY <1>1, <1>5, <2>1 DEF LobbyTyped
  <2>5. RoomsGo
    <3>1. ASSUME NEW q \in Rooms, L!Alive(q)'
          PROVE  IF L!Alive(q) THEN rooms'[q].win = rooms[q].win
                 ELSE \A a \in L!Sessions : Edits(a, q) => job[a].row.win = rooms'[q].win
      <4>1. CASE q = r
        BY <2>3, <2>4, <4>1
      <4>2. CASE q # r
        <5>1. rooms'[q] = rooms[q]
          BY <2>4, <4>2
        <5> QED BY <3>1, <5>1 DEF L!Alive
      <4> QED BY <4>1, <4>2
    <3> QED BY <2>4, <3>1 DEF RoomsGo
  <2> QED BY <1>3, <2>5
<1> QED BY <1>4, <1>5 DEF L!EditSave, L!UpdateSlotSave, L!At

LEMMA AnswerGoes ==
  ASSUME LobbyInv, NEW s \in L!Sessions, L!Answer(s)
  PROVE  RoomsGo /\ JobsGo /\ SettingsTyped'
<1>1. LobbyTyped
  BY DEF LobbyInv
<1>2. SettingsTyped'
  <2>1. config' = config /\ perAgent' = perAgent /\ playable' = playable /\ active' = active
    BY DEF L!Answer, L!Step, L!Boot, L!Tidy, L!CancelStale, L!DrawRead, L!DrawNextNumber, L!StartRead, L!StartRoom,
       L!AutoCreate, L!Ensure, L!FindActive, L!Dedupe, L!Create, L!UpdateSlotSave, L!EditSave, L!Settings
  <2> QED BY <1>1, <2>1 DEF LobbyTyped, SettingsTyped
<1>3. CASE L!Tidy(s, "tidy", "tidying") \/ L!Tidy(s, "next", "nexting")
  BY <1>1, <1>2, <1>3, TidyGoes
<1>4. CASE L!CancelStale(s, "tidy", "tidying") \/ L!CancelStale(s, "shared", "nexting")
  <2>1. "tidy" \in Listing /\ "shared" \in Listing
    BY DEF Listing
  <2> QED BY <1>1, <1>2, <1>4, <2>1, CancelGoes
<1> QED BY <1>1, <1>2, <1>3, <1>4, BootGoes, DrawGoes, ReadGoes, AutoCreateGoes, EnsureGoes, FindGoes, DedupeGoes,
           CreateGoes, SaveGoes DEF L!Answer, L!Step

\* A tick begins; a process dies; the lease of the lock ends.
LEMMA ProcessGoes ==
  ASSUME LobbyTyped, \/ \E p \in Schedulers : L!TickRead(p) \/ L!Die(p)
                     \/ L!Lapse \/ L!Expire
  PROVE  RoomsGo /\ JobsGo /\ SettingsTyped'
<1>1. RoomsGo /\ SettingsTyped'
  BY RoomsStay, SettingsStay DEF L!TickRead, L!Die, L!Lapse, L!Expire
<1>2. ASSUME NEW p \in Schedulers, L!TickRead(p) PROVE JobsGo
  <2>1. PICK at \in {"draw", "tidy"} : job' = [job EXCEPT ![p] = L!Job(at, TRUE)]
    BY <1>2 DEF L!TickRead
  <2>2. L!Job(at, TRUE) \in LobbyJobs /\ L!Job(at, TRUE).at = at
    BY JobIs DEF LobbyJobs, Listing
  <2>3. at \notin Cancelling \cup {"saveRoom"} /\ p \in L!Sessions
    BY DEF Cancelling, L!Sessions
  <2> QED BY <2>1, <2>2, <2>3, OneGoesOn
<1>3. ASSUME NEW p \in Schedulers, L!Die(p) PROVE JobsGo
  <2>1. job' = [job EXCEPT ![p] = L!Booting] /\ p \in L!Sessions
    BY <1>3 DEF L!Die, L!Sessions
  <2>2. L!Booting \in LobbyJobs /\ L!Booting.at \notin Cancelling \cup {"saveRoom"}
    BY DEF L!Booting, LobbyJobs, Cancelling
  <2> QED BY <2>1, <2>2, OneGoesOn
<1>4. CASE L!Lapse \/ L!Expire
  <2>1. job' = job
    BY <1>4 DEF L!Lapse, L!Expire
  <2>2. JobsGo
    BY <2>1, NoneGoes
  <2> QED BY <1>1, <2>2
<1> QED BY <1>1, <1>2, <1>3, <1>4

\* Buyers, the clock and the reaper.
LEMMA BuyersGo ==
  ASSUME LobbyTyped, NEW r \in Rooms, L!Buy(r) \/ L!ReleaseLast(r) \/ L!Clock(r) \/ L!Reap(r)
  PROVE  RoomsGo /\ JobsGo /\ SettingsTyped'
<1>1. JobsGo /\ SettingsTyped'
  BY NoneGoes, SettingsStay DEF L!Buy, L!ReleaseLast, L!Clock, L!Reap
<1>2. CASE L!ReleaseLast(r) \/ L!Reap(r)
  BY <1>1, <1>2, RoomCloses DEF L!ReleaseLast, L!Reap
<1>3. CASE L!Buy(r)
  <2> DEFINE row == [rooms[r] EXCEPT !.sold = TRUE, !.start = "counting"]
  <2>1. rooms' = [rooms EXCEPT ![r] = row] /\ L!Alive(r)
    BY <1>3 DEF L!Buy, L!Alive
  <2>2. row \in LobbyRows /\ row.win = rooms[r].win
    BY DEF LobbyTyped, LobbyRows
  <2> HIDE DEF row
  <2> QED BY <1>1, <2>1, <2>2, RoomChanges
<1>4. CASE L!Clock(r)
  <2>1. PICK start \in {"due", "late"} : rooms' = [rooms EXCEPT ![r] = [rooms[r] EXCEPT !.start = start]] /\ L!Alive(r)
    <3>1. rooms[r].start \in {"counting", "due"}
      BY <1>4 DEF L!Clock, L!Later
    <3>2. L!Later[rooms[r].start] \in {"due", "late"}
      BY <3>1 DEF L!Later
    <3> QED BY <1>4, <3>2 DEF L!Clock
  <2> DEFINE row == [rooms[r] EXCEPT !.start = start]
  <2>2. row \in LobbyRows /\ row.win = rooms[r].win
    BY DEF LobbyTyped, LobbyRows
  <2>3. rooms' = [rooms EXCEPT ![r] = row]
    BY <2>1
  <2> HIDE DEF row
  <2> QED BY <1>1, <2>1, <2>2, <2>3, RoomChanges
<1> QED BY <1>2, <1>3, <1>4

\* The switches, the agents and the slot.
LEMMA SettingsGo ==
  ASSUME LobbyTyped, \/ L!SetAgentRooms \/ L!SetPlayable \/ L!DeleteSlot
                     \/ \E a \in RoomAgents : L!SetActive(a)
  PROVE  RoomsGo /\ JobsGo /\ SettingsTyped'
<1>1. rooms' = rooms /\ job' = job
  BY DEF L!SetAgentRooms, L!SetPlayable, L!DeleteSlot, L!SetActive
<1>2. SettingsTyped'
  BY DEF L!SetAgentRooms, L!SetPlayable, L!DeleteSlot, L!SetActive, LobbyTyped, SettingsTyped
<1> QED BY <1>1, <1>2, RoomsStay, NoneGoes

\* The rooms of the administration, its cancellations and draws.
LEMMA HandGoes ==
  ASSUME LobbyTyped, \/ \E start \in {"counting", "due"} : L!CreateRoom(start)
                     \/ \E r \in Rooms : L!CancelRoom(r) \/ L!AdminDraw(r)
  PROVE  RoomsGo /\ JobsGo /\ SettingsTyped'
<1>1. JobsGo /\ SettingsTyped'
  BY NoneGoes, SettingsStay DEF L!CreateRoom, L!CancelRoom, L!AdminDraw
<1>2. ASSUME NEW start \in {"counting", "due"}, L!CreateRoom(start) PROVE RoomsGo
  <2>1. PICK w \in WinModes : L!Insert([L!NewRoom(OneOff, w, FALSE) EXCEPT !.start = start])
    BY <1>2 DEF L!CreateRoom
  <2>2. L!NewRoom(OneOff, w, FALSE) \in LobbyRows
    BY NewRoomRow
  <2>3. [L!NewRoom(OneOff, w, FALSE) EXCEPT !.start = start] \in LobbyRows
    <3>1. PICK row \in LobbyRows : row = L!NewRoom(OneOff, w, FALSE)
      BY <2>2
    <3>2. [row EXCEPT !.start = start] \in LobbyRows
      BY DEF LobbyRows
    <3> QED BY <3>1, <3>2
  <2>4. L!Free # {}
    BY <1>2 DEF L!CreateRoom
  <2> QED BY <2>1, <2>3, <2>4, RoomInserted
<1>3. ASSUME NEW r \in Rooms, L!CancelRoom(r) \/ L!AdminDraw(r) PROVE RoomsGo
  BY <1>3, RoomCloses, RoomDrawn DEF L!CancelRoom, L!AdminDraw
<1> QED BY <1>1, <1>2, <1>3

\* The calls of the administration that go on after a read.
LEMMA AdminGoes ==
  ASSUME LobbyTyped, NEW ad \in Admins,
         \/ L!CreateSlot(ad)
         \/ \E to \in {"on", "off"} : L!UpdateSlotRead(ad, to)
         \/ \E r \in Rooms : L!EditRead(ad, r)
         \/ \E c \in LobbyConfigs : L!UpdateBingoConfig(ad, c)
  PROVE  RoomsGo /\ JobsGo /\ SettingsTyped'
<1>1. rooms' = rooms /\ ad \in L!Sessions
  BY DEF L!CreateSlot, L!UpdateSlotRead, L!EditRead, L!UpdateBingoConfig, L!Sessions
<1>2. RoomsGo
  BY <1>1, RoomsStay
<1>3. SettingsTyped'
  BY DEF L!CreateSlot, L!UpdateSlotRead, L!EditRead, L!UpdateBingoConfig, L!Settings, LobbyTyped, SettingsTyped
<1>4. CASE L!CreateSlot(ad)
  <2> DEFINE k == [L!Job("create", FALSE) EXCEPT !.todo = {Slot}, !.kept = "slots"]
  <2>1. PICK j \in Listed : j = L!Job("create", FALSE) /\ j.at = "create"
    BY JobIs
  <2>2. [j EXCEPT !.todo = {Slot}, !.kept = "slots"] \in Listed /\ [j EXCEPT !.todo = {Slot}, !.kept = "slots"].at = "create"
    BY <2>1 DEF Listed, Things
  <2>3. job' = [job EXCEPT ![ad] = k]
    BY <1>4 DEF L!CreateSlot
  <2>4. k \in Listed /\ k.at = "create"
    BY <2>1, <2>2
  <2> HIDE DEF k
  <2>5. k \in LobbyJobs /\ k.at \notin Cancelling \cup {"saveRoom"}
    BY <2>4 DEF LobbyJobs, Cancelling
  <2> QED BY <1>1, <1>2, <1>3, <2>3, <2>5, OneGoesOn
<1>5. CASE \E to \in {"on", "off"} : L!UpdateSlotRead(ad, to)
  <2>1. PICK to \in {"on", "off"} : job' = [job EXCEPT ![ad] = [at |-> "saveSlot", to |-> to]]
    BY <1>5 DEF L!UpdateSlotRead
  <2> DEFINE k == [at |-> "saveSlot", to |-> to]
  <2>2. k \in LobbyJobs /\ k.at \notin Cancelling \cup {"saveRoom"}
    BY DEF LobbyJobs, Cancelling
  <2>3. job' = [job EXCEPT ![ad] = k]
    BY <2>1
  <2> HIDE DEF k
  <2> QED BY <1>1, <1>2, <1>3, <2>2, <2>3, OneGoesOn
<1>6. CASE \E r \in Rooms : L!EditRead(ad, r)
  <2>1. PICK r \in Rooms : L!EditRead(ad, r)
    BY <1>6
  <2> DEFINE k == [at |-> "saveRoom", id |-> r, row |-> rooms[r]]
  <2>2. job' = [job EXCEPT ![ad] = k] /\ L!Alive(r)
    BY <2>1 DEF L!EditRead
  <2>3. k \in RoomEdits /\ k.at = "saveRoom" /\ k.id = r /\ k.row = rooms[r]
    BY DEF RoomEdits, LobbyTyped
  <2> HIDE DEF k
  <2>4. k \in LobbyJobs /\ Goes(ad, k)
    BY <1>1, <2>2, <2>3 DEF LobbyJobs, Goes, Reads
  <2> QED BY <1>1, <1>2, <1>3, <2>2, <2>4, OneGoes
<1>7. CASE \E c \in LobbyConfigs : L!UpdateBingoConfig(ad, c)
  <2>1. job' = [job EXCEPT ![ad] = L!Job("shared", FALSE)]
    BY <1>7 DEF L!UpdateBingoConfig
  <2>2. L!Job("shared", FALSE) \in LobbyJobs /\ L!Job("shared", FALSE).at \notin Cancelling \cup {"saveRoom"}
    <3>1. "shared" \in Listing /\ "shared" \notin Cancelling \cup {"saveRoom"}
      BY DEF Listing, Cancelling
    <3> QED BY <3>1, JobIs DEF LobbyJobs
  <2> QED BY <1>1, <1>2, <1>3, <2>1, <2>2, OneGoesOn
<1> QED BY <1>4, <1>5, <1>6, <1>7

LEMMA LobbyStarts == L!Init => LobbyInv
<1> SUFFICES ASSUME L!Init PROVE LobbyInv
  OBVIOUS
<1>1. rooms \in [Rooms -> LobbyRows]
  <2>1. L!NoRoom \in LobbyRows
    BY DEF L!NoRoom, LobbyRows, Things, L!Owners
  <2> QED BY <2>1 DEF L!Init
<1>2. SettingsTyped
  BY DEF L!Init, SettingsTyped, LobbyConfigs
<1>3. job \in [L!Sessions -> [at : {"idle", "boot"}]]
  BY DEF L!Init, L!Idle, L!Booting
<1>4. \A s \in L!Sessions : job[s].at \in {"idle", "boot"}
  BY <1>3
<1>5. LobbyTyped
  BY <1>1, <1>2, <1>3 DEF LobbyTyped, LobbyJobs
<1>6. RowsRemembered /\ MayCollapse
  BY <1>4 DEF RowsRemembered, MayCollapse, Edits, ToCancel
<1> QED BY <1>5, <1>6 DEF LobbyInv

LEMMA LobbySteps == LobbyInv /\ [NotedLobbyNext]_<<lobby, excused>> => LobbyInv'
<1> SUFFICES ASSUME LobbyInv, [NotedLobbyNext]_<<lobby, excused>> PROVE LobbyInv'
  OBVIOUS
<1>1. LobbyTyped
  BY DEF LobbyInv
<1>2. CASE UNCHANGED <<lobby, excused>>
  <2>1. UNCHANGED <<rooms, config, perAgent, playable, active, job, excused>>
    BY <1>2 DEF lobby
  <2>2. (LobbyTyped <=> LobbyTyped') /\ (\A s : ToCancel(s)' = ToCancel(s))
    BY <2>1 DEF LobbyTyped, SettingsTyped, ToCancel
  <2>3. RowsRemembered' /\ MayCollapse'
    BY <2>1, <2>2 DEF LobbyInv, RowsRemembered, MayCollapse, Edits, L!Alive, L!Running, L!Fits
  <2> QED BY <1>1, <2>2, <2>3 DEF LobbyInv
<1>3. CASE NotedLobbyNext
  <2>1. HistoryGoes /\ L!Next
    BY <1>3 DEF NotedLobbyNext, HistoryGoes
  <2>2. LobbyConfigs = [win : WinModes, enabled : BOOLEAN]
    BY DEF LobbyConfigs
  <2>3. RoomsGo /\ JobsGo /\ SettingsTyped'
    <3>1. CASE \/ \E p \in Schedulers : L!TickRead(p) \/ L!Die(p)
               \/ L!Lapse \/ L!Expire
      BY <1>1, <3>1, ProcessGoes
    <3>2. CASE \E s \in L!Sessions : L!Answer(s)
      BY <3>2, AnswerGoes
    <3>3. CASE \E r \in Rooms : L!Buy(r) \/ L!ReleaseLast(r) \/ L!Clock(r) \/ L!Reap(r)
      BY <1>1, <3>3, BuyersGo
    <3>4. CASE L!Administration
      <4>1. CASE \/ L!SetAgentRooms \/ L!SetPlayable \/ L!DeleteSlot
                 \/ \E a \in RoomAgents : L!SetActive(a)
        BY <1>1, <4>1, SettingsGo
      <4>2. CASE \/ \E start \in {"counting", "due"} : L!CreateRoom(start)
                 \/ \E r \in Rooms : L!CancelRoom(r) \/ L!AdminDraw(r)
        BY <1>1, <4>2, HandGoes
      <4>3. CASE \E ad \in Admins :
                   \/ L!CreateSlot(ad)
                   \/ \E to \in {"on", "off"} : L!UpdateSlotRead(ad, to)
                   \/ \E r \in Rooms : L!EditRead(ad, r)
                   \/ \E c \in LobbyConfigs : L!UpdateBingoConfig(ad, c)
        BY <1>1, <4>3, AdminGoes
      <4> QED BY <2>2, <3>4, <4>1, <4>2, <4>3 DEF L!Administration
    <3> QED BY <2>1, <3>1, <3>2, <3>3, <3>4 DEF L!Next
  <2> QED BY <2>1, <2>3, LobbyGoes
<1> QED BY <1>2, <1>3

\* reconcileActiveRooms, ensureAgentRooms: whatever ticks, boots, deaths, lapsed leases, sales
\* and administrators do between a job's read and its cancellations, a game it collapses does
\* not fit the configuration, or started since, or was not the only one the job had read.
THEOREM NoGameIsKilled == NotedLobby => GamesNotKilled
<1>1. LobbyInv /\ [NotedLobbyNext]_<<lobby, excused>> =>
        [\A s \in L!Sessions, r \in Rooms :
           Collapsed(s, r) => <<s, r>> \in excused \/ (job[s].at # "dedupe" /\ ~L!Fits(r, job[s].conf))]_alivars
  BY DEF LobbyInv, MayCollapse, Collapsed
<1>2. NotedLobby => []LobbyInv
  BY LobbyStarts, LobbySteps, PTL DEF NotedLobby
<1> QED BY <1>1, <1>2, PTL DEF NotedLobby, GamesNotKilled
=============================================================================
