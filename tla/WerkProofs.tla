----------------------------- MODULE WerkProofs -----------------------------
(***************************************************************************)
(* What holds of WerkRound, with the history of MCWerk, for all rounds,    *)
(* users, processes and outcomes of a game.                                *)
(***************************************************************************)
EXTENDS MCWerk, SetSums, FiniteSetTheorems, TLAPS

Statuses == {"none", "lobby", "running", "settling", "completed", "cancelled"}
PartStatuses == {"none", "joined", "playing", "settled", "refunded"}
RowTypes == [status : Statuses, guard : BOOLEAN, scheduled : BOOLEAN]

RowsTyped ==
  /\ round \in [Rounds -> RowTypes]
  /\ part \in [Rounds -> [Users -> PartStatuses]]
  /\ live \in [Processes -> LiveRounds \cup {None}] /\ op \in [Processes -> Ops \cup {None}]
  /\ call \in [Users -> Calls \cup {None}]
  /\ \A e \in ledger : e.kind \in {"stake", "refund", "prize"} /\ e.round \in Rounds /\ e.user \in Users

Paid(r, u) == Of("prize", r, u) # {}
Back(r, u) == Of("refund", r, u) # {}
Staked(r, u) == Of("stake", r, u) # {}
Ended(r) == round[r].status \in {"completed", "cancelled"}

Drives(p, r) == live[p] # None /\ live[p].r = r
Cancels(p, r) == op[p] # None /\ op[p].do = "cancel" /\ op[p].r = r
Attached(u, p, r) == call[u] # None /\ call[u].attached /\ call[u].p = p /\ call[u].r = r

\* A round that was never shared is held by one process.
OneHolds ==
  \A r \in Rounds \ shared : \A p, q \in Processes :
    (Drives(p, r) \/ Cancels(p, r)) /\ (Drives(q, r) \/ Cancels(q, r)) => p = q

\* Whoever has paid has a row, and the row shows a refund and a prize; everybody is done
\* when an undisturbed round has ended.
RowFits(r) ==
  /\ round[r].guard => round[r].status \in {"lobby", "running", "completed"}
  /\ round[r].status = "none" => \A u \in Users : part[r][u] = "none"
  /\ \A u \in Users :
       /\ Staked(r, u) => part[r][u] # "none"
       /\ Back(r, u) \/ Paid(r, u) => part[r][u] \notin {"none", "joined"}
       /\ r \notin shared => (Paid(r, u) => part[r][u] = "settled") /\ ~(Paid(r, u) /\ Back(r, u))
       /\ Undisturbed(r) /\ round[r].status \in {"none", "lobby"} => part[r][u] # "playing"
       /\ Undisturbed(r) /\ Ended(r) /\ Staked(r, u) => part[r][u] \in Done

\* A request that is attached to a round is answered before its game is over.  Of a round that
\* was never shared: who was let go with a request to leave was refunded, and who has joined
\* is neither refunded nor paid.
CallFits(u) ==
  call[u] # None =>
    LET c == call[u] IN
    /\ round[c.r].status # "none"
    /\ c.attached => Drives(c.p, c.r) /\ live[c.p].status \in {"lobby", "running"} /\ ~live[c.p].timeUp
    /\ c.do # "join" => part[c.r][u] # "none"
    /\ c.do = "left" => part[c.r][u] # "joined"
    /\ c.r \notin shared =>
         /\ c.do = "leave" /\ ~c.attached => part[c.r][u] # "joined"
         /\ c.do = "joined" /\ c.attached => ~Back(c.r, u) /\ ~Paid(c.r, u)

\* What a process goes on with fits the round it drives.
OpFits(p) ==
  /\ op[p] # None =>
       /\ op[p].do = "open" => live[p] = None
       /\ op[p].do = "rehydrate" => live[p] # None /\ live[p].status = "lobby"
       /\ op[p].do \in {"save", "mark"} => live[p] # None /\ live[p].status = "running" /\ ~live[p].timeUp
       /\ op[p].do = "cancel" => /\ round[op[p].r].status # "none"
                                 /\ live[p] = None \/ (live[p].r = op[p].r /\ live[p].status = "lobby")
       /\ op[p].do = "settle" =>
            live[p] # None /\ live[p].status = "settling" /\ DOMAIN op[p].humans = live[p].humans
  /\ op[p] # None /\ op[p].do = "mark" /\ Undisturbed(live[p].r) => round[live[p].r].status = "running"

\* The humans in memory: nobody who was refunded, but for one who is about to leave, nobody who
\* was paid before the round is over; and everybody who has joined, or he is about to be.
MemoryFits(p) ==
  live[p] # None =>
    LET l == live[p]  r == live[p].r IN
    /\ round[r].status # "none"
    /\ l.status = "lobby" => ~l.timeUp
    /\ l.status = "settling" => l.timeUp
    /\ \A u \in l.humans : part[r][u] # "none"
    /\ r \notin shared =>
         /\ \A u \in l.humans : /\ Back(r, u) => Attached(u, p, r) /\ call[u].do = "left"
                                /\ Paid(r, u) => l.status = "completed"
         /\ l.status = "lobby" => round[r].status = "lobby"
         /\ l.status \in {"running", "settling"} => round[r].status \in {"lobby", "running"}
    /\ Undisturbed(r) /\ l.status # "completed" =>
         \A u \in Users : part[r][u] \in {"joined", "playing"} =>
           \/ u \in l.humans
           \/ Attached(u, p, r) /\ call[u].do = "joined"
           \/ op[p] # None /\ op[p].do = "rehydrate"

WerkInv ==
  /\ RowsTyped /\ OneHolds
  /\ \A r \in Rounds : RowFits(r)
  /\ \A u \in Users : CallFits(u)
  /\ \A p \in Processes : OpFits(p) /\ MemoryFits(p)

\* What a step adds to the history.
History ==
  /\ shared \subseteq shared' /\ disturbed \subseteq disturbed' /\ OneHolds'
  /\ \A u \in Users : call[u] # None /\ call'[u] # call[u] /\ call[u].r \notin disturbed' =>
       call[u].attached /\ LobbyOf(call[u].p)

LEMMA HistoryGrows ==
  ASSUME shared' = shared \cup Shares, disturbed' = disturbed \cup Late
  PROVE  History
<1>1. OneHolds'
  BY DEF OneHolds, Shares, Holds, Drives, Cancels
<1>2. ASSUME NEW u \in Users, call[u] # None, call'[u] # call[u], ~(call[u].attached /\ LobbyOf(call[u].p))
      PROVE  call[u].r \in Late
  BY <1>2 DEF Late
<1> QED BY <1>1, <1>2 DEF History

LEMMA WerkStarts == MCInit => WerkInv
<1> SUFFICES ASSUME MCInit PROVE WerkInv
  OBVIOUS
<1>1. /\ round = [r \in Rounds |-> [status |-> "none", guard |-> FALSE, scheduled |-> FALSE]]
      /\ part = [r \in Rounds |-> [u \in Users |-> "none"]] /\ ledger = {}
      /\ live = [p \in Processes |-> None] /\ op = [p \in Processes |-> None]
      /\ call = [u \in Users |-> None]
  BY DEF MCInit, Init
<1>2. \A r \in Rounds, u \in Users : ~ Paid(r, u) /\ ~ Back(r, u) /\ ~ Staked(r, u)
  BY <1>1 DEF Paid, Back, Staked, Of
<1>3. RowsTyped
  BY <1>1 DEF RowsTyped, RowTypes, Statuses, PartStatuses
<1>4. OneHolds
  BY <1>1 DEF OneHolds, Drives, Cancels
<1>5. ASSUME NEW r \in Rounds PROVE RowFits(r)
  BY <1>1, <1>2 DEF RowFits, Ended
<1>6. (\A u \in Users : CallFits(u)) /\ \A p \in Processes : OpFits(p) /\ MemoryFits(p)
  BY <1>1 DEF CallFits, OpFits, MemoryFits
<1> QED BY <1>3, <1>4, <1>5, <1>6 DEF WerkInv

Typed == live \in [Processes -> LiveRounds \cup {None}] /\ op \in [Processes -> Ops \cup {None}]

\* A step of p in its memory alone.
LEMMA MemoryStep ==
  ASSUME WerkInv, History, NEW p \in Processes, UNCHANGED <<round, part, ledger, call>>, Typed',
         \A q \in Processes : q # p => live'[q] = live[q] /\ op'[q] = op[q],
         \A u \in Users, r \in Rounds : Attached(u, p, r) =>
           Drives(p, r)' /\ live'[p].status \in {"lobby", "running"} /\ ~live'[p].timeUp,
         OpFits(p)', MemoryFits(p)'
  PROVE  WerkInv'
<1>1. RowsTyped'
  BY DEF WerkInv, RowsTyped, Typed
<1>2. OneHolds' /\ shared \subseteq shared' /\ \A r : Undisturbed(r)' => Undisturbed(r)
  BY DEF History, Undisturbed
<1>3. ASSUME NEW r, NEW u PROVE (Paid(r, u)' <=> Paid(r, u)) /\ (Back(r, u)' <=> Back(r, u)) /\ (Staked(r, u)' <=> Staked(r, u))
  BY DEF Paid, Back, Staked, Of
<1>4. ASSUME NEW r \in Rounds PROVE RowFits(r)'
  <2>1. RowFits(r)
    BY DEF WerkInv
  <2> QED BY <1>2, <1>3, <2>1 DEF RowFits, Ended
<1>5. ASSUME NEW u \in Users PROVE CallFits(u)'
  <2>1. PICK c : c = call[u]
    OBVIOUS
  <2>2. CallFits(u) /\ call'[u] = c
    BY <2>1 DEF WerkInv
  <2>3. CASE c = None
    BY <2>2, <2>3 DEF CallFits
  <2>4. CASE c # None
    <3>1. c \in Calls
      BY <2>1, <2>4 DEF WerkInv, RowsTyped
    <3>2. c.attached => Drives(c.p, c.r)' /\ live'[c.p].status \in {"lobby", "running"} /\ ~live'[c.p].timeUp
      <4> SUFFICES ASSUME c.attached PROVE Drives(c.p, c.r)' /\ live'[c.p].status \in {"lobby", "running"} /\ ~live'[c.p].timeUp
        OBVIOUS
      <4>1. c.p \in Processes /\ c.r \in Rounds
        BY <3>1 DEF Calls
      <4>2. CASE c.p = p
        BY <2>1, <2>4, <4>1, <4>2 DEF Attached
      <4>3. CASE c.p # p
        BY <2>1, <2>2, <2>4, <4>1, <4>3 DEF CallFits, Drives
      <4> QED BY <4>2, <4>3
    <3> QED BY <1>2, <1>3, <2>1, <2>2, <2>4, <3>1, <3>2 DEF CallFits
  <2> QED BY <2>3, <2>4
<1>6. ASSUME NEW q \in Processes, q # p PROVE OpFits(q)' /\ MemoryFits(q)'
  <2>1. OpFits(q) /\ MemoryFits(q) /\ live'[q] = live[q] /\ op'[q] = op[q]
    BY <1>6 DEF WerkInv
  <2>2. OpFits(q)'
    BY <1>2, <2>1 DEF OpFits
  <2>3. MemoryFits(q)'
    BY <1>2, <1>3, <2>1 DEF MemoryFits, Attached
  <2> QED BY <2>2, <2>3
<1> QED BY <1>1, <1>2, <1>4, <1>5, <1>6 DEF WerkInv

-----------------------------------------------------------------------------
LEMMA StatusEdit ==
  ASSUME NEW l \in LiveRounds, NEW x \in {"lobby", "running", "settling", "completed"}
  PROVE  LET n == [l EXCEPT !.status = x] IN n \in LiveRounds /\ n.status = x /\ n.r = l.r /\ n.humans = l.humans /\ n.timeUp = l.timeUp
BY DEF LiveRounds

LEMMA ScheduledEdit ==
  ASSUME NEW l \in LiveRounds, NEW x \in BOOLEAN
  PROVE  LET n == [l EXCEPT !.scheduled = x] IN n \in LiveRounds /\ n.status = l.status /\ n.r = l.r /\ n.humans = l.humans /\ n.timeUp = l.timeUp
BY DEF LiveRounds

LEMMA HumansEdit ==
  ASSUME NEW l \in LiveRounds, NEW x \in SUBSET Users
  PROVE  LET n == [l EXCEPT !.humans = x] IN n \in LiveRounds /\ n.status = l.status /\ n.r = l.r /\ n.humans = x /\ n.timeUp = l.timeUp
BY DEF LiveRounds

LEMMA TimeUpEdit ==
  ASSUME NEW l \in LiveRounds
  PROVE  LET n == [l EXCEPT !.timeUp = TRUE] IN n \in LiveRounds /\ n.status = l.status /\ n.r = l.r /\ n.humans = l.humans /\ n.timeUp = TRUE
BY DEF LiveRounds

LEMMA Nothing == /\ None \notin LiveRounds /\ None \notin Ops /\ None \notin Calls
BY NoneAssumption

\* Nobody is attached to a process that drives no round, or one whose game is over.
LEMMA AttachedTo ==
  ASSUME WerkInv, NEW p \in Processes, NEW u \in Users, NEW r, Attached(u, p, r)
  PROVE  Drives(p, r) /\ live[p].status \in {"lobby", "running"} /\ ~live[p].timeUp
BY DEF WerkInv, CallFits, Attached

LEMMA LoadActiveKeeps ==
  ASSUME WerkInv, History, NEW p \in Processes, LoadActive(p)
  PROVE  WerkInv'
<1>1. live[p] = None /\ UNCHANGED <<round, part, ledger, call>>
  BY DEF LoadActive
<1>2. \A u \in Users, r \in Rounds : ~ Attached(u, p, r)
  BY <1>1, AttachedTo DEF Drives
<1>3. live \in [Processes -> LiveRounds \cup {None}] /\ op \in [Processes -> Ops \cup {None}]
  BY DEF WerkInv, RowsTyped
<1>4. CASE live' = live /\ op' = [op EXCEPT ![p] = [do |-> "open"]]
  <2>1. [do |-> "open"] \in Ops
    BY DEF Ops
  <2>2. op'[p] = [do |-> "open"] /\ op'[p] # None /\ Typed'
    BY <1>3, <1>4, <2>1, Nothing DEF Typed
  <2>3. \A q \in Processes : q # p => live'[q] = live[q] /\ op'[q] = op[q]
    BY <1>3, <1>4
  <2>4. OpFits(p)' /\ MemoryFits(p)'
    BY <1>1, <1>4, <2>2 DEF OpFits, MemoryFits
  <2> QED BY <1>1, <1>2, <2>2, <2>3, <2>4, MemoryStep
<1>5. ASSUME NEW r \in Active, live' = live, op' = [op EXCEPT ![p] = [do |-> "cancel", r |-> r, why |-> "restart"]]
      PROVE  WerkInv'
  <2>1. r \in Rounds /\ round[r].status # "none"
    BY DEF Active, WerkInv, RowFits
  <2>2. [do |-> "cancel", r |-> r, why |-> "restart"] \in Ops
    BY <2>1 DEF Ops
  <2>3. op'[p] = [do |-> "cancel", r |-> r, why |-> "restart"] /\ op'[p] # None /\ Typed'
    BY <1>3, <1>5, <2>2, Nothing DEF Typed
  <2>4. \A q \in Processes : q # p => live'[q] = live[q] /\ op'[q] = op[q]
    BY <1>3, <1>5
  <2>5. OpFits(p)' /\ MemoryFits(p)'
    BY <1>1, <1>5, <2>1, <2>3 DEF OpFits, MemoryFits
  <2> QED BY <1>1, <1>2, <2>3, <2>4, <2>5, MemoryStep
<1>6. ASSUME NEW r \in Active, live' = [live EXCEPT ![p] = Hydrated(r, {})],
             \/ round[r].status = "lobby" /\ op' = [op EXCEPT ![p] = [do |-> "rehydrate"]]
             \/ round[r].status \notin {"lobby", "running", "settling"} /\ op' = op
      PROVE  WerkInv'
  <2>1. r \in Rounds /\ round[r].status \in {"lobby", "completed"} /\ round[r].scheduled \in BOOLEAN
    BY <1>6 DEF Active, WerkInv, RowFits, RowsTyped, RowTypes
  <2> DEFINE h == Hydrated(r, {})
  <2>2. h \in LiveRounds /\ h.r = r /\ h.status = round[r].status /\ h.humans = {} /\ ~h.timeUp
    BY <2>1 DEF Hydrated, LiveRounds
  <2> HIDE DEF h
  <2>3. live'[p] = h /\ live'[p] # None /\ \A q \in Processes : q # p => live'[q] = live[q] /\ op'[q] = op[q]
    BY <1>3, <1>6, <2>2, Nothing DEF h
  <2>4. [do |-> "rehydrate"] \in Ops
    BY DEF Ops
  <2>5. Typed'
    BY <1>3, <1>6, <2>2, <2>4 DEF Typed, h
  <2>6. \/ round[r].status = "lobby" /\ op'[p] = [do |-> "rehydrate"] /\ op'[p] # None
        \/ round[r].status = "completed" /\ op'[p] = None
    <3>1. op[p] = None
      BY DEF LoadActive, Tick
    <3> QED BY <1>3, <1>6, <2>1, <2>4, <3>1, Nothing
  <2>7. OpFits(p)'
    BY <2>2, <2>3, <2>6 DEF OpFits
  <2>8. MemoryFits(p)'
    BY <1>1, <2>1, <2>2, <2>3, <2>6 DEF MemoryFits
  <2> QED BY <1>1, <1>2, <2>3, <2>5, <2>7, <2>8, MemoryStep
<1>7. CASE Active # {}
  <2>1. PICK r \in Active : r = CHOOSE x \in Active : TRUE
    BY <1>7
  <2> QED BY <1>5, <1>6, <1>7, <2>1 DEF LoadActive, Goto
<1> QED BY <1>4, <1>7 DEF LoadActive, Goto

\* p goes on with o in the round it drives.
LEMMA OpGoes ==
  ASSUME WerkInv, NEW p \in Processes, NEW o \in Ops, NEW l \in LiveRounds,
         live' = [live EXCEPT ![p] = l], op' = [op EXCEPT ![p] = o]
  PROVE  /\ live'[p] = l /\ l # None /\ op'[p] = o /\ o # None /\ Typed'
         /\ \A q \in Processes : q # p => live'[q] = live[q] /\ op'[q] = op[q]
<1>1. live \in [Processes -> LiveRounds \cup {None}] /\ op \in [Processes -> Ops \cup {None}]
  BY DEF WerkInv, RowsTyped
<1> QED BY <1>1, Nothing DEF Typed

LEMMA OpEnds ==
  ASSUME WerkInv, NEW p \in Processes, NEW l \in LiveRounds, live' = [live EXCEPT ![p] = l], op' = [op EXCEPT ![p] = None]
  PROVE  /\ live'[p] = l /\ l # None /\ op'[p] = None /\ Typed'
         /\ \A q \in Processes : q # p => live'[q] = live[q] /\ op'[q] = op[q]
<1>1. live \in [Processes -> LiveRounds \cup {None}] /\ op \in [Processes -> Ops \cup {None}]
  BY DEF WerkInv, RowsTyped
<1> QED BY <1>1, Nothing DEF Typed

LEMMA RehydrateKeeps ==
  ASSUME WerkInv, History, NEW p \in Processes, Rehydrate(p)
  PROVE  WerkInv'
<1>1. PICK l : l = live[p]
  OBVIOUS
<1>2. /\ op[p] # None /\ op[p].do = "rehydrate" /\ UNCHANGED <<round, part, ledger, call>>
      /\ op' = [op EXCEPT ![p] = None]
      /\ live' = [live EXCEPT ![p].humans = @ \cup {u \in Users : part[l.r][u] = "joined"}]
  BY <1>1 DEF Rehydrate, Over, Goto
<1>3. l \in LiveRounds /\ l.status = "lobby" /\ l # None /\ OpFits(p) /\ MemoryFits(p)
  BY <1>1, <1>2 DEF WerkInv, RowsTyped, OpFits
<1> DEFINE h == l.humans \cup {u \in Users : part[l.r][u] = "joined"}
           n == [l EXCEPT !.humans = h]
<1>4. live' = [live EXCEPT ![p] = n]
  BY <1>1, <1>2
<1>5. /\ n \in LiveRounds /\ n.status = "lobby" /\ n.r = l.r /\ n.timeUp = l.timeUp /\ l.r \in Rounds
      /\ n.humans = l.humans \cup {u \in Users : part[l.r][u] = "joined"}
  <2>1. h \in SUBSET Users /\ l.r \in Rounds
    BY <1>3 DEF LiveRounds
  <2> HIDE DEF h
  <2>2. n \in LiveRounds /\ n.status = l.status /\ n.r = l.r /\ n.humans = h /\ n.timeUp = l.timeUp
    BY <1>3, <2>1, HumansEdit
  <2> HIDE DEF n
  <2> QED BY <1>3, <2>1, <2>2 DEF h
<1> HIDE DEF h, n
<1>6. /\ live'[p] = n /\ n # None /\ op'[p] = None /\ Typed'
      /\ \A q \in Processes : q # p => live'[q] = live[q] /\ op'[q] = op[q]
  BY <1>2, <1>4, <1>5, OpEnds
<1>7. OpFits(p)'
  BY <1>6 DEF OpFits
<1>8. \A u \in Users, r \in Rounds : Attached(u, p, r) =>
        Drives(p, r)' /\ live'[p].status \in {"lobby", "running"} /\ ~live'[p].timeUp
  BY <1>1, <1>5, <1>6, AttachedTo DEF Drives
<1>9. round[l.r].status = "lobby" \/ l.r \in shared
  BY <1>1, <1>3, <1>5 DEF WerkInv, MemoryFits
<1>10. MemoryFits(p)'
  <2>1. shared \subseteq shared' /\ \A r : Undisturbed(r)' => Undisturbed(r)
    BY DEF History, Undisturbed
  <2>2. \A u : (Paid(l.r, u)' <=> Paid(l.r, u)) /\ (Back(l.r, u)' <=> Back(l.r, u))
    BY <1>2 DEF Paid, Back, Of
  <2>3. RowFits(l.r)
    BY <1>5 DEF WerkInv
  <2>4. \A u \in Users : part[l.r][u] = "joined" => ~Back(l.r, u) /\ ~Paid(l.r, u)
    BY <2>3 DEF RowFits
  <2>5. Undisturbed(l.r) => \A u \in Users : part[l.r][u] \in {"joined", "playing"} => u \in n.humans
    BY <1>5, <1>9, <2>3 DEF RowFits, Undisturbed
  <2>6. \A u \in n.humans : u \in l.humans \/ (u \in Users /\ part[l.r][u] = "joined")
    BY <1>5
  <2>7. \A u, r : Attached(u, p, r)' <=> Attached(u, p, r)
    BY <1>2 DEF Attached
  <2> QED BY <1>1, <1>2, <1>3, <1>5, <1>6, <2>1, <2>2, <2>4, <2>5, <2>6, <2>7 DEF MemoryFits
<1> QED BY <1>2, <1>6, <1>7, <1>8, <1>10, MemoryStep

\* The round in memory goes on with its humans.
LEMMA MemoryKept ==
  ASSUME WerkInv, History, NEW p \in Processes, UNCHANGED <<round, part, ledger, call>>,
         live[p] # None, live'[p] # None, live'[p].r = live[p].r, live'[p].humans = live[p].humans,
         \/ live'[p].status = live[p].status
         \/ live[p].status \in {"lobby", "running", "settling"} /\ live'[p].status \in {"running", "settling"},
         live'[p].status = "lobby" => ~live'[p].timeUp, live'[p].status = "settling" => live'[p].timeUp,
         op[p] # None => op[p].do # "rehydrate"
  PROVE  MemoryFits(p)'
<1>1. PICK l : l = live[p]
  OBVIOUS
<1>2. PICK n : n = live'[p]
  OBVIOUS
<1>3. l \in LiveRounds /\ l # None /\ n # None /\ n.r = l.r /\ n.humans = l.humans /\ MemoryFits(p)
  BY <1>1, <1>2 DEF WerkInv, RowsTyped
<1>4. shared \subseteq shared' /\ \A r : Undisturbed(r)' => Undisturbed(r)
  BY DEF History, Undisturbed
<1>5. \A u : (Paid(l.r, u)' <=> Paid(l.r, u)) /\ (Back(l.r, u)' <=> Back(l.r, u))
  BY DEF Paid, Back, Of
<1>6. \A u, r : Attached(u, p, r)' <=> Attached(u, p, r)
  BY DEF Attached
<1>7. /\ n.status = l.status \/ (l.status \in {"lobby", "running", "settling"} /\ n.status \in {"running", "settling"})
      /\ n.status = "lobby" => ~n.timeUp
      /\ n.status = "settling" => n.timeUp
  BY <1>1, <1>2
<1> QED BY <1>1, <1>2, <1>3, <1>4, <1>5, <1>6, <1>7 DEF MemoryFits

LEMMA StartRoundKeeps ==
  ASSUME WerkInv, History, NEW p \in Processes, StartRound(p)
  PROVE  WerkInv'
<1>1. PICK l : l = live[p]
  OBVIOUS
<1>2. /\ op[p] = None /\ l # None /\ l.status = "lobby" /\ UNCHANGED <<round, part, ledger, call>>
      /\ live' = [live EXCEPT ![p].status = "running"] /\ op' = [op EXCEPT ![p] = [do |-> "save"]]
  BY <1>1 DEF StartRound, Tick, LobbyOf, Goto
<1>3. l \in LiveRounds /\ MemoryFits(p)
  BY <1>1, <1>2 DEF WerkInv, RowsTyped
<1> DEFINE n == [l EXCEPT !.status = "running"]
           o == [do |-> "save"]
<1>4. live' = [live EXCEPT ![p] = n] /\ op' = [op EXCEPT ![p] = o] /\ o.do = "save"
  BY <1>1, <1>2
<1>5. n \in LiveRounds /\ n.status = "running" /\ n.r = l.r /\ n.humans = l.humans /\ n.timeUp = l.timeUp
  BY <1>3, StatusEdit
<1>6. ~ l.timeUp
  BY <1>1, <1>2, <1>3 DEF MemoryFits
<1>7. o \in Ops
  BY DEF Ops
<1> HIDE DEF n, o
<1>8. /\ live'[p] = n /\ n # None /\ op'[p] = o /\ o # None /\ Typed'
      /\ \A q \in Processes : q # p => live'[q] = live[q] /\ op'[q] = op[q]
  BY <1>4, <1>5, <1>7, OpGoes
<1>9. OpFits(p)'
  BY <1>4, <1>5, <1>6, <1>8 DEF OpFits
<1>10. MemoryFits(p)'
  BY <1>1, <1>2, <1>5, <1>8, MemoryKept
<1>11. \A u \in Users, r \in Rounds : Attached(u, p, r) =>
         Drives(p, r)' /\ live'[p].status \in {"lobby", "running"} /\ ~live'[p].timeUp
  BY <1>1, <1>5, <1>8, AttachedTo DEF Drives
<1> QED BY <1>2, <1>8, <1>9, <1>10, <1>11, MemoryStep

LEMMA GiveUpKeeps ==
  ASSUME WerkInv, History, NEW p \in Processes, NEW w \in {"restart", "empty", "unwatched"}, GiveUp(p, w)
  PROVE  WerkInv'
<1>1. PICK l : l = live[p]
  OBVIOUS
<1> DEFINE o == [do |-> "cancel", r |-> l.r, why |-> w]
<1>2. /\ op[p] = None /\ l # None /\ l.status = "lobby" /\ UNCHANGED <<round, part, ledger, call, live>>
      /\ op' = [op EXCEPT ![p] = o]
  BY <1>1 DEF GiveUp, Tick, LobbyOf, Goto
<1>3. l \in LiveRounds /\ MemoryFits(p) /\ live \in [Processes -> LiveRounds \cup {None}]
  BY <1>1, <1>2 DEF WerkInv, RowsTyped
<1>4. o \in Ops
  BY <1>3 DEF Ops, LiveRounds
<1>5. live' = [live EXCEPT ![p] = l]
  BY <1>1, <1>2, <1>3
<1>6. o.do = "cancel" /\ o.r = l.r /\ round[l.r].status # "none" /\ (l.status = "lobby" => ~l.timeUp)
  BY <1>1, <1>2, <1>3 DEF MemoryFits
<1> HIDE DEF o
<1>7. /\ live'[p] = l /\ op'[p] = o /\ op'[p] # None /\ Typed'
      /\ \A q \in Processes : q # p => live'[q] = live[q] /\ op'[q] = op[q]
  BY <1>2, <1>3, <1>4, <1>5, OpGoes
<1>8. OpFits(p)'
  BY <1>2, <1>6, <1>7 DEF OpFits
<1>9. MemoryFits(p)'
  BY <1>1, <1>2, <1>6, <1>7, MemoryKept
<1>10. \A u \in Users, r \in Rounds : Attached(u, p, r) =>
         Drives(p, r)' /\ live'[p].status \in {"lobby", "running"} /\ ~live'[p].timeUp
  BY <1>1, <1>7, AttachedTo DEF Drives
<1> QED BY <1>2, <1>7, <1>8, <1>9, <1>10, MemoryStep

LEMMA ElapsedOutKeeps ==
  ASSUME WerkInv, History, NEW p \in Processes, ElapsedOut(p)
  PROVE  WerkInv'
<1>1. PICK l : l = live[p]
  OBVIOUS
<1>2. /\ op[p] = None /\ l # None /\ l.status = "running" /\ UNCHANGED <<round, part, ledger, call, op>>
      /\ live' = [live EXCEPT ![p].timeUp = TRUE] /\ \A u \in Users : call[u] # None => call[u].r # l.r
  BY <1>1 DEF ElapsedOut
<1>3. l \in LiveRounds /\ op \in [Processes -> Ops \cup {None}]
  BY <1>1, <1>2 DEF WerkInv, RowsTyped
<1> DEFINE n == [l EXCEPT !.timeUp = TRUE]
<1>4. live' = [live EXCEPT ![p] = n] /\ op' = [op EXCEPT ![p] = None]
  BY <1>1, <1>2, <1>3
<1>5. n \in LiveRounds /\ n.status = "running" /\ n.r = l.r /\ n.humans = l.humans /\ n.timeUp
  BY <1>2, <1>3, TimeUpEdit
<1> HIDE DEF n
<1>6. /\ live'[p] = n /\ n # None /\ op'[p] = None /\ Typed'
      /\ \A q \in Processes : q # p => live'[q] = live[q] /\ op'[q] = op[q]
  BY <1>4, <1>5, OpEnds
<1>7. OpFits(p)'
  BY <1>6 DEF OpFits
<1>8. MemoryFits(p)'
  BY <1>1, <1>2, <1>5, <1>6, MemoryKept
<1>9. \A u \in Users, r \in Rounds : ~ Attached(u, p, r)
  BY <1>1, <1>2, AttachedTo DEF Drives, Attached
<1> QED BY <1>2, <1>6, <1>7, <1>8, <1>9, MemoryStep

LEMMA SettleRoundKeeps ==
  ASSUME WerkInv, History, NEW p \in Processes, SettleRound(p)
  PROVE  WerkInv'
<1>1. PICK l : l = live[p]
  OBVIOUS
<1> DEFINE games == [u \in l.humans |-> Cardinality({r \in Rounds : part[r][u] = "settled"})]
           o == [do |-> "settle", humans |-> games]
           n == [l EXCEPT !.status = "settling"]
<1>2. /\ op[p] = None /\ l # None /\ l.status = "running" /\ l.timeUp /\ UNCHANGED <<round, part, ledger, call>>
      /\ live' = [live EXCEPT ![p].status = "settling"] /\ op' = [op EXCEPT ![p] = o]
  BY <1>1 DEF SettleRound, Tick, Goto
<1>3. l \in LiveRounds
  BY <1>1, <1>2 DEF WerkInv, RowsTyped
<1>4. o \in Ops /\ o.do = "settle" /\ DOMAIN o.humans = l.humans
  <2>1. ASSUME NEW u \in l.humans PROVE Cardinality({r \in Rounds : part[r][u] = "settled"}) \in 0..Cardinality(Rounds)
    <3> DEFINE T == {r \in Rounds : part[r][u] = "settled"}
    <3>1. T \subseteq Rounds /\ IsFiniteSet(Rounds)
      BY WerkAssumption
    <3> HIDE DEF T
    <3>2. IsFiniteSet(T) /\ Cardinality(T) <= Cardinality(Rounds)
      BY <3>1, FS_Subset
    <3>3. Cardinality(T) \in Nat /\ Cardinality(Rounds) \in Nat
      BY <3>1, <3>2, FS_CardinalityType
    <3>4. Cardinality(T) \in 0..Cardinality(Rounds)
      BY <3>2, <3>3
    <3> QED BY <3>4 DEF T
  <2>2. games \in [l.humans -> 0..Cardinality(Rounds)] /\ l.humans \in SUBSET Users
    BY <1>3, <2>1 DEF LiveRounds
  <2>3. games \in UNION {[H -> 0..Cardinality(Rounds)] : H \in SUBSET Users} /\ DOMAIN games = l.humans
    BY <2>2
  <2> HIDE DEF games
  <2> QED BY <2>3 DEF Ops
<1>5. live' = [live EXCEPT ![p] = n]
  BY <1>1, <1>2
<1>6. n \in LiveRounds /\ n.status = "settling" /\ n.r = l.r /\ n.humans = l.humans /\ n.timeUp = l.timeUp
  BY <1>3, StatusEdit
<1> HIDE DEF n, o
<1>7. /\ live'[p] = n /\ n # None /\ op'[p] = o /\ o # None /\ Typed'
      /\ \A q \in Processes : q # p => live'[q] = live[q] /\ op'[q] = op[q]
  BY <1>2, <1>4, <1>5, <1>6, OpGoes
<1>8. OpFits(p)'
  BY <1>4, <1>6, <1>7 DEF OpFits
<1>9. MemoryFits(p)'
  BY <1>1, <1>2, <1>6, <1>7, MemoryKept
<1>10. \A u \in Users, r \in Rounds : ~ Attached(u, p, r)
  BY <1>1, <1>2, AttachedTo
<1> QED BY <1>2, <1>7, <1>8, <1>9, <1>10, MemoryStep

\* A settlement that is not written: the round runs on.
LEMMA RunsOn ==
  ASSUME WerkInv, History, NEW p \in Processes, UNCHANGED <<round, part, ledger, call>>,
         op[p] # None, op[p].do = "settle", op' = [op EXCEPT ![p] = None],
         live' = [live EXCEPT ![p].status = AfterError]
  PROVE  WerkInv'
<1>1. PICK l : l = live[p]
  OBVIOUS
<1>2. l \in LiveRounds /\ l # None /\ l.status = "settling" /\ OpFits(p)
  BY <1>1 DEF WerkInv, RowsTyped, OpFits
<1> DEFINE n == [l EXCEPT !.status = "running"]
<1>3. live' = [live EXCEPT ![p] = n]
  BY <1>1 DEF AfterError
<1>4. n \in LiveRounds /\ n.status = "running" /\ n.r = l.r /\ n.humans = l.humans /\ n.timeUp = l.timeUp
  BY <1>2, StatusEdit
<1> HIDE DEF n
<1>5. /\ live'[p] = n /\ n # None /\ op'[p] = None /\ Typed'
      /\ \A q \in Processes : q # p => live'[q] = live[q] /\ op'[q] = op[q]
  BY <1>3, <1>4, OpEnds
<1>6. OpFits(p)'
  BY <1>5 DEF OpFits
<1>7. MemoryFits(p)'
  BY <1>1, <1>2, <1>4, <1>5, MemoryKept
<1>8. \A u \in Users, r \in Rounds : ~ Attached(u, p, r)
  BY <1>1, <1>2, AttachedTo
<1> QED BY <1>5, <1>6, <1>7, <1>8, MemoryStep

-----------------------------------------------------------------------------
\* What a step leaves alone: the row of a round, ...
LEMMA OtherRow ==
  ASSUME History, NEW r, RowFits(r), round'[r] = round[r], part'[r] = part[r],
         \A u : (Paid(r, u)' <=> Paid(r, u)) /\ (Back(r, u)' <=> Back(r, u)) /\ (Staked(r, u)' <=> Staked(r, u))
  PROVE  RowFits(r)'
<1>1. shared \subseteq shared' /\ (Undisturbed(r)' => Undisturbed(r))
  BY DEF History, Undisturbed
<1> QED BY <1>1 DEF RowFits, Ended

\* ... a request, whose round may be another's meanwhile, ...
LEMMA OtherCall ==
  ASSUME History, NEW u \in Users, NEW c, c = call[u], CallFits(u), call'[u] = c,
         c # None =>
           /\ round'[c.r].status # "none"
           /\ part[c.r][u] # "none" => part'[c.r][u] # "none"
           /\ part'[c.r][u] = "joined" => part[c.r][u] = "joined"
           /\ c.r \in shared' \/ ((Paid(c.r, u)' => Paid(c.r, u)) /\ (Back(c.r, u)' => Back(c.r, u)))
           /\ c.attached => Drives(c.p, c.r)' /\ live'[c.p].status \in {"lobby", "running"} /\ ~live'[c.p].timeUp
  PROVE  CallFits(u)'
<1>1. shared \subseteq shared'
  BY DEF History
<1> QED BY <1>1 DEF CallFits

\* ... and a process, whose round may be another's.
LEMMA OtherMemory ==
  ASSUME History, NEW q \in Processes, OpFits(q), MemoryFits(q), live'[q] = live[q], op'[q] = op[q],
         \A r : round[r].status # "none" => round'[r].status # "none",
         live[q] # None =>
           LET r == live[q].r IN
           /\ live[q].humans \subseteq Users
           /\ \A u \in live[q].humans : part[r][u] # "none" => part'[r][u] # "none"
           /\ \/ r \in shared'
              \/ /\ round'[r].status = round[r].status /\ part'[r] = part[r]
                 /\ \A u : (Paid(r, u)' <=> Paid(r, u)) /\ (Back(r, u)' <=> Back(r, u))
                 /\ \A u \in Users : Attached(u, q, r) => Attached(u, q, r)' /\ call'[u].do = call[u].do
  PROVE  OpFits(q)' /\ MemoryFits(q)'
<1>1. shared \subseteq shared' /\ \A r : Undisturbed(r)' => Undisturbed(r) /\ r \notin shared'
  BY DEF History, Undisturbed
<1>2. OpFits(q)'
  BY <1>1 DEF OpFits
<1>3. MemoryFits(q)'
  BY <1>1 DEF MemoryFits
<1> QED BY <1>2, <1>3

LEMMA RowsStay ==
  ASSUME WerkInv, History, UNCHANGED <<round, part, ledger>>
  PROVE  /\ \A r \in Rounds : RowFits(r)'
         /\ \A r, u : (Paid(r, u)' <=> Paid(r, u)) /\ (Back(r, u)' <=> Back(r, u)) /\ (Staked(r, u)' <=> Staked(r, u))
<1>1. ASSUME NEW r, NEW u PROVE (Paid(r, u)' <=> Paid(r, u)) /\ (Back(r, u)' <=> Back(r, u)) /\ (Staked(r, u)' <=> Staked(r, u))
  BY DEF Paid, Back, Staked, Of
<1> QED BY <1>1, OtherRow DEF WerkInv

LEMMA CrashKeeps ==
  ASSUME WerkInv, History, NEW p \in Processes, Crash(p)
  PROVE  WerkInv'
<1>1. /\ live' = [live EXCEPT ![p] = None] /\ op' = [op EXCEPT ![p] = None]
      /\ call' = [u \in Users |-> IF call[u] # None /\ call[u].p = p THEN None ELSE call[u]]
      /\ UNCHANGED <<round, part, ledger>>
  BY DEF Crash, Over, Goto
<1>2. /\ live'[p] = None /\ op'[p] = None
      /\ \A q \in Processes : q # p => live'[q] = live[q] /\ op'[q] = op[q]
      /\ \A u \in Users : call'[u] = None \/ (call'[u] = call[u] /\ call[u].p # p)
  BY <1>1 DEF WerkInv, RowsTyped
<1>3. RowsTyped'
  BY <1>1 DEF WerkInv, RowsTyped
<1>4. ASSUME NEW u \in Users PROVE CallFits(u)'
  <2>1. PICK c : c = call[u]
    OBVIOUS
  <2>2. CASE call'[u] = None
    BY <2>2 DEF CallFits
  <2>3. CASE call'[u] = c /\ c.p # p /\ c # None
    <3>1. CallFits(u) /\ c.p \in Processes
      BY <2>1, <2>3 DEF WerkInv, RowsTyped, Calls
    <3>2. c.attached => Drives(c.p, c.r)' /\ live'[c.p].status \in {"lobby", "running"} /\ ~live'[c.p].timeUp
      BY <1>2, <2>1, <2>3, <3>1 DEF CallFits, Drives
    <3>3. round[c.r].status # "none"
      BY <2>1, <2>3, <3>1 DEF CallFits
    <3> QED BY <1>1, <2>1, <2>3, <3>1, <3>2, <3>3, RowsStay, OtherCall
  <2> QED BY <1>2, <2>1, <2>2, <2>3
<1>5. ASSUME NEW q \in Processes PROVE OpFits(q)' /\ MemoryFits(q)'
  <2>1. CASE q = p
    BY <1>2, <2>1 DEF OpFits, MemoryFits
  <2>2. CASE q # p
    <3>1. \A u, r : Attached(u, q, r) /\ u \in Users => Attached(u, q, r)' /\ call'[u].do = call[u].do
      BY <1>1, <1>2, <2>2 DEF Attached
    <3>2. OpFits(q) /\ MemoryFits(q)
      BY DEF WerkInv
    <3>3. live[q] # None => live[q].humans \subseteq Users
      BY DEF WerkInv, RowsTyped, LiveRounds
    <3> QED BY <1>1, <1>2, <2>2, <3>1, <3>2, <3>3, RowsStay, OtherMemory
  <2> QED BY <2>1, <2>2
<1> QED BY <1>1, <1>3, <1>4, <1>5, RowsStay DEF WerkInv, History

LEMMA QuietStep ==
  ASSUME WerkInv, History, UNCHANGED <<round, part, ledger, live, op, call>>
  PROVE  WerkInv'
<1>1. RowsTyped'
  BY DEF WerkInv, RowsTyped
<1>2. ASSUME NEW u \in Users PROVE CallFits(u)'
  <2>1. PICK c : c = call[u]
    OBVIOUS
  <2>2. CallFits(u)
    BY DEF WerkInv
  <2>3. c # None => /\ round[c.r].status # "none"
                    /\ c.attached => Drives(c.p, c.r)' /\ live'[c.p].status \in {"lobby", "running"} /\ ~live'[c.p].timeUp
    BY <2>1, <2>2 DEF CallFits, Drives
  <2> QED BY <2>1, <2>2, <2>3, RowsStay, OtherCall
<1>3. ASSUME NEW q \in Processes PROVE OpFits(q)' /\ MemoryFits(q)'
  <2>1. OpFits(q) /\ MemoryFits(q) /\ \A u, r : Attached(u, q, r) => Attached(u, q, r)'
    BY DEF WerkInv, Attached
  <2>2. live[q] # None => live[q].humans \subseteq Users
    BY DEF WerkInv, RowsTyped, LiveRounds
  <2> QED BY <2>1, <2>2, RowsStay, OtherMemory
<1> QED BY <1>1, <1>2, <1>3, RowsStay DEF WerkInv, History

\* The checks of join and leave begin a request that is attached.
LEMMA RequestBegins ==
  ASSUME WerkInv, History, NEW u \in Users, NEW p \in Processes, NEW do \in {"join", "leave"},
         call[u] = None, LobbyOf(p), Request(u, p, do), do = "leave" => u \in live[p].humans,
         UNCHANGED <<round, part, ledger, live, op>>
  PROVE  WerkInv'
<1>1. PICK l : l = live[p]
  OBVIOUS
<1> DEFINE c == [do |-> do, p |-> p, r |-> l.r, attached |-> TRUE, scheduled |-> FALSE]
<1>2. l # None /\ l.status = "lobby" /\ call' = [call EXCEPT ![u] = c]
  BY <1>1 DEF LobbyOf, Request
<1>3. l \in LiveRounds /\ l.r \in Rounds /\ MemoryFits(p)
  BY <1>1, <1>2 DEF WerkInv, RowsTyped, LiveRounds
<1>4. c \in Calls /\ c.do = do /\ c.p = p /\ c.r = l.r /\ c.attached
  BY <1>3 DEF Calls
<1> HIDE DEF c
<1>5. call'[u] = c /\ c # None /\ \A v \in Users : v # u => call'[v] = call[v]
  BY <1>2, <1>4, Nothing DEF WerkInv, RowsTyped
<1>6. RowsTyped'
  BY <1>2, <1>4 DEF WerkInv, RowsTyped
<1>7. CallFits(u)'
  <2>1. /\ round[l.r].status # "none" /\ ~l.timeUp
        /\ do = "leave" => part[l.r][u] # "none"
    BY <1>1, <1>2, <1>3 DEF MemoryFits
  <2>2. Drives(p, l.r)' /\ live'[p].status = "lobby" /\ ~live'[p].timeUp
    BY <1>1, <1>2, <2>1 DEF Drives
  <2> QED BY <1>4, <1>5, <2>1, <2>2 DEF CallFits
<1>8. ASSUME NEW v \in Users, v # u PROVE CallFits(v)'
  <2>1. PICK k : k = call[v]
    OBVIOUS
  <2>2. CallFits(v)
    BY DEF WerkInv
  <2>3. k # None => /\ round[k.r].status # "none"
                    /\ k.attached => Drives(k.p, k.r)' /\ live'[k.p].status \in {"lobby", "running"} /\ ~live'[k.p].timeUp
    BY <2>1, <2>2 DEF CallFits, Drives
  <2> QED BY <1>5, <1>8, <2>1, <2>2, <2>3, RowsStay, OtherCall
<1>9. ASSUME NEW q \in Processes PROVE OpFits(q)' /\ MemoryFits(q)'
  <2>1. OpFits(q) /\ MemoryFits(q) /\ \A v \in Users : \A r : Attached(v, q, r) => Attached(v, q, r)' /\ call'[v].do = call[v].do
    BY <1>5 DEF WerkInv, Attached
  <2>2. live[q] # None => live[q].humans \subseteq Users
    BY DEF WerkInv, RowsTyped, LiveRounds
  <2> QED BY <2>1, <2>2, RowsStay, OtherMemory
<1> QED BY <1>6, <1>7, <1>8, <1>9, RowsStay DEF WerkInv, History

\* The answer of a request changes the humans of the round it is attached to.
LEMMA RequestEnds ==
  ASSUME WerkInv, History, NEW u \in Users, NEW c \in Calls, c = call[u], NEW p \in Processes, p = c.p, NEW r \in Rounds, r = c.r,
         call' = [call EXCEPT ![u] = None],
         c.do \in {"joined", "left"}, UNCHANGED <<round, part, ledger, op>>,
         live' = IF c.attached
                 THEN [live EXCEPT ![c.p].humans = IF c.do = "joined" THEN @ \cup {u} ELSE @ \ {u}] ELSE live
  PROVE  WerkInv'
<1>1. /\ call'[u] = None /\ \A v \in Users : v # u => call'[v] = call[v]
      /\ RowsTyped /\ c # None /\ c.p \in Processes /\ c.r \in Rounds /\ CallFits(u)
  BY Nothing DEF WerkInv, RowsTyped, Calls
<1>2. CASE ~ c.attached
  <2>1. live' = live
    BY <1>2
  <2>2. RowsTyped'
    BY <2>1 DEF WerkInv, RowsTyped
  <2>3. ASSUME NEW v \in Users PROVE CallFits(v)'
    <3>1. PICK k : k = call[v]
      OBVIOUS
    <3>2. CASE v = u
      BY <1>1, <3>2 DEF CallFits
    <3>3. CASE v # u
      <4>1. CallFits(v) /\ call'[v] = k
        BY <1>1, <3>1, <3>3 DEF WerkInv
      <4>2. k # None => /\ round[k.r].status # "none"
                        /\ k.attached => Drives(k.p, k.r)' /\ live'[k.p].status \in {"lobby", "running"} /\ ~live'[k.p].timeUp
        BY <2>1, <3>1, <4>1 DEF CallFits, Drives
      <4> QED BY <3>1, <4>1, <4>2, RowsStay, OtherCall
    <3> QED BY <3>2, <3>3
  <2>4. ASSUME NEW q \in Processes PROVE OpFits(q)' /\ MemoryFits(q)'
    <3>1. \A v \in Users : \A x : Attached(v, q, x) => Attached(v, q, x)' /\ call'[v].do = call[v].do
      BY <1>1, <1>2 DEF Attached
    <3>2. OpFits(q) /\ MemoryFits(q)
      BY DEF WerkInv
    <3>3. live[q] # None => live[q].humans \subseteq Users
      BY DEF WerkInv, RowsTyped, LiveRounds
    <3> QED BY <2>1, <3>1, <3>2, <3>3, RowsStay, OtherMemory
  <2> QED BY <2>2, <2>3, <2>4, RowsStay DEF WerkInv, History
<1>3. CASE c.attached
  <2>1. PICK l : l = live[p]
    OBVIOUS
  <2> DEFINE h == IF c.do = "joined" THEN l.humans \cup {u} ELSE l.humans \ {u}
             n == [l EXCEPT !.humans = h]
  <2>2. l # None /\ l.r = c.r /\ l.status \in {"lobby", "running"} /\ ~l.timeUp /\ MemoryFits(p) /\ OpFits(p)
    BY <1>1, <1>3, <2>1 DEF WerkInv, CallFits, Drives
  <2>3. l \in LiveRounds
    BY <1>1, <2>1, <2>2 DEF RowsTyped
  <2>4. h \in SUBSET Users /\ (c.do = "joined" => h = l.humans \cup {u}) /\ (c.do = "left" => h = l.humans \ {u})
    BY <2>3 DEF LiveRounds
  <2>5. live' = [live EXCEPT ![p] = n]
    BY <1>3, <2>1
  <2> HIDE DEF h
  <2>6. n \in LiveRounds /\ n.status = l.status /\ n.r = l.r /\ n.humans = h /\ n.timeUp = l.timeUp
    BY <2>3, <2>4, HumansEdit
  <2> HIDE DEF n
  <2>7. live'[p] = n /\ n # None /\ \A q \in Processes : q # p => live'[q] = live[q]
    BY <1>1, <2>5, <2>6, Nothing DEF RowsTyped
  <2>8. RowsTyped'
    BY <1>1, <2>5, <2>6 DEF RowsTyped
  <2>9. ASSUME NEW v \in Users PROVE CallFits(v)'
    <3>1. PICK k : k = call[v]
      OBVIOUS
    <3>2. CASE v = u
      BY <1>1, <3>2 DEF CallFits
    <3>3. CASE v # u
      <4>1. CallFits(v) /\ call'[v] = k
        BY <1>1, <3>1, <3>3 DEF WerkInv
      <4>2. CASE k # None
        <5>1. k.p \in Processes
          BY <3>1, <4>2 DEF WerkInv, RowsTyped, Calls
        <5>2. k.attached => Drives(k.p, k.r) /\ live[k.p].status \in {"lobby", "running"} /\ ~live[k.p].timeUp
          BY <3>1, <4>1, <4>2 DEF CallFits
        <5>3. k.attached => Drives(k.p, k.r)' /\ live'[k.p].status \in {"lobby", "running"} /\ ~live'[k.p].timeUp
          BY <2>1, <2>6, <2>7, <5>1, <5>2 DEF Drives
        <5>4. round[k.r].status # "none"
          BY <3>1, <4>1, <4>2 DEF CallFits
        <5> QED BY <3>1, <4>1, <5>3, <5>4, RowsStay, OtherCall
      <4> QED BY <3>1, <4>1, <4>2, RowsStay, OtherCall
    <3> QED BY <3>2, <3>3
  <2>10. ASSUME NEW q \in Processes, q # p PROVE OpFits(q)' /\ MemoryFits(q)'
    <3>1. \A v \in Users : \A x : Attached(v, q, x) => Attached(v, q, x)' /\ call'[v].do = call[v].do
      BY <1>1, <2>10 DEF Attached
    <3>2. OpFits(q) /\ MemoryFits(q)
      BY DEF WerkInv
    <3>3. live[q] # None => live[q].humans \subseteq Users
      BY DEF WerkInv, RowsTyped, LiveRounds
    <3> QED BY <2>7, <2>10, <3>1, <3>2, <3>3, RowsStay, OtherMemory
  <2>11. OpFits(p)'
    <3>1. op[p] # None => op[p].do # "settle"
      BY <2>1, <2>2 DEF OpFits
    <3>2. \A x : Undisturbed(x)' => Undisturbed(x)
      BY DEF History, Undisturbed
    <3> QED BY <2>1, <2>2, <2>6, <2>7, <3>1, <3>2 DEF OpFits
  <2>12. MemoryFits(p)'
    <3>1. shared \subseteq shared' /\ \A x : Undisturbed(x)' => Undisturbed(x)
      BY DEF History, Undisturbed
    <3>2. \A v \in Users : \A x : v # u => (Attached(v, p, x)' <=> Attached(v, p, x)) /\ call'[v] = call[v]
      BY <1>1 DEF Attached
    <3>3. part[r][u] # "none" /\ round[r].status # "none"
      BY <1>1, <2>1, <2>2 DEF CallFits
    <3>4. \A v \in n.humans : v \in Users /\ part[r][v] # "none"
      BY <2>1, <2>2, <2>4, <2>6, <3>3 DEF MemoryFits
    <3>5. ASSUME r \notin shared', NEW v \in n.humans
          PROVE  (Back(r, v)' => Attached(v, p, r)' /\ call'[v].do = "left") /\ (Paid(r, v)' => l.status = "completed")
      <4>1. CASE v = u
        <5>1. c.do = "joined"
          BY <2>4, <2>6, <3>5, <4>1
        <5>2. ~Back(r, u) /\ ~Paid(r, u)
          BY <1>1, <1>3, <2>2, <3>1, <3>5, <5>1 DEF CallFits
        <5> QED BY <4>1, <5>2, RowsStay
      <4>2. CASE v # u
        <5>1. v \in l.humans
          BY <2>4, <2>6, <3>5, <4>2
        <5>2. (Back(r, v) => Attached(v, p, r) /\ call[v].do = "left") /\ (Paid(r, v) => l.status = "completed")
          BY <2>1, <2>2, <3>1, <3>5, <5>1 DEF MemoryFits
        <5> QED BY <3>2, <3>4, <3>5, <4>2, <5>2, RowsStay
      <4> QED BY <4>1, <4>2
    <3>6. ASSUME Undisturbed(r)', NEW v \in Users, part[r][v] \in {"joined", "playing"}
          PROVE  \/ v \in n.humans
                 \/ Attached(v, p, r)' /\ call'[v].do = "joined"
                 \/ op[p] # None /\ op[p].do = "rehydrate"
      <4>1. \/ v \in l.humans
            \/ Attached(v, p, r) /\ call[v].do = "joined"
            \/ op[p] # None /\ op[p].do = "rehydrate"
        BY <2>1, <2>2, <3>1, <3>6 DEF MemoryFits
      <4>2. CASE v # u
        BY <2>4, <2>6, <3>2, <4>1, <4>2
      <4>3. CASE v = u /\ c.do = "joined"
        BY <2>4, <2>6, <4>3
      <4>4. CASE v = u /\ c.do = "left"
        <5>1. LobbyOf(p) /\ r \notin shared
          BY <1>1, <1>3, <2>2, <3>1, <3>6 DEF History, Undisturbed
        <5>2. round[r].status = "lobby"
          BY <2>1, <2>2, <5>1 DEF MemoryFits, LobbyOf
        <5>3. part[r][u] # "playing"
          BY <1>1, <2>2, <3>1, <3>6, <5>2 DEF WerkInv, RowFits
        <5>4. part[r][u] # "joined"
          BY <1>1, <2>2, <4>4 DEF CallFits
        <5> QED BY <3>6, <4>4, <5>3, <5>4
      <4> QED BY <4>2, <4>3, <4>4
    <3>7. l.status # "settling" /\ r \notin shared' =>
            /\ l.status = "lobby" => round[r].status = "lobby"
            /\ l.status = "running" => round[r].status \in {"lobby", "running"}
      BY <2>1, <2>2, <3>1 DEF MemoryFits
    <3>8. /\ live'[p] = n /\ n.r = r /\ n.status = l.status /\ ~n.timeUp /\ l.status \in {"lobby", "running"}
          /\ round' = round /\ part' = part /\ op' = op
      BY <2>2, <2>6, <2>7
    <3>9. ASSUME r \notin shared'
          PROVE  /\ l.status = "lobby" => round[r].status = "lobby"
                 /\ l.status = "running" => round[r].status \in {"lobby", "running"}
      BY <2>2, <3>7, <3>9
    <3>10. n # None /\ round'[n.r].status # "none" /\ ~n.timeUp /\ n.status # "settling"
      BY <2>7, <3>3, <3>8
    <3>11. ASSUME n.r \notin shared', NEW v \in n.humans
           PROVE  /\ Back(n.r, v)' => Attached(v, p, n.r)' /\ call'[v].do = "left"
                  /\ Paid(n.r, v)' => n.status = "completed"
      BY <3>5, <3>8, <3>11
    <3>12. n.r \notin shared' => /\ n.status = "lobby" => round'[n.r].status = "lobby"
                                 /\ n.status \in {"running", "settling"} => round'[n.r].status \in {"lobby", "running"}
      BY <3>8, <3>9
    <3>13. ASSUME Undisturbed(n.r)', n.status # "completed", NEW v \in Users, part'[n.r][v] \in {"joined", "playing"}
           PROVE  \/ v \in n.humans
                  \/ Attached(v, p, n.r)' /\ call'[v].do = "joined"
                  \/ op'[p] # None /\ op'[p].do = "rehydrate"
      BY <3>6, <3>8, <3>13
    <3>14. live'[p] = n /\ \A v \in n.humans : part'[n.r][v] # "none"
      BY <3>4, <3>8
    <3> QED BY <3>10, <3>11, <3>12, <3>13, <3>14 DEF MemoryFits
  <2> QED BY <2>8, <2>9, <2>10, <2>11, <2>12, RowsStay DEF WerkInv, History
<1> QED BY <1>2, <1>3

-----------------------------------------------------------------------------
LEMMA LeastIn == ASSUME NEW S \in SUBSET Nat, S # {} PROVE Min(S) \in S
<1>1. \E x \in S : \A y \in S : x <= y
  BY LeastNat
<1> QED BY <1>1 DEF Min

LEMMA OpenLobbyKeeps ==
  ASSUME WerkInv, History, NEW p \in Processes, OpenLobby(p)
  PROVE  WerkInv'
<1>1. /\ op[p] # None /\ op[p].do = "open" /\ op' = [op EXCEPT ![p] = None] /\ UNCHANGED <<part, ledger, call>>
      /\ live[p] = None /\ live \in [Processes -> LiveRounds \cup {None}] /\ op \in [Processes -> Ops \cup {None}]
  BY DEF OpenLobby, Over, Goto, WerkInv, RowsTyped, OpFits
<1>2. op'[p] = None /\ \A q \in Processes : q # p => op'[q] = op[q]
  BY <1>1
<1>3. CASE UNCHANGED <<round, live>>
  <2>1. Typed' /\ OpFits(p)' /\ MemoryFits(p)'
    BY <1>1, <1>2, <1>3 DEF Typed, OpFits, MemoryFits
  <2>2. \A u \in Users, r \in Rounds : ~ Attached(u, p, r)
    BY <1>1, AttachedTo DEF Drives
  <2> QED BY <1>1, <1>2, <1>3, <2>1, <2>2, MemoryStep
<1>4. ASSUME NEW r \in Rounds, round[r].status = "none",
             round' = [round EXCEPT ![r] = [status |-> "lobby", guard |-> TRUE, scheduled |-> FALSE]],
             live' = [live EXCEPT ![p] = [r |-> r, status |-> "lobby", scheduled |-> FALSE, humans |-> {}, timeUp |-> FALSE]]
      PROVE  WerkInv'
  <2> DEFINE n == [r |-> r, status |-> "lobby", scheduled |-> FALSE, humans |-> {}, timeUp |-> FALSE]
  <2>1. n \in LiveRounds /\ n.r = r /\ n.status = "lobby" /\ n.humans = {} /\ ~n.timeUp
    BY DEF LiveRounds
  <2>2. live' = [live EXCEPT ![p] = n]
    BY <1>4
  <2> HIDE DEF n
  <2>3. live'[p] = n /\ n # None /\ \A q \in Processes : q # p => live'[q] = live[q]
    BY <1>1, <2>1, <2>2, Nothing
  <2>4. round'[r].status = "lobby" /\ round'[r].guard /\ \A x : x # r => round'[x] = round[x]
    BY <1>4 DEF WerkInv, RowsTyped
  <2>5. RowsTyped'
    <3>1. live' \in [Processes -> LiveRounds \cup {None}] /\ op' \in [Processes -> Ops \cup {None}]
      BY <1>1, <2>1, <2>2
    <3>2. [status |-> "lobby", guard |-> TRUE, scheduled |-> FALSE] \in RowTypes
      BY DEF RowTypes, Statuses
    <3>3. round' \in [Rounds -> RowTypes]
      BY <1>4, <3>2 DEF WerkInv, RowsTyped
    <3> QED BY <1>1, <3>1, <3>3 DEF WerkInv, RowsTyped
  <2>6. \A x, u : (Paid(x, u)' <=> Paid(x, u)) /\ (Back(x, u)' <=> Back(x, u)) /\ (Staked(x, u)' <=> Staked(x, u))
    BY <1>1 DEF Paid, Back, Staked, Of
  <2>7. \A u \in Users : part[r][u] = "none" /\ ~Paid(r, u) /\ ~Back(r, u) /\ ~Staked(r, u)
    BY <1>4 DEF WerkInv, RowFits
  <2>8. ASSUME NEW x \in Rounds PROVE RowFits(x)'
    <3>1. CASE x = r
      BY <1>1, <2>4, <2>6, <2>7, <3>1 DEF RowFits, Ended
    <3>2. CASE x # r
      BY <1>1, <2>4, <2>6, <3>2, OtherRow DEF WerkInv
    <3> QED BY <3>1, <3>2
  <2>9. ASSUME NEW u \in Users PROVE CallFits(u)'
    <3>1. PICK c : c = call[u]
      OBVIOUS
    <3>2. CallFits(u) /\ call'[u] = c
      BY <1>1, <3>1 DEF WerkInv
    <3>3. c # None => round'[c.r].status # "none"
      BY <2>4, <3>1, <3>2 DEF CallFits
    <3>4. CASE c # None /\ c.attached
      <4>1. c.p \in Processes /\ c.r \in Rounds
        BY <3>1, <3>4 DEF WerkInv, RowsTyped, Calls
      <4>2. Drives(c.p, c.r) /\ live[c.p].status \in {"lobby", "running"} /\ ~live[c.p].timeUp
        BY <3>1, <3>2, <3>4 DEF CallFits
      <4>3. Drives(c.p, c.r)' /\ live'[c.p].status \in {"lobby", "running"} /\ ~live'[c.p].timeUp
        BY <1>1, <2>3, <4>1, <4>2 DEF Drives
      <4> QED BY <1>1, <2>6, <3>1, <3>2, <3>3, <3>4, <4>3, OtherCall
    <3>5. CASE c = None \/ ~c.attached
      BY <1>1, <2>6, <3>1, <3>2, <3>3, <3>5, OtherCall
    <3> QED BY <3>4, <3>5
  <2>10. ASSUME NEW q \in Processes, q # p PROVE OpFits(q)' /\ MemoryFits(q)'
    <3>1. OpFits(q) /\ MemoryFits(q) /\ live'[q] = live[q] /\ op'[q] = op[q]
      BY <1>2, <2>3, <2>10 DEF WerkInv
    <3>2. live[q] # None => live[q].r # r /\ live[q].humans \subseteq Users
      BY <1>4, <3>1 DEF MemoryFits, WerkInv, RowsTyped, LiveRounds
    <3>3. \A u \in Users : \A x : Attached(u, q, x) => Attached(u, q, x)' /\ call'[u].do = call[u].do
      BY <1>1 DEF Attached
    <3>4. \A x : round[x].status # "none" => round'[x].status # "none"
      BY <2>4
    <3> QED BY <1>1, <2>4, <2>6, <3>1, <3>2, <3>3, <3>4, OtherMemory
  <2>11. OpFits(p)'
    BY <1>2 DEF OpFits
  <2>12. MemoryFits(p)'
    BY <1>1, <2>1, <2>3, <2>4, <2>7 DEF MemoryFits
  <2> QED BY <2>5, <2>8, <2>9, <2>10, <2>11, <2>12 DEF WerkInv, History
<1>5. UNCHANGED <<round, live>> \/
      LET new == {r \in Rounds : round[r].status = "none"} IN
      /\ new # {}
      /\ round' = [round EXCEPT ![Min(new)] = [status |-> "lobby", guard |-> TRUE, scheduled |-> FALSE]]
      /\ live' = [live EXCEPT ![p] = [r |-> Min(new), status |-> "lobby", scheduled |-> FALSE, humans |-> {},
                                      timeUp |-> FALSE]]
  BY DEF OpenLobby
<1>6. CASE ~UNCHANGED <<round, live>>
  <2> DEFINE new == {r \in Rounds : round[r].status = "none"}
  <2>1. new \in SUBSET Nat
    BY WerkAssumption
  <2>2. new # {} /\ round' = [round EXCEPT ![Min(new)] = [status |-> "lobby", guard |-> TRUE, scheduled |-> FALSE]]
        /\ live' = [live EXCEPT ![p] = [r |-> Min(new), status |-> "lobby", scheduled |-> FALSE, humans |-> {},
                                        timeUp |-> FALSE]]
    BY <1>5, <1>6
  <2>3. \A x \in new : x \in Rounds /\ round[x].status = "none"
    OBVIOUS
  <2> HIDE DEF new
  <2> QED BY <1>4, <2>1, <2>2, <2>3, LeastIn
<1> QED BY <1>3, <1>6

\* Two processes in one round share it.
LEMMA AloneOn ==
  ASSUME WerkInv, History, NEW p \in Processes, NEW r \in Rounds, Drives(p, r) \/ Cancels(p, r),
         NEW q \in Processes, q # p, live[q] # None, live[q].r = r
  PROVE  r \in shared'
BY DEF WerkInv, OneHolds, History, Drives

LEMMA CallsStay ==
  ASSUME WerkInv, History, call' = call, NEW p \in Processes,
         \A q \in Processes : q # p => live'[q] = live[q],
         \A u \in Users, x \in Rounds : Attached(u, p, x) =>
           Drives(p, x)' /\ live'[p].status \in {"lobby", "running"} /\ ~live'[p].timeUp,
         \A x \in Rounds : round[x].status # "none" => round'[x].status # "none",
         \A x \in Rounds, u \in Users :
           /\ part[x][u] # "none" => part'[x][u] # "none"
           /\ part'[x][u] = "joined" => part[x][u] = "joined"
           /\ x \in shared' \/ ~Attached(u, p, x) \/ ((Paid(x, u)' => Paid(x, u)) /\ (Back(x, u)' => Back(x, u)))
           /\ ~Drives(p, x) => x \in shared' \/ ((Paid(x, u)' => Paid(x, u)) /\ (Back(x, u)' => Back(x, u)))
  PROVE  \A u \in Users : CallFits(u)'
<1> SUFFICES ASSUME NEW u \in Users PROVE CallFits(u)'
  OBVIOUS
<1>1. PICK c : c = call[u]
  OBVIOUS
<1>2. CallFits(u) /\ call'[u] = c
  BY <1>1 DEF WerkInv
<1>3. CASE c = None
  BY <1>2, <1>3 DEF CallFits
<1>4. CASE c # None
  <2>1. c.p \in Processes /\ c.r \in Rounds /\ round[c.r].status # "none"
    BY <1>1, <1>2, <1>4 DEF WerkInv, RowsTyped, Calls, CallFits
  <2>2. c.attached => Drives(c.p, c.r)' /\ live'[c.p].status \in {"lobby", "running"} /\ ~live'[c.p].timeUp
    <3> SUFFICES ASSUME c.attached PROVE Drives(c.p, c.r)' /\ live'[c.p].status \in {"lobby", "running"} /\ ~live'[c.p].timeUp
      OBVIOUS
    <3>1. CASE c.p = p
      BY <1>1, <1>4, <2>1, <3>1 DEF Attached
    <3>2. CASE c.p # p
      BY <1>1, <1>2, <1>4, <2>1, <3>2 DEF CallFits, Drives
    <3> QED BY <3>1, <3>2
  <2>3. c.attached => Drives(c.p, c.r)
    BY <1>1, <1>2, <1>4 DEF CallFits
  <2>4. c.attached => c.r \in shared' \/ ((Paid(c.r, u)' => Paid(c.r, u)) /\ (Back(c.r, u)' => Back(c.r, u)))
    <3>1. CASE c.p = p
      BY <1>1, <1>4, <2>1, <3>1 DEF Attached
    <3>2. CASE c.p # p /\ ~Drives(p, c.r)
      BY <2>1, <3>2
    <3>3. CASE c.p # p /\ Drives(p, c.r) /\ c.attached
      BY <2>1, <2>3, <3>3, AloneOn DEF Drives
    <3> QED BY <3>1, <3>2, <3>3
  <2>5. shared \subseteq shared'
    BY DEF History
  <2>6. part[c.r][u] # "none" => part'[c.r][u] # "none"
    BY <2>1
  <2>7. part'[c.r][u] = "joined" => part[c.r][u] = "joined"
    BY <2>1
  <2> QED BY <1>1, <1>2, <1>4, <2>1, <2>2, <2>4, <2>5, <2>6, <2>7 DEF CallFits
<1> QED BY <1>3, <1>4

\* A step of p on the round r that it holds.
LEMMA StepOn ==
  ASSUME WerkInv, History, NEW p \in Processes, NEW r \in Rounds, Drives(p, r) \/ Cancels(p, r), RowsTyped',
         \A q \in Processes : q # p => live'[q] = live[q] /\ op'[q] = op[q],
         \A x : x # r => round'[x] = round[x] /\ part'[x] = part[x],
         \A x, u : x # r => (Paid(x, u)' <=> Paid(x, u)) /\ (Back(x, u)' <=> Back(x, u)) /\ (Staked(x, u)' <=> Staked(x, u)),
         round'[r].status # "none", \A u \in Users : part[r][u] # "none" => part'[r][u] # "none",
         \A u \in Users, q \in Processes : \A x : q # p /\ Attached(u, q, x) => Attached(u, q, x)' /\ call'[u].do = call[u].do,
         RowFits(r)', \A u \in Users : CallFits(u)', OpFits(p)', MemoryFits(p)'
  PROVE  WerkInv'
<1>1. ASSUME NEW x \in Rounds PROVE RowFits(x)'
  BY OtherRow DEF WerkInv
<1>2. ASSUME NEW q \in Processes, q # p PROVE OpFits(q)' /\ MemoryFits(q)'
  <2>1. OpFits(q) /\ MemoryFits(q) /\ live'[q] = live[q] /\ op'[q] = op[q]
    BY <1>2 DEF WerkInv
  <2>2. \A x : round[x].status # "none" => round'[x].status # "none"
    OBVIOUS
  <2>3. live[q] # None => live[q].humans \subseteq Users /\ (live[q].r = r => r \in shared')
    BY <1>2, AloneOn DEF WerkInv, RowsTyped, LiveRounds
  <2>4. \A u \in Users : \A x : Attached(u, q, x) => Attached(u, q, x)' /\ call'[u].do = call[u].do
    BY <1>2
  <2> QED BY <2>1, <2>2, <2>3, <2>4, OtherMemory
<1> QED BY <1>1, <1>2 DEF WerkInv, History

LEMMA SaveRunningKeeps ==
  ASSUME WerkInv, History, NEW p \in Processes, SaveRunning(p)
  PROVE  WerkInv'
<1>1. PICK l : l = live[p]
  OBVIOUS
<1>2. PICK r : r = l.r
  OBVIOUS
<1> DEFINE o == [do |-> "mark"]
           row == [status |-> "running", guard |-> TRUE, scheduled |-> l.scheduled]
<1>3. /\ op[p] # None /\ op[p].do = "save" /\ UNCHANGED <<part, ledger, live, call>>
      /\ \/ op' = [op EXCEPT ![p] = None] /\ round' = round
         \/ op' = [op EXCEPT ![p] = o] /\ round' = [round EXCEPT ![r] = row]
  BY <1>1, <1>2 DEF SaveRunning, Over, Goto, Saved
<1>4. OpFits(p) /\ MemoryFits(p) /\ RowsTyped
  BY DEF WerkInv
<1>5. l # None /\ l.status = "running" /\ ~l.timeUp
  BY <1>1, <1>3, <1>4 DEF OpFits
<1>6. l \in LiveRounds /\ r \in Rounds /\ l.scheduled \in BOOLEAN /\ Drives(p, r) /\ live' = [live EXCEPT ![p] = l]
  BY <1>1, <1>2, <1>3, <1>4, <1>5 DEF RowsTyped, LiveRounds, Drives
<1>7. \A u \in Users, x \in Rounds : Attached(u, p, x) =>
        Drives(p, x)' /\ live'[p].status \in {"lobby", "running"} /\ ~live'[p].timeUp
  BY <1>3, AttachedTo DEF Drives
<1>8. CASE op' = [op EXCEPT ![p] = None] /\ round' = round
  <2>1. /\ live'[p] = l /\ l # None /\ op'[p] = None /\ Typed'
        /\ \A q \in Processes : q # p => live'[q] = live[q] /\ op'[q] = op[q]
    BY <1>6, <1>8, OpEnds
  <2>2. OpFits(p)'
    BY <2>1 DEF OpFits
  <2>3. MemoryFits(p)'
    BY <1>1, <1>3, <1>5, <1>8, <2>1, MemoryKept
  <2> QED BY <1>3, <1>7, <1>8, <2>1, <2>2, <2>3, MemoryStep
<1>9. CASE op' = [op EXCEPT ![p] = o] /\ round' = [round EXCEPT ![r] = row]
  <2>1. o \in Ops /\ o.do = "mark"
    BY DEF Ops
  <2>2. row \in RowTypes /\ row.status = "running"
    BY <1>6 DEF RowTypes, Statuses
  <2> HIDE DEF o, row
  <2>3. /\ live'[p] = l /\ op'[p] = o /\ o # None /\ Typed'
        /\ \A q \in Processes : q # p => live'[q] = live[q] /\ op'[q] = op[q]
    BY <1>6, <1>9, <2>1, OpGoes
  <2>4. round'[r] = row /\ \A x : x # r => round'[x] = round[x]
    BY <1>4, <1>6, <1>9 DEF RowsTyped
  <2>5. RowsTyped'
    BY <1>3, <1>4, <1>9, <2>2, <2>3 DEF RowsTyped, Typed
  <2>6. \A x, u : (Paid(x, u)' <=> Paid(x, u)) /\ (Back(x, u)' <=> Back(x, u)) /\ (Staked(x, u)' <=> Staked(x, u))
    BY <1>3 DEF Paid, Back, Staked, Of
  <2>7. shared \subseteq shared' /\ \A x : Undisturbed(x)' => Undisturbed(x)
    BY DEF History, Undisturbed
  <2>8. RowFits(r)'
    <3>1. RowFits(r)
      BY <1>6 DEF WerkInv
    <3> QED BY <1>3, <2>2, <2>4, <2>6, <2>7, <3>1 DEF RowFits, Ended
  <2>9. \A u \in Users : CallFits(u)'
    BY <1>3, <1>7, <2>2, <2>3, <2>4, <2>6, CallsStay
  <2>10. OpFits(p)'
    BY <1>1, <1>2, <1>5, <2>1, <2>2, <2>3, <2>4 DEF OpFits
  <2>11. MemoryFits(p)'
    <3>1. \A u, x : Attached(u, p, x)' <=> Attached(u, p, x)
      BY <1>3 DEF Attached
    <3> QED BY <1>1, <1>2, <1>3, <1>4, <1>5, <2>2, <2>3, <2>4, <2>6, <2>7, <3>1 DEF MemoryFits
  <2>12. \A u \in Users, q \in Processes : \A x : q # p /\ Attached(u, q, x) => Attached(u, q, x)' /\ call'[u].do = call[u].do
    BY <1>3 DEF Attached
  <2> QED BY <1>3, <1>6, <2>2, <2>3, <2>4, <2>5, <2>6, <2>8, <2>9, <2>10, <2>11, <2>12, StepOn
<1> QED BY <1>3, <1>8, <1>9

LEMMA MarkPlayingKeeps ==
  ASSUME WerkInv, History, NEW p \in Processes, MarkPlaying(p)
  PROVE  WerkInv'
<1>1. PICK l : l = live[p]
  OBVIOUS
<1>2. PICK r : r = l.r
  OBVIOUS
<1>3. /\ op[p] # None /\ op[p].do = "mark" /\ UNCHANGED <<round, ledger, live, call>>
      /\ op' = [op EXCEPT ![p] = None]
      /\ part' = [part EXCEPT ![r] = [u \in Users |-> IF u \in l.humans THEN "playing" ELSE @[u]]]
  BY <1>1, <1>2 DEF MarkPlaying, Over, Goto
<1>4. OpFits(p) /\ MemoryFits(p) /\ RowsTyped
  BY DEF WerkInv
<1>5. l # None /\ l.status = "running" /\ ~l.timeUp /\ (Undisturbed(r) => round[r].status = "running")
  BY <1>1, <1>2, <1>3, <1>4 DEF OpFits
<1>6. l \in LiveRounds /\ r \in Rounds /\ Drives(p, r) /\ live' = [live EXCEPT ![p] = l]
  BY <1>1, <1>2, <1>3, <1>4, <1>5 DEF RowsTyped, LiveRounds, Drives
<1>7. \A u \in Users, x \in Rounds : Attached(u, p, x) =>
        Drives(p, x)' /\ live'[p].status \in {"lobby", "running"} /\ ~live'[p].timeUp
  BY <1>3, AttachedTo DEF Drives
<1>8. /\ live'[p] = l /\ op'[p] = None /\ Typed'
      /\ \A q \in Processes : q # p => live'[q] = live[q] /\ op'[q] = op[q]
  BY <1>3, <1>6, OpEnds
<1>9. /\ \A x : x # r => part'[x] = part[x]
      /\ \A u \in Users : part'[r][u] = IF u \in l.humans THEN "playing" ELSE part[r][u]
  BY <1>3, <1>4, <1>6 DEF RowsTyped
<1>10. RowsTyped'
  <2>1. part' \in [Rounds -> [Users -> PartStatuses]]
    BY <1>3, <1>4, <1>6 DEF RowsTyped, PartStatuses
  <2> QED BY <1>3, <1>4, <1>8, <2>1 DEF RowsTyped, Typed
<1>11. \A x, u : (Paid(x, u)' <=> Paid(x, u)) /\ (Back(x, u)' <=> Back(x, u)) /\ (Staked(x, u)' <=> Staked(x, u))
  BY <1>3 DEF Paid, Back, Staked, Of
<1>12. shared \subseteq shared' /\ \A x : Undisturbed(x)' => Undisturbed(x)
  BY DEF History, Undisturbed
<1>13. RowFits(r)'
  <2>1. RowFits(r)
    BY <1>6 DEF WerkInv
  <2>2. \A u \in l.humans : part[r][u] # "none" /\ (r \notin shared => ~Paid(r, u))
    BY <1>1, <1>2, <1>4, <1>5 DEF MemoryFits
  <2>3. round[r].status # "none"
    BY <1>1, <1>2, <1>4, <1>5 DEF MemoryFits
  <2> QED BY <1>3, <1>5, <1>9, <1>11, <1>12, <2>1, <2>2, <2>3 DEF RowFits, Ended
<1>14. \A u \in Users : CallFits(u)'
  <2>1. \A x \in Rounds, u \in Users : /\ part[x][u] # "none" => part'[x][u] # "none"
                                       /\ part'[x][u] = "joined" => part[x][u] = "joined"
    BY <1>9
  <2> QED BY <1>3, <1>7, <1>8, <1>11, <2>1, CallsStay
<1>15. OpFits(p)'
  BY <1>8 DEF OpFits
<1>16. MemoryFits(p)'
  <2>1. \A u, x : Attached(u, p, x)' <=> Attached(u, p, x)
    BY <1>3 DEF Attached
  <2>2. \A u \in Users : part[r][u] # "none" => part'[r][u] # "none"
    BY <1>9
  <2>3. l.humans \subseteq Users
    BY <1>6 DEF LiveRounds
  <2>4. \A u \in Users : u \notin l.humans => part'[r][u] = part[r][u]
    BY <1>9
  <2> QED BY <1>1, <1>2, <1>3, <1>4, <1>5, <1>8, <1>11, <1>12, <2>1, <2>2, <2>3, <2>4 DEF MemoryFits
<1>17. \A u \in Users, q \in Processes : \A x : q # p /\ Attached(u, q, x) => Attached(u, q, x)' /\ call'[u].do = call[u].do
  BY <1>3 DEF Attached
<1>18. round'[r].status # "none" /\ \A u \in Users : part[r][u] # "none" => part'[r][u] # "none"
  BY <1>1, <1>2, <1>3, <1>4, <1>5, <1>9 DEF MemoryFits
<1> QED BY <1>3, <1>6, <1>8, <1>9, <1>10, <1>11, <1>13, <1>14, <1>15, <1>16, <1>17, <1>18, StepOn

LEMMA AttachedEdit ==
  ASSUME NEW c \in Calls, NEW x \in BOOLEAN
  PROVE  LET n == [c EXCEPT !.attached = FALSE, !.scheduled = x] IN
         n \in Calls /\ n.do = c.do /\ n.p = c.p /\ n.r = c.r /\ ~n.attached
BY DEF Calls

\* Who is let go keeps his request.
LEMMA LetGoCalls ==
  ASSUME WerkInv, NEW p \in Processes, NEW r, live[p] # None, call' = LetGo(p, r)
  PROVE  /\ call' \in [Users -> Calls \cup {None}]
         /\ \A u \in Users : Attached(u, p, r) =>
              /\ call'[u] # None /\ call'[u].do = call[u].do /\ call'[u].p = p /\ call'[u].r = r /\ ~call'[u].attached
         /\ \A u \in Users : ~Attached(u, p, r) => call'[u] = call[u]
<1>1. live[p].scheduled \in BOOLEAN
  BY DEF WerkInv, RowsTyped, LiveRounds
<1>2. ASSUME NEW u \in Users, Attached(u, p, r)
      PROVE  /\ call'[u] \in Calls /\ call'[u] # None
             /\ call'[u].do = call[u].do /\ call'[u].p = p /\ call'[u].r = r /\ ~call'[u].attached
  <2>1. PICK c : c = call[u]
    OBVIOUS
  <2>2. c \in Calls /\ c.p = p /\ c.r = r
    BY <1>2, <2>1 DEF Attached, WerkInv, RowsTyped
  <2> DEFINE n == [c EXCEPT !.attached = FALSE, !.scheduled = live[p].scheduled]
  <2>3. call'[u] = n
    BY <1>2, <2>1 DEF LetGo, Attached
  <2>4. n \in Calls /\ n.do = c.do /\ n.p = c.p /\ n.r = c.r /\ ~n.attached
    BY <1>1, <2>2, AttachedEdit
  <2> HIDE DEF n
  <2> QED BY <2>1, <2>2, <2>3, <2>4, Nothing
<1>3. \A u \in Users : ~Attached(u, p, r) => call'[u] = call[u]
  BY DEF LetGo, Attached
<1>4. \A u \in Users : call'[u] \in Calls \cup {None}
  BY <1>2, <1>3 DEF WerkInv, RowsTyped
<1>5. call' = [u \in Users |-> call'[u]]
  BY DEF LetGo
<1> QED BY <1>2, <1>3, <1>4, <1>5

LEMMA GuardEdit ==
  ASSUME NEW x \in RowTypes
  PROVE  LET n == [x EXCEPT !.guard = FALSE] IN n \in RowTypes /\ n.status = x.status /\ ~n.guard
BY DEF RowTypes

LEMMA FinalizeKeeps ==
  ASSUME WerkInv, History, NEW p \in Processes, Finalize(p)
  PROVE  WerkInv'
<1>1. PICK l : l = live[p]
  OBVIOUS
<1>2. PICK r : r = l.r
  OBVIOUS
<1> DEFINE o == [do |-> "open"]
           row == [round[r] EXCEPT !.guard = FALSE]
<1>3. /\ l # None /\ l.status = "completed" /\ UNCHANGED <<part, ledger>> /\ call' = LetGo(p, r)
      /\ live' = [live EXCEPT ![p] = None] /\ op' = [op EXCEPT ![p] = o] /\ round' = [round EXCEPT ![r] = row]
  BY <1>1, <1>2 DEF Finalize, Tick, Goto
<1>4. MemoryFits(p) /\ RowsTyped
  BY DEF WerkInv
<1>5. r \in Rounds /\ Drives(p, r) /\ round[r].status # "none"
  BY <1>1, <1>2, <1>3, <1>4 DEF RowsTyped, LiveRounds, Drives, MemoryFits
<1>6. \A u \in Users, x \in Rounds : ~ Attached(u, p, x)
  BY <1>1, <1>3, AttachedTo
<1>7. call' = call
  <2>1. \A u \in Users : call'[u] = call[u]
    BY <1>1, <1>3, <1>5, <1>6, LetGoCalls
  <2>2. call' = [u \in Users |-> call'[u]]
    BY <1>3 DEF LetGo
  <2> QED BY <1>4, <2>1, <2>2 DEF RowsTyped
<1>8. row \in RowTypes /\ row.status = round[r].status /\ ~row.guard
  BY <1>4, <1>5, GuardEdit DEF RowsTyped
<1>9. o \in Ops /\ o.do = "open"
  BY DEF Ops
<1> HIDE DEF row, o
<1>10. /\ live'[p] = None /\ op'[p] = o /\ round'[r] = row
       /\ \A q \in Processes : q # p => live'[q] = live[q] /\ op'[q] = op[q]
       /\ \A x : x # r => round'[x] = round[x]
  BY <1>3, <1>4, <1>5 DEF RowsTyped
<1>11. RowsTyped'
  BY <1>3, <1>4, <1>7, <1>8, <1>9 DEF RowsTyped
<1>12. \A x, u : (Paid(x, u)' <=> Paid(x, u)) /\ (Back(x, u)' <=> Back(x, u)) /\ (Staked(x, u)' <=> Staked(x, u))
  BY <1>3 DEF Paid, Back, Staked, Of
<1>13. RowFits(r)'
  <2>1. RowFits(r)
    BY <1>5 DEF WerkInv
  <2>2. shared \subseteq shared' /\ \A x : Undisturbed(x)' => Undisturbed(x)
    BY DEF History, Undisturbed
  <2> QED BY <1>3, <1>8, <1>10, <1>12, <2>1, <2>2 DEF RowFits, Ended
<1>14. \A u \in Users : CallFits(u)'
  BY <1>3, <1>5, <1>6, <1>7, <1>8, <1>10, <1>12, CallsStay
<1>15. OpFits(p)' /\ MemoryFits(p)'
  BY <1>9, <1>10 DEF OpFits, MemoryFits
<1>16. \A u \in Users, q \in Processes : \A x : q # p /\ Attached(u, q, x) => Attached(u, q, x)' /\ call'[u].do = call[u].do
  BY <1>7 DEF Attached
<1> QED BY <1>3, <1>5, <1>8, <1>10, <1>11, <1>12, <1>13, <1>14, <1>15, <1>16, StepOn

\* Movements of one kind on one round, for some users.
Adds(M, k, r, U) ==
  ledger' = ledger \cup M /\ \A e \in M : e.kind = k /\ e.round = r /\ e.user \in U

LEMMA LedgerGrows ==
  ASSUME NEW M, NEW k, NEW r, NEW U, Adds(M, k, r, U)
  PROVE  /\ \A x, u : x # r => (Paid(x, u)' <=> Paid(x, u)) /\ (Back(x, u)' <=> Back(x, u)) /\ (Staked(x, u)' <=> Staked(x, u))
         /\ \A x, u : Paid(x, u)' => Paid(x, u) \/ (k = "prize" /\ u \in U)
         /\ \A x, u : Back(x, u)' => Back(x, u) \/ (k = "refund" /\ u \in U)
         /\ \A x, u : Staked(x, u)' => Staked(x, u) \/ (k = "stake" /\ u \in U)
         /\ \A x, u : (Paid(x, u) => Paid(x, u)') /\ (Back(x, u) => Back(x, u)') /\ (Staked(x, u) => Staked(x, u)')
<1>1. \A x, u : x # r => (Paid(x, u)' <=> Paid(x, u)) /\ (Back(x, u)' <=> Back(x, u)) /\ (Staked(x, u)' <=> Staked(x, u))
  BY DEF Adds, Paid, Back, Staked, Of
<1>2. \A x, u : Paid(x, u)' => Paid(x, u) \/ (k = "prize" /\ u \in U)
  BY DEF Adds, Paid, Of
<1>3. \A x, u : Back(x, u)' => Back(x, u) \/ (k = "refund" /\ u \in U)
  BY DEF Adds, Back, Of
<1>4. \A x, u : Staked(x, u)' => Staked(x, u) \/ (k = "stake" /\ u \in U)
  BY DEF Adds, Staked, Of
<1>5. \A x, u : (Paid(x, u) => Paid(x, u)') /\ (Back(x, u) => Back(x, u)') /\ (Staked(x, u) => Staked(x, u)')
  BY DEF Adds, Paid, Back, Staked, Of
<1> QED BY <1>1, <1>2, <1>3, <1>4, <1>5

LEMMA CancelEdit ==
  ASSUME NEW x \in RowTypes
  PROVE  LET n == [x EXCEPT !.status = "cancelled", !.guard = FALSE] IN n \in RowTypes /\ n.status = "cancelled" /\ ~n.guard
BY DEF RowTypes, Statuses

\* p is done with a round it cancels: who was attached to it is let go.
CancelDone(p, r) ==
  /\ live'[p] = None /\ op'[p] = None /\ call' \in [Users -> Calls \cup {None}] /\ Typed'
  /\ \A q \in Processes : q # p => live'[q] = live[q] /\ op'[q] = op[q]
  /\ \A u \in Users : Attached(u, p, r) =>
       call'[u] # None /\ call'[u].do = call[u].do /\ call'[u].p = p /\ call'[u].r = r /\ ~call'[u].attached
  /\ \A u \in Users : ~Attached(u, p, r) => call'[u] = call[u]
  /\ \A u \in Users : \A x : Attached(u, p, x) => x = r

LEMMA CancelEnds ==
  ASSUME WerkInv, NEW p \in Processes, NEW r, Cancels(p, r), op' = [op EXCEPT ![p] = None],
         \/ live[p] # None /\ live' = [live EXCEPT ![p] = None] /\ call' = LetGo(p, r)
         \/ live[p] = None /\ live' = live /\ call' = call
  PROVE  CancelDone(p, r)
<1>1. OpFits(p) /\ RowsTyped
  BY DEF WerkInv
<1>2. \A u \in Users : \A x : Attached(u, p, x) => x = r /\ live[p] # None
  <2>1. live[p] = None \/ live[p].r = r
    BY <1>1 DEF OpFits, Cancels
  <2> QED BY <2>1, AttachedTo DEF Drives
<1>3. live'[p] = None /\ op'[p] = None /\ Typed' /\ \A q \in Processes : q # p => live'[q] = live[q] /\ op'[q] = op[q]
  BY <1>1 DEF RowsTyped, Typed
<1>4. CASE live[p] # None /\ call' = LetGo(p, r)
  BY <1>2, <1>3, <1>4, LetGoCalls DEF CancelDone
<1>5. CASE live[p] = None /\ call' = call
  BY <1>1, <1>2, <1>3, <1>5 DEF CancelDone, RowsTyped
<1> QED BY <1>4, <1>5

LEMMA CancelCalls ==
  ASSUME WerkInv, History, NEW p \in Processes, NEW r \in Rounds, CancelDone(p, r),
         \A x : round[x].status # "none" => round'[x].status # "none",
         \A x \in Rounds, u \in Users : /\ part[x][u] # "none" => part'[x][u] # "none"
                                        /\ part'[x][u] = "joined" => part[x][u] = "joined",
         \A u \in Users : r \in shared' \/ ~Attached(u, p, r) \/ part'[r][u] # "joined",
         \A x, u : x # r => (Paid(x, u)' <=> Paid(x, u)) /\ (Back(x, u)' <=> Back(x, u)),
         \A u \in Users : \A q : q # p /\ Attached(u, q, r) => r \in shared'
  PROVE  \A u \in Users : CallFits(u)'
<1> SUFFICES ASSUME NEW u \in Users PROVE CallFits(u)'
  OBVIOUS
<1>1. PICK c : c = call[u]
  OBVIOUS
<1>2. PICK d : d = call'[u]
  OBVIOUS
<1>3. CallFits(u) /\ shared \subseteq shared'
  BY DEF WerkInv, History
<1>4. CASE c = None
  <2>1. ~Attached(u, p, r)
    BY <1>1, <1>4 DEF Attached
  <2>2. call'[u] = None
    BY <1>1, <1>4, <2>1 DEF CancelDone
  <2> QED BY <2>2 DEF CallFits
<1>5. CASE c # None
  <2>1. /\ c.p \in Processes /\ c.r \in Rounds /\ round[c.r].status # "none"
        /\ c.do # "join" => part[c.r][u] # "none"
        /\ c.do = "left" => part[c.r][u] # "joined"
        /\ c.attached => Drives(c.p, c.r) /\ live[c.p].status \in {"lobby", "running"} /\ ~live[c.p].timeUp
    BY <1>1, <1>3, <1>5 DEF WerkInv, RowsTyped, Calls, CallFits
  <2>2. CASE Attached(u, p, r)
    <3>1. d # None /\ d.do = c.do /\ d.r = r /\ c.r = r /\ ~d.attached
      BY <1>1, <1>2, <2>2 DEF CancelDone, Attached
    <3> QED BY <1>2, <2>1, <2>2, <3>1 DEF CallFits
  <2>3. CASE ~Attached(u, p, r)
    <3>1. d = c
      BY <1>1, <1>2, <2>3 DEF CancelDone
    <3>2. c.attached => c.p # p
      BY <1>1, <1>5, <2>3 DEF CancelDone, Attached
    <3>3. c.attached => Drives(c.p, c.r)' /\ live'[c.p].status \in {"lobby", "running"} /\ ~live'[c.p].timeUp
      BY <2>1, <3>2 DEF CancelDone, Drives
    <3>4. c.attached /\ c.r = r => r \in shared'
      BY <1>1, <1>5, <3>2 DEF Attached
    <3>5. c.r \notin shared' /\ c.do = "joined" /\ c.attached => ~Back(c.r, u)' /\ ~Paid(c.r, u)'
      <4>1. c.r \notin shared /\ c.do = "joined" /\ c.attached => ~Back(c.r, u) /\ ~Paid(c.r, u)
        BY <1>1, <1>3, <1>5 DEF CallFits
      <4> QED BY <1>3, <3>4, <4>1
    <3>6. c.r \notin shared' /\ c.do = "leave" /\ ~c.attached => part'[c.r][u] # "joined"
      BY <1>1, <1>3, <1>5, <2>1 DEF CallFits
    <3> QED BY <1>2, <2>1, <3>1, <3>3, <3>5, <3>6 DEF CallFits
  <2> QED BY <2>2, <2>3
<1> QED BY <1>4, <1>5

\* What CancelTx does to the rows, the ledger and the memory.
Cancellation(p, r, w) ==
  LET refunds == {Movement("refund", r, u, Stake, <<w>>) : u \in ToRefund(r)} IN
  /\ IF Ended(r) THEN UNCHANGED <<round, part, ledger>>
     ELSE IF Refused(refunds) THEN UNCHANGED <<round, part, ledger>>
     ELSE /\ ledger' = ledger \cup refunds
          /\ part' = [part EXCEPT ![r] = [u \in Users |-> IF u \in ToRefund(r) THEN "refunded" ELSE @[u]]]
          /\ round' = [round EXCEPT ![r].status = "cancelled", ![r].guard = FALSE]
  /\ IF live[p] # None /\ (Ended(r) \/ ~Refused(refunds))
     THEN live' = [live EXCEPT ![p] = None] /\ call' = LetGo(p, r) ELSE UNCHANGED <<live, call>>

LEMMA CancelTxKeeps ==
  ASSUME WerkInv, History, NEW p \in Processes, CancelTx(p)
  PROVE  WerkInv'
<1>1. PICK r : r = op[p].r
  OBVIOUS
<1>2. PICK w : w = op[p].why
  OBVIOUS
<1> DEFINE M == {Movement("refund", r, u, Stake, <<w>>) : u \in ToRefund(r)}
           row == [round[r] EXCEPT !.status = "cancelled", !.guard = FALSE]
           rows == [part EXCEPT ![r] = [u \in Users |-> IF u \in ToRefund(r) THEN "refunded" ELSE @[u]]]
           Release == \/ live[p] # None /\ live' = [live EXCEPT ![p] = None] /\ call' = LetGo(p, r)
                      \/ live[p] = None /\ live' = live /\ call' = call
           Back0 == Ended(r) /\ UNCHANGED <<round, part, ledger>> /\ Release
           Back1 == ~Ended(r) /\ UNCHANGED <<round, part, ledger, live, call>>
           Back2 == ~Ended(r) /\ ledger' = ledger \cup M /\ part' = rows /\ round' = [round EXCEPT ![r] = row] /\ Release
<1>3. op[p] # None /\ op[p].do = "cancel" /\ op' = [op EXCEPT ![p] = None] /\ (Back0 \/ Back1 \/ Back2)
  <2>1. op[p] # None /\ op[p].do = "cancel" /\ op' = [op EXCEPT ![p] = None]
    BY DEF CancelTx, Over, Goto
  <2> DEFINE new == [round EXCEPT ![r].status = "cancelled", ![r].guard = FALSE]
  <2>2. /\ IF Ended(r) THEN UNCHANGED <<round, part, ledger>>
           ELSE IF Refused(M) THEN UNCHANGED <<round, part, ledger>>
           ELSE ledger' = ledger \cup M /\ part' = rows /\ round' = new
        /\ IF live[p] # None /\ (Ended(r) \/ ~Refused(M))
           THEN live' = [live EXCEPT ![p] = None] /\ call' = LetGo(p, r) ELSE UNCHANGED <<live, call>>
    <3>1. Cancellation(p, op[p].r, op[p].why)
      BY DEF CancelTx, Cancellation, Ended
    <3>2. Cancellation(p, r, w)
      BY <1>1, <1>2, <3>1
    <3> QED BY <3>2 DEF Cancellation
  <2>3. new = [round EXCEPT ![r] = row]
    OBVIOUS
  <2> HIDE DEF M, rows, row, new
  <2>4. CASE Ended(r)
    BY <2>1, <2>2, <2>4
  <2>5. CASE ~Ended(r) /\ Refused(M)
    BY <2>1, <2>2, <2>5
  <2>6. CASE ~Ended(r) /\ ~Refused(M)
    BY <2>1, <2>2, <2>3, <2>6
  <2> QED BY <2>4, <2>5, <2>6
<1>4. OpFits(p) /\ MemoryFits(p) /\ RowsTyped /\ shared \subseteq shared' /\ \A x : Undisturbed(x)' => Undisturbed(x)
  BY DEF WerkInv, History, Undisturbed
<1>5. op[p] \in Ops /\ r \in Rounds /\ round[r].status # "none" /\ Cancels(p, r)
  <2>1. op[p] \in Ops
    BY <1>3, <1>4 DEF RowsTyped
  <2> QED BY <1>1, <1>3, <1>4, <2>1 DEF OpFits, Ops, Cancels
<1>6. live[p] = None \/ (live[p].r = r /\ live[p].status = "lobby" /\ live[p] \in LiveRounds)
  BY <1>1, <1>3, <1>4 DEF OpFits, RowsTyped
<1>7. \A u \in Users : Attached(u, p, r) => r \in shared' \/ round[r].status = "lobby"
  <2>1. live[p] # None => r \in shared' \/ round[r].status = "lobby"
    BY <1>4, <1>6 DEF MemoryFits
  <2> QED BY <2>1, AttachedTo DEF Drives
<1>8. \A u \in Users : \A q \in Processes : q # p /\ Attached(u, q, r) => r \in shared'
  BY <1>5, AloneOn, AttachedTo DEF Drives
<1>9. \A u \in Users : \A q : Attached(u, q, r) => q \in Processes
  BY <1>4 DEF RowsTyped, Attached, Calls
<1>10. Release => CancelDone(p, r)
  BY <1>3, <1>5, CancelEnds
<1>11. CancelDone(p, r) => OpFits(p)' /\ MemoryFits(p)'
  BY DEF CancelDone, OpFits, MemoryFits
<1>12. CancelDone(p, r) =>
         \A u \in Users, q \in Processes : \A x : q # p /\ Attached(u, q, x) => Attached(u, q, x)' /\ call'[u].do = call[u].do
  BY DEF CancelDone, Attached
<1>13. CASE Back0
  <2>1. CancelDone(p, r) /\ Ended(r) /\ UNCHANGED <<round, part, ledger>>
    BY <1>10, <1>13
  <2> HIDE DEF Release
  <2>2. \A u \in Users : r \in shared' \/ ~Attached(u, p, r) \/ part'[r][u] # "joined"
    BY <1>7, <2>1 DEF Ended
  <2>3. \A u \in Users : CallFits(u)'
    BY <1>5, <1>8, <1>9, <2>1, <2>2, CancelCalls, RowsStay
  <2>4. RowsTyped'
    BY <1>4, <2>1 DEF RowsTyped, CancelDone, Typed
  <2>5. \A q \in Processes : q # p => live'[q] = live[q] /\ op'[q] = op[q]
    BY <2>1 DEF CancelDone
  <2> QED BY <1>5, <1>11, <1>12, <2>1, <2>3, <2>4, <2>5, RowsStay, StepOn
<1>14. CASE Back1
  <2>1. UNCHANGED <<round, part, ledger, live, call>>
    BY <1>14
  <2>2. Typed' /\ op'[p] = None /\ \A q \in Processes : q # p => live'[q] = live[q] /\ op'[q] = op[q]
    BY <1>3, <1>4, <2>1 DEF RowsTyped, Typed
  <2>3. OpFits(p)'
    BY <2>2 DEF OpFits
  <2>4. MemoryFits(p)'
    <3>1. CASE live[p] = None
      BY <2>1, <3>1 DEF MemoryFits
    <3>2. CASE live[p] # None
      <4>1. PICK l : l = live[p]
        OBVIOUS
      <4>2. l # None /\ (l.status = "lobby" => ~l.timeUp) /\ (l.status = "settling" => l.timeUp) /\ live'[p] = l
        BY <1>4, <2>1, <3>2, <4>1 DEF MemoryFits
      <4> QED BY <1>3, <2>1, <4>1, <4>2, MemoryKept
    <3> QED BY <3>1, <3>2
  <2>5. \A u \in Users, x \in Rounds : Attached(u, p, x) =>
          Drives(p, x)' /\ live'[p].status \in {"lobby", "running"} /\ ~live'[p].timeUp
    BY <2>1, AttachedTo DEF Drives
  <2> QED BY <2>1, <2>2, <2>3, <2>4, <2>5, MemoryStep
<1>15. CASE Back2
  <2>1. CancelDone(p, r) /\ ledger' = ledger \cup M /\ part' = rows /\ round' = [round EXCEPT ![r] = row]
    BY <1>10, <1>15
  <2>2. row \in RowTypes /\ row.status = "cancelled" /\ ~row.guard
    BY <1>4, <1>5, CancelEdit DEF RowsTyped
  <2>3. round'[r] = row /\ \A x : x # r => round'[x] = round[x]
    BY <1>4, <1>5, <2>1 DEF RowsTyped
  <2>4. /\ \A x : x # r => part'[x] = part[x]
        /\ \A u \in Users : part'[r][u] = IF part[r][u] \in {"joined", "playing"} THEN "refunded" ELSE part[r][u]
    BY <1>4, <1>5, <2>1 DEF RowsTyped, ToRefund
  <2>5. \A e \in M : e.kind = "refund" /\ e.round = r /\ e.user \in ToRefund(r)
    BY DEF Movement
  <2>6. RowsTyped'
    <3>1. part' \in [Rounds -> [Users -> PartStatuses]]
      BY <1>4, <1>5, <2>1 DEF RowsTyped, PartStatuses
    <3>2. round' \in [Rounds -> RowTypes]
      <4> HIDE DEF row
      <4> QED BY <1>4, <1>5, <2>1, <2>2 DEF RowsTyped
    <3>3. \A e \in ledger' : e.kind \in {"stake", "refund", "prize"} /\ e.round \in Rounds /\ e.user \in Users
      <4> HIDE DEF M
      <4> QED BY <1>4, <1>5, <2>1, <2>5 DEF RowsTyped, ToRefund
    <3> QED BY <2>1, <3>1, <3>2, <3>3 DEF RowsTyped, CancelDone, Typed
  <2> HIDE DEF M, row, rows, Release
  <2>7. /\ \A x, u : x # r => (Paid(x, u)' <=> Paid(x, u)) /\ (Back(x, u)' <=> Back(x, u)) /\ (Staked(x, u)' <=> Staked(x, u))
        /\ \A x, u : (Paid(x, u)' => Paid(x, u)) /\ (Staked(x, u)' => Staked(x, u))
        /\ \A x, u : Back(x, u)' => Back(x, u) \/ u \in ToRefund(r)
    <3>1. PICK k : k = "refund"
      OBVIOUS
    <3>2. PICK U : U = ToRefund(r)
      OBVIOUS
    <3>3. Adds(M, k, r, U)
      BY <2>1, <2>5, <3>1, <3>2 DEF Adds
    <3>4. /\ \A x, u : x # r => (Paid(x, u)' <=> Paid(x, u)) /\ (Back(x, u)' <=> Back(x, u)) /\ (Staked(x, u)' <=> Staked(x, u))
          /\ \A x, u : Paid(x, u)' => Paid(x, u) \/ (k = "prize" /\ u \in U)
          /\ \A x, u : Back(x, u)' => Back(x, u) \/ (k = "refund" /\ u \in U)
          /\ \A x, u : Staked(x, u)' => Staked(x, u) \/ (k = "stake" /\ u \in U)
      BY <3>3, LedgerGrows
    <3> QED BY <3>1, <3>2, <3>4
  <2>8. \A x \in Rounds, u \in Users : /\ part[x][u] # "none" => part'[x][u] # "none"
                                       /\ part'[x][u] = "joined" => part[x][u] = "joined" /\ x # r
    BY <2>4
  <2>9. \A u \in Users : CallFits(u)'
    <3>1. \A x : round[x].status # "none" => round'[x].status # "none"
      BY <2>2, <2>3
    <3>2. \A u \in Users : part'[r][u] # "joined"
      BY <1>5, <2>8
    <3>3. \A u \in Users : \A q : q # p /\ Attached(u, q, r) => r \in shared'
      BY <1>8, <1>9
    <3> QED BY <1>5, <2>1, <2>7, <2>8, <3>1, <3>2, <3>3, CancelCalls
  <2>10. RowFits(r)'
    <3>1. RowFits(r)
      BY <1>5 DEF WerkInv
    <3>2. ASSUME NEW u \in Users
          PROVE  /\ Staked(r, u)' => part'[r][u] # "none"
                 /\ Back(r, u)' \/ Paid(r, u)' => part'[r][u] \notin {"none", "joined"}
                 /\ r \notin shared' => (Paid(r, u)' => part'[r][u] = "settled") /\ ~(Paid(r, u)' /\ Back(r, u)')
                 /\ Staked(r, u)' => part'[r][u] \in Done
      <4>1. /\ Staked(r, u) => part[r][u] # "none"
            /\ Back(r, u) \/ Paid(r, u) => part[r][u] \notin {"none", "joined"}
            /\ r \notin shared' => (Paid(r, u) => part[r][u] = "settled") /\ ~(Paid(r, u) /\ Back(r, u))
            /\ part[r][u] \in PartStatuses
        BY <1>4, <1>5, <3>1 DEF RowFits, RowsTyped
      <4>2. u \in ToRefund(r) <=> part[r][u] \in {"joined", "playing"}
        BY DEF ToRefund
      <4> QED BY <2>4, <2>7, <4>1, <4>2 DEF PartStatuses, Done
    <3> QED BY <2>2, <2>3, <3>2 DEF RowFits
  <2>11. \A q \in Processes : q # p => live'[q] = live[q] /\ op'[q] = op[q]
    BY <2>1 DEF CancelDone
  <2> QED BY <1>5, <1>11, <1>12, <2>1, <2>2, <2>3, <2>4, <2>6, <2>7, <2>8, <2>9, <2>10, <2>11, StepOn
<1> QED BY <1>3, <1>13, <1>14, <1>15

LEMMA CompletedEdit ==
  ASSUME NEW l \in LiveRounds, NEW x \in BOOLEAN
  PROVE  LET n == [l EXCEPT !.status = "completed", !.scheduled = x] IN
         n \in LiveRounds /\ n.status = "completed" /\ n.r = l.r /\ n.humans = l.humans /\ n.timeUp = l.timeUp
BY DEF LiveRounds

LEMMA RowCompleted ==
  ASSUME NEW x \in RowTypes
  PROVE  LET n == [x EXCEPT !.status = "completed"] IN n \in RowTypes /\ n.status = "completed" /\ n.guard = x.guard
BY DEF RowTypes, Statuses

\* What SettleTx does with the prizes M for the humans H.
Settlement(p, r, H, M) ==
  /\ \A e \in M : e.kind = "prize" /\ e.round = r /\ e.user \in H
  /\ IF Refused(M)
     THEN live' = [live EXCEPT ![p].status = AfterError] /\ UNCHANGED <<round, part, ledger>>
     ELSE /\ ledger' = ledger \cup M
          /\ part' = [part EXCEPT ![r] = [u \in Users |-> IF u \in H THEN "settled" ELSE @[u]]]
          /\ round' = [round EXCEPT ![r].status = "completed"]
          /\ live' = [live EXCEPT ![p].status = "completed", ![p].scheduled = round[r].scheduled]

LEMMA SettleCases ==
  ASSUME NEW p \in Processes, SettleTx(p), ~Closed(round[live[p].r].status)
  PROVE  \E M : Settlement(p, live[p].r, DOMAIN op[p].humans, M)
<1>1. PICK s \in {g.standings : g \in {h \in Games : h.played = op[p].humans}} :
        LET prize(u) == computePrize(Mults, Stake, s[u])
            prizes == {Movement("prize", live[p].r, u, prize(u), <<s[u].rank, s[u].tie>>) :
                       u \in {v \in DOMAIN op[p].humans : prize(v) > 0}} IN
        IF Refused(prizes)
        THEN live' = [live EXCEPT ![p].status = AfterError] /\ UNCHANGED <<round, part, ledger>>
        ELSE /\ ledger' = ledger \cup prizes
             /\ part' = [part EXCEPT ![live[p].r] = [u \in Users |-> IF u \in DOMAIN op[p].humans THEN "settled" ELSE @[u]]]
             /\ round' = [round EXCEPT ![live[p].r].status = "completed"]
             /\ live' = [live EXCEPT ![p].status = "completed", ![p].scheduled = round[live[p].r].scheduled]
  BY Zenon DEF SettleTx
<1> DEFINE prize(u) == computePrize(Mults, Stake, s[u])
           M == {Movement("prize", live[p].r, u, prize(u), <<s[u].rank, s[u].tie>>) :
                 u \in {v \in DOMAIN op[p].humans : prize(v) > 0}}
<1>2. \A e \in M : e.kind = "prize" /\ e.round = live[p].r /\ e.user \in DOMAIN op[p].humans
  <2> HIDE DEF prize
  <2> QED BY DEF Movement
<1>3. IF Refused(M)
      THEN live' = [live EXCEPT ![p].status = AfterError] /\ UNCHANGED <<round, part, ledger>>
      ELSE /\ ledger' = ledger \cup M
           /\ part' = [part EXCEPT ![live[p].r] = [u \in Users |-> IF u \in DOMAIN op[p].humans THEN "settled" ELSE @[u]]]
           /\ round' = [round EXCEPT ![live[p].r].status = "completed"]
           /\ live' = [live EXCEPT ![p].status = "completed", ![p].scheduled = round[live[p].r].scheduled]
  BY <1>1, Zenon
<1> HIDE DEF M
<1>4. Settlement(p, live[p].r, DOMAIN op[p].humans, M)
  BY <1>2, <1>3, Zenon DEF Settlement
<1> QED BY <1>4

LEMMA SettleTxKeeps ==
  ASSUME WerkInv, History, NEW p \in Processes, SettleTx(p)
  PROVE  WerkInv'
<1>1. PICK l : l = live[p]
  OBVIOUS
<1>2. PICK r : r = l.r
  OBVIOUS
<1>3. op[p] # None /\ op[p].do = "settle" /\ op' = [op EXCEPT ![p] = None] /\ call' = call
  BY DEF SettleTx, Over, Goto
<1>4. OpFits(p) /\ MemoryFits(p) /\ RowsTyped /\ shared \subseteq shared' /\ \A x : Undisturbed(x)' => Undisturbed(x)
  BY DEF WerkInv, History, Undisturbed
<1>5. l # None /\ l.status = "settling" /\ DOMAIN op[p].humans = l.humans
  BY <1>1, <1>3, <1>4 DEF OpFits
<1>6. l \in LiveRounds /\ r \in Rounds /\ l.humans \subseteq Users /\ Drives(p, r) /\ round[r].status # "none"
  BY <1>1, <1>2, <1>4, <1>5 DEF RowsTyped, LiveRounds, Drives, MemoryFits
<1>7. \A u \in Users, x \in Rounds : ~ Attached(u, p, x)
  BY <1>1, <1>5, AttachedTo
<1>8. CASE Closed(round[r].status)
  <2>1. UNCHANGED <<round, part, ledger, live>>
    BY <1>1, <1>2, <1>8 DEF SettleTx
  <2>2. live' = [live EXCEPT ![p] = l]
    BY <1>1, <1>4, <2>1 DEF RowsTyped
  <2>3. /\ live'[p] = l /\ op'[p] = None /\ Typed'
        /\ \A q \in Processes : q # p => live'[q] = live[q] /\ op'[q] = op[q]
    BY <1>3, <1>6, <2>2, OpEnds
  <2>4. OpFits(p)'
    BY <2>3 DEF OpFits
  <2>5. l.timeUp
    BY <1>1, <1>4, <1>5 DEF MemoryFits
  <2>6. MemoryFits(p)'
    BY <1>1, <1>3, <1>5, <2>1, <2>3, <2>5, MemoryKept
  <2> QED BY <1>3, <1>7, <2>1, <2>3, <2>4, <2>6, MemoryStep
<1>9. ASSUME NEW M, Settlement(p, r, l.humans, M), Refused(M) PROVE WerkInv'
  <2>1. live' = [live EXCEPT ![p].status = AfterError] /\ UNCHANGED <<round, part, ledger>>
    BY <1>9 DEF Settlement
  <2> QED BY <1>3, <2>1, RunsOn
<1>10. ASSUME NEW M, Settlement(p, r, l.humans, M), ~Refused(M) PROVE WerkInv'
  <2> DEFINE n == [l EXCEPT !.status = "completed", !.scheduled = round[r].scheduled]
             row == [round[r] EXCEPT !.status = "completed"]
  <2>1. /\ \A e \in M : e.kind = "prize" /\ e.round = r /\ e.user \in l.humans
        /\ ledger' = ledger \cup M
        /\ part' = [part EXCEPT ![r] = [u \in Users |-> IF u \in l.humans THEN "settled" ELSE @[u]]]
    BY <1>10 DEF Settlement
  <2>2. round' = [round EXCEPT ![r] = row]
    BY <1>10 DEF Settlement
  <2>3. live' = [live EXCEPT ![p] = n]
    BY <1>1, <1>10 DEF Settlement
  <2>4. round[r] \in RowTypes /\ round[r].scheduled \in BOOLEAN
    BY <1>4, <1>6 DEF RowsTyped, RowTypes
  <2>5. n \in LiveRounds /\ n.status = "completed" /\ n.r = r /\ n.humans = l.humans
    BY <1>2, <1>6, <2>4, CompletedEdit
  <2>6. row \in RowTypes /\ row.status = "completed"
    BY <2>4, RowCompleted
  <2> HIDE DEF n, row
  <2>7. /\ live'[p] = n /\ n # None /\ op'[p] = None /\ Typed'
        /\ \A q \in Processes : q # p => live'[q] = live[q] /\ op'[q] = op[q]
    BY <1>3, <2>3, <2>5, OpEnds
  <2>8. round'[r] = row /\ \A x : x # r => round'[x] = round[x]
    BY <1>4, <1>6, <2>2 DEF RowsTyped
  <2>9. /\ \A x : x # r => part'[x] = part[x]
        /\ \A u \in Users : part'[r][u] = IF u \in l.humans THEN "settled" ELSE part[r][u]
    BY <1>4, <1>6, <2>1 DEF RowsTyped
  <2>10. RowsTyped'
    <3>1. part' \in [Rounds -> [Users -> PartStatuses]]
      BY <1>4, <1>6, <2>1 DEF RowsTyped, PartStatuses
    <3>2. round' \in [Rounds -> RowTypes]
      BY <1>4, <1>6, <2>2, <2>6 DEF RowsTyped
    <3>3. \A e \in ledger' : e.kind \in {"stake", "refund", "prize"} /\ e.round \in Rounds /\ e.user \in Users
      BY <1>4, <1>6, <2>1 DEF RowsTyped
    <3> QED BY <1>3, <1>4, <2>7, <3>1, <3>2, <3>3 DEF RowsTyped, Typed
  <2>11. /\ \A x, u : x # r => (Paid(x, u)' <=> Paid(x, u)) /\ (Back(x, u)' <=> Back(x, u)) /\ (Staked(x, u)' <=> Staked(x, u))
         /\ \A x, u : Paid(x, u)' => Paid(x, u) \/ u \in l.humans
         /\ \A x, u : (Back(x, u)' => Back(x, u)) /\ (Staked(x, u)' => Staked(x, u))
    <3>1. PICK k : k = "prize"
      OBVIOUS
    <3>2. PICK U : U = l.humans
      OBVIOUS
    <3>3. Adds(M, k, r, U)
      BY <2>1, <3>1, <3>2 DEF Adds
    <3>4. /\ \A x, u : x # r => (Paid(x, u)' <=> Paid(x, u)) /\ (Back(x, u)' <=> Back(x, u)) /\ (Staked(x, u)' <=> Staked(x, u))
          /\ \A x, u : Paid(x, u)' => Paid(x, u) \/ (k = "prize" /\ u \in U)
          /\ \A x, u : Back(x, u)' => Back(x, u) \/ (k = "refund" /\ u \in U)
          /\ \A x, u : Staked(x, u)' => Staked(x, u) \/ (k = "stake" /\ u \in U)
      BY <3>3, LedgerGrows
    <3> QED BY <3>1, <3>2, <3>4
  <2>12. r \notin shared' => \A u \in l.humans : ~Back(r, u)
    BY <1>1, <1>2, <1>4, <1>5, <1>6, <1>7 DEF MemoryFits
  <2>13. RowFits(r)'
    <3>1. RowFits(r)
      BY <1>6 DEF WerkInv
    <3>2. ASSUME NEW u \in Users
          PROVE  /\ Staked(r, u)' => part'[r][u] # "none"
                 /\ Back(r, u)' \/ Paid(r, u)' => part'[r][u] \notin {"none", "joined"}
                 /\ r \notin shared' => (Paid(r, u)' => part'[r][u] = "settled") /\ ~(Paid(r, u)' /\ Back(r, u)')
                 /\ Undisturbed(r)' /\ Staked(r, u)' => part'[r][u] \in Done
      <4>1. /\ Staked(r, u) => part[r][u] # "none"
            /\ Back(r, u) \/ Paid(r, u) => part[r][u] \notin {"none", "joined"}
            /\ r \notin shared' => (Paid(r, u) => part[r][u] = "settled") /\ ~(Paid(r, u) /\ Back(r, u))
            /\ part[r][u] \in PartStatuses
        BY <1>4, <1>6, <3>1 DEF RowFits, RowsTyped
      <4>2. Undisturbed(r)' /\ part[r][u] \in {"joined", "playing"} => u \in l.humans
        BY <1>1, <1>2, <1>3, <1>4, <1>5, <1>6, <1>7 DEF MemoryFits
      <4> QED BY <2>9, <2>11, <2>12, <4>1, <4>2 DEF PartStatuses, Done
    <3> QED BY <2>6, <2>8, <3>2 DEF RowFits
  <2>14. \A u \in Users : CallFits(u)'
    <3>1. \A x \in Rounds, u \in Users : /\ part[x][u] # "none" => part'[x][u] # "none"
                                         /\ part'[x][u] = "joined" => part[x][u] = "joined"
      BY <2>9
    <3>2. \A x \in Rounds : round[x].status # "none" => round'[x].status # "none"
      BY <2>6, <2>8
    <3> QED BY <1>3, <1>6, <1>7, <2>7, <2>11, <3>1, <3>2, CallsStay
  <2>15. OpFits(p)'
    BY <2>7 DEF OpFits
  <2>16. MemoryFits(p)'
    <3>1. \A u \in l.humans : part'[r][u] = "settled" /\ (r \notin shared' => ~Back(r, u)')
      BY <1>6, <2>9, <2>11, <2>12
    <3> QED BY <2>5, <2>6, <2>7, <2>8, <3>1 DEF MemoryFits
  <2>17. \A u \in Users, q \in Processes : \A x : q # p /\ Attached(u, q, x) => Attached(u, q, x)' /\ call'[u].do = call[u].do
    BY <1>3 DEF Attached
  <2>18. \A u \in Users : part[r][u] # "none" => part'[r][u] # "none"
    BY <2>9
  <2> QED BY <1>6, <2>6, <2>7, <2>8, <2>9, <2>10, <2>11, <2>13, <2>14, <2>15, <2>16, <2>17, <2>18, StepOn
<1>11. CASE ~Closed(round[r].status)
  <2>1. \E M : Settlement(p, live[p].r, DOMAIN op[p].humans, M)
    BY <1>1, <1>2, <1>11, SettleCases
  <2>2. PICK M : Settlement(p, r, l.humans, M)
    BY <1>1, <1>2, <1>5, <2>1
  <2> QED BY <1>9, <1>10, <2>2
<1> QED BY <1>8, <1>11

\* The rounds in memory are as they were, but for the start that may be scheduled.
SameMemory ==
  /\ live' \in [Processes -> LiveRounds \cup {None}]
  /\ \A q \in Processes : live'[q] = None <=> live[q] = None
  /\ \A q \in Processes : live[q] # None =>
       /\ live'[q].r = live[q].r /\ live'[q].status = live[q].status
       /\ live'[q].humans = live[q].humans /\ live'[q].timeUp = live[q].timeUp

LEMMA ScheduleKeepsMemory ==
  ASSUME WerkInv, NEW p \in Processes, live[p] # None,
         live' = live \/ live' = [live EXCEPT ![p].scheduled = TRUE]
  PROVE  SameMemory
<1>1. PICK l : l = live[p]
  OBVIOUS
<1>2. l \in LiveRounds /\ live \in [Processes -> LiveRounds \cup {None}]
  BY <1>1 DEF WerkInv, RowsTyped
<1> DEFINE n == [l EXCEPT !.scheduled = TRUE]
<1>3. n \in LiveRounds /\ n.status = l.status /\ n.r = l.r /\ n.humans = l.humans /\ n.timeUp = l.timeUp
  BY <1>2, ScheduledEdit
<1>4. live' = live \/ live' = [live EXCEPT ![p] = n]
  BY <1>1
<1> HIDE DEF n
<1>5. CASE live' = live
  BY <1>2, <1>5 DEF SameMemory
<1>6. CASE live' = [live EXCEPT ![p] = n]
  <2>1. live'[p] = n /\ n # None /\ \A q \in Processes : q # p => live'[q] = live[q]
    BY <1>2, <1>3, <1>6, Nothing
  <2>2. live' \in [Processes -> LiveRounds \cup {None}]
    BY <1>2, <1>3, <1>6
  <2> QED BY <1>1, <1>3, <2>1, <2>2 DEF SameMemory
<1> QED BY <1>4, <1>5, <1>6

\* A transaction of u on the round r.
LEMMA AnswerStep ==
  ASSUME WerkInv, History, NEW u \in Users, NEW r \in Rounds, op' = op, SameMemory, RowsTyped',
         \A v \in Users : v # u => call'[v] = call[v],
         \A x : x # r => round'[x] = round[x] /\ part'[x] = part[x],
         \A v \in Users : v # u => part'[r][v] = part[r][v],
         \A x, v : Paid(x, v)' <=> Paid(x, v),
         \A x, v : x # r \/ v # u => (Back(x, v)' <=> Back(x, v)) /\ (Staked(x, v)' <=> Staked(x, v)),
         part[r][u] # "none" => part'[r][u] # "none",
         round'[r].status # "none",
         \/ round'[r].status = round[r].status
         \/ round'[r].status = "lobby" /\ (Undisturbed(r)' => round[r].status = "lobby"),
         RowFits(r)', CallFits(u)',
         \A q \in Processes : \A x : Attached(u, q, x) => x = r /\ call[u].do \notin {"joined", "left"},
         \A q \in Processes : r \notin shared' /\ Back(r, u)' /\ Drives(q, r) /\ u \in live[q].humans =>
           Attached(u, q, r)' /\ call'[u].do = "left",
         \A q \in Processes : Undisturbed(r)' /\ part'[r][u] \in {"joined", "playing"} /\ Drives(q, r) /\ live[q].status # "completed" =>
           \/ u \in live[q].humans
           \/ Attached(u, q, r)' /\ call'[u].do = "joined"
           \/ op[q] # None /\ op[q].do = "rehydrate"
  PROVE  WerkInv'
<1>1. shared \subseteq shared' /\ \A x : Undisturbed(x)' => Undisturbed(x)
  BY DEF History, Undisturbed
<1>2. ASSUME NEW x \in Rounds PROVE RowFits(x)'
  BY OtherRow DEF WerkInv
<1>3. ASSUME NEW v \in Users PROVE CallFits(v)'
  <2>1. PICK c : c = call[v]
    OBVIOUS
  <2>2. CASE v = u
    BY <2>2
  <2>3. CASE v # u
    <3>1. CallFits(v) /\ call'[v] = c
      BY <2>1, <2>3 DEF WerkInv
    <3>2. CASE c = None
      BY <3>1, <3>2 DEF CallFits
    <3>3. CASE c # None
      <4>1. c.p \in Processes /\ c.r \in Rounds /\ round[c.r].status # "none"
        BY <2>1, <3>1, <3>3 DEF WerkInv, RowsTyped, Calls, CallFits
      <4>2. c.attached => Drives(c.p, c.r)' /\ live'[c.p].status \in {"lobby", "running"} /\ ~live'[c.p].timeUp
        <5>1. c.attached => Drives(c.p, c.r) /\ live[c.p].status \in {"lobby", "running"} /\ ~live[c.p].timeUp
          BY <2>1, <3>1, <3>3 DEF CallFits
        <5> QED BY <4>1, <5>1 DEF Drives, SameMemory
      <4>3. part'[c.r][v] = part[c.r][v]
        BY <2>3
      <4>4. round'[c.r].status # "none"
        BY <4>1
      <4>5. (Paid(c.r, v)' <=> Paid(c.r, v)) /\ (Back(c.r, v)' <=> Back(c.r, v))
        BY <2>3
      <4> QED BY <2>1, <3>1, <3>3, <4>2, <4>3, <4>4, <4>5, OtherCall
    <3> QED BY <3>2, <3>3
  <2> QED BY <2>2, <2>3
<1>4. ASSUME NEW q \in Processes PROVE OpFits(q)'
  <2>1. OpFits(q)
    BY DEF WerkInv
  <2>2. \A x : round[x].status # "none" => round'[x].status # "none"
    OBVIOUS
  <2>3. \A x : Undisturbed(x)' /\ round[x].status = "running" => round'[x].status = "running"
    OBVIOUS
  <2>4. /\ live'[q] = None <=> live[q] = None
        /\ live[q] # None => /\ live'[q].r = live[q].r /\ live'[q].status = live[q].status
                             /\ live'[q].humans = live[q].humans /\ live'[q].timeUp = live[q].timeUp
    BY DEF SameMemory
  <2>5. op[q] # None /\ op[q].do = "mark" => live[q] # None
    BY <2>1 DEF OpFits
  <2> QED BY <1>1, <2>1, <2>2, <2>3, <2>4, <2>5 DEF OpFits
<1>5. ASSUME NEW q \in Processes PROVE MemoryFits(q)'
  <2>1. CASE live[q] = None
    BY <2>1 DEF SameMemory, MemoryFits
  <2>2. CASE live[q] # None
    <3>1. PICK l : l = live[q]
      OBVIOUS
    <3>2. PICK n : n = live'[q]
      OBVIOUS
    <3>3. l # None /\ n # None /\ n.r = l.r /\ n.status = l.status /\ n.humans = l.humans /\ n.timeUp = l.timeUp
      BY <2>2, <3>1, <3>2 DEF SameMemory
    <3>4. l \in LiveRounds /\ MemoryFits(q) /\ l.humans \subseteq Users /\ l.r \in Rounds
      BY <3>1, <3>3 DEF WerkInv, RowsTyped, LiveRounds
    <3>5. \A v \in Users : \A x : v # u => (Attached(v, q, x)' <=> Attached(v, q, x)) /\ call'[v] = call[v]
      BY DEF Attached
    <3>6. /\ round'[n.r].status # "none"
          /\ n.status = "lobby" => ~n.timeUp
          /\ n.status = "settling" => n.timeUp
          /\ \A v \in n.humans : part'[n.r][v] # "none"
      <4>1. /\ round[l.r].status # "none"
            /\ l.status = "lobby" => ~l.timeUp
            /\ l.status = "settling" => l.timeUp
            /\ \A v \in l.humans : part[l.r][v] # "none"
        BY <3>1, <3>3, <3>4 DEF MemoryFits
      <4>2. \A v \in l.humans : part'[l.r][v] # "none"
        BY <3>4, <4>1
      <4> QED BY <3>3, <4>1, <4>2
    <3>7. ASSUME n.r \notin shared', NEW v \in n.humans
          PROVE  (Back(n.r, v)' => Attached(v, q, n.r)' /\ call'[v].do = "left") /\ (Paid(n.r, v)' => n.status = "completed")
      <4>1. (Back(l.r, v) => Attached(v, q, l.r) /\ call[v].do = "left") /\ (Paid(l.r, v) => l.status = "completed")
        BY <1>1, <3>1, <3>3, <3>4, <3>7 DEF MemoryFits
      <4>2. v \in Users /\ v \in l.humans
        BY <3>3, <3>4, <3>7
      <4>3. CASE v # u
        BY <3>3, <3>5, <4>1, <4>2, <4>3
      <4>4. CASE v = u /\ n.r = r
        BY <3>1, <3>3, <3>7, <4>1, <4>2, <4>4 DEF Drives
      <4>5. CASE v = u /\ n.r # r
        BY <3>3, <4>1, <4>5
      <4> QED BY <4>3, <4>4, <4>5
    <3>8. ASSUME n.r \notin shared'
          PROVE  /\ n.status = "lobby" => round'[n.r].status = "lobby"
                 /\ n.status \in {"running", "settling"} => round'[n.r].status \in {"lobby", "running"}
      <4>1. /\ l.status = "lobby" => round[l.r].status = "lobby"
            /\ l.status \in {"running", "settling"} => round[l.r].status \in {"lobby", "running"}
        BY <1>1, <3>1, <3>3, <3>4, <3>8 DEF MemoryFits
      <4>2. round'[l.r].status = round[l.r].status \/ round'[l.r].status = "lobby"
        OBVIOUS
      <4> QED BY <3>3, <4>1, <4>2
    <3>9. ASSUME Undisturbed(n.r)', n.status # "completed", NEW v \in Users, part'[n.r][v] \in {"joined", "playing"}
          PROVE  \/ v \in n.humans
                 \/ Attached(v, q, n.r)' /\ call'[v].do = "joined"
                 \/ op'[q] # None /\ op'[q].do = "rehydrate"
      <4>1. part[l.r][v] \in {"joined", "playing"} =>
              \/ v \in l.humans
              \/ Attached(v, q, l.r) /\ call[v].do = "joined"
              \/ op[q] # None /\ op[q].do = "rehydrate"
        BY <1>1, <3>1, <3>3, <3>4, <3>9 DEF MemoryFits
      <4>2. CASE v # u
        <5>1. part'[l.r][v] = part[l.r][v]
          BY <4>2
        <5> QED BY <3>3, <3>5, <3>9, <4>1, <4>2, <5>1
      <4>3. CASE v = u /\ n.r = r
        BY <3>1, <3>3, <3>9, <4>3 DEF Drives
      <4>4. CASE v = u /\ n.r # r
        BY <3>3, <3>9, <4>1, <4>4
      <4> QED BY <4>2, <4>3, <4>4
    <3>10. live'[q] = n /\ n # None
      BY <3>2, <3>3
    <3> QED BY <3>6, <3>7, <3>8, <3>9, <3>10 DEF MemoryFits
  <2> QED BY <2>1, <2>2
<1> QED BY <1>2, <1>3, <1>4, <1>5 DEF WerkInv, History

\* What JoinTx does for u with the request c.
JoinRefused(u, r) == UNCHANGED <<round, part, ledger>> /\ call' = [call EXCEPT ![u] = None]
JoinDone(u, r) ==
  /\ part[r][u] = "none"
  /\ part' = [part EXCEPT ![r][u] = "joined"]
  /\ ledger' = ledger \cup {Movement("stake", r, u, -Stake, <<"join">>)}
  /\ round' = round \/ round' = Saved(r, "lobby", TRUE)
  /\ call' = Continued(u, "joined")

LEMMA DoEdit ==
  ASSUME NEW c \in Calls, NEW x \in {"joined", "left"}
  PROVE  LET d == [c EXCEPT !.do = x] IN d \in Calls /\ d.do = x /\ d.p = c.p /\ d.r = c.r /\ d.attached = c.attached
BY DEF Calls

LEMMA ContinuedCall ==
  ASSUME WerkInv, NEW u \in Users, NEW c \in Calls, c = call[u], NEW x \in {"joined", "left"}, call' = Continued(u, x)
  PROVE  /\ \A v \in Users : v # u => call'[v] = call[v]
         /\ call' \in [Users -> Calls \cup {None}]
         /\ call'[u] \in Calls /\ call'[u].do = x /\ call'[u].p = c.p /\ call'[u].r = c.r /\ call'[u].attached = c.attached
<1>1. call \in [Users -> Calls \cup {None}]
  BY DEF WerkInv, RowsTyped
<1> DEFINE d == [c EXCEPT !.do = x]
<1>2. d \in Calls /\ d.do = x /\ d.p = c.p /\ d.r = c.r /\ d.attached = c.attached
  BY DoEdit
<1>3. call' = [call EXCEPT ![u] = d]
  BY DEF Continued
<1> HIDE DEF d
<1>4. call'[u] = d
  BY <1>1, <1>3
<1> QED BY <1>1, <1>2, <1>3, <1>4

LEMMA JoinTxKeeps ==
  ASSUME WerkInv, History, NEW u \in Users, JoinTx(u)
  PROVE  WerkInv'
<1>1. PICK c : c = call[u]
  OBVIOUS
<1>2. PICK r : r = c.r
  OBVIOUS
<1>3. PICK p : p = c.p
  OBVIOUS
<1>4. c # None /\ c.do = "join" /\ op' = op /\ (JoinRefused(u, r) \/ JoinDone(u, r))
  BY <1>1, <1>2 DEF JoinTx, Serve, JoinRefused, JoinDone
<1>5. live' = IF c.attached /\ part[r][u] = "none" THEN [live EXCEPT ![p].scheduled = TRUE] ELSE live
  BY <1>1, <1>2, <1>3 DEF JoinTx
<1>6. RowsTyped /\ CallFits(u) /\ shared \subseteq shared' /\ \A x : Undisturbed(x)' => Undisturbed(x)
  BY DEF WerkInv, History, Undisturbed
<1>7. c \in Calls /\ r \in Rounds /\ p \in Processes /\ RowFits(r) /\ round[r].status # "none"
  <2>1. c \in Calls
    BY <1>1, <1>4, <1>6 DEF RowsTyped
  <2> QED BY <1>1, <1>2, <1>3, <1>4, <1>6, <2>1 DEF WerkInv, Calls, CallFits
<1>8. SameMemory
  <2>1. CASE ~c.attached
    BY <1>5, <1>6, <2>1 DEF RowsTyped, SameMemory
  <2>2. CASE c.attached
    <3>1. live[p] # None
      BY <1>1, <1>3, <1>4, <1>6, <2>2 DEF CallFits, Drives
    <3> QED BY <1>5, <1>7, <3>1, ScheduleKeepsMemory
  <2> QED BY <2>1, <2>2
<1>9. \A q \in Processes : \A x : Attached(u, q, x) => x = r /\ call[u].do \notin {"joined", "left"}
  BY <1>1, <1>2, <1>4 DEF Attached
<1>10. CASE JoinRefused(u, r)
  <2>1. UNCHANGED <<round, part, ledger>> /\ call' = [call EXCEPT ![u] = None]
    BY <1>10 DEF JoinRefused
  <2>2. call'[u] = None /\ \A v \in Users : v # u => call'[v] = call[v]
    BY <1>6, <2>1 DEF RowsTyped
  <2>3. RowsTyped'
    BY <1>4, <1>6, <1>8, <2>1 DEF RowsTyped, SameMemory
  <2>4. CallFits(u)'
    BY <2>2 DEF CallFits
  <2>5. ASSUME NEW q \in Processes, r \notin shared', Drives(q, r), u \in live[q].humans PROVE ~Back(r, u)'
    <3>1. PICK l : l = live[q]
      OBVIOUS
    <3>2. MemoryFits(q) /\ l # None /\ l.r = r
      BY <2>5, <3>1 DEF WerkInv, Drives
    <3>3. ~Back(r, u)
      BY <1>1, <1>4, <1>6, <2>5, <3>1, <3>2 DEF MemoryFits
    <3> QED BY <2>1, <3>3, RowsStay
  <2>6. ASSUME NEW q \in Processes, Undisturbed(r)', part'[r][u] \in {"joined", "playing"}, Drives(q, r), live[q].status # "completed"
        PROVE  u \in live[q].humans \/ (op[q] # None /\ op[q].do = "rehydrate")
    <3>1. PICK l : l = live[q]
      OBVIOUS
    <3>2. MemoryFits(q) /\ l # None /\ l.r = r /\ part[r][u] \in {"joined", "playing"}
      BY <2>1, <2>6, <3>1 DEF WerkInv, Drives
    <3> QED BY <1>1, <1>4, <1>6, <2>6, <3>1, <3>2 DEF MemoryFits
  <2> QED BY <1>4, <1>7, <1>8, <1>9, <2>1, <2>2, <2>3, <2>4, <2>5, <2>6, RowsStay, AnswerStep
<1>11. CASE JoinDone(u, r)
  <2> DEFINE M == {Movement("stake", r, u, -Stake, <<"join">>)}
             row == [status |-> "lobby", guard |-> TRUE, scheduled |-> TRUE]
  <2>1. /\ part[r][u] = "none" /\ part' = [part EXCEPT ![r][u] = "joined"] /\ ledger' = ledger \cup M
        /\ call' = Continued(u, "joined")
    BY <1>11 DEF JoinDone
  <2>2. round' = round \/ round' = [round EXCEPT ![r] = row]
    BY <1>11 DEF JoinDone, Saved
  <2>3. \A e \in M : e.kind = "stake" /\ e.round = r /\ e.user \in {u}
    BY DEF Movement
  <2>4. row \in RowTypes /\ row.status = "lobby"
    BY DEF RowTypes, Statuses
  <2> HIDE DEF M, row
  <2>5. /\ \A x : x # r => round'[x] = round[x]
        /\ round'[r] = round[r] \/ round'[r] = row
    <3>1. CASE round' = round
      BY <3>1
    <3>2. CASE round' = [round EXCEPT ![r] = row]
      BY <1>6, <1>7, <3>2 DEF RowsTyped
    <3> QED BY <2>2, <3>1, <3>2
  <2>6. /\ part'[r][u] = "joined" /\ \A v \in Users : v # u => part'[r][v] = part[r][v]
        /\ \A x : x # r => part'[x] = part[x]
    BY <1>6, <1>7, <2>1 DEF RowsTyped
  <2>7. /\ \A v \in Users : v # u => call'[v] = call[v]
        /\ call' \in [Users -> Calls \cup {None}]
        /\ call'[u] \in Calls /\ call'[u].do = "joined" /\ call'[u].p = p /\ call'[u].r = r /\ call'[u].attached = c.attached
    BY <1>1, <1>2, <1>3, <1>7, <2>1, ContinuedCall
  <2>8. RowsTyped'
    <3>1. part' \in [Rounds -> [Users -> PartStatuses]]
      BY <1>6, <1>7, <2>1 DEF RowsTyped, PartStatuses
    <3>2. round' \in [Rounds -> RowTypes]
      BY <1>6, <1>7, <2>2, <2>4 DEF RowsTyped
    <3>3. \A e \in ledger' : e.kind \in {"stake", "refund", "prize"} /\ e.round \in Rounds /\ e.user \in Users
      BY <1>6, <1>7, <2>1, <2>3 DEF RowsTyped
    <3> QED BY <1>4, <1>6, <1>8, <2>7, <3>1, <3>2, <3>3 DEF RowsTyped, SameMemory
  <2>9. /\ \A x, v : Paid(x, v)' <=> Paid(x, v)
        /\ \A x, v : Back(x, v)' <=> Back(x, v)
        /\ \A x, v : x # r \/ v # u => (Staked(x, v)' <=> Staked(x, v))
    <3>1. PICK k : k = "stake"
      OBVIOUS
    <3>2. PICK U : U = {u}
      OBVIOUS
    <3>3. Adds(M, k, r, U)
      BY <2>1, <2>3, <3>1, <3>2 DEF Adds
    <3>4. /\ \A x, v : x # r => (Paid(x, v)' <=> Paid(x, v)) /\ (Back(x, v)' <=> Back(x, v)) /\ (Staked(x, v)' <=> Staked(x, v))
          /\ \A x, v : Paid(x, v)' => Paid(x, v) \/ (k = "prize" /\ v \in U)
          /\ \A x, v : Back(x, v)' => Back(x, v) \/ (k = "refund" /\ v \in U)
          /\ \A x, v : Staked(x, v)' => Staked(x, v) \/ (k = "stake" /\ v \in U)
          /\ \A x, v : (Paid(x, v) => Paid(x, v)') /\ (Back(x, v) => Back(x, v)') /\ (Staked(x, v) => Staked(x, v)')
      BY <3>3, LedgerGrows
    <3>5. k = "stake" /\ \A v : v \in U <=> v = u
      BY <3>1, <3>2
    <3> QED BY <3>4, <3>5
  <2>10. ~Back(r, u) /\ ~Paid(r, u)
    BY <1>7, <2>1 DEF RowFits
  <2>11. Undisturbed(r)' => c.attached /\ round[r].status = "lobby"
    <3> SUFFICES ASSUME Undisturbed(r)' PROVE c.attached /\ round[r].status = "lobby"
      OBVIOUS
    <3>1. call'[u] # call[u]
      BY <1>1, <1>4, <2>7
    <3>2. c.attached /\ LobbyOf(p)
      BY <1>1, <1>2, <1>3, <1>4, <3>1 DEF History, Undisturbed
    <3>3. MemoryFits(p) /\ live[p] # None /\ live[p].r = r /\ live[p].status = "lobby"
      BY <1>1, <1>2, <1>3, <1>4, <1>6, <1>7, <3>2 DEF WerkInv, CallFits, Drives, LobbyOf
    <3> QED BY <1>6, <3>2, <3>3 DEF MemoryFits, Undisturbed
  <2>12. RowFits(r)'
    BY <1>6, <1>7, <2>4, <2>5, <2>6, <2>9, <2>10, <2>11 DEF RowFits, Ended
  <2>13. CallFits(u)'
    <3>1. PICK d : d = call'[u]
      OBVIOUS
    <3>2. d # None /\ d.do = "joined" /\ d.p = p /\ d.r = r /\ d.attached = c.attached
      BY <2>7, <3>1, Nothing
    <3>3. c.attached => Drives(p, r) /\ live[p].status \in {"lobby", "running"} /\ ~live[p].timeUp
      BY <1>1, <1>2, <1>3, <1>4, <1>6 DEF CallFits
    <3>4. d.attached => Drives(p, r)' /\ live'[p].status \in {"lobby", "running"} /\ ~live'[p].timeUp
      BY <1>7, <1>8, <3>2, <3>3 DEF Drives, SameMemory
    <3>5. round'[r].status # "none"
      BY <1>7, <2>4, <2>5
    <3> QED BY <2>6, <2>9, <2>10, <3>1, <3>2, <3>4, <3>5 DEF CallFits
  <2>14. ASSUME NEW q \in Processes, Undisturbed(r)', Drives(q, r)
         PROVE  Attached(u, q, r)' /\ call'[u].do = "joined"
    <3>1. c.attached
      BY <2>11, <2>14
    <3>2. Drives(p, r)
      BY <1>1, <1>2, <1>3, <1>4, <1>6, <3>1 DEF CallFits
    <3>3. q = p
      BY <1>6, <1>7, <2>14, <3>2 DEF WerkInv, OneHolds, Undisturbed
    <3> QED BY <2>7, <3>1, <3>3, Nothing DEF Attached
  <2>15. round'[r].status # "none" /\ (round'[r].status = round[r].status \/ round'[r].status = "lobby")
    BY <1>7, <2>4, <2>5
  <2> QED BY <1>4, <1>7, <1>8, <1>9, <2>5, <2>6, <2>7, <2>8, <2>9, <2>10, <2>11, <2>12, <2>13, <2>14, <2>15, AnswerStep
<1> QED BY <1>4, <1>10, <1>11

LEMMA LeaveTxKeeps ==
  ASSUME WerkInv, History, NEW u \in Users, LeaveTx(u)
  PROVE  WerkInv'
<1>1. PICK c : c = call[u]
  OBVIOUS
<1>2. PICK r : r = c.r
  OBVIOUS
<1>3. PICK p : p = c.p
  OBVIOUS
<1> DEFINE M == {Movement("refund", r, u, Stake, <<"left">>)}
           NoRow == part[r][u] # "joined" /\ UNCHANGED <<part, ledger>> /\ call' = Continued(u, "left")
           Refusal == UNCHANGED <<part, ledger>> /\ call' = [call EXCEPT ![u] = None]
           Repaid == /\ part[r][u] = "joined" /\ ledger' = ledger \cup M /\ part' = [part EXCEPT ![r][u] = "refunded"]
                     /\ call' = Continued(u, "left")
<1>4. c # None /\ c.do = "leave" /\ UNCHANGED <<round, live, op>> /\ (NoRow \/ Refusal \/ Repaid)
  BY <1>1, <1>2 DEF LeaveTx, Serve
<1>5. RowsTyped /\ CallFits(u) /\ shared \subseteq shared' /\ \A x : Undisturbed(x)' => Undisturbed(x)
  BY DEF WerkInv, History, Undisturbed
<1>6. c \in Calls /\ r \in Rounds /\ p \in Processes /\ RowFits(r) /\ round[r].status # "none" /\ part[r][u] # "none"
  <2>1. c \in Calls
    BY <1>1, <1>4, <1>5 DEF RowsTyped
  <2> QED BY <1>1, <1>2, <1>3, <1>4, <1>5, <2>1 DEF WerkInv, Calls, CallFits
<1>7. SameMemory
  BY <1>4, <1>5 DEF RowsTyped, SameMemory
<1>8. \A q \in Processes : \A x : Attached(u, q, x) => x = r /\ call[u].do \notin {"joined", "left"}
  BY <1>1, <1>2, <1>4 DEF Attached
<1>9. c.attached => Drives(p, r) /\ live[p].status \in {"lobby", "running"} /\ ~live[p].timeUp
  BY <1>1, <1>2, <1>3, <1>4, <1>5 DEF CallFits
<1>10. ASSUME NEW q \in Processes, r \notin shared', Drives(q, r), u \in live[q].humans PROVE ~Back(r, u)
  <2>1. PICK l : l = live[q]
    OBVIOUS
  <2>2. MemoryFits(q) /\ l # None /\ l.r = r
    BY <1>10, <2>1 DEF WerkInv, Drives
  <2> QED BY <1>1, <1>4, <1>5, <1>10, <2>1, <2>2 DEF MemoryFits
<1>11. ASSUME NEW q \in Processes, Undisturbed(r)', part[r][u] \in {"joined", "playing"}, Drives(q, r), live[q].status # "completed"
       PROVE  u \in live[q].humans \/ (op[q] # None /\ op[q].do = "rehydrate")
  <2>1. PICK l : l = live[q]
    OBVIOUS
  <2>2. MemoryFits(q) /\ l # None /\ l.r = r
    BY <1>11, <2>1 DEF WerkInv, Drives
  <2> QED BY <1>1, <1>4, <1>5, <1>11, <2>1, <2>2 DEF MemoryFits
<1>12. ASSUME call' = Continued(u, "left")
       PROVE  /\ \A v \in Users : v # u => call'[v] = call[v]
              /\ call' \in [Users -> Calls \cup {None}]
              /\ call'[u] # None /\ call'[u].do = "left" /\ call'[u].p = p /\ call'[u].r = r /\ call'[u].attached = c.attached
  BY <1>1, <1>2, <1>3, <1>6, <1>12, ContinuedCall, Nothing
<1>13. ASSUME call' = Continued(u, "left"), part'[r][u] \notin {"none", "joined"} PROVE CallFits(u)'
  <2>1. PICK d : d = call'[u]
    OBVIOUS
  <2>2. d # None /\ d.do = "left" /\ d.p = p /\ d.r = r /\ d.attached = c.attached
    BY <1>12, <1>13, <2>1
  <2>3. d.attached => Drives(p, r)' /\ live'[p].status \in {"lobby", "running"} /\ ~live'[p].timeUp
    BY <1>4, <1>9, <2>2 DEF Drives
  <2> QED BY <1>4, <1>6, <1>13, <2>1, <2>2, <2>3 DEF CallFits
<1>14. CASE NoRow
  <2>1. part[r][u] # "joined" /\ UNCHANGED <<round, part, ledger>> /\ call' = Continued(u, "left")
    BY <1>4, <1>14
  <2> HIDE DEF NoRow, Refusal, Repaid
  <2>2. RowsTyped'
    BY <1>4, <1>5, <1>12, <2>1 DEF RowsTyped
  <2>3. CallFits(u)'
    BY <1>6, <1>13, <2>1
  <2>4. RowFits(r)' /\ \A x, v : (Paid(x, v)' <=> Paid(x, v)) /\ (Back(x, v)' <=> Back(x, v)) /\ (Staked(x, v)' <=> Staked(x, v))
    BY <1>6, <2>1, RowsStay
  <2>5. \A v \in Users : v # u => call'[v] = call[v]
    BY <1>12, <2>1
  <2> QED BY <1>4, <1>6, <1>7, <1>8, <1>10, <1>11, <2>1, <2>2, <2>3, <2>4, <2>5, AnswerStep
<1>15. CASE Refusal
  <2>1. UNCHANGED <<round, part, ledger>> /\ call' = [call EXCEPT ![u] = None]
    BY <1>4, <1>15
  <2> HIDE DEF NoRow, Refusal, Repaid
  <2>2. call'[u] = None /\ \A v \in Users : v # u => call'[v] = call[v]
    BY <1>5, <2>1 DEF RowsTyped
  <2>3. RowsTyped'
    BY <1>4, <1>5, <2>1 DEF RowsTyped
  <2>4. CallFits(u)'
    BY <2>2 DEF CallFits
  <2>5. RowFits(r)' /\ \A x, v : (Paid(x, v)' <=> Paid(x, v)) /\ (Back(x, v)' <=> Back(x, v)) /\ (Staked(x, v)' <=> Staked(x, v))
    BY <1>6, <2>1, RowsStay
  <2> QED BY <1>4, <1>6, <1>7, <1>8, <1>10, <1>11, <2>1, <2>2, <2>3, <2>4, <2>5, AnswerStep
<1>16. CASE Repaid
  <2>1. /\ part[r][u] = "joined" /\ ledger' = ledger \cup M /\ part' = [part EXCEPT ![r][u] = "refunded"]
        /\ call' = Continued(u, "left")
    BY <1>16
  <2>2. \A e \in M : e.kind = "refund" /\ e.round = r /\ e.user \in {u}
    BY DEF Movement
  <2> HIDE DEF NoRow, Refusal, Repaid, M
  <2>3. /\ part'[r][u] = "refunded" /\ \A v \in Users : v # u => part'[r][v] = part[r][v]
        /\ \A x : x # r => part'[x] = part[x]
    BY <1>5, <1>6, <2>1 DEF RowsTyped
  <2>4. RowsTyped'
    <3>1. part' \in [Rounds -> [Users -> PartStatuses]]
      BY <1>5, <1>6, <2>1 DEF RowsTyped, PartStatuses
    <3>2. \A e \in ledger' : e.kind \in {"stake", "refund", "prize"} /\ e.round \in Rounds /\ e.user \in Users
      BY <1>5, <1>6, <2>1, <2>2 DEF RowsTyped
    <3> QED BY <1>4, <1>5, <1>12, <2>1, <3>1, <3>2 DEF RowsTyped
  <2>5. /\ \A x, v : Paid(x, v)' <=> Paid(x, v)
        /\ \A x, v : Staked(x, v)' <=> Staked(x, v)
        /\ \A x, v : x # r \/ v # u => (Back(x, v)' <=> Back(x, v))
    <3>1. PICK k : k = "refund"
      OBVIOUS
    <3>2. PICK U : U = {u}
      OBVIOUS
    <3>3. Adds(M, k, r, U)
      BY <2>1, <2>2, <3>1, <3>2 DEF Adds
    <3>4. /\ \A x, v : x # r => (Paid(x, v)' <=> Paid(x, v)) /\ (Back(x, v)' <=> Back(x, v)) /\ (Staked(x, v)' <=> Staked(x, v))
          /\ \A x, v : Paid(x, v)' => Paid(x, v) \/ (k = "prize" /\ v \in U)
          /\ \A x, v : Back(x, v)' => Back(x, v) \/ (k = "refund" /\ v \in U)
          /\ \A x, v : Staked(x, v)' => Staked(x, v) \/ (k = "stake" /\ v \in U)
          /\ \A x, v : (Paid(x, v) => Paid(x, v)') /\ (Back(x, v) => Back(x, v)') /\ (Staked(x, v) => Staked(x, v)')
      BY <3>3, LedgerGrows
    <3>5. k = "refund" /\ \A v : v \in U <=> v = u
      BY <3>1, <3>2
    <3> QED BY <3>4, <3>5
  <2>6. ~Paid(r, u)
    BY <1>6, <2>1 DEF RowFits
  <2>7. RowFits(r)'
    BY <1>4, <1>5, <1>6, <2>3, <2>5, <2>6 DEF RowFits, Ended, Done
  <2>8. CallFits(u)'
    BY <1>13, <2>1, <2>3
  <2>9. \A v \in Users : v # u => call'[v] = call[v]
    BY <1>12, <2>1
  <2>10. ASSUME NEW q \in Processes, r \notin shared', Drives(q, r)
         PROVE  Attached(u, q, r)' /\ call'[u].do = "left"
    <3>1. c.attached
      BY <1>1, <1>2, <1>4, <1>5, <2>1, <2>10 DEF CallFits
    <3>2. q = p
      BY <1>5, <1>6, <1>9, <2>10, <3>1 DEF WerkInv, OneHolds
    <3> QED BY <1>12, <2>1, <3>1, <3>2 DEF Attached
  <2> QED BY <1>4, <1>6, <1>7, <1>8, <2>1, <2>3, <2>4, <2>5, <2>7, <2>8, <2>9, <2>10, AnswerStep
<1> QED BY <1>4, <1>14, <1>15, <1>16

LEMMA JoinedKeeps ==
  ASSUME WerkInv, History, NEW u \in Users, Joined(u)
  PROVE  WerkInv'
<1>1. PICK c : c = call[u]
  OBVIOUS
<1>2. c # None /\ c.do = "joined" /\ call' = [call EXCEPT ![u] = None] /\ UNCHANGED <<round, part, ledger, op>>
  BY <1>1 DEF Joined, Serve
<1>3. c \in Calls /\ c.p \in Processes /\ c.r \in Rounds
  BY <1>1, <1>2 DEF WerkInv, RowsTyped, Calls
<1>4. live' = IF c.attached
              THEN [live EXCEPT ![c.p].humans = IF c.do = "joined" THEN @ \cup {u} ELSE @ \ {u}] ELSE live
  BY <1>1, <1>2 DEF Joined
<1> QED BY <1>1, <1>2, <1>3, <1>4, RequestEnds

LEMMA LeftKeeps ==
  ASSUME WerkInv, History, NEW u \in Users, Left(u)
  PROVE  WerkInv'
<1>1. PICK c : c = call[u]
  OBVIOUS
<1>2. c # None /\ c.do = "left" /\ call' = [call EXCEPT ![u] = None] /\ UNCHANGED <<round, part, ledger, op>>
  BY <1>1 DEF Left, Serve
<1>3. c \in Calls /\ c.p \in Processes /\ c.r \in Rounds
  BY <1>1, <1>2 DEF WerkInv, RowsTyped, Calls
<1>4. live' = IF c.attached
              THEN [live EXCEPT ![c.p].humans = IF c.do = "joined" THEN @ \cup {u} ELSE @ \ {u}] ELSE live
  BY <1>1, <1>2 DEF Left, OtherHumans
<1> QED BY <1>1, <1>2, <1>3, <1>4, RequestEnds

\* Every step keeps WerkInv.
LEMMA WerkStep == WerkInv /\ [MCNext]_mcvars => WerkInv'
<1> SUFFICES ASSUME WerkInv, [MCNext]_mcvars PROVE WerkInv'
  OBVIOUS
<1>1. CASE UNCHANGED mcvars
  <2>1. History
    BY <1>1 DEF mcvars, vars, History, WerkInv, OneHolds, Drives, Cancels
  <2> QED BY <1>1, <2>1, QuietStep DEF mcvars, vars
<1>2. CASE MCNext
  <2>1. History
    BY <1>2, HistoryGrows DEF MCNext
  <2>2. ASSUME NEW p \in Processes, Lifecycle(p) PROVE WerkInv'
    <3>1. CASE NoPlayers(p)
      BY <2>1, <3>1, GiveUpKeeps DEF NoPlayers
    <3>2. CASE NobodyWatches(p)
      BY <2>1, <3>2, GiveUpKeeps DEF NobodyWatches
    <3> QED BY <2>1, <2>2, <3>1, <3>2, LoadActiveKeeps, StartRoundKeeps, SettleRoundKeeps, FinalizeKeeps DEF Lifecycle
  <2>3. ASSUME NEW p \in Processes, Continue(p) PROVE WerkInv'
    BY <2>1, <2>3, RehydrateKeeps, OpenLobbyKeeps, SaveRunningKeeps, MarkPlayingKeeps, CancelTxKeeps, SettleTxKeeps DEF Continue
  <2>4. ASSUME NEW p \in Processes, SettleFails(p) PROVE WerkInv'
    <3>1. /\ UNCHANGED <<round, part, ledger, call>> /\ op[p] # None /\ op[p].do = "settle"
          /\ op' = [op EXCEPT ![p] = None] /\ live' = [live EXCEPT ![p].status = AfterError]
      BY <2>4 DEF SettleFails, Over, Goto
    <3> QED BY <2>1, <3>1, RunsOn
  <2>5. ASSUME NEW u \in Users, Answer(u) PROVE WerkInv'
    BY <2>1, <2>5, JoinTxKeeps, JoinedKeeps, LeaveTxKeeps, LeftKeeps DEF Answer
  <2>6. ASSUME NEW u \in Users, NEW p \in Processes, JoinCheck(u, p) PROVE WerkInv'
    BY <2>1, <2>6, RequestBegins DEF JoinCheck, Called
  <2>7. ASSUME NEW u \in Users, NEW p \in Processes, LeaveCheck(u, p) PROVE WerkInv'
    BY <2>1, <2>7, RequestBegins DEF LeaveCheck, Called
  <2>8. CASE Lapse \/ Outage \/ Reconnect
    BY <2>1, <2>8, QuietStep DEF Lapse, Outage, Reconnect
  <2> QED BY <1>2, <2>1, <2>2, <2>3, <2>4, <2>5, <2>6, <2>7, <2>8, ElapsedOutKeeps, CrashKeeps DEF MCNext, Next
<1> QED BY <1>1, <1>2

LEMMA WerkHolds == MCSpec => []WerkInv
<1>1. MCInit => WerkInv
  BY WerkStarts
<1>2. WerkInv /\ [MCNext]_mcvars => WerkInv'
  BY WerkStep
<1> QED BY <1>1, <1>2, PTL DEF MCSpec

-----------------------------------------------------------------------------
\* Nobody gets his stake back and a prize for one round, whatever crashes, rolls back or
\* runs at once, as long as no two processes hold the round (settleRound, cancelRoundRow).
THEOREM NobodyPaidTwice == MCSpec => []PaidOrRefunded
<1>1. WerkInv => PaidOrRefunded
  BY DEF WerkInv, RowFits, PaidOrRefunded, Paid, Back
<1> QED BY <1>1, WerkHolds, PTL

\* A round that is over has settled or refunded everybody who paid for it, as long as no
\* request was committed after its lobby and no two processes held it (settleRound,
\* cancelRoundRow, rehydrateHumans).
THEOREM EverybodyIsDone == MCSpec => []NobodyForgotten
<1>1. WerkInv => NobodyForgotten
  BY DEF WerkInv, RowFits, NobodyForgotten, Ended, Staked
<1> QED BY <1>1, WerkHolds, PTL

-----------------------------------------------------------------------------
\* What a game ends with: finitely many players, every bot with an id of its own, and no
\* coin below zero (settleRound builds both lists, the generator's values included).
Players(rng, humans, bots, o) ==
  /\ IsFiniteSet(DOMAIN humans) /\ IsFiniteSet(DOMAIN bots) /\ DOMAIN humans \cap DOMAIN bots = {}
  /\ \A k \in DOMAIN humans : humans[k] \in [coin : Nat, reached : BOOLEAN, games : Nat]
  /\ \A b \in DOMAIN bots : bots[b] \in [id : Int, coin : Nat, reached : BOOLEAN] /\ rng[b] \in Nat
  /\ \A b, c \in DOMAIN bots : bots[b].id = bots[c].id => b = c
  /\ o.botsEnabled /\ o.poolTotal \in Nat /\ o.payingRanks \in Nat

LEMMA MaxOfTwo == ASSUME NEW x \in Int, NEW y \in Int PROVE Max({x, y}) = IF x >= y THEN x ELSE y
<1> DEFINE m == IF x >= y THEN x ELSE y
<1>1. m \in {x, y} /\ \A z \in {x, y} : m >= z
  OBVIOUS
<1>2. \A n \in {x, y} : (\A z \in {x, y} : n >= z) => n = m
  OBVIOUS
<1> QED BY <1>1, <1>2 DEF Max

LEMMA MinOfTwo == ASSUME NEW x \in Int, NEW y \in Int PROVE Min({x, y}) = IF x <= y THEN x ELSE y
<1> DEFINE m == IF x <= y THEN x ELSE y
<1>1. m \in {x, y} /\ \A z \in {x, y} : m <= z
  OBVIOUS
<1>2. \A n \in {x, y} : (\A z \in {x, y} : n <= z) => n = m
  OBVIOUS
<1> QED BY <1>1, <1>2 DEF Min

\* A clamped value stays within what it is clamped from, and above what is below it and the pool.
LEMMA ClampWithin ==
  ASSUME NEW v \in Int, NEW o, o.poolTotal \in Nat
  PROVE  /\ Clamp(v, o) \in Nat
         /\ \A m \in Nat : v <= m => Clamp(v, o) <= m
         /\ \A m \in Nat : v > m /\ o.poolTotal > m => Clamp(v, o) > m
<1>1. Clamp(v, o) = LET t == IF o.poolTotal <= v THEN o.poolTotal ELSE v IN IF 0 >= t THEN 0 ELSE t
  BY MinOfTwo, MaxOfTwo DEF Clamp
<1> QED BY <1>1

LEMMA GreatestOf ==
  ASSUME NEW S \in SUBSET Nat, IsFiniteSet(S), S # {}
  PROVE  Max(S) \in S /\ \A x \in S : x <= Max(S)
<1> DEFINE G == {T \in SUBSET S : T # {} => \E x \in T : \A y \in T : x >= y}
<1>1. {} \in G
  OBVIOUS
<1>2. ASSUME NEW T \in SUBSET S, T # {}, NEW x \in T, T \ {x} \in G PROVE T \in G
  <2>1. CASE T \ {x} = {}
    <3>1. \A y \in T : x >= y
      BY <2>1
    <3> QED BY <3>1
  <2>2. CASE T \ {x} # {}
    <3>1. PICK z \in T \ {x} : \A y \in T \ {x} : z >= y
      BY <1>2, <2>2
    <3>2. CASE z >= x
      <4>1. \A y \in T : z >= y
        BY <3>1, <3>2 DEF G
      <4> QED BY <4>1
    <3>3. CASE ~(z >= x)
      <4>1. x \in Nat /\ z \in Nat
        OBVIOUS
      <4>2. ASSUME NEW y \in T PROVE x >= y
        <5>1. CASE y = x
          BY <4>1, <5>1
        <5>2. CASE y # x
          <6>1. y \in Nat /\ z >= y
            BY <3>1, <5>2
          <6> QED BY <3>3, <4>1, <6>1
        <5> QED BY <5>1, <5>2
      <4> QED BY <4>2
    <3> QED BY <3>2, <3>3
  <2> QED BY <2>1, <2>2
<1> HIDE DEF G
<1>3. \A T \in SUBSET S : T # {} => \E x \in T : T \ {x} \in G => T \in G
  BY <1>2
<1>4. S \in G
  BY <1>1, <1>3, SubsetInduction
<1>5. \E x \in S : \A y \in S : x >= y
  BY <1>4 DEF G
<1>6. Max(S) \in S /\ \A y \in S : Max(S) >= y
  BY <1>5 DEF Max
<1> QED BY <1>6

LEMMA CoinsFinite ==
  ASSUME NEW humans, NEW K \in SUBSET DOMAIN humans, IsFiniteSet(DOMAIN humans),
         \A k \in DOMAIN humans : humans[k].coin \in Nat
  PROVE  Coins(humans, K) \in SUBSET Nat /\ IsFiniteSet(Coins(humans, K)) /\ \A k \in K : humans[k].coin \in Coins(humans, K)
<1> DEFINE f == [k \in K |-> humans[k].coin]
<1>1. f \in Surjection(K, Coins(humans, K))
  BY DEF Coins, Surjection
<1>2. IsFiniteSet(K)
  BY FS_Subset
<1> HIDE DEF f
<1> QED BY <1>1, <1>2, FS_Surjection DEF Coins

\* No bot is left with the coins of a promised winner.
LEMMA BotsHaveLess ==
  ASSUME NEW rng, NEW humans, NEW bots, NEW o, Players(rng, humans, bots, o),
         NEW k \in Required(humans, o, "win"), humans[k].coin > 0, NEW b \in DOMAIN bots
  PROVE  LET coin == applyRoundWinControl(rng, humans, bots, o)[b].coin IN coin \in Nat /\ coin < humans[k].coin
<1> DEFINE win == Coins(humans, Required(humans, o, "win"))
           lose == Coins(humans, Required(humans, o, "lose"))
           w == Min(win)
           ceil == Max({0, w - 1})
           after == applyRoundWinControl(rng, humans, bots, o)
<1>1. win \in SUBSET Nat /\ humans[k].coin \in win /\ lose \in SUBSET Nat /\ IsFiniteSet(lose) /\ o.poolTotal \in Nat
  BY CoinsFinite DEF Players, Required
<1> HIDE DEF win, lose
<1>2. w \in Nat /\ w <= humans[k].coin /\ humans[k].coin \in Nat
  <2>1. PICK x \in win : \A y \in win : x <= y
    BY <1>1, LeastNat
  <2>2. w \in win /\ \A y \in win : w <= y
    BY <2>1 DEF Min
  <2> QED BY <1>1, <2>2
<1> HIDE DEF w
<1>3. ceil \in Nat /\ ceil < humans[k].coin
  <2>1. ceil = IF 0 >= w - 1 THEN 0 ELSE w - 1
    BY <1>2, MaxOfTwo
  <2> QED BY <1>2, <2>1
<1>4. after = BelowWinners(rng, bots, o, w, lose)
  <2>1. win # {} /\ o.botsEnabled
    BY <1>1 DEF Players
  <2> QED BY <2>1 DEF applyRoundWinControl, WinFloor, win, lose, w
<1> HIDE DEF after
<1> DEFINE capped == [c \in DOMAIN bots |-> [bots[c] EXCEPT !.coin = Clamp(Min({@, ceil}), o)]]
           target == Max(lose) + 1 + rng[b] \div 4
<1>5. bots[b] \in [id : Int, coin : Nat, reached : BOOLEAN] /\ rng[b] \in Nat
  BY DEF Players
<1> HIDE DEF ceil
<1>6. capped[b] \in [id : Int, coin : Nat, reached : BOOLEAN] /\ capped[b].coin <= ceil
  <2> DEFINE v == Min({bots[b].coin, ceil})
  <2>1. v \in Int /\ v <= ceil
    BY <1>3, <1>5, MinOfTwo
  <2> HIDE DEF v
  <2>2. Clamp(v, o) \in Nat /\ Clamp(v, o) <= ceil
    BY <1>1, <1>3, <2>1, ClampWithin
  <2>3. capped[b] = [bots[b] EXCEPT !.coin = Clamp(v, o)]
    BY DEF v
  <2> QED BY <1>5, <2>2, <2>3
<1> HIDE DEF capped
<1>7. CASE lose = {} \/ \E v \in lose : ceil <= v
  <2>1. after = capped
    BY <1>4, <1>7 DEF BelowWinners, capped, ceil
  <2> QED BY <1>2, <1>3, <1>6, <2>1 DEF after
<1>8. CASE ~(lose = {} \/ \E v \in lose : ceil <= v)
  <2>1. after[b] = IF b \notin TopBots(capped, o) THEN capped[b]
                   ELSE [capped[b] EXCEPT !.coin = Clamp(Min({Max({@, target}), ceil}), o), !.reached = Reached(capped[b], o)]
    BY <1>4, <1>8 DEF BelowWinners, capped, ceil
  <2>2. Max(lose) \in Nat
    BY <1>1, <1>8, GreatestOf
  <2>3. rng[b] \div 4 \in Int
    BY <1>5
  <2>4. target \in Int
    BY <2>2, <2>3
  <2> HIDE DEF target
  <2> DEFINE raised == Max({capped[b].coin, target})
             v == Min({raised, ceil})
  <2>5. v \in Int /\ v <= ceil
    <3>1. raised \in Int
      BY <1>6, <2>4, MaxOfTwo
    <3> HIDE DEF raised
    <3> QED BY <1>3, <3>1, MinOfTwo
  <2> HIDE DEF v
  <2>6. Clamp(v, o) <= ceil /\ Clamp(v, o) \in Nat
    BY <1>1, <1>3, <2>5, ClampWithin
  <2>7. after[b].coin = capped[b].coin \/ after[b].coin = Clamp(v, o)
    BY <1>6, <2>1 DEF v
  <2> QED BY <1>2, <1>3, <1>6, <2>6, <2>7 DEF after
<1> QED BY <1>7, <1>8

\* applyRoundWinControl, rankParticipants: a promised winner who has a coin, and is not out of
\* the game for want of the centre, ranks before every bot, whoever plays and whatever the
\* generator draws.
THEOREM WinnersLead ==
  ASSUME NEW rng, NEW humans, NEW bots, NEW o, Players(rng, humans, bots, o),
         NEW k \in Required(humans, o, "win"), humans[k].coin > 0, Eligible(humans[k], o.mode), NEW b \in DOMAIN bots
  PROVE  Standings(rng, humans, bots, o)[k].rank < Standings(rng, humans, bots, o)[b].rank
<1> DEFINE after == applyRoundWinControl(rng, humans, bots, o)
           all == [e \in DOMAIN humans \cup DOMAIN bots |-> IF e \in DOMAIN humans THEN humans[e] ELSE after[e]]
           in == {e \in DOMAIN all : Eligible(all[e], o.mode)}
           Above(e) == {l \in in : all[l].coin > all[e].coin}
           standings == Standings(rng, humans, bots, o)
<1>1. k \in DOMAIN humans /\ IsFiniteSet(DOMAIN humans) /\ IsFiniteSet(DOMAIN bots) /\ DOMAIN humans \cap DOMAIN bots = {}
  BY DEF Players, Required
<1>2. \A c \in DOMAIN bots : after[c].coin \in Nat /\ after[c].coin < humans[k].coin
  BY BotsHaveLess
<1>3. standings = rankParticipants(o.mode, all)
  BY DEF Standings
<1> HIDE DEF after, standings
<1>4. /\ DOMAIN all = DOMAIN humans \cup DOMAIN bots /\ all[k] = humans[k] /\ \A c \in DOMAIN bots : all[c] = after[c]
      /\ \A h \in DOMAIN humans : all[h] = humans[h]
  BY <1>1
<1> HIDE DEF all
<1>5. IsFiniteSet(DOMAIN all)
  BY <1>1, <1>4, FS_Union
<1>6. k \in in /\ k \in DOMAIN all /\ b \in DOMAIN all /\ in \in SUBSET DOMAIN all
  BY <1>1, <1>4
<1>7. IsFiniteSet(in) /\ Cardinality(in) \in Nat
  BY <1>5, <1>6, FS_Subset, FS_CardinalityType
<1>8. standings[k].rank = 1 + Cardinality(Above(k)) /\ (b \in in => standings[b].rank = 1 + Cardinality(Above(b)))
      /\ (b \notin in => standings[b].rank = Cardinality(DOMAIN all))
  BY <1>3, <1>6 DEF rankParticipants
<1>9. humans[k].coin \in Nat /\ \A e \in DOMAIN all : all[e].coin \in Nat
  BY <1>1, <1>2, <1>4 DEF Players
<1>10. Above(k) \in SUBSET (in \ {k})
  BY <1>4, <1>9
<1>11. IsFiniteSet(in \ {k}) /\ Cardinality(in \ {k}) = Cardinality(in) - 1
  BY <1>6, <1>7, FS_RemoveElement
<1>12. Cardinality(Above(k)) \in Nat /\ Cardinality(Above(k)) <= Cardinality(in) - 1
  <2> HIDE DEF Above, in
  <2> QED BY <1>10, <1>11, FS_Subset, FS_CardinalityType
<1>13. CASE b \notin in
  <2>1. in \in SUBSET (DOMAIN all \ {b})
    BY <1>6, <1>13
  <2> HIDE DEF Above, in
  <2>2. IsFiniteSet(DOMAIN all \ {b}) /\ Cardinality(DOMAIN all \ {b}) = Cardinality(DOMAIN all) - 1
    BY <1>5, <1>6, FS_RemoveElement
  <2>3. Cardinality(in) <= Cardinality(DOMAIN all) - 1 /\ Cardinality(DOMAIN all) \in Nat
    BY <1>5, <2>1, <2>2, FS_Subset, FS_CardinalityType
  <2>4. standings[k].rank = 1 + Cardinality(Above(k)) /\ standings[b].rank = Cardinality(DOMAIN all)
    BY <1>8, <1>13
  <2>5. 1 + Cardinality(Above(k)) < Cardinality(DOMAIN all)
    BY <1>7, <1>12, <2>3
  <2> QED BY <2>4, <2>5 DEF standings
<1>14. CASE b \in in
  <2>1. Above(k) \in SUBSET (Above(b) \ {k}) /\ k \in Above(b) /\ Above(b) \in SUBSET in
    <3>1. all[b].coin < all[k].coin /\ all[k].coin \in Nat
      BY <1>2, <1>4, <1>9
    <3>2. \A l \in in : all[l].coin \in Nat
      BY <1>6, <1>9
    <3>3. b \in in /\ all[b].coin \in Nat
      BY <1>9, <1>14
    <3> HIDE DEF in
    <3> QED BY <1>6, <3>1, <3>2, <3>3
  <2> HIDE DEF Above, in
  <2>2. IsFiniteSet(Above(b)) /\ Cardinality(Above(b)) \in Nat
    BY <1>7, <2>1, FS_Subset, FS_CardinalityType
  <2>3. IsFiniteSet(Above(b) \ {k}) /\ Cardinality(Above(b) \ {k}) = Cardinality(Above(b)) - 1
    BY <2>1, <2>2, FS_RemoveElement
  <2>4. Cardinality(Above(k)) <= Cardinality(Above(b)) - 1
    BY <2>1, <2>3, FS_Subset
  <2>5. standings[k].rank = 1 + Cardinality(Above(k)) /\ standings[b].rank = 1 + Cardinality(Above(b))
    BY <1>8, <1>14
  <2>6. 1 + Cardinality(Above(k)) < 1 + Cardinality(Above(b))
    BY <1>12, <2>2, <2>4
  <2> QED BY <2>5, <2>6 DEF standings
<1> QED BY <1>13, <1>14

\* Everybody ranks the bots by a place of its own.
LEMMA PlacesOfBots ==
  ASSUME NEW bots, IsFiniteSet(DOMAIN bots), \A b \in DOMAIN bots : bots[b].id \in Int /\ bots[b].coin \in Nat,
         \A b, c \in DOMAIN bots : bots[b].id = bots[c].id => b = c
  PROVE  /\ \A b \in DOMAIN bots : Place(bots, b) \in 0..(Cardinality(DOMAIN bots) - 1)
         /\ \A b, c \in DOMAIN bots : Place(bots, b) = Place(bots, c) => b = c
<1> DEFINE Ahead(b) == {c \in DOMAIN bots : bots[c].coin > bots[b].coin \/ (bots[c].coin = bots[b].coin /\ bots[c].id < bots[b].id)}
           N == Cardinality(DOMAIN bots)
<1>1. \A b \in DOMAIN bots : IsFiniteSet(Ahead(b)) /\ Cardinality(Ahead(b)) \in Nat /\ Place(bots, b) = Cardinality(Ahead(b))
  <2> TAKE b \in DOMAIN bots
  <2>1. Ahead(b) \in SUBSET DOMAIN bots
    OBVIOUS
  <2>2. Place(bots, b) = Cardinality(Ahead(b))
    BY DEF Place
  <2> HIDE DEF Ahead
  <2> QED BY <2>1, <2>2, FS_Subset, FS_CardinalityType
<1>2. N \in Nat
  BY FS_CardinalityType
<1>3. ASSUME NEW b \in DOMAIN bots PROVE Place(bots, b) \in 0..(N - 1)
  <2>1. Ahead(b) \in SUBSET DOMAIN bots /\ b \notin Ahead(b)
    OBVIOUS
  <2> HIDE DEF Ahead
  <2>2. Cardinality(Ahead(b)) <= N /\ (N = Cardinality(Ahead(b)) => DOMAIN bots = Ahead(b))
    BY <2>1, FS_Subset
  <2>3. Cardinality(Ahead(b)) # N
    BY <2>1, <2>2
  <2> QED BY <1>1, <1>2, <2>2, <2>3
<1>4. ASSUME NEW b \in DOMAIN bots, NEW c \in DOMAIN bots, c \in Ahead(b) PROVE Place(bots, c) < Place(bots, b)
  <2>1. Ahead(c) \in SUBSET Ahead(b) /\ c \notin Ahead(c)
    BY <1>4
  <2>2. IsFiniteSet(Ahead(b)) /\ Place(bots, b) = Cardinality(Ahead(b)) /\ Place(bots, c) = Cardinality(Ahead(c))
        /\ Place(bots, b) \in Nat /\ Place(bots, c) \in Nat
    BY <1>1
  <2> HIDE DEF Ahead
  <2>3. Cardinality(Ahead(c)) <= Cardinality(Ahead(b)) /\ (Cardinality(Ahead(b)) = Cardinality(Ahead(c)) => Ahead(b) = Ahead(c))
    BY <2>1, <2>2, FS_Subset
  <2> QED BY <1>4, <2>1, <2>2, <2>3
<1>5. ASSUME NEW b \in DOMAIN bots, NEW c \in DOMAIN bots, b # c PROVE b \in Ahead(c) \/ c \in Ahead(b)
  <2>1. /\ bots[b].id \in Int /\ bots[c].id \in Int /\ bots[b].coin \in Nat /\ bots[c].coin \in Nat
        /\ bots[b].id # bots[c].id
    BY <1>5
  <2> QED BY <2>1
<1>6. ASSUME NEW b \in DOMAIN bots, NEW c \in DOMAIN bots, Place(bots, b) = Place(bots, c) PROVE b = c
  <2>1. Place(bots, b) \in Nat /\ Place(bots, c) \in Nat
    BY <1>1
  <2> HIDE DEF Ahead
  <2> QED BY <1>4, <1>5, <1>6, <2>1
<1> QED BY <1>3, <1>6

\* As many bots are at the top as ranks pay, where there are that many.
LEMMA TopIsFull ==
  ASSUME NEW bots, NEW o, IsFiniteSet(DOMAIN bots), \A b \in DOMAIN bots : bots[b].id \in Int /\ bots[b].coin \in Nat,
         \A b, c \in DOMAIN bots : bots[b].id = bots[c].id => b = c,
         o.payingRanks \in Nat, o.payingRanks <= Cardinality(DOMAIN bots)
  PROVE  /\ SomeBot(bots, o) = o.payingRanks
         /\ IsFiniteSet(TopBots(bots, o)) /\ Cardinality(TopBots(bots, o)) >= o.payingRanks
<1> DEFINE n == o.payingRanks
           N == Cardinality(DOMAIN bots)
           below == DOMAIN bots \ TopBots(bots, o)
           f == [b \in below |-> Place(bots, b)]
<1>1. N \in Nat /\ n \in Nat /\ n <= N
  BY FS_CardinalityType
<1>2. SomeBot(bots, o) = n
  BY <1>1, MinOfTwo DEF SomeBot
<1>3. f \in Injection(below, n..(N - 1))
  <2>1. \A b \in below : Place(bots, b) \in n..(N - 1)
    <3> TAKE b \in below
    <3>1. Place(bots, b) \in 0..(N - 1) /\ ~(Place(bots, b) < n)
      BY <1>2, PlacesOfBots DEF TopBots
    <3> QED BY <1>1, <3>1
  <2>2. \A b, c \in below : Place(bots, b) = Place(bots, c) => b = c
    BY PlacesOfBots
  <2>3. IsInjective(f)
    BY <2>2 DEF IsInjective
  <2> QED BY <2>1, <2>3 DEF Injection
<1>4. IsFiniteSet(n..(N - 1)) /\ Cardinality(n..(N - 1)) = N - n
  <2> DEFINE m == N - 1
  <2>1. m \in Int /\ n \in Int
    BY <1>1
  <2> HIDE DEF m, n
  <2>2. IsFiniteSet(n..m) /\ Cardinality(n..m) = IF n > m THEN 0 ELSE m - n + 1
    BY <1>1, <2>1, FS_Interval
  <2> QED BY <1>1, <2>2 DEF m
<1>5. Cardinality(below) <= N - n /\ IsFiniteSet(below)
  <2> HIDE DEF f, below
  <2> QED BY <1>3, <1>4, FS_Injection
<1>6. IsFiniteSet(TopBots(bots, o)) /\ TopBots(bots, o) \in SUBSET DOMAIN bots
  BY FS_Subset DEF TopBots
<1>7. Cardinality(below) = N - Cardinality(TopBots(bots, o))
  <2>1. DOMAIN bots \cap TopBots(bots, o) = TopBots(bots, o)
    BY <1>6
  <2> QED BY <2>1, FS_Difference
<1>8. Cardinality(TopBots(bots, o)) \in Nat
  BY <1>6, FS_CardinalityType
<1> HIDE DEF below
<1> QED BY <1>1, <1>2, <1>5, <1>6, <1>7, <1>8

\* applyRoundWinControl, rankParticipants, computePrize: where nobody was promised a win and
\* there are as many bots as ranks that pay, no loser wins a prize, unless one has every coin.
THEOREM LosersWinNothing ==
  ASSUME NEW rng, NEW humans, NEW bots, NEW o, Players(rng, humans, bots, o),
         o.payingRanks <= Cardinality(DOMAIN bots), Required(humans, o, "win") = {},
         \A l \in Required(humans, o, "lose") : humans[l].coin < o.poolTotal,
         NEW mults, NEW stake, \A r \in DOMAIN mults : mults[r] > 0 => r \in Nat /\ r <= o.payingRanks,
         NEW k \in Required(humans, o, "lose")
  PROVE  computePrize(mults, stake, Standings(rng, humans, bots, o)[k]) = 0
<1> DEFINE lose == Coins(humans, Required(humans, o, "lose"))
           loseCeil == Max(lose)
           after == applyRoundWinControl(rng, humans, bots, o)
           top == TopBots(bots, o)
           all == [e \in DOMAIN humans \cup DOMAIN bots |-> IF e \in DOMAIN humans THEN humans[e] ELSE after[e]]
           in == {e \in DOMAIN all : Eligible(all[e], o.mode)}
           above == {e \in in : all[e].coin > all[k].coin}
<1>1. /\ k \in DOMAIN humans /\ IsFiniteSet(DOMAIN humans) /\ IsFiniteSet(DOMAIN bots)
      /\ DOMAIN humans \cap DOMAIN bots = {} /\ o.poolTotal \in Nat /\ o.payingRanks \in Nat
      /\ \A b \in DOMAIN bots : bots[b] \in [id : Int, coin : Nat, reached : BOOLEAN] /\ rng[b] \in Nat
      /\ \A b, c \in DOMAIN bots : bots[b].id = bots[c].id => b = c
      /\ \A h \in DOMAIN humans : humans[h].coin \in Nat
  BY DEF Players, Required
<1>2. loseCeil \in Nat /\ humans[k].coin <= loseCeil /\ loseCeil < o.poolTotal
  <2>1. /\ lose \in SUBSET Nat /\ IsFiniteSet(lose) /\ humans[k].coin \in lose
        /\ \A v \in lose : \E l \in Required(humans, o, "lose") : v = humans[l].coin
    <3>1. Required(humans, o, "lose") \in SUBSET DOMAIN humans
      BY DEF Required
    <3>2. lose \in SUBSET Nat /\ IsFiniteSet(lose) /\ humans[k].coin \in lose
      BY <1>1, <3>1, CoinsFinite
    <3> QED BY <3>2 DEF Coins
  <2> HIDE DEF lose
  <2>2. loseCeil \in lose /\ humans[k].coin <= loseCeil
    BY <2>1, GreatestOf
  <2> QED BY <2>1, <2>2
<1>3. after = AboveLosers(rng, bots, o, loseCeil)
  <2>1. Coins(humans, Required(humans, o, "win")) = {} /\ humans[k].coin \in lose /\ o.botsEnabled
    BY DEF Players, Coins
  <2> QED BY <2>1 DEF applyRoundWinControl
<1> HIDE DEF after, loseCeil
<1>4. /\ SomeBot(bots, o) = o.payingRanks
      /\ IsFiniteSet(top) /\ Cardinality(top) >= o.payingRanks /\ top \in SUBSET DOMAIN bots
  BY <1>1, TopIsFull DEF TopBots
<1>5. ASSUME NEW b \in top
      PROVE  after[b].coin \in Nat /\ after[b].coin > loseCeil /\ Eligible(after[b], o.mode)
  <2> DEFINE target == loseCeil + 1 + (SomeBot(bots, o) - Place(bots, b)) * 4 + rng[b] \div 3
             v == Max({bots[b].coin, target})
  <2>1. bots[b] \in [id : Int, coin : Nat, reached : BOOLEAN] /\ rng[b] \in Nat /\ b \in DOMAIN bots
    BY <1>1, <1>4
  <2>2. Place(bots, b) \in Nat /\ SomeBot(bots, o) - Place(bots, b) > 0
    <3>1. Place(bots, b) \in 0..(Cardinality(DOMAIN bots) - 1) /\ Place(bots, b) < SomeBot(bots, o)
      BY <1>1, <2>1, PlacesOfBots DEF TopBots
    <3>2. Cardinality(DOMAIN bots) \in Nat
      BY <1>1, FS_CardinalityType
    <3> QED BY <1>1, <1>4, <3>1, <3>2
  <2>3. rng[b] \div 3 \in Nat
    BY <2>1
  <2>4. target \in Int /\ target > loseCeil
    BY <1>1, <1>2, <1>4, <2>2, <2>3
  <2> HIDE DEF target
  <2>5. v \in Int /\ v > loseCeil
    BY <1>2, <2>1, <2>4, MaxOfTwo
  <2> HIDE DEF v
  <2>6. Clamp(v, o) \in Nat /\ Clamp(v, o) > loseCeil
    BY <1>1, <1>2, <2>5, ClampWithin
  <2>7. after[b] = [bots[b] EXCEPT !.coin = Clamp(v, o), !.reached = Reached(bots[b], o)]
    BY <1>3, <2>1 DEF AboveLosers, v, target
  <2> QED BY <2>1, <2>6, <2>7 DEF Eligible, Reached
<1>6. /\ DOMAIN all = DOMAIN humans \cup DOMAIN bots /\ all[k] = humans[k]
      /\ \A b \in DOMAIN bots : all[b] = after[b]
  BY <1>1
<1> HIDE DEF all
<1>7. IsFiniteSet(above) /\ Cardinality(above) \in Nat /\ Cardinality(above) >= o.payingRanks
  <2>1. top \in SUBSET above
    <3> SUFFICES ASSUME NEW b \in top PROVE b \in above
      OBVIOUS
    <3>1. b \in DOMAIN bots
      BY <1>4
    <3>2. all[b] = after[b] /\ b \in DOMAIN all
      BY <1>6, <3>1
    <3> QED BY <1>1, <1>2, <1>5, <1>6, <3>2
  <2>2. IsFiniteSet(above)
    <3>1. IsFiniteSet(DOMAIN humans \cup DOMAIN bots)
      BY <1>1, FS_Union
    <3>2. above \in SUBSET (DOMAIN humans \cup DOMAIN bots)
      BY <1>6
    <3> QED BY <3>1, <3>2, FS_Subset
  <2> HIDE DEF above
  <2>3. Cardinality(top) <= Cardinality(above) /\ Cardinality(above) \in Nat /\ Cardinality(top) \in Nat
    BY <1>4, <2>1, <2>2, FS_Subset, FS_CardinalityType
  <2> QED BY <1>1, <1>4, <2>2, <2>3
<1>8. Standings(rng, humans, bots, o) = rankParticipants(o.mode, all)
  BY DEF Standings, all, after
<1>9. CASE k \in in
  <2>1. Standings(rng, humans, bots, o)[k].rank = 1 + Cardinality(above)
    BY <1>8, <1>9 DEF rankParticipants
  <2> HIDE DEF above
  <2>2. ~(Standings(rng, humans, bots, o)[k].rank \in DOMAIN mults /\ mults[Standings(rng, humans, bots, o)[k].rank] > 0)
    BY <1>1, <1>7, <2>1
  <2> QED BY <2>2 DEF computePrize
<1>10. CASE k \notin in
  <2>1. ~Standings(rng, humans, bots, o)[k].eligible
    BY <1>1, <1>6, <1>8, <1>10 DEF rankParticipants
  <2> QED BY <2>1 DEF computePrize
<1> QED BY <1>9, <1>10

LEMMA SheetsArePlayers ==
  ASSUME NEW s \in Sheets
  PROVE  /\ Players(s.rng, s.humans, s.bots, s.o)
         /\ DOMAIN s.bots = SheetBots /\ s.o.payingRanks = 2 /\ Cardinality(DOMAIN s.bots) = 2
<1>1. PICK c \in [SheetBots -> {0, 3, 4}], x \in BOOLEAN : s.bots = TwoBots(c, [b \in SheetBots |-> x])
  <2>1. s.bots \in BotPlays
    BY DEF Sheets
  <2> QED BY <2>1 DEF BotPlays
<1>2. /\ DOMAIN s.bots = SheetBots
      /\ \A b \in SheetBots : s.bots[b] = [id |-> IF b = "b1" THEN 1 ELSE 2, coin |-> c[b], reached |-> x]
  BY <1>1 DEF TwoBots
<1>3. /\ s.humans \in [Humans -> Plays] /\ s.rng \in [SheetBots -> {0, 11}]
      /\ s.o.botsEnabled /\ s.o.poolTotal = 4 /\ s.o.payingRanks = 2
  BY DEF Sheets, SheetOptions
<1>4. /\ IsFiniteSet(Humans) /\ IsFiniteSet(SheetBots) /\ Cardinality(SheetBots) = 2
  <2>1. IsFiniteSet({"h1"}) /\ IsFiniteSet({"b1"}) /\ Cardinality({"b1"}) = 1
    BY FS_Singleton
  <2>2. IsFiniteSet({"h1"} \cup {"h2"})
    BY <2>1, FS_AddElement
  <2>3. IsFiniteSet({"b1"} \cup {"b2"}) /\ Cardinality({"b1"} \cup {"b2"}) = 2
    <3>1. IsFiniteSet({"b1"} \cup {"b2"}) /\ ("b2" \notin {"b1"} => Cardinality({"b1"} \cup {"b2"}) = Cardinality({"b1"}) + 1)
      BY <2>1, FS_AddElement
    <3> QED BY <2>1, <3>1
  <2>4. Humans = {"h1"} \cup {"h2"} /\ SheetBots = {"b1"} \cup {"b2"}
    BY DEF Humans, SheetBots
  <2> QED BY <2>2, <2>3, <2>4
<1>5. Humans \cap SheetBots = {}
  BY DEF Humans, SheetBots
<1>6. \A b \in SheetBots : s.bots[b] \in [id : Int, coin : Nat, reached : BOOLEAN] /\ s.rng[b] \in Nat
  <2> TAKE b \in SheetBots
  <2> DEFINE i == IF b = "b1" THEN 1 ELSE 2
  <2>1. c[b] \in Nat /\ s.rng[b] \in Nat /\ i \in Int
    BY <1>3
  <2>2. s.bots[b] = [id |-> i, coin |-> c[b], reached |-> x]
    BY <1>2
  <2> HIDE DEF i
  <2>3. [id |-> i, coin |-> c[b], reached |-> x] \in [id : Int, coin : Nat, reached : BOOLEAN]
    BY <2>1, Zenon
  <2> QED BY <2>1, <2>2, <2>3, Zenon
<1>7. \A b, d \in SheetBots : s.bots[b].id = s.bots[d].id => b = d
  BY <1>2 DEF SheetBots
<1>8. \A k \in Humans : s.humans[k] \in [coin : Nat, reached : BOOLEAN, games : Nat]
  BY <1>3 DEF Plays
<1> QED BY <1>2, <1>3, <1>4, <1>5, <1>6, <1>7, <1>8 DEF Players

\* A promised winner ranks before every bot, unless he has no coin or is out of a game that wants
\* the centre reached; where nobody was promised a win, losers are out of the ranks that pay,
\* unless one of them has every coin (applyRoundWinControl, rankParticipants, computePrize).
THEOREM ControlIsHeld == MCSpec => []ControlHolds
<1> DEFINE Scored == setup = "sheets" => sheet \in Sheets
<1>1. MCInit => Scored
  BY DEF MCInit
<1>2. Scored /\ [MCNext]_mcvars => Scored'
  BY DEF MCNext, mcvars
<1>3. Scored => ControlHolds
  <2> SUFFICES ASSUME sheet \in Sheets PROVE ControlHolds
    BY DEF ControlHolds
  <2>1. /\ Players(sheet.rng, sheet.humans, sheet.bots, sheet.o) /\ DOMAIN sheet.bots = SheetBots
        /\ sheet.o.payingRanks = 2 /\ Cardinality(DOMAIN sheet.bots) = 2
    BY SheetsArePlayers
  <2>2. ASSUME NEW k \in SheetRequired("win"), NEW b \in SheetBots, sheet.humans[k].coin > 0, Eligible(sheet.humans[k], sheet.o.mode)
        PROVE  SheetStandings[k].rank < SheetStandings[b].rank
    BY <2>1, <2>2, WinnersLead DEF SheetRequired, SheetStandings
  <2>3. ASSUME SheetRequired("win") = {}, \A l \in SheetRequired("lose") : sheet.humans[l].coin < sheet.o.poolTotal,
               NEW k \in SheetRequired("lose")
        PROVE  computePrize(<<300, 100>>, 10, SheetStandings[k]) = 0
    <3> DEFINE mults == <<300, 100>>
    <3>1. \A r \in DOMAIN mults : mults[r] > 0 => r \in Nat /\ r <= sheet.o.payingRanks
      BY <2>1
    <3> HIDE DEF mults
    <3>2. sheet.o.payingRanks <= Cardinality(DOMAIN sheet.bots)
      BY <2>1
    <3>3. computePrize(mults, 10, SheetStandings[k]) = 0
      BY <2>1, <2>3, <3>1, <3>2, LosersWinNothing DEF SheetRequired, SheetStandings
    <3> QED BY <3>3 DEF mults
  <2> QED BY <2>2, <2>3 DEF ControlHolds
<1> QED BY <1>1, <1>2, <1>3, PTL DEF MCSpec

=============================================================================
