---------------------------- MODULE WalletProofs ----------------------------
(***************************************************************************)
(* What holds of Wallet for all users, sessions, requests and scripts.     *)
(***************************************************************************)
EXTENDS MCWallet, SetSums, SequenceTheorems, TLAPS

\* Past the first read of a mutation, the step at hand is a movement.
HeadOK ==
  \A s \in Sessions : pc[s] \in {"insert", "lock", "apply", "complete"} =>
    todo[s] # <<>> /\ Head(todo[s]) \in Requests

Typed == TypeOK /\ HeadOK

\* A sequence of steps loses its first one and remains a sequence of steps.
LEMMA TailOfSteps ==
  ASSUME NEW q \in Seq(Steps), q # <<>>
  PROVE  Tail(q) \in Seq(Steps) /\ Head(q) \in Steps
BY SMT

\* A fresh limits row is a limits row.
LEMMA FreshRowType ==
  ASSUME NEW l \in [Windows -> Nat], NEW span \in [Windows -> Nat \ {0}], now \in Nat
  PROVE  FreshRow(l, span) \in WagerRows
BY SMT DEF FreshRow, WagerRows

\* The initial state is well typed.
LEMMA InitTyped == Init => Typed
<1> SUFFICES ASSUME Init PROVE Typed
  OBVIOUS
<1>1. wager \in [Users -> WagerRows \cup {NoRow}]
  <2>1. \A l \in Limits : FreshRow(l, UpsertSpan) \in WagerRows
    BY FreshRowType, WalletAssumption DEF Init
  <2> QED BY <2>1 DEF Init
<1>2. wallets \in [Users -> Wallets]
  BY DEF Init, Wallets, NoWallet
<1>3. snap \in [Sessions -> Snaps]
  BY DEF Init, NoSnap, Snaps
<1>4. /\ todo \in [Sessions -> Seq(Steps)] /\ alt \in [Sessions -> Seq(Steps)]
  BY DEF Init
<1> QED
  BY <1>1, <1>2, <1>3, <1>4, WalletAssumption DEF Init, Typed, TypeOK, HeadOK, Answers

\* The end of a transaction by rollback is well typed.
LEMMA RollbackTyped ==
  ASSUME Typed, NEW s \in Sessions, NEW answer \in Answers, Rollback(s, answer)
  PROVE  Typed'
<1> USE DEF Typed
<1>1. row' \in [Users -> Wallets] /\ wagerRow' \in [Users -> WagerRows \cup {NoRow}]
  BY DEF TypeOK, Rollback, RestoreRows
<1>2. /\ walletLock' \in [Users -> Sessions \cup {NoSession}]
      /\ statsLock' \in Sessions \cup {NoSession}
      /\ statsRow' \in [Kinds -> Nat]
  BY DEF TypeOK, Rollback, EndSession
<1>3. idem' \subseteq Records
  BY DEF TypeOK, Rollback
<1>4. /\ pc' = [pc EXCEPT ![s] = "idle"]
      /\ todo' = [todo EXCEPT ![s] = <<>>] /\ alt' = [alt EXCEPT ![s] = <<>>]
      /\ reply' = [reply EXCEPT ![s] = answer]
      /\ snap' = [snap EXCEPT ![s] = NoSnap]
      /\ UNCHANGED <<wallets, wager, edit, stats, now, begun, upserts>>
  BY DEF Rollback, EndSession, Goto, boundVars
<1>5. NoSnap \in Snaps
  BY DEF NoSnap, Snaps
<1>6. snap' \in [Sessions -> Snaps] /\ reply' \in [Sessions -> Answers]
  BY <1>4, <1>5 DEF TypeOK
<1>7. todo' \in [Sessions -> Seq(Steps)] /\ alt' \in [Sessions -> Seq(Steps)]
  BY <1>4 DEF TypeOK
<1>8. pc' \in [Sessions -> {"idle", "step", "insert", "lock", "apply", "complete"}]
  BY <1>4 DEF TypeOK
<1>9. TypeOK'
  BY <1>1, <1>2, <1>3, <1>4, <1>6, <1>7, <1>8 DEF TypeOK
<1>10. HeadOK'
  BY <1>4 DEF TypeOK, HeadOK
<1> QED BY <1>9, <1>10

\* A caught or uncaught ConflictException is well typed.
LEMMA ConflictTyped ==
  ASSUME Typed, NEW s \in Sessions, NEW answer \in Answers, Conflict(s, answer)
  PROVE  Typed'
<1>1. CASE alt[s] = <<>>
  BY <1>1, RollbackTyped DEF Conflict
<1>2. CASE alt[s] # <<>>
  <2>1. /\ todo' = [todo EXCEPT ![s] = alt[s]] /\ alt' = [alt EXCEPT ![s] = <<>>]
        /\ pc' = [pc EXCEPT ![s] = "step"]
        /\ UNCHANGED <<moneyVars, wagerVars, idem, statsVars, boundVars, snap, reply>>
    BY <1>2 DEF Conflict, Goto
  <2>2. todo' \in [Sessions -> Seq(Steps)] /\ alt' \in [Sessions -> Seq(Steps)]
    BY <2>1 DEF Typed, TypeOK
  <2>3. TypeOK'
    BY <2>1, <2>2 DEF Typed, TypeOK, moneyVars, wagerVars, statsVars, boundVars
  <2>4. HeadOK'
    BY <2>1 DEF Typed, TypeOK, HeadOK
  <2> QED BY <2>3, <2>4 DEF Typed
<1> QED BY <1>1, <1>2

\* The limits row a stake works on, and the one it leaves, are limits rows.
LEMMA WagerTyped ==
  ASSUME Typed, NEW s \in Sessions, NEW r \in Requests
  PROVE  /\ Wagered(s, r) \in WagerRows
         /\ WagerAfter(s, r) \in WagerRows \cup {NoRow}
<1> DEFINE u == r.user
<1>1. /\ u \in Users /\ r.amount \in Nat /\ now \in Nat
      /\ snap[s].wager[u] \in WagerRows \cup {NoRow}
      /\ wagerRow[u] \in WagerRows \cup {NoRow}
  BY WalletAssumption DEF Typed, TypeOK, Snaps
<1>2. Rolled(s, u) \in WagerRows
  <2> DEFINE base == IF snap[s].wager[u] = NoRow
                       THEN FreshRow([w \in Windows |-> 0], StakeSpan) ELSE snap[s].wager[u]
             due == {w \in Windows : now >= base.resetAt[w]}
  <2>1. base \in WagerRows
    BY <1>1, FreshRowType, WalletAssumption
  <2>2. [w \in Windows |-> IF w \in due THEN 0 ELSE base.cur[w]] \in [Windows -> Nat]
    BY <2>1 DEF WagerRows
  <2>3. [w \in Windows |-> IF w \in due THEN now + StakeSpan[w] ELSE base.resetAt[w]] \in [Windows -> Nat]
    <3>1. base.resetAt \in [Windows -> Nat]
      BY <2>1 DEF WagerRows
    <3>2. \A w \in Windows : StakeSpan[w] \in Nat /\ now + StakeSpan[w] \in Nat
      BY <1>1, WalletAssumption
    <3> HIDE DEF base
    <3> QED BY <3>1, <3>2
  <2> QED BY <2>1, <2>2, <2>3 DEF Rolled, WagerRows
<1>3. Wagered(s, r) \in WagerRows
  BY <1>1, <1>2 DEF Wagered, WagerRows
<1>4. \A f, g, h \in [Windows -> Nat] : Column(f, g, h) \in [Windows -> Nat]
  BY DEF Column, Saved
<1>5. CASE snap[s].wager[u] # NoRow /\ wagerRow[u] # NoRow
  BY <1>1, <1>3, <1>4, <1>5 DEF WagerAfter, WagerRows
<1> QED BY <1>1, <1>3, <1>5 DEF WagerAfter

\* An accepted mutation leaves a balance that is a natural number.
LEMMA BalanceTyped ==
  ASSUME Typed, NEW s \in Sessions, NEW r \in Requests, ~Short(r)
  PROVE  Balance(s, r) \in Nat
<1>1. row[r.user].avail \in Nat /\ r.amount \in Nat /\ r.dir \in {"debit", "credit"}
  BY WalletAssumption DEF Typed, TypeOK, Wallets
<1> QED BY <1>1 DEF Balance, Inc, Short

LEMMA ApplyTyped ==
  ASSUME Typed, NEW s \in Sessions, ApplyMutation(s)
  PROVE  Typed'
<1> DEFINE r == Head(todo[s])
           u == r.user
           balance == Balance(s, r)
           entry == [req |-> r, after |-> balance, at |-> now]
<1>1. r \in Requests /\ u \in Users /\ todo[s] # <<>> /\ pc[s] = "apply"
  BY WalletAssumption DEF ApplyMutation, Typed, HeadOK
<1>2. CASE Conflict(s, "limit") \/ Conflict(s, "short") \/ Rollback(s, "duplicate row")
  BY <1>2, ConflictTyped, RollbackTyped DEF Answers
<1>3. CASE
      /\ ~Short(r)
      /\ row' = [row EXCEPT ![u] = WalletAfter(row[u], entry, snap[s].avail[u])]
      /\ wagerRow' = IF r.entry = "stake" THEN [wagerRow EXCEPT ![u] = WagerAfter(s, r)] ELSE wagerRow
      /\ snap' = [snap EXCEPT ![s] = SnapAfter(s, r)]
      /\ Goto(s, "complete")
      /\ UNCHANGED <<wallets, walletLock, wager, edit, idem, statsVars, boundVars, todo, alt, reply>>
  <2>1. balance \in Nat
    BY <1>1, <1>3, BalanceTyped
  <2>2. row' \in [Users -> Wallets]
    <3>1. entry \in Entries
      BY <1>1, <2>1 DEF Entries, Typed, TypeOK
    <3>2. Saved(balance, snap[s].avail[u], row[u].avail) \in Nat
      BY <1>1, <2>1 DEF Saved, Typed, TypeOK, Wallets
    <3>3. CreateEntry(row[u].ledger, entry) \in Seq(Entries)
      BY <1>1, <3>1 DEF CreateEntry, Typed, TypeOK, Wallets
    <3>4. row[u] \in Wallets /\ row \in [Users -> Wallets]
      BY <1>1 DEF Typed, TypeOK
    <3>5. WalletAfter(row[u], entry, snap[s].avail[u]) \in Wallets
      BY <3>2, <3>3, <3>4 DEF WalletAfter, Wallets
    <3> QED BY <1>3, <3>4, <3>5
  <2>3. wagerRow' \in [Users -> WagerRows \cup {NoRow}]
    BY <1>1, <1>3, WagerTyped DEF Typed, TypeOK
  <2>4. snap' \in [Sessions -> Snaps]
    <3>1. snap[s] \in Snaps /\ snap \in [Sessions -> Snaps]
      BY DEF Typed, TypeOK
    <3>2. SnapAfter(s, r) \in Snaps
      BY <1>1, <2>1, <3>1, WagerTyped DEF SnapAfter, Snaps
    <3> QED BY <1>3, <3>1, <3>2
  <2>5. TypeOK'
    BY <1>3, <2>2, <2>3, <2>4 DEF Typed, TypeOK, Goto, statsVars, boundVars
  <2>6. HeadOK'
    BY <1>1, <1>3 DEF Typed, TypeOK, HeadOK, Goto
  <2> QED BY <2>5, <2>6 DEF Typed
<1> QED BY <1>2, <1>3 DEF ApplyMutation

LEMMA CompleteTyped ==
  ASSUME Typed, NEW s \in Sessions, Complete(s)
  PROVE  Typed'
<1> DEFINE r == Head(todo[s])
<1>1. r \in Requests /\ todo[s] # <<>> /\ r.amount \in Nat
  BY WalletAssumption DEF Complete, Typed, HeadOK
<1>2. idem' \subseteq Records
  <2>1. \A q \in Records : [q EXCEPT !.status = "completed"] \in Records
    BY DEF Records
  <2> QED BY <2>1 DEF Complete, Typed, TypeOK
<1>3. statsRow' \in [Kinds -> Nat] /\ statsLock' \in Sessions \cup {NoSession}
  BY <1>1 DEF Complete, StatsAfter, Typed, TypeOK
<1>4. todo' \in [Sessions -> Seq(Steps)]
  BY <1>1, TailOfSteps DEF Complete, Typed, TypeOK
<1>5. TypeOK'
  BY <1>2, <1>3, <1>4 DEF Complete, Typed, TypeOK, Goto, moneyVars, wagerVars, boundVars
<1>6. HeadOK'
  BY <1>1 DEF Complete, Typed, TypeOK, HeadOK, Goto
<1> QED BY <1>5, <1>6 DEF Typed

LEMMA CommitTyped ==
  ASSUME Typed, NEW s \in Sessions, Commit(s)
  PROVE  Typed'
<1>1. /\ wallets' \in [Users -> Wallets] /\ wager' \in [Users -> WagerRows \cup {NoRow}]
      /\ stats' \in [Kinds -> Nat] /\ walletLock' \in [Users -> Sessions \cup {NoSession}]
      /\ statsLock' \in Sessions \cup {NoSession}
  BY DEF Commit, EndSession, Typed, TypeOK
<1>2. idem' \subseteq Records
  <2>1. \A q \in Records : [q EXCEPT !.by = NoSession] \in Records
    BY DEF Records
  <2> QED BY <2>1 DEF Commit, Typed, TypeOK
<1>3. /\ pc' = [pc EXCEPT ![s] = "idle"]
      /\ todo' = [todo EXCEPT ![s] = <<>>] /\ alt' = [alt EXCEPT ![s] = <<>>]
      /\ reply' = [reply EXCEPT ![s] = "done"] /\ snap' = [snap EXCEPT ![s] = NoSnap]
      /\ UNCHANGED <<row, wagerRow, edit, statsRow, now, begun, upserts>>
  BY DEF Commit, EndSession, Goto, boundVars
<1>4. snap' \in [Sessions -> Snaps] /\ reply' \in [Sessions -> Answers]
  BY <1>3 DEF Typed, TypeOK, NoSnap, Snaps, Answers
<1>5. /\ todo' \in [Sessions -> Seq(Steps)] /\ alt' \in [Sessions -> Seq(Steps)]
      /\ pc' \in [Sessions -> {"idle", "step", "insert", "lock", "apply", "complete"}]
  BY <1>3 DEF Typed, TypeOK
<1>6. TypeOK'
  BY <1>1, <1>2, <1>3, <1>4, <1>5 DEF Typed, TypeOK
<1>7. HeadOK'
  BY <1>3 DEF Typed, TypeOK, HeadOK
<1> QED BY <1>6, <1>7 DEF Typed

LEMMA BeginTyped ==
  ASSUME Typed, NEW s \in Sessions, NEW script \in Scripts, Begin(s, script)
  PROVE  Typed'
<1>1. script.main \in Seq(Steps) /\ script.alt \in Seq(Steps)
  BY WalletAssumption
<1>2. snap' \in [Sessions -> Snaps]
  <2>1. \A u \in Users : wallets[u].open \in BOOLEAN /\ wallets[u].avail \in Nat
    BY DEF Typed, TypeOK, Wallets
  <2>2. [idem |-> {q \in idem : q.by = NoSession}, open |-> [u \in Users |-> wallets[u].open],
         avail |-> [u \in Users |-> wallets[u].avail], wager |-> wager] \in Snaps
    BY <2>1 DEF Typed, TypeOK, Snaps
  <2> QED BY <2>2 DEF Begin, Typed, TypeOK
<1>3. begun' \in 0..MaxTx
  BY WalletAssumption DEF Begin, Typed, TypeOK
<1>4. TypeOK'
  BY <1>1, <1>2, <1>3 DEF Begin, Typed, TypeOK, Goto, Answers, moneyVars, wagerVars, statsVars
<1>5. HeadOK'
  BY DEF Begin, Typed, TypeOK, HeadOK, Goto
<1> QED BY <1>4, <1>5 DEF Typed

LEMMA EnsureTyped ==
  ASSUME Typed, NEW s \in Sessions, EnsureDefaultWallet(s)
  PROVE  Typed'
<1> DEFINE u == Head(todo[s]).ensure
<1>1. todo[s] # <<>> /\ u \in Users /\ pc[s] = "step"
  BY DEF EnsureDefaultWallet, EnsureSteps
<1>2. Tail(todo[s]) \in Seq(Steps)
  BY <1>1, TailOfSteps DEF Typed, TypeOK
<1>3. CASE /\ todo' = [todo EXCEPT ![s] = Tail(@)]
           /\ UNCHANGED <<moneyVars, wagerVars, idem, statsVars, boundVars, pc, alt, snap, reply>>
  <2>1. TypeOK'
    BY <1>2, <1>3 DEF Typed, TypeOK, moneyVars, wagerVars, statsVars, boundVars
  <2>2. HeadOK'
    BY <1>1, <1>3 DEF Typed, TypeOK, HeadOK
  <2> QED BY <2>1, <2>2 DEF Typed
<1>4. CASE /\ row' = [row EXCEPT ![u] = NewWallet]
           /\ walletLock' = [walletLock EXCEPT ![u] = s]
           /\ snap' = [snap EXCEPT ![s].open[u] = TRUE]
           /\ todo' = [todo EXCEPT ![s] = Tail(@)]
           /\ UNCHANGED <<wallets, wagerVars, idem, statsVars, boundVars, pc, alt, reply>>
  <2>1. row' \in [Users -> Wallets]
    BY <1>1, <1>4 DEF Typed, TypeOK, NewWallet, Wallets
  <2>2. snap' \in [Sessions -> Snaps]
    BY <1>1, <1>4 DEF Typed, TypeOK, Snaps
  <2>3. TypeOK'
    BY <1>1, <1>2, <1>4, <2>1, <2>2 DEF Typed, TypeOK, wagerVars, statsVars, boundVars
  <2>4. HeadOK'
    BY <1>1, <1>4 DEF Typed, TypeOK, HeadOK
  <2> QED BY <2>3, <2>4 DEF Typed
<1>5. CASE Rollback(s, "duplicate wallet")
  BY <1>5, RollbackTyped DEF Answers
<1> QED BY <1>3, <1>4, <1>5 DEF EnsureDefaultWallet

LEMMA FindTyped ==
  ASSUME Typed, NEW s \in Sessions, FindRecord(s)
  PROVE  Typed'
<1>1. todo[s] # <<>> /\ Head(todo[s]) \in Requests /\ pc[s] = "step"
  BY DEF FindRecord
<1>2. Tail(todo[s]) \in Seq(Steps)
  BY <1>1, TailOfSteps DEF Typed, TypeOK
<1>3. CASE /\ Goto(s, "insert")
           /\ UNCHANGED <<moneyVars, wagerVars, idem, statsVars, boundVars, todo, alt, snap, reply>>
  <2>1. TypeOK'
    BY <1>3 DEF Typed, TypeOK, Goto, moneyVars, wagerVars, statsVars, boundVars
  <2>2. HeadOK'
    BY <1>1, <1>3 DEF Typed, TypeOK, HeadOK, Goto
  <2> QED BY <2>1, <2>2 DEF Typed
<1>4. CASE Conflict(s, "mismatch") \/ Conflict(s, "in progress")
  BY <1>4, ConflictTyped DEF Answers
<1>5. CASE /\ todo' = [todo EXCEPT ![s] = Tail(@)]
           /\ UNCHANGED <<moneyVars, wagerVars, idem, statsVars, boundVars, pc, alt, snap, reply>>
  <2>1. TypeOK'
    BY <1>2, <1>5 DEF Typed, TypeOK, moneyVars, wagerVars, statsVars, boundVars
  <2>2. HeadOK'
    BY <1>1, <1>5 DEF Typed, TypeOK, HeadOK
  <2> QED BY <2>1, <2>2 DEF Typed
<1> QED BY <1>3, <1>4, <1>5 DEF FindRecord

LEMMA InsertTyped ==
  ASSUME Typed, NEW s \in Sessions, InsertRecord(s)
  PROVE  Typed'
<1> DEFINE r == Head(todo[s])
<1>1. r \in Requests /\ todo[s] # <<>>
  BY DEF InsertRecord, Typed, HeadOK
<1>2. CASE /\ idem' = idem \cup {NewRecord(s, r)}
           /\ Goto(s, "lock")
           /\ UNCHANGED <<moneyVars, wagerVars, statsVars, boundVars, todo, alt, snap, reply>>
  <2>1. idem' \subseteq Records
    BY <1>1, <1>2 DEF NewRecord, Typed, TypeOK, Records
  <2>2. TypeOK'
    BY <1>2, <2>1 DEF Typed, TypeOK, Goto, moneyVars, wagerVars, statsVars, boundVars
  <2>3. HeadOK'
    BY <1>1, <1>2 DEF Typed, TypeOK, HeadOK, Goto
  <2> QED BY <2>2, <2>3 DEF Typed
<1>3. CASE Rollback(s, "duplicate record")
  BY <1>3, RollbackTyped DEF Answers
<1> QED BY <1>2, <1>3 DEF InsertRecord

LEMMA LockTyped ==
  ASSUME Typed, NEW s \in Sessions, LockWallet(s)
  PROVE  Typed'
<1> DEFINE u == Head(todo[s]).user
<1>1. Head(todo[s]) \in Requests /\ todo[s] # <<>> /\ u \in Users
  BY WalletAssumption DEF LockWallet, Typed, HeadOK
<1>2. CASE /\ walletLock' = [walletLock EXCEPT ![u] = s]
           /\ Goto(s, "apply")
           /\ UNCHANGED <<wallets, row, wagerVars, idem, statsVars, boundVars, todo, alt, snap, reply>>
  <2>1. TypeOK'
    BY <1>1, <1>2 DEF Typed, TypeOK, Goto, wagerVars, statsVars, boundVars
  <2>2. HeadOK'
    BY <1>1, <1>2 DEF Typed, TypeOK, HeadOK, Goto
  <2> QED BY <2>1, <2>2 DEF Typed
<1>3. CASE Rollback(s, "not found")
  BY <1>3, RollbackTyped DEF Answers
<1> QED BY <1>2, <1>3 DEF LockWallet

\* The wager limit edits and the clock.
LEMMA OthersTyped ==
  ASSUME Typed,
         \/ \E u \in Users : \/ ReadWagerLimit(u) \/ DeleteWagerLimit(u)
                             \/ \E l \in Limits : SaveWagerLimit(u, l)
         \/ Tick
  PROVE  Typed'
<1>1. ASSUME NEW u \in Users, ReadWagerLimit(u) PROVE Typed'
  <2>1. edit' \in [Users -> {NoEdit} \cup [seen : WagerRows \cup {NoRow}]] /\ upserts' \in 0..MaxUpserts
    BY <1>1, WalletAssumption DEF ReadWagerLimit, Typed, TypeOK
  <2> QED BY <1>1, <2>1 DEF ReadWagerLimit, Typed, TypeOK, HeadOK, moneyVars, statsVars, sessionVars
<1>2. ASSUME NEW u \in Users, DeleteWagerLimit(u) PROVE Typed'
  <2>1. upserts' \in 0..MaxUpserts
    BY <1>2, WalletAssumption DEF DeleteWagerLimit, Typed, TypeOK
  <2> QED BY <1>2, <2>1 DEF DeleteWagerLimit, Typed, TypeOK, HeadOK, moneyVars, statsVars, sessionVars
<1>3. ASSUME NEW u \in Users, NEW l \in Limits, SaveWagerLimit(u, l) PROVE Typed'
  <2> DEFINE seen == edit[u].seen
             saved == IF seen = NoRow
                        THEN IF wager[u] = NoRow THEN FreshRow(l, UpsertSpan) ELSE wager[u]
                        ELSE [seen EXCEPT !.limit = l]
  <2>1. saved \in WagerRows \cup {NoRow}
    <3>1. seen \in WagerRows \cup {NoRow} /\ wager[u] \in WagerRows \cup {NoRow} /\ now \in Nat
      BY <1>3 DEF SaveWagerLimit, Typed, TypeOK
    <3>2. FreshRow(l, UpsertSpan) \in WagerRows
      BY <3>1, FreshRowType, WalletAssumption
    <3>3. seen \in WagerRows => [seen EXCEPT !.limit = l] \in WagerRows
      BY WalletAssumption DEF WagerRows
    <3> QED BY <3>1, <3>2, <3>3
  <2>2. wager' = [wager EXCEPT ![u] = saved] /\ wagerRow' = [wagerRow EXCEPT ![u] = saved]
    BY <1>3 DEF SaveWagerLimit
  <2> HIDE DEF saved
  <2>3. /\ wager' \in [Users -> WagerRows \cup {NoRow}] /\ wagerRow' \in [Users -> WagerRows \cup {NoRow}]
    BY <2>1, <2>2 DEF Typed, TypeOK
  <2>4. edit' \in [Users -> {NoEdit} \cup [seen : WagerRows \cup {NoRow}]]
    BY <1>3 DEF SaveWagerLimit, Typed, TypeOK
  <2> QED BY <1>3, <2>3, <2>4 DEF SaveWagerLimit, Typed, TypeOK, HeadOK, moneyVars, statsVars, boundVars, sessionVars
<1>4. ASSUME Tick PROVE Typed'
  <2>1. now' \in 0..MaxNow
    BY <1>4, WalletAssumption DEF Tick, Typed, TypeOK
  <2> QED BY <1>4, <2>1 DEF Tick, Typed, TypeOK, HeadOK, moneyVars, wagerVars, statsVars, sessionVars
<1> QED BY <1>1, <1>2, <1>3, <1>4

LEMMA NextTyped == Typed /\ [Next]_vars => Typed'
<1> SUFFICES ASSUME Typed, [Next]_vars PROVE Typed'
  OBVIOUS
<1>1. ASSUME NEW s \in Sessions, Progress(s) PROVE Typed'
  BY <1>1, EnsureTyped, FindTyped, InsertTyped, LockTyped, ApplyTyped, CompleteTyped, CommitTyped,
     RollbackTyped DEF Progress, LockWaitAbort, Answers
<1>2. ASSUME NEW s \in Sessions, Crash(s) PROVE Typed'
  BY <1>2, RollbackTyped DEF Crash, Answers
<1>3. CASE UNCHANGED vars
  BY <1>3 DEF vars, moneyVars, wagerVars, statsVars, boundVars, sessionVars, Typed, TypeOK, HeadOK
<1> QED BY <1>1, <1>2, <1>3, BeginTyped, OthersTyped DEF Next

\* Type correctness: balances and recorded balances are natural numbers (no wallet
\* is ever overdrawn), whatever the requests and however they interleave.
THEOREM TypeCorrect == Spec => []TypeOK
<1>1. Typed => TypeOK
  BY DEF Typed
<1> QED BY <1>1, InitTyped, NextTyped, PTL DEF Spec

-----------------------------------------------------------------------------
(***************************************************************************)
(* The ledger.  Committed and newest version of each wallet are followed   *)
(* together: the committed ledger is the beginning of the newest one, and  *)
(* a wallet that does not exist has no entries.                            *)
(***************************************************************************)
Begins(p, q) == Len(p) <= Len(q) /\ \A i \in DOMAIN p : q[i] = p[i]

CommittedFirst == \A u \in Users : Begins(wallets[u].ledger, row[u].ledger)
EmptyUnlessOpen == \A u \in Users : /\ ~wallets[u].open => wallets[u].ledger = <<>>
                                    /\ ~row[u].open => row[u].ledger = <<>>
LockedInApply == \A s \in Sessions : pc[s] = "apply" =>
                   walletLock[Head(todo[s]).user] = s /\ row[Head(todo[s]).user].open

LedgerInv == CommittedFirst /\ EmptyUnlessOpen /\ LockedInApply

\* An entry added at the end keeps what was there.
LEMMA AppendBegins ==
  ASSUME NEW p \in Seq(Entries), NEW q \in Seq(Entries), NEW e \in Entries, Begins(p, q)
  PROVE  Begins(p, CreateEntry(q, e))
<1>1. /\ Len(p) <= Len(q) /\ Len(p) \in Nat /\ Len(q) \in Nat
      /\ Append(q, e) \in Seq(Entries) /\ Len(Append(q, e)) = Len(q) + 1
      /\ DOMAIN p = 1..Len(p)
  BY DEF Begins
<1>2. \A i \in 1..Len(q) : Append(q, e)[i] = q[i]
  OBVIOUS
<1> QED BY <1>1, <1>2 DEF Begins, CreateEntry

LEMMA RollbackLedger ==
  ASSUME Typed, LedgerInv, NEW s \in Sessions, NEW answer, Rollback(s, answer)
  PROVE  LedgerInv' /\ wallets' = wallets
<1>1. /\ row' = [u \in Users |-> IF walletLock[u] = s THEN wallets[u] ELSE row[u]]
      /\ walletLock' = [u \in Users |-> IF walletLock[u] = s THEN NoSession ELSE walletLock[u]]
      /\ pc' = [pc EXCEPT ![s] = "idle"] /\ todo' = [todo EXCEPT ![s] = <<>>]
      /\ wallets' = wallets
  BY DEF Rollback, RestoreRows, EndSession, Goto
<1>2. \A u \in Users : wallets[u] \in Wallets /\ row[u] \in Wallets
  BY DEF Typed, TypeOK
<1>3. \A u \in Users : Begins(wallets[u].ledger, wallets[u].ledger)
  BY <1>2 DEF Begins, Wallets
<1>4. ASSUME NEW t \in Sessions, pc'[t] = "apply"
      PROVE  walletLock'[Head(todo'[t]).user] = t /\ row'[Head(todo'[t]).user].open
  <2>1. t # s /\ pc[t] = "apply" /\ todo'[t] = todo[t] /\ Head(todo[t]).user \in Users
    BY <1>1, <1>4, WalletAssumption DEF Typed, TypeOK, HeadOK
  <2> QED BY <1>1, <2>1 DEF LedgerInv, CommittedFirst, EmptyUnlessOpen, LockedInApply
<1> QED BY <1>1, <1>3, <1>4 DEF LedgerInv, CommittedFirst, EmptyUnlessOpen, LockedInApply

LEMMA ConflictLedger ==
  ASSUME Typed, LedgerInv, NEW s \in Sessions, NEW answer, Conflict(s, answer)
  PROVE  LedgerInv' /\ wallets' = wallets
<1>1. CASE alt[s] = <<>>
  BY <1>1, RollbackLedger DEF Conflict
<1>2. CASE alt[s] # <<>>
  <2>1. /\ todo' = [todo EXCEPT ![s] = alt[s]] /\ pc' = [pc EXCEPT ![s] = "step"]
        /\ UNCHANGED <<wallets, row, walletLock>>
    BY <1>2 DEF Conflict, Goto, moneyVars
  <2> QED BY <2>1 DEF LedgerInv, CommittedFirst, EmptyUnlessOpen, LockedInApply, Typed, TypeOK
<1> QED BY <1>1, <1>2

\* A step that leaves every wallet, every lock and the sessions in "apply" alone.
LEMMA QuietLedger ==
  ASSUME LedgerInv, UNCHANGED <<wallets, row, walletLock>>,
         \A t \in Sessions : pc'[t] = "apply" => pc[t] = "apply" /\ todo'[t] = todo[t]
  PROVE  LedgerInv'
BY DEF LedgerInv, CommittedFirst, EmptyUnlessOpen, LockedInApply

LEMMA ApplyLedger ==
  ASSUME Typed, LedgerInv, NEW s \in Sessions, ApplyMutation(s)
  PROVE  LedgerInv' /\ wallets' = wallets
<1> DEFINE r == Head(todo[s])
           u == r.user
           entry == [req |-> r, after |-> Balance(s, r), at |-> now]
<1>1. r \in Requests /\ u \in Users /\ pc[s] = "apply"
  BY WalletAssumption DEF ApplyMutation, Typed, HeadOK
<1>2. CASE Conflict(s, "limit") \/ Conflict(s, "short") \/ Rollback(s, "duplicate row")
  BY <1>2, ConflictLedger, RollbackLedger
<1>3. CASE
      /\ ~Short(r)
      /\ row' = [row EXCEPT ![u] = WalletAfter(row[u], entry, snap[s].avail[u])]
      /\ Goto(s, "complete")
      /\ UNCHANGED <<wallets, walletLock, todo>>
  <2>1. row[u] \in Wallets /\ wallets[u] \in Wallets /\ entry \in Entries
    BY <1>1, <1>3, BalanceTyped DEF Typed, TypeOK, Entries
  <2>2. /\ row'[u].ledger = CreateEntry(row[u].ledger, entry) /\ row'[u].open = row[u].open
        /\ \A v \in Users \ {u} : row'[v] = row[v]
    BY <1>1, <1>3, <2>1 DEF WalletAfter, Wallets, Typed, TypeOK
  <2>3. Begins(wallets[u].ledger, row'[u].ledger)
    BY <1>1, <2>1, <2>2, AppendBegins DEF LedgerInv, CommittedFirst, EmptyUnlessOpen, LockedInApply, Wallets
  <2>4. row[u].open
    BY <1>1 DEF LedgerInv, CommittedFirst, EmptyUnlessOpen, LockedInApply
  <2>5. \A t \in Sessions : pc'[t] = "apply" => pc[t] = "apply" /\ t # s
    BY <1>3 DEF Goto, Typed, TypeOK
  <2>6. \A t \in Sessions : pc[t] = "apply" => Head(todo[t]).user \in Users
    BY WalletAssumption DEF Typed, HeadOK
  <2>7. \A v \in Users : /\ Begins(wallets'[v].ledger, row'[v].ledger)
                         /\ ~wallets'[v].open => wallets'[v].ledger = <<>>
                         /\ ~row'[v].open => row'[v].ledger = <<>>
    BY <1>3, <2>2, <2>3, <2>4 DEF LedgerInv, CommittedFirst, EmptyUnlessOpen, LockedInApply
  <2>8. \A t \in Sessions : pc'[t] = "apply" =>
          walletLock'[Head(todo'[t]).user] = t /\ row'[Head(todo'[t]).user].open
    <3> SUFFICES ASSUME NEW t \in Sessions, pc'[t] = "apply"
                 PROVE  walletLock'[Head(todo'[t]).user] = t /\ row'[Head(todo'[t]).user].open
      OBVIOUS
    <3>1. /\ Head(todo[t]).user \in Users /\ todo'[t] = todo[t]
          /\ walletLock[Head(todo[t]).user] = t /\ row[Head(todo[t]).user].open
      BY <1>3, <2>5, <2>6 DEF LedgerInv, CommittedFirst, EmptyUnlessOpen, LockedInApply
    <3>2. \A v \in Users : row[v].open => row'[v].open
      BY <2>2
    <3> QED BY <1>3, <3>1, <3>2
  <2>9. LedgerInv'
    <3>1. CommittedFirst'
      BY <2>7 DEF CommittedFirst, Begins
    <3>2. EmptyUnlessOpen'
      BY <2>7 DEF EmptyUnlessOpen
    <3>3. LockedInApply'
      BY <2>8 DEF LockedInApply
    <3> QED BY <3>1, <3>2, <3>3 DEF LedgerInv
  <2>10. wallets' = wallets
    BY <1>3
  <2> QED BY <2>9, <2>10
<1> QED BY <1>2, <1>3 DEF ApplyMutation

LEMMA EnsureLedger ==
  ASSUME Typed, LedgerInv, NEW s \in Sessions, EnsureDefaultWallet(s)
  PROVE  LedgerInv' /\ wallets' = wallets
<1> DEFINE u == Head(todo[s]).ensure
<1>1. u \in Users /\ pc[s] = "step"
  BY DEF EnsureDefaultWallet, EnsureSteps
<1>2. CASE /\ todo' = [todo EXCEPT ![s] = Tail(@)] /\ pc' = pc
           /\ UNCHANGED <<wallets, row, walletLock>>
  BY <1>1, <1>2, QuietLedger DEF Typed, TypeOK
<1>3. CASE /\ walletLock[u] = NoSession /\ ~wallets[u].open
           /\ row' = [row EXCEPT ![u] = NewWallet]
           /\ walletLock' = [walletLock EXCEPT ![u] = s]
           /\ todo' = [todo EXCEPT ![s] = Tail(@)]
           /\ UNCHANGED <<wallets, pc>>
  <2>1. wallets[u].ledger = <<>>
    BY <1>1, <1>3 DEF LedgerInv, CommittedFirst, EmptyUnlessOpen, LockedInApply
  <2>2. /\ row'[u].open /\ row'[u].ledger = <<>> /\ \A v \in Users \ {u} : row'[v] = row[v]
    BY <1>1, <1>3 DEF NewWallet, Typed, TypeOK
  <2>3. Begins(wallets[u].ledger, row'[u].ledger)
    BY <2>1, <2>2 DEF Begins
  <2>4. ASSUME NEW t \in Sessions, pc'[t] = "apply"
        PROVE  walletLock'[Head(todo'[t]).user] = t /\ row'[Head(todo'[t]).user].open
    <3>1. pc[t] = "apply" /\ t # s /\ todo'[t] = todo[t] /\ Head(todo[t]).user \in Users
      BY <1>1, <1>3, <2>4, WalletAssumption DEF Typed, TypeOK, HeadOK
    <3>2. walletLock[Head(todo[t]).user] = t /\ row[Head(todo[t]).user].open
      BY <3>1 DEF LedgerInv, CommittedFirst, EmptyUnlessOpen, LockedInApply
    <3>3. Head(todo[t]).user # u
      BY <1>3, <3>2, WalletAssumption
    <3>4. \A v \in Users \ {u} : walletLock'[v] = walletLock[v]
      BY <1>3 DEF Typed, TypeOK
    <3> QED BY <2>2, <3>1, <3>2, <3>3, <3>4
  <2>5. \A v \in Users : /\ Begins(wallets'[v].ledger, row'[v].ledger)
                         /\ ~wallets'[v].open => wallets'[v].ledger = <<>>
                         /\ ~row'[v].open => row'[v].ledger = <<>>
    BY <1>3, <2>2, <2>3 DEF LedgerInv, CommittedFirst, EmptyUnlessOpen, LockedInApply
  <2>6. LedgerInv'
    <3>1. CommittedFirst'
      BY <2>5 DEF CommittedFirst, Begins
    <3>2. EmptyUnlessOpen'
      BY <2>5 DEF EmptyUnlessOpen
    <3>3. LockedInApply'
      BY <2>4 DEF LockedInApply
    <3> QED BY <3>1, <3>2, <3>3 DEF LedgerInv
  <2>7. wallets' = wallets
    BY <1>3
  <2> QED BY <2>6, <2>7
<1>4. CASE Rollback(s, "duplicate wallet")
  BY <1>4, RollbackLedger
<1> QED BY <1>2, <1>3, <1>4 DEF EnsureDefaultWallet, moneyVars

LEMMA LockLedger ==
  ASSUME Typed, LedgerInv, NEW s \in Sessions, LockWallet(s)
  PROVE  LedgerInv' /\ wallets' = wallets
<1> DEFINE u == Head(todo[s]).user
<1>1. u \in Users
  BY WalletAssumption DEF LockWallet, Typed, HeadOK
<1>2. CASE /\ walletLock[u] \in {NoSession, s} /\ row[u].open
           /\ walletLock' = [walletLock EXCEPT ![u] = s]
           /\ Goto(s, "apply")
           /\ UNCHANGED <<wallets, row, todo>>
  <2>1. ASSUME NEW t \in Sessions, pc'[t] = "apply"
        PROVE  walletLock'[Head(todo'[t]).user] = t /\ row'[Head(todo'[t]).user].open
    <3>1. CASE t = s
      BY <1>1, <1>2, <3>1 DEF Typed, TypeOK
    <3>2. CASE t # s
      <4>1. pc[t] = "apply" /\ Head(todo[t]).user \in Users
        BY <1>2, <2>1, <3>2, WalletAssumption DEF Goto, Typed, TypeOK, HeadOK
      <4>2. walletLock[Head(todo[t]).user] = t /\ row[Head(todo[t]).user].open
        BY <4>1 DEF LedgerInv, CommittedFirst, EmptyUnlessOpen, LockedInApply
      <4>3. Head(todo[t]).user # u
        BY <1>2, <3>2, <4>2, WalletAssumption
      <4>4. \A v \in Users \ {u} : walletLock'[v] = walletLock[v]
        BY <1>2 DEF Typed, TypeOK
      <4> QED BY <1>2, <4>1, <4>2, <4>3, <4>4
    <3> QED BY <3>1, <3>2
  <2> QED BY <1>2, <2>1 DEF LedgerInv, CommittedFirst, EmptyUnlessOpen, LockedInApply
<1>3. CASE Rollback(s, "not found")
  BY <1>3, RollbackLedger
<1> QED BY <1>2, <1>3 DEF LockWallet

LEMMA CommitLedger ==
  ASSUME Typed, LedgerInv, NEW s \in Sessions, Commit(s)
  PROVE  LedgerInv' /\ \A u \in Users : Begins(wallets[u].ledger, wallets'[u].ledger)
<1>1. /\ wallets' = [u \in Users |-> IF walletLock[u] = s THEN row[u] ELSE wallets[u]]
      /\ walletLock' = [u \in Users |-> IF walletLock[u] = s THEN NoSession ELSE walletLock[u]]
      /\ pc' = [pc EXCEPT ![s] = "idle"] /\ todo' = [todo EXCEPT ![s] = <<>>]
      /\ row' = row
  BY DEF Commit, EndSession, Goto
<1>2. \A u \in Users : wallets[u] \in Wallets /\ row[u] \in Wallets
  BY DEF Typed, TypeOK
<1>3. \A u \in Users : /\ Begins(wallets[u].ledger, wallets[u].ledger)
                      /\ Begins(row[u].ledger, row[u].ledger)
  BY <1>2 DEF Begins, Wallets
<1>4. ASSUME NEW t \in Sessions, pc'[t] = "apply"
      PROVE  walletLock'[Head(todo'[t]).user] = t /\ row'[Head(todo'[t]).user].open
  <2>1. t # s /\ pc[t] = "apply" /\ todo'[t] = todo[t] /\ Head(todo[t]).user \in Users
    BY <1>1, <1>4, WalletAssumption DEF Typed, TypeOK, HeadOK
  <2> QED BY <1>1, <2>1 DEF LedgerInv, CommittedFirst, EmptyUnlessOpen, LockedInApply
<1> QED BY <1>1, <1>3, <1>4 DEF LedgerInv, CommittedFirst, EmptyUnlessOpen, LockedInApply

LEMMA InitLedger == Init => LedgerInv
BY DEF Init, LedgerInv, CommittedFirst, EmptyUnlessOpen, LockedInApply, NoWallet, Begins

\* Any step keeps the invariant and every committed ledger grows at its end.
LEMMA StepLedger ==
  ASSUME Typed, LedgerInv, [Next]_vars
  PROVE  LedgerInv' /\ \A u \in Users : Begins(wallets[u].ledger, wallets'[u].ledger)
<1>1. \A u \in Users : Begins(wallets[u].ledger, wallets[u].ledger)
  BY DEF Begins, Typed, TypeOK, Wallets
<1>2. ASSUME NEW s \in Sessions, FindRecord(s) PROVE LedgerInv' /\ wallets' = wallets
  <2>1. CASE Conflict(s, "mismatch") \/ Conflict(s, "in progress")
    BY <2>1, ConflictLedger
  <2>2. CASE /\ UNCHANGED moneyVars
             /\ \A t \in Sessions : pc'[t] = "apply" => pc[t] = "apply" /\ todo'[t] = todo[t]
    BY <2>2, QuietLedger DEF moneyVars
  <2> QED BY <1>2, <2>1, <2>2 DEF FindRecord, Goto, Typed, TypeOK
<1>3. ASSUME NEW s \in Sessions, InsertRecord(s) PROVE LedgerInv' /\ wallets' = wallets
  <2>1. CASE Rollback(s, "duplicate record")
    BY <2>1, RollbackLedger
  <2>2. CASE /\ UNCHANGED moneyVars
             /\ \A t \in Sessions : pc'[t] = "apply" => pc[t] = "apply" /\ todo'[t] = todo[t]
    BY <2>2, QuietLedger DEF moneyVars
  <2> QED BY <1>3, <2>1, <2>2 DEF InsertRecord, Goto, Typed, TypeOK
<1>4. ASSUME NEW s \in Sessions, Complete(s) PROVE LedgerInv' /\ wallets' = wallets
  BY <1>4, QuietLedger DEF Complete, Goto, moneyVars, Typed, TypeOK
<1>5. ASSUME NEW s \in Sessions, NEW script \in Scripts, Begin(s, script)
      PROVE  LedgerInv' /\ wallets' = wallets
  BY <1>5, QuietLedger DEF Begin, Goto, moneyVars, Typed, TypeOK
<1>6. ASSUME NEW s \in Sessions, Crash(s) \/ LockWaitAbort(s) PROVE LedgerInv' /\ wallets' = wallets
  BY <1>6, RollbackLedger DEF Crash, LockWaitAbort
<1>7. ASSUME UNCHANGED <<moneyVars, sessionVars>> PROVE LedgerInv' /\ wallets' = wallets
  BY <1>7, QuietLedger DEF moneyVars, sessionVars
<1>8. ASSUME \/ \E u \in Users : \/ ReadWagerLimit(u) \/ DeleteWagerLimit(u)
                                 \/ \E l \in Limits : SaveWagerLimit(u, l)
             \/ Tick \/ UNCHANGED vars
      PROVE  UNCHANGED <<moneyVars, sessionVars>>
  BY <1>8 DEF ReadWagerLimit, DeleteWagerLimit, SaveWagerLimit, Tick, vars
<1>9. ASSUME NEW s \in Sessions, Progress(s)
      PROVE  LedgerInv' /\ \A u \in Users : Begins(wallets[u].ledger, wallets'[u].ledger)
  <2>1. CASE Commit(s)
    BY <2>1, CommitLedger
  <2>2. CASE ~Commit(s)
    BY <1>1, <1>2, <1>3, <1>4, <1>6, <1>9, <2>2, EnsureLedger, LockLedger, ApplyLedger DEF Progress
  <2> QED BY <2>1, <2>2
<1> QED BY <1>1, <1>5, <1>6, <1>7, <1>8, <1>9 DEF Next

\* CONSTRAINTS.md, "the ledger is append-only and immutable by design": no step of any
\* transaction changes, removes or reorders a committed entry.
THEOREM AppendOnly == Spec => LedgerAppendOnly
<1>1. Typed /\ LedgerInv /\ [Next]_vars => LedgerInv'
  BY StepLedger
<1>2. Typed /\ LedgerInv /\ [Next]_vars =>
        [\A u \in Users : /\ Len(wallets[u].ledger) <= Len(wallets'[u].ledger)
                          /\ \A i \in DOMAIN wallets[u].ledger :
                               wallets'[u].ledger[i] = wallets[u].ledger[i]]_vars
  BY StepLedger DEF Begins
<1> QED BY InitTyped, NextTyped, InitLedger, <1>1, <1>2, PTL DEF Spec, LedgerAppendOnly

-----------------------------------------------------------------------------
(***************************************************************************)
(* Balances.  The newest row and the committed one are explained by their  *)
(* own ledgers and the same positions left out: those of the newest row's  *)
(* ledger, of which the committed one is a prefix.                         *)
(***************************************************************************)
BalanceInv == \A u \in Users :
  /\ skipped[u] \subseteq DOMAIN row[u].ledger
  /\ Explained(wallets[u], skipped[u]) /\ Explained(row[u], skipped[u])

\* How rows move but by a movement: not at all, committed, rolled back, or a new one.
RowMoved(u) ==
  \/ row'[u] = row[u] /\ wallets'[u] \in {wallets[u], row[u]}
  \/ row'[u] = wallets[u] /\ wallets'[u] = wallets[u]
  \/ row'[u] = NewWallet /\ wallets'[u] = wallets[u] /\ wallets[u].ledger = <<>>
RowsMoved ==
  /\ \A u \in Users : RowMoved(u)
  /\ \A s \in Sessions : pc[s] = "apply" => pc'[s] # "complete"

NotedSkips == skipped' = [u \in Users |-> {i \in DOMAIN row'[u].ledger :
  \/ i \in skipped[u]
  \/ i = Len(row'[u].ledger) /\ \E s \in Sessions : LeavesOut(s, u)}]

\* What explains a wallet depends on the positions of its own ledger only.
LEMMA ExplainedSame ==
  ASSUME NEW w \in Wallets, NEW out, NEW more, Explained(w, out),
         \A i \in DOMAIN w.ledger : i \in out <=> i \in more
  PROVE  Explained(w, more)
<1>1. /\ w.ledger \in Seq(Entries) /\ Len(w.ledger) \in Nat
      /\ DOMAIN w.ledger = 1..Len(w.ledger)
  BY DEF Wallets
<1>2. \A i \in 0..Len(w.ledger) : Left(w, i, more) = Left(w, i, out)
  BY <1>1 DEF Left
<1>3. \A i \in DOMAIN w.ledger : i - 1 \in 0..Len(w.ledger)
  BY <1>1
<1>4. Len(w.ledger) \in 0..Len(w.ledger)
  BY <1>1
<1> HIDE DEF Left
<1> QED BY <1>2, <1>3, <1>4 DEF Explained

\* An entry whose balance is the old one plus the movement extends the chain; the wallet
\* takes the new balance, or keeps the old one when the entry is left out.
LEMMA ExplainedAppend ==
  ASSUME NEW w \in Wallets, NEW out, Explained(w, out), out \subseteq DOMAIN w.ledger,
         NEW e \in Entries, NEW seen, Inc(e.req) \in Int, e.after = w.avail + Inc(e.req),
         NEW more, \A i \in 1..(Len(w.ledger) + 1) :
                     i \in more <=> i \in out \/ (i = Len(w.ledger) + 1 /\ e.after = seen)
  PROVE  Explained(WalletAfter(w, e, seen), more)
<1> DEFINE q == w.ledger
           p == Append(q, e)
           n == WalletAfter(w, e, seen)
<1>1. q \in Seq(Entries) /\ Len(q) \in Nat /\ DOMAIN q = 1..Len(q) /\ e.after \in Nat /\ w.avail \in Nat
  BY DEF Wallets, Entries
<1>2. n.ledger = p /\ n.avail = IF e.after = seen THEN w.avail ELSE e.after
  BY DEF WalletAfter, Saved, CreateEntry, Wallets
<1>3. /\ Len(p) = Len(q) + 1 /\ DOMAIN p = 1..(Len(q) + 1)
      /\ p[Len(q) + 1] = e /\ \A i \in 1..Len(q) : p[i] = q[i]
  BY <1>1
<1> HIDE DEF p, n
<1>4. ASSUME NEW i \in 0..Len(q) PROVE Left(n, i, more) = Left(w, i, out)
  <2>1. CASE i = 0
    BY <2>1 DEF Left
  <2>2. CASE i \in 1..Len(q)
    <3>1. p[i] = q[i] /\ (i \in more <=> i \in out) /\ i # 0
      BY <1>1, <1>3, <2>2
    <3> QED BY <1>2, <3>1 DEF Left
  <2> QED BY <1>1, <2>1, <2>2
<1>5. Left(w, Len(q), out) = w.avail /\ \A i \in 1..Len(q) : q[i].after = Left(w, i - 1, out) + Inc(q[i].req)
  BY <1>1 DEF Explained
<1>6. ASSUME NEW i \in 1..(Len(q) + 1) PROVE p[i].after = Left(n, i - 1, more) + Inc(p[i].req)
  <2>1. i - 1 \in 0..Len(q) /\ Left(n, i - 1, more) = Left(w, i - 1, out)
    BY <1>1, <1>4
  <2>2. CASE i \in 1..Len(q)
    BY <1>3, <1>5, <2>1, <2>2
  <2>3. CASE i = Len(q) + 1
    <3>1. i - 1 = Len(q)
      BY <1>1, <2>3
    <3> QED BY <1>3, <1>5, <2>1, <2>3, <3>1
  <2> QED BY <1>1, <2>2, <2>3
<1>7. n.avail = Left(n, Len(q) + 1, more)
  <2>1. Len(q) + 1 \in more <=> e.after = seen
    BY <1>1
  <2>2. e.after - Inc(e.req) = w.avail
    BY <1>1
  <2>3. Len(q) + 1 # 0
    BY <1>1
  <2>4. Left(n, Len(q) + 1, more) = IF e.after = seen THEN e.after - Inc(e.req) ELSE e.after
    BY <1>2, <1>3, <2>1, <2>3 DEF Left
  <2> QED BY <1>2, <2>2, <2>4
<1>8. Explained(n, more)
  BY <1>2, <1>3, <1>6, <1>7 DEF Explained
<1> QED BY <1>8 DEF n

LEMMA MovedBalance ==
  ASSUME Typed, LedgerInv, BalanceInv, NotedSkips, RowsMoved
  PROVE  BalanceInv'
<1> SUFFICES ASSUME NEW u \in Users
             PROVE  /\ skipped'[u] \subseteq DOMAIN row'[u].ledger
                    /\ Explained(wallets'[u], skipped'[u]) /\ Explained(row'[u], skipped'[u])
  BY DEF BalanceInv
<1>1. skipped'[u] = {i \in DOMAIN row'[u].ledger : i \in skipped[u]}
  BY DEF NotedSkips, RowsMoved, LeavesOut
<1>2. /\ wallets[u] \in Wallets /\ row[u] \in Wallets
      /\ Explained(wallets[u], skipped[u]) /\ Explained(row[u], skipped[u])
  BY DEF Typed, TypeOK, BalanceInv
<1>3. DOMAIN wallets[u].ledger \subseteq DOMAIN row[u].ledger
  BY <1>2 DEF LedgerInv, CommittedFirst, Begins, Wallets
<1>4. CASE row'[u] = row[u] /\ wallets'[u] \in {wallets[u], row[u]}
  BY <1>1, <1>2, <1>3, <1>4, ExplainedSame
<1>5. CASE row'[u] = wallets[u] /\ wallets'[u] = wallets[u]
  BY <1>1, <1>2, <1>5, ExplainedSame
<1>6. CASE row'[u] = NewWallet /\ wallets'[u] = wallets[u] /\ wallets[u].ledger = <<>>
  <2>1. Explained(NewWallet, skipped'[u])
    BY DEF Explained, Left, NewWallet
  <2>2. Explained(wallets[u], skipped'[u])
    BY <1>2, <1>6, ExplainedSame
  <2> QED BY <1>1, <1>6, <2>1, <2>2
<1> QED BY <1>4, <1>5, <1>6 DEF RowsMoved, RowMoved

LEMMA RollbackMoved ==
  ASSUME Typed, NEW s \in Sessions, NEW answer, Rollback(s, answer)
  PROVE  RowsMoved
BY DEF RowsMoved, RowMoved, Rollback, RestoreRows, EndSession, Goto, Typed, TypeOK

LEMMA ConflictMoved ==
  ASSUME Typed, NEW s \in Sessions, NEW answer, Conflict(s, answer)
  PROVE  RowsMoved
<1>1. CASE alt[s] # <<>>
  BY <1>1 DEF Conflict, RowsMoved, RowMoved, Goto, moneyVars, Typed, TypeOK
<1> QED BY <1>1, RollbackMoved DEF Conflict

\* Every step but a movement only moves rows.
LEMMA OthersMoved ==
  ASSUME Typed, LedgerInv, [Next]_vars, \A s \in Sessions : ~ApplyMutation(s)
  PROVE  RowsMoved
<1>1. CASE UNCHANGED <<wallets, row, pc>>
  BY <1>1 DEF RowsMoved, RowMoved
<1>2. ASSUME NEW s \in Sessions, EnsureDefaultWallet(s) PROVE RowsMoved
  <2>1. ASSUME NEW u \in Users, ~wallets[u].open, row' = [row EXCEPT ![u] = NewWallet], wallets' = wallets, pc' = pc
        PROVE  RowsMoved
    BY <2>1 DEF RowsMoved, RowMoved, LedgerInv, EmptyUnlessOpen, Typed, TypeOK
  <2> QED BY <1>1, <1>2, <2>1, RollbackMoved DEF EnsureDefaultWallet, EnsureSteps, moneyVars
<1>3. ASSUME NEW s \in Sessions, Commit(s) PROVE RowsMoved
  BY <1>3 DEF RowsMoved, RowMoved, Commit, EndSession, Goto, Typed, TypeOK
<1>4. ASSUME NEW s \in Sessions, FindRecord(s) PROVE RowsMoved
  <2>1. CASE UNCHANGED <<wallets, row>> /\ pc' \in {pc, [pc EXCEPT ![s] = "insert"]}
    BY <1>4, <2>1 DEF FindRecord, RowsMoved, RowMoved, Typed, TypeOK
  <2> QED BY <1>4, <2>1, ConflictMoved DEF FindRecord, Goto, moneyVars
<1>5. ASSUME NEW s \in Sessions, InsertRecord(s) \/ LockWallet(s) \/ Complete(s) PROVE RowsMoved
  <2>1. CASE UNCHANGED <<wallets, row>> /\ pc[s] # "apply" /\ \E l : pc' = [pc EXCEPT ![s] = l]
    BY <2>1 DEF RowsMoved, RowMoved, Typed, TypeOK
  <2> QED BY <1>5, <2>1, RollbackMoved DEF InsertRecord, LockWallet, Complete, Goto, moneyVars
<1>6. ASSUME NEW s \in Sessions, Crash(s) \/ LockWaitAbort(s) PROVE RowsMoved
  BY <1>6, RollbackMoved DEF Crash, LockWaitAbort
<1>7. ASSUME NEW s \in Sessions, NEW script \in Scripts, Begin(s, script) PROVE RowsMoved
  BY <1>7 DEF Begin, RowsMoved, RowMoved, Goto, moneyVars, Typed, TypeOK
<1>8. ASSUME \/ \E u \in Users : \/ ReadWagerLimit(u) \/ DeleteWagerLimit(u)
                                 \/ \E l \in Limits : SaveWagerLimit(u, l)
             \/ Tick \/ UNCHANGED vars
      PROVE  UNCHANGED <<wallets, row, pc>>
  BY <1>8 DEF ReadWagerLimit, DeleteWagerLimit, SaveWagerLimit, Tick, vars, moneyVars, sessionVars
<1> QED BY <1>1, <1>2, <1>3, <1>4, <1>5, <1>6, <1>7, <1>8 DEF Next, Progress

\* A movement appends an entry to one newest row.
LEMMA AppendBalance ==
  ASSUME Typed, LedgerInv, BalanceInv, NotedSkips, wallets' = wallets,
         NEW u \in Users, NEW e \in Entries, NEW seen,
         Inc(e.req) \in Int, e.after = row[u].avail + Inc(e.req),
         row' = [row EXCEPT ![u] = WalletAfter(row[u], e, seen)],
         \A v \in Users : (\E s \in Sessions : LeavesOut(s, v)) <=> v = u /\ e.after = seen
  PROVE  BalanceInv'
<1> DEFINE n == Len(row[u].ledger)
<1>1. row[u] \in Wallets /\ wallets[u] \in Wallets
  BY DEF Typed, TypeOK
<1>2. row'[u] = WalletAfter(row[u], e, seen) /\ \A v \in Users \ {u} : row'[v] = row[v]
  BY DEF Typed, TypeOK
<1>3. /\ n \in Nat /\ DOMAIN row[u].ledger = 1..n
      /\ Len(row'[u].ledger) = n + 1 /\ DOMAIN row'[u].ledger = 1..(n + 1)
  <2>1. row'[u].ledger = Append(row[u].ledger, e) /\ row[u].ledger \in Seq(Entries)
    BY <1>1, <1>2 DEF WalletAfter, CreateEntry, Wallets
  <2> QED BY <2>1
<1>4. DOMAIN wallets[u].ledger \subseteq 1..n
  <2>1. Len(wallets[u].ledger) <= n /\ wallets[u].ledger \in Seq(Entries)
    BY <1>1 DEF LedgerInv, CommittedFirst, Begins, Wallets
  <2> QED BY <1>3, <2>1
<1>5. skipped'[u] = {i \in 1..(n + 1) : i \in skipped[u] \/ (i = n + 1 /\ e.after = seen)}
  BY <1>3 DEF NotedSkips
<1>6. /\ Explained(row[u], skipped[u]) /\ Explained(wallets[u], skipped[u])
      /\ skipped[u] \subseteq DOMAIN row[u].ledger
  BY DEF BalanceInv
<1>7. Explained(row'[u], skipped'[u])
  <2>1. \A i \in 1..(n + 1) : i \in skipped'[u] <=> i \in skipped[u] \/ (i = n + 1 /\ e.after = seen)
    BY <1>5
  <2> QED BY <1>1, <1>2, <1>6, <2>1, ExplainedAppend
<1>8. Explained(wallets[u], skipped'[u])
  <2>1. \A i \in 1..n : i \in skipped[u] <=> i \in skipped'[u]
    BY <1>3, <1>5
  <2> QED BY <1>1, <1>4, <1>6, <2>1, ExplainedSame
<1>9. ASSUME NEW v \in Users, v # u
      PROVE  /\ skipped'[v] \subseteq DOMAIN row'[v].ledger
             /\ Explained(wallets[v], skipped'[v]) /\ Explained(row'[v], skipped'[v])
  <2>1. skipped'[v] = {i \in DOMAIN row[v].ledger : i \in skipped[v]} /\ row'[v] = row[v]
    BY <1>2, <1>9 DEF NotedSkips
  <2>2. skipped'[v] = skipped[v]
    BY <2>1 DEF BalanceInv
  <2> QED BY <2>1, <2>2 DEF BalanceInv
<1>10. skipped'[u] \subseteq DOMAIN row'[u].ledger
  BY <1>3, <1>5
<1> QED BY <1>7, <1>8, <1>9, <1>10 DEF BalanceInv

LEMMA ApplyBalance ==
  ASSUME Typed, LedgerInv, BalanceInv, NotedSkips, NEW s \in Sessions, ApplyMutation(s)
  PROVE  BalanceInv'
<1> DEFINE r == Head(todo[s])
           u == r.user
           entry == [req |-> r, after |-> Balance(s, r), at |-> now]
           seen == snap[s].avail[u]
<1>1. r \in Requests /\ u \in Users /\ pc[s] = "apply"
  BY WalletAssumption DEF ApplyMutation, Typed, HeadOK
<1>2. CASE Conflict(s, "limit") \/ Conflict(s, "short") \/ Rollback(s, "duplicate row")
  BY <1>2, ConflictMoved, RollbackMoved, MovedBalance
<1>3. CASE /\ ~Short(r) /\ wallets' = wallets /\ Goto(s, "complete")
           /\ row' = [row EXCEPT ![u] = WalletAfter(row[u], entry, seen)]
  <2>1. entry \in Entries
    BY <1>1, <1>3, BalanceTyped DEF Typed, TypeOK, Entries
  <2>2. /\ Inc(entry.req) \in Int /\ entry.after = row[u].avail + Inc(entry.req)
        /\ entry.after = Balance(s, r)
    BY <1>1, WalletAssumption DEF Inc, Balance
  <2>3. \A t \in Sessions, v \in Users : LeavesOut(t, v) <=> t = s /\ v = u /\ entry.after = seen
    BY <1>1, <1>3, <2>2 DEF LeavesOut, Goto, Typed, TypeOK
  <2> HIDE DEF entry, seen, u
  <2> QED BY <1>1, <1>3, <2>1, <2>2, <2>3, AppendBalance
<1> QED BY <1>2, <1>3 DEF ApplyMutation

LEMMA StepBalance ==
  Typed /\ LedgerInv /\ BalanceInv /\ [NotedNext]_<<vars, raced, skipped>> => BalanceInv'
<1> SUFFICES ASSUME Typed, LedgerInv, BalanceInv, [NotedNext]_<<vars, raced, skipped>>
             PROVE  BalanceInv'
  OBVIOUS
<1>1. CASE UNCHANGED <<wallets, row, skipped>>
  BY <1>1 DEF BalanceInv, Explained, Left
<1>2. CASE NotedNext
  <2>1. NotedSkips /\ [Next]_vars
    BY <1>2 DEF NotedNext, NotedSkips
  <2> QED BY <2>1, ApplyBalance, OthersMoved, MovedBalance
<1> QED BY <1>1, <1>2 DEF vars, moneyVars

\* mutateWalletInSession: every committed balance is the running sum of its ledger, less
\* exactly the movements that the reload of save took for no change.
THEOREM BalancesAreExplained == NotedSpec => []BalancesExplained
<1>1. NotedInit => Init /\ BalanceInv
  BY DEF NotedInit, Init, BalanceInv, Explained, Left, NoWallet
<1>2. BalanceInv => BalancesExplained
  BY DEF BalanceInv, BalancesExplained
<1>3. [NotedNext]_<<vars, raced, skipped>> => [Next]_vars
  BY DEF NotedNext
<1>4. Typed /\ LedgerInv /\ [Next]_vars => LedgerInv'
  BY StepLedger
<1> QED BY <1>1, <1>2, <1>3, <1>4, InitTyped, NextTyped, InitLedger, StepBalance, PTL DEF NotedSpec

-----------------------------------------------------------------------------
(***************************************************************************)
(* Idempotency records and the ledger.  Between the steps of a mutation    *)
(* the two differ: RecordInv says by which session and at which step, so   *)
(* that a commit publishes them together and a rollback takes both back.   *)
(***************************************************************************)
Completed(r, by) == [req |-> r, status |-> "completed", by |-> by]
InLedger(r, w) == \E i \in DOMAIN w.ledger : w.ledger[i].req = r
EntersOnce(w) == \A i, j \in DOMAIN w.ledger : w.ledger[i].req = w.ledger[j].req => i = j

OneRecord == \A p, q \in idem : RecId(p.req) = RecId(q.req) => p = q

\* A session past the INSERT has its pending record, past the lock its wallet, and past the
\* ledger entry this one too.
AtHand(s, r) ==
  /\ pc[s] \in {"lock", "apply", "complete"} => NewRecord(s, r) \in idem
  /\ pc[s] \in {"apply", "complete"} => walletLock[r.user] = s
  /\ pc[s] = "complete" => InLedger(r, row[r.user])
AllAtHand == \A s \in Sessions : AtHand(s, Head(todo[s]))

\* A completed record has its entry: committed, or in a row that its session holds.
Posted(q) == LET u == q.req.user IN
  IF q.by = NoSession THEN InLedger(q.req, wallets[u])
  ELSE walletLock[u] = q.by /\ InLedger(q.req, row[u])
AllPosted == \A q \in idem : q.status = "completed" => Posted(q)

\* An entry has its completed record, or its session is about to complete it.
Backed(r, u) ==
  \/ Completed(r, NoSession) \in idem
  \/ /\ walletLock[u] \in Sessions
     /\ \/ Completed(r, walletLock[u]) \in idem
        \/ pc[walletLock[u]] = "complete" /\ Head(todo[walletLock[u]]) = r
AllBacked == \A u \in Users, r \in Requests :
  /\ InLedger(r, wallets[u]) => Completed(r, NoSession) \in idem
  /\ InLedger(r, row[u]) => Backed(r, u)

AllOnce == \A u \in Users : EntersOnce(wallets[u]) /\ EntersOnce(row[u])
RecordInv == OneRecord /\ AllAtHand /\ AllPosted /\ AllBacked /\ AllOnce

\* What an appended entry adds to a ledger.
LEMMA InAppended ==
  ASSUME NEW w \in Wallets, NEW e \in Entries, NEW seen, NEW r
  PROVE  InLedger(r, WalletAfter(w, e, seen)) <=> InLedger(r, w) \/ r = e.req
<1> DEFINE q == w.ledger
           p == Append(q, e)
<1>1. q \in Seq(Entries) /\ Len(q) \in Nat
  BY DEF Wallets
<1>2. WalletAfter(w, e, seen).ledger = p
  BY DEF WalletAfter, CreateEntry, Wallets
<1>3. /\ DOMAIN p = 1..(Len(q) + 1) /\ DOMAIN q = 1..Len(q)
      /\ p[Len(q) + 1] = e /\ \A i \in 1..Len(q) : p[i] = q[i]
  BY <1>1
<1> HIDE DEF p
<1>4. InLedger(r, WalletAfter(w, e, seen)) <=> \E i \in 1..(Len(q) + 1) : p[i].req = r
  BY <1>2, <1>3 DEF InLedger
<1>5. InLedger(r, w) <=> \E i \in 1..Len(q) : q[i].req = r
  BY <1>3 DEF InLedger
<1> QED BY <1>1, <1>3, <1>4, <1>5

LEMMA BeginsIn ==
  ASSUME NEW v \in Wallets, NEW w \in Wallets, Begins(v.ledger, w.ledger), NEW r, InLedger(r, v)
  PROVE  InLedger(r, w)
<1>1. v.ledger \in Seq(Entries) /\ w.ledger \in Seq(Entries)
  BY DEF Wallets
<1> QED BY <1>1 DEF InLedger, Begins

LEMMA OnceAppended ==
  ASSUME NEW w \in Wallets, NEW e \in Entries, NEW seen, EntersOnce(w), ~InLedger(e.req, w)
  PROVE  EntersOnce(WalletAfter(w, e, seen))
<1> DEFINE q == w.ledger
           p == Append(q, e)
<1>1. q \in Seq(Entries) /\ Len(q) \in Nat
  BY DEF Wallets
<1>2. WalletAfter(w, e, seen).ledger = p
  BY DEF WalletAfter, CreateEntry, Wallets
<1>3. /\ DOMAIN p = 1..(Len(q) + 1) /\ DOMAIN q = 1..Len(q)
      /\ p[Len(q) + 1] = e /\ \A i \in 1..Len(q) : p[i] = q[i]
  BY <1>1
<1> HIDE DEF p
<1>4. \A i, j \in 1..Len(q) : q[i].req = q[j].req => i = j
  BY <1>3 DEF EntersOnce
<1>5. \A i \in 1..Len(q) : q[i].req # e.req
  BY <1>3 DEF InLedger
<1>6. ASSUME NEW i \in 1..(Len(q) + 1), NEW j \in 1..(Len(q) + 1), p[i].req = p[j].req PROVE i = j
  <2>1. \A k \in 1..(Len(q) + 1) : k = Len(q) + 1 \/ k \in 1..Len(q)
    BY <1>1
  <2>2. CASE i = Len(q) + 1
    BY <1>3, <1>5, <1>6, <2>1, <2>2
  <2>3. CASE j = Len(q) + 1
    BY <1>3, <1>5, <1>6, <2>1, <2>3
  <2> QED BY <1>3, <1>4, <1>6, <2>1, <2>2, <2>3
<1> QED BY <1>2, <1>3, <1>6 DEF EntersOnce

\* A request is in the ledger of its own user, by the type of a record and of a row.
LEMMA RequestUser == ASSUME NEW r \in Requests PROVE r.user \in Users
BY WalletAssumption


\* The rows and the records stay: a session may only leave for a step before the INSERT, or
\* take the lock of its wallet.
LEMMA QuietRecords ==
  ASSUME Typed, RecordInv, UNCHANGED <<wallets, row, idem>>,
         \A u \in Users : walletLock'[u] = walletLock[u] \/ walletLock[u] = NoSession,
         \A t \in Sessions : pc[t] = "complete" => pc'[t] = "complete" /\ todo'[t] = todo[t],
         \A t \in Sessions : pc'[t] \in {"lock", "apply", "complete"} =>
           /\ todo'[t] = todo[t]
           /\ \/ pc[t] = pc'[t]
              \/ pc[t] = "lock" /\ pc'[t] = "apply" /\ walletLock'[Head(todo[t]).user] = t
  PROVE  RecordInv'
<1>1. OneRecord' /\ AllOnce'
  BY DEF RecordInv, OneRecord, AllOnce, EntersOnce
<1>2. \A w \in Users, r \in Requests :
        InLedger(r, wallets[w])' = InLedger(r, wallets[w]) /\ InLedger(r, row[w])' = InLedger(r, row[w])
  BY DEF InLedger
<1>3. NoSession \notin Sessions
  BY WalletAssumption
<1>4. AllAtHand'
  <2> SUFFICES ASSUME NEW t \in Sessions, pc'[t] \in {"lock", "apply", "complete"}
               PROVE  AtHand(t, Head(todo[t]))'
    BY DEF AllAtHand, AtHand
  <2>1. PICK h : h = Head(todo[t])
    OBVIOUS
  <2>2. Head(todo'[t]) = h /\ pc[t] \in {"lock", "apply", "complete"}
    BY <2>1
  <2>3. h \in Requests /\ h.user \in Users /\ AtHand(t, h)
    BY <2>1, <2>2, RequestUser DEF Typed, HeadOK, RecordInv, AllAtHand
  <2>4. AtHand(t, h)'
    BY <1>2, <1>3, <2>1, <2>2, <2>3 DEF AtHand, NewRecord
  <2> QED BY <2>2, <2>4
<1>5. AllPosted'
  <2> SUFFICES ASSUME NEW q \in idem, q.status = "completed" PROVE Posted(q)'
    BY DEF AllPosted
  <2>1. q.req \in Requests /\ q.req.user \in Users /\ q.by \in Sessions \cup {NoSession} /\ Posted(q)
    BY RequestUser DEF Typed, TypeOK, Records, RecordInv, AllPosted
  <2> QED BY <1>2, <1>3, <2>1 DEF Posted
<1>6. AllBacked'
  <2> SUFFICES ASSUME NEW u \in Users, NEW r \in Requests
               PROVE  /\ InLedger(r, wallets[u]) => Completed(r, NoSession) \in idem
                      /\ InLedger(r, row[u]) => Backed(r, u)'
    BY <1>2 DEF AllBacked, Completed
  <2>1. /\ InLedger(r, wallets[u]) => Completed(r, NoSession) \in idem
        /\ InLedger(r, row[u]) => Backed(r, u)
    BY DEF RecordInv, AllBacked
  <2> QED BY <1>3, <2>1 DEF Backed, Completed
<1> QED BY <1>1, <1>4, <1>5, <1>6 DEF RecordInv

\* A rollback takes the records of the session back with the rows it holds.
LEMMA RollbackRecords ==
  ASSUME Typed, RecordInv, NEW s \in Sessions, NEW answer, Rollback(s, answer)
  PROVE  RecordInv'
<1>1. /\ wallets' = wallets /\ idem' = {q \in idem : q.by # s}
      /\ row' = [u \in Users |-> IF walletLock[u] = s THEN wallets[u] ELSE row[u]]
      /\ walletLock' = [u \in Users |-> IF walletLock[u] = s THEN NoSession ELSE walletLock[u]]
      /\ pc' = [pc EXCEPT ![s] = "idle"] /\ todo' = [todo EXCEPT ![s] = <<>>]
  BY DEF Rollback, EndSession, RestoreRows, Goto
<1>2. NoSession \notin Sessions
  BY WalletAssumption
<1>3. \A u \in Users, r \in Requests : InLedger(r, wallets[u])' = InLedger(r, wallets[u])
  BY <1>1 DEF InLedger
<1>4. \A u \in Users, r \in Requests :
        InLedger(r, row[u])' = IF walletLock[u] = s THEN InLedger(r, wallets[u]) ELSE InLedger(r, row[u])
  BY <1>1 DEF InLedger
<1>5. OneRecord'
  BY <1>1 DEF RecordInv, OneRecord
<1>6. AllOnce'
  BY <1>1 DEF RecordInv, AllOnce, EntersOnce
<1>7. AllAtHand'
  <2> SUFFICES ASSUME NEW t \in Sessions, pc'[t] \in {"lock", "apply", "complete"}
               PROVE  AtHand(t, Head(todo[t]))'
    BY DEF AllAtHand, AtHand
  <2>1. PICK h : h = Head(todo[t])
    OBVIOUS
  <2>2. t # s /\ pc'[t] = pc[t] /\ Head(todo'[t]) = h
    BY <1>1, <2>1 DEF Typed, TypeOK
  <2>3. h \in Requests /\ h.user \in Users /\ AtHand(t, h)
    BY <2>1, <2>2, RequestUser DEF Typed, HeadOK, RecordInv, AllAtHand
  <2>4. AtHand(t, h)'
    BY <1>1, <1>4, <2>2, <2>3 DEF AtHand, NewRecord
  <2> QED BY <2>2, <2>4
<1>8. AllPosted'
  <2> SUFFICES ASSUME NEW q \in idem, q.by # s, q.status = "completed" PROVE Posted(q)'
    BY <1>1 DEF AllPosted
  <2>1. q.req \in Requests /\ q.req.user \in Users /\ q.by \in Sessions \cup {NoSession} /\ Posted(q)
    BY RequestUser DEF Typed, TypeOK, Records, RecordInv, AllPosted
  <2> QED BY <1>1, <1>2, <1>3, <1>4, <2>1 DEF Posted
<1>9. AllBacked'
  <2> SUFFICES ASSUME NEW u \in Users, NEW r \in Requests
               PROVE  /\ InLedger(r, wallets[u]) => Completed(r, NoSession) \in idem'
                      /\ InLedger(r, row[u])' => Backed(r, u)'
    BY <1>3 DEF AllBacked, Completed
  <2>1. /\ InLedger(r, wallets[u]) => Completed(r, NoSession) \in idem
        /\ InLedger(r, row[u]) => Backed(r, u)
    BY DEF RecordInv, AllBacked
  <2>2. Completed(r, NoSession) \in idem => Completed(r, NoSession) \in idem'
    BY <1>1, <1>2 DEF Completed
  <2>3. CASE walletLock[u] = s
    BY <1>4, <2>1, <2>2, <2>3 DEF Backed, Completed
  <2>4. CASE walletLock[u] # s
    <3>1. walletLock'[u] = walletLock[u] /\ InLedger(r, row[u])' = InLedger(r, row[u])
      BY <1>1, <1>4, <2>4
    <3>2. Completed(r, walletLock[u]) \in idem => Completed(r, walletLock[u]) \in idem'
      BY <1>1, <2>4 DEF Completed
    <3>3. walletLock[u] \in Sessions =>
            pc'[walletLock[u]] = pc[walletLock[u]] /\ todo'[walletLock[u]] = todo[walletLock[u]]
      BY <1>1, <2>4 DEF Typed, TypeOK
    <3> QED BY <2>1, <2>2, <3>1, <3>2, <3>3 DEF Backed, Completed
  <2> QED BY <2>3, <2>4
<1> QED BY <1>5, <1>6, <1>7, <1>8, <1>9 DEF RecordInv

LEMMA ConflictRecords ==
  ASSUME Typed, RecordInv, NEW s \in Sessions, NEW answer, Conflict(s, answer), pc[s] # "complete"
  PROVE  RecordInv'
<1>1. CASE alt[s] = <<>>
  BY <1>1, RollbackRecords DEF Conflict
<1>2. CASE alt[s] # <<>>
  <2>1. /\ todo' = [todo EXCEPT ![s] = alt[s]] /\ pc' = [pc EXCEPT ![s] = "step"]
        /\ UNCHANGED <<wallets, row, walletLock, idem>>
    BY <1>2 DEF Conflict, Goto, moneyVars
  <2>2. \A t \in Sessions : pc'[t] \in {"lock", "apply", "complete"} \/ pc[t] = "complete" =>
          t # s /\ pc'[t] = pc[t] /\ todo'[t] = todo[t]
    BY <2>1 DEF Typed, TypeOK
  <2> QED BY <2>1, <2>2, QuietRecords
<1> QED BY <1>1, <1>2

\* A new pending record: the unique index has no other of its key.
LEMMA InsertRecords ==
  ASSUME Typed, RecordInv, NEW s \in Sessions, InsertRecord(s)
  PROVE  RecordInv'
<1>1. CASE Rollback(s, "duplicate record")
  BY <1>1, RollbackRecords
<1> DEFINE r == Head(todo[s])
           new == NewRecord(s, r)
<1>2. CASE /\ Twins(r) = {} /\ idem' = idem \cup {new} /\ pc' = [pc EXCEPT ![s] = "lock"]
           /\ UNCHANGED <<wallets, row, walletLock, todo>>
  <2>1. r \in Requests /\ new.req = r /\ new.by = s /\ new.status = "pending"
    BY DEF InsertRecord, Typed, HeadOK, NewRecord
  <2>2. \A u \in Users, x \in Requests :
          InLedger(x, wallets[u])' = InLedger(x, wallets[u]) /\ InLedger(x, row[u])' = InLedger(x, row[u])
    BY <1>2 DEF InLedger
  <2>3. pc[s] = "insert" /\ \A t \in Sessions : t # s => pc'[t] = pc[t]
    BY <1>2 DEF InsertRecord, Typed, TypeOK
  <2>4. OneRecord'
    BY <1>2, <2>1 DEF RecordInv, OneRecord, Twins
  <2>5. AllOnce'
    BY <1>2 DEF RecordInv, AllOnce, EntersOnce
  <2>6. AllAtHand'
    <3> SUFFICES ASSUME NEW t \in Sessions, pc'[t] \in {"lock", "apply", "complete"}
                 PROVE  AtHand(t, Head(todo[t]))'
      BY DEF AllAtHand, AtHand
    <3>1. PICK h : h = Head(todo[t])
      OBVIOUS
    <3>2. Head(todo'[t]) = h
      BY <1>2, <3>1
    <3>3. CASE t = s
      <4>1. pc'[t] = "lock" /\ NewRecord(t, h) \in idem'
        BY <1>2, <3>1, <3>3 DEF Typed, TypeOK
      <4> QED BY <3>2, <4>1 DEF AtHand, NewRecord
    <3>4. CASE t # s
      <4>1. h \in Requests /\ h.user \in Users /\ AtHand(t, h)
        BY <2>3, <3>1, <3>4, RequestUser DEF Typed, HeadOK, RecordInv, AllAtHand
      <4>2. AtHand(t, h)'
        BY <1>2, <2>2, <2>3, <3>4, <4>1 DEF AtHand, NewRecord
      <4> QED BY <3>2, <4>2
    <3> QED BY <3>3, <3>4
  <2>7. AllPosted'
    <3> SUFFICES ASSUME NEW q \in idem, q.status = "completed" PROVE Posted(q)'
      BY <1>2, <2>1 DEF AllPosted
    <3>1. q.req \in Requests /\ q.req.user \in Users /\ Posted(q)
      BY RequestUser DEF Typed, TypeOK, Records, RecordInv, AllPosted
    <3> QED BY <1>2, <2>2, <3>1 DEF Posted
  <2>8. AllBacked'
    <3> SUFFICES ASSUME NEW u \in Users, NEW x \in Requests
                 PROVE  /\ InLedger(x, wallets[u]) => Completed(x, NoSession) \in idem'
                        /\ InLedger(x, row[u]) => Backed(x, u)'
      BY <2>2 DEF AllBacked, Completed
    <3>1. /\ InLedger(x, wallets[u]) => Completed(x, NoSession) \in idem
          /\ InLedger(x, row[u]) => Backed(x, u)
      BY DEF RecordInv, AllBacked
    <3>2. walletLock[u] \in Sessions /\ pc[walletLock[u]] = "complete" => pc'[walletLock[u]] = "complete"
      BY <2>3
    <3> QED BY <1>2, <3>1, <3>2 DEF Backed, Completed
  <2> QED BY <2>4, <2>5, <2>6, <2>7, <2>8 DEF RecordInv
<1> QED BY <1>1, <1>2 DEF InsertRecord, Goto, moneyVars

\* The ledger entry: its session holds the row and has the pending record at hand.
LEMMA ApplyRecords ==
  ASSUME Typed, RecordInv, NEW s \in Sessions, ApplyMutation(s)
  PROVE  RecordInv'
<1> DEFINE r == Head(todo[s])
           u == r.user
           entry == [req |-> r, after |-> Balance(s, r), at |-> now]
           new == WalletAfter(row[u], entry, snap[s].avail[u])
<1>1. r \in Requests /\ u \in Users /\ pc[s] = "apply"
  BY RequestUser DEF ApplyMutation, Typed, HeadOK
<1>2. CASE Conflict(s, "limit") \/ Conflict(s, "short") \/ Rollback(s, "duplicate row")
  BY <1>1, <1>2, ConflictRecords, RollbackRecords
<1>3. CASE /\ ~Short(r) /\ ~EntryClash(s, r)
           /\ row' = [row EXCEPT ![u] = new]
           /\ pc' = [pc EXCEPT ![s] = "complete"]
           /\ UNCHANGED <<wallets, walletLock, idem, todo>>
  <2>1. row[u] \in Wallets /\ entry \in Entries /\ entry.req = r
    BY <1>1, <1>3, BalanceTyped DEF Typed, TypeOK, Entries
  <2>2. ~InLedger(r, row[u])
    BY <1>3 DEF EntryClash, InLedger
  <2>3. \A x \in Requests : InLedger(x, new) <=> InLedger(x, row[u]) \/ x = r
    BY <2>1, InAppended
  <2>4. EntersOnce(new)
    BY <1>1, <2>1, <2>2, OnceAppended DEF RecordInv, AllOnce
  <2> HIDE DEF entry, new
  <2>5. \A v \in Users : row'[v] = IF v = u THEN new ELSE row[v]
    BY <1>3 DEF Typed, TypeOK
  <2>6. \A v \in Users, x \in Requests : InLedger(x, wallets[v])' = InLedger(x, wallets[v])
    BY <1>3 DEF InLedger
  <2>7. \A v \in Users, x \in Requests :
          InLedger(x, row[v])' <=> InLedger(x, row[v]) \/ (v = u /\ x = r)
    <3> SUFFICES ASSUME NEW v \in Users, NEW x \in Requests
                 PROVE  InLedger(x, row[v])' <=> InLedger(x, row[v]) \/ (v = u /\ x = r)
      OBVIOUS
    <3>1. InLedger(x, row[v])' <=> InLedger(x, IF v = u THEN new ELSE row[v])
      BY <2>5 DEF InLedger
    <3> QED BY <2>3, <3>1
  <2>8. AllOnce'
    <3> SUFFICES ASSUME NEW v \in Users PROVE EntersOnce(wallets[v])' /\ EntersOnce(row[v])'
      BY DEF AllOnce
    <3>1. EntersOnce(wallets[v]) /\ EntersOnce(row[v])
      BY DEF RecordInv, AllOnce
    <3> QED BY <1>3, <2>4, <2>5, <3>1 DEF EntersOnce
  <2>9. \A t \in Sessions : pc'[t] = IF t = s THEN "complete" ELSE pc[t]
    BY <1>3 DEF Typed, TypeOK
  <2>10. AllAtHand'
    <3> SUFFICES ASSUME NEW t \in Sessions, pc'[t] \in {"lock", "apply", "complete"}
                 PROVE  AtHand(t, Head(todo[t]))'
      BY DEF AllAtHand, AtHand
    <3>1. PICK h : h = Head(todo[t])
      OBVIOUS
    <3>2. Head(todo'[t]) = h
      BY <1>3, <3>1
    <3>3. h \in Requests /\ h.user \in Users /\ AtHand(t, h) /\ (t = s => h = r)
      BY <1>1, <2>9, <3>1, RequestUser DEF Typed, HeadOK, RecordInv, AllAtHand
    <3>4. AtHand(t, h)'
      BY <1>1, <1>3, <2>7, <2>9, <3>3 DEF AtHand, NewRecord
    <3> QED BY <3>2, <3>4
  <2>11. AllPosted'
    <3> SUFFICES ASSUME NEW q \in idem, q.status = "completed" PROVE Posted(q)'
      BY <1>3 DEF AllPosted
    <3>1. q.req \in Requests /\ q.req.user \in Users /\ Posted(q)
      BY RequestUser DEF Typed, TypeOK, Records, RecordInv, AllPosted
    <3> QED BY <1>3, <2>6, <2>7, <3>1 DEF Posted
  <2>12. AllBacked'
    <3> SUFFICES ASSUME NEW v \in Users, NEW x \in Requests
                 PROVE  /\ InLedger(x, wallets[v]) => Completed(x, NoSession) \in idem
                        /\ InLedger(x, row[v]) \/ (v = u /\ x = r) => Backed(x, v)'
      BY <1>3, <2>6, <2>7 DEF AllBacked, Completed
    <3>1. /\ InLedger(x, wallets[v]) => Completed(x, NoSession) \in idem
          /\ InLedger(x, row[v]) => Backed(x, v)
      BY DEF RecordInv, AllBacked
    <3>2. walletLock[u] = s
      BY <1>1 DEF RecordInv, AllAtHand, AtHand
    <3>3. CASE InLedger(x, row[v])
      <4>1. walletLock[v] \in Sessions /\ pc[walletLock[v]] = "complete" => pc'[walletLock[v]] = "complete"
        BY <1>1, <2>9
      <4> QED BY <1>3, <3>1, <3>3, <4>1 DEF Backed, Completed
    <3>4. CASE v = u /\ x = r
      <4>1. walletLock'[v] = s /\ pc'[s] = "complete" /\ Head(todo'[s]) = x
        BY <1>3, <2>9, <3>2, <3>4
      <4>2. Backed(x, v)'
        BY <4>1 DEF Backed
      <4> QED BY <3>1, <4>2
    <3> QED BY <3>1, <3>3, <3>4
  <2> QED BY <1>3, <2>8, <2>10, <2>11, <2>12 DEF RecordInv, OneRecord
<1> QED BY <1>2, <1>3 DEF ApplyMutation, Goto

\* The completed record: the entry it stands for is in the row its session holds.
LEMMA CompleteRecords ==
  ASSUME Typed, RecordInv, NEW s \in Sessions, Complete(s)
  PROVE  RecordInv'
<1> DEFINE r == Head(todo[s])
           old == NewRecord(s, r)
           done == Completed(r, s)
<1>1. r \in Requests /\ r.user \in Users /\ pc[s] = "complete" /\ todo[s] # <<>>
  BY RequestUser DEF Complete, Typed, HeadOK
<1>2. old \in idem /\ walletLock[r.user] = s /\ InLedger(r, row[r.user])
  BY <1>1 DEF RecordInv, AllAtHand, AtHand
<1>3. {q \in idem : q.by = s /\ q.req = r} = {old}
  BY <1>2 DEF RecordInv, OneRecord, NewRecord
<1>4. idem' = (idem \ {old}) \cup {done}
  <2>1. [old EXCEPT !.status = "completed"] = done
    BY DEF NewRecord, Completed
  <2> QED BY <1>3, <2>1 DEF Complete
<1>5. /\ UNCHANGED <<wallets, row, walletLock>>
      /\ \A t \in Sessions : t # s => pc'[t] = pc[t] /\ todo'[t] = todo[t]
      /\ pc'[s] = "step"
  BY DEF Complete, Goto, moneyVars, Typed, TypeOK
<1>6. \A v \in Users, x \in Requests :
        InLedger(x, wallets[v])' = InLedger(x, wallets[v]) /\ InLedger(x, row[v])' = InLedger(x, row[v])
  BY <1>5 DEF InLedger
<1>7. done.req = r /\ done.by = s /\ old.req = r /\ old.by = s /\ old.status = "pending"
  BY DEF NewRecord, Completed
<1>8. NoSession \notin Sessions
  BY WalletAssumption
<1> HIDE DEF old, done
<1>9. OneRecord'
  BY <1>2, <1>4, <1>7 DEF RecordInv, OneRecord
<1>10. AllOnce'
  BY <1>5 DEF RecordInv, AllOnce, EntersOnce
<1>11. AllAtHand'
  <2> SUFFICES ASSUME NEW t \in Sessions, pc'[t] \in {"lock", "apply", "complete"}
               PROVE  AtHand(t, Head(todo[t]))'
    BY DEF AllAtHand, AtHand
  <2>1. PICK h : h = Head(todo[t])
    OBVIOUS
  <2>2. t # s /\ pc'[t] = pc[t] /\ Head(todo'[t]) = h
    BY <1>5, <2>1
  <2>3. h \in Requests /\ h.user \in Users /\ AtHand(t, h)
    BY <2>1, <2>2, RequestUser DEF Typed, HeadOK, RecordInv, AllAtHand
  <2>4. NewRecord(t, h) # old
    BY <1>7, <2>2 DEF NewRecord
  <2>5. AtHand(t, h)'
    BY <1>4, <1>5, <1>6, <2>2, <2>3, <2>4 DEF AtHand, NewRecord
  <2> QED BY <2>2, <2>5
<1>12. AllPosted'
  <2> SUFFICES ASSUME NEW q \in idem \cup {done}, q # old, q.status = "completed" PROVE Posted(q)'
    BY <1>4, <1>7 DEF AllPosted, Completed
  <2>1. CASE q = done
    BY <1>1, <1>2, <1>5, <1>6, <1>7, <1>8, <2>1 DEF Posted
  <2>2. CASE q \in idem
    <3>1. q.req \in Requests /\ q.req.user \in Users /\ Posted(q)
      BY <2>2, RequestUser DEF Typed, TypeOK, Records, RecordInv, AllPosted
    <3> QED BY <1>5, <1>6, <3>1 DEF Posted
  <2> QED BY <2>1, <2>2
<1>13. AllBacked'
  <2> SUFFICES ASSUME NEW v \in Users, NEW x \in Requests
               PROVE  /\ InLedger(x, wallets[v]) => Completed(x, NoSession) \in idem'
                      /\ InLedger(x, row[v]) => Backed(x, v)'
    BY <1>6 DEF AllBacked, Completed
  <2>1. /\ InLedger(x, wallets[v]) => Completed(x, NoSession) \in idem
        /\ InLedger(x, row[v]) => Backed(x, v)
    BY DEF RecordInv, AllBacked
  <2>2. \A b : Completed(x, b) \in idem => Completed(x, b) \in idem'
    BY <1>4, <1>7 DEF Completed
  <2>3. CASE walletLock[v] = s /\ x = r
    <3>1. Completed(x, walletLock[v]) \in idem'
      BY <1>4, <2>3 DEF done
    <3> QED BY <1>5, <2>1, <2>2, <2>3, <3>1 DEF Backed, Completed
  <2>4. CASE ~(walletLock[v] = s /\ x = r)
    <3>1. walletLock[v] \in Sessions /\ pc[walletLock[v]] = "complete" /\ Head(todo[walletLock[v]]) = x
            => pc'[walletLock[v]] = "complete" /\ Head(todo'[walletLock[v]]) = x
      BY <1>5, <2>4
    <3> QED BY <1>5, <2>1, <2>2, <3>1 DEF Backed, Completed
  <2> QED BY <2>3, <2>4
<1> QED BY <1>9, <1>10, <1>11, <1>12, <1>13 DEF RecordInv

\* A commit publishes the rows of the session and its records together.
LEMMA CommitRecords ==
  ASSUME Typed, LedgerInv, RecordInv, NEW s \in Sessions, Commit(s)
  PROVE  RecordInv'
<1> DEFINE Published(q) == IF q.by = s THEN [q EXCEPT !.by = NoSession] ELSE q
<1>1. /\ row' = row /\ idem' = {Published(q) : q \in idem}
      /\ wallets' = [u \in Users |-> IF walletLock[u] = s THEN row[u] ELSE wallets[u]]
      /\ walletLock' = [u \in Users |-> IF walletLock[u] = s THEN NoSession ELSE walletLock[u]]
      /\ pc' = [pc EXCEPT ![s] = "idle"] /\ todo' = [todo EXCEPT ![s] = <<>>]
      /\ pc[s] = "step"
  BY DEF Commit, EndSession, Goto
<1>2. NoSession \notin Sessions
  BY WalletAssumption
<1>3. \A u \in Users, r \in Requests : InLedger(r, row[u])' = InLedger(r, row[u])
  BY <1>1 DEF InLedger
<1>4. \A u \in Users, r \in Requests : InLedger(r, wallets[u])' =
        IF walletLock[u] = s THEN InLedger(r, row[u]) ELSE InLedger(r, wallets[u])
  BY <1>1 DEF InLedger
<1>5. \A q \in Records : /\ Published(q).req = q.req /\ Published(q).status = q.status
                         /\ Published(q).by = IF q.by = s THEN NoSession ELSE q.by
  BY DEF Records
<1>6. \A r \in Requests : \A b : Completed(r, b) \in idem =>
        Completed(r, IF b = s THEN NoSession ELSE b) \in idem'
  <2> SUFFICES ASSUME NEW r \in Requests, NEW b, Completed(r, b) \in idem
               PROVE  Completed(r, IF b = s THEN NoSession ELSE b) \in idem'
    OBVIOUS
  <2>1. Published(Completed(r, b)) = Completed(r, IF b = s THEN NoSession ELSE b)
    BY DEF Completed
  <2> QED BY <1>1, <2>1
<1>7. \A t \in Sessions : \A h : t # s /\ NewRecord(t, h) \in idem => NewRecord(t, h) \in idem'
  <2> SUFFICES ASSUME NEW t \in Sessions, NEW h, t # s, NewRecord(t, h) \in idem
               PROVE  NewRecord(t, h) \in idem'
    OBVIOUS
  <2>1. Published(NewRecord(t, h)) = NewRecord(t, h)
    BY DEF NewRecord
  <2> QED BY <1>1, <2>1
<1>8. idem \subseteq Records
  BY DEF Typed, TypeOK
<1> HIDE DEF Published
<1>9. OneRecord'
  <2> SUFFICES ASSUME NEW p \in idem, NEW q \in idem, RecId(Published(p).req) = RecId(Published(q).req)
               PROVE  Published(p) = Published(q)
    BY <1>1 DEF OneRecord
  <2>1. RecId(p.req) = RecId(q.req)
    BY <1>5, <1>8
  <2> QED BY <2>1 DEF RecordInv, OneRecord
<1>10. AllOnce'
  BY <1>1 DEF RecordInv, AllOnce, EntersOnce
<1>11. AllAtHand'
  <2> SUFFICES ASSUME NEW t \in Sessions, pc'[t] \in {"lock", "apply", "complete"}
               PROVE  AtHand(t, Head(todo[t]))'
    BY DEF AllAtHand, AtHand
  <2>1. PICK h : h = Head(todo[t])
    OBVIOUS
  <2>2. t # s /\ pc'[t] = pc[t] /\ Head(todo'[t]) = h
    BY <1>1, <2>1 DEF Typed, TypeOK
  <2>3. h \in Requests /\ h.user \in Users /\ AtHand(t, h)
    BY <2>1, <2>2, RequestUser DEF Typed, HeadOK, RecordInv, AllAtHand
  <2>4. walletLock[h.user] = t => walletLock'[h.user] = t
    BY <1>1, <2>2, <2>3
  <2>5. AtHand(t, h)'
    BY <1>3, <1>7, <2>2, <2>3, <2>4 DEF AtHand, NewRecord
  <2> QED BY <2>2, <2>5
<1>12. AllPosted'
  <2> SUFFICES ASSUME NEW q \in idem, NEW p, p = Published(q), p.status = "completed" PROVE Posted(p)'
    BY <1>1 DEF AllPosted
  <2>1. q.req \in Requests /\ q.req.user \in Users /\ q.by \in Sessions \cup {NoSession}
    BY RequestUser DEF Typed, TypeOK, Records
  <2>2. p.req = q.req /\ q.status = "completed" /\ p.by = IF q.by = s THEN NoSession ELSE q.by
    BY <1>5, <1>8
  <2>3. Posted(q)
    BY <2>2 DEF RecordInv, AllPosted
  <2>4. InLedger(q.req, wallets[q.req.user]) => InLedger(q.req, wallets[q.req.user])'
    <3>1. wallets[q.req.user] \in Wallets /\ row[q.req.user] \in Wallets
      BY <2>1 DEF Typed, TypeOK
    <3>2. InLedger(q.req, wallets[q.req.user]) => InLedger(q.req, row[q.req.user])
      BY <2>1, <3>1, BeginsIn DEF LedgerInv, CommittedFirst
    <3> QED BY <1>4, <2>1, <3>2
  <2> QED BY <1>1, <1>2, <1>3, <1>4, <2>1, <2>2, <2>3, <2>4 DEF Posted
<1>13. AllBacked'
  <2> SUFFICES ASSUME NEW u \in Users, NEW r \in Requests
               PROVE  /\ InLedger(r, wallets[u])' => Completed(r, NoSession) \in idem'
                      /\ InLedger(r, row[u]) => Backed(r, u)'
    BY <1>3 DEF AllBacked, Completed
  <2>1. /\ InLedger(r, wallets[u]) => Completed(r, NoSession) \in idem
        /\ InLedger(r, row[u]) => Backed(r, u)
    BY DEF RecordInv, AllBacked
  <2>2. Completed(r, NoSession) \in idem => Completed(r, NoSession) \in idem'
    BY <1>2, <1>6
  <2>3. CASE walletLock[u] = s
    <3>1. InLedger(r, row[u]) => Completed(r, NoSession) \in idem'
      BY <1>1, <1>6, <2>1, <2>2, <2>3 DEF Backed
    <3> QED BY <1>4, <2>3, <3>1 DEF Backed, Completed
  <2>4. CASE walletLock[u] # s
    <3>1. walletLock'[u] = walletLock[u]
      BY <1>1, <2>4
    <3>2. Completed(r, walletLock[u]) \in idem => Completed(r, walletLock[u]) \in idem'
      BY <1>6, <2>4
    <3>3. walletLock[u] \in Sessions =>
            pc'[walletLock[u]] = pc[walletLock[u]] /\ todo'[walletLock[u]] = todo[walletLock[u]]
      BY <1>1, <2>4 DEF Typed, TypeOK
    <3> QED BY <1>4, <2>1, <2>2, <2>4, <3>1, <3>2, <3>3 DEF Backed, Completed
  <2> QED BY <2>3, <2>4
<1> QED BY <1>9, <1>10, <1>11, <1>12, <1>13 DEF RecordInv

\* A new wallet has no entries, and nobody held the row it takes.
LEMMA EnsureRecords ==
  ASSUME Typed, LedgerInv, RecordInv, NEW s \in Sessions, EnsureDefaultWallet(s)
  PROVE  RecordInv'
<1> DEFINE u == Head(todo[s]).ensure
<1>1. u \in Users /\ pc[s] = "step"
  BY DEF EnsureDefaultWallet, EnsureSteps
<1>2. CASE Rollback(s, "duplicate wallet")
  BY <1>2, RollbackRecords
<1>3. CASE todo' = [todo EXCEPT ![s] = Tail(@)] /\ UNCHANGED <<wallets, row, walletLock, idem, pc>>
  BY <1>1, <1>3, QuietRecords DEF Typed, TypeOK
<1>4. CASE /\ walletLock[u] = NoSession /\ ~wallets[u].open
           /\ row' = [row EXCEPT ![u] = NewWallet]
           /\ walletLock' = [walletLock EXCEPT ![u] = s]
           /\ todo' = [todo EXCEPT ![s] = Tail(@)]
           /\ UNCHANGED <<wallets, idem, pc>>
  <2>1. NoSession \notin Sessions
    BY WalletAssumption
  <2>2. \A r : ~InLedger(r, wallets[u])
    BY <1>1, <1>4 DEF LedgerInv, EmptyUnlessOpen, InLedger
  <2>3. \A r : ~InLedger(r, NewWallet)
    BY DEF InLedger, NewWallet
  <2>4. /\ \A v \in Users : row'[v] = IF v = u THEN NewWallet ELSE row[v]
        /\ \A v \in Users : walletLock'[v] = IF v = u THEN s ELSE walletLock[v]
        /\ \A t \in Sessions : t # s => todo'[t] = todo[t]
    BY <1>4 DEF Typed, TypeOK
  <2>5. \A v \in Users, r \in Requests : InLedger(r, wallets[v])' = InLedger(r, wallets[v])
    BY <1>4 DEF InLedger
  <2>6. \A v \in Users, r \in Requests :
          InLedger(r, row[v])' <=> v # u /\ InLedger(r, row[v])
    <3> SUFFICES ASSUME NEW v \in Users, NEW r \in Requests
                 PROVE  InLedger(r, row[v])' <=> v # u /\ InLedger(r, row[v])
      OBVIOUS
    <3>1. CASE v = u
      BY <2>3, <2>4, <3>1 DEF InLedger
    <3>2. CASE v # u
      BY <2>4, <3>2 DEF InLedger
    <3> QED BY <3>1, <3>2
  <2>7. OneRecord'
    BY <1>4 DEF RecordInv, OneRecord
  <2>8. AllOnce'
    BY <1>4, <2>4 DEF RecordInv, AllOnce, EntersOnce, NewWallet
  <2>9. AllAtHand'
    <3> SUFFICES ASSUME NEW t \in Sessions, pc'[t] \in {"lock", "apply", "complete"}
                 PROVE  AtHand(t, Head(todo[t]))'
      BY DEF AllAtHand, AtHand
    <3>1. PICK h : h = Head(todo[t])
      OBVIOUS
    <3>2. t # s /\ pc'[t] = pc[t] /\ Head(todo'[t]) = h
      BY <1>1, <1>4, <2>4, <3>1
    <3>3. h \in Requests /\ h.user \in Users /\ AtHand(t, h)
      BY <3>1, <3>2, RequestUser DEF Typed, HeadOK, RecordInv, AllAtHand
    <3>4. AtHand(t, h)'
      BY <1>4, <2>1, <2>4, <2>6, <3>2, <3>3 DEF AtHand, NewRecord
    <3> QED BY <3>2, <3>4
  <2>10. AllPosted'
    <3> SUFFICES ASSUME NEW q \in idem, q.status = "completed" PROVE Posted(q)'
      BY <1>4 DEF AllPosted
    <3>1. q.req \in Requests /\ q.req.user \in Users /\ q.by \in Sessions \cup {NoSession} /\ Posted(q)
      BY RequestUser DEF Typed, TypeOK, Records, RecordInv, AllPosted
    <3> QED BY <1>4, <2>1, <2>4, <2>5, <2>6, <3>1 DEF Posted
  <2>11. AllBacked'
    <3> SUFFICES ASSUME NEW v \in Users, NEW r \in Requests
                 PROVE  /\ InLedger(r, wallets[v]) => Completed(r, NoSession) \in idem
                        /\ v # u /\ InLedger(r, row[v]) => Backed(r, v)'
      BY <1>4, <2>5, <2>6 DEF AllBacked, Completed
    <3>1. /\ InLedger(r, wallets[v]) => Completed(r, NoSession) \in idem
          /\ InLedger(r, row[v]) => Backed(r, v)
      BY DEF RecordInv, AllBacked
    <3>2. pc[s] # "complete"
      BY <1>1
    <3> QED BY <1>4, <2>4, <3>1, <3>2 DEF Backed, Completed
  <2> QED BY <2>7, <2>8, <2>9, <2>10, <2>11 DEF RecordInv
<1> QED BY <1>2, <1>3, <1>4 DEF EnsureDefaultWallet, moneyVars

LEMMA InitRecords == Init => RecordInv
<1> SUFFICES ASSUME Init PROVE RecordInv
  OBVIOUS
<1>1. \A u \in Users, r \in Requests : ~InLedger(r, wallets[u]) /\ ~InLedger(r, row[u])
  BY DEF Init, InLedger, NoWallet
<1> QED BY <1>1 DEF Init, RecordInv, OneRecord, AllAtHand, AtHand, AllPosted, AllBacked, AllOnce,
     EntersOnce, NoWallet

LEMMA StepRecords ==
  ASSUME Typed, LedgerInv, RecordInv, [Next]_vars
  PROVE  RecordInv'
<1>1. CASE UNCHANGED <<wallets, row, walletLock, idem, pc, todo>>
  BY <1>1, QuietRecords
<1>2. ASSUME NEW s \in Sessions, FindRecord(s) PROVE RecordInv'
  <2>1. CASE Conflict(s, "mismatch") \/ Conflict(s, "in progress")
    BY <1>2, <2>1, ConflictRecords DEF FindRecord
  <2>2. CASE /\ UNCHANGED <<wallets, row, walletLock, idem>>
             /\ \/ pc' = [pc EXCEPT ![s] = "insert"] /\ todo' = todo
                \/ todo' = [todo EXCEPT ![s] = Tail(@)] /\ pc' = pc
    <3>1. \A t \in Sessions : pc'[t] \in {"lock", "apply", "complete"} \/ pc[t] = "complete" =>
            pc'[t] = pc[t] /\ todo'[t] = todo[t]
      BY <1>2, <2>2 DEF FindRecord, Typed, TypeOK
    <3> QED BY <2>2, <3>1, QuietRecords
  <2> QED BY <1>2, <2>1, <2>2 DEF FindRecord, Goto, moneyVars
<1>3. ASSUME NEW s \in Sessions, LockWallet(s) PROVE RecordInv'
  <2>1. CASE Rollback(s, "not found")
    BY <2>1, RollbackRecords
  <2> DEFINE u == Head(todo[s]).user
  <2>2. CASE /\ walletLock[u] \in {NoSession, s} /\ walletLock' = [walletLock EXCEPT ![u] = s]
             /\ pc' = [pc EXCEPT ![s] = "apply"]
             /\ UNCHANGED <<wallets, row, idem, todo>>
    <3>1. u \in Users /\ pc[s] = "lock"
      BY <1>3, RequestUser DEF LockWallet, Typed, HeadOK
    <3>2. /\ \A v \in Users : walletLock'[v] = walletLock[v] \/ walletLock[v] = NoSession
          /\ walletLock'[u] = s
      BY <2>2, <3>1 DEF Typed, TypeOK
    <3>3. \A t \in Sessions : pc'[t] = IF t = s THEN "apply" ELSE pc[t]
      BY <2>2 DEF Typed, TypeOK
    <3> QED BY <2>2, <3>1, <3>2, <3>3, QuietRecords
  <2> QED BY <1>3, <2>1, <2>2 DEF LockWallet, Goto
<1>4. ASSUME NEW s \in Sessions, NEW script \in Scripts, Begin(s, script) PROVE RecordInv'
  <2>1. \A t \in Sessions : pc'[t] \in {"lock", "apply", "complete"} \/ pc[t] = "complete" =>
          pc'[t] = pc[t] /\ todo'[t] = todo[t]
    BY <1>4 DEF Begin, Goto, Typed, TypeOK
  <2> QED BY <1>4, <2>1, QuietRecords DEF Begin, moneyVars
<1>5. ASSUME NEW s \in Sessions, Crash(s) \/ LockWaitAbort(s) PROVE RecordInv'
  BY <1>5, RollbackRecords DEF Crash, LockWaitAbort
<1>6. ASSUME NEW s \in Sessions, Progress(s) PROVE RecordInv'
  BY <1>2, <1>3, <1>5, <1>6, EnsureRecords, InsertRecords, ApplyRecords, CompleteRecords, CommitRecords
     DEF Progress
<1>7. ASSUME \/ \E u \in Users : \/ ReadWagerLimit(u) \/ DeleteWagerLimit(u)
                                 \/ \E l \in Limits : SaveWagerLimit(u, l)
             \/ Tick \/ UNCHANGED vars
      PROVE  UNCHANGED <<wallets, row, walletLock, idem, pc, todo>>
  BY <1>7 DEF ReadWagerLimit, DeleteWagerLimit, SaveWagerLimit, Tick, vars, moneyVars, sessionVars
<1> QED BY <1>1, <1>4, <1>5, <1>6, <1>7 DEF Next

\* IdempotencyService: a committed completed record stands for exactly one committed entry and
\* every entry has its record, so that a retry is answered from it and moves nothing.
THEOREM RecordsAreKept == Spec => []RecordsMatchLedger
<1>1. Typed /\ RecordInv => RecordsMatchLedger
  <2> SUFFICES ASSUME Typed, RecordInv PROVE RecordsMatchLedger
    OBVIOUS
  <2> DEFINE kept == {q.req : q \in {p \in idem : p.by = NoSession /\ p.status = "completed"}}
  <2>1. \A r : r \in Done <=> \E u \in Users : InLedger(r, wallets[u])
    BY DEF Done, InLedger
  <2>2. ASSUME NEW q \in idem, q.by = NoSession, q.status = "completed" PROVE q.req \in Done
    <3>1. q.req.user \in Users
      BY RequestUser DEF Typed, TypeOK, Records
    <3>2. InLedger(q.req, wallets[q.req.user])
      BY <2>2 DEF RecordInv, AllPosted, Posted
    <3> QED BY <2>1, <3>1, <3>2
  <2>3. ASSUME NEW r \in Done PROVE r \in kept
    <3>1. PICK u \in Users : InLedger(r, wallets[u])
      BY <2>1
    <3>2. PICK i \in DOMAIN wallets[u].ledger : wallets[u].ledger[i].req = r
      BY <3>1 DEF InLedger
    <3>3. wallets[u].ledger \in Seq(Entries)
      BY DEF Typed, TypeOK, Wallets
    <3>4. r \in Requests
      <4>1. wallets[u].ledger[i] \in Entries
        BY <3>2, <3>3
      <4> QED BY <3>2, <4>1 DEF Entries
    <3>5. Completed(r, NoSession) \in idem
      BY <3>1, <3>4 DEF RecordInv, AllBacked
    <3> QED BY <3>5 DEF Completed
  <2>4. kept = Done
    BY <2>2, <2>3
  <2>5. \A u \in Users : EntersOnce(wallets[u])
    BY DEF RecordInv, AllOnce
  <2> QED BY <2>4, <2>5 DEF RecordsMatchLedger, EntersOnce
<1>2. Typed /\ LedgerInv /\ RecordInv /\ [Next]_vars => RecordInv'
  BY StepRecords
<1>3. Typed /\ LedgerInv /\ [Next]_vars => LedgerInv'
  BY StepLedger
<1> QED BY InitTyped, NextTyped, InitLedger, InitRecords, <1>1, <1>2, <1>3, PTL DEF Spec

-----------------------------------------------------------------------------
(***************************************************************************)
(* platform_stats.  What a session has written and not committed shows in  *)
(* the rows it holds: there, its entries and its increments of the         *)
(* statistics are the same sum, but for the entry it has just made.        *)
(***************************************************************************)
Gain(s, k, u) == IF walletLock[u] = s THEN Counted(row[u].ledger, k) - Counted(wallets[u].ledger, k) ELSE 0
Gained(s, k) == SumFunctionOnSet([u \in Users |-> Gain(s, k, u)], Users)
Upserted(s, k) == IF statsLock = s THEN statsRow[k] - stats[k] ELSE 0
CountedAs(r, k) == IF r.entry = k THEN r.amount ELSE 0
Pending(s, k) == IF pc[s] = "complete" THEN CountedAs(Head(todo[s]), k) ELSE 0

FreeRowsAgree == /\ \A u \in Users : walletLock[u] = NoSession => row[u] = wallets[u]
                 /\ statsLock = NoSession => statsRow = stats
GainsMatch == \A s \in Sessions, k \in Kinds : Gained(s, k) = Upserted(s, k) + Pending(s, k)

StatsInv == FreeRowsAgree /\ GainsMatch /\ StatsMatchLedger

LEMMA EntryAmount == ASSUME NEW e \in Entries PROVE e.req \in Requests /\ e.req.amount \in Nat
BY WalletAssumption DEF Entries

\* A ledger counts natural numbers.
LEMMA CountedNat ==
  ASSUME NEW l \in Seq(Entries), NEW k
  PROVE  Counted(l, k) \in Nat
<1> DEFINE f == [i \in DOMAIN l |-> IF l[i].req.entry = k THEN l[i].req.amount ELSE 0]
<1>1. IsFiniteSet(DOMAIN l)
  <2>1. Len(l) \in Nat /\ DOMAIN l = 1..Len(l)
    OBVIOUS
  <2> QED BY <2>1, UpTo
<1>2. \A i \in DOMAIN l : f[i] \in Nat
  <2> TAKE i \in DOMAIN l
  <2>1. l[i] \in Entries
    OBVIOUS
  <2> QED BY <2>1, EntryAmount
<1> HIDE DEF f
<1>3. SumFunctionOnSet(f, DOMAIN l) \in Nat
  BY <1>1, <1>2, SumNat
<1> QED BY <1>3 DEF Counted, f

LEMMA CountedEmpty == ASSUME NEW k PROVE Counted(<<>>, k) = 0
BY SumEmpty DEF Counted

\* One more entry counts for its amount.
LEMMA CountedAppend ==
  ASSUME NEW l \in Seq(Entries), NEW e \in Entries, NEW k
  PROVE  Counted(CreateEntry(l, e), k) = Counted(l, k) + CountedAs(e.req, k)
<1> DEFINE f(q) == [i \in DOMAIN q |-> IF q[i].req.entry = k THEN q[i].req.amount ELSE 0]
           m == Append(l, e)
           n == Len(l) + 1
           g == f(m)
<1>1. /\ Len(l) \in Nat /\ DOMAIN l = 1..Len(l) /\ m \in Seq(Entries)
      /\ DOMAIN m = DOMAIN l \cup {n} /\ n \notin DOMAIN l
      /\ m[n] = e /\ \A i \in DOMAIN l : m[i] = l[i]
  OBVIOUS
<1>2. IsFiniteSet(DOMAIN l)
  BY <1>1, UpTo
<1>3. \A i \in DOMAIN m : g[i] \in Int
  <2> TAKE i \in DOMAIN m
  <2>1. m[i] \in Entries
    BY <1>1
  <2>2. m[i].req.amount \in Nat
    BY <2>1, EntryAmount
  <2>3. g[i] = IF m[i].req.entry = k THEN m[i].req.amount ELSE 0
    OBVIOUS
  <2> HIDE DEF m, g
  <2> QED BY <2>2, <2>3
<1>4. g[n] = CountedAs(e.req, k) /\ \A i \in DOMAIN l : g[i] = f(l)[i]
  BY <1>1 DEF CountedAs
<1> HIDE DEF f, g
<1>5. SumFunctionOnSet(g, DOMAIN l \cup {n}) = SumFunctionOnSet(g, DOMAIN l) + g[n]
  <2>1. \A i \in DOMAIN l \cup {n} : g[i] \in Int
    BY <1>1, <1>3
  <2> HIDE DEF n, m
  <2> QED BY <1>1, <1>2, <2>1, SumAdd
<1>6. SumFunctionOnSet(g, DOMAIN l) = SumFunctionOnSet(f(l), DOMAIN l)
  BY <1>2, <1>4, SumEqual
<1>7. Counted(l, k) = SumFunctionOnSet(f(l), DOMAIN l)
  BY DEF Counted, f
<1>8. Counted(CreateEntry(l, e), k) = SumFunctionOnSet(g, DOMAIN m)
  BY DEF Counted, CreateEntry, f, g
<1> QED BY <1>1, <1>4, <1>5, <1>6, <1>7, <1>8

\* What a session gained depends on the rows it holds, and is nothing without any.
LEMMA GainInt ==
  ASSUME Typed, NEW s, NEW k, NEW u \in Users
  PROVE  Gain(s, k, u) \in Int
<1>1. Counted(row[u].ledger, k) \in Nat /\ Counted(wallets[u].ledger, k) \in Nat
  BY CountedNat DEF Typed, TypeOK, Wallets
<1> QED BY <1>1 DEF Gain

LEMMA GainedSame ==
  ASSUME NEW s, NEW k, \A u \in Users : Gain(s, k, u)' = Gain(s, k, u)
  PROVE  Gained(s, k)' = Gained(s, k)
<1>1. SumFunctionOnSet([u \in Users |-> Gain(s, k, u)'], Users)
        = SumFunctionOnSet([u \in Users |-> Gain(s, k, u)], Users)
  BY SumEqual, UsersAssumption
<1> QED BY <1>1 DEF Gained

LEMMA GainedNothing ==
  ASSUME NEW s, NEW k, \A u \in Users : Gain(s, k, u)' = 0
  PROVE  Gained(s, k)' = 0
<1>1. SumFunctionOnSet([u \in Users |-> Gain(s, k, u)'], Users) = 0
  BY SumZero, UsersAssumption
<1> QED BY <1>1 DEF Gained

LEMMA GainedInt ==
  ASSUME Typed, NEW s, NEW k
  PROVE  Gained(s, k) \in Int
<1> DEFINE f == [u \in Users |-> Gain(s, k, u)]
<1>1. \A u \in Users : f[u] \in Int
  BY GainInt
<1> HIDE DEF f
<1>2. SumFunctionOnSet(f, Users) \in Int
  BY <1>1, SumInt, UsersAssumption
<1> QED BY <1>2 DEF Gained, f

\* A step may take free locks and move sessions between places other than "complete".
LEMMA QuietStats ==
  ASSUME Typed, StatsInv, UNCHANGED <<wallets, row, stats, statsRow, statsLock>>,
         \A u \in Users : \/ walletLock'[u] = walletLock[u]
                          \/ walletLock[u] = NoSession /\ walletLock'[u] \in Sessions,
         \A t \in Sessions : pc[t] = "complete" \/ pc'[t] = "complete" =>
           pc'[t] = pc[t] /\ todo'[t] = todo[t]
  PROVE  StatsInv'
<1>1. FreeRowsAgree'
  BY WalletAssumption DEF StatsInv, FreeRowsAgree
<1>2. ASSUME NEW t \in Sessions, NEW k \in Kinds
      PROVE  Gained(t, k)' = Upserted(t, k)' + Pending(t, k)'
  <2>1. \A u \in Users : Gain(t, k, u)' = Gain(t, k, u)
    <3> TAKE u \in Users
    <3>1. CASE walletLock'[u] = walletLock[u]
      BY <3>1 DEF Gain
    <3>2. CASE walletLock[u] = NoSession
      <4>1. Counted(row[u].ledger, k) = Counted(wallets[u].ledger, k)
        BY <3>2 DEF StatsInv, FreeRowsAgree
      <4>2. Counted(wallets[u].ledger, k) \in Nat
        BY CountedNat DEF Typed, TypeOK, Wallets
      <4> QED BY <4>1, <4>2, <3>2, WalletAssumption DEF Gain
    <3> QED BY <3>1, <3>2
  <2>2. Gained(t, k)' = Gained(t, k)
    BY <2>1, GainedSame
  <2>3. Upserted(t, k)' = Upserted(t, k) /\ Pending(t, k)' = Pending(t, k)
    BY DEF Upserted, Pending
  <2> QED BY <2>2, <2>3 DEF StatsInv, GainsMatch
<1>3. StatsMatchLedger'
  BY DEF StatsInv, StatsMatchLedger
<1> QED BY <1>1, <1>2, <1>3 DEF StatsInv, GainsMatch

\* The end of a transaction leaves alone what another one holds.
LEMMA OthersStats ==
  ASSUME Typed, StatsInv, NEW s \in Sessions, NEW t \in Sessions, t # s, NEW k \in Kinds,
         pc'[t] = pc[t], todo'[t] = todo[t],
         walletLock' = [u \in Users |-> IF walletLock[u] = s THEN NoSession ELSE walletLock[u]],
         statsLock' = IF statsLock = s THEN NoSession ELSE statsLock,
         \A u \in Users : walletLock[u] = t => row'[u] = row[u] /\ wallets'[u] = wallets[u],
         statsLock = t => statsRow' = statsRow /\ stats' = stats
  PROVE  Gained(t, k)' = Upserted(t, k)' + Pending(t, k)'
<1>1. \A u \in Users : Gain(t, k, u)' = Gain(t, k, u)
  BY WalletAssumption DEF Gain
<1>2. Gained(t, k)' = Gained(t, k)
  BY <1>1, GainedSame
<1>3. Upserted(t, k)' = Upserted(t, k) /\ Pending(t, k)' = Pending(t, k)
  BY WalletAssumption DEF Upserted, Pending
<1> QED BY <1>2, <1>3 DEF StatsInv, GainsMatch

\* A session that holds nothing has gained nothing.
LEMMA EndedStats ==
  ASSUME NEW s \in Sessions, NEW k \in Kinds, pc'[s] = "idle",
         walletLock' = [u \in Users |-> IF walletLock[u] = s THEN NoSession ELSE walletLock[u]],
         statsLock' = IF statsLock = s THEN NoSession ELSE statsLock
  PROVE  Gained(s, k)' = Upserted(s, k)' + Pending(s, k)'
<1>1. \A u \in Users : Gain(s, k, u)' = 0
  BY WalletAssumption DEF Gain
<1>2. Gained(s, k)' = 0
  BY <1>1, GainedNothing
<1> QED BY <1>2, WalletAssumption DEF Upserted, Pending

LEMMA RollbackStats ==
  ASSUME Typed, StatsInv, NEW s \in Sessions, NEW answer, Rollback(s, answer)
  PROVE  StatsInv'
<1>1. /\ row' = [u \in Users |-> IF walletLock[u] = s THEN wallets[u] ELSE row[u]]
      /\ walletLock' = [u \in Users |-> IF walletLock[u] = s THEN NoSession ELSE walletLock[u]]
      /\ statsLock' = IF statsLock = s THEN NoSession ELSE statsLock
      /\ statsRow' = IF statsLock = s THEN stats ELSE statsRow
      /\ pc' = [pc EXCEPT ![s] = "idle"] /\ todo' = [todo EXCEPT ![s] = <<>>]
      /\ wallets' = wallets /\ stats' = stats
  BY DEF Rollback, RestoreRows, EndSession, Goto
<1>2. pc'[s] = "idle" /\ \A t \in Sessions \ {s} : pc'[t] = pc[t] /\ todo'[t] = todo[t]
  BY <1>1 DEF Typed, TypeOK
<1>3. FreeRowsAgree'
  BY <1>1 DEF StatsInv, FreeRowsAgree
<1>4. ASSUME NEW t \in Sessions, NEW k \in Kinds
      PROVE  Gained(t, k)' = Upserted(t, k)' + Pending(t, k)'
  <2>1. CASE t = s
    BY <1>1, <1>2, <2>1, EndedStats
  <2>2. CASE t # s
    <3>1. /\ \A u \in Users : walletLock[u] = t => row'[u] = row[u] /\ wallets'[u] = wallets[u]
          /\ statsLock = t => statsRow' = statsRow /\ stats' = stats
      BY <1>1, <2>2
    <3> QED BY <1>1, <1>2, <2>2, <3>1, OthersStats
  <2> QED BY <2>1, <2>2
<1>5. StatsMatchLedger'
  BY <1>1 DEF StatsInv, StatsMatchLedger
<1> QED BY <1>3, <1>4, <1>5 DEF StatsInv, GainsMatch

LEMMA ConflictStats ==
  ASSUME Typed, StatsInv, NEW s \in Sessions, pc[s] # "complete", NEW answer, Conflict(s, answer)
  PROVE  StatsInv'
<1>1. CASE alt[s] = <<>>
  BY <1>1, RollbackStats DEF Conflict
<1>2. CASE alt[s] # <<>>
  <2>1. /\ todo' = [todo EXCEPT ![s] = alt[s]] /\ pc' = [pc EXCEPT ![s] = "step"]
        /\ UNCHANGED <<wallets, row, walletLock, stats, statsRow, statsLock>>
    BY <1>2 DEF Conflict, Goto, moneyVars, statsVars
  <2>2. \A t \in Sessions : pc[t] = "complete" \/ pc'[t] = "complete" =>
          pc'[t] = pc[t] /\ todo'[t] = todo[t]
    BY <2>1 DEF Typed, TypeOK
  <2> QED BY <2>1, <2>2, QuietStats
<1> QED BY <1>1, <1>2

\* A new wallet has no entries, and neither had the committed one it stands for.
LEMMA EnsureStats ==
  ASSUME Typed, LedgerInv, StatsInv, NEW s \in Sessions, EnsureDefaultWallet(s)
  PROVE  StatsInv'
<1>1. Head(todo[s]).ensure \in Users /\ pc[s] = "step"
  BY DEF EnsureDefaultWallet, EnsureSteps
<1>h. PICK h \in Users : h = Head(todo[s]).ensure
  BY <1>1
<1>2. CASE /\ todo' = [todo EXCEPT ![s] = Tail(@)] /\ pc' = pc
           /\ UNCHANGED <<wallets, row, walletLock, stats, statsRow, statsLock>>
  <2>1. \A t \in Sessions : pc[t] = "complete" \/ pc'[t] = "complete" =>
          pc'[t] = pc[t] /\ todo'[t] = todo[t]
    BY <1>1, <1>2 DEF Typed, TypeOK
  <2> QED BY <1>2, <2>1, QuietStats
<1>3. CASE /\ walletLock[h] = NoSession /\ ~wallets[h].open
           /\ row' = [row EXCEPT ![h] = NewWallet]
           /\ walletLock' = [walletLock EXCEPT ![h] = s]
           /\ todo' = [todo EXCEPT ![s] = Tail(@)] /\ pc' = pc
           /\ UNCHANGED <<wallets, stats, statsRow, statsLock>>
  <2>1. /\ row'[h].ledger = <<>> /\ wallets[h].ledger = <<>> /\ walletLock'[h] = s
        /\ \A u \in Users \ {h} : row'[u] = row[u] /\ walletLock'[u] = walletLock[u]
    BY <1>1, <1>3 DEF Typed, TypeOK, LedgerInv, EmptyUnlessOpen, NewWallet
  <2>2. \A t \in Sessions : pc'[t] = pc[t] /\ (pc[t] = "complete" => todo'[t] = todo[t])
    BY <1>1, <1>3 DEF Typed, TypeOK
  <2>3. FreeRowsAgree'
    BY <1>3, <2>1, WalletAssumption DEF StatsInv, FreeRowsAgree
  <2>4. ASSUME NEW t \in Sessions, NEW k \in Kinds
        PROVE  Gained(t, k)' = Upserted(t, k)' + Pending(t, k)'
    <3>1. \A u \in Users : Gain(t, k, u)' = Gain(t, k, u)
      <4> TAKE u \in Users
      <4>1. CASE u # h
        BY <1>3, <2>1, <4>1 DEF Gain
      <4>2. CASE u = h
        <5>1. Gain(t, k, h) = 0
          BY <1>3, WalletAssumption DEF Gain
        <5>2. Gain(t, k, h)' = 0
          BY <1>3, <2>1, CountedEmpty DEF Gain
        <5> QED BY <4>2, <5>1, <5>2
      <4> QED BY <4>1, <4>2
    <3>2. Gained(t, k)' = Gained(t, k)
      BY <3>1, GainedSame
    <3>3. Upserted(t, k)' = Upserted(t, k)
      BY <1>3 DEF Upserted
    <3>4. Pending(t, k)' = Pending(t, k)
      BY <2>2 DEF Pending
    <3> QED BY <3>2, <3>3, <3>4 DEF StatsInv, GainsMatch
  <2>5. StatsMatchLedger'
    BY <1>3 DEF StatsInv, StatsMatchLedger
  <2> QED BY <2>3, <2>4, <2>5 DEF StatsInv, GainsMatch
<1>4. CASE Rollback(s, "duplicate wallet")
  BY <1>4, RollbackStats
<1> QED BY <1>h, <1>2, <1>3, <1>4 DEF EnsureDefaultWallet, moneyVars, statsVars

\* An accepted movement is one more entry in a row the session holds: its upsert is pending.
LEMMA ApplyStats ==
  ASSUME Typed, LedgerInv, StatsInv, NEW s \in Sessions, ApplyMutation(s)
  PROVE  StatsInv'
<1>1. PICK r \in Requests : r = Head(todo[s])
  BY DEF ApplyMutation, Typed, HeadOK
<1>2. PICK h \in Users : h = r.user
  BY WalletAssumption
<1>3. pc[s] = "apply"
  BY DEF ApplyMutation
<1>4. CASE Conflict(s, "limit") \/ Conflict(s, "short") \/ Rollback(s, "duplicate row")
  BY <1>3, <1>4, ConflictStats, RollbackStats
<1>5. PICK entry : entry = [req |-> r, after |-> Balance(s, r), at |-> now]
  OBVIOUS
<1>6. CASE /\ ~Short(r)
           /\ row' = [row EXCEPT ![h] = WalletAfter(row[h], entry, snap[s].avail[h])]
           /\ pc' = [pc EXCEPT ![s] = "complete"] /\ todo' = todo
           /\ UNCHANGED <<wallets, walletLock, stats, statsRow, statsLock>>
  <2>1. entry \in Entries /\ entry.req = r
    BY <1>5, <1>6, BalanceTyped DEF Entries, Typed, TypeOK
  <2>2. row[h] \in Wallets /\ row[h].ledger \in Seq(Entries) /\ wallets[h].ledger \in Seq(Entries)
    BY DEF Typed, TypeOK, Wallets
  <2>3. walletLock[h] = s
    BY <1>1, <1>2, <1>3 DEF LedgerInv, LockedInApply
  <2>4. /\ row'[h].ledger = CreateEntry(row[h].ledger, entry)
        /\ \A u \in Users \ {h} : row'[u] = row[u]
    BY <1>6, <2>2 DEF WalletAfter, Wallets, Typed, TypeOK
  <2>5. FreeRowsAgree'
    BY <1>6, <2>3, <2>4, WalletAssumption DEF StatsInv, FreeRowsAgree
  <2>6. \A t \in Sessions : pc'[t] = IF t = s THEN "complete" ELSE pc[t]
    BY <1>6 DEF Typed, TypeOK
  <2>7. ASSUME NEW k \in Kinds PROVE Gained(s, k)' = Upserted(s, k)' + Pending(s, k)'
    <3>1. Gain(s, k, h)' = Gain(s, k, h) + CountedAs(r, k)
      <4>1. Counted(row'[h].ledger, k) = Counted(row[h].ledger, k) + CountedAs(r, k)
        BY <2>1, <2>2, <2>4, CountedAppend
      <4>2. /\ Counted(row[h].ledger, k) \in Nat /\ Counted(wallets[h].ledger, k) \in Nat
            /\ CountedAs(r, k) \in Nat
        BY <2>2, CountedNat, WalletAssumption DEF CountedAs
      <4> QED BY <1>6, <2>3, <4>1, <4>2 DEF Gain
    <3>2. \A u \in Users \ {h} : Gain(s, k, u)' = Gain(s, k, u)
      BY <1>6, <2>4 DEF Gain
    <3>3. \A u \in Users : Gain(s, k, u) \in Int /\ Gain(s, k, u)' \in Int
      <4>1. CountedAs(r, k) \in Nat
        BY WalletAssumption DEF CountedAs
      <4> QED BY <3>1, <3>2, <4>1, GainInt
    <3> DEFINE f == [u \in Users |-> Gain(s, k, u)]
               g == [u \in Users |-> Gain(s, k, u)']
    <3>4. SumFunctionOnSet(g, Users) = SumFunctionOnSet(f, Users) - f[h] + g[h]
      <4>1. /\ \A u \in Users : f[u] \in Int /\ g[u] \in Int
            /\ \A u \in Users \ {h} : g[u] = f[u]
        BY <3>2, <3>3
      <4> HIDE DEF f, g
      <4> QED BY <4>1, SumChange, UsersAssumption
    <3>5. Gained(s, k)' = Gained(s, k) + CountedAs(r, k)
      <4>1. Gained(s, k)' = SumFunctionOnSet(g, Users) /\ Gained(s, k) = SumFunctionOnSet(f, Users)
        BY DEF Gained
      <4>2. f[h] = Gain(s, k, h) /\ g[h] = Gain(s, k, h) + CountedAs(r, k)
        BY <3>1
      <4>3. Gain(s, k, h) \in Int /\ CountedAs(r, k) \in Nat /\ Gained(s, k) \in Int
        BY GainInt, GainedInt, WalletAssumption DEF CountedAs
      <4> HIDE DEF f, g
      <4> QED BY <3>4, <4>1, <4>2, <4>3
    <3>6. Gained(s, k) = Upserted(s, k) + 0 /\ Upserted(s, k) \in Int
      <4>1. Pending(s, k) = 0
        BY <1>3 DEF Pending
      <4>2. stats[k] \in Nat /\ statsRow[k] \in Nat
        BY DEF Typed, TypeOK
      <4> QED BY <4>1, <4>2 DEF StatsInv, GainsMatch, Upserted
    <3>7. Upserted(s, k)' = Upserted(s, k) /\ Pending(s, k)' = CountedAs(r, k)
      BY <1>1, <1>6, <2>6 DEF Upserted, Pending
    <3> QED BY <3>5, <3>6, <3>7
  <2>8. ASSUME NEW t \in Sessions, t # s, NEW k \in Kinds
        PROVE  Gained(t, k)' = Upserted(t, k)' + Pending(t, k)'
    <3>1. \A u \in Users : Gain(t, k, u)' = Gain(t, k, u)
      BY <1>6, <2>3, <2>4, <2>8 DEF Gain
    <3>2. Gained(t, k)' = Gained(t, k)
      BY <3>1, GainedSame
    <3>3. Upserted(t, k)' = Upserted(t, k) /\ Pending(t, k)' = Pending(t, k)
      BY <1>6, <2>6, <2>8 DEF Upserted, Pending
    <3> QED BY <3>2, <3>3 DEF StatsInv, GainsMatch
  <2>9. StatsMatchLedger'
    BY <1>6 DEF StatsInv, StatsMatchLedger
  <2> QED BY <2>5, <2>7, <2>8, <2>9 DEF StatsInv, GainsMatch
<1> QED BY <1>1, <1>2, <1>4, <1>5, <1>6 DEF ApplyMutation, Goto, statsVars

\* The upsert takes what was pending into the statistics.
LEMMA CompleteStats ==
  ASSUME Typed, StatsInv, NEW s \in Sessions, Complete(s)
  PROVE  StatsInv'
<1>1. PICK r \in Requests : r = Head(todo[s])
  BY DEF Complete, Typed, HeadOK
<1>2. /\ pc[s] = "complete" /\ pc' = [pc EXCEPT ![s] = "step"]
      /\ todo' = [todo EXCEPT ![s] = Tail(@)]
      /\ UNCHANGED <<wallets, row, walletLock, stats>>
  BY DEF Complete, Goto, moneyVars
<1>3. IF r.entry \in Kinds
        THEN /\ statsLock \in {NoSession, s} /\ statsLock' = s
             /\ statsRow' = [statsRow EXCEPT ![r.entry] = @ + r.amount]
        ELSE UNCHANGED <<statsRow, statsLock>>
  BY <1>1 DEF Complete, StatsAfter
<1>4. \A t \in Sessions : /\ pc'[t] = IF t = s THEN "step" ELSE pc[t]
                          /\ t # s => todo'[t] = todo[t]
  BY <1>2 DEF Typed, TypeOK
<1>5. FreeRowsAgree'
  BY <1>2, <1>3, WalletAssumption DEF StatsInv, FreeRowsAgree
<1>6. ASSUME NEW t \in Sessions, NEW k \in Kinds
      PROVE  Gained(t, k)' = Upserted(t, k)' + Pending(t, k)'
  <2>1. Gained(t, k)' = Gained(t, k)
    <3>1. \A u \in Users : Gain(t, k, u)' = Gain(t, k, u)
      BY <1>2 DEF Gain
    <3> QED BY <3>1, GainedSame
  <2>2. Gained(t, k) = Upserted(t, k) + Pending(t, k)
    BY DEF StatsInv, GainsMatch
  <2>3. CASE t # s
    <3>1. Upserted(t, k)' = Upserted(t, k)
      BY <1>2, <1>3, <2>3, WalletAssumption DEF Upserted
    <3>2. Pending(t, k)' = Pending(t, k)
      BY <1>4, <2>3 DEF Pending
    <3> QED BY <2>1, <2>2, <3>1, <3>2
  <2>4. CASE t = s
    <3>1. Pending(s, k) = CountedAs(r, k) /\ Pending(s, k)' = 0
      BY <1>1, <1>2, <1>4 DEF Pending
    <3>2. /\ stats[k] \in Nat /\ statsRow[k] \in Nat /\ r.amount \in Nat
          /\ statsRow \in [Kinds -> Nat]
      BY WalletAssumption DEF Typed, TypeOK
    <3>3. Upserted(s, k)' = Upserted(s, k) + CountedAs(r, k)
      <4>1. CASE r.entry \in Kinds
        <5>1. statsRow'[k] = statsRow[k] + CountedAs(r, k)
          BY <1>3, <3>2, <4>1 DEF CountedAs
        <5>2. Upserted(s, k) = statsRow[k] - stats[k]
          BY <1>3, <3>2, <4>1, WalletAssumption DEF Upserted, StatsInv, FreeRowsAgree
        <5>3. Upserted(s, k)' = statsRow'[k] - stats[k]
          BY <1>2, <1>3, <4>1 DEF Upserted
        <5>4. CountedAs(r, k) \in Nat
          BY <3>2 DEF CountedAs
        <5> QED BY <3>2, <5>1, <5>2, <5>3, <5>4
      <4>2. CASE r.entry \notin Kinds
        <5>1. CountedAs(r, k) = 0 /\ Upserted(s, k)' = Upserted(s, k)
          BY <1>2, <1>3, <4>2 DEF CountedAs, Upserted
        <5> QED BY <3>2, <5>1 DEF Upserted
      <4> QED BY <4>1, <4>2
    <3>4. Upserted(s, k) \in Int /\ CountedAs(r, k) \in Nat
      BY <3>2 DEF Upserted, CountedAs
    <3> QED BY <2>1, <2>2, <2>4, <3>1, <3>3, <3>4
  <2> QED BY <2>3, <2>4
<1>7. StatsMatchLedger'
  BY <1>2 DEF StatsInv, StatsMatchLedger
<1> QED BY <1>5, <1>6, <1>7 DEF StatsInv, GainsMatch

\* A commit adds to both sides what the session has gained.
LEMMA CommitStats ==
  ASSUME Typed, StatsInv, NEW s \in Sessions, Commit(s)
  PROVE  StatsInv'
<1>1. /\ wallets' = [u \in Users |-> IF walletLock[u] = s THEN row[u] ELSE wallets[u]]
      /\ walletLock' = [u \in Users |-> IF walletLock[u] = s THEN NoSession ELSE walletLock[u]]
      /\ statsLock' = IF statsLock = s THEN NoSession ELSE statsLock
      /\ stats' = IF statsLock = s THEN statsRow ELSE stats
      /\ pc[s] = "step"
      /\ pc' = [pc EXCEPT ![s] = "idle"] /\ todo' = [todo EXCEPT ![s] = <<>>]
      /\ row' = row /\ statsRow' = statsRow
  BY DEF Commit, EndSession, Goto
<1>2. pc'[s] = "idle" /\ \A t \in Sessions \ {s} : pc'[t] = pc[t] /\ todo'[t] = todo[t]
  BY <1>1 DEF Typed, TypeOK
<1>3. FreeRowsAgree'
  BY <1>1 DEF StatsInv, FreeRowsAgree
<1>4. ASSUME NEW t \in Sessions, NEW k \in Kinds
      PROVE  Gained(t, k)' = Upserted(t, k)' + Pending(t, k)'
  <2>1. CASE t = s
    BY <1>1, <1>2, <2>1, EndedStats
  <2>2. CASE t # s
    <3>1. /\ \A u \in Users : walletLock[u] = t => row'[u] = row[u] /\ wallets'[u] = wallets[u]
          /\ statsLock = t => statsRow' = statsRow /\ stats' = stats
      BY <1>1, <2>2
    <3> QED BY <1>1, <1>2, <2>2, <3>1, OthersStats
  <2> QED BY <2>1, <2>2
<1>5. ASSUME NEW k \in Kinds
      PROVE  stats'[k] = SumFunctionOnSet([u \in Users |-> Counted(wallets'[u].ledger, k)], Users)
  <2> DEFINE old == [u \in Users |-> Counted(wallets[u].ledger, k)]
             new == [u \in Users |-> Counted(wallets'[u].ledger, k)]
             gain == [u \in Users |-> Gain(s, k, u)]
  <2>1. \A u \in Users : old[u] \in Int /\ gain[u] \in Int /\ new[u] = old[u] + gain[u]
    <3> TAKE u \in Users
    <3>1. Counted(row[u].ledger, k) \in Nat /\ Counted(wallets[u].ledger, k) \in Nat
      BY CountedNat DEF Typed, TypeOK, Wallets
    <3>2. Counted(wallets'[u].ledger, k) =
            IF walletLock[u] = s THEN Counted(row[u].ledger, k) ELSE Counted(wallets[u].ledger, k)
      BY <1>1
    <3> QED BY <3>1, <3>2 DEF Gain
  <2>2. SumFunctionOnSet(new, Users) = SumFunctionOnSet(old, Users) + SumFunctionOnSet(gain, Users)
    <3> HIDE DEF old, new, gain
    <3> QED BY <2>1, SumPlus, UsersAssumption
  <2>3. stats[k] = SumFunctionOnSet(old, Users)
    BY DEF StatsInv, StatsMatchLedger
  <2>4. SumFunctionOnSet(gain, Users) = Upserted(s, k) + 0
    BY <1>1 DEF StatsInv, GainsMatch, Gained, Pending
  <2>5. stats'[k] = stats[k] + Upserted(s, k)
    <3>1. stats[k] \in Nat /\ statsRow[k] \in Nat
      BY DEF Typed, TypeOK
    <3> QED BY <1>1, <3>1 DEF Upserted
  <2>6. Upserted(s, k) \in Int
    <3>1. stats[k] \in Nat /\ statsRow[k] \in Nat
      BY DEF Typed, TypeOK
    <3> QED BY <3>1 DEF Upserted
  <2> HIDE DEF old, gain
  <2> QED BY <2>2, <2>3, <2>4, <2>5, <2>6
<1>6. StatsMatchLedger'
  BY <1>5 DEF StatsMatchLedger
<1> QED BY <1>3, <1>4, <1>6 DEF StatsInv, GainsMatch

LEMMA InitStats == Init => StatsInv
<1> SUFFICES ASSUME Init PROVE StatsInv
  OBVIOUS
<1>1. \A u \in Users : row[u] = wallets[u] /\ walletLock[u] = NoSession /\ wallets[u].ledger = <<>>
  BY DEF Init, NoWallet
<1>2. /\ statsRow = stats /\ statsLock = NoSession
      /\ \A k \in Kinds : stats[k] = 0
      /\ \A s \in Sessions : pc[s] = "idle"
  BY DEF Init
<1>3. ASSUME NEW s \in Sessions, NEW k \in Kinds
      PROVE  Gained(s, k) = Upserted(s, k) + Pending(s, k)
  <2>1. \A u \in Users : [v \in Users |-> Gain(s, k, v)][u] = 0
    BY <1>1, WalletAssumption DEF Gain
  <2>2. Gained(s, k) = 0
    BY <2>1, SumZero, UsersAssumption DEF Gained
  <2> QED BY <1>2, <2>2, WalletAssumption DEF Upserted, Pending
<1>4. ASSUME NEW k \in Kinds
      PROVE  stats[k] = SumFunctionOnSet([u \in Users |-> Counted(wallets[u].ledger, k)], Users)
  <2>1. \A u \in Users : [v \in Users |-> Counted(wallets[v].ledger, k)][u] = 0
    BY <1>1, CountedEmpty
  <2> QED BY <1>2, <2>1, SumZero, UsersAssumption
<1> QED BY <1>1, <1>2, <1>3, <1>4 DEF StatsInv, FreeRowsAgree, GainsMatch, StatsMatchLedger

LEMMA StepStats ==
  ASSUME Typed, LedgerInv, StatsInv, [Next]_vars
  PROVE  StatsInv'
<1>1. CASE UNCHANGED <<wallets, row, walletLock, stats, statsRow, statsLock, pc, todo>>
  BY <1>1, QuietStats
<1>2. ASSUME NEW s \in Sessions, FindRecord(s) PROVE StatsInv'
  <2>1. CASE Conflict(s, "mismatch") \/ Conflict(s, "in progress")
    BY <1>2, <2>1, ConflictStats DEF FindRecord
  <2>2. CASE /\ UNCHANGED <<wallets, row, walletLock, stats, statsRow, statsLock>>
             /\ \/ pc' = [pc EXCEPT ![s] = "insert"] /\ todo' = todo
                \/ todo' = [todo EXCEPT ![s] = Tail(@)] /\ pc' = pc
    <3>1. \A t \in Sessions : pc[t] = "complete" \/ pc'[t] = "complete" =>
            pc'[t] = pc[t] /\ todo'[t] = todo[t]
      BY <1>2, <2>2 DEF FindRecord, Typed, TypeOK
    <3> QED BY <2>2, <3>1, QuietStats
  <2> QED BY <1>2, <2>1, <2>2 DEF FindRecord, Goto, moneyVars, statsVars
<1>3. ASSUME NEW s \in Sessions, InsertRecord(s) PROVE StatsInv'
  <2>1. CASE Rollback(s, "duplicate record")
    BY <2>1, RollbackStats
  <2>2. CASE /\ UNCHANGED <<wallets, row, walletLock, stats, statsRow, statsLock, todo>>
             /\ pc' = [pc EXCEPT ![s] = "lock"]
    <3>1. \A t \in Sessions : pc[t] = "complete" \/ pc'[t] = "complete" => pc'[t] = pc[t]
      BY <1>3, <2>2 DEF InsertRecord, Typed, TypeOK
    <3> QED BY <2>2, <3>1, QuietStats
  <2> QED BY <1>3, <2>1, <2>2 DEF InsertRecord, Goto, moneyVars, statsVars
<1>4. ASSUME NEW s \in Sessions, LockWallet(s) PROVE StatsInv'
  <2>1. CASE Rollback(s, "not found")
    BY <2>1, RollbackStats
  <2> DEFINE u == Head(todo[s]).user
  <2>2. CASE /\ walletLock[u] \in {NoSession, s} /\ walletLock' = [walletLock EXCEPT ![u] = s]
             /\ pc' = [pc EXCEPT ![s] = "apply"]
             /\ UNCHANGED <<wallets, row, stats, statsRow, statsLock, todo>>
    <3>1. u \in Users /\ pc[s] = "lock"
      BY <1>4, WalletAssumption DEF LockWallet, Typed, HeadOK
    <3>2. \A v \in Users : \/ walletLock'[v] = walletLock[v]
                           \/ walletLock[v] = NoSession /\ walletLock'[v] \in Sessions
      BY <2>2, <3>1 DEF Typed, TypeOK
    <3>3. \A t \in Sessions : pc[t] = "complete" \/ pc'[t] = "complete" => pc'[t] = pc[t]
      BY <2>2, <3>1 DEF Typed, TypeOK
    <3> QED BY <2>2, <3>2, <3>3, QuietStats
  <2> QED BY <1>4, <2>1, <2>2 DEF LockWallet, Goto, statsVars
<1>5. ASSUME NEW s \in Sessions, NEW script \in Scripts, Begin(s, script) PROVE StatsInv'
  <2>1. \A t \in Sessions : pc[t] = "complete" \/ pc'[t] = "complete" =>
          pc'[t] = pc[t] /\ todo'[t] = todo[t]
    BY <1>5 DEF Begin, Goto, Typed, TypeOK
  <2> QED BY <1>5, <2>1, QuietStats DEF Begin, moneyVars, statsVars
<1>6. ASSUME NEW s \in Sessions, Crash(s) \/ LockWaitAbort(s) PROVE StatsInv'
  BY <1>6, RollbackStats DEF Crash, LockWaitAbort
<1>7. ASSUME NEW s \in Sessions, Progress(s) PROVE StatsInv'
  BY <1>2, <1>3, <1>4, <1>6, <1>7, EnsureStats, ApplyStats, CompleteStats, CommitStats DEF Progress
<1>8. ASSUME \/ \E u \in Users : \/ ReadWagerLimit(u) \/ DeleteWagerLimit(u)
                                 \/ \E l \in Limits : SaveWagerLimit(u, l)
             \/ Tick \/ UNCHANGED vars
      PROVE  UNCHANGED <<wallets, row, walletLock, stats, statsRow, statsLock, pc, todo>>
  BY <1>8 DEF ReadWagerLimit, DeleteWagerLimit, SaveWagerLimit, Tick, vars, moneyVars, statsVars, sessionVars
<1> QED BY <1>1, <1>5, <1>6, <1>7, <1>8 DEF Next

\* The platform_stats upsert: the statistics add up to the committed ledgers of all users,
\* however transactions interleave, wait for the row, fall back, abort or die.
THEOREM StatisticsAddUp == Spec => []StatsMatchLedger
<1>1. StatsInv => StatsMatchLedger
  BY DEF StatsInv
<1>2. Typed /\ LedgerInv /\ StatsInv /\ [Next]_vars => StatsInv'
  BY StepStats
<1>3. Typed /\ LedgerInv /\ [Next]_vars => LedgerInv'
  BY StepLedger
<1> QED BY InitTyped, NextTyped, InitLedger, InitStats, <1>1, <1>2, <1>3, PTL DEF Spec

-----------------------------------------------------------------------------
(***************************************************************************)
(* The wager limits.  The committed row of limits goes with the committed  *)
(* ledger and the newest with the newest: `cur` covers what the ledger     *)
(* staked in the open window, and no stake was made after the window's end *)
(* (or it would be counted again in the next one).                         *)
(***************************************************************************)
Kept(limits, ledger) == limits # NoRow =>
  \A w \in Windows : limits.limit[w] > 0 =>
    /\ \A i \in DOMAIN ledger : ledger[i].req.entry = "stake" => ledger[i].at < limits.resetAt[w]
    /\ Staked(ledger, limits, w) <= limits.cur[w]
    /\ limits.cur[w] <= limits.limit[w]

LimitsKept(u) == Kept(wager[u], wallets[u].ledger) /\ Kept(wagerRow[u], row[u].ledger)
LimitInv == \A u \in Users \ raced : edit[u] = NoEdit /\ LimitsKept(u)

\* What an entry counts for in the window that is open in a row of limits.
StakedAs(e, limits, w) ==
  IF e.req.entry = "stake" /\ e.at >= limits.resetAt[w] - StakeSpan[w] THEN e.req.amount ELSE 0
StakeTerms(ledger, limits, w) == [i \in DOMAIN ledger |-> StakedAs(ledger[i], limits, w)]

LEMMA StakedSum ==
  ASSUME NEW ledger, NEW limits, NEW w
  PROVE  Staked(ledger, limits, w) = SumFunctionOnSet(StakeTerms(ledger, limits, w), DOMAIN ledger)
BY DEF Staked, StakeTerms, StakedAs

LEMMA StakedAsNat ==
  ASSUME NEW e \in Entries, NEW limits, NEW w PROVE StakedAs(e, limits, w) \in Nat
BY EntryAmount DEF StakedAs

LEMMA LedgerDomain ==
  ASSUME NEW l \in Seq(Entries) PROVE IsFiniteSet(DOMAIN l) /\ \A i \in DOMAIN l : l[i] \in Entries
<1>1. Len(l) \in Nat /\ DOMAIN l = 1..Len(l) /\ \A i \in DOMAIN l : l[i] \in Entries
  OBVIOUS
<1> QED BY <1>1, UpTo

LEMMA StakedNat ==
  ASSUME NEW l \in Seq(Entries), NEW limits, NEW w PROVE Staked(l, limits, w) \in Nat
<1> DEFINE f == StakeTerms(l, limits, w)
<1>1. \A i \in DOMAIN l : f[i] \in Nat
  BY LedgerDomain, StakedAsNat DEF StakeTerms
<1> HIDE DEF f
<1>2. SumFunctionOnSet(f, DOMAIN l) \in Nat
  BY <1>1, LedgerDomain, SumNat
<1> QED BY <1>2, StakedSum DEF f

\* Stakes before the window that is open count for nothing in it.
LEMMA StakedBefore ==
  ASSUME NEW l \in Seq(Entries), NEW limits, NEW w,
         \A i \in DOMAIN l : StakedAs(l[i], limits, w) = 0
  PROVE  Staked(l, limits, w) = 0
<1> DEFINE f == StakeTerms(l, limits, w)
<1>1. \A i \in DOMAIN l : f[i] = 0
  BY DEF StakeTerms
<1> HIDE DEF f
<1>2. SumFunctionOnSet(f, DOMAIN l) = 0
  BY <1>1, LedgerDomain, SumZero
<1> QED BY <1>2, StakedSum DEF f

\* Entries that count the same leave the sum as it was.
LEMMA StakedSame ==
  ASSUME NEW l \in Seq(Entries), NEW p, NEW q, NEW w, p.resetAt[w] = q.resetAt[w]
  PROVE  Staked(l, p, w) = Staked(l, q, w)
<1>1. StakeTerms(l, p, w) = StakeTerms(l, q, w)
  BY DEF StakeTerms, StakedAs
<1> QED BY <1>1, StakedSum

\* One more entry counts for its amount, or for nothing.
LEMMA StakedAppend ==
  ASSUME NEW l \in Seq(Entries), NEW e \in Entries, NEW limits, NEW w
  PROVE  Staked(CreateEntry(l, e), limits, w) = Staked(l, limits, w) + StakedAs(e, limits, w)
<1> DEFINE m == Append(l, e)
           n == Len(l) + 1
           f == StakeTerms(l, limits, w)
           g == StakeTerms(m, limits, w)
<1>1. /\ m \in Seq(Entries) /\ DOMAIN m = DOMAIN l \cup {n} /\ n \notin DOMAIN l
      /\ m[n] = e /\ \A i \in DOMAIN l : m[i] = l[i]
  OBVIOUS
<1>2. g[n] = StakedAs(e, limits, w) /\ \A i \in DOMAIN l : g[i] = f[i]
  BY <1>1 DEF StakeTerms
<1>3. \A i \in DOMAIN l \cup {n} : g[i] \in Int
  <2> TAKE i \in DOMAIN l \cup {n}
  <2>1. m[i] \in Entries /\ g[i] = StakedAs(m[i], limits, w)
    BY <1>1 DEF StakeTerms
  <2> HIDE DEF m, g
  <2> QED BY <2>1, StakedAsNat
<1>4. Staked(l, limits, w) = SumFunctionOnSet(f, DOMAIN l)
  BY StakedSum
<1>5. Staked(CreateEntry(l, e), limits, w) = SumFunctionOnSet(g, DOMAIN m)
  BY StakedSum DEF CreateEntry
<1> HIDE DEF m, n, f, g
<1>6. SumFunctionOnSet(g, DOMAIN l \cup {n}) = SumFunctionOnSet(g, DOMAIN l) + g[n]
  BY <1>1, <1>3, LedgerDomain, SumAdd
<1>7. SumFunctionOnSet(g, DOMAIN l) = SumFunctionOnSet(f, DOMAIN l)
  BY <1>2, LedgerDomain, SumEqual
<1> QED BY <1>1, <1>2, <1>4, <1>5, <1>6, <1>7

\* An entry that is no stake changes nothing.
LEMMA KeptWithOther ==
  ASSUME NEW l \in Seq(Entries), NEW e \in Entries, e.req.entry # "stake", NEW limits, Kept(limits, l)
  PROVE  Kept(limits, CreateEntry(l, e))
<1> SUFFICES ASSUME limits # NoRow, NEW w \in Windows, limits.limit[w] > 0
    PROVE /\ \A i \in DOMAIN CreateEntry(l, e) :
               CreateEntry(l, e)[i].req.entry = "stake" => CreateEntry(l, e)[i].at < limits.resetAt[w]
          /\ Staked(CreateEntry(l, e), limits, w) <= limits.cur[w]
          /\ limits.cur[w] <= limits.limit[w]
  BY DEF Kept
<1>1. /\ \A i \in DOMAIN l : l[i].req.entry = "stake" => l[i].at < limits.resetAt[w]
      /\ Staked(l, limits, w) <= limits.cur[w] /\ limits.cur[w] <= limits.limit[w]
  BY DEF Kept
<1>2. StakedAs(e, limits, w) = 0 /\ Staked(l, limits, w) \in Nat
  BY StakedNat DEF StakedAs
<1>3. Staked(CreateEntry(l, e), limits, w) = Staked(l, limits, w)
  BY <1>2, StakedAppend
<1>4. \A i \in DOMAIN CreateEntry(l, e) :
        CreateEntry(l, e)[i] = e \/ (i \in DOMAIN l /\ CreateEntry(l, e)[i] = l[i])
  BY DEF CreateEntry
<1> QED BY <1>1, <1>3, <1>4

\* A stake accepted against the newest row saves the row it computed.
LEMMA UnracedWrite ==
  ASSUME Typed, NEW s \in Sessions, NEW r \in Requests, snap[s].wager[r.user] = wagerRow[r.user]
  PROVE  WagerAfter(s, r) = Wagered(s, r)
<1> DEFINE seen == snap[s].wager[r.user]
           new == Wagered(s, r)
<1>1. new \in WagerRows /\ seen \in WagerRows \cup {NoRow}
  BY WagerTyped, RequestUser DEF Typed, TypeOK, Snaps
<1> HIDE DEF new, seen
<1>2. CASE seen # NoRow
  <2>1. \A p, q \in [Windows -> Nat] : Column(p, q, q) = p
    BY DEF Column, Saved
  <2>2. /\ new.limit \in [Windows -> Nat] /\ new.cur \in [Windows -> Nat] /\ new.resetAt \in [Windows -> Nat]
        /\ seen.limit \in [Windows -> Nat] /\ seen.cur \in [Windows -> Nat] /\ seen.resetAt \in [Windows -> Nat]
        /\ new = [limit |-> new.limit, cur |-> new.cur, resetAt |-> new.resetAt]
    BY <1>1, <1>2 DEF WagerRows
  <2>3. WagerAfter(s, r) = [limit   |-> Column(new.limit, seen.limit, seen.limit),
                            cur     |-> Column(new.cur, seen.cur, seen.cur),
                            resetAt |-> Column(new.resetAt, seen.resetAt, seen.resetAt)]
    BY <1>2 DEF WagerAfter, new, seen
  <2> QED BY <2>1, <2>2, <2>3 DEF new
<1>3. CASE seen = NoRow
  BY <1>3 DEF WagerAfter, new, seen
<1> QED BY <1>2, <1>3

\* enforceWagerLimit: an accepted stake is within every limit, and counted.
LEMMA KeptWithStake ==
  ASSUME Typed, NEW s \in Sessions, NEW r \in Requests, r.entry = "stake", ~OverLimit(s, r),
         snap[s].wager[r.user] = wagerRow[r.user], NEW l \in Seq(Entries), Kept(wagerRow[r.user], l),
         NEW e \in Entries, e.req = r, e.at = now
  PROVE  Kept(Wagered(s, r), CreateEntry(l, e))
<1> DEFINE u == r.user
           seen == wagerRow[u]
           rolled == Rolled(s, u)
           new == Wagered(s, r)
           m == CreateEntry(l, e)
<1>1. /\ now \in Nat /\ r.amount \in Nat /\ seen \in WagerRows \cup {NoRow}
      /\ \A w \in Windows : StakeSpan[w] \in Nat /\ StakeSpan[w] > 0
  BY RequestUser, WalletAssumption DEF Typed, TypeOK
<1>2. CASE seen = NoRow
  <2>1. \A w \in Windows : new.limit[w] = 0
    BY <1>2 DEF Wagered, Rolled, FreshRow
  <2> HIDE DEF new, m
  <2>2. \A w \in Windows : ~(new.limit[w] > 0)
    BY <2>1
  <2> QED BY <2>2 DEF Kept, new, m
<1>3. CASE seen # NoRow
  <2> SUFFICES ASSUME NEW w \in Windows, new.limit[w] > 0
      PROVE /\ \A i \in DOMAIN m : m[i].req.entry = "stake" => m[i].at < new.resetAt[w]
            /\ Staked(m, new, w) <= new.cur[w]
            /\ new.cur[w] <= new.limit[w]
    BY DEF Kept
  <2>1. PICK limit \in Nat, cur \in Nat, reset \in Nat :
          limit = seen.limit[w] /\ cur = seen.cur[w] /\ reset = seen.resetAt[w]
    BY <1>1, <1>3 DEF WagerRows
  <2>2. /\ rolled.limit = seen.limit
        /\ rolled.cur[w] = IF now >= reset THEN 0 ELSE cur
        /\ rolled.resetAt[w] = IF now >= reset THEN now + StakeSpan[w] ELSE reset
    BY <1>3, <2>1 DEF Rolled
  <2>3. new.limit = rolled.limit /\ new.resetAt = rolled.resetAt /\ new.cur[w] = rolled.cur[w] + r.amount
    BY DEF Wagered, Rolled
  <2>4. limit > 0 /\ rolled.cur[w] + r.amount <= limit
    <3>1. limit > 0 /\ rolled.limit[w] = limit
      BY <2>1, <2>2, <2>3
    <3>2. rolled.cur[w] \in Nat
      BY <2>2
    <3>3. ~(rolled.cur[w] + r.amount > rolled.limit[w])
      BY <3>1 DEF OverLimit
    <3> HIDE DEF rolled, new, m, seen, u
    <3> QED BY <1>1, <3>1, <3>2, <3>3
  <2>5. /\ \A i \in DOMAIN l : l[i].req.entry = "stake" => l[i].at < reset
        /\ Staked(l, seen, w) <= cur
    BY <1>3, <2>1, <2>4 DEF Kept
  <2>6. /\ \A i \in DOMAIN m : m[i] = e \/ (i \in DOMAIN l /\ m[i] = l[i])
        /\ \A i \in DOMAIN l : l[i] \in Entries /\ l[i].at \in Nat
    <3>1. \A i \in DOMAIN l : l[i] \in Entries
      BY LedgerDomain
    <3> QED BY <3>1 DEF CreateEntry, Entries
  <2>7. PICK reset2 \in Nat, cur2 \in Nat :
          /\ reset2 = new.resetAt[w] /\ cur2 = new.cur[w]
          /\ now >= reset => reset2 = now + StakeSpan[w] /\ cur2 = r.amount
          /\ now < reset => reset2 = reset /\ cur2 = cur + r.amount
    <3> DEFINE a == IF now >= reset THEN now + StakeSpan[w] ELSE reset
               b == (IF now >= reset THEN 0 ELSE cur) + r.amount
    <3>1. a \in Nat /\ b \in Nat
      BY <1>1
    <3>2. a = new.resetAt[w] /\ b = new.cur[w]
      BY <2>2, <2>3
    <3> HIDE DEF rolled, new, m, seen, u
    <3> QED BY <1>1, <3>1, <3>2
  <2>8. new.cur[w] <= new.limit[w]
    BY <2>1, <2>2, <2>3, <2>4
  <2> HIDE DEF u, seen, rolled, new, m
  <2>9. \A i \in DOMAIN m : m[i].req.entry = "stake" => m[i].at < reset2
    <3> SUFFICES ASSUME NEW i \in DOMAIN m, m[i].req.entry = "stake" PROVE m[i].at < reset2
      OBVIOUS
    <3>1. CASE m[i] = e
      BY <1>1, <2>7, <3>1
    <3>2. CASE i \in DOMAIN l /\ m[i] = l[i]
      <4>1. l[i].at < reset /\ l[i].at \in Nat
        BY <2>5, <2>6, <3>2
      <4> QED BY <1>1, <2>7, <3>2, <4>1
    <3> QED BY <2>6, <3>1, <3>2
  <2>10. Staked(m, new, w) <= cur2
    <3>1. PICK before \in Nat, one \in Nat :
            before = Staked(l, new, w) /\ one = StakedAs(e, new, w)
      BY StakedNat, StakedAsNat
    <3>2. Staked(m, new, w) = before + one
      BY <3>1, StakedAppend DEF m
    <3>3. one <= r.amount
      BY <1>1, <3>1 DEF StakedAs
    <3>4. CASE now >= reset
      <4>1. \A i \in DOMAIN l : StakedAs(l[i], new, w) = 0
        <5> TAKE i \in DOMAIN l
        <5>1. l[i].req.entry = "stake" => l[i].at < now
          BY <1>1, <2>5, <2>6, <3>4
        <5>2. new.resetAt[w] - StakeSpan[w] = now
          BY <1>1, <2>7, <3>4
        <5>3. l[i].at \in Nat
          BY <2>6
        <5> QED BY <1>1, <5>1, <5>2, <5>3 DEF StakedAs
      <4>2. before = 0
        BY <3>1, <4>1, StakedBefore
      <4> QED BY <1>1, <2>7, <3>2, <3>3, <3>4, <4>2
    <3>5. CASE now < reset
      <4>1. new.resetAt[w] = seen.resetAt[w]
        BY <2>1, <2>7, <3>5
      <4>2. before <= cur
        BY <2>5, <3>1, <4>1, StakedSame
      <4> QED BY <1>1, <2>7, <3>2, <3>3, <3>5, <4>2
    <3> QED BY <1>1, <3>4, <3>5
  <2> QED BY <2>7, <2>8, <2>9, <2>10
<1> QED BY <1>2, <1>3

\* Rows that move together: each version of a user's limits stays with its ledger.
LEMMA PairsMove ==
  ASSUME LimitInv, raced \subseteq raced', edit' = edit,
         \A u \in Users :
           /\ \/ wager'[u] = wager[u] /\ wallets'[u] = wallets[u]
              \/ wager'[u] = wagerRow[u] /\ wallets'[u] = row[u]
           /\ \/ wagerRow'[u] = wager[u] /\ row'[u] = wallets[u]
              \/ wagerRow'[u] = wagerRow[u] /\ row'[u] = row[u]
  PROVE  LimitInv'
<1> SUFFICES ASSUME NEW u \in Users, u \notin raced'
    PROVE edit'[u] = NoEdit /\ LimitsKept(u)'
  BY DEF LimitInv
<1>1. edit[u] = NoEdit /\ Kept(wager[u], wallets[u].ledger) /\ Kept(wagerRow[u], row[u].ledger)
  BY DEF LimitInv, LimitsKept
<1>2. Kept(wager'[u], wallets'[u].ledger)
  BY <1>1
<1>3. Kept(wagerRow'[u], row'[u].ledger)
  BY <1>1
<1> QED BY <1>1, <1>2, <1>3 DEF LimitsKept

\* The end of a transaction that is rolled back, and a refusal.
LEMMA RollbackLimits ==
  ASSUME Typed, LimitInv, raced \subseteq raced', NEW s \in Sessions, NEW answer, Rollback(s, answer)
  PROVE  LimitInv'
<1>1. edit' = edit /\ wager' = wager /\ wallets' = wallets
  BY DEF Rollback
<1>2. \A u \in Users :
        \/ wagerRow'[u] = wager[u] /\ row'[u] = wallets[u]
        \/ wagerRow'[u] = wagerRow[u] /\ row'[u] = row[u]
  BY DEF Rollback, RestoreRows
<1> QED BY <1>1, <1>2, PairsMove

LEMMA QuietLimits ==
  ASSUME LimitInv, raced \subseteq raced', UNCHANGED <<wallets, row, wager, wagerRow, edit>>
  PROVE  LimitInv'
BY PairsMove

LEMMA ConflictLimits ==
  ASSUME Typed, LimitInv, raced \subseteq raced', NEW s \in Sessions, NEW answer, Conflict(s, answer)
  PROVE  LimitInv'
<1>1. CASE alt[s] = <<>>
  BY <1>1, RollbackLimits DEF Conflict
<1>2. CASE alt[s] # <<>>
  BY <1>2, QuietLimits DEF Conflict, moneyVars, wagerVars
<1> QED BY <1>1, <1>2

LEMMA CommitLimits ==
  ASSUME Typed, LimitInv, raced \subseteq raced', NEW s \in Sessions, Commit(s)
  PROVE  LimitInv'
<1>1. edit' = edit /\ wagerRow' = wagerRow /\ row' = row
  BY DEF Commit
<1>2. \A u \in Users :
        \/ wager'[u] = wagerRow[u] /\ wallets'[u] = row[u]
        \/ wager'[u] = wager[u] /\ wallets'[u] = wallets[u]
  BY DEF Commit
<1> QED BY <1>1, <1>2, PairsMove

\* A new wallet has staked nothing.
LEMMA EnsureLimits ==
  ASSUME Typed, LimitInv, raced \subseteq raced', NEW s \in Sessions, EnsureDefaultWallet(s)
  PROVE  LimitInv'
<1>1. CASE \E u \in Users : row' = [row EXCEPT ![u] = NewWallet] /\ UNCHANGED <<wallets, wagerVars>>
  <2>1. PICK h \in Users : row' = [row EXCEPT ![h] = NewWallet] /\ UNCHANGED <<wallets, wagerVars>>
    BY <1>1
  <2> SUFFICES ASSUME NEW u \in Users, u \notin raced'
      PROVE edit'[u] = NoEdit /\ LimitsKept(u)'
    BY DEF LimitInv
  <2>2. edit[u] = NoEdit /\ Kept(wager[u], wallets[u].ledger) /\ Kept(wagerRow[u], row[u].ledger)
    BY DEF LimitInv, LimitsKept
  <2>3. Kept(wagerRow[u], <<>>)
    <3> SUFFICES ASSUME wagerRow[u] # NoRow, NEW w \in Windows, wagerRow[u].limit[w] > 0
        PROVE Staked(<<>>, wagerRow[u], w) <= wagerRow[u].cur[w] /\ wagerRow[u].cur[w] <= wagerRow[u].limit[w]
      BY DEF Kept
    <3>1. wagerRow[u].cur[w] <= wagerRow[u].limit[w]
      BY <2>2 DEF Kept
    <3>2. wagerRow[u].cur[w] \in Nat
      BY DEF Typed, TypeOK, WagerRows
    <3>3. Staked(<<>>, wagerRow[u], w) = 0
      BY SumEmpty DEF Staked
    <3> QED BY <3>1, <3>2, <3>3
  <2>4. row'[u] = row[u] \/ row'[u].ledger = <<>>
    BY <2>1 DEF Typed, TypeOK, NewWallet
  <2>5. Kept(wagerRow'[u], row'[u].ledger)
    BY <2>1, <2>2, <2>3, <2>4 DEF wagerVars
  <2> QED BY <2>1, <2>2, <2>5 DEF wagerVars, LimitsKept
<1>2. CASE UNCHANGED <<moneyVars, wagerVars>>
  BY <1>2, QuietLimits DEF moneyVars, wagerVars
<1>3. CASE Rollback(s, "duplicate wallet")
  BY <1>3, RollbackLimits
<1>4. Head(todo[s]).ensure \in Users
  BY DEF EnsureDefaultWallet, EnsureSteps
<1> QED BY <1>1, <1>2, <1>3, <1>4 DEF EnsureDefaultWallet, moneyVars

\* A movement: only the user's newest rows change.
LEMMA ApplyLimits ==
  ASSUME Typed, LimitInv, raced \subseteq raced', NEW s \in Sessions, ApplyMutation(s),
         StaleStake(s) => Head(todo[s]).user \in raced'
  PROVE  LimitInv'
<1> DEFINE r == Head(todo[s])
           h == r.user
           entry == [req |-> r, after |-> Balance(s, r), at |-> now]
<1>1. r \in Requests /\ h \in Users /\ pc[s] = "apply"
  BY RequestUser DEF ApplyMutation, Typed, HeadOK
<1>2. CASE Conflict(s, "limit") \/ Conflict(s, "short") \/ Rollback(s, "duplicate row")
  BY <1>2, ConflictLimits, RollbackLimits
<1>3. CASE
      /\ ~OverLimit(s, r) /\ ~Short(r)
      /\ row' = [row EXCEPT ![h] = WalletAfter(row[h], entry, snap[s].avail[h])]
      /\ wagerRow' = IF r.entry = "stake" THEN [wagerRow EXCEPT ![h] = WagerAfter(s, r)] ELSE wagerRow
      /\ Goto(s, "complete")
      /\ UNCHANGED <<wallets, wager, edit>>
  <2> SUFFICES ASSUME NEW u \in Users, u \notin raced'
      PROVE edit'[u] = NoEdit /\ LimitsKept(u)'
    BY DEF LimitInv
  <2>1. edit[u] = NoEdit /\ Kept(wager[u], wallets[u].ledger) /\ Kept(wagerRow[u], row[u].ledger)
    BY DEF LimitInv, LimitsKept
  <2>2. CASE u # h
    <3>1. row'[u] = row[u] /\ wagerRow'[u] = wagerRow[u]
      BY <1>3, <2>2 DEF Typed, TypeOK
    <3> QED BY <1>3, <2>1, <3>1 DEF LimitsKept
  <2>3. CASE u = h
    <3>1. entry \in Entries /\ entry.req = r /\ entry.at = now
      BY <1>1, <1>3, BalanceTyped DEF Entries, Typed, TypeOK
    <3> HIDE DEF entry
    <3>2. row[h] \in Wallets /\ row[h].ledger \in Seq(Entries)
      BY <1>1 DEF Typed, TypeOK, Wallets
    <3>3. row'[u].ledger = CreateEntry(row[h].ledger, entry)
      BY <1>1, <1>3, <2>3, <3>2 DEF WalletAfter, Typed, TypeOK, Wallets
    <3>4. CASE r.entry = "stake"
      <4>1. pc'[s] = "complete"
        BY <1>3 DEF Goto, Typed, TypeOK
      <4>2. snap[s].wager[h] = wagerRow[h]
        BY <1>1, <2>3, <3>4, <4>1 DEF StaleStake
      <4>3. wagerRow'[u] = Wagered(s, r)
        <5>1. WagerAfter(s, r) = Wagered(s, r)
          BY <1>1, <4>2, UnracedWrite
        <5> QED BY <1>1, <1>3, <2>3, <3>4, <5>1 DEF Typed, TypeOK
      <4>4. Kept(wagerRow[h], row[h].ledger)
        BY <2>1, <2>3
      <4>5. Kept(Wagered(s, r), CreateEntry(row[h].ledger, entry))
        BY <1>1, <1>3, <3>1, <3>2, <3>4, <4>2, <4>4, KeptWithStake
      <4> QED BY <1>3, <2>1, <3>3, <4>3, <4>5 DEF LimitsKept
    <3>5. CASE r.entry # "stake"
      <4>1. Kept(wagerRow[h], CreateEntry(row[h].ledger, entry))
        BY <2>1, <2>3, <3>1, <3>2, <3>5, KeptWithOther
      <4> QED BY <1>3, <2>1, <2>3, <3>3, <3>5, <4>1 DEF LimitsKept
    <3> QED BY <3>4, <3>5
  <2> QED BY <2>2, <2>3
<1> QED BY <1>2, <1>3 DEF ApplyMutation

LEMMA InitLimits == NotedInit => LimitInv
<1> SUFFICES ASSUME NotedInit, NEW u \in Users PROVE edit[u] = NoEdit /\ LimitsKept(u)
  BY DEF LimitInv
<1>1. edit[u] = NoEdit /\ wallets[u].ledger = <<>> /\ row[u].ledger = <<>> /\ wagerRow[u] = wager[u]
  BY DEF NotedInit, Init, NoWallet
<1>2. \A limits, w : Staked(<<>>, limits, w) = 0
  BY SumEmpty DEF Staked
<1>3. Kept(wager[u], <<>>)
  <2>1. CASE wager[u] = NoRow
    BY <2>1 DEF Kept
  <2>2. CASE \E l \in Limits : wager[u] = FreshRow(l, UpsertSpan)
    <3>1. PICK l \in Limits : wager[u] = FreshRow(l, UpsertSpan)
      BY <2>2
    <3>2. \A w \in Windows : wager[u].cur[w] = 0 /\ wager[u].limit[w] \in Nat
      BY <3>1, WalletAssumption DEF FreshRow
    <3>3. \A w \in Windows : Staked(<<>>, wager[u], w) <= wager[u].cur[w] /\ wager[u].cur[w] <= wager[u].limit[w]
      BY <1>2, <3>2
    <3> QED BY <3>3 DEF Kept
  <2> QED BY <2>1, <2>2 DEF NotedInit, Init
<1> QED BY <1>1, <1>3 DEF LimitsKept

\* The steps of an administrator: the users they are about are noted.
LEMMA EditedLimits ==
  ASSUME Typed, LimitInv, raced \subseteq raced', \A h \in Users : Edited(h) => h \in raced',
         NEW v \in Users, ReadWagerLimit(v) \/ DeleteWagerLimit(v) \/ \E l \in Limits : SaveWagerLimit(v, l)
  PROVE  LimitInv'
<1> SUFFICES ASSUME NEW u \in Users, u \notin raced'
    PROVE edit'[u] = NoEdit /\ LimitsKept(u)'
  BY DEF LimitInv
<1>1. edit[u] = NoEdit /\ Kept(wager[u], wallets[u].ledger) /\ Kept(wagerRow[u], row[u].ledger) /\ ~Edited(u)
  BY DEF LimitInv, LimitsKept
<1>2. wallets' = wallets /\ row' = row /\ edit'[u] = edit[u]
  BY <1>1 DEF ReadWagerLimit, DeleteWagerLimit, SaveWagerLimit, moneyVars, Edited
<1>3. wager'[u] = wager[u] /\ wagerRow'[u] = wagerRow[u]
  <2>1. CASE ReadWagerLimit(v)
    BY <2>1 DEF ReadWagerLimit
  <2>2. CASE DeleteWagerLimit(v)
    <3>1. upserts' # upserts
      BY <2>2 DEF DeleteWagerLimit, Typed, TypeOK
    <3>2. u # v
      BY <1>1, <2>2, <3>1 DEF DeleteWagerLimit, Edited, Typed, TypeOK
    <3> QED BY <2>2, <3>2 DEF DeleteWagerLimit, Typed, TypeOK
  <2>3. CASE \E l \in Limits : SaveWagerLimit(v, l)
    <3>1. u # v
      BY <1>1, <2>3 DEF SaveWagerLimit
    <3> QED BY <2>3, <3>1 DEF SaveWagerLimit, Typed, TypeOK
  <2> QED BY <2>1, <2>2, <2>3
<1> QED BY <1>1, <1>2, <1>3 DEF LimitsKept

LEMMA StepLimits == Typed /\ LimitInv /\ [NotedNext]_<<vars, raced, skipped>> => LimitInv'
<1> SUFFICES ASSUME Typed, LimitInv, [NotedNext]_<<vars, raced, skipped>> PROVE LimitInv'
  OBVIOUS
<1>1. CASE UNCHANGED <<vars, raced, skipped>>
  BY <1>1, QuietLimits DEF vars, moneyVars, wagerVars
<1>2. CASE NotedNext
  <2>1. /\ raced \subseteq raced' /\ \A h \in Users : Edited(h) => h \in raced'
        /\ \A s \in Sessions : StaleStake(s) => Head(todo[s]).user \in raced'
    BY <1>2 DEF NotedNext
  <2>2. ASSUME NEW s \in Sessions, NEW script \in Scripts, Begin(s, script) PROVE LimitInv'
    BY <2>1, <2>2, QuietLimits DEF Begin, moneyVars, wagerVars
  <2>3. ASSUME NEW s \in Sessions, FindRecord(s) PROVE LimitInv'
    <3>1. CASE UNCHANGED <<moneyVars, wagerVars>>
      BY <2>1, <3>1, QuietLimits DEF moneyVars, wagerVars
    <3>2. CASE \E answer \in {"mismatch", "in progress"} : Conflict(s, answer)
      BY <2>1, <3>2, ConflictLimits
    <3> QED BY <2>3, <3>1, <3>2 DEF FindRecord
  <2>4. ASSUME NEW s \in Sessions, InsertRecord(s) \/ LockWallet(s) PROVE LimitInv'
    <3>1. CASE UNCHANGED <<wallets, row, wagerVars>>
      BY <2>1, <3>1, QuietLimits DEF wagerVars
    <3>2. CASE \E answer \in {"duplicate record", "not found"} : Rollback(s, answer)
      BY <2>1, <3>2, RollbackLimits
    <3> QED BY <2>4, <3>1, <3>2 DEF InsertRecord, LockWallet, moneyVars
  <2>5. ASSUME NEW s \in Sessions, Complete(s) PROVE LimitInv'
    BY <2>1, <2>5, QuietLimits DEF Complete, moneyVars, wagerVars
  <2>6. ASSUME NEW s \in Sessions, Crash(s) \/ LockWaitAbort(s) PROVE LimitInv'
    BY <2>1, <2>6, RollbackLimits DEF Crash, LockWaitAbort
  <2>7. ASSUME NEW s \in Sessions, Progress(s) PROVE LimitInv'
    BY <2>1, <2>3, <2>4, <2>5, <2>6, <2>7, EnsureLimits, ApplyLimits, CommitLimits DEF Progress
  <2>8. ASSUME Tick PROVE LimitInv'
    BY <2>1, <2>8, QuietLimits DEF Tick, moneyVars, wagerVars
  <2> QED BY <1>2, <2>1, <2>2, <2>6, <2>7, <2>8, EditedLimits DEF NotedNext, Next
<1> QED BY <1>1, <1>2

\* enforceWagerLimit: what a player staked since the window opened is within the limit,
\* for every window and whatever resets, refusals, retries and crashes come between,
\* unless a stake was accepted against a row that had changed since the transaction's
\* snapshot or an administrator changed the limits.
THEOREM LimitsHold == NotedSpec => []LimitHoldsUnlessRaced
<1>1. Typed /\ LimitInv => LimitHoldsUnlessRaced
  <2> SUFFICES ASSUME Typed, LimitInv, NEW u \in Users \ raced, wager[u] # NoRow,
                      NEW w \in Windows, wager[u].limit[w] > 0
      PROVE  Staked(wallets[u].ledger, wager[u], w) <= wager[u].limit[w]
    BY DEF LimitHoldsUnlessRaced, WithinLimit
  <2>1. PICK staked \in Nat, cur \in Nat, limit \in Nat :
          staked = Staked(wallets[u].ledger, wager[u], w) /\ cur = wager[u].cur[w] /\ limit = wager[u].limit[w]
    <3>1. Staked(wallets[u].ledger, wager[u], w) \in Nat
      BY StakedNat DEF Typed, TypeOK, Wallets
    <3>2. wager[u].cur[w] \in Nat /\ wager[u].limit[w] \in Nat
      BY DEF Typed, TypeOK, WagerRows
    <3> QED BY <3>1, <3>2
  <2>2. staked <= cur /\ cur <= limit
    BY <2>1 DEF LimitInv, LimitsKept, Kept
  <2> QED BY <2>1, <2>2
<1>2. NotedInit => Init
  BY DEF NotedInit
<1>3. [NotedNext]_<<vars, raced, skipped>> => [Next]_vars
  BY DEF NotedNext
<1> QED BY <1>1, <1>2, <1>3, InitTyped, NextTyped, InitLimits, StepLimits, PTL DEF NotedSpec


-----------------------------------------------------------------------------
(***************************************************************************)
(* The refinement of MoneyMoves.  A transaction that sees none of its      *)
(* requests in its snapshot is at work: what it holds is what its path has *)
(* moved so far.  One that sees them answered moves nothing.               *)
(***************************************************************************)
RequestsOf(ledger) == [i \in DOMAIN ledger |-> ledger[i].req]

\* What session s adds to the committed ledgers is moved[u], for every user u.
Adds(s, moved) == \A u \in Users :
  IF walletLock[u] = s
    THEN RequestsOf(row[u].ledger) = RequestsOf(wallets[u].ledger) \o moved[u]
    ELSE moved[u] = <<>>
Nothing == [u \in Users |-> <<>>]
Moved(path, n) == [u \in Users |-> Abstract!Among(path, u)[n]]

\* `rest` is what is left of a path.
Rest(rest, path) ==
  /\ Len(rest) <= Len(path)
  /\ \A k \in 1..Len(rest) : rest[k] = path[Len(path) - Len(rest) + k]
Past(s, path) == Len(path) - Len(todo[s])
Behind(path, n) == {path[i] : i \in 1..n} \cap Requests

\* The records a session has written on its path; `refused` are pending ones it leaves.
Writes(s, path, refused) ==
  /\ \A r \in Behind(path, Past(s, path)) : Completed(r, s) \in idem
  /\ \A q \in idem : q.by = s =>
       \/ q.req \in Behind(path, Past(s, path)) /\ q.status = "completed"
       \/ pc[s] \in {"lock", "apply", "complete"} /\ q.req = Head(todo[s])
       \/ q.req \in refused /\ q.status = "pending"
  /\ \A r \in refused : NewRecord(s, r) \in idem

Works(s, path, refused) ==
  /\ Rest(todo[s], path) /\ Writes(s, path, refused)
  /\ Adds(s, Moved(path, IF pc[s] = "complete" THEN Past(s, path) + 1 ELSE Past(s, path)))

OnMain(s, c) == alt[s] = c.alt /\ Works(s, c.main, {})
OnAlt(s, c) ==
  /\ c.alt # <<>> /\ alt[s] = <<>>
  /\ \E i \in DOMAIN c.main : First(c.main, i) /\ Works(s, c.alt, {c.main[i]})

\* Its snapshot has none of its requests.
Unseen(s, c) == \A q \in snap[s].idem : q.req \notin MovesOf(c.main) \cup MovesOf(c.alt)
AtWork(s) == pc[s] # "idle" /\ \E c \in Scripts : Unseen(s, c) /\ (OnMain(s, c) \/ OnAlt(s, c))

Done1(r) == Completed(r, NoSession)
Refusal(r) == [req |-> r, status |-> "pending", by |-> NoSession]

\* Its snapshot has all that is left of it, or its refusal and all of the fallback.
Answered(s) == \A r \in MovesOf(todo[s]) : Done1(r) \in snap[s].idem
Refused(s) ==
  /\ alt[s] # <<>> /\ \A r \in MovesOf(alt[s]) : Done1(r) \in snap[s].idem
  /\ \E i \in DOMAIN todo[s] : First(todo[s], i) /\ Refusal(todo[s][i]) \in snap[s].idem
AtRest(s) ==
  /\ Adds(s, Nothing) /\ \A q \in idem : q.by # s
  /\ pc[s] = "idle" \/ (pc[s] = "step" /\ (Answered(s) \/ Refused(s)))

\* The committed records have all of a transaction, along either path, or nothing.
Committed == {q \in idem : q.by = NoSession}
WholeIn(c, records) ==
  \/ \A q \in records : q.req \notin MovesOf(c.main) \cup MovesOf(c.alt)
  \/ \A r \in MovesOf(c.main) : Done1(r) \in records
  \/ /\ c.alt # <<>> /\ \A r \in MovesOf(c.alt) : Done1(r) \in records
     /\ \E i \in DOMAIN c.main : First(c.main, i) /\ Refusal(c.main[i]) \in records

MovesInv ==
  /\ \A s \in Sessions : AtWork(s) \/ AtRest(s)
  /\ \A s \in Sessions : \A p, q \in snap[s].idem : RecId(p.req) = RecId(q.req) => p = q
  /\ \A c \in Scripts : WholeIn(c, Committed)

\* The recursion behind Among has a solution, so that it can be unfolded.
Chosen(path, u, n, g) ==
  g = [i \in 0..n |-> IF i = 0 THEN <<>>
                      ELSE IF path[i] \in Requests /\ path[i].user = u THEN Append(g[i - 1], path[i])
                      ELSE g[i - 1]]

LEMMA ChosenExists ==
  ASSUME NEW path, NEW u, NEW m \in Nat
  PROVE  \E g : Chosen(path, u, m, g)
<1> DEFINE B == {n \in Nat : \A g : ~Chosen(path, u, n, g)}
<1>1. ASSUME B # {} PROVE FALSE
  <2>1. PICK n \in B : \A k \in B : n <= k
    <3>1. B \in SUBSET Nat
      OBVIOUS
    <3> HIDE DEF B
    <3> QED BY <1>1, <3>1, LeastNat
  <2>2. n # 0
    <3>1. Chosen(path, u, 0, [i \in 0..0 |-> <<>>])
      BY DEF Chosen
    <3> HIDE DEF Chosen
    <3> QED BY <2>1, <3>1
  <2>3. PICK h : Chosen(path, u, n - 1, h)
    <3>1. n - 1 \in Nat /\ ~(n <= n - 1)
      BY <2>2
    <3>2. n - 1 \notin B
      BY <2>1, <3>1
    <3> HIDE DEF Chosen
    <3> QED BY <3>1, <3>2
  <2> DEFINE last == IF path[n] \in Requests /\ path[n].user = u THEN Append(h[n - 1], path[n]) ELSE h[n - 1]
             g == [i \in 0..n |-> IF i = n THEN last ELSE h[i]]
  <2>4. \A i \in 0..n : g[i] = IF i = 0 THEN <<>>
                               ELSE IF path[i] \in Requests /\ path[i].user = u THEN Append(g[i - 1], path[i])
                               ELSE g[i - 1]
    <3> TAKE i \in 0..n
    <3>1. CASE i = n
      <4>1. n - 1 \in 0..n /\ n - 1 # n
        BY <2>2
      <4>2. g[n - 1] = h[n - 1] /\ g[n] = last
        BY <4>1
      <4> QED BY <2>2, <3>1, <4>2
    <3>2. CASE i # n
      <4>1. i \in 0..(n - 1) /\ (i # 0 => i - 1 \in 0..n /\ i - 1 # n)
        BY <3>2
      <4>2. g[i] = h[i] /\ (i # 0 => g[i - 1] = h[i - 1])
        BY <4>1
      <4> QED BY <2>3, <4>1, <4>2 DEF Chosen
    <3> QED BY <3>1, <3>2
  <2>5. g = [i \in 0..n |-> g[i]]
    OBVIOUS
  <2>6. Chosen(path, u, n, g)
    BY <2>4, <2>5 DEF Chosen
  <2> HIDE DEF Chosen
  <2> QED BY <2>1, <2>6
<1>2. m \notin B
  BY <1>1
<1> HIDE DEF Chosen
<1> QED BY <1>2

LEMMA AmongUnfolds ==
  ASSUME NEW path \in Seq(Steps), NEW u, NEW i \in 0..Len(path)
  PROVE  Abstract!Among(path, u)[i] =
           IF i = 0 THEN <<>>
           ELSE IF path[i] \in Requests /\ path[i].user = u
             THEN Append(Abstract!Among(path, u)[i - 1], path[i])
           ELSE Abstract!Among(path, u)[i - 1]
<1>1. Len(path) \in Nat
  OBVIOUS
<1>2. Abstract!Among(path, u) = CHOOSE g : Chosen(path, u, Len(path), g)
  BY DEF Abstract!Among, Chosen
<1>3. Chosen(path, u, Len(path), Abstract!Among(path, u))
  BY <1>1, <1>2, ChosenExists
<1>4. PICK g : g = Abstract!Among(path, u)
  OBVIOUS
<1> QED BY <1>3, <1>4 DEF Chosen

\* Among are movements; there are none when none of the steps is one.
LEMMA AmongTyped ==
  ASSUME NEW path \in Seq(Steps), NEW u, NEW m \in 0..Len(path)
  PROVE  /\ Abstract!Among(path, u)[m] \in Seq(Requests)
         /\ Behind(path, m) = {} => Abstract!Among(path, u)[m] = <<>>
<1>1. PICK f : f = Abstract!Among(path, u)
  OBVIOUS
<1> DEFINE Good(n) == f[n] \in Seq(Requests) /\ (Behind(path, n) = {} => f[n] = <<>>)
           B == {n \in 0..Len(path) : ~Good(n)}
<1>2. ASSUME B # {} PROVE FALSE
  <2>1. PICK n \in B : \A k \in B : n <= k
    <3>1. B \in SUBSET Nat
      OBVIOUS
    <3> HIDE DEF B
    <3> QED BY <1>2, <3>1, LeastNat
  <2>2. f[n] = IF n = 0 THEN <<>>
               ELSE IF path[n] \in Requests /\ path[n].user = u THEN Append(f[n - 1], path[n])
               ELSE f[n - 1]
    BY <1>1, <2>1, AmongUnfolds
  <2>3. n # 0
    <3>1. <<>> \in Seq(Requests)
      OBVIOUS
    <3>2. ~Good(n)
      BY <2>1
    <3>3. CASE n = 0
      <4>1. f[n] = <<>>
        BY <2>2, <3>3
      <4> QED BY <3>1, <3>2, <4>1
    <3> QED BY <3>3
  <2>4. n - 1 \in 0..Len(path) /\ ~(n <= n - 1)
    BY <2>1, <2>3
  <2>5. f[n - 1] \in Seq(Requests) /\ (Behind(path, n - 1) = {} => f[n - 1] = <<>>)
    BY <2>1, <2>4
  <2>6. Behind(path, n) = {} => Behind(path, n - 1) = {} /\ path[n] \notin Requests
    BY <2>1, <2>3 DEF Behind
  <2>7. f[n] \in Seq(Requests)
    BY <2>2, <2>3, <2>5
  <2>8. Good(n)
    BY <2>2, <2>3, <2>5, <2>6, <2>7
  <2> QED BY <2>1, <2>8
<1>3. m \notin B
  BY <1>2
<1> QED BY <1>1, <1>3

\* One more step of a path.
LEMMA BehindNext ==
  ASSUME NEW path \in Seq(Steps), NEW n \in Nat, n < Len(path)
  PROVE  Behind(path, n + 1) = Behind(path, n) \cup ({path[n + 1]} \cap Requests)
BY DEF Behind

LEMMA BehindMoves ==
  ASSUME NEW path \in Seq(Steps), NEW n \in 0..Len(path)
  PROVE  Behind(path, n) \subseteq MovesOf(path) /\ Behind(path, Len(path)) = MovesOf(path)
<1>1. DOMAIN path = 1..Len(path) /\ Len(path) \in Nat
  OBVIOUS
<1> QED BY <1>1 DEF Behind, MovesOf

\* The rest of a path, one step on.
LEMMA RestNext ==
  ASSUME NEW path \in Seq(Steps), NEW q \in Seq(Steps), q # <<>>, Rest(q, path)
  PROVE  LET n == Len(path) - Len(q) IN
         /\ n \in Nat /\ n < Len(path) /\ Head(q) = path[n + 1]
         /\ Rest(Tail(q), path) /\ Len(path) - Len(Tail(q)) = n + 1
         /\ MovesOf(Tail(q)) \subseteq MovesOf(q) /\ Head(q) \in Steps
<1>1. /\ Len(q) \in Nat \ {0} /\ Len(path) \in Nat /\ Len(Tail(q)) = Len(q) - 1
      /\ \A k \in 1..(Len(q) - 1) : Tail(q)[k] = q[k + 1]
      /\ Head(q) = q[1] /\ Head(q) \in Steps /\ Tail(q) \in Seq(Steps)
  OBVIOUS
<1>2. Len(q) <= Len(path) /\ \A k \in 1..Len(q) : q[k] = path[Len(path) - Len(q) + k]
  BY DEF Rest
<1>3. Head(q) = path[Len(path) - Len(q) + 1]
  BY <1>1, <1>2
<1>4. Rest(Tail(q), path)
  <2>1. ASSUME NEW k \in 1..Len(Tail(q)) PROVE Tail(q)[k] = path[Len(path) - Len(Tail(q)) + k]
    <3>1. k + 1 \in 1..Len(q) /\ k \in 1..(Len(q) - 1)
      BY <1>1
    <3>2. Len(path) - Len(q) + (k + 1) = Len(path) - Len(Tail(q)) + k
      BY <1>1, <3>1
    <3> QED BY <1>1, <1>2, <3>1, <3>2
  <2> QED BY <1>1, <1>2, <2>1 DEF Rest
<1>5. MovesOf(Tail(q)) \subseteq MovesOf(q)
  <2>1. \A k \in DOMAIN Tail(q) : k \in 1..(Len(q) - 1) /\ k + 1 \in DOMAIN q
    BY <1>1
  <2> QED BY <1>1, <2>1 DEF MovesOf
<1> QED BY <1>1, <1>2, <1>3, <1>4, <1>5

LEMMA RestWhole == ASSUME NEW path \in Seq(Steps) PROVE Rest(path, path) /\ Len(path) - Len(path) = 0
<1>1. Len(path) \in Nat
  OBVIOUS
<1> QED BY <1>1 DEF Rest

\* An entry added to a ledger adds its request.
LEMMA RequestsTyped ==
  ASSUME NEW l \in Seq(Entries)
  PROVE  /\ RequestsOf(l) \in Seq(Requests) /\ Len(RequestsOf(l)) = Len(l)
         /\ \A i \in 1..Len(l) : RequestsOf(l)[i] = l[i].req
<1>1. \A i \in DOMAIN l : l[i].req \in Requests
  BY EntryAmount
<1>2. DOMAIN l = 1..Len(l) /\ Len(l) \in Nat
  OBVIOUS
<1> QED BY <1>1, <1>2 DEF RequestsOf

LEMMA RequestsAppended ==
  ASSUME NEW l \in Seq(Entries), NEW e \in Entries
  PROVE  RequestsOf(CreateEntry(l, e)) = Append(RequestsOf(l), e.req)
<1>1. PICK m \in Seq(Entries) : m = CreateEntry(l, e)
  BY AppendProperties DEF CreateEntry
<1>2. PICK a \in Seq(Requests) : a = RequestsOf(l)
  BY RequestsTyped
<1>3. PICK b \in Seq(Requests) : b = RequestsOf(m)
  BY RequestsTyped
<1>4. PICK r \in Requests : r = e.req
  BY EntryAmount
<1>5. /\ Len(m) = Len(l) + 1 /\ Len(l) \in Nat /\ m[Len(l) + 1] = e
      /\ \A i \in 1..Len(l) : m[i] = l[i]
  BY <1>1, AppendProperties DEF CreateEntry
<1>6. /\ Append(a, r) \in Seq(Requests) /\ Len(Append(a, r)) = Len(a) + 1
      /\ Append(a, r)[Len(a) + 1] = r /\ \A i \in 1..Len(a) : Append(a, r)[i] = a[i]
  BY AppendProperties
<1>7. /\ Len(a) = Len(l) /\ \A i \in 1..Len(l) : a[i] = l[i].req
      /\ Len(b) = Len(m) /\ \A i \in 1..Len(m) : b[i] = m[i].req
  BY <1>2, <1>3, RequestsTyped
<1>8. \A i \in 1..Len(b) : b[i] = Append(a, r)[i]
  <2> TAKE i \in 1..Len(b)
  <2>1. CASE i = Len(l) + 1
    BY <1>4, <1>5, <1>6, <1>7, <2>1
  <2>2. CASE i # Len(l) + 1
    <3>1. i \in 1..Len(l) /\ i \in 1..Len(m)
      BY <1>5, <1>7, <2>2
    <3>2. b[i] = m[i].req /\ m[i] = l[i] /\ a[i] = l[i].req /\ Append(a, r)[i] = a[i]
      BY <1>5, <1>6, <1>7, <3>1
    <3> QED BY <3>2
  <2> QED BY <2>1, <2>2
<1>9. Len(b) = Len(Append(a, r))
  BY <1>5, <1>6, <1>7
<1>10. b = Append(a, r)
  BY <1>6, <1>8, <1>9, SeqEqual
<1> QED BY <1>1, <1>2, <1>3, <1>4, <1>10

\* A step of session s leaves the others, their records and the rows they hold alone.
Alone(s) == \A t \in Sessions \ {s} :
  /\ pc'[t] = pc[t] /\ todo'[t] = todo[t] /\ alt'[t] = alt[t] /\ snap'[t] = snap[t]
  /\ \A q : q.by = t => (q \in idem' <=> q \in idem)
  /\ \A u \in Users : /\ walletLock'[u] = t <=> walletLock[u] = t
                      /\ walletLock[u] = t => row'[u] = row[u] /\ wallets'[u] = wallets[u]

LEMMA OtherAdds ==
  ASSUME NEW s, NEW t \in Sessions \ {s}, Alone(s), NEW moved, Adds(t, moved)
  PROVE  Adds(t, moved)'
<1> SUFFICES ASSUME NEW u \in Users
             PROVE  IF walletLock'[u] = t
                      THEN RequestsOf(row'[u].ledger) = RequestsOf(wallets'[u].ledger) \o moved[u]
                      ELSE moved[u] = <<>>
  BY DEF Adds, RequestsOf
<1> QED BY DEF Adds, Alone

LEMMA OtherWrites ==
  ASSUME NEW s, NEW t \in Sessions \ {s}, Alone(s), NEW path, NEW refused,
         Writes(t, path, refused)
  PROVE  Writes(t, path, refused)'
<1>1. pc'[t] = pc[t] /\ todo'[t] = todo[t] /\ \A q : q.by = t => (q \in idem' <=> q \in idem)
  BY DEF Alone
<1>2. \A r : Completed(r, t).by = t /\ NewRecord(t, r).by = t
  BY DEF Completed, NewRecord
<1>3. \A r : /\ Completed(r, t) \in idem' <=> Completed(r, t) \in idem
             /\ NewRecord(t, r) \in idem' <=> NewRecord(t, r) \in idem
  BY <1>1, <1>2
<1> HIDE DEF Alone
<1>4. PICK b : b = Behind(path, Past(t, path))
  OBVIOUS
<1>5. b = Behind(path, Past(t, path)')
  BY <1>1, <1>4 DEF Past
<1>6. /\ \A r \in b : Completed(r, t) \in idem
      /\ \A q \in idem : q.by = t =>
           \/ q.req \in b /\ q.status = "completed"
           \/ pc[t] \in {"lock", "apply", "complete"} /\ q.req = Head(todo[t])
           \/ q.req \in refused /\ q.status = "pending"
      /\ \A r \in refused : NewRecord(t, r) \in idem
  BY <1>4 DEF Writes
<1>7. /\ \A r \in b : Completed(r, t) \in idem'
      /\ \A q \in idem' : q.by = t =>
           \/ q.req \in b /\ q.status = "completed"
           \/ pc'[t] \in {"lock", "apply", "complete"} /\ q.req = Head(todo'[t])
           \/ q.req \in refused /\ q.status = "pending"
      /\ \A r \in refused : NewRecord(t, r) \in idem'
  BY <1>1, <1>3, <1>6
<1> QED BY <1>5, <1>7 DEF Writes, Completed, NewRecord

LEMMA OtherWorks ==
  ASSUME NEW s, NEW t \in Sessions \ {s}, Alone(s), NEW path, NEW refused,
         Works(t, path, refused)
  PROVE  Works(t, path, refused)'
<1>1. pc'[t] = pc[t] /\ todo'[t] = todo[t]
  BY DEF Alone
<1>2. PICK moved : moved = Moved(path, IF pc[t] = "complete" THEN Past(t, path) + 1 ELSE Past(t, path))
  OBVIOUS
<1>3. moved = Moved(path, IF pc'[t] = "complete" THEN Past(t, path)' + 1 ELSE Past(t, path)')
  BY <1>1, <1>2 DEF Past
<1>4. Adds(t, moved)' /\ Writes(t, path, refused)'
  BY <1>2, OtherAdds, OtherWrites DEF Works
<1>5. Rest(todo'[t], path)
  BY <1>1 DEF Works
<1>6. Adds(t, Moved(path, IF pc[t] = "complete" THEN Past(t, path) + 1 ELSE Past(t, path)))'
  BY <1>3, <1>4 DEF Adds, Moved
<1> QED BY <1>4, <1>5, <1>6 DEF Works, Rest

LEMMA OtherMoves ==
  ASSUME NEW s, NEW t \in Sessions \ {s}, Alone(s), AtWork(t) \/ AtRest(t)
  PROVE  (AtWork(t) \/ AtRest(t))'
<1>1. pc'[t] = pc[t] /\ todo'[t] = todo[t] /\ alt'[t] = alt[t] /\ snap'[t] = snap[t]
  BY DEF Alone
<1>2. CASE AtWork(t)
  <2>1. PICK c \in Scripts : Unseen(t, c) /\ (OnMain(t, c) \/ OnAlt(t, c))
    BY <1>2 DEF AtWork
  <2>2. Unseen(t, c)'
    BY <1>1, <2>1 DEF Unseen
  <2>3. OnMain(t, c) => OnMain(t, c)'
    BY <1>1, OtherWorks DEF OnMain
  <2>4. OnAlt(t, c) => OnAlt(t, c)'
    BY <1>1, OtherWorks DEF OnAlt
  <2> QED BY <1>1, <1>2, <2>1, <2>2, <2>3, <2>4 DEF AtWork
<1>3. CASE AtRest(t)
  <2>1. Adds(t, Nothing)'
    <3>1. PICK z : z = Nothing
      OBVIOUS
    <3>2. Adds(t, z)'
      BY <1>3, <3>1, OtherAdds DEF AtRest
    <3> QED BY <3>1, <3>2 DEF Adds, Nothing
  <2>2. \A q \in idem' : q.by # t
    BY <1>3 DEF AtRest, Alone
  <2>3. pc'[t] = "idle" \/ (pc'[t] = "step" /\ (Answered(t)' \/ Refused(t)'))
    BY <1>1, <1>3 DEF AtRest, Answered, Refused
  <2> QED BY <2>1, <2>2, <2>3 DEF AtRest
<1> QED BY <1>2, <1>3

\* What is left to show of a step that commits nothing.
LEMMA MovesFrame ==
  ASSUME MovesInv, NEW s \in Sessions, Alone(s), Committed' = Committed, (AtWork(s) \/ AtRest(s))',
         \A p, q \in snap'[s].idem : RecId(p.req) = RecId(q.req) => p = q
  PROVE  MovesInv'
<1>1. \A t \in Sessions : (AtWork(t) \/ AtRest(t))'
  <2> TAKE t \in Sessions
  <2>1. CASE t # s
    BY <2>1, OtherMoves DEF MovesInv
  <2> QED BY <2>1
<1>2. \A t \in Sessions : \A p, q \in snap'[t].idem : RecId(p.req) = RecId(q.req) => p = q
  BY DEF Alone, MovesInv
<1>3. \A c \in Scripts : WholeIn(c, Committed)'
  BY DEF MovesInv, WholeIn
<1> QED BY <1>1, <1>2, <1>3 DEF MovesInv

\* A session that holds nothing is at rest.
LEMMA EndedAtRest ==
  ASSUME NEW s \in Sessions, pc'[s] = "idle", \A q \in idem' : q.by # s,
         \A u \in Users : walletLock'[u] # s
  PROVE  AtRest(s)'
<1>1. Adds(s, Nothing)'
  BY DEF Adds, Nothing
<1> QED BY <1>1 DEF AtRest

LEMMA RollbackMoves ==
  ASSUME Typed, MovesInv, NEW s \in Sessions, NEW answer, Rollback(s, answer)
  PROVE  MovesInv'
<1>1. /\ wallets' = wallets /\ idem' = {q \in idem : q.by # s}
      /\ row' = [u \in Users |-> IF walletLock[u] = s THEN wallets[u] ELSE row[u]]
      /\ walletLock' = [u \in Users |-> IF walletLock[u] = s THEN NoSession ELSE walletLock[u]]
      /\ pc' = [pc EXCEPT ![s] = "idle"] /\ todo' = [todo EXCEPT ![s] = <<>>]
      /\ alt' = [alt EXCEPT ![s] = <<>>] /\ snap' = [snap EXCEPT ![s] = NoSnap]
  BY DEF Rollback, EndSession, RestoreRows, Goto
<1>2. NoSession \notin Sessions
  BY WalletAssumption
<1>3. Alone(s)
  BY <1>1, <1>2 DEF Alone, Typed, TypeOK
<1>4. Committed' = Committed
  BY <1>1, <1>2 DEF Committed
<1>5. pc'[s] = "idle" /\ snap'[s] = NoSnap
  BY <1>1 DEF Typed, TypeOK
<1>6. AtRest(s)'
  BY <1>1, <1>2, <1>5, EndedAtRest
<1> QED BY <1>3, <1>4, <1>5, <1>6, MovesFrame DEF NoSnap

\* The path a session is on, whichever of the two.
OnPath(s, c, path, refused) ==
  \/ path = c.main /\ refused = {} /\ alt[s] = c.alt
  \/ /\ path = c.alt /\ c.alt # <<>> /\ alt[s] = <<>>
     /\ \E i \in DOMAIN c.main : First(c.main, i) /\ refused = {c.main[i]}

LEMMA PathOf ==
  ASSUME NEW s, AtWork(s)
  PROVE  \E c \in Scripts : \E path, refused :
           Unseen(s, c) /\ OnPath(s, c, path, refused) /\ Works(s, path, refused)
<1>1. PICK c \in Scripts : Unseen(s, c) /\ (OnMain(s, c) \/ OnAlt(s, c))
  BY DEF AtWork
<1>2. CASE OnMain(s, c)
  <2>1. OnPath(s, c, c.main, {}) /\ Works(s, c.main, {})
    BY <1>2 DEF OnMain, OnPath
  <2> QED BY <1>1, <2>1
<1>3. CASE OnAlt(s, c)
  <2>1. PICK i \in DOMAIN c.main : First(c.main, i) /\ Works(s, c.alt, {c.main[i]})
    BY <1>3 DEF OnAlt
  <2>2. OnPath(s, c, c.alt, {c.main[i]})
    BY <1>3, <2>1 DEF OnAlt, OnPath
  <2> QED BY <1>1, <2>1, <2>2
<1> QED BY <1>1, <1>2, <1>3

LEMMA PathWorks ==
  ASSUME NEW s, pc'[s] # "idle", NEW c \in Scripts, NEW path, NEW refused,
         Unseen(s, c)', OnPath(s, c, path, refused)', Works(s, path, refused)'
  PROVE  AtWork(s)'
<1>1. CASE OnMain(s, c)'
  BY <1>1 DEF AtWork
<1>2. CASE OnAlt(s, c)'
  BY <1>2 DEF AtWork
<1> QED BY <1>1, <1>2 DEF OnPath, OnMain, OnAlt

LEMMA PathFacts ==
  ASSUME TidyScripts, NEW s, NEW c \in Scripts, NEW path, NEW refused, OnPath(s, c, path, refused)
  PROVE  /\ path \in Seq(Steps) /\ Once(path) /\ refused \subseteq Requests
         /\ refused \cap MovesOf(path) = {}
         /\ MovesOf(path) \cup refused \subseteq MovesOf(c.main) \cup MovesOf(c.alt)
<1>1. c.main \in Seq(Steps) /\ c.alt \in Seq(Steps)
  BY WalletAssumption
<1>2. /\ Once(c.main) /\ Once(c.alt)
      /\ c.alt # <<>> => \A i \in DOMAIN c.main : c.main[i] \in Requests =>
           IF First(c.main, i) THEN c.main[i] \notin MovesOf(c.alt)
           ELSE c.main[i].dir # "debit" /\ c.main[i].entry # "stake"
  BY DEF TidyScripts, Tidy
<1>3. CASE path = c.main /\ refused = {}
  BY <1>1, <1>2, <1>3
<1>4. CASE path = c.alt /\ c.alt # <<>> /\ \E i \in DOMAIN c.main : First(c.main, i) /\ refused = {c.main[i]}
  <2>1. PICK i \in DOMAIN c.main : First(c.main, i) /\ refused = {c.main[i]}
    BY <1>4
  <2>2. c.main[i] \in Requests /\ c.main[i] \in MovesOf(c.main) /\ c.main[i] \notin MovesOf(c.alt)
    BY <1>2, <1>4, <2>1 DEF First, MovesOf
  <2> QED BY <1>1, <1>2, <1>4, <2>1, <2>2
<1> QED BY <1>3, <1>4 DEF OnPath

\* Where a session at work stands on its path.
LEMMA PathHead ==
  ASSUME Typed, TidyScripts, NEW s \in Sessions, NEW c \in Scripts, NEW path, NEW refused,
         OnPath(s, c, path, refused), Works(s, path, refused), todo[s] # <<>>
  PROVE  LET n == Past(s, path) IN
         /\ n \in Nat /\ n < Len(path) /\ Head(todo[s]) = path[n + 1] /\ path[n + 1] \in Steps
         /\ Rest(Tail(todo[s]), path) /\ Len(path) - Len(Tail(todo[s])) = n + 1
         /\ Behind(path, n + 1) = Behind(path, n) \cup ({path[n + 1]} \cap Requests)
         /\ path[n + 1] \notin Behind(path, n)
         /\ path[n + 1] \in Requests => path[n + 1] \in MovesOf(path)
<1>1. path \in Seq(Steps) /\ Once(path) /\ todo[s] \in Seq(Steps)
  BY PathFacts DEF Typed, TypeOK
<1>2. Rest(todo[s], path)
  BY DEF Works
<1>3. PICK n : n = Past(s, path)
  OBVIOUS
<1>4. /\ n \in Nat /\ n < Len(path) /\ Head(todo[s]) = path[n + 1] /\ Head(todo[s]) \in Steps
      /\ Rest(Tail(todo[s]), path) /\ Len(path) - Len(Tail(todo[s])) = n + 1
  BY <1>1, <1>2, <1>3, RestNext DEF Past
<1>5. Behind(path, n + 1) = Behind(path, n) \cup ({path[n + 1]} \cap Requests)
  BY <1>1, <1>4, BehindNext
<1>6. DOMAIN path = 1..Len(path) /\ Len(path) \in Nat
  BY <1>1
<1>7. n + 1 \in DOMAIN path /\ \A i \in 1..n : i \in DOMAIN path /\ i # n + 1
  BY <1>4, <1>6
<1>8. path[n + 1] \notin Behind(path, n)
  BY <1>1, <1>7 DEF Behind, Once
<1>9. path[n + 1] \in Requests => path[n + 1] \in MovesOf(path)
  BY <1>7 DEF MovesOf
<1> QED BY <1>3, <1>4, <1>5, <1>8, <1>9

\* The next movement of a path is the next one among those of its user.
LEMMA MovedNext ==
  ASSUME NEW path \in Seq(Steps), NEW n \in Nat, n < Len(path)
  PROVE  /\ path[n + 1] \notin Requests => Moved(path, n + 1) = Moved(path, n)
         /\ path[n + 1] \in Requests => \A u \in Users :
              Moved(path, n + 1)[u] = IF path[n + 1].user = u THEN Append(Moved(path, n)[u], path[n + 1])
                                                              ELSE Moved(path, n)[u]
         /\ \A u \in Users : Moved(path, n)[u] \in Seq(Requests)
<1>1. n + 1 \in 0..Len(path) /\ n \in 0..Len(path) /\ n + 1 # 0 /\ (n + 1) - 1 = n
  OBVIOUS
<1>2. \A u \in Users : Abstract!Among(path, u)[n + 1] =
        IF path[n + 1] \in Requests /\ path[n + 1].user = u
          THEN Append(Abstract!Among(path, u)[n], path[n + 1]) ELSE Abstract!Among(path, u)[n]
  <2> TAKE u \in Users
  <2> QED BY <1>1, AmongUnfolds
<1>3. \A u \in Users : Abstract!Among(path, u)[n] \in Seq(Requests)
  BY <1>1, AmongTyped
<1> QED BY <1>2, <1>3 DEF Moved

LEMMA MovedNothing ==
  ASSUME NEW path \in Seq(Steps), NEW n \in 0..Len(path), Behind(path, n) = {}
  PROVE  Moved(path, n) = Nothing
<1>1. \A u \in Users : Abstract!Among(path, u)[n] = <<>>
  BY AmongTyped
<1> QED BY <1>1 DEF Moved, Nothing

\* The first movement of a sequence of steps that begins with none.
LEMMA FirstTail ==
  ASSUME NEW q \in Seq(Steps), q # <<>>, Head(q) \notin Requests, NEW i \in DOMAIN q, First(q, i)
  PROVE  i - 1 \in DOMAIN Tail(q) /\ First(Tail(q), i - 1) /\ Tail(q)[i - 1] = q[i]
<1>1. /\ DOMAIN q = 1..Len(q) /\ Len(q) \in Nat /\ Head(q) = q[1]
      /\ DOMAIN Tail(q) = 1..(Len(q) - 1) /\ \A k \in 1..(Len(q) - 1) : Tail(q)[k] = q[k + 1]
  OBVIOUS
<1>2. i \in 2..Len(q) /\ q[i] \in Requests /\ \A j \in 1..(i - 1) : q[j] \notin Requests
  BY <1>1 DEF First
<1>3. i - 1 \in 1..(Len(q) - 1) /\ (i - 1) + 1 = i
  BY <1>1, <1>2
<1>4. \A j \in 1..((i - 1) - 1) : j \in 1..(Len(q) - 1) /\ j + 1 \in 1..(i - 1)
  BY <1>1, <1>2
<1>5. Tail(q)[i - 1] = q[i] /\ \A j \in 1..((i - 1) - 1) : Tail(q)[j] = q[j + 1]
  BY <1>1, <1>3, <1>4
<1> QED BY <1>1, <1>2, <1>3, <1>4, <1>5 DEF First

\* A step that is no movement brings a session one step on.
LEMMA PassedMoves ==
  ASSUME Typed, TidyScripts, NEW s \in Sessions, AtWork(s) \/ AtRest(s),
         pc[s] = "step", todo[s] # <<>>, Head(todo[s]) \notin Requests,
         pc'[s] = "step", todo'[s] = Tail(todo[s]), alt'[s] = alt[s], snap'[s].idem = snap[s].idem,
         idem' = idem, \A moved : Adds(s, moved) => Adds(s, moved)'
  PROVE  (AtWork(s) \/ AtRest(s))'
<1>1. CASE AtWork(s)
  <2>pick1. PICK c \in Scripts : \E path, refused : Unseen(s, c) /\ OnPath(s, c, path, refused) /\ Works(s, path, refused)
    BY <1>1, PathOf
  <2>1. PICK path, refused : Unseen(s, c) /\ OnPath(s, c, path, refused) /\ Works(s, path, refused)
    BY <2>pick1
  <2>2. PICK n : n = Past(s, path)
    OBVIOUS
  <2>3. /\ n \in Nat /\ n < Len(path) /\ Head(todo[s]) = path[n + 1]
        /\ Rest(Tail(todo[s]), path) /\ Len(path) - Len(Tail(todo[s])) = n + 1
        /\ Behind(path, n + 1) = Behind(path, n) \cup ({path[n + 1]} \cap Requests)
    BY <2>1, <2>2, PathHead
  <2>4. Past(s, path)' = n + 1
    BY <2>3 DEF Past
  <2>5. Behind(path, n + 1) = Behind(path, n)
    BY <2>3
  <2>6. Writes(s, path, refused)'
    <3>1. Writes(s, path, refused)
      BY <2>1 DEF Works
    <3>2. /\ \A r \in Behind(path, n) : Completed(r, s) \in idem
          /\ \A q \in idem : q.by = s =>
               \/ q.req \in Behind(path, n) /\ q.status = "completed"
               \/ q.req \in refused /\ q.status = "pending"
          /\ \A r \in refused : NewRecord(s, r) \in idem
      BY <2>2, <3>1 DEF Writes
    <3> QED BY <2>4, <2>5, <3>2 DEF Writes, Completed, NewRecord
  <2>7. Adds(s, Moved(path, n + 1))'
    <3>1. path \in Seq(Steps)
      BY <2>1, PathFacts
    <3>2. PICK moved : moved = Moved(path, n)
      OBVIOUS
    <3>3. moved = Moved(path, n + 1)
      BY <2>3, <3>1, <3>2, MovedNext
    <3>4. Adds(s, moved)
      BY <2>1, <2>2, <3>2 DEF Works
    <3>5. Adds(s, moved)'
      BY <3>4
    <3> QED BY <3>3, <3>5
  <2>8. Works(s, path, refused)'
    BY <2>3, <2>4, <2>6, <2>7 DEF Works
  <2>9. OnPath(s, c, path, refused)' /\ Unseen(s, c)'
    BY <2>1 DEF OnPath, Unseen
  <2>10. AtWork(s)'
    BY <2>8, <2>9, PathWorks
  <2> QED BY <2>10
<1>2. CASE AtRest(s)
  <2>1. Adds(s, Nothing)' /\ \A q \in idem' : q.by # s
    <3>1. PICK z : z = Nothing
      OBVIOUS
    <3>2. Adds(s, z)'
      BY <1>2, <3>1 DEF AtRest
    <3> QED BY <1>2, <3>1, <3>2 DEF AtRest, Adds, Nothing
  <2>2. todo[s] \in Seq(Steps)
    BY DEF Typed, TypeOK
  <2>3. CASE Answered(s)
    <3>1. MovesOf(Tail(todo[s])) \subseteq MovesOf(todo[s])
      BY <2>2, RestNext, RestWhole
    <3>2. Answered(s)'
      BY <2>3, <3>1 DEF Answered
    <3> QED BY <2>1, <3>2 DEF AtRest
  <2>4. CASE Refused(s)
    <3>1. PICK i \in DOMAIN todo[s] : First(todo[s], i) /\ Refusal(todo[s][i]) \in snap[s].idem
      BY <2>4 DEF Refused
    <3>2. /\ i - 1 \in DOMAIN Tail(todo[s]) /\ First(Tail(todo[s]), i - 1)
          /\ Tail(todo[s])[i - 1] = todo[s][i]
      BY <2>2, <3>1, FirstTail
    <3>3. Refused(s)'
      BY <2>4, <3>1, <3>2 DEF Refused
    <3> QED BY <2>1, <3>3 DEF AtRest
  <2> QED BY <1>2, <2>3, <2>4 DEF AtRest
<1> QED BY <1>1, <1>2

LEMMA EnsureMoves ==
  ASSUME Typed, TidyScripts, LedgerInv, MovesInv, NEW s \in Sessions, EnsureDefaultWallet(s)
  PROVE  MovesInv'
<1>1. /\ Head(todo[s]).ensure \in Users /\ Head(todo[s]) \notin Requests
      /\ pc[s] = "step" /\ todo[s] # <<>>
  BY WalletAssumption DEF EnsureDefaultWallet, EnsureSteps
<1>h. PICK h \in Users : h = Head(todo[s]).ensure
  BY <1>1
<1>2. NoSession \notin Sessions
  BY WalletAssumption
<1>3. CASE /\ todo' = [todo EXCEPT ![s] = Tail(@)]
           /\ UNCHANGED <<wallets, row, walletLock, idem, pc, alt, snap>>
  <2>1. Alone(s) /\ pc'[s] = "step" /\ todo'[s] = Tail(todo[s]) /\ alt'[s] = alt[s] /\ snap'[s] = snap[s]
    BY <1>1, <1>3 DEF Alone, Typed, TypeOK
  <2>2. \A moved : Adds(s, moved) => Adds(s, moved)'
    BY <1>3 DEF Adds
  <2>3. (AtWork(s) \/ AtRest(s))'
    BY <1>1, <1>3, <2>1, <2>2, PassedMoves DEF MovesInv
  <2>4. Committed' = Committed
    BY <1>3 DEF Committed
  <2> QED BY <2>1, <2>3, <2>4, MovesFrame DEF MovesInv
<1>4. CASE /\ walletLock[h] = NoSession /\ ~wallets[h].open
           /\ row' = [row EXCEPT ![h] = NewWallet]
           /\ walletLock' = [walletLock EXCEPT ![h] = s]
           /\ snap' = [snap EXCEPT ![s].open[h] = TRUE]
           /\ todo' = [todo EXCEPT ![s] = Tail(@)]
           /\ UNCHANGED <<wallets, idem, pc, alt>>
  <2>1. /\ pc'[s] = "step" /\ todo'[s] = Tail(todo[s]) /\ alt'[s] = alt[s]
        /\ snap'[s].idem = snap[s].idem
    BY <1>1, <1>4 DEF Typed, TypeOK, Snaps
  <2>2. Alone(s)
    BY <1>2, <1>4 DEF Alone, Typed, TypeOK
  <2>3. ASSUME NEW moved, Adds(s, moved) PROVE Adds(s, moved)'
    <3>1. row'[h].ledger = <<>> /\ wallets[h].ledger = <<>> /\ wallets' = wallets
      BY <1>4 DEF NewWallet, LedgerInv, EmptyUnlessOpen, Typed, TypeOK
    <3>2. walletLock'[h] = s /\ \A u \in Users \ {h} : row'[u] = row[u] /\ walletLock'[u] = walletLock[u]
      BY <1>4 DEF Typed, TypeOK
    <3>3. moved[h] = <<>>
      BY <1>2, <1>4, <2>3 DEF Adds
    <3>4. RequestsOf(<<>>) = RequestsOf(<<>>) \o <<>>
      BY DEF RequestsOf
    <3>5. \A u \in Users : IF walletLock'[u] = s
                             THEN RequestsOf(row'[u].ledger) = RequestsOf(wallets'[u].ledger) \o moved[u]
                             ELSE moved[u] = <<>>
      BY <2>3, <3>1, <3>2, <3>3, <3>4 DEF Adds
    <3> QED BY <3>5 DEF Adds, RequestsOf
  <2>4. (AtWork(s) \/ AtRest(s))'
    BY <1>1, <1>4, <2>1, <2>3, PassedMoves DEF MovesInv
  <2>5. Committed' = Committed
    BY <1>4 DEF Committed
  <2> QED BY <2>1, <2>2, <2>4, <2>5, MovesFrame DEF MovesInv
<1>5. CASE Rollback(s, "duplicate wallet")
  BY <1>5, RollbackMoves
<1> QED BY <1>h, <1>3, <1>4, <1>5 DEF EnsureDefaultWallet, moneyVars

\* What a step leaves alone of a session that only goes from one place to the next.
LEMMA HeldAdds ==
  ASSUME UNCHANGED <<wallets, row, walletLock>>, NEW s, NEW moved, Adds(s, moved)
  PROVE  Adds(s, moved)'
BY DEF Adds

\* A session at work finds no record of its request and goes on to insert one.
LEMMA NothingFound ==
  ASSUME Typed, TidyScripts, NEW s \in Sessions, AtWork(s), pc[s] = "step", todo[s] # <<>>,
         NEW r \in Requests, r = Head(todo[s])
  PROVE  \A q \in snap[s].idem \cup {p \in idem : p.by = s} : RecId(q.req) # RecId(r)
<1>pick1. PICK c \in Scripts : \E path, refused : Unseen(s, c) /\ OnPath(s, c, path, refused) /\ Works(s, path, refused)
  BY PathOf
<1>1. PICK path, refused : Unseen(s, c) /\ OnPath(s, c, path, refused) /\ Works(s, path, refused)
  BY <1>pick1
<1>2. /\ r \in MovesOf(path) /\ r \notin Behind(path, Past(s, path)) /\ r \notin refused
      /\ MovesOf(path) \subseteq MovesOf(c.main) \cup MovesOf(c.alt)
  <2>1. PICK n : n = Past(s, path)
    OBVIOUS
  <2>2. r = path[n + 1] /\ r \notin Behind(path, n) /\ r \in MovesOf(path)
    BY <1>1, <2>1, PathHead
  <2>3. /\ refused \cap MovesOf(path) = {}
        /\ MovesOf(path) \cup refused \subseteq MovesOf(c.main) \cup MovesOf(c.alt)
    BY <1>1, PathFacts
  <2> QED BY <2>1, <2>2, <2>3
<1>3. \A q \in Requests : RecId(q) = RecId(r) => q = r
  BY DEF TidyScripts, Tidy
<1>4. \A q \in snap[s].idem : q.req \in Requests /\ q.req # r
  BY <1>1, <1>2 DEF Unseen, Typed, TypeOK, Snaps, Records
<1>5. \A q \in idem : q.by = s => q.req \in Requests /\ q.req # r
  BY <1>1, <1>2 DEF Works, Writes, Typed, TypeOK, Records
<1> QED BY <1>3, <1>4, <1>5

LEMMA FindMoves ==
  ASSUME Typed, TidyScripts, MovesInv, NEW s \in Sessions, FindRecord(s)
  PROVE  MovesInv'
<1>1. PICK r \in Requests : r = Head(todo[s])
  BY DEF FindRecord
<1>2. pc[s] = "step" /\ todo[s] # <<>>
  BY DEF FindRecord
<1>3. PICK found : found = {q \in snap[s].idem \cup {p \in idem : p.by = s} : RecId(q.req) = RecId(r)}
  OBVIOUS
<1>4. \/ /\ found = {} /\ Goto(s, "insert")
         /\ UNCHANGED <<moneyVars, wagerVars, idem, statsVars, boundVars, todo, alt, snap, reply>>
      \/ /\ \E q \in found : q.req # r
         /\ Conflict(s, "mismatch")
      \/ /\ \E q \in found : q.req = r /\ q.status = "completed"
         /\ todo' = [todo EXCEPT ![s] = Tail(@)]
         /\ UNCHANGED <<moneyVars, wagerVars, idem, statsVars, boundVars, pc, alt, snap, reply>>
      \/ /\ \E q \in found : q.req = r /\ q.status = "pending"
         /\ Conflict(s, "in progress")
  BY <1>1, <1>3 DEF FindRecord
<1>5. CASE AtWork(s)
  <2>1. found = {}
    BY <1>1, <1>2, <1>3, <1>5, NothingFound
  <2>2. /\ pc' = [pc EXCEPT ![s] = "insert"]
        /\ UNCHANGED <<wallets, row, walletLock, idem, todo, alt, snap>>
    BY <1>4, <2>1 DEF Goto, moneyVars
  <2>3. Alone(s) /\ pc'[s] = "insert"
    BY <2>2 DEF Alone, Typed, TypeOK
  <2>pick4. PICK c \in Scripts : \E path, refused : Unseen(s, c) /\ OnPath(s, c, path, refused) /\ Works(s, path, refused)
    BY <1>5, PathOf
  <2>4. PICK path, refused : Unseen(s, c) /\ OnPath(s, c, path, refused) /\ Works(s, path, refused)
    BY <2>pick4
  <2>5. Works(s, path, refused)'
    <3>1. Past(s, path)' = Past(s, path)
      BY <2>2 DEF Past
    <3>2. Writes(s, path, refused)'
      BY <1>2, <2>2, <2>3, <2>4, <3>1 DEF Works, Writes
    <3>3. PICK moved : moved = Moved(path, Past(s, path))
      OBVIOUS
    <3>4. Adds(s, moved)'
      BY <1>2, <2>2, <2>4, <3>3, HeldAdds DEF Works
    <3>5. Rest(todo'[s], path)
      BY <2>2, <2>4 DEF Works
    <3> QED BY <2>3, <3>1, <3>2, <3>3, <3>4, <3>5 DEF Works
  <2>6. OnPath(s, c, path, refused)' /\ Unseen(s, c)'
    BY <2>2, <2>4 DEF OnPath, Unseen
  <2>7. AtWork(s)'
    BY <2>3, <2>5, <2>6, PathWorks
  <2>8. Committed' = Committed
    BY <2>2 DEF Committed
  <2> QED BY <2>2, <2>3, <2>7, <2>8, MovesFrame DEF MovesInv
<1>6. CASE AtRest(s)
  <2>1. found = {q \in snap[s].idem : RecId(q.req) = RecId(r)}
    BY <1>3, <1>6 DEF AtRest
  <2>2. \A p, q \in found : p = q
    BY <2>1 DEF MovesInv
  <2>3. DOMAIN todo[s] = 1..Len(todo[s]) /\ Len(todo[s]) \in Nat \ {0} /\ todo[s][1] = r
    BY <1>1, <1>2 DEF Typed, TypeOK
  <2>4. CASE Answered(s)
    <3>1. r \in MovesOf(todo[s])
      BY <2>3 DEF MovesOf
    <3>2. Done1(r) \in found
      BY <2>1, <2>4, <3>1 DEF Answered, Done1, Completed
    <3>3. Done1(r).req = r /\ Done1(r).status = "completed"
      BY DEF Done1, Completed
    <3>4. \A q \in found : q.req = r /\ q.status = "completed"
      BY <2>2, <3>2, <3>3
    <3>5. /\ todo' = [todo EXCEPT ![s] = Tail(@)]
          /\ UNCHANGED <<wallets, row, walletLock, idem, pc, alt, snap>>
      BY <1>4, <3>2, <3>4 DEF moneyVars
    <3>6. Alone(s) /\ todo'[s] = Tail(todo[s])
      BY <3>5 DEF Alone, Typed, TypeOK
    <3>7. MovesOf(Tail(todo[s])) \subseteq MovesOf(todo[s])
      <4>1. todo[s] \in Seq(Steps)
        BY DEF Typed, TypeOK
      <4> QED BY <1>2, <4>1, RestNext, RestWhole
    <3>8. AtRest(s)'
      BY <1>2, <1>6, <2>4, <3>5, <3>6, <3>7 DEF AtRest, Answered, Adds, Nothing
    <3>9. Committed' = Committed
      BY <3>5 DEF Committed
    <3> QED BY <3>5, <3>6, <3>8, <3>9, MovesFrame DEF MovesInv
  <2>5. CASE Refused(s)
    <3>1. PICK i \in DOMAIN todo[s] : First(todo[s], i) /\ Refusal(todo[s][i]) \in snap[s].idem
      BY <2>5 DEF Refused
    <3>2. i = 1
      BY <1>1, <2>3, <3>1 DEF First
    <3>3. Refusal(r) \in found /\ Refusal(r).req = r /\ Refusal(r).status = "pending"
      BY <2>1, <2>3, <3>1, <3>2 DEF Refusal
    <3>4. \A q \in found : q.req = r /\ q.status = "pending"
      BY <2>2, <3>3
    <3>5. Conflict(s, "in progress")
      BY <1>4, <3>3, <3>4
    <3>6. /\ todo' = [todo EXCEPT ![s] = alt[s]] /\ alt' = [alt EXCEPT ![s] = <<>>]
          /\ pc' = [pc EXCEPT ![s] = "step"]
          /\ UNCHANGED <<wallets, row, walletLock, idem, snap>>
      BY <2>5, <3>5 DEF Refused, Conflict, Goto, moneyVars
    <3>7. Alone(s) /\ todo'[s] = alt[s] /\ pc'[s] = "step"
      BY <3>6 DEF Alone, Typed, TypeOK
    <3>8. AtRest(s)'
      BY <1>6, <2>5, <3>6, <3>7 DEF AtRest, Refused, Answered, Adds, Nothing
    <3>9. Committed' = Committed
      BY <3>6 DEF Committed
    <3> QED BY <3>6, <3>7, <3>8, <3>9, MovesFrame DEF MovesInv
  <2> QED BY <1>2, <1>6, <2>4, <2>5 DEF AtRest
<1> QED BY <1>5, <1>6 DEF MovesInv

LEMMA InsertMoves ==
  ASSUME Typed, TidyScripts, MovesInv, NEW s \in Sessions, InsertRecord(s)
  PROVE  MovesInv'
<1>1. PICK r \in Requests : r = Head(todo[s])
  BY DEF InsertRecord, Typed, HeadOK
<1>2. pc[s] = "insert"
  BY DEF InsertRecord
<1>3. CASE Rollback(s, "duplicate record")
  BY <1>3, RollbackMoves
<1>4. CASE /\ idem' = idem \cup {NewRecord(s, r)} /\ pc' = [pc EXCEPT ![s] = "lock"]
           /\ UNCHANGED <<wallets, row, walletLock, todo, alt, snap>>
  <2>1. NoSession \notin Sessions /\ NewRecord(s, r).by = s /\ NewRecord(s, r).req = r
    BY WalletAssumption DEF NewRecord
  <2>2. Alone(s) /\ pc'[s] = "lock"
    BY <1>4, <2>1 DEF Alone, Typed, TypeOK
  <2>3. Committed' = Committed
    BY <1>4, <2>1 DEF Committed
  <2>pick4. PICK c \in Scripts : \E path, refused : Unseen(s, c) /\ OnPath(s, c, path, refused) /\ Works(s, path, refused)
    BY <1>2, PathOf DEF MovesInv, AtRest
  <2>4. PICK path, refused : Unseen(s, c) /\ OnPath(s, c, path, refused) /\ Works(s, path, refused)
    BY <2>pick4
  <2>5. PICK n : n = Past(s, path)
    OBVIOUS
  <2>6. n = Past(s, path)'
    BY <1>4, <2>5 DEF Past
  <2>7. Writes(s, path, refused)'
    <3>1. /\ \A q \in Behind(path, n) : Completed(q, s) \in idem
          /\ \A q \in idem : q.by = s =>
               \/ q.req \in Behind(path, n) /\ q.status = "completed"
               \/ q.req \in refused /\ q.status = "pending"
          /\ \A q \in refused : NewRecord(s, q) \in idem
      BY <1>2, <2>4, <2>5 DEF Works, Writes
    <3>2. /\ \A q \in Behind(path, n) : Completed(q, s) \in idem'
          /\ \A q \in idem' : q.by = s =>
               \/ q.req \in Behind(path, n) /\ q.status = "completed"
               \/ q.req = Head(todo'[s])
               \/ q.req \in refused /\ q.status = "pending"
          /\ \A q \in refused : NewRecord(s, q) \in idem'
      BY <1>1, <1>4, <2>1, <3>1
    <3> QED BY <2>2, <2>6, <3>2 DEF Writes, Completed, NewRecord
  <2>8. Adds(s, Moved(path, n))'
    <3>1. PICK moved : moved = Moved(path, n)
      OBVIOUS
    <3>2. Adds(s, moved)'
      BY <1>2, <1>4, <2>4, <2>5, <3>1, HeldAdds DEF Works
    <3> QED BY <3>1, <3>2
  <2>9. Works(s, path, refused)'
    BY <1>4, <2>2, <2>4, <2>6, <2>7, <2>8 DEF Works
  <2>10. OnPath(s, c, path, refused)' /\ Unseen(s, c)'
    BY <1>4, <2>4 DEF OnPath, Unseen
  <2>11. AtWork(s)'
    BY <2>2, <2>9, <2>10, PathWorks
  <2> QED BY <1>4, <2>2, <2>3, <2>11, MovesFrame DEF MovesInv
<1> QED BY <1>1, <1>3, <1>4 DEF InsertRecord, Goto, moneyVars

\* Nothing is added to a row by locking it.
LEMMA LockMoves ==
  ASSUME Typed, TidyScripts, FreeRowsAgree, MovesInv, NEW s \in Sessions, LockWallet(s)
  PROVE  MovesInv'
<1>1. PICK h \in Users : h = Head(todo[s]).user
  BY WalletAssumption DEF LockWallet, Typed, HeadOK
<1>2. pc[s] = "lock"
  BY DEF LockWallet
<1>3. CASE Rollback(s, "not found")
  BY <1>3, RollbackMoves
<1>4. CASE /\ walletLock[h] \in {NoSession, s} /\ walletLock' = [walletLock EXCEPT ![h] = s]
           /\ pc' = [pc EXCEPT ![s] = "apply"]
           /\ UNCHANGED <<wallets, row, idem, todo, alt, snap>>
  <2>1. NoSession \notin Sessions
    BY WalletAssumption
  <2>2. Alone(s) /\ pc'[s] = "apply"
    BY <1>4, <2>1 DEF Alone, Typed, TypeOK
  <2>3. Committed' = Committed
    BY <1>4 DEF Committed
  <2>pick4. PICK c \in Scripts : \E path, refused : Unseen(s, c) /\ OnPath(s, c, path, refused) /\ Works(s, path, refused)
    BY <1>2, PathOf DEF MovesInv, AtRest
  <2>4. PICK path, refused : Unseen(s, c) /\ OnPath(s, c, path, refused) /\ Works(s, path, refused)
    BY <2>pick4
  <2>5. PICK n : n = Past(s, path)
    OBVIOUS
  <2>6. n = Past(s, path)'
    BY <1>4, <2>5 DEF Past
  <2>7. Writes(s, path, refused)'
    <3>1. /\ \A q \in Behind(path, n) : Completed(q, s) \in idem
          /\ \A q \in idem : q.by = s =>
               \/ q.req \in Behind(path, n) /\ q.status = "completed"
               \/ q.req = Head(todo[s])
               \/ q.req \in refused /\ q.status = "pending"
          /\ \A q \in refused : NewRecord(s, q) \in idem
      BY <1>2, <2>4, <2>5 DEF Works, Writes
    <3> QED BY <1>4, <2>2, <2>6, <3>1 DEF Writes, Completed, NewRecord
  <2>8. Adds(s, Moved(path, n))'
    <3>1. PICK moved : moved = Moved(path, n)
      OBVIOUS
    <3>2. Adds(s, moved)
      BY <1>2, <2>4, <2>5, <3>1 DEF Works
    <3>3. \A u \in Users : walletLock'[u] = IF u = h THEN s ELSE walletLock[u]
      BY <1>4 DEF Typed, TypeOK
    <3>4. walletLock[h] # s => row[h] = wallets[h] /\ moved[h] = <<>>
      BY <1>4, <3>2 DEF Adds, FreeRowsAgree
    <3>5. RequestsOf(wallets[h].ledger) = RequestsOf(wallets[h].ledger) \o <<>>
      <4>1. wallets[h].ledger \in Seq(Entries)
        BY DEF Typed, TypeOK, Wallets
      <4>2. PICK a \in Seq(Requests) : a = RequestsOf(wallets[h].ledger)
        BY <4>1, RequestsTyped
      <4>3. a = a \o <<>>
        OBVIOUS
      <4> QED BY <4>2, <4>3
    <3>6. Adds(s, moved)'
      <4>1. \A u \in Users : IF walletLock'[u] = s
                THEN RequestsOf(row[u].ledger) = RequestsOf(wallets[u].ledger) \o moved[u]
                ELSE moved[u] = <<>>
        BY <3>2, <3>3, <3>4, <3>5 DEF Adds
      <4> QED BY <1>4, <4>1 DEF Adds
    <3> QED BY <3>1, <3>6
  <2>9. Works(s, path, refused)'
    BY <1>4, <2>2, <2>4, <2>6, <2>7, <2>8 DEF Works
  <2>10. OnPath(s, c, path, refused)' /\ Unseen(s, c)'
    BY <1>4, <2>4 DEF OnPath, Unseen
  <2>11. AtWork(s)'
    BY <2>2, <2>9, <2>10, PathWorks
  <2> QED BY <1>4, <2>2, <2>3, <2>11, MovesFrame DEF MovesInv
<1> QED BY <1>1, <1>3, <1>4 DEF LockWallet, Goto

\* A movement adds itself to what its session has moved.
LEMMA MovedOne ==
  ASSUME NEW l \in Seq(Entries), NEW k \in Seq(Entries), NEW e \in Entries, NEW m \in Seq(Requests),
         RequestsOf(k) = RequestsOf(l) \o m
  PROVE  RequestsOf(CreateEntry(k, e)) = RequestsOf(l) \o Append(m, e.req)
<1>1. PICK a \in Seq(Requests) : a = RequestsOf(l)
  BY RequestsTyped
<1>2. PICK r \in Requests : r = e.req
  BY EntryAmount
<1>3. RequestsOf(CreateEntry(k, e)) = Append(a \o m, r)
  BY <1>1, <1>2, RequestsAppended
<1>4. Append(a \o m, r) = a \o Append(m, r)
  <2>1. a \o m \in Seq(Requests) /\ <<r>> \in Seq(Requests)
    BY ConcatProperties
  <2>2. Append(a \o m, r) = (a \o m) \o <<r>> /\ Append(m, r) = m \o <<r>>
    BY <2>1, AppendIsConcat
  <2>3. (a \o m) \o <<r>> = a \o (m \o <<r>>)
    BY <2>1, ConcatAssociative
  <2> QED BY <2>2, <2>3
<1> QED BY <1>1, <1>2, <1>3, <1>4

\* A refused movement leaves its record pending; the fallback starts anew.
LEMMA RefusedMoves ==
  ASSUME Typed, TidyScripts, RecordInv, MovesInv, NEW s \in Sessions,
         pc[s] = "apply", OverLimit(s, Head(todo[s])) \/ Short(Head(todo[s])),
         NEW answer, Conflict(s, answer)
  PROVE  MovesInv'
<1>1. PICK r \in Requests : r = Head(todo[s])
  BY DEF Typed, HeadOK
<1>2. CASE alt[s] = <<>>
  BY <1>2, RollbackMoves DEF Conflict
<1>3. CASE alt[s] # <<>>
  <2>1. /\ todo' = [todo EXCEPT ![s] = alt[s]] /\ alt' = [alt EXCEPT ![s] = <<>>]
        /\ pc' = [pc EXCEPT ![s] = "step"]
        /\ UNCHANGED <<wallets, row, walletLock, idem, snap>>
    BY <1>3 DEF Conflict, Goto, moneyVars
  <2>pick2. PICK c \in Scripts : \E path, refused : Unseen(s, c) /\ OnPath(s, c, path, refused) /\ Works(s, path, refused)
    BY PathOf DEF MovesInv, AtRest
  <2>2. PICK path, refused : Unseen(s, c) /\ OnPath(s, c, path, refused) /\ Works(s, path, refused)
    BY <2>pick2
  <2>3. path = c.main /\ refused = {} /\ alt[s] = c.alt /\ c.alt # <<>>
    BY <1>3, <2>2 DEF OnPath
  <2>4. c.main \in Seq(Steps) /\ c.alt \in Seq(Steps)
    BY WalletAssumption
  <2>5. PICK n : n = Past(s, c.main)
    OBVIOUS
  <2>6. n \in Nat /\ n < Len(c.main) /\ r = c.main[n + 1]
    BY <1>1, <2>2, <2>3, <2>5, PathHead DEF Typed, HeadOK
  <2>7. n + 1 \in DOMAIN c.main /\ n \in 0..Len(c.main) /\ Len(c.main) \in Nat
    BY <2>4, <2>6
  <2>8. First(c.main, n + 1)
    <3>1. r.entry = "stake" \/ r.dir = "debit"
      BY <1>1 DEF OverLimit, Short
    <3> QED BY <2>3, <2>6, <2>7, <3>1 DEF TidyScripts, Tidy
  <2>9. Behind(c.main, n) = {}
    BY <2>6, <2>8 DEF First, Behind
  <2>10. NewRecord(s, r) \in idem
    BY <1>1 DEF RecordInv, AllAtHand, AtHand
  <2>11. Rest(c.alt, c.alt) /\ Len(c.alt) - Len(c.alt) = 0 /\ 0 \in 0..Len(c.alt)
    <3>1. Len(c.alt) \in Nat
      BY <2>4
    <3> QED BY <2>4, <3>1, RestWhole
  <2>12. Behind(c.alt, 0) = {}
    BY DEF Behind
  <2>13. pc'[s] = "step" /\ todo'[s] = c.alt /\ alt'[s] = <<>> /\ snap'[s] = snap[s]
    BY <2>1, <2>3 DEF Typed, TypeOK
  <2>14. Past(s, c.alt)' = 0
    BY <2>11, <2>13 DEF Past
  <2>15. Writes(s, c.alt, {r})'
    <3>1. \A q \in idem : q.by = s => q.req = r
      BY <1>1, <2>2, <2>3, <2>5, <2>9 DEF Works, Writes
    <3>2. \A q \in idem : q.by = s => q = NewRecord(s, r)
      BY <2>10, <3>1 DEF RecordInv, OneRecord, NewRecord
    <3> QED BY <2>1, <2>10, <2>12, <2>14, <3>2 DEF Writes, NewRecord
  <2>16. Adds(s, Moved(c.alt, 0))'
    <3>1. PICK moved : moved = Moved(c.main, n)
      OBVIOUS
    <3>2. moved = Nothing
      BY <2>4, <2>7, <2>9, <3>1, MovedNothing
    <3>3. moved = Moved(c.alt, 0)
      BY <2>4, <2>11, <2>12, <3>2, MovedNothing
    <3>4. Adds(s, moved)
      BY <2>2, <2>3, <2>5, <3>1 DEF Works
    <3>5. Adds(s, moved)'
      BY <2>1, <3>4, HeldAdds
    <3> QED BY <3>3, <3>5
  <2>17. Works(s, c.alt, {r})'
    BY <2>11, <2>13, <2>14, <2>15, <2>16 DEF Works
  <2>18. OnPath(s, c, c.alt, {r})' /\ Unseen(s, c)'
    BY <2>2, <2>3, <2>6, <2>7, <2>8, <2>13 DEF OnPath, Unseen
  <2>19. AtWork(s)'
    BY <2>13, <2>17, <2>18, PathWorks
  <2>20. NoSession \notin Sessions
    BY WalletAssumption
  <2>21. Alone(s)
    BY <2>1 DEF Alone, Typed, TypeOK
  <2>22. Committed' = Committed
    BY <2>1 DEF Committed
  <2> QED BY <2>13, <2>19, <2>21, <2>22, MovesFrame DEF MovesInv
<1> QED BY <1>2, <1>3

LEMMA ApplyMoves ==
  ASSUME Typed, TidyScripts, LedgerInv, RecordInv, MovesInv, NEW s \in Sessions, ApplyMutation(s)
  PROVE  MovesInv'
<1>1. PICK r \in Requests : r = Head(todo[s])
  BY DEF ApplyMutation, Typed, HeadOK
<1>2. PICK h \in Users : h = r.user
  BY WalletAssumption
<1>3. pc[s] = "apply"
  BY DEF ApplyMutation
<1>4. CASE \/ OverLimit(s, r) /\ Conflict(s, "limit")
           \/ Short(r) /\ Conflict(s, "short")
  BY <1>1, <1>3, <1>4, RefusedMoves
<1>5. CASE Rollback(s, "duplicate row")
  BY <1>5, RollbackMoves
<1>6. PICK entry : entry = [req |-> r, after |-> Balance(s, r), at |-> now]
  OBVIOUS
<1>7. CASE /\ ~Short(r)
           /\ row' = [row EXCEPT ![h] = WalletAfter(row[h], entry, snap[s].avail[h])]
           /\ snap' = [snap EXCEPT ![s] = SnapAfter(s, r)]
           /\ pc' = [pc EXCEPT ![s] = "complete"]
           /\ UNCHANGED <<wallets, walletLock, idem, todo, alt>>
  <2>1. entry \in Entries /\ entry.req = r
    BY <1>6, <1>7, BalanceTyped DEF Entries, Typed, TypeOK
  <2>2. row[h] \in Wallets /\ row[h].ledger \in Seq(Entries) /\ wallets[h].ledger \in Seq(Entries)
    BY DEF Typed, TypeOK, Wallets
  <2>3. walletLock[h] = s
    BY <1>1, <1>2, <1>3 DEF LedgerInv, LockedInApply
  <2>4. /\ row'[h].ledger = CreateEntry(row[h].ledger, entry)
        /\ \A u \in Users \ {h} : row'[u] = row[u]
    BY <1>7, <2>2 DEF WalletAfter, Wallets, Typed, TypeOK
  <2>5. pc'[s] = "complete" /\ snap'[s].idem = snap[s].idem
    BY <1>7 DEF SnapAfter, Typed, TypeOK, Snaps
  <2>6. Alone(s)
    BY <1>7, <2>3, <2>4 DEF Alone, Typed, TypeOK
  <2>7. Committed' = Committed
    BY <1>7 DEF Committed
  <2>pick8. PICK c \in Scripts : \E path, refused : Unseen(s, c) /\ OnPath(s, c, path, refused) /\ Works(s, path, refused)
    BY <1>3, PathOf DEF MovesInv, AtRest
  <2>8. PICK path, refused : Unseen(s, c) /\ OnPath(s, c, path, refused) /\ Works(s, path, refused)
    BY <2>pick8
  <2>9. PICK n : n = Past(s, path)
    OBVIOUS
  <2>10. n \in Nat /\ n < Len(path) /\ r = path[n + 1] /\ path \in Seq(Steps)
    <3>1. path \in Seq(Steps)
      BY <2>8, PathFacts
    <3> QED BY <1>1, <1>3, <2>8, <2>9, <3>1, PathHead DEF Typed, HeadOK
  <2>11. n = Past(s, path)'
    BY <1>7, <2>9 DEF Past
  <2>12. Writes(s, path, refused)'
    <3>1. /\ \A q \in Behind(path, n) : Completed(q, s) \in idem
          /\ \A q \in idem : q.by = s =>
               \/ q.req \in Behind(path, n) /\ q.status = "completed"
               \/ q.req = Head(todo[s])
               \/ q.req \in refused /\ q.status = "pending"
          /\ \A q \in refused : NewRecord(s, q) \in idem
      BY <1>3, <2>8, <2>9 DEF Works, Writes
    <3> QED BY <1>7, <2>5, <2>11, <3>1 DEF Writes, Completed, NewRecord
  <2>13. Adds(s, Moved(path, n + 1))'
    <3>1. PICK moved : moved = Moved(path, n)
      OBVIOUS
    <3>2. PICK more : more = Moved(path, n + 1)
      OBVIOUS
    <3>3. /\ \A u \in Users : more[u] = IF h = u THEN Append(moved[u], r) ELSE moved[u]
          /\ \A u \in Users : moved[u] \in Seq(Requests)
      BY <1>2, <2>10, <3>1, <3>2, MovedNext
    <3>4. Adds(s, moved)
      BY <1>3, <2>8, <2>9, <3>1 DEF Works
    <3>5. RequestsOf(CreateEntry(row[h].ledger, entry)) = RequestsOf(wallets[h].ledger) \o more[h]
      BY <2>1, <2>2, <2>3, <3>3, <3>4, MovedOne DEF Adds
    <3>6. \A u \in Users : IF walletLock[u] = s
              THEN RequestsOf(row'[u].ledger) = RequestsOf(wallets[u].ledger) \o more[u]
              ELSE more[u] = <<>>
      BY <2>3, <2>4, <3>3, <3>4, <3>5 DEF Adds
    <3>7. Adds(s, more)'
      BY <1>7, <3>6 DEF Adds, RequestsOf
    <3> QED BY <3>2, <3>7
  <2>14. Works(s, path, refused)'
    BY <1>7, <2>5, <2>8, <2>11, <2>12, <2>13 DEF Works
  <2>15. OnPath(s, c, path, refused)' /\ Unseen(s, c)'
    BY <1>7, <2>5, <2>8 DEF OnPath, Unseen
  <2>16. AtWork(s)'
    BY <2>5, <2>14, <2>15, PathWorks
  <2> QED BY <2>5, <2>6, <2>7, <2>16, MovesFrame DEF MovesInv
<1> QED BY <1>1, <1>2, <1>4, <1>5, <1>6, <1>7 DEF ApplyMutation, Goto

\* The record of a movement is completed: it is behind the session.
LEMMA CompleteMoves ==
  ASSUME Typed, TidyScripts, RecordInv, MovesInv, NEW s \in Sessions, Complete(s)
  PROVE  MovesInv'
<1>1. PICK r \in Requests : r = Head(todo[s])
  BY DEF Complete, Typed, HeadOK
<1>2. /\ pc[s] = "complete" /\ pc' = [pc EXCEPT ![s] = "step"]
      /\ todo' = [todo EXCEPT ![s] = Tail(@)]
      /\ UNCHANGED <<wallets, row, walletLock, alt, snap>>
  BY DEF Complete, Goto, moneyVars
<1>3. pc'[s] = "step" /\ todo'[s] = Tail(todo[s]) /\ alt'[s] = alt[s] /\ snap'[s] = snap[s]
  BY <1>2 DEF Typed, TypeOK
<1>4. NoSession \notin Sessions
  BY WalletAssumption
<1>5. idem' = (idem \ {NewRecord(s, r)}) \cup {Completed(r, s)}
  <2>1. NewRecord(s, r) \in idem
    BY <1>1, <1>2 DEF RecordInv, AllAtHand, AtHand
  <2>2. {q \in idem : q.by = s /\ q.req = r} = {NewRecord(s, r)}
    BY <2>1 DEF RecordInv, OneRecord, NewRecord
  <2>3. [NewRecord(s, r) EXCEPT !.status = "completed"] = Completed(r, s)
    BY DEF NewRecord, Completed
  <2> QED BY <1>1, <2>2, <2>3 DEF Complete
<1>6. /\ NewRecord(s, r).by = s /\ NewRecord(s, r).req = r
      /\ Completed(r, s).by = s /\ Completed(r, s).req = r /\ Completed(r, s).status = "completed"
  BY DEF NewRecord, Completed
<1>7. Alone(s)
  BY <1>2, <1>5, <1>6 DEF Alone, Typed, TypeOK
<1>8. Committed' = Committed
  BY <1>4, <1>5, <1>6 DEF Committed
<1>pick9. PICK c \in Scripts : \E path, refused : Unseen(s, c) /\ OnPath(s, c, path, refused) /\ Works(s, path, refused)
  BY <1>2, PathOf DEF MovesInv, AtRest
<1>9. PICK path, refused : Unseen(s, c) /\ OnPath(s, c, path, refused) /\ Works(s, path, refused)
  BY <1>pick9
<1>10. PICK n : n = Past(s, path)
  OBVIOUS
<1>11. /\ n \in Nat /\ n < Len(path) /\ r = path[n + 1]
       /\ Rest(Tail(todo[s]), path) /\ Len(path) - Len(Tail(todo[s])) = n + 1
       /\ Behind(path, n + 1) = Behind(path, n) \cup {r}
       /\ r \notin Behind(path, n) /\ r \notin refused
  <2>1. todo[s] # <<>>
    BY <1>2 DEF Typed, HeadOK
  <2>2. /\ n \in Nat /\ n < Len(path) /\ Head(todo[s]) = path[n + 1]
        /\ Rest(Tail(todo[s]), path) /\ Len(path) - Len(Tail(todo[s])) = n + 1
        /\ Behind(path, n + 1) = Behind(path, n) \cup ({path[n + 1]} \cap Requests)
        /\ path[n + 1] \notin Behind(path, n)
        /\ path[n + 1] \in Requests => path[n + 1] \in MovesOf(path)
    BY <1>9, <1>10, <2>1, PathHead
  <2>3. refused \cap MovesOf(path) = {}
    BY <1>9, PathFacts
  <2> QED BY <1>1, <2>2, <2>3
<1>12. Past(s, path)' = n + 1
  BY <1>3, <1>11 DEF Past
<1>13. Writes(s, path, refused)'
  <2>1. /\ \A q \in Behind(path, n) : Completed(q, s) \in idem
        /\ \A q \in idem : q.by = s =>
             \/ q.req \in Behind(path, n) /\ q.status = "completed"
             \/ q.req = r
             \/ q.req \in refused /\ q.status = "pending"
        /\ \A q \in refused : NewRecord(s, q) \in idem
    BY <1>1, <1>9, <1>10 DEF Works, Writes
  <2>2. \A q \in Behind(path, n + 1) : Completed(q, s) \in idem'
    <3>1. \A q : Completed(q, s) # NewRecord(s, r)
      BY DEF Completed, NewRecord
    <3> QED BY <1>5, <1>11, <2>1, <3>1
  <2>3. \A q \in refused : NewRecord(s, q) \in idem'
    <3>1. \A q \in refused : NewRecord(s, q) # NewRecord(s, r)
      BY <1>11 DEF NewRecord
    <3> QED BY <1>5, <2>1, <3>1
  <2>4. \A q \in idem' : q.by = s =>
          \/ q.req \in Behind(path, n + 1) /\ q.status = "completed"
          \/ q.req \in refused /\ q.status = "pending"
    <3> SUFFICES ASSUME NEW q \in idem', q.by = s
                 PROVE  \/ q.req \in Behind(path, n + 1) /\ q.status = "completed"
                        \/ q.req \in refused /\ q.status = "pending"
      OBVIOUS
    <3>1. CASE q = Completed(r, s)
      BY <1>6, <1>11, <3>1
    <3>2. CASE q \in idem /\ q # NewRecord(s, r)
      <4>1. NewRecord(s, r) \in idem
        BY <1>1, <1>2 DEF RecordInv, AllAtHand, AtHand
      <4>2. q.req # r
        BY <1>6, <3>2, <4>1 DEF RecordInv, OneRecord
      <4> QED BY <1>11, <2>1, <3>2, <4>2
    <3> QED BY <1>5, <3>1, <3>2
  <2> QED BY <1>12, <2>2, <2>3, <2>4 DEF Writes, Completed, NewRecord
<1>14. Adds(s, Moved(path, n + 1))'
  <2>1. PICK moved : moved = Moved(path, n + 1)
    OBVIOUS
  <2>2. Adds(s, moved)'
    BY <1>2, <1>9, <1>10, <2>1, HeldAdds DEF Works
  <2> QED BY <2>1, <2>2
<1>15. Works(s, path, refused)'
  BY <1>3, <1>11, <1>12, <1>13, <1>14 DEF Works
<1>16. OnPath(s, c, path, refused)' /\ Unseen(s, c)'
  BY <1>3, <1>9 DEF OnPath, Unseen
<1>17. AtWork(s)'
  BY <1>3, <1>15, <1>16, PathWorks
<1> QED BY <1>3, <1>7, <1>8, <1>17, MovesFrame DEF MovesInv

\* A session that is done has written all of its path.
LEMMA AllWritten ==
  ASSUME Typed, TidyScripts, RecordInv, NEW s \in Sessions, pc[s] = "step", todo[s] = <<>>,
         NEW c \in Scripts, NEW path, NEW refused,
         OnPath(s, c, path, refused), Works(s, path, refused)
  PROVE  /\ Past(s, path) = Len(path)
         /\ {q \in idem : q.by = s} = {Completed(r, s) : r \in MovesOf(path)}
                                        \cup {NewRecord(s, r) : r \in refused}
<1>1. path \in Seq(Steps)
  BY PathFacts
<1>2. Past(s, path) = Len(path) /\ Len(path) \in Nat
  BY <1>1 DEF Past
<1>3. Behind(path, Past(s, path)) = MovesOf(path)
  BY <1>1, <1>2, BehindMoves
<1>4. /\ \A r \in MovesOf(path) : Completed(r, s) \in idem
      /\ \A q \in idem : q.by = s =>
           \/ q.req \in MovesOf(path) /\ q.status = "completed"
           \/ q.req \in refused /\ q.status = "pending"
      /\ \A r \in refused : NewRecord(s, r) \in idem
  BY <1>3 DEF Works, Writes
<1>5. \A q \in idem : q.by = s => \/ q.status = "completed" /\ q = Completed(q.req, s)
                                  \/ q.status = "pending" /\ q = NewRecord(s, q.req)
  BY DEF Completed, NewRecord, Typed, TypeOK, Records
<1>6. \A r : Completed(r, s).by = s /\ NewRecord(s, r).by = s
  BY DEF Completed, NewRecord
<1>7. \A q \in idem : q.by = s =>
        \/ q.req \in MovesOf(path) /\ q = Completed(q.req, s)
        \/ q.req \in refused /\ q = NewRecord(s, q.req)
  BY <1>4, <1>5
<1> QED BY <1>2, <1>4, <1>6, <1>7

\* What a commit publishes is whole.
LEMMA CommitWhole ==
  ASSUME Typed, TidyScripts, RecordInv, MovesInv, NEW s \in Sessions, Commit(s)
  PROVE  \A c \in Scripts : WholeIn(c, Committed)'
<1>1. /\ idem' = {IF q.by = s THEN [q EXCEPT !.by = NoSession] ELSE q : q \in idem}
      /\ pc[s] = "step" /\ todo[s] = <<>>
  BY DEF Commit
<1>2. NoSession \notin Sessions /\ idem \subseteq Records
  BY WalletAssumption DEF Typed, TypeOK
<1>3. Committed' = Committed \cup {[q EXCEPT !.by = NoSession] : q \in {p \in idem : p.by = s}}
  <2>1. \A q \in idem : [q EXCEPT !.by = NoSession].by = NoSession
    BY <1>2 DEF Records
  <2> QED BY <1>1, <1>2, <2>1 DEF Committed
<1>4. CASE AtRest(s)
  <2>1. Committed' = Committed
    BY <1>3, <1>4 DEF AtRest
  <2> QED BY <2>1 DEF MovesInv, WholeIn
<1>5. CASE AtWork(s)
  <2>pick1. PICK d \in Scripts : \E path, refused : Unseen(s, d) /\ OnPath(s, d, path, refused) /\ Works(s, path, refused)
    BY <1>5, PathOf
  <2>1. PICK path, refused : Unseen(s, d) /\ OnPath(s, d, path, refused) /\ Works(s, path, refused)
    BY <2>pick1
  <2>2. {q \in idem : q.by = s} = {Completed(r, s) : r \in MovesOf(path)}
                                    \cup {NewRecord(s, r) : r \in refused}
    BY <1>1, <2>1, AllWritten
  <2>3. \A r : /\ [Completed(r, s) EXCEPT !.by = NoSession] = Done1(r)
               /\ [NewRecord(s, r) EXCEPT !.by = NoSession] = Refusal(r)
    BY DEF Completed, NewRecord, Done1, Refusal
  <2>4. Committed' = Committed \cup {Done1(r) : r \in MovesOf(path)} \cup {Refusal(r) : r \in refused}
    BY <1>3, <2>2, <2>3
  <2>5. \A r : Done1(r).req = r /\ Refusal(r).req = r
    BY DEF Done1, Completed, Refusal
  <2>6. PICK after : after = Committed'
    OBVIOUS
  <2>7. \A c \in Scripts : WholeIn(c, after)
    <3> TAKE c \in Scripts
    <3>1. CASE c = d
      <4>1. CASE path = d.main
        BY <2>4, <2>6, <3>1, <4>1 DEF WholeIn
      <4>2. CASE path = d.alt /\ d.alt # <<>>
                 /\ \E i \in DOMAIN d.main : First(d.main, i) /\ refused = {d.main[i]}
        BY <2>4, <2>6, <3>1, <4>2 DEF WholeIn
      <4> QED BY <2>1, <4>1, <4>2 DEF OnPath
    <3>2. CASE c # d
      <4>1. MovesOf(path) \cup refused \subseteq MovesOf(d.main) \cup MovesOf(d.alt)
        BY <2>1, PathFacts
      <4>2. \A r \in MovesOf(path) \cup refused : r \notin MovesOf(c.main) \cup MovesOf(c.alt)
        BY <3>2, <4>1 DEF TidyScripts, Tidy
      <4>3. WholeIn(c, Committed)
        BY DEF MovesInv
      <4>4. Committed \subseteq after
        BY <2>4, <2>6
      <4>5. ASSUME \A q \in Committed : q.req \notin MovesOf(c.main) \cup MovesOf(c.alt)
            PROVE  \A q \in after : q.req \notin MovesOf(c.main) \cup MovesOf(c.alt)
        BY <2>4, <2>5, <2>6, <4>2, <4>5
      <4> QED BY <4>3, <4>4, <4>5 DEF WholeIn
    <3> QED BY <3>1, <3>2
  <2> QED BY <2>6, <2>7 DEF WholeIn
<1> QED BY <1>4, <1>5 DEF MovesInv

LEMMA CommitMoves ==
  ASSUME Typed, TidyScripts, RecordInv, MovesInv, NEW s \in Sessions, Commit(s)
  PROVE  MovesInv'
<1>1. /\ wallets' = [u \in Users |-> IF walletLock[u] = s THEN row[u] ELSE wallets[u]]
      /\ walletLock' = [u \in Users |-> IF walletLock[u] = s THEN NoSession ELSE walletLock[u]]
      /\ idem' = {IF q.by = s THEN [q EXCEPT !.by = NoSession] ELSE q : q \in idem}
      /\ pc' = [pc EXCEPT ![s] = "idle"] /\ todo' = [todo EXCEPT ![s] = <<>>]
      /\ alt' = [alt EXCEPT ![s] = <<>>] /\ snap' = [snap EXCEPT ![s] = NoSnap]
      /\ row' = row
  BY DEF Commit, EndSession, Goto
<1>2. NoSession \notin Sessions
  BY WalletAssumption
<1>3. \A q \in idem : [q EXCEPT !.by = NoSession].by = NoSession
  BY DEF Typed, TypeOK, Records
<1>4. \A t \in Sessions \ {s} : \A q : q.by = t => (q \in idem' <=> q \in idem)
  BY <1>1, <1>2, <1>3
<1>5. Alone(s)
  <2>1. \A t \in Sessions \ {s} :
          /\ pc'[t] = pc[t] /\ todo'[t] = todo[t] /\ alt'[t] = alt[t] /\ snap'[t] = snap[t]
          /\ \A u \in Users : /\ walletLock'[u] = t <=> walletLock[u] = t
                              /\ walletLock[u] = t => row'[u] = row[u] /\ wallets'[u] = wallets[u]
    BY <1>1, <1>2 DEF Typed, TypeOK
  <2> QED BY <1>4, <2>1 DEF Alone
<1>6. AtRest(s)'
  <2>1. pc'[s] = "idle" /\ \A u \in Users : walletLock'[u] # s
    BY <1>1, <1>2 DEF Typed, TypeOK
  <2>2. \A q \in idem' : q.by # s
    BY <1>1, <1>2, <1>3
  <2> QED BY <2>1, <2>2, EndedAtRest
<1>7. \A t \in Sessions : (AtWork(t) \/ AtRest(t))'
  <2> TAKE t \in Sessions
  <2>1. CASE t # s
    BY <1>5, <2>1, OtherMoves DEF MovesInv
  <2> QED BY <1>6, <2>1
<1>8. \A t \in Sessions : \A p, q \in snap'[t].idem : RecId(p.req) = RecId(q.req) => p = q
  <2> TAKE t \in Sessions
  <2>1. CASE t = s
    BY <1>1, <2>1 DEF NoSnap, Typed, TypeOK
  <2>2. CASE t # s
    BY <1>5, <2>2 DEF Alone, MovesInv
  <2> QED BY <2>1, <2>2
<1>9. \A c \in Scripts : WholeIn(c, Committed)'
  BY CommitWhole
<1> QED BY <1>7, <1>8, <1>9 DEF MovesInv

\* A transaction begins at work, or with all it needs to be answered in its snapshot.
LEMMA BeginMoves ==
  ASSUME Typed, TidyScripts, RecordInv, MovesInv, NEW s \in Sessions, NEW c \in Scripts, Begin(s, c)
  PROVE  MovesInv'
<1>1. /\ pc[s] = "idle" /\ pc' = [pc EXCEPT ![s] = "step"]
      /\ todo' = [todo EXCEPT ![s] = c.main] /\ alt' = [alt EXCEPT ![s] = c.alt]
      /\ UNCHANGED <<wallets, row, walletLock, idem>>
  BY DEF Begin, Goto, moneyVars
<1>2. pc'[s] = "step" /\ todo'[s] = c.main /\ alt'[s] = c.alt /\ snap'[s].idem = Committed
  BY DEF Begin, Goto, Committed, Typed, TypeOK
<1>3. Alone(s)
  BY DEF Begin, Goto, moneyVars, Alone, Typed, TypeOK
<1>4. Committed' = Committed
  BY <1>1 DEF Committed
<1>5. AtRest(s)
  BY <1>1 DEF MovesInv, AtWork
<1>6. Adds(s, Nothing)'
  <2>1. PICK z : z = Nothing
    OBVIOUS
  <2>2. Adds(s, z)'
    BY <1>1, <1>5, <2>1, HeldAdds DEF AtRest
  <2> QED BY <2>1, <2>2 DEF Adds, Nothing
<1>7. \A q \in idem' : q.by # s
  BY <1>1, <1>5 DEF AtRest
<1>8. c.main \in Seq(Steps) /\ c.alt \in Seq(Steps)
  BY WalletAssumption
<1>9. (AtWork(s) \/ AtRest(s))'
  <2>1. CASE \A q \in Committed : q.req \notin MovesOf(c.main) \cup MovesOf(c.alt)
    <3>1. Unseen(s, c)'
      BY <1>2, <2>1 DEF Unseen
    <3>2. OnPath(s, c, c.main, {})'
      BY <1>2 DEF OnPath
    <3>3. Rest(c.main, c.main) /\ Len(c.main) - Len(c.main) = 0 /\ 0 \in 0..Len(c.main)
      <4>1. Len(c.main) \in Nat
        BY <1>8
      <4> QED BY <1>8, <4>1, RestWhole
    <3>4. Past(s, c.main)' = 0
      BY <1>2, <3>3 DEF Past
    <3>5. Behind(c.main, 0) = {}
      BY DEF Behind
    <3>6. Writes(s, c.main, {})'
      BY <1>7, <3>4, <3>5 DEF Writes
    <3>7. Moved(c.main, 0) = Nothing
      BY <1>8, <3>3, <3>5, MovedNothing
    <3>8. Adds(s, Moved(c.main, 0))'
      <4>1. PICK z : z = Nothing
        OBVIOUS
      <4>2. Adds(s, z)'
        BY <1>6, <4>1
      <4> QED BY <3>7, <4>1, <4>2
    <3>9. Works(s, c.main, {})'
      BY <1>2, <3>3, <3>4, <3>6, <3>8 DEF Works
    <3> QED BY <1>2, <3>1, <3>2, <3>9, PathWorks
  <2>2. CASE \A r \in MovesOf(c.main) : Done1(r) \in Committed
    <3>1. Answered(s)'
      BY <1>2, <2>2 DEF Answered, Done1, Completed
    <3> QED BY <1>2, <1>6, <1>7, <3>1 DEF AtRest
  <2>3. CASE /\ c.alt # <<>> /\ \A r \in MovesOf(c.alt) : Done1(r) \in Committed
             /\ \E i \in DOMAIN c.main : First(c.main, i) /\ Refusal(c.main[i]) \in Committed
    <3>1. Refused(s)'
      BY <1>2, <2>3 DEF Refused, Done1, Completed, Refusal
    <3> QED BY <1>2, <1>6, <1>7, <3>1 DEF AtRest
  <2> QED BY <2>1, <2>2, <2>3 DEF MovesInv, WholeIn
<1>10. \A p, q \in snap'[s].idem : RecId(p.req) = RecId(q.req) => p = q
  BY <1>2 DEF Committed, RecordInv, OneRecord
<1> QED BY <1>3, <1>4, <1>9, <1>10, MovesFrame

LEMMA InitMoves == Init => MovesInv
<1> SUFFICES ASSUME Init PROVE MovesInv
  OBVIOUS
<1>1. /\ \A s \in Sessions : pc[s] = "idle" /\ snap[s] = NoSnap
      /\ idem = {} /\ \A u \in Users : walletLock[u] = NoSession
  BY DEF Init
<1>2. NoSession \notin Sessions
  BY WalletAssumption
<1>3. \A s \in Sessions : AtRest(s)
  BY <1>1, <1>2 DEF AtRest, Adds, Nothing
<1>4. \A c \in Scripts : WholeIn(c, Committed)
  BY <1>1 DEF WholeIn, Committed
<1> QED BY <1>1, <1>3, <1>4 DEF MovesInv, NoSnap

LEMMA StepMoves ==
  ASSUME Typed, TidyScripts, LedgerInv, StatsInv, RecordInv, MovesInv, [Next]_vars
  PROVE  MovesInv'
<1>1. ASSUME NEW s \in Sessions, Crash(s) \/ LockWaitAbort(s) PROVE MovesInv'
  BY <1>1, RollbackMoves DEF Crash, LockWaitAbort
<1>2. FreeRowsAgree
  BY DEF StatsInv
<1>3. ASSUME NEW s \in Sessions, Progress(s) PROVE MovesInv'
  BY <1>1, <1>2, <1>3, EnsureMoves, FindMoves, InsertMoves, LockMoves, ApplyMoves, CompleteMoves,
     CommitMoves DEF Progress
<1>4. CASE UNCHANGED <<wallets, row, walletLock, idem, sessionVars>>
  <2>1. NoSession \notin Sessions
    BY WalletAssumption
  <2>2. Alone(NoSession)
    BY <1>4 DEF sessionVars, Alone
  <2>3. \A t \in Sessions : (AtWork(t) \/ AtRest(t))'
    BY <2>1, <2>2, OtherMoves DEF MovesInv
  <2>4. Committed' = Committed /\ snap' = snap
    BY <1>4 DEF sessionVars, Committed
  <2> QED BY <2>3, <2>4 DEF MovesInv, WholeIn
<1>5. ASSUME \/ \E u \in Users : \/ ReadWagerLimit(u) \/ DeleteWagerLimit(u)
                                 \/ \E l \in Limits : SaveWagerLimit(u, l)
             \/ Tick \/ UNCHANGED vars
      PROVE  UNCHANGED <<wallets, row, walletLock, idem, sessionVars>>
  BY <1>5 DEF ReadWagerLimit, DeleteWagerLimit, SaveWagerLimit, Tick, vars, moneyVars
<1> QED BY <1>1, <1>3, <1>4, <1>5, BeginMoves DEF Next

-----------------------------------------------------------------------------
\* A commit is one recorded transaction, or none.
LEMMA CommitRecorded ==
  ASSUME Typed, TidyScripts, RecordInv, MovesInv, NEW s \in Sessions, Commit(s)
  PROVE  [Abstract!Next]_Ledgers
<1>1. /\ wallets' = [u \in Users |-> IF walletLock[u] = s THEN row[u] ELSE wallets[u]]
      /\ pc[s] = "step" /\ todo[s] = <<>>
  BY DEF Commit
<1>2. \A u \in Users : /\ row[u].ledger \in Seq(Entries) /\ wallets[u].ledger \in Seq(Entries)
                       /\ RequestsOf(wallets[u].ledger) \in Seq(Requests)
  BY RequestsTyped DEF Typed, TypeOK, Wallets
<1>3. /\ Ledgers = [u \in Users |-> RequestsOf(wallets[u].ledger)]
      /\ Ledgers' = [u \in Users |-> RequestsOf(wallets'[u].ledger)]
  BY DEF Ledgers, RequestsOf
<1>4. ASSUME NEW moved, Adds(s, moved)
      PROVE  Ledgers' = [u \in Users |-> Ledgers[u] \o moved[u]]
  <2>1. \A u \in Users : RequestsOf(wallets'[u].ledger) = RequestsOf(wallets[u].ledger) \o moved[u]
    <3> TAKE u \in Users
    <3>1. CASE walletLock[u] = s
      BY <1>1, <1>4, <3>1 DEF Adds
    <3>2. CASE walletLock[u] # s
      <4>1. PICK a \in Seq(Requests) : a = RequestsOf(wallets[u].ledger)
        BY <1>2
      <4>2. a = a \o <<>>
        OBVIOUS
      <4>3. moved[u] = <<>> /\ wallets'[u] = wallets[u]
        BY <1>1, <1>4, <3>2 DEF Adds
      <4> QED BY <4>1, <4>2, <4>3
    <3> QED BY <3>1, <3>2
  <2> QED BY <1>3, <2>1
<1>5. CASE AtRest(s)
  <2>1. Ledgers' = [u \in Users |-> Ledgers[u] \o <<>>]
    <3>1. PICK z : z = Nothing
      OBVIOUS
    <3>2. Ledgers' = [u \in Users |-> Ledgers[u] \o z[u]]
      BY <1>4, <1>5, <3>1 DEF AtRest
    <3> QED BY <3>1, <3>2 DEF Nothing
  <2>2. \A u \in Users : Ledgers[u] \o <<>> = Ledgers[u]
    BY <1>2, <1>3, ConcatEmptySeq
  <2>3. Ledgers' = Ledgers
    BY <1>3, <2>1, <2>2
  <2> QED BY <2>3
<1>6. CASE AtWork(s)
  <2>pick1. PICK c \in Scripts : \E path, refused : Unseen(s, c) /\ OnPath(s, c, path, refused) /\ Works(s, path, refused)
    BY <1>6, PathOf
  <2>1. PICK path, refused : Unseen(s, c) /\ OnPath(s, c, path, refused) /\ Works(s, path, refused)
    BY <2>pick1
  <2>2. /\ Past(s, path) = Len(path)
        /\ {q \in idem : q.by = s} = {Completed(r, s) : r \in MovesOf(path)}
                                       \cup {NewRecord(s, r) : r \in refused}
    BY <1>1, <2>1, AllWritten
  <2>3. Adds(s, Moved(path, Len(path)))
    BY <1>1, <2>1, <2>2 DEF Works
  <2>4. Ledgers' = [u \in Users |-> Ledgers[u] \o Abstract!Of(path, u)]
    <3>1. PICK moved : moved = Moved(path, Len(path))
      OBVIOUS
    <3>2. Ledgers' = [u \in Users |-> Ledgers[u] \o moved[u]]
      BY <1>4, <2>3, <3>1
    <3>3. \A u \in Users : moved[u] = Abstract!Of(path, u)
      BY <3>1 DEF Moved, Abstract!Of
    <3> QED BY <3>2, <3>3
  <2>5. ASSUME NEW i \in DOMAIN path, path[i] \in Abstract!Recorded PROVE FALSE
    <3>1. PICK u \in Users : path[i] \in {Ledgers[u][j] : j \in DOMAIN Ledgers[u]}
      BY <2>5 DEF Abstract!Recorded
    <3>2. PICK j \in DOMAIN Ledgers[u] : path[i] = Ledgers[u][j]
      BY <3>1
    <3>3. j \in DOMAIN wallets[u].ledger /\ path[i] = wallets[u].ledger[j].req
      BY <3>2 DEF Ledgers
    <3>4. path[i] \in Requests
      BY <1>2, <3>3, EntryAmount
    <3>5. Completed(path[i], NoSession) \in idem
      BY <3>3, <3>4 DEF RecordInv, AllBacked, InLedger
    <3>6. Completed(path[i], s) \in idem
      <4>1. path[i] \in MovesOf(path)
        BY <3>4 DEF MovesOf
      <4> QED BY <2>2, <4>1
    <3>7. Completed(path[i], s) = Completed(path[i], NoSession)
      BY <3>5, <3>6 DEF RecordInv, OneRecord, Completed
    <3> QED BY <3>7, WalletAssumption DEF Completed
  <2>6. Abstract!Record(path)
    BY <2>4, <2>5 DEF Abstract!Record
  <2>7. path = c.main \/ (path = c.alt /\ c.alt # <<>>)
    BY <2>1 DEF OnPath
  <2>8. Abstract!Next
    BY <2>6, <2>7 DEF Abstract!Next
  <2> QED BY <2>8
<1> QED BY <1>5, <1>6 DEF MovesInv

LEMMA InitRecorded == Init => Abstract!Init
<1> SUFFICES ASSUME Init PROVE Abstract!Init
  OBVIOUS
<1>1. \A u \in Users : wallets[u].ledger = <<>>
  BY DEF Init, NoWallet
<1>2. RequestsOf(<<>>) = <<>>
  BY DEF RequestsOf
<1>3. Ledgers = [u \in Users |-> RequestsOf(wallets[u].ledger)]
  BY DEF Ledgers, RequestsOf
<1>4. Ledgers = [u \in Users |-> <<>>]
  BY <1>1, <1>2, <1>3
<1> QED BY <1>4 DEF Abstract!Init

\* Nothing but a commit changes a committed ledger.
LEMMA OthersRecord ==
  ASSUME Typed, LedgerInv, [Next]_vars, \A s \in Sessions : ~Commit(s)
  PROVE  Ledgers' = Ledgers
<1>1. ASSUME NEW s \in Sessions, NEW answer, Rollback(s, answer) \/ Conflict(s, answer)
      PROVE  wallets' = wallets
  BY <1>1, RollbackLedger, ConflictLedger
<1>2. ASSUME NEW s \in Sessions, Progress(s) PROVE wallets' = wallets
  <2>1. CASE EnsureDefaultWallet(s)
    BY <1>1, <2>1 DEF EnsureDefaultWallet, moneyVars
  <2>2. CASE FindRecord(s)
    BY <1>1, <2>2 DEF FindRecord, moneyVars
  <2>3. CASE InsertRecord(s)
    BY <1>1, <2>3 DEF InsertRecord, moneyVars
  <2>4. CASE LockWallet(s)
    BY <1>1, <2>4 DEF LockWallet
  <2>5. CASE ApplyMutation(s)
    BY <1>1, <2>5 DEF ApplyMutation
  <2>6. CASE Complete(s)
    BY <2>6 DEF Complete, moneyVars
  <2>7. CASE LockWaitAbort(s)
    BY <1>1, <2>7 DEF LockWaitAbort
  <2> QED BY <1>2, <2>1, <2>2, <2>3, <2>4, <2>5, <2>6, <2>7 DEF Progress
<1>3. wallets' = wallets
  <2>1. ASSUME NEW s \in Sessions, Crash(s) PROVE wallets' = wallets
    BY <1>1, <2>1 DEF Crash
  <2>2. ASSUME NEW s \in Sessions, NEW c \in Scripts, Begin(s, c) PROVE wallets' = wallets
    BY <2>2 DEF Begin, moneyVars
  <2>3. ASSUME \/ \E u \in Users : \/ ReadWagerLimit(u) \/ DeleteWagerLimit(u)
                                   \/ \E l \in Limits : SaveWagerLimit(u, l)
               \/ Tick \/ UNCHANGED vars
        PROVE  wallets' = wallets
    BY <2>3 DEF ReadWagerLimit, DeleteWagerLimit, SaveWagerLimit, Tick, vars, moneyVars
  <2> QED BY <1>2, <2>1, <2>2, <2>3 DEF Next
<1> QED BY <1>3 DEF Ledgers

\* What callers rely on: the steps of the wallet's database transactions, interleaved, aborted
\* and retried, show as whole transactions recorded at once, in order and at most once, along
\* the main path or the fallback -- provided the callers keep their keys to themselves.
THEOREM ImplementsMoves == ASSUME TidyScripts PROVE Spec => ImplementsMoneyMoves
<1>1. Typed /\ LedgerInv /\ StatsInv /\ [Next]_vars => StatsInv'
  BY StepStats
<1>2. Typed /\ LedgerInv /\ [Next]_vars => LedgerInv'
  BY StepLedger
<1>3. Typed /\ LedgerInv /\ RecordInv /\ [Next]_vars => RecordInv'
  BY StepRecords
<1>4. Typed /\ LedgerInv /\ StatsInv /\ RecordInv /\ MovesInv /\ [Next]_vars => MovesInv'
  BY StepMoves
<1>5. Typed /\ LedgerInv /\ RecordInv /\ MovesInv /\ [Next]_vars => [Abstract!Next]_Ledgers
  BY CommitRecorded, OthersRecord
<1> QED BY InitTyped, NextTyped, InitLedger, InitRecords, InitStats, InitMoves, InitRecorded,
     <1>1, <1>2, <1>3, <1>4, <1>5, PTL DEF Spec, ImplementsMoneyMoves, Abstract!Spec
=============================================================================
