------------------------------- MODULE Wallet -------------------------------
(***************************************************************************)
(* WalletService.mutateWalletInSession and the multi-step money movements  *)
(* built from it (src/src/wallet/wallet.service.ts, src/src/ledger,        *)
(* the deposit fallback of src/src/payments/payments.service.ts).          *)
(*                                                                         *)
(* Every movement is a sequence of steps run in ONE MySQL transaction      *)
(* (InnoDB, REPEATABLE READ: plain reads see the snapshot taken by the     *)
(* first read, locking reads and writes see the newest row).  A session    *)
(* is one such transaction.  The variables hold both versions of a row:    *)
(* `wallets` the committed one, `row` the newest, uncommitted included.    *)
(***************************************************************************)
EXTENDS Integers, Sequences, FiniteSets, Functions

CONSTANTS
  Users,          \* wallet owners: players, agents, the house
  Sessions,       \* concurrent database transactions
  NoSession,      \* "nobody": holder of a free lock, author of committed data
  Requests,       \* mutateWalletInSession inputs
  Scripts,        \* transactions: [main |-> steps, alt |-> fallback steps]
  Windows,        \* wager limit windows ("daily", "weekly")
  StakeSpan,      \* ticks to the reset that a stake opens, per window
  UpsertSpan,     \* ticks to the reset that upsertWagerLimit opens
  Limits,         \* limits an admin may set: functions of Windows
  MaxTx, MaxUpserts, MaxNow    \* bounds of the exploration

EnsureSteps == [ensure : Users]
Steps == Requests \cup EnsureSteps

ASSUME UsersAssumption == IsFiniteSet(Users)

ASSUME WalletAssumption ==
  /\ NoSession \notin Sessions
  /\ \A r \in Requests : /\ r.user \in Users
                         /\ r.dir \in {"debit", "credit"}
                         /\ r.amount \in Nat \ {0}
  /\ Requests \cap EnsureSteps = {}
  /\ Scripts \subseteq [main : Seq(Steps), alt : Seq(Steps)]
  /\ StakeSpan \in [Windows -> Nat \ {0}] /\ UpsertSpan \in [Windows -> Nat \ {0}]
  /\ Limits \subseteq [Windows -> Nat]
  /\ MaxTx \in Nat /\ MaxUpserts \in Nat /\ MaxNow \in Nat

VARIABLES
  wallets, row, walletLock,     \* wallets + ledger_entries: committed, newest, FOR UPDATE holder
  wager, wagerRow, edit,        \* wager_limits: committed, newest; rows read by upsertWagerLimit
  idem,                         \* idempotency_records, `by` naming the session not yet committed
  stats, statsRow, statsLock,   \* platform_stats 'global': committed, newest, lock holder
  now, begun, upserts,          \* clock; counters that bound the exploration
  pc, todo, alt, snap, reply    \* per session: position, steps left, fallback, snapshot, answer

moneyVars == <<wallets, row, walletLock>>
wagerVars == <<wager, wagerRow, edit>>
statsVars == <<stats, statsRow, statsLock>>
boundVars == <<now, begun, upserts>>
sessionVars == <<pc, todo, alt, snap, reply>>
vars == <<moneyVars, wagerVars, idem, statsVars, boundVars, sessionVars>>

-----------------------------------------------------------------------------
Kinds == {"stake", "win", "refund"}        \* entry types platform_stats counts
Entries == [req : Requests, after : Nat, at : Nat]
Wallets == [open : BOOLEAN, avail : Nat, ledger : Seq(Entries)]
NoWallet == [open |-> FALSE, avail |-> 0, ledger |-> <<>>]
NewWallet == [open |-> TRUE, avail |-> 0, ledger |-> <<>>]

NoRow == [none |-> TRUE]
WagerRows == [limit : [Windows -> Nat], cur : [Windows -> Nat], resetAt : [Windows -> Nat]]
NoEdit == [idle |-> TRUE]
NoSnap == [idem |-> {}, open |-> [u \in Users |-> FALSE], avail |-> [u \in Users |-> 0],
           wager |-> [u \in Users |-> NoRow]]

\* The request stands for its own hash: equal hashes are equal requests.
RecId(r) == <<r.user, r.key, r.dir, r.entry, r.src>>    \* unique (key, userId, action)
LedgerKey(r) == <<r.user, r.src, r.key>>                \* unique (userId, sourceType, key)
Inc(r) == IF r.dir = "credit" THEN r.amount ELSE -r.amount

\* What TypeORM's save leaves in a column: it reloads the row by a plain read, which
\* returns `seen` of the snapshot, and sends no update for a column that equals it.
Saved(new, seen, newest) == IF new = seen THEN newest ELSE new

FreshRow(limit, span) == [limit |-> limit, cur |-> [w \in Windows |-> 0],
                          resetAt |-> [w \in Windows |-> now + span[w]]]

Init ==
  /\ wallets = [u \in Users |-> NoWallet] /\ row = wallets
  /\ walletLock = [u \in Users |-> NoSession]
  /\ now = 0 /\ begun = 0 /\ upserts = 0
  /\ wager \in [Users -> {NoRow} \cup {FreshRow(l, UpsertSpan) : l \in Limits}]
  /\ wagerRow = wager /\ edit = [u \in Users |-> NoEdit]
  /\ idem = {}
  /\ stats = [k \in Kinds |-> 0] /\ statsRow = stats /\ statsLock = NoSession
  /\ pc = [s \in Sessions |-> "idle"]
  /\ todo = [s \in Sessions |-> <<>>] /\ alt = [s \in Sessions |-> <<>>]
  /\ snap = [s \in Sessions |-> NoSnap] /\ reply = [s \in Sessions |-> "none"]

-----------------------------------------------------------------------------
Goto(s, l) == pc' = [pc EXCEPT ![s] = l]

\* The end of a transaction: locks released, the answer sent.
EndSession(s, answer) ==
  /\ Goto(s, "idle")
  /\ todo' = [todo EXCEPT ![s] = <<>>] /\ alt' = [alt EXCEPT ![s] = <<>>]
  /\ snap' = [snap EXCEPT ![s] = NoSnap] /\ reply' = [reply EXCEPT ![s] = answer]
  /\ walletLock' = [u \in Users |-> IF walletLock[u] = s THEN NoSession ELSE walletLock[u]]
  /\ statsLock' = IF statsLock = s THEN NoSession ELSE statsLock

RestoreRows(s) ==
  /\ row' = [u \in Users |-> IF walletLock[u] = s THEN wallets[u] ELSE row[u]]
  /\ wagerRow' = [u \in Users |-> IF walletLock[u] = s THEN wager[u] ELSE wagerRow[u]]

Rollback(s, answer) ==
  /\ EndSession(s, answer) /\ RestoreRows(s)
  /\ statsRow' = IF statsLock = s THEN stats ELSE statsRow
  /\ idem' = {q \in idem : q.by # s}
  /\ UNCHANGED <<wallets, wager, edit, stats, boundVars>>

IgnoreConflict(s, answer) ==
  /\ todo' = [todo EXCEPT ![s] = Tail(@)] /\ Goto(s, "step")
  /\ UNCHANGED <<moneyVars, wagerVars, idem, statsVars, boundVars, alt, snap, reply>>

RetryConflict(s, answer) ==
  /\ Goto(s, "step")
  /\ UNCHANGED <<moneyVars, wagerVars, idem, statsVars, boundVars, todo, alt, snap, reply>>

\* ConflictException: the deposit fallback catches it and goes on in the SAME
\* transaction with the master wallet; everybody else rolls back.
Conflict(s, answer) ==
  IF alt[s] = <<>> THEN Rollback(s, answer)
  ELSE /\ todo' = [todo EXCEPT ![s] = alt[s]] /\ alt' = [alt EXCEPT ![s] = <<>>]
       /\ Goto(s, "step")
       /\ UNCHANGED <<moneyVars, wagerVars, idem, statsVars, boundVars, snap, reply>>

-----------------------------------------------------------------------------
\* The first read of the transaction fixes its snapshot.
Begin(s, script) ==
  /\ pc[s] = "idle" /\ begun < MaxTx
  /\ Goto(s, "step") /\ begun' = begun + 1
  /\ todo' = [todo EXCEPT ![s] = script.main] /\ alt' = [alt EXCEPT ![s] = script.alt]
  /\ snap' = [snap EXCEPT ![s] =
       [idem |-> {q \in idem : q.by = NoSession},
        open |-> [u \in Users |-> wallets[u].open],
        avail |-> [u \in Users |-> wallets[u].avail],
        wager |-> wager]]
  /\ reply' = [reply EXCEPT ![s] = "none"]
  /\ UNCHANGED <<moneyVars, wagerVars, idem, statsVars, now, upserts>>

\* ensureDefaultWallet(user, manager): a snapshot read, then an INSERT.
EnsureDefaultWallet(s) ==
  /\ pc[s] = "step" /\ todo[s] # <<>> /\ Head(todo[s]) \in EnsureSteps
  /\ LET u == Head(todo[s]).ensure IN
     \/ /\ snap[s].open[u]
        /\ todo' = [todo EXCEPT ![s] = Tail(@)]
        /\ UNCHANGED <<moneyVars, wagerVars, idem, statsVars, boundVars, pc, alt, snap, reply>>
     \/ /\ ~snap[s].open[u] /\ walletLock[u] = NoSession /\ ~wallets[u].open
        /\ row' = [row EXCEPT ![u] = NewWallet]
        /\ walletLock' = [walletLock EXCEPT ![u] = s]
        /\ snap' = [snap EXCEPT ![s].open[u] = TRUE]
        /\ todo' = [todo EXCEPT ![s] = Tail(@)]
        /\ UNCHANGED <<wallets, wagerVars, idem, statsVars, boundVars, pc, alt, reply>>
     \/ /\ ~snap[s].open[u] /\ walletLock[u] = NoSession /\ wallets[u].open
        /\ Rollback(s, "duplicate wallet")

\* Plain find of the idempotency record: the snapshot and the session's own rows.
FindRecord(s) ==
  /\ pc[s] = "step" /\ todo[s] # <<>> /\ Head(todo[s]) \in Requests
  /\ LET r == Head(todo[s])
         found == {q \in snap[s].idem \cup {p \in idem : p.by = s} : RecId(q.req) = RecId(r)}
     IN \/ /\ found = {} /\ Goto(s, "insert")
           /\ UNCHANGED <<moneyVars, wagerVars, idem, statsVars, boundVars, todo, alt, snap, reply>>
        \/ /\ \E q \in found : q.req # r
           /\ Conflict(s, "mismatch")
        \/ /\ \E q \in found : q.req = r /\ q.status = "completed"
           /\ todo' = [todo EXCEPT ![s] = Tail(@)]
           /\ UNCHANGED <<moneyVars, wagerVars, idem, statsVars, boundVars, pc, alt, snap, reply>>
        \/ /\ \E q \in found : q.req = r /\ q.status = "pending"
           /\ Conflict(s, "in progress")

\* The unique index: wait for an uncommitted twin, fail on a committed one.
Twins(r) == {q \in idem : RecId(q.req) = RecId(r)}

NewRecordOutside(s, r) == [req |-> r, status |-> "pending", by |-> NoSession]
NewRecord(s, r) == [req |-> r, status |-> "pending", by |-> s]

InsertRecord(s) ==
  /\ pc[s] = "insert"
  /\ LET r == Head(todo[s]) IN
     \/ /\ Twins(r) = {}
        /\ idem' = idem \cup {NewRecord(s, r)}
        /\ Goto(s, "lock")
        /\ UNCHANGED <<moneyVars, wagerVars, statsVars, boundVars, todo, alt, snap, reply>>
     \/ /\ \E q \in Twins(r) : q.by = NoSession
        /\ Rollback(s, "duplicate record")

\* SELECT ... FOR UPDATE of the wallet row, then the NotFound check.  (Nothing in the
\* program writes a wallet's status: the refusal of one that is not active has no state.)
LockWallet(s) ==
  /\ pc[s] = "lock"
  /\ LET u == Head(todo[s]).user IN
     /\ walletLock[u] \in {NoSession, s}
     /\ \/ /\ row[u].open
           /\ walletLock' = [walletLock EXCEPT ![u] = s]
           /\ Goto(s, "apply")
           /\ UNCHANGED <<wallets, row, wagerVars, idem, statsVars, boundVars, todo, alt, snap, reply>>
        \/ /\ ~row[u].open
           /\ Rollback(s, "not found")

-----------------------------------------------------------------------------
\* enforceWagerLimit: the row it works on, read from the snapshot ...
Rolled(s, u) ==
  LET seen == snap[s].wager[u]
      base == IF seen = NoRow THEN FreshRow([w \in Windows |-> 0], StakeSpan) ELSE seen
      due == {w \in Windows : now >= base.resetAt[w]}
  IN [limit |-> base.limit,
      cur |-> [w \in Windows |-> IF w \in due THEN 0 ELSE base.cur[w]],
      resetAt |-> [w \in Windows |-> IF w \in due THEN now + StakeSpan[w] ELSE base.resetAt[w]]]

\* ... the test ...
OverLimitBefore(s, r) ==
  /\ r.entry = "stake"
  /\ \E w \in Windows : LET rolled == Rolled(s, r.user) IN
       rolled.limit[w] > 0 /\ rolled.cur[w] > rolled.limit[w]

OverLimit(s, r) ==
  /\ r.entry = "stake"
  /\ \E w \in Windows : LET rolled == Rolled(s, r.user) IN
       rolled.limit[w] > 0 /\ rolled.cur[w] + r.amount > rolled.limit[w]

Wagered(s, r) == LET rolled == Rolled(s, r.user) IN
  [rolled EXCEPT !.cur = [w \in Windows |-> rolled.cur[w] + r.amount]]

\* ... and what save leaves in the table (no row to update: nothing happens).
Column(new, seen, newest) == [w \in Windows |-> Saved(new[w], seen[w], newest[w])]

WagerAfter(s, r) ==
  LET new == Wagered(s, r)  seen == snap[s].wager[r.user]  newest == wagerRow[r.user]
  IN IF seen = NoRow THEN new
     ELSE IF newest = NoRow THEN NoRow
     ELSE [limit   |-> Column(new.limit, seen.limit, newest.limit),
           cur     |-> Column(new.cur, seen.cur, newest.cur),
           resetAt |-> Column(new.resetAt, seen.resetAt, newest.resetAt)]

\* INSERTs that meet a row the snapshot did not show, or the ledger's unique index.
WagerClash(s, r) == r.entry = "stake" /\ snap[s].wager[r.user] = NoRow /\ wagerRow[r.user] # NoRow

EntryClash(s, r) ==
  \/ ~snap[s].open[r.user]
  \/ \E i \in DOMAIN row[r.user].ledger : LedgerKey(row[r.user].ledger[i].req) = LedgerKey(r)

\* What findOne with lock pessimistic_write returned, plus the movement.
StaleBalance(s, r) == snap[s].avail[r.user] + Inc(r)
Balance(s, r) == row[r.user].avail + Inc(r)

NeverShort(r) == FALSE
Short(r) == r.dir = "debit" /\ row[r.user].avail < r.amount

\* createEntry: an INSERT, the ledger has no update and no delete.
ReplaceEntry(ledger, entry) ==
  Append(SelectSeq(ledger, LAMBDA e : e.req.entry # entry.req.entry), entry)
CreateEntry(ledger, entry) == Append(ledger, entry)

\* save(wallet) and the entry with its balanceAfterMinor.
WalletAfter(w, entry, seen) ==
  [w EXCEPT !.avail = Saved(entry.after, seen, w.avail), !.ledger = CreateEntry(w.ledger, entry)]

\* A transaction reads its own writes back.
SnapAfter(s, r) ==
  [snap[s] EXCEPT !.avail = [@ EXCEPT ![r.user] = Balance(s, r)],
                  !.wager = IF r.entry = "stake" THEN [@ EXCEPT ![r.user] = Wagered(s, r)] ELSE @]

\* From the row lock to the ledger entry: wager limit, balance, save, entry.
ApplyMutation(s) ==
  /\ pc[s] = "apply"
  /\ LET r == Head(todo[s])
         u == r.user
         entry == [req |-> r, after |-> Balance(s, r), at |-> now]
         refused == OverLimit(s, r) \/ WagerClash(s, r)
     IN \/ /\ OverLimit(s, r) /\ Conflict(s, "limit")
        \/ /\ ~OverLimit(s, r) /\ WagerClash(s, r) /\ Rollback(s, "duplicate row")
        \/ /\ ~refused /\ Short(r) /\ Conflict(s, "short")
        \/ /\ ~refused /\ ~Short(r) /\ EntryClash(s, r) /\ Rollback(s, "duplicate row")
        \/ /\ ~refused /\ ~Short(r) /\ ~EntryClash(s, r)
           /\ row' = [row EXCEPT ![u] = WalletAfter(row[u], entry, snap[s].avail[u])]
           /\ wagerRow' = IF r.entry = "stake" THEN [wagerRow EXCEPT ![u] = WagerAfter(s, r)]
                                               ELSE wagerRow
           /\ snap' = [snap EXCEPT ![s] = SnapAfter(s, r)]
           /\ Goto(s, "complete")
           /\ UNCHANGED <<wallets, walletLock, wager, edit, idem, statsVars, boundVars, todo, alt, reply>>

\* INSERT ... ON DUPLICATE KEY UPDATE: the newest value plus the amount.
StaleStats(r) == [stats EXCEPT ![r.entry] = @ + r.amount]
StatsAfter(r) == [statsRow EXCEPT ![r.entry] = @ + r.amount]

\* The platform_stats upsert (one row for everybody), then the completed record.
Complete(s) ==
  /\ pc[s] = "complete"
  /\ LET r == Head(todo[s])
         mine == {q \in idem : q.by = s /\ q.req = r}
     IN /\ r.entry \in Kinds => statsLock \in {NoSession, s}
        /\ IF r.entry \in Kinds
             THEN /\ statsRow' = StatsAfter(r)
                  /\ statsLock' = s
             ELSE UNCHANGED <<statsRow, statsLock>>
        /\ idem' = (idem \ mine) \cup {[q EXCEPT !.status = "completed"] : q \in mine}
  /\ todo' = [todo EXCEPT ![s] = Tail(@)]
  /\ Goto(s, "step")
  /\ UNCHANGED <<moneyVars, wagerVars, stats, boundVars, alt, snap, reply>>

Commit(s) ==
  /\ pc[s] = "step" /\ todo[s] = <<>>
  /\ EndSession(s, "done")
  /\ wallets' = [u \in Users |-> IF walletLock[u] = s THEN row[u] ELSE wallets[u]]
  /\ wager' = [u \in Users |-> IF walletLock[u] = s THEN wagerRow[u] ELSE wager[u]]
  /\ stats' = IF statsLock = s THEN statsRow ELSE stats
  /\ idem' = {IF q.by = s THEN [q EXCEPT !.by = NoSession] ELSE q : q \in idem}
  /\ UNCHANGED <<row, wagerRow, edit, statsRow, boundVars>>

-----------------------------------------------------------------------------
\* The locks a session waits for.
Waiting(s) ==
  \/ /\ pc[s] = "step" /\ todo[s] # <<>> /\ Head(todo[s]) \in EnsureSteps
     /\ ~snap[s].open[Head(todo[s]).ensure]
     /\ walletLock[Head(todo[s]).ensure] \notin {NoSession, s}
  \/ pc[s] = "insert" /\ \E q \in Twins(Head(todo[s])) : q.by \notin {NoSession, s}
  \/ pc[s] = "lock" /\ walletLock[Head(todo[s]).user] \notin {NoSession, s}
  \/ pc[s] = "complete" /\ Head(todo[s]).entry \in Kinds /\ statsLock \notin {NoSession, s}

\* InnoDB ends a wait that is a deadlock or too long; the error ends the transaction.
LockWaitAbort(s) == Waiting(s) /\ Rollback(s, "aborted")

\* The process or its connection dies: the server rolls the transaction back.
Crash(s) == pc[s] # "idle" /\ Rollback(s, "crashed")

\* upsertWagerLimit outside any transaction: read the row, then save the entity.
ReadWagerLimit(u) ==
  /\ edit[u] = NoEdit /\ upserts < MaxUpserts
  /\ edit' = [edit EXCEPT ![u] = [seen |-> wager[u]]]
  /\ upserts' = upserts + 1
  /\ UNCHANGED <<moneyVars, wager, wagerRow, idem, statsVars, now, begun, sessionVars>>

WagerUnlocked(u) == wagerRow[u] = wager[u]

SaveWagerLimit(u, limit) ==
  /\ edit[u] # NoEdit /\ WagerUnlocked(u)
  /\ LET seen == edit[u].seen
         saved == IF seen = NoRow
                    THEN IF wager[u] = NoRow THEN FreshRow(limit, UpsertSpan) ELSE wager[u]
                    ELSE [seen EXCEPT !.limit = limit]
     IN wager' = [wager EXCEPT ![u] = saved] /\ wagerRow' = [wagerRow EXCEPT ![u] = saved]
  /\ edit' = [edit EXCEPT ![u] = NoEdit]
  /\ UNCHANGED <<moneyVars, idem, statsVars, boundVars, sessionVars>>

DeleteWagerLimit(u) ==
  /\ upserts < MaxUpserts /\ WagerUnlocked(u) /\ wager[u] # NoRow
  /\ wager' = [wager EXCEPT ![u] = NoRow] /\ wagerRow' = [wagerRow EXCEPT ![u] = NoRow]
  /\ upserts' = upserts + 1
  /\ UNCHANGED <<moneyVars, edit, idem, statsVars, now, begun, sessionVars>>

Tick == /\ now < MaxNow /\ now' = now + 1
        /\ UNCHANGED <<moneyVars, wagerVars, idem, statsVars, begun, upserts, sessionVars>>

Progress(s) ==
  \/ EnsureDefaultWallet(s) \/ FindRecord(s) \/ InsertRecord(s) \/ LockWallet(s)
  \/ ApplyMutation(s) \/ Complete(s) \/ Commit(s) \/ LockWaitAbort(s)

Next ==
  \/ \E s \in Sessions : Progress(s) \/ Crash(s) \/ \E script \in Scripts : Begin(s, script)
  \/ \E u \in Users : ReadWagerLimit(u) \/ DeleteWagerLimit(u) \/ \E l \in Limits : SaveWagerLimit(u, l)
  \/ Tick

\* A started transaction goes on (its awaits resolve) or is ended by the server.
Spec == Init /\ [][Next]_vars /\ \A s \in Sessions : WF_vars(Progress(s))

-----------------------------------------------------------------------------
Records == [req : Requests, status : {"pending", "completed"}, by : Sessions \cup {NoSession}]
Snaps == [idem : SUBSET Records, open : [Users -> BOOLEAN], avail : [Users -> Nat],
          wager : [Users -> WagerRows \cup {NoRow}]]
Answers == {"none", "done", "mismatch", "in progress", "not found", "limit", "short",
            "duplicate wallet", "duplicate record", "duplicate row", "aborted", "crashed"}

TypeOK ==
  /\ wallets \in [Users -> Wallets] /\ row \in [Users -> Wallets]
  /\ walletLock \in [Users -> Sessions \cup {NoSession}]
  /\ wager \in [Users -> WagerRows \cup {NoRow}] /\ wagerRow \in [Users -> WagerRows \cup {NoRow}]
  /\ edit \in [Users -> {NoEdit} \cup [seen : WagerRows \cup {NoRow}]]
  /\ idem \subseteq Records
  /\ stats \in [Kinds -> Nat] /\ statsRow \in [Kinds -> Nat]
  /\ statsLock \in Sessions \cup {NoSession}
  /\ now \in 0..MaxNow /\ begun \in 0..MaxTx /\ upserts \in 0..MaxUpserts
  /\ pc \in [Sessions -> {"idle", "step", "insert", "lock", "apply", "complete"}]
  /\ todo \in [Sessions -> Seq(Steps)] /\ alt \in [Sessions -> Seq(Steps)]
  /\ snap \in [Sessions -> Snaps] /\ reply \in [Sessions -> Answers]

\* What the committed ledger says was done.
Done == UNION {{wallets[u].ledger[i].req : i \in DOMAIN wallets[u].ledger} : u \in Users}

\* A committed completed idempotency record stands for exactly one entry, and
\* every entry has its record: a retry is answered from it and moves nothing.
RecordsMatchLedger ==
  /\ {q.req : q \in {p \in idem : p.by = NoSession /\ p.status = "completed"}} = Done
  /\ \A u \in Users : \A i, j \in DOMAIN wallets[u].ledger :
       wallets[u].ledger[i].req = wallets[u].ledger[j].req => i = j

\* What the statistic of a kind counts of a ledger.
Counted(ledger, kind) == SumFunctionOnSet(
  [i \in DOMAIN ledger |-> IF ledger[i].req.entry = kind THEN ledger[i].req.amount ELSE 0],
  DOMAIN ledger)

\* platform_stats adds up to the ledger: the upserts of concurrent transactions
\* are neither lost nor left behind by a rollback.
StatsMatchLedger == \A k \in Kinds :
  stats[k] = SumFunctionOnSet([u \in Users |-> Counted(wallets[u].ledger, k)], Users)

\* The ledger is append-only: a step adds entries at the end or leaves it alone.
LedgerAppendOnly ==
  [][\A u \in Users : /\ Len(wallets[u].ledger) <= Len(wallets'[u].ledger)
                      /\ \A i \in DOMAIN wallets[u].ledger :
                           wallets'[u].ledger[i] = wallets[u].ledger[i]]_vars

\* What callers see of it: ledgers of movements, each transaction recorded whole.
Ledgers == [u \in Users |-> [i \in DOMAIN wallets[u].ledger |-> wallets[u].ledger[i].req]]
Abstract == INSTANCE MoneyMoves WITH
  Owners <- Users, Movements <- Requests, Transactions <- Scripts, ledgers <- Ledgers

\* Every step of the database transactions is one whole recorded transaction or none.
ImplementsMoneyMoves == Abstract!Spec

\* ... provided callers keep their keys to themselves: a record is of one request, a
\* request of one transaction and one step of it, and the main path of a transaction with
\* a fallback can be refused at its first movement alone, which the fallback leaves out.
MovesOf(path) == {path[i] : i \in DOMAIN path} \cap Requests
First(path, i) == path[i] \in Requests /\ \A j \in 1..(i - 1) : path[j] \notin Requests
Once(path) == \A i, j \in DOMAIN path : path[i] = path[j] /\ path[i] \in Requests => i = j
Tidy(requests, scripts) ==
  /\ \A q, r \in requests : RecId(q) = RecId(r) => q = r
  /\ \A c, d \in scripts :
       c # d => (MovesOf(c.main) \cup MovesOf(c.alt)) \cap (MovesOf(d.main) \cup MovesOf(d.alt)) = {}
  /\ \A c \in scripts :
       /\ Once(c.main) /\ Once(c.alt)
       /\ c.alt # <<>> => \A i \in DOMAIN c.main : c.main[i] \in Requests =>
            IF First(c.main, i) THEN c.main[i] \notin MovesOf(c.alt)
            ELSE c.main[i].dir # "debit" /\ c.main[i].entry # "stake"
TidyScripts == Tidy(Requests, Scripts)

\* No wait on row locks lasts for ever: every transaction ends.
TransactionsEnd == \A s \in Sessions : pc[s] # "idle" ~> pc[s] = "idle"
=============================================================================
