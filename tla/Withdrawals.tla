---------------------------- MODULE Withdrawals ----------------------------
(***************************************************************************)
(* The withdrawal workflow of src/src/wallet/wallet.service.ts: a player   *)
(* reserves an amount, an agent claims the request, pays in cash and       *)
(* submits a proof, an admin verifies it; an admin may also settle the     *)
(* request directly.                                                       *)
(*                                                                         *)
(* A call has two halves.  The first reads the withdrawal (a plain read,   *)
(* in a transaction from its snapshot) and checks its status; the second   *)
(* locks the player's wallet where money moves, checks the reservation,    *)
(* writes and commits.  Other calls run in between.  A call may end        *)
(* between the halves: a failed check, an abort or a crash.                *)
(***************************************************************************)
EXTENDS Integers, FiniteSets, Bags, Functions

CONSTANTS
  Players, Agents, House, Nobody,
  Ids, Owner, Amount,   \* withdrawal ids; the player and the amount of each
  Refs,                 \* payout references (receipt numbers)
  Fees,                 \* flat fees an active WithdrawalFeeRange may resolve to
  Funds,                \* what each wallet holds at first
  MaxPending,           \* system_configs.maxPendingWithdrawalsPerUser
  Sessions,             \* calls in progress
  MaxCalls              \* bound of the exploration

AgentOps == {"claim", "release", "agent_reject", "proof"}
PayingOps == {"verify_approve", "complete"}
RefundingOps == {"reject", "verify_reject"}

ASSUME WithdrawalsAssumption ==
  /\ Nobody \notin Agents \cup Refs /\ House \notin Agents
  /\ IsFiniteSet(Ids) /\ Owner \in [Ids -> Players] /\ Amount \in [Ids -> Nat \ {0}]
  /\ Fees \subseteq Nat /\ Funds \in Nat /\ MaxPending \in Nat /\ MaxCalls \in Nat

VARIABLES
  wd,       \* withdrawals: the rows of the table
  wallet,   \* the players' wallets: available and reserved
  ledger,   \* ledger entries of withdrawals, a bag
  call,     \* per session: the call between its two halves
  calls     \* calls begun

vars == <<wd, wallet, ledger, call, calls>>

-----------------------------------------------------------------------------
\* `by`: who processed it.
NoRow == [status |-> "none", agent |-> Nobody, ref |-> Nobody, fee |-> 0, by |-> "nobody"]

\* "hold" debits the player, "refund" credits him; "receipt" and "fee" credit `to`.
Entry(w, kind, to, n) == [id |-> w, kind |-> kind, to |-> to, n |-> n]
Post(entries) == ledger' = ledger (+) SetToBag(entries)
Custody(w) == {e \in BagToSet(ledger) : e.id = w /\ e.kind \in {"receipt", "fee"}}

NoCall == [op |-> "none"]

Init ==
  /\ wd = [w \in Ids |-> NoRow]
  /\ wallet = [p \in Players |-> [avail |-> Funds, reserved |-> 0]]
  /\ ledger = EmptyBag
  /\ call = [s \in Sessions |-> NoCall] /\ calls = 0

-----------------------------------------------------------------------------
\* First halves: the plain reads and the checks on them.
Read(s, op, w, a, ref, fee) ==
  /\ call[s] = NoCall /\ calls < MaxCalls
  /\ call' = [call EXCEPT ![s] =
       [op |-> op, id |-> w, agent |-> a, ref |-> ref, fee |-> fee,
        row |-> wd[w], wallet |-> wallet[Owner[w]], custody |-> Custody(w)]]
  /\ calls' = calls + 1
  /\ UNCHANGED <<wd, wallet, ledger>>

PendingOf(p) == {w \in Ids : Owner[w] = p /\ wd[w].status \in {"pending", "claimed", "processing"}}

RequestWithdrawal(s, w) ==
  /\ wd[w].status = "none"
  /\ \A t \in Sessions : call[t].op = "request" => call[t].id # w     \* ids are fresh
  /\ MaxPending > 0 => Cardinality(PendingOf(Owner[w])) < MaxPending
  /\ Read(s, "request", w, Nobody, Nobody, 0)

Settleable(op) == IF op = "approve" THEN {"pending", "processing"} ELSE {"pending", "claimed", "processing"}

ProcessWithdrawal(s, w) ==
  \E op \in {"approve", "reject"} :
    wd[w].status \in Settleable(op) /\ Read(s, op, w, Nobody, Nobody, 0)

ClaimWithdrawal(s, w, a) == wd[w].status = "pending" /\ Read(s, "claim", w, a, Nobody, 0)

ClaimedBy(w, a) == wd[w].status = "claimed" /\ wd[w].agent = a
ReleaseWithdrawal(s, w, a) == ClaimedBy(w, a) /\ Read(s, "release", w, a, Nobody, 0)
RejectWithdrawalByAgent(s, w, a) == ClaimedBy(w, a) /\ Read(s, "agent_reject", w, a, Nobody, 0)

\* The plain read that looks for another use of the payout reference ...
Reused(w, ref) ==
  \E v \in Ids \ {w} : wd[v].ref = ref /\ wd[v].status \in {"awaiting_verification", "completed"}

RecordAgentWithdrawalProof(s, w, a, ref, fee) ==
  /\ ClaimedBy(w, a) /\ ~Reused(w, ref) /\ Amount[w] > fee
  /\ Read(s, "proof", w, a, ref, fee)

VerifyAgentWithdrawal(s, w) ==
  /\ wd[w].status = "awaiting_verification"
  /\ \E op \in {"verify_approve", "verify_reject"} : Read(s, op, w, wd[w].agent, wd[w].ref, wd[w].fee)

AdminCompleteWithdrawal(s, w, a, ref, fee) ==
  /\ wd[w].status \in {"pending", "processing"} /\ ~Reused(w, ref) /\ Amount[w] > fee
  /\ Read(s, "complete", w, a, ref, fee)

-----------------------------------------------------------------------------
\* Second halves.  `save` writes the columns that differ from its reload: inside a
\* transaction the reload is the snapshot, outside it is the row as it is now.
Saved(new, seen, newest) == IF new = seen THEN newest ELSE new
Merged(new, seen, newest) == [f \in DOMAIN new |-> Saved(new[f], seen[f], newest[f])]
Done(s) == call' = [call EXCEPT ![s] = NoCall] /\ calls' = calls

\* The locked wallet with `avail` and `reserved` moved.
MoveTo(s, avail, reserved) ==
  LET p == Owner[call[s].id]
      new == [avail |-> avail, reserved |-> reserved]
  IN wallet' = [wallet EXCEPT ![p] = Merged(new, call[s].wallet, wallet[p])]

SeenWallet(s) == call[s].wallet
Locked(s) == wallet[Owner[call[s].id]]

SaveRow(s, new) ==
  wd' = [wd EXCEPT ![call[s].id] = Merged(new, call[s].row, wd[call[s].id])]

Available(w, n) == wallet[Owner[w]].avail >= n

\* Nothing writes the status of a wallet, so the refusal of one that is not active is left out.
FinishRequest(s) ==
  LET w == call[s].id  n == Amount[w] IN
  /\ call[s].op = "request" /\ Available(w, n)
  /\ MoveTo(s, Locked(s).avail - n, Locked(s).reserved + n)
  /\ SaveRow(s, [NoRow EXCEPT !.status = "pending"])
  /\ Post({Entry(w, "hold", Owner[w], n)})
  /\ Done(s)

\* claim, release and the agent's reject run outside a transaction: the entity
\* read in the first half replaces the row.
AfterAgentOp(c) ==
  CASE c.op = "claim" -> [c.row EXCEPT !.status = "claimed", !.agent = c.agent]
    [] c.op = "release" -> [c.row EXCEPT !.status = "pending", !.agent = Nobody]
    [] c.op = "agent_reject" -> [c.row EXCEPT !.status = "rejected", !.by = "agent"]

FinishAgentOp(s) ==
  /\ call[s].op \in {"claim", "release", "agent_reject"}
  /\ wd' = [wd EXCEPT ![call[s].id] = AfterAgentOp(call[s])]
  /\ Done(s) /\ UNCHANGED <<wallet, ledger>>

FinishProof(s) ==
  LET c == call[s] IN
  /\ c.op = "proof"
  /\ SaveRow(s, [c.row EXCEPT !.status = "awaiting_verification", !.ref = c.ref, !.fee = c.fee,
                             !.by = "agent"])
  /\ Done(s) /\ UNCHANGED <<wallet, ledger>>

WasReserved(s) == SeenWallet(s).reserved >= Amount[call[s].id]
Unreserved(s) == Locked(s).reserved >= Amount[call[s].id]

\* settleWithdrawalPayout: two keyed credits.  A key its user has already used
\* is answered from the snapshot, or fails on the unique index.
FeeTo(c) == IF c.op = "complete" THEN House ELSE c.agent
Credits(c) ==
  {Entry(c.id, "receipt", c.agent, Amount[c.id] - c.fee)} \cup
  (IF c.fee > 0 THEN {Entry(c.id, "fee", FeeTo(c), c.fee)} ELSE {})
SameKey(d, e) == d.kind = e.kind /\ d.to = e.to
FreshUnlessSeen(c, e) == e \notin c.custody
Fresh(c, e) == ~\E d \in Custody(c.id) : SameKey(d, e)
Replayed(c, e) == e \in c.custody
SettleWithdrawalPayout(c) ==
  /\ c.agent # Nobody         \* idempotency_records.userId is not null
  /\ \A e \in Credits(c) : Fresh(c, e) \/ Replayed(c, e)
  /\ Post({e \in Credits(c) : Fresh(c, e)})

PaidRow(c) ==
  CASE c.op = "approve" -> [c.row EXCEPT !.status = "completed", !.by = "admin"]
    [] c.op = "verify_approve" -> [c.row EXCEPT !.status = "completed"]
    [] c.op = "complete" -> [c.row EXCEPT !.status = "completed", !.agent = c.agent,
                                          !.ref = c.ref, !.fee = c.fee, !.by = "admin"]

\* processWithdrawal approve, verifyAgentWithdrawal approve, adminCompleteWithdrawal.
FinishPayout(s) ==
  LET c == call[s] IN
  /\ c.op \in {"approve"} \cup PayingOps /\ Unreserved(s)
  /\ MoveTo(s, Locked(s).avail, Locked(s).reserved - Amount[c.id])
  /\ SaveRow(s, PaidRow(c))
  /\ IF c.op = "approve" THEN UNCHANGED ledger ELSE SettleWithdrawalPayout(c)
  /\ Done(s)

\* processWithdrawal reject, verifyAgentWithdrawal reject.
LessReserved(s) == Locked(s).reserved - Amount[call[s].id]
FinishRefund(s) ==
  LET c == call[s]  n == Amount[c.id] IN
  /\ c.op \in RefundingOps /\ Unreserved(s)
  /\ MoveTo(s, Locked(s).avail + n, LessReserved(s))
  /\ SaveRow(s, [c.row EXCEPT !.status = "rejected", !.by = IF c.op = "reject" THEN "admin" ELSE @])
  /\ Post({Entry(c.id, "refund", Owner[c.id], n)})
  /\ Done(s)

\* A second half that does not happen: its check fails, InnoDB aborts it, the
\* process dies.  Nothing was written.
End(s) ==
  /\ call[s] # NoCall /\ Done(s)
  /\ UNCHANGED <<wd, wallet, ledger>>

Next ==
  \E s \in Sessions :
    \/ \E w \in Ids :
         \/ RequestWithdrawal(s, w) \/ ProcessWithdrawal(s, w) \/ VerifyAgentWithdrawal(s, w)
         \/ \E a \in Agents :
              \/ ClaimWithdrawal(s, w, a) \/ ReleaseWithdrawal(s, w, a) \/ RejectWithdrawalByAgent(s, w, a)
              \/ \E ref \in Refs, fee \in Fees :
                   \/ RecordAgentWithdrawalProof(s, w, a, ref, fee)
                   \/ AdminCompleteWithdrawal(s, w, a, ref, fee)
    \/ FinishRequest(s) \/ FinishAgentOp(s) \/ FinishProof(s)
    \/ FinishPayout(s) \/ FinishRefund(s) \/ End(s)

Spec == Init /\ [][Next]_vars

-----------------------------------------------------------------------------

Times(w, kind) == SumFunctionOnSet(ledger, {e \in BagToSet(ledger) : e.id = w /\ e.kind = kind})
Of(p) == {w \in Ids : Owner[w] = p}
IsOpen(w) == wd[w].status \notin {"none", "completed", "rejected"}
EndedByAgent(w) == wd[w].status = "rejected" /\ wd[w].ref = Nobody /\ wd[w].by = "agent"

\* The available balance is what the ledger adds up to.
Explained(p) ==
  wallet[p].avail =
    Funds + SumFunctionOnSet([w \in Of(p) |-> Amount[w] * (Times(w, "refund") - Times(w, "hold"))], Of(p))

\* What is reserved is what the open requests still hold, plus what is `stuck`.
Backed(p, stuck) ==
  wallet[p].reserved = SumFunctionOnSet(Amount, {w \in Of(p) : IsOpen(w) \/ w \in stuck})

\* What the ledger credits to any of `to` for the payout of a request.
Paid(w, to) ==
  LET paid == {e \in Custody(w) : e.to \in to} IN SumFunctionOnSet([e \in paid |-> e.n * ledger[e]], paid)
Held(w) == Amount[w] * Times(w, "hold")
GivenUp(w) == Amount[w] * Times(w, "refund") + Paid(w, Agents \cup {House})

SameReference(v, w) ==
  /\ wd[v].ref = wd[w].ref /\ wd[v].ref # Nobody
  /\ {wd[v].status, wd[w].status} \subseteq {"awaiting_verification", "completed"}

\* settleWithdrawalPayout's idempotency keys: no user is credited twice for the
\* same part of a withdrawal, whatever settlements race.
CustodyOnce ==
  \A w \in Ids : \A d, e \in Custody(w) : ledger[e] = 1 /\ (SameKey(d, e) => d = e)
=============================================================================
