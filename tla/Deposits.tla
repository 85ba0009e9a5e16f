------------------------------ MODULE Deposits ------------------------------
(***************************************************************************)
(* Deposits by receipt: submitTelebirrReceipt and submitMpesaSms of        *)
(* src/src/payments/payments.service.ts with the verifiers they call.  A   *)
(* receipt is looked up, loaded and judged in steps that await a remote    *)
(* service, a failure is recorded under the unique number, and the credit  *)
(* is a transaction.  What it moves in the wallets, and from whose, is a   *)
(* deposit script of module Wallet.                                        *)
(***************************************************************************)
EXTENDS Accounts

CONSTANTS
  Receipts, Mpesa, Payee,       \* those of M-PESA, the others are of Telebirr; the agent paid
  PortalStrict,                 \* an outage of the M-PESA portal blocks the deposit
  Desks, MaxLookups

VARIABLES
  deposits,    \* the row of each receipt
  credits,     \* the movements of deposits
  lookup,      \* lookup[d]: the request the desk d is at, or None
  old,         \* receipts past their half hour
  lookups
depositvars == <<uservars, deposits, credits, lookup, old, lookups>>

NoRow == [status |-> "none"]
\* receiptNo and confirmationCode are unique columns.
AnyRow(r) == TRUE
Free(r) == deposits[r] = NoRow

At(d, step) == lookup[d] # None /\ lookup[d].do = step
Goto(d, step) == lookup' = [lookup EXCEPT ![d].do = step]
Leave(d) == lookup' = [lookup EXCEPT ![d] = None]
Reading(d) == UNCHANGED <<uservars, deposits, credits, old, lookups>>
Telebirr(d) == lookup[d].receipt \notin Mpesa

\* A preview, or the submission.
VerifyReceipt(d, p, r) ==
  /\ lookup[d] = None /\ lookups < MaxLookups /\ lookups' = lookups + 1
  /\ Free(r)
  /\ \E preview \in BOOLEAN : lookup' = [lookup EXCEPT ![d] =
       [do |-> IF r \in Mpesa THEN "judge" ELSE "load", receipt |-> r, user |-> p, preview |-> preview]]
  /\ UNCHANGED <<uservars, deposits, credits, old>>

LoadReceipt(d) == At(d, "load") /\ (Goto(d, "judge") \/ Leave(d)) /\ Reading(d)

\* A preview ends here, and so does a receipt below the minimum deposit.
Verified(d) == Leave(d) \/ (~lookup[d].preview /\ Goto(d, "open"))

Acceptable(r) == r \notin old /\ Active(Payee[r]) /\ users[Payee[r]].permit
VerifyParsed(d) ==
  /\ At(d, "judge") /\ Reading(d)
  /\ IF ~Acceptable(lookup[d].receipt) THEN Goto(d, "refused")
     ELSE IF Telebirr(d) THEN Verified(d) ELSE Goto(d, "portal")

CrossCheckPortal(d) ==
  /\ At(d, "portal") /\ Reading(d)
  /\ \/ Verified(d)                                     \* confirmed
     \/ Goto(d, "refused")                              \* not found, or it says otherwise
     \/ IF PortalStrict THEN Goto(d, "refused") ELSE Verified(d)    \* an outage

Credited(d) == [status |-> "credited", user |-> lookup[d].user]
Rejected(d) == [status |-> "rejected", user |-> lookup[d].user]

\* saveRejected, whatever the error was; an error of its own is ignored.
SaveRejected(d) ==
  LET r == lookup[d].receipt IN
  /\ At(d, "refused")
  /\ deposits' = IF Free(r) THEN [deposits EXCEPT ![r] = Rejected(d)] ELSE deposits
  /\ Leave(d) /\ UNCHANGED <<uservars, credits, old, lookups>>

\* The transaction: its snapshot shows no row, or the one that answers the request.
FindExisting(d) ==
  /\ At(d, "open") /\ Reading(d)
  /\ IF Free(lookup[d].receipt) THEN Goto(d, "credit") ELSE Leave(d)

\* Row, credit and link commit together; on a row inserted meanwhile nothing does.
CreditDeposit(d) ==
  LET r == lookup[d].receipt
      p == lookup[d].user IN
  /\ At(d, "credit") /\ Leave(d) /\ UNCHANGED <<errand, errands, old, lookups>>
  /\ IF Free(r)
     THEN /\ deposits' = [deposits EXCEPT ![r] = Credited(d)]
          /\ credits' = credits \cup {[receipt |-> r, to |-> p]}
          /\ users' = Linked(p, Payee[r])
     ELSE UNCHANGED <<deposits, credits, users>>

\* A wallet is short, a deadlock, a process that dies.
Abandon(d) == lookup[d] # None /\ Leave(d) /\ Reading(d)

Expire(r) == r \notin old /\ old' = old \cup {r} /\ UNCHANGED <<uservars, deposits, credits, lookup, lookups>>

Init ==
  /\ AccountsInit /\ deposits = [r \in Receipts |-> NoRow] /\ credits = {}
  /\ lookup = [d \in Desks |-> None] /\ old = {} /\ lookups = 0
Next ==
  \/ AccountsNext /\ UNCHANGED <<deposits, credits, lookup, old, lookups>>
  \/ \E d \in Desks :
       \/ \E p \in Players, r \in Receipts : VerifyReceipt(d, p, r)
       \/ LoadReceipt(d) \/ VerifyParsed(d) \/ CrossCheckPortal(d) \/ SaveRejected(d)
       \/ FindExisting(d) \/ CreditDeposit(d) \/ Abandon(d)
  \/ \E r \in Receipts : Expire(r)
=============================================================================
