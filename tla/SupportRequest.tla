--------------------------- MODULE SupportRequest ---------------------------
(***************************************************************************)
(* One refund request of a player: approveRefundRequest and rejectRequest  *)
(* of src/src/support/support.service.ts.  The credit is a transaction of  *)
(* its own; the message is read before it and saved whole after it.        *)
(***************************************************************************)
EXTENDS Integers

CONSTANTS Deciders, None, Asked    \* Asked: the amount the player asked for

VARIABLES
  message,   \* the row: status and refunded amount
  refunds,   \* the movements of sourceType support_refund for it
  decision   \* decision[d]: what the agent d goes on with, or None
vars == <<message, refunds, decision>>

Goto(d, next) == decision' = [decision EXCEPT ![d] = next]
Doing(d, what) == decision[d] # None /\ decision[d].do = what
Undecided == message.status = "pending"

\* requireRequestMessage and the checks of the amount.
ReadToApprove(d) ==
  /\ decision[d] = None /\ Undecided
  /\ \E amount \in 1..Asked : Goto(d, [do |-> "credit", amount |-> amount])
  /\ UNCHANGED <<message, refunds>>

\* One key per request: the same agent and amount again are answered from the record,
\* another amount or agent is refused.
SameAgentDiffers(movement) == \E r \in refunds : r.by = movement.by /\ r # movement
Refused(movement) == \E r \in refunds : r # movement

CreditFromMasterWallet(d) ==
  LET movement == [amount |-> decision[d].amount, by |-> d] IN
  /\ Doing(d, "credit") /\ UNCHANGED message
  /\ IF Refused(movement)
     THEN UNCHANGED refunds /\ Goto(d, None)
     ELSE refunds' = refunds \cup {movement} /\ Goto(d, [do |-> "approve", amount |-> movement.amount])

SaveApproval(d) ==
  /\ Doing(d, "approve") /\ Goto(d, None) /\ UNCHANGED refunds
  /\ message' = [status |-> "approved", amount |-> decision[d].amount]

ReadToReject(d) ==
  /\ decision[d] = None /\ Undecided /\ Goto(d, [do |-> "reject"]) /\ UNCHANGED <<message, refunds>>

\* The object read while the request was pending names no refund, and is saved so.
SaveRejection(d) ==
  /\ Doing(d, "reject") /\ Goto(d, None) /\ UNCHANGED refunds
  /\ message' = [status |-> "rejected", amount |-> 0]

\* The master wallet is short, or the process dies before or after the credit.
Abandon(d) == decision[d] # None /\ Goto(d, None) /\ UNCHANGED <<message, refunds>>

Init ==
  /\ message = [status |-> "pending", amount |-> 0] /\ refunds = {}
  /\ decision = [d \in Deciders |-> None]
Next ==
  \E d \in Deciders : \/ ReadToApprove(d) \/ CreditFromMasterWallet(d) \/ SaveApproval(d)
                      \/ ReadToReject(d) \/ SaveRejection(d) \/ Abandon(d)
=============================================================================
