--------------------------- MODULE MCWithdrawals ---------------------------
(* Small instances of Withdrawals, and what holds unless calls overlap.    *)
EXTENDS Withdrawals

CONSTANT p1

\* Equal requests of one player: one's reservation can cover the other's settlement.
MCOwner == [w \in Ids |-> p1]
MCAmount == [w \in Ids |-> 2]

VARIABLES
  stale,     \* withdrawals a call wrote to after the row it had read was changed
  skipped    \* players of whom save left out a wallet column that had moved
mcvars == <<vars, stale, skipped>>

Wrote == <<wd, wallet, ledger>>' # <<wd, wallet, ledger>>
Finishing == {s \in Sessions : Wrote /\ call[s] # NoCall /\ call'[s] = NoCall}
Late == {s \in Finishing : wd[call[s].id] # call[s].row}
Unmoved(s, f) == LET p == Owner[call[s].id] IN wallet'[p][f] = wallet[p][f]
Skip == {s \in Finishing :
  \/ call[s].op \notin AgentOps /\ Unmoved(s, "reserved")
  \/ call[s].op \in {"request"} \cup RefundingOps /\ Unmoved(s, "avail")}

MCInit == Init /\ stale = {} /\ skipped = {}
MCNext ==
  /\ Next
  /\ stale' = stale \cup {call[s].id : s \in Late}
  /\ skipped' = skipped \cup {Owner[call[s].id] : s \in Skip}
MCSpec == MCInit /\ [][MCNext]_mcvars

\* Wallet.availableMinor and reservedMinor: unless save left a moved column out, the available
\* balance is what the ledger adds up to and, once no call was late, the reserved one is what
\* the open requests hold, with those an agent rejected.
WalletExplained ==
  \A p \in Players \ skipped :
    /\ Explained(p)
    /\ Of(p) \cap stale = {} => Backed(p, {w \in Of(p) : EndedByAgent(w)})

\* The two settlements, whatever calls overlap: what is still reserved, what was refunded and
\* what was paid out for a player's requests together never exceed what they held; so a second
\* settlement of one request can only spend the reservation of another.
PaidFromReserve ==
  \A p \in Players \ skipped :
    /\ wallet[p].reserved >= 0
    /\ wallet[p].reserved + SumFunctionOnSet([w \in Of(p) |-> GivenUp(w)], Of(p))
         <= SumFunctionOnSet([w \in Of(p) |-> Held(w)], Of(p))

\* "Checked inside the transaction so two concurrent submissions can't both slip through":
\* one payout reference is never accepted from agents for two withdrawals.
ProofsUnique ==
  \A v, w \in Ids : SameReference(v, w) /\ wd[v].by = "agent" /\ wd[w].by = "agent" => v = w
=============================================================================
