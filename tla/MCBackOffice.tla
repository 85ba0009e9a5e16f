---------------------------- MODULE MCBackOffice ----------------------------
(***************************************************************************)
(* What agents and administrators do, one workflow in each behaviour:      *)
(* withdrawals, settlements of an agent's earnings, a refund request, a    *)
(* broadcast, deposits with the rows of their users.  What holds of each   *)
(* unless its calls overlap in ways the history variables tell.            *)
(***************************************************************************)
EXTENDS MCWithdrawals, Sequences, TLC

CONSTANTS Staff, None, Asked, MaxTime, MaxSettlements, MaxSends, MaxAdminCalls, MaxCrashes,
  Depositors, Receipts, Mpesa, PortalStrict, MaxErrands, MaxLookups,
  Setups    \* of "withdrawals", "settlements", "support", "broadcast", "deposits", "users"

ASSUME OfficeAssumption == MaxTime \in Nat
ASSUME NoneAssumption == None \notin [do : {"insert"}, from : Nat, to : Nat, counted : SUBSET Nat]

VARIABLES
  setup,                                  \* the one of this behaviour
  now, earnings, settlements, request,    \* AgentSettlement
  excused,                                \* earnings that a settlement may count twice or miss
  message, refunds, decision,             \* SupportRequest
  row, silent, loop, cancelling, admin, tick, sends, asks, crashes,    \* Broadcast
  overtaken,                              \* a row of a running send was saved or deleted by another
  users, errand, errands, deposits, credits, lookup, old, lookups,    \* Deposits
  first,                                  \* the first agent a player was attributed to
  overwritten                             \* users whose row was saved whole over a later change

Agent == INSTANCE AgentSettlement WITH Requests <- Staff
Support == INSTANCE SupportRequest WITH Deciders <- Staff
Sending == INSTANCE Broadcast WITH Instances <- Staff, MaxCalls <- MaxAdminCalls, calls <- asks, stale <- silent

Payee == CHOOSE agentOf \in [Receipts -> Agents] : \A a \in Agents : \E r \in Receipts : agentOf[r] = a
Paying == INSTANCE Deposits WITH Players <- Depositors, Callers <- Staff, Desks <- Staff

withdrawals == mcvars
agency == <<now, earnings, settlements, request, excused>>
support == <<message, refunds, decision>>
broadcast == <<row, silent, loop, cancelling, admin, tick, sends, asks, crashes, overtaken>>
accounts == <<users, errand, errands, deposits, credits, lookup, old, lookups, first, overwritten>>
officevars == <<setup, withdrawals, agency, support, broadcast, accounts>>

\* Late commits, the fraction of a second cut off, two requests at once, and whatever an
\* administrator settles or changes but the status of the last settlement.
Seen(t) ==
  \/ \E i \in DOMAIN settlements : t < settlements[i].to
  \/ \E s \in Staff : request[s] # None /\ (request[s].do = "period" => t < now) /\ (request[s].do = "insert" => t < request[s].to)
LateCommits == {t \in DOMAIN earnings : earnings'[t] = "committed" /\ earnings[t] # "committed" /\ Seen(t)}
Cut == {request[s].to : s \in {q \in Staff : request'[q] = None /\ request[q] # None}}
TwoAtOnce == Cardinality({s \in Staff : request'[s] # None}) > 1
Last(i) == i = Len(settlements) /\ \A s \in Staff : request[s] = None
ByHand ==
  \/ settlements' # settlements /\ request' = request /\ Len(settlements') > Len(settlements)
  \/ \E i \in DOMAIN settlements : settlements'[i].status # settlements[i].status /\ ~Last(i)
Excuses == excused' = excused \cup (IF TwoAtOnce \/ ByHand THEN DOMAIN earnings ELSE LateCommits \cup Cut)

\* A save or a delete over a row that has changed since it was read, or a recovery of a
\* row whose dispatch is alive.
Overtakes ==
  \/ \E p \in Staff : admin[p] # None /\ admin'[p] = None /\ crashes' = crashes /\ admin[p].op # "sendNow" /\ row # admin[p].row
  \/ \E p \in Staff : tick[p] # None /\ tick'[p] = None /\ crashes' = crashes /\ tick[p].do = "recover"
                      /\ (row # tick[p].row \/ \E i \in DOMAIN loop : loop[i] # None)

\* Whoever asks to attribute a player in this step, and whoever was the first.
Attributing ==
  {[player |-> c.to, agent |-> Payee[c.receipt]] : c \in credits' \ credits} \cup
  {[player |-> errand[s].id, agent |-> errand[s].agent] : s \in {x \in Staff : Paying!Doing(x, "link") /\ errand'[x] = None}}
Overwriting == {errand[s].id : s \in {x \in Staff : Paying!Doing(x, "save") /\ errand'[x] = None /\ users[errand[x].id] # errand[x].row}}
Attributions ==
  /\ first' = [p \in Depositors |->
       IF first[p] = Nobody /\ \E x \in Attributing : x.player = p THEN (CHOOSE x \in Attributing : x.player = p).agent ELSE first[p]]
  /\ overwritten' = overwritten \cup Overwriting

OfficeInit ==
  /\ setup \in Setups
  /\ MCInit /\ Agent!Init /\ excused = {} /\ Support!Init /\ overtaken = FALSE
  /\ Sending!Init /\ Paying!Init /\ first = [p \in Depositors |-> Nobody] /\ overwritten = {}
  /\ setup # "broadcast" => row = CHOOSE r \in Sending!Created : TRUE
OfficeNext ==
  /\ UNCHANGED setup
  /\ \/ setup = "withdrawals" /\ MCNext /\ UNCHANGED <<agency, support, broadcast, accounts>>
     \/ setup = "settlements" /\ excused # DOMAIN earnings /\ Agent!Next /\ Excuses /\ UNCHANGED <<withdrawals, support, broadcast, accounts>>
     \/ setup = "support" /\ Support!Next /\ UNCHANGED <<withdrawals, agency, broadcast, accounts>>
     \/ setup = "broadcast" /\ ~overtaken /\ Sending!Next /\ overtaken' = (overtaken \/ Overtakes) /\ UNCHANGED <<withdrawals, agency, support, accounts>>
     \/ setup = "deposits" /\ Paying!Next /\ errands' <= 1 /\ Attributions /\ UNCHANGED <<withdrawals, agency, support, broadcast>>
     \/ setup = "users" /\ Paying!Next /\ <<lookups, old>>' = <<0, {}>> /\ Attributions /\ UNCHANGED <<withdrawals, agency, support, broadcast>>
StaffAlike == Permutations(Staff)
OfficeSpec == OfficeInit /\ [][OfficeNext]_officevars

-----------------------------------------------------------------------------
\* requestSettlement: what was earned before the end of the last period is in exactly one
\* settlement that was not rejected, if it was not excused.
EarningsClaimedOnce ==
  LET claiming == Agent!Rows(Agent!Claiming) IN
  \A t \in Agent!Counted(0, MaxTime + 1) \ excused :
    (\E i \in claiming : t < settlements[i].to) => Cardinality({i \in claiming : t \in settlements[i].counted}) = 1

\* approveRefundRequest: however often and by whomever it is decided, one refund is paid, and
\* an approved request shows the amount that was.
ApprovedPaid ==
  /\ Cardinality(refunds) <= 1
  /\ message.status = "approved" => \E r \in refunds : r.amount = message.amount

\* "delivery is exactly-once even if the lock ever overlaps": two dispatches never run at
\* once unless the row of one of them was overwritten.
OneSendAtATime == overtaken \/ Cardinality({i \in DOMAIN loop : loop[i] # None}) <= 1

\* submitTelebirrReceipt, submitMpesaSms: however previews and submissions of two players
\* overlap, a receipt is credited to the player of its row, once, and not at all if it was
\* rejected.
ReceiptsPaidOnce ==
  \A r \in Receipts :
    {c \in credits : c.receipt = r} =
      IF deposits[r].status = "credited" THEN {[receipt |-> r, to |-> deposits[r].user]} ELSE {}

\* "Never reassigned once set", "at most one agent is ever manually pinned on": the player
\* stays with the first agent to attribute him, by a deposit or a code, and two agents are
\* never pinned on duty, unless a row read before was saved over a later change.
AttributionsKept ==
  /\ \A p \in Depositors \ overwritten : users[p].link = first[p]
  /\ overwritten \cap Agents = {} => Cardinality({a \in Agents : users[a].mode = "on"}) <= 1
=============================================================================
