-------------------------- MODULE AgentSettlement ---------------------------
(***************************************************************************)
(* Settlements of one agent's earnings: requestSettlement,                 *)
(* createSettlement and updateSettlement of                                *)
(* src/src/agents/agents.service.ts.  A request is checked, its period     *)
(* read and its row inserted in three separate steps.                      *)
(* Time counts half seconds: entries of the ledger keep fractions, the     *)
(* columns of a period are rounded to seconds.                             *)
(***************************************************************************)
EXTENDS Integers, Sequences, FiniteSets, FiniteSetsExt

CONSTANTS Requests, None, MaxTime, MaxSettlements

VARIABLES
  now,
  earnings,     \* earnings[t]: "none", "made" in a transaction that is open, or "committed"
  settlements,  \* the rows, in the order of their insertion
  request       \* request[s]: what the request s goes on with, or None
vars == <<now, earnings, settlements, request>>

Rounded(t) == 2 * ((t + 1) \div 2)
Counted(from, to) == {t \in DOMAIN earnings : earnings[t] = "committed" /\ from <= t /\ t < to}

Rows(statuses) == {i \in DOMAIN settlements : settlements[i].status \in statuses}
AnyStatus == {"paid", "pending", "approved", "rejected"}
Claiming == {"paid", "pending", "approved"}
Claimed == MapThenSumSet(LAMBDA i : settlements[i].amount, Rows(Claiming))
Goto(s, next) == request' = [request EXCEPT ![s] = next]

\* Commissions and fees: the time of an entry is that of its INSERT.
Earn ==
  /\ earnings[now] = "none" /\ earnings' = [earnings EXCEPT ![now] = "made"] /\ UNCHANGED <<now, settlements, request>>
Commit(t) ==
  /\ earnings[t] = "made" /\ earnings' = [earnings EXCEPT ![t] = "committed"] /\ UNCHANGED <<now, settlements, request>>
Clock == now < MaxTime /\ now' = now + 1 /\ UNCHANGED <<earnings, settlements, request>>

\* getSettlementEligibility, without a cool-down.
CheckEligibility(s) ==
  /\ request[s] = None /\ Len(settlements) < MaxSettlements
  /\ Rows({"pending", "approved"}) = {} /\ Cardinality(Counted(0, MaxTime + 1)) > Claimed
  /\ Goto(s, [do |-> "period"]) /\ UNCHANGED <<now, earnings, settlements>>

\* From the end of the last one that claims, up to now.
LastEndOfAny == Max({0} \cup {settlements[i].to : i \in Rows(AnyStatus)})
LastEnd == Max({0} \cup {settlements[i].to : i \in Rows(Claiming)})
ReadPeriod(s) ==
  /\ request[s] # None /\ request[s].do = "period"
  /\ Goto(s, [do |-> "insert", from |-> LastEnd, to |-> now, counted |-> Counted(LastEnd, now)])
  /\ UNCHANGED <<now, earnings, settlements>>

Insert(c) == settlements' = Append(settlements,
  [to |-> Rounded(c.to), counted |-> c.counted, amount |-> Cardinality(c.counted), status |-> "pending"])

InsertSettlement(s) ==
  /\ request[s] # None /\ request[s].do = "insert"
  /\ Insert(request[s]) /\ Goto(s, None) /\ UNCHANGED <<now, earnings>>

\* An administrator settles any period.
CreateSettlement(from, to) ==
  /\ Len(settlements) < MaxSettlements
  /\ Insert([to |-> to, counted |-> Counted(from, to)]) /\ UNCHANGED <<now, earnings, request>>

\* updateSettlement: an administrator sets any status, and any amount: here that or none.
UpdateSettlement(i) ==
  /\ \E status \in AnyStatus, amount \in {0, settlements[i].amount} :
       settlements' = [settlements EXCEPT ![i].status = status, ![i].amount = amount]
  /\ UNCHANGED <<now, earnings, request>>

Init ==
  /\ now = 0 /\ earnings = [t \in 0..MaxTime |-> "none"] /\ settlements = <<>>
  /\ request = [s \in Requests |-> None]

Next ==
  \/ Earn \/ Clock \/ \E t \in 0..MaxTime : Commit(t)
  \/ \E s \in Requests : CheckEligibility(s) \/ ReadPeriod(s) \/ InsertSettlement(s)
  \/ \E from, to \in 0..MaxTime : from < to /\ CreateSettlement(from, to)
  \/ \E i \in DOMAIN settlements : UpdateSettlement(i)
=============================================================================
