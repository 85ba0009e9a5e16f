-------------------------- MODULE BackOfficeProofs --------------------------
(***************************************************************************)
(* What holds of the workflows of agents and administrators for all staff, *)
(* players, receipts, times and bounds.                                    *)
(***************************************************************************)
EXTENDS MCBackOffice, SetSums, SequenceTheorems

\* A set whose elements are all equal has at most one.
LEMMA AtMostOne == ASSUME NEW S, \A x, y \in S : x = y PROVE Cardinality(S) <= 1
<1>1. CASE S = {}
  BY <1>1, FS_EmptySet
<1>2. CASE S # {}
  <2>1. PICK x \in S : S = {x}
    BY <1>2
  <2> QED BY <2>1, FS_Singleton
<1> QED BY <1>1, <1>2

-----------------------------------------------------------------------------
\* Refund requests.  All movements of a request are one, and whoever goes on to approve
\* it was the one that moved it, or was answered from its record.
Moved(amount) == \E r \in refunds : r.amount = amount
SupportInv ==
  /\ decision = [d \in Staff |-> decision[d]]
  /\ \A r, q \in refunds : r = q
  /\ \A d \in Staff : Support!Doing(d, "approve") => Moved(decision[d].amount)
  /\ message.status = "approved" => Moved(message.amount)

LEMMA SupportStep == SupportInv /\ Support!Next => SupportInv'
<1> SUFFICES ASSUME SupportInv, NEW d \in Staff,
                    \/ Support!ReadToApprove(d) \/ Support!CreditFromMasterWallet(d) \/ Support!SaveApproval(d)
                    \/ Support!ReadToReject(d) \/ Support!SaveRejection(d) \/ Support!Abandon(d)
             PROVE  SupportInv'
  BY DEF Support!Next
<1>1. CASE Support!ReadToApprove(d)
  BY <1>1 DEF SupportInv, Moved, Support!ReadToApprove, Support!Goto, Support!Doing
<1>2. CASE Support!CreditFromMasterWallet(d)
  <2> DEFINE movement == [amount |-> decision[d].amount, by |-> d]
  <2>1. CASE Support!Refused(movement)
    BY <1>2, <2>1 DEF SupportInv, Moved, Support!CreditFromMasterWallet, Support!Goto, Support!Doing
  <2>2. CASE ~Support!Refused(movement)
    <3>1. refunds' = {movement} /\ message' = message
      BY <1>2, <2>2 DEF Support!CreditFromMasterWallet, Support!Refused
    <3>2. decision' = [decision EXCEPT ![d] = [do |-> "approve", amount |-> movement.amount]]
      BY <1>2, <2>2 DEF Support!CreditFromMasterWallet, Support!Goto
    <3>3. \A e \in Staff : Support!Doing(e, "approve")' => (decision'[e].amount = movement.amount \/ (Support!Doing(e, "approve") /\ decision'[e] = decision[e]))
      <4>1. DOMAIN decision = Staff
        BY DEF SupportInv
      <4>2. \A e \in Staff : e # d => decision'[e] = decision[e]
        BY <3>2, <4>1
      <4>3. decision'[d].amount = movement.amount
        BY <3>2, <4>1
      <4> QED BY <4>2, <4>3 DEF Support!Doing
    <3>4. \A amount : Moved(amount) => amount = movement.amount
      BY <2>2 DEF Moved, Support!Refused
    <3>5. \A amount : Moved(amount)' <=> amount = movement.amount
      BY <3>1 DEF Moved
    <3> HIDE DEF movement
    <3>6. decision' = [e \in Staff |-> decision'[e]]
      BY <3>2 DEF SupportInv
    <3> QED BY <3>1, <3>3, <3>4, <3>5, <3>6 DEF SupportInv
  <2> QED BY <2>1, <2>2
<1>3. CASE Support!SaveApproval(d)
  BY <1>3 DEF SupportInv, Moved, Support!SaveApproval, Support!Goto, Support!Doing
<1>4. CASE Support!ReadToReject(d)
  BY <1>4 DEF SupportInv, Moved, Support!ReadToReject, Support!Goto, Support!Doing
<1>5. CASE Support!SaveRejection(d)
  BY <1>5 DEF SupportInv, Moved, Support!SaveRejection, Support!Goto, Support!Doing
<1>6. CASE Support!Abandon(d)
  BY <1>6 DEF SupportInv, Moved, Support!Abandon, Support!Goto, Support!Doing
<1> QED BY <1>1, <1>2, <1>3, <1>4, <1>5, <1>6

-----------------------------------------------------------------------------
\* Deposits and the rows of users.
IsRow(x) == x = [status |-> x.status, link |-> x.link, mode |-> x.mode, permit |-> x.permit]
IsEdit(e) == e = [f \in DOMAIN e |-> e[f]] /\ DOMAIN e \subseteq {"status", "permit"}

UserRows ==
  /\ users = [u \in Paying!Users |-> users[u]] /\ \A u \in Paying!Users : IsRow(users[u])
  /\ errand = [s \in Staff |-> errand[s]]
  /\ \A s \in Staff :
       /\ Paying!Doing(s, "save") => errand[s].id \in Paying!Users /\ IsRow(errand[s].row) /\ IsEdit(errand[s].edit)
       /\ Paying!Doing(s, "duty") => errand[s].id \in Agents
       /\ Paying!Doing(s, "link") => errand[s].id \in Depositors
IsLookup(x) ==
  /\ x = [do |-> x.do, receipt |-> x.receipt, user |-> x.user, preview |-> x.preview]
  /\ x.receipt \in Receipts /\ x.user \in Depositors
Lookups ==
  /\ deposits = [r \in Receipts |-> deposits[r]]
  /\ lookup = [s \in Staff |-> lookup[s]]
  /\ \A s \in Staff : lookup[s] # None => IsLookup(lookup[s])
LinksKept == \A p \in Depositors \ overwritten : users[p].link = first[p]
OneOnDuty ==
  overwritten \cap Agents = {} => \A a, b \in Agents : users[a].mode = "on" /\ users[b].mode = "on" => a = b
AccountsInv == UserRows /\ Lookups /\ ReceiptsPaidOnce /\ LinksKept /\ OneOnDuty

LEMMA EditedRow ==
  ASSUME NEW x, NEW e, IsRow(x), IsEdit(e)
  PROVE  IsRow(Paying!Edited(x, e)) /\ Paying!Edited(x, e).link = x.link /\ Paying!Edited(x, e).mode = x.mode
<1> DEFINE y == Paying!Edited(x, e)
<1>1. DOMAIN x = {"status", "link", "mode", "permit"}
  BY DEF IsRow
<1>2. y.link = x.link /\ y.mode = x.mode
  BY <1>1 DEF IsEdit, Paying!Edited
<1>3. y = [f \in {"status", "link", "mode", "permit"} |-> y[f]]
  BY <1>1 DEF Paying!Edited
<1> HIDE DEF y
<1>4. IsRow(y)
  BY <1>3 DEF IsRow
<1> QED BY <1>2, <1>4 DEF y

\* Nobody is attributed and no row is saved in a step that ends no errand and credits nothing.
LEMMA QuietAttributions ==
  ASSUME Attributions, credits' = credits, \A s \in Staff : errand'[s] = None => errand[s] = None
  PROVE  overwritten' = overwritten /\ \A p \in Depositors : first'[p] = first[p]
<1>1. Attributing = {}
  BY DEF Attributing, Paying!Doing
<1>2. Overwriting = {}
  BY DEF Overwriting, Paying!Doing
<1> QED BY <1>1, <1>2 DEF Attributions

\* A call that begins has read a row at most.
LEMMA BeginStep ==
  ASSUME AccountsInv, Attributions, NEW s \in Staff, NEW next, Paying!Begin(s, next),
         UNCHANGED <<deposits, credits, lookup>>,
         next.do = "save" => next.id \in Paying!Users /\ IsRow(next.row) /\ IsEdit(next.edit),
         next.do = "duty" => next.id \in Agents,
         next.do = "link" => next.id \in Depositors
  PROVE  AccountsInv'
<1>1. users' = users /\ errand[s] = None /\ errand' = [errand EXCEPT ![s] = next]
  BY DEF Paying!Begin
<1>2. errand' = [c \in Staff |-> IF c = s THEN next ELSE errand[c]]
  BY <1>1 DEF AccountsInv, UserRows
<1>3. overwritten' = overwritten /\ \A p \in Depositors : first'[p] = first[p]
  BY <1>1, <1>2, QuietAttributions
<1>4. UserRows'
  BY <1>1, <1>2 DEF AccountsInv, UserRows, Paying!Doing
<1>5. Lookups' /\ ReceiptsPaidOnce' /\ LinksKept' /\ OneOnDuty'
  BY <1>1, <1>3 DEF AccountsInv, Lookups, ReceiptsPaidOnce, LinksKept, OneOnDuty
<1> QED BY <1>4, <1>5 DEF AccountsInv

\* Exactly the errand of s ends.
EndsErrand(s) == errand[s] # None /\ errand' = [errand EXCEPT ![s] = None]

LEMMA ErrandEnds ==
  ASSUME UserRows, NEW s \in Staff, EndsErrand(s)
  PROVE  /\ errand' = [c \in Staff |-> IF c = s THEN None ELSE errand[c]]
         /\ \A c \in Staff : (errand[c] # None /\ errand'[c] = None) <=> c = s
         /\ \A c \in Staff : \A what : Paying!Doing(c, what)' => Paying!Doing(c, what) /\ errand'[c] = errand[c]
<1>1. errand' = [c \in Staff |-> IF c = s THEN None ELSE errand[c]]
  BY DEF UserRows, EndsErrand
<1> QED BY <1>1 DEF EndsErrand, Paying!Doing

\* A whole row is saved: its link and duty are those of the row that was read, which is the
\* row as it is now, or the user counts as overwritten.
LEMMA SaveStep ==
  ASSUME AccountsInv, Attributions, NEW s \in Staff, Paying!Save(s), UNCHANGED <<deposits, credits, lookup>>
  PROVE  AccountsInv'
<1> DEFINE id == errand[s].id
           new == Paying!Edited(errand[s].row, errand[s].edit)
<1>1. Paying!Doing(s, "save") /\ EndsErrand(s) /\ users' = [users EXCEPT ![id] = new]
  BY DEF Paying!Save, Paying!End, Paying!Doing, EndsErrand
<1>2. id \in Paying!Users /\ IsRow(errand[s].row) /\ IsEdit(errand[s].edit)
  BY <1>1 DEF AccountsInv, UserRows
<1>3. IsRow(new) /\ new.link = errand[s].row.link /\ new.mode = errand[s].row.mode
  BY <1>2, EditedRow
<1>4. Attributing = {}
  BY <1>1, ErrandEnds DEF Attributing, AccountsInv, Paying!Doing
<1>5. \A p \in Depositors : first'[p] = first[p]
  BY <1>4 DEF Attributions
<1>6. overwritten' = overwritten \cup (IF users[id] # errand[s].row THEN {id} ELSE {})
  <2>1. {x \in Staff : Paying!Doing(x, "save") /\ errand'[x] = None /\ users[errand[x].id] # errand[x].row}
          = IF users[id] # errand[s].row THEN {s} ELSE {}
    BY <1>1, ErrandEnds DEF AccountsInv, Paying!Doing
  <2>2. Overwriting = IF users[id] # errand[s].row THEN {id} ELSE {}
    BY <2>1 DEF Overwriting
  <2> QED BY <2>2 DEF Attributions
<1> HIDE DEF new, id
<1>7. users' = [u \in Paying!Users |-> IF u = id THEN new ELSE users[u]]
  BY <1>1, <1>2 DEF AccountsInv, UserRows
<1>8. UserRows'
  BY <1>1, <1>3, <1>7, ErrandEnds DEF AccountsInv, UserRows
<1>9. \A u \in Paying!Users : u \notin overwritten' => u \notin overwritten /\ users'[u].link = users[u].link /\ users'[u].mode = users[u].mode
  BY <1>3, <1>6, <1>7
<1>10. LinksKept' /\ OneOnDuty'
  BY <1>5, <1>6, <1>9 DEF AccountsInv, LinksKept, OneOnDuty, Paying!Users
<1>11. Lookups' /\ ReceiptsPaidOnce'
  BY DEF AccountsInv, Lookups, ReceiptsPaidOnce
<1> QED BY <1>8, <1>10, <1>11 DEF AccountsInv

\* Whoever puts an agent on duty by a write takes all others off.
LEMMA DutyStep ==
  ASSUME AccountsInv, Attributions, NEW s \in Staff, Paying!SetAgentOnDutyMode(s), UNCHANGED <<deposits, credits, lookup>>
  PROVE  AccountsInv'
<1> DEFINE a == errand[s].id
           mode == errand[s].mode
<1>1. Paying!Doing(s, "duty") /\ EndsErrand(s) /\ a \in Agents
  BY DEF Paying!SetAgentOnDutyMode, Paying!End, Paying!Doing, EndsErrand, AccountsInv, UserRows
<1>2. users' = [u \in Paying!Users |->
         IF u = a /\ mode # errand[s].row.mode THEN [users[u] EXCEPT !.mode = mode]
         ELSE IF mode = "on" /\ u \in Paying!Demoted(a) THEN [users[u] EXCEPT !.mode = "auto"] ELSE users[u]]
  BY DEF Paying!SetAgentOnDutyMode
<1>3. Attributing = {} /\ Overwriting = {}
  BY <1>1, ErrandEnds DEF Attributing, Overwriting, AccountsInv, Paying!Doing
<1>4. overwritten' = overwritten /\ \A p \in Depositors : first'[p] = first[p]
  BY <1>3 DEF Attributions
<1> HIDE DEF mode, a
<1>5. \A u \in Paying!Users : IsRow(users'[u]) /\ users'[u].link = users[u].link
  BY <1>2 DEF AccountsInv, UserRows, IsRow
<1>6. UserRows'
  BY <1>1, <1>2, <1>5, ErrandEnds DEF AccountsInv, UserRows
<1>7. LinksKept'
  BY <1>4, <1>5 DEF AccountsInv, LinksKept, Paying!Users
<1>8. OneOnDuty'
  <2>1. CASE mode = "on"
    <3>1. \A u \in Agents : users'[u].mode = "on" => u = a
      BY <1>2, <2>1 DEF AccountsInv, UserRows, IsRow, Paying!Users, Paying!Demoted
    <3> QED BY <3>1 DEF OneOnDuty
  <2>2. CASE mode # "on"
    <3>1. \A u \in Agents : users'[u].mode = "on" => users[u].mode = "on"
      BY <1>2, <2>2 DEF AccountsInv, UserRows, IsRow, Paying!Users
    <3> QED BY <1>4, <3>1 DEF AccountsInv, OneOnDuty
  <2> QED BY <2>1, <2>2
<1>9. Lookups' /\ ReceiptsPaidOnce'
  BY DEF AccountsInv, Lookups, ReceiptsPaidOnce
<1> QED BY <1>6, <1>7, <1>8, <1>9 DEF AccountsInv

LEMMA LinkedRows ==
  ASSUME UserRows, NEW p \in Depositors, NEW a, users' = Paying!Linked(p, a)
  PROVE  /\ users' = [u \in Paying!Users |-> users'[u]]
         /\ \A u \in Paying!Users : IsRow(users'[u]) /\ users'[u].mode = users[u].mode
         /\ \A u \in Paying!Users : users'[u].link = IF u = p THEN Paying!FirstWins(users[u].link, a) ELSE users[u].link
<1>1. users' = [u \in Paying!Users |-> IF u = p THEN [users[u] EXCEPT !.link = Paying!FirstWins(users[u].link, a)] ELSE users[u]]
  BY DEF UserRows, Paying!Linked, Paying!Users
<1>2. users' = [u \in Paying!Users |-> users'[u]]
  BY <1>1
<1>3. \A u \in Paying!Users : IsRow(users'[u]) /\ users'[u].mode = users[u].mode
  BY <1>1 DEF UserRows, IsRow
<1>4. \A u \in Paying!Users : users'[u].link = IF u = p THEN Paying!FirstWins(users[u].link, a) ELSE users[u].link
  BY <1>1 DEF UserRows, IsRow
<1> QED BY <1>2, <1>3, <1>4

\* One agent attributes one player: the link and its history move together.
LEMMA LinkMoves ==
  ASSUME AccountsInv, Attributions, NEW p \in Depositors, NEW a, users' = Paying!Linked(p, a),
         Attributing = {[player |-> p, agent |-> a]}, Overwriting = {}
  PROVE  LinksKept' /\ OneOnDuty'
<1>1. overwritten' = overwritten
  BY DEF Attributions
<1>2. \A q \in Depositors : first'[q] = IF q = p /\ first[q] = Nobody THEN a ELSE first[q]
  <2>1. \A q \in Depositors : (\E x \in Attributing : x.player = q) <=> q = p
    OBVIOUS
  <2>2. (CHOOSE x \in Attributing : x.player = p).agent = a
    <3>1. \E x \in Attributing : x.player = p
      BY <2>1
    <3>2. (CHOOSE x \in Attributing : x.player = p) \in Attributing
      BY <3>1
    <3> QED BY <3>2
  <2> QED BY <2>1, <2>2 DEF Attributions
<1>3. LinksKept'
  BY <1>1, <1>2, LinkedRows DEF AccountsInv, LinksKept, Paying!FirstWins, Paying!Users
<1>4. OneOnDuty'
  BY <1>1, LinkedRows DEF AccountsInv, OneOnDuty, Paying!Users
<1> QED BY <1>3, <1>4

LEMMA ReferralStep ==
  ASSUME AccountsInv, Attributions, NEW s \in Staff, Paying!AttributeReferral(s), UNCHANGED <<deposits, credits, lookup>>
  PROVE  AccountsInv'
<1> DEFINE p == errand[s].id
           a == errand[s].agent
<1>1. Paying!Doing(s, "link") /\ EndsErrand(s) /\ p \in Depositors /\ users' = Paying!Linked(p, a)
  BY DEF Paying!AttributeReferral, Paying!End, Paying!Doing, EndsErrand, AccountsInv, UserRows
<1>2. {x \in Staff : Paying!Doing(x, "link") /\ errand'[x] = None} = {s}
  BY <1>1, ErrandEnds DEF AccountsInv, Paying!Doing
<1>3. Attributing = {[player |-> p, agent |-> a]}
  BY <1>2 DEF Attributing
<1>4. Overwriting = {}
  BY <1>1, ErrandEnds DEF Overwriting, AccountsInv, Paying!Doing
<1> HIDE DEF p, a
<1>5. LinksKept' /\ OneOnDuty'
  BY <1>1, <1>3, <1>4, LinkMoves
<1>6. UserRows'
  BY <1>1, ErrandEnds, LinkedRows DEF AccountsInv, UserRows
<1>7. Lookups' /\ ReceiptsPaidOnce'
  BY DEF AccountsInv, Lookups, ReceiptsPaidOnce
<1> QED BY <1>5, <1>6, <1>7 DEF AccountsInv

\* A desk moves on, or leaves, without writing rows.
LEMMA DeskStep ==
  ASSUME AccountsInv, Attributions, UNCHANGED <<users, errand, deposits, credits>>,
         lookup' = [s \in Staff |-> lookup'[s]],
         \A s \in Staff : lookup'[s] # None => IsLookup(lookup'[s])
  PROVE  AccountsInv'
<1>1. overwritten' = overwritten /\ \A p \in Depositors : first'[p] = first[p]
  BY QuietAttributions
<1> QED BY <1>1 DEF AccountsInv, UserRows, Lookups, ReceiptsPaidOnce, LinksKept, OneOnDuty, Paying!Doing

LEMMA Moves ==
  ASSUME Lookups, NEW s \in Staff, lookup[s] # None,
         Paying!Leave(s) \/ \E step : Paying!Goto(s, step)
  PROVE  /\ lookup' = [d \in Staff |-> lookup'[d]]
         /\ \A d \in Staff : lookup'[d] # None => IsLookup(lookup'[d])
<1>1. CASE Paying!Leave(s)
  BY <1>1 DEF Lookups, Paying!Leave
<1>2. CASE \E step : Paying!Goto(s, step)
  <2>1. PICK step : lookup' = [lookup EXCEPT ![s].do = step]
    BY <1>2 DEF Paying!Goto
  <2>2. lookup' = [d \in Staff |-> IF d = s THEN [lookup[s] EXCEPT !.do = step] ELSE lookup[d]]
    BY <2>1 DEF Lookups
  <2>3. IsLookup([lookup[s] EXCEPT !.do = step])
    BY DEF Lookups, IsLookup
  <2> QED BY <2>2, <2>3 DEF Lookups
<1> QED BY <1>1, <1>2

LEMMA RejectStep ==
  ASSUME AccountsInv, Attributions, NEW s \in Staff, Paying!SaveRejected(s)
  PROVE  AccountsInv'
<1>1. UNCHANGED <<users, errand, credits>> /\ lookup[s] # None /\ Paying!Leave(s)
  BY DEF Paying!SaveRejected, Paying!uservars, Paying!At
<1>2. overwritten' = overwritten /\ \A p \in Depositors : first'[p] = first[p]
  BY <1>1, QuietAttributions
<1>3. UserRows' /\ LinksKept' /\ OneOnDuty'
  BY <1>1, <1>2 DEF AccountsInv, UserRows, LinksKept, OneOnDuty, Paying!Doing
<1>4. \A r \in Receipts : deposits'[r] = deposits[r] \/ (deposits[r].status = "none" /\ deposits'[r].status = "rejected")
  BY DEF AccountsInv, Lookups, Paying!SaveRejected, Paying!Free, Paying!NoRow, Paying!Rejected
<1>5. deposits' = [r \in Receipts |-> deposits'[r]]
  BY DEF AccountsInv, Lookups, Paying!SaveRejected
<1>6. Lookups'
  BY <1>1, <1>5, Moves DEF AccountsInv, Lookups
<1>7. ReceiptsPaidOnce'
  BY <1>1, <1>4 DEF AccountsInv, ReceiptsPaidOnce
<1> QED BY <1>3, <1>6, <1>7 DEF AccountsInv

\* Row, credit and link of a receipt nobody has a row of, or nothing.
LEMMA CreditStep ==
  ASSUME AccountsInv, Attributions, NEW s \in Staff, Paying!CreditDeposit(s)
  PROVE  AccountsInv'
<1> DEFINE r == lookup[s].receipt
           p == lookup[s].user
           credit == [receipt |-> r, to |-> p]
<1>1. errand' = errand /\ lookup[s] # None /\ Paying!Leave(s) /\ r \in Receipts /\ p \in Depositors
  BY DEF Paying!CreditDeposit, Paying!At, AccountsInv, Lookups, IsLookup
<1>2. Overwriting = {}
  BY <1>1 DEF Overwriting, Paying!Doing
<1>3. CASE Paying!Free(r)
  <2>1. /\ deposits' = [deposits EXCEPT ![r] = [status |-> "credited", user |-> p]]
        /\ credits' = credits \cup {credit} /\ users' = Paying!Linked(p, Payee[r])
    BY <1>3 DEF Paying!CreditDeposit, Paying!Credited
  <2>2. deposits[r].status = "none" /\ {c \in credits : c.receipt = r} = {}
    BY <1>1, <1>3 DEF Paying!Free, Paying!NoRow, AccountsInv, ReceiptsPaidOnce
  <2>3. credits' \ credits = {credit}
    BY <2>1, <2>2
  <2>4. Attributing = {[player |-> p, agent |-> Payee[r]]}
    <3>1. {x \in Staff : Paying!Doing(x, "link") /\ errand'[x] = None} = {}
      BY <1>1 DEF Paying!Doing
    <3>2. {[player |-> c.to, agent |-> Payee[c.receipt]] : c \in credits' \ credits} = {[player |-> p, agent |-> Payee[r]]}
      <4> HIDE DEF r, p
      <4>1. credit.to = p /\ credit.receipt = r
        OBVIOUS
      <4> HIDE DEF credit
      <4> QED BY <2>3, <4>1
    <3> QED BY <3>1, <3>2 DEF Attributing
  <2> HIDE DEF r, p
  <2>5. LinksKept' /\ OneOnDuty'
    BY <1>1, <1>2, <2>1, <2>4, LinkMoves
  <2>6. UserRows'
    BY <1>1, <2>1, LinkedRows DEF AccountsInv, UserRows, Paying!Doing
  <2>7. Lookups'
    BY <1>1, <2>1, Moves DEF AccountsInv, Lookups
  <2>8. ReceiptsPaidOnce'
    <3> SUFFICES ASSUME NEW q \in Receipts
                 PROVE  {c \in credits' : c.receipt = q} =
                          IF deposits'[q].status = "credited" THEN {[receipt |-> q, to |-> deposits'[q].user]} ELSE {}
      BY DEF ReceiptsPaidOnce
    <3>1. CASE q = r
      <4>1. {c \in credits' : c.receipt = q} = {credit}
        BY <2>1, <2>2, <3>1
      <4>2. deposits'[q] = [status |-> "credited", user |-> p]
        BY <1>1, <2>1, <3>1 DEF AccountsInv, Lookups
      <4> QED BY <3>1, <4>1, <4>2
    <3>2. CASE q # r
      BY <1>1, <2>1, <3>2 DEF AccountsInv, Lookups, ReceiptsPaidOnce
    <3> QED BY <3>1, <3>2
  <2> QED BY <2>5, <2>6, <2>7, <2>8 DEF AccountsInv
<1>4. CASE ~Paying!Free(r)
  <2>1. UNCHANGED <<users, deposits, credits>>
    BY <1>4 DEF Paying!CreditDeposit
  <2> QED BY <1>1, <2>1, DeskStep, Moves DEF AccountsInv
<1> QED BY <1>3, <1>4

LEMMA AccountsStep == AccountsInv /\ Paying!Next /\ Attributions => AccountsInv'
<1> SUFFICES ASSUME AccountsInv, Paying!Next, Attributions PROVE AccountsInv'
  OBVIOUS
<1>1. ASSUME Paying!AccountsNext, UNCHANGED <<deposits, credits, lookup>> PROVE AccountsInv'
  <2> PICK s \in Staff :
        \/ \E u \in Paying!Users : Paying!UpdateProfile(s, u) \/ Paying!UpdateStatus(s, u)
        \/ \E p \in Depositors : Paying!SetAssignedAgent(s, p) \/ Paying!SetUserLocation(s, p) \/ Paying!FindOrCreateTelegramUser(s, p)
        \/ \E p \in Depositors, a \in Agents : Paying!FindAgentByCode(s, p, a)
        \/ \E a \in Agents : Paying!UpdateAgentUser(s, a) \/ Paying!ReadAgent(s, a)
        \/ Paying!Save(s) \/ Paying!SetAgentOnDutyMode(s) \/ Paying!AttributeReferral(s)
    BY <1>1 DEF Paying!AccountsNext
  <2>1. ASSUME NEW u \in Paying!Users, NEW edit, IsEdit(edit), Paying!ReadToSave(s, u, edit) PROVE AccountsInv'
    <3> DEFINE next == [do |-> "save", id |-> u, row |-> users[u], edit |-> edit]
    <3>1. Paying!Begin(s, next)
      BY <2>1 DEF Paying!ReadToSave
    <3>2. IsRow(users[u])
      BY DEF AccountsInv, UserRows
    <3> QED BY <1>1, <2>1, <3>1, <3>2, BeginStep
  <2>2. IsEdit(Paying!Other) /\ \A x : IsEdit(Paying!Status(x)) /\ IsEdit([permit |-> x])
    BY DEF IsEdit, Paying!Other, Paying!Status
  <2>3. CASE \E u \in Paying!Users : Paying!UpdateProfile(s, u) \/ Paying!UpdateStatus(s, u)
    BY <2>1, <2>2, <2>3 DEF Paying!UpdateProfile, Paying!UpdateStatus
  <2>4. CASE \E p \in Depositors : Paying!SetAssignedAgent(s, p) \/ Paying!SetUserLocation(s, p) \/ Paying!FindOrCreateTelegramUser(s, p)
    BY <2>1, <2>2, <2>4 DEF Paying!SetAssignedAgent, Paying!SetUserLocation, Paying!FindOrCreateTelegramUser, Paying!Users
  <2>5. CASE \E p \in Depositors, a \in Agents : Paying!FindAgentByCode(s, p, a)
    BY <1>1, <2>5, BeginStep DEF Paying!FindAgentByCode
  <2>6. CASE \E a \in Agents : Paying!UpdateAgentUser(s, a)
    <3>1. PICK a \in Agents, edit \in {Paying!Other, [permit |-> FALSE], [permit |-> TRUE]} \cup {Paying!Status(x) : x \in Paying!Statuses} :
            Paying!ReadToSave(s, a, edit)
      BY <2>6 DEF Paying!UpdateAgentUser
    <3>2. IsEdit(edit)
      BY <2>2
    <3> QED BY <2>1, <3>1, <3>2 DEF Paying!Users
  <2>7. CASE \E a \in Agents : Paying!ReadAgent(s, a)
    BY <1>1, <2>7, BeginStep DEF Paying!ReadAgent
  <2> QED BY <1>1, <2>3, <2>4, <2>5, <2>6, <2>7, SaveStep, DutyStep, ReferralStep
<1>2. ASSUME NEW s \in Staff, NEW p \in Depositors, NEW r \in Receipts, Paying!VerifyReceipt(s, p, r) PROVE AccountsInv'
  <2>1. PICK x : lookup' = [lookup EXCEPT ![s] = x] /\ IsLookup(x)
    <3>1. PICK preview \in BOOLEAN : lookup' = [lookup EXCEPT ![s] =
            [do |-> IF r \in Mpesa THEN "judge" ELSE "load", receipt |-> r, user |-> p, preview |-> preview]]
      BY <1>2 DEF Paying!VerifyReceipt
    <3>2. \A do : IsLookup([do |-> do, receipt |-> r, user |-> p, preview |-> preview])
      BY DEF IsLookup
    <3> QED BY <3>1, <3>2
  <2>2. UNCHANGED <<users, errand, deposits, credits>>
    BY <1>2 DEF Paying!VerifyReceipt, Paying!uservars
  <2>3. lookup' = [d \in Staff |-> IF d = s THEN x ELSE lookup[d]]
    BY <2>1 DEF AccountsInv, Lookups
  <2> QED BY <2>1, <2>2, <2>3, DeskStep DEF AccountsInv, Lookups
<1>3. ASSUME NEW s \in Staff, Paying!LoadReceipt(s) \/ Paying!VerifyParsed(s) \/ Paying!CrossCheckPortal(s)
                              \/ Paying!FindExisting(s) \/ Paying!Abandon(s)
      PROVE  AccountsInv'
  <2>1. lookup[s] # None /\ (Paying!Leave(s) \/ \E step : Paying!Goto(s, step))
    BY <1>3 DEF Paying!LoadReceipt, Paying!VerifyParsed, Paying!CrossCheckPortal, Paying!FindExisting, Paying!Abandon,
               Paying!At, Paying!Verified
  <2>2. UNCHANGED <<users, errand, deposits, credits>>
    BY <1>3 DEF Paying!LoadReceipt, Paying!VerifyParsed, Paying!CrossCheckPortal, Paying!FindExisting, Paying!Abandon,
               Paying!Reading, Paying!uservars
  <2> QED BY <2>1, <2>2, DeskStep, Moves DEF AccountsInv
<1>4. ASSUME NEW r \in Receipts, Paying!Expire(r) PROVE AccountsInv'
  BY <1>4, DeskStep DEF Paying!Expire, Paying!uservars, AccountsInv, Lookups
<1> QED BY <1>1, <1>2, <1>3, <1>4, RejectStep, CreditStep DEF Paying!Next

-----------------------------------------------------------------------------
\* Broadcasts.  While nothing was saved over a change, one dispatch at most is alive, the row
\* says sending while one is, and so does the row it goes on with; what an administrator or
\* the scheduler goes on with was not sending when it was read.
IsBroadcast(r) == r = [status |-> r.status, recurs |-> r.recurs, due |-> r.due]
Alive == {i \in DOMAIN loop : loop[i] # None}
BroadcastRows ==
  /\ sends \in Nat /\ loop = [i \in Sending!Dispatches |-> loop[i]]
  /\ admin = [p \in Staff |-> admin[p]] /\ tick = [p \in Staff |-> tick[p]]
  /\ row # None => IsBroadcast(row)
  /\ \A p \in Staff : /\ admin[p] # None => IsBroadcast(admin[p].row) /\ admin[p].row.status # "sending"
                      /\ tick[p] # None => IsBroadcast(tick[p].row)
                      /\ tick[p] # None /\ tick[p].do = "claim" => tick[p].row.status = "scheduled"
                      /\ tick[p] # None /\ tick[p].do # "claim" => tick[p].do = "recover"
  /\ \A i \in Alive : /\ loop[i].at \in {"read", "start", "send"}
                      /\ {"at", "row"} \subseteq DOMAIN loop[i]
                      /\ loop[i].at # "read" => IsBroadcast(loop[i].row)
Alone ==
  /\ \A i, j \in Alive : i = j
  /\ \A i \in Alive : row.status = "sending" /\ (loop[i].at # "read" => loop[i].row.status = "sending")
BroadcastInv == overtaken \/ (BroadcastRows /\ Alone)

\* One dispatch goes on, or ends, and the row stays.
LEMMA LoopStep ==
  ASSUME BroadcastInv, ~overtaken, NEW i \in Sending!Dispatches, loop[i] # None,
         UNCHANGED <<admin, tick, sends>>, row' = row \/ IsBroadcast(row'),
         NEW x, loop' = [loop EXCEPT ![i] = x],
         x # None => /\ {"at", "row"} \subseteq DOMAIN x
                     /\ x.at \in {"read", "start", "send"} /\ row'.status = "sending"
                     /\ x.at # "read" => IsBroadcast(x.row) /\ x.row.status = "sending"
  PROVE  BroadcastInv'
<1>1. loop' = [j \in Sending!Dispatches |-> IF j = i THEN x ELSE loop[j]]
  BY DEF BroadcastInv, BroadcastRows
<1>2. Alive' \subseteq Alive /\ (i \in Alive' => x # None)
  BY <1>1 DEF Alive, BroadcastInv, BroadcastRows
<1>3. Alive' \subseteq {i}
  BY <1>1, <1>2 DEF BroadcastInv, Alone, Alive, BroadcastRows
<1>4. BroadcastRows'
  BY <1>1, <1>2, <1>3 DEF BroadcastInv, BroadcastRows
<1>5. Alone'
  BY <1>1, <1>2, <1>3 DEF Alone
<1> QED BY <1>4, <1>5 DEF BroadcastInv

\* A claim finds the row not sending, so no dispatch is alive; its own is the only one.
LEMMA ClaimStep ==
  ASSUME BroadcastInv, ~overtaken, NEW p \in Staff, NEW seen, seen.status # "sending", Sending!Claim(p, seen),
         \/ admin' = [admin EXCEPT ![p] = None] /\ tick' = tick
         \/ admin' = admin /\ tick' = [tick EXCEPT ![p] = None]
  PROVE  BroadcastInv'
<1>1. admin' = [q \in Staff |-> admin'[q]] /\ \A q \in Staff : admin'[q] # None => admin'[q] = admin[q]
  BY DEF BroadcastInv, BroadcastRows
<1>2. tick' = [q \in Staff |-> tick'[q]] /\ \A q \in Staff : tick'[q] # None => tick'[q] = tick[q]
  BY DEF BroadcastInv, BroadcastRows
<1>3. CASE Sending!Claimable(seen) /\ sends < MaxSends
  <2>1. row # None /\ row.status # "sending" /\ row' = [row EXCEPT !.status = "sending"] /\ sends' = sends + 1
    BY <1>3 DEF Sending!Claimable, Sending!Is, Sending!Claim, Sending!Save, Sending!With
  <2>2. IsBroadcast(row') /\ row'.status = "sending"
    BY <2>1 DEF BroadcastInv, BroadcastRows, IsBroadcast
  <2>3. Alive = {}
    BY <2>1 DEF BroadcastInv, Alone
  <2> DEFINE new == [on |-> p, at |-> "read", row |-> None, retried |-> FALSE]
  <2>4. loop' = [j \in Sending!Dispatches |-> IF j = sends + 1 THEN new ELSE loop[j]]
    BY <1>3 DEF Sending!Claim, BroadcastInv, BroadcastRows
  <2>5. Alive' \subseteq {sends + 1}
    BY <2>3, <2>4 DEF Alive, BroadcastInv, BroadcastRows
  <2>6. \A i \in Alive' : loop'[i] = new
    BY <2>4, <2>5 DEF Alive
  <2>7. BroadcastRows'
    <3>1. {"at", "row"} \subseteq DOMAIN new /\ new.at = "read"
      OBVIOUS
    <3> HIDE DEF new
    <3>2. sends' \in Nat /\ loop' = [j \in Sending!Dispatches |-> loop'[j]]
      BY <2>1, <2>4 DEF BroadcastInv, BroadcastRows
    <3> QED BY <1>1, <1>2, <2>2, <2>6, <3>1, <3>2 DEF BroadcastInv, BroadcastRows
  <2>8. Alone'
    BY <2>2, <2>5, <2>6 DEF Alone
  <2> QED BY <2>7, <2>8 DEF BroadcastInv
<1>4. CASE ~(Sending!Claimable(seen) /\ sends < MaxSends)
  <2>1. UNCHANGED <<row, loop, sends>>
    BY <1>4 DEF Sending!Claim
  <2> QED BY <1>1, <1>2, <2>1 DEF BroadcastInv, BroadcastRows, Alone, Alive
<1> QED BY <1>3, <1>4

\* The row is saved by another, who overtakes a dispatch that is alive.
LEMMA OverwriteStep ==
  ASSUME BroadcastInv, ~overtaken, NEW p \in Staff, UNCHANGED <<loop, sends>>,
         Alive = {}, row' = None \/ IsBroadcast(row'),
         \/ admin' = [admin EXCEPT ![p] = None] /\ tick' = tick
         \/ admin' = admin /\ tick' = [tick EXCEPT ![p] = None]
  PROVE  BroadcastInv'
<1>1. admin' = [q \in Staff |-> admin'[q]] /\ \A q \in Staff : admin'[q] # None => admin'[q] = admin[q]
  BY DEF BroadcastInv, BroadcastRows
<1>2. tick' = [q \in Staff |-> tick'[q]] /\ \A q \in Staff : tick'[q] # None => tick'[q] = tick[q]
  BY DEF BroadcastInv, BroadcastRows
<1> QED BY <1>1, <1>2 DEF BroadcastInv, BroadcastRows, Alone, Alive

\* Whoever reads the row goes on with it.
LEMMA ReadStep ==
  ASSUME BroadcastInv, ~overtaken, NEW p \in Staff, UNCHANGED <<row, loop, sends>>, NEW x,
         \/ /\ admin' = [admin EXCEPT ![p] = x] /\ tick' = tick
            /\ IsBroadcast(x.row) /\ x.row.status # "sending"
         \/ /\ tick' = [tick EXCEPT ![p] = x] /\ admin' = admin
            /\ IsBroadcast(x.row) /\ (x.do = "recover" \/ (x.do = "claim" /\ x.row.status = "scheduled"))
         \/ admin' = admin /\ tick' = tick
  PROVE  BroadcastInv'
<1>1. admin' = [q \in Staff |-> admin'[q]] /\ \A q \in Staff :
        admin'[q] # None => IsBroadcast(admin'[q].row) /\ admin'[q].row.status # "sending"
  BY DEF BroadcastInv, BroadcastRows
<1>2. tick' = [q \in Staff |-> tick'[q]] /\ \A q \in Staff :
        tick'[q] # None => /\ IsBroadcast(tick'[q].row)
                           /\ (tick'[q].do = "recover" \/ (tick'[q].do = "claim" /\ tick'[q].row.status = "scheduled"))
  BY DEF BroadcastInv, BroadcastRows
<1> QED BY <1>1, <1>2 DEF BroadcastInv, BroadcastRows, Alone, Alive

LEMMA BroadcastStep ==
  ASSUME BroadcastInv, ~overtaken, Sending!Next, overtaken' = (overtaken \/ Overtakes)
  PROVE  BroadcastInv'
<1>1. BroadcastRows /\ Alone
  BY DEF BroadcastInv
<1>2. \A i \in Sending!Dispatches : loop[i] # None => i \in Alive
  BY <1>1 DEF BroadcastRows, Alive
<1>3. ASSUME NEW p \in Staff, Sending!TickRead(p) PROVE BroadcastInv'
  <2>1. PICK x : tick' = [tick EXCEPT ![p] = x] /\ x.row = row /\ row # None
                 /\ (x.do = "recover" \/ (x.do = "claim" /\ row.status = "scheduled"))
    <3>1. \A do : [do |-> do, row |-> row].do = do /\ [do |-> do, row |-> row].row = row
      OBVIOUS
    <3> QED BY <1>3, <3>1 DEF Sending!TickRead, Sending!Recoverable, Sending!Is
  <2>2. UNCHANGED <<row, loop, sends, admin>>
    BY <1>3 DEF Sending!TickRead
  <2> QED BY <1>1, <2>1, <2>2, ReadStep DEF BroadcastRows
<1>4. ASSUME NEW p \in Staff, Sending!RecoverStaleSending(p) PROVE BroadcastInv'
  <2>1. /\ tick[p] # None /\ tick[p].do = "recover" /\ tick' = [tick EXCEPT ![p] = None]
        /\ row' = Sending!Recovered(tick[p].row) /\ UNCHANGED <<admin, loop, sends, crashes>>
    BY <1>4 DEF Sending!RecoverStaleSending, Sending!Steps, Sending!Stepped, Sending!Save
  <2>2. IsBroadcast(row')
    BY <1>1, <2>1 DEF BroadcastRows, IsBroadcast, Sending!Recovered, Sending!Armed, Sending!With
  <2>3. CASE Alive = {}
    BY <2>1, <2>2, <2>3, OverwriteStep
  <2>4. CASE Alive # {}
    <3>1. tick'[p] = None /\ \E i \in DOMAIN loop : loop[i] # None
      BY <1>1, <2>1, <2>4 DEF BroadcastRows, Alive
    <3>2. Overtakes
      BY <2>1, <3>1 DEF Overtakes
    <3> QED BY <3>2 DEF BroadcastInv
  <2> QED BY <2>3, <2>4
<1>5. ASSUME NEW p \in Staff, Sending!ClaimDue(p) PROVE BroadcastInv'
  <2>1. /\ tick[p] # None /\ tick[p].do = "claim" /\ Sending!Claim(p, tick[p].row)
        /\ admin' = admin /\ tick' = [tick EXCEPT ![p] = None]
    BY <1>5 DEF Sending!ClaimDue, Sending!Steps, Sending!Stepped
  <2> QED BY <1>1, <2>1, ClaimStep DEF BroadcastRows
<1>6. ASSUME NEW p \in Staff, Sending!SendNow(p) PROVE BroadcastInv'
  <2>1. admin[p] # None /\ Sending!Claim(p, admin[p].row) /\ admin' = [admin EXCEPT ![p] = None] /\ tick' = tick
    BY <1>6 DEF Sending!SendNow, Sending!Serves, Sending!Served
  <2> QED BY <1>1, <2>1, ClaimStep DEF BroadcastRows
<1>7. ASSUME NEW p \in Staff, Sending!Cancel(p) \/ Sending!Remove(p) PROVE BroadcastInv'
  <2>1. /\ admin[p] # None /\ admin[p].op \in {"cancel", "remove"} /\ admin' = [admin EXCEPT ![p] = None]
        /\ UNCHANGED <<tick, loop, sends, crashes>>
        /\ row' = None \/ row' = [Sending!With(admin[p].row, "cancelled") EXCEPT !.due = FALSE]
    BY <1>7 DEF Sending!Cancel, Sending!Remove, Sending!Serves, Sending!Served, Sending!Save
  <2>2. row' = None \/ IsBroadcast(row')
    BY <1>1, <2>1 DEF BroadcastRows, IsBroadcast, Sending!With
  <2>3. CASE Alive = {}
    BY <2>1, <2>2, <2>3, OverwriteStep
  <2>4. CASE Alive # {}
    <3>1. row.status = "sending" /\ admin[p].row.status # "sending"
      BY <1>1, <2>1, <2>4 DEF BroadcastRows, Alone
    <3>2. admin'[p] = None
      BY <1>1, <2>1 DEF BroadcastRows
    <3>3. Overtakes
      BY <2>1, <3>1, <3>2 DEF Overtakes
    <3> QED BY <3>3 DEF BroadcastInv
  <2> QED BY <2>3, <2>4
<1>8. ASSUME NEW p \in Staff, Sending!Crash(p) PROVE BroadcastInv'
  <2>1. /\ row' = row /\ sends' = sends
        /\ admin' = [admin EXCEPT ![p] = None] /\ tick' = [tick EXCEPT ![p] = None]
        /\ loop' = [i \in Sending!Dispatches |-> IF loop[i] # None /\ loop[i].on = p THEN None ELSE loop[i]]
    BY <1>8 DEF Sending!Crash
  <2>2. Alive' \subseteq Alive /\ \A i \in Alive' : loop'[i] = loop[i]
    BY <1>1, <2>1 DEF BroadcastRows, Alive
  <2>3. BroadcastRows'
    BY <1>1, <2>1, <2>2 DEF BroadcastRows
  <2>4. Alone'
    BY <1>1, <2>1, <2>2 DEF Alone
  <2> QED BY <2>3, <2>4 DEF BroadcastInv
<1>9. ASSUME NEW p \in Staff, NEW op, Sending!AdminRead(p, op) PROVE BroadcastInv'
  <2>1. UNCHANGED <<row, loop, sends, tick>> /\ row # None
    BY <1>9 DEF Sending!AdminRead
  <2>2. \/ admin' = admin
        \/ row.status # "sending" /\ admin' = [admin EXCEPT ![p] = [op |-> op, row |-> row]]
    BY <1>9, <2>1 DEF Sending!AdminRead, Sending!Is
  <2>3. CASE admin' = admin
    BY <2>1, <2>3, ReadStep
  <2>4. CASE row.status # "sending" /\ admin' = [admin EXCEPT ![p] = [op |-> op, row |-> row]]
    <3> DEFINE x == [op |-> op, row |-> row]
    <3>1. IsBroadcast(x.row) /\ x.row.status # "sending" /\ admin' = [admin EXCEPT ![p] = x]
      BY <1>1, <2>1, <2>4 DEF BroadcastRows
    <3> HIDE DEF x
    <3> QED BY <2>1, <3>1, ReadStep
  <2> QED BY <2>2, <2>3, <2>4
<1>10. ASSUME NEW i \in Sending!Dispatches, Sending!DispatchRead(i) PROVE BroadcastInv'
  <2>1. loop[i] # None /\ i \in Alive /\ UNCHANGED <<row, admin, tick, sends>>
    BY <1>2, <1>10 DEF Sending!DispatchRead, Sending!At, Sending!Looped
  <2>2. row.status = "sending" /\ {"at", "row"} \subseteq DOMAIN loop[i]
    BY <1>1, <2>1 DEF Alone, BroadcastRows
  <2>3. CASE row = None
    <3>1. loop' = [loop EXCEPT ![i] = None]
      BY <1>10, <2>3 DEF Sending!DispatchRead, Sending!End
    <3> QED BY <2>1, <3>1, LoopStep
  <2>4. CASE row # None
    <3> DEFINE x == [loop[i] EXCEPT !.at = "start", !.row = row]
    <3>1. {"at", "row"} \subseteq DOMAIN x /\ x.at = "start" /\ x.row = row
      BY <2>2
    <3>2. loop' = [loop EXCEPT ![i] = x]
      BY <1>1, <1>10, <2>4 DEF Sending!DispatchRead, BroadcastRows
    <3>3. IsBroadcast(row)
      BY <1>1, <2>4 DEF BroadcastRows
    <3> HIDE DEF x
    <3> QED BY <2>1, <2>2, <3>1, <3>2, <3>3, LoopStep
  <2> QED BY <2>3, <2>4
<1>11. ASSUME NEW i \in Sending!Dispatches, Sending!DispatchStart(i) PROVE BroadcastInv'
  <2>1. loop[i] # None /\ i \in Alive /\ UNCHANGED <<admin, tick, sends>> /\ loop[i].at = "start" /\ row' = loop[i].row
    BY <1>2, <1>11 DEF Sending!DispatchStart, Sending!At, Sending!Looped, Sending!Save
  <2>2. /\ loop[i].row.status = "sending" /\ IsBroadcast(loop[i].row)
        /\ {"at", "row"} \subseteq DOMAIN loop[i]
    BY <1>1, <2>1 DEF Alone, BroadcastRows
  <2> DEFINE x == [loop[i] EXCEPT !.at = "send"]
  <2>3. {"at", "row"} \subseteq DOMAIN x /\ x.at = "send" /\ x.row = loop[i].row
    BY <2>2
  <2>4. loop' = [loop EXCEPT ![i] = x]
    BY <1>1, <1>11 DEF Sending!DispatchStart, BroadcastRows
  <2> HIDE DEF x
  <2> QED BY <2>1, <2>2, <2>3, <2>4, LoopStep
<1>12. ASSUME NEW i \in Sending!Dispatches, Sending!Finalize(i) PROVE BroadcastInv'
  <2>1. /\ loop[i] # None /\ i \in Alive /\ UNCHANGED <<admin, tick, sends>> /\ loop[i].at = "send"
        /\ row' \in Sending!Finalized(i) /\ loop' = [loop EXCEPT ![i] = None]
    BY <1>2, <1>12 DEF Sending!Finalize, Sending!At, Sending!Looped, Sending!Save, Sending!End
  <2>2. IsBroadcast(loop[i].row)
    BY <1>1, <2>1 DEF BroadcastRows
  <2>3. IsBroadcast(row')
    BY <2>1, <2>2 DEF Sending!Finalized, Sending!With, Sending!Armed, IsBroadcast
  <2> QED BY <2>1, <2>3, LoopStep
<1>13. ASSUME NEW i \in Sending!Dispatches, Sending!DispatchFails(i) PROVE BroadcastInv'
  <2>1. loop[i] # None /\ i \in Alive /\ UNCHANGED <<row, admin, tick, sends>>
    BY <1>2, <1>13 DEF Sending!DispatchFails, Sending!At, Sending!Looped
  <2>2. row.status = "sending" /\ {"at", "row"} \subseteq DOMAIN loop[i]
    BY <1>1, <2>1 DEF Alone, BroadcastRows
  <2>3. CASE row = None
    <3>1. loop' = [loop EXCEPT ![i] = None]
      BY <1>13, <2>3 DEF Sending!DispatchFails, Sending!End
    <3> QED BY <2>1, <3>1, LoopStep
  <2>4. CASE row # None
    <3> DEFINE x == [loop[i] EXCEPT !.at = "send", !.row = row, !.retried = TRUE]
    <3>1. {"at", "row"} \subseteq DOMAIN x /\ x.at = "send" /\ x.row = row
      BY <2>2
    <3>2. loop' = [loop EXCEPT ![i] = x]
      BY <1>1, <1>13, <2>4 DEF Sending!DispatchFails, BroadcastRows
    <3>3. IsBroadcast(row)
      BY <1>1, <2>4 DEF BroadcastRows
    <3> HIDE DEF x
    <3> QED BY <2>1, <2>2, <3>1, <3>2, <3>3, LoopStep
  <2> QED BY <2>3, <2>4
<1>14. ASSUME Sending!GoStale PROVE BroadcastInv'
  BY <1>1, <1>14 DEF Sending!GoStale, BroadcastInv, BroadcastRows, Alone, Alive
<1>15. ASSUME Sending!FallDue PROVE BroadcastInv'
  <2>1. row # None /\ row.status = "scheduled" /\ row' = [row EXCEPT !.due = TRUE] /\ UNCHANGED <<loop, admin, tick, sends>>
    BY <1>15 DEF Sending!FallDue, Sending!Is
  <2>2. IsBroadcast(row')
    BY <1>1, <2>1 DEF BroadcastRows, IsBroadcast
  <2>3. Alive = {}
    BY <1>1, <2>1 DEF Alone
  <2> QED BY <1>1, <2>1, <2>2, <2>3 DEF BroadcastInv, BroadcastRows, Alone, Alive
<1> QED
  BY <1>3, <1>4, <1>5, <1>6, <1>7, <1>8, <1>9, <1>10, <1>11, <1>12, <1>13, <1>14, <1>15
  DEF Sending!Next, Sending!Work, Sending!TickOf, Sending!Serve

-----------------------------------------------------------------------------
\* Settlements.  Unless every earning is excused, one request at most is in progress, and the
\* period it read starts at the last end of a settlement that claims and misses nothing that
\* is not excused.  No settlement counts an earning before the end of an earlier one that
\* claims, and none misses one between those ends and its own.
Instants == 0..MaxTime
Settlement == [to : 0..(MaxTime + 1), counted : SUBSET Instants, amount : Nat, status : Agent!AnyStatus]
AgencyRows ==
  /\ now \in Instants /\ excused \subseteq Instants
  /\ earnings = [t \in Instants |-> earnings[t]]
  /\ settlements \in Seq(Settlement)
  /\ request = [s \in Staff |-> request[s]]
  /\ \A s \in Staff : request[s] # None => \/ request[s].do = "period"
                                           \/ request[s].do = "insert" /\ request[s].to \in 0..now /\ request[s].counted \in SUBSET Instants

Claims(j) == j \in DOMAIN settlements /\ settlements[j].status \in Agent!Claiming
Due(t) == t \in Instants /\ earnings[t] = "committed" /\ t \notin excused
OneRequest == \A s, q \in Staff : request[s] # None /\ request[q] # None => s = q
ReadsAll(c) ==
  /\ c.from \in Nat /\ (c.from = 0 \/ \E j \in DOMAIN settlements : Claims(j) /\ settlements[j].to = c.from)
  /\ \A j \in DOMAIN settlements : Claims(j) => settlements[j].to <= c.from
  /\ \A t \in c.counted : c.from <= t /\ t < c.to
  /\ \A t \in Instants : Due(t) /\ c.from <= t /\ t < c.to => t \in c.counted
RequestsRead == \A s \in Staff : request[s] # None /\ request[s].do = "insert" => ReadsAll(request[s])
CountsOwn ==
  \A i \in DOMAIN settlements : \A t \in settlements[i].counted :
    t < settlements[i].to /\ \A j \in DOMAIN settlements : j < i /\ Claims(j) => settlements[j].to <= t
CountsAll ==
  \A i \in DOMAIN settlements : \A t \in Instants :
    Due(t) /\ t < settlements[i].to /\ (\A j \in DOMAIN settlements : j < i /\ Claims(j) => settlements[j].to <= t)
      => t \in settlements[i].counted
AgencyInv == AgencyRows /\ (excused = Instants \/ (OneRequest /\ RequestsRead /\ CountsOwn /\ CountsAll))

LEMMA RowsOfSettlements ==
  ASSUME settlements \in Seq(Settlement)
  PROVE  /\ Len(settlements) \in Nat /\ DOMAIN settlements = 1..Len(settlements)
         /\ \A i \in DOMAIN settlements : settlements[i] \in Settlement
BY LenProperties

\* Of the settlements that claim an earning, the first to end after it is the one that counts it.
LEMMA ClaimedOnce == AgencyInv => EarningsClaimedOnce
<1> SUFFICES ASSUME AgencyInv, NEW t \in Agent!Counted(0, MaxTime + 1) \ excused,
                    NEW i \in Agent!Rows(Agent!Claiming), t < settlements[i].to
             PROVE  Cardinality({j \in Agent!Rows(Agent!Claiming) : t \in settlements[j].counted}) = 1
  BY DEF EarningsClaimedOnce
<1>1. Due(t)
  BY DEF Due, Agent!Counted, AgencyInv, AgencyRows
<1>2. OneRequest /\ CountsOwn /\ CountsAll
  BY <1>1 DEF AgencyInv, Due
<1>3. DOMAIN settlements \in SUBSET Nat /\ \A j \in DOMAIN settlements : settlements[j].to \in Nat
  BY RowsOfSettlements DEF AgencyInv, AgencyRows, Settlement
<1> DEFINE later == {j \in DOMAIN settlements : Claims(j) /\ t < settlements[j].to}
<1>4. PICK k \in later : \A j \in later : k <= j
  <2>1. later \in SUBSET Nat /\ i \in later
    BY <1>3 DEF Agent!Rows, Claims
  <2> HIDE DEF later
  <2> QED BY <2>1, LeastNat
<1>5. t \in Nat
  BY <1>1 DEF Due, Instants
<1>6. \A j \in DOMAIN settlements : j < k /\ Claims(j) => settlements[j].to <= t
  BY <1>3, <1>4, <1>5
<1>7. t \in settlements[k].counted
  BY <1>1, <1>2, <1>4, <1>6 DEF CountsAll, Due
<1>8. ASSUME NEW j \in DOMAIN settlements, Claims(j), t \in settlements[j].counted PROVE j = k
  <2>1. t < settlements[j].to
    BY <1>2, <1>8 DEF CountsOwn
  <2>2. ~(k < j)
    BY <1>2, <1>3, <1>4, <1>5, <1>8 DEF CountsOwn
  <2> QED BY <1>3, <1>4, <1>8, <2>1, <2>2
<1>9. {j \in Agent!Rows(Agent!Claiming) : t \in settlements[j].counted} = {k}
  BY <1>4, <1>7, <1>8 DEF Agent!Rows, Claims
<1> QED BY <1>9, FS_Singleton

LEMMA SameCardinality == \A S : Agent!Cardinality(S) = Cardinality(S)
BY DEF Agent!Cardinality, Cardinality

LEMMA TwoElements == ASSUME NEW a, NEW b, a # b PROVE Cardinality({a, b}) = 2
<1>1. IsFiniteSet({a}) /\ Cardinality({a}) = 1
  BY FS_Singleton
<1>2. {a} \cup {b} = {a, b}
  OBVIOUS
<1> QED BY <1>1, <1>2, FS_AddElement

\* What is excused stays so, and all of it is once two requests meet or rows are written by hand.
LEMMA ExcusesGrow ==
  ASSUME AgencyRows, Excuses, \A s \in Staff : request'[s] = None /\ request[s] # None => request[s].to \in Instants
  PROVE  /\ excused \subseteq excused' /\ excused' \subseteq Instants /\ (TwoAtOnce \/ ByHand => excused' = Instants)
         /\ ~(TwoAtOnce \/ ByHand) => excused' = excused \cup LateCommits \cup Cut
<1>1. DOMAIN earnings = Instants
  BY DEF AgencyRows
<1>2. LateCommits \subseteq Instants
  BY <1>1 DEF LateCommits
<1>3. Cut \subseteq Instants
  BY DEF Cut
<1>4. excused' = excused \cup (IF TwoAtOnce \/ ByHand THEN Instants ELSE LateCommits \cup Cut)
  BY <1>1 DEF Excuses
<1>5. excused \subseteq Instants
  BY DEF AgencyRows
<1> QED BY <1>2, <1>3, <1>4, <1>5

\* A second request at once excuses everything.
LEMMA OneOrExcused ==
  ASSUME OneRequest, NEW s \in Staff, \A q \in Staff \ {s} : request'[q] = request[q]
  PROVE  OneRequest' \/ TwoAtOnce
<1> SUFFICES ASSUME NEW a \in Staff, NEW b \in Staff, request'[a] # None, request'[b] # None, a # b
             PROVE  TwoAtOnce
  BY DEF OneRequest
<1>1. \A q \in Staff : request'[q] # None => q \in {a, b}
  BY DEF OneRequest
<1>2. {q \in Staff : request'[q] # None} = {a, b}
  BY <1>1
<1>3. Cardinality({a, b}) = 2
  BY TwoElements, Zenon
<1>4. 2 > 1
  OBVIOUS
<1> QED BY <1>2, <1>3, <1>4, Zenon DEF TwoAtOnce

\* The invariant survives a step that leaves settlements and requests alone and commits no
\* earning that a period or a request has passed, unless it excuses it.
LEMMA EarningStep ==
  ASSUME AgencyInv, AgencyRows', UNCHANGED <<settlements, request>>, excused \subseteq excused', excused' \subseteq Instants,
         \A t \in Instants : Due(t)' => \/ Due(t)
                                        \/ /\ \A i \in DOMAIN settlements : settlements[i].to <= t
                                           /\ \A s \in Staff : request[s] # None /\ request[s].do = "insert" => request[s].to <= t
  PROVE  AgencyInv'
<1>1. CASE excused = Instants
  BY <1>1 DEF AgencyInv, Instants
<1>2. CASE excused # Instants
  <2>1. OneRequest /\ RequestsRead /\ CountsOwn /\ CountsAll
    BY <1>2 DEF AgencyInv
  <2>2. /\ \A i \in DOMAIN settlements : settlements[i].to \in Int
        /\ \A s \in Staff : request[s] # None /\ request[s].do = "insert" => request[s].to \in Int
        /\ \A t \in Instants : t \in Int
    BY RowsOfSettlements DEF AgencyInv, AgencyRows, Settlement, Instants
  <2>3. RequestsRead'
    BY <2>1, <2>2 DEF RequestsRead, ReadsAll, Claims
  <2>4. CountsAll'
    BY <2>1, <2>2 DEF CountsAll, Claims
  <2>5. OneRequest' /\ CountsOwn'
    BY <2>1 DEF OneRequest, CountsOwn, Claims
  <2> QED BY <2>3, <2>4, <2>5 DEF AgencyInv
<1> QED BY <1>1, <1>2

\* A request moves on alone: nothing it says is disturbed by it.
LEMMA RequestStep ==
  ASSUME AgencyInv, AgencyRows', UNCHANGED <<now, earnings, settlements>>, excused \subseteq excused',
         excused' = Instants \/ OneRequest', NEW s \in Staff, NEW next, request' = [request EXCEPT ![s] = next],
         next.do = "period" \/ (next.do = "insert" /\ ReadsAll(next))
  PROVE  AgencyInv'
<1>1. CASE excused' = Instants
  BY <1>1 DEF AgencyInv
<1>2. CASE excused' # Instants
  <2>1. OneRequest' /\ OneRequest /\ RequestsRead /\ CountsOwn /\ CountsAll
    BY <1>2 DEF AgencyInv, AgencyRows
  <2>2. \A t : Due(t)' => Due(t)
    BY DEF Due
  <2>3. \A q \in Staff : request'[q] = IF q = s THEN next ELSE request[q]
    BY DEF AgencyInv, AgencyRows
  <2>4. \A q \in Staff : request'[q] # None /\ request'[q].do = "insert" => ReadsAll(request'[q])
    BY <2>1, <2>3 DEF RequestsRead
  <2>5. RequestsRead'
    BY <2>2, <2>4 DEF RequestsRead, ReadsAll, Claims
  <2>6. CountsOwn' /\ CountsAll'
    BY <2>1, <2>2 DEF CountsOwn, CountsAll, Claims
  <2> QED BY <2>1, <2>5, <2>6 DEF AgencyInv
<1> QED BY <1>1, <1>2

\* The row of a period that was read in full follows all that claim.
LEMMA InsertStep ==
  ASSUME AgencyInv, AgencyRows', UNCHANGED <<now, earnings>>, excused \subseteq excused',
         NEW s \in Staff, request[s] # None, request[s].do = "insert", request' = [request EXCEPT ![s] = None],
         Agent!Insert(request[s]), excused' = Instants \/ request[s].to \in excused'
  PROVE  AgencyInv'
<1>1. CASE excused' = Instants
  BY <1>1 DEF AgencyInv
<1>2. CASE excused' # Instants
  <2> DEFINE c == request[s]
             n == Len(settlements)
             new == [to |-> Agent!Rounded(c.to), counted |-> c.counted, amount |-> Cardinality(c.counted), status |-> "pending"]
  <2>1. OneRequest /\ ReadsAll(c) /\ CountsOwn /\ CountsAll
    BY <1>2 DEF AgencyInv, AgencyRows, RequestsRead
  <2>2. c.to \in Nat /\ c.counted \subseteq Instants
    BY DEF AgencyInv, AgencyRows, Instants
  <2>3. Agent!Rounded(c.to) \in {c.to, c.to + 1}
    BY <2>2 DEF Agent!Rounded
  <2>4. /\ n \in Nat /\ DOMAIN settlements = 1..n /\ \A i \in 1..n : settlements[i].to \in Nat
        /\ DOMAIN settlements' = 1..(n + 1) /\ settlements'[n + 1] = new /\ \A i \in 1..n : settlements'[i] = settlements[i]
    <3>0. settlements' = Append(settlements, new)
      BY SameCardinality DEF Agent!Insert
    <3>1. settlements \in Seq(Settlement)
      BY DEF AgencyInv, AgencyRows
    <3> HIDE DEF new
    <3>2. n \in Nat /\ DOMAIN settlements = 1..n /\ \A i \in 1..n : settlements[i] \in Settlement
      BY <3>1, LenProperties
    <3> QED BY <3>0, <3>1, <3>2 DEF Settlement
  <2>5. new.to = Agent!Rounded(c.to) /\ new.counted = c.counted
    OBVIOUS
  <2> HIDE DEF new, n
  <2>6. \A t : Due(t)' => Due(t) /\ t \in Nat /\ t # c.to
    BY <1>2 DEF Due, Instants
  <2>7. \A j : Claims(j)' /\ j # n + 1 => Claims(j)
    BY <2>4 DEF Claims
  <2>8. \A j \in 1..n : Claims(j) => Claims(j)'
    BY <2>4 DEF Claims
  <2>9. OneRequest' /\ RequestsRead'
    <3>1. \A q \in Staff : request'[q] # None => q # s /\ request[q] # None
      BY DEF AgencyInv, AgencyRows
    <3>2. \A q \in Staff : request'[q] = None
      BY <2>1, <3>1 DEF OneRequest
    <3> QED BY <3>2 DEF OneRequest, RequestsRead
  <2>10. CountsOwn'
    <3> SUFFICES ASSUME NEW i \in 1..(n + 1), NEW t \in settlements'[i].counted
                 PROVE  t < settlements'[i].to /\ \A j \in 1..(n + 1) : j < i /\ Claims(j)' => settlements'[j].to <= t
      BY <2>4 DEF CountsOwn
    <3>1. CASE i = n + 1
      <4>1. t \in c.counted /\ t \in Nat /\ c.from <= t /\ t < c.to /\ c.from \in Nat
        BY <2>1, <2>2, <2>4, <2>5, <3>1 DEF ReadsAll, Instants
      <4>2. t < settlements'[i].to
        BY <2>2, <2>3, <2>4, <2>5, <3>1, <4>1
      <4>3. \A j \in 1..n : Claims(j) => settlements[j].to <= t
        BY <2>1, <2>4, <4>1 DEF ReadsAll
      <4> QED BY <2>4, <2>7, <3>1, <4>2, <4>3
    <3>2. CASE i \in 1..n
      BY <2>1, <2>4, <2>7, <3>2 DEF CountsOwn
    <3>3. i = n + 1 \/ i \in 1..n
      BY <2>4
    <3> QED BY <3>1, <3>2, <3>3
  <2>11. CountsAll'
    <3> SUFFICES ASSUME NEW i \in 1..(n + 1), NEW t \in Instants, Due(t)', t < settlements'[i].to,
                        \A j \in 1..(n + 1) : j < i /\ Claims(j)' => settlements'[j].to <= t
                 PROVE  t \in settlements'[i].counted
      BY <2>4 DEF CountsAll
    <3>1. CASE i = n + 1
      <4>1. t < c.to
        BY <2>2, <2>3, <2>4, <2>5, <2>6, <3>1
      <4>2. c.from <= t
        <5>1. CASE c.from = 0
          BY <2>6, <5>1
        <5>2. CASE \E j \in DOMAIN settlements : Claims(j) /\ settlements[j].to = c.from
          BY <2>4, <2>8, <3>1, <5>2
        <5> QED BY <2>1, <5>1, <5>2 DEF ReadsAll
      <4> QED BY <2>1, <2>4, <2>5, <2>6, <3>1, <4>1, <4>2 DEF ReadsAll
    <3>2. CASE i \in 1..n
      BY <2>1, <2>4, <2>6, <2>8, <3>2 DEF CountsAll
    <3>3. i = n + 1 \/ i \in 1..n
      BY <2>4
    <3> QED BY <3>1, <3>2, <3>3
  <2> QED BY <2>9, <2>10, <2>11 DEF AgencyInv
<1> QED BY <1>1, <1>2

\* An administrator changes the status of the last settlement, while nothing else goes on.
LEMMA StatusStep ==
  ASSUME AgencyInv, AgencyRows', UNCHANGED <<now, earnings, request>>, excused \subseteq excused',
         NEW k \in DOMAIN settlements, NEW status \in Agent!AnyStatus, NEW amount,
         settlements' = [settlements EXCEPT ![k].status = status, ![k].amount = amount],
         excused' = Instants \/ settlements[k].status = status \/ Last(k)
  PROVE  AgencyInv'
<1>1. CASE excused' = Instants
  BY <1>1 DEF AgencyInv
<1>2. CASE excused' # Instants
  <2> DEFINE n == Len(settlements)
  <2>1. OneRequest /\ RequestsRead /\ CountsOwn /\ CountsAll
    BY <1>2 DEF AgencyInv, AgencyRows
  <2>2. n \in Nat /\ DOMAIN settlements = 1..n /\ \A i \in 1..n : settlements[i] \in Settlement
    BY RowsOfSettlements DEF AgencyInv, AgencyRows
  <2>3. /\ DOMAIN settlements' = 1..n
        /\ \A i \in 1..n : settlements'[i].to = settlements[i].to /\ settlements'[i].counted = settlements[i].counted
        /\ \A i \in 1..n : settlements'[i].status = IF i = k THEN status ELSE settlements[i].status
    BY <2>2 DEF Settlement
  <2>4. \A t : Due(t)' => Due(t)
    BY DEF Due
  <2>5. CASE settlements[k].status = status
    <3>1. \A j : Claims(j)' <=> Claims(j)
      BY <2>2, <2>3, <2>5 DEF Claims
    <3> QED BY <2>1, <2>2, <2>3, <2>4, <3>1 DEF AgencyInv, OneRequest, RequestsRead, ReadsAll, CountsOwn, CountsAll
  <2>6. CASE Last(k)
    <3>1. k = n /\ \A s \in Staff : request[s] = None
      BY <2>6 DEF Last
    <3>2. \A j : j # n => (Claims(j)' <=> Claims(j))
      BY <2>2, <2>3, <3>1 DEF Claims
    <3>3. \A i, j \in 1..n : j < i => j # n
      BY <2>2
    <3>4. CountsOwn'
      BY <2>1, <2>2, <2>3, <3>2, <3>3 DEF CountsOwn
    <3>5. CountsAll'
      BY <2>1, <2>2, <2>3, <2>4, <3>2, <3>3 DEF CountsAll
    <3> QED BY <3>1, <3>4, <3>5 DEF AgencyInv, OneRequest, RequestsRead
  <2> QED BY <1>2, <2>5, <2>6
<1> QED BY <1>1, <1>2

\* The greatest end of the settlements that claim.
LEMMA LastEndIs ==
  ASSUME AgencyRows
  PROVE  /\ Agent!LastEnd \in Nat /\ \A j \in DOMAIN settlements : Claims(j) => settlements[j].to <= Agent!LastEnd
         /\ (Agent!LastEnd = 0 \/ \E j \in DOMAIN settlements : Claims(j) /\ settlements[j].to = Agent!LastEnd)
<1> DEFINE ends == {settlements[i].to : i \in Agent!Rows(Agent!Claiming)}
           S == {0} \cup ends
<1>1. ends = {settlements[i].to : i \in {j \in DOMAIN settlements : Claims(j)}}
  BY DEF Agent!Rows, Claims
<1>2. S \in SUBSET Nat /\ S # {} /\ MaxTime + 1 \in Nat /\ \A x \in S : x <= MaxTime + 1
  <2>1. \A j \in DOMAIN settlements : settlements[j].to \in 0..(MaxTime + 1)
    BY RowsOfSettlements DEF AgencyRows, Settlement
  <2>2. ends \subseteq 0..(MaxTime + 1)
    BY <1>1, <2>1
  <2> HIDE DEF ends
  <2> QED BY <2>2, OfficeAssumption
<1>3. Agent!LastEnd = CHOOSE x \in S : \A y \in S : x >= y
  BY DEF Agent!LastEnd, Agent!Max
<1>4. \E x \in S : \A y \in S : x >= y
  <2> HIDE DEF S
  <2> QED BY <1>2, GreatestNat
<1>5. Agent!LastEnd \in S /\ \A y \in S : Agent!LastEnd >= y
  <2> HIDE DEF S
  <2> QED BY <1>3, <1>4
<1> QED BY <1>1, <1>2, <1>5

\* A row that is inserted is one of a settlement.
LEMMA Inserted ==
  ASSUME AgencyRows, NEW c, c.to \in Instants, c.counted \subseteq Instants, Agent!Insert(c)
  PROVE  settlements' \in Seq(Settlement) /\ Len(settlements') = Len(settlements) + 1
<1> DEFINE new == [to |-> Agent!Rounded(c.to), counted |-> c.counted, amount |-> Cardinality(c.counted), status |-> "pending"]
<1>1. settlements' = Append(settlements, new)
  BY SameCardinality DEF Agent!Insert
<1>2. Cardinality(c.counted) \in Nat
  <2>1. IsFiniteSet(Instants)
    BY OfficeAssumption, FS_Interval DEF Instants
  <2> QED BY <2>1, FS_Subset, FS_CardinalityType
<1>3. Agent!Rounded(c.to) \in 0..(MaxTime + 1)
  BY OfficeAssumption DEF Agent!Rounded, Instants
<1>4. new \in Settlement
  BY <1>2, <1>3 DEF Settlement, Agent!AnyStatus
<1> HIDE DEF new
<1> QED BY <1>1, <1>4, AppendProperties DEF AgencyRows

LEMMA AgencyStep == ASSUME AgencyInv, Agent!Next, Excuses PROVE AgencyInv'
<1>1. AgencyRows /\ DOMAIN earnings = Instants /\ 0 \in Instants /\ \A t \in Instants : t \in Nat /\ t <= MaxTime
  BY OfficeAssumption DEF AgencyInv, AgencyRows, Instants
<1>2. ASSUME NEW t \in Instants, (Agent!Earn /\ t = now) \/ Agent!Commit(t) PROVE AgencyInv'
  <2>1. UNCHANGED <<now, settlements, request>> /\ \A u \in Instants : u # t => earnings'[u] = earnings[u]
    BY <1>1, <1>2 DEF Agent!Earn, Agent!Commit, AgencyRows
  <2>2. excused \subseteq excused' /\ excused' \subseteq Instants /\ LateCommits \subseteq excused'
    BY <1>1, <2>1, ExcusesGrow DEF Excuses, LateCommits
  <2>3. AgencyRows'
    BY <1>1, <1>2, <2>1, <2>2 DEF AgencyRows, Agent!Earn, Agent!Commit
  <2>4. \A u \in Instants : Due(u)' /\ ~Due(u) => u = t /\ earnings[t] = "made" /\ earnings'[t] = "committed"
    BY <1>1, <1>2, <2>1, <2>2 DEF Due, Agent!Earn, Agent!Commit, AgencyRows
  <2>5. ASSUME Due(t)', ~Due(t) PROVE ~Seen(t)
    BY <1>1, <2>2, <2>4, <2>5 DEF LateCommits, Due
  <2>6. \A i \in DOMAIN settlements : settlements[i].to \in Nat
    BY <1>1, RowsOfSettlements DEF AgencyRows, Settlement
  <2>7. ASSUME Due(t)', ~Due(t)
        PROVE  /\ \A i \in DOMAIN settlements : settlements[i].to <= t
               /\ \A s \in Staff : request[s] # None /\ request[s].do = "insert" => request[s].to <= t
    <3>1. \A s \in Staff : request[s] # None /\ request[s].do = "insert" => request[s].to \in Nat
      BY <1>1 DEF AgencyRows, Instants
    <3> QED BY <1>1, <2>5, <2>6, <2>7, <3>1 DEF Seen
  <2> QED BY <2>1, <2>2, <2>3, <2>4, <2>7, EarningStep
<1>3. ASSUME Agent!Clock PROVE AgencyInv'
  <2>1. UNCHANGED <<earnings, settlements, request>> /\ now' = now + 1 /\ now' \in Instants
    <3>1. now \in 0..MaxTime
      BY <1>1 DEF AgencyRows, Instants
    <3> QED BY <1>3, <3>1, OfficeAssumption DEF Agent!Clock, Instants
  <2>2. excused \subseteq excused' /\ excused' \subseteq Instants
    BY <1>1, <2>1, ExcusesGrow
  <2>3. \A s \in Staff : request[s] # None /\ request[s].do = "insert" => request[s].to \in 0..now'
    BY <1>1, <2>1 DEF AgencyRows
  <2>4. AgencyRows'
    BY <1>1, <2>1, <2>2, <2>3 DEF AgencyRows
  <2>5. \A t : Due(t)' => Due(t)
    BY <2>1, <2>2 DEF Due
  <2> QED BY <2>1, <2>2, <2>4, <2>5, EarningStep
<1>4. ASSUME NEW s \in Staff, Agent!CheckEligibility(s) PROVE AgencyInv'
  <2> DEFINE next == [do |-> "period"]
  <2>1. UNCHANGED <<now, earnings, settlements>> /\ request' = [request EXCEPT ![s] = next] /\ request[s] = None /\ next.do = "period"
    BY <1>4 DEF Agent!CheckEligibility, Agent!Goto
  <2> HIDE DEF next
  <2>2. \A q \in Staff : request'[q] = IF q = s THEN next ELSE request[q]
    BY <1>1, <2>1 DEF AgencyRows
  <2>3. excused \subseteq excused' /\ excused' \subseteq Instants /\ (TwoAtOnce => excused' = Instants)
    <3>1. \A q \in Staff : request'[q] = None => request[q] = None
      BY <2>1, <2>2
    <3> QED BY <1>1, <3>1, ExcusesGrow
  <2>4. AgencyRows'
    BY <1>1, <2>1, <2>2, <2>3 DEF AgencyRows
  <2>5. excused' = Instants \/ OneRequest'
    <3>1. CASE excused = Instants
      BY <2>3, <3>1
    <3>2. CASE OneRequest
      BY <2>2, <2>3, <3>2, OneOrExcused
    <3> QED BY <3>1, <3>2 DEF AgencyInv
  <2> QED BY <2>1, <2>3, <2>4, <2>5, RequestStep
<1>5. ASSUME NEW s \in Staff, Agent!ReadPeriod(s) PROVE AgencyInv'
  <2> DEFINE next == [do |-> "insert", from |-> Agent!LastEnd, to |-> now, counted |-> Agent!Counted(Agent!LastEnd, now)]
  <2>1. UNCHANGED <<now, earnings, settlements>> /\ request' = [request EXCEPT ![s] = next] /\ request[s] # None
    BY <1>5 DEF Agent!ReadPeriod, Agent!Goto
  <2>2. next.do = "insert" /\ next.from = Agent!LastEnd /\ next.to = now /\ next.counted = Agent!Counted(Agent!LastEnd, now)
    OBVIOUS
  <2>3. next.counted \subseteq Instants /\ now \in 0..now /\ now \in Nat
    BY <1>1 DEF Agent!Counted, AgencyRows, Instants
  <2>4. next # None
    <3>1. next.counted \in SUBSET Nat /\ next.from \in Nat /\ next.to \in Nat
      BY <1>1, <2>2, <2>3, LastEndIs
    <3>2. next \in [do : {"insert"}, from : Nat, to : Nat, counted : SUBSET Nat]
      BY <3>1
    <3> QED BY <3>2, NoneAssumption
  <2>5. ReadsAll(next)
    <3>1. \A t \in next.counted : next.from <= t /\ t < next.to
      BY <2>2 DEF Agent!Counted
    <3>2. \A t \in Instants : Due(t) /\ next.from <= t /\ t < next.to => t \in next.counted
      BY <1>1, <2>2 DEF Due, Agent!Counted
    <3> HIDE DEF next
    <3> QED BY <1>1, <2>2, <3>1, <3>2, LastEndIs DEF ReadsAll
  <2> HIDE DEF next
  <2>6. \A q \in Staff : request'[q] = IF q = s THEN next ELSE request[q]
    BY <1>1, <2>1 DEF AgencyRows
  <2>7. excused \subseteq excused' /\ excused' \subseteq Instants
    <3>1. \A q \in Staff : request'[q] = None => request[q] = None
      BY <2>1, <2>4, <2>6
    <3> QED BY <1>1, <3>1, ExcusesGrow
  <2>8. AgencyRows'
    BY <1>1, <2>1, <2>2, <2>3, <2>6, <2>7 DEF AgencyRows
  <2>9. excused' = Instants \/ OneRequest'
    <3>1. CASE excused = Instants
      BY <2>7, <3>1
    <3>2. CASE OneRequest
      BY <2>1, <2>6, <3>2 DEF OneRequest
    <3> QED BY <3>1, <3>2 DEF AgencyInv
  <2> QED BY <2>1, <2>2, <2>5, <2>7, <2>8, <2>9, RequestStep
<1>6. ASSUME NEW s \in Staff, Agent!InsertSettlement(s) PROVE AgencyInv'
  <2> DEFINE c == request[s]
  <2>1. UNCHANGED <<now, earnings>> /\ request' = [request EXCEPT ![s] = None] /\ c # None /\ c.do = "insert" /\ Agent!Insert(c)
    BY <1>6 DEF Agent!InsertSettlement, Agent!Goto
  <2>2. c.to \in 0..now /\ c.counted \subseteq Instants /\ c.to \in Instants
    <3>1. request[s].do # "period"
      BY <2>1
    <3>2. request[s].to \in 0..now /\ request[s].counted \in SUBSET Instants
      BY <1>1, <2>1, <3>1 DEF AgencyRows
    <3>3. now \in 0..MaxTime
      BY <1>1 DEF AgencyRows, Instants
    <3> QED BY <3>2, <3>3, OfficeAssumption DEF Instants
  <2>3. \A q \in Staff : request'[q] = IF q = s THEN None ELSE request[q]
    BY <1>1, <2>1 DEF AgencyRows
  <2>4. excused \subseteq excused' /\ excused' \subseteq Instants /\ (excused' = Instants \/ c.to \in excused')
    <3>1. \A q \in Staff : request'[q] = None /\ request[q] # None => q = s
      BY <2>3
    <3>2. c.to \in Cut
      BY <2>1, <2>3 DEF Cut
    <3> QED BY <1>1, <2>2, <3>1, <3>2, ExcusesGrow
  <2>5. settlements' \in Seq(Settlement)
    BY <1>1, <2>1, <2>2, Inserted
  <2>6. AgencyRows'
    BY <1>1, <2>1, <2>3, <2>4, <2>5 DEF AgencyRows
  <2> QED BY <2>1, <2>4, <2>6, InsertStep
<1>7. ASSUME NEW from \in Instants, NEW to \in Instants, Agent!CreateSettlement(from, to) PROVE AgencyInv'
  <2> DEFINE c == [to |-> to, counted |-> Agent!Counted(from, to)]
  <2>1. UNCHANGED <<now, earnings, request>> /\ Agent!Insert(c)
    BY <1>7 DEF Agent!CreateSettlement
  <2>2. c.to \in Instants /\ c.counted \subseteq Instants
    BY <1>1 DEF Agent!Counted
  <2> HIDE DEF c
  <2>3. settlements' \in Seq(Settlement) /\ Len(settlements') = Len(settlements) + 1
    BY <1>1, <2>1, <2>2, Inserted
  <2>4. ByHand
    <3>1. Len(settlements) \in Nat
      BY <1>1, RowsOfSettlements DEF AgencyRows
    <3>2. settlements' # settlements /\ Len(settlements') > Len(settlements)
      BY <2>3, <3>1
    <3> QED BY <2>1, <3>2 DEF ByHand
  <2>5. excused' = Instants
    BY <1>1, <2>1, <2>4, ExcusesGrow
  <2>6. AgencyRows'
    BY <1>1, <2>1, <2>3, <2>5 DEF AgencyRows
  <2> QED BY <2>5, <2>6 DEF AgencyInv, Instants
<1>8. ASSUME NEW i \in DOMAIN settlements, Agent!UpdateSettlement(i) PROVE AgencyInv'
  <2>1. PICK status \in Agent!AnyStatus, amount \in {0, settlements[i].amount} :
          settlements' = [settlements EXCEPT ![i].status = status, ![i].amount = amount]
    BY <1>8 DEF Agent!UpdateSettlement
  <2>2. UNCHANGED <<now, earnings, request>>
    BY <1>8 DEF Agent!UpdateSettlement
  <2>3. /\ Len(settlements) \in Nat /\ DOMAIN settlements = 1..Len(settlements) /\ settlements[i] \in Settlement
        /\ settlements \in Seq(Settlement)
    BY <1>1, RowsOfSettlements DEF AgencyRows
  <2>4. settlements'[i] \in Settlement /\ settlements'[i].status = status
    <3> DEFINE x == [settlements[i] EXCEPT !.status = status, !.amount = amount]
    <3>1. settlements'[i] = x
      BY <2>1, <2>3
    <3>2. amount \in Nat /\ status \in Agent!AnyStatus
      BY <2>3 DEF Settlement
    <3>3. x \in Settlement /\ x.status = status
      BY <2>3, <3>2 DEF Settlement
    <3> QED BY <3>1, <3>3
  <2>5. settlements' \in Seq(Settlement)
    <3> DEFINE x == settlements'[i]
    <3>1. settlements' = [settlements EXCEPT ![i] = x]
      BY <2>1, <2>3
    <3> HIDE DEF x
    <3> QED BY <2>3, <2>4, <3>1, ExceptSeq DEF x
  <2>6. excused \subseteq excused' /\ excused' \subseteq Instants /\ (ByHand => excused' = Instants)
    BY <1>1, <2>2, ExcusesGrow
  <2>7. AgencyRows'
    BY <1>1, <2>2, <2>5, <2>6 DEF AgencyRows
  <2>8. excused' = Instants \/ settlements[i].status = status \/ Last(i)
    BY <2>4, <2>6 DEF ByHand
  <2> QED BY <2>1, <2>2, <2>6, <2>7, <2>8, StatusStep
<1> QED BY <1>1, <1>2, <1>3, <1>4, <1>5, <1>6, <1>7, <1>8 DEF Agent!Next, Instants, AgencyRows

-----------------------------------------------------------------------------
\* Withdrawals.  Of the entries that pay for one, each is in the ledger once and no other has
\* its key.
IsCustody(e) == e.kind \in {"receipt", "fee"}
SamePart(d, e) == d.id = e.id /\ SameKey(d, e)
CustodyInv ==
  /\ ledger = [e \in DOMAIN ledger |-> ledger[e]]
  /\ \A e \in DOMAIN ledger : IsCustody(e) => ledger[e] = 1
  /\ \A d, e \in DOMAIN ledger : IsCustody(d) /\ IsCustody(e) /\ SamePart(d, e) => d = e

\* Entries are posted whose keys are new and differ.
LEMMA PostStep ==
  ASSUME CustodyInv, NEW entries, Post(entries),
         \A e \in entries : IsCustody(e) => /\ \A d \in DOMAIN ledger : ~(IsCustody(d) /\ SamePart(d, e))
                                            /\ \A d \in entries : SamePart(d, e) => d = e
  PROVE  CustodyInv'
<1>1. ledger' = [e \in (DOMAIN ledger) \cup entries |->
                   (IF e \in DOMAIN ledger THEN ledger[e] ELSE 0) + (IF e \in entries THEN 1 ELSE 0)]
  BY DEF Post, SetToBag, (+)
<1>2. DOMAIN ledger' = (DOMAIN ledger) \cup entries
  BY <1>1
<1>3. \A e \in DOMAIN ledger' : IsCustody(e) => ledger'[e] = 1
  <2> SUFFICES ASSUME NEW e \in DOMAIN ledger', IsCustody(e) PROVE ledger'[e] = 1
    OBVIOUS
  <2>1. CASE e \in entries
    <3>1. e \notin DOMAIN ledger
      BY <2>1 DEF SamePart, SameKey
    <3> QED BY <1>1, <2>1, <3>1
  <2>2. CASE e \notin entries
    BY <1>1, <1>2, <2>2 DEF CustodyInv
  <2> QED BY <2>1, <2>2
<1>4. \A d, e \in DOMAIN ledger' : IsCustody(d) /\ IsCustody(e) /\ SamePart(d, e) => d = e
  BY <1>2 DEF CustodyInv, SamePart, SameKey
<1> QED BY <1>1, <1>3, <1>4 DEF CustodyInv

\* A payout adds the credits whose key the ledger does not have.
LEMMA PayoutStep == ASSUME CustodyInv, NEW c, SettleWithdrawalPayout(c) PROVE CustodyInv'
<1> DEFINE entries == {e \in Credits(c) : Fresh(c, e)}
<1>1. \A e \in Credits(c) : e.id = c.id /\ \A d \in Credits(c) : d.kind = e.kind => d = e
  BY DEF Credits, Entry
<1>2. \A e \in entries, d \in DOMAIN ledger : ~(IsCustody(d) /\ SamePart(d, e))
  BY <1>1 DEF Fresh, Custody, BagToSet, IsCustody, SamePart
<1>3. \A d, e \in entries : SamePart(d, e) => d = e
  BY <1>1 DEF SamePart, SameKey
<1>4. Post(entries)
  BY DEF SettleWithdrawalPayout
<1> HIDE DEF entries
<1> QED BY <1>2, <1>3, <1>4, PostStep

LEMMA CustodyStep == CustodyInv /\ Next => CustodyInv'
<1> SUFFICES ASSUME CustodyInv, Next PROVE CustodyInv'
  OBVIOUS
<1>1. CASE ledger' = ledger
  BY <1>1 DEF CustodyInv
<1>2. CASE \E e : ~IsCustody(e) /\ Post({e})
  BY <1>2, PostStep
<1>3. CASE \E c : SettleWithdrawalPayout(c)
  BY <1>3, PayoutStep
<1>4. \A s \in Sessions : FinishRequest(s) \/ FinishRefund(s) => \E e : ~IsCustody(e) /\ Post({e})
  BY DEF FinishRequest, FinishRefund, Entry, IsCustody
<1>5. \A s \in Sessions : FinishPayout(s) => ledger' = ledger \/ \E c : SettleWithdrawalPayout(c)
  BY DEF FinishPayout
<1>6. \A s \in Sessions : FinishAgentOp(s) \/ FinishProof(s) \/ End(s) => ledger' = ledger
  BY DEF FinishAgentOp, FinishProof, End
<1>7. \A s \in Sessions, w \in Ids :
        RequestWithdrawal(s, w) \/ ProcessWithdrawal(s, w) \/ VerifyAgentWithdrawal(s, w) => ledger' = ledger
  BY DEF RequestWithdrawal, ProcessWithdrawal, VerifyAgentWithdrawal, Read
<1>8. \A s \in Sessions, w \in Ids, a \in Agents :
        ClaimWithdrawal(s, w, a) \/ ReleaseWithdrawal(s, w, a) \/ RejectWithdrawalByAgent(s, w, a) => ledger' = ledger
  BY DEF ClaimWithdrawal, ReleaseWithdrawal, RejectWithdrawalByAgent, Read
<1>9. \A s \in Sessions, w \in Ids, a \in Agents, ref \in Refs, fee \in Fees :
        RecordAgentWithdrawalProof(s, w, a, ref, fee) \/ AdminCompleteWithdrawal(s, w, a, ref, fee) => ledger' = ledger
  BY DEF RecordAgentWithdrawalProof, AdminCompleteWithdrawal, Read
<1> QED BY <1>1, <1>2, <1>3, <1>4, <1>5, <1>6, <1>7, <1>8, <1>9 DEF Next

-----------------------------------------------------------------------------
\* The money of withdrawals.  What a row, a wallet, an entry and a call are.
WithdrawalRows ==
  [status : {"none", "pending", "claimed", "awaiting_verification", "completed", "rejected"},
   agent : Agents \cup {Nobody}, ref : Refs \cup {Nobody}, fee : Nat, by : {"nobody", "agent", "admin"}]
Purses == [avail : Nat, reserved : Nat]
Entries == [id : Ids, kind : {"hold", "refund", "receipt", "fee"}, to : Players \cup Agents \cup {House}, n : Int]
Operations == {"request", "approve", "reject", "claim", "release", "agent_reject", "proof",
               "verify_approve", "verify_reject", "complete"}
WithdrawalCalls ==
  [op : Operations, id : Ids, agent : Agents \cup {Nobody}, ref : Refs \cup {Nobody}, fee : Nat,
   row : WithdrawalRows, wallet : Purses, custody : SUBSET Entries]
WithdrawalsTyped ==
  /\ wd \in [Ids -> WithdrawalRows] /\ wallet \in [Players -> Purses]
  /\ IsFiniteSet(DOMAIN ledger) /\ DOMAIN ledger \subseteq Entries /\ \A e \in DOMAIN ledger : ledger[e] \in Nat
  /\ call \in [Sessions -> WithdrawalCalls \cup {NoCall}]
  /\ \A w \in Ids : wd[w].status = "none" => wd[w] = NoRow

\* What a call has checked of what it read.
Checked(c) ==
  /\ c.op = "request" => c.row = NoRow
  /\ c.op # "request" => c.row.status # "none"
  /\ c.op = "approve" => c.row.status = "pending"
  /\ c.op = "reject" => c.row.status \in {"pending", "claimed"}
  /\ c.op = "claim" => c.row.status = "pending" /\ c.agent \in Agents
  /\ c.op \in {"release", "agent_reject", "proof"} => c.row.status = "claimed" /\ c.row.agent \in Agents
  /\ c.op \in {"verify_approve", "verify_reject"} =>
       c.row.status = "awaiting_verification" /\ c.agent = c.row.agent /\ c.ref = c.row.ref /\ c.fee = c.row.fee
  /\ c.op = "complete" => c.row.status = "pending" /\ c.agent \in Agents
  /\ c.op \in {"proof", "complete"} => c.ref \in Refs /\ c.fee < Amount[c.id]
CallsChecked == \A s \in Sessions, c \in WithdrawalCalls : c = call[s] => Checked(c)

\* A row that no call wrote to late.
RowKeeps(r, n) ==
  /\ r.status = "pending" => r.agent = Nobody /\ r.ref = Nobody /\ r.fee = 0
  /\ r.status = "claimed" => r.ref = Nobody /\ r.fee = 0
  /\ r.status = "awaiting_verification" => r.ref # Nobody /\ r.agent # Nobody /\ r.by = "agent" /\ r.fee < n

\* A row is there but while its request is made, by one call.
RequestsAlone ==
  /\ \A s \in Sessions, c \in WithdrawalCalls : c = call[s] => (c.op = "request" <=> wd[c.id].status = "none")
  /\ \A s, q \in Sessions, c, d \in WithdrawalCalls : c = call[s] /\ d = call[q] /\ c.op = "request" /\ c.id = d.id => s = q

RowsKept == \A w \in Ids \ stale : RowKeeps(wd[w], Amount[w])

\* A fee is less than its request, in the row and in what a call has read.
FeesFit ==
  /\ \A w \in Ids : wd[w].fee < Amount[w]
  /\ \A s \in Sessions, c \in WithdrawalCalls : c = call[s] => c.row.fee < Amount[c.id]

WithdrawalInv ==
  /\ WithdrawalsTyped /\ CallsChecked /\ RequestsAlone /\ FeesFit /\ RowsKept
  /\ WalletExplained /\ PaidFromReserve

LEMMA MergedSame == ASSUME NEW new, NEW seen, new = [f \in DOMAIN new |-> new[f]] PROVE Merged(new, seen, seen) = new
BY DEF Merged, Saved

LEMMA MergedRow ==
  ASSUME NEW new \in WithdrawalRows, NEW seen \in WithdrawalRows, NEW newest \in WithdrawalRows
  PROVE  Merged(new, seen, newest) \in WithdrawalRows /\ Merged(new, seen, newest).fee \in {new.fee, newest.fee}
<1>1. DOMAIN new = {"status", "agent", "ref", "fee", "by"}
  BY DEF WithdrawalRows
<1>2. PICK m : m = Merged(new, seen, newest)
  OBVIOUS
<1>3. m = [f \in {"status", "agent", "ref", "fee", "by"} |-> IF new[f] = seen[f] THEN newest[f] ELSE new[f]]
  BY <1>1, <1>2 DEF Merged, Saved
<1>4. m.status \in {new.status, newest.status} /\ m.agent \in {new.agent, newest.agent} /\ m.ref \in {new.ref, newest.ref}
      /\ m.fee \in {new.fee, newest.fee} /\ m.by \in {new.by, newest.by}
  BY <1>3
<1>5. m = [status |-> m.status, agent |-> m.agent, ref |-> m.ref, fee |-> m.fee, by |-> m.by]
  BY <1>3
<1> QED BY <1>2, <1>4, <1>5 DEF WithdrawalRows

LEMMA MergedPurse ==
  ASSUME NEW new \in Purses, NEW seen \in Purses, NEW newest \in Purses
  PROVE  /\ Merged(new, seen, newest) \in Purses
         /\ Merged(new, seen, newest).avail \in {new.avail, newest.avail}
         /\ Merged(new, seen, newest).reserved \in {new.reserved, newest.reserved}
<1>1. DOMAIN new = {"avail", "reserved"}
  BY DEF Purses
<1>2. PICK m : m = Merged(new, seen, newest)
  OBVIOUS
<1>3. m = [f \in {"avail", "reserved"} |-> IF new[f] = seen[f] THEN newest[f] ELSE new[f]]
  BY <1>1, <1>2 DEF Merged, Saved
<1>4. m.avail \in {new.avail, newest.avail} /\ m.reserved \in {new.reserved, newest.reserved}
  BY <1>3
<1>5. m = [avail |-> m.avail, reserved |-> m.reserved]
  BY <1>3
<1> QED BY <1>2, <1>4, <1>5 DEF Purses

\* What posting does to the ledger.
LEMMA Posted ==
  ASSUME WithdrawalsTyped, NEW E, Post(E)
  PROVE  /\ DOMAIN ledger' = (DOMAIN ledger) \cup E
         /\ \A e \in DOMAIN ledger \ E : ledger'[e] = ledger[e]
         /\ \A e \in E : ledger'[e] = (IF e \in DOMAIN ledger THEN ledger[e] ELSE 0) + 1
<1>1. ledger' = [e \in (DOMAIN ledger) \cup E |->
                   (IF e \in DOMAIN ledger THEN ledger[e] ELSE 0) + (IF e \in E THEN 1 ELSE 0)]
  BY DEF Post, SetToBag, (+)
<1>2. ASSUME NEW e \in DOMAIN ledger \ E PROVE ledger'[e] = ledger[e]
  BY <1>1, <1>2 DEF WithdrawalsTyped
<1> QED BY <1>1, <1>2

-----------------------------------------------------------------------------
\* What a step is: a call begins with a read of its row, writes what follows from it, or ends.
Begins(s, c) ==
  /\ call[s] = NoCall /\ call' = [call EXCEPT ![s] = c] /\ UNCHANGED <<wd, wallet, ledger>>
  /\ c.row = wd[c.id] /\ Checked(c)
  /\ c.op = "request" => \A q \in Sessions : call[q].op = "request" => call[q].id # c.id
Finishes(s) == FinishRequest(s) \/ FinishAgentOp(s) \/ FinishProof(s) \/ FinishPayout(s) \/ FinishRefund(s)

LEMMA ReadFits ==
  ASSUME WithdrawalsTyped, NEW s \in Sessions, NEW op \in Operations, NEW w \in Ids, NEW a \in Agents \cup {Nobody},
         NEW ref \in Refs \cup {Nobody}, NEW fee \in Nat, Read(s, op, w, a, ref, fee)
  PROVE  \E c \in WithdrawalCalls :
           /\ call[s] = NoCall /\ call' = [call EXCEPT ![s] = c] /\ UNCHANGED <<wd, wallet, ledger>>
           /\ c.op = op /\ c.id = w /\ c.agent = a /\ c.ref = ref /\ c.fee = fee /\ c.row = wd[w]
<1>1. PICK c : c = [op |-> op, id |-> w, agent |-> a, ref |-> ref, fee |-> fee,
                    row |-> wd[w], wallet |-> wallet[Owner[w]], custody |-> Custody(w)]
  OBVIOUS
<1>2. wd[w] \in WithdrawalRows /\ wallet[Owner[w]] \in Purses
  BY WithdrawalsAssumption DEF WithdrawalsTyped
<1>3. Custody(w) \in SUBSET Entries
  BY DEF WithdrawalsTyped, Custody, BagToSet
<1>4. c \in WithdrawalCalls
  BY <1>1, <1>2, <1>3 DEF WithdrawalCalls
<1> QED BY <1>1, <1>4 DEF Read

LEMMA WithdrawalSteps ==
  ASSUME WithdrawalsTyped, Next
  PROVE  \E s \in Sessions : Finishes(s) \/ End(s) \/ \E c \in WithdrawalCalls : Begins(s, c)
<1>0. PICK s \in Sessions :
        \/ \E w \in Ids :
             \/ RequestWithdrawal(s, w) \/ ProcessWithdrawal(s, w) \/ VerifyAgentWithdrawal(s, w)
             \/ \E a \in Agents :
                  \/ ClaimWithdrawal(s, w, a) \/ ReleaseWithdrawal(s, w, a) \/ RejectWithdrawalByAgent(s, w, a)
                  \/ \E ref \in Refs, fee \in Fees :
                       RecordAgentWithdrawalProof(s, w, a, ref, fee) \/ AdminCompleteWithdrawal(s, w, a, ref, fee)
        \/ Finishes(s) \/ End(s)
  BY Zenon DEF Next, Finishes
<1>s. \A w \in Ids : wd[w] \in WithdrawalRows
  BY DEF WithdrawalsTyped
<1>1. ASSUME NEW w \in Ids, RequestWithdrawal(s, w) PROVE \E c \in WithdrawalCalls : Begins(s, c)
  <2>1. Read(s, "request", w, Nobody, Nobody, 0) /\ wd[w].status = "none"
        /\ \A q \in Sessions : call[q].op = "request" => call[q].id # w
    BY <1>1 DEF RequestWithdrawal
  <2>2. wd[w] = NoRow
    BY <2>1 DEF WithdrawalsTyped
  <2>3. PICK c \in WithdrawalCalls :
           /\ call[s] = NoCall /\ call' = [call EXCEPT ![s] = c] /\ UNCHANGED <<wd, wallet, ledger>>
           /\ c.op = "request" /\ c.id = w /\ c.row = wd[w]
    BY <2>1, ReadFits DEF Operations
  <2> QED BY <2>1, <2>2, <2>3 DEF Begins, Checked
<1>2. ASSUME NEW w \in Ids, ProcessWithdrawal(s, w) PROVE \E c \in WithdrawalCalls : Begins(s, c)
  <2>1. PICK op \in {"approve", "reject"} : wd[w].status \in Settleable(op) /\ Read(s, op, w, Nobody, Nobody, 0)
    BY <1>2 DEF ProcessWithdrawal
  <2>2. PICK c \in WithdrawalCalls :
           /\ call[s] = NoCall /\ call' = [call EXCEPT ![s] = c] /\ UNCHANGED <<wd, wallet, ledger>>
           /\ c.op = op /\ c.id = w /\ c.row = wd[w]
    BY <2>1, ReadFits DEF Operations
  <2>3. IF op = "approve" THEN wd[w].status = "pending" ELSE wd[w].status \in {"pending", "claimed"}
    BY <1>s, <2>1 DEF Settleable, WithdrawalRows
  <2> QED BY <2>1, <2>2, <2>3 DEF Begins, Checked
<1>3. ASSUME NEW w \in Ids, VerifyAgentWithdrawal(s, w) PROVE \E c \in WithdrawalCalls : Begins(s, c)
  <2>1. PICK op \in {"verify_approve", "verify_reject"} :
          wd[w].status = "awaiting_verification" /\ Read(s, op, w, wd[w].agent, wd[w].ref, wd[w].fee)
    BY <1>3 DEF VerifyAgentWithdrawal
  <2>2. PICK a \in Agents \cup {Nobody}, ref \in Refs \cup {Nobody}, fee \in Nat :
          a = wd[w].agent /\ ref = wd[w].ref /\ fee = wd[w].fee
    BY <1>s DEF WithdrawalRows
  <2>3. PICK c \in WithdrawalCalls :
           /\ call[s] = NoCall /\ call' = [call EXCEPT ![s] = c] /\ UNCHANGED <<wd, wallet, ledger>>
           /\ c.op = op /\ c.id = w /\ c.agent = a /\ c.ref = ref /\ c.fee = fee /\ c.row = wd[w]
    <3>1. Read(s, op, w, a, ref, fee)
      BY <2>1, <2>2, Zenon
    <3>2. op \in Operations
      BY DEF Operations
    <3> QED BY <3>1, <3>2, ReadFits
  <2> QED BY <2>1, <2>2, <2>3 DEF Begins, Checked
<1>4. ASSUME NEW w \in Ids, NEW a \in Agents,
             ClaimWithdrawal(s, w, a) \/ ReleaseWithdrawal(s, w, a) \/ RejectWithdrawalByAgent(s, w, a)
      PROVE  \E c \in WithdrawalCalls : Begins(s, c)
  <2>1. PICK op \in {"claim", "release", "agent_reject"} :
          /\ Read(s, op, w, a, Nobody, 0)
          /\ op = "claim" => wd[w].status = "pending"
          /\ op # "claim" => wd[w].status = "claimed" /\ wd[w].agent \in Agents
    BY <1>4 DEF ClaimWithdrawal, ReleaseWithdrawal, RejectWithdrawalByAgent, ClaimedBy
  <2>2. PICK c \in WithdrawalCalls :
           /\ call[s] = NoCall /\ call' = [call EXCEPT ![s] = c] /\ UNCHANGED <<wd, wallet, ledger>>
           /\ c.op = op /\ c.id = w /\ c.row = wd[w] /\ c.agent = a
    BY <2>1, ReadFits DEF Operations
  <2> QED BY <2>1, <2>2 DEF Begins, Checked
<1>5. ASSUME NEW w \in Ids, NEW a \in Agents, NEW ref \in Refs, NEW fee \in Fees,
             RecordAgentWithdrawalProof(s, w, a, ref, fee) \/ AdminCompleteWithdrawal(s, w, a, ref, fee)
      PROVE  \E c \in WithdrawalCalls : Begins(s, c)
  <2>0. fee \in Nat /\ Amount[w] \in Nat
    BY WithdrawalsAssumption
  <2>1. PICK op \in {"proof", "complete"} :
          /\ Read(s, op, w, a, ref, fee) /\ Amount[w] > fee
          /\ op = "proof" => wd[w].status = "claimed" /\ wd[w].agent \in Agents
          /\ op = "complete" => wd[w].status = "pending"
    <3>1. wd[w].status # "processing"
      BY <1>s DEF WithdrawalRows
    <3> QED BY <1>5, <3>1 DEF RecordAgentWithdrawalProof, AdminCompleteWithdrawal, ClaimedBy
  <2>2. PICK c \in WithdrawalCalls :
           /\ call[s] = NoCall /\ call' = [call EXCEPT ![s] = c] /\ UNCHANGED <<wd, wallet, ledger>>
           /\ c.op = op /\ c.id = w /\ c.row = wd[w] /\ c.agent = a /\ c.ref = ref /\ c.fee = fee
    BY <2>0, <2>1, ReadFits DEF Operations
  <2> QED BY <2>0, <2>1, <2>2 DEF Begins, Checked
<1> QED BY <1>0, <1>1, <1>2, <1>3, <1>4, <1>5, Zenon

-----------------------------------------------------------------------------
\* What a finished call writes to its row: n, unless save left out a column.
Writes(c, n) ==
  /\ c.op = "request" => n = [NoRow EXCEPT !.status = "pending"]
  /\ c.op = "claim" => n = [c.row EXCEPT !.status = "claimed", !.agent = c.agent]
  /\ c.op = "release" => n = [c.row EXCEPT !.status = "pending", !.agent = Nobody]
  /\ c.op = "agent_reject" => n = [c.row EXCEPT !.status = "rejected", !.by = "agent"]
  /\ c.op = "proof" => n = [c.row EXCEPT !.status = "awaiting_verification", !.ref = c.ref, !.fee = c.fee, !.by = "agent"]
  /\ c.op = "approve" => n = [c.row EXCEPT !.status = "completed", !.by = "admin"]
  /\ c.op = "verify_approve" => n = [c.row EXCEPT !.status = "completed"]
  /\ c.op = "complete" => n = [c.row EXCEPT !.status = "completed", !.agent = c.agent, !.ref = c.ref, !.fee = c.fee, !.by = "admin"]
  /\ c.op = "reject" => n = [c.row EXCEPT !.status = "rejected", !.by = "admin"]
  /\ c.op = "verify_reject" => n = [c.row EXCEPT !.status = "rejected"]
WritesColumns(c, n) ==
  LET is(status, agent, ref, fee, by) ==
        n.status = status /\ n.agent = agent /\ n.ref = ref /\ n.fee = fee /\ n.by = by IN
  /\ c.op = "request" => is("pending", Nobody, Nobody, 0, "nobody")
  /\ c.op = "claim" => is("claimed", c.agent, c.row.ref, c.row.fee, c.row.by)
  /\ c.op = "release" => is("pending", Nobody, c.row.ref, c.row.fee, c.row.by)
  /\ c.op = "agent_reject" => is("rejected", c.row.agent, c.row.ref, c.row.fee, "agent")
  /\ c.op = "proof" => is("awaiting_verification", c.row.agent, c.ref, c.fee, "agent")
  /\ c.op = "approve" => is("completed", c.row.agent, c.row.ref, c.row.fee, "admin")
  /\ c.op = "verify_approve" => is("completed", c.row.agent, c.row.ref, c.row.fee, c.row.by)
  /\ c.op = "complete" => is("completed", c.agent, c.ref, c.fee, "admin")
  /\ c.op = "reject" => is("rejected", c.row.agent, c.row.ref, c.row.fee, "admin")
  /\ c.op = "verify_reject" => is("rejected", c.row.agent, c.row.ref, c.row.fee, c.row.by)

LEMMA WritesRow ==
  ASSUME NEW c \in WithdrawalCalls, NEW n, Writes(c, n)
  PROVE  n \in WithdrawalRows /\ n.status # "none" /\ WritesColumns(c, n)
<1>1. /\ c.row \in WithdrawalRows /\ c.agent \in Agents \cup {Nobody} /\ c.ref \in Refs \cup {Nobody} /\ c.fee \in Nat
      /\ c.op \in Operations
  BY DEF WithdrawalCalls
<1>2. NoRow \in WithdrawalRows
  BY DEF NoRow, WithdrawalRows
<1>3. CASE c.op = "request"
  BY <1>2, <1>3 DEF Writes, WritesColumns, WithdrawalRows, NoRow
<1>4. CASE c.op \in {"claim", "release", "agent_reject"}
  BY <1>1, <1>4 DEF Writes, WritesColumns, WithdrawalRows
<1>5. CASE c.op = "proof"
  BY <1>1, <1>5 DEF Writes, WritesColumns, WithdrawalRows
<1>6. CASE c.op = "complete"
  BY <1>1, <1>6 DEF Writes, WritesColumns, WithdrawalRows
<1>7. CASE c.op \in {"approve", "verify_approve", "reject", "verify_reject"}
  BY <1>1, <1>7 DEF Writes, WritesColumns, WithdrawalRows
<1> QED BY <1>1, <1>3, <1>4, <1>5, <1>6, <1>7 DEF Operations

\* The row a call writes, whatever save leaves out.
LEMMA RowWritten ==
  ASSUME WithdrawalsTyped, CallsChecked, RequestsAlone,
         NEW s \in Sessions, NEW c \in WithdrawalCalls, c = call[s], Finishes(s)
  PROVE  \E n, r \in WithdrawalRows :
           /\ Writes(c, n) /\ wd' = [wd EXCEPT ![c.id] = r] /\ r.status # "none" /\ r.fee \in {n.fee, wd[c.id].fee}
           /\ c.row = wd[c.id] => r = n
<1>1. wd[c.id] \in WithdrawalRows /\ c.row \in WithdrawalRows
  BY DEF WithdrawalsTyped, WithdrawalCalls
<1>2. ASSUME NEW n, Writes(c, n), SaveRow(s, n)
      PROVE  \E r \in WithdrawalRows :
               /\ wd' = [wd EXCEPT ![c.id] = r] /\ r.status # "none" /\ r.fee \in {n.fee, wd[c.id].fee}
               /\ c.row = wd[c.id] => r = n
  <2>1. n \in WithdrawalRows /\ n.status # "none"
    BY <1>2, WritesRow
  <2>2. PICK o : o = wd[c.id]
    OBVIOUS
  <2>3. PICK r : r = Merged(n, c.row, o)
    OBVIOUS
  <2>4. wd' = [wd EXCEPT ![c.id] = r]
    BY <1>2, <2>2, <2>3 DEF SaveRow
  <2>5. r \in WithdrawalRows /\ r.fee \in {n.fee, o.fee}
    BY <1>1, <2>1, <2>2, <2>3, MergedRow
  <2>6. n = [f \in DOMAIN n |-> n[f]]
    BY <2>1 DEF WithdrawalRows
  <2>7. c.row = o => r = n
    BY <2>3, <2>6, MergedSame
  <2>8. r.status # "none"
    <3>1. "status" \in DOMAIN n
      BY <2>1 DEF WithdrawalRows
    <3>2. r["status"] = Saved(n["status"], c.row["status"], o["status"])
      BY <2>3, <3>1 DEF Merged
    <3>3. r.status = n.status \/ (n.status = c.row.status /\ r.status = o.status)
      BY <3>2 DEF Saved
    <3>4. CASE c.op = "request"
      <4>1. c.row.status = "none"
        BY <3>4 DEF CallsChecked, Checked, NoRow
      <4> QED BY <2>1, <3>3, <4>1
    <3>5. CASE c.op # "request"
      <4>1. o.status # "none"
        BY <2>2, <3>5 DEF RequestsAlone
      <4> QED BY <2>1, <3>3, <4>1
    <3> QED BY <3>4, <3>5
  <2> QED BY <2>2, <2>4, <2>5, <2>7, <2>8
<1>3. ASSUME NEW n, Writes(c, n), wd' = [wd EXCEPT ![c.id] = n]
      PROVE  \E r \in WithdrawalRows :
               /\ wd' = [wd EXCEPT ![c.id] = r] /\ r.status # "none" /\ r.fee \in {n.fee, wd[c.id].fee}
               /\ c.row = wd[c.id] => r = n
  BY <1>3, WritesRow
<1>4. \E n : Writes(c, n) /\ (SaveRow(s, n) \/ wd' = [wd EXCEPT ![c.id] = n])
  <2>1. CASE FinishRequest(s)
    BY <2>1 DEF FinishRequest, Writes
  <2>2. CASE FinishAgentOp(s)
    <3>1. c.op \in {"claim", "release", "agent_reject"} /\ wd' = [wd EXCEPT ![c.id] = AfterAgentOp(c)]
      BY <2>2 DEF FinishAgentOp
    <3>2. CASE c.op = "claim"
      BY <3>1, <3>2 DEF AfterAgentOp, Writes
    <3>3. CASE c.op = "release"
      BY <3>1, <3>3 DEF AfterAgentOp, Writes
    <3>4. CASE c.op = "agent_reject"
      BY <3>1, <3>4 DEF AfterAgentOp, Writes
    <3> QED BY <3>1, <3>2, <3>3, <3>4
  <2>3. CASE FinishProof(s)
    BY <2>3 DEF FinishProof, Writes
  <2>4. CASE FinishPayout(s)
    <3>1. c.op \in {"approve", "verify_approve", "complete"} /\ SaveRow(s, PaidRow(c))
      BY <2>4 DEF FinishPayout, PayingOps
    <3>2. CASE c.op = "approve"
      BY <3>1, <3>2 DEF PaidRow, Writes
    <3>3. CASE c.op = "verify_approve"
      BY <3>1, <3>3 DEF PaidRow, Writes
    <3>4. CASE c.op = "complete"
      BY <3>1, <3>4 DEF PaidRow, Writes
    <3> QED BY <3>1, <3>2, <3>3, <3>4
  <2>5. CASE FinishRefund(s)
    <3>1. /\ c.op \in {"reject", "verify_reject"}
          /\ SaveRow(s, [c.row EXCEPT !.status = "rejected", !.by = IF c.op = "reject" THEN "admin" ELSE @])
      BY <2>5 DEF FinishRefund, RefundingOps
    <3>2. CASE c.op = "reject"
      BY <3>1, <3>2 DEF Writes
    <3>3. CASE c.op = "verify_reject"
      <4>1. [c.row EXCEPT !.status = "rejected", !.by = IF c.op = "reject" THEN "admin" ELSE @] = [c.row EXCEPT !.status = "rejected"]
        BY <1>1, <3>3 DEF WithdrawalRows
      <4> QED BY <3>1, <3>3, <4>1 DEF Writes
    <3> QED BY <3>1, <3>2, <3>3
  <2> QED BY <2>1, <2>2, <2>3, <2>4, <2>5 DEF Finishes
<1>5. PICK n : Writes(c, n) /\ (SaveRow(s, n) \/ wd' = [wd EXCEPT ![c.id] = n])
  BY <1>4
<1>6. \E r \in WithdrawalRows :
        /\ wd' = [wd EXCEPT ![c.id] = r] /\ r.status # "none" /\ r.fee \in {n.fee, wd[c.id].fee}
        /\ c.row = wd[c.id] => r = n
  BY <1>2, <1>3, <1>5
<1> QED BY <1>5, <1>6, WritesRow

\* What it does to the wallet, whatever save leaves out, and what it posts.
PurseMoves(c, o, x) ==
  LET n == Amount[c.id] IN
  /\ c.op \in AgentOps => x = o
  /\ c.op = "request" => x.avail \in {o.avail - n, o.avail} /\ x.reserved \in {o.reserved + n, o.reserved}
  /\ c.op \in {"approve", "verify_approve", "complete"} => x.avail = o.avail /\ x.reserved \in {o.reserved - n, o.reserved}
  /\ c.op \in RefundingOps => x.avail \in {o.avail + n, o.avail} /\ x.reserved \in {o.reserved - n, o.reserved}

LEMMA PurseWritten ==
  ASSUME WithdrawalsTyped, NEW s \in Sessions, NEW c \in WithdrawalCalls, c = call[s], Finishes(s),
         NEW p, p = Owner[c.id]
  PROVE  \E x \in Purses : wallet' = [wallet EXCEPT ![p] = x] /\ PurseMoves(c, wallet[p], x)
<1>1. PICK o \in Purses, seen \in Purses : o = wallet[p] /\ seen = c.wallet
  BY WithdrawalsAssumption DEF WithdrawalsTyped, WithdrawalCalls
<1>2. o.avail \in Nat /\ o.reserved \in Nat
  BY DEF Purses
<1>3. PICK n \in Nat : n = Amount[c.id]
  BY WithdrawalsAssumption DEF WithdrawalCalls
<1>4. ASSUME NEW a \in Nat, NEW b \in Nat, MoveTo(s, a, b)
      PROVE  \E x \in Purses : wallet' = [wallet EXCEPT ![p] = x] /\ x.avail \in {a, o.avail} /\ x.reserved \in {b, o.reserved}
  <2>1. PICK m : m = [avail |-> a, reserved |-> b]
    OBVIOUS
  <2>2. m \in Purses /\ m.avail = a /\ m.reserved = b
    BY <2>1 DEF Purses
  <2>3. wallet' = [wallet EXCEPT ![p] = Merged(m, seen, o)]
    BY <1>1, <1>4, <2>1, Zenon DEF MoveTo
  <2> QED BY <2>2, <2>3, MergedPurse
<1>5. CASE FinishRequest(s)
  <2>1. c.op = "request" /\ o.avail >= n /\ MoveTo(s, o.avail - n, o.reserved + n)
    BY <1>1, <1>3, <1>5 DEF FinishRequest, Available, Locked
  <2>2. PICK a \in Nat, b \in Nat : a = o.avail - n /\ b = o.reserved + n
    BY <1>2, <2>1
  <2>3. MoveTo(s, a, b)
    BY <2>1, <2>2, Zenon
  <2>4. PICK x \in Purses : wallet' = [wallet EXCEPT ![p] = x] /\ x.avail \in {a, o.avail} /\ x.reserved \in {b, o.reserved}
    BY <1>2, <1>4, <2>3, Zenon
  <2>5. PurseMoves(c, o, x)
    BY <1>3, <2>1, <2>2, <2>4 DEF PurseMoves, AgentOps, RefundingOps
  <2> QED BY <1>1, <2>4, <2>5
<1>6. CASE FinishAgentOp(s) \/ FinishProof(s)
  <2>1. c.op \in AgentOps /\ wallet' = wallet
    BY <1>6 DEF FinishAgentOp, FinishProof, AgentOps
  <2>2. wallet' = [wallet EXCEPT ![p] = o]
    BY <1>1, <2>1 DEF WithdrawalsTyped
  <2> QED BY <1>1, <2>1, <2>2 DEF PurseMoves, AgentOps, RefundingOps
<1>7. CASE FinishPayout(s)
  <2>1. c.op \in {"approve", "verify_approve", "complete"} /\ o.reserved >= n /\ MoveTo(s, o.avail, o.reserved - n)
    BY <1>1, <1>3, <1>7 DEF FinishPayout, Unreserved, Locked, PayingOps
  <2>2. PICK b \in Nat : b = o.reserved - n
    BY <1>2, <2>1
  <2>3. MoveTo(s, o.avail, b)
    BY <2>1, <2>2, Zenon
  <2>4. PICK x \in Purses : wallet' = [wallet EXCEPT ![p] = x] /\ x.avail \in {o.avail, o.avail} /\ x.reserved \in {b, o.reserved}
    BY <1>2, <1>4, <2>3, Zenon
  <2>5. PurseMoves(c, o, x)
    BY <1>3, <2>1, <2>2, <2>4 DEF PurseMoves, AgentOps, RefundingOps
  <2> QED BY <1>1, <2>4, <2>5
<1>8. CASE FinishRefund(s)
  <2>1. c.op \in RefundingOps /\ o.reserved >= n /\ MoveTo(s, o.avail + n, o.reserved - n)
    BY <1>1, <1>3, <1>8 DEF FinishRefund, Unreserved, Locked, LessReserved
  <2>2. PICK a \in Nat, b \in Nat : a = o.avail + n /\ b = o.reserved - n
    BY <1>2, <2>1
  <2>3. MoveTo(s, a, b)
    BY <2>1, <2>2, Zenon
  <2>4. PICK x \in Purses : wallet' = [wallet EXCEPT ![p] = x] /\ x.avail \in {a, o.avail} /\ x.reserved \in {b, o.reserved}
    BY <1>2, <1>4, <2>3, Zenon
  <2>5. PurseMoves(c, o, x)
    BY <1>3, <2>1, <2>2, <2>4 DEF PurseMoves, AgentOps, RefundingOps
  <2> QED BY <1>1, <2>4, <2>5
<1> QED BY <1>5, <1>6, <1>7, <1>8 DEF Finishes

LEMMA EntriesPosted ==
  ASSUME NEW s, NEW c, c = call[s], Finishes(s)
  PROVE  /\ c.op = "request" => Post({Entry(c.id, "hold", Owner[c.id], Amount[c.id])})
         /\ c.op \in RefundingOps => Post({Entry(c.id, "refund", Owner[c.id], Amount[c.id])})
         /\ c.op \in PayingOps => c.agent # Nobody /\ Post({e \in Credits(c) : Fresh(c, e)})
         /\ c.op \notin {"request"} \cup RefundingOps \cup PayingOps => ledger' = ledger
<1>1. CASE FinishRequest(s)
  BY <1>1 DEF FinishRequest, RefundingOps, PayingOps
<1>2. CASE FinishAgentOp(s) \/ FinishProof(s)
  BY <1>2 DEF FinishAgentOp, FinishProof, RefundingOps, PayingOps
<1>3. CASE FinishPayout(s)
  BY <1>3 DEF FinishPayout, SettleWithdrawalPayout, RefundingOps, PayingOps
<1>4. CASE FinishRefund(s)
  BY <1>4 DEF FinishRefund, RefundingOps, PayingOps
<1> QED BY <1>1, <1>2, <1>3, <1>4 DEF Finishes

\* What it leaves in the history.
LEMMA Recorded ==
  ASSUME WithdrawalsTyped, MCNext, NEW s \in Sessions, NEW c \in WithdrawalCalls, c = call[s], Finishes(s), Wrote
  PROVE  /\ call' = [call EXCEPT ![s] = NoCall]
         /\ c.row # wd[c.id] => c.id \in stale'
         /\ c.op \notin AgentOps /\ wallet'[Owner[c.id]].reserved = wallet[Owner[c.id]].reserved => Owner[c.id] \in skipped'
         /\ c.op \in {"request"} \cup RefundingOps /\ wallet'[Owner[c.id]].avail = wallet[Owner[c.id]].avail =>
              Owner[c.id] \in skipped'
<1>1. call' = [call EXCEPT ![s] = NoCall]
  BY DEF Finishes, FinishRequest, FinishAgentOp, FinishProof, FinishPayout, FinishRefund, Done
<1>2. call'[s] = NoCall
  BY <1>1 DEF WithdrawalsTyped
<1>3. call[s] # NoCall
  BY DEF WithdrawalCalls, NoCall, Operations
<1>4. s \in Finishing
  BY <1>2, <1>3 DEF Finishing
<1>5. c.row # wd[c.id] => s \in Late
  BY <1>4 DEF Late
<1>7. c.op \notin AgentOps /\ wallet'[Owner[c.id]]["reserved"] = wallet[Owner[c.id]]["reserved"] => s \in Skip
  BY <1>4 DEF Skip, Unmoved
<1>8. c.op \in {"request"} \cup RefundingOps /\ wallet'[Owner[c.id]]["avail"] = wallet[Owner[c.id]]["avail"] => s \in Skip
  BY <1>4 DEF Skip, Unmoved
<1>9. /\ stale' = stale \cup {call[q].id : q \in Late}
      /\ skipped' = skipped \cup {Owner[call[q].id] : q \in Skip}
  BY DEF MCNext
<1> QED BY <1>1, <1>5, <1>7, <1>8, <1>9

-----------------------------------------------------------------------------
\* What a posting changes in the sums over the ledger.
Like(v, k) == {e \in DOMAIN ledger : e.id = v /\ e.kind = k}

LEMMA TimesIs == ASSUME NEW v, NEW k PROVE Times(v, k) = SumFunctionOnSet(ledger, Like(v, k))
BY DEF Times, Like, BagToSet

LEMMA LikeFinite ==
  ASSUME WithdrawalsTyped, NEW v, NEW k
  PROVE  IsFiniteSet(Like(v, k)) /\ (\A e \in Like(v, k) : ledger[e] \in Nat) /\ Times(v, k) \in Nat
<1>1. IsFiniteSet(Like(v, k)) /\ \A e \in Like(v, k) : ledger[e] \in Nat
  <2>1. Like(v, k) \subseteq DOMAIN ledger
    BY DEF Like
  <2> QED BY <2>1, FS_Subset DEF WithdrawalsTyped
<1>2. PICK f, S : f = ledger /\ S = Like(v, k)
  OBVIOUS
<1>3. SumFunctionOnSet(f, S) \in Nat
  BY <1>1, <1>2, SumNat
<1> QED BY <1>1, <1>2, <1>3, TimesIs

LEMMA TimesKept ==
  ASSUME WithdrawalsTyped, NEW v, NEW k, ledger' = ledger \/ \E E : Post(E) /\ \A e \in E : e.id # v \/ e.kind # k
  PROVE  Times(v, k)' = Times(v, k)
<1>1. CASE ledger' = ledger
  BY <1>1 DEF Times
<1>2. ASSUME NEW E, Post(E), \A e \in E : e.id # v \/ e.kind # k PROVE Times(v, k)' = Times(v, k)
  <2>1. PICK S, T, f, g : S = Like(v, k) /\ T = Like(v, k)' /\ f = ledger /\ g = ledger'
    OBVIOUS
  <2>2. T = S /\ \A e \in S : g[e] = f[e]
    BY <1>2, <2>1, Posted DEF Like
  <2>3. IsFiniteSet(S)
    BY <2>1, LikeFinite
  <2>4. SumFunctionOnSet(g, S) = SumFunctionOnSet(f, S)
    BY <2>2, <2>3, SumEqual
  <2>5. Times(v, k)' = SumFunctionOnSet(g, T)
    BY <2>1 DEF Times, Like, BagToSet
  <2> QED BY <2>1, <2>2, <2>4, <2>5, TimesIs
<1> QED BY <1>1, <1>2

LEMMA TimesMore ==
  ASSUME WithdrawalsTyped, NEW e, Post({e}) PROVE Times(e.id, e.kind)' = Times(e.id, e.kind) + 1
<1>1. PICK v, k : v = e.id /\ k = e.kind
  OBVIOUS
<1>2. PICK S, T, f, g : S = Like(v, k) /\ T = Like(v, k)' /\ f = ledger /\ g = ledger'
  OBVIOUS
<1>3. T = S \cup {e} /\ (\A x \in S \ {e} : g[x] = f[x]) /\ (e \in S => g[e] = f[e] + 1) /\ (e \notin S => g[e] = 1)
  <2>1. PICK E : E = {e} /\ Post(E)
    OBVIOUS
  <2>2. /\ DOMAIN g = (DOMAIN f) \cup E /\ \A x \in DOMAIN f \ E : g[x] = f[x]
        /\ \A x \in E : g[x] = (IF x \in DOMAIN f THEN f[x] ELSE 0) + 1
    BY <1>2, <2>1, Posted
  <2>3. S = {x \in DOMAIN f : x.id = v /\ x.kind = k} /\ T = {x \in DOMAIN g : x.id = v /\ x.kind = k}
    BY <1>2 DEF Like
  <2>4. e \in S <=> e \in DOMAIN f
    BY <1>1, <2>3
  <2> QED BY <1>1, <2>1, <2>2, <2>3, <2>4
<1>4. IsFiniteSet(S) /\ \A x \in S : f[x] \in Nat
  BY <1>2, LikeFinite
<1>5. SumFunctionOnSet(g, T) = SumFunctionOnSet(f, S) + 1
  <2>0. SumFunctionOnSet(f, S) \in Int
    BY <1>4, SumInt
  <2>1. CASE e \in S
    <3>1. T = S /\ \A x \in S : f[x] \in Int /\ g[x] \in Int
      BY <1>3, <1>4, <2>1
    <3>2. SumFunctionOnSet(g, S) = SumFunctionOnSet(f, S) - f[e] + g[e]
      BY <1>3, <1>4, <2>1, <3>1, SumChange
    <3>3. f[e] \in Int /\ g[e] = f[e] + 1
      BY <1>3, <1>4, <2>1
    <3> QED BY <2>0, <3>1, <3>2, <3>3
  <2>2. CASE e \notin S
    <3>1. \A x \in S : g[x] = f[x]
      BY <1>3, <2>2
    <3>2. SumFunctionOnSet(g, S) = SumFunctionOnSet(f, S)
      BY <1>4, <3>1, SumEqual
    <3>3. \A x \in S \cup {e} : g[x] \in Int
      BY <1>3, <1>4, <2>2
    <3>4. SumFunctionOnSet(g, S \cup {e}) = SumFunctionOnSet(g, S) + g[e]
      BY <1>4, <2>2, <3>3, SumAdd
    <3> QED BY <1>3, <2>0, <2>2, <3>2, <3>4
  <2> QED BY <2>1, <2>2
<1>6. Times(v, k)' = SumFunctionOnSet(g, T)
  BY <1>2 DEF Times, Like, BagToSet
<1> QED BY <1>1, <1>2, <1>5, <1>6, TimesIs

LEMMA LedgerTyped ==
  ASSUME WithdrawalsTyped, NEW E \in SUBSET Entries, IsFiniteSet(E), Post(E)
  PROVE  IsFiniteSet(DOMAIN ledger') /\ DOMAIN ledger' \subseteq Entries /\ \A e \in DOMAIN ledger' : ledger'[e] \in Nat
<1>1. IsFiniteSet(DOMAIN ledger') /\ DOMAIN ledger' \subseteq Entries
  <2>1. PICK D : D = DOMAIN ledger
    OBVIOUS
  <2>2. IsFiniteSet(D \cup E)
    BY <2>1, FS_Union DEF WithdrawalsTyped
  <2>3. D \subseteq Entries
    BY <2>1 DEF WithdrawalsTyped
  <2>4. DOMAIN ledger' = D \cup E
    BY <2>1, Posted
  <2> QED BY <2>2, <2>3, <2>4
<1>2. ASSUME NEW e \in DOMAIN ledger' PROVE ledger'[e] \in Nat
  <2>1. e \in DOMAIN ledger => ledger[e] \in Nat
    BY DEF WithdrawalsTyped
  <2>2. PICK f, g : f = ledger /\ g = ledger'
    OBVIOUS
  <2>3. /\ DOMAIN g = (DOMAIN f) \cup E /\ \A x \in DOMAIN f \ E : g[x] = f[x]
        /\ \A x \in E : g[x] = (IF x \in DOMAIN f THEN f[x] ELSE 0) + 1
    BY <2>2, Posted
  <2> QED BY <2>1, <2>2, <2>3
<1> QED BY <1>1, <1>2

\* Custody: the entries of a payout.
PaidSet(w, to) == {e \in Custody(w) : e.to \in to}
LEMMA PaidIs ==
  ASSUME NEW w, NEW to
  PROVE  Paid(w, to) = SumFunctionOnSet([e \in PaidSet(w, to) |-> e.n * ledger[e]], PaidSet(w, to))
BY DEF Paid, PaidSet

LEMMA CustodyKept ==
  ASSUME WithdrawalsTyped, NEW w,
         ledger' = ledger \/ \E E : Post(E) /\ \A e \in E : e.id # w \/ e.kind \notin {"receipt", "fee"}
  PROVE  Custody(w)' = Custody(w) /\ \A to : Paid(w, to)' = Paid(w, to)
<1>1. CASE ledger' = ledger
  BY <1>1 DEF Custody, Paid
<1>2. ASSUME NEW E, Post(E), \A e \in E : e.id # w \/ e.kind \notin {"receipt", "fee"}
      PROVE  Custody(w)' = Custody(w) /\ \A e \in Custody(w) : ledger'[e] = ledger[e]
  BY <1>2, Posted DEF Custody, BagToSet
<1>3. ASSUME NEW to, Custody(w)' = Custody(w), \A e \in Custody(w) : ledger'[e] = ledger[e] PROVE Paid(w, to)' = Paid(w, to)
  <2>1. PICK S, T : S = PaidSet(w, to) /\ T = PaidSet(w, to)'
    OBVIOUS
  <2>2. T = S /\ \A e \in S : ledger'[e] = ledger[e]
    BY <1>3, <2>1 DEF PaidSet
  <2>3. [e \in T |-> e.n * ledger'[e]] = [e \in S |-> e.n * ledger[e]]
    BY <2>2
  <2>4. Paid(w, to)' = SumFunctionOnSet([e \in T |-> e.n * ledger'[e]], T)
    BY <2>1 DEF Paid, PaidSet
  <2>5. Paid(w, to) = SumFunctionOnSet([e \in S |-> e.n * ledger[e]], S)
    BY <2>1 DEF Paid, PaidSet
  <2> QED BY <2>2, <2>3, <2>4, <2>5
<1> QED BY <1>1, <1>2, <1>3

LEMMA PaidInt == ASSUME WithdrawalsTyped, NEW w, NEW to PROVE Paid(w, to) \in Int /\ IsFiniteSet(PaidSet(w, to))
<1>1. PICK S, g : S = PaidSet(w, to) /\ g = [e \in S |-> e.n * ledger[e]]
  OBVIOUS
<1>2. S \subseteq DOMAIN ledger /\ IsFiniteSet(DOMAIN ledger)
  BY <1>1 DEF PaidSet, Custody, BagToSet, WithdrawalsTyped
<1>3. IsFiniteSet(S)
  BY <1>2, FS_Subset
<1>4. ASSUME NEW e \in S PROVE g[e] \in Int
  <2>1. PICK n \in Int, k \in Nat : n = e.n /\ k = ledger[e]
    BY <1>2 DEF WithdrawalsTyped, Entries
  <2>2. n * k \in Int
    OBVIOUS
  <2> QED BY <1>1, <2>1, <2>2
<1>5. SumFunctionOnSet(g, S) \in Int
  BY <1>3, <1>4, SumInt
<1> QED BY <1>1, <1>3, <1>5, PaidIs

\* The receipt of the agent and the fee, whichever of them is new, are no more than the amount.
LEMMA CreditsBounded ==
  ASSUME WithdrawalsTyped, NEW c \in WithdrawalCalls, c.op \in PayingOps, c.agent \in Agents, c.fee < Amount[c.id],
         Post({e \in Credits(c) : Fresh(c, e)})
  PROVE  /\ Paid(c.id, Agents \cup {House})' \in Int
         /\ Paid(c.id, Agents \cup {House})' <= Paid(c.id, Agents \cup {House}) + Amount[c.id]
<1>0. PICK w \in Ids, a \in Agents, X \in SUBSET (Agents \cup {House}) : w = c.id /\ a = c.agent /\ X = Agents \cup {House}
  BY DEF WithdrawalCalls
<1>1. PICK n \in Nat, f \in Nat : n = Amount[w] /\ f = c.fee /\ f < n
  BY <1>0, WithdrawalsAssumption DEF WithdrawalCalls
<1>2. PICK to : to = FeeTo(c) /\ to \in X
  BY <1>0 DEF FeeTo, PayingOps
<1>3. PICK r, q : r = Entry(w, "receipt", a, n - f) /\ q = Entry(w, "fee", to, f)
  OBVIOUS
<1>4. /\ r.id = w /\ r.kind = "receipt" /\ r.to = a /\ r.n = n - f
      /\ q.id = w /\ q.kind = "fee" /\ q.to = to /\ q.n = f /\ r # q
  BY <1>3 DEF Entry
<1>5. PICK C : C = {e \in Credits(c) : Fresh(c, e)} /\ C \subseteq {r, q} /\ \A e \in C : e \notin Custody(w)
  <2>1. Credits(c) \subseteq {r, q}
    BY <1>0, <1>1, <1>2, <1>3 DEF Credits
  <2> QED BY <1>0, <2>1 DEF Fresh, SameKey
<1>6. PICK S, T, f0, g : /\ S = PaidSet(w, X) /\ T = PaidSet(w, X)'
                         /\ f0 = [e \in S |-> e.n * ledger[e]] /\ g = [e \in T |-> e.n * ledger'[e]]
  OBVIOUS
<1>7. T = S \cup C /\ S \cap C = {} /\ (\A e \in S : g[e] = f0[e]) /\ \A e \in C : g[e] = e.n * 1
  <2>1. /\ DOMAIN ledger' = (DOMAIN ledger) \cup C /\ \A e \in DOMAIN ledger \ C : ledger'[e] = ledger[e]
        /\ \A e \in C : ledger'[e] = (IF e \in DOMAIN ledger THEN ledger[e] ELSE 0) + 1
    BY <1>5, Posted
  <2>2. \A e \in C : e.id = w /\ e.kind \in {"receipt", "fee"} /\ e.to \in X
    BY <1>0, <1>2, <1>4, <1>5
  <2>3. \A e \in C : e \notin DOMAIN ledger
    BY <1>5, <2>2 DEF Custody, BagToSet
  <2>4. T = S \cup C /\ S \cap C = {}
    BY <1>5, <1>6, <2>1, <2>2 DEF PaidSet, Custody, BagToSet
  <2>5. \A e \in S : ledger'[e] = ledger[e]
    BY <1>6, <2>1, <2>4 DEF PaidSet, Custody, BagToSet
  <2>6. \A e \in C : ledger'[e] = 1
    BY <2>1, <2>3
  <2> QED BY <1>6, <2>4, <2>5, <2>6
<1>8. IsFiniteSet(S) /\ Paid(w, X) \in Int /\ Paid(w, X) = SumFunctionOnSet(f0, S) /\ Paid(w, X)' = SumFunctionOnSet(g, T)
  <2>1. Paid(w, X)' = SumFunctionOnSet(g, T)
    BY <1>6 DEF Paid, PaidSet
  <2> QED BY <1>6, <2>1, PaidInt, PaidIs
<1>9. SumFunctionOnSet(g, S) = SumFunctionOnSet(f0, S)
  BY <1>7, <1>8, SumEqual
<1>10. IsFiniteSet(C) /\ SumFunctionOnSet(g, C) \in Int /\ SumFunctionOnSet(g, C) <= n
  <2>1. (r \in C => g[r] = n - f) /\ (q \in C => g[q] = f)
    BY <1>1, <1>4, <1>7
  <2>2. CASE C = {}
    BY <1>1, <2>2, SumEmpty, FS_EmptySet
  <2>3. CASE C = {r}
    <3>1. SumFunctionOnSet(g, {r}) = g[r]
      <4>1. r \in C
        BY <2>3
      <4>2. g[r] \in Int
        BY <1>1, <2>1, <4>1
      <4> QED BY <4>2, SumSingle
    <3>2. IsFiniteSet({r})
      BY FS_Singleton
    <3>3. SumFunctionOnSet(g, C) = g[r] /\ IsFiniteSet(C)
      BY <2>3, <3>1, <3>2
    <3> QED BY <1>1, <2>1, <2>3, <3>3
  <2>4. CASE C = {q}
    <3>1. SumFunctionOnSet(g, {q}) = g[q]
      <4>1. q \in C
        BY <2>4
      <4>2. g[q] \in Int
        BY <1>1, <2>1, <4>1
      <4> QED BY <4>2, SumSingle
    <3>2. IsFiniteSet({q})
      BY FS_Singleton
    <3>3. SumFunctionOnSet(g, C) = g[q] /\ IsFiniteSet(C)
      BY <2>4, <3>1, <3>2
    <3> QED BY <1>1, <2>1, <2>4, <3>3
  <2>5. CASE C = {r, q}
    <3>1. PICK M : M = {r} /\ IsFiniteSet(M)
      BY FS_Singleton
    <3>2. q \notin M /\ C = M \cup {q} /\ \A e \in M \cup {q} : g[e] \in Int
      BY <1>1, <1>4, <2>1, <2>5, <3>1
    <3>3. SumFunctionOnSet(g, M \cup {q}) = SumFunctionOnSet(g, M) + g[q]
      BY <3>1, <3>2, SumAdd
    <3>4. SumFunctionOnSet(g, {r}) = g[r]
      <4>1. r \in C
        BY <2>5
      <4>2. g[r] \in Int
        BY <1>1, <2>1, <4>1
      <4> QED BY <4>2, SumSingle
    <3>5. IsFiniteSet(C)
      BY <3>1, <3>2, FS_AddElement
    <3>6. g[r] = n - f /\ g[q] = f
      BY <2>1, <2>5
    <3>7. SumFunctionOnSet(g, C) = g[r] + g[q]
      BY <3>1, <3>2, <3>3, <3>4
    <3>8. (n - f) + f = n /\ n \in Int
      BY <1>1
    <3> QED BY <3>5, <3>6, <3>7, <3>8
  <2> QED BY <1>5, <2>2, <2>3, <2>4, <2>5
<1>11. SumFunctionOnSet(g, T) = SumFunctionOnSet(g, S) + SumFunctionOnSet(g, C)
  <2>1. ASSUME NEW e \in S PROVE g[e] \in Int
    <3>1. PICK m \in Int, k \in Nat : m = e.n /\ k = ledger[e]
      BY <1>6 DEF PaidSet, Custody, BagToSet, WithdrawalsTyped, Entries
    <3>2. m * k \in Int
      OBVIOUS
    <3> QED BY <1>6, <1>7, <3>1, <3>2
  <2>2. \A e \in C : g[e] \in Int
    BY <1>1, <1>4, <1>5, <1>7
  <2>3. \A e \in S \cup C : g[e] \in Int
    BY <2>1, <2>2
  <2> QED BY <1>7, <1>8, <1>10, <2>3, SumUnion
<1>12. PICK x \in Int, y \in Int : x = Paid(w, X) /\ y = SumFunctionOnSet(g, C) /\ y <= n /\ Paid(w, X)' = x + y
  BY <1>8, <1>9, <1>10, <1>11
<1> QED BY <1>0, <1>1, <1>12

-----------------------------------------------------------------------------
\* A call in time leaves a row in order.
LEMMA RowKept ==
  ASSUME NEW c \in WithdrawalCalls, Checked(c), RowKeeps(c.row, Amount[c.id]), NEW n, Writes(c, n)
  PROVE  RowKeeps(n, Amount[c.id])
<1>1. WritesColumns(c, n) /\ c.op \in Operations /\ Nobody \notin Agents \cup Refs
  BY WritesRow, WithdrawalsAssumption DEF WithdrawalCalls
<1>2. CASE c.op \in {"request", "claim", "release", "agent_reject"}
  BY <1>1, <1>2 DEF WritesColumns, RowKeeps, Checked
<1>3. CASE c.op = "proof"
  BY <1>1, <1>3 DEF WritesColumns, RowKeeps, Checked
<1>4. CASE c.op \in {"approve", "verify_approve", "complete", "reject", "verify_reject"}
  BY <1>1, <1>4 DEF WritesColumns, RowKeeps, Checked
<1> QED BY <1>1, <1>2, <1>3, <1>4 DEF Operations

\* What a call that was not late knows and writes.
InTime(c, n) ==
  /\ wd[c.id] = c.row /\ wd' = [wd EXCEPT ![c.id] = n] /\ Writes(c, n) /\ WritesColumns(c, n) /\ n \in WithdrawalRows
  /\ Checked(c) /\ RowKeeps(c.row, Amount[c.id]) /\ RowKeeps(n, Amount[c.id])

LEMMA WroteInTime ==
  ASSUME WithdrawalInv, MCNext, NEW s \in Sessions, NEW c \in WithdrawalCalls, c = call[s], Finishes(s), Wrote,
         c.id \notin stale'
  PROVE  \E n : InTime(c, n)
<1>1. PICK n, r \in WithdrawalRows :
        /\ Writes(c, n) /\ wd' = [wd EXCEPT ![c.id] = r] /\ r.status # "none"
        /\ c.row = wd[c.id] => r = n
  BY RowWritten DEF WithdrawalInv
<1>2. c.row = wd[c.id]
  BY Recorded DEF WithdrawalInv
<1>3. c.id \in Ids /\ c.id \notin stale
  BY DEF MCNext, WithdrawalCalls
<1>4. RowKeeps(wd[c.id], Amount[c.id])
  BY <1>3 DEF WithdrawalInv, RowsKept
<1>5. Checked(c) /\ c.op \in Operations
  BY DEF WithdrawalInv, CallsChecked, WithdrawalCalls
<1>a. Writes(c, n) /\ wd' = [wd EXCEPT ![c.id] = n]
  BY <1>1, <1>2
<1>b. RowKeeps(c.row, Amount[c.id]) /\ Checked(c)
  BY <1>2, <1>4, <1>5
<1>c. WritesColumns(c, n)
  BY <1>a, WritesRow
<1>7. RowKeeps(n, Amount[c.id])
  BY <1>a, <1>b, RowKept, Zenon
<1>8. InTime(c, n)
  BY <1>2, <1>4, <1>a, <1>b, <1>c, <1>7, Zenon DEF InTime
<1> QED BY <1>8

\* What is posted is about the withdrawal of the call.
LEMMA PostsOwn ==
  ASSUME NEW s, NEW c, c = call[s], Finishes(s)
  PROVE  ledger' = ledger \/ \E E : Post(E) /\ \A e \in E : e.id = c.id
<1>1. CASE c.op = "request"
  <2>1. PICK E : E = {Entry(c.id, "hold", Owner[c.id], Amount[c.id])} /\ Post(E)
    BY <1>1, EntriesPosted
  <2> QED BY <2>1 DEF Entry
<1>2. CASE c.op \in RefundingOps
  <2>1. PICK E : E = {Entry(c.id, "refund", Owner[c.id], Amount[c.id])} /\ Post(E)
    BY <1>2, EntriesPosted
  <2> QED BY <2>1 DEF Entry
<1>3. CASE c.op \in PayingOps
  <2>1. \A e \in Credits(c) : e.id = c.id
    BY DEF Credits, Entry
  <2> QED BY <1>3, <2>1, EntriesPosted
<1> QED BY <1>1, <1>2, <1>3, EntriesPosted

LEMMA OthersKept ==
  ASSUME WithdrawalInv, NEW s \in Sessions, NEW c \in WithdrawalCalls, c = call[s], Finishes(s),
         NEW v \in Ids, v # c.id
  PROVE  /\ wd'[v] = wd[v] /\ \A k : Times(v, k)' = Times(v, k)
         /\ Paid(v, Agents \cup {House})' = Paid(v, Agents \cup {House})
<1>1. wd'[v] = wd[v]
  BY RowWritten DEF WithdrawalInv, WithdrawalsTyped
<1>2. ledger' = ledger \/ \E E : Post(E) /\ \A e \in E : e.id # v
  BY PostsOwn
<1>3. \A to : Paid(v, to)' = Paid(v, to)
  BY <1>2, CustodyKept DEF WithdrawalInv
<1>4. \A k : Times(v, k)' = Times(v, k)
  BY <1>2, TimesKept DEF WithdrawalInv
<1>5. Paid(v, Agents \cup {House})' = Paid(v, Agents \cup {House})
  BY <1>3
<1> QED BY <1>1, <1>4, <1>5

LEMMA RowsStep ==
  ASSUME WithdrawalInv, MCNext, NEW s \in Sessions, NEW c \in WithdrawalCalls, c = call[s], Finishes(s), Wrote
  PROVE  RowsKept'
<1>1. ASSUME NEW v \in Ids, v \notin stale' PROVE RowKeeps(wd'[v], Amount[v])
  <2>1. CASE v # c.id
    <3>1. v \notin stale
      BY <1>1 DEF MCNext
    <3>2. RowKeeps(wd[v], Amount[v])
      BY <1>1, <3>1 DEF WithdrawalInv, RowsKept
    <3>3. wd'[v] = wd[v]
      BY <2>1, OthersKept
    <3> QED BY <3>2, <3>3
  <2>2. CASE v = c.id
    <3>1. PICK n : InTime(c, n)
      BY <1>1, <2>2, WroteInTime
    <3>2. wd' = [wd EXCEPT ![v] = n] /\ RowKeeps(n, Amount[v])
      BY <2>2, <3>1 DEF InTime
    <3>3. wd'[v] = n
      BY <3>2 DEF WithdrawalInv, WithdrawalsTyped
    <3> QED BY <3>2, <3>3
  <2> QED BY <2>1, <2>2
<1> QED BY <1>1 DEF RowsKept, RowKeeps

\* No fee grows past its request, even where save leaves one column out.
LEMMA FeesStep ==
  ASSUME WithdrawalInv, NEW s \in Sessions, NEW c \in WithdrawalCalls, c = call[s], Finishes(s)
  PROVE  FeesFit'
<1>1. PICK n \in WithdrawalRows, r \in WithdrawalRows :
        Writes(c, n) /\ wd' = [wd EXCEPT ![c.id] = r] /\ r.fee \in {n.fee, wd[c.id].fee}
  BY RowWritten DEF WithdrawalInv
<1>2. PICK w \in Ids, m \in Nat : w = c.id /\ m = Amount[w] /\ m > 0
  BY WithdrawalsAssumption DEF WithdrawalCalls
<1>3. wd[w].fee < m /\ c.row.fee < m /\ Checked(c) /\ WritesColumns(c, n) /\ c.op \in Operations
  BY <1>1, <1>2, WritesRow DEF WithdrawalInv, FeesFit, CallsChecked, WithdrawalCalls
<1>4. n.fee < m
  <2>1. CASE c.op = "request"
    BY <1>2, <1>3, <2>1 DEF WritesColumns
  <2>2. CASE c.op \in {"proof", "complete"}
    BY <1>2, <1>3, <2>2 DEF WritesColumns, Checked
  <2>3. CASE c.op \notin {"request", "proof", "complete"}
    BY <1>3, <2>3 DEF WritesColumns, Operations
  <2> QED BY <2>1, <2>2, <2>3
<1>5. \A v \in Ids : wd'[v].fee < Amount[v]
  <2> TAKE v \in Ids
  <2>1. CASE v # w
    BY <1>1, <1>2, <2>1 DEF WithdrawalInv, WithdrawalsTyped, FeesFit
  <2>2. CASE v = w
    <3>1. wd'[v] = r
      BY <1>1, <1>2, <2>2 DEF WithdrawalInv, WithdrawalsTyped
    <3> QED BY <1>1, <1>2, <1>3, <1>4, <2>2, <3>1
  <2> QED BY <2>1, <2>2
<1>6. call' = [call EXCEPT ![s] = NoCall]
  BY DEF Finishes, FinishRequest, FinishAgentOp, FinishProof, FinishPayout, FinishRefund, Done
<1>7. \A q \in Sessions, d \in WithdrawalCalls : d = call'[q] => d = call[q]
  BY <1>6 DEF WithdrawalInv, WithdrawalsTyped, WithdrawalCalls, NoCall, Operations
<1> QED BY <1>5, <1>7 DEF FeesFit, WithdrawalInv

-----------------------------------------------------------------------------
\* The wallet.  What a withdrawal has moved, and which ones hold what is reserved.
NetOf(v) == Amount[v] * (Times(v, "refund") - Times(v, "hold"))
Holds(p) == {v \in Of(p) : IsOpen(v) \/ EndedByAgent(v)}

LEMMA ExplainedIs ==
  ASSUME NEW p, NEW g, \A v \in Of(p) : g[v] = NetOf(v), IsFiniteSet(Ids)
  PROVE  Explained(p) <=> wallet[p].avail = Funds + SumFunctionOnSet(g, Of(p))
<1>1. PICK S, f : S = Of(p) /\ f = [v \in S |-> NetOf(v)]
  OBVIOUS
<1>2. IsFiniteSet(S) /\ \A v \in S : f[v] = g[v]
  BY <1>1, FS_Subset DEF Of
<1>3. SumFunctionOnSet(f, S) = SumFunctionOnSet(g, S)
  BY <1>2, SumEqual
<1>4. Explained(p) <=> wallet[p].avail = Funds + SumFunctionOnSet(f, S)
  BY <1>1 DEF Explained, NetOf
<1> QED BY <1>1, <1>3, <1>4

LEMMA MovedInt == ASSUME WithdrawalsTyped, NEW v \in Ids PROVE NetOf(v) \in Int
<1>1. PICK a \in Nat, x \in Nat, y \in Nat : a = Amount[v] /\ x = Times(v, "refund") /\ y = Times(v, "hold")
  BY LikeFinite, WithdrawalsAssumption
<1> QED BY <1>1 DEF NetOf

\* What a posting moves: the holds and refunds of its request, and what was paid for it.
LEMMA TimesStep ==
  ASSUME WithdrawalsTyped, NEW s \in Sessions, NEW c \in WithdrawalCalls, c = call[s], Finishes(s), NEW w \in Ids, w = c.id
  PROVE  /\ Times(w, "hold")' = Times(w, "hold") + IF c.op = "request" THEN 1 ELSE 0
         /\ Times(w, "refund")' = Times(w, "refund") + IF c.op \in RefundingOps THEN 1 ELSE 0
<1>1. PICK x \in Nat, y \in Nat : x = Times(w, "refund") /\ y = Times(w, "hold")
  BY LikeFinite
<1>2. ASSUME NEW e, Post({e}), NEW k, e.kind # k PROVE Times(w, k)' = Times(w, k)
  <2>1. PICK E : E = {e} /\ Post(E)
    BY <1>2
  <2>2. ledger' = ledger \/ \E F : Post(F) /\ \A d \in F : d.id # w \/ d.kind # k
    BY <1>2, <2>1
  <2> QED BY <2>2, TimesKept
<1>3. CASE c.op = "request"
  <2>1. PICK e : e = Entry(w, "hold", Owner[w], Amount[w])
    OBVIOUS
  <2>2. Post({e}) /\ e.id = w /\ e.kind = "hold"
    BY <1>3, <2>1, EntriesPosted DEF Entry
  <2>3. Times(w, "hold")' = y + 1
    BY <1>1, <2>2, TimesMore
  <2>4. Times(w, "refund")' = x
    BY <1>1, <1>2, <2>2
  <2> QED BY <1>1, <1>3, <2>3, <2>4 DEF RefundingOps
<1>4. CASE c.op \in RefundingOps
  <2>1. PICK e : e = Entry(w, "refund", Owner[w], Amount[w])
    OBVIOUS
  <2>2. Post({e}) /\ e.id = w /\ e.kind = "refund"
    BY <1>4, <2>1, EntriesPosted DEF Entry
  <2>3. Times(w, "refund")' = x + 1
    BY <1>1, <2>2, TimesMore
  <2>4. Times(w, "hold")' = y
    BY <1>1, <1>2, <2>2
  <2> QED BY <1>1, <1>4, <2>3, <2>4 DEF RefundingOps
<1>5. CASE c.op \notin {"request"} \cup RefundingOps
  <2>1. ledger' = ledger \/ \E F : Post(F) /\ \A d \in F : d.kind \in {"receipt", "fee"}
    <3>1. CASE c.op \in PayingOps
      <4>1. \A e \in Credits(c) : e.kind \in {"receipt", "fee"}
        BY DEF Credits, Entry
      <4>2. PICK E : E = {e \in Credits(c) : Fresh(c, e)} /\ Post(E)
        BY <3>1, EntriesPosted
      <4> QED BY <4>1, <4>2
    <3> QED BY <1>5, <3>1, EntriesPosted
  <2>2. ASSUME NEW k \in {"refund", "hold"} PROVE Times(w, k)' = Times(w, k)
    <3>1. ledger' = ledger \/ \E F : Post(F) /\ \A d \in F : d.id # w \/ d.kind # k
      BY <2>1, <2>2
    <3> QED BY <3>1, TimesKept
  <2>3. Times(w, "refund")' = x /\ Times(w, "hold")' = y
    BY <1>1, <2>2
  <2> QED BY <1>1, <1>5, <2>3
<1> QED BY <1>3, <1>4, <1>5

LEMMA PaidStep ==
  ASSUME WithdrawalInv, NEW s \in Sessions, NEW c \in WithdrawalCalls, c = call[s], Finishes(s), NEW w \in Ids, w = c.id
  PROVE  /\ Paid(w, Agents \cup {House}) \in Int /\ Paid(w, Agents \cup {House})' \in Int
         /\ c.op \notin PayingOps => Paid(w, Agents \cup {House})' = Paid(w, Agents \cup {House})
         /\ Paid(w, Agents \cup {House})' <= Paid(w, Agents \cup {House}) + Amount[w]
<1>0. WithdrawalsTyped /\ Amount[w] \in Nat
  BY WithdrawalsAssumption DEF WithdrawalInv
<1>1. Paid(w, Agents \cup {House}) \in Int
  BY <1>0, PaidInt
<1>2. CASE c.op \notin PayingOps
  <2>1. ledger' = ledger \/ \E E : Post(E) /\ \A e \in E : e.id # w \/ e.kind \notin {"receipt", "fee"}
    <3>1. CASE c.op = "request"
      <4>1. PICK E : E = {Entry(c.id, "hold", Owner[c.id], Amount[c.id])} /\ Post(E)
        BY <3>1, EntriesPosted
      <4> QED BY <4>1 DEF Entry
    <3>2. CASE c.op \in RefundingOps
      <4>1. PICK E : E = {Entry(c.id, "refund", Owner[c.id], Amount[c.id])} /\ Post(E)
        BY <3>2, EntriesPosted
      <4> QED BY <4>1 DEF Entry
    <3> QED BY <1>2, <3>1, <3>2, EntriesPosted
  <2>2. \A to : Paid(w, to)' = Paid(w, to)
    BY <1>0, <2>1, CustodyKept
  <2>3. Paid(w, Agents \cup {House})' = Paid(w, Agents \cup {House})
    BY <2>2
  <2> QED BY <1>0, <1>1, <1>2, <2>3
<1>3. CASE c.op \in PayingOps
  <2>1. c.agent \in Agents /\ Post({e \in Credits(c) : Fresh(c, e)})
    BY <1>3, EntriesPosted DEF WithdrawalCalls
  <2>2. c.fee < Amount[c.id]
    <3>1. Checked(c) /\ c.row.fee < Amount[c.id]
      BY DEF WithdrawalInv, CallsChecked, FeesFit
    <3> QED BY <1>3, <3>1 DEF Checked, PayingOps
  <2>3. /\ Paid(c.id, Agents \cup {House})' \in Int
        /\ Paid(c.id, Agents \cup {House})' <= Paid(c.id, Agents \cup {House}) + Amount[c.id]
    BY <1>0, <1>3, <2>1, <2>2, CreditsBounded
  <2> QED BY <1>1, <1>3, <2>3
<1> QED BY <1>2, <1>3

LEMMA MovedStep ==
  ASSUME WithdrawalInv, NEW s \in Sessions, NEW c \in WithdrawalCalls, c = call[s], Finishes(s), NEW w \in Ids, w = c.id
  PROVE  /\ \A v \in Ids \ {w} : NetOf(v)' = NetOf(v)
         /\ c.op = "request" => NetOf(w)' = NetOf(w) - Amount[w]
         /\ c.op \in RefundingOps => NetOf(w)' = NetOf(w) + Amount[w]
         /\ c.op \notin {"request"} \cup RefundingOps => NetOf(w)' = NetOf(w)
<1>0. WithdrawalsTyped
  BY DEF WithdrawalInv
<1>1. \A v \in Ids \ {w} : NetOf(v)' = NetOf(v)
  <2> TAKE v \in Ids \ {w}
  <2>1. Times(v, "refund")' = Times(v, "refund") /\ Times(v, "hold")' = Times(v, "hold")
    BY OthersKept
  <2> QED BY <2>1 DEF NetOf
<1>2. PICK n \in Nat, x \in Nat, y \in Nat : n = Amount[w] /\ x = Times(w, "refund") /\ y = Times(w, "hold")
  BY <1>0, LikeFinite, WithdrawalsAssumption
<1>3. /\ Times(w, "hold")' = y + IF c.op = "request" THEN 1 ELSE 0
      /\ Times(w, "refund")' = x + IF c.op \in RefundingOps THEN 1 ELSE 0
  BY <1>0, <1>2, TimesStep
<1>4. n * (x - (y + 1)) = n * (x - y) - n /\ n * ((x + 1) - y) = n * (x - y) + n
  BY <1>2
<1>5. CASE c.op = "request"
  BY <1>1, <1>2, <1>3, <1>4, <1>5 DEF NetOf, RefundingOps
<1>6. CASE c.op \in RefundingOps
  BY <1>1, <1>2, <1>3, <1>4, <1>6 DEF NetOf, RefundingOps
<1>7. CASE c.op \notin {"request"} \cup RefundingOps
  BY <1>1, <1>2, <1>3, <1>7 DEF NetOf
<1> QED BY <1>5, <1>6, <1>7

LEMMA GivenStep ==
  ASSUME WithdrawalInv, NEW s \in Sessions, NEW c \in WithdrawalCalls, c = call[s], Finishes(s), NEW w \in Ids, w = c.id
  PROVE  /\ \A v \in Ids : GivenUp(v) \in Int /\ Held(v) \in Int /\ GivenUp(v)' \in Int /\ Held(v)' \in Int
         /\ \A v \in Ids \ {w} : GivenUp(v)' = GivenUp(v) /\ Held(v)' = Held(v)
         /\ Held(w)' = Held(w) + IF c.op = "request" THEN Amount[w] ELSE 0
         /\ c.op \notin PayingOps \cup RefundingOps => GivenUp(w)' = GivenUp(w)
         /\ GivenUp(w)' <= GivenUp(w) + Amount[w]
<1>0. WithdrawalsTyped
  BY DEF WithdrawalInv
<1>1. \A v \in Ids : GivenUp(v) \in Int /\ Held(v) \in Int
  <2> TAKE v \in Ids
  <2>1. PICK n \in Nat, x \in Nat, y \in Nat, z \in Int :
          n = Amount[v] /\ x = Times(v, "refund") /\ y = Times(v, "hold") /\ z = Paid(v, Agents \cup {House})
    BY <1>0, LikeFinite, PaidInt, WithdrawalsAssumption
  <2>2. n * x \in Int /\ n * y \in Int
    OBVIOUS
  <2> QED BY <2>1, <2>2 DEF GivenUp, Held
<1>2. \A v \in Ids \ {w} : GivenUp(v)' = GivenUp(v) /\ Held(v)' = Held(v)
  <2> TAKE v \in Ids \ {w}
  <2>1. /\ Times(v, "refund")' = Times(v, "refund") /\ Times(v, "hold")' = Times(v, "hold")
        /\ Paid(v, Agents \cup {House})' = Paid(v, Agents \cup {House})
    BY OthersKept
  <2> QED BY <2>1 DEF GivenUp, Held
<1>3. PICK n \in Nat, x \in Nat, y \in Nat, z \in Int, u \in Int :
        /\ n = Amount[w] /\ x = Times(w, "refund") /\ y = Times(w, "hold")
        /\ z = Paid(w, Agents \cup {House}) /\ u = Paid(w, Agents \cup {House})'
        /\ (c.op \notin PayingOps => u = z) /\ u <= z + n
  BY <1>0, LikeFinite, PaidStep, WithdrawalsAssumption
<1>4. /\ Times(w, "hold")' = y + IF c.op = "request" THEN 1 ELSE 0
      /\ Times(w, "refund")' = x + IF c.op \in RefundingOps THEN 1 ELSE 0
  BY <1>0, <1>3, TimesStep
<1>5. n * (y + 1) = n * y + n /\ n * (x + 1) = n * x + n /\ n * x \in Int /\ n * y \in Int
  BY <1>3
<1>6. Held(w)' = Held(w) + (IF c.op = "request" THEN Amount[w] ELSE 0) /\ Held(w)' \in Int
  BY <1>3, <1>4, <1>5 DEF Held
<1>7. /\ GivenUp(w)' \in Int /\ GivenUp(w)' <= GivenUp(w) + Amount[w]
      /\ c.op \notin PayingOps \cup RefundingOps => GivenUp(w)' = GivenUp(w)
  <2>1. CASE c.op \in RefundingOps
    <3>1. c.op \notin PayingOps
      BY <2>1 DEF PayingOps, RefundingOps
    <3> QED BY <1>3, <1>4, <1>5, <2>1, <3>1 DEF GivenUp
  <2>2. CASE c.op \notin RefundingOps
    BY <1>3, <1>4, <1>5, <2>2 DEF GivenUp
  <2> QED BY <2>1, <2>2
<1> QED BY <1>1, <1>2, <1>6, <1>7

\* The balance follows the ledger.
LEMMA ExplainedStep ==
  ASSUME WithdrawalInv, MCNext, NEW s \in Sessions, NEW c \in WithdrawalCalls, c = call[s], Finishes(s), Wrote,
         NEW p \in Players, p \notin skipped'
  PROVE  Explained(p)'
<1>0. WithdrawalsTyped /\ IsFiniteSet(Ids) /\ Of(p) \subseteq Ids
  BY WithdrawalsAssumption DEF WithdrawalInv, Of
<1>1. PICK w \in Ids : w = c.id
  BY DEF WithdrawalCalls
<1>2. PICK f, g : f = [v \in Ids |-> NetOf(v)] /\ g = [v \in Ids |-> NetOf(v)']
  OBVIOUS
<1>3. \A v \in Ids : f[v] = NetOf(v) /\ f[v] \in Int /\ g[v] = NetOf(v)'
  BY <1>0, <1>2, MovedInt
<1>4. PICK n \in Nat : n = Amount[w] /\ n > 0
  BY WithdrawalsAssumption
<1>5. /\ \A v \in Ids \ {w} : g[v] = f[v]
      /\ c.op = "request" => g[w] = f[w] - n
      /\ c.op \in RefundingOps => g[w] = f[w] + n
      /\ c.op \notin {"request"} \cup RefundingOps => g[w] = f[w]
  BY <1>1, <1>3, <1>4, MovedStep
<1>6. PICK x \in Purses : wallet' = [wallet EXCEPT ![Owner[w]] = x] /\ PurseMoves(c, wallet[Owner[w]], x)
  BY <1>0, <1>1, PurseWritten
<1>7. PICK S : S = Of(p) /\ IsFiniteSet(S) /\ S \subseteq Ids
  BY <1>0, FS_Subset
<1>8. PICK a \in Int, b \in Int, t \in Int, u \in Int :
        a = wallet[p].avail /\ b = wallet'[p].avail /\ t = SumFunctionOnSet(f, S) /\ u = SumFunctionOnSet(g, S)
  <2>1. \A v \in S : f[v] \in Int /\ g[v] \in Int
    <3>1. \A v \in Ids : g[v] \in Int
      BY <1>3, <1>4, <1>5
    <3> QED BY <1>3, <1>7, <3>1
  <2>2. SumFunctionOnSet(f, S) \in Int /\ SumFunctionOnSet(g, S) \in Int
    BY <1>7, <2>1, SumInt
  <2>3. wallet[p] \in Purses /\ wallet'[p] \in Purses
    BY <1>0, <1>6 DEF WithdrawalsTyped
  <2> QED BY <2>2, <2>3 DEF Purses
<1>9. a = Funds + t
  <2>1. p \notin skipped
    BY DEF MCNext
  <2>2. Explained(p)
    BY <2>1 DEF WithdrawalInv, WalletExplained
  <2>3. \A v \in Of(p) : f[v] = NetOf(v)
    BY <1>0, <1>3
  <2> QED BY <1>0, <1>7, <1>8, <2>2, <2>3, ExplainedIs
<1>10. Funds \in Nat
  BY WithdrawalsAssumption
<1>11. b - a = u - t
  <2>1. CASE p # Owner[w]
    <3>1. w \notin S /\ wallet'[p] = wallet[p]
      BY <1>0, <1>6, <1>7, <2>1 DEF Of, WithdrawalsTyped
    <3>2. \A v \in S : g[v] = f[v]
      BY <1>5, <1>7, <3>1
    <3>3. SumFunctionOnSet(g, S) = SumFunctionOnSet(f, S)
      BY <1>7, <3>2, SumEqual
    <3> QED BY <1>8, <3>1, <3>3
  <2>2. CASE p = Owner[w]
    <3>1. w \in S /\ wallet'[p] = x /\ b = x.avail /\ PurseMoves(c, wallet[p], x)
      BY <1>0, <1>6, <1>7, <1>8, <2>2 DEF Of, WithdrawalsTyped
    <3>2. u = t - f[w] + g[w]
      <4>1. \A v \in S : f[v] \in Int /\ g[v] \in Int
        BY <1>3, <1>4, <1>5, <1>7
      <4>2. \A v \in S \ {w} : g[v] = f[v]
        BY <1>5, <1>7
      <4>3. SumFunctionOnSet(g, S) = SumFunctionOnSet(f, S) - f[w] + g[w]
        BY <1>7, <3>1, <4>1, <4>2, SumChange
      <4> QED BY <1>8, <4>3
    <3>3. c.op \in {"request"} \cup RefundingOps => b # a
      BY <1>0, <1>1, <1>8, <2>2, Recorded
    <3>4. c.op \in Operations
      BY DEF WithdrawalCalls
    <3>5. CASE c.op = "request"
      <4>1. b = a - n
        BY <1>1, <1>4, <1>8, <3>1, <3>3, <3>5 DEF PurseMoves, AgentOps, RefundingOps
      <4> QED BY <1>3, <1>4, <1>5, <3>2, <3>5, <4>1
    <3>6. CASE c.op \in RefundingOps
      <4>1. b = a + n
        BY <1>1, <1>4, <1>8, <3>1, <3>3, <3>6 DEF PurseMoves
      <4> QED BY <1>3, <1>4, <1>5, <3>2, <3>6, <4>1
    <3>7. CASE c.op \notin {"request"} \cup RefundingOps
      <4>1. b = a
        BY <1>8, <3>1, <3>4, <3>7 DEF PurseMoves, AgentOps, RefundingOps, Operations
      <4> QED BY <1>3, <1>5, <3>2, <3>7, <4>1
    <3> QED BY <3>5, <3>6, <3>7
  <2> QED BY <2>1, <2>2
<1>12. b = Funds + u
  BY <1>9, <1>10, <1>11
<1>13. Explained(p)'
  <2>1. \A v \in S : g[v] = NetOf(v)'
    BY <1>3, <1>7
  <2>2. PICK h : h = [v \in S |-> NetOf(v)']
    OBVIOUS
  <2>3. \A v \in S : h[v] = g[v]
    BY <2>1, <2>2
  <2>4. SumFunctionOnSet(h, S) = SumFunctionOnSet(g, S)
    BY <1>7, <2>3, SumEqual
  <2>5. Explained(p)' <=> wallet'[p].avail = Funds + SumFunctionOnSet(h, S)
    BY <1>7, <2>2 DEF Explained, NetOf, Of
  <2> QED BY <1>8, <1>12, <2>4, <2>5
<1> QED BY <1>13

\* What is reserved follows the requests that hold it.
LEMMA BackedStep ==
  ASSUME WithdrawalInv, MCNext, NEW s \in Sessions, NEW c \in WithdrawalCalls, c = call[s], Finishes(s), Wrote,
         NEW p \in Players, p \notin skipped', Of(p) \cap stale' = {}
  PROVE  Backed(p, {v \in Of(p) : EndedByAgent(v)})'
<1>0. WithdrawalsTyped /\ IsFiniteSet(Ids) /\ Of(p) \subseteq Ids
  BY WithdrawalsAssumption DEF WithdrawalInv, Of
<1>1. PICK w \in Ids : w = c.id
  BY DEF WithdrawalCalls
<1>2. PICK S, T : S = Holds(p) /\ T = Holds(p)'
  OBVIOUS
<1>3. IsFiniteSet(S) /\ S \subseteq Ids /\ T \subseteq Ids
  BY <1>0, <1>2, FS_Subset DEF Holds, Of
<1>4. PICK x \in Purses : wallet' = [wallet EXCEPT ![Owner[w]] = x] /\ PurseMoves(c, wallet[Owner[w]], x)
  BY <1>0, <1>1, PurseWritten
<1>5. PICK n \in Nat : n = Amount[w] /\ n > 0
  BY WithdrawalsAssumption
<1>6. PICK a \in Int, b \in Int, t \in Int :
        a = wallet[p].reserved /\ b = wallet'[p].reserved /\ t = SumFunctionOnSet(Amount, S)
  <2>1. \A v \in S : Amount[v] \in Int
    BY <1>3, WithdrawalsAssumption
  <2>2. SumFunctionOnSet(Amount, S) \in Int
    BY <1>3, <2>1, SumInt
  <2>3. wallet[p] \in Purses /\ wallet'[p] \in Purses
    BY <1>0, <1>4 DEF WithdrawalsTyped
  <2> QED BY <2>2, <2>3 DEF Purses
<1>7. a = t
  <2>1. p \notin skipped /\ Of(p) \cap stale = {}
    BY DEF MCNext
  <2>2. Backed(p, {v \in Of(p) : EndedByAgent(v)})
    BY <2>1 DEF WithdrawalInv, WalletExplained
  <2>3. {v \in Of(p) : IsOpen(v) \/ v \in {y \in Of(p) : EndedByAgent(y)}} = S
    BY <1>2 DEF Holds
  <2> QED BY <1>6, <2>2, <2>3 DEF Backed
<1>8. \A v \in Ids \ {w} : v \in T <=> v \in S
  <2>1. \A v \in Ids \ {w} : wd'[v] = wd[v]
    BY <1>1, OthersKept
  <2> QED BY <1>2, <2>1 DEF Holds, Of, IsOpen, EndedByAgent
<1>9. SumFunctionOnSet(Amount, T) = b
  <2>1. CASE p # Owner[w]
    <3>1. w \notin S /\ w \notin T /\ wallet'[p] = wallet[p]
      BY <1>0, <1>2, <1>4, <2>1 DEF Holds, Of, WithdrawalsTyped
    <3>2. T = S
      BY <1>3, <1>8, <3>1
    <3> QED BY <1>6, <1>7, <3>1, <3>2
  <2>2. CASE p = Owner[w]
    <3>1. wallet'[p] = x /\ b = x.reserved /\ PurseMoves(c, wallet[p], x) /\ w \in Of(p)
      BY <1>0, <1>4, <1>6, <2>2 DEF Of, WithdrawalsTyped
    <3>2. PICK m : InTime(c, m)
      BY <1>1, <3>1, WroteInTime
    <3>3. wd'[w] = m /\ wd[w] = c.row /\ WritesColumns(c, m) /\ Checked(c) /\ RowKeeps(c.row, Amount[w])
      BY <1>0, <1>1, <3>2 DEF InTime, WithdrawalsTyped
    <3>4. c.op \in Operations
      BY DEF WithdrawalCalls
    <3>5. /\ w \in S <=> c.op # "request"
      <4>1. w \in S <=> IsOpen(w) \/ EndedByAgent(w)
        BY <1>2, <3>1 DEF Holds
      <4>2. CASE c.op = "request"
        BY <3>3, <4>1, <4>2 DEF Checked, NoRow, IsOpen, EndedByAgent
      <4>3. CASE c.op # "request"
        <5>1. c.row.status \notin {"none", "completed", "rejected"}
          BY <3>3, <3>4, <4>3 DEF Checked, Operations
        <5> QED BY <3>3, <4>1, <4>3, <5>1 DEF IsOpen
      <4> QED BY <4>2, <4>3
    <3>6. w \in T <=> c.op \in {"request"} \cup AgentOps
      <4>1. w \in T <=> \/ m.status \notin {"none", "completed", "rejected"}
                        \/ m.status = "rejected" /\ m.ref = Nobody /\ m.by = "agent"
        BY <1>2, <3>1, <3>3 DEF Holds, Of, IsOpen, EndedByAgent
      <4>2. CASE c.op \in {"request", "claim", "release", "agent_reject", "proof"}
        BY <3>3, <4>1, <4>2 DEF WritesColumns, Checked, RowKeeps, AgentOps
      <4>3. CASE c.op \in {"approve", "verify_approve", "complete", "reject", "verify_reject"}
        BY <3>3, <4>1, <4>3 DEF WritesColumns, Checked, RowKeeps, AgentOps
      <4> QED BY <3>4, <4>2, <4>3 DEF Operations
    <3>7. c.op \notin AgentOps => b # a
      BY <1>0, <1>1, <1>6, <2>2, Recorded
    <3>8. CASE c.op = "request"
      <4>1. b = a + n
        BY <1>1, <1>5, <1>6, <3>1, <3>7, <3>8 DEF PurseMoves, AgentOps
      <4>2. w \notin S /\ T = S \cup {w}
        BY <1>3, <1>8, <3>5, <3>6, <3>8
      <4>3. \A v \in S \cup {w} : Amount[v] \in Int
        BY <1>3, WithdrawalsAssumption
      <4>4. SumFunctionOnSet(Amount, S \cup {w}) = SumFunctionOnSet(Amount, S) + Amount[w]
        BY <1>3, <4>2, <4>3, SumAdd
      <4> QED BY <1>5, <1>6, <1>7, <4>1, <4>2, <4>4
    <3>9. CASE c.op \in AgentOps
      <4>1. b = a
        BY <1>6, <3>1, <3>9 DEF PurseMoves
      <4>2. T = S
        BY <1>3, <1>8, <3>5, <3>6, <3>9 DEF AgentOps
      <4> QED BY <1>6, <1>7, <4>1, <4>2
    <3>10. CASE c.op \notin {"request"} \cup AgentOps
      <4>1. b = a - n
        <5>1. c.op \in {"approve", "verify_approve", "complete"} \/ c.op \in RefundingOps
          BY <3>4, <3>10 DEF Operations, AgentOps, RefundingOps
        <5> QED BY <1>1, <1>5, <1>6, <3>1, <3>7, <3>10, <5>1 DEF PurseMoves
      <4>2. w \in S /\ T = S \ {w}
        BY <1>3, <1>8, <3>5, <3>6, <3>10
      <4>3. \A v \in S : Amount[v] \in Int
        BY <1>3, WithdrawalsAssumption
      <4>4. SumFunctionOnSet(Amount, S) = Amount[w] + SumFunctionOnSet(Amount, S \ {w})
        BY <1>3, <4>2, <4>3, SumRemove
      <4>5. IsFiniteSet(S \ {w}) /\ \A v \in S \ {w} : Amount[v] \in Int
        BY <1>3, <4>3, FS_RemoveElement
      <4>6. SumFunctionOnSet(Amount, S \ {w}) \in Int
        BY <4>5, SumInt
      <4> QED BY <1>5, <1>6, <1>7, <4>1, <4>2, <4>4, <4>6
    <3> QED BY <3>8, <3>9, <3>10
  <2> QED BY <2>1, <2>2
<1>10. {v \in Of(p) : IsOpen(v)' \/ v \in {y \in Of(p) : EndedByAgent(y)'}} = T
  BY <1>2 DEF Holds, Of
<1> QED BY <1>6, <1>9, <1>10 DEF Backed, Of

\* What is given up comes out of what is reserved.
Covered(p) ==
  /\ wallet[p].reserved >= 0
  /\ wallet[p].reserved + SumFunctionOnSet([v \in Of(p) |-> GivenUp(v)], Of(p))
       <= SumFunctionOnSet([v \in Of(p) |-> Held(v)], Of(p))

LEMMA CoveredStep ==
  ASSUME WithdrawalInv, MCNext, NEW s \in Sessions, NEW c \in WithdrawalCalls, c = call[s], Finishes(s), Wrote,
         NEW p \in Players, p \notin skipped'
  PROVE  Covered(p)'
<1>0. WithdrawalsTyped /\ IsFiniteSet(Ids) /\ Of(p) \subseteq Ids
  BY WithdrawalsAssumption DEF WithdrawalInv, Of
<1>1. PICK w \in Ids, n \in Nat : w = c.id /\ n = Amount[w] /\ n > 0
  BY WithdrawalsAssumption DEF WithdrawalCalls
<1>2. PICK S : S = Of(p) /\ IsFiniteSet(S) /\ S \subseteq Ids
  BY <1>0, FS_Subset
<1>3. PICK f, g, h, k :
        /\ f = [v \in S |-> GivenUp(v)] /\ g = [v \in S |-> GivenUp(v)']
        /\ h = [v \in S |-> Held(v)] /\ k = [v \in S |-> Held(v)']
  OBVIOUS
<1>4. /\ \A v \in S : f[v] \in Int /\ g[v] \in Int /\ h[v] \in Int /\ k[v] \in Int
      /\ \A v \in S \ {w} : g[v] = f[v] /\ k[v] = h[v]
      /\ w \in S => /\ k[w] = h[w] + IF c.op = "request" THEN n ELSE 0
                    /\ c.op \notin PayingOps \cup RefundingOps => g[w] = f[w]
                    /\ g[w] <= f[w] + n
  BY <1>1, <1>2, <1>3, GivenStep
<1>5. PICK x \in Purses : wallet' = [wallet EXCEPT ![Owner[w]] = x] /\ PurseMoves(c, wallet[Owner[w]], x)
  BY <1>0, <1>1, PurseWritten
<1>6. PICK a \in Nat, b \in Nat, tf \in Int, tg \in Int, th \in Int, tk \in Int :
        /\ a = wallet[p].reserved /\ b = wallet'[p].reserved
        /\ tf = SumFunctionOnSet(f, S) /\ tg = SumFunctionOnSet(g, S)
        /\ th = SumFunctionOnSet(h, S) /\ tk = SumFunctionOnSet(k, S)
  <2>1. wallet[p] \in Purses /\ wallet'[p] \in Purses
    BY <1>0, <1>5 DEF WithdrawalsTyped
  <2>2. /\ SumFunctionOnSet(f, S) \in Int /\ SumFunctionOnSet(g, S) \in Int
        /\ SumFunctionOnSet(h, S) \in Int /\ SumFunctionOnSet(k, S) \in Int
    BY <1>2, <1>4, SumInt
  <2> QED BY <2>1, <2>2 DEF Purses
<1>7. a + tf <= th
  <2>1. p \notin skipped
    BY DEF MCNext
  <2> QED BY <1>2, <1>3, <1>6, <2>1 DEF WithdrawalInv, PaidFromReserve
<1>8. b + tg <= tk
  <2>1. CASE p # Owner[w]
    <3>1. w \notin S /\ wallet'[p] = wallet[p]
      BY <1>0, <1>2, <1>5, <2>1 DEF Of, WithdrawalsTyped
    <3>2. \A v \in S : g[v] = f[v] /\ k[v] = h[v]
      BY <1>4, <3>1
    <3>3. SumFunctionOnSet(g, S) = SumFunctionOnSet(f, S) /\ SumFunctionOnSet(k, S) = SumFunctionOnSet(h, S)
      BY <1>2, <3>2, SumEqual
    <3> QED BY <1>6, <1>7, <3>1, <3>3
  <2>2. CASE p = Owner[w]
    <3>1. w \in S /\ wallet'[p] = x /\ b = x.reserved /\ PurseMoves(c, wallet[p], x)
      BY <1>0, <1>2, <1>5, <1>6, <2>2 DEF Of, WithdrawalsTyped
    <3>2. tg = tf - f[w] + g[w] /\ tk = th - h[w] + k[w]
      <4>1. SumFunctionOnSet(g, S) = SumFunctionOnSet(f, S) - f[w] + g[w]
        BY <1>2, <1>4, <3>1, SumChange
      <4>2. SumFunctionOnSet(k, S) = SumFunctionOnSet(h, S) - h[w] + k[w]
        BY <1>2, <1>4, <3>1, SumChange
      <4> QED BY <1>6, <4>1, <4>2
    <3>3. PICK f1 \in Int, g1 \in Int, h1 \in Int, k1 \in Int : f1 = f[w] /\ g1 = g[w] /\ h1 = h[w] /\ k1 = k[w]
      BY <1>4, <3>1
    <3>4. c.op \in Operations /\ (c.op \notin AgentOps => b # a)
      BY <1>0, <1>1, <1>6, <2>2, Recorded DEF WithdrawalCalls
    <3>5. CASE c.op = "request"
      <4>1. b = a + n /\ c.op \notin PayingOps \cup RefundingOps
        BY <1>1, <1>6, <3>1, <3>4, <3>5 DEF PurseMoves, AgentOps, PayingOps, RefundingOps
      <4>2. k1 = h1 + n /\ g1 = f1
        BY <1>4, <3>1, <3>3, <3>5, <4>1
      <4> QED BY <1>7, <3>2, <3>3, <4>1, <4>2
    <3>6. CASE c.op \in AgentOps
      <4>1. b = a /\ c.op \notin PayingOps \cup RefundingOps /\ c.op # "request"
        BY <1>6, <3>1, <3>6 DEF PurseMoves, AgentOps, PayingOps, RefundingOps
      <4>2. k1 = h1 /\ g1 = f1
        BY <1>4, <3>1, <3>3, <4>1
      <4> QED BY <1>7, <3>2, <3>3, <4>1, <4>2
    <3>7. CASE c.op \notin {"request"} \cup AgentOps
      <4>1. b = a - n
        <5>1. c.op \in {"approve", "verify_approve", "complete"} \/ c.op \in RefundingOps
          BY <3>4, <3>7 DEF Operations, AgentOps, RefundingOps
        <5> QED BY <1>1, <1>6, <3>1, <3>4, <3>7, <5>1 DEF PurseMoves
      <4>2. k1 = h1 /\ g1 <= f1 + n
        BY <1>4, <3>1, <3>3, <3>7
      <4> QED BY <1>7, <3>2, <3>3, <4>1, <4>2
    <3> QED BY <3>5, <3>6, <3>7
  <2> QED BY <2>1, <2>2
<1>9. /\ wallet'[p].reserved >= 0
      /\ wallet'[p].reserved + SumFunctionOnSet([v \in Of(p) |-> GivenUp(v)'], Of(p))
           <= SumFunctionOnSet([v \in Of(p) |-> Held(v)'], Of(p))
  BY <1>2, <1>3, <1>6, <1>8
<1> QED BY <1>9 DEF Covered, Of

-----------------------------------------------------------------------------
\* Types and calls.
LEMMA FinishTyped ==
  ASSUME WithdrawalInv, NEW s \in Sessions, NEW c \in WithdrawalCalls, c = call[s], Finishes(s)
  PROVE  WithdrawalsTyped' /\ CallsChecked' /\ RequestsAlone'
<1>0. WithdrawalsTyped
  BY DEF WithdrawalInv
<1>1. PICK w \in Ids : w = c.id
  BY DEF WithdrawalCalls
<1>2. PICK r \in WithdrawalRows : wd' = [wd EXCEPT ![w] = r] /\ r.status # "none"
  BY <1>1, RowWritten DEF WithdrawalInv
<1>3. PICK x \in Purses : wallet' = [wallet EXCEPT ![Owner[w]] = x]
  BY <1>0, <1>1, PurseWritten
<1>4. call' = [call EXCEPT ![s] = NoCall]
  BY DEF Finishes, FinishRequest, FinishAgentOp, FinishProof, FinishPayout, FinishRefund, Done
<1>5. IsFiniteSet(DOMAIN ledger') /\ DOMAIN ledger' \subseteq Entries /\ \A e \in DOMAIN ledger' : ledger'[e] \in Nat
  <2>1. CASE ledger' = ledger
    BY <1>0, <2>1 DEF WithdrawalsTyped
  <2>2. ASSUME NEW E \in SUBSET Entries, IsFiniteSet(E), Post(E)
        PROVE  IsFiniteSet(DOMAIN ledger') /\ DOMAIN ledger' \subseteq Entries /\ \A e \in DOMAIN ledger' : ledger'[e] \in Nat
    BY <1>0, <2>2, LedgerTyped
  <2>3. ASSUME NEW kind \in {"hold", "refund"}, Post({Entry(w, kind, Owner[w], Amount[w])})
        PROVE  \E E \in SUBSET Entries : IsFiniteSet(E) /\ Post(E)
    <3>1. PICK e : e = Entry(w, kind, Owner[w], Amount[w])
      OBVIOUS
    <3>2. e \in Entries
      BY <2>3, <3>1, WithdrawalsAssumption DEF Entry, Entries
    <3>3. IsFiniteSet({e}) /\ Post({e})
      BY <2>3, <3>1, FS_Singleton
    <3>4. PICK E : E = {e} /\ IsFiniteSet(E) /\ Post(E)
      BY <3>3
    <3> QED BY <3>2, <3>4
  <2>4. ASSUME c.agent # Nobody, Post({e \in Credits(c) : Fresh(c, e)})
        PROVE  \E E \in SUBSET Entries : IsFiniteSet(E) /\ Post(E)
    <3>1. PICK a \in Agents, n \in Nat, f \in Nat : a = c.agent /\ n = Amount[w] /\ f = c.fee
      BY <2>4, WithdrawalsAssumption DEF WithdrawalCalls
    <3>2. PICK d, q : d = Entry(w, "receipt", a, n - f) /\ q = Entry(w, "fee", FeeTo(c), f)
      OBVIOUS
    <3>3. FeeTo(c) \in Agents \cup {House}
      BY <3>1 DEF FeeTo
    <3>4. d \in Entries /\ q \in Entries
      BY <3>1, <3>2, <3>3 DEF Entry, Entries
    <3>5. IsFiniteSet({d, q})
      <4>1. IsFiniteSet({d})
        BY FS_Singleton
      <4>2. PICK M : M = {d} /\ IsFiniteSet(M)
        BY <4>1
      <4>3. IsFiniteSet(M \cup {q}) /\ M \cup {q} = {d, q}
        BY <4>2, FS_AddElement
      <4> QED BY <4>3
    <3>6. PICK E : E = {e \in Credits(c) : Fresh(c, e)} /\ Post(E)
      BY <2>4
    <3>7. E \subseteq {d, q}
      BY <1>1, <3>1, <3>2, <3>6 DEF Credits
    <3>8. IsFiniteSet(E)
      BY <3>5, <3>7, FS_Subset
    <3> QED BY <3>4, <3>6, <3>7, <3>8
  <2>5. ledger' = ledger \/ \E E \in SUBSET Entries : IsFiniteSet(E) /\ Post(E)
    BY <1>1, <2>3, <2>4, EntriesPosted
  <2> QED BY <2>1, <2>2, <2>5
<1>6. call' \in [Sessions -> WithdrawalCalls \cup {NoCall}] /\ wd' \in [Ids -> WithdrawalRows] /\ wallet' \in [Players -> Purses]
  BY <1>0, <1>2, <1>3, <1>4 DEF WithdrawalsTyped
<1>7. \A v \in Ids : wd'[v] = IF v = w THEN r ELSE wd[v]
  BY <1>0, <1>2 DEF WithdrawalsTyped
<1>8. WithdrawalsTyped'
  BY <1>0, <1>2, <1>5, <1>6, <1>7 DEF WithdrawalsTyped
<1>9. NoCall \notin WithdrawalCalls
  BY DEF WithdrawalCalls, NoCall
<1>10. \A q \in Sessions, d \in WithdrawalCalls : d = call'[q] => q # s /\ d = call[q]
  BY <1>0, <1>4, <1>9 DEF WithdrawalsTyped
<1>11. CallsChecked'
  BY <1>10 DEF WithdrawalInv, CallsChecked, Checked
<1>12. RequestsAlone'
  <2>1. ASSUME NEW q \in Sessions, NEW d \in WithdrawalCalls, d = call'[q]
        PROVE  d.op = "request" <=> wd'[d.id].status = "none"
    <3>1. q # s /\ d = call[q] /\ d.id \in Ids
      BY <1>10, <2>1 DEF WithdrawalCalls
    <3>2. d.op = "request" <=> wd[d.id].status = "none"
      BY <3>1 DEF WithdrawalInv, RequestsAlone
    <3>3. CASE d.id = w
      <4>1. d.op # "request"
        BY <1>1, <3>1, <3>2, <3>3 DEF WithdrawalInv, RequestsAlone
      <4> QED BY <1>2, <1>7, <3>1, <3>3, <4>1
    <3>4. CASE d.id # w
      BY <1>7, <3>1, <3>2, <3>4
    <3> QED BY <3>3, <3>4
  <2> QED BY <1>10, <2>1 DEF WithdrawalInv, RequestsAlone
<1> QED BY <1>8, <1>11, <1>12

LEMMA BeginTyped ==
  ASSUME WithdrawalInv, NEW s \in Sessions, End(s) \/ \E c \in WithdrawalCalls : Begins(s, c)
  PROVE  WithdrawalsTyped' /\ CallsChecked' /\ RequestsAlone' /\ UNCHANGED <<wd, wallet, ledger>>
<1>0. WithdrawalsTyped /\ CallsChecked /\ RequestsAlone /\ NoCall \notin WithdrawalCalls
  BY DEF WithdrawalInv, WithdrawalCalls, NoCall
<1>1. CASE End(s)
  <2>1. call' = [call EXCEPT ![s] = NoCall] /\ UNCHANGED <<wd, wallet, ledger>>
    BY <1>1 DEF End, Done
  <2>2. \A q \in Sessions, d \in WithdrawalCalls : d = call'[q] => d = call[q]
    BY <1>0, <2>1 DEF WithdrawalsTyped
  <2>3. WithdrawalsTyped'
    BY <1>0, <2>1 DEF WithdrawalsTyped
  <2> QED BY <1>0, <2>1, <2>2, <2>3 DEF CallsChecked, Checked, RequestsAlone
<1>2. ASSUME NEW c \in WithdrawalCalls, Begins(s, c)
      PROVE  WithdrawalsTyped' /\ CallsChecked' /\ RequestsAlone' /\ UNCHANGED <<wd, wallet, ledger>>
  <2>1. /\ call[s] = NoCall /\ call' = [call EXCEPT ![s] = c] /\ UNCHANGED <<wd, wallet, ledger>>
        /\ c.row = wd[c.id] /\ Checked(c)
        /\ c.op = "request" => \A q \in Sessions : call[q].op = "request" => call[q].id # c.id
    BY <1>2 DEF Begins
  <2>2. \A q \in Sessions, d \in WithdrawalCalls : d = call'[q] => (q = s /\ d = c) \/ (q # s /\ d = call[q])
    BY <1>0, <2>1 DEF WithdrawalsTyped
  <2>3. WithdrawalsTyped'
    BY <1>0, <2>1 DEF WithdrawalsTyped
  <2>4. CallsChecked'
    BY <1>0, <2>1, <2>2 DEF CallsChecked, Checked
  <2>5. c.op = "request" <=> wd[c.id].status = "none"
    BY <2>1 DEF Checked, NoRow
  <2>6. \A q \in Sessions, d \in WithdrawalCalls : d = call'[q] => (d.op = "request" <=> wd'[d.id].status = "none")
    BY <1>0, <2>1, <2>2, <2>5 DEF RequestsAlone
  <2>7. \A q, z \in Sessions, d, e \in WithdrawalCalls :
          d = call'[q] /\ e = call'[z] /\ d.op = "request" /\ d.id = e.id => q = z
    <3> SUFFICES ASSUME NEW q \in Sessions, NEW z \in Sessions, NEW d \in WithdrawalCalls, NEW e \in WithdrawalCalls,
                        d = call'[q], e = call'[z], d.op = "request", d.id = e.id
                 PROVE  q = z
      OBVIOUS
    <3>1. e.op = "request"
      BY <2>6
    <3>2. CASE q = s /\ z # s
      BY <2>1, <2>2, <3>1, <3>2
    <3>3. CASE q # s /\ z = s
      BY <2>1, <2>2, <3>1, <3>3
    <3>4. CASE q # s /\ z # s
      BY <1>0, <2>2, <3>4 DEF RequestsAlone
    <3> QED BY <3>2, <3>3, <3>4
  <2> QED BY <2>1, <2>3, <2>4, <2>6, <2>7 DEF RequestsAlone
<1> QED BY <1>1, <1>2

\* Where nothing is written, the history only grows.
LEMMA Unwritten ==
  ASSUME RowsKept, WalletExplained, PaidFromReserve, UNCHANGED <<wd, wallet, ledger>>,
         stale \subseteq stale', skipped \subseteq skipped'
  PROVE  RowsKept' /\ WalletExplained' /\ PaidFromReserve'
<1>1. RowsKept'
  BY DEF RowsKept, RowKeeps
<1>2. WalletExplained'
  BY DEF WalletExplained, Explained, Backed, Times, Of, IsOpen, EndedByAgent
<1>3. PaidFromReserve'
  <2>1. ASSUME NEW v PROVE GivenUp(v)' = GivenUp(v) /\ Held(v)' = Held(v)
    BY DEF GivenUp, Held, Times, Paid, Custody
  <2>2. ASSUME NEW p \in Players, p \notin skipped' PROVE Covered(p)'
    <3>1. PICK S, f, h : S = Of(p) /\ f = [v \in S |-> GivenUp(v)] /\ h = [v \in S |-> Held(v)]
      OBVIOUS
    <3>2. wallet[p].reserved >= 0 /\ wallet[p].reserved + SumFunctionOnSet(f, S) <= SumFunctionOnSet(h, S)
      BY <2>2, <3>1 DEF PaidFromReserve
    <3>3. [v \in S |-> GivenUp(v)'] = f /\ [v \in S |-> Held(v)'] = h
      BY <2>1, <3>1
    <3> QED BY <3>1, <3>2, <3>3 DEF Covered, Of
  <2> QED BY <2>2 DEF Covered, PaidFromReserve, Of
<1> QED BY <1>1, <1>2, <1>3

LEMMA FeesRead ==
  ASSUME WithdrawalInv, NEW s \in Sessions, End(s) \/ \E c \in WithdrawalCalls : Begins(s, c)
  PROVE  FeesFit'
<1>1. wd' = wd
  BY DEF End, Begins
<1>2. ASSUME NEW q \in Sessions, NEW d \in WithdrawalCalls, d = call'[q] PROVE d = call[q] \/ d.row = wd[d.id]
  <2>1. CASE End(s)
    <3>1. call' = [call EXCEPT ![s] = NoCall] /\ NoCall \notin WithdrawalCalls
      BY <2>1 DEF End, Done, WithdrawalCalls, NoCall
    <3> QED BY <1>2, <3>1 DEF WithdrawalInv, WithdrawalsTyped
  <2>2. ASSUME NEW c \in WithdrawalCalls, Begins(s, c) PROVE d = call[q] \/ d.row = wd[d.id]
    BY <1>2, <2>2 DEF Begins, WithdrawalInv, WithdrawalsTyped
  <2> QED BY <2>1, <2>2
<1>3. \A d \in WithdrawalCalls : d.id \in Ids
  BY DEF WithdrawalCalls
<1> QED BY <1>1, <1>2, <1>3 DEF FeesFit, WithdrawalInv

LEMMA WithdrawalStep == WithdrawalInv /\ MCNext => WithdrawalInv'
<1> SUFFICES ASSUME WithdrawalInv, MCNext PROVE WithdrawalInv'
  OBVIOUS
<1>1. PICK s \in Sessions : Finishes(s) \/ End(s) \/ \E c \in WithdrawalCalls : Begins(s, c)
  BY WithdrawalSteps DEF WithdrawalInv, MCNext
<1>2. stale \subseteq stale' /\ skipped \subseteq skipped'
  BY DEF MCNext
<1>3. CASE End(s) \/ \E c \in WithdrawalCalls : Begins(s, c)
  <2>1. WithdrawalsTyped' /\ CallsChecked' /\ RequestsAlone' /\ UNCHANGED <<wd, wallet, ledger>>
    BY <1>3, BeginTyped
  <2>2. FeesFit'
    BY <1>3, <2>1, FeesRead
  <2> QED BY <1>2, <2>1, <2>2, Unwritten DEF WithdrawalInv
<1>4. CASE Finishes(s)
  <2>1. PICK c \in WithdrawalCalls : c = call[s]
    <3>1. call[s] \in WithdrawalCalls \cup {NoCall}
      BY DEF WithdrawalInv, WithdrawalsTyped
    <3>2. call[s].op # "none"
      BY <1>4 DEF Finishes, FinishRequest, FinishAgentOp, FinishProof, FinishPayout, FinishRefund, PayingOps, RefundingOps
    <3> QED BY <3>1, <3>2 DEF NoCall
  <2>2. WithdrawalsTyped' /\ CallsChecked' /\ RequestsAlone' /\ FeesFit'
    BY <1>4, <2>1, FinishTyped, FeesStep
  <2>3. CASE ~Wrote
    <3>1. UNCHANGED <<wd, wallet, ledger>>
      BY <2>3 DEF Wrote
    <3> QED BY <1>2, <2>2, <3>1, Unwritten DEF WithdrawalInv
  <2>4. CASE Wrote
    <3>1. RowsKept'
      BY <1>4, <2>1, <2>4, RowsStep
    <3>2. WalletExplained'
      <4>1. ASSUME NEW p \in Players, p \notin skipped'
            PROVE  Explained(p)' /\ (Of(p) \cap stale' = {} => Backed(p, {v \in Of(p) : EndedByAgent(v)})')
        BY <1>4, <2>1, <2>4, <4>1, ExplainedStep, BackedStep
      <4> QED BY <4>1 DEF WalletExplained, Of
    <3>3. PaidFromReserve'
      <4>1. ASSUME NEW p \in Players, p \notin skipped' PROVE Covered(p)'
        BY <1>4, <2>1, <2>4, <4>1, CoveredStep
      <4> QED BY <4>1 DEF Covered, PaidFromReserve, Of
    <3> QED BY <2>2, <3>1, <3>2, <3>3 DEF WithdrawalInv
  <2> QED BY <2>3, <2>4
<1> QED BY <1>1, <1>3, <1>4

LEMMA WithdrawalStarts == MCInit => WithdrawalInv
<1> SUFFICES ASSUME MCInit PROVE WithdrawalInv
  OBVIOUS
<1>1. /\ wd = [w \in Ids |-> NoRow] /\ wallet = [p \in Players |-> [avail |-> Funds, reserved |-> 0]]
      /\ DOMAIN ledger = {} /\ call = [s \in Sessions |-> NoCall]
  BY DEF MCInit, Init, EmptyBag, SetToBag
<1>2. NoRow \in WithdrawalRows /\ NoRow.status = "none" /\ NoRow.ref = Nobody
  BY DEF NoRow, WithdrawalRows
<1>3. WithdrawalsTyped
  <2>1. \A p \in Players : wallet[p] \in Purses
    BY <1>1, WithdrawalsAssumption DEF Purses
  <2>2. IsFiniteSet({})
    BY FS_EmptySet
  <2> QED BY <1>1, <1>2, <2>1, <2>2 DEF WithdrawalsTyped
<1>4. CallsChecked /\ RequestsAlone
  <2>1. NoCall \notin WithdrawalCalls
    BY DEF WithdrawalCalls, NoCall
  <2> QED BY <1>1, <2>1 DEF CallsChecked, RequestsAlone
<1>5. \A w \in Ids : wd[w] = NoRow
  BY <1>1
<1>6. \A w : Custody(w) = {}
  BY <1>1 DEF Custody, BagToSet
<1>7. \A w, k : Times(w, k) = 0
  <2> TAKE w, k
  <2>1. PICK f : f = ledger
    OBVIOUS
  <2>2. Times(w, k) = SumFunctionOnSet(f, {})
    BY <1>1, <2>1 DEF Times, BagToSet
  <2> QED BY <2>2, SumEmpty
<1>8. \A w, to : Paid(w, to) = 0
  <2> TAKE w, to
  <2>1. PICK f : f = [e \in {} |-> e.n * ledger[e]]
    OBVIOUS
  <2>2. PaidSet(w, to) = {}
    BY <1>6 DEF PaidSet
  <2>3. Paid(w, to) = SumFunctionOnSet(f, {})
    BY <2>1, <2>2 DEF Paid, PaidSet
  <2> QED BY <2>3, SumEmpty
<1>9. RowsKept
  BY <1>2, <1>5 DEF RowsKept, RowKeeps
<1>10. FeesFit
  <2>1. NoCall \notin WithdrawalCalls
    BY DEF WithdrawalCalls, NoCall
  <2>2. NoRow.fee = 0
    BY DEF NoRow
  <2> QED BY <1>1, <1>5, <2>1, <2>2, WithdrawalsAssumption DEF FeesFit
<1>11. WalletExplained
  <2> SUFFICES ASSUME NEW p \in Players PROVE Explained(p) /\ Backed(p, {w \in Of(p) : EndedByAgent(w)})
    BY DEF WalletExplained
  <2>0. IsFiniteSet(Ids) /\ Funds \in Nat
    BY WithdrawalsAssumption
  <2>1. PICK S, g : S = Of(p) /\ IsFiniteSet(S) /\ g = [w \in S |-> 0]
    BY <2>0, FS_Subset DEF Of
  <2>2. \A w \in Of(p) : g[w] = NetOf(w)
    <3> TAKE w \in Of(p)
    <3>1. PICK n \in Nat : n = Amount[w]
      BY WithdrawalsAssumption DEF Of
    <3>2. n * (0 - 0) = 0
      BY <3>1
    <3> QED BY <1>7, <2>1, <3>1, <3>2 DEF NetOf
  <2>3. \A w \in S : g[w] = 0
    BY <2>1
  <2>4. SumFunctionOnSet(g, S) = 0
    BY <2>1, <2>3, SumZero
  <2>5. wallet[p].avail = Funds /\ wallet[p].reserved = 0
    BY <1>1
  <2>6. Explained(p)
    BY <2>0, <2>1, <2>2, <2>4, <2>5, ExplainedIs
  <2>7. {w \in Of(p) : IsOpen(w) \/ w \in {v \in Of(p) : EndedByAgent(v)}} = {}
    BY <1>2, <1>5 DEF Of, IsOpen, EndedByAgent
  <2>8. Backed(p, {w \in Of(p) : EndedByAgent(w)})
    BY <2>5, <2>7, SumEmpty DEF Backed
  <2> QED BY <2>6, <2>8
<1>12. PaidFromReserve
  <2> SUFFICES ASSUME NEW p \in Players PROVE Covered(p)
    BY DEF PaidFromReserve, Covered
  <2>1. PICK S, f, h : /\ S = Of(p) /\ IsFiniteSet(S) /\ S \subseteq Ids
                       /\ f = [v \in S |-> GivenUp(v)] /\ h = [v \in S |-> Held(v)]
    BY FS_Subset, WithdrawalsAssumption DEF Of
  <2>2. \A v \in S : f[v] = 0 /\ h[v] = 0
    <3> TAKE v \in S
    <3>1. PICK n \in Nat : n = Amount[v]
      BY <2>1, WithdrawalsAssumption
    <3>2. n * 0 = 0 /\ Times(v, "refund") = 0 /\ Times(v, "hold") = 0 /\ Paid(v, Agents \cup {House}) = 0
      BY <1>7, <1>8, <3>1
    <3> QED BY <2>1, <3>1, <3>2 DEF GivenUp, Held
  <2>3. SumFunctionOnSet(f, S) = 0 /\ SumFunctionOnSet(h, S) = 0
    BY <2>1, <2>2, SumZero
  <2>4. wallet[p].reserved = 0
    BY <1>1
  <2> QED BY <2>1, <2>3, <2>4 DEF Covered
<1> QED BY <1>3, <1>4, <1>9, <1>10, <1>11, <1>12 DEF WithdrawalInv

LEMMA WithdrawalUntouched == WithdrawalInv /\ UNCHANGED withdrawals => WithdrawalInv'
<1> SUFFICES ASSUME WithdrawalInv, UNCHANGED withdrawals PROVE WithdrawalInv'
  OBVIOUS
<1>1. UNCHANGED <<wd, wallet, ledger, call, stale, skipped>>
  BY DEF withdrawals, mcvars, vars
<1>2. WithdrawalsTyped' /\ CallsChecked' /\ RequestsAlone' /\ FeesFit'
  BY <1>1 DEF WithdrawalInv, WithdrawalsTyped, CallsChecked, Checked, RequestsAlone, FeesFit
<1>3. RowsKept' /\ WalletExplained' /\ PaidFromReserve'
  BY <1>1, Unwritten DEF WithdrawalInv
<1> QED BY <1>2, <1>3 DEF WithdrawalInv

-----------------------------------------------------------------------------
\* All workflows together: a step is one of one workflow, and the others stay.
OfficeInv == CustodyInv /\ WithdrawalInv /\ SupportInv /\ AccountsInv /\ BroadcastInv /\ AgencyInv

LEMMA OfficeStarts == OfficeInit => OfficeInv
<1> SUFFICES ASSUME OfficeInit PROVE OfficeInv
  OBVIOUS
<1>1. CustodyInv
  BY DEF OfficeInit, MCInit, Init, EmptyBag, SetToBag, CustodyInv
<1>a. WithdrawalInv
  BY WithdrawalStarts DEF OfficeInit
<1>2. SupportInv
  BY DEF OfficeInit, Support!Init, SupportInv, Support!Doing
<1>3. AccountsInv
  <2>1. /\ users = [u \in Paying!Users |-> Paying!NewUser] /\ errand = [s \in Staff |-> None]
        /\ deposits = [r \in Receipts |-> Paying!NoRow] /\ credits = {} /\ lookup = [s \in Staff |-> None]
        /\ first = [p \in Depositors |-> Nobody]
    BY DEF OfficeInit, Paying!Init, Paying!AccountsInit
  <2>2. UserRows /\ Lookups
    BY <2>1 DEF UserRows, Lookups, Paying!Doing, IsRow, Paying!NewUser
  <2>3. ReceiptsPaidOnce
    BY <2>1 DEF ReceiptsPaidOnce, Paying!NoRow
  <2>4. LinksKept /\ OneOnDuty
    BY <2>1 DEF LinksKept, OneOnDuty, Paying!NewUser, Paying!Users
  <2> QED BY <2>2, <2>3, <2>4 DEF AccountsInv
<1>4. BroadcastInv
  <2>1. /\ row \in Sending!Created /\ sends = 0 /\ loop = [i \in Sending!Dispatches |-> None]
        /\ admin = [p \in Staff |-> None] /\ tick = [p \in Staff |-> None]
    BY DEF OfficeInit, Sending!Init
  <2>2. IsBroadcast(row) /\ Alive = {}
    BY <2>1 DEF Sending!Created, IsBroadcast, Alive
  <2> QED BY <2>1, <2>2 DEF BroadcastInv, BroadcastRows, Alone
<1>5. AgencyInv
  <2>1. /\ now = 0 /\ earnings = [t \in Instants |-> "none"] /\ settlements = <<>>
        /\ request = [s \in Staff |-> None] /\ excused = {}
    BY DEF OfficeInit, Agent!Init, Instants
  <2>2. AgencyRows
    BY <2>1, OfficeAssumption, EmptySeq DEF AgencyRows, Instants
  <2>3. OneRequest /\ RequestsRead /\ CountsOwn /\ CountsAll
    BY <2>1 DEF OneRequest, RequestsRead, CountsOwn, CountsAll
  <2> QED BY <2>2, <2>3 DEF AgencyInv
<1> QED BY <1>1, <1>a, <1>2, <1>3, <1>4, <1>5 DEF OfficeInv

\* What each part of the invariant is about.
LEMMA Untouched ==
  /\ CustodyInv /\ UNCHANGED withdrawals => CustodyInv'
  /\ WithdrawalInv /\ UNCHANGED withdrawals => WithdrawalInv'
  /\ SupportInv /\ UNCHANGED support => SupportInv'
  /\ AccountsInv /\ UNCHANGED accounts => AccountsInv'
  /\ BroadcastInv /\ UNCHANGED broadcast => BroadcastInv'
  /\ AgencyInv /\ UNCHANGED agency => AgencyInv'
<1>1. CustodyInv /\ UNCHANGED withdrawals => CustodyInv'
  BY DEF withdrawals, mcvars, vars, CustodyInv
<1>2. SupportInv /\ UNCHANGED support => SupportInv'
  BY DEF support, SupportInv, Support!Doing, Moved
<1>3. AccountsInv /\ UNCHANGED accounts => AccountsInv'
  BY DEF accounts, AccountsInv, UserRows, Lookups, ReceiptsPaidOnce, LinksKept, OneOnDuty, Paying!Doing
<1>4. BroadcastInv /\ UNCHANGED broadcast => BroadcastInv'
  BY DEF broadcast, BroadcastInv, BroadcastRows, Alone, Alive
<1>5. AgencyInv /\ UNCHANGED agency => AgencyInv'
  BY DEF agency, AgencyInv, AgencyRows, OneRequest, RequestsRead, ReadsAll, CountsOwn, CountsAll, Claims, Due
<1> QED BY <1>1, <1>2, <1>3, <1>4, <1>5, WithdrawalUntouched

LEMMA OfficeStep == OfficeInv /\ [OfficeNext]_officevars => OfficeInv'
<1> SUFFICES ASSUME OfficeInv, [OfficeNext]_officevars PROVE OfficeInv'
  OBVIOUS
<1>1. CASE MCNext /\ UNCHANGED <<agency, support, broadcast, accounts>>
  <2>1. CustodyInv'
    BY <1>1, CustodyStep DEF MCNext, OfficeInv
  <2>2. WithdrawalInv'
    BY <1>1, WithdrawalStep DEF OfficeInv
  <2> QED BY <1>1, <2>1, <2>2, Untouched DEF OfficeInv
<1>2. CASE Agent!Next /\ Excuses /\ UNCHANGED <<withdrawals, support, broadcast, accounts>>
  <2>1. AgencyInv'
    BY <1>2, AgencyStep DEF OfficeInv
  <2> QED BY <1>2, <2>1, Untouched DEF OfficeInv
<1>3. CASE Support!Next /\ UNCHANGED <<withdrawals, agency, broadcast, accounts>>
  <2>1. SupportInv'
    BY <1>3, SupportStep DEF OfficeInv
  <2> QED BY <1>3, <2>1, Untouched DEF OfficeInv
<1>4. CASE /\ ~overtaken /\ Sending!Next /\ overtaken' = (overtaken \/ Overtakes)
           /\ UNCHANGED <<withdrawals, agency, support, accounts>>
  <2>1. BroadcastInv'
    BY <1>4, BroadcastStep DEF OfficeInv
  <2> QED BY <1>4, <2>1, Untouched DEF OfficeInv
<1>5. CASE Paying!Next /\ Attributions /\ UNCHANGED <<withdrawals, agency, support, broadcast>>
  <2>1. AccountsInv'
    BY <1>5, AccountsStep DEF OfficeInv
  <2> QED BY <1>5, <2>1, Untouched DEF OfficeInv
<1>6. CASE UNCHANGED officevars
  <2>1. UNCHANGED <<withdrawals, agency, support, broadcast, accounts>>
    BY <1>6 DEF officevars
  <2> QED BY <2>1, Untouched DEF OfficeInv
<1> QED BY <1>1, <1>2, <1>3, <1>4, <1>5, <1>6, Zenon DEF OfficeNext

LEMMA OfficeInvariant == OfficeSpec => []OfficeInv
BY OfficeStarts, OfficeStep, PTL DEF OfficeSpec

\* settleWithdrawalPayout: whatever settlements of a withdrawal overlap, no user is credited
\* twice for the same part of it.
THEOREM CustodyIsOnce == OfficeSpec => []CustodyOnce
<1>1. OfficeInv => CustodyOnce
  BY DEF OfficeInv, CustodyInv, CustodyOnce, Custody, BagToSet, IsCustody, SamePart
<1> QED BY <1>1, OfficeInvariant, PTL

\* approveRefundRequest: one refund is paid at most, whoever decides and however often, and an
\* approved request shows its amount.
THEOREM OneRefundIsPaid == OfficeSpec => []ApprovedPaid
<1>1. OfficeInv => ApprovedPaid
  BY AtMostOne DEF OfficeInv, SupportInv, Moved, ApprovedPaid
<1> QED BY <1>1, OfficeInvariant, PTL

\* claimDue and sendNow: one dispatch of a broadcast runs at a time, unless the row was saved
\* or recovered over a change.
THEOREM OneSendAtOnce == OfficeSpec => []OneSendAtATime
<1>1. OfficeInv => OneSendAtATime
  <2>1. CASE overtaken
    BY <2>1 DEF OneSendAtATime
  <2>2. ASSUME OfficeInv, ~overtaken PROVE OneSendAtATime
    BY <2>2, AtMostOne DEF OfficeInv, BroadcastInv, Alone, Alive, OneSendAtATime
  <2> QED BY <2>1, <2>2
<1> QED BY <1>1, OfficeInvariant, PTL

\* submitTelebirrReceipt, submitMpesaSms: a receipt is credited once, to the player of its row.
THEOREM ReceiptsArePaidOnce == OfficeSpec => []ReceiptsPaidOnce
<1>1. OfficeInv => ReceiptsPaidOnce
  BY DEF OfficeInv, AccountsInv
<1> QED BY <1>1, OfficeInvariant, PTL

\* AttributionService, setAgentOnDutyMode: a player stays with the agent who was the first to
\* attribute him, and one agent at most is pinned on duty, unless a row was saved over a change.
THEOREM AttributionsAreKept == OfficeSpec => []AttributionsKept
<1>1. OfficeInv => AttributionsKept
  <2> SUFFICES ASSUME OfficeInv PROVE AttributionsKept
    OBVIOUS
  <2>1. \A p \in Depositors \ overwritten : users[p].link = first[p]
    BY DEF OfficeInv, AccountsInv, LinksKept
  <2>2. overwritten \cap Agents = {} => Cardinality({a \in Agents : users[a].mode = "on"}) <= 1
    BY AtMostOne DEF OfficeInv, AccountsInv, OneOnDuty
  <2> QED BY <2>1, <2>2 DEF AttributionsKept
<1> QED BY <1>1, OfficeInvariant, PTL

\* requestSettlement: an earning before the end of a settlement that claims is counted by one
\* of these, unless calls overlapped or an administrator settled by hand.
THEOREM EarningsAreClaimedOnce == OfficeSpec => []EarningsClaimedOnce
<1>1. OfficeInv => EarningsClaimedOnce
  BY ClaimedOnce DEF OfficeInv
<1> QED BY <1>1, OfficeInvariant, PTL

\* Wallet.availableMinor and reservedMinor: the available balance is what the ledger adds up to
\* and the reserved one what the open requests hold, with those an agent rejected, unless save
\* left a column out or a call was late.
THEOREM WalletsAreExplained == OfficeSpec => []WalletExplained
<1>1. OfficeInv => WalletExplained
  BY DEF OfficeInv, WithdrawalInv
<1> QED BY <1>1, OfficeInvariant, PTL

\* The settlements: whatever calls on a player's withdrawals overlap, what was refunded and paid
\* out for them and what is still reserved never exceed what they held.
THEOREM PayoutsAreReserved == OfficeSpec => []PaidFromReserve
<1>1. OfficeInv => PaidFromReserve
  BY DEF OfficeInv, WithdrawalInv
<1> QED BY <1>1, OfficeInvariant, PTL
=============================================================================
