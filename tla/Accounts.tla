------------------------------ MODULE Accounts ------------------------------
(***************************************************************************)
(* The rows of players and agents: src/src/users/users.service.ts and      *)
(* whoever else writes them.  Most calls read a row, await something and   *)
(* save it whole: every column they read goes back with the one they       *)
(* changed.  The attribution of a player and the duty of an agent are      *)
(* written by guarded updates instead.                                     *)
(***************************************************************************)
EXTENDS Integers, FiniteSets

CONSTANTS Players, Agents, Nobody, Callers, None, MaxErrands

VARIABLES
  users,     \* the rows: status; referredByAgentId; onDutyMode; permission to take deposits
  errand,    \* errand[c]: what the call c goes on with, or None
  errands    \* begun so far
uservars == <<users, errand, errands>>

Users == Players \cup Agents
NewUser == [status |-> "active", link |-> Nobody, mode |-> "auto", permit |-> TRUE]
Modes == {"auto", "on", "off"}
Statuses == {"active", "suspended"}
Active(u) == users[u].status = "active"

Begin(c, next) ==
  /\ errand[c] = None /\ errands < MaxErrands /\ errands' = errands + 1
  /\ errand' = [errand EXCEPT ![c] = next] /\ UNCHANGED users
ReadToSave(c, u, edit) == Begin(c, [do |-> "save", id |-> u, row |-> users[u], edit |-> edit])
Doing(c, what) == errand[c] # None /\ errand[c].do = what
End(c) == errand' = [errand EXCEPT ![c] = None] /\ UNCHANGED errands

\* Columns this module leaves out.
Other == [row \in {} |-> TRUE]
Status(s) == [status |-> s]

UpdateProfile(c, u) == ReadToSave(c, u, Other)
UpdateStatus(c, u) == \E s \in Statuses : ReadToSave(c, u, Status(s))
UpdateAgentUser(c, a) ==
  \E edit \in {Other, [permit |-> FALSE], [permit |-> TRUE]} \cup {Status(s) : s \in Statuses} : ReadToSave(c, a, edit)
SetAssignedAgent(c, p) == ReadToSave(c, p, Other)
SetUserLocation(c, p) == ReadToSave(c, p, Other)
\* On /start in the bot; a login does it in a transaction, which writes the column it changed only.
FindOrCreateTelegramUser(c, p) == ReadToSave(c, p, Other)

\* The row with the columns of the edit replaced.
Edited(row, edit) == [f \in DOMAIN row |-> IF f \in DOMAIN edit THEN edit[f] ELSE row[f]]
Save(c) ==
  /\ Doing(c, "save") /\ End(c)
  /\ users' = [users EXCEPT ![errand[c].id] = Edited(errand[c].row, errand[c].edit)]

\* setAgentOnDutyMode: a transaction whose save compares with the row of its own snapshot, and
\* whose update of the others locks every row until the commit.
ReadAgent(c, a) == \E m \in Modes : Begin(c, [do |-> "duty", id |-> a, row |-> users[a], mode |-> m])
Demoted(a) == {u \in Users \ {a} : users[u].mode = "on"}
SetAgentOnDutyMode(c) ==
  LET a == errand[c].id
      mode == errand[c].mode IN
  /\ Doing(c, "duty") /\ End(c)
  /\ users' = [u \in Users |->
       IF u = a /\ mode # errand[c].row.mode THEN [users[u] EXCEPT !.mode = mode]
       ELSE IF mode = "on" /\ u \in Demoted(a) THEN [users[u] EXCEPT !.mode = "auto"] ELSE users[u]]

\* SET referredByAgentId ... WHERE referredByAgentId IS NULL.
LastWins(old, new) == new
FirstWins(old, new) == IF old = Nobody THEN new ELSE old
Linked(p, a) == [users EXCEPT ![p].link = FirstWins(@, a)]

FindAgentByCode(c, p, a) == Active(a) /\ Begin(c, [do |-> "link", id |-> p, agent |-> a])
AttributeReferral(c) == Doing(c, "link") /\ End(c) /\ users' = Linked(errand[c].id, errand[c].agent)

AccountsInit == users = [u \in Users |-> NewUser] /\ errand = [c \in Callers |-> None] /\ errands = 0
AccountsNext ==
  \E c \in Callers :
    \/ \E u \in Users : UpdateProfile(c, u) \/ UpdateStatus(c, u)
    \/ \E p \in Players : SetAssignedAgent(c, p) \/ SetUserLocation(c, p) \/ FindOrCreateTelegramUser(c, p)
    \/ \E p \in Players, a \in Agents : FindAgentByCode(c, p, a)
    \/ \E a \in Agents : UpdateAgentUser(c, a) \/ ReadAgent(c, a)
    \/ Save(c) \/ SetAgentOnDutyMode(c) \/ AttributeReferral(c)
=============================================================================
