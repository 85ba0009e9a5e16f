----------------------------- MODULE Broadcast ------------------------------
(***************************************************************************)
(* One broadcast, by several instances of the server:                      *)
(* src/src/broadcast/broadcast.service.ts and its scheduler.  Claims are   *)
(* UPDATEs guarded by the status; every other write saves a whole row read *)
(* earlier.  The ids an administrator asked to stop are kept in the memory *)
(* of the instance that got the request.                                   *)
(***************************************************************************)
EXTENDS Integers, FiniteSets

CONSTANTS Instances, None, MaxSends, MaxCalls, MaxCrashes

VARIABLES
  row,         \* the broadcast, or None once it is deleted
  stale,       \* its updatedAt is older than 45 minutes
  loop,        \* loop[i]: the i-th dispatch, or None when it is over
  cancelling,  \* instances that have its id in `cancelling`
  admin,       \* admin[p]: the request that p serves, with the row it read, or None
  tick,        \* tick[p]: the scheduler's step of p, with the row it read, or None
  sends, calls, crashes      \* counters that bound the exploration
vars == <<row, stale, loop, cancelling, admin, tick, sends, calls, crashes>>

Dispatches == 1..MaxSends
Is(r, statuses) == r # None /\ r.status \in statuses
Save(r) == row' = r /\ stale' = FALSE
With(r, status) == [r EXCEPT !.status = status]

\* Its next occurrence when it recurs.
Armed(r) == [r EXCEPT !.status = "scheduled", !.due = FALSE]

-----------------------------------------------------------------------------
\* UPDATE ... SET status = 'sending' WHERE status = <as read>, then a dispatch.
AnyRow(seen) == row # None
Claimable(seen) == Is(row, {seen.status})
Claim(p, seen) ==
  IF Claimable(seen) /\ sends < MaxSends
  THEN /\ Save(With(row, "sending")) /\ sends' = sends + 1
       /\ loop' = [loop EXCEPT ![sends + 1] = [on |-> p, at |-> "read", row |-> None, retried |-> FALSE]]
  ELSE UNCHANGED <<row, stale, loop, sends>>

AdminRead(p, op) ==
  /\ admin[p] = None /\ calls < MaxCalls /\ calls' = calls + 1 /\ row # None
  /\ UNCHANGED <<row, stale, loop, tick, sends, crashes>>
  /\ \/ /\ op = "sendNow" /\ ~Is(row, {"sending"})
        /\ admin' = [admin EXCEPT ![p] = [op |-> op, row |-> row]] /\ UNCHANGED cancelling
     \/ /\ op = "cancel" /\ Is(row, {"sending"})
        /\ cancelling' = cancelling \cup {p} /\ UNCHANGED admin
     \/ /\ op = "cancel" /\ Is(row, {"scheduled", "draft"})
        /\ admin' = [admin EXCEPT ![p] = [op |-> op, row |-> row]] /\ UNCHANGED cancelling
     \/ /\ op = "remove" /\ ~Is(row, {"sending"})
        /\ admin' = [admin EXCEPT ![p] = [op |-> op, row |-> row]] /\ UNCHANGED cancelling

Serves(p, op) == admin[p] # None /\ admin[p].op = op
Served(p) == admin' = [admin EXCEPT ![p] = None] /\ UNCHANGED <<cancelling, tick, calls, crashes>>

SendNow(p) == Serves(p, "sendNow") /\ Claim(p, admin[p].row) /\ Served(p)
Cancel(p) ==
  /\ Serves(p, "cancel") /\ Save([With(admin[p].row, "cancelled") EXCEPT !.due = FALSE])
  /\ Served(p) /\ UNCHANGED <<loop, sends>>
Remove(p) == Serves(p, "remove") /\ Save(None) /\ Served(p) /\ UNCHANGED <<loop, sends>>

-----------------------------------------------------------------------------
\* runDueBroadcasts; the lock around it may lapse, and nothing here relies on it.
Recoverable(p) == Is(row, {"sending"}) /\ stale /\ p \notin cancelling
Recovered(r) == IF r.recurs THEN Armed(r) ELSE With(r, "failed")

TickRead(p) ==
  /\ tick[p] = None
  /\ \/ Recoverable(p) /\ tick' = [tick EXCEPT ![p] = [do |-> "recover", row |-> row]]
     \/ /\ ~Recoverable(p) /\ Is(row, {"scheduled"}) /\ row.due /\ sends < MaxSends
        /\ tick' = [tick EXCEPT ![p] = [do |-> "claim", row |-> row]]
  /\ UNCHANGED <<row, stale, loop, cancelling, admin, sends, calls, crashes>>

Steps(p, do) == tick[p] # None /\ tick[p].do = do
Stepped(p) == tick' = [tick EXCEPT ![p] = None] /\ UNCHANGED <<cancelling, admin, calls, crashes>>

RecoverStaleSending(p) ==
  /\ Steps(p, "recover") /\ Save(Recovered(tick[p].row)) /\ Stepped(p) /\ UNCHANGED <<loop, sends>>
ClaimDue(p) == Steps(p, "claim") /\ Claim(p, tick[p].row) /\ Stepped(p)

-----------------------------------------------------------------------------
At(i, step) == loop[i] # None /\ loop[i].at = step
End(i) == loop' = [loop EXCEPT ![i] = None]
Looped == UNCHANGED <<admin, tick, sends, calls, crashes>>

DispatchRead(i) ==
  /\ At(i, "read") /\ UNCHANGED <<row, stale, cancelling>> /\ Looped
  /\ IF row = None THEN End(i) ELSE loop' = [loop EXCEPT ![i].at = "start", ![i].row = row]

\* The counters of the new run, saved with the rest of the row.
DispatchStart(i) ==
  /\ At(i, "start") /\ Save(loop[i].row) /\ loop' = [loop EXCEPT ![i].at = "send"]
  /\ UNCHANGED cancelling /\ Looped

Finalized(i) ==
  IF loop[i].on \in cancelling THEN {[With(loop[i].row, "cancelled") EXCEPT !.due = FALSE]}
  ELSE IF loop[i].row.recurs THEN {Armed(loop[i].row)}
  ELSE {[With(loop[i].row, status) EXCEPT !.due = FALSE] : status \in {"sent", "failed"}}
Finalize(i) ==
  /\ At(i, "send") /\ \E r \in Finalized(i) : Save(r)
  /\ cancelling' = cancelling \ {loop[i].on} /\ End(i) /\ Looped

\* An error: the row is read again and finalized. `cancelling` is forgotten already when it
\* is the last save that fails.
DispatchFails(i) ==
  /\ At(i, "start") \/ (At(i, "send") /\ ~loop[i].retried)
  /\ cancelling' \in IF At(i, "send") THEN {cancelling, cancelling \ {loop[i].on}} ELSE {cancelling}
  /\ IF row = None THEN End(i)
     ELSE loop' = [loop EXCEPT ![i].at = "send", ![i].row = row, ![i].retried = TRUE]
  /\ UNCHANGED <<row, stale>> /\ Looped

-----------------------------------------------------------------------------
\* 45 minutes without a write, and the time of the next occurrence.
GoStale ==
  /\ Is(row, {"sending"}) /\ ~stale /\ stale' = TRUE
  /\ UNCHANGED <<row, loop, cancelling, admin, tick, sends, calls, crashes>>
FallDue ==
  /\ Is(row, {"scheduled"}) /\ ~row.due /\ row' = [row EXCEPT !.due = TRUE]
  /\ UNCHANGED <<stale, loop, cancelling, admin, tick, sends, calls, crashes>>

\* An instance dies and is started again: what it was doing and remembered is gone.
Crash(p) ==
  /\ crashes < MaxCrashes /\ crashes' = crashes + 1
  /\ loop' = [i \in Dispatches |-> IF loop[i] # None /\ loop[i].on = p THEN None ELSE loop[i]]
  /\ cancelling' = cancelling \ {p}
  /\ admin' = [admin EXCEPT ![p] = None] /\ tick' = [tick EXCEPT ![p] = None]
  /\ UNCHANGED <<row, stale, sends, calls>>

\* create: a draft or a scheduled row (one to send at once is a draft that is sent).
Created == {[status |-> s, recurs |-> r, due |-> FALSE] : s \in {"draft", "scheduled"}, r \in BOOLEAN}
Init ==
  /\ row \in Created /\ stale = FALSE
  /\ loop = [i \in Dispatches |-> None] /\ cancelling = {}
  /\ admin = [p \in Instances |-> None] /\ tick = [p \in Instances |-> None]
  /\ sends = 0 /\ calls = 0 /\ crashes = 0

Work(i) == DispatchRead(i) \/ DispatchStart(i) \/ Finalize(i) \/ DispatchFails(i)
TickOf(p) == TickRead(p) \/ RecoverStaleSending(p) \/ ClaimDue(p)
Serve(p) == SendNow(p) \/ Cancel(p) \/ Remove(p)
Next ==
  \/ \E p \in Instances : TickOf(p) \/ Serve(p) \/ Crash(p)
                          \/ \E op \in {"sendNow", "cancel", "remove"} : AdminRead(p, op)
  \/ \E i \in Dispatches : Work(i)
  \/ GoStale \/ FallDue
=============================================================================
