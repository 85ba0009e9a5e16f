----------------------------- MODULE BingoLobby -----------------------------
(***************************************************************************)
(* Which Bingo rooms exist: the tick of src/src/scheduler/bingo.scheduler.ts *)
(* and what it calls of src/src/bingo/bingo.service.ts to collapse rooms,  *)
(* to start, draw and create them, next to a booting process, the          *)
(* administration and the buyers.                                          *)
(*                                                                         *)
(* A job is a tick, a boot or a configuration that is saved.  It lists     *)
(* rooms in one step and acts on each of them in a later one, under the    *)
(* lock of that room's row.                                                *)
(***************************************************************************)
EXTENDS Naturals, FiniteSets

CONSTANTS
  Rooms,                \* ids of rooms; one is used again once nobody remembers it
  Agents, House, Slot,  \* who a room is kept for: an agent, the house, a custom slot ...
  OneOff,               \* ... or nobody, for a room the administration makes
  WinModes,             \* win mode and ball pool of the configuration
  Processes, Admins, Nobody,
  MaxBalls,
  MaxChanges, MaxFaults \* bounds: changes by the administration; deaths and leases that lapse

VARIABLES
  room,
  cfg, agentRooms, playable,    \* bingo_config, system_configs, games
  active, slot,                 \* agents that are active; the custom slot: "none", "on" or "off"
  lock, job, changes, faults
vars == <<room, cfg, agentRooms, playable, active, slot, lock, job, changes, faults>>

Owners == Agents \cup {House}
NoRoom == [status |-> "none", for |-> House, win |-> 0, guard |-> FALSE, sold |-> FALSE, start |-> "idle", balls |-> 0]
Idle == [at |-> "idle"]

Alive(r) == room[r].status \in {"open", "running"}
Running == {r \in Rooms : room[r].status = "running"}
RoomsFor(o) == {r \in Rooms : Alive(r) /\ room[r].for = o}
Auto(r) == room[r].for \in Owners           \* isAdminCreated = false
Shared == {r \in Rooms : Alive(r) /\ Auto(r)}
Fits(r, c) == room[r].win = c.win

\* The end of a room releases activeGuard, so autoCreateNextRoom finds none to release;
\* its other columns concern nobody here.
Over(row) == [NoRoom EXCEPT !.status = "over"]
Closed(r) == room' = [room EXCEPT ![r] = Over(@)]
Cancel(r) == IF Alive(r) THEN Closed(r) ELSE UNCHANGED room

-----------------------------------------------------------------------------
(* Jobs.  Each holds what it read: the configuration, whether agents have   *)
(* rooms and the game is playable, the rooms and owners it has yet to do.   *)

Job(at, tick) == [at |-> at, tick |-> tick, conf |-> cfg, agents |-> agentRooms, play |-> playable,
                  todo |-> {}, owners |-> {}, kept |-> "none"]
Sessions == Processes \cup Admins

\* Where a job goes when its list is done.
After(j) ==
  CASE j.at = "tidy"      -> "draw"
    [] j.at = "draw"      -> IF j.play THEN "start" ELSE "end"
    [] j.at = "start"     -> IF j.agents THEN "agents" ELSE "shared"
    [] j.at \in {"shared", "next"} -> IF j.kept = "none" THEN "create" ELSE "slots"
    [] j.at = "agents"    -> "slots"
    [] j.at = "slots"     -> "end"
Arrive(j) == LET next == After(j) IN
  IF next = "end" \/ (next = "slots" /\ ~j.tick) THEN Idle
  ELSE [j EXCEPT !.at = next, !.todo = IF next = "create" THEN {House} ELSE {}, !.owners = {}, !.kept = "none"]

Release(s, j) == lock' = IF j = Idle /\ lock = s THEN Nobody ELSE lock
Goto(s, j) == job' = [job EXCEPT ![s] = j] /\ Release(s, j)

\* A list was read: nothing to do with it, or one step for each.
List(s, at, todo, kept) ==
  LET j == [job[s] EXCEPT !.todo = todo, !.kept = kept] IN
  Goto(s, IF todo = {} THEN Arrive(j) ELSE [j EXCEPT !.at = at])
Done(s, was, x) ==
  LET j == [job[s] EXCEPT !.todo = @ \ {x}] IN
  Goto(s, IF j.todo = {} THEN Arrive([j EXCEPT !.at = was]) ELSE j)
Settings == <<cfg, agentRooms, playable, active, slot>>
At(s, at) == job[s].at = at

\* drawNextNumbers: one tick at a time, as long as the lease of the lock lasts.
TickRead(p) ==
  /\ job[p] = Idle /\ lock = Nobody /\ lock' = p
  /\ job' = [job EXCEPT ![p] = Job(IF agentRooms THEN "draw" ELSE "tidy", TRUE)]
  /\ UNCHANGED <<room, Settings, changes, faults>>

\* reconcileActiveRooms: the room to keep is a running one that fits, else one that fits,
\* ordered by scheduledStartAt, where MySQL puts NULL first.
Earliest(R) == LET idle == {r \in R : room[r].start = "idle"} IN IF idle # {} THEN idle ELSE R
EarliestOnly(R) == Earliest(R)
Preferred(R) == IF R \cap Running # {} THEN R \cap Running ELSE Earliest(R)
StaleMisfits(keep, c) == {r \in Shared : ~Fits(r, c)}
Stale(keep, c) == Shared \ {keep}
Tidy(s, at, doing) ==
  LET fitting == {r \in Shared : Fits(r, job[s].conf)} IN
  /\ At(s, at)
  /\ IF fitting = {} THEN List(s, doing, Shared, "none")
     ELSE \E keep \in Preferred(fitting) :
            List(s, doing, Stale(keep, job[s].conf), IF keep \in Running THEN "game" ELSE "open")
  /\ UNCHANGED <<room, Settings, changes, faults>>
CancelStale(s, was, doing) ==
  /\ At(s, doing) /\ \E r \in job[s].todo : Cancel(r) /\ Done(s, was, r)
  /\ UNCHANGED <<Settings, changes, faults>>

\* drawNextNumber: a room without tickets is closed when it runs and left alone when it
\* does not; a game ends with some ball, with the last one at the latest.
Drawn(r) ==
  IF ~Alive(r) \/ (room[r].status = "open" /\ ~room[r].sold) THEN UNCHANGED room
  ELSE \/ Closed(r)
       \/ room[r].balls + 1 < MaxBalls
          /\ room' = [room EXCEPT ![r] = [room[r] EXCEPT !.status = "running", !.balls = @ + 1]]
DrawRead(s) == At(s, "draw") /\ List(s, "drawing", Running, "none") /\ UNCHANGED <<room, Settings, changes, faults>>
DrawNextNumber(s) ==
  /\ At(s, "drawing") /\ \E r \in job[s].todo : Drawn(r) /\ Done(s, "draw", r)
  /\ UNCHANGED <<Settings, changes, faults>>

\* findRoomsToStart: the first due room, when nothing runs.  findAgentRoomsToStart: every
\* due one, when nothing runs for its owner; rooms of the administration in any case.
Due == {r \in Rooms : room[r].status = "open" /\ room[r].sold /\ room[r].start \in {"due", "late"}}
StartRead(s) ==
  /\ At(s, "start")
  /\ IF job[s].agents THEN List(s, "starting", {r \in Due : Auto(r) => RoomsFor(room[r].for) \cap Running = {}}, "none")
     ELSE IF Due = {} \/ Running # {} THEN List(s, "starting", {}, "none")
     ELSE \E r \in Due : List(s, "starting", {r}, "none")
  /\ UNCHANGED <<room, Settings, changes, faults>>
StartRoom(s) ==
  /\ At(s, "starting") /\ \E r \in job[s].todo : Drawn(r) /\ Done(s, "start", r)
  /\ UNCHANGED <<Settings, changes, faults>>

-----------------------------------------------------------------------------
\* autoCreateNextRoom reads the configuration again, collapses, and creates a room when
\* none was kept; ensureAgentRooms and ensureCustomRoomSlots go through their owners.
AutoCreate(s) ==
  /\ At(s, "shared")
  /\ IF cfg.enabled THEN job' = [job EXCEPT ![s] = [@ EXCEPT !.at = "next", !.conf = cfg]] /\ UNCHANGED lock
     ELSE Goto(s, Arrive([job[s] EXCEPT !.kept = "open"]))
  /\ UNCHANGED <<room, Settings, changes, faults>>

AgentsOnly == active
AgentOwners == active \cup {House}
ActiveSlots == {o \in {Slot} : slot = "on"}
Ensure(s) ==
  /\ At(s, "agents") \/ At(s, "slots")
  /\ LET owners == IF ~job[s].conf.enabled THEN {} ELSE IF At(s, "agents") THEN AgentOwners ELSE ActiveSlots IN
     IF owners = {} THEN Goto(s, Arrive(job[s]))
     ELSE job' = [job EXCEPT ![s] = [@ EXCEPT !.at = "find", !.owners = owners]] /\ UNCHANGED lock
  /\ UNCHANGED <<room, Settings, changes, faults>>

\* One owner is done: the next one, or the next part of the tick.
NextOwner(s) ==
  Goto(s, IF job[s].owners # {} THEN [job[s] EXCEPT !.at = "find", !.todo = {}]
          ELSE Arrive([job[s] EXCEPT !.todo = {}, !.at = IF ~job[s].tick \/ job[s].kept = "agents" THEN "agents" ELSE "slots"]))
FindActive(s) ==
  /\ At(s, "find")
  /\ \E o \in job[s].owners :
       LET j == [job[s] EXCEPT !.owners = @ \ {o}, !.kept = IF o = Slot THEN "slots" ELSE "agents"] IN
       IF RoomsFor(o) = {} THEN job' = [job EXCEPT ![s] = [j EXCEPT !.at = "create", !.todo = {o}]]
       ELSE \E keep \in Preferred(RoomsFor(o)) :
              job' = [job EXCEPT ![s] = [j EXCEPT !.at = "dedupe", !.todo = RoomsFor(o) \ {keep}]]
  /\ UNCHANGED <<room, Settings, lock, changes, faults>>
Dedupe(s) ==
  /\ At(s, "dedupe")
  /\ IF job[s].todo = {} THEN NextOwner(s) /\ UNCHANGED room
     ELSE \E r \in job[s].todo : Cancel(r) /\ job' = [job EXCEPT ![s].todo = @ \ {r}] /\ UNCHANGED lock
  /\ UNCHANGED <<Settings, changes, faults>>

\* createIdleRoom, createRoomFromCustomSlot: the shared room claims activeGuard, whose
\* unique index refuses a second one.
Remembered(r) == \E s \in Sessions : ("todo" \in DOMAIN job[s] /\ r \in job[s].todo) \/ ("id" \in DOMAIN job[s] /\ r = job[s].id)
Free == {r \in Rooms : ~Alive(r) /\ ~Remembered(r)}
NewRoom(o, win, guard) == [NoRoom EXCEPT !.status = "open", !.for = o, !.win = win, !.guard = guard]
Insert(row) == LET r == CHOOSE r \in Free : TRUE IN room' = [room EXCEPT ![r] = row]
Guarded == \E r \in Rooms : room[r].guard
Create(s) ==
  /\ At(s, "create") /\ Free # {}
  /\ \E o \in job[s].todo :
       IF job[s].kept = "none"
       THEN /\ IF Guarded THEN UNCHANGED room ELSE Insert(NewRoom(House, job[s].conf.win, TRUE))
            /\ Goto(s, Arrive([job[s] EXCEPT !.at = "shared", !.kept = "open", !.todo = {}]))
       ELSE Insert(NewRoom(o, job[s].conf.win, FALSE)) /\ NextOwner(s)
  /\ UNCHANGED <<Settings, changes, faults>>

-----------------------------------------------------------------------------
\* purchaseTickets: the first sale starts the countdown; releaseCartela: the last real
\* player who leaves cancels the room.
Buy(r) ==
  /\ room[r].status = "open" /\ room[r].start \in {"idle", "counting"}
  /\ room' = [room EXCEPT ![r] = [@ EXCEPT !.sold = TRUE, !.start = "counting"]]
  /\ UNCHANGED <<Settings, lock, job, changes, faults>>
ReleaseLast(r) ==
  /\ room[r].status = "open" /\ room[r].sold /\ room[r].start = "counting" /\ Closed(r)
  /\ UNCHANGED <<Settings, lock, job, changes, faults>>
Later == [counting |-> "due", due |-> "late"]
Clock(r) ==
  /\ Alive(r) /\ room[r].start \in DOMAIN Later
  /\ room' = [room EXCEPT ![r].start = Later[@]] /\ UNCHANGED <<Settings, lock, job, changes, faults>>
\* reapStuckGames: ten minutes after the start that was scheduled, running or not.
Reap(r) == Alive(r) /\ room[r].start = "late" /\ Closed(r) /\ UNCHANGED <<Settings, lock, job, changes, faults>>

\* The administration: the two switches, an agent's status, the slot (its update saves back
\* what it read), a room of its own, a cancellation, a draw.
Change == changes < MaxChanges /\ changes' = changes + 1
SetAgentRooms == Change /\ agentRooms' = ~agentRooms /\ UNCHANGED <<room, cfg, playable, active, slot, lock, job, faults>>
SetPlayable == Change /\ playable' = ~playable /\ UNCHANGED <<room, cfg, agentRooms, active, slot, lock, job, faults>>
SetActive(a) ==
  /\ Change /\ active' = (active \ {a}) \cup ({a} \ active)
  /\ UNCHANGED <<room, cfg, agentRooms, playable, slot, lock, job, faults>>
\* The save of the configuration is followed by autoCreateNextRoom, without the lock and
\* whether agents have rooms or not.
UpdateBingoConfig(ad, c) ==
  /\ Change /\ job[ad] = Idle /\ cfg' = c
  /\ job' = [job EXCEPT ![ad] = Job("shared", FALSE)] /\ UNCHANGED <<room, agentRooms, playable, active, slot, lock, faults>>
CreateRoom(start) ==
  /\ Change /\ Free # {} /\ \E w \in WinModes : Insert([NewRoom(OneOff, w, FALSE) EXCEPT !.start = start])
  /\ UNCHANGED <<Settings, lock, job, faults>>
CancelRoom(r) == Change /\ Alive(r) /\ Closed(r) /\ UNCHANGED <<Settings, lock, job, faults>>
AdminDraw(r) == Change /\ Drawn(r) /\ room' # room /\ UNCHANGED <<Settings, lock, job, faults>>
\* createCustomRoomSlot: the slot, then its first room; deleteCustomRoomSlot.
CreateSlot(ad) ==
  /\ Change /\ slot = "none" /\ job[ad] = Idle /\ slot' = "on"
  /\ job' = [job EXCEPT ![ad] = [Job("create", FALSE) EXCEPT !.todo = {Slot}, !.kept = "slots"]]
  /\ UNCHANGED <<room, cfg, agentRooms, playable, active, lock, faults>>
DeleteSlot == Change /\ slot # "none" /\ slot' = "none" /\ UNCHANGED <<room, cfg, agentRooms, playable, active, lock, job, faults>>
UpdateSlotRead(ad, to) ==
  /\ Change /\ job[ad] = Idle /\ slot # "none" /\ job' = [job EXCEPT ![ad] = [at |-> "saveSlot", to |-> to]]
  /\ UNCHANGED <<room, Settings, lock, faults>>
UpdateSlotSave(ad) ==
  /\ At(ad, "saveSlot") /\ slot' = job[ad].to /\ job' = [job EXCEPT ![ad] = Idle]
  /\ UNCHANGED <<room, cfg, agentRooms, playable, active, lock, changes, faults>>
\* updateRoomSlot, updateCustomRoomSlot, updateRoomDisplay save a whole row back; the
\* index refuses one that would claim activeGuard again.
EditRead(ad, r) ==
  /\ Change /\ job[ad] = Idle /\ Alive(r)
  /\ job' = [job EXCEPT ![ad] = [at |-> "saveRoom", id |-> r, row |-> room[r]]] /\ UNCHANGED <<room, Settings, lock, faults>>
EditSave(ad) ==
  /\ At(ad, "saveRoom") /\ job' = [job EXCEPT ![ad] = Idle]
  /\ LET r == job[ad].id IN
     room' = IF job[ad].row.guard /\ \E q \in Rooms \ {r} : room[q].guard THEN room ELSE [room EXCEPT ![r] = job[ad].row]
  /\ UNCHANGED <<Settings, lock, changes, faults>>

-----------------------------------------------------------------------------
Fault == faults < MaxFaults /\ faults' = faults + 1
\* A process that dies is started again.  onApplicationBootstrap, without the lock: rooms
\* that sold nothing lose their start, then the rooms that are missing are created.
Booting == [at |-> "boot"]
Die(p) ==
  /\ Fault /\ job[p] # Idle /\ job' = [job EXCEPT ![p] = Booting]
  /\ UNCHANGED <<room, Settings, lock, changes>>
Boot(s) ==
  /\ At(s, "boot")
  /\ room' = [r \in Rooms |-> IF room[r].status = "open" /\ ~room[r].sold THEN [room[r] EXCEPT !.start = "idle"] ELSE room[r]]
  /\ job' = [job EXCEPT ![s] = IF playable THEN Job(IF agentRooms THEN "agents" ELSE "shared", FALSE) ELSE Idle]
  /\ UNCHANGED <<Settings, lock, changes, faults>>
\* The lease ends under a slow holder, or after a dead one.
Lapse == Fault /\ lock # Nobody /\ lock' = Nobody /\ UNCHANGED <<room, Settings, job, changes>>
Held == lock # Nobody /\ job[lock] \notin {Idle, Booting} /\ job[lock].tick
Expire == lock # Nobody /\ ~Held /\ lock' = Nobody /\ UNCHANGED <<room, Settings, job, changes, faults>>

Init ==
  /\ room = [r \in Rooms |-> NoRoom]
  /\ cfg \in [win : WinModes, enabled : {TRUE}] /\ agentRooms \in BOOLEAN /\ playable = TRUE
  /\ active = Agents /\ slot \in {"none", "on"}
  /\ lock = Nobody /\ changes = 0 /\ faults = 0
  /\ job \in [Sessions -> {Idle, Booting}] /\ \A ad \in Admins : job[ad] = Idle

Step(s) ==
  \/ Boot(s)
  \/ Tidy(s, "tidy", "tidying") \/ CancelStale(s, "tidy", "tidying")
  \/ DrawRead(s) \/ DrawNextNumber(s) \/ StartRead(s) \/ StartRoom(s)
  \/ AutoCreate(s) \/ Tidy(s, "next", "nexting") \/ CancelStale(s, "shared", "nexting")
  \/ Ensure(s) \/ FindActive(s) \/ Dedupe(s) \/ Create(s)
Answer(s) == Step(s) \/ UpdateSlotSave(s) \/ EditSave(s)
Administration ==
  \/ SetAgentRooms \/ SetPlayable \/ DeleteSlot
  \/ \E a \in Agents : SetActive(a)
  \/ \E start \in {"counting", "due"} : CreateRoom(start)
  \/ \E r \in Rooms : CancelRoom(r) \/ AdminDraw(r)
  \/ \E ad \in Admins :
       \/ CreateSlot(ad)
       \/ \E to \in {"on", "off"} : UpdateSlotRead(ad, to)
       \/ \E r \in Rooms : EditRead(ad, r)
       \/ \E c \in [win : WinModes, enabled : BOOLEAN] : UpdateBingoConfig(ad, c)
Next ==
  \/ \E p \in Processes : TickRead(p) \/ Die(p)
  \/ \E s \in Sessions : Answer(s)
  \/ \E r \in Rooms : Buy(r) \/ ReleaseLast(r) \/ Clock(r) \/ Reap(r)
  \/ Administration \/ Lapse \/ Expire

\* Live processes tick, awaits resolve, the lease of a dead holder ends.
Fairness ==
  /\ WF_vars(\E p \in Processes : TickRead(p)) /\ WF_vars(Expire)
  /\ \A s \in Sessions : WF_vars(Answer(s))
  /\ \A r \in Rooms : WF_vars(Clock(r)) /\ WF_vars(Reap(r))
Spec == Init /\ [][Next]_vars /\ Fairness
=============================================================================
