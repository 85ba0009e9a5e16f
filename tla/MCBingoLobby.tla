---------------------------- MODULE MCBingoLobby ----------------------------
(* Small instances of Bingo as a whole: the life of one room (MCBingoRoom)  *)
(* and which rooms there are (BingoLobby).  A behaviour follows one of them *)
(* while the other stays as it began.                                       *)
EXTENDS MCBingoRoom

CONSTANTS
  Halls,                        \* who acts on the lobby, and what may happen there
  Rooms, RoomAgents, House, Slot, OneOff, WinModes, Nobody, RoomBalls, MaxChanges, MaxFaults

VARIABLES
  rooms, config, perAgent, playable, active, slot, lock, job, changes, faults,
  hall,     \* a member of Halls, or {} when the behaviour follows one room
  excused   \* <<s, r>>: job s is to cancel r, which started since it looked, or is not its only game
lobby == <<rooms, config, perAgent, playable, active, slot, lock, job, changes, faults>>
alivars == <<mcvars, lobby, hall, excused>>

L == INSTANCE BingoLobby WITH
  room <- rooms, cfg <- config, agentRooms <- perAgent, Agents <- RoomAgents, MaxBalls <- RoomBalls,
  Processes <- Schedulers, OneOff <- OneOff

Allowed(name) == name \in hall
Quiet(o) == o \in hall                          \* nobody buys in the rooms of o
Boots(p) == Allowed(p) /\ ~(Allowed("warm") /\ p = CHOOSE q \in Schedulers : Allowed(q))

LobbyInit ==
  /\ L!Init /\ excused = {}
  /\ perAgent = Allowed("agents") /\ slot = (IF Allowed("slot") THEN "on" ELSE "none")
  /\ config.win = CHOOSE w \in WinModes : TRUE
  /\ job = [s \in L!Sessions |-> IF s \in Schedulers /\ Boots(s) THEN L!Booting ELSE L!Idle]
InHall ==
  /\ \A s \in L!Sessions \ hall : job'[s] = L!Idle
  /\ perAgent' = perAgent \/ Allowed("switch")
  /\ config' = config \/ (Allowed("config") /\ (config'.enabled \/ Allowed("disable")))
  /\ playable' = playable \/ Allowed("pause")
  /\ active' = active \/ Allowed("suspend")
  /\ slot' = slot \/ Allowed("slots")
  /\ \A s \in L!Sessions : job'[s].at = "saveRoom" => Allowed("edit")
  /\ changes' = changes \/ ((rooms' = rooms \/ Allowed("hand")) /\ (changes = 0 \/ Allowed("twice")))
  /\ faults' = faults \/ (Allowed("fault") /\ (lock' = lock \/ Allowed("lapse")))
  /\ \A r \in Rooms : rooms'[r].sold /\ ~rooms[r].sold => ~Quiet(rooms[r].for)

\* The rooms a job is about to cancel; a room is not the only game of those it chose from.
ToCancel(s) == IF job[s].at \in {"tidying", "nexting", "dedupe"} THEN job[s].todo ELSE {}
Rival(s, r) ==
  \E q \in L!Running \ ({r} \cup ToCancel(s)') : IF job'[s].at = "dedupe" THEN rooms[q].for = rooms[r].for ELSE L!Auto(q)
Excuses(s, r) ==
  r \in ToCancel(s)' /\ (<<s, r>> \in excused \/ IF r \in ToCancel(s) THEN r \in L!Running' \ L!Running ELSE Rival(s, r))

\* Any lobby with its history, and the behaviours of the halls.
NotedLobbyNext == L!Next /\ excused' = {p \in L!Sessions \X Rooms : Excuses(p[1], p[2])}
NotedLobby == L!Init /\ excused = {} /\ [][NotedLobbyNext]_<<lobby, excused>>
LobbyNext == NotedLobbyNext /\ InHall

AllInit == MCInit /\ hall \in Halls /\ (hall = {} \/ cast = CHOOSE c \in Casts : TRUE) /\ LobbyInit
AllNext ==
  \/ hall = {} /\ MCNext /\ UNCHANGED <<lobby, hall, excused>>
  \/ hall # {} /\ LobbyNext /\ UNCHANGED <<mcvars, hall>>
AllFairness ==
  /\ Fairness
  /\ WF_lobby(\E p \in Schedulers \cap hall : L!TickRead(p)) /\ WF_lobby(L!Expire)
  /\ \A s \in L!Sessions : WF_lobby(L!Answer(s))
  /\ \A r \in Rooms : WF_lobby(L!Clock(r)) /\ WF_lobby(L!Reap(r))
AllSpec == AllInit /\ [][AllNext]_alivars /\ AllFairness

-----------------------------------------------------------------------------
\* reconcileActiveRooms, activeGuard: once the administration leaves the lobby alone and no
\* process dies, there is at most one room that is shared, and it fits the configuration.
OneSharedRoom == Cardinality(L!Shared) <= 1 /\ \A r \in L!Shared : L!Fits(r, config)
SharedRoomAlone == <>[](perAgent \/ OneSharedRoom)

\* autoCreateNextRoom, ensureAgentRooms, ensureCustomRoomSlots: whatever was cancelled, or
\* interrupted, the house, an active agent and an active slot have a room again.
Wanted(o) ==
  hall # {} /\ playable /\ config.enabled /\ (o = House \/ (o = Slot /\ slot = "on") \/ (perAgent /\ o \in active))
Served(o) == IF o = House /\ ~perAgent THEN L!Shared # {} ELSE L!RoomsFor(o) # {}
RoomsReopen == \A o \in L!Owners \cup {Slot} : Wanted(o) ~> Served(o) \/ ~Wanted(o)

\* reconcileActiveRooms, ensureAgentRooms: a game is collapsed only if it does not fit the
\* configuration, started since the job looked, or is not the only one it had to choose from.
Collapsed(s, r) == r \in L!Running /\ rooms'[r].status = "over" /\ r \in ToCancel(s) \ ToCancel(s)'
GamesNotKilled ==
  [][\A s \in L!Sessions, r \in Rooms :
       Collapsed(s, r) => <<s, r>> \in excused \/ (job[s].at # "dedupe" /\ ~L!Fits(r, job[s].conf))]_alivars
=============================================================================
