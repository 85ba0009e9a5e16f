SPECIFICATION AllSpec
CONSTANTS
  Tickets = {1, 2, 3}
  Cards = {1, 2}
  Places = {1, 2}
  Balls = 3
  Edge = 20
  PatternPrize = 7
  Humans = {h1, h2}
  Bots = {b1}
  CoolingBots = {}
  Agents = {a1, a2}
  AgentOf <- AgentsApart
  Prices = {10}
  CommissionPct = 50
  Configs <- NamedConfigs
  Deals <- OneDeck
  Schedulers = {s1, s2}
  Admins = {ad}
  Clients = {c1, c2}
  MaxCrashes = 1
  Casts = {{"race", "plain", "manual", h1, s1, c1}, {"race", "plain", "single", h1, s1, c1}, {"pattern", "plain", "manual", h1, s1, c1}}
  Rooms = {1, 2, 3}
  RoomAgents = {a1}
  House = house
  Slot = slot
  OneOff = oneoff
  WinModes = {1, 2}
  Nobody = nobody
  RoomBalls = 2
  MaxChanges = 2
  MaxFaults = 1
  Halls = {{}, {s1, s2}, {s1, s2, "fault", "lapse", "warm", house}, {s1, ad, "config", "disable"}, {s1, ad, "edit", "warm"},
           {s1, "hand"}, {s1, "agents", "switch", "twice", house}, {s1, "agents", "suspend", "pause", "twice", house},
           {s1, s2, "agents", "warm", house, a1}, {s1, ad, "slots", "warm", house}, {s1, "slot", ad, "slots", "warm", house}}
CHECK_DEADLOCK FALSE
PROPERTIES CommissionsPaid TicketsEnd SharedRoomAlone RoomsReopen GamesNotKilled
