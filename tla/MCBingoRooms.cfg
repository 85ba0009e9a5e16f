SPECIFICATION MCSpec
CONSTANTS
  Tickets = {1, 2, 3}
  Cards = {1, 2}
  Places = {1, 2}
  Balls = 3
  Edge = 20
  PatternPrize = 7
  Humans = {h1, h2}
  Bots = {b1}
  CoolingBots = {}
  Agents = {a1, a2}
  AgentOf <- AgentsApart
  Prices = {10}
  CommissionPct = 50
  Configs <- NamedConfigs
  Deals <- OneDeck
  Schedulers = {s1, s2}
  Admins = {ad}
  Clients = {c1, c2}
  MaxCrashes = 1
  Casts = {{"race", "plain", "one", h1, h2, s1, c1}, {"race", "plain", "single", h1, s1, ad, c1}, {"race", "plain", "pair", h1, s1, c1, c2},
           {"race", "plain", "die", h1, s1, s2, c1}, {"race", "guaranteed", h1, b1, s1, c1}, {"race", "dual", "manual", h1, b1, s1, c1},
           {"leaderboard", "plain", "manual", h1, h2, s1, c1}, {"race", "plain", "three", "pair", h1, s1, c1},
           {"pattern", "plain", h1, h2, s1, c1}, {"line", "plain", h1, h2, s1, c1}}
CHECK_DEADLOCK FALSE
INVARIANTS TicketsMatchCredits PoolSharedUnlessChanged SalesMatch OneWinnerEach
PROPERTIES OverIsFinal
