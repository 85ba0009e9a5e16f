SPECIFICATION MCSpec
CONSTANTS
  Users = {"u1", "u2"}
  Processes = {"p1", "p2"}
  Rounds = {1, 2}
  None = None
  Stake = 10
  MaxPlayers = 2
  Bots = {"b1"}
  CoinValues = {0, 1}
  Draws = {0}
  Options <- GameOptions
  Mults <- FirstPays
  MaxFaults = 2
  MaxCalls = 2
  Setups = {"round", "rounds", "leases", "sheets"}
INVARIANT PaidOrRefunded
INVARIANT NobodyForgotten
INVARIANT ControlHolds
CHECK_DEADLOCK FALSE
PROPERTY StakesEnd
