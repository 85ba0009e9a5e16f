SPECIFICATION MCSpec
CONSTANTS
  Solids = {"s"}
  Stripes = {"t"}
  Eight = "8"
  StrictCalls = FALSE
  Users = {"u1", "u2", "u3", "u4"}
  Funds <- TwoHaveStake
  Clients = {"c1"}
  Schedulers = {"k1", "k2"}
  Admins = {"c1"}
  Stake = 10
  RakePct = 15
  Brackets = {1, 2, 3}
  TimeoutLimit = 2
  MaxShots <- FewShots
  MaxCrashes = 1
  Orders <- OneOrder
  EntryFee = 5
  PrizeRakePct = 10
  Weights <- PrizeWeights
  Entrant <- InOrder
  Setups = {"abandoned", "played"}
PROPERTY PlayEnds
CHECK_DEADLOCK FALSE
