SPECIFICATION MCSpec
CONSTANTS
  Solids = {"s"}
  Stripes = {"t"}
  Eight = "8"
  StrictCalls = FALSE
  Users = {"u1", "u2", "u3", "u4"}
  Funds <- TwoHaveStake
  Clients = {"c1", "c2"}
  Schedulers = {"k1"}
  Admins = {"c2"}
  Stake = 10
  RakePct = 15
  Brackets = {1, 2, 3}
  TimeoutLimit = 1
  MaxShots <- FewShots
  MaxCrashes = 0
  Orders <- TwoOrders
  EntryFee = 5
  PrizeRakePct = 10
  Weights <- PrizeWeights
  Entrant <- InOrder
  Setups = {"duel", "bracket"}
INVARIANT WinnerPaid
INVARIANT PrizesAddUp
INVARIANT BracketFollows
CHECK_DEADLOCK FALSE
