SPECIFICATION MCSpec
CONSTANTS
  player = player
  agent = agent
  house = house
  NoSession = none
  Users = {player, agent, house}
  Sessions = {s1, s2}
  Mixes = {"transfers", "unmatched", "payouts", "limits", "reuse"}
  Requests <- MCRequests
  Scripts <- MCScripts
  Windows <- MCWindows
  StakeSpan <- MCStakeSpan
  UpsertSpan <- MCUpsertSpan
  Limits <- MCLimits
  MaxTx = 5
  MaxUpserts = 1
  MaxNow = 2
CHECK_DEADLOCK FALSE
INVARIANTS TypeOK BalancesExplained RecordsMatchLedger StatsMatchLedger LimitHoldsUnlessRaced
PROPERTIES LedgerAppendOnly ImplementsMoneyMoves TransactionsEnd
