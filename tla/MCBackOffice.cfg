SPECIFICATION OfficeSpec
CONSTANTS
  p1 = p1
  Players = {p1}
  Agents = {a1, a2}
  House = house
  Nobody = nobody
  Ids = {1, 2}
  Owner <- MCOwner
  Amount <- MCAmount
  Refs = {r1}
  Fees = {1}
  Funds = 4
  MaxPending = 2
  Sessions = {s1, s2}
  MaxCalls = 6
  Staff = {u1, u2}
  None = None
  Asked = 2
  MaxTime = 3
  MaxSettlements = 2
  MaxSends = 3
  MaxAdminCalls = 2
  MaxCrashes = 1
  Depositors = {"d1", "d2"}
  Receipts = {"t1", "m1"}
  Mpesa = {"m1"}
  PortalStrict = TRUE
  MaxErrands = 3
  MaxLookups = 2
  Setups = {"withdrawals", "settlements", "support", "broadcast", "deposits", "users"}
SYMMETRY StaffAlike
CHECK_DEADLOCK FALSE
INVARIANTS WalletExplained CustodyOnce PaidFromReserve EarningsClaimedOnce ApprovedPaid OneSendAtATime ReceiptsPaidOnce AttributionsKept
