SPECIFICATION MCSpec
CONSTANTS
  p1 = p1
  Players = {p1}
  Agents = {a1, a2}
  House = house
  Nobody = nobody
  Ids = {1, 2}
  Owner <- MCOwner
  Amount <- MCAmount
  Refs = {r1}
  Fees = {1}
  Funds = 4
  MaxPending = 2
  Sessions = {s1, s2}
  MaxCalls = 6
CHECK_DEADLOCK FALSE
INVARIANT ProofsUnique
