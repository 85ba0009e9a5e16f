SPECIFICATION MCSpec
CONSTANTS
  Draws = {1, 2}
  Tickets = {k1, k2}
  Picks = {{3}, {7}}
  Outcomes = {3, 7}
  Hits <- MCHits
  Players = {p1, p2}
  Executors = {e1, e2}
  Cancellers = {x1, x2}
  Stake = 1
  Prize = 2
  MaxWinners = 1
  MaxCrashes = 1
  Casts = {{1, 2, k1, p1, e1, x1}, {2, k1, k2, p1, e1, x1}, {2, k1, p1, p2, e1, x1}, {2, k1, p1, e1, e2, x1}, {2, k1, p1, e1, x1, x2}}
CHECK_DEADLOCK FALSE
INVARIANTS TicketsMatchCredits DrawsMatchTickets
PROPERTY TicketsEnd
