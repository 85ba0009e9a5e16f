SPECIFICATION MCSpec
CONSTANTS
  Rounds = {1, 2}
  Users = {u1, u2}
  Schedulers = {t1, t2}
  Clients = {c1}
  Booting = {b1, b2}
  Points = {1, 2}
  Autos = {0, 1}
  Stake = 2
  WaitFor = 1
  StaleWaiting = 2
  StaleRunning = 2
  MaxAge = 3
  MaxCrashes = 1
  Casts = {{1, u1, t1, c1}}
CHECK_DEADLOCK FALSE
INVARIANT PaidBetsNotLost
