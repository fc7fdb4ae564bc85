SPECIFICATION FairSpec
CONSTANTS
  Threads = {t1, t2}
  NoThread = NoThread
  Max = 3
  Window = 4
  Margin = 1
  SleepCap = 2
  TokenUnits = 2
  Refill = 1
  TicksPerMinute = 3
  Timeouts = {1}
  Cooldowns = {2}
  MaxViolations = 1
INVARIANTS
  TypeOK
  WindowRespected
  NothingForgotten
  BurstBounded
PROPERTIES
  NoGrantInCooldown
  NobodyWaitsInVain
