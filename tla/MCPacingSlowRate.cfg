SPECIFICATION FairSpec
CONSTANTS
  Threads = {t1}
  NoThread = NoThread
  Max = 1
  Window = 2
  Margin = 1
  SleepCap = 2
  TokenUnits = 12
  Refill = 1
  TicksPerMinute = 6
  Timeouts = {}
  Cooldowns = {2}
  MaxViolations = 0
PROPERTIES
  AcquireReturns
