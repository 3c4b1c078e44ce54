CONSTANTS
  Levels = {1, 2}
  Watchdog = 9
  Sleeptime = 3
  Delay = 2
  Jumps = 1
SPECIFICATION FairSpec
INVARIANTS
  TypeOK
  LateByDelay
PROPERTY CaughtUp
