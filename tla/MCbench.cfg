SPECIFICATION FairSpec
CONSTANTS
  NClient = 2
  RunDuration = 2
  ResendAfter = 1
  MaxEvents = 2
  MaxSocket = 2
  MaxStart = 1
CHECK_DEADLOCK FALSE
INVARIANTS BenchInv NoWakeupLost TimerNotLate
PROPERTIES TimersServed DatagramsRead
