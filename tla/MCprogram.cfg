SPECIFICATION FairSpec
CONSTANTS
  main = main
  listen = listen
  shared = shared
  Shared = shared
  State <- States
  Deployed <- MainAndListen
  Stages <- PbftStages
  MaxThread = 3
  MaxQueue = 1
  MaxInterrupt = 2
  Unwinds = TRUE
  AssertsSenders = TRUE
CHECK_DEADLOCK FALSE
INVARIANTS ProgramInv NoThreadOutlivesProgram WakeupNotLost
PROPERTIES WorkOnlyWhileRunning InterruptEnds WorkIsDone IdleThreadsWork
