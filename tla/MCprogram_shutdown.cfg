SPECIFICATION Spec
CONSTANTS
  main = main
  listen = listen
  shared = shared
  Shared = shared
  State <- States
  Deployed <- MainAndListen
  Stages <- PbftStages
  MaxThread = 3
  MaxQueue = 1
  MaxInterrupt = 1
  Unwinds = FALSE
  AssertsSenders = TRUE
CHECK_DEADLOCK FALSE
INVARIANTS ThreadsEndInPeace
