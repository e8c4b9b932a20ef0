SPECIFICATION MCSpec
CONSTANTS
  write = write
  read = read
  demoRead = demoRead
  poll1 = poll1
  poll2 = poll2
  poll3 = poll3
  poll = poll
  None = None
  Requests <- MCRequests
  Objects <- MCObjects
  ObjectOf <- MCObjectOf
  Waiting <- MCWaiting
  MaxFragment = 2
  MaxHeader = 1
  Length <- MCLength
  Nesting = TRUE
  MaxConnections = 2
  MaxSent = 3
  MaxNested = 2
  Networks = {n1, n2}
  Secured = {n1}
  NoNetwork = off
  MaxCommands = 3
  MaxUnstarted = 1
INVARIANTS
  NoLostWakeup
  NoStaleInProgress
  ExecutedOnce
  AuthorizedInThisConnection
  SuccessIsConfigured
PROPERTIES
  ImplementsExecution
  AdvertisesAgain
  FramesArrive
  HandlersReturn
CHECK_DEADLOCK FALSE
