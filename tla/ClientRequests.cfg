SPECIFICATION Spec
CONSTANTS
  browser = browser
  panel = panel
  phone = phone
  batch = batch
  write = write
  read = read
  enumerate = enumerate
  Clients <- MCClients
  Bluetooth = {phone}
  Requests <- MCRequests
  ClientOf <- MCClientOf
  PartCount <- MCPartCount
  Refusable = {read, write}
  BusWaits = TRUE
INVARIANT QueuedAlive
INVARIANT AnswerComplete
INVARIANT LeftBehindByLeaversOnly
PROPERTY ImplementsRequestReply
\* Each request is asked once: the system stops when all clients are gone.
CHECK_DEADLOCK FALSE
