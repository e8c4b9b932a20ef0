SPECIFICATION MCSpec
CONSTANTS
  Known <- MCKnown
  CountLimit <- MCCountLimit
  BusCount <- MCBusBeyond
  SlowChoices = {TRUE, FALSE}
  Faulty = TRUE
  MaxNesting = 1
  solar = solar
  sum = sum
  n1 = n1
  n2 = n2
  anne = anne
  wifi = wifi
  notes = notes
  Access = access
  Star = any
  Unknown = unknown
  Word = word
  NoBody = noBody
  BadBody = badBody
  Nobody = nobody
  Absent = absent
  Ids <- MCIds
  Batches <- MCBatches
  Clients = {w, b}
  Bluetooth = {b}
  Devices = {solar, sum}
  Virtual = {sum}
  Table <- MCTable
  Functions <- MCFunctions
  Extensions = {wifi, notes}
  Allowed <- MCAllowed
  OnBluetooth = {wifi}
  Users = {anne}
  LevelOf <- MCLevelOf
  GuestLevel = 1
  Authorizing = TRUE
  MaxSubscribed = 2
INVARIANTS
  ConsecutiveAddresses
  VirtualFollowsReal
  UpdatesAsAnswered
  TransportsAgree
  BatchAsSingle
  ShownAsAnswered
PROPERTY
  EnumerationMirrorsBus
CHECK_DEADLOCK FALSE
