SPECIFICATION Spec
CONSTANTS
  Known <- MCKnownFew
  CountLimit <- MCCountLimit
  BusCount <- MCBusTracks
  SlowChoices = {FALSE}
  Faulty = FALSE
  MaxNesting = 1
INVARIANT UniqueAddresses
