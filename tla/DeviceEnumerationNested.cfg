SPECIFICATION Spec
CONSTANTS
  Known <- MCKnown
  CountLimit <- MCCountLimit
  BusCount <- MCBusBattery
  SlowChoices = {FALSE}
  Faulty = FALSE
  MaxNesting = 2
INVARIANT UniqueAddresses
