SPECIFICATION Spec
CONSTANTS
  Known <- MCKnown
  CountLimit <- MCCountLimit
  BusCount <- MCBusStrings
  SlowChoices = {FALSE}
  Faulty = FALSE
  MaxNesting = 1
INVARIANT VirtualVarioStringFollowsReal
