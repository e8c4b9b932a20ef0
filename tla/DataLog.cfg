SPECIFICATION Spec
CONSTANTS
  minutes = minutes
  hours = hours
  solar = solar
  inverter = inverter
  sum = sum
  solarPower = solarPower
  inverterLoad = inverterLoad
  sumLoad = sumLoad
  sumPower = sumPower
  everyPower = everyPower
  everySolar = everySolar
  Groups <- MCGroups
  Ids <- MCIds
  DeviceOf <- MCDeviceOf
  VirtualDevices = {sum}
  Explicit <- MCExplicit
  Wildcards <- MCWildcards
  Matched <- MCMatched
  MaxBatches = 2
INVARIANT NeverIdle
INVARIANT TimerOrBatch
INVARIANT ListsMirrorDevices
PROPERTY MatchedIsLogged
