SPECIFICATION Safety
CONSTANTS
  power = power
  voltage = voltage
  inverter = inverter
  solar = solar
  Retrieval = Retrieval
  Enumeration = Enumeration
  Properties <- MCProperties
  Devices <- MCDevices
  DeviceOf <- MCDeviceOf
  Subscribers = {s1, s2}
  Removable <- MCDevices
  BusWaits = TRUE
  MaxOutstanding = 2
INVARIANT PolledAlive
INVARIANT PolledOnce
INVARIANT SubscribersAlive
PROPERTY StrandedOnlyByAbsentDevice
