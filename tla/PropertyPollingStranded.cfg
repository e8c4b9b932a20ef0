SPECIFICATION Spec
CONSTANTS
  power = power
  voltage = voltage
  inverter = inverter
  solar = solar
  Retrieval = Retrieval
  Enumeration = Enumeration
  Properties <- MCProperties
  Devices <- MCDevices
  DeviceOf <- MCDeviceOf
  Subscribers = {s1}
  Removable <- MCDevices
  BusWaits = TRUE
  MaxOutstanding = 1
PROPERTY SubscribedIsPolled
