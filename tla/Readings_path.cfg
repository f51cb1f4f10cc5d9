SPECIFICATION ReadSpec
CONSTANTS
  Addresses <- MCAddresses
  Measured <- MCMeasured
  NoChip = NoChip
  HeaterMs = 197
  ConvertMs = 12
  PollMax = 250
  Numbers = 3
  MaxFaults = 2
  U32Max = 255
  I32Max = 200000
INVARIANTS
  MeasuredAsConfigured
  HoldsOneMeasurement
PROPERTIES
  HeardAsMeasured
  ReadsRecover
