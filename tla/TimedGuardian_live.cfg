\* One alarm and one disturbance: a frame damaged, a reset or the gesture; the
\* node measures for up to 3 ticks in a sampling or a READ_ALL.
CONSTANTS
  CheckMs = 1
  PollMs = 1
  WarnMs = 1
  RepeatMs = 1
  MaxBusy = 0
  AgeCap = 1
  TimeMod = 8
  MaxEvents = 1
  LinkCap = 2
  MaxResets = 1
  MaxFaults = 1
  MaxBlind = 3
  MinRest = 3
  MaxGestures = 1
  HostCommands = {}
SPECIFICATION TimedSpec
PROPERTIES
  
  ViewConverges
