\* Two alarms, commands of the operator, one reset, one use of the
\* gesture, any frames lost.
CONSTANTS
  CheckMs = 1
  PollMs = 1
  WarnMs = 0
  RepeatMs = 0
  MaxBusy = 0
  AgeCap = 1
  TimeMod = 8
  MaxEvents = 2
  LinkCap = 1
  MaxResets = 1
  MaxGestures = 1
  HostCommands = {"SERVICE_ON", "SERVICE_OFF", "INTERRUPT_OFF"}
SPECIFICATION Spec
PROPERTIES
  ClearIsPrompted
