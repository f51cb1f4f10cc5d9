\* Two alarms, one fault and one change: of the mode, by gesture or from the page,
\* or a reading that comes to its limit (force, or temperature and humidity, which
\* ERR can replace); from either mode.
CONSTANTS
  Channels = {"force", "air"}
  LinkCap = 1
  MaxAlarms = 2
  MaxChanges = 1
  MaxFaults = 1
SPECIFICATION LiveSpec
INVARIANTS
  AlarmsAreTrue
PROPERTIES
  AlarmReachesPage
  AlarmEnds
  
  ModeReachesPage
  SilentBaseIsShown
