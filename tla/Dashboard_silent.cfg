\* The sensor node loses its power: does the page say so?
CONSTANTS
  Channels = {}
  LinkCap = 1
  MaxAlarms = 0
  MaxChanges = 0
  MaxFaults = 1
SPECIFICATION LiveSpec
PROPERTIES
  SilentNodeIsShown
