\* Two connects or disconnects, overlapping or not, one line, one browser.
CONSTANTS
  Handlers = {h1, h2}
  Readers = {r1, r2}
  Browsers = {b1}
  Publishers <- MCPublishers
  QueueCap = 1
  Nothing = Nothing
  None = None
  MaxRequests = 2
  MaxLines = 1
SPECIFICATION MCSpec
INVARIANTS
  StatusIsTrue
  NothingMissed
PROPERTIES
  PortsAreReleased
  ViewsConverge
CHECK_DEADLOCK FALSE
