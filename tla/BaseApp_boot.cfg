\* Three lines that fit and one that is too long, a queue shorter than two of
\* them, one reset of either board.
CONSTANTS
  LineLen <- MCLineLen
  QueueCap = 4
  CmdMax = 3
  MaxResets = 1
SPECIFICATION LiveSpec
INVARIANTS
  NodeIsConfigured
  CommandsAreWhole
  IntactLinesRun
PROPERTIES
  BaseStarts
  ConsoleIsServed
