\* Touches, the gesture and the force limit; the other sensors are absent.
CONSTANTS
  ForceRaw = {0, 2, 3, 4}
  EnvRaw = {}
  NoReading = NoReading
  NoEvent = NoEvent
  LimitArgs <- MCForceLimitArgs
  LimitMin <- MCLimitMin
  LimitMax <- MCLimitMax
  DefaultLimit <- MCDefaultLimit
  Hysteresis <- MCHysteresis
  SamplingArgs = {1}
  MinSampling = 1
  DefaultSampling = 1
  MaxSampling = 1
  ShortMax = 1
  LongMin = 3
  GapMax = 4
  AgeCap = 5
SPECIFICATION LiveSpec
INVARIANTS
  PatternIsPrefix
  AlarmHasEvidence
PROPERTIES
  ModeChangeJustified
  TouchNeverDropped
  ImplementsLatch
  TouchReported
  FreshHoldReported
