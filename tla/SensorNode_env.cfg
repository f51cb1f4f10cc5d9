\* The environment channels, their limits and the sampling interval; no touch.
CONSTANTS
  ForceRaw = {0}
  EnvRaw = {0, 2, 3}
  NoReading = NoReading
  NoEvent = NoEvent
  LimitArgs <- MCEnvLimitArgs
  LimitMin <- MCLimitMin
  LimitMax <- MCLimitMax
  DefaultLimit <- MCDefaultLimit
  Hysteresis <- MCHysteresis
  SamplingArgs = {0, 3}
  MinSampling = 1
  DefaultSampling = 2
  MaxSampling = 3
  ShortMax = 1
  LongMin = 3
  GapMax = 4
  AgeCap = 5
SPECIFICATION Spec
INVARIANTS
  ServiceModeSilent
  AlarmHasEvidence
