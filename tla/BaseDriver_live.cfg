\* Passes, the interrupt, requests and resets, under the fairness of the loop.
CONSTANTS
  CheckMs = 1
  PollMs = 2
  WarnMs = 2
  RepeatMs = 2
  MaxBusy = 1
  AgeCap = 3
  TimeMod = 16
  Batches <- MCBatches
SPECIFICATION LiveSpec
PROPERTIES
  EdgeIsAnswered
  SilenceIsReported
  KeepsTalking
  StepsAreSound
