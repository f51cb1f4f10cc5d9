\* Any bytes in any order.
CONSTANTS
  Bytes = {0, 1, 2, 3}
  SOF0 = 2
  SOF1 = 1
  CR = 3
  LF = 0
  MaxPayload = 2
  LineMax = 2
  Mix <- MCMix
  NoFrame = NoFrame
SPECIFICATION Spec
INVARIANTS
  BufferBounds
  AcceptsWhatWasHeard
