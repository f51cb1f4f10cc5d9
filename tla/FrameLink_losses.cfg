\* Frames and lines with lost bytes, and a sender that goes on.
CONSTANTS
  Bytes = {0, 1, 2, 3, 4, 5, 6, 7, 8, 9, 10, 11, 12, 13, 14, 15}
  SOF0 = 10
  SOF1 = 5
  CR = 13
  LF = 3
  MaxPayload = 3
  LineMax = 4
  Mix <- MCMix
  NoFrame = NoFrame
  Traffic <- MCTraffic
  Lines <- MCLines
  MaxLosses = 2
SPECIFICATION LiveLinkSpec
INVARIANTS
  NothingLostIsDelivered
  OnlySentFrames
PROPERTIES
  Recovers
