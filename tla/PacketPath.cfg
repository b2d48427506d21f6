SPECIFICATION FairSpec
CONSTANTS
  Bufs = {b1, b2}
  Stations = {"m1", "m2", "m3"}
  Frames <- AllFrames
  Traffic <- AllTraffic
  Nil = nil
  Burst = 2
  MaxFrames = 3
  MaxName = 7
INVARIANTS OneOwner SentFramesAreRewritten OrderKept
           ExceptionTraffic PacketsAreDecidedByWhatTheyAre
PROPERTY BuffersComeBack
CHECK_DEADLOCK FALSE
