SPECIFICATION Spec
CONSTANTS
  Starts <- JoinStarts
  Skips <- SomeSkips
  GopLengths <- ShortAndLongGops
  RequestIds <- Requests
  MaxSpan = 104
  MaxSkips = 1
  MaxParked = 1
INVARIANTS
  TypeOK
  BlocksSound
  AdvertisedWindowHeld
  FrameIndexSound
  ParkedIsAhead
  CrashOnlyBeforeData
PROPERTIES
  WindowMovesForward
CHECK_DEADLOCK FALSE
