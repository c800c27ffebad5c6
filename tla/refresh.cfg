SPECIFICATION Spec
CONSTANTS
  None = None
  URI = {"/a", "/b", "/c"}
  Field = {"accept"}
  LikeURI <- Exactly
  Second = 1
  MaxDuration = 100
  ZeroTime <- LongAgo
  Pages <- Variants
  Replies <- ShortLived
  Delays = {0, 1, 2}
  Faults = {TRUE, FALSE}
  Horizon = 18
INVARIANT RefreshedInTime
PROPERTY EveryKeyServed
