SPECIFICATION Spec
CONSTANTS
  None = None
  URI = {"/a", "/b", "/c"}
  Field = {"accept"}
  LikeURI <- Exactly
  Second = 1
  MaxDuration = 100
  ZeroTime <- LongAgo
  Pages <- Variants
  Replies <- ForgetsVary
  Delays = {1}
  Faults = {FALSE}
  Horizon = 18
INVARIANT RefreshedInTime
