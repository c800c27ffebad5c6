SPECIFICATION Spec
CONSTANTS
  None = None
  URI = {"/a", "/b"}
  Field = {}
  LikeURI <- Exactly
  Second = 1
  MaxDuration = 100
  ZeroTime <- LongAgo
  Handlers = {h1}
  Delayed = {d1, d2}
  Updater = updater
  Requests <- WriteA
  Replies <- TwoDelayed
  Skews = {0}
  Ages <- NoAges
  Failures = {}
  HasExact = TRUE
  Legacy = FALSE
  Crashes = FALSE
  InMemory = FALSE
  MaxTime = 1
  MaxVersion = 0
CHECK_DEADLOCK FALSE
INVARIANT DelayedFetchesOwnPath
