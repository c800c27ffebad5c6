SPECIFICATION Spec
CONSTANTS
  None = None
  URI = {"/a"}
  Field = {"accept"}
  LikeURI <- Exactly
  Second = 1
  MaxDuration = 100
  ZeroTime <- LongAgo
  Handlers = {h1}
  Delayed = {}
  Updater = updater
  Requests <- Variant
  Replies <- ExpiringReplies
  Skews = {0}
  Ages <- NoAges
  Failures = {"unreachable", "database"}
  HasExact = TRUE
  Legacy = FALSE
  Crashes = TRUE
  InMemory = FALSE
  MaxTime = 4
  MaxVersion = 1
INVARIANT RefreshKeepsKey
PROPERTY ImplementsHttpCache
