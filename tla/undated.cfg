SPECIFICATION Spec
CONSTANTS
  None = None
  URI = {"/a"}
  Field = {}
  LikeURI <- Exactly
  Second = 1
  MaxDuration = 100
  ZeroTime <- LongAgo
  Handlers = {h1}
  Delayed = {}
  Updater = updater
  Requests <- GetA
  Replies <- UndatedReplies
  Skews = {0}
  Ages <- NoAges
  Failures = {}
  HasExact = TRUE
  Legacy = TRUE
  Crashes = FALSE
  InMemory = FALSE
  MaxTime = 3
  MaxVersion = 0
INVARIANT FreshHitsUndated
