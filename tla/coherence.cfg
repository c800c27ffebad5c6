SPECIFICATION Spec
CONSTANTS
  None = None
  URI = {"/a", "/b"}
  Field = {}
  LikeURI <- Exactly
  Second = 1
  MaxDuration = 100
  ZeroTime <- LongAgo
  Handlers = {h1, h2}
  Delayed = {}
  Updater = updater
  Requests <- ReadsAndWrites
  Replies <- WriteReplies
  Skews = {0}
  Ages <- NoAges
  Failures = {}
  HasExact = TRUE
  Legacy = FALSE
  Crashes = TRUE
  InMemory = FALSE
  MaxTime = 0
  MaxVersion = 2
INVARIANTS Followed RedirectAfterUpdate
SYMMETRY HandlerSymmetry
