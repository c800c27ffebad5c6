SPECIFICATION Spec
CONSTANTS
  None = None
  URI = {"/a"}
  Field = {}
  LikeURI <- Exactly
  Second = 2
  MaxDuration = 100
  ZeroTime <- LongAgo
  Handlers = {h1}
  Delayed = {}
  Updater = updater
  Requests <- GetA
  Replies <- FreshnessReplies
  Skews <- OffClocks
  Ages <- UpstreamAges
  Failures = {}
  HasExact = TRUE
  Legacy = TRUE
  Crashes = FALSE
  InMemory = FALSE
  MaxTime = 6
  MaxVersion = 0
INVARIANTS FreshHits Stamps AgeTold
