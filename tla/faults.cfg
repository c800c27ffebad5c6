SPECIFICATION Spec
CONSTANTS
  None = None
  URI = {"/a", "/b"}
  Field = {}
  LikeURI <- Exactly
  Second = 1
  MaxDuration = 100
  ZeroTime <- LongAgo
  Handlers = {h1, h2}
  Delayed = {d1}
  Updater = updater
  Requests <- ReadBAndWrite
  Replies <- DelayedReplies
  Skews = {0}
  Ages <- NoAges
  Failures = {"unreachable", "truncated"}
  HasExact = FALSE
  Legacy = FALSE
  Crashes = FALSE
  InMemory = FALSE
  MaxTime = 1
  MaxVersion = 1
\* The clock stops at MaxTime, and with it every sleeping goroutine.
CHECK_DEADLOCK FALSE
INVARIANTS TypeOK Followed
SYMMETRY HandlerSymmetry
