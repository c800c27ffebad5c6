SPECIFICATION FairSpec
CONSTANTS
  None = None
  URI = {"/a", "/b"}
  Field = {}
  LikeURI <- Exactly
  Second = 1
  MaxDuration = 100
  ZeroTime <- LongAgo
  Handlers = {h1, h2}
  Delayed = {}
  Updater = updater
  Requests <- ReadAndWrite
  Replies <- RedirectReplies
  Skews = {0}
  Ages <- NoAges
  Failures = {"unreachable", "truncated"}
  HasExact = FALSE
  Legacy = FALSE
  Crashes = FALSE
  InMemory = FALSE
  MaxTime = 0
  MaxVersion = 0
PROPERTY Answered
