SPECIFICATION Spec
CONSTANTS
  None = None
  URI = {"/a", "/A"}
  Field = {"accept"}
  LikeURI <- Confused
  Second = 1
  MaxDuration = 100
  ZeroTime <- LongAgo
  Handlers = {h1}
  Delayed = {}
  Updater = updater
  Requests <- ReuseRequests
  Replies <- ReuseReplies
  Skews = {0}
  Ages <- NoAges
  Failures = {}
  HasExact = TRUE
  Legacy = TRUE
  Crashes = FALSE
  InMemory = FALSE
  MaxTime = 1
  MaxVersion = 1
INVARIANTS HitMatchesRequest ValidatedIsCurrent Followed
PROPERTY ImplementsHttpCache
