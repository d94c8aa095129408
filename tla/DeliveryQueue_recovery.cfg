SPECIFICATION FairSpec
CHECK_DEADLOCK FALSE
CONSTANTS
  None = None
  N = 1
  Kinds = {"plain", "required", "best_effort", "notice"}
  Backlog = {}
  DrainKeys = {"whatsapp"}
  MaxRetries = 2
  MayDefer = TRUE
  MaxFaults = 2
INVARIANT TypeOK
INVARIANT NothingLost
INVARIANT MarkedSentOnce
INVARIANT SentTwiceOnlyIfOvertaken
PROPERTY ClaimsReleased
