SPECIFICATION FairSpec
CONSTANTS
    Debounce = 2
    PollInterval = 4
    BackoffBase = 1
    BackoffCap = 3
    MaxInbox = 1
    None = None
INVARIANT RetryArmed
PROPERTY EventuallyAttempted
PROPERTY StopBeforeDeadlines
CHECK_DEADLOCK FALSE
