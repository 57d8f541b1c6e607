SPECIFICATION Spec
CONSTANTS
    Debounce = 2
    PollInterval = 4
    BackoffBase = 1
    BackoffCap = 3
    MaxInbox = 2
    None = None
INVARIANT IdleMeansIndexed
CHECK_DEADLOCK FALSE
