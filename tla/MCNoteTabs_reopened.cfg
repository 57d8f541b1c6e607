SPECIFICATION Spec
CONSTANTS
    a = a
    b = b
    c = c
    None = None
    Notes <- MCNotes
    Files <- MCFiles
    Saved <- MCSaved
    Ops = {"create", "delete", "rename", "redirect", "other"}
    MaxCalls = 4
    MaxFaults = 1
    Quirks = {"retaken", "rehomed", "unmounted", "orphaned", "unsaved", "twice", "slipped",
              "overtaken"}
PROPERTY OpensWhatIsSelected
CHECK_DEADLOCK FALSE
