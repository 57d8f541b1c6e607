SPECIFICATION Spec
CONSTANTS
    None = None
    Refused = Refused
    Here = Here
    There = There
    Shapes = {}
    Glyphs <- MCGlyphs
    Written <- MCWritten
    Ids <- MCIds
    Attachments <- MCAttachments
    Dotted = {"h"}
    Reserved = {"index"}
    Linked = {"l"}
    Blocked = {"b"}
    Bodies <- MCBodies
    StartFiles <- MCStartFiles
    StartFolders <- MCStartFolders
    Folders <- MCFolders
    Noted <- MCNoted
    Titles <- MCTitles
    RescanRaces = FALSE
    MaxOps = 2
    MaxWrites = 1
    MaxGuests = 1
INVARIANT RowsReachable
INVARIANT TreeReaches
INVARIANT RowsMatchBundle
INVARIANT CompletionsLead
PROPERTY DestinationsFollow
CHECK_DEADLOCK FALSE
