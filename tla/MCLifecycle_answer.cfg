SPECIFICATION Spec
CONSTANTS
    root = root  here = here  sub = sub  alt = alt
    a = a  b = b  none = none
    b1 = b1  b2 = b2  b3 = b3  b4 = b4  fresh = fresh
    Dirs <- MCDirs
    Root = root
    Here = here
    Titles <- MCTitles
    Bodies <- MCBodies
    None = none
    FreshText <- MCFresh
    GuestIds <- MCGuestIds
    GuestTexts <- MCGuestTexts
    Bundles <- Linked
    RescanRaces = FALSE
    AnswersFail = TRUE
    MaxOps = 1  MaxGuests = 0
    MaxFaults = 0
INVARIANT AllOrNothing
CHECK_DEADLOCK FALSE
