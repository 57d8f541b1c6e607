SPECIFICATION Spec
CONSTANTS
    Notes <- MCNotes
    Typed <- MCTyped
    Inserted <- MCInserted
    MaxEdits = 2
    Quirks = {}
INVARIANT FieldIsBlock
INVARIANT MapFits
PROPERTY RestKept
CHECK_DEADLOCK FALSE
