\* An image before the text of a heading.
SPECIFICATION Spec
CONSTANTS
    MaxPos = 6
    MaxDepth = 4
    Quirks = {"headingImage"}
INVARIANT SpansCoherent
CHECK_DEADLOCK FALSE
