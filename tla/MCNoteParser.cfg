\* Every document of up to MaxPos elements, nested up to MaxDepth.
SPECIFICATION Spec
CONSTANTS
    MaxPos = 6
    MaxDepth = 4
    Quirks = {}
INVARIANT SpansCoherent
INVARIANT TreeFaithful
INVARIANT CaretsResolve
\* A parse ends.
CHECK_DEADLOCK FALSE
