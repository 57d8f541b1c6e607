--------------------------- MODULE MCNoteSession ---------------------------
(* NoteSession on small instances. Sessions, workers and the non-empty texts *)
(* are interchangeable: the specification compares them only for equality.   *)
EXTENDS NoteSession, TLC

Plain == Texts \ {Empty}

Symmetry ==
    Permutations(Sessions) \cup Permutations(Workers) \cup Permutations(Plain \ Conflicts)
=============================================================================
