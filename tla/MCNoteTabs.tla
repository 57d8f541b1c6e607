----------------------------- MODULE MCNoteTabs -----------------------------
(* Three identities, two Notes, and a snapshot that names both, one or none. *)
EXTENDS NoteTabs

CONSTANTS a, b, c

MCNotes == {a, b, c}
MCFiles == {a, b}
MCSaved == {[open |-> {a, b}, last |-> a], [open |-> {a}, last |-> None], [open |-> {}, last |-> None]}
=============================================================================
