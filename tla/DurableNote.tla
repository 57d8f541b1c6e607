---------------------------- MODULE DurableNote ----------------------------
(* What the persistence of a Note promises its user, while no other program  *)
(* changes the file: what an open hands back, now or after a kill at any     *)
(* moment, is the text last answered with Ok. It moves on to the mutation in *)
(* flight, or back to the file where the user asks for a reload, and nowhere *)
(* else; what reaches the file has been on the user's screen; what history   *)
(* records was in the file. The three tiers are two places here, and every   *)
(* buffer, sequence, revision, lock and timer is gone.                       *)
EXTENDS Naturals

CONSTANTS Texts, None

VARIABLES
    row,       \* the text kept apart from the file, or None
    file,
    recorded,  \* the file's text in history
    pending,   \* the mutation in flight, or None
    told,      \* the text last answered with Ok, or None
    seen,      \* what has been on the screen
    reverting  \* may a reload discard the row?

vars == <<row, file, recorded, pending, told, seen, reverting>>

(* What an open hands back.                                                  *)
Kept == IF row = None THEN file ELSE row

Init ==
    /\ file \in Texts
    /\ row = None
    /\ recorded = file
    /\ pending = None
    /\ told = None
    /\ seen = {}
    /\ reverting = FALSE

Open ==
    /\ pending = None
    /\ told' = Kept
    /\ seen' = seen \cup {Kept}
    /\ UNCHANGED <<row, file, recorded, pending, reverting>>

Offer(text) ==
    /\ pending = None
    /\ pending' = text
    /\ seen' = seen \cup {text}
    /\ UNCHANGED <<row, file, recorded, told, reverting>>

(* Ok is answered only over a text that is kept.                             *)
Accept ==
    /\ pending # None
    /\ row' \in {row, pending}
    /\ Kept' = pending
    /\ told' = pending
    /\ pending' = None
    /\ UNCHANGED <<file, recorded, seen, reverting>>

Refuse ==
    /\ pending' = None
    /\ Kept = told
    /\ UNCHANGED <<row, file, recorded, told, seen, reverting>>

(* Neither a write of the file nor the clearing of the row loses what is     *)
(* kept, except to the mutation that is about to replace it.                 *)
Publish(text) ==
    /\ text \in seen
    /\ file' = text
    /\ Kept' \in {Kept, pending}
    /\ UNCHANGED <<row, recorded, pending, told, seen, reverting>>

Forget ==
    /\ row' = None
    /\ Kept' \in {Kept, pending}
    /\ UNCHANGED <<file, recorded, pending, told, seen, reverting>>

Record ==
    /\ recorded' = file
    /\ UNCHANGED <<row, file, pending, told, seen, reverting>>

(* A reload: asked for, carried out or given up, and on the screen.          *)
Ask ==
    /\ reverting' = TRUE
    /\ UNCHANGED <<row, file, recorded, pending, told, seen>>

Revert ==
    /\ reverting
    /\ reverting' = FALSE
    /\ row' = None
    /\ told' = file
    /\ UNCHANGED <<file, recorded, pending, seen>>

GiveUp ==
    /\ reverting' = FALSE
    /\ UNCHANGED <<row, file, recorded, pending, told, seen>>

Show ==
    /\ seen' = seen \cup {file}
    /\ UNCHANGED <<row, file, recorded, pending, told, reverting>>

(* A kill: the mutation in flight is lost, unless it was kept already.       *)
Kill ==
    /\ pending' = None
    /\ reverting' = FALSE
    /\ told' \in {told, pending}
    /\ told' # told => told' = Kept
    /\ told # None => Kept = told'
    /\ UNCHANGED <<row, file, recorded, seen>>

Next ==
    \/ Open
    \/ \E text \in Texts : Offer(text) \/ Publish(text)
    \/ Accept \/ Refuse
    \/ Forget \/ Record
    \/ Ask \/ Revert \/ GiveUp \/ Show
    \/ Kill

Spec == Init /\ [][Next]_vars
=============================================================================
