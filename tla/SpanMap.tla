------------------------------- MODULE SpanMap -------------------------------
(***************************************************************************)
(* The span map of src/rust/src/markdown/spans.rs: for every Block path of *)
(* a parsed Note the region of the source the Block occupies, and the one  *)
(* place where arithmetic may stand in for a reparse, the buffered edit of *)
(* one leaf (apply_buffered_edit).  A source is a sequence and an offset   *)
(* counts the elements before it, so every offset is a character boundary; *)
(* the inline runs of a Block are left to the parser.                      *)
(*                                                                         *)
(* A map is a function from paths (sequences of child indices) to regions. *)
(***************************************************************************)
EXTENDS Integers, Sequences

Region == [start : Nat, end : Nat]

\* starts_with on paths: p addresses q or one of its ancestors.
IsAncestor(p, q) == /\ Len(p) <= Len(q)
                    /\ \A i \in 1..Len(p) : p[i] = q[i]

\* Document order of two Blocks neither of which contains the other.
Precedes(p, q) ==
    \E i \in 1..Len(p) :
        /\ i <= Len(q)
        /\ p[i] < q[i]
        /\ \A j \in 1..(i - 1) : p[j] = q[j]

\* A Block with no child Block: the only kind a field may edit.
IsLeaf(m, p) == \A q \in DOMAIN m : IsAncestor(p, q) => q = p
Leaves(m) == {p \in DOMAIN m : IsLeaf(m, p)}

\* The part of source a region covers (block_source).
Slice(source, r) == SubSeq(source, r.start + 1, r.end)

\* Substitutes replacement for the region and leaves every other element alone.
Splice(source, r, replacement) ==
    SubSeq(source, 1, r.start) \o replacement \o SubSeq(source, r.end + 1, Len(source))

Addressable(source, r) == r.start <= r.end /\ r.end <= Len(source)

-----------------------------------------------------------------------------
(* The edited leaf is resized, later Blocks shift by the same amount, its  *)
(* ancestors grow or shrink with it and everything before stays.           *)

Shift(offset, old, new) == (offset + new) - (old.end - old.start)

\* Mutants: the edited leaf keeps its size; its ancestors do.
LeafKeepsItsSize(m, path, new) ==
    [q \in DOMAIN m |-> IF m[q].start >= m[path].end
                       THEN [start |-> Shift(m[q].start, m[path], new),
                             end |-> Shift(m[q].end, m[path], new)]
                       ELSE m[q]]
AncestorsKeepTheirSize(m, path, new) ==
    [q \in DOMAIN m |-> IF q = path THEN [m[q] EXCEPT !.end = Shift(@, m[path], new)]
                       ELSE LeafKeepsItsSize(m, path, new)[q]]

BufferedEdit(m, path, new) ==
    LET old == m[path] IN
    [q \in DOMAIN m |->
        IF q = path
          THEN [m[q] EXCEPT !.end = Shift(@, old, new)]
        ELSE IF m[q].start >= old.end
          THEN [start |-> Shift(m[q].start, old, new), end |-> Shift(m[q].end, old, new)]
        ELSE IF IsAncestor(q, path)
          THEN [m[q] EXCEPT !.end = Shift(@, old, new)]
        ELSE m[q]]

-----------------------------------------------------------------------------
(* What a map must satisfy for a splice through it to be safe: a child is  *)
(* inside its parent, and Blocks that are not nested lie in document       *)
(* order without overlap.                                                  *)

Coherent(m) ==
    /\ \A p \in DOMAIN m : m[p].start <= m[p].end
    /\ \A p, q \in DOMAIN m :
        /\ IsAncestor(p, q) => m[p].start <= m[q].start /\ m[q].end <= m[p].end
        /\ Precedes(p, q)   => m[p].end <= m[q].start

\* The focused leaf is the only Block that typing may have emptied: whatever
\* comes before it, and every container around it, starts strictly earlier.
Focusable(m, e) ==
    /\ e \in DOMAIN m
    /\ IsLeaf(m, e)
    /\ \A q \in DOMAIN m \ {e} :
          IsAncestor(q, e) \/ Precedes(q, e) => m[q].start < m[e].start
=============================================================================
