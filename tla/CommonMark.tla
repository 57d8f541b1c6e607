------------------------------ MODULE CommonMark ------------------------------
(***************************************************************************)
(* What parse_note makes of a source of words, line endings, list markers, *)
(* raw HTML lines and a frontmatter block: the span of every Block.  It    *)
(* stands for pulldown-cmark, which is not part of the repository, as      *)
(* src/rust/src/markdown and the seam helpers of persist.rs describe it: a *)
(* paragraph runs to the newline that ends it, the text of a tight item    *)
(* stops before it, and a list and its last item absorb the blank lines    *)
(* that close them.                                                        *)
(*                                                                         *)
(* Top-level paragraphs, setext headings (which "- " after a paragraph     *)
(* makes of it) and flat lists; raw HTML runs to a blank line.             *)
(***************************************************************************)
EXTENDS Integers, Sequences, FiniteSetsExt, SequencesExt, SpanMap

LOCAL Ends == {"lf", "crlf"}

LineStarts(s) == SelectSeq([i \in 1..Len(s) |-> i - 1], LAMBDA i : i = 0 \/ s[i] \in Ends)   \* in order
LineEnd(s, at) == Min({j \in (at + 1)..Len(s) : s[j] \in Ends} \cup {Len(s)})
Body(s, at) == SelectSeq(SubSeq(s, at + 1, LineEnd(s, at)), LAMBDA t : t \notin Ends)

\* What a line is, given the line before it.
KindOf(body, first, prev) ==
    CASE body = <<>>                        -> "blank"
      [] body # <<>> /\ body[1] = "fm" /\ first -> "fm"
      [] body # <<>> /\ prev = "hidden"     -> "hidden"   \* raw HTML runs to a blank line
      [] OTHER ->
           CASE body[1] = "html"                     -> "hidden"
             [] body = <<"item">> /\ prev = "text"   -> "rule"     \* a setext underline
             [] body = <<"item">> /\ prev # "text"   -> "bare"
             [] body[1] = "item" /\ Len(body) > 1    -> "item"
             [] OTHER -> IF prev \in {"item", "lazy"} THEN "lazy" ELSE "text"

Kinds(s) ==
    FoldLeft(LAMBDA kind, at : kind @@ (at :> KindOf(Body(s, at), at = 0,
                                          IF at = 0 THEN "none" ELSE kind[Max(DOMAIN kind)])),
             <<>>, LineStarts(s))

ListKinds == {"item", "bare", "lazy"}

\* The lines that open a top-level Block.
Opens(kind) ==
    LET Adjacent(at) == IF at = 0 THEN "none" ELSE kind[Max({i \in DOMAIN kind : i < at})]
        \* the nearest line before at that is not blank
        Above(at) == LET up == {i \in DOMAIN kind : i < at /\ kind[i] # "blank"} IN
                     IF up = {} THEN "none" ELSE kind[Max(up)]
    IN  {i \in DOMAIN kind : \/ kind[i] = "text" /\ Adjacent(i) # "text"
                             \/ kind[i] \in {"item", "bare"} /\ Above(i) \notin ListKinds}

\* The Blocks of a source whose lines are of these kinds, and whose top-level Blocks open there.
Blocks(s, kind, opens) ==
    LET starts == DOMAIN kind
        Before(i, all) == Cardinality({j \in all : j < i})
        \* the end of the last line from at on whose line and all between are of these kinds
        RunEnd(at, kinds) == LineEnd(s, Max({i \in starts : i >= at /\
                                \A j \in starts : at < j /\ j <= i => kind[j] \in kinds /\ j \notin opens}))
        ListEnd(i) == Min({j \in starts : j > i /\ kind[j] \notin ListKinds \cup {"blank"}} \cup {Len(s)})
        Loose(l, items) == \E i \in starts : l < i /\ i < Max(items) /\ kind[i] = "blank"
        \* the text of a tight item stops before its line ending
        TextEnd(end, loose) == IF ~loose /\ s[end] \in Ends THEN end - 1 ELSE end
        Block(path, start, end) == [path |-> path, at |-> [start |-> start, end |-> end]]
        OfList(l, listEnd, items) ==
            {Block(<<Before(l, opens)>>, l, listEnd)}
            \cup {Block(<<Before(l, opens), Before(i, items)>>, i, Min({j \in items : j > i} \cup {listEnd}))
                  : i \in items}
            \cup {Block(<<Before(l, opens), Before(i, items), 0>>, i + 1,
                        TextEnd(RunEnd(i, {"lazy"}), Loose(l, items)))
                  : i \in {j \in items : kind[j] = "item"}}
    IN  {Block(<<Before(i, opens)>>, i, RunEnd(i, {"text", "rule"})) : i \in {j \in opens : kind[j] = "text"}}
        \cup UNION {OfList(l, end, {i \in starts : l <= i /\ i < end /\ kind[i] \in {"item", "bare"}})
                    : <<l, end>> \in {<<j, ListEnd(j)>> : j \in {i \in opens : kind[i] # "text"}}}

Parse(s) ==
    LET found == UNION {Blocks(s, kind, opens) : <<kind, opens>> \in {<<k, Opens(k)>> : k \in {Kinds(s)}}}
    IN  [p \in {f.path : f \in found} |-> (CHOOSE f \in found : f.path = p).at]

\* The source no Block covers and no caret reaches, blank lines aside.
Hidden(s) ==
    LET kind == Kinds(s)
        at   == SelectSeq(LineStarts(s), LAMBDA i : kind[i] \in {"hidden", "fm"})
    IN  FoldLeft(LAMBDA acc, i : acc \o Body(s, i), <<>>, at)
=============================================================================
