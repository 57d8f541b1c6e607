------------------------------ MODULE BlockEdits ------------------------------
(***************************************************************************)
(* Editing a Note block by block: the structural mutators of NoteSession   *)
(* in src/rust/src/workspace/persist.rs and the editor of                  *)
(* src/lib/src/components/editor.dart that calls them.  A keystroke        *)
(* (update_block) splices the source and resizes the retained span map;    *)
(* every other mutator reparses, finds the live block of a retained path,  *)
(* splices and reparses again.  Drafts, writes and locks are NoteSession's *)
(* subject, so each call is one step here.                                 *)
(*                                                                         *)
(* A source is a sequence of tokens: words, line endings, the marker of a  *)
(* list item with its space ("item"), a line of raw HTML ("html") and a    *)
(* conformant frontmatter block ("fm").  An offset counts tokens; UTF-16   *)
(* and UTF-8 conversions are left out.  Parse stands for parse_note, over  *)
(* paragraphs, flat lists and hidden HTML, as CommonMark reads them.       *)
(***************************************************************************)
EXTENDS CommonMark

CONSTANTS
    Notes,      \* the sources a session opens on
    Typed,      \* what a keystroke may leave in a field
    Inserted,   \* what is typed first into an empty slot
    MaxEdits,   \* bound: source-changing calls
    Quirks      \* the edges of the domain at which the code breaks a promise, see below

VARIABLES
    src,        \* SessionState.source
    spans,      \* SessionState.spans, and the tree the editor has adopted
    focus,      \* the editor's focused field, phantom or insertion slot
    edits       \* calls so far

vars == <<src, spans, focus, edits>>

Newlines == {"lf", "crlf"}
NoFocus == [kind |-> "none"]

-----------------------------------------------------------------------------
(* Seams (persist.rs, the helpers from BLOCK_SEPARATOR_NEWLINES on).       *)

Before(s, at) == SubSeq(s, 1, at)
After(s, at)  == SubSeq(s, at + 1, Len(s))

TrailingNewlines(s) == Len(s) - SelectLastInSeq(s, LAMBDA t : t \notin Newlines)
LeadingNewlines(s) ==
    LET i == SelectInSeq(s, LAMBDA t : t \notin Newlines) IN IF i = 0 THEN Len(s) ELSE i - 1

\* How the text ending here spells a line ending; lf when it has none.
NewlineStyle(s) ==
    LET i == SelectLastInSeq(s, LAMBDA t : t \in Newlines) IN IF i = 0 THEN "lf" ELSE s[i]

StyleAt(s, at) ==
    IF \E i \in 1..at : s[i] \in Newlines THEN NewlineStyle(Before(s, at)) ELSE NewlineStyle(s)

Repeat(newline, n) == [i \in 1..n |-> newline]

SeparatorBefore(before, required) ==
    IF before = <<>> THEN <<>>
    ELSE Repeat(NewlineStyle(before), required - TrailingNewlines(before))

SeparatorAcross(s, start, end) ==
    IF start = 0 \/ end = Len(s) THEN <<>>
    ELSE SeparatorBefore(Before(s, start), TrailingNewlines(SubSeq(s, start + 1, end)))

CutToOneTrailingNewline(s) ==
    LET n == TrailingNewlines(s) IN IF n > 1 THEN Len(s) - (n - 1) ELSE Len(s)

LineStart(s, at) == SelectLastInSubSeq(s, 1, at, LAMBDA t : t \in Newlines)
LinePrefixBefore(s, at) == SubSeq(s, LineStart(s, at) + 1, at)

-----------------------------------------------------------------------------
(* Addresses.                                                              *)

\* editable_live_path: the live leaf a retained path still means, if any.
EditableLivePath(live, retained, path) ==
    IF path \in Leaves(live) THEN {path}
    ELSE IF path \notin Leaves(retained) THEN {}
    ELSE LET inside == {q \in Leaves(live) : /\ retained[path].start <= live[q].start
                                             /\ live[q].end <= retained[path].end}
         IN IF Cardinality(inside) = 1 THEN inside ELSE {}

LivePath(live, retained, path) ==
    IF path \in DOMAIN live THEN {path} ELSE EditableLivePath(live, retained, path)

Under(m, path) == {q \in Leaves(m) : IsAncestor(path, q)}
FirstOf(m, leaves) == CHOOSE p \in leaves : \A q \in leaves : m[p].start <= m[q].start
LastOf(m, leaves)  == CHOOSE p \in leaves : \A q \in leaves : m[q].start <= m[p].start

InList(path) == Len(path) > 1   \* nearest_list_item: the List path[1], its item path[2]

\* editable_leaf_at_or_after_source_offset, as a set of at most one leaf.
LeafAtOrAfter(m, at) ==
    LET fit == {p \in Leaves(m) : m[p].start >= at \/ (m[p].start <= at /\ at < m[p].end)}
    IN  IF fit = {} THEN {} ELSE {FirstOf(m, fit)}

\* final_editable_leaf_overlapping, likewise; under a continuation an empty item is none.
LeafInserted(m, inserted, emptyItems) ==
    LET fit == {p \in Leaves(m) : /\ m[p].start < inserted.end /\ inserted.start < m[p].end
                                  /\ emptyItems \/ Len(p) # 2}
    IN  IF fit = {} THEN {} ELSE {LastOf(m, fit)}

Field(s, m, path) == LET text == Slice(s, m[path]) IN
                     [kind |-> "field", path |-> path, mounted |-> text, shown |-> text]

-----------------------------------------------------------------------------
(* The mutators, each a function of the working source.                    *)

At(n) == [start |-> n, end |-> n]

InsertBlock(s, m, path, text) ==
    LET found    == path \in DOMAIN m
        at       == IF found THEN m[path].start ELSE Len(s)
        required == IF found THEN 2 ELSE 1
    IN  Splice(s, At(at), SeparatorBefore(Before(s, at), 2) \o text
                            \o Repeat(StyleAt(s, at), required - TrailingNewlines(text)))

\* Mutant: the delete runs to the next Block.
DeleteToNextBlock(s, m, path) ==
    LET next == {m[p].start : p \in {q \in DOMAIN m : Precedes(path, q)}}
    IN  Splice(s, [start |-> m[path].start, end |-> IF next = {} THEN m[path].end ELSE Min(next)], <<>>)

DeleteBlock(s, m, path) ==
    LET span   == m[path]
        runEnd == span.end + LeadingNewlines(After(s, span.end))
        cut    == IF runEnd = Len(s)
                  THEN [start |-> CutToOneTrailingNewline(Before(s, span.start)), end |-> span.end]
                  ELSE [start |-> span.start, end |-> runEnd]
    IN  Splice(s, cut, SeparatorAcross(s, cut.start, cut.end))

\* Mutant: one line ending for two.
SplitShort(s, at) == Splice(s, At(at), Repeat(StyleAt(s, at), 1))

SplitAt(s, at) == Splice(s, At(at), Repeat(StyleAt(s, at), 2))

\* Where a whole selected field goes, and the slot it leaves (its line's marker goes too).
EmptyField(s, span) ==
    LET prefix == LinePrefixBefore(s, span.start)
        start  == span.start - Len(prefix)
        end    == span.end + LeadingNewlines(After(s, span.end))
        lines  == TrailingNewlines(SubSeq(s, start + 1, end))
    IN  [cut |-> [start |-> start, end |-> end], prefix |-> prefix,
         after |-> IF lines = 0 THEN 1 ELSE lines]

\* continue_block_after: a sibling item, a block after the top-level one, or the first.
ContinueAfter(s, m, leaf, text) ==
    IF leaf # <<>> /\ InList(leaf)
    THEN LET marker == LinePrefixBefore(s, m[leaf].start)
             at     == m[leaf].end
             start  == at + 1 + Len(marker)
         IN [src |-> Splice(s, At(at), <<NewlineStyle(s)>> \o marker \o text),
             inserted |-> [start |-> start, end |-> start + Len(text)]]
    ELSE LET at       == IF leaf = <<>> THEN Len(s) ELSE m[SubSeq(leaf, 1, 1)].end
             before   == SeparatorBefore(Before(s, at), 2)
             required == IF at = Len(s) THEN 1 ELSE 2
             after    == Repeat(StyleAt(s, at), required - (TrailingNewlines(text)
                                                             + LeadingNewlines(After(s, at))))
             content  == before \o text \o after
             start    == at + Len(content) - Len(text)
         IN [src |-> Splice(s, At(at), content),
             inserted |-> [start |-> start, end |-> start + Len(text)]]

ContinueAtSlot(s, slot, text) ==
    LET start == slot.at + Len(slot.prefix)
        after == Repeat(StyleAt(s, slot.at),
                       slot.after - (TrailingNewlines(text) + LeadingNewlines(After(s, slot.at))))
    IN  [src |-> Splice(s, At(slot.at), slot.prefix \o text \o after),
         inserted |-> [start |-> start, end |-> start + Len(text)]]

\* merge_block_with_previous: what is joined, and the leaf the caret goes to; empty
\* when the Core refuses.
Merge(s, m, leaf) ==
    LET span   == m[leaf]
        seam   == <<NewlineStyle(s)>> \o LinePrefixBefore(s, span.start)
        gap(e) == SubSeq(s, e + 1, span.start)
        Join(e, prev) == {[src |-> Splice(s, [start |-> e, end |-> span.start], <<>>), path |-> prev]}
        \* the leaf before a marker the merge may consume
        item   == IF InList(leaf) /\ leaf[2] > 0
                  THEN {LastOf(m, Under(m, <<leaf[1], leaf[2] - 1>>))} ELSE {}
        block  == IF InList(leaf) /\ leaf[1] > 0 /\ leaf = FirstOf(m, Under(m, <<leaf[1]>>))
                  THEN {LastOf(m, Under(m, <<leaf[1] - 1>>))} ELSE {}
        marked == {p \in item \cup block : gap(m[p].end) = seam}
        earlier == {p \in DOMAIN m : m[p].end <= span.start}
        end    == Max({m[p].end : p \in earlier})
    IN  IF marked # {} THEN LET p == CHOOSE p \in marked : TRUE IN Join(m[p].end, p)
        ELSE IF earlier = {} THEN {[src |-> s, path |-> leaf]}
        ELSE IF earlier \cap Leaves(m) = {} \/ \E i \in 1..Len(gap(end)) : gap(end)[i] \notin Newlines
        THEN {}
        ELSE Join(end, LastOf(m, earlier \cap Leaves(m)))

\* whole_note_source_range: all but a conformant frontmatter block and its line ending.
WholeNote(s) ==
    [start |-> IF s # <<>> /\ s[1] = "fm"
               THEN IF Len(s) > 1 /\ s[2] \in Newlines THEN 2 ELSE 1
               ELSE 0,
     end   |-> Len(s)]

\* range_edit_caret: the leaf at the join, else the next, else the previous one.
RangeCaret(m, join) ==
    LET around == {p \in Leaves(m) : m[p].start <= join /\ join <= m[p].end}
        after  == {p \in Leaves(m) : m[p].start >= join}
    IN  IF Leaves(m) = {} THEN {}
        ELSE IF around # {} THEN {LastOf(m, around)}
        ELSE IF after # {} THEN {FirstOf(m, after)}
        ELSE {LastOf(m, Leaves(m))}
-----------------------------------------------------------------------------
(* The session, and the editor over it.  A structural call installs its    *)
(* source with the map parsed from it (structural_edit_with_result).       *)

Init == /\ src \in Notes
        /\ spans = Parse(src)
        /\ focus = NoFocus
        /\ edits = 0

Structural(new) ==
    /\ edits < MaxEdits
    /\ edits' = edits + 1
    /\ src' = new
    /\ spans' = Parse(new)

\* Where the call puts the editor: one of these leaves, or the call is refused.
Focus(leaves) == \E p \in leaves : focus' = Field(src', spans', p)

\* Text that makes no Block of its own kind; nested lists and raw HTML in a list are left out.
Plain(text) == Range(text) \cap {"item", "html"} = {}

Spelled(text) == [i \in 1..Len(text) |-> IF text[i] = "nl" THEN NewlineStyle(src) ELSE text[i]]

Promote == \E p \in Leaves(spans) :
    /\ focus = NoFocus
    /\ focus' = Field(src, spans, p)
    /\ UNCHANGED <<src, spans, edits>>

\* commit_block, or the discarding of a phantom nobody typed in.
Blur == /\ focus # NoFocus
        /\ spans' = IF focus.kind = "field" THEN Parse(src) ELSE spans
        /\ focus' = NoFocus
        /\ UNCHANGED <<src, edits>>

\* A keystroke, or a paste: update_block.
Type == \E t \in Typed :
    /\ focus.kind = "field" /\ focus.path \in Leaves(spans)
    /\ edits < MaxEdits
    /\ Spelled(t) # focus.shown
    /\ t = <<>> /\ Len(focus.path) = 2 => "emptiedItem" \in Quirks
    /\ InList(focus.path) => Plain(t)
    /\ src' = Splice(src, spans[focus.path], Spelled(t))
    /\ spans' = BufferedEdit(spans, focus.path, Len(t))
    /\ focus' = [focus EXCEPT !.shown = Spelled(t)]
    /\ edits' = edits + 1

Blank(text) == \A i \in 1..Len(text) : text[i] \in Newlines

\* The leaves Flutter knows: an empty item is none.
ListedLeaves(m) == {p \in Leaves(m) : Len(p) # 2}

\* Two top-level Blocks with the same AST.
SameNode(s, m, i, t, n, j) ==
    LET node(source, map, k) ==
            {<<SubSeq(p, 2, Len(p)), SelectSeq(Slice(source, map[p]), LAMBDA x : x \notin Newlines)>>
               : p \in Under(map, <<k>>)}
    IN  node(s, m, i) = node(t, n, j)

Tops(m) == Cardinality({p \in DOMAIN m : Len(p) = 1})

\* _unchangedFollowingTopLevelRegionCount
Following(path, live) ==
    LET upTo == Min({Tops(spans) - 1 - path[1], Tops(live)})
    IN  Max({n \in 0..upTo : \A k \in 1..n :
                SameNode(src, spans, Tops(spans) - k, src, live, Tops(live) - k)})

\* Enter where only blanks follow the caret: the phantom's anchor.
EnterAtEnd ==
    /\ focus.kind = "field"
    /\ edits < MaxEdits
    /\ UNCHANGED <<src, edits>>
    /\ \/ /\ focus.shown = focus.mounted
          /\ focus' = [kind |-> "phantom", path |-> focus.path]
          /\ UNCHANGED spans
       \/ /\ focus.shown # focus.mounted
          /\ LET live == Parse(src)
                 kept == /\ focus.path \in ListedLeaves(live)
                         /\ Slice(src, live[focus.path]) = focus.shown
                 top  == Tops(live) - Following(focus.path, live) - 1
             IN  /\ spans' = live
                 /\ IF kept THEN focus' = [kind |-> "phantom", path |-> focus.path]
                    ELSE IF top >= 0
                    THEN focus' = [kind |-> "phantom", path |-> LastOf(live, Under(live, <<top>>))]
                    ELSE "stranded" \in Quirks /\ focus' = focus   \* StateError: the field stays

\* Enter inside a field: split_block_from_editor_source.
Split == \E o \in 0..Len(focus.shown) :
    /\ ~Blank(After(focus.shown, o))
    /\ focus.path \in Leaves(spans)
    /\ Slice(src, spans[focus.path]) = focus.shown
    /\ LET live == Parse(src)
           at   == spans[focus.path].start + o
           new  == SplitAt(src, at)
       IN  \E p \in EditableLivePath(live, spans, focus.path) :
             /\ live[p].start <= at /\ at <= live[p].end
             /\ Structural(new)
             /\ Focus(LeafAtOrAfter(spans', at + 2))

\* Enter over a selection: replace_selection_and_split_block_from_editor_source.
SplitSelection == \E a \in 0..Len(focus.shown), z \in 0..Len(focus.shown) :
    /\ a < z
    /\ focus.path \in Leaves(spans)
    /\ IF a = 0 /\ z = Len(focus.shown)
       THEN LET slot == EmptyField(src, spans[focus.path])
                new  == Splice(src, slot.cut, <<>>)
            IN  /\ EditableLivePath(Parse(src), spans, focus.path) # {}
                /\ \/ slot.cut.start = 0 \/ slot.cut.end = Len(src)
                   \/ slot.after <= TrailingNewlines(Before(src, slot.cut.start))
                   \/ "slotSeam" \in Quirks
                /\ Structural(new)
                /\ focus' = [kind |-> "slot", at |-> slot.cut.start, prefix |-> slot.prefix,
                             after |-> slot.after, of |-> new]
       ELSE LET left     == Before(focus.shown, a) \o After(focus.shown, z)
                replaced == Splice(src, spans[focus.path], left)
                retained == BufferedEdit(spans, focus.path, Len(left))
                live     == Parse(replaced)
                at       == spans[focus.path].start + a
                new      == SplitAt(replaced, at)
            IN  \E p \in EditableLivePath(live, retained, focus.path) :
                  /\ live[p].start <= at /\ at <= live[p].end
                  /\ Structural(new)
                  /\ Focus(LeafAtOrAfter(spans', at + 2))

Enter == focus.kind = "field" /\ (Split \/ SplitSelection)

\* A list leaf whose span takes its line ending along, too close to what follows: the
\* continuation opens a line of its own and what follows ends up on its line or its Block.
NextLost(s, m, leaf) ==
    LET end  == m[leaf].end
        next == end + LeadingNewlines(After(s, end)) + 1
    IN  /\ InList(leaf) /\ s[end] \in Newlines /\ next <= Len(s)
        /\ next = end + 1 \/ (next = end + 2 /\ s[next] # "item")

\* The first text of a phantom, of a slot or of a Note without Blocks.
PhantomInsert == \E t \in Inserted :
    LET text == Spelled(t)
        live == Parse(src)
        Into(anchor) == /\ anchor # <<>> /\ NextLost(src, live, anchor) => "nextLost" \in Quirks
                        /\ LET to == ContinueAfter(src, live, anchor, text) IN
                           Structural(to.src) /\ Focus(LeafInserted(spans', to.inserted, FALSE))
    IN  \/ /\ focus.kind = "phantom"
           /\ \E p \in EditableLivePath(live, spans, focus.path) :
                 /\ InList(p) => Plain(t)
                 /\ Into(p)
        \/ focus \in {NoFocus, [kind |-> "phantom", path |-> <<0>>]} /\ DOMAIN spans = {} /\ Into(<<>>)
        \/ /\ focus.kind = "slot"
           /\ focus.of = src
           /\ focus.prefix # <<>> => Plain(t)
           /\ LET to == ContinueAtSlot(src, focus, text) IN
              Structural(to.src) /\ Focus(LeafInserted(spans', to.inserted, TRUE))

\* Backspace at the start of a field; Flutter knows no Block before the first.
Backspace ==
    /\ focus.kind = "field" /\ focus.path \in ListedLeaves(spans)
    /\ \E q \in ListedLeaves(spans) : Precedes(q, focus.path)
    /\ \E p \in EditableLivePath(Parse(src), spans, focus.path) :
         /\ "wrongLeaf" \in Quirks \/ Slice(src, Parse(src)[p]) = focus.shown
         /\ \E j \in Merge(src, Parse(src), p) : Structural(j.src) /\ Focus({j.path})

\* insert_block and delete_block, which the bridge offers and no editor calls.
Insert == \E t \in Inserted, p \in DOMAIN spans \cup {<<Tops(spans)>>} :
    /\ focus = NoFocus
    /\ Len(p) = 1
    /\ Structural(InsertBlock(src, spans, p, Spelled(t))) /\ UNCHANGED focus
Delete == \E p \in DOMAIN spans :
    /\ focus = NoFocus
    /\ Len(p) > 1 /\ LineStart(src, spans[p].start) = 0 => "lfSeam" \in Quirks
    /\ Structural(DeleteBlock(src, spans, p)) /\ UNCHANGED focus

\* The end of what a leaf renders: not its newline, nor a setext underline.
VisibleEnd(s, r) ==
    LET text == Slice(s, r) IN r.start + SelectLastInSeq(text, LAMBDA t : t \notin Newlines \cup {"item"})

Located(join) ==
    LET found == RangeCaret(spans', join) IN
    IF found = {} THEN focus' = [kind |-> "phantom", path |-> <<0>>] ELSE Focus(found)

\* replace_range and delete_range, over a selection of the rendered Blocks.
ReplaceRange == \E p, q \in Leaves(spans), t \in {<<>>} \cup Inserted :
    /\ focus = NoFocus
    /\ Plain(t)
    /\ p = q \/ Precedes(p, q)
    /\ \E i \in spans[p].start..VisibleEnd(src, spans[p]),
          j \in spans[q].start..VisibleEnd(src, spans[q]) :
        /\ i < j
        /\ LET new == Splice(src, [start |-> i, end |-> j], Spelled(t))
           IN  Structural(new) /\ Located(i + Len(t))

ReplaceWholeNote == \E t \in {<<>>} \cup Inserted :
    /\ focus = NoFocus /\ DOMAIN spans # {}
    /\ LET new == Splice(src, WholeNote(src), Spelled(t))
       IN  Structural(new) /\ Located(WholeNote(src).start + Len(t))

\* A lifecycle operation rewrites a link of the Note (rewrite_links): offsets after it move.
Rewrite == \E i \in DOMAIN src :
    /\ focus.kind # "field"
    /\ src[i] = "link"
    /\ Structural(Splice(src, [start |-> i - 1, end |-> i], <<"new", "link">>))
    /\ UNCHANGED focus

Next == \/ Promote \/ Blur \/ Type \/ EnterAtEnd \/ Enter \/ PhantomInsert \/ Backspace
        \/ Insert \/ Delete \/ ReplaceRange \/ ReplaceWholeNote \/ Rewrite

Spec == Init /\ [][Next]_vars
-----------------------------------------------------------------------------
(* Properties.  Quirks lifts the guards that keep the code's known misses  *)
(* out of the passing run, one name each.                                  *)

\* A mounted field always addresses a leaf of the retained map, and the source under
\* that leaf is exactly the text the field shows: the next update_block replaces what
\* the user sees and nothing else, however many keystrokes lie since the last parse.
FieldIsBlock ==
    focus.kind = "field" => /\ focus.path \in Leaves(spans)
                            /\ spans[focus.path].end <= Len(src)
                            /\ Slice(src, spans[focus.path]) = focus.shown

\* The map update_block splices through stays coherent and inside the source while it
\* is only shifted, and is the map of a fresh parse whenever nothing was typed since.  No
\* shift wraps below zero.
MapFits ==
    /\ \A p \in DOMAIN spans : spans[p] \in Region
    /\ Coherent(spans)
    /\ \A p \in DOMAIN spans : spans[p].end <= Len(src)
    /\ IF focus.kind = "field" /\ focus.shown # focus.mounted
       THEN Len(focus.path) # 2 => Focusable(spans, focus.path)
       ELSE spans = Parse(src)

\* No seam the Core writes (separators of insert, delete, split, continue) puts the
\* other line ending into a Note that is spelled with one.
EndingsAgree == ~({"lf", "crlf"} \subseteq Range(src))

Words(text) == SelectSeq(text, LAMBDA t : t \notin Newlines \cup {"item"})

\* The words of every leaf within these bounds that has any, in document order.
Texts(s, m, from, to) ==
    LET At_(i) == {p \in Leaves(m) : m[p].start = i /\ m[p].end <= to /\ Words(Slice(s, m[p])) # <<>>}
    IN  FoldLeft(LAMBDA acc, i : acc \o [k \in 1..Cardinality(At_(i)) |->
                                           Words(Slice(s, m[CHOOSE p \in At_(i) : TRUE]))],
                 <<>>, SelectSeq([i \in 1..Len(s) |-> i - 1], LAMBDA i : from <= i))

AllTexts(s, m) == Texts(s, m, 0, Len(s))
Outside(s, m, r) == [before |-> Texts(s, m, 0, r.start), after |-> Texts(s, m, r.end, Len(s))]
Around(out, w) == IsPrefix(out.before, w) /\ IsSuffix(out.after, w)

\* The words left around the selection a..z of the field.
Left(a, z) == Words(Before(focus.shown, a)) \o Words(After(focus.shown, z))

SplitKeeps(w) ==
    LET r == spans[focus.path] IN
    /\ Around(Outside(src, Parse(src), r), w)
    /\ \E a, z \in 0..Len(focus.shown) :
          /\ Words(src') = Words(Before(src, r.start)) \o Left(a, z) \o Words(After(src, r.end))
          /\ focus'.kind = "field" => IsPrefix(Words(After(focus.shown, z)),
                                               Words(After(src', spans'[focus'.path].start)))

MergeKeeps(w) ==
    LET now  == AllTexts(src, Parse(src))
        i    == Len(Texts(src, Parse(src), 0, spans[focus.path].end))
        here == Words(focus'.shown)
    IN  i > 1 /\
        \/ w = now /\ here \in {now[i - 1], <<>>}
        \/ /\ w = SubSeq(now, 1, i - 2) \o <<now[i - 1] \o now[i]>> \o SubSeq(now, i + 1, Len(now))
           /\ here = now[i - 1] \o now[i]

InsertKeeps(w, at) ==
    LET r   == [start |-> at, end |-> at]
        out == Outside(src, spans, r)
    IN  \E t \in Inserted : LET new == AllTexts(Spelled(t), Parse(Spelled(t))) IN
          /\ w = out.before \o new \o out.after
          /\ focus'.kind = "field" => Words(focus'.shown) = Last(new)

\* A structural call changes the Block it addresses and no other: Enter leaves every
\* Block around the field as it was and the caret before the words that followed it,
\* Backspace joins the field to the Block before it, the first text of a phantom becomes
\* a Block of its own after its anchor, and insert_block and delete_block add and remove
\* exactly what they name, although each reparses the whole Note after its splice.
NeighboursKept == [][
    LET w == AllTexts(src', spans') IN
    /\ Enter => SplitKeeps(w)
    /\ Backspace => MergeKeeps(w)
    /\ PhantomInsert => InsertKeeps(w, CASE focus.kind = "slot" -> focus.at
                                         [] focus.kind = "phantom" /\ focus.path \in DOMAIN spans ->
                                              spans[IF InList(focus.path) THEN focus.path
                                                    ELSE <<focus.path[1]>>].end
                                         [] OTHER -> Len(src))
    /\ Insert => \/ InsertKeeps(w, Len(src))
                 \/ \E p \in DOMAIN spans : InsertKeeps(w, spans[p].start)
    /\ Delete => \E p \in DOMAIN spans : LET out == Outside(src, spans, spans[p]) IN
                                         w = out.before \o out.after
    /\ ReplaceRange => \E p, q \in Leaves(spans) :
          Around(Outside(src, spans, [start |-> spans[p].start, end |-> spans[q].end]), w)
    ]_vars

\* Source no Block covers (raw HTML, frontmatter) survives every structural call that
\* does not select it: delete_block stops at the newline run and a merge across it is refused.
HiddenKept == [][
    /\ focus.kind = "field" => "html" \notin Range(focus.shown)
    /\ Enter \/ Backspace \/ PhantomInsert \/ Insert \/ Delete
    => Len(Hidden(src')) >= Len(Hidden(src))
    ]_vars

\* A structural call leaves the rest of the Note as it was: the Blocks it does not
\* address, and what lies between them.
RestKept == NeighboursKept /\ HiddenKept
=============================================================================
