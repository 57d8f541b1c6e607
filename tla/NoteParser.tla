------------------------------ MODULE NoteParser ------------------------------
(***************************************************************************)
(* The one pass of src/rust/src/markdown/parser.rs that turns the events   *)
(* of pulldown-cmark into the AST and the span map of a Note, and the end  *)
(* of that pass in spans.rs (SpanMapBuilder::finish).                      *)
(*                                                                         *)
(* pulldown-cmark is external: this module lets it emit every well-formed  *)
(* sequence of events over a source of about MaxPos elements.  A region    *)
(* begins where its construct opens and is complete when it closes, which  *)
(* is when the builder uses it.  Text is counted, not spelled: from two     *)
(* source elements an event renders two characters when the two agree (the *)
(* run is interpolable) and one when they do not (a code span, an entity). *)
(* Levels, languages, destinations and formats are left out.               *)
(***************************************************************************)
EXTENDS Integers, Sequences, FiniteSetsExt, SequencesExt, SpanMap

CONSTANTS
    MaxPos,     \* bound: no construct opens at or after this offset
    MaxDepth,   \* bound: open blocks
    Quirks      \* inputs that are let in: "linkedImage" (an image beside text, in a
                \* link or an image), "linkedAlt" (a link in an image's alt text),
                \* "tightBlock" (another block than a list under a tight item's text),
                \* "headingImage" (text after an image in a heading), "imageHeading"
                \* (a nested heading holding only an image)

ASSUME NoteParserAssumption ==
    /\ MaxPos \in Nat /\ MaxDepth \in Nat
    /\ Quirks \subseteq {"linkedImage", "linkedAlt", "tightBlock", "headingImage", "imageHeading"}

VARIABLES
    pos,        \* how far pulldown-cmark has read
    b,          \* the Builder
    seen,       \* characters rendered by the events so far
    done        \* the last event has been handled

vars == <<pos, b, seen, done>>

Containers == {"quote", "list", "item"}

-----------------------------------------------------------------------------
(* The builder's own steps, each a function from Builder to Builder.       *)

Empty == [frames   |-> <<>>,  \* open blocks: kind, start, split, tight, path and filled
          links    |-> <<>>,  \* open links and images: kind, start, chars, content
          inlines  |-> <<>>,  \* characters of each inline element not yet in a block
          runs     |-> <<>>,  \* RunAccum of the block under construction
          code     |-> <<>>,  \* the open code block, if any
          deferred |-> <<>>,  \* images held back until their heading has closed
          top      |-> 0,     \* root_nodes.len()
          nodes    |-> {},    \* the AST: the address and text length of every node
          blocks   |-> <<>>]  \* SpanMapBuilder.blocks, in the order they completed

Sum(s) == FoldSeq(LAMBDA x, y : x + y, 0, s)
Top(s) == s[Len(s)]
Pop(s) == SubSeq(s, 1, Len(s) - 1)
Rendered(runs) == IF runs = <<>> THEN 0 ELSE Top(runs).rendered.end

\* RunAccum::push: a run that renders nothing is dropped.
PushRun(runs, chars, source, exact) ==
    IF chars = 0 THEN runs
    ELSE Append(runs, [rendered |-> [start |-> Rendered(runs), end |-> Rendered(runs) + chars],
                       source   |-> source,
                       exact    |-> exact])

\* Inside a link the run belongs to the link, which will be one atomic run.
EmitRun(c, chars, source, exact) ==
    IF c.links # <<>>
    THEN [c EXCEPT !.links[Len(c.links)].chars = @ + chars]
    ELSE [c EXCEPT !.runs = PushRun(@, chars, source, exact)]

PushInline(c, kind, chars) ==
    IF c.links # <<>>
    THEN [c EXCEPT !.links[Len(c.links)].content = Append(@, [kind |-> kind, chars |-> chars])]
    ELSE [c EXCEPT !.inlines = Append(@, chars)]

Holder(c) == SelectLastInSeq(c.frames, LAMBDA f : f.kind \in Containers)

\* Mutant: the next child's index is one too low.
PathBefore(c) ==
    LET i == Holder(c) IN
    IF i = 0 THEN <<c.top - 1>> ELSE Append(c.frames[i].path, c.frames[i].filled - 1)

NextPath(c) ==
    LET i == Holder(c) IN
    IF i = 0 THEN <<c.top>> ELSE Append(c.frames[i].path, c.frames[i].filled)

Attach(c, chars) ==
    LET i    == Holder(c)
        with == [c EXCEPT !.nodes = @ \cup {[path |-> NextPath(c), chars |-> chars]}]
    IN  IF i = 0 THEN [with EXCEPT !.top = @ + 1] ELSE [with EXCEPT !.frames[i].filled = @ + 1]

\* A block whose extent cannot be derived is attached with no span at all.
NoSpan == [start |-> 0, end |-> 0]
Register(c, path, source, runs) ==
    IF source = NoSpan THEN c
    ELSE [c EXCEPT !.blocks = Append(@, [path |-> path, source |-> source, runs |-> runs])]
PushBlock(c, chars, source, runs) == Attach(Register(c, NextPath(c), source, runs), chars)
PushContainer(c, path, source)    == Attach(Register(c, path, source, <<>>), 0)

RunExtent(runs) ==
    IF runs = <<>> THEN NoSpan
    ELSE [start |-> Head(runs).source.start, end |-> Top(runs).source.end]

ResetInlines(c) == [c EXCEPT !.inlines = <<>>, !.runs = <<>>]

FlushPendingInlines(c) ==
    IF c.inlines = <<>> THEN ResetInlines(c)
    ELSE PushBlock(ResetInlines(c), Sum(c.inlines), RunExtent(c.runs), c.runs)

\* Mutant: the whole extent although an image split it.
WholeExtent(f, end, runs) == [start |-> f.start, end |-> end]

SplitAdjusted(f, end, runs) ==
    IF f.split THEN RunExtent(runs) ELSE [start |-> f.start, end |-> end]

DrainDeferred(c) ==
    FoldLeft(LAMBDA a, d : PushBlock(a, d.chars, d.source, d.runs),
             [c EXCEPT !.deferred = <<>>], c.deferred)

Open(c, kind, at, path, tight) ==
    [c EXCEPT !.frames = Append(@, [kind |-> kind, start |-> at, split |-> FALSE,
                                    path |-> path, filled |-> 0, tight |-> tight])]

-----------------------------------------------------------------------------
(* What handle does with each event: start, end, text and line_break.      *)

StartText(c, kind, at) == Open(ResetInlines(c), kind, at, <<>>, FALSE)
StartQuote(c, at) == Open(c, "quote", at, NextPath(c), FALSE)
StartList(c, at, tight) == LET d == FlushPendingInlines(c) IN
                                Open(d, "list", at, NextPath(d), tight)
StartItem(c, at) == Open(c, "item", at, NextPath(c), Top(c.frames).tight)

Closed(c) == [ResetInlines(c) EXCEPT !.frames = Pop(c.frames)]

EndParagraph(c, end) ==
    IF c.inlines = <<>> THEN Closed(c)
    ELSE PushBlock(Closed(c), Sum(c.inlines), SplitAdjusted(Top(c.frames), end, c.runs), c.runs)

EndHeading(c, end) ==
    DrainDeferred(PushBlock(Closed(c), Sum(c.inlines),
                            SplitAdjusted(Top(c.frames), end, c.runs), c.runs))

\* Mutant: the text of a tight item is left to whatever comes next.
ItemWithoutFlush(c, end) ==
    PushContainer([c EXCEPT !.frames = Pop(@)], Top(c.frames).path,
                  [start |-> Top(c.frames).start, end |-> end])

EndContainer(c, end) ==
    LET d == IF Top(c.frames).kind = "item" THEN FlushPendingInlines(c) ELSE c
        f == Top(d.frames)
    IN  PushContainer([d EXCEPT !.frames = Pop(@)], f.path, [start |-> f.start, end |-> end])

\* Text, and the code spans and line breaks that are handled like it.
InlineText(c, chars, source, exact) == PushInline(EmitRun(c, chars, source, exact), "text", chars)

OpenLink(c, kind, at) ==
    [c EXCEPT !.links = Append(@, [kind |-> kind, start |-> at, chars |-> 0, content |-> <<>>])]

\* A link that renders nothing leaves neither a run nor an element.
\* Mutant: the link's element without its run.
LinkWithoutRun(c, end) ==
    LET f == Top(c.links)
    IN  PushInline([c EXCEPT !.links = Pop(@)], "link",
                   Sum([i \in 1..Len(f.content) |-> f.content[i].chars]))

CloseLink(c, end) ==
    LET f == Top(c.links)
        d == [c EXCEPT !.links = Pop(@)]
    IN  IF f.chars = 0 THEN d
        ELSE PushInline(EmitRun(d, f.chars, [start |-> f.start, end |-> end], FALSE), "link",
                        Sum([i \in 1..Len(f.content) |-> f.content[i].chars]))

\* An image becomes a block of its own, and what was before it another.
CloseImage(c, end) ==
    LET f       == Top(c.links)
        popped  == [c EXCEPT !.links = Pop(@)]
        texts   == SelectSeq(f.content, LAMBDA e : e.kind = "text")
        chars   == Sum([i \in 1..Len(texts) |-> texts[i].chars])
        source  == [start |-> f.start, end |-> end]
        runs    == PushRun(<<>>, chars, source, FALSE)
        within  == IF c.frames = <<>> THEN "none" ELSE Top(c.frames).kind
        split   == IF within \in {"paragraph", "heading"}
                   THEN [popped EXCEPT !.frames[Len(c.frames)].split = TRUE] ELSE popped
    IN  IF within = "heading"
        THEN [split EXCEPT !.deferred = Append(@, [chars |-> chars, source |-> source, runs |-> runs])]
        ELSE PushBlock(FlushPendingInlines(split), chars, source, runs)

StartCode(c, at) == [c EXCEPT !.code = <<[start |-> at, runs |-> <<>>]>>]
CodeText(c, source) == [c EXCEPT !.code[1].runs = PushRun(@, 1, source, TRUE)]
EndCode(c, end) ==
    LET a == c.code[1] IN
    PushBlock([c EXCEPT !.code = <<>>], Rendered(a.runs), [start |-> a.start, end |-> end], a.runs)

Rule(c, source) == PushBlock(c, 0, source, <<>>)

-----------------------------------------------------------------------------
(* The events pulldown-cmark may emit next.                                *)

Innermost == IF b.frames = <<>> THEN "none" ELSE Top(b.frames).kind
InItemText == Innermost = "item" /\ Top(b.frames).tight
Plain == b.links = <<>> /\ b.code = <<>>
Room == pos < MaxPos /\ ~done

\* A block may begin here.  Under the text of a tight item that is usually a list.
BlockMayStart(kind) ==
    /\ Room /\ Plain /\ Len(b.frames) < MaxDepth
    /\ Innermost \in {"none", "quote", "item"}
    /\ InItemText /\ b.inlines # <<>> => kind = "list" \/ "tightBlock" \in Quirks
    /\ InItemText => kind # "paragraph"

InlineMayStart == Room /\ b.code = <<>> /\ (Innermost \in {"paragraph", "heading"} \/ InItemText)

Hoisted == {b.blocks[k].source.start : k \in 1..Len(b.blocks)}
           \cup {b.deferred[k].source.start : k \in 1..Len(b.deferred)}

\* Beside a hoisted image an open link usually renders no text, and the reverse.
TextMayFollow ==
    /\ \A i \in 1..Len(b.links) :
          (\E at \in Hoisted : at > b.links[i].start) => "linkedImage" \in Quirks
    /\ b.deferred # <<>> => "headingImage" \in Quirks
ImageMayStart ==
    \A i \in 1..Len(b.links) :
        b.links[i].chars > 0 \/ b.links[i].kind = "image" => "linkedImage" \in Quirks
LinkMayStart ==
    \A i \in 1..Len(b.links) : b.links[i].kind = "image" /\ "linkedAlt" \in Quirks

Upto(n) == [start |-> pos, end |-> pos + n]

Init == pos = 0 /\ b = Empty /\ seen = 0 /\ done = FALSE

\* The event's construct takes n source elements and renders chars characters.
Step(n, chars, new) == pos' = pos + n /\ seen' = seen + chars /\ b' = new /\ UNCHANGED done

\* A metadata block is a span with no node; its text is not rendered.
MetadataBlock == pos = 0 /\ b = Empty /\ Room /\ Step(1, 0, b)

OpenHeading   == BlockMayStart("heading")   /\ Step(1, 0, StartText(b, "heading", pos))
OpenParagraph == BlockMayStart("paragraph") /\ Step(0, 0, StartText(b, "paragraph", pos))
OpenQuote     == BlockMayStart("quote")     /\ Step(1, 0, StartQuote(b, pos))
OpenCode      == BlockMayStart("code")      /\ Step(1, 0, StartCode(b, pos))
OpenList      == \E tight \in BOOLEAN :
                    /\ BlockMayStart("list")
                    /\ Step(0, 0, StartList(b, pos, tight))
OpenItem      == /\ Room /\ Plain /\ Innermost = "list"
                 /\ Step(1, 0, StartItem(b, pos))

ThematicBreak == BlockMayStart("rule") /\ Step(1, 0, Rule(b, Upto(1)))
\* Raw HTML, reference definitions: source with no event the builder handles.
Unaddressed   == BlockMayStart("html") /\ Step(1, 0, b)

CloseParagraph == /\ Plain /\ Innermost = "paragraph" /\ pos > Top(b.frames).start
                  /\ Step(1, 0, EndParagraph(b, pos + 1))
CloseHeading   == /\ Plain /\ Innermost = "heading"
                  /\ Holder(b) > 0 /\ b.runs = <<>> /\ b.deferred # <<>> => "imageHeading" \in Quirks
                  /\ Step(1, 0, EndHeading(b, pos + 1))
CloseContainer == /\ Plain /\ Innermost \in Containers
                  /\ Innermost = "list" => Top(b.frames).filled > 0
                  /\ Step(0, 0, EndContainer(b, pos))

Text == \E exact \in BOOLEAN :
           LET chars == IF exact THEN 2 ELSE 1 IN
           /\ InlineMayStart /\ TextMayFollow
           /\ Step(2, chars, InlineText(b, chars, Upto(2), exact))
\* A delimiter, an escape or inline HTML: source between two runs.
Markup == InlineMayStart /\ Step(1, 0, b)

StartLink  == InlineMayStart /\ LinkMayStart  /\ Step(1, 0, OpenLink(b, "link", pos))
StartImage == InlineMayStart /\ ImageMayStart /\ Step(1, 0, OpenLink(b, "image", pos))
EndLink    == b.links # <<>> /\ Top(b.links).kind = "link"  /\ Step(1, 0, CloseLink(b, pos + 1))
EndImage   == b.links # <<>> /\ Top(b.links).kind = "image" /\ Step(1, 0, CloseImage(b, pos + 1))

CodeLine  == b.code # <<>> /\ Room /\ Step(1, 1, CodeText(b, Upto(1)))
CloseCode == b.code # <<>> /\ Step(1, 0, EndCode(b, pos + 1))

Finish == ~done /\ Plain /\ b.frames = <<>> /\ done' = TRUE /\ UNCHANGED <<pos, b, seen>>

Next == \/ MetadataBlock \/ OpenHeading \/ OpenParagraph \/ OpenQuote \/ OpenCode
        \/ OpenList \/ OpenItem \/ ThematicBreak \/ Unaddressed
        \/ CloseParagraph \/ CloseHeading \/ CloseContainer
        \/ Text \/ Markup \/ StartLink \/ StartImage \/ EndLink \/ EndImage
        \/ CodeLine \/ CloseCode \/ Finish

Spec == Init /\ [][Next]_vars

-----------------------------------------------------------------------------
(* SpanMapBuilder::finish, and the same length read off the AST.           *)

\* The length of p's text: its children's joined by one character each, or its own.
TextLengths(own) ==
    LET len[q \in DOMAIN own] ==
            LET kids == {k \in DOMAIN own : Len(k) = Len(q) + 1 /\ IsAncestor(q, k)} IN
            IF kids = {} THEN own[q]
            ELSE MapThenSumSet(LAMBDA k : len[k], kids) + Cardinality(kids) - 1
    IN len

Paths == {b.blocks[k].path : k \in 1..Len(b.blocks)}
BlockAt(p) == b.blocks[SelectLastInSeq(b.blocks, LAMBDA e : e.path = p)]
Spans == [p \in Paths |-> BlockAt(p).source]
SpanLengths == [p \in Paths |-> Rendered(BlockAt(p).runs)]

NodePaths == {n.path : n \in b.nodes}
NodeLengths == [p \in NodePaths |-> (CHOOSE n \in b.nodes : n.path = p).chars]

-----------------------------------------------------------------------------
(* Resolving a rendered offset.  A resolution is the source offset to use   *)
(* when it begins a selection and the one to use when it ends one: the two *)
(* differ between two runs and inside an atomic one.                       *)

\* SpanMap::resolve_at on a leaf (Exact, Boundary and Atomic, with start() and end()).
\* Mutant: an atomic run interpolated like an exact one.
Interpolated(block, offset) ==
    LET runs == block.runs
        in   == SelectLastInSeq(runs, LAMBDA r : r.rendered.start <= offset)
        at   == IF in = 0 THEN block.source.start
                ELSE runs[in].source.start + (offset - runs[in].rendered.start)
    IN  [start |-> at, end |-> at]

ResolveAt(block, offset) ==
    LET runs  == block.runs
        at    == SelectInSeq(runs, LAMBDA r : r.rendered.start = offset)
        in    == SelectInSeq(runs, LAMBDA r : r.rendered.start < offset /\ offset < r.rendered.end)
        exact == runs[in].source.start + (offset - runs[in].rendered.start)
        last  == IF runs = <<>> THEN block.source.start ELSE Top(runs).source.end
    IN  IF at > 0
        THEN [start |-> runs[at].source.start,
              end   |-> IF at = 1 THEN runs[at].source.start ELSE runs[at - 1].source.end]
        ELSE IF in > 0
        THEN IF runs[in].exact THEN [start |-> exact, end |-> exact] ELSE runs[in].source
        ELSE [start |-> last, end |-> last]

\* resolve_leaf_at: the child whose text, or whose joiner, the offset falls in.
\* Mutant: the search stops at the child, leaf or not.
ChildAt(path, offset) ==
    LET len  == TextLengths(SpanLengths)
        kids == {k \in Paths : Len(k) = Len(path) + 1 /\ IsAncestor(path, k)}
        before(k) == MapThenSumSet(LAMBDA j : len[j] + 1, {j \in kids : Top(j) < Top(k)})
        fit == {k \in kids : offset <= before(k) + len[k]}
    IN  IF kids = {} THEN [path |-> path, offset |-> offset]
        ELSE LET first == CHOOSE k \in fit : \A j \in fit : Top(k) <= Top(j)
             IN  [path |-> first, offset |-> offset - before(first)]

LeafAt(path, offset) ==
    LET len     == TextLengths(SpanLengths)
        kids(q) == {k \in Paths : Len(k) = Len(q) + 1 /\ IsAncestor(q, k)}
        before(k) == MapThenSumSet(LAMBDA j : len[j] + 1,
                                   {j \in kids(Pop(k)) : Top(j) < Top(k)})
        leaf[q \in Paths, o \in 0..len[path]] ==
            IF kids(q) = {} THEN [path |-> q, offset |-> o]
            ELSE LET fit   == {k \in kids(q) : o <= before(k) + len[k]}
                     first == CHOOSE k \in fit : \A j \in fit : Top(k) <= Top(j)
                 IN leaf[first, o - before(first)]
    IN  leaf[path, offset]

-----------------------------------------------------------------------------
(* Properties.                                                             *)

\* Every span is a part of the source that is not empty, lies inside its parent's and
\* after its earlier siblings': a splice over one block's span writes over no other's
\* (spans.rs invariants::check, for any input whatsoever).
SpansCoherent ==
    /\ \A p \in Paths : Spans[p].start < Spans[p].end /\ Spans[p].end <= pos
    /\ \A p, q \in Paths :
        /\ IsAncestor(p, q) => Spans[p].start <= Spans[q].start /\ Spans[q].end <= Spans[p].end
        /\ Precedes(p, q)   => Spans[p].end <= Spans[q].start

\* The map addresses the tree: no two blocks share a path, every path is a node's, and
\* a block's rendered length is its node's, without which resolve_utf16_caret refuses
\* every click in it.
MapMatchesTree ==
    done => /\ Cardinality(Paths) = Len(b.blocks)
            /\ Cardinality(NodePaths) = Cardinality(b.nodes)
            /\ Paths \subseteq NodePaths
            /\ \A p \in Paths : TextLengths(SpanLengths)[p] = TextLengths(NodeLengths)[p]

\* Everything pulldown-cmark rendered is in a node: the parse drops no text.
TextKept ==
    done => MapThenSumSet(LAMBDA n : n.chars, b.nodes) = seen

\* The tree is the source's, and the map is the tree's.
TreeFaithful == MapMatchesTree /\ TextKept

LeafPaths == {p \in Paths : ~\E q \in Paths \ {p} : IsAncestor(p, q)}

\* A click anywhere in a rendered block finds an editable leaf of that block and
\* a caret inside the leaf's own source (resolve_utf16_caret).
ClicksResolve ==
    done => \A p \in {q \in Paths : Len(q) = 1} :
               \A o \in 0..TextLengths(SpanLengths)[p] :
                  LET leaf == LeafAt(p, o)
                      span == Spans[leaf.path]
                      at   == ResolveAt(BlockAt(leaf.path), leaf.offset).start
                  IN leaf.path \in LeafPaths /\ IsAncestor(p, leaf.path)
                     /\ span.start <= at /\ at <= span.end

\* A selection is never resolved to an inverted range, and holds the source of every
\* character in it: all of an atomic run it touches, delimiters included.
SelectionsHold ==
    done =>
      /\ \A p \in LeafPaths : LET e == BlockAt(p) IN
            \A o \in 0..Rendered(e.runs), z \in 1..Rendered(e.runs) : o < z =>
               LET from == ResolveAt(e, o).start
                   to   == ResolveAt(e, z).end
               IN /\ from <= to
                  /\ \A i \in 1..Len(e.runs) :
                        LET r     == e.runs[i]
                            first == IF r.exact /\ o > r.rendered.start THEN o - r.rendered.start ELSE 0
                            last  == IF r.exact /\ z < r.rendered.end THEN r.rendered.end - z ELSE 0
                        IN r.rendered.start < z /\ o < r.rendered.end =>
                              from <= r.source.start + first /\ r.source.end - last <= to
      /\ \A p, q \in LeafPaths : Precedes(p, q) =>
            \A o \in 0..SpanLengths[p], z \in 0..SpanLengths[q] :
               ResolveAt(BlockAt(p), o).start <= ResolveAt(BlockAt(q), z).end

\* Every click and every selection of rendered text resolves to the source it covers.
CaretsResolve == ClicksResolve /\ SelectionsHold
=============================================================================
