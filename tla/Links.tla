------------------------------- MODULE Links -------------------------------
(***************************************************************************)
(* The destinations a Note's text writes, what they name, and the source   *)
(* rewriting a rename or a move does to them: `okf/links.rs` and           *)
(* `workspace/links_rewrite.rs`, with the text a completion inserts.       *)
(*                                                                         *)
(* A path is a sequence of names, and a concept id is the path of its      *)
(* Note.  A body is a sequence of glyphs, because the rewriting is done on *)
(* the source by offsets: what it must not disturb, and what may mislead   *)
(* it, are the glyphs around a destination.  CommonMark itself is          *)
(* external: a body line either spells one of Elements and reads as it, or *)
(* is prose.  Offsets count from 0, and a span leaves its end out.         *)
(***************************************************************************)
EXTENDS Integers, SequencesExt, FiniteSets

CONSTANTS
    None,           \* the absent result
    Refused,        \* an operation that answers an error
    Glyphs,         \* [name -> Seq(glyph)]: how a name is written
    Written,        \* the Links and images a Note's author writes
    Ids,            \* the concept ids there may be
    Attachments     \* the paths of other files a destination may name

Names == DOMAIN Glyphs

(* "/" and "." are glyphs of paths, never of names. *)
ASSUME GlyphsSpell ==
    /\ \A n \in Names : Glyphs[n] # <<>> /\ Glyphs[n] \in Seq(STRING)
    /\ \A m, n \in Names : Glyphs[m] = Glyphs[n] => m = n

-----------------------------------------------------------------------------
(* Destinations.                                                           *)

DestKinds == {"note", "file", "scheme", "fragment"}

Bundle(kind, path) == [rooted |-> TRUE, segs |-> path, kind |-> kind]

SegmentText(seg) == IF seg \in Names THEN Glyphs[seg] ELSE IF seg = "" THEN <<>> ELSE <<seg>>

Suffix(kind) == CASE kind = "note" -> <<".md">>
                  [] kind = "file" -> <<".png">>
                  [] kind = "fragment" -> <<".md", "#", "s">>
                  [] kind = "scheme" -> <<".com">>

(* The destination as CommonMark resolves it: brackets off, escapes applied. *)
DestText(d) ==
    (IF d.kind = "scheme" THEN <<"https", ":">> ELSE IF d.rooted THEN <<"/">> ELSE <<>>)
    \o FlattenSeq([i \in 1..Len(d.segs) |->
                     (IF i > 1 THEN <<"/">> ELSE <<>>) \o SegmentText(d.segs[i])])
    \o Suffix(d.kind)

Climb(stack, seg) ==
    IF stack = None THEN None
    ELSE IF seg \in {"", "."} THEN stack
    ELSE IF seg # ".." THEN Append(stack, seg)
    ELSE IF stack = <<>> THEN None ELSE Front(stack)

ResolvePath(dir, segs) == FoldLeft(Climb, dir, segs)

ResolveRelative(dir, segs) == IF Last(segs) = "" THEN None ELSE ResolvePath(dir, segs)

(* The concept id a destination names, None when it is External. *)
Classify(d, dir) ==
    IF d.kind # "note" THEN None
    ELSE ResolveRelative(IF d.rooted THEN <<>> ELSE dir, d.segs)

(* The last segment carries its extension, so it is never "", "." or "..". *)
ResolveBundlePath(d, dir) ==
    IF d.rooted \/ d.kind \in {"scheme", "fragment"} THEN None
    ELSE LET up == ResolvePath(dir, Front(d.segs))
         IN  IF up = None THEN None ELSE Append(up, Last(d.segs))

-----------------------------------------------------------------------------
(* What burlmd writes.                                                     *)

Escaped(glyphs, special) ==
    FlattenSeq([i \in 1..Len(glyphs) |->
                  IF glyphs[i] \in special THEN <<"\\", glyphs[i]>> ELSE <<glyphs[i]>>])

DestinationEscapes == {"\\", "<", ">", "&"}
(* Mutation: a closing bracket is left as it is. *)
TextEscapesOpening == DestinationEscapes \cup {"["}

TextEscapes == DestinationEscapes \cup {"[", "]"}

SerializeDestination(d) == <<"<">> \o Escaped(DestText(d), DestinationEscapes) \o <<">">>

EscapeLinkText(text) == Escaped(text, TextEscapes)

SerializeLink(text, id) ==
    <<"[">> \o EscapeLinkText(text) \o <<"]", "(">>
    \o SerializeDestination(Bundle("note", id)) \o <<")">>

IsEscaped(s, i) ==
    Cardinality({j \in 0..(i - 1) : \A m \in j..(i - 1) : s[m + 1] = "\\"}) % 2 = 1

Blank == {" ", "nl"}

FoldWhitespace(text) ==
    FlattenSeq([i \in 1..Len(text) |->
                  IF text[i] \notin Blank THEN <<text[i]>>
                  ELSE IF i > 1 /\ text[i - 1] \in Blank THEN <<>> ELSE <<" ">>])

-----------------------------------------------------------------------------
(* CommonMark, as far as a body line that is one Link or one image.  An    *)
(* element has a label, which is text (in a code span when code holds)     *)
(* or one image, a destination in one of four forms ("angle" and "escaped" *)
(* escape it, "bare" does not have to, "ref" keeps it in a definition      *)
(* elsewhere in the Note) and a title.                                     *)

Link(label, dest, form) ==
    [image |-> FALSE, label |-> label, code |-> FALSE, inner |-> None,
     dest |-> dest, form |-> form, title |-> <<>>]

DestSpelling(d, form) ==
    CASE form = "angle" -> SerializeDestination(d)
      [] form = "bare" -> DestText(d)
      [] form = "escaped" -> Escaped(DestText(d), {"(", ")"})

DestTail(d, form, title) ==
    IF form = "ref" THEN <<"[", "r", "]">>
    ELSE <<"(">> \o DestSpelling(d, form)
         \o (IF title = <<>> THEN <<>> ELSE <<" ", "quote">> \o title \o <<"quote">>) \o <<")">>

Bang(e) == IF e.image THEN <<"!">> ELSE <<>>

LabelText(e) == IF e.code THEN <<"tick">> \o e.label \o <<"tick">> ELSE EscapeLinkText(e.label)

Plain(e) == Bang(e) \o <<"[">> \o LabelText(e) \o <<"]">> \o DestTail(e.dest, e.form, e.title)

Spelling(e) ==
    IF e.inner = None THEN Plain(e)
    ELSE Bang(e) \o <<"[">> \o Plain(e.inner) \o <<"]">> \o DestTail(e.dest, e.form, e.title)

Bundled(kind) == CASE kind = "note" -> {Bundle(kind, id) : id \in Ids}
                   [] kind = "file" -> {Bundle(kind, p) : p \in Attachments}
                   [] OTHER -> {}

Retargeted(e) == {e} \cup {[e EXCEPT !.dest = d, !.form = "angle"] : d \in Bundled(e.dest.kind)}

(* What reads as a Link: no bracket of the label, and no end of the        *)
(* destination, but the escaped ones before its own; and no code span that *)
(* the label opens and the destination closes, for it binds tighter.       *)
Closed(s, special) == /\ \A i \in DOMAIN s : s[i] \in special => IsEscaped(s, i - 1)
                      /\ ~IsEscaped(s, Len(s))

ReadsAsLink(e) ==
    \/ e.code
    \/ /\ Closed(EscapeLinkText(e.label), {"[", "]"})
       /\ e.form = "angle" => Closed(Escaped(DestText(e.dest), DestinationEscapes), {"<", ">"})
       /\ \/ Cardinality({i \in DOMAIN e.label : e.label[i] = "tick"}) % 2 = 0
          \/ e.form = "ref" \/ "tick" \notin ToSet(DestText(e.dest))

Completed == {Link(FoldWhitespace(Glyphs[n]), Bundle("note", id), "angle") :
                n \in Names, id \in Ids}

Elements ==
    {e \in Completed \cup UNION {Retargeted(w) : w \in Written}
           \cup UNION {{[r EXCEPT !.inner = i] : r \in Retargeted(w), i \in Retargeted(w.inner)} :
                         w \in {v \in Written : v.inner # None}} : ReadsAsLink(e)}

Reading == LET spelled == {<<Spelling(e), e>> : e \in Elements}
           IN  [s \in {p[1] : p \in spelled} |-> (CHOOSE p \in spelled : p[1] = s)[2]]

Lines(s) == LET starts == SetToSortSeq({0} \cup {i \in DOMAIN s : s[i] = "nl"}, <)
                Ends(k) == IF k < Len(starts) THEN starts[k + 1] - 1 ELSE Len(s)
            IN  [k \in 1..Len(starts) |-> [at |-> starts[k], text |-> SubSeq(s, starts[k] + 1, Ends(k))]]

(* A line is an element, or prose as it is. *)
Content(line) == IF line \in DOMAIN Reading THEN Reading[line] ELSE [prose |-> line]

(* What a renderer shows of a body. *)
Contents(s) == LET lines == Lines(s) IN [k \in DOMAIN lines |-> Content(lines[k].text)]

LinksOf(s) == {e \in ToSet(Contents(s)) : "dest" \in DOMAIN e}

Event(what, from, to, dest) == [what |-> what, from |-> from, to |-> to, dest |-> dest]

(* The events of a body with their ranges.  The ranges nest as the source  *)
(* does, so a start and its end are one event here and the set of them     *)
(* tells what the stream does.  A label is one Text event for each glyph,  *)
(* past the backslash that escapes it, or one Code event for the span with *)
(* its backticks.                                                          *)
LabelEvents(e, at) ==
    IF e.code THEN {Event("inner", at, at + Len(e.label) + 2, None)}
    ELSE {LET end == at + Len(EscapeLinkText(SubSeq(e.label, 1, i)))
          IN  Event("inner", end - 1, end, None) : i \in DOMAIN e.label}

Around(e, at, inside) ==
    {Event(IF e.image THEN "image" ELSE "link", at, at + Len(Spelling(e)), e.dest)} \cup inside

ElementEvents(e, at) ==
    LET label == at + Len(Bang(e)) + 1 IN
    Around(e, at, IF e.inner = None THEN LabelEvents(e, label)
                  ELSE Around(e.inner, label, LabelEvents(e.inner, label + Len(Bang(e.inner)) + 1)))

LineEvents(line) ==
    IF line.text \in DOMAIN Reading THEN ElementEvents(Reading[line.text], line.at)
    ELSE {Event("inner", line.at, line.at + Len(line.text), None)}

Events(s) == UNION {LineEvents(line) : line \in ToSet(Lines(s))}

-----------------------------------------------------------------------------
(* Finding the destinations to rewrite.                                    *)

Opening(s, images) == {v \in Events(s) : v.what = "link" \/ (images /\ v.what = "image")}
Dests(s, images) == {v.dest : v \in Opening(s, images)}

(* How far what is inside reaches. *)
FoldInner(s, v) ==
    Max({v.from + 1} \cup {w.to : w \in {i \in Events(s) \ {v} : v.from <= i.from /\ i.to <= v.to}})

(* The destinations new has a replacement for. *)
MatchingLinks(s, images, new) ==
    {[from |-> v.from, to |-> v.to, textEnd |-> FoldInner(s, v), new |-> new[v.dest]] :
        v \in {o \in Opening(s, images) : o.dest \in DOMAIN new}}

(* Where the destination that starts at or after from is written. *)
ParseDestination(s, from, limit) ==
    LET begins == {k \in from..(limit - 1) : s[k + 1] \notin Blank} IN
    IF begins = {} THEN None
    ELSE
    LET start == Min(begins)
        Live(k) == ~IsEscaped(s, k)
        Count(g, k) == Cardinality({j \in start..(k - 1) : s[j + 1] = g /\ Live(j)})
        closing == {k \in (start + 1)..(limit - 1) : s[k + 1] = ">" /\ Live(k)}
        bareEnds == {k \in start..(limit - 1) : Live(k) /\
                       (s[k + 1] \in Blank \/ (s[k + 1] = ")" /\ Count("(", k) = Count(")", k)))}
    IN  IF s[start + 1] = "<"
        THEN IF closing = {} THEN None ELSE [from |-> start, to |-> Min(closing) + 1]
        ELSE LET end == Min(bareEnds \cup {limit})
             IN  IF end = start THEN None ELSE [from |-> start, to |-> end]

DestinationSpan(s, link) ==
    LET from == Max({link.textEnd, link.from + 1})
        closers == {i \in from..(Min({link.to, Len(s)}) - 1) : s[i + 1] = "]" /\ ~IsEscaped(s, i)}
    IN  IF closers = {} THEN None
        ELSE LET c == Min(closers)
             IN  IF c + 2 > Len(s) \/ s[c + 2] # "(" THEN None
                 ELSE ParseDestination(s, c + 2, link.to)

-----------------------------------------------------------------------------
(* Rewriting: the new source and whether anything matched, Refused when a  *)
(* match has no destination written inline or no longer lies in the text.  *)

(* Mutation: from the first, whose splice moves those after it. *)
DescendingReversed(spans) == SetToSortSeq(spans, LAMBDA p, q : p.at.from < q.at.from)

(* From the last, so that the spans before it stay where they are. *)
Descending(spans) == SetToSortSeq(spans, LAMBDA p, q : p.at.from > q.at.from)

SpliceAll(s, spans) ==
    LET Splice(out, p) ==
            IF out = Refused \/ p.at.to > Len(out) THEN Refused
            ELSE SubSeq(out, 1, p.at.from) \o SerializeDestination(p.new)
                 \o SubSeq(out, p.at.to + 1, Len(out))
    IN  IF \E p \in spans : p.at = None THEN Refused ELSE FoldLeft(Splice, s, Descending(spans))

RewriteDestinations(s, images, new) ==
    LET spans == {[at |-> DestinationSpan(s, l), new |-> l.new] : l \in MatchingLinks(s, images, new)}
        body == SpliceAll(s, spans)
    IN  IF spans = {} THEN [body |-> s, changed |-> FALSE]
        ELSE IF body = Refused THEN Refused ELSE [body |-> body, changed |-> TRUE]

(* new maps a destination to what it is replaced by. *)
RewriteLinkTargets(s, dir, remap) ==
    LET renamed == {d \in Dests(s, FALSE) : Classify(d, dir) \in DOMAIN remap}
    IN  RewriteDestinations(s, FALSE, [d \in renamed |-> Bundle("note", remap[Classify(d, dir)])])

AbsolutizeRelativeLinks(s, dir) ==
    LET Internal(d) == Classify(d, dir) # None
        relative == {d \in Dests(s, TRUE) : ~d.rooted /\ (Internal(d) \/ ResolveBundlePath(d, dir) # None)}
    IN  RewriteDestinations(s, TRUE,
            [d \in relative |-> IF Internal(d) THEN Bundle("note", Classify(d, dir))
                                 ELSE Bundle(d.kind, ResolveBundlePath(d, dir))])

-----------------------------------------------------------------------------
(* The text of a Note: frontmatter and body.  The block is none, or typed  *)
(* or untyped as it has a type key (which makes the Note conform).         *)

RewriteFrontmatterTitle(text, title) ==
    IF text.front.block = "none" \/ text.front.title = title THEN None
    ELSE [text EXCEPT !.front.title = title]

(* The steps of a rewrite: the text so far, and whether a step changed it. *)
Retitle(text, title) ==
    LET retitled == IF title = None THEN None ELSE RewriteFrontmatterTitle(text, title)
    IN  [text |-> IF retitled = None THEN text ELSE retitled, changed |-> retitled # None]

WithBody(done, rewrite) ==
    IF rewrite = Refused THEN Refused
    ELSE [text |-> [done.text EXCEPT !.body = rewrite.body], changed |-> done.changed \/ rewrite.changed]

Absolutize(done, dir) == WithBody(done, AbsolutizeRelativeLinks(done.text.body, dir))

Remap(done, dir, remap) ==
    IF done = Refused THEN Refused
    ELSE WithBody(done, RewriteLinkTargets(done.text.body, dir, remap))

RewriteNoteText(text, dir, remap, newTitle, absolutize) ==
    LET retitled == Retitle(text, newTitle)
    IN  Remap(IF absolutize THEN Absolutize(retitled, dir) ELSE retitled, dir, remap)
=============================================================================
