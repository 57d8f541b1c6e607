------------------------------ MODULE MCIndex ------------------------------
(* Index on small instances.  q has a blank and a bracket in its name, h is *)
(* dotted, i and j name attachments whose parentheses do and do not match;  *)
(* at the root l is a symbolic link and b a file that is no Note.           *)
EXTENDS Index

CONSTANTS Shapes

MCGlyphs == "p" :> <<"p">> @@ "q" :> <<"q", " ", "]">> @@ "d" :> <<"d">> @@ "g" :> <<"g">>
            @@ "h" :> <<".", "h">> @@ "index" :> <<"index">>
            @@ "i" :> <<"i", "(", ")">> @@ "j" :> <<"j", "(">> @@ "w" :> <<"w">>
            @@ "l" :> <<"l">> @@ "b" :> <<"b">>

P == <<"p">>
Q == <<"q">>
DP == <<"d", "p">>
Simple == {"p", "q", "d", "g"}
MCIds == UNION {[1..n -> Simple] : n \in 1..3}
MCAttachments == {Append(d, a) : d \in {<<>>} \cup UNION {[1..n -> Simple] : n \in 1..2}, a \in {"i", "j"}}
MCNoted == {P, DP, <<"d", "g", "p">>}

Relative(kind, segs) == [rooted |-> FALSE, segs |-> segs, kind |-> kind]

ToP == Link(<<"x">>, Bundle("note", P), "angle")
ToDP == Link(<<"x", "]">>, Bundle("note", DP), "bare")
NearP == [Link(<<"]", "\\">>, Relative("note", P), "bare") EXCEPT !.code = TRUE, !.title = <<"(", "<">>]
NearQ == Link(<<"y">>, Relative("note", Q), "angle")
UpP == Link(<<"u">>, Relative("note", <<"..", ".", "p">>), "bare")
Ghost == Link(<<"n">>, Relative("note", <<"g">>), "bare")
Picture == [Link(<<"a">>, Relative("file", <<"i">>), "bare") EXCEPT !.image = TRUE]
Picture2 == [Link(<<"a">>, Relative("file", <<"j">>), "escaped") EXCEPT !.image = TRUE]
Framed == [Link(<<>>, Relative("note", P), "bare") EXCEPT !.inner = Picture]
Outside == [Link(<<>>, Relative("scheme", <<"w">>), "bare") EXCEPT !.inner = Picture2]
Far == Link(<<"r">>, Bundle("note", P), "ref")

MCWritten == {ToP, ToDP, NearP, NearQ, UpP, Ghost, Picture, Picture2, Outside, Far} \cup
             (IF "framed" \in Shapes THEN {Framed} ELSE {})

NL == <<"nl">>
Body1 == Spelling(NearP) \o NL \o Spelling(Outside) \o NL \o Spelling(ToDP)
Body2 == Spelling(Picture) \o NL \o Spelling(UpP) \o NL \o Spelling(Ghost)
Body3 == Spelling(ToP) \o NL \o <<"w", "]">>
MCBodies == {Body2} \cup (IF "framed" \in Shapes THEN {Spelling(Framed)} ELSE {})

MCStartFiles == P :> Text("typed", "p", Body3) @@ DP :> Text("untyped", None, Body1)
                @@ Q :> Text("none", None, Spelling(NearQ) \o NL \o Spelling(ToDP))
                @@ <<"d", "index">> :> Text("none", None, Body3)
MCStartFolders == {<<"d">>}
MCFolders == {<<>>, <<"d">>, <<"d", "g">>, <<"l">>, <<"b">>}
MCTitles == {"q", "g"}
=============================================================================
