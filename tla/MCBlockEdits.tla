----------------------------- MODULE MCBlockEdits -----------------------------
EXTENDS BlockEdits

MCNotes == {
    <<>>,
    <<"A", "lf", "lf", "link", "lf", "lf", "C", "lf">>,
    <<"item", "A", "lf", "item", "B", "lf", "lf", "C", "lf">>,
    <<"A", "crlf", "crlf", "html", "crlf", "crlf", "B", "D">>,
    <<"fm", "lf", "A", "lf", "html", "lf">>}
MCTyped == {<<>>, <<"x", "nl">>, <<"item", "x", "nl">>, <<"html", "nl">>, <<"x", "nl", "nl", "y", "nl">>}
MCInserted == {<<"x">>, <<"html">>, <<"x", "nl", "nl", "y">>}
=============================================================================
