---------------------------- MODULE MCTools ---------------------------------
(* Short texts and files of few lines for TLC. *)
EXTENDS Tools

MCTexts == UNION {[1 .. n -> {"x", "y", "lf"}] : n \in 0 .. 4}
           \cup {<<"bom", "x">>, <<"x", "cr", "lf", "y">>, <<"x", "cr">>}
MCOlds == {<<>>} \cup UNION {[1 .. n -> {"x", "lf"}] : n \in 1 .. 2} \cup {<<"y">>}
MCNews == {<<>>, <<"y">>, <<"x", "x">>, <<"cr", "lf">>}
MCPages == UNION {[1 .. n -> 0 .. 5] : n \in 1 .. 4}
=============================================================================
