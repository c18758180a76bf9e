----------------------------- MODULE Selection ------------------------------
(* What the screens keep of a list: its members that are in a set, in the    *)
(* order of the list.                                                        *)
EXTENDS Sequences, SequencesExt

Among(list, S) == FlattenSeq([i \in DOMAIN list |-> IF list[i] \in S THEN <<list[i]>> ELSE <<>>])
=============================================================================
