---------------------------- MODULE MCMapReduce ----------------------------
(***************************************************************************)
(* Instances of MapReduce for TLC.                                         *)
(***************************************************************************)
EXTENDS MapReduce, TLC

\* Two words, a piece with both and a piece with none.
TwoWords == [x |-> <<"x">>, y |-> <<"y">>, xy |-> <<"x", "y">>, digit |-> <<>>]

\* Texts of zero to five pieces: a third of each is rounded down.
ShortTexts == {<<>>, <<"x", "y">>, <<"y", "xy", "digit", "x", "y">>}

Symmetry == Permutations(Jobs)
============================================================================
