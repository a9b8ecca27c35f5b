------------------------------ MODULE MCDialFS ------------------------------
(* Values for the constants of DialFS. *)
EXTENDS DialFS, TLC

\* Blocks of two bytes: one written in part, one across two blocks.
UnaYDos == {<<0, 1>>, <<1, 2>>}
Byte1 == {<<0, 1>>}

Simetria == Permutations(Archivos)
=============================================================================
