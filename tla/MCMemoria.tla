------------------------------ MODULE MCMemoria ------------------------------
(* Values for the constants of Memoria. *)
EXTENDS Memoria, TLC

\* With pages of two bytes: a size that is a multiple of the page and one that is not.
Justos == {1, 4}

Simetria == Permutations(Pids)
=============================================================================
