-------------------------------- MODULE MCMmu --------------------------------
(* Values for the constants of Mmu. *)
EXTENDS Mmu, TLC

\* One register of one byte, one of four: bytes that can be told apart.
Registros == {<<1>>, <<2, 3, 4, 5>>}
\* No TLB, and one that holds less than the pages of an access.
ConfigsTlb == {<<0, "LRU">>, <<2, "FIFO">>, <<2, "LRU">>}
=============================================================================
