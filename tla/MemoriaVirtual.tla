--------------------------- MODULE MemoriaVirtual ---------------------------
(***************************************************************************)
(* What memory promises to a program: each process has bytes of its own,   *)
(* numbered from zero, and reads in each the last value that it wrote      *)
(* there.  There are no frames, no page tables and no TLB.                 *)
(***************************************************************************)
EXTENDS Integers, Sequences

CONSTANTS
    Pids,
    Datos,     \* what SET leaves in a register
    Anchos,    \* the widths of the registers
    Largos,    \* the sizes given to COPY_STRING
    Maximo     \* bound: bytes of a process

VARIABLES
    bytes,     \* the bytes of each process
    registro   \* a register of each process

vars == <<bytes, registro>>

Init == bytes = [p \in Pids |-> <<>>] /\ registro = [p \in Pids |-> <<>>]

Caben(p, d, n) == d + n <= Len(bytes[p])
Tramo(p, d, n) == SubSeq(bytes[p], d + 1, d + n)
Pegar(s, d, datos) == [i \in DOMAIN s |-> IF i - d \in DOMAIN datos THEN datos[i - d] ELSE s[i]]

Set(p, datos) == registro' = [registro EXCEPT ![p] = datos] /\ UNCHANGED bytes

MovIn(p, d, n) ==
    /\ Caben(p, d, n)
    /\ registro' = [registro EXCEPT ![p] = Tramo(p, d, n)]
    /\ UNCHANGED bytes

MovOut(p, d) ==
    /\ Caben(p, d, Len(registro[p]))
    /\ bytes' = [bytes EXCEPT ![p] = Pegar(@, d, registro[p])]
    /\ UNCHANGED registro

CopyString(p, si, di, n) ==
    /\ Caben(p, si, n) /\ Caben(p, di, n)
    /\ bytes' = [bytes EXCEPT ![p] = Pegar(@, di, Tramo(p, si, n))]
    /\ UNCHANGED registro

\* RESIZE and EXIT: the bytes that stay keep their values; those added may have any.
Redimensionar(p) ==
    /\ \A q \in Pids \ {p} : bytes'[q] = bytes[q]
    /\ \A i \in DOMAIN bytes[p] \intersect DOMAIN bytes'[p] : bytes'[p][i] = bytes[p][i]
    /\ UNCHANGED registro

Next == \E p \in Pids :
    \/ \E datos \in Datos : Set(p, datos)
    \/ \E d \in 0..Maximo : MovOut(p, d) \/ \E n \in Anchos : MovIn(p, d, n)
    \/ \E si, di \in 0..Maximo, n \in Largos : CopyString(p, si, di, n)
    \/ Redimensionar(p)

Spec == Init /\ [][Next]_vars
=============================================================================
