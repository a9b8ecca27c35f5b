--------------------------- MODULE MCPlanificador ---------------------------
(* Values for the constants of Planificador: the programs of the processes. *)
EXTENDS Planificador

Instr(op) == [op |-> op, interfaz |-> SinInterfaz]
IO(i)     == [op |-> "IO", interfaz |-> i]
Programas(s) == [p \in 0 .. Len(s) - 1 |-> s[p + 1]]

\* One process does I/O and ends; the other may run out of memory, in the same round as an
\* interruption too, and asks for an interface that is not connected.
ProgIO == Programas(<< <<IO("gen"), Instr("EXIT")>>,
                       <<Instr("RESIZE"), IO(SinInterfaz), Instr("EXIT")>> >>)

\* Three processes for two places of the degree of multiprogramming; one of them has a loop,
\* and may ask for more memory than there is.
ProgTres == Programas(<< <<IO("gen"), Instr("EXIT")>>,
                         <<IO("gen"), Instr("EXIT")>>,
                         <<Instr("JNZ"), Instr("RESIZE"), Instr("EXIT")>> >>)

\* A process that never ends, and one that does.
ProgAcaparador == Programas(<< <<Instr("BUCLE"), Instr("EXIT")>>,
                               <<Instr("EXIT")>> >>)
=============================================================================
