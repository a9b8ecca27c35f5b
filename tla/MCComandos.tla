----------------------------- MODULE MCComandos -----------------------------
(* Values for the constants of Comandos: the programs of the processes. *)
EXTENDS Comandos

Instr(op) == [op |-> op, interfaz |-> SinInterfaz]

\* Each process does one I/O.
ProgramasFin == [p \in 0 .. 1 |->
    <<[op |-> "IO", interfaz |-> "gen"], Instr("EXIT")>>]
=============================================================================
