----------------------------- MODULE MCRecursos -----------------------------
(* Values for the constants of Recursos: the programs of the processes. *)
EXTENDS Recursos, TLC

Wait(r)   == [op |-> "WAIT", recurso |-> r]
Signal(r) == [op |-> "SIGNAL", recurso |-> r]
Instr(op) == [op |-> op, recurso |-> Inexistente]

Una == [r \in Recursos |-> 1]

\* A resource that two processes always give back, and one that two take with them to the end.
ProgSeccion == "p1" :> <<Wait("RA"), Instr("IO"), Signal("RA"), Wait("RA"), Signal("RA"), Instr("EXIT")>>
            @@ "p2" :> <<Wait("RA"), Instr("IO"), Signal("RA"), Wait("RB"), Instr("EXIT")>>
            @@ "p3" :> <<Wait("RB"), Instr("IO"), Instr("EXIT")>>

\* Two resources, processes that end without giving back what they have, and two that ask
\* for resources that do not exist, one of them with an instance in its hands.
ProgMezcla == "p1" :> <<Wait("RA"), Wait("RB"), Signal(Inexistente), Instr("EXIT")>>
           @@ "p2" :> <<Wait("RA"), Instr("EXIT")>>
           @@ "p3" :> <<Wait("RB"), Wait(Inexistente), Instr("EXIT")>>

\* Resources taken in two orders, one given back only at the end, and a resource that does not exist.
ProgFalta == "p1" :> <<Wait("RA"), Wait("RB"), Signal("RA"), Instr("EXIT")>>
          @@ "p2" :> <<Wait("RB"), Wait("RA"), Signal("RA"), Instr("IO"), Wait(Inexistente), Instr("EXIT")>>
          @@ "p3" :> <<Wait("RA"), Instr("IO"), Signal("RA"), Wait("RB"), Instr("EXIT")>>

\* FIFO, FIFO and RR.
Todas == {[programa |-> ProgSeccion, quantum |-> FALSE], [programa |-> ProgFalta, quantum |-> FALSE],
          [programa |-> ProgMezcla, quantum |-> TRUE]}
=============================================================================
