---------------------------- MODULE CicloDeVida ----------------------------
(***************************************************************************)
(* The life cycle that the kernel promises to every process: the estados   *)
(* of utils.h, the moves between them that the kernel logs with            *)
(* logear_cambio_estado, at most one process in EXEC (there is one CPU)    *)
(* and at most Grado processes admitted at a time (GRADO_MULTIPROGRAMACION *)
(* of the configuration).  It says nothing of queues, semaphores, threads  *)
(* or messages: Planificador implements it.                                *)
(***************************************************************************)
EXTENDS Integers, FiniteSets

CONSTANTS Pids,  \* identifiers of processes
          Grado  \* grado_multiprogramacion

VARIABLE estado  \* estado[p]: estado_actual of the PCB of p

\* SIN_CREAR and DESTRUIDO bracket the life of the PCB: before crear_pcb and
\* after destruir_pcb; the rest are the values of the enum `estados`.
Estados == {"SIN_CREAR", "NEW", "READY", "EXEC", "BLOCKED", "TERMINATED", "DESTRUIDO"}

Admitidos == {p \in Pids : estado[p] \in {"READY", "EXEC", "BLOCKED", "TERMINATED"}}

Mover(p, desde, hacia) ==
    /\ estado[p] = desde
    /\ estado' = [estado EXCEPT ![p] = hacia]

Init == estado = [p \in Pids |-> "SIN_CREAR"]

Crear(p)     == Mover(p, "SIN_CREAR", "NEW")
Admitir(p)   == Cardinality(Admitidos) < Grado /\ Mover(p, "NEW", "READY")
Despachar(p) == (\A q \in Pids : estado[q] # "EXEC") /\ Mover(p, "READY", "EXEC")
Desalojar(p) == Mover(p, "EXEC", "READY")
Bloquear(p)  == Mover(p, "EXEC", "BLOCKED")
Despertar(p) == Mover(p, "BLOCKED", "READY")
Terminar(p)  == Mover(p, "EXEC", "TERMINATED")
Eliminar(p)  == Mover(p, "TERMINATED", "DESTRUIDO")

Next == \E p \in Pids :
            \/ Crear(p) \/ Admitir(p) \/ Despachar(p) \/ Desalojar(p)
            \/ Bloquear(p) \/ Despertar(p) \/ Terminar(p) \/ Eliminar(p)

Spec == Init /\ [][Next]_estado
=============================================================================
