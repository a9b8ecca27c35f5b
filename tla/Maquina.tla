------------------------------ MODULE Maquina ------------------------------
(***************************************************************************)
(* What the CPU, the kernel and the interfaces promise to each process: it *)
(* executes its program one instruction after another on registers nobody  *)
(* else touches, and an interface does what its I/O instruction said with  *)
(* the values its registers had.  Who runs and for how long is left open.  *)
(* Module Ejecucion implements it with one register file, interruptions    *)
(* and messages.                                                           *)
(***************************************************************************)
EXTENDS Integers, Sequences

CONSTANTS
    Pids,
    Cargas,      \* what the processes may be given to execute: a program for each one
    Ancho8,      \* how many values a register of 8 bits has
    Ancho32,     \* how many values a register of 32 bits has
    Atoi,        \* the number that a parameter spells, in 32 bits; 0 if it is not a number
    Traduccion,  \* Traduccion[p, dl, n]: the pieces of frames of n bytes from dl on
    Conexiones   \* the type of the interface connected with each name

VARIABLES
    programa,    \* programa[p]: the instructions of p, each with its op and its params
    reg,         \* the registers of each process, PC among them
    pidiendo,    \* processes that wait for an interface
    vivos,       \* processes that have not ended
    obra         \* obra[p]: what an interface did last for p

vars == <<programa, reg, pidiendo, vivos, obra>>

Cortos == {"AX", "BX", "CX", "DX"}
Largos == {"EAX", "EBX", "ECX", "EDX", "SI", "DI", "PC"}
Registros == Cortos \union Largos
Ancho(r) == IF r \in Cortos THEN Ancho8 ELSE Ancho32

\* What a name that is no register reads as.
Valor(r, n) == IF n \in Registros THEN r[n] ELSE Ancho32 - 1

Calculos == {"SET", "SUM", "SUB", "JNZ"}
Ficheros == {"IO_FS_CREATE", "IO_FS_DELETE", "IO_FS_TRUNCATE", "IO_FS_WRITE", "IO_FS_READ"}

\* The operations that each type of interface performs.
Oficio(tipo) ==
    CASE tipo = "GENERICA" -> {"IO_GEN_SLEEP"}
      [] tipo = "STDIN" -> {"IO_STDIN_READ"}
      [] tipo = "STDOUT" -> {"IO_STDOUT_WRITE"}
      [] tipo = "DIALFS" -> Ficheros

Servible(ins) ==
    /\ ins.params[1] \in DOMAIN Conexiones
    /\ ins.op \in Oficio(Conexiones[ins.params[1]])

Instruccion(p) == programa[p][reg[p]["PC"] + 1]
EnVuelo(p) == programa[p][reg[p]["PC"]]

\* The registers when the instruction starts: PC already tells the next one.
Avanzados(p) == [reg[p] EXCEPT !["PC"] = (@ + 1) % Ancho32]

Resultado(ins, r) ==
    LET d == ins.params[1]  o == ins.params[2] IN
    CASE ins.op = "SET" -> [r EXCEPT ![d] = Atoi[o] % Ancho(d)]
      [] ins.op = "SUM" -> [r EXCEPT ![d] = (@ + Valor(r, o)) % Ancho(d)]
      [] ins.op = "SUB" -> [r EXCEPT ![d] = (@ - Valor(r, o)) % Ancho(d)]
      [] ins.op = "JNZ" -> IF d \in Registros \ {"SI", "DI"} /\ r[d] # 0
                           THEN [r EXCEPT !["PC"] = Atoi[o]] ELSE r

\* What the interface does for an instruction of p whose registers are r.  STDOUT shows
\* one byte more than the program says.
Encargo(p, ins, r) ==
    LET v(i) == Valor(r, ins.params[i])
        pedazos(dl, n) == Traduccion[p, dl, n]
    IN
    CASE ins.op = "IO_GEN_SLEEP" -> [op |-> ins.op, unidad |-> Atoi[ins.params[2]]]
      [] ins.op = "IO_STDIN_READ" ->
            [op |-> ins.op, tamanio |-> v(3), direcciones |-> pedazos(v(2), v(3))]
      [] ins.op = "IO_STDOUT_WRITE" ->
            LET n == (v(3) + 1) % Ancho32
            IN  [op |-> ins.op, tamanio |-> n, direcciones |-> pedazos(v(2), n)]
      [] ins.op \in {"IO_FS_CREATE", "IO_FS_DELETE"} -> [op |-> ins.op, nombre |-> ins.params[2]]
      [] ins.op = "IO_FS_TRUNCATE" ->
            [op |-> ins.op, nombre |-> ins.params[2], tamanio |-> v(3)]
      [] ins.op \in {"IO_FS_WRITE", "IO_FS_READ"} ->
            [op |-> ins.op, nombre |-> ins.params[2], tamanio |-> v(4),
             direcciones |-> pedazos(v(3), v(4)), puntero |-> v(5)]

Init ==
    /\ programa \in Cargas
    /\ reg = [p \in Pids |-> [r \in Registros |-> 0]]
    /\ pidiendo = {}
    /\ vivos = Pids
    /\ obra = [p \in Pids |-> [op |-> "NADA"]]

Libre(p) == p \in vivos /\ p \notin pidiendo

Calcular(p) ==
    /\ Libre(p) /\ Instruccion(p).op \in Calculos
    /\ reg' = [reg EXCEPT ![p] = Resultado(Instruccion(p), Avanzados(p))]
    /\ UNCHANGED <<programa, pidiendo, vivos, obra>>

Pedir(p) ==
    /\ Libre(p) /\ Instruccion(p).op \notin Calculos \union {"EXIT"}
    /\ reg' = [reg EXCEPT ![p] = Avanzados(p)]
    /\ pidiendo' = pidiendo \union {p}
    /\ UNCHANGED <<programa, vivos, obra>>

Servir(p) ==
    /\ p \in pidiendo /\ Servible(EnVuelo(p))
    /\ obra' = [obra EXCEPT ![p] = Encargo(p, EnVuelo(p), reg[p])]
    /\ pidiendo' = pidiendo \ {p}
    /\ UNCHANGED <<programa, reg, vivos>>

\* No interface with that name, or one of another type: the process is ended.
Rechazar(p) ==
    /\ p \in pidiendo /\ ~Servible(EnVuelo(p))
    /\ pidiendo' = pidiendo \ {p}
    /\ vivos' = vivos \ {p}
    /\ UNCHANGED <<programa, reg, obra>>

Salir(p) ==
    /\ Libre(p) /\ Instruccion(p).op = "EXIT"
    /\ reg' = [reg EXCEPT ![p] = Avanzados(p)]
    /\ vivos' = vivos \ {p}
    /\ UNCHANGED <<programa, pidiendo, obra>>

Next == \E p \in Pids :
    Calcular(p) \/ Pedir(p) \/ Servir(p) \/ Rechazar(p) \/ Salir(p)

Spec == Init /\ [][Next]_vars
=============================================================================
