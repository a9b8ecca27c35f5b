------------------------------- MODULE Memoria -------------------------------
(***************************************************************************)
(* The memory module (memoria/src): the list of processes, their page      *)
(* tables, the bitmap of frames and the frames.  atender_cliente runs in   *)
(* one thread per connection.  The kernel's thread creates and frees       *)
(* processes; the CPU's looks processes up, resizes them and reads and     *)
(* writes frames; the interfaces' read and write the frames of the process *)
(* whose I/O they do.  No lock is taken: a thread's access to the list or  *)
(* to the bitmap is a sequence of steps, and the other threads' steps fall *)
(* in between.                                                             *)
(*                                                                         *)
(* The kernel and the CPU are the environment: each waits for an answer    *)
(* before it asks again, and a process is freed only after it has left     *)
(* the CPU.                                                                *)
(***************************************************************************)
EXTENDS Integers, Sequences, FiniteSets, SequencesExt

CONSTANTS
    Pids,
    CantMarcos,        \* TAM_MEMORIA / TAM_PAGINA
    TamPagina,         \* TAM_PAGINA
    MarcosPorByte,     \* frames that share a byte of marcos_ocupados: 8 in the code
    Tamanios,          \* sizes that RESIZE asks for, in bytes
    Pedidos,           \* bound: requests that the CPU makes for a process
    ConFinalizar,      \* is FINALIZAR_PROCESO used on blocked processes?
    FinDoble           \* may the kernel finalize a process twice, as after RESOURCE_FAIL?

Nadie == "nadie"
Marcos == 0..CantMarcos - 1

ASSUME ConstantesOK ==
    /\ IsFiniteSet(Pids) /\ Nadie \notin Pids
    /\ CantMarcos \in Nat \ {0} /\ TamPagina \in Nat \ {0} /\ MarcosPorByte \in Nat \ {0}
    /\ Tamanios \subseteq Nat
    /\ Pedidos \in Nat
    /\ ConFinalizar \in BOOLEAN /\ FinDoble \in BOOLEAN

VARIABLES
    procesos_en_memoria,   \* list of pids
    tabla_paginas,         \* for each process, the frames of its pages
    marcos_ocupados,       \* frames whose bit is set
    contenido,             \* who wrote last in each frame
    hilo,                  \* the threads of the kernel and of the CPU
    viva,                  \* FALSE once a thread has followed a null or freed pointer
    etapa,                 \* where the kernel has each process
    io,                    \* frames that an interface was told to use for each process
    pedidos,               \* requests left
    escritas,              \* history: pages that each process wrote, and no I/O of a
                           \* finalized process wrote after it
    perdida                \* history: did a write of a byte of the bitmap undo another's?

memoria == <<procesos_en_memoria, tabla_paginas, marcos_ocupados, contenido>>
entorno == <<etapa, io, pedidos>>
vars == <<memoria, hilo, viva, entorno, escritas, perdida>>

Lugares == {"espera", "crear", "buscar", "nulo", "atender", "revisar", "explorar", "marcar",
            "grabar", "quitar", "borrar", "limpiar", "sacar", "acceder", "responder"}
Espera == [en |-> "espera", op |-> "nada", pid |-> Nadie, arg |-> 0, i |-> 0, resta |-> 0,
           marco |-> 0, foto |-> {}]

Hilos == [en : Lugares, op : {"nada", "INSTRUCCION", "ESCRITURA", "LECTURA", "AJUSTAR"},
          pid : Pids \union {Nadie}, arg : Nat, i : Nat, resta : Nat,
          marco : Marcos, foto : SUBSET Marcos]

TypeOK ==
    /\ procesos_en_memoria \in Seq(Pids) /\ IsInjective(procesos_en_memoria)
    /\ tabla_paginas \in [Pids -> Seq(Marcos)]
    /\ marcos_ocupados \subseteq Marcos
    /\ contenido \in [Marcos -> Pids \union {Nadie}]
    /\ hilo \in [{"kernel", "cpu"} -> Hilos]
    /\ viva \in BOOLEAN /\ perdida \in BOOLEAN
    /\ etapa \in [Pids -> {"afuera", "new", "ready", "exec", "io", "exit", "fin"}]
    /\ io \in [Pids -> SUBSET Marcos]
    /\ pedidos \in [Pids -> 0..Pedidos]
    /\ escritas \in [Pids -> SUBSET Nat] /\ \A p \in Pids : escritas[p] \subseteq DOMAIN tabla_paginas[p]

Init ==
    /\ procesos_en_memoria = <<>>
    /\ tabla_paginas = [p \in Pids |-> <<>>]
    /\ marcos_ocupados = {}
    /\ contenido = [f \in Marcos |-> Nadie]
    /\ hilo = [h \in {"kernel", "cpu"} |-> Espera]
    /\ viva = TRUE
    /\ etapa = [p \in Pids |-> "afuera"]
    /\ io = [p \in Pids |-> {}]
    /\ pedidos = [p \in Pids |-> Pedidos]
    /\ escritas = [p \in Pids |-> {}]
    /\ perdida = FALSE

En(h, lugar) == viva /\ hilo[h].en = lugar
Pid(h) == hilo[h].pid
Pasar(h, lugar) == hilo' = [hilo EXCEPT ![h].en = lugar]
Avanzar(h) == hilo' = [hilo EXCEPT ![h].i = @ + 1]
Morir == viva' = FALSE

--------------------------------------------------------------------------------
(* The bitmap.  bitarray_set_bit and bitarray_clean_bit read the byte of the
   frame and write it back with one bit changed. *)

Byte(f) == {g \in Marcos : g \div MarcosPorByte = f \div MarcosPorByte}

LeerByte(h, f, lugar) ==
    hilo' = [hilo EXCEPT ![h].en = lugar, ![h].marco = f, ![h].foto = marcos_ocupados \intersect Byte(f)]

EscribirByte(h, bits) ==
    LET f == hilo[h].marco
    IN  /\ marcos_ocupados' = (marcos_ocupados \ Byte(f)) \union bits
        /\ perdida' = (perdida \/ marcos_ocupados \intersect Byte(f) # hilo[h].foto)

--------------------------------------------------------------------------------
(* The kernel's thread: CREAR_PROCESO and END_PROCESS. *)

PedirCreacion(p) ==
    /\ En("kernel", "espera") /\ etapa[p] = "afuera"
    /\ hilo' = [hilo EXCEPT !["kernel"] = [Espera EXCEPT !.en = "crear", !.pid = p]]
    /\ etapa' = [etapa EXCEPT ![p] = "new"]
    /\ UNCHANGED <<memoria, viva, io, pedidos, escritas, perdida>>

CrearProceso ==
    LET p == Pid("kernel")
    IN  /\ En("kernel", "crear")
        /\ procesos_en_memoria' = Append(procesos_en_memoria, p)
        /\ tabla_paginas' = [tabla_paginas EXCEPT ![p] = <<>>]
        /\ hilo' = [hilo EXCEPT !["kernel"] = Espera]
        /\ etapa' = [etapa EXCEPT ![p] = "ready"]
        /\ UNCHANGED <<marcos_ocupados, contenido, viva, io, pedidos, escritas, perdida>>

\* The kernel's thread is the only one that changes the list: what it looks up stays there.
PedirFin(p) ==
    /\ En("kernel", "espera") /\ etapa[p] = "exit"
    /\ Contains(procesos_en_memoria, p)
    /\ hilo' = [hilo EXCEPT !["kernel"] = [Espera EXCEPT !.en = "borrar", !.pid = p, !.i = 1]]
    /\ UNCHANGED <<memoria, viva, entorno, escritas, perdida>>

\* A second END_PROCESS of a process finds nothing and follows the null pointer.
PedirOtroFin(p) ==
    /\ FinDoble /\ En("kernel", "espera") /\ etapa[p] = "fin"
    /\ ~Contains(procesos_en_memoria, p)
    /\ Morir
    /\ UNCHANGED <<memoria, hilo, entorno, escritas, perdida>>

\* liberar_tabla_paginas: the frames one by one, then the table and the process.
LiberarMarco ==
    LET k == hilo["kernel"] IN
    /\ En("kernel", "borrar") /\ k.i <= Len(tabla_paginas[k.pid])
    /\ LeerByte("kernel", tabla_paginas[k.pid][k.i], "limpiar")
    /\ UNCHANGED <<memoria, viva, entorno, escritas, perdida>>

\* Mutant: the frame is not given back.
LimpiarBitDeFin_SinLimpiar ==
    LET k == hilo["kernel"] IN
    /\ En("kernel", "limpiar")
    /\ EscribirByte("kernel", k.foto)
    /\ hilo' = [hilo EXCEPT !["kernel"].en = "borrar", !["kernel"].i = @ + 1]
    /\ UNCHANGED <<procesos_en_memoria, tabla_paginas, contenido, viva, entorno, escritas>>

LimpiarBitDeFin ==
    LET k == hilo["kernel"] IN
    /\ En("kernel", "limpiar")
    /\ EscribirByte("kernel", k.foto \ {k.marco})
    /\ hilo' = [hilo EXCEPT !["kernel"].en = "borrar", !["kernel"].i = @ + 1]
    /\ UNCHANGED <<procesos_en_memoria, tabla_paginas, contenido, viva, entorno, escritas>>

DestruirProceso ==
    LET k == hilo["kernel"] IN
    /\ En("kernel", "borrar") /\ k.i > Len(tabla_paginas[k.pid])
    /\ tabla_paginas' = [tabla_paginas EXCEPT ![k.pid] = <<>>]
    /\ escritas' = [escritas EXCEPT ![k.pid] = {}]
    /\ Pasar("kernel", "sacar")
    /\ UNCHANGED <<procesos_en_memoria, marcos_ocupados, contenido, viva, entorno, perdida>>

\* liberar_proceso took the position before it freed the process.
PosicionProceso(p) == CHOOSE k \in 1..Len(procesos_en_memoria) : procesos_en_memoria[k] = p

SacarProceso ==
    LET p == Pid("kernel") IN
    /\ En("kernel", "sacar")
    /\ procesos_en_memoria' = RemoveAt(procesos_en_memoria, PosicionProceso(p))
    /\ etapa' = [etapa EXCEPT ![p] = "fin"]
    /\ hilo' = [hilo EXCEPT !["kernel"] = Espera]
    /\ UNCHANGED <<tabla_paginas, marcos_ocupados, contenido, viva, io, pedidos, escritas, perdida>>

--------------------------------------------------------------------------------
(* The kernel and the CPU, as memory sees them. *)

Planificar(p) ==
    /\ viva /\ etapa[p] = "ready" /\ \A q \in Pids : etapa[q] # "exec"
    /\ etapa' = [etapa EXCEPT ![p] = "exec"]
    /\ UNCHANGED <<memoria, hilo, viva, io, pedidos, escritas, perdida>>

\* EXIT, or an error: the process is finalized.
Salir(p) ==
    /\ En("cpu", "espera") /\ etapa[p] = "exec"
    /\ etapa' = [etapa EXCEPT ![p] = "exit"]
    /\ UNCHANGED <<memoria, hilo, viva, io, pedidos, escritas, perdida>>

Descontar(p) == pedidos[p] > 0 /\ pedidos' = [pedidos EXCEPT ![p] = @ - 1]

\* IO_STDIN_READ, IO_FS_READ...: the CPU has translated the pages and sends their addresses.
PedirIO(p) ==
    /\ En("cpu", "espera") /\ etapa[p] = "exec" /\ tabla_paginas[p] # <<>>
    /\ Descontar(p)
    /\ etapa' = [etapa EXCEPT ![p] = "io"]
    /\ io' = [io EXCEPT ![p] = ToSet(tabla_paginas[p])]
    /\ UNCHANGED <<memoria, hilo, viva, escritas, perdida>>

\* ESCRITURA_MEMORIA from an interface's thread.  What it writes for a process that was
\* finalized meanwhile goes to a frame that may be another's.
EscribirIO(p, f) ==
    /\ viva /\ f \in io[p]
    /\ contenido' = [contenido EXCEPT ![f] = p]
    /\ io' = [io EXCEPT ![p] = @ \ {f}]
    /\ etapa' = IF io'[p] = {} /\ etapa[p] = "io" THEN [etapa EXCEPT ![p] = "ready"] ELSE etapa
    /\ escritas' = IF etapa[p] = "io" THEN escritas
                   ELSE [q \in Pids |-> {k \in escritas[q] : tabla_paginas[q][k] # f}]
    /\ UNCHANGED <<procesos_en_memoria, tabla_paginas, marcos_ocupados, hilo, viva, pedidos, perdida>>

\* FINALIZAR_PROCESO of a process whose I/O an interface is doing.
FinalizarBloqueado(p) ==
    /\ ConFinalizar /\ viva /\ etapa[p] = "io"
    /\ etapa' = [etapa EXCEPT ![p] = "exit"]
    /\ UNCHANGED <<memoria, hilo, viva, io, pedidos, escritas, perdida>>

\* The CPU asks for an instruction, a frame to read or write, or a new size.
Pedir(p, op, arg) ==
    /\ En("cpu", "espera") /\ etapa[p] = "exec"
    /\ Descontar(p)
    /\ hilo' = [hilo EXCEPT !["cpu"] = [Espera EXCEPT !.en = "buscar", !.op = op, !.pid = p,
                                                      !.arg = arg, !.i = 1]]
    /\ UNCHANGED <<memoria, viva, etapa, io, escritas, perdida>>

PedirInstruccion(p) == Pedir(p, "INSTRUCCION", 0)
PedirAcceso(p) == \E op \in {"ESCRITURA", "LECTURA"}, k \in DOMAIN tabla_paginas[p] : Pedir(p, op, k)
PedirAjuste(p) == \E n \in Tamanios : Pedir(p, "AJUSTAR", n)

--------------------------------------------------------------------------------
(* The CPU's thread. *)

\* buscar_proceso_por_pid and buscar_instruccion walk the list by index.
Terminada == hilo["cpu"].i > Len(procesos_en_memoria)

BuscarSiguiente ==
    /\ En("cpu", "buscar") /\ ~Terminada
    /\ IF procesos_en_memoria[hilo["cpu"].i] = Pid("cpu") THEN Pasar("cpu", "atender") ELSE Avanzar("cpu")
    /\ UNCHANGED <<memoria, viva, entorno, escritas, perdida>>

\* The element may belong to a process that the kernel's thread has freed and not yet
\* taken off: what is read as its pid may be anything, the pid wanted included.
BuscarEnLiberado ==
    /\ En("cpu", "buscar") /\ ~Terminada
    /\ En("kernel", "sacar") /\ procesos_en_memoria[hilo["cpu"].i] = Pid("kernel")
    /\ Morir
    /\ UNCHANGED <<memoria, hilo, entorno, escritas, perdida>>

NoEncontrar ==
    /\ En("cpu", "buscar") /\ Terminada
    /\ Pasar("cpu", "nulo")
    /\ UNCHANGED <<memoria, viva, entorno, escritas, perdida>>

\* The result is used without a check (in buscar_instruccion, after one of a variable that
\* was never given a value).
UsarNulo ==
    /\ En("cpu", "nulo") /\ Morir
    /\ UNCHANGED <<memoria, hilo, entorno, escritas, perdida>>

AtenderInstruccion ==
    /\ En("cpu", "atender") /\ hilo["cpu"].op = "INSTRUCCION"
    /\ Pasar("cpu", "responder")
    /\ UNCHANGED <<memoria, viva, entorno, escritas, perdida>>

\* ACCESO_TABLA_PAGINAS; the CPU then asks for the frame by its address.
AtenderAcceso ==
    LET c == hilo["cpu"] IN
    /\ En("cpu", "atender") /\ c.op \in {"ESCRITURA", "LECTURA"}
    /\ hilo' = [hilo EXCEPT !["cpu"].en = "acceder", !["cpu"].marco = tabla_paginas[c.pid][c.arg]]
    /\ UNCHANGED <<memoria, viva, entorno, escritas, perdida>>

Escribir ==
    LET c == hilo["cpu"] IN
    /\ En("cpu", "acceder") /\ c.op = "ESCRITURA"
    /\ contenido' = [contenido EXCEPT ![c.marco] = c.pid]
    /\ escritas' = [escritas EXCEPT ![c.pid] = @ \union {c.arg}]
    /\ Pasar("cpu", "responder")
    /\ UNCHANGED <<procesos_en_memoria, tabla_paginas, marcos_ocupados, viva, entorno, perdida>>

Leer ==
    /\ En("cpu", "acceder") /\ hilo["cpu"].op = "LECTURA"
    /\ Pasar("cpu", "responder")
    /\ UNCHANGED <<memoria, viva, entorno, escritas, perdida>>

--------------------------------------------------------------------------------
(* AJUSTAR_TAMANIO_PROCESO. *)

Techo(a, b) == (a + b - 1) \div b
TamActual(p) == Len(tabla_paginas[p]) * TamPagina
\* Mutant: rounded up, as when the process grows.
PaginasAEliminar_PorExceso(p, n) == Techo(TamActual(p) - n, TamPagina)

PaginasAEliminar(p, n) == (TamActual(p) - n) \div TamPagina

Ajustar ==
    LET c == hilo["cpu"]
        actual == TamActual(c.pid)
        seguir(lugar, resta) == hilo' = [hilo EXCEPT !["cpu"].en = lugar, !["cpu"].i = 0, !["cpu"].resta = resta]
    IN  /\ En("cpu", "atender") /\ c.op = "AJUSTAR"
        /\ \/ c.arg > actual /\ seguir("revisar", Techo(c.arg - actual, TamPagina))
           \/ c.arg < actual /\ seguir("quitar", PaginasAEliminar(c.pid, c.arg))
           \/ c.arg = actual /\ seguir("responder", 0)
        /\ UNCHANGED <<memoria, viva, entorno, escritas, perdida>>

\* Mutant: the search goes one frame too far.
Explorar_UnoMas(lugar, alEncontrar, alFallar) ==
    LET c == hilo["cpu"] IN
    /\ En("cpu", lugar)
    /\ \/ c.i = CantMarcos + 1 /\ alFallar
       \/ c.i \in (0..CantMarcos) \ marcos_ocupados /\ alEncontrar
       \/ c.i \in marcos_ocupados /\ Avanzar("cpu") /\ UNCHANGED <<viva, etapa>>
    /\ UNCHANGED <<memoria, io, pedidos, escritas, perdida>>

\* obtener_primer_marco_libre, called twice: to see if there is one, and to take it.
Explorar(lugar, alEncontrar, alFallar) ==
    LET c == hilo["cpu"] IN
    /\ En("cpu", lugar)
    /\ \/ c.i = CantMarcos /\ alFallar
       \/ c.i \in Marcos \ marcos_ocupados /\ alEncontrar
       \/ c.i \in marcos_ocupados /\ Avanzar("cpu") /\ UNCHANGED <<viva, etapa>>
    /\ UNCHANGED <<memoria, io, pedidos, escritas, perdida>>

\* The pages already added stay in the table; the CPU sends the process to EXIT.
QuedaSinMemoria ==
    /\ hilo' = [hilo EXCEPT !["cpu"] = Espera]
    /\ etapa' = [etapa EXCEPT ![Pid("cpu")] = "exit"]
    /\ UNCHANGED viva

RevisarMarcos ==
    Explorar("revisar",
             hilo' = [hilo EXCEPT !["cpu"].en = "explorar", !["cpu"].i = 0] /\ UNCHANGED <<viva, etapa>>,
             QuedaSinMemoria)

\* Without a frame, inicializar_pagina sets the bit of frame -1.
TomarMarco ==
    Explorar("explorar",
             hilo' = [hilo EXCEPT !["cpu"].en = "marcar", !["cpu"].marco = hilo["cpu"].i]
                 /\ UNCHANGED <<viva, etapa>>,
             Morir /\ UNCHANGED <<hilo, etapa>>)

MarcarMarco ==
    /\ En("cpu", "marcar")
    /\ LeerByte("cpu", hilo["cpu"].marco, "grabar")
    /\ UNCHANGED <<memoria, viva, entorno, escritas, perdida>>

\* Mutant: the bit of the frame is not set.
AgregarPagina_SinMarcar ==
    LET c == hilo["cpu"] IN
    /\ En("cpu", "grabar")
    /\ EscribirByte("cpu", c.foto)
    /\ tabla_paginas' = [tabla_paginas EXCEPT ![c.pid] = Append(@, c.marco)]
    /\ hilo' = [hilo EXCEPT !["cpu"].en = IF c.resta = 1 THEN "responder" ELSE "revisar",
                            !["cpu"].i = 0, !["cpu"].resta = @ - 1]
    /\ UNCHANGED <<procesos_en_memoria, contenido, viva, entorno, escritas>>

AgregarPagina ==
    LET c == hilo["cpu"] IN
    /\ En("cpu", "grabar")
    /\ EscribirByte("cpu", c.foto \union {c.marco})
    /\ tabla_paginas' = [tabla_paginas EXCEPT ![c.pid] = Append(@, c.marco)]
    /\ hilo' = [hilo EXCEPT !["cpu"].en = IF c.resta = 1 THEN "responder" ELSE "revisar",
                            !["cpu"].i = 0, !["cpu"].resta = @ - 1]
    /\ UNCHANGED <<procesos_en_memoria, contenido, viva, entorno, escritas>>

QuitarPagina ==
    LET c == hilo["cpu"]
        t == tabla_paginas[c.pid]
    IN  /\ En("cpu", "quitar") /\ c.resta > 0
        /\ tabla_paginas' = [tabla_paginas EXCEPT ![c.pid] = Front(@)]
        /\ escritas' = [escritas EXCEPT ![c.pid] = @ \ {Len(t)}]
        /\ LeerByte("cpu", Last(t), "limpiar")
        /\ UNCHANGED <<procesos_en_memoria, marcos_ocupados, contenido, viva, entorno, perdida>>

LimpiarBitDePagina ==
    LET c == hilo["cpu"] IN
    /\ En("cpu", "limpiar")
    /\ EscribirByte("cpu", c.foto \ {c.marco})
    /\ hilo' = [hilo EXCEPT !["cpu"].en = "quitar", !["cpu"].resta = @ - 1]
    /\ UNCHANGED <<procesos_en_memoria, tabla_paginas, contenido, viva, entorno, escritas>>

TerminarDeQuitar ==
    /\ En("cpu", "quitar") /\ hilo["cpu"].resta = 0
    /\ Pasar("cpu", "responder")
    /\ UNCHANGED <<memoria, viva, entorno, escritas, perdida>>

Responder ==
    /\ En("cpu", "responder")
    /\ hilo' = [hilo EXCEPT !["cpu"] = Espera]
    /\ UNCHANGED <<memoria, viva, entorno, escritas, perdida>>

--------------------------------------------------------------------------------

HiloKernel == CrearProceso \/ LiberarMarco \/ LimpiarBitDeFin \/ DestruirProceso \/ SacarProceso

HiloCpu ==
    \/ BuscarSiguiente \/ BuscarEnLiberado \/ NoEncontrar \/ UsarNulo
    \/ AtenderInstruccion \/ AtenderAcceso \/ Escribir \/ Leer
    \/ Ajustar \/ RevisarMarcos \/ TomarMarco \/ MarcarMarco \/ AgregarPagina
    \/ QuitarPagina \/ LimpiarBitDePagina \/ TerminarDeQuitar \/ Responder

Interfaces == \E p \in Pids, f \in Marcos : EscribirIO(p, f)

Kernel == \E p \in Pids : PedirCreacion(p) \/ PedirFin(p) \/ Planificar(p) \/ FinalizarBloqueado(p)

Cpu == \E p \in Pids :
    Salir(p) \/ PedirIO(p) \/ PedirInstruccion(p) \/ PedirAcceso(p) \/ PedirAjuste(p)

OtroFin == \E p \in Pids : PedirOtroFin(p)

Next == HiloKernel \/ HiloCpu \/ Interfaces \/ Kernel \/ OtroFin \/ Cpu

Spec == Init /\ [][Next]_vars

\* The threads are scheduled by the operating system.  The kernel ends what it has started,
\* and need not end it twice; no more than Pedidos requests are made for a process, after
\* which it leaves.
FairSpec ==
    /\ Spec
    /\ WF_vars(HiloKernel) /\ WF_vars(HiloCpu) /\ WF_vars(Interfaces)
    /\ WF_vars(Kernel) /\ WF_vars(Cpu)

--------------------------------------------------------------------------------
(* Properties. *)

\* Frames that a page uses, without those that END_PROCESS has already given back.
Devueltos == IF hilo["kernel"].en \in {"borrar", "limpiar"} THEN hilo["kernel"].i - 1 ELSE 0
Vigentes(p) == IF p = Pid("kernel") THEN Devueltos + 1..Len(tabla_paginas[p]) ELSE DOMAIN tabla_paginas[p]
EnUso == UNION {{tabla_paginas[p][k] : k \in Vigentes(p)} : p \in Pids}

\* No frame belongs to two pages, of one process or of two: a thread that frees frames while
\* another looks for them (liberar_tabla_paginas, obtener_primer_marco_libre) never makes it
\* hand out one in use, as long as no write of a byte of the bitmap undid another's.
MarcosExclusivos ==
    ~perdida => \A p, q \in Pids : \A j \in Vigentes(p), k \in Vigentes(q) :
        tabla_paginas[p][j] = tabla_paginas[q][k] => p = q /\ j = k

\* With the same proviso, the bitmap says which frames are in use: a RESIZE that runs out of
\* memory half way leaves its pages where END_PROCESS finds them, and no frame leaks.
BitmapExacto ==
    ~perdida => marcos_ocupados = EnUso \union
        (IF hilo["cpu"].en = "limpiar" THEN {hilo["cpu"].marco} ELSE {})

\* Each frame in use is in one page and the bitmap says so, and no other.
MarcosJustos == MarcosExclusivos /\ BitmapExacto

\* A RESIZE answered with OK leaves the least number of pages that hold the size asked for,
\* whether it grew (pages rounded up) or shrank (pages to remove, rounded down).
TamanioJusto ==
    LET c == hilo["cpu"] IN
    c.op = "AJUSTAR" /\ c.en = "responder" => Len(tabla_paginas[c.pid]) = Techo(c.arg, TamPagina)

\* What a process wrote in a page is there until the process is resized or ends: the CPU's
\* writes and those of an I/O in progress go to frames of the process they are for, but for
\* an I/O that goes on after FINALIZAR_PROCESO.
ContenidoPropio ==
    ~perdida => \A p \in Pids : \A k \in escritas[p] \intersect Vigentes(p) :
        contenido[tabla_paginas[p][k]] = p

\* Every process ends with all its frames free, unless a lookup failed or a write of the
\* bitmap was lost.
TodoSeDevuelve ==
    <>(\/ ~viva \/ perdida
       \/ marcos_ocupados = {} /\ \A p \in Pids : etapa[p] = "fin")

\* mem.c:30, "Funcion para obtener el primer marco libre": the frame that RESIZE takes is
\* not in use by a page.
MarcoLibre == hilo["cpu"].en = "marcar" => hilo["cpu"].marco \notin EnUso
=============================================================================
