---------------------------- MODULE Planificador ----------------------------
(***************************************************************************)
(* The scheduling core of the kernel and the part of the CPU it talks to:  *)
(* one thread per thread of the source (consola, creacion_de_procesos,     *)
(* iniciar_planificador_corto_plazo, verificar_quantum, recibir_dispatch,  *)
(* eliminacion_de_procesos, one atender_interfaz per interface, the CPU's  *)
(* dispatch server and its interrupt server), the queues and semaphores    *)
(* they share and the three sockets between kernel and CPU.                *)
(*                                                                         *)
(* A step goes from one operation that can block, or that another thread   *)
(* can see, to the next.  Sockets are FIFO sequences.  The library's list  *)
(* operations are atomic.  The milliseconds of a quantum are abstracted:   *)
(* its timer may run out at any moment, and whether a process has quantum  *)
(* left when its I/O ends is a free choice.                                *)
(*                                                                         *)
(* Outside this module: FINALIZAR_PROCESO and MULTIPROGRAMACION of the     *)
(* console, WAIT and SIGNAL, and the failure of the memory connection.     *)
(***************************************************************************)
EXTENDS Integers, Sequences, FiniteSets, SequencesExt

CONSTANTS
    MaxPids,          \* how many INICIAR_PROCESO the console receives
    Interfaces,       \* names of the interfaces that connect to the kernel
    Conectadas,       \* those connected before the first command is typed
    Programa,         \* Programa[p]: the instructions of process p
    Grado,            \* GRADO_MULTIPROGRAMACION of the configuration
    Algoritmo,        \* ALGORITMO_PLANIFICACION: "FIFO", "RR" or "VRR"
    ResultadosIO,     \* answers an interface may give to EJECUTAR_IO
    MaxDetenciones,   \* bound: how many DETENER_PLANIFICACION are typed
    MaxArranques,     \* bound on the value of arrancar_quantum
    MaxInterrupciones \* bound on the interruptions on their way to the CPU

Pids == 0 .. MaxPids - 1
Nadie == -1                  \* NULL, and the index -1 of tener_index_pid
SinInterfaz == "ninguna"     \* an interface that is not connected, or no interface

HilosKernel == {"consola", "creacion", "corto", "quantum", "dispatch", "eliminacion"}
Hilos == HilosKernel \union Interfaces

Instrucciones ==
    [op : {"CPU", "JNZ", "BUCLE", "RESIZE", "EXIT"}, interfaz : {SinInterfaz}]
        \union [op : {"IO"}, interfaz : Interfaces \union {SinInterfaz}]

ASSUME ConstantesOK ==
    /\ MaxPids \in Nat /\ Grado \in Nat \ {0} /\ MaxDetenciones \in Nat
    /\ MaxArranques \in Nat \ {0} /\ MaxInterrupciones \in Nat \ {0}
    /\ IsFiniteSet(Interfaces) /\ Interfaces \intersect HilosKernel = {}
    /\ SinInterfaz \notin Interfaces /\ Conectadas \subseteq Interfaces
    /\ Programa \in [Pids -> Seq(Instrucciones)]
    /\ Algoritmo \in {"FIFO", "RR", "VRR"}
    /\ ResultadosIO \subseteq {"IO_SUCCESS", "CERRAR_IO"}

\* A program ends in EXIT, as the scripts the memory module loads do.
ASSUME ProgramasTerminados ==
    \A p \in Pids : Programa[p] # <<>> /\ Programa[p][Len(Programa[p])].op = "EXIT"

VARIABLES
    sem,                    \* the semaphores of kernel.h
    cola,                   \* cola_procesos_new, _ready, ready_plus, lista_procesos_blocked, _exit
    procesos_en_sistema,    \* list of the processes the kernel knows
    estado,                 \* estado_actual of each PCB
    pc,                     \* the program counter in each PCB
    hilo,                   \* where each thread is and the PCB it has in hand
    mensaje,                \* what recibir_dispatch is attending to
    indice,                 \* index held by eliminacion_de_procesos
    cola_io,                \* colas_blocks_io: the pids queued on each interface
    instruccion_en_cola,    \* diccionario_semaforos_io: one pair of semaphores for each
    binario_io_libre,       \* interface
    flag_cpu_libre,
    pcb_en_ejecucion,
    colgante,               \* pcb_en_ejecucion points to freed memory
    planificacion_detenida,
    contador_pid,
    detenciones,            \* DETENER_PLANIFICACION typed so far
    a_cpu,                  \* sockets: PCBs on their way to the CPU,
    a_kernel,               \* evicted PCBs on their way back,
    interrupt,              \* interruptions on their way to the CPU
    cpu,                    \* the CPU's dispatch server and the PCB it has
    flags,                  \* of the CPU: which of them are up
    interrupcion_recibida,
    kernel_vivo             \* FALSE once the kernel has used a missing PCB

sistema == <<procesos_en_sistema, indice>>
sem_io  == <<instruccion_en_cola, binario_io_libre>>
io      == <<cola_io, sem_io>>
canal   == <<a_cpu, a_kernel, interrupt>>
reloj   == <<flag_cpu_libre, pcb_en_ejecucion, colgante>>
control == <<planificacion_detenida, contador_pid, detenciones>>
cpuVars == <<pc, cpu, flags, interrupcion_recibida>>
resto   == <<sistema, mensaje, io, reloj, control, cpuVars, canal, kernel_vivo>>
kernelVars == <<sem, cola, hilo, sistema, mensaje, io, reloj, control>>
vars    == <<kernelVars, cpuVars, estado, canal, kernel_vivo>>

Semaforos == {"hay_proceso_nuevo", "grado_multi", "hay_proceso_a_ready", "cpu_libre",
              "hay_proceso_exit", "arrancar_quantum"}
Permisos == {"podes_crear_procesos", "podes_eliminar_procesos", "podes_planificar_corto_plazo",
             "podes_manejar_desalojo", "podes_manejar_recepcion_de_interfaces"}
Colas == {"new", "ready", "plus", "blocked", "exit"}

\* The operation each thread starts at.
Inicio == [consola |-> "comando", creacion |-> "hay_nuevo", corto |-> "hay_ready",
           quantum |-> "arrancar", dispatch |-> "recibir", eliminacion |-> "hay_exit"]

Init ==
    /\ sem = [s \in Semaforos \union Permisos |->
                 IF s = "cpu_libre" THEN 1 ELSE IF s = "grado_multi" THEN Grado ELSE 0]
    /\ cola = [c \in Colas |-> <<>>]
    /\ procesos_en_sistema = <<>>
    /\ estado = [p \in Pids |-> "SIN_CREAR"]
    /\ pc = [p \in Pids |-> 1]
    /\ hilo = [h \in Hilos |->
                 [en |-> IF h \in HilosKernel THEN Inicio[h]
                         ELSE IF h \in Conectadas THEN "instruccion" ELSE "sin_conectar",
                  pcb |-> Nadie]]
    /\ mensaje = [motivo |-> "FIN_CLOCK", pid |-> Nadie, interfaz |-> SinInterfaz]
    /\ indice = Nadie
    /\ cola_io = [i \in Interfaces |-> <<>>]
    /\ instruccion_en_cola = [i \in Interfaces |-> 0]
    /\ binario_io_libre = [i \in Interfaces |-> 1]
    /\ flag_cpu_libre = 0
    /\ pcb_en_ejecucion = Nadie
    /\ colgante = FALSE
    /\ planificacion_detenida = FALSE
    /\ contador_pid = 0
    /\ detenciones = 0
    /\ a_cpu = <<>> /\ a_kernel = <<>> /\ interrupt = <<>>
    /\ cpu = [en |-> "libre", pid |-> Nadie]
    /\ flags = {}
    /\ interrupcion_recibida = [motivo |-> "FIN_CLOCK", pid |-> Nadie]
    /\ kernel_vivo = TRUE

-----------------------------------------------------------------------------
(* Semaphores, threads and locks *)

Con(s)  == [sem EXCEPT ![s] = @ + 1]           \* after sem_post(s)
Sin(s)  == [sem EXCEPT ![s] = @ - 1]           \* after sem_wait(s)
\* Mutant: sem_trywait whose result nobody looks at.
Esperar_SinBloquear(s) == sem' = Sin(s)

Esperar(s) == sem[s] > 0 /\ sem' = Sin(s)      \* sem_wait(s)
Postear(s) == sem' = Con(s)                    \* sem_post(s)

En(h, l) == hilo[h].en = l
Ir(h, l) == hilo' = [hilo EXCEPT ![h] = [en |-> l, pcb |-> @.pcb]]
IrCon(h, l, p) == hilo' = [hilo EXCEPT ![h] = [en |-> l, pcb |-> p]]

\* Is the queue's mutex held?  Its holder is the thread inside its critical section.
MutexTomado(c) ==
    \/ c = "new" /\ En("creacion", "pop_new")
    \/ c = "ready" /\ \E h \in Hilos : hilo[h].en \in {"listando_ready", "pop_ready"}
    \/ c = "plus" /\ \E h \in Hilos : hilo[h].en \in {"listando_plus", "mirar_plus", "pop_plus"}

\* Mutant: planificacion_detenida is not looked at.
Puerta_Abierta(l) == l

\* Where a thread goes after `if (planificacion_detenida) sem_wait(...)`.
Puerta(l) == IF planificacion_detenida THEN "detenida" ELSE l

PermisoDe(h) ==
    IF h \in Interfaces THEN "podes_manejar_recepcion_de_interfaces"
    ELSE [creacion |-> "podes_crear_procesos", eliminacion |-> "podes_eliminar_procesos",
          corto |-> "podes_planificar_corto_plazo", dispatch |-> "podes_manejar_desalojo"][h]

TrasLaPuerta(h) ==
    IF h \in Interfaces THEN "resultado"
    ELSE [creacion |-> "grado", eliminacion |-> "pop_exit", corto |-> "elegir",
          dispatch |-> "atender"][h]

\* A thread stopped at its gate takes the permission that iniciar_planificacion posts.
Reanudar(h) ==
    /\ En(h, "detenida")
    /\ Esperar(PermisoDe(h))
    /\ Ir(h, TrasLaPuerta(h))
    /\ UNCHANGED <<cola, estado, resto>>

\* set_add_pcb_cola receives the mutex BY VALUE: it locks a copy.  A copy taken while
\* somebody holds the mutex is a locked mutex that nobody will ever unlock; a copy taken
\* while it is free excludes nobody.
set_add_pcb_cola(h, p, nuevo, c, sigue) ==
    /\ estado' = [estado EXCEPT ![p] = nuevo]
    /\ IF MutexTomado(c)
         THEN IrCon(h, "colgado", p) /\ UNCHANGED cola
         ELSE IrCon(h, sigue, p) /\ cola' = [cola EXCEPT ![c] = Append(@, p)]

\* listar_procesos_en_ready / _plus hold the true mutex while they walk the queue.
Listar(h) ==
    \E c \in {"ready", "plus"} :
        /\ En(h, IF c = "ready" THEN "listar_ready" ELSE "listar_plus")
        /\ ~MutexTomado(c)
        /\ Ir(h, IF c = "ready" THEN "listando_ready" ELSE "listando_plus")
        /\ UNCHANGED <<sem, cola, estado, resto>>

\* actualizar_pcb_en_procesos_del_sistema(p) frees the PCB it replaces, which is the one
\* the short-term planner sent to the CPU; nothing happens when p is not in the list.
Actualizar(p) ==
    colgante' = (colgante \/ (p = pcb_en_ejecucion /\ Contains(procesos_en_sistema, p)))

\* finalizar_pcb
FinalizarPcb(p) ==
    /\ estado' = [estado EXCEPT ![p] = "TERMINATED"]
    /\ cola' = [cola EXCEPT !["exit"] = Append(@, p)]
    /\ Actualizar(p)
    /\ Postear("hay_proceso_exit")

\* tener_index_pid, counting from one: the first place of p in the list.
Indice(s, p) == CHOOSE k \in 1 .. Len(s) : s[k] = p

\* A thread uses the PCB that an empty queue or a failed search did not give it.
Caer ==
    /\ kernel_vivo' = FALSE
    /\ UNCHANGED <<kernelVars, cpuVars, estado, canal>>

-----------------------------------------------------------------------------
(* Console: consola.c *)

\* INICIAR_PROCESO: crear_pcb, the exchange with the memory module (which answers) and
\* the insertion in NEW.
IniciarProceso ==
    /\ En("consola", "comando")
    /\ contador_pid < MaxPids
    /\ set_add_pcb_cola("consola", contador_pid, "NEW", "new", "post_nuevo")
    /\ UNCHANGED <<sem, resto>>

\* Mutant: the wrong semaphore is posted.
AvisarNuevo_OtroSemaforo ==
    /\ En("consola", "post_nuevo")
    /\ Postear("hay_proceso_a_ready")
    /\ Ir("consola", "registrar")
    /\ UNCHANGED <<cola, estado, resto>>

AvisarNuevo ==
    /\ En("consola", "post_nuevo")
    /\ Postear("hay_proceso_nuevo")
    /\ Ir("consola", "registrar")
    /\ UNCHANGED <<cola, estado, resto>>

\* Mutant: list_add_in_index(procesos_en_sistema, 0, ...).
RegistrarProceso_AlFrente ==
    /\ En("consola", "registrar")
    /\ procesos_en_sistema' = <<hilo["consola"].pcb>> \o procesos_en_sistema
    /\ contador_pid' = contador_pid + 1
    /\ IrCon("consola", "comando", Nadie)
    /\ UNCHANGED <<sem, cola, indice, mensaje, io, reloj, planificacion_detenida, detenciones,
                   cpuVars, estado, canal, kernel_vivo>>

\* The process enters procesos_en_sistema after the semaphore is posted.
RegistrarProceso ==
    /\ En("consola", "registrar")
    /\ procesos_en_sistema' = Append(procesos_en_sistema, hilo["consola"].pcb)
    /\ contador_pid' = contador_pid + 1
    /\ IrCon("consola", "comando", Nadie)
    /\ UNCHANGED <<sem, cola, indice, mensaje, io, reloj, planificacion_detenida, detenciones,
                   cpuVars, estado, canal, kernel_vivo>>

DetenerPlanificacion ==
    /\ En("consola", "comando")
    /\ detenciones < MaxDetenciones
    /\ planificacion_detenida' = TRUE
    /\ detenciones' = detenciones + 1
    /\ UNCHANGED <<sem, cola, hilo, sistema, mensaje, io, reloj, contador_pid, cpuVars, estado,
                   canal, kernel_vivo>>

\* INICIAR_PLANIFICACION posts the five permissions, whether somebody waits for them or not.
IniciarPlanificacion ==
    /\ En("consola", "comando")
    /\ planificacion_detenida
    /\ planificacion_detenida' = FALSE
    /\ sem' = [s \in DOMAIN sem |-> IF s \in Permisos THEN sem[s] + 1 ELSE sem[s]]
    /\ UNCHANGED <<cola, hilo, sistema, mensaje, io, reloj, contador_pid, detenciones, cpuVars,
                   estado, canal, kernel_vivo>>

-----------------------------------------------------------------------------
(* Long-term planner: planificador_largo_plazo.c *)

CreacionEsperaNuevo ==
    /\ En("creacion", "hay_nuevo")
    /\ Esperar("hay_proceso_nuevo")
    /\ Ir("creacion", Puerta("grado"))
    /\ UNCHANGED <<cola, estado, resto>>

\* Mutant: sem_wait(&grado_multi) is missing.
CreacionEsperaGrado_SinEsperar ==
    /\ En("creacion", "grado")
    /\ Ir("creacion", "pop_new")
    /\ UNCHANGED <<sem, cola, estado, resto>>

CreacionEsperaGrado ==
    /\ En("creacion", "grado")
    /\ Esperar("grado_multi")
    /\ Ir("creacion", "pop_new")
    /\ UNCHANGED <<cola, estado, resto>>

CreacionPopNew ==
    /\ En("creacion", "pop_new")
    /\ IF cola["new"] = <<>>
         THEN Caer
         ELSE /\ IrCon("creacion", "agregar", Head(cola["new"]))
              /\ cola' = [cola EXCEPT !["new"] = Tail(@)]
              /\ UNCHANGED <<sem, estado, resto>>

CreacionAgrega ==
    /\ En("creacion", "agregar")
    /\ set_add_pcb_cola("creacion", hilo["creacion"].pcb, "READY", "ready", "listar_ready")
    /\ UNCHANGED <<sem, resto>>

CreacionAvisa ==
    /\ En("creacion", "listando_ready")
    /\ Postear("hay_proceso_a_ready")
    /\ IrCon("creacion", "hay_nuevo", Nadie)
    /\ UNCHANGED <<cola, estado, resto>>

EliminacionEsperaExit ==
    /\ En("eliminacion", "hay_exit")
    /\ Esperar("hay_proceso_exit")
    /\ Ir("eliminacion", Puerta("pop_exit"))
    /\ UNCHANGED <<cola, estado, resto>>

\* Takes the process and its index in procesos_en_sistema, then talks to the memory module.
\* (liberar_recursos has nothing to release: WAIT and SIGNAL are outside this module.)
EliminacionPopExit ==
    /\ En("eliminacion", "pop_exit")
    /\ IF cola["exit"] = <<>>
         THEN Caer
         ELSE LET p == Head(cola["exit"]) IN
              /\ IrCon("eliminacion", "memoria", p)
              /\ cola' = [cola EXCEPT !["exit"] = Tail(@)]
              /\ indice' = IF Contains(procesos_en_sistema, p)
                             THEN Indice(procesos_en_sistema, p)
                             ELSE Nadie
              /\ UNCHANGED <<sem, procesos_en_sistema, mensaje, io, reloj, control, cpuVars,
                             estado, canal, kernel_vivo>>

\* Once memory has answered END_PROCESS: list_remove at the index read before, the
\* place in grado_multi is given back (flag_grado_multi is 0 without MULTIPROGRAMACION)
\* and the PCB destroyed.
EliminacionDestruye ==
    /\ En("eliminacion", "memoria")
    /\ procesos_en_sistema' = IF indice = Nadie THEN procesos_en_sistema
                                                ELSE RemoveAt(procesos_en_sistema, indice)
    /\ indice' = Nadie
    /\ Postear("grado_multi")
    /\ estado' = [estado EXCEPT ![hilo["eliminacion"].pcb] = "DESTRUIDO"]
    /\ IrCon("eliminacion", "hay_exit", Nadie)
    /\ UNCHANGED <<cola, mensaje, io, reloj, control, cpuVars, canal, kernel_vivo>>

-----------------------------------------------------------------------------
(* Short-term planner: planificador_corto_plazo.c *)

CortoEsperaReady ==
    /\ En("corto", "hay_ready")
    /\ Esperar("hay_proceso_a_ready")
    /\ Ir("corto", "cpu")
    /\ UNCHANGED <<cola, estado, resto>>

CortoEsperaCpu ==
    /\ En("corto", "cpu")
    /\ Esperar("cpu_libre")
    /\ Ir("corto", Puerta("elegir"))
    /\ UNCHANGED <<cola, estado, resto>>

\* VRR looks at ready_plus first, under its mutex; FIFO and RR only know ready.
CortoElige ==
    /\ En("corto", "elegir")
    /\ IF Algoritmo = "VRR"
         THEN ~MutexTomado("plus") /\ Ir("corto", "mirar_plus")
         ELSE ~MutexTomado("ready") /\ Ir("corto", "pop_ready")
    /\ UNCHANGED <<sem, cola, estado, resto>>

CortoMiraPlus ==
    /\ En("corto", "mirar_plus")
    /\ Ir("corto", IF cola["plus"] # <<>> THEN "tomar_plus" ELSE "tomar_ready")
    /\ UNCHANGED <<sem, cola, estado, resto>>

CortoTomaMutex ==
    /\ \/ En("corto", "tomar_plus") /\ ~MutexTomado("plus") /\ Ir("corto", "pop_plus")
       \/ En("corto", "tomar_ready") /\ ~MutexTomado("ready") /\ Ir("corto", "pop_ready")
    /\ UNCHANGED <<sem, cola, estado, resto>>

CortoPop ==
    \E c \in {"ready", "plus"} :
        /\ En("corto", IF c = "ready" THEN "pop_ready" ELSE "pop_plus")
        /\ IF cola[c] = <<>>
             THEN Caer
             ELSE /\ IrCon("corto", "setear", Head(cola[c]))
                  /\ cola' = [cola EXCEPT ![c] = Tail(@)]
                  /\ UNCHANGED <<sem, estado, resto>>

\* ejecutar_PCB: setear_pcb_en_ejecucion ...
CortoSetea ==
    /\ En("corto", "setear")
    /\ estado' = [estado EXCEPT ![hilo["corto"].pcb] = "EXEC"]
    /\ pcb_en_ejecucion' = hilo["corto"].pcb
    /\ colgante' = FALSE
    /\ Ir("corto", "enviar")
    /\ UNCHANGED <<sem, cola, sistema, mensaje, io, flag_cpu_libre, control, cpuVars, canal,
                   kernel_vivo>>

\* ... and enviar_pcb.
CortoEnvia ==
    /\ En("corto", "enviar")
    /\ a_cpu' = Append(a_cpu, hilo["corto"].pcb)
    /\ IrCon("corto", IF Algoritmo = "FIFO" THEN "hay_ready" ELSE "arrancar", Nadie)
    /\ UNCHANGED <<sem, cola, sistema, mensaje, io, reloj, control, cpuVars, estado, a_kernel,
                   interrupt, kernel_vivo>>

CortoArrancaQuantum ==
    /\ En("corto", "arrancar")
    /\ sem["arrancar_quantum"] < MaxArranques
    /\ Postear("arrancar_quantum")
    /\ Ir("corto", "hay_ready")
    /\ UNCHANGED <<cola, estado, resto>>

-----------------------------------------------------------------------------
(* Quantum: verificar_quantum and verificar_quantum_vrr *)

QuantumEspera ==
    /\ En("quantum", "arrancar")
    /\ Esperar("arrancar_quantum")
    /\ Ir("quantum", "bajar_flag")
    /\ UNCHANGED <<cola, estado, resto>>

\* Mutant: flag_cpu_libre = 0 is missing.
QuantumBajaFlag_SinBajar ==
    /\ En("quantum", "bajar_flag")
    /\ Ir("quantum", "esperar_flag")
    /\ UNCHANGED <<sem, cola, estado, resto>>

\* The flag is lowered only now: the CPU may have been released in between.
QuantumBajaFlag ==
    /\ En("quantum", "bajar_flag")
    /\ flag_cpu_libre' = 0
    /\ Ir("quantum", "esperar_flag")
    /\ UNCHANGED <<sem, cola, sistema, mensaje, io, pcb_en_ejecucion, colgante, control, cpuVars,
                   estado, canal, kernel_vivo>>

\* The process left the CPU before its quantum ran out.
QuantumCpuLiberada ==
    /\ En("quantum", "esperar_flag")
    /\ flag_cpu_libre = 1
    /\ flag_cpu_libre' = 0
    /\ Ir("quantum", "arrancar")
    /\ UNCHANGED <<sem, cola, sistema, mensaje, io, pcb_en_ejecucion, colgante, control, cpuVars,
                   estado, canal, kernel_vivo>>

\* ETIMEDOUT: FIN_CLOCK for the pid in pcb_en_ejecucion, whatever freed memory holds if it
\* was freed.
QuantumVence ==
    /\ En("quantum", "esperar_flag")
    /\ flag_cpu_libre = 0
    /\ Len(interrupt) < MaxInterrupciones
    /\ \E p \in IF colgante THEN Pids \union {Nadie} ELSE {pcb_en_ejecucion} :
           interrupt' = Append(interrupt, [motivo |-> "FIN_CLOCK", pid |-> p])
    /\ Ir("quantum", "arrancar")
    /\ UNCHANGED <<sem, cola, sistema, mensaje, io, reloj, control, cpuVars, estado, a_cpu, a_kernel,
                   kernel_vivo>>

-----------------------------------------------------------------------------
(* Evictions: recibir_dispatch *)

DispatchRecibe ==
    /\ En("dispatch", "recibir")
    /\ a_kernel # <<>>
    /\ mensaje' = Head(a_kernel)
    /\ a_kernel' = Tail(a_kernel)
    /\ IrCon("dispatch", Puerta("atender"), Head(a_kernel).pid)
    /\ UNCHANGED <<sem, cola, sistema, io, reloj, control, cpuVars, estado, a_cpu, interrupt,
                   kernel_vivo>>

\* flag_cpu_libre = 1 and the signal on its condition: first in OPERACION_IO, after the
\* process has been put away in FIN_CLOCK and END_PROCESS, never in OUT_OF_MEMORY.
DispatchLevantaFlag ==
    /\ \/ En("dispatch", "atender") /\ mensaje.motivo = "OPERACION_IO" /\ Ir("dispatch", "bloquear")
       \/ En("dispatch", "flag") /\ Ir("dispatch", "post_cpu")
    /\ flag_cpu_libre' = 1
    /\ UNCHANGED <<sem, cola, sistema, mensaje, io, pcb_en_ejecucion, colgante, control, cpuVars,
                   estado, canal, kernel_vivo>>

\* conexiones_io has the name: the first thing crear_interfaz writes.
interfaz_conectada(i) == i \in Interfaces /\ ~En(i, "sin_conectar")

\* crear_interfaz has still to write the queue or the semaphores of the interface.
ConexionAMedias(i) == hilo[i].en \in {"sin_cola", "sin_semaforos"}

\* Mutant: bloquear_pcb forgets list_add.
DispatchBloquea_SinLista ==
    /\ En("dispatch", "bloquear")
    /\ LET p == hilo["dispatch"].pcb IN
       IF ~interfaz_conectada(mensaje.interfaz)
         THEN /\ FinalizarPcb(p)
              /\ Ir("dispatch", "post_cpu")
         ELSE /\ estado' = [estado EXCEPT ![p] = "BLOCKED"]
              /\ Actualizar(p)
              /\ Ir("dispatch", "encolar_io")
              /\ UNCHANGED <<sem, cola>>
    /\ UNCHANGED <<sistema, mensaje, io, flag_cpu_libre, pcb_en_ejecucion, control, cpuVars, canal,
                   kernel_vivo>>

\* case OPERACION_IO: an interface that is not connected (or that is of another type)
\* ends the process; otherwise bloquear_pcb.
DispatchBloquea ==
    /\ En("dispatch", "bloquear")
    /\ LET p == hilo["dispatch"].pcb IN
       IF ~interfaz_conectada(mensaje.interfaz)
         THEN /\ FinalizarPcb(p)
              /\ Ir("dispatch", "post_cpu")
         ELSE /\ estado' = [estado EXCEPT ![p] = "BLOCKED"]
              /\ cola' = [cola EXCEPT !["blocked"] = Append(@, p)]
              /\ Actualizar(p)
              /\ Ir("dispatch", "encolar_io")
              /\ UNCHANGED sem
    /\ UNCHANGED <<sistema, mensaje, io, flag_cpu_libre, pcb_en_ejecucion, control, cpuVars, canal,
                   kernel_vivo>>

\* The queue and the semaphores of the interface may not be in their dictionaries yet.
DispatchEncolaIO ==
    /\ En("dispatch", "encolar_io")
    /\ LET i == mensaje.interfaz IN
       IF ConexionAMedias(i)
         THEN Caer
         ELSE /\ cola_io' = [cola_io EXCEPT ![i] = Append(@, hilo["dispatch"].pcb)]
              /\ instruccion_en_cola' = [instruccion_en_cola EXCEPT ![i] = @ + 1]
              /\ Ir("dispatch", "post_cpu")
              /\ UNCHANGED <<sem, cola, sistema, mensaje, binario_io_libre, reloj, control, cpuVars,
                             estado, canal, kernel_vivo>>

\* case FIN_CLOCK
DispatchDesaloja ==
    /\ En("dispatch", "atender")
    /\ mensaje.motivo = "FIN_CLOCK"
    /\ set_add_pcb_cola("dispatch", hilo["dispatch"].pcb, "READY", "ready", "listar_ready")
    /\ UNCHANGED <<sem, resto>>

DispatchAvisaReady ==
    /\ En("dispatch", "listando_ready")
    /\ Actualizar(hilo["dispatch"].pcb)
    /\ Postear("hay_proceso_a_ready")
    /\ Ir("dispatch", "flag")
    /\ UNCHANGED <<cola, sistema, mensaje, io, flag_cpu_libre, pcb_en_ejecucion, control, cpuVars,
                   estado, canal, kernel_vivo>>

\* cases END_PROCESS and OUT_OF_MEMORY
DispatchFinaliza ==
    /\ En("dispatch", "atender")
    /\ mensaje.motivo \in {"END_PROCESS", "OUT_OF_MEMORY"}
    /\ FinalizarPcb(hilo["dispatch"].pcb)
    /\ Ir("dispatch", IF mensaje.motivo = "END_PROCESS" THEN "flag" ELSE "post_cpu")
    /\ UNCHANGED <<sistema, mensaje, io, flag_cpu_libre, pcb_en_ejecucion, control, cpuVars, canal,
                   kernel_vivo>>

\* Mutant: sem_post(&cpu_libre) is missing.
DispatchLiberaCpu_SinSoltar ==
    /\ En("dispatch", "post_cpu")
    /\ IrCon("dispatch", "recibir", Nadie)
    /\ UNCHANGED <<sem, cola, estado, resto>>

DispatchLiberaCpu ==
    /\ En("dispatch", "post_cpu")
    /\ Postear("cpu_libre")
    /\ IrCon("dispatch", "recibir", Nadie)
    /\ UNCHANGED <<cola, estado, resto>>

-----------------------------------------------------------------------------
(* Interfaces: crear_interfaz and atender_interfaz, one thread per connected interface *)

\* An interface says its type and its name, and crear_interfaz writes conexiones_io.
InterfazConecta(i) ==
    /\ En(i, "sin_conectar")
    /\ Ir(i, "sin_cola")
    /\ UNCHANGED <<sem, cola, estado, resto>>

\* Then its queue, its semaphores, and the thread.
InterfazRegistra(i) ==
    /\ \/ En(i, "sin_cola") /\ Ir(i, "sin_semaforos")
       \/ En(i, "sin_semaforos") /\ Ir(i, "instruccion")
    /\ UNCHANGED <<sem, cola, estado, resto>>

InterfazEsperaInstruccion(i) ==
    /\ En(i, "instruccion")
    /\ instruccion_en_cola[i] > 0
    /\ instruccion_en_cola' = [instruccion_en_cola EXCEPT ![i] = @ - 1]
    /\ Ir(i, "binario")
    /\ UNCHANGED <<sem, cola, sistema, mensaje, cola_io, binario_io_libre, reloj, control, cpuVars, estado, canal,
                   kernel_vivo>>

\* The interface is free: its first instruction is taken and sent (EJECUTAR_IO).
InterfazEnvia(i) ==
    /\ En(i, "binario")
    /\ binario_io_libre[i] > 0
    /\ IF cola_io[i] = <<>>
         THEN Caer
         ELSE /\ binario_io_libre' = [binario_io_libre EXCEPT ![i] = @ - 1]
              /\ cola_io' = [cola_io EXCEPT ![i] = Tail(@)]
              /\ IrCon(i, "respuesta", Head(cola_io[i]))
              /\ UNCHANGED <<sem, cola, sistema, mensaje, instruccion_en_cola, reloj, control,
                             cpuVars, estado, canal, kernel_vivo>>

InterfazResponde(i) ==
    /\ En(i, "respuesta")
    /\ Ir(i, Puerta("resultado"))
    /\ UNCHANGED <<sem, cola, estado, resto>>

\* Any answer but IO_SUCCESS leaves binario_io_libre taken and the process blocked.
InterfazCierra(i) ==
    /\ En(i, "resultado")
    /\ "CERRAR_IO" \in ResultadosIO
    /\ IrCon(i, "instruccion", Nadie)
    /\ UNCHANGED <<sem, cola, estado, resto>>

\* buscar_pcb_por_pid in lista_procesos_blocked, and its removal from it.
InterfazDesbloquea(i) ==
    /\ En(i, "resultado")
    /\ "IO_SUCCESS" \in ResultadosIO
    /\ IF ~Contains(cola["blocked"], hilo[i].pcb)
         THEN Caer
         ELSE /\ cola' = [cola EXCEPT !["blocked"] = RemoveAt(@, Indice(@, hilo[i].pcb))]
              /\ \/ Ir(i, "agregar_ready")
                 \/ Algoritmo = "VRR" /\ Ir(i, "agregar_plus")
              /\ UNCHANGED <<sem, estado, resto>>

InterfazAgrega(i) ==
    /\ \/ /\ En(i, "agregar_ready")
          /\ set_add_pcb_cola(i, hilo[i].pcb, "READY", "ready", "listar_ready")
       \/ /\ En(i, "agregar_plus")
          /\ set_add_pcb_cola(i, hilo[i].pcb, "READY", "plus", "listar_plus")
    /\ UNCHANGED <<sem, resto>>

\* Mutant: sem_post(&binario_io_libre) is missing.
InterfazAvisa_SinLiberar(i) ==
    /\ hilo[i].en \in {"listando_ready", "listando_plus"}
    /\ Postear("hay_proceso_a_ready")
    /\ IrCon(i, "instruccion", Nadie)
    /\ UNCHANGED <<cola, estado, resto>>

InterfazAvisa(i) ==
    /\ hilo[i].en \in {"listando_ready", "listando_plus"}
    /\ Postear("hay_proceso_a_ready")
    /\ binario_io_libre' = [binario_io_libre EXCEPT ![i] = @ + 1]
    /\ IrCon(i, "instruccion", Nadie)
    /\ UNCHANGED <<cola, sistema, mensaje, cola_io, instruccion_en_cola, reloj, control, cpuVars, estado, canal,
                   kernel_vivo>>

-----------------------------------------------------------------------------
(* CPU: dispatch server and interrupt server *)

Enviar(motivo, p, i) ==
    a_kernel' = Append(a_kernel, [motivo |-> motivo, pid |-> p, interfaz |-> i])

\* iniciar_servidor_interrupt: the last interruption received stays there for good.
CpuRecibeInterrupcion ==
    /\ interrupt # <<>>
    /\ interrupcion_recibida' = Head(interrupt)
    /\ interrupt' = Tail(interrupt)
    /\ UNCHANGED <<kernelVars, pc, cpu, flags, estado, a_cpu, a_kernel, kernel_vivo>>

CpuRecibePcb ==
    /\ cpu.en = "libre"
    /\ a_cpu # <<>>
    /\ cpu' = [en |-> "ciclo", pid |-> Head(a_cpu)]
    /\ a_cpu' = Tail(a_cpu)
    /\ flags' = flags \ {"input_ouput"}
    /\ UNCHANGED <<kernelVars, pc, interrupcion_recibida, estado, a_kernel, interrupt, kernel_vivo>>

\* Memory has no answer to a fetch past the end of a program: it uses a null instruction.
HayInstruccion == pc[cpu.pid] <= Len(Programa[cpu.pid])

Proxima == Programa[cpu.pid][pc[cpu.pid]]

\* Mutant: flag_out_of_memory = 1 is missing.
QuedaSinMemoria_SinFlag == UNCHANGED flags /\ Enviar("OUT_OF_MEMORY", cpu.pid, SinInterfaz)

\* RESIZE, when memory answers OUT_OF_MEMORY.
QuedaSinMemoria == flags' = {"out_of_memory"} /\ Enviar("OUT_OF_MEMORY", cpu.pid, SinInterfaz)

\* siguiente_instruccion and decode_y_execute_instruccion, while no flag is up: the
\* program counter moves before the instruction is executed; JNZ may set it back, and does
\* (BUCLE) when its register never is zero.
CpuEjecuta ==
    /\ cpu.en = "ciclo"
    /\ flags = {}
    /\ HayInstruccion
    /\ \/ Proxima.op # "BUCLE" /\ pc' = [pc EXCEPT ![cpu.pid] = @ + 1]
       \/ Proxima.op \in {"JNZ", "BUCLE"} /\ pc' = [pc EXCEPT ![cpu.pid] = 1]
    /\ \/ /\ Proxima.op \in {"CPU", "JNZ", "BUCLE", "RESIZE"}
          /\ UNCHANGED <<flags, a_kernel>>
       \/ Proxima.op = "RESIZE" /\ QuedaSinMemoria
       \/ /\ Proxima.op = "IO"
          /\ flags' = {"input_ouput"}
          /\ Enviar("OPERACION_IO", cpu.pid, Proxima.interfaz)
       \/ /\ Proxima.op = "EXIT"
          /\ flags' = {"process_finished"}
          /\ UNCHANGED a_kernel
    /\ cpu' = [en |-> "chequear", pid |-> cpu.pid]
    /\ UNCHANGED <<kernelVars, interrupcion_recibida, estado, a_cpu, interrupt, kernel_vivo>>

\* check_interrupt
CpuChequea ==
    /\ cpu.en = "chequear"
    /\ cpu' = [en |-> "ciclo", pid |-> cpu.pid]
    /\ flags' = flags \union
                    (IF interrupcion_recibida.pid = cpu.pid THEN {"interruption"} ELSE {})
    /\ UNCHANGED <<kernelVars, pc, interrupcion_recibida, estado, canal, kernel_vivo>>

\* Mutant: `&& input_ouput_flag == 0` is missing.
CpuTermina_SinMirarIO ==
    /\ cpu.en = "ciclo"
    /\ flags # {}
    /\ IF "process_finished" \in flags
         THEN /\ Enviar("END_PROCESS", cpu.pid, SinInterfaz)
              /\ flags' = flags \ {"process_finished", "interruption"}
         ELSE IF "interruption" \in flags
         THEN /\ Enviar(interrupcion_recibida.motivo, cpu.pid, SinInterfaz)
              /\ flags' = flags \ {"interruption", "input_ouput"}
         ELSE /\ flags' = flags \ {"input_ouput"}
              /\ UNCHANGED a_kernel
    /\ cpu' = [en |-> "libre", pid |-> Nadie]
    /\ UNCHANGED <<kernelVars, pc, interrupcion_recibida, estado, a_cpu, interrupt, kernel_vivo>>

\* The end of comenzar_proceso.  An interruption found in the same round as an I/O is not
\* answered, and its flag stays up for the next PCB; the out of memory flag is never lowered.
CpuTermina ==
    /\ cpu.en = "ciclo"
    /\ flags # {}
    /\ IF "process_finished" \in flags
         THEN /\ Enviar("END_PROCESS", cpu.pid, SinInterfaz)
              /\ flags' = flags \ {"process_finished", "interruption"}
         ELSE IF "interruption" \in flags /\ "input_ouput" \notin flags
         THEN /\ Enviar(interrupcion_recibida.motivo, cpu.pid, SinInterfaz)
              /\ flags' = flags \ {"interruption"}
         ELSE /\ flags' = flags \ {"input_ouput"}
              /\ UNCHANGED a_kernel
    /\ cpu' = [en |-> "libre", pid |-> Nadie]
    /\ UNCHANGED <<kernelVars, pc, interrupcion_recibida, estado, a_cpu, interrupt, kernel_vivo>>

-----------------------------------------------------------------------------
ConsolaSigue == AvisarNuevo \/ RegistrarProceso
Consola == IniciarProceso \/ ConsolaSigue \/ DetenerPlanificacion \/ IniciarPlanificacion
Creacion == \/ CreacionEsperaNuevo \/ CreacionEsperaGrado \/ CreacionPopNew \/ CreacionAgrega
            \/ CreacionAvisa \/ Listar("creacion") \/ Reanudar("creacion")
Eliminacion == \/ EliminacionEsperaExit \/ EliminacionPopExit \/ EliminacionDestruye
               \/ Reanudar("eliminacion")
Corto == \/ CortoEsperaReady \/ CortoEsperaCpu \/ CortoElige \/ CortoMiraPlus \/ CortoTomaMutex
         \/ CortoPop \/ CortoSetea \/ CortoEnvia \/ CortoArrancaQuantum \/ Reanudar("corto")
Quantum == QuantumEspera \/ QuantumBajaFlag \/ QuantumCpuLiberada \/ QuantumVence
Dispatch == \/ DispatchRecibe \/ DispatchLevantaFlag \/ DispatchBloquea \/ DispatchEncolaIO
            \/ DispatchDesaloja \/ DispatchAvisaReady \/ DispatchFinaliza \/ DispatchLiberaCpu
            \/ Listar("dispatch") \/ Reanudar("dispatch")
InterfazSigue(i) ==
    \/ InterfazRegistra(i) \/ InterfazEsperaInstruccion(i) \/ InterfazEnvia(i) \/ InterfazResponde(i)
    \/ InterfazCierra(i) \/ InterfazDesbloquea(i) \/ InterfazAgrega(i) \/ InterfazAvisa(i)
    \/ Listar(i) \/ Reanudar(i)
Interfaz(i) == InterfazConecta(i) \/ InterfazSigue(i)
CpuDispatch == CpuRecibePcb \/ CpuEjecuta \/ CpuChequea \/ CpuTermina

\* What happens when nobody types a command or connects an interface.
Trabajo == \/ ConsolaSigue \/ Creacion \/ Eliminacion \/ Corto \/ Quantum \/ Dispatch
           \/ \E i \in Interfaces : InterfazSigue(i)
           \/ CpuDispatch \/ CpuRecibeInterrupcion

Next ==
    /\ kernel_vivo
    /\ \/ Consola \/ Creacion \/ Eliminacion \/ Corto \/ Quantum \/ Dispatch
       \/ \E i \in Interfaces : Interfaz(i)
       \/ CpuDispatch \/ CpuRecibeInterrupcion

Spec == Init /\ [][Next]_vars

\* Every thread that can take a step takes one: the operating system schedules them all,
\* an interface answers, a timer runs out.  Typing commands and connecting an interface are
\* not fair, except that a started INICIAR_PROCESO or crear_interfaz finishes.  A mutex is not handed over in order, but its
\* critical sections are short: creacion and the interfaces, which the rest can do without,
\* get it if it is free again and again (strong fairness).
Equidad ==
    /\ WF_vars(ConsolaSigue) /\ WF_vars(Creacion) /\ WF_vars(Eliminacion) /\ WF_vars(Corto)
    /\ WF_vars(Quantum) /\ WF_vars(Dispatch) /\ WF_vars(CpuDispatch)
    /\ WF_vars(CpuRecibeInterrupcion) /\ SF_vars(Listar("creacion"))
    /\ \A i \in Interfaces : WF_vars(InterfazSigue(i)) /\ SF_vars(Listar(i))

FairSpec == Spec /\ Equidad

-----------------------------------------------------------------------------
(* Properties *)

Etiquetas ==
    {"comando", "post_nuevo", "registrar", "colgado", "detenida", "hay_nuevo", "grado", "pop_new",
     "agregar", "listar_ready", "listando_ready", "listar_plus", "listando_plus", "hay_exit",
     "pop_exit", "memoria", "hay_ready", "cpu", "elegir", "mirar_plus", "tomar_plus", "pop_plus",
     "tomar_ready", "pop_ready", "setear", "enviar", "arrancar", "bajar_flag", "esperar_flag",
     "recibir", "atender", "bloquear", "encolar_io", "flag", "post_cpu", "instruccion", "binario",
     "respuesta", "resultado", "agregar_ready", "agregar_plus", "sin_conectar", "sin_cola",
     "sin_semaforos"}
Motivos == {"FIN_CLOCK", "END_PROCESS", "OPERACION_IO", "OUT_OF_MEMORY"}
Mensajes == [motivo : Motivos, pid : Pids, interfaz : Interfaces \union {SinInterfaz}]
Interrupciones == [motivo : {"FIN_CLOCK"}, pid : Pids \union {Nadie}]
Ciclo == INSTANCE CicloDeVida

TipoColas ==
    /\ sem \in [Semaforos \union Permisos -> Nat]
    /\ cola \in [Colas -> Seq(Pids)]
    /\ procesos_en_sistema \in Seq(Pids)
    /\ estado \in [Pids -> Ciclo!Estados]
TipoHilo == hilo \in [Hilos -> [en : Etiquetas, pcb : Pids \union {Nadie}]]
TipoIO ==
    /\ mensaje \in [motivo : Motivos, pid : Pids \union {Nadie},
                    interfaz : Interfaces \union {SinInterfaz}]
    /\ cola_io \in [Interfaces -> Seq(Pids)]
    /\ instruccion_en_cola \in [Interfaces -> Nat]
    /\ binario_io_libre \in [Interfaces -> Nat]
TipoControl ==
    /\ indice \in Nat \union {Nadie}
    /\ flag_cpu_libre \in {0, 1}
    /\ pcb_en_ejecucion \in Pids \union {Nadie}
    /\ colgante \in BOOLEAN /\ planificacion_detenida \in BOOLEAN /\ kernel_vivo \in BOOLEAN
    /\ contador_pid \in Nat /\ detenciones \in Nat
TipoCpu ==
    /\ a_cpu \in Seq(Pids) /\ a_kernel \in Seq(Mensajes) /\ interrupt \in Seq(Interrupciones)
    /\ pc \in [Pids -> Nat \ {0}]
    /\ cpu \in [en : {"libre", "ciclo", "chequear"}, pid : Pids \union {Nadie}]
    /\ flags \subseteq {"process_finished", "interruption", "input_ouput", "out_of_memory"}
    /\ interrupcion_recibida \in Interrupciones

\* Types of the state of the kernel and of the CPU.
TypeOK == TipoColas /\ TipoHilo /\ TipoIO /\ TipoControl /\ TipoCpu

\* The kernel never uses a PCB that a queue_pop or a search did not find: each pop of NEW,
\* READY, ready_plus, EXIT and of an interface's queue finds something, and an I/O that
\* ends finds its process in lista_procesos_blocked.  The semaphores are posted and waited
\* apart from the queues, by other threads.  It dies in one way only: an I/O is queued on an
\* interface whose connection crear_interfaz has announced and not finished.
IOAntesDeTiempo ==
    En("dispatch", "encolar_io") /\ \E i \in Interfaces : mensaje.interfaz = i /\ ConexionAMedias(i)
KernelVivo == kernel_vivo \/ IOAntesDeTiempo

\* The CPU has a process whose eviction it has not told the kernel yet.
CpuOcupada == cpu.en # "libre" /\ flags \intersect {"input_ouput", "out_of_memory"} = {}

\* The thread has p in its hands: out of a queue and not yet in the next one.
EnMano(h, p) ==
    /\ hilo[h].pcb = p
    /\ \/ hilo[h].en \in {"agregar", "agregar_ready", "agregar_plus", "colgado", "setear", "enviar",
                         "memoria", "atender", "bloquear"}
       \/ h = "dispatch" /\ hilo[h].en = "detenida"

Posiciones(s, p) == {k \in 1 .. Len(s) : s[k] = p}
Lugares(p) ==
    (UNION {{<<c, k>> : k \in Posiciones(cola[c], p)} : c \in Colas})
    \union {<<"a_cpu", k>> : k \in Posiciones(a_cpu, p)}
    \union {<<"a_kernel", k>> : k \in {j \in 1 .. Len(a_kernel) : a_kernel[j].pid = p}}
    \union {<<h, 0>> : h \in {g \in Hilos : EnMano(g, p)}}
    \union (IF CpuOcupada /\ cpu.pid = p THEN {<<"cpu", 0>>} ELSE {})

\* comenzar_proceso gives each process back once.  A RESIZE that runs out of memory in the
\* round in which an interruption is found is answered twice, OUT_OF_MEMORY and FIN_CLOCK:
\* the kernel then finalizes the process and makes it READY.  FIFO interrupts nobody.
UnaRespuesta == Algoritmo = "FIFO" \/ "out_of_memory" \notin flags

\* While the CPU answers once, no process is in two places (queues, threads' hands,
\* sockets, CPU), so that none is scheduled or finalized twice, and none that has been
\* created and not destroyed is lost by all of them, until the first OUT_OF_MEMORY: the CPU
\* then keeps what it gets.
UnSoloLugar ==
    \A p \in Pids :
        /\ UnaRespuesta => Cardinality(Lugares(p)) <= 1
        /\ estado[p] \notin {"SIN_CREAR", "DESTRUIDO"} /\ "out_of_memory" \notin flags => Lugares(p) # {}

B(condicion) == IF condicion THEN 1 ELSE 0

\* An I/O in progress belongs to a process in lista_procesos_blocked, and a process has at
\* most one: buscar_pcb_por_pid reads an uninitialised pointer otherwise.
IOs(p) ==
    (UNION {{<<i, k>> : k \in Posiciones(cola_io[i], p)} : i \in Interfaces})
    \union {<<i, 0>> : i \in {j \in Interfaces :
               hilo[j].pcb = p /\ hilo[j].en \in {"respuesta", "detenida", "resultado"}}}
IODeBloqueado ==
    \A p \in Pids : Cardinality(IOs(p)) <= B(Contains(cola["blocked"], p))

\* estado_actual, which FINALIZAR_PROCESO trusts to know where to look for a process,
\* agrees with where the process is, in the queues, the CPU and the interfaces.
EstadosDeColas ==
    /\ \A p \in ToSet(cola["new"]) : estado[p] = "NEW"
    /\ \A p \in ToSet(cola["ready"]) \union ToSet(cola["plus"]) : estado[p] = "READY"
    /\ \A p \in ToSet(cola["blocked"]) : estado[p] = "BLOCKED"
    /\ \A p \in ToSet(cola["exit"]) : estado[p] = "TERMINATED"
    /\ \A p \in ToSet(a_cpu) : estado[p] = "EXEC"
    /\ \A m \in ToSet(a_kernel) : estado[m.pid] = "EXEC"
    /\ CpuOcupada => estado[cpu.pid] = "EXEC"
EstadoCoherente == (UnaRespuesta => EstadosDeColas) /\ IODeBloqueado

\* The CPU is given to one process at a time and never lost: the token of cpu_libre is in
\* the semaphore, with the planner, with the process on its way to, in or back from the
\* CPU, or with recibir_dispatch.  It ends with the first OUT_OF_MEMORY: from then on
\* comenzar_proceso executes nothing and gives nothing back.
ConElPlanificador ==
    hilo["corto"].en \in {"detenida", "elegir", "mirar_plus", "tomar_plus", "tomar_ready", "pop_plus",
                          "pop_ready", "setear", "enviar"}
TokenCpu ==
    \/ "out_of_memory" \in flags
    \/ sem["cpu_libre"] + B(ConElPlanificador) + Len(a_cpu) + B(CpuOcupada) + Len(a_kernel)
         + B(~En("dispatch", "recibir")) = 1

\* hay_proceso_a_ready counts the processes of READY and ready_plus, but for those that a
\* thread has pushed and not announced yet and the one the planner is going to pop.
Anunciantes ==
    {h \in Hilos : hilo[h].en \in {"listar_ready", "listando_ready", "listar_plus", "listando_plus"}}
PopPendiente ==
    hilo["corto"].en \in {"cpu", "detenida", "elegir", "mirar_plus", "tomar_plus", "tomar_ready",
                          "pop_plus", "pop_ready"}
CuentaReady ==
    sem["hay_proceso_a_ready"] + Cardinality(Anunciantes) + B(PopPendiente)
      = Len(cola["ready"]) + Len(cola["plus"])

\* Each queue_pop that a semaphore announces finds something in its queue, although other
\* threads post and push in two steps, the short-term planner chooses between its two
\* queues before it pops, and both queues share one semaphore.
PopsSeguros ==
    /\ En("creacion", "pop_new") => cola["new"] # <<>>
    /\ En("eliminacion", "pop_exit") => cola["exit"] # <<>>
    /\ En("corto", "pop_ready") => cola["ready"] # <<>>
    /\ En("corto", "pop_plus") => cola["plus"] # <<>>
    /\ \A i \in Interfaces : En(i, "binario") => cola_io[i] # <<>>

\* The semaphores count the queues they announce: READY and ready_plus exactly, and in every
\* queue what the next pop takes.
ColasContadas == CuentaReady /\ PopsSeguros

\* Every place of the degree of multiprogramming is in grado_multi, taken by an admitted
\* process until its PCB is destroyed, or in the hands of creacion_de_procesos, while the
\* CPU answers once.
PlazasDeGrado ==
    UnaRespuesta =>
    sem["grado_multi"] + Cardinality(Ciclo!Admitidos) + B(hilo["creacion"].en \in {"pop_new", "agregar"})
      = Grado

\* The index that eliminacion_de_procesos read before talking to memory still is the index
\* of its process when list_remove uses it.
IndiceVigente ==
    En("eliminacion", "memoria") /\ indice # Nadie =>
        indice \in 1 .. Len(procesos_en_sistema)
        /\ procesos_en_sistema[indice] = hilo["eliminacion"].pcb

\* The scheduling core implements the life cycle of CicloDeVida, while the CPU answers once.
CicloSpec == Ciclo!Init /\ [][UnaRespuesta => Ciclo!Next]_estado

\* Nobody waits for ever on the copy of a locked mutex.
SinCuelgue == \A h \in Hilos : ~En(h, "colgado")

Terminados == {p \in Pids : estado[p] \in {"SIN_CREAR", "DESTRUIDO"}}

\* All that a closed interface may leave behind: its processes in BLOCKED, and in NEW those
\* for whom they leave no place.  READY is empty and the CPU is free.
SoloVarados ==
    /\ "CERRAR_IO" \in ResultadosIO /\ \E i \in Interfaces : binario_io_libre[i] = 0
    /\ cola["ready"] \o cola["plus"] = <<>> /\ sem["cpu_libre"] = 1
    /\ Pids \ Terminados \subseteq Range(cola["blocked"]) \union Range(cola["new"])
    /\ cola["new"] # <<>> => Len(cola["blocked"]) >= Grado

\* When every thread of the kernel and of the CPU is blocked and nothing is on its way
\* between them, there is no process left but those stranded by an interface that
\* closed: nobody else waits for a semaphore, a free interface or a place of the degree that
\* nobody will give.  The exceptions are planning stopped, the copy of a held mutex and the
\* CPU after its first OUT_OF_MEMORY.
ReposoVacio ==
    \/ Terminados = Pids \/ SoloVarados
    \/ planificacion_detenida \/ ~SinCuelgue \/ "out_of_memory" \in flags
    \/ ENABLED Trabajo

\* With planning stopped and no permission left over, the short-term planner, once back
\* at the top of its loop, gives the CPU to nobody until planning starts again.
Parado == /\ planificacion_detenida
          /\ sem["podes_planificar_corto_plazo"] = 0
          /\ hilo["corto"].en \in {"hay_ready", "cpu", "detenida"}
DetencionEstable == [][Parado /\ planificacion_detenida' => Parado']_vars

\* Every process that enters NEW and does not loop for ever ends and is destroyed, even if
\* others loop, as long as planning does not stay stopped and no thread hangs on the copy of
\* a mutex.
SinBucle(p) == \A k \in DOMAIN Programa[p] : Programa[p][k].op # "BUCLE"
Termina ==
    [](SinCuelgue) /\ <>[](~planificacion_detenida) =>
        \A p \in Pids : SinBucle(p) => (estado[p] = "NEW" ~> estado[p] = "DESTRUIDO")
=============================================================================
