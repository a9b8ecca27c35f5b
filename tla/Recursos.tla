------------------------------ MODULE Recursos ------------------------------
(***************************************************************************)
(* The resources of the kernel (recursos.c): WAIT and SIGNAL, which the    *)
(* CPU asks for in the middle of a process and recibir_dispatch attends    *)
(* to, and the release of what a process still holds when it ends, which   *)
(* eliminacion_de_procesos does in another thread, over the same counters, *)
(* queues of waiters and list of blocked processes.                        *)
(*                                                                         *)
(* The planners are those of Planificador, here in one step: a free CPU    *)
(* receives the first process of READY.  With quanta, an interruption may  *)
(* be found after any instruction.                                         *)
(***************************************************************************)
EXTENDS Integers, Sequences, FiniteSets, SequencesExt

CONSTANTS
    Pids,          \* the processes, all of them in READY at the start
    Recursos,      \* RECURSOS of the configuration
    Instancias,    \* INSTANCIAS_RECURSOS: how many instances each resource has
    Cargas,        \* what may be run: the instructions of each process, and whether the
                   \* algorithm has quanta (RR, VRR)
    Vuelta         \* bound: where instancias_asignadas, a uint32_t, wraps around

Nadie == "nadie"
Inexistente == "inexistente"      \* a resource that is not in the configuration

Instrucciones == [op : {"IO", "EXIT"}, recurso : {Inexistente}]
                    \union [op : {"WAIT", "SIGNAL"}, recurso : Recursos \union {Inexistente}]

ASSUME ConstantesOK ==
    /\ IsFiniteSet(Pids) /\ Nadie \notin Pids
    /\ IsFiniteSet(Recursos) /\ Inexistente \notin Recursos /\ Nadie \notin Recursos
    /\ Instancias \in [Recursos -> Nat \ {0}]
    /\ \A c \in Cargas :
          /\ c.programa \in [Pids -> Seq(Instrucciones)] /\ c.quantum \in BOOLEAN
          /\ \A p \in Pids : c.programa[p] # <<>> /\ Last(c.programa[p]).op = "EXIT"
    /\ Vuelta \in Nat \ {0, 1}

\* How many times x is in a list.
Veces(s, x) == Cardinality({k \in 1 .. Len(s) : s[k] = x})

\* The instances of r that a program has asked for, and not given back, before its n-th instruction.
Saldo(s, r, n) == Veces(SubSeq(s, 1, n - 1), [op |-> "WAIT", recurso |-> r])
                    - Veces(SubSeq(s, 1, n - 1), [op |-> "SIGNAL", recurso |-> r])

\* The instructions after which the kernel ends the process.
Final(i) == i.op # "IO" /\ i.recurso = Inexistente

\* A program gives back only what it asked for, and asks for nothing past its end.
ASSUME CargasJustas ==
    \A c \in Cargas : \A p \in Pids :
        /\ \A r \in Recursos : \A n \in 1 .. Len(c.programa[p]) + 1 :
              Saldo(c.programa[p], r, n) \in 0 .. Vuelta - 1
        /\ \A j, k \in 1 .. Len(c.programa[p]) :
              j < k /\ Final(c.programa[p][j]) => c.programa[p][k].recurso \notin Recursos

VARIABLES
    carga,          \* the one of Cargas that is run, chosen at the start
    instancias,     \* t_recurso_en_kernel.instancias, a signed integer
    asignadas,      \* recursos_asignados_por_proceso: for each resource a process has an
                    \* entry for, instancias_asignadas
    cola_recurso,   \* cola_de_bloqueados_por_recurso
    blocked, ready, exit,  \* queues of processes
    cola_io,        \* processes whose I/O is in progress
    estado,         \* estado_actual of each PCB
    eliminados,     \* processes destroyed
    pc,
    cpu_libre,      \* semaphore
    hilo,           \* recibir_dispatch and eliminacion_de_procesos: what they have left to
                    \* do, for which process, and the process they are waking up
    a_cpu, a_kernel,\* the dispatch socket, each way
    cpu, flags,     \* the CPU's thread and which of its flags are up
    vivo            \* FALSE once a module has used what does not exist

contables == <<instancias, asignadas, cola_recurso>>
colas == <<blocked, ready, exit, cola_io>>
cpuVars == <<pc, cpu, flags>>
sistema == <<contables, colas, estado, eliminados, cpu_libre, hilo, a_cpu, a_kernel, cpuVars, vivo>>
vars == <<carga, sistema>>

Programa == carga.programa

Hilos == {"dispatch", "eliminacion"}
Paso(op, r) == [op |-> op, recurso |-> r]
Pcb(p) == [tipo |-> "PCB", pid |-> p]
Respuesta(r) == [tipo |-> r, pid |-> Nadie]

Init ==
    /\ carga \in Cargas
    /\ instancias = Instancias
    /\ asignadas = [p \in Pids |-> <<>>]
    /\ cola_recurso = [r \in Recursos |-> <<>>]
    /\ blocked = <<>> /\ exit = <<>> /\ cola_io = <<>>
    /\ ready \in SetToSeqs(Pids)
    /\ estado = [p \in Pids |-> "READY"]
    /\ eliminados = {}
    /\ pc = [p \in Pids |-> 1]
    /\ cpu_libre = 1
    /\ hilo = [h \in Hilos |-> [pasos |-> <<>>, pid |-> Nadie, despierta |-> Nadie, indice |-> 0]]
    /\ a_cpu = <<>> /\ a_kernel = <<>>
    /\ cpu = [en |-> "libre", pid |-> Nadie]
    /\ flags = {}
    /\ vivo = TRUE

-----------------------------------------------------------------------------
(* The steps of the kernel's threads *)

Toca(h, op) == hilo[h].pasos # <<>> /\ Head(hilo[h].pasos).op = op
Recurso(h) == Head(hilo[h].pasos).recurso
Seguir(h, pasos) == hilo' = [hilo EXCEPT ![h].pasos = pasos \o Tail(@)]
Hecho(h) == Seguir(h, <<>>)

\* sumar_instancia_a_recurso, in the order in which it touches what other threads see.
PasosSumar(r) == <<Paso("sumar", r), Paso("mirar", r)>>
\* Mutant: list_get in the place of list_remove's process.
PasosDespertar_SinSacar(r) == <<Paso("buscar", r), Paso("desbloquear", r)>>
PasosDespertar(r) == <<Paso("sacar", r), Paso("buscar", r), Paso("desbloquear", r)>>

\* The instance is counted under a mutex ...
Sumar(h) ==
    /\ Toca(h, "sumar")
    /\ instancias' = [instancias EXCEPT ![Recurso(h)] = @ + 1]
    /\ Hecho(h)
    /\ UNCHANGED <<asignadas, cola_recurso, colas, estado, cpu_libre, a_cpu, a_kernel, cpuVars, eliminados, vivo>>

\* Mutant: the count has to be above zero.
HayQueDespertar_SiSobra(r) == instancias[r] > 0 /\ cola_recurso[r] # <<>>
HayQueDespertar(r) == instancias[r] >= 0 /\ cola_recurso[r] # <<>>

\* ... and looked at without it, as the length of the queue is.
Mirar(h) ==
    /\ Toca(h, "mirar")
    /\ Seguir(h, IF HayQueDespertar(Recurso(h)) THEN PasosDespertar(Recurso(h)) ELSE <<>>)
    /\ UNCHANGED <<contables, colas, estado, cpu_libre, a_cpu, a_kernel, cpuVars, eliminados, vivo>>

\* The first waiter leaves the queue, if another thread has not taken it meanwhile.
Sacar(h) ==
    /\ Toca(h, "sacar")
    /\ LET r == Recurso(h) IN
       IF cola_recurso[r] = <<>>
         THEN /\ hilo' = [hilo EXCEPT ![h].pasos = SubSeq(@, 4, Len(@))]
              /\ UNCHANGED cola_recurso
         ELSE /\ hilo' = [hilo EXCEPT ![h].pasos = Tail(@), ![h].despierta = Head(cola_recurso[r])]
              /\ cola_recurso' = [cola_recurso EXCEPT ![r] = Tail(@)]
    /\ UNCHANGED <<instancias, asignadas, colas, estado, cpu_libre, a_cpu, a_kernel, cpuVars, eliminados, vivo>>

\* buscar_index_pid_bloqueado; 0 is its -1.
IndiceBloqueado(p) == SelectInSeq(blocked, LAMBDA q : q = p)

Buscar(h) ==
    /\ Toca(h, "buscar")
    /\ hilo' = [hilo EXCEPT ![h].pasos = Tail(@), ![h].indice = IndiceBloqueado(hilo[h].despierta)]
    /\ UNCHANGED <<contables, colas, estado, cpu_libre, a_cpu, a_kernel, cpuVars, eliminados, vivo>>

\* The index found is removed, if the list still has it, and the process is put in READY.
Desbloquear(h) ==
    /\ Toca(h, "desbloquear")
    /\ LET k == hilo[h].indice IN
       blocked' = IF k \in 1 .. Len(blocked) THEN RemoveAt(blocked, k) ELSE blocked
    /\ ready' = Append(ready, hilo[h].despierta)
    /\ estado' = [estado EXCEPT ![hilo[h].despierta] = "READY"]
    /\ hilo' = [hilo EXCEPT ![h].pasos = Tail(@), ![h].despierta = Nadie, ![h].indice = 0]
    /\ UNCHANGED <<contables, exit, cola_io, cpu_libre, a_cpu, a_kernel, cpuVars, eliminados, vivo>>

\* iniciar_planificador_corto_plazo
Despachar ==
    /\ cpu_libre > 0 /\ ready # <<>>
    /\ cpu_libre' = cpu_libre - 1
    /\ ready' = Tail(ready)
    /\ estado' = [estado EXCEPT ![Head(ready)] = "EXEC"]
    /\ a_cpu' = Append(a_cpu, Pcb(Head(ready)))
    /\ UNCHANGED <<contables, blocked, exit, cola_io, hilo, a_kernel, cpuVars, eliminados, vivo>>

-----------------------------------------------------------------------------
(* recibir_dispatch *)

Contestar(r) == a_cpu' = Append(a_cpu, Respuesta(r))

\* What each reason of eviction leaves to do.
PasosDe(m) ==
    IF m.recurso \in Recursos
      THEN IF m.motivo = "WAIT_SOLICITADO"
             THEN <<Paso("restar", m.recurso), Paso("leer", m.recurso)>>
             ELSE PasosSumar(m.recurso) \o <<Paso("restar_retenida", m.recurso)>>
      ELSE CASE m.motivo = "WAIT_SOLICITADO" ->
                    <<Paso("fallar", Nadie), Paso("liberar_cpu", Nadie), Paso("finalizar", Nadie)>>
             [] m.motivo = "SIGNAL_SOLICITADO" ->
                    <<Paso("fallar", Nadie), Paso("finalizar", Nadie), Paso("liberar_cpu", Nadie)>>
             [] m.motivo = "END_PROCESS" -> <<Paso("finalizar", Nadie), Paso("liberar_cpu", Nadie)>>
             [] m.motivo = "FIN_CLOCK" -> <<Paso("desalojar", Nadie), Paso("liberar_cpu", Nadie)>>
             [] m.motivo = "OPERACION_IO" ->
                    <<Paso("bloquear", Nadie), Paso("encolar_io", Nadie), Paso("liberar_cpu", Nadie)>>
             [] m.motivo = "RESOURCE_BLOCKED" -> <<>>

Recibir ==
    /\ hilo["dispatch"].pasos = <<>>
    /\ a_kernel # <<>>
    /\ LET m == Head(a_kernel) IN
       hilo' = [hilo EXCEPT !["dispatch"].pasos = PasosDe(m), !["dispatch"].pid = m.pid]
    /\ a_kernel' = Tail(a_kernel)
    /\ UNCHANGED <<contables, colas, estado, cpu_libre, a_cpu, cpuVars, eliminados, vivo>>

\* restar_instancia_a_recurso counts under a mutex ...
Restar ==
    /\ Toca("dispatch", "restar")
    /\ instancias' = [instancias EXCEPT ![Recurso("dispatch")] = @ - 1]
    /\ Hecho("dispatch")
    /\ UNCHANGED <<asignadas, cola_recurso, colas, estado, cpu_libre, a_cpu, a_kernel, cpuVars, eliminados, vivo>>

\* retener_instancia_de_recurso
Retener(f, r) == [s \in DOMAIN f \union {r} |-> IF s # r THEN f[s] ELSE
                                                IF r \in DOMAIN f THEN (f[r] + 1) % Vuelta ELSE 1]

\* Mutant: the comparison with zero is off by one.
NoQueda_UnoMas(r) == instancias[r] < -1
NoQueda(r) == instancias[r] < 0

AvisarBloqueo == Contestar("RESOURCE_BLOCKED")

\* ... and returns what it reads without it.  The answer goes to the CPU before the
\* process is in the queue of the resource or in the list of blocked processes.
Leer ==
    /\ Toca("dispatch", "leer")
    /\ LET r == Recurso("dispatch") IN
       /\ asignadas' = [asignadas EXCEPT ![hilo["dispatch"].pid] = Retener(@, r)]
       /\ IF NoQueda(r)
            THEN /\ AvisarBloqueo
                 /\ Seguir("dispatch", <<Paso("encolar", r), Paso("bloquear", r), Paso("liberar_cpu", r)>>)
            ELSE Contestar("RESOURCE_OK") /\ Hecho("dispatch")
    /\ UNCHANGED <<instancias, cola_recurso, colas, estado, cpu_libre, a_kernel, cpuVars, eliminados, vivo>>

\* agregar_pcb_a_cola_bloqueados_de_recurso
Encolar ==
    /\ Toca("dispatch", "encolar")
    /\ cola_recurso' = [cola_recurso EXCEPT ![Recurso("dispatch")] = Append(@, hilo["dispatch"].pid)]
    /\ Hecho("dispatch")
    /\ UNCHANGED <<instancias, asignadas, colas, estado, cpu_libre, a_cpu, a_kernel, cpuVars, eliminados, vivo>>

\* bloquear_pcb
Bloquear ==
    /\ Toca("dispatch", "bloquear")
    /\ estado' = [estado EXCEPT ![hilo["dispatch"].pid] = "BLOCKED"]
    /\ blocked' = Append(blocked, hilo["dispatch"].pid)
    /\ Hecho("dispatch")
    /\ UNCHANGED <<contables, ready, exit, cola_io, cpu_libre, a_cpu, a_kernel, cpuVars, eliminados, vivo>>

\* OPERACION_IO: the process is queued on its interface once it is blocked.
EncolarIO ==
    /\ Toca("dispatch", "encolar_io")
    /\ cola_io' = Append(cola_io, hilo["dispatch"].pid)
    /\ Hecho("dispatch")
    /\ UNCHANGED <<contables, blocked, ready, exit, estado, cpu_libre, a_cpu, a_kernel, cpuVars, eliminados, vivo>>

\* atender_interfaz: an I/O ends, and list_remove_element takes its process out of the list.
TerminarIO ==
    /\ cola_io # <<>>
    /\ blocked' = RemoveFirst(blocked, Head(cola_io))
    /\ ready' = Append(ready, Head(cola_io))
    /\ estado' = [estado EXCEPT ![Head(cola_io)] = "READY"]
    /\ cola_io' = Tail(cola_io)
    /\ UNCHANGED <<contables, exit, cpu_libre, hilo, a_cpu, a_kernel, cpuVars, eliminados, vivo>>

LiberarCpu ==
    /\ Toca("dispatch", "liberar_cpu")
    /\ cpu_libre' = cpu_libre + 1
    /\ Hecho("dispatch")
    /\ UNCHANGED <<contables, colas, estado, a_cpu, a_kernel, cpuVars, eliminados, vivo>>

\* Mutant: nothing is subtracted.
Descontar_Nada(f, r) == f
Descontar(f, r) == IF r \in DOMAIN f THEN [f EXCEPT ![r] = (@ - 1) % Vuelta] ELSE f

\* restar_instancia_retenida_a_proceso, and the answer to SIGNAL.
RestarRetenida ==
    /\ Toca("dispatch", "restar_retenida")
    /\ asignadas' = [asignadas EXCEPT ![hilo["dispatch"].pid] = Descontar(@, Recurso("dispatch"))]
    /\ Contestar("RESOURCE_OK")
    /\ Hecho("dispatch")
    /\ UNCHANGED <<instancias, cola_recurso, colas, estado, cpu_libre, a_kernel, cpuVars, eliminados, vivo>>

\* The resource does not exist.
Fallar ==
    /\ Toca("dispatch", "fallar")
    /\ Contestar("RESOURCE_FAIL")
    /\ Hecho("dispatch")
    /\ UNCHANGED <<contables, colas, estado, cpu_libre, a_kernel, cpuVars, eliminados, vivo>>

\* finalizar_pcb
Finalizar ==
    /\ Toca("dispatch", "finalizar")
    /\ estado' = [estado EXCEPT ![hilo["dispatch"].pid] = "TERMINATED"]
    /\ exit' = Append(exit, hilo["dispatch"].pid)
    /\ Hecho("dispatch")
    /\ UNCHANGED <<contables, blocked, ready, cola_io, cpu_libre, a_cpu, a_kernel, cpuVars, eliminados, vivo>>

\* FIN_CLOCK
Desalojar ==
    /\ Toca("dispatch", "desalojar")
    /\ estado' = [estado EXCEPT ![hilo["dispatch"].pid] = "READY"]
    /\ ready' = Append(ready, hilo["dispatch"].pid)
    /\ Hecho("dispatch")
    /\ UNCHANGED <<contables, blocked, exit, cola_io, cpu_libre, a_cpu, a_kernel, cpuVars, eliminados, vivo>>

-----------------------------------------------------------------------------
(* eliminacion_de_procesos *)

\* liberar_recursos visits the resources that the process has an entry for: it leaves their
\* queue and gives back what it holds.  (The list's order is any.)
Repetir(n, paso) == [k \in 1 .. n |-> paso]
PasosLiberar(orden) ==
    [k \in 1 .. Len(orden) |-> Paso("quitar", orden[k])] \o <<Paso("destruir", Nadie)>>

\* A process that ends twice is looked for twice in the memory module, which does not
\* survive the second time.
EliminarProceso ==
    /\ hilo["eliminacion"].pasos = <<>>
    /\ exit # <<>>
    /\ LET p == Head(exit) IN
       IF p \in eliminados
         THEN vivo' = FALSE /\ UNCHANGED <<hilo, exit>>
         ELSE /\ \E orden \in SetToSeqs(DOMAIN asignadas[p]) :
                    hilo' = [hilo EXCEPT !["eliminacion"].pasos = PasosLiberar(orden),
                                         !["eliminacion"].pid = p]
              /\ exit' = Tail(exit)
              /\ UNCHANGED vivo
    /\ UNCHANGED <<contables, blocked, ready, cola_io, estado, cpu_libre, a_cpu, a_kernel, cpuVars, eliminados>>

\* eliminar_pcb_de_cola_bloqueados_de_recurso, and the loop over what the process has of it.
Quitar ==
    /\ Toca("eliminacion", "quitar")
    /\ LET p == hilo["eliminacion"].pid
           r == Recurso("eliminacion")
       IN  /\ cola_recurso' = [cola_recurso EXCEPT ![r] = IF Contains(@, p) THEN RemoveFirst(@, p) ELSE @]
           /\ Seguir("eliminacion", Repetir(asignadas[p][r], Paso("devolver", r)))
    /\ UNCHANGED <<instancias, asignadas, colas, estado, cpu_libre, a_cpu, a_kernel, cpuVars, eliminados, vivo>>

SeDevuelve(r) == instancias[r] < Instancias[r]

Devolver ==
    /\ Toca("eliminacion", "devolver")
    /\ LET r == Recurso("eliminacion") IN
       Seguir("eliminacion", IF SeDevuelve(r) THEN PasosSumar(r) ELSE <<>>)
    /\ UNCHANGED <<contables, colas, estado, cpu_libre, a_cpu, a_kernel, cpuVars, eliminados, vivo>>

Destruir ==
    /\ Toca("eliminacion", "destruir")
    /\ eliminados' = eliminados \union {hilo["eliminacion"].pid}
    /\ Hecho("eliminacion")
    /\ UNCHANGED <<contables, colas, estado, cpu_libre, a_cpu, a_kernel, cpuVars, vivo>>

-----------------------------------------------------------------------------
(* CPU: comenzar_proceso *)

Enviar(motivo, r) == <<[motivo |-> motivo, pid |-> cpu.pid, recurso |-> r]>>
Proxima == Programa[cpu.pid][pc[cpu.pid]]

CpuRecibe ==
    /\ cpu.en = "libre"
    /\ a_cpu # <<>> /\ Head(a_cpu).tipo = "PCB"
    /\ cpu' = [en |-> "ciclo", pid |-> Head(a_cpu).pid]
    /\ a_cpu' = Tail(a_cpu)
    /\ UNCHANGED <<contables, colas, estado, cpu_libre, hilo, a_kernel, pc, flags, eliminados, vivo>>

\* decode_y_execute_instruccion: WAIT and SIGNAL send the PCB and wait for an answer.
\* Memory has no instruction past the end of a program.
CpuEjecuta ==
    /\ cpu.en = "ciclo" /\ flags = {}
    /\ pc[cpu.pid] <= Len(Programa[cpu.pid])
    /\ pc' = [pc EXCEPT ![cpu.pid] = @ + 1]
    /\ IF Proxima.op \in {"WAIT", "SIGNAL"}
         THEN /\ a_kernel' = a_kernel \o Enviar(IF Proxima.op = "WAIT" THEN "WAIT_SOLICITADO"
                                                                      ELSE "SIGNAL_SOLICITADO",
                                                Proxima.recurso)
              /\ cpu' = [cpu EXCEPT !.en = "espera"]
              /\ UNCHANGED flags
         ELSE /\ flags' = IF Proxima.op = "EXIT" THEN {"end_process"} ELSE {"input_ouput"}
              /\ a_kernel' = a_kernel
                    \o (IF Proxima.op = "IO" THEN Enviar("OPERACION_IO", Nadie) ELSE <<>>)
              /\ cpu' = [cpu EXCEPT !.en = "chequear"]
    /\ UNCHANGED <<contables, colas, estado, cpu_libre, hilo, a_cpu, eliminados, vivo>>

\* The answer and the PCBs come through one socket: a PCB in the place of the answer is
\* read as one, and what follows is garbage.
CpuRespuesta ==
    /\ cpu.en = "espera"
    /\ a_cpu # <<>>
    /\ flags' = flags \union CASE Head(a_cpu).tipo = "RESOURCE_FAIL" -> {"end_process"}
                               [] Head(a_cpu).tipo = "RESOURCE_BLOCKED" -> {"bloqueado_por_resource"}
                               [] OTHER -> {}
    /\ vivo' = (Head(a_cpu).tipo # "PCB")
    /\ a_cpu' = Tail(a_cpu)
    /\ cpu' = [cpu EXCEPT !.en = "chequear"]
    /\ UNCHANGED <<contables, colas, estado, cpu_libre, hilo, a_kernel, pc, eliminados>>

\* check_interrupt
CpuChequea ==
    /\ cpu.en = "chequear"
    /\ \/ UNCHANGED flags
       \/ carga.quantum /\ flags' = flags \union {"interruption"}
    /\ cpu' = [cpu EXCEPT !.en = "ciclo"]
    /\ UNCHANGED <<contables, colas, estado, cpu_libre, hilo, a_cpu, a_kernel, pc, eliminados, vivo>>

\* A process that is interrupted in the round in which it blocks is sent back twice.
CpuTermina ==
    /\ cpu.en = "ciclo" /\ flags # {}
    /\ IF "end_process" \in flags
         THEN /\ a_kernel' = a_kernel \o Enviar("END_PROCESS", Nadie)
              /\ flags' = flags \ {"end_process", "interruption"}
         ELSE /\ a_kernel' = a_kernel
                    \o (IF "interruption" \in flags /\ "input_ouput" \notin flags
                          THEN Enviar("FIN_CLOCK", Nadie) ELSE <<>>)
                    \o (IF "bloqueado_por_resource" \in flags
                          THEN Enviar("RESOURCE_BLOCKED", Nadie) ELSE <<>>)
              /\ flags' = flags \intersect
                    (IF "input_ouput" \in flags THEN {"interruption"} ELSE {})
    /\ cpu' = [en |-> "libre", pid |-> Nadie]
    /\ UNCHANGED <<contables, colas, estado, cpu_libre, hilo, a_cpu, pc, eliminados, vivo>>

-----------------------------------------------------------------------------
SumarInstancia(h) == Sumar(h) \/ Mirar(h) \/ Sacar(h) \/ Buscar(h) \/ Desbloquear(h)
Dispatch == \/ Recibir \/ EncolarIO \/ Restar \/ Leer \/ Encolar \/ Bloquear \/ LiberarCpu \/ RestarRetenida
            \/ Fallar \/ Finalizar \/ Desalojar \/ SumarInstancia("dispatch")
Eliminacion == EliminarProceso \/ Quitar \/ Devolver \/ Destruir \/ SumarInstancia("eliminacion")
Cpu == CpuRecibe \/ CpuEjecuta \/ CpuRespuesta \/ CpuChequea \/ CpuTermina

Next == vivo /\ UNCHANGED carga /\ (Despachar \/ TerminarIO \/ Dispatch \/ Eliminacion \/ Cpu)

Spec == Init /\ [][Next]_vars

\* Each thread that can take a step takes one.
FairSpec == Spec /\ WF_sistema(Despachar) /\ WF_sistema(TerminarIO)
                 /\ WF_sistema(Dispatch) /\ WF_sistema(Eliminacion) /\ WF_sistema(Cpu)

-----------------------------------------------------------------------------
(* Properties *)

Motivos == {"WAIT_SOLICITADO", "SIGNAL_SOLICITADO", "END_PROCESS", "FIN_CLOCK", "RESOURCE_BLOCKED",
            "OPERACION_IO"}
Pasos == {"sumar", "mirar", "sacar", "buscar", "desbloquear", "restar", "leer", "encolar", "bloquear",
          "encolar_io", "liberar_cpu", "restar_retenida", "fallar", "finalizar", "desalojar", "quitar", "devolver",
          "destruir"}
PidsN == Pids \union {Nadie}

\* Types of the state.
TypeOK ==
    /\ instancias \in [Recursos -> Int]
    /\ \A p \in Pids : /\ DOMAIN asignadas[p] \subseteq Recursos
                       /\ \A r \in DOMAIN asignadas[p] : asignadas[p][r] \in 0 .. Vuelta - 1
    /\ cola_recurso \in [Recursos -> Seq(Pids)]
    /\ blocked \in Seq(Pids) /\ ready \in Seq(Pids) /\ exit \in Seq(Pids)
    /\ cola_io \in Seq(Pids)
    /\ estado \in [Pids -> {"READY", "EXEC", "BLOCKED", "TERMINATED"}]
    /\ eliminados \subseteq Pids
    /\ pc \in [Pids -> Nat \ {0}] /\ cpu_libre \in Nat
    /\ hilo \in [Hilos -> [pasos : Seq([op : Pasos, recurso : Recursos \union {Nadie}]),
                           pid : PidsN, despierta : PidsN, indice : Nat]]
    /\ a_cpu \in Seq([tipo : {"PCB", "RESOURCE_OK", "RESOURCE_FAIL", "RESOURCE_BLOCKED"}, pid : PidsN])
    /\ a_kernel \in Seq([motivo : Motivos, pid : Pids, recurso : Recursos \union {Nadie, Inexistente}])
    /\ cpu \in [en : {"libre", "ciclo", "espera", "chequear"}, pid : PidsN]
    /\ flags \subseteq {"end_process", "interruption", "input_ouput", "bloqueado_por_resource"}
    /\ vivo \in BOOLEAN

\* How many steps on r a thread has left to do.
Faltan(h, op, r) == Veces(hilo[h].pasos, Paso(op, r))

\* The process holds, or has asked for, so many instances of r, as recursos_asignados says.
Anotadas(f, r) == IF r \in DOMAIN f THEN f[r] ELSE 0
Total(a, r, S) == MapThenSumSet(LAMBDA p : Anotadas(a[p], r), S)

\* Each instance of a resource is in its counter, noted down for a process that has not been
\* destroyed, or on its way between the two in the hands of a thread: WAIT and SIGNAL of
\* recibir_dispatch and the release of eliminacion_de_procesos neither lose nor invent any.
\* (The programs signal only what they have waited for.)
Sueltas(r) ==
    Faltan("eliminacion", "devolver", r) + Faltan("eliminacion", "sumar", r)
      + Faltan("dispatch", "leer", r) - Faltan("dispatch", "restar", r)
      - (IF Faltan("dispatch", "restar_retenida", r) > 0
           THEN 1 - Faltan("dispatch", "sumar", r) ELSE 0)
\* Those that eliminacion_de_procesos has not come to, for this resource.
Retenedores(r) ==
    {p \in Pids : /\ p \notin eliminados
                  /\ hilo["eliminacion"].pasos # <<>> /\ hilo["eliminacion"].pid = p
                        => Faltan("eliminacion", "quitar", r) > 0}
CuentaInstancias ==
    \A r \in Recursos : instancias[r] + Sueltas(r) + Total(asignadas, r, Retenedores(r)) = Instancias[r]

\* The process is in the queue of the resource, or about to be.
Espera(p, r) ==
    \/ Contains(cola_recurso[r], p)
    \/ hilo["dispatch"].pid = p /\ Faltan("dispatch", "encolar", r) > 0

\* Instances of r granted to p and neither given back nor waiting to be, once p has ended.
Tiene(p, r) ==
    IF estado[p] = "TERMINATED" THEN 0
    ELSE Anotadas(asignadas[p], r)
           - (IF Espera(p, r) THEN 1 ELSE 0)
           - (IF hilo["dispatch"].pid = p /\ Faltan("dispatch", "restar_retenida", r) > 0
                THEN 1 - Faltan("dispatch", "sumar", r) ELSE 0)

\* How many times p's program has the instruction.
Usos(p, op, r) == Veces(Programa[p], [op |-> op, recurso |-> r])
Devueltos == {r \in Recursos : \A p \in Pids : Usos(p, "WAIT", r) = Usos(p, "SIGNAL", r)}

\* Only recibir_dispatch, or only eliminacion_de_procesos, gives back instances of r.
DeUnHilo(r) == r \in Devueltos \/ \A p \in Pids : Usos(p, "SIGNAL", r) = 0

\* Mutual exclusion: the processes never have, between them, more instances of a resource
\* than there are, although who gives one back wakes up a waiter in several steps, while
\* others wait.  It is stated for the resources that one thread gives back: when two do, one
\* may take the first waiter for the instance that the other has just given to somebody else.
ExclusionMutua ==
    \A r \in Recursos :
        DeUnHilo(r) /\ ~carga.quantum => MapThenSumSet(LAMBDA p : Tiene(p, r), Pids) <= Instancias[r]

\* A process that waits for a resource waits: it is not in READY, in EXIT, in the CPU or
\* doing I/O, until somebody takes it out of the queue of the resource, although the CPU
\* knows that it is blocked before it is in the queue, and others may see it there before it
\* is blocked.  (With quanta, a process may be interrupted where it blocks.)
EsperaQuieta ==
    \A p \in Pids :
        (\E r \in Recursos : Contains(cola_recurso[r], p)) /\ ~carga.quantum =>
            /\ ~Contains(ready, p) /\ ~Contains(exit, p) /\ ~Contains(cola_io, p)
            /\ ~Contains(a_cpu, Pcb(p))
            /\ (estado[p] = "BLOCKED" \/ hilo["dispatch"].pid = p)

\* Nobody uses a resource while another has it, nor goes on while it waits for one.
UsoExclusivo == ExclusionMutua /\ EsperaQuieta

\* Every process that waits only for resources that everybody gives back ends: SIGNAL wakes up
\* the one that waits.  (Where a process ends with an instance, the release may count it before
\* the next waiter is in the queue, and wake up nobody; and who asks for a resource that does
\* not exist is finalized twice.)
SoloDevueltos(p) == \A k \in DOMAIN Programa[p] : Programa[p][k].op = "WAIT" => Programa[p][k].recurso \in Devueltos
NadieFalla == \A p \in Pids : Usos(p, "WAIT", Inexistente) = 0 /\ Usos(p, "SIGNAL", Inexistente) = 0
TodosTerminan ==
    ~carga.quantum /\ NadieFalla => \A p \in Pids : SoloDevueltos(p) => <>(p \in eliminados)
=============================================================================
