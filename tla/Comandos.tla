------------------------------ MODULE Comandos ------------------------------
(***************************************************************************)
(* The console commands that reach into the planners, over the scheduling  *)
(* core of Planificador: FINALIZAR_PROCESO (with KILL_PROCESS in the CPU   *)
(* and in recibir_dispatch) and MULTIPROGRAMACION; and the socket          *)
(* conexion_memoria, on which the console and eliminacion_de_procesos talk *)
(* to the memory module without a lock.                                    *)
(*                                                                         *)
(* The memory module answers its requests in order with the operation it   *)
(* was asked for, so `respuestas` holds an answer from the moment of the   *)
(* request; whoever calls recibir_operacion first takes the first one.     *)
(*                                                                         *)
(* FIFO only: no quanta and nothing in ready_plus.  No stops of planning   *)
(* and no resources.  A process that is blocked waits for an I/O, on an    *)
(* interface connected from the start.                                     *)
(***************************************************************************)
EXTENDS Planificador

CONSTANTS
    MaxFinales,   \* bound: how many FINALIZAR_PROCESO are typed
    MaxCambios,   \* bound: how many MULTIPROGRAMACION are typed
    Grados        \* the degrees that MULTIPROGRAMACION asks for

ASSUME ComandosOK ==
    /\ Algoritmo = "FIFO" /\ ResultadosIO = {"IO_SUCCESS"} /\ Conectadas = Interfaces
    /\ MaxFinales \in Nat /\ MaxCambios \in Nat /\ Grados \subseteq Nat

VARIABLES
    objetivo,                \* FINALIZAR_PROCESO: pid, index and state that it read, and the
                             \* elements of a queue it has looked at
    podes_eliminar_loko,     \* semaphore
    flag_grado_multi,        \* places that are not to be given back
    grado_multiprogramacion,
    foto,                    \* flag_grado_multi as a thread loaded it to subtract one
    cambio,                  \* MULTIPROGRAMACION: sem_waits still to do, places taken, debt
    respuestas,              \* conexion_memoria: answers on their way to the kernel
    finales, cambios,        \* FINALIZAR_PROCESO and MULTIPROGRAMACION typed so far
    liberado,                \* somebody has freed the PCB that FINALIZAR_PROCESO holds
    carrera,                 \* history: somebody else moved the target of FINALIZAR_PROCESO or
                             \* the list it holds an index of, or the target could not be taken
    olvido,                  \* history: an update of flag_grado_multi has been lost
    cruce                    \* history: a creation and the end of another process have waited
                             \* for their answers at the same time

grados  == <<flag_grado_multi, grado_multiprogramacion, foto, cambio, cambios>>
pedido  == <<objetivo, podes_eliminar_loko, finales>>
cuenta  == <<pedido, grados, respuestas>>
varsC   == <<vars, cuenta, liberado, carrera, olvido, cruce>>

SinObjetivo == [pid |-> Nadie, estado |-> "SIN_CREAR", indice |-> Nadie, vistos |-> 0]
SinCambio   == [esperas |-> 0, tomadas |-> 0, grado |-> 0, deuda |-> Nadie]

InitC ==
    /\ Init
    /\ objetivo = SinObjetivo /\ podes_eliminar_loko = 0 /\ finales = 0
    /\ flag_grado_multi = 0 /\ grado_multiprogramacion = Grado
    /\ foto = [h \in {"consola", "eliminacion"} |-> 0]
    /\ cambio = SinCambio /\ cambios = 0
    /\ respuestas = <<>>
    /\ liberado = FALSE /\ carrera = FALSE /\ olvido = FALSE /\ cruce = FALSE

\* Groups of Planificador's variables that the console leaves alone.
noSemNiHilo == <<cola, estado, resto>>
noLista == <<indice, mensaje, io, reloj, control, cpuVars, canal, kernel_vivo>>

-----------------------------------------------------------------------------
(* conexion_memoria *)

Pedir(op) == respuestas' = Append(respuestas, op)

\* recibir_operacion(conexion_memoria) and the comparison of its result.
Recibir(op, bien, mal) ==
    /\ respuestas # <<>>
    /\ respuestas' = Tail(respuestas)
    /\ IF Head(respuestas) = op THEN bien ELSE mal

\* INICIAR_PROCESO asks memory for the process ...
PedirCreacion ==
    /\ En("consola", "comando")
    /\ contador_pid < MaxPids
    /\ Pedir("CREAR_PROCESO")
    /\ Ir("consola", "crear")
    /\ UNCHANGED <<sem, noSemNiHilo, pedido, grados>>

\* Mutant: the answer to an INICIAR_PROCESO is not read.
RecibirCreacion_SinLeer ==
    /\ En("consola", "crear")
    /\ set_add_pcb_cola("consola", contador_pid, "NEW", "new", "post_nuevo")
    /\ UNCHANGED <<sem, resto, cuenta>>

\* ... and gives up without a word, and without counting the pid, if the answer is another's.
RecibirCreacion ==
    /\ En("consola", "crear")
    /\ Recibir("CREAR_PROCESO",
               set_add_pcb_cola("consola", contador_pid, "NEW", "new", "post_nuevo"),
               Ir("consola", "comando") /\ UNCHANGED <<cola, estado>>)
    /\ UNCHANGED <<sem, resto, pedido, grados>>

\* creacion_de_procesos locks mutex_cola_de_new, which FINALIZAR_PROCESO may be holding.
CreacionTomaPlaza ==
    /\ En("creacion", "grado")
    /\ Esperar("grado_multi")
    /\ Ir("creacion", "tomar_new")
    /\ UNCHANGED <<noSemNiHilo, cuenta>>
CreacionTomaMutex ==
    /\ En("creacion", "tomar_new")
    /\ ~En("consola", "pop_new")
    /\ Ir("creacion", "pop_new")
    /\ UNCHANGED <<sem, noSemNiHilo, cuenta>>

\* eliminacion_de_procesos: the index is read, then END_PROCESS is sent.
EliminacionPide ==
    /\ EliminacionPopExit
    /\ Pedir("END_PROCESS")
    /\ UNCHANGED <<pedido, grados>>

\* list_remove does nothing with an index out of the list.
Quitar(s, k) == IF k \in 1 .. Len(s) THEN RemoveAt(s, k) ELSE s

-----------------------------------------------------------------------------
(* Places of the degree of multiprogramming *)

\* if (flag_grado_multi == 0) sem_post(&grado_multi), in a step with what follows (bien);
\* else flag_grado_multi -= 1, a load and a store, in the next two.
DevolverPlaza(h, semaforos, bien) ==
    IF flag_grado_multi = 0
      THEN sem' = [semaforos EXCEPT !["grado_multi"] = @ + 1] /\ bien
      ELSE sem' = semaforos /\ Ir(h, "restar") /\ UNCHANGED <<estado, flag_cpu_libre>>

\* The end of eliminacion_de_procesos, and of FINALIZAR_PROCESO: the PCB is destroyed.
EliminacionCierra ==
    /\ estado' = [estado EXCEPT ![hilo["eliminacion"].pcb] = "DESTRUIDO"]
    /\ IrCon("eliminacion", "hay_exit", Nadie)
    /\ UNCHANGED flag_cpu_libre

\* An answer to somebody else ends the thread: nothing is given back any more.
EliminacionRecibe ==
    /\ En("eliminacion", "memoria")
    /\ Recibir("END_PROCESS",
               /\ procesos_en_sistema' = Quitar(procesos_en_sistema, indice)
               /\ indice' = Nadie
               /\ DevolverPlaza("eliminacion", sem, EliminacionCierra),
               /\ Ir("eliminacion", "terminada")
               /\ UNCHANGED <<sem, procesos_en_sistema, indice, estado, flag_cpu_libre>>)
    /\ UNCHANGED <<cola, mensaje, io, pcb_en_ejecucion, colgante, control, cpuVars, canal,
                   kernel_vivo, pedido, grados>>

LeerFlag(h) ==
    /\ En(h, "restar")
    /\ foto' = [foto EXCEPT ![h] = flag_grado_multi]
    /\ Ir(h, "guardar")
    /\ UNCHANGED <<sem, noSemNiHilo, pedido, flag_grado_multi, grado_multiprogramacion, cambio,
                   cambios, respuestas>>

\* What is left to do once the place has been given back, or not.
FinCierra ==
    /\ estado' = [estado EXCEPT ![objetivo.pid] = "DESTRUIDO"]
    /\ kernel_vivo' = (Lugares(objetivo.pid) = {})     \* destruir_pcb of a PCB in use
    /\ IrCon("consola", "comando", Nadie)
FinSigue ==
    IF objetivo.estado = "EXEC"
      THEN FinCierra /\ flag_cpu_libre' = 1
      ELSE Ir("consola", "fin_lista") /\ UNCHANGED <<estado, flag_cpu_libre, kernel_vivo>>

GuardarFlag(h) ==
    /\ En(h, "guardar")
    /\ flag_grado_multi' = foto[h] - 1
    /\ IF h = "consola" THEN FinSigue ELSE EliminacionCierra /\ UNCHANGED kernel_vivo
    /\ UNCHANGED <<sem, cola, sistema, mensaje, io, pcb_en_ejecucion, colgante, control, cpuVars,
                   canal, pedido, grado_multiprogramacion, foto, cambio, cambios, respuestas>>

\* MULTIPROGRAMACION: a larger degree posts the new places at once; a smaller one looks at
\* how many are free, takes those, and leaves the rest as a debt.
Multiprogramacion(n) ==
    /\ En("consola", "comando")
    /\ cambios < MaxCambios
    /\ cambios' = cambios + 1
    /\ IF grado_multiprogramacion < n
         THEN /\ sem' = [sem EXCEPT !["grado_multi"] = @ + (n - grado_multiprogramacion)]
              /\ grado_multiprogramacion' = n
              /\ UNCHANGED <<hilo, cambio>>
         ELSE LET sobran == grado_multiprogramacion - n
                  libres == sem["grado_multi"]
              IN /\ cambio' = [tomadas |-> 0, grado |-> n,
                               esperas |-> IF libres >= sobran THEN sobran ELSE libres,
                               deuda |-> IF libres >= sobran THEN Nadie ELSE sobran - libres]
                 /\ Ir("consola", "cambiar")
                 /\ UNCHANGED <<sem, grado_multiprogramacion>>
    /\ UNCHANGED <<noSemNiHilo, pedido, flag_grado_multi, foto, respuestas>>

\* Mutant: one sem_wait too many.
CambiarEspera_UnaMas ==
    /\ En("consola", "cambiar")
    /\ cambio.esperas >= 0
    /\ Esperar("grado_multi")
    /\ cambio' = [cambio EXCEPT !.esperas = @ - 1, !.tomadas = @ + 1]
    /\ UNCHANGED <<hilo, noSemNiHilo, pedido, flag_grado_multi, grado_multiprogramacion, foto,
                   cambios, respuestas>>

CambiarEspera ==
    /\ En("consola", "cambiar")
    /\ cambio.esperas > 0
    /\ Esperar("grado_multi")
    /\ cambio' = [cambio EXCEPT !.esperas = @ - 1, !.tomadas = @ + 1]
    /\ UNCHANGED <<hilo, noSemNiHilo, pedido, flag_grado_multi, grado_multiprogramacion, foto,
                   cambios, respuestas>>

\* Mutant: the assignment is out of the else.
CambiarFija_SinElse ==
    /\ En("consola", "cambiar")
    /\ cambio.esperas = 0
    /\ flag_grado_multi' = IF cambio.deuda = Nadie THEN 0 ELSE cambio.deuda
    /\ grado_multiprogramacion' = cambio.grado
    /\ cambio' = SinCambio
    /\ Ir("consola", "comando")
    /\ UNCHANGED <<sem, noSemNiHilo, pedido, foto, cambios, respuestas>>

\* The debt is assigned, not added.
CambiarFija ==
    /\ En("consola", "cambiar")
    /\ cambio.esperas = 0
    /\ flag_grado_multi' = IF cambio.deuda = Nadie THEN flag_grado_multi ELSE cambio.deuda
    /\ grado_multiprogramacion' = cambio.grado
    /\ cambio' = SinCambio
    /\ Ir("consola", "comando")
    /\ UNCHANGED <<sem, noSemNiHilo, pedido, foto, cambios, respuestas>>

-----------------------------------------------------------------------------
(* FINALIZAR_PROCESO *)

\* The process is looked for in procesos_en_sistema, and then where its state says.  In EXEC,
\* KILL_PROCESS is sent to the CPU at once, and the console waits for recibir_dispatch.
Finalizar(p) ==
    /\ En("consola", "comando")
    /\ finales < MaxFinales
    /\ Contains(procesos_en_sistema, p)
    /\ finales' = finales + 1
    /\ objetivo' = [pid |-> p, estado |-> estado[p], indice |-> Indice(procesos_en_sistema, p),
                    vistos |-> 0]
    /\ Ir("consola", CASE estado[p] = "NEW"     -> "fin_new"
                       [] estado[p] = "READY"   -> "fin_ready"
                       [] estado[p] = "EXEC"    -> "fin_espera"
                       [] estado[p] = "BLOCKED" -> "fin_blocked"
                       [] OTHER                 -> "fin_lista")
    /\ IF estado[p] = "EXEC"
         THEN /\ Len(interrupt) < MaxInterrupciones
              /\ interrupt' = Append(interrupt, [motivo |-> "KILL_PROCESS", pid |-> p])
         ELSE UNCHANGED interrupt
    /\ UNCHANGED <<sem, cola, estado, sistema, mensaje, io, reloj, control, cpuVars, a_cpu, a_kernel,
                   kernel_vivo, podes_eliminar_loko, grados, respuestas>>

\* for (i < queue_size(...)): the size is read without the mutex that the pop takes.
FinMiraCola ==
    /\ \E c \in {"new", "blocked"} :
          /\ En("consola", IF c = "new" THEN "fin_new" ELSE "fin_blocked")
          /\ Ir("consola", IF objetivo.vistos >= Len(cola[c]) THEN "fin_lista"
                           ELSE IF c = "new" THEN "sacar_new" ELSE "sacar_blocked")
    /\ UNCHANGED <<sem, noSemNiHilo, cuenta>>

\* Mutant: the target is pushed back like the others.
FinSacaNew_SinSacar ==
    /\ En("consola", "sacar_new")
    /\ ~En("creacion", "pop_new")
    /\ IF cola["new"] = <<>>
         THEN Caer /\ UNCHANGED objetivo
         ELSE LET p == Head(cola["new"]) IN
              /\ cola' = [cola EXCEPT !["new"] = Append(Tail(@), p)]
              /\ objetivo' = [objetivo EXCEPT !.vistos = @ + B(p # objetivo.pid)]
              /\ Ir("consola", IF p = objetivo.pid THEN "pop_new" ELSE "fin_new")
              /\ UNCHANGED <<sem, estado, resto>>
    /\ UNCHANGED <<podes_eliminar_loko, finales, grados, respuestas>>

FinSacaNew ==
    /\ En("consola", "sacar_new")
    /\ ~En("creacion", "pop_new")
    /\ IF cola["new"] = <<>>
         THEN Caer /\ UNCHANGED objetivo
         ELSE LET p == Head(cola["new"]) IN
              /\ IF p = objetivo.pid
                   THEN /\ cola' = [cola EXCEPT !["new"] = Tail(@)]
                        /\ Ir("consola", "pop_new")
                        /\ UNCHANGED objetivo
                   ELSE /\ cola' = [cola EXCEPT !["new"] = Append(Tail(@), p)]
                        /\ objetivo' = [objetivo EXCEPT !.vistos = @ + 1]
                        /\ Ir("consola", "fin_new")
              /\ UNCHANGED <<sem, estado, resto>>
    /\ UNCHANGED <<podes_eliminar_loko, finales, grados, respuestas>>

\* The unit of hay_proceso_nuevo is taken with mutex_cola_de_new held.
FinTomaNuevo ==
    /\ En("consola", "pop_new")
    /\ Esperar("hay_proceso_nuevo")
    /\ Ir("consola", "fin_lista")
    /\ UNCHANGED <<noSemNiHilo, cuenta>>

\* The scan of READY: the others are popped and pushed again, and after the removal the
\* bound of the loop is one less, so that the last one ends up in front.
Escaneada(s, p) ==
    LET k    == Indice(s, p)
        giro == SubSeq(s, k + 1, Len(s)) \o SubSeq(s, 1, k - 1)
        n    == Len(giro)
    IN IF k > n THEN giro
       ELSE SubSeq(giro, n - k + 1, n) \o SubSeq(giro, 1, n - k)

\* Mutant: the target is found, and stays in the queue.
FinBuscaReady_SinSacar ==
    /\ \E c \in {"ready", "plus"} :
          /\ En("consola", IF c = "ready" THEN "fin_ready" ELSE "fin_plus")
          /\ ~MutexTomado(c)
          /\ Ir("consola", IF Contains(cola[c], objetivo.pid)
                             THEN IF c = "ready" THEN "pop_ready" ELSE "pop_plus"
                             ELSE IF c = "ready" THEN "fin_plus" ELSE "fin_lista")
    /\ UNCHANGED <<sem, cola, estado, resto, cuenta>>

\* READY first, and ready_plus if it was not there, each under its mutex.
FinBuscaReady ==
    /\ \E c \in {"ready", "plus"} :
          /\ En("consola", IF c = "ready" THEN "fin_ready" ELSE "fin_plus")
          /\ ~MutexTomado(c)
          /\ IF Contains(cola[c], objetivo.pid)
               THEN /\ cola' = [cola EXCEPT ![c] = Escaneada(@, objetivo.pid)]
                    /\ Ir("consola", IF c = "ready" THEN "pop_ready" ELSE "pop_plus")
               ELSE /\ Ir("consola", IF c = "ready" THEN "fin_plus" ELSE "fin_lista")
                    /\ UNCHANGED cola
    /\ UNCHANGED <<sem, estado, resto, cuenta>>

\* The unit of hay_proceso_a_ready is taken with the mutex held; then the place is given back.
FinTomaReady ==
    /\ hilo["consola"].en \in {"pop_ready", "pop_plus"}
    /\ sem["hay_proceso_a_ready"] > 0
    /\ DevolverPlaza("consola", Sin("hay_proceso_a_ready"),
                     Ir("consola", "fin_lista") /\ UNCHANGED <<estado, flag_cpu_libre>>)
    /\ UNCHANGED <<cola, sistema, mensaje, io, pcb_en_ejecucion, colgante, control, cpuVars, canal,
                   kernel_vivo, cuenta>>

FinDespierta ==
    /\ En("consola", "fin_espera")
    /\ podes_eliminar_loko > 0
    /\ podes_eliminar_loko' = podes_eliminar_loko - 1
    /\ Ir("consola", "fin_lista")
    /\ UNCHANGED <<sem, noSemNiHilo, objetivo, finales, grados, respuestas>>

\* Mutant: podes_eliminar_loko is not posted.
DispatchMata_SinPost ==
    /\ En("dispatch", "atender")
    /\ mensaje.motivo = "KILL_PROCESS"
    /\ flag_cpu_libre' = 1
    /\ IrCon("dispatch", "recibir", Nadie)
    /\ UNCHANGED <<sem, cola, sistema, mensaje, io, pcb_en_ejecucion, colgante, control, cpuVars,
                   estado, canal, kernel_vivo, pedido, grados, respuestas>>

\* case KILL_PROCESS of recibir_dispatch, which does not look at whose PCB it has, posts
\* podes_eliminar_loko and raises flag_cpu_libre; cpu_libre is left to the console.
DispatchMata ==
    /\ En("dispatch", "atender")
    /\ mensaje.motivo = "KILL_PROCESS"
    /\ podes_eliminar_loko' = podes_eliminar_loko + 1
    /\ flag_cpu_libre' = 1
    /\ IrCon("dispatch", "recibir", Nadie)
    /\ UNCHANGED <<sem, cola, sistema, mensaje, io, pcb_en_ejecucion, colgante, control, cpuVars,
                   estado, canal, kernel_vivo, objetivo, finales, grados, respuestas>>

\* BLOCKED: only lista_procesos_blocked is looked at, not the queue of the interface.
FinSacaBlocked ==
    /\ En("consola", "sacar_blocked")
    /\ LET k == objetivo.vistos + 1 IN
       IF k > Len(cola["blocked"])
         THEN Caer /\ UNCHANGED objetivo
         ELSE /\ IF cola["blocked"][k] = objetivo.pid
                   THEN /\ cola' = [cola EXCEPT !["blocked"] = RemoveAt(@, k)]
                        /\ DevolverPlaza("consola", sem, Ir("consola", "fin_lista")
                                                         /\ UNCHANGED <<estado, flag_cpu_libre>>)
                        /\ UNCHANGED objetivo
                   ELSE /\ objetivo' = [objetivo EXCEPT !.vistos = k]
                        /\ Ir("consola", "fin_blocked")
                        /\ UNCHANGED <<sem, cola, estado, flag_cpu_libre>>
              /\ UNCHANGED <<sistema, mensaje, io, pcb_en_ejecucion, colgante, control, cpuVars,
                             canal, kernel_vivo>>
    /\ UNCHANGED <<podes_eliminar_loko, finales, grados, respuestas>>

\* Whatever was found: list_remove at the index read before, and END_PROCESS to memory.
FinQuita ==
    /\ En("consola", "fin_lista")
    /\ procesos_en_sistema' = Quitar(procesos_en_sistema, objetivo.indice)
    /\ Pedir("END_PROCESS")
    /\ Ir("consola", "fin_memoria")
    /\ UNCHANGED <<sem, cola, noLista, estado, pedido, grados>>

FinRecibe ==
    /\ En("consola", "fin_memoria")
    /\ Recibir("END_PROCESS", Ir("consola", "fin_estado"), Ir("consola", "comando"))
    /\ UNCHANGED <<sem, noSemNiHilo, pedido, grados>>

\* The state is read again from the PCB that was found at the beginning.  If it is EXEC,
\* the CPU is given back, and then the place.
FinEstado ==
    /\ En("consola", "fin_estado")
    /\ IF liberado
         THEN Caer
         ELSE /\ IF estado[objetivo.pid] = "EXEC"
                   THEN /\ Postear("cpu_libre") /\ Ir("consola", "fin_plaza")
                        /\ UNCHANGED <<estado, kernel_vivo>>
                   ELSE FinCierra /\ UNCHANGED sem
              /\ UNCHANGED <<cola, sistema, mensaje, io, reloj, control, cpuVars, canal>>
    /\ objetivo' = [objetivo EXCEPT !.estado = estado[objetivo.pid]]
    /\ UNCHANGED <<podes_eliminar_loko, finales, grados, respuestas>>

FinPlaza ==
    /\ En("consola", "fin_plaza")
    /\ IF flag_grado_multi = 0
         THEN Postear("grado_multi") /\ FinCierra /\ flag_cpu_libre' = 1
         ELSE Ir("consola", "restar") /\ UNCHANGED <<sem, estado, flag_cpu_libre, kernel_vivo>>
    /\ UNCHANGED <<cola, sistema, mensaje, io, pcb_en_ejecucion, colgante, control, cpuVars, canal,
                   cuenta>>

-----------------------------------------------------------------------------
(* History *)

\* FINALIZAR_PROCESO looks for its target, and may still use the index it read.
Busca == {"fin_new", "sacar_new", "fin_ready", "fin_plus", "fin_espera", "fin_blocked",
          "sacar_blocked"}
ConIndice == Busca \union {"pop_new", "pop_ready", "pop_plus", "restar", "guardar", "fin_lista"}

\* The process is where its state says, and will be until somebody moves it.
EnSuLugar(p) ==
    \/ estado[p] = "NEW"   /\ Contains(cola["new"], p)
    \/ estado[p] = "READY" /\ Contains(cola["ready"], p)
    \/ estado[p] = "EXEC"  /\ (\A m \in ToSet(a_kernel) : m.pid # p) /\ hilo["dispatch"].pcb # p

Dejo(p) == IF objetivo.estado = "EXEC"
             THEN \E m \in ToSet(a_kernel) : m.pid = p /\ m.motivo # "KILL_PROCESS"
             ELSE ~Contains(cola["new"], p) /\ ~Contains(cola["ready"], p)

\* Somebody else moves the target, or changes the list while an index of it is held.
Corre ==
    \/ En("consola", "comando") /\ objetivo' # objetivo /\ ~EnSuLugar(objetivo'.pid)
    \/ hilo["consola"].en \in Busca /\ hilo'["consola"] = hilo["consola"] /\ Dejo(objetivo.pid)'
    \/ /\ Len(procesos_en_sistema') < Len(procesos_en_sistema)
       /\ IF En("consola", "fin_lista") /\ hilo'["consola"] # hilo["consola"]
            THEN indice # Nadie
            ELSE hilo["consola"].en \in ConIndice

\* flag_grado_multi is overwritten: a debt with another, or a value by one computed before it.
Olvida ==
    \/ /\ En("consola", "cambiar") /\ hilo'["consola"].en = "comando"
       /\ cambio.deuda # Nadie /\ flag_grado_multi # 0
    \/ \E h \in {"consola", "eliminacion"} :
          En(h, "guardar") /\ hilo'[h].en # "guardar" /\ foto[h] # flag_grado_multi

Anotar ==
    /\ carrera' = (carrera \/ Corre)
    /\ liberado' = IF objetivo'.pid # objetivo.pid THEN FALSE
                   ELSE \/ liberado
                        \/ /\ objetivo.pid # Nadie /\ hilo'["consola"] = hilo["consola"]
                           /\ estado'[objetivo.pid] # estado[objetivo.pid]
                           /\ estado'[objetivo.pid] \in {"BLOCKED", "TERMINATED", "DESTRUIDO"}
    /\ olvido' = (olvido \/ Olvida)
    /\ cruce' = (cruce \/ (En("consola", "crear") /\ En("eliminacion", "memoria"))')

-----------------------------------------------------------------------------
\* The steps of Planificador that stay as they are.  FIFO never wakes verificar_quantum.
CreacionIgual == CreacionEsperaNuevo \/ CreacionPopNew \/ CreacionAgrega \/ CreacionAvisa
                 \/ Listar("creacion")
CortoIgual == CortoEsperaReady \/ CortoEsperaCpu \/ CortoElige \/ CortoPop \/ CortoSetea \/ CortoEnvia
DispatchIgual == \/ DispatchRecibe \/ DispatchLevantaFlag \/ DispatchBloquea \/ DispatchEncolaIO
                 \/ DispatchFinaliza \/ DispatchLiberaCpu
InterfazIgual(i) == \/ InterfazEsperaInstruccion(i) \/ InterfazEnvia(i) \/ InterfazResponde(i)
                    \/ InterfazDesbloquea(i) \/ InterfazAgrega(i) \/ InterfazAvisa(i) \/ Listar(i)

Igual(accion) == accion /\ UNCHANGED cuenta

CreacionC == Igual(CreacionIgual) \/ CreacionTomaPlaza \/ CreacionTomaMutex
EliminacionC == \/ Igual(EliminacionEsperaExit) \/ EliminacionPide \/ EliminacionRecibe
                \/ LeerFlag("eliminacion") \/ GuardarFlag("eliminacion")
DispatchC == Igual(DispatchIgual) \/ DispatchMata
FinalizarSigue ==
    \/ FinMiraCola \/ FinSacaNew \/ FinTomaNuevo \/ FinBuscaReady \/ FinTomaReady
    \/ FinDespierta \/ FinSacaBlocked \/ FinQuita \/ FinRecibe
    \/ FinEstado \/ FinPlaza \/ LeerFlag("consola") \/ GuardarFlag("consola")
ConsolaSigueC == RecibirCreacion \/ Igual(ConsolaSigue) \/ FinalizarSigue \/ CambiarEspera \/ CambiarFija
ComandoNuevo == PedirCreacion \/ (\E p \in Pids : Finalizar(p)) \/ (\E n \in Grados : Multiprogramacion(n))

\* What happens when nobody types a new command.
Sigue ==
    \/ ConsolaSigueC \/ CreacionC \/ EliminacionC \/ DispatchC
    \/ Igual(CortoIgual) \/ Igual(CpuDispatch) \/ Igual(CpuRecibeInterrupcion)
    \/ \E i \in Interfaces : Igual(InterfazIgual(i))
NextC == kernel_vivo /\ (ComandoNuevo \/ Sigue) /\ Anotar

SpecC == InitC /\ [][NextC]_varsC

-----------------------------------------------------------------------------
(* Properties *)

EtiquetasC ==
    Etiquetas \union ConIndice \union
    {"crear", "tomar_new", "terminada", "cambiar", "fin_memoria", "fin_estado", "fin_plaza"}

\* Types of the state of the commands, and of the channels that also carry KILL_PROCESS.
TypeOKC ==
    /\ TipoColas /\ TipoControl
    /\ hilo \in [Hilos -> [en : EtiquetasC, pcb : Pids \union {Nadie}]]
    /\ \A m \in ToSet(interrupt) : m.motivo = "KILL_PROCESS" /\ m.pid \in Pids
    /\ \A m \in ToSet(a_kernel) : m.motivo \in {"KILL_PROCESS", "END_PROCESS", "OPERACION_IO"}
    /\ objetivo \in [pid : Pids \union {Nadie}, estado : Ciclo!Estados,
                     indice : Nat \union {Nadie}, vistos : Nat]
    /\ podes_eliminar_loko \in Nat /\ flag_grado_multi \in Int /\ grado_multiprogramacion \in Nat
    /\ foto \in [{"consola", "eliminacion"} -> Int]
    /\ cambio \in [esperas : Nat, tomadas : Nat, grado : Nat, deuda : Nat \union {Nadie}]
    /\ respuestas \in Seq({"CREAR_PROCESO", "END_PROCESS"})

\* FINALIZAR_PROCESO brings the kernel down (a pop of an empty queue, an I/O whose process
\* is gone, a PCB destroyed while somebody has it) only if somebody else moved its target
\* or the list meanwhile, or the target was in an I/O or in EXIT.
FinalizarSeguro == ~kernel_vivo => carrera

\* The process that FINALIZAR_PROCESO has taken out of its place and not destroyed yet.
EnManoConsola(p) ==
    /\ objetivo.pid = p
    /\ \/ hilo["consola"].en \in (ConIndice \ Busca) \union {"fin_memoria", "fin_estado", "fin_plaza"}
       \/ podes_eliminar_loko > 0
EnManoEliminacion(p) == hilo["eliminacion"].pcb = p /\ hilo["eliminacion"].en \in {"restar", "guardar", "terminada"}

\* Each live process is in one place, whether a FINALIZAR_PROCESO takes it or another, and
\* none is lost, as long as no command raced (carrera) nor took another's answer (cruce).
UnLugar ==
    ~carrera /\ ~cruce =>
        \A p \in Pids : LET n == Cardinality(Lugares(p)) + B(EnManoConsola(p)) + B(EnManoEliminacion(p))
                      IN n <= 1 /\ (estado[p] \notin {"SIN_CREAR", "DESTRUIDO"} => n = 1)

\* procesos_en_sistema keeps every process that was registered and not taken away, once, and
\* not the one that was: the index that FINALIZAR_PROCESO carries from its search to
\* list_remove still is its process's.  (One that ends before it is registered stays.)
Registrados == {p \in Pids : estado[p] # "SIN_CREAR" /\ p < contador_pid}
Retirados == {p \in Pids :
    \/ estado[p] = "DESTRUIDO"
    \/ EnManoConsola(p) /\ hilo["consola"].en \in {"fin_memoria", "fin_estado", "fin_plaza"}
    \/ EnManoConsola(p) /\ objetivo.estado = "EXEC" /\ hilo["consola"].en \in {"restar", "guardar"}
    \/ EnManoEliminacion(p) /\ hilo["eliminacion"].en # "terminada"}
ListaExacta ==
    ~carrera /\ ~cruce =>
        /\ Registrados \ Retirados \subseteq ToSet(procesos_en_sistema)
        /\ En("consola", "fin_memoria") => ~Contains(procesos_en_sistema, objetivo.pid)
        /\ Len(procesos_en_sistema) = Cardinality(ToSet(procesos_en_sistema))

\* The kernel knows where each process is: in one place and, while it lives, in the list.
Localizados == UnLugar /\ ListaExacta

\* Every place of the degree of multiprogramming is free, taken by an admitted process or in
\* a thread's hands, and those owed by flag_grado_multi are not counted: the places add up to
\* the degree last asked for, until an update of the flag is lost or a command races.
PlazaDevuelta ==
    objetivo.estado \in {"READY", "BLOCKED"} /\ hilo["consola"].en \in {"fin_lista", "fin_memoria", "fin_estado"}
PlazasExactas ==
    ~carrera /\ ~olvido /\ ~cruce =>
        sem["grado_multi"] + Cardinality(Ciclo!Admitidos) - B(PlazaDevuelta) + cambio.tomadas
          + B(hilo["creacion"].en \in {"tomar_new", "pop_new", "agregar"})
          = grado_multiprogramacion + flag_grado_multi

\* The token of the CPU (TokenCpu of Planificador), which recibir_dispatch does not give back
\* when it kills: it goes to the console with podes_eliminar_loko.
CpuUnica ==
    \/ carrera \/ cruce
    \/ sem["cpu_libre"] + B(ConElPlanificador) + Len(a_cpu) + B(CpuOcupada) + Len(a_kernel)
         + B(~En("dispatch", "recibir")) + podes_eliminar_loko
         + B(objetivo.estado = "EXEC" /\ hilo["consola"].en \in {"fin_lista", "fin_memoria", "fin_estado"}) = 1

\* What a process had when it was killed, its place and the CPU, is given back once.
DevueltoUnaVez == PlazasExactas /\ CpuUnica

\* On the shared socket each answer has somebody waiting for it, and nobody gets another's
\* (which ends eliminacion_de_procesos), until the answers to a creation and to the end of
\* another process are awaited at the same time.
RespuestaPropia ==
    ~cruce =>
        /\ Len(respuestas) = B(hilo["consola"].en \in {"crear", "fin_memoria"})
                               + B(En("eliminacion", "memoria"))
        /\ ~En("eliminacion", "terminada")

\* When every thread is blocked the console is back at its prompt: a command that did not
\* race hangs only if it waits for a unit of hay_proceso_nuevo or hay_proceso_a_ready that is
\* not there, with the mutex that the thread which has the unit, or is to post it, needs; or
\* if a thread hangs on the copy of a mutex.
UnidadTomada ==
    \/ En("consola", "pop_new") /\ sem["hay_proceso_nuevo"] = 0
    \/ hilo["consola"].en \in {"pop_ready", "pop_plus"} /\ sem["hay_proceso_a_ready"] = 0
ConsolaVuelve ==
    \/ En("consola", "comando") \/ carrera \/ cruce \/ UnidadTomada \/ ~SinCuelgue
    \/ ENABLED Sigue
=============================================================================
