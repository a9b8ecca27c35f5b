------------------------- MODULE PlanificadorProofs -------------------------
(***************************************************************************)
(* Theorems of Planificador, for every number of processes, interfaces and *)
(* places of the degree of multiprogramming, every algorithm and every     *)
(* program.  First types and critical sections.  Then what the semaphores  *)
(* count: as many permissions as there are elements in the queues they     *)
(* announce, so that every pop they allow finds something (PopsSeguros).   *)
(* The CPU is given to one process at a time and never lost (TokenCpu).    *)
(*                                                                         *)
(* Then where each process is: in one place (UnSoloLugar), the one that    *)
(* its estado_actual says.  A blocked process has one I/O in progress at   *)
(* most (IODeBloqueado), its estado_actual says where it is                *)
(* (EstadoCoherente), and the kernel dies in one way only (KernelVivo).    *)
(* Hence the scheduling core implements the life cycle of CicloDeVida      *)
(* (CicloSpec), and keeps the places of the degree of multiprogramming     *)
(* (PlazasDeGrado).                                                        *)
(***************************************************************************)
EXTENDS Planificador, ListasProofs, FiniteSetTheorems, SequenceTheorems, TLAPS

-----------------------------------------------------------------------------
(* Lists *)

\* list_remove at a valid index leaves a list of the same type.
LEMMA RemoveAtTipo ==
    ASSUME NEW S, NEW s \in Seq(S), NEW k \in 1 .. Len(s)
    PROVE  RemoveAt(s, k) \in Seq(S)
  BY DEF RemoveAt

\* queue_pop and the head of a socket.
LEMMA CabezaTipo ==
    ASSUME NEW S, NEW s \in Seq(S), s # <<>>
    PROVE  Head(s) \in S /\ Tail(s) \in Seq(S)
  OBVIOUS

\* tener_index_pid finds an element that is in the list.
LEMMA IndiceTipo ==
    ASSUME NEW S, NEW s \in Seq(S), NEW p, Contains(s, p)
    PROVE  Indice(s, p) \in 1 .. Len(s) /\ s[Indice(s, p)] = p
  <1>1. \E k \in 1 .. Len(s) : s[k] = p  BY DEF Contains
  <1>2. QED  BY <1>1 DEF Indice

-----------------------------------------------------------------------------
(* Threads *)

\* The labels at which a thread has taken a process from a queue, a socket or a command.
ConMano(h, l) ==
    \/ l \in {"post_nuevo", "registrar", "agregar", "setear", "enviar", "memoria", "atender",
              "bloquear", "encolar_io", "flag", "post_cpu", "respuesta", "resultado",
              "agregar_ready", "agregar_plus"}
    \/ l \in {"detenida", "listar_ready", "listando_ready", "listar_plus", "listando_plus"}
          /\ h \in {"dispatch"} \union Interfaces

\* A thread at one of those labels has the PCB of a process in its hands.
ManosLlenas == \A h \in Hilos : ConMano(h, hilo[h].en) => hilo[h].pcb \in Pids

\* A thread that moves keeps its PCB, and nobody else moves.
LEMMA IrTipo ==
    ASSUME TipoHilo, ManosLlenas, NEW h \in Hilos, NEW l \in Etiquetas, Ir(h, l),
           ConMano(h, l) => hilo[h].pcb \in Pids
    PROVE  /\ TipoHilo' /\ ManosLlenas'
           /\ hilo'[h].en = l /\ hilo'[h].pcb = hilo[h].pcb
           /\ \A g \in Hilos : g # h => hilo'[g] = hilo[g]
  <1>1. /\ TipoHilo' /\ hilo'[h].en = l /\ hilo'[h].pcb = hilo[h].pcb
        /\ \A g \in Hilos : g # h => hilo'[g] = hilo[g]
    BY DEF TipoHilo, Ir
  <1>2. ManosLlenas'  BY <1>1 DEF ManosLlenas
  <1>3. QED  BY <1>1, <1>2

\* A thread that moves with a PCB in hand has it, and nobody else moves.
LEMMA IrConTipo ==
    ASSUME TipoHilo, ManosLlenas, NEW h \in Hilos, NEW l \in Etiquetas,
           NEW p \in Pids \union {Nadie}, IrCon(h, l, p), ConMano(h, l) => p \in Pids
    PROVE  /\ TipoHilo' /\ ManosLlenas'
           /\ hilo'[h].en = l /\ hilo'[h].pcb = p
           /\ \A g \in Hilos : g # h => hilo'[g] = hilo[g]
  <1>1. /\ TipoHilo' /\ hilo'[h].en = l /\ hilo'[h].pcb = p
        /\ \A g \in Hilos : g # h => hilo'[g] = hilo[g]
    BY DEF TipoHilo, IrCon
  <1>2. ManosLlenas'  BY <1>1 DEF ManosLlenas
  <1>3. QED  BY <1>1, <1>2

\* sem_wait and sem_post keep the semaphores natural numbers.
LEMMA SemTipo ==
    ASSUME TipoColas, NEW s \in Semaforos \union Permisos, Esperar(s) \/ Postear(s)
    PROVE  sem' \in [Semaforos \union Permisos -> Nat]
  <1>1. sem[s] \in Nat  BY DEF TipoColas
  <1>2. CASE Esperar(s)
    <2>1. sem[s] - 1 \in Nat  BY <1>1, <1>2 DEF Esperar
    <2>2. QED  BY <1>2, <2>1 DEF TipoColas, Esperar, Sin
  <1>3. CASE Postear(s)
    <2>1. sem[s] + 1 \in Nat  BY <1>1
    <2>2. QED  BY <1>3, <2>1 DEF TipoColas, Postear, Con
  <1>4. QED  BY <1>2, <1>3

\* set_add_pcb_cola: the thread hangs or goes on, and the queues keep their type.
LEMMA AgregarTipo ==
    ASSUME TipoColas, TipoHilo, ManosLlenas, NEW h \in Hilos, NEW p \in Pids,
           NEW nuevo \in Ciclo!Estados, NEW c \in Colas, NEW sigue \in Etiquetas,
           set_add_pcb_cola(h, p, nuevo, c, sigue), UNCHANGED <<sem, procesos_en_sistema>>
    PROVE  /\ TipoColas' /\ TipoHilo' /\ ManosLlenas'
           /\ hilo'[h].en \in {"colgado", sigue} /\ hilo'[h].pcb = p
           /\ \A g \in Hilos : g # h => hilo'[g] = hilo[g]
  <1>1. "colgado" \in Etiquetas  BY DEF Etiquetas
  <1>2. IrCon(h, "colgado", p) \/ IrCon(h, sigue, p)  BY DEF set_add_pcb_cola
  <1>3. /\ TipoHilo' /\ ManosLlenas' /\ hilo'[h].en \in {"colgado", sigue} /\ hilo'[h].pcb = p
        /\ \A g \in Hilos : g # h => hilo'[g] = hilo[g]
    BY <1>1, <1>2, IrConTipo
  <1>4. cola' \in [Colas -> Seq(Pids)]
    <2>1. Append(cola[c], p) \in Seq(Pids)  BY DEF TipoColas
    <2>2. QED  BY <2>1 DEF set_add_pcb_cola, TipoColas
  <1>5. estado' \in [Pids -> Ciclo!Estados]  BY DEF set_add_pcb_cola, TipoColas
  <1>6. TipoColas'  BY <1>4, <1>5 DEF TipoColas
  <1>7. QED  BY <1>3, <1>6

\* The process that the CPU is executing, and the interface of an I/O that is being queued.
CpuLlena == cpu.en # "libre" => cpu.pid \in Pids
IOConectada == En("dispatch", "encolar_io") => mensaje.interfaz \in Interfaces

Inv == TypeOK /\ ManosLlenas /\ CpuLlena /\ IOConectada /\ IndiceVigente

\* The initial state has the types, empty hands and no interface at work.
LEMMA InitInv == Init => Inv
  <1> SUFFICES ASSUME Init PROVE Inv  OBVIOUS
  <1>1. TypeOK
    <2>1. TipoColas
      BY ConstantesOK DEF Init, TipoColas, Ciclo!Estados
    <2>2. TipoHilo
      BY DEF Init, TipoHilo, Hilos, HilosKernel, Inicio, Etiquetas
    <2>3. TipoIO
      BY DEF Init, TipoIO, Motivos
    <2>4. TipoControl
      BY DEF Init, TipoControl
    <2>5. TipoCpu
      BY DEF Init, TipoCpu, Interrupciones
    <2> QED  BY <2>1, <2>2, <2>3, <2>4, <2>5 DEF TypeOK
  <1>2. ManosLlenas  BY DEF Init, ManosLlenas, ConMano, Hilos, HilosKernel, Inicio
  <1>3. CpuLlena /\ IOConectada /\ IndiceVigente
    BY DEF Init, CpuLlena, IOConectada, IndiceVigente, En, Hilos, HilosKernel, Inicio
  <1> QED  BY <1>1, <1>2, <1>3 DEF Inv

\* An interface's thread is none of the kernel's own.
LEMMA HilosDistintos ==
    /\ \A i \in Interfaces : i \in Hilos /\ i \notin HilosKernel
    /\ HilosKernel \subseteq Hilos
  BY ConstantesOK DEF Hilos

\* What the other threads rely on, after a step of h that leaves their data alone.
LEMMA Vigencia ==
    ASSUME IndiceVigente, IOConectada, NEW h \in Hilos,
           \A g \in Hilos : g # h => hilo'[g] = hilo[g],
           h = "eliminacion" => hilo'[h].en # "memoria",
           h = "dispatch" => hilo'[h].en # "encolar_io",
           h = "dispatch" \/ UNCHANGED mensaje, UNCHANGED <<indice, procesos_en_sistema>>
    PROVE  IndiceVigente' /\ IOConectada'
  BY HilosDistintos DEF IndiceVigente, IOConectada, En, HilosKernel

\* A step of h that only changes queues, semaphores and the place of h.
LEMMA PasoSimple ==
    ASSUME Inv, UNCHANGED resto, TipoColas', TipoHilo', ManosLlenas', NEW h \in Hilos,
           \A g \in Hilos : g # h => hilo'[g] = hilo[g],
           h = "eliminacion" => hilo'[h].en # "memoria",
           h = "dispatch" => hilo'[h].en # "encolar_io"
    PROVE  Inv'
  <1> USE DEF resto, sistema, io, sem_io, canal, cpuVars, control, reloj
  <1>1. TipoIO' /\ TipoControl' /\ TipoCpu' /\ CpuLlena'
    BY DEF Inv, TypeOK, TipoIO, TipoControl, TipoCpu, CpuLlena
  <1>2. IndiceVigente' /\ IOConectada'  BY Vigencia DEF Inv
  <1>3. QED  BY <1>1, <1>2 DEF Inv, TypeOK

\* Using a missing PCB changes nothing but kernel_vivo.
LEMMA CaerInv == ASSUME Inv, Caer PROVE Inv'
  BY DEF Inv, TypeOK, Caer, kernelVars, sistema, io, sem_io, reloj, control, cpuVars, canal, TipoColas,
         TipoHilo, TipoIO, TipoControl, TipoCpu, ManosLlenas, CpuLlena, IOConectada, IndiceVigente, En

\* listar_procesos_en_ready and listar_procesos_en_ready_plus.
LEMMA ListarInv == ASSUME Inv, NEW h \in Hilos, Listar(h) PROVE Inv'
  <1>1. PICK l \in {"listando_ready", "listando_plus"} :
            Ir(h, l) /\ hilo[h].en \in {"listar_ready", "listar_plus"}
    BY DEF Listar, En
  <1>2. l \in Etiquetas  BY DEF Etiquetas
  <1>3. ConMano(h, l) => hilo[h].pcb \in Pids  BY <1>1 DEF Inv, ManosLlenas, ConMano
  <1>4. /\ TipoHilo' /\ ManosLlenas' /\ hilo'[h].en = l
        /\ \A g \in Hilos : g # h => hilo'[g] = hilo[g]
    BY <1>1, <1>2, <1>3, IrTipo DEF Inv, TypeOK
  <1>5. TipoColas' /\ UNCHANGED resto
    BY DEF Inv, TypeOK, TipoColas, Listar, resto, sistema
  <1>6. QED  BY <1>4, <1>5, PasoSimple

\* The end of a wait at the gate of planificacion_detenida.
LEMMA ReanudarInv ==
    ASSUME Inv, NEW h \in {"creacion", "eliminacion", "corto", "dispatch"} \union Interfaces,
           Reanudar(h)
    PROVE  Inv'
  <1>0. h \in Hilos  BY HilosDistintos DEF HilosKernel
  <1>1. /\ TrasLaPuerta(h) \in {"grado", "pop_exit", "elegir", "atender", "resultado"}
        /\ TrasLaPuerta(h) \in {"atender", "resultado"} => h \in {"dispatch"} \union Interfaces
    BY HilosDistintos DEF TrasLaPuerta, HilosKernel
  <1>2. TrasLaPuerta(h) \in Etiquetas  BY <1>1 DEF Etiquetas
  <1>3. ConMano(h, TrasLaPuerta(h)) => hilo[h].pcb \in Pids
    BY <1>0, <1>1 DEF Inv, ManosLlenas, ConMano, Reanudar, En
  <1>4. /\ TipoHilo' /\ ManosLlenas' /\ hilo'[h].en = TrasLaPuerta(h)
        /\ \A g \in Hilos : g # h => hilo'[g] = hilo[g]
    BY <1>0, <1>2, <1>3, IrTipo DEF Inv, TypeOK, Reanudar
  <1>5. PermisoDe(h) \in Permisos  BY HilosDistintos DEF PermisoDe, HilosKernel, Permisos
  <1>6. TipoColas' /\ UNCHANGED resto
    BY <1>5, SemTipo DEF Inv, TypeOK, TipoColas, Reanudar, resto, sistema
  <1>7. QED  BY <1>0, <1>1, <1>4, <1>6, PasoSimple

\* A step in which h only waits on or posts a semaphore and moves, with the PCB it had.
LEMMA PasoIr ==
    ASSUME Inv, NEW h \in Hilos, NEW l \in Etiquetas, Ir(h, l),
           ConMano(h, l) => hilo[h].pcb \in Pids, l \notin {"memoria", "encolar_io"},
           UNCHANGED <<cola, estado, resto>>,
           UNCHANGED sem \/ \E s \in Semaforos \union Permisos : Esperar(s) \/ Postear(s)
    PROVE  Inv'
  <1>1. /\ TipoHilo' /\ ManosLlenas' /\ hilo'[h].en = l
        /\ \A g \in Hilos : g # h => hilo'[g] = hilo[g]
    BY IrTipo DEF Inv, TypeOK
  <1>2. sem' \in [Semaforos \union Permisos -> Nat]  BY SemTipo DEF Inv, TypeOK, TipoColas
  <1>3. TipoColas'  BY <1>2 DEF Inv, TypeOK, TipoColas, resto, sistema
  <1>4. QED  BY <1>1, <1>3, PasoSimple

\* The same, with nothing in hand after it.
LEMMA PasoIrNadie ==
    ASSUME Inv, NEW h \in Hilos, NEW l \in Etiquetas, IrCon(h, l, Nadie), ~ConMano(h, l),
           l \notin {"memoria", "encolar_io"}, UNCHANGED <<cola, estado, resto>>,
           UNCHANGED sem \/ \E s \in Semaforos \union Permisos : Esperar(s) \/ Postear(s)
    PROVE  Inv'
  <1>1. /\ TipoHilo' /\ ManosLlenas' /\ hilo'[h].en = l
        /\ \A g \in Hilos : g # h => hilo'[g] = hilo[g]
    BY IrConTipo DEF Inv, TypeOK
  <1>2. sem' \in [Semaforos \union Permisos -> Nat]  BY SemTipo DEF Inv, TypeOK, TipoColas
  <1>3. TipoColas'  BY <1>2 DEF Inv, TypeOK, TipoColas, resto, sistema
  <1>4. QED  BY <1>1, <1>3, PasoSimple

\* Only the thread h moves in a step of h.
LEMMA SoloMueve ==
    ASSUME Inv, NEW h \in Hilos, \/ \E l : Ir(h, l)
                                 \/ \E l, p : IrCon(h, l, p)
    PROVE  \A g \in Hilos : g # h => hilo'[g] = hilo[g]
  BY DEF Inv, TypeOK, TipoHilo, Ir, IrCon

\* A gate only waits for a permission.
LEMMA PermisoDeTipo ==
    ASSUME NEW h \in {"creacion", "eliminacion", "corto", "dispatch"} \union Interfaces
    PROVE  PermisoDe(h) \in Permisos
  BY HilosDistintos DEF PermisoDe, HilosKernel, Permisos

-----------------------------------------------------------------------------
(* One lemma per thread, one step per action *)

\* The console keeps the inductive invariant.
LEMMA ConsolaInv == ASSUME Inv, Consola PROVE Inv'
  <1>0. "consola" \in Hilos  BY DEF Hilos, HilosKernel
  <1>1. CASE IniciarProceso
    <2>1. contador_pid \in Pids
      BY <1>1, ConstantesOK DEF IniciarProceso, Inv, TypeOK, TipoControl, Pids
    <2>2. "NEW" \in Ciclo!Estados /\ "new" \in Colas /\ "post_nuevo" \in Etiquetas
      BY DEF Ciclo!Estados, Colas, Etiquetas
    <2>3. /\ TipoColas' /\ TipoHilo' /\ ManosLlenas'
          /\ hilo'["consola"].en \in {"colgado", "post_nuevo"}
          /\ \A g \in Hilos : g # "consola" => hilo'[g] = hilo[g]
      BY <1>0, <1>1, <2>1, <2>2, AgregarTipo DEF IniciarProceso, Inv, TypeOK, resto, sistema
    <2>4. QED  BY <1>0, <1>1, <2>3, PasoSimple DEF IniciarProceso
  <1>2. CASE AvisarNuevo
    <2>1. hilo["consola"].pcb \in Pids
      BY <1>0, <1>2 DEF AvisarNuevo, Inv, ManosLlenas, ConMano, En
    <2>2. "registrar" \in Etiquetas /\ "hay_proceso_nuevo" \in Semaforos
      BY DEF Etiquetas, Semaforos
    <2>3. QED  BY <1>0, <1>2, <2>1, <2>2, PasoIr DEF AvisarNuevo
  <1>3. CASE RegistrarProceso
    <2>1. hilo["consola"].pcb \in Pids
      BY <1>0, <1>3 DEF RegistrarProceso, Inv, ManosLlenas, ConMano, En
    <2>2. "comando" \in Etiquetas /\ ~ConMano("consola", "comando")
      BY DEF Etiquetas, ConMano
    <2>3. /\ TipoHilo' /\ ManosLlenas' /\ hilo'["consola"].en = "comando"
          /\ \A g \in Hilos : g # "consola" => hilo'[g] = hilo[g]
      BY <1>0, <1>3, <2>2, IrConTipo DEF RegistrarProceso, Inv, TypeOK
    <2>4. TipoColas'  BY <1>3, <2>1 DEF RegistrarProceso, Inv, TypeOK, TipoColas
    <2>5. TipoIO' /\ TipoControl' /\ TipoCpu' /\ CpuLlena'
      BY <1>3 DEF RegistrarProceso, Inv, TypeOK, TipoIO, TipoControl, TipoCpu, CpuLlena, io, sem_io,
                  reloj, cpuVars, canal
    <2>6. IndiceVigente'
      BY <1>0, <1>3, <2>3 DEF RegistrarProceso, Inv, TypeOK, TipoColas, IndiceVigente, En, Hilos,
                              HilosKernel
    <2>7. IOConectada'
      BY <1>3, <2>3 DEF RegistrarProceso, Inv, IOConectada, En, Hilos, HilosKernel
    <2>8. QED  BY <2>3, <2>4, <2>5, <2>6, <2>7 DEF Inv, TypeOK
  <1>4. CASE DetenerPlanificacion
    <2>1. TipoControl'  BY <1>4 DEF DetenerPlanificacion, Inv, TypeOK, TipoControl, sistema, reloj
    <2>2. TipoColas' /\ TipoHilo' /\ TipoIO' /\ TipoCpu'
      BY <1>4 DEF DetenerPlanificacion, Inv, TypeOK, TipoColas, TipoHilo, TipoIO, TipoCpu, sistema,
                  io, sem_io, cpuVars, canal
    <2>3. ManosLlenas' /\ CpuLlena' /\ IOConectada' /\ IndiceVigente'
      BY <1>4 DEF DetenerPlanificacion, Inv, ManosLlenas, CpuLlena, IOConectada, IndiceVigente, En,
                  sistema, cpuVars
    <2>4. QED  BY <2>1, <2>2, <2>3 DEF Inv, TypeOK
  <1>5. CASE IniciarPlanificacion
    <2>1. sem' \in [Semaforos \union Permisos -> Nat]
      BY <1>5 DEF IniciarPlanificacion, Inv, TypeOK, TipoColas
    <2>2. QED
      BY <1>5, <2>1
      DEF IniciarPlanificacion, Inv, TypeOK, TipoColas, TipoHilo, TipoIO, TipoControl, TipoCpu,
          ManosLlenas, CpuLlena, IOConectada, IndiceVigente, En, sistema, io, sem_io, reloj, cpuVars,
          canal
  <1>6. QED  BY <1>1, <1>2, <1>3, <1>4, <1>5 DEF Consola, ConsolaSigue

\* creacion_de_procesos keeps the inductive invariant.
LEMMA CreacionInv == ASSUME Inv, Creacion PROVE Inv'
  <1>0. "creacion" \in Hilos  BY DEF Hilos, HilosKernel
  <1>1. CASE CreacionEsperaNuevo
    <2>1. /\ Puerta("grado") \in Etiquetas /\ ~ConMano("creacion", Puerta("grado"))
          /\ Puerta("grado") \notin {"memoria", "encolar_io"}
      BY HilosDistintos DEF Puerta, Etiquetas, ConMano, HilosKernel
    <2>2. "hay_proceso_nuevo" \in Semaforos  BY DEF Semaforos
    <2>3. QED  BY <1>0, <1>1, <2>1, <2>2, PasoIr DEF CreacionEsperaNuevo
  <1>2. CASE CreacionEsperaGrado
    <2>1. "pop_new" \in Etiquetas /\ ~ConMano("creacion", "pop_new")
      BY DEF Etiquetas, ConMano
    <2>2. "grado_multi" \in Semaforos  BY DEF Semaforos
    <2>3. QED  BY <1>0, <1>2, <2>1, <2>2, PasoIr DEF CreacionEsperaGrado
  <1>3. CASE CreacionPopNew
    <2>1. CASE cola["new"] = <<>>  BY <1>3, <2>1, CaerInv DEF CreacionPopNew
    <2>2. CASE cola["new"] # <<>>
      <3>1. cola["new"] \in Seq(Pids)  BY DEF Inv, TypeOK, TipoColas, Colas
      <3>2. Head(cola["new"]) \in Pids /\ Tail(cola["new"]) \in Seq(Pids)
        BY <2>2, <3>1, CabezaTipo
      <3>3. "agregar" \in Etiquetas  BY DEF Etiquetas
      <3>4. /\ IrCon("creacion", "agregar", Head(cola["new"]))
            /\ cola' = [cola EXCEPT !["new"] = Tail(cola["new"])]
            /\ UNCHANGED <<sem, estado, resto>>
        BY <1>3, <2>2 DEF CreacionPopNew
      <3>5. /\ TipoHilo' /\ ManosLlenas' /\ hilo'["creacion"].en = "agregar"
            /\ \A g \in Hilos : g # "creacion" => hilo'[g] = hilo[g]
        BY <1>0, <3>2, <3>3, <3>4, IrConTipo DEF Inv, TypeOK
      <3>6. TipoColas'  BY <3>2, <3>4 DEF Inv, TypeOK, TipoColas, Colas, resto, sistema
      <3>7. QED  BY <1>0, <3>4, <3>5, <3>6, PasoSimple
    <2>3. QED  BY <2>1, <2>2
  <1>4. CASE CreacionAgrega
    <2>1. hilo["creacion"].pcb \in Pids
      BY <1>0, <1>4 DEF CreacionAgrega, Inv, ManosLlenas, ConMano, En
    <2>2. "READY" \in Ciclo!Estados /\ "ready" \in Colas /\ "listar_ready" \in Etiquetas
      BY DEF Ciclo!Estados, Colas, Etiquetas
    <2>3. /\ TipoColas' /\ TipoHilo' /\ ManosLlenas'
          /\ hilo'["creacion"].en \in {"colgado", "listar_ready"}
          /\ \A g \in Hilos : g # "creacion" => hilo'[g] = hilo[g]
      BY <1>0, <1>4, <2>1, <2>2, AgregarTipo DEF CreacionAgrega, Inv, TypeOK, resto, sistema
    <2>4. QED  BY <1>0, <1>4, <2>3, PasoSimple DEF CreacionAgrega
  <1>5. CASE CreacionAvisa
    <2>1. "hay_nuevo" \in Etiquetas /\ ~ConMano("creacion", "hay_nuevo")
      BY DEF Etiquetas, ConMano
    <2>2. "hay_proceso_a_ready" \in Semaforos  BY DEF Semaforos
    <2>3. QED  BY <1>0, <1>5, <2>1, <2>2, PasoIrNadie DEF CreacionAvisa
  <1>6. CASE Listar("creacion")  BY <1>0, <1>6, ListarInv
  <1>7. CASE Reanudar("creacion")  BY <1>7, ReanudarInv
  <1>8. QED  BY <1>1, <1>2, <1>3, <1>4, <1>5, <1>6, <1>7 DEF Creacion

\* eliminacion_de_procesos keeps the inductive invariant.
LEMMA EliminacionInv == ASSUME Inv, Eliminacion PROVE Inv'
  <1>0. "eliminacion" \in Hilos  BY DEF Hilos, HilosKernel
  <1>1. CASE EliminacionEsperaExit
    <2>1. /\ Puerta("pop_exit") \in Etiquetas /\ ~ConMano("eliminacion", Puerta("pop_exit"))
          /\ Puerta("pop_exit") \notin {"memoria", "encolar_io"}
      BY HilosDistintos DEF Puerta, Etiquetas, ConMano, HilosKernel
    <2>2. "hay_proceso_exit" \in Semaforos  BY DEF Semaforos
    <2>3. QED  BY <1>0, <1>1, <2>1, <2>2, PasoIr DEF EliminacionEsperaExit
  <1>2. CASE EliminacionPopExit
    <2>1. CASE cola["exit"] = <<>>  BY <1>2, <2>1, CaerInv DEF EliminacionPopExit
    <2>2. CASE cola["exit"] # <<>>
      <3> DEFINE p == Head(cola["exit"])
      <3>1. cola["exit"] \in Seq(Pids)  BY DEF Inv, TypeOK, TipoColas, Colas
      <3>2. p \in Pids /\ Tail(cola["exit"]) \in Seq(Pids)  BY <2>2, <3>1, CabezaTipo
      <3>3. "memoria" \in Etiquetas  BY DEF Etiquetas
      <3>4. /\ IrCon("eliminacion", "memoria", p)
            /\ cola' = [cola EXCEPT !["exit"] = Tail(cola["exit"])]
            /\ indice' = IF Contains(procesos_en_sistema, p)
                           THEN Indice(procesos_en_sistema, p) ELSE Nadie
            /\ UNCHANGED <<sem, procesos_en_sistema, mensaje, io, reloj, control, cpuVars, estado,
                           canal, kernel_vivo>>
        BY <1>2, <2>2 DEF EliminacionPopExit
      <3> HIDE DEF p
      <3>5. /\ TipoHilo' /\ ManosLlenas'
            /\ hilo'["eliminacion"].en = "memoria" /\ hilo'["eliminacion"].pcb = p
            /\ \A g \in Hilos : g # "eliminacion" => hilo'[g] = hilo[g]
        BY <1>0, <3>2, <3>3, <3>4, IrConTipo DEF Inv, TypeOK
      <3>6. TipoColas'  BY <3>2, <3>4 DEF Inv, TypeOK, TipoColas, Colas
      <3>7. /\ indice' \in Nat \union {Nadie}
            /\ indice' # Nadie => indice' \in 1 .. Len(procesos_en_sistema)
                                  /\ procesos_en_sistema[indice'] = p
        <4>1. procesos_en_sistema \in Seq(Pids)  BY DEF Inv, TypeOK, TipoColas
        <4>2. CASE Contains(procesos_en_sistema, p)
          <5>1. indice' = Indice(procesos_en_sistema, p)  BY <3>4, <4>2
          <5>2. QED  BY <4>1, <4>2, <5>1, IndiceTipo
        <4>3. CASE ~Contains(procesos_en_sistema, p)  BY <3>4, <4>3
        <4>4. QED  BY <4>2, <4>3
      <3>8. TipoControl'
        BY <3>4, <3>7 DEF Inv, TypeOK, TipoControl, reloj, control
      <3>9. TipoIO' /\ TipoCpu' /\ CpuLlena'
        BY <3>4 DEF Inv, TypeOK, TipoIO, TipoCpu, CpuLlena, io, sem_io, cpuVars, canal
      <3>10. IndiceVigente'  BY <3>4, <3>5, <3>7 DEF IndiceVigente
      <3>11. IOConectada'
        BY <3>4, <3>5 DEF Inv, IOConectada, En, Hilos, HilosKernel
      <3>12. QED  BY <3>5, <3>6, <3>8, <3>9, <3>10, <3>11 DEF Inv, TypeOK
    <2>3. QED  BY <2>1, <2>2
  <1>3. CASE EliminacionDestruye
    <2>1. "hay_exit" \in Etiquetas /\ ~ConMano("eliminacion", "hay_exit")
      BY DEF Etiquetas, ConMano
    <2>2. /\ TipoHilo' /\ ManosLlenas' /\ hilo'["eliminacion"].en = "hay_exit"
          /\ \A g \in Hilos : g # "eliminacion" => hilo'[g] = hilo[g]
      BY <1>0, <1>3, <2>1, IrConTipo DEF EliminacionDestruye, Inv, TypeOK
    <2>3. procesos_en_sistema' \in Seq(Pids)
      <3>1. procesos_en_sistema \in Seq(Pids)  BY DEF Inv, TypeOK, TipoColas
      <3>2. CASE indice = Nadie  BY <1>3, <3>1, <3>2 DEF EliminacionDestruye
      <3>3. CASE indice # Nadie
        <4>1. indice \in 1 .. Len(procesos_en_sistema)
          BY <1>3, <3>3 DEF EliminacionDestruye, Inv, IndiceVigente
        <4>2. RemoveAt(procesos_en_sistema, indice) \in Seq(Pids)
          BY <3>1, <4>1, RemoveAtTipo
        <4>3. QED  BY <1>3, <3>3, <4>2 DEF EliminacionDestruye
      <3>4. QED  BY <3>2, <3>3
    <2>4. sem' \in [Semaforos \union Permisos -> Nat]
      <3>1. "grado_multi" \in Semaforos  BY DEF Semaforos
      <3>2. QED  BY <1>3, <3>1, SemTipo DEF EliminacionDestruye, Inv, TypeOK
    <2>5. TipoColas'
      BY <1>3, <2>3, <2>4 DEF EliminacionDestruye, Inv, TypeOK, TipoColas, Ciclo!Estados
    <2>6. TipoControl'  BY <1>3 DEF EliminacionDestruye, Inv, TypeOK, TipoControl, reloj, control
    <2>7. TipoIO' /\ TipoCpu' /\ CpuLlena'
      BY <1>3 DEF EliminacionDestruye, Inv, TypeOK, TipoIO, TipoCpu, CpuLlena, io, sem_io, cpuVars,
                  canal
    <2>8. IndiceVigente'  BY <2>2 DEF IndiceVigente, En
    <2>9. IOConectada'
      BY <1>3, <2>2 DEF EliminacionDestruye, Inv, IOConectada, En, Hilos, HilosKernel
    <2>10. QED  BY <2>2, <2>5, <2>6, <2>7, <2>8, <2>9 DEF Inv, TypeOK
  <1>4. CASE Reanudar("eliminacion")  BY <1>4, ReanudarInv
  <1>5. QED  BY <1>1, <1>2, <1>3, <1>4 DEF Eliminacion

\* The short-term planner keeps the inductive invariant.
LEMMA CortoInv == ASSUME Inv, Corto PROVE Inv'
  <1>0. "corto" \in Hilos /\ "corto" \notin {"dispatch"} \union Interfaces
    BY HilosDistintos DEF Hilos, HilosKernel
  <1>1. CASE CortoEsperaReady
    <2>1. "cpu" \in Etiquetas /\ ~ConMano("corto", "cpu")  BY DEF Etiquetas, ConMano
    <2>2. "hay_proceso_a_ready" \in Semaforos  BY DEF Semaforos
    <2>3. QED  BY <1>0, <1>1, <2>1, <2>2, PasoIr DEF CortoEsperaReady
  <1>2. CASE CortoEsperaCpu
    <2>1. /\ Puerta("elegir") \in Etiquetas /\ ~ConMano("corto", Puerta("elegir"))
          /\ Puerta("elegir") \notin {"memoria", "encolar_io"}
      BY <1>0 DEF Puerta, Etiquetas, ConMano
    <2>2. "cpu_libre" \in Semaforos  BY DEF Semaforos
    <2>3. QED  BY <1>0, <1>2, <2>1, <2>2, PasoIr DEF CortoEsperaCpu
  <1>3. CASE CortoElige \/ CortoMiraPlus \/ CortoTomaMutex
    <2>1. PICK l \in {"mirar_plus", "pop_ready", "tomar_plus", "tomar_ready", "pop_plus"} :
              Ir("corto", l)
      BY <1>3 DEF CortoElige, CortoMiraPlus, CortoTomaMutex
    <2>2. l \in Etiquetas /\ ~ConMano("corto", l)  BY DEF Etiquetas, ConMano
    <2>3. UNCHANGED <<sem, cola, estado, resto>>
      BY <1>3 DEF CortoElige, CortoMiraPlus, CortoTomaMutex
    <2>4. QED  BY <1>0, <2>1, <2>2, <2>3, PasoIr
  <1>4. CASE CortoPop
    <2>1. PICK c \in {"ready", "plus"} :
              IF cola[c] = <<>> THEN Caer
              ELSE /\ IrCon("corto", "setear", Head(cola[c]))
                   /\ cola' = [cola EXCEPT ![c] = Tail(cola[c])]
                   /\ UNCHANGED <<sem, estado, resto>>
      BY <1>4 DEF CortoPop
    <2>2. CASE cola[c] = <<>>  BY <2>1, <2>2, CaerInv
    <2>3. CASE cola[c] # <<>>
      <3>1. c \in Colas /\ cola[c] \in Seq(Pids)  BY DEF Inv, TypeOK, TipoColas, Colas
      <3>2. Head(cola[c]) \in Pids /\ Tail(cola[c]) \in Seq(Pids)  BY <2>3, <3>1, CabezaTipo
      <3>3. "setear" \in Etiquetas  BY DEF Etiquetas
      <3>4. /\ TipoHilo' /\ ManosLlenas' /\ hilo'["corto"].en = "setear"
            /\ \A g \in Hilos : g # "corto" => hilo'[g] = hilo[g]
        BY <1>0, <2>1, <2>3, <3>2, <3>3, IrConTipo DEF Inv, TypeOK
      <3>5. TipoColas'  BY <2>1, <2>3, <3>1, <3>2 DEF Inv, TypeOK, TipoColas, resto, sistema
      <3>6. QED  BY <1>0, <2>1, <2>3, <3>4, <3>5, PasoSimple
    <2>4. QED  BY <2>2, <2>3
  <1>5. CASE CortoSetea
    <2>1. hilo["corto"].pcb \in Pids  BY <1>0, <1>5 DEF CortoSetea, Inv, ManosLlenas, ConMano, En
    <2>2. "enviar" \in Etiquetas  BY DEF Etiquetas
    <2>3. /\ TipoHilo' /\ ManosLlenas' /\ hilo'["corto"].en = "enviar"
          /\ \A g \in Hilos : g # "corto" => hilo'[g] = hilo[g]
      BY <1>0, <1>5, <2>1, <2>2, IrTipo DEF CortoSetea, Inv, TypeOK
    <2>4. TipoColas'
      BY <1>5, <2>1 DEF CortoSetea, Inv, TypeOK, TipoColas, Ciclo!Estados, sistema
    <2>5. TipoControl'
      BY <1>5, <2>1 DEF CortoSetea, Inv, TypeOK, TipoControl, sistema, control
    <2>6. TipoIO' /\ TipoCpu' /\ CpuLlena'
      BY <1>5 DEF CortoSetea, Inv, TypeOK, TipoIO, TipoCpu, CpuLlena, io, sem_io, cpuVars, canal
    <2>7. IndiceVigente' /\ IOConectada'
      BY <1>0, <1>5, <2>3, Vigencia DEF CortoSetea, Inv, sistema
    <2>8. QED  BY <2>3, <2>4, <2>5, <2>6, <2>7 DEF Inv, TypeOK
  <1>6. CASE CortoEnvia
    <2>1. hilo["corto"].pcb \in Pids  BY <1>0, <1>6 DEF CortoEnvia, Inv, ManosLlenas, ConMano, En
    <2>2. PICK l \in {"hay_ready", "arrancar"} : IrCon("corto", l, Nadie)
      BY <1>6 DEF CortoEnvia
    <2>3. l \in Etiquetas /\ ~ConMano("corto", l)  BY DEF Etiquetas, ConMano
    <2>4. /\ TipoHilo' /\ ManosLlenas' /\ hilo'["corto"].en = l
          /\ \A g \in Hilos : g # "corto" => hilo'[g] = hilo[g]
      BY <1>0, <2>2, <2>3, IrConTipo DEF Inv, TypeOK
    <2>5. TipoColas' /\ TipoControl' /\ TipoIO' /\ CpuLlena'
      BY <1>6 DEF CortoEnvia, Inv, TypeOK, TipoColas, TipoControl, TipoIO, CpuLlena, sistema, reloj,
                  control, io, sem_io, cpuVars
    <2>6. TipoCpu'  BY <1>6, <2>1 DEF CortoEnvia, Inv, TypeOK, TipoCpu, cpuVars
    <2>7. IndiceVigente' /\ IOConectada'
      BY <1>0, <1>6, <2>4, Vigencia DEF CortoEnvia, Inv, sistema
    <2>8. QED  BY <2>4, <2>5, <2>6, <2>7 DEF Inv, TypeOK
  <1>7. CASE CortoArrancaQuantum
    <2>1. "hay_ready" \in Etiquetas /\ ~ConMano("corto", "hay_ready")  BY DEF Etiquetas, ConMano
    <2>2. "arrancar_quantum" \in Semaforos  BY DEF Semaforos
    <2>3. QED  BY <1>0, <1>7, <2>1, <2>2, PasoIr DEF CortoArrancaQuantum
  <1>8. CASE Reanudar("corto")  BY <1>8, ReanudarInv
  <1>9. QED  BY <1>1, <1>2, <1>3, <1>4, <1>5, <1>6, <1>7, <1>8 DEF Corto

\* The thread of the quantum keeps the inductive invariant.
LEMMA QuantumInv == ASSUME Inv, Quantum PROVE Inv'
  <1>0. "quantum" \in Hilos  BY DEF Hilos, HilosKernel
  <1>1. CASE QuantumEspera
    <2>1. "bajar_flag" \in Etiquetas /\ ~ConMano("quantum", "bajar_flag")
      BY DEF Etiquetas, ConMano
    <2>2. "arrancar_quantum" \in Semaforos  BY DEF Semaforos
    <2>3. QED  BY <1>0, <1>1, <2>1, <2>2, PasoIr DEF QuantumEspera
  <1>2. CASE QuantumBajaFlag \/ QuantumCpuLiberada \/ QuantumVence
    <2>1. PICK l \in {"esperar_flag", "arrancar"} : Ir("quantum", l)
      BY <1>2 DEF QuantumBajaFlag, QuantumCpuLiberada, QuantumVence
    <2>2. l \in Etiquetas /\ ~ConMano("quantum", l)  BY DEF Etiquetas, ConMano
    <2>3. /\ TipoHilo' /\ ManosLlenas' /\ hilo'["quantum"].en = l
          /\ \A g \in Hilos : g # "quantum" => hilo'[g] = hilo[g]
      BY <1>0, <2>1, <2>2, IrTipo DEF Inv, TypeOK
    <2>4. /\ flag_cpu_libre' \in {0, 1} /\ interrupt' \in Seq(Interrupciones)
          /\ UNCHANGED <<sem, cola, sistema, mensaje, io, pcb_en_ejecucion, colgante, control, cpuVars,
                         estado, a_cpu, a_kernel, kernel_vivo>>
      <3>1. interrupt' \in Seq(Interrupciones)
        <4>1. CASE QuantumBajaFlag \/ QuantumCpuLiberada
          BY <4>1 DEF QuantumBajaFlag, QuantumCpuLiberada, Inv, TypeOK, TipoCpu, canal
        <4>2. CASE QuantumVence
          <5>1. PICK p \in IF colgante THEN Pids \union {Nadie} ELSE {pcb_en_ejecucion} :
                    interrupt' = Append(interrupt, [motivo |-> "FIN_CLOCK", pid |-> p])
            BY <4>2 DEF QuantumVence
          <5>2. p \in Pids \union {Nadie}  BY DEF Inv, TypeOK, TipoControl
          <5>3. QED  BY <5>1, <5>2 DEF Inv, TypeOK, TipoCpu, Interrupciones
        <4>3. QED  BY <1>2, <4>1, <4>2
      <3>2. QED
        BY <1>2, <3>1 DEF QuantumBajaFlag, QuantumCpuLiberada, QuantumVence, Inv, TypeOK, TipoControl,
                          reloj, canal
    <2>5. TipoColas' /\ TipoControl' /\ TipoIO'
      BY <2>4 DEF Inv, TypeOK, TipoColas, TipoControl, TipoIO, sistema, control, io, sem_io
    <2>6. TipoCpu' /\ CpuLlena'  BY <2>4 DEF Inv, TypeOK, TipoCpu, CpuLlena, cpuVars
    <2>7. IndiceVigente' /\ IOConectada'  BY <1>0, <2>3, <2>4, Vigencia DEF Inv, sistema
    <2>8. QED  BY <2>3, <2>5, <2>6, <2>7 DEF Inv, TypeOK
  <1>3. QED  BY <1>1, <1>2 DEF Quantum

\* recibir_dispatch keeps the inductive invariant.
LEMMA DispatchInv == ASSUME Inv, Dispatch PROVE Inv'
  <1>0. "dispatch" \in Hilos  BY DEF Hilos, HilosKernel
  <1>1. CASE DispatchRecibe
    <2>1. Head(a_kernel) \in Mensajes /\ Tail(a_kernel) \in Seq(Mensajes)
      BY <1>1, CabezaTipo DEF DispatchRecibe, Inv, TypeOK, TipoCpu
    <2>2. Head(a_kernel).pid \in Pids  BY <2>1 DEF Mensajes
    <2>3. Puerta("atender") \in Etiquetas /\ Puerta("atender") \notin {"memoria", "encolar_io"}
      BY DEF Puerta, Etiquetas
    <2>4. /\ TipoHilo' /\ ManosLlenas' /\ hilo'["dispatch"].en = Puerta("atender")
          /\ \A g \in Hilos : g # "dispatch" => hilo'[g] = hilo[g]
      BY <1>0, <1>1, <2>2, <2>3, IrConTipo DEF DispatchRecibe, Inv, TypeOK
    <2>5. TipoColas' /\ TipoControl' /\ CpuLlena'
      BY <1>1 DEF DispatchRecibe, Inv, TypeOK, TipoColas, TipoControl, CpuLlena, sistema, reloj,
                  control, cpuVars
    <2>6. TipoCpu'  BY <1>1, <2>1 DEF DispatchRecibe, Inv, TypeOK, TipoCpu, cpuVars
    <2>7. TipoIO'
      BY <1>1, <2>1 DEF DispatchRecibe, Inv, TypeOK, TipoIO, Mensajes, io, sem_io
    <2>8. IndiceVigente' /\ IOConectada'
      BY <1>0, <1>1, <2>3, <2>4, Vigencia DEF DispatchRecibe, Inv, sistema
    <2>9. QED  BY <2>4, <2>5, <2>6, <2>7, <2>8 DEF Inv, TypeOK
  <1>2. CASE DispatchLevantaFlag
    <2>1. PICK l \in {"bloquear", "post_cpu"} :
              Ir("dispatch", l) /\ hilo["dispatch"].en \in {"atender", "flag"}
      BY <1>2 DEF DispatchLevantaFlag, En
    <2>2. l \in Etiquetas  BY DEF Etiquetas
    <2>3. hilo["dispatch"].pcb \in Pids  BY <1>0, <2>1 DEF Inv, ManosLlenas, ConMano
    <2>4. /\ TipoHilo' /\ ManosLlenas' /\ hilo'["dispatch"].en = l
          /\ \A g \in Hilos : g # "dispatch" => hilo'[g] = hilo[g]
      BY <1>0, <2>1, <2>2, <2>3, IrTipo DEF Inv, TypeOK
    <2>5. TipoColas' /\ TipoControl' /\ TipoIO' /\ TipoCpu' /\ CpuLlena'
      BY <1>2 DEF DispatchLevantaFlag, Inv, TypeOK, TipoColas, TipoControl, TipoIO, TipoCpu, CpuLlena,
                  sistema, control, io, sem_io, cpuVars, canal
    <2>6. IndiceVigente' /\ IOConectada'
      BY <1>0, <1>2, <2>4, Vigencia DEF DispatchLevantaFlag, Inv, sistema
    <2>7. QED  BY <2>4, <2>5, <2>6 DEF Inv, TypeOK
  <1>3. CASE DispatchBloquea \/ DispatchFinaliza
    <2> DEFINE p == hilo["dispatch"].pcb
    <2>1. p \in Pids
      BY <1>0, <1>3 DEF DispatchBloquea, DispatchFinaliza, En, Inv, ManosLlenas, ConMano
    <2>2. PICK l \in {"flag", "post_cpu", "encolar_io"} :
              Ir("dispatch", l) /\ (l = "encolar_io" => mensaje.interfaz \in Interfaces)
      BY <1>3 DEF DispatchBloquea, DispatchFinaliza, interfaz_conectada
    <2>3. l \in Etiquetas  BY DEF Etiquetas
    <2>4. /\ TipoHilo' /\ ManosLlenas' /\ hilo'["dispatch"].en = l
          /\ \A g \in Hilos : g # "dispatch" => hilo'[g] = hilo[g]
      BY <1>0, <2>1, <2>2, <2>3, IrTipo DEF Inv, TypeOK
    <2>5. \/ FinalizarPcb(p)
          \/ /\ estado' = [estado EXCEPT ![p] = "BLOCKED"]
             /\ cola' = [cola EXCEPT !["blocked"] = Append(cola["blocked"], p)]
             /\ Actualizar(p)
             /\ UNCHANGED sem
      BY <1>3 DEF DispatchBloquea, DispatchFinaliza
    <2>6. UNCHANGED <<sistema, mensaje, io, flag_cpu_libre, pcb_en_ejecucion, control, cpuVars, canal,
                      kernel_vivo>>
      BY <1>3 DEF DispatchBloquea, DispatchFinaliza
    <2> HIDE DEF p
    <2>7. TipoColas' /\ colgante' \in BOOLEAN
      <3>1. "hay_proceso_exit" \in Semaforos /\ "exit" \in Colas /\ "blocked" \in Colas
            /\ "TERMINATED" \in Ciclo!Estados /\ "BLOCKED" \in Ciclo!Estados
        BY DEF Semaforos, Colas, Ciclo!Estados
      <3>2. sem' \in [Semaforos \union Permisos -> Nat]
        BY <2>5, <3>1, SemTipo DEF FinalizarPcb, Inv, TypeOK, TipoColas
      <3>3. estado' \in [Pids -> Ciclo!Estados]
        BY <2>5, <3>1 DEF FinalizarPcb, Inv, TypeOK, TipoColas
      <3>4. \A c \in Colas : Append(cola[c], p) \in Seq(Pids)
        BY <2>1 DEF Inv, TypeOK, TipoColas
      <3>5. cola' \in [Colas -> Seq(Pids)]
        BY <2>5, <3>1, <3>4 DEF FinalizarPcb, Inv, TypeOK, TipoColas
      <3>6. colgante' \in BOOLEAN  BY <2>5 DEF FinalizarPcb, Actualizar
      <3>7. QED  BY <2>6, <3>2, <3>3, <3>5, <3>6 DEF TipoColas, Inv, TypeOK, sistema
    <2>8. TipoControl'
      BY <2>6, <2>7 DEF Inv, TypeOK, TipoControl, sistema, control
    <2>9. TipoIO' /\ TipoCpu' /\ CpuLlena'
      BY <2>6 DEF Inv, TypeOK, TipoIO, TipoCpu, CpuLlena, io, sem_io, cpuVars, canal
    <2>10. IndiceVigente'
      BY <1>0, <2>4, <2>6 DEF Inv, IndiceVigente, En, sistema, Hilos, HilosKernel
    <2>11. IOConectada'  BY <2>2, <2>4, <2>6 DEF IOConectada, En
    <2>12. QED  BY <2>4, <2>7, <2>8, <2>9, <2>10, <2>11 DEF Inv, TypeOK
  <1>11. CASE DispatchEncolaIO /\ ConexionAMedias(mensaje.interfaz)
    BY <1>11, CaerInv DEF DispatchEncolaIO
  <1>4. CASE DispatchEncolaIO /\ ~ConexionAMedias(mensaje.interfaz)
    <2>1. hilo["dispatch"].pcb \in Pids /\ mensaje.interfaz \in Interfaces
      BY <1>0, <1>4 DEF DispatchEncolaIO, En, Inv, ManosLlenas, ConMano, IOConectada
    <2>2. "post_cpu" \in Etiquetas  BY DEF Etiquetas
    <2>3. /\ TipoHilo' /\ ManosLlenas' /\ hilo'["dispatch"].en = "post_cpu"
          /\ \A g \in Hilos : g # "dispatch" => hilo'[g] = hilo[g]
      BY <1>0, <1>4, <2>1, <2>2, IrTipo DEF DispatchEncolaIO, Inv, TypeOK
    <2>4. TipoIO'
      <3>1. Append(cola_io[mensaje.interfaz], hilo["dispatch"].pcb) \in Seq(Pids)
            /\ instruccion_en_cola[mensaje.interfaz] + 1 \in Nat
        BY <2>1 DEF Inv, TypeOK, TipoIO
      <3>2. cola_io' \in [Interfaces -> Seq(Pids)] /\ instruccion_en_cola' \in [Interfaces -> Nat]
        BY <1>4, <2>1, <3>1 DEF DispatchEncolaIO, Inv, TypeOK, TipoIO
      <3>3. QED  BY <1>4, <3>2 DEF DispatchEncolaIO, Inv, TypeOK, TipoIO
    <2>5. TipoColas' /\ TipoControl' /\ TipoCpu' /\ CpuLlena'
      BY <1>4 DEF DispatchEncolaIO, Inv, TypeOK, TipoColas, TipoControl, TipoCpu, CpuLlena, sistema,
                  reloj, control, cpuVars, canal
    <2>6. IndiceVigente' /\ IOConectada'
      BY <1>0, <1>4, <2>3, Vigencia DEF DispatchEncolaIO, Inv, sistema
    <2>7. QED  BY <2>3, <2>4, <2>5, <2>6 DEF Inv, TypeOK
  <1>5. CASE DispatchDesaloja
    <2>1. hilo["dispatch"].pcb \in Pids
      BY <1>0, <1>5 DEF DispatchDesaloja, Inv, ManosLlenas, ConMano, En
    <2>2. "READY" \in Ciclo!Estados /\ "ready" \in Colas /\ "listar_ready" \in Etiquetas
      BY DEF Ciclo!Estados, Colas, Etiquetas
    <2>3. /\ TipoColas' /\ TipoHilo' /\ ManosLlenas'
          /\ hilo'["dispatch"].en \in {"colgado", "listar_ready"}
          /\ \A g \in Hilos : g # "dispatch" => hilo'[g] = hilo[g]
      BY <1>0, <1>5, <2>1, <2>2, AgregarTipo DEF DispatchDesaloja, Inv, TypeOK, resto, sistema
    <2>4. QED  BY <1>0, <1>5, <2>3, PasoSimple DEF DispatchDesaloja
  <1>6. CASE DispatchAvisaReady
    <2>1. hilo["dispatch"].pcb \in Pids
      BY <1>0, <1>6 DEF DispatchAvisaReady, Inv, ManosLlenas, ConMano, En
    <2>2. "flag" \in Etiquetas /\ "hay_proceso_a_ready" \in Semaforos  BY DEF Etiquetas, Semaforos
    <2>3. /\ TipoHilo' /\ ManosLlenas' /\ hilo'["dispatch"].en = "flag"
          /\ \A g \in Hilos : g # "dispatch" => hilo'[g] = hilo[g]
      BY <1>0, <1>6, <2>1, <2>2, IrTipo DEF DispatchAvisaReady, Inv, TypeOK
    <2>4. sem' \in [Semaforos \union Permisos -> Nat]
      BY <1>6, <2>2, SemTipo DEF DispatchAvisaReady, Inv, TypeOK
    <2>5. TipoColas'
      BY <1>6, <2>4 DEF DispatchAvisaReady, Inv, TypeOK, TipoColas, sistema
    <2>6. TipoControl'
      BY <1>6 DEF DispatchAvisaReady, Actualizar, Inv, TypeOK, TipoControl, sistema, control
    <2>7. TipoIO' /\ TipoCpu' /\ CpuLlena'
      BY <1>6 DEF DispatchAvisaReady, Inv, TypeOK, TipoIO, TipoCpu, CpuLlena, io, sem_io, cpuVars,
                  canal
    <2>8. IndiceVigente' /\ IOConectada'
      BY <1>0, <1>6, <2>3, Vigencia DEF DispatchAvisaReady, Inv, sistema
    <2>9. QED  BY <2>3, <2>5, <2>6, <2>7, <2>8 DEF Inv, TypeOK
  <1>7. CASE DispatchLiberaCpu
    <2>1. "recibir" \in Etiquetas /\ ~ConMano("dispatch", "recibir")  BY DEF Etiquetas, ConMano
    <2>2. "cpu_libre" \in Semaforos  BY DEF Semaforos
    <2>3. QED  BY <1>0, <1>7, <2>1, <2>2, PasoIrNadie DEF DispatchLiberaCpu
  <1>8. CASE Listar("dispatch")  BY <1>0, <1>8, ListarInv
  <1>9. CASE Reanudar("dispatch")  BY <1>9, ReanudarInv
  <1>10. QED  BY <1>1, <1>2, <1>3, <1>4, <1>11, <1>5, <1>6, <1>7, <1>8, <1>9 DEF Dispatch

\* An interface's step that leaves everything but its own queue and semaphores alone.
LEMMA PasoInterfaz ==
    ASSUME Inv, NEW i \in Interfaces, TipoHilo', ManosLlenas', TipoColas', TipoIO',
           \A g \in Hilos : g # i => hilo'[g] = hilo[g],
           UNCHANGED <<sistema, mensaje, reloj, control, cpuVars, canal, kernel_vivo>>
    PROVE  Inv'
  <1>1. i \in Hilos /\ i # "eliminacion" /\ i # "dispatch"
    BY HilosDistintos DEF HilosKernel
  <1>2. TipoControl' /\ TipoCpu' /\ CpuLlena'
    BY DEF Inv, TypeOK, TipoControl, TipoCpu, CpuLlena, sistema, reloj, control, cpuVars, canal
  <1>3. IndiceVigente' /\ IOConectada'  BY <1>1, Vigencia DEF Inv, sistema
  <1>4. QED  BY <1>2, <1>3 DEF Inv, TypeOK

\* The connection of an interface keeps the inductive invariant.
LEMMA ConexionInv ==
    ASSUME Inv, NEW i \in Interfaces, InterfazConecta(i) \/ InterfazRegistra(i) PROVE Inv'
  <1>1. PICK l \in {"sin_cola", "sin_semaforos", "instruccion"} : Ir(i, l)
    BY DEF InterfazConecta, InterfazRegistra
  <1>2. UNCHANGED <<sem, cola, estado, resto>>  BY DEF InterfazConecta, InterfazRegistra
  <1>3. l \in Etiquetas /\ ~ConMano(i, l)  BY DEF Etiquetas, ConMano
  <1>4. i \in Hilos  BY HilosDistintos
  <1>5. QED  BY <1>1, <1>2, <1>3, <1>4, PasoIr

\* atender_interfaz, for each interface keeps the inductive invariant.
LEMMA InterfazInv == ASSUME Inv, NEW i \in Interfaces, Interfaz(i) PROVE Inv'
  <1>0. i \in Hilos /\ i \in {"dispatch"} \union Interfaces  BY HilosDistintos
  <1>1. CASE InterfazEsperaInstruccion(i)
    <2>1. "binario" \in Etiquetas /\ ~ConMano(i, "binario")  BY DEF Etiquetas, ConMano
    <2>2. /\ TipoHilo' /\ ManosLlenas'
          /\ \A g \in Hilos : g # i => hilo'[g] = hilo[g]
      BY <1>0, <1>1, <2>1, IrTipo DEF InterfazEsperaInstruccion, Inv, TypeOK
    <2>3. instruccion_en_cola[i] - 1 \in Nat
      BY <1>1 DEF InterfazEsperaInstruccion, Inv, TypeOK, TipoIO
    <2>4. TipoIO'  BY <1>1, <2>3 DEF InterfazEsperaInstruccion, Inv, TypeOK, TipoIO
    <2>5. TipoColas'  BY <1>1 DEF InterfazEsperaInstruccion, Inv, TypeOK, TipoColas, sistema
    <2>6. QED  BY <1>1, <2>2, <2>4, <2>5, PasoInterfaz DEF InterfazEsperaInstruccion
  <1>2. CASE InterfazEnvia(i)
    <2>1. CASE cola_io[i] = <<>>  BY <1>2, <2>1, CaerInv DEF InterfazEnvia
    <2>2. CASE cola_io[i] # <<>>
      <3>1. Head(cola_io[i]) \in Pids /\ Tail(cola_io[i]) \in Seq(Pids)
        BY <2>2, CabezaTipo DEF Inv, TypeOK, TipoIO
      <3>2. "respuesta" \in Etiquetas  BY DEF Etiquetas
      <3>3. /\ TipoHilo' /\ ManosLlenas'
            /\ \A g \in Hilos : g # i => hilo'[g] = hilo[g]
        BY <1>0, <1>2, <2>2, <3>1, <3>2, IrConTipo DEF InterfazEnvia, Inv, TypeOK
      <3>4. binario_io_libre[i] - 1 \in Nat
        BY <1>2 DEF InterfazEnvia, Inv, TypeOK, TipoIO
      <3>5. TipoIO'  BY <1>2, <2>2, <3>1, <3>4 DEF InterfazEnvia, Inv, TypeOK, TipoIO
      <3>6. TipoColas'  BY <1>2, <2>2 DEF InterfazEnvia, Inv, TypeOK, TipoColas, sistema
      <3>7. QED  BY <1>2, <2>2, <3>3, <3>5, <3>6, PasoInterfaz DEF InterfazEnvia
    <2>3. QED  BY <2>1, <2>2
  <1>3. CASE InterfazResponde(i)
    <2>1. hilo[i].pcb \in Pids  BY <1>0, <1>3 DEF InterfazResponde, Inv, ManosLlenas, ConMano, En
    <2>2. Puerta("resultado") \in Etiquetas /\ Puerta("resultado") \notin {"memoria", "encolar_io"}
      BY DEF Puerta, Etiquetas
    <2>3. QED  BY <1>0, <1>3, <2>1, <2>2, PasoIr DEF InterfazResponde
  <1>4. CASE InterfazCierra(i)
    <2>1. "instruccion" \in Etiquetas /\ ~ConMano(i, "instruccion")  BY DEF Etiquetas, ConMano
    <2>2. QED  BY <1>0, <1>4, <2>1, PasoIrNadie DEF InterfazCierra
  <1>5. CASE InterfazDesbloquea(i)
    <2> DEFINE p == hilo[i].pcb
               b == cola["blocked"]
    <2>1. p \in Pids /\ b \in Seq(Pids)
      BY <1>0, <1>5 DEF InterfazDesbloquea, Inv, ManosLlenas, ConMano, En, TypeOK, TipoColas, Colas
    <2>2. CASE ~Contains(b, p)  BY <1>5, <2>2, CaerInv DEF InterfazDesbloquea
    <2>3. CASE Contains(b, p)
      <3>1. PICK l \in {"agregar_ready", "agregar_plus"} : Ir(i, l)
        BY <1>5, <2>3 DEF InterfazDesbloquea
      <3>2. l \in Etiquetas  BY DEF Etiquetas
      <3>3. /\ cola' = [cola EXCEPT !["blocked"] = RemoveAt(b, Indice(b, p))]
            /\ UNCHANGED <<sem, estado, resto>>
        BY <1>5, <2>3 DEF InterfazDesbloquea
      <3> HIDE DEF p, b
      <3>4. /\ TipoHilo' /\ ManosLlenas' /\ hilo'[i].en = l
            /\ \A g \in Hilos : g # i => hilo'[g] = hilo[g]
        BY <1>0, <2>1, <3>1, <3>2, IrTipo DEF Inv, TypeOK, p
      <3>5. RemoveAt(b, Indice(b, p)) \in Seq(Pids)
        BY <2>1, <2>3, IndiceTipo, RemoveAtTipo
      <3>6. TipoColas'
        BY <3>3, <3>5 DEF Inv, TypeOK, TipoColas, Colas, resto, sistema
      <3>7. QED  BY <1>0, <3>3, <3>4, <3>6, PasoSimple
    <2>4. QED  BY <2>2, <2>3
  <1>6. CASE InterfazAgrega(i)
    <2>1. hilo[i].pcb \in Pids
      BY <1>0, <1>6 DEF InterfazAgrega, Inv, ManosLlenas, ConMano, En
    <2>2. PICK c \in {"ready", "plus"}, sigue \in {"listar_ready", "listar_plus"} :
              set_add_pcb_cola(i, hilo[i].pcb, "READY", c, sigue)
      BY <1>6 DEF InterfazAgrega
    <2>3. "READY" \in Ciclo!Estados /\ c \in Colas /\ sigue \in Etiquetas
      BY DEF Ciclo!Estados, Colas, Etiquetas
    <2>4. UNCHANGED <<sem, resto>>  BY <1>6 DEF InterfazAgrega
    <2>5. /\ TipoColas' /\ TipoHilo' /\ ManosLlenas' /\ hilo'[i].en \in {"colgado", sigue}
          /\ \A g \in Hilos : g # i => hilo'[g] = hilo[g]
      BY <1>0, <2>1, <2>2, <2>3, <2>4, AgregarTipo DEF Inv, TypeOK, resto, sistema
    <2>6. QED  BY <1>0, <2>4, <2>5, PasoSimple
  <1>7. CASE InterfazAvisa(i)
    <2>1. "instruccion" \in Etiquetas /\ ~ConMano(i, "instruccion")  BY DEF Etiquetas, ConMano
    <2>2. /\ TipoHilo' /\ ManosLlenas'
          /\ \A g \in Hilos : g # i => hilo'[g] = hilo[g]
      BY <1>0, <1>7, <2>1, IrConTipo DEF InterfazAvisa, Inv, TypeOK
    <2>3. binario_io_libre[i] + 1 \in Nat  BY DEF Inv, TypeOK, TipoIO
    <2>4. TipoIO'  BY <1>7, <2>3 DEF InterfazAvisa, Inv, TypeOK, TipoIO
    <2>5. "hay_proceso_a_ready" \in Semaforos  BY DEF Semaforos
    <2>6. sem' \in [Semaforos \union Permisos -> Nat]
      BY <1>7, <2>5, SemTipo DEF InterfazAvisa, Inv, TypeOK
    <2>7. TipoColas'  BY <1>7, <2>6 DEF InterfazAvisa, Inv, TypeOK, TipoColas, sistema
    <2>8. QED  BY <1>7, <2>2, <2>4, <2>7, PasoInterfaz DEF InterfazAvisa
  <1>8. CASE Listar(i)  BY <1>0, <1>8, ListarInv
  <1>9. CASE Reanudar(i)  BY <1>9, ReanudarInv
  <1>10. CASE InterfazConecta(i) \/ InterfazRegistra(i)  BY <1>10, ConexionInv
  <1>11. QED  BY <1>1, <1>2, <1>3, <1>4, <1>5, <1>6, <1>7, <1>8, <1>9, <1>10
          DEF Interfaz, InterfazSigue

\* A step of the CPU, which only touches its own state and the sockets.
LEMMA CpuInv == ASSUME Inv, CpuDispatch \/ CpuRecibeInterrupcion PROVE Inv'
  <1>1. /\ UNCHANGED <<kernelVars, estado, kernel_vivo>>
    BY DEF CpuDispatch, CpuRecibePcb, CpuEjecuta, QuedaSinMemoria, CpuChequea, CpuTermina, CpuRecibeInterrupcion
  <1>2. /\ TipoColas' /\ TipoHilo' /\ TipoIO' /\ TipoControl' /\ ManosLlenas'
        /\ IOConectada' /\ IndiceVigente'
    BY <1>1 DEF Inv, TypeOK, TipoColas, TipoHilo, TipoIO, TipoControl, ManosLlenas, IOConectada,
                IndiceVigente, En, kernelVars, sistema, io, sem_io, reloj, control
  <1>3. TipoCpu' /\ CpuLlena'
    <2>1. CASE CpuRecibeInterrupcion
      <3>1. Head(interrupt) \in Interrupciones /\ Tail(interrupt) \in Seq(Interrupciones)
        BY <2>1, CabezaTipo DEF CpuRecibeInterrupcion, Inv, TypeOK, TipoCpu
      <3>2. QED  BY <2>1, <3>1 DEF CpuRecibeInterrupcion, Inv, TypeOK, TipoCpu, CpuLlena
    <2>2. CASE CpuRecibePcb
      <3>1. Head(a_cpu) \in Pids /\ Tail(a_cpu) \in Seq(Pids)
        BY <2>2, CabezaTipo DEF CpuRecibePcb, Inv, TypeOK, TipoCpu
      <3>2. QED  BY <2>2, <3>1 DEF CpuRecibePcb, Inv, TypeOK, TipoCpu, CpuLlena
    <2>3. CASE CpuEjecuta
      <3>1. cpu.pid \in Pids /\ pc[cpu.pid] \in 1 .. Len(Programa[cpu.pid])
        BY <2>3 DEF CpuEjecuta, QuedaSinMemoria, HayInstruccion, Inv, CpuLlena, TypeOK, TipoCpu
      <3>2. Proxima \in Instrucciones  BY <3>1, ConstantesOK DEF Proxima
      <3>3. Proxima.interfaz \in Interfaces \union {SinInterfaz}  BY <3>2 DEF Instrucciones
      <3>4. pc' \in [Pids -> Nat \ {0}]
        <4>1. pc[cpu.pid] + 1 \in Nat \ {0}  BY <3>1
        <4>2. QED  BY <2>3, <3>1, <4>1 DEF CpuEjecuta, QuedaSinMemoria, Inv, TypeOK, TipoCpu
      <3>5. a_kernel' \in Seq(Mensajes)
        <4>1. \A m \in Motivos, i \in Interfaces \union {SinInterfaz} :
                  Append(a_kernel, [motivo |-> m, pid |-> cpu.pid, interfaz |-> i]) \in Seq(Mensajes)
          BY <3>1 DEF Mensajes, Inv, TypeOK, TipoCpu
        <4>2. \/ UNCHANGED a_kernel
              \/ Enviar("OUT_OF_MEMORY", cpu.pid, SinInterfaz)
              \/ Enviar("OPERACION_IO", cpu.pid, Proxima.interfaz)
          BY <2>3 DEF CpuEjecuta, QuedaSinMemoria
        <4>3. {"OUT_OF_MEMORY", "OPERACION_IO"} \subseteq Motivos  BY DEF Motivos
        <4>4. CASE UNCHANGED a_kernel  BY <4>4 DEF Inv, TypeOK, TipoCpu
        <4>5. ASSUME NEW m \in Motivos, NEW i \in Interfaces \union {SinInterfaz},
                     Enviar(m, cpu.pid, i)
              PROVE  a_kernel' \in Seq(Mensajes)
          BY <4>1, <4>5 DEF Enviar
        <4>6. QED  BY <3>3, <4>2, <4>3, <4>4, <4>5
      <3>6. flags' \subseteq {"process_finished", "interruption", "input_ouput", "out_of_memory"}
        BY <2>3 DEF CpuEjecuta, QuedaSinMemoria, Inv, TypeOK, TipoCpu
      <3>7. QED
        BY <2>3, <3>1, <3>4, <3>5, <3>6 DEF CpuEjecuta, QuedaSinMemoria, Inv, TypeOK, TipoCpu, CpuLlena
    <2>4. CASE CpuChequea
      BY <2>4 DEF CpuChequea, Inv, TypeOK, TipoCpu, CpuLlena, canal
    <2>5. CASE CpuTermina
      <3>1. cpu.pid \in Pids  BY <2>5 DEF CpuTermina, Inv, CpuLlena
      <3>2. interrupcion_recibida.motivo \in Motivos
        BY DEF Inv, TypeOK, TipoCpu, Interrupciones, Motivos
      <3>3. a_kernel' \in Seq(Mensajes)
        <4>1. \A m \in Motivos :
                  Append(a_kernel, [motivo |-> m, pid |-> cpu.pid, interfaz |-> SinInterfaz])
                      \in Seq(Mensajes)
          BY <3>1 DEF Mensajes, Inv, TypeOK, TipoCpu
        <4>2. "END_PROCESS" \in Motivos  BY DEF Motivos
        <4>3. QED  BY <2>5, <3>2, <4>1, <4>2 DEF CpuTermina, Enviar, Inv, TypeOK, TipoCpu
      <3>4. QED  BY <2>5, <3>3 DEF CpuTermina, Inv, TypeOK, TipoCpu, CpuLlena
    <2>6. QED  BY <2>1, <2>2, <2>3, <2>4, <2>5 DEF CpuDispatch
  <1>4. QED  BY <1>2, <1>3 DEF Inv, TypeOK

-----------------------------------------------------------------------------
(* The inductive invariant *)

\* Every step of the system keeps the inductive invariant.
LEMMA NextInv == ASSUME Inv, [Next]_vars PROVE Inv'
  <1>1. CASE Next
    BY <1>1, ConsolaInv, CreacionInv, EliminacionInv, CortoInv, QuantumInv, DispatchInv, InterfazInv,
       CpuInv
    DEF Next
  <1>2. CASE UNCHANGED vars
    <2>1. TypeOK'
      <3>1. TipoColas' /\ TipoHilo' /\ TipoControl'
        BY <1>2 DEF vars, kernelVars, sistema, reloj, control, Inv, TypeOK, TipoColas, TipoHilo,
                    TipoControl
      <3>2. TipoIO' /\ TipoCpu'
        BY <1>2 DEF vars, kernelVars, io, sem_io, cpuVars, canal, Inv, TypeOK, TipoIO, TipoCpu
      <3>3. QED  BY <3>1, <3>2 DEF TypeOK
    <2>2. ManosLlenas' /\ CpuLlena' /\ IOConectada' /\ IndiceVigente'
      BY <1>2 DEF vars, kernelVars, sistema, cpuVars, Inv, ManosLlenas, CpuLlena, IOConectada,
                  IndiceVigente, En
    <2>3. QED  BY <2>1, <2>2 DEF Inv
  <1>3. QED  BY <1>1, <1>2

\* The inductive invariant behind the rest: types, and that a thread about to use a PCB, the
\* CPU while it runs and the index of eliminacion_de_procesos do refer to a process.
THEOREM InvSiempre == Spec => []Inv
  <1>1. QED  BY InitInv, NextInv, PTL DEF Spec

\* The state of the kernel and of the CPU keeps its types, whatever the number of
\* processes and interfaces: no semaphore goes negative, no list_remove falls outside its
\* list, no empty queue's head is used as a PCB.
THEOREM TypeCorrect == Spec => []TypeOK
  <1>1. Inv => TypeOK  BY DEF Inv
  <1>2. QED  BY InvSiempre, <1>1, PTL

\* The index that eliminacion_de_procesos keeps while it talks to memory stays that of its
\* process: only that thread removes from procesos_en_sistema, and the console appends.
THEOREM IndiceCorrecto == Spec => []IndiceVigente
  <1>1. Inv => IndiceVigente  BY DEF Inv
  <1>2. QED  BY InvSiempre, <1>1, PTL

-----------------------------------------------------------------------------
(* What a step of each thread leaves alone *)

\* Only h moves, and only the semaphores of S and the queues of C may change.
Marco(h, S, C) ==
    /\ \A g \in Hilos : g # h => hilo'[g] = hilo[g]
    /\ \A s \in Semaforos : s \notin S => sem'[s] = sem[s]
    /\ \A c \in Colas : c \notin C => cola'[c] = cola[c]

\* A semaphore operation only changes its semaphore, and a permission is none of Semaforos.
LEMMA SemMarco ==
    ASSUME TipoColas, NEW s \in Semaforos \union Permisos, NEW t \in Semaforos, t # s,
           Esperar(s) \/ Postear(s)
    PROVE  sem'[t] = sem[t]
  BY DEF TipoColas, Esperar, Postear, Con, Sin

\* The permissions of the gates are other semaphores than those that count.
LEMMA PermisosAparte == Permisos \intersect Semaforos = {}
  BY DEF Permisos, Semaforos

\* A step of h that moves it, changes one semaphore of S or a permission, or none, and
\* one queue of C or none.
LEMMA UnMarco ==
    ASSUME Inv, NEW h \in Hilos, NEW S \in SUBSET Semaforos, NEW C \in SUBSET Colas,
           \/ UNCHANGED hilo
           \/ \E l : Ir(h, l)
           \/ \E l, p : IrCon(h, l, p),
           \/ UNCHANGED sem
           \/ \E s \in S \union Permisos : Esperar(s) \/ Postear(s),
           \/ UNCHANGED cola
           \/ \E c \in C : \E v : cola' = [cola EXCEPT ![c] = v]
    PROVE  Marco(h, S, C)
  <1>1. \A g \in Hilos : g # h => hilo'[g] = hilo[g]  BY SoloMueve
  <1>2. \A s \in Semaforos : s \notin S => sem'[s] = sem[s]
    BY SemMarco, PermisosAparte DEF Inv, TypeOK
  <1>3. \A c \in Colas : c \notin C => cola'[c] = cola[c]  BY DEF Inv, TypeOK, TipoColas
  <1>4. QED  BY <1>1, <1>2, <1>3 DEF Marco

\* Reanudar and Caer change no queue and no semaphore but a permission.
LEMMA MarcoReanudar ==
    ASSUME Inv, NEW h \in {"creacion", "eliminacion", "corto", "dispatch"} \union Interfaces,
           Reanudar(h), NEW S \in SUBSET Semaforos, NEW C \in SUBSET Colas
    PROVE  Marco(h, S, C)
  <1>1. h \in Hilos  BY HilosDistintos DEF HilosKernel
  <1>2. QED  BY <1>1, PermisoDeTipo, UnMarco DEF Reanudar

\* The console: the semaphores and queues it may change.
LEMMA MarcoConsola == ASSUME Inv, Consola PROVE Marco("consola", {"hay_proceso_nuevo"}, {"new"})
  <1>1. "consola" \in Hilos /\ "hay_proceso_nuevo" \in Semaforos /\ "new" \in Colas
    BY DEF Hilos, HilosKernel, Semaforos, Colas
  <1>2. CASE IniciarPlanificacion
    BY <1>2, PermisosAparte DEF IniciarPlanificacion, Marco, Inv, TypeOK, TipoColas
  <1>3. CASE ~IniciarPlanificacion
    BY <1>1, <1>3, UnMarco DEF Consola, ConsolaSigue, IniciarProceso, AvisarNuevo, RegistrarProceso,
                               DetenerPlanificacion, set_add_pcb_cola
  <1>4. QED  BY <1>2, <1>3

\* creacion_de_procesos: the semaphores and queues it may change.
LEMMA MarcoCreacion ==
    ASSUME Inv, Creacion
    PROVE  Marco("creacion", {"hay_proceso_nuevo", "grado_multi", "hay_proceso_a_ready"}, {"new", "ready"})
  <1> DEFINE S == {"hay_proceso_nuevo", "grado_multi", "hay_proceso_a_ready"}
             C == {"new", "ready"}
  <1>1. "creacion" \in Hilos /\ S \in SUBSET Semaforos /\ C \in SUBSET Colas
    BY DEF Hilos, HilosKernel, Semaforos, Colas
  <1>2. CASE Reanudar("creacion")  BY <1>1, <1>2, MarcoReanudar
  <1>3. CASE ~Reanudar("creacion")
    BY <1>1, <1>3, UnMarco DEF Creacion, CreacionEsperaNuevo, CreacionEsperaGrado, CreacionPopNew,
             CreacionAgrega, CreacionAvisa, Listar, Caer, kernelVars, set_add_pcb_cola
  <1>4. QED  BY <1>2, <1>3

\* eliminacion_de_procesos: the semaphores and queues it may change.
LEMMA MarcoEliminacion ==
    ASSUME Inv, Eliminacion
    PROVE  Marco("eliminacion", {"hay_proceso_exit", "grado_multi"}, {"exit"})
  <1> DEFINE S == {"hay_proceso_exit", "grado_multi"}
             C == {"exit"}
  <1>1. "eliminacion" \in Hilos /\ S \in SUBSET Semaforos /\ C \in SUBSET Colas
    BY DEF Hilos, HilosKernel, Semaforos, Colas
  <1>2. CASE Reanudar("eliminacion")  BY <1>1, <1>2, MarcoReanudar
  <1>3. CASE ~Reanudar("eliminacion")
    BY <1>1, <1>3, UnMarco DEF Eliminacion, EliminacionEsperaExit, EliminacionPopExit,
             EliminacionDestruye, Caer, kernelVars
  <1>4. QED  BY <1>2, <1>3

\* The short-term planner: the semaphores and queues it may change.
LEMMA MarcoCorto ==
    ASSUME Inv, Corto
    PROVE  Marco("corto", {"hay_proceso_a_ready", "cpu_libre", "arrancar_quantum"}, {"ready", "plus"})
  <1> DEFINE S == {"hay_proceso_a_ready", "cpu_libre", "arrancar_quantum"}
             C == {"ready", "plus"}
  <1>1. "corto" \in Hilos /\ S \in SUBSET Semaforos /\ C \in SUBSET Colas
    BY DEF Hilos, HilosKernel, Semaforos, Colas
  <1>2. CASE Reanudar("corto")  BY <1>1, <1>2, MarcoReanudar
  <1>3. CASE CortoPop
    <2>1. \/ UNCHANGED <<sem, hilo, cola>>
          \/ /\ UNCHANGED sem /\ \E p : IrCon("corto", "setear", p)
             /\ \E c \in C : \E v : cola' = [cola EXCEPT ![c] = v]
      BY <1>3 DEF CortoPop, Caer, kernelVars
    <2>2. QED  BY <1>1, <2>1, UnMarco
  <1>4. CASE ~Reanudar("corto") /\ ~CortoPop
    BY <1>1, <1>4, UnMarco DEF Corto, CortoEsperaReady, CortoEsperaCpu, CortoElige, CortoMiraPlus,
             CortoTomaMutex, CortoSetea, CortoEnvia, CortoArrancaQuantum
  <1>5. QED  BY <1>2, <1>3, <1>4

\* The thread of the quantum: the semaphores and queues it may change.
LEMMA MarcoQuantum == ASSUME Inv, Quantum PROVE Marco("quantum", {"arrancar_quantum"}, {})
  <1>1. "quantum" \in Hilos /\ "arrancar_quantum" \in Semaforos
    BY DEF Hilos, HilosKernel, Semaforos
  <1>2. QED
    BY <1>1, UnMarco DEF Quantum, QuantumEspera, QuantumBajaFlag, QuantumCpuLiberada, QuantumVence

\* recibir_dispatch: the semaphores and queues it may change.
LEMMA MarcoDispatch ==
    ASSUME Inv, Dispatch
    PROVE  Marco("dispatch", {"hay_proceso_a_ready", "hay_proceso_exit", "cpu_libre"},
                 {"ready", "blocked", "exit"})
  <1> DEFINE S == {"hay_proceso_a_ready", "hay_proceso_exit", "cpu_libre"}
             C == {"ready", "blocked", "exit"}
  <1>1. "dispatch" \in Hilos /\ S \in SUBSET Semaforos /\ C \in SUBSET Colas
    BY DEF Hilos, HilosKernel, Semaforos, Colas
  <1>2. CASE Reanudar("dispatch")  BY <1>1, <1>2, MarcoReanudar
  <1>3. CASE ~Reanudar("dispatch")
    BY <1>1, <1>3, UnMarco DEF Dispatch, DispatchRecibe, DispatchLevantaFlag, DispatchBloquea,
             DispatchEncolaIO, DispatchDesaloja, DispatchAvisaReady, DispatchFinaliza,
             DispatchLiberaCpu, Listar, FinalizarPcb, set_add_pcb_cola, Caer, kernelVars
  <1>4. QED  BY <1>2, <1>3

\* atender_interfaz, for each interface: the semaphores and queues it may change.
LEMMA MarcoInterfaz ==
    ASSUME Inv, NEW i \in Interfaces, Interfaz(i)
    PROVE  Marco(i, {"hay_proceso_a_ready"}, {"ready", "plus", "blocked"})
  <1> DEFINE S == {"hay_proceso_a_ready"}
             C == {"ready", "plus", "blocked"}
  <1>1. i \in Hilos /\ S \in SUBSET Semaforos /\ C \in SUBSET Colas
    BY HilosDistintos DEF Semaforos, Colas
  <1>2. CASE Reanudar(i)  BY <1>1, <1>2, MarcoReanudar
  <1>3. CASE InterfazAgrega(i) \/ InterfazDesbloquea(i) \/ InterfazEnvia(i)
    BY <1>1, <1>3, UnMarco DEF InterfazAgrega, InterfazDesbloquea, InterfazEnvia, set_add_pcb_cola,
             Caer, kernelVars
  <1>4. CASE ~Reanudar(i) /\ ~(InterfazAgrega(i) \/ InterfazDesbloquea(i) \/ InterfazEnvia(i))
    BY <1>1, <1>4, UnMarco DEF Interfaz, InterfazSigue, InterfazConecta, InterfazRegistra,
             InterfazEsperaInstruccion, InterfazResponde, InterfazCierra, InterfazAvisa, Listar
  <1>5. QED  BY <1>2, <1>3, <1>4

-----------------------------------------------------------------------------
(* NEW, EXIT and the queues of the interfaces: each popped by one thread *)

\* The processes that hay_proceso_nuevo announces, the console has not announced yet, or
\* creacion_de_procesos is about to take are those of NEW.
CuentaNew ==
    sem["hay_proceso_nuevo"] + B(En("consola", "post_nuevo"))
      + B(hilo["creacion"].en \in {"detenida", "grado", "pop_new"}) = Len(cola["new"])

\* The same of EXIT, whose process is pushed before it is announced by the same thread.
CuentaExit ==
    sem["hay_proceso_exit"] + B(hilo["eliminacion"].en \in {"detenida", "pop_exit"})
      = Len(cola["exit"])

\* The same of the queue of each interface.
CuentaIO ==
    \A i \in Interfaces : instruccion_en_cola[i] + B(En(i, "binario")) = Len(cola_io[i])

\* What the counts are made of.
LEMMA Naturales ==
    ASSUME Inv
    PROVE  /\ \A s \in Semaforos : sem[s] \in Nat
           /\ \A c \in Colas : cola[c] \in Seq(Pids) /\ Len(cola[c]) \in Nat
  BY DEF Inv, TypeOK, TipoColas

\* Where a thread is after a step of its own.
LEMMA Llega ==
    ASSUME Inv, NEW h \in Hilos, NEW l, Ir(h, l) \/ \E p : IrCon(h, l, p)
    PROVE  hilo'[h].en = l
  BY DEF Inv, TypeOK, TipoHilo, Ir, IrCon

\* Only the console and creacion_de_procesos touch what CuentaNew counts.
LEMMA CuentaNewMarco ==
    ASSUME CuentaNew, NEW h \in Hilos \ {"consola", "creacion"}, NEW S, NEW C, Marco(h, S, C),
           "hay_proceso_nuevo" \notin S, "new" \notin C
    PROVE  CuentaNew'
  BY DEF Marco, CuentaNew, En, Hilos, HilosKernel, Semaforos, Colas

\* Every step keeps CuentaNew: pushes before posts, waits before pops.
LEMMA CuentaNewPaso == ASSUME Inv, CuentaNew, [Next]_vars PROVE CuentaNew'
  <1>0. /\ "hay_proceso_nuevo" \in Semaforos /\ "new" \in Colas
        /\ "consola" \in Hilos /\ "creacion" \in Hilos
    BY DEF Semaforos, Colas, Hilos, HilosKernel
  <1> DEFINE n == sem["hay_proceso_nuevo"]
  <1>1. n \in Nat /\ cola["new"] \in Seq(Pids) /\ Len(cola["new"]) \in Nat  BY <1>0, Naturales
  <1>2. CASE Consola
    <2>1. hilo'["creacion"] = hilo["creacion"]  BY <1>0, <1>2, MarcoConsola DEF Marco
    <2>2. CASE IniciarProceso
      <3>1. UNCHANGED sem /\ hilo["consola"].en = "comando"  BY <2>2 DEF IniciarProceso, En
      <3>2. CASE MutexTomado("new")
        <4>1. hilo'["consola"].en = "colgado" /\ UNCHANGED cola
          BY <1>0, <2>2, <3>2, Llega DEF IniciarProceso, set_add_pcb_cola
        <4>2. QED  BY <2>1, <3>1, <4>1 DEF CuentaNew, B, En
      <3>3. CASE ~MutexTomado("new")
        <4>1. /\ hilo'["consola"].en = "post_nuevo"
              /\ cola' = [cola EXCEPT !["new"] = Append(cola["new"], contador_pid)]
          BY <1>0, <2>2, <3>3, Llega DEF IniciarProceso, set_add_pcb_cola
        <4>2. Len(cola'["new"]) = Len(cola["new"]) + 1
          BY <1>0, <1>1, <4>1 DEF Inv, TypeOK, TipoColas
        <4>3. QED  BY <1>1, <2>1, <3>1, <4>1, <4>2 DEF CuentaNew, B, En
      <3>4. QED  BY <3>2, <3>3
    <2>3. CASE AvisarNuevo
      <3>1. /\ hilo["consola"].en = "post_nuevo" /\ hilo'["consola"].en = "registrar"
            /\ UNCHANGED cola
        BY <1>0, <2>3, Llega DEF AvisarNuevo, En
      <3>2. sem'["hay_proceso_nuevo"] = n + 1
        BY <1>0, <2>3 DEF AvisarNuevo, Postear, Con, Inv, TypeOK, TipoColas
      <3>3. QED  BY <1>1, <2>1, <3>1, <3>2 DEF CuentaNew, B, En
    <2>4. CASE RegistrarProceso \/ DetenerPlanificacion \/ IniciarPlanificacion
      <3>1. UNCHANGED cola /\ sem'["hay_proceso_nuevo"] = n
        BY <1>0, <2>4, PermisosAparte DEF RegistrarProceso, DetenerPlanificacion,
                                          IniciarPlanificacion, Inv, TypeOK, TipoColas
      <3>2. hilo["consola"].en # "post_nuevo" /\ hilo'["consola"].en # "post_nuevo"
        BY <1>0, <2>4, Llega DEF RegistrarProceso, DetenerPlanificacion, IniciarPlanificacion, En
      <3>3. QED  BY <2>1, <3>1, <3>2 DEF CuentaNew, B, En
    <2>5. QED  BY <1>2, <2>2, <2>3, <2>4 DEF Consola, ConsolaSigue
  <1>3. CASE Creacion
    <2>1. hilo'["consola"] = hilo["consola"]  BY <1>0, <1>3, MarcoCreacion DEF Marco
    <2>2. CASE CreacionEsperaNuevo
      <3>1. UNCHANGED cola /\ sem'["hay_proceso_nuevo"] = n - 1
        BY <1>0, <2>2 DEF CreacionEsperaNuevo, Esperar, Sin, Inv, TypeOK, TipoColas
      <3>2. hilo["creacion"].en = "hay_nuevo" /\ hilo'["creacion"].en \in {"detenida", "grado"}
        BY <1>0, <2>2, Llega DEF CreacionEsperaNuevo, Puerta, En
      <3>3. QED  BY <1>1, <2>1, <3>1, <3>2 DEF CuentaNew, B, En
    <2>3. CASE CreacionPopNew
      <3>1. CASE cola["new"] = <<>>
        BY <2>3, <3>1 DEF CreacionPopNew, Caer, kernelVars, CuentaNew, En
      <3>2. CASE cola["new"] # <<>>
        <4>1. /\ UNCHANGED sem /\ cola' = [cola EXCEPT !["new"] = Tail(cola["new"])]
              /\ hilo["creacion"].en = "pop_new" /\ hilo'["creacion"].en = "agregar"
          BY <1>0, <2>3, <3>2, Llega DEF CreacionPopNew, En
        <4>2. Len(cola'["new"]) = Len(cola["new"]) - 1
          BY <1>0, <1>1, <3>2, <4>1 DEF Inv, TypeOK, TipoColas
        <4>3. QED  BY <1>1, <2>1, <4>1, <4>2 DEF CuentaNew, B, En
      <3>3. QED  BY <3>1, <3>2
    <2>4. CASE \/ CreacionEsperaGrado \/ CreacionAgrega \/ CreacionAvisa \/ Listar("creacion")
               \/ Reanudar("creacion")
      <3>1. TrasLaPuerta("creacion") = "grado"
        BY HilosDistintos DEF TrasLaPuerta, HilosKernel
      <3>2. (hilo'["creacion"].en \in {"detenida", "grado", "pop_new"})
              <=> (hilo["creacion"].en \in {"detenida", "grado", "pop_new"})
        BY <1>0, <2>4, <3>1, Llega DEF CreacionEsperaGrado, CreacionAgrega, CreacionAvisa, Listar,
                                       Reanudar, set_add_pcb_cola, En
      <3>3. sem'["hay_proceso_nuevo"] = n
        <4>1. \/ UNCHANGED sem
              \/ \E s \in {"grado_multi", "hay_proceso_a_ready"} \union Permisos :
                     Esperar(s) \/ Postear(s)
          BY <2>4, PermisoDeTipo DEF CreacionEsperaGrado, CreacionAgrega, CreacionAvisa, Listar, Reanudar
        <4>2. {"grado_multi", "hay_proceso_a_ready"} \subseteq Semaforos  BY DEF Semaforos
        <4>3. QED  BY <1>0, <4>1, <4>2, SemMarco, PermisosAparte DEF Inv, TypeOK
      <3>4. cola'["new"] = cola["new"]
        BY <1>0, <2>4 DEF CreacionEsperaGrado, CreacionAgrega, CreacionAvisa, Listar, Reanudar,
                          set_add_pcb_cola, Inv, TypeOK, TipoColas
      <3>5. QED  BY <2>1, <3>2, <3>3, <3>4 DEF CuentaNew, B, En
    <2>5. QED  BY <1>3, <2>2, <2>3, <2>4 DEF Creacion
  <1>4. CASE Eliminacion \/ Corto \/ Quantum \/ Dispatch \/ \E i \in Interfaces : Interfaz(i)
    <2>1. \E h \in Hilos \ {"consola", "creacion"} : \E S, C :
              Marco(h, S, C) /\ "hay_proceso_nuevo" \notin S /\ "new" \notin C
      BY <1>4, MarcoEliminacion, MarcoCorto, MarcoQuantum, MarcoDispatch, MarcoInterfaz, HilosDistintos
      DEF Hilos, HilosKernel
    <2>2. QED  BY <2>1, CuentaNewMarco
  <1>5. CASE CpuDispatch \/ CpuRecibeInterrupcion \/ UNCHANGED vars
    BY <1>5 DEF CpuDispatch, CpuRecibePcb, CpuEjecuta, QuedaSinMemoria, CpuChequea, CpuTermina, CpuRecibeInterrupcion,
                vars, kernelVars, CuentaNew, En
  <1>6. QED  BY <1>2, <1>3, <1>4, <1>5 DEF Next

\* Only eliminacion_de_procesos and recibir_dispatch touch what CuentaExit counts.
LEMMA CuentaExitMarco ==
    ASSUME CuentaExit, NEW h \in Hilos \ {"eliminacion"}, NEW S, NEW C, Marco(h, S, C),
           "hay_proceso_exit" \notin S, "exit" \notin C
    PROVE  CuentaExit'
  BY DEF Marco, CuentaExit, Hilos, HilosKernel, Semaforos, Colas

\* Every step keeps CuentaExit: finalizar_pcb pushes and posts.
LEMMA CuentaExitPaso == ASSUME Inv, CuentaExit, [Next]_vars PROVE CuentaExit'
  <1>0. "hay_proceso_exit" \in Semaforos /\ "exit" \in Colas /\ "eliminacion" \in Hilos
    BY DEF Semaforos, Colas, Hilos, HilosKernel
  <1> DEFINE n == sem["hay_proceso_exit"]
  <1>1. n \in Nat /\ cola["exit"] \in Seq(Pids) /\ Len(cola["exit"]) \in Nat  BY <1>0, Naturales
  <1>2. CASE Dispatch
    <2>1. hilo'["eliminacion"] = hilo["eliminacion"]  BY <1>0, <1>2, MarcoDispatch DEF Marco
    <2>2. CASE FinalizarPcb(hilo["dispatch"].pcb)
      <3>1. sem'["hay_proceso_exit"] = n + 1
        BY <1>0, <2>2 DEF FinalizarPcb, Postear, Con, Inv, TypeOK, TipoColas
      <3>2. Len(cola'["exit"]) = Len(cola["exit"]) + 1
        BY <1>0, <1>1, <2>2 DEF FinalizarPcb, Inv, TypeOK, TipoColas
      <3>3. QED  BY <1>1, <2>1, <3>1, <3>2 DEF CuentaExit, B
    <2>3. CASE ~FinalizarPcb(hilo["dispatch"].pcb)
      <3>1. \/ UNCHANGED sem
            \/ \E s \in {"hay_proceso_a_ready", "cpu_libre"} \union Permisos : Esperar(s) \/ Postear(s)
        BY <1>2, <2>3, PermisoDeTipo
        DEF Dispatch, DispatchRecibe, DispatchLevantaFlag, DispatchBloquea, DispatchEncolaIO,
            DispatchDesaloja, DispatchAvisaReady, DispatchFinaliza, DispatchLiberaCpu, Listar, Reanudar,
            Caer, kernelVars
      <3>2. {"hay_proceso_a_ready", "cpu_libre"} \subseteq Semaforos  BY DEF Semaforos
      <3>3. sem'["hay_proceso_exit"] = n
        BY <1>0, <3>1, <3>2, SemMarco, PermisosAparte DEF Inv, TypeOK
      <3>4. cola'["exit"] = cola["exit"]
        BY <1>0, <1>2, <2>3
        DEF Dispatch, DispatchRecibe, DispatchLevantaFlag, DispatchBloquea, DispatchEncolaIO,
            DispatchDesaloja, DispatchAvisaReady, DispatchFinaliza, DispatchLiberaCpu, Listar, Reanudar,
            set_add_pcb_cola, Caer, kernelVars, Inv, TypeOK, TipoColas
      <3>5. QED  BY <2>1, <3>3, <3>4 DEF CuentaExit
    <2>4. QED  BY <2>2, <2>3
  <1>3. CASE Eliminacion
    <2>1. CASE EliminacionEsperaExit
      <3>1. UNCHANGED cola /\ sem'["hay_proceso_exit"] = n - 1
        BY <1>0, <2>1 DEF EliminacionEsperaExit, Esperar, Sin, Inv, TypeOK, TipoColas
      <3>2. /\ hilo["eliminacion"].en = "hay_exit"
            /\ hilo'["eliminacion"].en \in {"detenida", "pop_exit"}
        BY <1>0, <2>1, Llega DEF EliminacionEsperaExit, Puerta, En
      <3>3. QED  BY <1>1, <3>1, <3>2 DEF CuentaExit, B
    <2>2. CASE EliminacionPopExit
      <3>1. CASE cola["exit"] = <<>>
        BY <2>2, <3>1 DEF EliminacionPopExit, Caer, kernelVars, CuentaExit
      <3>2. CASE cola["exit"] # <<>>
        <4>1. /\ UNCHANGED sem /\ cola' = [cola EXCEPT !["exit"] = Tail(cola["exit"])]
              /\ hilo["eliminacion"].en = "pop_exit" /\ hilo'["eliminacion"].en = "memoria"
          BY <1>0, <2>2, <3>2, Llega DEF EliminacionPopExit, En
        <4>2. Len(cola'["exit"]) = Len(cola["exit"]) - 1
          BY <1>0, <1>1, <3>2, <4>1 DEF Inv, TypeOK, TipoColas
        <4>3. QED  BY <1>1, <4>1, <4>2 DEF CuentaExit, B
      <3>3. QED  BY <3>1, <3>2
    <2>3. CASE EliminacionDestruye \/ Reanudar("eliminacion")
      <3>1. TrasLaPuerta("eliminacion") = "pop_exit"
        BY HilosDistintos DEF TrasLaPuerta, HilosKernel
      <3>2. (hilo'["eliminacion"].en \in {"detenida", "pop_exit"})
              <=> (hilo["eliminacion"].en \in {"detenida", "pop_exit"})
        BY <1>0, <2>3, <3>1, Llega DEF EliminacionDestruye, Reanudar, En
      <3>3. UNCHANGED cola  BY <2>3 DEF EliminacionDestruye, Reanudar
      <3>4. sem'["hay_proceso_exit"] = n
        <4>1. \E s \in {"grado_multi"} \union Permisos : Esperar(s) \/ Postear(s)
          BY <2>3, PermisoDeTipo DEF EliminacionDestruye, Reanudar
        <4>2. {"grado_multi"} \subseteq Semaforos  BY DEF Semaforos
        <4>3. QED  BY <1>0, <4>1, <4>2, SemMarco, PermisosAparte DEF Inv, TypeOK
      <3>5. QED  BY <3>2, <3>3, <3>4 DEF CuentaExit, B
    <2>4. QED  BY <1>3, <2>1, <2>2, <2>3 DEF Eliminacion
  <1>4. CASE Consola \/ Creacion \/ Corto \/ Quantum \/ \E i \in Interfaces : Interfaz(i)
    <2>1. \E h \in Hilos \ {"eliminacion"} : \E S, C :
              Marco(h, S, C) /\ "hay_proceso_exit" \notin S /\ "exit" \notin C
      BY <1>4, MarcoConsola, MarcoCreacion, MarcoCorto, MarcoQuantum, MarcoInterfaz, HilosDistintos
      DEF Hilos, HilosKernel
    <2>2. QED  BY <2>1, CuentaExitMarco
  <1>5. CASE CpuDispatch \/ CpuRecibeInterrupcion \/ UNCHANGED vars
    BY <1>5 DEF CpuDispatch, CpuRecibePcb, CpuEjecuta, QuedaSinMemoria, CpuChequea, CpuTermina, CpuRecibeInterrupcion,
                vars, kernelVars, CuentaExit
  <1>6. QED  BY <1>2, <1>3, <1>4, <1>5 DEF Next

\* Only recibir_dispatch and the interface itself touch what CuentaIO counts.
LEMMA CuentaIOMarco ==
    ASSUME CuentaIO, NEW h \in HilosKernel, NEW S, NEW C, Marco(h, S, C), UNCHANGED io
    PROVE  CuentaIO'
  BY HilosDistintos DEF Marco, CuentaIO, En, io, sem_io

\* Every step keeps CuentaIO: recibir_dispatch pushes and posts, the interface waits and pops.
LEMMA CuentaIOPaso == ASSUME Inv, CuentaIO, [Next]_vars PROVE CuentaIO'
  <1>1. CASE Consola \/ Creacion \/ Eliminacion \/ Corto \/ Quantum
    <2>1. \E h \in HilosKernel : \E S, C : Marco(h, S, C)
      BY <1>1, MarcoConsola, MarcoCreacion, MarcoEliminacion, MarcoCorto, MarcoQuantum DEF HilosKernel
    <2>2. UNCHANGED io
      <3>1. CASE Consola \/ Eliminacion \/ Quantum
        BY <3>1
        DEF Consola, ConsolaSigue, IniciarProceso, AvisarNuevo, RegistrarProceso, DetenerPlanificacion,
            IniciarPlanificacion, Eliminacion, EliminacionEsperaExit, EliminacionPopExit,
            EliminacionDestruye, Reanudar, Quantum, QuantumEspera, QuantumBajaFlag, QuantumCpuLiberada,
            QuantumVence, Caer, kernelVars, resto
      <3>2. CASE Creacion \/ Corto
        BY <3>2
        DEF Creacion, CreacionEsperaNuevo, CreacionEsperaGrado, CreacionPopNew, CreacionAgrega,
            CreacionAvisa, Corto, CortoEsperaReady, CortoEsperaCpu, CortoElige, CortoMiraPlus,
            CortoTomaMutex, CortoPop, CortoSetea, CortoEnvia, CortoArrancaQuantum, Listar, Reanudar,
            Caer, kernelVars, resto
      <3>3. QED  BY <1>1, <3>1, <3>2
    <2>3. QED  BY <2>1, <2>2, CuentaIOMarco
  <1>2. CASE Dispatch
    <2>1. \A j \in Interfaces : hilo'[j] = hilo[j]
      BY <1>2, MarcoDispatch, HilosDistintos DEF Marco, HilosKernel
    <2>5. CASE Caer
      BY <2>1, <2>5 DEF Caer, kernelVars, io, sem_io, CuentaIO, En
    <2>2. CASE DispatchEncolaIO /\ ~Caer
      <3>1. \A j \in Interfaces : cola_io[j] \in Seq(Pids) /\ instruccion_en_cola[j] \in Nat
        BY DEF Inv, TypeOK, TipoIO
      <3>2. ASSUME NEW j \in Interfaces
            PROVE  instruccion_en_cola'[j] + B(En(j, "binario")') = Len(cola_io'[j])
        <4>1. instruccion_en_cola[j] + B(En(j, "binario")) = Len(cola_io[j])  BY DEF CuentaIO
        <4>2. B(En(j, "binario")') = B(En(j, "binario"))  BY <2>1 DEF B, En
        <4>3. B(En(j, "binario")) \in Nat  BY DEF B
        <4>4. CASE j = mensaje.interfaz
          <5>1. instruccion_en_cola'[j] = instruccion_en_cola[j] + 1
            BY <2>2, <4>4 DEF DispatchEncolaIO, Inv, TypeOK, TipoIO
          <5>2. cola_io'[j] = Append(cola_io[j], hilo["dispatch"].pcb)
            BY <2>2, <4>4 DEF DispatchEncolaIO, Inv, TypeOK, TipoIO
          <5>3. Len(cola_io'[j]) = Len(cola_io[j]) + 1  BY <3>1, <5>2
          <5>4. instruccion_en_cola[j] \in Nat /\ Len(cola_io[j]) \in Nat  BY <3>1
          <5>5. (instruccion_en_cola[j] + 1) + B(En(j, "binario")) = Len(cola_io[j]) + 1
            BY <4>1, <4>3, <5>4
          <5>6. QED  BY <4>2, <5>1, <5>3, <5>5
        <4>5. CASE j # mensaje.interfaz
          <5>1. instruccion_en_cola'[j] = instruccion_en_cola[j] /\ cola_io'[j] = cola_io[j]
            BY <2>2, <4>5 DEF DispatchEncolaIO, Inv, TypeOK, TipoIO
          <5>2. QED  BY <4>1, <4>2, <5>1
        <4>6. QED  BY <4>4, <4>5
      <3>3. QED  BY <3>2 DEF CuentaIO
    <2>3. CASE ~DispatchEncolaIO
      <3>1. UNCHANGED io
        BY <1>2, <2>3
        DEF Dispatch, DispatchRecibe, DispatchLevantaFlag, DispatchBloquea, DispatchDesaloja,
            DispatchAvisaReady, DispatchFinaliza, DispatchLiberaCpu, Listar, Reanudar, resto
      <3>2. QED  BY <2>1, <3>1 DEF CuentaIO, En, io, sem_io
    <2>4. QED  BY <2>2, <2>3, <2>5
  <1>3. CASE \E i \in Interfaces : Interfaz(i)
    <2>1. PICK i \in Interfaces : Interfaz(i)  BY <1>3
    <2>2. i \in Hilos /\ \A j \in Interfaces : j # i => hilo'[j] = hilo[j]
      BY <2>1, MarcoInterfaz, HilosDistintos DEF Marco
    <2>3. cola_io[i] \in Seq(Pids) /\ instruccion_en_cola[i] \in Nat
      BY DEF Inv, TypeOK, TipoIO
    <2>4. CASE InterfazEsperaInstruccion(i)
      <3>1. hilo[i].en = "instruccion" /\ hilo'[i].en = "binario" /\ UNCHANGED cola_io
        BY <2>2, <2>4, Llega DEF InterfazEsperaInstruccion, En
      <3>2. /\ instruccion_en_cola'[i] = instruccion_en_cola[i] - 1
            /\ \A j \in Interfaces : j # i => instruccion_en_cola'[j] = instruccion_en_cola[j]
        BY <2>4 DEF InterfazEsperaInstruccion, Inv, TypeOK, TipoIO
      <3>3. QED  BY <2>2, <2>3, <3>1, <3>2 DEF CuentaIO, En, B
    <2>5. CASE InterfazEnvia(i)
      <3>1. CASE cola_io[i] = <<>>
        BY <2>5, <3>1 DEF InterfazEnvia, Caer, kernelVars, io, sem_io, CuentaIO, En
      <3>2. CASE cola_io[i] # <<>>
        <4>1. hilo[i].en = "binario" /\ hilo'[i].en = "respuesta" /\ UNCHANGED instruccion_en_cola
          BY <2>2, <2>5, <3>2, Llega DEF InterfazEnvia, En
        <4>2. /\ cola_io'[i] = Tail(cola_io[i])
              /\ \A j \in Interfaces : j # i => cola_io'[j] = cola_io[j]
          BY <2>5, <3>2 DEF InterfazEnvia, Inv, TypeOK, TipoIO
        <4>3. Len(cola_io'[i]) = Len(cola_io[i]) - 1  BY <2>3, <3>2, <4>2
        <4>4. instruccion_en_cola'[i] + B(En(i, "binario")') = Len(cola_io'[i])
          BY <2>2, <2>3, <4>1, <4>3 DEF CuentaIO, En, B
        <4>5. \A j \in Interfaces : j # i =>
                  instruccion_en_cola'[j] + B(En(j, "binario")') = Len(cola_io'[j])
          BY <2>2, <4>1, <4>2 DEF CuentaIO, En, B
        <4>6. QED  BY <4>4, <4>5 DEF CuentaIO
      <3>3. QED  BY <3>1, <3>2
    <2>6. CASE ~InterfazEsperaInstruccion(i) /\ ~InterfazEnvia(i)
      <3>1. UNCHANGED <<cola_io, instruccion_en_cola>>
        BY <2>1, <2>6
        DEF Interfaz, InterfazSigue, InterfazConecta, InterfazRegistra, InterfazResponde, InterfazCierra,
            InterfazDesbloquea, InterfazAgrega, InterfazAvisa, Listar, Reanudar, Caer, kernelVars, resto, io, sem_io
      <3>2. hilo[i].en # "binario" /\ hilo'[i].en # "binario"
        <4>1. TrasLaPuerta(i) = "resultado"  BY DEF TrasLaPuerta
        <4>2. CASE InterfazDesbloquea(i)
          BY <2>2, <4>2, Llega DEF InterfazDesbloquea, Caer, kernelVars, En
        <4>3. CASE InterfazAgrega(i)
          BY <2>2, <4>3, Llega DEF InterfazAgrega, set_add_pcb_cola, En
        <4>4. CASE InterfazAvisa(i) \/ InterfazResponde(i) \/ InterfazCierra(i) \/ Listar(i) \/ Reanudar(i)
          BY <2>2, <4>1, <4>4, Llega DEF InterfazAvisa, InterfazResponde, InterfazCierra, Listar,
                                         Reanudar, Puerta, En
        <4>6. CASE InterfazConecta(i) \/ InterfazRegistra(i)
          BY <2>2, <4>6, Llega DEF InterfazConecta, InterfazRegistra, En
        <4>5. QED  BY <2>1, <2>6, <4>2, <4>3, <4>4, <4>6 DEF Interfaz, InterfazSigue
      <3>3. QED  BY <2>2, <3>1, <3>2 DEF CuentaIO, En, B
    <2>7. QED  BY <2>4, <2>5, <2>6
  <1>4. CASE CpuDispatch \/ CpuRecibeInterrupcion \/ UNCHANGED vars
    BY <1>4 DEF CpuDispatch, CpuRecibePcb, CpuEjecuta, QuedaSinMemoria, CpuChequea, CpuTermina, CpuRecibeInterrupcion,
                vars, kernelVars, io, sem_io, CuentaIO, En
  <1>5. QED  BY <1>1, <1>2, <1>3, <1>4 DEF Next

-----------------------------------------------------------------------------
(* READY and ready_plus: pushed by many threads, popped by one, one semaphore *)

Anunciando == {"listar_ready", "listando_ready", "listar_plus", "listando_plus"}

\* There are finitely many threads, since there are finitely many interfaces.
LEMMA HilosFinitos == IsFiniteSet(Hilos)
  <1>1. IsFiniteSet({"consola", "creacion"})
    <2>1. IsFiniteSet({"consola"})  BY FS_Singleton
    <2>2. {"consola", "creacion"} = {"consola"} \union {"creacion"}  OBVIOUS
    <2>3. QED  BY <2>1, <2>2, FS_AddElement
  <1>2. IsFiniteSet({"corto", "quantum"})
    <2>1. IsFiniteSet({"corto"})  BY FS_Singleton
    <2>2. {"corto", "quantum"} = {"corto"} \union {"quantum"}  OBVIOUS
    <2>3. QED  BY <2>1, <2>2, FS_AddElement
  <1>3. IsFiniteSet({"dispatch", "eliminacion"})
    <2>1. IsFiniteSet({"dispatch"})  BY FS_Singleton
    <2>2. {"dispatch", "eliminacion"} = {"dispatch"} \union {"eliminacion"}  OBVIOUS
    <2>3. QED  BY <2>1, <2>2, FS_AddElement
  <1>4. IsFiniteSet({"consola", "creacion"} \union {"corto", "quantum"})  BY <1>1, <1>2, FS_Union
  <1>5. IsFiniteSet(({"consola", "creacion"} \union {"corto", "quantum"})
                      \union {"dispatch", "eliminacion"})
    BY <1>3, <1>4, FS_Union
  <1>6. HilosKernel = ({"consola", "creacion"} \union {"corto", "quantum"})
                        \union {"dispatch", "eliminacion"}
    BY DEF HilosKernel
  <1>7. IsFiniteSet(Interfaces)  BY ConstantesOK
  <1>8. IsFiniteSet(HilosKernel)  BY <1>5, <1>6
  <1>9. QED  BY <1>7, <1>8, FS_Union DEF Hilos

\* So the threads that have to announce a process can be counted.
LEMMA AnunciantesFinitos == IsFiniteSet(Anunciantes) /\ Cardinality(Anunciantes) \in Nat
  <1>1. Anunciantes \in SUBSET Hilos  BY DEF Anunciantes
  <1>2. IsFiniteSet(Anunciantes)  BY <1>1, HilosFinitos, FS_Subset
  <1>3. QED  BY <1>2, FS_CardinalityType

\* A thread that pushes a process is one more that has to announce it; one that announces
\* it is one less.
LEMMA AnunciaMas ==
    ASSUME NEW h \in Hilos, hilo[h].en \notin Anunciando, hilo'[h].en \in Anunciando,
           \A g \in Hilos : g # h => hilo'[g] = hilo[g]
    PROVE  Cardinality(Anunciantes') = Cardinality(Anunciantes) + 1
  <1>1. Anunciantes' = Anunciantes \union {h} /\ h \notin Anunciantes
    BY DEF Anunciantes, Anunciando
  <1>2. QED  BY <1>1, AnunciantesFinitos, FS_AddElement

\* A thread that announces its process is one less to be counted.
LEMMA AnunciaMenos ==
    ASSUME NEW h \in Hilos, hilo[h].en \in Anunciando, hilo'[h].en \notin Anunciando,
           \A g \in Hilos : g # h => hilo'[g] = hilo[g]
    PROVE  Cardinality(Anunciantes') = Cardinality(Anunciantes) - 1
  <1>1. Anunciantes' = Anunciantes \ {h} /\ h \in Anunciantes
    BY DEF Anunciantes, Anunciando
  <1>2. QED  BY <1>1, AnunciantesFinitos, FS_RemoveElement

\* A thread that neither starts nor ends an announcement changes none.
LEMMA AnunciaIgual ==
    ASSUME NEW h \in Hilos, hilo[h].en \in Anunciando <=> hilo'[h].en \in Anunciando,
           \A g \in Hilos : g # h => hilo'[g] = hilo[g]
    PROVE  Anunciantes' = Anunciantes
  BY DEF Anunciantes, Anunciando

\* What the planner relies on once it has chosen a queue: only it takes processes out.
\* Without VRR nobody uses ready_plus.
Eleccion ==
    /\ hilo["corto"].en \in {"tomar_plus", "pop_plus"} => cola["plus"] # <<>>
    /\ hilo["corto"].en \in {"tomar_ready", "pop_ready"} => cola["ready"] # <<>>
    /\ Algoritmo # "VRR" =>
           cola["plus"] = <<>> /\ \A h \in Hilos : hilo[h].en # "agregar_plus"

InvReady == CuentaReady /\ Eleccion

\* What CuentaReady adds up are natural numbers.
LEMMA NaturalesReady ==
    ASSUME Inv
    PROVE  /\ sem["hay_proceso_a_ready"] \in Nat
           /\ cola["ready"] \in Seq(Pids) /\ Len(cola["ready"]) \in Nat
           /\ cola["plus"] \in Seq(Pids) /\ Len(cola["plus"]) \in Nat
           /\ B(PopPendiente) \in Nat
  BY Naturales DEF Semaforos, Colas, B

\* A step of another thread that neither pushes nor announces.
LEMMA ReadyIgual ==
    ASSUME InvReady, NEW h \in Hilos \ {"corto"}, \A g \in Hilos : g # h => hilo'[g] = hilo[g],
           hilo[h].en \in Anunciando <=> hilo'[h].en \in Anunciando,
           hilo'[h].en = "agregar_plus" => Algoritmo = "VRR",
           sem'["hay_proceso_a_ready"] = sem["hay_proceso_a_ready"],
           cola'["ready"] = cola["ready"], cola'["plus"] = cola["plus"]
    PROVE  InvReady'
  <1>1. Anunciantes' = Anunciantes  BY AnunciaIgual
  <1>2. hilo'["corto"] = hilo["corto"]  BY DEF Hilos, HilosKernel
  <1>3. CuentaReady'  BY <1>1, <1>2 DEF InvReady, CuentaReady, PopPendiente
  <1>4. Eleccion'  BY <1>2 DEF InvReady, Eleccion
  <1>5. QED  BY <1>3, <1>4 DEF InvReady

\* set_add_pcb_cola in READY or in ready_plus.
LEMMA ReadyAgrega ==
    ASSUME Inv, InvReady, NEW h \in Hilos \ {"corto"}, NEW p \in Pids, NEW c \in {"ready", "plus"},
           NEW sigue \in Anunciando, set_add_pcb_cola(h, p, "READY", c, sigue), UNCHANGED sem,
           hilo[h].en \notin Anunciando, c = "plus" => Algoritmo = "VRR"
    PROVE  InvReady'
  <1>0. h \in Hilos /\ \A g \in Hilos : g # h => hilo'[g] = hilo[g]
    BY SoloMueve DEF set_add_pcb_cola
  <1>1. CASE MutexTomado(c)
    <2>1. hilo'[h].en = "colgado" /\ UNCHANGED cola
      BY <1>0, <1>1, Llega DEF set_add_pcb_cola
    <2>2. hilo'[h].en \notin Anunciando /\ hilo'[h].en # "agregar_plus"  BY <2>1 DEF Anunciando
    <2>3. QED  BY <1>0, <2>1, <2>2, ReadyIgual
  <1>2. CASE ~MutexTomado(c)
    <2>1. hilo'[h].en = sigue /\ cola' = [cola EXCEPT ![c] = Append(cola[c], p)]
      BY <1>0, <1>2, Llega DEF set_add_pcb_cola
    <2>2. Cardinality(Anunciantes') = Cardinality(Anunciantes) + 1
      BY <1>0, <2>1, AnunciaMas
    <2>3. /\ cola[c] \in Seq(Pids) /\ cola'[c] = Append(cola[c], p)
          /\ \A d \in {"ready", "plus"} : d # c => cola'[d] = cola[d]
      BY <2>1 DEF Inv, TypeOK, TipoColas, Colas
    <2>4. Len(cola'[c]) = Len(cola[c]) + 1 /\ cola'[c] # <<>>  BY <2>3, AppendProperties
    <2>5. hilo'["corto"] = hilo["corto"]  BY <1>0 DEF Hilos, HilosKernel
    <2>6. CuentaReady'
      <3> DEFINE a == Cardinality(Anunciantes)
                 b == B(PopPendiente)
                 n == sem["hay_proceso_a_ready"]
                 r == Len(cola["ready"])
                 m == Len(cola["plus"])
      <3>1. n \in Nat /\ a \in Nat /\ b \in Nat /\ r \in Nat /\ m \in Nat
        BY NaturalesReady, AnunciantesFinitos
      <3>2. n + a + b = r + m  BY DEF InvReady, CuentaReady
      <3>3. b' = b  BY <2>5 DEF B, PopPendiente
      <3>4. n' = n /\ a' = a + 1  BY <2>2
      <3>5. \/ r' = r + 1 /\ m' = m
            \/ r' = r /\ m' = m + 1
        BY <2>3, <2>4
      <3>6. n' + a' + b' = r' + m'
        <4> HIDE DEF n, a, b, r, m
        <4>1. QED  BY <3>1, <3>2, <3>3, <3>4, <3>5
      <3>7. QED  BY <3>6 DEF CuentaReady
    <2>7. Eleccion'
      <3>1. hilo'["corto"].en \in {"tomar_plus", "pop_plus"} => cola'["plus"] # <<>>
        BY <2>3, <2>4, <2>5 DEF InvReady, Eleccion
      <3>2. hilo'["corto"].en \in {"tomar_ready", "pop_ready"} => cola'["ready"] # <<>>
        BY <2>3, <2>4, <2>5 DEF InvReady, Eleccion
      <3>3. Algoritmo # "VRR" =>
                cola'["plus"] = <<>> /\ \A g \in Hilos : hilo'[g].en # "agregar_plus"
        BY <1>0, <2>1, <2>3 DEF InvReady, Eleccion, Anunciando
      <3>4. QED  BY <3>1, <3>2, <3>3 DEF Eleccion
    <2>8. QED  BY <2>6, <2>7 DEF InvReady
  <1>3. QED  BY <1>1, <1>2

\* sem_post(&hay_proceso_a_ready) after listing the queue.
LEMMA ReadyAvisa ==
    ASSUME Inv, InvReady, NEW h \in Hilos \ {"corto"}, \A g \in Hilos : g # h => hilo'[g] = hilo[g],
           hilo[h].en \in Anunciando, hilo'[h].en \notin Anunciando, hilo'[h].en # "agregar_plus",
           Postear("hay_proceso_a_ready"), UNCHANGED cola
    PROVE  InvReady'
  <1>1. Cardinality(Anunciantes') = Cardinality(Anunciantes) - 1  BY AnunciaMenos
  <1>2. sem'["hay_proceso_a_ready"] = sem["hay_proceso_a_ready"] + 1
    BY DEF Postear, Con, Inv, TypeOK, TipoColas, Semaforos
  <1>3. hilo'["corto"] = hilo["corto"]  BY DEF Hilos, HilosKernel
  <1>4. B(PopPendiente)' = B(PopPendiente)  BY <1>3 DEF B, PopPendiente
  <1> DEFINE a == Cardinality(Anunciantes)
             b == B(PopPendiente)
             n == sem["hay_proceso_a_ready"]
             r == Len(cola["ready"])
             m == Len(cola["plus"])
  <1>5. CuentaReady'
    <2>1. n \in Nat /\ a \in Nat /\ b \in Nat /\ r \in Nat /\ m \in Nat
      BY NaturalesReady, AnunciantesFinitos
    <2>2. n + a + b = r + m  BY DEF InvReady, CuentaReady
    <2>3. n' = n + 1 /\ a' = a - 1 /\ b' = b /\ r' = r /\ m' = m  BY <1>1, <1>2, <1>4
    <2>4. n' + a' + b' = r' + m'
      <3> HIDE DEF n, a, b, r, m
      <3>1. QED  BY <2>1, <2>2, <2>3
    <2>5. QED  BY <2>4 DEF CuentaReady
  <1>6. Eleccion'  BY <1>3 DEF InvReady, Eleccion
  <1>7. QED  BY <1>5, <1>6 DEF InvReady

\* creacion_de_procesos keeps the count of READY and ready_plus.
LEMMA CreacionReady == ASSUME Inv, InvReady, Creacion PROVE InvReady'
  <1>0. "creacion" \in Hilos \ {"corto"}  BY DEF Hilos, HilosKernel
  <1>1. \A g \in Hilos : g # "creacion" => hilo'[g] = hilo[g]  BY MarcoCreacion DEF Marco
  <1>2. CASE CreacionAgrega
    <2>1. hilo["creacion"].en = "agregar" /\ hilo["creacion"].pcb \in Pids
      BY <1>0, <1>2 DEF CreacionAgrega, En, Inv, ManosLlenas, ConMano
    <2>2. hilo["creacion"].en \notin Anunciando /\ "listar_ready" \in Anunciando
      BY <2>1 DEF Anunciando
    <2>3. QED  BY <1>0, <1>2, <2>1, <2>2, ReadyAgrega DEF CreacionAgrega
  <1>3. CASE CreacionAvisa
    <2>1. hilo["creacion"].en = "listando_ready" /\ hilo'["creacion"].en = "hay_nuevo"
      BY <1>0, <1>3, Llega DEF CreacionAvisa, En
    <2>2. QED  BY <1>0, <1>1, <1>3, <2>1, ReadyAvisa DEF CreacionAvisa, Anunciando
  <1>4. CASE Caer
    BY <1>4 DEF Caer, kernelVars, InvReady, CuentaReady, Eleccion, Anunciantes, PopPendiente
  <1>5. CASE ~CreacionAgrega /\ ~CreacionAvisa /\ ~Caer
    <2>1. TrasLaPuerta("creacion") = "grado"  BY HilosDistintos DEF TrasLaPuerta, HilosKernel
    <2>2. /\ hilo["creacion"].en \in Anunciando <=> hilo'["creacion"].en \in Anunciando
          /\ hilo'["creacion"].en # "agregar_plus"
      BY <1>0, <1>5, <2>1, Llega
      DEF Creacion, CreacionEsperaNuevo, CreacionEsperaGrado, CreacionPopNew, Listar, Reanudar, Puerta,
          En, Anunciando
    <2>3. \/ UNCHANGED sem
          \/ \E s \in {"hay_proceso_nuevo", "grado_multi"} \union Permisos : Esperar(s) \/ Postear(s)
      BY <1>5, PermisoDeTipo
      DEF Creacion, CreacionEsperaNuevo, CreacionEsperaGrado, CreacionPopNew, Listar, Reanudar
    <2>4. sem'["hay_proceso_a_ready"] = sem["hay_proceso_a_ready"]
      BY <2>3, SemMarco, PermisosAparte DEF Inv, TypeOK, Semaforos
    <2>5. cola'["ready"] = cola["ready"] /\ cola'["plus"] = cola["plus"]
      BY <1>5
      DEF Creacion, CreacionEsperaNuevo, CreacionEsperaGrado, CreacionPopNew, Listar, Reanudar, Inv,
          TypeOK, TipoColas, Colas
    <2>6. QED  BY <1>0, <1>1, <2>2, <2>4, <2>5, ReadyIgual
  <1>6. QED  BY <1>2, <1>3, <1>4, <1>5

\* recibir_dispatch keeps the count of READY and ready_plus.
LEMMA DispatchReady == ASSUME Inv, InvReady, Dispatch PROVE InvReady'
  <1>0. "dispatch" \in Hilos \ {"corto"}  BY DEF Hilos, HilosKernel
  <1>1. \A g \in Hilos : g # "dispatch" => hilo'[g] = hilo[g]  BY MarcoDispatch DEF Marco
  <1>2. CASE DispatchDesaloja
    <2>1. hilo["dispatch"].en = "atender" /\ hilo["dispatch"].pcb \in Pids
      BY <1>0, <1>2 DEF DispatchDesaloja, En, Inv, ManosLlenas, ConMano
    <2>2. hilo["dispatch"].en \notin Anunciando /\ "listar_ready" \in Anunciando
      BY <2>1 DEF Anunciando
    <2>3. QED  BY <1>0, <1>2, <2>1, <2>2, ReadyAgrega DEF DispatchDesaloja
  <1>3. CASE DispatchAvisaReady
    <2>1. hilo["dispatch"].en = "listando_ready" /\ hilo'["dispatch"].en = "flag"
      BY <1>0, <1>3, Llega DEF DispatchAvisaReady, En
    <2>2. QED  BY <1>0, <1>1, <1>3, <2>1, ReadyAvisa DEF DispatchAvisaReady, Anunciando
  <1>6. CASE Caer
    BY <1>6 DEF Caer, kernelVars, InvReady, CuentaReady, Eleccion, Anunciantes, PopPendiente
  <1>4. CASE ~DispatchDesaloja /\ ~DispatchAvisaReady /\ ~Caer
    <2>1. TrasLaPuerta("dispatch") = "atender"  BY HilosDistintos DEF TrasLaPuerta, HilosKernel
    <2>2. /\ hilo["dispatch"].en \in Anunciando <=> hilo'["dispatch"].en \in Anunciando
          /\ hilo'["dispatch"].en # "agregar_plus"
      BY <1>0, <1>4, <2>1, Llega
      DEF Dispatch, DispatchRecibe, DispatchLevantaFlag, DispatchBloquea, DispatchEncolaIO,
          DispatchFinaliza, DispatchLiberaCpu, Listar, Reanudar, Puerta, En, Anunciando
    <2>3. \/ UNCHANGED sem
          \/ \E s \in {"hay_proceso_exit", "cpu_libre"} \union Permisos : Esperar(s) \/ Postear(s)
      BY <1>4, PermisoDeTipo
      DEF Dispatch, DispatchRecibe, DispatchLevantaFlag, DispatchBloquea, DispatchEncolaIO,
          DispatchFinaliza, DispatchLiberaCpu, FinalizarPcb, Listar, Reanudar
    <2>4. sem'["hay_proceso_a_ready"] = sem["hay_proceso_a_ready"]
      BY <2>3, SemMarco, PermisosAparte DEF Inv, TypeOK, Semaforos
    <2>5. cola'["ready"] = cola["ready"] /\ cola'["plus"] = cola["plus"]
      BY <1>4
      DEF Dispatch, DispatchRecibe, DispatchLevantaFlag, DispatchBloquea, DispatchEncolaIO,
          DispatchFinaliza, DispatchLiberaCpu, FinalizarPcb, Listar, Reanudar, Inv, TypeOK, TipoColas,
          Colas
    <2>6. QED  BY <1>0, <1>1, <2>2, <2>4, <2>5, ReadyIgual
  <1>5. QED  BY <1>2, <1>3, <1>4, <1>6

\* atender_interfaz, for each interface keeps the count of READY and ready_plus.
LEMMA InterfazReady == ASSUME Inv, InvReady, NEW i \in Interfaces, Interfaz(i) PROVE InvReady'
  <1>0. i \in Hilos \ {"corto"} /\ TrasLaPuerta(i) = "resultado"
    BY HilosDistintos DEF HilosKernel, TrasLaPuerta
  <1>1. \A g \in Hilos : g # i => hilo'[g] = hilo[g]  BY MarcoInterfaz DEF Marco
  <1>2. CASE InterfazAgrega(i)
    <2>1. PICK c \in {"ready", "plus"}, sigue \in Anunciando :
              /\ set_add_pcb_cola(i, hilo[i].pcb, "READY", c, sigue)
              /\ hilo[i].en = IF c = "ready" THEN "agregar_ready" ELSE "agregar_plus"
      BY <1>2 DEF InterfazAgrega, Anunciando, En
    <2>2. hilo[i].pcb \in Pids  BY <1>0, <2>1 DEF Inv, ManosLlenas, ConMano
    <2>3. hilo[i].en \notin Anunciando  BY <2>1 DEF Anunciando
    <2>4. c = "plus" => Algoritmo = "VRR"  BY <1>0, <2>1 DEF InvReady, Eleccion
    <2>5. UNCHANGED sem  BY <1>2 DEF InterfazAgrega
    <2>6. QED  BY <1>0, <2>1, <2>2, <2>3, <2>4, <2>5, ReadyAgrega
  <1>3. CASE InterfazAvisa(i)
    <2>1. hilo[i].en \in {"listando_ready", "listando_plus"} /\ hilo'[i].en = "instruccion"
      BY <1>0, <1>3, Llega DEF InterfazAvisa
    <2>2. QED  BY <1>0, <1>1, <1>3, <2>1, ReadyAvisa DEF InterfazAvisa, Anunciando
  <1>4. CASE Caer
    BY <1>4 DEF Caer, kernelVars, InvReady, CuentaReady, Eleccion, Anunciantes, PopPendiente
  <1>5. CASE ~InterfazAgrega(i) /\ ~InterfazAvisa(i) /\ ~Caer
    <2>1. /\ hilo[i].en \in Anunciando <=> hilo'[i].en \in Anunciando
          /\ hilo'[i].en = "agregar_plus" => Algoritmo = "VRR"
      <3>1. CASE InterfazDesbloquea(i)
        BY <1>0, <1>5, <3>1, Llega DEF InterfazDesbloquea, En, Anunciando
      <3>2. CASE InterfazEsperaInstruccion(i) \/ InterfazEnvia(i)
        BY <1>0, <1>5, <3>2, Llega DEF InterfazEsperaInstruccion, InterfazEnvia, En, Anunciando
      <3>3. CASE InterfazResponde(i) \/ InterfazCierra(i) \/ Listar(i) \/ Reanudar(i)
        BY <1>0, <3>3, Llega DEF InterfazResponde, InterfazCierra, Listar, Reanudar, Puerta, En,
                                 Anunciando
      <3>5. CASE InterfazConecta(i) \/ InterfazRegistra(i)
        BY <1>0, <3>5, Llega DEF InterfazConecta, InterfazRegistra, En, Anunciando
      <3>4. QED  BY <1>5, <3>1, <3>2, <3>3, <3>5 DEF Interfaz, InterfazSigue
    <2>2. \/ UNCHANGED sem
          \/ \E s \in Permisos : Esperar(s) \/ Postear(s)
      BY <1>5, PermisoDeTipo
      DEF Interfaz, InterfazSigue, InterfazConecta, InterfazRegistra, InterfazEsperaInstruccion,
          InterfazEnvia, InterfazResponde, InterfazCierra, InterfazDesbloquea, Listar, Reanudar
    <2>3. sem'["hay_proceso_a_ready"] = sem["hay_proceso_a_ready"]
      BY <2>2, SemMarco, PermisosAparte DEF Inv, TypeOK, Semaforos
    <2>4. cola'["ready"] = cola["ready"] /\ cola'["plus"] = cola["plus"]
      BY <1>5
      DEF Interfaz, InterfazSigue, InterfazConecta, InterfazRegistra, InterfazEsperaInstruccion,
          InterfazEnvia, InterfazResponde, InterfazCierra, InterfazDesbloquea, Listar, Reanudar, Inv, TypeOK, TipoColas, Colas
    <2>5. QED  BY <1>0, <1>1, <2>1, <2>3, <2>4, ReadyIgual
  <1>6. QED  BY <1>2, <1>3, <1>4, <1>5

\* The console keeps the count of READY and ready_plus.
LEMMA ConsolaReady == ASSUME Inv, InvReady, Consola PROVE InvReady'
  <1>0. "consola" \in Hilos \ {"corto"}  BY DEF Hilos, HilosKernel
  <1>1. \A g \in Hilos : g # "consola" => hilo'[g] = hilo[g]  BY MarcoConsola DEF Marco
  <1>2. /\ sem'["hay_proceso_a_ready"] = sem["hay_proceso_a_ready"]
        /\ cola'["ready"] = cola["ready"] /\ cola'["plus"] = cola["plus"]
    BY MarcoConsola DEF Marco, Semaforos, Colas
  <1>3. /\ hilo["consola"].en \notin Anunciando /\ hilo'["consola"].en \notin Anunciando
        /\ hilo'["consola"].en # "agregar_plus"
    BY <1>0, Llega DEF Consola, ConsolaSigue, IniciarProceso, AvisarNuevo, RegistrarProceso,
       DetenerPlanificacion, IniciarPlanificacion, set_add_pcb_cola, En, Anunciando
  <1>4. QED  BY <1>0, <1>1, <1>2, <1>3, ReadyIgual

\* eliminacion_de_procesos keeps the count of READY and ready_plus.
LEMMA EliminacionReady == ASSUME Inv, InvReady, Eliminacion PROVE InvReady'
  <1>0. "eliminacion" \in Hilos \ {"corto"}  BY DEF Hilos, HilosKernel
  <1>1. \A g \in Hilos : g # "eliminacion" => hilo'[g] = hilo[g]  BY MarcoEliminacion DEF Marco
  <1>2. /\ sem'["hay_proceso_a_ready"] = sem["hay_proceso_a_ready"]
        /\ cola'["ready"] = cola["ready"] /\ cola'["plus"] = cola["plus"]
    BY MarcoEliminacion DEF Marco, Semaforos, Colas
  <1>3. TrasLaPuerta("eliminacion") = "pop_exit"  BY HilosDistintos DEF TrasLaPuerta, HilosKernel
  <1>4. /\ hilo["eliminacion"].en \in Anunciando <=> hilo'["eliminacion"].en \in Anunciando
        /\ hilo'["eliminacion"].en = "agregar_plus" => hilo["eliminacion"].en = "agregar_plus"
    BY <1>0, <1>3, Llega DEF Eliminacion, EliminacionEsperaExit, EliminacionPopExit, EliminacionDestruye,
       Reanudar, Caer, kernelVars, Puerta, En, Anunciando
  <1>5. hilo'["eliminacion"].en = "agregar_plus" => Algoritmo = "VRR"
    BY <1>0, <1>4 DEF InvReady, Eleccion
  <1>6. QED  BY <1>0, <1>1, <1>2, <1>4, <1>5, ReadyIgual

\* The thread of the quantum keeps the count of READY and ready_plus.
LEMMA QuantumReady == ASSUME Inv, InvReady, Quantum PROVE InvReady'
  <1>0. "quantum" \in Hilos \ {"corto"}  BY DEF Hilos, HilosKernel
  <1>1. \A g \in Hilos : g # "quantum" => hilo'[g] = hilo[g]  BY MarcoQuantum DEF Marco
  <1>2. /\ sem'["hay_proceso_a_ready"] = sem["hay_proceso_a_ready"]
        /\ cola'["ready"] = cola["ready"] /\ cola'["plus"] = cola["plus"]
    BY MarcoQuantum DEF Marco, Semaforos, Colas
  <1>3. /\ hilo["quantum"].en \notin Anunciando /\ hilo'["quantum"].en \notin Anunciando
        /\ hilo'["quantum"].en # "agregar_plus"
    BY <1>0, Llega DEF Quantum, QuantumEspera, QuantumBajaFlag, QuantumCpuLiberada, QuantumVence, En,
       Anunciando
  <1>4. QED  BY <1>0, <1>1, <1>2, <1>3, ReadyIgual

\* The labels of the planner between its wait on hay_proceso_a_ready and its queue_pop.
Pendiente ==
    {"cpu", "detenida", "elegir", "mirar_plus", "tomar_plus", "tomar_ready", "pop_plus", "pop_ready"}

\* A step of the planner keeps the count: it takes from the semaphore and has a pop pending,
\* or pops and has none, or does neither.
LEMMA CortoCuenta ==
    ASSUME Inv, InvReady, \A g \in Hilos : g # "corto" => hilo'[g] = hilo[g],
           hilo["corto"].en \notin Anunciando, hilo'["corto"].en \notin Anunciando,
           LET n == sem["hay_proceso_a_ready"]
               r == Len(cola["ready"])
               m == Len(cola["plus"])
               antes == hilo["corto"].en \in Pendiente
           IN  \/ antes = antes' /\ n' = n /\ r' = r /\ m' = m
               \/ ~antes /\ antes' /\ n' = n - 1 /\ r' = r /\ m' = m
               \/ antes /\ ~antes' /\ n' = n /\ r' = r - 1 /\ m' = m
               \/ antes /\ ~antes' /\ n' = n /\ r' = r /\ m' = m - 1
    PROVE  CuentaReady'
  <1> DEFINE a == Cardinality(Anunciantes)
             b == B(PopPendiente)
             n == sem["hay_proceso_a_ready"]
             r == Len(cola["ready"])
             m == Len(cola["plus"])
             p == hilo["corto"].en \in Pendiente
  <1>0. "corto" \in Hilos  BY DEF Hilos, HilosKernel
  <1>1. n \in Nat /\ a \in Nat /\ r \in Nat /\ m \in Nat
    BY NaturalesReady, AnunciantesFinitos
  <1>2. n + a + b = r + m  BY DEF InvReady, CuentaReady
  <1>3. a' = a  BY <1>0, AnunciaIgual
  <1>4. /\ (p => b = 1) /\ (~p => b = 0) /\ (p' => b' = 1) /\ (~p' => b' = 0)
    BY DEF B, PopPendiente, Pendiente
  <1>5. \/ p = p' /\ n' = n /\ r' = r /\ m' = m
        \/ ~p /\ p' /\ n' = n - 1 /\ r' = r /\ m' = m
        \/ p /\ ~p' /\ n' = n /\ r' = r - 1 /\ m' = m
        \/ p /\ ~p' /\ n' = n /\ r' = r /\ m' = m - 1
    OBVIOUS
  <1>6. n' + a' + b' = r' + m'
    <2> HIDE DEF n, a, b, r, m, p
    <2>1. QED  BY <1>1, <1>2, <1>3, <1>4, <1>5
  <1>7. QED  BY <1>6 DEF CuentaReady

\* With a pop pending and nothing in ready_plus, there is something in READY.
LEMMA ReadyHay ==
    ASSUME Inv, InvReady, hilo["corto"].en \in Pendiente, cola["plus"] = <<>>
    PROVE  cola["ready"] # <<>>
  <1> DEFINE a == Cardinality(Anunciantes)
             n == sem["hay_proceso_a_ready"]
             r == Len(cola["ready"])
             m == Len(cola["plus"])
  <1>1. n \in Nat /\ a \in Nat /\ r \in Nat  BY NaturalesReady, AnunciantesFinitos
  <1>2. m = 0  OBVIOUS
  <1>3. B(PopPendiente) = 1  BY DEF B, PopPendiente, Pendiente
  <1>4. n + a + B(PopPendiente) = r + m  BY DEF InvReady, CuentaReady
  <1>5. r # 0
    <2> HIDE DEF a, n, r, m
    <2>1. QED  BY <1>1, <1>2, <1>3, <1>4
  <1>6. QED  BY <1>5

\* The planner between two operations, neither waiting for a process nor popping one.
LEMMA CortoSigue ==
    ASSUME Inv, InvReady, \A g \in Hilos : g # "corto" => hilo'[g] = hilo[g],
           hilo["corto"].en \notin Anunciando, hilo'["corto"].en \notin Anunciando \union {"agregar_plus"},
           hilo["corto"].en \in Pendiente <=> hilo'["corto"].en \in Pendiente,
           sem'["hay_proceso_a_ready"] = sem["hay_proceso_a_ready"], UNCHANGED cola,
           hilo'["corto"].en \in {"tomar_plus", "pop_plus"} => cola["plus"] # <<>>,
           hilo'["corto"].en \in {"tomar_ready", "pop_ready"} => cola["ready"] # <<>>
    PROVE  InvReady'
  <1>1. CuentaReady'  BY CortoCuenta
  <1>2. Eleccion'  BY DEF InvReady, Eleccion
  <1>3. QED  BY <1>1, <1>2 DEF InvReady

\* The short-term planner keeps the count of READY and ready_plus.
LEMMA CortoReady == ASSUME Inv, InvReady, Corto PROVE InvReady'
  <1>0. "corto" \in Hilos /\ TrasLaPuerta("corto") = "elegir"
    BY HilosDistintos DEF Hilos, HilosKernel, TrasLaPuerta
  <1>1. \A g \in Hilos : g # "corto" => hilo'[g] = hilo[g]  BY MarcoCorto DEF Marco
  <1>2. CASE CortoEsperaReady
    <2>1. hilo["corto"].en = "hay_ready" /\ hilo'["corto"].en = "cpu" /\ UNCHANGED cola
      BY <1>0, <1>2, Llega DEF CortoEsperaReady, En
    <2>2. sem'["hay_proceso_a_ready"] = sem["hay_proceso_a_ready"] - 1
      BY <1>2 DEF CortoEsperaReady, Esperar, Sin, Inv, TypeOK, TipoColas, Semaforos
    <2>3. CuentaReady'  BY <1>1, <2>1, <2>2, CortoCuenta DEF Anunciando, Pendiente
    <2>4. Eleccion'  BY <1>1, <2>1 DEF InvReady, Eleccion
    <2>5. QED  BY <2>3, <2>4 DEF InvReady
  <1>3. CASE CortoEsperaCpu \/ Reanudar("corto")
    <2>1. /\ hilo["corto"].en \in {"cpu", "detenida"} /\ hilo'["corto"].en \in {"detenida", "elegir"}
          /\ UNCHANGED cola
      BY <1>0, <1>3, Llega DEF CortoEsperaCpu, Reanudar, Puerta, En
    <2>2. \E s \in {"cpu_libre"} \union Permisos : Esperar(s)
      BY <1>3, PermisoDeTipo DEF CortoEsperaCpu, Reanudar
    <2>3. sem'["hay_proceso_a_ready"] = sem["hay_proceso_a_ready"]
      BY <2>2, SemMarco, PermisosAparte DEF Inv, TypeOK, Semaforos
    <2>4. QED  BY <1>1, <2>1, <2>3, CortoSigue DEF Anunciando, Pendiente
  <1>4. CASE CortoElige \/ CortoMiraPlus \/ CortoTomaMutex
    <2>1. UNCHANGED <<sem, cola>> /\ hilo["corto"].en \in Pendiente
      BY <1>4 DEF CortoElige, CortoMiraPlus, CortoTomaMutex, En, Pendiente
    <2>2. hilo'["corto"].en \in {"mirar_plus", "pop_plus", "tomar_plus", "tomar_ready", "pop_ready"}
      BY <1>0, <1>4, Llega DEF CortoElige, CortoMiraPlus, CortoTomaMutex
    <2>3. /\ hilo'["corto"].en \in {"tomar_plus", "pop_plus"} => cola["plus"] # <<>>
          /\ hilo'["corto"].en \in {"tomar_ready", "pop_ready"} => cola["ready"] # <<>>
      <3>1. CASE CortoElige
        <4>1. hilo'["corto"].en = "mirar_plus" \/ (hilo'["corto"].en = "pop_ready" /\ Algoritmo # "VRR")
          BY <1>0, <3>1, Llega DEF CortoElige
        <4>2. Algoritmo # "VRR" => cola["plus"] = <<>>  BY DEF InvReady, Eleccion
        <4>3. QED  BY <2>1, <4>1, <4>2, ReadyHay
      <3>2. CASE CortoMiraPlus
        <4>1. hilo'["corto"].en = IF cola["plus"] # <<>> THEN "tomar_plus" ELSE "tomar_ready"
          BY <1>0, <3>2, Llega DEF CortoMiraPlus
        <4>2. QED  BY <2>1, <4>1, ReadyHay
      <3>3. CASE CortoTomaMutex
        <4>1. \/ hilo["corto"].en = "tomar_plus" /\ hilo'["corto"].en = "pop_plus"
              \/ hilo["corto"].en = "tomar_ready" /\ hilo'["corto"].en = "pop_ready"
          BY <1>0, <3>3, Llega DEF CortoTomaMutex, En
        <4>2. QED  BY <4>1 DEF InvReady, Eleccion
      <3>4. QED  BY <1>4, <3>1, <3>2, <3>3
    <2>4. QED  BY <1>1, <2>1, <2>2, <2>3, CortoSigue DEF Anunciando, Pendiente
  <1>5. CASE CortoPop
    <2>1. PICK c \in {"ready", "plus"} :
              /\ En("corto", IF c = "ready" THEN "pop_ready" ELSE "pop_plus")
              /\ cola[c] # <<>> =>
                     /\ IrCon("corto", "setear", Head(cola[c]))
                     /\ cola' = [cola EXCEPT ![c] = Tail(cola[c])]
                     /\ UNCHANGED sem
      BY <1>5 DEF CortoPop
    <2>2. hilo["corto"].en \in {"pop_ready", "pop_plus"} /\ cola[c] # <<>>
      BY <2>1 DEF InvReady, Eleccion, En
    <2>3. hilo'["corto"].en = "setear" /\ UNCHANGED sem  BY <1>0, <2>1, <2>2, Llega
    <2>4. /\ cola[c] \in Seq(Pids) /\ cola'[c] = Tail(cola[c])
          /\ \A d \in {"ready", "plus"} : d # c => cola'[d] = cola[d]
      BY <2>1, <2>2 DEF Inv, TypeOK, TipoColas, Colas
    <2>5. Len(cola'[c]) = Len(cola[c]) - 1  BY <2>2, <2>4
    <2>6. \/ Len(cola'["ready"]) = Len(cola["ready"]) - 1 /\ Len(cola'["plus"]) = Len(cola["plus"])
          \/ Len(cola'["ready"]) = Len(cola["ready"]) /\ Len(cola'["plus"]) = Len(cola["plus"]) - 1
      BY <2>4, <2>5
    <2>7. CuentaReady'  BY <1>1, <2>2, <2>3, <2>6, CortoCuenta DEF Anunciando, Pendiente
    <2>8. Algoritmo # "VRR" => c = "ready"  BY <2>2 DEF InvReady, Eleccion
    <2>9. Eleccion'  BY <1>1, <2>3, <2>4, <2>8 DEF InvReady, Eleccion
    <2>10. QED  BY <2>7, <2>9 DEF InvReady
  <1>6. CASE CortoSetea \/ CortoEnvia \/ CortoArrancaQuantum
    <2>1. /\ hilo["corto"].en \in {"setear", "enviar", "arrancar"} /\ UNCHANGED cola
          /\ hilo'["corto"].en \in {"enviar", "hay_ready", "arrancar"}
      BY <1>0, <1>6, Llega DEF CortoSetea, CortoEnvia, CortoArrancaQuantum, En
    <2>2. sem'["hay_proceso_a_ready"] = sem["hay_proceso_a_ready"]
      BY <1>6 DEF CortoSetea, CortoEnvia, CortoArrancaQuantum, Postear, Con, Inv, TypeOK, TipoColas,
                  Semaforos
    <2>3. QED  BY <1>1, <2>1, <2>2, CortoSigue DEF Anunciando, Pendiente
  <1>7. QED  BY <1>2, <1>3, <1>4, <1>5, <1>6 DEF Corto

\* Every step keeps the count of READY and ready_plus.
LEMMA NextReady == ASSUME Inv, InvReady, [Next]_vars PROVE InvReady'
  <1>1. CASE CpuDispatch \/ CpuRecibeInterrupcion \/ UNCHANGED vars
    BY <1>1 DEF CpuDispatch, CpuRecibePcb, CpuEjecuta, QuedaSinMemoria, CpuChequea, CpuTermina, CpuRecibeInterrupcion,
                vars, kernelVars, InvReady, CuentaReady, Eleccion, Anunciantes, PopPendiente
  <1>2. QED
    BY <1>1, ConsolaReady, CreacionReady, EliminacionReady, CortoReady, QuantumReady, DispatchReady,
       InterfazReady DEF Next

\* At first every queue is empty, nothing is announced and no thread is about to pop.
LEMMA InitCuentas == ASSUME Init PROVE CuentaNew /\ CuentaExit /\ CuentaIO /\ InvReady
  <1>1. \A h \in HilosKernel : hilo[h].en = Inicio[h]
    BY HilosDistintos DEF Init
  <1>2. \A i \in Interfaces : hilo[i].en \in {"instruccion", "sin_conectar"}
    BY HilosDistintos DEF Init
  <1>3. CuentaNew  BY <1>1 DEF Init, CuentaNew, En, B, Semaforos, Colas, HilosKernel, Inicio
  <1>4. CuentaExit  BY <1>1 DEF Init, CuentaExit, B, Semaforos, Colas, HilosKernel, Inicio
  <1>5. CuentaIO
    <2>1. \A i \in Interfaces : instruccion_en_cola[i] = 0 /\ Len(cola_io[i]) = 0  BY DEF Init
    <2>2. \A i \in Interfaces : B(En(i, "binario")) = 0  BY <1>2 DEF En, B
    <2>3. QED  BY <2>1, <2>2 DEF CuentaIO
  <1>6. Anunciantes = {}
    BY <1>1, <1>2 DEF Anunciantes, Hilos, HilosKernel, Inicio
  <1>7. Cardinality(Anunciantes) = 0  BY <1>6, FS_EmptySet
  <1>8. B(PopPendiente) = 0  BY <1>1 DEF B, PopPendiente, HilosKernel, Inicio
  <1>9. sem["hay_proceso_a_ready"] = 0 /\ Len(cola["ready"]) = 0 /\ Len(cola["plus"]) = 0
    BY DEF Init, Semaforos, Colas
  <1>10. CuentaReady  BY <1>7, <1>8, <1>9 DEF CuentaReady
  <1>11. Eleccion
    BY <1>1, <1>2 DEF Init, Eleccion, Hilos, HilosKernel, Inicio, Colas
  <1>12. QED  BY <1>3, <1>4, <1>5, <1>10, <1>11 DEF InvReady

\* hay_proceso_a_ready, which three kinds of threads post after pushing and the short-term
\* planner waits for before popping, counts READY and ready_plus together.
THEOREM CuentaSiempre == Spec => []CuentaReady
  <1>1. InvReady => CuentaReady  BY DEF InvReady
  <1>2. QED  BY InvSiempre, InitCuentas, NextReady, <1>1, PTL DEF Spec

\* A count with a pending pop in it is not zero.
LEMMA PopsDeCuentas ==
    ASSUME Inv, CuentaNew, CuentaExit, CuentaIO, InvReady
    PROVE  PopsSeguros
  <1>1. En("creacion", "pop_new") => cola["new"] # <<>>
    <2>1. sem["hay_proceso_nuevo"] \in Nat /\ cola["new"] \in Seq(Pids)
      BY Naturales DEF Semaforos, Colas
    <2>2. QED  BY <2>1 DEF CuentaNew, En, B
  <1>2. En("eliminacion", "pop_exit") => cola["exit"] # <<>>
    <2>1. sem["hay_proceso_exit"] \in Nat /\ cola["exit"] \in Seq(Pids)
      BY Naturales DEF Semaforos, Colas
    <2>2. QED  BY <2>1 DEF CuentaExit, En, B
  <1>3. \A i \in Interfaces : En(i, "binario") => cola_io[i] # <<>>
    BY DEF CuentaIO, B, Inv, TypeOK, TipoIO
  <1>4. QED  BY <1>1, <1>2, <1>3 DEF PopsSeguros, InvReady, Eleccion, En

\* Every queue_pop that follows a wait finds something: of NEW, of EXIT, of an interface's
\* queue, and of whichever of READY and ready_plus the planner has chosen.
THEOREM PopsCorrectos == Spec => []PopsSeguros
  <1>1. Inv /\ CuentaNew /\ CuentaExit /\ CuentaIO /\ InvReady => PopsSeguros
    BY PopsDeCuentas
  <1>2. QED
    BY InvSiempre, InitCuentas, CuentaNewPaso, CuentaExitPaso, CuentaIOPaso, NextReady, <1>1, PTL DEF Spec

\* Both: the semaphores of the planners count the queues that they announce.
THEOREM ColasContadasSiempre == Spec => []ColasContadas
  <1>1. CuentaReady /\ PopsSeguros => ColasContadas  BY DEF ColasContadas
  <1>2. QED  BY CuentaSiempre, PopsCorrectos, <1>1, PTL

-----------------------------------------------------------------------------
(* The CPU is given to one process at a time *)

\* What comenzar_proceso knows of its flags: at most one of the ends of a process is up,
\* and none is left for the next process but that of an interruption.
FlagsCpu ==
    "out_of_memory" \notin flags =>
        /\ ~ {"process_finished", "input_ouput"} \subseteq flags
        /\ cpu.en = "libre" => flags \subseteq {"interruption"}

\* Where the token of cpu_libre may be, counted: see TokenCpu.
Tokens ==
    sem["cpu_libre"] + B(ConElPlanificador) + Len(a_cpu) + B(CpuOcupada) + Len(a_kernel)
      + B(~En("dispatch", "recibir"))

\* With FIFO there is no quantum, so that nobody interrupts a process, not even the one
\* that runs out of memory.
SinReloj ==
    Algoritmo = "FIFO" =>
        /\ sem["arrancar_quantum"] = 0 /\ En("quantum", "arrancar") /\ ~En("corto", "arrancar")
        /\ interrupt = <<>> /\ interrupcion_recibida.pid = Nadie
        /\ "interruption" \notin flags
        /\ "out_of_memory" \in flags => flags = {"out_of_memory"}

InvToken == FlagsCpu /\ SinReloj /\ TokenCpu /\ (UnaRespuesta => Tokens \in {0, 1})

\* The token goes from one place to another, and the CPU stays as it was.
Conserva == Tokens' = Tokens /\ UNCHANGED <<cpu, flags>>

\* A step that moves neither the token nor what the CPU has.
LEMMA TokenIgual ==
    ASSUME sem'["cpu_libre"] = sem["cpu_libre"], ConElPlanificador' = ConElPlanificador,
           (hilo["dispatch"].en = "recibir") <=> (hilo'["dispatch"].en = "recibir"),
           UNCHANGED <<a_cpu, a_kernel, cpu, flags>>
    PROVE  Conserva
  BY DEF Conserva, Tokens, CpuOcupada, En, B

\* sem_wait and sem_post of a semaphore leave the others alone.
LEMMA SemAjeno ==
    ASSUME TipoColas, NEW s \in (Semaforos \union Permisos) \ {"cpu_libre"},
           Esperar(s) \/ Postear(s)
    PROVE  sem'["cpu_libre"] = sem["cpu_libre"]
  <1>1. "cpu_libre" \in Semaforos  BY DEF Semaforos
  <1>2. QED  BY <1>1 DEF TipoColas, Esperar, Postear, Con, Sin

\* At first the token of the CPU is in its semaphore.
LEMMA InitToken == Init => InvToken
  BY DEF Init, InvToken, FlagsCpu, SinReloj, TokenCpu, Tokens, CpuOcupada, ConElPlanificador, En, B,
         Inicio, Hilos, HilosKernel, Semaforos

\* The threads that never hold the token.
LEMMA TokenDeOtros ==
    ASSUME Inv, NEW h \in Hilos \ {"corto", "dispatch"},
           \A g \in Hilos : g # h => hilo'[g] = hilo[g],
           sem'["cpu_libre"] = sem["cpu_libre"], UNCHANGED <<a_cpu, a_kernel, cpu, flags>>
    PROVE  Conserva
  BY TokenIgual DEF ConElPlanificador, Hilos, HilosKernel

\* A step that touches neither the CPU nor its semaphore, sockets and threads.
LEMMA SinMover ==
    ASSUME UNCHANGED <<sem, hilo, a_cpu, a_kernel, cpu, flags>>
    PROVE  Conserva
  BY TokenIgual DEF ConElPlanificador

\* The console keeps the token in one place.
LEMMA ConsolaToken == ASSUME Inv, Consola PROVE Conserva
  <1>0. "consola" \in Hilos \ {"corto", "dispatch"}  BY DEF Hilos, HilosKernel
  <1>1. UNCHANGED <<a_cpu, a_kernel, cpu, flags>>
    BY DEF Consola, ConsolaSigue, IniciarProceso, AvisarNuevo, RegistrarProceso, DetenerPlanificacion,
           IniciarPlanificacion, resto, canal, cpuVars
  <1>2. sem'["cpu_libre"] = sem["cpu_libre"]
    <2>1. CASE AvisarNuevo
      <3>1. "hay_proceso_nuevo" \in Semaforos  BY DEF Semaforos
      <3>2. QED  BY <2>1, <3>1, SemAjeno DEF AvisarNuevo, Inv, TypeOK
    <2>2. CASE IniciarPlanificacion
      <3>1. "cpu_libre" \in Semaforos /\ "cpu_libre" \notin Permisos  BY DEF Semaforos, Permisos
      <3>2. QED  BY <2>2, <3>1 DEF IniciarPlanificacion, Inv, TypeOK, TipoColas
    <2>3. CASE IniciarProceso \/ RegistrarProceso \/ DetenerPlanificacion
      BY <2>3 DEF IniciarProceso, RegistrarProceso, DetenerPlanificacion
    <2>4. QED  BY <2>1, <2>2, <2>3 DEF Consola, ConsolaSigue
  <1>3. CASE IniciarProceso \/ AvisarNuevo \/ RegistrarProceso
    <2>1. \A g \in Hilos : g # "consola" => hilo'[g] = hilo[g]
      BY <1>0, <1>3, SoloMueve DEF IniciarProceso, set_add_pcb_cola, AvisarNuevo, RegistrarProceso
    <2>2. QED  BY <1>0, <1>1, <1>2, <2>1, TokenDeOtros
  <1>4. CASE DetenerPlanificacion \/ IniciarPlanificacion
    <2>1. UNCHANGED hilo  BY <1>4 DEF DetenerPlanificacion, IniciarPlanificacion
    <2>2. QED  BY <1>1, <1>2, <2>1, TokenIgual DEF ConElPlanificador
  <1>5. QED  BY <1>3, <1>4 DEF Consola, ConsolaSigue

\* What a thread does besides moving, when it neither takes nor gives the token.
PasoAjeno(h) ==
    /\ UNCHANGED <<a_cpu, a_kernel, cpu, flags>>
    /\ \/ UNCHANGED sem
       \/ \E s \in (Semaforos \union Permisos) \ {"cpu_libre"} : Esperar(s) \/ Postear(s)
    /\ \/ UNCHANGED hilo
       \/ \E l : Ir(h, l)
       \/ \E l, p : IrCon(h, l, p)

\* A step of a thread that never has the token.
LEMMA TokenAjeno ==
    ASSUME Inv, NEW h \in Hilos \ {"corto", "dispatch"}, PasoAjeno(h)
    PROVE  Conserva
  <1>1. sem'["cpu_libre"] = sem["cpu_libre"]  BY SemAjeno DEF PasoAjeno, Inv, TypeOK
  <1>2. \A g \in Hilos : g # h => hilo'[g] = hilo[g]  BY SoloMueve DEF PasoAjeno
  <1>3. QED  BY <1>1, <1>2, TokenDeOtros DEF PasoAjeno

\* Passing a gate takes a permission, never the token.
LEMMA ReanudarAjeno ==
    ASSUME NEW h \in {"creacion", "eliminacion", "corto", "dispatch"} \union Interfaces, Reanudar(h)
    PROVE  PasoAjeno(h)
  BY PermisoDeTipo DEF Reanudar, PasoAjeno, Permisos, resto, canal, cpuVars

\* creacion_de_procesos keeps the token in one place.
LEMMA CreacionToken == ASSUME Inv, Creacion PROVE Conserva
  <1>0. "creacion" \in Hilos \ {"corto", "dispatch"}  BY DEF Hilos, HilosKernel
  <1>1. {"hay_proceso_nuevo", "grado_multi", "hay_proceso_a_ready"} \subseteq Semaforos \ {"cpu_libre"}
    BY DEF Semaforos
  <1>2. CASE CreacionEsperaNuevo \/ CreacionEsperaGrado \/ CreacionAvisa
    <2>1. PasoAjeno("creacion")
      BY <1>1, <1>2 DEF CreacionEsperaNuevo, CreacionEsperaGrado, CreacionAvisa, PasoAjeno, resto, canal,
                        cpuVars
    <2>2. QED  BY <1>0, <2>1, TokenAjeno
  <1>3. CASE CreacionPopNew \/ CreacionAgrega \/ Listar("creacion")
    <2>1. PasoAjeno("creacion")
      BY <1>3 DEF CreacionPopNew, CreacionAgrega, Listar, Caer, set_add_pcb_cola, PasoAjeno, resto,
                  canal, cpuVars, kernelVars
    <2>2. QED  BY <1>0, <2>1, TokenAjeno
  <1>4. CASE Reanudar("creacion")  BY <1>0, <1>4, ReanudarAjeno, TokenAjeno
  <1>5. QED  BY <1>2, <1>3, <1>4 DEF Creacion

\* eliminacion_de_procesos keeps the token in one place.
LEMMA EliminacionToken == ASSUME Inv, Eliminacion PROVE Conserva
  <1>0. "eliminacion" \in Hilos \ {"corto", "dispatch"}  BY DEF Hilos, HilosKernel
  <1>1. {"hay_proceso_exit", "grado_multi"} \subseteq Semaforos \ {"cpu_libre"}
    BY DEF Semaforos
  <1>2. CASE EliminacionEsperaExit \/ EliminacionPopExit \/ EliminacionDestruye
    <2>1. PasoAjeno("eliminacion")
      BY <1>1, <1>2 DEF EliminacionEsperaExit, EliminacionPopExit, EliminacionDestruye, Caer, PasoAjeno,
                        resto, canal, cpuVars, kernelVars
    <2>2. QED  BY <1>0, <2>1, TokenAjeno
  <1>3. CASE Reanudar("eliminacion")  BY <1>0, <1>3, ReanudarAjeno, TokenAjeno
  <1>4. QED  BY <1>2, <1>3 DEF Eliminacion

\* The thread of the quantum keeps the token in one place.
LEMMA QuantumToken == ASSUME Inv, Quantum PROVE Conserva
  <1>0. "quantum" \in Hilos \ {"corto", "dispatch"}  BY DEF Hilos, HilosKernel
  <1>1. "arrancar_quantum" \in Semaforos \ {"cpu_libre"}  BY DEF Semaforos
  <1>2. PasoAjeno("quantum")
    BY <1>1 DEF Quantum, QuantumEspera, QuantumBajaFlag, QuantumCpuLiberada, QuantumVence, PasoAjeno,
                resto, canal, cpuVars
  <1>3. QED  BY <1>0, <1>2, TokenAjeno

\* atender_interfaz, for each interface keeps the token in one place.
LEMMA InterfazToken == ASSUME Inv, NEW i \in Interfaces, Interfaz(i) PROVE Conserva
  <1>0. i \in Hilos \ {"corto", "dispatch"}  BY HilosDistintos DEF HilosKernel
  <1>1. "hay_proceso_a_ready" \in Semaforos \ {"cpu_libre"}  BY DEF Semaforos
  <1>2. CASE Reanudar(i)  BY <1>0, <1>2, ReanudarAjeno, TokenAjeno
  <1>3. CASE ~Reanudar(i)
    <2>1. PasoAjeno(i)
      BY <1>1, <1>3 DEF Interfaz, InterfazSigue, InterfazConecta, InterfazRegistra, InterfazEsperaInstruccion, InterfazEnvia, InterfazResponde,
                        InterfazCierra, InterfazDesbloquea, InterfazAgrega, InterfazAvisa, Listar, Caer,
                        set_add_pcb_cola, PasoAjeno, resto, canal, cpuVars, kernelVars
    <2>2. QED  BY <1>0, <2>1, TokenAjeno
  <1>4. QED  BY <1>2, <1>3

\* The short-term planner takes the token, keeps it while it chooses and sends it with the
\* process.
LEMMA CortoToken == ASSUME Inv, Corto PROVE Conserva
  <1>0. "corto" \in Hilos /\ "dispatch" \in Hilos  BY DEF Hilos, HilosKernel
  <1>1. \A g \in Hilos : g # "corto" => hilo'[g] = hilo[g]
    BY <1>0, SoloMueve
    DEF Corto, CortoEsperaReady, CortoEsperaCpu, CortoElige, CortoMiraPlus, CortoTomaMutex, CortoPop,
        CortoSetea, CortoEnvia, CortoArrancaQuantum, Reanudar, Caer, kernelVars
  <1>2. hilo'["dispatch"] = hilo["dispatch"]  BY <1>0, <1>1
  <1>3. ASSUME NEW l, Ir("corto", l) \/ \E p : IrCon("corto", l, p)  PROVE hilo'["corto"].en = l
    BY <1>0, <1>3 DEF Inv, TypeOK, TipoHilo, Ir, IrCon
  <1>4. CASE CortoEsperaCpu
    <2>1. sem["cpu_libre"] \in Nat /\ sem'["cpu_libre"] = sem["cpu_libre"] - 1
      BY <1>4 DEF CortoEsperaCpu, Esperar, Sin, Inv, TypeOK, TipoColas, Semaforos
    <2>2. ~ConElPlanificador /\ ConElPlanificador'
      BY <1>3, <1>4 DEF CortoEsperaCpu, ConElPlanificador, En, Puerta
    <2>3. UNCHANGED <<a_cpu, a_kernel, cpu, flags>>
      BY <1>4 DEF CortoEsperaCpu, resto, canal, cpuVars
    <2>4. /\ CpuOcupada' <=> CpuOcupada
          /\ En("dispatch", "recibir")' <=> En("dispatch", "recibir")
      BY <1>2, <2>3 DEF CpuOcupada, En
    <2>5. Len(a_cpu) \in Nat /\ Len(a_kernel) \in Nat  BY DEF Inv, TypeOK, TipoCpu
    <2>6. QED  BY <2>1, <2>2, <2>3, <2>4, <2>5 DEF Conserva, Tokens, B
  <1>5. CASE CortoEnvia
    <2>1. Len(a_cpu') = Len(a_cpu) + 1
      BY <1>5 DEF CortoEnvia, Inv, TypeOK, TipoCpu
    <2>2. ConElPlanificador /\ ~ConElPlanificador'
      BY <1>3, <1>5 DEF CortoEnvia, ConElPlanificador, En
    <2>3. UNCHANGED <<sem, a_kernel, cpu, flags>>  BY <1>5 DEF CortoEnvia, cpuVars
    <2>4. /\ CpuOcupada' <=> CpuOcupada
          /\ En("dispatch", "recibir")' <=> En("dispatch", "recibir")
      BY <1>2, <2>3 DEF CpuOcupada, En
    <2>5. Len(a_cpu) \in Nat /\ Len(a_kernel) \in Nat /\ sem["cpu_libre"] \in Nat
      BY DEF Inv, TypeOK, TipoCpu, TipoColas, Semaforos
    <2>6. QED  BY <2>1, <2>2, <2>3, <2>4, <2>5 DEF Conserva, Tokens, B
  <1>6. CASE CortoEsperaReady \/ CortoArrancaQuantum \/ Reanudar("corto")
    <2>1. {"hay_proceso_a_ready", "arrancar_quantum"} \subseteq Semaforos \ {"cpu_libre"}
      BY DEF Semaforos
    <2>2. sem'["cpu_libre"] = sem["cpu_libre"]
      BY <1>6, <2>1, SemAjeno, PermisoDeTipo 
      DEF CortoEsperaReady, CortoArrancaQuantum, Reanudar, Permisos, Inv, TypeOK
    <2>3. TrasLaPuerta("corto") = "elegir"  BY HilosDistintos DEF TrasLaPuerta, HilosKernel
    <2>4. ConElPlanificador' = ConElPlanificador
      BY <1>3, <1>6, <2>3 DEF CortoEsperaReady, CortoArrancaQuantum, Reanudar, ConElPlanificador, En
    <2>5. UNCHANGED <<a_cpu, a_kernel, cpu, flags>>
      BY <1>6 DEF CortoEsperaReady, CortoArrancaQuantum, Reanudar, resto, canal, cpuVars
    <2>6. QED  BY <1>2, <2>2, <2>4, <2>5, TokenIgual
  <1>7. CASE CortoElige \/ CortoMiraPlus \/ CortoTomaMutex \/ CortoPop \/ CortoSetea
    <2>1. UNCHANGED <<sem, a_cpu, a_kernel, cpu, flags>>
      BY <1>7 DEF CortoElige, CortoMiraPlus, CortoTomaMutex, CortoPop, CortoSetea, Caer, kernelVars, resto,
                  canal, cpuVars
    <2>2. ConElPlanificador' = ConElPlanificador
      <3>1. CASE CortoElige \/ CortoMiraPlus \/ CortoTomaMutex
        BY <1>3, <3>1 DEF CortoElige, CortoMiraPlus, CortoTomaMutex, ConElPlanificador, En
      <3>2. CASE CortoPop
        <4>1. hilo["corto"].en \in {"pop_ready", "pop_plus"}  BY <3>2 DEF CortoPop, En
        <4>2. UNCHANGED hilo \/ hilo'["corto"].en = "setear"
          BY <1>3, <3>2 DEF CortoPop, Caer, kernelVars
        <4>3. QED  BY <4>1, <4>2 DEF ConElPlanificador
      <3>3. CASE CortoSetea  BY <1>3, <3>3 DEF CortoSetea, ConElPlanificador, En
      <3>4. QED  BY <1>7, <3>1, <3>2, <3>3
    <2>3. QED  BY <1>2, <2>1, <2>2, TokenIgual
  <1>8. QED  BY <1>4, <1>5, <1>6, <1>7 DEF Corto

\* recibir_dispatch takes the token with an evicted process and gives it back at the end.
LEMMA DispatchToken == ASSUME Inv, Dispatch PROVE Conserva
  <1>0. "corto" \in Hilos /\ "dispatch" \in Hilos  BY DEF Hilos, HilosKernel
  <1>1. \A g \in Hilos : g # "dispatch" => hilo'[g] = hilo[g]
    BY <1>0, SoloMueve
    DEF Dispatch, DispatchRecibe, DispatchLevantaFlag, DispatchBloquea, DispatchEncolaIO,
        DispatchDesaloja, DispatchAvisaReady, DispatchFinaliza, DispatchLiberaCpu, Listar, Reanudar,
        set_add_pcb_cola, Caer, kernelVars
  <1>2. ConElPlanificador' = ConElPlanificador  BY <1>0, <1>1 DEF ConElPlanificador
  <1>3. ASSUME NEW l, Ir("dispatch", l) \/ \E p : IrCon("dispatch", l, p)
        PROVE hilo'["dispatch"].en = l
    BY <1>0, <1>3 DEF Inv, TypeOK, TipoHilo, Ir, IrCon
  <1>4. CASE DispatchRecibe
    <2>1. Len(a_kernel') = Len(a_kernel) - 1 /\ Len(a_kernel) \in Nat
      BY <1>4 DEF DispatchRecibe, Inv, TypeOK, TipoCpu
    <2>2. hilo["dispatch"].en = "recibir" /\ hilo'["dispatch"].en # "recibir"
      BY <1>3, <1>4 DEF DispatchRecibe, En, Puerta
    <2>3. UNCHANGED <<sem, a_cpu, cpu, flags>>  BY <1>4 DEF DispatchRecibe, cpuVars
    <2>4. CpuOcupada' <=> CpuOcupada  BY <2>3 DEF CpuOcupada
    <2>5. Len(a_cpu) \in Nat /\ sem["cpu_libre"] \in Nat
      BY DEF Inv, TypeOK, TipoCpu, TipoColas, Semaforos
    <2>6. En("dispatch", "recibir") /\ ~En("dispatch", "recibir")'  BY <2>2 DEF En
    <2>7. QED  BY <1>2, <2>1, <2>3, <2>4, <2>5, <2>6 DEF Conserva, Tokens, B
  <1>5. CASE DispatchLiberaCpu
    <2>1. sem["cpu_libre"] \in Nat /\ sem'["cpu_libre"] = sem["cpu_libre"] + 1
      BY <1>5 DEF DispatchLiberaCpu, Postear, Con, Inv, TypeOK, TipoColas, Semaforos
    <2>2. hilo["dispatch"].en # "recibir" /\ hilo'["dispatch"].en = "recibir"
      BY <1>3, <1>5 DEF DispatchLiberaCpu, En
    <2>3. UNCHANGED <<a_cpu, a_kernel, cpu, flags>>
      BY <1>5 DEF DispatchLiberaCpu, resto, canal, cpuVars
    <2>4. CpuOcupada' <=> CpuOcupada  BY <2>3 DEF CpuOcupada
    <2>5. Len(a_cpu) \in Nat /\ Len(a_kernel) \in Nat  BY DEF Inv, TypeOK, TipoCpu
    <2>6. ~En("dispatch", "recibir") /\ En("dispatch", "recibir")'  BY <2>2 DEF En
    <2>7. QED  BY <1>2, <2>1, <2>3, <2>4, <2>5, <2>6 DEF Conserva, Tokens, B
  <1>8. CASE Caer  BY <1>8, SinMover DEF Caer, kernelVars, cpuVars, canal
  <1>6. CASE /\ ~Caer
             /\ \/ DispatchLevantaFlag \/ DispatchBloquea \/ DispatchEncolaIO \/ DispatchDesaloja
                \/ DispatchAvisaReady \/ DispatchFinaliza \/ Listar("dispatch") \/ Reanudar("dispatch")
    <2>1. {"hay_proceso_a_ready", "hay_proceso_exit"} \subseteq Semaforos \ {"cpu_libre"}
      BY DEF Semaforos
    <2>2. \/ UNCHANGED sem
          \/ \E s \in (Semaforos \union Permisos) \ {"cpu_libre"} : Esperar(s) \/ Postear(s)
      BY <1>6, <2>1, PermisoDeTipo
      DEF DispatchLevantaFlag, DispatchBloquea, DispatchEncolaIO, DispatchDesaloja, DispatchAvisaReady,
          DispatchFinaliza, FinalizarPcb, Listar, Reanudar, Permisos
    <2>3. sem'["cpu_libre"] = sem["cpu_libre"]  BY <2>2, SemAjeno DEF Inv, TypeOK
    <2>4. TrasLaPuerta("dispatch") = "atender"  BY HilosDistintos DEF TrasLaPuerta, HilosKernel
    <2>5. hilo["dispatch"].en # "recibir" /\ hilo'["dispatch"].en # "recibir"
      BY <1>3, <1>6, <2>4
      DEF DispatchLevantaFlag, DispatchBloquea, DispatchEncolaIO, DispatchDesaloja, DispatchAvisaReady,
          DispatchFinaliza, Listar, Reanudar, set_add_pcb_cola, En
    <2>6. UNCHANGED <<a_cpu, a_kernel, cpu, flags>>
      BY <1>6
      DEF DispatchLevantaFlag, DispatchBloquea, DispatchEncolaIO, DispatchDesaloja, DispatchAvisaReady,
          DispatchFinaliza, Listar, Reanudar, resto, canal, cpuVars
    <2>7. QED  BY <1>2, <2>3, <2>5, <2>6, TokenIgual
  <1>7. QED  BY <1>4, <1>5, <1>6, <1>8 DEF Dispatch

\* With FIFO, every step leaves the quantum's thread asleep and the CPU uninterrupted.
LEMMA RelojPaso == ASSUME Inv, SinReloj, [Next]_vars PROVE SinReloj'
  <1> SUFFICES ASSUME Algoritmo = "FIFO" PROVE SinReloj'  BY DEF SinReloj
  <1>0. "quantum" \in Hilos /\ "corto" \in Hilos /\ "arrancar_quantum" \in Semaforos
    BY DEF Hilos, HilosKernel, Semaforos
  <1>1. CASE Consola \/ Creacion \/ Eliminacion \/ Dispatch \/ \E i \in Interfaces : Interfaz(i)
    <2>1. \E h \in Hilos \ {"corto", "quantum"} : \E S, C : Marco(h, S, C) /\ "arrancar_quantum" \notin S
      <3>1. \A h \in {"consola", "creacion", "eliminacion", "dispatch"} \union Interfaces :
                h \in Hilos \ {"corto", "quantum"}
        BY HilosDistintos DEF HilosKernel
      <3>2. CASE Consola  BY <3>1, <3>2, MarcoConsola
      <3>3. CASE Creacion  BY <3>1, <3>3, MarcoCreacion
      <3>4. CASE Eliminacion  BY <3>1, <3>4, MarcoEliminacion
      <3>5. CASE Dispatch  BY <3>1, <3>5, MarcoDispatch
      <3>6. ASSUME NEW i \in Interfaces, Interfaz(i)
            PROVE  \E h \in Hilos \ {"corto", "quantum"} : \E S, C :
                       Marco(h, S, C) /\ "arrancar_quantum" \notin S
        <4>1. Marco(i, {"hay_proceso_a_ready"}, {"ready", "plus", "blocked"})  BY <3>6, MarcoInterfaz
        <4>2. \E S, C : Marco(i, S, C) /\ "arrancar_quantum" \notin S
          <5>1. "arrancar_quantum" \notin {"hay_proceso_a_ready"}  OBVIOUS
          <5>2. QED  BY <4>1, <5>1
        <4>3. i \in Hilos \ {"corto", "quantum"}  BY <3>1
        <4>4. QED  BY <4>2, <4>3
      <3>7. QED  BY <1>1, <3>2, <3>3, <3>4, <3>5, <3>6
    <2>2. UNCHANGED <<interrupt, interrupcion_recibida, flags>>
      <3>1. CASE Consola \/ Creacion \/ Eliminacion
        BY <3>1
        DEF Consola, ConsolaSigue, IniciarProceso, AvisarNuevo, RegistrarProceso, DetenerPlanificacion,
            IniciarPlanificacion, Creacion, CreacionEsperaNuevo, CreacionEsperaGrado, CreacionPopNew,
            CreacionAgrega, CreacionAvisa, Eliminacion, EliminacionEsperaExit, EliminacionPopExit,
            EliminacionDestruye, Listar, Reanudar, Caer, resto, canal, cpuVars
      <3>2. CASE Dispatch
        BY <3>2
        DEF Dispatch, DispatchRecibe, DispatchLevantaFlag, DispatchBloquea, DispatchEncolaIO,
            DispatchDesaloja, DispatchAvisaReady, DispatchFinaliza, DispatchLiberaCpu, Listar, Reanudar,
            Caer, resto, canal, cpuVars
      <3>3. ASSUME NEW i \in Interfaces, Interfaz(i)
            PROVE  UNCHANGED <<interrupt, interrupcion_recibida, flags>>
        BY <3>3
        DEF Interfaz, InterfazSigue, InterfazConecta, InterfazRegistra, InterfazEsperaInstruccion,
            InterfazEnvia, InterfazResponde, InterfazCierra, InterfazDesbloquea, InterfazAgrega,
            InterfazAvisa, Listar, Reanudar, Caer, resto, canal, cpuVars
      <3>4. QED  BY <1>1, <3>1, <3>2, <3>3
    <2>3. QED  BY <1>0, <2>1, <2>2 DEF SinReloj, Marco, En
  <1>2. CASE Corto
    <2>1. UNCHANGED <<interrupt, interrupcion_recibida, flags>>
      BY <1>2
      DEF Corto, CortoEsperaReady, CortoEsperaCpu, CortoElige, CortoMiraPlus, CortoTomaMutex, CortoPop,
          CortoSetea, CortoEnvia, CortoArrancaQuantum, Reanudar, Caer, resto, canal, cpuVars
    <2>2. ~CortoArrancaQuantum  BY DEF SinReloj, CortoArrancaQuantum
    <2>3. hilo'["quantum"] = hilo["quantum"]  BY <1>0, <1>2, MarcoCorto DEF Marco
    <2>4. sem'["arrancar_quantum"] = sem["arrancar_quantum"]
      <3>1. \/ UNCHANGED sem
            \/ \E s \in {"hay_proceso_a_ready", "cpu_libre"} \union Permisos : Esperar(s) \/ Postear(s)
        BY <1>2, <2>2, PermisoDeTipo
        DEF Corto, CortoEsperaReady, CortoEsperaCpu, CortoElige, CortoMiraPlus, CortoTomaMutex, CortoPop,
            CortoSetea, CortoEnvia, Reanudar, Caer, kernelVars
      <3>2. {"hay_proceso_a_ready", "cpu_libre"} \subseteq Semaforos  BY DEF Semaforos
      <3>3. QED  BY <1>0, <3>1, <3>2, SemMarco, PermisosAparte DEF Inv, TypeOK
    <2>5. hilo'["corto"].en # "arrancar"
      <3>1. TrasLaPuerta("corto") = "elegir"  BY HilosDistintos DEF TrasLaPuerta, HilosKernel
      <3>2. CASE Caer  BY <3>2 DEF Caer, kernelVars, SinReloj, En
      <3>3. CASE ~Caer
        <4>1. \E l : l # "arrancar" /\ (Ir("corto", l) \/ \E p : IrCon("corto", l, p))
          BY <1>2, <2>2, <3>1, <3>3
          DEF Corto, CortoEsperaReady, CortoEsperaCpu, CortoElige, CortoMiraPlus, CortoTomaMutex,
              CortoPop, CortoSetea, CortoEnvia, Reanudar, Puerta
        <4>2. QED  BY <1>0, <4>1, Llega
      <3>4. QED  BY <3>2, <3>3
    <2>6. QED  BY <2>1, <2>3, <2>4, <2>5 DEF SinReloj, En
  <1>3. CASE Quantum
    BY <1>3 DEF Quantum, QuantumEspera, QuantumBajaFlag, QuantumCpuLiberada, QuantumVence, Esperar, SinReloj,
                En
  <1>4. CASE CpuDispatch \/ CpuRecibeInterrupcion
    <2>1. UNCHANGED <<sem, hilo, interrupt, interrupcion_recibida>>
      BY <1>4 DEF CpuDispatch, CpuRecibePcb, CpuEjecuta, QuedaSinMemoria, CpuChequea, CpuTermina,
                  CpuRecibeInterrupcion, kernelVars, canal, SinReloj
    <2>2. interrupcion_recibida.pid = Nadie /\ (cpu.en # "libre" => cpu.pid # Nadie)
      BY ConstantesOK DEF SinReloj, Inv, CpuLlena, Pids, Nadie
    <2>3. "interruption" \notin flags' /\ ("out_of_memory" \in flags' => flags' = {"out_of_memory"})
      <3>1. CASE CpuRecibePcb \/ CpuRecibeInterrupcion
        BY <3>1 DEF CpuRecibePcb, CpuRecibeInterrupcion, SinReloj
      <3>2. CASE CpuEjecuta  BY <3>2 DEF CpuEjecuta, QuedaSinMemoria
      <3>3. CASE CpuChequea  BY <2>2, <3>3 DEF CpuChequea, SinReloj
      <3>4. CASE CpuTermina  BY <3>4 DEF CpuTermina, SinReloj
      <3>5. QED  BY <1>4, <3>1, <3>2, <3>3, <3>4 DEF CpuDispatch
    <2>4. QED  BY <2>1, <2>3 DEF SinReloj, En
  <1>5. CASE UNCHANGED vars
    BY <1>5 DEF vars, kernelVars, cpuVars, canal, SinReloj, En
  <1>6. QED  BY <1>1, <1>2, <1>3, <1>4, <1>5 DEF Next

\* The CPU receives the token with a process and sends it back when it evicts it; after an
\* OUT_OF_MEMORY it keeps the next one it receives.
LEMMA CpuTokens ==
    ASSUME Inv, InvToken, CpuDispatch \/ CpuRecibeInterrupcion, UnaRespuesta'
    PROVE  /\ Tokens' = Tokens \/ ("out_of_memory" \in flags /\ Tokens' \in Nat /\ Tokens' < Tokens)
           /\ FlagsCpu'
  <1>1. UNCHANGED <<sem, hilo>>
    BY DEF CpuDispatch, CpuRecibePcb, CpuEjecuta, QuedaSinMemoria, CpuChequea, CpuTermina, CpuRecibeInterrupcion, kernelVars
  <1>2. /\ Len(a_cpu) \in Nat /\ Len(a_kernel) \in Nat /\ sem["cpu_libre"] \in Nat
    BY DEF Inv, TypeOK, TipoCpu, TipoColas, Semaforos
  <1>3. CASE "out_of_memory" \in flags
    <2>1. "out_of_memory" \in flags'
      BY <1>3 DEF CpuDispatch, CpuRecibePcb, CpuEjecuta, QuedaSinMemoria, CpuChequea, CpuTermina,
                  CpuRecibeInterrupcion
    <2>2. Algoritmo = "FIFO" /\ flags = {"out_of_memory"}
      BY <1>3, <2>1 DEF UnaRespuesta, InvToken, SinReloj
    <2>3. UNCHANGED a_kernel
      BY <2>2 DEF CpuDispatch, CpuRecibePcb, CpuEjecuta, CpuChequea, CpuTermina, CpuRecibeInterrupcion,
                  canal
    <2>4. ~CpuOcupada /\ ~CpuOcupada'  BY <1>3, <2>1 DEF CpuOcupada
    <2>5. CASE CpuRecibePcb
      <3>1. Len(a_cpu') = Len(a_cpu) - 1 /\ Len(a_cpu') \in Nat
        BY <2>5 DEF CpuRecibePcb, Inv, TypeOK, TipoCpu
      <3>2. QED  BY <1>1, <1>2, <1>3, <2>1, <2>3, <2>4, <3>1 DEF Tokens, ConElPlanificador, En, B, FlagsCpu
    <2>6. CASE ~CpuRecibePcb
      <3>1. UNCHANGED a_cpu
        BY <2>6 DEF CpuDispatch, CpuEjecuta, CpuChequea, CpuTermina, CpuRecibeInterrupcion, canal
      <3>2. QED  BY <1>1, <2>1, <2>3, <2>4, <3>1 DEF Tokens, ConElPlanificador, En, B, FlagsCpu
    <2>7. QED  BY <2>5, <2>6
  <1>4. CASE "out_of_memory" \notin flags
    <2> USE <1>1, <1>4 DEF InvToken, FlagsCpu, CpuOcupada
    <2>1. /\ ConElPlanificador' = ConElPlanificador /\ En("dispatch", "recibir")' = En("dispatch", "recibir")
      BY DEF ConElPlanificador, En
    <2>2. CASE CpuRecibeInterrupcion  BY <2>1, <2>2 DEF CpuRecibeInterrupcion, Tokens
    <2>3. CASE CpuRecibePcb
      <3>1. Len(a_cpu') = Len(a_cpu) - 1  BY <2>3 DEF CpuRecibePcb, Inv, TypeOK, TipoCpu
      <3>2. ~CpuOcupada /\ CpuOcupada' /\ FlagsCpu'  BY <2>3 DEF CpuRecibePcb
      <3> HIDE DEF CpuOcupada
      <3>4. QED  BY <1>2, <2>1, <2>3, <3>1, <3>2 DEF CpuRecibePcb, B, Tokens
    <2>4. CASE CpuEjecuta
      <3>1. CpuOcupada /\ UNCHANGED a_cpu /\ FlagsCpu'  BY <2>4 DEF CpuEjecuta, QuedaSinMemoria
      <3>2. CASE UNCHANGED a_kernel /\ CpuOcupada'  
        <4> HIDE DEF CpuOcupada
        <4>1. QED  BY <2>1, <3>1, <3>2 DEF B, Tokens
      <3>3. CASE ~CpuOcupada' /\ \E m, i : Enviar(m, cpu.pid, i)
        <4>1. Len(a_kernel') = Len(a_kernel) + 1
          BY <3>3 DEF Enviar, Inv, TypeOK, TipoCpu
        <4> HIDE DEF CpuOcupada
        <4>2. QED  BY <1>2, <2>1, <3>1, <3>3, <4>1 DEF B, Tokens
      <3>4. QED  BY <2>4, <3>2, <3>3 DEF CpuEjecuta, QuedaSinMemoria
    <2>5. CASE CpuChequea
      <3>1. (CpuOcupada' <=> CpuOcupada) /\ UNCHANGED <<a_cpu, a_kernel>> /\ FlagsCpu'
        BY <2>5 DEF CpuChequea, canal
      <3> HIDE DEF CpuOcupada
      <3>2. QED  BY <2>1, <3>1 DEF B, Tokens
    <2>6. CASE CpuTermina
      <3>1. UNCHANGED a_cpu /\ FlagsCpu' /\ ~CpuOcupada'
        <4>1. UNCHANGED a_cpu /\ cpu'.en = "libre"  BY <2>6 DEF CpuTermina
        <4>2. flags \subseteq {"process_finished", "interruption", "input_ouput"}
          BY DEF Inv, TypeOK, TipoCpu
        <4>3. flags' \subseteq {"interruption"}  BY <2>6, <4>2 DEF CpuTermina
        <4>4. QED  BY <4>1, <4>3
      <3>2. CASE CpuOcupada
        <4>1. \E m : Enviar(m, cpu.pid, SinInterfaz)
          BY <2>6, <3>2 DEF CpuTermina, Inv, TypeOK, TipoCpu
        <4>2. Len(a_kernel') = Len(a_kernel) + 1  BY <4>1 DEF Enviar, Inv, TypeOK, TipoCpu
        <4>3. UNCHANGED a_cpu /\ ~CpuOcupada'  BY <3>1
        <4> HIDE DEF CpuOcupada, InvToken, FlagsCpu
        <4>4. Tokens' = Tokens  BY <1>2, <2>1, <3>2, <4>2, <4>3 DEF B, Tokens
        <4>5. QED  BY <3>1, <4>4
      <3>3. CASE ~CpuOcupada
        <4>1. UNCHANGED a_kernel  BY <2>6, <3>3 DEF CpuTermina
        <4> HIDE DEF CpuOcupada
        <4>2. QED  BY <2>1, <3>1, <3>3, <4>1 DEF B, Tokens
      <3>4. QED  BY <3>2, <3>3
    <2>7. QED  BY <2>2, <2>3, <2>4, <2>5, <2>6 DEF CpuDispatch
  <1>5. QED  BY <1>3, <1>4

\* Every step of the other threads leaves the token in one place and the CPU alone.
LEMMA HilosConservan ==
    ASSUME Inv, \/ Consola \/ Creacion \/ Eliminacion \/ Corto \/ Quantum \/ Dispatch
                \/ \E i \in Interfaces : Interfaz(i)
    PROVE  Conserva
  BY ConsolaToken, CreacionToken, EliminacionToken, CortoToken, QuantumToken, DispatchToken, InterfazToken

\* OUT_OF_MEMORY is for good.
LEMMA FlagParaSiempre ==
    ASSUME [Next]_vars, Inv, "out_of_memory" \in flags PROVE "out_of_memory" \in flags'
  <1>1. CASE CpuDispatch \/ CpuRecibeInterrupcion
    BY <1>1 DEF CpuDispatch, CpuRecibePcb, CpuEjecuta, QuedaSinMemoria, CpuChequea, CpuTermina,
                CpuRecibeInterrupcion
  <1>2. CASE UNCHANGED vars  BY <1>2 DEF vars, cpuVars
  <1>3. CASE Next /\ ~(CpuDispatch \/ CpuRecibeInterrupcion)
    BY <1>3, HilosConservan DEF Conserva, Next
  <1>4. QED  BY <1>1, <1>2, <1>3

\* Tokens are never made, and only the CPU that ran out of memory loses one.
LEMMA TokensPaso ==
    ASSUME Inv, InvToken, [Next]_vars, UnaRespuesta'
    PROVE  /\ Tokens' = Tokens \/ ("out_of_memory" \in flags /\ Tokens' \in Nat /\ Tokens' < Tokens)
           /\ FlagsCpu'
  <1>1. CASE CpuDispatch \/ CpuRecibeInterrupcion  BY <1>1, CpuTokens
  <1>2. CASE UNCHANGED vars
    BY <1>2 DEF vars, kernelVars, cpuVars, canal, InvToken, FlagsCpu, Tokens, ConElPlanificador, CpuOcupada,
                En
  <1>3. CASE Next /\ ~(CpuDispatch \/ CpuRecibeInterrupcion)
    BY <1>3, HilosConservan DEF Conserva, Next, InvToken, FlagsCpu
  <1>4. QED  BY <1>1, <1>2, <1>3

\* Every step of the system keeps the token in one place.
LEMMA NextToken == ASSUME Inv, InvToken, [Next]_vars PROVE InvToken'
  <1>1. SinReloj'  BY RelojPaso DEF InvToken
  <1>2. CASE UnaRespuesta'
    <2>1. UnaRespuesta  BY <1>2, FlagParaSiempre DEF UnaRespuesta
    <2>2. FlagsCpu' /\ Tokens' \in {0, 1}  BY <1>2, <2>1, TokensPaso DEF InvToken
    <2>3. "out_of_memory" \notin flags' => Tokens' = 1
      BY <1>2, TokensPaso, FlagParaSiempre DEF InvToken, TokenCpu, Tokens
    <2>4. QED  BY <1>1, <2>2, <2>3 DEF InvToken, TokenCpu, Tokens
  <1>3. CASE ~UnaRespuesta'
    BY <1>1, <1>3 DEF UnaRespuesta, InvToken, FlagsCpu, TokenCpu
  <1>4. QED  BY <1>2, <1>3

\* The same, as an invariant of every behaviour.
LEMMA InvTokenSiempre == Spec => []InvToken
  <1>1. QED  BY InvSiempre, InitToken, NextToken, PTL DEF Spec

\* The token of cpu_libre is never lost nor duplicated until the first OUT_OF_MEMORY: at
\* most one process is with the planner, in the sockets, in the CPU or with
\* recibir_dispatch, for every workload and every interleaving of the threads.
THEOREM TokenSiempre == Spec => []TokenCpu
  <1>1. InvToken => TokenCpu  BY DEF InvToken
  <1>2. QED  BY InvTokenSiempre, <1>1, PTL

-----------------------------------------------------------------------------
(* DETENER_PLANIFICACION *)

\* The permission of the planner: only INICIAR_PLANIFICACION gives it and only the planner,
\* stopped at its gate, takes it.
LEMMA PermisoDelCorto ==
    ASSUME Inv, [Next]_vars
    PROVE  \/ sem'["podes_planificar_corto_plazo"] = sem["podes_planificar_corto_plazo"]
           \/ ~planificacion_detenida'
           \/ sem["podes_planificar_corto_plazo"] > 0
  <1> DEFINE c == "podes_planificar_corto_plazo"
  <1>0. /\ c \in DOMAIN sem /\ c \in Permisos /\ c \notin Semaforos
        /\ \A i \in Interfaces : i \notin HilosKernel
    BY HilosDistintos DEF Inv, TypeOK, TipoColas, Permisos, Semaforos
  <1>1. ASSUME \/ UNCHANGED sem
               \/ \E s \in Semaforos : Esperar(s) \/ Postear(s)
        PROVE  sem'[c] = sem[c]
    BY <1>0, <1>1 DEF Esperar, Postear, Con, Sin
  <1>2. ASSUME NEW h \in {"creacion", "eliminacion", "corto", "dispatch"} \union Interfaces, Reanudar(h)
        PROVE  sem'[c] = sem[c] \/ sem[c] > 0
    <2>1. CASE PermisoDe(h) = c  BY <1>2, <2>1 DEF Reanudar, Esperar
    <2>2. CASE PermisoDe(h) # c  BY <1>0, <1>2, <2>2 DEF Reanudar, Esperar, Sin
    <2>3. QED  BY <2>1, <2>2
  <1>3. CASE Consola
    <2>1. CASE IniciarPlanificacion  BY <2>1 DEF IniciarPlanificacion
    <2>2. CASE ~IniciarPlanificacion
      BY <1>1, <1>3, <2>2 DEF Consola, ConsolaSigue, IniciarProceso, AvisarNuevo, RegistrarProceso,
                              DetenerPlanificacion, Semaforos
    <2>3. QED  BY <2>1, <2>2
  <1>4. CASE Creacion \/ Eliminacion
    BY <1>1, <1>2, <1>4
    DEF Creacion, CreacionEsperaNuevo, CreacionEsperaGrado, CreacionPopNew, CreacionAgrega, CreacionAvisa,
        Eliminacion, EliminacionEsperaExit, EliminacionPopExit, EliminacionDestruye, Listar, Caer,
        kernelVars, Semaforos
  <1>5. CASE Corto \/ Quantum
    BY <1>1, <1>2, <1>5
    DEF Corto, CortoEsperaReady, CortoEsperaCpu, CortoElige, CortoMiraPlus, CortoTomaMutex, CortoPop,
        CortoSetea, CortoEnvia, CortoArrancaQuantum, Quantum, QuantumEspera, QuantumBajaFlag,
        QuantumCpuLiberada, QuantumVence, Caer, kernelVars, Semaforos
  <1>6. CASE Dispatch
    BY <1>1, <1>2, <1>6
    DEF Dispatch, DispatchRecibe, DispatchLevantaFlag, DispatchBloquea, DispatchEncolaIO, DispatchDesaloja,
        DispatchAvisaReady, DispatchFinaliza, DispatchLiberaCpu, FinalizarPcb, Listar, Caer, kernelVars,
        Semaforos
  <1>7. ASSUME NEW i \in Interfaces, Interfaz(i) PROVE sem'[c] = sem[c] \/ sem[c] > 0
    BY <1>1, <1>2, <1>7
    DEF Interfaz, InterfazSigue, InterfazConecta, InterfazRegistra, InterfazEsperaInstruccion,
        InterfazEnvia, InterfazResponde, InterfazCierra, InterfazDesbloquea, InterfazAgrega, InterfazAvisa,
        Listar, Caer, kernelVars, Semaforos
  <1>8. CASE CpuDispatch \/ CpuRecibeInterrupcion \/ UNCHANGED vars
    BY <1>8 DEF CpuDispatch, CpuRecibePcb, CpuEjecuta, CpuChequea, CpuTermina, CpuRecibeInterrupcion,
                vars, kernelVars
  <1>9. QED  BY <1>3, <1>4, <1>5, <1>6, <1>7, <1>8 DEF Next

\* A stopped planner without its permission gives the CPU to nobody, for any interleaving of
\* INICIAR_PLANIFICACION and DETENER_PLANIFICACION with the other threads.
THEOREM DetencionSiempre == Spec => DetencionEstable
  <1>1. ASSUME Inv, [Next]_vars, Parado, planificacion_detenida' PROVE Parado'
    <2>0. "corto" \in Hilos /\ \A i \in Interfaces : i # "corto"  BY HilosDistintos DEF HilosKernel
    <2>1. sem["podes_planificar_corto_plazo"] = 0  BY <1>1 DEF Parado
    <2>2. sem'["podes_planificar_corto_plazo"] = 0
      <3>1. ~(0 > 0)  OBVIOUS
      <3>2. QED  BY <1>1, <2>1, <3>1, PermisoDelCorto
    <2>3. hilo'["corto"].en \in {"hay_ready", "cpu", "detenida"}
      <3>1. CASE Corto
        <4>1. ~Reanudar("corto")
          <5>1. PermisoDe("corto") = "podes_planificar_corto_plazo"  BY <2>0 DEF PermisoDe
          <5>2. QED  BY <2>1, <5>1 DEF Reanudar, Esperar
        <4>2. CASE CortoEsperaReady \/ CortoEsperaCpu
          BY <1>1, <2>0, <4>2, Llega DEF CortoEsperaReady, CortoEsperaCpu, Puerta, Parado
        <4>3. CASE ~CortoEsperaReady /\ ~CortoEsperaCpu
          BY <1>1, <3>1, <4>1, <4>3
          DEF Corto, CortoElige, CortoMiraPlus, CortoTomaMutex, CortoPop, CortoSetea, CortoEnvia,
              CortoArrancaQuantum, Parado, En
        <4>4. QED  BY <4>2, <4>3
      <3>2. CASE ~Corto
        <4>1. hilo'["corto"] = hilo["corto"]
          <5>1. CASE Consola \/ Creacion \/ Eliminacion \/ Quantum \/ Dispatch
            BY <1>1, <2>0, <5>1, MarcoConsola, MarcoCreacion, MarcoEliminacion, MarcoQuantum, MarcoDispatch
            DEF Marco
          <5>2. ASSUME NEW i \in Interfaces, Interfaz(i) PROVE hilo'["corto"] = hilo["corto"]
            BY <1>1, <2>0, <5>2, MarcoInterfaz DEF Marco
          <5>3. CASE CpuDispatch \/ CpuRecibeInterrupcion \/ UNCHANGED vars
            BY <5>3 DEF CpuDispatch, CpuRecibePcb, CpuEjecuta, CpuChequea, CpuTermina, CpuRecibeInterrupcion,
                        vars, kernelVars
          <5>4. QED  BY <1>1, <3>2, <5>1, <5>2, <5>3 DEF Next
        <4>2. QED  BY <1>1, <4>1 DEF Parado
      <3>3. QED  BY <3>1, <3>2
    <2>4. QED  BY <1>1, <2>2, <2>3 DEF Parado
  <1>2. Inv /\ [Next]_vars => [Parado /\ planificacion_detenida' => Parado']_vars  BY <1>1
  <1>3. QED  BY <1>2, InvSiempre, PTL DEF Spec, DetencionEstable

-----------------------------------------------------------------------------
(* Where a process is *)

EnCola(c, p) == Contains(cola[c], p)

\* The way of a process through the CPU: the two sockets and comenzar_proceso.
EnCamino(p) ==
    \/ Contains(a_cpu, p)
    \/ \E k \in 1 .. Len(a_kernel) : a_kernel[k].pid = p
    \/ CpuOcupada /\ cpu.pid = p

\* estado_actual of a process in each queue and in the hands of a thread at each label.
EstadoDeCola(c) ==
    [new |-> "NEW", ready |-> "READY", plus |-> "READY", blocked |-> "BLOCKED",
     exit |-> "TERMINATED"][c]
EstadoDeMano(h, l) ==
    IF l = "agregar" \/ (l = "colgado" /\ h = "consola") THEN "NEW"
    ELSE IF l \in {"setear", "colgado"} THEN "READY"
    ELSE IF l \in {"agregar_ready", "agregar_plus"} THEN "BLOCKED"
    ELSE IF l = "memoria" THEN "TERMINATED"
    ELSE "EXEC"

\* A process is in one queue, in the hands of one thread or on its way through the CPU.
Unico(p) ==
    /\ \A c, d \in Colas : EnCola(c, p) /\ EnCola(d, p) => c = d
    /\ \A g, h \in Hilos : EnMano(g, p) /\ EnMano(h, p) => g = h
    /\ \A c \in Colas, h \in Hilos : ~(EnCola(c, p) /\ EnMano(h, p))
    /\ EnCamino(p) => /\ \A c \in Colas : ~EnCola(c, p)
                      /\ \A h \in Hilos : ~EnMano(h, p)

\* estado_actual says which.
EstadoDonde(p) ==
    /\ \A c \in Colas : EnCola(c, p) => estado[p] = EstadoDeCola(c)
    /\ \A h \in Hilos : EnMano(h, p) => estado[p] = EstadoDeMano(h, hilo[h].en)
    /\ EnCamino(p) => estado[p] = "EXEC"

\* While the token of the CPU exists, a live process is somewhere.
Hallable(p) ==
    Tokens = 1 /\ estado[p] \notin {"SIN_CREAR", "DESTRUIDO"} =>
        (\E c \in Colas : EnCola(c, p)) \/ (\E h \in Hilos : EnMano(h, p)) \/ EnCamino(p)

Ubicado(p) == Unico(p) /\ EstadoDonde(p) /\ Hallable(p)

\* No queue has a process twice.
SinDobles == \A c \in Colas : IsInjective(cola[c])

\* The next pid is still to be created: the console increments contador_pid last.
PorCrear ==
    \A p \in Pids :
        p > contador_pid \/ (p = contador_pid /\ En("consola", "comando")) => estado[p] = "SIN_CREAR"

Lugar == SinDobles /\ \A p \in Pids : Ubicado(p)

InvLugares == UnaRespuesta => PorCrear /\ Lugar

-----------------------------------------------------------------------------
(* What a step does to one process *)

\* Nothing: q stays where it was.
Quieto(q) ==
    /\ \A c \in Colas : EnCola(c, q)' <=> EnCola(c, q)
    /\ \A h \in Hilos :
           /\ EnMano(h, q)' <=> EnMano(h, q)
           /\ EnMano(h, q) => EstadoDeMano(h, hilo'[h].en) = EstadoDeMano(h, hilo[h].en)
    /\ EnCamino(q)' <=> EnCamino(q)
    /\ estado'[q] = estado[q]

\* A process that a step leaves alone still is in one place.
LEMMA SigueUbicado ==
    ASSUME NEW q \in Pids, Ubicado(q), Quieto(q), Tokens' = 1 => Tokens = 1
    PROVE  Ubicado(q)'
  BY DEF Ubicado, Unico, EstadoDonde, Hallable, Quieto

\* The process of which a step says where it is now: in a queue, ...
LEMMA UbicadoEnCola ==
    ASSUME NEW p \in Pids, NEW c \in Colas, EnCola(c, p)', \A d \in Colas : EnCola(d, p)' => d = c,
           \A h \in Hilos : ~EnMano(h, p)', ~EnCamino(p)', estado'[p] = EstadoDeCola(c)
    PROVE  Ubicado(p)'
  BY DEF Ubicado, Unico, EstadoDonde, Hallable

\* ... in the hands of a thread, ...
LEMMA UbicadoEnMano ==
    ASSUME NEW p \in Pids, NEW h \in Hilos, EnMano(h, p)', \A g \in Hilos : EnMano(g, p)' => g = h,
           \A c \in Colas : ~EnCola(c, p)', ~EnCamino(p)', estado'[p] = EstadoDeMano(h, hilo'[h].en)
    PROVE  Ubicado(p)'
  BY DEF Ubicado, Unico, EstadoDonde, Hallable

\* ... on its way through the CPU, ...
LEMMA UbicadoEnCamino ==
    ASSUME NEW p \in Pids, EnCamino(p)', \A c \in Colas : ~EnCola(c, p)',
           \A h \in Hilos : ~EnMano(h, p)', estado'[p] = "EXEC"
    PROVE  Ubicado(p)'
  BY DEF Ubicado, Unico, EstadoDonde, Hallable

\* ... or nowhere, destroyed or kept by the CPU that ran out of memory.
LEMMA UbicadoEnNada ==
    ASSUME NEW p \in Pids, ~EnCamino(p)', \A c \in Colas : ~EnCola(c, p)',
           \A h \in Hilos : ~EnMano(h, p)', estado'[p] = "DESTRUIDO" \/ Tokens' # 1
    PROVE  Ubicado(p)'
  BY DEF Ubicado, Unico, EstadoDonde, Hallable

\* The labels at which a thread has a process in its hands: see EnMano.
Manos(h) ==
    {"agregar", "agregar_ready", "agregar_plus", "colgado", "setear", "enviar", "memoria", "atender",
     "bloquear"} \union (IF h = "dispatch" THEN {"detenida"} ELSE {})

\* The sockets and the CPU do not change.
CaminoIgual == UNCHANGED <<a_cpu, a_kernel, cpu, flags>>

\* A step of h that does not touch q.
LEMMA NoTocado ==
    ASSUME NEW h \in Hilos, \A g \in Hilos : g # h => hilo'[g] = hilo[g], NEW q \in Pids,
           \A c \in Colas : EnCola(c, q)' <=> EnCola(c, q), estado'[q] = estado[q],
           EnCamino(q)' <=> EnCamino(q), EnMano(h, q)' <=> EnMano(h, q),
           EnMano(h, q) => EstadoDeMano(h, hilo'[h].en) = EstadoDeMano(h, hilo[h].en)
    PROVE  Quieto(q)
  <1>1. \A g \in Hilos : g # h => (EnMano(g, q)' <=> EnMano(g, q))  BY DEF EnMano
  <1>2. QED  BY <1>1 DEF Quieto

\* The same of a step that does not touch the CPU either.
LEMMA LosDemas ==
    ASSUME NEW h \in Hilos, \A g \in Hilos : g # h => hilo'[g] = hilo[g], CaminoIgual,
           NEW q \in Pids, \A c \in Colas : EnCola(c, q)' <=> EnCola(c, q), estado'[q] = estado[q],
           EnMano(h, q)' <=> EnMano(h, q),
           EnMano(h, q) => EstadoDeMano(h, hilo'[h].en) = EstadoDeMano(h, hilo[h].en)
    PROVE  Quieto(q)
  <1>1. EnCamino(q)' <=> EnCamino(q)  BY DEF EnCamino, CpuOcupada, CaminoIgual
  <1> HIDE DEF CaminoIgual
  <1>2. QED  BY <1>1, NoTocado

\* What is in the hands of a thread is nowhere else.
LEMMA SoloAqui ==
    ASSUME Lugar, NEW p \in Pids, NEW h \in Hilos, EnMano(h, p)
    PROVE  /\ \A c \in Colas : ~EnCola(c, p)
           /\ \A g \in Hilos : g # h => ~EnMano(g, p)
           /\ ~EnCamino(p)
           /\ estado[p] = EstadoDeMano(h, hilo[h].en)
  BY DEF Lugar, Ubicado, Unico, EstadoDonde

\* The same of a process that has not been created.
LEMMA EnNada ==
    ASSUME Lugar, NEW p \in Pids, estado[p] = "SIN_CREAR"
    PROVE  /\ \A c \in Colas : ~EnCola(c, p)
           /\ \A g \in Hilos : ~EnMano(g, p)
           /\ ~EnCamino(p)
  BY DEF Lugar, Ubicado, EstadoDonde, EstadoDeCola, EstadoDeMano, Colas

\* When all but one process stay, and that one is in one place, all are.
LEMMA UnoSolo ==
    ASSUME Lugar, Tokens' = 1 => Tokens = 1, SinDobles', NEW p \in Pids, Ubicado(p)',
           \A q \in Pids \ {p} : Quieto(q)
    PROVE  Lugar'
  BY SigueUbicado DEF Lugar

\* The same when all of them stay.
LEMMA TodosQuietos ==
    ASSUME Lugar, Tokens' = 1 => Tokens = 1, UNCHANGED cola, \A q \in Pids : Quieto(q)
    PROVE  Lugar'
  <1>1. SinDobles'  BY DEF Lugar, SinDobles
  <1>2. QED  BY <1>1, SigueUbicado DEF Lugar

\* A thread that takes p out of a queue (queue_pop, list_remove).
LEMMA Toma ==
    ASSUME Inv, Lugar, Tokens' = Tokens, CaminoIgual, UNCHANGED estado,
           NEW h \in Hilos, \A g \in Hilos : g # h => hilo'[g] = hilo[g],
           hilo[h].en \notin Manos(h), hilo'[h].en \in Manos(h),
           NEW p \in Pids, hilo'[h].pcb = p,
           NEW c \in Colas, \A d \in Colas : d # c => cola'[d] = cola[d],
           Contains(cola[c], p),
           \A q : Contains(cola'[c], q) => Contains(cola[c], q),
           \A q : Contains(cola[c], q) => Contains(cola'[c], q) \/ q = p,
           IsInjective(cola[c]) => IsInjective(cola'[c]) /\ ~Contains(cola'[c], p),
           EstadoDeMano(h, hilo'[h].en) = EstadoDeCola(c)
    PROVE  Lugar'
  <1>1. /\ \A d \in Colas : EnCola(d, p) => d = c
        /\ \A g \in Hilos : ~EnMano(g, p)
        /\ ~EnCamino(p) /\ estado[p] = EstadoDeCola(c)
    <2>1. EnCola(c, p)  BY DEF EnCola
    <2>2. QED  BY <2>1 DEF Lugar, Ubicado, Unico, EstadoDonde
  <1>2. SinDobles' /\ ~Contains(cola'[c], p)  BY DEF Lugar, SinDobles
  <1>3. \A d \in Colas : ~EnCola(d, p)'  BY <1>1, <1>2 DEF EnCola
  <1>4. \A g \in Hilos : EnMano(g, p)' <=> g = h  BY <1>1 DEF EnMano, Manos
  <1>5. ~EnCamino(p)'  BY <1>1 DEF EnCamino, CpuOcupada, CaminoIgual
  <1>6. Ubicado(p)'  BY <1>1, <1>3, <1>4, <1>5, UbicadoEnMano
  <1>7. ASSUME NEW q \in Pids \ {p} PROVE Quieto(q)
    <2>1. \A d \in Colas : EnCola(d, q)' <=> EnCola(d, q)  BY <1>7 DEF EnCola
    <2>2. ~EnMano(h, q) /\ ~EnMano(h, q)'  BY <1>7 DEF EnMano, Manos
    <2>3. QED  BY <2>1, <2>2, LosDemas
  <1>8. QED  BY <1>2, <1>6, <1>7, UnoSolo

\* A process that is nowhere, or in the hands of h, and nobody else in them.
AManoDe(h, p) ==
    /\ \A c \in Colas : ~EnCola(c, p)
    /\ \A g \in Hilos : g # h => ~EnMano(g, p)
    /\ ~EnCamino(p)
    /\ \A q \in Pids \ {p} : ~EnMano(h, q)

\* A thread that puts a process at the end of a queue.
LEMMA Deja ==
    ASSUME Inv, Lugar, Tokens' = Tokens, CaminoIgual,
           NEW h \in Hilos, \A g \in Hilos : g # h => hilo'[g] = hilo[g],
           NEW p \in Pids, AManoDe(h, p), hilo'[h].en \notin Manos(h),
           NEW c \in Colas, cola' = [cola EXCEPT ![c] = Append(cola[c], p)],
           estado' = [estado EXCEPT ![p] = EstadoDeCola(c)]
    PROVE  Lugar'
  <1>1. /\ \A q : Contains(cola'[c], q) <=> (Contains(cola[c], q) \/ q = p)
        /\ IsInjective(cola[c]) /\ ~Contains(cola[c], p) => IsInjective(cola'[c])
    <2>1. cola[c] \in Seq(Pids) /\ cola'[c] = Append(cola[c], p)  BY DEF Inv, TypeOK, TipoColas
    <2>2. QED  BY <2>1, AlFinal
  <1>2. \A d \in Colas : d # c => cola'[d] = cola[d]  BY DEF Inv, TypeOK, TipoColas
  <1>3. SinDobles'
    <2>1. ~Contains(cola[c], p)  BY DEF AManoDe, EnCola
    <2>2. QED  BY <1>1, <1>2, <2>1 DEF Lugar, SinDobles
  <1>4. EnCola(c, p)' /\ \A d \in Colas : EnCola(d, p)' => d = c  BY <1>1, <1>2 DEF AManoDe, EnCola
  <1>5. \A g \in Hilos : ~EnMano(g, p)'  BY DEF AManoDe, EnMano, Manos
  <1>6. ~EnCamino(p)'  BY DEF AManoDe, EnCamino, CpuOcupada, CaminoIgual
  <1>7. estado'[p] = EstadoDeCola(c) /\ \A q \in Pids \ {p} : estado'[q] = estado[q]
    BY DEF Inv, TypeOK, TipoColas
  <1>8. Ubicado(p)'  BY <1>4, <1>5, <1>6, <1>7, UbicadoEnCola
  <1>9. ASSUME NEW q \in Pids \ {p} PROVE Quieto(q)
    <2>1. \A d \in Colas : EnCola(d, q)' <=> EnCola(d, q)  BY <1>1, <1>2, <1>9 DEF EnCola
    <2>2. ~EnMano(h, q) /\ ~EnMano(h, q)'  BY <1>9 DEF AManoDe, EnMano, Manos
    <2>3. QED  BY <1>7, <2>1, <2>2, LosDemas
  <1>10. QED  BY <1>3, <1>8, <1>9, UnoSolo

\* A thread that keeps a process in its hands and changes its estado_actual.
LEMMA Retiene ==
    ASSUME Inv, Lugar, Tokens' = Tokens, CaminoIgual, UNCHANGED cola,
           NEW h \in Hilos, \A g \in Hilos : g # h => hilo'[g] = hilo[g],
           NEW p \in Pids, AManoDe(h, p), hilo'[h].en \in Manos(h), hilo'[h].pcb = p,
           estado' = [estado EXCEPT ![p] = EstadoDeMano(h, hilo'[h].en)]
    PROVE  Lugar'
  <1>1. \A g \in Hilos : EnMano(g, p)' <=> g = h  BY DEF AManoDe, EnMano, Manos
  <1>2. \A c \in Colas : ~EnCola(c, p)'  BY DEF AManoDe, EnCola
  <1>3. ~EnCamino(p)'  BY DEF AManoDe, EnCamino, CpuOcupada, CaminoIgual
  <1>4. /\ estado'[p] = EstadoDeMano(h, hilo'[h].en)
        /\ \A q \in Pids \ {p} : estado'[q] = estado[q]
    BY DEF Inv, TypeOK, TipoColas
  <1>5. Ubicado(p)'  BY <1>1, <1>2, <1>3, <1>4, UbicadoEnMano
  <1>6. ASSUME NEW q \in Pids \ {p} PROVE Quieto(q)
    <2>1. ~EnMano(h, q) /\ ~EnMano(h, q)'  BY <1>6 DEF AManoDe, EnMano
    <2>2. \A d \in Colas : EnCola(d, q)' <=> EnCola(d, q)  BY DEF EnCola
    <2>3. QED  BY <1>4, <2>1, <2>2, LosDemas
  <1>7. SinDobles'  BY DEF Lugar, SinDobles
  <1>8. QED  BY <1>5, <1>6, <1>7, UnoSolo

\* What set_add_pcb_cola leaves, its mutex held or not.
LEMMA Agrega ==
    ASSUME Inv, Lugar, Tokens' = Tokens, CaminoIgual,
           NEW h \in Hilos, NEW p \in Pids, AManoDe(h, p), NEW c \in Colas, NEW sigue,
           sigue \notin Manos(h), EstadoDeMano(h, "colgado") = EstadoDeCola(c),
           set_add_pcb_cola(h, p, EstadoDeCola(c), c, sigue)
    PROVE  Lugar'
  <1>1. \A g \in Hilos : g # h => hilo'[g] = hilo[g]  BY SoloMueve DEF set_add_pcb_cola
  <1>2. CASE MutexTomado(c)
    <2>1. hilo'[h].en = "colgado" /\ hilo'[h].pcb = p /\ UNCHANGED cola
      BY <1>2 DEF set_add_pcb_cola, IrCon, Inv, TypeOK, TipoHilo
    <2>2. hilo'[h].en \in Manos(h)  BY <2>1 DEF Manos
    <2>3. estado' = [estado EXCEPT ![p] = EstadoDeMano(h, hilo'[h].en)]
      BY <2>1 DEF set_add_pcb_cola
    <2>4. QED  BY <1>1, <2>1, <2>2, <2>3, Retiene
  <1>3. CASE ~MutexTomado(c)
    <2>1. hilo'[h].en = sigue  BY <1>3, Llega DEF set_add_pcb_cola
    <2>2. /\ cola' = [cola EXCEPT ![c] = Append(cola[c], p)]
          /\ estado' = [estado EXCEPT ![p] = EstadoDeCola(c)]
      BY <1>3 DEF set_add_pcb_cola
    <2>3. QED  BY <1>1, <2>1, <2>2, Deja
  <1>4. QED  BY <1>2, <1>3

\* A thread that moves with nothing in its hands before and after.
LEMMA ManosVacias ==
    ASSUME Lugar, Tokens' = Tokens, CaminoIgual, UNCHANGED <<cola, estado>>,
           NEW h \in Hilos, \A g \in Hilos : g # h => hilo'[g] = hilo[g],
           hilo[h].en \notin Manos(h), hilo'[h].en \notin Manos(h)
    PROVE  Lugar'
  <1>1. ASSUME NEW q \in Pids PROVE Quieto(q)
    <2>1. ~EnMano(h, q) /\ ~EnMano(h, q)'  BY DEF EnMano, Manos
    <2>2. \A d \in Colas : EnCola(d, q)' <=> EnCola(d, q)  BY DEF EnCola
    <2>3. QED  BY <2>1, <2>2, LosDemas
  <1>2. QED  BY <1>1, TodosQuietos

\* A thread that goes on with the process it has.
LEMMA ManoFirme ==
    ASSUME Lugar, Tokens' = Tokens, CaminoIgual, UNCHANGED <<cola, estado>>,
           NEW h \in Hilos, \A g \in Hilos : g # h => hilo'[g] = hilo[g],
           hilo'[h].pcb = hilo[h].pcb, hilo[h].en \in Manos(h), hilo'[h].en \in Manos(h),
           EstadoDeMano(h, hilo'[h].en) = EstadoDeMano(h, hilo[h].en)
    PROVE  Lugar'
  <1>1. ASSUME NEW q \in Pids PROVE Quieto(q)
    <2>1. EnMano(h, q)' <=> EnMano(h, q)  BY DEF EnMano, Manos
    <2>2. \A d \in Colas : EnCola(d, q)' <=> EnCola(d, q)  BY DEF EnCola
    <2>3. QED  BY <2>1, <2>2, LosDemas
  <1>2. QED  BY <1>1, TodosQuietos

\* The process in the hands of a thread is nowhere else.
LEMMA EsAManoDe ==
    ASSUME Lugar, NEW p \in Pids, NEW h \in Hilos, EnMano(h, p)
    PROVE  AManoDe(h, p)
  BY SoloAqui DEF AManoDe, EnMano

\* listar_procesos_en_ready moves nothing.
LEMMA ListarLugar == ASSUME Inv, Lugar, Conserva, NEW h \in Hilos, Listar(h) PROVE Lugar'
  <1>1. PICK l \in {"listando_ready", "listando_plus"} :
            Ir(h, l) /\ hilo[h].en \in {"listar_ready", "listar_plus"}
    BY DEF Listar, En
  <1>2. hilo'[h].en = l /\ \A g \in Hilos : g # h => hilo'[g] = hilo[g]  BY <1>1, Llega, SoloMueve
  <1>3. hilo[h].en \notin Manos(h) /\ hilo'[h].en \notin Manos(h)  BY <1>1, <1>2 DEF Manos
  <1>4. CaminoIgual /\ UNCHANGED <<cola, estado>>  BY DEF Listar, CaminoIgual, resto, cpuVars, canal
  <1>5. QED  BY <1>2, <1>3, <1>4, ManosVacias DEF Conserva

\* The gate moves nothing: recibir_dispatch waits at it with an evicted process in its hands.
LEMMA ReanudarLugar ==
    ASSUME Inv, Lugar, Conserva,
           NEW h \in {"creacion", "eliminacion", "corto", "dispatch"} \union Interfaces, Reanudar(h)
    PROVE  Lugar'
  <1>0. h \in Hilos  BY HilosDistintos DEF HilosKernel
  <1>1. /\ hilo[h].en = "detenida" /\ hilo'[h].en = TrasLaPuerta(h) /\ hilo'[h].pcb = hilo[h].pcb
        /\ \A g \in Hilos : g # h => hilo'[g] = hilo[g]
    BY <1>0 DEF Reanudar, En, Ir, Inv, TypeOK, TipoHilo
  <1>2. CaminoIgual /\ UNCHANGED <<cola, estado>>  BY DEF Reanudar, CaminoIgual, resto, cpuVars, canal
  <1>3. CASE h = "dispatch"
    <2>1. hilo'[h].en = "atender"  BY <1>1, <1>3, HilosDistintos DEF TrasLaPuerta, HilosKernel
    <2>2. hilo[h].en \in Manos(h) /\ hilo'[h].en \in Manos(h)  BY <1>1, <1>3, <2>1 DEF Manos
    <2>3. EstadoDeMano(h, hilo'[h].en) = EstadoDeMano(h, hilo[h].en)  BY <1>1, <2>1 DEF EstadoDeMano
    <2>4. QED  BY <1>0, <1>1, <1>2, <2>2, <2>3, ManoFirme DEF Conserva
  <1>4. CASE h # "dispatch"
    <2>1. TrasLaPuerta(h) \in {"grado", "pop_exit", "elegir", "resultado"}
      BY <1>4, HilosDistintos DEF TrasLaPuerta, HilosKernel
    <2>2. hilo[h].en \notin Manos(h) /\ hilo'[h].en \notin Manos(h)  BY <1>1, <1>4, <2>1 DEF Manos
    <2>3. QED  BY <1>0, <1>1, <1>2, <2>2, ManosVacias DEF Conserva
  <1>5. QED  BY <1>3, <1>4

\* Using a missing PCB moves nothing.
LEMMA CaerLugar == ASSUME Lugar, Tokens' = Tokens, Caer PROVE Lugar'
  <1>1. ASSUME NEW q \in Pids PROVE Quieto(q)
    BY DEF Caer, kernelVars, cpuVars, canal, Quieto, EnCola, EnMano, EnCamino, CpuOcupada
  <1>2. QED  BY <1>1, TodosQuietos DEF Caer, kernelVars

\* The process created last is the next to create: the console.
LEMMA ConsolaLugar == ASSUME Inv, PorCrear, Lugar, Consola PROVE Lugar' /\ PorCrear'
  <1>0. "consola" \in Hilos /\ "new" \in Colas  BY DEF Hilos, HilosKernel, Colas
  <1>1. Conserva  BY HilosConservan
  <1>2. CaminoIgual
    BY DEF Consola, ConsolaSigue, IniciarProceso, AvisarNuevo, RegistrarProceso, DetenerPlanificacion,
           IniciarPlanificacion, resto, canal, cpuVars, CaminoIgual
  <1>3. CASE IniciarProceso
    <2> DEFINE p == contador_pid
    <2>1. p \in Pids  BY <1>3, ConstantesOK DEF IniciarProceso, Pids, Inv, TypeOK, TipoControl
    <2>2. estado[p] = "SIN_CREAR" /\ hilo["consola"].en = "comando"
      BY <1>3, <2>1 DEF IniciarProceso, PorCrear, En
    <2>3. AManoDe("consola", p)  BY <2>1, <2>2, EnNada DEF AManoDe, EnMano
    <2>4. EstadoDeCola("new") = "NEW" /\ EstadoDeMano("consola", "colgado") = "NEW"
      BY DEF EstadoDeCola, EstadoDeMano
    <2>5. "post_nuevo" \notin Manos("consola")  BY DEF Manos
    <2>6. set_add_pcb_cola("consola", p, EstadoDeCola("new"), "new", "post_nuevo")
      BY <1>3, <2>4 DEF IniciarProceso
    <2>7. Lugar'  BY <1>0, <1>1, <1>2, <2>1, <2>3, <2>4, <2>5, <2>6, Agrega DEF Conserva
    <2>8. PorCrear'
      <3>1. contador_pid' = p  BY <1>3 DEF IniciarProceso, resto, control
      <3>2. ~En("consola", "comando")'
        BY <1>0, <1>3, Llega DEF IniciarProceso, set_add_pcb_cola, En
      <3>3. \A q \in Pids : q # p => estado'[q] = estado[q]
        BY <1>3 DEF IniciarProceso, set_add_pcb_cola, Inv, TypeOK, TipoColas
      <3>4. ASSUME NEW q \in Pids, q > p PROVE q # p  BY <2>1, <3>4 DEF Pids
      <3>5. QED  BY <3>1, <3>2, <3>3, <3>4 DEF PorCrear
    <2>9. QED  BY <2>7, <2>8
  <1>4. CASE AvisarNuevo \/ RegistrarProceso
    <2>1. /\ hilo["consola"].en \in {"post_nuevo", "registrar"} /\ UNCHANGED <<cola, estado>>
          /\ hilo'["consola"].en \in {"registrar", "comando"}
          /\ \A g \in Hilos : g # "consola" => hilo'[g] = hilo[g]
      BY <1>0, <1>4, Llega, SoloMueve DEF AvisarNuevo, RegistrarProceso, En
    <2>2. Lugar'  BY <1>0, <1>1, <1>2, <2>1, ManosVacias DEF Conserva, Manos
    <2>3. PorCrear'
      <3>1. CASE AvisarNuevo
        <4>1. UNCHANGED contador_pid /\ hilo'["consola"].en = "registrar"
          BY <1>0, <3>1, Llega DEF AvisarNuevo, resto, control
        <4>2. QED  BY <2>1, <4>1 DEF PorCrear, En
      <3>2. CASE RegistrarProceso
        <4>1. contador_pid' = contador_pid + 1 /\ contador_pid \in Nat
          BY <3>2 DEF RegistrarProceso, Inv, TypeOK, TipoControl
        <4>2. \A q \in Pids : q > contador_pid' \/ q = contador_pid' => q > contador_pid
          BY <4>1 DEF Pids
        <4>3. QED  BY <2>1, <4>2 DEF PorCrear
      <3>3. QED  BY <1>4, <3>1, <3>2
    <2>4. QED  BY <2>2, <2>3
  <1>5. CASE DetenerPlanificacion \/ IniciarPlanificacion
    <2>1. UNCHANGED <<hilo, cola, estado, contador_pid>>
      BY <1>5 DEF DetenerPlanificacion, IniciarPlanificacion
    <2>2. PorCrear'  BY <2>1 DEF PorCrear, En
    <2>3. ASSUME NEW q \in Pids PROVE Quieto(q)
      BY <1>0, <2>1, <1>2, LosDemas DEF EnMano, EnCola
    <2>4. QED  BY <1>1, <2>1, <2>2, <2>3, TodosQuietos DEF Conserva
  <1>6. QED  BY <1>3, <1>4, <1>5 DEF Consola, ConsolaSigue

\* A step that leaves the console alone and changes estado_actual of created processes only.
LEMMA CrearIgual ==
    ASSUME PorCrear, hilo'["consola"] = hilo["consola"], UNCHANGED contador_pid,
           \A q \in Pids : estado'[q] = estado[q] \/ estado[q] # "SIN_CREAR"
    PROVE  PorCrear'
  BY DEF PorCrear, En

\* queue_pop: a thread takes the first process of a queue.
LEMMA TomaFrente ==
    ASSUME Inv, Lugar, Conserva, CaminoIgual, UNCHANGED estado, NEW h \in Hilos, NEW c \in Colas,
           cola[c] # <<>>, NEW l \in Manos(h), hilo[h].en \notin Manos(h),
           IrCon(h, l, Head(cola[c])), cola' = [cola EXCEPT ![c] = Tail(cola[c])],
           EstadoDeMano(h, l) = EstadoDeCola(c)
    PROVE  Lugar'
  <1> DEFINE p == Head(cola[c])
  <1>1. cola[c] \in Seq(Pids) /\ p \in Pids  BY Naturales, CabezaTipo
  <1>2. hilo'[h].en = l /\ hilo'[h].pcb = p /\ \A g \in Hilos : g # h => hilo'[g] = hilo[g]
    BY SoloMueve DEF IrCon, Inv, TypeOK, TipoHilo
  <1>3. cola'[c] = Tail(cola[c]) /\ \A d \in Colas : d # c => cola'[d] = cola[d]
    BY DEF Inv, TypeOK, TipoColas
  <1>4. /\ Contains(cola[c], p)
        /\ \A q : Contains(cola'[c], q) => Contains(cola[c], q)
        /\ \A q : Contains(cola[c], q) => Contains(cola'[c], q) \/ q = p
        /\ IsInjective(cola[c]) => IsInjective(cola'[c]) /\ ~Contains(cola'[c], p)
    BY <1>1, <1>3, DelFrente
  <1> HIDE DEF p
  <1>5. QED  BY <1>1, <1>2, <1>3, <1>4, Toma DEF Conserva

\* A thread with a process in its hands: it is nowhere else, and it has been created.
LEMMA EnSuMano ==
    ASSUME Inv, Lugar, NEW h \in Hilos, hilo[h].en \in Manos(h) \ {"colgado"}
    PROVE  /\ hilo[h].pcb \in Pids /\ AManoDe(h, hilo[h].pcb)
           /\ estado[hilo[h].pcb] = EstadoDeMano(h, hilo[h].en) /\ estado[hilo[h].pcb] # "SIN_CREAR"
  <1>1. hilo[h].pcb \in Pids  BY DEF Inv, ManosLlenas, ConMano, Manos
  <1>2. EnMano(h, hilo[h].pcb)  BY DEF EnMano, Manos
  <1>3. QED  BY <1>1, <1>2, SoloAqui, EsAManoDe DEF EstadoDeMano

\* set_add_pcb_cola of the process in the hands of a thread, into READY or ready_plus.
LEMMA AgregaSuyo ==
    ASSUME Inv, PorCrear, Lugar, Conserva, CaminoIgual, UNCHANGED contador_pid,
           NEW h \in Hilos, h # "consola", hilo[h].en \in Manos(h) \ {"colgado"},
           NEW c \in {"ready", "plus"}, NEW l, l \notin Manos(h),
           set_add_pcb_cola(h, hilo[h].pcb, "READY", c, l)
    PROVE  Lugar' /\ PorCrear'
  <1> DEFINE p == hilo[h].pcb
  <1>1. p \in Pids /\ AManoDe(h, p) /\ estado[p] # "SIN_CREAR"  BY EnSuMano
  <1>2. /\ c \in Colas /\ EstadoDeCola(c) = "READY" /\ EstadoDeMano(h, "colgado") = "READY"
    BY DEF Colas, EstadoDeCola, EstadoDeMano
  <1>3. \A q \in Pids : estado'[q] = estado[q] \/ q = p
    BY DEF set_add_pcb_cola, Inv, TypeOK, TipoColas
  <1>4. hilo'["consola"] = hilo["consola"]  BY SoloMueve DEF set_add_pcb_cola, Hilos, HilosKernel
  <1>5. set_add_pcb_cola(h, p, EstadoDeCola(c), c, l)  BY <1>2
  <1> HIDE DEF p
  <1>6. Lugar'  BY <1>1, <1>2, <1>5, Agrega DEF Conserva
  <1>7. QED  BY <1>1, <1>3, <1>4, <1>6, CrearIgual

\* creacion_de_procesos takes a process from NEW to READY.
LEMMA CreacionLugar == ASSUME Inv, PorCrear, Lugar, Creacion PROVE Lugar' /\ PorCrear'
  <1>0. "creacion" \in Hilos /\ "consola" \in Hilos /\ "new" \in Colas
    BY DEF Hilos, HilosKernel, Colas
  <1>1. Conserva  BY HilosConservan
  <1>2. CaminoIgual /\ UNCHANGED contador_pid
    BY DEF Creacion, CreacionEsperaNuevo, CreacionEsperaGrado, CreacionPopNew, CreacionAgrega,
           CreacionAvisa, Listar, Reanudar, Caer, kernelVars, control, resto, canal, cpuVars, CaminoIgual
  <1>3. \A g \in Hilos : g # "creacion" => hilo'[g] = hilo[g]  BY MarcoCreacion DEF Marco
  <1>4. CASE CreacionEsperaNuevo \/ CreacionEsperaGrado \/ CreacionAvisa
    <2>1. /\ hilo["creacion"].en \in {"hay_nuevo", "grado", "listando_ready"}
          /\ hilo'["creacion"].en \in {"detenida", "grado", "pop_new", "hay_nuevo"}
          /\ UNCHANGED <<cola, estado>>
      BY <1>0, <1>4, Llega DEF CreacionEsperaNuevo, CreacionEsperaGrado, CreacionAvisa, Puerta, En
    <2>2. hilo["creacion"].en \notin Manos("creacion") /\ hilo'["creacion"].en \notin Manos("creacion")
      BY <2>1 DEF Manos
    <2>3. QED  BY <1>0, <1>1, <1>2, <1>3, <2>1, <2>2, ManosVacias, CrearIgual DEF Conserva
  <1>5. CASE Listar("creacion") \/ Reanudar("creacion") \/ Caer
    <2>1. UNCHANGED estado  BY <1>5 DEF Listar, Reanudar, Caer
    <2>2. Lugar'  BY <1>0, <1>1, <1>5, ListarLugar, ReanudarLugar, CaerLugar DEF Conserva
    <2>3. QED  BY <1>0, <1>2, <1>3, <2>1, <2>2, CrearIgual
  <1>6. CASE CreacionPopNew /\ ~Caer
    <2>1. /\ hilo["creacion"].en = "pop_new" /\ IrCon("creacion", "agregar", Head(cola["new"]))
          /\ UNCHANGED estado /\ cola["new"] # <<>> /\ cola' = [cola EXCEPT !["new"] = Tail(cola["new"])]
      BY <1>6 DEF CreacionPopNew, En
    <2>2. /\ "pop_new" \notin Manos("creacion") /\ "agregar" \in Manos("creacion")
          /\ EstadoDeMano("creacion", "agregar") = EstadoDeCola("new")
      BY DEF Manos, EstadoDeMano, EstadoDeCola
    <2>3. Lugar'  BY <1>0, <1>1, <1>2, <2>1, <2>2, TomaFrente
    <2>4. QED  BY <1>0, <1>2, <1>3, <2>1, <2>3, CrearIgual
  <1>7. CASE CreacionAgrega
    <2>1. hilo["creacion"].en \in Manos("creacion") \ {"colgado"} /\ "listar_ready" \notin Manos("creacion")
      BY <1>7 DEF CreacionAgrega, En, Manos
    <2>2. QED  BY <1>0, <1>1, <1>2, <1>7, <2>1, AgregaSuyo DEF CreacionAgrega
  <1>8. QED  BY <1>4, <1>5, <1>6, <1>7 DEF Creacion

\* eliminacion_de_procesos takes a process from EXIT and destroys its PCB.
LEMMA EliminacionLugar == ASSUME Inv, PorCrear, Lugar, Eliminacion PROVE Lugar' /\ PorCrear'
  <1>0. "eliminacion" \in Hilos /\ "consola" \in Hilos /\ "exit" \in Colas
    BY DEF Hilos, HilosKernel, Colas
  <1>1. Conserva  BY HilosConservan
  <1>2. CaminoIgual /\ UNCHANGED contador_pid
    BY DEF Eliminacion, EliminacionEsperaExit, EliminacionPopExit, EliminacionDestruye,
           Reanudar, Caer, kernelVars, control, resto, canal, cpuVars, CaminoIgual
  <1>3. \A g \in Hilos : g # "eliminacion" => hilo'[g] = hilo[g]  BY MarcoEliminacion DEF Marco
  <1>4. CASE EliminacionEsperaExit
    <2>1. /\ hilo["eliminacion"].en = "hay_exit"
          /\ hilo'["eliminacion"].en \in {"detenida", "pop_exit"} /\ UNCHANGED <<cola, estado>>
      BY <1>0, <1>4, Llega DEF EliminacionEsperaExit, Puerta, En
    <2>2. /\ hilo["eliminacion"].en \notin Manos("eliminacion")
          /\ hilo'["eliminacion"].en \notin Manos("eliminacion")
      BY <2>1 DEF Manos
    <2>3. QED  BY <1>0, <1>1, <1>2, <1>3, <2>1, <2>2, ManosVacias, CrearIgual DEF Conserva
  <1>5. CASE Reanudar("eliminacion") \/ Caer
    <2>1. UNCHANGED estado  BY <1>5 DEF Reanudar, Caer
    <2>2. Lugar'  BY <1>0, <1>1, <1>5, ReanudarLugar, CaerLugar DEF Conserva
    <2>3. QED  BY <1>0, <1>2, <1>3, <2>1, <2>2, CrearIgual
  <1>6. CASE EliminacionPopExit /\ ~Caer
    <2>1. /\ hilo["eliminacion"].en = "pop_exit"
          /\ IrCon("eliminacion", "memoria", Head(cola["exit"])) /\ UNCHANGED estado
          /\ cola["exit"] # <<>> /\ cola' = [cola EXCEPT !["exit"] = Tail(cola["exit"])]
      BY <1>6 DEF EliminacionPopExit, En
    <2>2. /\ "pop_exit" \notin Manos("eliminacion") /\ "memoria" \in Manos("eliminacion")
          /\ EstadoDeMano("eliminacion", "memoria") = EstadoDeCola("exit")
      BY DEF Manos, EstadoDeMano, EstadoDeCola
    <2>3. Lugar'  BY <1>0, <1>1, <1>2, <2>1, <2>2, TomaFrente
    <2>4. QED  BY <1>0, <1>2, <1>3, <2>1, <2>3, CrearIgual
  <1>7. CASE EliminacionDestruye
    <2>1. hilo["eliminacion"].en \in Manos("eliminacion") \ {"colgado"}
      BY <1>7 DEF EliminacionDestruye, En, Manos
    <2>0. PICK p \in Pids : p = hilo["eliminacion"].pcb  BY <1>0, <2>1, EnSuMano
    <2>2. AManoDe("eliminacion", p) /\ estado[p] # "SIN_CREAR"  BY <1>0, <2>0, <2>1, EnSuMano
    <2>3. /\ UNCHANGED cola /\ hilo'["eliminacion"].en = "hay_exit"
          /\ estado'[p] = "DESTRUIDO" /\ \A q \in Pids : q # p => estado'[q] = estado[q]
      BY <1>0, <1>7, <2>0, Llega DEF EliminacionDestruye, Inv, TypeOK, TipoColas
    <2>4. hilo'["eliminacion"].en \notin Manos("eliminacion")  BY <2>3 DEF Manos
    <2>5. \A c \in Colas : ~EnCola(c, p)'  BY <2>2, <2>3 DEF AManoDe, EnCola
    <2>6. \A g \in Hilos : ~EnMano(g, p)'  BY <1>3, <2>2, <2>4 DEF AManoDe, EnMano, Manos
    <2>7. ~EnCamino(p)'  BY <1>2, <2>2 DEF AManoDe, EnCamino, CpuOcupada, CaminoIgual
    <2>8. Ubicado(p)'  BY <2>2, <2>3, <2>5, <2>6, <2>7, UbicadoEnNada
    <2>9. ASSUME NEW q \in Pids \ {p} PROVE Quieto(q)
      <3>1. ~EnMano("eliminacion", q) /\ ~EnMano("eliminacion", q)'
        BY <2>2, <2>4, <2>9 DEF AManoDe, EnMano, Manos
      <3>2. \A d \in Colas : EnCola(d, q)' <=> EnCola(d, q)  BY <2>3 DEF EnCola
      <3>3. QED  BY <1>0, <1>2, <1>3, <2>3, <2>9, <3>1, <3>2, LosDemas
    <2>10. SinDobles'  BY <2>3 DEF Lugar, SinDobles
    <2>11. Lugar'  BY <1>1, <2>2, <2>8, <2>9, <2>10, UnoSolo DEF Conserva
    <2>12. QED  BY <1>0, <1>2, <1>3, <2>2, <2>3, <2>11, CrearIgual
  <1>8. QED  BY <1>4, <1>5, <1>6, <1>7 DEF Eliminacion, CreacionPopNew, EliminacionPopExit

\* One process at most is on its way through the CPU.
LEMMA CaminoUnico ==
    ASSUME Inv, Tokens \in {0, 1}
    PROVE  /\ a_kernel # <<>> => Len(a_kernel) = 1 /\ a_cpu = <<>> /\ ~CpuOcupada
           /\ a_cpu # <<>> => Len(a_cpu) = 1 /\ a_kernel = <<>> /\ ~CpuOcupada
           /\ CpuOcupada => a_cpu = <<>> /\ a_kernel = <<>> /\ En("dispatch", "recibir")
           /\ ConElPlanificador => a_cpu = <<>> /\ a_kernel = <<>> /\ ~CpuOcupada
                                  /\ En("dispatch", "recibir")
  <1>1. /\ Len(a_cpu) \in Nat /\ (a_cpu # <<>> => Len(a_cpu) > 0)
        /\ Len(a_kernel) \in Nat /\ (a_kernel # <<>> => Len(a_kernel) > 0)
        /\ sem["cpu_libre"] \in Nat
    BY DEF Inv, TypeOK, TipoCpu, TipoColas, Semaforos
  <1> DEFINE x == B(ConElPlanificador)
             y == B(CpuOcupada)
             z == B(~En("dispatch", "recibir"))
  <1>2. x \in {0, 1} /\ y \in {0, 1} /\ z \in {0, 1}  BY DEF B
  <1>3. (x = 0 => ~ConElPlanificador) /\ (y = 0 => ~CpuOcupada) /\ (z = 0 => En("dispatch", "recibir"))
    BY DEF B
  <1>4. (ConElPlanificador => x = 1) /\ (CpuOcupada => y = 1)  BY DEF B
  <1> DEFINE n == Len(a_cpu)
             m == Len(a_kernel)
             t == sem["cpu_libre"]
  <1>5. t + x + n + y + m + z \in {0, 1}  BY DEF Tokens
  <1>6. n \in Nat /\ m \in Nat /\ t \in Nat  BY <1>1
  <1> HIDE DEF x, y, z, n, m, t
  <1>7. /\ m > 0 => m = 1 /\ n = 0 /\ y = 0
        /\ n > 0 => n = 1 /\ m = 0 /\ y = 0
        /\ y = 1 => n = 0 /\ m = 0 /\ z = 0
        /\ x = 1 => n = 0 /\ m = 0 /\ y = 0 /\ z = 0
    BY <1>2, <1>5, <1>6
  <1>8. /\ a_kernel # <<>> => m > 0
        /\ a_cpu # <<>> => n > 0
        /\ m = 0 => a_kernel = <<>>
        /\ n = 0 => a_cpu = <<>>
    BY <1>1 DEF n, m
  <1>9. QED  BY <1>3, <1>4, <1>7, <1>8 DEF n, m

\* The short-term planner takes a process from READY or ready_plus to the CPU.
LEMMA CortoLugar == ASSUME Inv, PorCrear, Lugar, Corto PROVE Lugar' /\ PorCrear'
  <1>0. /\ "corto" \in Hilos /\ "consola" \in Hilos /\ {"ready", "plus"} \subseteq Colas
    BY DEF Hilos, HilosKernel, Colas
  <1>1. Conserva  BY HilosConservan
  <1>2. UNCHANGED contador_pid
    BY DEF Corto, CortoEsperaReady, CortoEsperaCpu, CortoElige, CortoMiraPlus, CortoTomaMutex, CortoPop,
           CortoSetea, CortoEnvia, CortoArrancaQuantum, Reanudar, Caer, kernelVars, control, resto
  <1>3. \A g \in Hilos : g # "corto" => hilo'[g] = hilo[g]  BY MarcoCorto DEF Marco
  <1>4. CASE \/ CortoEsperaReady \/ CortoEsperaCpu \/ CortoElige \/ CortoMiraPlus \/ CortoTomaMutex
             \/ CortoArrancaQuantum
    <2> DEFINE L == {"hay_ready", "cpu", "detenida", "elegir", "mirar_plus", "tomar_plus", "tomar_ready",
                     "pop_plus", "pop_ready", "arrancar"}
    <2>1. hilo["corto"].en \in L /\ hilo'["corto"].en \in L /\ UNCHANGED <<cola, estado>>
      BY <1>0, <1>4, Llega DEF CortoEsperaReady, CortoEsperaCpu, CortoElige, CortoMiraPlus, CortoTomaMutex,
                               CortoArrancaQuantum, Puerta, En
    <2>2. CaminoIgual
      BY <1>4 DEF CortoEsperaReady, CortoEsperaCpu, CortoElige, CortoMiraPlus, CortoTomaMutex,
                  CortoArrancaQuantum, resto, canal, cpuVars, CaminoIgual
    <2>3. hilo["corto"].en \notin Manos("corto") /\ hilo'["corto"].en \notin Manos("corto")
      BY <2>1 DEF Manos
    <2>4. QED  BY <1>0, <1>1, <1>2, <1>3, <2>1, <2>2, <2>3, ManosVacias, CrearIgual DEF Conserva
  <1>5. CASE Reanudar("corto") \/ Caer
    <2>1. UNCHANGED estado  BY <1>5 DEF Reanudar, Caer
    <2>2. Lugar'  BY <1>0, <1>1, <1>5, ReanudarLugar, CaerLugar DEF Conserva
    <2>3. QED  BY <1>0, <1>2, <1>3, <2>1, <2>2, CrearIgual
  <1>6. CASE CortoPop /\ ~Caer
    <2>1. PICK c \in {"ready", "plus"} :
              /\ hilo["corto"].en = (IF c = "ready" THEN "pop_ready" ELSE "pop_plus")
              /\ IrCon("corto", "setear", Head(cola[c])) /\ UNCHANGED estado
              /\ cola[c] # <<>> /\ cola' = [cola EXCEPT ![c] = Tail(cola[c])]
      BY <1>6 DEF CortoPop, En
    <2>2. /\ hilo["corto"].en \notin Manos("corto") /\ "setear" \in Manos("corto")
          /\ EstadoDeMano("corto", "setear") = EstadoDeCola(c)
      BY <2>1 DEF Manos, EstadoDeMano, EstadoDeCola
    <2>3. CaminoIgual  BY <1>6 DEF CortoPop, resto, canal, cpuVars, CaminoIgual
    <2>4. c \in Colas  BY <1>0
    <2>5. Lugar'  BY <1>0, <1>1, <2>1, <2>2, <2>3, <2>4, TomaFrente
    <2>6. QED  BY <1>0, <1>2, <1>3, <2>1, <2>5, CrearIgual
  <1>7. CASE CortoSetea
    <2>1. hilo["corto"].en \in Manos("corto") \ {"colgado"}  BY <1>7 DEF CortoSetea, En, Manos
    <2>2. PICK p \in Pids : p = hilo["corto"].pcb  BY <1>0, <2>1, EnSuMano
    <2>3. AManoDe("corto", p) /\ estado[p] # "SIN_CREAR"  BY <1>0, <2>1, <2>2, EnSuMano
    <2>4. /\ hilo'["corto"].en = "enviar" /\ hilo'["corto"].pcb = p /\ UNCHANGED cola
          /\ estado' = [estado EXCEPT ![p] = "EXEC"]
      BY <1>0, <1>7, <2>2 DEF CortoSetea, Ir, Inv, TypeOK, TipoHilo
    <2>5. CaminoIgual  BY <1>7 DEF CortoSetea, canal, cpuVars, CaminoIgual
    <2>6. EstadoDeMano("corto", "enviar") = "EXEC" /\ "enviar" \in Manos("corto")
      BY DEF EstadoDeMano, Manos
    <2>7. Lugar'  BY <1>0, <1>1, <1>3, <2>3, <2>4, <2>5, <2>6, Retiene DEF Conserva
    <2>8. \A q \in Pids : q # p => estado'[q] = estado[q]  BY <2>4 DEF Inv, TypeOK, TipoColas
    <2>9. QED  BY <1>0, <1>2, <1>3, <2>3, <2>7, <2>8, CrearIgual
  <1>8. CASE CortoEnvia
    <2>1. hilo["corto"].en \in Manos("corto") \ {"colgado"} /\ hilo["corto"].en = "enviar"
      BY <1>8 DEF CortoEnvia, En, Manos
    <2>2. PICK p \in Pids : p = hilo["corto"].pcb  BY <1>0, <2>1, EnSuMano
    <2>3. AManoDe("corto", p) /\ estado[p] = "EXEC"  BY <1>0, <2>1, <2>2, EnSuMano DEF EstadoDeMano
    <2>4. /\ hilo'["corto"].en \in {"hay_ready", "arrancar"} /\ UNCHANGED <<cola, estado>>
          /\ a_cpu' = Append(a_cpu, p) /\ UNCHANGED <<a_kernel, cpu, flags>>
      BY <1>0, <1>8, <2>2, Llega DEF CortoEnvia, cpuVars
    <2>5. hilo'["corto"].en \notin Manos("corto")  BY <2>4 DEF Manos
    <2>6. \A q : Contains(a_cpu', q) <=> (Contains(a_cpu, q) \/ q = p)
      BY <2>4, AlFinal DEF Inv, TypeOK, TipoCpu
    <2>7. \A q \in Pids : EnCamino(q)' <=> (EnCamino(q) \/ q = p)
      BY <2>4, <2>6 DEF EnCamino, CpuOcupada
    <2>8. \A g \in Hilos : ~EnMano(g, p)'  BY <1>3, <2>3, <2>5 DEF AManoDe, EnMano, Manos
    <2>9. \A c \in Colas : ~EnCola(c, p)'  BY <2>3, <2>4 DEF AManoDe, EnCola
    <2>10. Ubicado(p)'  BY <2>3, <2>4, <2>7, <2>8, <2>9, UbicadoEnCamino
    <2>11. ASSUME NEW q \in Pids \ {p} PROVE Quieto(q)
      <3>1. ~EnMano("corto", q) /\ ~EnMano("corto", q)'  BY <2>3, <2>5, <2>11 DEF AManoDe, EnMano, Manos
      <3>2. \A d \in Colas : EnCola(d, q)' <=> EnCola(d, q)  BY <2>4 DEF EnCola
      <3>3. (EnCamino(q)' <=> EnCamino(q)) /\ estado'[q] = estado[q]  BY <2>4, <2>7, <2>11
      <3>4. QED  BY <1>0, <1>3, <2>11, <3>1, <3>2, <3>3, NoTocado
    <2>12. SinDobles'  BY <2>4 DEF Lugar, SinDobles
    <2>13. Lugar'  BY <1>1, <2>10, <2>11, <2>12, UnoSolo DEF Conserva
    <2>14. QED  BY <1>0, <1>2, <1>3, <2>4, <2>13, CrearIgual
  <1>9. QED  BY <1>4, <1>5, <1>6, <1>7, <1>8 DEF Corto

\* The thread of the quantum moves no process.
LEMMA QuantumLugar == ASSUME Inv, PorCrear, Lugar, Quantum PROVE Lugar' /\ PorCrear'
  <1>0. "quantum" \in Hilos /\ "consola" \in Hilos  BY DEF Hilos, HilosKernel
  <1>1. Conserva  BY HilosConservan
  <1>2. CaminoIgual /\ UNCHANGED <<cola, estado, contador_pid>>
    BY DEF Quantum, QuantumEspera, QuantumBajaFlag, QuantumCpuLiberada, QuantumVence, resto, control,
           canal, cpuVars, CaminoIgual
  <1>3. \A g \in Hilos : g # "quantum" => hilo'[g] = hilo[g]  BY MarcoQuantum DEF Marco
  <1>4. /\ hilo["quantum"].en \in {"arrancar", "bajar_flag", "esperar_flag"}
        /\ hilo'["quantum"].en \in {"arrancar", "bajar_flag", "esperar_flag"}
    BY <1>0, Llega DEF Quantum, QuantumEspera, QuantumBajaFlag, QuantumCpuLiberada, QuantumVence, En
  <1>5. hilo["quantum"].en \notin Manos("quantum") /\ hilo'["quantum"].en \notin Manos("quantum")
    BY <1>4 DEF Manos
  <1>6. QED  BY <1>0, <1>1, <1>2, <1>3, <1>5, ManosVacias, CrearIgual DEF Conserva

\* recibir_dispatch takes an evicted process to READY, BLOCKED or EXIT.
LEMMA DispatchLugar ==
    ASSUME Inv, PorCrear, Lugar, Tokens \in {0, 1}, Dispatch PROVE Lugar' /\ PorCrear'
  <1>0. /\ "dispatch" \in Hilos /\ "consola" \in Hilos /\ {"blocked", "exit"} \subseteq Colas
    BY DEF Hilos, HilosKernel, Colas
  <1>1. Conserva  BY HilosConservan
  <1>2. UNCHANGED contador_pid
    BY DEF Dispatch, DispatchRecibe, DispatchLevantaFlag, DispatchBloquea, DispatchEncolaIO,
           DispatchDesaloja, DispatchAvisaReady, DispatchFinaliza, DispatchLiberaCpu, Listar, Reanudar,
           Caer, kernelVars, control, resto
  <1>3. \A g \in Hilos : g # "dispatch" => hilo'[g] = hilo[g]  BY MarcoDispatch DEF Marco
  <1>4. CASE Listar("dispatch") \/ Reanudar("dispatch") \/ Caer
    <2>1. UNCHANGED estado  BY <1>4 DEF Listar, Reanudar, Caer
    <2>2. Lugar'  BY <1>0, <1>1, <1>4, ListarLugar, ReanudarLugar, CaerLugar DEF Conserva
    <2>3. QED  BY <1>0, <1>2, <1>3, <2>1, <2>2, CrearIgual
  <1>5. CASE ~Caer /\ (DispatchEncolaIO \/ DispatchAvisaReady \/ DispatchLiberaCpu)
    <2>1. /\ hilo["dispatch"].en \in {"encolar_io", "listando_ready", "post_cpu"}
          /\ hilo'["dispatch"].en \in {"post_cpu", "flag", "recibir"} /\ UNCHANGED <<cola, estado>>
      BY <1>0, <1>5, Llega DEF DispatchEncolaIO, DispatchAvisaReady, DispatchLiberaCpu, En
    <2>2. CaminoIgual
      BY <1>5 DEF DispatchEncolaIO, DispatchAvisaReady, DispatchLiberaCpu, resto, canal, cpuVars,
                  CaminoIgual
    <2>3. hilo["dispatch"].en \notin Manos("dispatch") /\ hilo'["dispatch"].en \notin Manos("dispatch")
      BY <2>1 DEF Manos
    <2>4. QED  BY <1>0, <1>1, <1>2, <1>3, <2>1, <2>2, <2>3, ManosVacias, CrearIgual DEF Conserva
  <1>6. CASE DispatchLevantaFlag
    <2>1. CaminoIgual /\ UNCHANGED <<cola, estado>>
      BY <1>6 DEF DispatchLevantaFlag, canal, cpuVars, CaminoIgual
    <2>2. \/ hilo["dispatch"].en = "flag" /\ hilo'["dispatch"].en = "post_cpu"
          \/ /\ hilo["dispatch"].en = "atender" /\ hilo'["dispatch"].en = "bloquear"
             /\ hilo'["dispatch"].pcb = hilo["dispatch"].pcb
      BY <1>0, <1>6 DEF DispatchLevantaFlag, En, Ir, Inv, TypeOK, TipoHilo
    <2>3. Lugar'
      <3>1. CASE hilo["dispatch"].en = "flag"
        BY <1>0, <1>1, <1>3, <2>1, <2>2, <3>1, ManosVacias DEF Conserva, Manos
      <3>2. CASE hilo["dispatch"].en = "atender"
        <4>1. /\ hilo["dispatch"].en \in Manos("dispatch") /\ hilo'["dispatch"].en \in Manos("dispatch")
              /\ EstadoDeMano("dispatch", "bloquear") = EstadoDeMano("dispatch", "atender")
          BY <2>2, <3>2 DEF Manos, EstadoDeMano
        <4>2. QED  BY <1>0, <1>1, <1>3, <2>1, <2>2, <3>2, <4>1, ManoFirme DEF Conserva
      <3>3. QED  BY <2>2, <3>1, <3>2
    <2>4. QED  BY <1>0, <1>2, <1>3, <2>1, <2>3, CrearIgual
  <1>7. CASE DispatchDesaloja
    <2>1. hilo["dispatch"].en \in Manos("dispatch") \ {"colgado"} /\ "listar_ready" \notin Manos("dispatch")
      BY <1>7 DEF DispatchDesaloja, En, Manos
    <2>2. CaminoIgual  BY <1>7 DEF DispatchDesaloja, resto, canal, cpuVars, CaminoIgual
    <2>3. QED  BY <1>0, <1>1, <1>2, <1>7, <2>1, <2>2, AgregaSuyo DEF DispatchDesaloja
  <1>8. CASE DispatchBloquea \/ DispatchFinaliza
    <2>1. hilo["dispatch"].en \in Manos("dispatch") \ {"colgado"}
      BY <1>8 DEF DispatchBloquea, DispatchFinaliza, En, Manos
    <2>2. PICK p \in Pids : p = hilo["dispatch"].pcb  BY <1>0, <2>1, EnSuMano
    <2>3. AManoDe("dispatch", p) /\ estado[p] # "SIN_CREAR"  BY <1>0, <2>1, <2>2, EnSuMano
    <2>4. EstadoDeCola("exit") = "TERMINATED" /\ EstadoDeCola("blocked") = "BLOCKED"  BY DEF EstadoDeCola
    <2>5. PICK c \in {"blocked", "exit"} : /\ cola' = [cola EXCEPT ![c] = Append(cola[c], p)]
                                           /\ estado' = [estado EXCEPT ![p] = EstadoDeCola(c)]
      BY <1>8, <2>2, <2>4 DEF DispatchBloquea, DispatchFinaliza, FinalizarPcb
    <2>6. hilo'["dispatch"].en \in {"post_cpu", "encolar_io", "flag"}
      BY <1>0, <1>8, Llega DEF DispatchBloquea, DispatchFinaliza
    <2>7. hilo'["dispatch"].en \notin Manos("dispatch")  BY <2>6 DEF Manos
    <2>8. CaminoIgual  BY <1>8 DEF DispatchBloquea, DispatchFinaliza, canal, cpuVars, CaminoIgual
    <2>9. c \in Colas  BY <1>0
    <2>10. Lugar'  BY <1>0, <1>1, <1>3, <2>3, <2>5, <2>7, <2>8, <2>9, Deja DEF Conserva
    <2>11. \A q \in Pids : q # p => estado'[q] = estado[q]  BY <2>5 DEF Inv, TypeOK, TipoColas
    <2>12. QED  BY <1>0, <1>2, <1>3, <2>3, <2>10, <2>11, CrearIgual
  <1>9. CASE DispatchRecibe
    <2>0. a_kernel # <<>> /\ a_kernel \in Seq(Mensajes)  BY <1>9 DEF DispatchRecibe, Inv, TypeOK, TipoCpu
    <2>1. PICK p \in Pids : p = Head(a_kernel).pid
      <3>1. Head(a_kernel) \in Mensajes  BY <2>0, CabezaTipo
      <3>2. QED  BY <3>1 DEF Mensajes
    <2>2. /\ a_kernel # <<>> /\ a_kernel' = Tail(a_kernel) /\ UNCHANGED <<cola, estado, a_cpu, cpu, flags>>
          /\ hilo["dispatch"].en = "recibir" /\ hilo'["dispatch"].en \in {"detenida", "atender"}
          /\ hilo'["dispatch"].pcb = p
      BY <1>0, <1>9, <2>1 DEF DispatchRecibe, IrCon, Puerta, cpuVars, En, Inv, TypeOK, TipoHilo
    <2>3. Len(a_kernel) = 1 /\ a_cpu = <<>> /\ ~CpuOcupada  BY <2>2, CaminoUnico
    <2>4. Len(a_kernel') = 0 /\ a_kernel[1].pid = p  BY <2>0, <2>1, <2>2, <2>3
    <2>5. \A q \in Pids : ~EnCamino(q)' /\ (EnCamino(q) <=> q = p)
      <3>1. \A q : ~Contains(a_cpu, q)  BY <2>3 DEF Contains
      <3>2. 1 .. Len(a_kernel) = {1} /\ 1 .. Len(a_kernel') = {}  BY <2>3, <2>4
      <3>3. ~CpuOcupada'  BY <2>2, <2>3 DEF CpuOcupada
      <3> HIDE DEF CpuOcupada
      <3>4. QED  BY <2>2, <2>3, <2>4, <3>1, <3>2, <3>3 DEF EnCamino
    <2>6. hilo["dispatch"].en \notin Manos("dispatch") /\ hilo'["dispatch"].en \in Manos("dispatch")
      BY <2>2 DEF Manos
    <2>7. (\A c \in Colas : ~EnCola(c, p)) /\ (\A g \in Hilos : ~EnMano(g, p)) /\ estado[p] = "EXEC"
      BY <2>5 DEF Lugar, Ubicado, Unico, EstadoDonde
    <2>8. \A c \in Colas : ~EnCola(c, p)'  BY <2>2, <2>7 DEF EnCola
    <2>9. \A g \in Hilos : EnMano(g, p)' <=> g = "dispatch"
      BY <1>0, <1>3, <2>2, <2>6, <2>7 DEF EnMano, Manos
    <2>10. estado'[p] = EstadoDeMano("dispatch", hilo'["dispatch"].en)  BY <2>2, <2>7 DEF EstadoDeMano
    <2>11. Ubicado(p)'  BY <1>0, <2>5, <2>8, <2>9, <2>10, UbicadoEnMano
    <2>12. ASSUME NEW q \in Pids \ {p} PROVE Quieto(q)
      <3>1. ~EnMano("dispatch", q) /\ ~EnMano("dispatch", q)'  BY <2>2, <2>6, <2>12 DEF EnMano, Manos
      <3>2. \A d \in Colas : EnCola(d, q)' <=> EnCola(d, q)  BY <2>2 DEF EnCola
      <3>3. (EnCamino(q)' <=> EnCamino(q)) /\ estado'[q] = estado[q]  BY <2>2, <2>5, <2>12
      <3>4. QED  BY <1>0, <1>3, <2>12, <3>1, <3>2, <3>3, NoTocado
    <2>13. SinDobles'  BY <2>2 DEF Lugar, SinDobles
    <2>14. Lugar'  BY <1>1, <2>11, <2>12, <2>13, UnoSolo DEF Conserva
    <2>15. QED  BY <1>0, <1>2, <1>3, <2>2, <2>14, CrearIgual
  <1>10. QED  BY <1>4, <1>5, <1>6, <1>7, <1>8, <1>9 DEF Dispatch, DispatchEncolaIO

\* atender_interfaz takes a process whose I/O ended from BLOCKED to READY or ready_plus.
LEMMA InterfazLugar ==
    ASSUME Inv, PorCrear, Lugar, NEW i \in Interfaces, Interfaz(i) PROVE Lugar' /\ PorCrear'
  <1>0. i \in Hilos /\ i # "dispatch" /\ i # "consola" /\ "consola" \in Hilos /\ "blocked" \in Colas
    BY HilosDistintos DEF HilosKernel, Colas
  <1>1. Conserva  BY HilosConservan
  <1>2. CaminoIgual /\ UNCHANGED contador_pid
    BY DEF Interfaz, InterfazSigue, InterfazConecta, InterfazRegistra, InterfazEsperaInstruccion,
           InterfazEnvia, InterfazResponde, InterfazCierra, InterfazDesbloquea, InterfazAgrega,
           InterfazAvisa, Listar, Reanudar, Caer, kernelVars, control, resto, canal, cpuVars, CaminoIgual
  <1>3. \A g \in Hilos : g # i => hilo'[g] = hilo[g]  BY MarcoInterfaz DEF Marco
  <1>4. CASE Listar(i) \/ Reanudar(i) \/ Caer
    <2>1. UNCHANGED estado  BY <1>4 DEF Listar, Reanudar, Caer
    <2>2. Lugar'  BY <1>0, <1>1, <1>4, ListarLugar, ReanudarLugar, CaerLugar DEF Conserva
    <2>3. QED  BY <1>0, <1>2, <1>3, <2>1, <2>2, CrearIgual
  <1>5. CASE ~Caer /\ \/ InterfazConecta(i) \/ InterfazRegistra(i) \/ InterfazEsperaInstruccion(i)
                       \/ InterfazEnvia(i) \/ InterfazResponde(i) \/ InterfazCierra(i) \/ InterfazAvisa(i)
    <2> DEFINE L == {"sin_conectar", "sin_cola", "sin_semaforos", "instruccion", "binario", "respuesta",
                     "detenida", "resultado", "listando_ready", "listando_plus"}
    <2>1. hilo[i].en \in L /\ hilo'[i].en \in L /\ UNCHANGED <<cola, estado>>
      BY <1>0, <1>5, Llega DEF InterfazConecta, InterfazRegistra, InterfazEsperaInstruccion, InterfazEnvia,
                               InterfazResponde, InterfazCierra, InterfazAvisa, Puerta, En
    <2>2. hilo[i].en \notin Manos(i) /\ hilo'[i].en \notin Manos(i)  BY <1>0, <2>1 DEF Manos
    <2>3. QED  BY <1>0, <1>1, <1>2, <1>3, <2>1, <2>2, ManosVacias, CrearIgual DEF Conserva
  <1>6. CASE InterfazDesbloquea(i) /\ ~Caer
    <2>1. hilo[i].en = "resultado" /\ Contains(cola["blocked"], hilo[i].pcb)
      BY <1>6 DEF InterfazDesbloquea, En
    <2>2. PICK p \in Pids : p = hilo[i].pcb  BY <1>0, <2>1 DEF Inv, ManosLlenas, ConMano
    <2> DEFINE k == Indice(cola["blocked"], p)
    <2>3. cola["blocked"] \in Seq(Pids)  BY <1>0, Naturales
    <2>4. k \in 1 .. Len(cola["blocked"]) /\ cola["blocked"][k] = p  BY <2>1, <2>2, <2>3, IndiceTipo
    <2>5. /\ UNCHANGED estado /\ cola' = [cola EXCEPT !["blocked"] = RemoveAt(cola["blocked"], k)]
          /\ hilo'[i].en \in {"agregar_ready", "agregar_plus"} /\ hilo'[i].pcb = p
      BY <1>0, <1>6, <2>2 DEF InterfazDesbloquea, Ir, Inv, TypeOK, TipoHilo
    <2>6. /\ cola'["blocked"] = RemoveAt(cola["blocked"], k)
          /\ \A d \in Colas : d # "blocked" => cola'[d] = cola[d]
      BY <1>0, <2>5 DEF Inv, TypeOK, TipoColas
    <2> HIDE DEF k
    <2>7. /\ \A q : Contains(cola'["blocked"], q) => Contains(cola["blocked"], q)
          /\ \A q : Contains(cola["blocked"], q) => Contains(cola'["blocked"], q) \/ q = p
          /\ IsInjective(cola["blocked"])
                => IsInjective(cola'["blocked"]) /\ ~Contains(cola'["blocked"], p)
      BY <2>3, <2>4, <2>6, DelMedio
    <2>8. hilo[i].en \notin Manos(i) /\ hilo'[i].en \in Manos(i)  BY <1>0, <2>1, <2>5 DEF Manos
    <2>9. EstadoDeMano(i, hilo'[i].en) = EstadoDeCola("blocked")  BY <2>5 DEF EstadoDeMano, EstadoDeCola
    <2>10. Lugar'
      BY <1>0, <1>1, <1>2, <1>3, <2>1, <2>2, <2>5, <2>6, <2>7, <2>8, <2>9, Toma DEF Conserva
    <2>11. QED  BY <1>0, <1>2, <1>3, <2>5, <2>10, CrearIgual
  <1>7. CASE InterfazAgrega(i)
    <2>1. hilo[i].en \in Manos(i) \ {"colgado"} /\ {"listar_ready", "listar_plus"} \intersect Manos(i) = {}
      BY <1>0, <1>7 DEF InterfazAgrega, En, Manos
    <2>2. QED  BY <1>0, <1>1, <1>2, <1>7, <2>1, AgregaSuyo DEF InterfazAgrega
  <1>8. QED  BY <1>4, <1>5, <1>6, <1>7 DEF Interfaz, InterfazSigue

\* What is on its way when nothing but the CPU, or one message, is.
LEMMA CaminoDe ==
    ASSUME a_cpu = <<>>, NEW q
    PROVE  /\ CpuOcupada /\ a_kernel = <<>> => (EnCamino(q) <=> cpu.pid = q)
           /\ ~CpuOcupada /\ a_kernel = <<>> => ~EnCamino(q)
           /\ ~CpuOcupada /\ Len(a_kernel) = 1 => (EnCamino(q) <=> a_kernel[1].pid = q)
  <1>1. ~Contains(a_cpu, q)  BY DEF Contains
  <1>2. a_kernel = <<>> => 1 .. Len(a_kernel) = {}  OBVIOUS
  <1>3. Len(a_kernel) = 1 => 1 .. Len(a_kernel) = {1}  OBVIOUS
  <1>4. QED  BY <1>1, <1>2, <1>3 DEF EnCamino

\* The same, of the next state.
LEMMA CaminoLuego ==
    ASSUME a_cpu' = <<>>, NEW q
    PROVE  /\ CpuOcupada' /\ a_kernel' = <<>> => (EnCamino(q)' <=> cpu'.pid = q)
           /\ ~CpuOcupada' /\ Len(a_kernel') = 1 => (EnCamino(q)' <=> a_kernel'[1].pid = q)
  <1>1. ~Contains(a_cpu', q)  BY DEF Contains
  <1>2. a_kernel' = <<>> => 1 .. Len(a_kernel') = {}  OBVIOUS
  <1>3. Len(a_kernel') = 1 => 1 .. Len(a_kernel') = {1}  OBVIOUS
  <1>4. QED  BY <1>1, <1>2, <1>3 DEF EnCamino

\* The CPU keeps on its way the process it had there, unless it ran out of memory before.
LEMMA CpuLugar ==
    ASSUME Inv, InvToken, PorCrear, Lugar, CpuDispatch \/ CpuRecibeInterrupcion, UnaRespuesta'
    PROVE  Lugar' /\ PorCrear'
  <1>1. UNCHANGED <<sem, hilo, cola, estado, contador_pid>>
    BY DEF CpuDispatch, CpuRecibePcb, CpuEjecuta, QuedaSinMemoria, CpuChequea, CpuTermina,
           CpuRecibeInterrupcion, kernelVars, control
  <1>2. PorCrear'  BY <1>1 DEF PorCrear, En
  <1>3. UnaRespuesta /\ Tokens \in {0, 1}
    <2>1. "out_of_memory" \in flags => "out_of_memory" \in flags'
      BY DEF CpuDispatch, CpuRecibePcb, CpuEjecuta, QuedaSinMemoria, CpuChequea, CpuTermina,
             CpuRecibeInterrupcion
    <2>2. QED  BY <2>1 DEF UnaRespuesta, InvToken
  <1>4. Tokens' = 1 => Tokens = 1  BY <1>3, CpuTokens
  <1>5. ASSUME NEW q \in Pids, EnCamino(q)' <=> EnCamino(q) PROVE Quieto(q)
    BY <1>1, <1>5 DEF Quieto, EnCola, EnMano
  <1>6. ASSUME \A q \in Pids : EnCamino(q)' <=> EnCamino(q) PROVE Lugar'
    BY <1>1, <1>4, <1>5, <1>6, TodosQuietos
  <1>7. CASE CpuRecibePcb
    <2>1. /\ a_cpu # <<>> /\ a_cpu' = Tail(a_cpu) /\ UNCHANGED a_kernel
          /\ cpu.en = "libre" /\ cpu' = [en |-> "ciclo", pid |-> Head(a_cpu)]
          /\ flags' = flags \ {"input_ouput"}
      BY <1>7 DEF CpuRecibePcb
    <2>2. Len(a_cpu) = 1 /\ a_kernel = <<>> /\ ~CpuOcupada  BY <1>3, <2>1, CaminoUnico
    <2>3. PICK p \in Pids : p = Head(a_cpu)  BY <2>1, CabezaTipo DEF Inv, TypeOK, TipoCpu
    <2>4. a_cpu' = <<>> /\ a_cpu[1] = p /\ Len(a_cpu') = 0
      BY <2>1, <2>2, <2>3 DEF Inv, TypeOK, TipoCpu
    <2>5. \A q \in Pids : EnCamino(q) <=> q = p
      <3>1. 1 .. Len(a_cpu) = {1} /\ 1 .. Len(a_kernel) = {}  BY <2>2
      <3>2. QED  BY <2>2, <2>4, <3>1 DEF EnCamino, Contains
    <2>6. CASE CpuOcupada'
      <3>1. \A q \in Pids : EnCamino(q)' <=> q = p  BY <2>1, <2>2, <2>3, <2>4, <2>6, CaminoLuego
      <3>2. QED  BY <1>2, <1>6, <2>5, <3>1
    <2>7. CASE ~CpuOcupada'
      <3>1. "out_of_memory" \in flags  BY <2>1, <2>7 DEF CpuOcupada, InvToken, FlagsCpu
      <3>2. \A q \in Pids : ~EnCamino(q)'
        <4>1. \A q : ~Contains(a_cpu', q)  BY <2>4 DEF Contains
        <4>2. 1 .. Len(a_kernel') = {}  BY <2>1, <2>2
        <4>3. QED  BY <2>7, <4>1, <4>2 DEF EnCamino
      <3>3. Tokens' # 1
        <4>1. (ConElPlanificador' <=> ConElPlanificador)
                /\ (En("dispatch", "recibir")' <=> En("dispatch", "recibir"))
          BY <1>1 DEF ConElPlanificador, En
        <4>2. Tokens = Tokens' + 1 /\ Tokens' \in Nat
          <5>1. Len(a_kernel) \in Nat /\ sem["cpu_libre"] \in Nat
            BY DEF Inv, TypeOK, TipoCpu, TipoColas, Semaforos
          <5>2. Len(a_cpu) = 1 /\ Len(a_cpu') = 0 /\ UNCHANGED <<sem, a_kernel>>  BY <1>1, <2>1, <2>2, <2>4
          <5>3. ~CpuOcupada /\ ~CpuOcupada'  BY <2>2, <2>7
          <5>4. QED  BY <4>1, <5>1, <5>2, <5>3 DEF Tokens, B
        <4>3. Tokens \in {0, 1}  BY <1>3
        <4>4. \A n \in Nat : n + 1 \in {0, 1} => n # 1  OBVIOUS
        <4>5. QED  BY <4>2, <4>3, <4>4
      <3>4. \A c \in Colas : ~EnCola(c, p)'  BY <1>1, <2>5 DEF Lugar, Ubicado, Unico, EnCola
      <3>5. \A g \in Hilos : ~EnMano(g, p)'
        <4>1. \A g \in Hilos : ~EnMano(g, p)  BY <2>5 DEF Lugar, Ubicado, Unico
        <4>2. QED  BY <1>1, <4>1 DEF EnMano
      <3>6. Ubicado(p)'  BY <3>2, <3>3, <3>4, <3>5, UbicadoEnNada
      <3>7. \A q \in Pids \ {p} : Quieto(q)  BY <1>5, <2>5, <3>2
      <3>8. SinDobles'  BY <1>1 DEF Lugar, SinDobles
      <3>9. QED  BY <1>2, <1>4, <3>6, <3>7, <3>8, UnoSolo
    <2>8. QED  BY <2>6, <2>7
  <1>8. CASE CpuEjecuta
    <2>1. /\ CpuOcupada /\ UNCHANGED a_cpu /\ cpu'.pid = cpu.pid
          /\ \/ UNCHANGED a_kernel /\ CpuOcupada'
             \/ ~CpuOcupada' /\ \E m, i : Enviar(m, cpu.pid, i)
      BY <1>8 DEF CpuEjecuta, QuedaSinMemoria, CpuOcupada
    <2>2. a_cpu = <<>> /\ a_kernel = <<>>  BY <1>3, <2>1, CaminoUnico
    <2>3. \A q \in Pids : EnCamino(q) <=> cpu.pid = q  BY <2>1, <2>2, CaminoDe
    <2>4. \A q \in Pids : EnCamino(q)' <=> cpu.pid = q
      <3>1. CASE UNCHANGED a_kernel /\ CpuOcupada'  BY <2>1, <2>2, <3>1, CaminoLuego
      <3>2. CASE ~CpuOcupada' /\ \E m, i : Enviar(m, cpu.pid, i)
        <4>1. Len(a_kernel') = 1 /\ a_kernel'[1].pid = cpu.pid  BY <2>2, <3>2 DEF Enviar
        <4>2. QED  BY <2>1, <2>2, <3>2, <4>1, CaminoLuego
      <3>3. QED  BY <2>1, <3>1, <3>2
    <2>5. QED  BY <1>2, <1>6, <2>3, <2>4
  <1>9. CASE CpuTermina
    <2>1. UNCHANGED a_cpu /\ ~CpuOcupada'  BY <1>9 DEF CpuTermina, CpuOcupada
    <2>2. CASE CpuOcupada
      <3>1. a_cpu = <<>> /\ a_kernel = <<>>  BY <1>3, <2>2, CaminoUnico
      <3>2. \E m : Enviar(m, cpu.pid, SinInterfaz)
        BY <1>9, <2>2 DEF CpuTermina, CpuOcupada, Inv, TypeOK, TipoCpu
      <3>3. Len(a_kernel') = 1 /\ a_kernel'[1].pid = cpu.pid  BY <3>1, <3>2 DEF Enviar
      <3>4. \A q \in Pids : EnCamino(q)' <=> EnCamino(q)
        BY <2>1, <2>2, <3>1, <3>3, CaminoDe, CaminoLuego
      <3>5. QED  BY <1>2, <1>6, <3>4
    <2>3. CASE ~CpuOcupada
      <3>1. UNCHANGED a_kernel
        <4>1. CASE "out_of_memory" \in flags
          <5>1. flags = {"out_of_memory"}  BY <1>3, <4>1 DEF UnaRespuesta, InvToken, SinReloj
          <5>2. QED  BY <1>9, <5>1 DEF CpuTermina
        <4>2. CASE "out_of_memory" \notin flags
          <5>1. "input_ouput" \in flags /\ "process_finished" \notin flags
            BY <1>9, <2>3, <4>2 DEF CpuTermina, CpuOcupada, InvToken, FlagsCpu
          <5>2. QED  BY <1>9, <5>1 DEF CpuTermina
        <4>3. QED  BY <4>1, <4>2
      <3>2. \A q \in Pids : EnCamino(q)' <=> EnCamino(q)  BY <2>1, <2>3, <3>1 DEF EnCamino
      <3>3. QED  BY <1>2, <1>6, <3>2
    <2>4. QED  BY <2>2, <2>3
  <1>10. CASE CpuChequea \/ CpuRecibeInterrupcion
    <2>1. UNCHANGED <<a_cpu, a_kernel>> /\ cpu'.pid = cpu.pid /\ (CpuOcupada' <=> CpuOcupada)
      BY <1>10 DEF CpuChequea, CpuRecibeInterrupcion, canal, CpuOcupada
    <2>2. \A q \in Pids : EnCamino(q)' <=> EnCamino(q)  BY <2>1 DEF EnCamino
    <2>3. QED  BY <1>2, <1>6, <2>2
  <1>11. QED  BY <1>7, <1>8, <1>9, <1>10 DEF CpuDispatch

\* Every step leaves each process in one place, the one that its estado_actual says.
LEMMA NextLugares == ASSUME Inv, InvToken, InvLugares, [Next]_vars PROVE InvLugares'
  <1> SUFFICES ASSUME UnaRespuesta' PROVE PorCrear' /\ Lugar'  BY DEF InvLugares
  <1>1. UnaRespuesta  BY FlagParaSiempre DEF UnaRespuesta
  <1>2. PorCrear /\ Lugar /\ Tokens \in {0, 1}  BY <1>1 DEF InvLugares, InvToken
  <1>3. CASE UNCHANGED vars
    <2>1. UNCHANGED <<sem, hilo, cola, estado, contador_pid, a_cpu, a_kernel, cpu, flags>>
      BY <1>3 DEF vars, kernelVars, cpuVars, canal, control
    <2>2. PorCrear'  BY <1>2, <2>1 DEF PorCrear, En
    <2>3. Tokens' = Tokens  BY <2>1, SinMover DEF Conserva
    <2>4. \A q \in Pids : Quieto(q)  BY <2>1 DEF Quieto, EnCola, EnMano, EnCamino, CpuOcupada
    <2>5. QED  BY <1>2, <2>1, <2>2, <2>3, <2>4, TodosQuietos
  <1>4. CASE CpuDispatch \/ CpuRecibeInterrupcion  BY <1>2, <1>4, CpuLugar
  <1>5. CASE Next /\ ~(CpuDispatch \/ CpuRecibeInterrupcion)
    BY <1>2, <1>5, ConsolaLugar, CreacionLugar, EliminacionLugar, CortoLugar, QuantumLugar,
       DispatchLugar, InterfazLugar DEF Next
  <1>6. QED  BY <1>3, <1>4, <1>5

\* At first nobody has been created.
LEMMA InitLugares == Init => InvLugares
  <1> SUFFICES ASSUME Init PROVE PorCrear /\ Lugar  BY DEF InvLugares
  <1>1. PorCrear  BY DEF Init, PorCrear
  <1>2. \A c \in Colas : cola[c] = <<>>  BY DEF Init
  <1>3. SinDobles  BY <1>2 DEF SinDobles, IsInjective
  <1>4. \A p \in Pids, c \in Colas : ~EnCola(c, p)  BY <1>2 DEF EnCola, Contains
  <1>5. \A p \in Pids, h \in Hilos : ~EnMano(h, p)
    BY ConstantesOK DEF Init, EnMano, Pids, Nadie
  <1>6. \A p \in Pids : ~EnCamino(p)
    BY ConstantesOK DEF Init, EnCamino, CpuOcupada, Contains
  <1>7. \A p \in Pids : estado[p] = "SIN_CREAR"  BY DEF Init
  <1>8. \A p \in Pids : Ubicado(p)
    BY <1>4, <1>5, <1>6, <1>7 DEF Ubicado, Unico, EstadoDonde, Hallable
  <1>9. QED  BY <1>1, <1>3, <1>8 DEF Lugar

\* The invariants of the scheduling core together.
LEMMA InvLugaresSiempre == Spec => []InvLugares
  <1>1. QED  BY InvSiempre, InvTokenSiempre, InitLugares, NextLugares, PTL DEF Spec

\* What Lugares has.
LEMMA LugaresDe ==
    ASSUME NEW p \in Pids, NEW x
    PROVE  x \in Lugares(p) <=>
             \/ \E c \in Colas : \E k \in 1 .. Len(cola[c]) : cola[c][k] = p /\ x = <<c, k>>
             \/ \E k \in 1 .. Len(a_cpu) : a_cpu[k] = p /\ x = <<"a_cpu", k>>
             \/ \E k \in 1 .. Len(a_kernel) : a_kernel[k].pid = p /\ x = <<"a_kernel", k>>
             \/ \E h \in Hilos : EnMano(h, p) /\ x = <<h, 0>>
             \/ CpuOcupada /\ cpu.pid = p /\ x = <<"cpu", 0>>
  <1> DEFINE EnColas == UNION {{<<c, k>> : k \in Posiciones(cola[c], p)} : c \in Colas}
             HaciaCpu == {<<"a_cpu", k>> : k \in Posiciones(a_cpu, p)}
             HaciaKernel == {<<"a_kernel", k>> : k \in {j \in 1 .. Len(a_kernel) : a_kernel[j].pid = p}}
             EnManos == {<<h, 0>> : h \in {g \in Hilos : EnMano(g, p)}}
             EnCpu == IF CpuOcupada /\ cpu.pid = p THEN {<<"cpu", 0>>} ELSE {}
  <1>1. x \in EnColas <=> \E c \in Colas : \E k \in 1 .. Len(cola[c]) : cola[c][k] = p /\ x = <<c, k>>
    BY DEF Posiciones
  <1>2. x \in HaciaCpu <=> \E k \in 1 .. Len(a_cpu) : a_cpu[k] = p /\ x = <<"a_cpu", k>>
    BY DEF Posiciones
  <1>3. x \in HaciaKernel <=> \E k \in 1 .. Len(a_kernel) : a_kernel[k].pid = p /\ x = <<"a_kernel", k>>
    OBVIOUS
  <1>4. x \in EnManos <=> \E h \in Hilos : EnMano(h, p) /\ x = <<h, 0>>
    OBVIOUS
  <1>5. x \in EnCpu <=> CpuOcupada /\ cpu.pid = p /\ x = <<"cpu", 0>>
    OBVIOUS
  <1>6. Lugares(p) = EnColas \union HaciaCpu \union HaciaKernel \union EnManos \union EnCpu
    BY DEF Lugares
  <1> HIDE DEF EnColas, HaciaCpu, HaciaKernel, EnManos, EnCpu
  <1>7. QED  BY <1>1, <1>2, <1>3, <1>4, <1>5, <1>6

\* A process that is somewhere has a place.
LEMMA HayLugar ==
    ASSUME NEW p \in Pids,
           (\E c \in Colas : EnCola(c, p)) \/ (\E h \in Hilos : EnMano(h, p)) \/ EnCamino(p)
    PROVE  Lugares(p) # {}
  <1>1. CASE \E c \in Colas : EnCola(c, p)
    <2>0. PICK c \in Colas : EnCola(c, p)  BY <1>1
    <2>1. PICK k \in 1 .. Len(cola[c]) : cola[c][k] = p  BY <2>0 DEF EnCola, Contains
    <2>2. <<c, k>> \in Lugares(p)  BY <2>1, LugaresDe
    <2>3. QED  BY <2>2
  <1>2. CASE \E h \in Hilos : EnMano(h, p)
    <2>1. PICK h \in Hilos : EnMano(h, p)  BY <1>2
    <2>2. <<h, 0>> \in Lugares(p)  BY <2>1, LugaresDe
    <2>3. QED  BY <2>2
  <1>3. CASE EnCamino(p)
    <2>1. CASE \E k \in 1 .. Len(a_cpu) : a_cpu[k] = p
      <3>1. PICK k \in 1 .. Len(a_cpu) : a_cpu[k] = p  BY <2>1
      <3>2. <<"a_cpu", k>> \in Lugares(p)  BY <3>1, LugaresDe
      <3>3. QED  BY <3>2
    <2>2. CASE \E k \in 1 .. Len(a_kernel) : a_kernel[k].pid = p
      <3>1. PICK k \in 1 .. Len(a_kernel) : a_kernel[k].pid = p  BY <2>2
      <3>2. <<"a_kernel", k>> \in Lugares(p)  BY <3>1, LugaresDe
      <3>3. QED  BY <3>2
    <2>3. CASE CpuOcupada /\ cpu.pid = p
      <3>1. <<"cpu", 0>> \in Lugares(p)  BY <2>3, LugaresDe
      <3>2. QED  BY <3>1
    <2>4. QED  BY <1>3, <2>1, <2>2, <2>3 DEF EnCamino, Contains
  <1>4. QED  BY <1>1, <1>2, <1>3

\* A process that is in one place has at most one.
LEMMA LugarUnico ==
    ASSUME Inv, Lugar, Tokens \in {0, 1}, NEW p \in Pids,
           NEW x \in Lugares(p), NEW y \in Lugares(p)
    PROVE  x = y
  <1>0. Unico(p)  BY DEF Lugar, Ubicado
  <1>1. CASE \E c \in Colas : EnCola(c, p)
    <2>1. PICK c \in Colas : EnCola(c, p)  BY <1>1
    <2>2. /\ \A d \in Colas : EnCola(d, p) => d = c
          /\ \A h \in Hilos : ~EnMano(h, p)
          /\ ~EnCamino(p)
      BY <1>0, <2>1 DEF Unico
    <2>3. ASSUME NEW z \in Lugares(p) PROVE \E k \in 1 .. Len(cola[c]) : cola[c][k] = p /\ z = <<c, k>>
      BY <2>2, LugaresDe DEF EnCola, EnCamino, Contains
    <2>4. DOMAIN cola[c] = 1 .. Len(cola[c])  BY DEF Inv, TypeOK, TipoColas
    <2>5. \A j, k \in 1 .. Len(cola[c]) : cola[c][j] = cola[c][k] => j = k
      BY <2>4 DEF Lugar, SinDobles, IsInjective
    <2>6. QED  BY <2>3, <2>5
  <1>2. CASE \E h \in Hilos : EnMano(h, p)
    <2>1. PICK h \in Hilos : EnMano(h, p)  BY <1>2
    <2>2. /\ \A c \in Colas : ~EnCola(c, p)
          /\ \A g \in Hilos : EnMano(g, p) => g = h
          /\ ~EnCamino(p)
      BY <1>0, <2>1 DEF Unico
    <2>3. ASSUME NEW z \in Lugares(p) PROVE z = <<h, 0>>
      BY <2>2, LugaresDe DEF EnCola, EnCamino, Contains
    <2>4. QED  BY <2>3
  <1>3. CASE (\A c \in Colas : ~EnCola(c, p)) /\ (\A h \in Hilos : ~EnMano(h, p))
    <2>1. ASSUME NEW z \in Lugares(p)
          PROVE  \/ a_cpu # <<>> /\ z = <<"a_cpu", 1>>
                 \/ a_kernel # <<>> /\ z = <<"a_kernel", 1>>
                 \/ CpuOcupada /\ z = <<"cpu", 0>>
      <3>1. CASE \E k \in 1 .. Len(a_cpu) : a_cpu[k] = p /\ z = <<"a_cpu", k>>
        <4>1. a_cpu # <<>>
          <5>1. 1 .. Len(<<>>) = {}  OBVIOUS
          <5>2. QED  BY <3>1, <5>1
        <4>2. Len(a_cpu) = 1  BY <4>1, CaminoUnico
        <4>3. QED  BY <3>1, <4>1, <4>2
      <3>2. CASE \E k \in 1 .. Len(a_kernel) : a_kernel[k].pid = p /\ z = <<"a_kernel", k>>
        <4>1. a_kernel # <<>>
          <5>1. 1 .. Len(<<>>) = {}  OBVIOUS
          <5>2. QED  BY <3>2, <5>1
        <4>2. Len(a_kernel) = 1  BY <4>1, CaminoUnico
        <4>3. QED  BY <3>2, <4>1, <4>2
      <3>3. CASE CpuOcupada /\ z = <<"cpu", 0>>  BY <3>3
      <3>4. QED  BY <1>3, <2>1, <3>1, <3>2, <3>3, LugaresDe DEF EnCola, Contains
    <2>2. QED  BY <2>1, CaminoUnico
  <1>4. QED  BY <1>1, <1>2, <1>3

\* While the CPU answers once, no process is in two places, and none that has been created
\* and not destroyed is lost until the first OUT_OF_MEMORY: for every workload, algorithm
\* and interleaving of the threads of kernel and CPU.
THEOREM UnSoloLugarSiempre == Spec => []UnSoloLugar
  <1>1. ASSUME Inv, InvToken, InvLugares PROVE UnSoloLugar
    <2> SUFFICES ASSUME NEW p \in Pids
                 PROVE  /\ UnaRespuesta => Cardinality(Lugares(p)) <= 1
                        /\ estado[p] \notin {"SIN_CREAR", "DESTRUIDO"} /\ "out_of_memory" \notin flags
                             => Lugares(p) # {}
      BY DEF UnSoloLugar
    <2>1. ASSUME UnaRespuesta PROVE Cardinality(Lugares(p)) <= 1
      <3>1. Lugar /\ Tokens \in {0, 1}  BY <1>1, <2>1 DEF InvLugares, InvToken
      <3>2. CASE Lugares(p) = {}  BY <3>2, FS_EmptySet
      <3>3. CASE Lugares(p) # {}
        <4>1. PICK x : x \in Lugares(p)  BY <3>3
        <4>2. Lugares(p) = {x}  BY <1>1, <3>1, <4>1, LugarUnico
        <4>3. QED  BY <4>2, FS_Singleton
      <3>4. QED  BY <3>2, <3>3
    <2>2. ASSUME estado[p] \notin {"SIN_CREAR", "DESTRUIDO"}, "out_of_memory" \notin flags
          PROVE  Lugares(p) # {}
      <3>1. UnaRespuesta /\ Tokens = 1  BY <1>1, <2>2 DEF UnaRespuesta, InvToken, TokenCpu, Tokens
      <3>2. Hallable(p)  BY <1>1, <3>1 DEF InvLugares, Lugar, Ubicado
      <3>3. QED  BY <2>2, <3>1, <3>2, HayLugar DEF Hallable
    <2>3. QED  BY <2>1, <2>2
  <1>2. QED  BY <1>1, InvSiempre, InvTokenSiempre, InvLugaresSiempre, PTL

-----------------------------------------------------------------------------
(* The I/O of a blocked process *)

\* The way of an I/O: recibir_dispatch is about to queue it, it waits in the queue of an
\* interface, the interface is at work on it.
PorEncolar(p) == En("dispatch", "encolar_io") /\ hilo["dispatch"].pcb = p
EnColaIO(i, p) == Contains(cola_io[i], p)
EnInterfaz(i, p) == hilo[i].pcb = p /\ hilo[i].en \in {"respuesta", "detenida", "resultado"}

UnaIO(p) ==
    /\ \A i, j \in Interfaces : EnColaIO(i, p) /\ EnColaIO(j, p) => i = j
    /\ \A i, j \in Interfaces : EnInterfaz(i, p) /\ EnInterfaz(j, p) => i = j
    /\ \A i, j \in Interfaces : ~(EnColaIO(i, p) /\ EnInterfaz(j, p))
    /\ PorEncolar(p) => \A i \in Interfaces : ~EnColaIO(i, p) /\ ~EnInterfaz(i, p)
    /\ PorEncolar(p) \/ (\E i \in Interfaces : EnColaIO(i, p) \/ EnInterfaz(i, p))
         => EnCola("blocked", p)

\* Once the CPU has run out of memory it asks for no more I/O, and the kernel has attended
\* to all that it had asked for.
SinMasIO ==
    "out_of_memory" \in flags =>
        /\ \A k \in 1 .. Len(a_kernel) : a_kernel[k].motivo # "OPERACION_IO"
        /\ hilo["dispatch"].en \notin {"bloquear", "encolar_io"}
        /\ hilo["dispatch"].en \in {"atender", "detenida"} => mensaje.motivo # "OPERACION_IO"

InvIO ==
    /\ SinMasIO
    /\ \A i \in Interfaces : IsInjective(cola_io[i])
    /\ \A p \in Pids : UnaIO(p)

-----------------------------------------------------------------------------
(* After the first OUT_OF_MEMORY *)

\* The threads other than recibir_dispatch send and attend to nothing.
LEMMA MensajesAjenos ==
    ASSUME Inv, SinMasIO, "out_of_memory" \in flags, UNCHANGED <<mensaje, a_kernel>>,
           hilo'["dispatch"] = hilo["dispatch"]
    PROVE  SinMasIO'
  BY DEF SinMasIO

\* What the threads of the kernel other than recibir_dispatch leave alone.
LEMMA OtrosHilos ==
    ASSUME Inv, Consola \/ Creacion \/ Eliminacion \/ Corto \/ Quantum
    PROVE  /\ UNCHANGED <<mensaje, a_kernel, cola_io>> /\ hilo'["dispatch"] = hilo["dispatch"]
           /\ \A i \in Interfaces : hilo'[i] = hilo[i]
           /\ cola'["blocked"] = cola["blocked"]
  <1>0. /\ "dispatch" \in Hilos /\ \A i \in Interfaces : i \in Hilos /\ i \notin HilosKernel
        /\ "blocked" \in Colas
    BY HilosDistintos DEF HilosKernel, Colas
  <1>1. PICK h \in {"consola", "creacion", "eliminacion", "corto", "quantum"} :
            \E S, C : Marco(h, S, C) /\ "blocked" \notin C
    <2>1. CASE Consola  BY <2>1, MarcoConsola
    <2>2. CASE Creacion  BY <2>2, MarcoCreacion
    <2>3. CASE Eliminacion  BY <2>3, MarcoEliminacion
    <2>4. CASE Corto  BY <2>4, MarcoCorto
    <2>5. CASE Quantum  BY <2>5, MarcoQuantum
    <2>6. QED  BY <2>1, <2>2, <2>3, <2>4, <2>5
  <1>2. /\ hilo'["dispatch"] = hilo["dispatch"] /\ \A i \in Interfaces : hilo'[i] = hilo[i]
        /\ cola'["blocked"] = cola["blocked"]
    BY <1>0, <1>1 DEF Marco, HilosKernel
  <1>3. UNCHANGED <<mensaje, a_kernel, cola_io>>
    <2>1. CASE Consola \/ Creacion \/ Eliminacion
      BY <2>1
      DEF Consola, ConsolaSigue, IniciarProceso, AvisarNuevo, RegistrarProceso, DetenerPlanificacion,
          IniciarPlanificacion, Creacion, CreacionEsperaNuevo, CreacionEsperaGrado, CreacionPopNew,
          CreacionAgrega, CreacionAvisa, Eliminacion, EliminacionEsperaExit, EliminacionPopExit,
          EliminacionDestruye, Listar, Reanudar, Caer, kernelVars, resto, io, canal
    <2>2. CASE Corto \/ Quantum
      BY <2>2
      DEF Corto, CortoEsperaReady, CortoEsperaCpu, CortoElige, CortoMiraPlus, CortoTomaMutex, CortoPop,
          CortoSetea, CortoEnvia, CortoArrancaQuantum, Quantum, QuantumEspera, QuantumBajaFlag,
          QuantumCpuLiberada, QuantumVence, Reanudar, Caer, kernelVars, resto, io, canal
    <2>3. QED  BY <2>1, <2>2
  <1>4. QED  BY <1>2, <1>3

\* After OUT_OF_MEMORY recibir_dispatch finds no OPERACION_IO in its socket.
LEMMA DispatchSinMas ==
    ASSUME Inv, SinMasIO, "out_of_memory" \in flags, Dispatch PROVE SinMasIO'
  <1>0. "dispatch" \in Hilos /\ TrasLaPuerta("dispatch") = "atender"
    BY HilosDistintos DEF HilosKernel, TrasLaPuerta
  <1> DEFINE d == hilo["dispatch"].en
  <1>1. CASE DispatchRecibe
    <2>1. /\ a_kernel # <<>> /\ a_kernel' = Tail(a_kernel) /\ mensaje' = Head(a_kernel)
          /\ hilo'["dispatch"].en \in {"detenida", "atender"}
      BY <1>0, <1>1, Llega DEF DispatchRecibe, Puerta
    <2>2. a_kernel \in Seq(Mensajes)  BY DEF Inv, TypeOK, TipoCpu
    <2>3. mensaje'.motivo # "OPERACION_IO"
      <3>1. 1 \in 1 .. Len(a_kernel) /\ Head(a_kernel) = a_kernel[1]  BY <2>1, <2>2
      <3>2. QED  BY <2>1, <3>1 DEF SinMasIO
    <2>4. \A k \in 1 .. Len(a_kernel') : a_kernel'[k].motivo # "OPERACION_IO"
      <3>1. \A k \in 1 .. Len(a_kernel') : k + 1 \in 1 .. Len(a_kernel) /\ a_kernel'[k] = a_kernel[k + 1]
        BY <2>1, <2>2
      <3>2. QED  BY <3>1 DEF SinMasIO
    <2>5. QED  BY <2>1, <2>3, <2>4 DEF SinMasIO
  <1>2. CASE ~DispatchRecibe
    <2>1. UNCHANGED <<mensaje, a_kernel>>
      BY <1>2 DEF Dispatch, DispatchLevantaFlag, DispatchBloquea, DispatchEncolaIO, DispatchDesaloja,
                  DispatchAvisaReady, DispatchFinaliza, DispatchLiberaCpu, Listar, Reanudar, Caer,
                  kernelVars, resto, canal
    <2>2. CASE Caer  BY <2>1, <2>2, MensajesAjenos DEF Caer, kernelVars
    <2>3. CASE ~Caer
      <3>1. \/ hilo'["dispatch"].en \in {"listar_ready", "listando_ready", "listando_plus", "colgado",
                                         "flag", "post_cpu", "recibir"}
            \/ hilo'["dispatch"].en = "atender" /\ d = "detenida"
        <4>1. CASE DispatchLevantaFlag \/ DispatchBloquea \/ DispatchEncolaIO
          BY <1>0, <2>3, <4>1, Llega DEF DispatchLevantaFlag, DispatchBloquea, DispatchEncolaIO, SinMasIO, En
        <4>2. CASE DispatchDesaloja \/ DispatchAvisaReady \/ DispatchFinaliza \/ DispatchLiberaCpu
          BY <1>0, <4>2, Llega DEF DispatchDesaloja, DispatchAvisaReady, DispatchFinaliza,
                                   DispatchLiberaCpu, set_add_pcb_cola
        <4>3. CASE Listar("dispatch") \/ Reanudar("dispatch")
          BY <1>0, <4>3, Llega DEF Listar, Reanudar, En
        <4>4. QED  BY <1>2, <4>1, <4>2, <4>3 DEF Dispatch
      <3>2. QED  BY <2>1, <3>1 DEF SinMasIO
    <2>4. QED  BY <2>2, <2>3
  <1>3. QED  BY <1>1, <1>2

\* The CPU only says END_PROCESS and FIN_CLOCK once it has run out of memory.
LEMMA CpuSinMas ==
    ASSUME Inv, InvToken, SinMasIO, CpuDispatch \/ CpuRecibeInterrupcion PROVE SinMasIO'
  <1> SUFFICES ASSUME "out_of_memory" \in flags' PROVE SinMasIO'  BY DEF SinMasIO
  <1>0. UNCHANGED <<hilo, mensaje>>
    BY DEF CpuDispatch, CpuRecibePcb, CpuEjecuta, QuedaSinMemoria, CpuChequea, CpuTermina,
           CpuRecibeInterrupcion, kernelVars
  <1>1. CASE "out_of_memory" \in flags
    <2>1. CASE CpuTermina
      <3>1. interrupcion_recibida.motivo = "FIN_CLOCK"
        BY DEF Inv, TypeOK, TipoCpu, Interrupciones
      <3>2. \/ UNCHANGED a_kernel
            \/ \E m \in {"END_PROCESS", "FIN_CLOCK"} : Enviar(m, cpu.pid, SinInterfaz)
        BY <2>1, <3>1 DEF CpuTermina
      <3>3. \A k \in 1 .. Len(a_kernel') : a_kernel'[k].motivo # "OPERACION_IO"
        <4>1. CASE UNCHANGED a_kernel  BY <1>1, <4>1 DEF SinMasIO
        <4>2. CASE \E m \in {"END_PROCESS", "FIN_CLOCK"} : Enviar(m, cpu.pid, SinInterfaz)
          <5>1. PICK m \in {"END_PROCESS", "FIN_CLOCK"} :
                    a_kernel' = Append(a_kernel, [motivo |-> m, pid |-> cpu.pid, interfaz |-> SinInterfaz])
            BY <4>2 DEF Enviar
          <5>2. a_kernel \in Seq(Mensajes)  BY DEF Inv, TypeOK, TipoCpu
          <5>3. ASSUME NEW k \in 1 .. Len(a_kernel')
                PROVE  a_kernel'[k] = (IF k \in 1 .. Len(a_kernel) THEN a_kernel[k]
                            ELSE [motivo |-> m, pid |-> cpu.pid, interfaz |-> SinInterfaz])
            BY <5>1, <5>2
          <5>4. QED  BY <1>1, <5>3 DEF SinMasIO
        <4>3. QED  BY <3>2, <4>1, <4>2
      <3>4. QED  BY <1>0, <1>1, <3>3 DEF SinMasIO
    <2>2. CASE ~CpuTermina
      <3>1. UNCHANGED a_kernel
        BY <1>1, <2>2 DEF CpuDispatch, CpuRecibePcb, CpuEjecuta, CpuChequea, CpuRecibeInterrupcion, canal
      <3>2. QED  BY <1>0, <1>1, <3>1, MensajesAjenos
    <2>3. QED  BY <2>1, <2>2
  <1>2. CASE "out_of_memory" \notin flags
    <2>1. CpuEjecuta /\ QuedaSinMemoria
      BY <1>2 DEF CpuDispatch, CpuRecibePcb, CpuEjecuta, QuedaSinMemoria, CpuChequea, CpuTermina,
                  CpuRecibeInterrupcion
    <2>2. CpuOcupada  BY <2>1 DEF CpuEjecuta, CpuOcupada
    <2>3. Tokens \in {0, 1}  BY <1>2 DEF InvToken, UnaRespuesta
    <2>4. a_kernel = <<>> /\ hilo["dispatch"].en = "recibir"  BY <2>2, <2>3, CaminoUnico DEF En
    <2>5. Len(a_kernel') = 1 /\ a_kernel'[1].motivo = "OUT_OF_MEMORY"
      BY <2>1, <2>4 DEF QuedaSinMemoria, Enviar
    <2>6. 1 .. Len(a_kernel') = {1}  BY <2>5
    <2>7. QED  BY <1>0, <2>4, <2>5, <2>6 DEF SinMasIO
  <1>3. QED  BY <1>1, <1>2

\* Every step.
LEMMA SinMasPaso == ASSUME Inv, InvToken, SinMasIO, [Next]_vars PROVE SinMasIO'
  <1>1. CASE CpuDispatch \/ CpuRecibeInterrupcion  BY <1>1, CpuSinMas
  <1>2. CASE UNCHANGED vars
    BY <1>2 DEF vars, kernelVars, cpuVars, canal, SinMasIO
  <1>3. CASE Next /\ ~(CpuDispatch \/ CpuRecibeInterrupcion)
    <2>1. flags' = flags  BY <1>3, HilosConservan DEF Next, Conserva
    <2>2. CASE "out_of_memory" \notin flags  BY <2>1, <2>2 DEF SinMasIO
    <2>3. CASE "out_of_memory" \in flags
      <3>1. ASSUME NEW i \in Interfaces, Interfaz(i) PROVE SinMasIO'
        <4>1. hilo'["dispatch"] = hilo["dispatch"]
          BY <3>1, MarcoInterfaz, HilosDistintos DEF Marco, HilosKernel
        <4>2. UNCHANGED <<mensaje, a_kernel>>
          BY <3>1
          DEF Interfaz, InterfazSigue, InterfazConecta, InterfazRegistra, InterfazEsperaInstruccion,
              InterfazEnvia, InterfazResponde, InterfazCierra, InterfazDesbloquea, InterfazAgrega,
              InterfazAvisa, Listar, Reanudar, Caer, kernelVars, resto, canal
        <4>3. QED  BY <2>3, <4>1, <4>2, MensajesAjenos
      <3>2. CASE Dispatch  BY <2>3, <3>2, DispatchSinMas
      <3>3. CASE Consola \/ Creacion \/ Eliminacion \/ Corto \/ Quantum
        BY <2>3, <3>3, OtrosHilos, MensajesAjenos
      <3>4. QED  BY <1>3, <3>1, <3>2, <3>3 DEF Next
    <2>4. QED  BY <2>2, <2>3
  <1>4. QED  BY <1>1, <1>2, <1>3

-----------------------------------------------------------------------------
(* One I/O for each blocked process *)

\* A step that gives p no I/O, and leaves it in lista_procesos_blocked if it was there.
NadaNuevo(p) ==
    /\ PorEncolar(p)' => PorEncolar(p)
    /\ \A i \in Interfaces : EnColaIO(i, p)' => EnColaIO(i, p)
    /\ \A i \in Interfaces : EnInterfaz(i, p)' => EnInterfaz(i, p)
    /\ EnCola("blocked", p) => EnCola("blocked", p)'

\* What the step leaves true of the process.
LEMMA SigueUnaIO == ASSUME NEW p \in Pids, UnaIO(p), NadaNuevo(p) PROVE UnaIO(p)'
  BY DEF UnaIO, NadaNuevo

\* The process whose I/O ends: it has none left.
LEMMA SinIO ==
    ASSUME NEW p \in Pids, ~PorEncolar(p)',
           \A i \in Interfaces : ~EnColaIO(i, p)' /\ ~EnInterfaz(i, p)'
    PROVE  UnaIO(p)'
  BY DEF UnaIO

\* bloquear_pcb, and the I/O queued on its interface.
LEMMA DispatchIO ==
    ASSUME Inv, InvLugares, InvIO, Dispatch
    PROVE  (\A i \in Interfaces : IsInjective(cola_io'[i])) /\ \A p \in Pids : UnaIO(p)'
  <1>0. /\ "dispatch" \in Hilos /\ \A i \in Interfaces : i \in Hilos /\ i # "dispatch"
        /\ {"blocked", "exit", "ready"} \subseteq Colas /\ TrasLaPuerta("dispatch") = "atender"
    BY HilosDistintos DEF HilosKernel, Colas, TrasLaPuerta
  <1>2. \A q \in Pids, i \in Interfaces : EnInterfaz(i, q)' <=> EnInterfaz(i, q)
    BY <1>0, MarcoDispatch DEF Marco, EnInterfaz
  <1>3. CASE DispatchBloquea
    <2>1. hilo["dispatch"].en = "bloquear" /\ UNCHANGED cola_io  BY <1>3 DEF DispatchBloquea, En, io
    <2>2. UnaRespuesta  BY <2>1 DEF InvIO, SinMasIO, UnaRespuesta
    <2>3. hilo["dispatch"].en \in Manos("dispatch") \ {"colgado"}  BY <2>1 DEF Manos
    <2>4. PICK p \in Pids : p = hilo["dispatch"].pcb /\ ~EnCola("blocked", p)
      BY <1>0, <2>2, <2>3, EnSuMano DEF InvLugares, AManoDe
    <2>5. /\ ~PorEncolar(p)
          /\ \A i \in Interfaces : ~EnColaIO(i, p) /\ ~EnInterfaz(i, p)
      <3>1. EnCola("blocked", p) \/ (~PorEncolar(p) /\ \A i \in Interfaces : ~EnColaIO(i, p) /\ ~EnInterfaz(i, p))
        BY DEF InvIO, UnaIO
      <3>2. QED  BY <2>4, <3>1
    <2>6. /\ \/ cola'["blocked"] = cola["blocked"] /\ hilo'["dispatch"].en = "post_cpu"
             \/ cola'["blocked"] = Append(cola["blocked"], p) /\ hilo'["dispatch"].en = "encolar_io"
          /\ hilo'["dispatch"].pcb = p
      BY <1>0, <1>3, <2>4 DEF DispatchBloquea, FinalizarPcb, Ir, Inv, TypeOK, TipoHilo, TipoColas
    <2>7. /\ \A q : EnCola("blocked", q) => EnCola("blocked", q)'
          /\ hilo'["dispatch"].en = "encolar_io" => EnCola("blocked", p)'
      <3>1. cola["blocked"] \in Seq(Pids)  BY <1>0, Naturales
      <3>2. \A q : Contains(Append(cola["blocked"], p), q) <=> (Contains(cola["blocked"], q) \/ q = p)
        BY <3>1, AlFinal
      <3>3. CASE cola'["blocked"] = cola["blocked"] /\ hilo'["dispatch"].en = "post_cpu"
        BY <3>3 DEF EnCola
      <3>4. CASE cola'["blocked"] = Append(cola["blocked"], p)  BY <3>2, <3>4 DEF EnCola
      <3>5. QED  BY <2>6, <3>3, <3>4
    <2>8. ASSUME NEW q \in Pids PROVE UnaIO(q)'
      <3>1. \A i \in Interfaces : EnColaIO(i, q)' <=> EnColaIO(i, q)  BY <2>1 DEF EnColaIO
      <3>2. CASE q = p
        <4>1. \A i \in Interfaces : ~EnColaIO(i, p)' /\ ~EnInterfaz(i, p)'
          BY <1>2, <2>5, <3>1, <3>2
        <4>2. PorEncolar(p)' => EnCola("blocked", p)'  BY <2>7 DEF PorEncolar, En
        <4>3. QED  BY <3>2, <4>1, <4>2 DEF UnaIO
      <3>3. CASE q # p
        <4>1. ~PorEncolar(q)'  BY <2>6, <3>3 DEF PorEncolar
        <4>2. QED  BY <1>2, <2>7, <3>1, <4>1, SigueUnaIO DEF NadaNuevo, InvIO
      <3>4. QED  BY <3>2, <3>3
    <2>9. QED  BY <2>1, <2>8 DEF InvIO
  <1>4. CASE DispatchEncolaIO /\ ~Caer
    <2>1. PICK p \in Pids : p = hilo["dispatch"].pcb
      BY <1>0, <1>4 DEF DispatchEncolaIO, En, Inv, ManosLlenas, ConMano
    <2>2. PICK i \in Interfaces : i = mensaje.interfaz
      BY <1>4 DEF DispatchEncolaIO, Inv, IOConectada
    <2>3. /\ PorEncolar(p) /\ ~PorEncolar(p)' /\ UNCHANGED cola
          /\ \A q \in Pids : ~PorEncolar(q)'
          /\ cola_io'[i] = Append(cola_io[i], p)
          /\ \A j \in Interfaces : j # i => cola_io'[j] = cola_io[j]
      BY <1>0, <1>4, <2>1, <2>2, Llega DEF DispatchEncolaIO, En, PorEncolar, Inv, TypeOK, TipoIO
    <2>4. EnCola("blocked", p) /\ \A j \in Interfaces : ~EnColaIO(j, p) /\ ~EnInterfaz(j, p)
      BY <2>3 DEF InvIO, UnaIO
    <2>5. cola_io[i] \in Seq(Pids)  BY DEF Inv, TypeOK, TipoIO
    <2>6. /\ \A q : EnColaIO(i, q)' <=> (EnColaIO(i, q) \/ q = p)
          /\ IsInjective(cola_io'[i])
      BY <2>3, <2>4, <2>5, AlFinal DEF EnColaIO, InvIO
    <2>7. \A j \in Interfaces : \A q : j # i => (EnColaIO(j, q)' <=> EnColaIO(j, q))
      BY <2>3 DEF EnColaIO
    <2>8. ASSUME NEW q \in Pids PROVE UnaIO(q)'
      <3>1. EnCola("blocked", q)' <=> EnCola("blocked", q)  BY <2>3 DEF EnCola
      <3>2. CASE q = p
        <4>1. \A j \in Interfaces : ~EnInterfaz(j, p)' /\ (EnColaIO(j, p)' <=> j = i)
          BY <1>2, <2>4, <2>6, <2>7
        <4>2. QED  BY <2>3, <2>4, <3>1, <3>2, <4>1 DEF UnaIO
      <3>3. CASE q # p
        BY <1>2, <2>3, <2>6, <2>7, <3>1, <3>3, SigueUnaIO DEF NadaNuevo, InvIO
      <3>4. QED  BY <3>2, <3>3
    <2>9. QED  BY <2>3, <2>6, <2>8 DEF InvIO
  <1>5. CASE ~DispatchBloquea /\ (DispatchEncolaIO => Caer)
    <2>1. UNCHANGED cola_io
      BY <1>5 DEF Dispatch, DispatchRecibe, DispatchLevantaFlag, DispatchDesaloja, DispatchAvisaReady,
                  DispatchFinaliza, DispatchLiberaCpu, Listar, Reanudar, Caer, kernelVars, resto, io
    <2>2. cola'["blocked"] = cola["blocked"]
      BY <1>0, <1>5 DEF Dispatch, DispatchRecibe, DispatchLevantaFlag, DispatchDesaloja, DispatchAvisaReady,
                  DispatchFinaliza, DispatchLiberaCpu, Listar, Reanudar, Caer, kernelVars, FinalizarPcb,
                  set_add_pcb_cola, Inv, TypeOK, TipoColas
    <2>3. CASE Caer
      <3>1. UNCHANGED <<hilo, cola_io, cola>>  BY <2>3 DEF Caer, kernelVars, io
      <3>2. \A q \in Pids : NadaNuevo(q)  BY <3>1 DEF NadaNuevo, PorEncolar, En, EnColaIO, EnInterfaz, EnCola
      <3>3. QED  BY <2>1, <3>2, SigueUnaIO DEF InvIO
    <2>4. CASE ~Caer
      <3>1. hilo'["dispatch"].en # "encolar_io"
        <4>1. CASE DispatchRecibe \/ DispatchLevantaFlag \/ DispatchDesaloja \/ DispatchAvisaReady
          BY <1>0, <4>1, Llega DEF DispatchRecibe, DispatchLevantaFlag, DispatchDesaloja,
                                   DispatchAvisaReady, set_add_pcb_cola, Puerta
        <4>2. CASE DispatchFinaliza \/ DispatchLiberaCpu \/ Listar("dispatch") \/ Reanudar("dispatch")
          BY <1>0, <4>2, Llega DEF DispatchFinaliza, DispatchLiberaCpu, Listar, Reanudar
        <4>3. QED  BY <1>5, <2>4, <4>1, <4>2 DEF Dispatch
      <3>2. ASSUME NEW q \in Pids PROVE NadaNuevo(q)
        <4>1. ~PorEncolar(q)'  BY <3>1 DEF PorEncolar, En
        <4>2. \A i \in Interfaces : EnColaIO(i, q)' <=> EnColaIO(i, q)  BY <2>1 DEF EnColaIO
        <4>3. EnCola("blocked", q) => EnCola("blocked", q)'  BY <2>2 DEF EnCola
        <4>4. QED  BY <1>2, <4>1, <4>2, <4>3 DEF NadaNuevo
      <3>3. QED  BY <2>1, <3>2, SigueUnaIO DEF InvIO
    <2>5. QED  BY <2>3, <2>4
  <1>6. QED  BY <1>3, <1>4, <1>5

\* The thread of an interface: the I/O goes from its queue to the interface, and ends.
LEMMA InterfazIO ==
    ASSUME Inv, InvIO, NEW i \in Interfaces, Interfaz(i)
    PROVE  (\A j \in Interfaces : IsInjective(cola_io'[j])) /\ \A p \in Pids : UnaIO(p)'
  <1>0. /\ "dispatch" \in Hilos /\ i # "dispatch" /\ \A j \in Interfaces : j \in Hilos
        /\ {"blocked", "ready", "plus"} \subseteq Colas /\ TrasLaPuerta(i) = "resultado"
    BY HilosDistintos DEF HilosKernel, Colas, TrasLaPuerta
  <1>1. /\ \A q : PorEncolar(q)' <=> PorEncolar(q)
        /\ \A q, j : j \in Interfaces \ {i} => (EnInterfaz(j, q)' <=> EnInterfaz(j, q))
    BY <1>0, MarcoInterfaz DEF Marco, EnInterfaz, PorEncolar, En
  <1>2. CASE InterfazEnvia(i) /\ ~Caer
    <2>1. /\ hilo[i].en = "binario" /\ cola_io[i] # <<>> /\ UNCHANGED cola
          /\ cola_io' = [cola_io EXCEPT ![i] = Tail(cola_io[i])]
          /\ IrCon(i, "respuesta", Head(cola_io[i]))
      BY <1>2 DEF InterfazEnvia, En
    <2>2. cola_io[i] \in Seq(Pids)  BY DEF Inv, TypeOK, TipoIO
    <2>3. PICK p \in Pids : p = Head(cola_io[i])  BY <2>1, <2>2, CabezaTipo
    <2>4. /\ cola_io'[i] = Tail(cola_io[i]) /\ \A j \in Interfaces : j # i => cola_io'[j] = cola_io[j]
          /\ hilo'[i].en = "respuesta" /\ hilo'[i].pcb = p
      BY <1>0, <2>1, <2>3 DEF IrCon, Inv, TypeOK, TipoIO, TipoHilo
    <2>5. /\ EnColaIO(i, p)
          /\ \A q : EnColaIO(i, q)' => EnColaIO(i, q)
          /\ IsInjective(cola_io'[i]) /\ ~EnColaIO(i, p)'
      <3>1. IsInjective(cola_io[i])  BY DEF InvIO
      <3>2. QED  BY <2>1, <2>2, <2>3, <2>4, <3>1, DelFrente DEF EnColaIO
    <2>6. /\ \A j \in Interfaces : \A q : j # i => (EnColaIO(j, q)' <=> EnColaIO(j, q))
          /\ \A q : EnCola("blocked", q)' <=> EnCola("blocked", q)
          /\ \A q : EnInterfaz(i, q)' <=> q = p
      BY <2>1, <2>4 DEF EnColaIO, EnCola, EnInterfaz
    <2>7. ASSUME NEW q \in Pids PROVE UnaIO(q)'
      <3>1. CASE q = p
        <4>1. /\ \A j \in Interfaces : EnColaIO(j, p) <=> j = i
              /\ \A j \in Interfaces : ~EnInterfaz(j, p)
              /\ ~PorEncolar(p) /\ EnCola("blocked", p)
          BY <2>5 DEF InvIO, UnaIO
        <4>2. /\ \A j \in Interfaces : ~EnColaIO(j, p)'
              /\ \A j \in Interfaces : EnInterfaz(j, p)' => j = i
              /\ ~PorEncolar(p)' /\ EnCola("blocked", p)'
          BY <1>1, <2>5, <2>6, <4>1
        <4>3. QED  BY <3>1, <4>2 DEF UnaIO
      <3>2. CASE q # p  BY <1>1, <2>5, <2>6, <3>2, SigueUnaIO DEF NadaNuevo, InvIO
      <3>3. QED  BY <3>1, <3>2
    <2>8. QED  BY <2>4, <2>5, <2>7 DEF InvIO
  <1>3. CASE InterfazDesbloquea(i) /\ ~Caer
    <2>1. hilo[i].en = "resultado" /\ Contains(cola["blocked"], hilo[i].pcb) /\ UNCHANGED cola_io
      BY <1>3 DEF InterfazDesbloquea, En, resto, io
    <2>2. PICK p \in Pids : p = hilo[i].pcb  BY <1>0, <2>1 DEF Inv, ManosLlenas, ConMano
    <2> DEFINE k == Indice(cola["blocked"], p)
    <2>3. cola["blocked"] \in Seq(Pids)  BY <1>0, Naturales
    <2>4. k \in 1 .. Len(cola["blocked"]) /\ cola["blocked"][k] = p  BY <2>1, <2>2, <2>3, IndiceTipo
    <2>5. cola'["blocked"] = RemoveAt(cola["blocked"], k)
      BY <1>0, <1>3, <2>2 DEF InterfazDesbloquea, Inv, TypeOK, TipoColas
    <2> HIDE DEF k
    <2>6. \A q : EnCola("blocked", q) => EnCola("blocked", q)' \/ q = p
      BY <2>3, <2>4, <2>5, DelMedio DEF EnCola
    <2>7. \A q \in Pids, j \in Interfaces : EnColaIO(j, q)' <=> EnColaIO(j, q)  BY <2>1 DEF EnColaIO
    <2>8. hilo'[i].en \in {"agregar_ready", "agregar_plus"}
      BY <1>0, <1>3, Llega DEF InterfazDesbloquea
    <2>9. \A q : ~EnInterfaz(i, q)'  BY <2>8 DEF EnInterfaz
    <2>10. ASSUME NEW q \in Pids PROVE UnaIO(q)'
      <3>1. CASE q = p
        <4>1. EnInterfaz(i, p)  BY <2>1, <2>2 DEF EnInterfaz
        <4>2. /\ \A j \in Interfaces : ~EnColaIO(j, p)
              /\ \A j \in Interfaces : EnInterfaz(j, p) => j = i
              /\ ~PorEncolar(p)
          BY <4>1 DEF InvIO, UnaIO
        <4>3. /\ ~PorEncolar(p)'
              /\ \A j \in Interfaces : ~EnColaIO(j, p)' /\ ~EnInterfaz(j, p)'
          BY <1>1, <2>7, <2>9, <4>2
        <4>4. QED  BY <3>1, <4>3, SinIO
      <3>2. CASE q # p  BY <1>1, <2>6, <2>7, <2>9, <3>2, SigueUnaIO DEF NadaNuevo, InvIO
      <3>3. QED  BY <3>1, <3>2
    <2>11. QED  BY <2>1, <2>10 DEF InvIO
  <1>4. CASE (InterfazEnvia(i) => Caer) /\ (InterfazDesbloquea(i) => Caer)
    <2>1. UNCHANGED cola_io
      BY <1>4 DEF Interfaz, InterfazSigue, InterfazConecta, InterfazRegistra, InterfazEsperaInstruccion,
              InterfazResponde, InterfazCierra, InterfazAgrega, InterfazAvisa, Listar, Reanudar, Caer,
              kernelVars, resto, io
    <2>2. cola'["blocked"] = cola["blocked"]
      BY <1>0, <1>4 DEF Interfaz, InterfazSigue, InterfazConecta, InterfazRegistra,
              InterfazEsperaInstruccion, InterfazResponde, InterfazCierra, InterfazAgrega, InterfazAvisa,
              Listar, Reanudar, Caer, kernelVars, set_add_pcb_cola, Inv, TypeOK, TipoColas
    <2>3. \A q : EnInterfaz(i, q)' => EnInterfaz(i, q)
      <3>1. CASE Caer  BY <3>1 DEF Caer, kernelVars, EnInterfaz
      <3>2. CASE InterfazResponde(i) \/ Reanudar(i)
        BY <1>0, <3>2 DEF InterfazResponde, Reanudar, Ir, En, EnInterfaz, Inv, TypeOK, TipoHilo
      <3>3. CASE ~Caer /\ ~InterfazResponde(i) /\ ~Reanudar(i)
        <4>1. hilo'[i].en \notin {"respuesta", "detenida", "resultado"}
          <5>1. CASE InterfazConecta(i) \/ InterfazRegistra(i) \/ InterfazEsperaInstruccion(i)
            BY <1>0, <5>1, Llega DEF InterfazConecta, InterfazRegistra, InterfazEsperaInstruccion
          <5>2. CASE InterfazCierra(i) \/ InterfazAvisa(i) \/ InterfazAgrega(i) \/ Listar(i)
            BY <1>0, <5>2, Llega DEF InterfazCierra, InterfazAvisa, InterfazAgrega, Listar, set_add_pcb_cola
          <5>3. QED  BY <1>4, <3>3, <5>1, <5>2 DEF Interfaz, InterfazSigue
        <4>2. QED  BY <4>1 DEF EnInterfaz
      <3>4. QED  BY <3>1, <3>2, <3>3
    <2>4. ASSUME NEW q \in Pids PROVE NadaNuevo(q)
      BY <1>1, <2>1, <2>2, <2>3 DEF NadaNuevo, EnColaIO, EnCola
    <2>5. QED  BY <2>1, <2>4, SigueUnaIO DEF InvIO
  <1>5. QED  BY <1>2, <1>3, <1>4

\* Every step.
LEMMA NextIO ==
    ASSUME Inv, InvToken, InvLugares, InvIO, [Next]_vars PROVE InvIO'
  <1>1. SinMasIO'  BY SinMasPaso DEF InvIO
  <1>2. ASSUME UNCHANGED cola_io, hilo'["dispatch"] = hilo["dispatch"], cola'["blocked"] = cola["blocked"],
               \A i \in Interfaces : hilo'[i] = hilo[i]
        PROVE  InvIO'
    <2>1. ASSUME NEW q \in Pids PROVE NadaNuevo(q)
      BY <1>2 DEF NadaNuevo, PorEncolar, En, EnColaIO, EnInterfaz, EnCola
    <2>2. QED  BY <1>1, <1>2, <2>1, SigueUnaIO DEF InvIO
  <1>3. CASE UNCHANGED vars  BY <1>2, <1>3 DEF vars, kernelVars, io
  <1>4. CASE CpuDispatch \/ CpuRecibeInterrupcion
    BY <1>2, <1>4 DEF CpuDispatch, CpuRecibePcb, CpuEjecuta, CpuChequea, CpuTermina, CpuRecibeInterrupcion,
                      kernelVars, io
  <1>5. CASE Consola \/ Creacion \/ Eliminacion \/ Corto \/ Quantum  BY <1>2, <1>5, OtrosHilos
  <1>6. CASE Dispatch  BY <1>1, <1>6, DispatchIO DEF InvIO
  <1>7. ASSUME NEW i \in Interfaces, Interfaz(i) PROVE InvIO'  BY <1>1, <1>7, InterfazIO DEF InvIO
  <1>8. QED  BY <1>3, <1>4, <1>5, <1>6, <1>7 DEF Next

\* At first nobody does any I/O.
LEMMA InitIO == Init => InvIO
  <1> SUFFICES ASSUME Init PROVE InvIO  OBVIOUS
  <1>1. SinMasIO  BY DEF Init, SinMasIO
  <1>2. \A i \in Interfaces : cola_io[i] = <<>>  BY DEF Init
  <1>3. \A i \in Interfaces, p \in Pids : ~EnColaIO(i, p)  BY <1>2 DEF EnColaIO, Contains
  <1>4. \A i \in Interfaces : IsInjective(cola_io[i])  BY <1>2 DEF IsInjective
  <1>5. \A h \in Hilos : hilo[h].pcb = Nadie  BY DEF Init
  <1>6. \A p \in Pids : ~PorEncolar(p) /\ \A i \in Interfaces : ~EnInterfaz(i, p)
    BY <1>5, HilosDistintos, ConstantesOK DEF PorEncolar, EnInterfaz, Pids, Nadie, HilosKernel
  <1>7. QED  BY <1>1, <1>3, <1>4, <1>6 DEF InvIO, UnaIO

\* The invariant holds at all times.
LEMMA InvIOSiempre == Spec => []InvIO
  <1>1. QED  BY InvSiempre, InvTokenSiempre, InvLugaresSiempre, InitIO, NextIO, PTL DEF Spec

-----------------------------------------------------------------------------
(* Theorems *)

\* What IOs has.
LEMMA IOsDe ==
    ASSUME NEW p \in Pids, NEW x
    PROVE  x \in IOs(p) <=>
             \/ \E i \in Interfaces : \E k \in 1 .. Len(cola_io[i]) : cola_io[i][k] = p /\ x = <<i, k>>
             \/ \E i \in Interfaces : EnInterfaz(i, p) /\ x = <<i, 0>>
  <1> DEFINE EnColas == UNION {{<<i, k>> : k \in Posiciones(cola_io[i], p)} : i \in Interfaces}
             EnManos == {<<i, 0>> : i \in {j \in Interfaces :
                            hilo[j].pcb = p /\ hilo[j].en \in {"respuesta", "detenida", "resultado"}}}
  <1>1. x \in EnColas <=>
          \E i \in Interfaces : \E k \in 1 .. Len(cola_io[i]) : cola_io[i][k] = p /\ x = <<i, k>>
    BY DEF Posiciones
  <1>2. x \in EnManos <=> \E i \in Interfaces : EnInterfaz(i, p) /\ x = <<i, 0>>
    BY DEF EnInterfaz
  <1>3. IOs(p) = EnColas \union EnManos  BY DEF IOs
  <1> HIDE DEF EnColas, EnManos
  <1>4. QED  BY <1>1, <1>2, <1>3

\* A process has one I/O in progress at most.
LEMMA IOUnica ==
    ASSUME Inv, InvIO, NEW p \in Pids, NEW x \in IOs(p), NEW y \in IOs(p)
    PROVE  x = y
  <1>0. UnaIO(p)  BY DEF InvIO
  <1>1. CASE \E i \in Interfaces : EnColaIO(i, p)
    <2>1. PICK i \in Interfaces : EnColaIO(i, p)  BY <1>1
    <2>2. /\ \A j \in Interfaces : EnColaIO(j, p) => j = i
          /\ \A j \in Interfaces : ~EnInterfaz(j, p)
      BY <1>0, <2>1 DEF UnaIO
    <2>3. ASSUME NEW z \in IOs(p) PROVE \E k \in 1 .. Len(cola_io[i]) : cola_io[i][k] = p /\ z = <<i, k>>
      BY <2>2, IOsDe DEF EnColaIO, Contains
    <2>4. DOMAIN cola_io[i] = 1 .. Len(cola_io[i])  BY DEF Inv, TypeOK, TipoIO
    <2>5. \A j, k \in 1 .. Len(cola_io[i]) : cola_io[i][j] = cola_io[i][k] => j = k
      BY <2>4 DEF InvIO, IsInjective
    <2>6. QED  BY <2>3, <2>5
  <1>2. CASE ~\E i \in Interfaces : EnColaIO(i, p)
    <2>1. ASSUME NEW z \in IOs(p) PROVE \E i \in Interfaces : EnInterfaz(i, p) /\ z = <<i, 0>>
      BY <1>2, IOsDe DEF EnColaIO, Contains
    <2>2. \A i, j \in Interfaces : EnInterfaz(i, p) /\ EnInterfaz(j, p) => i = j  BY <1>0 DEF UnaIO
    <2>3. QED  BY <2>1, <2>2
  <1>3. QED  BY <1>1, <1>2

\* An I/O in progress is of a blocked process, and its only one.
LEMMA IODeBloqueadoVale == ASSUME Inv, InvIO PROVE IODeBloqueado
  <1> SUFFICES ASSUME NEW p \in Pids
               PROVE  Cardinality(IOs(p)) <= B(Contains(cola["blocked"], p))
    BY DEF IODeBloqueado
  <1>1. CASE IOs(p) = {}  BY <1>1, FS_EmptySet DEF B
  <1>2. CASE IOs(p) # {}
    <2>1. PICK x : x \in IOs(p)  BY <1>2
    <2>2. IOs(p) = {x}  BY <2>1, IOUnica
    <2>3. \E i \in Interfaces : EnColaIO(i, p) \/ EnInterfaz(i, p)
      BY <2>1, IOsDe DEF EnColaIO, Contains
    <2>4. Contains(cola["blocked"], p)  BY <2>3 DEF InvIO, UnaIO, EnCola
    <2>5. Cardinality(IOs(p)) = 1  BY <2>2, FS_Singleton
    <2>6. QED  BY <2>4, <2>5 DEF B
  <1>3. QED  BY <1>1, <1>2

\* estado_actual agrees with where the process is.
LEMMA EstadosValen == ASSUME Inv, Lugar PROVE EstadosDeColas
  <1>1. \A c \in Colas, p \in Pids : EnCola(c, p) => estado[p] = EstadoDeCola(c)
    BY DEF Lugar, Ubicado, EstadoDonde
  <1>2. \A p \in Pids : EnCamino(p) => estado[p] = "EXEC"  BY DEF Lugar, Ubicado, EstadoDonde
  <1>3. ASSUME NEW c \in Colas, NEW p \in ToSet(cola[c]) PROVE estado[p] = EstadoDeCola(c)
    <2>1. cola[c] \in Seq(Pids)  BY Naturales
    <2>2. PICK k \in 1 .. Len(cola[c]) : cola[c][k] = p  BY <2>1 DEF ToSet
    <2>3. p \in Pids /\ EnCola(c, p)  BY <2>1, <2>2 DEF EnCola, Contains
    <2>4. QED  BY <1>1, <2>3
  <1>4. ASSUME NEW p \in ToSet(a_cpu) PROVE estado[p] = "EXEC"
    <2>1. a_cpu \in Seq(Pids)  BY DEF Inv, TypeOK, TipoCpu
    <2>2. PICK k \in 1 .. Len(a_cpu) : a_cpu[k] = p  BY <2>1 DEF ToSet
    <2>3. p \in Pids /\ EnCamino(p)  BY <2>1, <2>2 DEF EnCamino, Contains
    <2>4. QED  BY <1>2, <2>3
  <1>5. ASSUME NEW m \in ToSet(a_kernel) PROVE estado[m.pid] = "EXEC"
    <2>1. a_kernel \in Seq(Mensajes)  BY DEF Inv, TypeOK, TipoCpu
    <2>2. PICK k \in 1 .. Len(a_kernel) : a_kernel[k] = m  BY <2>1 DEF ToSet
    <2>3. a_kernel[k] \in Mensajes  BY <2>1, <2>2
    <2>4. m.pid \in Pids  BY <2>2, <2>3 DEF Mensajes
    <2>5. EnCamino(m.pid)  BY <2>2 DEF EnCamino
    <2>6. QED  BY <1>2, <2>4, <2>5
  <1>6. ASSUME CpuOcupada PROVE estado[cpu.pid] = "EXEC"
    <2>1. cpu.pid \in Pids  BY <1>6 DEF Inv, CpuLlena, CpuOcupada, TypeOK, TipoCpu
    <2>2. QED  BY <1>2, <1>6, <2>1 DEF EnCamino
  <1>7. /\ EstadoDeCola("new") = "NEW" /\ EstadoDeCola("ready") = "READY"
        /\ EstadoDeCola("plus") = "READY" /\ EstadoDeCola("blocked") = "BLOCKED"
        /\ EstadoDeCola("exit") = "TERMINATED"
    BY DEF EstadoDeCola
  <1>8. {"new", "ready", "plus", "blocked", "exit"} \subseteq Colas  BY DEF Colas
  <1>9. QED  BY <1>3, <1>4, <1>5, <1>6, <1>7, <1>8 DEF EstadosDeColas

\* While the CPU answers once, the estado_actual of every process is that of the queue, the
\* socket or the CPU where it is; and always an I/O in progress, queued on an interface or
\* being done by it, is of a process in lista_procesos_blocked, that has no other one: for
\* any interfaces, that connect, answer or close whenever they want.
THEOREM EstadoSiempre == Spec => []EstadoCoherente
  <1>1. Inv /\ InvLugares /\ InvIO => EstadoCoherente
    BY IODeBloqueadoVale, EstadosValen DEF EstadoCoherente, InvLugares
  <1>2. QED  BY InvSiempre, InvLugaresSiempre, InvIOSiempre, <1>1, PTL

\* A step kills the kernel only when it queues an I/O before its time.
LEMMA NextVivo ==
    ASSUME Inv, PopsSeguros, InvIO, KernelVivo, [Next]_vars PROVE KernelVivo'
  <1>1. CASE UNCHANGED vars
    BY <1>1 DEF vars, kernelVars, KernelVivo, IOAntesDeTiempo, ConexionAMedias, En
  <1>2. CASE Next
    <2>1. kernel_vivo  BY <1>2 DEF Next
    <2>2. CASE ~Caer
      <3>1. kernel_vivo' = kernel_vivo
        <4>1. CASE Consola \/ Creacion \/ Eliminacion
          BY <2>2, <4>1
          DEF Consola, ConsolaSigue, IniciarProceso, AvisarNuevo, RegistrarProceso, DetenerPlanificacion,
              IniciarPlanificacion, Creacion, CreacionEsperaNuevo, CreacionEsperaGrado, CreacionPopNew,
              CreacionAgrega, CreacionAvisa, Eliminacion, EliminacionEsperaExit, EliminacionPopExit,
              EliminacionDestruye, Listar, Reanudar, resto
        <4>2. CASE Corto \/ Quantum
          BY <2>2, <4>2
          DEF Corto, CortoEsperaReady, CortoEsperaCpu, CortoElige, CortoMiraPlus, CortoTomaMutex, CortoPop,
              CortoSetea, CortoEnvia, CortoArrancaQuantum, Quantum, QuantumEspera, QuantumBajaFlag,
              QuantumCpuLiberada, QuantumVence, Reanudar, resto
        <4>3. CASE Dispatch
          BY <2>2, <4>3
          DEF Dispatch, DispatchRecibe, DispatchLevantaFlag, DispatchBloquea, DispatchEncolaIO,
              DispatchDesaloja, DispatchAvisaReady, DispatchFinaliza, DispatchLiberaCpu, Listar, Reanudar, resto
        <4>4. ASSUME NEW i \in Interfaces, Interfaz(i) PROVE kernel_vivo' = kernel_vivo
          BY <2>2, <4>4
          DEF Interfaz, InterfazSigue, InterfazConecta, InterfazRegistra, InterfazEsperaInstruccion,
              InterfazEnvia, InterfazResponde, InterfazCierra, InterfazDesbloquea, InterfazAgrega,
              InterfazAvisa, Listar, Reanudar, resto
        <4>5. CASE CpuDispatch \/ CpuRecibeInterrupcion
          BY <4>5 DEF CpuDispatch, CpuRecibePcb, CpuEjecuta, CpuChequea, CpuTermina, CpuRecibeInterrupcion
        <4>6. QED  BY <1>2, <4>1, <4>2, <4>3, <4>4, <4>5 DEF Next
      <3>2. QED  BY <2>1, <3>1 DEF KernelVivo
    <2>3. CASE Caer
      <3>1. CASE DispatchEncolaIO
        <4>1. En("dispatch", "encolar_io")  BY <3>1 DEF DispatchEncolaIO
        <4>2. PICK i \in Interfaces : mensaje.interfaz = i  BY <4>1 DEF Inv, IOConectada
        <4>3. CASE ConexionAMedias(i)
          BY <2>3, <4>1, <4>2, <4>3 DEF Caer, kernelVars, KernelVivo, IOAntesDeTiempo, ConexionAMedias, En
        <4>4. CASE ~ConexionAMedias(i)
          BY <2>1, <3>1, <4>2, <4>4 DEF DispatchEncolaIO, KernelVivo
        <4>5. QED  BY <4>3, <4>4
      <3>2. CASE ~DispatchEncolaIO
        <4>0. kernel_vivo' = FALSE  BY <2>3 DEF Caer
        <4>1. CASE Consola \/ Creacion \/ Eliminacion
          BY <2>1, <4>0, <4>1
          DEF PopsSeguros,
              Consola, ConsolaSigue, IniciarProceso, AvisarNuevo, RegistrarProceso, DetenerPlanificacion,
              IniciarPlanificacion, Creacion, CreacionEsperaNuevo, CreacionEsperaGrado, CreacionPopNew,
              CreacionAgrega, CreacionAvisa, Eliminacion, EliminacionEsperaExit, EliminacionPopExit,
              EliminacionDestruye, Listar, Reanudar, resto
        <4>2. CASE Corto \/ Quantum
          BY <2>1, <4>0, <4>2
          DEF PopsSeguros,
              Corto, CortoEsperaReady, CortoEsperaCpu, CortoElige, CortoMiraPlus, CortoTomaMutex, CortoPop,
              CortoSetea, CortoEnvia, CortoArrancaQuantum, Quantum, QuantumEspera, QuantumBajaFlag,
              QuantumCpuLiberada, QuantumVence, Reanudar, resto
        <4>3. CASE Dispatch
          BY <2>1, <3>2, <4>0, <4>3
          DEF Dispatch, DispatchRecibe, DispatchLevantaFlag, DispatchBloquea,
              DispatchDesaloja, DispatchAvisaReady, DispatchFinaliza, DispatchLiberaCpu, Listar, Reanudar, resto
        <4>4. ASSUME NEW i \in Interfaces, Interfaz(i) PROVE FALSE
          <5>1. InterfazEnvia(i) \/ InterfazDesbloquea(i)
            BY <2>1, <4>0, <4>4
            DEF Interfaz, InterfazSigue, InterfazConecta, InterfazRegistra, InterfazEsperaInstruccion,
                InterfazResponde, InterfazCierra, InterfazAgrega,
                InterfazAvisa, Listar, Reanudar, resto
          <5>2. CASE InterfazEnvia(i)  BY <2>1, <4>0, <5>2 DEF PopsSeguros, InterfazEnvia
          <5>3. CASE InterfazDesbloquea(i)
            <6>1. En(i, "resultado") /\ ~Contains(cola["blocked"], hilo[i].pcb)
              BY <2>1, <4>0, <5>3 DEF InterfazDesbloquea, resto
            <6>2. PICK p \in Pids : p = hilo[i].pcb
              BY <6>1, HilosDistintos DEF Inv, ManosLlenas, ConMano, En
            <6>3. EnInterfaz(i, p)  BY <6>1, <6>2 DEF EnInterfaz, En
            <6>4. QED  BY <6>1, <6>2, <6>3 DEF InvIO, UnaIO, EnCola
          <5>4. QED  BY <5>1, <5>2, <5>3
        <4>5. CASE CpuDispatch \/ CpuRecibeInterrupcion
          BY <2>1, <4>0, <4>5
          DEF CpuDispatch, CpuRecibePcb, CpuEjecuta, CpuChequea, CpuTermina, CpuRecibeInterrupcion
        <4>6. QED  BY <1>2, <4>1, <4>2, <4>3, <4>4, <4>5 DEF Next
      <3>3. QED  BY <3>1, <3>2
    <2>4. QED  BY <2>2, <2>3
  <1>3. QED  BY <1>1, <1>2

\* No thread of the kernel ever uses a process that a queue_pop or a search did not give it,
\* in any interleaving of its threads with the CPU and the interfaces, but for the one way in
\* which it can: an I/O queued on an interface that crear_interfaz has not finished with.
THEOREM KernelSiempreVivo == Spec => []KernelVivo
  <1>1. Init => KernelVivo  BY DEF Init, KernelVivo
  <1>2. QED  BY InvSiempre, PopsCorrectos, InvIOSiempre, <1>1, NextVivo, PTL DEF Spec

-----------------------------------------------------------------------------
(* The steps of the life cycle *)

\* A process on its way to EXEC or out of it is in the hands of one of two threads.
ManosDeExec ==
    \A h \in Hilos : /\ hilo[h].en = "enviar" => h = "corto"
                     /\ hilo[h].en \in {"atender", "bloquear"} => h = "dispatch"

\* Every step keeps the labels of the planner and of recibir_dispatch to themselves.
LEMMA ManosDeExecPaso == ASSUME Inv, ManosDeExec, [Next]_vars PROVE ManosDeExec'
  <1>0. HilosKernel \subseteq Hilos /\ \A i \in Interfaces : i \in Hilos /\ i \notin HilosKernel
    BY HilosDistintos
  <1>1. ASSUME NEW h \in Hilos, \A g \in Hilos : g # h => hilo'[g] = hilo[g],
               hilo'[h].en = "enviar" => h = "corto",
               hilo'[h].en \in {"atender", "bloquear"} => h = "dispatch"
        PROVE  ManosDeExec'
    BY <1>1 DEF ManosDeExec
  <1>2. CASE UNCHANGED hilo  BY <1>2 DEF ManosDeExec
  <1>3. CASE Consola
    <2>1. \A g \in Hilos : g # "consola" => hilo'[g] = hilo[g]  BY <1>3, MarcoConsola DEF Marco
    <2>2. UNCHANGED hilo \/ hilo'["consola"].en \in {"colgado", "post_nuevo", "registrar", "comando"}
      BY <1>0, <1>3, Llega
      DEF Consola, ConsolaSigue, IniciarProceso, AvisarNuevo, RegistrarProceso, DetenerPlanificacion,
          IniciarPlanificacion, set_add_pcb_cola, HilosKernel
    <2>3. QED  BY <1>0, <1>1, <1>2, <2>1, <2>2 DEF HilosKernel
  <1>4. CASE Creacion
    <2>1. \A g \in Hilos : g # "creacion" => hilo'[g] = hilo[g]  BY <1>4, MarcoCreacion DEF Marco
    <2>2. UNCHANGED hilo \/ hilo'["creacion"].en \in {"detenida", "grado", "pop_new", "agregar", "colgado",
                                                      "listar_ready", "listando_ready", "listando_plus",
                                                      "hay_nuevo"}
      <3>1. TrasLaPuerta("creacion") = "grado"  BY <1>0 DEF TrasLaPuerta, HilosKernel
      <3>2. QED
        BY <1>0, <1>4, <3>1, Llega
        DEF Creacion, CreacionEsperaNuevo, CreacionEsperaGrado, CreacionPopNew, CreacionAgrega,
            CreacionAvisa, Listar, Reanudar, Caer, kernelVars, set_add_pcb_cola, HilosKernel, Puerta
    <2>3. QED  BY <1>0, <1>1, <1>2, <2>1, <2>2 DEF HilosKernel
  <1>5. CASE Eliminacion
    <2>1. \A g \in Hilos : g # "eliminacion" => hilo'[g] = hilo[g]  BY <1>5, MarcoEliminacion DEF Marco
    <2>2. UNCHANGED hilo \/ hilo'["eliminacion"].en \in {"detenida", "pop_exit", "memoria", "hay_exit"}
      <3>1. TrasLaPuerta("eliminacion") = "pop_exit"  BY <1>0 DEF TrasLaPuerta, HilosKernel
      <3>2. QED
        BY <1>0, <1>5, <3>1, Llega
        DEF Eliminacion, EliminacionEsperaExit, EliminacionPopExit, EliminacionDestruye, Reanudar, Caer,
            kernelVars, HilosKernel, Puerta
    <2>3. QED  BY <1>0, <1>1, <1>2, <2>1, <2>2 DEF HilosKernel
  <1>6. CASE Corto
    <2>1. \A g \in Hilos : g # "corto" => hilo'[g] = hilo[g]  BY <1>6, MarcoCorto DEF Marco
    <2>2. UNCHANGED hilo \/ hilo'["corto"].en \notin {"atender", "bloquear"}
      <3>1. TrasLaPuerta("corto") = "elegir"  BY <1>0 DEF TrasLaPuerta, HilosKernel
      <3>2. CASE CortoEsperaReady \/ CortoEsperaCpu \/ CortoElige \/ CortoMiraPlus \/ CortoTomaMutex
        BY <1>0, <3>2, Llega
        DEF CortoEsperaReady, CortoEsperaCpu, CortoElige, CortoMiraPlus, CortoTomaMutex, HilosKernel, Puerta
      <3>3. CASE CortoPop \/ CortoSetea \/ CortoEnvia \/ CortoArrancaQuantum \/ Reanudar("corto")
        BY <1>0, <3>1, <3>3, Llega
        DEF CortoPop, CortoSetea, CortoEnvia, CortoArrancaQuantum, Reanudar, Caer, kernelVars, HilosKernel
      <3>4. QED  BY <1>6, <3>2, <3>3 DEF Corto
    <2>3. QED  BY <1>0, <1>1, <1>2, <2>1, <2>2 DEF HilosKernel
  <1>7. CASE Quantum
    <2>1. \A g \in Hilos : g # "quantum" => hilo'[g] = hilo[g]  BY <1>7, MarcoQuantum DEF Marco
    <2>2. hilo'["quantum"].en \in {"bajar_flag", "esperar_flag", "arrancar"}
      BY <1>0, <1>7, Llega
      DEF Quantum, QuantumEspera, QuantumBajaFlag, QuantumCpuLiberada, QuantumVence, HilosKernel
    <2>3. QED  BY <1>0, <1>1, <2>1, <2>2 DEF HilosKernel
  <1>8. CASE Dispatch
    <2>1. \A g \in Hilos : g # "dispatch" => hilo'[g] = hilo[g]  BY <1>8, MarcoDispatch DEF Marco
    <2>2. UNCHANGED hilo \/ hilo'["dispatch"].en # "enviar"
      <3>1. TrasLaPuerta("dispatch") = "atender"  BY <1>0 DEF TrasLaPuerta, HilosKernel
      <3>2. CASE DispatchRecibe \/ DispatchLevantaFlag \/ DispatchBloquea \/ DispatchEncolaIO
        BY <1>0, <3>2, Llega
        DEF DispatchRecibe, DispatchLevantaFlag, DispatchBloquea, DispatchEncolaIO, Caer, kernelVars,
            HilosKernel, Puerta
      <3>3. CASE DispatchDesaloja \/ DispatchAvisaReady \/ DispatchFinaliza \/ DispatchLiberaCpu
        BY <1>0, <3>3, Llega
        DEF DispatchDesaloja, DispatchAvisaReady, DispatchFinaliza, DispatchLiberaCpu, set_add_pcb_cola,
            HilosKernel
      <3>4. CASE Listar("dispatch") \/ Reanudar("dispatch")
        BY <1>0, <3>1, <3>4, Llega DEF Listar, Reanudar, HilosKernel
      <3>5. QED  BY <1>8, <3>2, <3>3, <3>4 DEF Dispatch
    <2>3. QED  BY <1>0, <1>1, <1>2, <2>1, <2>2 DEF HilosKernel
  <1>9. ASSUME NEW i \in Interfaces, Interfaz(i) PROVE ManosDeExec'
    <2>1. \A g \in Hilos : g # i => hilo'[g] = hilo[g]  BY <1>9, MarcoInterfaz DEF Marco
    <2>2. UNCHANGED hilo \/ hilo'[i].en \notin {"enviar", "atender", "bloquear"}
      <3>1. TrasLaPuerta(i) = "resultado"  BY DEF TrasLaPuerta
      <3>2. CASE \/ InterfazConecta(i) \/ InterfazRegistra(i) \/ InterfazEsperaInstruccion(i)
                 \/ InterfazEnvia(i) \/ InterfazResponde(i) \/ InterfazCierra(i)
        BY <1>0, <3>2, Llega
        DEF InterfazConecta, InterfazRegistra, InterfazEsperaInstruccion, InterfazEnvia, InterfazResponde,
            InterfazCierra, Caer, kernelVars, Puerta
      <3>3. CASE \/ InterfazDesbloquea(i) \/ InterfazAgrega(i) \/ InterfazAvisa(i)
                 \/ Listar(i) \/ Reanudar(i)
        BY <1>0, <3>1, <3>3, Llega
        DEF InterfazDesbloquea, InterfazAgrega, InterfazAvisa, Listar, Reanudar, Caer, kernelVars,
            set_add_pcb_cola
      <3>4. QED  BY <1>9, <3>2, <3>3 DEF Interfaz, InterfazSigue
    <2>3. QED  BY <1>0, <1>1, <1>2, <2>1, <2>2 DEF HilosKernel
  <1>10. CASE CpuDispatch \/ CpuRecibeInterrupcion \/ UNCHANGED vars
    BY <1>2, <1>10
    DEF CpuDispatch, CpuRecibePcb, CpuEjecuta, CpuChequea, CpuTermina, CpuRecibeInterrupcion, vars, kernelVars
  <1>11. QED  BY <1>3, <1>4, <1>5, <1>6, <1>7, <1>8, <1>9, <1>10 DEF Next

\* The invariant holds at all times.
LEMMA ManosDeExecSiempre == Spec => []ManosDeExec
  <1>1. Init => ManosDeExec
    BY DEF Init, ManosDeExec, Hilos, HilosKernel, Inicio
  <1>2. QED  BY <1>1, InvSiempre, ManosDeExecPaso, PTL DEF Spec

\* A thread that changes estado_actual of the process in its hands.
LEMMA MueveSuyo ==
    ASSUME Inv, Lugar, NEW h \in Hilos, hilo[h].en \in Manos(h) \ {"colgado"}, NEW a, NEW b,
           a = EstadoDeMano(h, hilo[h].en), estado' = [estado EXCEPT ![hilo[h].pcb] = b]
    PROVE  hilo[h].pcb \in Pids /\ Ciclo!Mover(hilo[h].pcb, a, b)
  BY EnSuMano DEF Ciclo!Mover

\* The planner is the one to give the CPU to a process: nobody else has it.
LEMMA CpuSinDuenio ==
    ASSUME Inv, ManosDeExec, Lugar, Tokens \in {0, 1}, En("corto", "setear"), NEW q \in Pids
    PROVE  estado[q] # "EXEC"
  <1> SUFFICES ASSUME estado[q] = "EXEC" PROVE FALSE  OBVIOUS
  <1>0. "corto" \in Hilos /\ "dispatch" \in Hilos /\ "corto" # "dispatch"  BY DEF Hilos, HilosKernel
  <1>1. ConElPlanificador  BY DEF ConElPlanificador, En
  <1>2. a_cpu = <<>> /\ a_kernel = <<>> /\ ~CpuOcupada /\ En("dispatch", "recibir")  BY <1>1, CaminoUnico
  <1>3. Tokens = 1
    <2>1. sem["cpu_libre"] \in Nat  BY Naturales DEF Semaforos
    <2>2. Len(a_cpu) = 0 /\ Len(a_kernel) = 0  BY <1>2
    <2>3. Tokens = sem["cpu_libre"] + 1  BY <1>1, <1>2, <2>1, <2>2 DEF Tokens, B
    <2>4. \A n \in Nat : n + 1 \in {0, 1} => n + 1 = 1  OBVIOUS
    <2>5. QED  BY <2>1, <2>3, <2>4
  <1>4. (\E c \in Colas : EnCola(c, q)) \/ (\E h \in Hilos : EnMano(h, q)) \/ EnCamino(q)
    BY <1>3 DEF Lugar, Ubicado, Hallable
  <1>5. ASSUME NEW c \in Colas, EnCola(c, q) PROVE FALSE
    BY <1>5 DEF Lugar, Ubicado, EstadoDonde, EstadoDeCola, Colas
  <1>6. ASSUME NEW h \in Hilos, EnMano(h, q) PROVE FALSE
    <2>1. EstadoDeMano(h, hilo[h].en) = "EXEC"  BY <1>6 DEF Lugar, Ubicado, EstadoDonde
    <2>2. \/ hilo[h].en \in {"enviar", "atender", "bloquear"}
          \/ h = "dispatch" /\ hilo[h].en = "detenida"
      BY <1>6, <2>1 DEF EstadoDeMano, EnMano
    <2>3. QED  BY <1>0, <1>2, <2>2 DEF ManosDeExec, En
  <1>7. ~EnCamino(q)  BY <1>2, CaminoDe
  <1>8. QED  BY <1>4, <1>5, <1>6, <1>7

\* A step of the life cycle; those that change the number of admitted processes are of
\* creacion_de_procesos and eliminacion_de_procesos.
Vida ==
    \/ UNCHANGED estado
    \/ \E p \in Pids : \/ Ciclo!Crear(p) \/ Ciclo!Despachar(p) \/ Ciclo!Desalojar(p)
                       \/ Ciclo!Bloquear(p) \/ Ciclo!Despertar(p) \/ Ciclo!Terminar(p)
    \/ CreacionAgrega /\ \E p \in Pids : Ciclo!Mover(p, "NEW", "READY")
    \/ EliminacionDestruye /\ \E p \in Pids : Ciclo!Eliminar(p)

\* Every step is one of the life cycle, or leaves every process where it is.
LEMMA VidaPaso ==
    ASSUME Inv, ManosDeExec, Tokens \in {0, 1}, PorCrear, Lugar, [Next]_vars
    PROVE  Vida
  <1>0. HilosKernel \subseteq Hilos /\ \A i \in Interfaces : i \in Hilos /\ i \notin HilosKernel
    BY HilosDistintos
  <1>1. CASE Consola
    <2>1. CASE IniciarProceso
      <3>1. PICK p \in Pids : p = contador_pid
        BY <2>1, ConstantesOK DEF IniciarProceso, Pids, Inv, TypeOK, TipoControl
      <3>2. estado[p] = "SIN_CREAR"  BY <2>1, <3>1 DEF IniciarProceso, PorCrear
      <3>3. Ciclo!Crear(p)
        BY <2>1, <3>1, <3>2 DEF IniciarProceso, set_add_pcb_cola, Ciclo!Crear, Ciclo!Mover
      <3>4. QED  BY <3>3 DEF Vida
    <2>2. CASE ~IniciarProceso
      BY <1>1, <2>2 DEF Consola, ConsolaSigue, AvisarNuevo, RegistrarProceso, DetenerPlanificacion,
                        IniciarPlanificacion, Vida
    <2>3. QED  BY <2>1, <2>2
  <1>2. CASE Creacion
    <2>1. CASE CreacionAgrega
      <3>1. hilo["creacion"].en \in Manos("creacion") \ {"colgado"}
            /\ EstadoDeMano("creacion", hilo["creacion"].en) = "NEW"
        BY <2>1 DEF CreacionAgrega, En, Manos, EstadoDeMano
      <3>2. \E p \in Pids : Ciclo!Mover(p, "NEW", "READY")
        BY <1>0, <2>1, <3>1, MueveSuyo DEF CreacionAgrega, set_add_pcb_cola, HilosKernel
      <3>3. QED  BY <2>1, <3>2 DEF Vida
    <2>2. CASE ~CreacionAgrega
      BY <1>2, <2>2 DEF Creacion, CreacionEsperaNuevo, CreacionEsperaGrado, CreacionPopNew, CreacionAvisa,
                        Listar, Reanudar, Caer, Vida
    <2>3. QED  BY <2>1, <2>2
  <1>3. CASE Eliminacion
    <2>1. CASE EliminacionDestruye
      <3>1. hilo["eliminacion"].en \in Manos("eliminacion") \ {"colgado"}
            /\ EstadoDeMano("eliminacion", hilo["eliminacion"].en) = "TERMINATED"
        BY <2>1 DEF EliminacionDestruye, En, Manos, EstadoDeMano
      <3>2. \E p \in Pids : Ciclo!Eliminar(p)
        BY <1>0, <2>1, <3>1, MueveSuyo DEF EliminacionDestruye, Ciclo!Eliminar, HilosKernel
      <3>3. QED  BY <2>1, <3>2 DEF Vida
    <2>2. CASE ~EliminacionDestruye
      BY <1>3, <2>2 DEF Eliminacion, EliminacionEsperaExit, EliminacionPopExit, Reanudar, Caer, Vida
    <2>3. QED  BY <2>1, <2>2
  <1>4. CASE Corto
    <2>1. CASE CortoSetea
      <3>1. hilo["corto"].en \in Manos("corto") \ {"colgado"}
            /\ EstadoDeMano("corto", hilo["corto"].en) = "READY"
        BY <2>1 DEF CortoSetea, En, Manos, EstadoDeMano
      <3>2. \E p \in Pids : Ciclo!Mover(p, "READY", "EXEC")
        BY <1>0, <2>1, <3>1, MueveSuyo DEF CortoSetea, HilosKernel
      <3>3. \A q \in Pids : estado[q] # "EXEC"  BY <2>1, CpuSinDuenio DEF CortoSetea
      <3>4. \E p \in Pids : Ciclo!Despachar(p)  BY <3>2, <3>3 DEF Ciclo!Despachar
      <3>5. QED  BY <3>4 DEF Vida
    <2>2. CASE ~CortoSetea
      BY <1>4, <2>2 DEF Corto, CortoEsperaReady, CortoEsperaCpu, CortoElige, CortoMiraPlus, CortoTomaMutex,
                        CortoPop, CortoEnvia, CortoArrancaQuantum, Reanudar, Caer, Vida
    <2>3. QED  BY <2>1, <2>2
  <1>5. CASE Dispatch
    <2> DEFINE d == hilo["dispatch"]
    <2>1. CASE DispatchBloquea \/ DispatchDesaloja \/ DispatchFinaliza
      <3>1. d.en \in Manos("dispatch") \ {"colgado"} /\ EstadoDeMano("dispatch", d.en) = "EXEC"
        BY <2>1 DEF DispatchBloquea, DispatchDesaloja, DispatchFinaliza, En, Manos, EstadoDeMano
      <3>2. \E b \in {"READY", "BLOCKED", "TERMINATED"} : estado' = [estado EXCEPT ![d.pcb] = b]
        BY <2>1 DEF DispatchBloquea, DispatchDesaloja, DispatchFinaliza, FinalizarPcb, set_add_pcb_cola
      <3>3. PICK b \in {"READY", "BLOCKED", "TERMINATED"} : estado' = [estado EXCEPT ![d.pcb] = b]
        BY <3>2
      <3>4. \E p \in Pids : Ciclo!Mover(p, "EXEC", b)
        BY <1>0, <3>1, <3>3, MueveSuyo DEF HilosKernel
      <3>5. \E p \in Pids : Ciclo!Desalojar(p) \/ Ciclo!Bloquear(p) \/ Ciclo!Terminar(p)
        BY <3>4 DEF Ciclo!Desalojar, Ciclo!Bloquear, Ciclo!Terminar
      <3>6. QED  BY <3>5 DEF Vida
    <2>2. CASE ~(DispatchBloquea \/ DispatchDesaloja \/ DispatchFinaliza)
      BY <1>5, <2>2 DEF Dispatch, DispatchRecibe, DispatchLevantaFlag, DispatchEncolaIO, DispatchAvisaReady,
                        DispatchLiberaCpu, Listar, Reanudar, Caer, Vida
    <2>3. QED  BY <2>1, <2>2
  <1>6. ASSUME NEW i \in Interfaces, Interfaz(i) PROVE Vida
    <2>1. CASE InterfazAgrega(i)
      <3>1. hilo[i].en \in Manos(i) \ {"colgado"} /\ EstadoDeMano(i, hilo[i].en) = "BLOCKED"
        BY <2>1 DEF InterfazAgrega, En, Manos, EstadoDeMano
      <3>2. \E p \in Pids : Ciclo!Despertar(p)
        BY <1>0, <2>1, <3>1, MueveSuyo DEF InterfazAgrega, set_add_pcb_cola, Ciclo!Despertar
      <3>3. QED  BY <3>2 DEF Vida
    <2>2. CASE ~InterfazAgrega(i)
      BY <1>6, <2>2 DEF Interfaz, InterfazSigue, InterfazConecta, InterfazRegistra, InterfazEsperaInstruccion,
                        InterfazEnvia, InterfazResponde, InterfazCierra, InterfazDesbloquea, InterfazAvisa,
                        Listar, Reanudar, Caer, resto, Vida
    <2>3. QED  BY <2>1, <2>2
  <1>7. CASE Quantum \/ CpuDispatch \/ CpuRecibeInterrupcion \/ UNCHANGED vars
    BY <1>7 DEF Quantum, QuantumEspera, QuantumBajaFlag, QuantumCpuLiberada, QuantumVence, CpuDispatch,
                CpuRecibePcb, CpuEjecuta, CpuChequea, CpuTermina, CpuRecibeInterrupcion, vars, Vida
  <1>8. QED  BY <1>1, <1>2, <1>3, <1>4, <1>5, <1>6, <1>7 DEF Next

-----------------------------------------------------------------------------
(* The degree of multiprogramming *)

Admision == {"READY", "EXEC", "BLOCKED", "TERMINATED"}

\* The admitted processes can be counted.
LEMMA AdmitidosFinitos == IsFiniteSet(Ciclo!Admitidos) /\ Cardinality(Ciclo!Admitidos) \in Nat
  <1>1. IsFiniteSet(Pids)  BY ConstantesOK, FS_Interval DEF Pids
  <1>2. Ciclo!Admitidos \in SUBSET Pids  BY DEF Ciclo!Admitidos
  <1>3. IsFiniteSet(Ciclo!Admitidos)  BY <1>1, <1>2, FS_Subset
  <1>4. QED  BY <1>3, FS_CardinalityType

\* A move of the life cycle and the number of admitted processes.
LEMMA AdmitidosMueve ==
    ASSUME Inv, NEW p \in Pids, NEW a, NEW b, Ciclo!Mover(p, a, b)
    PROVE  /\ a \notin Admision /\ b \in Admision =>
                  Cardinality(Ciclo!Admitidos') = Cardinality(Ciclo!Admitidos) + 1
           /\ a \in Admision /\ b \notin Admision =>
                  Cardinality(Ciclo!Admitidos') = Cardinality(Ciclo!Admitidos) - 1
           /\ (a \in Admision <=> b \in Admision) => Ciclo!Admitidos' = Ciclo!Admitidos
  <1>1. estado[p] = a /\ estado'[p] = b /\ \A q \in Pids : q # p => estado'[q] = estado[q]
    BY DEF Ciclo!Mover, Inv, TypeOK, TipoColas
  <1>2. ASSUME a \notin Admision, b \in Admision
        PROVE  Cardinality(Ciclo!Admitidos') = Cardinality(Ciclo!Admitidos) + 1
    <2>1. p \notin Ciclo!Admitidos /\ Ciclo!Admitidos' = Ciclo!Admitidos \union {p}
      BY <1>1, <1>2 DEF Ciclo!Admitidos, Admision
    <2>2. QED  BY <2>1, AdmitidosFinitos, FS_AddElement
  <1>3. ASSUME a \in Admision, b \notin Admision
        PROVE  Cardinality(Ciclo!Admitidos') = Cardinality(Ciclo!Admitidos) - 1
    <2>1. p \in Ciclo!Admitidos /\ Ciclo!Admitidos' = Ciclo!Admitidos \ {p}
      BY <1>1, <1>3 DEF Ciclo!Admitidos, Admision
    <2>2. QED  BY <2>1, AdmitidosFinitos, FS_RemoveElement
  <1>4. ASSUME a \in Admision <=> b \in Admision PROVE Ciclo!Admitidos' = Ciclo!Admitidos
    BY <1>1, <1>4 DEF Ciclo!Admitidos, Admision
  <1>5. QED  BY <1>2, <1>3, <1>4

\* Where the planner has a place in its hands.
EnAdmision == hilo["creacion"].en \in {"pop_new", "agregar"}

\* What every step does to the places: to grado_multi, to the admitted processes and to the
\* hands of creacion_de_procesos.
LEMMA PlazasPaso ==
    ASSUME Inv, ManosDeExec, Tokens \in {0, 1}, PorCrear, Lugar, [Next]_vars
    PROVE  LET n == sem["grado_multi"]
               a == Cardinality(Ciclo!Admitidos)
           IN  \/ n' = n /\ a' = a /\ (EnAdmision' <=> EnAdmision)
               \/ n' = n - 1 /\ a' = a /\ ~EnAdmision /\ EnAdmision'
               \/ n' = n /\ a' = a + 1 /\ EnAdmision /\ ~EnAdmision'
               \/ n' = n + 1 /\ a' = a - 1 /\ (EnAdmision' <=> EnAdmision)
  <1> DEFINE n == sem["grado_multi"]
             a == Cardinality(Ciclo!Admitidos)
  <1>0. /\ HilosKernel \subseteq Hilos /\ \A i \in Interfaces : i \in Hilos /\ i \notin HilosKernel
        /\ "grado_multi" \in Semaforos /\ Semaforos \subseteq DOMAIN sem
    BY HilosDistintos DEF Semaforos, Inv, TypeOK, TipoColas
  <1>1. Vida  BY VidaPaso
  <1>2. ASSUME ~CreacionAgrega, ~EliminacionDestruye PROVE a' = a
    <2>1. CASE UNCHANGED estado  BY <2>1 DEF Ciclo!Admitidos
    <2>2. ASSUME NEW p \in Pids,
                 \/ Ciclo!Crear(p) \/ Ciclo!Despachar(p) \/ Ciclo!Desalojar(p)
                 \/ Ciclo!Bloquear(p) \/ Ciclo!Despertar(p) \/ Ciclo!Terminar(p)
          PROVE  a' = a
      <3>1. \E x, y : Ciclo!Mover(p, x, y) /\ (x \in Admision <=> y \in Admision)
        BY <2>2 DEF Ciclo!Crear, Ciclo!Despachar, Ciclo!Desalojar, Ciclo!Bloquear, Ciclo!Despertar,
                    Ciclo!Terminar, Admision
      <3>2. Ciclo!Admitidos' = Ciclo!Admitidos  BY <3>1, AdmitidosMueve
      <3>3. QED  BY <3>2
    <2>3. QED  BY <1>1, <1>2, <2>1, <2>2 DEF Vida
  <1>3. CASE Creacion
    <2>1. CASE CreacionAgrega
      <3>1. n' = n  BY <2>1 DEF CreacionAgrega
      <3>2. EnAdmision /\ ~EnAdmision'
        BY <1>0, <2>1, Llega DEF CreacionAgrega, set_add_pcb_cola, En, EnAdmision, HilosKernel
      <3>3. \E p \in Pids : Ciclo!Mover(p, "NEW", "READY")
        <4>1. hilo["creacion"].en \in Manos("creacion") \ {"colgado"}
              /\ EstadoDeMano("creacion", hilo["creacion"].en) = "NEW"
          BY <2>1 DEF CreacionAgrega, En, Manos, EstadoDeMano
        <4>2. QED  BY <1>0, <2>1, <4>1, MueveSuyo DEF CreacionAgrega, set_add_pcb_cola, HilosKernel
      <3>4. a' = a + 1  BY <3>3, AdmitidosMueve DEF Admision
      <3>5. QED  BY <3>1, <3>2, <3>4
    <2>2. CASE CreacionEsperaGrado
      <3>1. n' = n - 1 /\ ~EnAdmision /\ EnAdmision' /\ UNCHANGED estado
        BY <1>0, <2>2, Llega DEF CreacionEsperaGrado, En, EnAdmision, HilosKernel, Esperar, Sin
      <3>2. a' = a  BY <3>1 DEF Ciclo!Admitidos
      <3>3. QED  BY <3>1, <3>2
    <2>3. CASE ~CreacionAgrega /\ ~CreacionEsperaGrado
      <3>1. UNCHANGED estado
        BY <1>3, <2>3 DEF Creacion, CreacionEsperaNuevo, CreacionPopNew, CreacionAvisa, Listar, Reanudar, Caer
      <3>2. n' = n
        <4>1. PermisoDe("creacion") # "grado_multi"  BY <1>0, PermisoDeTipo, PermisosAparte
        <4>2. \/ UNCHANGED sem
              \/ \E s \in {"hay_proceso_nuevo", "hay_proceso_a_ready", PermisoDe("creacion")} :
                     Esperar(s) \/ Postear(s)
          BY <1>3, <2>3 DEF Creacion, CreacionEsperaNuevo, CreacionPopNew, CreacionAvisa, Listar, Reanudar,
                            Caer, kernelVars
        <4>3. QED  BY <1>0, <4>1, <4>2 DEF Esperar, Postear, Con, Sin
      <3>3. (EnAdmision' <=> EnAdmision)
        <4>1. TrasLaPuerta("creacion") = "grado"  BY <1>0 DEF TrasLaPuerta, HilosKernel
        <4>2. CASE Caer  BY <4>2 DEF Caer, kernelVars, EnAdmision
        <4>3. CASE CreacionPopNew /\ ~Caer
          BY <1>0, <4>3, Llega DEF CreacionPopNew, En, EnAdmision, HilosKernel
        <4>4. CASE CreacionEsperaNuevo \/ CreacionAvisa \/ Listar("creacion") \/ Reanudar("creacion")
          BY <1>0, <4>1, <4>4, Llega
          DEF CreacionEsperaNuevo, CreacionAvisa, Listar, Reanudar, En, EnAdmision, HilosKernel, Puerta
        <4>5. QED  BY <1>3, <2>3, <4>2, <4>3, <4>4 DEF Creacion
      <3>4. a' = a  BY <3>1 DEF Ciclo!Admitidos
      <3>5. QED  BY <3>2, <3>3, <3>4
    <2>4. QED  BY <2>1, <2>2, <2>3
  <1>4. CASE Eliminacion
    <2>1. (EnAdmision' <=> EnAdmision)
      BY <1>0, <1>4, MarcoEliminacion DEF Marco, EnAdmision, HilosKernel
    <2>2. CASE EliminacionDestruye
      <3>1. n' = n + 1  BY <1>0, <2>2 DEF EliminacionDestruye, Postear, Con
      <3>2. \E p \in Pids : Ciclo!Mover(p, "TERMINATED", "DESTRUIDO")
        <4>1. PICK p \in Pids : p = hilo["eliminacion"].pcb /\ estado[p] = "TERMINATED"
          BY <1>0, <2>2, EnSuMano DEF EliminacionDestruye, En, Manos, EstadoDeMano, HilosKernel
        <4>2. Ciclo!Mover(p, "TERMINATED", "DESTRUIDO")
          BY <2>2, <4>1 DEF EliminacionDestruye, Ciclo!Mover
        <4>3. QED  BY <4>2
      <3>3. a' = a - 1  BY <3>2, AdmitidosMueve DEF Admision
      <3>4. QED  BY <2>1, <3>1, <3>3
    <2>3. CASE ~EliminacionDestruye
      <3>1. UNCHANGED estado
        BY <1>4, <2>3 DEF Eliminacion, EliminacionEsperaExit, EliminacionPopExit, Reanudar, Caer
      <3>2. n' = n
        <4>1. PermisoDe("eliminacion") # "grado_multi"  BY <1>0, PermisoDeTipo, PermisosAparte
        <4>2. QED
          BY <1>0, <1>4, <2>3, <4>1 DEF Eliminacion, EliminacionEsperaExit, EliminacionPopExit, Reanudar, Caer,
                                        kernelVars, Esperar, Postear, Con, Sin
      <3>3. a' = a  BY <3>1 DEF Ciclo!Admitidos
      <3>4. QED  BY <2>1, <3>2, <3>3
    <2>4. QED  BY <2>2, <2>3
  <1>5. ASSUME ~Creacion, ~Eliminacion PROVE n' = n /\ a' = a /\ (EnAdmision' <=> EnAdmision)
    <2>1. a' = a  BY <1>2, <1>5 DEF Creacion, Eliminacion
    <2>2. n' = n /\ hilo'["creacion"] = hilo["creacion"]
      <3>1. CASE Consola \/ Corto \/ Quantum \/ Dispatch
        BY <1>0, <3>1, MarcoConsola, MarcoCorto, MarcoQuantum, MarcoDispatch DEF Marco, HilosKernel
      <3>2. ASSUME NEW i \in Interfaces, Interfaz(i) PROVE n' = n /\ hilo'["creacion"] = hilo["creacion"]
        BY <1>0, <3>2, MarcoInterfaz DEF Marco, HilosKernel
      <3>3. CASE CpuDispatch \/ CpuRecibeInterrupcion \/ UNCHANGED vars
        BY <3>3 DEF CpuDispatch, CpuRecibePcb, CpuEjecuta, CpuChequea, CpuTermina, CpuRecibeInterrupcion,
                    vars, kernelVars
      <3>4. QED  BY <1>5, <3>1, <3>2, <3>3 DEF Next
    <2>3. QED  BY <2>1, <2>2 DEF EnAdmision
  <1>6. QED  BY <1>3, <1>4, <1>5

\* Every step keeps the places.
LEMMA NextPlazas ==
    ASSUME Inv, InvToken, InvLugares, ManosDeExec, PlazasDeGrado, [Next]_vars
    PROVE  PlazasDeGrado'
  <1> SUFFICES ASSUME UnaRespuesta'
               PROVE  (sem["grado_multi"] + Cardinality(Ciclo!Admitidos) + B(EnAdmision) = Grado)'
    BY DEF PlazasDeGrado, EnAdmision
  <1>1. UnaRespuesta  BY FlagParaSiempre DEF UnaRespuesta
  <1>2. PorCrear /\ Lugar /\ Tokens \in {0, 1}  BY <1>1 DEF InvLugares, InvToken
  <1> DEFINE n == sem["grado_multi"]
             a == Cardinality(Ciclo!Admitidos)
             b == B(EnAdmision)
  <1>3. n \in Nat /\ a \in Nat /\ b \in {0, 1}
    BY Naturales, AdmitidosFinitos DEF Semaforos, B
  <1>4. n + a + b = Grado  BY <1>1 DEF PlazasDeGrado, EnAdmision
  <1>5. \/ n' = n /\ a' = a /\ b' = b
        \/ n' = n - 1 /\ a' = a /\ b = 0 /\ b' = 1
        \/ n' = n /\ a' = a + 1 /\ b = 1 /\ b' = 0
        \/ n' = n + 1 /\ a' = a - 1 /\ b' = b
    BY <1>2, PlazasPaso DEF B
  <1> HIDE DEF n, a, b
  <1>6. n' + a' + b' = Grado  BY <1>3, <1>4, <1>5, ConstantesOK
  <1>7. QED  BY <1>6 DEF n, a, b

\* The configured degree of multiprogramming is respected and no place is lost: for any
\* degree and any number of processes that enter, block, end and are destroyed.
THEOREM PlazasSiempre == Spec => []PlazasDeGrado
  <1>1. ASSUME Init PROVE PlazasDeGrado
    <2>1. sem["grado_multi"] = Grado  BY <1>1 DEF Init, Semaforos
    <2>2. Ciclo!Admitidos = {}  BY <1>1 DEF Init, Ciclo!Admitidos
    <2>3. Cardinality(Ciclo!Admitidos) = 0  BY <2>2, FS_EmptySet
    <2>4. hilo["creacion"].en = "hay_nuevo"  BY <1>1 DEF Init, Hilos, HilosKernel, Inicio
    <2>5. QED  BY <2>1, <2>3, <2>4, ConstantesOK DEF PlazasDeGrado, B
  <1>2. QED
    BY <1>1, InvSiempre, InvTokenSiempre, InvLugaresSiempre, ManosDeExecSiempre, NextPlazas, PTL DEF Spec

-----------------------------------------------------------------------------
(* Refinement *)

\* Every step of the threads of kernel and CPU is a step of the life cycle of one process,
\* or none.
LEMMA NextCiclo ==
    ASSUME Inv, InvToken, InvLugares, ManosDeExec, PlazasDeGrado, UnaRespuesta, [Next]_vars
    PROVE  [Ciclo!Next]_estado
  <1>1. PorCrear /\ Lugar /\ Tokens \in {0, 1}  BY DEF InvLugares, InvToken
  <1>2. Vida  BY <1>1, VidaPaso
  <1>3. ASSUME CreacionAgrega, NEW p \in Pids, Ciclo!Mover(p, "NEW", "READY") PROVE Ciclo!Admitir(p)
    <2> DEFINE n == sem["grado_multi"]
               a == Cardinality(Ciclo!Admitidos)
    <2>1. B(hilo["creacion"].en \in {"pop_new", "agregar"}) = 1  BY <1>3 DEF CreacionAgrega, En, B
    <2>2. n + a + 1 = Grado  BY <2>1 DEF PlazasDeGrado
    <2>3. n \in Nat /\ a \in Nat  BY Naturales, AdmitidosFinitos DEF Semaforos
    <2> HIDE DEF n, a
    <2>4. a < Grado  BY <2>2, <2>3, ConstantesOK
    <2>5. \A S : Ciclo!Cardinality(S) = Cardinality(S)  BY DEF Ciclo!Cardinality, Cardinality
    <2>6. QED  BY <1>3, <2>4, <2>5 DEF Ciclo!Admitir, a
  <1>4. QED  BY <1>2, <1>3 DEF Vida, Ciclo!Next

\* The scheduling core implements the life cycle that it promises to every process: the
\* estado_actual of a process only takes the moves of CicloDeVida, one process at a time is
\* in EXEC, and at most Grado are admitted, as long as the CPU answers once.
THEOREM Implementa == Spec => CicloSpec
  <1>1. Init => Ciclo!Init  BY DEF Init, Ciclo!Init
  <1>2. Inv /\ InvToken /\ InvLugares /\ ManosDeExec /\ PlazasDeGrado /\ [Next]_vars
          => [UnaRespuesta => Ciclo!Next]_estado
    BY NextCiclo
  <1>3. QED
    BY <1>1, <1>2, InvSiempre, InvTokenSiempre, InvLugaresSiempre, ManosDeExecSiempre, PlazasSiempre, PTL
    DEF Spec, CicloSpec

\* The workloads of which the CPU answers once whatever happens: FIFO interrupts nobody, and
\* only a RESIZE runs out of memory.
SinDobleRespuesta ==
    Algoritmo = "FIFO" \/ \A p \in Pids : \A k \in 1 .. Len(Programa[p]) : Programa[p][k].op # "RESIZE"

\* A program without RESIZE never runs out of memory.
LEMMA UnaRespuestaPaso ==
    ASSUME SinDobleRespuesta, Inv, UnaRespuesta, [Next]_vars PROVE UnaRespuesta'
  <1>1. CASE Algoritmo = "FIFO"  BY <1>1 DEF UnaRespuesta
  <1>2. CASE Algoritmo # "FIFO"
    <2>1. "out_of_memory" \notin flags  BY <1>2 DEF UnaRespuesta
    <2>2. CASE CpuEjecuta
      <3>1. cpu.pid \in Pids /\ pc[cpu.pid] \in 1 .. Len(Programa[cpu.pid])
        <4>1. cpu.pid \in Pids  BY <2>2 DEF CpuEjecuta, Inv, CpuLlena
        <4>2. Len(Programa[cpu.pid]) \in Nat  BY <4>1, ConstantesOK
        <4>3. QED  BY <2>2, <4>1, <4>2 DEF CpuEjecuta, HayInstruccion, Inv, TypeOK, TipoCpu
      <3>2. Proxima.op # "RESIZE"  BY <1>2, <3>1 DEF SinDobleRespuesta, Proxima
      <3>3. QED  BY <2>1, <2>2, <3>2 DEF CpuEjecuta, UnaRespuesta
    <2>3. CASE CpuRecibePcb \/ CpuChequea \/ CpuTermina \/ CpuRecibeInterrupcion
      BY <2>1, <2>3 DEF CpuRecibePcb, CpuChequea, CpuTermina, CpuRecibeInterrupcion, UnaRespuesta
    <2>4. CASE Next /\ ~(CpuDispatch \/ CpuRecibeInterrupcion)
      BY <2>1, <2>4, HilosConservan DEF Next, Conserva, UnaRespuesta
    <2>5. CASE UNCHANGED vars  BY <2>1, <2>5 DEF vars, cpuVars, UnaRespuesta
    <2>6. QED  BY <2>2, <2>3, <2>4, <2>5 DEF CpuDispatch
  <1>3. QED  BY <1>1, <1>2

\* Under FIFO, and under RR and VRR with programs that do not RESIZE, it implements the life
\* cycle with no condition.
THEOREM ImplementaCiclo == ASSUME SinDobleRespuesta PROVE Spec => Ciclo!Spec
  <1>1. Init => UnaRespuesta  BY DEF Init, UnaRespuesta
  <1>2. Inv /\ UnaRespuesta /\ [Next]_vars => UnaRespuesta'  BY UnaRespuestaPaso
  <1>3. Spec => []UnaRespuesta  BY <1>1, <1>2, InvSiempre, PTL DEF Spec
  <1>4. Inv /\ InvToken /\ InvLugares /\ ManosDeExec /\ PlazasDeGrado /\ UnaRespuesta /\ [Next]_vars
          => [Ciclo!Next]_estado
    BY NextCiclo
  <1>5. Init => Ciclo!Init  BY DEF Init, Ciclo!Init
  <1>6. QED
    BY <1>3, <1>4, <1>5, InvSiempre, InvTokenSiempre, InvLugaresSiempre, ManosDeExecSiempre, PlazasSiempre,
       PTL
    DEF Spec, Ciclo!Spec
=============================================================================
