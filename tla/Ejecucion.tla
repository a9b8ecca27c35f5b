------------------------------ MODULE Ejecucion ------------------------------
(***************************************************************************)
(* The execution of the instructions (cpu/src/main.c) and the messages     *)
(* that carry them: the one register file of the CPU, the PCB that travels *)
(* between kernel and CPU, and the packet of an I/O instruction, which the *)
(* CPU writes, the kernel splits and the interface reads                   *)
(* (utils/src/utils/utils.c, kernel/src/dispatch.c,                        *)
(* entradasalida/src/main.c).  Scheduling is reduced to a queue and to     *)
(* interruptions that come at any moment; module Planificador has the      *)
(* rest.  WAIT and SIGNAL are in Recursos, the instructions that touch the *)
(* memory in Mmu and Memoria.                                              *)
(***************************************************************************)
EXTENDS Integers, FiniteSets, Sequences, SequencesExt

CONSTANTS
    Pids, Cargas, Ancho8, Ancho32, Atoi, Traduccion, Conexiones,  \* as in Maquina
    Longitud,          \* strlen(s) + 1 of each string that is a parameter
    Basura,            \* what a variable holds that no read has set
    MaxInterrupciones  \* bound on the interruptions on their way to the CPU

Nadie == -1
Nombres == DOMAIN Conexiones

Cortos == {"AX", "BX", "CX", "DX"}
Largos == {"EAX", "EBX", "ECX", "EDX", "SI", "DI", "PC"}
Registros == Cortos \union Largos

\* The words a program may be written with, and how many each instruction takes.
Palabras == DOMAIN Longitud
Operandos(op) ==
    CASE op = "EXIT" -> 0
      [] op \in {"SET", "SUM", "SUB", "JNZ", "IO_GEN_SLEEP", "IO_FS_CREATE", "IO_FS_DELETE"} -> 2
      [] op \in {"IO_STDIN_READ", "IO_STDOUT_WRITE", "IO_FS_TRUNCATE"} -> 3
      [] op \in {"IO_FS_WRITE", "IO_FS_READ"} -> 5
Operaciones == {"EXIT", "SET", "SUM", "SUB", "JNZ", "IO_GEN_SLEEP", "IO_STDIN_READ", "IO_STDOUT_WRITE",
                "IO_FS_CREATE", "IO_FS_DELETE", "IO_FS_TRUNCATE", "IO_FS_WRITE", "IO_FS_READ"}

\* Bytes of the first k pieces of a translation.
Sumados(ds, k) ==
    LET suma[i \in 0..Len(ds)] ==
            IF i = 0 THEN 0 ELSE suma[i - 1] + ds[i].desplazamiento_necesario
    IN  suma[k]

ASSUME EjecucionOK ==
    /\ Pids \subseteq Nat /\ IsFiniteSet(Pids) /\ Ancho8 \in Nat \ {0, 1}
    /\ Ancho32 \in Nat /\ Ancho32 > Ancho8 /\ Ancho32 % Ancho8 = 0
    /\ \A c \in Cargas : DOMAIN c = Pids
    /\ MaxInterrupciones \in Nat

\* Programs give each instruction its parameters and are shorter than a register can count.
ASSUME ProgramasOK ==
    /\ Longitud \in [Palabras -> Nat \ {0}] /\ Atoi \in [Palabras -> 0..Ancho32 - 1]
    /\ \A c \in Cargas : \A p \in Pids :
          /\ c[p] \in Seq([op : Operaciones, params : Seq(Palabras)]) /\ Len(c[p]) < Ancho32
          /\ \A k \in DOMAIN c[p] : Len(c[p][k].params) = Operandos(c[p][k].op)

\* A translation is cut in pieces that add up to what was asked for (Direcciona of Mmu).
ASSUME TraduccionOK ==
    \A p \in Pids, dl, n \in 0..Ancho32 - 1 :
       LET ds == Traduccion[p, dl, n] IN
       /\ ds \in Seq([direccion_fisica : Nat, desplazamiento_necesario : Nat])
       /\ ds # <<>> => Sumados(ds, Len(ds)) = n

ASSUME ConexionesOK == \A n \in Nombres : Conexiones[n] \in {"GENERICA", "STDIN", "STDOUT", "DIALFS"}

VARIABLES
    programa,          \* the instructions that memory holds for each process
    pcb,               \* the PCBs in the kernel
    ready,             \* cola_procesos_ready
    cpu_libre,         \* the semaphore: may another process be dispatched?
    pcb_en_ejecucion,  \* pid of the last process dispatched
    despacho,          \* conexion_dispatch, towards the CPU
    desalojo,          \* conexion_dispatch, towards the kernel
    interrupt,         \* conexion_interrupt
    interrupcion_recibida,
    cpu,               \* the PCB that comenzar_proceso has in hand
    registros_cpu,
    flags,             \* those that end the loop of comenzar_proceso
    cola_io,           \* colas_blocks_io: what each interface has to do
    servicio,          \* what each interface was told last and what is left of it
    obra               \* history: what an interface read last on behalf of each process

kernelVars == <<pcb, ready, cpu_libre, pcb_en_ejecucion>>
ioVars == <<cola_io, servicio, obra>>
vars == <<programa, kernelVars, despacho, desalojo, interrupt, interrupcion_recibida, cpu,
          registros_cpu, flags, ioVars>>

--------------------------------------------------------------------------------
(* Buffers: a sequence of fields, each with its value and its size in bytes.  The
   sizes are those of the code: 4 for an integer or an enumeration, SIZE_REGISTROS
   for the registers, param_length for a string.  Everything is read in order, so
   the read number i takes field i if it asks for its size, and leaves garbage when it
   asks for another or the buffer has ended. *)

Dato(v, n) == <<[valor |-> v, tam |-> n]>>
Entero(v) == Dato(v, 4)

Campo(b, i, n) == IF i <= Len(b) /\ b[i].tam = n THEN b[i].valor ELSE Basura
Numero(b, i) == Campo(b, i, 4)

\* Bytes of the first j fields.
Bytes(b, j) ==
    LET suma[i \in 0..Len(b)] == IF i = 0 THEN 0 ELSE suma[i - 1] + b[i].tam IN suma[j]

\* n bytes of a buffer, whatever fields they are.
Tramo(b, n) ==
    LET cortes == {j \in DOMAIN b : Bytes(b, j) = n}
    IN  IF cortes = {} THEN Dato(Basura, n) ELSE SubSeq(b, 1, CHOOSE j \in cortes : TRUE)

\* enviar_pcb, recibir_pcb
SerializarPcb(p) == Entero(p.pid) \o Entero(p.pc) \o Entero(p.quantum)
                    \o Dato(p.registros, 32) \o Entero(p.estado_actual)

RecibidoPcb(b) == [pid |-> Numero(b, 1), pc |-> Numero(b, 2), quantum |-> Numero(b, 3),
                   registros |-> Campo(b, 4, 32), estado_actual |-> Numero(b, 5)]

\* crear_instruccion gives the length of each parameter, serializar_instruccion
\* writes the five lengths and then the parameters that there are.
LargoDe(ins, i) == IF i <= Len(ins.params) THEN Longitud[ins.params[i]] ELSE 0

SerializarInstruccion(ins) ==
    Entero(ins.op) \o Entero(Len(ins.params))
    \o FlattenSeq([i \in 1..5 |-> Entero(LargoDe(ins, i))])
    \o FlattenSeq([i \in 1..Len(ins.params) |-> Dato(ins.params[i], LargoDe(ins, i))])

\* instruccion_deserializar
Deserializada(b) ==
    LET largo == [i \in 1..5 |-> Numero(b, 2 + i)]
    IN  [op |-> Numero(b, 1), largo |-> largo,
         params |-> [i \in 1..Numero(b, 2) |-> Campo(b, 7 + i, largo[i])]]

--------------------------------------------------------------------------------
(* The registers.  A function that returns -1 for a name it does not know returns
   the largest value of its type. *)

get_registro_int8(r, n) == IF n \in Cortos THEN r[n] ELSE Ancho8 - 1
get_registro_int32(r, n) == IF n \in Largos THEN r[n] ELSE Ancho32 - 1
get_registro_generico(r, n) == IF n \in Registros THEN r[n] ELSE Ancho32 - 1

\* Mutant: AX..DX get their value without the cast to u_int8_t.
set_registro_SinCast(r, n, v) ==
    IF n \in Registros THEN [r EXCEPT ![n] = v % Ancho32] ELSE r

set_registro(r, n, v) ==
    CASE n \in Cortos -> [r EXCEPT ![n] = v % Ancho8]
      [] n \in Largos -> [r EXCEPT ![n] = v % Ancho32]
      [] OTHER -> r

\* The value that sum_registro and sub_registro take from the source.
Origen(r, d, o) ==
    IF o \in Cortos THEN get_registro_int8(r, o)
    ELSE IF d \in Cortos THEN get_registro_int32(r, o) % Ancho8
    ELSE get_registro_int32(r, o)

Acumular(r, d, v) ==
    CASE d \in Cortos -> [r EXCEPT ![d] = (@ + v) % Ancho8]
      [] d \in Largos -> [r EXCEPT ![d] = (@ + v) % Ancho32]
      [] OTHER -> r

sum_registro(r, d, o) == Acumular(r, d, Origen(r, d, o))
sub_registro(r, d, o) == Acumular(r, d, -Origen(r, d, o))

\* SI and DI are in none of the two lists of names.
JNZ_registro(r, n, v) ==
    LET valor == IF n \in Cortos THEN get_registro_int8(r, n) ELSE get_registro_int32(r, n)
    IN  IF n \in Registros \ {"SI", "DI"} /\ valor # 0 THEN [r EXCEPT !["PC"] = v] ELSE r

Calculos == {"SET", "SUM", "SUB", "JNZ"}

Calculada(ins, r) ==
    LET a == ins.params[1]  b == ins.params[2] IN
    CASE ins.op = "SET" -> set_registro(r, a, Atoi[b])
      [] ins.op = "SUM" -> sum_registro(r, a, b)
      [] ins.op = "SUB" -> sub_registro(r, a, b)
      [] ins.op = "JNZ" -> JNZ_registro(r, a, Atoi[b])

--------------------------------------------------------------------------------
(* The packet of an I/O instruction. *)

\* The addresses and the size of what is to be moved, when the instruction moves data:
\* its parameters say where and how much.
Movida(ins, p, r) ==
    LET arg(i) == get_registro_generico(r, ins.params[i])
        mov(dl, n) == [tamanio |-> n, direcciones |-> Traduccion[p, dl, n]]
    IN  CASE ins.op = "IO_STDIN_READ" -> mov(arg(2), arg(3))
          [] ins.op = "IO_STDOUT_WRITE" -> mov(arg(2), (arg(3) + 1) % Ancho32)
          [] ins.op \in {"IO_FS_WRITE", "IO_FS_READ"} -> mov(arg(3), arg(4))

\* enviar_soli_lectura_sin_pid
Solicitud(m) ==
    Entero(Len(m.direcciones)) \o Entero(m.tamanio)
    \o FlattenSeq([i \in DOMAIN m.direcciones |->
          Entero(m.direcciones[i].direccion_fisica)
          \o Entero(m.direcciones[i].desplazamiento_necesario)])

TamSolicitud(m) == 8 * Len(m.direcciones) + 8

ConNombre(ins) == Entero(ins.op) \o Entero(ins.largo[2]) \o Dato(ins.params[2], ins.largo[2])
TamNombre(ins) == ins.largo[2] + 8

\* tam_a_enviar, which each instruction computes by hand.
\* Mutant: puntero is not counted.
TamDeFichero_SinPuntero(ins, m) == TamNombre(ins) + TamSolicitud(m)

TamDeFichero(ins, m) == TamNombre(ins) + TamSolicitud(m) + 4

TamAEnviar(ins, m) ==
    CASE ins.op = "IO_GEN_SLEEP" -> 4
      [] ins.op \in {"IO_STDIN_READ", "IO_STDOUT_WRITE"} -> TamSolicitud(m)
      [] ins.op \in {"IO_FS_CREATE", "IO_FS_DELETE"} -> TamNombre(ins)
      [] ins.op = "IO_FS_TRUNCATE" -> TamNombre(ins) + 4
      [] ins.op \in {"IO_FS_WRITE", "IO_FS_READ"} -> TamDeFichero(ins, m)

\* The data that tam_a_enviar counts.
Carga(ins, r, m) ==
    LET arg(i) == get_registro_generico(r, ins.params[i]) IN
    CASE ins.op = "IO_GEN_SLEEP" -> Entero(Atoi[ins.params[2]])
      [] ins.op \in {"IO_STDIN_READ", "IO_STDOUT_WRITE"} -> Solicitud(m)
      [] ins.op \in {"IO_FS_CREATE", "IO_FS_DELETE"} -> ConNombre(ins)
      [] ins.op = "IO_FS_TRUNCATE" -> ConNombre(ins) \o Entero(arg(3))
      [] ins.op \in {"IO_FS_WRITE", "IO_FS_READ"} ->
            ConNombre(ins) \o Solicitud(m) \o Entero(arg(5))

Paquete(ins, p, r) ==
    Entero(ins.op) \o Entero(ins.largo[1]) \o Dato(ins.params[1], ins.largo[1])
    \o Entero(TamAEnviar(ins, Movida(ins, p, r))) \o Carga(ins, r, Movida(ins, p, r))

\* What the interface reads from field i on: cantidad_marcos, tamanio and addresses.
Leidas(b, i) ==
    [tamanio |-> Numero(b, i + 1),
     direcciones |-> [k \in 1..Numero(b, i) |->
        [direccion_fisica |-> Numero(b, i + 2 * k),
         desplazamiento_necesario |-> Numero(b, i + 2 * k + 1)]]]

\* The interface asks memory for the bytes (enviar_soli_lectura) or gives them to it
\* (enviar_soli_escritura, where the last piece takes what is left), and these are the
\* pieces that memory moves: one whose bytes do not come whole is garbage.
PiezasLeidas(pid, m) == Leidas(Entero(pid) \o Solicitud(m), 2).direcciones

SoliEscritura(pid, m) ==
    LET n == Len(m.direcciones)
        pieza(k) == m.direcciones[k].desplazamiento_necesario
    IN  Entero(pid) \o Entero(n)
        \o FlattenSeq([k \in 1..n |->
              Entero(m.direcciones[k].direccion_fisica) \o Entero(pieza(k))
              \o Dato("bytes", IF k = n THEN m.tamanio - Sumados(m.direcciones, k - 1) ELSE pieza(k))])

PiezasEscritas(pid, m) ==
    LET b == SoliEscritura(pid, m) IN
    [k \in 1..Numero(b, 2) |->
        [direccion_fisica |-> Numero(b, 3 * k),
         desplazamiento_necesario |->
            IF Campo(b, 3 * k + 2, Numero(b, 3 * k + 1)) = "bytes" THEN Numero(b, 3 * k + 1)
            ELSE Basura]]

\* atender_cliente of entradasalida: how each type of interface reads the buffer.
LeidaFS(b) ==
    LET op == Numero(b, 2)
        nombre == Campo(b, 4, Numero(b, 3))
        m == Leidas(b, 5)
        piezas == IF op = "IO_FS_WRITE" THEN PiezasLeidas(Numero(b, 1), m)
                  ELSE PiezasEscritas(Numero(b, 1), m)
    IN
    CASE op \in {"IO_FS_CREATE", "IO_FS_DELETE"} -> [op |-> op, nombre |-> nombre]
      [] op = "IO_FS_TRUNCATE" -> [op |-> op, nombre |-> nombre, tamanio |-> Numero(b, 5)]
      [] op \in {"IO_FS_WRITE", "IO_FS_READ"} ->
            [op |-> op, nombre |-> nombre, tamanio |-> m.tamanio, direcciones |-> piezas,
             puntero |-> Numero(b, 7 + 2 * Numero(b, 5))]

Leida(tipo, b) ==
    LET pid == Numero(b, 1)  m == Leidas(b, 2) IN
    CASE tipo = "GENERICA" -> [op |-> "IO_GEN_SLEEP", unidad |-> Numero(b, 2)]
      [] tipo = "STDIN" -> [op |-> "IO_STDIN_READ", tamanio |-> m.tamanio,
                            direcciones |-> PiezasEscritas(pid, m)]
      [] tipo = "STDOUT" -> [op |-> "IO_STDOUT_WRITE", tamanio |-> m.tamanio,
                             direcciones |-> PiezasLeidas(pid, m)]
      [] tipo = "DIALFS" -> LeidaFS(b)

--------------------------------------------------------------------------------
(* The steps. *)

Registros0 == [r \in Registros |-> 0]

\* What comenzar_proceso has in hand while the CPU waits for a PCB.
Vacio == [pid |-> Nadie, pc |-> 0, quantum |-> 0, registros |-> Registros0,
          estado_actual |-> "READY"]
Ocioso == [pid |-> Nadie, fase |-> "libre", buffer |-> <<>>]

\* crear_pcb; the processes have been admitted in the order of their pids.
Init ==
    /\ programa \in Cargas
    /\ pcb = [p \in Pids |-> [Vacio EXCEPT !.pid = p]]
    /\ ready \in {s \in SetToSeqs(Pids) : \A i, j \in DOMAIN s : i < j => s[i] < s[j]}
    /\ cpu_libre = TRUE /\ pcb_en_ejecucion = Nadie
    /\ despacho = <<>> /\ desalojo = <<>> /\ interrupt = <<>>
    /\ interrupcion_recibida = Nadie
    /\ cpu = Vacio /\ registros_cpu = Registros0 /\ flags = {}
    /\ cola_io = [n \in Nombres |-> <<>>]
    /\ servicio = [n \in Nombres |-> Ocioso]
    /\ obra = [p \in Pids |-> [op |-> "NADA"]]

\* iniciar_planificador_corto_plazo and ejecutar_PCB
Despachar ==
    /\ ready # <<>> /\ cpu_libre
    /\ LET p == [pcb[Head(ready)] EXCEPT !.estado_actual = "EXEC"]
       IN  /\ pcb' = [pcb EXCEPT ![p.pid] = p]
           /\ pcb_en_ejecucion' = p.pid
           /\ despacho' = Append(despacho, SerializarPcb(p))
    /\ ready' = Tail(ready)
    /\ cpu_libre' = FALSE
    /\ UNCHANGED <<programa, desalojo, interrupt, interrupcion_recibida, cpu, registros_cpu,
                   flags, ioVars>>

\* verificar_quantum: the timer may expire as late as it likes.
EnviarInterrupcion ==
    /\ pcb_en_ejecucion # Nadie /\ Len(interrupt) < MaxInterrupciones
    /\ interrupt' = Append(interrupt, Entero(pcb_en_ejecucion) \o Entero("FIN_CLOCK"))
    /\ UNCHANGED <<programa, kernelVars, despacho, desalojo, interrupcion_recibida, cpu,
                   registros_cpu, flags, ioVars>>

\* iniciar_servidor_interrupt
RecibirInterrupcion ==
    /\ interrupt # <<>>
    /\ interrupcion_recibida' = Numero(Head(interrupt), 1)
    /\ interrupt' = Tail(interrupt)
    /\ UNCHANGED <<programa, kernelVars, despacho, desalojo, cpu, registros_cpu, flags, ioVars>>

\* iniciar_servidor_dispatch takes a PCB and calls comenzar_proceso.
RecibirPcb ==
    /\ cpu.pid = Nadie /\ despacho # <<>>
    /\ cpu' = RecibidoPcb(Head(despacho))
    /\ registros_cpu' = [cpu'.registros EXCEPT !["PC"] = cpu'.pc]
    /\ flags' = flags \ {"input_ouput"}
    /\ despacho' = Tail(despacho)
    /\ UNCHANGED <<programa, kernelVars, desalojo, interrupt, interrupcion_recibida, ioVars>>

\* enviar_motivo_desalojo and enviar_pcb; a packet may follow.
Desalojar(motivo, p, resto) ==
    desalojo' = desalojo \o <<[op |-> motivo, buffer |-> <<>>],
                              [op |-> "PCB", buffer |-> SerializarPcb(p)]>> \o resto

\* The instruction that memory answers, as the CPU reads it, and the registers once
\* siguiente_instruccion has moved PC.
Instrucciones == UNION {Range(c[p]) : c \in Cargas, p \in Pids}
Enviada == [ins \in Instrucciones |-> Deserializada(SerializarInstruccion(ins))]
Traida == Enviada[programa[cpu.pid][registros_cpu["PC"] + 1]]
Avanzados == [registros_cpu EXCEPT !["PC"] = (@ + 1) % Ancho32]

\* The pass of comenzar_proceso over one instruction: fetch, execution and
\* check_interrupt, which raises interruption_flag.
Pasada(nuevas) ==
    flags' = nuevas \union (IF interrupcion_recibida = cpu.pid THEN {"interruption"} ELSE {})

Calcular(ins) ==
    /\ ins.op \in Calculos
    /\ registros_cpu' = Calculada(ins, Avanzados)
    /\ Pasada({})
    /\ UNCHANGED <<cpu, desalojo>>

\* The PCB as every instruction that leaves the CPU stores it.
\* Mutant: pcb->pc is not stored.
Guardado_SinPc(r) == [cpu EXCEPT !.registros = r]

Guardado(r) == [cpu EXCEPT !.registros = r, !.pc = r["PC"]]

PedirIO(ins) ==
    /\ ins.op \notin Calculos \union {"EXIT"}
    /\ registros_cpu' = Avanzados
    /\ cpu' = Guardado(Avanzados)
    /\ Desalojar("OPERACION_IO", cpu',
                 <<[op |-> "OPERACION_IO", buffer |-> Paquete(ins, cpu.pid, Avanzados)]>>)
    /\ Pasada({"input_ouput"})

Exit(ins) ==
    /\ ins.op = "EXIT"
    /\ registros_cpu' = Avanzados
    /\ Pasada({"end_process"})
    /\ UNCHANGED <<cpu, desalojo>>

\* Past the end of the program memory has no instruction to send, and dies of it.
Ciclo ==
    /\ cpu.pid # Nadie /\ flags = {}
    /\ registros_cpu["PC"] < Len(programa[cpu.pid])
    /\ LET ins == Traida IN Calcular(ins) \/ PedirIO(ins) \/ Exit(ins)
    /\ UNCHANGED <<programa, kernelVars, despacho, interrupt, interrupcion_recibida, ioVars>>

\* Mutant: interruption_flag stays raised.
accion_interrupt_SinBajar(p) == Desalojar("FIN_CLOCK", p, <<>>) /\ UNCHANGED flags

accion_interrupt(p) == Desalojar("FIN_CLOCK", p, <<>>) /\ flags' = flags \ {"interruption"}

\* What comenzar_proceso does after its loop.  The interruption of an I/O
\* instruction is not answered and its flag stays raised.
Dejar(p) ==
    \/ /\ "end_process" \in flags
       /\ Desalojar("END_PROCESS", p, <<>>)
       /\ flags' = flags \ {"end_process", "interruption"}
    \/ /\ "interruption" \in flags /\ flags \intersect {"end_process", "input_ouput"} = {}
       /\ accion_interrupt(p)
    \/ /\ "end_process" \notin flags /\ "input_ouput" \in flags
       /\ flags' = flags \ {"input_ouput"}
       /\ UNCHANGED desalojo

DejarCpu ==
    /\ cpu.pid # Nadie /\ flags # {}
    /\ Dejar(Guardado(registros_cpu))
    /\ cpu' = Vacio
    /\ UNCHANGED <<programa, kernelVars, despacho, interrupt, interrupcion_recibida,
                   registros_cpu, ioVars>>

\* recibir_dispatch: the reason, the PCB and, with OPERACION_IO, the packet.
Recibido == RecibidoPcb(desalojo[2].buffer)

Atender(motivo, mensajes) ==
    /\ Len(desalojo) >= mensajes /\ desalojo[1].op = motivo
    /\ desalojo' = SubSeq(desalojo, mensajes + 1, Len(desalojo))
    /\ cpu_libre' = TRUE
    /\ UNCHANGED <<programa, pcb_en_ejecucion, despacho, interrupt, interrupcion_recibida,
                   cpu, registros_cpu, flags, servicio, obra>>

Anotar(p, estado) == pcb' = [pcb EXCEPT ![p.pid] = [p EXCEPT !.estado_actual = estado]]

AtenderFinClock ==
    /\ Atender("FIN_CLOCK", 2)
    /\ Anotar(Recibido, "READY")
    /\ ready' = Append(ready, Recibido.pid)
    /\ UNCHANGED cola_io

AtenderEndProcess ==
    /\ Atender("END_PROCESS", 2)
    /\ Anotar(Recibido, "TERMINATED")
    /\ UNCHANGED <<ready, cola_io>>

esOperacionValida(op, tipo) ==
    CASE tipo = "GENERICA" -> op = "IO_GEN_SLEEP"
      [] tipo = "STDIN" -> op = "IO_STDIN_READ"
      [] tipo = "STDOUT" -> op = "IO_STDOUT_WRITE"
      [] tipo = "DIALFS" -> op \in {"IO_FS_TRUNCATE", "IO_FS_READ", "IO_FS_WRITE",
                                    "IO_FS_CREATE", "IO_FS_DELETE"}

\* OPERACION_IO: the kernel reads the operation and the name and keeps the rest
\* of the packet, tam_info bytes of it, for the interface.
AtenderIO ==
    /\ Atender("OPERACION_IO", 3)
    /\ UNCHANGED ready
    /\ LET b == desalojo[3].buffer
           nombre == Campo(b, 3, Numero(b, 2))
           valida == /\ nombre \in Nombres
                     /\ esOperacionValida(Numero(b, 1), Conexiones[nombre])
       IN
       \/ /\ ~valida
          /\ Anotar(Recibido, "TERMINATED")
          /\ UNCHANGED cola_io
       \/ /\ valida
          /\ Anotar(Recibido, "BLOCKED")
          /\ cola_io' = [cola_io EXCEPT ![nombre] = Append(@,
                [pid |-> Recibido.pid, info |-> Tramo(SubSeq(b, 5, Len(b)), Numero(b, 4))])]

\* atender_interfaz and ejecutar_instruccion_io
EjecutarIO(n) ==
    /\ cola_io[n] # <<>> /\ servicio[n] = Ocioso
    /\ LET i == Head(cola_io[n]) IN
       servicio' = [servicio EXCEPT ![n] =
           [pid |-> i.pid, fase |-> "enviado", buffer |-> Entero(i.pid) \o i.info]]
    /\ cola_io' = [cola_io EXCEPT ![n] = Tail(@)]
    /\ UNCHANGED <<programa, kernelVars, despacho, desalojo, interrupt, interrupcion_recibida,
                   cpu, registros_cpu, flags, obra>>

\* atender_cliente of the interface, until it answers IO_SUCCESS.
Interfaz(n) ==
    /\ servicio[n].fase = "enviado"
    /\ obra' = [obra EXCEPT ![Numero(servicio[n].buffer, 1)] =
                    Leida(Conexiones[n], servicio[n].buffer)]
    /\ servicio' = [servicio EXCEPT ![n].fase = "hecho", ![n].buffer = <<>>]
    /\ UNCHANGED <<programa, kernelVars, despacho, desalojo, interrupt, interrupcion_recibida,
                   cpu, registros_cpu, flags, cola_io>>

\* atender_interfaz, from the answer on.
TerminarIO(n) ==
    /\ servicio[n].fase = "hecho"
    /\ pcb' = [pcb EXCEPT ![servicio[n].pid].estado_actual = "READY"]
    /\ ready' = Append(ready, servicio[n].pid)
    /\ servicio' = [servicio EXCEPT ![n] = Ocioso]
    /\ UNCHANGED <<programa, cpu_libre, pcb_en_ejecucion, despacho, desalojo, interrupt,
                   interrupcion_recibida, cpu, registros_cpu, flags, cola_io, obra>>

Cpu == RecibirPcb \/ Ciclo \/ DejarCpu
Kernel == AtenderFinClock \/ AtenderEndProcess \/ AtenderIO

IO == \E n \in Nombres : EjecutarIO(n) \/ Interfaz(n) \/ TerminarIO(n)
Sistema == Despachar \/ Cpu \/ Kernel \/ IO

Next == Sistema \/ EnviarInterrupcion \/ RecibirInterrupcion

Spec == Init /\ [][Next]_vars

\* The threads do not all stop while one of them can go on: the least that running
\* them assures.  Nothing obliges the timer to expire nor an interruption to arrive.
FairSpec == Spec /\ WF_vars(Sistema)

--------------------------------------------------------------------------------
(* Properties. *)

\* A register never holds more than its width, wherever the PCB that carries it is:
\* SET, SUM and SUB cut what they store (set_registro, sum_registro, sub_registro).
TypeOK ==
    /\ programa \in Cargas
    /\ \A p \in Pids : pcb[p].pid = p
    /\ \A r \in {registros_cpu, cpu.registros} \union {pcb[p].registros : p \in Pids} :
          \A n \in Registros : r[n] \in 0..(IF n \in Cortos THEN Ancho8 ELSE Ancho32) - 1
    /\ ready \in Seq(Pids) /\ cpu_libre \in BOOLEAN
    /\ {pcb_en_ejecucion, interrupcion_recibida, cpu.pid} \subseteq Pids \union {Nadie}
    /\ Len(despacho) <= 1 /\ Len(desalojo) <= 3 /\ Len(interrupt) <= MaxInterrupciones
    /\ flags \subseteq {"end_process", "interruption", "input_ouput"}

\* The program counter is kept twice, pc in the PCB and PC among its registers, and
\* the CPU believes the first: the two agree in the PCB of every process that is not in
\* the CPU, whatever evicted it.
PcCoherente ==
    \A p \in Pids : pcb[p].estado_actual # "EXEC" => pcb[p].pc = pcb[p].registros["PC"]

(* Where the state of a process is: in the CPU, in a PCB on its way, or in the
   kernel.  Its registers count with PC as the next instruction to execute. *)

DeVuelta(p) == \E i \in DOMAIN desalojo :
    desalojo[i].op = "PCB" /\ Numero(desalojo[i].buffer, 1) = p
DeIda(p) == \E i \in DOMAIN despacho : Numero(despacho[i], 1) = p

PcbDe(p) ==
    CASE cpu.pid = p -> Guardado(registros_cpu)
      [] cpu.pid # p /\ DeVuelta(p) -> Recibido
      [] cpu.pid # p /\ ~DeVuelta(p) /\ DeIda(p) -> RecibidoPcb(despacho[1])
      [] OTHER -> pcb[p]

Pide(p) ==
    \/ DeVuelta(p) /\ desalojo[1].op = "OPERACION_IO"
    \/ \E n \in Nombres :
          \/ \E i \in DOMAIN cola_io[n] : cola_io[n][i].pid = p
          \/ servicio[n].pid = p /\ servicio[n].fase = "enviado"

Vive(p) ==
    /\ pcb[p].estado_actual # "TERMINATED"
    /\ ~(cpu.pid = p /\ "end_process" \in flags)
    /\ ~(DeVuelta(p) /\ desalojo[1].op = "END_PROCESS")

Maq == INSTANCE Maquina WITH
    reg <- [p \in Pids |-> LET q == PcbDe(p) IN [q.registros EXCEPT !["PC"] = q.pc]],
    pidiendo <- {p \in Pids : Pide(p)},
    vivos <- {p \in Pids : Vive(p)}

\* Each process computes as if it were alone and each interface does what the
\* instruction said with the values of its registers, although they share one register
\* file, may be evicted after any instruction, travel in a PCB, and their I/O packet is
\* written, split and read by three programs.
ComputaSola == Maq!Spec

\* Every process ends, whatever interruptions come: one that was evicted executes an
\* instruction at least before the next interruption of its own, and a flag left raised
\* by an I/O instruction evicts only once.
Terminan == \A p \in Pids : <>(pcb[p].estado_actual = "TERMINATED")
=============================================================================
