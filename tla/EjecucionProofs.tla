--------------------------- MODULE EjecucionProofs ---------------------------
(***************************************************************************)
(* The PCB of a process survives its journeys: the two program counters    *)
(* agree wherever the kernel has it (PcCoherente), no register holds more  *)
(* than its width (TypeOK), and with one register file, interruptions and  *)
(* packets that three programs write and read each process computes as if  *)
(* it were alone (ComputaSola, the refinement of Maquina).                 *)
(***************************************************************************)
EXTENDS Ejecucion, ListasProofs, FiniteSetTheorems

-----------------------------------------------------------------------------
(* The invariant *)

\* A value with the five fields of a PCB, whatever they hold.
EsPcb(q) == q = [pid |-> q.pid, pc |-> q.pc, quantum |-> q.quantum, registros |-> q.registros,
                 estado_actual |-> q.estado_actual]
Coherente(q) == q.pc = q.registros["PC"]

Pcbs ==
    /\ pcb = [p \in Pids |-> pcb[p]]
    /\ \A p \in Pids : /\ EsPcb(pcb[p]) /\ pcb[p].pid = p
                       /\ pcb[p].estado_actual # "EXEC" => Coherente(pcb[p])
    /\ EsPcb(cpu) /\ cpu.pid \in Pids \union {Nadie}

\* The CPU has a process that it has not sent back.
Activa == cpu.pid # Nadie /\ "input_ouput" \notin flags

\* At most one of: the permission to dispatch, a PCB on its way to the CPU, a process in the
\* CPU, an eviction on its way to the kernel.
UnSitio ==
    /\ cpu_libre => despacho = <<>> /\ desalojo = <<>> /\ ~Activa
    /\ despacho # <<>> => desalojo = <<>> /\ ~Activa
    /\ desalojo # <<>> => ~Activa

FlagsFieles ==
    /\ flags \subseteq {"end_process", "interruption", "input_ouput"}
    /\ ~({"end_process", "input_ouput"} \subseteq flags)
    /\ cpu.pid = Nadie => flags \subseteq {"interruption"}

\* A sequence is its length and its elements.
EsSec(s) == Len(s) \in Nat /\ s = [i \in 1..Len(s) |-> s[i]]

\* What travels is the PCB of a process that for the kernel is in EXEC.
EnExec(p) == p \in Pids /\ pcb[p].estado_actual = "EXEC"
DespachoFiel ==
    despacho # <<>> =>
        /\ Len(despacho) = 1 /\ EsSec(despacho)
        /\ \E p \in Pids : EnExec(p) /\ despacho[1] = SerializarPcb(pcb[p]) /\ Coherente(pcb[p])
DesalojoFiel ==
    desalojo # <<>> =>
        /\ desalojo[1].op \in {"FIN_CLOCK", "END_PROCESS", "OPERACION_IO"}
        /\ EsSec(desalojo) /\ Len(desalojo) = IF desalojo[1].op = "OPERACION_IO" THEN 3 ELSE 2
        /\ EnExec(Recibido.pid) /\ Coherente(Recibido)
CpuFiel == Activa => EnExec(cpu.pid)

\* READY has each process once.
ReadyFiel ==
    /\ ready \in Seq(Pids) /\ IsInjective(ready)
    /\ \A p \in Pids : Contains(ready, p) => pcb[p].estado_actual = "READY"

\* A process in BLOCKED waits for one interface, once.
EnServicio(n, p) == servicio[n].pid = p /\ servicio[n].fase # "libre"
Espera(n, p) == (\E i \in 1..Len(cola_io[n]) : cola_io[n][i].pid = p) \/ EnServicio(n, p)
IOFiel ==
    /\ cola_io = [n \in Nombres |-> cola_io[n]] /\ servicio = [n \in Nombres |-> servicio[n]]
    /\ \A n \in Nombres :
          /\ EsSec(cola_io[n]) /\ \A i \in 1..Len(cola_io[n]) : cola_io[n][i].pid \in Pids
          /\ \A i, j \in 1..Len(cola_io[n]) : cola_io[n][i].pid = cola_io[n][j].pid => i = j
          /\ \A i \in 1..Len(cola_io[n]) : ~EnServicio(n, cola_io[n][i].pid)
          /\ servicio[n] = [pid |-> servicio[n].pid, fase |-> servicio[n].fase, buffer |-> servicio[n].buffer]
          /\ servicio[n].fase \in {"libre", "enviado", "hecho"}
          /\ servicio[n].fase = "libre" => servicio[n] = Ocioso
          /\ servicio[n].fase # "libre" => servicio[n].pid \in Pids
    /\ \A p \in Pids : \A n, m \in Nombres : Espera(n, p) /\ Espera(m, p) => n = m
    /\ \A p \in Pids, n \in Nombres : Espera(n, p) => pcb[p].estado_actual = "BLOCKED"

InvEj == Pcbs /\ UnSitio /\ FlagsFieles /\ DespachoFiel /\ DesalojoFiel /\ CpuFiel /\ ReadyFiel /\ IOFiel

-----------------------------------------------------------------------------
(* Packets and queues *)

\* Five fields one after another are read back in order.
Cinco(a, b, c, d, e) == <<a>> \o <<b>> \o <<c>> \o <<d>> \o <<e>>

\* The same, for fields of a set.
LEMMA CincoEn ==
    ASSUME NEW S, NEW a \in S, NEW b \in S, NEW c \in S, NEW d \in S, NEW e \in S
    PROVE  LET s == Cinco(a, b, c, d, e)
           IN  /\ s \in Seq(S) /\ Len(s) = 5
               /\ s[1] = a /\ s[2] = b /\ s[3] = c /\ s[4] = d /\ s[5] = e
  BY DEF Cinco

\* And for any.
LEMMA CincoCampos ==
    ASSUME NEW a, NEW b, NEW c, NEW d, NEW e
    PROVE  LET s == Cinco(a, b, c, d, e)
           IN  Len(s) = 5 /\ s[1] = a /\ s[2] = b /\ s[3] = c /\ s[4] = d /\ s[5] = e
  <1>1. PICK S : a \in S /\ b \in S /\ c \in S /\ d \in S /\ e \in S
    <2>1. /\ a \in {a, b, c, d, e} /\ b \in {a, b, c, d, e} /\ c \in {a, b, c, d, e}
          /\ d \in {a, b, c, d, e} /\ e \in {a, b, c, d, e}
      OBVIOUS
    <2>2. QED  BY <2>1
  <1>2. QED  BY <1>1, CincoEn

\* recibir_pcb reads what enviar_pcb wrote.
LEMMA PcbLlega ==
    ASSUME NEW q, EsPcb(q)
    PROVE  RecibidoPcb(SerializarPcb(q)) = q
  <1> DEFINE s == SerializarPcb(q)
  <1>1. PICK a, b, c, d, e :
            /\ a = [valor |-> q.pid, tam |-> 4] /\ b = [valor |-> q.pc, tam |-> 4]
            /\ c = [valor |-> q.quantum, tam |-> 4] /\ d = [valor |-> q.registros, tam |-> 32]
            /\ e = [valor |-> q.estado_actual, tam |-> 4]
    OBVIOUS
  <1>2. s = Cinco(a, b, c, d, e)  BY <1>1 DEF SerializarPcb, Entero, Dato, Cinco
  <1> HIDE DEF s
  <1>3. Len(s) = 5 /\ s[1] = a /\ s[2] = b /\ s[3] = c /\ s[4] = d /\ s[5] = e
    BY <1>2, CincoCampos
  <1>4. /\ Numero(s, 1) = q.pid /\ Numero(s, 2) = q.pc /\ Numero(s, 3) = q.quantum
        /\ Campo(s, 4, 32) = q.registros /\ Numero(s, 5) = q.estado_actual
    BY <1>1, <1>3 DEF Numero, Campo
  <1>5. QED  BY <1>4 DEF RecibidoPcb, EsPcb, s

\* Whatever was read has the form of a PCB.
LEMMA FormaRecibida == ASSUME NEW b PROVE EsPcb(RecibidoPcb(b))
  BY DEF EsPcb, RecibidoPcb

\* A sequence over a set is its elements.
LEMMA EsDeSuyos == ASSUME NEW S, NEW s \in Seq(S) PROVE EsSec(s)
  <1>1. Len(s) \in Nat /\ s \in [1..Len(s) -> S]  OBVIOUS
  <1>2. QED  BY <1>1 DEF EsSec

\* Two messages, or three.
LEMMA EnvioDoble ==
    ASSUME NEW x, NEW y
    PROVE  LET s == <<>> \o <<x, y>> \o <<>> IN EsSec(s) /\ Len(s) = 2 /\ s[1] = x /\ s[2] = y
  <1>1. ASSUME NEW S, x \in S, y \in S
        PROVE  LET s == <<>> \o <<x, y>> \o <<>> IN s \in Seq(S) /\ Len(s) = 2 /\ s[1] = x /\ s[2] = y
    BY <1>1
  <1>2. x \in {x, y} /\ y \in {x, y}  OBVIOUS
  <1>3. QED  BY <1>1, <1>2, EsDeSuyos

\* With the packet of an I/O.
LEMMA EnvioTriple ==
    ASSUME NEW x, NEW y, NEW z
    PROVE  LET s == <<>> \o <<x, y>> \o <<z>> IN
           EsSec(s) /\ Len(s) = 3 /\ s[1] = x /\ s[2] = y /\ s[3] = z
  <1>1. ASSUME NEW S, x \in S, y \in S, z \in S
        PROVE  LET s == <<>> \o <<x, y>> \o <<z>> IN
               s \in Seq(S) /\ Len(s) = 3 /\ s[1] = x /\ s[2] = y /\ s[3] = z
    BY <1>1
  <1>2. x \in {x, y, z} /\ y \in {x, y, z} /\ z \in {x, y, z}  OBVIOUS
  <1>3. QED  BY <1>1, <1>2, EsDeSuyos

\* A sequence is one of its elements.
LEMMA DeSuyos == ASSUME NEW s, EsSec(s) PROVE s \in Seq({s[i] : i \in 1..Len(s)})
  BY DEF EsSec

\* queue_push
LEMMA Encola ==
    ASSUME NEW s, NEW x, EsSec(s)
    PROVE  /\ EsSec(Append(s, x)) /\ Len(Append(s, x)) = Len(s) + 1 /\ Append(s, x)[Len(s) + 1] = x
           /\ \A i \in 1..Len(s) : Append(s, x)[i] = s[i]
  <1>1. PICK S : s \in Seq(S) /\ x \in S
    <2> DEFINE T == {s[i] : i \in 1..Len(s)} \union {x}
    <2>1. s \in Seq(T)  BY DEF EsSec
    <2>2. x \in T  OBVIOUS
    <2>3. QED  BY <2>1, <2>2
  <1>2. /\ Append(s, x) \in Seq(S) /\ Len(Append(s, x)) = Len(s) + 1 /\ Append(s, x)[Len(s) + 1] = x
        /\ \A i \in 1..Len(s) : Append(s, x)[i] = s[i]
    BY <1>1
  <1>3. EsSec(Append(s, x))  BY <1>2, EsDeSuyos
  <1>4. QED  BY <1>2, <1>3

\* queue_pop
LEMMA Saca ==
    ASSUME NEW s, EsSec(s), s # <<>>
    PROVE  /\ EsSec(Tail(s)) /\ Len(s) \in Nat \ {0} /\ Len(Tail(s)) = Len(s) - 1 /\ Head(s) = s[1]
           /\ \A i \in 1..Len(s) - 1 : Tail(s)[i] = s[i + 1]
  <1>1. PICK S : s \in Seq(S)  BY DeSuyos
  <1>2. /\ Tail(s) \in Seq(S) /\ Len(s) \in Nat \ {0} /\ Len(Tail(s)) = Len(s) - 1 /\ Head(s) = s[1]
        /\ \A i \in 1..Len(s) - 1 : Tail(s)[i] = s[i + 1]
    BY <1>1
  <1>3. EsSec(Tail(s))  BY <1>2, EsDeSuyos
  <1>4. QED  BY <1>2, <1>3

-----------------------------------------------------------------------------
(* The steps *)

\* Nadie is no pid.
LEMMA NadieAparte == Nadie \notin Pids  BY EjecucionOK DEF Nadie

\* What the kernel keeps of a process that does not move.
SinCambio == UNCHANGED <<pcb, ready, cola_io, servicio>>
\* A step that leaves the kernel alone.
LEMMA KernelQuieto ==
    ASSUME ReadyFiel, IOFiel, SinCambio PROVE ReadyFiel' /\ IOFiel'
  <1>1. ReadyFiel'  BY DEF ReadyFiel, SinCambio
  <1>2. IOFiel'  BY DEF IOFiel, SinCambio, Espera, EnServicio
  <1>3. QED  BY <1>1, <1>2

\* A process that comes to another state, and that was neither in READY nor in BLOCKED, moves
\* no other.
Cambia(p, q) ==
    /\ p \in Pids /\ EsPcb(q) /\ q.pid = p
    /\ q.estado_actual # "EXEC" => Coherente(q)
    /\ pcb' = [pcb EXCEPT ![p] = q]

\* What Cambia does to the PCBs.
LEMMA UnoCambia ==
    ASSUME Pcbs, UNCHANGED cpu, NEW p, NEW q, Cambia(p, q)
    PROVE  Pcbs' /\ pcb'[p] = q /\ \A r \in Pids : r # p => pcb'[r] = pcb[r]
  <1>1. /\ p \in Pids /\ pcb' = [r \in Pids |-> IF r = p THEN q ELSE pcb[r]]
        /\ EsPcb(q) /\ q.pid = p /\ q.estado_actual # "EXEC" => Coherente(q)
    BY DEF Cambia, Pcbs
  <1>2. pcb'[p] = q /\ \A r \in Pids : r # p => pcb'[r] = pcb[r]  BY <1>1
  <1>3. pcb' = [r \in Pids |-> pcb'[r]]  BY <1>1
  <1>4. \A r \in Pids : /\ EsPcb(pcb'[r]) /\ pcb'[r].pid = r
                        /\ pcb'[r].estado_actual # "EXEC" => Coherente(pcb'[r])
    <2>1. ASSUME NEW r \in Pids
          PROVE  EsPcb(pcb'[r]) /\ pcb'[r].pid = r /\ (pcb'[r].estado_actual # "EXEC" => Coherente(pcb'[r]))
      <3>1. CASE r = p
        <4>1. pcb'[r] = q  BY <1>2, <3>1
        <4>2. EsPcb(q) /\ q.pid = p /\ (q.estado_actual # "EXEC" => Coherente(q))
          BY Zenon DEF Cambia
        <4>3. QED  BY <3>1, <4>1, <4>2, Zenon
      <3>2. CASE r # p  BY <1>2, <3>2 DEF Pcbs
      <3>3. QED  BY <3>1, <3>2
    <2>2. QED  BY <2>1
  <1>5. Pcbs'  BY <1>3, <1>4 DEF Pcbs, EsPcb, Coherente
  <1>6. QED  BY <1>2, <1>5

\* iniciar_planificador_corto_plazo
LEMMA DespacharFiel == ASSUME InvEj, Despachar PROVE InvEj'
  <1>1. PICK h, q : h = Head(ready) /\ q = [pcb[h] EXCEPT !.estado_actual = "EXEC"]
    OBVIOUS
  <1>2. /\ ready # <<>> /\ cpu_libre /\ ready' = Tail(ready) /\ cpu_libre' = FALSE
        /\ pcb' = [pcb EXCEPT ![q.pid] = q] /\ despacho' = Append(despacho, SerializarPcb(q))
        /\ UNCHANGED <<desalojo, cpu, flags, cola_io, servicio>>
    BY <1>1 DEF Despachar, ioVars
  <1>3. despacho = <<>> /\ desalojo = <<>> /\ ~Activa  BY <1>2 DEF InvEj, UnSitio
  <1>4. ready \in Seq(Pids) /\ IsInjective(ready)  BY DEF InvEj, ReadyFiel
  <1>5. h \in Pids /\ Contains(ready, h) /\ pcb[h].estado_actual = "READY"
    BY <1>1, <1>2, <1>4, DelFrente DEF InvEj, ReadyFiel
  <1>6. /\ q.pid = h /\ q.estado_actual = "EXEC" /\ EsPcb(q) /\ q.pc = pcb[h].pc
        /\ q.registros = pcb[h].registros
    <2>1. EsPcb(pcb[h]) /\ pcb[h].pid = h  BY <1>5 DEF InvEj, Pcbs
    <2>2. q = [pid |-> h, pc |-> pcb[h].pc, quantum |-> pcb[h].quantum,
               registros |-> pcb[h].registros, estado_actual |-> "EXEC"]
      BY <1>1, <2>1 DEF EsPcb
    <2>3. QED  BY <2>2 DEF EsPcb
  <1>7. Coherente(q)  BY <1>5, <1>6 DEF InvEj, Pcbs, Coherente
  <1>8. Cambia(h, q)  BY <1>2, <1>5, <1>6, <1>7 DEF Cambia
  <1>9. Pcbs' /\ pcb'[h] = q /\ \A r \in Pids : r # h => pcb'[r] = pcb[r]
    BY <1>2, <1>8, UnoCambia DEF InvEj
  <1>10. UnSitio'  BY <1>2, <1>3 DEF UnSitio, Activa
  <1>11. DespachoFiel'
    <2>1. despacho' = <<SerializarPcb(q)>>  BY <1>2, <1>3
    <2>2. Len(despacho') = 1 /\ EsSec(despacho') /\ despacho'[1] = SerializarPcb(q)  BY <2>1 DEF EsSec
    <2>3. SerializarPcb(q) = SerializarPcb(pcb'[h])  BY <1>9
    <2>4. SerializarPcb(pcb'[h]) = SerializarPcb(pcb[h])'  BY DEF SerializarPcb, Entero, Dato
    <2>5. EnExec(h)' /\ Coherente(pcb[h])'  BY <1>5, <1>6, <1>7, <1>9 DEF EnExec, Coherente
    <2>6. QED  BY <1>5, <2>2, <2>3, <2>4, <2>5 DEF DespachoFiel, EsSec
  <1>12. DesalojoFiel' /\ CpuFiel' /\ FlagsFieles'
    BY <1>2, <1>3 DEF InvEj, DesalojoFiel, CpuFiel, FlagsFieles, Activa
  <1>13. ReadyFiel'
    <2>1. /\ IsInjective(Tail(ready)) /\ ~Contains(Tail(ready), h)
          /\ \A r : Contains(Tail(ready), r) => Contains(ready, r)
      BY <1>1, <1>2, <1>4, DelFrente
    <2>2. Tail(ready) \in Seq(Pids)  BY <1>2, <1>4
    <2>3. \A r \in Pids : Contains(Tail(ready), r) => pcb'[r].estado_actual = "READY"
      BY <1>9, <2>1 DEF InvEj, ReadyFiel
    <2>4. QED  BY <1>2, <2>1, <2>2, <2>3 DEF ReadyFiel
  <1>14. IOFiel'
    <2>1. \A n \in Nombres : ~Espera(n, h)  BY <1>5 DEF InvEj, IOFiel
    <2>2. \A r \in Pids, n \in Nombres : Espera(n, r)' <=> Espera(n, r)  BY <1>2 DEF Espera, EnServicio
    <2>3. \A r \in Pids, n \in Nombres : Espera(n, r)' => pcb'[r].estado_actual = "BLOCKED"
      BY <1>9, <2>1, <2>2 DEF InvEj, IOFiel
    <2>4. \A r \in Pids : \A n, m \in Nombres : Espera(n, r)' /\ Espera(m, r)' => n = m
      BY <2>2 DEF InvEj, IOFiel
    <2>5. QED  BY <1>2, <2>3, <2>4 DEF InvEj, IOFiel, EnServicio
  <1>15. QED  BY <1>9, <1>10, <1>11, <1>12, <1>13, <1>14 DEF InvEj

\* Interruptions travel and arrive.
LEMMA InterrupcionFiel ==
    ASSUME InvEj, UNCHANGED <<pcb, ready, cpu_libre, despacho, desalojo, cpu, flags, cola_io, servicio>>
    PROVE  InvEj'
  <1>1. Pcbs' /\ UnSitio' /\ FlagsFieles' /\ CpuFiel'
    BY DEF InvEj, Pcbs, UnSitio, FlagsFieles, CpuFiel, Activa, EnExec
  <1>2. DespachoFiel'  BY DEF InvEj, DespachoFiel, EnExec, EsSec
  <1>3. DesalojoFiel'  BY DEF InvEj, DesalojoFiel, EnExec, Recibido, EsSec
  <1>4. ReadyFiel' /\ IOFiel'  BY KernelQuieto DEF InvEj, SinCambio
  <1>5. QED  BY <1>1, <1>2, <1>3, <1>4 DEF InvEj

\* iniciar_servidor_dispatch
LEMMA RecibirPcbFiel == ASSUME InvEj, RecibirPcb PROVE InvEj'
  <1>1. /\ cpu.pid = Nadie /\ despacho # <<>> /\ cpu' = RecibidoPcb(despacho[1])
        /\ flags' = flags \ {"input_ouput"}
        /\ UNCHANGED <<pcb, ready, cpu_libre, desalojo, cola_io, servicio>>
    BY DEF RecibirPcb, kernelVars, ioVars
  <1>2. PICK p \in Pids : EnExec(p) /\ despacho[1] = SerializarPcb(pcb[p]) /\ Coherente(pcb[p])
    BY <1>1 DEF InvEj, DespachoFiel
  <1>3. EsPcb(pcb[p]) /\ pcb[p].pid = p  BY DEF InvEj, Pcbs
  <1>4. cpu' = pcb[p]  BY <1>1, <1>2, <1>3, PcbLlega
  <1>5. despacho' = <<>>
    <2>1. Len(despacho) = 1 /\ despacho' = Tail(despacho)  BY <1>1 DEF RecibirPcb, InvEj, DespachoFiel
    <2>2. QED  BY <2>1
  <1>6. desalojo = <<>> /\ ~cpu_libre  BY <1>1 DEF InvEj, UnSitio
  <1>7. Pcbs'  BY <1>1, <1>3, <1>4 DEF InvEj, Pcbs
  <1>8. UnSitio'  BY <1>1, <1>5, <1>6 DEF UnSitio
  <1>9. FlagsFieles'  BY <1>1 DEF InvEj, FlagsFieles
  <1>10. DespachoFiel' /\ DesalojoFiel'  BY <1>1, <1>5, <1>6 DEF DespachoFiel, DesalojoFiel
  <1>11. CpuFiel'  BY <1>1, <1>2, <1>3, <1>4 DEF CpuFiel, EnExec
  <1>12. ReadyFiel' /\ IOFiel'  BY <1>1, KernelQuieto DEF InvEj, SinCambio
  <1>13. QED  BY <1>7, <1>8, <1>9, <1>10, <1>11, <1>12 DEF InvEj

\* siguiente_instruccion and what follows, until check_interrupt.
LEMMA CicloFiel == ASSUME InvEj, Ciclo PROVE InvEj'
  <1>1. PICK ins : Calcular(ins) \/ PedirIO(ins) \/ Exit(ins)  BY DEF Ciclo
  <1>2. /\ cpu.pid # Nadie /\ flags = {}
        /\ UNCHANGED <<pcb, ready, cpu_libre, despacho, cola_io, servicio>>
    BY DEF Ciclo, kernelVars, ioVars
  <1>3. Activa  BY <1>2 DEF Activa
  <1>4. despacho = <<>> /\ desalojo = <<>> /\ ~cpu_libre /\ EnExec(cpu.pid)
    BY <1>3 DEF InvEj, UnSitio, CpuFiel
  <1>5. ReadyFiel' /\ IOFiel'  BY <1>2, KernelQuieto DEF InvEj, SinCambio
  <1>6. DespachoFiel'  BY <1>2, <1>4 DEF DespachoFiel
  <1>7. CASE Calcular(ins) \/ Exit(ins)
    <2>1. /\ UNCHANGED <<cpu, desalojo>> /\ flags' \subseteq {"end_process", "interruption"}
      BY <1>7 DEF Calcular, Exit, Pasada
    <2>2. Pcbs'  BY <1>2, <2>1 DEF InvEj, Pcbs
    <2>3. UnSitio' /\ DesalojoFiel'  BY <1>2, <1>4, <2>1 DEF UnSitio, DesalojoFiel
    <2>4. FlagsFieles'  BY <1>2, <2>1 DEF FlagsFieles
    <2>5. CpuFiel'  BY <1>2, <1>4, <2>1 DEF CpuFiel, EnExec
    <2>6. QED  BY <1>5, <1>6, <2>2, <2>3, <2>4, <2>5 DEF InvEj
  <1>8. CASE PedirIO(ins)
    <2>1. /\ cpu' = Guardado(Avanzados) /\ "input_ouput" \in flags'
          /\ flags' \subseteq {"input_ouput", "interruption"}
      BY <1>8 DEF PedirIO, Pasada
    <2>2. PICK q, r : q = cpu' /\ r = Avanzados  OBVIOUS
    <2>3. EsPcb(q) /\ q.pid = cpu.pid /\ q.pc = r["PC"] /\ q.registros = r
      <3>1. q = [pid |-> cpu.pid, pc |-> r["PC"], quantum |-> cpu.quantum, registros |-> r,
                 estado_actual |-> cpu.estado_actual]
        BY <2>1, <2>2 DEF InvEj, Pcbs, EsPcb, Guardado
      <3>2. QED  BY <3>1 DEF EsPcb
    <2>4. PICK x, y, z : /\ x = [op |-> "OPERACION_IO", buffer |-> <<>>]
                         /\ y = [op |-> "PCB", buffer |-> SerializarPcb(q)]
                         /\ z = [op |-> "OPERACION_IO", buffer |-> Paquete(ins, cpu.pid, Avanzados)]
      OBVIOUS
    <2>5. desalojo' = <<>> \o <<x, y>> \o <<z>>
      BY <1>4, <1>8, <2>2, <2>4 DEF PedirIO, Desalojar
    <2>6. EsSec(desalojo') /\ Len(desalojo') = 3 /\ desalojo'[1] = x /\ desalojo'[2] = y  BY <2>5, EnvioTriple
    <2>7. Recibido' = q
      <3>1. Recibido' = RecibidoPcb(desalojo'[2].buffer)  BY DEF Recibido, RecibidoPcb, Numero, Campo
      <3>2. QED  BY <2>3, <2>4, <2>6, <3>1, PcbLlega
    <2>8. Pcbs'  BY <1>2, <2>2, <2>3 DEF InvEj, Pcbs
    <2>9. ~Activa' /\ UnSitio'  BY <1>2, <1>4, <2>1 DEF UnSitio, Activa
    <2>10. FlagsFieles'  BY <1>2, <2>1, <2>2, <2>3 DEF FlagsFieles
    <2>11. CpuFiel'  BY <2>9 DEF CpuFiel
    <2>12. EnExec(q.pid)' /\ Coherente(q)
      BY <1>2, <1>4, <2>3 DEF EnExec, Coherente
    <2>13. DesalojoFiel'
      <3>1. desalojo'[1].op = "OPERACION_IO"  BY <2>4, <2>6
      <3>2. EnExec(Recibido.pid)' /\ Coherente(Recibido)'
        BY <2>7, <2>12 DEF EnExec, Coherente
      <3>3. QED  BY <2>6, <3>1, <3>2 DEF DesalojoFiel, EsSec
    <2>14. QED  BY <1>5, <1>6, <2>8, <2>9, <2>10, <2>11, <2>13 DEF InvEj
  <1>9. QED  BY <1>1, <1>7, <1>8

\* What comenzar_proceso does after its loop.
LEMMA DejarCpuFiel == ASSUME InvEj, DejarCpu PROVE InvEj'
  <1>1. PICK q : q = Guardado(registros_cpu)  OBVIOUS
  <1>2. /\ cpu.pid # Nadie /\ flags # {} /\ Dejar(q) /\ cpu' = Vacio
        /\ UNCHANGED <<pcb, ready, cpu_libre, despacho, cola_io, servicio>>
    BY <1>1 DEF DejarCpu, kernelVars, ioVars
  <1>3. EsPcb(q) /\ q.pid = cpu.pid /\ Coherente(q)
    <2>1. q = [pid |-> cpu.pid, pc |-> registros_cpu["PC"], quantum |-> cpu.quantum,
               registros |-> registros_cpu, estado_actual |-> cpu.estado_actual]
      BY <1>1 DEF InvEj, Pcbs, EsPcb, Guardado
    <2>2. QED  BY <2>1 DEF EsPcb, Coherente
  <1>4. cpu'.pid = Nadie /\ EsPcb(cpu') /\ ~Activa'  BY <1>2 DEF Vacio, EsPcb, Activa
  <1>5. Pcbs'  BY <1>2, <1>4 DEF InvEj, Pcbs
  <1>6. CpuFiel'  BY <1>4 DEF CpuFiel
  <1>7. DespachoFiel'  BY <1>2 DEF InvEj, DespachoFiel, EnExec, EsSec
  <1>8. ReadyFiel' /\ IOFiel'  BY <1>2, KernelQuieto DEF InvEj, SinCambio
  <1>9. ASSUME NEW m, Desalojar(m, q, <<>>), m \in {"END_PROCESS", "FIN_CLOCK"}, Activa,
               flags' \subseteq {"interruption"}
        PROVE  InvEj'
    <2>1. despacho = <<>> /\ desalojo = <<>> /\ ~cpu_libre /\ EnExec(cpu.pid)
      BY <1>9 DEF InvEj, UnSitio, CpuFiel
    <2>2. PICK x, y : x = [op |-> m, buffer |-> <<>>] /\ y = [op |-> "PCB", buffer |-> SerializarPcb(q)]
      OBVIOUS
    <2>3. desalojo' = <<>> \o <<x, y>> \o <<>>  BY <1>9, <2>1, <2>2 DEF Desalojar
    <2>4. EsSec(desalojo') /\ Len(desalojo') = 2 /\ desalojo'[1] = x /\ desalojo'[2] = y  BY <2>3, EnvioDoble
    <2>5. Recibido' = q
      <3>1. Recibido' = RecibidoPcb(desalojo'[2].buffer)  BY DEF Recibido, RecibidoPcb, Numero, Campo
      <3>2. QED  BY <1>3, <2>2, <2>4, <3>1, PcbLlega
    <2>6. DesalojoFiel'
      <3>1. desalojo'[1].op = m  BY <2>2, <2>4
      <3>2. EnExec(Recibido.pid)' /\ Coherente(Recibido)'
        BY <1>2, <1>3, <2>1, <2>5 DEF EnExec, Coherente
      <3>3. QED  BY <1>9, <2>4, <3>1, <3>2 DEF DesalojoFiel, EsSec
    <2>7. UnSitio' /\ FlagsFieles'  BY <1>2, <1>4, <1>9, <2>1 DEF UnSitio, FlagsFieles
    <2>8. QED  BY <1>5, <1>6, <1>7, <1>8, <2>6, <2>7 DEF InvEj
  <1>10. CASE "end_process" \in flags /\ Desalojar("END_PROCESS", q, <<>>)
                /\ flags' = flags \ {"end_process", "interruption"}
    <2>1. "input_ouput" \notin flags /\ flags' \subseteq {"interruption"}
      BY <1>10 DEF InvEj, FlagsFieles
    <2>2. QED  BY <1>2, <1>9, <1>10, <2>1 DEF Activa
  <1>11. CASE /\ "interruption" \in flags /\ flags \intersect {"end_process", "input_ouput"} = {}
              /\ accion_interrupt(q)
    <2>1. flags' \subseteq {"interruption"} /\ Activa
      BY <1>2, <1>11 DEF InvEj, FlagsFieles, accion_interrupt, Activa
    <2>2. QED  BY <1>9, <1>11, <2>1 DEF accion_interrupt
  <1>12. CASE /\ "end_process" \notin flags /\ "input_ouput" \in flags
              /\ flags' = flags \ {"input_ouput"} /\ UNCHANGED desalojo
    <2>1. FlagsFieles'  BY <1>12 DEF InvEj, FlagsFieles
    <2>2. UnSitio'  BY <1>2, <1>4, <1>12 DEF InvEj, UnSitio
    <2>3. DesalojoFiel'  BY <1>2, <1>12 DEF InvEj, DesalojoFiel, EnExec, Recibido, EsSec
    <2>4. QED  BY <1>5, <1>6, <1>7, <1>8, <2>1, <2>2, <2>3 DEF InvEj
  <1>13. QED  BY <1>2, <1>10, <1>11, <1>12 DEF Dejar

\* recibir_dispatch, but for the queues.
LEMMA AtenderFiel ==
    ASSUME InvEj, NEW m, NEW n, NEW e, Atender(m, n), Anotar(Recibido, e), e # "EXEC",
           n = (IF m = "OPERACION_IO" THEN 3 ELSE 2)
    PROVE  /\ Pcbs' /\ UnSitio' /\ FlagsFieles' /\ DespachoFiel' /\ DesalojoFiel' /\ CpuFiel'
           /\ Recibido.pid \in Pids /\ pcb[Recibido.pid].estado_actual = "EXEC"
           /\ pcb'[Recibido.pid].estado_actual = e
           /\ \A r \in Pids : r # Recibido.pid => pcb'[r] = pcb[r]
  <1>1. PICK p, q : p = Recibido.pid /\ q = [Recibido EXCEPT !.estado_actual = e]  OBVIOUS
  <1>2. /\ Len(desalojo) >= n /\ desalojo[1].op = m /\ cpu_libre' = TRUE
        /\ desalojo' = SubSeq(desalojo, n + 1, Len(desalojo))
        /\ pcb' = [pcb EXCEPT ![p] = q]
        /\ UNCHANGED <<despacho, cpu, flags, servicio>>
    BY <1>1 DEF Atender, Anotar
  <1>3. desalojo # <<>>  BY <1>2
  <1>4. Len(desalojo) = n /\ EnExec(p) /\ Coherente(Recibido)
    BY <1>1, <1>2, <1>3 DEF InvEj, DesalojoFiel
  <1>5. despacho = <<>> /\ ~Activa  BY <1>3 DEF InvEj, UnSitio
  <1>6. desalojo' = <<>>  BY <1>2, <1>4
  <1>7. q.pid = p /\ EsPcb(q) /\ Coherente(q) /\ q.estado_actual = e
    <2>1. EsPcb(Recibido)  BY FormaRecibida DEF Recibido
    <2>2. q = [pid |-> Recibido.pid, pc |-> Recibido.pc, quantum |-> Recibido.quantum,
               registros |-> Recibido.registros, estado_actual |-> e]
      BY <1>1, <2>1 DEF EsPcb
    <2>3. QED  BY <1>1, <1>4, <2>2 DEF EsPcb, Coherente
  <1>8. Cambia(p, q)  BY <1>2, <1>4, <1>7 DEF Cambia, EnExec
  <1>9. Pcbs' /\ pcb'[p] = q /\ \A r \in Pids : r # p => pcb'[r] = pcb[r]
    BY <1>2, <1>8, UnoCambia DEF InvEj
  <1>10. ~Activa' /\ UnSitio'  BY <1>2, <1>5, <1>6 DEF UnSitio, Activa
  <1>11. FlagsFieles' /\ DespachoFiel' /\ DesalojoFiel' /\ CpuFiel'
    BY <1>2, <1>5, <1>6, <1>10 DEF InvEj, FlagsFieles, DespachoFiel, DesalojoFiel, CpuFiel
  <1>12. QED  BY <1>1, <1>4, <1>7, <1>9, <1>10, <1>11 DEF EnExec

\* A process that leaves EXEC for READY.
LEMMA AReady ==
    ASSUME InvEj, NEW p \in Pids, pcb[p].estado_actual = "EXEC", ready' = Append(ready, p),
           pcb'[p].estado_actual = "READY", \A r \in Pids : r # p => pcb'[r] = pcb[r]
    PROVE  ReadyFiel'
  <1>1. ready \in Seq(Pids) /\ IsInjective(ready) /\ ~Contains(ready, p)  BY DEF InvEj, ReadyFiel
  <1>2. /\ ready' \in Seq(Pids) /\ IsInjective(ready')
        /\ \A r : Contains(ready', r) <=> Contains(ready, r) \/ r = p
    BY <1>1, AlFinal
  <1>3. \A r \in Pids : Contains(ready', r) => pcb'[r].estado_actual = "READY"
    BY <1>2 DEF InvEj, ReadyFiel
  <1>4. QED  BY <1>2, <1>3 DEF ReadyFiel

\* A process that leaves EXEC waits for no interface.
LEMMA SinEspera ==
    ASSUME InvEj, NEW p \in Pids, pcb[p].estado_actual = "EXEC", UNCHANGED <<cola_io, servicio>>,
           \A r \in Pids : r # p => pcb'[r] = pcb[r]
    PROVE  IOFiel'
  <1>1. \A n \in Nombres : ~Espera(n, p)  BY DEF InvEj, IOFiel
  <1>2. \A r \in Pids, n \in Nombres : Espera(n, r)' <=> Espera(n, r)  BY DEF Espera, EnServicio
  <1>3. \A r \in Pids, n \in Nombres : Espera(n, r)' => pcb'[r].estado_actual = "BLOCKED"
    BY <1>1, <1>2 DEF InvEj, IOFiel
  <1>4. \A r \in Pids : \A n, m \in Nombres : Espera(n, r)' /\ Espera(m, r)' => n = m
    BY <1>2 DEF InvEj, IOFiel
  <1>5. QED  BY <1>3, <1>4 DEF InvEj, IOFiel, EnServicio

\* FIN_CLOCK and END_PROCESS
LEMMA AtenderFinFiel == ASSUME InvEj, AtenderFinClock \/ AtenderEndProcess PROVE InvEj'
  <1>1. CASE AtenderFinClock
    <2>1. /\ Atender("FIN_CLOCK", 2) /\ Anotar(Recibido, "READY") /\ ready' = Append(ready, Recibido.pid)
          /\ UNCHANGED <<cola_io, servicio>>
      BY <1>1 DEF AtenderFinClock, Atender
    <2>2. /\ Pcbs' /\ UnSitio' /\ FlagsFieles' /\ DespachoFiel' /\ DesalojoFiel' /\ CpuFiel'
          /\ Recibido.pid \in Pids /\ pcb[Recibido.pid].estado_actual = "EXEC"
          /\ pcb'[Recibido.pid].estado_actual = "READY"
          /\ \A r \in Pids : r # Recibido.pid => pcb'[r] = pcb[r]
      BY <2>1, AtenderFiel
    <2>3. ReadyFiel'  BY <2>1, <2>2, AReady
    <2>4. IOFiel'  BY <2>1, <2>2, SinEspera
    <2>5. QED  BY <2>2, <2>3, <2>4 DEF InvEj
  <1>2. CASE AtenderEndProcess
    <2>1. /\ Atender("END_PROCESS", 2) /\ Anotar(Recibido, "TERMINATED")
          /\ UNCHANGED <<ready, cola_io, servicio>>
      BY <1>2 DEF AtenderEndProcess, Atender
    <2>2. /\ Pcbs' /\ UnSitio' /\ FlagsFieles' /\ DespachoFiel' /\ DesalojoFiel' /\ CpuFiel'
          /\ Recibido.pid \in Pids /\ pcb[Recibido.pid].estado_actual = "EXEC"
          /\ \A r \in Pids : r # Recibido.pid => pcb'[r] = pcb[r]
      BY <2>1, AtenderFiel
    <2>3. ReadyFiel'
      <3>1. ~Contains(ready, Recibido.pid)  BY <2>2 DEF InvEj, ReadyFiel
      <3>2. QED  BY <2>1, <2>2, <3>1 DEF InvEj, ReadyFiel
    <2>4. IOFiel'  BY <2>1, <2>2, SinEspera
    <2>5. QED  BY <2>2, <2>3, <2>4 DEF InvEj
  <1>3. QED  BY <1>1, <1>2

\* OPERACION_IO
LEMMA AtenderIOFiel == ASSUME InvEj, AtenderIO PROVE InvEj'
  <1>1. PICK p : p = Recibido.pid  OBVIOUS
  <1>2. PICK nombre, x, e :
            /\ Anotar(Recibido, e)
            /\ \/ e = "TERMINATED" /\ UNCHANGED cola_io
               \/ /\ e = "BLOCKED" /\ nombre \in Nombres /\ x.pid = p
                  /\ cola_io' = [cola_io EXCEPT ![nombre] = Append(@, x)]
    <2> DEFINE b == desalojo[3].buffer
               n == Campo(b, 3, Numero(b, 2))
               valida == n \in Nombres /\ esOperacionValida(Numero(b, 1), Conexiones[n])
               x == [pid |-> Recibido.pid, info |-> Tramo(SubSeq(b, 5, Len(b)), Numero(b, 4))]
    <2>1. \/ Anotar(Recibido, "TERMINATED") /\ UNCHANGED cola_io
          \/ valida /\ Anotar(Recibido, "BLOCKED") /\ cola_io' = [cola_io EXCEPT ![n] = Append(@, x)]
      BY DEF AtenderIO
    <2>2. x.pid = p  BY <1>1
    <2>3. valida => n \in Nombres  OBVIOUS
    <2> HIDE DEF b, n, valida, x
    <2>4. QED  BY <2>1, <2>2, <2>3
  <1>3. Atender("OPERACION_IO", 3) /\ UNCHANGED <<ready, servicio>>  BY DEF AtenderIO, Atender
  <1>4. /\ Pcbs' /\ UnSitio' /\ FlagsFieles' /\ DespachoFiel' /\ DesalojoFiel' /\ CpuFiel'
        /\ p \in Pids /\ pcb[p].estado_actual = "EXEC" /\ pcb'[p].estado_actual = e
        /\ \A r \in Pids : r # p => pcb'[r] = pcb[r]
    <2>1. e # "EXEC" /\ Anotar(Recibido, e)  BY <1>2
    <2>2. QED  BY <1>1, <1>3, <2>1, AtenderFiel
  <1>5. ReadyFiel'
    <2>1. ~Contains(ready, p)  BY <1>4 DEF InvEj, ReadyFiel
    <2>2. QED  BY <1>3, <1>4, <2>1 DEF InvEj, ReadyFiel
  <1>6. CASE UNCHANGED cola_io
    <2>1. IOFiel'  BY <1>3, <1>4, <1>6, SinEspera
    <2>2. QED  BY <1>4, <1>5, <2>1 DEF InvEj
  <1>7. CASE /\ e = "BLOCKED" /\ nombre \in Nombres /\ x.pid = p
             /\ cola_io' = [cola_io EXCEPT ![nombre] = Append(@, x)]
    <2>1. \A n \in Nombres : ~Espera(n, p)  BY <1>4 DEF InvEj, IOFiel
    <2>2. PICK c, k : c = cola_io[nombre] /\ k = Len(c)  OBVIOUS
    <2>3. /\ EsSec(c) /\ k \in Nat /\ \A i \in 1..k : c[i].pid \in Pids /\ c[i].pid # p
          /\ \A i, j \in 1..k : c[i].pid = c[j].pid => i = j
          /\ \A i \in 1..k : ~EnServicio(nombre, c[i].pid)
      BY <1>7, <2>1, <2>2 DEF InvEj, IOFiel, Espera, EsSec
    <2>4. PICK d : d = Append(c, x)  OBVIOUS
    <2>5. EsSec(d) /\ Len(d) = k + 1 /\ d[k + 1] = x /\ \A i \in 1..k : d[i] = c[i]
      BY <2>2, <2>3, <2>4, Encola
    <2>6. /\ cola_io' = [n \in Nombres |-> cola_io'[n]] /\ cola_io'[nombre] = d
          /\ \A n \in Nombres : n # nombre => cola_io'[n] = cola_io[n]
      <3>1. cola_io = [n \in Nombres |-> cola_io[n]]  BY DEF InvEj, IOFiel
      <3>2. QED  BY <1>7, <2>2, <2>4, <3>1
    <2>7. \A i \in 1..k + 1 : i \in 1..k \/ i = k + 1  BY <2>3
    <2>8. /\ \A i \in 1..k + 1 : d[i].pid \in Pids
          /\ \A i, j \in 1..k + 1 : d[i].pid = d[j].pid => i = j
          /\ \A i \in 1..k + 1 : ~EnServicio(nombre, d[i].pid)
      BY <1>4, <1>7, <2>1, <2>3, <2>5, <2>7 DEF Espera
    <2>9. \A n \in Nombres : \A r : EnServicio(n, r)' <=> EnServicio(n, r)  BY <1>3 DEF EnServicio
    <2>10. \A n \in Nombres, r \in Pids : Espera(n, r)' <=> Espera(n, r) \/ (n = nombre /\ r = p)
      <3>1. ASSUME NEW n \in Nombres, NEW r \in Pids, n # nombre PROVE Espera(n, r)' <=> Espera(n, r)
        BY <2>6, <2>9, <3>1 DEF Espera
      <3>2. ASSUME NEW r \in Pids PROVE Espera(nombre, r)' <=> Espera(nombre, r) \/ r = p
        <4>1. (\E i \in 1..k + 1 : d[i].pid = r) <=> (\E i \in 1..k : c[i].pid = r) \/ r = p
          <5>1. \A i \in 1..k : i \in 1..k + 1  BY <2>3
          <5>2. k + 1 \in 1..k + 1  BY <2>3
          <5>3. QED  BY <1>7, <2>5, <2>7, <5>1, <5>2
        <4>2. QED  BY <1>7, <2>2, <2>5, <2>6, <2>9, <4>1 DEF Espera
      <3>3. QED  BY <3>1, <3>2
    <2>11. /\ \A r \in Pids : \A n, m \in Nombres : Espera(n, r)' /\ Espera(m, r)' => n = m
           /\ \A r \in Pids, n \in Nombres : Espera(n, r)' => pcb'[r].estado_actual = "BLOCKED"
      BY <1>4, <1>7, <2>1, <2>10 DEF InvEj, IOFiel
    <2>12. \A n \in Nombres :
             /\ EsSec(cola_io'[n]) /\ \A i \in 1..Len(cola_io'[n]) : cola_io'[n][i].pid \in Pids
             /\ \A i, j \in 1..Len(cola_io'[n]) : cola_io'[n][i].pid = cola_io'[n][j].pid => i = j
             /\ \A i \in 1..Len(cola_io'[n]) : ~EnServicio(n, cola_io'[n][i].pid)
      <3>1. ASSUME NEW n \in Nombres
            PROVE /\ EsSec(cola_io'[n]) /\ \A i \in 1..Len(cola_io'[n]) : cola_io'[n][i].pid \in Pids
                  /\ \A i, j \in 1..Len(cola_io'[n]) : cola_io'[n][i].pid = cola_io'[n][j].pid => i = j
                  /\ \A i \in 1..Len(cola_io'[n]) : ~EnServicio(n, cola_io'[n][i].pid)
        <4>1. CASE n = nombre  BY <2>5, <2>6, <2>8, <4>1
        <4>2. CASE n # nombre  BY <2>6, <4>2 DEF InvEj, IOFiel
        <4>3. QED  BY <4>1, <4>2
      <3>2. QED  BY <3>1
    <2>13. IOFiel'
      BY <1>3, <2>6, <2>9, <2>11, <2>12 DEF InvEj, IOFiel, EsSec
    <2>14. QED  BY <1>4, <1>5, <2>13 DEF InvEj
  <1>8. QED  BY <1>2, <1>6, <1>7

\* What an interface does moves no process but that of an I/O that ends.
LEMMA LoDemas ==
    ASSUME InvEj, UNCHANGED <<cpu_libre, despacho, desalojo, cpu, flags>>,
           Pcbs', \A p \in Pids : pcb[p].estado_actual = "EXEC" => pcb'[p] = pcb[p]
    PROVE  UnSitio' /\ FlagsFieles' /\ DespachoFiel' /\ DesalojoFiel' /\ CpuFiel'
  <1>1. \A p : EnExec(p) => EnExec(p)' /\ pcb'[p] = pcb[p]  BY DEF EnExec
  <1>2. UnSitio' /\ FlagsFieles'  BY DEF InvEj, UnSitio, FlagsFieles, Activa
  <1>3. DespachoFiel'
    <2>1. ASSUME despacho # <<>> PROVE DespachoFiel'
      <3>1. PICK p \in Pids : EnExec(p) /\ despacho[1] = SerializarPcb(pcb[p]) /\ Coherente(pcb[p])
        BY <2>1 DEF InvEj, DespachoFiel
      <3>2. EnExec(p)' /\ pcb'[p] = pcb[p]  BY <1>1, <3>1
      <3>3. SerializarPcb(pcb[p])' = SerializarPcb(pcb[p]) /\ Coherente(pcb[p])'
        BY <3>1, <3>2 DEF SerializarPcb, Entero, Dato, Coherente
      <3>4. QED  BY <2>1, <3>1, <3>2, <3>3 DEF InvEj, DespachoFiel
    <2>2. QED  BY <2>1 DEF DespachoFiel
  <1>4. DesalojoFiel'
    <2>1. Recibido' = Recibido  BY DEF Recibido, RecibidoPcb, Numero, Campo
    <2>2. QED  BY <1>1, <2>1 DEF InvEj, DesalojoFiel, Coherente
  <1>5. CpuFiel'  BY <1>1 DEF InvEj, CpuFiel, Activa
  <1>6. QED  BY <1>2, <1>3, <1>4, <1>5

\* ejecutar_instruccion_io
LEMMA EjecutarIOFiel == ASSUME InvEj, NEW n \in Nombres, EjecutarIO(n) PROVE InvEj'
  <1>1. PICK c, v : c = cola_io[n] /\ v = [pid |-> Head(c).pid, fase |-> "enviado",
                                         buffer |-> Entero(Head(c).pid) \o Head(c).info]
    OBVIOUS
  <1>2. /\ c # <<>> /\ servicio[n] = Ocioso
        /\ servicio' = [servicio EXCEPT ![n] = v] /\ cola_io' = [cola_io EXCEPT ![n] = Tail(c)]
        /\ UNCHANGED <<pcb, ready, cpu_libre, despacho, desalojo, cpu, flags>>
    BY <1>1 DEF EjecutarIO, kernelVars
  <1>3. /\ EsSec(c) /\ \A i \in 1..Len(c) : c[i].pid \in Pids
        /\ \A i, j \in 1..Len(c) : c[i].pid = c[j].pid => i = j
    BY <1>1 DEF InvEj, IOFiel
  <1>4. PICK d, k : d = Tail(c) /\ k = Len(c)  OBVIOUS
  <1>5. /\ EsSec(d) /\ k \in Nat \ {0} /\ Len(d) = k - 1 /\ Head(c) = c[1]
        /\ \A i \in 1..k - 1 : d[i] = c[i + 1] /\ i + 1 \in 1..k /\ i + 1 # 1
    BY <1>2, <1>3, <1>4, Saca
  <1>6. 1 \in 1..k /\ \A i \in 1..k : i = 1 \/ i - 1 \in 1..k - 1  BY <1>5
  <1>7. v.pid = c[1].pid /\ v.fase = "enviado" /\ v.pid \in Pids
        /\ v = [pid |-> v.pid, fase |-> v.fase, buffer |-> v.buffer]
    BY <1>1, <1>3, <1>4, <1>5, <1>6
  <1>8. /\ cola_io' = [m \in Nombres |-> cola_io'[m]] /\ cola_io'[n] = d
        /\ \A m \in Nombres : m # n => cola_io'[m] = cola_io[m]
        /\ servicio' = [m \in Nombres |-> servicio'[m]] /\ servicio'[n] = v
        /\ \A m \in Nombres : m # n => servicio'[m] = servicio[m]
    <2>1. cola_io = [m \in Nombres |-> cola_io[m]] /\ servicio = [m \in Nombres |-> servicio[m]]
      BY DEF InvEj, IOFiel
    <2>2. QED  BY <1>2, <1>4, <2>1
  <1>9. /\ \A i \in 1..k - 1 : d[i].pid \in Pids /\ d[i].pid # v.pid
        /\ \A i, j \in 1..k - 1 : d[i].pid = d[j].pid => i = j
    <2>1. \A i, j \in 1..k - 1 : i + 1 = j + 1 => i = j  BY <1>5
    <2>2. QED  BY <1>3, <1>4, <1>5, <1>6, <1>7, <2>1
  <1>10. \A m \in Nombres, r \in Pids : Espera(m, r)' <=> Espera(m, r)
    <2>1. ASSUME NEW m \in Nombres, NEW r \in Pids, m # n PROVE Espera(m, r)' <=> Espera(m, r)
      BY <1>8, <2>1 DEF Espera, EnServicio
    <2>2. ASSUME NEW r \in Pids PROVE Espera(n, r)' <=> Espera(n, r)
      <3>1. ~EnServicio(n, r)  BY <1>2 DEF EnServicio, Ocioso
      <3>2. EnServicio(n, r)' <=> r = c[1].pid  BY <1>7, <1>8 DEF EnServicio
      <3>3. (\E i \in 1..k : c[i].pid = r) <=> r = c[1].pid \/ \E i \in 1..k - 1 : d[i].pid = r
        <4>1. ASSUME NEW i \in 1..k, c[i].pid = r PROVE r = c[1].pid \/ \E j \in 1..k - 1 : d[j].pid = r
          <5>1. CASE i = 1  BY <4>1, <5>1
          <5>2. CASE i - 1 \in 1..k - 1
            <6>1. (i - 1) + 1 = i  BY <1>5, <4>1
            <6>2. d[i - 1].pid = r  BY <1>5, <4>1, <5>2, <6>1
            <6>3. QED  BY <5>2, <6>2
          <5>3. QED  BY <1>6, <5>1, <5>2
        <4>2. QED  BY <1>5, <1>6, <4>1
      <3>4. Espera(n, r) <=> \E i \in 1..k : c[i].pid = r  BY <1>1, <1>4, <3>1 DEF Espera
      <3>5. Espera(n, r)' <=> (\E i \in 1..k - 1 : d[i].pid = r) \/ r = c[1].pid
        BY <1>5, <1>8, <3>2 DEF Espera
      <3>6. QED  BY <3>3, <3>4, <3>5
    <2>3. QED  BY <2>1, <2>2
  <1>11. ASSUME NEW m \in Nombres
         PROVE  /\ EsSec(cola_io'[m]) /\ \A i \in 1..Len(cola_io'[m]) : cola_io'[m][i].pid \in Pids
                /\ \A i, j \in 1..Len(cola_io'[m]) : cola_io'[m][i].pid = cola_io'[m][j].pid => i = j
                /\ \A i \in 1..Len(cola_io'[m]) :
                       ~(servicio'[m].pid = cola_io'[m][i].pid /\ servicio'[m].fase # "libre")
                /\ servicio'[m] = [pid |-> servicio'[m].pid, fase |-> servicio'[m].fase,
                                   buffer |-> servicio'[m].buffer]
                /\ servicio'[m].fase \in {"libre", "enviado", "hecho"}
                /\ servicio'[m].fase = "libre" => servicio'[m] = Ocioso
                /\ servicio'[m].fase # "libre" => servicio'[m].pid \in Pids
    <2>1. CASE m = n  BY <1>5, <1>7, <1>8, <1>9, <2>1
    <2>2. CASE m # n  BY <1>8, <2>2 DEF InvEj, IOFiel, EnServicio
    <2>3. QED  BY <2>1, <2>2
  <1>12. IOFiel'
    <2>1. /\ \A r \in Pids : \A m, l \in Nombres : Espera(m, r)' /\ Espera(l, r)' => m = l
          /\ \A r \in Pids, m \in Nombres : Espera(m, r)' => pcb'[r].estado_actual = "BLOCKED"
      BY <1>2, <1>10 DEF InvEj, IOFiel
    <2>2. QED  BY <1>8, <1>11, <2>1 DEF IOFiel, EsSec, EnServicio, Ocioso
  <1>13. Pcbs' /\ ReadyFiel'  BY <1>2 DEF InvEj, Pcbs, ReadyFiel
  <1>14. UnSitio' /\ FlagsFieles' /\ DespachoFiel' /\ DesalojoFiel' /\ CpuFiel'
    BY <1>2, <1>13, LoDemas
  <1>15. QED  BY <1>12, <1>13, <1>14 DEF InvEj

\* What becomes of the interfaces when only the state of one changes.
LEMMA ServicioCambia ==
    ASSUME InvEj, NEW n \in Nombres, NEW v, UNCHANGED cola_io, servicio' = [servicio EXCEPT ![n] = v],
           v = [pid |-> v.pid, fase |-> v.fase, buffer |-> v.buffer],
           v.fase \in {"libre", "hecho"}, v.fase = "libre" => v = Ocioso,
           v.fase # "libre" => v.pid = servicio[n].pid, servicio[n].fase # "libre",
           \A r \in Pids : v.fase = "hecho" \/ r # servicio[n].pid =>
               pcb'[r].estado_actual = pcb[r].estado_actual
    PROVE  IOFiel'
  <1>1. /\ servicio' = [m \in Nombres |-> servicio'[m]] /\ servicio'[n] = v
        /\ \A m \in Nombres : m # n => servicio'[m] = servicio[m]
    <2>1. servicio = [m \in Nombres |-> servicio[m]]  BY DEF InvEj, IOFiel
    <2>2. QED  BY <2>1
  <1>2. \A m \in Nombres : \A r : EnServicio(m, r)' =>
            EnServicio(m, r) /\ (m = n => v.fase = "hecho")
    <2>1. ASSUME NEW r, EnServicio(n, r)' PROVE EnServicio(n, r) /\ v.fase = "hecho"
      BY <1>1, <2>1 DEF EnServicio
    <2>2. ASSUME NEW m \in Nombres, NEW r, m # n, EnServicio(m, r)' PROVE EnServicio(m, r)
      BY <1>1, <2>2 DEF EnServicio
    <2>3. QED  BY <2>1, <2>2
  <1>3. \A m \in Nombres, r \in Pids : Espera(m, r)' => Espera(m, r)  BY <1>2 DEF Espera
  <1>4. ASSUME NEW m \in Nombres, NEW r \in Pids, Espera(m, r)'
        PROVE  v.fase = "hecho" \/ r # servicio[n].pid
    <2>1. SUFFICES ASSUME r = servicio[n].pid, v.fase # "hecho" PROVE FALSE  OBVIOUS
    <2>2. EnServicio(n, r)  BY <2>1 DEF EnServicio
    <2>3. m = n  BY <1>3, <1>4, <2>2 DEF InvEj, IOFiel, Espera
    <2>4. ~EnServicio(n, r)'  BY <1>2, <2>1
    <2>5. \E i \in 1..Len(cola_io[n]) : cola_io[n][i].pid = r  BY <1>4, <2>3, <2>4 DEF Espera
    <2>6. QED  BY <2>2, <2>5 DEF InvEj, IOFiel
  <1>5. \A r \in Pids, m \in Nombres : Espera(m, r)' => pcb'[r].estado_actual = "BLOCKED"
    BY <1>3, <1>4 DEF InvEj, IOFiel
  <1>6. \A r \in Pids : \A m, l \in Nombres : Espera(m, r)' /\ Espera(l, r)' => m = l
    BY <1>3 DEF InvEj, IOFiel
  <1>7. ASSUME NEW m \in Nombres
        PROVE  /\ \A i \in 1..Len(cola_io[m]) : ~EnServicio(m, cola_io[m][i].pid)'
               /\ servicio'[m] = [pid |-> servicio'[m].pid, fase |-> servicio'[m].fase,
                                  buffer |-> servicio'[m].buffer]
               /\ servicio'[m].fase \in {"libre", "enviado", "hecho"}
               /\ servicio'[m].fase = "libre" => servicio'[m] = Ocioso
               /\ servicio'[m].fase # "libre" => servicio'[m].pid \in Pids
    <2>1. \A i \in 1..Len(cola_io[m]) : ~EnServicio(m, cola_io[m][i].pid)'
      <3>1. ASSUME NEW i \in 1..Len(cola_io[m]), EnServicio(m, cola_io[m][i].pid)' PROVE FALSE
        <4>1. PICK r : r = cola_io[m][i].pid  OBVIOUS
        <4>2. EnServicio(m, r)'  BY <3>1, <4>1 DEF EnServicio
        <4>3. EnServicio(m, r)  BY <1>2, <4>2
        <4>4. QED  BY <4>1, <4>3 DEF InvEj, IOFiel
      <3>2. QED  BY <3>1
    <2>2. CASE m = n  BY <1>1, <2>1, <2>2 DEF InvEj, IOFiel
    <2>3. CASE m # n  BY <1>1, <2>1, <2>3 DEF InvEj, IOFiel
    <2>4. QED  BY <2>2, <2>3
  <1>8. QED  BY <1>1, <1>5, <1>6, <1>7 DEF InvEj, IOFiel, EsSec, Ocioso, EnServicio

\* atender_cliente of the interface
LEMMA InterfazFiel == ASSUME InvEj, NEW n \in Nombres, Interfaz(n) PROVE InvEj'
  <1>1. /\ servicio[n].fase = "enviado" /\ UNCHANGED cola_io
        /\ servicio' = [servicio EXCEPT ![n].fase = "hecho", ![n].buffer = <<>>]
        /\ UNCHANGED <<pcb, ready, cpu_libre, despacho, desalojo, cpu, flags>>
    BY DEF Interfaz, kernelVars
  <1>2. PICK v : v = [pid |-> servicio[n].pid, fase |-> "hecho", buffer |-> <<>>]  OBVIOUS
  <1>3. servicio' = [servicio EXCEPT ![n] = v]
    <2>1. servicio = [m \in Nombres |-> servicio[m]]  BY DEF InvEj, IOFiel
    <2>2. PICK u : u = servicio[n]  OBVIOUS
    <2>3. u = [pid |-> u.pid, fase |-> u.fase, buffer |-> u.buffer]  BY <2>2 DEF InvEj, IOFiel
    <2>4. [[u EXCEPT !.fase = "hecho"] EXCEPT !.buffer = <<>>] = v
      <3>1. PICK w : w = [u EXCEPT !.fase = "hecho"]  OBVIOUS
      <3>2. w = [pid |-> u.pid, fase |-> "hecho", buffer |-> u.buffer]  BY <2>3, <3>1
      <3>3. [w EXCEPT !.buffer = <<>>] = v  BY <1>2, <2>2, <3>2
      <3>4. QED  BY <3>1, <3>3
    <2>5. servicio' = [servicio EXCEPT ![n] = [[u EXCEPT !.fase = "hecho"] EXCEPT !.buffer = <<>>]]
      BY <1>1, <2>1, <2>2
    <2>6. QED  BY <2>4, <2>5
  <1>4. IOFiel'
    <2>1. /\ v.fase = "hecho" /\ v.pid = servicio[n].pid
          /\ v = [pid |-> v.pid, fase |-> v.fase, buffer |-> v.buffer]
      BY <1>2
    <2>2. QED  BY <1>1, <1>3, <2>1, ServicioCambia
  <1>5. Pcbs' /\ ReadyFiel'  BY <1>1 DEF InvEj, Pcbs, ReadyFiel
  <1>6. UnSitio' /\ FlagsFieles' /\ DespachoFiel' /\ DesalojoFiel' /\ CpuFiel'
    BY <1>1, <1>5, LoDemas
  <1>7. QED  BY <1>4, <1>5, <1>6 DEF InvEj

\* The end of atender_interfaz
LEMMA TerminarIOFiel == ASSUME InvEj, NEW n \in Nombres, TerminarIO(n) PROVE InvEj'
  <1>1. PICK p, q : p = servicio[n].pid /\ q = [pcb[p] EXCEPT !.estado_actual = "READY"]  OBVIOUS
  <1>2. /\ servicio[n].fase = "hecho" /\ pcb' = [pcb EXCEPT ![p].estado_actual = "READY"]
        /\ ready' = Append(ready, p) /\ servicio' = [servicio EXCEPT ![n] = Ocioso]
        /\ UNCHANGED <<cola_io, cpu_libre, despacho, desalojo, cpu, flags>>
    BY <1>1 DEF TerminarIO
  <1>3. p \in Pids /\ EnServicio(n, p)  BY <1>1, <1>2 DEF InvEj, IOFiel, EnServicio
  <1>4. pcb[p].estado_actual = "BLOCKED"  BY <1>3 DEF InvEj, IOFiel, Espera
  <1>5. q.pid = p /\ EsPcb(q) /\ Coherente(q) /\ q.estado_actual = "READY"
    <2>1. EsPcb(pcb[p]) /\ pcb[p].pid = p /\ Coherente(pcb[p])  BY <1>3, <1>4 DEF InvEj, Pcbs
    <2>2. q = [pid |-> p, pc |-> pcb[p].pc, quantum |-> pcb[p].quantum,
               registros |-> pcb[p].registros, estado_actual |-> "READY"]
      BY <1>1, <2>1 DEF EsPcb
    <2>3. QED  BY <2>1, <2>2 DEF EsPcb, Coherente
  <1>6. pcb' = [pcb EXCEPT ![p] = q]  BY <1>1, <1>2
  <1>7. Cambia(p, q)  BY <1>3, <1>5, <1>6 DEF Cambia
  <1>8. Pcbs' /\ pcb'[p] = q /\ \A r \in Pids : r # p => pcb'[r] = pcb[r]
    BY <1>2, <1>7, UnoCambia DEF InvEj
  <1>9. UnSitio' /\ FlagsFieles' /\ DespachoFiel' /\ DesalojoFiel' /\ CpuFiel'
    <2>1. \A r \in Pids : pcb[r].estado_actual = "EXEC" => pcb'[r] = pcb[r]  BY <1>4, <1>8
    <2>2. QED  BY <1>2, <1>8, <2>1, LoDemas
  <1>10. ReadyFiel'
    <2>1. ready \in Seq(Pids) /\ IsInjective(ready) /\ ~Contains(ready, p)
      BY <1>3, <1>4 DEF InvEj, ReadyFiel
    <2>2. /\ ready' \in Seq(Pids) /\ IsInjective(ready')
          /\ \A r : Contains(ready', r) <=> Contains(ready, r) \/ r = p
      BY <1>2, <1>3, <2>1, AlFinal
    <2>3. \A r \in Pids : Contains(ready', r) => pcb'[r].estado_actual = "READY"
      BY <1>5, <1>8, <2>2 DEF InvEj, ReadyFiel
    <2>4. QED  BY <2>2, <2>3 DEF ReadyFiel
  <1>11. IOFiel'
    <2>1. PICK v : v = Ocioso  OBVIOUS
    <2>2. v.fase = "libre" /\ v = [pid |-> v.pid, fase |-> v.fase, buffer |-> v.buffer]
      BY <2>1 DEF Ocioso
    <2>3. \A r \in Pids : r # servicio[n].pid => pcb'[r].estado_actual = pcb[r].estado_actual
      BY <1>1, <1>8
    <2>4. QED  BY <1>2, <2>1, <2>2, <2>3, ServicioCambia
  <1>12. QED  BY <1>8, <1>9, <1>10, <1>11 DEF InvEj

\* Every step preserves the invariant.
LEMMA NextEj == ASSUME InvEj, [Next]_vars PROVE InvEj'
  <1>1. CASE Despachar  BY <1>1, DespacharFiel
  <1>2. CASE Cpu  BY <1>2, RecibirPcbFiel, CicloFiel, DejarCpuFiel DEF Cpu
  <1>3. CASE Kernel  BY <1>3, AtenderFinFiel, AtenderIOFiel DEF Kernel
  <1>4. CASE IO  BY <1>4, EjecutarIOFiel, InterfazFiel, TerminarIOFiel DEF IO
  <1>5. CASE EnviarInterrupcion \/ RecibirInterrupcion
    BY <1>5, InterrupcionFiel DEF EnviarInterrupcion, RecibirInterrupcion, kernelVars, ioVars
  <1>6. CASE UNCHANGED vars  BY <1>6, InterrupcionFiel DEF vars, kernelVars, ioVars
  <1>7. QED  BY <1>1, <1>2, <1>3, <1>4, <1>5, <1>6 DEF Next, Sistema

\* It holds at the start: every process is in READY, and nothing travels.
LEMMA InitEj == ASSUME Init PROVE InvEj
  <1>1. Pcbs
    <2>1. ASSUME NEW p \in Pids
          PROVE EsPcb(pcb[p]) /\ pcb[p].pid = p /\ Coherente(pcb[p])
      <3>1. pcb[p] = [pid |-> p, pc |-> 0, quantum |-> 0, registros |-> Registros0,
                      estado_actual |-> "READY"]
        BY DEF Init, Vacio
      <3>2. Registros0["PC"] = 0  BY DEF Registros0, Registros, Largos
      <3>3. QED  BY <3>1, <3>2 DEF EsPcb, Coherente
    <2>2. EsPcb(cpu) /\ cpu.pid = Nadie  BY DEF Init, Vacio, EsPcb
    <2>3. pcb = [p \in Pids |-> pcb[p]]  BY DEF Init
    <2>4. QED  BY <2>1, <2>2, <2>3 DEF Pcbs
  <1>2. UnSitio /\ FlagsFieles /\ DespachoFiel /\ DesalojoFiel /\ CpuFiel
    BY DEF Init, Vacio, UnSitio, FlagsFieles, DespachoFiel, DesalojoFiel, CpuFiel, Activa
  <1>3. ReadyFiel
    <2>1. Cardinality(Pids) \in Nat  BY EjecucionOK, FS_CardinalityType
    <2>2. /\ ready \in [1..Cardinality(Pids) -> Pids]
          /\ \A i, j \in 1..Cardinality(Pids) : i # j => ready[i] # ready[j]
      BY DEF Init, SetToSeqs
    <2>3. ready \in Seq(Pids) /\ DOMAIN ready = 1..Cardinality(Pids)  BY <2>1, <2>2
    <2>4. IsInjective(ready)  BY <2>2, <2>3 DEF IsInjective
    <2>5. \A p \in Pids : pcb[p].estado_actual = "READY"  BY DEF Init, Vacio
    <2>6. QED  BY <2>3, <2>4, <2>5 DEF ReadyFiel
  <1>4. IOFiel
    <2>1. \A n \in Nombres : cola_io[n] = <<>> /\ servicio[n] = Ocioso  BY DEF Init
    <2>2. Len(<<>>) = 0 /\ EsSec(<<>>)  BY DEF EsSec
    <2>3. Ocioso.fase = "libre" /\ Ocioso = [pid |-> Ocioso.pid, fase |-> Ocioso.fase, buffer |-> Ocioso.buffer]
      BY DEF Ocioso
    <2>4. \A n \in Nombres : /\ \A i \in 1..Len(cola_io[n]) : FALSE
                             /\ \A p : ~EnServicio(n, p) /\ ~Espera(n, p)
      BY <2>1, <2>2, <2>3 DEF EnServicio, Espera
    <2>5. cola_io = [n \in Nombres |-> cola_io[n]] /\ servicio = [n \in Nombres |-> servicio[n]]
      BY DEF Init
    <2>6. QED  BY <2>1, <2>2, <2>3, <2>4, <2>5 DEF IOFiel
  <1>5. QED  BY <1>1, <1>2, <1>3, <1>4 DEF InvEj

\* The PCBs are where their state says, and whole.
LEMMA InvEjSiempre == Spec => []InvEj
  BY InitEj, NextEj, PTL DEF Spec

\* PcCoherente: the two program counters of a process agree in the kernel, whatever evicts it
\* and whenever (enviar_pcb, recibir_pcb, recibir_dispatch).
THEOREM PcSiempre == Spec => []PcCoherente
  <1>1. InvEj => PcCoherente  BY DEF InvEj, Pcbs, PcCoherente, Coherente
  <1>2. QED  BY <1>1, InvEjSiempre, PTL

-----------------------------------------------------------------------------
(* Registers: the arithmetic of their widths *)

\* What % m leaves is below m.
LEMMA RestoTipo == ASSUME NEW a \in Int, NEW m \in Nat \ {0} PROVE a % m \in 0..m - 1
  OBVIOUS

\* What is below m is left as it is.
LEMMA RestoDe == ASSUME NEW m \in Nat \ {0}, NEW r \in 0..m - 1 PROVE r % m = r
  OBVIOUS

\* Quotient and remainder.
LEMMA Divide ==
   ASSUME NEW m \in Nat \ {0}, NEW a \in Int
   PROVE \E q \in Int, r \in 0..m - 1 : a = m * q + r /\ a % m = r
  <1>1. a = m * (a \div m) + (a % m) /\ a \div m \in Int /\ a % m \in 0..m - 1 OBVIOUS
  <1>2. PICK q, r : q = a \div m /\ r = a % m OBVIOUS
  <1>3. a = m * q + r /\ q \in Int /\ r \in 0..m - 1  BY <1>1, <1>2
  <1>4. QED BY <1>2, <1>3

\* The remainder does not depend on the quotient.
LEMMA Unico == ASSUME NEW m \in Nat \ {0}, NEW q \in Int, NEW r \in 0..m - 1 PROVE (m * q + r) % m = r
  OBVIOUS

\* A term may be cut before it is added.
LEMMA RestoDentro ==
    ASSUME NEW a \in Int, NEW b \in Int, NEW m \in Nat \ {0}
    PROVE  (a + (b % m)) % m = (a + b) % m
  <1>1. PICK q \in Int, r \in 0..m - 1 : b = m * q + r /\ b % m = r  BY Divide
  <1>2. a + r \in Int OBVIOUS
  <1>3. PICK k \in Int, s \in 0..m - 1 : a + r = m * k + s /\ (a + r) % m = s  BY <1>2, Divide
  <1>4. PICK l \in Int : l = q + k OBVIOUS
  <1>5. a + b = m * l + s
    <2>1. m * l = m * q + m * k BY <1>4
    <2>2. m * q \in Int /\ m * k \in Int OBVIOUS
    <2>3. QED  BY <1>1, <1>3, <2>1, <2>2
  <1>6. (a + b) % m = s  BY <1>5, Unico
  <1>7. QED  BY <1>1, <1>3, <1>6, Zenon

\* The width of a long register counts for nothing in a short one.
LEMMA Periodo ==
    ASSUME NEW x \in Int, NEW a \in Int, NEW m \in Nat \ {0}, a % m = 0
    PROVE  (x + a) % m = x % m
  <1>1. (x + (a % m)) % m = (x + a) % m  BY RestoDentro
  <1>2. PICK c : c = a % m /\ c = 0 OBVIOUS
  <1>3. PICK y : y = x + c  OBVIOUS
  <1>4. y = x  BY <1>2, <1>3
  <1>5. QED  BY <1>1, <1>2, <1>3, <1>4, Zenon

\* A term may be cut before it is taken away.
LEMMA RestoMenos ==
    ASSUME NEW a \in Int, NEW b \in Int, NEW c \in Int, NEW m \in Nat \ {0}, b % m = c % m
    PROVE  (a - b) % m = (a - c) % m /\ (a + b) % m = (a + c) % m
  <1>1. PICK q \in Int, r \in 0..m - 1 : b = m * q + r /\ b % m = r  BY Divide
  <1>2. PICK k \in Int, s \in 0..m - 1 : c = m * k + s /\ c % m = s  BY Divide
  <1>3. r = s BY <1>1, <1>2
  <1>4. a - b \in Int OBVIOUS
  <1>5. PICK l \in Int, t \in 0..m - 1 : a - b = m * l + t /\ (a - b) % m = t  BY <1>4, Divide
  <1>6. PICK h \in Int : h = l + q - k OBVIOUS
  <1>7. a - c = m * h + t
    <2>1. m * h = m * l + m * q - m * k BY <1>6
    <2>2. m * q \in Int /\ m * k \in Int /\ m * l \in Int OBVIOUS
    <2>3. QED  BY <1>1, <1>2, <1>3, <1>5, <2>1, <2>2
  <1>8. (a - c) % m = t  BY <1>7, Unico
  <1>9. (a + b) % m = (a + c) % m
    <2>1. (a + (b % m)) % m = (a + b) % m /\ (a + (c % m)) % m = (a + c) % m  BY RestoDentro
    <2>2. QED  BY <2>1, Zenon
  <1>10. QED BY <1>5, <1>8, <1>9, Zenon

\* The largest value of a type, cut to a shorter one, is the largest of that.
LEMMA RestoAnterior == ASSUME NEW m \in Nat \ {0}, NEW a \in Nat, a % m = 0 PROVE (a - 1) % m = m - 1
  <1>1. PICK q \in Int, r \in 0..m - 1 : a = m * q + r /\ a % m = r  BY Divide
  <1>2. r = 0 BY <1>1
  <1>3. PICK k \in Int : k = q - 1 OBVIOUS
  <1>4. a - 1 = m * k + (m - 1)
     <2>1. m * k = m * q - m BY <1>3
     <2>2. m * q \in Int OBVIOUS
     <2>3. QED BY <1>1, <1>2, <2>1, <2>2
  <1>5. PICK s \in 0..m - 1: s = m - 1 OBVIOUS
  <1>6. QED BY <1>4, <1>5, Unico

\* Registers that hold no more than their width.
RegsOk(r) ==
    /\ r = [n \in Registros |-> r[n]]
    /\ \A n \in Cortos : r[n] \in 0..Ancho8 - 1
    /\ \A n \in Largos : r[n] \in 0..Ancho32 - 1

\* The widths, and which register has which.
LEMMA Anchos ==
    /\ Ancho8 \in Nat \ {0} /\ Ancho32 \in Nat \ {0} /\ Ancho8 - 1 \in 0..Ancho8 - 1
    /\ Ancho32 - 1 \in 0..Ancho32 - 1 /\ (Ancho32 - 1) % Ancho8 = Ancho8 - 1
    /\ Cortos \intersect Largos = {} /\ Registros = Cortos \union Largos /\ "PC" \in Largos
    /\ \A v \in 0..Ancho8 - 1 : v \in 0..Ancho32 - 1
  <1>1. /\ Ancho8 \in Nat \ {0} /\ Ancho32 \in Nat \ {0} /\ Ancho8 - 1 \in 0..Ancho8 - 1
        /\ Ancho32 - 1 \in 0..Ancho32 - 1
        /\ \A v \in 0..Ancho8 - 1 : v \in 0..Ancho32 - 1
    BY EjecucionOK
  <1>2. (Ancho32 - 1) % Ancho8 = Ancho8 - 1
    <2>1. Ancho32 % Ancho8 = 0  BY EjecucionOK
    <2>2. QED  BY <1>1, <2>1, RestoAnterior
  <1>3. /\ Cortos \intersect Largos = {} /\ Registros = Cortos \union Largos /\ "PC" \in Largos
    BY DEF Cortos, Largos, Registros
  <1>4. QED  BY <1>1, <1>2, <1>3

\* A register that changes.
LEMMA RegistroCambia ==
    ASSUME NEW r, RegsOk(r), NEW n \in Registros, NEW v \in 0..(IF n \in Cortos THEN Ancho8 ELSE Ancho32) - 1
    PROVE  RegsOk([r EXCEPT ![n] = v])
  <1>1. [r EXCEPT ![n] = v] = [k \in Registros |-> IF k = n THEN v ELSE r[k]]  BY DEF RegsOk
  <1>2. QED  BY <1>1, Anchos DEF RegsOk

\* A name that is no register changes none.
LEMMA SinRegistro ==
    ASSUME NEW r, RegsOk(r), NEW n, n \notin Registros, NEW v
    PROVE  [r EXCEPT ![n] = v] = r
  BY DEF RegsOk

\* What get_registro_generico reads.
LEMMA GenericoTipo ==
    ASSUME NEW r, RegsOk(r), NEW n
    PROVE  get_registro_generico(r, n) \in 0..Ancho32 - 1 /\ get_registro_generico(r, n) = Maq!Valor(r, n)
  BY Anchos DEF RegsOk, get_registro_generico, Maq!Valor, Maq!Registros, Maq!Cortos, Maq!Largos, Registros, Cortos, Largos

\* sum_registro and sub_registro, whatever the widths of both registers.
LEMMA OrigenEs ==
    ASSUME NEW r, RegsOk(r), NEW d, NEW o
    PROVE  /\ Origen(r, d, o) \in 0..Ancho32 - 1
           /\ d \notin Cortos => Origen(r, d, o) = Maq!Valor(r, o)
           /\ d \in Cortos => Origen(r, d, o) % Ancho8 = Maq!Valor(r, o) % Ancho8
           /\ Maq!Valor(r, o) \in 0..Ancho32 - 1
  <1>1. PICK v : v = Maq!Valor(r, o)  OBVIOUS
  <1>2. v = (IF o \in Registros THEN r[o] ELSE Ancho32 - 1) /\ v \in 0..Ancho32 - 1
    BY <1>1, GenericoTipo DEF get_registro_generico
  <1>3. Registros = Cortos \union Largos  BY Anchos
  <1>4. SUFFICES /\ Origen(r, d, o) \in 0..Ancho32 - 1
                 /\ d \notin Cortos => Origen(r, d, o) = v
                 /\ d \in Cortos => Origen(r, d, o) % Ancho8 = v % Ancho8
    BY <1>1, <1>2, Zenon
  <1>5. CASE o \in Cortos
    <2>1. Origen(r, d, o) = r[o] /\ v = r[o]  BY <1>2, <1>3, <1>5 DEF Origen, get_registro_int8
    <2>2. QED  BY <1>2, <2>1, Zenon
  <1>6. CASE o \notin Cortos
    <2>1. get_registro_int32(r, o) = v  BY <1>2, <1>3, <1>6 DEF get_registro_int32
    <2>2. CASE d \notin Cortos
      <3>1. Origen(r, d, o) = v  BY <1>6, <2>1, <2>2 DEF Origen
      <3>2. QED  BY <1>2, <2>2, <3>1, Zenon
    <2>3. CASE d \in Cortos
      <3>1. Origen(r, d, o) = v % Ancho8  BY <1>6, <2>1, <2>3, Zenon DEF Origen
      <3>2. PICK w : w = v % Ancho8  OBVIOUS
      <3>3. Ancho8 \in Nat \ {0} /\ v \in Int /\ \A x \in 0..Ancho8 - 1 : x \in 0..Ancho32 - 1  BY <1>2, Anchos
      <3>4. w \in 0..Ancho8 - 1  BY <3>2, <3>3, RestoTipo
      <3>5. w % Ancho8 = w  BY <3>3, <3>4, RestoDe
      <3>6. QED  BY <2>3, <3>1, <3>2, <3>3, <3>4, <3>5, Zenon
    <2>4. QED  BY <2>2, <2>3
  <1>7. QED  BY <1>5, <1>6

\* The same, seen from the register that takes the value, whatever its width.
LEMMA OrigenResto ==
    ASSUME NEW r, RegsOk(r), NEW d, NEW o, NEW m, m = (IF d \in Cortos THEN Ancho8 ELSE Ancho32)
    PROVE  /\ Origen(r, d, o) \in Int /\ Maq!Valor(r, o) \in Int
           /\ Origen(r, d, o) % m = Maq!Valor(r, o) % m
  <1>1. /\ Origen(r, d, o) \in 0..Ancho32 - 1 /\ Maq!Valor(r, o) \in 0..Ancho32 - 1
        /\ d \notin Cortos => Origen(r, d, o) = Maq!Valor(r, o)
        /\ d \in Cortos => Origen(r, d, o) % Ancho8 = Maq!Valor(r, o) % Ancho8
    BY OrigenEs
  <1>2. \A x \in 0..Ancho32 - 1 : x \in Int  OBVIOUS
  <1>3. QED  BY <1>1, <1>2, Zenon

\* A value that is cut before it is stored.
LEMMA RegistroCorta ==
    ASSUME NEW r, RegsOk(r), NEW d \in Registros, NEW m, m = (IF d \in Cortos THEN Ancho8 ELSE Ancho32),
           NEW x \in Int
    PROVE  RegsOk([r EXCEPT ![d] = x % m])
  <1>1. m \in Nat \ {0}  BY Anchos
  <1>2. PICK y : y = x % m  OBVIOUS
  <1>3. y \in 0..m - 1  BY <1>1, <1>2, RestoTipo
  <1>4. RegsOk([r EXCEPT ![d] = y])  BY <1>3, RegistroCambia
  <1>5. QED  BY <1>2, <1>4, Zenon

\* SET, SUM, SUB and JNZ, with their casts and their two lists of names, are those of Maquina.
LEMMA ResultadoEs ==
    ASSUME NEW r, RegsOk(r), NEW ins, ins.op \in Calculos, NEW d, NEW o \in Palabras,
           ins.params[1] = d, ins.params[2] = o
    PROVE  RegsOk(Calculada(ins, r)) /\ Calculada(ins, r) = Maq!Resultado(ins, r)
  <1>1. PICK m, v : m = (IF d \in Cortos THEN Ancho8 ELSE Ancho32) /\ v = Maq!Valor(r, o)  OBVIOUS
  <1>2. m \in Nat \ {0} /\ Maq!Ancho(d) = m  BY <1>1, Anchos DEF Maq!Ancho, Maq!Cortos, Cortos
  <1>3. Atoi[o] \in 0..Ancho32 - 1 /\ Atoi[o] \in Int  BY ProgramasOK
  <1>4. CASE ins.op = "SET"
    <2>1. Calculada(ins, r) = set_registro(r, d, Atoi[o]) /\ Maq!Resultado(ins, r) = [r EXCEPT ![d] = Atoi[o] % m]
      BY <1>2, <1>4 DEF Calculada, Maq!Resultado
    <2>2. set_registro(r, d, Atoi[o]) = IF d \in Registros THEN [r EXCEPT ![d] = Atoi[o] % m] ELSE r
      BY <1>1, Anchos DEF set_registro
    <2>3. CASE d \in Registros
      <3>1. PICK y \in Int : y = Atoi[o]  BY <1>3
      <3>2. RegsOk([r EXCEPT ![d] = y % m])  BY <1>1, <2>3, RegistroCorta
      <3>3. QED  BY <2>1, <2>2, <2>3, <3>1, <3>2, Zenon
    <2>4. CASE d \notin Registros  BY <2>1, <2>2, <2>4, SinRegistro
    <2>5. QED  BY <2>3, <2>4
  <1>5. CASE ins.op \in {"SUM", "SUB"}
    <2>1. PICK u : u = Origen(r, d, o)  OBVIOUS
    <2>2. PICK w : w = (IF ins.op = "SUM" THEN u ELSE -u)  OBVIOUS
    <2>3. /\ Calculada(ins, r) = Acumular(r, d, w)
          /\ Maq!Resultado(ins, r) = [r EXCEPT ![d] = (IF ins.op = "SUM" THEN r[d] + v ELSE r[d] - v) % m]
      BY <1>1, <1>2, <1>5, <2>1, <2>2 DEF Calculada, Maq!Resultado, sum_registro, sub_registro
    <2>4. Acumular(r, d, w) = IF d \in Registros THEN [r EXCEPT ![d] = (r[d] + w) % m] ELSE r
      BY <1>1, Anchos DEF Acumular
    <2>5. CASE d \in Registros
      <3>1. u \in Int /\ v \in Int /\ u % m = v % m  BY <1>1, <2>1, OrigenResto
      <3>2. PICK a : a = r[d]  OBVIOUS
      <3>3. a \in Int
        <4>1. d \in Cortos \/ d \in Largos  BY <2>5 DEF Registros
        <4>2. QED  BY <3>2, <4>1, EjecucionOK DEF RegsOk
      <3>4. (a - u) % m = (a - v) % m /\ (a + u) % m = (a + v) % m
        BY <1>2, <3>1, <3>3, RestoMenos
      <3>5. a + w = (IF ins.op = "SUM" THEN a + u ELSE a - u) /\ a + w \in Int  BY <2>2, <3>1, <3>3
      <3>6. (a + w) % m = (IF ins.op = "SUM" THEN a + v ELSE a - v) % m
        <4>1. CASE ins.op = "SUM"  BY <3>4, <3>5, <4>1, Zenon
        <4>2. CASE ins.op # "SUM"  BY <3>4, <3>5, <4>2, Zenon
        <4>3. QED  BY <4>1, <4>2
      <3>7. RegsOk([r EXCEPT ![d] = (a + w) % m])
        <4>1. PICK y \in Int : y = a + w  BY <3>5
        <4>2. RegsOk([r EXCEPT ![d] = y % m])  BY <1>1, <2>5, RegistroCorta
        <4>3. QED  BY <4>1, <4>2, Zenon
      <3>8. QED  BY <2>3, <2>4, <2>5, <3>2, <3>6, <3>7, Zenon
    <2>6. CASE d \notin Registros  BY <2>3, <2>4, <2>6, SinRegistro
    <2>7. QED  BY <2>5, <2>6
  <1>6. CASE ins.op = "JNZ"
    <2>1. /\ Calculada(ins, r) = JNZ_registro(r, d, Atoi[o])
          /\ Maq!Resultado(ins, r) = IF d \in Registros \ {"SI", "DI"} /\ r[d] # 0
                                     THEN [r EXCEPT !["PC"] = Atoi[o]] ELSE r
      BY <1>6 DEF Calculada, Maq!Resultado, Maq!Registros, Maq!Cortos, Maq!Largos, Registros, Cortos, Largos
    <2>2. JNZ_registro(r, d, Atoi[o]) = IF d \in Registros \ {"SI", "DI"} /\ r[d] # 0
                                        THEN [r EXCEPT !["PC"] = Atoi[o]] ELSE r
      BY Anchos DEF JNZ_registro, get_registro_int8, get_registro_int32
    <2>3. RegsOk([r EXCEPT !["PC"] = Atoi[o]])
      <3>1. PICK y : y = Atoi[o]  OBVIOUS
      <3>2. y \in 0..(IF "PC" \in Cortos THEN Ancho8 ELSE Ancho32) - 1 /\ "PC" \in Registros
        BY <1>3, <3>1, Anchos
      <3>3. QED  BY <3>1, <3>2, RegistroCambia, Zenon
    <2>4. QED  BY <2>1, <2>2, <2>3
  <1>7. QED  BY <1>4, <1>5, <1>6 DEF Calculos

\* siguiente_instruccion
LEMMA AvanceOk ==
    ASSUME NEW r, RegsOk(r) PROVE RegsOk([r EXCEPT !["PC"] = (@ + 1) % Ancho32])
  <1>1. r["PC"] + 1 \in Int /\ "PC" \in Registros /\ "PC" \notin Cortos  BY Anchos DEF RegsOk
  <1>2. QED  BY <1>1, RegistroCorta

-----------------------------------------------------------------------------
(* Buffers: fields one after another *)

\* Two sequences, one after the other.
LEMMA Junta ==
    ASSUME NEW s, NEW t, EsSec(s), EsSec(t)
    PROVE  /\ EsSec(s \o t) /\ Len(s \o t) = Len(s) + Len(t)
           /\ \A i \in 1..Len(s) : (s \o t)[i] = s[i]
           /\ \A i \in 1..Len(t) : (s \o t)[Len(s) + i] = t[i]
  <1> DEFINE S == {s[i] : i \in 1..Len(s)}
             T == {t[i] : i \in 1..Len(t)}
  <1>1. PICK U : U = S \union T  OBVIOUS
  <1>2. s \in Seq(S) /\ t \in Seq(T)  BY DeSuyos
  <1>3. S \subseteq U /\ T \subseteq U  BY <1>1
  <1> HIDE DEF S, T
  <1>4. s \in Seq(U) /\ t \in Seq(U)  BY <1>2, <1>3
  <1>5. s \o t \in Seq(U) /\ Len(s \o t) = Len(s) + Len(t) /\ Len(s) \in Nat /\ Len(t) \in Nat  BY <1>4
  <1>6. EsSec(s \o t)  BY <1>5, EsDeSuyos
  <1>7. \A i \in 1..Len(s) : (s \o t)[i] = s[i]  BY <1>4
  <1>8. \A i \in 1..Len(t) : (s \o t)[Len(s) + i] = t[i]  BY <1>4, <1>5
  <1>9. QED  BY <1>5, <1>6, <1>7, <1>8

\* The same, with a name for each part.
Pegado(u, s, t) ==
    /\ EsSec(u) /\ Len(u) = Len(s) + Len(t)
    /\ \A i \in 1..Len(s) : u[i] = s[i]
    /\ \A i \in 1..Len(t) : u[Len(s) + i] = t[i]

\* The same, as one fact.
LEMMA JuntaEs ==
    ASSUME NEW s, NEW t, EsSec(s), EsSec(t) PROVE Pegado(s \o t, s, t)
  BY Junta DEF Pegado

\* A field alone.
LEMMA UnDato ==
    ASSUME NEW v, NEW n
    PROVE EsSec(Dato(v, n)) /\ Len(Dato(v, n)) = 1 /\ Dato(v, n)[1].valor = v /\ Dato(v, n)[1].tam = n
  <1>1. PICK x : x = [valor |-> v, tam |-> n] OBVIOUS
  <1>2. Dato(v, n) = <<x>> BY <1>1 DEF Dato
  <1>3. Len(<<x>>) = 1 /\ <<x>>[1] = x /\ <<x>> \in Seq({x}) OBVIOUS
  <1>4. EsSec(<<x>>)  BY <1>3, EsDeSuyos
  <1>5. QED BY <1>1, <1>2, <1>3, <1>4

\* A field more.
LEMMA UnDatoMas ==
    ASSUME NEW s, EsSec(s), NEW v, NEW n
    PROVE  LET t == s \o Dato(v, n) IN
           /\ EsSec(t) /\ Len(t) = Len(s) + 1 /\ \A i \in 1..Len(s) : t[i] = s[i]
           /\ t[Len(s) + 1].valor = v /\ t[Len(s) + 1].tam = n
  <1>1. PICK x : x = Dato(v, n) OBVIOUS
  <1>2. EsSec(x) /\ Len(x) = 1 /\ x[1].valor = v /\ x[1].tam = n BY <1>1, UnDato
  <1>3. EsSec(s) /\ EsSec(x)  BY <1>2
  <1>4. EsSec(s \o x) /\ Len(s \o x) = Len(s) + Len(x)  BY <1>3, Junta
  <1>5. \A i \in 1..Len(s) : (s \o x)[i] = s[i]  BY <1>3, Junta
  <1>6. \A i \in 1..Len(x) : (s \o x)[Len(s) + i] = x[i]  BY <1>3, Junta
  <1>7. 1 \in 1..Len(x)  BY <1>2
  <1>8. (s \o x)[Len(s) + 1] = x[1]  BY <1>6, <1>7, Zenon
  <1>9. QED  BY <1>1, <1>2, <1>4, <1>5, <1>8

\* Blocks of one, two or three fields one after the other: where each field is.
Bloques(f, ss, n, w) ==
    /\ EsSec(f) /\ Len(f) = n * w
    /\ \A i \in 1..n : \A j \in 1..w : f[w * (i - 1) + j] = ss[i][j]

\* Pieces of w fields each, one after another.
LEMMA AplanarBloques ==
    ASSUME NEW n \in Nat, NEW w \in 1..3, NEW ss, EsSec(ss), Len(ss) = n,
           \A i \in 1..n : EsSec(ss[i]) /\ Len(ss[i]) = w
    PROVE  Bloques(FlattenSeq(ss), ss, n, w)
  <1>1. CASE n = 0
    <2>1. FlattenSeq(ss) = ss  BY <1>1 DEF FlattenSeq
    <2>2. QED  BY <1>1, <2>1 DEF Bloques
  <1>2. CASE n # 0
    <2> DEFINE g == CHOOSE f : f = [i \in 1..n |-> IF i = 1 THEN ss[i] ELSE f[i - 1] \o ss[i]]
    <2>1. g = [i \in 1..n |-> IF i = 1 THEN ss[i] ELSE g[i - 1] \o ss[i]]
      BY ConcatenaExiste, Zenon DEF Concatena
    <2>2. FlattenSeq(ss) = g[n]  BY <1>2, Zenon DEF FlattenSeq
    <2> HIDE DEF g
    <2>3. SUFFICES ASSUME ~Bloques(g[n], ss, n, w) PROVE FALSE  BY <2>2
    <2> DEFINE S == {m \in 1..n : ~Bloques(g[m], ss, m, w)}
    <2>4. PICK m \in S : \A k \in S : m <= k
      <3>1. S \subseteq Nat /\ S # {}  BY <1>2, <2>3
      <3>2. QED  BY <3>1, PrimeroDe
    <2>5. g[m] = IF m = 1 THEN ss[m] ELSE g[m - 1] \o ss[m]  BY <2>1, <2>4
    <2>6. m \in 1..n /\ EsSec(ss[m]) /\ Len(ss[m]) = w  BY <2>4
    <2>7. CASE m = 1
      <3>1. Len(g[m]) = 1 * w /\ EsSec(g[m])  BY <2>5, <2>6, <2>7
      <3>2. \A j \in 1..w : w * (1 - 1) + j = j  OBVIOUS
      <3>3. \A i \in 1..1 : i = 1 OBVIOUS
      <3>4. Bloques(g[m], ss, m, w)  BY <2>5, <2>7, <3>1, <3>2, <3>3 DEF Bloques
      <3>5. QED  BY <2>4, <3>4
    <2>8. CASE m # 1
      <3>1. PICK a, b : a = g[m - 1] /\ b = ss[m]  OBVIOUS
      <3>2. m - 1 \in 1..n /\ m - 1 \notin S  BY <2>4, <2>8
      <3>3. Bloques(a, ss, m - 1, w)  BY <3>1, <3>2
      <3>4. PICK k \in Nat : k = (m - 1) * w /\ m * w = k + w /\ k = w * (m - 1)
        <4>1. CASE w = 1 BY <2>6, <4>1
        <4>2. CASE w = 2 BY <2>6, <4>2
        <4>3. CASE w = 3 BY <2>6, <4>3
        <4>4. QED BY <4>1, <4>2, <4>3
      <3>5. EsSec(a) /\ Len(a) = k /\ EsSec(b) /\ Len(b) = w  BY <2>6, <3>1, <3>3, <3>4 DEF Bloques
      <3>6. PICK c : c = a \o b  OBVIOUS
      <3>7. /\ EsSec(c) /\ Len(c) = k + w /\ \A i \in 1..k : c[i] = a[i]
            /\ \A j \in 1..w : c[k + j] = b[j]
        BY <3>5, <3>6, Junta
      <3>8. ASSUME NEW i \in 1..m, NEW j \in 1..w PROVE c[w * (i - 1) + j] = ss[i][j]
        <4>1. CASE i = m
          <5>1. w * (i - 1) + j = k + j BY <3>4, <4>1
          <5>2. QED BY <3>1, <3>7, <4>1, <5>1
        <4>2. CASE i # m
          <5>1. i \in 1..m - 1  BY <2>6, <3>8, <4>2
          <5>2. a[w * (i - 1) + j] = ss[i][j]  BY <3>3, <3>8, <5>1 DEF Bloques
          <5>3. w * (i - 1) + j \in 1..k
            <6>1. CASE w = 1 BY <2>6, <3>4, <3>8, <5>1, <6>1
            <6>2. CASE w = 2 BY <2>6, <3>4, <3>8, <5>1, <6>2
            <6>3. CASE w = 3 BY <2>6, <3>4, <3>8, <5>1, <6>3
            <6>4. QED BY <6>1, <6>2, <6>3
          <5>4. QED BY <3>7, <5>2, <5>3
        <4>3. QED  BY <4>1, <4>2
      <3>9. Bloques(c, ss, m, w)  BY <3>4, <3>7, <3>8 DEF Bloques
      <3>10. QED  BY <2>4, <2>5, <2>8, <3>1, <3>6, <3>9
    <2>9. QED  BY <2>7, <2>8
  <1>3. QED  BY <1>1, <1>2

-----------------------------------------------------------------------------
(* An instruction travels from memory *)

\* The sequences of the model are written as functions.
LEMMA EsFuncion ==
    ASSUME NEW n \in Nat, NEW f, f = [i \in 1..n |-> f[i]]
    PROVE  EsSec(f) /\ Len(f) = n
  <1>1. DOMAIN f = 1..n  BY Zenon
  <1>2. PICK S : S = {f[i] : i \in 1..n}  OBVIOUS
  <1>3. f \in [1..n -> S]  BY <1>2
  <1>4. f \in Seq(S)  BY <1>3
  <1>5. Len(f) = n BY <1>1, <1>4
  <1>6. QED  BY <1>4, <1>5, EsDeSuyos

\* An instruction as a program has it, and as the CPU has it.
EsInstruccion(ins) ==
    /\ ins = [op |-> ins.op, params |-> ins.params]
    /\ ins.op \in Operaciones /\ ins.params \in Seq(Palabras) /\ Len(ins.params) = Operandos(ins.op)

\* No instruction has more than five parameters.
LEMMA OperandosTipo == ASSUME NEW op \in Operaciones PROVE Operandos(op) \in 0..5
  <1>1. op = "EXIT" => Operandos(op) = 0  BY DEF Operandos
  <1>2. op \in {"SET", "SUM", "SUB", "JNZ", "IO_GEN_SLEEP", "IO_FS_CREATE", "IO_FS_DELETE"} => Operandos(op) = 2
    BY DEF Operandos
  <1>3. op \in {"IO_STDIN_READ", "IO_STDOUT_WRITE", "IO_FS_TRUNCATE"} => Operandos(op) = 3  BY DEF Operandos
  <1>4. op \in {"IO_FS_WRITE", "IO_FS_READ"} => Operandos(op) = 5  BY DEF Operandos
  <1>5. QED  BY <1>1, <1>2, <1>3, <1>4 DEF Operaciones

\* instruccion_deserializar reads what serializar_instruccion wrote.
LEMMA InstruccionLlega ==
    ASSUME NEW ins, EsInstruccion(ins)
    PROVE  Deserializada(SerializarInstruccion(ins)) =
             [op |-> ins.op, largo |-> [i \in 1..5 |-> LargoDe(ins, i)], params |-> ins.params]
  <1>1. PICK n, ps : n = Len(ins.params) /\ ps = ins.params  OBVIOUS
  <1>2. n \in 0..5 /\ n \in Nat /\ ps \in Seq(Palabras)  BY <1>1, OperandosTipo DEF EsInstruccion
  <1>3. PICK ls : ls = [i \in 1..5 |-> LargoDe(ins, i)]  OBVIOUS
  <1>4. PICK cc, dd : /\ cc = [i \in 1..5 |-> Entero(LargoDe(ins, i))]
                      /\ dd = [i \in 1..n |-> Dato(ins.params[i], LargoDe(ins, i))]
    OBVIOUS
  <1>5. \A i \in 1..n : i \in 1..5  BY <1>2
  <1>6. /\ cc = [i \in 1..5 |-> cc[i]] /\ dd = [i \in 1..n |-> dd[i]]
        /\ \A i \in 1..5 : cc[i] = Dato(ls[i], 4)
        /\ \A i \in 1..n : dd[i] = Dato(ps[i], ls[i])
    BY <1>1, <1>3, <1>4, <1>5 DEF Entero
  <1>7. EsSec(cc) /\ Len(cc) = 5 /\ EsSec(dd) /\ Len(dd) = n
     <2>1. 5 \in Nat OBVIOUS
     <2>2. QED BY <1>2, <1>6, <2>1, EsFuncion
  <1>8. \A v, k : EsSec(Dato(v, k)) /\ Len(Dato(v, k)) = 1 /\ Dato(v, k)[1].valor = v /\ Dato(v, k)[1].tam = k
    BY UnDato
  <1>9. PICK c, d : c = FlattenSeq(cc) /\ d = FlattenSeq(dd)  OBVIOUS
  <1>10. Bloques(c, cc, 5, 1) /\ Bloques(d, dd, n, 1)
    <2>1. /\ \A i \in 1..5 : EsSec(cc[i]) /\ Len(cc[i]) = 1
          /\ \A i \in 1..n : EsSec(dd[i]) /\ Len(dd[i]) = 1
      BY <1>6, <1>8
    <2>2. 5 \in Nat /\ 1 \in 1..3 OBVIOUS
    <2>3. Bloques(FlattenSeq(cc), cc, 5, 1) BY <1>7, <2>1, <2>2, AplanarBloques
    <2>4. Bloques(FlattenSeq(dd), dd, n, 1) BY <1>2, <1>7, <2>1, <2>2, AplanarBloques
    <2>5. QED BY <1>9, <2>3, <2>4
  <1>11. /\ EsSec(c) /\ Len(c) = 5 /\ \A i \in 1..5 : c[i].valor = ls[i] /\ c[i].tam = 4
         /\ EsSec(d) /\ Len(d) = n /\ \A i \in 1..n : d[i].valor = ps[i] /\ d[i].tam = ls[i]
    <2>1. 1 \in 1..1 /\ \A i \in Int : 1 * (i - 1) + 1 = i  OBVIOUS
    <2>2. \A i \in 1..5 : c[i] = cc[i][1]  BY <1>10, <2>1 DEF Bloques
    <2>3. \A i \in 1..n : d[i] = dd[i][1]  BY <1>10, <2>1 DEF Bloques
    <2>4. EsSec(c) /\ Len(c) = 5 /\ EsSec(d) /\ Len(d) = n BY <1>2, <1>10 DEF Bloques
    <2>5. QED BY <1>6, <1>8, <2>2, <2>3, <2>4
  <1>12. PICK a, b, s : a = Entero(ins.op) \o Entero(n) /\ b = a \o c /\ s = b \o d  OBVIOUS
  <1>13. s = SerializarInstruccion(ins)  BY <1>1, <1>4, <1>9, <1>12 DEF SerializarInstruccion
  <1>14. EsSec(a) /\ Len(a) = 2 /\ a[1].valor = ins.op /\ a[1].tam = 4 /\ a[2].valor = n /\ a[2].tam = 4
    <2>1. PICK e : e = Dato(ins.op, 4) /\ a = e \o Dato(n, 4)  BY <1>12 DEF Entero
    <2>2. EsSec(e) /\ Len(e) = 1 /\ e[1].valor = ins.op /\ e[1].tam = 4  BY <1>8, <2>1
    <2>3. PICK f : f = Dato(n, 4)  OBVIOUS
    <2>4. EsSec(f) /\ Len(f) = 1 /\ f[1].valor = n /\ f[1].tam = 4  BY <1>8, <2>3
    <2>5. Pegado(a, e, f)  BY <2>1, <2>2, <2>3, <2>4, JuntaEs, Zenon
    <2>6. 1 + 1 = 2 /\ 1 \in 1..1  OBVIOUS
    <2>7. EsSec(a) /\ Len(a) = 2 /\ a[1] = e[1] /\ a[2] = f[1]  BY <2>2, <2>4, <2>5, <2>6 DEF Pegado
    <2>8. QED BY <2>2, <2>4, <2>7
  <1>15. /\ EsSec(b) /\ Len(b) = 7 /\ b[1] = a[1] /\ b[2] = a[2] /\ \A i \in 1..5 : b[2 + i] = c[i]
    <2>1. Pegado(b, a, c)  BY <1>11, <1>12, <1>14, JuntaEs, Zenon
    <2>2. QED  BY <1>11, <1>14, <2>1 DEF Pegado
  <1>16. /\ EsSec(s) /\ Len(s) = 7 + n
         /\ \A i \in 1..7 : s[i] = b[i]
         /\ \A i \in 1..n : s[7 + i] = d[i]
    <2>1. Pegado(s, b, d)  BY <1>11, <1>12, <1>15, JuntaEs, Zenon
    <2>2. QED  BY <1>11, <1>15, <2>1 DEF Pegado
  <1>17. Numero(s, 1) = ins.op /\ Numero(s, 2) = n
    BY <1>2, <1>14, <1>15, <1>16 DEF Numero, Campo
  <1>18. \A i \in 1..5 : Numero(s, 2 + i) = ls[i]
    <2>1. ASSUME NEW i \in 1..5 PROVE Numero(s, 2 + i) = ls[i]
      <3>1. 2 + i \in 1..7 /\ 2 + i <= Len(s)  BY <1>2, <1>16
      <3>2. s[2 + i] = c[i]  BY <1>15, <1>16, <3>1
      <3>3. QED  BY <1>11, <3>1, <3>2 DEF Numero, Campo
    <2>2. QED BY <2>1
  <1>19. \A i \in 1..n : Campo(s, 7 + i, ls[i]) = ps[i]
    <2>1. ASSUME NEW i \in 1..n PROVE Campo(s, 7 + i, ls[i]) = ps[i]
      <3>1. 7 + i <= Len(s) /\ s[7 + i] = d[i] BY <1>2, <1>16
      <3>2. QED  BY <1>11, <3>1 DEF Campo
    <2>2. QED BY <2>1
  <1>20. [i \in 1..5 |-> Numero(s, 2 + i)] = ls
    <2>1. ls = [i \in 1..5 |-> ls[i]]  BY <1>3
    <2>2. QED  BY <1>18, <2>1
  <1>21. [i \in 1..n |-> Campo(s, 7 + i, ls[i])] = ps
    <2>1. ps = [i \in 1..n |-> ps[i]]  BY <1>1, <1>2
    <2>2. QED  BY <1>19, <2>1
  <1>22. Deserializada(s) = [op |-> Numero(s, 1), largo |-> [i \in 1..5 |-> Numero(s, 2 + i)],
               params |-> [i \in 1..Numero(s, 2) |-> Campo(s, 7 + i, [j \in 1..5 |-> Numero(s, 2 + j)][i])]]
    BY DEF Deserializada
  <1>23. QED  BY <1>1, <1>3, <1>13, <1>17, <1>20, <1>21, <1>22

-----------------------------------------------------------------------------
(* The bytes of a buffer *)

\* The sums of the first values of f.
Acumula(f, n) == \E g : g = [k \in 0..n |-> IF k = 0 THEN 0 ELSE g[k - 1] + f[k]]

\* A function by recursion on 0..n exists: if it did not, the first n without one would have a
\* predecessor with one, and one more value to add to it.
LEMMA AcumulaExiste == ASSUME NEW f, NEW n \in Nat PROVE Acumula(f, n)
  <1>1. SUFFICES ASSUME ~Acumula(f, n) PROVE FALSE
    OBVIOUS
  <1> DEFINE S == {m \in Nat : ~Acumula(f, m)}
  <1>2. PICK m \in S : \A k \in S : m <= k  BY <1>1, PrimeroDe
  <1>3. m # 0
    <2> DEFINE g == [k \in 0..0 |-> 0]
    <2>1. g = [k \in 0..0 |-> IF k = 0 THEN 0 ELSE g[k - 1] + f[k]]  OBVIOUS
    <2>2. Acumula(f, 0)  BY <2>1 DEF Acumula
    <2>3. QED  BY <1>2, <2>2
  <1>4. m - 1 \in Nat /\ m - 1 \notin S  BY <1>2, <1>3
  <1>5. PICK g : g = [k \in 0..m - 1 |-> IF k = 0 THEN 0 ELSE g[k - 1] + f[k]]
    BY <1>4 DEF Acumula
  <1> DEFINE h == [k \in 0..m |-> IF k = m THEN g[m - 1] + f[m] ELSE g[k]]
  <1>6. \A k \in 0..m : h[k] = IF k = 0 THEN 0 ELSE h[k - 1] + f[k]
    <2> SUFFICES ASSUME NEW k \in 0..m PROVE h[k] = IF k = 0 THEN 0 ELSE h[k - 1] + f[k]
      OBVIOUS
    <2>1. CASE k = m  BY <2>1, <1>2, <1>3
    <2>2. CASE k # m
      <3>1. k \in 0..m - 1 /\ h[k] = g[k]  BY <2>2, <1>2
      <3>2. g[k] = IF k = 0 THEN 0 ELSE g[k - 1] + f[k]  BY <1>5, <3>1
      <3>3. k # 0 => k - 1 \in 0..m /\ k - 1 # m  BY <3>1, <1>2
      <3>4. k # 0 => h[k - 1] = g[k - 1]  BY <3>3
      <3>5. QED  BY <3>1, <3>2, <3>4
    <2>3. QED  BY <2>1, <2>2
  <1>7. h = [k \in 0..m |-> IF k = 0 THEN 0 ELSE h[k - 1] + f[k]]
    <2> HIDE DEF h
    <2>1. h = [k \in 0..m |-> h[k]]  BY DEF h
    <2>2. QED  BY <2>1, <1>6, Zenon
  <1>8. Acumula(f, m)  BY <1>7 DEF Acumula
  <1>9. QED  BY <1>2, <1>8

\* The bytes of a buffer, field by field.
LEMMA BytesPaso ==
    ASSUME NEW b, EsSec(b)
    PROVE  Bytes(b, 0) = 0 /\ \A j \in 1..Len(b) : Bytes(b, j) = Bytes(b, j - 1) + b[j].tam
  <1>1. PICK n \in Nat : n = Len(b)  BY DEF EsSec
  <1>2. PICK f : f = [k \in 1..n |-> b[k].tam]  OBVIOUS
  <1>3. PICK g : g = [k \in 0..n |-> IF k = 0 THEN 0 ELSE g[k - 1] + f[k]]
    BY AcumulaExiste DEF Acumula
  <1>4. g = [k \in 0..Len(b) |-> IF k = 0 THEN 0 ELSE g[k - 1] + b[k].tam]
    <2>1. \A k \in 0..n : k # 0 => f[k] = b[k].tam  BY <1>2
    <2>2. QED  BY <1>1, <1>3, <2>1
  <1> DEFINE s == CHOOSE s : s = [k \in 0..Len(b) |-> IF k = 0 THEN 0 ELSE s[k - 1] + b[k].tam]
  <1>5. s = [k \in 0..Len(b) |-> IF k = 0 THEN 0 ELSE s[k - 1] + b[k].tam]  BY <1>4, Zenon
  <1>6. \A j : Bytes(b, j) = s[j]  BY Zenon DEF Bytes
  <1> HIDE DEF s
  <1>7. s[0] = 0 /\ \A k \in 1..n : s[k] = s[k - 1] + b[k].tam  BY <1>1, <1>5
  <1>8. QED  BY <1>1, <1>6, <1>7, Zenon

\* The bytes of the pieces of a translation, piece by piece.
LEMMA SumadosPaso ==
    ASSUME NEW b, EsSec(b)
    PROVE  /\ Sumados(b, 0) = 0
           /\ \A j \in 1..Len(b) : Sumados(b, j) = Sumados(b, j - 1) + b[j].desplazamiento_necesario
  <1>1. PICK n \in Nat : n = Len(b)  BY DEF EsSec
  <1>2. PICK f : f = [k \in 1..n |-> b[k].desplazamiento_necesario]  OBVIOUS
  <1>3. PICK g : g = [k \in 0..n |-> IF k = 0 THEN 0 ELSE g[k - 1] + f[k]]
    BY AcumulaExiste DEF Acumula
  <1>4. g = [k \in 0..Len(b) |-> IF k = 0 THEN 0 ELSE g[k - 1] + b[k].desplazamiento_necesario]
    <2>1. \A k \in 0..n : k # 0 => f[k] = b[k].desplazamiento_necesario  BY <1>2
    <2>2. QED  BY <1>1, <1>3, <2>1
  <1> DEFINE s == CHOOSE s : s = [k \in 0..Len(b) |-> IF k = 0 THEN 0 ELSE s[k - 1] + b[k].desplazamiento_necesario]
  <1>5. s = [k \in 0..Len(b) |-> IF k = 0 THEN 0 ELSE s[k - 1] + b[k].desplazamiento_necesario]  BY <1>4, Zenon
  <1>6. \A j : Sumados(b, j) = s[j]  BY Zenon DEF Sumados
  <1> HIDE DEF s
  <1>7. s[0] = 0 /\ \A k \in 1..n : s[k] = s[k - 1] + b[k].desplazamiento_necesario  BY <1>1, <1>5
  <1>8. QED  BY <1>1, <1>6, <1>7, Zenon

\* Which are numbers.
LEMMA SumadosTipo ==
    ASSUME NEW b, EsSec(b), \A j \in 1..Len(b) : b[j].desplazamiento_necesario \in Nat
    PROVE  \A j \in 0..Len(b) : Sumados(b, j) \in Nat
  <1>1. PICK n \in Nat : n = Len(b)  BY DEF EsSec
  <1>2. SUFFICES ASSUME NEW i \in 0..n, Sumados(b, i) \notin Nat PROVE FALSE  BY <1>1
  <1> DEFINE S == {j \in 0..n : Sumados(b, j) \notin Nat}
  <1>3. PICK m \in S : \A k \in S : m <= k
    <2>1. S \subseteq Nat /\ S # {}  BY <1>2
    <2>2. QED  BY <2>1, PrimeroDe
  <1>4. m # 0 /\ m \in 1..Len(b)  BY <1>1, <1>3, SumadosPaso
  <1>5. m - 1 \in 0..n /\ m - 1 \notin S  BY <1>3, <1>4
  <1>6. Sumados(b, m) = Sumados(b, m - 1) + b[m].desplazamiento_necesario  BY <1>4, SumadosPaso
  <1>7. QED  BY <1>3, <1>4, <1>5, <1>6

\* The bytes of a buffer in which all the fields are numbers but perhaps a name, the third.
Peso(k, l) == IF k < 3 THEN 4 * k ELSE 4 * (k - 1) + l

\* A buffer of integers, but for a string of l bytes in its third field, or none.
ConTamanios(b, l) == EsSec(b) /\ \A i \in 1..Len(b) : b[i].tam = IF i = 3 THEN l ELSE 4

\* Its fields take the bytes that they say.
LEMMA BytesEs ==
    ASSUME NEW b, NEW l \in Nat, ConTamanios(b, l)
    PROVE  \A j \in 0..Len(b) : Bytes(b, j) = Peso(j, l)
  <1>1. PICK n \in Nat : n = Len(b)  BY DEF ConTamanios, EsSec
  <1>2. SUFFICES ASSUME NEW i \in 0..n, Bytes(b, i) # Peso(i, l) PROVE FALSE  BY <1>1
  <1> DEFINE S == {j \in 0..n : Bytes(b, j) # Peso(j, l)}
  <1>3. PICK m \in S : \A k \in S : m <= k
    <2>1. S \subseteq Nat /\ S # {}  BY <1>2
    <2>2. QED  BY <2>1, PrimeroDe
  <1>4. Bytes(b, 0) = 0 /\ \A j \in 1..n : Bytes(b, j) = Bytes(b, j - 1) + b[j].tam
    BY <1>1, BytesPaso DEF ConTamanios
  <1>5. m # 0 /\ m \in 1..n  BY <1>1, <1>3, <1>4 DEF Peso
  <1>6. m - 1 \in 0..n /\ m - 1 \notin S  BY <1>3, <1>5
  <1>7. Bytes(b, m) = Peso(m - 1, l) + (IF m = 3 THEN l ELSE 4)  BY <1>1, <1>4, <1>5, <1>6 DEF ConTamanios
  <1>8. QED  BY <1>3, <1>5, <1>7 DEF Peso

\* The kernel keeps exactly what the CPU counted, if it counted all.
LEMMA TramoEntero ==
    ASSUME NEW b, NEW l \in Nat \ {0}, ConTamanios(b, l), b # <<>>
    PROVE  Tramo(b, Peso(Len(b), l)) = b
  <1>1. PICK n \in Nat : n = Len(b) /\ b = [i \in 1..n |-> b[i]]  BY DEF ConTamanios, EsSec
  <1>2. n # 0 /\ DOMAIN b = 1..n  BY <1>1
  <1>3. PICK cortes : cortes = {j \in DOMAIN b : Bytes(b, j) = Peso(n, l)}  OBVIOUS
  <1>4. cortes = {n}
    <2>1. \A j \in 1..n : Bytes(b, j) = Peso(j, l)  BY <1>1, BytesEs
    <2>2. \A j \in 1..n : Peso(j, l) = Peso(n, l) => j = n  BY DEF Peso
    <2>3. QED  BY <1>2, <1>3, <2>1, <2>2
  <1>5. Tramo(b, Peso(n, l)) = SubSeq(b, 1, n)
    <2>1. (CHOOSE j \in {n} : TRUE) = n  OBVIOUS
    <2>2. Tramo(b, Peso(n, l)) = IF cortes = {} THEN Dato(Basura, Peso(n, l))
                                 ELSE SubSeq(b, 1, CHOOSE j \in cortes : TRUE)
      BY <1>3 DEF Tramo
    <2>3. QED  BY <1>4, <2>1, <2>2
  <1>6. SubSeq(b, 1, n) = b
    <2>1. PICK S : b \in Seq(S) BY DeSuyos DEF ConTamanios
    <2>2. SubSeq(b, 1, n) = [i \in 1..n |-> b[i]]  BY <1>1, <1>2, <2>1
    <2>3. QED  BY <1>1, <2>2
  <1>7. QED  BY <1>1, <1>5, <1>6

-----------------------------------------------------------------------------
(* Requests of bytes of memory *)

\* The pieces of a translation.
EsPiezas(ds) == ds \in Seq([direccion_fisica : Nat, desplazamiento_necesario : Nat])

\* The pieces of a translation, one by one.
LEMMA PiezasTipo ==
    ASSUME NEW ds, EsPiezas(ds)
    PROVE  /\ EsSec(ds) /\ Len(ds) \in Nat /\ ds = [i \in 1..Len(ds) |-> ds[i]]
           /\ \A i \in 1..Len(ds) :
                 /\ ds[i] = [direccion_fisica |-> ds[i].direccion_fisica,
                             desplazamiento_necesario |-> ds[i].desplazamiento_necesario]
                 /\ ds[i].direccion_fisica \in Nat /\ ds[i].desplazamiento_necesario \in Nat
  <1>1. PICK S : S = [direccion_fisica : Nat, desplazamiento_necesario : Nat]  OBVIOUS
  <1>2. ds \in Seq(S)  BY <1>1 DEF EsPiezas
  <1>3. EsSec(ds)  BY <1>2, EsDeSuyos
  <1>4. \A i \in 1..Len(ds) : ds[i] \in S  BY <1>2
  <1>5. \A x \in S : /\ x = [direccion_fisica |-> x.direccion_fisica,
                             desplazamiento_necesario |-> x.desplazamiento_necesario]
                     /\ x.direccion_fisica \in Nat /\ x.desplazamiento_necesario \in Nat
    BY <1>1
  <1>6. Len(ds) \in Nat /\ ds = [i \in 1..Len(ds) |-> ds[i]]  BY <1>3 DEF EsSec
  <1>7. QED  BY <1>3, <1>4, <1>5, <1>6

\* Field i of a buffer, as it was written.
Escrito(b, i, v, n) == b[i].valor = v /\ b[i].tam = n

\* What the buffer b has from field k on is what enviar_soli_lectura_sin_pid writes.
ConSolicitud(b, k, t, ds) ==
    /\ EsSec(b) /\ k + 1 + 2 * Len(ds) <= Len(b)
    /\ Escrito(b, k, Len(ds), 4) /\ Escrito(b, k + 1, t, 4)
    /\ \A i \in 1..Len(ds) : /\ Escrito(b, k + 2 * i, ds[i].direccion_fisica, 4)
                             /\ Escrito(b, k + 2 * i + 1, ds[i].desplazamiento_necesario, 4)

\* Two fields.
LEMMA DosDatos ==
    ASSUME NEW v, NEW w, NEW k, NEW j
    PROVE  LET a == Dato(v, k) \o Dato(w, j) IN
           EsSec(a) /\ Len(a) = 2 /\ Escrito(a, 1, v, k) /\ Escrito(a, 2, w, j)
  <1>1. PICK e, f, a : e = Dato(v, k) /\ f = Dato(w, j) /\ a = e \o f  OBVIOUS
  <1>2. /\ EsSec(e) /\ Len(e) = 1 /\ e[1].valor = v /\ e[1].tam = k
        /\ EsSec(f) /\ Len(f) = 1 /\ f[1].valor = w /\ f[1].tam = j
    BY <1>1, UnDato
  <1>3. Pegado(a, e, f)  BY <1>1, <1>2, JuntaEs, Zenon
  <1>4. 1 + 1 = 2 /\ 1 \in 1..1  OBVIOUS
  <1>5. EsSec(a) /\ Len(a) = 2 /\ a[1] = e[1] /\ a[2] = f[1]  BY <1>2, <1>3, <1>4 DEF Pegado
  <1>6. QED  BY <1>1, <1>2, <1>5 DEF Escrito

\* Three fields.
LEMMA TresDatos ==
    ASSUME NEW v, NEW w, NEW u, NEW k, NEW j, NEW l
    PROVE  LET a == Dato(v, k) \o Dato(w, j) \o Dato(u, l) IN
           /\ EsSec(a) /\ Len(a) = 3
           /\ Escrito(a, 1, v, k) /\ Escrito(a, 2, w, j) /\ Escrito(a, 3, u, l)
  <1>1. PICK e, f, a : e = Dato(v, k) \o Dato(w, j) /\ f = Dato(u, l) /\ a = e \o f  OBVIOUS
  <1>2. /\ EsSec(e) /\ Len(e) = 2 /\ Escrito(e, 1, v, k) /\ Escrito(e, 2, w, j)
    BY <1>1, DosDatos
  <1>3. EsSec(f) /\ Len(f) = 1 /\ f[1].valor = u /\ f[1].tam = l
    BY <1>1, UnDato
  <1>4. Pegado(a, e, f)  BY <1>1, <1>2, <1>3, JuntaEs, Zenon
  <1>5. 2 + 1 = 3 /\ 1 \in 1..1 /\ 1 \in 1..2 /\ 2 \in 1..2 OBVIOUS
  <1>6. EsSec(a) /\ Len(a) = 3 /\ a[1] = e[1] /\ a[2] = e[2] /\ a[3] = f[1]
    BY <1>2, <1>3, <1>4, <1>5 DEF Pegado
  <1>7. QED  BY <1>1, <1>2, <1>3, <1>6 DEF Escrito

\* enviar_soli_lectura_sin_pid
LEMMA SolicitudEs ==
    ASSUME NEW m, NEW ds, NEW t, ds = m.direcciones, t = m.tamanio, EsPiezas(ds)
    PROVE  LET s == Solicitud(m) IN
           /\ ConSolicitud(s, 1, t, ds) /\ Len(s) = 2 * Len(ds) + 2
           /\ \A i \in 1..Len(s) : s[i].tam = 4
  <1>1. PICK n \in Nat : n = Len(ds) /\ DOMAIN ds = 1..n  BY DEF EsPiezas
  <1>2. PICK ss : ss = [i \in 1..n |-> Entero(ds[i].direccion_fisica) \o Entero(ds[i].desplazamiento_necesario)]
    OBVIOUS
  <1>3. PICK f, a, s : f = FlattenSeq(ss) /\ a = Entero(n) \o Entero(t) /\ s = a \o f  OBVIOUS
  <1>4. s = Solicitud(m)  BY <1>1, <1>2, <1>3 DEF Solicitud
  <1>5. EsSec(a) /\ Len(a) = 2 /\ Escrito(a, 1, n, 4) /\ Escrito(a, 2, t, 4)
    BY <1>3, DosDatos DEF Entero
  <1>6. \A i \in 1..n : /\ EsSec(ss[i]) /\ Len(ss[i]) = 2 /\ Escrito(ss[i], 1, ds[i].direccion_fisica, 4)
                        /\ Escrito(ss[i], 2, ds[i].desplazamiento_necesario, 4)
    BY <1>2, DosDatos DEF Entero
  <1>7. Bloques(f, ss, n, 2)
    <2>1. ss = [i \in 1..n |-> ss[i]]  BY <1>2
    <2>2. EsSec(ss) /\ Len(ss) = n  BY <2>1, EsFuncion
    <2>3. 2 \in 1..3  OBVIOUS
    <2>4. QED  BY <1>3, <1>6, <2>2, <2>3, AplanarBloques
  <1>8. EsSec(f) /\ Len(f) = 2 * n  BY <1>7 DEF Bloques
  <1>9. Pegado(s, a, f)  BY <1>3, <1>5, <1>8, JuntaEs, Zenon
  <1>10. /\ EsSec(s) /\ Len(s) = 2 * n + 2 /\ s[1] = a[1] /\ s[2] = a[2]
         /\ \A i \in 1..2 * n : s[2 + i] = f[i]
    BY <1>5, <1>8, <1>9 DEF Pegado
  <1>11. \A i \in 1..n : /\ Escrito(s, 1 + 2 * i, ds[i].direccion_fisica, 4)
                         /\ Escrito(s, 1 + 2 * i + 1, ds[i].desplazamiento_necesario, 4)
    <2>1. ASSUME NEW i \in 1..n
          PROVE  /\ Escrito(s, 1 + 2 * i, ds[i].direccion_fisica, 4)
                 /\ Escrito(s, 1 + 2 * i + 1, ds[i].desplazamiento_necesario, 4)
      <3>1. 1 \in 1..2 /\ 2 \in 1..2  OBVIOUS
      <3>2. f[2 * (i - 1) + 1] = ss[i][1] /\ f[2 * (i - 1) + 2] = ss[i][2]  BY <1>7, <3>1 DEF Bloques
      <3>3. PICK j : j = 2 * (i - 1) + 1 /\ j \in 1..2 * n /\ j + 1 \in 1..2 * n /\ j + 1 = 2 * (i - 1) + 2
                     /\ 2 + j = 1 + 2 * i /\ 2 + (j + 1) = 1 + 2 * i + 1
        OBVIOUS
      <3>4. s[1 + 2 * i] = ss[i][1] /\ s[1 + 2 * i + 1] = ss[i][2]  BY <1>10, <3>2, <3>3
      <3>5. QED  BY <1>6, <3>4 DEF Escrito
    <2>2. QED  BY <2>1
  <1>12. \A i \in 1..Len(s) : s[i].tam = 4
    <2>1. ASSUME NEW q \in 1..Len(s), q # 1, q # 2 PROVE s[q].tam = 4
      <3>1. PICK i \in 1..n : q = 1 + 2 * i \/ q = 1 + 2 * i + 1
        <4>1. PICK i \in Int : q = 1 + 2 * i \/ q = 1 + 2 * i + 1
          <5>1. PICK r : r = (q - 1) \div 2  OBVIOUS
          <5>2. r \in Int /\ (q = 1 + 2 * r \/ q = 1 + 2 * r + 1)  BY <1>10, <2>1, <5>1
          <5>3. QED  BY <5>2
        <4>2. i \in 1..n  BY <1>10, <2>1, <4>1
        <4>3. QED  BY <4>1, <4>2
      <3>2. QED  BY <1>11, <3>1 DEF Escrito
    <2>2. s[1].tam = 4 /\ s[2].tam = 4  BY <1>5, <1>10 DEF Escrito
    <2>3. QED  BY <2>1, <2>2
  <1>13. ConSolicitud(s, 1, t, ds)
    <2>1. 1 + 1 + 2 * n <= Len(s) /\ 1 + 1 = 2  BY <1>10
    <2>2. QED  BY <1>1, <1>5, <1>10, <1>11, <2>1 DEF ConSolicitud, Escrito
  <1>14. QED  BY <1>1, <1>4, <1>10, <1>12, <1>13

\* A request keeps its place when more is written after it, and moves when it is written before.
LEMMA SolicitudAntes ==
    ASSUME NEW a, NEW s, NEW t, NEW ds, EsPiezas(ds), EsSec(a), NEW h \in Nat \ {0}, ConSolicitud(s, h, t, ds),
           NEW k, k = Len(a) + h
    PROVE  ConSolicitud(a \o s, k, t, ds)
  <1>1. PICK n \in Nat, j \in Nat, l \in Nat : n = Len(ds) /\ j = Len(a) /\ l = Len(s)
    <2>1. Len(ds) \in Nat  BY PiezasTipo
    <2>2. Len(a) \in Nat /\ Len(s) \in Nat  BY DEF EsSec, ConSolicitud
    <2>3. QED  BY <2>1, <2>2
  <1>2. PICK b : b = a \o s  OBVIOUS
  <1>3. EsSec(s)  BY DEF ConSolicitud
  <1>4. Pegado(b, a, s)  BY <1>2, <1>3, JuntaEs, Zenon
  <1>5. EsSec(b) /\ Len(b) = j + l /\ \A i \in 1..l : b[j + i] = s[i]  BY <1>1, <1>4 DEF Pegado
  <1>6. h + 1 + 2 * n <= l  BY <1>1 DEF ConSolicitud
  <1>7. k + 1 + 2 * n <= Len(b)  BY <1>1, <1>5, <1>6
  <1>8. \A i \in 1..n : b[k + 2 * i] = s[h + 2 * i] /\ b[k + 2 * i + 1] = s[h + 2 * i + 1]
    <2>1. ASSUME NEW i \in 1..n PROVE b[k + 2 * i] = s[h + 2 * i] /\ b[k + 2 * i + 1] = s[h + 2 * i + 1]
      <3>1. /\ h + 2 * i \in 1..l /\ h + 2 * i + 1 \in 1..l
            /\ j + (h + 2 * i) = k + 2 * i /\ j + (h + 2 * i + 1) = k + 2 * i + 1
        BY <1>1, <1>6
      <3>2. QED  BY <1>5, <3>1
    <2>2. QED  BY <2>1
  <1>9. b[k] = s[h] /\ b[k + 1] = s[h + 1]
    <2>1. h \in 1..l /\ h + 1 \in 1..l /\ j + h = k /\ j + (h + 1) = k + 1  BY <1>1, <1>6
    <2>2. QED  BY <1>5, <2>1
  <1>10. QED  BY <1>1, <1>2, <1>5, <1>7, <1>8, <1>9 DEF ConSolicitud, Escrito

\* What follows a request does not change it.
LEMMA SolicitudDespues ==
    ASSUME NEW c, NEW s, NEW t, NEW ds, EsPiezas(ds), EsSec(c), NEW k \in Nat \ {0}, ConSolicitud(s, k, t, ds)
    PROVE  ConSolicitud(s \o c, k, t, ds)
  <1>1. PICK n \in Nat, j \in Nat, l \in Nat : n = Len(ds) /\ j = Len(c) /\ l = Len(s)
    <2>1. Len(ds) \in Nat  BY PiezasTipo
    <2>2. Len(c) \in Nat /\ Len(s) \in Nat  BY DEF EsSec, ConSolicitud
    <2>3. QED  BY <2>1, <2>2
  <1>2. PICK b : b = s \o c  OBVIOUS
  <1>3. EsSec(s)  BY DEF ConSolicitud
  <1>4. Pegado(b, s, c)  BY <1>2, <1>3, JuntaEs, Zenon
  <1>5. EsSec(b) /\ Len(b) = l + j /\ \A i \in 1..l : b[i] = s[i]  BY <1>1, <1>4 DEF Pegado
  <1>6. k + 1 + 2 * n <= l  BY <1>1 DEF ConSolicitud
  <1>7. k + 1 + 2 * n <= Len(b)  BY <1>1, <1>5, <1>6
  <1>8. \A i \in 1..n : b[k + 2 * i] = s[k + 2 * i] /\ b[k + 2 * i + 1] = s[k + 2 * i + 1]
    <2>1. ASSUME NEW i \in 1..n PROVE b[k + 2 * i] = s[k + 2 * i] /\ b[k + 2 * i + 1] = s[k + 2 * i + 1]
      <3>1. k + 2 * i \in 1..l /\ k + 2 * i + 1 \in 1..l  BY <1>1, <1>6
      <3>2. QED  BY <1>5, <3>1
    <2>2. QED  BY <2>1
  <1>9. b[k] = s[k] /\ b[k + 1] = s[k + 1]
    <2>1. k \in 1..l /\ k + 1 \in 1..l  BY <1>1, <1>6
    <2>2. QED  BY <1>5, <2>1
  <1>10. QED  BY <1>1, <1>2, <1>5, <1>7, <1>8, <1>9 DEF ConSolicitud, Escrito

\* The interface reads the request that the CPU wrote.
LEMMA LeidasEs ==
    ASSUME NEW b, NEW k \in Nat \ {0}, NEW t, NEW ds, EsPiezas(ds), ConSolicitud(b, k, t, ds)
    PROVE  Leidas(b, k) = [tamanio |-> t, direcciones |-> ds] /\ Numero(b, k) = Len(ds)
  <1>1. PICK n \in Nat, l \in Nat : n = Len(ds) /\ l = Len(b)  BY DEF EsPiezas, EsSec, ConSolicitud
  <1>2. k + 1 + 2 * n <= l  BY <1>1 DEF ConSolicitud
  <1>3. Numero(b, k) = n /\ Numero(b, k + 1) = t
    BY <1>1, <1>2 DEF ConSolicitud, Escrito, Numero, Campo
  <1>4. \A i \in 1..n : /\ Numero(b, k + 2 * i) = ds[i].direccion_fisica
                        /\ Numero(b, k + 2 * i + 1) = ds[i].desplazamiento_necesario
    BY <1>1, <1>2 DEF ConSolicitud, Escrito, Numero, Campo
  <1>5. \A i \in 1..n : ds[i] = [direccion_fisica |-> Numero(b, k + 2 * i),
                                 desplazamiento_necesario |-> Numero(b, k + 2 * i + 1)]
    <2>1. \A i \in 1..n : ds[i] = [direccion_fisica |-> ds[i].direccion_fisica,
                                   desplazamiento_necesario |-> ds[i].desplazamiento_necesario]
      BY <1>1, PiezasTipo, Zenon
    <2>2. QED  BY <1>4, <2>1
  <1>6. ds = [i \in 1..n |-> ds[i]]  BY <1>1, PiezasTipo
  <1>7. [i \in 1..n |-> [direccion_fisica |-> Numero(b, k + 2 * i),
                         desplazamiento_necesario |-> Numero(b, k + 2 * i + 1)]] = ds
    BY <1>5, <1>6
  <1>8. QED  BY <1>1, <1>3, <1>7 DEF Leidas

\* What an instruction that moves data moves.
EsMovida(m) ==
    /\ m = [tamanio |-> m.tamanio, direcciones |-> m.direcciones]
    /\ m.tamanio \in 0..Ancho32 - 1 /\ EsPiezas(m.direcciones)
    /\ m.direcciones # <<>> => Sumados(m.direcciones, Len(m.direcciones)) = m.tamanio

\* The interface that asks memory for bytes asks for the pieces it was given.
LEMMA PiezasLeidasEs ==
    ASSUME NEW p, NEW m, EsMovida(m) PROVE PiezasLeidas(p, m) = m.direcciones
  <1>1. PICK s, ds, t : s = Solicitud(m) /\ ds = m.direcciones /\ t = m.tamanio  OBVIOUS
  <1>2. EsPiezas(ds)  BY <1>1 DEF EsMovida
  <1>3. ConSolicitud(s, 1, t, ds)  BY <1>1, <1>2, SolicitudEs
  <1>4. PICK a, b : a = Entero(p) /\ b = a \o s  OBVIOUS
  <1>5. EsSec(a) /\ Len(a) = 1  BY <1>4, UnDato DEF Entero
  <1>6. ConSolicitud(b, 2, t, ds)
    <2>1. 1 \in Nat \ {0} /\ 2 = Len(a) + 1  BY <1>5
    <2>2. QED  BY <1>2, <1>3, <1>4, <1>5, <2>1, SolicitudAntes
  <1>7. Leidas(b, 2) = [tamanio |-> t, direcciones |-> ds]
    <2>1. 2 \in Nat \ {0}  OBVIOUS
    <2>2. QED  BY <1>2, <1>6, <2>1, LeidasEs
  <1>8. PiezasLeidas(p, m) = Leidas(b, 2).direcciones  BY <1>1, <1>4 DEF PiezasLeidas
  <1>9. QED  BY <1>1, <1>7, <1>8

\* The one that gives it bytes gives them to the same pieces: the last takes what is left,
\* which is its own.
LEMMA PiezasEscritasEs ==
    ASSUME NEW p, NEW m, EsMovida(m) PROVE PiezasEscritas(p, m) = m.direcciones
  <1>1. PICK ds, t : ds = m.direcciones /\ t = m.tamanio  OBVIOUS
  <1>2. EsPiezas(ds) /\ t \in Nat /\ (ds # <<>> => Sumados(ds, Len(ds)) = t)  BY <1>1 DEF EsMovida
  <1>3. PICK n \in Nat : n = Len(ds)  BY <1>2, PiezasTipo
  <1>4. ASSUME NEW k \in 1..n
        PROVE  (IF k = n THEN t - Sumados(ds, k - 1) ELSE ds[k].desplazamiento_necesario)
                   = ds[k].desplazamiento_necesario
    <2>1. CASE k # n  BY <2>1
    <2>2. CASE k = n
      <3>1. ds # <<>> /\ EsSec(ds)  BY <1>2, <1>3, <1>4, PiezasTipo
      <3>2. Sumados(ds, n) = t  BY <1>2, <1>3, <3>1
      <3>3. \A j \in 1..n : ds[j].desplazamiento_necesario \in Nat  BY <1>2, <1>3, PiezasTipo
      <3>4. Sumados(ds, n - 1) \in Nat
        <4>1. \A j \in 0..n : Sumados(ds, j) \in Nat  BY <1>3, <3>1, <3>3, SumadosTipo
        <4>2. n - 1 \in 0..n  BY <2>2
        <4>3. QED  BY <4>1, <4>2
      <3>5. Sumados(ds, n) = Sumados(ds, n - 1) + ds[n].desplazamiento_necesario
        BY <1>3, <2>2, <3>1, SumadosPaso
      <3>6. QED  BY <2>2, <3>2, <3>3, <3>4, <3>5
    <2>3. QED  BY <2>1, <2>2
  <1> DEFINE pieza(k) == ds[k].desplazamiento_necesario
             bloque(k) == Entero(ds[k].direccion_fisica) \o Entero(pieza(k)) \o Dato("bytes", pieza(k))
  <1>5. PICK ss : ss = [k \in 1..n |-> Entero(ds[k].direccion_fisica) \o Entero(pieza(k))
              \o Dato("bytes", IF k = n THEN t - Sumados(ds, k - 1) ELSE pieza(k))]
    OBVIOUS
  <1>6. ss = [k \in 1..n |-> ss[k]] /\ \A k \in 1..n : ss[k] = bloque(k)  BY <1>4, <1>5
  <1>7. \A k \in 1..n : /\ EsSec(ss[k]) /\ Len(ss[k]) = 3 /\ Escrito(ss[k], 1, ds[k].direccion_fisica, 4)
                        /\ Escrito(ss[k], 2, pieza(k), 4) /\ Escrito(ss[k], 3, "bytes", pieza(k))
    <2>1. ASSUME NEW k \in 1..n
          PROVE  /\ EsSec(ss[k]) /\ Len(ss[k]) = 3 /\ Escrito(ss[k], 1, ds[k].direccion_fisica, 4)
                 /\ Escrito(ss[k], 2, pieza(k), 4) /\ Escrito(ss[k], 3, "bytes", pieza(k))
      <3>1. PICK x, y, z : x = ds[k].direccion_fisica /\ y = pieza(k) /\ z = ss[k]  OBVIOUS
      <3>2. z = Dato(x, 4) \o Dato(y, 4) \o Dato("bytes", y)  BY <1>6, <3>1 DEF Entero
      <3>3. EsSec(z) /\ Len(z) = 3 /\ Escrito(z, 1, x, 4) /\ Escrito(z, 2, y, 4) /\ Escrito(z, 3, "bytes", y)
        BY <3>2, TresDatos
      <3>4. QED  BY <3>1, <3>3
    <2>2. QED  BY <2>1
  <1> HIDE DEF pieza, bloque
  <1>8. PICK f, a, b : f = FlattenSeq(ss) /\ a = Entero(p) \o Entero(n) /\ b = a \o f  OBVIOUS
  <1>9. b = SoliEscritura(p, m)  BY <1>1, <1>3, <1>5, <1>8 DEF SoliEscritura, pieza
  <1>10. EsSec(a) /\ Len(a) = 2 /\ Escrito(a, 1, p, 4) /\ Escrito(a, 2, n, 4)
    BY <1>8, DosDatos DEF Entero
  <1>11. Bloques(f, ss, n, 3)
    <2>1. EsSec(ss) /\ Len(ss) = n  BY <1>6, EsFuncion
    <2>2. 3 \in 1..3  OBVIOUS
    <2>3. QED  BY <1>7, <1>8, <2>1, <2>2, AplanarBloques
  <1>12. EsSec(f) /\ Len(f) = 3 * n  BY <1>11 DEF Bloques
  <1>13. Pegado(b, a, f)  BY <1>8, <1>10, <1>12, JuntaEs, Zenon
  <1>14. /\ EsSec(b) /\ Len(b) = 3 * n + 2 /\ b[2] = a[2]
         /\ \A i \in 1..3 * n : b[2 + i] = f[i]
    BY <1>10, <1>12, <1>13 DEF Pegado
  <1>15. Numero(b, 2) = n  BY <1>10, <1>14 DEF Numero, Campo, Escrito
  <1>16. ASSUME NEW k \in 1..n
         PROVE  /\ Numero(b, 3 * k) = ds[k].direccion_fisica /\ Numero(b, 3 * k + 1) = pieza(k)
                /\ Campo(b, 3 * k + 2, pieza(k)) = "bytes"
    <2>1. 1 \in 1..3 /\ 2 \in 1..3 /\ 3 \in 1..3  OBVIOUS
    <2>2. f[3 * (k - 1) + 1] = ss[k][1] /\ f[3 * (k - 1) + 2] = ss[k][2] /\ f[3 * (k - 1) + 3] = ss[k][3]
      BY <1>11, <2>1 DEF Bloques
    <2>3. /\ 3 * (k - 1) + 1 \in 1..3 * n /\ 3 * (k - 1) + 2 \in 1..3 * n /\ 3 * (k - 1) + 3 \in 1..3 * n
          /\ 2 + (3 * (k - 1) + 1) = 3 * k /\ 2 + (3 * (k - 1) + 2) = 3 * k + 1
          /\ 2 + (3 * (k - 1) + 3) = 3 * k + 2 /\ 3 * k + 2 <= 3 * n + 2
          /\ 3 * k <= 3 * n + 2 /\ 3 * k + 1 <= 3 * n + 2
      OBVIOUS
    <2>4. b[3 * k] = ss[k][1] /\ b[3 * k + 1] = ss[k][2] /\ b[3 * k + 2] = ss[k][3]  BY <1>14, <2>2, <2>3
    <2>5. QED  BY <1>7, <1>14, <2>3, <2>4 DEF Escrito, Numero, Campo
  <1>17. PiezasEscritas(p, m) =
            [k \in 1..n |-> [direccion_fisica |-> Numero(b, 3 * k),
                             desplazamiento_necesario |->
                                IF Campo(b, 3 * k + 2, Numero(b, 3 * k + 1)) = "bytes"
                                THEN Numero(b, 3 * k + 1) ELSE Basura]]
    BY <1>9, <1>15 DEF PiezasEscritas
  <1>18. PiezasEscritas(p, m) = [k \in 1..n |-> [direccion_fisica |-> ds[k].direccion_fisica,
                                                 desplazamiento_necesario |-> pieza(k)]]
    BY <1>16, <1>17
  <1>19. \A k \in 1..n : ds[k] = [direccion_fisica |-> ds[k].direccion_fisica,
                                  desplazamiento_necesario |-> pieza(k)]
    BY <1>2, <1>3, PiezasTipo, Zenon DEF pieza
  <1>20. ds = [k \in 1..n |-> ds[k]]  BY <1>2, <1>3, PiezasTipo
  <1>21. QED  BY <1>1, <1>18, <1>19, <1>20

-----------------------------------------------------------------------------
(* The payload of each I/O instruction *)

\* What the CPU has of an instruction: its strings and how long they are.
EsEnviada(d, ins) ==
    /\ EsInstruccion(ins) /\ d.op = ins.op /\ d.params = ins.params
    /\ \A i \in 1..Len(ins.params) : d.largo[i] \in Nat \ {0}

\* instruccion_deserializar gives what serializar_instruccion was given.
LEMMA EnviadaEs ==
    ASSUME NEW ins, EsInstruccion(ins) PROVE EsEnviada(Deserializada(SerializarInstruccion(ins)), ins)
  <1>1. PICK d : d = Deserializada(SerializarInstruccion(ins))  OBVIOUS
  <1>2. d = [op |-> ins.op, largo |-> [i \in 1..5 |-> LargoDe(ins, i)], params |-> ins.params]
    BY <1>1, InstruccionLlega
  <1>3. ASSUME NEW i \in 1..Len(ins.params) PROVE d.largo[i] \in Nat \ {0}
    <2>1. Len(ins.params) \in 0..5 /\ ins.params \in Seq(Palabras)  BY OperandosTipo DEF EsInstruccion
    <2>2. i \in 1..5 /\ i <= Len(ins.params) /\ ins.params[i] \in Palabras
      <3>1. PICK ps, n : ps = ins.params /\ n = Len(ins.params)  OBVIOUS
      <3>2. n \in 0..5 /\ ps \in Seq(Palabras) /\ n = Len(ps) /\ i \in 1..n  BY <1>3, <2>1, <3>1
      <3>3. ps[i] \in Palabras /\ i \in 1..5 /\ i <= n  BY <3>2
      <3>4. QED  BY <3>1, <3>3
    <2>3. LargoDe(ins, i) \in Nat \ {0}  BY <2>2, ProgramasOK DEF LargoDe
    <2>4. QED  BY <1>2, <2>2, <2>3
  <1>4. QED  BY <1>1, <1>2, <1>3 DEF EsEnviada

\* A translation, with what it was asked for.
LEMMA MovidaDe ==
    ASSUME NEW p \in Pids, NEW dl \in 0..Ancho32 - 1, NEW n \in 0..Ancho32 - 1
    PROVE  EsMovida([tamanio |-> n, direcciones |-> Traduccion[p, dl, n]])
  <1>1. PICK ds : ds = Traduccion[p, dl, n]  OBVIOUS
  <1>2. EsPiezas(ds) /\ (ds # <<>> => Sumados(ds, Len(ds)) = n)  BY <1>1, TraduccionOK DEF EsPiezas
  <1>3. QED  BY <1>1, <1>2 DEF EsMovida

\* The operations that each type of interface performs (esOperacionValida).
LEMMA OficioEs ==
    ASSUME NEW tipo \in {"GENERICA", "STDIN", "STDOUT", "DIALFS"}, NEW op
    PROVE  esOperacionValida(op, tipo) <=> op \in Maq!Oficio(tipo)
  <1>1. CASE tipo = "GENERICA"  BY <1>1 DEF esOperacionValida, Maq!Oficio
  <1>2. CASE tipo = "STDIN"  BY <1>2 DEF esOperacionValida, Maq!Oficio
  <1>3. CASE tipo = "STDOUT"  BY <1>3 DEF esOperacionValida, Maq!Oficio
  <1>4. CASE tipo = "DIALFS"  BY <1>4 DEF esOperacionValida, Maq!Oficio, Maq!Ficheros
  <1>5. QED  BY <1>1, <1>2, <1>3, <1>4

\* The bytes that the CPU counts are those it writes.
Contada(c, tam) == \E l \in Nat \ {0} : ConTamanios(c, l) /\ c # <<>> /\ tam = Peso(Len(c), l)

\* IO_GEN_SLEEP
LEMMA CargaSleep ==
    ASSUME NEW d, NEW ins, EsEnviada(d, ins), NEW p \in Pids, NEW r, d.op = "IO_GEN_SLEEP", NEW m
    PROVE  /\ Contada(Carga(d, r, m), TamAEnviar(d, m))
           /\ Leida("GENERICA", Entero(p) \o Carga(d, r, m)) = Maq!Encargo(p, ins, r)
  <1>1. PICK x : x = Atoi[ins.params[2]]  OBVIOUS
  <1>2. PICK c : c = Dato(x, 4)  OBVIOUS
  <1>3. Carga(d, r, m) = c /\ TamAEnviar(d, m) = 4  BY <1>1, <1>2 DEF Carga, TamAEnviar, Entero, EsEnviada
  <1>4. EsSec(c) /\ Len(c) = 1 /\ c[1].tam = 4  BY <1>2, UnDato
  <1>5. Contada(c, 4)
    <2>1. ConTamanios(c, 4)  BY <1>4 DEF ConTamanios
    <2>2. c # <<>> /\ Peso(Len(c), 4) = 4  BY <1>4 DEF Peso
    <2>3. 4 \in Nat \ {0}  OBVIOUS
    <2>4. QED  BY <2>1, <2>2, <2>3 DEF Contada
  <1>6. PICK b : b = Dato(p, 4) \o c  OBVIOUS
  <1>7. Len(b) = 2 /\ Escrito(b, 2, x, 4)  BY <1>2, <1>6, DosDatos
  <1>8. Numero(b, 2) = x  BY <1>7 DEF Numero, Campo, Escrito
  <1>9. Leida("GENERICA", b) = [op |-> "IO_GEN_SLEEP", unidad |-> x]  BY <1>8 DEF Leida
  <1>10. Maq!Encargo(p, ins, r) = [op |-> "IO_GEN_SLEEP", unidad |-> x]
    BY <1>1 DEF Maq!Encargo, EsEnviada
  <1>11. QED  BY <1>3, <1>5, <1>6, <1>9, <1>10 DEF Entero

\* IO_STDIN_READ and IO_STDOUT_WRITE
LEMMA CargaSolicitud ==
    ASSUME NEW d, NEW m, EsMovida(m), d.op \in {"IO_STDIN_READ", "IO_STDOUT_WRITE"}, NEW p, NEW r
    PROVE  /\ Contada(Carga(d, r, m), TamAEnviar(d, m))
           /\ Leida("STDIN", Entero(p) \o Carga(d, r, m)) =
                [op |-> "IO_STDIN_READ", tamanio |-> m.tamanio, direcciones |-> m.direcciones]
           /\ Leida("STDOUT", Entero(p) \o Carga(d, r, m)) =
                [op |-> "IO_STDOUT_WRITE", tamanio |-> m.tamanio, direcciones |-> m.direcciones]
  <1>1. PICK c, ds, t : c = Solicitud(m) /\ ds = m.direcciones /\ t = m.tamanio  OBVIOUS
  <1>2. EsPiezas(ds) /\ m = [tamanio |-> t, direcciones |-> ds]  BY <1>1 DEF EsMovida
  <1>3. PICK n \in Nat : n = Len(ds)  BY <1>2, PiezasTipo
  <1>4. Carga(d, r, m) = c /\ TamAEnviar(d, m) = 8 * n + 8
    BY <1>1, <1>3 DEF Carga, TamAEnviar, TamSolicitud
  <1>5. ConSolicitud(c, 1, t, ds) /\ Len(c) = 2 * n + 2 /\ \A i \in 1..Len(c) : c[i].tam = 4
    BY <1>1, <1>2, <1>3, SolicitudEs
  <1>6. EsSec(c)  BY <1>5 DEF ConSolicitud
  <1>7. Contada(c, 8 * n + 8)
    <2>1. ConTamanios(c, 4)  BY <1>5, <1>6 DEF ConTamanios
    <2>2. c # <<>> /\ Peso(Len(c), 4) = 8 * n + 8  BY <1>5 DEF Peso
    <2>3. 4 \in Nat \ {0}  OBVIOUS
    <2>4. QED  BY <2>1, <2>2, <2>3 DEF Contada
  <1>8. PICK a, b : a = Dato(p, 4) /\ b = a \o c  OBVIOUS
  <1>9. EsSec(a) /\ Len(a) = 1 /\ a[1].valor = p /\ a[1].tam = 4  BY <1>8, UnDato
  <1>10. ConSolicitud(b, 2, t, ds)
    <2>1. 1 \in Nat \ {0} /\ 2 = Len(a) + 1  BY <1>9
    <2>2. QED  BY <1>2, <1>5, <1>8, <1>9, <2>1, SolicitudAntes
  <1>11. Leidas(b, 2) = m
    <2>1. 2 \in Nat \ {0}  OBVIOUS
    <2>2. QED  BY <1>2, <1>10, <2>1, LeidasEs
  <1>12. PICK q : q = Numero(b, 1)  OBVIOUS
  <1>13. PiezasEscritas(q, m) = ds /\ PiezasLeidas(q, m) = ds  BY <1>1, PiezasEscritasEs, PiezasLeidasEs
  <1>14. Leida("STDIN", b) = [op |-> "IO_STDIN_READ", tamanio |-> t, direcciones |-> ds]
    BY <1>1, <1>11, <1>12, <1>13 DEF Leida
  <1>15. Leida("STDOUT", b) = [op |-> "IO_STDOUT_WRITE", tamanio |-> t, direcciones |-> ds]
    BY <1>1, <1>11, <1>12, <1>13 DEF Leida
  <1>16. QED  BY <1>1, <1>4, <1>7, <1>8, <1>14, <1>15 DEF Entero

\* The operation and the name of a file.
LEMMA NombreEs ==
    ASSUME NEW d
    PROVE  LET c == ConNombre(d) IN
           /\ EsSec(c) /\ Len(c) = 3 /\ Escrito(c, 1, d.op, 4) /\ Escrito(c, 2, d.largo[2], 4)
           /\ Escrito(c, 3, d.params[2], d.largo[2])
  <1>1. PICK x, y, z, c : x = d.op /\ y = d.largo[2] /\ z = d.params[2] /\ c = ConNombre(d)  OBVIOUS
  <1>2. c = Dato(x, 4) \o Dato(y, 4) \o Dato(z, y)  BY <1>1 DEF ConNombre, Entero
  <1>3. EsSec(c) /\ Len(c) = 3 /\ Escrito(c, 1, x, 4) /\ Escrito(c, 2, y, 4) /\ Escrito(c, 3, z, y)
    BY <1>2, TresDatos
  <1>4. QED  BY <1>1, <1>3

\* What DialFS reads first.
Cabecera(c, x, y, z) ==
    /\ EsSec(c) /\ Len(c) >= 3
    /\ Escrito(c, 1, x, 4) /\ Escrito(c, 2, y, 4) /\ Escrito(c, 3, z, y)

\* What DialFS reads first: the operation and the name of the file.
LEMMA LeeNombre ==
    ASSUME NEW p, NEW c, NEW x, NEW y, NEW z, Cabecera(c, x, y, z)
    PROVE  LET b == Entero(p) \o c IN
           /\ Len(b) = Len(c) + 1 /\ Numero(b, 2) = x /\ Campo(b, 4, Numero(b, 3)) = z
           /\ \A i \in 1..Len(c) : b[i + 1] = c[i]
  <1>1. PICK a, b, n : a = Entero(p) /\ b = a \o c /\ n = Len(c)  OBVIOUS
  <1>2. EsSec(a) /\ Len(a) = 1 /\ n \in Nat /\ EsSec(c) /\ n >= 3
    <2>1. EsSec(a) /\ Len(a) = 1  BY <1>1, UnDato DEF Entero
    <2>2. EsSec(c) /\ n >= 3  BY <1>1 DEF Cabecera
    <2>3. QED  BY <1>1, <2>1, <2>2 DEF EsSec
  <1>3. Pegado(b, a, c)  BY <1>1, <1>2, JuntaEs, Zenon
  <1>4. Len(b) = n + 1 /\ \A i \in 1..n : b[i + 1] = c[i]
    <2>1. \A i \in 1..n : 1 + i = i + 1 OBVIOUS
    <2>2. QED BY <1>1, <1>2, <1>3, <2>1 DEF Pegado
  <1>5. b[2] = c[1] /\ b[3] = c[2] /\ b[4] = c[3]
    <2>1. 1 \in 1..n /\ 2 \in 1..n /\ 3 \in 1..n /\ 1 + 1 = 2 /\ 2 + 1 = 3 /\ 3 + 1 = 4  BY <1>1, <1>2
    <2>2. b[1 + 1] = c[1] /\ b[2 + 1] = c[2] /\ b[3 + 1] = c[3]  BY <1>4, <2>1
    <2>3. QED  BY <2>1, <2>2
  <1>6. Len(b) >= 4  BY <1>1, <1>2, <1>4
  <1>7. Numero(b, 2) = x /\ Numero(b, 3) = y  BY <1>5, <1>6 DEF Cabecera, Escrito, Numero, Campo
  <1>8. Campo(b, 4, y) = z  BY <1>5, <1>6 DEF Cabecera, Escrito, Campo
  <1>9. QED  BY <1>1, <1>4, <1>7, <1>8

\* The parameters of an instruction on a file.
LEMMA DeFichero ==
    ASSUME NEW d, NEW ins, EsEnviada(d, ins), d.op \in Maq!Ficheros
    PROVE  d.largo[1] \in Nat \ {0} /\ d.largo[2] \in Nat \ {0} /\ d.op \notin {"IO_GEN_SLEEP", "IO_STDIN_READ", "IO_STDOUT_WRITE"}
  <1>1. Len(ins.params) = Operandos(ins.op) /\ ins.op \in Maq!Ficheros  BY DEF EsEnviada, EsInstruccion
  <1>2. Operandos(ins.op) \in {2, 3, 5}
    <2>1. ins.op \in {"IO_FS_CREATE", "IO_FS_DELETE"} => Operandos(ins.op) = 2  BY DEF Operandos
    <2>2. ins.op = "IO_FS_TRUNCATE" => Operandos(ins.op) = 3  BY DEF Operandos
    <2>3. ins.op \in {"IO_FS_WRITE", "IO_FS_READ"} => Operandos(ins.op) = 5  BY DEF Operandos
    <2>4. QED  BY <1>1, <2>1, <2>2, <2>3 DEF Maq!Ficheros
  <1>3. 1 \in 1..Len(ins.params) /\ 2 \in 1..Len(ins.params)  BY <1>1, <1>2
  <1>4. QED  BY <1>3 DEF EsEnviada, Maq!Ficheros

\* IO_FS_CREATE and IO_FS_DELETE
LEMMA CargaNombre ==
    ASSUME NEW d, NEW ins, EsEnviada(d, ins), NEW p, NEW r, d.op \in {"IO_FS_CREATE", "IO_FS_DELETE"}, NEW m
    PROVE  /\ Contada(Carga(d, r, m), TamAEnviar(d, m))
           /\ Leida("DIALFS", Entero(p) \o Carga(d, r, m)) = [op |-> d.op, nombre |-> d.params[2]]
  <1>1. PICK c, x, y, z : c = ConNombre(d) /\ x = d.op /\ y = d.largo[2] /\ z = d.params[2]  OBVIOUS
  <1>2. Carga(d, r, m) = c /\ TamAEnviar(d, m) = y + 8  BY <1>1 DEF Carga, TamAEnviar, TamNombre
  <1>3. EsSec(c) /\ Len(c) = 3 /\ Escrito(c, 1, x, 4) /\ Escrito(c, 2, y, 4) /\ Escrito(c, 3, z, y)
    BY <1>1, NombreEs
  <1>4. y \in Nat \ {0}  BY <1>1, DeFichero DEF Maq!Ficheros
  <1>5. Contada(c, y + 8)
    <2>1. ConTamanios(c, y)  BY <1>3 DEF ConTamanios, Escrito
    <2>2. c # <<>> /\ Peso(Len(c), y) = y + 8  BY <1>3, <1>4 DEF Peso
    <2>3. QED  BY <1>4, <2>1, <2>2 DEF Contada
  <1>6. PICK b : b = Entero(p) \o c  OBVIOUS
  <1>7. Numero(b, 2) = x /\ Campo(b, 4, Numero(b, 3)) = z
    <2>1. Len(c) >= 3  BY <1>3
    <2>2. Cabecera(c, x, y, z)  BY <1>3, <2>1 DEF Cabecera
    <2>3. QED  BY <1>6, <2>2, LeeNombre
  <1>8. LeidaFS(b) = [op |-> x, nombre |-> z]  BY <1>1, <1>7 DEF LeidaFS
  <1>9. Leida("DIALFS", b) = LeidaFS(b)  BY DEF Leida
  <1>10. QED  BY <1>1, <1>2, <1>5, <1>6, <1>8, <1>9

\* IO_FS_TRUNCATE
LEMMA CargaTruncate ==
    ASSUME NEW d, NEW ins, EsEnviada(d, ins), NEW p, NEW r, d.op = "IO_FS_TRUNCATE", NEW m
    PROVE  /\ Contada(Carga(d, r, m), TamAEnviar(d, m))
           /\ Leida("DIALFS", Entero(p) \o Carga(d, r, m)) =
                [op |-> d.op, nombre |-> d.params[2], tamanio |-> get_registro_generico(r, d.params[3])]
  <1>1. PICK a, x, y, z, v, f, c :
            /\ a = ConNombre(d) /\ x = d.op /\ y = d.largo[2] /\ z = d.params[2]
            /\ v = get_registro_generico(r, d.params[3]) /\ f = Dato(v, 4) /\ c = a \o f
    OBVIOUS
  <1>2. Carga(d, r, m) = c /\ TamAEnviar(d, m) = y + 8 + 4
    BY <1>1 DEF Carga, TamAEnviar, TamNombre, Entero
  <1>3. EsSec(a) /\ Len(a) = 3 /\ Escrito(a, 1, x, 4) /\ Escrito(a, 2, y, 4) /\ Escrito(a, 3, z, y)
    BY <1>1, NombreEs
  <1>4. y \in Nat \ {0}  BY <1>1, DeFichero DEF Maq!Ficheros
  <1>5. EsSec(f) /\ Len(f) = 1 /\ f[1].valor = v /\ f[1].tam = 4  BY <1>1, UnDato
  <1>6. Pegado(c, a, f)  BY <1>1, <1>3, <1>5, JuntaEs, Zenon
  <1>7. EsSec(c) /\ Len(c) = 4 /\ c[1] = a[1] /\ c[2] = a[2] /\ c[3] = a[3] /\ c[4] = f[1]
    <2>1. 3 + 1 = 4 /\ 1 \in 1..1 /\ 1 \in 1..3 /\ 2 \in 1..3 /\ 3 \in 1..3  OBVIOUS
    <2>2. QED  BY <1>3, <1>5, <1>6, <2>1 DEF Pegado
  <1>8. Escrito(c, 1, x, 4) /\ Escrito(c, 2, y, 4) /\ Escrito(c, 3, z, y) /\ Escrito(c, 4, v, 4)
    BY <1>3, <1>5, <1>7 DEF Escrito
  <1>9. Contada(c, y + 8 + 4)
    <2>1. ConTamanios(c, y)  BY <1>7, <1>8 DEF ConTamanios, Escrito
    <2>2. Peso(4, y) = y + 8 + 4  BY <1>4 DEF Peso
    <2>3. c # <<>> /\ Len(c) = 4
      <3>1. Len(c) = 4  BY <1>7
      <3>2. Len(<<>>) = 0  OBVIOUS
      <3>3. QED  BY <3>1, <3>2
    <2>4. QED  BY <1>4, <2>1, <2>2, <2>3 DEF Contada
  <1>10. PICK b : b = Entero(p) \o c  OBVIOUS
  <1>11. /\ Numero(b, 2) = x /\ Campo(b, 4, Numero(b, 3)) = z /\ Len(b) = Len(c) + 1
         /\ \A i \in 1..Len(c) : b[i + 1] = c[i]
    <2>1. Len(c) >= 3  BY <1>7
    <2>2. Cabecera(c, x, y, z)  BY <1>7, <1>8, <2>1 DEF Cabecera
    <2>3. QED  BY <1>10, <2>2, LeeNombre
  <1>12. Numero(b, 5) = v
    <2>1. 4 \in 1..4 /\ 4 + 1 = 5  OBVIOUS
    <2>2. b[5] = c[4] /\ Len(b) = 5  BY <1>7, <1>11, <2>1
    <2>3. QED  BY <1>8, <2>2 DEF Numero, Campo, Escrito
  <1>13. LeidaFS(b) = [op |-> x, nombre |-> z, tamanio |-> v]  BY <1>1, <1>11, <1>12 DEF LeidaFS
  <1>14. Leida("DIALFS", b) = LeidaFS(b)  BY DEF Leida
  <1>15. QED  BY <1>1, <1>2, <1>9, <1>10, <1>13, <1>14

\* IO_FS_WRITE and IO_FS_READ
LEMMA CargaFichero ==
    ASSUME NEW d, NEW ins, EsEnviada(d, ins), NEW p, NEW r, d.op \in {"IO_FS_WRITE", "IO_FS_READ"},
           NEW m, EsMovida(m)
    PROVE  /\ Contada(Carga(d, r, m), TamAEnviar(d, m))
           /\ Leida("DIALFS", Entero(p) \o Carga(d, r, m)) =
                [op |-> d.op, nombre |-> d.params[2], tamanio |-> m.tamanio, direcciones |-> m.direcciones,
                 puntero |-> get_registro_generico(r, d.params[5])]
  <1>1. PICK a, x, y, z, v, f, s, ds, t :
            /\ a = ConNombre(d) /\ x = d.op /\ y = d.largo[2] /\ z = d.params[2]
            /\ v = get_registro_generico(r, d.params[5]) /\ f = Dato(v, 4) /\ s = Solicitud(m)
            /\ ds = m.direcciones /\ t = m.tamanio
    OBVIOUS
  <1>2. PICK e, c : e = a \o s /\ c = e \o f  OBVIOUS
  <1>3. EsPiezas(ds) /\ m = [tamanio |-> t, direcciones |-> ds]  BY <1>1 DEF EsMovida
  <1>4. PICK n \in Nat : n = Len(ds)  BY <1>3, PiezasTipo
  <1>5. Carga(d, r, m) = c  BY <1>1, <1>2 DEF Carga, Entero
  <1>6. TamAEnviar(d, m) = y + 8 + (8 * n + 8) + 4
    BY <1>1, <1>4 DEF TamAEnviar, TamDeFichero, TamNombre, TamSolicitud
  <1>7. EsSec(a) /\ Len(a) = 3 /\ Escrito(a, 1, x, 4) /\ Escrito(a, 2, y, 4) /\ Escrito(a, 3, z, y)
    BY <1>1, NombreEs
  <1>8. y \in Nat \ {0}  BY <1>1, DeFichero DEF Maq!Ficheros
  <1>9. EsSec(f) /\ Len(f) = 1 /\ f[1].valor = v /\ f[1].tam = 4  BY <1>1, UnDato
  <1>10. ConSolicitud(s, 1, t, ds) /\ Len(s) = 2 * n + 2 /\ \A i \in 1..Len(s) : s[i].tam = 4
    BY <1>1, <1>3, <1>4, SolicitudEs
  <1>11. EsSec(s)  BY <1>10 DEF ConSolicitud
  <1>12. Pegado(e, a, s)  BY <1>2, <1>7, <1>11, JuntaEs, Zenon
  <1>13. EsSec(e) /\ Len(e) = 2 * n + 5  BY <1>7, <1>10, <1>12 DEF Pegado
  <1>14. Pegado(c, e, f)  BY <1>2, <1>9, <1>13, JuntaEs, Zenon
  <1>15. EsSec(c) /\ Len(c) = 2 * n + 6  BY <1>9, <1>13, <1>14 DEF Pegado
  <1>16. c[1] = a[1] /\ c[2] = a[2] /\ c[3] = a[3] /\ c[2 * n + 6] = f[1]
    <2>1. \A i \in 1..2 * n + 5 : c[i] = e[i]  BY <1>13, <1>14 DEF Pegado
    <2>2. \A i \in 1..3 : e[i] = a[i]  BY <1>7, <1>12 DEF Pegado
    <2>3. \A i \in 1..3 : c[i] = a[i]  BY <2>1, <2>2
    <2>4. c[2 * n + 5 + 1] = f[1]  BY <1>9, <1>13, <1>14 DEF Pegado
    <2>5. QED  BY <2>3, <2>4
  <1>17. \A i \in 4..2 * n + 6 : c[i].tam = 4
    <2>1. ASSUME NEW i \in 4..2 * n + 5 PROVE c[i].tam = 4
      <3>1. i \in 1..2 * n + 5 /\ i - 3 \in 1..2 * n + 2 /\ 3 + (i - 3) = i  OBVIOUS
      <3>2. c[i] = e[i]  BY <1>13, <1>14, <3>1 DEF Pegado
      <3>3. e[3 + (i - 3)] = s[i - 3]  BY <1>7, <1>10, <1>12, <3>1 DEF Pegado
      <3>4. QED  BY <1>10, <3>1, <3>2, <3>3
    <2>2. c[2 * n + 6].tam = 4  BY <1>9, <1>16
    <2>3. \A i \in 4..2 * n + 6 : i \in 4..2 * n + 5 \/ i = 2 * n + 6  OBVIOUS
    <2>4. QED  BY <2>1, <2>2, <2>3
  <1>18. Escrito(c, 1, x, 4) /\ Escrito(c, 2, y, 4) /\ Escrito(c, 3, z, y) /\ Escrito(c, 2 * n + 6, v, 4)
    BY <1>7, <1>9, <1>16 DEF Escrito
  <1>19. Contada(c, y + 8 + (8 * n + 8) + 4)
    <2>1. ConTamanios(c, y)
      <3>1. \A i \in 1..2 * n + 6 : i = 1 \/ i = 2 \/ i = 3 \/ i \in 4..2 * n + 6  OBVIOUS
      <3>2. \A i \in 1..2 * n + 6 : c[i].tam = IF i = 3 THEN y ELSE 4
        BY <1>17, <1>18, <3>1 DEF Escrito
      <3>3. QED  BY <1>15, <3>2 DEF ConTamanios
    <2>2. c # <<>> /\ Peso(Len(c), y) = y + 8 + (8 * n + 8) + 4  BY <1>8, <1>15 DEF Peso
    <2>3. QED  BY <1>8, <2>1, <2>2 DEF Contada
  <1>20. ConSolicitud(c, 4, t, ds)
    <2>1. 1 \in Nat \ {0} /\ 4 \in Nat \ {0} /\ 4 = Len(a) + 1  BY <1>7
    <2>2. ConSolicitud(e, 4, t, ds)  BY <1>2, <1>3, <1>7, <1>10, <2>1, SolicitudAntes
    <2>3. QED  BY <1>2, <1>3, <1>9, <2>1, <2>2, SolicitudDespues
  <1>21. PICK b, o : o = Entero(p) /\ b = o \o c  OBVIOUS
  <1>22. /\ Numero(b, 2) = x /\ Campo(b, 4, Numero(b, 3)) = z /\ Len(b) = Len(c) + 1
         /\ \A i \in 1..Len(c) : b[i + 1] = c[i]
    <2>1. Len(c) >= 3  BY <1>15
    <2>2. Cabecera(c, x, y, z)  BY <1>15, <1>18, <2>1 DEF Cabecera
    <2>3. QED  BY <1>21, <2>2, LeeNombre
  <1>23. ConSolicitud(b, 5, t, ds)
    <2>1. EsSec(o) /\ Len(o) = 1  BY <1>21, UnDato DEF Entero
    <2>2. 4 \in Nat \ {0} /\ 5 = Len(o) + 4  BY <2>1
    <2>3. QED  BY <1>3, <1>20, <1>21, <2>1, <2>2, SolicitudAntes
  <1>24. Leidas(b, 5) = m /\ Numero(b, 5) = n
    <2>1. 5 \in Nat \ {0}  OBVIOUS
    <2>2. QED  BY <1>3, <1>4, <1>23, <2>1, LeidasEs
  <1>25. Numero(b, 7 + 2 * n) = v
    <2>1. PICK i : i = 2 * n + 6 /\ i \in 1..2 * n + 6 /\ i + 1 = 7 + 2 * n  OBVIOUS
    <2>2. b[7 + 2 * n] = c[2 * n + 6] /\ Len(b) = 7 + 2 * n  BY <1>15, <1>22, <2>1
    <2>3. QED  BY <1>18, <2>2 DEF Numero, Campo, Escrito
  <1>26. PiezasLeidas(Numero(b, 1), m) = ds /\ PiezasEscritas(Numero(b, 1), m) = ds
    BY <1>1, PiezasEscritasEs, PiezasLeidasEs
  <1>27. LeidaFS(b) = [op |-> x, nombre |-> z, tamanio |-> t, direcciones |-> ds, puntero |-> v]
    <2>1. x \in {"IO_FS_WRITE", "IO_FS_READ"}  BY <1>1
    <2>2. LeidaFS(b) = [op |-> Numero(b, 2), nombre |-> Campo(b, 4, Numero(b, 3)), tamanio |-> Leidas(b, 5).tamanio,
             direcciones |-> IF Numero(b, 2) = "IO_FS_WRITE" THEN PiezasLeidas(Numero(b, 1), Leidas(b, 5))
                             ELSE PiezasEscritas(Numero(b, 1), Leidas(b, 5)),
             puntero |-> Numero(b, 7 + 2 * Numero(b, 5))]
      BY <1>22, <2>1 DEF LeidaFS
    <2>3. QED  BY <1>1, <1>22, <1>24, <1>25, <1>26, <2>2
  <1>28. Leida("DIALFS", b) = LeidaFS(b)  BY DEF Leida
  <1>29. QED  BY <1>1, <1>5, <1>6, <1>19, <1>21, <1>27, <1>28

\* The operations of the interfaces, and the types of those.
Datos == {"IO_GEN_SLEEP", "IO_STDIN_READ", "IO_STDOUT_WRITE"} \union Maq!Ficheros
Tipos == {"GENERICA", "STDIN", "STDOUT", "DIALFS"}

\* The payload that the CPU writes, and the bytes that it says it has.
CargaDe(d, p, r) == Carga(d, r, Movida(d, p, r))
TamDe(d, p, r) == TamAEnviar(d, Movida(d, p, r))

\* What the instruction moves, in the registers that its parameters name.
LEMMA MovidaEs ==
    ASSUME NEW d, NEW ins, EsEnviada(d, ins), NEW p \in Pids, NEW r, RegsOk(r)
    PROVE  /\ d.op \in {"IO_STDIN_READ", "IO_STDOUT_WRITE", "IO_FS_WRITE", "IO_FS_READ"} => EsMovida(Movida(d, p, r))
           /\ d.op \in {"IO_STDIN_READ", "IO_STDOUT_WRITE"} =>
                Maq!Encargo(p, ins, r) = [op |-> d.op, tamanio |-> Movida(d, p, r).tamanio,
                                          direcciones |-> Movida(d, p, r).direcciones]
           /\ d.op \in {"IO_FS_WRITE", "IO_FS_READ"} =>
                Maq!Encargo(p, ins, r) = [op |-> d.op, nombre |-> d.params[2], tamanio |-> Movida(d, p, r).tamanio,
                                          direcciones |-> Movida(d, p, r).direcciones,
                                          puntero |-> get_registro_generico(r, d.params[5])]
  <1>1. d.op = ins.op /\ d.params = ins.params  BY DEF EsEnviada
  <1>2. PICK ps : ps = d.params /\ ps = ins.params  BY <1>1
  <1> DEFINE arg(i) == get_registro_generico(r, ps[i])
  <1>3. \A i : arg(i) = Maq!Valor(r, ps[i]) /\ arg(i) \in 0..Ancho32 - 1  BY GenericoTipo
  <1> HIDE DEF arg
  <1>4. CASE d.op = "IO_STDIN_READ"
    <2>1. PICK dl, n : dl = arg(2) /\ n = arg(3)  OBVIOUS
    <2>2. PICK ds : ds = Traduccion[p, dl, n]  OBVIOUS
    <2>3. dl \in 0..Ancho32 - 1 /\ n \in 0..Ancho32 - 1  BY <1>3, <2>1
    <2>4. EsMovida([tamanio |-> n, direcciones |-> ds])  BY <2>2, <2>3, MovidaDe, Zenon
    <2>5. Movida(d, p, r) = [tamanio |-> n, direcciones |-> ds]
      BY <1>2, <1>4, <2>1, <2>2, Zenon DEF Movida, arg
    <2>6. n = Maq!Valor(r, ps[3]) /\ dl = Maq!Valor(r, ps[2])  BY <1>3, <2>1
    <2>7. Maq!Encargo(p, ins, r) = [op |-> d.op, tamanio |-> n, direcciones |-> ds]
      BY <1>1, <1>2, <1>4, <2>2, <2>6, Zenon DEF Maq!Encargo
    <2>8. QED  BY <1>4, <2>4, <2>5, <2>7
  <1>5. CASE d.op = "IO_STDOUT_WRITE"
    <2>1. PICK dl, n, a : dl = arg(2) /\ n = (a + 1) % Ancho32 /\ a = arg(3)  OBVIOUS
    <2>2. PICK ds : ds = Traduccion[p, dl, n]  OBVIOUS
    <2>3. dl \in 0..Ancho32 - 1 /\ n \in 0..Ancho32 - 1
      <3>1. dl \in 0..Ancho32 - 1 /\ a \in 0..Ancho32 - 1  BY <1>3, <2>1
      <3>2. a + 1 \in Int /\ Ancho32 \in Nat \ {0}  BY <3>1, EjecucionOK
      <3>3. n \in 0..Ancho32 - 1  BY <2>1, <3>2, RestoTipo
      <3>4. QED  BY <3>1, <3>3
    <2>4. EsMovida([tamanio |-> n, direcciones |-> ds])  BY <2>2, <2>3, MovidaDe, Zenon
    <2>5. Movida(d, p, r) = [tamanio |-> n, direcciones |-> ds]
      BY <1>2, <1>5, <2>1, <2>2, Zenon DEF Movida, arg
    <2>6. a = Maq!Valor(r, ps[3]) /\ dl = Maq!Valor(r, ps[2])  BY <1>3, <2>1
    <2>7. Maq!Encargo(p, ins, r) = [op |-> d.op, tamanio |-> n, direcciones |-> ds]
      BY <1>1, <1>2, <1>5, <2>1, <2>2, <2>6, Zenon DEF Maq!Encargo
    <2>8. QED  BY <1>5, <2>4, <2>5, <2>7
  <1>6. CASE d.op \in {"IO_FS_WRITE", "IO_FS_READ"}
    <2>1. PICK dl, n, v : dl = arg(3) /\ n = arg(4) /\ v = arg(5)  OBVIOUS
    <2>2. PICK ds : ds = Traduccion[p, dl, n]  OBVIOUS
    <2>3. dl \in 0..Ancho32 - 1 /\ n \in 0..Ancho32 - 1  BY <1>3, <2>1
    <2>4. EsMovida([tamanio |-> n, direcciones |-> ds])  BY <2>2, <2>3, MovidaDe, Zenon
    <2>5. Movida(d, p, r) = [tamanio |-> n, direcciones |-> ds]
      BY <1>2, <1>6, <2>1, <2>2, Zenon DEF Movida, arg
    <2>6. n = Maq!Valor(r, ps[4]) /\ dl = Maq!Valor(r, ps[3]) /\ v = Maq!Valor(r, ps[5])  BY <1>3, <2>1
    <2>7. Maq!Encargo(p, ins, r) = [op |-> d.op, nombre |-> ps[2], tamanio |-> n, direcciones |-> ds, puntero |-> v]
      BY <1>1, <1>2, <1>6, <2>2, <2>6, Zenon DEF Maq!Encargo
    <2>8. v = get_registro_generico(r, d.params[5])  BY <1>2, <2>1 DEF arg
    <2>9. Movida(d, p, r).tamanio = n /\ Movida(d, p, r).direcciones = ds  BY <2>5
    <2>10. ps[2] = d.params[2]  BY <1>2
    <2>11. EsMovida(Movida(d, p, r))  BY <2>4, <2>5
    <2>12. Maq!Encargo(p, ins, r) = [op |-> d.op, nombre |-> d.params[2], tamanio |-> Movida(d, p, r).tamanio,
                                     direcciones |-> Movida(d, p, r).direcciones,
                                     puntero |-> get_registro_generico(r, d.params[5])]
      BY <2>7, <2>8, <2>9, <2>10, Zenon
    <2>13. d.op \notin {"IO_STDIN_READ", "IO_STDOUT_WRITE"}  BY <1>6
    <2>14. QED  BY <2>11, <2>12, <2>13, Zenon
  <1>7. QED  BY <1>4, <1>5, <1>6

\* The packet of an I/O instruction: the CPU counts what it writes, and the interface that
\* performs the operation reads what the instruction said.
LEMMA CargaEs ==
    ASSUME NEW d, NEW ins, EsEnviada(d, ins), d.op \in Datos, NEW p \in Pids, NEW r, RegsOk(r)
    PROVE  /\ Contada(CargaDe(d, p, r), TamDe(d, p, r))
           /\ \A tipo \in Tipos : d.op \in Maq!Oficio(tipo) =>
                  Leida(tipo, Entero(p) \o CargaDe(d, p, r)) = Maq!Encargo(p, ins, r)
  <1>1. PICK m, c : m = Movida(d, p, r) /\ c = Carga(d, r, m)  OBVIOUS
  <1>2. CargaDe(d, p, r) = c /\ TamDe(d, p, r) = TamAEnviar(d, m)  BY <1>1 DEF CargaDe, TamDe
  <1>3. d.op = ins.op /\ d.params = ins.params  BY DEF EsEnviada
  <1>4. CASE d.op = "IO_GEN_SLEEP"
    <2>1. /\ Contada(c, TamAEnviar(d, m))
          /\ Leida("GENERICA", Entero(p) \o c) = Maq!Encargo(p, ins, r)
      BY <1>1, <1>4, CargaSleep
    <2>2. \A tipo \in Tipos : d.op \in Maq!Oficio(tipo) => tipo = "GENERICA"
      BY <1>4 DEF Tipos, Maq!Oficio, Maq!Ficheros
    <2>3. QED  BY <1>2, <2>1, <2>2
  <1>5. CASE d.op \in {"IO_STDIN_READ", "IO_STDOUT_WRITE"}
    <2>1. EsMovida(m) /\ Maq!Encargo(p, ins, r) = [op |-> d.op, tamanio |-> m.tamanio, direcciones |-> m.direcciones]
      BY <1>1, <1>5, MovidaEs
    <2>2. /\ Contada(c, TamAEnviar(d, m))
          /\ Leida("STDIN", Entero(p) \o c) = [op |-> "IO_STDIN_READ", tamanio |-> m.tamanio, direcciones |-> m.direcciones]
          /\ Leida("STDOUT", Entero(p) \o c) = [op |-> "IO_STDOUT_WRITE", tamanio |-> m.tamanio, direcciones |-> m.direcciones]
      BY <1>1, <1>5, <2>1, CargaSolicitud
    <2>3. \A tipo \in Tipos : d.op \in Maq!Oficio(tipo) =>
              \/ tipo = "STDIN" /\ d.op = "IO_STDIN_READ"
              \/ tipo = "STDOUT" /\ d.op = "IO_STDOUT_WRITE"
      BY <1>5 DEF Tipos, Maq!Oficio, Maq!Ficheros
    <2>4. QED  BY <1>2, <2>1, <2>2, <2>3
  <1>6. CASE d.op \in Maq!Ficheros
    <2>1. \A tipo \in Tipos : d.op \in Maq!Oficio(tipo) => tipo = "DIALFS"
      BY <1>6 DEF Tipos, Maq!Oficio, Maq!Ficheros
    <2>2. CASE d.op \in {"IO_FS_CREATE", "IO_FS_DELETE"}
      <3>1. /\ Contada(c, TamAEnviar(d, m))
            /\ Leida("DIALFS", Entero(p) \o c) = [op |-> d.op, nombre |-> d.params[2]]
        BY <1>1, <2>2, CargaNombre
      <3>2. Maq!Encargo(p, ins, r) = [op |-> ins.op, nombre |-> ins.params[2]]
        BY <1>3, <2>2 DEF Maq!Encargo
      <3>3. QED  BY <1>2, <1>3, <2>1, <3>1, <3>2
    <2>3. CASE d.op = "IO_FS_TRUNCATE"
      <3>1. /\ Contada(c, TamAEnviar(d, m))
            /\ Leida("DIALFS", Entero(p) \o c) =
                [op |-> d.op, nombre |-> d.params[2], tamanio |-> get_registro_generico(r, d.params[3])]
        BY <1>1, <2>3, CargaTruncate
      <3>2. PICK v : v = get_registro_generico(r, d.params[3]) /\ v = Maq!Valor(r, ins.params[3])
        BY <1>3, GenericoTipo
      <3>3. Maq!Encargo(p, ins, r) = [op |-> ins.op, nombre |-> ins.params[2], tamanio |-> v]
        BY <1>3, <2>3, <3>2 DEF Maq!Encargo
      <3>4. QED  BY <1>2, <1>3, <2>1, <3>1, <3>2, <3>3
    <2>4. CASE d.op \in {"IO_FS_WRITE", "IO_FS_READ"}
      <3>1. EsMovida(m) /\ Maq!Encargo(p, ins, r) =
               [op |-> d.op, nombre |-> d.params[2], tamanio |-> m.tamanio, direcciones |-> m.direcciones,
                puntero |-> get_registro_generico(r, d.params[5])]
        BY <1>1, <2>4, MovidaEs
      <3>2. /\ Contada(c, TamAEnviar(d, m))
            /\ Leida("DIALFS", Entero(p) \o c) =
                [op |-> d.op, nombre |-> d.params[2], tamanio |-> m.tamanio, direcciones |-> m.direcciones,
                 puntero |-> get_registro_generico(r, d.params[5])]
        BY <1>1, <2>4, <3>1, CargaFichero
      <3>3. QED  BY <1>2, <2>1, <3>1, <3>2
    <2>5. QED  BY <1>6, <2>2, <2>3, <2>4 DEF Maq!Ficheros
  <1>7. QED  BY <1>4, <1>5, <1>6 DEF Datos

\* recibir_dispatch takes the packet apart as the CPU put it together.
LEMMA PaqueteLlega ==
    ASSUME NEW d, NEW ins, EsEnviada(d, ins), d.op \in Datos, NEW p \in Pids, NEW r, RegsOk(r)
    PROVE  LET b == Paquete(d, p, r) IN
           /\ Numero(b, 1) = ins.op /\ Campo(b, 3, Numero(b, 2)) = ins.params[1]
           /\ Tramo(SubSeq(b, 5, Len(b)), Numero(b, 4)) = CargaDe(d, p, r)
  <1>1. PICK x, y, z, t, c : /\ x = d.op /\ y = d.largo[1] /\ z = d.params[1] /\ t = TamDe(d, p, r)
                             /\ c = CargaDe(d, p, r)
    OBVIOUS
  <1>2. x = ins.op /\ z = ins.params[1]  BY <1>1 DEF EsEnviada
  <1>3. PICK l \in Nat \ {0} : ConTamanios(c, l) /\ c # <<>> /\ t = Peso(Len(c), l)
    BY <1>1, CargaEs DEF Contada
  <1>4. PICK e, f, a, b : /\ e = Dato(x, 4) \o Dato(y, 4) \o Dato(z, y) /\ f = Dato(t, 4)
                          /\ a = e \o f /\ b = a \o c
    OBVIOUS
  <1>5. b = Paquete(d, p, r)
    BY <1>1, <1>4 DEF Paquete, CargaDe, TamDe, Entero
  <1>6. EsSec(e) /\ Len(e) = 3 /\ Escrito(e, 1, x, 4) /\ Escrito(e, 2, y, 4) /\ Escrito(e, 3, z, y)
    BY <1>4, TresDatos
  <1>7. EsSec(f) /\ Len(f) = 1 /\ f[1].valor = t /\ f[1].tam = 4  BY <1>4, UnDato
  <1>8. Pegado(a, e, f)  BY <1>4, <1>6, <1>7, JuntaEs, Zenon
  <1>9. EsSec(a) /\ Len(a) = 4 /\ a[1] = e[1] /\ a[2] = e[2] /\ a[3] = e[3] /\ a[4] = f[1]
    <2>1. 3 + 1 = 4 /\ 1 \in 1..1 /\ 1 \in 1..3 /\ 2 \in 1..3 /\ 3 \in 1..3  OBVIOUS
    <2>2. QED  BY <1>6, <1>7, <1>8, <2>1 DEF Pegado
  <1>10. EsSec(c)  BY <1>3 DEF ConTamanios
  <1>11. Pegado(b, a, c)  BY <1>4, <1>9, <1>10, JuntaEs, Zenon
  <1>12. PICK n \in Nat : n = Len(c)  BY <1>10 DEF EsSec
  <1>13. /\ EsSec(b) /\ Len(b) = 4 + n /\ \A i \in 1..4 : b[i] = a[i] /\ \A j \in 1..n : b[4 + j] = c[j]
    BY <1>9, <1>11, <1>12 DEF Pegado
  <1>14. Escrito(b, 1, x, 4) /\ Escrito(b, 2, y, 4) /\ Escrito(b, 3, z, y) /\ Escrito(b, 4, t, 4)
    BY <1>6, <1>7, <1>9, <1>13 DEF Escrito
  <1>15. Numero(b, 1) = x /\ Numero(b, 2) = y /\ Campo(b, 3, y) = z /\ Numero(b, 4) = t
    BY <1>13, <1>14 DEF Escrito, Numero, Campo
  <1>16. SubSeq(b, 5, Len(b)) = c
    <2>1. PICK S : b \in Seq(S)  BY <1>13, DeSuyos
    <2>2. SubSeq(b, 5, 4 + n) = [i \in 1..n |-> b[4 + i]]
      <3>1. Len(b) = 4 + n /\ 5 \in Nat /\ 4 + n \in Nat  BY <1>13
      <3>2. SubSeq(b, 5, 4 + n) = [i \in 1..4 + n - 5 + 1 |-> b[i + 5 - 1]]  BY <2>1, <3>1
      <3>3. 4 + n - 5 + 1 = n /\ \A i \in 1..n : i + 5 - 1 = 4 + i  OBVIOUS
      <3>4. QED  BY <3>2, <3>3
    <2>3. c = [i \in 1..n |-> c[i]]  BY <1>10, <1>12 DEF EsSec
    <2>4. QED  BY <1>13, <2>2, <2>3
  <1>17. Tramo(c, t) = c  BY <1>3, TramoEntero
  <1>18. QED  BY <1>1, <1>2, <1>5, <1>15, <1>16, <1>17

-----------------------------------------------------------------------------
(* The invariant of the data that travel *)

\* What the CPU has stored of each process, and where its interruptions and requests are.
RegistrosFieles ==
    /\ programa \in Cargas /\ cpu_libre \in BOOLEAN
    /\ RegsOk(registros_cpu) /\ RegsOk(cpu.registros)
    /\ \A p \in Pids : RegsOk(pcb[p].registros) /\ Coherente(pcb[p])
    /\ desalojo # <<>> => RegsOk(Recibido.registros)

\* The interruptions carry pids.
Avisos ==
    /\ EsSec(interrupt) /\ Len(interrupt) <= MaxInterrupciones
    /\ \A i \in 1..Len(interrupt) : Numero(interrupt[i], 1) \in Pids
    /\ {pcb_en_ejecucion, interrupcion_recibida} \subseteq Pids \union {Nadie}

\* The PCB of a process that is not in the CPU.
Fuera(p) == IF desalojo # <<>> /\ Recibido.pid = p THEN Recibido ELSE pcb[p]

\* A process that asked for an interface has left its registers in the CPU.
CopiaFiel == cpu.pid # Nadie /\ "input_ouput" \in flags => Fuera(cpu.pid).registros = registros_cpu

\* The last instruction executed with the registers r is an I/O one.
EnOrden(p, r) == r["PC"] \in 1..Len(programa[p]) /\ programa[p][r["PC"]].op \in Datos
Orden(p, r) == Enviada[programa[p][r["PC"]]]
ConPaquete(p, r, b) == EnOrden(p, r) /\ b = Paquete(Orden(p, r), p, r)

\* The packet behind OPERACION_IO is that of the instruction that the PCB has just executed.
PaqueteFiel ==
    desalojo # <<>> =>
        /\ desalojo[2].op = "PCB"
        /\ desalojo[1].op = "OPERACION_IO" =>
             desalojo[3].op = "OPERACION_IO" /\ ConPaquete(Recibido.pid, Recibido.registros, desalojo[3].buffer)

\* The instruction that p waits for names the interface n and is of its type.
Encargado(n, p) ==
    LET r == pcb[p].registros  ins == programa[p][r["PC"]] IN
    EnOrden(p, r) /\ ins.params[1] = n /\ ins.op \in Maq!Oficio(Conexiones[n])

\* The payload of the instruction that a blocked process asks for.
CargaPedida(p) == CargaDe(Orden(p, pcb[p].registros), p, pcb[p].registros)

\* What an interface has to do is what the process asked for, and the registers in the kernel say.
ColasFieles ==
    \A n \in Nombres :
       /\ \A i \in 1..Len(cola_io[n]) : LET p == cola_io[n][i].pid IN
             Encargado(n, p) /\ cola_io[n][i].info = CargaPedida(p)
       /\ servicio[n].fase = "enviado" =>
             /\ Encargado(n, servicio[n].pid)
             /\ servicio[n].buffer = Entero(servicio[n].pid) \o CargaPedida(servicio[n].pid)

\* The strengthening: the data that travel are those of the process.
InvComputa == InvEj /\ RegistrosFieles /\ Avisos /\ CopiaFiel /\ PaqueteFiel /\ ColasFieles

\* The instruction that memory answers to the CPU.
LEMMA Traido ==
    ASSUME programa \in Cargas, NEW p \in Pids, NEW k \in 1..Len(programa[p])
    PROVE  EsEnviada(Enviada[programa[p][k]], programa[p][k])
  <1>1. PICK s : s = programa[p]  OBVIOUS
  <1>2. /\ s \in Seq([op : Operaciones, params : Seq(Palabras)])
        /\ \A j \in DOMAIN s : Len(s[j].params) = Operandos(s[j].op)
    BY <1>1, ProgramasOK
  <1>3. DOMAIN s = 1..Len(s)  BY <1>2
  <1>4. PICK ins : ins = s[k]  OBVIOUS
  <1>5. ins \in [op : Operaciones, params : Seq(Palabras)] /\ Len(ins.params) = Operandos(ins.op)
    <2>1. k \in 1..Len(s)  BY <1>1
    <2>2. PICK S : S = [op : Operaciones, params : Seq(Palabras)]  OBVIOUS
    <2>3. s \in Seq(S)  BY <1>2, <2>2
    <2>4. s[k] \in S  BY <2>1, <2>3
    <2>5. Len(s[k].params) = Operandos(s[k].op)  BY <1>2, <1>3, <2>1
    <2>6. QED  BY <1>4, <2>2, <2>4, <2>5
  <1>6. EsInstruccion(ins)  BY <1>5 DEF EsInstruccion
  <1>7. ins \in Instrucciones
    <2>1. ins \in Range(s)  BY <1>1, <1>3, <1>4 DEF Range
    <2>2. QED  BY <1>1, <2>1 DEF Instrucciones
  <1>8. Enviada[ins] = Deserializada(SerializarInstruccion(ins))  BY <1>7 DEF Enviada
  <1>9. EsEnviada(Enviada[ins], ins)  BY <1>6, <1>8, EnviadaEs
  <1>10. QED  BY <1>1, <1>4, <1>9

\* The instruction and the registers with which an iteration of comenzar_proceso starts.
LEMMA CicloDe ==
    ASSUME InvComputa, Ciclo
    PROVE  LET p == cpu.pid  k == registros_cpu["PC"] IN
           /\ p \in Pids /\ EnExec(p) /\ flags = {} /\ despacho = <<>> /\ desalojo = <<>>
           /\ k \in 0..Ancho32 - 1 /\ k + 1 \in 1..Len(programa[p])
           /\ RegsOk(Avanzados) /\ Avanzados["PC"] = k + 1
           /\ Avanzados = [registros_cpu EXCEPT !["PC"] = (@ + 1) % Ancho32]
           /\ Traida = Enviada[programa[p][k + 1]]
           /\ EsEnviada(Traida, programa[p][k + 1])
  <1>1. PICK p, k : p = cpu.pid /\ k = registros_cpu["PC"]  OBVIOUS
  <1>2. cpu.pid # Nadie /\ flags = {} /\ k < Len(programa[p])  BY <1>1 DEF Ciclo
  <1>3. Activa  BY <1>2 DEF Activa
  <1>4. despacho = <<>> /\ desalojo = <<>> /\ EnExec(p) /\ p \in Pids
    BY <1>1, <1>3 DEF InvComputa, InvEj, UnSitio, CpuFiel, EnExec
  <1>5. programa \in Cargas /\ RegsOk(registros_cpu)  BY DEF InvComputa, RegistrosFieles
  <1>6. k \in 0..Ancho32 - 1  BY <1>1, <1>5, Anchos DEF RegsOk
  <1>7. Len(programa[p]) \in Nat /\ Len(programa[p]) < Ancho32
    <2>1. programa[p] \in Seq([op : Operaciones, params : Seq(Palabras)]) /\ Len(programa[p]) < Ancho32
      BY <1>4, <1>5, ProgramasOK
    <2>2. QED  BY <2>1
  <1>8. Ancho32 \in Nat \ {0}  BY Anchos
  <1>9. k + 1 \in 1..Len(programa[p]) /\ k + 1 \in 0..Ancho32 - 1  BY <1>2, <1>6, <1>7, <1>8
  <1>10. (k + 1) % Ancho32 = k + 1  BY <1>8, <1>9, RestoDe
  <1>11. Avanzados = [registros_cpu EXCEPT !["PC"] = (@ + 1) % Ancho32]  BY DEF Avanzados
  <1>12. RegsOk(Avanzados)  BY <1>5, <1>11, AvanceOk
  <1>13. Avanzados["PC"] = k + 1
    <2>1. PICK r : r = registros_cpu  OBVIOUS
    <2>2. r = [n \in Registros |-> r[n]] /\ "PC" \in Registros /\ r["PC"] = k
      BY <1>1, <1>5, <2>1, Anchos DEF RegsOk
    <2>3. Avanzados = [r EXCEPT !["PC"] = k + 1]  BY <1>1, <1>10, <1>11, <2>1
    <2>4. QED  BY <2>2, <2>3
  <1>14. Traida = Enviada[programa[p][k + 1]]  BY <1>1 DEF Traida
  <1>15. EsEnviada(Traida, programa[p][k + 1])  BY <1>4, <1>5, <1>9, <1>14, Traido
  <1>16. QED  BY <1>1, <1>2, <1>4, <1>6, <1>9, <1>11, <1>12, <1>13, <1>14, <1>15

\* What the kernel finds after an eviction.
LEMMA LlegaDesalojo ==
    ASSUME NEW m, NEW q, EsPcb(q), desalojo = <<>>
    PROVE  /\ Desalojar(m, q, <<>>) =>
                /\ Len(desalojo') = 2 /\ desalojo' # <<>> /\ Recibido' = q
                /\ desalojo'[1].op = m /\ desalojo'[2].op = "PCB"
           /\ \A z : Desalojar(m, q, <<z>>) =>
                /\ Len(desalojo') = 3 /\ desalojo' # <<>> /\ Recibido' = q
                /\ desalojo'[1].op = m /\ desalojo'[2].op = "PCB" /\ desalojo'[3] = z
  <1>1. PICK x, y : x = [op |-> m, buffer |-> <<>>] /\ y = [op |-> "PCB", buffer |-> SerializarPcb(q)]
    OBVIOUS
  <1>2. Recibido' = RecibidoPcb(desalojo'[2].buffer)  BY DEF Recibido, RecibidoPcb, Numero, Campo
  <1>3. RecibidoPcb(y.buffer) = q  BY <1>1, PcbLlega
  <1>4. ASSUME Desalojar(m, q, <<>>)
        PROVE  /\ Len(desalojo') = 2 /\ desalojo' # <<>> /\ Recibido' = q
               /\ desalojo'[1].op = m /\ desalojo'[2].op = "PCB"
    <2>1. desalojo' = <<>> \o <<x, y>> \o <<>>  BY <1>1, <1>4 DEF Desalojar
    <2>2. Len(desalojo') = 2 /\ desalojo'[1] = x /\ desalojo'[2] = y  BY <2>1, EnvioDoble
    <2>3. desalojo' # <<>>  BY <2>2
    <2>4. QED  BY <1>1, <1>2, <1>3, <2>2, <2>3
  <1>5. ASSUME NEW z, Desalojar(m, q, <<z>>)
        PROVE  /\ Len(desalojo') = 3 /\ desalojo' # <<>> /\ Recibido' = q
               /\ desalojo'[1].op = m /\ desalojo'[2].op = "PCB" /\ desalojo'[3] = z
    <2>1. desalojo' = <<>> \o <<x, y>> \o <<z>>  BY <1>1, <1>5 DEF Desalojar
    <2>2. Len(desalojo') = 3 /\ desalojo'[1] = x /\ desalojo'[2] = y /\ desalojo'[3] = z
      BY <2>1, EnvioTriple
    <2>3. desalojo' # <<>>  BY <2>2
    <2>4. QED  BY <1>1, <1>2, <1>3, <2>2, <2>3
  <1>6. QED  BY <1>4, <1>5

\* The PCB that the CPU stores.
LEMMA GuardadoEs ==
    ASSUME InvEj, NEW r
    PROVE  EsPcb(Guardado(r)) /\ Guardado(r).pid = cpu.pid /\ Guardado(r).registros = r
           /\ Guardado(r).pc = r["PC"]
  <1>1. PICK q, k : q = Guardado(r) /\ k = r["PC"]  OBVIOUS
  <1>2. q = [pid |-> cpu.pid, pc |-> k, quantum |-> cpu.quantum, registros |-> r,
             estado_actual |-> cpu.estado_actual]
    BY <1>1 DEF InvEj, Pcbs, EsPcb, Guardado
  <1>3. EsPcb(q) /\ q.pid = cpu.pid /\ q.registros = r /\ q.pc = k  BY <1>2 DEF EsPcb
  <1>4. QED  BY <1>1, <1>3

\* What is asked of an interface depends on the registers the kernel has.
LEMMA EncargoIgual ==
    ASSUME programa' = programa, NEW p, pcb'[p].registros = pcb[p].registros, NEW n
    PROVE  (Encargado(n, p)' <=> Encargado(n, p)) /\ CargaPedida(p)' = CargaPedida(p)
  <1>1. PICK r : r = pcb[p].registros /\ r = pcb'[p].registros  OBVIOUS
  <1>2. Orden(p, r)' = Orden(p, r) /\ (EnOrden(p, r)' <=> EnOrden(p, r))  BY DEF Orden, EnOrden
  <1>3. Encargado(n, p)' <=> Encargado(n, p)  BY <1>1, <1>2 DEF Encargado
  <1>4. CargaPedida(p)' = CargaPedida(p)
    <2>1. Orden(p, pcb[p].registros) = Orden(p, r) /\ Orden(p, pcb[p].registros)' = Orden(p, r)
      BY <1>1 DEF Orden
    <2>2. QED  BY <1>1, <2>1 DEF CargaPedida
  <1>5. QED  BY <1>3, <1>4

\* The requests of the processes in BLOCKED stay as they are while their registers do.
LEMMA ColasIgual ==
    ASSUME InvComputa, UNCHANGED <<programa, cola_io, servicio>>,
           \A p \in Pids : pcb[p].estado_actual = "BLOCKED" => pcb'[p].registros = pcb[p].registros
    PROVE  ColasFieles'
  <1>1. \A n \in Nombres, p \in Pids : Espera(n, p) => pcb'[p].registros = pcb[p].registros
    BY DEF InvComputa, InvEj, IOFiel
  <1>2. ASSUME NEW n \in Nombres, NEW p \in Pids, Espera(n, p)
        PROVE  (Encargado(n, p)' <=> Encargado(n, p)) /\ CargaPedida(p)' = CargaPedida(p)
    BY <1>1, <1>2, EncargoIgual
  <1>3. ASSUME NEW n \in Nombres
        PROVE  /\ \A i \in 1..Len(cola_io[n]) : LET p == cola_io[n][i].pid IN
                     Encargado(n, p)' /\ cola_io[n][i].info = CargaPedida(p)'
               /\ servicio[n].fase = "enviado" =>
                     /\ Encargado(n, servicio[n].pid)'
                     /\ servicio[n].buffer = Entero(servicio[n].pid) \o CargaPedida(servicio[n].pid)'
    <2>1. ASSUME NEW i \in 1..Len(cola_io[n])
          PROVE LET p == cola_io[n][i].pid IN Encargado(n, p)' /\ cola_io[n][i].info = CargaPedida(p)'
      <3>1. PICK p : p = cola_io[n][i].pid  OBVIOUS
      <3>2. p \in Pids /\ Espera(n, p)  BY <3>1 DEF InvComputa, InvEj, IOFiel, Espera
      <3>3. Encargado(n, p) /\ cola_io[n][i].info = CargaPedida(p)
        BY <2>1, <3>1 DEF InvComputa, ColasFieles
      <3>4. Encargado(n, p)' /\ cola_io[n][i].info = CargaPedida(p)'  BY <1>2, <3>2, <3>3
      <3>5. QED  BY <3>1, <3>4
    <2>2. ASSUME servicio[n].fase = "enviado"
          PROVE  /\ Encargado(n, servicio[n].pid)'
                 /\ servicio[n].buffer = Entero(servicio[n].pid) \o CargaPedida(servicio[n].pid)'
      <3>1. PICK p : p = servicio[n].pid  OBVIOUS
      <3>2. p \in Pids /\ Espera(n, p)  BY <2>2, <3>1 DEF InvComputa, InvEj, IOFiel, Espera, EnServicio
      <3>3. Encargado(n, p) /\ servicio[n].buffer = Entero(p) \o CargaPedida(p)
        BY <2>2, <3>1 DEF InvComputa, ColasFieles
      <3>4. Encargado(n, p)' /\ CargaPedida(p)' = CargaPedida(p)  BY <1>2, <3>2, <3>3
      <3>5. QED  BY <3>1, <3>3, <3>4
    <2>3. QED  BY <2>1, <2>2
  <1>4. QED  BY <1>3 DEF ColasFieles

-----------------------------------------------------------------------------
(* Every step preserves it *)

\* A step that moves none of the registers nor the messages that carry them.
LEMMA RegistrosQuietos ==
    ASSUME InvComputa, UNCHANGED <<programa, pcb, cpu_libre, desalojo, cpu, registros_cpu, flags, cola_io, servicio>>
    PROVE  RegistrosFieles' /\ CopiaFiel' /\ PaqueteFiel' /\ ColasFieles'
  <1>1. Recibido' = Recibido  BY DEF Recibido
  <1>2. RegistrosFieles'  BY <1>1 DEF InvComputa, RegistrosFieles
  <1>3. CopiaFiel'  BY <1>1 DEF InvComputa, CopiaFiel, Fuera
  <1>4. PaqueteFiel'  BY <1>1 DEF InvComputa, PaqueteFiel, ConPaquete, EnOrden, Orden
  <1>5. ColasFieles'  BY ColasIgual
  <1>6. QED  BY <1>2, <1>3, <1>4, <1>5

\* A PCB that changes nothing but its state.
MismosRegistros ==
    \A p \in Pids : pcb'[p].registros = pcb[p].registros /\ pcb'[p].pc = pcb[p].pc

\* A step that touches no register.
LEMMA RegistrosIguales ==
    ASSUME InvComputa, MismosRegistros, cpu_libre' \in BOOLEAN,
           UNCHANGED <<programa, desalojo, cpu, registros_cpu, flags>>
    PROVE  RegistrosFieles' /\ CopiaFiel' /\ PaqueteFiel'
  <1>1. Recibido' = Recibido  BY DEF Recibido
  <1>2. RegistrosFieles'  BY <1>1 DEF InvComputa, RegistrosFieles, MismosRegistros, Coherente
  <1>3. CopiaFiel'
    <2>1. cpu.pid # Nadie => cpu.pid \in Pids  BY DEF InvComputa, InvEj, Pcbs
    <2>2. \A p \in Pids : Fuera(p)'.registros = Fuera(p).registros  BY <1>1 DEF Fuera, MismosRegistros
    <2>3. QED  BY <2>1, <2>2 DEF InvComputa, CopiaFiel, Fuera
  <1>4. PaqueteFiel'  BY <1>1 DEF InvComputa, PaqueteFiel, ConPaquete, EnOrden, Orden
  <1>5. QED  BY <1>2, <1>3, <1>4

\* iniciar_planificador_corto_plazo
LEMMA DespachaPcb ==
    ASSUME InvEj, Despachar
    PROVE  \E h \in Pids :
              /\ pcb[h].estado_actual = "READY" /\ pcb'[h].estado_actual = "EXEC" /\ pcb_en_ejecucion' = h
              /\ MismosRegistros /\ \A p \in Pids : p # h => pcb'[p] = pcb[p]
  <1>1. PICK h, q : h = Head(ready) /\ q = [pcb[h] EXCEPT !.estado_actual = "EXEC"]  OBVIOUS
  <1>2. /\ ready # <<>> /\ pcb' = [pcb EXCEPT ![q.pid] = q] /\ pcb_en_ejecucion' = q.pid
    BY <1>1 DEF Despachar
  <1>3. ready \in Seq(Pids) /\ IsInjective(ready)  BY DEF InvEj, ReadyFiel
  <1>4. h \in Pids /\ pcb[h].estado_actual = "READY"
    BY <1>1, <1>2, <1>3, DelFrente DEF InvEj, ReadyFiel
  <1>5. EsPcb(pcb[h]) /\ pcb[h].pid = h  BY <1>4 DEF InvEj, Pcbs
  <1>6. q = [pid |-> h, pc |-> pcb[h].pc, quantum |-> pcb[h].quantum, registros |-> pcb[h].registros,
             estado_actual |-> "EXEC"]
    BY <1>1, <1>5 DEF EsPcb
  <1>7. pcb' = [p \in Pids |-> IF p = h THEN q ELSE pcb[p]]  BY <1>2, <1>6 DEF InvEj, Pcbs
  <1>8. q.registros = pcb[h].registros /\ q.pc = pcb[h].pc /\ q.estado_actual = "EXEC" /\ q.pid = h
    BY <1>6
  <1>9. pcb'[h] = q /\ \A p \in Pids : p # h => pcb'[p] = pcb[p]  BY <1>4, <1>7
  <1>10. QED  BY <1>2, <1>4, <1>8, <1>9 DEF MismosRegistros

\* iniciar_planificador_corto_plazo sends the registers that the kernel has.
LEMMA DespacharComputa == ASSUME InvComputa, InvEj', Despachar PROVE InvComputa'
  <1>1. PICK h \in Pids :
              /\ pcb[h].estado_actual = "READY" /\ pcb_en_ejecucion' = h
              /\ MismosRegistros /\ \A p \in Pids : p # h => pcb'[p] = pcb[p]
    BY DespachaPcb DEF InvComputa
  <1>2. /\ cpu_libre' = FALSE /\ UNCHANGED <<programa, desalojo, cpu, registros_cpu, flags, cola_io, servicio>>
        /\ UNCHANGED <<interrupt, interrupcion_recibida>>
    BY DEF Despachar, ioVars
  <1>3. RegistrosFieles' /\ CopiaFiel' /\ PaqueteFiel'  BY <1>1, <1>2, RegistrosIguales
  <1>4. Avisos'  BY <1>1, <1>2 DEF InvComputa, Avisos
  <1>5. ColasFieles'  BY <1>1, <1>2, ColasIgual DEF MismosRegistros
  <1>6. QED  BY <1>3, <1>4, <1>5 DEF InvComputa

\* The interruptions that travel name a process.
LEMMA EnviarComputa == ASSUME InvComputa, InvEj', EnviarInterrupcion PROVE InvComputa'
  <1>1. PICK e : e = Entero(pcb_en_ejecucion) \o Entero("FIN_CLOCK")  OBVIOUS
  <1>2. /\ pcb_en_ejecucion # Nadie /\ Len(interrupt) < MaxInterrupciones /\ interrupt' = Append(interrupt, e)
        /\ UNCHANGED <<pcb_en_ejecucion, interrupcion_recibida>>
        /\ UNCHANGED <<programa, pcb, cpu_libre, desalojo, cpu, registros_cpu, flags, cola_io, servicio>>
    BY <1>1 DEF EnviarInterrupcion, kernelVars, ioVars
  <1>3. Numero(e, 1) = pcb_en_ejecucion
    <2>1. EsSec(e) /\ Len(e) = 2 /\ Escrito(e, 1, pcb_en_ejecucion, 4)  BY <1>1, DosDatos DEF Entero
    <2>2. QED  BY <2>1 DEF Numero, Campo, Escrito
  <1>4. PICK k : k = Len(interrupt)  OBVIOUS
  <1>5. /\ EsSec(interrupt') /\ Len(interrupt') = k + 1 /\ interrupt'[k + 1] = e /\ k \in Nat
        /\ \A i \in 1..k : interrupt'[i] = interrupt[i]
    BY <1>2, <1>4, Encola DEF InvComputa, Avisos, EsSec
  <1>6. \A i \in 1..k + 1 : i = k + 1 \/ i \in 1..k  BY <1>5
  <1>7. \A i \in 1..k : Numero(interrupt[i], 1) \in Pids  BY <1>4 DEF InvComputa, Avisos
  <1>8. \A i \in 1..k + 1 : Numero(interrupt'[i], 1) \in Pids
    <2>1. pcb_en_ejecucion \in Pids  BY <1>2 DEF InvComputa, Avisos
    <2>2. QED  BY <1>3, <1>5, <1>6, <1>7, <2>1
  <1>9. k + 1 <= MaxInterrupciones  BY <1>2, <1>4, <1>5, EjecucionOK
  <1>10. \A i : Numero(interrupt[i], 1)' = Numero(interrupt'[i], 1)  BY DEF Numero, Campo
  <1>11. Avisos'  BY <1>2, <1>5, <1>8, <1>9, <1>10 DEF InvComputa, Avisos, EsSec
  <1>12. QED  BY <1>2, <1>11, RegistrosQuietos DEF InvComputa

\* iniciar_servidor_interrupt
LEMMA RecibirComputa == ASSUME InvComputa, InvEj', RecibirInterrupcion PROVE InvComputa'
  <1>1. /\ interrupt # <<>> /\ interrupcion_recibida' = Numero(Head(interrupt), 1)
        /\ interrupt' = Tail(interrupt) /\ pcb_en_ejecucion' = pcb_en_ejecucion
        /\ UNCHANGED <<programa, pcb, cpu_libre, desalojo, cpu, registros_cpu, flags, cola_io, servicio>>
    BY DEF RecibirInterrupcion, kernelVars, ioVars
  <1>2. PICK k : k = Len(interrupt)  OBVIOUS
  <1>3. /\ EsSec(interrupt') /\ k \in Nat \ {0} /\ Len(interrupt') = k - 1 /\ Head(interrupt) = interrupt[1]
        /\ \A i \in 1..k - 1 : interrupt'[i] = interrupt[i + 1]
    BY <1>1, <1>2, Saca DEF InvComputa, Avisos, EsSec
  <1>4. \A i \in 1..k : Numero(interrupt[i], 1) \in Pids  BY <1>2 DEF InvComputa, Avisos
  <1>5. 1 \in 1..k /\ \A i \in 1..k - 1 : i + 1 \in 1..k  BY <1>3
  <1>6. interrupcion_recibida' \in Pids  BY <1>1, <1>3, <1>4, <1>5
  <1>7. \A i \in 1..k - 1 : Numero(interrupt'[i], 1) \in Pids  BY <1>3, <1>4, <1>5
  <1>8. \A i : Numero(interrupt[i], 1)' = Numero(interrupt'[i], 1)  BY DEF Numero, Campo
  <1>9. k - 1 <= MaxInterrupciones
    <2>1. k <= MaxInterrupciones  BY <1>2 DEF InvComputa, Avisos
    <2>2. QED  BY <1>3, <2>1, EjecucionOK
  <1>10. Avisos'  BY <1>1, <1>3, <1>6, <1>7, <1>8, <1>9 DEF InvComputa, Avisos, EsSec
  <1>11. QED  BY <1>1, <1>10, RegistrosQuietos DEF InvComputa

\* iniciar_servidor_dispatch
LEMMA RecibePcb ==
    ASSUME InvComputa, RecibirPcb
    PROVE  \E p \in Pids :
              /\ EnExec(p) /\ cpu.pid = Nadie /\ cpu' = pcb[p] /\ cpu'.pid = p
              /\ registros_cpu' = pcb[p].registros
              /\ desalojo = <<>> /\ flags' \subseteq {"interruption"} /\ flags \subseteq {"interruption"}
  <1>1. /\ cpu.pid = Nadie /\ despacho # <<>> /\ cpu' = RecibidoPcb(despacho[1])
        /\ registros_cpu' = [cpu'.registros EXCEPT !["PC"] = cpu'.pc]
        /\ flags' = flags \ {"input_ouput"}
    BY DEF RecibirPcb
  <1>2. PICK p \in Pids : EnExec(p) /\ despacho[1] = SerializarPcb(pcb[p])
    BY <1>1 DEF InvComputa, InvEj, DespachoFiel
  <1>3. EsPcb(pcb[p]) /\ pcb[p].pid = p  BY DEF InvComputa, InvEj, Pcbs
  <1>4. cpu' = pcb[p]  BY <1>1, <1>2, <1>3, PcbLlega
  <1>5. PICK r : r = pcb[p].registros  OBVIOUS
  <1>6. RegsOk(r) /\ pcb[p].pc = r["PC"]  BY <1>5 DEF InvComputa, RegistrosFieles, Coherente
  <1>7. registros_cpu' = r
    <2>1. registros_cpu' = [r EXCEPT !["PC"] = r["PC"]]  BY <1>1, <1>4, <1>5, <1>6
    <2>2. QED  BY <1>6, <2>1 DEF RegsOk
  <1>8. flags \subseteq {"interruption"}  BY <1>1 DEF InvComputa, InvEj, FlagsFieles
  <1>9. desalojo = <<>>  BY <1>1 DEF InvComputa, InvEj, UnSitio
  <1>10. QED  BY <1>1, <1>2, <1>3, <1>4, <1>5, <1>7, <1>8, <1>9

\* iniciar_servidor_dispatch loads the registers of the PCB.
LEMMA RecibirPcbComputa == ASSUME InvComputa, InvEj', RecibirPcb PROVE InvComputa'
  <1>1. PICK p \in Pids :
              /\ cpu' = pcb[p] /\ registros_cpu' = pcb[p].registros /\ desalojo = <<>>
              /\ flags' \subseteq {"interruption"}
    BY RecibePcb
  <1>2. /\ UNCHANGED <<programa, pcb, cpu_libre, pcb_en_ejecucion, desalojo, interrupt>>
        /\ UNCHANGED <<interrupcion_recibida, cola_io, servicio>>
    BY DEF RecibirPcb, kernelVars, ioVars
  <1>3. RegistrosFieles'
    BY <1>1, <1>2 DEF InvComputa, RegistrosFieles
  <1>4. Avisos' /\ CopiaFiel' /\ PaqueteFiel'
    BY <1>1, <1>2 DEF InvComputa, Avisos, CopiaFiel, PaqueteFiel
  <1>5. ColasFieles'  BY <1>2, ColasIgual
  <1>6. QED  BY <1>3, <1>4, <1>5 DEF InvComputa

\* The arithmetic instructions and JNZ.
LEMMA CalculaReg ==
    ASSUME InvComputa, Ciclo, Calcular(Traida)
    PROVE  LET ins == programa[cpu.pid][registros_cpu["PC"] + 1] IN
           /\ ins.op \in Calculos /\ RegsOk(registros_cpu') /\ registros_cpu' = Maq!Resultado(ins, Avanzados)
           /\ UNCHANGED <<cpu, desalojo>> /\ flags' \subseteq {"interruption"}
  <1>1. PICK ins, d, r : /\ ins = programa[cpu.pid][registros_cpu["PC"] + 1] /\ d = Traida
                         /\ r = Avanzados
    OBVIOUS
  <1>2. EsEnviada(d, ins) /\ RegsOk(r)  BY <1>1, CicloDe
  <1>3. d.op = ins.op /\ d.params = ins.params /\ EsInstruccion(ins)  BY <1>2 DEF EsEnviada
  <1>4. /\ d.op \in Calculos /\ registros_cpu' = Calculada(d, r) /\ flags' \subseteq {"interruption"}
        /\ UNCHANGED <<cpu, desalojo>>
    BY <1>1 DEF Calcular, Pasada
  <1>5. PICK ps : ps = ins.params  OBVIOUS
  <1>6. ps \in Seq(Palabras) /\ Len(ps) = 2
    <2>1. Operandos(ins.op) = 2  BY <1>3, <1>4 DEF Operandos, Calculos
    <2>2. QED  BY <1>3, <1>5, <2>1 DEF EsInstruccion
  <1>7. PICK a, o : a = ps[1] /\ o = ps[2]  OBVIOUS
  <1>8. o \in Palabras  BY <1>6, <1>7
  <1>9. d.params[1] = a /\ d.params[2] = o  BY <1>3, <1>5, <1>7
  <1>10. RegsOk(Calculada(d, r)) /\ Calculada(d, r) = Maq!Resultado(d, r)
    BY <1>2, <1>4, <1>8, <1>9, ResultadoEs
  <1>11. Maq!Resultado(d, r) = Maq!Resultado(ins, r)  BY <1>3, Zenon DEF Maq!Resultado
  <1>12. QED  BY <1>1, <1>3, <1>4, <1>10, <1>11

\* An I/O instruction: the PCB and the packet leave, and the CPU keeps a copy of the registers.
LEMMA PideReg ==
    ASSUME InvComputa, Ciclo, PedirIO(Traida)
    PROVE  LET p == cpu.pid  ins == programa[p][registros_cpu["PC"] + 1] IN
           /\ ins.op \in Datos
           /\ registros_cpu' = Avanzados /\ cpu' = Guardado(Avanzados) /\ cpu'.pid = p
           /\ cpu'.registros = Avanzados /\ Recibido' = Guardado(Avanzados)
           /\ "input_ouput" \in flags' /\ flags' \subseteq {"input_ouput", "interruption"}
           /\ desalojo' # <<>> /\ desalojo'[1].op = "OPERACION_IO" /\ desalojo'[2].op = "PCB"
           /\ desalojo'[3].op = "OPERACION_IO" /\ desalojo'[3].buffer = Paquete(Traida, p, Avanzados)
  <1>1. PICK p, ins, d, r : /\ p = cpu.pid /\ ins = programa[cpu.pid][registros_cpu["PC"] + 1]
                            /\ d = Traida /\ r = Avanzados
    OBVIOUS
  <1>2. EsEnviada(d, ins) /\ desalojo = <<>>  BY <1>1, CicloDe
  <1>3. d.op = ins.op /\ ins.op \in Operaciones  BY <1>2 DEF EsEnviada, EsInstruccion
  <1>4. PICK z, q : /\ z = [op |-> "OPERACION_IO", buffer |-> Paquete(d, p, r)] /\ q = Guardado(r)
    OBVIOUS
  <1>5. /\ d.op \notin Calculos \union {"EXIT"} /\ registros_cpu' = r /\ cpu' = q
        /\ Desalojar("OPERACION_IO", q, <<z>>)
        /\ "input_ouput" \in flags' /\ flags' \subseteq {"input_ouput", "interruption"}
    BY <1>1, <1>4 DEF PedirIO, Pasada
  <1>6. EsPcb(q) /\ q.pid = p /\ q.registros = r  BY <1>1, <1>4, GuardadoEs DEF InvComputa
  <1>7. /\ desalojo' # <<>> /\ Recibido' = q
        /\ desalojo'[1].op = "OPERACION_IO" /\ desalojo'[2].op = "PCB" /\ desalojo'[3] = z
    BY <1>2, <1>5, <1>6, LlegaDesalojo
  <1>8. ins.op \in Datos  BY <1>3, <1>5 DEF Operaciones, Calculos, Datos, Maq!Ficheros
  <1>9. z.op = "OPERACION_IO" /\ z.buffer = Paquete(d, p, r)  BY <1>4
  <1>10. QED  BY <1>1, <1>4, <1>5, <1>6, <1>7, <1>8, <1>9

\* An iteration of comenzar_proceso leaves registers of their width, and the packet of its instruction.
LEMMA CicloComputa == ASSUME InvComputa, InvEj', Ciclo PROVE InvComputa'
  <1>1. PICK p, k, r : p = cpu.pid /\ k = registros_cpu["PC"] /\ r = Avanzados  OBVIOUS
  <1>2. /\ p \in Pids /\ desalojo = <<>> /\ RegsOk(r) /\ r["PC"] = k + 1 /\ k + 1 \in 1..Len(programa[p])
        /\ Traida = Enviada[programa[p][k + 1]]
    BY <1>1, CicloDe
  <1>3. /\ UNCHANGED <<programa, pcb, cpu_libre, pcb_en_ejecucion, interrupt>>
        /\ UNCHANGED <<interrupcion_recibida, cola_io, servicio>>
        /\ Calcular(Traida) \/ PedirIO(Traida) \/ Exit(Traida)
    BY DEF Ciclo, kernelVars, ioVars
  <1>4. Avisos'  BY <1>3 DEF InvComputa, Avisos
  <1>5. ColasFieles'  BY <1>3, ColasIgual
  <1>6. CASE Calcular(Traida) \/ Exit(Traida)
    <2>1. /\ RegsOk(registros_cpu') /\ UNCHANGED <<cpu, desalojo>>
          /\ flags' \subseteq {"end_process", "interruption"}
      BY <1>1, <1>2, <1>6, CalculaReg DEF Exit, Pasada
    <2>2. RegistrosFieles'  BY <1>2, <1>3, <2>1 DEF InvComputa, RegistrosFieles
    <2>3. CopiaFiel' /\ PaqueteFiel'  BY <1>2, <2>1 DEF CopiaFiel, PaqueteFiel
    <2>4. QED  BY <1>4, <1>5, <2>2, <2>3 DEF InvComputa
  <1>7. CASE PedirIO(Traida)
    <2>1. PICK d, ins, q : d = Traida /\ ins = programa[p][k + 1] /\ q = Guardado(r)  OBVIOUS
    <2>2. /\ ins.op \in Datos /\ registros_cpu' = r /\ cpu'.pid = p /\ cpu'.registros = r /\ Recibido' = q
          /\ desalojo' # <<>> /\ desalojo'[1].op = "OPERACION_IO" /\ desalojo'[2].op = "PCB"
          /\ desalojo'[3].op = "OPERACION_IO" /\ desalojo'[3].buffer = Paquete(d, p, r)
      BY <1>1, <1>7, <2>1, PideReg
    <2>3. q.pid = p /\ q.registros = r  BY <1>1, <2>1, GuardadoEs DEF InvComputa
    <2>4. RegistrosFieles'  BY <1>2, <1>3, <2>2, <2>3 DEF InvComputa, RegistrosFieles
    <2>5. CopiaFiel'  BY <2>2, <2>3 DEF CopiaFiel, Fuera
    <2>6. ConPaquete(p, r, desalojo'[3].buffer)
      BY <1>2, <2>1, <2>2 DEF ConPaquete, EnOrden, Orden
    <2>7. \A b : ConPaquete(p, r, b)' <=> ConPaquete(p, r, b)  BY <1>3 DEF ConPaquete, EnOrden, Orden
    <2>8. ConPaquete(Recibido.pid, Recibido.registros, desalojo[3].buffer)'
            <=> ConPaquete(p, r, desalojo'[3].buffer)
      BY <1>3, <2>2, <2>3 DEF ConPaquete, EnOrden, Orden
    <2>9. PaqueteFiel'  BY <2>2, <2>6, <2>8 DEF PaqueteFiel
    <2>10. QED  BY <1>4, <1>5, <2>4, <2>5, <2>9 DEF InvComputa
  <1>8. QED  BY <1>3, <1>6, <1>7

\* How the CPU lets a process go: by an eviction, or after the eviction of its I/O.
Evicta(p, m) ==
    /\ m = (IF "end_process" \in flags THEN "END_PROCESS" ELSE "FIN_CLOCK")
    /\ "input_ouput" \notin flags /\ EnExec(p) /\ desalojo = <<>> /\ flags' \subseteq {"interruption"}
    /\ desalojo' # <<>> /\ Recibido' = Guardado(registros_cpu)
    /\ desalojo'[1].op = m /\ desalojo'[2].op = "PCB"

\* How a process leaves the CPU that was evicted by an I/O instruction.
Deja == /\ "input_ouput" \in flags /\ "end_process" \notin flags /\ "end_process" \notin flags'
        /\ desalojo' = desalojo

\* Either an I/O instruction has evicted it already or a PCB leaves now.
LEMMA DejaReg ==
    ASSUME InvComputa, DejarCpu
    PROVE  /\ cpu.pid \in Pids /\ cpu' = Vacio /\ cpu'.pid = Nadie /\ registros_cpu' = registros_cpu
           /\ Deja \/ \E m : Evicta(cpu.pid, m)
  <1>1. PICK q, p : q = Guardado(registros_cpu) /\ p = cpu.pid  OBVIOUS
  <1>2. /\ p # Nadie /\ flags # {} /\ Dejar(q) /\ cpu' = Vacio /\ registros_cpu' = registros_cpu
    BY <1>1 DEF DejarCpu
  <1>3. p \in Pids /\ cpu'.pid = Nadie  BY <1>1, <1>2 DEF InvComputa, InvEj, Pcbs, Vacio
  <1>4. EsPcb(q)  BY <1>1, GuardadoEs DEF InvComputa
  <1>5. ASSUME NEW m, Desalojar(m, q, <<>>), m = (IF "end_process" \in flags THEN "END_PROCESS" ELSE "FIN_CLOCK"),
               "input_ouput" \notin flags, flags' \subseteq {"interruption"}
        PROVE  Evicta(p, m)
    <2>1. Activa  BY <1>1, <1>2, <1>5 DEF Activa
    <2>2. desalojo = <<>> /\ EnExec(p)  BY <1>1, <2>1 DEF InvComputa, InvEj, UnSitio, CpuFiel
    <2>3. desalojo' # <<>> /\ Recibido' = q /\ desalojo'[1].op = m /\ desalojo'[2].op = "PCB"
      BY <1>4, <1>5, <2>2, LlegaDesalojo
    <2>4. QED  BY <1>1, <1>5, <2>2, <2>3 DEF Evicta
  <1>6. flags \subseteq {"end_process", "interruption", "input_ouput"}
        /\ ~({"end_process", "input_ouput"} \subseteq flags)
    BY DEF InvComputa, InvEj, FlagsFieles
  <1>7. CASE "end_process" \in flags /\ Desalojar("END_PROCESS", q, <<>>)
             /\ flags' = flags \ {"end_process", "interruption"}
    <2>1. "input_ouput" \notin flags /\ flags' \subseteq {"interruption"}  BY <1>6, <1>7
    <2>2. Evicta(p, "END_PROCESS")  BY <1>5, <1>7, <2>1
    <2>3. QED  BY <1>1, <1>2, <1>3, <2>2
  <1>8. CASE /\ "interruption" \in flags /\ flags \intersect {"end_process", "input_ouput"} = {}
             /\ accion_interrupt(q)
    <2>1. "input_ouput" \notin flags /\ flags' \subseteq {"interruption"} /\ "end_process" \notin flags
      BY <1>6, <1>8 DEF accion_interrupt
    <2>2. Evicta(p, "FIN_CLOCK")  BY <1>5, <1>8, <2>1 DEF accion_interrupt
    <2>3. QED  BY <1>1, <1>2, <1>3, <2>2
  <1>9. CASE /\ "end_process" \notin flags /\ "input_ouput" \in flags
             /\ flags' = flags \ {"input_ouput"} /\ UNCHANGED desalojo
    <2>1. Deja  BY <1>9 DEF Deja
    <2>2. QED  BY <1>1, <1>2, <1>3, <2>1
  <1>10. QED  BY <1>2, <1>7, <1>8, <1>9 DEF Dejar

\* comenzar_proceso after its loop
LEMMA DejarCpuComputa == ASSUME InvComputa, InvEj', DejarCpu PROVE InvComputa'
  <1>1. /\ UNCHANGED <<programa, pcb, cpu_libre, pcb_en_ejecucion, interrupt>>
        /\ UNCHANGED <<interrupcion_recibida, cola_io, servicio>>
    BY DEF DejarCpu, kernelVars, ioVars
  <1>2. /\ cpu' = Vacio /\ cpu'.pid = Nadie /\ registros_cpu' = registros_cpu
        /\ Deja \/ \E m : Evicta(cpu.pid, m)
    BY DejaReg
  <1>3. Avisos' /\ CopiaFiel'  BY <1>1, <1>2 DEF InvComputa, Avisos, CopiaFiel
  <1>4. ColasFieles'  BY <1>1, ColasIgual
  <1>5. RegsOk(cpu'.registros)
    <2>1. RegsOk(Registros0)
      <3>1. \A n \in Registros : Registros0[n] = 0  BY DEF Registros0
      <3>2. Registros0 = [n \in Registros |-> Registros0[n]]  BY DEF Registros0
      <3>3. 0 \in 0..Ancho8 - 1 /\ 0 \in 0..Ancho32 - 1  BY Anchos
      <3>4. QED  BY <3>1, <3>2, <3>3, Anchos DEF RegsOk
    <2>2. QED  BY <1>2, <2>1 DEF Vacio
  <1>6. CASE Deja
    <2>1. desalojo' = desalojo /\ Recibido' = Recibido  BY <1>6 DEF Deja, Recibido
    <2>2. RegistrosFieles'  BY <1>1, <1>2, <1>5, <2>1 DEF InvComputa, RegistrosFieles
    <2>3. PaqueteFiel'  BY <1>1, <2>1 DEF InvComputa, PaqueteFiel, ConPaquete, EnOrden, Orden
    <2>4. QED  BY <1>3, <1>4, <2>2, <2>3 DEF InvComputa
  <1>7. CASE \E m : Evicta(cpu.pid, m)
    <2>1. PICK m : Evicta(cpu.pid, m)  BY <1>7
    <2>2. PICK q : q = Guardado(registros_cpu)  OBVIOUS
    <2>3. q.registros = registros_cpu  BY <2>2, GuardadoEs DEF InvComputa
    <2>4. /\ Recibido' = q /\ desalojo'[2].op = "PCB" /\ desalojo'[1].op = m /\ m # "OPERACION_IO"
      BY <2>1, <2>2 DEF Evicta
    <2>5. RegistrosFieles'  BY <1>1, <1>2, <1>5, <2>3, <2>4 DEF InvComputa, RegistrosFieles
    <2>6. PaqueteFiel'  BY <2>4 DEF PaqueteFiel
    <2>7. QED  BY <1>3, <1>4, <2>5, <2>6 DEF InvComputa
  <1>8. QED  BY <1>2, <1>6, <1>7

\* recibir_dispatch: the PCB comes into the kernel as it was sent.
LEMMA AnotaPcb ==
    ASSUME InvComputa, NEW m, NEW n, NEW e, Atender(m, n), Anotar(Recibido, e), e # "EXEC",
           n = (IF m = "OPERACION_IO" THEN 3 ELSE 2)
    PROVE  LET p == Recibido.pid IN
           /\ desalojo # <<>> /\ desalojo' = <<>> /\ desalojo[1].op = m
           /\ p \in Pids /\ EnExec(p) /\ ~Activa
           /\ pcb'[p].estado_actual = e /\ pcb'[p].registros = Recibido.registros
           /\ pcb'[p].pc = Recibido.pc /\ Coherente(Recibido)
           /\ \A x \in Pids : x # p => pcb'[x] = pcb[x]
  <1>1. PICK p, q, c : p = Recibido.pid /\ q = [Recibido EXCEPT !.estado_actual = e] /\ c = Recibido  OBVIOUS
  <1>2. /\ Len(desalojo) >= n /\ desalojo[1].op = m
        /\ desalojo' = SubSeq(desalojo, n + 1, Len(desalojo)) /\ pcb' = [pcb EXCEPT ![p] = q]
    BY <1>1 DEF Atender, Anotar
  <1>3. desalojo # <<>>  BY <1>2
  <1>4. Len(desalojo) = n /\ EnExec(p) /\ Coherente(Recibido)
    BY <1>1, <1>2, <1>3 DEF InvComputa, InvEj, DesalojoFiel
  <1>5. ~Activa  BY <1>3 DEF InvComputa, InvEj, UnSitio
  <1>6. desalojo' = <<>>  BY <1>2, <1>4
  <1>7. q.registros = c.registros /\ q.pc = c.pc /\ q.estado_actual = e
    <2>1. EsPcb(c)  BY <1>1, FormaRecibida DEF Recibido
    <2>2. q = [pid |-> c.pid, pc |-> c.pc, quantum |-> c.quantum, registros |-> c.registros, estado_actual |-> e]
      BY <1>1, <2>1 DEF EsPcb
    <2>3. QED  BY <2>2
  <1>8. p \in Pids  BY <1>4 DEF EnExec
  <1>9. pcb' = [x \in Pids |-> IF x = p THEN q ELSE pcb[x]]  BY <1>2, <1>8 DEF InvComputa, InvEj, Pcbs
  <1>10. pcb'[p] = q /\ \A x \in Pids : x # p => pcb'[x] = pcb[x]  BY <1>8, <1>9
  <1>11. QED  BY <1>1, <1>2, <1>3, <1>4, <1>5, <1>6, <1>7, <1>8, <1>10

\* What does not depend on the reason of the eviction.
LEMMA AnotaFiel ==
    ASSUME InvComputa, NEW m, NEW n, NEW e, Atender(m, n), Anotar(Recibido, e), e # "EXEC",
           n = (IF m = "OPERACION_IO" THEN 3 ELSE 2)
    PROVE  /\ RegistrosFieles' /\ Avisos' /\ CopiaFiel' /\ PaqueteFiel'
           /\ programa' = programa /\ servicio' = servicio
           /\ \A x \in Pids : pcb[x].estado_actual = "BLOCKED" => pcb'[x] = pcb[x]
  <1>1. PICK p, c : p = Recibido.pid /\ c = Recibido  OBVIOUS
  <1>2. /\ desalojo # <<>> /\ desalojo' = <<>> /\ p \in Pids /\ EnExec(p)
        /\ pcb'[p].registros = c.registros /\ pcb'[p].pc = c.pc /\ Coherente(c)
        /\ \A x \in Pids : x # p => pcb'[x] = pcb[x]
    BY <1>1, AnotaPcb
  <1>3. /\ cpu_libre' = TRUE
        /\ UNCHANGED <<programa, pcb_en_ejecucion, interrupt, interrupcion_recibida, cpu, registros_cpu>>
        /\ UNCHANGED <<flags, servicio>>
    BY DEF Atender
  <1>4. RegistrosFieles'
    <2>1. RegsOk(c.registros)  BY <1>1, <1>2 DEF InvComputa, RegistrosFieles
    <2>2. ASSUME NEW x \in Pids PROVE RegsOk(pcb'[x].registros) /\ pcb'[x].pc = pcb'[x].registros["PC"]
      <3>1. CASE x = p  BY <1>2, <2>1, <3>1 DEF Coherente
      <3>2. CASE x # p  BY <1>2, <3>2 DEF InvComputa, RegistrosFieles, Coherente
      <3>3. QED  BY <3>1, <3>2
    <2>3. QED  BY <1>2, <1>3, <2>2 DEF InvComputa, RegistrosFieles, Coherente
  <1>5. Avisos'  BY <1>3 DEF InvComputa, Avisos
  <1>6. PaqueteFiel'  BY <1>2 DEF PaqueteFiel
  <1>7. CopiaFiel'
    <2>1. SUFFICES ASSUME cpu.pid # Nadie, "input_ouput" \in flags
                   PROVE  pcb'[cpu.pid].registros = registros_cpu
      BY <1>2, <1>3 DEF CopiaFiel, Fuera
    <2>2. Fuera(cpu.pid).registros = registros_cpu /\ cpu.pid \in Pids
      BY <2>1 DEF InvComputa, CopiaFiel, InvEj, Pcbs
    <2>3. CASE cpu.pid = p  BY <1>1, <1>2, <2>2, <2>3 DEF Fuera
    <2>4. CASE cpu.pid # p  BY <1>1, <1>2, <2>2, <2>4 DEF Fuera
    <2>5. QED  BY <2>3, <2>4
  <1>8. \A x \in Pids : pcb[x].estado_actual = "BLOCKED" => pcb'[x] = pcb[x]
    BY <1>2 DEF EnExec
  <1>9. QED  BY <1>3, <1>4, <1>5, <1>6, <1>7, <1>8

\* recibir_dispatch with FIN_CLOCK or END_PROCESS
LEMMA AtenderFinComputa ==
    ASSUME InvComputa, InvEj', AtenderFinClock \/ AtenderEndProcess PROVE InvComputa'
  <1>1. PICK m, e : Atender(m, 2) /\ Anotar(Recibido, e) /\ m # "OPERACION_IO" /\ e # "EXEC" /\ cola_io' = cola_io
    BY DEF AtenderFinClock, AtenderEndProcess
  <1>2. /\ RegistrosFieles' /\ Avisos' /\ CopiaFiel' /\ PaqueteFiel'
        /\ programa' = programa /\ servicio' = servicio
        /\ \A x \in Pids : pcb[x].estado_actual = "BLOCKED" => pcb'[x] = pcb[x]
    BY <1>1, AnotaFiel
  <1>3. ColasFieles'  BY <1>1, <1>2, ColasIgual
  <1>4. QED  BY <1>2, <1>3 DEF InvComputa

\* What recibir_dispatch reads of the packet of an I/O instruction.
LEMMA PaqueteLeido ==
    ASSUME InvComputa, desalojo # <<>>, desalojo[1].op = "OPERACION_IO"
    PROVE  LET p == Recibido.pid  r == Recibido.registros  ins == programa[p][r["PC"]]
               b == desalojo[3].buffer
           IN  /\ p \in Pids /\ RegsOk(r) /\ EnOrden(p, r)
               /\ Numero(b, 1) = ins.op /\ Campo(b, 3, Numero(b, 2)) = ins.params[1]
               /\ Tramo(SubSeq(b, 5, Len(b)), Numero(b, 4)) = CargaDe(Orden(p, r), p, r)
  <1>1. PICK p, r, b : p = Recibido.pid /\ r = Recibido.registros /\ b = desalojo[3].buffer  OBVIOUS
  <1>2. ConPaquete(p, r, b)  BY <1>1 DEF InvComputa, PaqueteFiel
  <1>3. p \in Pids /\ RegsOk(r) /\ programa \in Cargas
    BY <1>1 DEF InvComputa, InvEj, DesalojoFiel, EnExec, RegistrosFieles
  <1>4. EnOrden(p, r) /\ b = Paquete(Orden(p, r), p, r)  BY <1>2 DEF ConPaquete
  <1>5. PICK k, ins, d : k = r["PC"] /\ ins = programa[p][k] /\ d = Orden(p, r)  OBVIOUS
  <1>6. k \in 1..Len(programa[p]) /\ ins.op \in Datos /\ d = Enviada[programa[p][k]]
    BY <1>4, <1>5 DEF EnOrden, Orden
  <1>7. EsEnviada(d, ins)  BY <1>3, <1>5, <1>6, Traido
  <1>8. d.op \in Datos  BY <1>6, <1>7 DEF EsEnviada
  <1>9. b = Paquete(d, p, r)  BY <1>4, <1>5
  <1>10. /\ Numero(b, 1) = ins.op /\ Campo(b, 3, Numero(b, 2)) = ins.params[1]
         /\ Tramo(SubSeq(b, 5, Len(b)), Numero(b, 4)) = CargaDe(d, p, r)
    <2>1. /\ Numero(Paquete(d, p, r), 1) = ins.op
          /\ Campo(Paquete(d, p, r), 3, Numero(Paquete(d, p, r), 2)) = ins.params[1]
          /\ Tramo(SubSeq(Paquete(d, p, r), 5, Len(Paquete(d, p, r))), Numero(Paquete(d, p, r), 4)) = CargaDe(d, p, r)
      BY <1>3, <1>7, <1>8, PaqueteLlega
    <2>2. QED  BY <1>9, <2>1
  <1>11. QED  BY <1>1, <1>3, <1>4, <1>5, <1>10

\* The two outcomes of OPERACION_IO, in the words of Maquina.
LEMMA AtiendeIO ==
    ASSUME InvComputa, AtenderIO
    PROVE  LET p == Recibido.pid  r == Recibido.registros  ins == programa[p][r["PC"]]  n == ins.params[1] IN
           /\ Atender("OPERACION_IO", 3) /\ p \in Pids /\ EnOrden(p, r)
           /\ \/ ~Maq!Servible(ins) /\ Anotar(Recibido, "TERMINATED") /\ cola_io' = cola_io
              \/ /\ Maq!Servible(ins) /\ Anotar(Recibido, "BLOCKED") /\ n \in Nombres
                 /\ cola_io' = [cola_io EXCEPT ![n] = Append(@, [pid |-> p, info |-> CargaDe(Orden(p, r), p, r)])]
  <1>1. PICK p, r, b : p = Recibido.pid /\ r = Recibido.registros /\ b = desalojo[3].buffer  OBVIOUS
  <1>2. PICK ins : ins = programa[p][r["PC"]]  OBVIOUS
  <1>3. Atender("OPERACION_IO", 3)  BY DEF AtenderIO
  <1>4. desalojo # <<>> /\ desalojo[1].op = "OPERACION_IO"  BY <1>3 DEF Atender
  <1>5. PICK x, n, c : x = Numero(b, 1) /\ n = Campo(b, 3, Numero(b, 2)) /\ c = Tramo(SubSeq(b, 5, Len(b)), Numero(b, 4))
    OBVIOUS
  <1>6. /\ p \in Pids /\ EnOrden(p, r) /\ x = ins.op /\ n = ins.params[1]
        /\ c = CargaDe(Orden(p, r), p, r)
    BY <1>1, <1>2, <1>4, <1>5, PaqueteLeido
  <1>7. Maq!Servible(ins) <=> n \in Nombres /\ esOperacionValida(x, Conexiones[n])
    <2>1. n \in Nombres => Conexiones[n] \in {"GENERICA", "STDIN", "STDOUT", "DIALFS"}  BY ConexionesOK
    <2>2. n \in Nombres => (esOperacionValida(x, Conexiones[n]) <=> x \in Maq!Oficio(Conexiones[n]))
      BY <2>1, OficioEs
    <2>3. Maq!Servible(ins) <=> n \in Nombres /\ x \in Maq!Oficio(Conexiones[n])
      BY <1>6 DEF Maq!Servible, Nombres
    <2>4. QED  BY <2>2, <2>3
  <1>8. \/ /\ ~(n \in Nombres /\ esOperacionValida(x, Conexiones[n])) /\ Anotar(Recibido, "TERMINATED")
           /\ cola_io' = cola_io
        \/ /\ n \in Nombres /\ esOperacionValida(x, Conexiones[n]) /\ Anotar(Recibido, "BLOCKED")
           /\ cola_io' = [cola_io EXCEPT ![n] = Append(@, [pid |-> p, info |-> c])]
    BY <1>1, <1>5 DEF AtenderIO
  <1>9. QED  BY <1>1, <1>2, <1>3, <1>6, <1>7, <1>8

\* recibir_dispatch with OPERACION_IO splits the packet without losing any of it.
LEMMA AtenderIOComputa == ASSUME InvComputa, InvEj', AtenderIO PROVE InvComputa'
  <1>1. PICK p, r, ins, n : /\ p = Recibido.pid /\ r = Recibido.registros /\ ins = programa[p][r["PC"]]
                            /\ n = ins.params[1]
    OBVIOUS
  <1>2. PICK z : z = [pid |-> p, info |-> CargaDe(Orden(p, r), p, r)]  OBVIOUS
  <1>3. /\ Atender("OPERACION_IO", 3) /\ p \in Pids /\ EnOrden(p, r)
        /\ \/ Anotar(Recibido, "TERMINATED") /\ cola_io' = cola_io
           \/ /\ Maq!Servible(ins) /\ Anotar(Recibido, "BLOCKED") /\ n \in Nombres
              /\ cola_io' = [cola_io EXCEPT ![n] = Append(@, z)]
    BY <1>1, <1>2, AtiendeIO
  <1>4. PICK e : e \in {"TERMINATED", "BLOCKED"} /\ Anotar(Recibido, e)  BY <1>3
  <1>5. /\ RegistrosFieles' /\ Avisos' /\ CopiaFiel' /\ PaqueteFiel'
        /\ programa' = programa /\ servicio' = servicio
        /\ \A x \in Pids : pcb[x].estado_actual = "BLOCKED" => pcb'[x] = pcb[x]
    BY <1>3, <1>4, AnotaFiel
  <1>6. pcb'[p].registros = r  BY <1>1, <1>3, <1>4, AnotaPcb
  <1>7. CASE cola_io' = cola_io
    <2>1. ColasFieles'  BY <1>5, <1>7, ColasIgual
    <2>2. QED  BY <1>5, <2>1 DEF InvComputa
  <1>8. CASE Maq!Servible(ins) /\ n \in Nombres /\ cola_io' = [cola_io EXCEPT ![n] = Append(@, z)]
    <2>1. PICK c, d, k : c = cola_io[n] /\ d = Append(c, z) /\ k = Len(c)  OBVIOUS
    <2>2. /\ cola_io'[n] = d /\ \A m \in Nombres : m # n => cola_io'[m] = cola_io[m]
      BY <1>8, <2>1 DEF InvComputa, InvEj, IOFiel
    <2>3. /\ k \in Nat /\ Len(d) = k + 1 /\ d[k + 1] = z /\ \A i \in 1..k : d[i] = c[i]
      <3>1. EsSec(c)  BY <1>8, <2>1 DEF InvComputa, InvEj, IOFiel
      <3>2. QED  BY <2>1, <3>1, Encola DEF EsSec
    <2>4. \A i \in 1..k + 1 : i = k + 1 \/ i \in 1..k  BY <2>3
    <2>5. ASSUME NEW m \in Nombres, NEW x \in Pids, Espera(m, x)
          PROVE  (Encargado(m, x)' <=> Encargado(m, x)) /\ CargaPedida(x)' = CargaPedida(x)
      <3>1. pcb'[x].registros = pcb[x].registros  BY <1>5, <2>5 DEF InvComputa, InvEj, IOFiel
      <3>2. QED  BY <1>5, <3>1, EncargoIgual
    <2>6. Encargado(n, p)' /\ CargaPedida(p)' = CargaDe(Orden(p, r), p, r)
      <3>1. Orden(p, r)' = Orden(p, r) /\ (EnOrden(p, r)' <=> EnOrden(p, r))  BY <1>5 DEF Orden, EnOrden
      <3>2. ins.op \in Maq!Oficio(Conexiones[n])  BY <1>1, <1>8 DEF Maq!Servible
      <3>3. Encargado(n, p)'  BY <1>1, <1>3, <1>5, <1>6, <3>1, <3>2 DEF Encargado, EnOrden
      <3>4. Orden(p, pcb[p].registros)' = Orden(p, r)  BY <1>5, <1>6 DEF Orden
      <3>5. CargaPedida(p)' = CargaDe(Orden(p, r), p, r)  BY <1>6, <3>4 DEF CargaPedida
      <3>6. QED  BY <3>3, <3>5
    <2>7. ASSUME NEW m \in Nombres, NEW i \in 1..Len(cola_io[m]), NEW x, x = cola_io[m][i].pid
          PROVE  Encargado(m, x)' /\ cola_io[m][i].info = CargaPedida(x)'
      <3>1. x \in Pids /\ Espera(m, x)  BY <2>7 DEF InvComputa, InvEj, IOFiel, Espera
      <3>2. Encargado(m, x) /\ cola_io[m][i].info = CargaPedida(x)  BY <2>7 DEF InvComputa, ColasFieles
      <3>3. QED  BY <2>5, <3>1, <3>2
    <2>8. ASSUME NEW m \in Nombres, NEW i \in 1..Len(cola_io'[m]), NEW x, x = cola_io'[m][i].pid
          PROVE  Encargado(m, x)' /\ cola_io'[m][i].info = CargaPedida(x)'
      <3>1. CASE m # n
        <4>1. cola_io'[m] = cola_io[m]  BY <2>2, <3>1
        <4>2. QED  BY <2>7, <2>8, <4>1
      <3>2. CASE m = n /\ i = k + 1
        <4>1. cola_io'[m][i] = z  BY <2>2, <2>3, <3>2
        <4>2. x = p /\ z.info = CargaDe(Orden(p, r), p, r)  BY <1>2, <2>8, <4>1
        <4>3. QED  BY <2>6, <3>2, <4>1, <4>2
      <3>3. CASE m = n /\ i \in 1..k
        <4>1. cola_io'[m][i] = cola_io[m][i] /\ i \in 1..Len(cola_io[m])  BY <2>1, <2>2, <2>3, <3>3
        <4>2. x = cola_io[m][i].pid  BY <2>8, <4>1
        <4>3. QED  BY <2>7, <4>1, <4>2
      <3>4. m = n => i \in 1..k + 1  BY <2>2, <2>3, <2>8
      <3>5. QED  BY <2>4, <3>1, <3>2, <3>3, <3>4
    <2>9. ASSUME NEW m \in Nombres, servicio'[m].fase = "enviado", NEW x, x = servicio'[m].pid
          PROVE  Encargado(m, x)' /\ servicio'[m].buffer = Entero(x) \o CargaPedida(x)'
      <3>1. servicio[m].fase = "enviado" /\ x = servicio[m].pid /\ servicio'[m].buffer = servicio[m].buffer
        BY <1>5, <2>9
      <3>2. x \in Pids /\ Espera(m, x)  BY <3>1 DEF InvComputa, InvEj, IOFiel, Espera, EnServicio
      <3>3. Encargado(m, x) /\ servicio[m].buffer = Entero(x) \o CargaPedida(x)
        BY <3>1 DEF InvComputa, ColasFieles
      <3>4. Encargado(m, x)' /\ CargaPedida(x)' = CargaPedida(x)  BY <2>5, <3>2, <3>3
      <3>5. QED  BY <3>1, <3>3, <3>4
    <2>10. ColasFieles'  BY <2>8, <2>9 DEF ColasFieles
    <2>11. QED  BY <1>5, <2>10 DEF InvComputa
  <1>9. QED  BY <1>3, <1>7, <1>8

\* An interface takes what is in its queue, and its buffer says what the queue said.
DeLaCola(m, pid, buffer) ==
    \E j \in 1..Len(cola_io[m]) : pid = cola_io[m][j].pid /\ buffer = Entero(pid) \o cola_io[m][j].info

\* What waits comes from what waited.
LEMMA EncargosSiguen ==
    ASSUME InvComputa, programa' = programa, MismosRegistros,
           \A m \in Nombres : \A i \in 1..Len(cola_io'[m]) :
               \E j \in 1..Len(cola_io[m]) : cola_io'[m][i] = cola_io[m][j],
           \A m \in Nombres : servicio'[m].fase = "enviado" =>
               servicio'[m] = servicio[m] \/ DeLaCola(m, servicio'[m].pid, servicio'[m].buffer)
    PROVE  ColasFieles'
  <1>1. ASSUME NEW m \in Nombres, NEW x \in Pids
        PROVE  (Encargado(m, x)' <=> Encargado(m, x)) /\ CargaPedida(x)' = CargaPedida(x)
    BY EncargoIgual DEF MismosRegistros
  <1>2. ASSUME NEW m \in Nombres, NEW j \in 1..Len(cola_io[m]), NEW x, x = cola_io[m][j].pid
        PROVE  Encargado(m, x)' /\ cola_io[m][j].info = CargaPedida(x)'
    <2>1. x \in Pids  BY <1>2 DEF InvComputa, InvEj, IOFiel
    <2>2. Encargado(m, x) /\ cola_io[m][j].info = CargaPedida(x)  BY <1>2 DEF InvComputa, ColasFieles
    <2>3. QED  BY <1>1, <2>1, <2>2
  <1>3. ASSUME NEW m \in Nombres, NEW i \in 1..Len(cola_io'[m]), NEW x, x = cola_io'[m][i].pid
        PROVE  Encargado(m, x)' /\ cola_io'[m][i].info = CargaPedida(x)'
    <2>1. PICK j \in 1..Len(cola_io[m]) : cola_io'[m][i] = cola_io[m][j]  OBVIOUS
    <2>2. QED  BY <1>2, <1>3, <2>1
  <1>4. ASSUME NEW m \in Nombres, servicio'[m].fase = "enviado", NEW x, x = servicio'[m].pid
        PROVE  Encargado(m, x)' /\ servicio'[m].buffer = Entero(x) \o CargaPedida(x)'
    <2>1. CASE servicio'[m] = servicio[m]
      <3>1. servicio[m].fase = "enviado" /\ x = servicio[m].pid  BY <1>4, <2>1
      <3>2. x \in Pids  BY <3>1 DEF InvComputa, InvEj, IOFiel
      <3>3. Encargado(m, x) /\ servicio[m].buffer = Entero(x) \o CargaPedida(x)
        BY <3>1 DEF InvComputa, ColasFieles
      <3>4. Encargado(m, x)' /\ CargaPedida(x)' = CargaPedida(x)  BY <1>1, <3>2, <3>3
      <3>5. QED  BY <2>1, <3>3, <3>4
    <2>2. CASE DeLaCola(m, servicio'[m].pid, servicio'[m].buffer)
      <3>1. PICK j \in 1..Len(cola_io[m]) : x = cola_io[m][j].pid
                    /\ servicio'[m].buffer = Entero(x) \o cola_io[m][j].info
        BY <1>4, <2>2 DEF DeLaCola
      <3>2. Encargado(m, x)' /\ cola_io[m][j].info = CargaPedida(x)'  BY <1>2, <3>1
      <3>3. QED  BY <3>1, <3>2
    <2>3. QED  BY <1>4, <2>1, <2>2
  <1>5. QED  BY <1>3, <1>4 DEF ColasFieles

\* What the steps of the interfaces leave as it is.
LEMMA IOQuieto ==
    ASSUME InvComputa, MismosRegistros,
           UNCHANGED <<programa, cpu_libre, pcb_en_ejecucion, desalojo, interrupt, interrupcion_recibida, cpu,
                       registros_cpu, flags>>
    PROVE  RegistrosFieles' /\ Avisos' /\ CopiaFiel' /\ PaqueteFiel'
  <1>1. cpu_libre' \in BOOLEAN  BY DEF InvComputa, RegistrosFieles
  <1>2. Avisos'  BY DEF InvComputa, Avisos
  <1>3. QED  BY <1>1, <1>2, RegistrosIguales

\* ejecutar_instruccion_io
LEMMA EjecutarIOComputa == ASSUME InvComputa, InvEj', NEW n \in Nombres, EjecutarIO(n) PROVE InvComputa'
  <1>1. PICK c, z, v : /\ c = cola_io[n] /\ z = Head(c)
                       /\ v = [pid |-> z.pid, fase |-> "enviado", buffer |-> Entero(z.pid) \o z.info]
    OBVIOUS
  <1>2. /\ c # <<>> /\ servicio' = [servicio EXCEPT ![n] = v] /\ cola_io' = [cola_io EXCEPT ![n] = Tail(c)]
        /\ UNCHANGED <<programa, pcb, cpu_libre, pcb_en_ejecucion, desalojo, interrupt>>
        /\ UNCHANGED <<interrupcion_recibida, cpu, registros_cpu, flags>>
    BY <1>1 DEF EjecutarIO, kernelVars
  <1>3. EsSec(c)  BY <1>1 DEF InvComputa, InvEj, IOFiel
  <1>4. PICK d, k : d = Tail(c) /\ k = Len(c)  OBVIOUS
  <1>5. k \in Nat \ {0} /\ Len(d) = k - 1 /\ z = c[1] /\ \A i \in 1..k - 1 : d[i] = c[i + 1]
    BY <1>1, <1>2, <1>3, <1>4, Saca
  <1>6. 1 \in 1..k /\ \A i \in 1..k - 1 : i + 1 \in 1..k  BY <1>5
  <1>7. /\ cola_io'[n] = d /\ \A m \in Nombres : m # n => cola_io'[m] = cola_io[m]
        /\ servicio'[n] = v /\ \A m \in Nombres : m # n => servicio'[m] = servicio[m]
    BY <1>2, <1>4 DEF InvComputa, InvEj, IOFiel
  <1>8. ASSUME NEW m \in Nombres, NEW i \in 1..Len(cola_io'[m])
        PROVE  \E j \in 1..Len(cola_io[m]) : cola_io'[m][i] = cola_io[m][j]
    <2>1. CASE m = n
      <3>1. i \in 1..k - 1  BY <1>5, <1>7, <1>8, <2>1
      <3>2. i + 1 \in 1..k /\ cola_io'[m][i] = c[i + 1]  BY <1>5, <1>6, <1>7, <2>1, <3>1
      <3>3. QED  BY <1>1, <1>4, <2>1, <3>2
    <2>2. CASE m # n  BY <1>7, <1>8, <2>2
    <2>3. QED  BY <2>1, <2>2
  <1>9. ASSUME NEW m \in Nombres, servicio'[m].fase = "enviado"
        PROVE  servicio'[m] = servicio[m] \/ DeLaCola(m, servicio'[m].pid, servicio'[m].buffer)
    <2>1. CASE m = n
      <3>1. v.pid = z.pid /\ v.buffer = Entero(z.pid) \o z.info  BY <1>1
      <3>2. 1 \in 1..Len(cola_io[m]) /\ z = cola_io[m][1]  BY <1>1, <1>4, <1>5, <1>6, <2>1
      <3>3. DeLaCola(m, v.pid, v.buffer)  BY <3>1, <3>2 DEF DeLaCola
      <3>4. QED  BY <1>7, <2>1, <3>3
    <2>2. CASE m # n  BY <1>7, <2>2
    <2>3. QED  BY <2>1, <2>2
  <1>10. MismosRegistros  BY <1>2 DEF MismosRegistros
  <1>11. ColasFieles'  BY <1>2, <1>8, <1>9, <1>10, EncargosSiguen
  <1>12. RegistrosFieles' /\ Avisos' /\ CopiaFiel' /\ PaqueteFiel'  BY <1>2, <1>10, IOQuieto
  <1>13. QED  BY <1>11, <1>12 DEF InvComputa

\* An interface that ends its service keeps nothing of it.
LEMMA ServicioFuera ==
    ASSUME InvComputa, NEW n \in Nombres, NEW v, v.fase # "enviado", servicio' = [servicio EXCEPT ![n] = v],
           MismosRegistros,
           UNCHANGED <<programa, cpu_libre, pcb_en_ejecucion, desalojo, interrupt, interrupcion_recibida, cpu,
                       registros_cpu, flags, cola_io>>
    PROVE  RegistrosFieles' /\ Avisos' /\ CopiaFiel' /\ PaqueteFiel' /\ ColasFieles'
  <1>1. servicio'[n] = v /\ \A m \in Nombres : m # n => servicio'[m] = servicio[m]
    BY DEF InvComputa, InvEj, IOFiel
  <1>2. \A m \in Nombres : servicio'[m].fase = "enviado" =>
            servicio'[m] = servicio[m] \/ DeLaCola(m, servicio'[m].pid, servicio'[m].buffer)
    BY <1>1
  <1>3. \A m \in Nombres : \A i \in 1..Len(cola_io'[m]) :
            \E j \in 1..Len(cola_io[m]) : cola_io'[m][i] = cola_io[m][j]
    OBVIOUS
  <1>4. ColasFieles'  BY <1>2, <1>3, EncargosSiguen
  <1>5. QED  BY <1>4, IOQuieto

\* atender_cliente of the interface, as a change of what it keeps.
LEMMA InterfazCambia ==
    ASSUME InvEj, NEW n \in Nombres, Interfaz(n)
    PROVE  servicio' = [servicio EXCEPT ![n] = [pid |-> servicio[n].pid, fase |-> "hecho", buffer |-> <<>>]]
  <1>1. servicio' = [servicio EXCEPT ![n].fase = "hecho", ![n].buffer = <<>>]  BY DEF Interfaz
  <1>2. servicio = [m \in Nombres |-> servicio[m]]  BY DEF InvEj, IOFiel
  <1>3. PICK u : u = servicio[n]  OBVIOUS
  <1>4. u = [pid |-> u.pid, fase |-> u.fase, buffer |-> u.buffer]  BY <1>3 DEF InvEj, IOFiel
  <1>5. [[u EXCEPT !.fase = "hecho"] EXCEPT !.buffer = <<>>] = [pid |-> u.pid, fase |-> "hecho", buffer |-> <<>>]
    <2>1. PICK w : w = [u EXCEPT !.fase = "hecho"]  OBVIOUS
    <2>2. w = [pid |-> u.pid, fase |-> "hecho", buffer |-> u.buffer]  BY <1>4, <2>1
    <2>3. [w EXCEPT !.buffer = <<>>] = [pid |-> u.pid, fase |-> "hecho", buffer |-> <<>>]  BY <2>2
    <2>4. QED  BY <2>1, <2>3
  <1>6. servicio' = [servicio EXCEPT ![n] = [[u EXCEPT !.fase = "hecho"] EXCEPT !.buffer = <<>>]]
    BY <1>1, <1>2, <1>3
  <1>7. QED  BY <1>3, <1>5, <1>6

\* atender_cliente of the interface
LEMMA InterfazComputa == ASSUME InvComputa, InvEj', NEW n \in Nombres, Interfaz(n) PROVE InvComputa'
  <1>1. PICK v : v = [pid |-> servicio[n].pid, fase |-> "hecho", buffer |-> <<>>]  OBVIOUS
  <1>2. servicio' = [servicio EXCEPT ![n] = v]  BY <1>1, InterfazCambia DEF InvComputa
  <1>3. /\ UNCHANGED <<programa, pcb, cpu_libre, pcb_en_ejecucion, desalojo, interrupt>>
        /\ UNCHANGED <<interrupcion_recibida, cpu, registros_cpu, flags, cola_io>>
    BY DEF Interfaz, kernelVars
  <1>4. MismosRegistros /\ v.fase # "enviado"  BY <1>1, <1>3 DEF MismosRegistros
  <1>5. QED  BY <1>2, <1>3, <1>4, ServicioFuera DEF InvComputa

\* The process that the interface served is back in READY with its registers.
LEMMA TerminaPcb ==
    ASSUME InvEj, NEW n \in Nombres, TerminarIO(n)
    PROVE  /\ servicio[n].pid \in Pids /\ pcb[servicio[n].pid].estado_actual = "BLOCKED"
           /\ MismosRegistros
           /\ pcb'[servicio[n].pid].estado_actual = "READY"
           /\ \A p \in Pids : p # servicio[n].pid => pcb'[p] = pcb[p]
  <1>1. PICK p : p = servicio[n].pid  OBVIOUS
  <1>2. servicio[n].fase = "hecho" /\ pcb' = [pcb EXCEPT ![p].estado_actual = "READY"]  BY <1>1 DEF TerminarIO
  <1>3. p \in Pids /\ EnServicio(n, p)  BY <1>1, <1>2 DEF InvEj, IOFiel, EnServicio
  <1>4. pcb[p].estado_actual = "BLOCKED"  BY <1>3 DEF InvEj, IOFiel, Espera
  <1>5. PICK a, q : a = pcb[p] /\ q = [a EXCEPT !.estado_actual = "READY"]  OBVIOUS
  <1>6. EsPcb(a)  BY <1>3, <1>5 DEF InvEj, Pcbs
  <1>7. q = [pid |-> a.pid, pc |-> a.pc, quantum |-> a.quantum, registros |-> a.registros, estado_actual |-> "READY"]
    BY <1>5, <1>6 DEF EsPcb
  <1>8. q.registros = a.registros /\ q.pc = a.pc /\ q.estado_actual = "READY"  BY <1>7
  <1>9. pcb' = [x \in Pids |-> IF x = p THEN q ELSE pcb[x]]  BY <1>2, <1>5 DEF InvEj, Pcbs
  <1>10. pcb'[p] = q /\ \A x \in Pids : x # p => pcb'[x] = pcb[x]  BY <1>3, <1>9
  <1>11. MismosRegistros  BY <1>5, <1>8, <1>10 DEF MismosRegistros
  <1>12. QED  BY <1>1, <1>3, <1>4, <1>8, <1>10, <1>11

\* atender_interfaz once the interface has answered
LEMMA TerminarIOComputa == ASSUME InvComputa, InvEj', NEW n \in Nombres, TerminarIO(n) PROVE InvComputa'
  <1>1. PICK v : v = Ocioso  OBVIOUS
  <1>2. servicio' = [servicio EXCEPT ![n] = v] /\ v.fase # "enviado"  BY <1>1 DEF TerminarIO, Ocioso
  <1>3. /\ UNCHANGED <<programa, cpu_libre, pcb_en_ejecucion, desalojo, interrupt>>
        /\ UNCHANGED <<interrupcion_recibida, cpu, registros_cpu, flags, cola_io>>
    BY DEF TerminarIO
  <1>4. MismosRegistros  BY TerminaPcb DEF InvComputa
  <1>5. QED  BY <1>2, <1>3, <1>4, ServicioFuera DEF InvComputa

\* A step of nobody.
LEMMA QuietoComputa == ASSUME InvComputa, InvEj', UNCHANGED vars PROVE InvComputa'
  <1>1. /\ UNCHANGED <<programa, pcb, cpu_libre, pcb_en_ejecucion, desalojo, interrupt>>
        /\ UNCHANGED <<interrupcion_recibida, cpu, registros_cpu, flags, cola_io, servicio>>
    BY DEF vars, kernelVars, ioVars
  <1>2. Avisos'  BY <1>1 DEF InvComputa, Avisos
  <1>3. QED  BY <1>1, <1>2, RegistrosQuietos DEF InvComputa

\* Every step preserves the invariant.
LEMMA NextComputa == ASSUME InvComputa, [Next]_vars PROVE InvComputa'
  <1>1. InvEj'  BY NextEj DEF InvComputa
  <1>2. CASE Despachar  BY <1>1, <1>2, DespacharComputa
  <1>3. CASE Cpu  BY <1>1, <1>3, RecibirPcbComputa, CicloComputa, DejarCpuComputa DEF Cpu
  <1>4. CASE Kernel  BY <1>1, <1>4, AtenderFinComputa, AtenderIOComputa DEF Kernel
  <1>5. CASE IO  BY <1>1, <1>5, EjecutarIOComputa, InterfazComputa, TerminarIOComputa DEF IO
  <1>6. CASE EnviarInterrupcion  BY <1>1, <1>6, EnviarComputa
  <1>7. CASE RecibirInterrupcion  BY <1>1, <1>7, RecibirComputa
  <1>8. CASE UNCHANGED vars  BY <1>1, <1>8, QuietoComputa
  <1>9. QED  BY <1>2, <1>3, <1>4, <1>5, <1>6, <1>7, <1>8 DEF Next, Sistema

\* It holds at the start: all the registers are 0 and nothing travels.
LEMMA InitComputa == ASSUME Init PROVE InvComputa
  <1>1. InvEj  BY InitEj
  <1>2. PICK z : z = Registros0  OBVIOUS
  <1>3. RegsOk(z) /\ z["PC"] = 0
    <2>1. \A n \in Registros : z[n] = 0  BY <1>2 DEF Registros0
    <2>2. z = [n \in Registros |-> z[n]]  BY <1>2 DEF Registros0
    <2>3. 0 \in 0..Ancho8 - 1 /\ 0 \in 0..Ancho32 - 1  BY Anchos
    <2>4. QED  BY <2>1, <2>2, <2>3, Anchos DEF RegsOk
  <1>4. \A p \in Pids : pcb[p].registros = z /\ pcb[p].pc = 0  BY <1>2 DEF Init, Vacio
  <1>5. cpu.registros = z /\ registros_cpu = z /\ cpu.pid = Nadie  BY <1>2 DEF Init, Vacio
  <1>6. RegistrosFieles  BY <1>3, <1>4, <1>5 DEF Init, RegistrosFieles, Coherente
  <1>7. Avisos
    <2>1. EsSec(interrupt) /\ Len(interrupt) = 0  BY DEF Init, EsSec
    <2>2. QED  BY <2>1, EjecucionOK DEF Init, Avisos
  <1>8. CopiaFiel /\ PaqueteFiel  BY <1>5 DEF Init, CopiaFiel, PaqueteFiel
  <1>9. ColasFieles
    <2>1. \A n \in Nombres : Len(cola_io[n]) = 0 /\ servicio[n].fase = "libre"  BY DEF Init, Ocioso
    <2>2. \A n \in Nombres : 1..Len(cola_io[n]) = {} /\ servicio[n].fase # "enviado"  BY <2>1
    <2>3. QED  BY <2>2, Zenon DEF ColasFieles
  <1>10. QED  BY <1>1, <1>6, <1>7, <1>8, <1>9 DEF InvComputa

\* The data that travel are always those of the process.
LEMMA InvComputaSiempre == Spec => []InvComputa
  BY InitComputa, NextComputa, PTL DEF Spec

\* TypeOK: no register, in the CPU, in a PCB or in the kernel, holds more than its width, and the
\* connections hold no more messages than those of one eviction (set_registro, sum_registro,
\* sub_registro).
THEOREM TiposEjecucion == Spec => []TypeOK
  <1>1. ASSUME InvComputa PROVE TypeOK
    <2>1. \A r : RegsOk(r) => \A n \in Registros : r[n] \in 0..(IF n \in Cortos THEN Ancho8 ELSE Ancho32) - 1
      BY Anchos DEF RegsOk
    <2>2. /\ RegsOk(registros_cpu) /\ RegsOk(cpu.registros) /\ \A p \in Pids : RegsOk(pcb[p].registros)
          /\ programa \in Cargas /\ cpu_libre \in BOOLEAN
      BY <1>1 DEF InvComputa, RegistrosFieles
    <2>3. \A r \in {registros_cpu, cpu.registros} \union {pcb[p].registros : p \in Pids} :
              \A n \in Registros : r[n] \in 0..(IF n \in Cortos THEN Ancho8 ELSE Ancho32) - 1
      BY <2>1, <2>2
    <2>4. Len(despacho) <= 1 /\ Len(desalojo) <= 3
      <3>1. despacho = <<>> \/ Len(despacho) = 1  BY <1>1 DEF InvComputa, InvEj, DespachoFiel
      <3>2. desalojo = <<>> \/ Len(desalojo) \in {2, 3}  BY <1>1 DEF InvComputa, InvEj, DesalojoFiel
      <3>3. Len(<<>>) = 0  OBVIOUS
      <3>4. PICK a, b : a = Len(despacho) /\ b = Len(desalojo)  OBVIOUS
      <3>5. (a = 0 \/ a = 1) /\ (b = 0 \/ b = 2 \/ b = 3)  BY <3>1, <3>2, <3>3, <3>4, Zenon
      <3>6. a <= 1 /\ b <= 3  BY <3>5
      <3>7. QED  BY <3>4, <3>6, Zenon
    <2>5. /\ \A p \in Pids : pcb[p].pid = p
          /\ ready \in Seq(Pids) /\ cpu.pid \in Pids \union {Nadie}
          /\ flags \subseteq {"end_process", "interruption", "input_ouput"}
      BY <1>1 DEF InvComputa, InvEj, Pcbs, ReadyFiel, FlagsFieles
    <2>6. {pcb_en_ejecucion, interrupcion_recibida} \subseteq Pids \union {Nadie} /\ Len(interrupt) <= MaxInterrupciones
      BY <1>1 DEF InvComputa, Avisos
    <2>7. QED  BY <2>2, <2>3, <2>4, <2>5, <2>6 DEF TypeOK
  <1>2. QED  BY <1>1, InvComputaSiempre, PTL

-----------------------------------------------------------------------------
(* The state of Maquina *)

\* The state of Maquina.
RegAbs == [p \in Pids |-> LET q == PcbDe(p) IN [q.registros EXCEPT !["PC"] = q.pc]]
PideAbs == {p \in Pids : Pide(p)}
ViveAbs == {p \in Pids : Vive(p)}

\* The registers of a process, wherever they are.
Reg(p) == IF cpu.pid = p THEN registros_cpu ELSE Fuera(p).registros

\* A PCB on its way back is the second message.
LEMMA DeVueltaEs ==
    ASSUME InvComputa, NEW p PROVE DeVuelta(p) <=> desalojo # <<>> /\ Recibido.pid = p
  <1>1. CASE desalojo = <<>>
    <2>1. DOMAIN desalojo = {}  BY <1>1
    <2>2. QED  BY <1>1, <2>1 DEF DeVuelta
  <1>2. CASE desalojo # <<>>
    <2>1. PICK s, k : s = desalojo /\ k = Len(s)  OBVIOUS
    <2>2. /\ EsSec(s) /\ s[1].op \in {"FIN_CLOCK", "END_PROCESS", "OPERACION_IO"} /\ s[2].op = "PCB"
          /\ k = IF s[1].op = "OPERACION_IO" THEN 3 ELSE 2
          /\ s[1].op = "OPERACION_IO" => s[3].op = "OPERACION_IO"
      BY <1>2, <2>1 DEF InvComputa, InvEj, DesalojoFiel, PaqueteFiel
    <2>3. DOMAIN s = 1..k  BY <2>1, <2>2 DEF EsSec
    <2>4. ASSUME NEW i \in 1..k PROVE s[i].op = "PCB" <=> i = 2
      <3>1. i = 1 \/ i = 2 \/ (i = 3 /\ k = 3)  BY <2>2
      <3>2. QED  BY <2>2, <3>1
    <2>5. 2 \in 1..k  BY <2>2
    <2>6. Recibido.pid = Numero(s[2].buffer, 1)  BY <2>1 DEF Recibido, RecibidoPcb
    <2>7. DeVuelta(p) <=> \E i \in 1..k : s[i].op = "PCB" /\ Numero(s[i].buffer, 1) = p
      BY <2>1, <2>3 DEF DeVuelta
    <2>8. QED  BY <1>2, <2>4, <2>5, <2>6, <2>7
  <1>3. QED  BY <1>1, <1>2

\* Whatever is on its way to the CPU is what the kernel has.
LEMMA DeIdaEs ==
    ASSUME InvComputa, NEW p \in Pids, DeIda(p) PROVE RecibidoPcb(despacho[1]) = pcb[p]
  <1>1. despacho # <<>>
    <2>1. SUFFICES ASSUME despacho = <<>> PROVE FALSE  OBVIOUS
    <2>2. DOMAIN despacho = {}  BY <2>1
    <2>3. QED  BY <2>2 DEF DeIda
  <1>2. PICK x \in Pids : despacho[1] = SerializarPcb(pcb[x])  BY <1>1 DEF InvComputa, InvEj, DespachoFiel
  <1>3. EsSec(despacho) /\ Len(despacho) = 1  BY <1>1 DEF InvComputa, InvEj, DespachoFiel
  <1>4. DOMAIN despacho = {1}  BY <1>3 DEF EsSec
  <1>5. Numero(despacho[1], 1) = p  BY <1>4 DEF DeIda
  <1>6. EsPcb(pcb[x]) /\ pcb[x].pid = x  BY DEF InvComputa, InvEj, Pcbs
  <1>7. RecibidoPcb(despacho[1]) = pcb[x]  BY <1>2, <1>6, PcbLlega
  <1>8. RecibidoPcb(despacho[1]).pid = p  BY <1>5 DEF RecibidoPcb
  <1>9. QED  BY <1>6, <1>7, <1>8

\* Wherever the PCB is, its registers with its pc are Reg.
LEMMA RegEs ==
    ASSUME InvComputa PROVE RegAbs = [p \in Pids |-> Reg(p)] /\ \A p \in Pids : RegsOk(Reg(p))
  <1>1. ASSUME NEW r, RegsOk(r) PROVE [r EXCEPT !["PC"] = r["PC"]] = r  BY <1>1 DEF RegsOk
  <1>2. ASSUME NEW p \in Pids
        PROVE  (LET q == PcbDe(p) IN [q.registros EXCEPT !["PC"] = q.pc]) = Reg(p) /\ RegsOk(Reg(p))
    <2>1. PICK q : q = PcbDe(p)  OBVIOUS
    <2>2. q.registros = Reg(p) /\ q.pc = Reg(p)["PC"] /\ RegsOk(Reg(p))
      <3>1. CASE cpu.pid = p
        <4>1. q = Guardado(registros_cpu)  BY <2>1, <3>1 DEF PcbDe
        <4>2. q.registros = registros_cpu /\ q.pc = registros_cpu["PC"]  BY <4>1, GuardadoEs DEF InvComputa
        <4>3. QED  BY <3>1, <4>2 DEF Reg, InvComputa, RegistrosFieles
      <3>2. CASE cpu.pid # p /\ DeVuelta(p)
        <4>1. desalojo # <<>> /\ Recibido.pid = p  BY <3>2, DeVueltaEs
        <4>2. q = Recibido /\ Reg(p) = Recibido.registros  BY <2>1, <3>2, <4>1 DEF PcbDe, Reg, Fuera
        <4>3. RegsOk(Recibido.registros) /\ Recibido.pc = Recibido.registros["PC"]
          BY <4>1 DEF InvComputa, RegistrosFieles, InvEj, DesalojoFiel, Coherente
        <4>4. QED  BY <4>2, <4>3
      <3>3. CASE cpu.pid # p /\ ~DeVuelta(p)
        <4>1. q = pcb[p]
          <5>1. CASE DeIda(p)  BY <2>1, <3>3, <5>1, DeIdaEs DEF PcbDe
          <5>2. CASE ~DeIda(p)  BY <2>1, <3>3, <5>2 DEF PcbDe
          <5>3. QED  BY <5>1, <5>2
        <4>2. Reg(p) = pcb[p].registros  BY <3>3, DeVueltaEs DEF Reg, Fuera
        <4>3. RegsOk(pcb[p].registros) /\ pcb[p].pc = pcb[p].registros["PC"]
          BY DEF InvComputa, RegistrosFieles, Coherente
        <4>4. QED  BY <4>1, <4>2, <4>3
      <3>4. QED  BY <3>1, <3>2, <3>3
    <2>3. [q.registros EXCEPT !["PC"] = q.pc] = Reg(p)
      <3>1. PICK r : r = Reg(p)  OBVIOUS
      <3>2. [r EXCEPT !["PC"] = r["PC"]] = r  BY <1>1, <2>2, <3>1
      <3>3. QED  BY <2>2, <3>1, <3>2
    <2>4. QED  BY <2>1, <2>2, <2>3
  <1>3. QED  BY <1>2 DEF RegAbs

\* Where a process waits, and whether it has ended, in the words of the invariant.
EnCola(n, p) == \E i \in 1..Len(cola_io[n]) : cola_io[n][i].pid = p
Sirve(n, p) == servicio[n].pid = p /\ servicio[n].fase = "enviado"
Evictado(p, m) == desalojo # <<>> /\ Recibido.pid = p /\ desalojo[1].op = m

\* Pide and Vive of Ejecucion in those words.
LEMMA PideEs ==
    ASSUME InvComputa, NEW p
    PROVE  /\ Pide(p) <=> Evictado(p, "OPERACION_IO") \/ \E n \in Nombres : EnCola(n, p) \/ Sirve(n, p)
           /\ Vive(p) <=> /\ pcb[p].estado_actual # "TERMINATED"
                          /\ ~(cpu.pid = p /\ "end_process" \in flags) /\ ~Evictado(p, "END_PROCESS")
  <1>1. \A n \in Nombres : DOMAIN cola_io[n] = 1..Len(cola_io[n])
    <2>1. \A n \in Nombres : EsSec(cola_io[n])  BY DEF InvComputa, InvEj, IOFiel
    <2>2. \A s : EsSec(s) => DOMAIN s = 1..Len(s)  BY DEF EsSec
    <2>3. QED  BY <2>1, <2>2
  <1>2. DeVuelta(p) <=> desalojo # <<>> /\ Recibido.pid = p  BY DeVueltaEs
  <1>3. Pide(p) <=> Evictado(p, "OPERACION_IO") \/ \E n \in Nombres : EnCola(n, p) \/ Sirve(n, p)
    BY <1>1, <1>2 DEF Pide, Evictado, EnCola, Sirve
  <1>4. Vive(p) <=> /\ pcb[p].estado_actual # "TERMINATED"
                    /\ ~(cpu.pid = p /\ "end_process" \in flags) /\ ~Evictado(p, "END_PROCESS")
    BY <1>2 DEF Vive, Evictado
  <1>5. QED  BY <1>3, <1>4

-----------------------------------------------------------------------------
(* Its steps *)

\* What a step does to the state of Maquina, process by process.
RegFiel == RegAbs = [x \in Pids |-> Reg(x)]

\* RegEs as one fact,
LEMMA RegFielEs == InvComputa => RegFiel  BY RegEs DEF RegFiel

\* and after a step.
LEMMA RegFielPrima == InvComputa' => RegFiel'  BY RegFielEs, PTL

\* The state of Maquina before and after a step.
LEMMA AbsEs ==
    ASSUME InvComputa, InvComputa'
    PROVE  /\ RegAbs = [x \in Pids |-> Reg(x)] /\ RegAbs' = [x \in Pids |-> Reg(x)']
           /\ \A x \in Pids : /\ RegAbs[x] = Reg(x) /\ (x \in PideAbs <=> Pide(x)) /\ (x \in ViveAbs <=> Vive(x))
                              /\ (x \in PideAbs' <=> Pide(x)') /\ (x \in ViveAbs' <=> Vive(x)')
           /\ PideAbs \subseteq Pids /\ ViveAbs \subseteq Pids /\ PideAbs' \subseteq Pids /\ ViveAbs' \subseteq Pids
  <1>1. RegAbs = [x \in Pids |-> Reg(x)]  BY RegEs
  <1>2. RegAbs' = [x \in Pids |-> Reg(x)']  BY RegFielPrima DEF RegFiel
  <1>3. QED  BY <1>1, <1>2 DEF PideAbs, ViveAbs

\* A step that changes none of it is one that Maquina does not see.
LEMMA Quieta ==
    ASSUME InvComputa, InvComputa', programa' = programa, obra' = obra,
           \A x \in Pids : Reg(x)' = Reg(x) /\ (Pide(x)' <=> Pide(x)) /\ (Vive(x)' <=> Vive(x))
    PROVE  UNCHANGED Maq!vars
  <1>1. RegAbs' = RegAbs /\ PideAbs' = PideAbs /\ ViveAbs' = ViveAbs  BY AbsEs
  <1>2. QED  BY <1>1 DEF Maq!vars, RegAbs, PideAbs, ViveAbs

\* The registers of p when Maquina starts its instruction.
Avance(p) == [Reg(p) EXCEPT !["PC"] = (@ + 1) % Ancho32]
SoloReg(p, r) == Reg(p)' = r /\ \A x \in Pids : x # p => Reg(x)' = Reg(x)

\* A step that changes the registers of p only.
LEMMA SoloRegEs ==
    ASSUME InvComputa, InvComputa', NEW p \in Pids, NEW r, SoloReg(p, r)
    PROVE  RegAbs' = [RegAbs EXCEPT ![p] = r]
  <1>1. \A x \in Pids : Reg(x)' = IF x = p THEN r ELSE Reg(x)  BY DEF SoloReg
  <1>2. RegAbs = [x \in Pids |-> Reg(x)] /\ RegAbs' = [x \in Pids |-> Reg(x)']  BY AbsEs
  <1>3. [RegAbs EXCEPT ![p] = r] = [x \in Pids |-> IF x = p THEN r ELSE Reg(x)]  BY <1>2
  <1>4. QED  BY <1>1, <1>2, <1>3

\* The instruction that Maquina sees.
LEMMA InstruccionEs ==
    ASSUME InvComputa, NEW p \in Pids
    PROVE  /\ Maq!Instruccion(p) = programa[p][Reg(p)["PC"] + 1] /\ Maq!EnVuelo(p) = programa[p][Reg(p)["PC"]]
           /\ Maq!Avanzados(p) = Avance(p) /\ RegAbs[p] = Reg(p)
           /\ Maq!Libre(p) <=> Vive(p) /\ ~Pide(p)
  <1>1. RegAbs[p] = Reg(p)  BY RegEs
  <1>2. Maq!Instruccion(p) = programa[p][RegAbs[p]["PC"] + 1]  BY DEF Maq!Instruccion, RegAbs
  <1>3. Maq!EnVuelo(p) = programa[p][RegAbs[p]["PC"]]  BY DEF Maq!EnVuelo, RegAbs
  <1>4. Maq!Avanzados(p) = [RegAbs[p] EXCEPT !["PC"] = (@ + 1) % Ancho32]  BY DEF Maq!Avanzados, RegAbs
  <1>5. Maq!Libre(p) <=> Vive(p) /\ ~Pide(p)  BY DEF Maq!Libre
  <1>6. QED  BY <1>1, <1>2, <1>3, <1>4, <1>5 DEF Avance

\* SET, SUM, SUB and JNZ in Maquina
LEMMA MaqCalcular ==
    ASSUME InvComputa, InvComputa', NEW p \in Pids, Vive(p), ~Pide(p), programa' = programa, obra' = obra,
           NEW ins, ins = programa[p][Reg(p)["PC"] + 1], ins.op \in Calculos,
           SoloReg(p, Maq!Resultado(ins, Avance(p))),
           \A x \in Pids : (Pide(x)' <=> Pide(x)) /\ (Vive(x)' <=> Vive(x))
    PROVE  Maq!Next
  <1>1. PideAbs' = PideAbs /\ ViveAbs' = ViveAbs  BY AbsEs
  <1>2. RegAbs' = [RegAbs EXCEPT ![p] = Maq!Resultado(ins, Avance(p))]  BY SoloRegEs
  <1>3. Maq!Libre(p) /\ Maq!Instruccion(p) = ins /\ Maq!Avanzados(p) = Avance(p)  BY InstruccionEs
  <1>4. ins.op \in Maq!Calculos  BY DEF Maq!Calculos, Calculos
  <1>5. Maq!Calcular(p)  BY <1>1, <1>2, <1>3, <1>4 DEF Maq!Calcular, RegAbs, PideAbs, ViveAbs
  <1>6. QED  BY <1>5 DEF Maq!Next

\* An I/O instruction in Maquina
LEMMA MaqPedir ==
    ASSUME InvComputa, InvComputa', NEW p \in Pids, Vive(p), ~Pide(p), programa' = programa, obra' = obra,
           NEW ins, ins = programa[p][Reg(p)["PC"] + 1], ins.op \in Datos, SoloReg(p, Avance(p)),
           Pide(p)', \A x \in Pids : x # p => (Pide(x)' <=> Pide(x)), \A x \in Pids : (Vive(x)' <=> Vive(x))
    PROVE  Maq!Next
  <1>1. PideAbs' = PideAbs \union {p} /\ ViveAbs' = ViveAbs
    <2>1. \A x \in Pids : Pide(x)' <=> (Pide(x) \/ x = p)  OBVIOUS
    <2>2. QED  BY <2>1, AbsEs
  <1>2. RegAbs' = [RegAbs EXCEPT ![p] = Avance(p)]  BY SoloRegEs
  <1>3. Maq!Libre(p) /\ Maq!Instruccion(p) = ins /\ Maq!Avanzados(p) = Avance(p)  BY InstruccionEs
  <1>4. ins.op \notin Maq!Calculos \union {"EXIT"}  BY DEF Maq!Calculos, Datos, Maq!Ficheros
  <1>5. Maq!Pedir(p)  BY <1>1, <1>2, <1>3, <1>4 DEF Maq!Pedir, RegAbs, PideAbs, ViveAbs
  <1>6. QED  BY <1>5 DEF Maq!Next

\* EXIT in Maquina
LEMMA MaqSalir ==
    ASSUME InvComputa, InvComputa', NEW p \in Pids, Vive(p), ~Pide(p), programa' = programa, obra' = obra,
           NEW ins, ins = programa[p][Reg(p)["PC"] + 1], ins.op = "EXIT", SoloReg(p, Avance(p)),
           ~Vive(p)', \A x \in Pids : x # p => (Vive(x)' <=> Vive(x)), \A x \in Pids : (Pide(x)' <=> Pide(x))
    PROVE  Maq!Next
  <1>1. ViveAbs' = ViveAbs \ {p} /\ PideAbs' = PideAbs
    <2>1. \A x \in Pids : Vive(x)' <=> (Vive(x) /\ x # p)  OBVIOUS
    <2>2. QED  BY <2>1, AbsEs
  <1>2. RegAbs' = [RegAbs EXCEPT ![p] = Avance(p)]  BY SoloRegEs
  <1>3. Maq!Libre(p) /\ Maq!Instruccion(p) = ins /\ Maq!Avanzados(p) = Avance(p)  BY InstruccionEs
  <1>4. Maq!Salir(p)  BY <1>1, <1>2, <1>3 DEF Maq!Salir, RegAbs, PideAbs, ViveAbs
  <1>5. QED  BY <1>4 DEF Maq!Next

\* An I/O instruction that no interface takes, in Maquina
LEMMA MaqRechazar ==
    ASSUME InvComputa, InvComputa', NEW p \in Pids, Pide(p), programa' = programa, obra' = obra,
           ~Maq!Servible(programa[p][Reg(p)["PC"]]), \A x \in Pids : Reg(x)' = Reg(x),
           ~Vive(p)', ~Pide(p)',
           \A x \in Pids : x # p => (Vive(x)' <=> Vive(x)) /\ (Pide(x)' <=> Pide(x))
    PROVE  Maq!Next
  <1>1. ViveAbs' = ViveAbs \ {p} /\ PideAbs' = PideAbs \ {p}
    <2>1. \A x \in Pids : (Vive(x)' <=> Vive(x) /\ x # p) /\ (Pide(x)' <=> Pide(x) /\ x # p)  OBVIOUS
    <2>2. QED  BY <2>1, AbsEs
  <1>2. RegAbs' = RegAbs  BY AbsEs
  <1>3. p \in PideAbs /\ Maq!EnVuelo(p) = programa[p][Reg(p)["PC"]]  BY InstruccionEs DEF PideAbs
  <1>4. Maq!Rechazar(p)  BY <1>1, <1>2, <1>3 DEF Maq!Rechazar, RegAbs, PideAbs, ViveAbs
  <1>5. QED  BY <1>4 DEF Maq!Next

\* An interface that serves, in Maquina
LEMMA MaqServir ==
    ASSUME InvComputa, InvComputa', NEW p \in Pids, Pide(p), programa' = programa,
           NEW ins, ins = programa[p][Reg(p)["PC"]], Maq!Servible(ins),
           obra' = [obra EXCEPT ![p] = Maq!Encargo(p, ins, Reg(p))], \A x \in Pids : Reg(x)' = Reg(x),
           ~Pide(p)', \A x \in Pids : x # p => (Pide(x)' <=> Pide(x)), \A x \in Pids : (Vive(x)' <=> Vive(x))
    PROVE  Maq!Next
  <1>1. PideAbs' = PideAbs \ {p} /\ ViveAbs' = ViveAbs
    <2>1. \A x \in Pids : Pide(x)' <=> Pide(x) /\ x # p  OBVIOUS
    <2>2. QED  BY <2>1, AbsEs
  <1>2. RegAbs' = RegAbs  BY AbsEs
  <1>3. p \in PideAbs /\ Maq!EnVuelo(p) = ins /\ RegAbs[p] = Reg(p)  BY InstruccionEs DEF PideAbs
  <1>4. obra' = [obra EXCEPT ![p] = Maq!Encargo(p, Maq!EnVuelo(p), RegAbs[p])]  BY <1>3
  <1>5. Maq!Servir(p)  BY <1>1, <1>2, <1>3, <1>4 DEF Maq!Servir, RegAbs, PideAbs, ViveAbs
  <1>6. QED  BY <1>5 DEF Maq!Next

-----------------------------------------------------------------------------
(* Ejecucion implements Maquina *)

\* Steps that leave the state of Maquina as it is, a part at a time.
LEMMA RegQuieto ==
    ASSUME MismosRegistros, UNCHANGED <<desalojo, cpu, registros_cpu>>, NEW x \in Pids
    PROVE  Reg(x)' = Reg(x)
  <1>1. Recibido' = Recibido  BY DEF Recibido
  <1>2. QED  BY <1>1 DEF Reg, Fuera, MismosRegistros

\* The requests do not move,
LEMMA PideQuieto ==
    ASSUME InvComputa, InvComputa', UNCHANGED <<desalojo, cola_io, servicio>>, NEW x \in Pids
    PROVE  Pide(x)' <=> Pide(x)
  BY DEF Pide, DeVuelta

\* and nobody ends.
LEMMA ViveQuieto ==
    ASSUME UNCHANGED <<desalojo, cpu, flags>>, NEW x \in Pids,
           pcb'[x].estado_actual = "TERMINATED" <=> pcb[x].estado_actual = "TERMINATED"
    PROVE  Vive(x)' <=> Vive(x)
  BY DEF Vive, DeVuelta

\* A process that the kernel does not have in EXEC has there its registers, and asks for what it
\* is waiting for.
LEMMA EnElKernel ==
    ASSUME InvComputa, NEW p \in Pids, pcb[p].estado_actual # "EXEC"
    PROVE  Reg(p) = pcb[p].registros /\ \A m : ~Evictado(p, m)
  <1>1. desalojo # <<>> => Recibido.pid # p  BY DEF InvComputa, InvEj, DesalojoFiel, EnExec
  <1>2. Fuera(p) = pcb[p]  BY <1>1 DEF Fuera
  <1>3. Reg(p) = pcb[p].registros
    <2>1. CASE cpu.pid = p
      <3>1. ~Activa  BY <2>1 DEF InvComputa, InvEj, CpuFiel, EnExec
      <3>2. cpu.pid # Nadie  BY <2>1, NadieAparte
      <3>3. Fuera(p).registros = registros_cpu  BY <2>1, <3>1, <3>2 DEF InvComputa, CopiaFiel, Activa
      <3>4. QED  BY <1>2, <2>1, <3>3 DEF Reg
    <2>2. CASE cpu.pid # p  BY <1>2, <2>2 DEF Reg
    <2>3. QED  BY <2>1, <2>2
  <1>4. QED  BY <1>1, <1>3 DEF Evictado

\* One that it has in EXEC waits for no interface.
LEMMA EnExecNoEspera ==
    ASSUME InvComputa, NEW p \in Pids, pcb[p].estado_actual # "BLOCKED", NEW n \in Nombres
    PROVE  ~EnCola(n, p) /\ ~Sirve(n, p)
  <1>1. ~Espera(n, p)  BY DEF InvComputa, InvEj, IOFiel
  <1>2. QED  BY <1>1 DEF Espera, EnServicio, EnCola, Sirve

\* iniciar_planificador_corto_plazo, seen by Maquina
LEMMA DespacharMaq == ASSUME InvComputa, InvComputa', Despachar PROVE UNCHANGED Maq!vars
  <1>1. PICK h \in Pids :
              /\ pcb[h].estado_actual = "READY" /\ pcb'[h].estado_actual = "EXEC"
              /\ MismosRegistros /\ \A p \in Pids : p # h => pcb'[p] = pcb[p]
    BY DespachaPcb DEF InvComputa
  <1>2. UNCHANGED <<programa, desalojo, cpu, registros_cpu, flags, cola_io, servicio, obra>>
    BY DEF Despachar, ioVars
  <1>3. \A x \in Pids : pcb'[x].estado_actual = "TERMINATED" <=> pcb[x].estado_actual = "TERMINATED"
    BY <1>1
  <1>4. \A x \in Pids : Reg(x)' = Reg(x)  BY <1>1, <1>2, RegQuieto
  <1>5. \A x \in Pids : Pide(x)' <=> Pide(x)  BY <1>2, PideQuieto
  <1>6. \A x \in Pids : Vive(x)' <=> Vive(x)  BY <1>2, <1>3, ViveQuieto
  <1>7. QED  BY <1>2, <1>4, <1>5, <1>6, Quieta

\* The interruptions, or nothing.
LEMMA InterrupcionMaq ==
    ASSUME InvComputa, InvComputa',
           UNCHANGED <<programa, pcb, desalojo, cpu, registros_cpu, flags, cola_io, servicio, obra>>
    PROVE  UNCHANGED Maq!vars
  <1>1. MismosRegistros  BY DEF MismosRegistros
  <1>2. \A x \in Pids : Reg(x)' = Reg(x)  BY <1>1, RegQuieto
  <1>3. \A x \in Pids : Pide(x)' <=> Pide(x)  BY PideQuieto
  <1>4. \A x \in Pids : Vive(x)' <=> Vive(x)  BY ViveQuieto
  <1>5. QED  BY <1>2, <1>3, <1>4, Quieta

\* The PCB that the CPU takes is the one the kernel has.
LEMMA RecibirPcbMaq == ASSUME InvComputa, InvComputa', RecibirPcb PROVE UNCHANGED Maq!vars
  <1>1. PICK p \in Pids :
              /\ cpu.pid = Nadie /\ cpu'.pid = p /\ registros_cpu' = pcb[p].registros /\ desalojo = <<>>
              /\ flags' \subseteq {"interruption"} /\ flags \subseteq {"interruption"}
    BY RecibePcb
  <1>2. UNCHANGED <<programa, pcb, desalojo, cola_io, servicio, obra>>  BY DEF RecibirPcb, kernelVars, ioVars
  <1>3. ASSUME NEW x \in Pids PROVE Reg(x)' = Reg(x) /\ (Vive(x)' <=> Vive(x))
    <2>1. cpu.pid # x  BY <1>1, NadieAparte
    <2>2. Reg(x) = pcb[x].registros  BY <1>1, <2>1 DEF Reg, Fuera
    <2>3. Fuera(x)' = pcb[x]  BY <1>1, <1>2 DEF Fuera
    <2>4. Reg(x)' = pcb[x].registros
      <3>1. CASE x = p  BY <1>1, <3>1 DEF Reg
      <3>2. CASE x # p  BY <1>1, <2>3, <3>2 DEF Reg
      <3>3. QED  BY <3>1, <3>2
    <2>5. "end_process" \notin flags' /\ "end_process" \notin flags  BY <1>1
    <2>6. Vive(x)' <=> Vive(x)  BY <1>2, <2>5 DEF Vive, DeVuelta
    <2>7. QED  BY <2>2, <2>4, <2>6
  <1>4. \A x \in Pids : Pide(x)' <=> Pide(x)  BY <1>2, PideQuieto
  <1>5. QED  BY <1>2, <1>3, <1>4, Quieta

\* PideEs as one fact, and after a step.
PideFiel ==
    \A p \in Pids :
       /\ Pide(p) <=> Evictado(p, "OPERACION_IO") \/ \E n \in Nombres : EnCola(n, p) \/ Sirve(n, p)
       /\ Vive(p) <=> /\ pcb[p].estado_actual # "TERMINATED"
                      /\ ~(cpu.pid = p /\ "end_process" \in flags) /\ ~Evictado(p, "END_PROCESS")

\* It follows from the invariant,
LEMMA PideFielEs == InvComputa => PideFiel  BY PideEs DEF PideFiel

\* after the step too.
LEMMA PideFielPrima == InvComputa' => PideFiel'  BY PideFielEs, PTL

\* What waits in the queues is the same.
LEMMA ColasQuietas ==
    ASSUME UNCHANGED <<cola_io, servicio>>, NEW n, NEW x
    PROVE  (EnCola(n, x)' <=> EnCola(n, x)) /\ (Sirve(n, x)' <=> Sirve(n, x))
  BY DEF EnCola, Sirve

\* An iteration of comenzar_proceso is a step of the process that the CPU has.
LEMMA CicloMaq == ASSUME InvComputa, InvComputa', Ciclo PROVE Maq!Next
  <1>1. PICK p, k : p = cpu.pid /\ k = registros_cpu["PC"]  OBVIOUS
  <1>2. PICK ins : ins = programa[p][k + 1]  OBVIOUS
  <1>3. /\ p \in Pids /\ EnExec(p) /\ flags = {} /\ desalojo = <<>> /\ EsEnviada(Traida, ins)
        /\ Avanzados = [registros_cpu EXCEPT !["PC"] = (@ + 1) % Ancho32]
    BY <1>1, <1>2, CicloDe
  <1>4. /\ UNCHANGED <<programa, pcb, cola_io, servicio, obra>>
        /\ Calcular(Traida) \/ PedirIO(Traida) \/ Exit(Traida)
    BY DEF Ciclo, kernelVars, ioVars
  <1>5. Reg(p) = registros_cpu /\ Avance(p) = Avanzados  BY <1>1, <1>3 DEF Reg, Avance
  <1>6. PideFiel /\ PideFiel'  BY PideFielEs, PideFielPrima
  <1>7. \A x, m : ~Evictado(x, m)  BY <1>3 DEF Evictado
  <1>8. Vive(p) /\ ~Pide(p)
    <2>1. \A n \in Nombres : ~EnCola(n, p) /\ ~Sirve(n, p)  BY <1>3, EnExecNoEspera DEF EnExec
    <2>2. QED  BY <1>3, <1>6, <1>7, <2>1 DEF PideFiel, EnExec
  <1>9. \A x \in Pids : x # p => Reg(x) = pcb[x].registros  BY <1>1, <1>3 DEF Reg, Fuera
  <1>10. CASE Calcular(Traida)
    <2>1. /\ ins.op \in Calculos /\ registros_cpu' = Maq!Resultado(ins, Avanzados)
          /\ UNCHANGED <<cpu, desalojo>> /\ flags' \subseteq {"interruption"}
      BY <1>1, <1>2, <1>10, CalculaReg
    <2>2. Reg(p)' = registros_cpu'  BY <1>1, <2>1 DEF Reg
    <2>3. \A x \in Pids : x # p => Reg(x)' = Reg(x)
      BY <1>1, <1>3, <1>4, <1>9, <2>1 DEF Reg, Fuera
    <2>4. SoloReg(p, Maq!Resultado(ins, Avance(p)))  BY <1>5, <2>1, <2>2, <2>3, Zenon DEF SoloReg
    <2>5. \A x \in Pids : Pide(x)' <=> Pide(x)  BY <1>4, <2>1, PideQuieto
    <2>6. \A x \in Pids : Vive(x)' <=> Vive(x)
      <3>1. "end_process" \notin flags /\ "end_process" \notin flags'  BY <1>3, <2>1
      <3>2. QED  BY <1>4, <2>1, <3>1 DEF Vive, DeVuelta
    <2>7. ins = programa[p][Reg(p)["PC"] + 1]  BY <1>1, <1>2, <1>5
    <2>8. QED  BY <1>3, <1>4, <1>8, <2>1, <2>4, <2>5, <2>6, <2>7, MaqCalcular
  <1>11. CASE PedirIO(Traida)
    <2>1. PICK q : q = Guardado(Avanzados)  OBVIOUS
    <2>2. /\ ins.op \in Datos /\ registros_cpu' = Avanzados /\ cpu'.pid = p /\ Recibido' = q
          /\ flags' \subseteq {"input_ouput", "interruption"}
          /\ desalojo' # <<>> /\ desalojo'[1].op = "OPERACION_IO"
      BY <1>1, <1>2, <1>11, <2>1, PideReg
    <2>3. q.pid = p  BY <1>1, <2>1, GuardadoEs DEF InvComputa
    <2>4. Reg(p)' = Avance(p)  BY <1>5, <2>2 DEF Reg
    <2>5. \A x \in Pids : x # p => Reg(x)' = Reg(x)
      BY <1>4, <1>9, <2>2, <2>3 DEF Reg, Fuera
    <2>6. SoloReg(p, Avance(p))  BY <2>4, <2>5 DEF SoloReg
    <2>7. \A x \in Pids : Evictado(x, "OPERACION_IO")' <=> x = p  BY <2>2, <2>3 DEF Evictado
    <2>8. \A x \in Pids : ~Evictado(x, "END_PROCESS")'  BY <2>2 DEF Evictado
    <2>9. Pide(p)' /\ \A x \in Pids : x # p => (Pide(x)' <=> Pide(x))
      BY <1>4, <1>3, <1>6, <1>7, <2>7, ColasQuietas DEF PideFiel
    <2>10. \A x \in Pids : Vive(x)' <=> Vive(x)
      BY <1>3, <1>4, <1>6, <1>7, <2>2, <2>8 DEF PideFiel
    <2>11. ins = programa[p][Reg(p)["PC"] + 1]  BY <1>1, <1>2, <1>5
    <2>12. QED  BY <1>3, <1>4, <1>8, <2>2, <2>6, <2>9, <2>10, <2>11, MaqPedir
  <1>12. CASE Exit(Traida)
    <2>1. /\ Traida.op = "EXIT" /\ registros_cpu' = Avanzados /\ "end_process" \in flags'
          /\ UNCHANGED <<cpu, desalojo>>
      BY <1>12 DEF Exit, Pasada
    <2>2. ins.op = "EXIT"  BY <1>3, <2>1 DEF EsEnviada
    <2>3. Reg(p)' = Avance(p)  BY <1>1, <1>5, <2>1 DEF Reg
    <2>4. \A x \in Pids : x # p => Reg(x)' = Reg(x)
      BY <1>1, <1>3, <1>4, <1>9, <2>1 DEF Reg, Fuera
    <2>5. SoloReg(p, Avance(p))  BY <2>3, <2>4 DEF SoloReg
    <2>6. \A x \in Pids : Pide(x)' <=> Pide(x)  BY <1>4, <2>1, PideQuieto
    <2>7. ~Vive(p)' /\ \A x \in Pids : x # p => (Vive(x)' <=> Vive(x))
      BY <1>1, <1>3, <1>4, <2>1 DEF Vive, DeVuelta
    <2>8. ins = programa[p][Reg(p)["PC"] + 1]  BY <1>1, <1>2, <1>5
    <2>9. QED  BY <1>3, <1>4, <1>8, <2>2, <2>5, <2>6, <2>7, <2>8, MaqSalir
  <1>13. QED  BY <1>4, <1>10, <1>11, <1>12

\* Leaving the CPU changes nothing for a process: its registers leave with its PCB.
LEMMA DejarCpuMaq == ASSUME InvComputa, InvComputa', DejarCpu PROVE UNCHANGED Maq!vars
  <1>1. PICK p : p = cpu.pid  OBVIOUS
  <1>2. UNCHANGED <<programa, pcb, cola_io, servicio, obra>>  BY DEF DejarCpu, kernelVars, ioVars
  <1>3. /\ p \in Pids /\ cpu'.pid = Nadie /\ registros_cpu' = registros_cpu
        /\ Deja \/ \E m : Evicta(p, m)
    BY <1>1, DejaReg
  <1>4. PideFiel /\ PideFiel'  BY PideFielEs, PideFielPrima
  <1>5. \A x \in Pids : cpu'.pid # x  BY <1>3, NadieAparte
  <1>6. CASE Deja
    <2>1. /\ "input_ouput" \in flags /\ "end_process" \notin flags /\ "end_process" \notin flags'
          /\ desalojo' = desalojo /\ Recibido' = Recibido
      BY <1>6 DEF Deja, Recibido
    <2>2. \A x \in Pids : Fuera(x)' = Fuera(x)  BY <1>2, <2>1 DEF Fuera
    <2>3. Reg(p) = Fuera(p).registros  BY <1>1, <1>3, <2>1, NadieAparte DEF Reg, InvComputa, CopiaFiel
    <2>4. \A x \in Pids : Reg(x)' = Reg(x)  BY <1>1, <1>5, <2>2, <2>3 DEF Reg
    <2>5. \A x \in Pids : Pide(x)' <=> Pide(x)  BY <1>2, <2>1, PideQuieto
    <2>6. \A x \in Pids : Vive(x)' <=> Vive(x)  BY <1>2, <2>1 DEF Vive, DeVuelta
    <2>7. QED  BY <1>2, <2>4, <2>5, <2>6, Quieta
  <1>7. CASE \E m : Evicta(p, m)
    <2>1. PICK m : Evicta(p, m)  BY <1>7
    <2>2. PICK q : q = Guardado(registros_cpu)  OBVIOUS
    <2>3. q.pid = p /\ q.registros = registros_cpu  BY <1>1, <2>2, GuardadoEs DEF InvComputa
    <2>4. /\ m = (IF "end_process" \in flags THEN "END_PROCESS" ELSE "FIN_CLOCK")
          /\ EnExec(p) /\ desalojo = <<>> /\ "end_process" \notin flags'
          /\ desalojo' # <<>> /\ Recibido' = q /\ desalojo'[1].op = m
      BY <2>1, <2>2 DEF Evicta
    <2>5. \A x \in Pids : Reg(x)' = Reg(x)
      BY <1>1, <1>2, <1>5, <2>3, <2>4 DEF Reg, Fuera
    <2>6. \A x \in Pids : /\ ~Evictado(x, "OPERACION_IO") /\ ~Evictado(x, "OPERACION_IO")'
                          /\ ~Evictado(x, "END_PROCESS")
                          /\ (Evictado(x, "END_PROCESS")' <=> x = p /\ "end_process" \in flags)
      BY <2>3, <2>4 DEF Evictado
    <2>7. \A x \in Pids : Pide(x)' <=> Pide(x)  BY <1>2, <1>4, <2>6, ColasQuietas DEF PideFiel
    <2>8. \A x \in Pids : Vive(x)' <=> Vive(x)  BY <1>1, <1>2, <1>4, <2>4, <2>6 DEF PideFiel
    <2>9. QED  BY <1>2, <2>5, <2>7, <2>8, Quieta
  <1>8. QED  BY <1>3, <1>6, <1>7

\* What Maquina could see of an eviction that the kernel attends.
Notado(p, m, e) ==
    /\ p \in Pids /\ EnExec(p) /\ pcb'[p].estado_actual = e
    /\ UNCHANGED <<programa, cpu, flags, servicio, obra>>
    /\ \A x \in Pids : Reg(x)' = Reg(x)
    /\ \A x, k : (Evictado(x, k) <=> x = p /\ k = m) /\ ~Evictado(x, k)'
    /\ \A x \in Pids : x # p => (Vive(x)' <=> Vive(x))
    /\ Vive(p)' <=> e # "TERMINATED" /\ ~(cpu.pid = p /\ "end_process" \in flags)

\* The kernel notes a PCB that comes back: its registers are the same, in another place.
LEMMA AtiendeReg ==
    ASSUME InvComputa, InvComputa', NEW m, NEW n, NEW e, Atender(m, n), Anotar(Recibido, e), e # "EXEC",
           n = (IF m = "OPERACION_IO" THEN 3 ELSE 2), NEW p, p = Recibido.pid
    PROVE  Notado(p, m, e)
  <1>1. /\ desalojo # <<>> /\ desalojo' = <<>> /\ desalojo[1].op = m /\ p \in Pids /\ EnExec(p)
        /\ pcb'[p].estado_actual = e /\ pcb'[p].registros = Recibido.registros
        /\ \A x \in Pids : x # p => pcb'[x] = pcb[x]
    BY AnotaPcb
  <1>2. UNCHANGED <<programa, cpu, registros_cpu, flags, servicio, obra>>  BY DEF Atender
  <1>3. ASSUME NEW x \in Pids PROVE Reg(x)' = Reg(x)
    <2>1. Fuera(x)' = pcb'[x]  BY <1>1 DEF Fuera
    <2>2. Fuera(x).registros = pcb'[x].registros
      <3>1. CASE x = p  BY <1>1, <3>1 DEF Fuera
      <3>2. CASE x # p  BY <1>1, <3>2 DEF Fuera
      <3>3. QED  BY <3>1, <3>2
    <2>3. QED  BY <1>2, <2>1, <2>2 DEF Reg
  <1>4. \A x, k : (Evictado(x, k) <=> x = p /\ k = m) /\ ~Evictado(x, k)'  BY <1>1 DEF Evictado
  <1>5. PideFiel /\ PideFiel'  BY PideFielEs, PideFielPrima
  <1>6. \A x \in Pids : x # p => (Vive(x)' <=> Vive(x))  BY <1>1, <1>2, <1>4, <1>5 DEF PideFiel
  <1>7. Vive(p)' <=> e # "TERMINATED" /\ ~(cpu.pid = p /\ "end_process" \in flags)
    BY <1>1, <1>2, <1>4, <1>5 DEF PideFiel
  <1>8. QED  BY <1>1, <1>2, <1>3, <1>4, <1>6, <1>7 DEF Notado

\* recibir_dispatch with FIN_CLOCK or END_PROCESS
LEMMA AtenderFinMaq ==
    ASSUME InvComputa, InvComputa', AtenderFinClock \/ AtenderEndProcess PROVE UNCHANGED Maq!vars
  <1>1. PICK m, e : /\ Atender(m, 2) /\ Anotar(Recibido, e) /\ e \in {"READY", "TERMINATED"}
                    /\ m \in {"FIN_CLOCK", "END_PROCESS"} /\ (m = "END_PROCESS" <=> e = "TERMINATED")
                    /\ cola_io' = cola_io
    BY DEF AtenderFinClock, AtenderEndProcess
  <1>2. PICK p : p = Recibido.pid  OBVIOUS
  <1>3. e # "EXEC" /\ 2 = (IF m = "OPERACION_IO" THEN 3 ELSE 2)  BY <1>1
  <1>4. /\ p \in Pids /\ EnExec(p) /\ pcb'[p].estado_actual = e
        /\ UNCHANGED <<programa, cpu, flags, servicio, obra>>
        /\ \A x \in Pids : Reg(x)' = Reg(x)
        /\ \A x, k : (Evictado(x, k) <=> x = p /\ k = m) /\ ~Evictado(x, k)'
        /\ \A x \in Pids : x # p => (Vive(x)' <=> Vive(x))
        /\ Vive(p)' <=> e # "TERMINATED" /\ ~(cpu.pid = p /\ "end_process" \in flags)
    <2>1. Notado(p, m, e)  BY <1>1, <1>2, <1>3, AtiendeReg
    <2>2. QED  BY <2>1 DEF Notado
  <1>5. PideFiel /\ PideFiel'  BY PideFielEs, PideFielPrima
  <1>6. \A x \in Pids : Pide(x)' <=> Pide(x)  BY <1>1, <1>4, <1>5, ColasQuietas DEF PideFiel
  <1>7. Vive(p)' <=> Vive(p)  BY <1>1, <1>4, <1>5 DEF PideFiel, EnExec
  <1>8. QED  BY <1>4, <1>6, <1>7, Quieta

\* What waits in the queues once one more waits.
LEMMA UnoMas ==
    ASSUME InvComputa, NEW n \in Nombres, NEW i, NEW p, i.pid = p, cola_io' = [cola_io EXCEPT ![n] = Append(@, i)]
    PROVE  \A m \in Nombres : \A x : EnCola(m, x)' <=> EnCola(m, x) \/ (m = n /\ x = p)
  <1>1. PICK s, t : s = cola_io[n] /\ t = Append(s, i)  OBVIOUS
  <1>2. cola_io = [m \in Nombres |-> cola_io[m]] /\ EsSec(s)  BY <1>1 DEF InvComputa, InvEj, IOFiel
  <1>3. cola_io'[n] = t /\ \A m \in Nombres : m # n => cola_io'[m] = cola_io[m]  BY <1>1, <1>2
  <1>4. /\ EsSec(t) /\ Len(t) = Len(s) + 1 /\ t[Len(s) + 1] = i
        /\ \A k \in 1..Len(s) : t[k] = s[k]
    BY <1>1, <1>2, Encola
  <1>5. Len(s) \in Nat  BY <1>2 DEF EsSec
  <1>6. ASSUME NEW x PROVE (\E k \in 1..Len(t) : t[k].pid = x) <=> (\E k \in 1..Len(s) : s[k].pid = x) \/ x = p
    <2>1. 1..Len(t) = 1..Len(s) \union {Len(s) + 1}  BY <1>4, <1>5
    <2>2. QED  BY <1>4, <2>1
  <1>7. ASSUME NEW m \in Nombres, NEW x PROVE EnCola(m, x)' <=> EnCola(m, x) \/ (m = n /\ x = p)
    <2>1. CASE m = n  BY <1>1, <1>3, <1>6, <2>1 DEF EnCola
    <2>2. CASE m # n  BY <1>3, <2>2 DEF EnCola
    <2>3. QED  BY <2>1, <2>2
  <1>8. QED  BY <1>7

\* OPERACION_IO: no interface takes it, or one does and the process goes on waiting for it.
LEMMA AtenderIOMaq ==
    ASSUME InvComputa, InvComputa', AtenderIO PROVE Maq!Next \/ UNCHANGED Maq!vars
  <1>1. PICK p, r, ins, n : p = Recibido.pid /\ r = Recibido.registros /\ ins = programa[p][r["PC"]]
                            /\ n = ins.params[1]
    OBVIOUS
  <1>2. PICK c : c = CargaDe(Orden(p, r), p, r)  OBVIOUS
  <1>3. /\ Atender("OPERACION_IO", 3) /\ p \in Pids /\ EnOrden(p, r)
        /\ \/ ~Maq!Servible(ins) /\ Anotar(Recibido, "TERMINATED") /\ cola_io' = cola_io
           \/ /\ Maq!Servible(ins) /\ Anotar(Recibido, "BLOCKED") /\ n \in Nombres
              /\ cola_io' = [cola_io EXCEPT ![n] = Append(@, [pid |-> p, info |-> c])]
    BY <1>1, <1>2, AtiendeIO
  <1>4. PICK e : /\ Anotar(Recibido, e) /\ e \in {"TERMINATED", "BLOCKED"}
                 /\ e = "TERMINATED" => ~Maq!Servible(ins) /\ cola_io' = cola_io
                 /\ e = "BLOCKED" => /\ n \in Nombres
                                     /\ cola_io' = [cola_io EXCEPT ![n] = Append(@, [pid |-> p, info |-> c])]
    BY <1>3
  <1>5. e # "EXEC" /\ 3 = (IF "OPERACION_IO" = "OPERACION_IO" THEN 3 ELSE 2)  BY <1>4
  <1>6. /\ EnExec(p) /\ UNCHANGED <<programa, cpu, flags, servicio, obra>>
        /\ \A x \in Pids : Reg(x)' = Reg(x)
        /\ \A x, k : (Evictado(x, k) <=> x = p /\ k = "OPERACION_IO") /\ ~Evictado(x, k)'
        /\ \A x \in Pids : x # p => (Vive(x)' <=> Vive(x))
        /\ Vive(p)' <=> e # "TERMINATED" /\ ~(cpu.pid = p /\ "end_process" \in flags)
    <2>1. Notado(p, "OPERACION_IO", e)  BY <1>1, <1>3, <1>4, <1>5, AtiendeReg
    <2>2. QED  BY <2>1 DEF Notado
  <1>7. PideFiel /\ PideFiel'  BY PideFielEs, PideFielPrima
  <1>8. Pide(p)  BY <1>3, <1>6, <1>7 DEF PideFiel
  <1>9. \A m \in Nombres : ~EnCola(m, p) /\ ~Sirve(m, p)
    BY <1>3, <1>6, EnExecNoEspera DEF EnExec
  <1>10. CASE e = "TERMINATED"
    <2>1. \A x \in Pids : x # p => (Pide(x)' <=> Pide(x))
      BY <1>4, <1>6, <1>7, <1>10, ColasQuietas DEF PideFiel
    <2>2. ~Pide(p)'  BY <1>3, <1>4, <1>6, <1>7, <1>9, <1>10, ColasQuietas DEF PideFiel
    <2>3. Reg(p)["PC"] = r["PC"]
      <3>1. desalojo # <<>>  BY <1>3, <1>1, <1>4, <1>5, AnotaPcb
      <3>2. CASE cpu.pid # p  BY <1>1, <3>1, <3>2 DEF Reg, Fuera
      <3>3. CASE cpu.pid = p
        <4>1. ~Activa  BY <3>1 DEF InvComputa, InvEj, UnSitio
        <4>2. cpu.pid # Nadie  BY <1>3, <3>3, NadieAparte
        <4>3. Fuera(p).registros = registros_cpu  BY <3>3, <4>1, <4>2 DEF InvComputa, CopiaFiel, Activa
        <4>4. QED  BY <1>1, <3>1, <3>3, <4>3 DEF Reg, Fuera
      <3>4. QED  BY <3>2, <3>3
    <2>4. ~Maq!Servible(programa[p][Reg(p)["PC"]])  BY <1>1, <1>4, <1>10, <2>3
    <2>5. QED  BY <1>3, <1>6, <1>8, <1>10, <2>1, <2>2, <2>4, MaqRechazar
  <1>11. CASE e = "BLOCKED"
    <2>1. PICK i : i = [pid |-> p, info |-> c]  OBVIOUS
    <2>2. \A m \in Nombres : \A x : EnCola(m, x)' <=> EnCola(m, x) \/ (m = n /\ x = p)
      <3>1. n \in Nombres /\ i.pid = p /\ cola_io' = [cola_io EXCEPT ![n] = Append(@, i)]
        BY <1>4, <1>11, <2>1
      <3>2. QED  BY <3>1, UnoMas
    <2>3. \A m, x : Sirve(m, x)' <=> Sirve(m, x)  BY <1>6 DEF Sirve
    <2>4. n \in Nombres  BY <1>4, <1>11
    <2>5. \A x \in Pids : Pide(x)' <=> Pide(x)  BY <1>6, <1>7, <2>2, <2>3, <2>4 DEF PideFiel
    <2>6. Vive(p)' <=> Vive(p)  BY <1>3, <1>6, <1>7, <1>11 DEF PideFiel, EnExec
    <2>7. QED  BY <1>6, <2>5, <2>6, Quieta
  <1>12. QED  BY <1>4, <1>10, <1>11

\* The steps of the interfaces leave the registers where they are, and nobody ends.
SoloColas ==
    /\ MismosRegistros
    /\ UNCHANGED <<programa, desalojo, cpu, registros_cpu, flags>>
    /\ \A x \in Pids : pcb'[x].estado_actual = "TERMINATED" <=> pcb[x].estado_actual = "TERMINATED"

\* Then only the requests may have changed.
LEMMA SoloColasEs ==
    ASSUME InvComputa, InvComputa', SoloColas
    PROVE  /\ \A x \in Pids : Reg(x)' = Reg(x) /\ (Vive(x)' <=> Vive(x))
           /\ \A x, m : Evictado(x, m)' <=> Evictado(x, m)
  <1>1. \A x \in Pids : Reg(x)' = Reg(x)  BY RegQuieto DEF SoloColas
  <1>2. \A x \in Pids : Vive(x)' <=> Vive(x)  BY ViveQuieto DEF SoloColas
  <1>3. Recibido' = Recibido  BY DEF Recibido, SoloColas
  <1>4. \A x, m : Evictado(x, m)' <=> Evictado(x, m)  BY <1>3 DEF Evictado, SoloColas
  <1>5. QED  BY <1>1, <1>2, <1>4

\* The process that an interface serves waits for it and for nothing else.
LEMMA AQuienSirve ==
    ASSUME InvComputa, NEW n \in Nombres, servicio[n].fase # "libre", NEW p, p = servicio[n].pid
    PROVE  /\ p \in Pids /\ pcb[p].estado_actual = "BLOCKED" /\ Reg(p) = pcb[p].registros
           /\ \A k : ~Evictado(p, k)
           /\ \A m \in Nombres : ~EnCola(m, p) /\ (Sirve(m, p) <=> m = n /\ servicio[n].fase = "enviado")
  <1>1. IOFiel  BY DEF InvComputa, InvEj
  <1>2. EnServicio(n, p) /\ p \in Pids  BY <1>1 DEF IOFiel, EnServicio
  <1>3. Espera(n, p) /\ pcb[p].estado_actual = "BLOCKED"  BY <1>1, <1>2 DEF IOFiel, Espera
  <1>4. Reg(p) = pcb[p].registros /\ \A k : ~Evictado(p, k)  BY <1>2, <1>3, EnElKernel
  <1>5. ASSUME NEW m \in Nombres
        PROVE  ~EnCola(m, p) /\ (Sirve(m, p) <=> m = n /\ servicio[n].fase = "enviado")
    <2>1. CASE m = n  BY <1>1, <1>2, <2>1 DEF IOFiel, EnCola, Sirve, EnServicio
    <2>2. CASE m # n
      <3>1. ~Espera(m, p)  BY <1>1, <1>2, <1>3, <2>2 DEF IOFiel
      <3>2. QED  BY <2>2, <3>1 DEF Espera, EnServicio, EnCola, Sirve
    <2>3. QED  BY <2>1, <2>2
  <1>6. QED  BY <1>2, <1>3, <1>4, <1>5

\* atender_interfaz takes from the queue what it gives the interface.
LEMMA EjecutarIOMaq ==
    ASSUME InvComputa, InvComputa', NEW n \in Nombres, EjecutarIO(n) PROVE UNCHANGED Maq!vars
  <1>1. PICK c, z, v : /\ c = cola_io[n] /\ z = Head(c)
                       /\ v = [pid |-> z.pid, fase |-> "enviado", buffer |-> Entero(z.pid) \o z.info]
    OBVIOUS
  <1>2. /\ c # <<>> /\ servicio' = [servicio EXCEPT ![n] = v] /\ cola_io' = [cola_io EXCEPT ![n] = Tail(c)]
        /\ servicio[n] = Ocioso
        /\ UNCHANGED <<programa, pcb, desalojo, cpu, registros_cpu, flags, obra>>
    BY <1>1 DEF EjecutarIO, kernelVars
  <1>3. EsSec(c)  BY <1>1 DEF InvComputa, InvEj, IOFiel
  <1>4. PICK d, k : d = Tail(c) /\ k = Len(c)  OBVIOUS
  <1>5. k \in Nat \ {0} /\ Len(d) = k - 1 /\ z = c[1] /\ \A i \in 1..k - 1 : d[i] = c[i + 1]
    BY <1>1, <1>2, <1>3, <1>4, Saca
  <1>6. /\ cola_io'[n] = d /\ \A m \in Nombres : m # n => cola_io'[m] = cola_io[m]
        /\ servicio'[n] = v /\ \A m \in Nombres : m # n => servicio'[m] = servicio[m]
    BY <1>2, <1>4 DEF InvComputa, InvEj, IOFiel
  <1>7. v.pid = z.pid /\ v.fase = "enviado"  BY <1>1
  <1>8. ASSUME NEW x
        PROVE  (\E i \in 1..k : c[i].pid = x) <=> (\E i \in 1..k - 1 : d[i].pid = x) \/ x = z.pid
    <2>1. \A i \in 1..k : i = 1 \/ (i - 1 \in 1..k - 1 /\ i - 1 + 1 = i)  BY <1>5
    <2>2. 1 \in 1..k /\ \A i \in 1..k - 1 : i + 1 \in 1..k  BY <1>5
    <2>3. \A i \in 1..k : i = 1 \/ d[i - 1] = c[i]
      <3>1. TAKE i \in 1..k
      <3>2. CASE i = 1  BY <3>2
      <3>3. CASE i # 1
        <4>1. PICK j : j = i - 1  OBVIOUS
        <4>2. j \in 1..k - 1 /\ j + 1 = i  BY <2>1, <3>3, <4>1
        <4>3. QED  BY <1>5, <4>1, <4>2
      <3>4. QED  BY <3>2, <3>3
    <2>4. QED  BY <1>5, <2>1, <2>2, <2>3
  <1>9. ASSUME NEW m \in Nombres, NEW x
        PROVE  EnCola(m, x)' \/ Sirve(m, x)' <=> EnCola(m, x) \/ Sirve(m, x)
    <2>1. CASE m = n
      <3>1. EnCola(m, x) <=> (\E i \in 1..k : c[i].pid = x)  BY <1>1, <1>4, <2>1 DEF EnCola
      <3>2. EnCola(m, x)' <=> (\E i \in 1..k - 1 : d[i].pid = x)  BY <1>5, <1>6, <2>1 DEF EnCola
      <3>3. Sirve(m, x)' <=> x = z.pid  BY <1>6, <1>7, <2>1 DEF Sirve
      <3>4. ~Sirve(m, x)  BY <1>2, <2>1 DEF Sirve, Ocioso
      <3>5. QED  BY <1>8, <3>1, <3>2, <3>3, <3>4
    <2>2. CASE m # n  BY <1>6, <2>2 DEF EnCola, Sirve
    <2>3. QED  BY <2>1, <2>2
  <1>10. SoloColas  BY <1>2 DEF SoloColas, MismosRegistros
  <1>11. /\ \A x \in Pids : Reg(x)' = Reg(x) /\ (Vive(x)' <=> Vive(x))
         /\ \A x, m : Evictado(x, m)' <=> Evictado(x, m)
    BY <1>10, SoloColasEs
  <1>12. PideFiel /\ PideFiel'  BY PideFielEs, PideFielPrima
  <1>13. \A x \in Pids : Pide(x)' <=> Pide(x)  BY <1>9, <1>11, <1>12 DEF PideFiel
  <1>14. QED  BY <1>2, <1>11, <1>13, Quieta

\* The answer of the interface puts in READY a process that waited no more.
LEMMA TerminarIOMaq ==
    ASSUME InvComputa, InvComputa', NEW n \in Nombres, TerminarIO(n) PROVE UNCHANGED Maq!vars
  <1>1. PICK p : p = servicio[n].pid  OBVIOUS
  <1>2. /\ p \in Pids /\ pcb[p].estado_actual = "BLOCKED" /\ MismosRegistros
        /\ pcb'[p].estado_actual = "READY" /\ \A x \in Pids : x # p => pcb'[x] = pcb[x]
    BY <1>1, TerminaPcb DEF InvComputa
  <1>3. /\ servicio[n].fase = "hecho" /\ servicio' = [servicio EXCEPT ![n] = Ocioso]
        /\ UNCHANGED <<programa, desalojo, cpu, registros_cpu, flags, cola_io, obra>>
    BY DEF TerminarIO
  <1>4. servicio'[n] = Ocioso /\ \A m \in Nombres : m # n => servicio'[m] = servicio[m]
    BY <1>3 DEF InvComputa, InvEj, IOFiel
  <1>5. SoloColas  BY <1>2, <1>3 DEF SoloColas
  <1>6. /\ \A x \in Pids : Reg(x)' = Reg(x) /\ (Vive(x)' <=> Vive(x))
        /\ \A x, m : Evictado(x, m)' <=> Evictado(x, m)
    BY <1>5, SoloColasEs
  <1>7. ASSUME NEW m \in Nombres, NEW x PROVE (EnCola(m, x)' <=> EnCola(m, x)) /\ (Sirve(m, x)' <=> Sirve(m, x))
    <2>1. EnCola(m, x)' <=> EnCola(m, x)  BY <1>3 DEF EnCola
    <2>2. CASE m = n
      <3>1. ~Sirve(m, x) /\ ~Sirve(m, x)'  BY <1>3, <1>4, <2>2 DEF Sirve, Ocioso
      <3>2. QED  BY <2>1, <3>1
    <2>3. CASE m # n
      <3>1. Sirve(m, x)' <=> Sirve(m, x)  BY <1>4, <2>3 DEF Sirve
      <3>2. QED  BY <2>1, <3>1
    <2>4. QED  BY <2>2, <2>3
  <1>8. PideFiel /\ PideFiel'  BY PideFielEs, PideFielPrima
  <1>9. \A x \in Pids : Pide(x)' <=> Pide(x)  BY <1>6, <1>7, <1>8 DEF PideFiel
  <1>10. QED  BY <1>3, <1>6, <1>9, Quieta

\* atender_cliente does for the process what its instruction says.
LEMMA InterfazMaq ==
    ASSUME InvComputa, InvComputa', NEW n \in Nombres, Interfaz(n) PROVE Maq!Next
  <1>1. PICK p, b, r, ins : p = servicio[n].pid /\ b = servicio[n].buffer /\ r = pcb[p].registros
                            /\ ins = programa[p][r["PC"]]
    OBVIOUS
  <1>2. /\ servicio[n].fase = "enviado"
        /\ obra' = [obra EXCEPT ![Numero(b, 1)] = Leida(Conexiones[n], b)]
        /\ UNCHANGED <<programa, pcb, desalojo, cpu, registros_cpu, flags, cola_io>>
    BY <1>1 DEF Interfaz, kernelVars
  <1>3. servicio[n].fase # "libre"  BY <1>2
  <1>4. /\ p \in Pids /\ Reg(p) = r /\ \A k : ~Evictado(p, k)
        /\ \A m \in Nombres : ~EnCola(m, p) /\ (Sirve(m, p) <=> m = n /\ servicio[n].fase = "enviado")
    BY <1>1, <1>3, AQuienSirve
  <1>5. PICK v : v = [pid |-> p, fase |-> "hecho", buffer |-> <<>>]  OBVIOUS
  <1>6. servicio' = [servicio EXCEPT ![n] = v]  BY <1>1, <1>5, InterfazCambia DEF InvComputa
  <1>7. servicio'[n] = v /\ \A m \in Nombres : m # n => servicio'[m] = servicio[m]
    BY <1>6 DEF InvComputa, InvEj, IOFiel
  <1>8. SoloColas  BY <1>2 DEF SoloColas, MismosRegistros
  <1>9. /\ \A x \in Pids : Reg(x)' = Reg(x) /\ (Vive(x)' <=> Vive(x))
        /\ \A x, m : Evictado(x, m)' <=> Evictado(x, m)
    BY <1>8, SoloColasEs
  <1>10. ASSUME NEW m \in Nombres, NEW x
         PROVE  /\ EnCola(m, x)' <=> EnCola(m, x)
                /\ x # p => (Sirve(m, x)' <=> Sirve(m, x))
                /\ ~Sirve(m, p)'
    <2>1. EnCola(m, x)' <=> EnCola(m, x)  BY <1>2 DEF EnCola
    <2>2. CASE m = n
      <3>1. ~Sirve(m, x)' /\ ~Sirve(m, p)'  BY <1>5, <1>7, <2>2 DEF Sirve
      <3>2. x # p => ~Sirve(m, x)  BY <1>1, <2>2 DEF Sirve
      <3>3. QED  BY <2>1, <3>1, <3>2
    <2>3. CASE m # n
      <3>1. (Sirve(m, x)' <=> Sirve(m, x)) /\ (Sirve(m, p)' <=> Sirve(m, p))  BY <1>7, <2>3 DEF Sirve
      <3>2. ~Sirve(m, p)  BY <1>4, <2>3
      <3>3. QED  BY <2>1, <3>1, <3>2
    <2>4. QED  BY <2>2, <2>3
  <1>11. PideFiel /\ PideFiel'  BY PideFielEs, PideFielPrima
  <1>12. Pide(p)  BY <1>2, <1>4, <1>11 DEF PideFiel
  <1>13. ~Pide(p)'  BY <1>4, <1>9, <1>10, <1>11 DEF PideFiel
  <1>14. \A x \in Pids : x # p => (Pide(x)' <=> Pide(x))  BY <1>9, <1>10, <1>11 DEF PideFiel
  <1>15. Encargado(n, p) /\ b = Entero(p) \o CargaPedida(p)  BY <1>1, <1>2 DEF InvComputa, ColasFieles
  <1>16. r["PC"] \in 1..Len(programa[p]) /\ ins.op \in Datos /\ ins.params[1] = n
         /\ ins.op \in Maq!Oficio(Conexiones[n])
    BY <1>1, <1>15 DEF Encargado, EnOrden
  <1>17. Maq!Servible(ins)  BY <1>16 DEF Maq!Servible, Nombres
  <1>18. PICK d, c : d = Orden(p, r) /\ c = CargaDe(d, p, r)  OBVIOUS
  <1>19. b = Entero(p) \o c  BY <1>1, <1>15, <1>18 DEF CargaPedida
  <1>20. programa \in Cargas /\ RegsOk(r)  BY <1>1, <1>4 DEF InvComputa, RegistrosFieles
  <1>21. EsEnviada(d, ins)
    <2>1. PICK k : k = r["PC"]  OBVIOUS
    <2>2. k \in 1..Len(programa[p]) /\ ins = programa[p][k]  BY <1>1, <1>16, <2>1
    <2>3. d = Enviada[programa[p][k]]  BY <1>18, <2>1 DEF Orden
    <2>4. EsEnviada(Enviada[programa[p][k]], programa[p][k])  BY <1>4, <1>20, <2>2, Traido
    <2>5. QED  BY <2>2, <2>3, <2>4
  <1>22. d.op = ins.op  BY <1>21 DEF EsEnviada
  <1>23. Conexiones[n] \in Tipos  BY ConexionesOK DEF Tipos
  <1>24. /\ Contada(c, TamDe(d, p, r))
         /\ Leida(Conexiones[n], Entero(p) \o c) = Maq!Encargo(p, ins, r)
    BY <1>4, <1>16, <1>18, <1>20, <1>21, <1>22, <1>23, CargaEs
  <1>25. Numero(b, 1) = p
    <2>1. EsSec(c)  BY <1>24 DEF Contada, ConTamanios
    <2>2. PICK e : e = Entero(p)  OBVIOUS
    <2>3. EsSec(e) /\ Len(e) = 1 /\ e[1].valor = p /\ e[1].tam = 4  BY <2>2, UnDato DEF Entero
    <2>4. Pegado(b, e, c)  BY <1>19, <2>1, <2>2, <2>3, JuntaEs
    <2>5. Len(c) \in Nat  BY <2>1 DEF EsSec
    <2>6. b[1] = e[1] /\ 1 <= Len(b)  BY <2>3, <2>4, <2>5 DEF Pegado
    <2>7. QED  BY <2>3, <2>6 DEF Numero, Campo
  <1>26. obra' = [obra EXCEPT ![p] = Maq!Encargo(p, ins, Reg(p))]  BY <1>2, <1>4, <1>19, <1>24, <1>25
  <1>27. ins = programa[p][Reg(p)["PC"]]  BY <1>1, <1>4
  <1>28. QED  BY <1>2, <1>4, <1>9, <1>12, <1>13, <1>14, <1>17, <1>26, <1>27, MaqServir

\* Every step is one of Maquina, or one that it does not see.
LEMMA NextMaq == ASSUME InvComputa, InvComputa', [Next]_vars PROVE [Maq!Next]_(Maq!vars)
  <1>1. CASE Despachar  BY <1>1, DespacharMaq
  <1>2. CASE Cpu  BY <1>2, RecibirPcbMaq, CicloMaq, DejarCpuMaq DEF Cpu
  <1>3. CASE Kernel  BY <1>3, AtenderFinMaq, AtenderIOMaq DEF Kernel
  <1>4. CASE IO  BY <1>4, EjecutarIOMaq, InterfazMaq, TerminarIOMaq DEF IO
  <1>5. CASE EnviarInterrupcion \/ RecibirInterrupcion
    BY <1>5, InterrupcionMaq DEF EnviarInterrupcion, RecibirInterrupcion, kernelVars, ioVars
  <1>6. CASE UNCHANGED vars  BY <1>6, InterrupcionMaq DEF vars, kernelVars, ioVars
  <1>7. QED  BY <1>1, <1>2, <1>3, <1>4, <1>5, <1>6 DEF Next, Sistema

\* The initial states are those of Maquina.
LEMMA InitMaq == ASSUME Init PROVE Maq!Init
  <1>1. InvComputa  BY InitComputa
  <1>2. desalojo = <<>> /\ cpu.pid = Nadie /\ flags = {} /\ programa \in Cargas
        /\ obra = [p \in Pids |-> [op |-> "NADA"]]
    BY DEF Init, Vacio
  <1>3. \A p \in Pids : pcb[p].registros = Registros0 /\ pcb[p].estado_actual = "READY"
    BY DEF Init, Vacio
  <1>4. \A p \in Pids : cpu.pid # p  BY <1>2, NadieAparte
  <1>5. \A p \in Pids : Reg(p) = Registros0  BY <1>2, <1>3, <1>4 DEF Reg, Fuera
  <1>6. PideFiel  BY <1>1, PideFielEs
  <1>7. \A p \in Pids : pcb[p].estado_actual # "BLOCKED"  BY <1>3
  <1>8. \A p \in Pids : ~Pide(p) /\ Vive(p)
    <2>1. \A p, m : ~Evictado(p, m)  BY <1>2 DEF Evictado
    <2>2. \A p \in Pids, n \in Nombres : ~EnCola(n, p) /\ ~Sirve(n, p)  BY <1>1, <1>7, EnExecNoEspera
    <2>3. QED  BY <1>3, <1>4, <1>6, <2>1, <2>2 DEF PideFiel
  <1>9. RegAbs = [p \in Pids |-> [r \in Registros |-> 0]]
    <2>1. RegAbs = [p \in Pids |-> Reg(p)]  BY <1>1, RegEs
    <2>2. QED  BY <1>5, <2>1 DEF Registros0
  <1>10. PideAbs = {} /\ ViveAbs = Pids  BY <1>8 DEF PideAbs, ViveAbs
  <1>11. Maq!Registros = Registros
    BY DEF Maq!Registros, Maq!Cortos, Maq!Largos, Registros, Cortos, Largos
  <1>12. QED  BY <1>2, <1>9, <1>10, <1>11 DEF Maq!Init, RegAbs, PideAbs, ViveAbs

\* ComputaSola: whatever the interruptions and the order of the evictions, each process
\* computes as in Maquina and the interfaces do what its instructions say
\* (comenzar_proceso, recibir_dispatch, atender_interfaz, atender_cliente).
THEOREM ComputaSiempre == Spec => ComputaSola
  <1>1. InvComputa /\ InvComputa' /\ [Next]_vars => [Maq!Next]_(Maq!vars)  BY NextMaq
  <1>2. InvComputa /\ [Next]_vars => InvComputa'  BY NextComputa
  <1>3. Init => InvComputa  BY InitComputa
  <1>4. Init => Maq!Init  BY InitMaq
  <1>5. QED  BY <1>1, <1>2, <1>3, <1>4, PTL DEF Spec, ComputaSola, Maq!Spec
=============================================================================
