------------------------------ MODULE UsoProofs -----------------------------
(***************************************************************************)
(* UsoExclusivo of Recursos, without quanta: the processes never have,     *)
(* between them, more instances of a resource than there are, for the      *)
(* resources that one thread gives back, and a process that waits for one  *)
(* is nowhere else.                                                        *)
(*                                                                         *)
(* Neither is inductive.  A waiter is nowhere else because every process   *)
(* is in one place (UnSitio), which the CPU decides before the kernel      *)
(* does: it goes on with the process until it reads RESOURCE_BLOCKED       *)
(* (Ocupada), it lets go of it for an I/O or a resource (SinQuantum), and  *)
(* once it has ended a process it asks nothing else of it (TerminaYa).     *)
(* Then estado_actual says who waits and who has ended (Estados).  That    *)
(* the instances suffice is the balance of RecursosProofs, if the counter  *)
(* and those who wait make no less than zero (Repartos): so long as only   *)
(* one thread gives back, nobody takes out a waiter for an instance that   *)
(* another one has been given.                                             *)
(***************************************************************************)
EXTENDS RecursosProofs

-----------------------------------------------------------------------------
(* Where a process is *)

\* No element of A is twice in a list.
Simple(s, A) == \A i, j \in 1 .. Len(s) : s[i] \in A /\ s[i] = s[j] => i = j

\* What a list has after a push.
LEMMA ContieneMas ==
    ASSUME NEW S, NEW s \in Seq(S), NEW e
    PROVE  /\ \A x : Contains(Append(s, e), x) <=> Contains(s, x) \/ x = e
           /\ \A A : Simple(s, A) /\ (e \in A => ~Contains(s, e)) => Simple(Append(s, e), A)
  <1>1. PICK n \in Nat : n = Len(s)  OBVIOUS
  <1>2. PICK t : t = Append(s, e)  OBVIOUS
  <1>3. Len(t) = n + 1 /\ t[n + 1] = e /\ \A i \in 1 .. n : t[i] = s[i]  BY <1>1, <1>2
  <1>4. \A i : i \in 1 .. n + 1 <=> i \in 1 .. n \/ i = n + 1  BY <1>1
  <1>5. \A x : Contains(t, x) <=> Contains(s, x) \/ x = e  BY <1>1, <1>3, <1>4 DEF Contains
  <1>6. ASSUME NEW A, Simple(s, A), e \in A => ~Contains(s, e) PROVE Simple(t, A)
    <2>1. SUFFICES ASSUME NEW i \in 1 .. n + 1, NEW j \in 1 .. n + 1, t[i] \in A, t[i] = t[j] PROVE i = j
      BY <1>3 DEF Simple
    <2>2. CASE i \in 1 .. n /\ j \in 1 .. n  BY <1>1, <1>3, <1>6, <2>1, <2>2 DEF Simple
    <2>3. CASE i \in 1 .. n /\ j = n + 1  BY <1>1, <1>3, <1>6, <2>1, <2>3 DEF Contains
    <2>4. CASE i = n + 1 /\ j \in 1 .. n  BY <1>1, <1>3, <1>6, <2>1, <2>4 DEF Contains
    <2>5. QED  BY <1>4, <2>2, <2>3, <2>4
  <1>7. QED  BY <1>2, <1>5, <1>6

\* What a list has after a pop.
LEMMA ContieneCola ==
    ASSUME NEW S, NEW s \in Seq(S), s # <<>>
    PROVE  /\ Contains(s, Head(s)) /\ \A x : Contains(Tail(s), x) => Contains(s, x)
           /\ \A A : Simple(s, A) => Simple(Tail(s), A) /\ (Head(s) \in A => ~Contains(Tail(s), Head(s)))
  <1>1. PICK n \in Nat : n = Len(s) /\ n >= 1  OBVIOUS
  <1>2. PICK t : t = Tail(s)  OBVIOUS
  <1>3. Len(t) = n - 1 /\ \A i \in 1 .. n - 1 : t[i] = s[i + 1]  BY <1>1, <1>2
  <1>4. Head(s) = s[1] /\ 1 \in 1 .. n  BY <1>1
  <1>5. \A i \in 1 .. n - 1 : i + 1 \in 1 .. n /\ i + 1 # 1  BY <1>1
  <1>6. Contains(s, Head(s)) /\ \A x : Contains(t, x) => Contains(s, x)
    BY <1>1, <1>3, <1>4, <1>5 DEF Contains
  <1>7. ASSUME NEW A, Simple(s, A) PROVE Simple(t, A) /\ (Head(s) \in A => ~Contains(t, Head(s)))
    <2>1. ASSUME NEW i \in 1 .. n - 1, NEW j \in 1 .. n - 1, t[i] \in A, t[i] = t[j] PROVE i = j
      <3>1. i + 1 = j + 1  BY <1>1, <1>3, <1>5, <1>7, <2>1 DEF Simple
      <3>2. QED  BY <3>1
    <2>2. Simple(t, A)  BY <1>3, <2>1 DEF Simple
    <2>3. ASSUME Head(s) \in A, NEW i \in 1 .. n - 1, t[i] = Head(s) PROVE FALSE
      BY <1>1, <1>3, <1>4, <1>5, <1>7, <2>3 DEF Simple
    <2>4. QED  BY <1>3, <2>2, <2>3 DEF Contains
  <1>8. QED  BY <1>2, <1>6, <1>7

\* Some step of a list is one of O.
Con(s, O) == \E k \in 1 .. Len(s) : s[k].op \in O

\* The steps after the first one, or after another.
LEMMA ConCola ==
    ASSUME NEW s \in Seq(UnPaso), s # <<>>, NEW O
    PROVE  (Con(Tail(s), O) => Con(s, O)) /\ (Head(s).op \in O => Con(s, O))
  <1>1. PICK n \in Nat : n = Len(s) /\ n >= 1  OBVIOUS
  <1>2. Len(Tail(s)) = n - 1 /\ \A i \in 1 .. n - 1 : Tail(s)[i] = s[i + 1]  BY <1>1
  <1>3. Head(s) = s[1] /\ 1 \in 1 .. n /\ \A i \in 1 .. n - 1 : i + 1 \in 1 .. n  BY <1>1
  <1>4. QED  BY <1>1, <1>2, <1>3 DEF Con

\* The PCB of an I/O, on its way to the kernel.
PedidoIO(p) == [motivo |-> "OPERACION_IO", pid |-> p, recurso |-> Nadie]
PedidosIO == {PedidoIO(p) : p \in Pids}

\* recibir_dispatch is about to put its process in the queue of a resource or of an interface.
OpsEncolar == {"encolar", "encolar_io"}
PorEncolar(p) == Despachador.pid = p /\ Con(Despachador.pasos, OpsEncolar)

\* The CPU executes p, and goes on with it or waits to know whether it does.
Ocupada(p) ==
    /\ cpu.en # "libre" /\ cpu.pid = p /\ "input_ouput" \notin flags /\ "bloqueado_por_resource" \notin flags
    /\ \A k \in 1 .. Len(a_cpu) : a_cpu[k].tipo # "RESOURCE_BLOCKED"

\* p is in the place x: z says in the queue of which resource, or in the hands of which thread.
Esta(x, z, p) ==
    \/ x = "ready" /\ z = Nadie /\ Contains(ready, p)
    \/ x = "io" /\ z = Nadie /\ Contains(cola_io, p)
    \/ x = "socket" /\ z = Nadie /\ Contains(a_cpu, Pcb(p))
    \/ x = "mensaje" /\ z = Nadie /\ Contains(a_kernel, PedidoIO(p))
    \/ x = "cpu" /\ z = Nadie /\ Ocupada(p)
    \/ x = "encolar" /\ z = Nadie /\ PorEncolar(p)
    \/ x = "recurso" /\ z \in Recursos /\ Contains(cola_recurso[z], p)
    \/ x = "mano" /\ z \in Hilos /\ hilo[z].despierta = p

\* A process is in one place, and once.
UnSitio == \A p \in Pids : \A x, z, y, w : Esta(x, z, p) /\ Esta(y, w, p) => x = y /\ z = w
Simples ==
    /\ Simple(ready, Pids) /\ Simple(cola_io, Pids) /\ Simple(a_cpu, TPcb) /\ Simple(a_kernel, PedidosIO)
    /\ \A r \in Recursos : Simple(cola_recurso[r], Pids)

\* A process that has ended is, if anywhere, in the CPU, which is about to say so.
Acabados == \A p \in Terminados : \A x, z : Esta(x, z, p) => x = "cpu"

\* A process moves from a place to another.
Muda(q, b, d, a, c) ==
    /\ q \in Pids /\ Esta(b, d, q) /\ ~Esta(b, d, q)'
    /\ \A p \in Pids : \A x, z : Esta(x, z, p)' => Esta(x, z, p) \/ (p = q /\ x = a /\ z = c)
\* None does, although some may leave.
Quedan == \A p \in Pids : \A x, z : Esta(x, z, p)' => Esta(x, z, p)

\* A move leaves each process in one place.
LEMMA MudaSitio ==
    ASSUME UnSitio, NEW q, NEW b, NEW d, NEW a, NEW c, Muda(q, b, d, a, c) PROVE UnSitio'
  <1>1. SUFFICES ASSUME NEW p \in Pids, NEW x, NEW z, NEW y, NEW w, Esta(x, z, p)', Esta(y, w, p)'
                 PROVE  x = y /\ z = w
    BY DEF UnSitio
  <1>2. ASSUME NEW u, NEW v, Esta(u, v, p)' PROVE Esta(u, v, p) \/ (p = q /\ u = a /\ v = c)
    BY <1>2 DEF Muda
  <1>3. CASE p # q  BY <1>1, <1>2, <1>3 DEF UnSitio
  <1>4. CASE p = q
    <2>1. ASSUME NEW u, NEW v, Esta(u, v, p)' PROVE u = a /\ v = c
      <3>1. CASE Esta(u, v, p)
        <4>1. u = b /\ v = d  BY <1>4, <3>1 DEF UnSitio, Muda
        <4>2. QED  BY <1>4, <2>1, <4>1 DEF Muda
      <3>2. QED  BY <1>2, <2>1, <3>1
    <2>2. QED  BY <1>1, <2>1
  <1>5. QED  BY <1>3, <1>4

\* A process in a place is in no other.
LEMMA NoOtro ==
    ASSUME UnSitio, NEW q \in Pids, NEW b, NEW d, Esta(b, d, q), NEW x, NEW z, x # b \/ z # d
    PROVE  ~Esta(x, z, q)
  BY DEF UnSitio

\* The processes that have ended stay out of every place when one of the others moves.
LEMMA MudaAcabados ==
    ASSUME Acabados, Terminados' = Terminados, NEW q, NEW b, NEW d, NEW a, NEW c, Muda(q, b, d, a, c),
           q \notin Terminados
    PROVE  Acabados'
  <1>1. Terminados \subseteq Pids  BY DEF Terminados
  <1>2. QED  BY <1>1 DEF Acabados, Muda

\* When nobody moves, everybody is in one place.
LEMMA QuedanSitio ==
    ASSUME UnSitio, Quedan
    PROVE  UnSitio' /\ (Acabados /\ Terminados' = Terminados => Acabados')
  <1>1. UnSitio'  BY DEF UnSitio, Quedan
  <1>2. Terminados \subseteq Pids  BY DEF Terminados
  <1>3. QED  BY <1>1, <1>2 DEF Acabados, Quedan

\* Who is in a place other than the CPU has not ended.
LEMMA NoAcabado ==
    ASSUME Acabados, NEW q \in Pids, NEW b, NEW d, Esta(b, d, q), b # "cpu" PROVE q \notin Terminados
  BY DEF Acabados

-----------------------------------------------------------------------------
(* What the lists of steps have *)

\* Lists of no step, of one, two and three, and one list after another.
LEMMA ConPocos ==
    ASSUME NEW O
    PROVE  /\ ~Con(<<>>, O)
           /\ \A a \in UnPaso : Con(<<a>>, O) <=> a.op \in O
           /\ \A a, b \in UnPaso : Con(<<a, b>>, O) <=> a.op \in O \/ b.op \in O
           /\ \A a, b, c \in UnPaso : Con(<<a, b, c>>, O) <=> a.op \in O \/ b.op \in O \/ c.op \in O
  <1>1. ~Con(<<>>, O)  BY DEF Con
  <1>2. \A a \in UnPaso : Con(<<a>>, O) <=> a.op \in O  BY DEF Con
  <1>3. \A a, b \in UnPaso : Con(<<a, b>>, O) <=> a.op \in O \/ b.op \in O
    <2>1. SUFFICES ASSUME NEW a \in UnPaso, NEW b \in UnPaso
                   PROVE  Con(<<a, b>>, O) <=> a.op \in O \/ b.op \in O
      OBVIOUS
    <2>2. Len(<<a, b>>) = 2 /\ <<a, b>>[1] = a /\ <<a, b>>[2] = b /\ 1 .. 2 = {1, 2}  OBVIOUS
    <2>3. QED  BY <2>2 DEF Con
  <1>4. \A a, b, c \in UnPaso : Con(<<a, b, c>>, O) <=> a.op \in O \/ b.op \in O \/ c.op \in O
    <2>1. SUFFICES ASSUME NEW a \in UnPaso, NEW b \in UnPaso, NEW c \in UnPaso
                   PROVE  Con(<<a, b, c>>, O) <=> a.op \in O \/ b.op \in O \/ c.op \in O
      OBVIOUS
    <2>2. Len(<<a, b, c>>) = 3 /\ <<a, b, c>>[1] = a /\ <<a, b, c>>[2] = b /\ <<a, b, c>>[3] = c /\ 1 .. 3 = {1, 2, 3}
      OBVIOUS
    <2>3. QED  BY <2>2 DEF Con
  <1>5. QED  BY <1>1, <1>2, <1>3, <1>4

\* A step of a list put together is in one of its parts.
LEMMA ConJunto ==
    ASSUME NEW s \in Seq(UnPaso), NEW t \in Seq(UnPaso), NEW O
    PROVE  Con(s \o t, O) <=> Con(s, O) \/ Con(t, O)
  <1>1. PICK m \in Nat, n \in Nat : m = Len(s) /\ n = Len(t)  OBVIOUS
  <1>2. /\ Len(s \o t) = m + n /\ \A k \in 1 .. m : (s \o t)[k] = s[k]
        /\ \A k \in m + 1 .. m + n : (s \o t)[k] = t[k - m]
    BY <1>1
  <1>3. ASSUME NEW k \in 1 .. m + n, (s \o t)[k].op \in O PROVE Con(s, O) \/ Con(t, O)
    <2>1. CASE k \in 1 .. m  BY <1>1, <1>2, <1>3, <2>1 DEF Con
    <2>2. CASE k \in m + 1 .. m + n
      <3>1. k - m \in 1 .. n  BY <2>2
      <3>2. QED  BY <1>1, <1>2, <1>3, <2>2, <3>1 DEF Con
    <2>3. QED  BY <2>1, <2>2
  <1>4. ASSUME NEW k \in 1 .. m, s[k].op \in O PROVE (s \o t)[k].op \in O /\ k \in 1 .. m + n  BY <1>2, <1>4
  <1>5. ASSUME NEW k \in 1 .. n, t[k].op \in O PROVE (s \o t)[k + m].op \in O /\ k + m \in 1 .. m + n
    <2>1. k + m \in m + 1 .. m + n /\ (k + m) - m = k  OBVIOUS
    <2>2. QED  BY <1>2, <1>5, <2>1
  <1>6. QED  BY <1>1, <1>2, <1>3, <1>4, <1>5 DEF Con

\* The steps of one kind are of no other.
LEMMA ConOtros ==
    ASSUME NEW A, NEW s \in Seq(PasosCon(A)), NEW O, A \cap O = {} PROVE ~Con(s, O)
  <1>1. \A k \in 1 .. Len(s) : s[k] \in PasosCon(A)  OBVIOUS
  <1>2. QED  BY <1>1 DEF Con, PasosCon

\* What is left in the middle of SIGNAL, or of the release, is what sumar_instancia_a_recurso
\* leaves and what comes after it.
LEMMA ConSumando ==
    ASSUME NEW r \in Recursos, NEW v \in Seq(UnPaso), NEW s, Sumando(s, v, r), NEW O, OpsSuma \cap O = {}
    PROVE  Con(s, O) <=> Con(v, O)
  <1>1. PICK w \in Sumas(r) : s = w \o v  BY DEF Sumando
  <1>2. w \in Seq(PasosCon(OpsSuma))  BY SumasTipo
  <1>3. w \in Seq(UnPaso)
    <2>1. PasosCon(OpsSuma) \subseteq UnPaso  BY DEF PasosCon
    <2>2. QED  BY <1>2, <2>1, SeqMayor
  <1>4. ~Con(w, O)  BY <1>2, ConOtros
  <1>5. QED  BY <1>1, <1>3, <1>4, ConJunto

\* What recibir_dispatch has left after it queues a process, blocks it or ends it.
Restos(s) ==
    /\ Head(s).op \in OpsEncolar => ~Con(Tail(s), OpsEncolar)
    /\ Head(s).op = "encolar" => Con(Tail(s), {"bloquear"})
    /\ Head(s).op \in {"bloquear", "finalizar"} => ~Con(Tail(s), {"bloquear"})

\* What recibir_dispatch has left after each step of one of its lists.
LEMMA RestosDispatch == ASSUME NEW s, FormaDispatch(s), s # <<>> PROVE Restos(s)
  <1>1. ASSUME NEW r \in Recursos, s \in PasosWait(r) PROVE Restos(s)
    <2>1. PICK a \in UnPaso, b \in UnPaso, c \in UnPaso, d \in UnPaso, e \in UnPaso :
             /\ a = Paso("restar", r) /\ b = Paso("leer", r) /\ c = Paso("encolar", r)
             /\ d = Paso("bloquear", r) /\ e = Paso("liberar_cpu", r)
             /\ a.op = "restar" /\ b.op = "leer" /\ c.op = "encolar" /\ d.op = "bloquear" /\ e.op = "liberar_cpu"
      BY PasoTipo DEF Pasos
    <2>2. s \in {<<a, b>>, <<b>>, <<c, d, e>>, <<d, e>>, <<e>>}  BY <1>1, <2>1 DEF PasosWait
    <2>3. CASE s = <<a, b>> \/ s = <<b>> \/ s = <<e>>
      <3>1. Head(s).op \in {"restar", "leer", "liberar_cpu"}  BY <2>1, <2>3
      <3>2. QED  BY <3>1 DEF Restos, OpsEncolar
    <2>4. CASE s = <<c, d, e>>
      <3>1. Head(s) = c /\ Tail(s) = <<d, e>>  BY <2>4
      <3>2. ASSUME NEW O PROVE Con(<<d, e>>, O) <=> d.op \in O \/ e.op \in O  BY ConPocos
      <3>3. QED  BY <2>1, <3>1, <3>2 DEF Restos, OpsEncolar
    <2>5. CASE s = <<d, e>>
      <3>1. Head(s) = d /\ Tail(s) = <<e>>  BY <2>5
      <3>2. ASSUME NEW O PROVE Con(<<e>>, O) <=> e.op \in O  BY ConPocos
      <3>3. QED  BY <2>1, <3>1, <3>2 DEF Restos, OpsEncolar
    <2>6. QED  BY <2>2, <2>3, <2>4, <2>5
  <1>2. CASE s \in PasosMotivos
    <2>1. PICK a \in UnPaso, b \in UnPaso, c \in UnPaso, d \in UnPaso, e \in UnPaso, g \in UnPaso :
             /\ a = Paso("fallar", Nadie) /\ b = Paso("liberar_cpu", Nadie) /\ c = Paso("finalizar", Nadie)
             /\ d = Paso("desalojar", Nadie) /\ e = Paso("bloquear", Nadie) /\ g = Paso("encolar_io", Nadie)
             /\ a.op = "fallar" /\ b.op = "liberar_cpu" /\ c.op = "finalizar" /\ d.op = "desalojar"
             /\ e.op = "bloquear" /\ g.op = "encolar_io"
      BY PasoTipo DEF Pasos
    <2>2. s \in {<<a, b, c>>, <<b, c>>, <<c>>, <<a, c, b>>, <<c, b>>, <<b>>, <<d, b>>, <<e, g, b>>, <<g, b>>}
      BY <1>2, <2>1 DEF PasosMotivos
    <2>3. CASE s \in {<<a, b, c>>, <<b, c>>, <<a, c, b>>, <<b>>, <<d, b>>}
      <3>1. Head(s).op \in {"fallar", "liberar_cpu", "desalojar"}  BY <2>1, <2>3
      <3>2. QED  BY <3>1 DEF Restos, OpsEncolar
    <2>4. CASE s = <<c>>
      <3>1. Head(s) = c /\ Tail(s) = <<>>  BY <2>4
      <3>2. ASSUME NEW O PROVE ~Con(<<>>, O)  BY ConPocos
      <3>3. QED  BY <2>1, <3>1, <3>2 DEF Restos, OpsEncolar
    <2>5. CASE s = <<c, b>> \/ s = <<g, b>>
      <3>1. Head(s) \in {c, g} /\ Tail(s) = <<b>>
        <4>1. CASE s = <<c, b>>  BY <4>1
        <4>2. CASE s = <<g, b>>  BY <4>2
        <4>3. QED  BY <2>5, <4>1, <4>2
      <3>2. ASSUME NEW O PROVE Con(<<b>>, O) <=> b.op \in O  BY ConPocos
      <3>3. QED  BY <2>1, <3>1, <3>2 DEF Restos, OpsEncolar
    <2>6. CASE s = <<e, g, b>>
      <3>1. Head(s) = e /\ Tail(s) = <<g, b>>  BY <2>6
      <3>2. ASSUME NEW O PROVE Con(<<g, b>>, O) <=> g.op \in O \/ b.op \in O  BY ConPocos
      <3>3. QED  BY <2>1, <3>1, <3>2 DEF Restos, OpsEncolar
    <2>7. QED  BY <2>2, <2>3, <2>4, <2>5, <2>6
  <1>3. ASSUME NEW r \in Recursos, Sumando(s, Retenida(r), r) PROVE Restos(s)
    <2>1. PICK v \in Seq(UnPaso) : /\ v = Retenida(r) /\ v # <<>> /\ Head(v).op \notin OpsSuma
                                   /\ Head(v).op = "restar_retenida"
      BY RetenidaTipo
    <2>2. Sumando(s, v, r)  BY <1>3, <2>1
    <2>3. CasosSuma(s, v, r)  BY <2>1, <2>2, SumandoCasos
    <2>4. Head(s).op \in OpsSuma \/ Head(s).op = "restar_retenida"  BY <2>1, <2>3 DEF CasosSuma, OpsSuma
    <2>5. QED  BY <2>4 DEF Restos, OpsEncolar, OpsSuma
  <1>4. QED  BY <1>1, <1>2, <1>3 DEF FormaDispatch, Seguida

-----------------------------------------------------------------------------
(* The steps that move no process *)

EnOrden == UnSitio /\ Simples /\ Acabados

\* A list loses an element, or none.
Menos(s, t, A) == Simple(t, A) /\ \A x \in A : Contains(t, x) => Contains(s, x)

\* A thread goes on with its steps, and puts no process in a queue.
LEMMA SigueSitio ==
    ASSUME InvTipos, NEW h \in Hilos, hilo[h].pasos # <<>>, NEW q \in Seq(UnPaso), Seguir(h, q),
           h = "dispatch" => ~Con(q, OpsEncolar), NEW p
    PROVE  (PorEncolar(p)' => PorEncolar(p)) /\ \A g \in Hilos : hilo'[g].despierta = hilo[g].despierta
  <1>1. PICK s \in Seq(UnPaso) : s = hilo[h].pasos /\ s # <<>>  BY DEF InvTipos, THilo
  <1>2. Tail(s) \in Seq(UnPaso)  BY <1>1
  <1>3. q \o Tail(s) \in Seq(UnPaso)  BY <1>2
  <1>4. /\ hilo \in [Hilos -> THilo] /\ hilo'[h].pasos = q \o Tail(s) /\ hilo'[h].pid = hilo[h].pid
        /\ hilo'[h].despierta = hilo[h].despierta /\ \A g \in Hilos : g # h => hilo'[g] = hilo[g]
    BY <1>1, <1>3, SeguirTipo DEF InvTipos
  <1>5. Con(q \o Tail(s), OpsEncolar) => Con(q, OpsEncolar) \/ Con(s, OpsEncolar)
    <2>1. Con(q \o Tail(s), OpsEncolar) <=> Con(q, OpsEncolar) \/ Con(Tail(s), OpsEncolar)  BY <1>2, ConJunto
    <2>2. Con(Tail(s), OpsEncolar) => Con(s, OpsEncolar)  BY <1>1, ConCola
    <2>3. QED  BY <2>1, <2>2
  <1>6. "dispatch" \in Hilos  BY DEF Hilos
  <1>7. QED  BY <1>1, <1>4, <1>5, <1>6 DEF PorEncolar, Despachador

\* It has done a step.
LEMMA HechoSitio ==
    ASSUME InvTipos, NEW h \in Hilos, hilo[h].pasos # <<>>, Hecho(h), NEW p
    PROVE  (PorEncolar(p)' => PorEncolar(p)) /\ \A g \in Hilos : hilo'[g].despierta = hilo[g].despierta
  <1>1. <<>> \in Seq(UnPaso) /\ ~Con(<<>>, OpsEncolar) /\ Seguir(h, <<>>)  BY ConPocos DEF Hecho
  <1>2. QED  BY <1>1, SigueSitio

\* The CPU goes on with its process although something is sent to it.
LEMMA OcupadaMarco ==
    ASSUME a_cpu \in Seq(TRespuesta), UNCHANGED <<cpu, flags>>, NEW p,
           a_cpu' = a_cpu \/ \E e \in TRespuesta : a_cpu' = Append(a_cpu, e)
    PROVE  Ocupada(p)' => Ocupada(p)
  <1>1. \A k \in 1 .. Len(a_cpu) : k \in 1 .. Len(a_cpu') /\ a_cpu'[k] = a_cpu[k]
    <2>1. ASSUME NEW e \in TRespuesta PROVE \A k \in 1 .. Len(a_cpu) :
             k \in 1 .. Len(Append(a_cpu, e)) /\ Append(a_cpu, e)[k] = a_cpu[k]
      OBVIOUS
    <2>2. QED  BY <2>1
  <1>2. QED  BY <1>1 DEF Ocupada

\* A step that takes processes from lists, or answers, puts none in a place.
LEMMA Quietos ==
    ASSUME InvTipos, EnOrden, UNCHANGED <<carga, pc, ready, cola_io, cpu, flags>>,
           Menos(a_kernel, a_kernel', PedidosIO),
           a_cpu' = a_cpu \/ \E e \in TRespuesta : e.tipo # "PCB" /\ a_cpu' = Append(a_cpu, e),
           \A r \in Recursos : Menos(cola_recurso[r], cola_recurso'[r], Pids),
           \A p \in Pids : PorEncolar(p)' => PorEncolar(p),
           \A p \in Pids : \A h \in Hilos : hilo'[h].despierta = p => hilo[h].despierta = p
    PROVE  EnOrden'
  <1>1. a_cpu \in Seq(TRespuesta)  BY DEF InvTipos, ViajesOK
  <1>2. \A p \in Pids : Ocupada(p)' => Ocupada(p)  BY <1>1, OcupadaMarco
  <1>3. Menos(a_cpu, a_cpu', TPcb)
    <2>1. ASSUME NEW e \in TRespuesta, e.tipo # "PCB" PROVE Simple(Append(a_cpu, e), TPcb)
      <3>1. e \notin TPcb /\ Simple(a_cpu, TPcb)  BY <2>1 DEF TPcb, EnOrden, Simples
      <3>2. QED  BY <1>1, <3>1, ContieneMas
    <2>2. ASSUME NEW e \in TRespuesta, e.tipo # "PCB", NEW x \in TPcb, Contains(Append(a_cpu, e), x)
          PROVE  Contains(a_cpu, x)
      <3>1. e # x  BY <2>2 DEF TPcb
      <3>2. QED  BY <1>1, <2>2, <3>1, ContieneMas
    <2>3. QED  BY <2>1, <2>2 DEF Menos, EnOrden, Simples
  <1>4. Quedan
    <2>1. SUFFICES ASSUME NEW p \in Pids, NEW x, NEW z, Esta(x, z, p)' PROVE Esta(x, z, p)  BY DEF Quedan
    <2>2. Pcb(p) \in TPcb /\ PedidoIO(p) \in PedidosIO  BY DEF Pcb, TPcb, PedidosIO
    <2>3. QED  BY <1>2, <1>3, <2>1, <2>2 DEF Esta, Menos
  <1>5. Terminados' = Terminados  BY DEF Terminados, Programa
  <1>6. Simples'  BY <1>3 DEF Simples, EnOrden, Menos
  <1>7. QED  BY <1>4, <1>5, <1>6, QuedanSitio DEF EnOrden

\* What two lists, one after the other, have at each place.
LEMMA JuntoLugar ==
    ASSUME NEW S, NEW s \in Seq(S), NEW t \in Seq(S), NEW m \in Nat, NEW n \in Nat, m = Len(s), n = Len(t)
    PROVE  /\ Len(s \o t) = m + n
           /\ \A k \in 1 .. m : (s \o t)[k] = s[k]
           /\ \A k \in m + 1 .. m + n : (s \o t)[k] = t[k - m]
  OBVIOUS

\* A list that stays, one that loses its first element, and one that loses another.
LEMMA MenosCasos ==
    ASSUME NEW S, NEW s \in Seq(S), NEW A, Simple(s, A)
    PROVE  Menos(s, s, A) /\ (s # <<>> => Menos(s, Tail(s), A)) /\ \A e : Menos(s, RemoveFirst(s, e), A)
  <1>1. Menos(s, s, A)  BY DEF Menos
  <1>2. s # <<>> => Menos(s, Tail(s), A)  BY ContieneCola DEF Menos
  <1>3. ASSUME NEW e PROVE Menos(s, RemoveFirst(s, e), A)
    <2>1. CASE ~ \E i \in 1 .. Len(s) : s[i] = e  BY <1>1, <2>1 DEF RemoveFirst
    <2>2. CASE \E i \in 1 .. Len(s) : s[i] = e
      <3>1. PICK I : I = {i \in 1 .. Len(s) : s[i] = e}  OBVIOUS
      <3>2. I \subseteq Nat /\ I # {}  BY <2>2, <3>1
      <3>3. \E x \in I : \A y \in I : x <= y  BY <3>2, Minimo
      <3>4. PICK k : k = CHOOSE x \in I : \A y \in I : x <= y  OBVIOUS
      <3>5. k \in I  BY <3>3, <3>4
      <3>6. RemoveFirst(s, e) = RemoveAt(s, k)
        BY <2>2, <3>1, <3>2, <3>4 DEF RemoveFirst, SelectInSeq, Min
      <3>7. PICK n \in Nat : n = Len(s) /\ k \in 1 .. n  BY <3>1, <3>5
      <3>8. PICK l \in Nat, m \in Nat : l = k - 1 /\ m = n - k
        <4>1. k - 1 \in Nat /\ n - k \in Nat  BY <3>7
        <4>2. QED  BY <4>1
      <3>9. PICK a \in Seq(S), b \in Seq(S) : a = SubSeq(s, 1, k - 1) /\ b = SubSeq(s, k + 1, Len(s))
        <4>1. SubSeq(s, 1, k - 1) \in Seq(S) /\ SubSeq(s, k + 1, Len(s)) \in Seq(S)  BY <3>7
        <4>2. QED  BY <4>1
      <3>10. PICK t \in Seq(S) : t = a \o b /\ t = RemoveFirst(s, e)
        <4>1. a \o b \in Seq(S)  BY <3>9
        <4>2. a \o b = RemoveFirst(s, e)  BY <3>6, <3>9 DEF RemoveAt
        <4>3. QED  BY <4>1, <4>2
      <3>11. /\ Len(t) = n - 1 /\ \A i \in 1 .. k - 1 : t[i] = s[i]
             /\ \A i \in k .. n - 1 : t[i] = s[i + 1]
        <4>1. Len(a) = l /\ \A i \in 1 .. l : a[i] = s[i]
          <5>1. Len(a) = l  BY <3>7, <3>8, <3>9
          <5>2. ASSUME NEW i \in 1 .. l PROVE a[i] = s[i]
            <6>1. a[i] = s[1 + i - 1]  BY <3>7, <3>8, <3>9, <5>1
            <6>2. 1 + i - 1 = i  OBVIOUS
            <6>3. QED  BY <6>1, <6>2
          <5>3. QED  BY <5>1, <5>2
        <4>2. Len(b) = m /\ \A i \in 1 .. m : b[i] = s[i + k]
          <5>1. Len(b) = m  BY <3>7, <3>8, <3>9
          <5>2. ASSUME NEW i \in 1 .. m PROVE b[i] = s[i + k]
            <6>1. b[i] = s[(k + 1) + i - 1]  BY <3>7, <3>8, <3>9, <5>1
            <6>2. (k + 1) + i - 1 = i + k  BY <3>7
            <6>3. QED  BY <6>1, <6>2
          <5>3. QED  BY <5>1, <5>2
        <4>3. /\ Len(t) = l + m /\ \A i \in 1 .. l : t[i] = a[i]
              /\ \A i \in l + 1 .. l + m : t[i] = b[i - l]
          <5>1. l = Len(a) /\ m = Len(b)  BY <4>1, <4>2
          <5>2. /\ Len(a \o b) = l + m /\ \A i \in 1 .. l : (a \o b)[i] = a[i]
                /\ \A i \in l + 1 .. l + m : (a \o b)[i] = b[i - l]
            BY <5>1, JuntoLugar
          <5>3. QED  BY <3>10, <5>2
        <4>4. \A i \in l + 1 .. l + m : i - l \in 1 .. m /\ (i - l) + k = i + 1  BY <3>7, <3>8
        <4>5. l + m = n - 1 /\ l + 1 = k  BY <3>7, <3>8
        <4>6. QED  BY <3>8, <4>1, <4>2, <4>3, <4>4, <4>5
      <3>12. PICK f : f = [i \in 1 .. n - 1 |-> IF i < k THEN i ELSE i + 1]  OBVIOUS
      <3>13. \A i \in 1 .. n - 1 : f[i] \in 1 .. n /\ t[i] = s[f[i]]  BY <3>7, <3>11, <3>12
      <3>14. \A i, j \in 1 .. n - 1 : f[i] = f[j] => i = j  BY <3>7, <3>12
      <3>15. Simple(t, A)
        <4>1. SUFFICES ASSUME NEW i \in 1 .. n - 1, NEW j \in 1 .. n - 1, t[i] \in A, t[i] = t[j] PROVE i = j
          BY <3>11 DEF Simple
        <4>2. f[i] \in 1 .. Len(s) /\ f[j] \in 1 .. Len(s) /\ s[f[i]] \in A /\ s[f[i]] = s[f[j]]
          BY <3>7, <3>13, <4>1
        <4>3. f[i] = f[j]  BY <4>2 DEF Simple
        <4>4. QED  BY <3>14, <4>3
      <3>16. \A x : Contains(t, x) => Contains(s, x)  BY <3>7, <3>11, <3>13 DEF Contains
      <3>17. QED  BY <3>10, <3>15, <3>16 DEF Menos
    <2>3. QED  BY <2>1, <2>2
  <1>4. QED  BY <1>1, <1>2, <1>3

\* The lists that a step does not touch.
LEMMA MenosIguales ==
    ASSUME InvTipos, EnOrden
    PROVE  Menos(a_kernel, a_kernel, PedidosIO) /\ \A r \in Recursos : Menos(cola_recurso[r], cola_recurso[r], Pids)
  BY DEF EnOrden, Simples, Menos

\* The steps of recibir_dispatch that count, answer, block and end.
LEMMA DispatchQuieto ==
    ASSUME InvTipos, EnOrden, UNCHANGED carga,
           Restar \/ Bloquear \/ LiberarCpu \/ RestarRetenida \/ Fallar \/ Finalizar
    PROVE  EnOrden'
  <1>1. /\ UNCHANGED <<carga, pc, ready, cola_io, cpu, flags, a_kernel, cola_recurso>>
        /\ hilo["dispatch"].pasos # <<>> /\ Hecho("dispatch") /\ "dispatch" \in Hilos
    BY DEF Restar, Bloquear, LiberarCpu, RestarRetenida, Fallar, Finalizar, contables, colas, cpuVars, Toca, Hilos
  <1>2. a_cpu' = a_cpu \/ \E e \in TRespuesta : e.tipo # "PCB" /\ a_cpu' = Append(a_cpu, e)
    <2>1. \A t \in {"RESOURCE_OK", "RESOURCE_FAIL"} : Respuesta(t) \in TRespuesta /\ Respuesta(t).tipo # "PCB"
      BY DEF Respuesta, TRespuesta
    <2>2. QED
      BY <2>1 DEF Restar, Bloquear, LiberarCpu, RestarRetenida, Fallar, Finalizar, Contestar
  <1>3. \A p : (PorEncolar(p)' => PorEncolar(p)) /\ \A h \in Hilos : hilo'[h].despierta = hilo[h].despierta
    BY <1>1, HechoSitio
  <1>4. QED  BY <1>1, <1>2, <1>3, MenosIguales, Quietos

\* The steps of sumar_instancia_a_recurso that count, look and search.
LEMMA SumaQuieta ==
    ASSUME InvTipos, EnOrden, UNCHANGED carga, NEW h \in Hilos, Sumar(h) \/ Mirar(h) \/ Buscar(h)
    PROVE  EnOrden'
  <1>1. /\ UNCHANGED <<carga, pc, ready, cola_io, cpu, flags, a_kernel, a_cpu, cola_recurso>>
        /\ hilo[h].pasos # <<>>
    BY DEF Sumar, Mirar, Buscar, contables, colas, cpuVars, Toca
  <1>2. \A p : (PorEncolar(p)' => PorEncolar(p)) /\ \A g \in Hilos : hilo'[g].despierta = hilo[g].despierta
    <2>1. CASE Sumar(h)  BY <1>1, <2>1, HechoSitio DEF Sumar
    <2>2. CASE Mirar(h)
      <3>1. PICK q : q = (IF HayQueDespertar(Recurso(h)) THEN PasosDespertar(Recurso(h)) ELSE <<>>) /\ Seguir(h, q)
        BY <2>2 DEF Mirar
      <3>2. Recurso(h) \in Recursos \union {Nadie}
        <4>1. hilo[h].pasos \in Seq(UnPaso)  BY DEF InvTipos, THilo
        <4>2. Head(hilo[h].pasos) \in UnPaso  BY <1>1, <4>1
        <4>3. QED  BY <4>2 DEF UnPaso, Recurso
      <3>3. q \in Seq(UnPaso) /\ ~Con(q, OpsEncolar)
        <4>1. PICK c \in UnPaso, d \in UnPaso, e \in UnPaso :
                 /\ c = Paso("sacar", Recurso(h)) /\ d = Paso("buscar", Recurso(h)) /\ e = Paso("desbloquear", Recurso(h))
                 /\ c.op = "sacar" /\ d.op = "buscar" /\ e.op = "desbloquear"
          BY <3>2, PasoTipo DEF Pasos
        <4>2. q = <<>> \/ q = <<c, d, e>>  BY <3>1, <4>1 DEF PasosDespertar
        <4>3. Con(<<c, d, e>>, OpsEncolar) <=> c.op \in OpsEncolar \/ d.op \in OpsEncolar \/ e.op \in OpsEncolar
          BY ConPocos
        <4>4. ~Con(<<>>, OpsEncolar)  BY ConPocos
        <4>5. <<>> \in Seq(UnPaso) /\ <<c, d, e>> \in Seq(UnPaso)  OBVIOUS
        <4>6. QED  BY <4>1, <4>2, <4>3, <4>4, <4>5 DEF OpsEncolar
      <3>4. QED  BY <1>1, <3>1, <3>3, SigueSitio
    <2>3. CASE Buscar(h)
      <3>1. PICK s \in Seq(UnPaso) : s = hilo[h].pasos /\ s # <<>>  BY <1>1 DEF InvTipos, THilo
      <3>2. PICK k : hilo' = [hilo EXCEPT ![h] = [hilo[h] EXCEPT !.pasos = Tail(s), !.indice = k]]
        BY <2>3, <3>1 DEF Buscar
      <3>3. hilo \in [Hilos -> THilo] /\ "dispatch" \in Hilos  BY DEF InvTipos, Hilos
      <3>4. /\ hilo'[h].pasos = Tail(s) /\ hilo'[h].pid = hilo[h].pid /\ hilo'[h].despierta = hilo[h].despierta
            /\ \A g \in Hilos : g # h => hilo'[g] = hilo[g]
        BY <3>2, <3>3 DEF THilo
      <3>5. Con(Tail(s), OpsEncolar) => Con(s, OpsEncolar)  BY <3>1, ConCola
      <3>6. QED  BY <3>1, <3>3, <3>4, <3>5 DEF PorEncolar, Despachador
    <2>4. QED  BY <2>1, <2>2, <2>3
  <1>3. QED  BY <1>1, <1>2, MenosIguales, Quietos

\* The steps of eliminacion_de_procesos.
LEMMA ElimQuieta ==
    ASSUME InvTipos, EnOrden, UNCHANGED carga, EliminarProceso \/ Quitar \/ Devolver \/ Destruir
    PROVE  EnOrden'
  <1>1. Eliminacion  BY DEF Eliminacion
  <1>2. UNCHANGED <<carga, pc, cpu, flags, a_kernel, a_cpu>> /\ UNCHANGED Despachador  BY <1>1, ElimMarco
  <1>3. UNCHANGED <<ready, cola_io>>  BY DEF EliminarProceso, Quitar, Devolver, Destruir, colas
  <1>4. \A p : PorEncolar(p)' => PorEncolar(p)  BY <1>2 DEF PorEncolar, Despachador
  <1>5. hilo \in [Hilos -> THilo] /\ "eliminacion" \in Hilos /\ hilo["eliminacion"] \in THilo
    BY DEF InvTipos, Hilos
  <1>6. ASSUME NEW g \in Hilos PROVE hilo'[g].despierta = hilo[g].despierta
    <2>1. \A q : Seguir("eliminacion", q) => hilo'[g].despierta = hilo[g].despierta
      BY <1>5 DEF Seguir, THilo
    <2>2. CASE EliminarProceso
      <3>1. CASE Head(exit) \in eliminados  BY <2>2, <3>1 DEF EliminarProceso
      <3>2. CASE Head(exit) \notin eliminados
        <4>1. PICK q, p : hilo' = [hilo EXCEPT !["eliminacion"].pasos = q, !["eliminacion"].pid = p]
          BY <2>2, <3>2 DEF EliminarProceso
        <4>2. QED  BY <1>5, <4>1 DEF THilo
      <3>3. QED  BY <3>1, <3>2
    <2>3. QED  BY <2>1, <2>2 DEF Quitar, Devolver, Destruir, Hecho
  <1>7. ASSUME NEW r \in Recursos PROVE Menos(cola_recurso[r], cola_recurso'[r], Pids)
    <2>1. Menos(cola_recurso[r], cola_recurso[r], Pids)  BY MenosIguales
    <2>2. CASE EliminarProceso \/ Devolver \/ Destruir
      BY <2>1, <2>2 DEF EliminarProceso, Devolver, Destruir, contables
    <2>3. CASE Quitar
      <3>1. PICK p, q : cola_recurso' = [cola_recurso EXCEPT ![q] = IF Contains(@, p) THEN RemoveFirst(@, p) ELSE @]
        BY <2>3 DEF Quitar
      <3>2. cola_recurso \in [Recursos -> Seq(Pids)]  BY DEF InvTipos, DatosOK
      <3>3. cola_recurso'[r] = cola_recurso[r] \/ cola_recurso'[r] = RemoveFirst(cola_recurso[r], p)
        BY <3>1, <3>2
      <3>4. cola_recurso[r] \in Seq(Pids) /\ Simple(cola_recurso[r], Pids)  BY <3>2 DEF EnOrden, Simples
      <3>5. Menos(cola_recurso[r], RemoveFirst(cola_recurso[r], p), Pids)  BY <3>4, MenosCasos
      <3>6. QED  BY <2>1, <3>3, <3>5
    <2>4. QED  BY <2>2, <2>3
  <1>8. QED  BY <1>2, <1>3, <1>4, <1>6, <1>7, MenosIguales, Quietos

-----------------------------------------------------------------------------
(* The steps that move a process *)

\* A process that moves is in one place, and has not ended.
LEMMA Movido ==
    ASSUME EnOrden, Simples', Terminados' = Terminados, NEW q, NEW b, NEW d, NEW a, NEW c, Muda(q, b, d, a, c),
           b # "cpu" \/ q \notin Terminados
    PROVE  EnOrden'
  <1>1. q \in Pids /\ Esta(b, d, q)  BY DEF Muda
  <1>2. q \notin Terminados  BY <1>1, NoAcabado DEF EnOrden
  <1>3. QED  BY <1>2, MudaSitio, MudaAcabados DEF EnOrden

\* iniciar_planificador_corto_plazo: from READY to the socket.
LEMMA DespacharSitio == ASSUME InvTipos, EnOrden, UNCHANGED carga, Despachar PROVE EnOrden'
  <1>1. ready \in Seq(Pids) /\ a_cpu \in Seq(TRespuesta)  BY DEF InvTipos, DatosOK, ViajesOK
  <1>2. /\ ready # <<>> /\ ready' = Tail(ready) /\ a_cpu' = Append(a_cpu, Pcb(Head(ready)))
        /\ UNCHANGED <<carga, pc, cola_io, cpu, flags, a_kernel, cola_recurso, hilo>>
    BY DEF Despachar, contables, cpuVars
  <1>3. PICK q \in Pids : q = Head(ready)  BY <1>1, <1>2
  <1>4. Pcb(q) \in TPcb /\ Pcb(q) \in TRespuesta  BY DEF Pcb, TPcb, TRespuesta
  <1>5. Contains(ready, q) /\ (\A x : Contains(ready', x) => Contains(ready, x)) /\ Simple(ready', Pids) /\ ~Contains(ready', q)
    BY <1>1, <1>2, <1>3, ContieneCola DEF EnOrden, Simples
  <1>6. Esta("ready", Nadie, q) /\ ~Esta("ready", Nadie, q)'  BY <1>5 DEF Esta
  <1>7. ~Contains(a_cpu, Pcb(q))
    <2>1. ~Esta("socket", Nadie, q)  BY <1>6, NoOtro DEF EnOrden
    <2>2. QED  BY <2>1 DEF Esta
  <1>8. Simple(a_cpu, TPcb)  BY DEF EnOrden, Simples
  <1>9. /\ \A x : Contains(a_cpu', x) <=> Contains(a_cpu, x) \/ x = Pcb(q)
        /\ Simple(a_cpu', TPcb)
    BY <1>1, <1>2, <1>3, <1>4, <1>7, <1>8, ContieneMas
  <1>10. Simples'  BY <1>2, <1>5, <1>9 DEF EnOrden, Simples
  <1>11. \A p \in Pids : Ocupada(p)' => Ocupada(p)  BY <1>1, <1>2, <1>3, <1>4, OcupadaMarco
  <1>12. \A p \in Pids : Pcb(p) = Pcb(q) => p = q  BY DEF Pcb
  <1>13. \A p : PorEncolar(p)' = PorEncolar(p)  BY <1>2 DEF PorEncolar, Despachador
  <1>14. Muda(q, "ready", Nadie, "socket", Nadie)
    <2>1. SUFFICES ASSUME NEW p \in Pids, NEW x, NEW z, Esta(x, z, p)'
                   PROVE  Esta(x, z, p) \/ (p = q /\ x = "socket" /\ z = Nadie)
      BY <1>6 DEF Muda
    <2>2. QED  BY <1>2, <1>5, <1>9, <1>11, <1>12, <1>13, <2>1 DEF Esta
  <1>15. Terminados' = Terminados  BY <1>2 DEF Terminados, Programa
  <1>16. QED  BY <1>10, <1>14, <1>15, Movido

\* atender_interfaz: from the I/O to READY.
LEMMA TerminarIOSitio == ASSUME InvTipos, EnOrden, UNCHANGED carga, TerminarIO PROVE EnOrden'
  <1>1. ready \in Seq(Pids) /\ cola_io \in Seq(Pids)  BY DEF InvTipos, DatosOK
  <1>2. /\ cola_io # <<>> /\ cola_io' = Tail(cola_io) /\ ready' = Append(ready, Head(cola_io))
        /\ UNCHANGED <<carga, pc, cpu, flags, a_kernel, a_cpu, cola_recurso, hilo>>
    BY DEF TerminarIO, contables, cpuVars
  <1>3. PICK q \in Pids : q = Head(cola_io)  BY <1>1, <1>2
  <1>4. Contains(cola_io, q) /\ (\A x : Contains(cola_io', x) => Contains(cola_io, x)) /\ Simple(cola_io', Pids)
        /\ ~Contains(cola_io', q)
    BY <1>1, <1>2, <1>3, ContieneCola DEF EnOrden, Simples
  <1>5. Esta("io", Nadie, q) /\ ~Esta("io", Nadie, q)'  BY <1>4 DEF Esta
  <1>6. ~Contains(ready, q)
    <2>1. ~Esta("ready", Nadie, q)  BY <1>5, NoOtro DEF EnOrden
    <2>2. QED  BY <2>1 DEF Esta
  <1>7. Simple(ready, Pids)  BY DEF EnOrden, Simples
  <1>8. (\A x : Contains(ready', x) <=> Contains(ready, x) \/ x = q) /\ Simple(ready', Pids)
    BY <1>1, <1>2, <1>3, <1>6, <1>7, ContieneMas
  <1>9. Simples'  BY <1>2, <1>4, <1>8 DEF EnOrden, Simples
  <1>10. \A p : (PorEncolar(p)' = PorEncolar(p)) /\ (Ocupada(p)' = Ocupada(p))
    BY <1>2 DEF PorEncolar, Despachador, Ocupada
  <1>11. Muda(q, "io", Nadie, "ready", Nadie)
    <2>1. SUFFICES ASSUME NEW p \in Pids, NEW x, NEW z, Esta(x, z, p)'
                   PROVE  Esta(x, z, p) \/ (p = q /\ x = "ready" /\ z = Nadie)
      BY <1>5 DEF Muda
    <2>2. QED  BY <1>2, <1>4, <1>8, <1>10, <2>1 DEF Esta
  <1>12. Terminados' = Terminados  BY <1>2 DEF Terminados, Programa
  <1>13. QED  BY <1>9, <1>11, <1>12, Movido

\* Only OPERACION_IO leaves recibir_dispatch with a queue to put a process in.
LEMMA PasosDeEncolar ==
    ASSUME NEW m \in TPedido, Con(PasosDe(m), OpsEncolar) PROVE m.motivo = "OPERACION_IO" /\ m.recurso \notin Recursos
  <1>1. ASSUME NEW r \in Recursos PROVE ~Con(<<Paso("restar", r), Paso("leer", r)>>, OpsEncolar)
                                        /\ ~Con(PasosSumar(r) \o <<Paso("restar_retenida", r)>>, OpsEncolar)
    <2>1. PICK a \in UnPaso, b \in UnPaso :
             a = Paso("restar", r) /\ b = Paso("leer", r) /\ a.op = "restar" /\ b.op = "leer"
      BY PasoTipo DEF Pasos
    <2>2. Con(<<a, b>>, OpsEncolar) <=> a.op \in OpsEncolar \/ b.op \in OpsEncolar  BY ConPocos
    <2>3. PICK e \in UnPaso, v \in Seq(UnPaso) : e = Paso("restar_retenida", r) /\ e.op = "restar_retenida" /\ v = <<e>>
      <3>1. Paso("restar_retenida", r) \in UnPaso /\ Paso("restar_retenida", r).op = "restar_retenida"
        BY PasoTipo DEF Pasos
      <3>2. <<Paso("restar_retenida", r)>> \in Seq(UnPaso)  BY <3>1
      <3>3. QED  BY <3>1, <3>2
    <2>4. Con(<<e>>, OpsEncolar) <=> e.op \in OpsEncolar  BY ConPocos
    <2>5. Sumando(PasosSumar(r) \o v, v, r)  BY SumandoDe
    <2>6. OpsSuma \cap OpsEncolar = {}  BY DEF OpsSuma, OpsEncolar
    <2>7. Con(PasosSumar(r) \o v, OpsEncolar) <=> Con(v, OpsEncolar)  BY <2>5, <2>6, ConSumando
    <2>8. QED  BY <2>1, <2>2, <2>3, <2>4, <2>7 DEF OpsEncolar
  <1>2. PICK b \in UnPaso, c \in UnPaso, d \in UnPaso, e \in UnPaso :
           /\ b = Paso("liberar_cpu", Nadie) /\ c = Paso("finalizar", Nadie) /\ d = Paso("desalojar", Nadie)
           /\ e = Paso("fallar", Nadie)
           /\ b.op = "liberar_cpu" /\ c.op = "finalizar" /\ d.op = "desalojar" /\ e.op = "fallar"
    BY PasoTipo DEF Pasos
  <1>3. ~Con(<<>>, OpsEncolar) /\ ~Con(<<c, b>>, OpsEncolar) /\ ~Con(<<d, b>>, OpsEncolar)
        /\ ~Con(<<e, b, c>>, OpsEncolar) /\ ~Con(<<e, c, b>>, OpsEncolar)
    <2>1. ~Con(<<>>, OpsEncolar)  BY ConPocos
    <2>2. Con(<<c, b>>, OpsEncolar) <=> c.op \in OpsEncolar \/ b.op \in OpsEncolar  BY ConPocos
    <2>3. Con(<<d, b>>, OpsEncolar) <=> d.op \in OpsEncolar \/ b.op \in OpsEncolar  BY ConPocos
    <2>4. Con(<<e, b, c>>, OpsEncolar) <=> e.op \in OpsEncolar \/ b.op \in OpsEncolar \/ c.op \in OpsEncolar  BY ConPocos
    <2>5. Con(<<e, c, b>>, OpsEncolar) <=> e.op \in OpsEncolar \/ c.op \in OpsEncolar \/ b.op \in OpsEncolar  BY ConPocos
    <2>6. QED  BY <1>2, <2>1, <2>2, <2>3, <2>4, <2>5 DEF OpsEncolar
  <1>4. CASE m.recurso \in Recursos
    <2>1. PasosDe(m) = <<Paso("restar", m.recurso), Paso("leer", m.recurso)>>
          \/ PasosDe(m) = PasosSumar(m.recurso) \o <<Paso("restar_retenida", m.recurso)>>
      BY <1>4 DEF PasosDe
    <2>2. QED  BY <1>1, <1>4, <2>1
  <1>5. CASE m.recurso \notin Recursos
    <2>1. m.motivo # "OPERACION_IO" => PasosDe(m) \in {<<>>, <<c, b>>, <<d, b>>, <<e, b, c>>, <<e, c, b>>}
      BY <1>2, <1>5 DEF PasosDe, TPedido, Motivos
    <2>2. QED  BY <1>3, <1>5, <2>1
  <1>6. QED  BY <1>4, <1>5

\* recibir_dispatch takes a message.
LEMMA RecibirHilo ==
    ASSUME InvTipos, Recibir
    PROVE  /\ a_kernel # <<>> /\ a_kernel' = Tail(a_kernel) /\ Head(a_kernel) \in TPedido /\ Despachador.pasos = <<>>
           /\ Despachador'.pasos = PasosDe(Head(a_kernel)) /\ Despachador'.pid = Head(a_kernel).pid
           /\ \A g \in Hilos : hilo'[g].despierta = hilo[g].despierta
           /\ UNCHANGED <<ready, cola_io, cola_recurso, a_cpu, cpu, flags, pc>>
  <1>1. a_kernel \in Seq(TPedido) /\ a_kernel # <<>>  BY DEF InvTipos, ViajesOK, Recibir
  <1>2. Head(a_kernel) \in TPedido  BY <1>1
  <1>3. hilo \in [Hilos -> THilo] /\ "dispatch" \in Hilos /\ hilo["dispatch"] \in THilo  BY DEF InvTipos, Hilos
  <1>4. PICK m : m = Head(a_kernel)  OBVIOUS
  <1>5. hilo' = [hilo EXCEPT !["dispatch"] = [hilo["dispatch"] EXCEPT !.pasos = PasosDe(m), !.pid = m.pid]]
    BY <1>4 DEF Recibir
  <1>6. /\ hilo'["dispatch"].pasos = PasosDe(m) /\ hilo'["dispatch"].pid = m.pid
        /\ hilo'["dispatch"].despierta = hilo["dispatch"].despierta
        /\ \A g \in Hilos : g # "dispatch" => hilo'[g] = hilo[g]
    BY <1>3, <1>5 DEF THilo
  <1>7. QED  BY <1>1, <1>2, <1>4, <1>6 DEF Recibir, Despachador, contables, colas, cpuVars

\* OPERACION_IO: from the socket to the hands of recibir_dispatch.
LEMMA RecibirSitio == ASSUME InvTipos, Curso, EnOrden, UNCHANGED carga, Recibir PROVE EnOrden'
  <1>1. /\ a_kernel # <<>> /\ a_kernel' = Tail(a_kernel) /\ Head(a_kernel) \in TPedido /\ Despachador.pasos = <<>>
        /\ Despachador'.pasos = PasosDe(Head(a_kernel)) /\ Despachador'.pid = Head(a_kernel).pid
        /\ \A g \in Hilos : hilo'[g].despierta = hilo[g].despierta
        /\ UNCHANGED <<ready, cola_io, cola_recurso, a_cpu, cpu, flags, pc>>
    BY RecibirHilo
  <1>2. a_kernel \in Seq(TPedido)  BY DEF InvTipos, ViajesOK
  <1>3. PICK m \in TPedido : m = Head(a_kernel)  BY <1>1
  <1>4. /\ Contains(a_kernel, m) /\ (\A x : Contains(a_kernel', x) => Contains(a_kernel, x))
        /\ Simple(a_kernel', PedidosIO) /\ (m \in PedidosIO => ~Contains(a_kernel', m))
    BY <1>1, <1>2, <1>3, ContieneCola DEF EnOrden, Simples
  <1>5. Menos(a_kernel, a_kernel', PedidosIO)  BY <1>4 DEF Menos
  <1>6. CASE ~Con(PasosDe(m), OpsEncolar)
    <2>1. \A p : PorEncolar(p)' => PorEncolar(p)  BY <1>1, <1>3, <1>6 DEF PorEncolar
    <2>2. QED  BY <1>1, <1>5, <2>1, MenosIguales, Quietos
  <1>7. CASE Con(PasosDe(m), OpsEncolar)
    <2>1. PICK q \in Pids : q = m.pid  BY DEF TPedido
    <2>2. m = PedidoIO(q)
      <3>1. m.motivo = "OPERACION_IO"  BY <1>7, PasosDeEncolar
      <3>2. m \in TSuelto \/ m = Mensaje(cpu.pid, Pedida)  BY <1>3, CursoRecibir
      <3>3. Mensaje(cpu.pid, Pedida).motivo # "OPERACION_IO"  BY DEF Mensaje
      <3>4. m \in TSuelto  BY <3>1, <3>2, <3>3
      <3>5. QED  BY <2>1, <3>1, <3>4 DEF TSuelto, PedidoIO
    <2>3. m \in PedidosIO  BY <2>1, <2>2 DEF PedidosIO
    <2>4. Esta("mensaje", Nadie, q) /\ ~Esta("mensaje", Nadie, q)'  BY <1>4, <2>2, <2>3 DEF Esta
    <2>5. \A p : PorEncolar(p)' => p = q  BY <1>1, <1>3, <2>1 DEF PorEncolar
    <2>6. \A p : Ocupada(p)' = Ocupada(p)  BY <1>1 DEF Ocupada
    <2>7. Muda(q, "mensaje", Nadie, "encolar", Nadie)
      <3>1. SUFFICES ASSUME NEW p \in Pids, NEW x, NEW z, Esta(x, z, p)'
                     PROVE  Esta(x, z, p) \/ (p = q /\ x = "encolar" /\ z = Nadie)
        BY <2>4 DEF Muda
      <3>2. QED  BY <1>1, <1>4, <2>5, <2>6, <3>1 DEF Esta
    <2>8. Simples'  BY <1>1, <1>4 DEF EnOrden, Simples
    <2>9. Terminados' = Terminados  BY <1>1 DEF Terminados, Programa
    <2>10. QED  BY <2>7, <2>8, <2>9, Movido
  <1>8. QED  BY <1>6, <1>7

\* A step of recibir_dispatch.
LEMMA HechoDespachador ==
    ASSUME InvTipos, Despachador.pasos # <<>>, Hecho("dispatch")
    PROVE  /\ Despachador.pasos \in Seq(UnPaso) /\ FormaDispatch(Despachador.pasos) /\ Despachador.pid \in Pids
           /\ Despachador'.pasos = Tail(Despachador.pasos) /\ Despachador'.pid = Despachador.pid
           /\ Restos(Despachador.pasos) /\ UNCHANGED Eliminador
           /\ \A g \in Hilos : hilo'[g].despierta = hilo[g].despierta
  <1>1. hilo \in [Hilos -> THilo] /\ "dispatch" \in Hilos /\ "eliminacion" \in Hilos /\ DispatchOK(hilo["dispatch"])
    BY DEF InvTipos, Hilos
  <1>2. /\ Despachador.pasos \in Seq(UnPaso) /\ FormaDispatch(Despachador.pasos) /\ Despachador.pid \in Pids
    BY <1>1 DEF DispatchOK, TienePids, THilo, Despachador
  <1>3. /\ hilo'["dispatch"].pasos = Tail(hilo["dispatch"].pasos) /\ hilo'["dispatch"].pid = hilo["dispatch"].pid
        /\ hilo'["dispatch"].despierta = hilo["dispatch"].despierta
        /\ \A g \in Hilos : g # "dispatch" => hilo'[g] = hilo[g]
    BY <1>1, HechoTipo DEF Despachador
  <1>4. Restos(Despachador.pasos)  BY <1>2, RestosDispatch
  <1>5. QED  BY <1>1, <1>2, <1>3, <1>4 DEF Despachador, Eliminador

\* Who is about to be queued is, and nobody else.
LEMMA PorEncolarYa ==
    ASSUME InvTipos, Despachador.pasos # <<>>, Hecho("dispatch"), Head(Despachador.pasos).op \in OpsEncolar
    PROVE  Esta("encolar", Nadie, Despachador.pid) /\ \A p : ~PorEncolar(p)'
  <1>1. /\ Despachador.pasos \in Seq(UnPaso) /\ Despachador'.pasos = Tail(Despachador.pasos)
        /\ Restos(Despachador.pasos)
    BY HechoDespachador
  <1>2. Con(Despachador.pasos, OpsEncolar)  BY <1>1, ConCola
  <1>3. ~Con(Tail(Despachador.pasos), OpsEncolar)  BY <1>1 DEF Restos
  <1>4. QED  BY <1>1, <1>2, <1>3 DEF Esta, PorEncolar

\* OPERACION_IO: to the queue of the interface.
LEMMA EncolarIOSitio == ASSUME InvTipos, EnOrden, UNCHANGED carga, EncolarIO PROVE EnOrden'
  <1>1. /\ Despachador.pasos # <<>> /\ Head(Despachador.pasos).op = "encolar_io" /\ Hecho("dispatch")
        /\ cola_io' = Append(cola_io, Despachador.pid)
        /\ UNCHANGED <<carga, pc, ready, cpu, flags, a_kernel, a_cpu, cola_recurso>>
    BY DEF EncolarIO, Toca, Despachador, contables, cpuVars
  <1>2. "encolar_io" \in OpsEncolar  BY DEF OpsEncolar
  <1>3. Esta("encolar", Nadie, Despachador.pid) /\ \A p : ~PorEncolar(p)'  BY <1>1, <1>2, PorEncolarYa
  <1>4. Despachador.pid \in Pids /\ \A g \in Hilos : hilo'[g].despierta = hilo[g].despierta  BY <1>1, HechoDespachador
  <1>5. PICK q \in Pids : q = Despachador.pid  BY <1>4
  <1>6. Esta("encolar", Nadie, q) /\ ~Esta("encolar", Nadie, q)'  BY <1>3, <1>5 DEF Esta
  <1>7. cola_io \in Seq(Pids) /\ Simple(cola_io, Pids)  BY DEF InvTipos, DatosOK, EnOrden, Simples
  <1>8. ~Contains(cola_io, q)
    <2>1. ~Esta("io", Nadie, q)  BY <1>6, NoOtro DEF EnOrden
    <2>2. QED  BY <2>1 DEF Esta
  <1>9. (\A x : Contains(cola_io', x) <=> Contains(cola_io, x) \/ x = q) /\ Simple(cola_io', Pids)
    BY <1>1, <1>5, <1>7, <1>8, ContieneMas
  <1>10. Simples'  BY <1>1, <1>9 DEF EnOrden, Simples
  <1>11. \A p : Ocupada(p)' = Ocupada(p)  BY <1>1 DEF Ocupada
  <1>12. Muda(q, "encolar", Nadie, "io", Nadie)
    <2>1. SUFFICES ASSUME NEW p \in Pids, NEW x, NEW z, Esta(x, z, p)'
                   PROVE  Esta(x, z, p) \/ (p = q /\ x = "io" /\ z = Nadie)
      BY <1>6 DEF Muda
    <2>2. QED  BY <1>1, <1>3, <1>4, <1>9, <1>11, <2>1 DEF Esta
  <1>13. Terminados' = Terminados  BY <1>1 DEF Terminados, Programa
  <1>14. QED  BY <1>10, <1>12, <1>13, Movido

\* agregar_pcb_a_cola_bloqueados_de_recurso: to the queue of the resource.
LEMMA EncolarSitio == ASSUME InvTipos, EnOrden, UNCHANGED carga, Encolar PROVE EnOrden'
  <1>1. /\ Despachador.pasos # <<>> /\ Head(Despachador.pasos).op = "encolar" /\ Hecho("dispatch")
        /\ cola_recurso' = [cola_recurso EXCEPT ![Head(Despachador.pasos).recurso] =
                               Append(cola_recurso[Head(Despachador.pasos).recurso], Despachador.pid)]
        /\ UNCHANGED <<carga, pc, ready, cola_io, cpu, flags, a_kernel, a_cpu>>
    BY DEF Encolar, Toca, Recurso, Despachador, colas, cpuVars
  <1>2. "encolar" \in OpsEncolar  BY DEF OpsEncolar
  <1>3. Esta("encolar", Nadie, Despachador.pid) /\ \A p : ~PorEncolar(p)'  BY <1>1, <1>2, PorEncolarYa
  <1>4. /\ Despachador.pid \in Pids /\ (\A g \in Hilos : hilo'[g].despierta = hilo[g].despierta)
        /\ FormaDispatch(Despachador.pasos)
    BY <1>1, HechoDespachador
  <1>5. PICK q \in Pids : q = Despachador.pid  BY <1>4
  <1>6. PICK r \in Recursos : r = Head(Despachador.pasos).recurso
    <2>1. Head(Despachador.pasos).recurso \in Recursos  BY <1>1, <1>4, DispatchCasos DEF OpsSuma
    <2>2. QED  BY <2>1
  <1>7. Esta("encolar", Nadie, q) /\ ~Esta("encolar", Nadie, q)'  BY <1>3, <1>5 DEF Esta
  <1>8. cola_recurso \in [Recursos -> Seq(Pids)]  BY DEF InvTipos, DatosOK
  <1>9. PICK s \in Seq(Pids) : s = cola_recurso[r] /\ Simple(s, Pids)  BY <1>8 DEF EnOrden, Simples
  <1>10. ~Contains(s, q)
    <2>1. ~Esta("recurso", r, q)  BY <1>7, NoOtro DEF EnOrden
    <2>2. QED  BY <1>9, <2>1 DEF Esta
  <1>11. (\A x : Contains(Append(s, q), x) <=> Contains(s, x) \/ x = q) /\ Simple(Append(s, q), Pids)
    BY <1>9, <1>10, ContieneMas
  <1>12. cola_recurso'[r] = Append(s, q) /\ \A o \in Recursos : o # r => cola_recurso'[o] = cola_recurso[o]
    BY <1>1, <1>5, <1>6, <1>8, <1>9
  <1>13. Simples'  BY <1>1, <1>11, <1>12 DEF EnOrden, Simples
  <1>14. \A p : Ocupada(p)' = Ocupada(p)  BY <1>1 DEF Ocupada
  <1>15. Muda(q, "encolar", Nadie, "recurso", r)
    <2>1. SUFFICES ASSUME NEW p \in Pids, NEW x, NEW z, Esta(x, z, p)'
                   PROVE  Esta(x, z, p) \/ (p = q /\ x = "recurso" /\ z = r)
      BY <1>7 DEF Muda
    <2>2. QED  BY <1>1, <1>3, <1>4, <1>9, <1>11, <1>12, <1>14, <2>1 DEF Esta
  <1>16. Terminados' = Terminados  BY <1>1 DEF Terminados, Programa
  <1>17. QED  BY <1>13, <1>15, <1>16, Movido

\* What a thread in the middle of sumar_instancia_a_recurso has to do.
LEMMA SumandoHilo ==
    ASSUME InvTipos, NEW h \in Hilos, hilo[h].pasos # <<>>, Head(hilo[h].pasos).op \in OpsSuma
    PROVE  /\ hilo \in [Hilos -> THilo] /\ TienePids(hilo[h]) /\ "dispatch" \in Hilos
           /\ \E v \in Seq(UnPaso), r \in Recursos :
                 /\ v # <<>> /\ Head(v).op \notin OpsSuma /\ Sumando(hilo[h].pasos, v, r)
                 /\ CasosSuma(hilo[h].pasos, v, r) /\ Recurso(h) = r
                 /\ h = "dispatch" => v = Retenida(r)
  <1>1. hilo \in [Hilos -> THilo] /\ TienePids(hilo[h]) /\ "dispatch" \in Hilos
    BY DEF InvTipos, DispatchOK, ElimOK, Hilos
  <1>2. PICK v \in Seq(UnPaso), r \in Recursos :
           /\ v # <<>> /\ Head(v).op \notin OpsSuma /\ Sumando(hilo[h].pasos, v, r)
           /\ h = "dispatch" => v = Retenida(r)
    <2>1. CASE h = "dispatch"
      <3>1. FormaDispatch(hilo[h].pasos)  BY <2>1 DEF InvTipos, DispatchOK
      <3>2. PICK r \in Recursos : Sumando(hilo[h].pasos, Retenida(r), r)
        BY <3>1, DispatchCasos DEF OpsSuma, OpsSeguidas
      <3>3. Retenida(r) \in Seq(UnPaso) /\ Retenida(r) # <<>> /\ Head(Retenida(r)).op \notin OpsSuma  BY RetenidaTipo
      <3>4. QED  BY <3>2, <3>3
    <2>2. CASE h = "eliminacion"
      <3>1. PICK v : FormaElim(hilo[h].pasos, v, asignadas[hilo[h].pid])  BY <2>2 DEF InvTipos, ElimOK
      <3>2. v \in Seq(UnPaso) /\ v # <<>> /\ Head(v).op \notin OpsSuma  BY <3>1, CierreCasos DEF FormaElim, Cierre
      <3>3. PICK r \in Recursos : Sumando(hilo[h].pasos, v, r)  BY <3>1, <3>2 DEF FormaElim
      <3>4. QED  BY <2>2, <3>2, <3>3
    <2>3. QED  BY <2>1, <2>2 DEF Hilos
  <1>3. CasosSuma(hilo[h].pasos, v, r)  BY <1>2, SumandoCasos
  <1>4. Recurso(h) = r  BY <1>3 DEF CasosSuma, OpsSuma, Recurso
  <1>5. QED  BY <1>1, <1>2, <1>3, <1>4

\* It puts no process in a queue of waiters.
LEMMA SumaSitio ==
    ASSUME InvTipos, NEW h \in Hilos, SumarInstancia(h)
    PROVE  \A p : PorEncolar(p)' => PorEncolar(p)
  <1>1. hilo[h].pasos # <<>> /\ Head(hilo[h].pasos).op \in OpsSuma
    BY DEF SumarInstancia, Sumar, Mirar, Sacar, Buscar, Desbloquear, Toca, OpsSuma
  <1>2. PICK v \in Seq(UnPaso), r \in Recursos :
           /\ v # <<>> /\ Head(v).op \notin OpsSuma /\ Sumando(hilo[h].pasos, v, r)
           /\ h = "dispatch" => v = Retenida(r)
    BY <1>1, SumandoHilo
  <1>3. hilo \in [Hilos -> THilo] /\ TienePids(hilo[h]) /\ "dispatch" \in Hilos  BY <1>1, SumandoHilo
  <1>4. cola_recurso \in [Recursos -> Seq(Pids)] /\ blocked \in Seq(Pids)  BY DEF InvTipos, DatosOK
  <1>5. (\A g \in Hilos : g # h => hilo'[g] = hilo[g]) /\ Sumando(hilo'[h].pasos, v, r)
    BY <1>2, <1>3, <1>4, SumaHilo
  <1>6. CASE h # "dispatch"
    <2>1. hilo'["dispatch"] = hilo["dispatch"]  BY <1>3, <1>5, <1>6
    <2>2. QED  BY <2>1 DEF PorEncolar, Despachador
  <1>7. CASE h = "dispatch"
    <2>1. PICK e \in UnPaso : e = Paso("restar_retenida", r) /\ e.op = "restar_retenida"  BY PasoTipo DEF Pasos
    <2>2. v = <<e>>  BY <1>2, <1>7, <2>1 DEF Retenida
    <2>3. Con(<<e>>, OpsEncolar) <=> e.op \in OpsEncolar  BY ConPocos
    <2>4. OpsSuma \cap OpsEncolar = {}  BY DEF OpsSuma, OpsEncolar
    <2>5. Con(hilo'[h].pasos, OpsEncolar) <=> Con(v, OpsEncolar)  BY <1>5, <2>4, ConSumando
    <2>6. ~Con(hilo'[h].pasos, OpsEncolar)  BY <2>1, <2>2, <2>3, <2>5 DEF OpsEncolar
    <2>7. QED  BY <1>7, <2>6 DEF PorEncolar, Despachador
  <1>8. QED  BY <1>6, <1>7

\* The first waiter: from the queue of the resource to the hands of the thread that wakes it up.
LEMMA SacarSitio ==
    ASSUME InvTipos, EnOrden, UNCHANGED carga, NEW h \in Hilos, Sacar(h) PROVE EnOrden'
  <1>1. /\ hilo[h].pasos # <<>> /\ Head(hilo[h].pasos).op \in OpsSuma /\ SumarInstancia(h)
        /\ UNCHANGED <<carga, pc, ready, cola_io, cpu, flags, a_kernel, a_cpu>>
    BY DEF Sacar, Toca, OpsSuma, SumarInstancia, colas, cpuVars
  <1>2. \A p : PorEncolar(p)' => PorEncolar(p)  BY <1>1, SumaSitio
  <1>3. hilo \in [Hilos -> THilo]  BY DEF InvTipos
  <1>4. PICK r \in Recursos : Recurso(h) = r  BY <1>1, SumandoHilo
  <1>5. cola_recurso \in [Recursos -> Seq(Pids)]  BY DEF InvTipos, DatosOK
  <1>6. CASE cola_recurso[r] = <<>>
    <2>1. UNCHANGED cola_recurso  BY <1>4, <1>6 DEF Sacar
    <2>2. PICK t : hilo' = [hilo EXCEPT ![h].pasos = t]  BY <1>4, <1>6 DEF Sacar
    <2>3. \A g \in Hilos : hilo'[g].despierta = hilo[g].despierta  BY <1>3, <2>2 DEF THilo
    <2>4. QED  BY <1>1, <1>2, <2>1, <2>3, MenosIguales, Quietos
  <1>7. CASE cola_recurso[r] # <<>>
    <2>1. PICK s \in Seq(Pids) : s = cola_recurso[r] /\ s # <<>> /\ Simple(s, Pids)
      BY <1>5, <1>7 DEF EnOrden, Simples
    <2>2. PICK q \in Pids : q = Head(s)  BY <2>1
    <2>3. /\ cola_recurso' = [cola_recurso EXCEPT ![r] = Tail(s)]
          /\ hilo' = [hilo EXCEPT ![h].pasos = Tail(@), ![h].despierta = q]
      BY <1>4, <1>7, <2>1, <2>2 DEF Sacar
    <2>4. PICK t : hilo' = [hilo EXCEPT ![h] = [hilo[h] EXCEPT !.pasos = t, !.despierta = q]]
      BY <2>3
    <2>5. hilo'[h].despierta = q /\ \A g \in Hilos : g # h => hilo'[g] = hilo[g]
      BY <1>3, <2>4 DEF THilo
    <2>6. cola_recurso'[r] = Tail(s) /\ \A o \in Recursos : o # r => cola_recurso'[o] = cola_recurso[o]
      BY <1>5, <2>3
    <2>7. /\ Contains(s, q) /\ (\A x : Contains(Tail(s), x) => Contains(s, x)) /\ Simple(Tail(s), Pids)
          /\ ~Contains(Tail(s), q)
      BY <2>1, <2>2, ContieneCola
    <2>8. Esta("recurso", r, q) /\ ~Esta("recurso", r, q)'  BY <2>1, <2>6, <2>7 DEF Esta
    <2>9. \A p : Ocupada(p)' = Ocupada(p)  BY <1>1 DEF Ocupada
    <2>10. Muda(q, "recurso", r, "mano", h)
      <3>1. SUFFICES ASSUME NEW p \in Pids, NEW x, NEW z, Esta(x, z, p)'
                     PROVE  Esta(x, z, p) \/ (p = q /\ x = "mano" /\ z = h)
        BY <2>8 DEF Muda
      <3>2. QED  BY <1>1, <1>2, <2>1, <2>5, <2>6, <2>7, <2>9, <3>1 DEF Esta
    <2>11. Simples'  BY <1>1, <2>6, <2>7 DEF EnOrden, Simples
    <2>12. Terminados' = Terminados  BY <1>1 DEF Terminados, Programa
    <2>13. QED  BY <2>10, <2>11, <2>12, Movido
  <1>8. QED  BY <1>6, <1>7

\* It is woken up: to READY.
LEMMA DesbloquearSitio ==
    ASSUME InvTipos, EnOrden, UNCHANGED carga, NEW h \in Hilos, Desbloquear(h)
    PROVE  EnOrden' /\ hilo[h].despierta \in Pids /\ Esta("mano", h, hilo[h].despierta)
  <1>1. /\ hilo[h].pasos # <<>> /\ Head(hilo[h].pasos).op = "desbloquear" /\ SumarInstancia(h)
        /\ ready' = Append(ready, hilo[h].despierta)
        /\ UNCHANGED <<carga, pc, cola_io, cpu, flags, a_kernel, a_cpu, cola_recurso>>
    BY DEF Desbloquear, Toca, SumarInstancia, contables, cpuVars
  <1>2. \A p : PorEncolar(p)' => PorEncolar(p)  BY <1>1, SumaSitio
  <1>3. hilo \in [Hilos -> THilo] /\ TienePids(hilo[h])  BY <1>1, SumandoHilo DEF OpsSuma
  <1>4. PICK q \in Pids : q = hilo[h].despierta  BY <1>1, <1>3 DEF TienePids
  <1>5. PICK t : hilo' = [hilo EXCEPT ![h] = [hilo[h] EXCEPT !.pasos = t, !.despierta = Nadie, !.indice = 0]]
    BY DEF Desbloquear
  <1>6. hilo'[h].despierta = Nadie /\ \A g \in Hilos : g # h => hilo'[g] = hilo[g]  BY <1>3, <1>5 DEF THilo
  <1>7. Esta("mano", h, q) /\ ~Esta("mano", h, q)'
    <2>1. q # Nadie  BY ConstantesOK
    <2>2. QED  BY <1>4, <1>6, <2>1 DEF Esta
  <1>8. ready \in Seq(Pids) /\ Simple(ready, Pids)  BY DEF InvTipos, DatosOK, EnOrden, Simples
  <1>9. ~Contains(ready, q)
    <2>1. ~Esta("ready", Nadie, q)  BY <1>7, NoOtro DEF EnOrden
    <2>2. QED  BY <2>1 DEF Esta
  <1>10. (\A x : Contains(ready', x) <=> Contains(ready, x) \/ x = q) /\ Simple(ready', Pids)
    BY <1>1, <1>4, <1>8, <1>9, ContieneMas
  <1>11. Simples'  BY <1>1, <1>10 DEF EnOrden, Simples
  <1>12. \A p : Ocupada(p)' = Ocupada(p)  BY <1>1 DEF Ocupada
  <1>13. \A p \in Pids : p # Nadie  BY ConstantesOK
  <1>14. Muda(q, "mano", h, "ready", Nadie)
    <2>1. SUFFICES ASSUME NEW p \in Pids, NEW x, NEW z, Esta(x, z, p)'
                   PROVE  Esta(x, z, p) \/ (p = q /\ x = "ready" /\ z = Nadie)
      BY <1>7 DEF Muda
    <2>2. \A g \in Hilos : hilo'[g].despierta = p => hilo[g].despierta = p  BY <1>6, <1>13
    <2>3. QED  BY <1>1, <1>2, <1>10, <1>12, <2>1, <2>2 DEF Esta
  <1>15. Terminados' = Terminados  BY <1>1 DEF Terminados, Programa
  <1>16. QED  BY <1>4, <1>7, <1>11, <1>14, <1>15, Movido

-----------------------------------------------------------------------------
(* Without quanta *)

\* What the CPU asks the kernel for, and what it hears from it, when nothing is blocked nor
\* interrupted.
SinReloj == {m \in TPedido : m.motivo # "FIN_CLOCK"}
SinBloqueos == {m \in TRespuesta : m.tipo # "RESOURCE_BLOCKED" /\ m.tipo # "RESOURCE_OK"}

\* Nobody is interrupted, and the CPU sees a flag only in the round in which it comes up.
SinQuantum ==
    /\ a_kernel \in Seq(SinReloj) /\ ~Con(Despachador.pasos, {"desalojar"})
    /\ flags \in {{}, {"end_process"}, {"input_ouput"}, {"bloqueado_por_resource"}}
    /\ cpu.en \in {"libre", "espera"} => flags = {}

\* A process that has ended in the CPU leaves it, or waits to hear that it fails.
TerminaYa ==
    cpu.en # "libre" /\ cpu.pid \in Terminados =>
        /\ cpu.en # "espera" => "end_process" \in flags
        /\ a_cpu \in Seq(SinBloqueos)

\* A process that asks for a resource has not ended.
LEMMA PideSinTerminar ==
    ASSUME InvTipos, Esperando, Pedida.recurso \in Recursos
    PROVE  cpu.pid \notin Terminados
  <1>1. PICK p \in Pids : p = cpu.pid /\ pc[p] - 1 \in 1 .. Len(Programa[p])  BY DEF Esperando
  <1>2. PICK n \in Nat : n = pc[p] - 1 /\ n \in 1 .. Len(Programa[p])
    <2>1. pc[p] \in Nat /\ Programa[p] \in Seq(Instrucciones)  BY ProgramaTipo DEF InvTipos, ViajesOK
    <2>2. Len(Programa[p]) \in Nat  BY <2>1
    <2>3. QED  BY <1>1, <2>1, <2>2
  <1>3. Programa[p][n].recurso \in Recursos  BY <1>1, <1>2 DEF Pedida
  <1>4. SUFFICES ASSUME NEW k \in 1 .. n, Final(Programa[p][k]) PROVE FALSE
    BY <1>1, <1>2 DEF Terminados
  <1>5. k # n  BY <1>3, <1>4, ConstantesOK DEF Final
  <1>6. Programa[p] \in Seq(Instrucciones)  BY ProgramaTipo
  <1>7. k \in 1 .. Len(Programa[p]) /\ k < n
    <2>1. Len(Programa[p]) \in Nat  BY <1>6
    <2>2. QED  BY <1>2, <1>5, <2>1
  <1>8. carga \in Cargas  BY DEF InvTipos, DatosOK
  <1>9. Programa[p][n].recurso \notin Recursos  BY <1>2, <1>4, <1>7, <1>8, CargasJustas DEF Programa
  <1>10. QED  BY <1>3, <1>9

\* What recibir_dispatch has after it reads the count, and where its process is.
LEMMA LeerHilo ==
    ASSUME InvTipos, Curso, UNCHANGED carga, Leer
    PROVE  \E r \in Recursos, q \in Seq(UnPaso) :
              /\ FaseAtendido /\ r = Recurso("dispatch") /\ Pedida.op = "WAIT" /\ Pedida.recurso = r
              /\ Despachador.pasos = <<Paso("leer", r)>> /\ Despachador'.pasos = q /\ Despachador'.pid = Despachador.pid
              /\ NoQueda(r) => /\ q = <<Paso("encolar", r), Paso("bloquear", r), Paso("liberar_cpu", r)>>
                               /\ a_cpu' = Append(a_cpu, Respuesta("RESOURCE_BLOCKED"))
              /\ ~NoQueda(r) => q = <<>> /\ a_cpu' = Append(a_cpu, Respuesta("RESOURCE_OK"))
              /\ UNCHANGED Eliminador /\ (\A g \in Hilos : hilo'[g].despierta = hilo[g].despierta)
              /\ cpu.pid \in Pids /\ cpu.pid \notin Terminados /\ Despachador.pid = cpu.pid
              /\ UNCHANGED <<ready, cola_io, cola_recurso, a_kernel, cpu, flags, pc, estado, exit, eliminados, instancias>>
  <1>1. Toca("dispatch", "leer") /\ "dispatch" \in Hilos  BY DEF Leer, Hilos
  <1>2. PICK s \in Seq(UnPaso) : s = Despachador.pasos /\ s # <<>> /\ Head(s).op = "leer"
    BY <1>1 DEF InvTipos, THilo, Toca, Despachador
  <1>3. FaseAtendido  BY CursoLeer
  <1>4. PICK r \in Recursos : Pedida.recurso = r /\ r = Recurso("dispatch") /\ Tail(Despachador.pasos) = <<>>
    BY <1>1, CursoAtendido DEF OpsAtender, Despachador
  <1>5. PICK i \in Instrucciones : i = Pedida /\ Atiende(s, i) /\ i.op \in {"WAIT", "SIGNAL"} /\ i.recurso = r
    BY <1>2, <1>3, <1>4, PedidaTipo DEF FaseAtendido, Esperando
  <1>6. i.op = "WAIT" /\ s = <<Paso("leer", r)>>
    <2>1. Paso("restar", r).op = "restar"  BY DEF Paso
    <2>2. r # Inexistente  BY ConstantesOK
    <2>3. ~AtiendeSignal(s, r)
      <3>1. SUFFICES ASSUME Sumando(s, Retenida(r), r) PROVE FALSE  BY DEF AtiendeSignal
      <3>2. PICK v \in Seq(UnPaso) : /\ v = Retenida(r) /\ v # <<>> /\ Head(v).op \notin OpsSuma
                                     /\ Head(v).op = "restar_retenida"
        BY RetenidaTipo
      <3>3. CasosSuma(s, v, r)  BY <3>1, <3>2, SumandoCasos
      <3>4. Head(s).op \in OpsSuma \/ Head(s).op = "restar_retenida"  BY <3>2, <3>3 DEF CasosSuma, OpsSuma
      <3>5. QED  BY <1>2, <3>4 DEF OpsSuma
    <2>4. i.op = "WAIT" /\ AtiendeWait(s, r)  BY <1>5, <2>2, <2>3 DEF Atiende
    <2>5. s # <<Paso("restar", r), Paso("leer", r)>>
      <3>1. Head(<<Paso("restar", r), Paso("leer", r)>>) = Paso("restar", r)  OBVIOUS
      <3>2. QED  BY <1>2, <2>1, <3>1
    <2>6. QED  BY <2>4, <2>5 DEF AtiendeWait
  <1>7. <<Paso("encolar", r), Paso("bloquear", r), Paso("liberar_cpu", r)>> \in Seq(UnPaso) /\ <<>> \in Seq(UnPaso)
    <2>1. PICK a \in UnPaso, b \in UnPaso, c \in UnPaso :
             a = Paso("encolar", r) /\ b = Paso("bloquear", r) /\ c = Paso("liberar_cpu", r)
      BY PasoTipo DEF Pasos
    <2>2. <<a, b, c>> \in Seq(UnPaso)  OBVIOUS
    <2>3. QED  BY <2>1, <2>2
  <1>8. PICK q \in Seq(UnPaso) :
           /\ NoQueda(r) => /\ q = <<Paso("encolar", r), Paso("bloquear", r), Paso("liberar_cpu", r)>>
                            /\ a_cpu' = Append(a_cpu, Respuesta("RESOURCE_BLOCKED"))
           /\ ~NoQueda(r) => q = <<>> /\ a_cpu' = Append(a_cpu, Respuesta("RESOURCE_OK"))
           /\ Seguir("dispatch", q)
    BY <1>4, <1>7 DEF Leer, AvisarBloqueo, Contestar, Hecho
  <1>9. q \o <<>> = q  OBVIOUS
  <1>10. /\ Despachador'.pasos = q /\ Despachador'.pid = Despachador.pid /\ UNCHANGED Eliminador
         /\ \A g \in Hilos : hilo'[g].despierta = hilo[g].despierta
    <2>1. q \o Tail(hilo["dispatch"].pasos) = q  BY <1>4, <1>9 DEF Despachador
    <2>2. hilo \in [Hilos -> THilo] /\ "eliminacion" \in Hilos  BY DEF InvTipos, Hilos
    <2>3. /\ hilo'["dispatch"].pasos = q /\ hilo'["dispatch"].pid = hilo["dispatch"].pid
          /\ hilo'["dispatch"].despierta = hilo["dispatch"].despierta /\ \A g \in Hilos : g # "dispatch" => hilo'[g] = hilo[g]
      BY <1>1, <1>8, <2>1, <2>2, SeguirTipo
    <2>4. QED  BY <2>2, <2>3 DEF Despachador, Eliminador
  <1>11. cpu.pid \in Pids /\ Despachador.pid = cpu.pid /\ cpu.pid \notin Terminados
    BY <1>3, <1>4, PideSinTerminar DEF FaseAtendido, Esperando
  <1>12. UNCHANGED <<ready, cola_io, cola_recurso, a_kernel, cpu, flags, pc, estado, exit, eliminados, instancias>>
    BY DEF Leer, colas, cpuVars
  <1>13. /\ FaseAtendido /\ r = Recurso("dispatch") /\ Pedida.op = "WAIT" /\ Pedida.recurso = r
         /\ Despachador.pasos = <<Paso("leer", r)>>
    BY <1>2, <1>3, <1>4, <1>5, <1>6
  <1>14. QED  BY <1>8, <1>10, <1>11, <1>12, <1>13

\* WAIT finds no instance: from the CPU to the hands of recibir_dispatch.
LEMMA LeerSitio ==
    ASSUME InvTipos, Curso, EnOrden, SinQuantum, UNCHANGED carga, Leer PROVE EnOrden'
  <1>1. PICK r \in Recursos, q \in Seq(UnPaso) :
              /\ FaseAtendido /\ Despachador.pasos = <<Paso("leer", r)>> /\ Despachador'.pasos = q
              /\ Despachador'.pid = Despachador.pid
              /\ NoQueda(r) => a_cpu' = Append(a_cpu, Respuesta("RESOURCE_BLOCKED"))
              /\ ~NoQueda(r) => q = <<>> /\ a_cpu' = Append(a_cpu, Respuesta("RESOURCE_OK"))
              /\ \A g \in Hilos : hilo'[g].despierta = hilo[g].despierta
              /\ cpu.pid \in Pids /\ cpu.pid \notin Terminados /\ Despachador.pid = cpu.pid
              /\ UNCHANGED <<ready, cola_io, cola_recurso, a_kernel, cpu, flags, pc>>
    BY LeerHilo
  <1>2. a_cpu \in Seq(TPcb) /\ a_cpu \in Seq(TRespuesta) /\ cpu.en = "espera" /\ flags = {}
    BY <1>1 DEF FaseAtendido, Esperando, SoloPcbs, InvTipos, ViajesOK, SinQuantum
  <1>3. \A t \in {"RESOURCE_BLOCKED", "RESOURCE_OK"} : Respuesta(t) \in TRespuesta /\ Respuesta(t).tipo = t /\ Respuesta(t) \notin TPcb
    BY DEF Respuesta, TRespuesta, TPcb
  <1>4. CASE ~NoQueda(r)
    <2>1. \A p : ~PorEncolar(p)'  BY <1>1, <1>4, ConPocos DEF PorEncolar
    <2>2. QED  BY <1>1, <1>3, <1>4, <2>1, MenosIguales, Quietos
  <1>5. CASE NoQueda(r)
    <2>1. PICK p \in Pids : p = cpu.pid  BY <1>1
    <2>2. Ocupada(p)
      <3>1. \A k \in 1 .. Len(a_cpu) : a_cpu[k] \in TPcb  BY <1>2
      <3>2. QED  BY <1>2, <2>1, <3>1 DEF Ocupada, TPcb
    <2>3. PICK e \in TRespuesta : a_cpu' = Append(a_cpu, e) /\ e.tipo = "RESOURCE_BLOCKED" /\ e \notin TPcb
      BY <1>1, <1>3, <1>5
    <2>4. \A g : ~Ocupada(g)'
      <3>1. Len(a_cpu) + 1 \in 1 .. Len(a_cpu') /\ a_cpu'[Len(a_cpu) + 1] = e  BY <1>2, <2>3
      <3>2. QED  BY <2>3, <3>1 DEF Ocupada
    <2>5. Simple(a_cpu, TPcb)  BY DEF EnOrden, Simples
    <2>6. Simple(a_cpu', TPcb) /\ \A x \in TPcb : Contains(a_cpu', x) <=> Contains(a_cpu, x)
      BY <1>2, <2>3, <2>5, ContieneMas
    <2>7. \A g : PorEncolar(g)' => g = p  BY <1>1, <2>1 DEF PorEncolar
    <2>8. Esta("cpu", Nadie, p) /\ ~Esta("cpu", Nadie, p)'  BY <2>2, <2>4 DEF Esta
    <2>9. \A g \in Pids : Pcb(g) \in TPcb  BY DEF Pcb, TPcb
    <2>10. Muda(p, "cpu", Nadie, "encolar", Nadie)
      <3>1. SUFFICES ASSUME NEW g \in Pids, NEW x, NEW z, Esta(x, z, g)'
                     PROVE  Esta(x, z, g) \/ (g = p /\ x = "encolar" /\ z = Nadie)
        BY <2>8 DEF Muda
      <3>2. QED  BY <1>1, <2>4, <2>6, <2>7, <2>9, <3>1 DEF Esta
    <2>11. Simples'  BY <1>1, <2>6 DEF EnOrden, Simples
    <2>12. Terminados' = Terminados  BY <1>1 DEF Terminados, Programa
    <2>13. QED  BY <1>1, <2>1, <2>10, <2>11, <2>12, Movido
  <1>6. QED  BY <1>4, <1>5

\* Nobody moves, nobody ends, and no list has more processes.
LEMMA QuedanOrden ==
    ASSUME EnOrden, Quedan, Simples', UNCHANGED <<carga, pc>> PROVE EnOrden'
  <1>1. Terminados' = Terminados  BY DEF Terminados, Programa
  <1>2. QED  BY <1>1, QuedanSitio DEF EnOrden

\* The CPU receives a process: from the socket to the CPU.
LEMMA RecibeSitio == ASSUME InvTipos, EnOrden, UNCHANGED carga, CpuRecibe PROVE EnOrden'
  <1>1. /\ cpu.en = "libre" /\ a_cpu # <<>> /\ Head(a_cpu).tipo = "PCB" /\ cpu'.pid = Head(a_cpu).pid
        /\ a_cpu' = Tail(a_cpu) /\ a_cpu \in Seq(TRespuesta)
        /\ UNCHANGED <<carga, pc, ready, cola_io, flags, a_kernel, cola_recurso, hilo>>
    BY DEF CpuRecibe, contables, colas, InvTipos, ViajesOK
  <1>2. PICK q \in Pids : Head(a_cpu) = Pcb(q) /\ cpu'.pid = q
    <2>1. Head(a_cpu) \in TRespuesta  BY <1>1
    <2>2. Head(a_cpu) \in [tipo : {"PCB"}, pid : Pids]  BY <1>1, <2>1 DEF TRespuesta
    <2>3. QED  BY <1>1, <2>2 DEF Pcb
  <1>3. Pcb(q) \in TPcb  BY DEF Pcb, TPcb
  <1>4. Contains(a_cpu, Pcb(q)) /\ (\A x : Contains(a_cpu', x) => Contains(a_cpu, x)) /\ Simple(a_cpu', TPcb)
        /\ ~Contains(a_cpu', Pcb(q))
    BY <1>1, <1>2, <1>3, ContieneCola DEF EnOrden, Simples
  <1>5. Esta("socket", Nadie, q) /\ ~Esta("socket", Nadie, q)'  BY <1>4 DEF Esta
  <1>6. \A p : Ocupada(p)' => p = q  BY <1>2 DEF Ocupada
  <1>7. \A p : PorEncolar(p)' = PorEncolar(p)  BY <1>1 DEF PorEncolar, Despachador
  <1>8. Muda(q, "socket", Nadie, "cpu", Nadie)
    <2>1. SUFFICES ASSUME NEW p \in Pids, NEW x, NEW z, Esta(x, z, p)'
                   PROVE  Esta(x, z, p) \/ (p = q /\ x = "cpu" /\ z = Nadie)
      BY <1>5 DEF Muda
    <2>2. QED  BY <1>1, <1>4, <1>6, <1>7, <2>1 DEF Esta
  <1>9. Simples'  BY <1>1, <1>4 DEF EnOrden, Simples
  <1>10. Terminados' = Terminados  BY <1>1 DEF Terminados, Programa
  <1>11. QED  BY <1>8, <1>9, <1>10, Movido

\* An instruction after which the kernel ends the process ends it.
LEMMA EjecutaTermina ==
    ASSUME InvTipos, Curso, UNCHANGED carga, CpuEjecuta
    PROVE  Terminados' = Terminados \union {p \in {cpu.pid} : Final(Proxima)}
  <1>1. /\ cpu.pid \in Pids /\ pc' = [pc EXCEPT ![cpu.pid] = pc[cpu.pid] + 1] /\ pc \in [Pids -> Nat \ {0}]
        /\ Programa' = Programa
    BY EjecutaPide DEF InvTipos, ViajesOK, Programa
  <1>2. PICK q \in Pids, n \in Nat : q = cpu.pid /\ n = pc[q] /\ n >= 1  BY <1>1
  <1>3. pc'[q] - 1 = n /\ 1 .. n = 1 .. n - 1 \union {n} /\ pc[q] - 1 = n - 1
    <2>1. pc'[q] = n + 1  BY <1>1, <1>2
    <2>2. QED  BY <1>2, <2>1
  <1>4. \A p \in Pids : p # q => pc'[p] = pc[p]  BY <1>1, <1>2
  <1>5. Proxima = Programa[q][n]  BY <1>2 DEF Proxima
  <1>6. q \in Terminados' <=> q \in Terminados \/ Final(Proxima)  BY <1>1, <1>3, <1>5 DEF Terminados
  <1>7. \A p : p # q => (p \in Terminados' <=> p \in Terminados)  BY <1>1, <1>4 DEF Terminados
  <1>8. QED  BY <1>2, <1>6, <1>7

\* A message that is not one of an I/O.
LEMMA OtroPedido ==
    ASSUME InvTipos, Simple(a_kernel, PedidosIO), NEW m \in TPedido, m.motivo # "OPERACION_IO"
    PROVE  Menos(a_kernel, Append(a_kernel, m), PedidosIO)
  <1>1. m \notin PedidosIO  BY DEF PedidosIO, PedidoIO
  <1>2. a_kernel \in Seq(TPedido)  BY DEF InvTipos, ViajesOK
  <1>3. \A x : Contains(Append(a_kernel, m), x) <=> Contains(a_kernel, x) \/ x = m  BY <1>2, ContieneMas
  <1>4. Simple(Append(a_kernel, m), PedidosIO)  BY <1>1, <1>2, ContieneMas
  <1>5. QED  BY <1>1, <1>3, <1>4 DEF Menos

\* Whoever executes is in the CPU.
LEMMA EjecutaOcupa ==
    ASSUME InvTipos, Curso, TerminaYa, UNCHANGED carga, CpuEjecuta
    PROVE  cpu.pid \in Pids /\ Ocupada(cpu.pid) /\ cpu.pid \notin Terminados /\ flags = {}
  <1>1. FaseLibre /\ cpu.pid \in Pids  BY EjecutaPide
  <1>2. cpu.en = "ciclo" /\ flags = {}  BY DEF CpuEjecuta
  <1>3. \A k \in 1 .. Len(a_cpu) : a_cpu[k] \in TPcb  BY <1>1 DEF FaseLibre, SoloPcbs
  <1>4. QED  BY <1>1, <1>2, <1>3 DEF Ocupada, TPcb, TerminaYa

\* An instruction is executed: IO takes its process from the CPU to the socket of the kernel.
LEMMA EjecutaSitio ==
    ASSUME InvTipos, Curso, EnOrden, TerminaYa, UNCHANGED carga, CpuEjecuta PROVE EnOrden'
  <1>1. PICK q \in Pids : q = cpu.pid /\ Ocupada(q) /\ q \notin Terminados /\ flags = {} /\ cpu.en = "ciclo"
    BY EjecutaOcupa DEF CpuEjecuta
  <1>2. /\ UNCHANGED <<ready, cola_io, a_cpu, cola_recurso, hilo>> /\ Proxima \in Instrucciones /\ cpu'.pid = q
        /\ a_kernel \in Seq(TPedido) /\ cpu \in TCpu
    BY <1>1, EjecutaPide DEF CpuEjecuta, contables, colas, InvTipos, ViajesOK
  <1>3. \A p : PorEncolar(p)' = PorEncolar(p)  BY <1>2 DEF PorEncolar, Despachador
  <1>4. Esta("cpu", Nadie, q)  BY <1>1 DEF Esta
  <1>5. \A p : Ocupada(p)' => Ocupada(p)  BY <1>1, <1>2 DEF Ocupada
  <1>6. Simple(a_kernel, PedidosIO)  BY DEF EnOrden, Simples
  <1>7. \A p \in Pids : PedidoIO(p) \in PedidosIO  BY DEF PedidosIO
  <1>8. CASE Proxima.op = "IO"
    <2>1. PICK m \in TPedido : m = PedidoIO(q)  BY DEF TPedido, PedidoIO, Motivos
    <2>2. a_kernel' = Append(a_kernel, m) /\ flags' = {"input_ouput"}
      <3>1. a_kernel' = a_kernel \o <<m>> /\ flags' = {"input_ouput"}
        BY <1>1, <1>8, <2>1 DEF CpuEjecuta, Enviar, PedidoIO
      <3>2. a_kernel \o <<m>> = Append(a_kernel, m)  BY <1>2
      <3>3. QED  BY <3>1, <3>2
    <2>3. \A p : ~Ocupada(p)'  BY <2>2 DEF Ocupada
    <2>4. ~Contains(a_kernel, m)
      <3>1. ~Esta("mensaje", Nadie, q)  BY <1>4, NoOtro DEF EnOrden
      <3>2. QED  BY <2>1, <3>1 DEF Esta
    <2>5. (\A x : Contains(a_kernel', x) <=> Contains(a_kernel, x) \/ x = m) /\ Simple(a_kernel', PedidosIO)
      BY <1>2, <1>6, <2>2, <2>4, ContieneMas
    <2>6. \A p : PedidoIO(p) = PedidoIO(q) => p = q  BY DEF PedidoIO
    <2>7. ~Esta("cpu", Nadie, q)'  BY <2>3 DEF Esta
    <2>8. Muda(q, "cpu", Nadie, "mensaje", Nadie)
      <3>1. SUFFICES ASSUME NEW p \in Pids, NEW x, NEW z, Esta(x, z, p)'
                     PROVE  Esta(x, z, p) \/ (p = q /\ x = "mensaje" /\ z = Nadie)
        BY <1>4, <2>7 DEF Muda
      <3>2. QED  BY <1>2, <1>3, <2>1, <2>3, <2>5, <2>6, <3>1 DEF Esta
    <2>9. Simples'  BY <1>2, <2>5 DEF EnOrden, Simples
    <2>10. Terminados' = Terminados
      <3>1. ~Final(Proxima)  BY <1>8 DEF Final
      <3>2. QED  BY <3>1, EjecutaTermina
    <2>11. QED  BY <1>1, <2>8, <2>9, <2>10, Movido
  <1>9. CASE Proxima.op # "IO"
    <2>1. Menos(a_kernel, a_kernel', PedidosIO)
      <3>1. CASE Proxima.op \in {"WAIT", "SIGNAL"}
        <4>1. PICK m \in TPedido : m = Mensaje(q, Proxima) /\ m.motivo # "OPERACION_IO"
          <5>1. Proxima.recurso \in Recursos \union {Nadie, Inexistente}  BY <1>2 DEF Instrucciones
          <5>2. PICK t \in {"WAIT_SOLICITADO", "SIGNAL_SOLICITADO"} :
                   Mensaje(q, Proxima) = [motivo |-> t, pid |-> q, recurso |-> Proxima.recurso]
            BY DEF Mensaje
          <5>3. QED  BY <5>1, <5>2 DEF TPedido, Motivos
        <4>2. a_kernel' = a_kernel \o <<m>>  BY <1>1, <3>1, <4>1 DEF CpuEjecuta, Enviar, Mensaje
        <4>3. a_kernel' = Append(a_kernel, m)  BY <1>2, <4>2
        <4>4. QED  BY <1>6, <4>1, <4>3, OtroPedido
      <3>2. CASE Proxima.op \notin {"WAIT", "SIGNAL"}
        <4>1. a_kernel' = a_kernel \o <<>>  BY <1>9, <3>2 DEF CpuEjecuta
        <4>2. a_kernel' = a_kernel  BY <1>2, <4>1
        <4>3. QED  BY <4>2, MenosIguales
      <3>3. QED  BY <3>1, <3>2
    <2>2. Quedan
      <3>1. SUFFICES ASSUME NEW p \in Pids, NEW x, NEW z, Esta(x, z, p)' PROVE Esta(x, z, p)  BY DEF Quedan
      <3>2. QED  BY <1>2, <1>3, <1>5, <1>7, <2>1, <3>1 DEF Esta, Menos
    <2>3. UnSitio'  BY <2>2, QuedanSitio DEF EnOrden
    <2>4. Simples'  BY <1>2, <2>1 DEF EnOrden, Simples, Menos
    <2>5. Acabados'
      <3>1. SUFFICES ASSUME NEW p \in Terminados', NEW x, NEW z, Esta(x, z, p)' PROVE x = "cpu"  BY DEF Acabados
      <3>2. p \in Terminados \/ p = q  BY <1>1, EjecutaTermina
      <3>3. p \in Pids  BY <1>1, <3>2 DEF Terminados
      <3>4. Esta(x, z, p)  BY <2>2, <3>1, <3>3 DEF Quedan
      <3>5. CASE p = q  BY <1>4, <3>4, <3>5 DEF EnOrden, UnSitio
      <3>6. CASE p \in Terminados  BY <3>4, <3>6 DEF EnOrden, Acabados
      <3>7. QED  BY <3>2, <3>5, <3>6
    <2>6. QED  BY <2>3, <2>4, <2>5 DEF EnOrden
  <1>10. QED  BY <1>8, <1>9

\* The CPU lets its process go.
LEMMA TerminaSuelta ==
    ASSUME InvTipos, SinQuantum, CpuTermina
    PROVE  /\ flags' = {} /\ cpu'.en = "libre" /\ UNCHANGED <<pc, ready, cola_io, a_cpu, cola_recurso, hilo>>
           /\ \/ a_kernel' = a_kernel
              \/ \E m \in TPedido : /\ m.motivo \in {"END_PROCESS", "RESOURCE_BLOCKED"}
                                    /\ a_kernel' = Append(a_kernel, m)
  <1>1. /\ cpu'.en = "libre" /\ UNCHANGED <<pc, ready, cola_io, a_cpu, cola_recurso, hilo>> /\ flags # {}
        /\ flags \in {{"end_process"}, {"input_ouput"}, {"bloqueado_por_resource"}}
    BY DEF CpuTermina, contables, colas, SinQuantum
  <1>2. PICK q \in Pids : q = cpu.pid  BY DEF CpuTermina, InvTipos, ViajesOK, TCpu
  <1>3. a_kernel \in Seq(TPedido)  BY DEF InvTipos, ViajesOK
  <1>4. \A t \in {"END_PROCESS", "RESOURCE_BLOCKED"} :
           \E m \in TPedido : m.motivo = t /\ Enviar(t, Nadie) = <<m>>
    <2>1. SUFFICES ASSUME NEW t \in {"END_PROCESS", "RESOURCE_BLOCKED"}
                   PROVE  \E m \in TPedido : m.motivo = t /\ Enviar(t, Nadie) = <<m>>
      OBVIOUS
    <2>2. PICK m \in TPedido : m = [motivo |-> t, pid |-> cpu.pid, recurso |-> Nadie]  BY <1>2 DEF TPedido, Motivos
    <2>3. QED  BY <2>2 DEF Enviar
  <1>5. \A m \in TPedido : a_kernel \o <<m>> = Append(a_kernel, m) /\ a_kernel \o <<>> \o <<m>> = Append(a_kernel, m)
    BY <1>3
  <1>6. a_kernel \o <<>> \o <<>> = a_kernel  BY <1>3
  <1>7. CASE flags = {"end_process"}
    <2>1. flags' = {} /\ a_kernel' = a_kernel \o Enviar("END_PROCESS", Nadie)  BY <1>7 DEF CpuTermina
    <2>2. QED  BY <1>1, <1>4, <1>5, <2>1
  <1>8. CASE flags = {"bloqueado_por_resource"}
    <2>1. flags' = {} /\ a_kernel' = a_kernel \o <<>> \o Enviar("RESOURCE_BLOCKED", Nadie)  BY <1>8 DEF CpuTermina
    <2>2. QED  BY <1>1, <1>4, <1>5, <2>1
  <1>9. CASE flags = {"input_ouput"}
    <2>1. flags' = {} /\ a_kernel' = a_kernel \o <<>> \o <<>>  BY <1>9 DEF CpuTermina
    <2>2. QED  BY <1>1, <1>6, <2>1
  <1>10. QED  BY <1>1, <1>7, <1>8, <1>9

\* When the CPU lets go of its process it goes nowhere: who must have it has it already.
LEMMA TerminaSitio == ASSUME InvTipos, EnOrden, SinQuantum, UNCHANGED carga, CpuTermina PROVE EnOrden'
  <1>1. cpu'.en = "libre" /\ UNCHANGED <<pc, ready, cola_io, a_cpu, cola_recurso, hilo>>  BY TerminaSuelta
  <1>2. Simple(a_kernel, PedidosIO)  BY DEF EnOrden, Simples
  <1>3. Menos(a_kernel, a_kernel', PedidosIO)
    <2>1. CASE a_kernel' = a_kernel  BY <2>1, MenosIguales
    <2>2. CASE a_kernel' # a_kernel
      <3>1. PICK m \in TPedido : m.motivo \in {"END_PROCESS", "RESOURCE_BLOCKED"} /\ a_kernel' = Append(a_kernel, m)
        BY <2>2, TerminaSuelta
      <3>2. QED  BY <1>2, <3>1, OtroPedido
    <2>3. QED  BY <2>1, <2>2
  <1>4. \A p : ~Ocupada(p)' /\ (PorEncolar(p)' = PorEncolar(p))  BY <1>1 DEF Ocupada, PorEncolar, Despachador
  <1>5. \A p \in Pids : PedidoIO(p) \in PedidosIO  BY DEF PedidosIO
  <1>6. Quedan
    <2>1. SUFFICES ASSUME NEW p \in Pids, NEW x, NEW z, Esta(x, z, p)' PROVE Esta(x, z, p)  BY DEF Quedan
    <2>2. QED  BY <1>1, <1>3, <1>4, <1>5, <2>1 DEF Esta, Menos
  <1>7. Simples'  BY <1>1, <1>3 DEF EnOrden, Simples, Menos
  <1>8. QED  BY <1>1, <1>6, <1>7, QuedanOrden

\* The CPU hears the answer, or looks for interruptions.
LEMMA RespuestaSitio ==
    ASSUME InvTipos, Curso, EnOrden, UNCHANGED carga, CpuRespuesta, vivo'
    PROVE  EnOrden' /\ a_cpu \in Seq(TRespuesta) /\ a_cpu # <<>> /\ Head(a_cpu).tipo # "PCB" /\ cpu'.pid = cpu.pid
           /\ cpu'.en = "chequear"
  <1>1. /\ cpu.en = "espera" /\ a_cpu # <<>> /\ a_cpu' = Tail(a_cpu) /\ Head(a_cpu).tipo # "PCB"
        /\ cpu'.pid = cpu.pid /\ cpu'.en = "chequear" /\ flags \subseteq flags'
        /\ Head(a_cpu).tipo = "RESOURCE_BLOCKED" => "bloqueado_por_resource" \in flags'
        /\ UNCHANGED <<ready, cola_io, a_kernel, cola_recurso, hilo, pc>> /\ a_cpu \in Seq(TRespuesta)
    BY DEF CpuRespuesta, contables, colas, InvTipos, ViajesOK, TCpu
  <1>2. Menos(a_cpu, a_cpu', TPcb)  BY <1>1, MenosCasos DEF EnOrden, Simples
  <1>3. ASSUME NEW p, Ocupada(p)' PROVE Ocupada(p)
    <2>1. Head(a_cpu).tipo # "RESOURCE_BLOCKED"  BY <1>1, <1>3 DEF Ocupada
    <2>2. ASSUME NEW k \in 1 .. Len(a_cpu) PROVE a_cpu[k].tipo # "RESOURCE_BLOCKED"
      <3>1. CASE k = 1  BY <1>1, <2>1, <3>1
      <3>2. CASE k # 1
        <4>1. k - 1 \in 1 .. Len(a_cpu') /\ a_cpu'[k - 1] = a_cpu[k]  BY <1>1, <2>2, <3>2
        <4>2. QED  BY <1>3, <4>1 DEF Ocupada
      <3>3. QED  BY <3>1, <3>2
    <2>3. QED  BY <1>1, <1>3, <2>2 DEF Ocupada
  <1>4. \A p : PorEncolar(p)' = PorEncolar(p)  BY <1>1 DEF PorEncolar, Despachador
  <1>5. \A p \in Pids : Pcb(p) \in TPcb  BY DEF Pcb, TPcb
  <1>6. Quedan
    <2>1. SUFFICES ASSUME NEW p \in Pids, NEW x, NEW z, Esta(x, z, p)' PROVE Esta(x, z, p)  BY DEF Quedan
    <2>2. QED  BY <1>1, <1>2, <1>3, <1>4, <1>5, <2>1 DEF Esta, Menos
  <1>7. Simples'  BY <1>1, <1>2 DEF EnOrden, Simples, Menos
  <1>8. EnOrden'  BY <1>1, <1>6, <1>7, QuedanOrden
  <1>9. QED  BY <1>1, <1>8

\* check_interrupt, without quanta, finds nothing.
LEMMA ChequeaSitio ==
    ASSUME InvTipos, EnOrden, ~carga.quantum, UNCHANGED carga, CpuChequea
    PROVE  EnOrden' /\ UNCHANGED <<flags, pc, a_cpu, a_kernel, hilo>> /\ cpu'.pid = cpu.pid /\ cpu.en = "chequear"
           /\ cpu'.en = "ciclo"
  <1>1. /\ cpu.en = "chequear" /\ cpu'.en = "ciclo" /\ cpu'.pid = cpu.pid
        /\ UNCHANGED <<flags, pc, a_cpu, a_kernel, hilo, ready, cola_io, cola_recurso>>
    BY DEF CpuChequea, contables, colas, InvTipos, ViajesOK, TCpu
  <1>2. \A p : (PorEncolar(p)' = PorEncolar(p)) /\ (Ocupada(p)' => Ocupada(p))
    BY <1>1 DEF PorEncolar, Despachador, Ocupada
  <1>3. Quedan
    <2>1. SUFFICES ASSUME NEW p \in Pids, NEW x, NEW z, Esta(x, z, p)' PROVE Esta(x, z, p)  BY DEF Quedan
    <2>2. QED  BY <1>1, <1>2, <2>1 DEF Esta
  <1>4. Simples'  BY <1>1 DEF EnOrden, Simples
  <1>5. QED  BY <1>1, <1>3, <1>4, QuedanOrden

\* Nobody is sent back to READY in the middle.
LEMMA NoDesaloja == ASSUME InvTipos, SinQuantum PROVE ~Desalojar
  <1>1. SUFFICES ASSUME Toca("dispatch", "desalojar") PROVE FALSE  BY DEF Desalojar
  <1>2. Despachador.pasos \in Seq(UnPaso) /\ Despachador.pasos # <<>> /\ Head(Despachador.pasos).op = "desalojar"
    BY <1>1 DEF InvTipos, THilo, Toca, Despachador, DispatchOK, TienePids
  <1>3. PICK O : O = {"desalojar"}  OBVIOUS
  <1>4. Head(Despachador.pasos).op \in O => Con(Despachador.pasos, O)  BY <1>2, ConCola
  <1>5. QED  BY <1>2, <1>3, <1>4 DEF SinQuantum

\* Each process is in one place while nobody has quanta.
LEMMA EnOrdenNext ==
    ASSUME InvTipos, Curso, EnOrden, SinQuantum, TerminaYa, ~carga.quantum, Next, vivo' PROVE EnOrden'
  <1>1. UNCHANGED carga  BY DEF Next
  <1>2. CASE Despachar \/ TerminarIO  BY <1>1, <1>2, DespacharSitio, TerminarIOSitio
  <1>3. ASSUME NEW h \in Hilos, SumarInstancia(h) PROVE EnOrden'
    <2>1. CASE Sumar(h) \/ Mirar(h) \/ Buscar(h)  BY <1>1, <2>1, SumaQuieta
    <2>2. CASE Sacar(h)  BY <1>1, <2>2, SacarSitio
    <2>3. CASE Desbloquear(h)  BY <1>1, <2>3, DesbloquearSitio
    <2>4. QED  BY <1>3, <2>1, <2>2, <2>3 DEF SumarInstancia
  <1>4. CASE Dispatch
    <2>1. CASE Recibir  BY <1>1, <2>1, RecibirSitio
    <2>2. CASE EncolarIO \/ Encolar  BY <1>1, <2>2, EncolarIOSitio, EncolarSitio
    <2>3. CASE Leer  BY <1>1, <2>3, LeerSitio
    <2>4. CASE Restar \/ Bloquear \/ LiberarCpu \/ RestarRetenida \/ Fallar \/ Finalizar
      BY <1>1, <2>4, DispatchQuieto
    <2>5. CASE SumarInstancia("dispatch")  BY <1>3, <2>5 DEF Hilos
    <2>6. QED  BY <1>4, <2>1, <2>2, <2>3, <2>4, <2>5, NoDesaloja DEF Dispatch
  <1>5. CASE Eliminacion
    <2>1. CASE EliminarProceso \/ Quitar \/ Devolver \/ Destruir  BY <1>1, <2>1, ElimQuieta
    <2>2. CASE SumarInstancia("eliminacion")  BY <1>3, <2>2 DEF Hilos
    <2>3. QED  BY <1>5, <2>1, <2>2 DEF Eliminacion
  <1>6. CASE Cpu
    <2>1. CASE CpuRecibe \/ CpuEjecuta  BY <1>1, <2>1, RecibeSitio, EjecutaSitio
    <2>2. CASE CpuRespuesta  BY <1>1, <2>2, RespuestaSitio
    <2>3. CASE CpuChequea \/ CpuTermina  BY <1>1, <2>3, ChequeaSitio, TerminaSitio
    <2>4. QED  BY <1>6, <2>1, <2>2, <2>3 DEF Cpu
  <1>7. QED  BY <1>2, <1>4, <1>5, <1>6 DEF Next

\* Nobody is told that its quantum is over.
LEMMA RelojNext ==
    ASSUME InvTipos, Curso, SinQuantum, ~carga.quantum, Next, vivo' PROVE a_kernel' \in Seq(SinReloj)
  <1>1. a_kernel \in Seq(SinReloj) /\ a_kernel \in Seq(TPedido)  BY DEF SinQuantum, InvTipos, ViajesOK
  <1>2. UNCHANGED carga  BY DEF Next
  <1>3. \A m \in SinReloj : a_kernel \o <<m>> \in Seq(SinReloj) /\ Append(a_kernel, m) \in Seq(SinReloj)  BY <1>1
  <1>4. a_kernel \o <<>> \in Seq(SinReloj)  BY <1>1
  <1>5. CASE Recibir  BY <1>1, <1>5 DEF Recibir
  <1>6. CASE CpuEjecuta
    <2>1. PICK q \in Pids, i \in Instrucciones : q = cpu.pid /\ i = Proxima  BY <1>2, <1>6, EjecutaPide
    <2>2. i.recurso \in Recursos \union {Nadie, Inexistente}  BY <2>1 DEF Instrucciones
    <2>3. \A t \in {"WAIT_SOLICITADO", "SIGNAL_SOLICITADO", "OPERACION_IO"} :
             \A r \in Recursos \union {Nadie, Inexistente} : [motivo |-> t, pid |-> q, recurso |-> r] \in SinReloj
      BY DEF SinReloj, TPedido, Motivos
    <2>4. a_kernel' = a_kernel \o <<>> \/ \E m \in SinReloj : a_kernel' = a_kernel \o <<m>>
      <3>1. CASE i.op \in {"WAIT", "SIGNAL"}
        <4>1. PICK t \in {"WAIT_SOLICITADO", "SIGNAL_SOLICITADO"} : a_kernel' = a_kernel \o Enviar(t, i.recurso)
          BY <1>6, <2>1, <3>1 DEF CpuEjecuta
        <4>2. QED  BY <2>1, <2>2, <2>3, <4>1 DEF Enviar
      <3>2. CASE i.op \notin {"WAIT", "SIGNAL"}
        <4>1. a_kernel' = a_kernel \o <<>> \/ a_kernel' = a_kernel \o Enviar("OPERACION_IO", Nadie)
          BY <1>6, <2>1, <3>2 DEF CpuEjecuta
        <4>2. QED  BY <2>1, <2>3, <4>1 DEF Enviar
      <3>3. QED  BY <3>1, <3>2
    <2>5. QED  BY <1>3, <1>4, <2>4
  <1>7. CASE CpuTermina
    <2>1. CASE a_kernel' = a_kernel  BY <1>1, <2>1
    <2>2. CASE a_kernel' # a_kernel
      <3>1. PICK m \in TPedido : m.motivo \in {"END_PROCESS", "RESOURCE_BLOCKED"} /\ a_kernel' = Append(a_kernel, m)
        BY <1>7, <2>2, TerminaSuelta
      <3>2. m \in SinReloj  BY <3>1 DEF SinReloj
      <3>3. QED  BY <1>3, <3>1, <3>2
    <2>3. QED  BY <2>1, <2>2
  <1>8. CASE UNCHANGED a_kernel  BY <1>1, <1>8
  <1>9. Despachar \/ TerminarIO \/ Eliminacion => UNCHANGED a_kernel  BY ElimMarco DEF Despachar, TerminarIO
  <1>10. Dispatch => UNCHANGED a_kernel \/ Recibir
    BY DEF Dispatch, EncolarIO, Restar, Leer, Encolar, Bloquear, LiberarCpu, RestarRetenida, Fallar, Finalizar,
       Desalojar, SumarInstancia, Sumar, Mirar, Sacar, Buscar, Desbloquear
  <1>11. Cpu => UNCHANGED a_kernel \/ CpuEjecuta \/ CpuTermina  BY DEF Cpu, CpuRecibe, CpuRespuesta, CpuChequea
  <1>12. QED  BY <1>5, <1>6, <1>7, <1>8, <1>9, <1>10, <1>11 DEF Next

\* Only who is told so sends a process back to READY.
LEMMA PasosDeDesalojar ==
    ASSUME NEW m \in SinReloj, NEW O, O \cap {"fallar", "liberar_cpu", "finalizar", "bloquear", "encolar_io", "restar", "leer",
           "sumar", "mirar", "restar_retenida"} = {}
    PROVE  ~Con(PasosDe(m), O)
  <1>1. PICK e \in UnPaso, b \in UnPaso, c \in UnPaso, g \in UnPaso, f \in UnPaso :
           /\ e = Paso("fallar", Nadie) /\ b = Paso("liberar_cpu", Nadie) /\ c = Paso("finalizar", Nadie)
           /\ g = Paso("bloquear", Nadie) /\ f = Paso("encolar_io", Nadie)
           /\ e.op = "fallar" /\ b.op = "liberar_cpu" /\ c.op = "finalizar" /\ g.op = "bloquear" /\ f.op = "encolar_io"
    BY PasoTipo DEF Pasos
  <1>2. CASE m.recurso \in Recursos
    <2>1. PICK r \in Recursos : r = m.recurso  BY <1>2
    <2>2. PICK a \in UnPaso, d \in UnPaso, s \in UnPaso, k \in UnPaso, n \in UnPaso :
             /\ a = Paso("restar", r) /\ d = Paso("leer", r) /\ s = Paso("sumar", r) /\ k = Paso("mirar", r)
             /\ n = Paso("restar_retenida", r)
             /\ a.op = "restar" /\ d.op = "leer" /\ s.op = "sumar" /\ k.op = "mirar" /\ n.op = "restar_retenida"
      BY PasoTipo DEF Pasos
    <2>3. PasosDe(m) = <<a, d>> \/ PasosDe(m) = <<s, k>> \o <<n>>  BY <1>2, <2>1, <2>2 DEF PasosDe, PasosSumar
    <2>4. /\ Con(<<a, d>>, O) <=> a.op \in O \/ d.op \in O
          /\ Con(<<s, k>>, O) <=> s.op \in O \/ k.op \in O
          /\ Con(<<n>>, O) <=> n.op \in O
      BY ConPocos
    <2>5. <<s, k>> \in Seq(UnPaso) /\ <<n>> \in Seq(UnPaso)  OBVIOUS
    <2>6. Con(<<s, k>> \o <<n>>, O) <=> Con(<<s, k>>, O) \/ Con(<<n>>, O)  BY <2>5, ConJunto
    <2>7. QED  BY <2>2, <2>3, <2>4, <2>6
  <1>3. CASE m.recurso \notin Recursos
    <2>1. PasosDe(m) \in {<<e, b, c>>, <<e, c, b>>, <<c, b>>, <<g, f, b>>, <<>>}
      BY <1>1, <1>3 DEF PasosDe, SinReloj, TPedido, Motivos
    <2>2. /\ Con(<<e, b, c>>, O) <=> e.op \in O \/ b.op \in O \/ c.op \in O
          /\ Con(<<e, c, b>>, O) <=> e.op \in O \/ c.op \in O \/ b.op \in O
          /\ Con(<<c, b>>, O) <=> c.op \in O \/ b.op \in O
          /\ Con(<<g, f, b>>, O) <=> g.op \in O \/ f.op \in O \/ b.op \in O
          /\ ~Con(<<>>, O)
      BY ConPocos
    <2>3. QED  BY <1>1, <2>1, <2>2
  <1>4. QED  BY <1>2, <1>3

\* recibir_dispatch never has to send a process back to READY.
LEMMA DesalojarNext ==
    ASSUME InvTipos, Curso, SinQuantum, Next PROVE ~Con(Despachador'.pasos, {"desalojar"})
  <1> DEFINE O == {"desalojar"}
  <1>1. ~Con(Despachador.pasos, O) /\ UNCHANGED carga  BY DEF SinQuantum, Next
  <1>2. UNCHANGED Despachador => ~Con(Despachador'.pasos, O)  BY <1>1
  <1>3. Despachar \/ TerminarIO \/ Eliminacion \/ Cpu => UNCHANGED Despachador
    BY ElimMarco DEF Despachar, TerminarIO, Cpu, CpuRecibe, CpuEjecuta, CpuRespuesta, CpuChequea, CpuTermina, Despachador
  <1>4. CASE Recibir
    <2>1. Despachador'.pasos = PasosDe(Head(a_kernel)) /\ a_kernel # <<>>  BY <1>4, RecibirHilo
    <2>2. a_kernel \in Seq(SinReloj)  BY DEF SinQuantum
    <2>3. PICK m \in SinReloj : m = Head(a_kernel)  BY <2>1, <2>2
    <2>4. ~Con(PasosDe(m), O)  BY PasosDeDesalojar
    <2>5. QED  BY <2>1, <2>3, <2>4
  <1>5. CASE EncolarIO \/ Restar \/ Encolar \/ Bloquear \/ LiberarCpu \/ RestarRetenida \/ Fallar \/ Finalizar
    <2>1. Despachador.pasos # <<>> /\ Hecho("dispatch")
      BY <1>5 DEF EncolarIO, Restar, Encolar, Bloquear, LiberarCpu, RestarRetenida, Fallar, Finalizar, Toca, Despachador
    <2>2. Despachador.pasos \in Seq(UnPaso) /\ Despachador'.pasos = Tail(Despachador.pasos)
      BY <2>1, HechoDespachador
    <2>3. Con(Tail(Despachador.pasos), O) => Con(Despachador.pasos, O)  BY <2>1, <2>2, ConCola
    <2>4. QED  BY <1>1, <2>2, <2>3
  <1>6. CASE Leer
    <2>1. PICK r \in Recursos, q \in Seq(UnPaso) :
             /\ Despachador'.pasos = q
             /\ NoQueda(r) => q = <<Paso("encolar", r), Paso("bloquear", r), Paso("liberar_cpu", r)>>
             /\ ~NoQueda(r) => q = <<>>
      BY <1>1, <1>6, LeerHilo
    <2>2. PICK a \in UnPaso, b \in UnPaso, c \in UnPaso :
             /\ a = Paso("encolar", r) /\ b = Paso("bloquear", r) /\ c = Paso("liberar_cpu", r)
             /\ a.op = "encolar" /\ b.op = "bloquear" /\ c.op = "liberar_cpu"
      BY PasoTipo DEF Pasos
    <2>3. (Con(<<a, b, c>>, O) <=> a.op \in O \/ b.op \in O \/ c.op \in O) /\ ~Con(<<>>, O)  BY ConPocos
    <2>4. CASE NoQueda(r)
      <3>1. q = <<a, b, c>>  BY <2>1, <2>2, <2>4
      <3>2. QED  BY <2>1, <2>2, <2>3, <3>1
    <2>5. CASE ~NoQueda(r)
      <3>1. q = <<>>  BY <2>1, <2>5
      <3>2. QED  BY <2>1, <2>3, <3>1
    <2>6. QED  BY <2>4, <2>5
  <1>7. CASE SumarInstancia("dispatch")
    <2>1. Despachador.pasos # <<>> /\ Head(Despachador.pasos).op \in OpsSuma
      BY <1>7 DEF SumarInstancia, Sumar, Mirar, Sacar, Buscar, Desbloquear, Toca, OpsSuma, Despachador
    <2>2. PICK r \in Recursos, v \in Seq(UnPaso) : v # <<>> /\ Head(v).op \notin OpsSuma
             /\ Sumando(Despachador.pasos, v, r) /\ Sumando(Despachador'.pasos, v, r)
      <3>1. "dispatch" \in Hilos  BY DEF Hilos
      <3>2. PICK r \in Recursos, v \in Seq(UnPaso) : /\ v # <<>> /\ Head(v).op \notin OpsSuma
                /\ Sumando(hilo["dispatch"].pasos, v, r) /\ Recurso("dispatch") = r
        BY <2>1, <3>1, SumandoHilo DEF Despachador
      <3>3. hilo \in [Hilos -> THilo] /\ TienePids(hilo["dispatch"])  BY DEF InvTipos, DispatchOK
      <3>4. Sumando(hilo'["dispatch"].pasos, v, r)  BY <1>7, <3>1, <3>2, <3>3, SumaHilo DEF InvTipos, DatosOK
      <3>5. QED  BY <3>2, <3>4 DEF Despachador
    <2>3. OpsSuma \cap O = {}  BY DEF OpsSuma
    <2>4. (Con(Despachador.pasos, O) <=> Con(v, O)) /\ (Con(Despachador'.pasos, O) <=> Con(v, O))
      BY <2>2, <2>3, ConSumando
    <2>5. QED  BY <1>1, <2>4
  <1>8. QED  BY <1>2, <1>3, <1>4, <1>5, <1>6, <1>7, NoDesaloja DEF Next, Dispatch

\* The CPU has one flag up at a time, and none while it is free or waits.
LEMMA FlagsNext ==
    ASSUME InvTipos, SinQuantum, ~carga.quantum, Next
    PROVE  /\ flags' \in {{}, {"end_process"}, {"input_ouput"}, {"bloqueado_por_resource"}}
           /\ cpu'.en \in {"libre", "espera"} => flags' = {}
  <1>1. /\ flags \in {{}, {"end_process"}, {"input_ouput"}, {"bloqueado_por_resource"}}
        /\ cpu.en \in {"libre", "espera"} => flags = {}
        /\ cpu \in TCpu /\ UNCHANGED carga
    BY DEF SinQuantum, InvTipos, ViajesOK, Next
  <1>2. Despachar \/ TerminarIO \/ Dispatch \/ Eliminacion => UNCHANGED <<cpu, flags>>
    BY DispatchMarco, ElimMarco DEF Despachar, TerminarIO, cpuVars
  <1>3. CASE CpuRecibe  BY <1>1, <1>3 DEF CpuRecibe
  <1>4. CASE CpuEjecuta
    <2>1. flags = {}  BY <1>4 DEF CpuEjecuta
    <2>2. CASE Proxima.op \in {"WAIT", "SIGNAL"}
      <3>1. flags' = {}  BY <1>4, <2>1, <2>2 DEF CpuEjecuta
      <3>2. QED  BY <3>1
    <2>3. CASE Proxima.op \notin {"WAIT", "SIGNAL"}
      <3>1. flags' \in {{"end_process"}, {"input_ouput"}}  BY <1>4, <2>3 DEF CpuEjecuta
      <3>2. cpu'.en = "chequear"  BY <1>1, <1>4, <2>3 DEF CpuEjecuta, TCpu
      <3>3. QED  BY <3>1, <3>2
    <2>4. QED  BY <2>2, <2>3
  <1>5. CASE CpuRespuesta
    <2>1. flags = {} /\ cpu'.en = "chequear"  BY <1>1, <1>5 DEF CpuRespuesta, TCpu
    <2>2. CASE Head(a_cpu).tipo = "RESOURCE_FAIL"
      <3>1. flags' = {"end_process"}  BY <1>5, <2>1, <2>2 DEF CpuRespuesta
      <3>2. QED  BY <2>1, <3>1
    <2>3. CASE Head(a_cpu).tipo = "RESOURCE_BLOCKED"
      <3>1. flags' = {"bloqueado_por_resource"}  BY <1>5, <2>1, <2>3 DEF CpuRespuesta
      <3>2. QED  BY <2>1, <3>1
    <2>4. CASE Head(a_cpu).tipo \notin {"RESOURCE_FAIL", "RESOURCE_BLOCKED"}
      <3>1. flags' = {}  BY <1>5, <2>1, <2>4 DEF CpuRespuesta
      <3>2. QED  BY <2>1, <3>1
    <2>5. QED  BY <2>2, <2>3, <2>4
  <1>6. CASE CpuChequea
    <2>1. flags' = flags /\ cpu'.en = "ciclo"  BY <1>1, <1>6 DEF CpuChequea, TCpu
    <2>2. QED  BY <1>1, <2>1
  <1>7. CASE CpuTermina  BY <1>7, TerminaSuelta
  <1>8. CASE UNCHANGED <<cpu, flags>>  BY <1>1, <1>8
  <1>9. QED  BY <1>2, <1>3, <1>4, <1>5, <1>6, <1>7, <1>8 DEF Next, Cpu

\* Without quanta nobody is sent back by the clock.
LEMMA SinQuantumNext ==
    ASSUME InvTipos, Curso, SinQuantum, ~carga.quantum, Next, vivo' PROVE SinQuantum'
  <1>1. a_kernel' \in Seq(SinReloj)  BY RelojNext
  <1>2. ~Con(Despachador'.pasos, {"desalojar"})  BY DesalojarNext
  <1>3. /\ flags' \in {{}, {"end_process"}, {"input_ouput"}, {"bloqueado_por_resource"}}
        /\ cpu'.en \in {"libre", "espera"} => flags' = {}
    BY FlagsNext
  <1>4. QED  BY <1>1, <1>2, <1>3 DEF SinQuantum

\* What is sent to the CPU while its process has ended.
LEMMA MandadoSinBloqueos ==
    ASSUME InvTipos, Curso, TerminaYa, UNCHANGED <<carga, pc, cpu, flags>>,
           \/ a_cpu' = a_cpu
           \/ \E e \in SinBloqueos : a_cpu' = Append(a_cpu, e)
           \/ cpu.pid \notin Terminados
    PROVE  TerminaYa'
  <1>1. Terminados' = Terminados  BY DEF Terminados, Programa
  <1>2. \A e \in SinBloqueos : a_cpu \in Seq(SinBloqueos) => Append(a_cpu, e) \in Seq(SinBloqueos)  OBVIOUS
  <1>3. QED  BY <1>1, <1>2 DEF TerminaYa

\* A process that ends in the CPU leaves it without hearing that it waits.
LEMMA TerminaYaNext ==
    ASSUME InvTipos, Curso, EnOrden, SinQuantum, TerminaYa, ~carga.quantum, Next, vivo' PROVE TerminaYa'
  <1>1. UNCHANGED carga /\ cpu \in TCpu  BY DEF Next, InvTipos, ViajesOK
  <1>2. CASE Despachar
    <2>1. ready \in Seq(Pids) /\ ready # <<>>  BY <1>2 DEF Despachar, InvTipos, DatosOK
    <2>2. Head(ready) \in Pids  BY <2>1
    <2>3. Pcb(Head(ready)) \in SinBloqueos  BY <2>2 DEF Pcb, SinBloqueos, TRespuesta
    <2>4. QED  BY <1>1, <1>2, <2>3, MandadoSinBloqueos DEF Despachar, cpuVars
  <1>3. CASE TerminarIO \/ Eliminacion
    <2>1. UNCHANGED <<pc, cpu, flags, a_cpu>>  BY <1>3, ElimMarco DEF TerminarIO, cpuVars
    <2>2. QED  BY <1>1, <2>1, MandadoSinBloqueos
  <1>4. CASE Dispatch
    <2>1. UNCHANGED <<pc, cpu, flags>>  BY <1>4, DispatchMarco
    <2>2. CASE Leer
      <3>1. cpu.pid \notin Terminados  BY <1>1, <2>2, LeerHilo
      <3>2. QED  BY <1>1, <2>1, <3>1, MandadoSinBloqueos
    <2>3. CASE Fallar
      <3>1. Respuesta("RESOURCE_FAIL") \in SinBloqueos  BY DEF Respuesta, SinBloqueos, TRespuesta
      <3>2. QED  BY <1>1, <2>1, <2>3, <3>1, MandadoSinBloqueos DEF Fallar, Contestar
    <2>4. CASE RestarRetenida
      <3>1. FaseAtendido /\ Toca("dispatch", "restar_retenida")  BY <1>1, <2>4, CursoContestada DEF RestarRetenida
      <3>2. PICK r \in Recursos : Pedida.recurso = r  BY <1>1, <3>1, CursoAtendido DEF OpsAtender
      <3>3. cpu.pid \notin Terminados  BY <3>1, <3>2, PideSinTerminar DEF FaseAtendido
      <3>4. QED  BY <1>1, <2>1, <3>3, MandadoSinBloqueos
    <2>5. CASE ~(Leer \/ Fallar \/ RestarRetenida)
      <3>1. UNCHANGED a_cpu
        BY <1>4, <2>5 DEF Dispatch, Recibir, EncolarIO, Restar, Encolar, Bloquear, LiberarCpu, Finalizar,
           Desalojar, SumarInstancia, Sumar, Mirar, Sacar, Buscar, Desbloquear
      <3>2. QED  BY <1>1, <2>1, <3>1, MandadoSinBloqueos
    <2>6. QED  BY <2>2, <2>3, <2>4, <2>5
  <1>5. CASE CpuRecibe
    <2>1. a_cpu \in Seq(TRespuesta) /\ a_cpu # <<>> /\ Head(a_cpu).tipo = "PCB" /\ UNCHANGED pc /\ cpu'.pid = Head(a_cpu).pid
      BY <1>5 DEF CpuRecibe, InvTipos, ViajesOK
    <2>2. PICK q \in Pids : Head(a_cpu) = Pcb(q) /\ cpu'.pid = q
      <3>1. Head(a_cpu) \in TRespuesta  BY <2>1
      <3>2. Head(a_cpu) \in [tipo : {"PCB"}, pid : Pids]  BY <2>1, <3>1 DEF TRespuesta
      <3>3. QED  BY <2>1, <3>2 DEF Pcb
    <2>3. Contains(a_cpu, Pcb(q))  BY <2>1, <2>2, ContieneCola
    <2>4. Esta("socket", Nadie, q)  BY <2>3 DEF Esta
    <2>5. q \notin Terminados  BY <2>4, NoAcabado DEF EnOrden
    <2>6. Terminados' = Terminados  BY <1>1, <2>1 DEF Terminados, Programa
    <2>7. QED  BY <2>2, <2>5, <2>6 DEF TerminaYa
  <1>6. CASE CpuEjecuta
    <2>1. cpu.pid \in Pids /\ cpu.pid \notin Terminados /\ FaseLibre /\ cpu'.pid = cpu.pid /\ Proxima \in Instrucciones
      BY <1>1, <1>6, EjecutaOcupa, EjecutaPide
    <2>2. a_cpu' \in Seq(SinBloqueos)
      <3>1. TPcb \subseteq SinBloqueos  BY DEF TPcb, SinBloqueos, TRespuesta
      <3>2. a_cpu \in Seq(TPcb) /\ a_cpu' = a_cpu  BY <1>6, <2>1 DEF FaseLibre, SoloPcbs, CpuEjecuta
      <3>3. QED  BY <3>1, <3>2, SeqMayor
    <2>3. CASE Proxima.op \in {"WAIT", "SIGNAL"}
      <3>1. cpu'.en = "espera"  BY <1>1, <1>6, <2>3 DEF CpuEjecuta, TCpu
      <3>2. QED  BY <2>2, <3>1 DEF TerminaYa
    <2>4. CASE Proxima.op = "EXIT"
      <3>1. flags' = {"end_process"}  BY <1>6, <2>4 DEF CpuEjecuta
      <3>2. QED  BY <2>2, <3>1 DEF TerminaYa
    <2>5. CASE Proxima.op = "IO"
      <3>1. Terminados' = Terminados
        <4>1. ~Final(Proxima)  BY <2>5 DEF Final
        <4>2. QED  BY <1>1, <1>6, <4>1, EjecutaTermina
      <3>2. QED  BY <2>1, <3>1 DEF TerminaYa
    <2>6. QED  BY <2>1, <2>3, <2>4, <2>5 DEF Instrucciones
  <1>7. CASE CpuRespuesta
    <2>1. /\ a_cpu \in Seq(TRespuesta) /\ a_cpu # <<>> /\ Head(a_cpu).tipo # "PCB" /\ cpu'.pid = cpu.pid
          /\ cpu'.en = "chequear" /\ cpu.en = "espera" /\ a_cpu' = Tail(a_cpu) /\ UNCHANGED pc
      BY <1>1, <1>7, RespuestaSitio DEF CpuRespuesta
    <2>2. Terminados' = Terminados  BY <1>1, <2>1 DEF Terminados, Programa
    <2>3. ASSUME a_cpu \in Seq(SinBloqueos) PROVE "end_process" \in flags' /\ a_cpu' \in Seq(SinBloqueos)
      <3>1. Head(a_cpu) \in SinBloqueos /\ Tail(a_cpu) \in Seq(SinBloqueos)  BY <2>1, <2>3
      <3>2. Head(a_cpu).tipo = "RESOURCE_FAIL"  BY <2>1, <3>1 DEF SinBloqueos, TRespuesta
      <3>3. QED  BY <1>7, <2>1, <3>1, <3>2 DEF CpuRespuesta
    <2>4. QED  BY <2>1, <2>2, <2>3 DEF TerminaYa
  <1>8. CASE CpuChequea
    <2>1. UNCHANGED <<flags, pc, a_cpu>> /\ cpu'.pid = cpu.pid /\ cpu.en = "chequear"  BY <1>1, <1>8, ChequeaSitio
    <2>2. Terminados' = Terminados  BY <1>1, <2>1 DEF Terminados, Programa
    <2>3. QED  BY <2>1, <2>2 DEF TerminaYa
  <1>9. CASE CpuTermina
    <2>1. cpu'.en = "libre"  BY <1>9, TerminaSuelta
    <2>2. QED  BY <2>1 DEF TerminaYa
  <1>10. QED  BY <1>2, <1>3, <1>4, <1>5, <1>6, <1>7, <1>8, <1>9 DEF Next, Cpu

-----------------------------------------------------------------------------
(* estado_actual *)

\* A step that a thread has left and does not do now, it has left.
LEMMA ConResto ==
    ASSUME NEW s \in Seq(UnPaso), s # <<>>, NEW O, Con(s, O), Head(s).op \notin O PROVE Con(Tail(s), O)
  <1>1. PICK n \in Nat : n = Len(s) /\ n >= 1  OBVIOUS
  <1>2. PICK k \in 1 .. n : s[k].op \in O  BY <1>1 DEF Con
  <1>3. Head(s) = s[1]  BY <1>1
  <1>4. k # 1  BY <1>2, <1>3
  <1>5. k - 1 \in 1 .. n - 1 /\ Len(Tail(s)) = n - 1 /\ Tail(s)[k - 1] = s[k]  BY <1>1, <1>4
  <1>6. QED  BY <1>2, <1>5 DEF Con

\* Where the steps of recibir_dispatch, other than those of SIGNAL, come from.
LEMMA DispatchCon ==
    ASSUME InvTipos, Curso, UNCHANGED carga, Dispatch, NEW O, O \cap OpsSuma = {}
    PROVE  /\ ~Recibir => Despachador'.pid = Despachador.pid /\ Despachador.pasos # <<>>
           /\ SumarInstancia("dispatch") => (Con(Despachador'.pasos, O) <=> Con(Despachador.pasos, O))
           /\ ~Recibir /\ ~Leer /\ ~SumarInstancia("dispatch") =>
                 Despachador'.pasos = Tail(Despachador.pasos) /\ (Con(Despachador'.pasos, O) => Con(Despachador.pasos, O))
  <1>1. CASE EncolarIO \/ Restar \/ Encolar \/ Bloquear \/ LiberarCpu \/ RestarRetenida \/ Fallar \/ Finalizar \/ Desalojar
    <2>1. Despachador.pasos # <<>> /\ Hecho("dispatch")
      BY <1>1 DEF EncolarIO, Restar, Encolar, Bloquear, LiberarCpu, RestarRetenida, Fallar, Finalizar, Desalojar, Toca,
         Despachador
    <2>2. /\ Despachador.pasos \in Seq(UnPaso) /\ Despachador'.pasos = Tail(Despachador.pasos)
          /\ Despachador'.pid = Despachador.pid
      BY <2>1, HechoDespachador
    <2>3. Con(Tail(Despachador.pasos), O) => Con(Despachador.pasos, O)  BY <2>1, <2>2, ConCola
    <2>4. ~SumarInstancia("dispatch")
      <3>1. Head(Despachador.pasos).op \notin OpsSuma
        BY <1>1 DEF EncolarIO, Restar, Encolar, Bloquear, LiberarCpu, RestarRetenida, Fallar, Finalizar, Desalojar, Toca,
           Despachador, OpsSuma
      <3>2. QED
        BY <3>1 DEF SumarInstancia, Sumar, Mirar, Sacar, Buscar, Desbloquear, Toca, OpsSuma, Despachador
    <2>5. QED  BY <2>1, <2>2, <2>3, <2>4
  <1>2. CASE Leer
    <2>1. PICK r \in Recursos, q \in Seq(UnPaso) : Despachador'.pid = Despachador.pid
      BY <1>2, LeerHilo
    <2>2. Despachador.pasos # <<>> /\ Head(Despachador.pasos).op = "leer"  BY <1>2 DEF Leer, Toca, Despachador
    <2>3. ~SumarInstancia("dispatch")
      BY <2>2 DEF SumarInstancia, Sumar, Mirar, Sacar, Buscar, Desbloquear, Toca, Despachador
    <2>4. QED  BY <1>2, <2>1, <2>2, <2>3
  <1>3. CASE SumarInstancia("dispatch")
    <2>1. Despachador.pasos # <<>> /\ Head(Despachador.pasos).op \in OpsSuma
      BY <1>3 DEF SumarInstancia, Sumar, Mirar, Sacar, Buscar, Desbloquear, Toca, OpsSuma, Despachador
    <2>2. "dispatch" \in Hilos  BY DEF Hilos
    <2>3. PICK r \in Recursos, v \in Seq(UnPaso) : /\ v # <<>> /\ Head(v).op \notin OpsSuma
              /\ Sumando(hilo["dispatch"].pasos, v, r) /\ Recurso("dispatch") = r
      BY <2>1, <2>2, SumandoHilo DEF Despachador
    <2>4. hilo \in [Hilos -> THilo] /\ TienePids(hilo["dispatch"])  BY DEF InvTipos, DispatchOK
    <2>5. Sumando(hilo'["dispatch"].pasos, v, r) /\ hilo'["dispatch"].pid = hilo["dispatch"].pid
      BY <1>3, <2>2, <2>3, <2>4, SumaHilo DEF InvTipos, DatosOK
    <2>6. (Con(Despachador.pasos, O) <=> Con(v, O)) /\ (Con(Despachador'.pasos, O) <=> Con(v, O))
      BY <2>3, <2>5, ConSumando DEF Despachador
    <2>7. QED  BY <1>3, <2>1, <2>5, <2>6 DEF Despachador
  <1>4. CASE Recibir
    <2>1. Despachador.pasos = <<>>  BY <1>4 DEF Recibir, Despachador
    <2>2. ~SumarInstancia("dispatch")
      BY <2>1 DEF SumarInstancia, Sumar, Mirar, Sacar, Buscar, Desbloquear, Toca, Despachador
    <2>3. QED  BY <1>4, <2>2
  <1>5. QED  BY <1>1, <1>2, <1>3, <1>4 DEF Dispatch

\* Only OPERACION_IO blocks a process that no resource does.
LEMMA PasosDeBloquear ==
    ASSUME NEW m \in TPedido, Con(PasosDe(m), {"bloquear"}) PROVE Con(PasosDe(m), OpsEncolar)
  <1> DEFINE O == {"bloquear"}
  <1>1. CASE m.recurso \in Recursos
    <2>1. PICK r \in Recursos : r = m.recurso  BY <1>1
    <2>2. PICK a \in UnPaso, d \in UnPaso, s \in UnPaso, k \in UnPaso, n \in UnPaso :
             /\ a = Paso("restar", r) /\ d = Paso("leer", r) /\ s = Paso("sumar", r) /\ k = Paso("mirar", r)
             /\ n = Paso("restar_retenida", r)
             /\ a.op = "restar" /\ d.op = "leer" /\ s.op = "sumar" /\ k.op = "mirar" /\ n.op = "restar_retenida"
      BY PasoTipo DEF Pasos
    <2>3. PasosDe(m) = <<a, d>> \/ PasosDe(m) = <<s, k>> \o <<n>>  BY <1>1, <2>1, <2>2 DEF PasosDe, PasosSumar
    <2>4. /\ Con(<<a, d>>, O) <=> a.op \in O \/ d.op \in O
          /\ Con(<<s, k>>, O) <=> s.op \in O \/ k.op \in O
          /\ Con(<<n>>, O) <=> n.op \in O
      BY ConPocos
    <2>5. <<s, k>> \in Seq(UnPaso) /\ <<n>> \in Seq(UnPaso)  OBVIOUS
    <2>6. Con(<<s, k>> \o <<n>>, O) <=> Con(<<s, k>>, O) \/ Con(<<n>>, O)  BY <2>5, ConJunto
    <2>7. QED  BY <2>2, <2>3, <2>4, <2>6
  <1>2. CASE m.recurso \notin Recursos
    <2>1. PICK e \in UnPaso, b \in UnPaso, c \in UnPaso, d \in UnPaso, g \in UnPaso, f \in UnPaso :
             /\ e = Paso("fallar", Nadie) /\ b = Paso("liberar_cpu", Nadie) /\ c = Paso("finalizar", Nadie)
             /\ d = Paso("desalojar", Nadie) /\ g = Paso("bloquear", Nadie) /\ f = Paso("encolar_io", Nadie)
             /\ e.op = "fallar" /\ b.op = "liberar_cpu" /\ c.op = "finalizar" /\ d.op = "desalojar"
             /\ g.op = "bloquear" /\ f.op = "encolar_io"
      BY PasoTipo DEF Pasos
    <2>2. PasosDe(m) \in {<<e, b, c>>, <<e, c, b>>, <<c, b>>, <<d, b>>, <<g, f, b>>, <<>>}
      BY <1>2, <2>1 DEF PasosDe, TPedido, Motivos
    <2>3. /\ Con(<<e, b, c>>, O) <=> e.op \in O \/ b.op \in O \/ c.op \in O
          /\ Con(<<e, c, b>>, O) <=> e.op \in O \/ c.op \in O \/ b.op \in O
          /\ Con(<<c, b>>, O) <=> c.op \in O \/ b.op \in O
          /\ Con(<<d, b>>, O) <=> d.op \in O \/ b.op \in O
          /\ ~Con(<<>>, O)
      BY ConPocos
    <2>4. Con(<<g, f, b>>, OpsEncolar) <=> g.op \in OpsEncolar \/ f.op \in OpsEncolar \/ b.op \in OpsEncolar
      BY ConPocos
    <2>5. QED  BY <2>1, <2>2, <2>3, <2>4 DEF OpsEncolar
  <1>3. QED  BY <1>1, <1>2

\* A message of an I/O is what recibir_dispatch is about to queue.
LEMMA RecibirPedido ==
    ASSUME InvTipos, Curso, Acabados, UNCHANGED carga, Recibir, Con(Despachador'.pasos, OpsEncolar)
    PROVE  /\ Despachador'.pid \in Pids /\ Esta("mensaje", Nadie, Despachador'.pid)
           /\ Despachador'.pid \notin Terminados
  <1>1. PICK m \in TPedido : /\ m = Head(a_kernel) /\ a_kernel # <<>> /\ Despachador'.pasos = PasosDe(m)
                             /\ Despachador'.pid = m.pid
    BY RecibirHilo
  <1>2. m.motivo = "OPERACION_IO"  BY <1>1, PasosDeEncolar
  <1>3. m \in TSuelto \/ m = Mensaje(cpu.pid, Pedida)  BY <1>1, CursoRecibir
  <1>4. Mensaje(cpu.pid, Pedida).motivo # "OPERACION_IO"  BY DEF Mensaje
  <1>5. m \in TSuelto  BY <1>2, <1>3, <1>4
  <1>6. m = PedidoIO(m.pid) /\ m.pid \in Pids  BY <1>2, <1>5 DEF TSuelto, PedidoIO
  <1>7. a_kernel \in Seq(TPedido)  BY DEF InvTipos, ViajesOK
  <1>8. Contains(a_kernel, m)  BY <1>1, <1>7, ContieneCola
  <1>9. Esta("mensaje", Nadie, m.pid)  BY <1>6, <1>8 DEF Esta
  <1>10. QED  BY <1>1, <1>6, <1>9, NoAcabado

Muertos == {p \in Pids : estado[p] = "TERMINATED"}
\* recibir_dispatch is about to block its process.
PorBloquear(p) == Despachador.pid = p /\ Con(Despachador.pasos, {"bloquear"})

\* Only a process that has ended is TERMINATED, as those are that are in EXIT or released; one
\* that is not, because it waits for a resource, is blocked or about to be.
Estados ==
    /\ Muertos \subseteq Terminados /\ FinElim(Muertos)
    /\ \A p \in Pids : PorBloquear(p) => p \notin Muertos
    /\ \A p \in Pids, r \in Recursos : Contains(cola_recurso[r], p) => estado[p] = "BLOCKED" \/ PorBloquear(p)

\* What may happen to the state of a process.
CambiaEstado(p) ==
    \/ estado'[p] = estado[p]
    \/ /\ estado'[p] \in {"READY", "EXEC"} /\ p \notin Terminados
       /\ \A r \in Recursos : ~Contains(cola_recurso[r], p)
    \/ Bloquear /\ p = Despachador.pid /\ estado'[p] = "BLOCKED" /\ PorBloquear(p)
    \/ Finalizar /\ p = Despachador.pid /\ estado'[p] = "TERMINATED" /\ p \in Terminados

\* Who is in a place other than the queues of the resources, and has not ended.
LEMMA FueraDeColas ==
    ASSUME EnOrden, NEW q \in Pids, NEW b, NEW d, Esta(b, d, q), b \notin {"cpu", "recurso"}
    PROVE  q \notin Terminados /\ \A r \in Recursos : ~Contains(cola_recurso[r], q)
  <1>1. q \notin Terminados  BY NoAcabado DEF EnOrden
  <1>2. ASSUME NEW r \in Recursos PROVE ~Contains(cola_recurso[r], q)
    <2>1. ~Esta("recurso", r, q)  BY NoOtro DEF EnOrden
    <2>2. QED  BY <2>1 DEF Esta
  <1>3. QED  BY <1>1, <1>2

\* A process that is sent to be ended has ended.
LEMMA FinalizarFin ==
    ASSUME InvTipos, Finados, Finalizar
    PROVE  Despachador.pid \in Terminados /\ Despachador.pasos # <<>> /\ Head(Despachador.pasos).op = "finalizar"
  <1>1. Despachador.pasos # <<>> /\ Head(Despachador.pasos).op = "finalizar"  BY DEF Finalizar, Toca, Despachador
  <1>2. Despachador.pasos \in Seq(PasosSinFin) \/ Despachador.pid \in Terminados  BY DEF Finados, FinKernel
  <1>3. \A s \in Seq(PasosSinFin) : s # <<>> => Head(s) \in PasosSinFin  OBVIOUS
  <1>4. QED  BY <1>1, <1>2, <1>3 DEF PasosSinFin

\* Why the estado_actual of a process changes, in each step.
LEMMA EstadoPaso ==
    ASSUME InvTipos, EnOrden, SinQuantum, Finados, Next, NEW p \in Pids PROVE CambiaEstado(p)
  <1>1. UNCHANGED carga /\ estado \in TEstado  BY DEF Next, InvTipos, DatosOK
  <1>2. ASSUME NEW q \in Pids, NEW e \in {"READY", "EXEC"}, NEW b, NEW d, Esta(b, d, q), b \notin {"cpu", "recurso"},
               estado' = [estado EXCEPT ![q] = e]
        PROVE  CambiaEstado(p)
    <2>1. q \notin Terminados /\ \A r \in Recursos : ~Contains(cola_recurso[r], q)  BY <1>2, FueraDeColas
    <2>2. IF p = q THEN estado'[p] = e ELSE estado'[p] = estado[p]  BY <1>1, <1>2 DEF TEstado
    <2>3. QED  BY <2>1, <2>2 DEF CambiaEstado
  <1>3. CASE UNCHANGED estado  BY <1>3 DEF CambiaEstado
  <1>4. CASE Despachar
    <2>1. ready \in Seq(Pids) /\ ready # <<>> /\ estado' = [estado EXCEPT ![Head(ready)] = "EXEC"]
      BY <1>4 DEF Despachar, InvTipos, DatosOK
    <2>2. PICK q \in Pids : q = Head(ready)  BY <2>1
    <2>3. Esta("ready", Nadie, q)  BY <2>1, <2>2, ContieneCola DEF Esta
    <2>4. QED  BY <1>2, <2>1, <2>2, <2>3
  <1>5. CASE TerminarIO
    <2>1. cola_io \in Seq(Pids) /\ cola_io # <<>> /\ estado' = [estado EXCEPT ![Head(cola_io)] = "READY"]
      BY <1>5 DEF TerminarIO, InvTipos, DatosOK
    <2>2. PICK q \in Pids : q = Head(cola_io)  BY <2>1
    <2>3. Esta("io", Nadie, q)  BY <2>1, <2>2, ContieneCola DEF Esta
    <2>4. QED  BY <1>2, <2>1, <2>2, <2>3
  <1>6. ASSUME NEW h \in Hilos, SumarInstancia(h) PROVE CambiaEstado(p)
    <2>1. CASE Desbloquear(h)
      <3>1. PICK q \in Pids : q = hilo[h].despierta /\ Esta("mano", h, q)  BY <1>1, <2>1, DesbloquearSitio
      <3>2. estado' = [estado EXCEPT ![q] = "READY"]  BY <2>1, <3>1 DEF Desbloquear
      <3>3. QED  BY <1>2, <3>1, <3>2
    <2>2. CASE Sumar(h) \/ Mirar(h) \/ Sacar(h) \/ Buscar(h)  BY <1>3, <2>2 DEF Sumar, Mirar, Sacar, Buscar
    <2>3. QED  BY <1>6, <2>1, <2>2 DEF SumarInstancia
  <1>7. CASE Dispatch
    <2>1. CASE Bloquear
      <3>1. /\ Despachador.pasos \in Seq(UnPaso) /\ Despachador.pasos # <<>> /\ Head(Despachador.pasos).op = "bloquear"
            /\ Despachador.pid \in Pids
        BY <2>1 DEF Bloquear, Toca, Despachador, InvTipos, THilo, DispatchOK, TienePids
      <3>2. PICK O : O = {"bloquear"}  OBVIOUS
      <3>3. Con(Despachador.pasos, O)  BY <3>1, <3>2, ConCola
      <3>4. PorBloquear(Despachador.pid)  BY <3>2, <3>3 DEF PorBloquear
      <3>5. estado' = [estado EXCEPT ![Despachador.pid] = "BLOCKED"]  BY <2>1 DEF Bloquear, Despachador
      <3>6. QED  BY <1>1, <2>1, <3>4, <3>5 DEF TEstado, CambiaEstado
    <2>2. CASE Finalizar
      <3>1. Despachador.pid \in Terminados /\ Despachador.pid \in Pids  BY <2>2, FinalizarFin DEF Terminados
      <3>2. estado' = [estado EXCEPT ![Despachador.pid] = "TERMINATED"]  BY <2>2 DEF Finalizar, Despachador
      <3>3. QED  BY <1>1, <2>2, <3>1, <3>2 DEF TEstado, CambiaEstado
    <2>3. CASE SumarInstancia("dispatch")  BY <1>6, <2>3 DEF Hilos
    <2>4. CASE Recibir \/ EncolarIO \/ Restar \/ Leer \/ Encolar \/ LiberarCpu \/ RestarRetenida \/ Fallar
      BY <1>3, <2>4 DEF Recibir, EncolarIO, Restar, Leer, Encolar, LiberarCpu, RestarRetenida, Fallar
    <2>5. QED  BY <1>7, <2>1, <2>2, <2>3, <2>4, NoDesaloja DEF Dispatch
  <1>8. CASE Eliminacion
    <2>1. CASE SumarInstancia("eliminacion")  BY <1>6, <2>1 DEF Hilos
    <2>2. CASE EliminarProceso \/ Quitar \/ Devolver \/ Destruir
      BY <1>3, <2>2 DEF EliminarProceso, Quitar, Devolver, Destruir
    <2>3. QED  BY <1>8, <2>1, <2>2 DEF Eliminacion
  <1>9. CASE Cpu  BY <1>3, <1>9 DEF Cpu, CpuRecibe, CpuEjecuta, CpuRespuesta, CpuChequea, CpuTermina
  <1>10. QED  BY <1>4, <1>5, <1>7, <1>8, <1>9 DEF Next

\* Whoever is TERMINATED stays so.
LEMMA MuertosNext ==
    ASSUME InvTipos, EnOrden, SinQuantum, Finados, Estados, Next
    PROVE  Muertos \subseteq Muertos' /\ Muertos' \subseteq Terminados' /\ (Finalizar => Despachador.pid \in Muertos')
  <1>1. \A p \in Pids : CambiaEstado(p)  BY EstadoPaso
  <1>2. Terminados \subseteq Terminados'  BY TerminadosCrece
  <1>3. Muertos \subseteq Terminados /\ \A p \in Pids : PorBloquear(p) => p \notin Muertos  BY DEF Estados
  <1>4. Muertos \subseteq Muertos'  BY <1>1, <1>3 DEF Muertos, CambiaEstado
  <1>5. Muertos' \subseteq Terminados'
    <2>1. SUFFICES ASSUME NEW p \in Pids, estado'[p] = "TERMINATED" PROVE p \in Terminados  BY <1>2 DEF Muertos
    <2>2. QED  BY <1>1, <1>3, <2>1 DEF Muertos, CambiaEstado
  <1>6. ASSUME Finalizar PROVE Despachador.pid \in Muertos'
    <2>1. Despachador.pid \in Pids  BY <1>6, FinalizarFin DEF Terminados
    <2>2. estado' = [estado EXCEPT ![Despachador.pid] = "TERMINATED"]  BY <1>6 DEF Finalizar, Despachador
    <2>3. QED  BY <2>1, <2>2 DEF Muertos, InvTipos, DatosOK, TEstado
  <1>7. QED  BY <1>4, <1>5, <1>6

\* Only WAIT puts a process in the queue of a resource.
LEMMA ColaCrece ==
    ASSUME InvTipos, EnOrden, Next, NEW r \in Recursos, NEW p \in Pids, Contains(cola_recurso'[r], p)
    PROVE  Contains(cola_recurso[r], p) \/ (Encolar /\ p = Despachador.pid)
  <1>1. cola_recurso \in [Recursos -> Seq(Pids)] /\ cola_recurso[r] \in Seq(Pids)  BY DEF InvTipos, DatosOK
  <1>2. CASE cola_recurso' = cola_recurso  BY <1>2
  <1>3. CASE Encolar
    <2>1. /\ Despachador.pasos # <<>> /\ Despachador.pid \in Pids
          /\ cola_recurso' = [cola_recurso EXCEPT ![Recurso("dispatch")] = Append(@, Despachador.pid)]
      BY <1>3 DEF Encolar, Toca, Despachador, InvTipos, DispatchOK, TienePids
    <2>2. cola_recurso'[r] = cola_recurso[r] \/ cola_recurso'[r] = Append(cola_recurso[r], Despachador.pid)
      BY <1>1, <2>1
    <2>3. \A x : Contains(Append(cola_recurso[r], Despachador.pid), x) <=>
                    Contains(cola_recurso[r], x) \/ x = Despachador.pid
      BY <1>1, <2>1, ContieneMas
    <2>4. QED  BY <1>3, <2>2, <2>3
  <1>4. ASSUME NEW h \in Hilos, Sacar(h) PROVE Contains(cola_recurso[r], p)
    <2>1. cola_recurso'[r] = cola_recurso[r] \/ (cola_recurso[r] # <<>> /\ cola_recurso'[r] = Tail(cola_recurso[r]))
      BY <1>1, <1>4 DEF Sacar
    <2>2. QED  BY <1>1, <2>1, ContieneCola
  <1>5. CASE Quitar
    <2>1. PICK q, s : cola_recurso' = [cola_recurso EXCEPT ![s] = IF Contains(@, q) THEN RemoveFirst(@, q) ELSE @]
      BY <1>5 DEF Quitar
    <2>2. cola_recurso'[r] = cola_recurso[r] \/ cola_recurso'[r] = RemoveFirst(cola_recurso[r], q)  BY <1>1, <2>1
    <2>3. Simple(cola_recurso[r], Pids)  BY DEF EnOrden, Simples
    <2>4. \A x \in Pids : Contains(RemoveFirst(cola_recurso[r], q), x) => Contains(cola_recurso[r], x)
      BY <1>1, <2>3, MenosCasos DEF Menos
    <2>5. QED  BY <2>2, <2>4
  <1>6. Despachar \/ TerminarIO \/ Cpu => cola_recurso' = cola_recurso
    BY DEF Despachar, TerminarIO, Cpu, CpuRecibe, CpuEjecuta, CpuRespuesta, CpuChequea, CpuTermina, contables
  <1>7. ASSUME NEW h \in Hilos, Sumar(h) \/ Mirar(h) \/ Buscar(h) \/ Desbloquear(h) PROVE cola_recurso' = cola_recurso
    BY <1>7 DEF Sumar, Mirar, Buscar, Desbloquear, contables
  <1>8. Dispatch => cola_recurso' = cola_recurso \/ Encolar \/ Sacar("dispatch")
    BY <1>7 DEF Dispatch, Recibir, EncolarIO, Restar, Leer, Bloquear, LiberarCpu, RestarRetenida, Fallar,
       Finalizar, Desalojar, SumarInstancia, contables, Hilos
  <1>9. Eliminacion => cola_recurso' = cola_recurso \/ Quitar \/ Sacar("eliminacion")
    BY <1>7 DEF Eliminacion, EliminarProceso, Devolver, Destruir, SumarInstancia, contables, Hilos
  <1>10. QED  BY <1>2, <1>3, <1>4, <1>5, <1>6, <1>8, <1>9 DEF Next, Hilos

\* Where the processes that are in EXIT, or released, come from.
LEMMA FinElimPaso ==
    ASSUME InvTipos, Next, vivo', NEW T, NEW U, T \subseteq U, FinElim(T), Finalizar => Despachador.pid \in U
    PROVE  FinElim(U)'
  <1>1. T \subseteq U  OBVIOUS
  <1>2. eliminados \subseteq T /\ exit \in Seq(T) /\ (Eliminador.pasos # <<>> => Eliminador.pid \in T)
    BY DEF FinElim
  <1>3. exit \in Seq(U)  BY <1>1, <1>2, SeqMayor
  <1>4. SUFFICES /\ eliminados' \subseteq U /\ exit' \in Seq(U)
                 /\ Eliminador'.pasos # <<>> => Eliminador'.pid \in U
    BY DEF FinElim
  <1>5. CASE UNCHANGED <<eliminados, exit>> /\ UNCHANGED Eliminador  BY <1>1, <1>2, <1>3, <1>5
  <1>6. CASE Despachar \/ TerminarIO
    <2>1. UNCHANGED <<eliminados, exit, hilo>>  BY <1>6 DEF Despachar, TerminarIO
    <2>2. QED  BY <1>5, <2>1 DEF Eliminador
  <1>7. CASE Cpu
    <2>1. UNCHANGED <<eliminados, exit, hilo>>
      BY <1>7 DEF Cpu, CpuRecibe, CpuEjecuta, CpuRespuesta, CpuChequea, CpuTermina, colas
    <2>2. QED  BY <1>5, <2>1 DEF Eliminador
  <1>8. CASE Dispatch
    <2>1. UNCHANGED eliminados /\ UNCHANGED Eliminador  BY <1>8, DispatchMarco
    <2>2. CASE Finalizar
      <3>1. /\ hilo["dispatch"].pasos # <<>> /\ Head(hilo["dispatch"].pasos).op = "finalizar"
            /\ exit' = Append(exit, hilo["dispatch"].pid)
        BY <2>2 DEF Finalizar, Toca
      <3>2. hilo["dispatch"].pid \in U  BY <2>2 DEF Despachador
      <3>3. exit' \in Seq(U)  BY <1>1, <1>3, <3>1, <3>2
      <3>4. QED  BY <1>1, <1>2, <2>1, <3>3
    <2>3. CASE ~Finalizar
      <3>1. UNCHANGED exit
        BY <1>8, <2>3 DEF Dispatch, Recibir, EncolarIO, Restar, Leer, Encolar, Bloquear, LiberarCpu, RestarRetenida,
           Fallar, Desalojar, SumarInstancia, Sumar, Mirar, Sacar, Buscar, Desbloquear, colas
      <3>2. QED  BY <1>5, <2>1, <3>1
    <2>4. QED  BY <2>2, <2>3
  <1>9. CASE Eliminacion
    <2>1. CASE EliminarProceso
      <3>1. PICK p : p = Head(exit) /\ exit # <<>>  BY <2>1 DEF EliminarProceso
      <3>2. p \notin eliminados  BY <2>1, <3>1 DEF EliminarProceso
      <3>3. exit' = Tail(exit) /\ UNCHANGED eliminados /\ hilo'["eliminacion"].pid = p
        <4>1. hilo["eliminacion"] \in THilo /\ hilo \in [Hilos -> THilo] /\ "eliminacion" \in Hilos
          BY DEF InvTipos, Hilos
        <4>2. PICK q : hilo' = [hilo EXCEPT !["eliminacion"].pasos = q, !["eliminacion"].pid = p]
          BY <2>1, <3>1, <3>2 DEF EliminarProceso
        <4>3. hilo'["eliminacion"].pid = p  BY <4>1, <4>2 DEF THilo
        <4>4. QED  BY <2>1, <3>1, <3>2, <4>3 DEF EliminarProceso
      <3>4. Head(exit) \in U /\ Tail(exit) \in Seq(U)  BY <1>3, <3>1
      <3>5. QED  BY <1>1, <1>2, <3>1, <3>3, <3>4 DEF Eliminador
    <2>2. CASE Quitar \/ Devolver \/ Destruir \/ SumarInstancia("eliminacion")
      <3>1. /\ hilo["eliminacion"].pasos # <<>> /\ hilo'["eliminacion"].pid = hilo["eliminacion"].pid
        BY <2>2, ElimPid
      <3>2. hilo'["eliminacion"].pid \in U  BY <1>1, <1>2, <3>1 DEF Eliminador
      <3>3. UNCHANGED exit /\ (eliminados' = eliminados \/ eliminados' = eliminados \union {hilo["eliminacion"].pid})
        BY <2>2 DEF Quitar, Devolver, Destruir, SumarInstancia, Sumar, Mirar, Sacar, Buscar, Desbloquear, colas
      <3>4. QED  BY <1>1, <1>2, <1>3, <3>1, <3>2, <3>3 DEF Eliminador
    <2>3. QED  BY <1>9, <2>1, <2>2 DEF Eliminacion
  <1>10. QED  BY <1>6, <1>7, <1>8, <1>9 DEF Next

\* The states go with the places.
LEMMA EstadosNext ==
    ASSUME InvTipos, Curso, EnOrden, SinQuantum, TerminaYa, Finados, Estados, ~carga.quantum, Next, vivo', EnOrden'
    PROVE  Estados'
  <1>1. /\ Muertos \subseteq Muertos' /\ Muertos' \subseteq Terminados' /\ (Finalizar => Despachador.pid \in Muertos')
        /\ UNCHANGED carga /\ \A p \in Pids : CambiaEstado(p)
    BY MuertosNext, EstadoPaso DEF Next
  <1>2. FinElim(Muertos)'
    <2>1. PICK T, U : T = Muertos /\ U = Muertos'  OBVIOUS
    <2>2. FinElim(T)  BY <2>1 DEF Estados
    <2>3. T \subseteq U /\ (Finalizar => Despachador.pid \in U)  BY <1>1, <2>1
    <2>4. FinElim(U)'  BY <2>2, <2>3, FinElimPaso
    <2>5. QED  BY <2>1, <2>4 DEF FinElim
  <1>3. ASSUME NEW p \in Pids, PorBloquear(p)' PROVE p \notin Muertos'
    <2> DEFINE O == {"bloquear"}
    <2>1. O \cap OpsSuma = {}  BY DEF OpsSuma
    <2>2. Con(Despachador'.pasos, O) /\ Despachador'.pid = p  BY <1>3 DEF PorBloquear
    <2>3. CASE p \notin Terminados /\ ~Finalizar
      <3>1. p \notin Muertos  BY <2>3 DEF Estados
      <3>2. QED  BY <1>1, <2>3, <3>1 DEF Muertos, CambiaEstado
    <2>4. CASE Recibir
      <3>1. PICK m \in TPedido : Despachador'.pasos = PasosDe(m)  BY <2>4, RecibirHilo
      <3>2. Con(PasosDe(m), {"bloquear"})  BY <2>2, <3>1
      <3>3. Con(Despachador'.pasos, OpsEncolar)  BY <3>1, <3>2, PasosDeBloquear
      <3>4. p \notin Terminados  BY <1>1, <2>2, <2>4, <3>3, RecibirPedido DEF EnOrden
      <3>5. Despachador.pasos = <<>>  BY <2>4, RecibirHilo
      <3>6. ~Finalizar  BY <3>5 DEF Finalizar, Toca, Despachador
      <3>7. QED  BY <2>3, <3>4, <3>6
    <2>5. CASE Leer
      <3>1. p \notin Terminados  BY <1>1, <2>2, <2>5, LeerHilo
      <3>2. ~Finalizar  BY <2>5 DEF Leer, Finalizar, Toca
      <3>3. QED  BY <2>3, <3>1, <3>2
    <2>6. CASE Dispatch /\ ~Recibir /\ ~Leer
      <3>1. Con(Despachador.pasos, O) /\ Despachador.pid = p  BY <1>1, <2>1, <2>2, <2>6, DispatchCon
      <3>2. p \notin Muertos  BY <3>1 DEF Estados, PorBloquear
      <3>3. ~Finalizar
        <4>1. SUFFICES ASSUME Finalizar PROVE FALSE  OBVIOUS
        <4>2. Despachador.pasos # <<>> /\ Head(Despachador.pasos).op = "finalizar" /\ Hecho("dispatch")
          BY <4>1, FinalizarFin DEF Finalizar
        <4>3. Restos(Despachador.pasos) /\ Despachador'.pasos = Tail(Despachador.pasos)  BY <4>2, HechoDespachador
        <4>4. QED  BY <2>2, <4>2, <4>3 DEF Restos
      <3>4. QED  BY <1>1, <3>2, <3>3 DEF Muertos, CambiaEstado
    <2>7. CASE Despachar \/ TerminarIO \/ Eliminacion \/ Cpu
      <3>1. UNCHANGED Despachador
        BY <2>7, ElimMarco DEF Despachar, TerminarIO, Cpu, CpuRecibe, CpuEjecuta, CpuRespuesta, CpuChequea, CpuTermina,
           Despachador
      <3>2. p \notin Muertos  BY <1>3, <3>1 DEF Estados, PorBloquear
      <3>3. p \notin Muertos' \/ Finalizar  BY <1>1, <3>2 DEF Muertos, CambiaEstado
      <3>4. ASSUME Finalizar PROVE FALSE
        <4>1. Hecho("dispatch") /\ Despachador.pasos # <<>>  BY <3>4 DEF Finalizar, Toca, Despachador
        <4>2. Despachador'.pasos = Tail(Despachador.pasos) /\ Despachador.pasos \in Seq(UnPaso)
          BY <4>1, HechoDespachador
        <4>3. \A s \in Seq(UnPaso) : s # <<>> => Len(Tail(s)) # Len(s)  OBVIOUS
        <4>4. QED  BY <3>1, <4>1, <4>2, <4>3
      <3>5. QED  BY <3>3, <3>4
    <2>8. QED  BY <2>4, <2>5, <2>6, <2>7 DEF Next
  <1>4. ASSUME NEW p \in Pids, NEW r \in Recursos, Contains(cola_recurso'[r], p)
        PROVE  estado'[p] = "BLOCKED" \/ PorBloquear(p)'
    <2> DEFINE O == {"bloquear"}
    <2>1. O \cap OpsSuma = {}  BY DEF OpsSuma
    <2>2. CASE Encolar /\ p = Despachador.pid
      <3>1. /\ Despachador.pasos # <<>> /\ Head(Despachador.pasos).op = "encolar" /\ Hecho("dispatch")
        BY <2>2 DEF Encolar, Toca, Despachador
      <3>2. Restos(Despachador.pasos) /\ Despachador'.pasos = Tail(Despachador.pasos) /\ Despachador'.pid = p
        BY <2>2, <3>1, HechoDespachador
      <3>3. QED  BY <3>1, <3>2 DEF Restos, PorBloquear
    <2>3. CASE Contains(cola_recurso[r], p)
      <3>1. estado[p] = "BLOCKED" \/ PorBloquear(p)  BY <2>3 DEF Estados
      <3>2. p \notin Terminados
        <4>1. Esta("recurso", r, p)  BY <2>3 DEF Esta
        <4>2. QED  BY <4>1, NoAcabado DEF EnOrden
      <3>3. estado'[p] = estado[p] \/ estado'[p] = "BLOCKED"  BY <1>1, <2>3, <3>2 DEF CambiaEstado
      <3>4. CASE estado[p] = "BLOCKED"  BY <3>3, <3>4
      <3>5. CASE PorBloquear(p)
        <4>1. Con(Despachador.pasos, O) /\ Despachador.pid = p  BY <3>5 DEF PorBloquear
        <4>2. CASE Despachar \/ TerminarIO \/ Eliminacion \/ Cpu
          <5>1. UNCHANGED Despachador
            BY <4>2, ElimMarco DEF Despachar, TerminarIO, Cpu, CpuRecibe, CpuEjecuta, CpuRespuesta, CpuChequea, CpuTermina,
               Despachador
          <5>2. QED  BY <4>1, <5>1 DEF PorBloquear
        <4>3. CASE Bloquear
          <5>1. CambiaEstado(p)  BY <1>1
          <5>2. estado' = [estado EXCEPT ![p] = "BLOCKED"] /\ estado \in TEstado
            BY <4>1, <4>3 DEF Bloquear, InvTipos, DatosOK, Despachador
          <5>3. QED  BY <5>2 DEF TEstado
        <4>4. CASE SumarInstancia("dispatch")
          <5>1. Dispatch  BY <4>4 DEF Dispatch
          <5>2. ~Recibir
            <6>1. Despachador.pasos # <<>>
              BY <4>4 DEF SumarInstancia, Sumar, Mirar, Sacar, Buscar, Desbloquear, Toca, Despachador
            <6>2. QED  BY <6>1 DEF Recibir, Despachador
          <5>3. QED  BY <1>1, <2>1, <4>1, <4>4, <5>1, <5>2, DispatchCon DEF PorBloquear
        <4>5. CASE Recibir
          <5>1. Despachador.pasos = <<>>  BY <4>5 DEF Recibir, Despachador
          <5>2. ~Con(<<>>, O)  BY ConPocos
          <5>3. QED  BY <4>1, <5>1, <5>2
        <4>6. CASE Leer
          <5>1. PICK s \in Recursos : Despachador.pasos = <<Paso("leer", s)>>  BY <1>1, <4>6, LeerHilo
          <5>2. Paso("leer", s) \in UnPaso /\ Paso("leer", s).op = "leer"  BY PasoTipo DEF Pasos
          <5>3. Con(<<Paso("leer", s)>>, O) <=> Paso("leer", s).op \in O  BY <5>2, ConPocos
          <5>4. QED  BY <4>1, <5>1, <5>2, <5>3
        <4>7. CASE EncolarIO \/ Restar \/ Encolar \/ LiberarCpu \/ RestarRetenida \/ Fallar \/ Finalizar
          <5>1. Despachador.pasos # <<>> /\ Hecho("dispatch") /\ Head(Despachador.pasos).op \notin O
            BY <4>7 DEF EncolarIO, Restar, Encolar, LiberarCpu, RestarRetenida, Fallar, Finalizar, Toca, Despachador
          <5>2. /\ Despachador.pasos \in Seq(UnPaso) /\ Despachador'.pasos = Tail(Despachador.pasos)
                /\ Despachador'.pid = Despachador.pid
            BY <5>1, HechoDespachador
          <5>3. Con(Tail(Despachador.pasos), O)  BY <4>1, <5>1, <5>2, ConResto
          <5>4. QED  BY <4>1, <5>2, <5>3 DEF PorBloquear
        <4>8. QED  BY <4>2, <4>3, <4>4, <4>5, <4>6, <4>7, NoDesaloja DEF Next, Dispatch
      <3>6. QED  BY <3>1, <3>4, <3>5
    <2>4. Contains(cola_recurso[r], p) \/ (Encolar /\ p = Despachador.pid)  BY <1>1, <1>4, ColaCrece
    <2>5. QED  BY <2>2, <2>3, <2>4
  <1>5. QED  BY <1>1, <1>2, <1>3, <1>4 DEF Estados

-----------------------------------------------------------------------------
(* How many instances there are to give *)

\* recibir_dispatch is about to read the counter of r, or to put in its queue who asked for it.
Pendiente(s, r) == IF s # <<>> /\ (Head(s) = Paso("leer", r) \/ Head(s) = Paso("encolar", r)) THEN 1 ELSE 0
\* The counter of r, were those that have no instance not to count.
Restan(r) == instancias[r] + Len(cola_recurso[r]) + Pendiente(Despachador.pasos, r)

\* Which steps are those.
LEMMA PendienteTipo ==
    ASSUME NEW s, NEW r
    PROVE  /\ Pendiente(s, r) \in {0, 1}
           /\ s = <<>> \/ Head(s).op \notin {"leer", "encolar"} => Pendiente(s, r) = 0
  <1>1. Paso("leer", r).op = "leer" /\ Paso("encolar", r).op = "encolar"  BY DEF Paso
  <1>2. QED  BY <1>1 DEF Pendiente

\* The counts are numbers.
LEMMA RestanTipo ==
    ASSUME InvTipos, NEW r \in Recursos
    PROVE  /\ instancias[r] \in Int /\ Len(cola_recurso[r]) \in Nat /\ Pendiente(Despachador.pasos, r) \in Nat
           /\ cola_recurso[r] \in Seq(Pids) /\ Restan(r) \in Int
  <1>1. instancias[r] \in Int /\ cola_recurso[r] \in Seq(Pids)  BY DEF InvTipos, DatosOK
  <1>2. PICK n : n = Pendiente(Despachador.pasos, r) /\ n \in {0, 1}  BY PendienteTipo
  <1>3. PICK k \in Nat : k = Len(cola_recurso[r])  BY <1>1
  <1>4. QED  BY <1>1, <1>2, <1>3 DEF Restan

\* What comes after a step of recibir_dispatch.
Siguiente(s) ==
    Tail(s) # <<>> => /\ Head(s).op # "restar" => Head(Tail(s)).op \notin {"leer", "encolar"}
                      /\ Head(Tail(s)).op \notin OpsSuma

\* It neither counts nor queues anybody after other things, but for restar_instancia_a_recurso.
LEMMA SiguienteDispatch ==
    ASSUME NEW s, FormaDispatch(s), s # <<>>, Head(s).op \notin OpsSuma PROVE Siguiente(s)
  <1>1. ASSUME NEW r \in Recursos, s \in PasosWait(r) PROVE Siguiente(s)
    <2>1. PICK a \in UnPaso, b \in UnPaso, c \in UnPaso, d \in UnPaso, e \in UnPaso :
             /\ a = Paso("restar", r) /\ b = Paso("leer", r) /\ c = Paso("encolar", r)
             /\ d = Paso("bloquear", r) /\ e = Paso("liberar_cpu", r)
             /\ a.op = "restar" /\ b.op = "leer" /\ c.op = "encolar" /\ d.op = "bloquear" /\ e.op = "liberar_cpu"
      BY PasoTipo DEF Pasos
    <2>2. s \in {<<a, b>>, <<b>>, <<c, d, e>>, <<d, e>>, <<e>>}  BY <1>1, <2>1 DEF PasosWait
    <2>3. CASE s = <<a, b>>  BY <2>1, <2>3 DEF Siguiente, OpsSuma
    <2>4. CASE s = <<b>> \/ s = <<e>>
      <3>1. Tail(<<b>>) = <<>> /\ Tail(<<e>>) = <<>>  OBVIOUS
      <3>2. QED  BY <2>4, <3>1 DEF Siguiente
    <2>5. CASE s = <<c, d, e>>  BY <2>1, <2>5 DEF Siguiente, OpsSuma
    <2>6. CASE s = <<d, e>>  BY <2>1, <2>6 DEF Siguiente, OpsSuma
    <2>7. QED  BY <2>2, <2>3, <2>4, <2>5, <2>6
  <1>2. CASE s \in PasosMotivos
    <2>1. PICK a \in UnPaso, b \in UnPaso, c \in UnPaso, d \in UnPaso, e \in UnPaso, g \in UnPaso :
             /\ a = Paso("fallar", Nadie) /\ b = Paso("liberar_cpu", Nadie) /\ c = Paso("finalizar", Nadie)
             /\ d = Paso("desalojar", Nadie) /\ e = Paso("bloquear", Nadie) /\ g = Paso("encolar_io", Nadie)
             /\ b.op = "liberar_cpu" /\ c.op = "finalizar" /\ g.op = "encolar_io"
      BY PasoTipo DEF Pasos
    <2>2. s \in {<<a, b, c>>, <<b, c>>, <<c>>, <<a, c, b>>, <<c, b>>, <<b>>, <<d, b>>, <<e, g, b>>, <<g, b>>}
      BY <1>2, <2>1 DEF PasosMotivos
    <2>3. CASE s = <<c>> \/ s = <<b>>
      <3>1. Tail(<<b>>) = <<>> /\ Tail(<<c>>) = <<>>  OBVIOUS
      <3>2. QED  BY <2>3, <3>1 DEF Siguiente
    <2>4. CASE s \in {<<a, b, c>>, <<a, c, b>>, <<e, g, b>>}
      <3>1. Head(Tail(s)) \in {b, c, g}
        <4>1. CASE s = <<a, b, c>>  BY <4>1
        <4>2. CASE s = <<a, c, b>>  BY <4>2
        <4>3. CASE s = <<e, g, b>>  BY <4>3
        <4>4. QED  BY <2>4, <4>1, <4>2, <4>3
      <3>2. QED  BY <2>1, <3>1 DEF Siguiente, OpsSuma
    <2>5. CASE s \in {<<b, c>>, <<c, b>>, <<d, b>>, <<g, b>>}
      <3>1. Head(Tail(s)) \in {b, c}
        <4>1. CASE s = <<b, c>>  BY <4>1
        <4>2. CASE s = <<c, b>>  BY <4>2
        <4>3. CASE s = <<d, b>>  BY <4>3
        <4>4. CASE s = <<g, b>>  BY <4>4
        <4>5. QED  BY <2>5, <4>1, <4>2, <4>3, <4>4
      <3>2. QED  BY <2>1, <3>1 DEF Siguiente, OpsSuma
    <2>6. QED  BY <2>2, <2>3, <2>4, <2>5
  <1>3. ASSUME NEW r \in Recursos, Sumando(s, Retenida(r), r) PROVE Siguiente(s)
    <2>1. PICK v \in Seq(UnPaso) : v = Retenida(r) /\ v # <<>> /\ Head(v).op \notin OpsSuma /\ Tail(v) = <<>>
      BY RetenidaTipo
    <2>2. Sumando(s, v, r)  BY <1>3, <2>1
    <2>3. CasosSuma(s, v, r)  BY <2>1, <2>2, SumandoCasos
    <2>4. s = v  BY <2>3 DEF CasosSuma, OpsSuma
    <2>5. QED  BY <2>1, <2>4 DEF Siguiente
  <1>4. QED  BY <1>1, <1>2, <1>3 DEF FormaDispatch, Seguida

\* A step of recibir_dispatch that touches neither counters nor queues.
LEMMA RestanHecho ==
    ASSUME InvTipos, NEW r \in Recursos, Despachador.pasos # <<>>, Hecho("dispatch"),
           Head(Despachador.pasos).op \notin OpsSuma, Head(Despachador.pasos).op # "restar"
    PROVE  Pendiente(Despachador'.pasos, r) = 0
  <1>1. FormaDispatch(Despachador.pasos) /\ Despachador'.pasos = Tail(Despachador.pasos)  BY HechoDespachador
  <1>2. Siguiente(Despachador.pasos)  BY <1>1, SiguienteDispatch
  <1>3. QED  BY <1>1, <1>2, PendienteTipo DEF Siguiente

\* How a step changes what there is of r: not at all or for the better, or an instance is granted
\* that there was, or somebody is taken out of the queue.
Saca(r) ==
    /\ cola_recurso[r] # <<>> /\ Restan(r)' = Restan(r) - 1
    /\ \E h \in Hilos : /\ Sacar(h) /\ Recurso(h) = r
                        /\ h = "dispatch" => Pendiente(Despachador.pasos, r) = 0
CambiaResto(r) ==
    \/ Restan(r)' >= Restan(r) /\ (cola_recurso[r] # <<>> => cola_recurso'[r] # <<>>)
    \/ /\ Restan(r)' = instancias[r] + Len(cola_recurso[r]) /\ instancias[r] >= 0
       /\ cola_recurso'[r] = cola_recurso[r]
    \/ Saca(r)

\* Nothing is counted or queued.
LEMMA RestoIgual ==
    ASSUME InvTipos, NEW r \in Recursos, instancias'[r] = instancias[r], cola_recurso'[r] = cola_recurso[r],
           Pendiente(Despachador'.pasos, r) = Pendiente(Despachador.pasos, r)
    PROVE  CambiaResto(r)
  <1>1. Restan(r)' = Restan(r)  BY DEF Restan
  <1>2. Restan(r) \in Int  BY RestanTipo
  <1>3. Restan(r)' >= Restan(r)  BY <1>1, <1>2
  <1>4. QED  BY <1>3 DEF CambiaResto

\* The process that asks, or is asked for, is counted.
LEMMA RestarResto ==
    ASSUME InvTipos, Curso, UNCHANGED carga, Restar, NEW r \in Recursos PROVE CambiaResto(r)
  <1>1. /\ Despachador.pasos # <<>> /\ Head(Despachador.pasos).op = "restar" /\ Hecho("dispatch")
        /\ cola_recurso' = cola_recurso
        /\ instancias' = [instancias EXCEPT ![Recurso("dispatch")] = instancias[Recurso("dispatch")] - 1]
    BY DEF Restar, Toca, Despachador
  <1>2. FormaDispatch(Despachador.pasos) /\ Despachador'.pasos = Tail(Despachador.pasos)  BY <1>1, HechoDespachador
  <1>3. PICK q \in Recursos : Despachador.pasos = <<Paso("restar", q), Paso("leer", q)>>
    <2>1. ASSUME NEW q \in Recursos, Despachador.pasos \in PasosWait(q)
          PROVE  Despachador.pasos = <<Paso("restar", q), Paso("leer", q)>>
      BY <1>1, <2>1, WaitCasos
    <2>2. Despachador.pasos \notin PasosMotivos  BY <1>1, MotivosCasos
    <2>3. ASSUME NEW q \in Recursos, Sumando(Despachador.pasos, Retenida(q), q) PROVE FALSE
      <3>1. PICK v \in Seq(UnPaso) : /\ v = Retenida(q) /\ v # <<>> /\ Head(v).op \notin OpsSuma
                                     /\ Head(v).op = "restar_retenida"
        BY RetenidaTipo
      <3>2. Sumando(Despachador.pasos, v, q)  BY <2>3, <3>1
      <3>3. CasosSuma(Despachador.pasos, v, q)  BY <3>1, <3>2, SumandoCasos
      <3>4. QED  BY <1>1, <3>1, <3>3 DEF CasosSuma
    <2>4. QED  BY <1>1, <1>2, <2>1, <2>2, <2>3 DEF FormaDispatch, Seguida
  <1>4. PICK a \in UnPaso, b \in UnPaso : a = Paso("restar", q) /\ b = Paso("leer", q) /\ a.recurso = q
    BY PasoTipo DEF Pasos
  <1>5. Recurso("dispatch") = q /\ Despachador'.pasos = <<b>>
    <2>1. Head(<<a, b>>) = a /\ Tail(<<a, b>>) = <<b>>  OBVIOUS
    <2>2. QED  BY <1>2, <1>3, <1>4, <2>1 DEF Recurso, Despachador
  <1>6. instancias \in [Recursos -> Int]  BY DEF InvTipos, DatosOK
  <1>7. CASE r # q
    <2>1. instancias'[r] = instancias[r]  BY <1>1, <1>5, <1>6, <1>7
    <2>2. Pendiente(Despachador.pasos, r) = 0  BY <1>1, PendienteTipo
    <2>3. b # Paso("leer", r) /\ b # Paso("encolar", r)  BY <1>4, <1>7 DEF Paso
    <2>4. Head(<<b>>) = b  OBVIOUS
    <2>5. Pendiente(Despachador'.pasos, r) = 0  BY <1>5, <2>3, <2>4 DEF Pendiente
    <2>6. QED  BY <1>1, <2>1, <2>2, <2>5, RestoIgual
  <1>8. CASE r = q
    <2>1. instancias'[r] = instancias[r] - 1  BY <1>1, <1>5, <1>6, <1>8
    <2>2. Pendiente(Despachador.pasos, r) = 0  BY <1>1, PendienteTipo
    <2>3. Head(<<b>>) = b /\ <<b>> # <<>>  OBVIOUS
    <2>4. Pendiente(Despachador'.pasos, r) = 1  BY <1>4, <1>5, <1>8, <2>3 DEF Pendiente
    <2>5. PICK i \in Int, k \in Nat : i = instancias[r] /\ k = Len(cola_recurso[r])  BY RestanTipo
    <2>6. Restan(r) = i + k + 0 /\ Restan(r)' = (i - 1) + k + 1  BY <1>1, <2>1, <2>2, <2>4, <2>5 DEF Restan
    <2>7. Restan(r)' >= Restan(r)  BY <2>6
    <2>8. QED  BY <1>1, <2>7 DEF CambiaResto
  <1>9. QED  BY <1>7, <1>8

\* Who reads below zero waits, and the others have an instance that there is.
LEMMA LeerResto ==
    ASSUME InvTipos, Curso, UNCHANGED carga, Leer, NEW r \in Recursos PROVE CambiaResto(r)
  <1>1. PICK q \in Recursos, w \in Seq(UnPaso) :
           /\ Despachador.pasos = <<Paso("leer", q)>> /\ Despachador'.pasos = w
           /\ NoQueda(q) => w = <<Paso("encolar", q), Paso("bloquear", q), Paso("liberar_cpu", q)>>
           /\ ~NoQueda(q) => w = <<>>
           /\ UNCHANGED <<instancias, cola_recurso>>
    BY LeerHilo
  <1>2. PICK a \in UnPaso, b \in UnPaso, c \in UnPaso, d \in UnPaso :
           /\ a = Paso("leer", q) /\ b = Paso("encolar", q) /\ c = Paso("bloquear", q) /\ d = Paso("liberar_cpu", q)
    BY PasoTipo DEF Pasos
  <1>3. Head(<<a>>) = a /\ <<a>> # <<>> /\ Head(<<b, c, d>>) = b /\ <<b, c, d>> # <<>>  OBVIOUS
  <1>4. CASE r # q
    <2>1. a # Paso("leer", r) /\ a # Paso("encolar", r) /\ b # Paso("leer", r) /\ b # Paso("encolar", r)
      BY <1>2, <1>4 DEF Paso
    <2>2. Pendiente(<<a>>, r) = 0 /\ Pendiente(<<b, c, d>>, r) = 0 /\ Pendiente(<<>>, r) = 0
      BY <1>3, <2>1 DEF Pendiente
    <2>3. QED  BY <1>1, <1>2, <2>2, RestoIgual
  <1>5. CASE r = q
    <2>1. Pendiente(<<a>>, r) = 1 /\ Pendiente(<<b, c, d>>, r) = 1 /\ Pendiente(<<>>, r) = 0
      BY <1>2, <1>3, <1>5 DEF Pendiente
    <2>2. CASE NoQueda(q)  BY <1>1, <1>2, <2>1, <2>2, RestoIgual
    <2>3. CASE ~NoQueda(q)
      <3>1. PICK i \in Int, k \in Nat : i = instancias[r] /\ k = Len(cola_recurso[r])  BY RestanTipo
      <3>2. i >= 0  BY <1>5, <2>3, <3>1 DEF NoQueda
      <3>3. Restan(r)' = i + k + 0  BY <1>1, <2>1, <2>3, <3>1 DEF Restan
      <3>4. QED  BY <1>1, <3>1, <3>2, <3>3 DEF CambiaResto
    <2>4. QED  BY <2>2, <2>3
  <1>6. QED  BY <1>4, <1>5

\* Who was to wait is in the queue.
LEMMA EncolarResto ==
    ASSUME InvTipos, UNCHANGED carga, Encolar, NEW r \in Recursos PROVE CambiaResto(r)
  <1>1. /\ Despachador.pasos # <<>> /\ Head(Despachador.pasos).op = "encolar" /\ Hecho("dispatch")
        /\ instancias' = instancias /\ Recurso("dispatch") = Head(Despachador.pasos).recurso
        /\ cola_recurso' = [cola_recurso EXCEPT ![Recurso("dispatch")] = Append(cola_recurso[Recurso("dispatch")],
                                                                                Despachador.pid)]
    BY DEF Encolar, Toca, Despachador, Recurso
  <1>2. FormaDispatch(Despachador.pasos) /\ Despachador.pasos \in Seq(UnPaso) /\ Despachador.pid \in Pids
    BY <1>1, HechoDespachador
  <1>3. PICK q \in Recursos : q = Head(Despachador.pasos).recurso  BY <1>1, <1>2, DispatchCasos DEF OpsSuma
  <1>4. Head(Despachador.pasos) = Paso("encolar", q)
    <2>1. Head(Despachador.pasos) \in UnPaso  BY <1>1, <1>2
    <2>2. QED  BY <1>1, <1>3, <2>1 DEF UnPaso, Paso
  <1>5. Pendiente(Despachador'.pasos, r) = 0  BY <1>1, RestanHecho DEF OpsSuma
  <1>6. cola_recurso \in [Recursos -> Seq(Pids)]  BY DEF InvTipos, DatosOK
  <1>7. CASE r # q
    <2>1. cola_recurso'[r] = cola_recurso[r]  BY <1>1, <1>3, <1>6, <1>7
    <2>2. Pendiente(Despachador.pasos, r) = 0  BY <1>4, <1>7 DEF Pendiente, Paso
    <2>3. QED  BY <1>1, <1>5, <2>1, <2>2, RestoIgual
  <1>8. CASE r = q
    <2>1. cola_recurso'[r] = Append(cola_recurso[r], Despachador.pid)  BY <1>1, <1>3, <1>6, <1>8
    <2>2. Pendiente(Despachador.pasos, r) = 1  BY <1>1, <1>4, <1>8 DEF Pendiente
    <2>3. PICK i \in Int, k \in Nat : i = instancias[r] /\ k = Len(cola_recurso[r])  BY RestanTipo
    <2>4. Len(cola_recurso'[r]) = k + 1 /\ cola_recurso'[r] # <<>>
      <3>1. PICK s \in Seq(Pids) : s = cola_recurso[r]  BY <1>6
      <3>2. Len(Append(s, Despachador.pid)) = Len(s) + 1 /\ Append(s, Despachador.pid) # <<>>  BY <1>2
      <3>3. QED  BY <2>1, <2>3, <3>1, <3>2
    <2>5. Restan(r) = i + k + 1 /\ Restan(r)' = i + (k + 1) + 0  BY <1>1, <1>5, <2>2, <2>3, <2>4 DEF Restan
    <2>6. Restan(r)' >= Restan(r)  BY <2>5
    <2>7. QED  BY <2>4, <2>6 DEF CambiaResto
  <1>9. QED  BY <1>7, <1>8

\* SIGNAL neither reads the counter nor queues.
LEMMA SumaPendiente ==
    ASSUME InvTipos, NEW h \in Hilos, SumarInstancia(h), NEW r \in Recursos
    PROVE  /\ Pendiente(Despachador'.pasos, r) = Pendiente(Despachador.pasos, r)
           /\ h = "dispatch" => Pendiente(Despachador.pasos, r) = 0
  <1>1. hilo[h].pasos # <<>> /\ Head(hilo[h].pasos).op \in OpsSuma
    BY DEF SumarInstancia, Sumar, Mirar, Sacar, Buscar, Desbloquear, Toca, OpsSuma
  <1>2. PICK v \in Seq(UnPaso), q \in Recursos :
           /\ v # <<>> /\ Head(v).op \notin OpsSuma /\ Sumando(hilo[h].pasos, v, q)
           /\ h = "dispatch" => v = Retenida(q)
    BY <1>1, SumandoHilo
  <1>3. hilo \in [Hilos -> THilo] /\ TienePids(hilo[h]) /\ "dispatch" \in Hilos  BY <1>1, SumandoHilo
  <1>4. cola_recurso \in [Recursos -> Seq(Pids)] /\ blocked \in Seq(Pids)  BY DEF InvTipos, DatosOK
  <1>5. (\A g \in Hilos : g # h => hilo'[g] = hilo[g]) /\ Sumando(hilo'[h].pasos, v, q)
    BY <1>2, <1>3, <1>4, SumaHilo
  <1>6. CASE h # "dispatch"  BY <1>3, <1>5, <1>6 DEF Despachador
  <1>7. CASE h = "dispatch"
    <2>1. Head(v).op = "restar_retenida"  BY <1>2, <1>7, RetenidaTipo
    <2>2. CasosSuma(hilo'[h].pasos, v, q)  BY <1>2, <1>5, SumandoCasos
    <2>3. Head(hilo'[h].pasos).op \notin {"leer", "encolar"}  BY <2>1, <2>2 DEF CasosSuma
    <2>4. Head(hilo[h].pasos).op \notin {"leer", "encolar"}  BY <1>1 DEF OpsSuma
    <2>5. QED  BY <1>7, <2>3, <2>4, PendienteTipo DEF Despachador
  <1>8. QED  BY <1>6, <1>7

\* An instance more, or a waiter less.
LEMMA SumaResto ==
    ASSUME InvTipos, NEW h \in Hilos, SumarInstancia(h), NEW r \in Recursos PROVE CambiaResto(r)
  <1>1. PICK n \in Nat : /\ n = Pendiente(Despachador.pasos, r) /\ n = Pendiente(Despachador'.pasos, r)
                         /\ h = "dispatch" => n = 0
    BY SumaPendiente, RestanTipo
  <1>2. PICK i \in Int, k \in Nat : i = instancias[r] /\ k = Len(cola_recurso[r])  BY RestanTipo
  <1>3. instancias \in [Recursos -> Int] /\ cola_recurso \in [Recursos -> Seq(Pids)]  BY DEF InvTipos, DatosOK
  <1>4. hilo[h].pasos # <<>> /\ Head(hilo[h].pasos).op \in OpsSuma
    BY DEF SumarInstancia, Sumar, Mirar, Sacar, Buscar, Desbloquear, Toca, OpsSuma
  <1>5. Recurso(h) \in Recursos
    <2>1. PICK v \in Seq(UnPaso), q \in Recursos : Recurso(h) = q  BY <1>4, SumandoHilo
    <2>2. QED  BY <2>1
  <1>6. CASE Sumar(h)
    <2>1. cola_recurso' = cola_recurso /\ instancias' = [instancias EXCEPT ![Recurso(h)] = instancias[Recurso(h)] + 1]
      BY <1>6 DEF Sumar
    <2>2. instancias'[r] = i \/ instancias'[r] = i + 1  BY <1>2, <1>3, <2>1
    <2>3. Restan(r) = i + k + n /\ Restan(r)' = instancias'[r] + k + n  BY <1>1, <1>2, <2>1 DEF Restan
    <2>4. Restan(r)' >= Restan(r)  BY <2>2, <2>3
    <2>5. QED  BY <2>1, <2>4 DEF CambiaResto
  <1>7. CASE Mirar(h) \/ Buscar(h) \/ Desbloquear(h)
    <2>1. UNCHANGED <<instancias, cola_recurso>>  BY <1>7 DEF Mirar, Buscar, Desbloquear, contables
    <2>2. QED  BY <1>1, <2>1, RestoIgual
  <1>8. CASE Sacar(h)
    <2>1. instancias' = instancias  BY <1>8 DEF Sacar
    <2>2. CASE cola_recurso'[r] = cola_recurso[r]  BY <1>1, <2>1, <2>2, RestoIgual
    <2>3. CASE cola_recurso'[r] # cola_recurso[r]
      <3>1. cola_recurso[Recurso(h)] # <<>>
        BY <1>8, <2>3 DEF Sacar
      <3>2. cola_recurso' = [cola_recurso EXCEPT ![Recurso(h)] = Tail(cola_recurso[Recurso(h)])]
        BY <1>8, <3>1 DEF Sacar
      <3>3. r = Recurso(h) /\ cola_recurso'[r] = Tail(cola_recurso[r]) /\ cola_recurso[r] # <<>>
        BY <1>3, <1>5, <2>3, <3>1, <3>2
      <3>4. Len(cola_recurso'[r]) = k - 1
        <4>1. PICK s \in Seq(Pids) : s = cola_recurso[r]  BY <1>3
        <4>2. s # <<>> => Len(Tail(s)) = Len(s) - 1  OBVIOUS
        <4>3. QED  BY <1>2, <3>3, <4>1, <4>2
      <3>5. Restan(r) = i + k + n /\ Restan(r)' = i + (k - 1) + n  BY <1>1, <1>2, <2>1, <3>4 DEF Restan
      <3>6. Restan(r)' = Restan(r) - 1  BY <3>5
      <3>7. Saca(r)  BY <1>1, <1>8, <3>3, <3>6 DEF Saca
      <3>8. QED  BY <3>7 DEF CambiaResto
    <2>4. QED  BY <2>2, <2>3
  <1>9. QED  BY <1>6, <1>7, <1>8 DEF SumarInstancia

\* The first step for a message is none of those.
LEMMA PasosDePrimero ==
    ASSUME NEW m \in TPedido PROVE PasosDe(m) = <<>> \/ Head(PasosDe(m)).op \notin {"leer", "encolar", "sacar"}
  <1>1. CASE m.recurso \in Recursos
    <2>1. PICK q \in Recursos : q = m.recurso  BY <1>1
    <2>2. PICK a \in UnPaso, d \in UnPaso, s \in UnPaso, k \in UnPaso, n \in UnPaso :
             /\ a = Paso("restar", q) /\ d = Paso("leer", q) /\ s = Paso("sumar", q) /\ k = Paso("mirar", q)
             /\ n = Paso("restar_retenida", q) /\ a.op = "restar" /\ s.op = "sumar"
      BY PasoTipo DEF Pasos
    <2>3. PasosDe(m) = <<a, d>> \/ PasosDe(m) = PasosSumar(q) \o <<n>>
      BY <1>1, <2>1, <2>2 DEF PasosDe
    <2>4. Head(<<a, d>>) = a  OBVIOUS
    <2>5. <<n>> \in Seq(UnPaso)  OBVIOUS
    <2>6. Head(PasosSumar(q) \o <<n>>).op = "sumar"  BY <2>5, SumandoDe
    <2>7. QED  BY <2>2, <2>3, <2>4, <2>6
  <1>2. CASE m.recurso \notin Recursos
    <2>1. PICK e \in UnPaso, b \in UnPaso, c \in UnPaso, d \in UnPaso, g \in UnPaso, f \in UnPaso :
             /\ e = Paso("fallar", Nadie) /\ b = Paso("liberar_cpu", Nadie) /\ c = Paso("finalizar", Nadie)
             /\ d = Paso("desalojar", Nadie) /\ g = Paso("bloquear", Nadie) /\ f = Paso("encolar_io", Nadie)
             /\ e.op = "fallar" /\ c.op = "finalizar" /\ d.op = "desalojar" /\ g.op = "bloquear"
      BY PasoTipo DEF Pasos
    <2>2. PasosDe(m) \in {<<e, b, c>>, <<e, c, b>>, <<c, b>>, <<d, b>>, <<g, f, b>>, <<>>}
      BY <1>2, <2>1 DEF PasosDe, TPedido, Motivos
    <2>3. /\ Head(<<e, b, c>>) = e /\ Head(<<e, c, b>>) = e /\ Head(<<c, b>>) = c /\ Head(<<d, b>>) = d
          /\ Head(<<g, f, b>>) = g
      OBVIOUS
    <2>4. QED  BY <2>1, <2>2, <2>3
  <1>3. QED  BY <1>1, <1>2

\* recibir_dispatch does something else.
LEMMA CallaResto ==
    ASSUME InvTipos, Curso, UNCHANGED carga, NEW r \in Recursos,
           \/ Recibir \/ EncolarIO \/ Bloquear \/ LiberarCpu \/ RestarRetenida \/ Fallar \/ Finalizar \/ Desalojar
    PROVE  CambiaResto(r)
  <1>1. UNCHANGED <<instancias, cola_recurso>>
    BY DEF Recibir, EncolarIO, Bloquear, LiberarCpu, RestarRetenida, Fallar, Finalizar, Desalojar, contables
  <1>2. CASE Recibir
    <2>1. PICK m \in TPedido : /\ Despachador.pasos = <<>> /\ Despachador'.pasos = PasosDe(m)
      BY <1>2, RecibirHilo
    <2>2. Pendiente(Despachador.pasos, r) = 0  BY <2>1, PendienteTipo
    <2>3. PasosDe(m) = <<>> \/ Head(PasosDe(m)).op \notin {"leer", "encolar"}  BY PasosDePrimero
    <2>4. Pendiente(PasosDe(m), r) = 0  BY <2>3, PendienteTipo
    <2>5. QED  BY <1>1, <2>1, <2>2, <2>4, RestoIgual
  <1>3. CASE ~Recibir
    <2>1. /\ Despachador.pasos # <<>> /\ Hecho("dispatch")
          /\ Head(Despachador.pasos).op \in {"encolar_io", "bloquear", "liberar_cpu", "restar_retenida", "fallar",
                                             "finalizar", "desalojar"}
      BY <1>3 DEF EncolarIO, Bloquear, LiberarCpu, RestarRetenida, Fallar, Finalizar, Desalojar, Toca, Despachador
    <2>2. Pendiente(Despachador.pasos, r) = 0  BY <2>1, PendienteTipo
    <2>3. Pendiente(Despachador'.pasos, r) = 0  BY <2>1, RestanHecho DEF OpsSuma
    <2>4. QED  BY <1>1, <2>2, <2>3, RestoIgual
  <1>4. QED  BY <1>2, <1>3

\* What the release of a process does is not what it waits for, once it has ended.
LEMMA ElimResto ==
    ASSUME InvTipos, EnOrden, Estados, EliminarProceso \/ Quitar \/ Devolver \/ Destruir, NEW r \in Recursos
    PROVE  CambiaResto(r) /\ cola_recurso'[r] = cola_recurso[r]
  <1>1. UNCHANGED instancias /\ UNCHANGED Despachador
    BY ElimMarco DEF EliminarProceso, Quitar, Devolver, Destruir, contables, Eliminacion
  <1>2. cola_recurso'[r] = cola_recurso[r]
    <2>1. CASE EliminarProceso \/ Devolver \/ Destruir  BY <2>1 DEF EliminarProceso, Devolver, Destruir, contables
    <2>2. CASE Quitar
      <3>1. Eliminador.pasos # <<>>  BY <2>2 DEF Quitar, Toca, Eliminador
      <3>2. PICK p : p = Eliminador.pid  OBVIOUS
      <3>3. p \in Pids /\ p \in Terminados  BY <3>1, <3>2 DEF Estados, FinElim, Muertos
      <3>4. PICK q : q = Recurso("eliminacion")  OBVIOUS
      <3>5. cola_recurso' = [cola_recurso EXCEPT ![q] = IF Contains(cola_recurso[q], p) THEN RemoveFirst(cola_recurso[q], p)
                                                                                        ELSE cola_recurso[q]]
        BY <2>2, <3>2, <3>4 DEF Quitar, Eliminador
      <3>6. cola_recurso \in [Recursos -> Seq(Pids)]  BY DEF InvTipos, DatosOK
      <3>7. ~Contains(cola_recurso[r], p)
        <4>1. Esta("recurso", r, p) => "recurso" = "cpu"  BY <3>3 DEF EnOrden, Acabados
        <4>2. QED  BY <4>1 DEF Esta
      <3>8. QED  BY <3>5, <3>6, <3>7
    <2>3. QED  BY <2>1, <2>2
  <1>3. QED  BY <1>1, <1>2, RestoIgual

\* Every step.
LEMMA RestoPaso ==
    ASSUME InvTipos, Curso, EnOrden, Estados, Next, NEW r \in Recursos PROVE CambiaResto(r)
  <1>1. UNCHANGED carga  BY DEF Next
  <1>2. CASE Despachar \/ TerminarIO \/ Cpu
    <2>1. UNCHANGED <<instancias, cola_recurso, hilo>>
      BY <1>2 DEF Despachar, TerminarIO, Cpu, CpuRecibe, CpuEjecuta, CpuRespuesta, CpuChequea, CpuTermina, contables
    <2>2. QED  BY <2>1, RestoIgual DEF Despachador
  <1>3. CASE Dispatch
    <2>1. "dispatch" \in Hilos  BY DEF Hilos
    <2>2. QED  BY <1>1, <1>3, <2>1, CallaResto, RestarResto, LeerResto, EncolarResto, SumaResto DEF Dispatch
  <1>4. CASE Eliminacion
    <2>1. "eliminacion" \in Hilos  BY DEF Hilos
    <2>2. QED  BY <1>4, <2>1, ElimResto, SumaResto DEF Eliminacion
  <1>5. QED  BY <1>2, <1>3, <1>4 DEF Next

\* What eliminacion_de_procesos may do with the resources that every process gives back.
SoloQuitan == {e \in UnPaso : e.recurso \in Devueltos => e.op = "quitar"}
NadaQueDevolver == Eliminador.pasos \in Seq(SoloQuitan)

\* Past the end of a program there is nothing on r to count.
LEMMA VecesHasta ==
    ASSUME NEW s \in Seq(Instrucciones), NEW n \in 1 .. Len(s) + 1, NEW x, \A k \in n .. Len(s) : s[k] # x
    PROVE  Veces(SubSeq(s, 1, n - 1), x) = Veces(s, x)
  <1>1. PICK m \in Nat : m = Len(s)  OBVIOUS
  <1>2. PICK t \in Seq(Instrucciones) : /\ t = SubSeq(s, 1, n - 1) /\ Len(t) = n - 1
                                        /\ \A k \in 1 .. n - 1 : t[k] = s[k]
    <2>1. SubSeq(s, 1, n - 1) \in Seq(Instrucciones) /\ Len(SubSeq(s, 1, n - 1)) = n - 1
      BY <1>1
    <2>2. \A k \in 1 .. n - 1 : SubSeq(s, 1, n - 1)[k] = s[k]  BY <1>1
    <2>3. QED  BY <2>1, <2>2
  <1>3. {k \in 1 .. Len(t) : t[k] = x} = {k \in 1 .. m : s[k] = x}
    <2>1. ASSUME NEW k \in 1 .. m, s[k] = x PROVE k \in 1 .. n - 1  BY <1>1, <2>1
    <2>2. QED  BY <1>1, <1>2, <2>1
  <1>4. QED  BY <1>1, <1>2, <1>3 DEF Veces

\* A process that has ended holds nothing of a resource that it gives back.
LEMMA NadaAnotado ==
    ASSUME InvTipos, EnPrograma, Anotado, NEW p \in Terminados, NEW r \in Devueltos
    PROVE  Anotadas(asignadas[p], r) = 0
  <1>1. PICK s \in Seq(Instrucciones) : s = Programa[p] /\ p \in Pids /\ r \in Recursos
    BY ProgramaTipo DEF Terminados, Devueltos
  <1>2. PICK m \in Nat : m = Len(s)  OBVIOUS
  <1>3. PICK k \in Nat : k = pc[p] /\ k \in 1 .. m + 1  BY <1>1, <1>2 DEF EnPrograma
  <1>4. PICK j \in 1 .. k - 1 : Final(s[j])  BY <1>1, <1>3 DEF Terminados
  <1>5. PICK n \in 1 .. m + 1 : n = Hasta(p) /\ j <= n
    <2>1. k - 1 \in 1 .. m + 1 /\ j <= k - 1 /\ j <= k  BY <1>3, <1>4
    <2>2. Hasta(p) = k - 1 \/ Hasta(p) = k  BY <1>3 DEF Hasta
    <2>3. QED  BY <1>3, <2>1, <2>2
  <1>6. \A i \in n .. m : s[i].recurso \notin Recursos
    <2>1. TAKE i \in n .. m
    <2>2. i \in 1 .. m /\ j \in 1 .. m /\ (i = j \/ j < i)  BY <1>2, <1>3, <1>4, <1>5
    <2>3. CASE i = j  BY <1>4, <2>3, ConstantesOK DEF Final
    <2>4. CASE j < i
      <3>1. carga \in Cargas  BY DEF InvTipos, DatosOK
      <3>2. \A a, b \in 1 .. Len(carga.programa[p]) :
               a < b /\ Final(carga.programa[p][a]) => carga.programa[p][b].recurso \notin Recursos
        BY <1>1, <3>1, CargasJustas
      <3>3. QED  BY <1>1, <1>2, <1>4, <2>2, <2>4, <3>2 DEF Programa
    <2>5. QED  BY <2>2, <2>3, <2>4
  <1>7. PICK x, y : x = [op |-> "WAIT", recurso |-> r] /\ y = [op |-> "SIGNAL", recurso |-> r]  OBVIOUS
  <1>8. \A i \in n .. Len(s) : s[i] # x /\ s[i] # y  BY <1>1, <1>2, <1>6, <1>7
  <1>9. Veces(SubSeq(s, 1, n - 1), x) = Veces(s, x) /\ Veces(SubSeq(s, 1, n - 1), y) = Veces(s, y)
    BY <1>2, <1>5, <1>8, VecesHasta
  <1>10. Veces(s, x) = Veces(s, y)  BY <1>1, <1>7 DEF Devueltos, Usos
  <1>11. Veces(s, x) \in Nat  BY VecesTipo
  <1>12. Saldo(s, r, n) = Veces(SubSeq(s, 1, n - 1), x) - Veces(SubSeq(s, 1, n - 1), y)  BY <1>7 DEF Saldo
  <1>13. Saldo(s, r, n) = 0  BY <1>9, <1>10, <1>11, <1>12
  <1>14. QED  BY <1>1, <1>5, <1>13 DEF Anotado

\* The steps of sumar_instancia_a_recurso, for a resource that not everybody gives back.
LEMMA SumasQuitan ==
    ASSUME NEW r \in Recursos, r \notin Devueltos, NEW w \in Sumas(r) PROVE w \in Seq(SoloQuitan)
  <1>1. PICK a, b, c, d, e : /\ a = Paso("sumar", r) /\ b = Paso("mirar", r) /\ c = Paso("sacar", r)
                             /\ d = Paso("buscar", r) /\ e = Paso("desbloquear", r)
    OBVIOUS
  <1>2. a \in SoloQuitan /\ b \in SoloQuitan /\ c \in SoloQuitan /\ d \in SoloQuitan /\ e \in SoloQuitan
    BY <1>1, PasoTipo DEF SoloQuitan, Pasos
  <1>3. w \in {<<>>, <<a, b>>, <<b>>, <<c, d, e>>, <<d, e>>, <<e>>}
    BY <1>1 DEF Sumas, PasosSumar, PasosDespertar
  <1>4. /\ <<>> \in Seq(SoloQuitan) /\ <<a, b>> \in Seq(SoloQuitan) /\ <<b>> \in Seq(SoloQuitan)
        /\ <<c, d, e>> \in Seq(SoloQuitan) /\ <<d, e>> \in Seq(SoloQuitan) /\ <<e>> \in Seq(SoloQuitan)
    BY <1>2
  <1>5. QED  BY <1>3, <1>4

\* A suffix of steps that are in A is of steps that are in A.
LEMMA Sufijo ==
    ASSUME NEW S, NEW A, NEW w \in Seq(S), NEW v \in Seq(S), w \o v \in Seq(A) PROVE v \in Seq(A)
  <1>1. PICK m \in Nat, n \in Nat : m = Len(w) /\ n = Len(v)  OBVIOUS
  <1>2. Len(w \o v) = m + n /\ \A k \in m + 1 .. m + n : (w \o v)[k] = v[k - m]  BY <1>1, JuntoLugar
  <1>3. \A k \in 1 .. Len(w \o v) : (w \o v)[k] \in A  OBVIOUS
  <1>4. ASSUME NEW k \in 1 .. n PROVE v[k] \in A
    <2>1. k + m \in m + 1 .. m + n /\ k + m \in 1 .. m + n /\ (k + m) - m = k  OBVIOUS
    <2>2. (w \o v)[k + m] = v[k]  BY <1>2, <2>1
    <2>3. (w \o v)[k + m] \in A  BY <1>2, <1>3, <2>1
    <2>4. QED  BY <2>2, <2>3
  <1>5. QED  BY <1>1, <1>4

\* What is left, for a resource that everybody gives back.
LEMMA LiberarQuita ==
    ASSUME NEW D, D \subseteq Recursos, NEW orden \in SetToSeqs(D) PROVE PasosLiberar(orden) \in Seq(SoloQuitan)
  <1>1. IsFiniteSet(D)  BY ConstantesOK, FS_Subset
  <1>2. orden \in Seq(D)
    <2>1. PICK r : r = Nadie  OBVIOUS
    <2>2. QED  BY <1>1, OrdenTodos
  <1>3. PICK n \in Nat : n = Len(orden) /\ \A k \in 1 .. n : orden[k] \in Recursos  BY <1>2
  <1>4. \A r \in Recursos : Paso("quitar", r) \in SoloQuitan  BY PasoTipo DEF SoloQuitan, Pasos
  <1>5. Paso("destruir", Nadie) \in SoloQuitan  BY PasoTipo, ConstantesOK DEF SoloQuitan, Pasos, Devueltos
  <1>6. PICK t : t = [k \in 1 .. n |-> Paso("quitar", orden[k])]  OBVIOUS
  <1>7. t \in Seq(SoloQuitan)
    <2>1. \A k \in 1 .. n : Paso("quitar", orden[k]) \in SoloQuitan  BY <1>3, <1>4
    <2>2. t \in [1 .. n -> SoloQuitan]  BY <1>6, <2>1
    <2>3. QED  BY <2>2
  <1>8. <<Paso("destruir", Nadie)>> \in Seq(SoloQuitan)  BY <1>5
  <1>9. t \o <<Paso("destruir", Nadie)>> \in Seq(SoloQuitan)  BY <1>7, <1>8
  <1>10. QED  BY <1>3, <1>6, <1>9 DEF PasosLiberar

\* What the step leaves before is as what there was, and what comes after is of it.
LEMMA QuitaSigue ==
    ASSUME InvTipos, NadaQueDevolver, UNCHANGED carga, Eliminador.pasos # <<>>, NEW q \in Seq(SoloQuitan),
           Seguir("eliminacion", q)
    PROVE  NadaQueDevolver'
  <1>1. SoloQuitan' = SoloQuitan  BY DEF SoloQuitan, Devueltos, Usos, Programa
  <1>2. PICK s \in Seq(SoloQuitan) : s = Eliminador.pasos /\ s # <<>>  BY DEF NadaQueDevolver
  <1>3. PICK t \in Seq(SoloQuitan) : t = Tail(s)
    <2>1. Tail(s) \in Seq(SoloQuitan)  BY <1>2
    <2>2. QED  BY <2>1
  <1>4. q \o t \in Seq(SoloQuitan)  OBVIOUS
  <1>5. q \o Tail(hilo["eliminacion"].pasos) \in Seq(UnPaso)
    <2>1. SoloQuitan \subseteq UnPaso  BY DEF SoloQuitan
    <2>2. q \o t \in Seq(UnPaso)  BY <1>4, <2>1, SeqMayor
    <2>3. QED  BY <1>2, <1>3, <2>2 DEF Eliminador
  <1>6. hilo \in [Hilos -> THilo] /\ "eliminacion" \in Hilos  BY DEF InvTipos, Hilos
  <1>7. hilo'["eliminacion"].pasos = q \o Tail(hilo["eliminacion"].pasos)  BY <1>5, <1>6, SeguirTipo
  <1>8. Eliminador'.pasos = q \o t  BY <1>2, <1>3, <1>7 DEF Eliminador
  <1>9. QED  BY <1>1, <1>4, <1>8 DEF NadaQueDevolver

\* eliminacion_de_procesos has nothing to give back of a resource that every process gives back.
LEMMA NadaQueDevolverNext ==
    ASSUME InvTipos, EnPrograma, Anotado, Estados, NadaQueDevolver, Next, vivo' PROVE NadaQueDevolver'
  <1>1. UNCHANGED carga /\ SoloQuitan' = SoloQuitan  BY DEF Next, SoloQuitan, Devueltos, Usos, Programa
  <1>2. CASE UNCHANGED Eliminador  BY <1>1, <1>2 DEF NadaQueDevolver
  <1>3. CASE Despachar \/ TerminarIO \/ Cpu \/ Dispatch
    <2>1. UNCHANGED Eliminador
      BY <1>3, DispatchMarco DEF Despachar, TerminarIO, Cpu, CpuRecibe, CpuEjecuta, CpuRespuesta, CpuChequea,
         CpuTermina, Eliminador
    <2>2. QED  BY <1>2, <2>1
  <1>4. asignadas \in [Pids -> TAsignadas] /\ hilo \in [Hilos -> THilo] /\ hilo["eliminacion"] \in THilo
    BY DEF InvTipos, Hilos
  <1>5. CASE EliminarProceso
    <2>1. PICK p : p = Head(exit)  OBVIOUS
    <2>2. p \in Pids /\ p \notin eliminados
      <3>1. exit \in Seq(Pids) /\ exit # <<>>  BY <1>5 DEF EliminarProceso, InvTipos, DatosOK
      <3>2. Head(exit) \notin eliminados  BY <1>5 DEF EliminarProceso
      <3>3. Head(exit) \in Pids  BY <3>1
      <3>4. QED  BY <2>1, <3>2, <3>3
    <2>3. PICK orden \in SetToSeqs(DOMAIN asignadas[p]) :
             hilo' = [hilo EXCEPT !["eliminacion"].pasos = PasosLiberar(orden), !["eliminacion"].pid = p]
      BY <1>5, <2>1, <2>2 DEF EliminarProceso
    <2>4. DOMAIN asignadas[p] \subseteq Recursos  BY <1>4, <2>2 DEF TAsignadas
    <2>5. PICK s : s = PasosLiberar(orden) /\ s \in Seq(SoloQuitan)  BY <2>4, LiberarQuita
    <2>6. hilo'["eliminacion"].pasos = s
      <3>1. PICK x : x = hilo["eliminacion"] /\ x \in THilo  BY <1>4
      <3>2. PICK y : y = [x EXCEPT !.pasos = s, !.pid = p]  OBVIOUS
      <3>3. y.pasos = s  BY <3>1, <3>2 DEF THilo
      <3>4. hilo' = [hilo EXCEPT !["eliminacion"] = y]  BY <2>3, <2>5, <3>1, <3>2
      <3>5. QED  BY <1>4, <3>3, <3>4 DEF Hilos
    <2>7. QED  BY <1>1, <2>5, <2>6 DEF NadaQueDevolver, Eliminador
  <1>6. CASE Quitar
    <2>1. /\ Eliminador.pasos # <<>> /\ Head(Eliminador.pasos).op = "quitar"
          /\ Recurso("eliminacion") = Head(Eliminador.pasos).recurso
      BY <1>6 DEF Quitar, Toca, Eliminador, Recurso
    <2>2. PICK p \in Pids : p = Eliminador.pid /\ p \in Terminados  BY <2>1 DEF Estados, FinElim, Muertos
    <2>3. Cierre(Eliminador.pasos, asignadas[p])
      <3>1. ElimOK(Eliminador, asignadas)  BY DEF InvTipos, Eliminador
      <3>2. QED  BY <2>1, <2>2, <3>1, ElimSigue DEF OpsSuma
    <2>4. PICK r \in Recursos, n \in Nat : /\ r = Recurso("eliminacion") /\ n = asignadas[p][r]
                                           /\ n = Anotadas(asignadas[p], r)
      <3>1. Recurso("eliminacion") \in DOMAIN asignadas[p]  BY <2>1, <2>3, CierreCasos
      <3>2. asignadas[p] \in TAsignadas  BY <1>4
      <3>3. DOMAIN asignadas[p] \subseteq Recursos /\ \A o \in DOMAIN asignadas[p] : asignadas[p][o] \in Nat
        BY <3>2, ConstantesOK DEF TAsignadas
      <3>4. QED  BY <3>1, <3>3 DEF Anotadas
    <2>5. PICK e \in UnPaso : e = Paso("devolver", r) /\ e.recurso = r  BY PasoTipo DEF Pasos
    <2>6. Seguir("eliminacion", Repetir(n, e))  BY <1>6, <2>2, <2>4, <2>5 DEF Quitar, Eliminador
    <2>7. Repetir(n, e) \in Seq(SoloQuitan)
      <3>1. CASE r \in Devueltos
        <4>1. n = 0  BY <2>2, <2>4, <3>1, NadaAnotado
        <4>2. Repetir(n, e) = [k \in 1 .. n |-> e] /\ 1 .. n = {}  BY <4>1 DEF Repetir
        <4>3. Len(Repetir(n, e)) = 0 /\ Repetir(n, e) \in Seq(UnPaso)  BY <4>1, VecesRepetir DEF Repetir
        <4>4. \A k \in 1 .. Len(Repetir(n, e)) : Repetir(n, e)[k] \in SoloQuitan  BY <4>3
        <4>5. QED  BY <4>3, <4>4
      <3>2. CASE r \notin Devueltos
        <4>1. e \in SoloQuitan  BY <2>5, <3>2 DEF SoloQuitan
        <4>2. QED  BY <4>1, VecesRepetir
      <3>3. QED  BY <3>1, <3>2
    <2>8. QED  BY <1>1, <2>1, <2>6, <2>7, QuitaSigue
  <1>7. CASE Devolver
    <2>1. Eliminador.pasos # <<>> /\ Head(Eliminador.pasos).op = "devolver"
          /\ Recurso("eliminacion") = Head(Eliminador.pasos).recurso
      BY <1>7 DEF Devolver, Toca, Eliminador, Recurso
    <2>2. Head(Eliminador.pasos) \in SoloQuitan  BY <2>1 DEF NadaQueDevolver
    <2>3. PICK r \in Recursos : r = Recurso("eliminacion")
      <3>1. ElimOK(Eliminador, asignadas)  BY DEF InvTipos, Eliminador
      <3>2. Cierre(Eliminador.pasos, asignadas[Eliminador.pid])  BY <2>1, <3>1, ElimSigue DEF OpsSuma
      <3>3. QED  BY <2>1, <3>2, CierreCasos
    <2>4. r \notin Devueltos  BY <2>1, <2>2, <2>3 DEF SoloQuitan
    <2>5. PasosSumar(r) \in Seq(SoloQuitan)
      <3>1. PasosSumar(r) \in Sumas(r)  BY DEF Sumas
      <3>2. QED  BY <2>4, <3>1, SumasQuitan
    <2>6. <<>> \in Seq(SoloQuitan)  OBVIOUS
    <2>7. PICK q \in Seq(SoloQuitan) : Seguir("eliminacion", q)  BY <1>7, <2>3, <2>5, <2>6 DEF Devolver
    <2>8. QED  BY <1>1, <2>1, <2>7, QuitaSigue
  <1>8. CASE Destruir
    <2>1. Eliminador.pasos # <<>> /\ Hecho("eliminacion")  BY <1>8 DEF Destruir, Toca, Eliminador
    <2>2. <<>> \in Seq(SoloQuitan) /\ Seguir("eliminacion", <<>>)  BY <2>1 DEF Hecho
    <2>3. QED  BY <1>1, <2>1, <2>2, QuitaSigue
  <1>9. CASE SumarInstancia("eliminacion")
    <2>1. "eliminacion" \in Hilos  BY DEF Hilos
    <2>2. hilo["eliminacion"].pasos # <<>> /\ Head(hilo["eliminacion"].pasos).op \in OpsSuma
      BY <1>9 DEF SumarInstancia, Sumar, Mirar, Sacar, Buscar, Desbloquear, Toca, OpsSuma
    <2>3. PICK v \in Seq(UnPaso), r \in Recursos :
             /\ v # <<>> /\ Head(v).op \notin OpsSuma /\ Sumando(hilo["eliminacion"].pasos, v, r)
             /\ Recurso("eliminacion") = r
      BY <2>1, <2>2, SumandoHilo
    <2>4. hilo \in [Hilos -> THilo] /\ TienePids(hilo["eliminacion"])  BY <2>1, <2>2, SumandoHilo
    <2>5. cola_recurso \in [Recursos -> Seq(Pids)] /\ blocked \in Seq(Pids)  BY DEF InvTipos, DatosOK
    <2>6. Sumando(hilo'["eliminacion"].pasos, v, r)  BY <1>9, <2>1, <2>3, <2>4, <2>5, SumaHilo
    <2>7. Eliminador.pasos \in Seq(SoloQuitan)  BY DEF NadaQueDevolver
    <2>8. r \notin Devueltos
      <3>1. Head(Eliminador.pasos) \in SoloQuitan  BY <2>2, <2>7 DEF Eliminador
      <3>2. Head(Eliminador.pasos).op # "quitar" /\ Head(Eliminador.pasos).recurso = r
        BY <2>2, <2>3 DEF Eliminador, Recurso, OpsSuma
      <3>3. QED  BY <3>1, <3>2 DEF SoloQuitan
    <2>9. PICK w \in Sumas(r) : Eliminador.pasos = w \o v  BY <2>3 DEF Sumando, Eliminador
    <2>10. PICK u \in Sumas(r) : Eliminador'.pasos = u \o v  BY <2>6 DEF Sumando, Eliminador
    <2>11. w \in Seq(SoloQuitan) /\ u \in Seq(SoloQuitan)  BY <2>8, SumasQuitan
    <2>12. v \in Seq(SoloQuitan)
      <3>1. SoloQuitan \subseteq UnPaso  BY DEF SoloQuitan
      <3>2. w \in Seq(UnPaso)  BY <2>11, <3>1, SeqMayor
      <3>3. w \o v \in Seq(SoloQuitan)  BY <2>7, <2>9
      <3>4. QED  BY <3>2, <3>3, Sufijo
    <2>13. u \o v \in Seq(SoloQuitan)  BY <2>11, <2>12
    <2>14. QED  BY <1>1, <2>10, <2>13 DEF NadaQueDevolver
  <1>10. QED  BY <1>3, <1>5, <1>6, <1>7, <1>8, <1>9 DEF Next, Eliminacion

\* The number is enough for what eliminacion_de_procesos is about to do with r,
Alcanzan(r) ==
    /\ Restan(r) >= 0
    /\ Toca("eliminacion", "sacar") /\ Recurso("eliminacion") = r => cola_recurso[r] # <<>> /\ Restan(r) >= 1
\* ... and the counter for what recibir_dispatch is.
HayAlSacar == Toca("dispatch", "sacar") => instancias[Recurso("dispatch")] >= 0
Repartos == NadaQueDevolver /\ HayAlSacar /\ \A r \in Recursos : DeUnHilo(r) => Alcanzan(r)

\* A thread is to take out of the queue because of what it has just looked at.
LEMMA SacarViene ==
    ASSUME InvTipos, NEW h \in Hilos, SumarInstancia(h), Toca(h, "sacar")'
    PROVE  /\ Recurso(h) \in Recursos /\ Recurso(h)' = Recurso(h) /\ UNCHANGED <<instancias, cola_recurso>>
           /\ instancias[Recurso(h)] >= 0 /\ cola_recurso[Recurso(h)] # <<>>
  <1>1. hilo[h].pasos # <<>> /\ Head(hilo[h].pasos).op \in OpsSuma
    BY DEF SumarInstancia, Sumar, Mirar, Sacar, Buscar, Desbloquear, Toca, OpsSuma
  <1>2. PICK v \in Seq(UnPaso), r \in Recursos :
           /\ v # <<>> /\ Head(v).op \notin OpsSuma /\ Sumando(hilo[h].pasos, v, r)
           /\ CasosSuma(hilo[h].pasos, v, r) /\ Recurso(h) = r
    BY <1>1, SumandoHilo
  <1>3. hilo \in [Hilos -> THilo] /\ TienePids(hilo[h])  BY <1>1, SumandoHilo
  <1>4. cola_recurso \in [Recursos -> Seq(Pids)] /\ blocked \in Seq(Pids)  BY DEF InvTipos, DatosOK
  <1>5. Sumando(hilo'[h].pasos, v, r)  BY <1>2, <1>3, <1>4, SumaHilo
  <1>6. CasosSuma(hilo'[h].pasos, v, r)  BY <1>2, <1>5, SumandoCasos
  <1>7. hilo'[h].pasos # <<>> /\ Head(hilo'[h].pasos).op = "sacar"  BY DEF Toca
  <1>8. Recurso(h)' = r  BY <1>6, <1>7 DEF CasosSuma, OpsSuma, Recurso
  <1>9. hilo[h] \in THilo  BY <1>3
  <1>10. /\ Head(<<Paso("mirar", r)>> \o v).op = "mirar"
         /\ Head(<<Paso("buscar", r), Paso("desbloquear", r)>> \o v).op = "buscar"
         /\ Head(<<Paso("desbloquear", r)>> \o v).op = "desbloquear"
    BY SumandoDe
  <1>11. CASE Sumar(h) \/ Buscar(h) \/ Desbloquear(h) \/ Sacar(h)
    <2>1. Head(hilo[h].pasos).op \in {"sumar", "buscar", "desbloquear", "sacar"}
      BY <1>11 DEF Sumar, Buscar, Desbloquear, Sacar, Toca
    <2>2. hilo'[h].pasos = Tail(hilo[h].pasos) \/ (Sacar(h) /\ hilo'[h].pasos = SubSeq(hilo[h].pasos, 4, Len(hilo[h].pasos)))
      <3>1. CASE Sumar(h)  BY <1>1, <1>3, <3>1, HechoTipo DEF Sumar
      <3>2. CASE Buscar(h)
        <4>1. PICK s, k : hilo' = [hilo EXCEPT ![h].pasos = s, ![h].indice = k] /\ s = Tail(hilo[h].pasos)
          BY <3>2 DEF Buscar
        <4>2. hilo'[h].pasos = s  BY <1>3, <1>9, <4>1 DEF THilo
        <4>3. QED  BY <4>1, <4>2
      <3>3. CASE Desbloquear(h)
        <4>1. PICK s : /\ hilo' = [hilo EXCEPT ![h].pasos = s, ![h].despierta = Nadie, ![h].indice = 0]
                       /\ s = Tail(hilo[h].pasos)
          BY <3>3 DEF Desbloquear
        <4>2. hilo'[h].pasos = s  BY <1>3, <1>9, <4>1 DEF THilo
        <4>3. QED  BY <4>1, <4>2
      <3>4. CASE Sacar(h)
        <4>1. CASE cola_recurso[Recurso(h)] = <<>>
          <5>1. PICK s : hilo' = [hilo EXCEPT ![h].pasos = s] /\ s = SubSeq(hilo[h].pasos, 4, Len(hilo[h].pasos))
            BY <3>4, <4>1 DEF Sacar
          <5>2. hilo'[h].pasos = s  BY <1>3, <1>9, <5>1 DEF THilo
          <5>3. QED  BY <3>4, <5>1, <5>2
        <4>2. CASE cola_recurso[Recurso(h)] # <<>>
          <5>1. PICK s, e : hilo' = [hilo EXCEPT ![h].pasos = s, ![h].despierta = e] /\ s = Tail(hilo[h].pasos)
            BY <3>4, <4>2 DEF Sacar
          <5>2. hilo'[h].pasos = s  BY <1>3, <1>9, <5>1 DEF THilo
          <5>3. QED  BY <5>1, <5>2
        <4>3. QED  BY <4>1, <4>2
      <3>5. QED  BY <1>11, <3>1, <3>2, <3>3, <3>4
    <2>3. Sacar(h) => Head(hilo[h].pasos).op = "sacar"  BY DEF Sacar, Toca
    <2>4. Head(hilo'[h].pasos).op # "sacar"
      BY <1>2, <1>10, <2>1, <2>2, <2>3 DEF CasosSuma, OpsSuma
    <2>5. QED  BY <1>7, <2>4
  <1>12. CASE Mirar(h)
    <2>1. UNCHANGED <<instancias, cola_recurso>>  BY <1>12 DEF Mirar, contables
    <2>2. HayQueDespertar(r)
      <3>1. SUFFICES ASSUME ~HayQueDespertar(r) PROVE FALSE  OBVIOUS
      <3>2. Hecho(h) /\ Head(hilo[h].pasos).op = "mirar"  BY <1>2, <1>12, <3>1 DEF Mirar, Hecho, Toca
      <3>3. hilo'[h].pasos = Tail(hilo[h].pasos)  BY <1>1, <1>3, <3>2, HechoTipo
      <3>4. hilo'[h].pasos = v  BY <1>2, <3>2, <3>3 DEF CasosSuma, OpsSuma
      <3>5. QED  BY <1>2, <1>7, <3>4 DEF OpsSuma
    <2>3. QED  BY <1>2, <1>8, <2>1, <2>2 DEF HayQueDespertar
  <1>13. QED  BY <1>11, <1>12 DEF SumarInstancia

\* Nothing else leads there.
LEMMA ElimNoSaca ==
    ASSUME InvTipos, EliminarProceso \/ Quitar \/ Devolver \/ Destruir, vivo' PROVE ~Toca("eliminacion", "sacar")'
  <1>1. asignadas \in [Pids -> TAsignadas] /\ hilo \in [Hilos -> THilo] /\ "eliminacion" \in Hilos
        /\ ElimOK(Eliminador, asignadas)
    BY DEF InvTipos, Hilos, Eliminador
  <1>2. CASE EliminarProceso
    <2>1. PICK p : p = Head(exit)  OBVIOUS
    <2>2. p \in Pids /\ p \notin eliminados
      <3>1. exit \in Seq(Pids) /\ exit # <<>>  BY <1>2 DEF EliminarProceso, InvTipos, DatosOK
      <3>2. Head(exit) \notin eliminados  BY <1>2 DEF EliminarProceso
      <3>3. Head(exit) \in Pids  BY <3>1
      <3>4. QED  BY <2>1, <3>2, <3>3
    <2>3. PICK orden \in SetToSeqs(DOMAIN asignadas[p]) :
             hilo' = [hilo EXCEPT !["eliminacion"].pasos = PasosLiberar(orden), !["eliminacion"].pid = p]
      BY <1>2, <2>1, <2>2 DEF EliminarProceso
    <2>4. DOMAIN asignadas[p] \subseteq Recursos  BY <1>1, <2>2 DEF TAsignadas
    <2>5. PICK s : s = PasosLiberar(orden) /\ Cierre(s, asignadas[p])  BY <2>4, CierreNuevo
    <2>6. hilo'["eliminacion"].pasos = s
      <3>1. PICK x : x = hilo["eliminacion"] /\ x \in THilo  BY <1>1
      <3>2. PICK y : y = [x EXCEPT !.pasos = s, !.pid = p]  OBVIOUS
      <3>3. y.pasos = s  BY <3>1, <3>2 DEF THilo
      <3>4. hilo' = [hilo EXCEPT !["eliminacion"] = y]  BY <2>3, <2>5, <3>1, <3>2
      <3>5. QED  BY <1>1, <3>3, <3>4
    <2>7. Head(s).op \notin OpsSuma  BY <2>5, CierreCasos
    <2>8. QED  BY <2>6, <2>7 DEF Toca, OpsSuma
  <1>3. CASE Quitar \/ Devolver \/ Destruir
    <2>1. /\ Eliminador.pasos # <<>> /\ Head(Eliminador.pasos).op \notin OpsSuma
          /\ Recurso("eliminacion") = Head(Eliminador.pasos).recurso
      BY <1>3 DEF Quitar, Devolver, Destruir, Toca, Eliminador, Recurso, OpsSuma
    <2>2. PICK p \in Pids : p = Eliminador.pid  BY <1>1, <2>1 DEF ElimOK, TienePids
    <2>3. PICK s \in Seq(UnPaso) : s = Eliminador.pasos /\ s # <<>> /\ Cierre(s, asignadas[p])
      BY <1>1, <2>1, <2>2, ElimSigue
    <2>4. PICK t : t = Tail(s) /\ t \in Seq(UnPaso)
      <3>1. Tail(s) \in Seq(UnPaso)  BY <2>3
      <3>2. QED  BY <3>1
    <2>5. t # <<>> => Cierre(t, asignadas[p]) /\ Head(t).op \notin OpsSuma
      <3>1. t # <<>> => Cierre(t, asignadas[p])  BY <2>3, <2>4, CierreCasos
      <3>2. QED  BY <3>1, CierreCasos
    <2>6. CASE Quitar
      <3>1. Head(s).op = "quitar"  BY <2>3, <2>6 DEF Quitar, Toca, Eliminador
      <3>2. Head(s).recurso \in DOMAIN asignadas[p] /\ Cierre(t, asignadas[p])  BY <2>3, <2>4, <3>1, CierreCasos
      <3>3. PICK r \in Recursos, n \in Nat : r = Recurso("eliminacion") /\ n = asignadas[p][r]
        <4>1. asignadas[p] \in TAsignadas  BY <1>1
        <4>2. DOMAIN asignadas[p] \subseteq Recursos /\ \A o \in DOMAIN asignadas[p] : asignadas[p][o] \in Nat
          BY <4>1, ConstantesOK DEF TAsignadas
        <4>3. QED  BY <2>1, <2>3, <3>2, <4>2
      <3>4. PICK w : w = Repetir(n, Paso("devolver", r)) \o t  OBVIOUS
      <3>5. Cierre(w, asignadas[p])  BY <3>2, <3>4, CierreCon
      <3>6. w \in Seq(UnPaso) /\ Head(w).op \notin OpsSuma  BY <3>5, CierreCasos DEF Cierre
      <3>7. Seguir("eliminacion", Repetir(n, Paso("devolver", r)))  BY <2>2, <2>6, <3>3 DEF Quitar, Eliminador
      <3>8. hilo'["eliminacion"].pasos = w  BY <1>1, <2>3, <2>4, <3>4, <3>6, <3>7, SeguirTipo DEF Eliminador
      <3>9. QED  BY <3>6, <3>8 DEF Toca, OpsSuma
    <2>7. CASE Devolver
      <3>1. Head(s).op = "devolver"  BY <2>3, <2>7 DEF Devolver, Toca, Eliminador
      <3>2. Head(s).recurso \in Recursos /\ Cierre(t, asignadas[p])  BY <2>3, <2>4, <3>1, CierreCasos
      <3>3. PICK r \in Recursos : r = Recurso("eliminacion")  BY <2>1, <2>3, <3>2
      <3>4. PICK q \in {<<>>, PasosSumar(r)} : Seguir("eliminacion", q)  BY <2>7, <3>3 DEF Devolver
      <3>5. PICK w : w = q \o t  OBVIOUS
      <3>6. w \in Seq(UnPaso) /\ Head(w).op # "sacar"
        <4>1. CASE q = <<>>
          <5>1. w = t  BY <2>4, <3>5, <4>1
          <5>2. t # <<>>  BY <3>2 DEF Cierre
          <5>3. QED  BY <2>4, <2>5, <5>1, <5>2 DEF OpsSuma
        <4>2. CASE q = PasosSumar(r)
          <5>1. Sumando(w, t, r) /\ Head(w).op = "sumar"  BY <2>4, <3>5, <4>2, SumandoDe
          <5>2. t # <<>> /\ Head(t).op \notin OpsSuma  BY <2>5, <3>2 DEF Cierre
          <5>3. CasosSuma(w, t, r)  BY <2>4, <5>1, <5>2, SumandoCasos
          <5>4. QED  BY <5>1, <5>3 DEF CasosSuma
        <4>3. QED  BY <3>4, <4>1, <4>2
      <3>7. hilo'["eliminacion"].pasos = w  BY <1>1, <2>3, <2>4, <3>4, <3>5, <3>6, SeguirTipo DEF Eliminador
      <3>8. QED  BY <3>6, <3>7 DEF Toca
    <2>8. CASE Destruir
      <3>1. Hecho("eliminacion")  BY <2>8 DEF Destruir
      <3>2. hilo'["eliminacion"].pasos = t  BY <1>1, <2>1, <2>3, <2>4, <3>1, HechoTipo DEF Eliminador
      <3>3. QED  BY <2>5, <3>2 DEF Toca, OpsSuma
    <2>9. QED  BY <1>3, <2>6, <2>7, <2>8
  <1>4. QED  BY <1>2, <1>3

\* What recibir_dispatch is to take out, the counter allows.
LEMMA HayAlSacarNext ==
    ASSUME InvTipos, Curso, HayAlSacar, Next PROVE HayAlSacar'
  <1>1. UNCHANGED carga /\ "dispatch" \in Hilos  BY DEF Next, Hilos
  <1>2. SUFFICES ASSUME Toca("dispatch", "sacar")' PROVE instancias'[Recurso("dispatch")'] >= 0
    BY DEF HayAlSacar
  <1>3. Despachador'.pasos # <<>> /\ Head(Despachador'.pasos).op = "sacar"  BY <1>2 DEF Toca, Despachador
  <1>4. CASE Recibir
    <2>1. PICK m \in TPedido : Despachador'.pasos = PasosDe(m)  BY <1>4, RecibirHilo
    <2>2. QED  BY <1>3, <2>1, PasosDePrimero
  <1>5. CASE Leer
    <2>1. PICK r \in Recursos, q \in Seq(UnPaso) :
             /\ Despachador'.pasos = q
             /\ NoQueda(r) => q = <<Paso("encolar", r), Paso("bloquear", r), Paso("liberar_cpu", r)>>
             /\ ~NoQueda(r) => q = <<>>
      BY <1>1, <1>5, LeerHilo
    <2>2. PICK a, b, c : a = Paso("encolar", r) /\ b = Paso("bloquear", r) /\ c = Paso("liberar_cpu", r)
      OBVIOUS
    <2>3. Head(<<a, b, c>>) = a /\ a.op = "encolar"  BY <2>2 DEF Paso
    <2>4. QED  BY <1>3, <2>1, <2>2, <2>3
  <1>6. CASE SumarInstancia("dispatch")
    <2>1. /\ Recurso("dispatch")' = Recurso("dispatch") /\ instancias' = instancias
          /\ instancias[Recurso("dispatch")] >= 0
      BY <1>1, <1>2, <1>6, SacarViene
    <2>2. QED  BY <2>1
  <1>7. CASE EncolarIO \/ Restar \/ Encolar \/ Bloquear \/ LiberarCpu \/ RestarRetenida \/ Fallar \/ Finalizar \/ Desalojar
    <2>1. Despachador.pasos # <<>> /\ Hecho("dispatch") /\ Head(Despachador.pasos).op \notin OpsSuma
      BY <1>7 DEF EncolarIO, Restar, Encolar, Bloquear, LiberarCpu, RestarRetenida, Fallar, Finalizar, Desalojar, Toca,
         Despachador, OpsSuma
    <2>2. FormaDispatch(Despachador.pasos) /\ Despachador'.pasos = Tail(Despachador.pasos)  BY <2>1, HechoDespachador
    <2>3. Siguiente(Despachador.pasos)  BY <2>1, <2>2, SiguienteDispatch
    <2>4. QED  BY <1>3, <2>2, <2>3 DEF Siguiente, OpsSuma
  <1>8. CASE Despachar \/ TerminarIO \/ Cpu \/ Eliminacion
    <2>1. UNCHANGED Despachador
      BY <1>8, ElimMarco DEF Despachar, TerminarIO, Cpu, CpuRecibe, CpuEjecuta, CpuRespuesta, CpuChequea, CpuTermina,
         Despachador
    <2>2. Toca("dispatch", "sacar") /\ Recurso("dispatch")' = Recurso("dispatch")
      BY <1>2, <2>1 DEF Toca, Recurso, Despachador
    <2>3. PICK r \in Recursos : r = Recurso("dispatch")
      <3>1. FormaDispatch(hilo["dispatch"].pasos)  BY DEF InvTipos, DispatchOK
      <3>2. Head(hilo["dispatch"].pasos).recurso \in Recursos
        BY <2>2, <3>1, DispatchCasos DEF Toca, OpsSeguidas
      <3>3. QED  BY <3>2 DEF Recurso
    <2>4. PICK i \in Int : i = instancias[r] /\ i >= 0  BY <2>2, <2>3, RestanTipo DEF HayAlSacar
    <2>5. instancias'[r] \in {i, i + 1}
      <3>1. CASE instancias' = instancias  BY <2>4, <3>1
      <3>2. CASE Sumar("eliminacion")
        <4>1. PICK q : instancias' = [instancias EXCEPT ![q] = instancias[q] + 1]  BY <3>2 DEF Sumar
        <4>2. instancias \in [Recursos -> Int]  BY DEF InvTipos, DatosOK
        <4>3. QED  BY <2>4, <4>1, <4>2
      <3>3. QED
        BY <1>8, <3>1, <3>2 DEF Despachar, TerminarIO, Cpu, CpuRecibe, CpuEjecuta, CpuRespuesta, CpuChequea, CpuTermina,
           Eliminacion, EliminarProceso, Quitar, Devolver, Destruir, SumarInstancia, Mirar, Sacar, Buscar, Desbloquear,
           contables
    <2>6. instancias'[r] >= 0  BY <2>4, <2>5
    <2>7. QED  BY <2>2, <2>3, <2>6
  <1>9. QED  BY <1>4, <1>5, <1>6, <1>7, <1>8 DEF Next, Dispatch

\* While eliminacion_de_procesos is to take somebody out, SIGNAL has nothing to do with r.
LEMMA UnoSolo ==
    ASSUME InvTipos, Curso, NadaQueDevolver, NEW r \in Recursos, DeUnHilo(r), Toca("eliminacion", "sacar"),
           Recurso("eliminacion") = r, Toca("dispatch", "sacar"), Recurso("dispatch") = r
    PROVE  FALSE
  <1>1. r \notin Devueltos
    <2>1. Eliminador.pasos # <<>> /\ Head(Eliminador.pasos).op = "sacar" /\ Head(Eliminador.pasos).recurso = r
      BY DEF Toca, Recurso, Eliminador
    <2>2. Head(Eliminador.pasos) \in SoloQuitan  BY <2>1 DEF NadaQueDevolver
    <2>3. QED  BY <2>1, <2>2 DEF SoloQuitan
  <1>2. "sacar" \in OpsAtender /\ "sacar" \in OpsSuma  BY DEF OpsAtender, OpsSuma
  <1>3. FaseAtendido /\ Pedida \in Instrucciones /\ cpu.pid \in Pids /\ Pedida.op = "SIGNAL" /\ Pedida.recurso = r
    BY <1>2, CursoAtendido
  <1>4. PICK p \in Pids : p = cpu.pid  BY <1>3
  <1>5. pc[p] - 1 \in 1 .. Len(Programa[p]) /\ Programa[p] \in Seq(Instrucciones)
    BY <1>3, <1>4, ProgramaTipo DEF FaseAtendido, Esperando
  <1>6. PICK k \in 1 .. Len(Programa[p]) : k = pc[p] - 1  BY <1>5
  <1>7. Programa[p][k] = [op |-> "SIGNAL", recurso |-> r]
    <2>1. Pedida = [op |-> "SIGNAL", recurso |-> r]  BY <1>3, ConstantesOK DEF Instrucciones
    <2>2. QED  BY <1>4, <1>6, <2>1 DEF Pedida
  <1>8. Usos(p, "SIGNAL", r) > 0
    <2>1. PICK x : x = [op |-> "SIGNAL", recurso |-> r]  OBVIOUS
    <2>2. Veces(Programa[p], x) > 0 <=> \E j \in 1 .. Len(Programa[p]) : Programa[p][j] = x  BY <1>5, VecesTipo
    <2>3. QED  BY <1>7, <2>1, <2>2 DEF Usos
  <1>9. Usos(p, "SIGNAL", r) = 0  BY <1>1 DEF DeUnHilo
  <1>10. QED  BY <1>8, <1>9

\* It is a number in the next state, too.
LEMMA RestanLuego == ASSUME InvTipos', NEW r \in Recursos PROVE Restan(r)' \in Int
  <1>1. instancias'[r] \in Int /\ cola_recurso'[r] \in Seq(Pids)  BY DEF InvTipos, DatosOK
  <1>2. PICK n : n = Pendiente(Despachador'.pasos, r) /\ n \in {0, 1}  BY PendienteTipo
  <1>3. PICK k \in Nat : k = Len(cola_recurso'[r])  BY <1>1
  <1>4. QED  BY <1>1, <1>2, <1>3 DEF Restan

\* Nobody is granted an instance that there is not.
LEMMA AlcanzanNext ==
    ASSUME InvTipos, Curso, EnOrden, Estados, Repartos, Next, vivo', NEW r \in Recursos, DeUnHilo(r)
    PROVE  Alcanzan(r)'
  <1>1. UNCHANGED carga /\ Alcanzan(r) /\ CambiaResto(r)  BY RestoPaso DEF Repartos, Next
  <1>2. PICK i \in Int, k \in Nat, n \in Nat, x \in Int :
           /\ i = instancias[r] /\ k = Len(cola_recurso[r]) /\ n = Pendiente(Despachador.pasos, r) /\ x = Restan(r)
           /\ x = i + k + n /\ x >= 0 /\ cola_recurso[r] \in Seq(Pids)
    BY <1>1, RestanTipo DEF Restan, Alcanzan
  <1>3. cola_recurso[r] # <<>> => k >= 1  BY <1>2
  <1>4. ASSUME NEW h \in Hilos, Sacar(h), Recurso(h) = r, h = "dispatch" => n = 0, cola_recurso[r] # <<>> PROVE x >= 1
    <2>1. CASE h = "eliminacion"
      <3>1. Toca("eliminacion", "sacar")  BY <1>4, <2>1 DEF Sacar
      <3>2. QED  BY <1>1, <1>2, <1>4, <2>1, <3>1 DEF Alcanzan
    <2>2. CASE h = "dispatch"
      <3>1. Toca("dispatch", "sacar")  BY <1>4, <2>2 DEF Sacar
      <3>2. i >= 0 /\ n = 0 /\ k >= 1  BY <1>2, <1>3, <1>4, <2>2, <3>1 DEF Repartos, HayAlSacar
      <3>3. QED  BY <1>2, <3>2
    <2>3. QED  BY <2>1, <2>2 DEF Hilos
  <1>5. Restan(r)' >= 0
    <2>1. CASE Restan(r)' >= Restan(r)
      <3>1. PICK y : y = Restan(r)'  OBVIOUS
      <3>2. y \in Int
        <4>1. InvTipos'  BY InvTiposNext
        <4>2. QED  BY <3>1, <4>1, RestanLuego
      <3>3. QED  BY <1>2, <2>1, <3>1, <3>2
    <2>2. CASE Restan(r)' = instancias[r] + Len(cola_recurso[r]) /\ instancias[r] >= 0  BY <1>2, <2>2
    <2>3. CASE Saca(r)
      <3>1. x >= 1  BY <1>2, <1>4, <2>3 DEF Saca
      <3>2. Restan(r)' = x - 1  BY <1>2, <2>3 DEF Saca
      <3>3. QED  BY <1>2, <3>1, <3>2
    <2>4. QED  BY <1>1, <2>1, <2>2, <2>3 DEF CambiaResto
  <1>6. ASSUME Toca("eliminacion", "sacar")', Recurso("eliminacion")' = r
        PROVE  cola_recurso'[r] # <<>> /\ Restan(r)' >= 1
    <2>1. CASE Eliminacion
      <3>1. SumarInstancia("eliminacion")  BY <1>6, <2>1, ElimNoSaca DEF Eliminacion
      <3>2. "eliminacion" \in Hilos  BY DEF Hilos
      <3>3. /\ Recurso("eliminacion")' = Recurso("eliminacion") /\ UNCHANGED <<instancias, cola_recurso>>
            /\ instancias[Recurso("eliminacion")] >= 0 /\ cola_recurso[Recurso("eliminacion")] # <<>>
        BY <1>6, <3>1, <3>2, SacarViene
      <3>4. UNCHANGED Despachador  BY <2>1, ElimMarco
      <3>5. Restan(r)' = Restan(r)  BY <3>3, <3>4 DEF Restan
      <3>6. i >= 0 /\ k >= 1  BY <1>2, <1>3, <1>6, <3>3
      <3>7. x >= 1  BY <1>2, <3>6
      <3>8. QED  BY <1>2, <1>6, <3>3, <3>5, <3>7
    <2>2. CASE ~Eliminacion
      <3>1. UNCHANGED Eliminador
        BY <2>2, DispatchMarco DEF Next, Despachar, TerminarIO, Cpu, CpuRecibe, CpuEjecuta, CpuRespuesta, CpuChequea,
           CpuTermina, Eliminador
      <3>2. Toca("eliminacion", "sacar") /\ Recurso("eliminacion") = r  BY <1>6, <3>1 DEF Toca, Recurso, Eliminador
      <3>3. cola_recurso[r] # <<>> /\ x >= 1  BY <1>1, <1>2, <3>2 DEF Alcanzan
      <3>4. ~Saca(r)
        <4>1. SUFFICES ASSUME Saca(r) PROVE FALSE  OBVIOUS
        <4>2. PICK h \in Hilos : Sacar(h) /\ Recurso(h) = r  BY <4>1 DEF Saca
        <4>3. h # "eliminacion"  BY <2>2, <4>2 DEF Eliminacion, SumarInstancia
        <4>4. Toca("dispatch", "sacar") /\ Recurso("dispatch") = r  BY <4>2, <4>3 DEF Hilos, Sacar
        <4>5. QED  BY <3>2, <4>4, UnoSolo DEF Repartos
      <3>5. CASE Restan(r)' >= Restan(r) /\ (cola_recurso[r] # <<>> => cola_recurso'[r] # <<>>)
        <4>1. PICK y : y = Restan(r)'  OBVIOUS
        <4>2. y \in Int
          <5>1. InvTipos'  BY InvTiposNext
          <5>2. QED  BY <4>1, <5>1, RestanLuego
        <4>3. y >= 1  BY <1>2, <3>3, <3>5, <4>1, <4>2
        <4>4. QED  BY <3>3, <3>5, <4>1, <4>3
      <3>6. CASE /\ Restan(r)' = instancias[r] + Len(cola_recurso[r]) /\ instancias[r] >= 0
                 /\ cola_recurso'[r] = cola_recurso[r]
        <4>1. k >= 1 /\ i >= 0  BY <1>2, <1>3, <3>3, <3>6
        <4>2. Restan(r)' >= 1  BY <1>2, <3>6, <4>1
        <4>3. QED  BY <3>3, <3>6, <4>2
      <3>7. QED  BY <1>1, <3>4, <3>5, <3>6 DEF CambiaResto
    <2>3. QED  BY <2>1, <2>2
  <1>7. QED  BY <1>5, <1>6 DEF Alcanzan

\* The counts of what there is to give.
LEMMA RepartosNext ==
    ASSUME InvTipos, EnPrograma, Curso, Anotado, EnOrden, Estados, Repartos, Next, vivo' PROVE Repartos'
  <1>1. NadaQueDevolver'  BY NadaQueDevolverNext DEF Repartos
  <1>2. HayAlSacar'  BY HayAlSacarNext DEF Repartos
  <1>3. ASSUME NEW r \in Recursos, DeUnHilo(r)' PROVE Alcanzan(r)'
    <2>1. DeUnHilo(r)  BY <1>3 DEF Next, DeUnHilo, Devueltos, Usos, Programa
    <2>2. QED  BY <2>1, AlcanzanNext
  <1>4. QED  BY <1>1, <1>2, <1>3 DEF Repartos

-----------------------------------------------------------------------------
(* What the processes have between them *)

\* What some of them are noted for is no more than what they all are.
LEMMA TotalMenor ==
    ASSUME NEW R, IsFiniteSet(R), NEW a, NEW r, \A p \in R : Anotadas(a[p], r) \in Nat, NEW N \in SUBSET R
    PROVE  Total(a, r, N) \in Nat /\ Total(a, r, N) <= Total(a, r, R)
  <1>1. ASSUME NEW u \in SUBSET R
        PROVE  IsFiniteSet(u) /\ Total(a, r, u) \in Nat
               /\ \A x \in u : Total(a, r, u) = Anotadas(a[x], r) + Total(a, r, u \ {x})
    <2>1. IsFiniteSet(u)  BY FS_Subset
    <2>2. \A p \in u : Anotadas(a[p], r) \in Nat  OBVIOUS
    <2>3. QED  BY <2>1, <2>2, TotalSin
  <1> DEFINE K == {u \in SUBSET R : ~(Total(a, r, R \ u) <= Total(a, r, R))}
  <1>2. K = {}
    <2> SUFFICES ASSUME K # {} PROVE FALSE  OBVIOUS
    <2>1. PICK u \in K : \A v \in K : Cardinality(u) <= Cardinality(v)
      <3>1. K \subseteq SUBSET R  OBVIOUS
      <3> HIDE DEF K
      <3>2. QED  BY <3>1, MenorDe
    <2>2. u \in SUBSET R /\ ~(Total(a, r, R \ u) <= Total(a, r, R))  BY <2>1
    <2>3. PICK m \in Nat, n \in Nat : m = Total(a, r, R) /\ n = Total(a, r, R \ u)
      <3>1. R \ u \in SUBSET R /\ R \in SUBSET R  OBVIOUS
      <3>2. QED  BY <1>1, <3>1
    <2>4. u # {}
      <3>1. R \ {} = R  OBVIOUS
      <3>2. m <= m  OBVIOUS
      <3>3. QED  BY <2>2, <2>3, <3>1, <3>2
    <2>5. PICK x \in u : TRUE  BY <2>4
    <2>6. PICK v : v = u \ {x}  OBVIOUS
    <2>7. v \in SUBSET R /\ Cardinality(v) < Cardinality(u) /\ Cardinality(u) \in Nat
          /\ Cardinality(v) = Cardinality(u) - 1
      BY <2>2, <2>5, <2>6, SinUno
    <2>8. v \notin K  BY <2>1, <2>7
    <2>9. Total(a, r, R \ v) <= m  BY <2>3, <2>7, <2>8
    <2>10. R \ v \in SUBSET R /\ x \in R \ v /\ (R \ v) \ {x} = R \ u  BY <2>2, <2>5, <2>6
    <2>11. Total(a, r, R \ v) = Anotadas(a[x], r) + n /\ Total(a, r, R \ v) \in Nat
      BY <1>1, <2>3, <2>10
    <2>12. PICK i \in Nat, j \in Nat : i = Anotadas(a[x], r) /\ j = Total(a, r, R \ v)  BY <2>10, <2>11
    <2>13. j = i + n /\ j <= m  BY <2>9, <2>11, <2>12
    <2>14. n <= m  BY <2>13
    <2>15. QED  BY <2>2, <2>3, <2>14
  <1>3. R \ N \in SUBSET R /\ R \ (R \ N) = N  OBVIOUS
  <1>4. QED  BY <1>1, <1>2, <1>3

\* There are no fewer elements than places in a list that names none twice.
LEMMA LugaresDe ==
    ASSUME NEW A, NEW s \in Seq(A), Simple(s, A), NEW W, IsFiniteSet(W), \A k \in 1 .. Len(s) : s[k] \in W
    PROVE  Len(s) <= Cardinality(W)
  <1>1. PICK n \in Nat : n = Len(s)  OBVIOUS
  <1>2. \A k \in 1 .. n : s[k] \in A  BY <1>1
  <1>3. PICK f : f = [k \in 1 .. n |-> s[k]]  OBVIOUS
  <1>4. f \in Injection(1 .. n, W)
    <2>1. f \in [1 .. n -> W]  BY <1>1, <1>3
    <2>2. \A i, j \in 1 .. n : f[i] = f[j] => i = j  BY <1>1, <1>2, <1>3 DEF Simple
    <2>3. QED  BY <2>1, <2>2 DEF Injection, IsInjective
  <1>5. Cardinality(1 .. n) <= Cardinality(W)  BY <1>4, FS_Injection
  <1>6. Cardinality(1 .. n) = n  BY FS_Interval
  <1>7. QED  BY <1>1, <1>5, <1>6

\* What they have, all together ...
SumaTiene(r) == MapThenSumSet(LAMBDA p : Tiene(p, r), Pids)

\* ... is the sum of a function.
LEMMA TieneEs ==
    ASSUME NEW r, NEW f, f = [p \in Pids |-> Tiene(p, r)]
    PROVE  \E t : EsSuma(t, f, Pids) /\ SumaTiene(r) = t[Pids]
  <1> DEFINE Ec(t) == t = [s \in SUBSET Pids |-> IF s = {} THEN 0 ELSE Tiene(Uno(s), r) + t[s \ {Uno(s)}]]
             t0 == CHOOSE t : Ec(t)
  <1>1. SumaTiene(r) = t0[Pids]  BY DEF SumaTiene, MapThenSumSet, MapThenFoldSet, Uno
  <1>2. \A t : EsSuma(t, f, Pids) <=> Ec(t)
    <2>1. ASSUME NEW s \in SUBSET Pids, s # {} PROVE f[Uno(s)] = Tiene(Uno(s), r)
      <3>1. Uno(s) \in s  BY <2>1 DEF Uno
      <3>2. QED  BY <3>1
    <2>2. \A t : [s \in SUBSET Pids |-> IF s = {} THEN 0 ELSE f[Uno(s)] + t[s \ {Uno(s)}]]
               = [s \in SUBSET Pids |-> IF s = {} THEN 0 ELSE Tiene(Uno(s), r) + t[s \ {Uno(s)}]]
      BY <2>1
    <2>3. QED  BY <2>2 DEF EsSuma
  <1>3. \E t : Ec(t)
    <2>1. IsFiniteSet(Pids)  BY ConstantesOK
    <2>2. \E t : EsSuma(t, f, Pids)  BY <2>1, SumaExiste
    <2>3. QED  BY <1>2, <2>2
  <1> HIDE DEF Ec
  <1>4. Ec(t0)  BY <1>3
  <1>5. QED  BY <1>1, <1>2, <1>4

\* One less for who waits (W), d less for h, nothing for those of M ...
PorPartes(f, S, a, r, W, M, d, h) ==
    \A p \in S : f[p] = IF p \in M THEN 0 ELSE Anotadas(a[p], r) - (IF p \in W THEN 1 ELSE 0) - (IF p = h THEN d ELSE 0)
SumaPorPartes(t, S, a, r, W, M, d, h) ==
    \A s \in SUBSET S : t[s] = Total(a, r, s \ M) - Cardinality(W \cap s) - (IF h \in s THEN d ELSE 0)

\* ... makes the sum of what the others are noted for, less those who wait and less d.
LEMMA SumaPartes ==
    ASSUME NEW S, IsFiniteSet(S), NEW a, NEW r, \A p \in S : Anotadas(a[p], r) \in Nat,
           NEW W \in SUBSET S, NEW M, W \cap M = {}, NEW d \in Int, NEW h, d = 0 \/ h \notin M,
           NEW f, PorPartes(f, S, a, r, W, M, d, h), NEW t, EsSuma(t, f, S)
    PROVE  SumaPorPartes(t, S, a, r, W, M, d, h)
  <1> DEFINE Bien(s) == t[s] = Total(a, r, s \ M) - Cardinality(W \cap s) - (IF h \in s THEN d ELSE 0)
             K == {s \in SUBSET S : ~Bien(s)}
  <1> SUFFICES ASSUME K # {} PROVE FALSE
    BY DEF SumaPorPartes
  <1> USE DEF PorPartes
  <1>1. PICK s \in K : \A u \in K : Cardinality(s) <= Cardinality(u)
    <2>1. K \subseteq SUBSET S  OBVIOUS
    <2> HIDE DEF K
    <2>2. QED  BY <2>1, MenorDe
  <1>2. s \in SUBSET S /\ ~Bien(s)  BY <1>1
  <1>3. t[s] = IF s = {} THEN 0 ELSE f[Uno(s)] + t[s \ {Uno(s)}]  BY <1>2 DEF EsSuma
  <1>4. ASSUME NEW u \in SUBSET S
        PROVE  /\ IsFiniteSet(u) /\ Total(a, r, u) \in Nat
               /\ \A x \in u : Total(a, r, u) = Anotadas(a[x], r) + Total(a, r, u \ {x})
    <2>1. IsFiniteSet(u)  BY FS_Subset
    <2>2. \A p \in u : Anotadas(a[p], r) \in Nat  OBVIOUS
    <2>3. QED  BY <2>1, <2>2, TotalSin
  <1>5. s # {}
    <2>1. SUFFICES ASSUME s = {} PROVE FALSE  OBVIOUS
    <2>2. s \ M = {} /\ W \cap s = {} /\ h \notin s  BY <2>1
    <2>3. Total(a, r, {}) = 0
      <3>1. \A p \in {} : Anotadas(a[p], r) = 0  OBVIOUS
      <3>2. IsFiniteSet({})  BY FS_EmptySet
      <3>3. QED  BY <3>1, <3>2, TotalCero
    <2>4. Cardinality({}) = 0  BY FS_EmptySet
    <2>5. t[s] = 0  BY <1>3, <2>1
    <2>6. PICK c : c = Cardinality(W \cap s)  OBVIOUS
    <2>7. PICK o : o = Total(a, r, s \ M)  OBVIOUS
    <2>8. c = 0 /\ o = 0  BY <2>2, <2>3, <2>4, <2>6, <2>7
    <2>9. PICK e : e = (IF h \in s THEN d ELSE 0)  OBVIOUS
    <2>10. e = 0  BY <2>2, <2>9
    <2>11. o - c - e = 0
      <3> HIDE DEF Bien, K
      <3> QED  BY <2>8, <2>10
    <2>12. t[s] = o - c - e  BY <2>5, <2>11
    <2>13. QED  BY <1>2, <2>6, <2>7, <2>9, <2>12
  <1>6. PICK x \in s : x = Uno(s)  BY <1>5 DEF Uno
  <1>7. PICK v : v = s \ {x}  OBVIOUS
  <1>8. v \in SUBSET S /\ Cardinality(v) < Cardinality(s) /\ Cardinality(s) \in Nat
        /\ Cardinality(v) = Cardinality(s) - 1
    BY <1>2, <1>6, <1>7, SinUno
  <1>9. Bien(v)
    <2>1. v \notin K
      <3> HIDE DEF K, Bien
      <3> QED  BY <1>1, <1>8
    <2>2. QED  BY <1>8, <2>1
  <1>10. PICK n \in Nat, m \in Nat, g \in Int :
            /\ n = Total(a, r, v \ M) /\ m = Cardinality(W \cap v) /\ g = (IF h \in v THEN d ELSE 0)
    <2>1. v \ M \in SUBSET S /\ IsFiniteSet(W \cap v)
      <3>1. W \cap v \subseteq S /\ v \ M \in SUBSET S  BY <1>8
      <3>2. QED  BY <3>1, FS_Subset
    <2>2. Cardinality(W \cap v) \in Nat  BY <2>1, FS_CardinalityType
    <2>3. Total(a, r, v \ M) \in Nat  BY <1>4, <2>1
    <2>4. QED  BY <2>2, <2>3
  <1>11. PICK y : y = t[v] /\ y = n - m - g  BY <1>9, <1>10
  <1>12. t[s] = f[x] + y  BY <1>3, <1>5, <1>6, <1>7, <1>11
  <1>13. x \in S  BY <1>2, <1>6
  <1>14. PICK o \in Nat, k \in Nat, e \in Int :
            /\ o = (IF x \in M THEN 0 ELSE Anotadas(a[x], r)) /\ k = (IF x \in W THEN 1 ELSE 0)
            /\ e = (IF x = h THEN d ELSE 0)
    BY <1>13
  <1>15. f[x] = o - k - e
    <2>1. CASE x \in M
      <3>1. x \notin W /\ (x = h => d = 0)  BY <2>1
      <3>2. o = 0 /\ k = 0 /\ e = 0  BY <1>14, <2>1, <3>1
      <3>3. f[x] = 0  BY <1>13, <2>1
      <3>4. QED  BY <3>2, <3>3
    <2>2. CASE x \notin M  BY <1>13, <1>14, <2>2
    <2>3. QED  BY <2>1, <2>2
  <1>16. Total(a, r, s \ M) = o + n
    <2>1. CASE x \in M
      <3>1. s \ M = v \ M  BY <1>7, <2>1
      <3>2. o = 0  BY <1>14, <2>1
      <3>3. o + n = n
        <4> HIDE DEF Bien, K
        <4> QED  BY <3>2
      <3>4. QED  BY <1>10, <3>1, <3>3
    <2>2. CASE x \notin M
      <3>1. s \ M \in SUBSET S /\ x \in s \ M /\ (s \ M) \ {x} = v \ M  BY <1>2, <1>6, <1>7, <2>2
      <3>2. Total(a, r, s \ M) = Anotadas(a[x], r) + Total(a, r, v \ M)  BY <1>4, <3>1
      <3>3. QED  BY <1>10, <1>14, <2>2, <3>2
    <2>3. QED  BY <2>1, <2>2
  <1>17. Cardinality(W \cap s) = k + m
    <2>1. CASE x \in W
      <3>1. W \cap s \subseteq S /\ x \in W \cap s /\ (W \cap s) \ {x} = W \cap v  BY <1>2, <1>6, <1>7, <2>1
      <3>2. PICK z : z = W \cap s  OBVIOUS
      <3>3. z \in SUBSET S /\ x \in z  BY <3>1, <3>2
      <3>4. Cardinality(z \ {x}) = Cardinality(z) - 1 /\ Cardinality(z) \in Nat  BY <3>3, SinUno
      <3>5. z \ {x} = W \cap v  BY <3>1, <3>2
      <3>6. PICK c \in Nat : c = Cardinality(z)  BY <3>4
      <3>7. m = c - 1  BY <1>10, <3>4, <3>5, <3>6
      <3>8. k = 1  BY <1>14, <2>1
      <3>9. c = k + m  BY <3>7, <3>8
      <3>10. QED  BY <3>2, <3>6, <3>9
    <2>2. CASE x \notin W
      <3>1. W \cap s = W \cap v  BY <1>7, <2>2
      <3>2. k = 0  BY <1>14, <2>2
      <3>3. k + m = m
        <4> HIDE DEF Bien, K
        <4> QED  BY <3>2
      <3>4. QED  BY <1>10, <3>1, <3>3
    <2>3. QED  BY <2>1, <2>2
  <1>18. (IF h \in s THEN d ELSE 0) = e + g
    <2>1. CASE x = h
      <3>1. h \in s /\ h \notin v  BY <1>6, <1>7, <2>1
      <3>2. g = 0 /\ e = d  BY <1>10, <1>14, <2>1, <3>1
      <3>3. QED  BY <3>1, <3>2
    <2>2. CASE x # h
      <3>1. h \in s <=> h \in v  BY <1>7, <2>2
      <3>2. e = 0  BY <1>14, <2>2
      <3>3. QED  BY <1>10, <3>1, <3>2
    <2>3. QED  BY <2>1, <2>2
  <1>19. t[s] = (o + n) - (k + m) - (e + g)
    <2> HIDE DEF Bien, K
    <2>1. t[s] = (o - k - e) + (n - m - g)  BY <1>11, <1>12, <1>15
    <2>2. QED  BY <2>1
  <1>20. QED  BY <1>2, <1>16, <1>17, <1>18, <1>19

\* What recibir_dispatch is about to take off its process.
Resta(s, r) == IF Veces(s, Paso("restar_retenida", r)) > 0 THEN 1 - Veces(s, Paso("sumar", r)) ELSE 0
Primero(s, op, r) == IF s # <<>> /\ Head(s) = Paso(op, r) THEN 1 ELSE 0
Esperan(r) == {p \in Pids : Espera(p, r)}

\* Short lists of what is in a set.
LEMMA Pocos ==
    ASSUME NEW A, NEW a \in A
    PROVE  <<a>> \in Seq(A) /\ \A b \in A : <<a, b>> \in Seq(A) /\ \A c \in A : <<a, b, c>> \in Seq(A)
  OBVIOUS

\* An instance that is about to be read is in the hands of recibir_dispatch.
LEMMA ManoPrimero ==
    ASSUME InvTipos, Curso, NEW r \in Recursos, NEW s, s = Despachador.pasos
    PROVE  /\ Veces(s, Paso("leer", r)) - Veces(s, Paso("restar", r)) = Primero(s, "leer", r)
           /\ Veces(s, Paso("restar_retenida", r)) > 0 =>
                 s # <<>> /\ Despachador.pid \in Pids /\ Despachador.pid \notin Terminados
  <1>1. Paso("leer", r).op = "leer" /\ Paso("restar", r).op = "restar" /\ "leer" \in Pasos /\ "restar" \in Pasos
        /\ "restar_retenida" \in Pasos
    BY DEF Paso, Pasos
  <1>2. ASSUME NEW O, {"leer", "restar", "restar_retenida"} \cap O = {}, s \in Seq(PasosCon(O))
        PROVE  /\ Veces(s, Paso("leer", r)) = 0 /\ Veces(s, Paso("restar", r)) = 0
               /\ Veces(s, Paso("restar_retenida", r)) = 0 /\ Primero(s, "leer", r) = 0
    <2>1. "leer" \notin O /\ "restar" \notin O /\ "restar_retenida" \notin O  BY <1>2
    <2>2. Veces(s, Paso("leer", r)) = 0 /\ Veces(s, Paso("restar", r)) = 0 /\ Veces(s, Paso("restar_retenida", r)) = 0
      BY <1>1, <1>2, <2>1, VecesOtra
    <2>3. s # <<>> => Head(s).op \in O  BY <1>2 DEF PasosCon
    <2>4. QED  BY <1>1, <2>1, <2>2, <2>3 DEF Primero
  <1>3. CASE Callado(s)
    <2>1. s \in Seq(PasosCon(OpsCalladas))
      <3>1. Callados = PasosCon(OpsCalladas)  BY DEF Callados, PasosCon
      <3>2. QED  BY <1>3, <3>1 DEF Callado
    <2>2. {"leer", "restar", "restar_retenida"} \cap OpsCalladas = {}  BY DEF OpsCalladas
    <2>3. QED  BY <1>2, <2>1, <2>2
  <1>4. CASE FaseAtendido
    <2>1. PICK p \in Pids, i \in Instrucciones :
             p = cpu.pid /\ i = Pedida /\ Esperando /\ Atiende(s, i) /\ Despachador.pid = p
      BY <1>4, PedidaTipo DEF FaseAtendido, Esperando
    <2>2. CASE AtiendeFalla(s)
      <3>1. PICK O : O = {"fallar", "liberar_cpu", "finalizar"}  OBVIOUS
      <3>2. Paso("fallar", Nadie) \in PasosCon(O) /\ Paso("liberar_cpu", Nadie) \in PasosCon(O)
            /\ Paso("finalizar", Nadie) \in PasosCon(O)
        BY <3>1 DEF PasosCon, UnPaso, Paso, Pasos
      <3>3. s \in Seq(PasosCon(O))
        <4>1. CASE s = <<Paso("fallar", Nadie), Paso("liberar_cpu", Nadie), Paso("finalizar", Nadie)>>
          BY <3>2, <4>1, Pocos
        <4>2. CASE s = <<Paso("fallar", Nadie), Paso("finalizar", Nadie), Paso("liberar_cpu", Nadie)>>
          BY <3>2, <4>2, Pocos
        <4>3. QED  BY <2>2, <4>1, <4>2 DEF AtiendeFalla
      <3>4. {"leer", "restar", "restar_retenida"} \cap O = {}  BY <3>1
      <3>5. QED  BY <1>2, <3>3, <3>4
    <2>3. ASSUME NEW q \in Recursos, AtiendeWait(s, q)
          PROVE  /\ Veces(s, Paso("leer", r)) - Veces(s, Paso("restar", r)) = Primero(s, "leer", r)
                 /\ Veces(s, Paso("restar_retenida", r)) = 0
      <3>1. PICK a \in UnPaso, b \in UnPaso : a = Paso("restar", q) /\ b = Paso("leer", q)  BY PasoTipo DEF Pasos
      <3>2. a # Paso("leer", r) /\ b # Paso("restar", r) /\ a # Paso("restar_retenida", r)
            /\ b # Paso("restar_retenida", r) /\ (a = Paso("restar", r) <=> q = r) /\ (b = Paso("leer", r) <=> q = r)
        BY <3>1 DEF Paso
      <3>3. CASE s = <<a, b>>
        <4>1. \A x : Veces(s, x) = (IF a = x THEN 1 ELSE 0) + (IF b = x THEN 1 ELSE 0)  BY <3>3, VecesPar
        <4>2. Primero(s, "leer", r) = 0  BY <3>2, <3>3 DEF Primero
        <4>3. QED  BY <3>2, <4>1, <4>2
      <3>4. CASE s = <<b>>
        <4>1. \A x : Veces(s, x) = IF b = x THEN 1 ELSE 0  BY <3>4, VecesSola
        <4>2. Primero(s, "leer", r) = IF q = r THEN 1 ELSE 0  BY <3>2, <3>4 DEF Primero
        <4>3. QED  BY <3>2, <4>1, <4>2
      <3>5. QED  BY <2>3, <3>1, <3>3, <3>4 DEF AtiendeWait
    <2>4. ASSUME NEW q \in Recursos, i.recurso = q, AtiendeSignal(s, q)
          PROVE  /\ Veces(s, Paso("leer", r)) = 0 /\ Veces(s, Paso("restar", r)) = 0 /\ Primero(s, "leer", r) = 0
                 /\ s # <<>> /\ Despachador.pid \in Pids /\ Despachador.pid \notin Terminados
      <3>1. Retenida(q) \in Seq(UnPaso) /\ Retenida(q) # <<>> /\ Head(Retenida(q)).op \notin OpsSuma
            /\ Head(Retenida(q)).op = "restar_retenida"
        BY RetenidaTipo
      <3>2. Sumando(s, Retenida(q), q)  BY <2>4 DEF AtiendeSignal
      <3>3. CasosSuma(s, Retenida(q), q)  BY <3>1, <3>2, SumandoCasos
      <3>4. Primero(s, "leer", r) = 0 /\ s # <<>>
        <4>1. s # <<>> /\ Head(s).op # "leer"  BY <3>1, <3>3 DEF CasosSuma
        <4>2. QED  BY <1>1, <4>1 DEF Primero
      <3>5. Veces(s, Paso("leer", r)) = Veces(Retenida(q), Paso("leer", r))
            /\ Veces(s, Paso("restar", r)) = Veces(Retenida(q), Paso("restar", r))
        <4>1. "leer" \notin OpsSuma /\ "restar" \notin OpsSuma  BY DEF OpsSuma
        <4>2. QED  BY <1>1, <3>1, <3>2, <4>1, VecesSumando
      <3>6. PICK e \in UnPaso : e = Paso("restar_retenida", q) /\ Retenida(q) = <<e>>
        BY PasoTipo DEF Pasos, Retenida
      <3>7. e # Paso("leer", r) /\ e # Paso("restar", r)  BY <3>6 DEF Paso
      <3>8. Veces(<<e>>, Paso("leer", r)) = 0 /\ Veces(<<e>>, Paso("restar", r)) = 0  BY <3>7, VecesSola
      <3>9. cpu.pid \notin Terminados  BY <2>1, <2>4, PideSinTerminar
      <3>10. QED  BY <2>1, <3>4, <3>5, <3>6, <3>8, <3>9
    <2>5. CASE AtiendeWait(s, i.recurso) /\ i.recurso \in Recursos  BY <2>3, <2>5
    <2>6. CASE AtiendeSignal(s, i.recurso) /\ i.recurso \in Recursos  BY <2>4, <2>6
    <2>7. QED  BY <2>1, <2>2, <2>5, <2>6 DEF Atiende
  <1>5. QED  BY <1>3, <1>4 DEF Curso, FaseLibre, FasePedido, FaseContestado

\* Who is about to enter the queue of a resource does so next.
LEMMA EncolarPrimero ==
    ASSUME NEW s, FormaDispatch(s), NEW r \in Recursos, Veces(s, Paso("encolar", r)) > 0
    PROVE  s # <<>> /\ Head(s) = Paso("encolar", r)
  <1>1. "encolar" \in Pasos /\ "encolar" \notin OpsSuma  BY DEF Pasos, OpsSuma
  <1>2. ASSUME NEW O, "encolar" \notin O, s \in Seq(PasosCon(O)) PROVE FALSE
    <2>1. Veces(s, Paso("encolar", r)) = 0  BY <1>1, <1>2, VecesOtra
    <2>2. QED  BY <2>1
  <1>3. s # <<>>
    <2>1. SUFFICES ASSUME s = <<>> PROVE FALSE  OBVIOUS
    <2>2. Veces(s, Paso("encolar", r)) = 0  BY <2>1, VecesNada
    <2>3. QED  BY <2>2
  <1>4. ASSUME s \in PasosMotivos PROVE FALSE
    <2>1. PICK O : O = {"fallar", "liberar_cpu", "finalizar", "desalojar", "bloquear", "encolar_io"}  OBVIOUS
    <2>2. \A op \in O : Paso(op, Nadie) \in PasosCon(O)  BY <2>1 DEF PasosCon, UnPaso, Paso, Pasos
    <2>3. s \in Seq(PasosCon(O))
      <3>1. PICK a \in PasosCon(O), b \in PasosCon(O), c \in PasosCon(O) :
               a = Paso("fallar", Nadie) /\ b = Paso("liberar_cpu", Nadie) /\ c = Paso("finalizar", Nadie)
        BY <2>1, <2>2
      <3>2. PICK d \in PasosCon(O), e \in PasosCon(O), f \in PasosCon(O) :
               d = Paso("desalojar", Nadie) /\ e = Paso("bloquear", Nadie) /\ f = Paso("encolar_io", Nadie)
        BY <2>1, <2>2
      <3>3. s \in {<<a, b, c>>, <<b, c>>, <<c>>, <<a, c, b>>, <<c, b>>, <<b>>, <<d, b>>, <<e, f, b>>, <<f, b>>}
        BY <1>4, <3>1, <3>2, ZenonT(60) DEF PasosMotivos
      <3>4. <<a, b, c>> \in Seq(PasosCon(O)) /\ <<b, c>> \in Seq(PasosCon(O)) /\ <<c>> \in Seq(PasosCon(O))
            /\ <<a, c, b>> \in Seq(PasosCon(O)) /\ <<c, b>> \in Seq(PasosCon(O)) /\ <<b>> \in Seq(PasosCon(O))
            /\ <<d, b>> \in Seq(PasosCon(O)) /\ <<e, f, b>> \in Seq(PasosCon(O)) /\ <<f, b>> \in Seq(PasosCon(O))
        BY Pocos
      <3>5. QED  BY <3>3, <3>4, ZenonT(60)
    <2>4. "encolar" \notin O  BY <2>1
    <2>5. QED  BY <1>2, <2>3, <2>4
  <1>5. ASSUME NEW q \in Recursos, s \in PasosWait(q) PROVE Head(s) = Paso("encolar", r)
    <2>1. PICK O : O = {"restar", "leer", "bloquear", "liberar_cpu"}  OBVIOUS
    <2>2. \A op \in O : Paso(op, q) \in PasosCon(O)  BY <2>1 DEF PasosCon, UnPaso, Paso, Pasos
    <2>3. "encolar" \notin O  BY <2>1
    <2>4. CASE s = <<Paso("encolar", q), Paso("bloquear", q), Paso("liberar_cpu", q)>>
      <3>1. s \in Seq(UnPaso)  BY <1>5, WaitCasos
      <3>2. PICK k \in 1 .. Len(s) : s[k] = Paso("encolar", r)  BY <3>1, VecesTipo
      <3>3. k = 1 \/ k = 2 \/ k = 3  BY <2>4, <3>2
      <3>4. s[2] # Paso("encolar", r) /\ s[3] # Paso("encolar", r)  BY <2>4 DEF Paso
      <3>5. s[1] = Paso("encolar", r)  BY <3>2, <3>3, <3>4
      <3>6. QED  BY <3>5, <2>4
    <2>5. CASE s # <<Paso("encolar", q), Paso("bloquear", q), Paso("liberar_cpu", q)>>
      <3>1. s \in Seq(PasosCon(O))
        <4>1. PICK a \in PasosCon(O), b \in PasosCon(O), c \in PasosCon(O), d \in PasosCon(O) :
                 /\ a = Paso("restar", q) /\ b = Paso("leer", q) /\ c = Paso("bloquear", q)
                 /\ d = Paso("liberar_cpu", q)
          BY <2>1, <2>2
        <4>2. s \in {<<a, b>>, <<b>>, <<c, d>>, <<d>>}  BY <1>5, <2>5, <4>1, ZenonT(60) DEF PasosWait
        <4>3. <<a, b>> \in Seq(PasosCon(O)) /\ <<b>> \in Seq(PasosCon(O)) /\ <<c, d>> \in Seq(PasosCon(O))
              /\ <<d>> \in Seq(PasosCon(O))
          BY Pocos
        <4>4. QED  BY <4>2, <4>3, ZenonT(60)
      <3>2. QED  BY <1>2, <2>3, <3>1
    <2>6. QED  BY <2>4, <2>5
  <1>6. ASSUME NEW q \in Recursos, Sumando(s, Retenida(q), q) PROVE FALSE
    <2>1. Retenida(q) \in Seq(UnPaso)  BY RetenidaTipo
    <2>2. Veces(s, Paso("encolar", r)) = Veces(Retenida(q), Paso("encolar", r))  BY <1>1, <1>6, <2>1, VecesSumando
    <2>3. PICK e \in UnPaso : e = Paso("restar_retenida", q) /\ Retenida(q) = <<e>>  BY PasoTipo DEF Pasos, Retenida
    <2>4. e # Paso("encolar", r)  BY <2>3 DEF Paso
    <2>5. Veces(<<e>>, Paso("encolar", r)) = 0  BY <2>4, VecesSola
    <2>6. QED  BY <2>2, <2>3, <2>5
  <1>7. QED  BY <1>3, <1>4, <1>5, <1>6 DEF FormaDispatch, Seguida

\* There are as many who wait as places in the queue, and one more if recibir_dispatch is
\* about to put its process there; none of them has ended.
LEMMA EsperanCuantos ==
    ASSUME InvTipos, EnOrden, Estados, NEW r \in Recursos
    PROVE  /\ Esperan(r) \in SUBSET Pids /\ IsFiniteSet(Esperan(r)) /\ Esperan(r) \cap Muertos = {}
           /\ Cardinality(Esperan(r)) \in Nat
           /\ Len(cola_recurso[r]) + Primero(Despachador.pasos, "encolar", r) <= Cardinality(Esperan(r))
  <1>1. PICK q \in Seq(Pids) : q = cola_recurso[r]  BY DEF InvTipos, DatosOK
  <1>2. PICK n \in Nat : n = Len(q)  OBVIOUS
  <1>3. PICK s \in Seq(UnPaso) : s = Despachador.pasos
    BY DEF InvTipos, THilo, Hilos, Despachador
  <1>4. FormaDispatch(s) /\ (s # <<>> => Despachador.pid \in Pids)
    BY <1>3 DEF InvTipos, DispatchOK, TienePids, Despachador
  <1>5. PICK W : W = Esperan(r)  OBVIOUS
  <1>6. W \in SUBSET Pids  BY <1>5 DEF Esperan
  <1>7. IsFiniteSet(W)
    <2>1. IsFiniteSet(Pids)  BY ConstantesOK
    <2>2. QED  BY <1>6, <2>1, FS_Subset
  <1>8. Cardinality(W) \in Nat  BY <1>7, FS_CardinalityType
  <1>9. Veces(s, Paso("encolar", r)) > 0 <=> s # <<>> /\ Head(s) = Paso("encolar", r)
    <2>1. Veces(s, Paso("encolar", r)) > 0 <=> \E k \in 1 .. Len(s) : s[k] = Paso("encolar", r)  BY VecesTipo
    <2>2. s # <<>> => 1 \in 1 .. Len(s) /\ Head(s) = s[1]  OBVIOUS
    <2>3. QED  BY <1>4, <2>1, <2>2, EncolarPrimero
  <1>10. \A p \in Pids : p \in W <=> \/ Contains(q, p)
                                     \/ Despachador.pid = p /\ s # <<>> /\ Head(s) = Paso("encolar", r)
    BY <1>1, <1>3, <1>5, <1>9 DEF Esperan, Espera, Faltan, Despachador
  <1>11. \A p \in Pids : /\ Contains(q, p) => Esta("recurso", r, p)
                         /\ Despachador.pid = p /\ s # <<>> /\ Head(s) = Paso("encolar", r) => Esta("encolar", Nadie, p)
    <2>1. ASSUME NEW p \in Pids, Contains(q, p) PROVE Esta("recurso", r, p)  BY <1>1, <2>1 DEF Esta
    <2>2. ASSUME NEW p \in Pids, Despachador.pid = p, s # <<>>, Head(s) = Paso("encolar", r)
          PROVE  Esta("encolar", Nadie, p)
      <3>1. Head(s).op \in OpsEncolar  BY <2>2 DEF Paso, OpsEncolar
      <3>2. Con(s, OpsEncolar)  BY <2>2, <3>1, ConCola
      <3>3. PorEncolar(p)  BY <1>3, <2>2, <3>2 DEF PorEncolar
      <3>4. QED  BY <3>3 DEF Esta
    <2>3. QED  BY <2>1, <2>2
  <1>12. W \cap Muertos = {}
    <2>1. ASSUME NEW p \in Pids, p \in W PROVE p \notin Terminados
      <3>1. Esta("recurso", r, p) \/ Esta("encolar", Nadie, p)  BY <1>10, <1>11, <2>1
      <3>2. Acabados  BY DEF EnOrden
      <3>3. QED  BY <3>1, <3>2, NoAcabado
    <2>2. Muertos \subseteq Terminados  BY DEF Estados
    <2>3. QED  BY <1>6, <2>1, <2>2
  <1>13. \A k \in 1 .. n : q[k] \in Pids /\ Contains(q, q[k])  BY <1>1, <1>2 DEF Contains
  <1>14. Simple(q, Pids)  BY <1>1 DEF EnOrden, Simples
  <1>15. n + Primero(s, "encolar", r) <= Cardinality(W)
    <2>1. CASE ~(s # <<>> /\ Head(s) = Paso("encolar", r))
      <3>1. Primero(s, "encolar", r) = 0  BY <2>1 DEF Primero
      <3>2. \A k \in 1 .. Len(q) : q[k] \in W  BY <1>2, <1>10, <1>13
      <3>3. n <= Cardinality(W)  BY <1>2, <1>7, <1>14, <3>2, LugaresDe
      <3>4. n + 0 = n  OBVIOUS
      <3>5. QED  BY <3>1, <3>3, <3>4
    <2>2. CASE s # <<>> /\ Head(s) = Paso("encolar", r)
      <3>1. Primero(s, "encolar", r) = 1  BY <2>2 DEF Primero
      <3>2. PICK p \in Pids : p = Despachador.pid  BY <1>4, <2>2
      <3>3. PICK t \in Seq(Pids) : t = Append(q, p)
        <4>1. Append(q, p) \in Seq(Pids)  OBVIOUS
        <4>2. QED  BY <4>1
      <3>4. ~Contains(q, p)
        <4>1. Esta("encolar", Nadie, p)  BY <1>11, <2>2, <3>2
        <4>2. UnSitio  BY DEF EnOrden
        <4>3. ~Esta("recurso", r, p)  BY <4>1, <4>2, NoOtro
        <4>4. QED  BY <1>11, <4>3
      <3>5. Simple(t, Pids)  BY <1>14, <3>3, <3>4, ContieneMas
      <3>6. Len(t) = n + 1 /\ \A k \in 1 .. n + 1 : t[k] = IF k = n + 1 THEN p ELSE q[k]
        BY <1>2, <3>3
      <3>7. p \in W  BY <1>10, <2>2, <3>2
      <3>8. \A k \in 1 .. n : q[k] \in W  BY <1>10, <1>13
      <3>9. \A k \in 1 .. Len(t) : t[k] \in W  BY <3>6, <3>7, <3>8
      <3>10. Len(t) <= Cardinality(W)  BY <1>7, <3>5, <3>9, LugaresDe
      <3>11. QED  BY <3>1, <3>6, <3>10
    <2>3. QED  BY <2>1, <2>2
  <1>16. QED  BY <1>1, <1>2, <1>3, <1>5, <1>6, <1>7, <1>8, <1>12, <1>15

\* What the processes have, all together, of a resource that one thread gives back.
LEMMA ReparteBien ==
    ASSUME InvTipos, Curso, EnOrden, Estados, NEW r \in Recursos, Balance(r), Restan(r) >= 0
    PROVE  SumaTiene(r) <= Instancias[r]
  <1>1. PICK s \in Seq(UnPaso) : s = Despachador.pasos
    BY DEF InvTipos, THilo, Hilos, Despachador
  <1>2. PICK f : f = [p \in Pids |-> Tiene(p, r)]  OBVIOUS
  <1>3. PICK t : EsSuma(t, f, Pids) /\ SumaTiene(r) = t[Pids]  BY <1>2, TieneEs
  <1>4. PICK d \in Int : d = Resta(s, r)
    <2>1. Veces(s, Paso("sumar", r)) \in Nat  BY VecesTipo
    <2>2. Resta(s, r) \in Int  BY <2>1 DEF Resta
    <2>3. QED  BY <2>2
  <1>5. PICK h : h = Despachador.pid  OBVIOUS
  <1>6. PICK W \in SUBSET Pids : /\ W = Esperan(r) /\ W \cap Muertos = {} /\ Cardinality(W) \in Nat
                                 /\ Len(cola_recurso[r]) + Primero(s, "encolar", r) <= Cardinality(W)
    BY <1>1, EsperanCuantos
  <1>7. d = 0 \/ (h \in Pids /\ h \notin Muertos)
    <2>1. CASE Veces(s, Paso("restar_retenida", r)) > 0
      <3>1. h \in Pids /\ h \notin Terminados  BY <1>1, <1>5, <2>1, ManoPrimero
      <3>2. QED  BY <3>1 DEF Estados
    <2>2. CASE ~(Veces(s, Paso("restar_retenida", r)) > 0)  BY <1>4, <2>2 DEF Resta
    <2>3. QED  BY <2>1, <2>2
  <1>8. \A p \in Pids : Anotadas(asignadas[p], r) \in Nat  BY BalanceTipo
  <1>9. \A p \in Pids : f[p] = IF p \in Muertos THEN 0 ELSE Anotadas(asignadas[p], r) - (IF p \in W THEN 1 ELSE 0)
                                                            - (IF p = h THEN d ELSE 0)
    <2>1. ASSUME NEW p \in Pids
          PROVE  f[p] = IF p \in Muertos THEN 0 ELSE Anotadas(asignadas[p], r) - (IF p \in W THEN 1 ELSE 0)
                                                            - (IF p = h THEN d ELSE 0)
      <3>1. p \in Muertos <=> estado[p] = "TERMINATED"  BY DEF Muertos
      <3>2. p \in W <=> Espera(p, r)  BY <1>6 DEF Esperan
      <3>3. (IF p = h THEN d ELSE 0)
               = IF hilo["dispatch"].pid = p /\ Faltan("dispatch", "restar_retenida", r) > 0
                   THEN 1 - Faltan("dispatch", "sumar", r) ELSE 0
        <4>1. /\ Faltan("dispatch", "restar_retenida", r) = Veces(s, Paso("restar_retenida", r))
              /\ Faltan("dispatch", "sumar", r) = Veces(s, Paso("sumar", r))
          BY <1>1 DEF Faltan, Despachador
        <4>2. p = h <=> hilo["dispatch"].pid = p  BY <1>5 DEF Despachador
        <4>3. CASE p = h
          <5>1. d = IF Veces(s, Paso("restar_retenida", r)) > 0 THEN 1 - Veces(s, Paso("sumar", r)) ELSE 0
            BY <1>4 DEF Resta
          <5>2. QED  BY <4>1, <4>2, <4>3, <5>1
        <4>4. CASE p # h  BY <4>2, <4>4
        <4>5. QED  BY <4>3, <4>4
      <3>4. PICK x : x = IF p = h THEN d ELSE 0  OBVIOUS
      <3>5. PICK a : a = Anotadas(asignadas[p], r)  OBVIOUS
      <3>6. Tiene(p, r) = IF estado[p] = "TERMINATED" THEN 0 ELSE a - (IF Espera(p, r) THEN 1 ELSE 0) - x
        BY <3>3, <3>4, <3>5 DEF Tiene
      <3>7. f[p] = Tiene(p, r)  BY <1>2
      <3>8. QED  BY <3>1, <3>2, <3>4, <3>5, <3>6, <3>7
    <2>2. QED  BY <2>1
  <1>10. PICK N \in SUBSET Pids : N = Pids \ Muertos  OBVIOUS
  <1>11. PICK R \in SUBSET Pids : R = Retenedores(r)  BY BalanceTipo
  <1>12. N \subseteq R
    <2>1. ASSUME NEW p \in N PROVE p \in R
      <3>1. p \in Pids /\ p \notin Muertos  BY <1>10, <2>1
      <3>2. p \notin eliminados /\ (Eliminador.pasos # <<>> => Eliminador.pid # p)
        BY <3>1 DEF Estados, FinElim
      <3>3. QED  BY <1>11, <3>1, <3>2, RetenedoresEs
    <2>2. QED  BY <2>1
  <1>13. PICK m \in Nat, u \in Nat : m = Total(asignadas, r, N) /\ u = Total(asignadas, r, R) /\ m <= u
    <2>1. R \in SUBSET Pids /\ IsFiniteSet(Pids)  BY ConstantesOK
    <2>2. IsFiniteSet(R)  BY <2>1, FS_Subset
    <2>3. \A p \in R : Anotadas(asignadas[p], r) \in Nat  BY <1>8
    <2>4. Total(asignadas, r, N) \in Nat /\ Total(asignadas, r, N) <= Total(asignadas, r, R)
      BY <1>12, <2>2, <2>3, TotalMenor
    <2>5. Total(asignadas, r, R) \in Nat  BY <1>11, BalanceTipo
    <2>6. QED  BY <2>4, <2>5
  <1>14. PICK c \in Nat : c = Cardinality(W)  BY <1>6
  <1>15. t[Pids] = m - c - d
    <2>1. IsFiniteSet(Pids)  BY ConstantesOK
    <2>2. d = 0 \/ h \notin Muertos  BY <1>7
    <2>3. SumaPorPartes(t, Pids, asignadas, r, W, Muertos, d, h)
      <3>1. PorPartes(f, Pids, asignadas, r, W, Muertos, d, h)  BY <1>9 DEF PorPartes
      <3>2. QED  BY <1>3, <1>6, <1>8, <2>1, <2>2, <3>1, SumaPartes
    <2>4. Pids \in SUBSET Pids  OBVIOUS
    <2>5. W \cap Pids = W  BY <1>6
    <2>6. (IF h \in Pids THEN d ELSE 0) = d  BY <1>7
    <2>7. t[Pids] = Total(asignadas, r, Pids \ Muertos) - Cardinality(W \cap Pids) - (IF h \in Pids THEN d ELSE 0)
      BY <2>3, <2>4 DEF SumaPorPartes
    <2>8. QED  BY <1>10, <1>13, <1>14, <2>5, <2>6, <2>7
  <1>16. PICK i \in Int, k \in Nat, g \in Int, l \in Nat, e \in Nat, n \in Nat :
            /\ i = instancias[r] /\ k = PorDevolver(Eliminador.pasos, r) /\ g = EnMano(s, r)
            /\ l = Primero(s, "leer", r) /\ e = Primero(s, "encolar", r) /\ n = Len(cola_recurso[r])
    <2>1. Primero(s, "leer", r) \in Nat /\ Primero(s, "encolar", r) \in Nat  BY DEF Primero
    <2>2. Len(cola_recurso[r]) \in Nat  BY RestanTipo
    <2>3. instancias[r] \in Int /\ PorDevolver(Eliminador.pasos, r) \in Nat /\ EnMano(s, r) \in Int
      BY <1>1, BalanceTipo
    <2>4. QED  BY <2>1, <2>2, <2>3
  <1>17. g = l - d
    <2>1. EnMano(s, r) = Veces(s, Paso("leer", r)) - Veces(s, Paso("restar", r)) - Resta(s, r)  BY DEF EnMano, Resta
    <2>2. Veces(s, Paso("leer", r)) - Veces(s, Paso("restar", r)) = l  BY <1>1, <1>16, ManoPrimero
    <2>3. QED  BY <1>4, <1>16, <2>1, <2>2
  <1>18. PICK b \in Nat : b = Instancias[r]  BY ConstantesOK
  <1>19. i + k + g + u = b  BY <1>1, <1>11, <1>13, <1>16, <1>18 DEF Balance
  <1>20. n + e <= c  BY <1>6, <1>14, <1>16
  <1>21. i + n + (l + e) >= 0
    <2>1. Pendiente(s, r) = l + e
      <3>1. Paso("leer", r) # Paso("encolar", r)  BY DEF Paso
      <3>2. QED  BY <1>16, <3>1 DEF Pendiente, Primero
    <2>2. QED  BY <1>1, <1>16, <2>1 DEF Restan
  <1>22. m - c - d <= b  BY <1>13, <1>17, <1>19, <1>20, <1>21
  <1>23. QED  BY <1>3, <1>15, <1>18, <1>22

\* Who is in the queue of a resource is in no other place.
LEMMA EsperanQuietos == ASSUME InvTipos, EnOrden, Estados PROVE EsperaQuieta
  <1>1. ASSUME NEW p \in Pids, NEW r \in Recursos, Contains(cola_recurso[r], p)
        PROVE  /\ ~Contains(ready, p) /\ ~Contains(exit, p) /\ ~Contains(cola_io, p)
               /\ ~Contains(a_cpu, Pcb(p))
               /\ (estado[p] = "BLOCKED" \/ hilo["dispatch"].pid = p)
    <2>1. Esta("recurso", r, p)  BY <1>1 DEF Esta
    <2>2. UnSitio /\ Acabados  BY DEF EnOrden
    <2>3. ~Esta("ready", Nadie, p) /\ ~Esta("io", Nadie, p) /\ ~Esta("socket", Nadie, p)  BY <2>1, <2>2, NoOtro
    <2>4. ~Contains(ready, p) /\ ~Contains(cola_io, p) /\ ~Contains(a_cpu, Pcb(p))  BY <2>3 DEF Esta
    <2>5. p \notin Muertos
      <3>1. p \notin Terminados  BY <2>1, <2>2, NoAcabado
      <3>2. QED  BY <3>1 DEF Estados
    <2>6. ~Contains(exit, p)
      <3>1. exit \in Seq(Muertos)  BY DEF Estados, FinElim
      <3>2. QED  BY <2>5, <3>1 DEF Contains
    <2>7. estado[p] = "BLOCKED" \/ hilo["dispatch"].pid = p  BY <1>1 DEF Estados, PorBloquear, Despachador
    <2>8. QED  BY <2>4, <2>6, <2>7
  <1>2. QED  BY <1>1 DEF EsperaQuieta

\* What holds while the modules live, without quanta ...
Ordenados == EnOrden /\ SinQuantum /\ TerminaYa /\ Estados /\ Repartos
\* ... and the invariant: in the last state, only what it is for.
InvUso == InvCuentas /\ (~carga.quantum => IF vivo THEN Ordenados ELSE UsoExclusivo)

\* The invariant is enough: nobody has too much, and who waits is nowhere else.
LEMMA UsoDeInv == ASSUME InvUso PROVE UsoExclusivo
  <1>1. CASE carga.quantum  BY <1>1 DEF UsoExclusivo, ExclusionMutua, EsperaQuieta
  <1>2. CASE ~carga.quantum /\ ~vivo  BY <1>2 DEF InvUso
  <1>3. CASE ~carga.quantum /\ vivo
    <2>1. InvTipos /\ Balances /\ Curso /\ EnOrden /\ Estados /\ Repartos
      BY <1>3 DEF InvUso, InvCuentas, Mientras, Ordenados
    <2>2. EsperaQuieta  BY <2>1, EsperanQuietos
    <2>3. ASSUME NEW r \in Recursos, DeUnHilo(r) PROVE SumaTiene(r) <= Instancias[r]
      <3>1. Balance(r) /\ Restan(r) >= 0  BY <2>1, <2>3 DEF Balances, Repartos, Alcanzan
      <3>2. QED  BY <2>1, <3>1, ReparteBien
    <2>4. ExclusionMutua  BY <2>3 DEF ExclusionMutua, SumaTiene
    <2>5. QED  BY <2>2, <2>4 DEF UsoExclusivo
  <1>4. QED  BY <1>1, <1>2, <1>3

\* As TieneEs, of the next state.
LEMMA TieneLuego ==
    ASSUME NEW r, NEW f, f = [p \in Pids |-> Tiene(p, r)']
    PROVE  \E t : EsSuma(t, f, Pids) /\ SumaTiene(r)' = t[Pids]
  <1> DEFINE Ec(t) == t = [s \in SUBSET Pids |-> IF s = {} THEN 0 ELSE Tiene(Uno(s), r)' + t[s \ {Uno(s)}]]
             t0 == CHOOSE t : Ec(t)
  <1>1. SumaTiene(r)' = t0[Pids]  BY DEF SumaTiene, MapThenSumSet, MapThenFoldSet, Uno
  <1>2. \A t : EsSuma(t, f, Pids) <=> Ec(t)
    <2>1. ASSUME NEW s \in SUBSET Pids, s # {} PROVE f[Uno(s)] = Tiene(Uno(s), r)'
      <3>1. Uno(s) \in s  BY <2>1 DEF Uno
      <3>2. QED  BY <3>1
    <2>2. \A t : [s \in SUBSET Pids |-> IF s = {} THEN 0 ELSE f[Uno(s)] + t[s \ {Uno(s)}]]
               = [s \in SUBSET Pids |-> IF s = {} THEN 0 ELSE Tiene(Uno(s), r)' + t[s \ {Uno(s)}]]
      BY <2>1
    <2>3. QED  BY <2>2 DEF EsSuma
  <1>3. \E t : Ec(t)
    <2>1. IsFiniteSet(Pids)  BY ConstantesOK
    <2>2. \E t : EsSuma(t, f, Pids)  BY <2>1, SumaExiste
    <2>3. QED  BY <1>2, <2>2
  <1> HIDE DEF Ec
  <1>4. Ec(t0)  BY <1>3
  <1>5. QED  BY <1>1, <1>2, <1>4

\* The sum depends on the notes, the queues and the threads.
LEMMA SumaTieneIgual ==
    ASSUME UNCHANGED <<estado, asignadas, cola_recurso, hilo>>, NEW r PROVE SumaTiene(r)' = SumaTiene(r)
  <1>1. PICK f : f = [p \in Pids |-> Tiene(p, r)]  OBVIOUS
  <1>2. f = [p \in Pids |-> Tiene(p, r)']
    <2>1. \A p \in Pids : Tiene(p, r)' = Tiene(p, r)  BY DEF Tiene, Espera, Faltan, Anotadas
    <2>2. QED  BY <1>1, <2>1
  <1>3. PICK t : EsSuma(t, f, Pids) /\ SumaTiene(r) = t[Pids]  BY <1>1, TieneEs
  <1>4. PICK u : EsSuma(u, f, Pids) /\ SumaTiene(r)' = u[Pids]  BY <1>2, TieneLuego
  <1>5. t[Pids] = u[Pids]
    <2>1. IsFiniteSet(Pids) /\ Pids \in SUBSET Pids /\ \A x \in Pids : f[x] = f[x]  BY ConstantesOK
    <2>2. QED  BY <1>3, <1>4, <2>1, SumaUnica
  <1>6. QED  BY <1>3, <1>4, <1>5

\* The step after which a module has used what does not exist changes nothing of this.
LEMMA UltimoPaso ==
    ASSUME InvTipos, Next, ~vivo'
    PROVE  /\ UNCHANGED <<carga, estado, asignadas, cola_recurso, hilo, ready, exit, cola_io>>
           /\ \A x : Contains(a_cpu', x) => Contains(a_cpu, x)
  <1>1. UNCHANGED carga /\ vivo /\ (Despachar \/ TerminarIO \/ Dispatch \/ Eliminacion \/ Cpu)  BY DEF Next
  <1>2. CASE EliminarProceso
    <2>1. UNCHANGED <<estado, asignadas, cola_recurso, hilo, ready, exit, cola_io, a_cpu>>
      BY <1>1, <1>2 DEF EliminarProceso, contables
    <2>2. QED  BY <1>1, <2>1
  <1>3. CASE CpuRespuesta
    <2>1. a_cpu \in Seq(TRespuesta) /\ a_cpu # <<>> /\ a_cpu' = Tail(a_cpu)
      BY <1>3 DEF InvTipos, ViajesOK, CpuRespuesta
    <2>2. \A x : Contains(a_cpu', x) => Contains(a_cpu, x)  BY <2>1, ContieneCola
    <2>3. UNCHANGED <<estado, asignadas, cola_recurso, hilo, ready, exit, cola_io>>
      BY <1>3 DEF CpuRespuesta, contables, colas
    <2>4. QED  BY <1>1, <2>2, <2>3
  <1>4. CASE Despachar \/ TerminarIO \/ Dispatch  BY <1>1, <1>4 DEF Despachar, TerminarIO, Dispatch, SumarInstancia,
      Recibir, EncolarIO, Restar, Leer, Encolar, Bloquear, LiberarCpu, RestarRetenida, Fallar, Finalizar, Desalojar,
      Sumar, Mirar, Sacar, Buscar, Desbloquear
  <1>5. CASE Quitar \/ Devolver \/ Destruir \/ SumarInstancia("eliminacion")
    BY <1>1, <1>5 DEF Quitar, Devolver, Destruir, SumarInstancia, Sumar, Mirar, Sacar, Buscar, Desbloquear
  <1>6. CASE CpuRecibe \/ CpuEjecuta \/ CpuChequea \/ CpuTermina
    BY <1>1, <1>6 DEF CpuRecibe, CpuEjecuta, CpuChequea, CpuTermina
  <1>7. QED  BY <1>1, <1>2, <1>3, <1>4, <1>5, <1>6 DEF Eliminacion, Cpu

\* Nothing that UsoExclusivo looks at changes, but for what the CPU takes from its socket.
LEMMA UsoIgual ==
    ASSUME UsoExclusivo, UNCHANGED <<carga, estado, asignadas, cola_recurso, hilo, ready, exit, cola_io>>,
           \A x : Contains(a_cpu', x) => Contains(a_cpu, x)
    PROVE  UsoExclusivo'
  <1>1. EsperaQuieta'  BY DEF UsoExclusivo, EsperaQuieta
  <1>2. ASSUME NEW r \in Recursos, DeUnHilo(r)', ~carga'.quantum PROVE SumaTiene(r)' <= Instancias[r]
    <2>1. DeUnHilo(r)  BY <1>2 DEF DeUnHilo, Devueltos, Usos, Programa
    <2>2. SumaTiene(r) <= Instancias[r]  BY <1>2, <2>1 DEF UsoExclusivo, ExclusionMutua, SumaTiene
    <2>3. SumaTiene(r)' = SumaTiene(r)  BY SumaTieneIgual
    <2>4. QED  BY <2>2, <2>3
  <1>3. ExclusionMutua'  BY <1>2 DEF ExclusionMutua, SumaTiene
  <1>4. QED  BY <1>1, <1>3 DEF UsoExclusivo

\* While the modules live, each part is kept by the others.
LEMMA OrdenadosNext ==
    ASSUME InvTipos, Mientras, Ordenados, ~carga.quantum, Next, vivo' PROVE Ordenados'
  <1>1. EnPrograma /\ Curso /\ Finados /\ Anotado /\ EnOrden /\ SinQuantum /\ TerminaYa /\ Estados /\ Repartos
    BY DEF Mientras, Ordenados
  <1>2. EnOrden'  BY <1>1, EnOrdenNext
  <1>3. SinQuantum'  BY <1>1, SinQuantumNext
  <1>4. TerminaYa'  BY <1>1, TerminaYaNext
  <1>5. Estados'  BY <1>1, <1>2, EstadosNext
  <1>6. Repartos'  BY <1>1, RepartosNext
  <1>7. QED  BY <1>2, <1>3, <1>4, <1>5, <1>6 DEF Ordenados

\* The invariant is inductive.
LEMMA InvUsoNext == ASSUME InvUso, [Next]_vars PROVE InvUso'
  <1>1. InvCuentas /\ InvTipos  BY DEF InvUso, InvCuentas
  <1>2. InvCuentas'  BY <1>1, InvCuentasNext
  <1>3. UsoExclusivo  BY UsoDeInv
  <1>4. ASSUME ~carga'.quantum PROVE IF vivo' THEN Ordenados' ELSE UsoExclusivo'
    <2>1. CASE Next
      <3>1. vivo /\ UNCHANGED carga  BY <2>1 DEF Next
      <3>2. Ordenados /\ Mientras /\ ~carga.quantum  BY <1>1, <1>4, <3>1 DEF InvUso, InvCuentas
      <3>3. CASE vivo'  BY <1>1, <2>1, <3>2, <3>3, OrdenadosNext
      <3>4. CASE ~vivo'
        <4>1. UsoExclusivo'  BY <1>1, <1>3, <2>1, <3>4, UltimoPaso, UsoIgual
        <4>2. QED  BY <3>4, <4>1
      <3>5. QED  BY <3>3, <3>4
    <2>2. CASE UNCHANGED vars
      <3>1. ~carga.quantum /\ vivo' = vivo  BY <1>4, <2>2 DEF vars, sistema
      <3>2. CASE ~vivo
        <4>1. UNCHANGED <<carga, estado, asignadas, cola_recurso, hilo, ready, exit, cola_io, a_cpu>>
          BY <2>2 DEF vars, sistema, contables, colas
        <4>2. UsoExclusivo'  BY <1>3, <4>1, UsoIgual
        <4>3. QED  BY <3>1, <3>2, <4>2
      <3>3. CASE vivo
        <4>1. Ordenados  BY <3>1, <3>3 DEF InvUso
        <4>2. Ordenados'
          <5>1. EnOrden' /\ SinQuantum' /\ TerminaYa'
            BY <2>2, <4>1 DEF vars, sistema, colas, cpuVars, contables, Ordenados, EnOrden, UnSitio, Esta, Ocupada, PorEncolar, Simples,
               Acabados, Terminados, SinQuantum, TerminaYa, Programa, Despachador
          <5>2. Estados'
            BY <2>2, <4>1 DEF vars, sistema, colas, cpuVars, contables, Ordenados, Estados, Muertos, FinElim, PorBloquear,
               Terminados, Programa, Despachador, Eliminador
          <5>3. Repartos'
            BY <2>2, <4>1 DEF vars, sistema, colas, cpuVars, contables, Ordenados, Repartos, NadaQueDevolver, SoloQuitan, HayAlSacar,
               DeUnHilo, Devueltos, Usos, Alcanzan, Restan, Toca, Recurso, Programa, Despachador, Eliminador
          <5>4. QED  BY <5>1, <5>2, <5>3 DEF Ordenados
        <4>3. QED  BY <3>1, <3>3, <4>2
      <3>4. QED  BY <3>2, <3>3
    <2>3. QED  BY <2>1, <2>2
  <1>5. QED  BY <1>2, <1>4 DEF InvUso

\* It holds at the start, when every process is in READY, once.
LEMMA InvUsoInit == ASSUME Init PROVE InvUso
  <1>1. InvCuentas  BY InvCuentasInit
  <1>2. InvTipos /\ vivo /\ carga \in Cargas
    BY <1>1 DEF InvCuentas, InvTipos, DatosOK, Init
  <1>3. /\ blocked = <<>> /\ exit = <<>> /\ cola_io = <<>> /\ a_cpu = <<>> /\ a_kernel = <<>> /\ flags = {}
        /\ eliminados = {} /\ cpu.en = "libre" /\ cola_recurso = [r \in Recursos |-> <<>>]
        /\ ready \in SetToSeqs(Pids) /\ pc = [p \in Pids |-> 1] /\ estado = [p \in Pids |-> "READY"]
        /\ instancias = Instancias
    BY DEF Init
  <1>4. /\ Despachador.pasos = <<>> /\ Eliminador.pasos = <<>> /\ \A h \in Hilos : hilo[h].despierta = Nadie
        /\ hilo["dispatch"].pasos = <<>> /\ hilo["eliminacion"].pasos = <<>>
    BY DEF Init, Hilos, Despachador, Eliminador
  <1>5. \A x, O : ~Contains(<<>>, x) /\ ~Con(<<>>, O)  BY ConPocos DEF Contains
  <1>6. Terminados = {}
    <2>1. \A p \in Pids : pc[p] = 1  BY <1>3
    <2>2. \A p \in Pids : 1 .. pc[p] - 1 = {}  BY <2>1
    <2>3. QED  BY <2>2 DEF Terminados
  <1>7. EnOrden
    <2>1. \A p \in Pids : \A x, z : Esta(x, z, p) => x = "ready" /\ z = Nadie
      <3>1. \A p \in Pids : p # Nadie  BY ConstantesOK
      <3>2. \A r \in Recursos : cola_recurso[r] = <<>>  BY <1>3
      <3>3. QED  BY <1>3, <1>4, <1>5, <3>1, <3>2 DEF Esta, Ocupada, PorEncolar
    <2>2. UnSitio  BY <2>1 DEF UnSitio
    <2>3. Simples
      <3>1. Simple(ready, Pids)
        <4>1. PICK D : D = 1 .. Cardinality(Pids)  OBVIOUS
        <4>2. ready \in [D -> Pids] /\ \A i, j \in D : i # j => ready[i] # ready[j]
          BY <1>3, <4>1 DEF SetToSeqs
        <4>3. Cardinality(Pids) \in Nat
          <5>1. IsFiniteSet(Pids)  BY ConstantesOK
          <5>2. QED  BY <5>1, FS_CardinalityType
        <4>4. ready \in Seq(Pids) /\ 1 .. Len(ready) = D  BY <4>1, <4>2, <4>3
        <4>5. QED  BY <4>2, <4>4 DEF Simple
      <3>2. \A A : Simple(<<>>, A)  BY DEF Simple
      <3>3. \A r \in Recursos : cola_recurso[r] = <<>>  BY <1>3
      <3>4. QED  BY <1>3, <3>1, <3>2, <3>3 DEF Simples
    <2>4. Acabados  BY <1>6 DEF Acabados
    <2>5. QED  BY <2>2, <2>3, <2>4 DEF EnOrden
  <1>8. SinQuantum  BY <1>3, <1>4, <1>5 DEF SinQuantum
  <1>9. TerminaYa  BY <1>3 DEF TerminaYa
  <1>10. Estados
    <2>1. Muertos = {}  BY <1>3 DEF Muertos
    <2>2. FinElim(Muertos)  BY <1>3, <1>4 DEF FinElim
    <2>3. \A p \in Pids : ~PorBloquear(p)  BY <1>4, <1>5 DEF PorBloquear
    <2>4. \A p \in Pids, r \in Recursos : ~Contains(cola_recurso[r], p)  BY <1>3, <1>5
    <2>5. QED  BY <2>1, <2>2, <2>3, <2>4 DEF Estados
  <1>11. Repartos
    <2>1. NadaQueDevolver  BY <1>4 DEF NadaQueDevolver
    <2>2. HayAlSacar  BY <1>4 DEF HayAlSacar, Toca
    <2>3. ASSUME NEW r \in Recursos PROVE Alcanzan(r)
      <3>1. Pendiente(Despachador.pasos, r) = 0  BY <1>4 DEF Pendiente
      <3>2. PICK n \in Nat : n = Instancias[r] /\ n = instancias[r]  BY <1>3, ConstantesOK
      <3>3. Len(cola_recurso[r]) = 0  BY <1>3
      <3>4. Restan(r) = n  BY <3>1, <3>2, <3>3 DEF Restan
      <3>5. Restan(r) >= 0  BY <3>2, <3>4
      <3>6. ~Toca("eliminacion", "sacar")  BY <1>4 DEF Toca
      <3>7. QED  BY <3>5, <3>6 DEF Alcanzan
    <2>4. QED  BY <2>1, <2>2, <2>3 DEF Repartos
  <1>12. QED  BY <1>1, <1>2, <1>7, <1>8, <1>9, <1>10, <1>11 DEF InvUso, Ordenados

\* Between all of them the processes never have more instances of a resource that one thread gives
\* back than there are, and who waits for one is nowhere else: WAIT, SIGNAL, the release of
\* eliminacion_de_procesos and the CPU, for every number of processes, resources and instances
\* and every program without quanta.
THEOREM UsoExclusivoSiempre == Spec => []UsoExclusivo
  <1>1. Init => InvUso  BY InvUsoInit
  <1>2. InvUso /\ [Next]_vars => InvUso'  BY InvUsoNext
  <1>3. InvUso => UsoExclusivo  BY UsoDeInv
  <1>4. QED  BY <1>1, <1>2, <1>3, PTL DEF Spec
=============================================================================
