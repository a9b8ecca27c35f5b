---------------------------- MODULE MemoriaProofs ----------------------------
(***************************************************************************)
(* The memory module keeps its promises with any number of processes and   *)
(* of frames: TypeOK, MarcosJustos, TamanioJusto and ContenidoPropio of    *)
(* Memoria.                                                                *)
(***************************************************************************)
EXTENDS Memoria, ListasProofs

K == hilo["kernel"]
C == hilo["cpu"]

-----------------------------------------------------------------------------
(* The invariant *)

\* The list has the processes that were created and not freed; the others have no page.
ListaFiel ==
    \A p \in Pids : /\ Contains(procesos_en_memoria, p) <=> etapa[p] \in {"ready", "exec", "io", "exit"}
                    /\ etapa[p] \in {"afuera", "new", "fin"} => tabla_paginas[p] = <<>>

\* The kernel's thread frees a process that has left the CPU, frame by frame.
KernelFiel ==
    /\ K.en \in {"espera", "crear", "borrar", "limpiar", "sacar"}
    /\ K.en = "crear" => K.pid \in Pids /\ etapa[K.pid] = "new"
    /\ K.en \in {"borrar", "limpiar", "sacar"} => K.pid \in Pids /\ etapa[K.pid] = "exit"
    /\ K.en \in {"borrar", "limpiar"} => K.i \in 1..Len(tabla_paginas[K.pid]) + 1
    /\ K.en = "limpiar" => K.i <= Len(tabla_paginas[K.pid]) /\ K.marco = tabla_paginas[K.pid][K.i]
    /\ K.en = "sacar" => tabla_paginas[K.pid] = <<>>

\* The CPU's thread serves the process that executes; the page it reads or writes is the one
\* that it translated.
CpuFiel ==
    /\ C.en \notin {"crear", "borrar", "sacar"}
    /\ C.en # "espera" => C.pid \in Pids /\ etapa[C.pid] = "exec"
    /\ C.en = "espera" => C.op = "nada"
    /\ C.op \in {"ESCRITURA", "LECTURA"} => C.arg \in DOMAIN tabla_paginas[C.pid]
    /\ C.en = "acceder" => C.op \in {"ESCRITURA", "LECTURA"} /\ C.marco = tabla_paginas[C.pid][C.arg]

\* The pages that a RESIZE has left to add or to take off.
Faltan(p, n) == Len(tabla_paginas[p]) + C.resta = Techo(n, TamPagina)
Sobran(p, n) == Len(tabla_paginas[p]) = Techo(n, TamPagina) + C.resta

AjusteFiel ==
    /\ C.en \in {"revisar", "explorar", "marcar", "grabar", "quitar", "limpiar"} => C.op = "AJUSTAR"
    /\ C.en \in {"revisar", "explorar"} => C.i <= CantMarcos
    /\ C.en \in {"revisar", "explorar", "marcar", "grabar"} => C.resta > 0 /\ Faltan(C.pid, C.arg)
    /\ C.en = "quitar" => Sobran(C.pid, C.arg)
    /\ C.en = "limpiar" => C.resta > 0 /\ Len(tabla_paginas[C.pid]) + 1 = Techo(C.arg, TamPagina) + C.resta

\* An interface writes pages of the process it works for, while the process waits.
IOFiel == \A p \in Pids : etapa[p] = "io" => io[p] \subseteq ToSet(tabla_paginas[p])

\* Page k of process p is in frame f, which END_PROCESS has not given back.
Tiene(p, k, f) ==
    /\ k \in DOMAIN tabla_paginas[p] /\ tabla_paginas[p][k] = f
    /\ K.en \in {"borrar", "limpiar"} /\ K.pid = p => k >= K.i
Tenido(f) == \E p \in Pids, k \in Nat : Tiene(p, k, f)

\* MarcosJustos; and the frame that the CPU's thread is taking is free, and the one that it
\* gives back is in no page.
UsoJusto ==
    ~perdida =>
        /\ \A p, q \in Pids, j, k \in Nat, f \in Marcos : Tiene(p, j, f) /\ Tiene(q, k, f) => p = q /\ j = k
        /\ \A f \in Marcos : f \in marcos_ocupados <=> Tenido(f) \/ (C.en = "limpiar" /\ C.marco = f)
        /\ C.en \in {"marcar", "grabar"} => C.marco \notin marcos_ocupados
        /\ C.en = "limpiar" => ~Tenido(C.marco)

\* ContenidoPropio.
Propio ==
    ~perdida => \A p \in Pids : \A k \in escritas[p], f \in Marcos : Tiene(p, k, f) => contenido[f] = p

Control == ListaFiel /\ KernelFiel /\ CpuFiel /\ AjusteFiel /\ IOFiel
Tipos == TypeOK /\ Control /\ TamanioJusto
InvMem == Tipos /\ UsoJusto /\ Propio

-----------------------------------------------------------------------------
(* Pages and bytes *)

\* The quotient is the only number that fits.
LEMMA Cociente ==
    ASSUME NEW a \in Int, NEW b \in Nat \ {0}, NEW q \in Int, b * q <= a, a < b * (q + 1)
    PROVE  a \div b = q
  <1> DEFINE d == a \div b
  <1>1. d \in Int /\ b * d <= a /\ a < b * (d + 1)
    OBVIOUS
  <1> HIDE DEF d
  <1>2. ~(d < q)
    <2>1. d < q => d + 1 <= q  BY <1>1
    <2>2. d + 1 <= q => b * (d + 1) <= b * q  BY <1>1
    <2>3. QED  BY <1>1, <2>1, <2>2
  <1>3. ~(q < d)
    <2>1. q < d => q + 1 <= d  BY <1>1
    <2>2. q + 1 <= d => b * (q + 1) <= b * d  BY <1>1
    <2>3. QED  BY <1>1, <2>1, <2>2
  <1>4. d = q  BY <1>1, <1>2, <1>3
  <1>5. QED  BY <1>4 DEF d

\* Techo rounds up.
LEMMA DefinicionTecho ==
    ASSUME NEW n \in Nat
    PROVE  LET q == Techo(n, TamPagina) IN
           q \in Nat /\ TamPagina * q <= n + TamPagina - 1 /\ n <= TamPagina * q /\ (n > 0 => q > 0)
  <1>1. TamPagina \in Nat \ {0}  BY ConstantesOK
  <1> DEFINE q == Techo(n, TamPagina)
  <1>2. q \in Int /\ TamPagina * q <= n + TamPagina - 1 /\ n + TamPagina - 1 < TamPagina * (q + 1)
    BY <1>1 DEF Techo
  <1> HIDE DEF q
  <1>3. TamPagina * (q + 1) = TamPagina * q + TamPagina  BY <1>1, <1>2
  <1>4. n <= TamPagina * q  BY <1>1, <1>2, <1>3
  <1>5. q < 0 => TamPagina * q < 0
    <2>1. q < 0 => 0 < TamPagina * (0 - q)  BY <1>1, <1>2
    <2>2. TamPagina * (0 - q) = 0 - TamPagina * q  BY <1>1, <1>2
    <2>3. TamPagina * q \in Int  BY <1>1, <1>2
    <2>4. QED  BY <2>1, <2>2, <2>3
  <1>6. q = 0 => TamPagina * q = 0
    <2>1. TamPagina * 0 = 0  BY <1>1
    <2>2. QED  BY <2>1
  <1>7. q \in Nat /\ (n > 0 => q > 0)
    <2>1. ~(q < 0)  BY <1>1, <1>2, <1>4, <1>5
    <2>2. n > 0 => q # 0  BY <1>1, <1>2, <1>4, <1>6
    <2>3. QED  BY <1>2, <2>1, <2>2
  <1>8. QED  BY <1>2, <1>4, <1>7 DEF q

\* The pages to add, rounded up, and to take off, rounded down, lead to the same number.
LEMMA PaginasJustas ==
    ASSUME NEW n \in Nat, NEW l \in Nat
    PROVE  /\ n > l * TamPagina => /\ Techo(n - l * TamPagina, TamPagina) \in Nat \ {0}
                                  /\ l + Techo(n - l * TamPagina, TamPagina) = Techo(n, TamPagina)
           /\ n <= l * TamPagina => /\ (l * TamPagina - n) \div TamPagina \in Nat
                                   /\ l = Techo(n, TamPagina) + (l * TamPagina - n) \div TamPagina
  <1> DEFINE q == Techo(n, TamPagina)
  <1>1. TamPagina \in Nat \ {0}  BY ConstantesOK
  <1>2. q \in Nat /\ TamPagina * q <= n + TamPagina - 1 /\ n <= TamPagina * q  BY DefinicionTecho
  <1> HIDE DEF q
  <1>3. /\ l * TamPagina \in Nat
        /\ TamPagina * (q - l) = TamPagina * q - l * TamPagina
        /\ TamPagina * (q - l + 1) = TamPagina * q - l * TamPagina + TamPagina
        /\ TamPagina * (l - q) = l * TamPagina - TamPagina * q
        /\ TamPagina * (l - q + 1) = l * TamPagina - TamPagina * q + TamPagina
    BY <1>1, <1>2
  <1>4. TamPagina * q \in Int  BY <1>1, <1>2
  <1>5. ASSUME n > l * TamPagina
        PROVE  /\ Techo(n - l * TamPagina, TamPagina) = q - l
               /\ Techo(n - l * TamPagina, TamPagina) \in Nat \ {0}
    <2> DEFINE a == n - l * TamPagina
    <2>1. a \in Nat /\ a > 0  BY <1>3, <1>5
    <2>2. Techo(a, TamPagina) \in Nat \ {0}  BY <2>1, DefinicionTecho
    <2>3. (a + TamPagina - 1) \div TamPagina = q - l
      <3>1. TamPagina * (q - l) <= a + TamPagina - 1  BY <1>1, <1>2, <1>3, <1>4
      <3>2. a + TamPagina - 1 < TamPagina * (q - l + 1)  BY <1>1, <1>2, <1>3, <1>4
      <3>3. a + TamPagina - 1 \in Int /\ q - l \in Int  BY <1>1, <1>2, <2>1
      <3> HIDE DEF a
      <3>4. QED  BY <1>1, <3>1, <3>2, <3>3, Cociente
    <2>4. QED  BY <2>2, <2>3 DEF Techo
  <1>6. ASSUME n <= l * TamPagina
        PROVE  (l * TamPagina - n) \div TamPagina = l - q /\ l - q \in Nat
    <2> DEFINE a == l * TamPagina - n
    <2>1. a \in Nat  BY <1>3, <1>6
    <2>2. TamPagina * (l - q) <= a /\ a < TamPagina * (l - q + 1)  BY <1>1, <1>2, <1>3, <1>4
    <2>3. a \div TamPagina = l - q
      <3> HIDE DEF a
      <3>1. l - q \in Int  BY <1>2
      <3>2. QED  BY <1>1, <2>1, <2>2, <3>1, Cociente
    <2>4. ~(l - q < 0)
      <3>1. l - q < 0 => l - q + 1 <= 0  BY <1>2
      <3>2. l - q + 1 <= 0 => TamPagina * (l - q + 1) <= 0  BY <1>1, <1>2
      <3>3. QED  BY <1>1, <1>2, <1>3, <1>4, <2>1, <2>2, <3>1, <3>2
    <2>5. QED  BY <1>2, <2>3, <2>4
  <1>7. QED  BY <1>2, <1>5, <1>6 DEF q

-----------------------------------------------------------------------------
(* Types and threads *)

\* The constants, as the provers need them.
LEMMA Constantes ==
    /\ IsFiniteSet(Pids) /\ Nadie \notin Pids /\ Tamanios \subseteq Nat
    /\ CantMarcos \in Nat \ {0} /\ 0 \in Marcos /\ Espera \in Hilos
    /\ \A i \in Nat : i < CantMarcos <=> i \in Marcos
  BY ConstantesOK DEF Marcos, Espera, Hilos, Lugares

\* At the start there is no process, and every frame is free.
LEMMA InitMem == Init => InvMem
  <1> SUFFICES ASSUME Init PROVE InvMem
    OBVIOUS
  <1>1. TypeOK
    <2>1. <<>> \in Seq(Pids) /\ IsInjective(<<>>) /\ <<>> \in Seq(Marcos)  BY DEF IsInjective
    <2>2. hilo \in [{"kernel", "cpu"} -> Hilos]  BY Constantes DEF Init
    <2>3. pedidos \in [Pids -> 0..Pedidos]  BY ConstantesOK DEF Init
    <2>4. QED  BY <2>1, <2>2, <2>3 DEF Init, TypeOK
  <1>2. K = Espera /\ C = Espera  BY DEF Init, K, C
  <1>3. Control
    <2>1. \A p \in Pids : ~Contains(procesos_en_memoria, p)  BY DEF Init, Contains
    <2>2. ListaFiel  BY <2>1 DEF Init, ListaFiel
    <2>3. KernelFiel /\ CpuFiel /\ AjusteFiel  BY <1>2 DEF Espera, KernelFiel, CpuFiel, AjusteFiel
    <2>4. IOFiel  BY DEF Init, IOFiel
    <2>5. QED  BY <2>2, <2>3, <2>4 DEF Control
  <1>4. TamanioJusto  BY <1>2 DEF TamanioJusto, C, Espera
  <1>5. \A p \in Pids : \A k, f : ~Tiene(p, k, f)  BY DEF Init, Tiene
  <1>6. UsoJusto  BY <1>2, <1>5 DEF Init, UsoJusto, Tenido, Espera
  <1>7. Propio  BY <1>5 DEF Propio
  <1>8. QED  BY <1>1, <1>3, <1>4, <1>6, <1>7 DEF InvMem, Tipos

\* A request is discounted only while some are left.
LEMMA DescontarTipo ==
    ASSUME TypeOK, NEW p \in Pids, UNCHANGED pedidos \/ Descontar(p)
    PROVE  pedidos' \in [Pids -> 0..Pedidos]
  <1>1. pedidos \in [Pids -> 0..Pedidos] /\ Pedidos \in Nat  BY ConstantesOK DEF TypeOK
  <1>2. CASE Descontar(p)
    <2>1. pedidos[p] - 1 \in 0..Pedidos  BY <1>1, <1>2 DEF Descontar
    <2>2. QED  BY <1>1, <1>2, <2>1 DEF Descontar
  <1>3. QED  BY <1>1, <1>2

\* Steps of the kernel and of the CPU that memory does not see.
Fuera == \E p \in Pids : Planificar(p) \/ Salir(p) \/ PedirIO(p) \/ FinalizarBloqueado(p)

\* They move the process, and no thread of memory.
LEMMA FueraTipos == ASSUME Tipos, Fuera PROVE Tipos'
  <1>1. PICK p \in Pids : Planificar(p) \/ Salir(p) \/ PedirIO(p) \/ FinalizarBloqueado(p)
    BY DEF Fuera
  <1>2. UNCHANGED <<procesos_en_memoria, tabla_paginas, marcos_ocupados, contenido, hilo, viva, escritas, perdida>>
    BY <1>1 DEF Planificar, Salir, PedirIO, FinalizarBloqueado, memoria
  <1>3. \E e \in {"ready", "exec", "io"}, f \in {"ready", "exec", "io", "exit"} :
           etapa[p] = e /\ etapa' = [etapa EXCEPT ![p] = f]
    BY <1>1 DEF Planificar, Salir, PedirIO, FinalizarBloqueado
  <1>4. etapa[p] = "exec" => C.en = "espera"
    BY <1>1 DEF Planificar, Salir, PedirIO, FinalizarBloqueado, En, C
  <1>5. TypeOK'
    <2>1. ToSet(tabla_paginas[p]) \subseteq Marcos  BY DEF Tipos, TypeOK, ToSet
    <2>2. UNCHANGED io \/ io' = [io EXCEPT ![p] = ToSet(tabla_paginas[p])]
      BY <1>1 DEF Planificar, Salir, PedirIO, FinalizarBloqueado
    <2>3. io' \in [Pids -> SUBSET Marcos]  BY <2>1, <2>2 DEF Tipos, TypeOK
    <2>4. UNCHANGED pedidos \/ Descontar(p)
      BY <1>1 DEF Planificar, Salir, PedirIO, FinalizarBloqueado
    <2>5. pedidos' \in [Pids -> 0..Pedidos]  BY <2>4, DescontarTipo DEF Tipos
    <2>6. QED  BY <1>2, <1>3, <2>3, <2>5 DEF Tipos, TypeOK
  <1>6. ListaFiel'  BY <1>2, <1>3 DEF Tipos, TypeOK, Control, ListaFiel
  <1>7. KernelFiel'  BY <1>2, <1>3 DEF Tipos, TypeOK, Control, KernelFiel, K
  <1>8. CpuFiel'  BY <1>2, <1>3, <1>4 DEF Tipos, TypeOK, Control, CpuFiel, C
  <1>9. AjusteFiel' /\ TamanioJusto'
    BY <1>2 DEF Tipos, Control, AjusteFiel, TamanioJusto, Faltan, Sobran, C
  <1>10. IOFiel'
    BY <1>1, <1>2 DEF Planificar, Salir, PedirIO, FinalizarBloqueado, Tipos, TypeOK, Control, IOFiel
  <1>11. QED  BY <1>5, <1>6, <1>7, <1>8, <1>9, <1>10 DEF Tipos, Control

\* A thread that dies on a null or a freed pointer changes nothing else.
LEMMA MorirTipos == ASSUME Tipos, Morir, UNCHANGED <<memoria, hilo, entorno, escritas, perdida>> PROVE Tipos'
  <1>1. TypeOK'  BY DEF Morir, memoria, entorno, Tipos, TypeOK
  <1>2. K' = K /\ C' = C  BY DEF K, C
  <1>3. ListaFiel' /\ IOFiel'  BY DEF memoria, entorno, Tipos, Control, ListaFiel, IOFiel
  <1>4. KernelFiel' /\ CpuFiel'  BY <1>2 DEF memoria, entorno, Tipos, Control, KernelFiel, CpuFiel
  <1>5. AjusteFiel' /\ TamanioJusto'
    BY <1>2 DEF memoria, Tipos, Control, AjusteFiel, TamanioJusto, Faltan, Sobran, C
  <1>6. QED  BY <1>1, <1>3, <1>4, <1>5 DEF Tipos, Control

\* ESCRITURA_MEMORIA from an interface.
LEMMA EscribirIOTipos ==
    ASSUME Tipos, NEW p \in Pids, NEW f \in Marcos, EscribirIO(p, f)
    PROVE  Tipos'
  <1>1. UNCHANGED <<procesos_en_memoria, tabla_paginas, marcos_ocupados, hilo, viva, pedidos, perdida>>
    BY DEF EscribirIO
  <1>2. \/ UNCHANGED etapa
        \/ etapa[p] = "io" /\ etapa' = [etapa EXCEPT ![p] = "ready"]
    BY DEF EscribirIO
  <1>3. TypeOK'
    <2>1. contenido' \in [Marcos -> Pids \union {Nadie}]  BY DEF EscribirIO, Tipos, TypeOK
    <2>2. io' \in [Pids -> SUBSET Marcos]  BY DEF EscribirIO, Tipos, TypeOK
    <2>3. escritas' \in [Pids -> SUBSET Nat] /\ \A q \in Pids : escritas'[q] \subseteq escritas[q]
      BY DEF EscribirIO, Tipos, TypeOK
    <2>4. QED  BY <1>1, <1>2, <2>1, <2>2, <2>3 DEF Tipos, TypeOK
  <1>4. ListaFiel'  BY <1>1, <1>2 DEF Tipos, TypeOK, Control, ListaFiel
  <1>5. KernelFiel'  BY <1>1, <1>2 DEF Tipos, TypeOK, Control, KernelFiel, K
  <1>6. CpuFiel'  BY <1>1, <1>2 DEF Tipos, TypeOK, Control, CpuFiel, C
  <1>7. AjusteFiel' /\ TamanioJusto'
    BY <1>1 DEF Tipos, Control, AjusteFiel, TamanioJusto, Faltan, Sobran, C
  <1>8. IOFiel'  BY <1>1, <1>2 DEF EscribirIO, Tipos, TypeOK, Control, IOFiel
  <1>9. QED  BY <1>3, <1>4, <1>5, <1>6, <1>7, <1>8 DEF Tipos, Control

-----------------------------------------------------------------------------
(* The kernel's thread *)

\* What happens to a process that is not in the CPU does not concern the CPU's thread.
LEMMA CpuAjena ==
    ASSUME Tipos, NEW p, etapa[p] # "exec", C' = C,
           \A q \in Pids \ {p} : tabla_paginas'[q] = tabla_paginas[q] /\ etapa'[q] = etapa[q]
    PROVE  CpuFiel' /\ AjusteFiel' /\ TamanioJusto'
  <1>1. C.en # "espera" => C.pid \in Pids \ {p} /\ etapa[C.pid] = "exec"
    BY DEF Tipos, Control, CpuFiel
  <1>2. C.en # "espera" => tabla_paginas'[C.pid] = tabla_paginas[C.pid] /\ etapa'[C.pid] = "exec"
    BY <1>1
  <1>3. C.en = "espera" => C.op = "nada"  BY DEF Tipos, Control, CpuFiel
  <1>4. CpuFiel'  BY <1>1, <1>2, <1>3 DEF Tipos, Control, CpuFiel
  <1>5. AjusteFiel'  BY <1>1, <1>2 DEF Tipos, Control, AjusteFiel, Faltan, Sobran
  <1>6. TamanioJusto'  BY <1>1, <1>2 DEF Tipos, TamanioJusto, C
  <1>7. QED  BY <1>4, <1>5, <1>6

\* CREAR_PROCESO reaches the kernel's thread.
LEMMA PedirCreacionTipos == ASSUME Tipos, NEW p \in Pids, PedirCreacion(p) PROVE Tipos'
  <1> DEFINE k == [Espera EXCEPT !.en = "crear", !.pid = p]
  <1>1. k \in Hilos /\ k.en = "crear" /\ k.pid = p  BY Constantes DEF Espera, Hilos, Lugares
  <1> HIDE DEF k
  <1>2. hilo' = [hilo EXCEPT !["kernel"] = k] /\ etapa[p] = "afuera" /\ etapa' = [etapa EXCEPT ![p] = "new"]
        /\ UNCHANGED <<procesos_en_memoria, tabla_paginas, marcos_ocupados, contenido, viva, io, pedidos,
                       escritas, perdida>>
    BY DEF PedirCreacion, memoria, k
  <1>3. TypeOK'  BY <1>1, <1>2 DEF Tipos, TypeOK
  <1>4. K' = k /\ C' = C  BY <1>2 DEF Tipos, TypeOK, K, C
  <1>5. ListaFiel'  BY <1>2 DEF Tipos, TypeOK, Control, ListaFiel
  <1>6. KernelFiel'  BY <1>1, <1>2, <1>4 DEF Tipos, TypeOK, KernelFiel
  <1>7. IOFiel'  BY <1>2 DEF Tipos, TypeOK, Control, IOFiel
  <1>8. QED  BY <1>2, <1>3, <1>4, <1>5, <1>6, <1>7, CpuAjena DEF Tipos, TypeOK, Control

\* crear_proceso adds to the list a process that is not there.
LEMMA CrearProcesoTipos == ASSUME Tipos, CrearProceso PROVE Tipos'
  <1> DEFINE p == K.pid
  <1>1. p \in Pids /\ etapa[p] = "new" /\ tabla_paginas[p] = <<>> /\ ~Contains(procesos_en_memoria, p)
    BY DEF CrearProceso, En, Tipos, Control, KernelFiel, ListaFiel, K
  <1>2. PICK q \in Pids : q = p  BY <1>1
  <1>3. /\ procesos_en_memoria' = Append(procesos_en_memoria, q) /\ UNCHANGED tabla_paginas
        /\ hilo' = [hilo EXCEPT !["kernel"] = Espera] /\ etapa' = [etapa EXCEPT ![q] = "ready"]
        /\ UNCHANGED <<marcos_ocupados, contenido, viva, io, pedidos, escritas, perdida>>
    <2>1. tabla_paginas' = [tabla_paginas EXCEPT ![q] = <<>>]  BY <1>2 DEF CrearProceso, Pid, K
    <2>2. UNCHANGED tabla_paginas  BY <1>1, <1>2, <2>1 DEF Tipos, TypeOK
    <2>3. QED  BY <1>2, <2>2 DEF CrearProceso, Pid, K
  <1>4. /\ \A r : Contains(procesos_en_memoria', r) <=> (Contains(procesos_en_memoria, r) \/ r = q)
        /\ procesos_en_memoria' \in Seq(Pids) /\ IsInjective(procesos_en_memoria')
    BY <1>1, <1>2, <1>3, AlFinal DEF Tipos, TypeOK
  <1>5. TypeOK'  BY <1>3, <1>4, Constantes DEF Tipos, TypeOK
  <1>6. K' = Espera /\ C' = C  BY <1>3 DEF Tipos, TypeOK, K, C
  <1>7. ListaFiel'  BY <1>1, <1>2, <1>3, <1>4 DEF Tipos, TypeOK, Control, ListaFiel
  <1>8. KernelFiel'  BY <1>6 DEF KernelFiel, Espera
  <1>9. IOFiel'  BY <1>3 DEF Tipos, TypeOK, Control, IOFiel
  <1>10. CpuFiel' /\ AjusteFiel' /\ TamanioJusto'
    BY <1>1, <1>2, <1>3, <1>6, CpuAjena DEF Tipos, TypeOK
  <1>11. QED  BY <1>5, <1>7, <1>8, <1>9, <1>10 DEF Tipos, Control

\* END_PROCESS finds its process.
LEMMA PedirFinTipos == ASSUME Tipos, NEW p \in Pids, PedirFin(p) PROVE Tipos'
  <1> DEFINE k == [Espera EXCEPT !.en = "borrar", !.pid = p, !.i = 1]
  <1>1. k \in Hilos /\ k.en = "borrar" /\ k.pid = p /\ k.i = 1  BY Constantes DEF Espera, Hilos, Lugares
  <1> HIDE DEF k
  <1>2. hilo' = [hilo EXCEPT !["kernel"] = k] /\ etapa[p] = "exit"
        /\ UNCHANGED <<procesos_en_memoria, tabla_paginas, marcos_ocupados, contenido, viva, etapa, io, pedidos,
                       escritas, perdida>>
    BY DEF PedirFin, memoria, entorno, k
  <1>3. TypeOK'  BY <1>1, <1>2 DEF Tipos, TypeOK
  <1>4. K' = k /\ C' = C  BY <1>2 DEF Tipos, TypeOK, K, C
  <1>5. ListaFiel' /\ IOFiel'  BY <1>2 DEF Tipos, Control, ListaFiel, IOFiel
  <1>6. Len(tabla_paginas[p]) \in Nat  BY DEF Tipos, TypeOK
  <1>7. KernelFiel'  BY <1>1, <1>2, <1>4, <1>6 DEF KernelFiel
  <1>8. QED  BY <1>2, <1>3, <1>4, <1>5, <1>7, CpuAjena DEF Tipos, Control

\* A thread goes on to its next step.
LEMMA PasarTipo ==
    ASSUME TypeOK, NEW h \in {"kernel", "cpu"}, NEW l \in Lugares, Pasar(h, l)
    PROVE  /\ hilo' \in [{"kernel", "cpu"} -> Hilos]
           /\ hilo'[h] = [hilo[h] EXCEPT !.en = l]
           /\ hilo'[h].en = l
           /\ hilo'[h].i = hilo[h].i /\ hilo'[h].pid = hilo[h].pid /\ hilo'[h].op = hilo[h].op
           /\ hilo'[h].arg = hilo[h].arg /\ hilo'[h].resta = hilo[h].resta
           /\ hilo'[h].marco = hilo[h].marco
           /\ \A g \in {"kernel", "cpu"} \ {h} : hilo'[g] = hilo[g]
  <1>1. hilo[h] \in Hilos /\ hilo' = [hilo EXCEPT ![h].en = l]  BY DEF Pasar, TypeOK
  <1>2. [hilo[h] EXCEPT !.en = l] \in Hilos  BY <1>1 DEF Hilos
  <1>3. QED  BY <1>1, <1>2 DEF TypeOK, Hilos

\* The byte of a frame, read and written.
LEMMA LeerByteTipo ==
    ASSUME TypeOK, NEW h \in {"kernel", "cpu"}, NEW f \in Marcos, NEW l \in Lugares, LeerByte(h, f, l)
    PROVE  /\ hilo' \in [{"kernel", "cpu"} -> Hilos]
           /\ hilo'[h].en = l /\ hilo'[h].marco = f
           /\ hilo'[h].i = hilo[h].i /\ hilo'[h].pid = hilo[h].pid /\ hilo'[h].op = hilo[h].op
           /\ hilo'[h].arg = hilo[h].arg /\ hilo'[h].resta = hilo[h].resta
           /\ \A g \in {"kernel", "cpu"} \ {h} : hilo'[g] = hilo[g]
  <1>1. marcos_ocupados \intersect Byte(f) \in SUBSET Marcos  BY DEF TypeOK
  <1> DEFINE m == marcos_ocupados \intersect Byte(f)
  <1>2. hilo' = [hilo EXCEPT ![h].en = l, ![h].marco = f, ![h].foto = m]  BY DEF LeerByte
  <1> HIDE DEF m
  <1>3. m \in SUBSET Marcos  BY <1>1 DEF m
  <1> DEFINE r == [hilo[h] EXCEPT !.en = l, !.marco = f, !.foto = m]
  <1>4. hilo[h] \in Hilos  BY DEF TypeOK
  <1>5. r \in Hilos  BY <1>3, <1>4 DEF Hilos
  <1>6. /\ r.en = l /\ r.marco = f
        /\ r.i = hilo[h].i /\ r.pid = hilo[h].pid /\ r.op = hilo[h].op
        /\ r.arg = hilo[h].arg /\ r.resta = hilo[h].resta
    BY <1>4 DEF Hilos
  <1>7. hilo' = [hilo EXCEPT ![h] = r]  BY <1>2, <1>4 DEF TypeOK, Hilos
  <1> HIDE DEF r
  <1>8. QED  BY <1>5, <1>6, <1>7 DEF TypeOK

\* What is written is a part of the bitmap.
LEMMA EscribirByteTipo ==
    ASSUME TypeOK, NEW h \in {"kernel", "cpu"}, NEW b \in SUBSET Marcos, EscribirByte(h, b)
    PROVE  marcos_ocupados' \subseteq Marcos /\ perdida' \in BOOLEAN
  BY DEF TypeOK, EscribirByte

\* END_PROCESS reads the byte of the frame of page i.
LEMMA LiberarMarcoTipos == ASSUME Tipos, LiberarMarco PROVE Tipos'
  <1> DEFINE f == tabla_paginas[K.pid][K.i]
  <1>1. K.en = "borrar" /\ K.pid \in Pids /\ etapa[K.pid] = "exit" /\ K.i <= Len(tabla_paginas[K.pid])
        /\ K.i \in 1..Len(tabla_paginas[K.pid]) + 1
    BY DEF LiberarMarco, En, Tipos, Control, KernelFiel, K
  <1>2. f \in Marcos
    <2>1. tabla_paginas[K.pid] \in Seq(Marcos)  BY <1>1 DEF Tipos, TypeOK
    <2>2. K.i \in 1..Len(tabla_paginas[K.pid])  BY <1>1, <2>1
    <2>3. QED  BY <2>1, <2>2
  <1>3. LeerByte("kernel", f, "limpiar")
        /\ UNCHANGED <<procesos_en_memoria, tabla_paginas, marcos_ocupados, contenido, viva, etapa, io, pedidos,
                       escritas, perdida>>
    BY DEF LiberarMarco, memoria, entorno, K
  <1>4. /\ hilo' \in [{"kernel", "cpu"} -> Hilos]
        /\ K'.en = "limpiar" /\ K'.marco = f /\ K'.i = K.i /\ K'.pid = K.pid /\ C' = C
    <2> HIDE DEF f
    <2>1. "limpiar" \in Lugares  BY DEF Lugares
    <2>2. QED  BY <1>2, <1>3, <2>1, LeerByteTipo DEF Tipos, K, C
  <1>5. TypeOK'  BY <1>3, <1>4 DEF Tipos, TypeOK
  <1>6. ListaFiel' /\ IOFiel'  BY <1>3 DEF Tipos, Control, ListaFiel, IOFiel
  <1>7. KernelFiel'  BY <1>1, <1>3, <1>4 DEF KernelFiel
  <1>8. QED  BY <1>1, <1>3, <1>4, <1>5, <1>6, <1>7, CpuAjena DEF Tipos, Control

\* The frame is given back, and the next page is looked at.
LEMMA LimpiarBitDeFinTipos == ASSUME Tipos, LimpiarBitDeFin PROVE Tipos'
  <1>1. K.en = "limpiar" /\ K.pid \in Pids /\ etapa[K.pid] = "exit" /\ K.i <= Len(tabla_paginas[K.pid])
        /\ K.i \in 1..Len(tabla_paginas[K.pid]) + 1 /\ K \in Hilos
    BY DEF LimpiarBitDeFin, En, Tipos, TypeOK, Control, KernelFiel, K
  <1>2. EscribirByte("kernel", K.foto \ {K.marco})
        /\ hilo' = [hilo EXCEPT !["kernel"].en = "borrar", !["kernel"].i = @ + 1]
        /\ UNCHANGED <<procesos_en_memoria, tabla_paginas, contenido, viva, etapa, io, pedidos, escritas>>
    BY DEF LimpiarBitDeFin, entorno, K
  <1>3. /\ hilo' \in [{"kernel", "cpu"} -> Hilos]
        /\ K'.en = "borrar" /\ K'.i = K.i + 1 /\ K'.pid = K.pid /\ C' = C
    <2> DEFINE n == K.i + 1
               r == [K EXCEPT !.en = "borrar", !.i = n]
    <2>1. K \in Hilos  BY <1>1
    <2>2. n \in Nat  BY <2>1 DEF Hilos
    <2>3. hilo' = [hilo EXCEPT !["kernel"] = r]  BY <1>2, <2>1 DEF Tipos, TypeOK, K, Hilos
    <2> HIDE DEF n
    <2>4. r \in Hilos /\ r.en = "borrar" /\ r.i = n /\ r.pid = K.pid
      BY <2>1, <2>2 DEF Hilos, Lugares
    <2> HIDE DEF r
    <2>5. QED  BY <2>3, <2>4 DEF Tipos, TypeOK, K, C, n
  <1>4. marcos_ocupados' \subseteq Marcos /\ perdida' \in BOOLEAN
    <2>1. K.foto \ {K.marco} \in SUBSET Marcos  BY <1>1 DEF Hilos
    <2>2. QED  BY <1>2, <2>1, EscribirByteTipo DEF Tipos
  <1>5. TypeOK'  BY <1>2, <1>3, <1>4 DEF Tipos, TypeOK
  <1>6. ListaFiel' /\ IOFiel'  BY <1>2 DEF Tipos, Control, ListaFiel, IOFiel
  <1>7. KernelFiel'
    <2>1. Len(tabla_paginas[K.pid]) \in Nat  BY <1>1 DEF Tipos, TypeOK
    <2>2. K.i + 1 \in 1..Len(tabla_paginas[K.pid]) + 1  BY <1>1, <2>1
    <2>3. QED  BY <1>1, <1>2, <1>3, <2>2 DEF KernelFiel
  <1>8. QED  BY <1>1, <1>2, <1>3, <1>5, <1>6, <1>7, CpuAjena DEF Tipos, Control

\* The table is destroyed when no page is left to look at.
LEMMA DestruirProcesoTipos == ASSUME Tipos, DestruirProceso PROVE Tipos'
  <1>1. K.en = "borrar" /\ K.pid \in Pids /\ etapa[K.pid] = "exit"
    BY DEF DestruirProceso, En, Tipos, Control, KernelFiel, K
  <1>2. PICK p \in Pids : p = K.pid  BY <1>1
  <1>3. /\ tabla_paginas' = [tabla_paginas EXCEPT ![p] = <<>>]
        /\ escritas' = [escritas EXCEPT ![p] = {}] /\ Pasar("kernel", "sacar")
        /\ UNCHANGED <<procesos_en_memoria, marcos_ocupados, contenido, viva, etapa, io, pedidos, perdida>>
    BY <1>2 DEF DestruirProceso, entorno, K
  <1>4. /\ hilo' \in [{"kernel", "cpu"} -> Hilos]
        /\ K'.en = "sacar" /\ K'.pid = K.pid /\ C' = C
    <2>1. "sacar" \in Lugares  BY DEF Lugares
    <2>2. QED  BY <1>3, <2>1, PasarTipo DEF Tipos, K, C
  <1>5. TypeOK'
    <2>1. tabla_paginas' \in [Pids -> Seq(Marcos)]  BY <1>3 DEF Tipos, TypeOK
    <2>2. escritas' \in [Pids -> SUBSET Nat]  BY <1>3 DEF Tipos, TypeOK
    <2>3. \A q \in Pids : escritas'[q] \subseteq DOMAIN tabla_paginas'[q]  BY <1>3 DEF Tipos, TypeOK
    <2>4. QED  BY <1>3, <1>4, <2>1, <2>2, <2>3 DEF Tipos, TypeOK
  <1>6. ListaFiel'  BY <1>1, <1>2, <1>3 DEF Tipos, TypeOK, Control, ListaFiel
  <1>7. IOFiel'  BY <1>1, <1>2, <1>3 DEF Tipos, TypeOK, Control, IOFiel
  <1>8. KernelFiel'  BY <1>1, <1>2, <1>3, <1>4 DEF Tipos, TypeOK, KernelFiel
  <1>9. CpuFiel' /\ AjusteFiel' /\ TamanioJusto'
    BY <1>1, <1>2, <1>3, <1>4, CpuAjena DEF Tipos, TypeOK
  <1>10. QED  BY <1>5, <1>6, <1>7, <1>8, <1>9 DEF Tipos, Control

\* list_remove takes off the process that is freed, and only that one.
LEMMA SacarProcesoTipos == ASSUME Tipos, SacarProceso PROVE Tipos'
  <1>1. K.en = "sacar" /\ K.pid \in Pids /\ etapa[K.pid] = "exit" /\ tabla_paginas[K.pid] = <<>>
    BY DEF SacarProceso, En, Tipos, Control, KernelFiel, K
  <1>2. PICK p \in Pids : p = K.pid  BY <1>1
  <1> DEFINE k == PosicionProceso(p)
  <1>3. k \in 1..Len(procesos_en_memoria) /\ procesos_en_memoria[k] = p
    <2>1. \E j \in 1..Len(procesos_en_memoria) : procesos_en_memoria[j] = p
      BY <1>1, <1>2 DEF Tipos, Control, ListaFiel, Contains
    <2>2. QED  BY <2>1 DEF PosicionProceso
  <1>4. /\ procesos_en_memoria' = RemoveAt(procesos_en_memoria, k)
        /\ etapa' = [etapa EXCEPT ![p] = "fin"] /\ hilo' = [hilo EXCEPT !["kernel"] = Espera]
        /\ UNCHANGED <<tabla_paginas, marcos_ocupados, contenido, viva, io, pedidos, escritas, perdida>>
    BY <1>2 DEF SacarProceso, Pid, K
  <1> HIDE DEF k
  <1>5. /\ \A q : Contains(procesos_en_memoria', q) <=> Contains(procesos_en_memoria, q) /\ q # p
        /\ procesos_en_memoria' \in Seq(Pids) /\ IsInjective(procesos_en_memoria')
    <2>1. procesos_en_memoria \in Seq(Pids) /\ IsInjective(procesos_en_memoria)  BY DEF Tipos, TypeOK
    <2>2. procesos_en_memoria' \in Seq(Pids)  BY <1>3, <1>4, <2>1 DEF RemoveAt
    <2>3. QED  BY <1>3, <1>4, <2>1, <2>2, DelMedio
  <1>6. TypeOK'  BY <1>4, <1>5, Constantes DEF Tipos, TypeOK
  <1>7. K' = Espera /\ C' = C  BY <1>4 DEF Tipos, TypeOK, K, C
  <1>8. ListaFiel'  BY <1>1, <1>2, <1>4, <1>5 DEF Tipos, TypeOK, Control, ListaFiel
  <1>9. KernelFiel'  BY <1>7 DEF KernelFiel, Espera
  <1>10. IOFiel'  BY <1>4 DEF Tipos, TypeOK, Control, IOFiel
  <1>11. CpuFiel' /\ AjusteFiel' /\ TamanioJusto'
    BY <1>1, <1>2, <1>4, <1>7, CpuAjena DEF Tipos, TypeOK
  <1>12. QED  BY <1>6, <1>8, <1>9, <1>10, <1>11 DEF Tipos, Control

-----------------------------------------------------------------------------
(* The CPU's thread *)

\* list_remove of the last page.
LEMMA SinUltimo ==
    ASSUME NEW S, NEW s \in Seq(S), Len(s) > 0
    PROVE  /\ Front(s) \in Seq(S) /\ Len(Front(s)) = Len(s) - 1 /\ DOMAIN Front(s) = DOMAIN s \ {Len(s)}
           /\ \A k \in DOMAIN Front(s) : Front(s)[k] = s[k]
  <1> DEFINE n == Len(s) - 1
  <1>1. n \in Nat /\ Len(s) = n + 1  OBVIOUS
  <1>2. Front(s) = SubSeq(s, 1, n)  BY DEF Front
  <1>3. SubSeq(s, 1, n) \in Seq(S) /\ Len(SubSeq(s, 1, n)) = n
        /\ \A k \in 1..n : SubSeq(s, 1, n)[k] = s[k]
    BY <1>1
  <1> HIDE DEF n
  <1>4. DOMAIN s = 1..n + 1 /\ DOMAIN SubSeq(s, 1, n) = 1..n  BY <1>1, <1>3
  <1>5. 1..n = (1..n + 1) \ {n + 1}  BY <1>1
  <1>6. QED  BY <1>1, <1>2, <1>3, <1>4, <1>5

\* A step of the CPU's thread does not concern the process that the kernel creates or frees.
LEMMA KernelAjeno ==
    ASSUME Tipos, NEW p, etapa[p] = "exec", K' = K,
           \A q \in Pids \ {p} : tabla_paginas'[q] = tabla_paginas[q] /\ etapa'[q] = etapa[q]
    PROVE  KernelFiel'
  <1>1. K.en # "espera" => K.pid \in Pids /\ etapa[K.pid] \in {"new", "exit"}
    BY DEF Tipos, Control, KernelFiel
  <1>2. K.en # "espera" => tabla_paginas'[K.pid] = tabla_paginas[K.pid] /\ etapa'[K.pid] = etapa[K.pid]
    BY <1>1
  <1>3. CASE K.en = "espera"  BY <1>3 DEF KernelFiel
  <1>4. CASE K.en # "espera"
    <2>1. KernelFiel  BY DEF Tipos, Control
    <2>2. QED  BY <1>2, <1>4, <2>1 DEF KernelFiel
  <1>5. QED  BY <1>3, <1>4

\* A step that only moves the CPU's thread.
LEMMA SoloCpu ==
    ASSUME Tipos, hilo' \in [{"kernel", "cpu"} -> Hilos], K' = K,
           UNCHANGED <<memoria, viva, etapa, io, escritas, perdida>>,
           pedidos' \in [Pids -> 0..Pedidos], CpuFiel', AjusteFiel', TamanioJusto'
    PROVE  Tipos'
  <1>1. TypeOK'  BY DEF Tipos, TypeOK, memoria
  <1>2. ListaFiel' /\ IOFiel'  BY DEF Tipos, Control, ListaFiel, IOFiel, memoria
  <1>3. KernelFiel'  BY DEF Tipos, Control, KernelFiel, memoria
  <1>4. QED  BY <1>1, <1>2, <1>3 DEF Tipos, Control

\* The thread takes other values of its variables.
Mueve(l, i, n, f) ==
    hilo' = [hilo EXCEPT !["cpu"] = [hilo["cpu"] EXCEPT !.en = l, !.i = i, !.resta = n, !.marco = f]]

\* What it moves, and what it keeps.
LEMMA CpuMueve ==
    ASSUME TypeOK, NEW l \in Lugares, NEW i \in Nat, NEW n \in Nat, NEW f \in Marcos, Mueve(l, i, n, f)
    PROVE  /\ hilo' \in [{"kernel", "cpu"} -> Hilos] /\ K' = K
           /\ C'.en = l /\ C'.i = i /\ C'.resta = n /\ C'.marco = f
           /\ C'.op = C.op /\ C'.pid = C.pid /\ C'.arg = C.arg
  <1> DEFINE r == [hilo["cpu"] EXCEPT !.en = l, !.i = i, !.resta = n, !.marco = f]
  <1>1. hilo["cpu"] \in Hilos  BY DEF TypeOK
  <1>2. /\ r \in Hilos /\ r.en = l /\ r.i = i /\ r.resta = n /\ r.marco = f
        /\ r.op = C.op /\ r.pid = C.pid /\ r.arg = C.arg
    BY <1>1 DEF Hilos, C
  <1> HIDE DEF r
  <1>3. hilo' = [hilo EXCEPT !["cpu"] = r]  BY DEF r, Mueve
  <1>4. QED  BY <1>2, <1>3 DEF TypeOK, K, C

\* Its fields have these types.
LEMMA CpuTipo ==
    ASSUME TypeOK
    PROVE  /\ hilo \in [{"kernel", "cpu"} -> Hilos] /\ hilo["cpu"] = C /\ C \in Hilos
           /\ C.en \in Lugares /\ C.i \in Nat /\ C.resta \in Nat /\ C.marco \in Marcos /\ C.arg \in Nat
           /\ C.foto \in SUBSET Marcos
  BY DEF TypeOK, C, Hilos

\* The CPU's thread goes on to its next step,
LEMMA PasarCpu ==
    ASSUME Tipos, NEW l \in Lugares, Pasar("cpu", l)
    PROVE  /\ hilo' \in [{"kernel", "cpu"} -> Hilos] /\ K' = K
           /\ C'.en = l /\ C'.i = C.i /\ C'.resta = C.resta /\ C'.marco = C.marco
           /\ C'.op = C.op /\ C'.pid = C.pid /\ C'.arg = C.arg
  BY PasarTipo DEF Tipos, K, C

\* or stays in its loop.
LEMMA AvanzarCpu ==
    ASSUME Tipos, Avanzar("cpu")
    PROVE  /\ hilo' \in [{"kernel", "cpu"} -> Hilos] /\ K' = K
           /\ C'.en = C.en /\ C'.i = C.i + 1 /\ C'.resta = C.resta /\ C'.marco = C.marco
           /\ C'.op = C.op /\ C'.pid = C.pid /\ C'.arg = C.arg
  <1> DEFINE n == C.i + 1
  <1>1. n \in Nat  BY CpuTipo DEF Tipos
  <1>2. hilo' = [hilo EXCEPT !["cpu"].i = n]  BY DEF Avanzar, C
  <1> HIDE DEF n
  <1>3. Mueve(C.en, n, C.resta, C.marco)  BY <1>2, CpuTipo DEF Tipos, Hilos, Mueve
  <1>4. QED  BY <1>1, <1>3, CpuMueve, CpuTipo DEF Tipos, n

\* A request of the CPU, with its page in the table when it is an access.
LEMMA PedirTipos ==
    ASSUME Tipos, NEW p \in Pids, NEW op \in {"INSTRUCCION", "ESCRITURA", "LECTURA", "AJUSTAR"},
           NEW n \in Nat, op \in {"ESCRITURA", "LECTURA"} => n \in DOMAIN tabla_paginas[p], Pedir(p, op, n)
    PROVE  Tipos'
  <1> DEFINE c == [Espera EXCEPT !.en = "buscar", !.op = op, !.pid = p, !.arg = n, !.i = 1]
  <1>1. c \in Hilos /\ c.en = "buscar" /\ c.pid = p /\ c.op = op /\ c.arg = n
    BY Constantes DEF Espera, Hilos, Lugares
  <1> HIDE DEF c
  <1>2. hilo' = [hilo EXCEPT !["cpu"] = c] /\ etapa[p] = "exec" /\ Descontar(p)
        /\ UNCHANGED <<memoria, viva, etapa, io, escritas, perdida>>
    BY DEF Pedir, c
  <1>3. hilo' \in [{"kernel", "cpu"} -> Hilos] /\ K' = K /\ C' = c
    BY <1>1, <1>2 DEF Tipos, TypeOK, K, C
  <1>4. pedidos' \in [Pids -> 0..Pedidos]  BY <1>2, DescontarTipo DEF Tipos
  <1>5. CpuFiel'  BY <1>1, <1>2, <1>3 DEF CpuFiel, memoria
  <1>6. AjusteFiel' /\ TamanioJusto'  BY <1>1, <1>3 DEF AjusteFiel, TamanioJusto, C
  <1>7. QED  BY <1>2, <1>3, <1>4, <1>5, <1>6, SoloCpu

\* The steps of the thread that change nothing but where it is.
LEMMA BuscarTipos ==
    ASSUME Tipos, \/ BuscarSiguiente \/ NoEncontrar \/ AtenderInstruccion \/ Leer \/ Responder
                  \/ AtenderAcceso \/ MarcarMarco \/ TerminarDeQuitar
    PROVE  Tipos'
  <1>1. UNCHANGED <<memoria, viva, etapa, io, escritas, perdida, pedidos>>
    BY DEF BuscarSiguiente, NoEncontrar, AtenderInstruccion, Leer, Responder, AtenderAcceso, MarcarMarco,
           TerminarDeQuitar, entorno
  <1>2. pedidos' \in [Pids -> 0..Pedidos]  BY <1>1 DEF Tipos, TypeOK
  <1>3. /\ "atender" \in Lugares /\ "nulo" \in Lugares /\ "responder" \in Lugares /\ "acceder" \in Lugares
        /\ "grabar" \in Lugares
    BY DEF Lugares
  <1> DEFINE Fin == /\ hilo' \in [{"kernel", "cpu"} -> Hilos] /\ K' = K
                    /\ CpuFiel' /\ AjusteFiel' /\ TamanioJusto'
  <1> SUFFICES Fin
    BY <1>1, <1>2, SoloCpu
  <1>a. TypeOK /\ CpuFiel /\ AjusteFiel  BY DEF Tipos, Control
  <1>4. CpuFiel /\ AjusteFiel  BY <1>a
  <1>b. /\ hilo \in [{"kernel", "cpu"} -> Hilos] /\ hilo["cpu"] = C /\ C \in Hilos
        /\ C.i \in Nat /\ C.resta \in Nat /\ C.marco \in Marcos /\ C.arg \in Nat
    BY <1>a, CpuTipo
  <1> USE <1>3, <1>b
  <1>5. tabla_paginas' = tabla_paginas /\ etapa' = etapa  BY <1>1 DEF memoria
  <1>6. CASE BuscarSiguiente
    <2>1. C.en = "buscar" /\ (Pasar("cpu", "atender") \/ Avanzar("cpu"))  BY <1>6 DEF BuscarSiguiente, En, C
    <2>2. /\ hilo' \in [{"kernel", "cpu"} -> Hilos] /\ K' = K
          /\ C'.en \in {"buscar", "atender"} /\ C'.op = C.op /\ C'.pid = C.pid /\ C'.arg = C.arg
      BY <2>1, PasarCpu, AvanzarCpu DEF Tipos
    <2>3. CpuFiel'  BY <1>4, <1>5, <2>1, <2>2 DEF CpuFiel
    <2>4. AjusteFiel' /\ TamanioJusto'  BY <2>2 DEF AjusteFiel, TamanioJusto, C
    <2>5. QED  BY <2>2, <2>3, <2>4
  <1>7. CASE NoEncontrar
    <2>1. C.en = "buscar" /\ Pasar("cpu", "nulo")  BY <1>7 DEF NoEncontrar, En, C
    <2>2. /\ hilo' \in [{"kernel", "cpu"} -> Hilos] /\ K' = K
          /\ C'.en = "nulo" /\ C'.op = C.op /\ C'.pid = C.pid /\ C'.arg = C.arg
      BY <2>1, PasarCpu DEF Tipos
    <2>3. CpuFiel'  BY <1>4, <1>5, <2>1, <2>2 DEF CpuFiel
    <2>4. AjusteFiel' /\ TamanioJusto'  BY <2>2 DEF AjusteFiel, TamanioJusto, C
    <2>5. QED  BY <2>2, <2>3, <2>4
  <1>8. CASE AtenderInstruccion \/ Leer
    <2>1. C.en \in {"atender", "acceder"} /\ C.op \in {"INSTRUCCION", "LECTURA"} /\ Pasar("cpu", "responder")
      BY <1>8 DEF AtenderInstruccion, Leer, En, C
    <2>2. /\ hilo' \in [{"kernel", "cpu"} -> Hilos] /\ K' = K
          /\ C'.en = "responder" /\ C'.op = C.op /\ C'.pid = C.pid /\ C'.arg = C.arg
      BY <2>1, PasarCpu DEF Tipos
    <2>3. CpuFiel'  BY <1>4, <1>5, <2>1, <2>2 DEF CpuFiel
    <2>4. AjusteFiel' /\ TamanioJusto'  BY <2>1, <2>2 DEF AjusteFiel, TamanioJusto, C
    <2>5. QED  BY <2>2, <2>3, <2>4
  <1>9. CASE Responder
    <2>1. hilo' = [hilo EXCEPT !["cpu"] = Espera]  BY <1>9 DEF Responder
    <2>2. hilo' \in [{"kernel", "cpu"} -> Hilos] /\ K' = K /\ C' = Espera
      BY <2>1, Constantes DEF Tipos, K, C
    <2>3. CpuFiel' /\ AjusteFiel' /\ TamanioJusto'
      BY <2>2 DEF CpuFiel, AjusteFiel, TamanioJusto, C, Espera
    <2>4. QED  BY <2>2, <2>3
  <1>10. CASE AtenderAcceso
    <2> DEFINE f == tabla_paginas[C.pid][C.arg]
    <2>1. C.en = "atender" /\ C.op \in {"ESCRITURA", "LECTURA"} /\ C.pid \in Pids
          /\ hilo' = [hilo EXCEPT !["cpu"].en = "acceder", !["cpu"].marco = f]
      BY <1>4, <1>10 DEF AtenderAcceso, En, C, CpuFiel
    <2>2. f \in Marcos  BY <1>4, <2>1 DEF CpuFiel, Tipos, TypeOK
    <2> HIDE DEF f
    <2>3. Mueve("acceder", C.i, C.resta, f)  BY <2>1 DEF Hilos, Mueve
    <2>4. /\ hilo' \in [{"kernel", "cpu"} -> Hilos] /\ K' = K
          /\ C'.en = "acceder" /\ C'.marco = f /\ C'.op = C.op /\ C'.pid = C.pid /\ C'.arg = C.arg
      BY <1>a, <2>2, <2>3, CpuMueve
    <2>5. CpuFiel'  BY <1>4, <1>5, <2>1, <2>4 DEF CpuFiel, f
    <2>6. AjusteFiel' /\ TamanioJusto'  BY <2>4 DEF AjusteFiel, TamanioJusto, C
    <2>7. QED  BY <2>4, <2>5, <2>6
  <1>11. CASE MarcarMarco
    <2>1. C.en = "marcar" /\ LeerByte("cpu", C.marco, "grabar")  BY <1>11 DEF MarcarMarco, En, C
    <2>2. /\ hilo' \in [{"kernel", "cpu"} -> Hilos] /\ K' = K /\ C'.en = "grabar"
          /\ C'.resta = C.resta /\ C'.op = C.op /\ C'.pid = C.pid /\ C'.arg = C.arg
      BY <2>1, LeerByteTipo DEF Tipos, K, C
    <2>3. CpuFiel'  BY <1>4, <1>5, <2>1, <2>2 DEF CpuFiel
    <2>4. AjusteFiel' /\ TamanioJusto'
      BY <1>4, <1>5, <2>1, <2>2 DEF AjusteFiel, Faltan, TamanioJusto, C
    <2>5. QED  BY <2>2, <2>3, <2>4
  <1>12. CASE TerminarDeQuitar
    <2>1. C.en = "quitar" /\ C.resta = 0 /\ Pasar("cpu", "responder")
      BY <1>12 DEF TerminarDeQuitar, En, C
    <2>2. /\ hilo' \in [{"kernel", "cpu"} -> Hilos] /\ K' = K
          /\ C'.en = "responder" /\ C'.op = C.op /\ C'.pid = C.pid /\ C'.arg = C.arg
      BY <2>1, PasarCpu DEF Tipos
    <2>3. CpuFiel'  BY <1>4, <1>5, <2>1, <2>2 DEF CpuFiel
    <2>4. Len(tabla_paginas[C.pid]) = Techo(C.arg, TamPagina)
      <3>1. Len(tabla_paginas[C.pid]) = Techo(C.arg, TamPagina) + 0  BY <1>4, <2>1 DEF AjusteFiel, Sobran
      <3>2. Techo(C.arg, TamPagina) \in Nat  BY DefinicionTecho DEF Tipos
      <3>3. QED  BY <3>1, <3>2
    <2>5. AjusteFiel' /\ TamanioJusto'
      BY <1>5, <2>2, <2>4 DEF AjusteFiel, TamanioJusto, C
    <2>6. QED  BY <2>2, <2>3, <2>5
  <1>13. QED  BY <1>6, <1>7, <1>8, <1>9, <1>10, <1>11, <1>12

\* AJUSTAR_TAMANIO_PROCESO: the pages to add or to take off.
LEMMA AjustarTipos == ASSUME Tipos, Ajustar PROVE Tipos'
  <1> DEFINE l == Len(tabla_paginas[C.pid])
  <1>1. TypeOK /\ CpuFiel /\ AjusteFiel  BY DEF Tipos, Control
  <1>2. C.en = "atender" /\ C.op = "AJUSTAR" /\ C.pid \in Pids /\ etapa[C.pid] = "exec"
    BY <1>1 DEF Ajustar, En, CpuFiel, C
  <1>3. hilo \in [{"kernel", "cpu"} -> Hilos] /\ hilo["cpu"] = C /\ C \in Hilos /\ C.marco \in Marcos /\ C.arg \in Nat
    BY <1>1, CpuTipo
  <1>4. l \in Nat  BY <1>1, <1>2 DEF TypeOK
  <1>5. UNCHANGED <<memoria, viva, etapa, io, escritas, perdida, pedidos>> /\ pedidos' \in [Pids -> 0..Pedidos]
    BY <1>1 DEF Ajustar, entorno, TypeOK
  <1>6. tabla_paginas' = tabla_paginas /\ etapa' = etapa  BY <1>5 DEF memoria
  <1> DEFINE Va(e, n) == hilo' = [hilo EXCEPT !["cpu"].en = e, !["cpu"].i = 0, !["cpu"].resta = n]
  <1>7. \/ C.arg > l * TamPagina /\ Va("revisar", Techo(C.arg - l * TamPagina, TamPagina))
        \/ C.arg < l * TamPagina /\ Va("quitar", (l * TamPagina - C.arg) \div TamPagina)
        \/ C.arg = l * TamPagina /\ Va("responder", 0)
    BY <1>3 DEF Ajustar, TamActual, PaginasAEliminar
  <1>8. \A e \in Lugares, n \in Nat : Va(e, n) =>
            /\ hilo' \in [{"kernel", "cpu"} -> Hilos] /\ K' = K
            /\ C'.en = e /\ C'.i = 0 /\ C'.resta = n /\ C'.op = C.op /\ C'.pid = C.pid /\ C'.arg = C.arg
    <2> TAKE e \in Lugares, n \in Nat
    <2> HAVE Va(e, n)
    <2>1. Mueve(e, 0, n, C.marco)  BY <1>3 DEF Hilos, Mueve
    <2>2. QED  BY <1>1, <1>3, <2>1, CpuMueve
  <1> HIDE DEF Va
  <1>9. "revisar" \in Lugares /\ "quitar" \in Lugares /\ "responder" \in Lugares  BY DEF Lugares
  <1>10. TamPagina \in Nat \ {0} /\ CantMarcos \in Nat \ {0}  BY ConstantesOK
  <1>11. l * TamPagina \in Nat  BY <1>4, <1>10
  <1> SUFFICES /\ hilo' \in [{"kernel", "cpu"} -> Hilos] /\ K' = K
               /\ CpuFiel' /\ AjusteFiel' /\ TamanioJusto'
    BY <1>5, SoloCpu
  <1>12. CASE C.arg > l * TamPagina
    <2> DEFINE n == Techo(C.arg - l * TamPagina, TamPagina)
    <2>1. n \in Nat \ {0} /\ l + n = Techo(C.arg, TamPagina)  BY <1>3, <1>4, <1>12, PaginasJustas
    <2> HIDE DEF n
    <2>2. Va("revisar", n)  BY <1>3, <1>7, <1>11, <1>12 DEF n
    <2>3. /\ hilo' \in [{"kernel", "cpu"} -> Hilos] /\ K' = K /\ C'.en = "revisar" /\ C'.i = 0
          /\ C'.resta = n /\ C'.op = C.op /\ C'.pid = C.pid /\ C'.arg = C.arg
      BY <1>8, <1>9, <2>1, <2>2
    <2>4. CpuFiel'  BY <1>2, <1>6, <2>3 DEF CpuFiel
    <2>5. AjusteFiel'
      <3>1. Faltan(C.pid, C.arg)'  BY <1>6, <2>1, <2>3 DEF Faltan
      <3>2. n > 0 /\ 0 <= CantMarcos  BY <1>10, <2>1
      <3>3. QED  BY <1>2, <2>3, <3>1, <3>2 DEF AjusteFiel, Faltan
    <2>6. TamanioJusto'  BY <2>3 DEF TamanioJusto, C
    <2>7. QED  BY <2>3, <2>4, <2>5, <2>6
  <1>13. CASE C.arg < l * TamPagina
    <2> DEFINE n == (l * TamPagina - C.arg) \div TamPagina
    <2>1. C.arg <= l * TamPagina  BY <1>3, <1>11, <1>13
    <2>2. n \in Nat /\ l = Techo(C.arg, TamPagina) + n  BY <1>3, <1>4, <2>1, PaginasJustas
    <2> HIDE DEF n
    <2>3. Va("quitar", n)  BY <1>3, <1>7, <1>11, <1>13 DEF n
    <2>4. /\ hilo' \in [{"kernel", "cpu"} -> Hilos] /\ K' = K /\ C'.en = "quitar"
          /\ C'.resta = n /\ C'.op = C.op /\ C'.pid = C.pid /\ C'.arg = C.arg
      BY <1>8, <1>9, <2>2, <2>3
    <2>5. CpuFiel'  BY <1>2, <1>6, <2>4 DEF CpuFiel
    <2>6. AjusteFiel'  BY <1>2, <1>6, <2>2, <2>4 DEF AjusteFiel, Sobran
    <2>7. TamanioJusto'  BY <2>4 DEF TamanioJusto, C
    <2>8. QED  BY <2>4, <2>5, <2>6, <2>7
  <1>14. CASE C.arg = l * TamPagina
    <2>1. l = Techo(C.arg, TamPagina)
      <3>1. C.arg <= l * TamPagina /\ l * TamPagina - C.arg = 0  BY <1>3, <1>11, <1>14
      <3>2. 0 \div TamPagina = 0  BY <1>10
      <3>3. l = Techo(C.arg, TamPagina) + (l * TamPagina - C.arg) \div TamPagina
        BY <1>3, <1>4, <3>1, PaginasJustas
      <3>4. l = Techo(C.arg, TamPagina) + 0  BY <3>1, <3>2, <3>3
      <3>5. Techo(C.arg, TamPagina) \in Nat  BY <1>3, DefinicionTecho
      <3>6. QED  BY <3>4, <3>5
    <2>2. Va("responder", 0)  BY <1>3, <1>7, <1>11, <1>14
    <2>3. /\ hilo' \in [{"kernel", "cpu"} -> Hilos] /\ K' = K /\ C'.en = "responder"
          /\ C'.op = C.op /\ C'.pid = C.pid /\ C'.arg = C.arg
      BY <1>8, <1>9, <2>2
    <2>4. CpuFiel'  BY <1>2, <1>6, <2>3 DEF CpuFiel
    <2>5. AjusteFiel'  BY <2>3 DEF AjusteFiel
    <2>6. TamanioJusto'  BY <1>6, <2>1, <2>3 DEF TamanioJusto, C
    <2>7. QED  BY <2>3, <2>4, <2>5, <2>6
  <1>15. QED  BY <1>3, <1>7, <1>11, <1>12, <1>13, <1>14

\* obtener_primer_marco_libre looks at one more frame.
LEMMA AvanzarTipos ==
    ASSUME Tipos, C.en \in {"revisar", "explorar"}, C.i \in marcos_ocupados, Avanzar("cpu"),
           UNCHANGED <<memoria, viva, etapa, io, pedidos, escritas, perdida>>
    PROVE  Tipos'
  <1>1. TypeOK /\ CpuFiel /\ AjusteFiel  BY DEF Tipos, Control
  <1>2. /\ hilo' \in [{"kernel", "cpu"} -> Hilos] /\ K' = K
        /\ C'.en = C.en /\ C'.i = C.i + 1 /\ C'.resta = C.resta
        /\ C'.op = C.op /\ C'.pid = C.pid /\ C'.arg = C.arg
    BY AvanzarCpu
  <1>3. tabla_paginas' = tabla_paginas /\ etapa' = etapa /\ pedidos' \in [Pids -> 0..Pedidos]
    BY <1>1 DEF memoria, TypeOK
  <1>4. CpuFiel'  BY <1>1, <1>2, <1>3 DEF CpuFiel
  <1>5. C'.i <= CantMarcos
    <2>1. C.i \in Marcos  BY <1>1 DEF TypeOK
    <2>2. QED  BY <1>2, <2>1, ConstantesOK DEF Marcos
  <1>6. AjusteFiel'
    <2> DEFINE n == C.resta
               m == Techo(C.arg, TamPagina)
    <2>1. C.op = "AJUSTAR" /\ n > 0 /\ Len(tabla_paginas[C.pid]) + n = m
      BY <1>1 DEF AjusteFiel, Faltan
    <2> HIDE DEF n, m
    <2>2. C'.resta > 0 /\ Len(tabla_paginas'[C'.pid]) + C'.resta = Techo(C'.arg, TamPagina)
      BY <1>2, <1>3, <2>1 DEF n, m
    <2>3. QED  BY <1>2, <1>5, <2>1, <2>2 DEF AjusteFiel, Faltan
  <1>7. TamanioJusto'  BY <1>2 DEF TamanioJusto, C
  <1>8. QED  BY <1>2, <1>3, <1>4, <1>6, <1>7, SoloCpu

\* RESIZE finds no frame: the process is sent to EXIT.
LEMMA QuedaSinMemoriaTipos ==
    ASSUME Tipos, C.en = "revisar", QuedaSinMemoria, UNCHANGED <<memoria, io, pedidos, escritas, perdida>>
    PROVE  Tipos'
  <1>1. C.pid \in Pids /\ etapa[C.pid] = "exec"  BY DEF Tipos, Control, CpuFiel
  <1>2. PICK p \in Pids : p = C.pid  BY <1>1
  <1>3. hilo' = [hilo EXCEPT !["cpu"] = Espera] /\ etapa' = [etapa EXCEPT ![p] = "exit"] /\ UNCHANGED viva
    BY <1>2 DEF QuedaSinMemoria, Pid, C
  <1>4. hilo' \in [{"kernel", "cpu"} -> Hilos] /\ K' = K /\ C' = Espera
    BY <1>3, Constantes DEF Tipos, TypeOK, K, C
  <1>5. TypeOK'  BY <1>3, <1>4 DEF Tipos, TypeOK, memoria
  <1>6. ListaFiel'  BY <1>1, <1>2, <1>3 DEF Tipos, TypeOK, Control, ListaFiel, memoria
  <1>7. IOFiel'  BY <1>3 DEF Tipos, TypeOK, Control, IOFiel, memoria
  <1>8. KernelFiel'
    <2>1. \A q \in Pids \ {p} : tabla_paginas'[q] = tabla_paginas[q] /\ etapa'[q] = etapa[q]
      BY <1>3 DEF Tipos, TypeOK, memoria
    <2>2. QED  BY <1>1, <1>2, <1>4, <2>1, KernelAjeno
  <1>9. CpuFiel' /\ AjusteFiel' /\ TamanioJusto'
    BY <1>4 DEF CpuFiel, AjusteFiel, TamanioJusto, C, Espera
  <1>10. QED  BY <1>5, <1>6, <1>7, <1>8, <1>9 DEF Tipos, Control

\* The two searches for a free frame.
LEMMA ExplorarTipos == ASSUME Tipos, RevisarMarcos \/ TomarMarco PROVE Tipos'
  <1>1. TypeOK /\ CpuFiel /\ AjusteFiel  BY DEF Tipos, Control
  <1>2. hilo \in [{"kernel", "cpu"} -> Hilos] /\ hilo["cpu"] = C /\ C \in Hilos
        /\ C.i \in Nat /\ C.resta \in Nat /\ C.marco \in Marcos
    BY <1>1, CpuTipo
  <1>3. UNCHANGED <<memoria, io, pedidos, escritas, perdida>>
    BY DEF RevisarMarcos, TomarMarco, Explorar
  <1>4. C.en \in {"revisar", "explorar"}  BY DEF RevisarMarcos, TomarMarco, Explorar, En, C
  <1>5. CASE C.i \in marcos_ocupados /\ Avanzar("cpu") /\ UNCHANGED <<viva, etapa>>
    BY <1>3, <1>4, <1>5, AvanzarTipos
  <1>6. CASE C.en = "revisar" /\ QuedaSinMemoria
    BY <1>3, <1>6, QuedaSinMemoriaTipos
  <1>7. CASE Morir /\ UNCHANGED <<hilo, etapa>>
    BY <1>3, <1>7, MorirTipos DEF entorno
  <1>8. ASSUME NEW l \in {"explorar", "marcar"}, NEW i \in Nat, NEW f \in Marcos, Mueve(l, i, C.resta, f),
               l = "explorar" => i = 0, UNCHANGED <<viva, etapa>>
        PROVE  Tipos'
    <2>1. l \in Lugares  BY DEF Lugares
    <2>2. /\ hilo' \in [{"kernel", "cpu"} -> Hilos] /\ K' = K
          /\ C'.en = l /\ C'.i = i /\ C'.resta = C.resta
          /\ C'.op = C.op /\ C'.pid = C.pid /\ C'.arg = C.arg
      BY <1>1, <1>2, <1>8, <2>1, CpuMueve
    <2>3. tabla_paginas' = tabla_paginas /\ etapa' = etapa /\ pedidos' \in [Pids -> 0..Pedidos]
      BY <1>1, <1>3, <1>8 DEF memoria, TypeOK
    <2>4. CpuFiel'  BY <1>1, <1>4, <2>2, <2>3 DEF CpuFiel
    <2>5. AjusteFiel'
      <3>1. C.op = "AJUSTAR" /\ C.resta > 0 /\ Faltan(C.pid, C.arg)  BY <1>1, <1>4 DEF AjusteFiel
      <3>2. Faltan(C.pid, C.arg)'  BY <2>2, <2>3, <3>1 DEF Faltan
      <3>3. 0 <= CantMarcos  BY ConstantesOK
      <3>4. QED  BY <1>8, <2>2, <3>1, <3>2, <3>3 DEF AjusteFiel, Faltan
    <2>6. TamanioJusto'  BY <2>2 DEF TamanioJusto, C
    <2>7. QED  BY <1>3, <1>8, <2>2, <2>3, <2>4, <2>5, <2>6, SoloCpu
  <1>9. CASE /\ C.en = "revisar" /\ UNCHANGED <<viva, etapa>>
             /\ hilo' = [hilo EXCEPT !["cpu"].en = "explorar", !["cpu"].i = 0]
    <2>1. Mueve("explorar", 0, C.resta, C.marco)  BY <1>2, <1>9 DEF Hilos, Mueve
    <2>2. QED  BY <1>2, <1>8, <1>9, <2>1
  <1>10. CASE /\ C.en = "explorar" /\ C.i \in Marcos /\ UNCHANGED <<viva, etapa>>
              /\ hilo' = [hilo EXCEPT !["cpu"].en = "marcar", !["cpu"].marco = hilo["cpu"].i]
    <2>1. Mueve("marcar", C.i, C.resta, C.i)  BY <1>2, <1>10 DEF Hilos, Mueve
    <2>2. QED  BY <1>2, <1>8, <1>10, <2>1
  <1>11. CASE RevisarMarcos
    <2>1. /\ C.en = "revisar"
          /\ \/ QuedaSinMemoria
             \/ hilo' = [hilo EXCEPT !["cpu"].en = "explorar", !["cpu"].i = 0] /\ UNCHANGED <<viva, etapa>>
             \/ C.i \in marcos_ocupados /\ Avanzar("cpu") /\ UNCHANGED <<viva, etapa>>
      BY <1>11 DEF RevisarMarcos, Explorar, En, C
    <2>2. QED  BY <1>5, <1>6, <1>9, <2>1
  <1>12. CASE TomarMarco
    <2>1. /\ C.en = "explorar"
          /\ \/ Morir /\ UNCHANGED <<hilo, etapa>>
             \/ /\ C.i \in Marcos /\ UNCHANGED <<viva, etapa>>
                /\ hilo' = [hilo EXCEPT !["cpu"].en = "marcar", !["cpu"].marco = hilo["cpu"].i]
             \/ C.i \in marcos_ocupados /\ Avanzar("cpu") /\ UNCHANGED <<viva, etapa>>
      BY <1>12 DEF TomarMarco, Explorar, En, C
    <2>2. QED  BY <1>5, <1>7, <1>10, <2>1
  <1>13. QED  BY <1>11, <1>12

\* ESCRITURA_MEMORIA from the CPU.
LEMMA EscribirTipos == ASSUME Tipos, Escribir PROVE Tipos'
  <1>1. TypeOK /\ CpuFiel  BY DEF Tipos, Control
  <1>2. C.en = "acceder" /\ C.op = "ESCRITURA" /\ C.pid \in Pids /\ etapa[C.pid] = "exec"
        /\ C.arg \in DOMAIN tabla_paginas[C.pid] /\ C.arg \in Nat /\ C.marco \in Marcos
    BY <1>1, CpuTipo DEF Escribir, En, CpuFiel, C
  <1>3. PICK p \in Pids : p = C.pid  BY <1>2
  <1>4. /\ contenido' = [contenido EXCEPT ![C.marco] = p]
        /\ escritas' = [escritas EXCEPT ![p] = @ \union {C.arg}] /\ Pasar("cpu", "responder")
        /\ UNCHANGED <<procesos_en_memoria, tabla_paginas, marcos_ocupados, viva, etapa, io, pedidos, perdida>>
    BY <1>3 DEF Escribir, entorno, C
  <1>5. /\ hilo' \in [{"kernel", "cpu"} -> Hilos] /\ K' = K
        /\ C'.en = "responder" /\ C'.op = C.op /\ C'.pid = C.pid /\ C'.arg = C.arg
    <2>1. "responder" \in Lugares  BY DEF Lugares
    <2>2. QED  BY <1>4, <2>1, PasarCpu
  <1>6. TypeOK'
    <2>1. contenido' \in [Marcos -> Pids \union {Nadie}]  BY <1>1, <1>4 DEF TypeOK
    <2>2. escritas' \in [Pids -> SUBSET Nat]  BY <1>1, <1>2, <1>4 DEF TypeOK
    <2>3. \A q \in Pids : escritas'[q] \subseteq DOMAIN tabla_paginas'[q]
      BY <1>1, <1>2, <1>3, <1>4 DEF TypeOK
    <2>4. QED  BY <1>1, <1>4, <1>5, <2>1, <2>2, <2>3 DEF TypeOK
  <1>7. ListaFiel' /\ IOFiel'  BY <1>4 DEF Tipos, Control, ListaFiel, IOFiel
  <1>8. KernelFiel'  BY <1>4, <1>5 DEF Tipos, Control, KernelFiel
  <1>9. CpuFiel'  BY <1>2, <1>4, <1>5 DEF CpuFiel
  <1>10. AjusteFiel' /\ TamanioJusto'  BY <1>2, <1>5 DEF AjusteFiel, TamanioJusto, C
  <1>11. QED  BY <1>6, <1>7, <1>8, <1>9, <1>10 DEF Tipos, Control

\* A step of RESIZE that changes the table of the process that executes.
LEMMA TablaTipos ==
    ASSUME Tipos, NEW p \in Pids, etapa[p] = "exec", C.pid = p, NEW t \in Seq(Marcos),
           tabla_paginas' = [tabla_paginas EXCEPT ![p] = t],
           escritas' \in [Pids -> SUBSET Nat], \A q \in Pids : escritas'[q] \subseteq escritas[q],
           escritas'[p] \subseteq DOMAIN t,
           hilo' \in [{"kernel", "cpu"} -> Hilos], K' = K,
           C'.op = "AJUSTAR", C'.en # "acceder", C'.en \notin {"crear", "borrar", "sacar"}, C'.en # "espera",
           C'.pid = p, AjusteFiel', TamanioJusto',
           marcos_ocupados' \subseteq Marcos, perdida' \in BOOLEAN,
           UNCHANGED <<procesos_en_memoria, contenido, viva, etapa, io, pedidos>>
    PROVE  Tipos'
  <1>1. TypeOK /\ CpuFiel  BY DEF Tipos, Control
  <1>2. tabla_paginas' \in [Pids -> Seq(Marcos)] /\ tabla_paginas'[p] = t
        /\ \A q \in Pids \ {p} : tabla_paginas'[q] = tabla_paginas[q]
    BY <1>1 DEF TypeOK
  <1>3. TypeOK'
    <2>1. \A q \in Pids : escritas'[q] \subseteq DOMAIN tabla_paginas'[q]  BY <1>1, <1>2 DEF TypeOK
    <2>2. QED  BY <1>1, <1>2, <2>1 DEF TypeOK
  <1>4. ListaFiel'  BY <1>2 DEF Tipos, Control, ListaFiel
  <1>5. IOFiel'  BY <1>2 DEF Tipos, Control, IOFiel
  <1>6. KernelFiel'  BY <1>2, KernelAjeno
  <1>7. CpuFiel'  BY <1>1 DEF CpuFiel
  <1>8. QED  BY <1>3, <1>4, <1>5, <1>6, <1>7 DEF Tipos, Control

\* inicializar_pagina and list_add: one page more, one to go less.
LEMMA AgregarPaginaTipos == ASSUME Tipos, AgregarPagina PROVE Tipos'
  <1>1. TypeOK /\ CpuFiel /\ AjusteFiel  BY DEF Tipos, Control
  <1>2. hilo \in [{"kernel", "cpu"} -> Hilos] /\ hilo["cpu"] = C /\ C \in Hilos /\ C.resta \in Nat /\ C.marco \in Marcos
        /\ C.foto \in SUBSET Marcos /\ C.arg \in Nat
    BY <1>1, CpuTipo
  <1>3. C.en = "grabar"  BY DEF AgregarPagina, En, C
  <1>4. C.pid \in Pids /\ etapa[C.pid] = "exec" /\ C.op = "AJUSTAR" /\ C.resta > 0 /\ Faltan(C.pid, C.arg)
    BY <1>1, <1>3 DEF CpuFiel, AjusteFiel
  <1>5. PICK p \in Pids : p = C.pid  BY <1>4
  <1> DEFINE n == C.resta - 1
             l == IF C.resta = 1 THEN "responder" ELSE "revisar"
             t == Append(tabla_paginas[p], C.marco)
  <1>6. /\ EscribirByte("cpu", C.foto \union {C.marco})
        /\ tabla_paginas' = [tabla_paginas EXCEPT ![p] = t]
        /\ hilo' = [hilo EXCEPT !["cpu"].en = l, !["cpu"].i = 0, !["cpu"].resta = n]
        /\ UNCHANGED <<procesos_en_memoria, contenido, viva, etapa, io, pedidos, escritas>>
    BY <1>5 DEF AgregarPagina, entorno, C
  <1>7. n \in Nat /\ C.resta = n + 1 /\ l \in Lugares  BY <1>2, <1>4 DEF Lugares
  <1>8. tabla_paginas[p] \in Seq(Marcos) /\ Len(tabla_paginas[p]) \in Nat
        /\ t \in Seq(Marcos) /\ Len(t) = Len(tabla_paginas[p]) + 1
        /\ DOMAIN tabla_paginas[p] \subseteq DOMAIN t
    BY <1>1, <1>2 DEF TypeOK
  <1>9. C.resta = 1 => n = 0  BY <1>7
  <1>10. n > 0 <=> C.resta # 1  BY <1>7
  <1>11. l \in {"responder", "revisar"} /\ (l = "revisar" => n > 0) /\ (l = "responder" => n = 0)
    BY <1>9, <1>10
  <1> HIDE DEF n, l, t
  <1>12. Mueve(l, 0, n, C.marco)  BY <1>2, <1>6 DEF Hilos, Mueve
  <1>13. /\ hilo' \in [{"kernel", "cpu"} -> Hilos] /\ K' = K
         /\ C'.en = l /\ C'.i = 0 /\ C'.resta = n /\ C'.op = C.op /\ C'.pid = C.pid /\ C'.arg = C.arg
    BY <1>1, <1>2, <1>7, <1>12, CpuMueve
  <1>14. tabla_paginas'[p] = t  BY <1>1, <1>6 DEF TypeOK
  <1>15. Len(t) + n = Techo(C.arg, TamPagina)
    <2> DEFINE a == Len(tabla_paginas[p])
               b == Len(t)
    <2>1. a + C.resta = Techo(C.arg, TamPagina)  BY <1>4, <1>5 DEF Faltan
    <2>2. a \in Nat /\ b = a + 1  BY <1>8
    <2> HIDE DEF a, b
    <2>3. a + (n + 1) = b + n  BY <1>7, <2>2
    <2>4. a + (n + 1) = Techo(C.arg, TamPagina)  BY <1>7, <2>1
    <2>5. QED  BY <2>3, <2>4 DEF b
  <1>16. Len(tabla_paginas'[C'.pid]) + C'.resta = Techo(C'.arg, TamPagina)
    BY <1>5, <1>13, <1>14, <1>15
  <1>17. AjusteFiel'
    <2>1. C'.i <= CantMarcos  BY <1>13, ConstantesOK
    <2>2. QED  BY <1>4, <1>11, <1>13, <1>16, <2>1 DEF AjusteFiel, Faltan
  <1>18. TamanioJusto'
    <2>1. l = "responder" => Len(t) = Techo(C.arg, TamPagina)
      <3>1. l = "responder" => Len(t) + 0 = Techo(C.arg, TamPagina)  BY <1>11, <1>15
      <3>2. QED  BY <1>8, <3>1
    <2>2. QED  BY <1>5, <1>13, <1>14, <2>1 DEF TamanioJusto, C
  <1>19. marcos_ocupados' \subseteq Marcos /\ perdida' \in BOOLEAN
    BY <1>1, <1>2, <1>6, EscribirByteTipo
  <1>20. /\ escritas' \in [Pids -> SUBSET Nat] /\ \A q \in Pids : escritas'[q] \subseteq escritas[q]
         /\ escritas'[p] \subseteq DOMAIN t
    BY <1>1, <1>6, <1>8 DEF TypeOK
  <1>21. QED
    BY <1>4, <1>5, <1>6, <1>8, <1>11, <1>13, <1>17, <1>18, <1>19, <1>20, TablaTipos

\* The last page is taken off, and its frame is about to be given back.
LEMMA QuitarPaginaTipos == ASSUME Tipos, QuitarPagina PROVE Tipos'
  <1>1. TypeOK /\ CpuFiel /\ AjusteFiel  BY DEF Tipos, Control
  <1>2. hilo \in [{"kernel", "cpu"} -> Hilos] /\ hilo["cpu"] = C /\ C.resta \in Nat /\ C.arg \in Nat
    BY <1>1, CpuTipo
  <1>3. C.en = "quitar" /\ C.resta > 0  BY DEF QuitarPagina, En, C
  <1>4. C.pid \in Pids /\ etapa[C.pid] = "exec" /\ C.op = "AJUSTAR" /\ Sobran(C.pid, C.arg)
    BY <1>1, <1>3 DEF CpuFiel, AjusteFiel
  <1>5. PICK p \in Pids : p = C.pid  BY <1>4
  <1> DEFINE s == tabla_paginas[p]
             t == Front(s)
             m == Techo(C.arg, TamPagina)
  <1>6. /\ tabla_paginas' = [tabla_paginas EXCEPT ![p] = t]
        /\ escritas' = [escritas EXCEPT ![p] = @ \ {Len(s)}]
        /\ LeerByte("cpu", Last(s), "limpiar")
        /\ UNCHANGED <<procesos_en_memoria, marcos_ocupados, contenido, viva, etapa, io, pedidos, perdida>>
    BY <1>5 DEF QuitarPagina, entorno, C
  <1>7. Len(s) = m + C.resta /\ m \in Nat  BY <1>2, <1>4, <1>5, DefinicionTecho DEF Sobran
  <1>8. s \in Seq(Marcos)  BY <1>1 DEF TypeOK
  <1> HIDE DEF s, m
  <1>9. Len(s) > 0 /\ Len(s) \in Nat  BY <1>2, <1>3, <1>7
  <1>10. /\ t \in Seq(Marcos) /\ Len(t) = Len(s) - 1 /\ DOMAIN t = DOMAIN s \ {Len(s)}
         /\ \A k \in DOMAIN t : t[k] = s[k]
    BY <1>8, <1>9, SinUltimo
  <1>11. Last(s) \in Marcos  BY <1>8, <1>9 DEF Last
  <1> HIDE DEF t
  <1>12. /\ hilo' \in [{"kernel", "cpu"} -> Hilos] /\ K' = K
         /\ C'.en = "limpiar" /\ C'.resta = C.resta /\ C'.op = C.op /\ C'.pid = C.pid /\ C'.arg = C.arg
    <2>1. "limpiar" \in Lugares  BY DEF Lugares
    <2>2. QED  BY <1>1, <1>6, <1>11, <2>1, LeerByteTipo DEF K, C
  <1>13. tabla_paginas'[p] = t  BY <1>1, <1>6 DEF TypeOK
  <1>14. Len(t) + 1 = m + C.resta  BY <1>7, <1>9, <1>10
  <1>15. AjusteFiel'
    <2>1. Len(tabla_paginas'[C'.pid]) + 1 = Techo(C'.arg, TamPagina) + C'.resta
      BY <1>5, <1>12, <1>13, <1>14 DEF m
    <2>2. QED  BY <1>3, <1>4, <1>12, <2>1 DEF AjusteFiel
  <1>16. TamanioJusto'  BY <1>12 DEF TamanioJusto, C
  <1>17. /\ escritas' \in [Pids -> SUBSET Nat] /\ \A q \in Pids : escritas'[q] \subseteq escritas[q]
         /\ escritas'[p] \subseteq DOMAIN t
    BY <1>1, <1>6, <1>10 DEF TypeOK, s
  <1>18. marcos_ocupados' \subseteq Marcos /\ perdida' \in BOOLEAN  BY <1>1, <1>6 DEF TypeOK
  <1>19. QED
    BY <1>4, <1>5, <1>6, <1>10, <1>12, <1>15, <1>16, <1>17, <1>18, TablaTipos

\* The frame is given back, and one page less is left to take off.
LEMMA LimpiarBitDePaginaTipos == ASSUME Tipos, LimpiarBitDePagina PROVE Tipos'
  <1>1. TypeOK /\ CpuFiel /\ AjusteFiel  BY DEF Tipos, Control
  <1>2. hilo \in [{"kernel", "cpu"} -> Hilos] /\ hilo["cpu"] = C /\ C \in Hilos
        /\ C.i \in Nat /\ C.resta \in Nat /\ C.marco \in Marcos /\ C.foto \in SUBSET Marcos /\ C.arg \in Nat
    BY <1>1, CpuTipo
  <1>3. C.en = "limpiar"  BY DEF LimpiarBitDePagina, En, C
  <1> DEFINE a == Len(tabla_paginas[C.pid])
             m == Techo(C.arg, TamPagina)
             n == C.resta - 1
  <1>4. C.pid \in Pids /\ etapa[C.pid] = "exec" /\ C.op = "AJUSTAR" /\ C.resta > 0 /\ a + 1 = m + C.resta
    BY <1>1, <1>3 DEF CpuFiel, AjusteFiel
  <1>5. a \in Nat /\ m \in Nat
    <2>1. tabla_paginas[C.pid] \in Seq(Marcos)  BY <1>1, <1>4 DEF TypeOK
    <2>2. a \in Nat  BY <2>1
    <2>3. m \in Nat  BY <1>2, DefinicionTecho
    <2>4. QED  BY <2>2, <2>3
  <1>6. /\ EscribirByte("cpu", C.foto \ {C.marco})
        /\ hilo' = [hilo EXCEPT !["cpu"].en = "quitar", !["cpu"].resta = n]
        /\ UNCHANGED <<procesos_en_memoria, tabla_paginas, contenido, viva, etapa, io, pedidos, escritas>>
    BY DEF LimpiarBitDePagina, entorno, C
  <1>7. n \in Nat /\ C.resta = n + 1  BY <1>2, <1>4
  <1> HIDE DEF n
  <1>8. Mueve("quitar", C.i, n, C.marco)  BY <1>2, <1>6 DEF Hilos, Mueve
  <1>9. /\ hilo' \in [{"kernel", "cpu"} -> Hilos] /\ K' = K
        /\ C'.en = "quitar" /\ C'.resta = n /\ C'.op = C.op /\ C'.pid = C.pid /\ C'.arg = C.arg
    <2>1. "quitar" \in Lugares  BY DEF Lugares
    <2>2. QED  BY <1>1, <1>2, <1>7, <1>8, <2>1, CpuMueve
  <1>10. marcos_ocupados' \subseteq Marcos /\ perdida' \in BOOLEAN
    BY <1>1, <1>2, <1>6, EscribirByteTipo
  <1>11. TypeOK'  BY <1>1, <1>6, <1>9, <1>10 DEF TypeOK
  <1>12. ListaFiel' /\ IOFiel'  BY <1>6 DEF Tipos, Control, ListaFiel, IOFiel
  <1>13. KernelFiel'  BY <1>6, <1>9 DEF Tipos, Control, KernelFiel
  <1>14. CpuFiel'  BY <1>4, <1>6, <1>9 DEF CpuFiel
  <1>15. AjusteFiel'
    <2> HIDE DEF a, m
    <2>1. a = m + n  BY <1>4, <1>5, <1>7
    <2>2. Len(tabla_paginas'[C'.pid]) = Techo(C'.arg, TamPagina) + C'.resta
      BY <1>6, <1>9, <2>1 DEF a, m
    <2>3. QED  BY <1>4, <1>9, <2>2 DEF AjusteFiel, Sobran
  <1>16. TamanioJusto'  BY <1>9 DEF TamanioJusto, C
  <1>17. QED  BY <1>11, <1>12, <1>13, <1>14, <1>15, <1>16 DEF Tipos, Control

\* Every step keeps the types, what the threads are about and what RESIZE promises.
LEMMA NextTipos == ASSUME Tipos, [Next]_vars PROVE Tipos'
  <1>1. CASE HiloKernel
    BY <1>1, CrearProcesoTipos, LiberarMarcoTipos, LimpiarBitDeFinTipos, DestruirProcesoTipos,
       SacarProcesoTipos
    DEF HiloKernel
  <1>2. CASE HiloCpu
    <2>1. CASE \/ BuscarSiguiente \/ NoEncontrar \/ AtenderInstruccion \/ Leer \/ Responder
               \/ AtenderAcceso \/ MarcarMarco \/ TerminarDeQuitar
      BY <2>1, BuscarTipos
    <2>2. CASE BuscarEnLiberado \/ UsarNulo
      BY <2>2, MorirTipos DEF BuscarEnLiberado, UsarNulo
    <2>3. CASE Ajustar  BY <2>3, AjustarTipos
    <2>4. CASE RevisarMarcos \/ TomarMarco  BY <2>4, ExplorarTipos
    <2>5. CASE Escribir  BY <2>5, EscribirTipos
    <2>6. CASE AgregarPagina  BY <2>6, AgregarPaginaTipos
    <2>7. CASE QuitarPagina  BY <2>7, QuitarPaginaTipos
    <2>8. CASE LimpiarBitDePagina  BY <2>8, LimpiarBitDePaginaTipos
    <2>9. QED
      BY <1>2, <2>1, <2>2, <2>3, <2>4, <2>5, <2>6, <2>7, <2>8 DEF HiloCpu
  <1>3. CASE Interfaces  BY <1>3, EscribirIOTipos DEF Interfaces
  <1>4. CASE Kernel
    BY <1>4, PedirCreacionTipos, PedirFinTipos, FueraTipos DEF Kernel, Fuera
  <1>5. CASE OtroFin  BY <1>5, MorirTipos DEF OtroFin, PedirOtroFin
  <1>6. CASE Cpu
    <2>1. PICK p \in Pids :
            Salir(p) \/ PedirIO(p) \/ PedirInstruccion(p) \/ PedirAcceso(p) \/ PedirAjuste(p)
      BY <1>6 DEF Cpu
    <2>2. CASE Salir(p) \/ PedirIO(p)  BY <2>2, FueraTipos DEF Fuera
    <2>3. CASE PedirInstruccion(p)  BY <2>3, PedirTipos DEF PedirInstruccion
    <2>4. CASE PedirAcceso(p)
      <3>1. PICK op \in {"ESCRITURA", "LECTURA"}, k \in DOMAIN tabla_paginas[p] : Pedir(p, op, k)
        BY <2>4 DEF PedirAcceso
      <3>2. k \in Nat  BY <3>1 DEF Tipos, TypeOK
      <3>3. QED  BY <3>1, <3>2, PedirTipos
    <2>5. CASE PedirAjuste(p)
      <3>1. PICK n \in Tamanios : Pedir(p, "AJUSTAR", n)  BY <2>5 DEF PedirAjuste
      <3>2. n \in Nat  BY <3>1, Constantes
      <3>3. QED  BY <3>1, <3>2, PedirTipos
    <2>6. QED  BY <2>1, <2>2, <2>3, <2>4, <2>5
  <1>7. CASE UNCHANGED vars
    <2>1. UNCHANGED <<procesos_en_memoria, tabla_paginas, marcos_ocupados, contenido, hilo, viva, etapa, io,
                      pedidos, escritas, perdida>>
      BY <1>7 DEF vars, memoria, entorno
    <2>2. K' = K /\ C' = C  BY <2>1 DEF K, C
    <2>3. TypeOK'  BY <2>1 DEF Tipos, TypeOK
    <2>4. QED
      BY <2>1, <2>2, <2>3, SoloCpu DEF Tipos, TypeOK, Control, CpuFiel, AjusteFiel, Faltan, Sobran,
         TamanioJusto, C, memoria
  <1>8. QED  BY <1>1, <1>2, <1>3, <1>4, <1>5, <1>6, <1>7 DEF Next

-----------------------------------------------------------------------------
(* Who has each frame *)

\* What the provers need of a table.
LEMMA TieneTipo ==
    ASSUME Tipos, NEW p \in Pids
    PROVE  /\ DOMAIN tabla_paginas[p] \subseteq Nat
           /\ \A k, f : Tiene(p, k, f) => f \in Marcos /\ k \in Nat
  BY DEF Tipos, TypeOK, Tiene

\* The pages that count are those whose frame has not been given back.
LEMMA VigentesDe ==
    ASSUME Tipos, NEW p \in Pids
    PROVE  Vigentes(p) = {k \in DOMAIN tabla_paginas[p] :
                             ~(K.en \in {"borrar", "limpiar"} /\ K.pid = p /\ k < K.i)}
  <1> DEFINE l == Len(tabla_paginas[p])
  <1>1. DOMAIN tabla_paginas[p] = 1..l /\ l \in Nat /\ K \in Hilos /\ K.i \in Nat
    BY DEF Tipos, TypeOK, K, Hilos
  <1>2. CASE K.en \in {"borrar", "limpiar"} /\ K.pid = p
    <2>1. Vigentes(p) = (K.i - 1) + 1..l  BY <1>2 DEF Vigentes, Devueltos, Pid, K
    <2>2. K.i >= 1  BY <1>2 DEF Tipos, TypeOK, Control, KernelFiel
    <2> HIDE DEF l
    <2>3. QED  BY <1>1, <1>2, <2>1, <2>2
  <1>3. CASE K.pid = p /\ K.en \notin {"borrar", "limpiar"}
    <2>1. Vigentes(p) = 0 + 1..l  BY <1>3 DEF Vigentes, Devueltos, Pid, K
    <2>2. QED  BY <1>1, <1>3, <2>1
  <1>4. CASE K.pid # p  BY <1>4 DEF Vigentes, Pid, K
  <1>5. QED  BY <1>2, <1>3, <1>4

\* So the pages that count are those that Tiene speaks of.
LEMMA VigenteTiene ==
    ASSUME Tipos, NEW p \in Pids, NEW k
    PROVE  k \in Vigentes(p) <=> k \in DOMAIN tabla_paginas[p] /\ Tiene(p, k, tabla_paginas[p][k])
  <1>1. K.i \in Nat  BY DEF Tipos, TypeOK, K, Hilos
  <1>2. \A j \in DOMAIN tabla_paginas[p] : j \in Nat /\ (j < K.i <=> ~(j >= K.i))  BY <1>1, TieneTipo
  <1>3. QED  BY <1>2, VigentesDe DEF Tiene

\* What the invariant is for.
LEMMA Juntos == InvMem => TypeOK /\ MarcosJustos /\ TamanioJusto /\ ContenidoPropio
  <1> SUFFICES ASSUME InvMem PROVE MarcosJustos /\ ContenidoPropio
    BY DEF InvMem, Tipos
  <1>1. Tipos /\ UsoJusto /\ Propio  BY DEF InvMem
  <1>2. MarcosExclusivos
    <2> SUFFICES ASSUME ~perdida, NEW p \in Pids, NEW q \in Pids, NEW j \in Vigentes(p), NEW k \in Vigentes(q),
                        tabla_paginas[p][j] = tabla_paginas[q][k]
                 PROVE  p = q /\ j = k
      BY DEF MarcosExclusivos
    <2> DEFINE f == tabla_paginas[p][j]
    <2>1. Tiene(p, j, f) /\ Tiene(q, k, f)  BY <1>1, VigenteTiene
    <2>2. f \in Marcos /\ j \in Nat /\ k \in Nat  BY <1>1, <2>1, TieneTipo
    <2>3. QED  BY <1>1, <2>1, <2>2 DEF UsoJusto
  <1>3. ASSUME NEW f PROVE f \in EnUso <=> Tenido(f)
    <2>1. f \in EnUso <=> \E p \in Pids : \E k \in Vigentes(p) : f = tabla_paginas[p][k]  BY DEF EnUso
    <2>2. ASSUME NEW p \in Pids, NEW k \in Vigentes(p), f = tabla_paginas[p][k] PROVE Tenido(f)
      <3>1. Tiene(p, k, f)  BY <1>1, <2>2, VigenteTiene
      <3>2. k \in Nat  BY <1>1, <3>1, TieneTipo
      <3>3. QED  BY <3>1, <3>2 DEF Tenido
    <2>3. ASSUME NEW p \in Pids, NEW k \in Nat, Tiene(p, k, f)
          PROVE  \E i \in Vigentes(p) : f = tabla_paginas[p][i]
      <3>1. k \in DOMAIN tabla_paginas[p] /\ f = tabla_paginas[p][k]  BY <2>3 DEF Tiene
      <3>2. k \in Vigentes(p)  BY <1>1, <2>3, <3>1, VigenteTiene
      <3>3. QED  BY <3>1, <3>2
    <2>4. QED  BY <2>1, <2>2, <2>3 DEF Tenido
  <1>4. BitmapExacto
    <2> SUFFICES ASSUME ~perdida
                 PROVE  marcos_ocupados = EnUso \union (IF C.en = "limpiar" THEN {C.marco} ELSE {})
      BY DEF BitmapExacto, C
    <2>1. C.marco \in Marcos /\ marcos_ocupados \subseteq Marcos  BY <1>1, CpuTipo DEF Tipos, TypeOK
    <2>2. \A f : Tenido(f) => f \in Marcos  BY <1>1, TieneTipo DEF Tenido
    <2>3. \A f \in Marcos : f \in marcos_ocupados <=> Tenido(f) \/ (C.en = "limpiar" /\ C.marco = f)
      BY <1>1 DEF UsoJusto
    <2>4. QED  BY <1>3, <2>1, <2>2, <2>3
  <1>5. ContenidoPropio
    <2> SUFFICES ASSUME ~perdida, NEW p \in Pids, NEW k \in escritas[p], k \in Vigentes(p)
                 PROVE  contenido[tabla_paginas[p][k]] = p
      BY DEF ContenidoPropio
    <2>1. Tiene(p, k, tabla_paginas[p][k])  BY <1>1, VigenteTiene
    <2>2. QED  BY <1>1, <2>1, TieneTipo DEF Propio
  <1>6. QED  BY <1>2, <1>4, <1>5 DEF MarcosJustos

\* bitarray_set_bit and bitarray_clean_bit, when no other thread has written the byte meanwhile.
LEMMA BitEscrito ==
    ASSUME TypeOK, NEW h \in {"kernel", "cpu"}, NEW b, EscribirByte(h, b), ~perdida'
    PROVE  /\ ~perdida
           /\ b = hilo[h].foto \ {hilo[h].marco} => marcos_ocupados' = marcos_ocupados \ {hilo[h].marco}
           /\ b = hilo[h].foto \union {hilo[h].marco} =>
                  marcos_ocupados' = marcos_ocupados \union {hilo[h].marco}
  <1> DEFINE m == hilo[h].marco
             y == Byte(m)
  <1>1. m \in Marcos  BY DEF TypeOK, Hilos
  <1>2. m \in y  BY <1>1 DEF Byte
  <1>3. /\ marcos_ocupados' = (marcos_ocupados \ y) \union b
        /\ perdida' = (perdida \/ marcos_ocupados \intersect y # hilo[h].foto)
    BY DEF EscribirByte
  <1> HIDE DEF y
  <1>4. ~perdida /\ marcos_ocupados \intersect y = hilo[h].foto  BY <1>3
  <1>5. QED  BY <1>2, <1>3, <1>4

\* A step that leaves every page its frame, and the bitmap as it is.
UsoQuieto ==
    /\ UNCHANGED <<marcos_ocupados, perdida>>
    /\ \A p \in Pids, k \in Nat, f \in Marcos : Tiene(p, k, f)' <=> Tiene(p, k, f)

\* Then the frames stay whose they were.
LEMMA UsoIgual ==
    ASSUME Tipos, UsoJusto, UsoQuieto, (C.en = "limpiar")' <=> C.en = "limpiar",
           C.en = "limpiar" => C'.marco = C.marco,
           C'.en \in {"marcar", "grabar"} => C'.marco \notin marcos_ocupados
    PROVE  UsoJusto'
  <1>1. \A f \in Marcos : Tenido(f)' <=> Tenido(f)  BY DEF Tenido, UsoQuieto
  <1>2. C.marco \in Marcos  BY CpuTipo DEF Tipos
  <1>3. QED  BY <1>1, <1>2 DEF UsoJusto, UsoQuieto

\* The writings go to pages of the process they are for.
LEMMA PropioIgual ==
    ASSUME Tipos, Propio, UsoQuieto, UNCHANGED contenido, \A p \in Pids : escritas'[p] \subseteq escritas[p]
    PROVE  Propio'
  <1>1. \A p \in Pids : \A k \in escritas[p] : k \in Nat  BY DEF Tipos, TypeOK
  <1>2. QED  BY <1>1 DEF Propio, UsoQuieto

\* What Tiene says depends on the table and on the kernel's thread alone.
LEMMA TieneIgual ==
    ASSUME UNCHANGED <<tabla_paginas, marcos_ocupados, perdida>>,
           \/ K' = K
           \/ K.en \notin {"borrar", "limpiar"} /\ K'.en \notin {"borrar", "limpiar"}
           \/ K.en \in {"borrar", "limpiar"} /\ K'.en \in {"borrar", "limpiar"} /\ K'.pid = K.pid /\ K'.i = K.i
    PROVE  UsoQuieto
  BY DEF UsoQuieto, Tiene

\* The steps that change neither a table nor the bitmap, nor what is written.
LEMMA QuietosUso ==
    ASSUME InvMem, UsoQuieto, UNCHANGED <<contenido, escritas>>, C' = C
    PROVE  UsoJusto' /\ Propio'
  <1>1. Tipos /\ UsoJusto /\ Propio  BY DEF InvMem
  <1>2. Propio'  BY <1>1, PropioIgual
  <1>3. C.en \in {"marcar", "grabar"} => C.marco \notin marcos_ocupados \/ perdida  BY <1>1 DEF UsoJusto
  <1>4. CASE perdida  BY <1>2, <1>4 DEF UsoJusto, UsoQuieto
  <1>5. CASE ~perdida  BY <1>1, <1>2, <1>3, <1>5, UsoIgual
  <1>6. QED  BY <1>2, <1>4, <1>5

\* The kernel's thread, but for the frames that it gives back.
LEMMA KernelUso ==
    ASSUME InvMem, \/ \E p \in Pids : PedirCreacion(p) \/ PedirFin(p)
                   \/ CrearProceso \/ LiberarMarco \/ SacarProceso
    PROVE  UsoJusto' /\ Propio'
  <1>1. Tipos /\ TypeOK /\ KernelFiel /\ ListaFiel  BY DEF InvMem, Tipos, Control
  <1> SUFFICES UsoQuieto /\ UNCHANGED <<contenido, escritas>> /\ C' = C
    BY QuietosUso
  <1>2. CASE \E p \in Pids : PedirCreacion(p)
    <2>1. PICK p \in Pids : PedirCreacion(p)  BY <1>2
    <2> DEFINE k == [Espera EXCEPT !.en = "crear", !.pid = p]
    <2>2. k.en = "crear"  BY DEF Espera
    <2> HIDE DEF k
    <2>3. K.en = "espera" /\ hilo' = [hilo EXCEPT !["kernel"] = k]
          /\ UNCHANGED <<tabla_paginas, marcos_ocupados, perdida, contenido, escritas>>
      BY <2>1 DEF PedirCreacion, En, memoria, K, k
    <2>4. K'.en = "crear" /\ C' = C  BY <1>1, <2>2, <2>3 DEF TypeOK, K, C
    <2>5. QED  BY <2>3, <2>4, TieneIgual
  <1>3. CASE CrearProceso
    <2>1. K.en = "crear" /\ K.pid \in Pids /\ C' = C /\ K'.en = "espera"
          /\ tabla_paginas' = [tabla_paginas EXCEPT ![K.pid] = <<>>]
          /\ UNCHANGED <<marcos_ocupados, perdida, contenido, escritas>>
      BY <1>1, <1>3 DEF CrearProceso, En, TypeOK, K, C, Espera, KernelFiel, Pid
    <2>2. tabla_paginas[K.pid] = <<>>  BY <1>1, <2>1 DEF KernelFiel, ListaFiel
    <2>3. UNCHANGED tabla_paginas  BY <1>1, <2>1, <2>2 DEF TypeOK
    <2>4. QED  BY <2>1, <2>3, TieneIgual
  <1>4. CASE SacarProceso
    <2>1. K.en = "sacar" /\ C' = C /\ K'.en = "espera"
          /\ UNCHANGED <<tabla_paginas, marcos_ocupados, perdida, contenido, escritas>>
      BY <1>1, <1>4 DEF SacarProceso, En, TypeOK, K, C, Espera
    <2>2. QED  BY <2>1, TieneIgual
  <1>5. CASE LiberarMarco
    <2> DEFINE f == tabla_paginas[K.pid][K.i]
    <2>1. K.en = "borrar" /\ K.pid \in Pids /\ K.i \in 1..Len(tabla_paginas[K.pid]) + 1
          /\ K.i <= Len(tabla_paginas[K.pid]) /\ LeerByte("kernel", f, "limpiar")
          /\ UNCHANGED <<tabla_paginas, marcos_ocupados, perdida, contenido, escritas>>
      BY <1>1, <1>5 DEF LiberarMarco, En, KernelFiel, memoria, K
    <2>2. f \in Marcos
      <3>1. tabla_paginas[K.pid] \in Seq(Marcos)  BY <1>1, <2>1 DEF TypeOK
      <3>2. K.i \in 1..Len(tabla_paginas[K.pid])  BY <2>1, <3>1
      <3>3. QED  BY <3>1, <3>2
    <2> HIDE DEF f
    <2>3. K'.en = "limpiar" /\ K'.i = K.i /\ K'.pid = K.pid /\ C' = C
      <3>1. "limpiar" \in Lugares  BY DEF Lugares
      <3>2. QED  BY <1>1, <2>1, <2>2, <3>1, LeerByteTipo DEF K, C
    <2>4. QED  BY <2>1, <2>3, TieneIgual
  <1>6. CASE \E p \in Pids : PedirFin(p)
    <2>1. PICK p \in Pids : PedirFin(p)  BY <1>6
    <2> DEFINE k == [Espera EXCEPT !.en = "borrar", !.pid = p, !.i = 1]
    <2>2. k.en = "borrar" /\ k.pid = p /\ k.i = 1  BY DEF Espera
    <2> HIDE DEF k
    <2>3. K.en = "espera" /\ hilo' = [hilo EXCEPT !["kernel"] = k]
          /\ UNCHANGED <<tabla_paginas, marcos_ocupados, perdida, contenido, escritas>>
      BY <2>1 DEF PedirFin, En, memoria, K, k
    <2>4. K'.i = 1 /\ C' = C  BY <1>1, <2>2, <2>3 DEF TypeOK, K, C
    <2>5. \A q \in Pids : \A j \in DOMAIN tabla_paginas[q] : j >= 1  BY <1>1 DEF TypeOK
    <2>6. UsoQuieto  BY <2>3, <2>4, <2>5 DEF UsoQuieto, Tiene
    <2>7. QED  BY <2>3, <2>4, <2>6
  <1>7. QED  BY <1>2, <1>3, <1>4, <1>5, <1>6

\* END_PROCESS gives a frame back: the bit is the one of the page that it leaves behind.
LEMMA LimpiarBitDeFinUso == ASSUME InvMem, LimpiarBitDeFin PROVE UsoJusto' /\ Propio'
  <1>1. Tipos /\ TypeOK /\ KernelFiel /\ UsoJusto /\ Propio  BY DEF InvMem, Tipos, Control
  <1>2. K.en = "limpiar" /\ K.pid \in Pids /\ K.i \in 1..Len(tabla_paginas[K.pid]) + 1
        /\ K.i <= Len(tabla_paginas[K.pid]) /\ K.marco = tabla_paginas[K.pid][K.i] /\ K \in Hilos
    BY <1>1 DEF LimpiarBitDeFin, En, TypeOK, KernelFiel, K
  <1>3. EscribirByte("kernel", K.foto \ {K.marco}) /\ UNCHANGED <<tabla_paginas, contenido, escritas>>
        /\ hilo' = [hilo EXCEPT !["kernel"].en = "borrar", !["kernel"].i = @ + 1]
    BY DEF LimpiarBitDeFin, K
  <1> DEFINE n == K.i + 1
             r == [K EXCEPT !.en = "borrar", !.i = n]
  <1>4. K'.en = "borrar" /\ K'.i = n /\ K'.pid = K.pid /\ C' = C
    <2>1. K \in Hilos  BY <1>2
    <2>2. hilo' = [hilo EXCEPT !["kernel"] = r]  BY <1>1, <1>3, <2>1 DEF TypeOK, K, Hilos
    <2> HIDE DEF n
    <2>3. r.en = "borrar" /\ r.i = n /\ r.pid = K.pid  BY <2>1 DEF Hilos
    <2> HIDE DEF r
    <2>4. QED  BY <1>1, <2>2, <2>3 DEF TypeOK, K, C
  <1>5. K.i \in DOMAIN tabla_paginas[K.pid] /\ K.i \in Nat
    <2>1. tabla_paginas[K.pid] \in Seq(Marcos)  BY <1>1, <1>2 DEF TypeOK
    <2>2. K.i \in 1..Len(tabla_paginas[K.pid])  BY <1>2, <2>1
    <2>3. QED  BY <2>1, <2>2
  <1>6. \A p \in Pids, k \in Nat, f \in Marcos :
            Tiene(p, k, f)' <=> Tiene(p, k, f) /\ ~(p = K.pid /\ k = K.i)
    <2>1. \A k \in Nat : k >= n <=> k >= K.i /\ k # K.i  BY <1>5
    <2> HIDE DEF n
    <2>2. QED  BY <1>2, <1>3, <1>4, <2>1 DEF Tiene
  <1>7. Tiene(K.pid, K.i, K.marco)  BY <1>2, <1>5 DEF Tiene
  <1>8. K.marco \in Marcos /\ C.marco \in Marcos  BY <1>1, <1>2, CpuTipo DEF Hilos
  <1> SUFFICES ASSUME ~perdida' PROVE UsoJusto' /\ Propio'
    BY DEF UsoJusto, Propio
  <1>9. ~perdida /\ marcos_ocupados' = marcos_ocupados \ {K.marco}
    <2>1. K = hilo["kernel"]  BY DEF K
    <2>2. QED  BY <1>1, <1>3, <2>1, BitEscrito
  <1>10. \A f \in Marcos : Tenido(f)' <=> Tenido(f) /\ f # K.marco
    <2> TAKE f \in Marcos
    <2>1. f = K.marco => ~Tenido(f)'
      <3> SUFFICES ASSUME f = K.marco, NEW p \in Pids, NEW k \in Nat, Tiene(p, k, f)' PROVE FALSE
        BY DEF Tenido
      <3>1. Tiene(p, k, f) /\ ~(p = K.pid /\ k = K.i)  BY <1>6
      <3>2. QED  BY <1>1, <1>2, <1>5, <1>7, <1>9, <3>1 DEF UsoJusto
    <2>2. f # K.marco => (Tenido(f)' <=> Tenido(f))
      <3>1. f # K.marco => ~Tiene(K.pid, K.i, f)  BY <1>2 DEF Tiene
      <3>2. QED  BY <1>6, <3>1 DEF Tenido
    <2>3. QED  BY <2>1, <2>2
  <1>11. UsoJusto'
    <2>1. \A p, q \in Pids, j, k \in Nat, f \in Marcos : Tiene(p, j, f)' /\ Tiene(q, k, f)' => p = q /\ j = k
      BY <1>1, <1>6, <1>9 DEF UsoJusto
    <2>2. C.en = "limpiar" => C.marco # K.marco
      <3>1. C.en = "limpiar" => ~Tenido(C.marco)  BY <1>1, <1>9 DEF UsoJusto
      <3>2. Tenido(K.marco)  BY <1>2, <1>5, <1>7 DEF Tenido
      <3>3. QED  BY <3>1, <3>2
    <2>3. \A f \in Marcos : f \in marcos_ocupados' <=> Tenido(f)' \/ (C'.en = "limpiar" /\ C'.marco = f)
      BY <1>1, <1>4, <1>9, <1>10, <2>2 DEF UsoJusto
    <2>4. C.en \in {"marcar", "grabar"} => C.marco \notin marcos_ocupados  BY <1>1, <1>9 DEF UsoJusto
    <2>5. C.en = "limpiar" => ~Tenido(C.marco)  BY <1>1, <1>9 DEF UsoJusto
    <2>6. /\ C'.en \in {"marcar", "grabar"} => C'.marco \notin marcos_ocupados'
          /\ C'.en = "limpiar" => ~Tenido(C.marco)'
      <3>1. PICK m \in Marcos : m = C.marco  BY <1>8
      <3>2. C'.marco = m /\ (C.en = "limpiar" => ~Tenido(m)')  BY <1>4, <1>10, <2>5, <3>1
      <3>3. QED  BY <1>4, <1>9, <2>4, <3>1, <3>2
    <2>7. QED  BY <1>4, <2>1, <2>3, <2>6 DEF UsoJusto
  <1>12. Propio'
    <2>1. \A p \in Pids : \A k \in escritas[p] : k \in Nat  BY <1>1 DEF TypeOK
    <2>2. QED  BY <1>1, <1>3, <1>6, <1>9, <2>1 DEF Propio
  <1>13. QED  BY <1>11, <1>12

\* The table that goes had already given its frames back.
LEMMA DestruirProcesoUso == ASSUME InvMem, DestruirProceso PROVE UsoJusto' /\ Propio'
  <1>1. Tipos /\ TypeOK /\ KernelFiel /\ UsoJusto /\ Propio  BY DEF InvMem, Tipos, Control
  <1>2. K.en = "borrar" /\ K.pid \in Pids /\ K.i > Len(tabla_paginas[K.pid])
    BY <1>1 DEF DestruirProceso, En, KernelFiel, K
  <1>3. PICK p \in Pids : p = K.pid  BY <1>2
  <1>4. /\ tabla_paginas' = [tabla_paginas EXCEPT ![p] = <<>>]
        /\ escritas' = [escritas EXCEPT ![p] = {}] /\ Pasar("kernel", "sacar")
        /\ UNCHANGED <<marcos_ocupados, contenido, perdida>>
    BY <1>3 DEF DestruirProceso, K
  <1>5. K'.en = "sacar" /\ C' = C
    <2>1. "sacar" \in Lugares  BY DEF Lugares
    <2>2. QED  BY <1>1, <1>4, <2>1, PasarTipo DEF K, C
  <1>6. tabla_paginas'[p] = <<>> /\ \A q \in Pids \ {p} : tabla_paginas'[q] = tabla_paginas[q]
    BY <1>1, <1>4 DEF TypeOK
  <1>7. \A k : ~Tiene(p, k, tabla_paginas[p][k]) /\ \A f : ~Tiene(p, k, f)
    <2>1. DOMAIN tabla_paginas[p] = 1..Len(tabla_paginas[p]) /\ Len(tabla_paginas[p]) \in Nat /\ K.i \in Nat
      BY <1>1 DEF TypeOK, K, Hilos
    <2>2. \A k \in 1..Len(tabla_paginas[p]) : ~(k >= K.i)  BY <1>2, <1>3, <2>1
    <2>3. QED  BY <1>2, <1>3, <2>1, <2>2 DEF Tiene
  <1>8. \A k, f : ~Tiene(p, k, f)'  BY <1>6 DEF Tiene
  <1>9. \A q \in Pids \ {p} : \A k, f : Tiene(q, k, f)' <=> Tiene(q, k, f)
    BY <1>2, <1>3, <1>5, <1>6 DEF Tiene
  <1>10. UsoQuieto /\ \A q \in Pids : escritas'[q] \subseteq escritas[q]
    <2>1. \A q \in Pids, k \in Nat, f \in Marcos : Tiene(q, k, f)' <=> Tiene(q, k, f)
      <3> TAKE q \in Pids, k \in Nat, f \in Marcos
      <3>1. CASE q = p  BY <1>7, <1>8, <3>1
      <3>2. CASE q # p  BY <1>9, <3>2
      <3>3. QED  BY <3>1, <3>2
    <2>2. \A q \in Pids : escritas'[q] \subseteq escritas[q]  BY <1>1, <1>4 DEF TypeOK
    <2>3. QED  BY <1>4, <2>1, <2>2 DEF UsoQuieto
  <1>11. Propio'  BY <1>1, <1>4, <1>10, PropioIgual
  <1>12. CASE perdida  BY <1>4, <1>11, <1>12 DEF UsoJusto
  <1>13. CASE ~perdida
    <2>1. C.en \in {"marcar", "grabar"} => C.marco \notin marcos_ocupados  BY <1>1, <1>13 DEF UsoJusto
    <2>2. QED  BY <1>1, <1>5, <1>10, <1>11, <2>1, UsoIgual
  <1>14. QED  BY <1>12, <1>13

\* An interface writes: pages of its process while it waits; what it writes for a finalized
\* one is taken off the account of the page's owner.
LEMMA EscribirIOUso ==
    ASSUME InvMem, NEW p \in Pids, NEW f \in Marcos, EscribirIO(p, f)
    PROVE  UsoJusto' /\ Propio'
  <1>1. Tipos /\ TypeOK /\ UsoJusto /\ Propio /\ IOFiel  BY DEF InvMem, Tipos, Control
  <1>2. /\ contenido' = [contenido EXCEPT ![f] = p] /\ f \in io[p]
        /\ UNCHANGED <<tabla_paginas, marcos_ocupados, hilo, perdida>>
        /\ escritas' = IF etapa[p] = "io" THEN escritas
                       ELSE [q \in Pids |-> {k \in escritas[q] : tabla_paginas[q][k] # f}]
    BY DEF EscribirIO
  <1>3. K' = K /\ C' = C /\ UsoQuieto  BY <1>2, TieneIgual DEF K, C
  <1>4. UsoJusto'
    <2>1. CASE perdida  BY <1>2, <2>1 DEF UsoJusto
    <2>2. CASE ~perdida
      <3>1. C.en \in {"marcar", "grabar"} => C.marco \notin marcos_ocupados  BY <1>1, <2>2 DEF UsoJusto
      <3>2. QED  BY <1>1, <1>3, <3>1, UsoIgual
    <2>3. QED  BY <2>1, <2>2
  <1>5. Propio'
    <2> SUFFICES ASSUME ~perdida, NEW q \in Pids, NEW k \in escritas'[q], NEW g \in Marcos, Tiene(q, k, g)
                 PROVE  contenido'[g] = q
      <3>1. \A q \in Pids : \A k \in escritas'[q] : k \in Nat  BY <1>1, <1>2 DEF TypeOK
      <3>2. QED  BY <1>2, <1>3, <3>1 DEF Propio, UsoQuieto
    <2>1. k \in escritas[q] /\ k \in Nat  BY <1>1, <1>2 DEF TypeOK
    <2>2. contenido[g] = q  BY <1>1, <2>1 DEF Propio
    <2>3. CASE g # f  BY <1>1, <1>2, <2>2, <2>3 DEF TypeOK
    <2>4. CASE g = f /\ etapa[p] # "io"
      <3>1. tabla_paginas[q][k] # f  BY <1>2, <2>4
      <3>2. QED  BY <2>4, <3>1 DEF Tiene
    <2>5. CASE g = f /\ etapa[p] = "io"
      <3>1. f \in ToSet(tabla_paginas[p])  BY <1>1, <1>2, <2>5 DEF IOFiel
      <3>2. PICK j \in DOMAIN tabla_paginas[p] : tabla_paginas[p][j] = f  BY <3>1 DEF ToSet
      <3>3. ~(K.en \in {"borrar", "limpiar"} /\ K.pid = p)
        BY <2>5 DEF InvMem, Tipos, Control, KernelFiel
      <3>4. Tiene(p, j, f) /\ j \in Nat  BY <1>1, <3>2, <3>3, TieneTipo DEF Tiene
      <3>5. q = p  BY <1>1, <2>1, <2>5, <3>4 DEF UsoJusto
      <3>6. QED  BY <1>1, <1>2, <2>5, <3>5 DEF TypeOK
    <2>6. QED  BY <2>3, <2>4, <2>5
  <1>6. QED  BY <1>4, <1>5

\* The CPU's thread, but for the pages that RESIZE adds and takes off and for what it writes.
LEMMA CpuUso ==
    ASSUME InvMem, \/ BuscarSiguiente \/ NoEncontrar \/ AtenderInstruccion \/ Leer \/ Responder
                   \/ AtenderAcceso \/ MarcarMarco \/ TerminarDeQuitar
                   \/ Ajustar \/ RevisarMarcos \/ TomarMarco
                   \/ \E p \in Pids : PedirInstruccion(p) \/ PedirAcceso(p) \/ PedirAjuste(p)
    PROVE  UsoJusto' /\ Propio'
  <1>1. Tipos /\ TypeOK /\ UsoJusto /\ Propio  BY DEF InvMem, Tipos
  <1>2. hilo \in [{"kernel", "cpu"} -> Hilos] /\ hilo["cpu"] = C /\ C \in Hilos /\ C.marco \in Marcos
        /\ C.i \in Nat /\ C.resta \in Nat
    BY <1>1, CpuTipo
  <1>3. UNCHANGED <<tabla_paginas, marcos_ocupados, contenido, escritas, perdida>>
    BY DEF BuscarSiguiente, NoEncontrar, AtenderInstruccion, Leer, Responder, AtenderAcceso, MarcarMarco,
           TerminarDeQuitar, Ajustar, RevisarMarcos, TomarMarco, Explorar, PedirInstruccion, PedirAcceso,
           PedirAjuste, Pedir, memoria
  <1> SUFFICES ASSUME ~perdida
               PROVE  /\ K' = K /\ C.en # "limpiar" /\ C'.en # "limpiar"
                      /\ C'.en \in {"marcar", "grabar"} => C'.marco \notin marcos_ocupados
    <2>1. CASE perdida  BY <1>3, <2>1 DEF UsoJusto, Propio
    <2>2. CASE ~perdida
      <3>1. UsoQuieto  BY <1>3, <2>2, TieneIgual
      <3>2. UsoJusto'  BY <1>1, <2>2, <3>1, UsoIgual
      <3>3. Propio'  BY <1>1, <1>3, <3>1, PropioIgual
      <3>4. QED  BY <3>2, <3>3
    <2>3. QED  BY <2>1, <2>2
  <1>4. ASSUME NEW l \in Lugares \ {"limpiar", "marcar", "grabar"}, C.en # "limpiar", Pasar("cpu", l)
        PROVE  /\ K' = K /\ C.en # "limpiar" /\ C'.en # "limpiar" /\ C'.en \notin {"marcar", "grabar"}
    BY <1>1, <1>4, PasarCpu
  <1>5. CASE BuscarSiguiente \/ NoEncontrar \/ AtenderInstruccion \/ Leer \/ TerminarDeQuitar
    <2>1. C.en # "limpiar"
          /\ (\/ Avanzar("cpu") /\ C.en = "buscar"
              \/ \E l \in {"atender", "nulo", "responder"} : Pasar("cpu", l))
      BY <1>5 DEF BuscarSiguiente, NoEncontrar, AtenderInstruccion, Leer, TerminarDeQuitar, En, C
    <2>2. {"atender", "nulo", "responder"} \subseteq Lugares \ {"limpiar", "marcar", "grabar"}  BY DEF Lugares
    <2>3. QED  BY <1>1, <1>4, <2>1, <2>2, AvanzarCpu
  <1>6. CASE Responder \/ (RevisarMarcos /\ QuedaSinMemoria)
    <2>1. C.en # "limpiar" /\ hilo' = [hilo EXCEPT !["cpu"] = Espera]
      BY <1>6 DEF Responder, RevisarMarcos, Explorar, QuedaSinMemoria, En, C
    <2>2. K' = K /\ C' = Espera  BY <1>2, <2>1 DEF K, C
    <2>3. QED  BY <2>1, <2>2 DEF Espera
  <1>7. ASSUME NEW l \in Lugares \ {"limpiar"}, NEW i \in Nat, NEW n \in Nat, NEW f \in Marcos, Mueve(l, i, n, f),
               l \in {"marcar", "grabar"} => f \notin marcos_ocupados, C.en # "limpiar"
        PROVE  /\ K' = K /\ C.en # "limpiar" /\ C'.en # "limpiar"
               /\ C'.en \in {"marcar", "grabar"} => C'.marco \notin marcos_ocupados
    <2>1. K' = K /\ C'.en = l /\ C'.marco = f  BY <1>1, <1>7, CpuMueve
    <2>2. QED  BY <1>7, <2>1
  <1>8. CASE MarcarMarco
    <2>1. C.en = "marcar" /\ LeerByte("cpu", C.marco, "grabar")  BY <1>8 DEF MarcarMarco, En, C
    <2>2. K' = K /\ C'.en = "grabar" /\ C'.marco = C.marco
      <3>1. "grabar" \in Lugares  BY DEF Lugares
      <3>2. QED  BY <1>1, <1>2, <2>1, <3>1, LeerByteTipo DEF K, C
    <2>3. C.marco \notin marcos_ocupados  BY <1>1, <2>1 DEF UsoJusto
    <2>4. QED  BY <2>1, <2>2, <2>3
  <1>9. CASE \E p \in Pids : PedirInstruccion(p) \/ PedirAcceso(p) \/ PedirAjuste(p)
    <2>1. PICK p, op, n : Pedir(p, op, n)
      BY <1>9 DEF PedirInstruccion, PedirAcceso, PedirAjuste
    <2> DEFINE c == [Espera EXCEPT !.en = "buscar", !.op = op, !.pid = p, !.arg = n, !.i = 1]
    <2>2. c.en = "buscar"  BY DEF Espera
    <2> HIDE DEF c
    <2>3. C.en = "espera" /\ hilo' = [hilo EXCEPT !["cpu"] = c]  BY <2>1 DEF Pedir, En, C, c
    <2>4. K' = K /\ C' = c  BY <1>2, <2>3 DEF K, C
    <2>5. QED  BY <2>2, <2>3, <2>4
  <1>10. CASE AtenderAcceso
    <2>1. Tipos /\ CpuFiel  BY DEF InvMem, Tipos, Control
    <2> DEFINE f == tabla_paginas[C.pid][C.arg]
    <2>2. C.en = "atender" /\ C.op \in {"ESCRITURA", "LECTURA"} /\ C.pid \in Pids
          /\ hilo' = [hilo EXCEPT !["cpu"].en = "acceder", !["cpu"].marco = f]
      BY <1>10, <2>1 DEF AtenderAcceso, En, C, CpuFiel
    <2>3. f \in Marcos  BY <1>1, <2>1, <2>2 DEF CpuFiel, TypeOK
    <2> HIDE DEF f
    <2>4. Mueve("acceder", C.i, C.resta, f)  BY <1>2, <2>2 DEF Hilos, Mueve
    <2>5. "acceder" \in Lugares \ {"limpiar"}  BY DEF Lugares
    <2>6. QED  BY <1>2, <1>7, <2>2, <2>3, <2>4, <2>5
  <1>11. CASE Ajustar
    <2>1. C.en = "atender" /\ \E l \in {"revisar", "quitar", "responder"} : \E n :
              hilo' = [hilo EXCEPT !["cpu"].en = l, !["cpu"].i = 0, !["cpu"].resta = n]
      BY <1>11 DEF Ajustar, En, C
    <2>2. PICK l \in {"revisar", "quitar", "responder"} : \E n :
              hilo' = [hilo EXCEPT !["cpu"].en = l, !["cpu"].i = 0, !["cpu"].resta = n]
      BY <2>1
    <2>3. K' = K /\ C'.en = l  BY <1>2, <2>2 DEF K, C, Hilos
    <2>4. QED  BY <2>1, <2>3
  <1>12. CASE RevisarMarcos \/ TomarMarco
    <2>1. C.en \in {"revisar", "explorar"}  BY <1>12 DEF RevisarMarcos, TomarMarco, Explorar, En, C
    <2>2. \/ RevisarMarcos /\ QuedaSinMemoria
          \/ Avanzar("cpu") \/ UNCHANGED hilo
          \/ hilo' = [hilo EXCEPT !["cpu"].en = "explorar", !["cpu"].i = 0]
          \/ /\ C.i \in Marcos \ marcos_ocupados
             /\ hilo' = [hilo EXCEPT !["cpu"].en = "marcar", !["cpu"].marco = hilo["cpu"].i]
      BY <1>12 DEF RevisarMarcos, TomarMarco, Explorar, C
    <2>3. CASE Avanzar("cpu")  BY <1>1, <2>1, <2>3, AvanzarCpu
    <2>4. CASE UNCHANGED hilo  BY <2>1, <2>4 DEF K, C
    <2>5. CASE hilo' = [hilo EXCEPT !["cpu"].en = "explorar", !["cpu"].i = 0]
      <3>1. Mueve("explorar", 0, C.resta, C.marco)  BY <1>2, <2>5 DEF Hilos, Mueve
      <3>2. "explorar" \in Lugares \ {"limpiar"}  BY DEF Lugares
      <3>3. QED  BY <1>2, <1>7, <2>1, <3>1, <3>2
    <2>6. CASE /\ C.i \in Marcos \ marcos_ocupados
               /\ hilo' = [hilo EXCEPT !["cpu"].en = "marcar", !["cpu"].marco = hilo["cpu"].i]
      <3>1. Mueve("marcar", C.i, C.resta, C.i)  BY <1>2, <2>6 DEF Hilos, Mueve
      <3>2. "marcar" \in Lugares \ {"limpiar"}  BY DEF Lugares
      <3>3. QED  BY <1>2, <1>7, <2>1, <2>6, <3>1, <3>2
    <2>7. QED  BY <1>6, <2>2, <2>3, <2>4, <2>5, <2>6
  <1>13. QED  BY <1>5, <1>6, <1>8, <1>9, <1>10, <1>11, <1>12

\* The CPU writes in the frame of the page that it translated.
LEMMA EscribirUso == ASSUME InvMem, Escribir PROVE UsoJusto' /\ Propio'
  <1>1. Tipos /\ TypeOK /\ CpuFiel /\ KernelFiel /\ UsoJusto /\ Propio  BY DEF InvMem, Tipos, Control
  <1>2. C.en = "acceder" /\ C.op = "ESCRITURA" /\ C.pid \in Pids /\ etapa[C.pid] = "exec"
        /\ C.arg \in DOMAIN tabla_paginas[C.pid] /\ C.marco = tabla_paginas[C.pid][C.arg]
        /\ C.arg \in Nat /\ C.marco \in Marcos
    BY <1>1, CpuTipo DEF Escribir, En, CpuFiel, C
  <1>3. PICK p \in Pids : p = C.pid  BY <1>2
  <1>4. PICK f \in Marcos : f = C.marco  BY <1>2
  <1>5. PICK i \in Nat : i = C.arg  BY <1>2
  <1>6. /\ contenido' = [contenido EXCEPT ![f] = p]
        /\ escritas' = [escritas EXCEPT ![p] = @ \union {i}] /\ Pasar("cpu", "responder")
        /\ UNCHANGED <<tabla_paginas, marcos_ocupados, perdida>>
    BY <1>3, <1>4, <1>5 DEF Escribir, C
  <1>7. K' = K /\ C'.en = "responder"
    <2>1. "responder" \in Lugares  BY DEF Lugares
    <2>2. QED  BY <1>1, <1>6, <2>1, PasarCpu
  <1>8. UsoQuieto  BY <1>6, <1>7, TieneIgual
  <1>9. UsoJusto'  BY <1>1, <1>2, <1>7, <1>8, UsoIgual
  <1>10. Tiene(p, i, f)
    <2>1. ~(K.en \in {"borrar", "limpiar"} /\ K.pid = p)  BY <1>1, <1>2, <1>3 DEF KernelFiel
    <2>2. QED  BY <1>2, <1>3, <1>4, <1>5, <2>1 DEF Tiene
  <1>11. Propio'
    <2> SUFFICES ASSUME ~perdida, NEW q \in Pids, NEW k \in escritas'[q], NEW g \in Marcos, Tiene(q, k, g)
                 PROVE  contenido'[g] = q
      <3>1. \A q \in Pids : \A k \in escritas'[q] : k \in Nat  BY <1>1, <1>6 DEF TypeOK
      <3>2. QED  BY <1>6, <1>8, <3>1 DEF Propio, UsoQuieto
    <2>1. k \in Nat  BY <1>1, TieneTipo
    <2>2. CASE g = f
      <3>1. q = p  BY <1>1, <1>10, <2>1, <2>2 DEF UsoJusto
      <3>2. QED  BY <1>1, <1>6, <2>2, <3>1 DEF TypeOK
    <2>3. CASE g # f
      <3>1. contenido'[g] = contenido[g]  BY <1>1, <1>6, <2>3 DEF TypeOK
      <3>2. ~(q = p /\ k = i)  BY <1>10, <2>3 DEF Tiene
      <3>3. k \in escritas[q]  BY <1>1, <1>6, <3>2 DEF TypeOK
      <3>4. QED  BY <1>1, <3>1, <3>3 DEF Propio
    <2>4. QED  BY <2>2, <2>3
  <1>12. QED  BY <1>9, <1>11

\* RESIZE adds a page: its frame was in no other.
LEMMA AgregarPaginaUso == ASSUME InvMem, AgregarPagina PROVE UsoJusto' /\ Propio'
  <1>1. Tipos /\ TypeOK /\ CpuFiel /\ KernelFiel /\ UsoJusto /\ Propio  BY DEF InvMem, Tipos, Control
  <1>2. hilo \in [{"kernel", "cpu"} -> Hilos] /\ hilo["cpu"] = C /\ C \in Hilos /\ C.marco \in Marcos
    BY <1>1, CpuTipo
  <1>3. C.en = "grabar" /\ C.pid \in Pids /\ etapa[C.pid] = "exec"
    BY <1>1 DEF AgregarPagina, En, CpuFiel, C
  <1>4. PICK p \in Pids : p = C.pid  BY <1>3
  <1>5. PICK m \in Marcos : m = C.marco  BY <1>2
  <1> DEFINE s == tabla_paginas[p]
             t == Append(s, m)
             l == IF C.resta = 1 THEN "responder" ELSE "revisar"
  <1>6. /\ EscribirByte("cpu", C.foto \union {m}) /\ tabla_paginas' = [tabla_paginas EXCEPT ![p] = t]
        /\ hilo' = [hilo EXCEPT !["cpu"].en = l, !["cpu"].i = 0, !["cpu"].resta = @ - 1]
        /\ UNCHANGED <<contenido, escritas>>
    BY <1>4, <1>5 DEF AgregarPagina, C
  <1>7. K' = K /\ C'.en \in {"responder", "revisar"}
    <2>1. l \in {"responder", "revisar"}  OBVIOUS
    <2> HIDE DEF l
    <2>2. QED  BY <1>2, <1>6, <2>1 DEF K, C, Hilos
  <1>8. tabla_paginas'[p] = t /\ \A q \in Pids \ {p} : tabla_paginas'[q] = tabla_paginas[q]
    BY <1>1, <1>6 DEF TypeOK
  <1>. PICK n \in Nat : n = Len(s) + 1  BY <1>1 DEF TypeOK
  <1>9. n \notin DOMAIN s /\ DOMAIN t = DOMAIN s \union {n} /\ t[n] = m
        /\ \A k \in DOMAIN s : t[k] = s[k]
    BY <1>1 DEF TypeOK
  <1>10. ~(K.en \in {"borrar", "limpiar"} /\ K.pid = p)  BY <1>1, <1>3, <1>4 DEF KernelFiel
  <1>11. \A k, f : Tiene(p, k, f)' <=> Tiene(p, k, f) \/ (k = n /\ f = m)
    <2> HIDE DEF s, t
    <2>1. \A k, f : Tiene(p, k, f)' <=> k \in DOMAIN t /\ t[k] = f  BY <1>7, <1>8, <1>10 DEF Tiene
    <2>2. \A k, f : Tiene(p, k, f) <=> k \in DOMAIN s /\ s[k] = f  BY <1>10 DEF Tiene, s
    <2>3. QED  BY <1>9, <2>1, <2>2
  <1>12. \A q \in Pids \ {p} : \A k, f : Tiene(q, k, f)' <=> Tiene(q, k, f)
    BY <1>7, <1>8 DEF Tiene
  <1>13. ~Tiene(p, n, m) /\ \A f : ~Tiene(p, n, f)  BY <1>9 DEF Tiene
  <1> HIDE DEF s, t, l
  <1> SUFFICES ASSUME ~perdida' PROVE UsoJusto' /\ Propio'
    BY DEF UsoJusto, Propio
  <1>14. ~perdida /\ marcos_ocupados' = marcos_ocupados \union {m}
    BY <1>1, <1>2, <1>5, <1>6, BitEscrito
  <1>15. m \notin marcos_ocupados  BY <1>1, <1>3, <1>5, <1>14 DEF UsoJusto
  <1>16. ~Tenido(m)  BY <1>1, <1>14, <1>15 DEF UsoJusto
  <1>17. \A f \in Marcos : Tenido(f)' <=> Tenido(f) \/ f = m
    <2> TAKE f \in Marcos
    <2>1. ASSUME NEW q \in Pids, NEW k \in Nat, Tiene(q, k, f)' PROVE Tenido(f) \/ f = m
      BY <1>11, <1>12, <2>1 DEF Tenido
    <2>2. ASSUME NEW q \in Pids, NEW k \in Nat, Tiene(q, k, f) PROVE Tiene(q, k, f)'
      BY <1>11, <1>12, <2>2
    <2>3. Tiene(p, n, m)'  BY <1>11
    <2>4. QED  BY <1>9, <2>1, <2>2, <2>3 DEF Tenido
  <1>18. UsoJusto'
    <2>1. ASSUME NEW q \in Pids, NEW r \in Pids, NEW j \in Nat, NEW k \in Nat, NEW f \in Marcos,
                 Tiene(q, j, f)', Tiene(r, k, f)'
          PROVE  q = r /\ j = k
      <3>1. CASE f = m
        <4>1. ~Tiene(q, j, f) /\ ~Tiene(r, k, f)  BY <1>16, <3>1 DEF Tenido
        <4>2. QED  BY <1>11, <1>12, <2>1, <4>1
      <3>2. CASE f # m
        <4>1. Tiene(q, j, f) /\ Tiene(r, k, f)  BY <1>11, <1>12, <2>1, <3>2
        <4>2. QED  BY <1>1, <1>14, <4>1 DEF UsoJusto
      <3>3. QED  BY <3>1, <3>2
    <2>2. \A f \in Marcos : f \in marcos_ocupados <=> Tenido(f)  BY <1>1, <1>3, <1>14 DEF UsoJusto
    <2>3. \A f \in Marcos : f \in marcos_ocupados' <=> Tenido(f)'  BY <1>14, <1>17, <2>2
    <2>4. QED  BY <1>7, <2>1, <2>3 DEF UsoJusto
  <1>19. Propio'
    <2> SUFFICES ASSUME NEW q \in Pids, NEW k \in escritas[q], NEW f \in Marcos, Tiene(q, k, f)'
                 PROVE  contenido[f] = q
      BY <1>6 DEF Propio
    <2>1. k \in DOMAIN tabla_paginas[q]  BY <1>1 DEF TypeOK
    <2>2. ~(q = p /\ k = n)  BY <1>9, <2>1 DEF s
    <2>3. Tiene(q, k, f)  BY <1>11, <1>12, <2>2
    <2>4. QED  BY <1>1, <1>14, <2>3 DEF Propio
  <1>20. QED  BY <1>18, <1>19

\* RESIZE takes a page off: its frame, still set in the bitmap, is in no other.
LEMMA QuitarPaginaUso == ASSUME InvMem, QuitarPagina PROVE UsoJusto' /\ Propio'
  <1>1. Tipos /\ TypeOK /\ CpuFiel /\ AjusteFiel /\ KernelFiel /\ UsoJusto /\ Propio
    BY DEF InvMem, Tipos, Control
  <1>2. C.en = "quitar" /\ C.resta > 0 /\ C.pid \in Pids /\ etapa[C.pid] = "exec" /\ Sobran(C.pid, C.arg)
        /\ C.resta \in Nat /\ C.arg \in Nat
    BY <1>1, CpuTipo DEF QuitarPagina, En, CpuFiel, AjusteFiel, C
  <1>3. PICK p \in Pids : p = C.pid  BY <1>2
  <1>4. PICK s \in Seq(Marcos) : s = tabla_paginas[p]  BY <1>1 DEF TypeOK
  <1>5. PICK n \in Nat : n = Len(s)  BY <1>4
  <1>6. n > 0
    <2>1. Techo(C.arg, TamPagina) \in Nat  BY <1>2, DefinicionTecho
    <2>2. n = Techo(C.arg, TamPagina) + C.resta  BY <1>2, <1>3, <1>4, <1>5 DEF Sobran
    <2>3. QED  BY <1>2, <2>1, <2>2
  <1>7. PICK t : t = Front(s)  OBVIOUS
  <1>8. DOMAIN t = DOMAIN s \ {n} /\ n \in DOMAIN s /\ \A k \in DOMAIN t : t[k] = s[k]
    <2>1. Len(s) > 0 /\ n = Len(s) /\ t = Front(s)  BY <1>5, <1>6, <1>7
    <2>2. DOMAIN t = DOMAIN s \ {n} /\ \A k \in DOMAIN t : t[k] = s[k]  BY <2>1, SinUltimo
    <2>3. n \in DOMAIN s  BY <1>4, <1>5, <1>6
    <2>4. QED  BY <2>2, <2>3
  <1>9. PICK m \in Marcos : m = s[n]  BY <1>4, <1>5, <1>6
  <1>10. /\ tabla_paginas' = [tabla_paginas EXCEPT ![p] = t]
         /\ escritas' = [escritas EXCEPT ![p] = @ \ {n}] /\ LeerByte("cpu", m, "limpiar")
         /\ UNCHANGED <<marcos_ocupados, contenido, perdida>>
    BY <1>3, <1>4, <1>5, <1>7, <1>9 DEF QuitarPagina, Last, C
  <1>11. K' = K /\ C'.en = "limpiar" /\ C'.marco = m
    <2>1. "limpiar" \in Lugares  BY DEF Lugares
    <2>2. QED  BY <1>1, <1>10, <2>1, LeerByteTipo DEF K, C
  <1>12. tabla_paginas'[p] = t /\ \A q \in Pids \ {p} : tabla_paginas'[q] = tabla_paginas[q]
    BY <1>1, <1>10 DEF TypeOK
  <1>13. ~(K.en \in {"borrar", "limpiar"} /\ K.pid = p)  BY <1>1, <1>2, <1>3 DEF KernelFiel
  <1>14. \A k, f : Tiene(p, k, f)' <=> Tiene(p, k, f) /\ k # n
    <2>1. \A k, f : Tiene(p, k, f)' <=> k \in DOMAIN t /\ t[k] = f  BY <1>11, <1>12, <1>13 DEF Tiene
    <2>2. \A k, f : Tiene(p, k, f) <=> k \in DOMAIN s /\ s[k] = f  BY <1>4, <1>13 DEF Tiene
    <2>3. QED  BY <1>8, <2>1, <2>2
  <1>15. \A q \in Pids \ {p} : \A k, f : Tiene(q, k, f)' <=> Tiene(q, k, f)
    BY <1>11, <1>12 DEF Tiene
  <1>16. Tiene(p, n, m) /\ \A f : Tiene(p, n, f) => f = m  BY <1>4, <1>8, <1>9, <1>13 DEF Tiene
  <1> SUFFICES ASSUME ~perdida PROVE UsoJusto' /\ Propio'
    BY <1>10 DEF UsoJusto, Propio
  <1>17. \A f \in Marcos : Tenido(f)' <=> Tenido(f) /\ f # m
    <2> TAKE f \in Marcos
    <2>1. ASSUME NEW q \in Pids, NEW k \in Nat, Tiene(q, k, f)' PROVE Tenido(f) /\ f # m
      <3>1. Tiene(q, k, f) /\ ~(q = p /\ k = n)  BY <1>14, <1>15, <2>1
      <3>2. QED  BY <1>1, <1>16, <3>1 DEF Tenido, UsoJusto
    <2>2. ASSUME NEW q \in Pids, NEW k \in Nat, Tiene(q, k, f), f # m PROVE Tiene(q, k, f)'
      BY <1>14, <1>15, <1>16, <2>2
    <2>3. QED  BY <2>1, <2>2 DEF Tenido
  <1>18. UsoJusto'
    <2>1. ASSUME NEW q \in Pids, NEW r \in Pids, NEW j \in Nat, NEW k \in Nat, NEW f \in Marcos,
                 Tiene(q, j, f)', Tiene(r, k, f)'
          PROVE  q = r /\ j = k
      <3>1. Tiene(q, j, f) /\ Tiene(r, k, f)  BY <1>14, <1>15, <2>1
      <3>2. QED  BY <1>1, <3>1 DEF UsoJusto
    <2>2. \A f \in Marcos : f \in marcos_ocupados <=> Tenido(f)  BY <1>1, <1>2 DEF UsoJusto
    <2>3. Tenido(m)  BY <1>16 DEF Tenido
    <2>4. \A f \in Marcos : f \in marcos_ocupados' <=> Tenido(f)' \/ m = f
      BY <1>10, <1>17, <2>2, <2>3
    <2>5. ~Tenido(C.marco)'
      <3>1. ~Tenido(m)'  BY <1>17
      <3>2. QED  BY <1>11, <3>1
    <2>6. QED  BY <1>11, <2>1, <2>4, <2>5 DEF UsoJusto
  <1>19. Propio'
    <2> SUFFICES ASSUME NEW q \in Pids, NEW k \in escritas'[q], NEW f \in Marcos, Tiene(q, k, f)'
                 PROVE  contenido[f] = q
      BY <1>10 DEF Propio
    <2>1. k \in escritas[q]  BY <1>1, <1>10 DEF TypeOK
    <2>2. Tiene(q, k, f)  BY <1>14, <1>15
    <2>3. QED  BY <1>1, <2>1, <2>2 DEF Propio
  <1>20. QED  BY <1>18, <1>19

\* The bit of a frame that no page has is cleared.
LEMMA LimpiarBitDePaginaUso == ASSUME InvMem, LimpiarBitDePagina PROVE UsoJusto' /\ Propio'
  <1>1. Tipos /\ TypeOK /\ UsoJusto /\ Propio  BY DEF InvMem, Tipos
  <1>2. hilo \in [{"kernel", "cpu"} -> Hilos] /\ hilo["cpu"] = C /\ C \in Hilos /\ C.marco \in Marcos
    BY <1>1, CpuTipo
  <1>3. C.en = "limpiar"  BY DEF LimpiarBitDePagina, En, C
  <1>4. PICK m \in Marcos : m = C.marco  BY <1>2
  <1>5. /\ EscribirByte("cpu", C.foto \ {m})
        /\ hilo' = [hilo EXCEPT !["cpu"].en = "quitar", !["cpu"].resta = @ - 1]
        /\ UNCHANGED <<tabla_paginas, contenido, escritas>>
    BY <1>4 DEF LimpiarBitDePagina, C
  <1>6. K' = K /\ C'.en = "quitar"  BY <1>2, <1>5 DEF K, C, Hilos
  <1>7. \A q, k, f : Tiene(q, k, f)' <=> Tiene(q, k, f)  BY <1>5, <1>6 DEF Tiene
  <1> SUFFICES ASSUME ~perdida' PROVE UsoJusto' /\ Propio'
    BY DEF UsoJusto, Propio
  <1>8. ~perdida /\ marcos_ocupados' = marcos_ocupados \ {m}
    BY <1>1, <1>2, <1>4, <1>5, BitEscrito
  <1>9. UsoJusto'
    <2>1. ~Tenido(m)  BY <1>1, <1>3, <1>4, <1>8 DEF UsoJusto, Tenido, Tiene
    <2>2. \A f \in Marcos : f \in marcos_ocupados <=> Tenido(f) \/ m = f
      BY <1>1, <1>3, <1>4, <1>8 DEF UsoJusto
    <2>3. \A f \in Marcos : Tenido(f)' <=> Tenido(f)  BY <1>7 DEF Tenido
    <2>4. \A f \in Marcos : f \in marcos_ocupados' <=> Tenido(f)'  BY <1>8, <2>1, <2>2, <2>3
    <2>5. QED  BY <1>1, <1>6, <1>7, <1>8, <2>4 DEF UsoJusto
  <1>10. Propio'  BY <1>1, <1>5, <1>7, <1>8 DEF Propio
  <1>11. QED  BY <1>9, <1>10

-----------------------------------------------------------------------------
(* The theorems *)

\* No step takes a frame from the page that has it.
LEMMA NextMem == ASSUME InvMem, [Next]_vars PROVE InvMem'
  <1>1. Tipos'  BY NextTipos DEF InvMem
  <1> SUFFICES UsoJusto' /\ Propio'
    BY <1>1 DEF InvMem
  <1>2. ASSUME UNCHANGED <<memoria, hilo, escritas, perdida>> PROVE UsoJusto' /\ Propio'
    <2>1. K' = K /\ C' = C  BY <1>2 DEF K, C
    <2>2. UsoQuieto  BY <1>2, <2>1, TieneIgual DEF memoria
    <2>3. QED  BY <1>2, <2>1, <2>2, QuietosUso DEF memoria
  <1>3. CASE HiloKernel
    BY <1>3, KernelUso, LimpiarBitDeFinUso, DestruirProcesoUso DEF HiloKernel
  <1>4. CASE HiloCpu
    <2>1. CASE \/ BuscarSiguiente \/ NoEncontrar \/ AtenderInstruccion \/ Leer \/ Responder
               \/ AtenderAcceso \/ MarcarMarco \/ TerminarDeQuitar
               \/ Ajustar \/ RevisarMarcos \/ TomarMarco
      BY <2>1, CpuUso
    <2>2. CASE BuscarEnLiberado \/ UsarNulo
      BY <1>2, <2>2 DEF BuscarEnLiberado, UsarNulo
    <2>3. CASE Escribir \/ AgregarPagina \/ QuitarPagina \/ LimpiarBitDePagina
      BY <2>3, EscribirUso, AgregarPaginaUso, QuitarPaginaUso, LimpiarBitDePaginaUso
    <2>4. QED  BY <1>4, <2>1, <2>2, <2>3 DEF HiloCpu
  <1>5. CASE Interfaces  BY <1>5, EscribirIOUso DEF Interfaces
  <1>6. CASE Kernel
    <2>1. PICK p \in Pids : PedirCreacion(p) \/ PedirFin(p) \/ Planificar(p) \/ FinalizarBloqueado(p)
      BY <1>6 DEF Kernel
    <2>2. CASE PedirCreacion(p) \/ PedirFin(p)  BY <2>2, KernelUso
    <2>3. CASE Planificar(p) \/ FinalizarBloqueado(p)
      BY <1>2, <2>3 DEF Planificar, FinalizarBloqueado
    <2>4. QED  BY <2>1, <2>2, <2>3
  <1>7. CASE OtroFin  BY <1>2, <1>7 DEF OtroFin, PedirOtroFin
  <1>8. CASE Cpu
    <2>1. PICK p \in Pids :
            Salir(p) \/ PedirIO(p) \/ PedirInstruccion(p) \/ PedirAcceso(p) \/ PedirAjuste(p)
      BY <1>8 DEF Cpu
    <2>2. CASE Salir(p) \/ PedirIO(p)  BY <1>2, <2>2 DEF Salir, PedirIO
    <2>3. CASE PedirInstruccion(p) \/ PedirAcceso(p) \/ PedirAjuste(p)  BY <2>3, CpuUso
    <2>4. QED  BY <2>1, <2>2, <2>3
  <1>9. CASE UNCHANGED vars  BY <1>2, <1>9 DEF vars
  <1>10. QED  BY <1>3, <1>4, <1>5, <1>6, <1>7, <1>8, <1>9 DEF Next

\* The invariant holds in every state that the threads can reach.
THEOREM InvMemSiempre == Spec => []InvMem
  <1>1. Init => InvMem  BY InitMem
  <1>2. InvMem /\ [Next]_vars => InvMem'  BY NextMem
  <1>3. QED  BY <1>1, <1>2, PTL DEF Spec

\* The tables hold frames that exist, and the list each process once.
THEOREM TiposDeMemoria == Spec => []TypeOK
  <1>1. InvMem => TypeOK  BY Juntos
  <1>2. QED  BY <1>1, InvMemSiempre, PTL

\* No frame is in two pages and the bitmap says which are in use, whatever the threads of the
\* kernel, of the CPU and of the interfaces do meanwhile, until a write of a byte of the bitmap
\* undoes another's.
THEOREM MarcosSiempre == Spec => []MarcosJustos
  <1>1. InvMem => MarcosJustos  BY Juntos
  <1>2. QED  BY <1>1, InvMemSiempre, PTL

\* A RESIZE answered with OK leaves the pages that the size asks for, with any size of page.
THEOREM TamanioSiempre == Spec => []TamanioJusto
  <1>1. InvMem => TamanioJusto  BY Juntos
  <1>2. QED  BY <1>1, InvMemSiempre, PTL

\* What a process wrote in its pages is not overwritten by another.
THEOREM ContenidoSiempre == Spec => []ContenidoPropio
  <1>1. InvMem => ContenidoPropio  BY Juntos
  <1>2. QED  BY <1>1, InvMemSiempre, PTL

=============================================================================
