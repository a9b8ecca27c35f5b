--------------------------------- MODULE Mmu ---------------------------------
(***************************************************************************)
(* Address translation in the CPU (cpu/src/main.c): the split of an access *)
(* into pages, the TLB with its two replacement algorithms, the request to *)
(* memory for the pages that miss, and the instructions that read and      *)
(* write memory.  One process runs at a time and the CPU waits for every   *)
(* answer, so an instruction is one step.  Pages come and go with RESIZE   *)
(* and EXIT, as Memoria models them step by step.                          *)
(***************************************************************************)
EXTENDS Integers, Sequences, FiniteSets, SequencesExt

CONSTANTS
    Pids,
    CantMarcos, TamPagina,
    Configuraciones,  \* CANTIDAD_ENTRADAS_TLB and ALGORITMO_TLB, as a pair
    Datos,            \* what SET leaves in a register of one byte or of four
    Largos,           \* sizes given to COPY_STRING
    Paginas,          \* sizes that RESIZE asks for, in pages
    Operaciones       \* bound: instructions executed

Marcos == 0..CantMarcos - 1
Direcciones == 0..CantMarcos * TamPagina - 1

ASSUME ConstantesOK ==
    /\ IsFiniteSet(Pids)
    /\ CantMarcos \in Nat \ {0} /\ TamPagina \in Nat \ {0}
    /\ Configuraciones \subseteq Nat \X {"FIFO", "LRU"}
    /\ Datos \subseteq Seq(Nat) /\ Largos \subseteq Nat \ {0} /\ Paginas \subseteq Nat
    /\ Operaciones \in Nat

VARIABLES
    config,      \* the configuration that the CPU read when it started
    tlb,         \* TLB: a list of entries
    tabla,       \* tabla_paginas of each process
    fisica,      \* memoria_principal
    registro,    \* a register of each process, saved and restored with its PCB
    vivos,       \* processes that may still execute
    reloj,       \* gettimeofday, which moves between two accesses: each one is logged
    cuenta,      \* instructions executed
    recientes,   \* history: the pages of a TLB that is right by definition
    obsoleta     \* history: was a page that the TLB has taken from a program by RESIZE?

CantEntradas == config[1]
Algoritmo == config[2]

\* What malloc leaves in memoria_principal: bytes that nobody wrote.
Ajeno == 100

Anchos == {Len(d) : d \in Datos}

vars == <<config, tlb, tabla, fisica, registro, vivos, reloj, cuenta, recientes, obsoleta>>

Entradas == [pid : Pids, pagina : Nat, marco : Marcos, acceso : Nat]

TypeOK ==
    /\ config \in Configuraciones /\ obsoleta \in BOOLEAN
    /\ tlb \in Seq(Entradas) /\ Len(tlb) <= CantEntradas
    /\ tabla \in [Pids -> Seq(Marcos)]
    /\ fisica \in [Direcciones -> Nat]
    /\ registro \in [Pids -> Seq(Nat)]
    /\ vivos \subseteq Pids
    /\ reloj \in Nat /\ cuenta \in 0..Operaciones
    /\ recientes \in Seq(Pids \X Nat)

Init ==
    /\ config \in Configuraciones
    /\ tlb = <<>>
    /\ tabla = [p \in Pids |-> <<>>]
    /\ fisica = [d \in Direcciones |-> Ajeno + d]
    /\ registro = [p \in Pids |-> <<>>]
    /\ vivos = Pids
    /\ reloj = 0 /\ cuenta = 0
    /\ recientes = <<>> /\ obsoleta = FALSE

--------------------------------------------------------------------------------
(* The TLB.  A translation in progress is a record with the list of entries, the
   clock, the pages that missed and the frame of each page that hit. *)

Indice(t, p, pag) == SelectInSeq(t, LAMBDA e : e.pid = p /\ e.pagina = pag)
Acierta(t, p, pag) == CantEntradas > 0 /\ Indice(t, p, pag) # 0

\* buscar_en_tlb
Buscar(e, p, pag) ==
    IF Acierta(e.tlb, p, pag)
    THEN LET i == Indice(e.tlb, p, pag)
         IN  [e EXCEPT !.tlb[i].acceso = e.reloj, !.reloj = @ + 1,
                       !.marcos = Append(@, e.tlb[i].marco), !.aciertos = Append(@, pag)]
    ELSE [e EXCEPT !.marcos = Append(@, tabla[p][pag + 1]), !.fallos = Append(@, pag)]

\* reemplazo_fifo; reemplazo_lru leaves the list sorted.
Ordenada(t) == CHOOSE u \in SetToSeqs(ToSet(t)) :
    \A i, j \in DOMAIN u : i < j => u[i].acceso < u[j].acceso
\* Mutant: index 0 whatever the algorithm.
SinVictima_SinOrdenar(t) == Tail(t)

SinVictima(t) == IF Algoritmo = "FIFO" THEN Tail(t) ELSE Tail(Ordenada(t))

\* Mutant: <= for <.
Reemplazar_UnaDeMas(e, p, pag) ==
    IF CantEntradas = 0 THEN e
    ELSE LET lugar == IF Len(e.tlb) <= CantEntradas THEN e.tlb ELSE SinVictima(e.tlb)
             nueva == [pid |-> p, pagina |-> pag, marco |-> tabla[p][pag + 1], acceso |-> e.reloj]
         IN  [e EXCEPT !.tlb = Append(lugar, nueva), !.reloj = @ + 1]

\* reemplazo_tlb, agregar_entrada_tlb
Reemplazar(e, p, pag) ==
    IF CantEntradas = 0 THEN e
    ELSE LET lugar == IF Len(e.tlb) < CantEntradas THEN e.tlb ELSE SinVictima(e.tlb)
             nueva == [pid |-> p, pagina |-> pag, marco |-> tabla[p][pag + 1], acceso |-> e.reloj]
         IN  [e EXCEPT !.tlb = Append(lugar, nueva), !.reloj = @ + 1]

\* Mutant: the offset in the first page is left out.
CantPaginas_SinDesplazamiento(dl, n) == (n + TamPagina - 1) \div TamPagina

CantPaginas(dl, n) == ((dl % TamPagina) + n + TamPagina - 1) \div TamPagina
PaginasDe(dl, n) == [i \in 1..CantPaginas(dl, n) |-> dl \div TamPagina + i - 1]

Empezada == [tlb |-> tlb, reloj |-> reloj, marcos |-> <<>>, aciertos |-> <<>>, fallos |-> <<>>]

Buscada(e, p, dl, n) == FoldLeft(LAMBDA x, pag : Buscar(x, p, pag), e, PaginasDe(dl, n))

\* traducir_DL_a_DF_generico
Traducida(e, p, dl, n) ==
    LET b == Buscada(e, p, dl, n)
    IN  FoldLeft(LAMBDA x, pag : Reemplazar(x, p, pag), b, b.fallos)

\* desplazamiento_necesario of each page, and the bytes that it stands for in its frame.
Minimo(a, b) == IF a < b THEN a ELSE b
Fisicas(marcos, dl, n) ==
    LET desp == dl % TamPagina
        agregar(acc, i) ==
            LET desde == IF i = 1 THEN desp ELSE 0
                cuanto == Minimo(acc.resta, TamPagina - desde)
            IN  [resta |-> acc.resta - cuanto,
                 dirs |-> acc.dirs \o [j \in 1..cuanto |-> marcos[i] * TamPagina + desde + j - 1]]
    IN  FoldLeft(agregar, [resta |-> n, dirs |-> <<>>], [i \in DOMAIN marcos |-> i]).dirs

--------------------------------------------------------------------------------
(* The instructions. *)

\* The history: a page that hits moves to the end under LRU; one that misses goes to the
\* end; no more than CantEntradas stay.
Ultimos(s) == SubSeq(s, Len(s) - Minimo(Len(s), CantEntradas) + 1, Len(s))
AlFinal(s, x) == Append(RemoveFirst(s, x), x)
Usadas(s, p, e) ==
    LET tocadas == IF Algoritmo = "LRU" THEN e.aciertos \o e.fallos ELSE e.fallos
    IN  Ultimos(FoldLeft(LAMBDA x, pag : AlFinal(x, <<p, pag>>), s, tocadas))

\* Programs use the pages they have.
Tiene(p, dl, n) == dl + n <= Len(tabla[p]) * TamPagina

Ejecuta(p) == p \in vivos /\ cuenta < Operaciones /\ cuenta' = cuenta + 1

Leer(dirs) == [i \in DOMAIN dirs |-> fisica[dirs[i]]]
Escribir(dirs, datos) ==
    fisica' = [d \in Direcciones |->
        IF d \in ToSet(dirs) THEN datos[SelectInSeq(dirs, LAMBDA x : x = d)] ELSE fisica[d]]

Traducir(p, dl, n) ==
    LET e == Traducida(Empezada, p, dl, n)
    IN  tlb' = e.tlb /\ reloj' = e.reloj /\ recientes' = Usadas(recientes, p, e)
DireccionesDe(p, dl, n) == Fisicas(Buscada(Empezada, p, dl, n).marcos, dl, n)

Set(p, datos) ==
    /\ Ejecuta(p)
    /\ registro' = [registro EXCEPT ![p] = datos]
    /\ UNCHANGED <<tlb, tabla, fisica, vivos, reloj, recientes, obsoleta>>

MovIn(p, dl, n) ==
    /\ Ejecuta(p) /\ Tiene(p, dl, n)
    /\ Traducir(p, dl, n)
    /\ registro' = [registro EXCEPT ![p] = Leer(DireccionesDe(p, dl, n))]
    /\ UNCHANGED <<tabla, fisica, vivos, obsoleta>>

MovOut(p, dl) ==
    LET n == Len(registro[p]) IN
    /\ Ejecuta(p) /\ n > 0 /\ Tiene(p, dl, n)
    /\ Traducir(p, dl, n)
    /\ Escribir(DireccionesDe(p, dl, n), registro[p])
    /\ UNCHANGED <<tabla, registro, vivos, obsoleta>>

\* Both ranges are translated before the first byte is read.
CopyString(p, si, di, n) ==
    LET uno == Traducida(Empezada, p, si, n)
        dos == Traducida([Empezada EXCEPT !.tlb = uno.tlb, !.reloj = uno.reloj], p, di, n)
    IN  /\ Ejecuta(p) /\ Tiene(p, si, n) /\ Tiene(p, di, n)
        /\ tlb' = dos.tlb /\ reloj' = dos.reloj
        /\ recientes' = Usadas(Usadas(recientes, p, uno), p, dos)
        /\ Escribir(Fisicas(dos.marcos, di, n), Leer(Fisicas(uno.marcos, si, n)))
        /\ UNCHANGED <<tabla, registro, vivos, obsoleta>>

--------------------------------------------------------------------------------
(* Memory, with one step for each request.  The TLB hears of none of this. *)

Libres == Marcos \ UNION {ToSet(tabla[p]) : p \in Pids}
PrimerosLibres(n) ==
    SubSeq(CHOOSE u \in SetToSeqs(Libres) : \A i, j \in DOMAIN u : i < j => u[i] < u[j], 1, n)

\* RESIZE.  A process that runs out of memory executes no more; it keeps the pages it got.
Redimensionar(p, n) ==
    LET faltan == n - Len(tabla[p]) IN
    /\ Ejecuta(p)
    /\ tabla' = [tabla EXCEPT ![p] =
           IF faltan <= 0 THEN SubSeq(@, 1, n)
           ELSE @ \o PrimerosLibres(Minimo(faltan, Cardinality(Libres)))]
    /\ obsoleta' = (obsoleta \/ \E i \in DOMAIN tlb : tlb[i].pid = p /\ tlb[i].pagina >= n)
    /\ vivos' = IF faltan > Cardinality(Libres) THEN vivos \ {p} ELSE vivos
    /\ UNCHANGED <<tlb, fisica, registro, reloj, recientes>>

Salir(p) ==
    /\ Ejecuta(p)
    /\ vivos' = vivos \ {p}
    /\ UNCHANGED <<tlb, tabla, fisica, registro, reloj, recientes, obsoleta>>

\* END_PROCESS.  Pids are not used again.
LiberarProceso(p) ==
    /\ p \notin vivos /\ tabla[p] # <<>>
    /\ tabla' = [tabla EXCEPT ![p] = <<>>]
    /\ UNCHANGED <<tlb, fisica, registro, vivos, reloj, cuenta, recientes, obsoleta>>

Logicas == 0..CantMarcos * TamPagina

Next == UNCHANGED config /\ \E p \in Pids :
    \/ \E datos \in Datos : Set(p, datos)
    \/ \E dl \in Logicas : MovOut(p, dl) \/ \E n \in Anchos : MovIn(p, dl, n)
    \/ \E si, di \in Logicas, n \in Largos : CopyString(p, si, di, n)
    \/ \E n \in Paginas : Redimensionar(p, n)
    \/ Salir(p) \/ LiberarProceso(p)

Spec == Init /\ [][Next]_vars

--------------------------------------------------------------------------------
(* Properties. *)

\* A page of a process is in the TLB once: a page is added only when it was not found, and
\* two pages of one access are never the same.
SinRepetidas ==
    \A i, j \in DOMAIN tlb : tlb[i].pid = tlb[j].pid /\ tlb[i].pagina = tlb[j].pagina => i = j

\* The TLB holds the pages that its algorithm should have kept: the last CantEntradas ones
\* used (LRU) or brought in (FIFO), also when one access needs several pages, hits some and
\* brings in others, and although LRU leaves the list in another order.
GuardaLasDebidas == {<<tlb[i].pid, tlb[i].pagina>> : i \in DOMAIN tlb} = ToSet(recientes)

\* What the TLB says of a process that executes is what its page table says, as long as
\* RESIZE takes no page that the TLB has.
TlbVigente ==
    ~obsoleta => \A i \in DOMAIN tlb :
        tlb[i].pid \in vivos => /\ tlb[i].pagina < Len(tabla[tlb[i].pid])
                                /\ tlb[i].marco = tabla[tlb[i].pid][tlb[i].pagina + 1]

\* The TLB holds the pages it should, each once and with the frame of its page table.
TlbCorrecta == SinRepetidas /\ GuardaLasDebidas /\ TlbVigente

\* Each process reads what it wrote, byte by byte, whatever pages an access spans, in
\* whatever frames they are, and whoever else writes: memory seen through the MMU
\* implements MemoriaVirtual.
Dir(p, d) == tabla[p][(d \div TamPagina) + 1] * TamPagina + (d % TamPagina)
Virtual == INSTANCE MemoriaVirtual WITH
    bytes <- [p \in Pids |-> [i \in 1..Len(tabla[p]) * TamPagina |-> fisica[Dir(p, i - 1)]]],
    Maximo <- CantMarcos * TamPagina
VirtualSpec == Virtual!Init /\ [][obsoleta \/ Virtual!Next]_(Virtual!vars)
=============================================================================
