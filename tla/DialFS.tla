------------------------------- MODULE DialFS -------------------------------
(***************************************************************************)
(* The file system of a DIALFS interface (entradasalida/src): files of     *)
(* contiguous blocks, a metadata file for each with its first block and    *)
(* its size, and a bitmap of blocks.  One thread serves the requests.  An  *)
(* operation computes what to write and writes it piece by piece; each     *)
(* piece reaches the disk (msync, config_save) before the next.  The       *)
(* interface may be killed between two pieces, exits by itself on every    *)
(* error, and may be started again over the same files.                    *)
(*                                                                         *)
(* The operations go wrong in some uses, which the history variable danio  *)
(* names: "borrar", a file with data deleted; "vaciar", one truncated to   *)
(* zero; "ampliar", one whose blocks are full, or are two or more, made    *)
(* to grow; "compactar"; "corte", a deletion or a shortening cut short.    *)
(***************************************************************************)
EXTENDS Integers, Sequences, FiniteSets, SequencesExt, FiniteSetsExt

CONSTANTS
    Archivos,
    BlockSize, BlockCount,
    MaxBit,         \* bitarray_get_max_bit: BLOCK_COUNT rounded up to whole bytes
    Ancho,          \* bound: where a uint32_t wraps around
    Tamanios,       \* sizes that IO_FS_TRUNCATE asks for
    Escrituras,     \* <<pointer, size>> that IO_FS_WRITE asks for
    Operaciones,    \* bound: requests
    Cortes          \* bound: times the interface is killed

ASSUME ConstantesOK ==
    /\ IsFiniteSet(Archivos)
    /\ BlockSize \in Nat \ {0} /\ BlockCount \in Nat \ {0}
    /\ MaxBit \in Nat /\ MaxBit >= BlockCount
    /\ Ancho \in Nat /\ Ancho > 2 * MaxBit
    /\ Tamanios \subseteq 0..Ancho - 1 /\ Escrituras \subseteq Nat \X (Nat \ {0})
    /\ Operaciones \in Nat /\ Cortes \in Nat

Causas == {"borrar", "vaciar", "ampliar", "compactar", "corte"}

VARIABLES
    metadata,     \* for each file that exists, BLOQUE_INICIAL and TAMANIO_ARCHIVO
    bitmap,       \* blocks whose bit is set
    bloques,      \* the bytes of bloques.dat
    viva,         \* is the interface running?
    operacion,    \* the operation in progress
    pendiente,    \* what it has left to write
    cuenta, cortes,
    escrito,      \* history: the bytes written in each file that truncation has left
    danio,        \* history: why the file system may be damaged
    fuga          \* history: was an operation cut short?

disco == <<metadata, bitmap, bloques>>
historia == <<escrito, danio, fuga>>
vars == <<disco, viva, operacion, pendiente, cuenta, cortes, historia>>

Bytes == 0..BlockCount * BlockSize - 1
Escritos == [que : {"asignar", "liberar", "crear", "tamanio", "inicial", "unlink", "copiar", "reintentar"},
             archivo : Archivos, valor : Nat, datos : Seq(Nat)]

TypeOK ==
    /\ DOMAIN metadata \subseteq Archivos
    /\ \A f \in DOMAIN metadata : metadata[f] \in [inicial : 0..MaxBit, tamanio : 0..Ancho - 1]
    /\ bitmap \subseteq 0..MaxBit - 1
    /\ bloques \in [Bytes -> Nat]
    /\ viva \in BOOLEAN /\ fuga \in BOOLEAN
    /\ pendiente \in Seq(Escritos) /\ (pendiente # <<>> => viva)
    /\ cuenta \in 0..Operaciones /\ cortes \in 0..Cortes
    /\ DOMAIN escrito = Archivos
    /\ danio \subseteq Causas

Init ==
    /\ metadata = [f \in {} |-> 0]
    /\ bitmap = {}
    /\ bloques = [b \in Bytes |-> 0]
    /\ viva = TRUE
    /\ operacion = "ninguna" /\ pendiente = <<>>
    /\ cuenta = 0 /\ cortes = 0
    /\ escrito = [f \in Archivos |-> [i \in {} |-> 0]]
    /\ danio = {} /\ fuga = FALSE

--------------------------------------------------------------------------------
(* utilsFS.c. *)

Techo(n) == (n + BlockSize - 1) \div BlockSize
Mayor(a, b) == IF a > b THEN a ELSE b
CantidadBloques(n) == Mayor(1, Techo(n))

Inicial(f) == metadata[f].inicial
Tam(f) == metadata[f].tamanio
BloquesDe(f) == Inicial(f)..Inicial(f) + CantidadBloques(Tam(f)) - 1
Existe(f) == f \in DOMAIN metadata

BitsLibres == (0..MaxBit - 1) \ bitmap
BloqueLibre == Min(BitsLibres)

\* Unsigned: an empty file has one block, and none is needed for size zero.
BloquesAdicionales(actual, nuevo) == (Techo(nuevo) - CantidadBloques(actual)) % Ancho
BloquesALiberar(actual, nuevo) == (CantidadBloques(actual) - Techo(nuevo)) % Ancho
UltimoBloque(inicial, n) == inicial + Techo(n) - 1

\* Mutant: the bits are not looked at.
Verificar_SinMirar(base, cuantos) == IF (base + cuantos) % Ancho > MaxBit THEN "fuera" ELSE "libres"

\* verificar_bloques_contiguos_libres.  The bit past the last reads as zero (the map is
\* longer than the bitmap); a count that has wrapped around runs off the map.
Verificar(base, cuantos) ==
    IF (base + cuantos) % Ancho > MaxBit THEN "fuera"
    ELSE IF \E i \in 1..cuantos : base + i \in bitmap THEN "ocupados"
    ELSE IF base + cuantos > MaxBit THEN "muere"
    ELSE "libres"

Paso(que, f, valor) == [que |-> que, archivo |-> f, valor |-> valor, datos |-> <<>>]
Asignar(f, desde, cuantos) == [i \in 1..cuantos |-> Paso("asignar", f, desde + i - 1)]
Liberar(f, desde, cuantos) == [i \in 1..cuantos |-> Paso("liberar", f, desde + i - 1)]

--------------------------------------------------------------------------------
(* Requests. *)

Pedido == viva /\ pendiente = <<>> /\ cuenta < Operaciones /\ cuenta' = cuenta + 1

Hacer(op, pasos) == operacion' = op /\ pendiente' = pasos /\ UNCHANGED viva

\* exit(EXIT_FAILURE) before anything is written.
Rechazar == viva' = FALSE /\ operacion' = "ninguna" /\ UNCHANGED pendiente

Daniar(causa, seDa) == danio' = IF seDa THEN danio \union {causa} ELSE danio

\* Mutant: the metadata is written before the bit.
Crear_AlReves(f) ==
    /\ Pedido
    /\ \/ /\ ~Existe(f) /\ BitsLibres # {}
          /\ Hacer("crear", <<Paso("crear", f, BloqueLibre), Paso("asignar", f, BloqueLibre)>>)
       \/ (Existe(f) \/ BitsLibres = {}) /\ Rechazar
    /\ UNCHANGED <<disco, cortes, historia>>

Crear(f) ==
    /\ Pedido
    /\ \/ /\ ~Existe(f) /\ BitsLibres # {}
          /\ Hacer("crear", <<Paso("asignar", f, BloqueLibre), Paso("crear", f, BloqueLibre)>>)
       \/ (Existe(f) \/ BitsLibres = {}) /\ Rechazar
    /\ UNCHANGED <<disco, cortes, historia>>

\* i goes from 0 to the number of blocks, both included.
Borrar(f) ==
    /\ Pedido
    /\ \/ /\ Existe(f)
          /\ Hacer("borrar", Append(Liberar(f, Inicial(f), Techo(Tam(f)) + 1), Paso("unlink", f, 0)))
          /\ Daniar("borrar", Tam(f) > 0)
          /\ escrito' = [escrito EXCEPT ![f] = [i \in {} |-> 0]]
       \/ ~Existe(f) /\ Rechazar /\ UNCHANGED <<danio, escrito>>
    /\ UNCHANGED <<disco, cortes, fuga>>

Acortar(f, n) ==
    LET liberados == BloquesALiberar(Tam(f), n)
        ultimo == UltimoBloque(Inicial(f), Tam(f))
    IN  /\ Pedido /\ Existe(f) /\ Tam(f) > n
        /\ Hacer("acortar", [i \in 1..liberados |-> Paso("liberar", f, ultimo - i + 1)]
                                \o <<Paso("tamanio", f, n)>>)
        /\ Daniar("vaciar", n = 0)
        /\ escrito' = [escrito EXCEPT ![f] = [i \in {j \in DOMAIN @ : j < n} |-> @[i]]]
        /\ UNCHANGED <<disco, cortes, fuga>>

--------------------------------------------------------------------------------
(* compactar_file_system.  The files are listed in the order of the directory. *)

Contenido(b) == [i \in 1..BlockSize |->
    LET d == b * BlockSize + i - 1 IN IF d \in Bytes THEN bloques[d] ELSE 0]

\* Where the files before the i-th of the list end.
Antes(orden, i) ==
    LET hasta[k \in 0..Len(orden)] ==
            IF k = 0 THEN 0 ELSE hasta[k - 1] + CantidadBloques(Tam(orden[k]))
    IN  hasta[i - 1]

\* A file that stays where it was is skipped, although its bits have been cleared; none is copied.
Acomodar(orden, i) ==
    LET f == orden[i]
        libre == Antes(orden, i)
    IN  Append(IF libre = Inicial(f) THEN <<>> ELSE Asignar(f, libre, CantidadBloques(Tam(f))),
               Paso("inicial", f, libre))

\* Every block of the buffer is copied to the first block of the new place.
MoverAlFinal(f, nuevo) ==
    FlattenSeq([j \in 1..CantidadBloques(Tam(f)) |->
        << [que |-> "copiar", archivo |-> f, valor |-> nuevo, datos |-> Contenido(Inicial(f) + j - 1)],
           Paso("asignar", f, nuevo + j - 1) >>]) \o <<Paso("inicial", f, nuevo)>>

Compactar(f, orden) ==
    LET libera(g) == Liberar(g, Inicial(g), CantidadBloques(Tam(g)))
        n == Len(orden)
    IN  libera(f) \o FlattenSeq([i \in 1..n |-> libera(orden[i])])
            \o FlattenSeq([i \in 1..n |-> Acomodar(orden, i)])
            \o MoverAlFinal(f, Antes(orden, n + 1))

Ampliar(f, n) ==
    Append(Asignar(f, Inicial(f) + 1, BloquesAdicionales(Tam(f), n)), Paso("tamanio", f, n))

HayLugar(f, n) ==
    LET faltan == BloquesAdicionales(Tam(f), n)
    IN  IF faltan = 0 THEN "libres" ELSE Verificar(Inicial(f) + Tam(f) \div BlockSize, faltan)

Lleno(f) == Tam(f) > 0 /\ (Techo(Tam(f)) > 1 \/ Tam(f) % BlockSize = 0)

Agrandar(f, n) ==
    /\ Pedido /\ Existe(f) /\ Tam(f) <= n
    /\ \/ /\ HayLugar(f, n) = "libres" /\ Hacer("agrandar", Ampliar(f, n))
          /\ Daniar("ampliar", BloquesAdicionales(Tam(f), n) > 0 /\ Lleno(f))
       \/ /\ HayLugar(f, n) = "ocupados"
          /\ \E orden \in SetToSeqs(DOMAIN metadata \ {f}) :
                Hacer("compactar", Append(Compactar(f, orden), Paso("reintentar", f, n)))
          /\ danio' = danio \union {"compactar"} \union (IF Lleno(f) THEN {"ampliar"} ELSE {})
       \/ HayLugar(f, n) \in {"fuera", "muere"} /\ Rechazar /\ UNCHANGED danio
    /\ UNCHANGED <<disco, cortes, escrito, fuga>>

TruncarInexistente(f) ==
    /\ Pedido /\ ~Existe(f) /\ Rechazar
    /\ UNCHANGED <<disco, cortes, historia>>

--------------------------------------------------------------------------------
(* escribir_archivo, leer_archivo: contiguous blocks, so contiguous bytes. *)

Byte(f, i) == Inicial(f) * BlockSize + i

\* Each write leaves a value of its own.
Escribir(f, puntero, n) ==
    LET rango == puntero..puntero + n - 1
        entra == Existe(f) /\ puntero + n <= Tam(f) /\ Byte(f, puntero + n - 1) \in Bytes
    IN  /\ Pedido
        /\ \/ /\ entra
              /\ bloques' = [d \in Bytes |-> IF d - Byte(f, 0) \in rango THEN cuenta' ELSE bloques[d]]
              /\ escrito' = [escrito EXCEPT ![f] =
                     [i \in DOMAIN @ \union rango |-> IF i \in rango THEN cuenta' ELSE @[i]]]
              /\ UNCHANGED <<viva, operacion, pendiente>>
           \/ ~entra /\ Rechazar /\ UNCHANGED <<bloques, escrito>>
        /\ UNCHANGED <<metadata, bitmap, cortes, danio, fuga>>

Leido(f, i) == bloques[Byte(f, i)]

--------------------------------------------------------------------------------
(* What is pending is written. *)

P == Head(pendiente)
Sigue(que) == viva /\ pendiente # <<>> /\ P.que = que
Seguir == pendiente' = Tail(pendiente) /\ UNCHANGED <<viva, operacion>>
Estables == UNCHANGED <<cuenta, cortes, escrito>>

\* The operation stops half way: what it has written stays.
Caer ==
    /\ viva' = FALSE /\ pendiente' = <<>> /\ operacion' = "ninguna"
    /\ fuga' = TRUE
    /\ Daniar("corte", operacion \in {"borrar", "acortar"})

\* Mutant: the number of the block is not checked.
AsignarBloque_SinRango ==
    /\ Sigue("asignar") /\ Seguir
    /\ bitmap' = bitmap \union {P.valor}
    /\ Estables /\ UNCHANGED <<metadata, bloques, danio, fuga>>

\* A block already taken is only reported.
AsignarBloque ==
    /\ Sigue("asignar")
    /\ \/ /\ P.valor < MaxBit /\ Seguir
          /\ bitmap' = bitmap \union {P.valor}
          /\ UNCHANGED <<danio, fuga>>
       \/ P.valor >= MaxBit /\ Caer /\ UNCHANGED bitmap
    /\ Estables /\ UNCHANGED <<metadata, bloques>>

LiberarBloque ==
    /\ Sigue("liberar")
    /\ \/ /\ P.valor < MaxBit /\ Seguir
          /\ bitmap' = bitmap \ {P.valor}
          /\ UNCHANGED <<danio, fuga>>
       \/ P.valor >= MaxBit /\ Caer /\ UNCHANGED bitmap
    /\ Estables /\ UNCHANGED <<metadata, bloques>>

Grabar(que, nueva) ==
    /\ Sigue(que) /\ Seguir
    /\ metadata' = nueva
    /\ Estables /\ UNCHANGED <<bitmap, bloques, danio, fuga>>

Con(f, inicial, tamanio) ==
    [g \in DOMAIN metadata \union {f} |->
        IF g = f THEN [inicial |-> inicial, tamanio |-> tamanio] ELSE metadata[g]]

CrearMetadata == Grabar("crear", Con(P.archivo, P.valor, 0))
ActualizarTamanio == Grabar("tamanio", Con(P.archivo, Inicial(P.archivo), P.valor))
ActualizarInicial == Grabar("inicial", Con(P.archivo, P.valor, Tam(P.archivo)))
BorrarMetadata == Grabar("unlink", [g \in DOMAIN metadata \ {P.archivo} |-> metadata[g]])

CopiarBloque ==
    LET desde == P.valor * BlockSize IN
    /\ Sigue("copiar") /\ Seguir
    /\ bloques' = [d \in Bytes |-> IF d - desde + 1 \in DOMAIN P.datos THEN P.datos[d - desde + 1] ELSE bloques[d]]
    /\ Estables /\ UNCHANGED <<metadata, bitmap, danio, fuga>>

\* After a compaction agrandar_archivo looks again, and gives up.
Reintentar ==
    /\ Sigue("reintentar")
    /\ \/ /\ HayLugar(P.archivo, P.valor) = "libres"
          /\ operacion' = "agrandar" /\ pendiente' = Ampliar(P.archivo, P.valor)
          /\ UNCHANGED <<viva, danio, fuga>>
       \/ HayLugar(P.archivo, P.valor) # "libres" /\ Caer
    /\ Estables /\ UNCHANGED disco

Escritura == AsignarBloque \/ LiberarBloque \/ CrearMetadata \/ ActualizarTamanio
                \/ ActualizarInicial \/ BorrarMetadata \/ CopiarBloque \/ Reintentar

\* The interface is killed, and started again.
Cortar ==
    /\ viva /\ pendiente # <<>> /\ cortes < Cortes
    /\ cortes' = cortes + 1
    /\ Caer
    /\ UNCHANGED <<disco, cuenta, escrito>>

LevantarFileSystem ==
    /\ ~viva /\ viva' = TRUE
    /\ UNCHANGED <<disco, operacion, pendiente, cuenta, cortes, historia>>

Next ==
    \/ \E f \in Archivos :
        \/ Crear(f) \/ Borrar(f) \/ TruncarInexistente(f)
        \/ \E n \in Tamanios : Acortar(f, n) \/ Agrandar(f, n)
        \/ \E e \in Escrituras : Escribir(f, e[1], e[2])
    \/ Escritura \/ Cortar \/ LevantarFileSystem

Spec == Init /\ [][Next]_vars

--------------------------------------------------------------------------------
(* Properties. *)

Quieto == pendiente = <<>>

\* Two files never share a block, also after the interface is killed while it creates or
\* extends one, unless the file system has been damaged in one of the ways of danio.
BloquesExclusivos ==
    danio = {} => \A f, g \in DOMAIN metadata : f # g => BloquesDe(f) \intersect BloquesDe(g) = {}

\* With the same proviso, the bit of every block of a file is set, at every moment: a file
\* never holds blocks that the next one could take.
BitmapCubre ==
    danio = {} /\ operacion \notin {"borrar", "acortar"} => \A f \in DOMAIN metadata : BloquesDe(f) \subseteq bitmap

\* No block is lost between operations, unless one was cut short.
SinFugas ==
    danio = {} /\ ~fuga /\ Quieto => bitmap \subseteq UNION {BloquesDe(f) : f \in DOMAIN metadata}

\* Each block in use is in one file and the bitmap says so, and no other.
BloquesJustos == BloquesExclusivos /\ BitmapCubre /\ SinFugas

\* What was written in a file is read from it, whatever is done to the others.
ContenidoFiel ==
    danio = {} => \A f \in DOMAIN metadata : \A i \in DOMAIN escrito[f] : Leido(f, i) = escrito[f][i]

\* utilsFS.c:13, "el bit en la pos i del bitmap es 0 osea esta libre": the block that a new
\* file gets belongs to no other.
LibreDeVerdad ==
    operacion = "crear" /\ ~Quieto => \A f \in DOMAIN metadata : P.valor \notin BloquesDe(f)

\* A compaction has just ended, the first harm done to the file system.
Compactado == Sigue("reintentar") /\ danio \subseteq {"compactar", "ampliar"} /\ ~fuga
Conserva(f) == \A i \in DOMAIN escrito[f] : Leido(f, i) = escrito[f][i]

\* manejo_bloques.c:366, "Asignar bloques de manera contigua y mover los archivos": the
\* files that a compaction moves keep what they had.
CompactarMueve == Compactado => \A f \in DOMAIN metadata \ {P.archivo} : Conserva(f)
=============================================================================
