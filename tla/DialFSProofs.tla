---------------------------- MODULE DialFSProofs ----------------------------
(***************************************************************************)
(* DialFS keeps its files apart and whole, with any blocks, files and      *)
(* sizes, wherever it is killed: BloquesJustos and ContenidoFiel; and its  *)
(* metadata and its bitmap in their ranges, also after a compaction or any *)
(* other harm: TypeOK.                                                     *)
(***************************************************************************)
EXTENDS DialFS, ListasProofs, FiniteSetTheorems, WellFoundedInduction

-----------------------------------------------------------------------------
(* The invariant *)

\* What an operation writes last is in its metadata; before it come the bits.
Ultimo == pendiente[Len(pendiente)]
Bits == 1..Len(pendiente) - 1
Resto == {pendiente[i].valor : i \in Bits}
Crece == operacion \in {"crear", "agrandar"}
Ocupado(f) == pendiente # <<>> /\ Ultimo.archivo = f

\* The blocks that a file has, those that it will have when the operation ends, and those
\* whose bit is already set, or not yet cleared.
Actual(f) == IF f \in DOMAIN metadata THEN BloquesDe(f) ELSE {}
Final(f) ==
    IF ~Ocupado(f) THEN Actual(f)
    ELSE CASE Ultimo.que = "crear" -> {Ultimo.valor}
           [] Ultimo.que = "unlink" -> {}
           [] OTHER -> Inicial(f)..Inicial(f) + CantidadBloques(Ultimo.valor) - 1
Puestos(f) ==
    IF ~Ocupado(f) THEN Actual(f) ELSE IF Crece THEN Final(f) \ Resto ELSE Final(f) \union Resto

TiposFS ==
    /\ DOMAIN metadata \subseteq Archivos
    /\ \A f \in DOMAIN metadata : metadata[f] \in [inicial : Nat, tamanio : 0..Ancho - 1]
    /\ bitmap \subseteq 0..MaxBit - 1
    /\ bloques \in [Bytes -> Nat]
    /\ pendiente \in Seq(Escritos)
    /\ cuenta \in Nat
    /\ DOMAIN escrito = Archivos

\* The bits that are left to set or to clear are in order, each once, and then the metadata.
Bit == IF Crece THEN "asignar" ELSE "liberar"
Dueno == Ultimo.archivo
BitsEnOrden ==
    /\ \A i \in Bits : pendiente[i].que = Bit
    /\ \A i, j \in Bits : pendiente[i].valor = pendiente[j].valor => i = j
    /\ Resto \subseteq Nat
Cierre ==
    \/ operacion = "crear" /\ Ultimo.que = "crear" /\ Dueno \notin DOMAIN metadata /\ Ultimo.valor \in Nat
    \/ operacion = "borrar" /\ Ultimo.que = "unlink" /\ Dueno \in DOMAIN metadata
    \/ /\ operacion \in {"acortar", "agrandar"} /\ Ultimo.que = "tamanio"
       /\ Dueno \in DOMAIN metadata /\ Ultimo.valor \in 0..Ancho - 1
Forma ==
    pendiente # <<>> =>
        /\ viva /\ BitsEnOrden /\ Cierre
        /\ Crece => Actual(Dueno) \subseteq Final(Dueno) \ Resto /\ Resto \subseteq Final(Dueno)
        /\ ~Crece => Final(Dueno) \subseteq Actual(Dueno) \ Resto /\ Resto \subseteq Actual(Dueno)

\* No two files have a block in common, nor will have.
Aparte ==
    \A f, g \in Archivos : f # g => (Actual(f) \union Final(f)) \intersect (Actual(g) \union Final(g)) = {}

\* The bits of the blocks of each file are set, and no others until an operation is cut short.
Cubiertos == \A f \in Archivos : Puestos(f) \subseteq bitmap
SinSobrantes == ~fuga => \A b \in bitmap : \E f \in Archivos : b \in Puestos(f)

\* What was written in a file is where the file says, and what an operation is about to cut
\* off no longer counts.
Leible ==
    \A f \in Archivos : \A i \in DOMAIN escrito[f] :
        /\ f \in DOMAIN metadata /\ i \in Nat /\ i < Tam(f)
        /\ Ocupado(f) => Ultimo.que = "tamanio" /\ i < Ultimo.valor
        /\ Byte(f, i) \in Bytes /\ Leido(f, i) = escrito[f][i]

Sano == TiposFS /\ Forma /\ Aparte /\ Cubiertos /\ SinSobrantes /\ Leible
InvFS == danio = {} => Sano

-----------------------------------------------------------------------------
(* Blocks and bytes *)

\* What is used of the constants.
LEMMA Constantes ==
    /\ BlockSize \in Nat \ {0} /\ BlockCount \in Nat \ {0}
    /\ MaxBit \in Nat /\ Ancho \in Nat /\ Ancho > 2 * MaxBit
    /\ Tamanios \subseteq 0..Ancho - 1 /\ Escrituras \subseteq Nat \X (Nat \ {0})
  BY ConstantesOK

\* Techo rounds up.
LEMMA TechoDef ==
    ASSUME NEW n \in Nat
    PROVE  /\ Techo(n) \in Nat /\ BlockSize * Techo(n) < n + BlockSize /\ n <= BlockSize * Techo(n)
           /\ n > 0 <=> Techo(n) > 0
  <1>1. BlockSize \in Nat \ {0}  BY Constantes
  <1> DEFINE q == (n + BlockSize - 1) \div BlockSize
  <1>2. q \in Int /\ BlockSize * q <= n + BlockSize - 1 /\ n + BlockSize - 1 < BlockSize * (q + 1)
    BY <1>1
  <1>3. Techo(n) = q  BY DEF Techo
  <1> HIDE DEF q
  <1>4. BlockSize * (q + 1) = BlockSize * q + BlockSize  BY <1>1, <1>2
  <1>5. n <= BlockSize * q /\ BlockSize * q < n + BlockSize  BY <1>1, <1>2, <1>4
  <1>6. q < 0 => BlockSize * q < 0
    <2>1. q < 0 => 0 < BlockSize * (0 - q)  BY <1>1, <1>2
    <2>2. BlockSize * (0 - q) = 0 - BlockSize * q  BY <1>1, <1>2
    <2>3. QED  BY <1>1, <1>2, <2>1, <2>2
  <1>7. q \in Nat  BY <1>1, <1>2, <1>5, <1>6
  <1>8. q = 0 => n <= 0  BY <1>1, <1>5
  <1>9. q > 0 => n > 0
    <2>1. q > 0 => BlockSize * q >= BlockSize  BY <1>1, <1>7
    <2>2. BlockSize * q \in Int  BY <1>1, <1>7
    <2>3. QED  BY <1>1, <1>5, <2>1, <2>2
  <1>10. QED  BY <1>3, <1>5, <1>7, <1>8, <1>9

\* It grows with n, and is no more than n.
LEMMA TechoCrece ==
    ASSUME NEW n \in Nat
    PROVE  Techo(n) <= n /\ \A m \in Nat : m <= n => Techo(m) <= Techo(n)
  <1>1. BlockSize \in Nat \ {0}  BY Constantes
  <1>2. Techo(n) \in Nat /\ BlockSize * Techo(n) < n + BlockSize /\ n <= BlockSize * Techo(n)
    BY TechoDef
  <1>3. Techo(n) <= n
    <2> SUFFICES ASSUME Techo(n) > n PROVE FALSE
      BY <1>2
    <2> DEFINE q == Techo(n)
    <2>1. q \in Nat /\ q >= n + 1  BY <1>2
    <2>2. BlockSize * q < n + BlockSize  BY <1>2
    <2> HIDE DEF q
    <2>3. BlockSize * (n + 1) <= BlockSize * q  BY <1>1, <2>1
    <2>4. BlockSize * (n + 1) = BlockSize * n + BlockSize /\ BlockSize * n >= n  BY <1>1
    <2>5. BlockSize * n \in Nat /\ BlockSize * q \in Nat  BY <1>1, <2>1
    <2>6. QED  BY <1>1, <2>2, <2>3, <2>4, <2>5
  <1>4. ASSUME NEW m \in Nat, m <= n PROVE Techo(m) <= Techo(n)
    <2> DEFINE p == Techo(m)
               q == Techo(n)
    <2>1. p \in Nat /\ q \in Nat /\ BlockSize * p < m + BlockSize /\ n <= BlockSize * q
      BY <1>2, TechoDef
    <2> HIDE DEF p, q
    <2>2. BlockSize * (q + 1) = BlockSize * q + BlockSize /\ BlockSize * q \in Nat /\ BlockSize * p \in Nat
      BY <1>1, <2>1
    <2>3. BlockSize * p < BlockSize * (q + 1)  BY <1>1, <1>4, <2>1, <2>2
    <2>4. p >= q + 1 => BlockSize * p >= BlockSize * (q + 1)  BY <1>1, <2>1
    <2>5. p <= q  BY <1>1, <2>1, <2>2, <2>3, <2>4
    <2>6. QED  BY <2>1, <2>5 DEF p, q
  <1>5. QED  BY <1>3, <1>4

\* A file has a block at least, and its bytes fit in its blocks.
LEMMA Cantidad ==
    ASSUME NEW n \in Nat
    PROVE  /\ CantidadBloques(n) \in Nat /\ CantidadBloques(n) >= 1 /\ n <= BlockSize * CantidadBloques(n)
           /\ n > 0 => CantidadBloques(n) = Techo(n)
           /\ n = 0 => CantidadBloques(n) = 1 /\ Techo(n) = 0
  <1>1. BlockSize \in Nat \ {0}  BY Constantes
  <1> DEFINE q == Techo(n)
  <1>2. q \in Nat /\ n <= BlockSize * q /\ (n > 0 <=> q > 0)  BY TechoDef
  <1>3. CantidadBloques(n) = IF 1 > q THEN 1 ELSE q  BY DEF CantidadBloques, Mayor
  <1> HIDE DEF q
  <1>4. CASE n > 0
    <2>1. CantidadBloques(n) = q  BY <1>2, <1>3, <1>4
    <2>2. QED  BY <1>2, <1>4, <2>1 DEF q
  <1>5. CASE n = 0
    <2>1. CantidadBloques(n) = 1 /\ q = 0  BY <1>2, <1>3, <1>5
    <2>2. n <= BlockSize * 1  BY <1>1, <1>5
    <2>3. QED  BY <1>5, <2>1, <2>2 DEF q
  <1>6. QED  BY <1>4, <1>5

\* Bytes of two files whose blocks are apart are apart.
LEMMA BytesAparte ==
    ASSUME NEW a \in Nat, NEW b \in Nat, NEW c \in Nat, NEW d \in Nat, NEW i \in Nat, NEW j \in Nat,
           (a..a + c - 1) \intersect (b..b + d - 1) = {}, i < BlockSize * c, j < BlockSize * d
    PROVE  a * BlockSize + i # b * BlockSize + j
  <1>1. BlockSize \in Nat \ {0}  BY Constantes
  <1>2. c > 0 /\ d > 0
    <2>1. c = 0 => BlockSize * c = 0  BY <1>1
    <2>2. d = 0 => BlockSize * d = 0  BY <1>1
    <2>3. QED  BY <2>1, <2>2
  <1>3. ASSUME NEW x \in Nat, NEW y \in Nat, NEW z \in Nat, NEW k \in Nat, NEW l \in Nat,
               x + z <= y, k < BlockSize * z
        PROVE  x * BlockSize + k < y * BlockSize + l
    <2>1. BlockSize * (x + z) <= BlockSize * y  BY <1>1, <1>3
    <2>2. BlockSize * (x + z) = BlockSize * x + BlockSize * z  BY <1>1
    <2>3. x * BlockSize = BlockSize * x /\ y * BlockSize = BlockSize * y  BY <1>1
    <2>4. BlockSize * x \in Nat /\ BlockSize * y \in Nat /\ BlockSize * z \in Nat  BY <1>1
    <2>5. QED  BY <1>3, <2>1, <2>2, <2>3, <2>4
  <1>4. a + c <= b \/ b + d <= a
    <2>1. a \in a..a + c - 1 /\ b \in b..b + d - 1  BY <1>2
    <2>2. b < a + c /\ a <= b => b \in a..a + c - 1  OBVIOUS
    <2>3. a < b + d /\ b <= a => a \in b..b + d - 1  OBVIOUS
    <2>4. QED  BY <2>1, <2>2, <2>3
  <1>5. a * BlockSize \in Nat /\ b * BlockSize \in Nat  BY <1>1
  <1>6. CASE a + c <= b
    <2>1. a * BlockSize + i < b * BlockSize + j  BY <1>3, <1>6
    <2>2. QED  BY <1>5, <2>1
  <1>7. CASE b + d <= a
    <2>1. b * BlockSize + j < a * BlockSize + i  BY <1>3, <1>7
    <2>2. QED  BY <1>5, <2>1
  <1>8. QED  BY <1>4, <1>6, <1>7

-----------------------------------------------------------------------------
(* What one write does *)

\* A file that exists.
LEMMA ArchivoTipo ==
    ASSUME TiposFS, NEW f \in DOMAIN metadata
    PROVE  /\ f \in Archivos /\ Inicial(f) \in Nat /\ Tam(f) \in Nat /\ Tam(f) < Ancho
           /\ Actual(f) = Inicial(f)..Inicial(f) + CantidadBloques(Tam(f)) - 1
  <1>1. f \in Archivos /\ metadata[f] \in [inicial : Nat, tamanio : 0..Ancho - 1]  BY DEF TiposFS
  <1>2. QED  BY <1>1, Constantes DEF Inicial, Tam, Actual, BloquesDe

\* The write that comes next is of a bit, or the last one.
LEMMA Cabeza ==
    ASSUME TiposFS, Forma, pendiente # <<>>
    PROVE  /\ P = pendiente[1] /\ Ultimo \in Escritos /\ Dueno \in Archivos
           /\ P.que \in {"asignar", "liberar"} => 1 \in Bits /\ P.valor \in Resto /\ P.que = Bit
           /\ P.que \notin {"asignar", "liberar"} => Resto = {} /\ P = Ultimo /\ Tail(pendiente) = <<>>
  <1> DEFINE n == Len(pendiente)
  <1>1. pendiente \in Seq(Escritos) /\ n \in Nat /\ n > 0 /\ n \in DOMAIN pendiente
        /\ P = pendiente[1]
    BY DEF TiposFS, P
  <1>2. Bits = 1..n - 1 /\ Ultimo = pendiente[n]  BY DEF Bits, Ultimo
  <1>3. Ultimo \in Escritos /\ Dueno \in Archivos
    <2>1. Ultimo \in Escritos  BY <1>1, <1>2
    <2>2. QED  BY <2>1 DEF Escritos, Dueno
  <1>4. n = 1 => Tail(pendiente) = <<>>
    <2> DEFINE t == Tail(pendiente)
    <2>1. Len(t) = n - 1 /\ t \in Seq(Escritos)  BY <1>1, HeadTailProperties
    <2>2. t = <<>> <=> Len(t) = 0
      <3> HIDE DEF t
      <3>1. QED  BY <2>1, EmptySeq
    <2> HIDE DEF t, n
    <2>3. n = 1 => t = <<>>  BY <2>1, <2>2
    <2>4. QED  BY <2>3 DEF t
  <1> HIDE DEF n
  <1>5. Ultimo.que \in {"crear", "unlink", "tamanio"}  BY DEF Forma, Cierre
  <1>6. CASE n = 1
    <2>1. Bits = {} /\ P = Ultimo  BY <1>1, <1>2, <1>6
    <2>2. Resto = {}  BY <2>1 DEF Resto
    <2>3. P.que \notin {"asignar", "liberar"}  BY <1>5, <2>1
    <2>4. Tail(pendiente) = <<>>  BY <1>4, <1>6
    <2>5. P = Ultimo  BY <2>1
    <2>6. P = pendiente[1]  BY <1>1
    <2>7. QED  BY <1>3, <2>2, <2>3, <2>4, <2>5, <2>6, Zenon
  <1>7. CASE n # 1
    <2>1. 1 \in Bits  BY <1>1, <1>2, <1>7
    <2>2. P.valor \in Resto  BY <1>1, <2>1 DEF Resto
    <2>3. P.que = Bit  BY <1>1, <2>1 DEF Forma, BitsEnOrden
    <2>4. Bit \in {"asignar", "liberar"}  BY DEF Bit
    <2>5. QED  BY <1>1, <1>3, <2>1, <2>2, <2>3, <2>4
  <1>8. QED  BY <1>6, <1>7

\* Once a bit is written, the others are left.
LEMMA BitMenos ==
    ASSUME TiposFS, Forma, pendiente # <<>>, 1 \in Bits, pendiente' = Tail(pendiente), operacion' = operacion
    PROVE  /\ pendiente' \in Seq(Escritos) /\ pendiente' # <<>> /\ Ultimo' = Ultimo
           /\ Resto' = Resto \ {P.valor}
           /\ \A i \in Bits' : pendiente'[i].que = Bit
           /\ \A i, j \in Bits' : pendiente'[i].valor = pendiente'[j].valor => i = j
  <1> DEFINE n == Len(pendiente)
  <1>1. n \in Nat /\ n > 1 /\ pendiente \in Seq(Escritos) /\ P = pendiente[1]  BY DEF TiposFS, Bits, P
  <1>2. pendiente' \in Seq(Escritos) /\ Len(pendiente') = n - 1
        /\ \A i \in 1..n - 1 : pendiente'[i] = pendiente[i + 1]
    BY <1>1
  <1>3. Bits = 1..n - 1 /\ Bits' = 1..n - 2  BY <1>1, <1>2 DEF Bits
  <1>4. Ultimo' = Ultimo
    <2>1. n - 1 \in 1..n - 1 /\ (n - 1) + 1 = n  BY <1>1
    <2>2. pendiente'[n - 1] = pendiente[n]  BY <1>2, <2>1
    <2>3. QED  BY <1>2, <2>2 DEF Ultimo
  <1> HIDE DEF n
  <1>5. \A i \in Bits' : i + 1 \in Bits /\ i \in 1..n - 1 /\ i + 1 # 1  BY <1>1, <1>3
  <1>6. \A i \in Bits : i # 1 => i - 1 \in Bits' /\ (i - 1) + 1 = i  BY <1>1, <1>3
  <1>7. \A i \in Bits' : pendiente'[i] = pendiente[i + 1]  BY <1>2, <1>5
  <1>8. \A i \in Bits' : pendiente'[i].que = Bit
    BY <1>5, <1>7 DEF Forma, BitsEnOrden
  <1>9. \A i, j \in Bits : pendiente[i].valor = pendiente[j].valor => i = j  BY DEF Forma, BitsEnOrden
  <1>10. \A i, j \in Bits' : pendiente'[i].valor = pendiente'[j].valor => i = j
    <2> TAKE i \in Bits', j \in Bits'
    <2>1. i + 1 = j + 1 => i = j  BY <1>3, <1>1
    <2>2. QED  BY <1>5, <1>7, <1>9, <2>1
  <1>11. Resto' = Resto \ {P.valor}
    <2>1. ASSUME NEW v \in Resto' PROVE v \in Resto \ {P.valor}
      <3>1. PICK i \in Bits' : v = pendiente'[i].valor  BY <2>1 DEF Resto
      <3>2. i + 1 \in Bits /\ v = pendiente[i + 1].valor /\ i + 1 # 1  BY <1>5, <1>7, <3>1
      <3>3. v # P.valor  BY <1>1, <1>9, <3>2
      <3>4. QED  BY <3>2, <3>3 DEF Resto
    <2>2. ASSUME NEW v \in Resto, v # P.valor PROVE v \in Resto'
      <3>1. PICK i \in Bits : v = pendiente[i].valor  BY DEF Resto
      <3>2. i # 1  BY <1>1, <2>2, <3>1
      <3>3. i - 1 \in Bits' /\ pendiente'[i - 1] = pendiente[i]  BY <1>6, <1>7, <3>2
      <3>4. QED  BY <3>1, <3>3 DEF Resto
    <2>3. QED  BY <2>1, <2>2
  <1>12. pendiente' # <<>>
    <2>1. Len(pendiente') > 0 /\ Len(<<>>) = 0  BY <1>1, <1>2
    <2>2. QED  BY <2>1
  <1>13. QED  BY <1>2, <1>4, <1>8, <1>10, <1>11, <1>12

\* The blocks of a file are those of its metadata.
LEMMA ActualIgual ==
    ASSUME NEW f, UNCHANGED metadata
    PROVE  Actual(f)' = Actual(f) /\ Inicial(f)' = Inicial(f) /\ Tam(f)' = Tam(f)
  BY DEF Actual, BloquesDe, Inicial, Tam

\* What can be read stays there while neither the metadata nor the blocks change.
LEMMA LeibleIgual ==
    ASSUME Leible, DOMAIN escrito = Archivos, UNCHANGED <<metadata, bloques, escrito>>,
           pendiente' = <<>> \/ (pendiente # <<>> /\ Ultimo' = Ultimo)
    PROVE  Leible'
  <1> SUFFICES ASSUME NEW f \in Archivos, NEW i \in DOMAIN escrito[f]
               PROVE  /\ f \in DOMAIN metadata /\ i \in Nat /\ i < Tam(f)'
                      /\ Ocupado(f)' => Ultimo'.que = "tamanio" /\ i < Ultimo'.valor
                      /\ Byte(f, i)' \in Bytes /\ Leido(f, i)' = escrito[f][i]
    BY DEF Leible
  <1>1. Byte(f, i)' = Byte(f, i) /\ Leido(f, i)' = Leido(f, i) /\ Tam(f)' = Tam(f)
    BY ActualIgual DEF Byte, Leido
  <1>2. Ocupado(f)' => Ocupado(f) /\ Ultimo' = Ultimo  BY DEF Ocupado
  <1>3. QED  BY <1>1, <1>2 DEF Leible

-----------------------------------------------------------------------------
(* The blocks of the files as a step goes by *)

\* Between two operations, the blocks of a file are those of its metadata.
LEMMA EnReposo ==
    ASSUME NEW f, pendiente = <<>>
    PROVE  Final(f) = Actual(f) /\ Puestos(f) = Actual(f)
  BY DEF Final, Puestos, Ocupado

\* A file of which nobody asks anything.
LEMMA Desocupado ==
    ASSUME NEW f, ~Ocupado(f)
    PROVE  Final(f) = Actual(f) /\ Puestos(f) = Actual(f)
  BY DEF Final, Puestos

\* The blocks of each file, when no file gets any that it did not have or was to have.
LEMMA AparteMenos ==
    ASSUME Aparte, \A f \in Archivos : (Actual(f)' \union Final(f)') \subseteq (Actual(f) \union Final(f))
    PROVE  Aparte'
  <1>1. SUFFICES ASSUME NEW f \in Archivos, NEW g \in Archivos, f # g
                 PROVE  (Actual(f)' \union Final(f)') \intersect (Actual(g)' \union Final(g)') = {}
    BY DEF Aparte
  <1>2. (Actual(f) \union Final(f)) \intersect (Actual(g) \union Final(g)) = {}  BY <1>1 DEF Aparte
  <1>3. QED  BY <1>2

\* Nothing is begun and nothing ends.
LEMMA SinObra ==
    ASSUME Aparte, Cubiertos, SinSobrantes, pendiente = <<>>, pendiente' = <<>>,
           UNCHANGED <<metadata, bitmap, fuga>>
    PROVE  Forma' /\ Aparte' /\ Cubiertos' /\ SinSobrantes'
  <1>1. Forma'  BY DEF Forma
  <1>2. \A f \in Archivos : Actual(f)' = Actual(f)  BY ActualIgual
  <1>3. \A f \in Archivos : Final(f)' = Actual(f)' /\ Puestos(f)' = Actual(f)'
    BY DEF Final, Puestos, Ocupado
  <1>4. \A f \in Archivos : Final(f) = Actual(f) /\ Puestos(f) = Actual(f)  BY EnReposo
  <1>5. Aparte'  BY <1>2, <1>3, <1>4, AparteMenos
  <1>6. \A f \in Archivos : Puestos(f)' = Puestos(f)  BY <1>2, <1>3, <1>4
  <1>7. QED  BY <1>1, <1>5, <1>6 DEF Cubiertos, SinSobrantes

\* An operation begins on one file: the bits that are set are still those of its metadata, and
\* it is to have no block of another's.
LEMMA Empezar ==
    ASSUME Aparte, Cubiertos, SinSobrantes, pendiente = <<>>, UNCHANGED <<metadata, bitmap, fuga>>,
           NEW f \in Archivos, Dueno' = f, pendiente' # <<>>, Puestos(f)' = Actual(f),
           \A g \in Archivos \ {f} : Final(f)' \intersect Actual(g) = {}
    PROVE  Aparte' /\ Cubiertos' /\ SinSobrantes'
  <1>1. \A g \in Archivos : Actual(g)' = Actual(g)  BY ActualIgual
  <1>2. \A g \in Archivos \ {f} : Final(g)' = Actual(g)' /\ Puestos(g)' = Actual(g)'
    BY DEF Final, Puestos, Ocupado, Dueno
  <1>3. \A g \in Archivos : Final(g) = Actual(g) /\ Puestos(g) = Actual(g)  BY EnReposo
  <1>4. \A g, h \in Archivos : g # h => Actual(g) \intersect Actual(h) = {}  BY DEF Aparte
  <1>5. Aparte'
    <2>1. SUFFICES ASSUME NEW g \in Archivos, NEW h \in Archivos, g # h
                   PROVE  (Actual(g)' \union Final(g)') \intersect (Actual(h)' \union Final(h)') = {}
      BY DEF Aparte
    <2>2. Actual(g) \intersect Actual(h) = {}  BY <1>4, <2>1
    <2>3. CASE g = f
      <3>1. Final(h)' = Actual(h) /\ Final(f)' \intersect Actual(h) = {}  BY <1>1, <1>2, <2>1, <2>3
      <3>2. QED  BY <1>1, <2>2, <2>3, <3>1
    <2>4. CASE h = f
      <3>1. Final(g)' = Actual(g) /\ Final(f)' \intersect Actual(g) = {}  BY <1>1, <1>2, <2>1, <2>4
      <3>2. QED  BY <1>1, <2>2, <2>4, <3>1
    <2>5. CASE g # f /\ h # f
      <3>1. Final(g)' = Actual(g) /\ Final(h)' = Actual(h)  BY <1>1, <1>2, <2>5
      <3>2. QED  BY <1>1, <2>2, <3>1
    <2>6. QED  BY <2>3, <2>4, <2>5
  <1>6. \A g \in Archivos : Puestos(g)' = Puestos(g)  BY <1>1, <1>2, <1>3
  <1>7. QED  BY <1>5, <1>6 DEF Cubiertos, SinSobrantes

\* The last write of an operation: the metadata has what it was to have.
LEMMA Asentar ==
    ASSUME Aparte, Cubiertos, SinSobrantes, pendiente # <<>>, Resto = {}, pendiente' = <<>>,
           UNCHANGED <<bitmap, fuga>>, \A f \in Archivos : Actual(f)' = Final(f)
    PROVE  Forma' /\ Aparte' /\ Cubiertos' /\ SinSobrantes'
  <1>1. Forma'  BY DEF Forma
  <1>2. \A f \in Archivos : Final(f)' = Actual(f)' /\ Puestos(f)' = Actual(f)'
    BY DEF Final, Puestos, Ocupado
  <1>3. \A f \in Archivos : Puestos(f) = Final(f)
    <2>1. \A f \in Archivos : ~Ocupado(f) => Puestos(f) = Final(f)  BY Desocupado
    <2>2. \A f \in Archivos : Ocupado(f) => Puestos(f) = Final(f)  BY DEF Puestos
    <2>3. QED  BY <2>1, <2>2
  <1>4. Aparte'  BY <1>2, AparteMenos
  <1>5. \A f \in Archivos : Puestos(f)' = Puestos(f)  BY <1>2, <1>3
  <1>6. QED  BY <1>1, <1>4, <1>5 DEF Cubiertos, SinSobrantes

\* The interface is killed, or exits, in the middle of an operation that gives a file blocks.
LEMMA CaerPaso ==
    ASSUME Forma, Aparte, Cubiertos, Caer, danio' = {}, pendiente # <<>>, UNCHANGED <<metadata, bitmap>>
    PROVE  Forma' /\ Aparte' /\ Cubiertos' /\ SinSobrantes'
  <1>1. pendiente' = <<>> /\ fuga' = TRUE  BY DEF Caer
  <1>2. Crece
    <2>1. operacion \notin {"borrar", "acortar"}  BY DEF Caer, Daniar
    <2>2. operacion \in {"crear", "borrar", "acortar", "agrandar"}  BY DEF Forma, Cierre
    <2>3. QED  BY <2>1, <2>2 DEF Crece
  <1>3. \A f \in Archivos : Actual(f)' = Actual(f)  BY ActualIgual
  <1>4. \A f \in Archivos : Final(f)' = Actual(f)' /\ Puestos(f)' = Actual(f)'
    BY <1>1 DEF Final, Puestos, Ocupado
  <1>5. Aparte'  BY <1>3, <1>4, AparteMenos
  <1>6. \A f \in Archivos : Actual(f) \subseteq Puestos(f)
    <2>1. TAKE f \in Archivos
    <2>2. CASE ~Ocupado(f)  BY <2>2, Desocupado
    <2>3. CASE Ocupado(f)
      <3>1. f = Dueno  BY <2>3 DEF Ocupado, Dueno
      <3>2. Actual(f) \subseteq Final(f) \ Resto  BY <1>2, <3>1 DEF Forma
      <3>3. QED  BY <1>2, <2>3, <3>2 DEF Puestos
    <2>4. QED  BY <2>2, <2>3
  <1>7. Cubiertos'  BY <1>3, <1>4, <1>6 DEF Cubiertos
  <1>8. QED  BY <1>1, <1>5, <1>7 DEF Forma, SinSobrantes

\* A bit that is written leaves what the files have, and are to have.
LEMMA BitIgual ==
    ASSUME TiposFS, Forma, pendiente # <<>>, 1 \in Bits, pendiente' = Tail(pendiente),
           UNCHANGED <<operacion, metadata>>, NEW f
    PROVE  /\ Ocupado(f)' <=> Ocupado(f)
           /\ Actual(f)' = Actual(f) /\ Final(f)' = Final(f) /\ (Crece' <=> Crece)
  <1>1. Ultimo' = Ultimo /\ pendiente' # <<>>  BY BitMenos
  <1>2. Ocupado(f)' <=> Ocupado(f)  BY <1>1 DEF Ocupado
  <1>3. Actual(f)' = Actual(f) /\ Inicial(f)' = Inicial(f)  BY ActualIgual
  <1>4. Final(f)' = Final(f)  BY <1>1, <1>2, <1>3 DEF Final
  <1>5. QED  BY <1>2, <1>3, <1>4 DEF Crece

\* What is left of the operation still is one.
LEMMA BitForma ==
    ASSUME TiposFS, Forma, pendiente # <<>>, 1 \in Bits, pendiente' = Tail(pendiente),
           UNCHANGED <<operacion, metadata, viva>>
    PROVE  Forma'
  <1>1. /\ pendiente' # <<>> /\ Ultimo' = Ultimo /\ Resto' \subseteq Resto
        /\ \A i \in Bits' : pendiente'[i].que = Bit
        /\ \A i, j \in Bits' : pendiente'[i].valor = pendiente'[j].valor => i = j
    BY BitMenos
  <1>2. Dueno' = Dueno /\ Bit' = Bit /\ (Crece' <=> Crece)  BY <1>1 DEF Dueno, Bit, Crece
  <1>3. Actual(Dueno)' = Actual(Dueno) /\ Final(Dueno)' = Final(Dueno)
    <2>1. PICK f : f = Dueno  OBVIOUS
    <2>2. Actual(f)' = Actual(f) /\ Final(f)' = Final(f)  BY BitIgual
    <2>3. QED  BY <1>2, <2>1, <2>2
  <1>4. viva' /\ Cierre'
    <2>1. viva /\ Cierre  BY DEF Forma
    <2>2. QED  BY <1>1, <1>2, <2>1 DEF Cierre
  <1>5. BitsEnOrden'
    <2>1. Resto \subseteq Nat  BY DEF Forma, BitsEnOrden
    <2>2. QED  BY <1>1, <1>2, <2>1 DEF BitsEnOrden
  <1>6. /\ Crece => Actual(Dueno) \subseteq Final(Dueno) \ Resto /\ Resto \subseteq Final(Dueno)
        /\ ~Crece => Final(Dueno) \subseteq Actual(Dueno) \ Resto /\ Resto \subseteq Actual(Dueno)
    BY DEF Forma
  <1>7. /\ Crece' => Actual(Dueno)' \subseteq Final(Dueno)' \ Resto' /\ Resto' \subseteq Final(Dueno)'
        /\ ~Crece' => Final(Dueno)' \subseteq Actual(Dueno)' \ Resto' /\ Resto' \subseteq Actual(Dueno)'
    BY <1>1, <1>2, <1>3, <1>6
  <1>8. QED  BY <1>4, <1>5, <1>7 DEF Forma

\* A block is taken: the file that grows has one bit more.
LEMMA AsignarPaso ==
    ASSUME Sano, AsignarBloque, P.valor < MaxBit
    PROVE  Forma' /\ Aparte' /\ Cubiertos' /\ SinSobrantes' /\ bitmap' \subseteq 0..MaxBit - 1
           /\ pendiente' \in Seq(Escritos) /\ Ultimo' = Ultimo /\ pendiente # <<>>
  <1>1. /\ TiposFS /\ Forma /\ Aparte /\ Cubiertos /\ SinSobrantes /\ pendiente # <<>>
        /\ P.que = "asignar" /\ pendiente' = Tail(pendiente) /\ UNCHANGED <<operacion, metadata, viva, fuga>>
        /\ bitmap' = bitmap \union {P.valor}
    <2>1. /\ P.valor < MaxBit /\ Seguir /\ bitmap' = bitmap \union {P.valor} /\ UNCHANGED fuga
      <3>1. P.valor \in Nat
        <4>1. P.que \in {"asignar", "liberar"} /\ TiposFS /\ Forma /\ pendiente # <<>>
          BY DEF Sano, AsignarBloque, Sigue
        <4>2. P.valor \in Resto  BY <4>1, Cabeza
        <4>3. QED  BY <4>1, <4>2 DEF Forma, BitsEnOrden
      <3>2. ~(P.valor >= MaxBit)  BY <3>1, Constantes
      <3>3. QED  BY <3>2 DEF AsignarBloque
    <2>2. QED  BY <2>1 DEF Sano, AsignarBloque, Sigue, Seguir
  <1>2. 1 \in Bits /\ P.valor \in Resto /\ Bit = "asignar"  BY <1>1, Cabeza
  <1>3. Crece  BY <1>2 DEF Bit
  <1>4. P.valor \in Nat  BY <1>1, <1>2 DEF Forma, BitsEnOrden
  <1>5. Ultimo' = Ultimo /\ pendiente' \in Seq(Escritos) /\ Resto' = Resto \ {P.valor}
    BY <1>1, <1>2, BitMenos
  <1>6. Forma'  BY <1>1, <1>2, BitForma
  <1>7. \A f \in Archivos : /\ Ocupado(f)' <=> Ocupado(f)
                            /\ Actual(f)' = Actual(f) /\ Final(f)' = Final(f) /\ (Crece' <=> Crece)
    BY <1>1, <1>2, BitIgual
  <1>8. Aparte'  BY <1>1, <1>7, AparteMenos
  <1>9. \A f \in Archivos : Puestos(f)' = IF Ocupado(f) THEN Puestos(f) \union {P.valor} ELSE Puestos(f)
    <2>1. TAKE f \in Archivos
    <2>2. CASE ~Ocupado(f)
      <3>1. Puestos(f)' = Actual(f)' /\ Puestos(f) = Actual(f)  BY <1>7, <2>2 DEF Puestos
      <3>2. QED  BY <1>7, <2>2, <3>1
    <2>3. CASE Ocupado(f)
      <3>1. f = Dueno  BY <2>3 DEF Ocupado, Dueno
      <3>2. P.valor \in Final(f)  BY <1>1, <1>2, <1>3, <3>1 DEF Forma
      <3>3. Puestos(f) = Final(f) \ Resto  BY <1>3, <2>3 DEF Puestos
      <3>4. Puestos(f)' = Final(f)' \ Resto'  BY <1>3, <1>7, <2>3 DEF Puestos
      <3>5. QED  BY <1>2, <1>5, <1>7, <2>3, <3>2, <3>3, <3>4
    <2>4. QED  BY <2>2, <2>3
  <1>10. Cubiertos'  BY <1>1, <1>9 DEF Cubiertos
  <1>11. Ocupado(Dueno) /\ Dueno \in Archivos
    <2>1. Dueno \in Archivos  BY <1>1, Cabeza
    <2>2. QED  BY <1>1, <2>1 DEF Ocupado, Dueno
  <1>12. SinSobrantes'
    <2>1. SUFFICES ASSUME ~fuga, NEW b \in bitmap' PROVE \E f \in Archivos : b \in Puestos(f)'
      BY <1>1 DEF SinSobrantes
    <2>2. CASE b = P.valor
      <3>1. PICK f \in Archivos : f = Dueno  BY <1>11
      <3>2. b \in Puestos(f)'  BY <1>9, <1>11, <2>2, <3>1
      <3>3. QED  BY <3>2
    <2>3. CASE b \in bitmap
      <3>1. PICK f \in Archivos : b \in Puestos(f)  BY <1>1, <2>1, <2>3 DEF SinSobrantes
      <3>2. b \in Puestos(f)'  BY <1>9, <3>1
      <3>3. QED  BY <3>2
    <2>4. QED  BY <1>1, <2>1, <2>2, <2>3
  <1>13. bitmap' \subseteq 0..MaxBit - 1
    <2>1. P.valor \in 0..MaxBit - 1  BY <1>4, Constantes
    <2>2. QED  BY <1>1, <2>1 DEF TiposFS
  <1>14. QED  BY <1>1, <1>5, <1>6, <1>8, <1>10, <1>12, <1>13

\* A block is given back: the file that shrinks has one bit less.
LEMMA LiberarPaso ==
    ASSUME Sano, LiberarBloque, P.valor < MaxBit
    PROVE  Forma' /\ Aparte' /\ Cubiertos' /\ SinSobrantes' /\ bitmap' \subseteq 0..MaxBit - 1
           /\ pendiente' \in Seq(Escritos) /\ Ultimo' = Ultimo /\ pendiente # <<>>
  <1>1. /\ TiposFS /\ Forma /\ Aparte /\ Cubiertos /\ SinSobrantes /\ pendiente # <<>>
        /\ P.que = "liberar" /\ pendiente' = Tail(pendiente) /\ UNCHANGED <<operacion, metadata, viva, fuga>>
        /\ bitmap' = bitmap \ {P.valor}
    <2>1. /\ P.valor < MaxBit /\ Seguir /\ bitmap' = bitmap \ {P.valor} /\ UNCHANGED fuga
      <3>1. P.valor \in Nat
        <4>1. P.que \in {"asignar", "liberar"} /\ TiposFS /\ Forma /\ pendiente # <<>>
          BY DEF Sano, LiberarBloque, Sigue
        <4>2. P.valor \in Resto  BY <4>1, Cabeza
        <4>3. QED  BY <4>1, <4>2 DEF Forma, BitsEnOrden
      <3>2. ~(P.valor >= MaxBit)  BY <3>1, Constantes
      <3>3. QED  BY <3>2 DEF LiberarBloque
    <2>2. QED  BY <2>1 DEF Sano, LiberarBloque, Sigue, Seguir
  <1>2. 1 \in Bits /\ P.valor \in Resto /\ Bit = "liberar"  BY <1>1, Cabeza
  <1>3. ~Crece  BY <1>2 DEF Bit
  <1>4. Ultimo' = Ultimo /\ pendiente' \in Seq(Escritos) /\ Resto' = Resto \ {P.valor}
    BY <1>1, <1>2, BitMenos
  <1>5. Forma'  BY <1>1, <1>2, BitForma
  <1>6. \A f \in Archivos : /\ Ocupado(f)' <=> Ocupado(f)
                            /\ Actual(f)' = Actual(f) /\ Final(f)' = Final(f) /\ (Crece' <=> Crece)
    BY <1>1, <1>2, BitIgual
  <1>7. Aparte'  BY <1>1, <1>6, AparteMenos
  <1>8. Ocupado(Dueno) /\ Dueno \in Archivos
    <2>1. Dueno \in Archivos  BY <1>1, Cabeza
    <2>2. QED  BY <1>1, <2>1 DEF Ocupado, Dueno
  <1>9. \A f \in Archivos : Puestos(f)' = Puestos(f) \ {P.valor}
    <2>1. TAKE f \in Archivos
    <2>2. CASE ~Ocupado(f)
      <3>1. Puestos(f)' = Actual(f)' /\ Puestos(f) = Actual(f)  BY <1>6, <2>2 DEF Puestos
      <3>2. P.valor \in Actual(Dueno)  BY <1>1, <1>2, <1>3 DEF Forma
      <3>3. f # Dueno  BY <1>8, <2>2
      <3>4. P.valor \notin Actual(f)  BY <1>1, <1>8, <3>2, <3>3 DEF Aparte
      <3>5. QED  BY <1>6, <3>1, <3>4
    <2>3. CASE Ocupado(f)
      <3>1. f = Dueno  BY <2>3 DEF Ocupado, Dueno
      <3>2. P.valor \notin Final(f)  BY <1>1, <1>2, <1>3, <3>1 DEF Forma
      <3>3. Puestos(f) = Final(f) \union Resto  BY <1>3, <2>3 DEF Puestos
      <3>4. Puestos(f)' = Final(f)' \union Resto'  BY <1>3, <1>6, <2>3 DEF Puestos
      <3>5. QED  BY <1>4, <1>6, <3>2, <3>3, <3>4
    <2>4. QED  BY <2>2, <2>3
  <1>10. Cubiertos'  BY <1>1, <1>9 DEF Cubiertos
  <1>11. SinSobrantes'
    <2>1. SUFFICES ASSUME ~fuga, NEW b \in bitmap' PROVE \E f \in Archivos : b \in Puestos(f)'
      BY <1>1 DEF SinSobrantes
    <2>2. b \in bitmap /\ b # P.valor  BY <1>1, <2>1
    <2>3. PICK f \in Archivos : b \in Puestos(f)  BY <1>1, <2>1, <2>2 DEF SinSobrantes
    <2>4. b \in Puestos(f)'  BY <1>9, <2>2, <2>3
    <2>5. QED  BY <2>4
  <1>12. QED  BY <1>1, <1>4, <1>5, <1>7, <1>10, <1>11 DEF TiposFS

-----------------------------------------------------------------------------
(* The writes of metadata *)

\* The last write of an operation finds no bit left to write.
LEMMA UltimaEscritura ==
    ASSUME Sano, NEW que, que \notin {"asignar", "liberar"}, NEW m, Grabar(que, m)
    PROVE  /\ pendiente # <<>> /\ pendiente' = <<>> /\ Resto = {} /\ P = Ultimo /\ Ultimo.que = que
           /\ metadata' = m /\ UNCHANGED <<bitmap, bloques, danio, fuga, cuenta, cortes, escrito>>
           /\ Dueno \in Archivos /\ (\A f \in Archivos : Ocupado(f) <=> f = Dueno)
  <1>1. /\ TiposFS /\ Forma /\ pendiente # <<>> /\ P.que = que /\ pendiente' = Tail(pendiente)
        /\ metadata' = m /\ UNCHANGED <<bitmap, bloques, danio, fuga, cuenta, cortes, escrito>>
    BY DEF Sano, Grabar, Sigue, Seguir, Estables
  <1>2. P = Ultimo /\ Resto = {} /\ Tail(pendiente) = <<>> /\ Dueno \in Archivos  BY <1>1, Cabeza
  <1>3. \A f \in Archivos : Ocupado(f) <=> f = Dueno  BY <1>1 DEF Ocupado, Dueno
  <1>4. QED  BY <1>1, <1>2, <1>3

\* A file of size zero, in the block whose bit has just been set.
LEMMA CrearMetadataPaso == ASSUME Sano, CrearMetadata PROVE Sano'
  <1>1. PICK f : f = Dueno  OBVIOUS
  <1> DEFINE v == Ultimo.valor
  <1>2. /\ pendiente # <<>> /\ pendiente' = <<>> /\ Resto = {} /\ P = Ultimo /\ Ultimo.que = "crear"
        /\ metadata' = Con(P.archivo, P.valor, 0)
        /\ UNCHANGED <<bitmap, bloques, danio, fuga, cuenta, cortes, escrito>>
        /\ f \in Archivos /\ (\A g \in Archivos : Ocupado(g) <=> g = f)
    BY <1>1, UltimaEscritura DEF CrearMetadata
  <1>3. f \notin DOMAIN metadata /\ v \in Nat  BY <1>1, <1>2 DEF Sano, Forma, Cierre
  <1>4. /\ DOMAIN metadata' = DOMAIN metadata \union {f}
        /\ metadata'[f] = [inicial |-> v, tamanio |-> 0]
        /\ \A g \in DOMAIN metadata : metadata'[g] = metadata[g]
    BY <1>1, <1>2, <1>3 DEF Con, Dueno
  <1>5. CantidadBloques(0) = 1  BY Cantidad
  <1>6. Actual(f)' = Final(f)
    <2>1. Actual(f)' = v..v + CantidadBloques(0) - 1  BY <1>4 DEF Actual, BloquesDe, Inicial, Tam
    <2>2. v..v + 1 - 1 = {v}  BY <1>3
    <2>3. Final(f) = {v}  BY <1>2 DEF Final
    <2>4. QED  BY <1>5, <2>1, <2>2, <2>3
  <1>7. \A g \in Archivos : g # f => Actual(g)' = Final(g)
    <2>1. TAKE g \in Archivos
    <2>2. HAVE g # f
    <2>3. Final(g) = Actual(g)  BY <1>2, <2>2, Desocupado
    <2>4. Actual(g)' = Actual(g)  BY <1>4, <2>2 DEF Actual, BloquesDe, Inicial, Tam
    <2>5. QED  BY <2>3, <2>4
  <1>8. Forma' /\ Aparte' /\ Cubiertos' /\ SinSobrantes'
    <2>1. \A g \in Archivos : Actual(g)' = Final(g)  BY <1>6, <1>7
    <2>2. QED  BY <1>2, <2>1, Asentar DEF Sano
  <1>9. TiposFS'
    <2>1. DOMAIN metadata' \subseteq Archivos  BY <1>2, <1>4 DEF Sano, TiposFS
    <2>2. metadata'[f] \in [inicial : Nat, tamanio : 0..Ancho - 1]  BY <1>3, <1>4, Constantes
    <2>3. \A g \in DOMAIN metadata' : metadata'[g] \in [inicial : Nat, tamanio : 0..Ancho - 1]
      BY <1>4, <2>2 DEF Sano, TiposFS
    <2>4. pendiente' \in Seq(Escritos)  BY <1>2
    <2>5. QED  BY <1>2, <2>1, <2>3, <2>4 DEF Sano, TiposFS, Bytes
  <1>10. Leible'
    <2>1. SUFFICES ASSUME NEW g \in Archivos, NEW i \in DOMAIN escrito[g]
                   PROVE  /\ g \in DOMAIN metadata' /\ i \in Nat /\ i < Tam(g)'
                          /\ Byte(g, i)' \in Bytes /\ Leido(g, i)' = escrito[g][i]
      BY <1>2 DEF Leible, Ocupado, Bytes
    <2>2. /\ g \in DOMAIN metadata /\ i \in Nat /\ i < Tam(g)
          /\ Byte(g, i) \in Bytes /\ Leido(g, i) = escrito[g][i]
      BY DEF Sano, Leible
    <2>3. metadata'[g] = metadata[g]  BY <1>4, <2>2
    <2>4. Tam(g)' = Tam(g) /\ Byte(g, i)' = Byte(g, i)  BY <2>3 DEF Tam, Byte, Inicial
    <2>5. Leido(g, i)' = Leido(g, i)  BY <1>2, <2>4 DEF Leido
    <2>6. QED  BY <1>4, <2>2, <2>4, <2>5
  <1>11. QED  BY <1>8, <1>9, <1>10 DEF Sano

\* The size that a truncation asked for.
LEMMA ActualizarTamanioPaso == ASSUME Sano, ActualizarTamanio PROVE Sano'
  <1>1. PICK f : f = Dueno  OBVIOUS
  <1> DEFINE v == Ultimo.valor
  <1>2. /\ pendiente # <<>> /\ pendiente' = <<>> /\ Resto = {} /\ P = Ultimo /\ Ultimo.que = "tamanio"
        /\ metadata' = Con(P.archivo, Inicial(P.archivo), P.valor)
        /\ UNCHANGED <<bitmap, bloques, danio, fuga, cuenta, cortes, escrito>>
        /\ f \in Archivos /\ (\A g \in Archivos : Ocupado(g) <=> g = f)
    BY <1>1, UltimaEscritura DEF ActualizarTamanio
  <1>3. f \in DOMAIN metadata /\ v \in 0..Ancho - 1 /\ TiposFS  BY <1>1, <1>2 DEF Sano, Forma, Cierre
  <1>4. /\ DOMAIN metadata' = DOMAIN metadata
        /\ metadata'[f] = [inicial |-> Inicial(f), tamanio |-> v]
        /\ \A g \in DOMAIN metadata : g # f => metadata'[g] = metadata[g]
    BY <1>1, <1>2, <1>3 DEF Con, Dueno
  <1>5. Inicial(f)' = Inicial(f) /\ Tam(f)' = v  BY <1>4 DEF Inicial, Tam
  <1>6. Actual(f)' = Final(f)
    <2>1. Actual(f)' = Inicial(f)..Inicial(f) + CantidadBloques(v) - 1
      BY <1>3, <1>4, <1>5 DEF Actual, BloquesDe
    <2>2. Final(f) = Inicial(f)..Inicial(f) + CantidadBloques(v) - 1  BY <1>2 DEF Final
    <2>3. QED  BY <2>1, <2>2
  <1>7. \A g \in Archivos : g # f => Actual(g)' = Final(g)
    <2>1. TAKE g \in Archivos
    <2>2. HAVE g # f
    <2>3. Final(g) = Actual(g)  BY <1>2, <2>2, Desocupado
    <2>4. Actual(g)' = Actual(g)  BY <1>4, <2>2 DEF Actual, BloquesDe, Inicial, Tam
    <2>5. QED  BY <2>3, <2>4
  <1>8. Forma' /\ Aparte' /\ Cubiertos' /\ SinSobrantes'
    <2>1. \A g \in Archivos : Actual(g)' = Final(g)  BY <1>6, <1>7
    <2>2. QED  BY <1>2, <2>1, Asentar DEF Sano
  <1>9. TiposFS'
    <2>1. DOMAIN metadata' \subseteq Archivos  BY <1>3, <1>4 DEF TiposFS
    <2>2. metadata'[f] \in [inicial : Nat, tamanio : 0..Ancho - 1]  BY <1>3, <1>4, ArchivoTipo
    <2>3. \A g \in DOMAIN metadata' : metadata'[g] \in [inicial : Nat, tamanio : 0..Ancho - 1]
      BY <1>3, <1>4, <2>2 DEF TiposFS
    <2>4. pendiente' \in Seq(Escritos)  BY <1>2
    <2>5. QED  BY <1>2, <1>3, <2>1, <2>3, <2>4 DEF TiposFS, Bytes
  <1>10. Leible'
    <2>1. SUFFICES ASSUME NEW g \in Archivos, NEW i \in DOMAIN escrito[g]
                   PROVE  /\ g \in DOMAIN metadata' /\ i \in Nat /\ i < Tam(g)'
                          /\ Byte(g, i)' \in Bytes /\ Leido(g, i)' = escrito[g][i]
      BY <1>2 DEF Leible, Ocupado, Bytes
    <2>2. /\ g \in DOMAIN metadata /\ i \in Nat /\ i < Tam(g) /\ (g = f => i < v)
          /\ Byte(g, i) \in Bytes /\ Leido(g, i) = escrito[g][i]
      BY <1>2 DEF Sano, Leible
    <2>3. Inicial(g)' = Inicial(g) /\ i < Tam(g)'
      <3>1. CASE g = f  BY <1>5, <2>2, <3>1
      <3>2. CASE g # f
        <4>1. metadata'[g] = metadata[g]  BY <1>4, <2>2, <3>2
        <4>2. QED  BY <2>2, <4>1 DEF Inicial, Tam
      <3>3. QED  BY <3>1, <3>2
    <2>4. Byte(g, i)' = Byte(g, i)  BY <2>3 DEF Byte
    <2>5. Leido(g, i)' = Leido(g, i)  BY <1>2, <2>4 DEF Leido
    <2>6. QED  BY <1>4, <2>2, <2>3, <2>4, <2>5
  <1>11. QED  BY <1>8, <1>9, <1>10 DEF Sano

\* The file is gone.
LEMMA BorrarMetadataPaso == ASSUME Sano, BorrarMetadata PROVE Sano'
  <1>1. PICK f : f = Dueno  OBVIOUS
  <1>2. /\ pendiente # <<>> /\ pendiente' = <<>> /\ Resto = {} /\ P = Ultimo /\ Ultimo.que = "unlink"
        /\ metadata' = [g \in DOMAIN metadata \ {P.archivo} |-> metadata[g]]
        /\ UNCHANGED <<bitmap, bloques, danio, fuga, cuenta, cortes, escrito>>
        /\ f \in Archivos /\ (\A g \in Archivos : Ocupado(g) <=> g = f)
    BY <1>1, UltimaEscritura DEF BorrarMetadata
  <1>3. /\ DOMAIN metadata' = DOMAIN metadata \ {f}
        /\ \A g \in DOMAIN metadata : g # f => metadata'[g] = metadata[g]
    BY <1>1, <1>2 DEF Dueno
  <1>4. Actual(f)' = Final(f)  BY <1>2, <1>3 DEF Actual, Final
  <1>5. \A g \in Archivos : g # f => Actual(g)' = Final(g)
    <2>1. TAKE g \in Archivos
    <2>2. HAVE g # f
    <2>3. Final(g) = Actual(g)  BY <1>2, <2>2, Desocupado
    <2>4. Actual(g)' = Actual(g)  BY <1>3, <2>2 DEF Actual, BloquesDe, Inicial, Tam
    <2>5. QED  BY <2>3, <2>4
  <1>6. Forma' /\ Aparte' /\ Cubiertos' /\ SinSobrantes'
    <2>1. \A g \in Archivos : Actual(g)' = Final(g)  BY <1>4, <1>5
    <2>2. QED  BY <1>2, <2>1, Asentar DEF Sano
  <1>7. TiposFS'
    <2>1. DOMAIN metadata' \subseteq Archivos  BY <1>3 DEF Sano, TiposFS
    <2>2. \A g \in DOMAIN metadata' : metadata'[g] \in [inicial : Nat, tamanio : 0..Ancho - 1]
      BY <1>3 DEF Sano, TiposFS
    <2>3. pendiente' \in Seq(Escritos)  BY <1>2
    <2>4. QED  BY <1>2, <2>1, <2>2, <2>3 DEF Sano, TiposFS, Bytes
  <1>8. Leible'
    <2>1. SUFFICES ASSUME NEW g \in Archivos, NEW i \in DOMAIN escrito[g]
                   PROVE  /\ g \in DOMAIN metadata' /\ i \in Nat /\ i < Tam(g)'
                          /\ Byte(g, i)' \in Bytes /\ Leido(g, i)' = escrito[g][i]
      BY <1>2 DEF Leible, Ocupado, Bytes
    <2>2. /\ g \in DOMAIN metadata /\ i \in Nat /\ i < Tam(g) /\ g # f
          /\ Byte(g, i) \in Bytes /\ Leido(g, i) = escrito[g][i]
      BY <1>2 DEF Sano, Leible
    <2>3. metadata'[g] = metadata[g]  BY <1>3, <2>2
    <2>4. Tam(g)' = Tam(g) /\ Byte(g, i)' = Byte(g, i)  BY <2>3 DEF Tam, Byte, Inicial
    <2>5. Leido(g, i)' = Leido(g, i)  BY <1>2, <2>4 DEF Leido
    <2>6. QED  BY <1>3, <2>2, <2>4, <2>5
  <1>9. QED  BY <1>6, <1>7, <1>8 DEF Sano

-----------------------------------------------------------------------------
(* The requests *)

\* Nothing that was written moves while the bytes, the metadata and what is pending stay.
LEMMA Rechazo ==
    ASSUME Sano, pendiente = <<>>, pendiente' = <<>>, cuenta' \in Nat,
           UNCHANGED <<metadata, bitmap, bloques, fuga, escrito>>
    PROVE  Sano'
  <1>1. Forma' /\ Aparte' /\ Cubiertos' /\ SinSobrantes'  BY SinObra DEF Sano
  <1>2. Leible'  BY LeibleIgual DEF Sano, TiposFS
  <1>3. TiposFS'  BY DEF Sano, TiposFS, Bytes
  <1>4. QED  BY <1>1, <1>2, <1>3 DEF Sano

\* What an operation that has just begun has to write: n bits, and then u.
Encarga(n, w, f, u) ==
    /\ n \in Nat /\ w \in [1..n -> Nat] /\ \A i, j \in 1..n : w[i] = w[j] => i = j
    /\ pendiente' = Append([i \in 1..n |-> Paso(Bit', f, w[i])], u)
    /\ u \in Escritos

\* An operation that a thread has just begun leaves the invariant as it was.
LEMMA Obra ==
    ASSUME NEW n, NEW w, NEW f \in Archivos, NEW u, Encarga(n, w, f, u)
    PROVE  /\ pendiente' \in Seq(Escritos) /\ pendiente' # <<>> /\ Ultimo' = u
           /\ (\A v : v \in Resto' <=> \E i \in 1..n : v = w[i]) /\ BitsEnOrden'
  <1> DEFINE que == Bit'
             q == [i \in 1..n |-> Paso(que, f, w[i])]
  <1>1. /\ n \in Nat /\ w \in [1..n -> Nat] /\ \A i, j \in 1..n : w[i] = w[j] => i = j
        /\ pendiente' = Append(q, u) /\ u \in Escritos /\ que \in {"asignar", "liberar"}
        /\ q = [i \in 1..n |-> Paso(que, f, w[i])] /\ que = Bit'
    BY DEF Encarga, Bit
  <1> HIDE DEF que, q
  <1>2. \A i \in 1..n : Paso(que, f, w[i]) \in Escritos
    <2>1. <<>> \in Seq(Nat)  BY EmptySeq
    <2>2. \A i \in 1..n : w[i] \in Int /\ que \in {"asignar", "liberar", "crear", "tamanio", "inicial", "unlink", "copiar", "reintentar"}
      BY <1>1
    <2>3. QED  BY <1>1, <2>1, <2>2 DEF Paso, Escritos
  <1>3. q \in Seq(Escritos) /\ Len(q) = n  BY <1>1, <1>2
  <1>4. /\ pendiente' \in Seq(Escritos) /\ Len(pendiente') = n + 1 /\ pendiente'[n + 1] = u
        /\ \A i \in 1..n : pendiente'[i] = q[i]
    BY <1>1, <1>3
  <1>5. Bits' = 1..n /\ Ultimo' = u  BY <1>1, <1>4 DEF Bits, Ultimo
  <1>6. \A i \in 1..n : pendiente'[i].que = que /\ pendiente'[i].valor = w[i]
    <2>1. \A i \in 1..n : q[i] = Paso(que, f, w[i])  BY <1>1
    <2>2. \A i \in 1..n : pendiente'[i] = Paso(que, f, w[i])  BY <1>4, <2>1
    <2>3. \A v : Paso(que, f, v).que = que /\ Paso(que, f, v).valor = v  BY DEF Paso
    <2>4. QED  BY <2>2, <2>3
  <1>7. Resto' = {w[i] : i \in 1..n}  BY <1>5, <1>6 DEF Resto
  <1>8. BitsEnOrden'
    <2>1. \A i \in Bits' : pendiente'[i].que = Bit'  BY <1>1, <1>5, <1>6
    <2>2. \A i, j \in Bits' : pendiente'[i].valor = pendiente'[j].valor => i = j  BY <1>1, <1>5, <1>6
    <2>3. Resto' \subseteq Nat  BY <1>1, <1>7
    <2>4. QED  BY <2>1, <2>2, <2>3 DEF BitsEnOrden
  <1>9. pendiente' # <<>>
    <2>1. Len(<<>>) = 0  OBVIOUS
    <2>2. QED  BY <1>1, <1>4, <2>1
  <1>10. \A v : v \in Resto' <=> \E i \in 1..n : v = w[i]  BY <1>7
  <1>11. QED  BY <1>4, <1>5, <1>8, <1>9, <1>10

\* The block of a new file has its bit clear, so that it is no other file's.
LEMMA BloqueLibreEsLibre ==
    ASSUME BitsLibres # {}
    PROVE  BloqueLibre \in Nat /\ BloqueLibre < MaxBit /\ BloqueLibre \notin bitmap
  <1>1. BitsLibres \subseteq Nat  BY Constantes DEF BitsLibres
  <1>2. PICK b \in BitsLibres : \A c \in BitsLibres : <<c, b>> \notin OpToRel(<, Nat)
    BY <1>1, NatLessThanWellFounded, WFMin, Zenon
  <1>3. \A c \in BitsLibres : ~(c < b)  BY <1>1, <1>2, Zenon DEF OpToRel
  <1>4. \A c \in BitsLibres : b <= c  BY <1>1, <1>3
  <1>5. BloqueLibre \in BitsLibres  BY <1>4 DEF BloqueLibre, Min
  <1>6. QED  BY <1>5, Constantes DEF BitsLibres

\* crear_archivo: the bit of a free block, and the metadata.
LEMMA CrearPaso == ASSUME Sano, NEW f \in Archivos, Crear(f) PROVE Sano'
  <1>1. pendiente = <<>> /\ cuenta' \in Nat /\ viva /\ UNCHANGED <<metadata, bitmap, bloques, fuga, escrito>>
    BY DEF Sano, TiposFS, Crear, Pedido, disco, historia
  <1>2. CASE Rechazar
    <2>1. pendiente' = <<>>  BY <1>1, <1>2 DEF Rechazar
    <2>2. QED  BY <1>1, <2>1, Rechazo
  <1>3. CASE ~Existe(f) /\ BitsLibres # {}
             /\ Hacer("crear", <<Paso("asignar", f, BloqueLibre), Paso("crear", f, BloqueLibre)>>)
    <2>1. PICK b : b = BloqueLibre  OBVIOUS
    <2>2. b \in Nat /\ b < MaxBit /\ b \notin bitmap  BY <1>3, <2>1, BloqueLibreEsLibre
    <2> DEFINE w == [i \in 1..1 |-> b]
               q == [i \in 1..1 |-> Paso("asignar", f, w[i])]
               u == Paso("crear", f, b)
    <2>3. pendiente' = Append(q, u) /\ operacion' = "crear" /\ viva'
      <3>1. q = <<Paso("asignar", f, b)>>  OBVIOUS
      <3>2. <<Paso("asignar", f, b), u>> = Append(q, u)  BY <3>1
      <3>3. QED  BY <1>1, <1>3, <2>1, <3>2 DEF Hacer
    <2>4. u \in Escritos /\ u.archivo = f /\ u.que = "crear" /\ u.valor = b
      <3>1. <<>> \in Seq(Nat)  BY EmptySeq
      <3>2. QED  BY <2>2, <3>1 DEF Escritos, Paso
    <2>5. Crece' /\ Bit' = "asignar"  BY <2>3 DEF Crece, Bit
    <2>6. w \in [1..1 -> Nat] /\ \A i, j \in 1..1 : w[i] = w[j] => i = j  BY <2>2
    <2>7. /\ pendiente' \in Seq(Escritos) /\ pendiente' # <<>> /\ Ultimo' = u
          /\ (\A v : v \in Resto' <=> \E i \in 1..1 : v = w[i]) /\ BitsEnOrden'
      <3>1. Encarga(1, w, f, u)  BY <2>3, <2>4, <2>5, <2>6 DEF Encarga
      <3> HIDE DEF w, q, u
      <3>2. QED  BY <3>1, Obra
    <2>8. Resto' = {b}  BY <2>7
    <2> HIDE DEF w, q, u
    <2>9. /\ Dueno' = f /\ Ocupado(f)' /\ Final(f)' = {b} /\ Puestos(f)' = {}
          /\ Actual(f)' = {} /\ Actual(f) = {} /\ f \notin DOMAIN metadata
      <3>1. f \notin DOMAIN metadata  BY <1>3 DEF Existe
      <3>2. Dueno' = f /\ Ocupado(f)'  BY <2>4, <2>7 DEF Dueno, Ocupado
      <3>3. Final(f)' = {b}  BY <2>4, <2>7, <3>2 DEF Final
      <3>4. Puestos(f)' = {}  BY <2>5, <2>8, <3>2, <3>3 DEF Puestos
      <3>5. QED  BY <1>1, <3>1, <3>2, <3>3, <3>4 DEF Actual
    <2>10. Forma'
      <3>1. Cierre'
        <4>1. Ultimo'.que = "crear" /\ Ultimo'.valor \in Nat /\ Dueno' \notin DOMAIN metadata'
          BY <1>1, <2>2, <2>4, <2>7, <2>9
        <4>2. QED  BY <2>3, <4>1 DEF Cierre
      <3>2. Actual(Dueno)' = {} /\ Final(Dueno)' = {b}  BY <2>9
      <3>3. QED  BY <2>3, <2>5, <2>7, <2>8, <3>1, <3>2 DEF Forma
    <2>11. Aparte' /\ Cubiertos' /\ SinSobrantes'
      <3>1. \A g \in Archivos : Actual(g) \subseteq bitmap
        BY <1>1, EnReposo DEF Sano, Cubiertos
      <3>2. \A g \in Archivos \ {f} : Final(f)' \intersect Actual(g) = {}  BY <2>2, <2>9, <3>1
      <3>3. QED  BY <1>1, <2>7, <2>9, <3>2, Empezar DEF Sano
    <2>12. TiposFS'  BY <1>1, <2>7 DEF Sano, TiposFS, Bytes
    <2>13. Leible'
      <3>1. SUFFICES ASSUME NEW g \in Archivos, NEW i \in DOMAIN escrito[g]
                     PROVE  /\ g \in DOMAIN metadata /\ i \in Nat /\ i < Tam(g)'
                            /\ ~Ocupado(g)' /\ Byte(g, i)' \in Bytes /\ Leido(g, i)' = escrito[g][i]
        BY <1>1 DEF Leible, Bytes
      <3>2. /\ g \in DOMAIN metadata /\ i \in Nat /\ i < Tam(g)
            /\ Byte(g, i) \in Bytes /\ Leido(g, i) = escrito[g][i]
        BY DEF Sano, Leible
      <3>3. Byte(g, i)' = Byte(g, i) /\ Leido(g, i)' = Leido(g, i) /\ Tam(g)' = Tam(g)
        BY <1>1, ActualIgual DEF Byte, Leido
      <3>4. ~Ocupado(g)'  BY <2>9, <3>2 DEF Ocupado, Dueno
      <3>5. QED  BY <3>2, <3>3, <3>4
    <2>14. QED  BY <2>10, <2>11, <2>12, <2>13 DEF Sano
  <1>4. QED  BY <1>2, <1>3 DEF Crear

\* A record of what is left to write.
LEMMA PasoTipo ==
    ASSUME NEW que \in {"asignar", "liberar", "crear", "tamanio", "inicial", "unlink", "reintentar"},
           NEW f \in Archivos, NEW v \in Nat
    PROVE  Paso(que, f, v) \in Escritos /\ Paso(que, f, v).que = que
           /\ Paso(que, f, v).archivo = f /\ Paso(que, f, v).valor = v
  <1>1. <<>> \in Seq(Nat)  BY EmptySeq
  <1>2. QED  BY <1>1 DEF Paso, Escritos

\* While an operation is prepared nothing moves of what can be read.
LEMMA LeibleEmpezar ==
    ASSUME Leible, UNCHANGED <<metadata, bloques>>, DOMAIN escrito = Archivos, NEW f \in Archivos,
           Dueno' = f, pendiente' # <<>>,
           \A g \in Archivos \ {f} : escrito'[g] = escrito[g],
           \A i \in DOMAIN escrito'[f] : i \in DOMAIN escrito[f] /\ escrito'[f][i] = escrito[f][i]
                                         /\ Ultimo'.que = "tamanio" /\ i < Ultimo'.valor
    PROVE  Leible'
  <1>1. SUFFICES ASSUME NEW g \in Archivos, NEW i \in DOMAIN escrito'[g]
                 PROVE  /\ g \in DOMAIN metadata' /\ i \in Nat /\ i < Tam(g)'
                        /\ Ocupado(g)' => Ultimo'.que = "tamanio" /\ i < Ultimo'.valor
                        /\ Byte(g, i)' \in Bytes /\ Leido(g, i)' = escrito'[g][i]
    BY DEF Leible, Bytes
  <1>2. i \in DOMAIN escrito[g] /\ escrito'[g][i] = escrito[g][i]  BY <1>1
  <1>3. Byte(g, i)' = Byte(g, i) /\ Leido(g, i)' = Leido(g, i) /\ Tam(g)' = Tam(g)
    BY ActualIgual DEF Byte, Leido
  <1>4. Ocupado(g)' => g = f  BY DEF Ocupado, Dueno
  <1>5. QED  BY <1>1, <1>2, <1>3, <1>4 DEF Leible

\* borrar_archivo of a file without data: its bit, and the metadata.
LEMMA BorrarPaso == ASSUME Sano, danio' = {}, NEW f \in Archivos, Borrar(f) PROVE Sano'
  <1>1. /\ TiposFS /\ pendiente = <<>> /\ cuenta' \in Nat /\ viva
        /\ UNCHANGED <<metadata, bitmap, bloques, fuga>>
    BY DEF Sano, TiposFS, Borrar, Pedido, disco
  <1>2. CASE Rechazar /\ UNCHANGED escrito
    <2>1. pendiente' = <<>>  BY <1>1, <1>2 DEF Rechazar
    <2>2. QED  BY <1>1, <1>2, <2>1, Rechazo
  <1>3. CASE /\ Existe(f)
             /\ Hacer("borrar", Append(Liberar(f, Inicial(f), Techo(Tam(f)) + 1), Paso("unlink", f, 0)))
             /\ Daniar("borrar", Tam(f) > 0)
             /\ escrito' = [escrito EXCEPT ![f] = [i \in {} |-> 0]]
    <2>1. PICK b : b = Inicial(f)  OBVIOUS
    <2>2. PICK u : u = Paso("unlink", f, 0)  OBVIOUS
    <2>3. f \in DOMAIN metadata /\ b \in Nat /\ Tam(f) = 0
      <3>1. f \in DOMAIN metadata /\ ~(Tam(f) > 0)  BY <1>3 DEF Existe, Daniar
      <3>2. Tam(f) \in Nat /\ b \in Nat  BY <1>1, <2>1, <3>1, ArchivoTipo
      <3>3. QED  BY <3>1, <3>2
    <2> DEFINE w == [i \in 1..1 |-> b + i - 1]
    <2>4. operacion' = "borrar" /\ viva' /\ ~Crece' /\ Bit' = "liberar"
      BY <1>1, <1>3 DEF Hacer, Crece, Bit
    <2>5. u \in Escritos /\ u.que = "unlink" /\ u.archivo = f  BY <2>2, PasoTipo
    <2>6. Encarga(1, w, f, u)
      <3>1. Techo(Tam(f)) + 1 = 1  BY <2>3, Cantidad
      <3>2. pendiente' = Append(Liberar(f, b, 1), u)  BY <1>3, <2>1, <2>2, <3>1 DEF Hacer
      <3>3. Liberar(f, b, 1) = [i \in 1..1 |-> Paso("liberar", f, w[i])]  BY DEF Liberar
      <3>4. w \in [1..1 -> Nat] /\ \A i, j \in 1..1 : w[i] = w[j] => i = j  BY <2>3
      <3> HIDE DEF w
      <3>5. QED  BY <2>4, <2>5, <3>2, <3>3, <3>4 DEF Encarga
    <2>7. w[1] = b  BY <2>3
    <2> HIDE DEF w
    <2>8. /\ pendiente' \in Seq(Escritos) /\ pendiente' # <<>> /\ Ultimo' = u
          /\ (\A v : v \in Resto' <=> \E i \in 1..1 : v = w[i]) /\ BitsEnOrden'
      BY <2>6, Obra
    <2>9. Resto' = {b}  BY <2>7, <2>8
    <2>10. Actual(f) = {b} /\ Actual(f)' = {b}
      <3>1. Actual(f) = b..b + 1 - 1  BY <1>1, <2>1, <2>3, ArchivoTipo, Cantidad
      <3>2. b..b + 1 - 1 = {b}  BY <2>3
      <3>3. QED  BY <1>1, <3>1, <3>2, ActualIgual
    <2>11. Dueno' = f /\ Final(f)' = {} /\ Puestos(f)' = {b}
      <3>1. Dueno' = f /\ Ocupado(f)'  BY <2>5, <2>8 DEF Dueno, Ocupado
      <3>2. Final(f)' = {}  BY <2>5, <2>8, <3>1 DEF Final
      <3>3. QED  BY <2>4, <2>9, <3>1, <3>2 DEF Puestos
    <2>12. Forma'
      <3>1. Cierre'  BY <1>1, <2>3, <2>4, <2>5, <2>8, <2>11 DEF Cierre
      <3>2. Actual(Dueno)' = {b} /\ Final(Dueno)' = {}  BY <2>10, <2>11
      <3>3. QED  BY <2>4, <2>8, <2>9, <3>1, <3>2 DEF Forma
    <2>13. Aparte' /\ Cubiertos' /\ SinSobrantes'
      <3>1. \A g \in Archivos \ {f} : Final(f)' \intersect Actual(g) = {}  BY <2>11
      <3>2. Puestos(f)' = Actual(f)  BY <2>10, <2>11
      <3>3. QED  BY <1>1, <2>8, <2>11, <3>1, <3>2, Empezar DEF Sano
    <2>14. DOMAIN escrito' = Archivos /\ DOMAIN escrito'[f] = {}
           /\ \A g \in Archivos \ {f} : escrito'[g] = escrito[g]
      BY <1>1, <1>3 DEF TiposFS
    <2>15. TiposFS'  BY <1>1, <2>8, <2>14 DEF TiposFS, Bytes
    <2>16. Leible'  BY <1>1, <2>8, <2>11, <2>14, LeibleEmpezar DEF Sano, TiposFS
    <2>17. QED  BY <2>12, <2>13, <2>15, <2>16 DEF Sano
  <1>4. QED  BY <1>2, <1>3 DEF Borrar

\* Unsigned arithmetic on sizes that fit.
LEMMA SinVuelta ==
    ASSUME NEW x \in Int, -Ancho <= x, x < Ancho
    PROVE  x % Ancho = IF x >= 0 THEN x ELSE x + Ancho
  <1>1. Ancho \in Nat /\ Ancho > 0  BY Constantes
  <1>2. x >= 0 => x % Ancho = x  BY <1>1
  <1>3. x < 0 => x % Ancho = x + Ancho  BY <1>1
  <1>4. QED  BY <1>2, <1>3

\* acortar_archivo: the bits past the new end, the last one first, and the size.
LEMMA AcortarPaso == ASSUME Sano, danio' = {}, NEW f \in Archivos, NEW n \in Tamanios, Acortar(f, n) PROVE Sano'
  <1> DEFINE a == Tam(f)
             ult == UltimoBloque(Inicial(f), Tam(f))
             lib == BloquesALiberar(Tam(f), n)
  <1>1. /\ TiposFS /\ pendiente = <<>> /\ cuenta' \in Nat /\ viva
        /\ UNCHANGED <<metadata, bitmap, bloques, fuga>>
        /\ f \in DOMAIN metadata /\ a > n /\ n # 0
        /\ Hacer("acortar", [i \in 1..lib |-> Paso("liberar", f, ult - i + 1)] \o <<Paso("tamanio", f, n)>>)
        /\ escrito' = [escrito EXCEPT ![f] = [i \in {j \in DOMAIN escrito[f] : j < n} |-> escrito[f][i]]]
    BY DEF Sano, TiposFS, Acortar, Pedido, disco, Existe, Daniar
  <1> HIDE DEF ult, lib
  <1>2. PICK b : b = Inicial(f)  OBVIOUS
  <1>3. PICK k : k = Techo(n)  OBVIOUS
  <1>4. PICK m : m = Techo(a)  OBVIOUS
  <1>5. n \in Nat /\ n > 0 /\ n < Ancho /\ b \in Nat /\ a \in Nat /\ a < Ancho
    <2>1. n \in 0..Ancho - 1  BY Constantes
    <2>2. b \in Nat /\ a \in Nat /\ a < Ancho  BY <1>1, <1>2, ArchivoTipo
    <2>3. QED  BY <1>1, <2>1, <2>2, Constantes
  <1> HIDE DEF a
  <1>6. k \in Nat /\ m \in Nat /\ 0 < k /\ k <= m /\ m < Ancho
    <2>1. k \in Nat /\ k > 0  BY <1>3, <1>5, TechoDef
    <2>2. m \in Nat /\ m <= a /\ k <= m  BY <1>1, <1>3, <1>4, <1>5, TechoDef, TechoCrece
    <2>3. QED  BY <1>5, <2>1, <2>2, Constantes
  <1>7. CantidadBloques(a) = m /\ CantidadBloques(n) = k
    <2>1. a > 0  BY <1>1, <1>5
    <2>2. QED  BY <1>3, <1>4, <1>5, <2>1, Cantidad
  <1>8. lib = m - k /\ ult = b + m - 1
    <2>1. lib = (m - k) % Ancho  BY <1>3, <1>7 DEF lib, BloquesALiberar, a
    <2>2. (m - k) % Ancho = m - k  BY <1>6, SinVuelta, Constantes
    <2>3. QED  BY <1>2, <1>4, <2>1, <2>2 DEF ult, UltimoBloque, a
  <1>9. PICK u : u = Paso("tamanio", f, n)  OBVIOUS
  <1>10. u \in Escritos /\ u.que = "tamanio" /\ u.archivo = f /\ u.valor = n  BY <1>5, <1>9, PasoTipo
  <1>11. operacion' = "acortar" /\ viva' /\ ~Crece' /\ Bit' = "liberar"
    BY <1>1 DEF Hacer, Crece, Bit
  <1> DEFINE w == [i \in 1..lib |-> ult - i + 1]
  <1>12. lib \in Nat /\ w \in [1..lib -> Nat] /\ \A i, j \in 1..lib : w[i] = w[j] => i = j
    <2>1. lib \in Nat /\ ult \in Int  BY <1>5, <1>6, <1>8
    <2>2. \A i \in 1..lib : ult - i + 1 \in Nat  BY <1>5, <1>6, <1>8
    <2>3. QED  BY <2>1, <2>2
  <1>13. \A i \in 1..lib : w[i] = ult - i + 1  OBVIOUS
  <1>14. Encarga(lib, w, f, u)
    <2> DEFINE q == [i \in 1..lib |-> Paso("liberar", f, ult - i + 1)]
    <2>1. q = [i \in 1..lib |-> Paso("liberar", f, w[i])]  OBVIOUS
    <2>2. pendiente' = q \o <<u>>  BY <1>1, <1>9 DEF Hacer
    <2>3. q \in Seq({Paso("liberar", f, ult - i + 1) : i \in 1..lib})  BY <1>12
    <2> HIDE DEF q, w
    <2>4. q \o <<u>> = Append(q, u)  BY <2>3, AppendIsConcat
    <2>5. QED  BY <1>10, <1>11, <1>12, <2>1, <2>2, <2>4 DEF Encarga
  <1> HIDE DEF w
  <1>15. /\ pendiente' \in Seq(Escritos) /\ pendiente' # <<>> /\ Ultimo' = u
         /\ (\A v : v \in Resto' <=> \E i \in 1..lib : v = w[i]) /\ BitsEnOrden'
    BY <1>14, Obra
  <1>16. Resto' = b + k..b + m - 1
    <2>1. \A v \in Resto' : v \in b + k..b + m - 1  BY <1>5, <1>6, <1>8, <1>13, <1>15
    <2>2. ASSUME NEW v \in b + k..b + m - 1 PROVE v \in Resto'
      <3>1. ult - v + 1 \in 1..lib /\ ult - (ult - v + 1) + 1 = v  BY <1>5, <1>6, <1>8
      <3>2. w[ult - v + 1] = v  BY <1>13, <3>1
      <3>3. QED  BY <1>15, <3>1, <3>2
    <2>3. QED  BY <2>1, <2>2
  <1>17. Actual(f) = b..b + m - 1 /\ Actual(f)' = b..b + m - 1
    BY <1>1, <1>2, <1>7, ArchivoTipo, ActualIgual DEF a
  <1>18. Dueno' = f /\ Final(f)' = b..b + k - 1 /\ Puestos(f)' = Final(f)' \union Resto'
    <2>1. Dueno' = f /\ Ocupado(f)'  BY <1>10, <1>15 DEF Dueno, Ocupado
    <2>2. Inicial(f)' = b  BY <1>1, <1>2, ActualIgual
    <2>3. Final(f)' = b..b + k - 1  BY <1>7, <1>10, <1>15, <2>1, <2>2 DEF Final
    <2>4. QED  BY <1>11, <2>1, <2>3 DEF Puestos
  <1>19. /\ Final(f)' \subseteq Actual(f)' \ Resto' /\ Resto' \subseteq Actual(f)'
         /\ Puestos(f)' = Actual(f) /\ Final(f)' \subseteq Actual(f)
    <2>1. /\ b..b + k - 1 \subseteq (b..b + m - 1) \ (b + k..b + m - 1)
          /\ b + k..b + m - 1 \subseteq b..b + m - 1
          /\ (b..b + k - 1) \union (b + k..b + m - 1) = b..b + m - 1
      BY <1>5, <1>6
    <2>2. QED  BY <1>16, <1>17, <1>18, <2>1
  <1>20. Forma'
    <2>1. Cierre'
      <3>1. Ultimo'.valor \in 0..Ancho - 1 /\ Ultimo'.que = "tamanio"  BY <1>5, <1>10, <1>15, Constantes
      <3>2. QED  BY <1>1, <1>11, <1>18, <3>1 DEF Cierre
    <2>2. Actual(Dueno)' = Actual(f)' /\ Final(Dueno)' = Final(f)'  BY <1>18
    <2>3. QED  BY <1>11, <1>15, <1>19, <2>1, <2>2 DEF Forma
  <1>21. Aparte' /\ Cubiertos' /\ SinSobrantes'
    <2>1. \A g \in Archivos \ {f} : Final(f)' \intersect Actual(g) = {}
      <3>1. \A g \in Archivos \ {f} : Actual(f) \intersect Actual(g) = {}  BY DEF Sano, Aparte
      <3>2. QED  BY <1>19, <3>1
    <2>2. QED  BY <1>1, <1>15, <1>18, <1>19, <2>1, Empezar DEF Sano
  <1>22. /\ DOMAIN escrito' = Archivos /\ \A g \in Archivos \ {f} : escrito'[g] = escrito[g]
         /\ \A i \in DOMAIN escrito'[f] : i \in DOMAIN escrito[f] /\ escrito'[f][i] = escrito[f][i] /\ i < n
    <2>1. DOMAIN escrito = Archivos  BY <1>1 DEF TiposFS
    <2>2. escrito'[f] = [i \in {j \in DOMAIN escrito[f] : j < n} |-> escrito[f][i]]  BY <1>1, <2>1
    <2>3. QED  BY <1>1, <2>1, <2>2
  <1>23. TiposFS'  BY <1>1, <1>15, <1>22 DEF TiposFS, Bytes
  <1>24. Leible'
    <2>1. \A i \in DOMAIN escrito'[f] : i \in DOMAIN escrito[f] /\ escrito'[f][i] = escrito[f][i]
                                        /\ Ultimo'.que = "tamanio" /\ i < Ultimo'.valor
      BY <1>10, <1>15, <1>22
    <2>2. QED  BY <1>1, <1>15, <1>18, <1>22, <2>1, LeibleEmpezar DEF Sano, TiposFS
  <1>25. QED  BY <1>20, <1>21, <1>23, <1>24 DEF Sano

\* Where agrandar_archivo finds room: the blocks that follow those of the file, and free, when
\* the file has one block and it is not full.
LEMMA Lugar ==
    ASSUME TiposFS, NEW f \in DOMAIN metadata, NEW n \in Tamanios, Tam(f) <= n, HayLugar(f, n) = "libres",
           BloquesAdicionales(Tam(f), n) > 0 => ~Lleno(f)
    PROVE  /\ n \in Nat /\ n < Ancho /\ BloquesAdicionales(Tam(f), n) \in Nat
           /\ CantidadBloques(n) = CantidadBloques(Tam(f)) + BloquesAdicionales(Tam(f), n)
           /\ BloquesAdicionales(Tam(f), n) > 0 =>
                  /\ CantidadBloques(Tam(f)) = 1
                  /\ \A i \in 1..BloquesAdicionales(Tam(f), n) : Inicial(f) + i \notin bitmap
  <1>1. n \in Nat /\ n < Ancho /\ f \in Archivos /\ Inicial(f) \in Nat /\ Tam(f) \in Nat /\ Tam(f) < Ancho
    <2>1. n \in 0..Ancho - 1  BY Constantes
    <2>2. QED  BY <2>1, ArchivoTipo, Constantes
  <1>2. PICK a \in Nat : a = Tam(f)  BY <1>1
  <1>3. PICK b \in Nat : b = Inicial(f)  BY <1>1
  <1>4. PICK c : c = CantidadBloques(a)  OBVIOUS
  <1>5. PICK t : t = Techo(n)  OBVIOUS
  <1>6. PICK k : k = BloquesAdicionales(a, n)  OBVIOUS
  <1>7. a < Ancho /\ a <= n /\ Ancho \in Nat /\ MaxBit \in Nat /\ Ancho > 2 * MaxBit /\ BlockSize \in Nat \ {0}
        /\ MaxBit > 0
    <2>1. MaxBit > 0  BY ConstantesOK
    <2>2. QED  BY <1>1, <1>2, <2>1, Constantes
  <1>8. c \in Nat /\ c >= 1 /\ t \in Nat /\ t < Ancho /\ c < Ancho + 1
        /\ (n = 0 => t = 0 /\ c = 1) /\ (n > 0 => c <= t /\ CantidadBloques(n) = t)
    <2>1. t \in Nat /\ t <= n /\ Techo(a) <= t /\ (n > 0 <=> t > 0)
      BY <1>1, <1>2, <1>5, <1>7, TechoDef, TechoCrece
    <2>2. c \in Nat /\ c >= 1 /\ (a > 0 => c = Techo(a)) /\ (a = 0 => c = 1)  BY <1>2, <1>4, Cantidad
    <2>3. Techo(a) \in Nat  BY <1>2, TechoDef
    <2>4. c <= t \/ n = 0
      <3>1. CASE a > 0  BY <2>1, <2>2, <3>1
      <3>2. CASE a = 0
        <4>1. n > 0 => t >= 1  BY <1>1, <2>1
        <4>2. QED  BY <1>1, <2>2, <3>2, <4>1
      <3>3. QED  BY <1>2, <3>1, <3>2
    <2>5. n > 0 => CantidadBloques(n) = t  BY <1>1, <1>5, Cantidad
    <2>6. n = 0 => t = 0 /\ c = 1  BY <1>1, <1>2, <1>7, <2>1, <2>2
    <2>7. t < Ancho  BY <1>1, <1>7, <2>1
    <2>8. c < Ancho + 1
      <3>1. n = 0 => c < Ancho + 1  BY <1>7, <2>6
      <3>2. n > 0 => c < Ancho + 1  BY <1>1, <1>7, <2>1, <2>2, <2>4, <2>7
      <3>3. QED  BY <1>1, <3>1, <3>2
    <2>9. n > 0 => c <= t  BY <2>4
    <2>10. QED  BY <2>1, <2>2, <2>5, <2>6, <2>7, <2>8, <2>9
  <1>9. k = IF n = 0 THEN Ancho - 1 ELSE t - c
    <2>1. k = (t - c) % Ancho  BY <1>4, <1>5, <1>6 DEF BloquesAdicionales
    <2>2. (t - c) % Ancho = IF t - c >= 0 THEN t - c ELSE t - c + Ancho  BY <1>7, <1>8, SinVuelta
    <2>3. n = 0 => k = Ancho - 1  BY <1>7, <1>8, <2>1, <2>2
    <2>4. n > 0 => k = t - c  BY <1>7, <1>8, <2>1, <2>2
    <2>5. QED  BY <1>1, <2>3, <2>4
  <1>10. PICK d \in Nat : d = b + a \div BlockSize
    <2>1. a \div BlockSize \in Nat  BY <1>7
    <2>2. QED  BY <2>1
  <1>11. k \in Nat  BY <1>1, <1>7, <1>8, <1>9
  <1>12. k = 0 \/ (d + k <= MaxBit /\ \A i \in 1..k : d + i \notin bitmap)
    <2>1. CASE k # 0
      <3>1. Verificar(d, k) = "libres"  BY <1>2, <1>3, <1>6, <1>10, <2>1 DEF HayLugar
      <3>2. ~(d + k > MaxBit) /\ ~(\E i \in 1..k : d + i \in bitmap)  BY <3>1 DEF Verificar
      <3>3. d + k <= MaxBit  BY <1>7, <1>10, <1>11, <3>2
      <3>4. QED  BY <3>2, <3>3, Zenon
    <2>2. QED  BY <2>1
  <1>13. n > 0
    <2>1. SUFFICES ASSUME n = 0 PROVE FALSE  BY <1>1
    <2>2. k = Ancho - 1  BY <1>9, <2>1
    <2>3. QED  BY <1>7, <1>12, <2>2
  <1>14. k = t - c /\ CantidadBloques(n) = c + k  BY <1>1, <1>8, <1>9, <1>13
  <1>15. k > 0 => c = 1 /\ d = b
    <2>1. SUFFICES ASSUME k > 0 PROVE c = 1 /\ d = b  OBVIOUS
    <2>2. ~(a > 0 /\ (Techo(a) > 1 \/ a % BlockSize = 0))  BY <1>2, <1>6, <2>1 DEF Lleno
    <2>3. CASE a = 0
      <3>1. c = 1  BY <1>4, <2>3, Cantidad
      <3>2. 0 \div BlockSize = 0  BY <1>7
      <3>3. QED  BY <1>10, <2>3, <3>1, <3>2
    <2>4. CASE a > 0
      <3>1. ~(Techo(a) > 1) /\ a % BlockSize # 0  BY <2>2, <2>4
      <3>2. Techo(a) = 1 /\ c = 1 /\ a <= BlockSize * Techo(a)
        <4>1. Techo(a) \in Nat /\ Techo(a) > 0 /\ a <= BlockSize * Techo(a)  BY <2>4, TechoDef
        <4>2. c = Techo(a)  BY <1>4, <2>4, Cantidad
        <4>3. QED  BY <3>1, <4>1, <4>2
      <3>3. a <= BlockSize
        <4>1. BlockSize * 1 = BlockSize  BY <1>7
        <4>2. QED  BY <3>2, <4>1
      <3>4. a # BlockSize
        <4>1. BlockSize % BlockSize = 0  BY <1>7
        <4>2. QED  BY <3>1, <4>1
      <3>5. a \div BlockSize = 0  BY <1>7, <2>4, <3>3, <3>4
      <3>6. QED  BY <1>10, <3>2, <3>5
    <2>5. QED  BY <2>3, <2>4
  <1>16. QED  BY <1>1, <1>2, <1>3, <1>4, <1>6, <1>11, <1>12, <1>14, <1>15

\* agrandar_archivo without a compaction: the bits that follow, and the size.
LEMMA AgrandarPaso ==
    ASSUME Sano, danio' = {}, NEW f \in Archivos, NEW n \in Tamanios, Agrandar(f, n) PROVE Sano'
  <1>1. /\ TiposFS /\ pendiente = <<>> /\ cuenta' \in Nat /\ viva
        /\ UNCHANGED <<metadata, bitmap, bloques, fuga, escrito>>
        /\ f \in DOMAIN metadata /\ Tam(f) <= n
    BY DEF Sano, TiposFS, Agrandar, Pedido, disco, Existe
  <1>2. CASE Rechazar
    <2>1. pendiente' = <<>>  BY <1>1, <1>2 DEF Rechazar
    <2>2. QED  BY <1>1, <2>1, Rechazo
  <1>3. CASE /\ HayLugar(f, n) = "libres" /\ Hacer("agrandar", Ampliar(f, n))
             /\ Daniar("ampliar", BloquesAdicionales(Tam(f), n) > 0 /\ Lleno(f))
    <2>1. PICK b : b = Inicial(f)  OBVIOUS
    <2>2. PICK k : k = BloquesAdicionales(Tam(f), n)  OBVIOUS
    <2>3. PICK c : c = CantidadBloques(Tam(f))  OBVIOUS
    <2>4. PICK u : u = Paso("tamanio", f, n)  OBVIOUS
    <2>5. /\ n \in Nat /\ n < Ancho /\ k \in Nat /\ CantidadBloques(n) = c + k
          /\ k > 0 => c = 1 /\ \A i \in 1..k : b + i \notin bitmap
      <3>1. ~(BloquesAdicionales(Tam(f), n) > 0 /\ Lleno(f))  BY <1>3 DEF Daniar
      <3>2. QED  BY <1>1, <1>3, <2>1, <2>2, <2>3, <3>1, Lugar
    <2>6. b \in Nat /\ c \in Nat /\ c >= 1 /\ Actual(f) = b..b + c - 1
      BY <1>1, <2>1, <2>3, ArchivoTipo, Cantidad
    <2>7. u \in Escritos /\ u.que = "tamanio" /\ u.archivo = f /\ u.valor = n  BY <2>4, <2>5, PasoTipo
    <2>8. operacion' = "agrandar" /\ viva' /\ Crece' /\ Bit' = "asignar"
      BY <1>1, <1>3 DEF Hacer, Crece, Bit
    <2> DEFINE w == [i \in 1..k |-> b + i]
    <2>9. w \in [1..k -> Nat] /\ (\A i, j \in 1..k : w[i] = w[j] => i = j) /\ \A i \in 1..k : w[i] = b + i
      BY <2>5, <2>6
    <2>10. Encarga(k, w, f, u)
      <3>1. pendiente' = Append(Asignar(f, b + 1, k), u)  BY <1>3, <2>1, <2>2, <2>4 DEF Hacer, Ampliar
      <3>2. \A i \in 1..k : b + 1 + i - 1 = b + i  BY <2>5, <2>6
      <3>3. Asignar(f, b + 1, k) = [i \in 1..k |-> Paso("asignar", f, w[i])]  BY <2>9, <3>2 DEF Asignar
      <3> HIDE DEF w
      <3>4. QED  BY <2>5, <2>7, <2>8, <2>9, <3>1, <3>3 DEF Encarga
    <2> HIDE DEF w
    <2>11. /\ pendiente' \in Seq(Escritos) /\ pendiente' # <<>> /\ Ultimo' = u
           /\ (\A v : v \in Resto' <=> \E i \in 1..k : v = w[i]) /\ BitsEnOrden'
      BY <2>10, Obra
    <2>12. Resto' = b + 1..b + k
      <3>1. \A v \in Resto' : v \in b + 1..b + k  BY <2>5, <2>6, <2>9, <2>11
      <3>2. ASSUME NEW v \in b + 1..b + k PROVE v \in Resto'
        <4>1. v - b \in 1..k /\ b + (v - b) = v  BY <2>5, <2>6
        <4>2. w[v - b] = v  BY <2>9, <4>1
        <4>3. QED  BY <2>11, <4>1, <4>2
      <3>3. QED  BY <3>1, <3>2
    <2>13. Actual(f)' = Actual(f) /\ Inicial(f)' = b  BY <1>1, <2>1, ActualIgual
    <2>14. Dueno' = f /\ Final(f)' = b..b + (c + k) - 1 /\ Puestos(f)' = Final(f)' \ Resto'
      <3>1. Dueno' = f /\ Ocupado(f)'  BY <2>7, <2>11 DEF Dueno, Ocupado
      <3>2. Final(f)' = b..b + CantidadBloques(n) - 1  BY <2>7, <2>11, <2>13, <3>1 DEF Final
      <3>3. QED  BY <2>5, <2>8, <3>1, <3>2 DEF Puestos
    <2>15. Puestos(f)' = Actual(f) /\ Resto' \subseteq Final(f)' /\ Final(f)' = Actual(f) \union Resto'
      <3>1. CASE k = 0
        <4>1. Resto' = {} /\ Final(f)' = Actual(f)  BY <2>6, <2>12, <2>14, <3>1
        <4>2. QED  BY <2>14, <4>1
      <3>2. CASE k > 0
        <4>1. c = 1  BY <2>5, <3>2
        <4>2. /\ (b..b + (1 + k) - 1) \ (b + 1..b + k) = b..b + 1 - 1
              /\ b + 1..b + k \subseteq b..b + (1 + k) - 1
              /\ b..b + (1 + k) - 1 = (b..b + 1 - 1) \union (b + 1..b + k)
          BY <2>5, <2>6
        <4>3. QED  BY <2>6, <2>12, <2>14, <4>1, <4>2
      <3>3. QED  BY <2>5, <3>1, <3>2
    <2>16. Forma'
      <3>1. Cierre'
        <4>1. Ultimo'.valor \in 0..Ancho - 1 /\ Ultimo'.que = "tamanio"  BY <2>5, <2>7, <2>11, Constantes
        <4>2. QED  BY <1>1, <2>8, <2>14, <4>1 DEF Cierre
      <3>2. Actual(Dueno)' = Actual(f)' /\ Final(Dueno)' = Final(f)'  BY <2>14
      <3>3. Actual(f)' \subseteq Final(f)' \ Resto'  BY <2>13, <2>14, <2>15
      <3>4. QED  BY <2>8, <2>11, <2>15, <3>1, <3>2, <3>3 DEF Forma
    <2>17. Aparte' /\ Cubiertos' /\ SinSobrantes'
      <3>1. \A g \in Archivos \ {f} : Final(f)' \intersect Actual(g) = {}
        <4>1. TAKE g \in Archivos \ {f}
        <4>2. Actual(f) \intersect Actual(g) = {}  BY DEF Sano, Aparte
        <4>3. Actual(g) \subseteq bitmap  BY <1>1, EnReposo DEF Sano, Cubiertos
        <4>4. \A v \in Resto' : v \notin bitmap  BY <2>5, <2>9, <2>11
        <4>5. QED  BY <2>15, <4>2, <4>3, <4>4
      <3>2. QED  BY <1>1, <2>11, <2>14, <2>15, <3>1, Empezar DEF Sano
    <2>18. TiposFS'  BY <1>1, <2>11 DEF TiposFS, Bytes
    <2>19. Leible'
      <3>1. \A i \in DOMAIN escrito'[f] : i \in DOMAIN escrito[f] /\ escrito'[f][i] = escrito[f][i]
                                          /\ Ultimo'.que = "tamanio" /\ i < Ultimo'.valor
        <4>1. TAKE i \in DOMAIN escrito'[f]
        <4>2. i \in Nat /\ i < Tam(f) /\ i \in DOMAIN escrito[f]  BY <1>1 DEF Sano, Leible
        <4>3. Tam(f) \in Nat  BY <1>1, ArchivoTipo
        <4>4. i < n  BY <1>1, <2>5, <4>2, <4>3
        <4>5. QED  BY <1>1, <2>7, <2>11, <4>2, <4>4
      <3>2. QED  BY <1>1, <2>11, <2>14, <3>1, LeibleEmpezar DEF Sano, TiposFS
    <2>20. QED  BY <2>16, <2>17, <2>18, <2>19 DEF Sano
  <1>4. ASSUME danio' = danio \union {"compactar"} \union (IF Lleno(f) THEN {"ampliar"} ELSE {}) PROVE FALSE
    BY <1>4
  <1>5. QED  BY <1>2, <1>3, <1>4 DEF Agrandar

\* escribir_archivo: the bytes it writes are of its file, and of no other.
LEMMA EscribirPaso ==
    ASSUME Sano, NEW f \in Archivos, NEW e \in Escrituras, Escribir(f, e[1], e[2]) PROVE Sano'
  <1> DEFINE rango == e[1]..e[1] + e[2] - 1
             entra == Existe(f) /\ e[1] + e[2] <= Tam(f) /\ Byte(f, e[1] + e[2] - 1) \in Bytes
  <1>1. /\ TiposFS /\ pendiente = <<>> /\ cuenta' \in Nat /\ cuenta \in Nat
        /\ UNCHANGED <<metadata, bitmap, danio, fuga>>
    BY DEF Sano, TiposFS, Escribir, Pedido
  <1>2. CASE Rechazar /\ UNCHANGED <<bloques, escrito>>
    <2>1. pendiente' = <<>>  BY <1>1, <1>2 DEF Rechazar
    <2>2. QED  BY <1>1, <1>2, <2>1, Rechazo
  <1>3. CASE /\ entra
             /\ bloques' = [d \in Bytes |-> IF d - Byte(f, 0) \in rango THEN cuenta' ELSE bloques[d]]
             /\ escrito' = [escrito EXCEPT ![f] =
                    [i \in DOMAIN escrito[f] \union rango |-> IF i \in rango THEN cuenta' ELSE escrito[f][i]]]
             /\ UNCHANGED <<viva, operacion, pendiente>>
    <2>1. PICK b : b = Byte(f, 0)  OBVIOUS
    <2>2. f \in DOMAIN metadata /\ e[1] + e[2] <= Tam(f) /\ Byte(f, e[1] + e[2] - 1) \in Bytes
      BY <1>3 DEF Existe
    <2>3. Inicial(f) \in Nat /\ Tam(f) \in Nat /\ BlockSize \in Nat \ {0} /\ BlockCount \in Nat
      BY <1>1, <2>2, ArchivoTipo, Constantes
    <2>4. b \in Nat /\ \A i \in Nat : Byte(f, i) = b + i
      <3>1. Inicial(f) * BlockSize \in Nat  BY <2>3
      <3>2. QED  BY <2>1, <3>1 DEF Byte
    <2>5. e[1] \in Nat /\ e[2] \in Nat /\ e[2] > 0
      <3>1. e \in Nat \X (Nat \ {0})  BY Constantes
      <3>2. QED  BY <3>1
    <2>6. \A i \in rango : i \in Nat /\ i < Tam(f) /\ b + i \in Bytes
      <3>1. b + (e[1] + e[2] - 1) \in Bytes  BY <2>2, <2>4, <2>5
      <3>2. \A d \in Nat : d <= b + (e[1] + e[2] - 1) => d \in Bytes
        <4>1. BlockCount * BlockSize \in Nat  BY <2>3
        <4>2. QED  BY <2>4, <2>5, <3>1, <4>1 DEF Bytes
      <3>3. TAKE i \in rango
      <3>4. i \in Nat /\ i < Tam(f) /\ b + i <= b + (e[1] + e[2] - 1)  BY <2>2, <2>3, <2>4, <2>5
      <3>5. QED  BY <2>4, <3>2, <3>4
    <2>7. bloques' = [d \in Bytes |-> IF d - b \in rango THEN cuenta' ELSE bloques[d]]  BY <1>3, <2>1
    <2>8. /\ DOMAIN escrito' = Archivos /\ \A g \in Archivos \ {f} : escrito'[g] = escrito[g]
          /\ escrito'[f] = [i \in DOMAIN escrito[f] \union rango |-> IF i \in rango THEN cuenta' ELSE escrito[f][i]]
      <3>1. DOMAIN escrito = Archivos  BY <1>1 DEF TiposFS
      <3>2. QED  BY <1>3, <3>1
    <2>9. pendiente' = <<>>  BY <1>1, <1>3
    <2> HIDE DEF rango
    <2>10. Forma' /\ Aparte' /\ Cubiertos' /\ SinSobrantes'  BY <1>1, <2>9, SinObra DEF Sano
    <2>11. TiposFS'
      <3>1. bloques' \in [Bytes -> Nat]
        <4>1. bloques \in [Bytes -> Nat]  BY <1>1 DEF TiposFS
        <4>2. QED  BY <1>1, <2>7, <4>1
      <3>2. QED  BY <1>1, <2>8, <2>9, <3>1 DEF TiposFS, Bytes
    <2>12. Leible'
      <3>1. SUFFICES ASSUME NEW g \in Archivos, NEW i \in DOMAIN escrito'[g]
                     PROVE  /\ g \in DOMAIN metadata /\ i \in Nat /\ i < Tam(g)
                            /\ Byte(g, i) \in Bytes /\ bloques'[Byte(g, i)] = escrito'[g][i]
        <4>1. \A g : Tam(g)' = Tam(g) /\ Inicial(g)' = Inicial(g) /\ ~Ocupado(g)'
          BY <1>1, <2>9, ActualIgual DEF Ocupado
        <4>2. \A g, i : Byte(g, i)' = Byte(g, i)  BY <4>1 DEF Byte
        <4>3. \A g, i : Leido(g, i)' = bloques'[Byte(g, i)]  BY <4>2 DEF Leido
        <4>4. QED  BY <1>1, <3>1, <4>1, <4>2, <4>3 DEF Leible, Bytes
      <3>2. CASE g = f /\ i \in rango
        <4>1. i \in Nat /\ i < Tam(f) /\ b + i \in Bytes /\ Byte(f, i) = b + i  BY <2>4, <2>6, <3>2
        <4>2. (b + i) - b = i  BY <2>4, <4>1
        <4>3. bloques'[b + i] = cuenta'  BY <2>7, <3>2, <4>1, <4>2
        <4>4. escrito'[g][i] = cuenta'  BY <2>8, <3>2
        <4>5. QED  BY <2>2, <3>2, <4>1, <4>3, <4>4
      <3>3. CASE ~(g = f /\ i \in rango)
        <4>1. i \in DOMAIN escrito[g] /\ escrito'[g][i] = escrito[g][i]
          <5>1. CASE g = f  BY <2>8, <3>1, <3>3, <5>1
          <5>2. CASE g # f  BY <2>8, <3>1, <5>2
          <5>3. QED  BY <5>1, <5>2
        <4>2. /\ g \in DOMAIN metadata /\ i \in Nat /\ i < Tam(g)
              /\ Byte(g, i) \in Bytes /\ bloques[Byte(g, i)] = escrito[g][i]
          BY <4>1 DEF Sano, Leible, Leido
        <4>3. ~(Byte(g, i) - b \in rango)
          <5>1. CASE g = f
            <6>1. Byte(g, i) - b = i  BY <2>4, <4>2, <5>1
            <6>2. QED  BY <3>3, <5>1, <6>1
          <5>2. CASE g # f
            <6>1. SUFFICES ASSUME Byte(g, i) - b \in rango PROVE FALSE  OBVIOUS
            <6>2. PICK j : j = Byte(g, i) - b  OBVIOUS
            <6>3. j \in Nat /\ j < Tam(f) /\ Byte(f, j) = b + j  BY <2>4, <2>6, <6>1, <6>2
            <6>4. Byte(g, i) \in Int  BY <2>3, <4>2 DEF Bytes
            <6>5. Byte(f, j) = Byte(g, i)  BY <2>4, <6>2, <6>3, <6>4
            <6>6. Inicial(g) \in Nat /\ Tam(g) \in Nat
                  /\ Actual(g) = Inicial(g)..Inicial(g) + CantidadBloques(Tam(g)) - 1
                  /\ Actual(f) = Inicial(f)..Inicial(f) + CantidadBloques(Tam(f)) - 1
              BY <1>1, <2>2, <4>2, ArchivoTipo
            <6>7. Actual(f) \intersect Actual(g) = {}  BY <5>2 DEF Sano, Aparte
            <6>8. PICK c \in Nat : c = CantidadBloques(Tam(f)) /\ Tam(f) <= BlockSize * c  BY <2>3, Cantidad
            <6>9. PICK d \in Nat : d = CantidadBloques(Tam(g)) /\ Tam(g) <= BlockSize * d  BY <6>6, Cantidad
            <6>10. j < BlockSize * c /\ i < BlockSize * d
              <7>1. PICK x \in Nat : x = BlockSize * c  BY <2>3
              <7>2. PICK y \in Nat : y = BlockSize * d  BY <2>3
              <7>3. j < x  BY <2>3, <6>3, <6>8, <7>1
              <7>4. i < y  BY <4>2, <6>6, <6>9, <7>2
              <7>5. QED  BY <7>1, <7>2, <7>3, <7>4
            <6>11. Inicial(f) * BlockSize + j # Inicial(g) * BlockSize + i
              BY <2>3, <4>2, <6>3, <6>6, <6>7, <6>8, <6>9, <6>10, BytesAparte
            <6>12. QED  BY <6>5, <6>11 DEF Byte
          <5>3. QED  BY <5>1, <5>2
        <4>4. bloques'[Byte(g, i)] = bloques[Byte(g, i)]  BY <2>7, <4>2, <4>3
        <4>5. QED  BY <4>1, <4>2, <4>4
      <3>4. QED  BY <3>2, <3>3
    <2>13. QED  BY <2>10, <2>11, <2>12 DEF Sano
  <1>4. QED  BY <1>2, <1>3 DEF Escribir

-----------------------------------------------------------------------------
(* Every step *)

\* The piece that is written next, or the end of the interface that had to write it.
LEMMA EscrituraPaso == ASSUME Sano, danio' = {}, Escritura PROVE Sano'
  <1>1. CASE CrearMetadata  BY <1>1, CrearMetadataPaso
  <1>2. CASE ActualizarTamanio  BY <1>2, ActualizarTamanioPaso
  <1>3. CASE BorrarMetadata  BY <1>3, BorrarMetadataPaso
  <1>4. TiposFS /\ Forma /\ Leible /\ DOMAIN escrito = Archivos  BY DEF Sano, TiposFS
  <1>5. ASSUME pendiente # <<>>, P.que \in {"inicial", "copiar", "reintentar"} PROVE FALSE
    <2>1. P = Ultimo  BY <1>4, <1>5, Cabeza
    <2>2. Ultimo.que \in {"crear", "unlink", "tamanio"}  BY <1>4, <1>5 DEF Forma, Cierre
    <2>3. QED  BY <1>5, <2>1, <2>2
  <1>6. CASE ActualizarInicial \/ CopiarBloque \/ Reintentar
    BY <1>5, <1>6 DEF ActualizarInicial, Grabar, CopiarBloque, Reintentar, Sigue
  <1>7. CASE AsignarBloque \/ LiberarBloque
    <2>1. /\ pendiente # <<>> /\ P.que \in {"asignar", "liberar"}
          /\ UNCHANGED <<metadata, bloques, cuenta, escrito>>
      BY <1>7 DEF AsignarBloque, LiberarBloque, Sigue, Estables
    <2>2. CASE P.valor < MaxBit
      <3>1. /\ Forma' /\ Aparte' /\ Cubiertos' /\ SinSobrantes' /\ bitmap' \subseteq 0..MaxBit - 1
            /\ pendiente' \in Seq(Escritos) /\ Ultimo' = Ultimo
        BY <1>7, <2>2, AsignarPaso, LiberarPaso
      <3>2. TiposFS'  BY <1>4, <2>1, <3>1 DEF TiposFS, Bytes
      <3>3. Leible'  BY <1>4, <2>1, <3>1, LeibleIgual
      <3>4. QED  BY <3>1, <3>2, <3>3 DEF Sano
    <2>3. CASE ~(P.valor < MaxBit)
      <3>1. Caer /\ UNCHANGED bitmap  BY <1>7, <2>3 DEF AsignarBloque, LiberarBloque
      <3>2. pendiente' = <<>>  BY <3>1 DEF Caer
      <3>3. Forma' /\ Aparte' /\ Cubiertos' /\ SinSobrantes'  BY <2>1, <3>1, CaerPaso DEF Sano
      <3>4. TiposFS'  BY <1>4, <2>1, <3>1, <3>2 DEF TiposFS, Bytes
      <3>5. Leible'  BY <1>4, <2>1, <3>2, LeibleIgual
      <3>6. QED  BY <3>3, <3>4, <3>5 DEF Sano
    <2>4. QED  BY <2>2, <2>3
  <1>8. QED  BY <1>1, <1>2, <1>3, <1>6, <1>7 DEF Escritura

\* Each step keeps the files apart and whole, or is one of those that danio names.
LEMMA NextSano == ASSUME Sano, danio' = {}, [Next]_vars PROVE Sano'
  <1>1. ASSUME NEW f \in Archivos, Crear(f) PROVE Sano'  BY <1>1, CrearPaso
  <1>2. ASSUME NEW f \in Archivos, Borrar(f) PROVE Sano'  BY <1>2, BorrarPaso
  <1>3. ASSUME NEW f \in Archivos, TruncarInexistente(f) PROVE Sano'
    <2>1. /\ pendiente = <<>> /\ pendiente' = <<>> /\ cuenta' \in Nat
          /\ UNCHANGED <<metadata, bitmap, bloques, fuga, escrito>>
      BY <1>3 DEF Sano, TiposFS, TruncarInexistente, Pedido, Rechazar, disco, historia
    <2>2. QED  BY <2>1, Rechazo
  <1>4. ASSUME NEW f \in Archivos, NEW n \in Tamanios, Acortar(f, n) PROVE Sano'  BY <1>4, AcortarPaso
  <1>5. ASSUME NEW f \in Archivos, NEW n \in Tamanios, Agrandar(f, n) PROVE Sano'  BY <1>5, AgrandarPaso
  <1>6. ASSUME NEW f \in Archivos, NEW e \in Escrituras, Escribir(f, e[1], e[2]) PROVE Sano'
    BY <1>6, EscribirPaso
  <1>7. CASE Escritura  BY <1>7, EscrituraPaso
  <1>8. CASE Cortar
    <2>1. /\ pendiente # <<>> /\ Caer /\ pendiente' = <<>>
          /\ UNCHANGED <<metadata, bitmap, bloques, cuenta, escrito>>
      BY <1>8 DEF Cortar, Caer, disco
    <2>2. Forma' /\ Aparte' /\ Cubiertos' /\ SinSobrantes'  BY <2>1, CaerPaso DEF Sano
    <2>3. TiposFS'  BY <2>1 DEF Sano, TiposFS, Bytes
    <2>4. Leible'  BY <2>1, LeibleIgual DEF Sano, TiposFS
    <2>5. QED  BY <2>2, <2>3, <2>4 DEF Sano
  <1>9. CASE LevantarFileSystem
    <2>1. pendiente = <<>>  BY <1>9 DEF LevantarFileSystem, Sano, Forma
    <2>2. /\ pendiente' = <<>> /\ cuenta' \in Nat
          /\ UNCHANGED <<metadata, bitmap, bloques, fuga, escrito>>
      BY <1>9, <2>1 DEF LevantarFileSystem, Sano, TiposFS, disco, historia
    <2>3. QED  BY <2>1, <2>2, Rechazo
  <1>10. CASE UNCHANGED vars
    <2>1. UNCHANGED <<metadata, bitmap, bloques, viva, operacion, pendiente, cuenta, escrito, fuga>>
      BY <1>10 DEF vars, disco, historia
    <2>2. Ultimo' = Ultimo /\ Bits' = Bits /\ Resto' = Resto /\ Crece' = Crece /\ Dueno' = Dueno /\ Bit' = Bit
      BY <2>1 DEF Ultimo, Bits, Resto, Crece, Dueno, Bit
    <2>3. \A f : Actual(f)' = Actual(f) /\ Inicial(f)' = Inicial(f) /\ (Ocupado(f)' <=> Ocupado(f))
      BY <2>1, <2>2, ActualIgual DEF Ocupado
    <2>4. \A f : Final(f)' = Final(f)  BY <2>2, <2>3 DEF Final
    <2>5. \A f : Puestos(f)' = Puestos(f)  BY <2>2, <2>3, <2>4 DEF Puestos
    <2>6. Aparte' /\ Cubiertos' /\ SinSobrantes'
      BY <2>1, <2>3, <2>4, <2>5 DEF Sano, Aparte, Cubiertos, SinSobrantes
    <2>7. Forma'
      <3>1. BitsEnOrden' <=> BitsEnOrden  BY <2>1, <2>2 DEF BitsEnOrden
      <3>2. Cierre' <=> Cierre  BY <2>1, <2>2 DEF Cierre
      <3>3. PICK f : f = Dueno  OBVIOUS
      <3>4. Actual(Dueno)' = Actual(Dueno) /\ Final(Dueno)' = Final(Dueno)  BY <2>2, <2>3, <2>4, <3>3
      <3>5. QED  BY <2>1, <2>2, <3>1, <3>2, <3>4 DEF Sano, Forma
    <2>8. Leible'
      <3>1. pendiente' = <<>> \/ (pendiente # <<>> /\ Ultimo' = Ultimo)  BY <2>1, <2>2
      <3>2. QED  BY <2>1, <3>1, LeibleIgual DEF Sano, TiposFS
    <2>9. TiposFS'  BY <2>1 DEF Sano, TiposFS, Bytes
    <2>10. QED  BY <2>6, <2>7, <2>8, <2>9 DEF Sano
  <1>11. QED  BY <1>1, <1>2, <1>3, <1>4, <1>5, <1>6, <1>7, <1>8, <1>9, <1>10 DEF Next

\* The file system that an interface starts with is empty.
LEMMA InitSano == Init => Sano
  <1> SUFFICES ASSUME Init PROVE Sano
    OBVIOUS
  <1>1. /\ DOMAIN metadata = {} /\ bitmap = {} /\ bloques = [b \in Bytes |-> 0] /\ pendiente = <<>>
        /\ cuenta = 0 /\ escrito = [f \in Archivos |-> [i \in {} |-> 0]]
    BY DEF Init
  <1>2. \A f : Actual(f) = {}  BY <1>1 DEF Actual
  <1>3. \A f : Final(f) = {} /\ Puestos(f) = {}  BY <1>1, <1>2, EnReposo
  <1>4. TiposFS
    <2>1. pendiente \in Seq(Escritos)  BY <1>1, EmptySeq
    <2>2. QED  BY <1>1, <2>1 DEF TiposFS
  <1>5. Aparte /\ Cubiertos /\ SinSobrantes  BY <1>1, <1>2, <1>3 DEF Aparte, Cubiertos, SinSobrantes
  <1>6. Forma  BY <1>1 DEF Forma
  <1>7. Leible  BY <1>1 DEF Leible
  <1>8. QED  BY <1>4, <1>5, <1>6, <1>7 DEF Sano

\* No harm is ever undone.
LEMMA DanioCrece == ASSUME [Next]_vars PROVE danio \subseteq danio'
  <1>1. ASSUME NEW f \in Archivos, Crear(f) \/ Borrar(f) \/ TruncarInexistente(f) PROVE danio \subseteq danio'
    BY <1>1 DEF Crear, Borrar, TruncarInexistente, Daniar, historia
  <1>2. ASSUME NEW f \in Archivos, NEW n \in Tamanios, Acortar(f, n) \/ Agrandar(f, n) PROVE danio \subseteq danio'
    BY <1>2 DEF Acortar, Agrandar, Daniar
  <1>3. ASSUME NEW f \in Archivos, NEW e \in Escrituras, Escribir(f, e[1], e[2]) PROVE danio \subseteq danio'
    BY <1>3 DEF Escribir
  <1>4. CASE Escritura
    BY <1>4 DEF Escritura, AsignarBloque, LiberarBloque, CrearMetadata, ActualizarTamanio, ActualizarInicial,
                BorrarMetadata, CopiarBloque, Reintentar, Grabar, Caer, Daniar
  <1>5. CASE Cortar \/ LevantarFileSystem \/ UNCHANGED vars
    BY <1>5 DEF Cortar, Caer, Daniar, LevantarFileSystem, historia, vars
  <1>6. QED  BY <1>1, <1>2, <1>3, <1>4, <1>5 DEF Next

\* The invariant holds in every state in which nothing has harmed the files.
LEMMA SanoSiempre == Spec => []InvFS
  <1>1. Init => InvFS  BY InitSano DEF InvFS
  <1>2. InvFS /\ [Next]_vars => InvFS'
    <2> SUFFICES ASSUME InvFS, [Next]_vars, danio' = {} PROVE Sano'
      BY DEF InvFS
    <2>1. Sano  BY DanioCrece DEF InvFS
    <2>2. QED  BY <2>1, NextSano
  <1>3. QED  BY <1>1, <1>2, PTL DEF Spec

\* The three views of a file, its metadata, the bitmap and what an operation is about to
\* write, agree wherever the interface is killed: no block is in two files, the bit of each
\* is set, and no other is while no operation has been cut short; for any number of files
\* and of blocks and any sizes, until the file system is harmed in one of the ways of danio.
THEOREM BloquesSiempre == Spec => []BloquesJustos
  <1>1. InvFS => BloquesJustos
    <2> SUFFICES ASSUME Sano, danio = {} PROVE BloquesJustos
      BY DEF InvFS, BloquesJustos, BloquesExclusivos, BitmapCubre, SinFugas
    <2>1. \A f \in DOMAIN metadata : f \in Archivos /\ Actual(f) = BloquesDe(f)
      BY DEF Sano, TiposFS, Actual
    <2>2. BloquesExclusivos  BY <2>1 DEF BloquesExclusivos, Sano, Aparte
    <2>3. BitmapCubre
      <3>1. SUFFICES ASSUME operacion \notin {"borrar", "acortar"}, NEW f \in DOMAIN metadata
                     PROVE  Actual(f) \subseteq Puestos(f)
        BY <2>1 DEF BitmapCubre, Sano, Cubiertos
      <3>2. CASE ~Ocupado(f)  BY <3>2, Desocupado
      <3>3. CASE Ocupado(f)
        <4>1. pendiente # <<>> /\ f = Dueno  BY <3>3 DEF Ocupado, Dueno
        <4>2. Crece  BY <3>1, <4>1 DEF Sano, Forma, Cierre, Crece
        <4>3. Actual(f) \subseteq Final(f) \ Resto  BY <4>1, <4>2 DEF Sano, Forma
        <4>4. QED  BY <3>3, <4>2, <4>3 DEF Puestos
      <3>4. QED  BY <3>2, <3>3
    <2>4. SinFugas
      <3>1. SUFFICES ASSUME ~fuga, pendiente = <<>>, NEW b \in bitmap
                     PROVE  \E f \in DOMAIN metadata : b \in BloquesDe(f)
        BY DEF SinFugas, Quieto
      <3>2. PICK f \in Archivos : b \in Puestos(f)  BY <3>1 DEF Sano, SinSobrantes
      <3>3. b \in Actual(f)  BY <3>1, <3>2, EnReposo
      <3>4. QED  BY <3>3 DEF Actual
    <2>5. QED  BY <2>2, <2>3, <2>4 DEF BloquesJustos
  <1>2. QED  BY <1>1, SanoSiempre, PTL

\* A byte written in a file is read from it, whatever is created, truncated, deleted or
\* written in between and wherever the interface is killed, with the same proviso.
THEOREM ContenidoFielSiempre == Spec => []ContenidoFiel
  <1>1. InvFS => ContenidoFiel
    <2> SUFFICES ASSUME Sano, danio = {}, NEW f \in DOMAIN metadata, NEW i \in DOMAIN escrito[f]
                 PROVE  Leido(f, i) = escrito[f][i]
      BY DEF InvFS, ContenidoFiel
    <2>1. f \in Archivos  BY DEF Sano, TiposFS
    <2>2. QED  BY <2>1 DEF Sano, Leible
  <1>2. QED  BY <1>1, SanoSiempre, PTL


-----------------------------------------------------------------------------
(* Sums *)

\* The sum of the blocks of the files of a list.
Suma(orden, n) ==
    \E g : g = [k \in 0..n |-> IF k = 0 THEN 0 ELSE g[k - 1] + CantidadBloques(Tam(orden[k]))]

\* The sum exists for the same reason.
LEMMA SumaExiste == ASSUME NEW orden, NEW n \in Nat PROVE Suma(orden, n)
  <1>1. SUFFICES ASSUME ~Suma(orden, n) PROVE FALSE
    OBVIOUS
  <1> DEFINE S == {m \in Nat : ~Suma(orden, m)}
             c(k) == CantidadBloques(Tam(orden[k]))
  <1>2. PICK m \in S : \A k \in S : m <= k  BY <1>1, PrimeroDe
  <1> HIDE DEF c
  <1>3. m # 0
    <2> DEFINE g == [k \in 0..0 |-> 0]
    <2>1. g = [k \in 0..0 |-> IF k = 0 THEN 0 ELSE g[k - 1] + c(k)]  OBVIOUS
    <2>2. Suma(orden, 0)  BY <2>1 DEF Suma, c
    <2>3. QED  BY <1>2, <2>2
  <1>4. m - 1 \in Nat /\ m - 1 \notin S  BY <1>2, <1>3
  <1>5. PICK g : g = [k \in 0..m - 1 |-> IF k = 0 THEN 0 ELSE g[k - 1] + c(k)]
    BY <1>4 DEF Suma, c
  <1> DEFINE h == [k \in 0..m |-> IF k = m THEN g[m - 1] + c(m) ELSE g[k]]
  <1>6. \A k \in 0..m : h[k] = IF k = 0 THEN 0 ELSE h[k - 1] + c(k)
    <2> SUFFICES ASSUME NEW k \in 0..m PROVE h[k] = IF k = 0 THEN 0 ELSE h[k - 1] + c(k)
      OBVIOUS
    <2>1. CASE k = m  BY <2>1, <1>2, <1>3
    <2>2. CASE k # m
      <3>1. k \in 0..m - 1 /\ h[k] = g[k]  BY <2>2, <1>2
      <3>2. g[k] = IF k = 0 THEN 0 ELSE g[k - 1] + c(k)  BY <1>5, <3>1
      <3>3. k # 0 => k - 1 \in 0..m /\ k - 1 # m  BY <3>1, <1>2
      <3>4. k # 0 => h[k - 1] = g[k - 1]  BY <3>3
      <3>5. QED  BY <3>1, <3>2, <3>4
    <2>3. QED  BY <2>1, <2>2
  <1>7. h = [k \in 0..m |-> IF k = 0 THEN 0 ELSE h[k - 1] + c(k)]
    <2> HIDE DEF h
    <2>1. h = [k \in 0..m |-> h[k]]  BY DEF h
    <2>2. QED  BY <2>1, <1>6, Zenon
  <1>8. Suma(orden, m)  BY <1>7 DEF Suma, c
  <1>9. QED  BY <1>2, <1>8

\* And is a number of blocks.
LEMMA AntesTipo ==
    ASSUME NEW orden, NEW n \in Nat, Len(orden) = n,
           \A k \in 1..n : CantidadBloques(Tam(orden[k])) \in Nat
    PROVE  \A i \in 1..n + 1 : Antes(orden, i) \in Nat
  <1> DEFINE g == CHOOSE f : f = [k \in 0..n |-> IF k = 0 THEN 0 ELSE f[k - 1] + CantidadBloques(Tam(orden[k]))]
             S == {k \in 0..n : g[k] \notin Nat}
  <1>1. g = [k \in 0..n |-> IF k = 0 THEN 0 ELSE g[k - 1] + CantidadBloques(Tam(orden[k]))]
    BY SumaExiste, Zenon DEF Suma
  <1>2. \A i : Antes(orden, i) = g[i - 1]  BY Zenon DEF Antes
  <1> HIDE DEF g
  <1>3. S = {}
    <2> SUFFICES ASSUME S # {} PROVE FALSE
      OBVIOUS
    <2>1. PICK m \in S : \A k \in S : m <= k
      <3>1. S \subseteq Nat  OBVIOUS
      <3>2. QED  BY <3>1, PrimeroDe
    <2>2. g[m] = IF m = 0 THEN 0 ELSE g[m - 1] + CantidadBloques(Tam(orden[m]))  BY <1>1, <2>1
    <2>3. m # 0  BY <2>1, <2>2
    <2>4. m - 1 \in 0..n /\ m - 1 \notin S /\ m \in 1..n  BY <2>1, <2>3
    <2>5. QED  BY <2>1, <2>2, <2>4
  <1>4. \A i \in 1..n + 1 : i - 1 \in 0..n  OBVIOUS
  <1>5. QED  BY <1>2, <1>3, <1>4

-----------------------------------------------------------------------------
(* What is pending *)

\* What an operation has left to write names files that exist and sizes that were asked
\* for; a first block past the last one is never reached, because the bit of a block that
\* is not there comes before and ends the interface; and a file is deleted last.
Corta(p) == p.que = "asignar" /\ p.valor >= MaxBit
Valido(p) ==
    /\ p.que \in {"tamanio", "inicial", "reintentar"} => p.archivo \in DOMAIN metadata
    /\ p.que \in {"tamanio", "reintentar"} => p.valor \in Tamanios
    /\ p.que = "crear" => p.valor <= MaxBit
Alcanza(s, k) == s[k].que = "inicial" => s[k].valor <= MaxBit \/ \E j \in 1..k - 1 : Corta(s[j])
Validos(s) ==
    \A k \in 1..Len(s) : Valido(s[k]) /\ Alcanza(s, k) /\ (s[k].que = "unlink" => k = Len(s))
Tandas == {s \in Seq(Escritos) : \A k \in 1..Len(s) : Valido(s[k]) /\ Alcanza(s, k) /\ s[k].que # "unlink"}

\* A batch can be written.
LEMMA TandaValida == ASSUME NEW s \in Tandas PROVE s \in Seq(Escritos) /\ Validos(s)
  BY DEF Tandas, Validos

\* So can nothing.
LEMMA TandaVacia == <<>> \in Tandas
  <1>1. <<>> \in Seq(Escritos) /\ Len(<<>>) = 0  BY EmptySeq
  <1>2. QED  BY <1>1 DEF Tandas

\* Two batches are a batch.
LEMMA Juntar == ASSUME NEW s \in Tandas, NEW t \in Tandas PROVE s \o t \in Tandas
  <1>1. /\ s \in Seq(Escritos) /\ t \in Seq(Escritos) /\ s \o t \in Seq(Escritos)
        /\ Len(s) \in Nat /\ Len(t) \in Nat /\ Len(s \o t) = Len(s) + Len(t)
        /\ \A k \in 1..Len(s) + Len(t) : (s \o t)[k] = IF k <= Len(s) THEN s[k] ELSE t[k - Len(s)]
    BY DEF Tandas
  <1> DEFINE u == s \o t
  <1> HIDE DEF u
  <1>2. SUFFICES ASSUME NEW k \in 1..Len(s) + Len(t)
                 PROVE  Valido(u[k]) /\ Alcanza(u, k) /\ u[k].que # "unlink"
    BY <1>1 DEF Tandas, u
  <1>3. CASE k <= Len(s)
    <2>1. k \in 1..Len(s) /\ u[k] = s[k] /\ \A j \in 1..k - 1 : u[j] = s[j]  BY <1>1, <1>3 DEF u
    <2>2. Valido(s[k]) /\ Alcanza(s, k) /\ s[k].que # "unlink"  BY <2>1 DEF Tandas
    <2>3. QED  BY <2>1, <2>2 DEF Alcanza
  <1>4. CASE k > Len(s)
    <2> DEFINE i == k - Len(s)
    <2>1. i \in 1..Len(t) /\ u[k] = t[i]  BY <1>1, <1>4 DEF u
    <2>2. Valido(t[i]) /\ Alcanza(t, i) /\ t[i].que # "unlink"  BY <2>1 DEF Tandas
    <2>3. \A j \in 1..i - 1 : Len(s) + j \in 1..k - 1 /\ u[Len(s) + j] = t[j]  BY <1>1, <1>4 DEF u
    <2>4. QED  BY <2>1, <2>2, <2>3 DEF Alcanza
  <1>5. QED  BY <1>1, <1>3, <1>4

\* And so are many.
LEMMA AplanarTandas ==
    ASSUME NEW n \in Nat, NEW ss, ss = [i \in 1..n |-> ss[i]], \A i \in 1..n : ss[i] \in Tandas
    PROVE  FlattenSeq(ss) \in Tandas
  <1>1. ss \in Seq(Tandas) /\ Len(ss) = n
    <2>1. ss \in [1..n -> Tandas]  BY Zenon
    <2>2. QED  BY <2>1
  <1>2. CASE n = 0
    <2>1. ss = <<>>  BY <1>1, <1>2
    <2>2. FlattenSeq(ss) = <<>>  BY <1>1, <1>2, <2>1 DEF FlattenSeq
    <2>3. QED  BY <2>2, TandaVacia
  <1>3. CASE n # 0
    <2>1. \A s \in Tandas : \A i \in 2..n : s \o ss[i] \in Tandas
      <3>1. 2..n \subseteq 1..n  OBVIOUS
      <3>2. QED  BY <3>1, Juntar
    <2>2. ss[1] \in Tandas  BY <1>3
    <2>3. QED  BY <1>1, <1>3, <2>1, <2>2, Aplanar
  <1>4. QED  BY <1>2, <1>3

\* Two things to write, one after the other.
LEMMA ParDe ==
    ASSUME NEW x \in Escritos, NEW y \in Escritos
    PROVE  Append(<<x>>, y) = <<x, y>>
  <1>1. <<x>> \in Seq(Escritos) /\ <<x, y>> \in Seq(Escritos) /\ Append(<<x>>, y) \in Seq(Escritos)  OBVIOUS
  <1>2. Len(Append(<<x>>, y)) = 2 /\ Len(<<x, y>>) = 2  OBVIOUS
  <1>3. \A k \in 1..2 : Append(<<x>>, y)[k] = <<x, y>>[k]  OBVIOUS
  <1>4. QED  BY <1>1, <1>2, <1>3, SeqEqual

\* The bits of an operation.
LEMMA BitsTanda ==
    ASSUME NEW f \in Archivos, NEW n \in Nat, NEW w \in [1..n -> Nat], NEW que \in {"asignar", "liberar"}
    PROVE  [i \in 1..n |-> Paso(que, f, w[i])] \in Tandas
  <1> DEFINE s == [i \in 1..n |-> Paso(que, f, w[i])]
  <1>1. \A i \in 1..n : s[i] \in Escritos /\ s[i].que = que  BY PasoTipo
  <1>2. s \in Seq(Escritos) /\ Len(s) = n  BY <1>1
  <1> HIDE DEF s
  <1>3. \A i \in 1..n : Valido(s[i]) /\ Alcanza(s, i) /\ s[i].que # "unlink"  BY <1>1 DEF Valido, Alcanza
  <1>4. s \in Tandas  BY <1>2, <1>3 DEF Tandas
  <1>5. QED  BY <1>4 DEF s

\* Bits in a row.
LEMMA BitsSeguidos ==
    ASSUME NEW f \in Archivos, NEW d \in Nat, NEW n \in Nat
    PROVE  Asignar(f, d, n) \in Tandas /\ Liberar(f, d, n) \in Tandas
  <1> DEFINE w == [i \in 1..n |-> d + i - 1]
  <1>1. w \in [1..n -> Nat]  OBVIOUS
  <1>2. [i \in 1..n |-> Paso("asignar", f, w[i])] \in Tandas  BY <1>1, BitsTanda
  <1>3. [i \in 1..n |-> Paso("liberar", f, w[i])] \in Tandas  BY <1>1, BitsTanda
  <1>4. Asignar(f, d, n) = [i \in 1..n |-> Paso("asignar", f, w[i])]  BY DEF Asignar
  <1>5. Liberar(f, d, n) = [i \in 1..n |-> Paso("liberar", f, w[i])]  BY DEF Liberar
  <1>6. QED  BY <1>2, <1>3, <1>4, <1>5

\* One more thing to write after a batch.
LEMMA UnoMas ==
    ASSUME NEW s \in Tandas, NEW p \in Escritos, Valido(p),
           p.que = "inicial" => p.valor <= MaxBit \/ \E j \in 1..Len(s) : Corta(s[j])
    PROVE  /\ Append(s, p) \in Seq(Escritos) /\ Validos(Append(s, p)) /\ Append(s, p) = s \o <<p>>
           /\ p.que # "unlink" => Append(s, p) \in Tandas
  <1> DEFINE u == Append(s, p)
  <1>1. /\ s \in Seq(Escritos) /\ Len(s) \in Nat /\ u \in Seq(Escritos) /\ Len(u) = Len(s) + 1
        /\ \A k \in 1..Len(s) : u[k] = s[k]
        /\ u[Len(s) + 1] = p /\ u = s \o <<p>>
    BY DEF Tandas
  <1> HIDE DEF u
  <1>2. ASSUME NEW k \in 1..Len(s) PROVE Valido(u[k]) /\ Alcanza(u, k) /\ u[k].que # "unlink"
    <2>1. u[k] = s[k] /\ \A j \in 1..k - 1 : u[j] = s[j]  BY <1>1
    <2>2. Valido(s[k]) /\ Alcanza(s, k) /\ s[k].que # "unlink"  BY DEF Tandas
    <2>3. QED  BY <2>1, <2>2 DEF Alcanza
  <1>3. Valido(p) /\ Alcanza(u, Len(s) + 1)
    <2>1. \A j \in 1..Len(s) : j \in 1..(Len(s) + 1) - 1 /\ u[j] = s[j]  BY <1>1
    <2>2. QED  BY <1>1, <2>1 DEF Alcanza
  <1>4. \A k \in 1..Len(u) : k \in 1..Len(s) \/ k = Len(s) + 1  BY <1>1
  <1>5. Validos(u)
    <2> SUFFICES ASSUME NEW k \in 1..Len(u) PROVE Valido(u[k]) /\ Alcanza(u, k) /\ (u[k].que = "unlink" => k = Len(u))
      BY DEF Validos
    <2>1. CASE k \in 1..Len(s)  BY <1>2, <2>1
    <2>2. CASE k = Len(s) + 1  BY <1>1, <1>3, <2>2
    <2>3. QED  BY <1>4, <2>1, <2>2
  <1>6. p.que # "unlink" => u \in Tandas
    <2> SUFFICES ASSUME p.que # "unlink", NEW k \in 1..Len(u)
                 PROVE  Valido(u[k]) /\ Alcanza(u, k) /\ u[k].que # "unlink"
      BY <1>1 DEF Tandas
    <2>1. CASE k \in 1..Len(s)  BY <1>2, <2>1
    <2>2. CASE k = Len(s) + 1  BY <1>1, <1>3, <2>2
    <2>3. QED  BY <1>4, <2>1, <2>2
  <1>7. QED  BY <1>1, <1>5, <1>6 DEF u

-----------------------------------------------------------------------------
(* The types *)

\* The invariant.
InvTipos == TypeOK /\ Validos(pendiente)

\* The metadata of a file.
LEMMA ArchivoRango ==
    ASSUME TypeOK, NEW f \in DOMAIN metadata
    PROVE  /\ f \in Archivos /\ Inicial(f) \in Nat /\ Inicial(f) <= MaxBit
           /\ Tam(f) \in Nat /\ Tam(f) < Ancho /\ CantidadBloques(Tam(f)) \in Nat /\ CantidadBloques(Tam(f)) >= 1
  <1>1. f \in Archivos /\ metadata[f] \in [inicial : 0..MaxBit, tamanio : 0..Ancho - 1]  BY DEF TypeOK
  <1>2. Inicial(f) \in 0..MaxBit /\ Tam(f) \in 0..Ancho - 1  BY <1>1 DEF Inicial, Tam
  <1>3. Inicial(f) \in Nat /\ Inicial(f) <= MaxBit /\ Tam(f) \in Nat /\ Tam(f) < Ancho  BY <1>2, Constantes
  <1>4. QED  BY <1>1, <1>3, Cantidad

\* What a block holds.
LEMMA ContenidoTipo ==
    ASSUME TypeOK, NEW b \in Nat
    PROVE  Contenido(b) \in Seq(Nat)
  <1>1. \A d \in Bytes : bloques[d] \in Nat  BY DEF TypeOK
  <1>2. Contenido(b) \in [1..BlockSize -> Nat]  BY <1>1 DEF Contenido
  <1>3. QED  BY <1>2, Constantes

\* The blocks of a file, freed.
LEMMA LiberaTanda ==
    ASSUME TypeOK, NEW f \in DOMAIN metadata
    PROVE  Liberar(f, Inicial(f), CantidadBloques(Tam(f))) \in Tandas
  BY ArchivoRango, BitsSeguidos

\* A file that is moved gets its bits before its first block.
LEMMA AcomodarTanda ==
    ASSUME TypeOK, NEW orden, NEW i, orden[i] \in DOMAIN metadata, Antes(orden, i) \in Nat
    PROVE  Acomodar(orden, i) \in Tandas
  <1> DEFINE f == orden[i]
             libre == Antes(orden, i)
             c == CantidadBloques(Tam(f))
             s == IF libre = Inicial(f) THEN <<>> ELSE Asignar(f, libre, c)
  <1>1. /\ f \in Archivos /\ Inicial(f) <= MaxBit /\ c \in Nat /\ c >= 1  BY ArchivoRango
  <1>2. Acomodar(orden, i) = Append(s, Paso("inicial", f, libre))  BY DEF Acomodar
  <1>3. s \in Tandas  BY <1>1, TandaVacia, BitsSeguidos
  <1> DEFINE p == Paso("inicial", f, libre)
  <1>4. p \in Escritos /\ p.que = "inicial" /\ p.archivo = f /\ p.valor = libre  BY <1>1, PasoTipo
  <1>5. libre # Inicial(f) /\ libre > MaxBit => \E j \in 1..Len(s) : Corta(s[j])
    <2> SUFFICES ASSUME libre # Inicial(f), libre > MaxBit PROVE \E j \in 1..Len(s) : Corta(s[j])
      OBVIOUS
    <2>1. s = [j \in 1..c |-> Paso("asignar", f, libre + j - 1)]  BY DEF Asignar
    <2>2. Len(s) = c /\ 1 \in 1..c /\ libre + 1 - 1 = libre  BY <1>1, <2>1
    <2>3. s[1] = Paso("asignar", f, libre)  BY <2>1, <2>2
    <2>4. s[1].que = "asignar" /\ s[1].valor = libre  BY <1>1, <2>3, PasoTipo
    <2>5. QED  BY <2>2, <2>4, Constantes DEF Corta
  <1>6. Valido(p)  BY <1>4 DEF Valido
  <1> HIDE DEF p, s
  <1>7. p.valor <= MaxBit \/ \E j \in 1..Len(s) : Corta(s[j])  BY <1>1, <1>4, <1>5, Constantes
  <1>8. Append(s, p) \in Tandas  BY <1>3, <1>4, <1>6, <1>7, UnoMas
  <1>9. QED  BY <1>2, <1>8 DEF p

\* And so does the file that has no room, which goes to the end.
LEMMA MoverTanda ==
    ASSUME TypeOK, NEW f \in DOMAIN metadata, NEW nuevo \in Nat
    PROVE  MoverAlFinal(f, nuevo) \in Tandas
  <1> DEFINE c == CantidadBloques(Tam(f))
             copia(j) == [que |-> "copiar", archivo |-> f, valor |-> nuevo, datos |-> Contenido(Inicial(f) + j - 1)]
             bit(j) == Paso("asignar", f, nuevo + j - 1)
             ss == [j \in 1..c |-> <<copia(j), bit(j)>>]
             T == {s \in Tandas : Len(s) >= 2 /\ s[2] = Paso("asignar", f, nuevo)}
             p == Paso("inicial", f, nuevo)
  <1>1. f \in Archivos /\ Inicial(f) \in Nat /\ c \in Nat /\ c >= 1  BY ArchivoRango
  <1>2. ASSUME NEW j \in 1..c PROVE <<copia(j), bit(j)>> \in Tandas
    <2>1. Contenido(Inicial(f) + j - 1) \in Seq(Nat)
      <3>1. Inicial(f) + j - 1 \in Nat  BY <1>1
      <3>2. QED  BY <3>1, ContenidoTipo
    <2>2. copia(j) \in Escritos /\ copia(j).que = "copiar"  BY <1>1, <2>1 DEF Escritos
    <2>3. bit(j) \in Escritos /\ bit(j).que = "asignar"  BY <1>1, PasoTipo
    <2> HIDE DEF copia, bit
    <2>4. Valido(copia(j)) /\ Valido(bit(j))  BY <2>2, <2>3 DEF Valido
    <2>5. Append(<<>>, copia(j)) \in Tandas  BY <2>2, <2>4, TandaVacia, UnoMas
    <2>6. Append(<<>>, copia(j)) = <<copia(j)>>  OBVIOUS
    <2>7. Append(<<copia(j)>>, bit(j)) \in Tandas  BY <2>3, <2>4, <2>5, <2>6, UnoMas
    <2>8. Append(<<copia(j)>>, bit(j)) = <<copia(j), bit(j)>>  BY <2>2, <2>3, ParDe
    <2>9. QED  BY <2>7, <2>8, Zenon
  <1>3. \A j \in 1..c : ss[j] \in Tandas  BY <1>2
  <1>4. Len(ss) = c  BY <1>1
  <1>5. ss[1] \in T
    <2>1. 1 \in 1..c /\ nuevo + 1 - 1 = nuevo  BY <1>1
    <2>2. ss[1] = <<copia(1), bit(1)>> /\ bit(1) = Paso("asignar", f, nuevo)  BY <2>1
    <2> HIDE DEF copia, bit
    <2>3. Len(<<copia(1), bit(1)>>) = 2 /\ <<copia(1), bit(1)>>[2] = bit(1)  OBVIOUS
    <2>4. QED  BY <1>3, <2>1, <2>2, <2>3
  <1> HIDE DEF ss
  <1>6. \A s \in T : \A j \in 2..c : s \o ss[j] \in T
    <2> SUFFICES ASSUME NEW s \in T, NEW j \in 2..c PROVE s \o ss[j] \in T
      OBVIOUS
    <2>1. ss[j] \in Tandas  BY <1>3
    <2>2. s \o ss[j] \in Tandas  BY <2>1, Juntar
    <2>3. s \in Seq(Escritos) /\ ss[j] \in Seq(Escritos)  BY <2>1 DEF Tandas
    <2>4. Len(s \o ss[j]) >= 2 /\ (s \o ss[j])[2] = s[2]  BY <2>3
    <2>5. QED  BY <2>2, <2>4
  <1> HIDE DEF T
  <1>7. FlattenSeq(ss) \in T  BY <1>1, <1>4, <1>5, <1>6, Aplanar
  <1> DEFINE s == FlattenSeq(ss)
  <1>8. s \in Tandas /\ Len(s) >= 2 /\ s[2] = Paso("asignar", f, nuevo)  BY <1>7 DEF T
  <1>9. p \in Escritos /\ p.que = "inicial" /\ p.archivo = f /\ p.valor = nuevo  BY <1>1, PasoTipo
  <1>10. nuevo > MaxBit => \E j \in 1..Len(s) : Corta(s[j])
    <2>1. s[2].que = "asignar" /\ s[2].valor = nuevo  BY <1>1, <1>8, PasoTipo
    <2>2. Len(s) \in Nat  BY <1>8 DEF Tandas
    <2>3. QED  BY <1>8, <2>1, <2>2, Constantes DEF Corta
  <1>11. MoverAlFinal(f, nuevo) = s \o <<p>>  BY Zenon DEF MoverAlFinal, ss
  <1> HIDE DEF s, p
  <1>12. Valido(p)  BY <1>9 DEF Valido
  <1>13. Append(s, p) \in Tandas /\ Append(s, p) = s \o <<p>>  BY <1>8, <1>9, <1>10, <1>12, UnoMas, Constantes
  <1>14. QED  BY <1>11, <1>13

\* The whole of a compaction.
LEMMA CompactarTanda ==
    ASSUME TypeOK, NEW f \in DOMAIN metadata, NEW orden \in SetToSeqs(DOMAIN metadata \ {f})
    PROVE  Compactar(f, orden) \in Tandas
  <1> DEFINE S == DOMAIN metadata \ {f}
             n == Len(orden)
             libera(g) == Liberar(g, Inicial(g), CantidadBloques(Tam(g)))
             liberan == [i \in 1..n |-> libera(orden[i])]
             acomodan == [i \in 1..n |-> Acomodar(orden, i)]
  <1>1. Cardinality(S) \in Nat
    <2>1. S \subseteq Archivos  BY DEF TypeOK
    <2>2. IsFiniteSet(S)  BY <2>1, ConstantesOK, FS_Subset
    <2>3. QED  BY <2>2, FS_CardinalityType
  <1>2. orden \in [1..Cardinality(S) -> S]  BY DEF SetToSeqs
  <1>3. n \in Nat /\ \A i \in 1..n : orden[i] \in DOMAIN metadata
    <2>1. n = Cardinality(S)  BY <1>1, <1>2
    <2>2. QED  BY <1>1, <1>2, <2>1
  <1> HIDE DEF n, libera
  <1>4. \A g \in DOMAIN metadata : libera(g) \in Tandas  BY LiberaTanda DEF libera
  <1>5. FlattenSeq(liberan) \in Tandas
    <2>1. \A i \in 1..n : liberan[i] \in Tandas  BY <1>3, <1>4
    <2>2. liberan = [i \in 1..n |-> liberan[i]]  OBVIOUS
    <2> HIDE DEF liberan
    <2>3. QED  BY <1>3, <2>1, <2>2, AplanarTandas
  <1>6. \A i \in 1..n + 1 : Antes(orden, i) \in Nat
    <2>1. \A k \in 1..n : CantidadBloques(Tam(orden[k])) \in Nat  BY <1>3, ArchivoRango
    <2>2. Len(orden) = n  BY DEF n
    <2>3. QED  BY <1>3, <2>1, <2>2, AntesTipo
  <1>7. FlattenSeq(acomodan) \in Tandas
    <2>1. \A i \in 1..n : acomodan[i] \in Tandas
      <3> SUFFICES ASSUME NEW i \in 1..n PROVE Acomodar(orden, i) \in Tandas
        OBVIOUS
      <3>1. orden[i] \in DOMAIN metadata /\ Antes(orden, i) \in Nat  BY <1>3, <1>6
      <3>2. QED  BY <3>1, AcomodarTanda
    <2>2. acomodan = [i \in 1..n |-> acomodan[i]]  OBVIOUS
    <2> HIDE DEF acomodan
    <2>3. QED  BY <1>3, <2>1, <2>2, AplanarTandas
  <1>8. MoverAlFinal(f, Antes(orden, n + 1)) \in Tandas
    <2>1. n + 1 \in 1..n + 1  BY <1>3
    <2>2. QED  BY <1>6, <2>1, MoverTanda
  <1>9. Compactar(f, orden)
          = libera(f) \o FlattenSeq(liberan) \o FlattenSeq(acomodan) \o MoverAlFinal(f, Antes(orden, n + 1))
    BY Zenon DEF Compactar, libera, n
  <1> HIDE DEF liberan, acomodan
  <1>10. libera(f) \o FlattenSeq(liberan) \in Tandas  BY <1>4, <1>5, Juntar
  <1>11. (libera(f) \o FlattenSeq(liberan)) \o FlattenSeq(acomodan) \in Tandas  BY <1>7, <1>10, Juntar
  <1>12. QED  BY <1>8, <1>9, <1>11, Juntar

-----------------------------------------------------------------------------
(* Requests *)

\* An operation is prepared, or refused.
LEMMA Pide ==
    ASSUME InvTipos, UNCHANGED <<metadata, bitmap, cortes>>, bloques' \in [Bytes -> Nat],
           viva' \in BOOLEAN, fuga' \in BOOLEAN, cuenta' \in 0..Operaciones,
           DOMAIN escrito' = Archivos, danio' \subseteq Causas,
           NEW s \in Seq(Escritos), pendiente' = s, Validos(s), s # <<>> => viva'
    PROVE  InvTipos'
  <1>1. Validos(pendiente)'  BY DEF Validos, Valido, Alcanza, Corta
  <1>2. TypeOK'  BY DEF InvTipos, TypeOK, Bytes
  <1>3. QED  BY <1>1, <1>2 DEF InvTipos

\* Nothing to write.
LEMMA NadaValido == <<>> \in Seq(Escritos) /\ Validos(<<>>)
  <1>1. Len(<<>>) = 0 /\ <<>> \in Seq(Escritos)  BY EmptySeq
  <1>2. QED  BY <1>1 DEF Validos

\* A request is served when nothing is pending.
LEMMA PedidoTipo == ASSUME InvTipos, Pedido PROVE pendiente = <<>> /\ viva /\ cuenta' \in 0..Operaciones
  BY Constantes, ConstantesOK DEF InvTipos, TypeOK, Pedido

\* crear_archivo.
LEMMA CrearTipo == ASSUME InvTipos, NEW f \in Archivos, Crear(f) PROVE InvTipos'
  <1>1. /\ pendiente = <<>> /\ viva /\ cuenta' \in 0..Operaciones
        /\ UNCHANGED <<metadata, bitmap, bloques, cortes, escrito, danio, fuga>>
    BY PedidoTipo DEF Crear, disco, historia
  <1>2. /\ bloques \in [Bytes -> Nat] /\ fuga \in BOOLEAN /\ DOMAIN escrito = Archivos /\ danio \subseteq Causas
    BY DEF InvTipos, TypeOK
  <1>3. CASE Rechazar
    <2>1. pendiente' = <<>> /\ viva' \in BOOLEAN  BY <1>1, <1>3 DEF Rechazar
    <2>2. QED  BY <1>1, <1>2, <2>1, NadaValido, Pide
  <1>4. CASE /\ ~Existe(f) /\ BitsLibres # {}
             /\ Hacer("crear", <<Paso("asignar", f, BloqueLibre), Paso("crear", f, BloqueLibre)>>)
    <2> DEFINE a == Paso("asignar", f, BloqueLibre)
               b == Paso("crear", f, BloqueLibre)
    <2>1. BloqueLibre \in Nat /\ BloqueLibre < MaxBit  BY <1>4, BloqueLibreEsLibre
    <2>2. /\ a \in Escritos /\ a.que = "asignar"
          /\ b \in Escritos /\ b.que = "crear" /\ b.valor <= MaxBit
      BY <2>1, PasoTipo, Constantes
    <2>3. pendiente' = <<a, b>> /\ viva'  BY <1>1, <1>4 DEF Hacer
    <2> HIDE DEF a, b
    <2>4. Valido(a) /\ Valido(b)  BY <2>2 DEF Valido
    <2>5. Append(<<>>, a) = <<a>>  OBVIOUS
    <2>6. <<a>> \in Tandas  BY <2>2, <2>4, <2>5, TandaVacia, UnoMas
    <2>7. Append(<<a>>, b) \in Tandas  BY <2>2, <2>4, <2>6, UnoMas
    <2>8. Append(<<a>>, b) = pendiente'  BY <2>2, <2>3, ParDe
    <2>9. pendiente' \in Seq(Escritos) /\ Validos(pendiente')
      <3>1. PICK s : s = pendiente'  OBVIOUS
      <3>2. s \in Seq(Escritos) /\ Validos(s)  BY <2>7, <2>8, <3>1, TandaValida
      <3>3. QED  BY <3>1, <3>2
    <2>10. QED  BY <1>1, <1>2, <2>3, <2>9, Pide
  <1>5. QED  BY <1>3, <1>4 DEF Crear

\* crear_archivo is alone in writing before the file exists; the others end in a batch and
\* one thing more.
LEMMA PideTanda ==
    ASSUME InvTipos, UNCHANGED <<metadata, bitmap, bloques, cortes, fuga>>, viva',
           cuenta' \in 0..Operaciones, DOMAIN escrito' = Archivos, danio' \subseteq Causas,
           NEW s \in Tandas, NEW que \in {"tamanio", "unlink", "reintentar"}, NEW f \in DOMAIN metadata,
           NEW v \in Nat, que # "unlink" => v \in Tamanios,
           pendiente' = Append(s, Paso(que, f, v)) \/ pendiente' = s \o <<Paso(que, f, v)>>
    PROVE  InvTipos'
  <1> DEFINE p == Paso(que, f, v)
  <1>1. f \in Archivos /\ bloques \in [Bytes -> Nat] /\ fuga \in BOOLEAN  BY DEF InvTipos, TypeOK
  <1>2. p \in Escritos /\ p.que = que /\ p.archivo = f /\ p.valor = v  BY <1>1, PasoTipo
  <1> HIDE DEF p
  <1>3. Valido(p)  BY <1>2 DEF Valido
  <1>4. /\ Append(s, p) \in Seq(Escritos) /\ Validos(Append(s, p)) /\ Append(s, p) = s \o <<p>>
    BY <1>2, <1>3, UnoMas
  <1>5. pendiente' = Append(s, p)  BY <1>4 DEF p
  <1>6. QED  BY <1>1, <1>4, <1>5, Pide

\* borrar_archivo.
LEMMA BorrarTipo == ASSUME InvTipos, NEW f \in Archivos, Borrar(f) PROVE InvTipos'
  <1>1. /\ pendiente = <<>> /\ viva /\ cuenta' \in 0..Operaciones
        /\ UNCHANGED <<metadata, bitmap, bloques, cortes, fuga>>
    BY PedidoTipo DEF Borrar, disco
  <1>2. /\ bloques \in [Bytes -> Nat] /\ fuga \in BOOLEAN /\ DOMAIN escrito = Archivos /\ danio \subseteq Causas
    BY DEF InvTipos, TypeOK
  <1>3. DOMAIN escrito' = Archivos /\ danio' \subseteq Causas  BY <1>2 DEF Borrar, Daniar, Causas
  <1>4. CASE Rechazar
    <2>1. pendiente' = <<>> /\ viva' \in BOOLEAN  BY <1>1, <1>4 DEF Rechazar
    <2>2. QED  BY <1>1, <1>2, <1>3, <2>1, NadaValido, Pide
  <1>5. CASE /\ Existe(f)
             /\ Hacer("borrar", Append(Liberar(f, Inicial(f), Techo(Tam(f)) + 1), Paso("unlink", f, 0)))
    <2>1. f \in DOMAIN metadata /\ Inicial(f) \in Nat /\ Tam(f) \in Nat
      BY <1>5, ArchivoRango DEF Existe, InvTipos
    <2>2. Techo(Tam(f)) + 1 \in Nat  BY <2>1, TechoDef
    <2>3. Liberar(f, Inicial(f), Techo(Tam(f)) + 1) \in Tandas  BY <2>1, <2>2, BitsSeguidos
    <2>4. viva' /\ pendiente' = Append(Liberar(f, Inicial(f), Techo(Tam(f)) + 1), Paso("unlink", f, 0))
      BY <1>1, <1>5 DEF Hacer
    <2>5. QED  BY <1>1, <1>3, <2>1, <2>3, <2>4, PideTanda
  <1>6. QED  BY <1>4, <1>5 DEF Borrar

\* The blocks that a truncation frees are blocks of the file: none is below zero.
LEMMA AcortarTipo ==
    ASSUME InvTipos, NEW f \in Archivos, NEW n \in Tamanios, Acortar(f, n) PROVE InvTipos'
  <1> DEFINE a == Tam(f)
             ult == UltimoBloque(Inicial(f), Tam(f))
             lib == BloquesALiberar(Tam(f), n)
             s == [i \in 1..lib |-> Paso("liberar", f, ult - i + 1)]
  <1>1. /\ pendiente = <<>> /\ viva /\ cuenta' \in 0..Operaciones
        /\ UNCHANGED <<metadata, bitmap, bloques, cortes, fuga>>
        /\ f \in DOMAIN metadata /\ a > n
        /\ Hacer("acortar", s \o <<Paso("tamanio", f, n)>>)
    BY PedidoTipo DEF Acortar, disco, Existe
  <1>2. DOMAIN escrito' = Archivos /\ danio' \subseteq Causas
    BY DEF InvTipos, TypeOK, Acortar, Daniar, Causas
  <1> HIDE DEF ult, lib
  <1>3. PICK b : b = Inicial(f)  OBVIOUS
  <1>4. PICK k : k = Techo(n)  OBVIOUS
  <1>5. PICK m : m = Techo(a)  OBVIOUS
  <1>6. n \in Nat /\ n < Ancho /\ b \in Nat /\ a \in Nat /\ a < Ancho /\ a > 0
    <2>1. n \in 0..Ancho - 1  BY Constantes
    <2>2. b \in Nat /\ a \in Nat /\ a < Ancho  BY <1>1, <1>3, ArchivoRango DEF InvTipos
    <2>3. QED  BY <1>1, <2>1, <2>2, Constantes
  <1>7. k \in Nat /\ m \in Nat /\ k <= m /\ m < Ancho
    <2>1. k \in Nat /\ m \in Nat /\ m <= a /\ k <= m  BY <1>1, <1>4, <1>5, <1>6, TechoDef, TechoCrece
    <2>2. QED  BY <1>6, <2>1, Constantes
  <1>8. lib = m - k /\ ult = b + m - 1
    <2>1. CantidadBloques(a) = m  BY <1>5, <1>6, Cantidad
    <2>2. lib = (m - k) % Ancho  BY <1>4, <2>1 DEF lib, BloquesALiberar
    <2>3. (m - k) % Ancho = m - k  BY <1>7, SinVuelta, Constantes
    <2>4. QED  BY <1>3, <1>5, <2>2, <2>3 DEF ult, UltimoBloque
  <1> HIDE DEF a
  <1>9. s \in Tandas
    <2> DEFINE w == [i \in 1..lib |-> ult - i + 1]
    <2>1. lib \in Nat /\ \A i \in 1..lib : ult - i + 1 \in Nat  BY <1>6, <1>7, <1>8
    <2>2. w \in [1..lib -> Nat]  BY <2>1
    <2>3. [i \in 1..lib |-> Paso("liberar", f, w[i])] \in Tandas  BY <2>1, <2>2, BitsTanda
    <2>4. s = [i \in 1..lib |-> Paso("liberar", f, w[i])]  OBVIOUS
    <2>5. QED  BY <2>3, <2>4
  <1> HIDE DEF s
  <1>10. viva' /\ pendiente' = s \o <<Paso("tamanio", f, n)>>  BY <1>1 DEF Hacer
  <1>11. QED  BY <1>1, <1>2, <1>6, <1>9, <1>10, PideTanda

\* What agrandar_archivo writes, also after a compaction.
LEMMA AmpliarTipo ==
    ASSUME InvTipos, NEW f \in DOMAIN metadata, NEW n \in Tamanios
    PROVE  /\ n \in Nat /\ Asignar(f, Inicial(f) + 1, BloquesAdicionales(Tam(f), n)) \in Tandas
           /\ Ampliar(f, n) = Append(Asignar(f, Inicial(f) + 1, BloquesAdicionales(Tam(f), n)), Paso("tamanio", f, n))
  <1>1. f \in Archivos /\ Inicial(f) + 1 \in Nat /\ CantidadBloques(Tam(f)) \in Nat
    BY ArchivoRango DEF InvTipos
  <1>2. n \in 0..Ancho - 1  BY Constantes
  <1>3. n \in Nat  BY <1>2, Constantes
  <1>4. Techo(n) \in Nat  BY <1>3, TechoDef
  <1>5. BloquesAdicionales(Tam(f), n) \in Nat
    <2>1. Ancho \in Nat /\ Ancho > 0  BY Constantes
    <2>2. Techo(n) - CantidadBloques(Tam(f)) \in Int  BY <1>1, <1>4
    <2>3. QED  BY <2>1, <2>2 DEF BloquesAdicionales
  <1>6. QED  BY <1>1, <1>3, <1>5, BitsSeguidos DEF Ampliar

\* agrandar_archivo.
LEMMA AgrandarTipo ==
    ASSUME InvTipos, NEW f \in Archivos, NEW n \in Tamanios, Agrandar(f, n) PROVE InvTipos'
  <1>1. /\ pendiente = <<>> /\ viva /\ cuenta' \in 0..Operaciones
        /\ UNCHANGED <<metadata, bitmap, bloques, cortes, escrito, fuga>> /\ f \in DOMAIN metadata
    BY PedidoTipo DEF Agrandar, disco, Existe
  <1>2. /\ bloques \in [Bytes -> Nat] /\ fuga \in BOOLEAN /\ DOMAIN escrito = Archivos /\ danio \subseteq Causas
    BY DEF InvTipos, TypeOK
  <1>3. danio' \subseteq Causas  BY <1>2 DEF Agrandar, Daniar, Causas
  <1>4. CASE Rechazar
    <2>1. pendiente' = <<>> /\ viva' \in BOOLEAN  BY <1>1, <1>4 DEF Rechazar
    <2>2. QED  BY <1>1, <1>2, <1>3, <2>1, NadaValido, Pide
  <1>5. CASE Hacer("agrandar", Ampliar(f, n))
    <2>1. viva' /\ pendiente' = Ampliar(f, n)  BY <1>1, <1>5 DEF Hacer
    <2>2. QED  BY <1>1, <1>2, <1>3, <2>1, AmpliarTipo, PideTanda
  <1>6. CASE \E orden \in SetToSeqs(DOMAIN metadata \ {f}) :
                Hacer("compactar", Append(Compactar(f, orden), Paso("reintentar", f, n)))
    <2>1. PICK orden \in SetToSeqs(DOMAIN metadata \ {f}) :
                Hacer("compactar", Append(Compactar(f, orden), Paso("reintentar", f, n)))
      BY <1>6
    <2>2. Compactar(f, orden) \in Tandas  BY <1>1, CompactarTanda DEF InvTipos
    <2>3. viva' /\ pendiente' = Append(Compactar(f, orden), Paso("reintentar", f, n))  BY <1>1, <2>1 DEF Hacer
    <2>4. n \in Nat  BY <1>1, AmpliarTipo
    <2>5. QED  BY <1>1, <1>2, <1>3, <2>2, <2>3, <2>4, PideTanda
  <1>7. QED  BY <1>4, <1>5, <1>6 DEF Agrandar

\* escribir_archivo.
LEMMA EscribirTipo ==
    ASSUME InvTipos, NEW f \in Archivos, NEW e \in Escrituras, Escribir(f, e[1], e[2]) PROVE InvTipos'
  <1>1. /\ pendiente = <<>> /\ viva /\ cuenta' \in 0..Operaciones
        /\ UNCHANGED <<metadata, bitmap, cortes, danio, fuga>>
    BY PedidoTipo DEF Escribir
  <1>2. /\ bloques \in [Bytes -> Nat] /\ fuga \in BOOLEAN /\ DOMAIN escrito = Archivos /\ danio \subseteq Causas
    BY DEF InvTipos, TypeOK
  <1>3. cuenta' \in Nat  BY <1>1, ConstantesOK
  <1>4. DOMAIN escrito' = Archivos /\ bloques' \in [Bytes -> Nat]
    BY <1>2, <1>3 DEF Escribir
  <1>5. pendiente' = <<>> /\ viva' \in BOOLEAN  BY <1>1 DEF Escribir, Rechazar
  <1>6. QED  BY <1>1, <1>2, <1>4, <1>5, NadaValido, Pide

-----------------------------------------------------------------------------
(* Writes *)

\* What is left after something has been written: a file is not forgotten before the last.
LEMMA Avanza ==
    ASSUME InvTipos, pendiente # <<>>, ~Corta(P), P.que # "unlink",
           DOMAIN metadata \subseteq DOMAIN metadata', pendiente' = Tail(pendiente)
    PROVE  pendiente' \in Seq(Escritos) /\ Validos(pendiente)'
  <1> DEFINE s == pendiente
             t == Tail(s)
  <1>1. s \in Seq(Escritos) /\ Len(s) \in Nat \ {0} /\ s[1] = P  BY DEF InvTipos, TypeOK, P
  <1>2. t \in Seq(Escritos) /\ Len(t) = Len(s) - 1 /\ \A k \in 1..Len(t) : t[k] = s[k + 1]  BY <1>1
  <1> HIDE DEF s, t
  <1>3. ASSUME NEW k \in 1..Len(t)
        PROVE  Valido(t[k]) /\ Alcanza(t, k) /\ (t[k].que = "unlink" => k = Len(t))
    <2>1. k + 1 \in 1..Len(s) /\ t[k] = s[k + 1] /\ (k + 1 = Len(s) => k = Len(t))  BY <1>1, <1>2
    <2>2. Valido(s[k + 1]) /\ Alcanza(s, k + 1) /\ (s[k + 1].que = "unlink" => k + 1 = Len(s))
      BY <2>1 DEF InvTipos, Validos, s
    <2>3. Alcanza(t, k)
      <3> SUFFICES ASSUME t[k].que = "inicial", ~(t[k].valor <= MaxBit)
                   PROVE  \E j \in 1..k - 1 : Corta(t[j])
        BY DEF Alcanza
      <3>1. PICK j \in 1..k + 1 - 1 : Corta(s[j])  BY <2>1, <2>2 DEF Alcanza
      <3>2. j # 1  BY <1>1, <3>1
      <3>3. j - 1 \in 1..k - 1 /\ j - 1 \in 1..Len(t) /\ (j - 1) + 1 = j  BY <1>2, <3>2
      <3>4. t[j - 1] = s[j]  BY <1>2, <3>3
      <3>5. QED  BY <3>1, <3>3, <3>4
    <2>4. QED  BY <2>1, <2>2, <2>3
  <1>4. Validos(t)  BY <1>3 DEF Validos
  <1>5. pendiente' = t  BY DEF s, t
  <1>6. Validos(pendiente)'  BY <1>4, <1>5 DEF Validos, Valido, Alcanza, Corta
  <1>7. QED  BY <1>2, <1>5, <1>6

\* A write that does not delete a file.
LEMMA EscribeTipo ==
    ASSUME InvTipos, pendiente # <<>>, ~Corta(P), P.que # "unlink", Seguir, Estables,
           UNCHANGED <<danio, fuga>>, bitmap' \subseteq 0..MaxBit - 1, bloques' \in [Bytes -> Nat],
           DOMAIN metadata \subseteq DOMAIN metadata', DOMAIN metadata' \subseteq Archivos,
           \A f \in DOMAIN metadata' : metadata'[f] \in [inicial : 0..MaxBit, tamanio : 0..Ancho - 1]
    PROVE  InvTipos'
  <1>1. pendiente' \in Seq(Escritos) /\ Validos(pendiente)'  BY Avanza DEF Seguir
  <1>2. TypeOK'  BY <1>1 DEF InvTipos, TypeOK, Seguir, Estables, Bytes
  <1>3. QED  BY <1>1, <1>2 DEF InvTipos

\* The interface stops half way.
LEMMA CaerTipo == ASSUME InvTipos, Caer, UNCHANGED <<disco, cuenta, escrito>>, cortes' \in 0..Cortes PROVE InvTipos'
  <1>1. pendiente' = <<>> /\ viva' \in BOOLEAN /\ fuga' \in BOOLEAN  BY DEF Caer
  <1>2. /\ UNCHANGED <<metadata, bitmap, bloques, cuenta, escrito>> /\ DOMAIN escrito = Archivos
        /\ bloques \in [Bytes -> Nat] /\ cuenta \in 0..Operaciones /\ danio \subseteq Causas
    BY DEF InvTipos, TypeOK, disco
  <1>3. danio' \subseteq Causas  BY <1>2 DEF Caer, Daniar, Causas
  <1>4. Validos(pendiente)'
    <2>1. Len(<<>>) = 0  OBVIOUS
    <2>2. QED  BY <1>1, <2>1 DEF Validos
  <1>5. pendiente' \in Seq(Escritos)  BY <1>1, EmptySeq
  <1>6. TypeOK'
    BY <1>1, <1>2, <1>3, <1>5 DEF InvTipos, TypeOK, Bytes
  <1>7. QED  BY <1>4, <1>6 DEF InvTipos

\* What is first in line is what its operation left there.
LEMMA PrimeroTipo ==
    ASSUME InvTipos, pendiente # <<>>
    PROVE  /\ P \in Escritos /\ Valido(P) /\ (P.que = "inicial" => P.valor <= MaxBit)
           /\ (P.que = "unlink" => Tail(pendiente) = <<>>)
           /\ P.archivo \in Archivos /\ P.valor \in Nat /\ P.datos \in Seq(Nat)
           /\ bitmap \subseteq 0..MaxBit - 1 /\ bloques \in [Bytes -> Nat] /\ DOMAIN metadata \subseteq Archivos
           /\ cortes \in 0..Cortes
           /\ \A f \in DOMAIN metadata : metadata[f] \in [inicial : 0..MaxBit, tamanio : 0..Ancho - 1]
  <1>1. pendiente \in Seq(Escritos) /\ Len(pendiente) \in Nat \ {0} /\ P = pendiente[1]
    BY DEF InvTipos, TypeOK, P
  <1>2. P \in Escritos /\ 1 \in 1..Len(pendiente)  BY <1>1
  <1>3. Valido(P) /\ Alcanza(pendiente, 1) /\ (P.que = "unlink" => 1 = Len(pendiente))
    BY <1>1, <1>2 DEF InvTipos, Validos
  <1>4. P.que = "inicial" => P.valor <= MaxBit  BY <1>1, <1>3 DEF Alcanza
  <1>5. 1 = Len(pendiente) => Tail(pendiente) = <<>>
    <2>1. PICK t : t = Tail(pendiente)  OBVIOUS
    <2>2. t \in Seq(Escritos) /\ Len(t) = Len(pendiente) - 1  BY <1>1, <2>1
    <2>3. Len(t) = 0 => t = <<>>  BY <2>2
    <2>4. QED  BY <1>1, <2>1, <2>2, <2>3
  <1>6. P.archivo \in Archivos /\ P.valor \in Nat /\ P.datos \in Seq(Nat)  BY <1>2 DEF Escritos
  <1>7. QED  BY <1>2, <1>3, <1>4, <1>5, <1>6 DEF InvTipos, TypeOK

\* A bit out of the bitmap is never set: the interface ends there.
LEMMA BitTipo == ASSUME InvTipos, AsignarBloque \/ LiberarBloque PROVE InvTipos'
  <1>1. /\ pendiente # <<>> /\ P.que \in {"asignar", "liberar"} /\ UNCHANGED <<metadata, bloques>> /\ Estables
    BY DEF AsignarBloque, LiberarBloque, Sigue
  <1>2. CASE P.valor < MaxBit /\ Seguir /\ UNCHANGED <<danio, fuga>>
    <2>1. bitmap' = bitmap \union {P.valor} \/ bitmap' = bitmap \ {P.valor}
      BY <1>1, <1>2, PrimeroTipo, Constantes DEF AsignarBloque, LiberarBloque
    <2>2. ~Corta(P) /\ P.que # "unlink"  BY <1>1, <1>2, PrimeroTipo, Constantes DEF Corta
    <2>3. bitmap' \subseteq 0..MaxBit - 1  BY <1>1, <1>2, <2>1, PrimeroTipo, Constantes
    <2>4. QED  BY <1>1, <1>2, <2>2, <2>3, PrimeroTipo, EscribeTipo
  <1>3. CASE P.valor >= MaxBit /\ Caer /\ UNCHANGED bitmap
    <2>1. UNCHANGED <<disco, cuenta, escrito>> /\ cortes' \in 0..Cortes
      BY <1>1, <1>3, PrimeroTipo DEF Estables, disco
    <2>2. QED  BY <1>3, <2>1, CaerTipo
  <1>4. QED  BY <1>2, <1>3 DEF AsignarBloque, LiberarBloque

\* Metadata that is rewritten, or written for the first time.
LEMMA MetadataTipo ==
    ASSUME InvTipos, NEW que \in {"crear", "tamanio", "inicial"}, NEW i \in 0..MaxBit, NEW t \in 0..Ancho - 1,
           Grabar(que, Con(P.archivo, i, t))
    PROVE  InvTipos'
  <1> DEFINE f == P.archivo
  <1>1. /\ pendiente # <<>> /\ P.que = que /\ Seguir /\ Estables /\ metadata' = Con(f, i, t)
        /\ UNCHANGED <<bitmap, bloques, danio, fuga>>
    BY DEF Grabar, Sigue
  <1>2. f \in Archivos /\ DOMAIN metadata \subseteq Archivos  BY <1>1, PrimeroTipo
  <1>3. /\ DOMAIN metadata' = DOMAIN metadata \union {f}
        /\ \A g \in DOMAIN metadata' : metadata'[g] = IF g = f THEN [inicial |-> i, tamanio |-> t] ELSE metadata[g]
    BY <1>1 DEF Con
  <1>4. \A g \in DOMAIN metadata' : metadata'[g] \in [inicial : 0..MaxBit, tamanio : 0..Ancho - 1]
    <2> SUFFICES ASSUME NEW g \in DOMAIN metadata'
                 PROVE  metadata'[g] \in [inicial : 0..MaxBit, tamanio : 0..Ancho - 1]
      OBVIOUS
    <2>1. CASE g = f  BY <1>3, <2>1
    <2>2. CASE g # f
      <3>1. g \in DOMAIN metadata /\ metadata'[g] = metadata[g]  BY <1>3, <2>2
      <3>2. QED  BY <1>1, <3>1, PrimeroTipo
    <2>3. QED  BY <2>1, <2>2
  <1>5. ~Corta(P) /\ P.que # "unlink"  BY <1>1 DEF Corta
  <1>6. DOMAIN metadata \subseteq DOMAIN metadata' /\ DOMAIN metadata' \subseteq Archivos  BY <1>2, <1>3
  <1>7. QED  BY <1>1, <1>4, <1>5, <1>6, PrimeroTipo, EscribeTipo

\* Whatever is written.
LEMMA EscrituraTipo == ASSUME InvTipos, Escritura PROVE InvTipos'
  <1>1. CASE AsignarBloque \/ LiberarBloque  BY <1>1, BitTipo
  <1>2. CASE CrearMetadata
    <2>1. pendiente # <<>> /\ P.que = "crear"  BY <1>2 DEF CrearMetadata, Grabar, Sigue
    <2>2. P.valor \in 0..MaxBit /\ 0 \in 0..Ancho - 1  BY <2>1, PrimeroTipo, Constantes DEF Valido
    <2>3. QED  BY <1>2, <2>2, MetadataTipo DEF CrearMetadata
  <1>3. CASE ActualizarTamanio
    <2>1. pendiente # <<>> /\ P.que = "tamanio"  BY <1>3 DEF ActualizarTamanio, Grabar, Sigue
    <2>2. P.archivo \in DOMAIN metadata /\ P.valor \in Tamanios  BY <2>1, PrimeroTipo DEF Valido
    <2>3. Inicial(P.archivo) \in 0..MaxBit  BY <2>2, ArchivoRango, Constantes DEF InvTipos
    <2>4. P.valor \in 0..Ancho - 1  BY <2>2, Constantes
    <2>5. QED  BY <1>3, <2>3, <2>4, MetadataTipo DEF ActualizarTamanio
  <1>4. CASE ActualizarInicial
    <2>1. pendiente # <<>> /\ P.que = "inicial"  BY <1>4 DEF ActualizarInicial, Grabar, Sigue
    <2>2. P.archivo \in DOMAIN metadata /\ P.valor \in 0..MaxBit  BY <2>1, PrimeroTipo, Constantes DEF Valido
    <2>3. Tam(P.archivo) \in 0..Ancho - 1  BY <2>2, ArchivoRango, Constantes DEF InvTipos
    <2>4. QED  BY <1>4, <2>2, <2>3, MetadataTipo DEF ActualizarInicial
  <1>5. CASE BorrarMetadata
    <2>1. /\ pendiente # <<>> /\ P.que = "unlink" /\ Seguir /\ Estables
          /\ metadata' = [g \in DOMAIN metadata \ {P.archivo} |-> metadata[g]]
          /\ UNCHANGED <<bitmap, bloques, danio, fuga>>
      BY <1>5 DEF BorrarMetadata, Grabar, Sigue
    <2>2. pendiente' = <<>>  BY <2>1, PrimeroTipo DEF Seguir
    <2>3. Validos(pendiente)'
      <3>1. Len(<<>>) = 0  OBVIOUS
      <3>2. QED  BY <2>2, <3>1 DEF Validos
    <2>4. pendiente' \in Seq(Escritos)  BY <2>2, EmptySeq
    <2>5. /\ DOMAIN metadata' \subseteq Archivos
          /\ \A f \in DOMAIN metadata' : metadata'[f] \in [inicial : 0..MaxBit, tamanio : 0..Ancho - 1]
      BY <2>1, PrimeroTipo
    <2>6. TypeOK'  BY <2>1, <2>4, <2>5 DEF InvTipos, TypeOK, Seguir, Estables, Bytes
    <2>7. QED  BY <2>3, <2>6 DEF InvTipos
  <1>6. CASE CopiarBloque
    <2> DEFINE desde == P.valor * BlockSize
    <2>1. /\ pendiente # <<>> /\ P.que = "copiar" /\ Seguir /\ Estables
          /\ bloques' = [d \in Bytes |-> IF d - desde + 1 \in DOMAIN P.datos THEN P.datos[d - desde + 1] ELSE bloques[d]]
          /\ UNCHANGED <<metadata, bitmap, danio, fuga>>
      BY <1>6 DEF CopiarBloque, Sigue
    <2>2. P.datos \in Seq(Nat) /\ bloques \in [Bytes -> Nat]  BY <2>1, PrimeroTipo
    <2>3. \A k \in DOMAIN P.datos : P.datos[k] \in Nat  BY <2>2
    <2>4. bloques' \in [Bytes -> Nat]  BY <2>1, <2>2, <2>3
    <2>5. ~Corta(P) /\ P.que # "unlink"  BY <2>1 DEF Corta
    <2>6. QED  BY <2>1, <2>4, <2>5, PrimeroTipo, EscribeTipo
  <1>7. CASE Reintentar
    <2>1. pendiente # <<>> /\ P.que = "reintentar" /\ Estables /\ UNCHANGED disco /\ viva
      BY <1>7 DEF Reintentar, Sigue
    <2>2. P.archivo \in DOMAIN metadata /\ P.valor \in Tamanios /\ cortes \in 0..Cortes
      BY <2>1, PrimeroTipo DEF Valido
    <2>3. CASE pendiente' = Ampliar(P.archivo, P.valor) /\ UNCHANGED <<viva, danio, fuga>>
      <3>1. /\ cuenta' \in 0..Operaciones /\ DOMAIN escrito' = Archivos /\ danio' \subseteq Causas
            /\ UNCHANGED <<metadata, bitmap, bloques, cortes, fuga>> /\ viva'
        BY <2>1, <2>3 DEF InvTipos, TypeOK, Estables, disco
      <3>2. QED  BY <2>2, <2>3, <3>1, AmpliarTipo, PideTanda
    <2>4. CASE Caer
      <3>1. UNCHANGED <<disco, cuenta, escrito>> /\ cortes' \in 0..Cortes  BY <2>1, <2>2 DEF Estables
      <3>2. QED  BY <2>4, <3>1, CaerTipo
    <2>5. QED  BY <1>7, <2>3, <2>4 DEF Reintentar
  <1>8. QED  BY <1>1, <1>2, <1>3, <1>4, <1>5, <1>6, <1>7 DEF Escritura

-----------------------------------------------------------------------------
\* Every step keeps the types.
LEMMA NextTipo == ASSUME InvTipos, [Next]_vars PROVE InvTipos'
  <1>1. ASSUME NEW f \in Archivos, Crear(f) PROVE InvTipos'  BY <1>1, CrearTipo
  <1>2. ASSUME NEW f \in Archivos, Borrar(f) PROVE InvTipos'  BY <1>2, BorrarTipo
  <1>3. ASSUME NEW f \in Archivos, TruncarInexistente(f) PROVE InvTipos'
    <2>1. /\ pendiente = <<>> /\ cuenta' \in 0..Operaciones
          /\ UNCHANGED <<metadata, bitmap, bloques, cortes, escrito, danio, fuga>>
          /\ pendiente' = <<>> /\ viva' \in BOOLEAN
      BY <1>3, PedidoTipo DEF TruncarInexistente, Rechazar, disco, historia
    <2>2. /\ bloques \in [Bytes -> Nat] /\ fuga \in BOOLEAN /\ DOMAIN escrito = Archivos /\ danio \subseteq Causas
      BY DEF InvTipos, TypeOK
    <2>3. QED  BY <2>1, <2>2, NadaValido, Pide
  <1>4. ASSUME NEW f \in Archivos, NEW n \in Tamanios, Acortar(f, n) PROVE InvTipos'  BY <1>4, AcortarTipo
  <1>5. ASSUME NEW f \in Archivos, NEW n \in Tamanios, Agrandar(f, n) PROVE InvTipos'  BY <1>5, AgrandarTipo
  <1>6. ASSUME NEW f \in Archivos, NEW e \in Escrituras, Escribir(f, e[1], e[2]) PROVE InvTipos'
    BY <1>6, EscribirTipo
  <1>7. CASE Escritura  BY <1>7, EscrituraTipo
  <1>8. CASE Cortar
    <2>1. Caer /\ UNCHANGED <<disco, cuenta, escrito>> /\ cortes' = cortes + 1 /\ cortes < Cortes
      BY <1>8 DEF Cortar
    <2>2. cortes' \in 0..Cortes  BY <2>1, ConstantesOK DEF InvTipos, TypeOK
    <2>3. QED  BY <2>1, <2>2, CaerTipo
  <1>9. CASE LevantarFileSystem
    <2>1. pendiente = <<>> /\ pendiente' = <<>> /\ viva' \in BOOLEAN
          /\ UNCHANGED <<metadata, bitmap, bloques, cuenta, cortes, escrito, danio, fuga>>
      BY <1>9 DEF LevantarFileSystem, InvTipos, TypeOK, disco, historia
    <2>2. /\ bloques \in [Bytes -> Nat] /\ fuga \in BOOLEAN /\ DOMAIN escrito = Archivos /\ danio \subseteq Causas
          /\ cuenta \in 0..Operaciones
      BY DEF InvTipos, TypeOK
    <2>3. QED  BY <2>1, <2>2, NadaValido, Pide
  <1>10. CASE UNCHANGED vars
    BY <1>10 DEF InvTipos, TypeOK, Validos, Valido, Alcanza, Corta, Bytes, vars, disco, historia
  <1>11. QED  BY <1>1, <1>2, <1>3, <1>4, <1>5, <1>6, <1>7, <1>8, <1>9, <1>10 DEF Next

\* Whatever has harmed the files, and through compactions, what the interface has in memory
\* and on disk keeps its shape: no bit is set out of the bitmap, no first block is past its
\* end, no write is prepared for a file that is not there or for a block below zero, and a
\* stopped interface has nothing to write.
THEOREM TypeOKSiempre == Spec => []TypeOK
  <1>1. Init => InvTipos
    <2> SUFFICES ASSUME Init PROVE InvTipos
      OBVIOUS
    <2>1. pendiente = <<>> /\ pendiente \in Seq(Escritos) /\ Validos(pendiente)  BY NadaValido DEF Init
    <2>2. 0 \in 0..Operaciones /\ 0 \in 0..Cortes  BY ConstantesOK
    <2>3. TypeOK  BY <2>1, <2>2, Constantes DEF Init, TypeOK, Causas
    <2>4. QED  BY <2>1, <2>3 DEF InvTipos
  <1>2. InvTipos /\ [Next]_vars => InvTipos'  BY NextTipo
  <1>3. InvTipos => TypeOK  BY DEF InvTipos
  <1>4. QED  BY <1>1, <1>2, <1>3, PTL DEF Spec

=============================================================================
