------------------------------ MODULE MmuProofs ------------------------------
(***************************************************************************)
(* Proofs about Mmu: the types, that the TLB is right (TlbCorrecta), and   *)
(* that memory through page tables and TLB implements MemoriaVirtual.      *)
(*                                                                         *)
(* The inductive invariant IInv says of the TLB more than which pages it   *)
(* has: its list and the history of uses match one to one, in the order    *)
(* that the algorithm keeps (Coloca), since the victim is chosen by order. *)
(* reemplazo_lru leaves the list in another order, so under LRU the order  *)
(* is that of the accesses, which must then be different and before the    *)
(* clock.  IInv also says that no two pages share a frame (TablaJusta),    *)
(* without which a program would overwrite the bytes of another.           *)
(*                                                                         *)
(* An access of several pages is a fold: the lemmas about FoldLeft give it *)
(* as a function of the number of pages, and those of the search and of    *)
(* the pages that come in say what holds after each number of them.        *)
(***************************************************************************)
EXTENDS Mmu, FiniteSetTheorems, SequenceTheorems, WellFoundedInduction, TLAPS

-----------------------------------------------------------------------------
(* Naturals *)

\* A nonempty set of naturals has a least element.
LEMMA MenorNatural == ASSUME NEW A, A \subseteq Nat, A # {} PROVE \E m \in A : \A n \in A : m <= n
  <1>1. PICK m \in A : \A n \in A : <<n, m>> \notin OpToRel(<, Nat)
    BY NatLessThanWellFounded, WFMin, Zenon
  <1>2. \A n \in A : ~(n < m)  BY <1>1, Zenon DEF OpToRel
  <1>3. \A n \in A : n \in Nat /\ m \in Nat  OBVIOUS
  <1>4. QED  BY <1>2, <1>3

\* What holds of 0 and of the next number whenever of a number holds up to m.
LEMMA HastaN ==
    ASSUME NEW m \in Nat, NEW A, 0 \in A, \A k \in 0..m - 1 : k \in A => k + 1 \in A
    PROVE  \A k \in 0..m : k \in A
  <1> DEFINE M == {k \in 0..m : k \notin A}
  <1> SUFFICES ASSUME M # {} PROVE FALSE  OBVIOUS
  <1>1. PICK k \in M : \A n \in M : k <= n
    <2>1. M \subseteq Nat  OBVIOUS
    <2> HIDE DEF M
    <2>2. QED  BY <2>1, MenorNatural
  <1>2. k \in 0..m /\ k \notin A  BY <1>1
  <1>3. k # 0  BY <1>2
  <1>4. k - 1 \in 0..m - 1 /\ k - 1 \in 0..m /\ k - 1 < k /\ (k - 1) + 1 = k  BY <1>2, <1>3
  <1>5. k - 1 \notin M
    <2> HIDE DEF M
    <2> QED  BY <1>1, <1>4
  <1>6. QED  BY <1>2, <1>4, <1>5

\* Of several subsets of a finite set, one has no more elements than the others.
LEMMA MenorDe ==
    ASSUME NEW S, IsFiniteSet(S), NEW M, M \subseteq SUBSET S, M # {}
    PROVE  \E s \in M : \A u \in M : Cardinality(s) <= Cardinality(u)
  <1> DEFINE N == {Cardinality(s) : s \in M}
  <1>1. N \subseteq Nat  BY FS_Subset, FS_CardinalityType
  <1>2. N # {}  OBVIOUS
  <1>3. \A u \in M : Cardinality(u) \in N  OBVIOUS
  <1>4. \A n \in N : \E s \in M : n = Cardinality(s)  OBVIOUS
  <1> HIDE DEF N
  <1>5. PICK m \in N : \A n \in N : m <= n  BY <1>1, <1>2, MenorNatural
  <1>6. QED  BY <1>3, <1>4, <1>5

-----------------------------------------------------------------------------
(* FoldLeft: MapThenFoldSet takes the greatest position of a set of positions last. *)

EsPliegue(a, g, b, n) ==
    a = [s \in SUBSET (1..n) |-> IF s = {} THEN b ELSE g[Max(s)][a[s \ {Max(s)}]]]

\* The greatest of 1..k + 1.
LEMMA MaxTramo == ASSUME NEW k \in Nat PROVE Max(1..k + 1) = k + 1 /\ (1..k + 1) \ {k + 1} = 1..k
  <1>1. k + 1 \in 1..k + 1 /\ \A y \in 1..k + 1 : k + 1 >= y  OBVIOUS
  <1>2. \A x \in 1..k + 1 : (\A y \in 1..k + 1 : x >= y) => x = k + 1  OBVIOUS
  <1>3. Max(1..k + 1) = k + 1  BY <1>1, <1>2 DEF Max
  <1>4. (1..k + 1) \ {k + 1} = 1..k  OBVIOUS
  <1>5. QED  BY <1>3, <1>4

\* A nonempty set of positions has a greatest one.
LEMMA MaxDe ==
    ASSUME NEW n \in Nat, NEW s \in SUBSET (1..n), s # {}
    PROVE  Max(s) \in s /\ \A x \in s : x <= Max(s)
  <1> DEFINE A == {n - x : x \in s}
  <1>0. \A x \in s : n - x \in Nat  OBVIOUS
  <1>1. A \subseteq Nat /\ A # {}  BY <1>0
  <1>2. PICK m \in A : \A k \in A : m <= k
    <2> HIDE DEF A
    <2> QED  BY <1>1, MenorNatural
  <1>3. PICK x \in s : m = n - x  BY <1>2
  <1>4. \A y \in s : n - x <= n - y  BY <1>2, <1>3
  <1>5. \A y \in s : x >= y  BY <1>4
  <1>6. Max(s) \in s /\ \A y \in s : Max(s) >= y  BY <1>5 DEF Max
  <1>7. QED  BY <1>6

\* What is left of a set of positions without its greatest one.
LEMMA SinMax ==
    ASSUME NEW n \in Nat, NEW s \in SUBSET (1..n), s # {}
    PROVE  /\ s \ {Max(s)} \in SUBSET (1..n) /\ Cardinality(s) \in Nat /\ Cardinality(s) # 0
           /\ Cardinality(s \ {Max(s)}) = Cardinality(s) - 1
  <1>1. IsFiniteSet(1..n)  BY FS_Interval
  <1>2. IsFiniteSet(s)  BY <1>1, FS_Subset
  <1>3. Cardinality(s) \in Nat /\ Cardinality(s) # 0  BY <1>2, FS_CardinalityType, FS_EmptySet
  <1>4. Cardinality(s \ {Max(s)}) = Cardinality(s) - 1  BY <1>2, FS_RemoveElement, MaxDe
  <1>5. QED  BY <1>3, <1>4

\* There is such a function: the recursion is over the size of the set.
LEMMA PliegueExiste == ASSUME NEW n \in Nat, NEW g, NEW b PROVE \E a : EsPliegue(a, g, b, n)
  <1> DEFINE Hasta(k) == {s \in SUBSET (1..n) : Cardinality(s) <= k}
             Parcial(a, k) == a = [s \in Hasta(k) |-> IF s = {} THEN b ELSE g[Max(s)][a[s \ {Max(s)}]]]
             A == {k \in Nat : \E a : Parcial(a, k)}
  <1>1. \A s \in SUBSET (1..n) : Cardinality(s) \in Nat /\ (Cardinality(s) = 0 => s = {})
    <2>1. IsFiniteSet(1..n)  BY FS_Interval
    <2>2. QED  BY <2>1, FS_Subset, FS_CardinalityType, FS_EmptySet
  <1>2. 0 \in A
    <2> DEFINE a == [s \in Hasta(0) |-> b]
    <2>1. \A s \in Hasta(0) : s = {}  BY <1>1
    <2>2. Parcial(a, 0)  BY <2>1
    <2>3. QED  BY <2>2
  <1>3. ASSUME NEW k \in Nat, k \in A PROVE k + 1 \in A
    <2>1. PICK a : Parcial(a, k)  BY <1>3
    <2> DEFINE c == [s \in Hasta(k + 1) |-> IF s = {} THEN b ELSE g[Max(s)][a[s \ {Max(s)}]]]
    <2>2. Parcial(c, k + 1)
      <3>1. SUFFICES ASSUME NEW s \in Hasta(k + 1), s # {} PROVE a[s \ {Max(s)}] = c[s \ {Max(s)}]
        OBVIOUS
      <3> DEFINE u == s \ {Max(s)}
      <3>2. u \in SUBSET (1..n) /\ Cardinality(u) = Cardinality(s) - 1 /\ Cardinality(s) \in Nat
        BY <3>1, SinMax
      <3>3. u \in Hasta(k) /\ u \in Hasta(k + 1)
        <4>1. Cardinality(u) <= k /\ Cardinality(u) <= k + 1  BY <3>1, <3>2
        <4>2. QED  BY <3>2, <4>1
      <3> HIDE DEF u
      <3>4. a[u] = IF u = {} THEN b ELSE g[Max(u)][a[u \ {Max(u)}]]  BY <2>1, <3>3
      <3>5. c[u] = IF u = {} THEN b ELSE g[Max(u)][a[u \ {Max(u)}]]  BY <3>3
      <3>6. QED  BY <3>4, <3>5 DEF u
    <2> HIDE DEF c, Parcial
    <2>3. k + 1 \in Nat /\ \E d : Parcial(d, k + 1)  BY <2>2
    <2>4. QED  BY <2>3
  <1>4. n \in A
    <2> HIDE DEF A
    <2>1. \A k \in 0..n : k \in A  BY <1>2, <1>3, HastaN
    <2>2. QED  BY <2>1
  <1>5. PICK a : Parcial(a, n)  BY <1>4
  <1>6. Hasta(n) = SUBSET (1..n)
    <2>1. IsFiniteSet(1..n) /\ Cardinality(1..n) = n  BY FS_Interval
    <2>2. \A s \in SUBSET (1..n) : Cardinality(s) <= n
      <3>1. TAKE s \in SUBSET (1..n)
      <3>2. QED  BY <2>1, FS_Subset
    <2>3. QED  BY <2>2
  <1>7. EsPliegue(a, g, b, n)  BY <1>5, <1>6 DEF EsPliegue
  <1>8. QED  BY <1>7

\* Its values are of the type that each step keeps.
LEMMA PliegueTipo ==
    ASSUME NEW n \in Nat, NEW X, NEW g \in [1..n -> [X -> X]], NEW b \in X, NEW a, EsPliegue(a, g, b, n)
    PROVE  \A s \in SUBSET (1..n) : a[s] \in X
  <1> DEFINE M == {s \in SUBSET (1..n) : a[s] \notin X}
  <1> SUFFICES ASSUME M # {} PROVE FALSE  OBVIOUS
  <1>1. PICK s \in M : \A u \in M : Cardinality(s) <= Cardinality(u)
    <2>1. M \subseteq SUBSET (1..n) /\ IsFiniteSet(1..n)  BY FS_Interval
    <2> HIDE DEF M
    <2>2. QED  BY <2>1, MenorDe
  <1>2. s \in SUBSET (1..n) /\ a[s] = IF s = {} THEN b ELSE g[Max(s)][a[s \ {Max(s)}]]
    BY <1>1 DEF EsPliegue
  <1>3. s # {}  BY <1>1, <1>2
  <1>4. /\ s \ {Max(s)} \in SUBSET (1..n) /\ Cardinality(s) \in Nat
        /\ Cardinality(s \ {Max(s)}) = Cardinality(s) - 1
    BY <1>2, <1>3, SinMax
  <1>5. s \ {Max(s)} \notin M
    <2>1. ~(Cardinality(s) <= Cardinality(s \ {Max(s)}))  BY <1>4
    <2> HIDE DEF M
    <2>2. QED  BY <1>1, <2>1
  <1>6. a[s \ {Max(s)}] \in X /\ Max(s) \in 1..n  BY <1>2, <1>3, <1>4, <1>5, MaxDe
  <1>7. a[s] \in X  BY <1>2, <1>3, <1>6
  <1>8. QED  BY <1>1, <1>7

\* Two of them agree as far as their steps do.
LEMMA PliegueUnico ==
    ASSUME NEW n \in Nat, NEW m \in Nat, NEW k \in Nat, k <= n, k <= m, NEW b,
           NEW g, NEW a, EsPliegue(a, g, b, n), NEW h, NEW c, EsPliegue(c, h, b, m),
           \A i \in 1..k : g[i] = h[i]
    PROVE  a[1..k] = c[1..k]
  <1> DEFINE A == {i \in 0..k : a[1..i] = c[1..i]}
  <1>1. 1..0 = {}  OBVIOUS
  <1>2. 0 \in A  BY <1>1 DEF EsPliegue
  <1>3. ASSUME NEW i \in 0..k - 1, i \in A PROVE i + 1 \in A
    <2>1. PICK s : s = 1..i + 1  OBVIOUS
    <2>2. s \in SUBSET (1..n) /\ s \in SUBSET (1..m) /\ s # {} /\ i + 1 \in 1..k
      BY <2>1
    <2>0. i \in Nat  OBVIOUS
    <2>3. Max(s) = i + 1 /\ s \ {Max(s)} = 1..i  BY <2>0, <2>1, MaxTramo
    <2>4. /\ a[s] = g[Max(s)][a[s \ {Max(s)}]]
          /\ c[s] = h[Max(s)][c[s \ {Max(s)}]]
      BY <2>2, Zenon DEF EsPliegue
    <2>7. a[s] = g[i + 1][a[1..i]] /\ c[s] = h[i + 1][c[1..i]]  BY <2>3, <2>4
    <2>5. a[s] = c[s]  BY <1>3, <2>2, <2>7
    <2>6. QED  BY <2>1, <2>2, <2>5
  <1>4. k \in A
    <2> HIDE DEF A
    <2> QED  BY <1>2, <1>3, HastaN
  <1>5. QED  BY <1>4

-----------------------------------------------------------------------------
(* Sorted enumerations *)

\* The elements of a finite set in the order of a key of their own.
LEMMA HayOrden ==
    ASSUME NEW S, IsFiniteSet(S), NEW clave \in [S -> Nat], \A x, y \in S : clave[x] = clave[y] => x = y
    PROVE  \E u \in [1..Cardinality(S) -> S] :
               \A i, j \in 1..Cardinality(S) : i < j => clave[u[i]] < clave[u[j]]
  <1> DEFINE Ordena(u, s) == /\ u \in [1..Cardinality(s) -> s]
                             /\ \A i, j \in 1..Cardinality(s) : i < j => clave[u[i]] < clave[u[j]]
             M == {s \in SUBSET S : ~ \E u : Ordena(u, s)}
  <1>1. M = {}
    <2> SUFFICES ASSUME M # {} PROVE FALSE  OBVIOUS
    <2>1. PICK s \in M : \A v \in M : Cardinality(s) <= Cardinality(v)
      <3>1. M \subseteq SUBSET S  OBVIOUS
      <3> HIDE DEF M
      <3>2. QED  BY <3>1, MenorDe
    <2>2. s \in SUBSET S /\ IsFiniteSet(s) /\ ~ \E u : Ordena(u, s)  BY <2>1, FS_Subset
    <2>3. s # {}
      <3> SUFFICES ASSUME s = {} PROVE FALSE  OBVIOUS
      <3>1. Cardinality(s) = 0 /\ 1..0 = {}  BY FS_EmptySet
      <3>2. Ordena([i \in 1..0 |-> 0], s)  BY <3>1
      <3> HIDE DEF Ordena
      <3>3. QED  BY <2>2, <3>2
    <2> DEFINE N == {clave[x] : x \in s}
    <2>4. N \subseteq Nat /\ N # {}  BY <2>2, <2>3
    <2>5. PICK c \in N : \A d \in N : c <= d
      <3> HIDE DEF N
      <3> QED  BY <2>4, MenorNatural
    <2>6. PICK x \in s : c = clave[x]  BY <2>5
    <2>7. \A y \in s : clave[x] <= clave[y]  BY <2>5, <2>6
    <2>8. PICK v : v = s \ {x}  OBVIOUS
    <2>9. PICK n \in Nat : Cardinality(v) = n
      <3>1. IsFiniteSet(v)  BY <2>2, <2>8, FS_RemoveElement
      <3>2. QED  BY <3>1, FS_CardinalityType
    <2>10. Cardinality(s) = n + 1
      <3>1. Cardinality(v) = Cardinality(s) - 1  BY <2>2, <2>6, <2>8, FS_RemoveElement
      <3>2. Cardinality(s) \in Nat  BY <2>2, FS_CardinalityType
      <3>3. QED  BY <2>9, <3>1, <3>2
    <2>11. v \in SUBSET S /\ v \notin M
      <3>1. ~(Cardinality(s) <= Cardinality(v))  BY <2>9, <2>10
      <3>2. v \in SUBSET S  BY <2>2, <2>8
      <3> HIDE DEF M
      <3>3. QED  BY <2>1, <3>1, <3>2
    <2>12. PICK w : Ordena(w, v)  BY <2>11
    <2>13. PICK u : u = [i \in 1..n + 1 |-> IF i = 1 THEN x ELSE w[i - 1]]  OBVIOUS
    <2>14. w \in [1..n -> v] /\ \A i, j \in 1..n : i < j => clave[w[i]] < clave[w[j]]  BY <2>9, <2>12
    <2>15. u \in [1..n + 1 -> s]
      <3>1. ASSUME NEW i \in 1..n + 1 PROVE (IF i = 1 THEN x ELSE w[i - 1]) \in s
        <4>1. CASE i = 1  BY <2>6, <4>1
        <4>2. CASE i # 1
          <5>1. i - 1 \in 1..n  BY <4>2
          <5>2. w[i - 1] \in v  BY <2>14, <5>1
          <5>3. QED  BY <2>8, <4>2, <5>2
        <4>3. QED  BY <4>1, <4>2
      <3>2. QED  BY <2>13, <3>1
    <2>16. ASSUME NEW i \in 1..n + 1, NEW j \in 1..n + 1, i < j PROVE clave[u[i]] < clave[u[j]]
      <3>1. j - 1 \in 1..n /\ u[j] = w[j - 1]  BY <2>13, <2>16
      <3>2. CASE i = 1
        <4>1. u[i] = x  BY <2>13, <3>2
        <4>2. w[j - 1] \in v  BY <2>14, <3>1
        <4>3. u[j] \in s /\ u[j] # x /\ u[j] \in S /\ x \in S  BY <2>2, <2>6, <2>8, <3>1, <4>2
        <4>4. clave[x] <= clave[u[j]] /\ clave[x] # clave[u[j]] /\ clave[x] \in Nat /\ clave[u[j]] \in Nat
          BY <2>7, <4>3
        <4>5. QED  BY <4>1, <4>4
      <3>3. CASE i # 1
        <4>1. i - 1 \in 1..n /\ u[i] = w[i - 1] /\ i - 1 < j - 1  BY <2>13, <2>16, <3>3
        <4>2. QED  BY <2>14, <3>1, <4>1
      <3>4. QED  BY <3>2, <3>3
    <2>17. Ordena(u, s)  BY <2>10, <2>15, <2>16
    <2> HIDE DEF Ordena
    <2>18. QED  BY <2>2, <2>17
  <1>2. PICK u : Ordena(u, S)  BY <1>1
  <1>3. QED  BY <1>2

\* Such an enumeration has every element.
LEMMA OrdenCompleto ==
    ASSUME NEW S, IsFiniteSet(S), NEW u \in [1..Cardinality(S) -> S],
           \A i, j \in 1..Cardinality(S) : i # j => u[i] # u[j]
    PROVE  \A x \in S : \E i \in 1..Cardinality(S) : u[i] = x
  <1>1. PICK n \in Nat : n = Cardinality(S)  BY FS_CardinalityType
  <1>2. IsFiniteSet(1..n) /\ Cardinality(1..n) = n  BY FS_Interval
  <1>3. u \in Injection(1..n, S)  BY <1>1 DEF Injection, IsInjective
  <1>4. u \in Surjection(1..n, S)  BY <1>1, <1>2, <1>3, FS_Injection
  <1>5. QED  BY <1>1, <1>4 DEF Surjection

-----------------------------------------------------------------------------
(* The folds of the module, step by step *)

\* The greatest position of the first k ones is the last.
LEMMA Tramos ==
    ASSUME NEW n \in Nat
    PROVE  /\ 1..0 = {}
           /\ \A k \in 1..n : /\ 1..k \in SUBSET (1..n) /\ 1..k # {} /\ Max(1..k) = k
                              /\ (1..k) \ {k} = 1..k - 1 /\ k - 1 \in 0..n
  <1>1. 1..0 = {}  OBVIOUS
  <1>2. ASSUME NEW k \in 1..n
        PROVE  /\ 1..k \in SUBSET (1..n) /\ 1..k # {} /\ Max(1..k) = k
               /\ (1..k) \ {k} = 1..k - 1 /\ k - 1 \in 0..n
    <2>1. k - 1 \in Nat /\ (k - 1) + 1 = k /\ k - 1 \in 0..n  OBVIOUS
    <2>2. Max(1..k) = k /\ (1..k) \ {k} = 1..k - 1
      <3>1. PICK j \in Nat : j + 1 = k /\ j = k - 1  BY <2>1
      <3>2. QED  BY <3>1, MaxTramo
    <2>3. 1..k \in SUBSET (1..n) /\ 1..k # {}  OBVIOUS
    <2>4. QED  BY <2>1, <2>2, <2>3
  <1>3. QED  BY <1>1, <1>2

\* The values of such a function from each number of steps to the next.
Pasos(n, X) == [1..n -> [X -> X]]

\* What such a function gives after each number of steps.
LEMMA PliegueTraza ==
    ASSUME NEW n \in Nat, NEW X, NEW g \in Pasos(n, X), NEW b \in X, NEW a, EsPliegue(a, g, b, n)
    PROVE  /\ a[1..0] = b
           /\ \A k \in 0..n : a[1..k] \in X
           /\ \A k \in 1..n : a[1..k] = g[k][a[1..k - 1]]
  <1>1. a[1..0] = b  BY Tramos DEF EsPliegue
  <1>2. ASSUME NEW k \in 1..n PROVE a[1..k] = g[k][a[1..k - 1]]
    <2>1. PICK s : s = 1..k  OBVIOUS
    <2>2. s \in SUBSET (1..n) /\ s # {} /\ Max(s) = k /\ s \ {k} = 1..k - 1  BY <2>1, Tramos
    <2>3. a[s] = g[Max(s)][a[s \ {Max(s)}]]  BY <2>2, Zenon DEF EsPliegue
    <2>4. QED  BY <2>1, <2>2, <2>3
  <1>3. ASSUME NEW k \in 0..n PROVE a[1..k] \in X
    <2>1. 1..k \in SUBSET (1..n)  OBVIOUS
    <2>2. g \in [1..n -> [X -> X]]  BY DEF Pasos
    <2>3. QED  BY <2>1, <2>2, PliegueTipo
  <1>4. QED  BY <1>1, <1>2, <1>3

\* A translation in progress, and the type of the variables.
Estados == [tlb : Seq(Entradas), reloj : Nat, marcos : Seq(Marcos), aciertos : Seq(Nat), fallos : Seq(Nat)]
EnTabla(p, pag) == pag \in Nat /\ pag < Len(tabla[p])

\* buscar_en_tlb finds the first entry of the page, or none.
LEMMA IndiceEs ==
    ASSUME NEW t \in Seq(Entradas), NEW p, NEW pag
    PROVE  /\ Indice(t, p, pag) \in 0..Len(t)
           /\ Indice(t, p, pag) # 0 => /\ Indice(t, p, pag) \in 1..Len(t)
                                       /\ t[Indice(t, p, pag)].pid = p /\ t[Indice(t, p, pag)].pagina = pag
           /\ Indice(t, p, pag) = 0 => \A i \in 1..Len(t) : ~(t[i].pid = p /\ t[i].pagina = pag)
  <1> DEFINE I == {i \in 1..Len(t) : t[i].pid = p /\ t[i].pagina = pag}
  <1>1. Indice(t, p, pag) = IF I # {} THEN Min(I) ELSE 0  BY DEF Indice, SelectInSeq
  <1>2. CASE I = {}
    <2>1. Indice(t, p, pag) = 0 /\ Len(t) \in Nat  BY <1>1, <1>2
    <2>2. QED  BY <1>2, <2>1
  <1>3. CASE I # {}
    <2>1. I \subseteq Nat  OBVIOUS
    <2>2. Min(I) \in I
      <3> HIDE DEF I
      <3>1. \E x \in I : \A y \in I : x <= y  BY <1>3, <2>1, MenorNatural
      <3>2. QED  BY <3>1 DEF Min
    <2>3. Indice(t, p, pag) \in I  BY <1>1, <1>3, <2>2
    <2>4. QED  BY <2>3
  <1>4. QED  BY <1>2, <1>3

\* The fields of the entries of a list.
LEMMA CamposDe ==
    ASSUME NEW t \in Seq(Entradas)
    PROVE  \A i \in 1..Len(t) : /\ t[i] \in Entradas /\ t[i].pid \in Pids /\ t[i].pagina \in Nat
                                /\ t[i].marco \in Marcos /\ t[i].acceso \in Nat
  <1>1. \A i \in 1..Len(t) : t[i] \in Entradas  BY ElementOfSeq
  <1>2. QED  BY <1>1 DEF Entradas

\* The two outcomes of a search, field by field.
Tocada(t, i, r) == [t EXCEPT ![i].acceso = r]

\* A page in the TLB: its frame is appended, and the entry takes the clock.
LEMMA BuscarAcierta ==
    ASSUME NEW x \in Estados, NEW p, NEW pag, NEW i, i = Indice(x.tlb, p, pag), Acierta(x.tlb, p, pag)
    PROVE  /\ i \in 1..Len(x.tlb) /\ CantEntradas > 0
           /\ x.tlb[i].pid = p /\ x.tlb[i].pagina = pag
           /\ Buscar(x, p, pag) = [tlb |-> Tocada(x.tlb, i, x.reloj), reloj |-> x.reloj + 1,
                                   marcos |-> Append(x.marcos, x.tlb[i].marco),
                                   aciertos |-> Append(x.aciertos, pag), fallos |-> x.fallos]
  <1>1. x.tlb \in Seq(Entradas)  BY DEF Estados
  <1>2. i \in 1..Len(x.tlb) /\ x.tlb[i].pid = p /\ x.tlb[i].pagina = pag /\ CantEntradas > 0
    BY <1>1, IndiceEs DEF Acierta
  <1>3. Buscar(x, p, pag) = [x EXCEPT !.tlb[i].acceso = x.reloj, !.reloj = @ + 1,
                                      !.marcos = Append(@, x.tlb[i].marco), !.aciertos = Append(@, pag)]
    BY DEF Buscar
  <1>4. QED  BY <1>2, <1>3 DEF Estados, Tocada

\* A page out of the TLB: its frame is the page table's, and the page is noted as a miss.
LEMMA BuscarFalla ==
    ASSUME NEW x \in Estados, NEW p, NEW pag, ~Acierta(x.tlb, p, pag)
    PROVE  Buscar(x, p, pag) = [tlb |-> x.tlb, reloj |-> x.reloj,
                                marcos |-> Append(x.marcos, tabla[p][pag + 1]),
                                aciertos |-> x.aciertos, fallos |-> Append(x.fallos, pag)]
  <1>1. Buscar(x, p, pag) = [x EXCEPT !.marcos = Append(@, tabla[p][pag + 1]), !.fallos = Append(@, pag)]
    BY DEF Buscar
  <1>2. QED  BY <1>1 DEF Estados

\* A frame of a page table.
LEMMA MarcoDe ==
    ASSUME TypeOK, NEW p \in Pids, NEW pag, EnTabla(p, pag)
    PROVE  tabla[p][pag + 1] \in Marcos /\ pag \in Nat
  <1>1. tabla[p] \in Seq(Marcos)  BY DEF TypeOK
  <1>2. pag + 1 \in 1..Len(tabla[p]) /\ pag \in Nat  BY <1>1 DEF EnTabla
  <1>3. QED  BY <1>1, <1>2, ElementOfSeq

\* The search of a page of the table keeps the types.
LEMMA BuscarTipo ==
    ASSUME TypeOK, NEW p \in Pids, NEW pag, EnTabla(p, pag), NEW x \in Estados
    PROVE  Buscar(x, p, pag) \in Estados
  <1>1. tabla[p][pag + 1] \in Marcos /\ pag \in Nat  BY MarcoDe
  <1>2. /\ x.tlb \in Seq(Entradas) /\ x.reloj \in Nat /\ x.marcos \in Seq(Marcos)
        /\ x.aciertos \in Seq(Nat) /\ x.fallos \in Seq(Nat)
    BY DEF Estados
  <1>3. CASE ~Acierta(x.tlb, p, pag)
    <2>1. Append(x.marcos, tabla[p][pag + 1]) \in Seq(Marcos) /\ Append(x.fallos, pag) \in Seq(Nat)
      BY <1>1, <1>2
    <2>2. Buscar(x, p, pag) = [tlb |-> x.tlb, reloj |-> x.reloj,
                               marcos |-> Append(x.marcos, tabla[p][pag + 1]),
                               aciertos |-> x.aciertos, fallos |-> Append(x.fallos, pag)]
      BY <1>3, BuscarFalla
    <2>3. QED  BY <1>2, <2>1, <2>2 DEF Estados
  <1>4. CASE Acierta(x.tlb, p, pag)
    <2>1. PICK i : i = Indice(x.tlb, p, pag)  OBVIOUS
    <2>2. i \in 1..Len(x.tlb)  BY <1>4, <2>1, BuscarAcierta
    <2>3. x.tlb[i] \in Entradas  BY <1>2, <2>2, ElementOfSeq
    <2>4. x.tlb[i].marco \in Marcos /\ [x.tlb[i] EXCEPT !.acceso = x.reloj] \in Entradas
      BY <1>2, <2>3 DEF Entradas
    <2>5. Tocada(x.tlb, i, x.reloj) \in Seq(Entradas)
      <3>1. PICK f : f = [x.tlb[i] EXCEPT !.acceso = x.reloj]  OBVIOUS
      <3>2. [x.tlb EXCEPT ![i] = f] \in Seq(Entradas)  BY <1>2, <2>2, <2>4, <3>1, ExceptSeq
      <3>3. QED  BY <3>1, <3>2 DEF Tocada
    <2>6. Append(x.marcos, x.tlb[i].marco) \in Seq(Marcos) /\ Append(x.aciertos, pag) \in Seq(Nat)
      BY <1>1, <1>2, <2>4
    <2>7. Buscar(x, p, pag) = [tlb |-> Tocada(x.tlb, i, x.reloj), reloj |-> x.reloj + 1,
                               marcos |-> Append(x.marcos, x.tlb[i].marco),
                               aciertos |-> Append(x.aciertos, pag), fallos |-> x.fallos]
      BY <1>4, <2>1, BuscarAcierta
    <2>8. x.reloj + 1 \in Nat  BY <1>2
    <2>9. QED  BY <1>2, <2>5, <2>6, <2>7, <2>8 DEF Estados
  <1>5. QED  BY <1>3, <1>4

\* What agregar_entrada_tlb appends.
Nueva(x, p, pag) == [pid |-> p, pagina |-> pag, marco |-> tabla[p][pag + 1], acceso |-> x.reloj]
Lugar(x) == IF Len(x.tlb) < CantEntradas THEN x.tlb ELSE SinVictima(x.tlb)

\* agregar_entrada_tlb, field by field.
LEMMA ReemplazarEs ==
    ASSUME NEW x \in Estados, NEW p, NEW pag
    PROVE  Reemplazar(x, p, pag) =
               IF CantEntradas = 0 THEN x
               ELSE [tlb |-> Append(Lugar(x), Nueva(x, p, pag)), reloj |-> x.reloj + 1,
                     marcos |-> x.marcos, aciertos |-> x.aciertos, fallos |-> x.fallos]
  <1>1. Reemplazar(x, p, pag) =
            IF CantEntradas = 0 THEN x
            ELSE [x EXCEPT !.tlb = Append(Lugar(x), Nueva(x, p, pag)), !.reloj = @ + 1]
    BY DEF Reemplazar, Lugar, Nueva
  <1>2. QED  BY <1>1 DEF Estados

\* The configuration.
LEMMA Configurada ==
    ASSUME TypeOK PROVE CantEntradas \in Nat /\ (Algoritmo = "FIFO" \/ Algoritmo = "LRU")
  <1>1. config \in Nat \X {"FIFO", "LRU"}  BY ConstantesOK DEF TypeOK
  <1>2. QED  BY <1>1 DEF CantEntradas, Algoritmo

\* No two entries were accessed at the same time.
Distintas(t) == \A i, j \in 1..Len(t) : t[i].acceso = t[j].acceso => i = j

\* The list that reemplazo_lru leaves has the same entries, in the order of their accesses.
LEMMA OrdenadaEs ==
    ASSUME NEW t \in Seq(Entradas), Distintas(t)
    PROVE  /\ Ordenada(t) \in Seq(Entradas) /\ Len(Ordenada(t)) = Len(t)
           /\ \A i, j \in 1..Len(t) : i < j => Ordenada(t)[i].acceso < Ordenada(t)[j].acceso
           /\ \A i \in 1..Len(t) : \E j \in 1..Len(t) : Ordenada(t)[i] = t[j]
           /\ \A j \in 1..Len(t) : \E i \in 1..Len(t) : Ordenada(t)[i] = t[j]
  <1>1. PICK n \in Nat : n = Len(t)  OBVIOUS
  <1>2. PICK S : S = ToSet(t)  OBVIOUS
  <1>3. S = {t[i] : i \in 1..n}  BY <1>1, <1>2 DEF ToSet
  <1>4. \A i \in 1..n : t[i] \in Entradas /\ t[i].acceso \in Nat
    <2>1. \A i \in 1..n : t[i] \in Entradas  BY <1>1, ElementOfSeq
    <2>2. QED  BY <2>1 DEF Entradas
  <1>5. IsFiniteSet(S) /\ Cardinality(S) = n
    <2>1. IsFiniteSet(1..n) /\ Cardinality(1..n) = n  BY FS_Interval
    <2>2. PICK f : f = [i \in 1..n |-> t[i]]  OBVIOUS
    <2>3. f \in Surjection(1..n, S)  BY <1>3, <2>2 DEF Surjection
    <2>4. f \in Injection(1..n, S)  BY <1>1, <1>3, <2>2 DEF Injection, IsInjective, Distintas
    <2>5. QED  BY <2>1, <2>3, <2>4, FS_Surjection
  <1>6. PICK clave : clave = [x \in S |-> x.acceso]  OBVIOUS
  <1>7. clave \in [S -> Nat] /\ \A x, y \in S : clave[x] = clave[y] => x = y
    <2>1. \A x \in S : clave[x] = x.acceso /\ \E i \in 1..n : x = t[i]  BY <1>3, <1>6
    <2>2. \A x \in S : x.acceso \in Nat  BY <1>4, <2>1
    <2>3. \A x, y \in S : clave[x] = clave[y] => x = y  BY <1>1, <2>1 DEF Distintas
    <2>4. QED  BY <1>6, <2>2, <2>3
  <1>8. PICK w \in [1..n -> S] : \A i, j \in 1..n : i < j => clave[w[i]] < clave[w[j]]
    BY <1>5, <1>7, HayOrden
  <1> DEFINE Bien(u) == \A i, j \in DOMAIN u : i < j => u[i].acceso < u[j].acceso
  <1>9. w \in SetToSeqs(S) /\ Bien(w)
    <2>1. \A i, j \in 1..n : i < j => w[i].acceso < w[j].acceso  BY <1>6, <1>8
    <2>2. ASSUME NEW i \in 1..n, NEW j \in 1..n, i # j PROVE w[i] # w[j]
      <3>1. w[i] \in S /\ w[j] \in S /\ clave[w[i]] \in Nat /\ clave[w[j]] \in Nat  BY <1>7, <1>8
      <3>2. i < j \/ j < i  BY <2>2
      <3>3. clave[w[i]] < clave[w[j]] \/ clave[w[j]] < clave[w[i]]  BY <1>8, <3>2
      <3>4. QED  BY <3>1, <3>3
    <2>3. QED  BY <1>5, <1>8, <2>1, <2>2 DEF SetToSeqs
  <1>10. PICK u : u = Ordenada(t)  OBVIOUS
  <1>11. u = CHOOSE v \in SetToSeqs(S) : Bien(v)  BY <1>2, <1>10 DEF Ordenada
  <1> HIDE DEF Bien
  <1>12. u \in SetToSeqs(S) /\ Bien(u)  BY <1>9, <1>11
  <1>13. u \in [1..n -> S] /\ \A i, j \in 1..n : i # j => u[i] # u[j]  BY <1>5, <1>12 DEF SetToSeqs
  <1>14. u \in Seq(Entradas) /\ Len(u) = n
    <2>1. S \subseteq Entradas  BY <1>3, <1>4
    <2>2. u \in [1..n -> Entradas]  BY <1>13, <2>1
    <2>3. QED  BY <2>2
  <1>15. \A i, j \in 1..n : i < j => u[i].acceso < u[j].acceso  BY <1>12, <1>13 DEF Bien
  <1>16. \A i \in 1..n : \E j \in 1..n : u[i] = t[j]  BY <1>3, <1>13
  <1>17. \A x \in S : \E i \in 1..n : u[i] = x
    <2>1. /\ IsFiniteSet(S) /\ u \in [1..Cardinality(S) -> S]
          /\ \A i, j \in 1..Cardinality(S) : i # j => u[i] # u[j]
      BY <1>5, <1>13
    <2>2. \A x \in S : \E i \in 1..Cardinality(S) : u[i] = x  BY <2>1, OrdenCompleto
    <2>3. QED  BY <1>5, <2>2
  <1>18. \A j \in 1..n : \E i \in 1..n : u[i] = t[j]  BY <1>3, <1>17
  <1>19. QED  BY <1>1, <1>10, <1>14, <1>15, <1>16, <1>18

\* reemplazo_tlb keeps the type, and the TLB has no more entries than it may.
LEMMA LugarTipo ==
    ASSUME TypeOK, NEW x \in Estados, Distintas(x.tlb), Len(x.tlb) <= CantEntradas, CantEntradas # 0
    PROVE  Lugar(x) \in Seq(Entradas) /\ Len(Lugar(x)) < CantEntradas
  <1>1. CantEntradas \in Nat /\ x.tlb \in Seq(Entradas)  BY Configurada DEF Estados
  <1>2. CASE Len(x.tlb) < CantEntradas  BY <1>1, <1>2 DEF Lugar
  <1>3. CASE ~(Len(x.tlb) < CantEntradas)
    <2>1. PICK n \in Nat, c \in Nat : Len(x.tlb) = n /\ CantEntradas = c  BY <1>1
    <2>2. n = c /\ n # 0  BY <1>3, <2>1
    <2>3. PICK u : u \in Seq(Entradas) /\ Len(u) = n /\ SinVictima(x.tlb) = Tail(u)
      BY <1>1, <2>1, OrdenadaEs DEF SinVictima
    <2>4. u # <<>>  BY <2>2, <2>3
    <2>5. Tail(u) \in Seq(Entradas) /\ Len(Tail(u)) = n - 1  BY <2>3, <2>4, HeadTailProperties
    <2>6. QED  BY <1>3, <2>1, <2>2, <2>3, <2>5 DEF Lugar
  <1>4. QED  BY <1>2, <1>3

\* A translation in progress whose list is as long as it may be, every access logged once and before now.
Rectos == {x \in Estados : /\ Distintas(x.tlb) /\ Len(x.tlb) <= CantEntradas
                           /\ \A i \in 1..Len(x.tlb) : x.tlb[i].acceso < x.reloj}

\* A list in which one entry is accessed now.
LEMMA Accedida ==
    ASSUME NEW t \in Seq(Entradas), NEW r \in Nat, NEW i \in 1..Len(t), NEW u, u = Tocada(t, i, r)
    PROVE  /\ u \in Seq(Entradas) /\ Len(u) = Len(t) /\ u[i].acceso = r
           /\ \A j \in 1..Len(t) : /\ u[j].pid = t[j].pid /\ u[j].pagina = t[j].pagina
                                    /\ u[j].marco = t[j].marco /\ (j # i => u[j] = t[j])
                                    /\ t[j].acceso \in Nat
  <1>1. t[i] \in Entradas /\ \A j \in 1..Len(t) : t[j] \in Entradas  BY ElementOfSeq
  <1>2. PICK f : f = [t[i] EXCEPT !.acceso = r]  OBVIOUS
  <1>3. f \in Entradas /\ f.pid = t[i].pid /\ f.pagina = t[i].pagina /\ f.marco = t[i].marco /\ f.acceso = r
    BY <1>1, <1>2 DEF Entradas
  <1>4. u = [t EXCEPT ![i] = f]  BY <1>2 DEF Tocada
  <1>5. /\ u \in Seq(Entradas) /\ Len(u) = Len(t)
        /\ \A j \in 1..Len(t) : u[j] = IF j = i THEN f ELSE t[j]
    BY <1>3, <1>4, ExceptSeq
  <1>6. \A j \in 1..Len(t) : t[j].acceso \in Nat  BY <1>1 DEF Entradas
  <1>7. QED  BY <1>3, <1>5, <1>6

\* The search keeps the accesses different and before the clock.
LEMMA BuscarRecto ==
    ASSUME TypeOK, NEW p \in Pids, NEW pag, EnTabla(p, pag), NEW x \in Rectos
    PROVE  Buscar(x, p, pag) \in Rectos
  <1>1. x \in Estados /\ Distintas(x.tlb) /\ Len(x.tlb) <= CantEntradas
        /\ \A i \in 1..Len(x.tlb) : x.tlb[i].acceso < x.reloj
    BY DEF Rectos
  <1>2. PICK y : y = Buscar(x, p, pag)  OBVIOUS
  <1>3. y \in Estados  BY <1>1, <1>2, BuscarTipo
  <1>4. CASE ~Acierta(x.tlb, p, pag)
    <2>1. y.tlb = x.tlb /\ y.reloj = x.reloj  BY <1>1, <1>2, <1>4, BuscarFalla
    <2>2. QED  BY <1>1, <1>2, <1>3, <2>1 DEF Rectos
  <1>5. CASE Acierta(x.tlb, p, pag)
    <2>1. PICK i : i = Indice(x.tlb, p, pag)  OBVIOUS
    <2>2. i \in 1..Len(x.tlb)  BY <1>1, <1>5, <2>1, BuscarAcierta
    <2>3. y.tlb = Tocada(x.tlb, i, x.reloj) /\ y.reloj = x.reloj + 1
      <3>1. y = [tlb |-> Tocada(x.tlb, i, x.reloj), reloj |-> x.reloj + 1,
                 marcos |-> Append(x.marcos, x.tlb[i].marco),
                 aciertos |-> Append(x.aciertos, pag), fallos |-> x.fallos]
        BY <1>1, <1>2, <1>5, <2>1, BuscarAcierta
      <3>2. QED  BY <3>1
    <2>4. x.tlb \in Seq(Entradas) /\ x.reloj \in Nat  BY <1>1 DEF Estados
    <2>5. PICK t, r, u : t = x.tlb /\ r = x.reloj /\ u = y.tlb  OBVIOUS
    <2>12. t \in Seq(Entradas) /\ r \in Nat /\ i \in 1..Len(t) /\ u = Tocada(t, i, r)  BY <2>2, <2>3, <2>4, <2>5
    <2>6. /\ Len(u) = Len(t) /\ u[i].acceso = r
          /\ \A j \in 1..Len(t) : (j # i => u[j].acceso = t[j].acceso) /\ t[j].acceso \in Nat
      BY <2>12, Accedida
    <2>7. \A j \in 1..Len(t) : t[j].acceso < r  BY <1>1, <2>5
    <2>8. Distintas(t) /\ r \in Nat  BY <1>1, <2>4, <2>5
    <2>9. \A j \in 1..Len(u) : u[j].acceso < r + 1  BY <2>6, <2>7, <2>8
    <2>10. Distintas(u)
      <3>1. \A j \in 1..Len(t) : u[j].acceso = r => j = i  BY <2>6, <2>7, <2>8
      <3>2. QED  BY <2>2, <2>5, <2>6, <2>8, <3>1 DEF Distintas
    <2>11. QED  BY <1>1, <1>2, <1>3, <2>3, <2>5, <2>6, <2>9, <2>10 DEF Rectos
  <1>6. QED  BY <1>4, <1>5

\* What a translation goes through in m steps.
Trazas(m) == [0..m -> Rectos]

\* The search of the pages of an access, one after another.
LEMMA BuscadaEs ==
    ASSUME TypeOK, NEW p \in Pids, NEW e \in Rectos, NEW dl, NEW n, NEW m \in Nat, m = CantPaginas(dl, n),
           \A k \in 1..m : EnTabla(p, dl \div TamPagina + k - 1)
    PROVE  \E c \in Trazas(m) :
               /\ c[0] = e /\ Buscada(e, p, dl, n) = c[m]
               /\ \A k \in 1..m : c[k] = Buscar(c[k - 1], p, dl \div TamPagina + k - 1)
  <1> DEFINE pags == [k \in 1..m |-> dl \div TamPagina + k - 1]
             Paso(x, k) == Buscar(x, p, pags[k])
             Ec(t) == t = [s \in SUBSET (1..m) |-> IF s = {} THEN e ELSE Paso(t[s \ {Max(s)}], Max(s))]
             t0 == CHOOSE t : Ec(t)
             g == [k \in 1..m |-> [x \in Rectos |-> Paso(x, k)]]
  <1>1. Buscada(e, p, dl, n) = t0[1..m]
    <2>1. DOMAIN pags = 1..m /\ PaginasDe(dl, n) = pags  BY DEF PaginasDe
    <2>2. Buscada(e, p, dl, n) = FoldLeft(LAMBDA x, pag : Buscar(x, p, pag), e, pags)
      BY <2>1 DEF Buscada
    <2> HIDE DEF pags
    <2>3. QED  BY <2>1, <2>2 DEF FoldLeft, MapThenFoldSet
  <1>2. ASSUME NEW k \in 1..m, NEW x \in Rectos PROVE Paso(x, k) \in Rectos
    <2>1. EnTabla(p, pags[k])  OBVIOUS
    <2> HIDE DEF pags
    <2>2. QED  BY <2>1, BuscarRecto
  <1>3. \A k \in 1..m : pags[k] = dl \div TamPagina + k - 1  OBVIOUS
  <1> HIDE DEF pags, Paso
  <1>4. g \in [1..m -> [Rectos -> Rectos]]  BY <1>2
  <1>5. PICK a : EsPliegue(a, g, e, m)  BY PliegueExiste
  <1>6. \A s \in SUBSET (1..m) : a[s] \in Rectos
    <2> HIDE DEF g
    <2> QED  BY <1>4, <1>5, PliegueTipo
  <1>7. ASSUME NEW s \in SUBSET (1..m), s # {}
        PROVE  g[Max(s)][a[s \ {Max(s)}]] = Paso(a[s \ {Max(s)}], Max(s))
    <2>1. Max(s) \in 1..m /\ a[s \ {Max(s)}] \in Rectos  BY <1>6, <1>7, MaxDe, SinMax
    <2>2. QED  BY <2>1
  <1>8. Ec(a)
    <2> HIDE DEF g
    <2> QED  BY <1>5, <1>7 DEF EsPliegue
  <1> HIDE DEF g
  <1>9. Ec(t0)
    <2> HIDE DEF Ec
    <2> QED  BY <1>8
  <1>10. t0[1..0] = e /\ \A k \in 1..m : t0[1..k] = Paso(t0[1..k - 1], k)
    <2>1. \A s \in SUBSET (1..m) : t0[s] = IF s = {} THEN e ELSE Paso(t0[s \ {Max(s)}], Max(s))
      <3> HIDE DEF t0
      <3> QED  BY <1>9
    <2> HIDE DEF t0
    <2>2. t0[1..0] = e  BY <2>1, Tramos
    <2>3. ASSUME NEW k \in 1..m PROVE t0[1..k] = Paso(t0[1..k - 1], k)
      <3>1. PICK s : s = 1..k  OBVIOUS
      <3>2. s \in SUBSET (1..m) /\ s # {} /\ Max(s) = k /\ s \ {k} = 1..k - 1  BY <3>1, Tramos
      <3>3. t0[s] = Paso(t0[s \ {Max(s)}], Max(s))  BY <2>1, <3>2
      <3>4. QED  BY <3>1, <3>2, <3>3
    <2>4. QED  BY <2>2, <2>3
  <1> HIDE DEF t0
  <1> DEFINE A == {k \in 0..m : t0[1..k] \in Rectos}
  <1>11. \A k \in 0..m : t0[1..k] \in Rectos
    <2>1. 0 \in A  BY <1>10
    <2>2. ASSUME NEW k \in 0..m - 1, k \in A PROVE k + 1 \in A
      <3>1. PICK j \in 1..m : j = k + 1 /\ j - 1 = k  OBVIOUS
      <3>2. t0[1..j - 1] \in Rectos  BY <2>2, <3>1
      <3>3. Paso(t0[1..j - 1], j) \in Rectos  BY <1>2, <3>2
      <3>4. t0[1..j] \in Rectos  BY <1>10, <3>3
      <3>5. QED  BY <3>1, <3>4
    <2> HIDE DEF A
    <2>3. \A k \in 0..m : k \in A  BY <2>1, <2>2, HastaN
    <2>4. QED  BY <2>3 DEF A
  <1> DEFINE c == [k \in 0..m |-> t0[1..k]]
  <1>12. c \in [0..m -> Rectos]  BY <1>11
  <1>13. \A k \in 0..m : c[k] = t0[1..k]  OBVIOUS
  <1> HIDE DEF c
  <1>14. c[0] = e /\ c[m] = t0[1..m]  BY <1>10, <1>13
  <1>15. ASSUME NEW k \in 1..m PROVE c[k] = Buscar(c[k - 1], p, dl \div TamPagina + k - 1)
    <2>1. c[k] = t0[1..k] /\ c[k - 1] = t0[1..k - 1]  BY <1>13
    <2>2. QED  BY <1>3, <1>10, <2>1 DEF Paso
  <1>17. c \in Trazas(m)  BY <1>12 DEF Trazas
  <1>16. QED  BY <1>1, <1>17, <1>14, <1>15

\* The least recent access, or the first entry, is the one that goes.
LEMMA SinVictimaEs ==
    ASSUME TypeOK, NEW t \in Seq(Entradas), Distintas(t), Len(t) # 0
    PROVE  \E u \in Seq(Entradas) :
               /\ Len(u) = Len(t) /\ SinVictima(t) = Tail(u) /\ u # <<>>
               /\ (Algoritmo = "FIFO" => u = t)
               /\ (Algoritmo = "LRU" => \A i, j \in 1..Len(t) : i < j => u[i].acceso < u[j].acceso)
               /\ \A i \in 1..Len(t) : \E j \in 1..Len(t) : u[i] = t[j]
               /\ \A j \in 1..Len(t) : \E i \in 1..Len(t) : u[i] = t[j]
               /\ Distintas(u)
  <1>1. Len(t) \in Nat  OBVIOUS
  <1>2. CASE Algoritmo = "FIFO"
    <2>1. SinVictima(t) = Tail(t)  BY <1>2 DEF SinVictima
    <2>2. t # <<>>  OBVIOUS
    <2>3. QED  BY <1>2, <2>1, <2>2
  <1>3. CASE Algoritmo = "LRU"
    <2>1. PICK u : u = Ordenada(t)  OBVIOUS
    <2>2. SinVictima(t) = Tail(u)  BY <1>3, <2>1 DEF SinVictima
    <2>3. /\ u \in Seq(Entradas) /\ Len(u) = Len(t)
          /\ \A i, j \in 1..Len(t) : i < j => u[i].acceso < u[j].acceso
          /\ \A i \in 1..Len(t) : \E j \in 1..Len(t) : u[i] = t[j]
          /\ \A j \in 1..Len(t) : \E i \in 1..Len(t) : u[i] = t[j]
      BY <2>1, OrdenadaEs
    <2>4. u # <<>>  BY <2>3
    <2>5. \A i \in 1..Len(t) : u[i].acceso \in Nat  BY <2>3, CamposDe
    <2>6. Distintas(u)
      <3>1. PICK n \in Nat : n = Len(t)  BY <1>1
      <3>2. ASSUME NEW i \in 1..n, NEW j \in 1..n, u[i].acceso = u[j].acceso PROVE i = j
        <4>1. u[i].acceso \in Nat /\ ~(u[i].acceso < u[j].acceso) /\ ~(u[j].acceso < u[i].acceso)
          BY <2>5, <3>1, <3>2
        <4>2. ~(i < j) /\ ~(j < i)  BY <2>3, <3>1, <4>1
        <4>3. QED  BY <4>2
      <3>3. QED  BY <2>3, <3>1, <3>2 DEF Distintas
    <2>7. QED  BY <1>3, <2>2, <2>3, <2>4, <2>6
  <1>4. QED  BY <1>2, <1>3, Configurada

\* So does an entry that comes in, with a victim or without.
LEMMA ReemplazarRecto ==
    ASSUME TypeOK, NEW p \in Pids, NEW pag, EnTabla(p, pag), NEW x \in Rectos
    PROVE  Reemplazar(x, p, pag) \in Rectos
  <1>1. x \in Estados /\ Distintas(x.tlb) /\ Len(x.tlb) <= CantEntradas
        /\ \A i \in 1..Len(x.tlb) : x.tlb[i].acceso < x.reloj
    BY DEF Rectos
  <1>2. PICK y : y = Reemplazar(x, p, pag)  OBVIOUS
  <1>3. CASE CantEntradas = 0
    <2>1. y = x  BY <1>1, <1>2, <1>3, ReemplazarEs
    <2>2. QED  BY <1>2, <2>1
  <1>4. CASE CantEntradas # 0
    <2>1. y = [tlb |-> Append(Lugar(x), Nueva(x, p, pag)), reloj |-> x.reloj + 1,
               marcos |-> x.marcos, aciertos |-> x.aciertos, fallos |-> x.fallos]
      BY <1>1, <1>2, <1>4, ReemplazarEs
    <2>2. /\ x.tlb \in Seq(Entradas) /\ x.reloj \in Nat /\ x.marcos \in Seq(Marcos)
          /\ x.aciertos \in Seq(Nat) /\ x.fallos \in Seq(Nat)
      BY <1>1 DEF Estados
    <2>3. PICK r \in Nat : r = x.reloj  BY <2>2
    <2>4. PICK v : v = Lugar(x)  OBVIOUS
    <2>5. PICK e : e = Nueva(x, p, pag)  OBVIOUS
    <2>6. e \in Entradas /\ e.acceso = r  BY <2>3, <2>5, MarcoDe DEF Nueva, Entradas
    <2>7. v \in Seq(Entradas) /\ Len(v) < CantEntradas  BY <1>1, <1>4, <2>4, LugarTipo
    <2>8. PICK n \in Nat : n = Len(v)  BY <2>7
    <2>9. Distintas(v) /\ \A i \in 1..n : v[i].acceso < r /\ v[i].acceso \in Nat
      <3>1. CASE Len(x.tlb) < CantEntradas
        <4>1. v = x.tlb  BY <2>4, <3>1 DEF Lugar
        <4>2. \A i \in 1..n : v[i].acceso \in Nat  BY <2>7, <2>8, CamposDe
        <4>3. QED  BY <1>1, <2>3, <2>8, <4>1, <4>2
      <3>2. CASE ~(Len(x.tlb) < CantEntradas)
        <4>1. CantEntradas \in Nat  BY Configurada
        <4>2. PICK t : t = x.tlb /\ t \in Seq(Entradas) /\ Len(t) # 0  BY <1>4, <2>2, <3>2, <4>1
        <4>3. PICK u \in Seq(Entradas) :
                  /\ Len(u) = Len(t) /\ SinVictima(t) = Tail(u) /\ u # <<>>
                  /\ \A i \in 1..Len(t) : \E j \in 1..Len(t) : u[i] = t[j]
                  /\ Distintas(u)
          BY <1>1, <4>2, SinVictimaEs
        <4>4. v = Tail(u)  BY <2>4, <3>2, <4>2, <4>3 DEF Lugar
        <4>5. n = Len(u) - 1 /\ \A i \in 1..n : v[i] = u[i + 1] /\ i + 1 \in 1..Len(u)
          BY <2>8, <4>3, <4>4
        <4>6. \A i \in 1..Len(u) : u[i].acceso < r /\ u[i].acceso \in Nat
          <5>1. \A i \in 1..Len(t) : t[i].acceso < r  BY <1>1, <2>3, <4>2
          <5>2. \A i \in 1..Len(u) : u[i].acceso \in Nat  BY CamposDe
          <5>3. QED  BY <4>3, <5>1, <5>2
        <4>7. ASSUME NEW i \in 1..n, NEW j \in 1..n, v[i].acceso = v[j].acceso PROVE i = j
          <5>1. u[i + 1].acceso = u[j + 1].acceso /\ i + 1 \in 1..Len(u) /\ j + 1 \in 1..Len(u)
            BY <4>5, <4>7
          <5>2. i + 1 = j + 1  BY <4>3, <5>1 DEF Distintas
          <5>3. QED  BY <5>2
        <4>8. Distintas(v)  BY <2>8, <4>7 DEF Distintas
        <4>9. QED  BY <4>5, <4>6, <4>8
      <3>3. QED  BY <3>1, <3>2
    <2>10. PICK w : w = Append(v, e)  OBVIOUS
    <2>11. w \in Seq(Entradas) /\ Len(w) = n + 1 /\ w[n + 1] = e /\ \A i \in 1..n : w[i] = v[i]
      BY <2>6, <2>7, <2>8, <2>10
    <2>12. n + 1 <= CantEntradas  BY <2>7, <2>8, Configurada
    <2>13. \A i \in 1..n + 1 : w[i].acceso < r + 1
      <3>1. \A i \in 1..n + 1 : i = n + 1 \/ i \in 1..n  OBVIOUS
      <3>2. \A i \in 1..n : w[i].acceso < r + 1  BY <2>9, <2>11
      <3>3. QED  BY <2>6, <2>11, <3>1, <3>2
    <2>14. Distintas(w)
      <3>1. ASSUME NEW i \in 1..n + 1, NEW j \in 1..n + 1, w[i].acceso = w[j].acceso PROVE i = j
        <4>1. (i = n + 1 \/ i \in 1..n) /\ (j = n + 1 \/ j \in 1..n)  OBVIOUS
        <4>2. \A k \in 1..n : w[k].acceso # r  BY <2>9, <2>11
        <4>3. w[n + 1].acceso = r  BY <2>6, <2>11
        <4>4. (i = n + 1) <=> (j = n + 1)  BY <3>1, <4>1, <4>2, <4>3
        <4>5. CASE i \in 1..n /\ j \in 1..n  BY <2>8, <2>9, <2>11, <3>1, <4>5 DEF Distintas
        <4>6. QED  BY <4>1, <4>4, <4>5
      <3>2. QED  BY <2>11, <3>1 DEF Distintas
    <2>15. y.tlb = w /\ y.reloj = r + 1  BY <2>1, <2>3, <2>4, <2>5, <2>10
    <2>16. y \in Estados
      <3>1. r + 1 \in Nat  OBVIOUS
      <3>2. QED  BY <2>1, <2>2, <2>3, <2>4, <2>5, <2>10, <2>11, <3>1 DEF Estados
    <2>17. QED  BY <1>2, <2>11, <2>12, <2>13, <2>14, <2>15, <2>16 DEF Rectos
  <1>5. QED  BY <1>3, <1>4

\* The pages that missed, brought in one after another.
LEMMA TraducidaEs ==
    ASSUME TypeOK, NEW p \in Pids, NEW e, NEW dl, NEW n, NEW b \in Rectos, b = Buscada(e, p, dl, n),
           \A k \in 1..Len(b.fallos) : EnTabla(p, b.fallos[k])
    PROVE  \E c \in Trazas(Len(b.fallos)) :
               /\ c[0] = b /\ Traducida(e, p, dl, n) = c[Len(b.fallos)]
               /\ \A k \in 1..Len(b.fallos) : c[k] = Reemplazar(c[k - 1], p, b.fallos[k])
  <1>0. b.fallos \in Seq(Nat)  BY DEF Rectos, Estados
  <1>1. PICK pags : pags = b.fallos /\ pags \in Seq(Nat)  BY <1>0
  <1>17. PICK m \in Nat : m = Len(pags) /\ DOMAIN pags = 1..m  BY <1>1
  <1> DEFINE Paso(x, k) == Reemplazar(x, p, pags[k])
             Ec(t) == t = [s \in SUBSET (1..m) |-> IF s = {} THEN b ELSE Paso(t[s \ {Max(s)}], Max(s))]
             t0 == CHOOSE t : Ec(t)
             g == [k \in 1..m |-> [x \in Rectos |-> Paso(x, k)]]
  <1>2. Traducida(e, p, dl, n) = t0[1..m]
    <2>1. Traducida(e, p, dl, n) = FoldLeft(LAMBDA x, pag : Reemplazar(x, p, pag), b, pags)
      BY <1>1 DEF Traducida
    <2>2. QED  BY <1>17, <2>1 DEF FoldLeft, MapThenFoldSet
  <1>3. ASSUME NEW k \in 1..m, NEW x \in Rectos PROVE Paso(x, k) \in Rectos
    <2>1. EnTabla(p, pags[k])  BY <1>1, <1>17
    <2>2. QED  BY <2>1, ReemplazarRecto
  <1> HIDE DEF Paso
  <1>4. g \in [1..m -> [Rectos -> Rectos]]  BY <1>3
  <1>5. PICK a : EsPliegue(a, g, b, m)  BY PliegueExiste
  <1>6. \A s \in SUBSET (1..m) : a[s] \in Rectos
    <2> HIDE DEF g
    <2> QED  BY <1>4, <1>5, PliegueTipo
  <1>7. ASSUME NEW s \in SUBSET (1..m), s # {}
        PROVE  g[Max(s)][a[s \ {Max(s)}]] = Paso(a[s \ {Max(s)}], Max(s))
    <2>1. Max(s) \in 1..m /\ a[s \ {Max(s)}] \in Rectos  BY <1>6, <1>7, MaxDe, SinMax
    <2>2. QED  BY <2>1
  <1>8. Ec(a)
    <2> HIDE DEF g
    <2> QED  BY <1>5, <1>7 DEF EsPliegue
  <1> HIDE DEF g
  <1>9. Ec(t0)
    <2> HIDE DEF Ec
    <2> QED  BY <1>8
  <1>10. t0[1..0] = b /\ \A k \in 1..m : t0[1..k] = Paso(t0[1..k - 1], k)
    <2>1. \A s \in SUBSET (1..m) : t0[s] = IF s = {} THEN b ELSE Paso(t0[s \ {Max(s)}], Max(s))
      <3> HIDE DEF t0
      <3> QED  BY <1>9
    <2> HIDE DEF t0
    <2>2. t0[1..0] = b  BY <2>1, Tramos
    <2>3. ASSUME NEW k \in 1..m PROVE t0[1..k] = Paso(t0[1..k - 1], k)
      <3>1. PICK s : s = 1..k  OBVIOUS
      <3>2. s \in SUBSET (1..m) /\ s # {} /\ Max(s) = k /\ s \ {k} = 1..k - 1  BY <3>1, Tramos
      <3>3. t0[s] = Paso(t0[s \ {Max(s)}], Max(s))  BY <2>1, <3>2
      <3>4. QED  BY <3>1, <3>2, <3>3
    <2>4. QED  BY <2>2, <2>3
  <1> HIDE DEF t0
  <1> DEFINE A == {k \in 0..m : t0[1..k] \in Rectos}
  <1>11. \A k \in 0..m : t0[1..k] \in Rectos
    <2>1. 0 \in A  BY <1>10
    <2>2. ASSUME NEW k \in 0..m - 1, k \in A PROVE k + 1 \in A
      <3>1. PICK j \in 1..m : j = k + 1 /\ j - 1 = k  OBVIOUS
      <3>2. t0[1..j - 1] \in Rectos  BY <2>2, <3>1
      <3>3. Paso(t0[1..j - 1], j) \in Rectos  BY <1>3, <3>2
      <3>4. t0[1..j] \in Rectos  BY <1>10, <3>3
      <3>5. QED  BY <3>1, <3>4
    <2> HIDE DEF A
    <2>3. \A k \in 0..m : k \in A  BY <2>1, <2>2, HastaN
    <2>4. QED  BY <2>3 DEF A
  <1> DEFINE c == [k \in 0..m |-> t0[1..k]]
  <1>12. c \in [0..m -> Rectos]  BY <1>11
  <1>13. \A k \in 0..m : c[k] = t0[1..k]  OBVIOUS
  <1> HIDE DEF c
  <1>14. c[0] = b /\ c[m] = t0[1..m]  BY <1>10, <1>13
  <1>15. ASSUME NEW k \in 1..m PROVE c[k] = Reemplazar(c[k - 1], p, pags[k])
    <2>1. c[k] = t0[1..k] /\ c[k - 1] = t0[1..k - 1]  BY <1>13
    <2>2. QED  BY <1>10, <2>1 DEF Paso
  <1>18. c \in Trazas(Len(b.fallos))  BY <1>1, <1>12, <1>17 DEF Trazas
  <1>16. QED  BY <1>1, <1>17, <1>18, <1>2, <1>14, <1>15

-----------------------------------------------------------------------------
(* The history *)

Historias == Seq(Pids \X Nat)
SinIguales(s) == \A i, j \in 1..Len(s) : s[i] = s[j] => i = j

\* A page that the history does not have goes to its end.
LEMMA AlFinalNueva ==
    ASSUME NEW s \in Historias, NEW x, \A i \in 1..Len(s) : s[i] # x
    PROVE  AlFinal(s, x) = Append(s, x)
  BY DEF AlFinal, RemoveFirst

\* A page that it has moves there.
LEMMA AlFinalVieja ==
    ASSUME NEW s \in Historias, NEW a \in 1..Len(s), \A i \in 1..Len(s) : s[i] = s[a] => i = a
    PROVE  /\ AlFinal(s, s[a]) \in Historias /\ Len(AlFinal(s, s[a])) = Len(s)
           /\ \A i \in 1..Len(s) : AlFinal(s, s[a])[i] =
                  IF i < a THEN s[i] ELSE IF i < Len(s) THEN s[i + 1] ELSE s[a]
  <1>1. PICK x : x = s[a]  OBVIOUS
  <1>2. PICK n \in Nat : n = Len(s)  BY DEF Historias
  <1>3. \A i \in 1..n : s[i] \in Pids \X Nat  BY <1>2, ElementOfSeq DEF Historias
  <1>4. SelectInSeq(s, LAMBDA v : v = x) = a
    <2>1. {i \in 1..Len(s) : s[i] = x} = {a}  BY <1>1
    <2>2. Min({a}) = a  BY DEF Min
    <2>3. SelectInSeq(s, LAMBDA v : v = x) =
              IF {i \in 1..Len(s) : s[i] = x} # {} THEN Min({i \in 1..Len(s) : s[i] = x}) ELSE 0
      BY DEF SelectInSeq
    <2>4. QED  BY <2>1, <2>2, <2>3
  <1>5. RemoveFirst(s, x) = SubSeq(s, 1, a - 1) \o SubSeq(s, a + 1, n)
    BY <1>1, <1>2, <1>4 DEF RemoveFirst, RemoveAt
  <1>6. PICK u, v : u = SubSeq(s, 1, a - 1) /\ v = SubSeq(s, a + 1, n)  OBVIOUS
  <1>7. u \in Historias /\ Len(u) = a - 1 /\ \A i \in 1..a - 1 : u[i] = s[i]
    <2>1. a - 1 \in Int /\ \A i \in 1..a - 1 : i \in 1..n  BY <1>2
    <2>2. /\ SubSeq(s, 1, a - 1) \in Historias
          /\ Len(SubSeq(s, 1, a - 1)) = IF 1 <= a - 1 THEN a - 1 - 1 + 1 ELSE 0
          /\ \A i \in 1..a - 1 - 1 + 1 : SubSeq(s, 1, a - 1)[i] = s[1 + i - 1]
      BY <1>3, <2>1, SubSeqProperties DEF Historias
    <2>3. QED  BY <1>6, <2>1, <2>2
  <1>8. v \in Historias /\ Len(v) = n - a /\ \A i \in 1..n - a : v[i] = s[a + i]
    <2>1. a + 1 \in Int /\ \A i \in a + 1..n : i \in 1..n  BY <1>2
    <2>2. /\ SubSeq(s, a + 1, n) \in Historias
          /\ Len(SubSeq(s, a + 1, n)) = IF a + 1 <= n THEN n - (a + 1) + 1 ELSE 0
          /\ \A i \in 1..n - (a + 1) + 1 : SubSeq(s, a + 1, n)[i] = s[a + 1 + i - 1]
      BY <1>3, <2>1, SubSeqProperties DEF Historias
    <2>3. a <= n /\ a \in Nat  BY <1>2
    <2>4. QED  BY <1>6, <2>2, <2>3
  <1>9. PICK w : w = u \o v  OBVIOUS
  <1>10. w \in Historias /\ Len(w) = n - 1 /\ \A i \in 1..n - 1 : w[i] = IF i < a THEN s[i] ELSE s[i + 1]
    <2>1. /\ w \in Historias /\ Len(w) = Len(u) + Len(v)
          /\ \A i \in 1..Len(u) + Len(v) : w[i] = IF i <= Len(u) THEN u[i] ELSE v[i - Len(u)]
      BY <1>7, <1>8, <1>9, ConcatProperties DEF Historias
    <2>2. a \in 1..n  BY <1>2
    <2>3. Len(w) = n - 1  BY <1>7, <1>8, <2>1, <2>2
    <2>4. ASSUME NEW i \in 1..n - 1 PROVE w[i] = IF i < a THEN s[i] ELSE s[i + 1]
      <3>1. w[i] = IF i <= a - 1 THEN u[i] ELSE v[i - (a - 1)]  BY <1>7, <1>8, <2>1, <2>2
      <3>2. CASE i < a
        <4>1. i <= a - 1 /\ i \in 1..a - 1  BY <2>2, <3>2
        <4>2. QED  BY <1>7, <3>1, <3>2, <4>1
      <3>3. CASE ~(i < a)
        <4>1. ~(i <= a - 1) /\ i - (a - 1) \in 1..n - a /\ a + (i - (a - 1)) = i + 1  BY <2>2, <3>3
        <4>2. v[i - (a - 1)] = s[i + 1]  BY <1>8, <4>1
        <4>3. QED  BY <3>1, <3>3, <4>1, <4>2
      <3>4. QED  BY <3>2, <3>3
    <2>5. QED  BY <2>1, <2>3, <2>4
  <1>11. AlFinal(s, x) = Append(w, x)  BY <1>5, <1>6, <1>9 DEF AlFinal
  <1>12. x \in Pids \X Nat  BY <1>1, <1>2, <1>3
  <1>13. PICK z : z = Append(w, x)  OBVIOUS
  <1>14. z \in Historias /\ Len(z) = n /\ z[n] = x /\ \A i \in 1..n - 1 : z[i] = w[i]
    <2>1. a \in 1..n  BY <1>2
    <2>2. z \in Historias /\ Len(z) = (n - 1) + 1 /\ z[(n - 1) + 1] = x /\ \A i \in 1..n - 1 : z[i] = w[i]
      BY <1>10, <1>12, <1>13, AppendProperties DEF Historias
    <2>3. (n - 1) + 1 = n  OBVIOUS
    <2>4. QED  BY <2>2, <2>3
  <1>15. ASSUME NEW i \in 1..n PROVE z[i] = IF i < a THEN s[i] ELSE IF i < n THEN s[i + 1] ELSE x
    <2>1. a \in 1..n  BY <1>2
    <2>2. CASE i < n
      <3>1. i \in 1..n - 1  BY <2>2
      <3>2. QED  BY <1>10, <1>14, <2>2, <3>1
    <2>3. CASE ~(i < n)
      <3>1. i = n /\ ~(i < a)  BY <2>1, <2>3
      <3>2. QED  BY <1>14, <2>3, <3>1
    <2>4. QED  BY <2>2, <2>3
  <1>16. QED  BY <1>1, <1>2, <1>11, <1>13, <1>14, <1>15

\* A page moved to the end leaves a history in which no page is twice.
LEMMA AlFinalTipo ==
    ASSUME NEW s \in Historias, SinIguales(s), NEW x \in Pids \X Nat
    PROVE  AlFinal(s, x) \in Historias /\ SinIguales(AlFinal(s, x))
  <1>1. PICK n \in Nat : n = Len(s)  BY DEF Historias
  <1>2. CASE \A i \in 1..n : s[i] # x
    <2>1. PICK z : z = Append(s, x)  OBVIOUS
    <2>2. z \in Historias /\ Len(z) = n + 1 /\ z[n + 1] = x /\ \A i \in 1..n : z[i] = s[i]
      BY <1>1, <2>1, AppendProperties DEF Historias
    <2>3. ASSUME NEW i \in 1..n + 1, NEW j \in 1..n + 1, z[i] = z[j] PROVE i = j
      <3>1. (i = n + 1 \/ i \in 1..n) /\ (j = n + 1 \/ j \in 1..n)  OBVIOUS
      <3>2. (i = n + 1) <=> (j = n + 1)  BY <1>2, <2>2, <2>3, <3>1
      <3>3. CASE i \in 1..n /\ j \in 1..n  BY <1>1, <2>2, <2>3, <3>3 DEF SinIguales
      <3>4. QED  BY <3>1, <3>2, <3>3
    <2>4. AlFinal(s, x) = z  BY <1>1, <1>2, <2>1, AlFinalNueva
    <2>5. QED  BY <2>2, <2>3, <2>4 DEF SinIguales
  <1>3. ASSUME NEW a \in 1..n, s[a] = x PROVE AlFinal(s, x) \in Historias /\ SinIguales(AlFinal(s, x))
    <2>1. PICK z : z = AlFinal(s, x)  OBVIOUS
    <2>2. \A i \in 1..Len(s) : s[i] = s[a] => i = a  BY <1>1 DEF SinIguales
    <2>3. /\ z \in Historias /\ Len(z) = n
          /\ \A i \in 1..n : z[i] = IF i < a THEN s[i] ELSE IF i < n THEN s[i + 1] ELSE x
      BY <1>1, <1>3, <2>1, <2>2, AlFinalVieja
    <2>4. PICK f : f = [i \in 1..n |-> IF i < a THEN i ELSE IF i < n THEN i + 1 ELSE a]  OBVIOUS
    <2>5. \A i \in 1..n : f[i] \in 1..n /\ z[i] = s[f[i]]  BY <1>3, <2>3, <2>4
    <2>6. \A i, j \in 1..n : f[i] = f[j] => i = j  BY <2>4
    <2>7. SinIguales(z)
      <3>1. ASSUME NEW i \in 1..n, NEW j \in 1..n, z[i] = z[j] PROVE i = j
        <4>1. f[i] = f[j]  BY <1>1, <2>5, <3>1 DEF SinIguales
        <4>2. QED  BY <2>6, <4>1
      <3>2. QED  BY <2>3, <3>1 DEF SinIguales
    <2>8. QED  BY <2>1, <2>3, <2>7
  <1>4. QED  BY <1>2, <1>3

\* The pages of a process that an access touched, one after another.
Toca(s, p, u) == FoldLeft(LAMBDA x, pag : AlFinal(x, <<p, pag>>), s, u)
Limpias == {s \in Historias : SinIguales(s)}
Toque(p, u) == [k \in 1..Len(u) |-> [x \in Limpias |-> AlFinal(x, <<p, u[k]>>)]]

\* The history after an access is what a fold computes, touch by touch.
LEMMA TocaEs ==
    ASSUME NEW p \in Pids, NEW s \in Limpias, NEW u \in Seq(Nat)
    PROVE  /\ Toque(p, u) \in Pasos(Len(u), Limpias)
           /\ \E a : EsPliegue(a, Toque(p, u), s, Len(u)) /\ Toca(s, p, u) = a[1..Len(u)]
  <1>1. PICK m \in Nat : m = Len(u) /\ DOMAIN u = 1..m  OBVIOUS
  <1> DEFINE Paso(x, k) == AlFinal(x, <<p, u[k]>>)
             Ec(t) == t = [v \in SUBSET (1..m) |-> IF v = {} THEN s ELSE Paso(t[v \ {Max(v)}], Max(v))]
             t0 == CHOOSE t : Ec(t)
             g == [k \in 1..m |-> [x \in Limpias |-> Paso(x, k)]]
  <1>2. Toca(s, p, u) = t0[1..m]  BY <1>1 DEF Toca, FoldLeft, MapThenFoldSet
  <1>3. ASSUME NEW k \in 1..m, NEW x \in Limpias PROVE Paso(x, k) \in Limpias
    <2>1. <<p, u[k]>> \in Pids \X Nat  BY <1>1, ElementOfSeq
    <2>2. QED  BY <2>1, AlFinalTipo DEF Limpias
  <1>4. g = Toque(p, u)  BY <1>1 DEF Toque
  <1> HIDE DEF Paso
  <1>5. g \in [1..m -> [Limpias -> Limpias]]  BY <1>3
  <1>6. PICK a : EsPliegue(a, g, s, m)  BY PliegueExiste
  <1>7. \A v \in SUBSET (1..m) : a[v] \in Limpias
    <2> HIDE DEF g
    <2> QED  BY <1>5, <1>6, PliegueTipo
  <1>8. ASSUME NEW v \in SUBSET (1..m), v # {}
        PROVE  g[Max(v)][a[v \ {Max(v)}]] = Paso(a[v \ {Max(v)}], Max(v))
    <2>1. Max(v) \in 1..m /\ a[v \ {Max(v)}] \in Limpias  BY <1>7, <1>8, MaxDe, SinMax
    <2>2. QED  BY <2>1
  <1>9. Ec(a)
    <2> HIDE DEF g
    <2> QED  BY <1>6, <1>8 DEF EsPliegue
  <1>10. Ec(t0)
    <2> HIDE DEF Ec
    <2> QED  BY <1>9
  <1>11. a[1..0] = s /\ \A k \in 1..m : a[1..k] = g[k][a[1..k - 1]]
    <2> HIDE DEF g
    <2>1. m \in Nat /\ s \in Limpias /\ g \in Pasos(m, Limpias)  BY <1>5 DEF Pasos
    <2> QED  BY <1>6, <2>1, PliegueTraza
  <1>12. t0[1..0] = s /\ \A k \in 1..m : t0[1..k] = Paso(t0[1..k - 1], k)
    <2>1. \A v \in SUBSET (1..m) : t0[v] = IF v = {} THEN s ELSE Paso(t0[v \ {Max(v)}], Max(v))
      <3> HIDE DEF t0
      <3> QED  BY <1>10
    <2> HIDE DEF t0
    <2>2. t0[1..0] = s  BY <2>1, Tramos
    <2>3. ASSUME NEW k \in 1..m PROVE t0[1..k] = Paso(t0[1..k - 1], k)
      <3>1. PICK v : v = 1..k  OBVIOUS
      <3>2. v \in SUBSET (1..m) /\ v # {} /\ Max(v) = k /\ v \ {k} = 1..k - 1  BY <3>1, Tramos
      <3>3. t0[v] = Paso(t0[v \ {Max(v)}], Max(v))  BY <2>1, <3>2
      <3>4. QED  BY <3>1, <3>2, <3>3
    <2>4. QED  BY <2>2, <2>3
  <1> HIDE DEF t0
  <1> DEFINE A == {k \in 0..m : t0[1..k] = a[1..k]}
  <1>13. \A k \in 0..m : k \in A
    <2>1. 0 \in A  BY <1>11, <1>12
    <2>2. ASSUME NEW k \in 0..m - 1, k \in A PROVE k + 1 \in A
      <3>1. PICK j \in 1..m : j = k + 1 /\ j - 1 = k  OBVIOUS
      <3>2. t0[1..j - 1] = a[1..j - 1]  BY <2>2, <3>1
      <3>3. a[1..j - 1] \in Limpias
        <4>1. 1..j - 1 \in SUBSET (1..m)  OBVIOUS
        <4>2. QED  BY <1>7, <4>1
      <3>4. a[1..j] = Paso(a[1..j - 1], j)  BY <1>11, <3>3
      <3>5. t0[1..j] = a[1..j]  BY <1>12, <3>2, <3>4
      <3>6. QED  BY <3>1, <3>5
    <2> HIDE DEF A
    <2>3. QED  BY <2>1, <2>2, HastaN
  <1>14. t0[1..m] = a[1..m]  BY <1>13
  <1> HIDE DEF g
  <1>15. QED  BY <1>1, <1>2, <1>4, <1>5, <1>6, <1>14 DEF Pasos

\* None, and one more.
LEMMA TocaVacia == ASSUME NEW p \in Pids, NEW s \in Limpias PROVE Toca(s, p, <<>>) = s
  <1>1. <<>> \in Seq(Nat) /\ Len(<<>>) = 0  OBVIOUS
  <1>2. Toque(p, <<>>) \in Pasos(Len(<<>>), Limpias)  BY <1>1, TocaEs
  <1>3. PICK a : EsPliegue(a, Toque(p, <<>>), s, Len(<<>>)) /\ Toca(s, p, <<>>) = a[1..Len(<<>>)]  BY <1>1, TocaEs
  <1>4. EsPliegue(a, Toque(p, <<>>), s, 0) /\ Toca(s, p, <<>>) = a[1..0]  BY <1>1, <1>3
  <1>5. a[1..0] = s
    <2>1. 0 \in Nat /\ s \in Limpias /\ Toque(p, <<>>) \in Pasos(0, Limpias)  BY <1>1, <1>2
    <2>2. QED  BY <1>4, <2>1, PliegueTraza
  <1>6. QED  BY <1>4, <1>5

\* One touch more moves one page more to the end.
LEMMA TocaUna ==
    ASSUME NEW p \in Pids, NEW s \in Limpias, NEW u \in Seq(Nat), NEW pag \in Nat
    PROVE  /\ Toca(s, p, u) \in Limpias
           /\ Toca(s, p, Append(u, pag)) = AlFinal(Toca(s, p, u), <<p, pag>>)
  <1>1. PICK m \in Nat : m = Len(u)  OBVIOUS
  <1>2. PICK w : w = Append(u, pag)  OBVIOUS
  <1>3. w \in Seq(Nat) /\ Len(w) = m + 1 /\ w[m + 1] = pag /\ \A k \in 1..m : w[k] = u[k]
    BY <1>1, <1>2
  <1>4. PICK g, h : g = Toque(p, u) /\ h = Toque(p, w)  OBVIOUS
  <1>5. g \in Pasos(m, Limpias) /\ h \in Pasos(m + 1, Limpias)
    BY <1>1, <1>3, <1>4, TocaEs
  <1>6. PICK a : EsPliegue(a, g, s, m) /\ Toca(s, p, u) = a[1..m]  BY <1>1, <1>4, TocaEs
  <1>7. PICK c : EsPliegue(c, h, s, m + 1) /\ Toca(s, p, w) = c[1..m + 1]  BY <1>3, <1>4, TocaEs
  <1>8. \A k \in 1..m : g[k] = h[k]  BY <1>1, <1>3, <1>4 DEF Toque
  <1>9. m + 1 \in Nat /\ m + 1 \in 1..m + 1 /\ (m + 1) - 1 = m /\ m <= m + 1 /\ m <= m /\ m \in 0..m  OBVIOUS
  <1>10. a[1..m] = c[1..m]  BY <1>6, <1>7, <1>8, <1>9, PliegueUnico
  <1>11. a[1..m] \in Limpias  BY <1>5, <1>6, <1>9, PliegueTraza
  <1>12. c[1..m + 1] = h[m + 1][c[1..m]]
    <2>1. \A k \in 1..m + 1 : c[1..k] = h[k][c[1..k - 1]]  BY <1>5, <1>7, <1>9, PliegueTraza
    <2>2. c[1..m + 1] = h[m + 1][c[1..(m + 1) - 1]]  BY <1>9, <2>1
    <2>3. QED  BY <1>9, <2>2
  <1>13. h[m + 1] = [x \in Limpias |-> AlFinal(x, <<p, pag>>)]  BY <1>3, <1>4, <1>9 DEF Toque
  <1>14. QED  BY <1>2, <1>6, <1>7, <1>10, <1>11, <1>12, <1>13

-----------------------------------------------------------------------------
(* The TLB and the history that says what it should have *)

Pag(x) == <<x.pid, x.pagina>>

\* The order in which the algorithm keeps the entries i and j.
Antes(t, i, j) == IF Algoritmo = "LRU" THEN t[i].acceso < t[j].acceso ELSE i < j

\* Each entry has a place of its own among the last of the history, and the order is the same.
Posiciones(t, s) == Len(s) - Len(t) + 1..Len(s)
Coloca(f, t, s) ==
    /\ f \in [1..Len(t) -> Posiciones(t, s)]
    /\ \A i \in 1..Len(t) : s[f[i]] = Pag(t[i])
    /\ \A j \in Posiciones(t, s) : \E i \in 1..Len(t) : f[i] = j
    /\ \A i, j \in 1..Len(t) : Antes(t, i, j) => f[i] < f[j]

Buena(t, s) ==
    /\ s \in Limpias /\ Len(t) = Minimo(Len(s), CantEntradas)
    /\ \E f : Coloca(f, t, s)

\* The pages of a history.
Tenidas(s) == {s[i] : i \in 1..Len(s)}

\* A page that hits: its entry is the last accessed, and it goes to the end of the history.
LEMMA AciertoLRU ==
    ASSUME Algoritmo = "LRU", NEW t \in Seq(Entradas), NEW r \in Nat, NEW i \in 1..Len(t), Distintas(t),
           \A j \in 1..Len(t) : t[j].acceso < r, NEW s, Buena(t, s)
    PROVE  /\ Buena(Tocada(t, i, r), AlFinal(s, Pag(t[i])))
           /\ Tenidas(AlFinal(s, Pag(t[i]))) = Tenidas(s)
           /\ Len(AlFinal(s, Pag(t[i]))) = Len(s)
  <1>1. PICK f : Coloca(f, t, s)  BY DEF Buena
  <1>2. s \in Historias /\ SinIguales(s) /\ Len(t) = Minimo(Len(s), CantEntradas)  BY DEF Buena, Limpias
  <1>3. PICK n \in Nat, m \in Nat : n = Len(s) /\ m = Len(t)  BY <1>2 DEF Historias
  <1>4. PICK o \in Int : o = n - m  OBVIOUS
  <1>5. Posiciones(t, s) = o + 1..n  BY <1>3, <1>4 DEF Posiciones
  <1>6. PICK u : u = Tocada(t, i, r)  OBVIOUS
  <1>7. /\ Len(u) = m /\ u[i].acceso = r
        /\ \A j \in 1..m : /\ Pag(u[j]) = Pag(t[j]) /\ (j # i => u[j].acceso = t[j].acceso)
                           /\ t[j].acceso \in Nat
    <2>1. /\ Len(u) = Len(t) /\ u[i].acceso = r
          /\ \A j \in 1..Len(t) : /\ u[j].pid = t[j].pid /\ u[j].pagina = t[j].pagina
                                  /\ u[j].marco = t[j].marco /\ (j # i => u[j] = t[j])
                                  /\ t[j].acceso \in Nat
      BY <1>6, Accedida
    <2>2. QED  BY <1>3, <2>1 DEF Pag
  <1>8. /\ f \in [1..m -> o + 1..n] /\ \A j \in 1..m : s[f[j]] = Pag(t[j])
        /\ \A b \in o + 1..n : \E j \in 1..m : f[j] = b
        /\ \A j, k \in 1..m : t[j].acceso < t[k].acceso => f[j] < f[k]
    BY <1>1, <1>3, <1>5 DEF Coloca, Antes
  <1>9. m <= n
    <2>1. m = n \/ m < n \/ n < m  OBVIOUS
    <2>2. m = IF n < CantEntradas THEN n ELSE CantEntradas  BY <1>2, <1>3 DEF Minimo
    <2>3. QED
      <3>1. CASE n < CantEntradas  BY <2>2, <3>1
      <3>2. CASE ~(n < CantEntradas)
        <4>1. m = CantEntradas /\ ~(n < m)  BY <2>2, <3>2
        <4>2. QED  BY <2>1, <4>1
      <3>3. QED  BY <3>1, <3>2
  <1>10. PICK a \in 1..n : a = f[i] /\ a \in o + 1..n
    <2>1. i \in 1..m  BY <1>3
    <2>2. f[i] \in o + 1..n  BY <1>8, <2>1
    <2>3. o + 1 >= 1  BY <1>4, <1>9
    <2>4. f[i] \in 1..n  BY <2>2, <2>3
    <2>5. QED  BY <2>2, <2>4
  <1>11. s[a] = Pag(t[i])  BY <1>3, <1>8, <1>10
  <1>12. \A k \in 1..n : s[k] = s[a] => k = a  BY <1>2, <1>3, <1>10 DEF SinIguales
  <1>13. PICK z : z = AlFinal(s, Pag(t[i]))  OBVIOUS
  <1>14. /\ z \in Historias /\ Len(z) = n
         /\ \A k \in 1..n : z[k] = IF k < a THEN s[k] ELSE IF k < n THEN s[k + 1] ELSE s[a]
    <2>1. z = AlFinal(s, s[a])  BY <1>11, <1>13
    <2>2. s \in Historias /\ a \in 1..Len(s) /\ \A k \in 1..Len(s) : s[k] = s[a] => k = a
      BY <1>2, <1>3, <1>10, <1>12
    <2>3. /\ AlFinal(s, s[a]) \in Historias /\ Len(AlFinal(s, s[a])) = Len(s)
          /\ \A j \in 1..Len(s) :
                AlFinal(s, s[a])[j] = IF j < a THEN s[j] ELSE IF j < Len(s) THEN s[j + 1] ELSE s[a]
      BY <2>2, AlFinalVieja
    <2>4. QED  BY <1>3, <2>1, <2>3
  <1>15. z \in Limpias
    <2>1. a \in 1..Len(s)  BY <1>3
    <2>2. s[a] \in Pids \X Nat  BY <1>2, <2>1, ElementOfSeq DEF Historias
    <2>3. QED  BY <1>2, <1>11, <1>13, <2>2, AlFinalTipo DEF Limpias
  <1>16. \A j \in 1..m : j # i => f[j] # a
    <2>1. ASSUME NEW j \in 1..m, j # i PROVE f[j] # f[i]
      <3>1. i \in 1..m /\ t[i].acceso \in Nat /\ t[j].acceso \in Nat  BY <1>3, <1>7
      <3>2. t[i].acceso # t[j].acceso  BY <1>3, <2>1, <3>1 DEF Distintas
      <3>3. t[i].acceso < t[j].acceso \/ t[j].acceso < t[i].acceso  BY <3>1, <3>2
      <3>4. f[i] < f[j] \/ f[j] < f[i]  BY <1>8, <3>1, <3>3
      <3>5. f[i] \in Int /\ f[j] \in Int  BY <1>8, <3>1
      <3>6. QED  BY <3>4, <3>5
    <2>2. QED  BY <1>10, <2>1
  <1>17. PICK h : h = [j \in 1..m |-> IF j = i THEN n ELSE IF f[j] < a THEN f[j] ELSE f[j] - 1]  OBVIOUS
  <1>18. Posiciones(u, z) = o + 1..n  BY <1>4, <1>7, <1>14 DEF Posiciones
  <1>19. \A j \in 1..m : f[j] \in o + 1..n  BY <1>8
  <1>20. h \in [1..m -> o + 1..n]
    <2>1. ASSUME NEW j \in 1..m PROVE h[j] \in o + 1..n
      <3>1. f[j] \in o + 1..n  BY <1>19
      <3>2. j # i => f[j] # a  BY <1>16
      <3>3. h[j] = IF j = i THEN n ELSE IF f[j] < a THEN f[j] ELSE f[j] - 1  BY <1>17
      <3>4. QED  BY <1>10, <3>1, <3>2, <3>3
    <2>2. QED  BY <1>17, <2>1
  <1>21. ASSUME NEW j \in 1..m PROVE z[h[j]] = Pag(u[j])
    <2>1. f[j] \in o + 1..n /\ (j # i => f[j] # a)  BY <1>16, <1>19
    <2>2. h[j] = IF j = i THEN n ELSE IF f[j] < a THEN f[j] ELSE f[j] - 1  BY <1>17
    <2>3. Pag(u[j]) = Pag(t[j]) /\ s[f[j]] = Pag(t[j])  BY <1>7, <1>8
    <2>4. CASE j = i
      <3>1. n \in 1..n /\ ~(n < a)  BY <1>10
      <3>2. z[n] = s[a]  BY <1>14, <3>1
      <3>3. QED  BY <1>11, <2>2, <2>3, <2>4, <3>2
    <2>5. CASE j # i /\ f[j] < a
      <3>1. f[j] \in 1..n  BY <1>4, <1>9, <2>1
      <3>2. z[f[j]] = s[f[j]]  BY <1>14, <2>5, <3>1
      <3>3. QED  BY <2>2, <2>3, <2>5, <3>2
    <2>6. CASE j # i /\ ~(f[j] < a)
      <3>1. f[j] - 1 \in 1..n /\ ~(f[j] - 1 < a) /\ f[j] - 1 < n /\ (f[j] - 1) + 1 = f[j]
        BY <1>10, <2>1, <2>6
      <3>2. z[f[j] - 1] = s[(f[j] - 1) + 1]  BY <1>14, <3>1
      <3>3. QED  BY <2>2, <2>3, <2>6, <3>1, <3>2
    <2>7. QED  BY <2>4, <2>5, <2>6
  <1>22. ASSUME NEW b \in o + 1..n PROVE \E j \in 1..m : h[j] = b
    <2>1. CASE b = n
      <3>1. i \in 1..m /\ h[i] = n  BY <1>3, <1>17
      <3>2. QED  BY <2>1, <3>1
    <2>2. CASE b # n /\ b < a
      <3>1. PICK j \in 1..m : f[j] = b  BY <1>8
      <3>2. j # i  BY <1>10, <2>2, <3>1
      <3>3. h[j] = b  BY <1>17, <2>2, <3>1, <3>2
      <3>4. QED  BY <3>3
    <2>3. CASE b # n /\ ~(b < a)
      <3>1. b + 1 \in o + 1..n /\ ~(b + 1 < a) /\ b + 1 # a /\ (b + 1) - 1 = b  BY <1>10, <2>3
      <3>2. PICK j \in 1..m : f[j] = b + 1  BY <1>8, <3>1
      <3>3. j # i  BY <1>10, <3>1, <3>2
      <3>4. h[j] = (b + 1) - 1  BY <1>17, <3>1, <3>2, <3>3
      <3>5. QED  BY <3>1, <3>4
    <2>4. QED  BY <2>1, <2>2, <2>3
  <1>23. ASSUME NEW j \in 1..m, NEW k \in 1..m, u[j].acceso < u[k].acceso PROVE h[j] < h[k]
    <2>1. f[j] \in o + 1..n /\ f[k] \in o + 1..n /\ (j # i => f[j] # a) /\ (k # i => f[k] # a)
      BY <1>16, <1>19
    <2>2. /\ h[j] = IF j = i THEN n ELSE IF f[j] < a THEN f[j] ELSE f[j] - 1
          /\ h[k] = IF k = i THEN n ELSE IF f[k] < a THEN f[k] ELSE f[k] - 1
      BY <1>17
    <2>3. t[j].acceso \in Nat /\ t[k].acceso \in Nat /\ t[j].acceso < r /\ t[k].acceso < r  BY <1>3, <1>7
    <2>4. j # i  BY <1>7, <1>23, <2>3
    <2>5. CASE k = i  BY <1>10, <2>1, <2>2, <2>4, <2>5
    <2>6. CASE k # i
      <3>1. f[j] < f[k]  BY <1>7, <1>8, <1>23, <2>4, <2>6
      <3>2. QED  BY <1>10, <2>1, <2>2, <2>4, <2>6, <3>1
    <2>7. QED  BY <2>5, <2>6
  <1>24. Coloca(h, u, z)
    <2>1. \A j, k \in 1..m : Antes(u, j, k) => h[j] < h[k]  BY <1>23 DEF Antes
    <2>2. QED  BY <1>7, <1>18, <1>20, <1>21, <1>22, <2>1 DEF Coloca
  <1>25. Len(u) = Minimo(Len(z), CantEntradas)  BY <1>2, <1>3, <1>7, <1>14
  <1>26. Buena(u, z)  BY <1>15, <1>24, <1>25 DEF Buena
  <1>27. Tenidas(z) = Tenidas(s)
    <2>1. ASSUME NEW k \in 1..n PROVE \E l \in 1..n : z[k] = s[l]
      <3>1. CASE k < a  BY <1>14, <3>1
      <3>2. CASE ~(k < a) /\ k < n
        <4>1. k + 1 \in 1..n  BY <3>2
        <4>2. QED  BY <1>14, <3>2, <4>1
      <3>3. CASE ~(k < a) /\ ~(k < n)  BY <1>14, <3>3
      <3>4. QED  BY <3>1, <3>2, <3>3
    <2>2. ASSUME NEW l \in 1..n PROVE \E k \in 1..n : z[k] = s[l]
      <3>1. CASE l < a  BY <1>14, <3>1
      <3>2. CASE l = a
        <4>1. n \in 1..n /\ ~(n < a) /\ ~(n < n)  BY <1>10
        <4>2. QED  BY <1>14, <3>2, <4>1
      <3>3. CASE a < l
        <4>1. l - 1 \in 1..n /\ ~(l - 1 < a) /\ l - 1 < n /\ (l - 1) + 1 = l  BY <1>10, <3>3
        <4>2. z[l - 1] = s[(l - 1) + 1]  BY <1>14, <4>1
        <4>3. QED  BY <4>1, <4>2
      <3>4. QED  BY <3>1, <3>2, <3>3
    <2>3. Tenidas(z) = {z[k] : k \in 1..n} /\ Tenidas(s) = {s[k] : k \in 1..n}
      BY <1>3, <1>14 DEF Tenidas
    <2>4. ASSUME NEW y \in {z[k] : k \in 1..n} PROVE y \in {s[k] : k \in 1..n}
      <3>1. PICK k \in 1..n : y = z[k]  OBVIOUS
      <3>2. PICK l \in 1..n : z[k] = s[l]  BY <2>1
      <3>3. y = s[l]  BY <3>1, <3>2
      <3>4. QED  BY <3>3
    <2>5. \A y \in {s[k] : k \in 1..n} : y \in {z[k] : k \in 1..n}  BY <2>2
    <2>6. QED  BY <2>3, <2>4, <2>5
  <1>28. Len(z) = Len(s)  BY <1>3, <1>14
  <1>29. QED  BY <1>6, <1>13, <1>26, <1>27, <1>28

\* Under FIFO an access moves nothing.
LEMMA AciertoFIFO ==
    ASSUME Algoritmo = "FIFO", NEW t \in Seq(Entradas), NEW r \in Nat, NEW i \in 1..Len(t), NEW s, Buena(t, s)
    PROVE  Buena(Tocada(t, i, r), s)
  <1>1. PICK f : Coloca(f, t, s)  BY DEF Buena
  <1>2. PICK u : u = Tocada(t, i, r)  OBVIOUS
  <1>3. Len(u) = Len(t) /\ \A j \in 1..Len(t) : Pag(u[j]) = Pag(t[j])
    <2>1. /\ Len(u) = Len(t) /\ u[i].acceso = r
          /\ \A j \in 1..Len(t) : /\ u[j].pid = t[j].pid /\ u[j].pagina = t[j].pagina
                                  /\ u[j].marco = t[j].marco /\ (j # i => u[j] = t[j])
                                  /\ t[j].acceso \in Nat
      BY <1>2, Accedida
    <2>2. QED  BY <2>1 DEF Pag
  <1>4. Posiciones(u, s) = Posiciones(t, s)  BY <1>3 DEF Posiciones
  <1>5. \A j, k : Antes(u, j, k) <=> Antes(t, j, k)  BY DEF Antes
  <1>6. Coloca(f, u, s)  BY <1>1, <1>3, <1>4, <1>5 DEF Coloca
  <1>7. QED  BY <1>2, <1>3, <1>6 DEF Buena

\* The list as reemplazo_tlb orders it has its entries in the order of the history.
LEMMA Reordenada ==
    ASSUME TypeOK, NEW t \in Seq(Entradas), Distintas(t), Len(t) # 0, NEW s, Buena(t, s)
    PROVE  \E u, h :
               /\ u \in Seq(Entradas)
               /\ Len(u) = Len(t) /\ SinVictima(t) = Tail(u) /\ u # <<>> /\ Coloca(h, u, s)
               /\ \A i, j \in 1..Len(t) : i < j => h[i] < h[j]
               /\ \A i, j \in 1..Len(t) : Antes(u, i, j) => i < j
               /\ \A i \in 1..Len(t) : \E j \in 1..Len(t) : u[i] = t[j]
  <1>1. PICK f : Coloca(f, t, s)  BY DEF Buena
  <1>2. PICK n \in Nat : n = Len(t)  OBVIOUS
  <1>3. PICK u \in Seq(Entradas) :
            /\ Len(u) = Len(t) /\ SinVictima(t) = Tail(u) /\ u # <<>>
            /\ (Algoritmo = "FIFO" => u = t)
            /\ (Algoritmo = "LRU" => \A i, j \in 1..Len(t) : i < j => u[i].acceso < u[j].acceso)
            /\ \A i \in 1..Len(t) : \E j \in 1..Len(t) : u[i] = t[j]
            /\ \A j \in 1..Len(t) : \E i \in 1..Len(t) : u[i] = t[j]
            /\ Distintas(u)
    BY SinVictimaEs
  <1>4. PICK B : B = Posiciones(t, s)  OBVIOUS
  <1>5. Posiciones(u, s) = B  BY <1>3, <1>4 DEF Posiciones
  <1>6. /\ f \in [1..n -> B] /\ \A j \in 1..n : s[f[j]] = Pag(t[j])
        /\ \A b \in B : \E j \in 1..n : f[j] = b
        /\ \A j, k \in 1..n : Antes(t, j, k) => f[j] < f[k]
    BY <1>1, <1>2, <1>4 DEF Coloca
  <1>7. CASE Algoritmo = "FIFO"
    <2>1. u = t /\ \A i, j : Antes(u, i, j) <=> i < j  BY <1>3, <1>7 DEF Antes
    <2>2. Coloca(f, u, s) /\ \A i, j \in 1..Len(t) : i < j => f[i] < f[j]  BY <1>1, <1>2, <1>6, <2>1
    <2>3. QED  BY <1>3, <2>1, <2>2
  <1>8. CASE Algoritmo = "LRU"
    <2>1. \A i, j \in 1..n : Antes(u, i, j) <=> u[i].acceso < u[j].acceso  BY <1>8 DEF Antes
    <2>2. \A i, j \in 1..n : Antes(t, i, j) <=> t[i].acceso < t[j].acceso  BY <1>8 DEF Antes
    <2>3. PICK q : q = [i \in 1..n |-> CHOOSE j \in 1..n : u[i] = t[j]]  OBVIOUS
    <2>4. \A i \in 1..n : q[i] \in 1..n /\ u[i] = t[q[i]]  BY <1>2, <1>3, <2>3, ZenonT(40)
    <2>5. PICK h : h = [i \in 1..n |-> f[q[i]]]  OBVIOUS
    <2>6. h \in [1..n -> B] /\ \A i \in 1..n : s[h[i]] = Pag(u[i])  BY <1>6, <2>4, <2>5
    <2>7. ASSUME NEW b \in B PROVE \E i \in 1..n : h[i] = b
      <3>1. PICK j \in 1..n : f[j] = b  BY <1>6
      <3>2. PICK i \in 1..n : u[i] = t[j]  BY <1>2, <1>3
      <3>3. t[q[i]] = t[j] /\ q[i] \in 1..n  BY <2>4, <3>2
      <3>4. q[i] = j  BY <1>2, <3>3 DEF Distintas
      <3>5. QED  BY <2>5, <3>1, <3>4
    <2>8. ASSUME NEW i \in 1..n, NEW j \in 1..n, u[i].acceso < u[j].acceso PROVE h[i] < h[j]
      <3>1. t[q[i]].acceso < t[q[j]].acceso  BY <2>4, <2>8
      <3>2. f[q[i]] < f[q[j]]  BY <1>6, <2>2, <2>4, <3>1
      <3>3. QED  BY <2>5, <3>2
    <2>9. \A i, j \in 1..n : i < j => u[i].acceso < u[j].acceso  BY <1>2, <1>3, <1>8
    <2>10. Coloca(h, u, s)  BY <1>2, <1>3, <1>5, <2>1, <2>6, <2>7, <2>8 DEF Coloca
    <2>11. \A i, j \in 1..n : i < j => h[i] < h[j]  BY <2>8, <2>9
    <2>12. ASSUME NEW i \in 1..n, NEW j \in 1..n, Antes(u, i, j) PROVE i < j
      <3>1. u[i].acceso < u[j].acceso  BY <2>1, <2>12
      <3>2. u[i].acceso \in Nat /\ u[j].acceso \in Nat  BY <1>2, <1>3, CamposDe
      <3>3. ~(j < i) /\ i # j
        <4>1. ~(u[j].acceso < u[i].acceso) /\ u[i].acceso # u[j].acceso  BY <3>1, <3>2
        <4>2. QED  BY <2>9, <4>1
      <3>4. QED  BY <3>3
    <2>13. QED  BY <1>2, <1>3, <2>10, <2>11, <2>12
  <1>9. QED  BY <1>7, <1>8, Configurada

\* A page that missed comes in: the one that the algorithm kept the longest goes, when it must.
LEMMA Falta ==
    ASSUME TypeOK, NEW p \in Pids, NEW pag, EnTabla(p, pag), NEW x \in Rectos, NEW s, Buena(x.tlb, s),
           <<p, pag>> \notin Tenidas(s)
    PROVE  /\ Buena(Reemplazar(x, p, pag).tlb, AlFinal(s, <<p, pag>>))
           /\ Tenidas(AlFinal(s, <<p, pag>>)) = Tenidas(s) \cup {<<p, pag>>}
  <1>1. PICK n \in Nat, c \in Nat : n = Len(s) /\ c = CantEntradas
    BY Configurada DEF Buena, Limpias, Historias
  <1>2. s \in Historias /\ SinIguales(s)  BY DEF Buena, Limpias
  <1>3. PICK e : e = Nueva(x, p, pag)  OBVIOUS
  <1>4. Pag(e) = <<p, pag>> /\ e.acceso = x.reloj /\ e \in Entradas /\ <<p, pag>> \in Pids \X Nat
    <2>1. x.reloj \in Nat  BY DEF Rectos, Estados
    <2>2. tabla[p][pag + 1] \in Marcos /\ pag \in Nat  BY MarcoDe
    <2>3. QED  BY <1>3, <2>1, <2>2 DEF Pag, Nueva, Entradas
  <1>5. PICK z : z = AlFinal(s, Pag(e))  OBVIOUS
  <1>6. \A i \in 1..n : s[i] # Pag(e)  BY <1>1, <1>4 DEF Tenidas
  <1>7. z \in Historias /\ Len(z) = n + 1 /\ z[n + 1] = Pag(e) /\ \A i \in 1..n : z[i] = s[i]
    <2>1. z = Append(s, Pag(e))  BY <1>1, <1>2, <1>5, <1>6, AlFinalNueva
    <2>2. QED  BY <1>1, <1>2, <1>4, <2>1, AppendProperties DEF Historias
  <1>8. z \in Limpias
    <2>1. z \in Historias /\ SinIguales(z)  BY <1>2, <1>4, <1>5, AlFinalTipo
    <2>2. QED  BY <2>1 DEF Limpias
  <1>9. Tenidas(z) = Tenidas(s) \cup {Pag(e)}
    <2>1. Tenidas(z) = {z[i] : i \in 1..n + 1} /\ Tenidas(s) = {s[i] : i \in 1..n}
      BY <1>1, <1>7 DEF Tenidas
    <2>2. \A i \in 1..n + 1 : i \in 1..n \/ i = n + 1  OBVIOUS
    <2>3. \A i \in 1..n : i \in 1..n + 1  OBVIOUS
    <2>4. n + 1 \in 1..n + 1  OBVIOUS
    <2>5. QED  BY <1>7, <2>1, <2>2, <2>3, <2>4
  <1>10. PICK t : t = x.tlb  OBVIOUS
  <1>11. /\ t \in Seq(Entradas) /\ Distintas(t) /\ Len(t) <= c /\ x.reloj \in Nat
         /\ \A i \in 1..Len(t) : t[i].acceso < x.reloj
    BY <1>1, <1>10 DEF Rectos, Estados
  <1>12. PICK m \in Nat : m = Len(t)  BY <1>11
  <1>13. m = IF n < c THEN n ELSE c  BY <1>1, <1>10, <1>12 DEF Buena, Minimo
  <1>14. PICK y : y = Reemplazar(x, p, pag).tlb  OBVIOUS
  <1>15. y = IF c = 0 THEN t ELSE Append(Lugar(x), e)
    <2>1. x \in Estados  BY DEF Rectos
    <2>2. Reemplazar(x, p, pag) =
              IF CantEntradas = 0 THEN x
              ELSE [tlb |-> Append(Lugar(x), Nueva(x, p, pag)), reloj |-> x.reloj + 1,
                    marcos |-> x.marcos, aciertos |-> x.aciertos, fallos |-> x.fallos]
      BY <2>1, ReemplazarEs
    <2>3. CASE CantEntradas = 0  BY <1>1, <1>10, <1>14, <2>2, <2>3
    <2>4. CASE CantEntradas # 0  BY <1>1, <1>3, <1>14, <2>2, <2>4
    <2>5. QED  BY <2>3, <2>4
  <1>16. CASE c = 0
    <2>1. y = t /\ m = 0  BY <1>13, <1>15, <1>16
    <2>2. Len(y) = Minimo(Len(z), CantEntradas)  BY <1>1, <1>7, <1>12, <1>16, <2>1 DEF Minimo
    <2>3. PICK h : h = [i \in 1..0 |-> 0]  OBVIOUS
    <2>4. 1..0 = {} /\ (n + 1) - 0 + 1..n + 1 = {}  OBVIOUS
    <2>5. 1..Len(y) = {} /\ Posiciones(y, z) = {}  BY <1>7, <1>12, <2>1, <2>4 DEF Posiciones
    <2>6. h \in [1..Len(y) -> Posiciones(y, z)]  BY <2>3, <2>4, <2>5
    <2>7. Coloca(h, y, z)  BY <2>5, <2>6 DEF Coloca
    <2>8. QED  BY <1>4, <1>5, <1>8, <1>9, <1>14, <2>2, <2>7 DEF Buena
  <1>17. CASE c # 0 /\ m < c
    <2>0. Len(x.tlb) < CantEntradas  BY <1>1, <1>10, <1>12, <1>17
    <2>16. Lugar(x) = t  BY <1>10, <2>0 DEF Lugar
    <2>1. y = Append(t, e) /\ n = m
      <3>1. n = m  BY <1>13, <1>17
      <3>2. QED  BY <1>15, <1>17, <2>16, <3>1
    <2>2. Len(y) = n + 1 /\ y[n + 1] = e /\ \A i \in 1..n : y[i] = t[i]
      BY <1>4, <1>11, <1>12, <2>1, AppendProperties
    <2>3. PICK f : Coloca(f, t, s)  BY <1>10 DEF Buena
    <2>4. Posiciones(t, s) = 1..n /\ Posiciones(y, z) = 1..n + 1
      <3>1. n - n + 1 = 1 /\ (n + 1) - (n + 1) + 1 = 1  OBVIOUS
      <3>2. QED  BY <1>1, <1>7, <1>12, <2>1, <2>2, <3>1 DEF Posiciones
    <2>5. /\ f \in [1..n -> 1..n] /\ \A i \in 1..n : s[f[i]] = Pag(t[i])
          /\ \A b \in 1..n : \E i \in 1..n : f[i] = b
          /\ \A i, j \in 1..n : Antes(t, i, j) => f[i] < f[j]
      BY <1>12, <2>1, <2>3, <2>4 DEF Coloca
    <2>6. PICK h : h = [i \in 1..n + 1 |-> IF i = n + 1 THEN n + 1 ELSE f[i]]  OBVIOUS
    <2>7. \A i \in 1..n + 1 : i = n + 1 \/ (i \in 1..n /\ i # n + 1)  OBVIOUS
    <2>8. h[n + 1] = n + 1 /\ \A i \in 1..n : h[i] = f[i] /\ f[i] \in 1..n /\ f[i] \in 1..n + 1
      <3>1. n + 1 \in 1..n + 1 /\ \A i \in 1..n : i \in 1..n + 1 /\ i # n + 1  OBVIOUS
      <3>2. QED  BY <2>5, <2>6, <3>1
    <2>9. h \in [1..n + 1 -> 1..n + 1]
      <3>1. \A i \in 1..n + 1 : h[i] \in 1..n + 1
        <4>1. n + 1 \in 1..n + 1  OBVIOUS
        <4>2. QED  BY <2>7, <2>8, <4>1
      <3>2. QED  BY <2>6, <3>1
    <2>10. \A i \in 1..n + 1 : z[h[i]] = Pag(y[i])
      BY <1>7, <2>2, <2>5, <2>7, <2>8, ZenonT(40)
    <2>11. \A b \in 1..n + 1 : \E i \in 1..n + 1 : h[i] = b
      <3>1. n + 1 \in 1..n + 1 /\ \A i \in 1..n : i \in 1..n + 1  OBVIOUS
      <3>2. QED  BY <2>5, <2>7, <2>8, <3>1
    <2>12. ASSUME NEW i \in 1..n + 1, NEW j \in 1..n + 1, Antes(y, i, j) PROVE h[i] < h[j]
      <3>1. i \in 1..n
        <4>1. SUFFICES ASSUME i = n + 1 PROVE FALSE  BY <2>7
        <4>2. CASE Algoritmo = "LRU"
          <5>1. x.reloj < y[j].acceso  BY <1>4, <2>2, <2>12, <4>1, <4>2 DEF Antes
          <5>2. j = n + 1 => ~(x.reloj < y[j].acceso)  BY <1>4, <1>11, <2>2
          <5>3. j \in 1..n => t[j].acceso < x.reloj /\ t[j].acceso \in Nat /\ y[j] = t[j]
            BY <1>11, <1>12, <2>1, <2>2, CamposDe
          <5>4. j \in 1..n => ~(x.reloj < y[j].acceso)  BY <1>11, <5>3
          <5>5. QED  BY <2>7, <5>1, <5>2, <5>4
        <4>3. CASE Algoritmo # "LRU"
          <5>1. i < j  BY <2>12, <4>3 DEF Antes
          <5>2. QED  BY <4>1, <5>1
        <4>4. QED  BY <4>2, <4>3
      <3>2. CASE j = n + 1
        <4>1. f[i] < n + 1  BY <2>8, <3>1
        <4>2. QED  BY <2>8, <3>1, <3>2, <4>1
      <3>3. CASE j \in 1..n
        <4>1. Antes(t, i, j)  BY <2>2, <2>12, <3>1, <3>3 DEF Antes
        <4>2. QED  BY <2>5, <2>8, <3>1, <3>3, <4>1
      <3>4. QED  BY <2>7, <3>2, <3>3
    <2>13. Coloca(h, y, z)  BY <2>2, <2>4, <2>9, <2>10, <2>11, <2>12 DEF Coloca
    <2>14. Len(y) = Minimo(Len(z), CantEntradas)
      <3>1. n + 1 = IF n + 1 < c THEN n + 1 ELSE c  BY <1>17, <2>1
      <3>2. QED  BY <1>1, <1>7, <2>2, <3>1 DEF Minimo
    <2>15. QED  BY <1>4, <1>5, <1>8, <1>9, <1>14, <2>13, <2>14 DEF Buena
  <1>18. CASE c # 0 /\ ~(m < c)
    <2>1. m = c /\ m <= n /\ m >= 1  BY <1>11, <1>12, <1>13, <1>18
    <2>2. PICK u, h :
              /\ u \in Seq(Entradas)
              /\ Len(u) = Len(t) /\ SinVictima(t) = Tail(u) /\ u # <<>> /\ Coloca(h, u, s)
              /\ \A i, j \in 1..Len(t) : i < j => h[i] < h[j]
              /\ \A i, j \in 1..Len(t) : Antes(u, i, j) => i < j
              /\ \A i \in 1..Len(t) : \E j \in 1..Len(t) : u[i] = t[j]
      <3>1. Len(t) # 0 /\ Buena(t, s)  BY <1>10, <1>12, <2>1
      <3>2. QED  BY <1>11, <3>1, Reordenada
    <2>3. y = Append(Tail(u), e)  BY <1>1, <1>10, <1>12, <1>15, <1>18, <2>2 DEF Lugar
    <2>4. PICK v : v = Tail(u)  OBVIOUS
    <2>5. v \in Seq(Entradas) /\ Len(v) = m - 1 /\ \A i \in 1..m - 1 : v[i] = u[i + 1]
      BY <1>12, <2>2, <2>4, HeadTailProperties
    <2>6. Len(y) = m /\ y[m] = e /\ \A i \in 1..m - 1 : y[i] = u[i + 1]
      <3>1. Len(y) = (m - 1) + 1 /\ y[(m - 1) + 1] = e /\ \A i \in 1..m - 1 : y[i] = v[i]
        BY <1>4, <2>3, <2>4, <2>5, AppendProperties
      <3>2. (m - 1) + 1 = m  OBVIOUS
      <3>3. QED  BY <2>5, <3>1, <3>2
    <2>7. PICK o \in Nat : o = n - m  BY <2>1
    <2>8. Posiciones(u, s) = o + 1..n /\ Posiciones(y, z) = o + 2..n + 1
      <3>1. (n + 1) - m + 1 = o + 2  BY <2>7
      <3>2. QED  BY <1>1, <1>7, <1>12, <2>2, <2>6, <2>7, <3>1 DEF Posiciones
    <2>9. /\ h \in [1..m -> o + 1..n] /\ \A i \in 1..m : s[h[i]] = Pag(u[i])
          /\ \A b \in o + 1..n : \E i \in 1..m : h[i] = b
          /\ \A i, j \in 1..m : i < j => h[i] < h[j]
      BY <1>12, <2>2, <2>8 DEF Coloca
    <2>10. \A i \in 1..m : h[i] \in o + 1..n  BY <2>9
    <2>11. h[1] = o + 1
      <3>1. 1 \in 1..m /\ o + 1 \in o + 1..n  BY <2>1, <2>7
      <3>2. PICK k \in 1..m : h[k] = o + 1  BY <2>9, <3>1
      <3>3. k # 1 => h[1] < h[k]  BY <2>9, <3>1
      <3>4. h[1] \in o + 1..n  BY <2>10, <3>1
      <3>5. QED  BY <3>2, <3>3, <3>4
    <2>12. \A i \in 1..m - 1 : h[i + 1] \in o + 2..n /\ i + 1 \in 1..m
      <3>1. ASSUME NEW i \in 1..m - 1 PROVE h[i + 1] \in o + 2..n /\ i + 1 \in 1..m
        <4>1. i + 1 \in 1..m /\ 1 \in 1..m /\ 1 < i + 1  BY <2>1
        <4>2. h[1] < h[i + 1] /\ h[i + 1] \in o + 1..n  BY <2>9, <2>10, <4>1
        <4>3. QED  BY <2>11, <4>1, <4>2
      <3>2. QED  BY <3>1
    <2>13. PICK g : g = [i \in 1..m |-> IF i = m THEN n + 1 ELSE h[i + 1]]  OBVIOUS
    <2>14. \A i \in 1..m : i = m \/ (i \in 1..m - 1 /\ i # m)  OBVIOUS
    <2>15. g[m] = n + 1 /\ m \in 1..m /\ \A i \in 1..m - 1 : g[i] = h[i + 1] /\ i \in 1..m
      <3>1. m \in 1..m /\ \A i \in 1..m - 1 : i \in 1..m /\ i # m  BY <2>1
      <3>2. QED  BY <2>13, <3>1
    <2>16. g \in [1..m -> o + 2..n + 1]
      <3>1. ASSUME NEW i \in 1..m PROVE g[i] \in o + 2..n + 1
        <4>1. CASE i = m
          <5>1. n + 1 \in o + 2..n + 1  BY <2>1, <2>7
          <5>2. QED  BY <2>15, <4>1, <5>1
        <4>2. CASE i \in 1..m - 1
          <5>1. h[i + 1] \in o + 2..n  BY <2>12, <4>2
          <5>2. h[i + 1] \in o + 2..n + 1  BY <5>1
          <5>3. QED  BY <2>15, <4>2, <5>2
        <4>3. QED  BY <2>14, <4>1, <4>2
      <3>2. QED  BY <2>13, <3>1
    <2>17. ASSUME NEW i \in 1..m PROVE z[g[i]] = Pag(y[i])
      <3>1. CASE i = m  BY <1>7, <2>6, <2>15, <3>1
      <3>2. CASE i \in 1..m - 1
        <4>1. i + 1 \in 1..m /\ h[i + 1] \in o + 2..n  BY <2>12, <3>2
        <4>2. h[i + 1] \in 1..n  BY <2>7, <4>1
        <4>3. z[h[i + 1]] = s[h[i + 1]] /\ s[h[i + 1]] = Pag(u[i + 1])  BY <1>7, <2>9, <4>1, <4>2
        <4>4. QED  BY <2>6, <2>15, <3>2, <4>3
      <3>3. QED  BY <2>14, <3>1, <3>2
    <2>18. ASSUME NEW b \in o + 2..n + 1 PROVE \E i \in 1..m : g[i] = b
      <3>1. CASE b = n + 1  BY <2>15, <3>1
      <3>2. CASE b # n + 1
        <4>1. b \in o + 1..n /\ b # o + 1  BY <3>2
        <4>2. PICK k \in 1..m : h[k] = b  BY <2>9, <4>1
        <4>3. k # 1  BY <2>11, <4>1, <4>2
        <4>4. k - 1 \in 1..m - 1 /\ (k - 1) + 1 = k  BY <4>3
        <4>5. g[k - 1] = b /\ k - 1 \in 1..m  BY <2>15, <4>2, <4>4
        <4>6. QED  BY <4>5
      <3>3. QED  BY <3>1, <3>2
    <2>19. ASSUME NEW i \in 1..m, NEW j \in 1..m, Antes(y, i, j) PROVE g[i] < g[j]
      <3>0. \A k \in 1..m - 1 : y[k].acceso < x.reloj /\ y[k].acceso \in Nat
        <4>1. ASSUME NEW k \in 1..m - 1 PROVE y[k].acceso < x.reloj /\ y[k].acceso \in Nat
          <5>1. k + 1 \in 1..m  BY <2>12
          <5>2. PICK l \in 1..m : u[k + 1] = t[l]  BY <1>12, <2>2, <5>1
          <5>3. t[l].acceso < x.reloj /\ t[l].acceso \in Nat  BY <1>11, <1>12, CamposDe
          <5>4. y[k] = u[k + 1]  BY <2>6
          <5>5. QED  BY <5>2, <5>3, <5>4
        <4>2. QED  BY <4>1
      <3>1. i \in 1..m - 1
        <4>1. SUFFICES ASSUME i = m PROVE FALSE  BY <2>14
        <4>2. CASE Algoritmo = "LRU"
          <5>1. x.reloj < y[j].acceso  BY <1>4, <2>6, <2>19, <4>1, <4>2 DEF Antes
          <5>2. j = m => ~(x.reloj < y[j].acceso)  BY <1>4, <1>11, <2>6
          <5>3. j \in 1..m - 1 => ~(x.reloj < y[j].acceso)  BY <1>11, <3>0
          <5>4. QED  BY <2>14, <5>1, <5>2, <5>3
        <4>3. CASE Algoritmo # "LRU"
          <5>1. i < j  BY <2>19, <4>3 DEF Antes
          <5>2. QED  BY <4>1, <5>1
        <4>4. QED  BY <4>2, <4>3
      <3>2. CASE j = m
        <4>1. h[i + 1] \in o + 2..n  BY <2>12, <3>1
        <4>2. h[i + 1] < n + 1  BY <4>1
        <4>3. QED  BY <2>15, <3>1, <3>2, <4>2
      <3>3. CASE j \in 1..m - 1
        <4>1. i + 1 \in 1..m /\ j + 1 \in 1..m  BY <2>12, <3>1, <3>3
        <4>2. y[i] = u[i + 1] /\ y[j] = u[j + 1]  BY <2>6, <3>1, <3>3
        <4>3. Antes(u, i + 1, j + 1)
          <5>1. CASE Algoritmo = "LRU"  BY <2>19, <4>2, <5>1 DEF Antes
          <5>2. CASE Algoritmo # "LRU"
            <6>1. i < j  BY <2>19, <5>2 DEF Antes
            <6>2. i + 1 < j + 1  BY <6>1
            <6>3. QED  BY <5>2, <6>2 DEF Antes
          <5>3. QED  BY <5>1, <5>2
        <4>4. i + 1 < j + 1  BY <1>12, <2>2, <4>1, <4>3
        <4>5. h[i + 1] < h[j + 1]  BY <2>9, <4>1, <4>4
        <4>6. QED  BY <2>15, <3>1, <3>3, <4>5
      <3>4. QED  BY <2>14, <3>2, <3>3
    <2>20. Coloca(g, y, z)  BY <2>6, <2>8, <2>16, <2>17, <2>18, <2>19 DEF Coloca
    <2>21. Len(y) = Minimo(Len(z), CantEntradas)
      <3>1. m = IF n + 1 < c THEN n + 1 ELSE c  BY <2>1
      <3>2. QED  BY <1>1, <1>7, <2>6, <3>1 DEF Minimo
    <2>22. QED  BY <1>4, <1>5, <1>8, <1>9, <1>14, <2>20, <2>21 DEF Buena
  <1>19. QED  BY <1>16, <1>17, <1>18

-----------------------------------------------------------------------------
(* Pages and bytes *)

\* What the assumptions say of each constant.
LEMMA Constantes ==
    /\ TamPagina \in Nat \ {0} /\ CantMarcos \in Nat \ {0} /\ IsFiniteSet(Pids)
    /\ Datos \subseteq Seq(Nat) /\ Largos \subseteq Nat /\ Paginas \subseteq Nat
  BY ConstantesOK

\* Less by whole pages.
LEMMA PorPaginas ==
    ASSUME NEW a \in Int, NEW b \in Int
    PROVE  /\ TamPagina * a \in Int /\ TamPagina * b \in Int
           /\ TamPagina * (a + 1) = TamPagina * a + TamPagina
           /\ TamPagina * (a - 1) = TamPagina * a - TamPagina
           /\ (a < b => TamPagina * a + TamPagina <= TamPagina * b)
           /\ (a <= b => TamPagina * a <= TamPagina * b)
           /\ TamPagina * a = a * TamPagina
  <1>1. TamPagina \in Nat \ {0}  BY Constantes
  <1>2. /\ TamPagina * a \in Int /\ TamPagina * b \in Int /\ TamPagina * (a + 1) = TamPagina * a + TamPagina
        /\ TamPagina * (a - 1) = TamPagina * a - TamPagina /\ TamPagina * a = a * TamPagina
    BY <1>1
  <1>3. a <= b => TamPagina * a <= TamPagina * b
    <2>1. a <= b => TamPagina * (b - a) >= 0  BY <1>1
    <2>2. TamPagina * (b - a) = TamPagina * b - TamPagina * a  BY <1>1
    <2>3. QED  BY <1>2, <2>1, <2>2
  <1>4. a < b => TamPagina * (a + 1) <= TamPagina * b
    <2>1. a < b => TamPagina * (b - (a + 1)) >= 0  BY <1>1
    <2>2. TamPagina * (b - (a + 1)) = TamPagina * b - TamPagina * (a + 1)  BY <1>1
    <2>3. TamPagina * (a + 1) \in Int  BY <1>1
    <2>4. QED  BY <1>2, <2>1, <2>2, <2>3
  <1>5. QED  BY <1>2, <1>3, <1>4

\* The page of a byte and its place in it, and there is no other way to write the byte.
LEMMA PaginaDe ==
    ASSUME NEW d \in Nat
    PROVE  /\ d \div TamPagina \in Nat /\ d % TamPagina \in 0..TamPagina - 1
           /\ d = TamPagina * (d \div TamPagina) + (d % TamPagina)
           /\ \A a \in Int, r \in 0..TamPagina - 1 :
                  d = TamPagina * a + r => a = d \div TamPagina /\ r = d % TamPagina
  <1>1. TamPagina \in Nat \ {0}  BY Constantes
  <1>2. PICK q, m : q = d \div TamPagina /\ m = d % TamPagina  OBVIOUS
  <1>3. q \in Int /\ m \in 0..TamPagina - 1 /\ d = TamPagina * q + m  BY <1>1, <1>2
  <1>4. q >= 0
    <2>1. q < 0 => TamPagina * q + TamPagina <= TamPagina * 0  BY <1>3, PorPaginas
    <2>2. TamPagina * 0 = 0 /\ TamPagina * q \in Int  BY <1>1, <1>3
    <2>3. QED  BY <1>1, <1>3, <2>1, <2>2
  <1>5. ASSUME NEW a \in Int, NEW r \in 0..TamPagina - 1, d = TamPagina * a + r PROVE a = q /\ r = m
    <2>1. TamPagina * a \in Int /\ TamPagina * q \in Int
          /\ (a < q => TamPagina * a + TamPagina <= TamPagina * q)
          /\ (q < a => TamPagina * q + TamPagina <= TamPagina * a)
      BY <1>3, PorPaginas
    <2>2. PICK x \in Int, y \in Int, z \in Nat :
              x = TamPagina * a /\ y = TamPagina * q /\ z = TamPagina
      BY <1>1, <2>1
    <2>3. d = x + r /\ d = y + m /\ r \in 0..z - 1 /\ m \in 0..z - 1
          /\ (a < q => x + z <= y) /\ (q < a => y + z <= x)
      BY <1>3, <1>5, <2>1, <2>2
    <2>4. ~(a < q) /\ ~(q < a)  BY <2>2, <2>3
    <2>5. a = q  BY <1>3, <2>4
    <2>6. x = y  BY <2>2, <2>5
    <2>7. r = m  BY <2>2, <2>3, <2>6
    <2>8. QED  BY <2>5, <2>7
  <1>6. QED  BY <1>2, <1>3, <1>4, <1>5

\* The pages of an access that a program may make are in its table, and they are enough.
LEMMA Paginacion ==
    ASSUME TypeOK, NEW p \in Pids, NEW dl \in Nat, NEW n \in Nat, Tiene(p, dl, n)
    PROVE  /\ CantPaginas(dl, n) \in Nat
           /\ \A k \in 1..CantPaginas(dl, n) : EnTabla(p, dl \div TamPagina + k - 1)
           /\ (dl % TamPagina) + n <= TamPagina * CantPaginas(dl, n)
  <1>1. TamPagina \in Nat \ {0}  BY Constantes
  <1>2. PICK q \in Nat, m \in 0..TamPagina - 1 : q = dl \div TamPagina /\ m = dl % TamPagina  BY PaginaDe
  <1>3. dl = TamPagina * q + m  BY <1>2, PaginaDe
  <1>4. PICK l \in Nat : l = Len(tabla[p])  BY DEF TypeOK
  <1>5. PICK c : c = (m + n + TamPagina - 1) \div TamPagina  OBVIOUS
  <1>6. c = CantPaginas(dl, n)  BY <1>2, <1>5 DEF CantPaginas
  <1>7. m + n + TamPagina - 1 \in Nat  BY <1>1
  <1>8. c \in Nat /\ TamPagina * c <= m + n + TamPagina - 1 /\ m + n <= TamPagina * c
    <2>1. PICK b \in Nat : b = m + n + TamPagina - 1  BY <1>7
    <2>2. /\ c \in Nat /\ b % TamPagina \in 0..TamPagina - 1 /\ b = TamPagina * c + (b % TamPagina)
      BY <1>5, <2>1, PaginaDe
    <2>3. PICK y \in Int, r \in Int : y = TamPagina * c /\ r = b % TamPagina  BY <1>1, <2>2
    <2>4. b = y + r /\ r \in 0..TamPagina - 1  BY <2>2, <2>3
    <2>5. y <= m + n + TamPagina - 1 /\ m + n <= y  BY <1>1, <2>1, <2>4
    <2>6. QED  BY <2>2, <2>3, <2>5
  <1>9. TamPagina * q + m + n <= TamPagina * l
    <2>1. dl + n <= l * TamPagina  BY <1>4 DEF Tiene
    <2>2. l * TamPagina = TamPagina * l /\ TamPagina * l \in Int /\ TamPagina * q \in Int
      BY <1>1, <1>4
    <2>3. QED  BY <1>3, <2>1, <2>2
  <1>10. q + c <= l
    <2> SUFFICES ASSUME l < q + c PROVE FALSE  BY <1>4, <1>8
    <2>1. l <= q + c - 1 /\ q + c - 1 \in Int  BY <1>8
    <2>2. TamPagina * l <= TamPagina * (q + c - 1)  BY <2>1, PorPaginas
    <2>3. TamPagina * (q + c - 1) = TamPagina * q + TamPagina * c - TamPagina  BY <1>1, <1>8
    <2>4. PICK x \in Int, y \in Int, z \in Int, w \in Nat :
              x = TamPagina * q /\ y = TamPagina * c /\ z = TamPagina * l /\ w = TamPagina
      BY <1>1, <1>8
    <2>5. z <= x + y - w /\ x + m + n <= z /\ y <= m + n + w - 1  BY <1>8, <1>9, <2>2, <2>3, <2>4
    <2>6. QED  BY <2>4, <2>5
  <1>11. ASSUME NEW k \in 1..c PROVE EnTabla(p, q + k - 1)
    <2>1. q + k - 1 \in Nat /\ q + k - 1 < l  BY <1>8, <1>10
    <2>2. QED  BY <1>4, <2>1 DEF EnTabla
  <1>12. QED  BY <1>2, <1>6, <1>8, <1>11

-----------------------------------------------------------------------------
(* A whole translation *)

\* What the TLB says of the processes of V is what their page tables say.
Vigentes(t, V) ==
    \A i \in 1..Len(t) : t[i].pid \in V => /\ EnTabla(t[i].pid, t[i].pagina)
                                           /\ t[i].marco = tabla[t[i].pid][t[i].pagina + 1]

\* When the history is as long as the list, it has the pages of the list.
LEMMA PaginasTodas ==
    ASSUME NEW t \in Seq(Entradas), NEW s, Buena(t, s), Len(s) = Len(t)
    PROVE  Tenidas(s) = {Pag(t[i]) : i \in 1..Len(t)}
  <1>1. PICK f : Coloca(f, t, s)  BY DEF Buena
  <1>2. PICK n \in Nat : n = Len(t) /\ n = Len(s)  OBVIOUS
  <1>3. Posiciones(t, s) = 1..n
    <2>1. n - n + 1 = 1  OBVIOUS
    <2>2. QED  BY <1>2, <2>1 DEF Posiciones
  <1>4. /\ f \in [1..n -> 1..n] /\ \A i \in 1..n : s[f[i]] = Pag(t[i])
        /\ \A b \in 1..n : \E i \in 1..n : f[i] = b
    BY <1>1, <1>2, <1>3 DEF Coloca
  <1>5. ASSUME NEW b \in 1..n PROVE \E i \in 1..n : s[b] = Pag(t[i])
    <2>1. PICK i \in 1..n : f[i] = b  BY <1>4
    <2>2. QED  BY <1>4, <2>1
  <1>6. ASSUME NEW i \in 1..n PROVE \E b \in 1..n : s[b] = Pag(t[i])
    <2>1. f[i] \in 1..n  BY <1>4
    <2>2. QED  BY <1>4, <2>1
  <1>7. \A y : y \in Tenidas(s) <=> \E b \in 1..n : y = s[b]  BY <1>2 DEF Tenidas
  <1>8. \A y : y \in {Pag(t[i]) : i \in 1..Len(t)} <=> \E i \in 1..n : y = Pag(t[i])  BY <1>2
  <1>9. ASSUME NEW y PROVE y \in Tenidas(s) <=> y \in {Pag(t[i]) : i \in 1..Len(t)}
    <2>1. y \in Tenidas(s) => \E i \in 1..n : y = Pag(t[i])  BY <1>5, <1>7
    <2>2. (\E i \in 1..n : y = Pag(t[i])) => y \in Tenidas(s)
      <3>1. ASSUME NEW i \in 1..n, y = Pag(t[i]) PROVE y \in Tenidas(s)
        <4>1. PICK b \in 1..n : s[b] = Pag(t[i])  BY <1>6
        <4>2. QED  BY <1>7, <3>1, <4>1
      <3>2. QED  BY <3>1
    <2>3. QED  BY <1>8, <2>1, <2>2
  <1>10. QED  BY <1>9

\* The search, k pages into an access of process p that starts at page q.
Hist(s, p, u) == IF Algoritmo = "LRU" THEN Toca(s, p, u) ELSE s

Busca(x, k, s, p, q, V) ==
    /\ x \in Rectos /\ Buena(x.tlb, Hist(s, p, x.aciertos))
    /\ Tenidas(Hist(s, p, x.aciertos)) = Tenidas(s) /\ Len(Hist(s, p, x.aciertos)) = Len(x.tlb)
    /\ Vigentes(x.tlb, V)
    /\ \A i \in 1..Len(x.fallos) : /\ <<p, x.fallos[i]>> \notin Tenidas(s) /\ x.fallos[i] < q + k
                                   /\ EnTabla(p, x.fallos[i])
    /\ \A i, j \in 1..Len(x.fallos) : x.fallos[i] = x.fallos[j] => i = j
    /\ Len(x.marcos) = k
    /\ (p \in V => \A i \in 1..k : x.marcos[i] = tabla[p][q + i])

\* An entry that is accessed says the same.
LEMMA VigentesTocada ==
    ASSUME NEW t \in Seq(Entradas), NEW r \in Nat, NEW i \in 1..Len(t), NEW V, Vigentes(t, V)
    PROVE  Vigentes(Tocada(t, i, r), V)
  <1>1. PICK u : u = Tocada(t, i, r)  OBVIOUS
  <1>2. /\ Len(u) = Len(t)
        /\ \A j \in 1..Len(t) : u[j].pid = t[j].pid /\ u[j].pagina = t[j].pagina /\ u[j].marco = t[j].marco
    <2>1. /\ Len(u) = Len(t) /\ u[i].acceso = r
          /\ \A j \in 1..Len(t) : /\ u[j].pid = t[j].pid /\ u[j].pagina = t[j].pagina
                                  /\ u[j].marco = t[j].marco /\ (j # i => u[j] = t[j])
                                  /\ t[j].acceso \in Nat
      BY <1>1, Accedida
    <2>2. QED  BY <2>1
  <1>3. \A j \in 1..Len(t) : t[j].pid \in V => /\ EnTabla(t[j].pid, t[j].pagina)
                                               /\ t[j].marco = tabla[t[j].pid][t[j].pagina + 1]
    BY DEF Vigentes
  <1>4. Vigentes(u, V)  BY <1>2, <1>3 DEF Vigentes
  <1>5. QED  BY <1>1, <1>4

\* The search of a page after it hits.
Hallada(x, i, pag) ==
    [tlb |-> Tocada(x.tlb, i, x.reloj), reloj |-> x.reloj + 1, marcos |-> Append(x.marcos, x.tlb[i].marco),
     aciertos |-> Append(x.aciertos, pag), fallos |-> x.fallos]

\* A page that hits has an entry, and Buscar accesses it.
LEMMA BuscarHallada ==
    ASSUME NEW x \in Estados, NEW p, NEW pag, NEW i, i = Indice(x.tlb, p, pag), Acierta(x.tlb, p, pag)
    PROVE  /\ i \in 1..Len(x.tlb) /\ x.tlb[i].pid = p /\ x.tlb[i].pagina = pag
           /\ Buscar(x, p, pag) = Hallada(x, i, pag)
  BY BuscarAcierta DEF Hallada

\* One more page is looked for.
LEMMA BuscaPaso ==
    ASSUME TypeOK, NEW p \in Pids, NEW s \in Limpias, NEW q \in Nat, NEW V, NEW k \in Nat, NEW x,
           Busca(x, k, s, p, q, V), EnTabla(p, q + k)
    PROVE  Busca(Buscar(x, p, q + k), k + 1, s, p, q, V)
  <1>1. /\ x \in Rectos /\ Buena(x.tlb, Hist(s, p, x.aciertos))
        /\ Tenidas(Hist(s, p, x.aciertos)) = Tenidas(s) /\ Len(Hist(s, p, x.aciertos)) = Len(x.tlb)
        /\ Vigentes(x.tlb, V)
        /\ \A i \in 1..Len(x.fallos) : /\ <<p, x.fallos[i]>> \notin Tenidas(s) /\ x.fallos[i] < q + k
                                       /\ EnTabla(p, x.fallos[i])
        /\ \A i, j \in 1..Len(x.fallos) : x.fallos[i] = x.fallos[j] => i = j
        /\ Len(x.marcos) = k
        /\ (p \in V => \A i \in 1..k : x.marcos[i] = tabla[p][q + i])
    BY DEF Busca
  <1>2. /\ x \in Estados /\ x.tlb \in Seq(Entradas) /\ x.reloj \in Nat /\ x.marcos \in Seq(Marcos)
        /\ x.aciertos \in Seq(Nat) /\ x.fallos \in Seq(Nat)
        /\ Distintas(x.tlb) /\ \A i \in 1..Len(x.tlb) : x.tlb[i].acceso < x.reloj
    BY <1>1 DEF Rectos, Estados
  <1>3. PICK y, pag : y = Buscar(x, p, pag) /\ pag = q + k  OBVIOUS
  <1>4. y \in Rectos  BY <1>1, <1>3, BuscarRecto
  <1>5. pag \in Nat /\ EnTabla(p, pag) /\ tabla[p][pag + 1] \in Marcos  BY <1>3, MarcoDe
  <1>6. PICK t, r : t = x.tlb /\ r = x.reloj  OBVIOUS
  <1>7. PICK h : h = Hist(s, p, x.aciertos)  OBVIOUS
  <1>13. t \in Seq(Entradas) /\ r \in Nat /\ Distintas(t) /\ (\A j \in 1..Len(t) : t[j].acceso < r)
         /\ Buena(t, h) /\ Len(h) = Len(t)
    BY <1>1, <1>2, <1>6, <1>7
  <1>8. Tenidas(h) = {Pag(t[i]) : i \in 1..Len(t)}  BY <1>13, PaginasTodas
  <1>9. ASSUME NEW mc \in Marcos, y.marcos = Append(x.marcos, mc), p \in V => mc = tabla[p][pag + 1]
        PROVE  Len(y.marcos) = k + 1 /\ (p \in V => \A i \in 1..k + 1 : y.marcos[i] = tabla[p][q + i])
    <2>1. /\ Len(y.marcos) = k + 1 /\ y.marcos[k + 1] = mc
          /\ \A i \in 1..k : y.marcos[i] = x.marcos[i]
      BY <1>1, <1>2, <1>9, AppendProperties
    <2>2. pag + 1 = q + (k + 1)  BY <1>3
    <2>3. \A i \in 1..k + 1 : i \in 1..k \/ i = k + 1  OBVIOUS
    <2>4. QED  BY <1>1, <1>9, <2>1, <2>2, <2>3
  <1>10. CASE Acierta(t, p, pag)
    <2>1. PICK i : i = Indice(t, p, pag)  OBVIOUS
    <2>2. /\ i \in 1..Len(t) /\ t[i].pid = p /\ t[i].pagina = pag
          /\ y = [tlb |-> Tocada(t, i, r), reloj |-> r + 1, marcos |-> Append(x.marcos, t[i].marco),
                  aciertos |-> Append(x.aciertos, pag), fallos |-> x.fallos]
      <3>1. x \in Estados /\ i = Indice(x.tlb, p, pag) /\ Acierta(x.tlb, p, pag)  BY <1>2, <1>6, <1>10, <2>1
      <3>2. /\ i \in 1..Len(x.tlb) /\ x.tlb[i].pid = p /\ x.tlb[i].pagina = pag
            /\ Buscar(x, p, pag) = Hallada(x, i, pag)
        BY <3>1, BuscarHallada
      <3>3. QED  BY <1>3, <1>6, <3>2 DEF Hallada
    <2>3. /\ y.tlb = Tocada(t, i, r) /\ y.marcos = Append(x.marcos, t[i].marco)
          /\ y.aciertos = Append(x.aciertos, pag) /\ y.fallos = x.fallos
      BY <2>2
    <2>4. Pag(t[i]) = <<p, pag>>  BY <2>2 DEF Pag
    <2>5. PICK g : g = Hist(s, p, y.aciertos)  OBVIOUS
    <2>6. Buena(y.tlb, g) /\ Tenidas(g) = Tenidas(s) /\ Len(g) = Len(h)
      <3>1. CASE Algoritmo = "LRU"
        <4>1. g = AlFinal(h, <<p, pag>>)  BY <1>2, <1>5, <1>7, <2>3, <2>5, <3>1, TocaUna DEF Hist
        <4>2. /\ Buena(Tocada(t, i, r), AlFinal(h, Pag(t[i]))) /\ Tenidas(AlFinal(h, Pag(t[i]))) = Tenidas(h)
              /\ Len(AlFinal(h, Pag(t[i]))) = Len(h)
          <5>1. i \in 1..Len(t)  BY <2>2
          <5>2. QED  BY <1>13, <5>1, <3>1, AciertoLRU, ZenonT(60)
        <4>3. QED  BY <1>1, <1>7, <2>3, <2>4, <4>1, <4>2
      <3>2. CASE Algoritmo = "FIFO"
        <4>1. g = s /\ h = s  BY <1>7, <2>5, <3>2 DEF Hist
        <4>2. Buena(Tocada(t, i, r), h)  BY <1>1, <1>2, <1>6, <1>7, <2>2, <3>2, AciertoFIFO
        <4>3. QED  BY <2>3, <4>1, <4>2
      <3>3. QED  BY <3>1, <3>2, Configurada
    <2>7. Len(y.tlb) = Len(t)  BY <1>2, <1>6, <2>2, <2>3, Accedida
    <2>8. Vigentes(y.tlb, V)  BY <1>1, <1>2, <1>6, <2>2, <2>3, VigentesTocada
    <2>9. t[i].marco \in Marcos  BY <1>2, <1>6, <2>2, CamposDe
    <2>10. p \in V => t[i].marco = tabla[p][pag + 1]  BY <1>1, <1>6, <2>2 DEF Vigentes
    <2>11. Len(y.marcos) = k + 1 /\ (p \in V => \A j \in 1..k + 1 : y.marcos[j] = tabla[p][q + j])
      BY <1>9, <2>3, <2>9, <2>10
    <2>12. \A j \in 1..Len(x.fallos) : x.fallos[j] < q + (k + 1)
      <3>1. \A j \in 1..Len(x.fallos) : x.fallos[j] \in Nat /\ x.fallos[j] < q + k  BY <1>1, <1>2, ElementOfSeq
      <3>2. QED  BY <3>1
    <2>13. Busca(y, k + 1, s, p, q, V)
      BY <1>1, <1>4, <1>6, <1>7, <2>3, <2>5, <2>6, <2>7, <2>8, <2>11, <2>12 DEF Busca
    <2>14. QED  BY <1>3, <2>13
  <1>11. CASE ~Acierta(t, p, pag)
    <2>1. y = [tlb |-> t, reloj |-> r, marcos |-> Append(x.marcos, tabla[p][pag + 1]),
               aciertos |-> x.aciertos, fallos |-> Append(x.fallos, pag)]
      BY <1>2, <1>3, <1>6, <1>11, BuscarFalla
    <2>2. /\ y.tlb = t /\ y.marcos = Append(x.marcos, tabla[p][pag + 1])
          /\ y.aciertos = x.aciertos /\ y.fallos = Append(x.fallos, pag)
      BY <2>1
    <2>3. <<p, pag>> \notin Tenidas(s)
      <3>1. CASE CantEntradas > 0
        <4>1. Indice(t, p, pag) = 0  BY <1>11, <3>1 DEF Acierta
        <4>2. \A i \in 1..Len(t) : ~(t[i].pid = p /\ t[i].pagina = pag)  BY <1>2, <1>6, <4>1, IndiceEs
        <4>3. \A i \in 1..Len(t) : Pag(t[i]) # <<p, pag>>  BY <4>2 DEF Pag
        <4>4. QED  BY <1>1, <1>7, <1>8, <4>3
      <3>2. CASE ~(CantEntradas > 0)
        <4>1. CantEntradas = 0  BY <3>2, Configurada
        <4>2. Len(t) = 0
          <5>1. Len(t) = Minimo(Len(h), CantEntradas) /\ h \in Limpias  BY <1>1, <1>6, <1>7 DEF Buena
          <5>2. Len(h) \in Nat  BY <5>1 DEF Limpias, Historias
          <5>3. QED  BY <4>1, <5>1, <5>2 DEF Minimo
        <4>3. QED  BY <1>1, <1>7, <1>8, <4>2
      <3>3. QED  BY <3>1, <3>2
    <2>4. PICK m \in Nat : m = Len(x.fallos)  BY <1>2
    <2>5. Len(y.fallos) = m + 1 /\ y.fallos[m + 1] = pag /\ \A i \in 1..m : y.fallos[i] = x.fallos[i]
      BY <1>2, <1>5, <2>2, <2>4, AppendProperties
    <2>6. \A i \in 1..m + 1 : i \in 1..m \/ i = m + 1  OBVIOUS
    <2>7. \A i \in 1..m : x.fallos[i] \in Nat /\ x.fallos[i] < pag  BY <1>1, <1>2, <1>3, <2>4, ElementOfSeq
    <2>8. pag < q + (k + 1)  BY <1>3
    <2>9. \A i \in 1..m : x.fallos[i] < q + (k + 1)  BY <2>7, <1>5, <1>3
    <2>10. \A i \in 1..m + 1 : /\ <<p, y.fallos[i]>> \notin Tenidas(s) /\ y.fallos[i] < q + (k + 1)
                               /\ EnTabla(p, y.fallos[i])
      BY <1>1, <1>5, <2>3, <2>4, <2>5, <2>6, <2>8, <2>9
    <2>11. ASSUME NEW i \in 1..m + 1, NEW j \in 1..m + 1, y.fallos[i] = y.fallos[j] PROVE i = j
      <3>1. CASE i \in 1..m /\ j \in 1..m  BY <1>1, <2>4, <2>5, <2>11, <3>1
      <3>2. \A l \in 1..m : y.fallos[l] # pag  BY <1>5, <2>5, <2>7, SMTT(40)
      <3>3. QED  BY <2>5, <2>6, <2>11, <3>1, <3>2
    <2>12. Len(y.marcos) = k + 1 /\ (p \in V => \A i \in 1..k + 1 : y.marcos[i] = tabla[p][q + i])
      BY <1>5, <1>9, <2>2
    <2>13. /\ Buena(y.tlb, Hist(s, p, y.aciertos)) /\ Tenidas(Hist(s, p, y.aciertos)) = Tenidas(s)
           /\ Len(Hist(s, p, y.aciertos)) = Len(y.tlb) /\ Vigentes(y.tlb, V)
      BY <1>1, <1>6, <2>2
    <2>14. Busca(y, k + 1, s, p, q, V)
      BY <1>4, <2>5, <2>10, <2>11, <2>12, <2>13 DEF Busca
    <2>15. QED  BY <1>3, <2>14
  <1>12. QED  BY <1>10, <1>11

\* The start of an access.
Inicio(t, r) == [tlb |-> t, reloj |-> r, marcos |-> <<>>, aciertos |-> <<>>, fallos |-> <<>>]

\* A TLB between two instructions, with its clock and its history.
Sana(t, r, s, V) ==
    /\ t \in Seq(Entradas) /\ r \in Nat /\ Distintas(t) /\ \A i \in 1..Len(t) : t[i].acceso < r
    /\ Buena(t, s) /\ Len(s) = Len(t) /\ Vigentes(t, V)

\* A list that matches its history is no longer than it may be.
LEMMA NoSobra ==
    ASSUME TypeOK, NEW t, NEW s, Buena(t, s)
    PROVE  Len(t) <= CantEntradas /\ Len(t) \in Nat /\ s \in Limpias /\ Len(s) \in Nat
  <1>1. CantEntradas \in Nat  BY Configurada
  <1>2. s \in Limpias /\ Len(t) = Minimo(Len(s), CantEntradas)  BY DEF Buena
  <1>3. Len(s) \in Nat  BY <1>2 DEF Limpias, Historias
  <1>4. QED  BY <1>1, <1>2, <1>3 DEF Minimo

\* The search of the whole access.
LEMMA BuscaTodo ==
    ASSUME TypeOK, NEW p \in Pids, NEW t, NEW r, NEW s, NEW V, Sana(t, r, s, V),
           NEW dl \in Nat, NEW n, NEW m \in Nat, m = CantPaginas(dl, n),
           \A k \in 1..m : EnTabla(p, dl \div TamPagina + k - 1)
    PROVE  Busca(Buscada(Inicio(t, r), p, dl, n), m, s, p, dl \div TamPagina, V)
  <1>1. PICK q \in Nat : q = dl \div TamPagina  BY PaginaDe
  <1>2. PICK e : e = Inicio(t, r)  OBVIOUS
  <1>3. /\ e.tlb = t /\ e.reloj = r /\ e.marcos = <<>> /\ e.aciertos = <<>> /\ e.fallos = <<>>
    BY <1>2 DEF Inicio
  <1>4. /\ t \in Seq(Entradas) /\ r \in Nat /\ Distintas(t) /\ (\A i \in 1..Len(t) : t[i].acceso < r)
        /\ Buena(t, s) /\ Len(s) = Len(t) /\ Vigentes(t, V)
    BY DEF Sana
  <1>5. Len(t) <= CantEntradas /\ s \in Limpias  BY <1>4, NoSobra
  <1>6. e \in Rectos
    <2>1. e \in Estados
      <3>1. <<>> \in Seq(Marcos) /\ <<>> \in Seq(Nat)  OBVIOUS
      <3>2. QED  BY <1>2, <1>4, <3>1 DEF Inicio, Estados
    <2>2. QED  BY <1>3, <1>4, <1>5, <2>1 DEF Rectos
  <1>7. Busca(e, 0, s, p, q, V)
    <2>1. Hist(s, p, e.aciertos) = s  BY <1>3, <1>5, TocaVacia DEF Hist
    <2>2. Len(e.fallos) = 0 /\ Len(e.marcos) = 0  BY <1>3
    <2>3. QED  BY <1>3, <1>4, <1>6, <2>1, <2>2 DEF Busca
  <1>8. PICK c \in Trazas(m) :
            /\ c[0] = e /\ Buscada(e, p, dl, n) = c[m]
            /\ \A k \in 1..m : c[k] = Buscar(c[k - 1], p, dl \div TamPagina + k - 1)
    <2>1. e \in Rectos /\ m = CantPaginas(dl, n) /\ \A k \in 1..m : EnTabla(p, dl \div TamPagina + k - 1)
      BY <1>6
    <2>2. QED  BY <2>1, BuscadaEs, SMTT(40)
  <1> DEFINE A == {k \in 0..m : Busca(c[k], k, s, p, q, V)}
  <1>9. 0 \in A  BY <1>7, <1>8
  <1>10. ASSUME NEW k \in 0..m - 1, k \in A PROVE k + 1 \in A
    <2>1. PICK j \in 1..m : j = k + 1 /\ j - 1 = k /\ q + j - 1 = q + k  OBVIOUS
    <2>2. c[j] = Buscar(c[k], p, q + k) /\ EnTabla(p, q + k)  BY <1>1, <1>8, <2>1
    <2>3. Busca(c[k], k, s, p, q, V) /\ k \in Nat  BY <1>10
    <2>4. Busca(Buscar(c[k], p, q + k), k + 1, s, p, q, V)  BY <1>5, <2>2, <2>3, BuscaPaso
    <2>5. QED  BY <2>1, <2>2, <2>4
  <1> HIDE DEF A
  <1>11. \A k \in 0..m : k \in A  BY <1>9, <1>10, HastaN
  <1>12. Busca(c[m], m, s, p, q, V)  BY <1>11 DEF A
  <1>13. QED  BY <1>1, <1>2, <1>8, <1>12

\* A page that comes in says what its table says; the access goes on as it was.
LEMMA VigentesReemplazar ==
    ASSUME TypeOK, NEW p \in Pids, NEW pag, EnTabla(p, pag), NEW x \in Rectos, NEW V, Vigentes(x.tlb, V),
           NEW y, y = Reemplazar(x, p, pag)
    PROVE  /\ Vigentes(y.tlb, V) /\ y.marcos = x.marcos /\ y.aciertos = x.aciertos /\ y.fallos = x.fallos
  <1>1. x \in Estados /\ Distintas(x.tlb) /\ Len(x.tlb) <= CantEntradas /\ x.tlb \in Seq(Entradas)
    BY DEF Rectos, Estados
  <1>2. y = IF CantEntradas = 0 THEN x
            ELSE [tlb |-> Append(Lugar(x), Nueva(x, p, pag)), reloj |-> x.reloj + 1,
                  marcos |-> x.marcos, aciertos |-> x.aciertos, fallos |-> x.fallos]
    BY <1>1, ReemplazarEs
  <1>3. CASE CantEntradas = 0  BY <1>2, <1>3
  <1>4. CASE CantEntradas # 0
    <2>1. /\ y.tlb = Append(Lugar(x), Nueva(x, p, pag)) /\ y.marcos = x.marcos
          /\ y.aciertos = x.aciertos /\ y.fallos = x.fallos
      BY <1>2, <1>4
    <2>2. PICK t : t = x.tlb /\ t \in Seq(Entradas)  BY <1>1
    <2>3. PICK l : l = Lugar(x) /\ l \in Seq(Entradas)  BY <1>1, <1>4, LugarTipo
    <2>4. ASSUME NEW i \in 1..Len(l) PROVE \E j \in 1..Len(t) : l[i] = t[j]
      <3>1. CASE Len(x.tlb) < CantEntradas
        <4>1. l = t  BY <2>2, <2>3, <3>1 DEF Lugar
        <4>2. QED  BY <4>1
      <3>2. CASE ~(Len(x.tlb) < CantEntradas)
        <4>1. l = SinVictima(t)  BY <2>2, <2>3, <3>2 DEF Lugar
        <4>2. Len(t) # 0
          <5>1. CantEntradas \in Nat /\ Len(t) \in Nat  BY <2>2, Configurada
          <5>2. QED  BY <1>4, <2>2, <3>2, <5>1
        <4>3. Distintas(t)  BY <1>1, <2>2
        <4>4. PICK u \in Seq(Entradas) :
                  /\ Len(u) = Len(t) /\ SinVictima(t) = Tail(u) /\ u # <<>>
                  /\ \A k \in 1..Len(t) : \E j \in 1..Len(t) : u[k] = t[j]
          BY <2>2, <4>2, <4>3, SinVictimaEs
        <4>5. i + 1 \in 1..Len(u) /\ l[i] = u[i + 1]
          <5>1. Len(Tail(u)) = Len(u) - 1 /\ \A k \in 1..Len(Tail(u)) : Tail(u)[k] = u[k + 1]
            BY <4>4, HeadTailProperties
          <5>2. PICK z \in Nat : z = Len(u)  OBVIOUS
          <5>3. i \in 1..z - 1  BY <4>1, <4>4, <5>1, <5>2
          <5>4. i + 1 \in 1..z  BY <5>3
          <5>5. QED  BY <4>1, <4>4, <5>1, <5>2, <5>4
        <4>6. QED  BY <4>4, <4>5
      <3>3. QED  BY <3>1, <3>2
    <2>5. PICK v : v = Nueva(x, p, pag)  OBVIOUS
    <2>6. v.pid = p /\ v.pagina = pag /\ v.marco = tabla[p][pag + 1]  BY <2>5 DEF Nueva
    <2>7. PICK w \in Nat : w = Len(l)  BY <2>3
    <2>8. v \in Entradas
      <3>1. x.reloj \in Nat  BY <1>1 DEF Estados
      <3>2. QED  BY <2>5, <3>1, MarcoDe DEF Nueva, Entradas
    <2>9. PICK u : u = y.tlb  OBVIOUS
    <2>10. Len(u) = w + 1 /\ u[w + 1] = v /\ \A i \in 1..w : u[i] = l[i]
      BY <2>1, <2>3, <2>5, <2>7, <2>8, <2>9, AppendProperties
    <2>11. \A i \in 1..w + 1 : i \in 1..w \/ i = w + 1  OBVIOUS
    <2>12. \A j \in 1..Len(t) : t[j].pid \in V => /\ EnTabla(t[j].pid, t[j].pagina)
                                                  /\ t[j].marco = tabla[t[j].pid][t[j].pagina + 1]
      BY <2>2 DEF Vigentes
    <2>13. ASSUME NEW i \in 1..w + 1, u[i].pid \in V
           PROVE  EnTabla(u[i].pid, u[i].pagina) /\ u[i].marco = tabla[u[i].pid][u[i].pagina + 1]
      <3>1. CASE i = w + 1  BY <2>6, <2>10, <3>1
      <3>2. CASE i \in 1..w
        <4>1. PICK j \in 1..Len(t) : l[i] = t[j]  BY <2>4, <2>7, <3>2
        <4>2. u[i] = t[j]  BY <2>10, <3>2, <4>1
        <4>3. QED  BY <2>12, <2>13, <4>2
      <3>3. QED  BY <2>11, <3>1, <3>2
    <2>14. Vigentes(u, V)  BY <2>10, <2>13 DEF Vigentes
    <2>15. QED  BY <2>1, <2>9, <2>14
  <1>5. QED  BY <1>3, <1>4

\* The pages that the history takes: those that hit, under LRU, and then the first j that missed.
Base(b) == IF Algoritmo = "LRU" THEN b.aciertos ELSE <<>>
Tocadas(b, j) == Base(b) \o SubSeq(b.fallos, 1, j)

\* They come one after another.
LEMMA TocadasUna ==
    ASSUME NEW b \in Rectos
    PROVE  /\ Base(b) \in Seq(Nat) /\ Tocadas(b, 0) = Base(b)
           /\ Tocadas(b, Len(b.fallos)) = Base(b) \o b.fallos
           /\ \A j \in 1..Len(b.fallos) : /\ Tocadas(b, j - 1) \in Seq(Nat)
                                          /\ Tocadas(b, j) = Append(Tocadas(b, j - 1), b.fallos[j])
  <1>1. b.fallos \in Seq(Nat) /\ b.aciertos \in Seq(Nat)  BY DEF Rectos, Estados
  <1>2. PICK f : f = b.fallos /\ f \in Seq(Nat)  BY <1>1
  <1>3. PICK a : a = Base(b) /\ a \in Seq(Nat)
    <2>1. <<>> \in Seq(Nat)  OBVIOUS
    <2>2. Base(b) \in Seq(Nat)
      <3>1. CASE Algoritmo = "LRU"  BY <1>1, <3>1 DEF Base
      <3>2. CASE Algoritmo # "LRU"  BY <2>1, <3>2 DEF Base
      <3>3. QED  BY <3>1, <3>2
    <2>3. QED  BY <2>2
  <1>4. PICK n \in Nat : n = Len(f)  BY <1>2
  <1>5. PICK m \in Nat : m = Len(a)  BY <1>3
  <1>6. \A j \in 0..n : /\ SubSeq(f, 1, j) \in Seq(Nat) /\ Len(SubSeq(f, 1, j)) = j
                        /\ \A i \in 1..j : SubSeq(f, 1, j)[i] = f[i]
    <2>1. ASSUME NEW j \in 0..n
          PROVE  /\ SubSeq(f, 1, j) \in Seq(Nat) /\ Len(SubSeq(f, 1, j)) = j
                 /\ \A i \in 1..j : SubSeq(f, 1, j)[i] = f[i]
      <3>1. \A i \in 1..j : i \in 1..Len(f)  BY <1>4
      <3>2. \A i \in 1..j : f[i] \in Nat  BY <1>2, <3>1, ElementOfSeq
      <3>3. SubSeq(f, 1, j) = [i \in 1..j |-> f[i]]  BY <1>2, <1>4
      <3>4. QED  BY <3>2, <3>3
    <2>2. QED  BY <2>1
  <1>7. \A j \in 0..n : /\ Tocadas(b, j) \in Seq(Nat) /\ Len(Tocadas(b, j)) = m + j
                        /\ \A i \in 1..m + j : Tocadas(b, j)[i] = IF i <= m THEN a[i] ELSE f[i - m]
    <2>1. ASSUME NEW j \in 0..n, NEW z, z = Tocadas(b, j)
          PROVE  /\ z \in Seq(Nat) /\ Len(z) = m + j
                 /\ \A i \in 1..m + j : z[i] = IF i <= m THEN a[i] ELSE f[i - m]
      <3>1. PICK u \in Seq(Nat) : u = SubSeq(f, 1, j) /\ Len(u) = j /\ \A i \in 1..j : u[i] = f[i]  BY <1>6
      <3>2. z = a \o u  BY <1>2, <1>3, <2>1, <3>1 DEF Tocadas
      <3>3. /\ z \in Seq(Nat) /\ Len(z) = m + j
            /\ \A i \in 1..m + j : z[i] = IF i <= m THEN a[i] ELSE u[i - m]
        BY <1>3, <1>5, <3>1, <3>2, ConcatProperties, SMTT(40)
      <3>4. \A i \in 1..m + j : ~(i <= m) => i - m \in 1..j  OBVIOUS
      <3>5. QED  BY <3>1, <3>3, <3>4
    <2>2. QED  BY <2>1
  <1>8. ASSUME NEW j \in 1..n PROVE Tocadas(b, j) = Append(Tocadas(b, j - 1), f[j])
    <2>1. PICK u \in Seq(Nat) :
              /\ u = Tocadas(b, j - 1) /\ Len(u) = m + j - 1
              /\ \A i \in 1..m + j - 1 : u[i] = IF i <= m THEN a[i] ELSE f[i - m]
      <3>1. j - 1 \in 0..n /\ m + (j - 1) = m + j - 1  OBVIOUS
      <3>2. QED  BY <1>7, <3>1
    <2>2. PICK z \in Seq(Nat) :
              /\ z = Tocadas(b, j) /\ Len(z) = m + j
              /\ \A i \in 1..m + j : z[i] = IF i <= m THEN a[i] ELSE f[i - m]
      BY <1>7
    <2>3. f[j] \in Nat  BY <1>2, <1>4, ElementOfSeq
    <2>4. PICK w : w = Append(u, f[j])  OBVIOUS
    <2>5. /\ w \in Seq(Nat) /\ Len(w) = m + j /\ w[m + j] = f[j] /\ \A i \in 1..m + j - 1 : w[i] = u[i]
      <3>1. /\ w \in Seq(Nat) /\ Len(w) = Len(u) + 1 /\ w[Len(u) + 1] = f[j] /\ \A i \in 1..Len(u) : w[i] = u[i]
        BY <2>1, <2>3, <2>4, AppendProperties
      <3>2. (m + j - 1) + 1 = m + j  OBVIOUS
      <3>3. QED  BY <2>1, <3>1, <3>2
    <2>6. ASSUME NEW i \in 1..m + j PROVE w[i] = z[i]
      <3>1. CASE i = m + j
        <4>1. ~(m + j <= m) /\ (m + j) - m = j  OBVIOUS
        <4>2. QED  BY <2>2, <2>5, <3>1, <4>1
      <3>2. CASE i # m + j
        <4>1. i \in 1..m + j - 1  BY <3>2
        <4>2. QED  BY <2>1, <2>2, <2>5, <4>1
      <3>3. QED  BY <3>1, <3>2
    <2>7. w = z  BY <2>2, <2>5, <2>6, SeqEqual
    <2>8. QED  BY <2>1, <2>2, <2>4, <2>7
  <1>9. Tocadas(b, 0) = Base(b)
    <2>1. PICK z \in Seq(Nat) : z = Tocadas(b, 0) /\ Len(z) = m /\ \A i \in 1..m : z[i] = IF i <= m THEN a[i] ELSE f[i - m]
      <3>1. 0 \in 0..n /\ m + 0 = m  OBVIOUS
      <3>2. QED  BY <1>7, <3>1
    <2>2. \A i \in 1..m : z[i] = a[i]  BY <2>1
    <2>3. z = a  BY <1>3, <1>5, <2>1, <2>2, SeqEqual
    <2>4. QED  BY <1>3, <2>1, <2>3
  <1>10. Tocadas(b, n) = Base(b) \o f
    <2>1. SubSeq(f, 1, n) = f
      <3>1. n \in 0..n  OBVIOUS
      <3>2. PICK u \in Seq(Nat) : u = SubSeq(f, 1, n) /\ Len(u) = n /\ \A i \in 1..n : u[i] = f[i]  BY <1>6, <3>1
      <3>3. u = f  BY <1>2, <1>4, <3>2, SeqEqual
      <3>4. QED  BY <3>2, <3>3
    <2>2. QED  BY <1>2, <2>1 DEF Tocadas
  <1>11. ASSUME NEW j \in 1..n PROVE Tocadas(b, j - 1) \in Seq(Nat)
    <2>1. j - 1 \in 0..n  OBVIOUS
    <2>2. QED  BY <1>7, <2>1
  <1>12. QED  BY <1>2, <1>3, <1>4, <1>8, <1>9, <1>10, <1>11

\* The access after j pages have come in.
Trae(y, j, b, s, p, V) ==
    /\ y \in Rectos /\ y.marcos = b.marcos /\ y.aciertos = b.aciertos /\ y.fallos = b.fallos
    /\ Buena(y.tlb, Toca(s, p, Tocadas(b, j)))
    /\ Tenidas(Toca(s, p, Tocadas(b, j))) = Tenidas(s) \cup {<<p, b.fallos[i]>> : i \in 1..j}
    /\ Vigentes(y.tlb, V)

\* One more page comes in.
LEMMA TraePaso ==
    ASSUME TypeOK, NEW p \in Pids, NEW s \in Limpias, NEW V, NEW b \in Rectos, NEW k \in Nat, NEW q \in Nat,
           Busca(b, k, s, p, q, V), NEW j \in 1..Len(b.fallos), NEW y, Trae(y, j - 1, b, s, p, V)
    PROVE  Trae(Reemplazar(y, p, b.fallos[j]), j, b, s, p, V)
  <1>1. PICK pag, z : pag = b.fallos[j] /\ z = Reemplazar(y, p, pag)  OBVIOUS
  <1>2. PICK h : h = Toca(s, p, Tocadas(b, j - 1))  OBVIOUS
  <1>3. /\ y \in Rectos /\ y.marcos = b.marcos /\ y.aciertos = b.aciertos /\ y.fallos = b.fallos
        /\ Buena(y.tlb, h) /\ Tenidas(h) = Tenidas(s) \cup {<<p, b.fallos[i]>> : i \in 1..j - 1}
        /\ Vigentes(y.tlb, V)
    BY <1>2 DEF Trae
  <1>4. PICK n \in Nat : n = Len(b.fallos)
    <2>1. b.fallos \in Seq(Nat)  BY DEF Rectos, Estados
    <2>2. QED  BY <2>1
  <1>5. EnTabla(p, pag) /\ <<p, pag>> \notin Tenidas(s)  BY <1>1 DEF Busca
  <1>6. \A i \in 1..n : b.fallos[i] = pag => i = j  BY <1>1, <1>4 DEF Busca
  <1>7. <<p, pag>> \notin Tenidas(h)
    <2>1. \A i \in 1..j - 1 : b.fallos[i] # pag
      <3>1. \A i \in 1..j - 1 : i \in 1..n /\ i # j  BY <1>4
      <3>2. QED  BY <1>6, <3>1
    <2>2. QED  BY <1>3, <1>5, <2>1
  <1>8. Buena(z.tlb, AlFinal(h, <<p, pag>>)) /\ Tenidas(AlFinal(h, <<p, pag>>)) = Tenidas(h) \cup {<<p, pag>>}
    BY <1>1, <1>3, <1>5, <1>7, Falta
  <1>9. AlFinal(h, <<p, pag>>) = Toca(s, p, Tocadas(b, j))
    <2>1. Tocadas(b, j - 1) \in Seq(Nat) /\ Tocadas(b, j) = Append(Tocadas(b, j - 1), pag)
      BY <1>1, TocadasUna
    <2>2. pag \in Nat  BY <1>5 DEF EnTabla
    <2>3. QED  BY <1>2, <2>1, <2>2, TocaUna
  <1>10. {<<p, b.fallos[i]>> : i \in 1..j} = {<<p, b.fallos[i]>> : i \in 1..j - 1} \cup {<<p, pag>>}
    <2>1. \A i : i \in 1..j <=> i \in 1..j - 1 \/ i = j  BY <1>4
    <2>2. QED  BY <1>1, <2>1
  <1>11. z \in Rectos  BY <1>1, <1>3, <1>5, ReemplazarRecto
  <1>12. /\ Vigentes(z.tlb, V) /\ z.marcos = y.marcos /\ z.aciertos = y.aciertos /\ z.fallos = y.fallos
    BY <1>1, <1>3, <1>5, VigentesReemplazar, SMTT(40)
  <1>13. Tenidas(Toca(s, p, Tocadas(b, j))) = Tenidas(s) \cup {<<p, b.fallos[i]>> : i \in 1..j}
    BY <1>3, <1>8, <1>9, <1>10
  <1>14. Trae(z, j, b, s, p, V)  BY <1>3, <1>8, <1>9, <1>11, <1>12, <1>13 DEF Trae
  <1>15. QED  BY <1>1, <1>14

\* The history is cut to the entries that there may be, and those are the ones it matches.
LEMMA UltimosEs ==
    ASSUME TypeOK, NEW t, NEW s, Buena(t, s)
    PROVE  Buena(t, Ultimos(s)) /\ Len(Ultimos(s)) = Len(t)
  <1>1. PICK f : Coloca(f, t, s)  BY DEF Buena
  <1>2. /\ s \in Historias /\ SinIguales(s) /\ Len(t) = Minimo(Len(s), CantEntradas)
        /\ CantEntradas \in Nat /\ Len(t) \in Nat /\ Len(s) \in Nat /\ Len(t) <= CantEntradas
    BY NoSobra, Configurada DEF Buena, Limpias
  <1>3. PICK n \in Nat, m \in Nat : n = Len(s) /\ m = Len(t)  BY <1>2
  <1>4. m <= n /\ m <= CantEntradas  BY <1>2, <1>3 DEF Minimo
  <1>5. PICK o \in Nat : o = n - m  BY <1>4
  <1>6. PICK z : z = Ultimos(s)  OBVIOUS
  <1>7. z = SubSeq(s, o + 1, n)  BY <1>2, <1>3, <1>5, <1>6 DEF Ultimos
  <1>8. /\ z \in Historias /\ Len(z) = m /\ \A i \in 1..m : z[i] = s[o + i]
    <2>1. \A i \in o + 1..n : i \in 1..Len(s)  BY <1>3
    <2>2. \A i \in o + 1..n : s[i] \in Pids \X Nat  BY <1>2, <2>1, ElementOfSeq DEF Historias
    <2>3. o + 1 \in Int /\ n \in Int  OBVIOUS
    <2>4. /\ SubSeq(s, o + 1, n) \in Seq(Pids \X Nat)
          /\ Len(SubSeq(s, o + 1, n)) = IF o + 1 <= n THEN n - (o + 1) + 1 ELSE 0
          /\ \A i \in 1..n - (o + 1) + 1 : SubSeq(s, o + 1, n)[i] = s[(o + 1) + i - 1]
      BY <2>2, <2>3, SubSeqProperties
    <2>5. n - (o + 1) + 1 = m /\ (IF o + 1 <= n THEN m ELSE 0) = m  BY <1>4, <1>5
    <2>6. \A i \in 1..m : (o + 1) + i - 1 = o + i  OBVIOUS
    <2>7. QED  BY <1>7, <2>4, <2>5, <2>6 DEF Historias
  <1>9. z \in Limpias
    <2>1. ASSUME NEW i \in 1..m, NEW j \in 1..m, z[i] = z[j] PROVE i = j
      <3>1. o + i \in 1..n /\ o + j \in 1..n  BY <1>4, <1>5
      <3>2. s[o + i] = s[o + j]  BY <1>8, <2>1
      <3>3. o + i = o + j  BY <1>2, <1>3, <3>1, <3>2 DEF SinIguales
      <3>4. QED  BY <3>3
    <2>2. QED  BY <1>8, <2>1 DEF Limpias, SinIguales
  <1>10. Posiciones(t, s) = o + 1..n /\ Posiciones(t, z) = 1..m
    <2>1. m - m + 1 = 1  OBVIOUS
    <2>2. QED  BY <1>3, <1>5, <1>8, <2>1 DEF Posiciones
  <1>11. /\ f \in [1..m -> o + 1..n] /\ \A j \in 1..m : s[f[j]] = Pag(t[j])
         /\ \A k \in o + 1..n : \E j \in 1..m : f[j] = k
         /\ \A j, k \in 1..m : Antes(t, j, k) => f[j] < f[k]
    BY <1>1, <1>3, <1>10 DEF Coloca
  <1>12. PICK h : h = [j \in 1..m |-> f[j] - o]  OBVIOUS
  <1>13. \A j \in 1..m : f[j] \in o + 1..n /\ f[j] - o \in 1..m /\ o + (f[j] - o) = f[j]
    <2>1. ASSUME NEW j \in 1..m PROVE f[j] \in o + 1..n /\ f[j] - o \in 1..m /\ o + (f[j] - o) = f[j]
      <3>1. f[j] \in o + 1..n  BY <1>11
      <3>2. QED  BY <1>4, <1>5, <3>1
    <2>2. QED  BY <2>1
  <1>14. h \in [1..m -> 1..m] /\ \A j \in 1..m : h[j] = f[j] - o  BY <1>12, <1>13
  <1>15. ASSUME NEW j \in 1..m PROVE z[h[j]] = Pag(t[j])
    <2>1. PICK x \in 1..m : x = h[j] /\ o + x = f[j]  BY <1>13, <1>14
    <2>2. z[x] = s[o + x] /\ s[f[j]] = Pag(t[j])  BY <1>8, <1>11
    <2>3. QED  BY <2>1, <2>2
  <1>16. ASSUME NEW k \in 1..m PROVE \E j \in 1..m : h[j] = k
    <2>1. o + k \in o + 1..n /\ (o + k) - o = k  BY <1>4, <1>5
    <2>2. PICK j \in 1..m : f[j] = o + k  BY <1>11, <2>1
    <2>3. QED  BY <1>14, <2>1, <2>2
  <1>17. ASSUME NEW j \in 1..m, NEW k \in 1..m, Antes(t, j, k) PROVE h[j] < h[k]
    <2>1. PICK x \in Int, w \in Int : x = f[j] /\ w = f[k]  BY <1>13
    <2>2. x < w  BY <1>11, <1>17, <2>1
    <2>3. h[j] = x - o /\ h[k] = w - o  BY <1>14, <2>1
    <2>4. x - o < w - o  BY <2>2
    <2>5. QED  BY <2>3, <2>4
  <1>18. Coloca(h, t, z)  BY <1>3, <1>10, <1>14, <1>15, <1>16, <1>17 DEF Coloca
  <1>19. Len(t) = Minimo(Len(z), CantEntradas)  BY <1>2, <1>3, <1>4, <1>8 DEF Minimo
  <1>20. QED  BY <1>3, <1>6, <1>8, <1>9, <1>18, <1>19 DEF Buena

\* What a translation y leaves, b being its search.
Traducido(y, b, s, p, dl, n, V) ==
    /\ Sana(y.tlb, y.reloj, Usadas(s, p, y), V)
    /\ y.marcos = b.marcos /\ b.marcos \in Seq(Marcos) /\ Len(b.marcos) = CantPaginas(dl, n)
    /\ (p \in V => \A i \in 1..Len(b.marcos) : b.marcos[i] = tabla[p][dl \div TamPagina + i])

\* A translation leaves the TLB as its algorithm should, and the frames are those of the table.
LEMMA Traduce ==
    ASSUME TypeOK, NEW p \in Pids, NEW t, NEW r, NEW s, NEW V, Sana(t, r, s, V),
           NEW dl \in Nat, NEW n \in Nat, Tiene(p, dl, n),
           NEW y, y = Traducida(Inicio(t, r), p, dl, n), NEW b, b = Buscada(Inicio(t, r), p, dl, n)
    PROVE  Traducido(y, b, s, p, dl, n, V)
  <1>1. PICK m \in Nat : /\ m = CantPaginas(dl, n)
                         /\ \A k \in 1..m : EnTabla(p, dl \div TamPagina + k - 1)
    BY Paginacion
  <1>2. PICK q \in Nat : q = dl \div TamPagina  BY PaginaDe
  <1>3. Busca(b, m, s, p, q, V)  BY <1>1, <1>2, BuscaTodo
  <1>4. b \in Rectos  BY <1>3 DEF Busca
  <1>5. s \in Limpias  BY DEF Sana, Buena
  <1>6. b.fallos \in Seq(Nat) /\ b.aciertos \in Seq(Nat) /\ b.marcos \in Seq(Marcos)
    BY <1>4 DEF Rectos, Estados
  <1>7. PICK f \in Nat : f = Len(b.fallos)  BY <1>6
  <1>8. PICK c \in Trazas(f) :
            /\ c[0] = b /\ y = c[f]
            /\ \A k \in 1..f : c[k] = Reemplazar(c[k - 1], p, b.fallos[k])
    <2>1. b \in Rectos /\ b = Buscada(Inicio(t, r), p, dl, n)
          /\ \A k \in 1..Len(b.fallos) : EnTabla(p, b.fallos[k])
      BY <1>3, <1>4 DEF Busca
    <2>2. \E c \in Trazas(Len(b.fallos)) :
               /\ c[0] = b /\ Traducida(Inicio(t, r), p, dl, n) = c[Len(b.fallos)]
               /\ \A k \in 1..Len(b.fallos) : c[k] = Reemplazar(c[k - 1], p, b.fallos[k])
      BY <2>1, TraducidaEs
    <2>3. QED  BY <1>7, <2>2
  <1> DEFINE A == {k \in 0..f : Trae(c[k], k, b, s, p, V)}
  <1>9. Trae(b, 0, b, s, p, V)
    <2>1. Tocadas(b, 0) = Base(b)  BY <1>4, TocadasUna
    <2>2. Toca(s, p, Base(b)) = Hist(s, p, b.aciertos)
      <3>1. CASE Algoritmo = "LRU"  BY <3>1 DEF Base, Hist
      <3>2. CASE Algoritmo # "LRU"
        <4>1. Base(b) = <<>> /\ Hist(s, p, b.aciertos) = s  BY <3>2 DEF Base, Hist
        <4>2. QED  BY <1>5, <4>1, TocaVacia
      <3>3. QED  BY <3>1, <3>2
    <2>3. {<<p, b.fallos[i]>> : i \in 1..0} = {}  OBVIOUS
    <2>4. /\ Buena(b.tlb, Hist(s, p, b.aciertos)) /\ Tenidas(Hist(s, p, b.aciertos)) = Tenidas(s)
          /\ Vigentes(b.tlb, V)
      BY <1>3 DEF Busca
    <2>5. QED  BY <1>4, <2>1, <2>2, <2>3, <2>4 DEF Trae
  <1>10. 0 \in A  BY <1>8, <1>9
  <1>11. ASSUME NEW k \in 0..f - 1, k \in A PROVE k + 1 \in A
    <2>1. PICK j \in 1..f : j = k + 1 /\ j - 1 = k  OBVIOUS
    <2>2. Trae(c[j - 1], j - 1, b, s, p, V)  BY <1>11, <2>1
    <2>3. Trae(Reemplazar(c[j - 1], p, b.fallos[j]), j, b, s, p, V)
      BY <1>3, <1>4, <1>5, <1>7, <2>2, TraePaso
    <2>4. QED  BY <1>8, <2>1, <2>3
  <1> HIDE DEF A
  <1>12. \A k \in 0..f : k \in A  BY <1>10, <1>11, HastaN
  <1>13. Trae(y, f, b, s, p, V)  BY <1>8, <1>12 DEF A
  <1>14. PICK h : h = Toca(s, p, Tocadas(b, f))  OBVIOUS
  <1>15. /\ y \in Rectos /\ y.marcos = b.marcos /\ y.aciertos = b.aciertos /\ y.fallos = b.fallos
         /\ Buena(y.tlb, h) /\ Vigentes(y.tlb, V)
    BY <1>13, <1>14 DEF Trae
  <1>16. Usadas(s, p, y) = Ultimos(h)
    <2>1. Tocadas(b, f) = IF Algoritmo = "LRU" THEN y.aciertos \o y.fallos ELSE y.fallos
      <3>1. Tocadas(b, f) = Base(b) \o b.fallos  BY <1>4, <1>7, TocadasUna
      <3>2. CASE Algoritmo = "LRU"  BY <1>15, <3>1, <3>2 DEF Base
      <3>3. CASE Algoritmo # "LRU"
        <4>1. <<>> \o b.fallos = b.fallos  BY <1>6, ConcatEmptySeq
        <4>2. QED  BY <1>15, <3>1, <3>3, <4>1 DEF Base
      <3>4. QED  BY <3>2, <3>3
    <2>2. QED  BY <1>14, <2>1 DEF Usadas, Toca
  <1>17. Buena(y.tlb, Ultimos(h)) /\ Len(Ultimos(h)) = Len(y.tlb)  BY <1>15, UltimosEs
  <1>18. y.tlb \in Seq(Entradas) /\ y.reloj \in Nat /\ Distintas(y.tlb)
         /\ \A i \in 1..Len(y.tlb) : y.tlb[i].acceso < y.reloj
    BY <1>15 DEF Rectos, Estados
  <1>19. Sana(y.tlb, y.reloj, Usadas(s, p, y), V)  BY <1>15, <1>16, <1>17, <1>18 DEF Sana
  <1>20. Len(b.marcos) = m /\ (p \in V => \A i \in 1..m : b.marcos[i] = tabla[p][q + i])  BY <1>3 DEF Busca
  <1>21. QED  BY <1>1, <1>2, <1>6, <1>15, <1>19, <1>20 DEF Traducido

-----------------------------------------------------------------------------
(* The physical addresses of an access *)

\* What each page adds to the addresses.
Agrega(marcos, desp, x, i) ==
    LET desde == IF i = 1 THEN desp ELSE 0
        cuanto == Minimo(x.resta, TamPagina - desde)
    IN  [resta |-> x.resta - cuanto,
         dirs |-> x.dirs \o [j \in 1..cuanto |-> marcos[i] * TamPagina + desde + j - 1]]

Sumas == [resta : Int, dirs : Seq(Direcciones)]
Trazos(m) == [0..m -> Sumas]

\* An address of a frame.
LEMMA DireccionDe ==
    ASSUME NEW f \in Marcos, NEW r \in 0..TamPagina - 1
    PROVE  f * TamPagina + r \in Direcciones
  <1>1. TamPagina \in Nat \ {0} /\ CantMarcos \in Nat \ {0}  BY Constantes
  <1>2. f \in Nat /\ f < CantMarcos  BY <1>1 DEF Marcos
  <1>3. /\ TamPagina * f + TamPagina <= TamPagina * CantMarcos /\ TamPagina * f = f * TamPagina
        /\ TamPagina * CantMarcos = CantMarcos * TamPagina
        /\ TamPagina * f \in Int /\ TamPagina * CantMarcos \in Int
    BY <1>1, <1>2, PorPaginas
  <1>4. TamPagina * f >= 0
    <2>1. TamPagina * 0 <= TamPagina * f /\ TamPagina * 0 = 0  BY <1>1, <1>2, PorPaginas
    <2>2. QED  BY <2>1
  <1>5. PICK x \in Int, y \in Int, z \in Nat : x = f * TamPagina /\ y = CantMarcos * TamPagina /\ z = TamPagina
    BY <1>1, <1>3
  <1>6. x >= 0 /\ x + z <= y /\ r \in 0..z - 1  BY <1>3, <1>4, <1>5
  <1>7. x + r \in 0..y - 1  BY <1>5, <1>6
  <1>8. QED  BY <1>5, <1>7 DEF Direcciones

\* What y has after x: the bytes of frame f from desde.
Agregada(y, x, f, desde, cuanto) ==
    /\ Len(y.dirs) = Len(x.dirs) + cuanto
    /\ \A j \in 1..Len(x.dirs) : y.dirs[j] = x.dirs[j]
    /\ \A j \in 1..cuanto : y.dirs[Len(x.dirs) + j] = f * TamPagina + (desde + j - 1)

\* The bytes that a page adds.
LEMMA AgregaEs ==
    ASSUME NEW marcos \in Seq(Marcos), NEW desp \in 0..TamPagina - 1, NEW x \in Sumas,
           NEW i \in 1..Len(marcos), NEW y, y = Agrega(marcos, desp, x, i),
           NEW desde, desde = IF i = 1 THEN desp ELSE 0,
           NEW cuanto, cuanto = Minimo(x.resta, TamPagina - desde)
    PROVE  /\ y \in Sumas /\ y.resta = x.resta - cuanto /\ cuanto \in Int
           /\ (cuanto >= 0 => Agregada(y, x, marcos[i], desde, cuanto))
  <1>1. TamPagina \in Nat \ {0}  BY Constantes
  <1>2. x.resta \in Int /\ x.dirs \in Seq(Direcciones)  BY DEF Sumas
  <1>3. desde \in 0..TamPagina - 1 /\ marcos[i] \in Marcos  BY <1>1, ElementOfSeq
  <1>4. cuanto \in Int /\ cuanto <= TamPagina - desde  BY <1>1, <1>2, <1>3 DEF Minimo
  <1>5. PICK f \in Marcos : f = marcos[i]  BY <1>3
  <1>6. PICK u : u = [j \in 1..cuanto |-> f * TamPagina + desde + j - 1]  OBVIOUS
  <1>7. y = [resta |-> x.resta - cuanto, dirs |-> x.dirs \o u]  BY <1>5, <1>6 DEF Agrega
  <1>8. f \in Int /\ f * TamPagina \in Int  BY <1>1, <1>5 DEF Marcos, Constantes
  <1>9. \A j \in 1..cuanto : /\ u[j] = f * TamPagina + (desde + j - 1) /\ u[j] \in Direcciones
    <2>1. ASSUME NEW j \in 1..cuanto PROVE u[j] = f * TamPagina + (desde + j - 1) /\ u[j] \in Direcciones
      <3>1. PICK r \in 0..TamPagina - 1 : r = desde + j - 1  BY <1>1, <1>3, <1>4
      <3>2. u[j] = f * TamPagina + desde + j - 1  BY <1>6
      <3>3. PICK a \in Int : a = f * TamPagina  BY <1>8
      <3>4. a + desde + j - 1 = a + (desde + j - 1)  BY <1>1, <1>3
      <3>5. u[j] = f * TamPagina + (desde + j - 1)  BY <3>2, <3>3, <3>4
      <3>6. f * TamPagina + r \in Direcciones  BY DireccionDe
      <3>7. QED  BY <3>1, <3>5, <3>6
    <2>2. QED  BY <2>1
  <1>10. u \in Seq(Direcciones) /\ (cuanto >= 0 => Len(u) = cuanto)
    <2>1. CASE cuanto >= 0
      <3>1. PICK c \in Nat : c = cuanto  BY <1>4, <2>1
      <3>2. u = [j \in 1..c |-> u[j]]  BY <1>6, <3>1
      <3>3. \A j \in 1..c : u[j] \in Direcciones  BY <1>9, <3>1
      <3>4. u \in [1..c -> Direcciones]  BY <3>2, <3>3
      <3>5. QED  BY <3>1, <3>4
    <2>2. CASE ~(cuanto >= 0)
      <3>1. 1..cuanto = {}  BY <1>4, <2>2
      <3>2. u = <<>>  BY <1>6, <3>1
      <3>3. QED  BY <2>2, <3>2
    <2>3. QED  BY <2>1, <2>2
  <1>11. PICK v : v = x.dirs /\ v \in Seq(Direcciones)  BY <1>2
  <1>12. /\ v \o u \in Seq(Direcciones) /\ Len(v \o u) = Len(v) + Len(u)
         /\ \A j \in 1..Len(v) + Len(u) : (v \o u)[j] = IF j <= Len(v) THEN v[j] ELSE u[j - Len(v)]
    BY <1>10, <1>11, ConcatProperties
  <1>13. y.resta = x.resta - cuanto /\ y.dirs = v \o u  BY <1>7, <1>11
  <1>14. y \in Sumas  BY <1>2, <1>4, <1>7, <1>11, <1>12 DEF Sumas
  <1>15. ASSUME cuanto >= 0
         PROVE  /\ Len(y.dirs) = Len(v) + cuanto
                /\ \A j \in 1..Len(v) : y.dirs[j] = v[j]
                /\ \A j \in 1..cuanto : y.dirs[Len(v) + j] = f * TamPagina + (desde + j - 1)
    <2>6. PICK z : z = v \o u  OBVIOUS
    <2>7. Len(v) \in Nat /\ cuanto \in Nat  BY <1>4, <1>11, <1>15
    <2>1. PICK l \in Nat, c \in Nat : l = Len(v) /\ c = cuanto  BY <2>7
    <2>2. /\ Len(z) = l + c /\ \A j \in 1..l + c : z[j] = IF j <= l THEN v[j] ELSE u[j - l]
      BY <1>10, <1>12, <1>15, <2>1, <2>6
    <2>3. ASSUME NEW j \in 1..c PROVE z[l + j] = u[j]
      <3>1. l + j \in 1..l + c /\ ~(l + j <= l) /\ (l + j) - l = j  OBVIOUS
      <3>2. QED  BY <2>2, <3>1
    <2>4. \A j \in 1..l : j \in 1..l + c /\ j <= l  OBVIOUS
    <2>5. QED  BY <1>9, <1>13, <2>1, <2>2, <2>3, <2>4, <2>6
  <1>16. cuanto >= 0 => Agregada(y, x, marcos[i], desde, cuanto)  BY <1>5, <1>11, <1>15 DEF Agregada
  <1>17. QED  BY <1>4, <1>13, <1>14, <1>16

\* The pages of an access, one after another.
LEMMA FisicasEs ==
    ASSUME NEW marcos \in Seq(Marcos), NEW dl \in Nat, NEW n \in Nat, NEW m \in Nat, m = Len(marcos)
    PROVE  \E c \in Trazos(m) :
               /\ c[0] = [resta |-> n, dirs |-> <<>>] /\ Fisicas(marcos, dl, n) = c[m].dirs
               /\ \A k \in 1..m : c[k] = Agrega(marcos, dl % TamPagina, c[k - 1], k)
  <1> DEFINE desp == dl % TamPagina
             ini == [resta |-> n, dirs |-> <<>>]
             pags == [i \in DOMAIN marcos |-> i]
             Paso(x, k) ==
                LET desde == IF pags[k] = 1 THEN desp ELSE 0
                    cuanto == Minimo(x.resta, TamPagina - desde)
                IN  [resta |-> x.resta - cuanto,
                     dirs |-> x.dirs \o [j \in 1..cuanto |-> marcos[pags[k]] * TamPagina + desde + j - 1]]
             Ec(t) == t = [s \in SUBSET (1..m) |-> IF s = {} THEN ini ELSE Paso(t[s \ {Max(s)}], Max(s))]
             t0 == CHOOSE t : Ec(t)
             g == [k \in 1..m |-> [x \in Sumas |-> Agrega(marcos, desp, x, k)]]
  <1>0. DOMAIN marcos = 1..m /\ DOMAIN pags = 1..m /\ \A k \in 1..m : pags[k] = k  OBVIOUS
  <1>1. Fisicas(marcos, dl, n) = t0[1..m].dirs
    <2>1. DOMAIN pags = 1..m  BY <1>0
    <2> HIDE DEF pags, ini
    <2>2. QED  BY <2>1 DEF Fisicas, FoldLeft, MapThenFoldSet, pags, ini
  <1>2. ini \in Sumas
    <2>1. <<>> \in Seq(Direcciones)  OBVIOUS
    <2>2. QED  BY <2>1 DEF Sumas
  <1>3. ASSUME NEW k \in 1..m, NEW x \in Sumas
        PROVE  Paso(x, k) = Agrega(marcos, desp, x, k) /\ Agrega(marcos, desp, x, k) \in Sumas
    <2>1. pags[k] = k  BY <1>0
    <2>2. Paso(x, k) = Agrega(marcos, desp, x, k)
      <3> HIDE DEF pags, desp
      <3>1. QED  BY <2>1 DEF Agrega
    <2>3. desp \in 0..TamPagina - 1  BY PaginaDe
    <2> HIDE DEF desp, Paso
    <2>4. Agrega(marcos, desp, x, k) \in Sumas  BY <2>3, AgregaEs
    <2>5. QED  BY <2>2, <2>4
  <1> HIDE DEF pags, Paso, ini, desp
  <1>4. g \in Pasos(m, Sumas)
    <2>1. g \in [1..m -> [Sumas -> Sumas]]  BY <1>3
    <2>2. QED  BY <2>1 DEF Pasos
  <1>5. PICK a : EsPliegue(a, g, ini, m)  BY PliegueExiste
  <1>6. /\ a[1..0] = ini /\ \A k \in 0..m : a[1..k] \in Sumas
        /\ \A k \in 1..m : a[1..k] = g[k][a[1..k - 1]]
    <2> HIDE DEF g
    <2> QED  BY <1>2, <1>4, <1>5, PliegueTraza
  <1>7. \A s \in SUBSET (1..m) : a[s] \in Sumas
    <2>1. g \in [1..m -> [Sumas -> Sumas]]  BY <1>4 DEF Pasos
    <2> HIDE DEF g
    <2>2. QED  BY <1>2, <1>5, <2>1, PliegueTipo
  <1>8. ASSUME NEW s \in SUBSET (1..m), s # {}
        PROVE  g[Max(s)][a[s \ {Max(s)}]] = Paso(a[s \ {Max(s)}], Max(s))
    <2>1. Max(s) \in 1..m /\ a[s \ {Max(s)}] \in Sumas  BY <1>7, <1>8, MaxDe, SinMax
    <2>2. QED  BY <1>3, <2>1
  <1>9. Ec(a)
    <2> HIDE DEF g
    <2> QED  BY <1>5, <1>8 DEF EsPliegue
  <1> HIDE DEF g
  <1>10. Ec(t0)
    <2> HIDE DEF Ec
    <2> QED  BY <1>9
  <1>11. t0[1..0] = ini /\ \A k \in 1..m : t0[1..k] = Paso(t0[1..k - 1], k)
    <2>1. \A s \in SUBSET (1..m) : t0[s] = IF s = {} THEN ini ELSE Paso(t0[s \ {Max(s)}], Max(s))
      <3> HIDE DEF t0
      <3> QED  BY <1>10
    <2> HIDE DEF t0
    <2>2. t0[1..0] = ini  BY <2>1, Tramos
    <2>3. ASSUME NEW k \in 1..m PROVE t0[1..k] = Paso(t0[1..k - 1], k)
      <3>1. PICK s : s = 1..k  OBVIOUS
      <3>2. s \in SUBSET (1..m) /\ s # {} /\ Max(s) = k /\ s \ {k} = 1..k - 1  BY <3>1, Tramos
      <3>3. t0[s] = Paso(t0[s \ {Max(s)}], Max(s))  BY <2>1, <3>2
      <3>4. QED  BY <3>1, <3>2, <3>3
    <2>4. QED  BY <2>2, <2>3
  <1> HIDE DEF t0
  <1> DEFINE A == {k \in 0..m : t0[1..k] \in Sumas}
  <1>12. \A k \in 0..m : t0[1..k] \in Sumas
    <2>1. 0 \in A  BY <1>2, <1>11
    <2>2. ASSUME NEW k \in 0..m - 1, k \in A PROVE k + 1 \in A
      <3>1. PICK j \in 1..m : j = k + 1 /\ j - 1 = k  OBVIOUS
      <3>2. t0[1..j - 1] \in Sumas  BY <2>2, <3>1
      <3>3. Paso(t0[1..j - 1], j) \in Sumas  BY <1>3, <3>2
      <3>4. t0[1..j] \in Sumas  BY <1>11, <3>3
      <3>5. QED  BY <3>1, <3>4
    <2> HIDE DEF A
    <2>3. \A k \in 0..m : k \in A  BY <2>1, <2>2, HastaN
    <2>4. QED  BY <2>3 DEF A
  <1> DEFINE c == [k \in 0..m |-> t0[1..k]]
  <1>13. c \in Trazos(m)  BY <1>12 DEF Trazos
  <1>14. \A k \in 0..m : c[k] = t0[1..k]  OBVIOUS
  <1> HIDE DEF c
  <1>15. c[0] = ini /\ c[m] = t0[1..m]  BY <1>11, <1>14
  <1>16. ASSUME NEW k \in 1..m PROVE c[k] = Agrega(marcos, desp, c[k - 1], k)
    <2>1. c[k] = t0[1..k] /\ c[k - 1] = t0[1..k - 1] /\ t0[1..k - 1] \in Sumas  BY <1>12, <1>14
    <2>2. QED  BY <1>3, <1>11, <2>1
  <1>17. QED  BY <1>1, <1>13, <1>15, <1>16 DEF ini, desp

\* The bytes that the first k pages of an access hold.
Cubiertos(n, desp, k) == IF k = 0 THEN 0 ELSE Minimo(n, TamPagina * k - desp)

\* The addresses after k pages.
Sumada(x, marcos, desp, n, k) ==
    /\ x \in Sumas /\ x.resta = n - Len(x.dirs) /\ Len(x.dirs) = Cubiertos(n, desp, k)
    /\ \A j \in 1..Len(x.dirs) :
           /\ (desp + j - 1) \div TamPagina + 1 \in 1..k
           /\ x.dirs[j] = marcos[(desp + j - 1) \div TamPagina + 1] * TamPagina + ((desp + j - 1) % TamPagina)

\* One more page.
LEMMA SumadaPaso ==
    ASSUME NEW marcos \in Seq(Marcos), NEW desp \in 0..TamPagina - 1, NEW n \in Nat, NEW k \in 1..Len(marcos),
           NEW x, Sumada(x, marcos, desp, n, k - 1)
    PROVE  Sumada(Agrega(marcos, desp, x, k), marcos, desp, n, k)
  <1>1. PICK T \in Nat \ {0} : T = TamPagina  BY Constantes
  <1>2. PICK y : y = Agrega(marcos, desp, x, k)  OBVIOUS
  <1>3. PICK desde : desde = IF k = 1 THEN desp ELSE 0  OBVIOUS
  <1>4. PICK cuanto : cuanto = Minimo(x.resta, TamPagina - desde)  OBVIOUS
  <1>5. x \in Sumas /\ x.resta = n - Len(x.dirs) /\ Len(x.dirs) = Cubiertos(n, desp, k - 1)  BY DEF Sumada
  <1>6. PICK l \in Nat : l = Len(x.dirs)  BY <1>5 DEF Sumas
  <1>7. desp \in 0..T - 1 /\ k \in Nat \ {0}  BY <1>1
  <1>8. desde \in 0..T - 1  BY <1>1, <1>3, <1>7
  <1>9. PICK a \in Int, b \in Int : a = TamPagina * (k - 1) /\ b = TamPagina * k /\ b = a + T
    <2>1. k - 1 \in Int /\ k \in Int /\ (k - 1) + 1 = k  BY <1>7
    <2>2. TamPagina * (k - 1) \in Int /\ TamPagina * k \in Int  BY <2>1, PorPaginas
    <2>3. TamPagina * ((k - 1) + 1) = TamPagina * (k - 1) + TamPagina  BY <2>1, PorPaginas
    <2>4. QED  BY <1>1, <2>1, <2>2, <2>3
  <1>10. k = 1 => a = 0
    <2>1. TamPagina * 0 = 0  BY <1>1
    <2>2. QED  BY <1>9, <2>1
  <1>11. k # 1 => a >= T
    <2>1. k # 1 => 0 < k - 1  BY <1>7
    <2>2. 0 < k - 1 => TamPagina * 0 + TamPagina <= TamPagina * (k - 1)  BY <1>7, PorPaginas
    <2>3. TamPagina * 0 = 0  BY <1>1
    <2>4. QED  BY <1>1, <1>9, <2>1, <2>2, <2>3
  <1>12. cuanto = IF n - l < T - desde THEN n - l ELSE T - desde  BY <1>1, <1>4, <1>5, <1>6 DEF Minimo
  <1>13. l = IF k = 1 THEN 0 ELSE IF n < a - desp THEN n ELSE a - desp
    <2>1. CASE k = 1  BY <1>5, <1>6, <2>1 DEF Cubiertos
    <2>2. CASE k # 1
      <3>1. k - 1 # 0  BY <1>7, <2>2
      <3>2. l = Minimo(n, a - desp)  BY <1>5, <1>6, <1>9, <3>1 DEF Cubiertos
      <3>3. QED  BY <2>2, <3>2 DEF Minimo
    <2>3. QED  BY <2>1, <2>2
  <1>14. cuanto \in Nat /\ l + cuanto = (IF n < b - desp THEN n ELSE b - desp)
    <2>1. CASE k = 1  BY <1>3, <1>7, <1>9, <1>10, <1>12, <1>13, <2>1
    <2>2. CASE k # 1
      <3>1. /\ desp \in 0..T - 1 /\ a >= T /\ b = a + T /\ T > 0
            /\ cuanto = (IF n - l < T THEN n - l ELSE T) /\ l = (IF n < a - desp THEN n ELSE a - desp)
        <4>1. desde = 0 /\ T - 0 = T  BY <1>3, <2>2
        <4>2. QED  BY <1>7, <1>9, <1>11, <1>12, <1>13, <2>2, <4>1
      <3>2. CASE n < a - desp  BY <3>1, <3>2
      <3>3. CASE ~(n < a - desp)
        <4>1. l = a - desp  BY <3>1, <3>3
        <4>2. CASE n - l < T  BY <3>1, <4>1, <4>2
        <4>3. CASE ~(n - l < T)  BY <3>1, <4>1, <4>3
        <4>4. QED  BY <4>2, <4>3
      <3>4. QED  BY <3>2, <3>3
    <2>3. QED  BY <2>1, <2>2
  <1>15. l + cuanto = Cubiertos(n, desp, k)  BY <1>7, <1>9, <1>14 DEF Cubiertos, Minimo
  <1>16. /\ y \in Sumas /\ y.resta = x.resta - cuanto
         /\ Len(y.dirs) = l + cuanto /\ \A j \in 1..l : y.dirs[j] = x.dirs[j]
         /\ \A j \in 1..cuanto : y.dirs[l + j] = marcos[k] * TamPagina + (desde + j - 1)
    <2>1. cuanto >= 0  BY <1>14
    <2>2. /\ x \in Sumas /\ k \in 1..Len(marcos) /\ marcos \in Seq(Marcos) /\ desp \in 0..TamPagina - 1
          /\ y = Agrega(marcos, desp, x, k) /\ desde = (IF k = 1 THEN desp ELSE 0)
          /\ cuanto = Minimo(x.resta, TamPagina - desde)
      BY <1>2, <1>3, <1>4, <1>5
    <2>3. /\ y \in Sumas /\ y.resta = x.resta - cuanto /\ cuanto \in Int
          /\ (cuanto >= 0 => Agregada(y, x, marcos[k], desde, cuanto))
      BY <2>2, AgregaEs, SMTT(40)
    <2>4. QED  BY <1>6, <2>1, <2>3 DEF Agregada
  <1>17. y.resta = n - Len(y.dirs)
    <2>1. PICK c \in Nat : c = cuanto  BY <1>14
    <2>2. y.resta = (n - l) - c /\ Len(y.dirs) = l + c  BY <1>5, <1>6, <1>16, <2>1
    <2>3. QED  BY <2>2
  <1>18. ASSUME NEW j \in 1..l + cuanto
         PROVE  /\ (desp + j - 1) \div TamPagina + 1 \in 1..k
                /\ y.dirs[j] = marcos[(desp + j - 1) \div TamPagina + 1] * TamPagina + ((desp + j - 1) % TamPagina)
    <2>1. CASE j \in 1..l
      <3>1. /\ (desp + j - 1) \div TamPagina + 1 \in 1..k - 1
            /\ x.dirs[j] = marcos[(desp + j - 1) \div TamPagina + 1] * TamPagina + ((desp + j - 1) % TamPagina)
        BY <1>6, <2>1 DEF Sumada
      <3>2. 1..k - 1 \subseteq 1..k  BY <1>7
      <3>3. QED  BY <1>16, <2>1, <3>1, <3>2
    <2>2. CASE j \notin 1..l
      <3>1. PICK i \in 1..cuanto : i = j - l /\ l + i = j  BY <1>14, <2>2
      <3>2. l = IF k = 1 THEN 0 ELSE a - desp
        <4>1. cuanto > 0  BY <1>14, <3>1
        <4>2. k # 1 => ~(n < a - desp)  BY <1>3, <1>7, <1>12, <1>13, <4>1
        <4>3. QED  BY <1>13, <4>2
      <3>3. PICK r \in 0..T - 1 : r = desde + i - 1
        <4>1. cuanto <= T - desde  BY <1>7, <1>8, <1>12, <1>14
        <4>2. QED  BY <1>8, <1>14, <3>1, <4>1
      <3>4. desp + j - 1 = a + r  BY <1>3, <1>7, <1>10, <3>1, <3>2, <3>3
      <3>5. desp + j - 1 = TamPagina * (k - 1) + r /\ desp + j - 1 \in Nat
        BY <1>7, <1>9, <3>1, <3>4
      <3>6. k - 1 \in Int /\ r \in 0..TamPagina - 1  BY <1>1, <1>7
      <3>7. k - 1 = (desp + j - 1) \div TamPagina /\ r = (desp + j - 1) % TamPagina
        <4>1. PICK d \in Nat : d = desp + j - 1  BY <3>5
        <4>2. d = TamPagina * (k - 1) + r  BY <3>5, <4>1
        <4>3. k - 1 = d \div TamPagina /\ r = d % TamPagina  BY <3>6, <4>2, PaginaDe
        <4>4. QED  BY <4>1, <4>3
      <3>8. (k - 1) + 1 = k /\ k \in 1..k  BY <1>7
      <3>9. y.dirs[j] = marcos[k] * TamPagina + r  BY <1>16, <3>1, <3>3
      <3>10. QED  BY <3>7, <3>8, <3>9
    <2>3. QED  BY <2>1, <2>2
  <1>19. Sumada(y, marcos, desp, n, k)  BY <1>15, <1>16, <1>17, <1>18 DEF Sumada
  <1>20. QED  BY <1>2, <1>19

\* The addresses of n bytes from desp, page by page.
Seguidas(dirs, marcos, desp, n) ==
    \A j \in 1..n :
        /\ (desp + j - 1) \div TamPagina + 1 \in 1..Len(marcos)
        /\ dirs[j] = marcos[(desp + j - 1) \div TamPagina + 1] * TamPagina + ((desp + j - 1) % TamPagina)

\* The address of each byte of an access.
LEMMA FisicasSon ==
    ASSUME NEW marcos \in Seq(Marcos), NEW dl \in Nat, NEW n \in Nat,
           (dl % TamPagina) + n <= TamPagina * Len(marcos), NEW desp, desp = dl % TamPagina,
           NEW dirs, dirs = Fisicas(marcos, dl, n)
    PROVE  dirs \in Seq(Direcciones) /\ Len(dirs) = n /\ Seguidas(dirs, marcos, desp, n)
  <1>1. PICK m \in Nat : m = Len(marcos)  OBVIOUS
  <1>2. desp \in 0..TamPagina - 1  BY PaginaDe
  <1>3. PICK c \in Trazos(m) :
            /\ c[0] = [resta |-> n, dirs |-> <<>>] /\ dirs = c[m].dirs
            /\ \A k \in 1..m : c[k] = Agrega(marcos, desp, c[k - 1], k)
    BY <1>1, FisicasEs
  <1> DEFINE A == {k \in 0..m : Sumada(c[k], marcos, desp, n, k)}
  <1>4. 0 \in A
    <2>1. c[0].resta = n /\ c[0].dirs = <<>> /\ Len(<<>>) = 0  BY <1>3
    <2>2. c[0] \in Sumas  BY <1>3 DEF Trazos
    <2>3. QED  BY <2>1, <2>2 DEF Sumada, Cubiertos
  <1>5. ASSUME NEW k \in 0..m - 1, k \in A PROVE k + 1 \in A
    <2>1. PICK j \in 1..m : j = k + 1 /\ j - 1 = k  OBVIOUS
    <2>2. Sumada(c[j - 1], marcos, desp, n, j - 1)  BY <1>5, <2>1
    <2>3. Sumada(Agrega(marcos, desp, c[j - 1], j), marcos, desp, n, j)  BY <1>1, <1>2, <2>2, SumadaPaso
    <2>4. QED  BY <1>3, <2>1, <2>3
  <1> HIDE DEF A
  <1>6. \A k \in 0..m : k \in A  BY <1>4, <1>5, HastaN
  <1>7. Sumada(c[m], marcos, desp, n, m)  BY <1>6 DEF A
  <1>8. Cubiertos(n, desp, m) = n
    <2>1. PICK b \in Int : b = TamPagina * m  BY <1>1, Constantes
    <2>2. desp + n <= b /\ desp \in Nat  BY <1>1, <1>2, <2>1, Constantes
    <2>3. CASE m = 0
      <3>1. b = 0  BY <2>1, <2>3, Constantes
      <3>2. QED  BY <2>2, <2>3, <3>1 DEF Cubiertos
    <2>4. CASE m # 0
      <3>1. ~(b - desp < n)  BY <2>2
      <3>2. Minimo(n, b - desp) = n  BY <2>1, <2>2, <3>1 DEF Minimo
      <3>3. QED  BY <2>1, <2>4, <3>2 DEF Cubiertos
    <2>5. QED  BY <2>3, <2>4
  <1>9. /\ dirs \in Seq(Direcciones) /\ Len(dirs) = n
        /\ \A j \in 1..n :
               /\ (desp + j - 1) \div TamPagina + 1 \in 1..m
               /\ dirs[j] = marcos[(desp + j - 1) \div TamPagina + 1] * TamPagina + ((desp + j - 1) % TamPagina)
    BY <1>3, <1>7, <1>8 DEF Sumada, Sumas
  <1>10. QED  BY <1>1, <1>9 DEF Seguidas

\* Frames that are those of the table, and addresses that are those of the bytes.
Suyos(marcos, p, dl) == \A i \in 1..Len(marcos) : marcos[i] = tabla[p][dl \div TamPagina + i]
Ocupan(dirs, p, dl, n) == \A j \in 1..n : dirs[j] = Dir(p, dl + j - 1)

\* The address of each byte of an access whose frames are those of the table.
LEMMA Direcciona ==
    ASSUME TypeOK, NEW p \in Pids, NEW marcos \in Seq(Marcos), NEW dl \in Nat, NEW n \in Nat, Tiene(p, dl, n),
           Len(marcos) = CantPaginas(dl, n), NEW dirs, dirs = Fisicas(marcos, dl, n)
    PROVE  /\ dirs \in Seq(Direcciones) /\ Len(dirs) = n
           /\ (Suyos(marcos, p, dl) => Ocupan(dirs, p, dl, n))
  <1>1. (dl % TamPagina) + n <= TamPagina * Len(marcos)  BY Paginacion
  <1>2. PICK desp : desp = dl % TamPagina  OBVIOUS
  <1>3. /\ dirs \in Seq(Direcciones) /\ Len(dirs) = n
        /\ \A j \in 1..n :
               /\ (desp + j - 1) \div TamPagina + 1 \in 1..Len(marcos)
               /\ dirs[j] = marcos[(desp + j - 1) \div TamPagina + 1] * TamPagina + ((desp + j - 1) % TamPagina)
    <2>1. dirs \in Seq(Direcciones) /\ Len(dirs) = n /\ Seguidas(dirs, marcos, desp, n)
      BY <1>1, <1>2, FisicasSon
    <2>2. QED  BY <2>1 DEF Seguidas
  <1>4. ASSUME \A i \in 1..Len(marcos) : marcos[i] = tabla[p][dl \div TamPagina + i], NEW j \in 1..n
        PROVE  dirs[j] = Dir(p, dl + j - 1)
    <2>1. PICK q \in Nat, T \in Nat \ {0} : q = dl \div TamPagina /\ T = TamPagina  BY PaginaDe, Constantes
    <2>2. dl = TamPagina * q + desp /\ desp \in 0..TamPagina - 1  BY <1>2, <2>1, PaginaDe
    <2>3. PICK c \in Nat : c = desp + j - 1  BY <2>1, <2>2
    <2>4. PICK a \in Nat, r \in 0..TamPagina - 1 : a = c \div TamPagina /\ r = c % TamPagina  BY PaginaDe
    <2>5. c = TamPagina * a + r  BY <2>4, PaginaDe
    <2>6. PICK d \in Nat : d = dl + j - 1  OBVIOUS
    <2>7. d = TamPagina * (q + a) + r
      <3>1. TamPagina * (q + a) = TamPagina * q + TamPagina * a /\ TamPagina * q \in Int /\ TamPagina * a \in Int
        BY <2>1
      <3>2. PICK x \in Int, y \in Int : x = TamPagina * q /\ y = TamPagina * a  BY <3>1
      <3>3. d = (x + desp) + j - 1 /\ desp + j - 1 = y + r /\ desp \in Int /\ r \in Int
        BY <2>2, <2>3, <2>4, <2>5, <2>6, <2>1, <3>2
      <3>4. d = (x + y) + r  BY <3>3
      <3>5. QED  BY <3>1, <3>2, <3>4
    <2>8. q + a \in Int  OBVIOUS
    <2>9. q + a = d \div TamPagina /\ r = d % TamPagina  BY <2>4, <2>7, <2>8, PaginaDe
    <2>10. a + 1 \in 1..Len(marcos) /\ dirs[j] = marcos[a + 1] * TamPagina + r  BY <1>3, <2>3, <2>4
    <2>11. marcos[a + 1] = tabla[p][q + (a + 1)]  BY <1>4, <2>1, <2>10
    <2>12. q + (a + 1) = (q + a) + 1  OBVIOUS
    <2>13. dirs[j] = tabla[p][d \div TamPagina + 1] * TamPagina + (d % TamPagina)  BY <2>9, <2>10, <2>11, <2>12
    <2>14. QED  BY <2>6, <2>13 DEF Dir
  <1>5. Suyos(marcos, p, dl) => Ocupan(dirs, p, dl, n)  BY <1>4 DEF Suyos, Ocupan
  <1>6. QED  BY <1>3, <1>5

\* What is read.
LEMMA Lectura ==
    ASSUME TypeOK, NEW dirs \in Seq(Direcciones)
    PROVE  /\ Leer(dirs) \in Seq(Nat) /\ Len(Leer(dirs)) = Len(dirs)
           /\ \A j \in 1..Len(dirs) : Leer(dirs)[j] = fisica[dirs[j]]
  <1>1. PICK n \in Nat : n = Len(dirs) /\ DOMAIN dirs = 1..n  OBVIOUS
  <1>2. PICK u : u = Leer(dirs)  OBVIOUS
  <1>3. u = [i \in 1..n |-> fisica[dirs[i]]]  BY <1>1, <1>2 DEF Leer
  <1>4. \A i \in 1..n : dirs[i] \in Direcciones  BY <1>1, ElementOfSeq
  <1>5. \A i \in 1..n : fisica[dirs[i]] \in Nat  BY <1>4 DEF TypeOK
  <1>6. u \in [1..n -> Nat]  BY <1>3, <1>5
  <1>7. QED  BY <1>1, <1>2, <1>3, <1>6

\* The first place of an element.
LEMMA PosicionDe ==
    ASSUME NEW s \in Seq(Direcciones), NEW d \in ToSet(s), NEW k, k = SelectInSeq(s, LAMBDA x : x = d)
    PROVE  k \in 1..Len(s) /\ s[k] = d
  <1> DEFINE I == {i \in 1..Len(s) : s[i] = d}
  <1>1. I # {}
    <2>1. \E i \in 1..Len(s) : s[i] = d  BY DEF ToSet
    <2>2. QED  BY <2>1
  <1>2. k = Min(I)  BY <1>1 DEF SelectInSeq
  <1>3. I \subseteq Nat  OBVIOUS
  <1>4. Min(I) \in I
    <2> HIDE DEF I
    <2>1. \E x \in I : \A y \in I : x <= y  BY <1>1, <1>3, MenorNatural
    <2>2. QED  BY <2>1 DEF Min
  <1>5. QED  BY <1>2, <1>4

\* What is written, and what is not.
LEMMA Escritura ==
    ASSUME TypeOK, NEW dirs \in Seq(Direcciones), NEW datos \in Seq(Nat), Len(datos) = Len(dirs),
           Escribir(dirs, datos)
    PROVE  /\ fisica' \in [Direcciones -> Nat]
           /\ \A d \in Direcciones : (\A j \in 1..Len(dirs) : dirs[j] # d) => fisica'[d] = fisica[d]
           /\ (\A i, j \in 1..Len(dirs) : dirs[i] = dirs[j] => i = j)
                  => \A j \in 1..Len(dirs) : fisica'[dirs[j]] = datos[j]
  <1>1. PICK n \in Nat : n = Len(dirs) /\ DOMAIN dirs = 1..n  OBVIOUS
  <1> DEFINE k(d) == SelectInSeq(dirs, LAMBDA x : x = d)
  <1>2. fisica' = [d \in Direcciones |-> IF d \in ToSet(dirs) THEN datos[k(d)] ELSE fisica[d]]
    BY DEF Escribir
  <1>3. \A d \in ToSet(dirs) : k(d) \in 1..n /\ dirs[k(d)] = d  BY <1>1, PosicionDe
  <1> HIDE DEF k
  <1>4. \A j \in 1..n : datos[j] \in Nat  BY <1>1, ElementOfSeq
  <1>5. \A d \in Direcciones : fisica[d] \in Nat  BY DEF TypeOK
  <1>6. \A d : d \in ToSet(dirs) <=> \E j \in 1..n : dirs[j] = d  BY <1>1 DEF ToSet
  <1>7. fisica' \in [Direcciones -> Nat]
    <2>1. \A d \in Direcciones : (IF d \in ToSet(dirs) THEN datos[k(d)] ELSE fisica[d]) \in Nat
      BY <1>3, <1>4, <1>5
    <2>2. QED  BY <1>2, <2>1
  <1>8. \A j \in 1..n : dirs[j] \in Direcciones  BY <1>1, ElementOfSeq
  <1>9. ASSUME \A i, j \in 1..n : dirs[i] = dirs[j] => i = j, NEW j \in 1..n
        PROVE  fisica'[dirs[j]] = datos[j]
    <2>1. PICK d \in Direcciones : d = dirs[j]  BY <1>8
    <2>2. d \in ToSet(dirs)  BY <1>6, <2>1
    <2>3. k(d) = j  BY <1>3, <1>9, <2>1, <2>2
    <2>4. QED  BY <1>2, <2>1, <2>2, <2>3
  <1>10. ASSUME NEW d \in Direcciones, \A j \in 1..n : dirs[j] # d PROVE fisica'[d] = fisica[d]
    <2>1. d \notin ToSet(dirs)  BY <1>6, <1>10
    <2>2. QED  BY <1>2, <2>1
  <1>11. QED  BY <1>1, <1>7, <1>9, <1>10

\* Frames that no table has, each once.
LEMMA LibresSon ==
    /\ Libres \subseteq Marcos /\ IsFiniteSet(Libres) /\ Cardinality(Libres) \in Nat
    /\ \A n \in 0..Cardinality(Libres) :
           /\ PrimerosLibres(n) \in Seq(Libres) /\ Len(PrimerosLibres(n)) = n
           /\ \A i, j \in 1..n : PrimerosLibres(n)[i] = PrimerosLibres(n)[j] => i = j
  <1>1. PICK S : S = Libres  OBVIOUS
  <1>2. S \subseteq Marcos /\ Marcos \subseteq Nat  BY <1>1, Constantes DEF Libres, Marcos
  <1>3. IsFiniteSet(S) /\ Cardinality(S) \in Nat
    <2>1. IsFiniteSet(Marcos)
      <3>1. 0 \in Int /\ CantMarcos - 1 \in Int  BY Constantes
      <3>2. QED  BY <3>1, FS_Interval DEF Marcos
    <2>2. QED  BY <1>2, <2>1, FS_Subset, FS_CardinalityType
  <1>4. PICK m \in Nat : m = Cardinality(S)  BY <1>3
  <1>5. PICK clave : clave = [x \in S |-> x]  OBVIOUS
  <1>6. clave \in [S -> Nat] /\ \A x, y \in S : clave[x] = clave[y] => x = y  BY <1>2, <1>5
  <1>7. PICK w \in [1..m -> S] : \A i, j \in 1..m : i < j => clave[w[i]] < clave[w[j]]
    BY <1>3, <1>4, <1>6, HayOrden
  <1> DEFINE Bien(u) == \A i, j \in DOMAIN u : i < j => u[i] < u[j]
  <1>8. w \in SetToSeqs(S) /\ Bien(w)
    <2>1. \A i, j \in 1..m : i < j => w[i] < w[j]  BY <1>5, <1>7
    <2>2. ASSUME NEW i \in 1..m, NEW j \in 1..m, i # j PROVE w[i] # w[j]
      <3>1. w[i] \in Nat /\ w[j] \in Nat  BY <1>2, <1>7
      <3>2. i < j \/ j < i  BY <2>2
      <3>3. w[i] < w[j] \/ w[j] < w[i]  BY <2>1, <3>2
      <3>4. QED  BY <3>1, <3>3
    <2>3. QED  BY <1>4, <1>7, <2>1, <2>2 DEF SetToSeqs
  <1>9. PICK u : u = CHOOSE v \in SetToSeqs(S) : Bien(v)  OBVIOUS
  <1>10. \A n : PrimerosLibres(n) = SubSeq(u, 1, n)  BY <1>1, <1>9 DEF PrimerosLibres
  <1> HIDE DEF Bien
  <1>11. u \in SetToSeqs(S)  BY <1>8, <1>9
  <1>12. u \in [1..m -> S] /\ \A i, j \in 1..m : i # j => u[i] # u[j]  BY <1>4, <1>11 DEF SetToSeqs
  <1>13. ASSUME NEW n \in 0..m, NEW z, z = PrimerosLibres(n)
         PROVE  z \in Seq(S) /\ Len(z) = n /\ \A i, j \in 1..n : z[i] = z[j] => i = j
    <2>1. \A i \in 1..n : i \in 1..m  OBVIOUS
    <2>2. \A i \in 1..n : u[i] \in S  BY <1>12, <2>1
    <2>3. /\ SubSeq(u, 1, n) \in Seq(S) /\ Len(SubSeq(u, 1, n)) = IF 1 <= n THEN n - 1 + 1 ELSE 0
          /\ \A i \in 1..n - 1 + 1 : SubSeq(u, 1, n)[i] = u[1 + i - 1]
      BY <2>2, SubSeqProperties
    <2>4. n - 1 + 1 = n /\ (IF 1 <= n THEN n ELSE 0) = n /\ \A i \in 1..n : 1 + i - 1 = i  OBVIOUS
    <2>5. z \in Seq(S) /\ Len(z) = n /\ \A i \in 1..n : z[i] = u[i]  BY <1>10, <1>13, <2>3, <2>4
    <2>6. QED  BY <1>12, <2>1, <2>5
  <1>14. QED  BY <1>1, <1>2, <1>3, <1>4, <1>13

-----------------------------------------------------------------------------
(* The inductive invariant *)

\* The processes of which the TLB must be right: none once RESIZE has taken a page that it has.
Vigilados == IF obsoleta THEN {} ELSE vivos

\* No two pages share a frame.
TablaJusta ==
    \A p, q \in Pids : \A i \in 1..Len(tabla[p]), j \in 1..Len(tabla[q]) :
        tabla[p][i] = tabla[q][j] => p = q /\ i = j

IInv == TypeOK /\ Sana(tlb, reloj, recientes, Vigilados) /\ TablaJusta

\* It holds at the start.
LEMMA InicialInv == Init => IInv
  <1> SUFFICES ASSUME Init PROVE IInv  OBVIOUS
  <1>1. config \in Configuraciones /\ config[1] \in Nat  BY ConstantesOK DEF Init
  <1>2. /\ tlb = <<>> /\ tabla = [p \in Pids |-> <<>>] /\ fisica = [d \in Direcciones |-> Ajeno + d]
        /\ registro = [p \in Pids |-> <<>>] /\ vivos = Pids /\ reloj = 0 /\ cuenta = 0
        /\ recientes = <<>> /\ obsoleta = FALSE
    BY DEF Init
  <1>3. Direcciones \subseteq Nat  BY Constantes DEF Direcciones
  <1>4. <<>> \in Seq(Entradas) /\ <<>> \in Seq(Marcos) /\ <<>> \in Seq(Nat) /\ <<>> \in Seq(Pids \X Nat)
        /\ Len(<<>>) = 0
    OBVIOUS
  <1>5. TypeOK
    <2>1. \A d \in Direcciones : Ajeno + d \in Nat  BY <1>3 DEF Ajeno
    <2>2. fisica \in [Direcciones -> Nat]  BY <1>2, <2>1
    <2>3. Len(tlb) <= CantEntradas  BY <1>1, <1>2, <1>4 DEF CantEntradas
    <2>4. cuenta \in 0..Operaciones  BY <1>2, ConstantesOK
    <2>5. tabla \in [Pids -> Seq(Marcos)] /\ registro \in [Pids -> Seq(Nat)]  BY <1>2, <1>4
    <2>6. QED  BY <1>1, <1>2, <1>4, <2>2, <2>3, <2>4, <2>5 DEF TypeOK
  <1>6. Buena(tlb, recientes)
    <2>1. recientes \in Limpias  BY <1>2, <1>4 DEF Limpias, SinIguales, Historias
    <2>2. Len(tlb) = Minimo(Len(recientes), CantEntradas)
      BY <1>1, <1>2, <1>4 DEF Minimo, CantEntradas
    <2>3. Posiciones(tlb, recientes) = {}
      <3>1. Posiciones(tlb, recientes) = 0 - 0 + 1..0  BY <1>2, <1>4 DEF Posiciones
      <3>2. QED  BY <3>1
    <2>4. PICK f : f = [i \in 1..0 |-> 0]  OBVIOUS
    <2>5. 1..Len(tlb) = {} /\ 1..0 = {}  BY <1>2, <1>4
    <2>6. Coloca(f, tlb, recientes)  BY <2>3, <2>4, <2>5 DEF Coloca
    <2>7. QED  BY <2>1, <2>2, <2>6 DEF Buena
  <1>7. Sana(tlb, reloj, recientes, Vigilados)
    <2>1. Distintas(tlb) /\ Vigentes(tlb, Vigilados)  BY <1>2, <1>4 DEF Distintas, Vigentes
    <2>2. QED  BY <1>2, <1>4, <1>6, <2>1 DEF Sana
  <1>8. TablaJusta  BY <1>2, <1>4 DEF TablaJusta
  <1>9. QED  BY <1>5, <1>7, <1>8 DEF IInv

\* What a step that moves no page and keeps the configuration must do to the TLB.
LEMMA BuenaSigue ==
    ASSUME config' = config, Buena(tlb', recientes') PROVE Buena(tlb, recientes)'
  <1>1. CantEntradas' = CantEntradas /\ Algoritmo' = Algoritmo  BY DEF CantEntradas, Algoritmo
  <1>2. PICK f : Coloca(f, tlb', recientes')  BY DEF Buena
  <1>3. Coloca(f, tlb', recientes') <=> Coloca(f, tlb, recientes)'
    BY <1>1 DEF Coloca, Posiciones, Antes, Pag
  <1>4. recientes' \in Limpias /\ Len(tlb') = Minimo(Len(recientes'), CantEntradas)  BY DEF Buena
  <1>5. Coloca(f, tlb, recientes)'  BY <1>2, <1>3
  <1>6. QED  BY <1>1, <1>4, <1>5 DEF Buena, Limpias, SinIguales, Historias, Minimo

\* A TLB found right by the values of the next state is right in the next state.
LEMMA SanaSigue ==
    ASSUME config' = config, NEW V, Sana(tlb', reloj', recientes', V), Vigentes(tlb, Vigilados)'
    PROVE  Sana(tlb, reloj, recientes, Vigilados)'
  <1>1. /\ tlb' \in Seq(Entradas) /\ reloj' \in Nat /\ Distintas(tlb')
        /\ (\A i \in 1..Len(tlb') : tlb'[i].acceso < reloj') /\ Buena(tlb', recientes')
        /\ Len(recientes') = Len(tlb')
    BY DEF Sana
  <1>2. Buena(tlb, recientes)'  BY <1>1, BuenaSigue
  <1>3. Distintas(tlb)'  BY <1>1 DEF Distintas
  <1>4. tlb' \in Seq(Entradas)'  BY <1>1 DEF Entradas, Marcos
  <1>5. QED  BY <1>1, <1>2, <1>3, <1>4 DEF Sana

\* What agrees with the page tables still does when they stay and fewer processes are watched.
LEMMA VigentesSigue ==
    ASSUME tabla' = tabla, NEW V, Vigentes(tlb', V), Vigilados' \subseteq V
    PROVE  Vigentes(tlb, Vigilados)'
  <1>1. \A i \in 1..Len(tlb') : tlb'[i].pid \in V => /\ EnTabla(tlb'[i].pid, tlb'[i].pagina)
                                                     /\ tlb'[i].marco = tabla[tlb'[i].pid][tlb'[i].pagina + 1]
    BY DEF Vigentes
  <1>2. QED  BY <1>1 DEF Vigentes, EnTabla

\* The types of the next state, from those of its variables.
LEMMA TipoSigue ==
    ASSUME TypeOK, config' = config, NEW V, Sana(tlb', reloj', recientes', V),
           tabla' \in [Pids -> Seq(Marcos)], fisica' \in [Direcciones -> Nat], registro' \in [Pids -> Seq(Nat)],
           vivos' \subseteq Pids, cuenta' \in 0..Operaciones, obsoleta' \in BOOLEAN
    PROVE  TypeOK'
  <1>1. /\ tlb' \in Seq(Entradas) /\ reloj' \in Nat /\ Buena(tlb', recientes')  BY DEF Sana
  <1>2. Len(tlb') <= CantEntradas /\ recientes' \in Limpias  BY <1>1, NoSobra
  <1>3. CantEntradas' = CantEntradas /\ config' \in Configuraciones  BY DEF CantEntradas, TypeOK
  <1>4. recientes' \in Seq(Pids \X Nat)  BY <1>2 DEF Limpias, Historias
  <1>5. QED  BY <1>1, <1>2, <1>3, <1>4 DEF TypeOK

\* The bound on the instructions.
LEMMA EjecutaTipo ==
    ASSUME TypeOK, NEW p \in Pids, Ejecuta(p)
    PROVE  cuenta' \in 0..Operaciones /\ p \in vivos
  <1>1. cuenta \in 0..Operaciones /\ Operaciones \in Nat  BY ConstantesOK DEF TypeOK
  <1>2. QED  BY <1>1 DEF Ejecuta

\* A step that leaves the page tables alone and translates, or not.
LEMMA PasoQuieto ==
    ASSUME IInv, config' = config, tabla' = tabla, Sana(tlb', reloj', recientes', Vigilados),
           vivos' \subseteq vivos, obsoleta' = obsoleta,
           fisica' \in [Direcciones -> Nat], registro' \in [Pids -> Seq(Nat)], cuenta' \in 0..Operaciones
    PROVE  IInv'
  <1>1. TypeOK /\ TablaJusta  BY DEF IInv
  <1>2. Vigilados' \subseteq Vigilados  BY DEF Vigilados
  <1>3. Vigentes(tlb', Vigilados)  BY DEF Sana
  <1>4. Vigentes(tlb, Vigilados)'  BY <1>2, <1>3, VigentesSigue
  <1>5. Sana(tlb, reloj, recientes, Vigilados)'  BY <1>4, SanaSigue
  <1>6. TypeOK'
    <2>1. tabla' \in [Pids -> Seq(Marcos)] /\ vivos' \subseteq Pids /\ obsoleta' \in BOOLEAN  BY <1>1 DEF TypeOK
    <2>2. QED  BY <1>1, <2>1, TipoSigue
  <1>7. TablaJusta'  BY <1>1 DEF TablaJusta
  <1>8. QED  BY <1>5, <1>6, <1>7 DEF IInv

\* The translation of an instruction.
LEMMA Traduccion ==
    ASSUME IInv, NEW p \in Pids, NEW dl \in Nat, NEW n \in Nat, Tiene(p, dl, n), Traducir(p, dl, n)
    PROVE  /\ Sana(tlb', reloj', recientes', Vigilados)
           /\ DireccionesDe(p, dl, n) \in Seq(Direcciones) /\ Len(DireccionesDe(p, dl, n)) = n
           /\ (p \in Vigilados => \A j \in 1..n : DireccionesDe(p, dl, n)[j] = Dir(p, dl + j - 1))
  <1>1. TypeOK /\ Sana(tlb, reloj, recientes, Vigilados)  BY DEF IInv
  <1>2. Empezada = Inicio(tlb, reloj)  BY DEF Empezada, Inicio
  <1>3. PICK y : y = Traducida(Inicio(tlb, reloj), p, dl, n)  OBVIOUS
  <1>4. PICK b : b = Buscada(Inicio(tlb, reloj), p, dl, n)  OBVIOUS
  <1>5. tlb' = y.tlb /\ reloj' = y.reloj /\ recientes' = Usadas(recientes, p, y)  BY <1>2, <1>3 DEF Traducir
  <1>6. /\ Sana(y.tlb, y.reloj, Usadas(recientes, p, y), Vigilados)
        /\ b.marcos \in Seq(Marcos) /\ Len(b.marcos) = CantPaginas(dl, n)
        /\ (p \in Vigilados => \A i \in 1..Len(b.marcos) : b.marcos[i] = tabla[p][dl \div TamPagina + i])
    <2>1. Traducido(y, b, recientes, p, dl, n, Vigilados)  BY <1>1, <1>3, <1>4, Traduce
    <2>2. QED  BY <2>1 DEF Traducido
  <1>7. PICK d : d = DireccionesDe(p, dl, n)  OBVIOUS
  <1>8. d = Fisicas(b.marcos, dl, n)  BY <1>2, <1>4, <1>7 DEF DireccionesDe
  <1>9. PICK u \in Seq(Marcos) : u = b.marcos  BY <1>6
  <1>10. Len(u) = CantPaginas(dl, n) /\ d = Fisicas(u, dl, n)  BY <1>6, <1>8, <1>9
  <1>11. /\ d \in Seq(Direcciones) /\ Len(d) = n
         /\ (Suyos(u, p, dl) => Ocupan(d, p, dl, n))
    BY <1>1, <1>10, Direcciona
  <1>13. p \in Vigilados => Suyos(u, p, dl)  BY <1>6, <1>9 DEF Suyos
  <1>12. QED  BY <1>5, <1>6, <1>7, <1>11, <1>13 DEF Ocupan

\* SET of a register changes nothing of the translation.
LEMMA SetInv == ASSUME IInv, config' = config, NEW p \in Pids, NEW datos \in Datos, Set(p, datos) PROVE IInv'
  <1>1. TypeOK /\ Sana(tlb, reloj, recientes, Vigilados)  BY DEF IInv
  <1>2. /\ tlb' = tlb /\ tabla' = tabla /\ fisica' = fisica /\ vivos' = vivos /\ reloj' = reloj
        /\ recientes' = recientes /\ obsoleta' = obsoleta
        /\ registro' = [registro EXCEPT ![p] = datos] /\ Ejecuta(p)
    BY DEF Set
  <1>3. datos \in Seq(Nat)  BY Constantes
  <1>4. registro' \in [Pids -> Seq(Nat)] /\ fisica' \in [Direcciones -> Nat]  BY <1>1, <1>2, <1>3 DEF TypeOK
  <1>5. cuenta' \in 0..Operaciones  BY <1>1, <1>2, EjecutaTipo
  <1>6. QED  BY <1>1, <1>2, <1>4, <1>5, PasoQuieto

\* MOV_IN keeps the invariant: one access.
LEMMA MovInInv ==
    ASSUME IInv, config' = config, NEW p \in Pids, NEW dl \in Nat, NEW n \in Nat, MovIn(p, dl, n) PROVE IInv'
  <1>1. TypeOK  BY DEF IInv
  <1>2. /\ tabla' = tabla /\ fisica' = fisica /\ vivos' = vivos /\ obsoleta' = obsoleta
        /\ registro' = [registro EXCEPT ![p] = Leer(DireccionesDe(p, dl, n))]
        /\ Ejecuta(p) /\ Tiene(p, dl, n) /\ Traducir(p, dl, n)
    BY DEF MovIn
  <1>3. Sana(tlb', reloj', recientes', Vigilados) /\ DireccionesDe(p, dl, n) \in Seq(Direcciones)
    BY <1>2, Traduccion
  <1>4. Leer(DireccionesDe(p, dl, n)) \in Seq(Nat)  BY <1>1, <1>3, Lectura
  <1>5. registro' \in [Pids -> Seq(Nat)] /\ fisica' \in [Direcciones -> Nat]  BY <1>1, <1>2, <1>4 DEF TypeOK
  <1>6. cuenta' \in 0..Operaciones  BY <1>1, <1>2, EjecutaTipo
  <1>7. QED  BY <1>2, <1>3, <1>5, <1>6, PasoQuieto

\* MOV_OUT keeps the invariant: one access, and bytes written.
LEMMA MovOutInv ==
    ASSUME IInv, config' = config, NEW p \in Pids, NEW dl \in Nat, MovOut(p, dl) PROVE IInv'
  <1>1. TypeOK  BY DEF IInv
  <1>2. PICK n \in Nat : n = Len(registro[p])  BY <1>1 DEF TypeOK
  <1>3. /\ tabla' = tabla /\ registro' = registro /\ vivos' = vivos /\ obsoleta' = obsoleta
        /\ Ejecuta(p) /\ Tiene(p, dl, n) /\ Traducir(p, dl, n)
        /\ Escribir(DireccionesDe(p, dl, n), registro[p])
    BY <1>2 DEF MovOut
  <1>4. Sana(tlb', reloj', recientes', Vigilados) /\ DireccionesDe(p, dl, n) \in Seq(Direcciones)
        /\ Len(DireccionesDe(p, dl, n)) = n
    BY <1>3, Traduccion
  <1>5. registro[p] \in Seq(Nat) /\ registro' \in [Pids -> Seq(Nat)]  BY <1>1, <1>3 DEF TypeOK
  <1>6. fisica' \in [Direcciones -> Nat]  BY <1>1, <1>2, <1>3, <1>4, <1>5, Escritura
  <1>7. cuenta' \in 0..Operaciones  BY <1>1, <1>3, EjecutaTipo
  <1>8. QED  BY <1>3, <1>4, <1>5, <1>6, <1>7, PasoQuieto

\* The two translations of COPY_STRING.
LEMMA Copia ==
    ASSUME IInv, NEW p \in Pids, NEW si \in Nat, NEW di \in Nat, NEW n \in Nat, CopyString(p, si, di, n)
    PROVE  /\ Sana(tlb', reloj', recientes', Vigilados)
           /\ \E de, a \in Seq(Direcciones) :
                  /\ Len(de) = n /\ Len(a) = n /\ Escribir(a, Leer(de))
                  /\ (p \in Vigilados => Ocupan(de, p, si, n) /\ Ocupan(a, p, di, n))
  <1>1. TypeOK /\ Sana(tlb, reloj, recientes, Vigilados)  BY DEF IInv
  <1>2. Empezada = Inicio(tlb, reloj)  BY DEF Empezada, Inicio
  <1>3. PICK y : y = Traducida(Inicio(tlb, reloj), p, si, n)  OBVIOUS
  <1>4. PICK b : b = Buscada(Inicio(tlb, reloj), p, si, n)  OBVIOUS
  <1>5. [Empezada EXCEPT !.tlb = y.tlb, !.reloj = y.reloj] = Inicio(y.tlb, y.reloj)
    <2>1. PICK t, r : t = y.tlb /\ r = y.reloj  OBVIOUS
    <2>2. PICK e : e = [Empezada EXCEPT !.tlb = t]  OBVIOUS
    <2>3. e = [tlb |-> t, reloj |-> reloj, marcos |-> <<>>, aciertos |-> <<>>, fallos |-> <<>>]
      BY <2>2 DEF Empezada
    <2>4. [e EXCEPT !.reloj = r] = Inicio(t, r)  BY <2>3 DEF Inicio
    <2>5. QED  BY <2>1, <2>2, <2>4
  <1>6. PICK z : z = Traducida(Inicio(y.tlb, y.reloj), p, di, n)  OBVIOUS
  <1>7. PICK c : c = Buscada(Inicio(y.tlb, y.reloj), p, di, n)  OBVIOUS
  <1>8. /\ Tiene(p, si, n) /\ Tiene(p, di, n) /\ tlb' = z.tlb /\ reloj' = z.reloj
        /\ recientes' = Usadas(Usadas(recientes, p, y), p, z)
        /\ Escribir(Fisicas(z.marcos, di, n), Leer(Fisicas(y.marcos, si, n)))
    BY <1>2, <1>3, <1>5, <1>6 DEF CopyString
  <1>9. /\ Sana(y.tlb, y.reloj, Usadas(recientes, p, y), Vigilados) /\ y.marcos = b.marcos
        /\ b.marcos \in Seq(Marcos) /\ Len(b.marcos) = CantPaginas(si, n)
        /\ (p \in Vigilados => \A i \in 1..Len(b.marcos) : b.marcos[i] = tabla[p][si \div TamPagina + i])
    <2>1. Traducido(y, b, recientes, p, si, n, Vigilados)  BY <1>1, <1>3, <1>4, <1>8, Traduce
    <2>2. QED  BY <2>1 DEF Traducido
  <1>10. /\ Sana(z.tlb, z.reloj, Usadas(Usadas(recientes, p, y), p, z), Vigilados) /\ z.marcos = c.marcos
         /\ c.marcos \in Seq(Marcos) /\ Len(c.marcos) = CantPaginas(di, n)
         /\ (p \in Vigilados => \A i \in 1..Len(c.marcos) : c.marcos[i] = tabla[p][di \div TamPagina + i])
    <2>1. Traducido(z, c, Usadas(recientes, p, y), p, di, n, Vigilados)
      BY <1>1, <1>6, <1>7, <1>8, <1>9, Traduce
    <2>2. QED  BY <2>1 DEF Traducido
  <1>11. PICK u \in Seq(Marcos) : u = y.marcos  BY <1>9
  <1>12. PICK v \in Seq(Marcos) : v = z.marcos  BY <1>10
  <1>13. PICK de : de = Fisicas(u, si, n)  OBVIOUS
  <1>14. PICK a : a = Fisicas(v, di, n)  OBVIOUS
  <1>15. /\ de \in Seq(Direcciones) /\ Len(de) = n
         /\ (Suyos(u, p, si) => Ocupan(de, p, si, n))
    BY <1>1, <1>8, <1>9, <1>11, <1>13, Direcciona
  <1>16. /\ a \in Seq(Direcciones) /\ Len(a) = n
         /\ (Suyos(v, p, di) => Ocupan(a, p, di, n))
    BY <1>1, <1>8, <1>10, <1>12, <1>14, Direcciona
  <1>17. Escribir(a, Leer(de))  BY <1>8, <1>11, <1>12, <1>13, <1>14
  <1>18. p \in Vigilados => Ocupan(de, p, si, n) /\ Ocupan(a, p, di, n)
    <2>1. p \in Vigilados => Suyos(u, p, si) /\ Suyos(v, p, di)  BY <1>9, <1>10, <1>11, <1>12 DEF Suyos
    <2>2. QED  BY <1>15, <1>16, <2>1
  <1>19. QED  BY <1>8, <1>10, <1>15, <1>16, <1>17, <1>18

\* COPY_STRING keeps the invariant: two accesses, the second on what the first leaves.
LEMMA CopyStringInv ==
    ASSUME IInv, config' = config, NEW p \in Pids, NEW si \in Nat, NEW di \in Nat, NEW n \in Nat,
           CopyString(p, si, di, n)
    PROVE  IInv'
  <1>1. TypeOK  BY DEF IInv
  <1>2. tabla' = tabla /\ registro' = registro /\ vivos' = vivos /\ obsoleta' = obsoleta /\ Ejecuta(p)
    BY DEF CopyString
  <1>3. Sana(tlb', reloj', recientes', Vigilados)  BY Copia
  <1>4. PICK de \in Seq(Direcciones), a \in Seq(Direcciones) :
            Len(de) = n /\ Len(a) = n /\ Escribir(a, Leer(de))
    BY Copia
  <1>5. Leer(de) \in Seq(Nat) /\ Len(Leer(de)) = n  BY <1>1, <1>4, Lectura
  <1>6. fisica' \in [Direcciones -> Nat]  BY <1>1, <1>4, <1>5, Escritura
  <1>7. cuenta' \in 0..Operaciones /\ registro' \in [Pids -> Seq(Nat)]  BY <1>1, <1>2, EjecutaTipo DEF TypeOK
  <1>8. QED  BY <1>2, <1>3, <1>6, <1>7, PasoQuieto

-----------------------------------------------------------------------------
(* Memory *)

\* RESIZE: the pages that stay keep their frames, and no page gets the frame of another one.
LEMMA TablaRedimensionada ==
    ASSUME TypeOK, TablaJusta, NEW p \in Pids, NEW n \in Nat, Redimensionar(p, n), NEW v, v = tabla'[p]
    PROVE  /\ tabla' = [tabla EXCEPT ![p] = v] /\ v \in Seq(Marcos)
           /\ \A i \in 1..Len(tabla[p]) : i <= n => i \in 1..Len(v)
           /\ \A i \in 1..Len(v) : i \in 1..Len(tabla[p]) => v[i] = tabla[p][i]
           /\ \A i \in 1..Len(v) : i \notin 1..Len(tabla[p]) => v[i] \in Libres
           /\ \A i, j \in 1..Len(v) : v[i] = v[j] => i = j
  <1>1. PICK t \in Seq(Marcos) : t = tabla[p]  BY DEF TypeOK
  <1>2. PICK m \in Nat : m = Len(t)  BY <1>1
  <1>3. PICK c \in Nat : c = Cardinality(Libres)  BY LibresSon
  <1>4. tabla' = [tabla EXCEPT ![p] = v]
        /\ v = IF n - m <= 0 THEN SubSeq(t, 1, n) ELSE t \o PrimerosLibres(Minimo(n - m, c))
    BY <1>1, <1>2, <1>3 DEF Redimensionar, TypeOK
  <1>5. \A i, j \in 1..m : t[i] = t[j] => i = j  BY <1>1, <1>2 DEF TablaJusta
  <1>6. CASE n - m <= 0
    <2>1. \A i \in 1..n : i \in 1..m  BY <1>6
    <2>2. \A i \in 1..n : t[i] \in Marcos  BY <1>1, <1>2, <2>1, ElementOfSeq
    <2>3. /\ SubSeq(t, 1, n) \in Seq(Marcos) /\ Len(SubSeq(t, 1, n)) = IF 1 <= n THEN n - 1 + 1 ELSE 0
          /\ \A i \in 1..n - 1 + 1 : SubSeq(t, 1, n)[i] = t[1 + i - 1]
      BY <2>2, SubSeqProperties
    <2>4. n - 1 + 1 = n /\ (IF 1 <= n THEN n ELSE 0) = n /\ \A i \in 1..n : 1 + i - 1 = i  OBVIOUS
    <2>5. v \in Seq(Marcos) /\ Len(v) = n /\ \A i \in 1..n : v[i] = t[i]  BY <1>4, <1>6, <2>3, <2>4
    <2>6. \A i \in 1..m : i <= n => i \in 1..n  OBVIOUS
    <2>7. QED  BY <1>1, <1>2, <1>4, <1>5, <2>1, <2>5, <2>6, SMTT(40)
  <1>7. CASE ~(n - m <= 0)
    <2>1. PICK k \in 0..c : k = Minimo(n - m, c)
      <3>1. PICK d \in Nat : d = n - m  BY <1>7
      <3>2. (IF d < c THEN d ELSE c) \in 0..c  OBVIOUS
      <3>3. Minimo(n - m, c) \in 0..c  BY <3>1, <3>2 DEF Minimo
      <3>4. QED  BY <3>3
    <2>2. PICK u : u = PrimerosLibres(k)  OBVIOUS
    <2>3. u \in Seq(Libres) /\ Len(u) = k /\ \A i, j \in 1..k : u[i] = u[j] => i = j
      BY <1>3, <2>2, LibresSon
    <2>4. \A i \in 1..k : u[i] \in Libres  BY <2>3, ElementOfSeq
    <2>5. u \in Seq(Marcos)
      <3>1. Libres \subseteq Marcos  BY LibresSon
      <3>2. QED  BY <2>3, <3>1
    <2>6. v = t \o u  BY <1>4, <1>7, <2>1, <2>2
    <2>7. /\ v \in Seq(Marcos) /\ Len(v) = m + k
          /\ \A i \in 1..m + k : v[i] = IF i <= m THEN t[i] ELSE u[i - m]
      <3>1. /\ t \o u \in Seq(Marcos) /\ Len(t \o u) = Len(t) + Len(u)
            /\ \A i \in 1..Len(t) + Len(u) : (t \o u)[i] = IF i <= Len(t) THEN t[i] ELSE u[i - Len(t)]
        BY <2>5, ConcatProperties
      <3>2. QED  BY <1>2, <2>3, <2>6, <3>1
    <2>8. \A i \in 1..m : i \in 1..m + k /\ i <= m  OBVIOUS
    <2>9. \A i \in 1..m + k : i \notin 1..m => ~(i <= m) /\ i - m \in 1..k  OBVIOUS
    <2>10. \A i \in 1..m + k : i \in 1..m => v[i] = t[i]  BY <2>7, <2>8
    <2>11. \A i \in 1..m + k : i \notin 1..m => v[i] = u[i - m] /\ v[i] \in Libres  BY <2>4, <2>7, <2>9
    <2>12. \A i \in 1..m : t[i] \notin Libres
      <3>1. DOMAIN tabla[p] = 1..m  BY <1>1, <1>2
      <3>2. QED  BY <1>1, <3>1 DEF Libres, ToSet
    <2>13. ASSUME NEW i \in 1..m + k, NEW j \in 1..m + k, v[i] = v[j] PROVE i = j
      <3>1. CASE i \in 1..m /\ j \in 1..m  BY <1>5, <2>10, <2>13, <3>1
      <3>2. CASE i \in 1..m /\ j \notin 1..m  BY <2>10, <2>11, <2>12, <2>13, <3>2
      <3>3. CASE i \notin 1..m /\ j \in 1..m  BY <2>10, <2>11, <2>12, <2>13, <3>3
      <3>4. CASE i \notin 1..m /\ j \notin 1..m
        <4>1. i - m \in 1..k /\ j - m \in 1..k  BY <2>9, <3>4
        <4>2. u[i - m] = u[j - m]  BY <2>11, <2>13, <3>4
        <4>3. i - m = j - m  BY <2>3, <4>1, <4>2
        <4>4. QED  BY <4>3
      <3>5. QED  BY <3>1, <3>2, <3>3, <3>4
    <2>14. QED  BY <1>1, <1>2, <1>4, <2>7, <2>8, <2>10, <2>11, <2>13
  <1>8. QED  BY <1>6, <1>7

\* RESIZE keeps the invariant: a page that grows takes a free frame, and one that goes stays in the TLB.
LEMMA RedimensionarInv ==
    ASSUME IInv, config' = config, NEW p \in Pids, NEW n \in Nat, Redimensionar(p, n) PROVE IInv'
  <1>1. TypeOK /\ TablaJusta /\ Sana(tlb, reloj, recientes, Vigilados)  BY DEF IInv
  <1>2. PICK t \in Seq(Marcos) : t = tabla[p]  BY <1>1 DEF TypeOK
  <1>3. PICK v : v = tabla'[p]  OBVIOUS
  <1>4. /\ tabla' = [tabla EXCEPT ![p] = v] /\ v \in Seq(Marcos)
        /\ \A i \in 1..Len(t) : i <= n => i \in 1..Len(v)
        /\ \A i \in 1..Len(v) : i \in 1..Len(t) => v[i] = t[i]
        /\ \A i \in 1..Len(v) : i \notin 1..Len(t) => v[i] \in Libres
        /\ \A i, j \in 1..Len(v) : v[i] = v[j] => i = j
    BY <1>1, <1>2, <1>3, TablaRedimensionada
  <1>5. tabla' \in [Pids -> Seq(Marcos)] /\ \A q \in Pids : tabla'[q] = IF q = p THEN v ELSE tabla[q]
    BY <1>1, <1>4 DEF TypeOK
  <1>6. /\ tlb' = tlb /\ fisica' = fisica /\ registro' = registro /\ reloj' = reloj /\ recientes' = recientes
        /\ obsoleta' = (obsoleta \/ \E i \in DOMAIN tlb : tlb[i].pid = p /\ tlb[i].pagina >= n)
        /\ vivos' \subseteq vivos /\ Ejecuta(p)
    BY DEF Redimensionar
  <1>7. TablaJusta'
    <2>1. ASSUME NEW q \in Pids, q # p, NEW i \in 1..Len(v), NEW j \in 1..Len(tabla[q])
          PROVE  v[i] # tabla[q][j]
      <3>1. CASE i \in 1..Len(t)
        <4>1. v[i] = tabla[p][i]  BY <1>2, <1>4, <3>1
        <4>2. QED  BY <1>1, <1>2, <2>1, <3>1, <4>1 DEF TablaJusta
      <3>2. CASE i \notin 1..Len(t)
        <4>1. v[i] \in Libres  BY <1>4, <3>2
        <4>2. j \in DOMAIN tabla[q]
          <5>1. tabla[q] \in Seq(Marcos)  BY <1>1 DEF TypeOK
          <5>2. QED  BY <5>1
        <4>3. tabla[q][j] \in ToSet(tabla[q])  BY <4>2 DEF ToSet
        <4>4. QED  BY <4>1, <4>3 DEF Libres
      <3>3. QED  BY <3>1, <3>2
    <2>2. ASSUME NEW q \in Pids, NEW s \in Pids, NEW i \in 1..Len(tabla'[q]), NEW j \in 1..Len(tabla'[s]),
                 tabla'[q][i] = tabla'[s][j]
          PROVE  q = s /\ i = j
      <3>1. CASE q = p /\ s = p  BY <1>4, <1>5, <2>2, <3>1
      <3>2. CASE q = p /\ s # p  BY <1>5, <2>1, <2>2, <3>2
      <3>3. CASE q # p /\ s = p
        <4>1. tabla'[q] = tabla[q] /\ tabla'[s] = v  BY <1>5, <3>3
        <4>2. v[j] # tabla[q][i]  BY <2>1, <2>2, <3>3, <4>1
        <4>3. QED  BY <2>2, <4>1, <4>2
      <3>4. CASE q # p /\ s # p
        <4>1. tabla'[q] = tabla[q] /\ tabla'[s] = tabla[s]  BY <1>5, <3>4
        <4>2. QED  BY <1>1, <2>2, <4>1 DEF TablaJusta
      <3>5. QED  BY <3>1, <3>2, <3>3, <3>4
    <2>3. QED  BY <2>2 DEF TablaJusta
  <1>8. Vigentes(tlb, Vigilados)'
    <2>1. ASSUME NEW i \in 1..Len(tlb), tlb[i].pid \in Vigilados'
          PROVE  /\ tlb[i].pagina \in Nat /\ tlb[i].pagina < Len(tabla'[tlb[i].pid])
                 /\ tlb[i].marco = tabla'[tlb[i].pid][tlb[i].pagina + 1]
      <3>1. ~obsoleta' /\ ~obsoleta /\ tlb[i].pid \in Vigilados  BY <1>6, <2>1 DEF Vigilados
      <3>2. PICK e : e = tlb[i]  OBVIOUS
      <3>3. e.pid \in Pids /\ e.pagina \in Nat /\ i \in DOMAIN tlb
        <4>1. tlb \in Seq(Entradas)  BY <1>1 DEF TypeOK
        <4>2. QED  BY <3>2, <4>1, CamposDe
      <3>4. e.pagina < Len(tabla[e.pid]) /\ e.marco = tabla[e.pid][e.pagina + 1]
        BY <1>1, <3>1, <3>2 DEF Sana, Vigentes, EnTabla
      <3>5. CASE e.pid # p
        <4>1. tabla'[e.pid] = tabla[e.pid]  BY <1>5, <3>3, <3>5
        <4>2. QED  BY <3>2, <3>3, <3>4, <4>1
      <3>6. CASE e.pid = p
        <4>1. ~(e.pagina >= n)  BY <1>6, <3>1, <3>2, <3>3, <3>6
        <4>2. PICK g \in Nat : g = e.pagina  BY <3>3
        <4>3. g < n /\ g < Len(t)  BY <1>2, <3>4, <3>6, <4>1, <4>2
        <4>4. g + 1 \in 1..Len(t) /\ g + 1 <= n  BY <1>2, <4>3
        <4>5. g + 1 \in 1..Len(v) /\ v[g + 1] = t[g + 1]  BY <1>4, <4>4
        <4>6. PICK l \in Nat : l = Len(v)  BY <1>4
        <4>7. g < l  BY <4>5, <4>6
        <4>8. tabla'[p] = v  BY <1>3
        <4>9. QED  BY <1>2, <3>2, <3>4, <3>6, <4>2, <4>5, <4>6, <4>7, <4>8
      <3>7. QED  BY <3>5, <3>6
    <2>2. QED  BY <1>6, <2>1 DEF Vigentes, EnTabla
  <1>9. Sana(tlb, reloj, recientes, Vigilados)'
    <2>1. Sana(tlb', reloj', recientes', Vigilados)  BY <1>1, <1>6
    <2>2. QED  BY <1>8, <2>1, SanaSigue
  <1>10. TypeOK'
    <2>1. Sana(tlb', reloj', recientes', Vigilados)  BY <1>1, <1>6
    <2>2. fisica' \in [Direcciones -> Nat] /\ registro' \in [Pids -> Seq(Nat)] /\ vivos' \subseteq Pids
      BY <1>1, <1>6 DEF TypeOK
    <2>3. cuenta' \in 0..Operaciones  BY <1>1, <1>6, EjecutaTipo
    <2>4. obsoleta' \in BOOLEAN  BY <1>6
    <2>5. QED  BY <1>1, <1>5, <2>1, <2>2, <2>3, <2>4, TipoSigue
  <1>11. QED  BY <1>7, <1>9, <1>10 DEF IInv

\* A process that ends takes its entries from what must be right, not from the list.
LEMMA SalirInv == ASSUME IInv, config' = config, NEW p \in Pids, Salir(p) PROVE IInv'
  <1>1. TypeOK /\ Sana(tlb, reloj, recientes, Vigilados)  BY DEF IInv
  <1>2. /\ tlb' = tlb /\ tabla' = tabla /\ fisica' = fisica /\ registro' = registro /\ reloj' = reloj
        /\ recientes' = recientes /\ obsoleta' = obsoleta /\ vivos' \subseteq vivos /\ Ejecuta(p)
    BY DEF Salir
  <1>3. Sana(tlb', reloj', recientes', Vigilados)  BY <1>1, <1>2
  <1>4. fisica' \in [Direcciones -> Nat] /\ registro' \in [Pids -> Seq(Nat)]  BY <1>1, <1>2 DEF TypeOK
  <1>5. cuenta' \in 0..Operaciones  BY <1>1, <1>2, EjecutaTipo
  <1>6. QED  BY <1>2, <1>3, <1>4, <1>5, PasoQuieto

\* END_PROCESS: the entries of a process that has ended are of no one that executes.
LEMMA LiberarInv == ASSUME IInv, config' = config, NEW p \in Pids, LiberarProceso(p) PROVE IInv'
  <1>1. TypeOK /\ TablaJusta /\ Sana(tlb, reloj, recientes, Vigilados)  BY DEF IInv
  <1>2. /\ p \notin vivos /\ tabla' = [tabla EXCEPT ![p] = <<>>]
        /\ tlb' = tlb /\ fisica' = fisica /\ registro' = registro /\ reloj' = reloj /\ vivos' = vivos
        /\ cuenta' = cuenta /\ recientes' = recientes /\ obsoleta' = obsoleta
    BY DEF LiberarProceso
  <1>3. tabla' \in [Pids -> Seq(Marcos)] /\ \A q \in Pids : tabla'[q] = IF q = p THEN <<>> ELSE tabla[q]
    <2>1. <<>> \in Seq(Marcos)  OBVIOUS
    <2>2. QED  BY <1>1, <1>2, <2>1 DEF TypeOK
  <1>4. TablaJusta'
    <2>1. ASSUME NEW q \in Pids, NEW i \in 1..Len(tabla'[q]) PROVE tabla'[q] = tabla[q]
      <3>1. 1..Len(<<>>) = {}  OBVIOUS
      <3>2. QED  BY <1>3, <2>1, <3>1
    <2>2. ASSUME NEW q \in Pids, NEW s \in Pids, NEW i \in 1..Len(tabla'[q]), NEW j \in 1..Len(tabla'[s]),
                 tabla'[q][i] = tabla'[s][j]
          PROVE  q = s /\ i = j
      <3>1. tabla'[q] = tabla[q] /\ tabla'[s] = tabla[s]  BY <2>1
      <3>2. QED  BY <1>1, <2>2, <3>1 DEF TablaJusta
    <2>3. QED  BY <2>2 DEF TablaJusta
  <1>5. Vigentes(tlb, Vigilados)'
    <2>1. Vigilados' = Vigilados /\ p \notin Vigilados  BY <1>2 DEF Vigilados
    <2>2. ASSUME NEW i \in 1..Len(tlb), tlb[i].pid \in Vigilados
          PROVE  /\ tlb[i].pagina \in Nat /\ tlb[i].pagina < Len(tabla'[tlb[i].pid])
                 /\ tlb[i].marco = tabla'[tlb[i].pid][tlb[i].pagina + 1]
      <3>1. Vigilados \subseteq Pids  BY <1>1 DEF Vigilados, TypeOK
      <3>2. tabla'[tlb[i].pid] = tabla[tlb[i].pid]  BY <1>3, <2>1, <2>2, <3>1
      <3>3. QED  BY <1>1, <2>2, <3>2 DEF Sana, Vigentes, EnTabla
    <2>3. QED  BY <1>2, <2>1, <2>2 DEF Vigentes, EnTabla
  <1>6. Sana(tlb', reloj', recientes', Vigilados)  BY <1>1, <1>2
  <1>7. Sana(tlb, reloj, recientes, Vigilados)'  BY <1>5, <1>6, SanaSigue
  <1>8. TypeOK'
    <2>1. /\ fisica' \in [Direcciones -> Nat] /\ registro' \in [Pids -> Seq(Nat)] /\ vivos' \subseteq Pids
          /\ cuenta' \in 0..Operaciones /\ obsoleta' \in BOOLEAN
      BY <1>1, <1>2 DEF TypeOK
    <2>2. QED  BY <1>1, <1>3, <1>6, <2>1, TipoSigue
  <1>9. QED  BY <1>4, <1>7, <1>8 DEF IInv

-----------------------------------------------------------------------------
(* The theorems *)

\* Every step keeps the invariant.
LEMMA PasoInv == IInv /\ [Next]_vars => IInv'
  <1> SUFFICES ASSUME IInv, [Next]_vars PROVE IInv'  OBVIOUS
  <1>1. CASE UNCHANGED vars
    <2>1. TypeOK /\ Sana(tlb, reloj, recientes, Vigilados)  BY DEF IInv
    <2>2. /\ config' = config /\ tlb' = tlb /\ tabla' = tabla /\ fisica' = fisica /\ registro' = registro
          /\ vivos' = vivos /\ reloj' = reloj /\ cuenta' = cuenta /\ recientes' = recientes
          /\ obsoleta' = obsoleta
      BY <1>1 DEF vars
    <2>3. Sana(tlb', reloj', recientes', Vigilados)  BY <2>1, <2>2
    <2>4. /\ fisica' \in [Direcciones -> Nat] /\ registro' \in [Pids -> Seq(Nat)]
          /\ cuenta' \in 0..Operaciones
      BY <2>1, <2>2 DEF TypeOK
    <2>5. QED  BY <2>2, <2>3, <2>4, PasoQuieto
  <1>2. CASE Next
    <2>1. config' = config  BY <1>2 DEF Next
    <2>2. PICK p \in Pids :
              \/ \E datos \in Datos : Set(p, datos)
              \/ \E dl \in Logicas : MovOut(p, dl) \/ \E n \in Anchos : MovIn(p, dl, n)
              \/ \E si, di \in Logicas, n \in Largos : CopyString(p, si, di, n)
              \/ \E n \in Paginas : Redimensionar(p, n)
              \/ Salir(p) \/ LiberarProceso(p)
      BY <1>2 DEF Next
    <2>3. Logicas \subseteq Nat /\ Largos \subseteq Nat /\ Paginas \subseteq Nat  BY Constantes DEF Logicas
    <2>4. Anchos \subseteq Nat
      <3>1. \A d \in Datos : Len(d) \in Nat  BY Constantes
      <3>2. QED  BY <3>1 DEF Anchos
    <2>5. ASSUME NEW datos \in Datos, Set(p, datos) PROVE IInv'  BY <2>1, <2>5, SetInv
    <2>6. ASSUME NEW dl \in Logicas, MovOut(p, dl) PROVE IInv'  BY <2>1, <2>3, <2>6, MovOutInv
    <2>7. ASSUME NEW dl \in Logicas, NEW n \in Anchos, MovIn(p, dl, n) PROVE IInv'
      BY <2>1, <2>3, <2>4, <2>7, MovInInv
    <2>8. ASSUME NEW si \in Logicas, NEW di \in Logicas, NEW n \in Largos, CopyString(p, si, di, n) PROVE IInv'
      BY <2>1, <2>3, <2>8, CopyStringInv
    <2>9. ASSUME NEW n \in Paginas, Redimensionar(p, n) PROVE IInv'  BY <2>1, <2>3, <2>9, RedimensionarInv
    <2>10. CASE Salir(p)  BY <2>1, <2>10, SalirInv
    <2>11. CASE LiberarProceso(p)  BY <2>1, <2>11, LiberarInv
    <2>12. QED  BY <2>2, <2>5, <2>6, <2>7, <2>8, <2>9, <2>10, <2>11
  <1>3. QED  BY <1>1, <1>2

\* What the invariant says of the TLB.
LEMMA InvTlb == IInv => TlbCorrecta
  <1> SUFFICES ASSUME IInv PROVE TlbCorrecta  OBVIOUS
  <1>1. TypeOK /\ Buena(tlb, recientes) /\ Len(recientes) = Len(tlb) /\ Vigentes(tlb, Vigilados)
    BY DEF IInv, Sana
  <1>2. tlb \in Seq(Entradas) /\ recientes \in Seq(Pids \X Nat) /\ DOMAIN tlb = 1..Len(tlb)
        /\ DOMAIN recientes = 1..Len(recientes)
    BY <1>1 DEF TypeOK
  <1>3. PICK f : Coloca(f, tlb, recientes)  BY <1>1 DEF Buena
  <1>4. SinRepetidas
    <2>1. ASSUME NEW i \in 1..Len(tlb), NEW j \in 1..Len(tlb),
                 tlb[i].pid = tlb[j].pid /\ tlb[i].pagina = tlb[j].pagina
          PROVE  i = j
      <3>1. PICK n \in Nat : n = Len(tlb)
        <4>1. tlb \in Seq(Entradas)  BY <1>2
        <4>2. Len(tlb) \in Nat  BY <4>1
        <4>3. QED  BY <4>2
      <3>2. Posiciones(tlb, recientes) \subseteq 1..Len(recientes)
        <4>1. n - n + 1 = 1  OBVIOUS
        <4>2. QED  BY <1>1, <3>1, <4>1 DEF Posiciones
      <3>3. f[i] \in 1..Len(recientes) /\ f[j] \in 1..Len(recientes) /\ recientes[f[i]] = recientes[f[j]]
        <4>1. f[i] \in Posiciones(tlb, recientes) /\ recientes[f[i]] = Pag(tlb[i])  BY <1>3, <2>1 DEF Coloca
        <4>2. f[j] \in Posiciones(tlb, recientes) /\ recientes[f[j]] = Pag(tlb[j])  BY <1>3, <2>1 DEF Coloca
        <4>3. Pag(tlb[i]) = Pag(tlb[j])  BY <2>1 DEF Pag
        <4>4. QED  BY <3>2, <4>1, <4>2, <4>3
      <3>4. SinIguales(recientes)  BY <1>1 DEF Buena, Limpias
      <3>5. f[i] = f[j]  BY <3>3, <3>4 DEF SinIguales
      <3>6. PICK a \in Int, b \in Int : a = f[i] /\ b = f[j]  BY <3>3
      <3>7. /\ Antes(tlb, i, j) => f[i] < f[j]
            /\ Antes(tlb, j, i) => f[j] < f[i]
        BY <1>3 DEF Coloca
      <3>8. ~Antes(tlb, i, j) /\ ~Antes(tlb, j, i)  BY <3>5, <3>6, <3>7
      <3>9. CASE Algoritmo = "LRU"
        <4>1. tlb[i].acceso \in Nat /\ tlb[j].acceso \in Nat  BY <1>2, CamposDe
        <4>2. ~(tlb[i].acceso < tlb[j].acceso) /\ ~(tlb[j].acceso < tlb[i].acceso)
          BY <3>8, <3>9 DEF Antes
        <4>3. tlb[i].acceso = tlb[j].acceso  BY <4>1, <4>2
        <4>4. Distintas(tlb)  BY DEF IInv, Sana
        <4>5. QED  BY <4>3, <4>4 DEF Distintas
      <3>10. CASE Algoritmo # "LRU"
        <4>1. ~(i < j) /\ ~(j < i)  BY <3>8, <3>10 DEF Antes
        <4>2. QED  BY <4>1
      <3>11. QED  BY <3>9, <3>10
    <2>2. QED  BY <1>2, <2>1 DEF SinRepetidas
  <1>5. GuardaLasDebidas
    <2>1. Tenidas(recientes) = {Pag(tlb[i]) : i \in 1..Len(tlb)}  BY <1>1, <1>2, PaginasTodas
    <2>2. ToSet(recientes) = Tenidas(recientes)  BY <1>2 DEF ToSet, Tenidas
    <2>3. QED  BY <1>2, <2>1, <2>2 DEF GuardaLasDebidas, Pag
  <1>6. TlbVigente  BY <1>1, <1>2 DEF TlbVigente, Vigentes, Vigilados, EnTabla
  <1>7. QED  BY <1>4, <1>5, <1>6 DEF TlbCorrecta

\* The TLB, the page tables, memory, the registers and the clock keep their types, and the TLB
\* never has more entries than CANTIDAD_ENTRADAS_TLB, whatever programs do with it.
THEOREM SiempreTipo == Spec => []TypeOK
  <1>1. IInv => TypeOK  BY DEF IInv
  <1>2. QED  BY InicialInv, PasoInv, <1>1, PTL DEF Spec

\* The TLB has the pages that FIFO or LRU should have kept, each once, and what it says of a
\* process that executes is what its page table says until RESIZE takes a page that it has.
THEOREM SiempreCorrecta == Spec => []TlbCorrecta
  BY InicialInv, PasoInv, InvTlb, PTL DEF Spec

-----------------------------------------------------------------------------
(* Memory as a program sees it *)

BytesDe(p) == [i \in 1..Len(tabla[p]) * TamPagina |-> fisica[Dir(p, i - 1)]]
Memo == [p \in Pids |-> BytesDe(p)]

\* The page of a byte that a process has is in its table, and its address is one of memory.
LEMMA PaginaEn ==
    ASSUME TypeOK, NEW p \in Pids, NEW d \in Nat, d < Len(tabla[p]) * TamPagina
    PROVE  d \div TamPagina + 1 \in 1..Len(tabla[p]) /\ Dir(p, d) \in Direcciones
  <1>1. PICK T \in Nat \ {0} : T = TamPagina  BY Constantes
  <1>2. PICK t \in Seq(Marcos) : t = tabla[p]  BY DEF TypeOK
  <1>3. PICK l \in Nat : l = Len(t)  BY <1>2
  <1>4. PICK q \in Nat, r \in 0..TamPagina - 1 : q = d \div TamPagina /\ r = d % TamPagina  BY PaginaDe
  <1>5. d = TamPagina * q + r  BY <1>4, PaginaDe
  <1>6. PICK x \in Int, y \in Int : x = TamPagina * q /\ y = TamPagina * l  BY <1>1
  <1>7. y = l * TamPagina /\ (l <= q => y <= x)
    <2>1. TamPagina * l = l * TamPagina /\ (l <= q => TamPagina * l <= TamPagina * q)  BY <1>3, <1>4, PorPaginas
    <2>2. QED  BY <1>6, <2>1
  <1>8. d < y /\ d = x + r /\ r \in Nat  BY <1>1, <1>2, <1>3, <1>4, <1>5, <1>6, <1>7
  <1>9. q + 1 \in 1..l  BY <1>6, <1>7, <1>8
  <1>10. t[q + 1] \in Marcos  BY <1>2, <1>3, <1>9, ElementOfSeq
  <1>11. t[q + 1] * TamPagina + r \in Direcciones  BY <1>10, DireccionDe
  <1>12. Dir(p, d) = t[q + 1] * TamPagina + r  BY <1>2, <1>4 DEF Dir
  <1>13. QED  BY <1>2, <1>3, <1>4, <1>9, <1>11, <1>12

\* Two bytes never share an address.
LEMMA DirUnica ==
    ASSUME TypeOK, TablaJusta, NEW p \in Pids, NEW d \in Nat, d < Len(tabla[p]) * TamPagina,
           NEW s \in Pids, NEW e \in Nat, e < Len(tabla[s]) * TamPagina, Dir(p, d) = Dir(s, e)
    PROVE  p = s /\ d = e
  <1>1. PICK q \in Nat, r \in 0..TamPagina - 1 : q = d \div TamPagina /\ r = d % TamPagina  BY PaginaDe
  <1>2. PICK u \in Nat, v \in 0..TamPagina - 1 : u = e \div TamPagina /\ v = e % TamPagina  BY PaginaDe
  <1>3. q + 1 \in 1..Len(tabla[p]) /\ u + 1 \in 1..Len(tabla[s])  BY <1>1, <1>2, PaginaEn
  <1>4. tabla[p] \in Seq(Marcos) /\ tabla[s] \in Seq(Marcos)  BY DEF TypeOK
  <1>5. PICK f \in Marcos, g \in Marcos : f = tabla[p][q + 1] /\ g = tabla[s][u + 1]
    BY <1>3, <1>4, ElementOfSeq
  <1>6. f * TamPagina + r = g * TamPagina + v  BY <1>1, <1>2, <1>5 DEF Dir
  <1>7. f \in Nat /\ g \in Nat  BY <1>5, Constantes DEF Marcos
  <1>8. PICK a \in Nat : a = f * TamPagina + r
    <2>1. f * TamPagina + r \in Direcciones  BY DireccionDe
    <2>2. Direcciones \subseteq Nat  BY Constantes DEF Direcciones
    <2>3. QED  BY <2>1, <2>2
  <1>9. a = TamPagina * f + r /\ a = TamPagina * g + v
    <2>1. TamPagina * f = f * TamPagina /\ TamPagina * g = g * TamPagina  BY <1>7, PorPaginas
    <2>2. QED  BY <1>6, <1>8, <2>1
  <1>10. f = a \div TamPagina /\ r = a % TamPagina /\ g = a \div TamPagina /\ v = a % TamPagina
    BY <1>7, <1>9, PaginaDe
  <1>11. p = s /\ q + 1 = u + 1  BY <1>3, <1>5, <1>10 DEF TablaJusta
  <1>12. q = u /\ r = v  BY <1>10, <1>11
  <1>13. d = TamPagina * q + r /\ e = TamPagina * u + v  BY <1>1, <1>2, PaginaDe
  <1>14. QED  BY <1>11, <1>12, <1>13

\* What the program has after some of its bytes are written.
Pegada(s, d, datos) == [i \in DOMAIN s |-> IF i - d \in DOMAIN datos THEN datos[i - d] ELSE s[i]]

\* The bytes that an access reads.
LEMMA Lee ==
    ASSUME TypeOK, NEW p \in Pids, NEW dl \in Nat, NEW n \in Nat, Tiene(p, dl, n),
           NEW dirs \in Seq(Direcciones), Len(dirs) = n, Ocupan(dirs, p, dl, n)
    PROVE  Leer(dirs) = SubSeq(Memo[p], dl + 1, dl + n)
  <1>1. PICK l \in Nat : l = Len(tabla[p]) * TamPagina
    <2>1. Len(tabla[p]) \in Nat  BY DEF TypeOK
    <2>2. QED  BY <2>1, Constantes
  <1>2. dl + n <= l  BY <1>1 DEF Tiene
  <1>3. PICK m : m = Memo[p]  OBVIOUS
  <1>4. m = [i \in 1..l |-> fisica[Dir(p, i - 1)]]  BY <1>1, <1>3 DEF Memo, BytesDe
  <1>5. \A i \in 1..l : m[i] \in Nat
    <2>1. ASSUME NEW i \in 1..l PROVE m[i] \in Nat
      <3>1. i - 1 \in Nat /\ i - 1 < l  OBVIOUS
      <3>2. Dir(p, i - 1) \in Direcciones  BY <1>1, <3>1, PaginaEn
      <3>3. QED  BY <1>4, <3>2 DEF TypeOK
    <2>2. QED  BY <2>1
  <1>6. \A i \in dl + 1..dl + n : i \in 1..l  BY <1>2
  <1>7. \A i \in dl + 1..dl + n : m[i] \in Nat  BY <1>5, <1>6
  <1>8. dl + 1 \in Int /\ dl + n \in Int  OBVIOUS
  <1>9. PICK u : u = SubSeq(m, dl + 1, dl + n)  OBVIOUS
  <1>10. /\ u \in Seq(Nat) /\ Len(u) = IF dl + 1 <= dl + n THEN (dl + n) - (dl + 1) + 1 ELSE 0
         /\ \A i \in 1..(dl + n) - (dl + 1) + 1 : u[i] = m[(dl + 1) + i - 1]
    BY <1>7, <1>8, <1>9, SubSeqProperties
  <1>11. (dl + n) - (dl + 1) + 1 = n /\ (IF dl + 1 <= dl + n THEN n ELSE 0) = n  OBVIOUS
  <1>12. Len(u) = n /\ \A i \in 1..n : u[i] = m[(dl + 1) + i - 1]  BY <1>10, <1>11
  <1>13. /\ Leer(dirs) \in Seq(Nat) /\ Len(Leer(dirs)) = n
         /\ \A j \in 1..n : Leer(dirs)[j] = fisica[dirs[j]]
    BY Lectura
  <1>14. ASSUME NEW j \in 1..n PROVE Leer(dirs)[j] = u[j]
    <2>1. PICK i \in 1..l : i = (dl + 1) + j - 1 /\ i - 1 = dl + j - 1  BY <1>2
    <2>2. u[j] = fisica[Dir(p, dl + j - 1)]  BY <1>4, <1>12, <2>1
    <2>3. dirs[j] = Dir(p, dl + j - 1)  BY DEF Ocupan
    <2>4. QED  BY <1>13, <2>2, <2>3
  <1>15. PICK w : w = Leer(dirs)  OBVIOUS
  <1>16. w \in Seq(Nat) /\ Len(w) = n /\ \A j \in 1..n : w[j] = u[j]  BY <1>13, <1>14, <1>15
  <1>17. w = u  BY <1>10, <1>12, <1>16, SeqEqual
  <1>18. QED  BY <1>3, <1>9, <1>15, <1>17

\* The bytes that an access writes, and only those.
LEMMA Escribe ==
    ASSUME TypeOK, TablaJusta, tabla' = tabla, NEW p \in Pids, NEW dl \in Nat, NEW n \in Nat, Tiene(p, dl, n),
           NEW dirs \in Seq(Direcciones), Len(dirs) = n, Ocupan(dirs, p, dl, n),
           NEW datos \in Seq(Nat), Len(datos) = n, Escribir(dirs, datos)
    PROVE  Memo' = [Memo EXCEPT ![p] = Pegada(Memo[p], dl, datos)]
  <1>1. PICK l : l = [q \in Pids |-> Len(tabla[q]) * TamPagina]  OBVIOUS
  <1>2. \A q \in Pids : l[q] \in Nat /\ l[q] = Len(tabla[q]) * TamPagina
    <2>1. \A q \in Pids : Len(tabla[q]) \in Nat  BY DEF TypeOK
    <2>2. \A x \in Nat : x * TamPagina \in Nat  BY Constantes
    <2>3. QED  BY <1>1, <2>1, <2>2
  <1>3. dl + n <= l[p]  BY <1>2 DEF Tiene
  <1>4. \A j \in 1..n : dirs[j] = Dir(p, dl + j - 1) /\ dl + j - 1 \in Nat /\ dl + j - 1 < l[p]
    <2>1. \A j \in 1..n : dl + j - 1 \in Nat /\ dl + j - 1 < l[p]  BY <1>2, <1>3
    <2>2. QED  BY <2>1 DEF Ocupan
  <1>5. \A i, j \in 1..n : dirs[i] = dirs[j] => i = j
    <2>1. ASSUME NEW i \in 1..n, NEW j \in 1..n, dirs[i] = dirs[j] PROVE i = j
      <3>1. PICK a \in Nat, b \in Nat : a = dl + i - 1 /\ b = dl + j - 1  BY <1>4
      <3>2. Dir(p, a) = Dir(p, b) /\ a < l[p] /\ b < l[p]  BY <1>4, <2>1, <3>1
      <3>3. a = b  BY <1>2, <3>2, DirUnica
      <3>4. QED  BY <3>1, <3>3
    <2>2. QED  BY <2>1
  <1>6. /\ \A d \in Direcciones : (\A j \in 1..n : dirs[j] # d) => fisica'[d] = fisica[d]
        /\ \A j \in 1..n : fisica'[dirs[j]] = datos[j]
    <2>1. Len(datos) = Len(dirs)  OBVIOUS
    <2>2. /\ \A d \in Direcciones : (\A j \in 1..Len(dirs) : dirs[j] # d) => fisica'[d] = fisica[d]
          /\ (\A i, j \in 1..Len(dirs) : dirs[i] = dirs[j] => i = j)
                  => \A j \in 1..Len(dirs) : fisica'[dirs[j]] = datos[j]
      BY <2>1, Escritura
    <2>3. QED  BY <1>5, <2>2
  <1>7. \A q \in Pids : BytesDe(q) = [i \in 1..l[q] |-> fisica[Dir(q, i - 1)]]  BY <1>2 DEF BytesDe
  <1>8. \A q \in Pids : BytesDe(q)' = [i \in 1..l[q] |-> fisica'[Dir(q, i - 1)]]  BY <1>2 DEF BytesDe, Dir
  <1>9. ASSUME NEW q \in Pids, NEW i \in 1..l[q]
        PROVE  fisica'[Dir(q, i - 1)] = IF q = p /\ i - dl \in 1..n THEN datos[i - dl] ELSE fisica[Dir(q, i - 1)]
    <2>1. PICK d \in Nat : d = i - 1 /\ d < l[q]  BY <1>2
    <2>2. CASE q = p /\ i - dl \in 1..n
      <3>1. PICK j \in 1..n : j = i - dl /\ dl + j - 1 = d  BY <2>1, <2>2
      <3>2. dirs[j] = Dir(q, d)  BY <1>4, <2>2, <3>1
      <3>3. QED  BY <1>6, <2>1, <2>2, <3>1, <3>2
    <2>3. CASE ~(q = p /\ i - dl \in 1..n)
      <3>1. ASSUME NEW j \in 1..n, dirs[j] = Dir(q, d) PROVE FALSE
        <4>1. PICK a \in Nat : a = dl + j - 1 /\ a < l[p]  BY <1>4
        <4>2. Dir(p, a) = Dir(q, d)  BY <1>4, <3>1, <4>1
        <4>3. p = q /\ a = d  BY <1>2, <2>1, <4>1, <4>2, DirUnica
        <4>4. i - dl = j  BY <2>1, <4>1, <4>3
        <4>5. QED  BY <2>3, <4>3, <4>4
      <3>2. Dir(q, d) \in Direcciones  BY <1>2, <2>1, PaginaEn
      <3>3. fisica'[Dir(q, d)] = fisica[Dir(q, d)]  BY <1>6, <3>1, <3>2
      <3>4. QED  BY <2>1, <2>3, <3>3
    <2>4. QED  BY <2>2, <2>3
  <1>10. DOMAIN datos = 1..n  OBVIOUS
  <1>11. ASSUME NEW q \in Pids, q # p PROVE BytesDe(q)' = BytesDe(q)  BY <1>7, <1>8, <1>9, <1>11, ZenonT(40)
  <1>12. BytesDe(p)' = Pegada(BytesDe(p), dl, datos)
    <2>1. PICK b : b = BytesDe(p)  OBVIOUS
    <2>2. b = [i \in 1..l[p] |-> fisica[Dir(p, i - 1)]]  BY <1>7, <2>1
    <2>3. DOMAIN b = 1..l[p] /\ \A i \in 1..l[p] : b[i] = fisica[Dir(p, i - 1)]  BY <2>2
    <2>4. BytesDe(p)' = [i \in 1..l[p] |-> IF i - dl \in 1..n THEN datos[i - dl] ELSE b[i]]  BY <1>8, <1>9, <2>3
    <2>5. QED  BY <1>10, <2>1, <2>3, <2>4 DEF Pegada
  <1>13. Memo' = [q \in Pids |-> IF q = p THEN Pegada(BytesDe(p), dl, datos) ELSE BytesDe(q)]
    BY <1>11, <1>12 DEF Memo
  <1>14. Memo = [q \in Pids |-> BytesDe(q)]  BY DEF Memo
  <1>15. QED  BY <1>13, <1>14

\* RESIZE and END_PROCESS: the pages that stay keep their bytes, and no one else's change.
LEMMA Redimensiona ==
    ASSUME TypeOK, NEW p \in Pids, NEW v, tabla' = [tabla EXCEPT ![p] = v], v \in Seq(Marcos), fisica' = fisica,
           \A i \in 1..Len(v) : i \in 1..Len(tabla[p]) => v[i] = tabla[p][i]
    PROVE  /\ \A q \in Pids \ {p} : Memo'[q] = Memo[q]
           /\ \A i \in DOMAIN Memo[p] \cap DOMAIN Memo'[p] : Memo'[p][i] = Memo[p][i]
  <1>1. tabla' \in [Pids -> Seq(Marcos)] /\ \A q \in Pids : tabla'[q] = IF q = p THEN v ELSE tabla[q]
    BY DEF TypeOK
  <1>2. \A q \in Pids : Memo[q] = BytesDe(q) /\ Memo'[q] = BytesDe(q)'  BY DEF Memo
  <1>3. ASSUME NEW q \in Pids, q # p PROVE BytesDe(q)' = BytesDe(q)
    <2>1. tabla'[q] = tabla[q]  BY <1>1, <1>3
    <2>2. QED  BY <2>1 DEF BytesDe, Dir
  <1>4. PICK t \in Seq(Marcos) : t = tabla[p]  BY DEF TypeOK
  <1>5. PICK l \in Nat, k \in Nat : l = Len(t) /\ k = Len(v)  BY <1>4
  <1>6. BytesDe(p) = [i \in 1..l * TamPagina |-> fisica[Dir(p, i - 1)]]  BY <1>4, <1>5 DEF BytesDe
  <1>7. BytesDe(p)' = [i \in 1..k * TamPagina |-> fisica[v[((i - 1) \div TamPagina) + 1] * TamPagina + ((i - 1) % TamPagina)]]
    <2>1. tabla'[p] = v  BY <1>1
    <2>2. QED  BY <1>5, <2>1 DEF BytesDe, Dir
  <1>8. ASSUME NEW i \in 1..l * TamPagina, i \in 1..k * TamPagina PROVE BytesDe(p)'[i] = BytesDe(p)[i]
    <2>1. l * TamPagina \in Int /\ k * TamPagina \in Int  BY Constantes
    <2>2. PICK d \in Nat : d = i - 1 /\ d < l * TamPagina /\ d < k * TamPagina  BY <2>1, <1>8
    <2>3. PICK a : a = d \div TamPagina + 1  OBVIOUS
    <2>4. a \in 1..l  BY <1>4, <1>5, <2>2, <2>3, PaginaEn
    <2>5. a \in 1..k
      <3>1. PICK q \in Nat, r \in 0..TamPagina - 1 : q = d \div TamPagina /\ r = d % TamPagina  BY PaginaDe
      <3>2. PICK x \in Int, y \in Int : x = TamPagina * q /\ y = TamPagina * k  BY Constantes
      <3>3. d = x + r  BY <3>1, <3>2, PaginaDe
      <3>4. y = k * TamPagina /\ (k <= q => y <= x)
        <4>1. TamPagina * k = k * TamPagina /\ (k <= q => TamPagina * k <= TamPagina * q)  BY <1>5, <3>1, PorPaginas
        <4>2. QED  BY <3>2, <4>1
      <3>5. r \in Nat  BY Constantes
      <3>6. q < k  BY <2>2, <3>2, <3>3, <3>4, <3>5
      <3>7. QED  BY <2>3, <3>1, <3>6
    <2>6. v[a] = t[a]  BY <1>4, <1>5, <2>4, <2>5
    <2>7. BytesDe(p)[i] = fisica[t[a] * TamPagina + (d % TamPagina)]  BY <1>4, <1>6, <2>2, <2>3 DEF Dir
    <2>8. BytesDe(p)'[i] = fisica[v[a] * TamPagina + (d % TamPagina)]  BY <1>7, <1>8, <2>2, <2>3
    <2>9. QED  BY <2>6, <2>7, <2>8
  <1>9. DOMAIN BytesDe(p) = 1..l * TamPagina /\ DOMAIN BytesDe(p)' = 1..k * TamPagina  BY <1>6, <1>7
  <1>10. QED  BY <1>2, <1>3, <1>8, <1>9

\* The program has the bytes that it uses.
LEMMA Caben ==
    ASSUME TypeOK, NEW p \in Pids, NEW d \in Nat, NEW n \in Nat, Tiene(p, d, n)
    PROVE  Virtual!Caben(p, d, n)
  <1>1. PICK l \in Nat : l = Len(tabla[p]) * TamPagina
    <2>1. Len(tabla[p]) \in Nat  BY DEF TypeOK
    <2>2. QED  BY <2>1, Constantes
  <1>2. PICK m : m = Memo[p]  OBVIOUS
  <1>3. m = [i \in 1..l |-> fisica[Dir(p, i - 1)]]  BY <1>1, <1>2 DEF Memo, BytesDe
  <1>4. Len(m) = l  BY <1>3
  <1>5. d + n <= Len(Memo[p])  BY <1>1, <1>2, <1>4 DEF Tiene
  <1>6. QED  BY <1>5 DEF Virtual!Caben, Memo, BytesDe

\* What the refinement mapping makes of each instruction of a process that the TLB is right about.
LEMMA VirtualMovIn ==
    ASSUME IInv, ~obsoleta, NEW p \in Pids, NEW dl \in Nat, NEW n \in Nat, MovIn(p, dl, n)
    PROVE  Virtual!MovIn(p, dl, n)
  <1>1. TypeOK  BY DEF IInv
  <1>2. /\ tabla' = tabla /\ fisica' = fisica
        /\ registro' = [registro EXCEPT ![p] = Leer(DireccionesDe(p, dl, n))]
        /\ Ejecuta(p) /\ Tiene(p, dl, n) /\ Traducir(p, dl, n)
    BY DEF MovIn
  <1>3. p \in Vigilados  BY <1>2 DEF Vigilados, Ejecuta
  <1>4. PICK d : d = DireccionesDe(p, dl, n)  OBVIOUS
  <1>5. d \in Seq(Direcciones) /\ Len(d) = n /\ Ocupan(d, p, dl, n)  BY <1>2, <1>3, <1>4, Traduccion DEF Ocupan
  <1>6. Leer(d) = SubSeq(Memo[p], dl + 1, dl + n)  BY <1>1, <1>2, <1>5, Lee
  <1>7. Memo' = Memo  BY <1>2 DEF Memo, BytesDe, Dir
  <1>8. registro' = [registro EXCEPT ![p] = SubSeq(Memo[p], dl + 1, dl + n)]  BY <1>2, <1>4, <1>6
  <1>9. Virtual!Caben(p, dl, n)  BY <1>1, <1>2, Caben
  <1>10. QED  BY <1>7, <1>8, <1>9 DEF Virtual!MovIn, Virtual!Tramo, Memo, BytesDe

\* MOV_OUT writes in memory the bytes of the register, one after another.
LEMMA VirtualMovOut ==
    ASSUME IInv, ~obsoleta, NEW p \in Pids, NEW dl \in Nat, MovOut(p, dl)
    PROVE  Virtual!MovOut(p, dl)
  <1>1. TypeOK /\ TablaJusta  BY DEF IInv
  <1>2. PICK n \in Nat : n = Len(registro[p])  BY <1>1 DEF TypeOK
  <1>3. /\ tabla' = tabla /\ registro' = registro
        /\ Ejecuta(p) /\ Tiene(p, dl, n) /\ Traducir(p, dl, n)
        /\ Escribir(DireccionesDe(p, dl, n), registro[p])
    BY <1>2 DEF MovOut
  <1>4. p \in Vigilados  BY <1>3 DEF Vigilados, Ejecuta
  <1>5. PICK d : d = DireccionesDe(p, dl, n)  OBVIOUS
  <1>6. d \in Seq(Direcciones) /\ Len(d) = n /\ Ocupan(d, p, dl, n)  BY <1>3, <1>4, <1>5, Traduccion DEF Ocupan
  <1>7. registro[p] \in Seq(Nat)  BY <1>1 DEF TypeOK
  <1>8. Memo' = [Memo EXCEPT ![p] = Pegada(Memo[p], dl, registro[p])]
    BY <1>1, <1>2, <1>3, <1>5, <1>6, <1>7, Escribe
  <1>9. Virtual!Caben(p, dl, Len(registro[p]))  BY <1>1, <1>2, <1>3, Caben
  <1>10. QED  BY <1>3, <1>8, <1>9 DEF Virtual!MovOut, Virtual!Pegar, Pegada, Memo, BytesDe

\* COPY_STRING writes at DI the bytes that it read at SI.
LEMMA VirtualCopyString ==
    ASSUME IInv, ~obsoleta, NEW p \in Pids, NEW si \in Nat, NEW di \in Nat, NEW n \in Nat,
           CopyString(p, si, di, n)
    PROVE  Virtual!CopyString(p, si, di, n)
  <1>1. TypeOK /\ TablaJusta  BY DEF IInv
  <1>2. tabla' = tabla /\ registro' = registro /\ Ejecuta(p) /\ Tiene(p, si, n) /\ Tiene(p, di, n)
    BY DEF CopyString
  <1>3. p \in Vigilados  BY <1>2 DEF Vigilados, Ejecuta
  <1>4. PICK de \in Seq(Direcciones), a \in Seq(Direcciones) :
            /\ Len(de) = n /\ Len(a) = n /\ Escribir(a, Leer(de))
            /\ (p \in Vigilados => Ocupan(de, p, si, n) /\ Ocupan(a, p, di, n))
    BY Copia
  <1>5. Ocupan(de, p, si, n) /\ Ocupan(a, p, di, n)  BY <1>3, <1>4
  <1>6. Leer(de) = SubSeq(Memo[p], si + 1, si + n)  BY <1>1, <1>2, <1>4, <1>5, Lee
  <1>7. Leer(de) \in Seq(Nat) /\ Len(Leer(de)) = n  BY <1>1, <1>4, Lectura
  <1>8. PICK z \in Seq(Nat) : z = Leer(de) /\ Len(z) = n  BY <1>7
  <1>9. Memo' = [Memo EXCEPT ![p] = Pegada(Memo[p], di, z)]
    <2>1. Escribir(a, z)  BY <1>4, <1>8
    <2>2. QED  BY <1>1, <1>2, <1>4, <1>5, <1>8, <2>1, Escribe
  <1>10. Memo' = [Memo EXCEPT ![p] = Pegada(Memo[p], di, SubSeq(Memo[p], si + 1, si + n))]  BY <1>6, <1>8, <1>9
  <1>11. Virtual!Caben(p, si, n) /\ Virtual!Caben(p, di, n)  BY <1>1, <1>2, Caben
  <1>12. QED  BY <1>2, <1>10, <1>11 DEF Virtual!CopyString, Virtual!Pegar, Virtual!Tramo, Pegada, Memo, BytesDe

\* What the refinement mapping makes of a step.
LEMMA VirtualPaso ==
    ASSUME IInv, [Next]_vars PROVE [obsoleta \/ Virtual!Next]_(Virtual!vars)
  <1>1. TypeOK /\ TablaJusta  BY DEF IInv
  <1>2. Virtual!vars = <<Memo, registro>>  BY DEF Virtual!vars, Memo, BytesDe
  <1>3. Virtual!vars' = <<Memo', registro'>>  BY DEF Virtual!vars, Memo, BytesDe
  <1>4. tabla' = tabla /\ fisica' = fisica => Memo' = Memo  BY DEF Memo, BytesDe, Dir
  <1>5. CASE UNCHANGED vars
    <2>1. tabla' = tabla /\ fisica' = fisica /\ registro' = registro  BY <1>5 DEF vars
    <2>2. Virtual!vars' = Virtual!vars  BY <1>2, <1>3, <1>4, <2>1
    <2>3. QED  BY <2>2
  <1>6. CASE obsoleta  BY <1>6
  <1>7. CASE Next /\ ~obsoleta
    <2>1. PICK p \in Pids :
              \/ \E datos \in Datos : Set(p, datos)
              \/ \E dl \in Logicas : MovOut(p, dl) \/ \E n \in Anchos : MovIn(p, dl, n)
              \/ \E si, di \in Logicas, n \in Largos : CopyString(p, si, di, n)
              \/ \E n \in Paginas : Redimensionar(p, n)
              \/ Salir(p) \/ LiberarProceso(p)
      BY <1>7 DEF Next
    <2>2. Logicas \subseteq Nat /\ Largos \subseteq Nat /\ Paginas \subseteq Nat  BY Constantes DEF Logicas
    <2>3. Anchos \subseteq Nat
      <3>1. \A d \in Datos : Len(d) \in Nat  BY Constantes
      <3>2. QED  BY <3>1 DEF Anchos
    <2>4. ASSUME NEW datos \in Datos, Set(p, datos) PROVE Virtual!Next
      <3>1. registro' = [registro EXCEPT ![p] = datos] /\ Memo' = Memo  BY <1>4, <2>4 DEF Set
      <3>2. Virtual!Set(p, datos)  BY <3>1 DEF Virtual!Set, Memo, BytesDe
      <3>3. QED  BY <3>2 DEF Virtual!Next
    <2>5. ASSUME NEW dl \in Logicas, MovOut(p, dl) PROVE Virtual!Next
      <3>1. Virtual!MovOut(p, dl)  BY <1>7, <2>2, <2>5, VirtualMovOut
      <3>2. QED  BY <3>1 DEF Virtual!Next, Logicas
    <2>6. ASSUME NEW dl \in Logicas, NEW n \in Anchos, MovIn(p, dl, n) PROVE Virtual!Next
      <3>1. Virtual!MovIn(p, dl, n)  BY <1>7, <2>2, <2>3, <2>6, VirtualMovIn
      <3>2. QED  BY <3>1 DEF Virtual!Next, Logicas
    <2>7. ASSUME NEW si \in Logicas, NEW di \in Logicas, NEW n \in Largos, CopyString(p, si, di, n)
          PROVE  Virtual!Next
      <3>1. Virtual!CopyString(p, si, di, n)  BY <1>7, <2>2, <2>7, VirtualCopyString
      <3>2. QED  BY <3>1 DEF Virtual!Next, Logicas
    <2>8. ASSUME /\ \A q \in Pids \ {p} : Memo'[q] = Memo[q]
                 /\ \A i \in DOMAIN Memo[p] \cap DOMAIN Memo'[p] : Memo'[p][i] = Memo[p][i]
                 /\ registro' = registro
          PROVE  Virtual!Next
      <3>1. Virtual!Redimensionar(p)  BY <2>8 DEF Virtual!Redimensionar, Memo, BytesDe
      <3>2. QED  BY <3>1 DEF Virtual!Next
    <2>9. ASSUME NEW n \in Paginas, Redimensionar(p, n) PROVE Virtual!Next
      <3>1. n \in Nat /\ fisica' = fisica /\ registro' = registro  BY <2>2, <2>9 DEF Redimensionar
      <3>2. PICK v : v = tabla'[p]  OBVIOUS
      <3>3. /\ tabla' = [tabla EXCEPT ![p] = v] /\ v \in Seq(Marcos)
            /\ \A i \in 1..Len(v) : i \in 1..Len(tabla[p]) => v[i] = tabla[p][i]
        BY <1>1, <2>9, <3>1, <3>2, TablaRedimensionada
      <3>4. /\ \A q \in Pids \ {p} : Memo'[q] = Memo[q]
            /\ \A i \in DOMAIN Memo[p] \cap DOMAIN Memo'[p] : Memo'[p][i] = Memo[p][i]
        BY <1>1, <3>1, <3>3, Redimensiona
      <3>5. QED  BY <2>8, <3>1, <3>4
    <2>10. CASE LiberarProceso(p)
      <3>1. fisica' = fisica /\ registro' = registro /\ tabla' = [tabla EXCEPT ![p] = <<>>]
        BY <2>10 DEF LiberarProceso
      <3>2. PICK v : v = <<>>  OBVIOUS
      <3>3. v \in Seq(Marcos) /\ 1..Len(v) = {}  BY <3>2
      <3>4. tabla' = [tabla EXCEPT ![p] = v]  BY <3>1, <3>2
      <3>5. \A i \in 1..Len(v) : i \in 1..Len(tabla[p]) => v[i] = tabla[p][i]  BY <3>3
      <3>6. /\ \A q \in Pids \ {p} : Memo'[q] = Memo[q]
            /\ \A i \in DOMAIN Memo[p] \cap DOMAIN Memo'[p] : Memo'[p][i] = Memo[p][i]
        BY <1>1, <3>1, <3>3, <3>4, <3>5, Redimensiona
      <3>7. QED  BY <2>8, <3>1, <3>6
    <2>11. CASE Salir(p)
      <3>1. tabla' = tabla /\ fisica' = fisica /\ registro' = registro  BY <2>11 DEF Salir
      <3>2. Virtual!vars' = Virtual!vars  BY <1>2, <1>3, <1>4, <3>1
      <3>3. QED  BY <3>2
    <2>12. QED  BY <2>1, <2>4, <2>5, <2>6, <2>7, <2>9, <2>10, <2>11
  <1>8. QED  BY <1>5, <1>6, <1>7

\* The bytes of a process at the start are none.
LEMMA VirtualInicial == Init => Virtual!Init
  <1> SUFFICES ASSUME Init PROVE Virtual!Init  OBVIOUS
  <1>1. tabla = [p \in Pids |-> <<>>] /\ registro = [p \in Pids |-> <<>>]  BY DEF Init
  <1>2. ASSUME NEW p \in Pids PROVE BytesDe(p) = <<>>
    <2>1. Len(tabla[p]) = 0  BY <1>1
    <2>2. 0 * TamPagina = 0 /\ 1..0 = {}  BY Constantes
    <2>3. BytesDe(p) = [i \in 1..0 |-> fisica[Dir(p, i - 1)]]  BY <2>1, <2>2 DEF BytesDe
    <2>4. QED  BY <2>2, <2>3
  <1>3. Memo = [p \in Pids |-> <<>>]  BY <1>2 DEF Memo
  <1>4. QED  BY <1>1, <1>3 DEF Virtual!Init, Memo, BytesDe

\* Memory through the page tables and the TLB implements MemoriaVirtual until RESIZE takes a
\* page that the TLB has: each process reads in each of its bytes the last value it wrote.
THEOREM ImplementaVirtual == Spec => VirtualSpec
  <1>1. IInv /\ [Next]_vars => [obsoleta \/ Virtual!Next]_(Virtual!vars)  BY VirtualPaso
  <1>2. QED  BY InicialInv, PasoInv, VirtualInicial, <1>1, PTL DEF Spec, VirtualSpec
=============================================================================
