--------------------------- MODULE RecursosProofs ---------------------------
(***************************************************************************)
(* Proofs about Recursos: TypeOK, and CuentaInstancias, the balance of the *)
(* instances of each resource.                                             *)
(*                                                                         *)
(* CuentaInstancias is not inductive.  What a thread has in its hands      *)
(* depends on the list of steps that it has left, so the shapes of those   *)
(* lists come first (InvTipos).  WAIT and SIGNAL move what is noted down   *)
(* for the process that the CPU runs, which has to be the one that         *)
(* recibir_dispatch attends to (Curso); that process must not be one whose *)
(* release has begun (Finados); SIGNAL must find an instance noted down,   *)
(* which the program's text says (Anotado); and the release must visit     *)
(* each resource of the process once (Visita).                             *)
(***************************************************************************)
EXTENDS Recursos, ListasProofs, FiniteSetTheorems, WellFoundedInduction, TLAPS

-----------------------------------------------------------------------------
(* Sums *)

\* A nonempty set of naturals has a least element.
LEMMA Minimo == ASSUME NEW T, T \subseteq Nat, T # {} PROVE \E m \in T : \A n \in T : m <= n
  <1>1. PICK m \in T : \A n \in T : <<n, m>> \notin OpToRel(<, Nat)
    BY NatLessThanWellFounded, WFMin, Zenon
  <1>2. \A n \in T : ~(n < m)  BY <1>1, Zenon DEF OpToRel
  <1>3. \A n \in T : n \in Nat /\ m \in Nat  OBVIOUS
  <1>4. QED  BY <1>2, <1>3

\* Of several subsets of a finite set, one has no more elements than the others.
LEMMA MenorDe ==
    ASSUME NEW S, IsFiniteSet(S), NEW M, M \subseteq SUBSET S, M # {}
    PROVE  \E s \in M : \A u \in M : Cardinality(s) <= Cardinality(u)
  <1> DEFINE T == {Cardinality(s) : s \in M}
  <1>1. T \subseteq Nat  BY FS_Subset, FS_CardinalityType
  <1>2. T # {}  OBVIOUS
  <1>3. \A u \in M : Cardinality(u) \in T  OBVIOUS
  <1>4. \A n \in T : \E s \in M : n = Cardinality(s)  OBVIOUS
  <1> HIDE DEF T
  <1>5. PICK m \in T : \A n \in T : m <= n  BY <1>1, <1>2, Minimo
  <1>6. QED  BY <1>3, <1>4, <1>5

\* The function by which MapThenFoldSet adds the elements of the subsets of S up.
Uno(s) == CHOOSE x \in s : TRUE
EsSuma(a, f, S) == a = [s \in SUBSET S |-> IF s = {} THEN 0 ELSE f[Uno(s)] + a[s \ {Uno(s)}]]

\* What is left of a subset without one of its elements.
LEMMA SinUno ==
    ASSUME NEW S, IsFiniteSet(S), NEW s \in SUBSET S, NEW x \in s
    PROVE  /\ s \ {x} \in SUBSET S /\ Cardinality(s \ {x}) < Cardinality(s) /\ Uno(s) \in s
           /\ Cardinality(s) \in Nat /\ Cardinality(s \ {x}) = Cardinality(s) - 1
  <1>1. IsFiniteSet(s)  BY FS_Subset
  <1>2. Cardinality(s) \in Nat  BY <1>1, FS_CardinalityType
  <1>3. Cardinality(s \ {x}) = Cardinality(s) - 1  BY <1>1, FS_RemoveElement
  <1>4. Uno(s) \in s  BY DEF Uno
  <1>5. QED  BY <1>2, <1>3, <1>4

\* There is such a function: the recursion of EsSuma is over the size of the set.
LEMMA SumaExiste ==
    ASSUME NEW S, IsFiniteSet(S), NEW f PROVE \E a : EsSuma(a, f, S)
  <1> DEFINE Hasta(n) == {s \in SUBSET S : Cardinality(s) <= n}
             Parcial(a, n) == a = [s \in Hasta(n) |-> IF s = {} THEN 0 ELSE f[Uno(s)] + a[s \ {Uno(s)}]]
             T == {n \in Nat : ~ \E a : Parcial(a, n)}
  <1>1. \A s \in SUBSET S : Cardinality(s) \in Nat  BY FS_Subset, FS_CardinalityType
  <1>2. T = {}
    <2> SUFFICES ASSUME T # {} PROVE FALSE  OBVIOUS
    <2>1. T \subseteq Nat  OBVIOUS
    <2>2. PICK m \in T : \A n \in T : m <= n
      <3> HIDE DEF T
      <3> QED  BY <2>1, Minimo
    <2>3. m # 0
      <3> SUFFICES ASSUME m = 0 PROVE FALSE  OBVIOUS
      <3> DEFINE a == [s \in Hasta(0) |-> 0]
      <3>1. \A s \in Hasta(0) : s = {}
        <4>1. \A s \in Hasta(0) : s \in SUBSET S /\ Cardinality(s) = 0  BY <1>1
        <4>2. QED  BY <4>1, FS_EmptySet, FS_Subset
      <3>2. Parcial(a, 0)  BY <3>1
      <3>3. QED  BY <2>2, <3>2
    <2>4. m - 1 \in Nat /\ m - 1 < m  BY <2>2, <2>3
    <2>5. m - 1 \notin T
      <3> HIDE DEF T
      <3> QED  BY <2>2, <2>4, <2>1
    <2>6. PICK a : Parcial(a, m - 1)  BY <2>4, <2>5
    <2> DEFINE b == [s \in Hasta(m) |-> IF s = {} THEN 0 ELSE f[Uno(s)] + a[s \ {Uno(s)}]]
    <2>7. Parcial(b, m)
      <3>1. SUFFICES ASSUME NEW s \in Hasta(m), s # {} PROVE a[s \ {Uno(s)}] = b[s \ {Uno(s)}]
        OBVIOUS
      <3> DEFINE u == s \ {Uno(s)}
      <3>2. Uno(s) \in s  BY <3>1 DEF Uno
      <3>3. u \in SUBSET S /\ Cardinality(u) = Cardinality(s) - 1 /\ Cardinality(s) \in Nat
        BY <3>1, <3>2, SinUno
      <3>4. u \in Hasta(m - 1) /\ u \in Hasta(m)
        <4>1. Cardinality(u) <= m - 1 /\ Cardinality(u) <= m  BY <3>1, <3>3
        <4>2. QED  BY <3>3, <4>1
      <3> HIDE DEF u
      <3>5. a[u] = IF u = {} THEN 0 ELSE f[Uno(u)] + a[u \ {Uno(u)}]  BY <2>6, <3>4
      <3>6. b[u] = IF u = {} THEN 0 ELSE f[Uno(u)] + a[u \ {Uno(u)}]  BY <3>4
      <3>7. QED  BY <3>5, <3>6 DEF u
    <2>8. QED  BY <2>2, <2>7
  <1>3. Cardinality(S) \in Nat /\ \A s \in SUBSET S : Cardinality(s) <= Cardinality(S)
    BY FS_Subset, FS_CardinalityType
  <1>4. PICK a : Parcial(a, Cardinality(S))  BY <1>2, <1>3
  <1>5. Hasta(Cardinality(S)) = SUBSET S  BY <1>3
  <1>6. EsSuma(a, f, S)  BY <1>4, <1>5 DEF EsSuma
  <1>7. QED  BY <1>6

\* A sum of naturals is a natural.
LEMMA SumaTipo ==
    ASSUME NEW S, IsFiniteSet(S), NEW f \in [S -> Nat], NEW a, EsSuma(a, f, S)
    PROVE  \A s \in SUBSET S : a[s] \in Nat
  <1> DEFINE M == {s \in SUBSET S : a[s] \notin Nat}
  <1> SUFFICES ASSUME M # {} PROVE FALSE  OBVIOUS
  <1>1. PICK s \in M : \A u \in M : Cardinality(s) <= Cardinality(u)
    <2>1. M \subseteq SUBSET S  OBVIOUS
    <2> HIDE DEF M
    <2>2. QED  BY <2>1, MenorDe
  <1>2. s \in SUBSET S /\ a[s] = IF s = {} THEN 0 ELSE f[Uno(s)] + a[s \ {Uno(s)}]
    BY <1>1 DEF EsSuma
  <1>3. s # {} /\ Uno(s) \in s  BY <1>1, <1>2 DEF Uno
  <1>4. s \ {Uno(s)} \in SUBSET S /\ Cardinality(s \ {Uno(s)}) < Cardinality(s)
        /\ Cardinality(s) \in Nat /\ Cardinality(s \ {Uno(s)}) = Cardinality(s) - 1
    BY <1>2, <1>3, SinUno
  <1>5. s \ {Uno(s)} \notin M  BY <1>1, <1>4
  <1>6. a[s \ {Uno(s)}] \in Nat  BY <1>4, <1>5
  <1>7. f[Uno(s)] \in Nat  BY <1>2, <1>3
  <1>8. QED  BY <1>1, <1>2, <1>6, <1>7

\* Whichever element is taken out of the sum first.
LEMMA SumaSin ==
    ASSUME NEW S, IsFiniteSet(S), NEW f \in [S -> Nat], NEW a, EsSuma(a, f, S)
    PROVE  \A s \in SUBSET S : \A x \in s : a[s] = f[x] + a[s \ {x}]
  <1> DEFINE M == {s \in SUBSET S : \E x \in s : a[s] # f[x] + a[s \ {x}]}
  <1> SUFFICES ASSUME M # {} PROVE FALSE  OBVIOUS
  <1>1. PICK s \in M : \A u \in M : Cardinality(s) <= Cardinality(u)
    <2>1. M \subseteq SUBSET S  OBVIOUS
    <2> HIDE DEF M
    <2>2. QED  BY <2>1, MenorDe
  <1>2. PICK x \in s : a[s] # f[x] + a[s \ {x}]  BY <1>1
  <1>3. \A u \in SUBSET S : u # {} => a[u] = f[Uno(u)] + a[u \ {Uno(u)}]  BY DEF EsSuma
  <1> DEFINE c == Uno(s)
             t == s \ {c}
             v == s \ {x}
  <1>4. s \in SUBSET S /\ c \in s  BY <1>1, <1>2 DEF Uno
  <1>5. /\ t \in SUBSET S /\ Cardinality(t) < Cardinality(s) /\ Cardinality(t) \in Nat
        /\ v \in SUBSET S /\ Cardinality(v) < Cardinality(s) /\ Cardinality(v) \in Nat /\ Cardinality(s) \in Nat
    <2>1. Cardinality(s) \in Nat /\ t \in SUBSET S /\ v \in SUBSET S /\ Cardinality(t) < Cardinality(s)
          /\ Cardinality(v) < Cardinality(s)
      BY <1>4, <1>2, SinUno
    <2>2. QED  BY <2>1, FS_Subset, FS_CardinalityType
  <1>6. t \notin M /\ v \notin M
    <2> HIDE DEF M, t, v
    <2> QED  BY <1>1, <1>5
  <1>7. a[s] = f[c] + a[t]  BY <1>3, <1>4
  <1>8. c # x  BY <1>2, <1>7
  <1>9. a[t] = f[x] + a[t \ {x}]  BY <1>2, <1>5, <1>6, <1>8
  <1>10. a[v] = f[c] + a[v \ {c}]  BY <1>4, <1>5, <1>6, <1>8
  <1>11. t \ {x} = v \ {c} /\ t \ {x} \in SUBSET S  BY <1>5
  <1>12. f[c] \in Nat /\ f[x] \in Nat /\ a[t \ {x}] \in Nat  BY <1>2, <1>4, <1>11, SumaTipo
  <1>13. a[s] = f[x] + a[v]
    <2>1. PICK i \in Nat, j \in Nat, k \in Nat : f[c] = i /\ f[x] = j /\ a[t \ {x}] = k  BY <1>12
    <2>2. a[t] = j + k /\ a[v] = i + k  BY <1>9, <1>10, <1>11, <2>1
    <2>3. a[s] = i + (j + k)  BY <1>7, <2>1, <2>2
    <2> HIDE DEF c, t, v
    <2>4. QED  BY <2>1, <2>2, <2>3
  <1>14. QED  BY <1>2, <1>13

\* A sum depends on what is added up only.
LEMMA SumaUnica ==
    ASSUME NEW S, IsFiniteSet(S), NEW R \in SUBSET S, NEW f, NEW g, \A x \in R : f[x] = g[x],
           NEW a, EsSuma(a, f, S), NEW b, EsSuma(b, g, R)
    PROVE  a[R] = b[R]
  <1> DEFINE M == {s \in SUBSET R : a[s] # b[s]}
  <1>1. IsFiniteSet(R)  BY FS_Subset
  <1> SUFFICES ASSUME M # {} PROVE FALSE  OBVIOUS
  <1>2. PICK s \in M : \A u \in M : Cardinality(s) <= Cardinality(u)
    <2>1. M \subseteq SUBSET R  OBVIOUS
    <2> HIDE DEF M
    <2>2. QED  BY <1>1, <2>1, MenorDe
  <1>3. s \in SUBSET R /\ s \in SUBSET S  BY <1>2
  <1>4. a[s] = IF s = {} THEN 0 ELSE f[Uno(s)] + a[s \ {Uno(s)}]  BY <1>3 DEF EsSuma
  <1>5. b[s] = IF s = {} THEN 0 ELSE g[Uno(s)] + b[s \ {Uno(s)}]  BY <1>3 DEF EsSuma
  <1>6. s # {} /\ Uno(s) \in s  BY <1>2, <1>4, <1>5 DEF Uno
  <1>7. s \ {Uno(s)} \in SUBSET R /\ Cardinality(s \ {Uno(s)}) < Cardinality(s)
        /\ Cardinality(s) \in Nat /\ Cardinality(s \ {Uno(s)}) = Cardinality(s) - 1
    BY <1>1, <1>3, <1>6, SinUno
  <1>8. s \ {Uno(s)} \notin M  BY <1>2, <1>7
  <1>9. a[s \ {Uno(s)}] = b[s \ {Uno(s)}]  BY <1>7, <1>8
  <1>10. QED  BY <1>2, <1>3, <1>4, <1>5, <1>6, <1>9

\* Total is such a sum.
LEMMA TotalEs ==
    ASSUME NEW S, IsFiniteSet(S), NEW a, NEW r, NEW f, f = [p \in S |-> Anotadas(a[p], r)]
    PROVE  \E t : EsSuma(t, f, S) /\ Total(a, r, S) = t[S]
  <1> DEFINE Ec(t) == t = [s \in SUBSET S |-> IF s = {} THEN 0 ELSE Anotadas(a[Uno(s)], r) + t[s \ {Uno(s)}]]
             t0 == CHOOSE t : Ec(t)
  <1>1. Total(a, r, S) = t0[S]
    BY DEF Total, MapThenSumSet, MapThenFoldSet, Uno
  <1>2. \A t : EsSuma(t, f, S) <=> Ec(t)
    <2>1. ASSUME NEW s \in SUBSET S, s # {} PROVE f[Uno(s)] = Anotadas(a[Uno(s)], r)
      <3>1. Uno(s) \in s  BY <2>1 DEF Uno
      <3>2. QED  BY <3>1
    <2>2. \A t : [s \in SUBSET S |-> IF s = {} THEN 0 ELSE f[Uno(s)] + t[s \ {Uno(s)}]]
               = [s \in SUBSET S |-> IF s = {} THEN 0 ELSE Anotadas(a[Uno(s)], r) + t[s \ {Uno(s)}]]
      BY <2>1
    <2>3. QED  BY <2>2 DEF EsSuma
  <1>3. \E t : Ec(t)  BY <1>2, SumaExiste
  <1> HIDE DEF Ec
  <1>4. Ec(t0)  BY <1>3
  <1>5. QED  BY <1>1, <1>2, <1>4

\* What the processes of S have of r, one of them apart.
LEMMA TotalSin ==
    ASSUME NEW S, IsFiniteSet(S), NEW a, NEW r, \A p \in S : Anotadas(a[p], r) \in Nat
    PROVE  /\ Total(a, r, S) \in Nat
           /\ \A x \in S : /\ Total(a, r, S \ {x}) \in Nat
                           /\ Total(a, r, S) = Anotadas(a[x], r) + Total(a, r, S \ {x})
  <1>1. PICK f : f = [p \in S |-> Anotadas(a[p], r)]  OBVIOUS
  <1>2. f \in [S -> Nat] /\ \A p \in S : f[p] = Anotadas(a[p], r)  BY <1>1
  <1>3. PICK t : EsSuma(t, f, S) /\ Total(a, r, S) = t[S]  BY <1>1, TotalEs
  <1>4. \A s \in SUBSET S : t[s] \in Nat  BY <1>2, <1>3, SumaTipo
  <1>5. ASSUME NEW x \in S
        PROVE  /\ Total(a, r, S \ {x}) \in Nat
               /\ Total(a, r, S) = Anotadas(a[x], r) + Total(a, r, S \ {x})
    <2>1. PICK R : R = S \ {x} /\ R \in SUBSET S  OBVIOUS
    <2>2. IsFiniteSet(R)  BY <2>1, FS_Subset
    <2>3. PICK g : g = [p \in R |-> Anotadas(a[p], r)]  OBVIOUS
    <2>4. PICK u : EsSuma(u, g, R) /\ Total(a, r, R) = u[R]  BY <2>2, <2>3, TotalEs
    <2>5. \A p \in R : f[p] = g[p]  BY <1>1, <2>1, <2>3
    <2>6. t[R] = u[R]  BY <1>3, <2>1, <2>4, <2>5, SumaUnica
    <2>7. t[S] = f[x] + t[S \ {x}]  BY <1>2, <1>3, SumaSin
    <2>8. QED  BY <1>2, <1>3, <1>4, <1>5, <2>1, <2>4, <2>6, <2>7
  <1>6. QED  BY <1>3, <1>4, <1>5

\* Total depends on what is noted down of r only.
LEMMA TotalIgual ==
    ASSUME NEW S, IsFiniteSet(S), NEW a, NEW b, NEW r, \A p \in S : Anotadas(a[p], r) = Anotadas(b[p], r)
    PROVE  Total(a, r, S) = Total(b, r, S)
  <1>1. PICK f : f = [p \in S |-> Anotadas(a[p], r)]  OBVIOUS
  <1>2. f = [p \in S |-> Anotadas(b[p], r)]  BY <1>1
  <1>3. PICK t : EsSuma(t, f, S) /\ Total(a, r, S) = t[S]  BY <1>1, TotalEs
  <1>4. PICK u : EsSuma(u, f, S) /\ Total(b, r, S) = u[S]  BY <1>2, TotalEs
  <1>5. t[S] = u[S]  BY <1>3, <1>4, SumaUnica
  <1>6. QED  BY <1>3, <1>4, <1>5

-----------------------------------------------------------------------------
(* What a list has *)

\* Veces counts, and is above zero when the list has the element.
LEMMA VecesTipo ==
    ASSUME NEW S, NEW s \in Seq(S), NEW x
    PROVE  /\ Veces(s, x) \in Nat
           /\ Veces(s, x) > 0 <=> \E k \in 1 .. Len(s) : s[k] = x
  <1>1. PICK A : A = {k \in 1 .. Len(s) : s[k] = x}  OBVIOUS
  <1>2. IsFiniteSet(1 .. Len(s))  BY FS_Interval
  <1>3. IsFiniteSet(A)  BY <1>1, <1>2, FS_Subset
  <1>4. Cardinality(A) \in Nat /\ (Cardinality(A) = 0 <=> A = {})  BY <1>3, FS_CardinalityType, FS_EmptySet
  <1>5. Veces(s, x) = Cardinality(A)  BY <1>1 DEF Veces
  <1>6. A # {} <=> \E k \in 1 .. Len(s) : s[k] = x  BY <1>1
  <1>7. QED  BY <1>4, <1>5, <1>6

\* Two lists, one after the other, ...
LEMMA VecesJunto ==
    ASSUME NEW S, NEW s \in Seq(S), NEW t \in Seq(S), NEW x
    PROVE  Veces(s \o t, x) = Veces(s, x) + Veces(t, x)
  <1>1. PICK m \in Nat, n \in Nat : Len(s) = m /\ Len(t) = n  OBVIOUS
  <1>2. PICK A : A = {k \in 1 .. m : s[k] = x}  OBVIOUS
  <1>3. PICK C : C = {k \in 1 .. n : t[k] = x}  OBVIOUS
  <1>4. PICK B : B = {k \in m + 1 .. m + n : t[k - m] = x}  OBVIOUS
  <1>5. IsFiniteSet(A) /\ IsFiniteSet(B) /\ IsFiniteSet(C)
    <2>1. IsFiniteSet(1 .. m) /\ IsFiniteSet(1 .. n) /\ IsFiniteSet(m + 1 .. m + n)  BY FS_Interval
    <2>2. A \subseteq 1 .. m /\ B \subseteq m + 1 .. m + n /\ C \subseteq 1 .. n  BY <1>2, <1>3, <1>4
    <2>3. QED  BY <2>1, <2>2, FS_Subset
  <1>6. Cardinality(B) = Cardinality(C)
    <2>1. PICK f : f = [k \in C |-> k + m]  OBVIOUS
    <2>2. f \in [C -> B]
      <3>1. \A k \in C : k + m \in B
        <4>1. \A k \in C : k \in 1 .. n /\ t[k] = x /\ (k + m) - m = k  BY <1>3
        <4>2. \A k \in 1 .. n : k + m \in m + 1 .. m + n  OBVIOUS
        <4>3. QED  BY <1>4, <4>1, <4>2
      <3>2. QED  BY <2>1, <3>1
    <2>3. \A i, j \in C : f[i] = f[j] => i = j
      <3>1. \A i, j \in 1 .. n : i + m = j + m => i = j  OBVIOUS
      <3>2. QED  BY <1>3, <2>1, <3>1
    <2>4. \A b \in B : \E k \in C : f[k] = b
      <3>1. SUFFICES ASSUME NEW b \in B PROVE b - m \in C /\ (b - m) + m = b  BY <2>1
      <3>2. QED  BY <1>3, <1>4
    <2>5. f \in Bijection(C, B)  BY <2>2, <2>3, <2>4 DEF Bijection, Injection, Surjection, IsInjective
    <2>6. QED  BY <1>5, <2>5, FS_Bijection DEF ExistsBijection
  <1>7. {k \in 1 .. m + n : (s \o t)[k] = x} = A \union B
    <2>1. /\ \A k \in 1 .. m : (s \o t)[k] = s[k]
          /\ \A k \in m + 1 .. m + n : (s \o t)[k] = t[k - m]
      BY <1>1
    <2>2. 1 .. m + n = (1 .. m) \union (m + 1 .. m + n)  OBVIOUS
    <2>3. QED  BY <1>2, <1>4, <2>1, <2>2
  <1>8. A \intersect B = {}  BY <1>2, <1>4
  <1>9. Cardinality(A \union B) = Cardinality(A) + Cardinality(B)
    <2>1. Cardinality(A \intersect B) = 0 /\ Cardinality(A) \in Nat /\ Cardinality(B) \in Nat
      BY <1>5, <1>8, FS_EmptySet, FS_CardinalityType
    <2>2. Cardinality(A \union B) = Cardinality(A) + Cardinality(B) - Cardinality(A \intersect B)
      BY <1>5, FS_Union
    <2>3. QED  BY <2>1, <2>2
  <1>10. Len(s \o t) = m + n  BY <1>1
  <1>11. QED  BY <1>1, <1>2, <1>3, <1>6, <1>7, <1>9, <1>10 DEF Veces

\* ... n times the same element, ...
LEMMA VecesRepetir ==
    ASSUME NEW S, NEW e \in S, NEW n \in Nat, NEW x
    PROVE  Repetir(n, e) \in Seq(S) /\ Veces(Repetir(n, e), x) = IF e = x THEN n ELSE 0
  <1>1. Repetir(n, e) \in Seq(S) /\ Len(Repetir(n, e)) = n /\ \A k \in 1 .. n : Repetir(n, e)[k] = e
    BY DEF Repetir
  <1>2. Veces(Repetir(n, e), x) = Cardinality({k \in 1 .. n : e = x})  BY <1>1 DEF Veces
  <1>3. CASE e = x
    <2>1. {k \in 1 .. n : e = x} = 1 .. n  BY <1>3
    <2>2. Cardinality(1 .. n) = n  BY FS_Interval
    <2>3. QED  BY <1>1, <1>2, <1>3, <2>1, <2>2
  <1>4. CASE e # x
    <2>1. {k \in 1 .. n : e = x} = {}  BY <1>4
    <2>2. QED  BY <1>1, <1>2, <1>4, <2>1, FS_EmptySet
  <1>5. QED  BY <1>3, <1>4

\* ... and no element.
LEMMA VecesNada == ASSUME NEW x PROVE Veces(<<>>, x) = 0
  <1>1. {k \in 1 .. Len(<<>>) : <<>>[k] = x} = {}  OBVIOUS
  <1>2. QED  BY <1>1, FS_EmptySet DEF Veces

\* A list of one element.
LEMMA VecesSola ==
    ASSUME NEW S, NEW e \in S, NEW x
    PROVE  <<e>> \in Seq(S) /\ Veces(<<e>>, x) = IF e = x THEN 1 ELSE 0
  <1>1. <<e>> = Repetir(1, e)  BY DEF Repetir
  <1>2. QED  BY <1>1, VecesRepetir

\* A list with something before it.
LEMMA VecesUno ==
    ASSUME NEW S, NEW s \in Seq(S), NEW e \in S, NEW x
    PROVE  Veces(<<e>> \o s, x) = Veces(s, x) + (IF e = x THEN 1 ELSE 0)
  <1>1. PICK t \in Seq(S) : t = <<e>>  BY VecesSola
  <1>2. PICK n \in Nat : n = Veces(s, x)  BY VecesTipo
  <1>3. PICK d \in Nat : d = IF e = x THEN 1 ELSE 0  OBVIOUS
  <1>4. Veces(t, x) = d  BY <1>1, <1>3, VecesSola
  <1>5. Veces(t \o s, x) = d + n  BY <1>1, <1>2, <1>4, VecesJunto
  <1>6. d + n = n + d  OBVIOUS
  <1>7. QED  BY <1>1, <1>2, <1>3, <1>5, <1>6

\* A list with something after it.
LEMMA VecesUltimo ==
    ASSUME NEW S, NEW s \in Seq(S), NEW e \in S, NEW x
    PROVE  Veces(Append(s, e), x) = Veces(s, x) + (IF e = x THEN 1 ELSE 0)
  <1>1. PICK t \in Seq(S) : t = <<e>>  BY VecesSola
  <1>2. PICK n \in Nat : n = Veces(s, x)  BY VecesTipo
  <1>3. PICK d \in Nat : d = IF e = x THEN 1 ELSE 0  OBVIOUS
  <1>4. Veces(t, x) = d  BY <1>1, <1>3, VecesSola
  <1>5. Veces(s \o t, x) = n + d  BY <1>2, <1>4, VecesJunto
  <1>6. Append(s, e) = s \o t  BY <1>1
  <1>7. QED  BY <1>2, <1>3, <1>5, <1>6

\* A list without its first element.
LEMMA VecesCola ==
    ASSUME NEW S, NEW s \in Seq(S), s # <<>>, NEW x
    PROVE  Veces(s, x) = Veces(Tail(s), x) + (IF Head(s) = x THEN 1 ELSE 0)
  <1>1. Head(s) \in S /\ Tail(s) \in Seq(S) /\ s = <<Head(s)>> \o Tail(s)  OBVIOUS
  <1>2. PICK h \in S : h = Head(s)  BY <1>1
  <1>3. PICK t \in Seq(S) : t = Tail(s)  BY <1>1
  <1>4. Veces(<<h>> \o t, x) = Veces(t, x) + (IF h = x THEN 1 ELSE 0)  BY VecesUno
  <1>5. QED  BY <1>1, <1>2, <1>4, <1>3

-----------------------------------------------------------------------------
(* The lists of steps *)

\* The steps that Seguir puts before those that a thread has left: one, ...
LEMMA PrefijoUno ==
    ASSUME NEW S, NEW v \in Seq(S), NEW a \in S
    PROVE  <<a>> \o v \in Seq(S) /\ <<a>> \o v # <<>> /\ Head(<<a>> \o v) = a /\ Tail(<<a>> \o v) = v
  OBVIOUS

\* ... two, ...
LEMMA PrefijoDos ==
    ASSUME NEW S, NEW v \in Seq(S), NEW a \in S, NEW b \in S
    PROVE  /\ <<a, b>> \o v \in Seq(S) /\ <<a, b>> \o v # <<>>
           /\ Head(<<a, b>> \o v) = a /\ Tail(<<a, b>> \o v) = <<b>> \o v
  OBVIOUS

\* ... or three.
LEMMA PrefijoTres ==
    ASSUME NEW S, NEW v \in Seq(S), NEW a \in S, NEW b \in S, NEW c \in S
    PROVE  /\ <<a, b, c>> \o v \in Seq(S) /\ <<a, b, c>> \o v # <<>>
           /\ Head(<<a, b, c>> \o v) = a /\ Tail(<<a, b, c>> \o v) = <<b, c>> \o v
  OBVIOUS

-----------------------------------------------------------------------------
(* Types of the lists *)

\* RemoveFirst, SelectInSeq and RemoveAt give back what the kernel's lists are made of.
LEMMA SinElPrimero ==
    ASSUME NEW S, NEW s \in Seq(S), NEW e PROVE RemoveFirst(s, e) \in Seq(S)
  <1>1. CASE \E i \in 1 .. Len(s) : s[i] = e
    <2>1. PICK I : I = {i \in 1 .. Len(s) : s[i] = e}  OBVIOUS
    <2>2. I \subseteq Nat /\ I # {}  BY <1>1, <2>1
    <2>3. \E x \in I : \A y \in I : x <= y  BY <2>2, Minimo
    <2>4. PICK k : k = CHOOSE x \in I : \A y \in I : x <= y  OBVIOUS
    <2>5. k \in I  BY <2>3, <2>4
    <2>6. RemoveFirst(s, e) = RemoveAt(s, k)
      BY <1>1, <2>1, <2>2, <2>4 DEF RemoveFirst, SelectInSeq, Min
    <2>7. k \in 1 .. Len(s)  BY <2>1, <2>5
    <2>8. SubSeq(s, 1, k - 1) \in Seq(S) /\ SubSeq(s, k + 1, Len(s)) \in Seq(S)  BY <2>7
    <2>9. QED  BY <2>6, <2>8 DEF RemoveAt
  <1>2. CASE ~ \E i \in 1 .. Len(s) : s[i] = e  BY <1>2 DEF RemoveFirst
  <1>3. QED  BY <1>1, <1>2

\* buscar_index_pid_bloqueado returns a place of the list, or none.
LEMMA IndiceTipo ==
    ASSUME blocked \in Seq(Pids), NEW p PROVE IndiceBloqueado(p) \in Nat
  <1>1. PICK I : I = {i \in 1 .. Len(blocked) : blocked[i] = p}  OBVIOUS
  <1>2. I \subseteq Nat  BY <1>1
  <1>3. I # {} => Min(I) \in Nat
    <2>1. I # {} => \E x \in I : \A y \in I : x <= y  BY <1>2, Minimo
    <2>2. QED  BY <1>2, <2>1 DEF Min
  <1>4. IndiceBloqueado(p) = IF I # {} THEN Min(I) ELSE 0  BY <1>1 DEF IndiceBloqueado, SelectInSeq
  <1>5. QED  BY <1>3, <1>4

\* list_remove leaves a list of the same elements.
LEMMA SinUnLugar ==
    ASSUME NEW S, NEW s \in Seq(S), NEW k \in 1 .. Len(s) PROVE RemoveAt(s, k) \in Seq(S)
  <1>1. SubSeq(s, 1, k - 1) \in Seq(S) /\ SubSeq(s, k + 1, Len(s)) \in Seq(S)  OBVIOUS
  <1>2. QED  BY <1>1 DEF RemoveAt

-----------------------------------------------------------------------------
(* The shapes that the steps of a thread have *)

UnPaso == [op : Pasos, recurso : Recursos \union {Nadie}]
THilo == [pasos : Seq(UnPaso), pid : PidsN, despierta : PidsN, indice : Nat]

OpsSuma == {"sumar", "mirar", "sacar", "buscar", "desbloquear"}
Sumas(r) == {<<>>, PasosSumar(r), <<Paso("mirar", r)>>, PasosDespertar(r),
             <<Paso("buscar", r), Paso("desbloquear", r)>>, <<Paso("desbloquear", r)>>}

\* What is left of sumar_instancia_a_recurso comes before the rest.
Sumando(s, v, r) == \E w \in Sumas(r) : s = w \o v

\* The steps are what TypeOK says that they are.
LEMMA PasoTipo ==
    \A r \in Recursos \union {Nadie} : \A op \in Pasos :
        Paso(op, r) \in UnPaso /\ Paso(op, r).op = op /\ Paso(op, r).recurso = r
  BY DEF Paso, UnPaso

\* By the step that comes first.
CasosSuma(s, v, r) ==
    /\ s \in Seq(UnPaso) /\ s # <<>>
    /\ \/ /\ Head(s).op = "sumar" /\ Head(s).recurso = r
          /\ Tail(s) = <<Paso("mirar", r)>> \o v
       \/ /\ Head(s).op = "mirar" /\ Head(s).recurso = r /\ Tail(s) = v
       \/ /\ Head(s).op = "sacar" /\ Head(s).recurso = r
          /\ Tail(s) = <<Paso("buscar", r), Paso("desbloquear", r)>> \o v
          /\ SubSeq(s, 4, Len(s)) = v
       \/ /\ Head(s).op = "buscar" /\ Head(s).recurso = r
          /\ Tail(s) = <<Paso("desbloquear", r)>> \o v
       \/ /\ Head(s).op = "desbloquear" /\ Head(s).recurso = r /\ Tail(s) = v
       \/ s = v /\ Head(s).op \notin OpsSuma

\* In the middle of sumar_instancia_a_recurso a thread has one of its steps next, or none left.
LEMMA SumandoCasos ==
    ASSUME NEW r \in Recursos, NEW v \in Seq(UnPaso), v # <<>>, Head(v).op \notin OpsSuma,
           NEW s, Sumando(s, v, r)
    PROVE  CasosSuma(s, v, r)
  <1> USE DEF CasosSuma
  <1>1. PICK w \in Sumas(r) : s = w \o v  BY DEF Sumando
  <1>2. /\ Paso("sumar", r) \in UnPaso /\ Paso("mirar", r) \in UnPaso /\ Paso("sacar", r) \in UnPaso
        /\ Paso("buscar", r) \in UnPaso /\ Paso("desbloquear", r) \in UnPaso
        /\ Paso("sumar", r).op = "sumar" /\ Paso("mirar", r).op = "mirar" /\ Paso("sacar", r).op = "sacar"
        /\ Paso("buscar", r).op = "buscar" /\ Paso("desbloquear", r).op = "desbloquear"
        /\ Paso("sumar", r).recurso = r /\ Paso("mirar", r).recurso = r /\ Paso("sacar", r).recurso = r
        /\ Paso("buscar", r).recurso = r /\ Paso("desbloquear", r).recurso = r
    BY PasoTipo DEF Pasos
  <1>3. PICK a \in UnPaso, b \in UnPaso, c \in UnPaso, d \in UnPaso, e \in UnPaso :
           /\ a = Paso("sumar", r) /\ b = Paso("mirar", r) /\ c = Paso("sacar", r)
           /\ d = Paso("buscar", r) /\ e = Paso("desbloquear", r)
    BY <1>2
  <1>4. CASE w = <<>>  BY <1>1, <1>4
  <1>5. CASE w = <<a, b>>
    <2>1. s \in Seq(UnPaso) /\ s # <<>> /\ Head(s) = a /\ Tail(s) = <<b>> \o v  BY <1>1, <1>5, PrefijoDos
    <2>2. QED  BY <1>2, <1>3, <2>1
  <1>6. CASE w = <<b>>
    <2>1. s \in Seq(UnPaso) /\ s # <<>> /\ Head(s) = b /\ Tail(s) = v  BY <1>1, <1>6, PrefijoUno
    <2>2. QED  BY <1>2, <1>3, <2>1
  <1>7. CASE w = <<c, d, e>>
    <2>1. /\ s \in Seq(UnPaso) /\ s # <<>> /\ Head(s) = c /\ Tail(s) = <<d, e>> \o v
          /\ SubSeq(s, 4, Len(s)) = v
      <3>1. s = <<c, d, e>> \o v  BY <1>1, <1>7
      <3>2. s \in Seq(UnPaso) /\ s # <<>> /\ Head(s) = c /\ Tail(s) = <<d, e>> \o v
        BY <3>1
      <3>3. SubSeq(s, 4, Len(s)) = v  BY <3>1
      <3>4. QED  BY <3>2, <3>3
    <2>2. QED  BY <1>2, <1>3, <2>1
  <1>8. CASE w = <<d, e>>
    <2>1. s \in Seq(UnPaso) /\ s # <<>> /\ Head(s) = d /\ Tail(s) = <<e>> \o v  BY <1>1, <1>8, PrefijoDos
    <2>2. QED  BY <1>2, <1>3, <2>1
  <1>9. CASE w = <<e>>
    <2>1. s \in Seq(UnPaso) /\ s # <<>> /\ Head(s) = e /\ Tail(s) = v  BY <1>1, <1>9, PrefijoUno
    <2>2. QED  BY <1>2, <1>3, <2>1
  <1>10. w \in {<<>>, <<a, b>>, <<b>>, <<c, d, e>>, <<d, e>>, <<e>>}
    BY <1>1, <1>3 DEF Sumas, PasosSumar, PasosDespertar
  <1>11. QED  BY <1>4, <1>5, <1>6, <1>7, <1>8, <1>9, <1>10

\* Where each step of sumar_instancia_a_recurso leads is in the middle of it too.
LEMMA SumandoDe ==
    ASSUME NEW r \in Recursos, NEW v \in Seq(UnPaso)
    PROVE  /\ Sumando(v, v, r)
           /\ Sumando(PasosSumar(r) \o v, v, r) /\ Head(PasosSumar(r) \o v).op = "sumar"
           /\ Sumando(<<Paso("mirar", r)>> \o v, v, r) /\ Head(<<Paso("mirar", r)>> \o v).op = "mirar"
           /\ Sumando(PasosDespertar(r) \o v, v, r) /\ Head(PasosDespertar(r) \o v).op = "sacar"
           /\ Sumando(<<Paso("buscar", r), Paso("desbloquear", r)>> \o v, v, r)
           /\ Head(<<Paso("buscar", r), Paso("desbloquear", r)>> \o v).op = "buscar"
           /\ Sumando(<<Paso("desbloquear", r)>> \o v, v, r)
           /\ Head(<<Paso("desbloquear", r)>> \o v).op = "desbloquear"
  <1>1. \A w \in Sumas(r) : Sumando(w \o v, v, r)  BY DEF Sumando
  <1>2. /\ Paso("sumar", r) \in UnPaso /\ Paso("mirar", r) \in UnPaso /\ Paso("sacar", r) \in UnPaso
        /\ Paso("buscar", r) \in UnPaso /\ Paso("desbloquear", r) \in UnPaso
        /\ Paso("sumar", r).op = "sumar" /\ Paso("mirar", r).op = "mirar" /\ Paso("sacar", r).op = "sacar"
        /\ Paso("buscar", r).op = "buscar" /\ Paso("desbloquear", r).op = "desbloquear"
    BY PasoTipo DEF Pasos
  <1>3. /\ Head(PasosSumar(r) \o v) = Paso("sumar", r) /\ Head(<<Paso("mirar", r)>> \o v) = Paso("mirar", r)
        /\ Head(PasosDespertar(r) \o v) = Paso("sacar", r)
        /\ Head(<<Paso("buscar", r), Paso("desbloquear", r)>> \o v) = Paso("buscar", r)
        /\ Head(<<Paso("desbloquear", r)>> \o v) = Paso("desbloquear", r)
    BY <1>2, PrefijoUno, PrefijoDos, PrefijoTres DEF PasosSumar, PasosDespertar
  <1>4. Sumando(<<>> \o v, v, r) /\ <<>> \o v = v  BY <1>1 DEF Sumas
  <1>5. Sumando(v, v, r)  BY <1>4
  <1>6. Head(PasosSumar(r) \o v).op = "sumar" /\ Head(PasosDespertar(r) \o v).op = "sacar"
        /\ Head(<<Paso("mirar", r)>> \o v).op = "mirar"
        /\ Head(<<Paso("buscar", r), Paso("desbloquear", r)>> \o v).op = "buscar"
        /\ Head(<<Paso("desbloquear", r)>> \o v).op = "desbloquear"
    BY <1>2, <1>3
  <1>7. /\ PasosSumar(r) \in Sumas(r) /\ <<Paso("mirar", r)>> \in Sumas(r) /\ PasosDespertar(r) \in Sumas(r)
        /\ <<Paso("buscar", r), Paso("desbloquear", r)>> \in Sumas(r) /\ <<Paso("desbloquear", r)>> \in Sumas(r)
    BY DEF Sumas
  <1>8. QED  BY <1>1, <1>5, <1>6, <1>7

\* What is left of liberar_recursos and of the end of the process, whose entries are those of f.
Cierre(v, f) ==
    /\ v \in Seq(UnPaso) /\ v # <<>>
    /\ \A k \in 1 .. Len(v) :
          \/ k = Len(v) /\ v[k] = Paso("destruir", Nadie)
          \/ k < Len(v) /\ v[k].op = "quitar" /\ v[k].recurso \in DOMAIN f
          \/ k < Len(v) /\ v[k].op = "devolver" /\ v[k].recurso \in Recursos

\* A release has a resource to visit, an instance to give back, or the process to destroy.
LEMMA CierreCasos ==
    ASSUME NEW v, NEW f, Cierre(v, f)
    PROVE  /\ Head(v).op \notin OpsSuma
           /\ \/ Head(v) = Paso("destruir", Nadie) /\ Head(v).op = "destruir" /\ Tail(v) = <<>>
              \/ Head(v).op = "quitar" /\ Head(v).recurso \in DOMAIN f /\ Cierre(Tail(v), f)
              \/ Head(v).op = "devolver" /\ Head(v).recurso \in Recursos /\ Cierre(Tail(v), f)
  <1>1. v \in Seq(UnPaso) /\ v # <<>> /\ Head(v) = v[1] /\ Len(v) \in Nat /\ Len(v) >= 1  BY DEF Cierre
  <1>2. /\ Tail(v) \in Seq(UnPaso) /\ Len(Tail(v)) = Len(v) - 1 /\ (Tail(v) = <<>> <=> Len(Tail(v)) = 0)
        /\ \A k \in 1 .. Len(Tail(v)) : Tail(v)[k] = v[k + 1]
    <2>1. \A t \in Seq(UnPaso) : t = <<>> <=> Len(t) = 0  OBVIOUS
    <2>2. Tail(v) \in Seq(UnPaso) /\ Len(Tail(v)) = Len(v) - 1  BY <1>1
    <2>3. \A k \in 1 .. Len(Tail(v)) : Tail(v)[k] = v[k + 1]  BY <1>1
    <2>4. QED  BY <2>1, <2>2, <2>3
  <1>3. CASE Len(v) = 1
    <2>1. v[1] = Paso("destruir", Nadie)  BY <1>1, <1>3 DEF Cierre
    <2>2. Tail(v) = <<>>  BY <1>2, <1>3
    <2>3. QED  BY <1>1, <2>1, <2>2 DEF Paso, OpsSuma
  <1>4. CASE Len(v) > 1
    <2>1. \/ v[1].op = "quitar" /\ v[1].recurso \in DOMAIN f
          \/ v[1].op = "devolver" /\ v[1].recurso \in Recursos
      BY <1>1, <1>4 DEF Cierre
    <2>2. Tail(v) # <<>>  BY <1>2, <1>4
    <2>3. ASSUME NEW k \in 1 .. Len(Tail(v))
          PROVE  \/ k = Len(Tail(v)) /\ Tail(v)[k] = Paso("destruir", Nadie)
                 \/ k < Len(Tail(v)) /\ Tail(v)[k].op = "quitar" /\ Tail(v)[k].recurso \in DOMAIN f
                 \/ k < Len(Tail(v)) /\ Tail(v)[k].op = "devolver" /\ Tail(v)[k].recurso \in Recursos
      <3>1. k + 1 \in 1 .. Len(v) /\ Tail(v)[k] = v[k + 1]  BY <1>1, <1>2
      <3>2. k + 1 = Len(v) <=> k = Len(Tail(v))  BY <1>1, <1>2
      <3>3. k + 1 < Len(v) <=> k < Len(Tail(v))  BY <1>1, <1>2
      <3>4. QED  BY <3>1, <3>2, <3>3 DEF Cierre
    <2>4. Cierre(Tail(v), f)  BY <1>2, <2>2, <2>3 DEF Cierre
    <2>5. QED  BY <1>1, <2>1, <2>4 DEF OpsSuma
  <1>5. Len(v) = 1 \/ Len(v) > 1
    <2>1. PICK n \in Nat : n = Len(v) /\ n >= 1  BY <1>1
    <2>2. n = 1 \/ n > 1  BY <2>1
    <2>3. QED  BY <2>1, <2>2
  <1>6. QED  BY <1>3, <1>4, <1>5

\* It is one when there are instances to give back besides, or entries that it does not visit.
LEMMA CierreCon ==
    ASSUME NEW v, NEW f, Cierre(v, f), NEW r \in Recursos, NEW n \in Nat
    PROVE  /\ \A g : DOMAIN f \subseteq DOMAIN g => Cierre(v, g)
           /\ Cierre(Repetir(n, Paso("devolver", r)) \o v, f)
  <1>1. \A g : DOMAIN f \subseteq DOMAIN g => Cierre(v, g)  BY DEF Cierre
  <1>2. PICK e \in UnPaso : e = Paso("devolver", r) /\ e.op = "devolver" /\ e.recurso = r
    BY PasoTipo DEF Pasos
  <1>3. PICK p \in Seq(UnPaso) : /\ p = Repetir(n, e) /\ Len(p) = n
                                 /\ \A k \in 1 .. n : p[k] = e
    <2>1. Repetir(n, e) \in Seq(UnPaso)  BY VecesRepetir
    <2>2. Len(Repetir(n, e)) = n /\ \A k \in 1 .. n : Repetir(n, e)[k] = e  BY DEF Repetir
    <2>3. QED  BY <2>1, <2>2
  <1>4. v \in Seq(UnPaso) /\ v # <<>> /\ Len(v) \in Nat /\ Len(v) >= 1  BY DEF Cierre
  <1>5. /\ p \o v \in Seq(UnPaso) /\ Len(p \o v) = n + Len(v)
        /\ \A k \in 1 .. n : (p \o v)[k] = e
        /\ \A k \in n + 1 .. n + Len(v) : (p \o v)[k] = v[k - n]
    BY <1>3, <1>4
  <1>6. PICK s : s = p \o v  OBVIOUS
  <1>7. ASSUME NEW k \in 1 .. Len(s)
        PROVE  \/ k = Len(s) /\ s[k] = Paso("destruir", Nadie)
               \/ k < Len(s) /\ s[k].op = "quitar" /\ s[k].recurso \in DOMAIN f
               \/ k < Len(s) /\ s[k].op = "devolver" /\ s[k].recurso \in Recursos
    <2>1. CASE k <= n  BY <1>2, <1>4, <1>5, <1>6, <2>1
    <2>2. CASE k > n
      <3>1. PICK j \in 1 .. Len(v) : j = k - n  BY <1>4, <1>5, <1>6, <2>2
      <3>2. s[k] = v[j]  BY <1>5, <1>6, <2>2, <3>1
      <3>3. (j = Len(v) <=> k = Len(s)) /\ (j < Len(v) <=> k < Len(s))  BY <1>4, <1>5, <1>6, <3>1
      <3>4. QED  BY <3>2, <3>3 DEF Cierre
    <2>3. QED  BY <1>4, <1>5, <1>6, <2>1, <2>2
  <1>8. s # <<>>  BY <1>4, <1>5, <1>6
  <1>9. Cierre(s, f)  BY <1>5, <1>6, <1>7, <1>8 DEF Cierre
  <1>10. QED  BY <1>1, <1>2, <1>3, <1>6, <1>9

\* liberar_recursos starts with one.
LEMMA CierreNuevo ==
    ASSUME NEW f, DOMAIN f \subseteq Recursos, NEW orden \in SetToSeqs(DOMAIN f)
    PROVE  Cierre(PasosLiberar(orden), f)
  <1>1. IsFiniteSet(DOMAIN f)  BY ConstantesOK, FS_Subset
  <1>2. PICK n \in Nat : n = Cardinality(DOMAIN f)  BY <1>1, FS_CardinalityType
  <1>3. orden \in [1 .. n -> DOMAIN f]  BY <1>2 DEF SetToSeqs
  <1>4. Len(orden) = n  BY <1>3
  <1>5. PICK p : p = [k \in 1 .. n |-> Paso("quitar", orden[k])]  OBVIOUS
  <1>6. \A k \in 1 .. n : orden[k] \in DOMAIN f /\ orden[k] \in Recursos  BY <1>3
  <1>7. \A k \in 1 .. n : p[k] \in UnPaso /\ p[k].op = "quitar" /\ p[k].recurso \in DOMAIN f
    BY <1>5, <1>6, PasoTipo DEF Pasos
  <1>8. p \in Seq(UnPaso) /\ Len(p) = n  BY <1>5, <1>7
  <1>9. PICK d \in UnPaso : d = Paso("destruir", Nadie)  BY PasoTipo DEF Pasos
  <1>10. PICK s \in Seq(UnPaso) : s = Append(p, d)
    <2>1. Append(p, d) \in Seq(UnPaso)  BY <1>8
    <2>2. QED  BY <2>1
  <1>11. Len(s) = n + 1 /\ s[n + 1] = d /\ \A k \in 1 .. n : s[k] = p[k]  BY <1>8, <1>10
  <1>12. ASSUME NEW k \in 1 .. Len(s)
         PROVE  \/ k = Len(s) /\ s[k] = Paso("destruir", Nadie)
                \/ k < Len(s) /\ s[k].op = "quitar" /\ s[k].recurso \in DOMAIN f
    <2>1. CASE k = n + 1  BY <1>9, <1>11, <2>1
    <2>2. CASE k \in 1 .. n  BY <1>7, <1>11, <2>2
    <2>3. QED  BY <1>11, <2>1, <2>2
  <1>13. s # <<>>  BY <1>11
  <1>14. PasosLiberar(orden) = p \o <<d>>  BY <1>4, <1>5, <1>9 DEF PasosLiberar
  <1>15. p \o <<d>> = s  BY <1>8, <1>10
  <1>16. QED  BY <1>12, <1>13, <1>14, <1>15 DEF Cierre

\* What recibir_dispatch may have left to do.
PasosWait(r) ==
    {<<Paso("restar", r), Paso("leer", r)>>, <<Paso("leer", r)>>,
     <<Paso("encolar", r), Paso("bloquear", r), Paso("liberar_cpu", r)>>,
     <<Paso("bloquear", r), Paso("liberar_cpu", r)>>, <<Paso("liberar_cpu", r)>>}
PasosMotivos ==
    {<<Paso("fallar", Nadie), Paso("liberar_cpu", Nadie), Paso("finalizar", Nadie)>>,
     <<Paso("liberar_cpu", Nadie), Paso("finalizar", Nadie)>>, <<Paso("finalizar", Nadie)>>,
     <<Paso("fallar", Nadie), Paso("finalizar", Nadie), Paso("liberar_cpu", Nadie)>>,
     <<Paso("finalizar", Nadie), Paso("liberar_cpu", Nadie)>>, <<Paso("liberar_cpu", Nadie)>>,
     <<Paso("desalojar", Nadie), Paso("liberar_cpu", Nadie)>>,
     <<Paso("bloquear", Nadie), Paso("encolar_io", Nadie), Paso("liberar_cpu", Nadie)>>,
     <<Paso("encolar_io", Nadie), Paso("liberar_cpu", Nadie)>>}
Retenida(r) == <<Paso("restar_retenida", r)>>
Seguida(s) == s = <<>> \/ s \in PasosMotivos \/ \E r \in Recursos : s \in PasosWait(r)
FormaDispatch(s) == Seguida(s) \/ \E r \in Recursos : Sumando(s, Retenida(r), r)

\* What SIGNAL does once the instance is counted is one step.
LEMMA RetenidaTipo ==
    ASSUME NEW r \in Recursos
    PROVE  /\ Retenida(r) \in Seq(UnPaso) /\ Retenida(r) # <<>> /\ Head(Retenida(r)) = Paso("restar_retenida", r)
           /\ Head(Retenida(r)).op = "restar_retenida" /\ Head(Retenida(r)).recurso = r
           /\ Head(Retenida(r)).op \notin OpsSuma /\ Tail(Retenida(r)) = <<>>
  <1>1. PICK e \in UnPaso : e = Paso("restar_retenida", r) /\ e.op = "restar_retenida" /\ e.recurso = r
    BY PasoTipo DEF Pasos
  <1>2. Retenida(r) = <<e>>  BY <1>1 DEF Retenida
  <1>3. QED  BY <1>1, <1>2 DEF OpsSuma

OpsSeguidas == {"restar", "encolar", "bloquear", "liberar_cpu", "restar_retenida", "fallar", "finalizar",
                "desalojar", "encolar_io"}

\* The steps of WAIT, one by one.
LEMMA WaitCasos ==
    ASSUME NEW r \in Recursos, NEW s \in PasosWait(r)
    PROVE  /\ s \in Seq(UnPaso) /\ s # <<>> /\ Seguida(Tail(s))
           /\ Head(s).op \in {"restar", "leer", "encolar", "bloquear", "liberar_cpu"} /\ Head(s).recurso = r
           /\ Head(s).op = "restar" => s = <<Paso("restar", r), Paso("leer", r)>>
           /\ Head(s).op = "leer" => s = <<Paso("leer", r)>> /\ Tail(s) = <<>>
  <1>1. PICK a \in UnPaso, b \in UnPaso, c \in UnPaso, d \in UnPaso, e \in UnPaso :
           /\ a = Paso("restar", r) /\ b = Paso("leer", r) /\ c = Paso("encolar", r)
           /\ d = Paso("bloquear", r) /\ e = Paso("liberar_cpu", r)
           /\ a.op = "restar" /\ b.op = "leer" /\ c.op = "encolar" /\ d.op = "bloquear" /\ e.op = "liberar_cpu"
           /\ a.recurso = r /\ b.recurso = r /\ c.recurso = r /\ d.recurso = r /\ e.recurso = r
    BY PasoTipo DEF Pasos
  <1>2. PasosWait(r) = {<<a, b>>, <<b>>, <<c, d, e>>, <<d, e>>, <<e>>}  BY <1>1 DEF PasosWait
  <1>3. \A t \in PasosWait(r) : Seguida(t)  BY DEF Seguida
  <1>4. Seguida(<<>>)  BY DEF Seguida
  <1>5. CASE s = <<a, b>>
    <2>1. s \in Seq(UnPaso) /\ s # <<>> /\ Head(s) = a /\ Tail(s) = <<b>>  BY <1>5
    <2>2. QED  BY <1>1, <1>2, <1>3, <1>5, <2>1
  <1>6. CASE s = <<b>>
    <2>1. s \in Seq(UnPaso) /\ s # <<>> /\ Head(s) = b /\ Tail(s) = <<>>  BY <1>6
    <2>2. QED  BY <1>1, <1>4, <1>6, <2>1
  <1>7. CASE s = <<c, d, e>>
    <2>1. s \in Seq(UnPaso) /\ s # <<>> /\ Head(s) = c /\ Tail(s) = <<d, e>>  BY <1>7
    <2>2. QED  BY <1>1, <1>2, <1>3, <2>1
  <1>8. CASE s = <<d, e>>
    <2>1. s \in Seq(UnPaso) /\ s # <<>> /\ Head(s) = d /\ Tail(s) = <<e>>  BY <1>8
    <2>2. QED  BY <1>1, <1>2, <1>3, <2>1
  <1>9. CASE s = <<e>>
    <2>1. s \in Seq(UnPaso) /\ s # <<>> /\ Head(s) = e /\ Tail(s) = <<>>  BY <1>9
    <2>2. QED  BY <1>1, <1>4, <2>1
  <1>10. QED  BY <1>2, <1>5, <1>6, <1>7, <1>8, <1>9

\* The steps of the other reasons of eviction, one by one.
LEMMA MotivosCasos ==
    ASSUME NEW s \in PasosMotivos
    PROVE  /\ s \in Seq(UnPaso) /\ s # <<>> /\ Seguida(Tail(s))
           /\ Head(s).op \in {"fallar", "finalizar", "desalojar", "bloquear", "encolar_io", "liberar_cpu"}
  <1>1. PICK a \in UnPaso, b \in UnPaso, c \in UnPaso, d \in UnPaso, e \in UnPaso, g \in UnPaso :
           /\ a = Paso("fallar", Nadie) /\ b = Paso("liberar_cpu", Nadie) /\ c = Paso("finalizar", Nadie)
           /\ d = Paso("desalojar", Nadie) /\ e = Paso("bloquear", Nadie) /\ g = Paso("encolar_io", Nadie)
           /\ a.op = "fallar" /\ b.op = "liberar_cpu" /\ c.op = "finalizar" /\ d.op = "desalojar"
           /\ e.op = "bloquear" /\ g.op = "encolar_io"
    BY PasoTipo DEF Pasos
  <1>2. PasosMotivos = {<<a, b, c>>, <<b, c>>, <<c>>, <<a, c, b>>, <<c, b>>, <<b>>, <<d, b>>,
                        <<e, g, b>>, <<g, b>>}
    BY <1>1 DEF PasosMotivos
  <1>3. \A t \in PasosMotivos \union {<<>>} : Seguida(t)  BY DEF Seguida
  <1>4. /\ s \in Seq(UnPaso) /\ s # <<>> /\ Tail(s) \in PasosMotivos \union {<<>>}
        /\ Head(s) \in {a, b, c, d, e, g}
    <2>1. CASE s = <<c>>
      <3>1. s \in Seq(UnPaso) /\ s # <<>> /\ Tail(s) = <<>> /\ Head(s) = c  BY <2>1
      <3>2. QED  BY <1>2, <3>1
    <2>2. CASE s = <<b>>
      <3>1. s \in Seq(UnPaso) /\ s # <<>> /\ Tail(s) = <<>> /\ Head(s) = b  BY <2>2
      <3>2. QED  BY <1>2, <3>1
    <2>3. CASE s = <<b, c>>
      <3>1. s \in Seq(UnPaso) /\ s # <<>> /\ Tail(s) = <<c>> /\ Head(s) = b  BY <2>3
      <3>2. QED  BY <1>2, <3>1
    <2>4. CASE s = <<c, b>>
      <3>1. s \in Seq(UnPaso) /\ s # <<>> /\ Tail(s) = <<b>> /\ Head(s) = c  BY <2>4
      <3>2. QED  BY <1>2, <3>1
    <2>5. CASE s = <<d, b>>
      <3>1. s \in Seq(UnPaso) /\ s # <<>> /\ Tail(s) = <<b>> /\ Head(s) = d  BY <2>5
      <3>2. QED  BY <1>2, <3>1
    <2>6. CASE s = <<g, b>>
      <3>1. s \in Seq(UnPaso) /\ s # <<>> /\ Tail(s) = <<b>> /\ Head(s) = g  BY <2>6
      <3>2. QED  BY <1>2, <3>1
    <2>7. CASE s = <<a, b, c>>
      <3>1. s \in Seq(UnPaso) /\ s # <<>> /\ Tail(s) = <<b, c>> /\ Head(s) = a  BY <2>7
      <3>2. QED  BY <1>2, <3>1
    <2>8. CASE s = <<a, c, b>>
      <3>1. s \in Seq(UnPaso) /\ s # <<>> /\ Tail(s) = <<c, b>> /\ Head(s) = a  BY <2>8
      <3>2. QED  BY <1>2, <3>1
    <2>9. CASE s = <<e, g, b>>
      <3>1. s \in Seq(UnPaso) /\ s # <<>> /\ Tail(s) = <<g, b>> /\ Head(s) = e  BY <2>9
      <3>2. QED  BY <1>2, <3>1
    <2>10. QED  BY <1>2, <2>1, <2>2, <2>3, <2>4, <2>5, <2>6, <2>7, <2>8, <2>9
  <1>5. QED  BY <1>1, <1>3, <1>4

\* What recibir_dispatch has after the step that comes first.
LEMMA DispatchCasos ==
    ASSUME NEW s, FormaDispatch(s), s # <<>>
    PROVE  /\ s \in Seq(UnPaso)
           /\ \/ /\ Head(s).op \in OpsSeguidas /\ Seguida(Tail(s))
                 /\ Head(s).op \in {"restar", "encolar", "restar_retenida"} => Head(s).recurso \in Recursos
              \/ Head(s).op = "leer" /\ Head(s).recurso \in Recursos /\ Tail(s) = <<>>
              \/ /\ Head(s).op \in OpsSuma /\ Head(s).recurso \in Recursos
                 /\ \E r \in Recursos : Sumando(s, Retenida(r), r)
  <1>1. CASE \E r \in Recursos : s \in PasosWait(r)
    BY <1>1, WaitCasos DEF OpsSeguidas
  <1>2. CASE s \in PasosMotivos
    BY <1>2, MotivosCasos DEF OpsSeguidas
  <1>3. ASSUME NEW r \in Recursos, Sumando(s, Retenida(r), r)
        PROVE  /\ s \in Seq(UnPaso)
               /\ \/ /\ Head(s).op = "restar_retenida" /\ Seguida(Tail(s)) /\ Head(s).recurso = r
                  \/ Head(s).op \in OpsSuma /\ Head(s).recurso = r
    <2>1. Seguida(<<>>)  BY DEF Seguida
    <2>2. PICK v \in Seq(UnPaso) : /\ v = Retenida(r) /\ v # <<>> /\ Head(v).op \notin OpsSuma /\ Tail(v) = <<>>
                                   /\ Head(v).op = "restar_retenida" /\ Head(v).recurso = r
      <3>1. /\ Retenida(r) \in Seq(UnPaso) /\ Retenida(r) # <<>> /\ Head(Retenida(r)).op \notin OpsSuma
            /\ Tail(Retenida(r)) = <<>> /\ Head(Retenida(r)).op = "restar_retenida" /\ Head(Retenida(r)).recurso = r
        BY RetenidaTipo
      <3>2. QED  BY <3>1
    <2>3. Sumando(s, v, r)  BY <1>3, <2>2
    <2>4. /\ s \in Seq(UnPaso)
          /\ s = v \/ (Head(s).op \in OpsSuma /\ Head(s).recurso = r)
      <3>1. v # <<>> /\ Head(v).op \notin OpsSuma  BY <2>2
      <3>2. CasosSuma(s, v, r)  BY <2>3, <3>1, SumandoCasos
      <3>3. QED  BY <3>2 DEF CasosSuma, OpsSuma
    <2>5. QED  BY <2>1, <2>2, <2>4
  <1>4. QED  BY <1>1, <1>2, <1>3 DEF FormaDispatch, Seguida, OpsSeguidas

\* A list that Seguida describes is one of recibir_dispatch's.
LEMMA SeguidaForma ==
    ASSUME NEW s, Seguida(s)
    PROVE  FormaDispatch(s) /\ s \in Seq(UnPaso) /\ (s # <<>> => Head(s).op \notin OpsSuma)
  <1>1. CASE s = <<>>  BY <1>1 DEF FormaDispatch
  <1>2. CASE s \in PasosMotivos  BY <1>2, MotivosCasos DEF FormaDispatch, OpsSuma
  <1>3. ASSUME NEW r \in Recursos, s \in PasosWait(r)
        PROVE  FormaDispatch(s) /\ s \in Seq(UnPaso) /\ (s # <<>> => Head(s).op \notin OpsSuma)
    BY <1>3, WaitCasos DEF FormaDispatch, Seguida, OpsSuma
  <1>4. QED  BY <1>1, <1>2, <1>3 DEF Seguida

-----------------------------------------------------------------------------
(* Types *)

\* recursos_asignados_por_proceso
TAsignadas == UNION {[S -> 0 .. Vuelta - 1] : S \in SUBSET Recursos}

\* Who it is about, and who is woken up, are known where they are needed.
TienePids(x) ==
    /\ x \in THilo
    /\ x.pasos # <<>> => x.pid \in Pids
    /\ x.pasos # <<>> /\ Head(x.pasos).op \in {"buscar", "desbloquear"} => x.despierta \in Pids
DispatchOK(x) == TienePids(x) /\ FormaDispatch(x.pasos)

FormaElim(s, v, f) == Cierre(v, f) /\ (s = v \/ \E r \in Recursos : Sumando(s, v, r))
ElimOK(x, a) == TienePids(x) /\ (x.pasos # <<>> => \E v : FormaElim(x.pasos, v, a[x.pid]))

TRespuesta == [tipo : {"PCB"}, pid : Pids]
                  \union [tipo : {"RESOURCE_OK", "RESOURCE_FAIL", "RESOURCE_BLOCKED"}, pid : {Nadie}]
TPedido == [motivo : Motivos, pid : Pids, recurso : Recursos \union {Nadie, Inexistente}]
TCpu == [en : {"libre"}, pid : {Nadie}] \union [en : {"ciclo", "espera", "chequear"}, pid : Pids]
TEstado == [Pids -> {"READY", "EXEC", "BLOCKED", "TERMINATED"}]
TFlags == {"end_process", "interruption", "input_ouput", "bloqueado_por_resource"}

\* What the threads share, and what the CPU keeps.
DatosOK ==
    /\ carga \in Cargas /\ instancias \in [Recursos -> Int] /\ cola_recurso \in [Recursos -> Seq(Pids)]
    /\ blocked \in Seq(Pids) /\ ready \in Seq(Pids) /\ exit \in Seq(Pids) /\ cola_io \in Seq(Pids)
    /\ estado \in TEstado /\ eliminados \subseteq Pids /\ cpu_libre \in Nat
    /\ vivo \in BOOLEAN
ViajesOK ==
    /\ pc \in [Pids -> Nat \ {0}] /\ cpu \in TCpu /\ flags \subseteq TFlags
    /\ a_cpu \in Seq(TRespuesta) /\ a_kernel \in Seq(TPedido)

InvTipos ==
    /\ DatosOK /\ ViajesOK /\ asignadas \in [Pids -> TAsignadas]
    /\ hilo \in [Hilos -> THilo]
    /\ DispatchOK(hilo["dispatch"]) /\ ElimOK(hilo["eliminacion"], asignadas)

\* A list of elements of A is one of elements of a larger set.
LEMMA SeqMayor == ASSUME NEW A, NEW B, A \subseteq B, NEW s \in Seq(A) PROVE s \in Seq(B)
  OBVIOUS

\* The invariant says more than the types.
LEMMA TiposImplican == InvTipos => TypeOK
  <1> SUFFICES ASSUME InvTipos PROVE TypeOK  OBVIOUS
  <1>1. asignadas \in [Pids -> TAsignadas]  BY DEF InvTipos
  <1>2. \A p \in Pids : DOMAIN asignadas[p] \subseteq Recursos
                          /\ \A r \in DOMAIN asignadas[p] : asignadas[p][r] \in 0 .. Vuelta - 1
    BY <1>1 DEF TAsignadas
  <1>3. /\ a_cpu \in Seq([tipo : {"PCB", "RESOURCE_OK", "RESOURCE_FAIL", "RESOURCE_BLOCKED"}, pid : PidsN])
        /\ cpu \in [en : {"libre", "ciclo", "espera", "chequear"}, pid : PidsN]
    <2>1. /\ TRespuesta \subseteq [tipo : {"PCB", "RESOURCE_OK", "RESOURCE_FAIL", "RESOURCE_BLOCKED"}, pid : PidsN]
          /\ TCpu \subseteq [en : {"libre", "ciclo", "espera", "chequear"}, pid : PidsN]
      BY DEF TRespuesta, TCpu, PidsN
    <2>2. a_cpu \in Seq(TRespuesta) /\ cpu \in TCpu  BY DEF InvTipos, ViajesOK
    <2>3. QED  BY <2>1, <2>2, SeqMayor
  <1>4. a_kernel \in Seq([motivo : Motivos, pid : Pids, recurso : Recursos \union {Nadie, Inexistente}])
    BY DEF InvTipos, ViajesOK, TPedido
  <1>5. hilo \in [Hilos -> [pasos : Seq([op : Pasos, recurso : Recursos \union {Nadie}]),
                            pid : PidsN, despierta : PidsN, indice : Nat]]
    BY DEF InvTipos, THilo, UnPaso
  <1>6. QED  BY <1>2, <1>3, <1>4, <1>5 DEF InvTipos, DatosOK, ViajesOK, TEstado, TFlags, TypeOK

\* retener_instancia_de_recurso keeps the entries of a process, and adds one.
LEMMA RetenerTipo ==
    ASSUME NEW f \in TAsignadas, NEW r \in Recursos
    PROVE  Retener(f, r) \in TAsignadas /\ DOMAIN Retener(f, r) = DOMAIN f \union {r}
  <1>1. Vuelta \in Nat /\ Vuelta >= 2  BY ConstantesOK
  <1>2. \A n \in Int : n % Vuelta \in 0 .. Vuelta - 1  BY <1>1
  <1>3. PICK S \in SUBSET Recursos : f \in [S -> 0 .. Vuelta - 1]  BY DEF TAsignadas
  <1>4. Retener(f, r) \in [S \union {r} -> 0 .. Vuelta - 1]  BY <1>1, <1>2, <1>3 DEF Retener
  <1>5. QED  BY <1>3, <1>4 DEF TAsignadas

\* restar_instancia_retenida_a_proceso keeps the entries of a process.
LEMMA DescontarTipo ==
    ASSUME NEW f \in TAsignadas, NEW r \in Recursos
    PROVE  Descontar(f, r) \in TAsignadas /\ DOMAIN Descontar(f, r) = DOMAIN f
  <1>1. Vuelta \in Nat /\ Vuelta >= 2  BY ConstantesOK
  <1>2. \A n \in Int : n % Vuelta \in 0 .. Vuelta - 1  BY <1>1
  <1>3. PICK S \in SUBSET Recursos : f \in [S -> 0 .. Vuelta - 1]  BY DEF TAsignadas
  <1>4. Descontar(f, r) \in [S -> 0 .. Vuelta - 1]  BY <1>1, <1>2, <1>3 DEF Descontar
  <1>5. QED  BY <1>3, <1>4 DEF TAsignadas

\* A step of a thread that puts q in the place of its first step.
LEMMA SeguirTipo ==
    ASSUME hilo \in [Hilos -> THilo], NEW h \in Hilos, NEW q, q \o Tail(hilo[h].pasos) \in Seq(UnPaso),
           Seguir(h, q)
    PROVE  /\ hilo' \in [Hilos -> THilo]
           /\ hilo'[h].pasos = q \o Tail(hilo[h].pasos) /\ hilo'[h].pid = hilo[h].pid
           /\ hilo'[h].despierta = hilo[h].despierta
           /\ \A g \in Hilos : g # h => hilo'[g] = hilo[g]
  <1>1. PICK s \in Seq(UnPaso) : s = q \o Tail(hilo[h].pasos)  OBVIOUS
  <1>2. hilo' = [hilo EXCEPT ![h] = [hilo[h] EXCEPT !.pasos = s]]  BY <1>1 DEF Seguir
  <1>3. [hilo[h] EXCEPT !.pasos = s] \in THilo  BY <1>1 DEF THilo
  <1>4. /\ [hilo[h] EXCEPT !.pasos = s].pasos = s /\ [hilo[h] EXCEPT !.pasos = s].pid = hilo[h].pid
        /\ [hilo[h] EXCEPT !.pasos = s].despierta = hilo[h].despierta
    BY <1>1 DEF THilo
  <1>5. QED  BY <1>1, <1>2, <1>3, <1>4

\* A step that leaves nothing new to do takes itself out of the list.
LEMMA HechoTipo ==
    ASSUME hilo \in [Hilos -> THilo], NEW h \in Hilos, hilo[h].pasos # <<>>, Hecho(h)
    PROVE  /\ hilo' \in [Hilos -> THilo]
           /\ hilo'[h].pasos = Tail(hilo[h].pasos) /\ hilo'[h].pid = hilo[h].pid
           /\ hilo'[h].despierta = hilo[h].despierta
           /\ \A g \in Hilos : g # h => hilo'[g] = hilo[g]
  <1>1. PICK s \in Seq(UnPaso) : s = hilo[h].pasos /\ s # <<>>  BY DEF THilo
  <1>2. Tail(s) \in Seq(UnPaso) /\ <<>> \o Tail(s) = Tail(s)  BY <1>1
  <1>3. QED  BY <1>1, <1>2, SeguirTipo DEF Hecho

\* The next step of recibir_dispatch.
LEMMA DispatchSigue ==
    ASSUME NEW x, DispatchOK(x), x.pasos # <<>>, Head(x.pasos).op \in OpsSeguidas,
           NEW y \in THilo, y.pasos = Tail(x.pasos), y.pid = x.pid
    PROVE  DispatchOK(y)
  <1>1. Seguida(y.pasos)  BY DispatchCasos DEF DispatchOK, OpsSuma, OpsSeguidas
  <1>2. FormaDispatch(y.pasos) /\ (y.pasos # <<>> => Head(y.pasos).op \notin OpsSuma)
    BY <1>1, SeguidaForma
  <1>3. QED  BY <1>2 DEF DispatchOK, TienePids, OpsSuma

\* The next step of eliminacion_de_procesos.
LEMMA ElimSigue ==
    ASSUME NEW x, NEW a, ElimOK(x, a), x.pasos # <<>>, Head(x.pasos).op \notin OpsSuma
    PROVE  /\ Cierre(x.pasos, a[x.pid]) /\ x.pasos \in Seq(UnPaso)
           /\ Head(x.pasos).op \in {"quitar", "devolver", "destruir"}
  <1>1. PICK v : FormaElim(x.pasos, v, a[x.pid])  BY DEF ElimOK
  <1>2. Cierre(v, a[x.pid]) /\ Head(v).op \notin OpsSuma /\ v \in Seq(UnPaso) /\ v # <<>>
        /\ Head(v).op \in {"quitar", "devolver", "destruir"}
    BY <1>1, CierreCasos DEF FormaElim, Cierre
  <1>3. ASSUME NEW r \in Recursos, Sumando(x.pasos, v, r) PROVE x.pasos = v
    <2>1. PICK s : s = x.pasos /\ Sumando(s, v, r) /\ Head(s).op \notin OpsSuma  BY <1>3
    <2>2. s = v  BY <1>2, <2>1, SumandoCasos DEF OpsSuma, CasosSuma
    <2>3. QED  BY <2>1, <2>2
  <1>4. x.pasos = v  BY <1>1, <1>3 DEF FormaElim
  <1>5. QED  BY <1>2, <1>4

\* A list that is a release, with its process, is what eliminacion_de_procesos may have.
LEMMA ElimEntonces ==
    ASSUME NEW y \in THilo, NEW a, y.pid \in Pids, y.pasos # <<>>, Cierre(y.pasos, a[y.pid])
    PROVE  ElimOK(y, a)
  <1>1. Head(y.pasos).op \notin OpsSuma  BY CierreCasos
  <1>2. FormaElim(y.pasos, y.pasos, a[y.pid])  BY DEF FormaElim
  <1>3. QED  BY <1>1, <1>2 DEF ElimOK, TienePids, OpsSuma

\* A step of sumar_instancia_a_recurso, in either thread: what comes after it waits.
LEMMA SumaHilo ==
    ASSUME hilo \in [Hilos -> THilo], NEW h \in Hilos, NEW r \in Recursos,
           NEW v \in Seq(UnPaso), v # <<>>, Head(v).op \notin OpsSuma, Sumando(hilo[h].pasos, v, r),
           TienePids(hilo[h]), cola_recurso \in [Recursos -> Seq(Pids)], blocked \in Seq(Pids),
           SumarInstancia(h)
    PROVE  /\ hilo' \in [Hilos -> THilo] /\ \A g \in Hilos : g # h => hilo'[g] = hilo[g]
           /\ hilo'[h].pid = hilo[h].pid /\ Sumando(hilo'[h].pasos, v, r) /\ TienePids(hilo'[h])
           /\ Head(hilo'[h].pasos).op # "sumar"
  <1> DEFINE s == hilo[h].pasos
  <1>1. CasosSuma(s, v, r)  BY SumandoCasos
  <1>2. s \in Seq(UnPaso) /\ s # <<>> /\ hilo[h].pid \in Pids  BY <1>1 DEF TienePids, CasosSuma
  <1>3. \A t \in Seq(UnPaso) : <<>> \o t = t  OBVIOUS
  <1>4. Tail(s) \in Seq(UnPaso)  BY <1>2
  <1>5. Head(v).op \notin {"sumar", "buscar", "desbloquear"}  BY DEF OpsSuma
  <1>6. \A y \in THilo : y.pid = hilo[h].pid /\ (y.pasos # <<>> => Head(y.pasos).op \notin {"buscar", "desbloquear"})
                           => TienePids(y)
    BY <1>2 DEF TienePids
  <1>7. CASE Sumar(h)
    <2>1. s # <<>> /\ Head(s).op = "sumar" /\ Hecho(h)  BY <1>7 DEF Sumar, Toca
    <2>2. Tail(s) = <<Paso("mirar", r)>> \o v  BY <1>1, <2>1 DEF CasosSuma, OpsSuma
    <2>3. /\ hilo' \in [Hilos -> THilo] /\ hilo'[h].pasos = Tail(s) /\ hilo'[h].pid = hilo[h].pid
          /\ \A g \in Hilos : g # h => hilo'[g] = hilo[g]
      BY <2>1, HechoTipo
    <2>4. Sumando(<<Paso("mirar", r)>> \o v, v, r) /\ Head(<<Paso("mirar", r)>> \o v).op = "mirar"
      BY SumandoDe
    <2>5. Sumando(hilo'[h].pasos, v, r) /\ Head(hilo'[h].pasos).op = "mirar"  BY <2>2, <2>3, <2>4
    <2>6. QED  BY <1>6, <2>3, <2>5
  <1>8. CASE Mirar(h)
    <2>1. s # <<>> /\ Head(s).op = "mirar"  BY <1>8 DEF Mirar, Toca
    <2>2. Tail(s) = v /\ Head(s).recurso = r  BY <1>1, <2>1 DEF CasosSuma, OpsSuma
    <2>3. Recurso(h) = r  BY <2>2 DEF Recurso
    <2>4. CASE HayQueDespertar(r)
      <3>1. Seguir(h, PasosDespertar(r))  BY <1>8, <2>3, <2>4 DEF Mirar
      <3>2. PasosDespertar(r) \o v \in Seq(UnPaso)
        <4>1. CasosSuma(PasosDespertar(r) \o v, v, r)  BY SumandoDe, SumandoCasos
        <4>2. QED  BY <4>1 DEF CasosSuma
      <3>3. /\ hilo' \in [Hilos -> THilo] /\ hilo'[h].pasos = PasosDespertar(r) \o v /\ hilo'[h].pid = hilo[h].pid
            /\ \A g \in Hilos : g # h => hilo'[g] = hilo[g]
        BY <2>2, <3>1, <3>2, SeguirTipo
      <3>4. Sumando(PasosDespertar(r) \o v, v, r) /\ Head(PasosDespertar(r) \o v).op = "sacar"  BY SumandoDe
      <3>5. Sumando(hilo'[h].pasos, v, r) /\ Head(hilo'[h].pasos).op = "sacar"  BY <3>3, <3>4
      <3>6. QED  BY <1>6, <3>3, <3>5
    <2>5. CASE ~HayQueDespertar(r)
      <3>1. Hecho(h)  BY <1>8, <2>3, <2>5 DEF Mirar, Hecho
      <3>2. /\ hilo' \in [Hilos -> THilo] /\ hilo'[h].pasos = v /\ hilo'[h].pid = hilo[h].pid
            /\ \A g \in Hilos : g # h => hilo'[g] = hilo[g]
        BY <2>1, <2>2, <3>1, HechoTipo
      <3>3. Sumando(hilo'[h].pasos, v, r)  BY <3>2, SumandoDe
      <3>4. QED  BY <1>5, <1>6, <3>2, <3>3
    <2>6. QED  BY <2>4, <2>5
  <1>9. CASE Sacar(h)
    <2>1. s # <<>> /\ Head(s).op = "sacar"  BY <1>9 DEF Sacar, Toca
    <2>2. /\ Tail(s) = <<Paso("buscar", r), Paso("desbloquear", r)>> \o v /\ Head(s).recurso = r
          /\ SubSeq(s, 4, Len(s)) = v
      BY <1>1, <2>1 DEF CasosSuma, OpsSuma
    <2>3. Recurso(h) = r  BY <2>2 DEF Recurso
    <2>4. CASE cola_recurso[r] = <<>>
      <3>1. hilo' = [hilo EXCEPT ![h] = [hilo[h] EXCEPT !.pasos = v]]  BY <1>9, <2>2, <2>3, <2>4 DEF Sacar
      <3>2. /\ [hilo[h] EXCEPT !.pasos = v] \in THilo /\ [hilo[h] EXCEPT !.pasos = v].pasos = v
            /\ [hilo[h] EXCEPT !.pasos = v].pid = hilo[h].pid
        BY DEF THilo
      <3>3. /\ hilo' \in [Hilos -> THilo] /\ hilo'[h].pasos = v /\ hilo'[h].pid = hilo[h].pid
            /\ \A g \in Hilos : g # h => hilo'[g] = hilo[g]
        BY <3>1, <3>2
      <3>4. Sumando(hilo'[h].pasos, v, r)  BY <3>3, SumandoDe
      <3>5. QED  BY <1>5, <1>6, <3>3, <3>4
    <2>5. CASE cola_recurso[r] # <<>>
      <3>1. PICK q \in Pids : q = Head(cola_recurso[r])  BY <2>5
      <3>2. PICK t \in Seq(UnPaso) : t = Tail(s)  BY <1>4
      <3>3. hilo' = [hilo EXCEPT ![h] = [hilo[h] EXCEPT !.pasos = t, !.despierta = q]]
        BY <1>9, <2>3, <2>5, <3>1, <3>2 DEF Sacar
      <3>4. PICK y : y = [hilo[h] EXCEPT !.pasos = t, !.despierta = q]  OBVIOUS
      <3>5. y \in THilo /\ y.pasos = t /\ y.pid = hilo[h].pid /\ y.despierta = q  BY <3>4 DEF THilo, PidsN
      <3>6. hilo' \in [Hilos -> THilo] /\ hilo'[h] = y /\ \A g \in Hilos : g # h => hilo'[g] = hilo[g]
        BY <3>3, <3>4, <3>5
      <3>7. Sumando(t, v, r) /\ Head(t).op # "sumar"
        <4>1. /\ Sumando(<<Paso("buscar", r), Paso("desbloquear", r)>> \o v, v, r)
              /\ Head(<<Paso("buscar", r), Paso("desbloquear", r)>> \o v).op = "buscar"
          BY SumandoDe
        <4>2. QED  BY <2>2, <3>2, <4>1
      <3>8. TienePids(y)  BY <1>2, <3>5 DEF TienePids
      <3>9. QED  BY <3>5, <3>6, <3>7, <3>8
    <2>6. QED  BY <2>4, <2>5
  <1>10. CASE Buscar(h)
    <2>1. s # <<>> /\ Head(s).op = "buscar" /\ hilo[h].despierta \in Pids  BY <1>10 DEF Buscar, Toca, TienePids
    <2>2. Tail(s) = <<Paso("desbloquear", r)>> \o v  BY <1>1, <2>1 DEF CasosSuma, OpsSuma
    <2>3. PICK i \in Nat : i = IndiceBloqueado(hilo[h].despierta)  BY IndiceTipo
    <2>4. PICK t \in Seq(UnPaso) : t = Tail(s)  BY <1>4
    <2>5. hilo' = [hilo EXCEPT ![h] = [hilo[h] EXCEPT !.pasos = t, !.indice = i]]
      BY <1>10, <2>3, <2>4 DEF Buscar
    <2>6. PICK y : y = [hilo[h] EXCEPT !.pasos = t, !.indice = i]  OBVIOUS
    <2>7. y \in THilo /\ y.pasos = t /\ y.pid = hilo[h].pid /\ y.despierta = hilo[h].despierta
      BY <2>3, <2>6 DEF THilo
    <2>8. hilo' \in [Hilos -> THilo] /\ hilo'[h] = y /\ \A g \in Hilos : g # h => hilo'[g] = hilo[g]
      BY <2>5, <2>6, <2>7
    <2>9. Sumando(t, v, r) /\ Head(t).op # "sumar"
      <3>1. /\ Sumando(<<Paso("desbloquear", r)>> \o v, v, r)
            /\ Head(<<Paso("desbloquear", r)>> \o v).op = "desbloquear"
        BY SumandoDe
      <3>2. QED  BY <2>2, <2>4, <3>1
    <2>10. TienePids(y)  BY <1>2, <2>1, <2>7 DEF TienePids
    <2>11. QED  BY <2>7, <2>8, <2>9, <2>10
  <1>11. CASE Desbloquear(h)
    <2>1. s # <<>> /\ Head(s).op = "desbloquear"  BY <1>11 DEF Desbloquear, Toca
    <2>2. Tail(s) = v  BY <1>1, <2>1 DEF CasosSuma, OpsSuma
    <2>3. hilo' = [hilo EXCEPT ![h] = [hilo[h] EXCEPT !.pasos = v, !.despierta = Nadie, !.indice = 0]]
      BY <1>11, <2>2 DEF Desbloquear
    <2>4. PICK y : y = [hilo[h] EXCEPT !.pasos = v, !.despierta = Nadie, !.indice = 0]  OBVIOUS
    <2>5. y \in THilo /\ y.pasos = v /\ y.pid = hilo[h].pid  BY <2>4 DEF THilo, PidsN
    <2>6. hilo' \in [Hilos -> THilo] /\ hilo'[h] = y /\ \A g \in Hilos : g # h => hilo'[g] = hilo[g]
      BY <2>3, <2>4, <2>5
    <2>7. Sumando(v, v, r)  BY SumandoDe
    <2>8. QED  BY <1>5, <1>6, <2>5, <2>6, <2>7
  <1>12. QED  BY <1>7, <1>8, <1>9, <1>10, <1>11 DEF SumarInstancia

\* sumar_instancia_a_recurso keeps the types, whichever thread runs it.
LEMMA SumaTipos ==
    ASSUME InvTipos, UNCHANGED carga, NEW h \in Hilos, SumarInstancia(h) PROVE InvTipos'
  <1> DEFINE s == hilo[h].pasos
  <1>1. hilo \in [Hilos -> THilo] /\ TienePids(hilo[h])
        /\ cola_recurso \in [Recursos -> Seq(Pids)] /\ blocked \in Seq(Pids)
    BY DEF InvTipos, DispatchOK, ElimOK, DatosOK, Hilos
  <1>2. s # <<>> /\ Head(s).op \in OpsSuma
    BY DEF SumarInstancia, Sumar, Mirar, Sacar, Buscar, Desbloquear, Toca, OpsSuma
  <1>3. /\ Head(s).recurso \in Recursos
        /\ hilo' \in [Hilos -> THilo] /\ DispatchOK(hilo'["dispatch"]) /\ ElimOK(hilo'["eliminacion"], asignadas)
    <2>1. CASE h = "dispatch"
      <3>1. PICK r \in Recursos : Sumando(s, Retenida(r), r) /\ Head(s).recurso \in Recursos
        <4>1. FormaDispatch(s)  BY <2>1 DEF InvTipos, DispatchOK
        <4>2. QED  BY <1>2, <4>1, DispatchCasos DEF OpsSuma, OpsSeguidas
      <3>2. PICK v \in Seq(UnPaso) : v = Retenida(r) /\ v # <<>> /\ Head(v).op \notin OpsSuma
        BY RetenidaTipo
      <3>3. Sumando(s, v, r)  BY <3>1, <3>2
      <3>4. /\ hilo' \in [Hilos -> THilo] /\ \A g \in Hilos : g # h => hilo'[g] = hilo[g]
            /\ Sumando(hilo'[h].pasos, v, r) /\ TienePids(hilo'[h])
        BY <1>1, <3>2, <3>3, SumaHilo
      <3>5. DispatchOK(hilo'["dispatch"])  BY <2>1, <3>2, <3>4 DEF DispatchOK, FormaDispatch
      <3>6. hilo'["eliminacion"] = hilo["eliminacion"]  BY <2>1, <3>4 DEF Hilos
      <3>7. QED  BY <3>1, <3>4, <3>5, <3>6 DEF InvTipos
    <2>2. CASE h = "eliminacion"
      <3>1. PICK v : FormaElim(s, v, asignadas[hilo[h].pid])  BY <1>2, <2>2 DEF InvTipos, ElimOK
      <3>2. v \in Seq(UnPaso) /\ v # <<>> /\ Head(v).op \notin OpsSuma
        BY <3>1, CierreCasos DEF FormaElim, Cierre
      <3>3. PICK r \in Recursos : Sumando(s, v, r)  BY <1>2, <3>1, <3>2 DEF FormaElim
      <3>4. /\ hilo' \in [Hilos -> THilo] /\ \A g \in Hilos : g # h => hilo'[g] = hilo[g]
            /\ Sumando(hilo'[h].pasos, v, r) /\ TienePids(hilo'[h]) /\ hilo'[h].pid = hilo[h].pid
        BY <1>1, <3>2, <3>3, SumaHilo
      <3>5. FormaElim(hilo'[h].pasos, v, asignadas[hilo'[h].pid])  BY <3>1, <3>4 DEF FormaElim
      <3>6. ElimOK(hilo'["eliminacion"], asignadas)  BY <2>2, <3>4, <3>5 DEF ElimOK
      <3>7. hilo'["dispatch"] = hilo["dispatch"]  BY <2>2, <3>4 DEF Hilos
      <3>8. CasosSuma(s, v, r)  BY <3>2, <3>3, SumandoCasos
      <3>9. Head(s).recurso = r  BY <1>2, <3>8 DEF CasosSuma, OpsSuma
      <3>10. QED  BY <3>4, <3>6, <3>7, <3>9 DEF InvTipos
    <2>3. QED  BY <2>1, <2>2 DEF Hilos
  <1>4. UNCHANGED <<asignadas, cpu_libre, a_cpu, a_kernel, cpuVars, eliminados, vivo>>
    BY DEF SumarInstancia, Sumar, Mirar, Sacar, Buscar, Desbloquear, contables, cpuVars
  <1>5. ViajesOK'  BY <1>4 DEF InvTipos, ViajesOK, cpuVars
  <1>6. DatosOK'
    <2>1. DatosOK /\ Recurso(h) \in Recursos  BY <1>3 DEF InvTipos, Recurso
    <2>2. CASE Sumar(h)  BY <1>4, <2>1, <2>2 DEF Sumar, DatosOK, colas
    <2>3. CASE Mirar(h)  BY <1>4, <2>1, <2>3 DEF Mirar, DatosOK, colas, contables
    <2>4. CASE Buscar(h)  BY <1>4, <2>1, <2>4 DEF Buscar, DatosOK, colas, contables
    <2>5. CASE Sacar(h)
      <3>1. PICK r \in Recursos : r = Recurso(h)  BY <2>1
      <3>2. UNCHANGED <<instancias, colas, estado>>  BY <2>5 DEF Sacar
      <3>3. cola_recurso' \in [Recursos -> Seq(Pids)]
        <4>1. CASE cola_recurso[r] = <<>>  BY <2>1, <2>5, <3>1, <4>1 DEF Sacar, DatosOK
        <4>2. CASE cola_recurso[r] # <<>>
          <5>1. PICK t \in Seq(Pids) : t = Tail(cola_recurso[r])
            <6>1. cola_recurso[r] \in Seq(Pids)  BY <2>1 DEF DatosOK
            <6>2. Tail(cola_recurso[r]) \in Seq(Pids)  BY <4>2, <6>1
            <6>3. QED  BY <6>2
          <5>2. cola_recurso' = [cola_recurso EXCEPT ![r] = t]  BY <2>5, <3>1, <4>2, <5>1 DEF Sacar
          <5>3. QED  BY <2>1, <5>1, <5>2 DEF DatosOK
        <4>3. QED  BY <4>1, <4>2
      <3>4. QED  BY <1>4, <2>1, <3>2, <3>3 DEF DatosOK, colas
    <2>6. CASE Desbloquear(h)
      <3>1. PICK p \in Pids : p = hilo[h].despierta
        BY <1>1, <2>6 DEF Desbloquear, Toca, TienePids
      <3>2. blocked' \in Seq(Pids)
        <4>1. blocked \in Seq(Pids)  BY <2>1 DEF DatosOK
        <4>2. \A k \in 1 .. Len(blocked) : RemoveAt(blocked, k) \in Seq(Pids)  BY <4>1, SinUnLugar
        <4>3. QED  BY <2>6, <4>1, <4>2 DEF Desbloquear
      <3>3. ready' = Append(ready, p) /\ estado' = [estado EXCEPT ![p] = "READY"]
            /\ UNCHANGED <<contables, exit, cola_io>>
        BY <2>6, <3>1 DEF Desbloquear
      <3>4. ready' \in Seq(Pids) /\ estado' \in TEstado  BY <2>1, <3>1, <3>3 DEF DatosOK, TEstado
      <3>5. QED  BY <1>4, <2>1, <3>2, <3>3, <3>4 DEF DatosOK, contables
    <2>7. QED  BY <2>2, <2>3, <2>4, <2>5, <2>6 DEF SumarInstancia
  <1>7. asignadas' = asignadas  BY <1>4
  <1>8. QED  BY <1>3, <1>5, <1>6, <1>7 DEF InvTipos

HilosOK == /\ hilo \in [Hilos -> THilo]
           /\ DispatchOK(hilo["dispatch"]) /\ ElimOK(hilo["eliminacion"], asignadas)

\* A release stands when recursos_asignados has more entries.
LEMMA ElimCrece ==
    ASSUME NEW x, NEW a, NEW b, ElimOK(x, a), \A p \in Pids : DOMAIN a[p] \subseteq DOMAIN b[p]
    PROVE  ElimOK(x, b)
  <1>1. ASSUME x.pasos # <<>> PROVE \E v : FormaElim(x.pasos, v, b[x.pid])
    <2>1. PICK v : FormaElim(x.pasos, v, a[x.pid])  BY <1>1 DEF ElimOK
    <2>2. x.pid \in Pids  BY <1>1 DEF ElimOK, TienePids
    <2>3. Cierre(v, b[x.pid])  BY <2>1, <2>2 DEF FormaElim, Cierre
    <2>4. QED  BY <2>1, <2>3 DEF FormaElim
  <1>2. QED  BY <1>1 DEF ElimOK

\* The steps of recibir_dispatch that only go on to the next one.
LEMMA HechoDispatch ==
    ASSUME InvTipos, NEW op \in OpsSeguidas, Toca("dispatch", op), Hecho("dispatch"),
           \A p \in Pids : DOMAIN asignadas[p] \subseteq DOMAIN asignadas'[p]
    PROVE  /\ HilosOK' /\ hilo["dispatch"].pid \in Pids
           /\ op \in {"restar", "encolar", "restar_retenida"} => Recurso("dispatch") \in Recursos
  <1> DEFINE x == hilo["dispatch"]
  <1>1. x.pasos # <<>> /\ Head(x.pasos).op = op  BY DEF Toca
  <1>2. hilo \in [Hilos -> THilo] /\ DispatchOK(x) /\ "dispatch" \in Hilos
    BY DEF InvTipos, Hilos
  <1>3. /\ hilo' \in [Hilos -> THilo] /\ hilo'["dispatch"].pasos = Tail(x.pasos)
        /\ hilo'["dispatch"].pid = x.pid /\ \A g \in Hilos : g # "dispatch" => hilo'[g] = hilo[g]
    BY <1>1, <1>2, HechoTipo
  <1>4. hilo'["dispatch"] \in THilo  BY <1>2, <1>3
  <1>5. DispatchOK(hilo'["dispatch"])  BY <1>1, <1>2, <1>3, <1>4, DispatchSigue
  <1>6. hilo'["eliminacion"] = hilo["eliminacion"] /\ ElimOK(hilo["eliminacion"], asignadas')
    BY <1>3, ElimCrece DEF Hilos, InvTipos
  <1>7. op \in {"restar", "encolar", "restar_retenida"} => Recurso("dispatch") \in Recursos
    BY <1>1, <1>2, DispatchCasos DEF DispatchOK, OpsSuma, OpsSeguidas, Recurso
  <1>8. QED  BY <1>1, <1>2, <1>3, <1>5, <1>6, <1>7 DEF InvTipos, DispatchOK, TienePids, HilosOK

\* The steps of recibir_dispatch that neither write recursos_asignados nor read a message keep the types.
LEMMA DispatchSimpleTipos ==
    ASSUME InvTipos, UNCHANGED carga,
           \/ EncolarIO \/ Restar \/ Encolar \/ Bloquear \/ LiberarCpu \/ Fallar \/ Finalizar \/ Desalojar
    PROVE  InvTipos'
  <1>1. DatosOK /\ ViajesOK /\ asignadas \in [Pids -> TAsignadas]  BY DEF InvTipos
  <1>2. ASSUME HilosOK', DatosOK', ViajesOK', UNCHANGED asignadas PROVE InvTipos'
    BY <1>1, <1>2 DEF InvTipos, HilosOK
  <1>3. CASE EncolarIO
    <2>1. HilosOK' /\ hilo["dispatch"].pid \in Pids
      BY <1>3, HechoDispatch DEF EncolarIO, OpsSeguidas, contables
    <2>2. DatosOK' /\ ViajesOK'  BY <1>1, <1>3, <2>1 DEF EncolarIO, DatosOK, ViajesOK, contables, cpuVars
    <2>3. QED  BY <1>2, <1>3, <2>1, <2>2 DEF EncolarIO, contables
  <1>4. CASE Restar
    <2>1. HilosOK' /\ Recurso("dispatch") \in Recursos
      BY <1>4, HechoDispatch DEF Restar, OpsSeguidas
    <2>2. DatosOK' /\ ViajesOK'  BY <1>1, <1>4, <2>1 DEF Restar, DatosOK, ViajesOK, colas, cpuVars
    <2>3. QED  BY <1>2, <1>4, <2>1, <2>2 DEF Restar
  <1>5. CASE Encolar
    <2>1. HilosOK' /\ Recurso("dispatch") \in Recursos /\ hilo["dispatch"].pid \in Pids
      BY <1>5, HechoDispatch DEF Encolar, OpsSeguidas
    <2>2. PICK r \in Recursos, p \in Pids : r = Recurso("dispatch") /\ p = hilo["dispatch"].pid  BY <2>1
    <2>3. cola_recurso' = [cola_recurso EXCEPT ![r] = Append(cola_recurso[r], p)]  BY <1>5, <2>2 DEF Encolar
    <2>4. cola_recurso \in [Recursos -> Seq(Pids)]  BY <1>1 DEF DatosOK
    <2>5. Append(cola_recurso[r], p) \in Seq(Pids)  BY <2>4
    <2>6. cola_recurso' \in [Recursos -> Seq(Pids)]  BY <2>3, <2>4, <2>5
    <2>7. DatosOK' /\ ViajesOK'  BY <1>1, <1>5, <2>6 DEF Encolar, DatosOK, ViajesOK, colas, cpuVars
    <2>8. QED  BY <1>2, <1>5, <2>1, <2>7 DEF Encolar
  <1>6. CASE Bloquear
    <2>1. HilosOK' /\ hilo["dispatch"].pid \in Pids
      BY <1>6, HechoDispatch DEF Bloquear, OpsSeguidas, contables
    <2>2. DatosOK' /\ ViajesOK'  BY <1>1, <1>6, <2>1 DEF Bloquear, DatosOK, ViajesOK, contables, cpuVars, TEstado
    <2>3. QED  BY <1>2, <1>6, <2>1, <2>2 DEF Bloquear, contables
  <1>7. CASE LiberarCpu
    <2>1. HilosOK'  BY <1>7, HechoDispatch DEF LiberarCpu, OpsSeguidas, contables
    <2>2. DatosOK' /\ ViajesOK'  BY <1>1, <1>7, <2>1 DEF LiberarCpu, DatosOK, ViajesOK, contables, colas, cpuVars
    <2>3. QED  BY <1>2, <1>7, <2>1, <2>2 DEF LiberarCpu, contables
  <1>8. CASE Fallar
    <2>1. HilosOK'  BY <1>8, HechoDispatch DEF Fallar, OpsSeguidas, contables
    <2>2. Respuesta("RESOURCE_FAIL") \in TRespuesta  BY DEF Respuesta, TRespuesta
    <2>3. a_cpu' \in Seq(TRespuesta)  BY <1>1, <1>8, <2>2 DEF Fallar, Contestar, ViajesOK
    <2>4. DatosOK' /\ ViajesOK'  BY <1>1, <1>8, <2>3 DEF Fallar, DatosOK, ViajesOK, contables, colas, cpuVars
    <2>5. QED  BY <1>2, <1>8, <2>1, <2>4 DEF Fallar, contables
  <1>9. CASE Finalizar
    <2>1. HilosOK' /\ hilo["dispatch"].pid \in Pids
      BY <1>9, HechoDispatch DEF Finalizar, OpsSeguidas, contables
    <2>2. DatosOK' /\ ViajesOK'  BY <1>1, <1>9, <2>1 DEF Finalizar, DatosOK, ViajesOK, contables, cpuVars, TEstado
    <2>3. QED  BY <1>2, <1>9, <2>1, <2>2 DEF Finalizar, contables
  <1>10. CASE Desalojar
    <2>1. HilosOK' /\ hilo["dispatch"].pid \in Pids
      BY <1>10, HechoDispatch DEF Desalojar, OpsSeguidas, contables
    <2>2. DatosOK' /\ ViajesOK'  BY <1>1, <1>10, <2>1 DEF Desalojar, DatosOK, ViajesOK, contables, cpuVars, TEstado
    <2>3. QED  BY <1>2, <1>10, <2>1, <2>2 DEF Desalojar, contables
  <1>11. QED  BY <1>3, <1>4, <1>5, <1>6, <1>7, <1>8, <1>9, <1>10

\* restar_instancia_retenida_a_proceso keeps the types.
LEMMA RestarRetenidaTipos == ASSUME InvTipos, UNCHANGED carga, RestarRetenida PROVE InvTipos'
  <1>1. DatosOK /\ ViajesOK /\ asignadas \in [Pids -> TAsignadas] /\ DispatchOK(hilo["dispatch"])
    BY DEF InvTipos
  <1>2. Toca("dispatch", "restar_retenida") /\ Hecho("dispatch")  BY DEF RestarRetenida
  <1>3. hilo["dispatch"].pid \in Pids  BY <1>1, <1>2 DEF Toca, DispatchOK, TienePids
  <1>4. Recurso("dispatch") \in Recursos
    BY <1>1, <1>2, DispatchCasos DEF DispatchOK, OpsSuma, OpsSeguidas, Recurso, Toca
  <1>5. PICK p \in Pids, r \in Recursos : p = hilo["dispatch"].pid /\ r = Recurso("dispatch")  BY <1>3, <1>4
  <1>6. asignadas' = [asignadas EXCEPT ![p] = Descontar(asignadas[p], r)]  BY <1>5 DEF RestarRetenida
  <1>7. Descontar(asignadas[p], r) \in TAsignadas /\ DOMAIN Descontar(asignadas[p], r) = DOMAIN asignadas[p]
    BY <1>1, DescontarTipo
  <1>8. asignadas' \in [Pids -> TAsignadas] /\ \A q \in Pids : DOMAIN asignadas[q] \subseteq DOMAIN asignadas'[q]
    BY <1>1, <1>6, <1>7
  <1>9. HilosOK'  BY <1>2, <1>8, HechoDispatch DEF OpsSeguidas
  <1>10. Respuesta("RESOURCE_OK") \in TRespuesta  BY DEF Respuesta, TRespuesta
  <1>11. a_cpu' \in Seq(TRespuesta)  BY <1>1, <1>10 DEF RestarRetenida, Contestar, ViajesOK
  <1>12. DatosOK' /\ ViajesOK'  BY <1>1, <1>11 DEF RestarRetenida, DatosOK, ViajesOK, colas, cpuVars
  <1>13. QED  BY <1>8, <1>9, <1>12 DEF InvTipos, HilosOK

\* The second half of restar_instancia_a_recurso keeps the types.
LEMMA LeerTipos == ASSUME InvTipos, UNCHANGED carga, Leer PROVE InvTipos'
  <1> DEFINE x == hilo["dispatch"]
  <1>1. /\ DatosOK /\ ViajesOK /\ asignadas \in [Pids -> TAsignadas] /\ DispatchOK(x)
        /\ hilo \in [Hilos -> THilo] /\ ElimOK(hilo["eliminacion"], asignadas)
    BY DEF InvTipos
  <1>2. x.pasos # <<>> /\ Head(x.pasos).op = "leer"  BY DEF Leer, Toca
  <1>3. x.pid \in Pids /\ x.pasos \in Seq(UnPaso)  BY <1>1, <1>2 DEF DispatchOK, TienePids, THilo
  <1>4. Recurso("dispatch") \in Recursos /\ Tail(x.pasos) = <<>>
    BY <1>1, <1>2, DispatchCasos DEF DispatchOK, OpsSuma, OpsSeguidas, Recurso
  <1>5. PICK p \in Pids, r \in Recursos : p = x.pid /\ r = Recurso("dispatch")  BY <1>3, <1>4
  <1>6. asignadas' = [asignadas EXCEPT ![p] = Retener(asignadas[p], r)]  BY <1>5 DEF Leer
  <1>7. Retener(asignadas[p], r) \in TAsignadas /\ DOMAIN asignadas[p] \subseteq DOMAIN Retener(asignadas[p], r)
    <2>1. asignadas[p] \in TAsignadas  BY <1>1
    <2>2. QED  BY <2>1, RetenerTipo
  <1>8. asignadas' \in [Pids -> TAsignadas] /\ \A q \in Pids : DOMAIN asignadas[q] \subseteq DOMAIN asignadas'[q]
    BY <1>1, <1>6, <1>7
  <1>9. PICK q \in {<<>>, <<Paso("encolar", r), Paso("bloquear", r), Paso("liberar_cpu", r)>>} :
           Seguir("dispatch", q)
    BY <1>5 DEF Leer, Hecho
  <1>10. q \in Seq(UnPaso) /\ Seguida(q) /\ q \o Tail(x.pasos) = q
    <2>1. PICK a \in UnPaso, b \in UnPaso, c \in UnPaso :
             a = Paso("encolar", r) /\ b = Paso("bloquear", r) /\ c = Paso("liberar_cpu", r)
      BY PasoTipo DEF Pasos
    <2>2. <<>> \in Seq(UnPaso) /\ <<a, b, c>> \in Seq(UnPaso)  OBVIOUS
    <2>3. q \in Seq(UnPaso)  BY <1>9, <2>1, <2>2
    <2>4. Seguida(q)  BY <1>9 DEF Seguida, PasosWait
    <2>5. \A t \in Seq(UnPaso) : t \o <<>> = t  OBVIOUS
    <2>6. QED  BY <1>4, <2>3, <2>4, <2>5
  <1>11. /\ hilo' \in [Hilos -> THilo] /\ hilo'["dispatch"].pasos = q /\ hilo'["dispatch"].pid = x.pid
         /\ \A g \in Hilos : g # "dispatch" => hilo'[g] = hilo[g]
    <2>1. q \o Tail(hilo["dispatch"].pasos) \in Seq(UnPaso) /\ "dispatch" \in Hilos  BY <1>10 DEF Hilos
    <2>2. QED  BY <1>1, <1>9, <1>10, <2>1, SeguirTipo
  <1>12. DispatchOK(hilo'["dispatch"])
    <2>1. FormaDispatch(q) /\ (q # <<>> => Head(q).op \notin OpsSuma)  BY <1>10, SeguidaForma
    <2>2. hilo'["dispatch"] \in THilo  BY <1>11 DEF Hilos
    <2>3. QED  BY <1>3, <1>11, <2>1, <2>2 DEF DispatchOK, TienePids, OpsSuma
  <1>13. ElimOK(hilo'["eliminacion"], asignadas')  BY <1>1, <1>8, <1>11, ElimCrece DEF Hilos
  <1>14. Respuesta("RESOURCE_OK") \in TRespuesta /\ Respuesta("RESOURCE_BLOCKED") \in TRespuesta
    BY DEF Respuesta, TRespuesta
  <1>15. a_cpu' \in Seq(TRespuesta)
    <2>1. a_cpu \in Seq(TRespuesta)  BY <1>1 DEF ViajesOK
    <2>2. PICK m \in TRespuesta : a_cpu' = Append(a_cpu, m)  BY <1>14 DEF Leer, Contestar, AvisarBloqueo
    <2>3. QED  BY <2>1, <2>2
  <1>16. DatosOK' /\ ViajesOK'  BY <1>1, <1>15 DEF Leer, DatosOK, ViajesOK, colas, cpuVars
  <1>17. QED  BY <1>8, <1>11, <1>12, <1>13, <1>16 DEF InvTipos

\* A message leaves recibir_dispatch with a list of steps of the right shape.
LEMMA RecibirTipos == ASSUME InvTipos, UNCHANGED carga, Recibir PROVE InvTipos'
  <1> DEFINE x == hilo["dispatch"]
             m == Head(a_kernel)
  <1>1. /\ DatosOK /\ ViajesOK /\ asignadas \in [Pids -> TAsignadas]
        /\ hilo \in [Hilos -> THilo] /\ ElimOK(hilo["eliminacion"], asignadas)
    BY DEF InvTipos
  <1>2. m \in TPedido /\ a_kernel' \in Seq(TPedido)
    <2>1. a_kernel \in Seq(TPedido) /\ a_kernel # <<>> /\ a_kernel' = Tail(a_kernel)
      BY <1>1 DEF Recibir, ViajesOK
    <2>2. QED  BY <2>1
  <1>3. PICK q : q = PasosDe(m)  OBVIOUS
  <1>4. q \in Seq(UnPaso) /\ FormaDispatch(q)
        /\ (q # <<>> => Head(q).op \notin {"buscar", "desbloquear"})
    <2>1. CASE m.recurso \in Recursos /\ m.motivo = "WAIT_SOLICITADO"
      <3>1. q \in PasosWait(m.recurso)  BY <1>3, <2>1 DEF PasosDe, PasosWait
      <3>2. Seguida(q)  BY <2>1, <3>1 DEF Seguida
      <3>3. QED  BY <3>2, SeguidaForma DEF OpsSuma
    <2>2. CASE m.recurso \in Recursos /\ m.motivo # "WAIT_SOLICITADO"
      <3>1. PICK r \in Recursos : r = m.recurso  BY <2>2
      <3>2. q = PasosSumar(r) \o Retenida(r)  BY <1>3, <2>2, <3>1 DEF PasosDe, Retenida
      <3>3. PICK v \in Seq(UnPaso) : v = Retenida(r) /\ v # <<>> /\ Head(v).op \notin OpsSuma  BY RetenidaTipo
      <3>4. Sumando(q, v, r) /\ Head(q).op = "sumar"  BY <3>2, <3>3, SumandoDe
      <3>5. q \in Seq(UnPaso)
        <4>1. CasosSuma(q, v, r)  BY <3>3, <3>4, SumandoCasos
        <4>2. QED  BY <4>1 DEF CasosSuma
      <3>6. QED  BY <3>3, <3>4, <3>5 DEF FormaDispatch
    <2>3. CASE m.recurso \notin Recursos
      <3>1. q \in PasosMotivos \union {<<>>}
        BY <1>2, <1>3, <2>3 DEF PasosDe, PasosMotivos, TPedido, Motivos
      <3>2. Seguida(q)  BY <3>1 DEF Seguida
      <3>3. QED  BY <3>2, SeguidaForma DEF OpsSuma
    <2>4. QED  BY <2>1, <2>2, <2>3
  <1>5. PICK p \in Pids : p = m.pid  BY <1>2 DEF TPedido
  <1>6. hilo' = [hilo EXCEPT !["dispatch"] = [x EXCEPT !.pasos = q, !.pid = p]]
    BY <1>3, <1>5 DEF Recibir
  <1>7. PICK y : y = [x EXCEPT !.pasos = q, !.pid = p]  OBVIOUS
  <1>8. y \in THilo /\ y.pasos = q /\ y.pid = p
    <2>1. x \in THilo  BY <1>1 DEF Hilos
    <2>2. QED  BY <1>4, <1>7, <2>1 DEF THilo, PidsN
  <1>9. hilo' \in [Hilos -> THilo] /\ hilo'["dispatch"] = y /\ hilo'["eliminacion"] = hilo["eliminacion"]
    BY <1>1, <1>6, <1>7, <1>8 DEF Hilos
  <1>10. DispatchOK(y)  BY <1>4, <1>5, <1>8 DEF DispatchOK, TienePids
  <1>11. DatosOK' /\ ViajesOK' /\ UNCHANGED asignadas
    BY <1>1, <1>2 DEF Recibir, DatosOK, ViajesOK, colas, cpuVars, contables
  <1>12. QED  BY <1>1, <1>9, <1>10, <1>11 DEF InvTipos

\* eliminacion_de_procesos starts a release with the types kept.
LEMMA EliminarTipos == ASSUME InvTipos, UNCHANGED carga, EliminarProceso PROVE InvTipos'
  <1> DEFINE x == hilo["eliminacion"]
             p == Head(exit)
  <1>1. /\ DatosOK /\ ViajesOK /\ asignadas \in [Pids -> TAsignadas]
        /\ hilo \in [Hilos -> THilo] /\ DispatchOK(hilo["dispatch"]) /\ ElimOK(x, asignadas)
    BY DEF InvTipos
  <1>2. UNCHANGED <<contables, blocked, ready, cola_io, estado, cpu_libre, a_cpu, a_kernel, cpuVars, eliminados>>
    BY DEF EliminarProceso
  <1>3. exit \in Seq(Pids) /\ exit # <<>>  BY <1>1 DEF EliminarProceso, DatosOK
  <1>4. p \in Pids /\ Tail(exit) \in Seq(Pids)  BY <1>3
  <1>5. ViajesOK' /\ asignadas' = asignadas  BY <1>1, <1>2 DEF ViajesOK, cpuVars, contables
  <1>6. CASE p \in eliminados
    <2>1. vivo' = FALSE /\ UNCHANGED <<hilo, exit>>  BY <1>6 DEF EliminarProceso
    <2>2. DatosOK'  BY <1>1, <1>2, <2>1 DEF DatosOK, contables
    <2>3. QED  BY <1>1, <1>5, <2>1, <2>2 DEF InvTipos
  <1>7. CASE p \notin eliminados
    <2>1. PICK orden \in SetToSeqs(DOMAIN asignadas[p]) :
             hilo' = [hilo EXCEPT !["eliminacion"].pasos = PasosLiberar(orden), !["eliminacion"].pid = p]
      BY <1>7 DEF EliminarProceso
    <2>2. exit' = Tail(exit) /\ vivo' = vivo  BY <1>7 DEF EliminarProceso
    <2>3. DatosOK'  BY <1>1, <1>2, <1>4, <2>2 DEF DatosOK, contables
    <2>4. DOMAIN asignadas[p] \subseteq Recursos  BY <1>1, <1>4 DEF TAsignadas
    <2>5. PICK s : s = PasosLiberar(orden) /\ Cierre(s, asignadas[p])
      BY <2>4, CierreNuevo
    <2>6. s \in Seq(UnPaso) /\ s # <<>>  BY <2>5 DEF Cierre
    <2>7. hilo' = [hilo EXCEPT !["eliminacion"] = [x EXCEPT !.pasos = s, !.pid = p]]  BY <2>1, <2>5
    <2>8. PICK y : y = [x EXCEPT !.pasos = s, !.pid = p]  OBVIOUS
    <2>9. y \in THilo /\ y.pasos = s /\ y.pid = p
      <3>1. x \in THilo  BY <1>1 DEF Hilos
      <3>2. QED  BY <1>4, <2>6, <2>8, <3>1 DEF THilo, PidsN
    <2>10. hilo' \in [Hilos -> THilo] /\ hilo'["eliminacion"] = y /\ hilo'["dispatch"] = hilo["dispatch"]
      BY <1>1, <2>7, <2>8, <2>9 DEF Hilos
    <2>11. ElimOK(y, asignadas)  BY <1>4, <2>5, <2>6, <2>9, ElimEntonces
    <2>12. QED  BY <1>1, <1>5, <2>3, <2>10, <2>11 DEF InvTipos
  <1>8. QED  BY <1>6, <1>7

\* A visit to a resource keeps the types.
LEMMA QuitarTipos == ASSUME InvTipos, UNCHANGED carga, Quitar PROVE InvTipos'
  <1> DEFINE x == hilo["eliminacion"]
             s == x.pasos
  <1>1. /\ DatosOK /\ ViajesOK /\ asignadas \in [Pids -> TAsignadas]
        /\ hilo \in [Hilos -> THilo] /\ DispatchOK(hilo["dispatch"]) /\ ElimOK(x, asignadas)
    BY DEF InvTipos
  <1>2. s # <<>> /\ Head(s).op = "quitar"  BY DEF Quitar, Toca
  <1>3. PICK p \in Pids : p = x.pid  BY <1>1, <1>2 DEF ElimOK, TienePids
  <1>4. Cierre(s, asignadas[p])  BY <1>1, <1>2, <1>3, ElimSigue DEF OpsSuma
  <1>5. Head(s).recurso \in DOMAIN asignadas[p] /\ Cierre(Tail(s), asignadas[p])
    BY <1>2, <1>4, CierreCasos
  <1>6. PICK r \in Recursos, n \in Nat : r = Recurso("eliminacion") /\ n = asignadas[p][r]
    <2>1. asignadas[p] \in TAsignadas  BY <1>1
    <2>2. DOMAIN asignadas[p] \subseteq Recursos /\ \A q \in DOMAIN asignadas[p] : asignadas[p][q] \in Nat
      BY <2>1, ConstantesOK DEF TAsignadas
    <2>3. QED  BY <1>5, <2>2 DEF Recurso
  <1>7. PICK u : u = Repetir(n, Paso("devolver", r)) \o Tail(s)  OBVIOUS
  <1>8. Cierre(u, asignadas[p]) /\ u \in Seq(UnPaso) /\ u # <<>>
    <2>1. Cierre(u, asignadas[p])  BY <1>5, <1>7, CierreCon
    <2>2. QED  BY <2>1 DEF Cierre
  <1>9. Seguir("eliminacion", Repetir(n, Paso("devolver", r)))  BY <1>3, <1>6 DEF Quitar
  <1>10. /\ hilo' \in [Hilos -> THilo] /\ hilo'["eliminacion"].pasos = u /\ hilo'["eliminacion"].pid = p
         /\ hilo'["dispatch"] = hilo["dispatch"]
    BY <1>1, <1>3, <1>7, <1>8, <1>9, SeguirTipo DEF Hilos
  <1>11. ElimOK(hilo'["eliminacion"], asignadas)
    <2>1. hilo'["eliminacion"] \in THilo  BY <1>10 DEF Hilos
    <2>2. QED  BY <1>8, <1>10, <2>1, ElimEntonces
  <1>12. cola_recurso' \in [Recursos -> Seq(Pids)]
    <2>1. cola_recurso \in [Recursos -> Seq(Pids)]  BY <1>1 DEF DatosOK
    <2>2. PICK t \in Seq(Pids) : t = IF Contains(cola_recurso[r], p) THEN RemoveFirst(cola_recurso[r], p)
                                                                     ELSE cola_recurso[r]
      <3>1. cola_recurso[r] \in Seq(Pids)  BY <2>1
      <3>2. RemoveFirst(cola_recurso[r], p) \in Seq(Pids)  BY <3>1, SinElPrimero
      <3>3. QED  BY <3>1, <3>2
    <2>3. cola_recurso' = [cola_recurso EXCEPT ![r] = t]  BY <1>3, <1>6, <2>2 DEF Quitar
    <2>4. QED  BY <2>1, <2>3
  <1>13. DatosOK' /\ ViajesOK' /\ UNCHANGED asignadas
    BY <1>1, <1>12 DEF Quitar, DatosOK, ViajesOK, colas, cpuVars
  <1>14. QED  BY <1>1, <1>10, <1>11, <1>13 DEF InvTipos

\* What is given back keeps the types.
LEMMA DevolverTipos == ASSUME InvTipos, UNCHANGED carga, Devolver PROVE InvTipos'
  <1> DEFINE x == hilo["eliminacion"]
             s == x.pasos
  <1>1. /\ DatosOK /\ ViajesOK /\ asignadas \in [Pids -> TAsignadas]
        /\ hilo \in [Hilos -> THilo] /\ DispatchOK(hilo["dispatch"]) /\ ElimOK(x, asignadas)
    BY DEF InvTipos
  <1>2. s # <<>> /\ Head(s).op = "devolver"  BY DEF Devolver, Toca
  <1>3. PICK p \in Pids : p = x.pid  BY <1>1, <1>2 DEF ElimOK, TienePids
  <1>4. Cierre(s, asignadas[p])  BY <1>1, <1>2, <1>3, ElimSigue DEF OpsSuma
  <1>5. PICK r \in Recursos, v \in {Tail(s)} : r = Recurso("eliminacion") /\ v = Tail(s) /\ Cierre(v, asignadas[p])
    BY <1>2, <1>4, CierreCasos DEF Recurso
  <1>6. v \in Seq(UnPaso) /\ v # <<>> /\ Head(v).op \notin OpsSuma  BY <1>5, CierreCasos DEF Cierre
  <1>7. PICK q \in {<<>>, PasosSumar(r)} : Seguir("eliminacion", q)  BY <1>5 DEF Devolver
  <1>8. PICK u : u = q \o v  OBVIOUS
  <1>9. u \in Seq(UnPaso) /\ FormaElim(u, v, asignadas[p]) /\ Head(u).op \notin {"buscar", "desbloquear"}
    <2>1. CASE q = <<>>
      <3>1. u = v  BY <1>6, <1>8, <2>1
      <3>2. QED  BY <1>5, <1>6, <3>1 DEF FormaElim, OpsSuma
    <2>2. CASE q = PasosSumar(r)
      <3>1. Sumando(u, v, r) /\ Head(u).op = "sumar"  BY <1>6, <1>8, <2>2, SumandoDe
      <3>2. CasosSuma(u, v, r)  BY <1>6, <3>1, SumandoCasos
      <3>3. QED  BY <1>5, <3>1, <3>2 DEF FormaElim, CasosSuma
    <2>3. QED  BY <1>7, <2>1, <2>2
  <1>10. /\ hilo' \in [Hilos -> THilo] /\ hilo'["eliminacion"].pasos = u /\ hilo'["eliminacion"].pid = p
         /\ hilo'["dispatch"] = hilo["dispatch"]
    BY <1>1, <1>3, <1>5, <1>7, <1>8, <1>9, SeguirTipo DEF Hilos
  <1>11. ElimOK(hilo'["eliminacion"], asignadas)
    <2>1. hilo'["eliminacion"] \in THilo  BY <1>10 DEF Hilos
    <2>2. QED  BY <1>9, <1>10, <2>1 DEF ElimOK, TienePids
  <1>12. DatosOK' /\ ViajesOK' /\ UNCHANGED asignadas
    BY <1>1 DEF Devolver, DatosOK, ViajesOK, colas, cpuVars, contables
  <1>13. QED  BY <1>1, <1>10, <1>11, <1>12 DEF InvTipos

\* The end of a release keeps the types.
LEMMA DestruirTipos == ASSUME InvTipos, UNCHANGED carga, Destruir PROVE InvTipos'
  <1> DEFINE x == hilo["eliminacion"]
             s == x.pasos
  <1>1. /\ DatosOK /\ ViajesOK /\ asignadas \in [Pids -> TAsignadas]
        /\ hilo \in [Hilos -> THilo] /\ DispatchOK(hilo["dispatch"]) /\ ElimOK(x, asignadas)
    BY DEF InvTipos
  <1>2. s # <<>> /\ Head(s).op = "destruir" /\ Hecho("eliminacion")  BY DEF Destruir, Toca
  <1>3. x.pid \in Pids  BY <1>1, <1>2 DEF ElimOK, TienePids
  <1>4. Cierre(s, asignadas[x.pid])  BY <1>1, <1>2, ElimSigue DEF OpsSuma
  <1>5. Tail(s) = <<>>  BY <1>2, <1>4, CierreCasos
  <1>6. /\ hilo' \in [Hilos -> THilo] /\ hilo'["eliminacion"].pasos = <<>>
        /\ hilo'["dispatch"] = hilo["dispatch"]
    BY <1>1, <1>2, <1>5, HechoTipo DEF Hilos
  <1>7. ElimOK(hilo'["eliminacion"], asignadas)
    <2>1. hilo'["eliminacion"] \in THilo  BY <1>6 DEF Hilos
    <2>2. QED  BY <1>6, <2>1 DEF ElimOK, TienePids
  <1>8. DatosOK' /\ ViajesOK' /\ UNCHANGED asignadas
    BY <1>1, <1>3 DEF Destruir, DatosOK, ViajesOK, colas, cpuVars, contables
  <1>9. QED  BY <1>1, <1>6, <1>7, <1>8 DEF InvTipos

\* The planners keep the types.
LEMMA PlanTipos == ASSUME InvTipos, UNCHANGED carga, Despachar \/ TerminarIO PROVE InvTipos'
  <1>1. /\ DatosOK /\ ViajesOK /\ asignadas \in [Pids -> TAsignadas]
        /\ hilo \in [Hilos -> THilo] /\ DispatchOK(hilo["dispatch"]) /\ ElimOK(hilo["eliminacion"], asignadas)
    BY DEF InvTipos
  <1>2. UNCHANGED <<asignadas, hilo>>  BY DEF Despachar, TerminarIO, contables
  <1>3. CASE Despachar
    <2>1. PICK p \in Pids, t \in Seq(Pids) : p = Head(ready) /\ t = Tail(ready)
      <3>1. ready \in Seq(Pids) /\ ready # <<>>  BY <1>1, <1>3 DEF Despachar, DatosOK
      <3>2. Head(ready) \in Pids /\ Tail(ready) \in Seq(Pids)  BY <3>1
      <3>3. QED  BY <3>2
    <2>2. Pcb(p) \in TRespuesta  BY DEF Pcb, TRespuesta
    <2>3. ready' = t /\ estado' = [estado EXCEPT ![p] = "EXEC"] /\ a_cpu' = Append(a_cpu, Pcb(p))
          /\ cpu_libre' = cpu_libre - 1 /\ cpu_libre > 0
      BY <1>3, <2>1 DEF Despachar
    <2>4. a_cpu' \in Seq(TRespuesta)  BY <1>1, <2>2, <2>3 DEF ViajesOK
    <2>5. cpu_libre' \in Nat /\ estado' \in TEstado  BY <1>1, <2>1, <2>3 DEF DatosOK, TEstado
    <2>6. DatosOK' /\ ViajesOK'
      BY <1>1, <1>3, <2>1, <2>3, <2>4, <2>5 DEF Despachar, DatosOK, ViajesOK, contables, cpuVars
    <2>7. QED  BY <1>1, <1>2, <2>6 DEF InvTipos
  <1>4. CASE TerminarIO
    <2>1. PICK p \in Pids, t \in Seq(Pids) : p = Head(cola_io) /\ t = Tail(cola_io)
      <3>1. cola_io \in Seq(Pids) /\ cola_io # <<>>  BY <1>1, <1>4 DEF TerminarIO, DatosOK
      <3>2. Head(cola_io) \in Pids /\ Tail(cola_io) \in Seq(Pids)  BY <3>1
      <3>3. QED  BY <3>2
    <2>2. blocked' \in Seq(Pids)
      <3>1. blocked \in Seq(Pids) /\ blocked' = RemoveFirst(blocked, p)  BY <1>1, <1>4, <2>1 DEF TerminarIO, DatosOK
      <3>2. QED  BY <3>1, SinElPrimero
    <2>3. ready' \in Seq(Pids) /\ estado' \in TEstado /\ cola_io' = t
      BY <1>1, <1>4, <2>1 DEF TerminarIO, DatosOK, TEstado
    <2>4. DatosOK' /\ ViajesOK'
      BY <1>1, <1>4, <2>1, <2>2, <2>3 DEF TerminarIO, DatosOK, ViajesOK, contables, cpuVars
    <2>5. QED  BY <1>1, <1>2, <2>4 DEF InvTipos
  <1>5. QED  BY <1>3, <1>4

\* The instruction that comes next is one.
LEMMA InstruccionTipo ==
    ASSUME InvTipos, cpu.en = "ciclo", pc[cpu.pid] <= Len(Programa[cpu.pid])
    PROVE  /\ cpu.pid \in Pids /\ pc[cpu.pid] \in 1 .. Len(Programa[cpu.pid])
           /\ Proxima \in Instrucciones
  <1>1. carga \in Cargas /\ cpu \in TCpu /\ pc \in [Pids -> Nat \ {0}]  BY DEF InvTipos, DatosOK, ViajesOK
  <1>2. cpu.pid \in Pids  BY <1>1 DEF TCpu
  <1>3. Programa[cpu.pid] \in Seq(Instrucciones)  BY <1>1, <1>2, ConstantesOK DEF Programa
  <1>4. pc[cpu.pid] \in 1 .. Len(Programa[cpu.pid])
    <2>1. PICK n \in Nat : n = Len(Programa[cpu.pid])  BY <1>3
    <2>2. QED  BY <1>1, <1>2, <2>1
  <1>5. QED  BY <1>2, <1>3, <1>4 DEF Proxima

\* The CPU keeps the types.
LEMMA CpuTipos == ASSUME InvTipos, UNCHANGED carga, Cpu PROVE InvTipos'
  <1>1. /\ DatosOK /\ ViajesOK /\ asignadas \in [Pids -> TAsignadas]
        /\ hilo \in [Hilos -> THilo] /\ DispatchOK(hilo["dispatch"]) /\ ElimOK(hilo["eliminacion"], asignadas)
    BY DEF InvTipos
  <1>2. UNCHANGED <<contables, colas, estado, cpu_libre, hilo, eliminados>>
    BY DEF Cpu, CpuRecibe, CpuEjecuta, CpuRespuesta, CpuChequea, CpuTermina
  <1>3. DatosOK'
    <2>1. vivo' \in BOOLEAN
      BY <1>1 DEF Cpu, CpuRecibe, CpuEjecuta, CpuRespuesta, CpuChequea, CpuTermina, DatosOK
    <2>2. QED  BY <1>1, <1>2, <2>1 DEF DatosOK, contables, colas
  <1>4. a_cpu \in Seq(TRespuesta) /\ a_kernel \in Seq(TPedido) /\ cpu \in TCpu /\ flags \subseteq TFlags
        /\ pc \in [Pids -> Nat \ {0}]
    BY <1>1 DEF ViajesOK
  <1>5. a_cpu # <<>> => Head(a_cpu) \in TRespuesta /\ Tail(a_cpu) \in Seq(TRespuesta)  BY <1>4
  <1>6. ASSUME NEW m \in Motivos, NEW r \in Recursos \union {Nadie, Inexistente}, cpu.en # "libre"
        PROVE  Enviar(m, r) \in Seq(TPedido)
    <2>1. [motivo |-> m, pid |-> cpu.pid, recurso |-> r] \in TPedido  BY <1>4, <1>6 DEF TPedido, TCpu
    <2>2. PICK e \in TPedido : e = [motivo |-> m, pid |-> cpu.pid, recurso |-> r]  BY <2>1
    <2>3. <<e>> \in Seq(TPedido)  OBVIOUS
    <2>4. QED  BY <2>2, <2>3 DEF Enviar
  <1>7. CASE CpuRecibe
    <2>1. cpu' \in TCpu  BY <1>5, <1>7 DEF CpuRecibe, TRespuesta, TCpu
    <2>2. QED  BY <1>1, <1>2, <1>3, <1>5, <1>7, <2>1 DEF CpuRecibe, InvTipos, ViajesOK, contables
  <1>8. CASE CpuEjecuta
    <2>1. /\ cpu.pid \in Pids /\ Proxima \in Instrucciones /\ cpu.en = "ciclo"
      BY <1>8, InstruccionTipo DEF CpuEjecuta
    <2>2. pc' \in [Pids -> Nat \ {0}]  BY <1>4, <1>8, <2>1 DEF CpuEjecuta
    <2>3. cpu' \in TCpu  BY <1>4, <1>8, <2>1 DEF CpuEjecuta, TCpu
    <2>4. flags' \subseteq TFlags  BY <1>4, <1>8 DEF CpuEjecuta, TFlags
    <2>5. a_kernel' \in Seq(TPedido)
      <3>1. Proxima.op \in {"WAIT", "SIGNAL", "IO", "EXIT"} /\ Proxima.recurso \in Recursos \union {Inexistente}
        BY <2>1 DEF Instrucciones
      <3>2. PICK e \in Seq(TPedido) : a_kernel' = a_kernel \o e
        <4>1. CASE Proxima.op \in {"WAIT", "SIGNAL"}
          BY <1>6, <1>8, <2>1, <3>1, <4>1 DEF CpuEjecuta, Motivos
        <4>2. CASE Proxima.op = "IO"
          BY <1>6, <1>8, <2>1, <4>2 DEF CpuEjecuta, Motivos
        <4>3. CASE Proxima.op = "EXIT"
          <5>1. a_kernel' = a_kernel \o <<>>  BY <1>8, <4>3 DEF CpuEjecuta
          <5>2. <<>> \in Seq(TPedido)  OBVIOUS
          <5>3. QED  BY <5>1, <5>2
        <4>4. QED  BY <3>1, <4>1, <4>2, <4>3
      <3>3. QED  BY <1>4, <3>2
    <2>6. QED  BY <1>1, <1>2, <1>3, <1>8, <2>2, <2>3, <2>4, <2>5
               DEF CpuEjecuta, InvTipos, ViajesOK, contables
  <1>9. CASE CpuRespuesta
    <2>1. cpu' \in TCpu  BY <1>4, <1>9 DEF CpuRespuesta, TCpu
    <2>2. flags' \subseteq TFlags  BY <1>4, <1>9 DEF CpuRespuesta, TFlags
    <2>3. QED  BY <1>1, <1>2, <1>3, <1>5, <1>9, <2>1, <2>2 DEF CpuRespuesta, InvTipos, ViajesOK, contables
  <1>10. CASE CpuChequea
    <2>1. cpu' \in TCpu  BY <1>4, <1>10 DEF CpuChequea, TCpu
    <2>2. flags' \subseteq TFlags  BY <1>4, <1>10 DEF CpuChequea, TFlags
    <2>3. QED  BY <1>1, <1>2, <1>3, <1>10, <2>1, <2>2 DEF CpuChequea, InvTipos, ViajesOK, contables
  <1>11. CASE CpuTermina
    <2>1. cpu' \in TCpu  BY <1>11 DEF CpuTermina, TCpu
    <2>2. flags' \subseteq TFlags  BY <1>4, <1>11 DEF CpuTermina, TFlags
    <2>3. a_kernel' \in Seq(TPedido)
      <3>1. \A m \in {"END_PROCESS", "FIN_CLOCK", "RESOURCE_BLOCKED"} : Enviar(m, Nadie) \in Seq(TPedido)
        BY <1>6, <1>11 DEF CpuTermina, Motivos
      <3>2. \A s \in Seq(TPedido), t \in Seq(TPedido) : s \o t \in Seq(TPedido)  OBVIOUS
      <3>3. <<>> \in Seq(TPedido)  OBVIOUS
      <3>4. CASE "end_process" \in flags
        BY <1>4, <1>11, <3>1, <3>2, <3>4 DEF CpuTermina
      <3>5. CASE "end_process" \notin flags
        <4>1. PICK e \in Seq(TPedido), g \in Seq(TPedido) : a_kernel' = a_kernel \o e \o g
          BY <1>11, <3>1, <3>3, <3>5 DEF CpuTermina
        <4>2. QED  BY <1>4, <3>2, <4>1
      <3>6. QED  BY <3>4, <3>5
    <2>4. QED  BY <1>1, <1>2, <1>3, <1>11, <2>1, <2>2, <2>3 DEF CpuTermina, InvTipos, ViajesOK, contables
  <1>12. QED  BY <1>7, <1>8, <1>9, <1>10, <1>11 DEF Cpu

\* The invariant of the types holds at the start ...
LEMMA InvTiposInit == ASSUME Init PROVE InvTipos
  <1>1. ready \in Seq(Pids)
    <2>1. Cardinality(Pids) \in Nat  BY ConstantesOK, FS_CardinalityType
    <2>2. QED  BY <2>1 DEF Init, SetToSeqs
  <1>2. instancias \in [Recursos -> Int]  BY ConstantesOK DEF Init
  <1>3. DatosOK  BY <1>1, <1>2 DEF Init, DatosOK, TEstado
  <1>4. ViajesOK  BY DEF Init, ViajesOK, TCpu
  <1>5. asignadas \in [Pids -> TAsignadas]
    <2>1. <<>> \in [{} -> 0 .. Vuelta - 1]  OBVIOUS
    <2>2. <<>> \in TAsignadas  BY <2>1 DEF TAsignadas
    <2>3. QED  BY <2>2 DEF Init
  <1>6. ASSUME NEW h \in Hilos PROVE hilo[h] \in THilo /\ hilo[h].pasos = <<>>
    BY <1>6 DEF Init, THilo, PidsN
  <1>7. hilo \in [Hilos -> THilo]
    <2>1. DOMAIN hilo = Hilos /\ hilo = [h \in Hilos |-> hilo[h]]  BY DEF Init
    <2>2. QED  BY <1>6, <2>1
  <1>8. "dispatch" \in Hilos /\ "eliminacion" \in Hilos  BY DEF Hilos
  <1>9. FormaDispatch(<<>>)  BY DEF FormaDispatch, Seguida
  <1>10. DispatchOK(hilo["dispatch"]) /\ ElimOK(hilo["eliminacion"], asignadas)
    BY <1>6, <1>8, <1>9 DEF DispatchOK, ElimOK, TienePids
  <1>11. QED  BY <1>3, <1>4, <1>5, <1>7, <1>10 DEF InvTipos

\* ... every step keeps it ...
LEMMA InvTiposNext == ASSUME InvTipos, [Next]_vars PROVE InvTipos'
  <1>1. CASE UNCHANGED vars
    <2>1. UNCHANGED <<carga, instancias, asignadas, cola_recurso, blocked, ready, exit, cola_io, estado, eliminados,
                      pc, cpu_libre, hilo, a_cpu, a_kernel, cpu, flags, vivo>>
      BY <1>1 DEF vars, sistema, contables, colas, cpuVars
    <2>2. QED  BY <2>1 DEF InvTipos, DatosOK, ViajesOK
  <1>2. ASSUME Next PROVE InvTipos'
    <2>1. UNCHANGED carga  BY <1>2 DEF Next
    <2>2. CASE Despachar \/ TerminarIO  BY <2>1, <2>2, PlanTipos
    <2>3. CASE Dispatch
      BY <2>1, <2>3, RecibirTipos, LeerTipos, RestarRetenidaTipos, DispatchSimpleTipos, SumaTipos DEF Dispatch, Hilos
    <2>4. CASE Eliminacion
      BY <2>1, <2>4, EliminarTipos, QuitarTipos, DevolverTipos, DestruirTipos, SumaTipos DEF Eliminacion, Hilos
    <2>5. CASE Cpu  BY <2>1, <2>5, CpuTipos
    <2>6. QED  BY <1>2, <2>2, <2>3, <2>4, <2>5 DEF Next
  <1>3. QED  BY <1>1, <1>2

\* ... and so it holds in every state.
THEOREM InvTiposSiempre == Spec => []InvTipos
  <1>1. Init => InvTipos  BY InvTiposInit
  <1>2. InvTipos /\ [Next]_vars => InvTipos'  BY InvTiposNext
  <1>3. QED  BY <1>1, <1>2, PTL DEF Spec

\* TypeOK: queues of processes, messages and lists of steps of the threads have the values that
\* recibir_dispatch, eliminacion_de_procesos and the CPU expect in them, in every state.
THEOREM TiposDeRecursos == Spec => []TypeOK
  <1>1. InvTipos => TypeOK  BY TiposImplican
  <1>2. QED  BY <1>1, InvTiposSiempre, PTL

-----------------------------------------------------------------------------
(* Instances *)

\* An instruction moves the balance of a program by one, if it is on r.
LEMMA SaldoSigue ==
    ASSUME NEW s \in Seq(Instrucciones), NEW r, NEW n \in 1 .. Len(s)
    PROVE  /\ Saldo(s, r, n) \in Int
           /\ Saldo(s, r, n + 1) = Saldo(s, r, n) + (IF s[n] = [op |-> "WAIT", recurso |-> r] THEN 1 ELSE 0)
                                                  - (IF s[n] = [op |-> "SIGNAL", recurso |-> r] THEN 1 ELSE 0)
  <1>1. PICK t \in Seq(Instrucciones), e \in Instrucciones : t = SubSeq(s, 1, n - 1) /\ e = s[n]
    <2>1. SubSeq(s, 1, n - 1) \in Seq(Instrucciones) /\ s[n] \in Instrucciones  OBVIOUS
    <2>2. QED  BY <2>1
  <1>2. SubSeq(s, 1, (n + 1) - 1) = Append(t, e)
    <2>1. (n + 1) - 1 = n /\ n >= 1 /\ n <= Len(s) /\ Len(s) \in Nat /\ n \in Nat  OBVIOUS
    <2>2. SubSeq(s, 1, n) = Append(SubSeq(s, 1, n - 1), s[n])  BY <2>1
    <2>3. QED  BY <1>1, <2>1, <2>2
  <1>3. PICK w, g : w = [op |-> "WAIT", recurso |-> r] /\ g = [op |-> "SIGNAL", recurso |-> r]  OBVIOUS
  <1>4. PICK i \in Nat, j \in Nat : i = Veces(t, w) /\ j = Veces(t, g)
    <2>1. Veces(t, w) \in Nat  BY VecesTipo
    <2>2. Veces(t, g) \in Nat  BY VecesTipo
    <2>3. QED  BY <2>1, <2>2
  <1>5. PICK c \in Nat, d \in Nat : c = (IF e = w THEN 1 ELSE 0) /\ d = (IF e = g THEN 1 ELSE 0)  OBVIOUS
  <1>6. Veces(Append(t, e), w) = i + c
    <2>1. Veces(Append(t, e), w) = Veces(t, w) + (IF e = w THEN 1 ELSE 0)  BY VecesUltimo
    <2>2. QED  BY <1>4, <1>5, <2>1
  <1>7. Veces(Append(t, e), g) = j + d
    <2>1. Veces(Append(t, e), g) = Veces(t, g) + (IF e = g THEN 1 ELSE 0)  BY VecesUltimo
    <2>2. QED  BY <1>4, <1>5, <2>1
  <1>8. Saldo(s, r, n) = i - j  BY <1>1, <1>3, <1>4 DEF Saldo
  <1>9. Saldo(s, r, n + 1) = (i + c) - (j + d)  BY <1>2, <1>3, <1>6, <1>7 DEF Saldo
  <1>10. (i + c) - (j + d) = (i - j) + c - d /\ i - j \in Int  OBVIOUS
  <1>11. Saldo(s, r, n + 1) = Saldo(s, r, n) + c - d /\ Saldo(s, r, n) \in Int
    BY <1>8, <1>9, <1>10
  <1>12. QED  BY <1>1, <1>3, <1>5, <1>11

\* Before the first instruction nothing has been asked for.
LEMMA SaldoNada == ASSUME NEW s \in Seq(Instrucciones), NEW r PROVE Saldo(s, r, 1) = 0
  <1>1. SubSeq(s, 1, 0) = <<>> /\ 1 - 1 = 0  OBVIOUS
  <1>2. PICK z : z = <<>> /\ Veces(z, [op |-> "WAIT", recurso |-> r]) = 0
                  /\ Veces(z, [op |-> "SIGNAL", recurso |-> r]) = 0
    BY VecesNada
  <1>3. Saldo(s, r, 1) = 0 - 0  BY <1>1, <1>2 DEF Saldo
  <1>4. QED  BY <1>3

-----------------------------------------------------------------------------
(* The conversation between the CPU and recibir_dispatch *)

Despachador == hilo["dispatch"]
Eliminador == hilo["eliminacion"]

OpsCalladas == {"encolar", "bloquear", "encolar_io", "liberar_cpu", "finalizar", "desalojar"}
Callados == {e \in UnPaso : e.op \in OpsCalladas}
Callado(s) == s \in Seq(Callados)

TSuelto == [motivo : {"END_PROCESS", "FIN_CLOCK", "RESOURCE_BLOCKED", "OPERACION_IO"}, pid : Pids, recurso : {Nadie}]
TPcb == [tipo : {"PCB"}, pid : Pids]
SoloPcbs(s) == s \in Seq(TPcb)
UnaRespuesta(s) ==
    /\ s \in Seq(TRespuesta)
    /\ \E k \in 1 .. Len(s) : s[k].tipo # "PCB" /\ \A j \in 1 .. Len(s) : j # k => s[j].tipo = "PCB"

Pedida == Programa[cpu.pid][pc[cpu.pid] - 1]
Mensaje(p, i) == [motivo |-> IF i.op = "WAIT" THEN "WAIT_SOLICITADO" ELSE "SIGNAL_SOLICITADO",
                  pid |-> p, recurso |-> i.recurso]

AtiendeWait(s, r) == s = <<Paso("restar", r), Paso("leer", r)>> \/ s = <<Paso("leer", r)>>
AtiendeSignal(s, r) == Sumando(s, Retenida(r), r)
AtiendeFalla(s) == \/ s = <<Paso("fallar", Nadie), Paso("liberar_cpu", Nadie), Paso("finalizar", Nadie)>>
                   \/ s = <<Paso("fallar", Nadie), Paso("finalizar", Nadie), Paso("liberar_cpu", Nadie)>>
Atiende(s, i) ==
    \/ i.op = "WAIT" /\ i.recurso \in Recursos /\ AtiendeWait(s, i.recurso)
    \/ i.op = "SIGNAL" /\ i.recurso \in Recursos /\ AtiendeSignal(s, i.recurso)
    \/ i.recurso = Inexistente /\ AtiendeFalla(s)

FaseLibre == cpu.en # "espera" /\ a_kernel \in Seq(TSuelto) /\ Callado(Despachador.pasos) /\ SoloPcbs(a_cpu)
Esperando == /\ cpu.en = "espera" /\ cpu.pid \in Pids /\ pc[cpu.pid] - 1 \in 1 .. Len(Programa[cpu.pid])
             /\ Pedida.op \in {"WAIT", "SIGNAL"}
FasePedido ==
    /\ Esperando /\ SoloPcbs(a_cpu) /\ Callado(Despachador.pasos)
    /\ \E s \in Seq(TSuelto) : a_kernel = Append(s, Mensaje(cpu.pid, Pedida))
FaseAtendido ==
    /\ Esperando /\ SoloPcbs(a_cpu) /\ a_kernel \in Seq(TSuelto)
    /\ Despachador.pid = cpu.pid /\ Atiende(Despachador.pasos, Pedida)
FaseContestado == Esperando /\ UnaRespuesta(a_cpu) /\ Callado(Despachador.pasos) /\ a_kernel \in Seq(TSuelto)
Curso == FaseLibre \/ FasePedido \/ FaseAtendido \/ FaseContestado

\* A list of steps that answer nothing, one by one.
LEMMA CalladoCasos ==
    ASSUME NEW s, Callado(s)
    PROVE  s \in Seq(UnPaso) /\ (s # <<>> => Head(s).op \in OpsCalladas /\ Callado(Tail(s)))
  <1>1. s \in Seq(UnPaso)
    <2>1. Callados \subseteq UnPaso  BY DEF Callados
    <2>2. QED  BY <2>1, SeqMayor DEF Callado
  <1>2. ASSUME s # <<>> PROVE Head(s) \in Callados /\ Tail(s) \in Seq(Callados)
    <2>1. s \in Seq(Callados)  BY DEF Callado
    <2>2. QED  BY <1>2, <2>1
  <1>3. QED  BY <1>1, <1>2 DEF Callados, Callado

OpsAtender == {"restar", "leer", "restar_retenida", "fallar"} \union OpsSuma

\* What recibir_dispatch does next for the instruction that the CPU waits for.
LEMMA AtiendeCasos ==
    ASSUME NEW s, NEW i \in Instrucciones, Atiende(s, i), i.op \in {"WAIT", "SIGNAL"}
    PROVE  /\ s \in Seq(UnPaso) /\ s # <<>> /\ Head(s).op \in OpsAtender
           /\ \/ /\ i.op = "WAIT" /\ i.recurso \in Recursos /\ Head(s).recurso = i.recurso
                 /\ \/ Head(s).op = "restar" /\ AtiendeWait(Tail(s), i.recurso)
                    \/ Head(s).op = "leer" /\ Tail(s) = <<>>
              \/ /\ i.op = "SIGNAL" /\ i.recurso \in Recursos /\ Head(s).recurso = i.recurso
                 /\ AtiendeSignal(s, i.recurso)
                 /\ Head(s).op \in OpsSuma \/ (Head(s).op = "restar_retenida" /\ Tail(s) = <<>>)
              \/ i.recurso = Inexistente /\ Head(s).op = "fallar" /\ Callado(Tail(s))
  <1>1. ASSUME i.op = "WAIT", i.recurso \in Recursos, AtiendeWait(s, i.recurso)
        PROVE  /\ s \in Seq(UnPaso) /\ s # <<>> /\ Head(s).op \in OpsAtender /\ Head(s).recurso = i.recurso
               /\ \/ Head(s).op = "restar" /\ AtiendeWait(Tail(s), i.recurso)
                  \/ Head(s).op = "leer" /\ Tail(s) = <<>>
    <2>1. PICK r \in Recursos : r = i.recurso  BY <1>1
    <2>2. PICK a \in UnPaso, b \in UnPaso : /\ a = Paso("restar", r) /\ b = Paso("leer", r)
                                            /\ a.op = "restar" /\ b.op = "leer" /\ a.recurso = r /\ b.recurso = r
      BY PasoTipo DEF Pasos
    <2>3. CASE s = <<a, b>>
      <3>1. s \in Seq(UnPaso) /\ s # <<>> /\ Head(s) = a /\ Tail(s) = <<b>>  BY <2>3
      <3>2. QED  BY <2>1, <2>2, <3>1 DEF AtiendeWait, OpsAtender
    <2>4. CASE s = <<b>>
      <3>1. s \in Seq(UnPaso) /\ s # <<>> /\ Head(s) = b /\ Tail(s) = <<>>  BY <2>4
      <3>2. QED  BY <2>1, <2>2, <3>1 DEF AtiendeWait, OpsAtender
    <2>5. QED  BY <1>1, <2>1, <2>2, <2>3, <2>4 DEF AtiendeWait
  <1>2. ASSUME NEW r \in Recursos, AtiendeSignal(s, r)
        PROVE  /\ s \in Seq(UnPaso) /\ s # <<>> /\ Head(s).op \in OpsAtender /\ Head(s).recurso = r
               /\ Head(s).op \in OpsSuma \/ (Head(s).op = "restar_retenida" /\ Tail(s) = <<>>)
    <2>1. PICK v \in Seq(UnPaso) : /\ v = Retenida(r) /\ v # <<>> /\ Head(v).op \notin OpsSuma /\ Tail(v) = <<>>
                                   /\ Head(v).op = "restar_retenida" /\ Head(v).recurso = r
      BY RetenidaTipo
    <2>2. Sumando(s, v, r)  BY <1>2, <2>1 DEF AtiendeSignal
    <2>3. CasosSuma(s, v, r)  BY <2>1, <2>2, SumandoCasos
    <2>4. QED  BY <2>1, <2>3 DEF CasosSuma, OpsSuma, OpsAtender
  <1>3. ASSUME AtiendeFalla(s)
        PROVE  /\ s \in Seq(UnPaso) /\ s # <<>> /\ Head(s).op \in OpsAtender
               /\ Head(s).op = "fallar" /\ Callado(Tail(s))
    <2>1. PICK a \in UnPaso : a = Paso("fallar", Nadie) /\ a.op = "fallar"  BY PasoTipo DEF Pasos
    <2>2. PICK b \in Callados, c \in Callados : b = Paso("liberar_cpu", Nadie) /\ c = Paso("finalizar", Nadie)
      BY PasoTipo DEF Pasos, Callados, OpsCalladas
    <2>3. b \in UnPaso /\ c \in UnPaso  BY DEF Callados
    <2>4. CASE s = <<a, b, c>>
      <3>1. s \in Seq(UnPaso) /\ s # <<>> /\ Head(s) = a /\ Tail(s) = <<b, c>>  BY <2>3, <2>4
      <3>2. <<b, c>> \in Seq(Callados)  OBVIOUS
      <3>3. QED  BY <2>1, <3>1, <3>2 DEF Callado, OpsAtender
    <2>5. CASE s = <<a, c, b>>
      <3>1. s \in Seq(UnPaso) /\ s # <<>> /\ Head(s) = a /\ Tail(s) = <<c, b>>  BY <2>3, <2>5
      <3>2. <<c, b>> \in Seq(Callados)  OBVIOUS
      <3>3. QED  BY <2>1, <3>1, <3>2 DEF Callado, OpsAtender
    <2>6. QED  BY <1>3, <2>1, <2>2, <2>4, <2>5 DEF AtiendeFalla
  <1>4. CASE i.op = "WAIT" /\ i.recurso \in Recursos /\ AtiendeWait(s, i.recurso)  BY <1>1, <1>4
  <1>5. CASE i.op = "SIGNAL" /\ i.recurso \in Recursos /\ AtiendeSignal(s, i.recurso)  BY <1>2, <1>5
  <1>6. CASE i.recurso = Inexistente /\ AtiendeFalla(s)  BY <1>3, <1>6
  <1>7. QED  BY <1>4, <1>5, <1>6 DEF Atiende

\* What the CPU is sent: processes, and the answer to what it asked for.
LEMMA RespuestaMas ==
    ASSUME NEW s, UnaRespuesta(s), NEW e \in TPcb PROVE UnaRespuesta(Append(s, e))
  <1>1. s \in Seq(TRespuesta) /\ e \in TRespuesta /\ e.tipo = "PCB"  BY DEF UnaRespuesta, TPcb, TRespuesta
  <1>2. PICK k \in 1 .. Len(s) : s[k].tipo # "PCB" /\ \A j \in 1 .. Len(s) : j # k => s[j].tipo = "PCB"
    BY DEF UnaRespuesta
  <1>3. PICK t \in Seq(TRespuesta) : t = Append(s, e)
    <2>1. Append(s, e) \in Seq(TRespuesta)  BY <1>1
    <2>2. QED  BY <2>1
  <1>4. /\ Len(t) = Len(s) + 1 /\ Len(s) \in Nat /\ t[Len(s) + 1] = e
        /\ \A j \in 1 .. Len(s) : t[j] = s[j]
    BY <1>1, <1>3
  <1>5. k \in 1 .. Len(t) /\ t[k].tipo # "PCB" /\ \A j \in 1 .. Len(t) : j # k => t[j].tipo = "PCB"
    BY <1>1, <1>2, <1>4
  <1>6. QED  BY <1>3, <1>5 DEF UnaRespuesta

\* The answer may be sent after some PCBs, ...
LEMMA RespuestaNueva ==
    ASSUME NEW s, SoloPcbs(s), NEW e \in TRespuesta, e.tipo # "PCB" PROVE UnaRespuesta(Append(s, e))
  <1>1. s \in Seq(TPcb) /\ TPcb \subseteq TRespuesta  BY DEF SoloPcbs, TPcb, TRespuesta
  <1>2. s \in Seq(TRespuesta)  BY <1>1, SeqMayor
  <1>3. PICK t \in Seq(TRespuesta) : t = Append(s, e)
    <2>1. Append(s, e) \in Seq(TRespuesta)  BY <1>2
    <2>2. QED  BY <2>1
  <1>4. /\ Len(t) = Len(s) + 1 /\ Len(s) \in Nat /\ t[Len(s) + 1] = e
        /\ \A j \in 1 .. Len(s) : t[j] = s[j]
    BY <1>2, <1>3
  <1>5. \A j \in 1 .. Len(s) : s[j].tipo = "PCB"
    <2>1. \A j \in 1 .. Len(s) : s[j] \in TPcb  BY <1>1
    <2>2. QED  BY <2>1 DEF TPcb
  <1>6. Len(t) \in 1 .. Len(t) /\ t[Len(t)].tipo # "PCB" /\ \A j \in 1 .. Len(t) : j # Len(t) => t[j].tipo = "PCB"
    BY <1>4, <1>5
  <1>7. QED  BY <1>3, <1>6 DEF UnaRespuesta

\* ... and there are only PCBs left once the CPU has read it.
LEMMA RespuestaPrimera ==
    ASSUME NEW s, UnaRespuesta(s) PROVE s # <<>> /\ ~SoloPcbs(s) /\ (Head(s).tipo # "PCB" => SoloPcbs(Tail(s)))
  <1>1. s \in Seq(TRespuesta)  BY DEF UnaRespuesta
  <1>2. PICK k \in 1 .. Len(s) : s[k].tipo # "PCB" /\ \A j \in 1 .. Len(s) : j # k => s[j].tipo = "PCB"
    BY DEF UnaRespuesta
  <1>3. s # <<>> /\ Len(s) \in Nat /\ Len(s) >= 1 /\ Head(s) = s[1]  BY <1>1, <1>2
  <1>4. ~SoloPcbs(s)
    <2>1. SoloPcbs(s) => s[k] \in TPcb  BY <1>2 DEF SoloPcbs
    <2>2. QED  BY <1>2, <2>1 DEF TPcb
  <1>5. ASSUME Head(s).tipo # "PCB" PROVE SoloPcbs(Tail(s))
    <2>1. \A j \in 2 .. Len(s) : s[j].tipo = "PCB" /\ s[j] \in TRespuesta  BY <1>1, <1>2, <1>3, <1>5
    <2>2. \A j \in 2 .. Len(s) : s[j] \in TPcb  BY <2>1 DEF TRespuesta, TPcb
    <2>3. PICK t : t = Tail(s)  OBVIOUS
    <2>4. t \in Seq(TRespuesta) /\ Len(t) = Len(s) - 1 /\ \A j \in 1 .. Len(t) : t[j] = s[j + 1]
      BY <1>1, <1>3, <2>3
    <2>5. \A j \in 1 .. Len(t) : t[j] \in TPcb
      <3>1. \A j \in 1 .. Len(t) : j + 1 \in 2 .. Len(s)  BY <1>3, <2>4
      <3>2. QED  BY <2>2, <2>4, <3>1
    <2>6. t \in Seq(TPcb)  BY <2>4, <2>5
    <2>7. QED  BY <2>3, <2>6 DEF SoloPcbs
  <1>6. QED  BY <1>3, <1>4, <1>5

\* What recibir_dispatch does about each message.
LEMMA PasosDeSuelto == ASSUME NEW m \in TSuelto PROVE Callado(PasosDe(m))
  <1>1. PICK b \in Callados, c \in Callados, d \in Callados, e \in Callados, g \in Callados :
           /\ b = Paso("liberar_cpu", Nadie) /\ c = Paso("finalizar", Nadie) /\ d = Paso("desalojar", Nadie)
           /\ e = Paso("bloquear", Nadie) /\ g = Paso("encolar_io", Nadie)
    BY PasoTipo DEF Pasos, Callados, OpsCalladas
  <1>2. <<>> \in Seq(Callados) /\ <<c, b>> \in Seq(Callados) /\ <<d, b>> \in Seq(Callados)
        /\ <<e, g, b>> \in Seq(Callados)
    OBVIOUS
  <1>3. m.recurso = Nadie /\ Nadie \notin Recursos  BY ConstantesOK DEF TSuelto
  <1>4. PasosDe(m) \in {<<c, b>>, <<d, b>>, <<e, g, b>>, <<>>}
    BY <1>1, <1>3 DEF PasosDe, TSuelto
  <1>5. QED  BY <1>2, <1>4 DEF Callado

\* A request leaves recibir_dispatch with the steps that attend to it.
LEMMA PasosDeMensaje ==
    ASSUME NEW p \in Pids, NEW i \in Instrucciones, i.op \in {"WAIT", "SIGNAL"}
    PROVE  Atiende(PasosDe(Mensaje(p, i)), i)
  <1>1. i.recurso \in Recursos \union {Inexistente} /\ Inexistente \notin Recursos
    BY ConstantesOK DEF Instrucciones
  <1>2. CASE i.recurso \in Recursos /\ i.op = "WAIT"
    BY <1>2 DEF PasosDe, Mensaje, Atiende, AtiendeWait
  <1>3. CASE i.recurso \in Recursos /\ i.op = "SIGNAL"
    <2>1. PICK r \in Recursos : r = i.recurso  BY <1>3
    <2>2. PasosDe(Mensaje(p, i)) = PasosSumar(r) \o Retenida(r)
      BY <1>3, <2>1 DEF PasosDe, Mensaje, Retenida
    <2>3. PICK v \in Seq(UnPaso) : v = Retenida(r)  BY RetenidaTipo
    <2>4. Sumando(PasosSumar(r) \o v, v, r)  BY SumandoDe
    <2>5. QED  BY <1>3, <2>1, <2>2, <2>3, <2>4 DEF Atiende, AtiendeSignal
  <1>4. CASE i.recurso = Inexistente
    BY <1>1, <1>4 DEF PasosDe, Mensaje, Atiende, AtiendeFalla
  <1>5. QED  BY <1>1, <1>2, <1>3, <1>4

\* A step that the CPU takes no part in asks for nothing.
LEMMA EsperandoIgual ==
    ASSUME UNCHANGED <<carga, cpu, pc>>
    PROVE  Esperando' = Esperando /\ Pedida' = Pedida /\ Programa' = Programa
  BY DEF Esperando, Pedida, Programa

\* What the CPU waits for is an instruction of its process.
LEMMA PedidaTipo ==
    ASSUME InvTipos, Esperando
    PROVE  Pedida \in Instrucciones /\ cpu.pid \in Pids /\ Programa[cpu.pid] \in Seq(Instrucciones)
  <1>1. carga \in Cargas  BY DEF InvTipos, DatosOK
  <1>2. Programa[cpu.pid] \in Seq(Instrucciones)  BY <1>1, ConstantesOK DEF Programa, Esperando
  <1>3. QED  BY <1>2 DEF Esperando, Pedida

\* The steps that neither answer nor attend to anything.
LEMMA CursoMarco ==
    ASSUME Curso, UNCHANGED <<carga, cpu, pc, a_kernel>>, UNCHANGED Despachador,
           a_cpu' = a_cpu \/ \E e \in TPcb : a_cpu' = Append(a_cpu, e)
    PROVE  Curso'
  <1>1. Esperando' = Esperando /\ Pedida' = Pedida  BY EsperandoIgual
  <1>2. SoloPcbs(a_cpu) => SoloPcbs(a_cpu')
    <2>1. ASSUME SoloPcbs(a_cpu), NEW e \in TPcb PROVE SoloPcbs(Append(a_cpu, e))
      <3>1. a_cpu \in Seq(TPcb)  BY <2>1 DEF SoloPcbs
      <3>2. Append(a_cpu, e) \in Seq(TPcb)  BY <3>1
      <3>3. QED  BY <3>2 DEF SoloPcbs
    <2>2. QED  BY <2>1
  <1>3. UnaRespuesta(a_cpu) => UnaRespuesta(a_cpu')  BY RespuestaMas
  <1>4. CASE FaseLibre  BY <1>2, <1>4 DEF FaseLibre, Curso
  <1>5. CASE FasePedido  BY <1>1, <1>2, <1>5 DEF FasePedido, Curso
  <1>6. CASE FaseAtendido  BY <1>1, <1>2, <1>6 DEF FaseAtendido, Curso
  <1>7. CASE FaseContestado  BY <1>1, <1>3, <1>7 DEF FaseContestado, Curso
  <1>8. QED  BY <1>4, <1>5, <1>6, <1>7 DEF Curso

\* Only what has been asked for is attended to.
LEMMA CursoAtiende ==
    ASSUME InvTipos, Curso, Despachador.pasos # <<>>, Head(Despachador.pasos).op \in OpsAtender
    PROVE  FaseAtendido
  <1>1. Callado(Despachador.pasos) => Head(Despachador.pasos).op \in OpsCalladas  BY CalladoCasos
  <1>2. ~Callado(Despachador.pasos)  BY <1>1 DEF OpsAtender, OpsSuma, OpsCalladas
  <1>3. QED  BY <1>2 DEF Curso, FaseLibre, FasePedido, FaseContestado

\* While it has a step that answers nothing, it is not attending to a request.
LEMMA CursoCallado ==
    ASSUME InvTipos, Curso, Despachador.pasos # <<>> => Head(Despachador.pasos).op \in OpsCalladas
    PROVE  Callado(Despachador.pasos) /\ ~FaseAtendido
  <1>1. ~FaseAtendido
    <2>1. SUFFICES ASSUME FaseAtendido PROVE FALSE  OBVIOUS
    <2>2. PICK i \in Instrucciones : i = Pedida /\ i.op \in {"WAIT", "SIGNAL"}
      BY <2>1, PedidaTipo DEF FaseAtendido, Esperando
    <2>3. Atiende(Despachador.pasos, i)  BY <2>1, <2>2 DEF FaseAtendido
    <2>4. Despachador.pasos # <<>> /\ Head(Despachador.pasos).op \in OpsAtender  BY <2>2, <2>3, AtiendeCasos
    <2>5. QED  BY <2>4 DEF OpsAtender, OpsSuma, OpsCalladas
  <1>2. QED  BY <1>1 DEF Curso, FaseLibre, FasePedido, FaseContestado

\* recibir_dispatch takes a message, the one that waits for an answer or one of those before it.
LEMMA CursoRecibir ==
    ASSUME InvTipos, Curso, UNCHANGED carga, Recibir
    PROVE  /\ Curso'
           /\ hilo'["dispatch"].pasos = PasosDe(Head(a_kernel)) /\ hilo'["dispatch"].pid = Head(a_kernel).pid
           /\ hilo'["eliminacion"] = hilo["eliminacion"]
           /\ Head(a_kernel) \in TSuelto \/ (FasePedido /\ Head(a_kernel) = Mensaje(cpu.pid, Pedida))
           /\ FaseAtendido' => FasePedido
  <1> DEFINE x == hilo["dispatch"]
             m == Head(a_kernel)
  <1>1. /\ a_kernel \in Seq(TPedido) /\ a_kernel # <<>> /\ x.pasos = <<>> /\ hilo \in [Hilos -> THilo]
        /\ a_kernel' = Tail(a_kernel)
    BY DEF InvTipos, ViajesOK, Recibir
  <1>2. PICK q, p : q = PasosDe(m) /\ p = m.pid  OBVIOUS
  <1>3. hilo' = [hilo EXCEPT !["dispatch"] = [x EXCEPT !.pasos = q, !.pid = p]]
    BY <1>2 DEF Recibir
  <1>4. PICK y : y = [x EXCEPT !.pasos = q, !.pid = p]  OBVIOUS
  <1>5. y.pasos = q /\ y.pid = p
    <2>1. x \in THilo  BY <1>1 DEF Hilos
    <2>2. QED  BY <1>4, <2>1 DEF THilo
  <1>6. hilo'["dispatch"] = y /\ hilo'["eliminacion"] = hilo["eliminacion"]
    BY <1>1, <1>3, <1>4 DEF Hilos
  <1>7. UNCHANGED <<cpu, pc, a_cpu>>  BY DEF Recibir, cpuVars
  <1>8. Esperando' = Esperando /\ Pedida' = Pedida  BY <1>7, EsperandoIgual
  <1>9. Callado(x.pasos) /\ ~FaseAtendido  BY <1>1, CursoCallado DEF Despachador
  <1>10. \A s \in Seq(TSuelto) : s # <<>> => Head(s) \in TSuelto /\ Tail(s) \in Seq(TSuelto)  OBVIOUS
  <1>11. CASE FaseLibre \/ FaseContestado
    <2>1. a_kernel \in Seq(TSuelto)  BY <1>11 DEF FaseLibre, FaseContestado
    <2>2. m \in TSuelto /\ a_kernel' \in Seq(TSuelto)  BY <1>1, <1>10, <2>1
    <2>3. Callado(q)  BY <1>2, <2>2, PasosDeSuelto
    <2>4. (FaseLibre => FaseLibre') /\ (FaseContestado => FaseContestado')
      BY <1>5, <1>6, <1>7, <1>8, <2>2, <2>3 DEF FaseLibre, FaseContestado, Despachador
    <2>5. ~FaseAtendido'
      <3>1. FaseLibre => ~FaseAtendido'  BY <1>7 DEF FaseLibre, FaseAtendido, Esperando
      <3>2. FaseContestado => ~FaseAtendido'
        BY <1>7, RespuestaPrimera DEF FaseContestado, FaseAtendido
      <3>3. QED  BY <1>11, <3>1, <3>2
    <2>6. QED  BY <1>2, <1>5, <1>6, <1>11, <2>2, <2>4, <2>5 DEF Curso
  <1>12. CASE FasePedido
    <2>1. PICK s \in Seq(TSuelto) : a_kernel = Append(s, Mensaje(cpu.pid, Pedida))  BY <1>12 DEF FasePedido
    <2>2. PICK e : e = Mensaje(cpu.pid, Pedida)  OBVIOUS
    <2>3. CASE s = <<>>
      <3>1. m = e /\ a_kernel' = <<>>
        <4>1. a_kernel = <<e>>  BY <2>1, <2>2, <2>3
        <4>2. QED  BY <1>1, <4>1
      <3>2. PICK i \in Instrucciones : i = Pedida /\ i.op \in {"WAIT", "SIGNAL"}
        BY <1>12, PedidaTipo DEF FasePedido, Esperando
      <3>3. cpu.pid \in Pids  BY <1>12 DEF FasePedido, Esperando
      <3>4. Atiende(PasosDe(Mensaje(cpu.pid, i)), i)  BY <3>2, <3>3, PasosDeMensaje
      <3>5. p = cpu.pid  BY <1>2, <2>2, <3>1 DEF Mensaje
      <3>6. <<>> \in Seq(TSuelto)  OBVIOUS
      <3>7. FaseAtendido'
        BY <1>2, <1>5, <1>6, <1>7, <1>8, <1>12, <2>2, <3>1, <3>2, <3>4, <3>5, <3>6
        DEF FaseAtendido, FasePedido, Despachador
      <3>8. QED  BY <1>2, <1>5, <1>6, <1>12, <2>2, <3>1, <3>7 DEF Curso
    <2>4. CASE s # <<>>
      <3>1. m = Head(s) /\ a_kernel' = Append(Tail(s), e)
        <4>1. Head(Append(s, e)) = Head(s) /\ Tail(Append(s, e)) = Append(Tail(s), e)  BY <2>4
        <4>2. QED  BY <1>1, <2>1, <2>2, <4>1
      <3>2. m \in TSuelto /\ Tail(s) \in Seq(TSuelto)  BY <1>10, <2>4, <3>1
      <3>3. Callado(q)  BY <1>2, <3>2, PasosDeSuelto
      <3>4. FasePedido'
        BY <1>5, <1>6, <1>7, <1>8, <1>12, <2>2, <3>1, <3>2, <3>3 DEF FasePedido, Despachador
      <3>5. QED  BY <1>2, <1>5, <1>6, <1>12, <3>2, <3>4 DEF Curso
    <2>5. QED  BY <2>3, <2>4
  <1>13. QED  BY <1>9, <1>11, <1>12 DEF Curso, Despachador

\* The steps that answer nothing.
LEMMA CursoCalla ==
    ASSUME InvTipos, Curso, UNCHANGED <<carga, cpu, pc, a_kernel, a_cpu>>,
           NEW op \in OpsCalladas, Toca("dispatch", op), Hecho("dispatch")
    PROVE  /\ Curso' /\ hilo'["dispatch"].pasos = Tail(hilo["dispatch"].pasos)
           /\ hilo'["dispatch"].pid = hilo["dispatch"].pid /\ Callado(hilo["dispatch"].pasos)
           /\ hilo'["eliminacion"] = hilo["eliminacion"]
  <1>1. Despachador.pasos # <<>> /\ Head(Despachador.pasos).op = op  BY DEF Toca, Despachador
  <1>2. Callado(Despachador.pasos) /\ ~FaseAtendido  BY <1>1, CursoCallado
  <1>3. /\ hilo'["dispatch"].pasos = Tail(hilo["dispatch"].pasos) /\ hilo'["dispatch"].pid = hilo["dispatch"].pid
        /\ hilo'["eliminacion"] = hilo["eliminacion"]
    BY <1>1, HechoTipo DEF Despachador, Hilos, InvTipos
  <1>4. Callado(Despachador'.pasos)  BY <1>1, <1>2, <1>3, CalladoCasos DEF Despachador
  <1>5. Esperando' = Esperando /\ Pedida' = Pedida  BY EsperandoIgual
  <1>6. Curso'
    <2>1. CASE FaseLibre  BY <1>4, <2>1 DEF FaseLibre, Curso, Despachador
    <2>2. CASE FasePedido  BY <1>4, <1>5, <2>2 DEF FasePedido, Curso, Despachador
    <2>3. CASE FaseContestado  BY <1>4, <1>5, <2>3 DEF FaseContestado, Curso, Despachador
    <2>4. QED  BY <1>2, <2>1, <2>2, <2>3 DEF Curso
  <1>7. QED  BY <1>2, <1>3, <1>6 DEF Despachador

\* The one that is attended to, and how: what recibir_dispatch has to do first tells.
LEMMA CursoAtendido ==
    ASSUME InvTipos, Curso, NEW op \in OpsAtender, Toca("dispatch", op)
    PROVE  /\ FaseAtendido /\ Pedida \in Instrucciones /\ cpu.pid \in Pids /\ hilo["dispatch"].pid = cpu.pid
           /\ op = "restar" => /\ Pedida.op = "WAIT" /\ Pedida.recurso \in Recursos
                               /\ Recurso("dispatch") = Pedida.recurso
                               /\ AtiendeWait(Tail(hilo["dispatch"].pasos), Pedida.recurso)
           /\ op = "leer" => /\ Pedida.op = "WAIT" /\ Pedida.recurso \in Recursos
                             /\ Recurso("dispatch") = Pedida.recurso /\ Tail(hilo["dispatch"].pasos) = <<>>
           /\ op \in OpsSuma \union {"restar_retenida"} =>
                 /\ Pedida.op = "SIGNAL" /\ Pedida.recurso \in Recursos /\ Recurso("dispatch") = Pedida.recurso
                 /\ AtiendeSignal(hilo["dispatch"].pasos, Pedida.recurso)
           /\ op = "restar_retenida" => Tail(hilo["dispatch"].pasos) = <<>>
           /\ op = "fallar" => Pedida.recurso = Inexistente /\ Callado(Tail(hilo["dispatch"].pasos))
  <1>1. Despachador.pasos # <<>> /\ Head(Despachador.pasos).op = op  BY DEF Toca, Despachador
  <1>2. FaseAtendido  BY <1>1, CursoAtiende
  <1>3. PICK i \in Instrucciones : i = Pedida /\ i.op \in {"WAIT", "SIGNAL"} /\ cpu.pid \in Pids
    BY <1>2, PedidaTipo DEF FaseAtendido, Esperando
  <1>4. PICK s : s = Despachador.pasos /\ Atiende(s, i) /\ Despachador.pid = cpu.pid  BY <1>2, <1>3 DEF FaseAtendido
  <1>5. \/ /\ i.op = "WAIT" /\ i.recurso \in Recursos /\ Head(s).recurso = i.recurso
           /\ \/ Head(s).op = "restar" /\ AtiendeWait(Tail(s), i.recurso)
              \/ Head(s).op = "leer" /\ Tail(s) = <<>>
        \/ /\ i.op = "SIGNAL" /\ i.recurso \in Recursos /\ Head(s).recurso = i.recurso
           /\ AtiendeSignal(s, i.recurso)
           /\ Head(s).op \in OpsSuma \/ (Head(s).op = "restar_retenida" /\ Tail(s) = <<>>)
        \/ i.recurso = Inexistente /\ Head(s).op = "fallar" /\ Callado(Tail(s))
    BY <1>3, <1>4, AtiendeCasos
  <1>6. QED  BY <1>1, <1>2, <1>3, <1>4, <1>5 DEF Despachador, Recurso, OpsSuma

\* restar_instancia_a_recurso leaves the request being attended to, ...
LEMMA CursoRestar ==
    ASSUME InvTipos, Curso, UNCHANGED carga, Restar
    PROVE  FaseAtendido /\ FaseAtendido' /\ hilo'["eliminacion"] = hilo["eliminacion"]
  <1>1. Toca("dispatch", "restar") /\ Hecho("dispatch") /\ UNCHANGED <<cpu, pc, a_cpu, a_kernel>>
    BY DEF Restar, cpuVars
  <1>2. /\ FaseAtendido /\ Pedida.op = "WAIT" /\ Pedida.recurso \in Recursos
        /\ AtiendeWait(Tail(hilo["dispatch"].pasos), Pedida.recurso)
    BY <1>1, CursoAtendido DEF OpsAtender
  <1>3. /\ hilo'["dispatch"].pasos = Tail(hilo["dispatch"].pasos) /\ hilo'["dispatch"].pid = hilo["dispatch"].pid
        /\ hilo'["eliminacion"] = hilo["eliminacion"]
    BY <1>1, HechoTipo DEF Hilos, InvTipos, Toca
  <1>4. Esperando' = Esperando /\ Pedida' = Pedida  BY <1>1, EsperandoIgual
  <1>5. FaseAtendido'  BY <1>1, <1>2, <1>3, <1>4 DEF FaseAtendido, Despachador, Atiende
  <1>6. QED  BY <1>2, <1>3, <1>5

\* ... as sumar_instancia_a_recurso does, ...
LEMMA CursoSuma ==
    ASSUME InvTipos, Curso, UNCHANGED carga, SumarInstancia("dispatch")
    PROVE  FaseAtendido /\ FaseAtendido' /\ hilo'["eliminacion"] = hilo["eliminacion"]
  <1>1. UNCHANGED <<cpu, pc, a_cpu, a_kernel>> /\ \E op \in OpsSuma : Toca("dispatch", op)
    BY DEF SumarInstancia, Sumar, Mirar, Sacar, Buscar, Desbloquear, cpuVars, OpsSuma
  <1>2. PICK r \in Recursos : /\ FaseAtendido /\ Pedida.op = "SIGNAL" /\ Pedida.recurso = r
                              /\ AtiendeSignal(hilo["dispatch"].pasos, r)
    BY <1>1, CursoAtendido DEF OpsAtender
  <1>3. PICK v \in Seq(UnPaso) : v = Retenida(r) /\ v # <<>> /\ Head(v).op \notin OpsSuma  BY RetenidaTipo
  <1>4. Sumando(hilo["dispatch"].pasos, v, r)  BY <1>2, <1>3 DEF AtiendeSignal
  <1>5. /\ \A g \in Hilos : g # "dispatch" => hilo'[g] = hilo[g]
        /\ hilo'["dispatch"].pid = hilo["dispatch"].pid /\ Sumando(hilo'["dispatch"].pasos, v, r)
    <2>1. hilo \in [Hilos -> THilo] /\ "dispatch" \in Hilos /\ TienePids(hilo["dispatch"])
          /\ cola_recurso \in [Recursos -> Seq(Pids)] /\ blocked \in Seq(Pids)
      BY DEF InvTipos, DispatchOK, DatosOK, Hilos
    <2>2. QED  BY <1>3, <1>4, <2>1, SumaHilo
  <1>6. Esperando' = Esperando /\ Pedida' = Pedida  BY <1>1, EsperandoIgual
  <1>7. FaseAtendido'  BY <1>1, <1>2, <1>3, <1>5, <1>6 DEF FaseAtendido, Despachador, Atiende, AtiendeSignal
  <1>8. hilo'["eliminacion"] = hilo["eliminacion"]  BY <1>5 DEF Hilos
  <1>9. QED  BY <1>2, <1>7, <1>8

\* An answer ends it.
LEMMA CursoContesta ==
    ASSUME FaseAtendido, UNCHANGED <<carga, cpu, pc, a_kernel>>, Callado(Despachador'.pasos),
           NEW t \in {"RESOURCE_OK", "RESOURCE_FAIL", "RESOURCE_BLOCKED"}, Contestar(t)
    PROVE  FaseContestado'
  <1>1. Esperando' = Esperando  BY EsperandoIgual
  <1>2. Respuesta(t) \in TRespuesta /\ Respuesta(t).tipo # "PCB"  BY DEF Respuesta, TRespuesta
  <1>3. UnaRespuesta(Append(a_cpu, Respuesta(t)))  BY <1>2, RespuestaNueva DEF FaseAtendido
  <1>4. QED  BY <1>1, <1>3 DEF FaseAtendido, FaseContestado, Contestar

\* ... WAIT is answered when the count has been read ...
LEMMA CursoLeer ==
    ASSUME InvTipos, Curso, UNCHANGED carga, Leer
    PROVE  FaseAtendido /\ FaseContestado' /\ hilo'["eliminacion"] = hilo["eliminacion"]
           /\ hilo'["dispatch"].pid = hilo["dispatch"].pid
  <1>1. Toca("dispatch", "leer") /\ UNCHANGED <<cpu, pc, a_kernel>>
    BY DEF Leer, cpuVars
  <1>2. PICK r \in Recursos : /\ FaseAtendido /\ Pedida.recurso = r /\ r = Recurso("dispatch")
                              /\ Tail(hilo["dispatch"].pasos) = <<>>
    BY <1>1, CursoAtendido DEF OpsAtender
  <1>3. PICK q : /\ Seguir("dispatch", q) /\ \E t \in {"RESOURCE_OK", "RESOURCE_BLOCKED"} : Contestar(t)
                 /\ q \in {<<>>, <<Paso("encolar", r), Paso("bloquear", r), Paso("liberar_cpu", r)>>}
    BY <1>2 DEF Leer, Hecho, AvisarBloqueo
  <1>4. q \in Seq(UnPaso) /\ Callado(q) /\ q \o <<>> = q
    <2>1. PICK a \in Callados, b \in Callados, c \in Callados :
             a = Paso("encolar", r) /\ b = Paso("bloquear", r) /\ c = Paso("liberar_cpu", r)
      BY PasoTipo DEF Pasos, Callados, OpsCalladas
    <2>2. <<>> \in Seq(Callados) /\ <<a, b, c>> \in Seq(Callados)  OBVIOUS
    <2>3. q \in Seq(Callados)  BY <1>3, <2>1, <2>2
    <2>4. \A u \in Seq(Callados) : u \o <<>> = u  OBVIOUS
    <2>5. QED  BY <2>3, <2>4, CalladoCasos DEF Callado
  <1>5. /\ hilo'["dispatch"].pasos = q /\ hilo'["dispatch"].pid = hilo["dispatch"].pid
        /\ hilo'["eliminacion"] = hilo["eliminacion"]
    <2>1. q \o Tail(hilo["dispatch"].pasos) \in Seq(UnPaso) /\ "dispatch" \in Hilos
      BY <1>2, <1>4 DEF Hilos
    <2>2. hilo \in [Hilos -> THilo]  BY DEF InvTipos
    <2>3. QED  BY <1>2, <1>3, <1>4, <2>1, <2>2, SeguirTipo DEF Hilos
  <1>6. FaseContestado'  BY <1>1, <1>2, <1>3, <1>4, <1>5, CursoContesta DEF Despachador
  <1>7. QED  BY <1>2, <1>5, <1>6

\* ... and SIGNAL, or a request that fails, in the last step.
LEMMA CursoContestada ==
    ASSUME InvTipos, Curso, UNCHANGED carga, RestarRetenida \/ Fallar
    PROVE  FaseAtendido /\ FaseContestado' /\ hilo'["eliminacion"] = hilo["eliminacion"]
           /\ hilo'["dispatch"].pid = hilo["dispatch"].pid
           /\ hilo'["dispatch"].pasos = Tail(hilo["dispatch"].pasos)
  <1>1. PICK op \in {"restar_retenida", "fallar"} :
           Toca("dispatch", op) /\ Hecho("dispatch") /\ UNCHANGED <<cpu, pc, a_kernel>>
    BY DEF RestarRetenida, Fallar, cpuVars
  <1>2. FaseAtendido /\ Callado(Tail(hilo["dispatch"].pasos))
    <2>1. <<>> \in Seq(Callados)  OBVIOUS
    <2>2. QED  BY <1>1, <2>1, CursoAtendido DEF OpsAtender, Callado
  <1>3. /\ hilo'["dispatch"].pasos = Tail(hilo["dispatch"].pasos) /\ hilo'["dispatch"].pid = hilo["dispatch"].pid
        /\ hilo'["eliminacion"] = hilo["eliminacion"]
    BY <1>1, HechoTipo DEF Hilos, InvTipos, Toca
  <1>4. FaseContestado'  BY <1>1, <1>2, <1>3, CursoContesta DEF Despachador, RestarRetenida, Fallar
  <1>5. QED  BY <1>2, <1>3, <1>4

\* The next instruction of a program is one, or comes right after the last.
EnPrograma == \A p \in Pids : pc[p] \in 1 .. Len(Programa[p]) + 1

\* A program is a list of instructions.
LEMMA ProgramaTipo ==
    ASSUME InvTipos, NEW p \in Pids PROVE Programa[p] \in Seq(Instrucciones)
  <1>1. carga \in Cargas  BY DEF InvTipos, DatosOK
  <1>2. QED  BY <1>1, ConstantesOK DEF Programa

\* pc only changes when an instruction is executed.
LEMMA PcPaso == ASSUME [Next]_vars PROVE UNCHANGED <<carga, pc>> \/ (CpuEjecuta /\ UNCHANGED carga)
  <1>1. CASE UNCHANGED vars  BY <1>1 DEF vars, sistema, cpuVars
  <1>2. CASE Next
    <2>1. CASE Despachar \/ TerminarIO  BY <1>2, <2>1 DEF Next, Despachar, TerminarIO, cpuVars
    <2>2. CASE Dispatch
      BY <1>2, <2>2 DEF Next, Dispatch, Recibir, EncolarIO, Restar, Leer, Encolar, Bloquear, LiberarCpu,
         RestarRetenida, Fallar, Finalizar, Desalojar, SumarInstancia, Sumar, Mirar, Sacar, Buscar, Desbloquear,
         cpuVars
    <2>3. CASE Eliminacion
      BY <1>2, <2>3 DEF Next, Eliminacion, EliminarProceso, Quitar, Devolver, Destruir,
         SumarInstancia, Sumar, Mirar, Sacar, Buscar, Desbloquear, cpuVars
    <2>4. CASE Cpu
      BY <1>2, <2>4 DEF Next, Cpu, CpuRecibe, CpuRespuesta, CpuChequea, CpuTermina
    <2>5. QED  BY <1>2, <2>1, <2>2, <2>3, <2>4 DEF Next
  <1>3. QED  BY <1>1, <1>2

\* No process runs past the end of its program.
LEMMA EnProgramaNext == ASSUME InvTipos, EnPrograma, [Next]_vars PROVE EnPrograma'
  <1>1. CASE UNCHANGED <<carga, pc>>  BY <1>1 DEF EnPrograma, Programa
  <1>2. CASE CpuEjecuta /\ UNCHANGED carga
    <2>1. /\ cpu.pid \in Pids /\ pc[cpu.pid] \in 1 .. Len(Programa[cpu.pid])
          /\ pc' = [pc EXCEPT ![cpu.pid] = pc[cpu.pid] + 1] /\ pc \in [Pids -> Nat \ {0}]
      BY <1>2, InstruccionTipo DEF CpuEjecuta, InvTipos, ViajesOK
    <2>2. SUFFICES ASSUME NEW p \in Pids PROVE pc'[p] \in 1 .. Len(Programa[p]) + 1
      BY <1>2 DEF EnPrograma, Programa
    <2>3. PICK n \in Nat : n = Len(Programa[p])  BY ProgramaTipo
    <2>4. pc[p] \in 1 .. n + 1  BY <2>3 DEF EnPrograma
    <2>5. CASE p = cpu.pid
      <3>1. pc[p] \in 1 .. n /\ pc'[p] = pc[p] + 1  BY <2>1, <2>3, <2>5
      <3>2. QED  BY <2>3, <3>1
    <2>6. CASE p # cpu.pid  BY <2>1, <2>3, <2>4, <2>6
    <2>7. QED  BY <2>5, <2>6
  <1>3. QED  BY <1>1, <1>2, PcPaso

\* An instruction is executed: WAIT and SIGNAL ask for something, and the others do not.
LEMMA EjecutaPide ==
    ASSUME InvTipos, Curso, UNCHANGED carga, CpuEjecuta
    PROVE  /\ FaseLibre /\ cpu.pid \in Pids /\ cpu'.pid = cpu.pid /\ pc[cpu.pid] \in 1 .. Len(Programa[cpu.pid])
           /\ Proxima \in Instrucciones /\ pc' = [pc EXCEPT ![cpu.pid] = pc[cpu.pid] + 1]
           /\ Proxima.op \in {"WAIT", "SIGNAL"} => FasePedido'
           /\ Proxima.op \notin {"WAIT", "SIGNAL"} => FaseLibre'
  <1>1. /\ cpu.pid \in Pids /\ pc[cpu.pid] \in 1 .. Len(Programa[cpu.pid]) /\ Proxima \in Instrucciones
        /\ cpu \in TCpu /\ pc \in [Pids -> Nat \ {0}]
    BY InstruccionTipo DEF CpuEjecuta, InvTipos, ViajesOK
  <1>2. FaseLibre
    BY DEF CpuEjecuta, Curso, FasePedido, FaseAtendido, FaseContestado, Esperando
  <1>3. cpu'.pid = cpu.pid /\ UNCHANGED <<hilo, a_cpu>> /\ pc' = [pc EXCEPT ![cpu.pid] = pc[cpu.pid] + 1]
    BY <1>1 DEF CpuEjecuta, TCpu
  <1>4. PICK p \in Pids, n \in Nat : p = cpu.pid /\ n = pc[p] /\ n \in 1 .. Len(Programa[p])  BY <1>1
  <1>5. PICK i \in Instrucciones : i = Proxima /\ i = Programa[p][n]  BY <1>1, <1>4 DEF Proxima
  <1>6. pc'[p] = n + 1 /\ (n + 1) - 1 = n /\ Programa' = Programa
    BY <1>1, <1>3, <1>4 DEF Programa
  <1>7. Pedida' = i  BY <1>3, <1>4, <1>5, <1>6 DEF Pedida
  <1>8. a_kernel \in Seq(TSuelto)  BY <1>2 DEF FaseLibre
  <1>9. CASE i.op \in {"WAIT", "SIGNAL"}
    <2>1. cpu'.en = "espera"  BY <1>1, <1>5, <1>9 DEF CpuEjecuta, TCpu
    <2>2. Esperando'  BY <1>3, <1>4, <1>6, <1>7, <1>9, <2>1 DEF Esperando
    <2>3. PICK m : m = Mensaje(p, i)  OBVIOUS
    <2>4. a_kernel' = a_kernel \o <<m>>
      BY <1>4, <1>5, <1>9, <2>3 DEF CpuEjecuta, Enviar, Mensaje
    <2>5. a_kernel \o <<m>> = Append(a_kernel, m)  BY <1>8
    <2>6. a_kernel' = Append(a_kernel, Mensaje(cpu'.pid, Pedida'))  BY <1>3, <1>4, <1>7, <2>3, <2>4, <2>5
    <2>7. FasePedido'
      <3>1. SoloPcbs(a_cpu') /\ Callado(hilo'["dispatch"].pasos)  BY <1>2, <1>3 DEF FaseLibre, Despachador
      <3>2. QED  BY <1>8, <2>2, <2>6, <3>1 DEF FasePedido, Despachador
    <2>8. QED  BY <1>1, <1>2, <1>3, <1>5, <1>9, <2>7
  <1>10. CASE i.op \notin {"WAIT", "SIGNAL"}
    <2>1. cpu'.en # "espera"  BY <1>1, <1>5, <1>10 DEF CpuEjecuta, TCpu
    <2>2. a_kernel' \in Seq(TSuelto)
      <3>1. PICK e \in TSuelto : e = [motivo |-> "OPERACION_IO", pid |-> p, recurso |-> Nadie]
        BY DEF TSuelto
      <3>2. a_kernel \o <<e>> \in Seq(TSuelto) /\ a_kernel \o <<>> \in Seq(TSuelto)  BY <1>8
      <3>3. a_kernel' = a_kernel \o <<e>> \/ a_kernel' = a_kernel \o <<>>
        BY <1>4, <1>5, <1>10, <3>1 DEF CpuEjecuta, Enviar
      <3>4. QED  BY <3>2, <3>3
    <2>3. FaseLibre'
      <3>1. SoloPcbs(a_cpu') /\ Callado(hilo'["dispatch"].pasos)  BY <1>2, <1>3 DEF FaseLibre, Despachador
      <3>2. QED  BY <2>1, <2>2, <3>1 DEF FaseLibre, Despachador
    <2>4. QED  BY <1>1, <1>2, <1>3, <1>5, <1>10, <2>3
  <1>11. QED  BY <1>9, <1>10

\* The CPU takes the answer and goes on.
LEMMA RespuestaLibera ==
    ASSUME InvTipos, Curso, UNCHANGED carga, CpuRespuesta, vivo' PROVE FaseContestado /\ FaseLibre'
  <1>1. cpu.en = "espera" /\ a_cpu # <<>> /\ Head(a_cpu).tipo # "PCB" /\ a_cpu' = Tail(a_cpu)
        /\ UNCHANGED <<hilo, a_kernel>>
    BY DEF CpuRespuesta
  <1>2. cpu'.en # "espera"  BY DEF CpuRespuesta, InvTipos, ViajesOK, TCpu
  <1>3. ~SoloPcbs(a_cpu)
    <2>1. SUFFICES ASSUME SoloPcbs(a_cpu) PROVE FALSE  OBVIOUS
    <2>2. a_cpu \in Seq(TPcb)  BY <2>1 DEF SoloPcbs
    <2>3. Head(a_cpu) \in TPcb  BY <1>1, <2>2
    <2>4. QED  BY <1>1, <2>3 DEF TPcb
  <1>4. FaseContestado  BY <1>3 DEF Curso, FaseLibre, FasePedido, FaseAtendido
  <1>5. SoloPcbs(a_cpu')  BY <1>1, <1>4, RespuestaPrimera DEF FaseContestado
  <1>6. FaseLibre'  BY <1>1, <1>2, <1>4, <1>5 DEF FaseContestado, FaseLibre, Despachador
  <1>7. QED  BY <1>4, <1>6

\* The other steps of the CPU ask for nothing.
LEMMA CpuLibre ==
    ASSUME InvTipos, Curso, UNCHANGED carga, CpuRecibe \/ CpuChequea \/ CpuTermina
    PROVE  FaseLibre /\ FaseLibre'
  <1>1. FaseLibre
    BY DEF CpuRecibe, CpuChequea, CpuTermina, Curso, FasePedido, FaseAtendido, FaseContestado, Esperando
  <1>2. a_kernel \in Seq(TSuelto) /\ a_cpu \in Seq(TPcb) /\ Callado(hilo["dispatch"].pasos) /\ cpu \in TCpu
    BY <1>1 DEF FaseLibre, SoloPcbs, Despachador, InvTipos, ViajesOK
  <1>3. UNCHANGED hilo /\ cpu'.en # "espera" /\ a_cpu' \in Seq(TPcb)
    <2>1. CASE CpuRecibe
      <3>1. Tail(a_cpu) \in Seq(TPcb)  BY <1>2, <2>1 DEF CpuRecibe
      <3>2. QED  BY <2>1, <3>1 DEF CpuRecibe
    <2>2. CASE CpuChequea  BY <1>2, <2>2 DEF CpuChequea, TCpu
    <2>3. CASE CpuTermina  BY <1>2, <2>3 DEF CpuTermina
    <2>4. QED  BY <2>1, <2>2, <2>3
  <1>4. a_kernel' \in Seq(TSuelto)
    <2>1. CASE CpuRecibe \/ CpuChequea  BY <1>2, <2>1 DEF CpuRecibe, CpuChequea
    <2>2. CASE CpuTermina
      <3>1. cpu.pid \in Pids  BY <1>2, <2>2 DEF CpuTermina, TCpu
      <3>2. \A m \in {"END_PROCESS", "FIN_CLOCK", "RESOURCE_BLOCKED"} : Enviar(m, Nadie) \in Seq(TSuelto)
        <4>1. SUFFICES ASSUME NEW m \in {"END_PROCESS", "FIN_CLOCK", "RESOURCE_BLOCKED"}
                       PROVE  Enviar(m, Nadie) \in Seq(TSuelto)
          OBVIOUS
        <4>2. PICK e \in TSuelto : e = [motivo |-> m, pid |-> cpu.pid, recurso |-> Nadie]  BY <3>1 DEF TSuelto
        <4>3. <<e>> \in Seq(TSuelto)  OBVIOUS
        <4>4. QED  BY <4>2, <4>3 DEF Enviar
      <3>3. \A s \in Seq(TSuelto), t \in Seq(TSuelto) : s \o t \in Seq(TSuelto)  OBVIOUS
      <3>4. <<>> \in Seq(TSuelto)  OBVIOUS
      <3>5. CASE "end_process" \in flags  BY <1>2, <2>2, <3>2, <3>3, <3>5 DEF CpuTermina
      <3>6. CASE "end_process" \notin flags
        <4>1. PICK e \in Seq(TSuelto), g \in Seq(TSuelto) : a_kernel' = a_kernel \o e \o g
          BY <2>2, <3>2, <3>4, <3>6 DEF CpuTermina
        <4>2. QED  BY <1>2, <3>3, <4>1
      <3>7. QED  BY <3>5, <3>6
    <2>3. QED  BY <2>1, <2>2
  <1>5. FaseLibre'  BY <1>2, <1>3, <1>4 DEF FaseLibre, SoloPcbs, Despachador
  <1>6. QED  BY <1>1, <1>5

\* The release of the resources of a process takes no part in it ...
LEMMA ElimMarco ==
    ASSUME InvTipos, Eliminacion
    PROVE  UNCHANGED <<cpu, pc, flags, a_kernel, a_cpu>> /\ UNCHANGED Despachador
  <1>1. UNCHANGED <<cpu, pc, flags, a_kernel, a_cpu>>
    BY DEF Eliminacion, EliminarProceso, Quitar, Devolver, Destruir, SumarInstancia, Sumar, Mirar, Sacar, Buscar,
       Desbloquear, cpuVars
  <1>2. hilo \in [Hilos -> THilo] /\ "eliminacion" \in Hilos /\ "dispatch" \in Hilos
    BY DEF InvTipos, Hilos
  <1>3. CASE EliminarProceso  BY <1>1, <1>2, <1>3 DEF EliminarProceso, Despachador
  <1>4. CASE Quitar  BY <1>1, <1>2, <1>4 DEF Quitar, Seguir, Despachador
  <1>5. CASE Devolver  BY <1>1, <1>2, <1>5 DEF Devolver, Seguir, Despachador
  <1>6. CASE Destruir  BY <1>1, <1>2, <1>6 DEF Destruir, Hecho, Seguir, Despachador
  <1>7. CASE SumarInstancia("eliminacion")
    BY <1>1, <1>2, <1>7 DEF SumarInstancia, Sumar, Mirar, Sacar, Buscar, Desbloquear, Hecho, Seguir, Despachador
  <1>8. QED  BY <1>3, <1>4, <1>5, <1>6, <1>7 DEF Eliminacion

\* ... and recibir_dispatch takes none in the release.
LEMMA DispatchMarco ==
    ASSUME InvTipos, Dispatch
    PROVE  UNCHANGED <<cpu, pc, flags, eliminados>> /\ UNCHANGED Eliminador
  <1>1. UNCHANGED <<cpu, pc, flags, eliminados>>
    BY DEF Dispatch, Recibir, EncolarIO, Restar, Leer, Encolar, Bloquear, LiberarCpu, RestarRetenida, Fallar, Finalizar,
       Desalojar, SumarInstancia, Sumar, Mirar, Sacar, Buscar, Desbloquear, cpuVars
  <1>2. hilo \in [Hilos -> THilo] /\ "eliminacion" \in Hilos /\ "dispatch" \in Hilos
    BY DEF InvTipos, Hilos
  <1>3. CASE Recibir  BY <1>1, <1>2, <1>3 DEF Recibir, Eliminador
  <1>4. CASE Leer  BY <1>1, <1>2, <1>4 DEF Leer, Hecho, Seguir, Eliminador
  <1>5. CASE EncolarIO \/ Restar \/ Encolar \/ Bloquear \/ LiberarCpu
    BY <1>1, <1>2, <1>5 DEF EncolarIO, Restar, Encolar, Bloquear, LiberarCpu, Hecho, Seguir, Eliminador
  <1>6. CASE RestarRetenida \/ Fallar \/ Finalizar \/ Desalojar
    BY <1>1, <1>2, <1>6 DEF RestarRetenida, Fallar, Finalizar, Desalojar, Hecho, Seguir, Eliminador
  <1>7. CASE SumarInstancia("dispatch")
    BY <1>1, <1>2, <1>7 DEF SumarInstancia, Sumar, Mirar, Sacar, Buscar, Desbloquear, Hecho, Seguir, Eliminador
  <1>8. QED  BY <1>3, <1>4, <1>5, <1>6, <1>7 DEF Dispatch

\* There is one conversation: while the CPU waits, what it asked for is in the socket, or
\* recibir_dispatch attends to it, or the answer is on its way.
LEMMA CursoNext == ASSUME InvTipos, EnPrograma, Curso, Next, vivo' PROVE Curso'
  <1>1. UNCHANGED carga  BY DEF Next
  <1>2. CASE Despachar \/ TerminarIO
    <2>1. UNCHANGED <<cpu, pc, a_kernel, hilo>>  BY <1>2 DEF Despachar, TerminarIO, cpuVars
    <2>2. a_cpu' = a_cpu \/ \E e \in TPcb : a_cpu' = Append(a_cpu, e)
      <3>1. CASE Despachar
        <4>1. ready \in Seq(Pids) /\ ready # <<>> /\ a_cpu' = Append(a_cpu, Pcb(Head(ready)))
          BY <3>1 DEF Despachar, InvTipos, DatosOK
        <4>2. Head(ready) \in Pids  BY <4>1
        <4>3. Pcb(Head(ready)) \in TPcb  BY <4>2 DEF Pcb, TPcb
        <4>4. QED  BY <4>1, <4>3
      <3>2. CASE TerminarIO  BY <3>2 DEF TerminarIO
      <3>3. QED  BY <1>2, <3>1, <3>2
    <2>3. QED  BY <1>1, <2>1, <2>2, CursoMarco DEF Despachador
  <1>3. CASE Dispatch
    <2>1. CASE Recibir  BY <1>1, <2>1, CursoRecibir
    <2>2. CASE EncolarIO  BY <1>1, <2>2, CursoCalla DEF EncolarIO, OpsCalladas, cpuVars
    <2>3. CASE Encolar  BY <1>1, <2>3, CursoCalla DEF Encolar, OpsCalladas, cpuVars
    <2>4. CASE Bloquear  BY <1>1, <2>4, CursoCalla DEF Bloquear, OpsCalladas, cpuVars
    <2>5. CASE LiberarCpu  BY <1>1, <2>5, CursoCalla DEF LiberarCpu, OpsCalladas, cpuVars
    <2>6. CASE Finalizar  BY <1>1, <2>6, CursoCalla DEF Finalizar, OpsCalladas, cpuVars
    <2>7. CASE Desalojar  BY <1>1, <2>7, CursoCalla DEF Desalojar, OpsCalladas, cpuVars
    <2>8. CASE Restar  BY <1>1, <2>8, CursoRestar DEF Curso
    <2>9. CASE Leer  BY <1>1, <2>9, CursoLeer DEF Curso
    <2>10. CASE RestarRetenida \/ Fallar  BY <1>1, <2>10, CursoContestada DEF Curso
    <2>11. CASE SumarInstancia("dispatch")  BY <1>1, <2>11, CursoSuma DEF Curso
    <2>12. QED  BY <1>3, <2>1, <2>2, <2>3, <2>4, <2>5, <2>6, <2>7, <2>8, <2>9, <2>10, <2>11 DEF Dispatch
  <1>4. CASE Eliminacion  BY <1>1, <1>4, ElimMarco, CursoMarco
  <1>5. CASE Cpu
    <2>1. CASE CpuEjecuta  BY <1>1, <2>1, EjecutaPide DEF Curso
    <2>2. CASE CpuRespuesta  BY <1>1, <2>2, RespuestaLibera DEF Curso
    <2>3. CASE CpuRecibe \/ CpuChequea \/ CpuTermina  BY <1>1, <2>3, CpuLibre DEF Curso
    <2>4. QED  BY <1>5, <2>1, <2>2, <2>3 DEF Cpu
  <1>6. QED  BY <1>2, <1>3, <1>4, <1>5 DEF Next

-----------------------------------------------------------------------------
(* The processes that end *)

\* Those that have executed an instruction after which the kernel ends them.
Terminados == {p \in Pids : \E k \in 1 .. pc[p] - 1 : Final(Programa[p][k])}

\* Only a process that has ended is looked for, destroyed or sent to be: here T stands for
\* Terminados.
PedidosDe(T) == {m \in TPedido : m.motivo = "END_PROCESS" => m.pid \in T}
PasosSinFin == {e \in UnPaso : e.op # "finalizar"}
SinFallas == {m \in TRespuesta : m.tipo # "RESOURCE_FAIL"}
FinElim(T) == /\ eliminados \subseteq T /\ exit \in Seq(T)
              /\ Eliminador.pasos # <<>> => Eliminador.pid \in T
FinKernel(T) == /\ a_kernel \in Seq(PedidosDe(T))
                /\ Despachador.pasos \in Seq(PasosSinFin) \/ Despachador.pid \in T
FinCpu(T) == /\ a_cpu \in Seq(SinFallas) \/ cpu.pid \in T
             /\ "end_process" \in flags => cpu.en \in {"chequear", "ciclo"} /\ cpu.pid \in T
Finados == FinElim(Terminados) /\ FinKernel(Terminados) /\ FinCpu(Terminados)

\* A process that has ended has ended.
LEMMA TerminadosCrece == ASSUME InvTipos, [Next]_vars PROVE Terminados \subseteq Terminados'
  <1>1. UNCHANGED carga /\ \A p \in Pids : pc[p] \in Nat /\ pc'[p] \in Nat /\ pc'[p] >= pc[p]
    <2>1. CASE UNCHANGED <<carga, pc>>  BY <2>1 DEF InvTipos, ViajesOK
    <2>2. CASE CpuEjecuta /\ UNCHANGED carga
      <3>1. pc' = [pc EXCEPT ![cpu.pid] = pc[cpu.pid] + 1] /\ pc \in [Pids -> Nat \ {0}]
        BY <2>2 DEF CpuEjecuta, InvTipos, ViajesOK
      <3>2. QED  BY <2>2, <3>1
    <2>3. QED  BY <2>1, <2>2, PcPaso
  <1>2. SUFFICES ASSUME NEW p \in Terminados PROVE p \in Terminados'  OBVIOUS
  <1>3. PICK k \in 1 .. pc[p] - 1 : Final(Programa[p][k]) /\ p \in Pids  BY <1>2 DEF Terminados
  <1>4. k \in 1 .. pc'[p] - 1  BY <1>1, <1>3
  <1>5. QED  BY <1>1, <1>3, <1>4 DEF Terminados, Programa

\* What is true of some processes is true of more.
LEMMA FinMas ==
    ASSUME NEW T, NEW U, T \subseteq U
    PROVE  /\ PedidosDe(T) \subseteq PedidosDe(U) /\ \A s \in Seq(T) : s \in Seq(U)
           /\ \A s \in Seq(PedidosDe(T)) : s \in Seq(PedidosDe(U))
           /\ FinElim(T) => FinElim(U)
           /\ FinKernel(T) => FinKernel(U)
           /\ FinCpu(T) => FinCpu(U)
  <1>1. PedidosDe(T) \subseteq PedidosDe(U)  BY DEF PedidosDe
  <1>2. \A s \in Seq(T) : s \in Seq(U)  BY SeqMayor
  <1>3. \A s \in Seq(PedidosDe(T)) : s \in Seq(PedidosDe(U))  BY <1>1, SeqMayor
  <1>4. FinElim(T) => FinElim(U)  BY <1>2 DEF FinElim
  <1>5. FinKernel(T) => FinKernel(U)  BY <1>3 DEF FinKernel
  <1>6. FinCpu(T) => FinCpu(U)  BY DEF FinCpu
  <1>7. QED  BY <1>1, <1>2, <1>3, <1>4, <1>5, <1>6

\* Where a process that is in EXIT comes from.
LEMMA PasosSueltos ==
    ASSUME NEW m \in TSuelto PROVE PasosDe(m) \in Seq(PasosSinFin) \/ m.motivo = "END_PROCESS"
  <1>1. PICK b \in PasosSinFin, d \in PasosSinFin, e \in PasosSinFin, g \in PasosSinFin :
           /\ b = Paso("liberar_cpu", Nadie) /\ d = Paso("desalojar", Nadie)
           /\ e = Paso("bloquear", Nadie) /\ g = Paso("encolar_io", Nadie)
    BY PasoTipo DEF Pasos, PasosSinFin
  <1>2. <<>> \in Seq(PasosSinFin) /\ <<d, b>> \in Seq(PasosSinFin) /\ <<e, g, b>> \in Seq(PasosSinFin)
    OBVIOUS
  <1>3. m.recurso = Nadie /\ Nadie \notin Recursos  BY ConstantesOK DEF TSuelto
  <1>4. m.motivo # "END_PROCESS" => PasosDe(m) \in {<<d, b>>, <<e, g, b>>, <<>>}
    BY <1>1, <1>3 DEF PasosDe, TSuelto
  <1>5. QED  BY <1>2, <1>4

\* A process that asks for a resource that there is not ends.
LEMMA PedidaFinal ==
    ASSUME InvTipos, Esperando, Pedida.recurso = Inexistente PROVE cpu.pid \in Terminados
  <1>1. PICK p \in Pids : p = cpu.pid /\ pc[p] - 1 \in 1 .. Len(Programa[p])  BY DEF Esperando
  <1>2. Final(Programa[p][pc[p] - 1])  BY <1>1 DEF Esperando, Pedida, Final
  <1>3. pc[p] \in Nat  BY DEF InvTipos, ViajesOK
  <1>4. pc[p] - 1 \in 1 .. pc[p] - 1  BY <1>1, <1>3
  <1>5. QED  BY <1>1, <1>2, <1>4 DEF Terminados

\* SIGNAL ends no process ...
LEMMA SumandoSinFin ==
    ASSUME NEW r \in Recursos, NEW s, AtiendeSignal(s, r) PROVE s \in Seq(PasosSinFin)
  <1>1. PICK a \in PasosSinFin, b \in PasosSinFin, c \in PasosSinFin, d \in PasosSinFin, e \in PasosSinFin,
             g \in PasosSinFin :
           /\ a = Paso("sumar", r) /\ b = Paso("mirar", r) /\ c = Paso("sacar", r) /\ d = Paso("buscar", r)
           /\ e = Paso("desbloquear", r) /\ g = Paso("restar_retenida", r)
    BY PasoTipo DEF Pasos, PasosSinFin
  <1>2. Retenida(r) = <<g>>  BY <1>1 DEF Retenida
  <1>3. PICK w : w \in {<<>>, <<a, b>>, <<b>>, <<c, d, e>>, <<d, e>>, <<e>>} /\ s = w \o <<g>>
    BY <1>1, <1>2 DEF AtiendeSignal, Sumando, Sumas, PasosSumar, PasosDespertar
  <1>4. w \in Seq(PasosSinFin)
    <2>1. /\ <<>> \in Seq(PasosSinFin) /\ <<a, b>> \in Seq(PasosSinFin) /\ <<b>> \in Seq(PasosSinFin)
          /\ <<c, d, e>> \in Seq(PasosSinFin) /\ <<d, e>> \in Seq(PasosSinFin) /\ <<e>> \in Seq(PasosSinFin)
      OBVIOUS
    <2>2. QED  BY <1>3, <2>1
  <1>5. QED  BY <1>3, <1>4

\* What is attended to ends nobody but the one that asked for what there is not.
LEMMA AtiendeSinFin ==
    ASSUME NEW s, NEW i, Atiende(s, i), i.recurso # Inexistente PROVE s \in Seq(PasosSinFin)
  <1>1. CASE i.recurso \in Recursos /\ AtiendeSignal(s, i.recurso)  BY <1>1, SumandoSinFin
  <1>2. CASE i.recurso \in Recursos /\ AtiendeWait(s, i.recurso)
    <2>1. PICK a \in PasosSinFin, b \in PasosSinFin :
             a = Paso("restar", i.recurso) /\ b = Paso("leer", i.recurso)
      BY <1>2, PasoTipo DEF Pasos, PasosSinFin
    <2>2. <<a, b>> \in Seq(PasosSinFin) /\ <<b>> \in Seq(PasosSinFin)  OBVIOUS
    <2>3. QED  BY <1>2, <2>1, <2>2 DEF AtiendeWait
  <1>3. QED  BY <1>1, <1>2 DEF Atiende

\* The release is of one process, from the first step to the last.
LEMMA ElimPid ==
    ASSUME InvTipos, Quitar \/ Devolver \/ Destruir \/ SumarInstancia("eliminacion")
    PROVE  hilo["eliminacion"].pasos # <<>> /\ hilo'["eliminacion"].pid = hilo["eliminacion"].pid
  <1>1. hilo["eliminacion"] \in THilo /\ hilo \in [Hilos -> THilo] /\ "eliminacion" \in Hilos
    BY DEF InvTipos, Hilos
  <1>2. hilo["eliminacion"].pasos # <<>>
    BY DEF Quitar, Devolver, Destruir, SumarInstancia, Sumar, Mirar, Sacar, Buscar, Desbloquear, Toca
  <1>3. \A q : Seguir("eliminacion", q) => hilo'["eliminacion"].pid = hilo["eliminacion"].pid
    BY <1>1 DEF Seguir, THilo
  <1>4. CASE Quitar \/ Devolver \/ Destruir  BY <1>2, <1>3, <1>4 DEF Quitar, Devolver, Destruir, Hecho
  <1>5. CASE Sumar("eliminacion") \/ Mirar("eliminacion")  BY <1>2, <1>3, <1>5 DEF Sumar, Mirar, Hecho
  <1>6. CASE Sacar("eliminacion")  BY <1>1, <1>2, <1>6 DEF Sacar, THilo
  <1>7. CASE Buscar("eliminacion")  BY <1>1, <1>2, <1>7 DEF Buscar, THilo
  <1>8. CASE Desbloquear("eliminacion")  BY <1>1, <1>2, <1>8 DEF Desbloquear, THilo
  <1>9. QED  BY <1>4, <1>5, <1>6, <1>7, <1>8 DEF SumarInstancia

\* Only processes that have come to their end are in EXIT, or are released.
LEMMA FinElimNext ==
    ASSUME InvTipos, Curso, Finados, Next, vivo' PROVE FinElim(Terminados)'
  <1>1. PICK T, U : T = Terminados /\ U = Terminados' /\ T \subseteq U  BY TerminadosCrece
  <1>2. eliminados \subseteq T /\ exit \in Seq(T) /\ (Eliminador.pasos # <<>> => Eliminador.pid \in T)
    BY <1>1 DEF Finados, FinElim
  <1>3. exit \in Seq(U)  BY <1>1, <1>2, SeqMayor
  <1>4. SUFFICES /\ eliminados' \subseteq U /\ exit' \in Seq(U)
                 /\ Eliminador'.pasos # <<>> => Eliminador'.pid \in U
    BY <1>1 DEF FinElim
  <1>5. CASE UNCHANGED <<eliminados, exit>> /\ UNCHANGED Eliminador  BY <1>1, <1>2, <1>3, <1>5
  <1>6. CASE Despachar \/ TerminarIO
    <2>1. UNCHANGED <<eliminados, exit, hilo>>  BY <1>6 DEF Despachar, TerminarIO
    <2>2. QED  BY <1>5, <2>1 DEF Eliminador
  <1>7. CASE Cpu
    <2>1. UNCHANGED <<eliminados, exit, hilo>>
      BY <1>7 DEF Cpu, CpuRecibe, CpuEjecuta, CpuRespuesta, CpuChequea, CpuTermina, colas
    <2>2. QED  BY <1>5, <2>1 DEF Eliminador
  <1>8. CASE Dispatch
    <2>1. UNCHANGED eliminados /\ UNCHANGED Eliminador  BY <1>8, DispatchMarco
    <2>2. CASE Finalizar
      <3>1. /\ hilo["dispatch"].pasos # <<>> /\ Head(hilo["dispatch"].pasos).op = "finalizar"
            /\ exit' = Append(exit, hilo["dispatch"].pid)
        BY <2>2 DEF Finalizar, Toca
      <3>2. hilo["dispatch"].pid \in T
        <4>1. hilo["dispatch"].pasos \in Seq(PasosSinFin) \/ hilo["dispatch"].pid \in T
          BY <1>1 DEF Finados, FinKernel, Despachador
        <4>2. \A s \in Seq(PasosSinFin) : s # <<>> => Head(s) \in PasosSinFin  OBVIOUS
        <4>3. QED  BY <3>1, <4>1, <4>2 DEF PasosSinFin
      <3>3. exit' \in Seq(U)  BY <1>1, <1>3, <3>1, <3>2
      <3>4. QED  BY <1>1, <1>2, <2>1, <3>3
    <2>3. CASE ~Finalizar
      <3>1. UNCHANGED exit
        BY <1>8, <2>3 DEF Dispatch, Recibir, EncolarIO, Restar, Leer, Encolar, Bloquear, LiberarCpu, RestarRetenida,
           Fallar, Desalojar, SumarInstancia, Sumar, Mirar, Sacar, Buscar, Desbloquear, colas
      <3>2. QED  BY <1>5, <2>1, <3>1
    <2>4. QED  BY <2>2, <2>3
  <1>9. CASE Eliminacion
    <2>1. CASE EliminarProceso
      <3>1. PICK p : p = Head(exit) /\ exit # <<>>  BY <2>1 DEF EliminarProceso
      <3>2. p \notin eliminados  BY <2>1, <3>1 DEF EliminarProceso
      <3>3. exit' = Tail(exit) /\ UNCHANGED eliminados /\ hilo'["eliminacion"].pid = p
        <4>1. hilo["eliminacion"] \in THilo /\ hilo \in [Hilos -> THilo] /\ "eliminacion" \in Hilos
          BY DEF InvTipos, Hilos
        <4>2. PICK q : hilo' = [hilo EXCEPT !["eliminacion"].pasos = q, !["eliminacion"].pid = p]
          BY <2>1, <3>1, <3>2 DEF EliminarProceso
        <4>3. hilo'["eliminacion"].pid = p  BY <4>1, <4>2 DEF THilo
        <4>4. QED  BY <2>1, <3>1, <3>2, <4>3 DEF EliminarProceso
      <3>4. Head(exit) \in U /\ Tail(exit) \in Seq(U)  BY <1>3, <3>1
      <3>5. QED  BY <1>1, <1>2, <3>1, <3>3, <3>4 DEF Eliminador
    <2>2. CASE Quitar \/ Devolver \/ Destruir \/ SumarInstancia("eliminacion")
      <3>1. /\ hilo["eliminacion"].pasos # <<>> /\ hilo'["eliminacion"].pid = hilo["eliminacion"].pid
        BY <2>2, ElimPid
      <3>2. hilo'["eliminacion"].pid \in U  BY <1>1, <1>2, <3>1 DEF Eliminador
      <3>3. UNCHANGED exit /\ (eliminados' = eliminados \/ eliminados' = eliminados \union {hilo["eliminacion"].pid})
        BY <2>2 DEF Quitar, Devolver, Destruir, SumarInstancia, Sumar, Mirar, Sacar, Buscar, Desbloquear, colas
      <3>4. QED  BY <1>1, <1>2, <1>3, <3>1, <3>2, <3>3 DEF Eliminador
    <2>3. QED  BY <1>9, <2>1, <2>2 DEF Eliminacion
  <1>10. QED  BY <1>6, <1>7, <1>8, <1>9 DEF Next

\* Only a process that has ended is sent to be ended.
LEMMA FinMensajesNext ==
    ASSUME InvTipos, Curso, Finados, Next, vivo' PROVE a_kernel' \in Seq(PedidosDe(Terminados'))
  <1>1. PICK T, U : T = Terminados /\ U = Terminados' /\ T \subseteq U  BY TerminadosCrece
  <1>2. a_kernel \in Seq(PedidosDe(T))  BY <1>1 DEF Finados, FinKernel
  <1>3. a_kernel \in Seq(PedidosDe(U))  BY <1>1, <1>2, FinMas
  <1>4. SUFFICES a_kernel' \in Seq(PedidosDe(U))  BY <1>1
  <1>5. PICK M : M = PedidosDe(U)  OBVIOUS
  <1>6. a_kernel \in Seq(M)  BY <1>3, <1>5
  <1>7. CASE UNCHANGED a_kernel  BY <1>3, <1>7
  <1>8. CASE Recibir
    <2>1. a_kernel # <<>> /\ a_kernel' = Tail(a_kernel)  BY <1>8 DEF Recibir
    <2>2. a_kernel' \in Seq(M)  BY <1>6, <2>1
    <2>3. QED  BY <1>5, <2>2
  <1>9. CASE Dispatch /\ ~Recibir
    BY <1>7, <1>9 DEF Dispatch, EncolarIO, Restar, Leer, Encolar, Bloquear, LiberarCpu, RestarRetenida,
       Fallar, Finalizar, Desalojar, SumarInstancia, Sumar, Mirar, Sacar, Buscar, Desbloquear
  <1>10. CASE Eliminacion  BY <1>7, <1>10, ElimMarco
  <1>11. CASE Despachar \/ TerminarIO  BY <1>7, <1>11 DEF Despachar, TerminarIO
  <1>12. CASE CpuRecibe \/ CpuRespuesta \/ CpuChequea  BY <1>7, <1>12 DEF CpuRecibe, CpuRespuesta, CpuChequea
  <1>13. CASE CpuEjecuta
    <2>1. cpu.pid \in Pids /\ Proxima \in Instrucciones  BY <1>13, EjecutaPide DEF Next
    <2>2. \A m \in {"WAIT_SOLICITADO", "SIGNAL_SOLICITADO", "OPERACION_IO"} :
             \A r \in Recursos \union {Nadie, Inexistente} : Enviar(m, r) \in Seq(M)
      <3>1. SUFFICES ASSUME NEW m \in {"WAIT_SOLICITADO", "SIGNAL_SOLICITADO", "OPERACION_IO"},
                            NEW r \in Recursos \union {Nadie, Inexistente}
                     PROVE  Enviar(m, r) \in Seq(M)
        OBVIOUS
      <3>2. PICK e \in M : e = [motivo |-> m, pid |-> cpu.pid, recurso |-> r]
        BY <1>5, <2>1 DEF PedidosDe, TPedido, Motivos
      <3>3. <<e>> \in Seq(M)  OBVIOUS
      <3>4. QED  BY <3>2, <3>3 DEF Enviar
    <2>3. Proxima.recurso \in Recursos \union {Nadie, Inexistente}  BY <2>1 DEF Instrucciones
    <2>4. <<>> \in Seq(M)  OBVIOUS
    <2>5. PICK s \in Seq(M) : a_kernel' = a_kernel \o s \/ a_kernel' = a_kernel
      <3>1. \E m \in {"WAIT_SOLICITADO", "SIGNAL_SOLICITADO", "OPERACION_IO"} :
               \E r \in Recursos \union {Nadie, Inexistente} :
                  a_kernel' = a_kernel \o Enviar(m, r) \/ a_kernel' = a_kernel \o <<>>
        BY <1>13, <2>3 DEF CpuEjecuta
      <3>2. QED  BY <2>2, <2>4, <3>1
    <2>6. a_kernel \o s \in Seq(M)  BY <1>6
    <2>7. QED  BY <1>5, <1>6, <2>5, <2>6
  <1>14. CASE CpuTermina
    <2>1. cpu.pid \in Pids  BY <1>14 DEF CpuTermina, InvTipos, ViajesOK, TCpu
    <2>2. \A m \in {"END_PROCESS", "FIN_CLOCK", "RESOURCE_BLOCKED"} :
             (m = "END_PROCESS" => "end_process" \in flags) => Enviar(m, Nadie) \in Seq(M)
      <3>1. SUFFICES ASSUME NEW m \in {"END_PROCESS", "FIN_CLOCK", "RESOURCE_BLOCKED"},
                            m = "END_PROCESS" => "end_process" \in flags
                     PROVE  Enviar(m, Nadie) \in Seq(M)
        OBVIOUS
      <3>2. m = "END_PROCESS" => cpu.pid \in U  BY <1>1, <3>1 DEF Finados, FinCpu
      <3>3. PICK e \in M : e = [motivo |-> m, pid |-> cpu.pid, recurso |-> Nadie]
        BY <1>5, <2>1, <3>2 DEF PedidosDe, TPedido, Motivos
      <3>4. <<e>> \in Seq(M)  OBVIOUS
      <3>5. QED  BY <3>3, <3>4 DEF Enviar
    <2>3. \A s \in Seq(M), t \in Seq(M) : s \o t \in Seq(M)  OBVIOUS
    <2>4. <<>> \in Seq(M)  OBVIOUS
    <2>5. CASE "end_process" \in flags
      <3>1. Enviar("END_PROCESS", Nadie) \in Seq(M)  BY <2>2, <2>5
      <3>2. QED  BY <1>5, <1>6, <1>14, <2>3, <2>5, <3>1 DEF CpuTermina
    <2>6. CASE "end_process" \notin flags
      <3>1. PICK s \in Seq(M), t \in Seq(M) : a_kernel' = a_kernel \o s \o t
        <4>1. Enviar("FIN_CLOCK", Nadie) \in Seq(M) /\ Enviar("RESOURCE_BLOCKED", Nadie) \in Seq(M)  BY <2>2
        <4>2. QED  BY <1>14, <2>4, <2>6, <4>1 DEF CpuTermina
      <3>2. QED  BY <1>5, <1>6, <2>3, <3>1
    <2>7. QED  BY <2>5, <2>6
  <1>15. QED  BY <1>8, <1>9, <1>10, <1>11, <1>12, <1>13, <1>14 DEF Next, Cpu

\* What recibir_dispatch has left to do about a message ends nobody but who has ended.
LEMMA PasosDeFin ==
    ASSUME InvTipos, Curso, Finados, Recibir, UNCHANGED carga
    PROVE  PasosDe(Head(a_kernel)) \in Seq(PasosSinFin) \/ Head(a_kernel).pid \in Terminados
  <1>1. PICK m : m = Head(a_kernel)  OBVIOUS
  <1>2. m \in PedidosDe(Terminados)
    <2>1. a_kernel \in Seq(PedidosDe(Terminados)) /\ a_kernel # <<>>  BY DEF Finados, FinKernel, Recibir
    <2>2. PICK M : M = PedidosDe(Terminados) /\ a_kernel \in Seq(M)  BY <2>1
    <2>3. Head(a_kernel) \in M  BY <2>1, <2>2
    <2>4. QED  BY <1>1, <2>2, <2>3
  <1>3. m \in TSuelto \/ (FasePedido /\ m = Mensaje(cpu.pid, Pedida))  BY <1>1, CursoRecibir
  <1>4. CASE m \in TSuelto  BY <1>1, <1>2, <1>4, PasosSueltos DEF PedidosDe
  <1>5. CASE FasePedido /\ m = Mensaje(cpu.pid, Pedida)
    <2>1. PICK p \in Pids, i \in Instrucciones : p = cpu.pid /\ i = Pedida /\ i.op \in {"WAIT", "SIGNAL"} /\ Esperando
      BY <1>5, PedidaTipo DEF FasePedido, Esperando
    <2>2. m = Mensaje(p, i) /\ m.pid = p  BY <1>5, <2>1 DEF Mensaje
    <2>3. CASE i.recurso = Inexistente  BY <1>1, <2>1, <2>2, <2>3, PedidaFinal
    <2>4. CASE i.recurso # Inexistente
      <3>1. Atiende(PasosDe(m), i)  BY <2>1, <2>2, PasosDeMensaje
      <3>2. QED  BY <1>1, <2>4, <3>1, AtiendeSinFin
    <2>5. QED  BY <2>3, <2>4
  <1>6. QED  BY <1>3, <1>4, <1>5

\* recibir_dispatch ends only processes that have come to their end.
LEMMA FinDespachadorNext ==
    ASSUME InvTipos, Curso, Finados, Next, vivo'
    PROVE  Despachador'.pasos \in Seq(PasosSinFin) \/ Despachador'.pid \in Terminados'
  <1>1. UNCHANGED carga  BY DEF Next
  <1>2. PICK T, U : T = Terminados /\ U = Terminados' /\ T \subseteq U  BY TerminadosCrece
  <1>3. hilo["dispatch"].pasos \in Seq(PasosSinFin) \/ hilo["dispatch"].pid \in T
    BY <1>2 DEF Finados, FinKernel, Despachador
  <1>4. SUFFICES hilo'["dispatch"].pasos \in Seq(PasosSinFin) \/ hilo'["dispatch"].pid \in U
    BY <1>2 DEF Despachador
  <1>5. CASE hilo'["dispatch"] = hilo["dispatch"]  BY <1>2, <1>3, <1>5
  <1>6. CASE Despachar \/ TerminarIO  BY <1>5, <1>6 DEF Despachar, TerminarIO
  <1>7. CASE Cpu  BY <1>5, <1>7 DEF Cpu, CpuRecibe, CpuEjecuta, CpuRespuesta, CpuChequea, CpuTermina
  <1>8. CASE Eliminacion  BY <1>5, <1>8, ElimMarco DEF Despachador
  <1>9. CASE Recibir
    <2>1. /\ hilo'["dispatch"].pasos = PasosDe(Head(a_kernel)) /\ hilo'["dispatch"].pid = Head(a_kernel).pid
      BY <1>1, <1>9, CursoRecibir
    <2>2. QED  BY <1>1, <1>2, <1>9, <2>1, PasosDeFin
  <1>10. CASE \/ EncolarIO \/ Restar \/ Encolar \/ Bloquear \/ LiberarCpu \/ RestarRetenida \/ Fallar
             \/ Finalizar \/ Desalojar
    <2>1. hilo["dispatch"].pasos # <<>> /\ Hecho("dispatch")
      BY <1>10 DEF EncolarIO, Restar, Encolar, Bloquear, LiberarCpu, RestarRetenida, Fallar, Finalizar, Desalojar, Toca
    <2>2. hilo'["dispatch"].pasos = Tail(hilo["dispatch"].pasos) /\ hilo'["dispatch"].pid = hilo["dispatch"].pid
      BY <2>1, HechoTipo DEF InvTipos, Hilos
    <2>3. \A s \in Seq(PasosSinFin) : s # <<>> => Tail(s) \in Seq(PasosSinFin)  OBVIOUS
    <2>4. QED  BY <1>2, <1>3, <2>1, <2>2, <2>3
  <1>11. CASE Leer
    <2>1. PICK r \in Recursos : r = Recurso("dispatch") /\ Tail(hilo["dispatch"].pasos) = <<>>
      BY <1>11, CursoAtendido DEF Leer, OpsAtender
    <2>2. PICK q : /\ Seguir("dispatch", q)
                   /\ q \in {<<>>, <<Paso("encolar", r), Paso("bloquear", r), Paso("liberar_cpu", r)>>}
      BY <1>11, <2>1 DEF Leer, Hecho
    <2>3. q \in Seq(PasosSinFin) /\ q \in Seq(UnPaso) /\ q \o <<>> = q
      <3>1. PICK a \in PasosSinFin, b \in PasosSinFin, c \in PasosSinFin :
               a = Paso("encolar", r) /\ b = Paso("bloquear", r) /\ c = Paso("liberar_cpu", r)
        BY PasoTipo DEF Pasos, PasosSinFin
      <3>2. <<>> \in Seq(PasosSinFin) /\ <<a, b, c>> \in Seq(PasosSinFin)  OBVIOUS
      <3>3. q \in Seq(PasosSinFin)  BY <2>2, <3>1, <3>2
      <3>4. \A u \in Seq(PasosSinFin) : u \o <<>> = u  OBVIOUS
      <3>5. PasosSinFin \subseteq UnPaso  BY DEF PasosSinFin
      <3>6. QED  BY <3>3, <3>4, <3>5, SeqMayor
    <2>4. hilo'["dispatch"].pasos = q
      <3>1. q \o Tail(hilo["dispatch"].pasos) \in Seq(UnPaso) /\ "dispatch" \in Hilos  BY <2>1, <2>3 DEF Hilos
      <3>2. hilo \in [Hilos -> THilo]  BY DEF InvTipos
      <3>3. QED  BY <2>1, <2>2, <2>3, <3>1, <3>2, SeguirTipo
    <2>5. QED  BY <2>3, <2>4
  <1>12. CASE SumarInstancia("dispatch")
    <2>1. FaseAtendido'  BY <1>1, <1>12, CursoSuma
    <2>2. UNCHANGED <<cpu, pc>> /\ \E op \in OpsSuma : Toca("dispatch", op)
      BY <1>12 DEF SumarInstancia, Sumar, Mirar, Sacar, Buscar, Desbloquear, cpuVars, OpsSuma
    <2>3. Pedida.recurso \in Recursos  BY <2>2, CursoAtendido DEF OpsAtender
    <2>4. Pedida' = Pedida  BY <1>1, <2>2, EsperandoIgual
    <2>5. Atiende(hilo'["dispatch"].pasos, Pedida)  BY <2>1, <2>4 DEF FaseAtendido, Despachador
    <2>6. Pedida.recurso # Inexistente  BY <2>3, ConstantesOK
    <2>7. QED  BY <2>5, <2>6, AtiendeSinFin
  <1>13. QED  BY <1>6, <1>7, <1>8, <1>9, <1>10, <1>11, <1>12 DEF Next, Dispatch

\* Only a process that has ended is told that it asked for what there is not.
LEMMA FinRespuestaNext ==
    ASSUME InvTipos, Curso, Finados, Next, vivo' PROVE a_cpu' \in Seq(SinFallas) \/ cpu'.pid \in Terminados'
  <1>1. UNCHANGED carga  BY DEF Next
  <1>2. PICK T, U : T = Terminados /\ U = Terminados' /\ T \subseteq U  BY TerminadosCrece
  <1>3. a_cpu \in Seq(SinFallas) \/ cpu.pid \in T  BY <1>2 DEF Finados, FinCpu
  <1>4. SUFFICES a_cpu' \in Seq(SinFallas) \/ cpu'.pid \in U  BY <1>2
  <1>5. ASSUME cpu'.pid = cpu.pid, a_cpu' = a_cpu \/ \E e \in SinFallas : a_cpu' = Append(a_cpu, e)
        PROVE  a_cpu' \in Seq(SinFallas) \/ cpu'.pid \in U
    <2>1. \A s \in Seq(SinFallas), e \in SinFallas : Append(s, e) \in Seq(SinFallas)  OBVIOUS
    <2>2. QED  BY <1>2, <1>3, <1>5, <2>1
  <1>6. CASE TerminarIO  BY <1>5, <1>6 DEF TerminarIO, cpuVars
  <1>7. CASE Despachar
    <2>1. ready \in Seq(Pids) /\ ready # <<>> /\ a_cpu' = Append(a_cpu, Pcb(Head(ready))) /\ UNCHANGED cpu
      BY <1>7 DEF Despachar, InvTipos, DatosOK, cpuVars
    <2>2. Head(ready) \in Pids  BY <2>1
    <2>3. Pcb(Head(ready)) \in SinFallas  BY <2>2 DEF Pcb, SinFallas, TRespuesta
    <2>4. QED  BY <1>5, <2>1, <2>3
  <1>8. CASE Eliminacion  BY <1>5, <1>8, ElimMarco
  <1>9. CASE Dispatch
    <2>1. UNCHANGED cpu  BY <1>9, DispatchMarco
    <2>2. CASE Leer \/ RestarRetenida
      <3>1. PICK t \in {"RESOURCE_OK", "RESOURCE_BLOCKED"} : Contestar(t)
        BY <2>2 DEF Leer, RestarRetenida, AvisarBloqueo
      <3>2. Respuesta(t) \in SinFallas  BY DEF Respuesta, SinFallas, TRespuesta
      <3>3. QED  BY <1>5, <2>1, <3>1, <3>2 DEF Contestar
    <2>3. CASE Fallar
      <3>1. FaseAtendido /\ Pedida.recurso = Inexistente  BY <2>3, CursoAtendido DEF Fallar, OpsAtender
      <3>2. cpu.pid \in T  BY <1>2, <3>1, PedidaFinal DEF FaseAtendido
      <3>3. QED  BY <1>2, <2>1, <3>2
    <2>4. CASE ~Leer /\ ~RestarRetenida /\ ~Fallar
      <3>1. UNCHANGED a_cpu
        BY <1>9, <2>4 DEF Dispatch, Recibir, EncolarIO, Restar, Encolar, Bloquear, LiberarCpu,
           Finalizar, Desalojar, SumarInstancia, Sumar, Mirar, Sacar, Buscar, Desbloquear
      <3>2. QED  BY <1>5, <2>1, <3>1
    <2>5. QED  BY <2>2, <2>3, <2>4
  <1>10. CASE Cpu /\ ~CpuEjecuta
    <2>1. FaseLibre'
      BY <1>1, <1>10, CpuLibre, RespuestaLibera DEF Cpu
    <2>2. a_cpu' \in Seq(TPcb) /\ TPcb \subseteq SinFallas
      BY <2>1 DEF FaseLibre, SoloPcbs, TPcb, SinFallas, TRespuesta
    <2>3. QED  BY <2>2, SeqMayor
  <1>11. CASE CpuEjecuta
    <2>1. cpu'.pid = cpu.pid /\ UNCHANGED a_cpu  BY <1>1, <1>11, EjecutaPide DEF CpuEjecuta
    <2>2. QED  BY <1>5, <2>1
  <1>12. QED  BY <1>6, <1>7, <1>8, <1>9, <1>10, <1>11 DEF Next

\* The flag that ends the process that is in the CPU.
LEMMA FinFlagNext ==
    ASSUME InvTipos, Curso, Finados, Next, vivo', "end_process" \in flags'
    PROVE  cpu'.en \in {"chequear", "ciclo"} /\ cpu'.pid \in Terminados'
  <1>1. UNCHANGED carga  BY DEF Next
  <1>2. PICK T, U : T = Terminados /\ U = Terminados' /\ T \subseteq U  BY TerminadosCrece
  <1>3. "end_process" \in flags => cpu.en \in {"chequear", "ciclo"} /\ cpu.pid \in T
    BY <1>2 DEF Finados, FinCpu
  <1>4. SUFFICES cpu'.en \in {"chequear", "ciclo"} /\ cpu'.pid \in U  BY <1>2
  <1>5. cpu \in TCpu  BY DEF InvTipos, ViajesOK
  <1>6. CASE Despachar \/ TerminarIO  BY <1>2, <1>3, <1>6 DEF Despachar, TerminarIO, cpuVars
  <1>7. CASE Eliminacion  BY <1>2, <1>3, <1>7, ElimMarco
  <1>8. CASE Dispatch  BY <1>2, <1>3, <1>8, DispatchMarco
  <1>9. CASE CpuRecibe  BY <1>3, <1>9 DEF CpuRecibe
  <1>10. CASE CpuEjecuta
    <2>1. PICK p \in Pids, i \in Instrucciones :
             /\ p = cpu.pid /\ cpu'.pid = p /\ i = Proxima
             /\ pc' = [pc EXCEPT ![p] = pc[p] + 1] /\ pc[p] \in 1 .. Len(Programa[p])
      BY <1>1, <1>10, EjecutaPide
    <2>2. i.op = "EXIT" /\ cpu'.en = "chequear"  BY <1>5, <1>10, <2>1 DEF CpuEjecuta, TCpu
    <2>3. Final(Programa[p][pc[p]])
      <3>1. i.recurso = Inexistente  BY <2>2 DEF Instrucciones
      <3>2. QED  BY <2>1, <2>2, <3>1 DEF Final, Proxima
    <2>4. pc \in [Pids -> Nat \ {0}]  BY DEF InvTipos, ViajesOK
    <2>5. PICK n \in Nat \ {0} : n = pc[p] /\ pc'[p] = n + 1  BY <2>1, <2>4
    <2>6. n \in 1 .. pc'[p] - 1  BY <2>5
    <2>7. p \in Terminados'  BY <1>1, <2>3, <2>5, <2>6 DEF Terminados, Programa
    <2>8. QED  BY <1>2, <2>1, <2>2, <2>7
  <1>11. CASE CpuRespuesta
    <2>1. cpu'.en = "chequear" /\ cpu'.pid = cpu.pid  BY <1>5, <1>11 DEF CpuRespuesta, TCpu
    <2>2. "end_process" \notin flags  BY <1>3, <1>11 DEF CpuRespuesta
    <2>3. a_cpu # <<>> /\ Head(a_cpu).tipo = "RESOURCE_FAIL"  BY <1>11, <2>2 DEF CpuRespuesta
    <2>4. a_cpu \notin Seq(SinFallas)
      <3>1. a_cpu \in Seq(SinFallas) => Head(a_cpu) \in SinFallas  BY <2>3
      <3>2. QED  BY <2>3, <3>1 DEF SinFallas
    <2>5. cpu.pid \in T  BY <1>2, <2>4 DEF Finados, FinCpu
    <2>6. QED  BY <1>2, <2>1, <2>5
  <1>12. CASE CpuChequea
    <2>1. "end_process" \in flags  BY <1>12 DEF CpuChequea
    <2>2. cpu'.en = "ciclo" /\ cpu'.pid = cpu.pid  BY <1>5, <1>12 DEF CpuChequea, TCpu
    <2>3. QED  BY <1>2, <1>3, <2>1, <2>2
  <1>13. CASE CpuTermina  BY <1>13 DEF CpuTermina
  <1>14. QED  BY <1>6, <1>7, <1>8, <1>9, <1>10, <1>11, <1>12, <1>13 DEF Next, Cpu

\* The processes that the kernel ends have come to their end, in every part of the system.
LEMMA FinadosNext == ASSUME InvTipos, Curso, Finados, Next, vivo' PROVE Finados'
  <1>1. FinElim(Terminados)'  BY FinElimNext
  <1>2. FinKernel(Terminados)'  BY FinMensajesNext, FinDespachadorNext DEF FinKernel
  <1>3. FinCpu(Terminados)'  BY FinRespuestaNext, FinFlagNext DEF FinCpu
  <1>4. QED  BY <1>1, <1>2, <1>3 DEF Finados

-----------------------------------------------------------------------------
(* What recursos_asignados says *)

\* The CPU waits for an answer that has not been sent: the instruction has not been noted down.
SinAnotar == cpu.en = "espera" /\ SoloPcbs(a_cpu)
Hasta(p) == IF SinAnotar /\ p = cpu.pid THEN pc[p] - 1 ELSE pc[p]
Anotado == \A p \in Pids, r \in Recursos : Anotadas(asignadas[p], r) = Saldo(Programa[p], r, Hasta(p))

\* What is noted down fits in its uint32_t.
LEMMA AnotadasTipo ==
    ASSUME NEW f \in TAsignadas, NEW r \in Recursos PROVE Anotadas(f, r) \in 0 .. Vuelta - 1
  <1>1. Vuelta \in Nat /\ Vuelta >= 2  BY ConstantesOK
  <1>2. PICK S \in SUBSET Recursos : f \in [S -> 0 .. Vuelta - 1]  BY DEF TAsignadas
  <1>3. QED  BY <1>1, <1>2 DEF Anotadas

\* One more, if it fits ...
LEMMA RetenerAnota ==
    ASSUME NEW f \in TAsignadas, NEW r \in Recursos, NEW q \in Recursos, Anotadas(f, r) + 1 \in 0 .. Vuelta - 1
    PROVE  Anotadas(Retener(f, r), q) = Anotadas(f, q) + (IF q = r THEN 1 ELSE 0)
  <1>1. Vuelta \in Nat /\ Vuelta >= 2  BY ConstantesOK
  <1>2. PICK S \in SUBSET Recursos : f \in [S -> 0 .. Vuelta - 1]  BY DEF TAsignadas
  <1>3. \A n \in Nat : n \in 0 .. Vuelta - 1 => n % Vuelta = n  BY <1>1
  <1>4. PICK g : g = Retener(f, r)  OBVIOUS
  <1>5. DOMAIN g = S \union {r}  BY <1>2, <1>4 DEF Retener
  <1>6. CASE q = r
    <2>1. CASE r \in S
      <3>1. f[r] \in Nat /\ f[r] + 1 \in 0 .. Vuelta - 1  BY <1>1, <1>2, <2>1 DEF Anotadas
      <3>2. g[r] = (f[r] + 1) % Vuelta  BY <1>2, <1>4, <2>1 DEF Retener
      <3>3. g[r] = f[r] + 1  BY <1>3, <3>1, <3>2
      <3>4. QED  BY <1>2, <1>4, <1>5, <1>6, <2>1, <3>3 DEF Anotadas
    <2>2. CASE r \notin S
      <3>1. g[r] = 1  BY <1>2, <1>4, <2>2 DEF Retener
      <3>2. QED  BY <1>2, <1>4, <1>5, <1>6, <2>2, <3>1 DEF Anotadas
    <2>3. QED  BY <2>1, <2>2
  <1>7. CASE q # r
    <2>1. q \in S => g[q] = f[q]  BY <1>2, <1>4, <1>7 DEF Retener
    <2>2. Anotadas(g, q) = Anotadas(f, q)  BY <1>2, <1>5, <1>7, <2>1 DEF Anotadas
    <2>3. Anotadas(f, q) \in Int  BY <1>1, AnotadasTipo
    <2>4. QED  BY <1>4, <1>7, <2>2, <2>3
  <1>8. QED  BY <1>6, <1>7

\* ... and one less, if there is one.
LEMMA DescontarAnota ==
    ASSUME NEW f \in TAsignadas, NEW r \in Recursos, NEW q \in Recursos, Anotadas(f, r) - 1 \in 0 .. Vuelta - 1
    PROVE  Anotadas(Descontar(f, r), q) = Anotadas(f, q) - (IF q = r THEN 1 ELSE 0)
  <1>1. Vuelta \in Nat /\ Vuelta >= 2  BY ConstantesOK
  <1>2. PICK S \in SUBSET Recursos : f \in [S -> 0 .. Vuelta - 1]  BY DEF TAsignadas
  <1>3. \A n \in Int : n \in 0 .. Vuelta - 1 => n % Vuelta = n  BY <1>1
  <1>4. r \in S /\ f[r] \in Nat /\ f[r] - 1 \in 0 .. Vuelta - 1  BY <1>1, <1>2 DEF Anotadas
  <1>5. PICK g : g = Descontar(f, r)  OBVIOUS
  <1>6. g = [f EXCEPT ![r] = (f[r] - 1) % Vuelta]  BY <1>2, <1>4, <1>5 DEF Descontar
  <1>7. f[r] - 1 \in Int /\ (f[r] - 1) % Vuelta = f[r] - 1  BY <1>3, <1>4
  <1>8. DOMAIN g = S /\ g[r] = f[r] - 1 /\ (q \in S /\ q # r => g[q] = f[q])  BY <1>2, <1>4, <1>6, <1>7
  <1>9. CASE q = r  BY <1>2, <1>4, <1>5, <1>8, <1>9 DEF Anotadas
  <1>10. CASE q # r
    <2>1. Anotadas(g, q) = Anotadas(f, q)  BY <1>2, <1>8, <1>10 DEF Anotadas
    <2>2. Anotadas(f, q) \in Int  BY <1>1, AnotadasTipo
    <2>3. QED  BY <1>5, <1>10, <2>1, <2>2
  <1>11. QED  BY <1>9, <1>10

\* The count of what a process holds does not wrap around.
LEMMA SaldoCabe ==
    ASSUME InvTipos, NEW p \in Pids, NEW r \in Recursos, NEW n \in 1 .. Len(Programa[p]) + 1
    PROVE  Saldo(Programa[p], r, n) \in 0 .. Vuelta - 1
  <1>1. carga \in Cargas  BY DEF InvTipos, DatosOK
  <1>2. QED  BY <1>1, CargasJustas DEF Programa

\* Anotado is about the programs, their pc and recursos_asignados, ...
LEMMA AnotadoMarco ==
    ASSUME Anotado, UNCHANGED <<carga, asignadas, cpu, pc>>, SinAnotar' = SinAnotar PROVE Anotado'
  BY DEF Anotado, Hasta, Programa

\* ... and about the CPU only while it waits for an answer.
LEMMA AnotadoLibre ==
    ASSUME Anotado, UNCHANGED <<carga, asignadas, pc>>, ~SinAnotar, ~SinAnotar' PROVE Anotado'
  BY DEF Anotado, Hasta, Programa

\* The answer is what separates the two.
LEMMA SinAnotarFases ==
    /\ FaseLibre \/ FaseContestado => ~SinAnotar
    /\ FasePedido \/ FaseAtendido => SinAnotar
  <1>1. FaseContestado => ~SinAnotar  BY RespuestaPrimera DEF FaseContestado, SinAnotar
  <1>2. QED  BY <1>1 DEF FaseLibre, FasePedido, FaseAtendido, SinAnotar, Esperando

\* A PCB more is not an answer.
LEMMA SoloPcbsMas ==
    ASSUME NEW s \in Seq(TRespuesta), NEW e \in TPcb PROVE SoloPcbs(Append(s, e)) = SoloPcbs(s)
  <1>1. ASSUME s \in Seq(TPcb) PROVE Append(s, e) \in Seq(TPcb)  BY <1>1
  <1>2. ASSUME Append(s, e) \in Seq(TPcb) PROVE s \in Seq(TPcb)
    <2>1. PICK t \in Seq(TPcb) : t = Append(s, e)  BY <1>2
    <2>2. e \in TRespuesta  BY DEF TPcb, TRespuesta
    <2>3. Len(t) = Len(s) + 1 /\ \A k \in 1 .. Len(s) : k \in 1 .. Len(t) /\ t[k] = s[k]  BY <2>1, <2>2
    <2>4. \A k \in 1 .. Len(t) : t[k] \in TPcb  OBVIOUS
    <2>5. \A k \in 1 .. Len(s) : s[k] \in TPcb  BY <2>3, <2>4
    <2>6. QED  BY <2>5
  <1>3. SoloPcbs(Append(s, e)) <=> SoloPcbs(s)  BY <1>1, <1>2 DEF SoloPcbs
  <1>4. QED  BY <1>3 DEF SoloPcbs

\* The instruction that is attended to is the one that has not been noted down.
LEMMA AtendidaAnota ==
    ASSUME InvTipos, Anotado, FaseAtendido, FaseContestado', UNCHANGED <<carga, cpu, pc>>,
           NEW p \in Pids, p = cpu.pid, NEW q \in Recursos
    PROVE  /\ Anotadas(asignadas[p], q) \in 0 .. Vuelta - 1
           /\ Saldo(Programa[p], q, Hasta(p)') \in 0 .. Vuelta - 1
           /\ Saldo(Programa[p], q, Hasta(p)') = Anotadas(asignadas[p], q)
                 + (IF Pedida = [op |-> "WAIT", recurso |-> q] THEN 1 ELSE 0)
                 - (IF Pedida = [op |-> "SIGNAL", recurso |-> q] THEN 1 ELSE 0)
           /\ \A o \in Pids \ {p} : Hasta(o)' = Hasta(o)
  <1>1. SinAnotar /\ ~SinAnotar'
    <2>1. SinAnotar  BY SinAnotarFases
    <2>2. ~SinAnotar'
      <3>1. UnaRespuesta(a_cpu')  BY DEF FaseContestado
      <3>2. ~SoloPcbs(a_cpu')  BY <3>1, RespuestaPrimera
      <3>3. QED  BY <3>2 DEF SinAnotar
    <2>3. QED  BY <2>1, <2>2
  <1>2. pc[p] - 1 \in 1 .. Len(Programa[p])  BY DEF FaseAtendido, Esperando
  <1>3. pc[p] \in Nat  BY DEF InvTipos, ViajesOK
  <1>4. PICK n \in Nat : n = pc[p] - 1 /\ n \in 1 .. Len(Programa[p]) /\ pc[p] = n + 1
    <2>1. Programa[p] \in Seq(Instrucciones)  BY ProgramaTipo
    <2>2. Len(Programa[p]) \in Nat  BY <2>1
    <2>3. QED  BY <1>2, <1>3, <2>2
  <1>5. PICK s \in Seq(Instrucciones) : s = Programa[p]  BY ProgramaTipo
  <1>6. Hasta(p) = n /\ Hasta(p)' = n + 1 /\ Pedida = s[n]
    <2>1. Hasta(p) = n  BY <1>1, <1>4 DEF Hasta
    <2>2. Hasta(p)' = pc'[p]  BY <1>1 DEF Hasta
    <2>3. Pedida = s[n]  BY <1>4, <1>5 DEF Pedida
    <2>4. QED  BY <1>4, <2>1, <2>2, <2>3
  <1>7. \A o \in Pids \ {p} : Hasta(o)' = Hasta(o)  BY <1>1 DEF Hasta
  <1>8. Anotadas(asignadas[p], q) = Saldo(s, q, n)  BY <1>5, <1>6 DEF Anotado
  <1>9. Saldo(s, q, n + 1) = Saldo(s, q, n) + (IF s[n] = [op |-> "WAIT", recurso |-> q] THEN 1 ELSE 0)
                                            - (IF s[n] = [op |-> "SIGNAL", recurso |-> q] THEN 1 ELSE 0)
    <2>1. n \in 1 .. Len(s)  BY <1>4, <1>5
    <2>2. QED  BY <2>1, SaldoSigue
  <1>10. n + 1 \in 1 .. Len(Programa[p]) + 1 /\ n \in 1 .. Len(Programa[p]) + 1
    <2>1. Len(s) \in Nat  OBVIOUS
    <2>2. QED  BY <1>4, <1>5, <2>1
  <1>11. Saldo(s, q, n + 1) \in 0 .. Vuelta - 1 /\ Saldo(s, q, n) \in 0 .. Vuelta - 1
    BY <1>5, <1>10, SaldoCabe
  <1>12. QED  BY <1>5, <1>6, <1>7, <1>8, <1>9, <1>11

\* It is noted down when it is answered.
LEMMA AnotadoAtendido ==
    ASSUME InvTipos, Anotado, FaseAtendido, FaseContestado', UNCHANGED <<carga, cpu, pc>>,
           NEW p \in Pids, p = cpu.pid,
           \A o \in Pids \ {p} : asignadas'[o] = asignadas[o],
           \A q \in Recursos :
              Anotadas(asignadas'[p], q) = Anotadas(asignadas[p], q)
                 + (IF Pedida = [op |-> "WAIT", recurso |-> q] THEN 1 ELSE 0)
                 - (IF Pedida = [op |-> "SIGNAL", recurso |-> q] THEN 1 ELSE 0)
    PROVE  Anotado'
  <1>1. SUFFICES ASSUME NEW o \in Pids, NEW q \in Recursos
                 PROVE  Anotadas(asignadas'[o], q) = Saldo(Programa[o], q, Hasta(o)')
    BY DEF Anotado, Programa
  <1>2. CASE o = p  BY <1>2, AtendidaAnota
  <1>3. CASE o # p
    <2>1. Hasta(o)' = Hasta(o)  BY <1>3, AtendidaAnota
    <2>2. QED  BY <1>3, <2>1 DEF Anotado
  <1>4. QED  BY <1>2, <1>3

\* retener_instancia_de_recurso notes down the WAIT that is answered.
LEMMA AnotadoLeer == ASSUME InvTipos, Curso, Anotado, UNCHANGED carga, Leer PROVE Anotado'
  <1>1. FaseAtendido /\ FaseContestado' /\ UNCHANGED <<carga, cpu, pc>>  BY CursoLeer DEF Leer, cpuVars
  <1>2. PICK r \in Recursos, p \in Pids, i \in Instrucciones :
           /\ r = Recurso("dispatch") /\ i = Pedida /\ i.op = "WAIT" /\ i.recurso = r
           /\ p = cpu.pid /\ hilo["dispatch"].pid = p
    BY CursoAtendido DEF Leer, OpsAtender
  <1>3. asignadas \in [Pids -> TAsignadas]  BY DEF InvTipos
  <1>4. asignadas' = [asignadas EXCEPT ![p] = Retener(asignadas[p], r)]  BY <1>2 DEF Leer
  <1>5. \A q \in Recursos : ((i = [op |-> "WAIT", recurso |-> q]) <=> q = r) /\ i # [op |-> "SIGNAL", recurso |-> q]
    <2>1. i = [op |-> i.op, recurso |-> i.recurso]  BY DEF Instrucciones
    <2>2. QED  BY <1>2, <2>1
  <1>6. \A q \in Recursos : Anotadas(asignadas[p], q) \in Int
    <2>1. Vuelta \in Nat  BY ConstantesOK
    <2>2. QED  BY <1>3, <2>1, AnotadasTipo
  <1>7. Anotadas(asignadas[p], r) + 1 \in 0 .. Vuelta - 1
    <2>1. /\ Saldo(Programa[p], r, Hasta(p)') \in 0 .. Vuelta - 1
          /\ Saldo(Programa[p], r, Hasta(p)') = Anotadas(asignadas[p], r)
                + (IF Pedida = [op |-> "WAIT", recurso |-> r] THEN 1 ELSE 0)
                - (IF Pedida = [op |-> "SIGNAL", recurso |-> r] THEN 1 ELSE 0)
      BY <1>1, <1>2, AtendidaAnota
    <2>2. QED  BY <1>2, <1>5, <1>6, <2>1
  <1>8. asignadas'[p] = Retener(asignadas[p], r) /\ \A o \in Pids \ {p} : asignadas'[o] = asignadas[o]
    BY <1>3, <1>4
  <1>9. \A q \in Recursos :
           Anotadas(asignadas'[p], q) = Anotadas(asignadas[p], q)
              + (IF Pedida = [op |-> "WAIT", recurso |-> q] THEN 1 ELSE 0)
              - (IF Pedida = [op |-> "SIGNAL", recurso |-> q] THEN 1 ELSE 0)
    <2>1. SUFFICES ASSUME NEW q \in Recursos
                   PROVE  Anotadas(asignadas'[p], q) = Anotadas(asignadas[p], q)
                             + (IF i = [op |-> "WAIT", recurso |-> q] THEN 1 ELSE 0)
                             - (IF i = [op |-> "SIGNAL", recurso |-> q] THEN 1 ELSE 0)
      BY <1>2
    <2>2. Anotadas(asignadas'[p], q) = Anotadas(asignadas[p], q) + (IF q = r THEN 1 ELSE 0)
      BY <1>3, <1>7, <1>8, RetenerAnota
    <2>3. QED  BY <1>5, <1>6, <2>2
  <1>10. QED  BY <1>1, <1>2, <1>8, <1>9, AnotadoAtendido

\* restar_instancia_retenida_a_proceso crosses out the SIGNAL that is answered.
LEMMA AnotadoRestarRetenida ==
    ASSUME InvTipos, Curso, Anotado, UNCHANGED carga, RestarRetenida PROVE Anotado'
  <1>1. FaseAtendido /\ FaseContestado' /\ UNCHANGED <<carga, cpu, pc>>
    BY CursoContestada DEF RestarRetenida, cpuVars
  <1>2. PICK r \in Recursos, p \in Pids, i \in Instrucciones :
           /\ r = Recurso("dispatch") /\ i = Pedida /\ i.op = "SIGNAL" /\ i.recurso = r
           /\ p = cpu.pid /\ hilo["dispatch"].pid = p
    BY CursoAtendido DEF RestarRetenida, OpsAtender
  <1>3. asignadas \in [Pids -> TAsignadas]  BY DEF InvTipos
  <1>4. asignadas' = [asignadas EXCEPT ![p] = Descontar(asignadas[p], r)]  BY <1>2 DEF RestarRetenida
  <1>5. \A q \in Recursos : ((i = [op |-> "SIGNAL", recurso |-> q]) <=> q = r) /\ i # [op |-> "WAIT", recurso |-> q]
    <2>1. i = [op |-> i.op, recurso |-> i.recurso]  BY DEF Instrucciones
    <2>2. QED  BY <1>2, <2>1
  <1>6. \A q \in Recursos : Anotadas(asignadas[p], q) \in Int
    <2>1. Vuelta \in Nat  BY ConstantesOK
    <2>2. QED  BY <1>3, <2>1, AnotadasTipo
  <1>7. Anotadas(asignadas[p], r) - 1 \in 0 .. Vuelta - 1
    <2>1. /\ Saldo(Programa[p], r, Hasta(p)') \in 0 .. Vuelta - 1
          /\ Saldo(Programa[p], r, Hasta(p)') = Anotadas(asignadas[p], r)
                + (IF Pedida = [op |-> "WAIT", recurso |-> r] THEN 1 ELSE 0)
                - (IF Pedida = [op |-> "SIGNAL", recurso |-> r] THEN 1 ELSE 0)
      BY <1>1, <1>2, AtendidaAnota
    <2>2. QED  BY <1>2, <1>5, <1>6, <2>1
  <1>8. asignadas'[p] = Descontar(asignadas[p], r) /\ \A o \in Pids \ {p} : asignadas'[o] = asignadas[o]
    BY <1>3, <1>4
  <1>9. \A q \in Recursos :
           Anotadas(asignadas'[p], q) = Anotadas(asignadas[p], q)
              + (IF Pedida = [op |-> "WAIT", recurso |-> q] THEN 1 ELSE 0)
              - (IF Pedida = [op |-> "SIGNAL", recurso |-> q] THEN 1 ELSE 0)
    <2>1. SUFFICES ASSUME NEW q \in Recursos
                   PROVE  Anotadas(asignadas'[p], q) = Anotadas(asignadas[p], q)
                             + (IF i = [op |-> "WAIT", recurso |-> q] THEN 1 ELSE 0)
                             - (IF i = [op |-> "SIGNAL", recurso |-> q] THEN 1 ELSE 0)
      BY <1>2
    <2>2. Anotadas(asignadas'[p], q) = Anotadas(asignadas[p], q) - (IF q = r THEN 1 ELSE 0)
      BY <1>3, <1>7, <1>8, DescontarAnota
    <2>3. QED  BY <1>5, <1>6, <2>2
  <1>10. QED  BY <1>1, <1>2, <1>8, <1>9, AnotadoAtendido

\* A request that fails is about no resource.
LEMMA AnotadoFallar == ASSUME InvTipos, Curso, Anotado, UNCHANGED carga, Fallar PROVE Anotado'
  <1>1. FaseAtendido /\ FaseContestado' /\ UNCHANGED <<carga, cpu, pc, asignadas>>
    BY CursoContestada DEF Fallar, cpuVars, contables
  <1>2. PICK p \in Pids, i \in Instrucciones : i = Pedida /\ i.recurso = Inexistente /\ p = cpu.pid
    BY CursoAtendido DEF Fallar, OpsAtender
  <1>3. asignadas \in [Pids -> TAsignadas]  BY DEF InvTipos
  <1>4. \A q \in Recursos : Anotadas(asignadas[p], q) \in Int
    <2>1. Vuelta \in Nat  BY ConstantesOK
    <2>2. QED  BY <1>3, <2>1, AnotadasTipo
  <1>5. \A q \in Recursos : i # [op |-> "WAIT", recurso |-> q] /\ i # [op |-> "SIGNAL", recurso |-> q]
    BY <1>2, ConstantesOK
  <1>6. \A q \in Recursos :
           Anotadas(asignadas'[p], q) = Anotadas(asignadas[p], q)
              + (IF Pedida = [op |-> "WAIT", recurso |-> q] THEN 1 ELSE 0)
              - (IF Pedida = [op |-> "SIGNAL", recurso |-> q] THEN 1 ELSE 0)
    BY <1>1, <1>2, <1>4, <1>5
  <1>7. QED  BY <1>1, <1>2, <1>6, AnotadoAtendido

\* An instruction is executed: what asks for nothing changes nothing, and what asks for
\* something is not noted down yet.
LEMMA AnotadoEjecuta == ASSUME InvTipos, Curso, Anotado, UNCHANGED carga, CpuEjecuta PROVE Anotado'
  <1>1. PICK p \in Pids, i \in Instrucciones :
           /\ p = cpu.pid /\ cpu'.pid = p /\ i = Proxima /\ FaseLibre
           /\ pc' = [pc EXCEPT ![p] = pc[p] + 1] /\ pc[p] \in 1 .. Len(Programa[p])
           /\ i.op \in {"WAIT", "SIGNAL"} => FasePedido'
           /\ i.op \notin {"WAIT", "SIGNAL"} => FaseLibre'
    BY EjecutaPide
  <1>2. UNCHANGED asignadas  BY DEF CpuEjecuta, contables
  <1>3. pc \in [Pids -> Nat \ {0}]  BY DEF InvTipos, ViajesOK
  <1>4. PICK n \in Nat : n = pc[p] /\ pc'[p] = n + 1 /\ \A o \in Pids \ {p} : pc'[o] = pc[o]  BY <1>1, <1>3
  <1>5. ~SinAnotar /\ \A o \in Pids : Hasta(o) = pc[o]  BY <1>1, SinAnotarFases DEF Hasta
  <1>6. CASE i.op \in {"WAIT", "SIGNAL"}
    <2>1. SinAnotar'
      <3>1. FasePedido'  BY <1>1, <1>6
      <3>2. QED  BY <3>1 DEF FasePedido, SinAnotar, Esperando
    <2>2. \A o \in Pids : Hasta(o)' = pc[o]
      <3>1. Hasta(p)' = pc'[p] - 1  BY <1>1, <2>1 DEF Hasta
      <3>2. \A o \in Pids \ {p} : Hasta(o)' = pc'[o]  BY <1>1, <2>1 DEF Hasta
      <3>3. QED  BY <1>4, <3>1, <3>2
    <2>3. QED  BY <1>2, <1>5, <2>2 DEF Anotado, Programa
  <1>7. CASE i.op \notin {"WAIT", "SIGNAL"}
    <2>1. ~SinAnotar'
      <3>1. FaseLibre'  BY <1>1, <1>7
      <3>2. QED  BY <3>1 DEF FaseLibre, SinAnotar
    <2>2. \A o \in Pids : Hasta(o)' = pc'[o]  BY <2>1 DEF Hasta
    <2>3. \A q \in Recursos : Saldo(Programa[p], q, n + 1) = Saldo(Programa[p], q, n)
      <3>1. SUFFICES ASSUME NEW q \in Recursos PROVE Saldo(Programa[p], q, n + 1) = Saldo(Programa[p], q, n)
        OBVIOUS
      <3>2. PICK s \in Seq(Instrucciones) : s = Programa[p] /\ n \in 1 .. Len(s) /\ s[n] = i
        BY <1>1, <1>4, ProgramaTipo DEF Proxima
      <3>3. i # [op |-> "WAIT", recurso |-> q] /\ i # [op |-> "SIGNAL", recurso |-> q]  BY <1>7
      <3>4. /\ Saldo(s, q, n) \in Int
            /\ Saldo(s, q, n + 1) = Saldo(s, q, n) + (IF s[n] = [op |-> "WAIT", recurso |-> q] THEN 1 ELSE 0)
                                                   - (IF s[n] = [op |-> "SIGNAL", recurso |-> q] THEN 1 ELSE 0)
        <4>1. n \in 1 .. Len(s)  BY <3>2
        <4>2. QED  BY <4>1, SaldoSigue
      <3>5. QED  BY <3>2, <3>3, <3>4
    <2>4. SUFFICES ASSUME NEW o \in Pids, NEW q \in Recursos
                   PROVE  Anotadas(asignadas[o], q) = Saldo(Programa[o], q, pc'[o])
      BY <1>2, <2>2 DEF Anotado, Programa
    <2>5. Anotadas(asignadas[o], q) = Saldo(Programa[o], q, pc[o])  BY <1>5 DEF Anotado
    <2>6. QED  BY <1>4, <2>3, <2>5
  <1>8. QED  BY <1>6, <1>7

\* recursos_asignados says what each program has asked for and not given back.
LEMMA AnotadoNext == ASSUME InvTipos, Curso, Anotado, Next, vivo' PROVE Anotado'
  <1>1. UNCHANGED carga  BY DEF Next
  <1>2. CASE Despachar
    <2>1. UNCHANGED <<carga, asignadas, cpu, pc>> /\ ready \in Seq(Pids) /\ ready # <<>>
          /\ a_cpu' = Append(a_cpu, Pcb(Head(ready))) /\ a_cpu \in Seq(TRespuesta)
      BY <1>1, <1>2 DEF Despachar, contables, cpuVars, InvTipos, DatosOK, ViajesOK
    <2>2. Head(ready) \in Pids  BY <2>1
    <2>3. Pcb(Head(ready)) \in TPcb  BY <2>2 DEF Pcb, TPcb
    <2>4. SoloPcbs(a_cpu') = SoloPcbs(a_cpu)  BY <2>1, <2>3, SoloPcbsMas
    <2>5. SinAnotar' = SinAnotar  BY <2>1, <2>4 DEF SinAnotar
    <2>6. QED  BY <2>1, <2>5, AnotadoMarco
  <1>3. CASE UNCHANGED <<asignadas, cpu, pc, a_cpu>>
    <2>1. SinAnotar' = SinAnotar  BY <1>3 DEF SinAnotar
    <2>2. QED  BY <1>1, <1>3, <2>1, AnotadoMarco
  <1>4. CASE TerminarIO  BY <1>3, <1>4 DEF TerminarIO, contables, cpuVars
  <1>5. CASE Eliminacion
    <2>1. UNCHANGED asignadas
      BY <1>5 DEF Eliminacion, EliminarProceso, Quitar, Devolver, Destruir, SumarInstancia, Sumar, Mirar, Sacar, Buscar,
         Desbloquear, contables
    <2>2. QED  BY <1>3, <1>5, <2>1, ElimMarco
  <1>6. CASE Dispatch
    <2>1. CASE Leer  BY <1>1, <2>1, AnotadoLeer
    <2>2. CASE RestarRetenida  BY <1>1, <2>2, AnotadoRestarRetenida
    <2>3. CASE Fallar  BY <1>1, <2>3, AnotadoFallar
    <2>4. CASE ~Leer /\ ~RestarRetenida /\ ~Fallar
      <3>1. UNCHANGED <<asignadas, a_cpu>>
        BY <1>6, <2>4 DEF Dispatch, Recibir, EncolarIO, Restar, Encolar, Bloquear, LiberarCpu, Finalizar, Desalojar,
           SumarInstancia, Sumar, Mirar, Sacar, Buscar, Desbloquear, contables
      <3>2. QED  BY <1>3, <1>6, <3>1, DispatchMarco
    <2>5. QED  BY <2>1, <2>2, <2>3, <2>4
  <1>7. CASE CpuEjecuta  BY <1>1, <1>7, AnotadoEjecuta
  <1>8. CASE CpuRecibe \/ CpuRespuesta \/ CpuChequea \/ CpuTermina
    <2>1. (FaseLibre \/ FaseContestado) /\ FaseLibre'  BY <1>1, <1>8, CpuLibre, RespuestaLibera
    <2>2. UNCHANGED <<asignadas, pc>>
      BY <1>8 DEF CpuRecibe, CpuRespuesta, CpuChequea, CpuTermina, contables
    <2>3. ~SinAnotar /\ ~SinAnotar'
      <3>1. ~SinAnotar  BY <2>1, SinAnotarFases
      <3>2. ~SinAnotar'  BY <2>1 DEF FaseLibre, SinAnotar
      <3>3. QED  BY <3>1, <3>2
    <2>4. QED  BY <1>1, <2>2, <2>3, AnotadoLibre
  <1>9. QED  BY <1>2, <1>4, <1>5, <1>6, <1>7, <1>8 DEF Next, Cpu

-----------------------------------------------------------------------------
(* The instances that a thread has in its hands *)

PasosCon(O) == {e \in UnPaso : e.op \in O}

\* A list does not have what its elements are not.
LEMMA VecesFuera == ASSUME NEW A, NEW s \in Seq(A), NEW x, x \notin A PROVE Veces(s, x) = 0
  <1>1. \A k \in 1 .. Len(s) : s[k] # x  OBVIOUS
  <1>2. Veces(s, x) \in Nat /\ (Veces(s, x) > 0 <=> \E k \in 1 .. Len(s) : s[k] = x)  BY VecesTipo
  <1>3. QED  BY <1>1, <1>2

\* A list of two.
LEMMA VecesPar ==
    ASSUME NEW S, NEW a \in S, NEW b \in S, NEW x
    PROVE  Veces(<<a, b>>, x) = (IF a = x THEN 1 ELSE 0) + (IF b = x THEN 1 ELSE 0)
  <1>1. <<a, b>> \in Seq(S) /\ <<a, b>> # <<>> /\ Head(<<a, b>>) = a /\ Tail(<<a, b>>) = <<b>>
    OBVIOUS
  <1>2. PICK p \in Seq(S) : p = <<a, b>> /\ p # <<>> /\ Head(p) = a /\ Tail(p) = <<b>>  BY <1>1
  <1>3. Veces(p, x) = Veces(Tail(p), x) + (IF Head(p) = x THEN 1 ELSE 0)  BY <1>2, VecesCola
  <1>4. Veces(<<b>>, x) = IF b = x THEN 1 ELSE 0  BY VecesSola
  <1>5. QED  BY <1>2, <1>3, <1>4

\* Lists of steps have no other.
LEMMA VecesOtra ==
    ASSUME NEW O, NEW s \in Seq(PasosCon(O)), NEW op \in Pasos, op \notin O, NEW r \in Recursos
    PROVE  Veces(s, Paso(op, r)) = 0
  <1>1. Paso(op, r) \notin PasosCon(O)  BY PasoTipo DEF PasosCon
  <1>2. QED  BY <1>1, VecesFuera

\* The steps of sumar_instancia_a_recurso are its own.
LEMMA SumasTipo ==
    ASSUME NEW r \in Recursos, NEW w \in Sumas(r)
    PROVE  w \in Seq(PasosCon(OpsSuma)) /\ (w = PasosSumar(r) \/ w \in Seq(PasosCon(OpsSuma \ {"sumar"})))
  <1>1. PICK a \in PasosCon(OpsSuma) : a = Paso("sumar", r)  BY PasoTipo DEF Pasos, PasosCon, OpsSuma
  <1>2. PICK b \in PasosCon(OpsSuma \ {"sumar"}), c \in PasosCon(OpsSuma \ {"sumar"}),
             d \in PasosCon(OpsSuma \ {"sumar"}), e \in PasosCon(OpsSuma \ {"sumar"}) :
           /\ b = Paso("mirar", r) /\ c = Paso("sacar", r) /\ d = Paso("buscar", r) /\ e = Paso("desbloquear", r)
    BY PasoTipo DEF Pasos, PasosCon, OpsSuma
  <1>3. PICK A, B : A = PasosCon(OpsSuma) /\ B = PasosCon(OpsSuma \ {"sumar"}) /\ B \subseteq A  BY DEF PasosCon
  <1>4. a \in A /\ b \in B /\ c \in B /\ d \in B /\ e \in B /\ b \in A  BY <1>1, <1>2, <1>3
  <1>5. <<>> \in Seq(B) /\ <<b>> \in Seq(B) /\ <<c, d, e>> \in Seq(B) /\ <<d, e>> \in Seq(B) /\ <<e>> \in Seq(B)
        /\ <<a, b>> \in Seq(A)
    BY <1>4
  <1>6. w = <<a, b>> \/ w \in {<<>>, <<b>>, <<c, d, e>>, <<d, e>>, <<e>>}
    BY <1>1, <1>2 DEF Sumas, PasosSumar, PasosDespertar
  <1>7. w = PasosSumar(r) \/ w \in Seq(B)  BY <1>1, <1>2, <1>5, <1>6 DEF PasosSumar
  <1>8. w \in Seq(A)
    <2>1. \A s \in Seq(B) : s \in Seq(A)  BY <1>3, SeqMayor
    <2>2. QED  BY <1>5, <1>6, <2>1
  <1>9. QED  BY <1>3, <1>7, <1>8

\* sumar_instancia_a_recurso has nothing in its hands once it has counted the instance.
LEMMA VecesSumando ==
    ASSUME NEW r \in Recursos, NEW v \in Seq(UnPaso), NEW s, Sumando(s, v, r),
           NEW op \in Pasos, op \notin OpsSuma, NEW q \in Recursos
    PROVE  Veces(s, Paso(op, q)) = Veces(v, Paso(op, q))
  <1>1. PICK w \in Sumas(r) : s = w \o v  BY DEF Sumando
  <1>2. w \in Seq(PasosCon(OpsSuma))  BY SumasTipo
  <1>3. w \in Seq(UnPaso)
    <2>1. PasosCon(OpsSuma) \subseteq UnPaso  BY DEF PasosCon
    <2>2. QED  BY <1>2, <2>1, SeqMayor
  <1>4. PICK x : x = Paso(op, q)  OBVIOUS
  <1>5. Veces(w, x) = 0  BY <1>2, <1>4, VecesOtra
  <1>6. Veces(w \o v, x) = Veces(w, x) + Veces(v, x)  BY <1>3, VecesJunto
  <1>7. Veces(v, x) \in Nat  BY VecesTipo
  <1>8. QED  BY <1>1, <1>4, <1>5, <1>6, <1>7

\* The instance is counted once.
LEMMA VecesSumandoSumar ==
    ASSUME NEW r \in Recursos, NEW v \in Seq(UnPaso), v # <<>>, Head(v).op \notin OpsSuma,
           NEW s, Sumando(s, v, r), NEW q \in Recursos
    PROVE  /\ Head(s).op = "sumar" /\ q = r => Veces(s, Paso("sumar", q)) = Veces(v, Paso("sumar", q)) + 1
           /\ Head(s).op # "sumar" \/ q # r => Veces(s, Paso("sumar", q)) = Veces(v, Paso("sumar", q))
  <1>1. PICK w \in Sumas(r) : s = w \o v  BY DEF Sumando
  <1>2. w \in Seq(PasosCon(OpsSuma)) /\ (w = PasosSumar(r) \/ w \in Seq(PasosCon(OpsSuma \ {"sumar"})))
    BY SumasTipo
  <1>3. w \in Seq(UnPaso)
    <2>1. PasosCon(OpsSuma) \subseteq UnPaso  BY DEF PasosCon
    <2>2. QED  BY <1>2, <2>1, SeqMayor
  <1>4. PICK x : x = Paso("sumar", q)  OBVIOUS
  <1>5. Veces(w \o v, x) = Veces(w, x) + Veces(v, x)  BY <1>3, VecesJunto
  <1>6. Veces(v, x) \in Nat  BY VecesTipo
  <1>7. CASE w = PasosSumar(r)
    <2>1. PICK a \in UnPaso, b \in UnPaso : /\ a = Paso("sumar", r) /\ b = Paso("mirar", r)
                                            /\ a.op = "sumar" /\ b.op = "mirar" /\ a.recurso = r
      BY PasoTipo DEF Pasos
    <2>2. x.op = "sumar" /\ x.recurso = q /\ (a = x <=> q = r) /\ b # x
      BY <1>4, <2>1 DEF Paso
    <2>3. w = <<a, b>>  BY <1>7, <2>1 DEF PasosSumar
    <2>4. Veces(<<a, b>>, x) = (IF a = x THEN 1 ELSE 0) + (IF b = x THEN 1 ELSE 0)  BY VecesPar
    <2>5. Veces(w, x) = IF q = r THEN 1 ELSE 0  BY <2>2, <2>3, <2>4
    <2>6. Head(s).op = "sumar"  BY <1>1, <1>7, SumandoDe
    <2>7. QED  BY <1>1, <1>4, <1>5, <1>6, <2>5, <2>6
  <1>8. CASE w \in Seq(PasosCon(OpsSuma \ {"sumar"}))
    <2>1. PICK B : B = PasosCon(OpsSuma \ {"sumar"}) /\ w \in Seq(B)  BY <1>8
    <2>2. Veces(w, x) = 0
      <3>1. "sumar" \in Pasos /\ "sumar" \notin OpsSuma \ {"sumar"}  BY DEF Pasos
      <3>2. QED  BY <1>4, <1>8, <3>1, VecesOtra
    <2>3. Head(s).op # "sumar"
      <3>1. CASE w = <<>>
        <4>1. s = v  BY <1>1, <3>1
        <4>2. QED  BY <4>1 DEF OpsSuma
      <3>2. CASE w # <<>>
        <4>1. Head(w) \in B  BY <2>1, <3>2
        <4>2. Head(w \o v) = Head(w)  BY <1>3, <3>2
        <4>3. QED  BY <1>1, <2>1, <4>1, <4>2 DEF PasosCon
      <3>3. QED  BY <3>1, <3>2
    <2>4. QED  BY <1>1, <1>4, <1>5, <1>6, <2>2, <2>3
  <1>9. QED  BY <1>2, <1>7, <1>8

\* What recibir_dispatch has taken from the counter and not noted down, or the other way round ...
EnMano(s, r) ==
    Veces(s, Paso("leer", r)) - Veces(s, Paso("restar", r))
      - (IF Veces(s, Paso("restar_retenida", r)) > 0 THEN 1 - Veces(s, Paso("sumar", r)) ELSE 0)
\* ... and what eliminacion_de_procesos has left to give back.
PorDevolver(s, r) == Veces(s, Paso("devolver", r)) + Veces(s, Paso("sumar", r))

\* Both are numbers.
LEMMA ManoTipo ==
    ASSUME NEW s \in Seq(UnPaso), NEW r \in Recursos PROVE EnMano(s, r) \in Int /\ PorDevolver(s, r) \in Nat
  <1>1. \A x : Veces(s, x) \in Nat  BY VecesTipo
  <1>2. QED  BY <1>1 DEF EnMano, PorDevolver

\* Sueltas is what the two threads have in their hands.
LEMMA SueltasEs ==
    ASSUME InvTipos, NEW r \in Recursos
    PROVE  Sueltas(r) = PorDevolver(Eliminador.pasos, r) + EnMano(Despachador.pasos, r)
  <1>1. Eliminador.pasos \in Seq(UnPaso) /\ Despachador.pasos \in Seq(UnPaso)
    BY DEF InvTipos, THilo, Hilos, Eliminador, Despachador
  <1>2. (\A x : Veces(Eliminador.pasos, x) \in Nat) /\ (\A x : Veces(Despachador.pasos, x) \in Nat)
    BY <1>1, VecesTipo
  <1>3. PICK a \in Nat, b \in Nat, c \in Nat, d \in Nat, e \in Nat, g \in Nat :
           /\ a = Veces(Eliminador.pasos, Paso("devolver", r)) /\ b = Veces(Eliminador.pasos, Paso("sumar", r))
           /\ c = Veces(Despachador.pasos, Paso("leer", r)) /\ d = Veces(Despachador.pasos, Paso("restar", r))
           /\ e = Veces(Despachador.pasos, Paso("restar_retenida", r))
           /\ g = Veces(Despachador.pasos, Paso("sumar", r))
    BY <1>2
  <1>4. Sueltas(r) = a + b + c - d - (IF e > 0 THEN 1 - g ELSE 0)
    BY <1>3 DEF Sueltas, Faltan, Eliminador, Despachador
  <1>5. PorDevolver(Eliminador.pasos, r) = a + b  BY <1>3 DEF PorDevolver
  <1>6. EnMano(Despachador.pasos, r) = c - d - (IF e > 0 THEN 1 - g ELSE 0)  BY <1>3 DEF EnMano
  <1>7. QED  BY <1>4, <1>5, <1>6

\* Nothing, where nothing is counted ...
LEMMA ManoNada ==
    ASSUME NEW O, {"leer", "restar", "restar_retenida"} \cap O = {}, NEW s \in Seq(PasosCon(O)), NEW r \in Recursos
    PROVE  EnMano(s, r) = 0
  <1>1. \A op \in {"leer", "restar", "restar_retenida"} : op \in Pasos /\ op \notin O  BY DEF Pasos
  <1>2. \A op \in {"leer", "restar", "restar_retenida"} : Veces(s, Paso(op, r)) = 0  BY <1>1, VecesOtra
  <1>3. QED  BY <1>2 DEF EnMano

\* The steps that answer nothing ...
LEMMA ManoCallada == ASSUME NEW s, Callado(s), NEW r \in Recursos PROVE EnMano(s, r) = 0
  <1>1. s \in Seq(PasosCon(OpsCalladas))  BY DEF Callado, Callados, PasosCon
  <1>2. {"leer", "restar", "restar_retenida"} \cap OpsCalladas = {}  BY DEF OpsCalladas
  <1>3. QED  BY <1>1, <1>2, ManoNada

\* ... and those of a request that fails have nothing in their hands.
LEMMA ManoFalla == ASSUME NEW s, AtiendeFalla(s), NEW r \in Recursos PROVE EnMano(s, r) = 0
  <1>1. PICK O : O = {"fallar", "liberar_cpu", "finalizar"}  OBVIOUS
  <1>2. PICK A : A = PasosCon(O)  OBVIOUS
  <1>3. PICK a \in A, b \in A, c \in A :
           a = Paso("fallar", Nadie) /\ b = Paso("liberar_cpu", Nadie) /\ c = Paso("finalizar", Nadie)
    BY <1>1, <1>2, PasoTipo DEF Pasos, PasosCon
  <1>4. <<a, b, c>> \in Seq(A) /\ <<a, c, b>> \in Seq(A)  OBVIOUS
  <1>5. s \in Seq(PasosCon(O))  BY <1>2, <1>3, <1>4 DEF AtiendeFalla
  <1>6. {"leer", "restar", "restar_retenida"} \cap O = {}  BY <1>1
  <1>7. QED  BY <1>5, <1>6, ManoNada

\* ... nor before the counter is looked at ...
LEMMA ManoWait ==
    ASSUME NEW q \in Recursos, NEW r \in Recursos
    PROVE  /\ EnMano(<<Paso("restar", q), Paso("leer", q)>>, r) = 0
           /\ EnMano(<<Paso("leer", q)>>, r) = IF q = r THEN 1 ELSE 0
  <1>1. PICK a \in UnPaso, b \in UnPaso, x \in UnPaso, y \in UnPaso, z \in UnPaso, w \in UnPaso :
           /\ a = Paso("restar", q) /\ b = Paso("leer", q) /\ x = Paso("leer", r) /\ y = Paso("restar", r)
           /\ z = Paso("restar_retenida", r) /\ w = Paso("sumar", r)
    BY PasoTipo DEF Pasos
  <1>2. a # x /\ (b = x <=> q = r) /\ (a = y <=> q = r) /\ b # y /\ a # z /\ b # z  BY <1>1 DEF Paso
  <1>3. \A e : Veces(<<a, b>>, e) = (IF a = e THEN 1 ELSE 0) + (IF b = e THEN 1 ELSE 0)  BY VecesPar
  <1>4. \A e : Veces(<<b>>, e) = IF b = e THEN 1 ELSE 0  BY VecesSola
  <1>5. EnMano(<<a, b>>, r) = 0
    <2>1. /\ Veces(<<a, b>>, x) = IF q = r THEN 1 ELSE 0
          /\ Veces(<<a, b>>, y) = IF q = r THEN 1 ELSE 0
          /\ Veces(<<a, b>>, z) = 0
      BY <1>2, <1>3
    <2>2. QED  BY <1>1, <2>1 DEF EnMano
  <1>6. EnMano(<<b>>, r) = IF q = r THEN 1 ELSE 0
    <2>1. Veces(<<b>>, x) = (IF q = r THEN 1 ELSE 0) /\ Veces(<<b>>, y) = 0 /\ Veces(<<b>>, z) = 0
      BY <1>2, <1>4
    <2>2. QED  BY <1>1, <2>1 DEF EnMano
  <1>7. QED  BY <1>1, <1>5, <1>6

\* ... and SIGNAL has counted one that is still noted down, once it has counted it.
LEMMA ManoSignal ==
    ASSUME NEW q \in Recursos, NEW r \in Recursos, NEW s, AtiendeSignal(s, q)
    PROVE  EnMano(s, r) = IF q = r /\ Head(s).op # "sumar" THEN -1 ELSE 0
  <1>1. PICK v \in Seq(UnPaso), e \in UnPaso :
           /\ v = Retenida(q) /\ v # <<>> /\ Head(v).op \notin OpsSuma /\ e = Paso("restar_retenida", q) /\ v = <<e>>
    <2>1. Paso("restar_retenida", q) \in UnPaso  BY PasoTipo DEF Pasos
    <2>2. /\ Retenida(q) \in Seq(UnPaso) /\ Retenida(q) # <<>> /\ Head(Retenida(q)).op \notin OpsSuma
      BY RetenidaTipo
    <2>3. Retenida(q) = <<Paso("restar_retenida", q)>>  BY DEF Retenida
    <2>4. QED  BY <2>1, <2>2, <2>3
  <1>2. Sumando(s, v, q)  BY <1>1 DEF AtiendeSignal
  <1>3. PICK x, y, z, w :
           /\ x = Paso("leer", r) /\ y = Paso("restar", r) /\ z = Paso("restar_retenida", r) /\ w = Paso("sumar", r)
    OBVIOUS
  <1>4. e # x /\ e # y /\ (e = z <=> q = r) /\ e # w  BY <1>1, <1>3 DEF Paso
  <1>5. \A i : Veces(<<e>>, i) = IF e = i THEN 1 ELSE 0  BY VecesSola
  <1>6. Veces(v, x) = 0 /\ Veces(v, y) = 0 /\ Veces(v, z) = (IF q = r THEN 1 ELSE 0) /\ Veces(v, w) = 0
    BY <1>1, <1>4, <1>5
  <1>7. \A op \in {"leer", "restar", "restar_retenida"} : Veces(s, Paso(op, r)) = Veces(v, Paso(op, r))
    <2>1. SUFFICES ASSUME NEW op \in {"leer", "restar", "restar_retenida"}
                   PROVE  Veces(s, Paso(op, r)) = Veces(v, Paso(op, r))
      OBVIOUS
    <2>2. op \in Pasos /\ op \notin OpsSuma  BY DEF Pasos, OpsSuma
    <2>3. v \in Seq(UnPaso) /\ Sumando(s, v, q)  BY <1>1, <1>2
    <2>4. QED  BY <2>2, <2>3, VecesSumando
  <1>8. Veces(s, w) = Veces(v, w) + (IF Head(s).op = "sumar" /\ r = q THEN 1 ELSE 0)
    <2>1. /\ Head(s).op = "sumar" /\ r = q => Veces(s, Paso("sumar", r)) = Veces(v, Paso("sumar", r)) + 1
          /\ Head(s).op # "sumar" \/ r # q => Veces(s, Paso("sumar", r)) = Veces(v, Paso("sumar", r))
      BY <1>1, <1>2, VecesSumandoSumar
    <2>2. QED  BY <1>3, <1>6, <2>1
  <1>9. /\ Veces(s, x) = 0 /\ Veces(s, y) = 0 /\ Veces(s, z) = IF q = r THEN 1 ELSE 0
    BY <1>3, <1>6, <1>7
  <1>10. Veces(s, w) = IF Head(s).op = "sumar" /\ r = q THEN 1 ELSE 0  BY <1>6, <1>8
  <1>11. QED  BY <1>3, <1>9, <1>10 DEF EnMano

-----------------------------------------------------------------------------
(* The sum *)

Balance(r) == instancias[r] + PorDevolver(Eliminador.pasos, r) + EnMano(Despachador.pasos, r)
                 + Total(asignadas, r, Retenedores(r)) = Instancias[r]

\* The sum over some processes is a natural.
LEMMA TotalTipo ==
    ASSUME NEW a \in [Pids -> TAsignadas], NEW R \in SUBSET Pids, NEW r \in Recursos
    PROVE  IsFiniteSet(R) /\ (\A p \in Pids : Anotadas(a[p], r) \in Nat) /\ Total(a, r, R) \in Nat
  <1>1. IsFiniteSet(R)  BY ConstantesOK, FS_Subset
  <1>2. \A p \in Pids : Anotadas(a[p], r) \in Nat
    <2>1. Vuelta \in Nat /\ \A n \in 0 .. Vuelta - 1 : n \in Nat  BY ConstantesOK
    <2>2. QED  BY <2>1, AnotadasTipo
  <1>3. Total(a, r, R) \in Nat
    <2>1. \A p \in R : Anotadas(a[p], r) \in Nat  BY <1>2
    <2>2. QED  BY <1>1, <2>1, TotalSin
  <1>4. QED  BY <1>1, <1>2, <1>3

\* What one process no longer has, or has now.
LEMMA TotalFuera ==
    ASSUME NEW a \in [Pids -> TAsignadas], NEW R \in SUBSET Pids, NEW r \in Recursos, NEW x \in R
    PROVE  Total(a, r, R) = Anotadas(a[x], r) + Total(a, r, R \ {x})
  <1>1. IsFiniteSet(R) /\ \A p \in R : Anotadas(a[p], r) \in Nat  BY TotalTipo
  <1>2. QED  BY <1>1, TotalSin

\* The sum moves as the entry of one process does.
LEMMA TotalMueve ==
    ASSUME NEW a \in [Pids -> TAsignadas], NEW b \in [Pids -> TAsignadas], NEW R \in SUBSET Pids,
           NEW r \in Recursos, NEW x \in R, \A p \in Pids \ {x} : b[p] = a[p], NEW d \in Int,
           Anotadas(b[x], r) = Anotadas(a[x], r) + d
    PROVE  Total(b, r, R) = Total(a, r, R) + d
  <1>1. PICK Q \in SUBSET Pids : Q = R \ {x} /\ x \notin Q
    <2>1. R \ {x} \in SUBSET Pids /\ x \notin R \ {x}  OBVIOUS
    <2>2. QED  BY <2>1
  <1>2. Total(a, r, R) = Anotadas(a[x], r) + Total(a, r, Q)  BY <1>1, TotalFuera
  <1>3. Total(b, r, R) = Anotadas(b[x], r) + Total(b, r, Q)  BY <1>1, TotalFuera
  <1>4. Total(a, r, Q) = Total(b, r, Q)
    <2>1. IsFiniteSet(Q)  BY TotalTipo
    <2>2. \A p \in Q : Anotadas(a[p], r) = Anotadas(b[p], r)  BY <1>1
    <2>3. QED  BY <2>1, <2>2, TotalIgual
  <1>5. Total(a, r, Q) \in Nat /\ Anotadas(a[x], r) \in Nat  BY TotalTipo
  <1>6. QED  BY <1>2, <1>3, <1>4, <1>5

\* CuentaInstancias is that balance.
LEMMA CuentaEs == InvTipos => (CuentaInstancias <=> \A r \in Recursos : Balance(r))
  <1> SUFFICES ASSUME InvTipos PROVE CuentaInstancias <=> \A r \in Recursos : Balance(r)  OBVIOUS
  <1>1. ASSUME NEW r \in Recursos
        PROVE  (instancias[r] + Sueltas(r) + Total(asignadas, r, Retenedores(r)) = Instancias[r]) <=> Balance(r)
    <2>1. instancias[r] \in Int  BY DEF InvTipos, DatosOK
    <2>2. Eliminador.pasos \in Seq(UnPaso) /\ Despachador.pasos \in Seq(UnPaso)
      BY DEF InvTipos, THilo, Hilos, Eliminador, Despachador
    <2>3. PorDevolver(Eliminador.pasos, r) \in Nat /\ EnMano(Despachador.pasos, r) \in Int  BY <2>2, ManoTipo
    <2>4. Total(asignadas, r, Retenedores(r)) \in Nat
      <3>1. Retenedores(r) \in SUBSET Pids  BY DEF Retenedores
      <3>2. QED  BY <3>1, TotalTipo DEF InvTipos
    <2>5. Sueltas(r) = PorDevolver(Eliminador.pasos, r) + EnMano(Despachador.pasos, r)  BY SueltasEs
    <2>6. QED  BY <2>1, <2>3, <2>4, <2>5 DEF Balance
  <1>2. QED  BY <1>1 DEF CuentaInstancias

\* The terms of the sum are numbers.
LEMMA BalanceTipo ==
    InvTipos => \A r \in Recursos :
       /\ instancias[r] \in Int /\ PorDevolver(Eliminador.pasos, r) \in Nat
       /\ EnMano(Despachador.pasos, r) \in Int /\ Total(asignadas, r, Retenedores(r)) \in Nat
       /\ Retenedores(r) \in SUBSET Pids /\ \A p \in Pids : Anotadas(asignadas[p], r) \in Nat
  <1> SUFFICES ASSUME InvTipos, NEW r \in Recursos
               PROVE  /\ instancias[r] \in Int /\ PorDevolver(Eliminador.pasos, r) \in Nat
                      /\ EnMano(Despachador.pasos, r) \in Int /\ Total(asignadas, r, Retenedores(r)) \in Nat
                      /\ Retenedores(r) \in SUBSET Pids /\ \A p \in Pids : Anotadas(asignadas[p], r) \in Nat
    OBVIOUS
  <1>1. instancias[r] \in Int  BY DEF InvTipos, DatosOK
  <1>2. Eliminador.pasos \in Seq(UnPaso) /\ Despachador.pasos \in Seq(UnPaso)
    BY DEF InvTipos, THilo, Hilos, Eliminador, Despachador
  <1>3. PorDevolver(Eliminador.pasos, r) \in Nat /\ EnMano(Despachador.pasos, r) \in Int  BY <1>2, ManoTipo
  <1>4. Retenedores(r) \in SUBSET Pids  BY DEF Retenedores
  <1>5. Total(asignadas, r, Retenedores(r)) \in Nat /\ \A p \in Pids : Anotadas(asignadas[p], r) \in Nat
    BY <1>4, TotalTipo DEF InvTipos
  <1>6. QED  BY <1>1, <1>3, <1>4, <1>5

\* A step of recibir_dispatch leaves alone what eliminacion_de_procesos has.
LEMMA BalanceDispatch ==
    ASSUME InvTipos, InvTipos', NEW r \in Recursos, Balance(r), UNCHANGED eliminados, UNCHANGED Eliminador,
           instancias'[r] + EnMano(Despachador'.pasos, r) + Total(asignadas', r, Retenedores(r))
              = instancias[r] + EnMano(Despachador.pasos, r) + Total(asignadas, r, Retenedores(r))
    PROVE  Balance(r)'
  <1>1. Retenedores(r)' = Retenedores(r)  BY DEF Retenedores, Faltan, Eliminador
  <1>2. /\ instancias[r] \in Int /\ PorDevolver(Eliminador.pasos, r) \in Nat
        /\ EnMano(Despachador.pasos, r) \in Int /\ Total(asignadas, r, Retenedores(r)) \in Nat
        /\ Retenedores(r) \in SUBSET Pids
    BY BalanceTipo
  <1>3. PICK i \in Int, k \in Nat, m \in Int, t \in Nat :
           /\ i = instancias[r] /\ k = PorDevolver(Eliminador.pasos, r)
           /\ m = EnMano(Despachador.pasos, r) /\ t = Total(asignadas, r, Retenedores(r))
    BY <1>2
  <1>4. instancias'[r] \in Int /\ EnMano(Despachador'.pasos, r) \in Int
    <2>1. Despachador'.pasos \in Seq(UnPaso)  BY DEF InvTipos, THilo, Hilos, Despachador
    <2>2. QED  BY <2>1, ManoTipo DEF InvTipos, DatosOK
  <1>5. Total(asignadas', r, Retenedores(r)) \in Nat  BY <1>2, TotalTipo DEF InvTipos
  <1>6. PICK j \in Int, n \in Int, u \in Nat :
           /\ j = instancias'[r] /\ n = EnMano(Despachador'.pasos, r) /\ u = Total(asignadas', r, Retenedores(r))
    BY <1>4, <1>5
  <1>7. i + k + m + t = Instancias[r]  BY <1>3 DEF Balance
  <1>8. j + n + u = i + m + t  BY <1>3, <1>6
  <1>9. j + k + n + u = Instancias[r]  BY <1>7, <1>8
  <1>10. QED  BY <1>1, <1>3, <1>6, <1>9 DEF Balance

\* ... and where it counts nothing, neither it nor the processes do.
LEMMA BalanceMarco ==
    ASSUME NEW r \in Recursos, Balance(r), UNCHANGED <<instancias, asignadas, eliminados>>, UNCHANGED Eliminador,
           EnMano(Despachador'.pasos, r) = EnMano(Despachador.pasos, r)
    PROVE  Balance(r)'
  <1>1. Retenedores(r)' = Retenedores(r)  BY DEF Retenedores, Faltan, Eliminador
  <1>2. QED  BY <1>1 DEF Balance

Balances == \A r \in Recursos : Balance(r)

\* A step that touches neither the counts nor the threads.
LEMMA BalanceQuieto ==
    ASSUME Balances, UNCHANGED <<instancias, asignadas, eliminados, hilo>> PROVE Balances'
  BY BalanceMarco DEF Balances, Eliminador, Despachador

\* A message that has been received has changed nothing yet.
LEMMA BalanceRecibir ==
    ASSUME InvTipos, Curso, Balances, UNCHANGED carga, Recibir PROVE Balances'
  <1>1. PICK m : m = Head(a_kernel)  OBVIOUS
  <1>2. /\ hilo'["dispatch"].pasos = PasosDe(m) /\ hilo'["eliminacion"] = hilo["eliminacion"]
        /\ m \in TSuelto \/ (FasePedido /\ m = Mensaje(cpu.pid, Pedida))
    BY <1>1, CursoRecibir
  <1>3. Despachador.pasos = <<>> /\ UNCHANGED <<instancias, asignadas, eliminados>>
    BY DEF Recibir, Despachador, contables
  <1>4. SUFFICES ASSUME NEW r \in Recursos PROVE Balance(r)'  BY DEF Balances
  <1>5. EnMano(<<>>, r) = 0
    <2>1. <<>> \in Seq(Callados)  OBVIOUS
    <2>2. QED  BY <2>1, ManoCallada DEF Callado
  <1>6. EnMano(PasosDe(m), r) = 0
    <2>1. CASE m \in TSuelto  BY <2>1, PasosDeSuelto, ManoCallada
    <2>2. CASE FasePedido /\ m = Mensaje(cpu.pid, Pedida)
      <3>1. PICK p \in Pids, i \in Instrucciones : p = cpu.pid /\ i = Pedida /\ i.op \in {"WAIT", "SIGNAL"}
        BY <2>2, PedidaTipo DEF FasePedido, Esperando
      <3>2. m = Mensaje(p, i)  BY <2>2, <3>1
      <3>3. CASE i.recurso \in Recursos /\ i.op = "WAIT"
        <4>1. PICK q \in Recursos : q = i.recurso  BY <3>3
        <4>2. PasosDe(m) = <<Paso("restar", q), Paso("leer", q)>>
          BY <3>2, <3>3, <4>1 DEF PasosDe, Mensaje
        <4>3. QED  BY <4>2, ManoWait
      <3>4. CASE i.recurso \in Recursos /\ i.op = "SIGNAL"
        <4>1. PICK q \in Recursos : q = i.recurso  BY <3>4
        <4>2. PasosDe(m) = PasosSumar(q) \o Retenida(q)
          BY <3>2, <3>4, <4>1 DEF PasosDe, Mensaje, Retenida
        <4>3. PICK v \in Seq(UnPaso) : v = Retenida(q)  BY RetenidaTipo
        <4>4. Sumando(PasosSumar(q) \o v, v, q) /\ Head(PasosSumar(q) \o v).op = "sumar"  BY SumandoDe
        <4>5. AtiendeSignal(PasosDe(m), q) /\ Head(PasosDe(m)).op = "sumar"
          BY <4>2, <4>3, <4>4 DEF AtiendeSignal
        <4>6. QED  BY <4>5, ManoSignal
      <3>5. CASE i.recurso \notin Recursos
        <4>1. Atiende(PasosDe(m), i)  BY <3>1, <3>2, PasosDeMensaje
        <4>2. AtiendeFalla(PasosDe(m))  BY <3>5, <4>1 DEF Atiende
        <4>3. QED  BY <4>2, ManoFalla
      <3>6. QED  BY <3>1, <3>3, <3>4, <3>5
    <2>3. QED  BY <1>2, <2>1, <2>2
  <1>7. EnMano(Despachador'.pasos, r) = EnMano(Despachador.pasos, r)
    BY <1>2, <1>3, <1>5, <1>6 DEF Despachador
  <1>8. UNCHANGED Eliminador  BY <1>2 DEF Eliminador
  <1>9. Balance(r)  BY DEF Balances
  <1>10. QED  BY <1>3, <1>7, <1>8, <1>9, BalanceMarco

\* The steps that count nothing.
LEMMA BalanceCalla ==
    ASSUME InvTipos, Curso, Balances, UNCHANGED carga,
           EncolarIO \/ Encolar \/ Bloquear \/ LiberarCpu \/ Finalizar \/ Desalojar
    PROVE  Balances'
  <1>1. PICK op \in OpsCalladas : Toca("dispatch", op) /\ Hecho("dispatch")
    BY DEF EncolarIO, Encolar, Bloquear, LiberarCpu, Finalizar, Desalojar, OpsCalladas
  <1>2. UNCHANGED <<instancias, asignadas, eliminados>>
    BY DEF EncolarIO, Encolar, Bloquear, LiberarCpu, Finalizar, Desalojar, contables
  <1>3. Despachador.pasos # <<>> /\ Head(Despachador.pasos).op \in OpsCalladas  BY <1>1 DEF Toca, Despachador
  <1>4. Callado(Despachador.pasos)  BY <1>3, CursoCallado
  <1>5. Callado(Tail(Despachador.pasos))  BY <1>3, <1>4, CalladoCasos
  <1>6. Despachador'.pasos = Tail(Despachador.pasos) /\ UNCHANGED Eliminador
    BY <1>1, <1>3, HechoTipo DEF Despachador, Eliminador, Hilos, InvTipos
  <1>7. SUFFICES ASSUME NEW r \in Recursos PROVE Balance(r)'  BY DEF Balances
  <1>8. EnMano(Despachador.pasos, r) = 0 /\ EnMano(Tail(Despachador.pasos), r) = 0
    BY <1>4, <1>5, ManoCallada
  <1>9. Balance(r)  BY DEF Balances
  <1>10. QED  BY <1>2, <1>6, <1>8, <1>9, BalanceMarco

\* restar_instancia_a_recurso takes an instance that is looked at next.
LEMMA BalanceRestar ==
    ASSUME InvTipos, InvTipos', Curso, Balances, UNCHANGED carga, Restar PROVE Balances'
  <1>1. PICK q \in Recursos : q = Recurso("dispatch") /\ AtiendeWait(Tail(hilo["dispatch"].pasos), q)
                              /\ AtiendeWait(hilo["dispatch"].pasos, q) /\ Head(hilo["dispatch"].pasos).op = "restar"
    <2>1. /\ FaseAtendido /\ Pedida.op = "WAIT" /\ Pedida.recurso \in Recursos
          /\ Recurso("dispatch") = Pedida.recurso /\ AtiendeWait(Tail(hilo["dispatch"].pasos), Pedida.recurso)
      BY CursoAtendido DEF Restar, OpsAtender
    <2>2. AtiendeWait(hilo["dispatch"].pasos, Pedida.recurso)
      <3>1. Pedida.recurso # Inexistente  BY <2>1, ConstantesOK
      <3>2. QED  BY <2>1, <3>1 DEF FaseAtendido, Atiende, Despachador
    <2>3. QED  BY <2>1, <2>2 DEF Restar, Toca
  <1>2. hilo["dispatch"].pasos = <<Paso("restar", q), Paso("leer", q)>>
        /\ Tail(hilo["dispatch"].pasos) = <<Paso("leer", q)>>
    <2>1. PICK a \in UnPaso, b \in UnPaso : a = Paso("restar", q) /\ b = Paso("leer", q) /\ b.op = "leer"
      BY PasoTipo DEF Pasos
    <2>2. Head(<<b>>) = b /\ Tail(<<a, b>>) = <<b>>  OBVIOUS
    <2>3. hilo["dispatch"].pasos # <<b>>  BY <1>1, <2>1, <2>2
    <2>4. QED  BY <1>1, <2>1, <2>2, <2>3 DEF AtiendeWait
  <1>3. /\ hilo'["dispatch"].pasos = Tail(hilo["dispatch"].pasos) /\ hilo'["eliminacion"] = hilo["eliminacion"]
    BY HechoTipo DEF Restar, Toca, Hilos, InvTipos
  <1>4. /\ instancias' = [instancias EXCEPT ![q] = instancias[q] - 1] /\ instancias \in [Recursos -> Int]
        /\ UNCHANGED <<asignadas, eliminados>>
    BY <1>1 DEF Restar, InvTipos, DatosOK
  <1>5. SUFFICES ASSUME NEW r \in Recursos PROVE Balance(r)'  BY DEF Balances
  <1>6. EnMano(Despachador.pasos, r) = 0 /\ EnMano(Despachador'.pasos, r) = IF q = r THEN 1 ELSE 0
    BY <1>2, <1>3, ManoWait DEF Despachador
  <1>7. instancias'[r] = instancias[r] - (IF q = r THEN 1 ELSE 0)  BY <1>4
  <1>8. Total(asignadas, r, Retenedores(r)) \in Nat /\ instancias[r] \in Int  BY BalanceTipo
  <1>9. instancias'[r] + EnMano(Despachador'.pasos, r) + Total(asignadas', r, Retenedores(r))
              = instancias[r] + EnMano(Despachador.pasos, r) + Total(asignadas, r, Retenedores(r))
    BY <1>4, <1>6, <1>7, <1>8
  <1>10. UNCHANGED Eliminador  BY <1>3 DEF Eliminador
  <1>11. Balance(r)  BY DEF Balances
  <1>12. QED  BY <1>4, <1>9, <1>10, <1>11, BalanceDispatch

\* A process that is using a resource has not ended: what it holds is counted.
LEMMA NoTerminado ==
    ASSUME InvTipos, Finados, Esperando, Pedida.recurso \in Recursos, NEW r \in Recursos
    PROVE  cpu.pid \in Retenedores(r)
  <1>1. PICK p \in Pids : p = cpu.pid /\ pc[p] - 1 \in 1 .. Len(Programa[p])  BY DEF Esperando
  <1>2. PICK n \in Nat : n = pc[p] - 1 /\ n \in 1 .. Len(Programa[p])
    <2>1. pc[p] \in Nat /\ Programa[p] \in Seq(Instrucciones)  BY ProgramaTipo DEF InvTipos, ViajesOK
    <2>2. Len(Programa[p]) \in Nat  BY <2>1
    <2>3. QED  BY <1>1, <2>1, <2>2
  <1>3. Programa[p][n].recurso \in Recursos  BY <1>1, <1>2 DEF Pedida
  <1>4. p \notin Terminados
    <2>1. SUFFICES ASSUME NEW k \in 1 .. n, Final(Programa[p][k]) PROVE FALSE
      BY <1>2 DEF Terminados
    <2>2. k # n  BY <1>3, <2>1, ConstantesOK DEF Final
    <2>3. Programa[p] \in Seq(Instrucciones)  BY ProgramaTipo
    <2>4. k \in 1 .. Len(Programa[p]) /\ k < n
      <3>1. Len(Programa[p]) \in Nat  BY <2>3
      <3>2. QED  BY <1>2, <2>2, <3>1
    <2>5. carga \in Cargas  BY DEF InvTipos, DatosOK
    <2>6. Programa[p][n].recurso \notin Recursos  BY <1>2, <2>1, <2>4, <2>5, CargasJustas DEF Programa
    <2>7. QED  BY <1>3, <2>6
  <1>5. p \notin eliminados /\ (hilo["eliminacion"].pasos # <<>> => hilo["eliminacion"].pid # p)
    BY <1>4 DEF Finados, FinElim, Eliminador
  <1>6. QED  BY <1>1, <1>5 DEF Retenedores

\* What a process has noted down goes from, or to, the hands of recibir_dispatch.
LEMMA BalanceAnota ==
    ASSUME InvTipos, InvTipos', NEW r \in Recursos, Balance(r), UNCHANGED <<instancias, eliminados>>,
           UNCHANGED Eliminador, NEW p \in Retenedores(r), \A o \in Pids \ {p} : asignadas'[o] = asignadas[o],
           NEW d \in Int, Anotadas(asignadas'[p], r) = Anotadas(asignadas[p], r) + d,
           EnMano(Despachador'.pasos, r) = EnMano(Despachador.pasos, r) - d
    PROVE  Balance(r)'
  <1>1. Retenedores(r) \in SUBSET Pids  BY DEF Retenedores
  <1>2. asignadas \in [Pids -> TAsignadas] /\ asignadas' \in [Pids -> TAsignadas]  BY DEF InvTipos
  <1>3. Total(asignadas', r, Retenedores(r)) = Total(asignadas, r, Retenedores(r)) + d
    BY <1>1, <1>2, TotalMueve
  <1>4. /\ instancias[r] \in Int /\ EnMano(Despachador.pasos, r) \in Int
        /\ Total(asignadas, r, Retenedores(r)) \in Nat
    BY BalanceTipo
  <1>5. instancias'[r] = instancias[r]  OBVIOUS
  <1>6. instancias'[r] + EnMano(Despachador'.pasos, r) + Total(asignadas', r, Retenedores(r))
           = instancias[r] + EnMano(Despachador.pasos, r) + Total(asignadas, r, Retenedores(r))
    <2>1. PICK i \in Int, m \in Int, t \in Nat : /\ i = instancias[r] /\ m = EnMano(Despachador.pasos, r)
                                                 /\ t = Total(asignadas, r, Retenedores(r))
      BY <1>4
    <2>2. i + (m - d) + (t + d) = i + m + t  OBVIOUS
    <2>3. QED  BY <1>3, <1>5, <2>1, <2>2
  <1>7. QED  BY <1>6, BalanceDispatch

\* retener_instancia_de_recurso notes down what has been taken.
LEMMA BalanceLeer ==
    ASSUME InvTipos, InvTipos', Curso, Finados, Anotado, Balances, UNCHANGED carga, Leer PROVE Balances'
  <1>1. /\ FaseAtendido /\ FaseContestado' /\ UNCHANGED <<carga, cpu, pc, instancias, eliminados>>
        /\ hilo'["eliminacion"] = hilo["eliminacion"]
    BY CursoLeer DEF Leer, cpuVars
  <1>2. PICK q \in Recursos, p \in Pids, i \in Instrucciones :
           /\ q = Recurso("dispatch") /\ i = Pedida /\ i.op = "WAIT" /\ i.recurso = q
           /\ p = cpu.pid /\ hilo["dispatch"].pid = p
           /\ Tail(hilo["dispatch"].pasos) = <<>>
    BY CursoAtendido DEF Leer, OpsAtender
  <1>3. asignadas \in [Pids -> TAsignadas]  BY DEF InvTipos
  <1>4. asignadas' = [asignadas EXCEPT ![p] = Retener(asignadas[p], q)]  BY <1>2 DEF Leer
  <1>5. Anotadas(asignadas[p], q) + 1 \in 0 .. Vuelta - 1
    <2>1. i = [op |-> "WAIT", recurso |-> q] /\ i # [op |-> "SIGNAL", recurso |-> q]
      BY <1>2 DEF Instrucciones
    <2>2. /\ Saldo(Programa[p], q, Hasta(p)') \in 0 .. Vuelta - 1
          /\ Saldo(Programa[p], q, Hasta(p)') = Anotadas(asignadas[p], q)
                + (IF Pedida = [op |-> "WAIT", recurso |-> q] THEN 1 ELSE 0)
                - (IF Pedida = [op |-> "SIGNAL", recurso |-> q] THEN 1 ELSE 0)
      BY <1>1, <1>2, AtendidaAnota
    <2>3. Anotadas(asignadas[p], q) \in Int
      <3>1. Vuelta \in Nat  BY ConstantesOK
      <3>2. QED  BY <1>3, <3>1, AnotadasTipo
    <2>4. QED  BY <1>2, <2>1, <2>2, <2>3
  <1>6. asignadas'[p] = Retener(asignadas[p], q) /\ \A o \in Pids \ {p} : asignadas'[o] = asignadas[o]
    BY <1>3, <1>4
  <1>7. SUFFICES ASSUME NEW r \in Recursos PROVE Balance(r)'  BY DEF Balances
  <1>8. Despachador.pasos = <<Paso("leer", q)>>
    <2>1. i.recurso # Inexistente  BY <1>2, ConstantesOK
    <2>2. AtiendeWait(Despachador.pasos, q)  BY <1>1, <1>2, <2>1 DEF FaseAtendido, Atiende
    <2>3. PICK a \in UnPaso, b \in UnPaso : a = Paso("restar", q) /\ b = Paso("leer", q)
      BY PasoTipo DEF Pasos
    <2>4. Tail(<<a, b>>) # <<>>  OBVIOUS
    <2>5. QED  BY <1>2, <2>2, <2>3, <2>4 DEF AtiendeWait, Despachador
  <1>9. PICK d \in Int : d = IF r = q THEN 1 ELSE 0  OBVIOUS
  <1>10. EnMano(Despachador.pasos, r) = d  BY <1>8, <1>9, ManoWait
  <1>11. EnMano(Despachador'.pasos, r) = 0
    <2>1. Callado(Despachador'.pasos)  BY <1>1 DEF FaseContestado
    <2>2. QED  BY <2>1, ManoCallada
  <1>12. EnMano(Despachador'.pasos, r) = EnMano(Despachador.pasos, r) - d  BY <1>10, <1>11
  <1>13. Anotadas(asignadas'[p], r) = Anotadas(asignadas[p], r) + d
    BY <1>3, <1>5, <1>6, <1>9, RetenerAnota
  <1>14. p \in Retenedores(r)  BY <1>1, <1>2, NoTerminado DEF FaseAtendido
  <1>15. Balance(r) /\ UNCHANGED Eliminador  BY <1>1 DEF Balances, Eliminador
  <1>16. QED  BY <1>1, <1>6, <1>12, <1>13, <1>14, <1>15, BalanceAnota

\* restar_instancia_retenida_a_proceso, the other way round.
LEMMA BalanceRestarRetenida ==
    ASSUME InvTipos, InvTipos', Curso, Finados, Anotado, Balances, UNCHANGED carga, RestarRetenida PROVE Balances'
  <1>1. /\ FaseAtendido /\ FaseContestado' /\ UNCHANGED <<carga, cpu, pc, instancias, eliminados>>
        /\ hilo'["eliminacion"] = hilo["eliminacion"]
    BY CursoContestada DEF RestarRetenida, cpuVars
  <1>2. PICK q \in Recursos, p \in Pids, i \in Instrucciones :
           /\ q = Recurso("dispatch") /\ i = Pedida /\ i.op = "SIGNAL" /\ i.recurso = q
           /\ p = cpu.pid /\ hilo["dispatch"].pid = p
           /\ AtiendeSignal(hilo["dispatch"].pasos, q)
    BY CursoAtendido DEF RestarRetenida, OpsAtender
  <1>3. asignadas \in [Pids -> TAsignadas]  BY DEF InvTipos
  <1>4. asignadas' = [asignadas EXCEPT ![p] = Descontar(asignadas[p], q)]  BY <1>2 DEF RestarRetenida
  <1>5. Anotadas(asignadas[p], q) - 1 \in 0 .. Vuelta - 1
    <2>1. i = [op |-> "SIGNAL", recurso |-> q] /\ i # [op |-> "WAIT", recurso |-> q]
      BY <1>2 DEF Instrucciones
    <2>2. /\ Saldo(Programa[p], q, Hasta(p)') \in 0 .. Vuelta - 1
          /\ Saldo(Programa[p], q, Hasta(p)') = Anotadas(asignadas[p], q)
                + (IF Pedida = [op |-> "WAIT", recurso |-> q] THEN 1 ELSE 0)
                - (IF Pedida = [op |-> "SIGNAL", recurso |-> q] THEN 1 ELSE 0)
      BY <1>1, <1>2, AtendidaAnota
    <2>3. Anotadas(asignadas[p], q) \in Int
      <3>1. Vuelta \in Nat  BY ConstantesOK
      <3>2. QED  BY <1>3, <3>1, AnotadasTipo
    <2>4. QED  BY <1>2, <2>1, <2>2, <2>3
  <1>6. asignadas'[p] = Descontar(asignadas[p], q) /\ \A o \in Pids \ {p} : asignadas'[o] = asignadas[o]
    BY <1>3, <1>4
  <1>7. SUFFICES ASSUME NEW r \in Recursos PROVE Balance(r)'  BY DEF Balances
  <1>8. AtiendeSignal(Despachador.pasos, q) /\ Head(Despachador.pasos).op # "sumar"
    BY <1>2 DEF RestarRetenida, Toca, Despachador
  <1>9. PICK d \in Int : d = IF r = q THEN -1 ELSE 0  OBVIOUS
  <1>10. EnMano(Despachador.pasos, r) = d  BY <1>8, <1>9, ManoSignal
  <1>11. EnMano(Despachador'.pasos, r) = 0
    <2>1. Callado(Despachador'.pasos)  BY <1>1 DEF FaseContestado
    <2>2. QED  BY <2>1, ManoCallada
  <1>12. EnMano(Despachador'.pasos, r) = EnMano(Despachador.pasos, r) - d  BY <1>10, <1>11
  <1>13. Anotadas(asignadas'[p], r) = Anotadas(asignadas[p], r) + d
    <2>1. Anotadas(asignadas'[p], r) = Anotadas(asignadas[p], r) - (IF r = q THEN 1 ELSE 0)
      BY <1>3, <1>5, <1>6, DescontarAnota
    <2>2. Anotadas(asignadas[p], r) \in Nat  BY BalanceTipo
    <2>3. QED  BY <1>9, <2>1, <2>2
  <1>14. p \in Retenedores(r)  BY <1>1, <1>2, NoTerminado DEF FaseAtendido
  <1>15. Balance(r) /\ UNCHANGED Eliminador  BY <1>1 DEF Balances, Eliminador
  <1>16. QED  BY <1>1, <1>6, <1>12, <1>13, <1>14, <1>15, BalanceAnota

\* A request that fails counts nothing.
LEMMA BalanceFallar ==
    ASSUME InvTipos, Curso, Balances, UNCHANGED carga, Fallar PROVE Balances'
  <1>1. /\ FaseAtendido /\ FaseContestado' /\ UNCHANGED <<instancias, asignadas, eliminados>>
        /\ hilo'["eliminacion"] = hilo["eliminacion"]
    BY CursoContestada DEF Fallar, contables
  <1>2. Pedida.recurso = Inexistente  BY CursoAtendido DEF Fallar, OpsAtender
  <1>3. AtiendeFalla(Despachador.pasos)  BY <1>1, <1>2, ConstantesOK DEF FaseAtendido, Atiende
  <1>4. Callado(Despachador'.pasos)  BY <1>1 DEF FaseContestado
  <1>5. SUFFICES ASSUME NEW r \in Recursos PROVE Balance(r)'  BY DEF Balances
  <1>6. EnMano(Despachador.pasos, r) = 0 /\ EnMano(Despachador'.pasos, r) = 0
    BY <1>3, <1>4, ManoFalla, ManoCallada
  <1>7. Balance(r) /\ UNCHANGED Eliminador  BY <1>1 DEF Balances, Eliminador
  <1>8. QED  BY <1>1, <1>6, <1>7, BalanceMarco

\* SIGNAL: an instance is counted, and is still noted down.
LEMMA BalanceSuma ==
    ASSUME InvTipos, InvTipos', Curso, Balances, UNCHANGED carga, SumarInstancia("dispatch") PROVE Balances'
  <1>1. PICK op \in OpsSuma : Toca("dispatch", op) /\ (op = "sumar" <=> Sumar("dispatch"))
    BY DEF SumarInstancia, Sumar, Mirar, Sacar, Buscar, Desbloquear, OpsSuma, Toca
  <1>2. PICK q \in Recursos : /\ FaseAtendido /\ Pedida.op = "SIGNAL" /\ Pedida.recurso = q
                              /\ Recurso("dispatch") = q /\ AtiendeSignal(Despachador.pasos, q)
    BY <1>1, CursoAtendido DEF OpsAtender, Despachador
  <1>3. PICK v \in Seq(UnPaso) : v = Retenida(q) /\ v # <<>> /\ Head(v).op \notin OpsSuma  BY RetenidaTipo
  <1>4. Sumando(hilo["dispatch"].pasos, v, q)  BY <1>2, <1>3 DEF AtiendeSignal, Despachador
  <1>5. /\ \A g \in Hilos : g # "dispatch" => hilo'[g] = hilo[g]
        /\ Sumando(hilo'["dispatch"].pasos, v, q) /\ Head(hilo'["dispatch"].pasos).op # "sumar"
    <2>1. hilo \in [Hilos -> THilo] /\ "dispatch" \in Hilos /\ TienePids(hilo["dispatch"])
          /\ cola_recurso \in [Recursos -> Seq(Pids)] /\ blocked \in Seq(Pids)
      BY DEF InvTipos, DispatchOK, DatosOK, Hilos
    <2>2. QED  BY <1>3, <1>4, <2>1, SumaHilo
  <1>6. AtiendeSignal(Despachador'.pasos, q) /\ Head(Despachador'.pasos).op # "sumar" /\ UNCHANGED Eliminador
    BY <1>3, <1>5 DEF AtiendeSignal, Despachador, Eliminador, Hilos
  <1>7. SUFFICES ASSUME NEW r \in Recursos PROVE Balance(r)'  BY DEF Balances
  <1>8. EnMano(Despachador'.pasos, r) = IF q = r THEN -1 ELSE 0  BY <1>6, ManoSignal
  <1>9. Balance(r)  BY DEF Balances
  <1>10. UNCHANGED <<asignadas, eliminados>>
    BY DEF SumarInstancia, Sumar, Mirar, Sacar, Buscar, Desbloquear, contables
  <1>11. CASE op = "sumar"
    <2>1. Sumar("dispatch")  BY <1>1, <1>11
    <2>2. EnMano(Despachador.pasos, r) = 0
      <3>1. Head(Despachador.pasos).op = "sumar"  BY <2>1 DEF Sumar, Toca, Despachador
      <3>2. QED  BY <1>2, <3>1, ManoSignal
    <2>3. instancias' = [instancias EXCEPT ![q] = instancias[q] + 1] /\ instancias \in [Recursos -> Int]
      BY <1>2, <2>1 DEF Sumar, InvTipos, DatosOK
    <2>4. instancias'[r] = instancias[r] + (IF q = r THEN 1 ELSE 0)  BY <2>3
    <2>5. Total(asignadas, r, Retenedores(r)) \in Nat /\ instancias[r] \in Int  BY BalanceTipo
    <2>6. instancias'[r] + EnMano(Despachador'.pasos, r) + Total(asignadas', r, Retenedores(r))
              = instancias[r] + EnMano(Despachador.pasos, r) + Total(asignadas, r, Retenedores(r))
      BY <1>8, <1>10, <2>2, <2>4, <2>5
    <2>7. QED  BY <1>6, <1>9, <1>10, <2>6, BalanceDispatch
  <1>12. CASE op # "sumar"
    <2>1. EnMano(Despachador.pasos, r) = IF q = r THEN -1 ELSE 0
      <3>1. Head(Despachador.pasos).op # "sumar"  BY <1>1, <1>12 DEF Toca, Despachador
      <3>2. QED  BY <1>2, <3>1, ManoSignal
    <2>2. UNCHANGED instancias
      BY <1>1, <1>12 DEF SumarInstancia, Mirar, Sacar, Buscar, Desbloquear, contables
    <2>3. QED  BY <1>6, <1>8, <1>9, <1>10, <2>1, <2>2, BalanceMarco
  <1>13. QED  BY <1>11, <1>12

-----------------------------------------------------------------------------
(* The release of what a process holds *)

\* Each resource is visited once.
LEMMA OrdenTodos ==
    ASSUME NEW S, IsFiniteSet(S), NEW orden \in SetToSeqs(S), NEW r
    PROVE  /\ orden \in Seq(S)
           /\ Veces(orden, r) = IF r \in S THEN 1 ELSE 0
  <1>1. PICK n \in Nat : n = Cardinality(S)  BY FS_CardinalityType
  <1>2. orden \in [1 .. n -> S] /\ \A i, j \in 1 .. n : i # j => orden[i] # orden[j]
    BY <1>1 DEF SetToSeqs
  <1>3. orden \in Seq(S) /\ Len(orden) = n  BY <1>2
  <1>4. PICK A : A = {k \in 1 .. n : orden[k] = r}  OBVIOUS
  <1>5. Veces(orden, r) = Cardinality(A)  BY <1>3, <1>4 DEF Veces
  <1>6. CASE r \in S
    <2>1. \E k \in 1 .. n : orden[k] = r
      <3>1. SUFFICES ASSUME \A k \in 1 .. n : orden[k] # r PROVE FALSE  OBVIOUS
      <3>2. PICK T : T = S \ {r}  OBVIOUS
      <3>3. IsFiniteSet(T) /\ Cardinality(T) = n - 1  BY <1>1, <1>6, <3>2, FS_RemoveElement
      <3>4. PICK N : N = 1 .. n  OBVIOUS
      <3>5. IsFiniteSet(N) /\ Cardinality(N) = n
        <4>1. IsFiniteSet(1 .. n) /\ Cardinality(1 .. n) = IF 1 > n THEN 0 ELSE n - 1 + 1  BY FS_Interval
        <4>2. QED  BY <3>4, <4>1
      <3>6. orden \in [N -> T]  BY <1>2, <3>1, <3>2, <3>4
      <3>7. Cardinality(T) < Cardinality(N)  BY <3>3, <3>5
      <3>8. \E x, y \in N : x # y /\ orden[x] = orden[y]  BY <3>3, <3>5, <3>6, <3>7, FS_PigeonHole
      <3>9. QED  BY <1>2, <3>4, <3>8
    <2>2. PICK k \in 1 .. n : orden[k] = r  BY <2>1
    <2>3. A = {k}  BY <1>2, <1>4, <2>2
    <2>4. Cardinality(A) = 1  BY <2>3, FS_Singleton
    <2>5. QED  BY <1>3, <1>5, <1>6, <2>4
  <1>7. CASE r \notin S
    <2>1. A = {}  BY <1>2, <1>4, <1>7
    <2>2. QED  BY <1>3, <1>5, <1>7, <2>1, FS_EmptySet
  <1>8. QED  BY <1>6, <1>7

\* What it has to do for a process whose entries are those of f.
LEMMA LiberarVeces ==
    ASSUME NEW f, DOMAIN f \subseteq Recursos, NEW orden \in SetToSeqs(DOMAIN f), NEW r \in Recursos
    PROVE  /\ Veces(PasosLiberar(orden), Paso("quitar", r)) = IF r \in DOMAIN f THEN 1 ELSE 0
           /\ PorDevolver(PasosLiberar(orden), r) = 0
  <1>1. PICK S : S = DOMAIN f /\ IsFiniteSet(S)  BY ConstantesOK, FS_Subset
  <1>2. orden \in Seq(S) /\ Veces(orden, r) = IF r \in S THEN 1 ELSE 0  BY <1>1, OrdenTodos
  <1>3. PICK n \in Nat : n = Len(orden)  BY <1>2
  <1>4. PICK p : p = [k \in 1 .. n |-> Paso("quitar", orden[k])]  OBVIOUS
  <1>5. \A k \in 1 .. n : orden[k] \in Recursos  BY <1>1, <1>2, <1>3
  <1>6. \A k \in 1 .. n : p[k] \in UnPaso /\ p[k].op = "quitar" /\ p[k].recurso = orden[k]
    BY <1>4, <1>5, PasoTipo DEF Pasos
  <1>7. p \in Seq(UnPaso) /\ Len(p) = n  BY <1>4, <1>6
  <1>8. PICK d \in UnPaso : d = Paso("destruir", Nadie) /\ d.op = "destruir"  BY PasoTipo DEF Pasos
  <1>9. PasosLiberar(orden) = Append(p, d)
    <2>1. PasosLiberar(orden) = p \o <<d>>  BY <1>3, <1>4, <1>8 DEF PasosLiberar
    <2>2. p \o <<d>> = Append(p, d)  BY <1>7
    <2>3. QED  BY <2>1, <2>2
  <1>10. ASSUME NEW x, x.op # "destruir" PROVE Veces(PasosLiberar(orden), x) = Veces(p, x)
    <2>1. Veces(Append(p, d), x) = Veces(p, x) + (IF d = x THEN 1 ELSE 0)  BY <1>7, VecesUltimo
    <2>2. d # x  BY <1>8, <1>10
    <2>3. Veces(p, x) \in Nat  BY <1>7, VecesTipo
    <2>4. QED  BY <1>9, <2>1, <2>2, <2>3
  <1>11. Veces(p, Paso("quitar", r)) = Veces(orden, r)
    <2>1. PICK x : x = Paso("quitar", r)  OBVIOUS
    <2>2. \A k \in 1 .. n : p[k] = x <=> orden[k] = r
      <3>1. x.recurso = r  BY <2>1 DEF Paso
      <3>2. QED  BY <1>4, <1>6, <2>1, <3>1 DEF Paso
    <2>3. {k \in 1 .. n : p[k] = x} = {k \in 1 .. n : orden[k] = r}  BY <2>2
    <2>4. QED  BY <1>3, <1>7, <2>1, <2>3 DEF Veces
  <1>12. ASSUME NEW x, x.op \notin {"quitar", "destruir"} PROVE Veces(PasosLiberar(orden), x) = 0
    <2>1. \A k \in 1 .. Len(p) : p[k] # x  BY <1>6, <1>7, <1>12
    <2>2. Veces(p, x) \in Nat /\ (Veces(p, x) > 0 <=> \E k \in 1 .. Len(p) : p[k] = x)  BY <1>7, VecesTipo
    <2>3. Veces(p, x) = 0  BY <2>1, <2>2
    <2>4. QED  BY <1>10, <1>12, <2>3
  <1>13. /\ Paso("quitar", r).op = "quitar" /\ Paso("devolver", r).op = "devolver"
         /\ Paso("sumar", r).op = "sumar"
    BY DEF Paso
  <1>14. Veces(PasosLiberar(orden), Paso("quitar", r)) = IF r \in DOMAIN f THEN 1 ELSE 0
    BY <1>1, <1>2, <1>10, <1>11, <1>13
  <1>15. PorDevolver(PasosLiberar(orden), r) = 0 + 0  BY <1>12, <1>13 DEF PorDevolver
  <1>16. QED  BY <1>14, <1>15

\* No resource is visited twice, nor a process that has been destroyed.
Visita == /\ \A r \in Recursos : Veces(Eliminador.pasos, Paso("quitar", r)) <= 1
          /\ Eliminador.pasos # <<>> => Eliminador.pid \notin eliminados

\* Visita is about eliminacion_de_procesos only.
LEMMA VisitaQuieta == ASSUME Visita, UNCHANGED eliminados, UNCHANGED Eliminador PROVE Visita'
  BY DEF Visita

\* eliminacion_de_procesos takes a process out of EXIT.
LEMMA EmpiezaLiberar ==
    ASSUME InvTipos, EliminarProceso, vivo'
    PROVE  \E p \in Pids : /\ p \notin eliminados /\ UNCHANGED <<instancias, asignadas, eliminados>>
                           /\ Eliminador.pasos = <<>> /\ Eliminador'.pid = p /\ UNCHANGED Despachador
                           /\ \A r \in Recursos :
                                 /\ Veces(Eliminador'.pasos, Paso("quitar", r))
                                       = IF r \in DOMAIN asignadas[p] THEN 1 ELSE 0
                                 /\ PorDevolver(Eliminador'.pasos, r) = 0
                           /\ Eliminador'.pasos # <<>>
  <1> DEFINE x == hilo["eliminacion"]
             p == Head(exit)
  <1>1. asignadas \in [Pids -> TAsignadas] /\ hilo \in [Hilos -> THilo] /\ x \in THilo /\ x.pasos = <<>>
    BY DEF InvTipos, Hilos, EliminarProceso
  <1>2. UNCHANGED <<instancias, asignadas, eliminados>>  BY DEF EliminarProceso, contables
  <1>3. p \in Pids
    <2>1. exit \in Seq(Pids) /\ exit # <<>>  BY DEF EliminarProceso, InvTipos, DatosOK
    <2>2. QED  BY <2>1
  <1>4. p \notin eliminados  BY DEF EliminarProceso
  <1>5. PICK orden \in SetToSeqs(DOMAIN asignadas[p]) :
           hilo' = [hilo EXCEPT !["eliminacion"].pasos = PasosLiberar(orden), !["eliminacion"].pid = p]
    BY <1>4 DEF EliminarProceso
  <1>6. PICK f : f = asignadas[p] /\ DOMAIN f \subseteq Recursos  BY <1>1, <1>3 DEF TAsignadas
  <1>7. orden \in SetToSeqs(DOMAIN f)  BY <1>6
  <1>8. PICK s : s = PasosLiberar(orden) /\ s # <<>>
    <2>1. Cierre(PasosLiberar(orden), f)  BY <1>6, <1>7, CierreNuevo
    <2>2. QED  BY <2>1 DEF Cierre
  <1>9. PICK y : y = [x EXCEPT !.pasos = s, !.pid = p]  OBVIOUS
  <1>10. y.pasos = s /\ y.pid = p  BY <1>1, <1>9 DEF THilo
  <1>11. hilo' = [hilo EXCEPT !["eliminacion"] = y]  BY <1>5, <1>8, <1>9
  <1>12. Eliminador' = y /\ UNCHANGED Despachador  BY <1>1, <1>11 DEF Eliminador, Despachador, Hilos
  <1>13. \A r \in Recursos : /\ Veces(s, Paso("quitar", r)) = IF r \in DOMAIN f THEN 1 ELSE 0
                             /\ PorDevolver(s, r) = 0
    BY <1>6, <1>7, <1>8, LiberarVeces
  <1>14. QED
    <2>1. Eliminador'.pasos = s /\ Eliminador'.pid = p  BY <1>10, <1>12
    <2>2. Eliminador.pasos = <<>>  BY <1>1 DEF Eliminador
    <2>3. QED  BY <1>2, <1>3, <1>4, <1>6, <1>8, <1>12, <1>13, <2>1, <2>2

\* A step of eliminacion_de_procesos leaves alone what recibir_dispatch has.
LEMMA BalanceElim ==
    ASSUME InvTipos, InvTipos', NEW r \in Recursos, Balance(r), UNCHANGED asignadas, UNCHANGED Despachador,
           instancias'[r] + PorDevolver(Eliminador'.pasos, r) + Total(asignadas, r, Retenedores(r)')
              = instancias[r] + PorDevolver(Eliminador.pasos, r) + Total(asignadas, r, Retenedores(r))
    PROVE  Balance(r)'
  <1>1. PICK i \in Int, k \in Nat, m \in Int, t \in Nat :
           /\ i = instancias[r] /\ k = PorDevolver(Eliminador.pasos, r)
           /\ m = EnMano(Despachador.pasos, r) /\ t = Total(asignadas, r, Retenedores(r))
    BY BalanceTipo
  <1>2. instancias'[r] \in Int /\ PorDevolver(Eliminador'.pasos, r) \in Nat
    <2>1. Eliminador'.pasos \in Seq(UnPaso)  BY DEF InvTipos, THilo, Hilos, Eliminador
    <2>2. QED  BY <2>1, ManoTipo DEF InvTipos, DatosOK
  <1>3. Total(asignadas, r, Retenedores(r)') \in Nat
    <2>1. Retenedores(r)' \in SUBSET Pids  BY DEF Retenedores
    <2>2. asignadas \in [Pids -> TAsignadas]  BY DEF InvTipos
    <2>3. QED  BY <2>1, <2>2, TotalTipo
  <1>4. PICK j \in Int, l \in Nat, u \in Nat :
           /\ j = instancias'[r] /\ l = PorDevolver(Eliminador'.pasos, r)
           /\ u = Total(asignadas, r, Retenedores(r)')
    BY <1>2, <1>3
  <1>5. i + k + m + t = Instancias[r]  BY <1>1 DEF Balance
  <1>6. j + l + u = i + k + t  BY <1>1, <1>4
  <1>7. j + l + m + u = Instancias[r]  BY <1>5, <1>6
  <1>8. Balance(r)' <=> instancias'[r] + PorDevolver(Eliminador'.pasos, r) + EnMano(Despachador'.pasos, r)
                           + Total(asignadas', r, Retenedores(r)') = Instancias[r]
    BY DEF Balance
  <1>9. EnMano(Despachador'.pasos, r) = m /\ Total(asignadas', r, Retenedores(r)') = u  BY <1>1, <1>4
  <1>10. QED  BY <1>4, <1>7, <1>8, <1>9

\* Whose release has not come to r.
LEMMA RetenedoresEs ==
    ASSUME NEW r \in Recursos
    PROVE  Retenedores(r) = {p \in Pids : /\ p \notin eliminados
                                          /\ Eliminador.pasos # <<>> /\ Eliminador.pid = p
                                                => Veces(Eliminador.pasos, Paso("quitar", r)) > 0}
  BY DEF Retenedores, Faltan, Eliminador

\* ... and after a step.
LEMMA RetenedoresLuego ==
    ASSUME NEW r \in Recursos
    PROVE  Retenedores(r)' = {p \in Pids : /\ p \notin eliminados'
                                           /\ Eliminador'.pasos # <<>> /\ Eliminador'.pid = p
                                                => Veces(Eliminador'.pasos, Paso("quitar", r)) > 0}
  BY DEF Retenedores, Faltan, Eliminador

\* The process that is taken out of EXIT still has what it has noted down.
LEMMA BalanceEliminar ==
    ASSUME InvTipos, InvTipos', Balances, Visita, EliminarProceso, vivo' PROVE Balances' /\ Visita'
  <1>1. PICK p \in Pids :
           /\ p \notin eliminados /\ UNCHANGED <<instancias, asignadas, eliminados>>
           /\ Eliminador.pasos = <<>> /\ Eliminador'.pid = p /\ UNCHANGED Despachador
           /\ \A r \in Recursos :
                 /\ Veces(Eliminador'.pasos, Paso("quitar", r))
                       = IF r \in DOMAIN asignadas[p] THEN 1 ELSE 0
                 /\ PorDevolver(Eliminador'.pasos, r) = 0
           /\ Eliminador'.pasos # <<>>
    BY EmpiezaLiberar
  <1>2. ASSUME NEW r \in Recursos PROVE Balance(r)'
    <2>1. Retenedores(r) = {q \in Pids : q \notin eliminados}  BY <1>1, RetenedoresEs
    <2>2. PICK R \in SUBSET Pids : R = Retenedores(r) /\ p \in R  BY <1>1, <2>1
    <2>3. asignadas \in [Pids -> TAsignadas]  BY DEF InvTipos
    <2>4. Total(asignadas, r, Retenedores(r)') = Total(asignadas, r, R)
      <3>1. CASE r \in DOMAIN asignadas[p]
        <4>1. Veces(Eliminador'.pasos, Paso("quitar", r)) > 0  BY <1>1, <3>1
        <4>2. Retenedores(r)' = R  BY <1>1, <2>1, <2>2, <4>1, RetenedoresLuego
        <4>3. QED  BY <4>2
      <3>2. CASE r \notin DOMAIN asignadas[p]
        <4>1. ~(Veces(Eliminador'.pasos, Paso("quitar", r)) > 0)  BY <1>1, <3>2
        <4>2. Retenedores(r)' = R \ {p}  BY <1>1, <2>1, <2>2, <4>1, RetenedoresLuego
        <4>3. Total(asignadas, r, R) = Anotadas(asignadas[p], r) + Total(asignadas, r, R \ {p})
          BY <2>2, <2>3, TotalFuera
        <4>4. Anotadas(asignadas[p], r) = 0  BY <3>2 DEF Anotadas
        <4>5. PICK Q \in SUBSET Pids : Q = R \ {p}  OBVIOUS
        <4>6. Total(asignadas, r, Q) \in Nat  BY <2>3, TotalTipo
        <4>7. QED  BY <4>2, <4>3, <4>4, <4>5, <4>6
      <3>3. QED  BY <3>1, <3>2
    <2>5. PorDevolver(Eliminador.pasos, r) = 0
      <3>1. Veces(<<>>, Paso("devolver", r)) = 0  BY VecesNada
      <3>2. Veces(<<>>, Paso("sumar", r)) = 0  BY VecesNada
      <3>3. QED  BY <1>1, <3>1, <3>2 DEF PorDevolver
    <2>6. PorDevolver(Eliminador'.pasos, r) = 0  BY <1>1
    <2>7. instancias'[r] + PorDevolver(Eliminador'.pasos, r) + Total(asignadas, r, Retenedores(r)')
              = instancias[r] + PorDevolver(Eliminador.pasos, r) + Total(asignadas, r, Retenedores(r))
      BY <1>1, <2>2, <2>4, <2>5, <2>6
    <2>8. Balance(r)  BY DEF Balances
    <2>9. QED  BY <1>1, <2>7, <2>8, BalanceElim
  <1>3. Visita'
    <2>1. \A r \in Recursos : Veces(Eliminador'.pasos, Paso("quitar", r)) <= 1  BY <1>1
    <2>2. Eliminador'.pid \notin eliminados'  BY <1>1
    <2>3. QED  BY <2>1, <2>2 DEF Visita
  <1>4. QED  BY <1>2, <1>3 DEF Balances

\* It visits a resource: what the process holds of it, it has to give back.
LEMMA BalanceQuitar ==
    ASSUME InvTipos, InvTipos', Balances, Visita, Quitar PROVE Balances' /\ Visita'
  <1>1. PICK s \in Seq(UnPaso) : s = Eliminador.pasos /\ s # <<>> /\ Head(s).op = "quitar"
    BY DEF Quitar, Toca, InvTipos, THilo, Hilos, Eliminador
  <1>2. /\ asignadas \in [Pids -> TAsignadas] /\ hilo \in [Hilos -> THilo] /\ ElimOK(Eliminador, asignadas)
    BY DEF InvTipos, Eliminador
  <1>3. PICK p \in Pids : p = Eliminador.pid  BY <1>1, <1>2 DEF ElimOK, TienePids
  <1>4. Cierre(s, asignadas[p])  BY <1>1, <1>2, <1>3, ElimSigue DEF OpsSuma
  <1>5. Head(s).recurso \in DOMAIN asignadas[p]  BY <1>1, <1>4, CierreCasos
  <1>6. PICK q \in Recursos, n \in Nat : /\ q = Recurso("eliminacion") /\ n = asignadas[p][q]
                                         /\ Head(s).recurso = q /\ n = Anotadas(asignadas[p], q)
    <2>1. asignadas[p] \in TAsignadas  BY <1>2
    <2>2. DOMAIN asignadas[p] \subseteq Recursos /\ \A o \in DOMAIN asignadas[p] : asignadas[p][o] \in Nat
      BY <2>1, ConstantesOK DEF TAsignadas
    <2>3. QED  BY <1>1, <1>5, <2>2 DEF Recurso, Eliminador, Anotadas
  <1>7. PICK v \in Seq(UnPaso) : v = Tail(s)
    <2>1. Tail(s) \in Seq(UnPaso)  BY <1>1
    <2>2. QED  BY <2>1
  <1>8. PICK h \in UnPaso, e \in UnPaso : /\ h = Head(s) /\ h = Paso("quitar", q) /\ e = Paso("devolver", q)
                                          /\ e.op = "devolver" /\ e.recurso = q
    <2>1. Head(s) \in UnPaso  BY <1>1
    <2>2. Head(s) = Paso("quitar", q)  BY <1>1, <1>6, <2>1 DEF UnPaso, Paso
    <2>3. QED  BY <2>1, <2>2, PasoTipo DEF Pasos
  <1>9. PICK w \in Seq(UnPaso) : w = Repetir(n, e) /\ \A x : Veces(w, x) = IF e = x THEN n ELSE 0
    BY VecesRepetir
  <1>10. Seguir("eliminacion", w)  BY <1>3, <1>6, <1>8, <1>9 DEF Quitar, Eliminador
  <1>11. /\ Eliminador'.pasos = w \o v /\ Eliminador'.pid = p /\ UNCHANGED Despachador
    <2>1. w \o Tail(hilo["eliminacion"].pasos) \in Seq(UnPaso)  BY <1>1, <1>7, <1>9 DEF Eliminador
    <2>2. "eliminacion" \in Hilos /\ "dispatch" \in Hilos  BY DEF Hilos
    <2>3. QED  BY <1>1, <1>2, <1>3, <1>7, <1>10, <2>1, <2>2, SeguirTipo DEF Eliminador, Despachador
  <1>12. \A x : /\ Veces(s, x) = Veces(v, x) + (IF h = x THEN 1 ELSE 0)
                /\ Veces(w \o v, x) = Veces(w, x) + Veces(v, x) /\ Veces(v, x) \in Nat
    <2>1. \A x : Veces(s, x) = Veces(v, x) + (IF h = x THEN 1 ELSE 0)  BY <1>1, <1>7, <1>8, VecesCola
    <2>2. \A x : Veces(w \o v, x) = Veces(w, x) + Veces(v, x)  BY VecesJunto
    <2>3. \A x : Veces(v, x) \in Nat  BY VecesTipo
    <2>4. QED  BY <2>1, <2>2, <2>3
  <1>13. UNCHANGED <<instancias, asignadas, eliminados>>  BY DEF Quitar
  <1>14. ASSUME NEW r \in Recursos
         PROVE  /\ Veces(Eliminador'.pasos, Paso("quitar", r)) = Veces(s, Paso("quitar", r)) - (IF r = q THEN 1 ELSE 0)
                /\ PorDevolver(Eliminador'.pasos, r) = PorDevolver(s, r) + (IF r = q THEN n ELSE 0)
                /\ Veces(s, Paso("quitar", r)) \in Nat
    <2>1. PICK x, y, z : x = Paso("quitar", r) /\ y = Paso("devolver", r) /\ z = Paso("sumar", r)  OBVIOUS
    <2>2. (h = x <=> r = q) /\ h # y /\ h # z /\ (e = y <=> r = q) /\ e # x /\ e # z
      BY <1>8, <2>1 DEF Paso
    <2>3. PICK a \in Nat, b \in Nat, c \in Nat : a = Veces(v, x) /\ b = Veces(v, y) /\ c = Veces(v, z)  BY <1>12
    <2>4. Veces(s, x) = a + (IF r = q THEN 1 ELSE 0) /\ Veces(s, y) = b /\ Veces(s, z) = c
      BY <1>12, <2>2, <2>3
    <2>5. Veces(w, x) = 0 /\ Veces(w, y) = (IF r = q THEN n ELSE 0) /\ Veces(w, z) = 0
      BY <1>9, <2>2
    <2>6. Veces(w \o v, x) = a /\ Veces(w \o v, y) = b + (IF r = q THEN n ELSE 0) /\ Veces(w \o v, z) = c
      BY <1>12, <2>3, <2>5
    <2>7. QED  BY <1>11, <2>1, <2>3, <2>4, <2>6 DEF PorDevolver
  <1>15. p \notin eliminados /\ \A r \in Recursos : Veces(s, Paso("quitar", r)) <= 1
    BY <1>1, <1>3 DEF Visita
  <1>16. Eliminador'.pasos # <<>>
    <2>1. Cierre(v, asignadas[p])  BY <1>1, <1>4, <1>7, CierreCasos
    <2>2. v # <<>>  BY <2>1 DEF Cierre
    <2>3. QED  BY <1>7, <1>9, <1>11, <2>2
  <1>17. ASSUME NEW r \in Recursos PROVE Balance(r)'
    <2>1. PICK R \in SUBSET Pids : R = Retenedores(r)  BY BalanceTipo
    <2>2. Total(asignadas, r, Retenedores(r)') = Total(asignadas, r, R) - (IF r = q THEN n ELSE 0)
      <3>1. CASE r # q
        <4>1. Veces(Eliminador'.pasos, Paso("quitar", r)) = Veces(s, Paso("quitar", r))  BY <1>14, <3>1
        <4>2. Retenedores(r)' = R
          BY <1>1, <1>3, <1>11, <1>13, <1>16, <2>1, <4>1, RetenedoresEs, RetenedoresLuego
        <4>3. Total(asignadas, r, R) \in Nat  BY <1>2, TotalTipo
        <4>4. QED  BY <3>1, <4>2, <4>3
      <3>2. CASE r = q
        <4>1. Veces(s, Paso("quitar", r)) > 0
          <5>1. Veces(s, Paso("quitar", r)) = Veces(v, Paso("quitar", r)) + 1 /\ Veces(v, Paso("quitar", r)) \in Nat
            BY <1>8, <1>12, <3>2
          <5>2. QED  BY <5>1
        <4>2. ~(Veces(Eliminador'.pasos, Paso("quitar", r)) > 0)  BY <1>14, <1>15, <3>2
        <4>3. p \in R  BY <1>1, <1>3, <1>15, <2>1, <4>1, RetenedoresEs
        <4>4. Retenedores(r)' = R \ {p}
          BY <1>1, <1>3, <1>11, <1>13, <1>16, <2>1, <4>2, RetenedoresEs, RetenedoresLuego
        <4>5. Total(asignadas, r, R) = Anotadas(asignadas[p], r) + Total(asignadas, r, R \ {p})
          <5>1. asignadas \in [Pids -> TAsignadas]  BY <1>2
          <5>2. QED  BY <4>3, <5>1, TotalFuera
        <4>6. PICK Q \in SUBSET Pids : Q = R \ {p}  OBVIOUS
        <4>7. Total(asignadas, r, Q) \in Nat  BY <1>2, TotalTipo
        <4>8. PICK t \in Nat : t = Total(asignadas, r, Q)  BY <4>7
        <4>9. Total(asignadas, r, R) = n + t  BY <1>6, <3>2, <4>5, <4>6, <4>8
        <4>10. Total(asignadas, r, Retenedores(r)') = t  BY <4>4, <4>6, <4>8
        <4>11. QED  BY <3>2, <4>9, <4>10
      <3>3. QED  BY <3>1, <3>2
    <2>3. /\ instancias[r] \in Int /\ PorDevolver(s, r) \in Nat /\ Total(asignadas, r, R) \in Nat
      BY <1>1, <2>1, BalanceTipo
    <2>4. PICK d \in Nat : d = IF r = q THEN n ELSE 0  OBVIOUS
    <2>5. PorDevolver(Eliminador'.pasos, r) = PorDevolver(s, r) + d  BY <1>14, <2>4
    <2>6. Total(asignadas, r, Retenedores(r)') = Total(asignadas, r, R) - d  BY <2>2, <2>4
    <2>7. PICK i \in Int, k \in Nat, t \in Nat : /\ i = instancias[r] /\ k = PorDevolver(s, r)
                                                 /\ t = Total(asignadas, r, R)
      BY <2>3
    <2>8. i + (k + d) + (t - d) = i + k + t  OBVIOUS
    <2>9. instancias'[r] + PorDevolver(Eliminador'.pasos, r) + Total(asignadas, r, Retenedores(r)')
              = instancias[r] + PorDevolver(Eliminador.pasos, r) + Total(asignadas, r, Retenedores(r))
      BY <1>1, <1>13, <2>1, <2>5, <2>6, <2>7, <2>8
    <2>10. Balance(r)  BY DEF Balances
    <2>11. QED  BY <1>11, <1>13, <2>9, <2>10, BalanceElim
  <1>18. Visita'
    <2>1. ASSUME NEW r \in Recursos PROVE Veces(Eliminador'.pasos, Paso("quitar", r)) <= 1
      BY <1>14, <1>15
    <2>2. Eliminador'.pid \notin eliminados'  BY <1>11, <1>13, <1>15
    <2>3. QED  BY <2>1, <2>2 DEF Visita
  <1>19. QED  BY <1>17, <1>18 DEF Balances

\* A process that signals has what it gives back.
LEMMA SenialAnotada ==
    ASSUME InvTipos, Anotado, FaseAtendido, NEW q \in Recursos, Pedida.op = "SIGNAL", Pedida.recurso = q,
           NEW p \in Pids, p = cpu.pid
    PROVE  Anotadas(asignadas[p], q) >= 1
  <1>1. SinAnotar  BY SinAnotarFases
  <1>2. PICK s \in Seq(Instrucciones) : s = Programa[p]  BY ProgramaTipo
  <1>3. PICK n \in Nat : n = pc[p] - 1 /\ n \in 1 .. Len(s) /\ s[n] = Pedida
    <2>1. pc[p] \in Nat /\ Len(s) \in Nat  BY DEF InvTipos, ViajesOK
    <2>2. pc[p] - 1 \in 1 .. Len(s) /\ s[pc[p] - 1] = Pedida  BY <1>2 DEF FaseAtendido, Esperando, Pedida
    <2>3. QED  BY <2>1, <2>2
  <1>4. Anotadas(asignadas[p], q) = Saldo(s, q, n)  BY <1>1, <1>2, <1>3 DEF Anotado, Hasta
  <1>5. s[n] = [op |-> "SIGNAL", recurso |-> q] /\ s[n] # [op |-> "WAIT", recurso |-> q]
    <2>1. s[n] \in Instrucciones  BY <1>3
    <2>2. QED  BY <1>3, <2>1 DEF Instrucciones
  <1>6. /\ Saldo(s, q, n) \in Int
        /\ Saldo(s, q, n + 1) = Saldo(s, q, n) + (IF s[n] = [op |-> "WAIT", recurso |-> q] THEN 1 ELSE 0)
                                               - (IF s[n] = [op |-> "SIGNAL", recurso |-> q] THEN 1 ELSE 0)
    <2>1. n \in 1 .. Len(s)  BY <1>3
    <2>2. QED  BY <2>1, SaldoSigue
  <1>7. Saldo(s, q, n + 1) = Saldo(s, q, n) - 1  BY <1>5, <1>6
  <1>8. n + 1 \in 1 .. Len(s) + 1
    <2>1. Len(s) \in Nat  OBVIOUS
    <2>2. QED  BY <1>3, <2>1
  <1>9. Saldo(s, q, n + 1) \in 0 .. Vuelta - 1  BY <1>2, <1>8, SaldoCabe
  <1>10. Saldo(s, q, n + 1) >= 0
    <2>1. Vuelta \in Nat  BY ConstantesOK
    <2>2. QED  BY <1>9, <2>1
  <1>11. QED  BY <1>4, <1>6, <1>7, <1>10

\* The instance that SIGNAL has counted is still noted down.
LEMMA ManoRespaldada ==
    ASSUME InvTipos, Curso, Finados, Anotado, NEW r \in Recursos
    PROVE  EnMano(Despachador.pasos, r) + Total(asignadas, r, Retenedores(r)) >= 0
  <1>1. PICK m \in Int, t \in Nat : m = EnMano(Despachador.pasos, r) /\ t = Total(asignadas, r, Retenedores(r))
    BY BalanceTipo
  <1>2. SUFFICES m + t >= 0  BY <1>1
  <1>3. CASE Callado(Despachador.pasos)
    <2>1. m = 0  BY <1>1, <1>3, ManoCallada
    <2>2. QED  BY <2>1
  <1>4. CASE FaseAtendido
    <2>1. PICK p \in Pids, i \in Instrucciones :
             p = cpu.pid /\ i = Pedida /\ Esperando /\ Atiende(Despachador.pasos, i)
      BY <1>4, PedidaTipo DEF FaseAtendido, Esperando
    <2>2. CASE i.recurso = Inexistente /\ AtiendeFalla(Despachador.pasos)
      <3>1. m = 0  BY <1>1, <2>2, ManoFalla
      <3>2. QED  BY <3>1
    <2>3. ASSUME NEW q \in Recursos, AtiendeWait(Despachador.pasos, q) PROVE m + t >= 0
      <3>1. m = 0 \/ m = IF q = r THEN 1 ELSE 0  BY <1>1, <2>3, ManoWait DEF AtiendeWait
      <3>2. QED  BY <3>1
    <2>4. ASSUME NEW q \in Recursos, i.op = "SIGNAL", i.recurso = q, AtiendeSignal(Despachador.pasos, q)
          PROVE  m + t >= 0
      <3>1. m = IF q = r /\ Head(Despachador.pasos).op # "sumar" THEN -1 ELSE 0  BY <1>1, <2>4, ManoSignal
      <3>2. CASE q # r  BY <3>1, <3>2
      <3>3. CASE q = r
        <4>1. Anotadas(asignadas[p], r) >= 1  BY <1>4, <2>1, <2>4, <3>3, SenialAnotada
        <4>2. PICK R \in SUBSET Pids : R = Retenedores(r)  BY BalanceTipo
        <4>3. p \in R  BY <2>1, <2>4, <3>3, <4>2, NoTerminado
        <4>4. asignadas \in [Pids -> TAsignadas]  BY DEF InvTipos
        <4>5. PICK Q \in SUBSET Pids : Q = R \ {p}  OBVIOUS
        <4>6. Total(asignadas, r, R) = Anotadas(asignadas[p], r) + Total(asignadas, r, Q)
          <5>1. Total(asignadas, r, R) = Anotadas(asignadas[p], r) + Total(asignadas, r, R \ {p})
            BY <4>3, <4>4, TotalFuera
          <5>2. QED  BY <4>5, <5>1
        <4>7. PICK a \in Nat, b \in Nat : a = Anotadas(asignadas[p], r) /\ b = Total(asignadas, r, Q)
          BY <4>4, TotalTipo
        <4>8. t = a + b /\ a >= 1  BY <1>1, <4>1, <4>2, <4>6, <4>7
        <4>9. QED  BY <3>1, <4>8
      <3>4. QED  BY <3>2, <3>3
    <2>5. QED  BY <2>1, <2>2, <2>3, <2>4 DEF Atiende
  <1>5. QED  BY <1>3, <1>4 DEF Curso, FaseLibre, FasePedido, FaseContestado

\* ... so that there is room for what is given back.
LEMMA SeDevuelveSiempre ==
    ASSUME InvTipos, Curso, Finados, Anotado, NEW r \in Recursos, Balance(r),
           PorDevolver(Eliminador.pasos, r) >= 1
    PROVE  SeDevuelve(r)
  <1>1. PICK i \in Int, k \in Nat, m \in Int, t \in Nat :
           /\ i = instancias[r] /\ k = PorDevolver(Eliminador.pasos, r)
           /\ m = EnMano(Despachador.pasos, r) /\ t = Total(asignadas, r, Retenedores(r))
    BY BalanceTipo
  <1>2. i + k + m + t = Instancias[r]  BY <1>1 DEF Balance
  <1>3. m + t >= 0  BY <1>1, ManoRespaldada
  <1>4. k >= 1  BY <1>1
  <1>5. Instancias[r] \in Int  BY ConstantesOK
  <1>6. i < Instancias[r]  BY <1>2, <1>3, <1>4, <1>5
  <1>7. QED  BY <1>1, <1>6 DEF SeDevuelve

\* A step of eliminacion_de_procesos that visits nothing.
LEMMA BalanceSinQuitar ==
    ASSUME InvTipos, InvTipos', NEW r \in Recursos, Balance(r), UNCHANGED <<asignadas, eliminados>>,
           UNCHANGED Despachador, Eliminador.pasos # <<>>, Eliminador'.pasos # <<>>,
           Eliminador'.pid = Eliminador.pid,
           Veces(Eliminador'.pasos, Paso("quitar", r)) = Veces(Eliminador.pasos, Paso("quitar", r)),
           instancias'[r] + PorDevolver(Eliminador'.pasos, r) = instancias[r] + PorDevolver(Eliminador.pasos, r)
    PROVE  Balance(r)'
  <1>1. Retenedores(r)' = Retenedores(r)  BY RetenedoresEs, RetenedoresLuego
  <1>2. PICK i \in Int, k \in Nat, t \in Nat :
           /\ i = instancias[r] /\ k = PorDevolver(Eliminador.pasos, r)
           /\ t = Total(asignadas, r, Retenedores(r))
    BY BalanceTipo
  <1>3. instancias'[r] + PorDevolver(Eliminador'.pasos, r) + Total(asignadas, r, Retenedores(r)')
              = instancias[r] + PorDevolver(Eliminador.pasos, r) + Total(asignadas, r, Retenedores(r))
    BY <1>1, <1>2
  <1>4. QED  BY <1>3, BalanceElim

\* What is given back is on its way to the counter, and never past what there is.
LEMMA BalanceDevolver ==
    ASSUME InvTipos, InvTipos', Curso, Finados, Anotado, Balances, Visita, Devolver PROVE Balances' /\ Visita'
  <1>1. PICK s \in Seq(UnPaso) : s = Eliminador.pasos /\ s # <<>> /\ Head(s).op = "devolver"
    BY DEF Devolver, Toca, InvTipos, THilo, Hilos, Eliminador
  <1>2. /\ hilo \in [Hilos -> THilo] /\ ElimOK(Eliminador, asignadas)
    BY DEF InvTipos, Eliminador
  <1>3. PICK p \in Pids : p = Eliminador.pid  BY <1>1, <1>2 DEF ElimOK, TienePids
  <1>4. Cierre(s, asignadas[p])  BY <1>1, <1>2, <1>3, ElimSigue DEF OpsSuma
  <1>5. PICK q \in Recursos : q = Recurso("eliminacion") /\ Head(s).recurso = q
    BY <1>1, <1>4, CierreCasos DEF Recurso, Eliminador
  <1>6. PICK v \in Seq(UnPaso) : v = Tail(s) /\ v # <<>> /\ Head(v).op \notin OpsSuma
    <2>1. Cierre(Tail(s), asignadas[p])  BY <1>1, <1>4, CierreCasos
    <2>2. Tail(s) \in Seq(UnPaso)  BY <1>1
    <2>3. Tail(s) # <<>> /\ Head(Tail(s)).op \notin OpsSuma  BY <2>1, CierreCasos DEF Cierre
    <2>4. QED  BY <2>2, <2>3
  <1>7. PICK h \in UnPaso : h = Head(s) /\ h = Paso("devolver", q)
    <2>1. Head(s) \in UnPaso  BY <1>1
    <2>2. Head(s) = Paso("devolver", q)  BY <1>1, <1>5, <2>1 DEF UnPaso, Paso
    <2>3. QED  BY <2>1, <2>2
  <1>8. \A x : Veces(s, x) = Veces(v, x) + (IF h = x THEN 1 ELSE 0) /\ Veces(v, x) \in Nat
    <2>1. \A x : Veces(s, x) = Veces(v, x) + (IF h = x THEN 1 ELSE 0)  BY <1>1, <1>6, <1>7, VecesCola
    <2>2. \A x : Veces(v, x) \in Nat  BY VecesTipo
    <2>3. QED  BY <2>1, <2>2
  <1>9. PorDevolver(s, q) >= 1
    <2>1. PICK a \in Nat, b \in Nat : /\ Veces(s, Paso("devolver", q)) = a + 1 /\ Veces(s, Paso("sumar", q)) = b
      <3>1. h # Paso("sumar", q)  BY <1>7 DEF Paso
      <3>2. Veces(s, Paso("devolver", q)) = Veces(v, Paso("devolver", q)) + 1
            /\ Veces(s, Paso("sumar", q)) = Veces(v, Paso("sumar", q))
        BY <1>7, <1>8, <3>1
      <3>3. QED  BY <1>8, <3>2
    <2>2. QED  BY <2>1 DEF PorDevolver
  <1>10. SeDevuelve(q)  BY <1>1, <1>9, SeDevuelveSiempre DEF Balances
  <1>11. Seguir("eliminacion", PasosSumar(q))  BY <1>5, <1>10 DEF Devolver
  <1>12. PICK u : u = PasosSumar(q) \o v /\ Sumando(u, v, q) /\ Head(u).op = "sumar"
    <2>1. Sumando(PasosSumar(q) \o v, v, q) /\ Head(PasosSumar(q) \o v).op = "sumar"  BY SumandoDe
    <2>2. QED  BY <2>1
  <1>13. u \in Seq(UnPaso) /\ u # <<>>  BY <1>6, <1>12, SumandoCasos DEF CasosSuma
  <1>14. Eliminador'.pasos = u /\ Eliminador'.pid = p /\ UNCHANGED Despachador
    <2>1. PasosSumar(q) \o Tail(hilo["eliminacion"].pasos) = u  BY <1>1, <1>6, <1>12 DEF Eliminador
    <2>2. "eliminacion" \in Hilos /\ "dispatch" \in Hilos  BY DEF Hilos
    <2>3. QED  BY <1>2, <1>3, <1>11, <1>13, <2>1, <2>2, SeguirTipo DEF Eliminador, Despachador
  <1>15. UNCHANGED <<instancias, asignadas, eliminados>>  BY DEF Devolver, contables
  <1>16. ASSUME NEW r \in Recursos
         PROVE  /\ Veces(u, Paso("quitar", r)) = Veces(s, Paso("quitar", r))
                /\ PorDevolver(u, r) = PorDevolver(s, r)
    <2>1. PICK x, y, z : x = Paso("quitar", r) /\ y = Paso("devolver", r) /\ z = Paso("sumar", r)  OBVIOUS
    <2>2. h # x /\ (h = y <=> q = r) /\ h # z  BY <1>7, <2>1 DEF Paso
    <2>3. PICK a \in Nat, b \in Nat, c \in Nat : a = Veces(v, x) /\ b = Veces(v, y) /\ c = Veces(v, z)  BY <1>8
    <2>4. Veces(s, x) = a /\ Veces(s, y) = b + (IF q = r THEN 1 ELSE 0) /\ Veces(s, z) = c
      BY <1>8, <2>2, <2>3
    <2>5. Veces(u, x) = a /\ Veces(u, y) = b
      <3>1. \A op \in {"quitar", "devolver"} : op \in Pasos /\ op \notin OpsSuma  BY DEF Pasos, OpsSuma
      <3>2. \A op \in {"quitar", "devolver"} : Veces(u, Paso(op, r)) = Veces(v, Paso(op, r))
        BY <1>12, <3>1, VecesSumando
      <3>3. QED  BY <2>1, <2>3, <3>2
    <2>6. Veces(u, z) = c + (IF q = r THEN 1 ELSE 0)
      <3>1. v # <<>> /\ Head(v).op \notin OpsSuma  BY <1>6
      <3>2. Sumando(u, v, q)  BY <1>12
      <3>3. /\ Head(u).op = "sumar" /\ r = q => Veces(u, Paso("sumar", r)) = Veces(v, Paso("sumar", r)) + 1
            /\ Head(u).op # "sumar" \/ r # q => Veces(u, Paso("sumar", r)) = Veces(v, Paso("sumar", r))
        BY <3>1, <3>2, VecesSumandoSumar
      <3>4. CASE r = q  BY <1>12, <2>1, <2>3, <3>3, <3>4
      <3>5. CASE r # q
        <4>1. Veces(u, Paso("sumar", r)) = Veces(v, Paso("sumar", r))  BY <3>3, <3>5
        <4>2. QED  BY <2>1, <2>3, <3>5, <4>1
      <3>6. QED  BY <3>4, <3>5
    <2>7. QED  BY <2>1, <2>3, <2>4, <2>5, <2>6 DEF PorDevolver
  <1>17. ASSUME NEW r \in Recursos PROVE Balance(r)'
    BY <1>1, <1>3, <1>13, <1>14, <1>15, <1>16, BalanceSinQuitar DEF Balances
  <1>18. Visita'
    <2>1. ASSUME NEW r \in Recursos PROVE Veces(Eliminador'.pasos, Paso("quitar", r)) <= 1
      BY <1>1, <1>14, <1>16 DEF Visita
    <2>2. Eliminador'.pid \notin eliminados'  BY <1>1, <1>3, <1>14, <1>15 DEF Visita
    <2>3. QED  BY <2>1, <2>2 DEF Visita
  <1>19. QED  BY <1>17, <1>18 DEF Balances

\* The process is destroyed once nothing of its release is left.
LEMMA BalanceDestruir ==
    ASSUME InvTipos, InvTipos', Balances, Destruir PROVE Balances' /\ Visita'
  <1>1. PICK s \in Seq(UnPaso) : s = Eliminador.pasos /\ s # <<>> /\ Head(s).op = "destruir"
    BY DEF Destruir, Toca, InvTipos, THilo, Hilos, Eliminador
  <1>2. /\ hilo \in [Hilos -> THilo] /\ ElimOK(Eliminador, asignadas)
    BY DEF InvTipos, Eliminador
  <1>3. PICK p \in Pids : p = Eliminador.pid  BY <1>1, <1>2 DEF ElimOK, TienePids
  <1>4. Cierre(s, asignadas[p])  BY <1>1, <1>2, <1>3, ElimSigue DEF OpsSuma
  <1>5. Tail(s) = <<>> /\ Head(s) = Paso("destruir", Nadie)  BY <1>1, <1>4, CierreCasos
  <1>6. Eliminador'.pasos = <<>> /\ UNCHANGED Despachador /\ eliminados' = eliminados \union {p}
    <2>1. "eliminacion" \in Hilos /\ "dispatch" \in Hilos  BY DEF Hilos
    <2>2. hilo["eliminacion"].pasos # <<>> /\ Hecho("eliminacion")  BY DEF Destruir, Toca
    <2>3. hilo'["eliminacion"].pasos = Tail(hilo["eliminacion"].pasos) /\ hilo'["dispatch"] = hilo["dispatch"]
      BY <1>2, <2>1, <2>2, HechoTipo
    <2>4. QED  BY <1>1, <1>3, <1>5, <2>3 DEF Destruir, Eliminador, Despachador
  <1>7. UNCHANGED <<instancias, asignadas>>  BY DEF Destruir, contables
  <1>8. ASSUME NEW r \in Recursos, NEW op \in {"quitar", "devolver", "sumar"}
        PROVE  Veces(s, Paso(op, r)) = 0 /\ Veces(<<>>, Paso(op, r)) = 0
    <2>1. PICK x : x = Paso(op, r)  OBVIOUS
    <2>2. Head(s) # x  BY <1>5, <2>1 DEF Paso
    <2>3. Veces(s, x) = Veces(Tail(s), x) + (IF Head(s) = x THEN 1 ELSE 0)  BY <1>1, VecesCola
    <2>4. Veces(<<>>, x) = 0  BY VecesNada
    <2>5. Veces(Tail(s), x) = 0  BY <1>5, <2>4
    <2>6. Veces(s, x) = 0 + 0  BY <2>2, <2>3, <2>5
    <2>7. QED  BY <2>1, <2>4, <2>6
  <1>9. ASSUME NEW r \in Recursos PROVE Balance(r)'
    <2>1. PorDevolver(Eliminador.pasos, r) = 0 /\ PorDevolver(Eliminador'.pasos, r) = 0
      BY <1>1, <1>6, <1>8 DEF PorDevolver
    <2>2. ~(Veces(s, Paso("quitar", r)) > 0)  BY <1>8
    <2>3. Retenedores(r)' = Retenedores(r)
      BY <1>1, <1>3, <1>6, <2>2, RetenedoresEs, RetenedoresLuego
    <2>4. instancias'[r] + PorDevolver(Eliminador'.pasos, r) + Total(asignadas, r, Retenedores(r)')
              = instancias[r] + PorDevolver(Eliminador.pasos, r) + Total(asignadas, r, Retenedores(r))
      BY <1>7, <2>1, <2>3
    <2>5. Balance(r)  BY DEF Balances
    <2>6. QED  BY <1>6, <1>7, <2>4, <2>5, BalanceElim
  <1>10. Visita'
    <2>1. ASSUME NEW r \in Recursos PROVE Veces(Eliminador'.pasos, Paso("quitar", r)) <= 1
      BY <1>6, <1>8
    <2>2. QED  BY <1>6, <2>1 DEF Visita
  <1>11. QED  BY <1>9, <1>10 DEF Balances

\* sumar_instancia_a_recurso for what is given back: from the hands of the thread to the counter.
LEMMA BalanceSumaElim ==
    ASSUME InvTipos, InvTipos', Balances, Visita, SumarInstancia("eliminacion") PROVE Balances' /\ Visita'
  <1>1. PICK op \in OpsSuma : Toca("eliminacion", op) /\ (op = "sumar" <=> Sumar("eliminacion"))
    BY DEF SumarInstancia, Sumar, Mirar, Sacar, Buscar, Desbloquear, OpsSuma, Toca
  <1>2. PICK s \in Seq(UnPaso) : s = Eliminador.pasos /\ s # <<>> /\ Head(s).op = op
    BY <1>1 DEF Toca, InvTipos, THilo, Hilos, Eliminador
  <1>3. /\ hilo \in [Hilos -> THilo] /\ ElimOK(Eliminador, asignadas) /\ TienePids(Eliminador)
        /\ cola_recurso \in [Recursos -> Seq(Pids)] /\ blocked \in Seq(Pids)
    BY DEF InvTipos, Eliminador, ElimOK, DatosOK
  <1>4. PICK v : FormaElim(s, v, asignadas[Eliminador.pid])  BY <1>2, <1>3 DEF ElimOK
  <1>5. v \in Seq(UnPaso) /\ v # <<>> /\ Head(v).op \notin OpsSuma
    BY <1>4, CierreCasos DEF FormaElim, Cierre
  <1>6. PICK q \in Recursos : Sumando(s, v, q)  BY <1>1, <1>2, <1>4, <1>5 DEF FormaElim
  <1>7. Head(s).recurso = q
    <2>1. CasosSuma(s, v, q)  BY <1>5, <1>6, SumandoCasos
    <2>2. QED  BY <1>1, <1>2, <2>1 DEF CasosSuma, OpsSuma
  <1>8. PICK u \in Seq(UnPaso) : /\ u = Eliminador'.pasos /\ u # <<>> /\ Sumando(u, v, q) /\ Head(u).op # "sumar"
                                 /\ Eliminador'.pid = Eliminador.pid /\ UNCHANGED Despachador
    <2>1. "eliminacion" \in Hilos /\ "dispatch" \in Hilos  BY DEF Hilos
    <2>2. Sumando(hilo["eliminacion"].pasos, v, q) /\ TienePids(hilo["eliminacion"])
      BY <1>2, <1>3, <1>6 DEF Eliminador
    <2>3. /\ \A g \in Hilos : g # "eliminacion" => hilo'[g] = hilo[g]
          /\ Sumando(hilo'["eliminacion"].pasos, v, q) /\ Head(hilo'["eliminacion"].pasos).op # "sumar"
          /\ hilo'["eliminacion"].pid = hilo["eliminacion"].pid
      BY <1>3, <1>5, <2>1, <2>2, SumaHilo
    <2>4. CasosSuma(hilo'["eliminacion"].pasos, v, q)  BY <1>5, <2>3, SumandoCasos
    <2>5. QED  BY <2>1, <2>3, <2>4 DEF CasosSuma, Eliminador, Despachador
  <1>9. UNCHANGED <<asignadas, eliminados>>
    BY DEF SumarInstancia, Sumar, Mirar, Sacar, Buscar, Desbloquear, contables
  <1>10. PICK d \in Nat : d = IF op = "sumar" THEN 1 ELSE 0  OBVIOUS
  <1>11. ASSUME NEW r \in Recursos PROVE instancias'[r] = instancias[r] + (IF r = q THEN d ELSE 0)
    <2>1. instancias \in [Recursos -> Int] /\ Recurso("eliminacion") = q
      BY <1>2, <1>7 DEF InvTipos, DatosOK, Recurso, Eliminador
    <2>2. CASE op = "sumar"
      <3>1. instancias' = [instancias EXCEPT ![q] = instancias[q] + 1]  BY <1>1, <2>1, <2>2 DEF Sumar
      <3>2. QED  BY <1>10, <2>1, <2>2, <3>1
    <2>3. CASE op # "sumar"
      <3>1. UNCHANGED instancias
        BY <1>1, <2>3 DEF SumarInstancia, Mirar, Sacar, Buscar, Desbloquear, contables
      <3>2. QED  BY <1>10, <2>1, <2>3, <3>1
    <2>4. QED  BY <2>2, <2>3
  <1>12. ASSUME NEW r \in Recursos
         PROVE  /\ Veces(u, Paso("quitar", r)) = Veces(s, Paso("quitar", r))
                /\ PorDevolver(s, r) = PorDevolver(u, r) + (IF r = q THEN d ELSE 0)
    <2>1. \A o \in {"quitar", "devolver"} : o \in Pasos /\ o \notin OpsSuma  BY DEF Pasos, OpsSuma
    <2>2. \A o \in {"quitar", "devolver"} :
             Veces(u, Paso(o, r)) = Veces(v, Paso(o, r)) /\ Veces(s, Paso(o, r)) = Veces(v, Paso(o, r))
      BY <1>5, <1>6, <1>8, <2>1, VecesSumando
    <2>3. /\ Head(s).op = "sumar" /\ r = q => Veces(s, Paso("sumar", r)) = Veces(v, Paso("sumar", r)) + 1
          /\ Head(s).op # "sumar" \/ r # q => Veces(s, Paso("sumar", r)) = Veces(v, Paso("sumar", r))
      BY <1>5, <1>6, VecesSumandoSumar
    <2>4. /\ Head(u).op = "sumar" /\ r = q => Veces(u, Paso("sumar", r)) = Veces(v, Paso("sumar", r)) + 1
          /\ Head(u).op # "sumar" \/ r # q => Veces(u, Paso("sumar", r)) = Veces(v, Paso("sumar", r))
      BY <1>5, <1>8, VecesSumandoSumar
    <2>5. PICK a \in Nat, b \in Nat : a = Veces(v, Paso("devolver", r)) /\ b = Veces(v, Paso("sumar", r))
      BY <1>5, VecesTipo
    <2>6. PorDevolver(u, r) = a + b  BY <1>8, <2>2, <2>4, <2>5 DEF PorDevolver
    <2>7. PorDevolver(s, r) = a + (b + (IF r = q THEN d ELSE 0))
      <3>1. Veces(s, Paso("sumar", r)) = b + (IF r = q THEN d ELSE 0)  BY <1>2, <1>10, <2>3, <2>5
      <3>2. QED  BY <2>2, <2>5, <3>1 DEF PorDevolver
    <2>8. PICK c \in Nat : c = IF r = q THEN d ELSE 0  OBVIOUS
    <2>9. QED  BY <2>2, <2>6, <2>7, <2>8
  <1>13. ASSUME NEW r \in Recursos PROVE Balance(r)'
    <2>1. PICK c \in Nat : c = IF r = q THEN d ELSE 0  OBVIOUS
    <2>2. PICK i \in Int, k \in Nat : i = instancias[r] /\ k = PorDevolver(u, r)
      <3>1. instancias[r] \in Int  BY BalanceTipo
      <3>2. PorDevolver(u, r) \in Nat  BY <1>8, ManoTipo
      <3>3. QED  BY <3>1, <3>2
    <2>3. instancias'[r] = i + c /\ PorDevolver(s, r) = k + c  BY <1>11, <1>12, <2>1, <2>2
    <2>4. instancias'[r] + PorDevolver(Eliminador'.pasos, r) = instancias[r] + PorDevolver(Eliminador.pasos, r)
      <3>1. i + c + k = i + (k + c)  OBVIOUS
      <3>2. QED  BY <1>2, <1>8, <2>2, <2>3, <3>1
    <2>5. Veces(Eliminador'.pasos, Paso("quitar", r)) = Veces(Eliminador.pasos, Paso("quitar", r))
      BY <1>2, <1>8, <1>12
    <2>6. Balance(r)  BY DEF Balances
    <2>7. QED  BY <1>2, <1>8, <1>9, <2>4, <2>5, <2>6, BalanceSinQuitar
  <1>14. Visita'
    <2>1. ASSUME NEW r \in Recursos PROVE Veces(Eliminador'.pasos, Paso("quitar", r)) <= 1
      BY <1>2, <1>8, <1>12 DEF Visita
    <2>2. Eliminador'.pid \notin eliminados'  BY <1>2, <1>8, <1>9 DEF Visita
    <2>3. QED  BY <2>1, <2>2 DEF Visita
  <1>15. QED  BY <1>13, <1>14 DEF Balances

\* What is true of the counts while the kernel lives, and what is left once a module has stopped.
Mientras == EnPrograma /\ Curso /\ Finados /\ Anotado
InvCuentas == InvTipos /\ Balances /\ Visita /\ (vivo => Mientras)

\* A sum of zeros.
LEMMA TotalCero ==
    ASSUME NEW S, IsFiniteSet(S), NEW a, NEW r, \A p \in S : Anotadas(a[p], r) = 0
    PROVE  Total(a, r, S) = 0
  <1> DEFINE M == {s \in SUBSET S : Total(a, r, s) # 0}
  <1> SUFFICES ASSUME M # {} PROVE FALSE  OBVIOUS
  <1>1. PICK s \in M : \A u \in M : Cardinality(s) <= Cardinality(u)
    <2>1. M \subseteq SUBSET S  OBVIOUS
    <2> HIDE DEF M
    <2>2. QED  BY <2>1, MenorDe
  <1>2. IsFiniteSet(s) /\ \A p \in s : Anotadas(a[p], r) = 0  BY <1>1, FS_Subset
  <1>3. CASE s = {}
    <2>1. PICK f : f = [p \in s |-> Anotadas(a[p], r)]  OBVIOUS
    <2>2. PICK t : EsSuma(t, f, s) /\ Total(a, r, s) = t[s]  BY <1>2, <2>1, TotalEs
    <2>3. t[s] = 0  BY <1>3, <2>2 DEF EsSuma
    <2>4. QED  BY <1>1, <2>2, <2>3
  <1>4. CASE s # {}
    <2>1. PICK x \in s : TRUE  BY <1>4
    <2>2. \A p \in s : Anotadas(a[p], r) \in Nat  BY <1>2
    <2>3. Total(a, r, s) = Anotadas(a[x], r) + Total(a, r, s \ {x}) /\ Total(a, r, s \ {x}) \in Nat
      BY <1>2, <2>2, TotalSin
    <2>4. s \ {x} \in SUBSET S /\ s \in SUBSET S  BY <1>1
    <2>5. Cardinality(s \ {x}) < Cardinality(s) /\ Cardinality(s) \in Nat /\ Cardinality(s \ {x}) \in Nat
      <3>1. Cardinality(s \ {x}) < Cardinality(s)  BY <2>4, SinUno
      <3>2. IsFiniteSet(s \ {x})  BY <1>2, FS_Subset
      <3>3. QED  BY <1>2, <3>1, <3>2, FS_CardinalityType
    <2>6. s \ {x} \notin M
      <3> HIDE DEF M
      <3> QED  BY <1>1, <2>5
    <2>7. Total(a, r, s \ {x}) = 0  BY <2>4, <2>6
    <2>8. Anotadas(a[x], r) = 0  BY <1>2
    <2>9. QED  BY <1>1, <2>3, <2>7, <2>8
  <1>5. QED  BY <1>3, <1>4

\* Every step keeps the balance.
LEMMA BalancesNext ==
    ASSUME InvCuentas, Next PROVE Balances' /\ Visita'
  <1>1. InvTipos /\ InvTipos' /\ Curso /\ Finados /\ Anotado /\ Balances /\ Visita /\ UNCHANGED carga
    <2>1. vivo /\ UNCHANGED carga  BY DEF Next
    <2>2. InvTipos'  BY InvTiposNext DEF InvCuentas
    <2>3. QED  BY <2>1, <2>2 DEF InvCuentas, Mientras
  <1>2. CASE UNCHANGED <<instancias, asignadas, eliminados, hilo>>
    BY <1>1, <1>2, BalanceQuieto, VisitaQuieta DEF Eliminador
  <1>3. CASE Despachar \/ TerminarIO \/ Cpu
    <2>1. UNCHANGED <<instancias, asignadas, eliminados, hilo>>
      BY <1>3 DEF Despachar, TerminarIO, Cpu, CpuRecibe, CpuEjecuta, CpuRespuesta, CpuChequea, CpuTermina, contables
    <2>2. QED  BY <1>2, <2>1
  <1>4. CASE Dispatch
    <2>1. Visita'
      <3>1. UNCHANGED eliminados /\ UNCHANGED Eliminador  BY <1>1, <1>4, DispatchMarco
      <3>2. QED  BY <1>1, <3>1, VisitaQuieta
    <2>2. Balances'
      <3>1. CASE Recibir  BY <1>1, <3>1, BalanceRecibir
      <3>2. CASE EncolarIO \/ Encolar \/ Bloquear \/ LiberarCpu \/ Finalizar \/ Desalojar
        BY <1>1, <3>2, BalanceCalla
      <3>3. CASE Restar  BY <1>1, <3>3, BalanceRestar
      <3>4. CASE Leer  BY <1>1, <3>4, BalanceLeer
      <3>5. CASE RestarRetenida  BY <1>1, <3>5, BalanceRestarRetenida
      <3>6. CASE Fallar  BY <1>1, <3>6, BalanceFallar
      <3>7. CASE SumarInstancia("dispatch")  BY <1>1, <3>7, BalanceSuma
      <3>8. QED  BY <1>4, <3>1, <3>2, <3>3, <3>4, <3>5, <3>6, <3>7 DEF Dispatch
    <2>3. QED  BY <2>1, <2>2
  <1>5. CASE EliminarProceso
    <2>1. CASE vivo'  BY <1>1, <1>5, <2>1, BalanceEliminar
    <2>2. CASE ~vivo'
      <3>1. Head(exit) \in eliminados
        <4>1. vivo  BY DEF Next
        <4>2. QED  BY <1>5, <2>2, <4>1 DEF EliminarProceso
      <3>2. UNCHANGED <<instancias, asignadas, eliminados, hilo>>  BY <1>5, <3>1 DEF EliminarProceso, contables
      <3>3. QED  BY <1>2, <3>2
    <2>3. QED  BY <2>1, <2>2
  <1>6. CASE Quitar  BY <1>1, <1>6, BalanceQuitar
  <1>7. CASE Devolver  BY <1>1, <1>7, BalanceDevolver
  <1>8. CASE Destruir  BY <1>1, <1>8, BalanceDestruir
  <1>9. CASE SumarInstancia("eliminacion")  BY <1>1, <1>9, BalanceSumaElim
  <1>10. QED  BY <1>3, <1>4, <1>5, <1>6, <1>7, <1>8, <1>9 DEF Next, Eliminacion

\* Every step keeps the invariant, ...
LEMMA InvCuentasNext == ASSUME InvCuentas, [Next]_vars PROVE InvCuentas'
  <1>1. InvTipos'  BY InvTiposNext DEF InvCuentas
  <1>2. CASE UNCHANGED vars
    <2>1. UNCHANGED <<carga, instancias, asignadas, cola_recurso, blocked, ready, exit, cola_io, estado, eliminados,
                      pc, cpu_libre, hilo, a_cpu, a_kernel, cpu, flags, vivo>>
      BY <1>2 DEF vars, sistema, contables, colas, cpuVars
    <2>2. UNCHANGED Eliminador /\ UNCHANGED Despachador  BY <2>1 DEF Eliminador, Despachador
    <2>3. Balances' /\ Visita'  BY <2>1, <2>2, BalanceQuieto, VisitaQuieta DEF InvCuentas
    <2>4. ASSUME vivo' PROVE Mientras'
      <3>1. EnPrograma /\ Curso /\ Finados /\ Anotado  BY <2>1, <2>4 DEF InvCuentas, Mientras
      <3>2. EnPrograma'  BY <2>1, <3>1 DEF EnPrograma, Programa
      <3>3. Curso'  BY <2>1, <2>2, <3>1, CursoMarco
      <3>4. Finados'
        <4>1. Terminados' = Terminados  BY <2>1 DEF Terminados, Programa
        <4>2. QED  BY <2>1, <2>2, <3>1, <4>1 DEF Finados, FinElim, FinKernel, FinCpu
      <3>5. Anotado'
        <4>1. SinAnotar' = SinAnotar  BY <2>1 DEF SinAnotar, SoloPcbs
        <4>2. QED  BY <2>1, <3>1, <4>1, AnotadoMarco
      <3>6. QED  BY <3>2, <3>3, <3>4, <3>5 DEF Mientras
    <2>5. QED  BY <1>1, <2>3, <2>4 DEF InvCuentas
  <1>3. ASSUME Next PROVE InvCuentas'
    <2>1. InvTipos /\ EnPrograma /\ Curso /\ Finados /\ Anotado  BY <1>3 DEF InvCuentas, Mientras, Next
    <2>2. Balances' /\ Visita'  BY <1>3, BalancesNext
    <2>3. ASSUME vivo' PROVE Mientras'
      BY <1>3, <2>1, <2>3, EnProgramaNext, CursoNext, FinadosNext, AnotadoNext DEF Mientras
    <2>4. QED  BY <1>1, <2>2, <2>3 DEF InvCuentas
  <1>4. QED  BY <1>2, <1>3

\* ... which holds at the start, ...
LEMMA InvCuentasInit == ASSUME Init PROVE InvCuentas
  <1>1. InvTipos  BY InvTiposInit
  <1>2. /\ Eliminador.pasos = <<>> /\ Despachador.pasos = <<>> /\ eliminados = {} /\ flags = {}
        /\ a_cpu = <<>> /\ a_kernel = <<>> /\ exit = <<>> /\ cpu.en = "libre"
        /\ instancias = Instancias /\ \A p \in Pids : pc[p] = 1 /\ asignadas[p] = <<>>
    BY DEF Init, Eliminador, Despachador, Hilos
  <1>3. \A p \in Pids : Programa[p] \in Seq(Instrucciones)  BY <1>1, ProgramaTipo
  <1>4. \A p \in Pids, r \in Recursos : Anotadas(asignadas[p], r) = 0
    <2>1. \A r \in Recursos : r \notin DOMAIN <<>>  OBVIOUS
    <2>2. QED  BY <1>2, <2>1 DEF Anotadas
  <1>5. ASSUME NEW r \in Recursos PROVE Balance(r)
    <2>1. PorDevolver(<<>>, r) = 0 /\ EnMano(<<>>, r) = 0
      <3>1. \A x : Veces(<<>>, x) = 0  BY VecesNada
      <3>2. /\ Veces(<<>>, Paso("devolver", r)) = 0 /\ Veces(<<>>, Paso("sumar", r)) = 0
            /\ Veces(<<>>, Paso("leer", r)) = 0 /\ Veces(<<>>, Paso("restar", r)) = 0
            /\ Veces(<<>>, Paso("restar_retenida", r)) = 0
        BY <3>1
      <3>3. QED  BY <3>2 DEF PorDevolver, EnMano
    <2>2. Total(asignadas, r, Retenedores(r)) = 0
      <3>1. PICK R \in SUBSET Pids : R = Retenedores(r)  BY <1>1, BalanceTipo
      <3>2. IsFiniteSet(R) /\ \A p \in R : Anotadas(asignadas[p], r) = 0
        <4>1. asignadas \in [Pids -> TAsignadas]  BY <1>1 DEF InvTipos
        <4>2. QED  BY <1>4, <4>1, TotalTipo
      <3>3. QED  BY <3>1, <3>2, TotalCero
    <2>3. instancias[r] = Instancias[r] /\ Instancias[r] \in Int  BY <1>2, ConstantesOK
    <2>4. QED  BY <1>2, <2>1, <2>2, <2>3 DEF Balance
  <1>6. Visita
    <2>1. \A x : Veces(<<>>, x) = 0  BY VecesNada
    <2>2. QED  BY <1>2, <2>1 DEF Visita
  <1>7. EnPrograma
    <2>1. SUFFICES ASSUME NEW p \in Pids PROVE pc[p] \in 1 .. Len(Programa[p]) + 1  BY DEF EnPrograma
    <2>2. Len(Programa[p]) \in Nat  BY <1>3
    <2>3. QED  BY <1>2, <2>2
  <1>8. Curso
    <2>1. \A S : <<>> \in Seq(S)  OBVIOUS
    <2>2. QED  BY <1>2, <2>1 DEF Curso, FaseLibre, Callado, SoloPcbs
  <1>9. Finados
    <2>1. \A S : <<>> \in Seq(S)  OBVIOUS
    <2>2. QED  BY <1>2, <2>1 DEF Finados, FinElim, FinKernel, FinCpu
  <1>10. Anotado
    <2>1. SUFFICES ASSUME NEW p \in Pids, NEW r \in Recursos
                   PROVE  Anotadas(asignadas[p], r) = Saldo(Programa[p], r, Hasta(p))
      BY DEF Anotado
    <2>2. Hasta(p) = 1  BY <1>2 DEF Hasta, SinAnotar
    <2>3. Saldo(Programa[p], r, 1) = 0  BY <1>3, SaldoNada
    <2>4. QED  BY <1>4, <2>2, <2>3
  <1>11. QED  BY <1>1, <1>5, <1>6, <1>7, <1>8, <1>9, <1>10 DEF InvCuentas, Mientras, Balances

\* ... and so in every state.
THEOREM InvCuentasSiempre == Spec => []InvCuentas
  <1>1. Init => InvCuentas  BY InvCuentasInit
  <1>2. InvCuentas /\ [Next]_vars => InvCuentas'  BY InvCuentasNext
  <1>3. QED  BY <1>1, <1>2, PTL DEF Spec

\* CuentaInstancias: WAIT and SIGNAL of recibir_dispatch, and the release of eliminacion_de_procesos
\* in its own thread, neither lose nor invent an instance: for every resource, its counter, what is
\* noted down for the processes not destroyed and what the threads have in their hands add up to
\* INSTANCIAS_RECURSOS, whatever the processes, resources and programs.
THEOREM InstanciasSiempre == Spec => []CuentaInstancias
  <1>1. InvCuentas => CuentaInstancias  BY CuentaEs DEF InvCuentas, Balances
  <1>2. QED  BY <1>1, InvCuentasSiempre, PTL
=============================================================================
