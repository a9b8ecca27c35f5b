---------------------------- MODULE ListasProofs ----------------------------
(***************************************************************************)
(* What the lists of so-commons-library do to their elements: the lemmas   *)
(* that the proofs about the queues of the kernel and about the list of    *)
(* processes of memory share.                                              *)
(***************************************************************************)
EXTENDS Integers, Sequences, SequencesExt, SequenceTheorems, WellFoundedInduction, TLAPS

-----------------------------------------------------------------------------
(* Lists without repetitions *)

\* list_add of something that is not in the list.
LEMMA AlFinal ==
    ASSUME NEW S, NEW s \in Seq(S), NEW p \in S
    PROVE  /\ \A q : Contains(Append(s, p), q) <=> (Contains(s, q) \/ q = p)
           /\ IsInjective(s) /\ ~Contains(s, p) => IsInjective(Append(s, p))
  <1>1. /\ Append(s, p) \in Seq(S) /\ Len(Append(s, p)) = Len(s) + 1 /\ Len(s) \in Nat
        /\ \A k \in 1 .. Len(s) : Append(s, p)[k] = s[k]
        /\ Append(s, p)[Len(s) + 1] = p
    OBVIOUS
  <1>2. \A k \in 1 .. Len(s) + 1 : k \in 1 .. Len(s) \/ k = Len(s) + 1  BY <1>1
  <1>3. \A k \in 1 .. Len(s) : k \in 1 .. Len(s) + 1  BY <1>1
  <1>4. Len(s) + 1 \in 1 .. Len(s) + 1  BY <1>1
  <1>5. \A q : Contains(Append(s, p), q) <=> (Contains(s, q) \/ q = p)
    BY <1>1, <1>2, <1>3, <1>4 DEF Contains
  <1>6. ASSUME IsInjective(s), ~Contains(s, p) PROVE IsInjective(Append(s, p))
    BY <1>1, <1>2, <1>6 DEF IsInjective, Contains
  <1>7. QED  BY <1>5, <1>6

\* queue_pop, and recv of a socket.
LEMMA DelFrente ==
    ASSUME NEW S, NEW s \in Seq(S), s # <<>>
    PROVE  /\ Contains(s, Head(s))
           /\ \A q : Contains(Tail(s), q) => Contains(s, q)
           /\ \A q : Contains(s, q) => Contains(Tail(s), q) \/ q = Head(s)
           /\ IsInjective(s) => IsInjective(Tail(s)) /\ ~Contains(Tail(s), Head(s))
  <1>1. /\ Tail(s) \in Seq(S) /\ Len(Tail(s)) = Len(s) - 1 /\ Len(s) \in Nat \ {0}
        /\ \A k \in 1 .. Len(Tail(s)) : Tail(s)[k] = s[k + 1]
        /\ Head(s) = s[1]
    OBVIOUS
  <1>2. \A k \in 1 .. Len(Tail(s)) : k + 1 \in 1 .. Len(s) /\ k + 1 # 1  BY <1>1
  <1>3. 1 \in 1 .. Len(s)  BY <1>1
  <1>4. Contains(s, Head(s))  BY <1>1, <1>3 DEF Contains
  <1>5. \A q : Contains(Tail(s), q) => Contains(s, q)  BY <1>1, <1>2 DEF Contains
  <1>6. ASSUME NEW q, Contains(s, q) PROVE Contains(Tail(s), q) \/ q = Head(s)
    <2>1. PICK k \in 1 .. Len(s) : s[k] = q  BY <1>6 DEF Contains
    <2>2. CASE k = 1  BY <1>1, <2>1, <2>2
    <2>3. CASE k # 1
      <3>1. k - 1 \in 1 .. Len(Tail(s)) /\ (k - 1) + 1 = k  BY <1>1, <2>3
      <3>2. Tail(s)[k - 1] = q  BY <1>1, <2>1, <3>1
      <3>3. QED  BY <3>1, <3>2 DEF Contains
    <2>4. QED  BY <2>2, <2>3
  <1>7. ASSUME IsInjective(s) PROVE IsInjective(Tail(s)) /\ ~Contains(Tail(s), Head(s))
    <2>1. \A j, k \in 1 .. Len(s) : s[j] = s[k] => j = k  BY <1>1, <1>7 DEF IsInjective
    <2>2. ASSUME NEW j \in 1 .. Len(Tail(s)), NEW k \in 1 .. Len(Tail(s)), Tail(s)[j] = Tail(s)[k]
          PROVE  j = k
      <3>1. j + 1 = k + 1  BY <1>1, <1>2, <2>1, <2>2
      <3>2. QED  BY <3>1
    <2>3. DOMAIN Tail(s) = 1 .. Len(Tail(s))  BY <1>1
    <2>4. IsInjective(Tail(s))  BY <2>2, <2>3 DEF IsInjective
    <2>5. ~Contains(Tail(s), Head(s))  BY <1>1, <1>2, <1>3, <2>1 DEF Contains
    <2>6. QED  BY <2>4, <2>5
  <1>8. QED  BY <1>4, <1>5, <1>6, <1>7

\* list_remove of the element that list_find found.
LEMMA DelMedio ==
    ASSUME NEW S, NEW s \in Seq(S), NEW k \in 1 .. Len(s)
    PROVE  /\ \A q : Contains(RemoveAt(s, k), q) => Contains(s, q)
           /\ \A q : Contains(s, q) => Contains(RemoveAt(s, k), q) \/ q = s[k]
           /\ IsInjective(s) => IsInjective(RemoveAt(s, k)) /\ ~Contains(RemoveAt(s, k), s[k])
  <1> DEFINE r == RemoveAt(s, k)
             De(j) == IF j < k THEN j ELSE j + 1
             a == SubSeq(s, 1, k - 1)
             b == SubSeq(s, k + 1, Len(s))
  <1>0. /\ Len(s) \in Nat
        /\ a \in Seq(S) /\ Len(a) = k - 1 /\ \A j \in 1 .. k - 1 : a[j] = s[j]
        /\ b \in Seq(S) /\ Len(b) = Len(s) - k /\ \A j \in 1 .. Len(s) - k : b[j] = s[k + j]
    OBVIOUS
  <1> HIDE DEF a, b
  <1>1. r \in Seq(S) /\ Len(r) = Len(s) - 1 /\ Len(s) \in Nat
    <2>1. a \o b \in Seq(S) /\ Len(a \o b) = Len(a) + Len(b)  BY <1>0, ConcatProperties
    <2>2. Len(a) + Len(b) = Len(s) - 1  BY <1>0
    <2>3. QED  BY <1>0, <2>1, <2>2 DEF RemoveAt, a, b
  <1>2. \A j \in 1 .. Len(r) : r[j] = s[De(j)] /\ De(j) \in 1 .. Len(s) /\ De(j) # k
    <2>1. ASSUME NEW j \in 1 .. Len(s) - 1
          PROVE  (a \o b)[j] = s[De(j)] /\ De(j) \in 1 .. Len(s) /\ De(j) # k
      <3>1. CASE j < k  BY <1>0, <3>1
      <3>2. CASE j >= k
        <4>1. (a \o b)[j] = b[j - (k - 1)]  BY <1>0, <3>2
        <4>2. j - (k - 1) \in 1 .. Len(s) - k /\ k + (j - (k - 1)) = j + 1  BY <1>0, <3>2
        <4>3. b[j - (k - 1)] = s[j + 1]  BY <1>0, <4>2
        <4>4. QED  BY <1>0, <3>2, <4>1, <4>3
      <3>3. QED  BY <1>0, <3>1, <3>2
    <2>2. r = a \o b  BY DEF RemoveAt, a, b
    <2>3. QED  BY <1>1, <2>1, <2>2
  <1> HIDE DEF r
  <1>3. \A q : Contains(r, q) => Contains(s, q)  BY <1>2 DEF Contains
  <1>4. ASSUME NEW q, Contains(s, q) PROVE Contains(r, q) \/ q = s[k]
    <2>1. PICK j \in 1 .. Len(s) : s[j] = q  BY <1>4 DEF Contains
    <2>2. CASE j = k  BY <2>1, <2>2
    <2>3. CASE j < k
      <3>1. j \in 1 .. Len(r) /\ De(j) = j  BY <1>1, <2>3
      <3>2. QED  BY <1>2, <2>1, <3>1 DEF Contains
    <2>4. CASE j > k
      <3>1. j - 1 \in 1 .. Len(r) /\ De(j - 1) = j  BY <1>1, <2>4
      <3>2. QED  BY <1>2, <2>1, <3>1 DEF Contains
    <2>5. QED  BY <2>2, <2>3, <2>4
  <1>5. ASSUME IsInjective(s) PROVE IsInjective(r) /\ ~Contains(r, s[k])
    <2>1. \A i, j \in 1 .. Len(s) : s[i] = s[j] => i = j  BY <1>1, <1>5 DEF IsInjective
    <2>2. \A i, j \in 1 .. Len(r) : De(i) = De(j) => i = j  BY <1>1
    <2>3. DOMAIN r = 1 .. Len(r)  BY <1>1
    <2> HIDE DEF De
    <2>4. IsInjective(r)  BY <1>2, <2>1, <2>2, <2>3 DEF IsInjective
    <2>5. ~Contains(r, s[k])  BY <1>2, <2>1 DEF Contains
    <2>6. QED  BY <2>4, <2>5
  <1>6. QED  BY <1>3, <1>4, <1>5 DEF r

-----------------------------------------------------------------------------
(* Concatenations *)

\* Numbers have a first one.
LEMMA PrimeroDe ==
    ASSUME NEW S, S \subseteq Nat, S # {}
    PROVE  \E b \in S : \A c \in S : b <= c
  <1>1. PICK b \in S : \A c \in S : <<c, b>> \notin OpToRel(<, Nat)
    BY NatLessThanWellFounded, WFMin, Zenon
  <1>2. \A c \in S : ~(c < b)  BY <1>1, Zenon DEF OpToRel
  <1>3. QED  BY <1>2

\* The sequences of ss, one after the other.
Concatena(ss, n) ==
    \E g : g = [i \in 1..n |-> IF i = 1 THEN ss[i] ELSE g[i - 1] \o ss[i]]

\* A function by recursion on 1..n exists: if it did not, the first n without one would
\* have a predecessor with one, and one more value to add to it.
LEMMA ConcatenaExiste == ASSUME NEW ss, NEW n \in Nat PROVE Concatena(ss, n)
  <1>1. SUFFICES ASSUME ~Concatena(ss, n) PROVE FALSE
    OBVIOUS
  <1> DEFINE S == {m \in Nat : ~Concatena(ss, m)}
  <1>2. PICK m \in S : \A k \in S : m <= k  BY <1>1, PrimeroDe
  <1>3. m # 0
    <2>1. \A g : [i \in 1..0 |-> IF i = 1 THEN ss[i] ELSE g[i - 1] \o ss[i]] = <<>>  OBVIOUS
    <2>2. Concatena(ss, 0)  BY <2>1 DEF Concatena
    <2>3. QED  BY <1>2, <2>2
  <1>4. m - 1 \in Nat /\ m - 1 \notin S  BY <1>2, <1>3
  <1>5. PICK g : g = [i \in 1..m - 1 |-> IF i = 1 THEN ss[i] ELSE g[i - 1] \o ss[i]]
    BY <1>4 DEF Concatena
  <1> DEFINE h == [i \in 1..m |-> IF i = m THEN IF m = 1 THEN ss[1] ELSE g[m - 1] \o ss[m] ELSE g[i]]
  <1>6. \A i \in 1..m : h[i] = IF i = 1 THEN ss[i] ELSE h[i - 1] \o ss[i]
    <2> SUFFICES ASSUME NEW i \in 1..m PROVE h[i] = IF i = 1 THEN ss[i] ELSE h[i - 1] \o ss[i]
      OBVIOUS
    <2>1. CASE i = m  BY <2>1, <1>2
    <2>2. CASE i # m
      <3>1. i \in 1..m - 1 /\ h[i] = g[i]  BY <2>2, <1>2
      <3>2. g[i] = IF i = 1 THEN ss[i] ELSE g[i - 1] \o ss[i]  BY <1>5, <3>1
      <3>3. i # 1 => i - 1 \in 1..m /\ i - 1 # m  BY <3>1, <1>2
      <3>4. i # 1 => h[i - 1] = g[i - 1]  BY <3>3
      <3>5. QED  BY <3>1, <3>2, <3>4
    <2>3. QED  BY <2>1, <2>2
  <1>7. h = [i \in 1..m |-> IF i = 1 THEN ss[i] ELSE h[i - 1] \o ss[i]]
    <2> HIDE DEF h
    <2>1. h = [i \in 1..m |-> h[i]]  BY DEF h
    <2>2. QED  BY <2>1, <1>6, Zenon
  <1>8. Concatena(ss, m)  BY <1>7 DEF Concatena
  <1>9. QED  BY <1>2, <1>8

\* What holds of the first of the sequences, and goes on holding as each of the others is
\* added at the end, holds of all of them together.
LEMMA Aplanar ==
    ASSUME NEW ss, NEW n \in Nat, Len(ss) = n, n # 0, NEW T, ss[1] \in T,
           \A s \in T : \A i \in 2..n : s \o ss[i] \in T
    PROVE  FlattenSeq(ss) \in T
  <1> DEFINE g == CHOOSE f : f = [i \in 1..n |-> IF i = 1 THEN ss[i] ELSE f[i - 1] \o ss[i]]
  <1>1. g = [i \in 1..n |-> IF i = 1 THEN ss[i] ELSE g[i - 1] \o ss[i]]
    BY ConcatenaExiste, Zenon DEF Concatena
  <1>2. FlattenSeq(ss) = g[n]
    BY Zenon DEF FlattenSeq
  <1> HIDE DEF g
  <1>3. SUFFICES ASSUME g[n] \notin T PROVE FALSE
    BY <1>2
  <1> DEFINE S == {m \in 1..n : g[m] \notin T}
  <1>4. PICK m \in S : \A k \in S : m <= k
    <2>1. S \subseteq Nat /\ S # {}  BY <1>3
    <2>2. QED  BY <2>1, PrimeroDe
  <1>5. g[m] = IF m = 1 THEN ss[m] ELSE g[m - 1] \o ss[m]  BY <1>1, <1>4
  <1>6. m # 1  BY <1>4, <1>5
  <1>7. m - 1 \in 1..n /\ m - 1 \notin S /\ m \in 2..n  BY <1>4, <1>6
  <1>8. g[m] \in T  BY <1>5, <1>6, <1>7
  <1>9. QED  BY <1>4, <1>8
=============================================================================
