----------------------- MODULE DistributedBatchProofs -----------------------
(***************************************************************************)
(* Proof that a batch that is padded or balanced, chunked, split into      *)
(* micro-batches, restored and collected gets its own results, that no     *)
(* worker is left alone in a forward pass, that groups stay together, and  *)
(* how level the balancing is: for any number of ranks and replicas, any   *)
(* rows, and any lengths.                                                  *)
(*                                                                         *)
(* First the algorithms of SequenceBalancing, each by induction over the   *)
(* function that it is defined with: Sorted permutes (SortedPermutes);     *)
(* karmarkar_karp keeps a queue of states that hold every row once, in     *)
(* sets of equal size and with a spread no wider than two rows are apart   *)
(* (Kept, Queue), so that the parts it returns are Parted; micro-batches   *)
(* are Parts, and restoring undoes their order (RestoreIs).                *)
(*                                                                         *)
(* Then the invariant of the pass: what a worker has computed is what its  *)
(* micro-batches so far pick from its chunk (Progress); its chunk is that  *)
(* of its rank (Dispatched); the reduction leaves all workers with one     *)
(* number of micro-batches (Agreed).                                       *)
(***************************************************************************)
EXTENDS DistributedBatch, SequenceFacts

-----------------------------------------------------------------------------
(* Sorted.                                                                 *)

\* Where Sorted puts the n-th element.
Place(less, n) == Cardinality({i \in 1..(n - 1) : <<n, i>> \notin less}) + 1

\* There are n places for the n-th element.
LEMMA PlaceInReach ==
    ASSUME NEW less, NEW n \in Nat \ {0}
    PROVE  Place(less, n) \in 1..n
  <1> DEFINE T == 1..(n - 1)
             E == {i \in T : <<n, i>> \notin less}
  <1>1. IsFiniteSet(T) /\ Cardinality(T) = n - 1
    <2>1. 1 \in Int /\ n - 1 \in Int
      OBVIOUS
    <2>2. /\ IsFiniteSet(1..(n - 1))
          /\ Cardinality(1..(n - 1)) = IF 1 > n - 1 THEN 0 ELSE (n - 1) - 1 + 1
      BY <2>1, FS_Interval
    <2> QED
      BY <2>2
  <1>2. E \subseteq T
    OBVIOUS
  <1> HIDE DEF E, T
  <1>3. IsFiniteSet(E) /\ Cardinality(E) <= Cardinality(T)
    BY <1>1, <1>2, FS_Subset
  <1>4. Cardinality(E) \in Nat
    BY <1>3, FS_CardinalityType
  <1>5. Place(less, n) = Cardinality(E) + 1
    BY DEF Place, E, T
  <1> QED
    BY <1>1, <1>3, <1>4, <1>5

\* The function that Sorted defines.
LEMMA SortedUnfold ==
    ASSUME NEW s, NEW less, NEW N, Len(s) = N,
           \E h : h = [n \in 0..N |->
                        IF n = 0 THEN <<>>
                        ELSE InsertAt(h[n - 1], Place(less, n), s[n])]
    PROVE  \E h : /\ h = [n \in 0..N |->
                            IF n = 0 THEN <<>>
                            ELSE InsertAt(h[n - 1], Place(less, n), s[n])]
                  /\ Sorted(s, less) = h[N]
  BY DEF Sorted, Place

\* The sequences that Sorted goes through.
Insertions(f, s, less) ==
    /\ f[0] = <<>>
    /\ \A n \in 1..Len(s) :
            f[n] = InsertAt(f[n - 1], Place(less, n), s[n])

\* Sorted returns the last of these sequences.
LEMMA SortedRuns ==
    ASSUME NEW S, NEW s \in Seq(S), NEW less
    PROVE  \E f : /\ Insertions(f, s, less)
                  /\ \A n \in 0..Len(s) : f[n] \in Seq(S) /\ Len(f[n]) = n
                  /\ Sorted(s, less) = f[Len(s)]
  <1> DEFINE N == Len(s)
             V == Seq(S)
             F == [p \in V \X (1..N) |->
                        IF Len(p[1]) = p[2] - 1
                        THEN InsertAt(p[1], Place(less, p[2]), s[p[2]])
                        ELSE p[1]]
  <1>1. N \in Nat /\ \A n \in 1..N : s[n] \in S
    BY LenProperties, ElementOfSeq
  <1>2. <<>> \in V /\ Len(<<>>) = 0
    BY EmptySeq
  <1>3. ASSUME NEW v \in V, NEW n \in 1..N, Len(v) = n - 1
        PROVE  /\ InsertAt(v, Place(less, n), s[n]) \in V
               /\ Len(InsertAt(v, Place(less, n), s[n])) = n
    <2>1. n \in Nat \ {0} /\ s[n] \in S /\ Len(v) + 1 = n
      BY <1>1, <1>3
    <2>2. Place(less, n) \in 1..(Len(v) + 1)
      BY <2>1, PlaceInReach
    <2> QED
      BY <2>1, <2>2, InsertAtPlaces
  <1>4. \A v \in V, n \in 1..N :
            F[<<v, n>>] = IF Len(v) = n - 1
                          THEN InsertAt(v, Place(less, n), s[n]) ELSE v
    OBVIOUS
  <1>5. F \in [V \X (1..N) -> V]
    BY <1>3
  <1> HIDE DEF F, N, V
  <1>6. Steps(V, N, <<>>, F)
    BY <1>1, <1>2, <1>5 DEF Steps
  <1>7. \E f : Runs(f, V, N, <<>>, F)
    BY <1>6, RecursionExists, Zenon
  <1>8. PICK f \in [0..N -> V] :
            f[0] = <<>> /\ \A n \in 1..N : f[n] = F[<<f[n - 1], n>>]
    BY <1>7 DEF Runs
  <1> DEFINE Good == {n \in Nat : n <= N => Len(f[n]) = n}
  <1>9. 0 \in Good
    BY <1>2, <1>8
  <1>10. ASSUME NEW n \in Good PROVE n + 1 \in Good
    <2>1. CASE n + 1 <= N
      <3>1. /\ n + 1 \in 1..N /\ (n + 1) - 1 = n /\ n \in 0..N
            /\ Len(f[n]) = n
        BY <1>1, <2>1
      <3>2. f[n] \in V /\ f[n + 1] = F[<<f[n], n + 1>>]
        BY <1>8, <3>1
      <3>3. F[<<f[n], n + 1>>] = InsertAt(f[n], Place(less, n + 1), s[n + 1])
        BY <1>4, <3>1, <3>2
      <3>4. Len(f[n + 1]) = n + 1
        BY <1>3, <3>1, <3>2, <3>3
      <3> QED
        BY <3>4
    <2>2. CASE ~(n + 1 <= N)
      BY <2>2
    <2> QED
      BY <2>1, <2>2
  <1>11. Good = Nat
    <2> HIDE DEF Good
    <2>1. Good \in SUBSET Nat
      BY DEF Good
    <2> QED
      BY <1>9, <1>10, <2>1, Induction
  <1>12. \A n \in 0..N : f[n] \in V /\ Len(f[n]) = n
    BY <1>1, <1>8, <1>11, SMTT(40)
  <1>13. ASSUME NEW n \in 1..N
         PROVE  f[n] = InsertAt(f[n - 1], Place(less, n), s[n])
    <2>1. n - 1 \in 0..N
      BY <1>1
    <2>2. f[n - 1] \in V /\ Len(f[n - 1]) = n - 1
      BY <1>12, <2>1
    <2> QED
      BY <1>4, <1>8, <2>2
  <1>14. f = [n \in 0..N |-> IF n = 0 THEN <<>>
                            ELSE InsertAt(f[n - 1], Place(less, n), s[n])]
    <2>1. DOMAIN f = 0..N /\ f = [n \in 0..N |-> f[n]]
      BY <1>8
    <2>2. ASSUME NEW n \in 0..N
          PROVE  f[n] = IF n = 0 THEN <<>>
                        ELSE InsertAt(f[n - 1], Place(less, n), s[n])
      <3>1. n # 0 => n \in 1..N
        OBVIOUS
      <3> QED
        BY <1>8, <1>13, <3>1
    <2> QED
      BY <2>1, <2>2
  <1>15. PICK h : /\ h = [n \in 0..N |->
                            IF n = 0 THEN <<>>
                            ELSE InsertAt(h[n - 1], Place(less, n), s[n])]
                  /\ Sorted(s, less) = h[N]
    <2>1. \E h : h = [n \in 0..N |->
                        IF n = 0 THEN <<>>
                        ELSE InsertAt(h[n - 1], Place(less, n), s[n])]
      BY <1>14, Zenon
    <2>2. Len(s) = N
      BY DEF N
    <2> QED
      BY <2>1, <2>2, SortedUnfold, SMTT(40)
  <1>16. Alike(h, f, N)
    <2>1. \A n \in 0..N : h[n] = IF n = 0 THEN <<>>
                            ELSE InsertAt(h[n - 1], Place(less, n), s[n])
      BY <1>15, Zenon
    <2>2. 0 \in 0..N /\ \A n \in 1..N : n \in 0..N /\ n # 0
      BY <1>1
    <2> QED
      BY <1>8, <1>13, <2>1, <2>2 DEF Alike
  <1>17. h[N] = f[N]
    <2>1. N \in 0..N
      BY <1>1
    <2> QED
      BY <1>1, <1>16, <2>1, RecursionUnique
  <1> QED
    BY <1>8, <1>12, <1>13, <1>15, <1>17 DEF N, V, Insertions

\* Of two elements one is not smaller than what it is not smaller than.
WeakOrder(less, N) ==
    /\ \A i, j \in 1..N : <<i, j>> \in less => <<j, i>> \notin less
    /\ \A i, j, k \in 1..N :
            <<i, k>> \in less => <<i, j>> \in less \/ <<j, k>> \in less

\* No element of s is smaller than one before it, in the order p.
Ranked(p, N, less) ==
    \A i, j \in 1..N : i < j => <<p[j], p[i]>> \notin less

\* The place of n among the first n - 1, in the order p.
LEMMA PlaceInOrder ==
    ASSUME NEW less, NEW N \in Nat, NEW n \in 1..N, NEW p,
           Reorders(p, n - 1), WeakOrder(less, N), Ranked(p, n - 1, less)
    PROVE  \A i \in 1..(n - 1) :
                i < Place(less, n) <=> <<n, p[i]>> \notin less
  <1> DEFINE M == n - 1
             D == {i \in 1..M : <<n, p[i]>> \notin less}
             E == {i \in 1..M : <<n, i>> \notin less}
  <1>1. /\ M \in Nat /\ \A i \in 1..M : i \in 1..N
        /\ p \in [1..M -> 1..M]
    <2>1. M \in Nat /\ \A i \in 1..M : i \in 1..N
      OBVIOUS
    <2>2. p \in [1..(n - 1) -> 1..(n - 1)]
      BY DEF Reorders
    <2> QED
      BY <2>1, <2>2
  <1>2. D \in SUBSET (1..M) /\ E \in SUBSET (1..M)
    OBVIOUS
  <1>3. ASSUME NEW i \in 1..M, NEW j \in 1..M, i < j, j \in D
        PROVE  i \in D
    <2>1. /\ p[i] \in 1..N /\ p[j] \in 1..N /\ n \in 1..N
          /\ <<p[j], p[i]>> \notin less /\ <<n, p[j]>> \notin less
      BY <1>1, <1>3 DEF Ranked
    <2>2. <<n, p[i]>> \in less =>
                <<n, p[j]>> \in less \/ <<p[j], p[i]>> \in less
      BY <2>1 DEF WeakOrder
    <2> QED
      BY <2>1, <2>2
  <1>4. Cardinality(D) = Cardinality(E)
    <2> DEFINE f == [i \in D |-> p[i]]
    <2>1. \A i \in D : f[i] = p[i] /\ i \in 1..M /\ p[i] \in E
      BY <1>1
    <2>2. f \in [D -> E]
      BY <2>1
    <2>3. \A k \in E : \E i \in D : f[i] = k
      <3> SUFFICES ASSUME NEW k \in E PROVE \E i \in D : f[i] = k
        OBVIOUS
      <3>1. PICK i \in 1..M : p[i] = k
        BY DEF Reorders
      <3>2. i \in D
        BY <3>1
      <3> QED
        BY <3>1, <3>2
    <2>4. \A i, j \in D : f[i] = f[j] => i = j
      BY <2>1 DEF Reorders
    <2> HIDE DEF f, D, E
    <2>5. f \in Bijection(D, E)
      BY <2>2, <2>3, <2>4 DEF Bijection, Injection, Surjection, IsInjective
    <2>6. ExistsBijection(D, E)
      BY <2>5 DEF ExistsBijection
    <2>7. IsFiniteSet(D)
      <3>1. IsFiniteSet(1..M)
        BY <1>1, FS_Interval
      <3> QED
        BY <1>2, <3>1, FS_Subset
    <2> QED
      BY <2>6, <2>7, FS_Bijection
  <1> DEFINE c == Cardinality(D)
  <1>5. D = 1..c
    <2> HIDE DEF D, M, c
    <2>1. D = 1..Cardinality(D)
      BY <1>1, <1>2, <1>3, InitialSegment
    <2> QED
      BY <2>1 DEF c
  <1>6. Place(less, n) = c + 1
    BY <1>4 DEF Place
  <1>7. c \in Nat
    <2>1. IsFiniteSet(1..M)
      BY <1>1, FS_Interval
    <2> HIDE DEF D
    <2> QED
      BY <1>2, <2>1, FS_Subset, FS_CardinalityType
  <1>8. \A i \in 1..M : i \in D <=> <<n, p[i]>> \notin less
    OBVIOUS
  <1> HIDE DEF c, D
  <1>9. \A i \in 1..M : i \in D <=> i < Place(less, n)
    <2> HIDE DEF M
    <2>1. \A i \in 1..M : i \in 1..c <=> i < c + 1
      BY <1>1, <1>7
    <2> QED
      BY <1>5, <1>6, <2>1
  <1> QED
    BY <1>8, <1>9

\* Sorted returns the elements in another order, and in the right one if
\* less is a weak order.
LEMMA SortedPermutes ==
    ASSUME NEW S, NEW s \in Seq(S), NEW less
    PROVE  /\ Sorted(s, less) \in Seq(S)
           /\ Len(Sorted(s, less)) = Len(s)
           /\ \E p : /\ Reorders(p, Len(s))
                     /\ \A i \in 1..Len(s) : Sorted(s, less)[i] = s[p[i]]
                     /\ WeakOrder(less, Len(s)) => Ranked(p, Len(s), less)
  <1> DEFINE N == Len(s)
  <1>1. N \in Nat /\ \A n \in 1..N : s[n] \in S
    BY LenProperties, ElementOfSeq
  <1>2. PICK f : /\ Insertions(f, s, less)
                 /\ \A n \in 0..N : f[n] \in Seq(S) /\ Len(f[n]) = n
                 /\ Sorted(s, less) = f[N]
    BY SortedRuns
  <1>3. \A n \in 1..N : f[n] = InsertAt(f[n - 1], Place(less, n), s[n])
    BY <1>2 DEF Insertions
  <1> DEFINE By(p, n) == /\ Reorders(p, n)
                         /\ \A i \in 1..n : f[n][i] = s[p[i]]
                         /\ WeakOrder(less, N) => Ranked(p, n, less)
             Good == {n \in Nat : n <= N => \E p : By(p, n)}
  <1> HIDE DEF N
  <1>4. 0 \in Good
    <2> DEFINE p == [i \in 1..0 |-> i]
    <2>1. 1..0 = {} /\ 0 \in Nat
      OBVIOUS
    <2>2. By(p, 0)
      BY <2>1 DEF Reorders, Ranked
    <2> QED
      BY <2>1, <2>2
  <1>5. ASSUME NEW m \in Good PROVE m + 1 \in Good
    <2>1. CASE m + 1 <= N
      <3> DEFINE n == m + 1
                 P == Place(less, n)
      <3>1. /\ n \in 1..N /\ n - 1 = m /\ m \in 0..N /\ n \in Nat \ {0}
            /\ m \in Nat
        BY <1>1, <2>1
      <3>2. PICK p : By(p, m)
        BY <2>1, <3>1
      <3>3. P \in 1..n
        BY <3>1, PlaceInReach
      <3> HIDE DEF P, n
      <3>4. /\ f[m] \in Seq(S) /\ Len(f[m]) = m /\ s[n] \in S
            /\ f[n] = InsertAt(f[m], P, s[n]) /\ Len(f[m]) + 1 = n
        BY <1>1, <1>2, <1>3, <3>1 DEF P
      <3>5. \A i \in 1..n : f[n][i] = IF i < P THEN f[m][i]
                                      ELSE IF i = P THEN s[n] ELSE f[m][i - 1]
        <4>1. \A i \in 1..(Len(f[m]) + 1) :
                InsertAt(f[m], P, s[n])[i]
                    = IF i < P THEN f[m][i]
                      ELSE IF i = P THEN s[n] ELSE f[m][i - 1]
          <5> DEFINE t == f[m]
                     x == s[n]
          <5>1. t \in Seq(S) /\ x \in S /\ P \in 1..(Len(t) + 1)
            BY <3>3, <3>4
          <5> HIDE DEF t, x
          <5>2. \A i \in 1..(Len(t) + 1) :
                    InsertAt(t, P, x)[i]
                        = IF i < P THEN t[i] ELSE IF i = P THEN x ELSE t[i - 1]
            BY <5>1, InsertAtPlaces
          <5> QED
            BY <5>2 DEF t, x
        <4> QED
          BY <3>4, <4>1
      <3> DEFINE q == [i \in 1..n |-> IF i < P THEN p[i]
                                      ELSE IF i = P THEN n ELSE p[i - 1]]
      <3>6. /\ p \in [1..m -> 1..m]
            /\ \A i, j \in 1..m : p[i] = p[j] => i = j
            /\ \A k \in 1..m : \E i \in 1..m : p[i] = k
        BY <3>2 DEF Reorders
      <3>7. \A i \in 1..n : /\ i < P => i \in 1..m
                            /\ i > P => i - 1 \in 1..m
                            /\ ~(i < P) /\ i # P => i > P
        BY <3>1, <3>3
      <3>8. \A i \in 1..n :
                /\ i < P => q[i] = p[i]
                /\ i = P => q[i] = n
                /\ i > P => q[i] = p[i - 1]
        BY <3>3
      <3>9. \A i \in 1..m : p[i] \in 1..n /\ p[i] # n
        <4>1. \A i \in 1..m : p[i] \in 1..m
          BY <3>6
        <4>2. \A k \in 1..m : k \in 1..n /\ k # n
          BY <3>1
        <4> QED
          BY <4>1, <4>2
      <3> HIDE DEF q
      <3>10. /\ q \in [1..n -> 1..n]
             /\ \A i \in 1..n : f[n][i] = s[q[i]]
        <4>1. ASSUME NEW i \in 1..n
              PROVE  q[i] \in 1..n /\ f[n][i] = s[q[i]]
          <5>1. CASE i < P
            BY <3>2, <3>5, <3>7, <3>8, <3>9, <5>1
          <5>2. CASE i = P
            <6>1. ~(i < P) /\ n \in 1..n
              BY <3>1, <3>3, <5>2
            <6> QED
              BY <3>5, <3>8, <5>2, <6>1
          <5>3. CASE i > P
            <6>1. ~(i < P) /\ i # P /\ i - 1 \in 1..m
              BY <3>3, <3>7, <5>3
            <6> QED
              BY <3>2, <3>5, <3>8, <3>9, <5>3, <6>1
          <5> QED
            BY <3>7, <5>1, <5>2, <5>3
        <4>2. q = [i \in 1..n |-> q[i]]
          BY DEF q
        <4> QED
          BY <4>1, <4>2
      <3>11. ASSUME NEW i \in 1..n, NEW j \in 1..n, i < j PROVE q[i] # q[j]
        <4>1. /\ i < P /\ j < P => p[i] # p[j]
              /\ i < P /\ j > P => p[i] # p[j - 1]
              /\ i > P /\ j > P => p[i - 1] # p[j - 1]
          <5>1. i < P /\ j < P => i \in 1..m /\ j \in 1..m /\ i # j
            BY <3>7, <3>11
          <5>2. i < P /\ j > P => i \in 1..m /\ j - 1 \in 1..m /\ i # j - 1
            BY <3>7, <3>3
          <5>3. i > P /\ j > P
                    => i - 1 \in 1..m /\ j - 1 \in 1..m /\ i - 1 # j - 1
            BY <3>7, <3>11
          <5> QED
            BY <3>6, <5>1, <5>2, <5>3
        <4>2. \/ i < P /\ j < P
              \/ i < P /\ j = P
              \/ i < P /\ j > P
              \/ i = P /\ j > P
              \/ i > P /\ j > P
          BY <3>3, <3>11
        <4> QED
          BY <3>7, <3>8, <3>9, <4>1, <4>2
      <3>12. \A k \in 1..n : \E i \in 1..n : q[i] = k
        <4> SUFFICES ASSUME NEW k \in 1..n PROVE \E i \in 1..n : q[i] = k
          OBVIOUS
        <4>1. CASE k = n
          BY <3>3, <3>8, <4>1
        <4>2. CASE k # n
          <5>1. k \in 1..m
            BY <3>1, <4>2
          <5>2. PICK i \in 1..m : p[i] = k
            BY <3>6, <5>1
          <5>3. CASE i < P
            <6>1. i \in 1..n
              BY <3>1
            <6> QED
              BY <3>8, <5>2, <5>3, <6>1
          <5>4. CASE ~(i < P)
            <6>1. i + 1 \in 1..n /\ i + 1 > P /\ (i + 1) - 1 = i
              BY <3>1, <3>3, <5>4
            <6> QED
              BY <3>8, <5>2, <6>1
          <5> QED
            BY <5>3, <5>4
        <4> QED
          BY <4>1, <4>2
      <3>13. Reorders(q, n)
        <4>1. \A i, j \in 1..n : q[i] = q[j] => i = j
          <5> SUFFICES ASSUME NEW i \in 1..n, NEW j \in 1..n, i # j
                       PROVE  q[i] # q[j]
            OBVIOUS
          <5>1. i < j \/ j < i
            OBVIOUS
          <5> QED
            BY <3>11, <5>1
        <4> QED
          BY <3>10, <3>12, <4>1 DEF Reorders
      <3>14. ASSUME WeakOrder(less, N) PROVE Ranked(q, n, less)
        <4>1. Reorders(p, n - 1) /\ Ranked(p, n - 1, less)
          BY <3>1, <3>2, <3>14
        <4>2. \A i \in 1..m : i < P <=> <<n, p[i]>> \notin less
          BY <1>1, <3>1, <3>14, <4>1, PlaceInOrder DEF P
        <4>3. ASSUME NEW i \in 1..n, NEW j \in 1..n, i < j
              PROVE  <<q[j], q[i]>> \notin less
          <5>1. CASE i < P /\ j < P
            <6>1. i \in 1..m /\ j \in 1..m /\ q[i] = p[i] /\ q[j] = p[j]
              BY <3>7, <3>8, <5>1
            <6> QED
              BY <3>1, <4>1, <4>3, <6>1 DEF Ranked
          <5>2. CASE i < P /\ j = P
            <6>1. i \in 1..m /\ q[i] = p[i] /\ q[j] = n
              BY <3>7, <3>8, <5>2
            <6> QED
              BY <4>2, <5>2, <6>1
          <5>3. CASE i < P /\ j > P
            <6>1. /\ i \in 1..m /\ j - 1 \in 1..m /\ i < j - 1
                  /\ q[i] = p[i] /\ q[j] = p[j - 1]
              BY <3>3, <3>7, <3>8, <5>3
            <6> QED
              BY <3>1, <4>1, <6>1 DEF Ranked
          <5>4. CASE i = P /\ j > P
            <6>1. /\ j - 1 \in 1..m /\ ~(j - 1 < P)
                  /\ q[i] = n /\ q[j] = p[j - 1]
              BY <3>3, <3>7, <3>8, <5>4
            <6>2. <<n, p[j - 1]>> \in less
              BY <4>2, <6>1
            <6>3. n \in 1..N /\ p[j - 1] \in 1..N
              BY <1>1, <3>1, <3>6, <6>1
            <6> QED
              BY <3>14, <6>1, <6>2, <6>3 DEF WeakOrder
          <5>5. CASE i > P /\ j > P
            <6>1. /\ i - 1 \in 1..m /\ j - 1 \in 1..m /\ i - 1 < j - 1
                  /\ q[i] = p[i - 1] /\ q[j] = p[j - 1]
              BY <3>7, <3>8, <4>3, <5>5
            <6> QED
              BY <3>1, <4>1, <6>1 DEF Ranked
          <5>6. \/ i < P /\ j < P
                \/ i < P /\ j = P
                \/ i < P /\ j > P
                \/ i = P /\ j > P
                \/ i > P /\ j > P
            BY <3>3, <4>3
          <5> QED
            BY <5>1, <5>2, <5>3, <5>4, <5>5, <5>6
        <4> QED
          BY <4>3 DEF Ranked
      <3>15. By(q, n)
        BY <3>10, <3>13, <3>14
      <3> QED
        BY <3>1, <3>15 DEF n
    <2>2. CASE ~(m + 1 <= N)
      BY <2>2
    <2> QED
      BY <2>1, <2>2
  <1>6. Good = Nat
    <2> HIDE DEF Good
    <2>1. Good \in SUBSET Nat
      BY DEF Good
    <2> QED
      BY <1>4, <1>5, <2>1, Induction
  <1>7. PICK p : By(p, N)
    BY <1>1, <1>6
  <1>8. N \in 0..N
    BY <1>1
  <1> QED
    BY <1>2, <1>7, <1>8 DEF N

-----------------------------------------------------------------------------
(* Total.                                                                  *)

\* The totals on the way to that of N rows.
TotalRun(f, values, rows, N) ==
    f = [n \in 0..N |-> IF n = 0 THEN 0 ELSE f[n - 1] + values[rows[n]]]

\* The function that Total defines.
LEMMA TotalUnfold ==
    ASSUME NEW values, NEW rows, NEW N, Len(rows) = N,
           \E f : TotalRun(f, values, rows, N)
    PROVE  \E f : TotalRun(f, values, rows, N) /\ Total(values, rows) = f[N]
  BY DEF Total, TotalRun

\* The values of rows, in their order.
Listed(values, rows) == [i \in 1..Len(rows) |-> values[rows[i]]]

\* Every row of R has a number.
Valued(values, R) == \A r \in R : values[r] \in Int

\* Total is the sum of the values.
LEMMA TotalIsSum ==
    ASSUME NEW R, NEW values, Valued(values, R), NEW rows \in Seq(R)
    PROVE  /\ Numbers(Listed(values, rows), Len(rows))
           /\ Total(values, rows) = SumTo(Listed(values, rows), Len(rows))
           /\ Total(values, rows) \in Int
  <1> DEFINE N == Len(rows)
             g == Listed(values, rows)
  <1>1. /\ N \in Nat
        /\ \A i \in 1..N : g[i] = values[rows[i]] /\ values[rows[i]] \in Int
    BY LenProperties, ElementOfSeq DEF Listed, Valued
  <1>2. N = Len(rows)
    OBVIOUS
  <1> HIDE DEF N, g
  <1>3. Numbers(g, N)
    BY <1>1 DEF Numbers
  <1>4. PICK e : e \in [0..N -> Int] /\ Adds(e, g, N)
    BY <1>1, <1>3, AddsExists
  <1>5. e = [n \in 0..N |-> IF n = 0 THEN 0 ELSE e[n - 1] + values[rows[n]]]
    <2>1. e = [n \in 0..N |-> e[n]]
      BY <1>4
    <2>2. ASSUME NEW n \in 0..N
          PROVE  e[n] = IF n = 0 THEN 0 ELSE e[n - 1] + values[rows[n]]
      <3>1. n # 0 => n \in 1..N
        BY <1>1
      <3> QED
        BY <1>1, <1>4, <3>1 DEF Adds
    <2> QED
      BY <2>1, <2>2
  <1>6. \E f : TotalRun(f, values, rows, N)
    <2>1. TotalRun(e, values, rows, N)
      BY <1>5, Zenon DEF TotalRun
    <2> QED
      BY <2>1
  <1>7. PICK f : TotalRun(f, values, rows, N) /\ Total(values, rows) = f[N]
    BY <1>2, <1>6, TotalUnfold, Zenon
  <1>8. Adds(f, g, N)
    <2>1. \A n \in 0..N : f[n] = IF n = 0 THEN 0
                                 ELSE f[n - 1] + values[rows[n]]
      BY <1>7, Zenon DEF TotalRun
    <2>2. 0 \in 0..N /\ \A n \in 1..N : n \in 0..N /\ n # 0
      BY <1>1
    <2> QED
      BY <1>1, <2>1, <2>2 DEF Adds
  <1>9. SumTo(g, N) = f[N] /\ SumTo(g, N) \in Int
    BY <1>1, <1>3, <1>8, SumIs
  <1> QED
    BY <1>2, <1>3, <1>7, <1>9 DEF N, g

\* No rows have no total.
LEMMA TotalEmpty ==
    ASSUME NEW values
    PROVE  Total(values, <<>>) = 0
  <1>1. Valued(values, {}) /\ <<>> \in Seq({}) /\ Len(<<>>) = 0
    BY EmptySeq DEF Valued
  <1> DEFINE g == Listed(values, <<>>)
  <1> HIDE DEF g
  <1>2. Numbers(g, 0) /\ Total(values, <<>>) = SumTo(g, 0)
    BY <1>1, TotalIsSum DEF g
  <1> QED
    BY <1>2, SumSteps

\* Values that are not negative have no negative total.
LEMMA TotalOfNats ==
    ASSUME NEW R, NEW values, \A r \in R : values[r] \in Nat,
           NEW rows \in Seq(R)
    PROVE  Total(values, rows) \in Nat
  <1> DEFINE N == Len(rows)
             g == Listed(values, rows)
  <1>1. N \in Nat /\ \A i \in 1..N : g[i] \in Nat
    BY LenProperties, ElementOfSeq DEF Listed
  <1>2. Valued(values, R)
    BY DEF Valued
  <1> HIDE DEF N, g
  <1>3. Total(values, rows) = SumTo(g, N)
    BY <1>2, TotalIsSum DEF N, g
  <1>4. SumTo(g, N) \in Nat
    <2>1. N \in Nat /\ N \in 0..N
      BY <1>1
    <2>2. \A n \in 0..N : SumTo(g, n) \in Nat
      BY <1>1, SumOfNats
    <2> QED
      BY <2>1, <2>2
  <1> QED
    BY <1>3, <1>4

\* Rows with the same values, one by one, have the same total.
LEMMA TotalSame ==
    ASSUME NEW R, NEW values, Valued(values, R), NEW rows \in Seq(R),
           NEW T, NEW others, Valued(others, T), NEW more \in Seq(T),
           Len(more) = Len(rows),
           \A i \in 1..Len(rows) : values[rows[i]] = others[more[i]]
    PROVE  Total(values, rows) = Total(others, more)
  <1> DEFINE N == Len(rows)
             g == Listed(values, rows)
             h == Listed(others, more)
  <1>1. N \in Nat /\ Len(more) = N
    BY LenProperties
  <1>2. \A i \in 1..N : g[i] = h[i]
    BY <1>1 DEF Listed
  <1>3. Numbers(g, N) /\ Total(values, rows) = SumTo(g, N)
    BY TotalIsSum
  <1>4. Numbers(h, Len(more)) /\ Total(others, more) = SumTo(h, Len(more))
    BY TotalIsSum
  <1> HIDE DEF N, g, h
  <1>5. SumTo(g, N) = SumTo(h, N)
    BY <1>1, <1>2, <1>3, SumSame
  <1> QED
    BY <1>1, <1>3, <1>4, <1>5

\* The total does not depend on the order of the rows.
LEMMA TotalPermutes ==
    ASSUME NEW R, NEW values, Valued(values, R), NEW rows \in Seq(R),
           NEW more \in Seq(R), Len(more) = Len(rows),
           NEW p, Reorders(p, Len(rows)),
           \A i \in 1..Len(rows) : more[i] = rows[p[i]]
    PROVE  Total(values, more) = Total(values, rows)
  <1> DEFINE N == Len(rows)
             g == Listed(values, rows)
             h == Listed(values, more)
  <1>1. N \in Nat /\ Len(more) = N /\ p \in [1..N -> 1..N]
    BY LenProperties DEF Reorders
  <1>2. \A i \in 1..N : h[i] = g[p[i]]
    BY <1>1 DEF Listed
  <1>3. Numbers(g, N) /\ Total(values, rows) = SumTo(g, N)
    BY TotalIsSum
  <1>4. Total(values, more) = SumTo(h, Len(more))
    BY TotalIsSum
  <1>5. Reorders(p, N)
    OBVIOUS
  <1> HIDE DEF N, g, h
  <1>6. SumTo(h, N) = SumTo(g, N)
    BY <1>1, <1>2, <1>3, <1>5, SumPermutes
  <1> QED
    BY <1>1, <1>3, <1>4, <1>6

\* Totals add up where rows are joined.
LEMMA TotalJoins ==
    ASSUME NEW R, NEW values, Valued(values, R),
           NEW a \in Seq(R), NEW b \in Seq(R)
    PROVE  Total(values, a \o b) = Total(values, a) + Total(values, b)
  <1> DEFINE M == Len(a)
             N == Len(b)
             f == Listed(values, a)
             g == Listed(values, b)
             h == Listed(values, a \o b)
  <1>1. /\ M \in Nat /\ N \in Nat
        /\ a \o b \in Seq(R) /\ Len(a \o b) = M + N
        /\ \A i \in 1..(M + N) :
                (a \o b)[i] = IF i <= M THEN a[i] ELSE b[i - M]
    BY LenProperties, ConcatProperties
  <1>2. /\ \A i \in 1..M : h[i] = f[i]
        /\ \A i \in 1..N : h[M + i] = g[i]
    <2>1. \A i \in 1..(M + N) : h[i] = values[(a \o b)[i]]
      BY <1>1 DEF Listed
    <2>2. ASSUME NEW i \in 1..M PROVE h[i] = f[i]
      <3>1. i \in 1..(M + N) /\ i <= M
        BY <1>1
      <3>2. (a \o b)[i] = a[i]
        BY <1>1, <3>1
      <3>3. f[i] = values[a[i]]
        BY DEF Listed
      <3> HIDE DEF h, f
      <3> QED
        BY <2>1, <3>1, <3>2, <3>3
    <2>3. ASSUME NEW i \in 1..N PROVE h[M + i] = g[i]
      <3>1. M + i \in 1..(M + N) /\ ~(M + i <= M) /\ (M + i) - M = i
        BY <1>1
      <3>2. (a \o b)[M + i] = b[i]
        BY <1>1, <3>1
      <3>3. g[i] = values[b[i]]
        BY DEF Listed
      <3> HIDE DEF h, g
      <3> QED
        BY <2>1, <3>1, <3>2, <3>3
    <2> QED
      BY <2>2, <2>3
  <1>3. Numbers(f, M) /\ Total(values, a) = SumTo(f, M)
    BY TotalIsSum
  <1>4. Numbers(g, N) /\ Total(values, b) = SumTo(g, N)
    BY TotalIsSum
  <1>5. Numbers(h, M + N) /\ Total(values, a \o b) = SumTo(h, M + N)
    BY <1>1, TotalIsSum
  <1> HIDE DEF M, N, f, g, h
  <1>6. /\ Numbers(h, M)
        /\ \A i \in 0..M : i \in 0..(M + N)
        /\ \A i \in 1..N : M + i \in 1..(M + N) /\ (M + i) - 1 = M + (i - 1)
    BY <1>1, <1>5 DEF Numbers
  <1>7. SumTo(h, M) = SumTo(f, M)
    <2>1. \A i \in 1..M : f[i] = h[i]
      BY <1>2
    <2> QED
      BY <1>1, <1>3, <2>1, SumSame
  <1>8. /\ SumTo(g, 0) = 0
        /\ \A n \in 0..N : SumTo(g, n) \in Int
        /\ \A n \in 1..N : SumTo(g, n) = SumTo(g, n - 1) + g[n]
    BY <1>1, <1>4, SumSteps
  <1>9. /\ \A n \in 0..(M + N) : SumTo(h, n) \in Int
        /\ \A n \in 1..(M + N) : SumTo(h, n) = SumTo(h, n - 1) + h[n]
    <2>1. M + N \in Nat
      BY <1>1
    <2> QED
      BY <1>5, <2>1, SumSteps
  <1>n. /\ \A i \in 1..N : g[i] \in Int
        /\ SumTo(h, M) \in Int
    <2>1. M \in 0..M
      BY <1>1
    <2> QED
      BY <1>4, <1>6, <1>9, <2>1 DEF Numbers
  <1>m. M \in Nat /\ N \in Nat
    BY <1>1
  <1> DEFINE Good == {n \in Nat : n <= N =>
                        SumTo(h, M + n) = SumTo(h, M) + SumTo(g, n)}
  <1>10. 0 \in Good
    BY <1>m, <1>8, <1>n
  <1>11. ASSUME NEW n \in Good PROVE n + 1 \in Good
    <2>1. CASE n + 1 <= N
      <3>1. /\ n + 1 \in 1..N /\ (n + 1) - 1 = n /\ n \in 0..N
            /\ SumTo(h, M + n) = SumTo(h, M) + SumTo(g, n)
        BY <1>m, <2>1
      <3>2. /\ SumTo(g, n + 1) = SumTo(g, n) + g[n + 1]
            /\ SumTo(g, n) \in Int /\ g[n + 1] \in Int
        BY <1>8, <1>n, <3>1
      <3>3. /\ M + (n + 1) \in 1..(M + N) /\ (M + (n + 1)) - 1 = M + n
        BY <1>1, <3>1
      <3>4. SumTo(h, M + (n + 1)) = SumTo(h, M + n) + g[n + 1]
        BY <1>2, <1>9, <3>1, <3>3
      <3>5. SumTo(h, M + (n + 1)) = SumTo(h, M) + SumTo(g, n + 1)
        BY <1>n, <3>1, <3>2, <3>4
      <3> QED
        BY <3>5
    <2>2. CASE ~(n + 1 <= N)
      BY <2>2
    <2> QED
      BY <2>1, <2>2
  <1>12. Good = Nat
    <2> HIDE DEF Good
    <2>1. Good \in SUBSET Nat
      BY DEF Good
    <2> QED
      BY <1>10, <1>11, <2>1, Induction
  <1>13. SumTo(h, M + N) = SumTo(h, M) + SumTo(g, N)
    BY <1>m, <1>12
  <1> QED
    BY <1>3, <1>4, <1>5, <1>7, <1>13

-----------------------------------------------------------------------------
(* Sets and states of the differencing method.                             *)

\* The sets of a state.
Sets(R) == [sum : Int, rows : Seq(R)]

\* State.order: the sets by falling sum.
LEMMA DecreasingOrders ==
    ASSUME NEW R, R \subseteq Int, NEW s \in Seq(Sets(R))
    PROVE  /\ Decreasing(s) \in Seq(Sets(R))
           /\ Len(Decreasing(s)) = Len(s)
           /\ \E p : /\ Reorders(p, Len(s))
                     /\ \A i \in 1..Len(s) : Decreasing(s)[i] = s[p[i]]
           /\ \A i, j \in 1..Len(s) :
                i < j => Decreasing(s)[i].sum >= Decreasing(s)[j].sum
  <1> DEFINE N == Len(s)
             less == {p \in Pairs(s) : SetLess(s[p[2]], s[p[1]])}
             t == Sorted(s, less)
  <1>1. /\ N \in Nat /\ \A i \in 1..N : s[i] \in Sets(R)
        /\ DOMAIN s = 1..N
    BY LenProperties, ElementOfSeq
  <1>2. \A i, j \in 1..N : <<i, j>> \in less <=> SetLess(s[j], s[i])
    BY <1>1 DEF Pairs
  <1>3. ASSUME NEW a \in Sets(R)
        PROVE  /\ a.sum \in Int /\ a.rows \in Seq(R) /\ Len(a.rows) \in Nat
               /\ a.rows # <<>> => Head(a.rows) \in Int
    <2>1. a.sum \in Int /\ a.rows \in Seq(R)
      BY DEF Sets
    <2>2. Len(a.rows) \in Nat
      BY <2>1, LenProperties
    <2>3. a.rows # <<>> => Head(a.rows) \in R
      BY <2>1, HeadTailProperties
    <2> QED
      BY <2>1, <2>2, <2>3
  <1>4. ASSUME NEW a \in Sets(R), NEW b \in Sets(R), SetLess(a, b)
        PROVE  ~SetLess(b, a) /\ a.sum <= b.sum
    BY <1>3, <1>4 DEF SetLess
  <1>5. ASSUME NEW a \in Sets(R), NEW b \in Sets(R), NEW c \in Sets(R),
               SetLess(a, b)
        PROVE  SetLess(a, c) \/ SetLess(c, b)
    <2>1. /\ a.sum \in Int /\ b.sum \in Int /\ c.sum \in Int
          /\ Len(a.rows) \in Nat /\ Len(b.rows) \in Nat /\ Len(c.rows) \in Nat
          /\ a.rows # <<>> => Head(a.rows) \in Int
          /\ b.rows # <<>> => Head(b.rows) \in Int
          /\ c.rows # <<>> => Head(c.rows) \in Int
      BY <1>3
    <2>2. /\ Len(a.rows) = 0 <=> a.rows = <<>>
          /\ Len(b.rows) = 0 <=> b.rows = <<>>
          /\ Len(c.rows) = 0 <=> c.rows = <<>>
      BY <1>3, EmptySeq
    <2> QED
      BY <1>5, <2>1, <2>2, SMTT(40) DEF SetLess
  <1>6. ASSUME NEW a \in Sets(R), NEW b \in Sets(R), ~SetLess(a, b)
        PROVE  a.sum >= b.sum
    BY <1>3, <1>6 DEF SetLess
  <1> HIDE DEF less
  <1>7. WeakOrder(less, N)
    <2>1. ASSUME NEW i \in 1..N, NEW j \in 1..N, <<i, j>> \in less
          PROVE  <<j, i>> \notin less
      BY <1>1, <1>2, <1>4, <2>1
    <2>2. ASSUME NEW i \in 1..N, NEW j \in 1..N, NEW k \in 1..N,
                 <<i, k>> \in less
          PROVE  <<i, j>> \in less \/ <<j, k>> \in less
      BY <1>1, <1>2, <1>5, <2>2
    <2> QED
      BY <2>1, <2>2 DEF WeakOrder
  <1>8. /\ t \in Seq(Sets(R)) /\ Len(t) = N
        /\ \E p : /\ Reorders(p, N)
                  /\ \A i \in 1..N : t[i] = s[p[i]]
                  /\ WeakOrder(less, N) => Ranked(p, N, less)
    BY SortedPermutes
  <1>9. PICK p : /\ Reorders(p, N)
                 /\ \A i \in 1..N : t[i] = s[p[i]]
                 /\ Ranked(p, N, less)
    BY <1>7, <1>8
  <1>10. t = Decreasing(s)
    BY DEF Decreasing, less
  <1> HIDE DEF t, N
  <1>11. ASSUME NEW i \in 1..N, NEW j \in 1..N, i < j
         PROVE  t[i].sum >= t[j].sum
    <2>1. /\ p[i] \in 1..N /\ p[j] \in 1..N /\ <<p[j], p[i]>> \notin less
      BY <1>9, <1>11 DEF Reorders, Ranked
    <2>2. ~SetLess(s[p[i]], s[p[j]])
      BY <1>2, <2>1
    <2> QED
      BY <1>1, <1>6, <1>9, <2>1, <2>2
  <1> QED
    BY <1>8, <1>9, <1>10, <1>11 DEF N

\* The rows of a state.
In(s) == UNION {Held(s[j].rows) : j \in 1..Len(s)}

\* A state of k sets: every row is in one of them, and once.
Apart(s, values, k, R) ==
    /\ s \in Seq(Sets(R)) /\ Len(s) = k
    /\ \A j \in 1..k : /\ Once(s[j].rows)
                       /\ s[j].sum = Total(values, s[j].rows)
    /\ \A j, l \in 1..k :
            j # l => Held(s[j].rows) \cap Held(s[l].rows) = {}

\* The largest sum first.
Falling(s, k) == \A i, j \in 1..k : i < j => s[i].sum >= s[j].sum

\* The sets have the same number of rows.
Even(s, k) == \A i, j \in 1..k : Len(s[i].rows) = Len(s[j].rows)

\* The first sum is no further from the last than some row from another.
Near(s, values, k) ==
    \E r, t \in In(s) : s[1].sum - s[k].sum <= values[r] - values[t]

\* The rows of a state are those of its first k sets.
LEMMA InMember ==
    ASSUME NEW s, NEW k, Len(s) = k
    PROVE  \A r : r \in In(s) <=> \E j \in 1..k : r \in Held(s[j].rows)
  BY DEF In

\* A set has a sum and rows.
LEMMA SetFacts ==
    ASSUME NEW R, NEW x \in Sets(R)
    PROVE  x.sum \in Int /\ x.rows \in Seq(R) /\ Len(x.rows) \in Nat
  <1>1. x.sum \in Int /\ x.rows \in Seq(R)
    BY DEF Sets
  <1> QED
    BY <1>1, LenProperties

\* A state in another order.
LEMMA ApartReorders ==
    ASSUME NEW R, NEW values, NEW k \in Nat, NEW s, Apart(s, values, k, R),
           NEW t \in Seq(Sets(R)), Len(t) = k, NEW p, Reorders(p, k),
           \A i \in 1..k : t[i] = s[p[i]]
    PROVE  /\ Apart(t, values, k, R)
           /\ In(t) = In(s)
           /\ Even(s, k) => Even(t, k)
  <1>1. /\ \A i \in 1..k : p[i] \in 1..k
        /\ \A i, j \in 1..k : p[i] = p[j] => i = j
        /\ \A j \in 1..k : \E i \in 1..k : p[i] = j
    BY DEF Reorders
  <1>2. /\ s \in Seq(Sets(R)) /\ Len(s) = k
        /\ \A j \in 1..k : /\ Once(s[j].rows)
                           /\ s[j].sum = Total(values, s[j].rows)
        /\ \A j, l \in 1..k :
                j # l => Held(s[j].rows) \cap Held(s[l].rows) = {}
    BY DEF Apart
  <1>3. Apart(t, values, k, R)
    <2>1. \A j \in 1..k : /\ Once(t[j].rows)
                          /\ t[j].sum = Total(values, t[j].rows)
      <3> SUFFICES ASSUME NEW j \in 1..k
                   PROVE  /\ Once(t[j].rows)
                          /\ t[j].sum = Total(values, t[j].rows)
        OBVIOUS
      <3> DEFINE i == p[j]
      <3>1. i \in 1..k /\ t[j] = s[i]
        BY <1>1
      <3> HIDE DEF i
      <3>2. Once(s[i].rows) /\ s[i].sum = Total(values, s[i].rows)
        BY <1>2, <3>1
      <3> QED
        BY <3>1, <3>2
    <2>2. ASSUME NEW j \in 1..k, NEW l \in 1..k, j # l
          PROVE  Held(t[j].rows) \cap Held(t[l].rows) = {}
      <3>1. p[j] \in 1..k /\ p[l] \in 1..k /\ p[j] # p[l]
        BY <1>1, <2>2
      <3>2. Held(s[p[j]].rows) \cap Held(s[p[l]].rows) = {}
        BY <1>2, <3>1
      <3> QED
        BY <3>2
    <2> QED
      BY <2>1, <2>2 DEF Apart
  <1>4. In(t) = In(s)
    <2>1. \A r : r \in In(t) <=> \E j \in 1..k : r \in Held(t[j].rows)
      BY InMember
    <2>2. \A r : r \in In(s) <=> \E j \in 1..k : r \in Held(s[j].rows)
      BY <1>2, InMember
    <2>3. ASSUME NEW r \in In(t) PROVE r \in In(s)
      <3>1. PICK j \in 1..k : r \in Held(t[j].rows)
        BY <2>1
      <3>2. r \in Held(s[p[j]].rows) /\ p[j] \in 1..k
        BY <1>1, <3>1
      <3> QED
        BY <2>2, <3>2
    <2>4. ASSUME NEW r \in In(s) PROVE r \in In(t)
      <3>1. PICK j \in 1..k : r \in Held(s[j].rows)
        BY <2>2
      <3>2. PICK i \in 1..k : p[i] = j
        BY <1>1
      <3>3. r \in Held(t[i].rows)
        BY <3>1, <3>2
      <3> QED
        BY <2>1, <3>3
    <2> QED
      BY <2>3, <2>4
  <1>5. ASSUME Even(s, k) PROVE Even(t, k)
    <2>1. ASSUME NEW i \in 1..k, NEW j \in 1..k
          PROVE  Len(t[i].rows) = Len(t[j].rows)
      <3>1. p[i] \in 1..k /\ p[j] \in 1..k
        BY <1>1
      <3>2. Len(s[p[i]].rows) = Len(s[p[j]].rows)
        BY <1>5, <3>1 DEF Even
      <3>3. t[i] = s[p[i]] /\ t[j] = s[p[j]]
        OBVIOUS
      <3> QED
        BY <3>2, <3>3
    <2> QED
      BY <2>1 DEF Even
  <1> QED
    BY <1>3, <1>4, <1>5

\* t is the state s, the largest sum first.
InOrder(t, s, values, k, R) ==
    /\ Apart(t, values, k, R)
    /\ Falling(t, k)
    /\ In(t) = In(s)
    /\ Even(s, k) => Even(t, k)
    /\ \A i \in 1..k : \E j \in 1..k : t[i] = s[j]

\* A state with its sets in order has the same rows.
LEMMA DecreasingState ==
    ASSUME NEW R, R \subseteq Int, NEW values, NEW k \in Nat, NEW s,
           Apart(s, values, k, R)
    PROVE  InOrder(Decreasing(s), s, values, k, R)
  <1> DEFINE t == Decreasing(s)
  <1>1. s \in Seq(Sets(R)) /\ Len(s) = k
    BY DEF Apart
  <1>2. /\ t \in Seq(Sets(R)) /\ Len(t) = k
        /\ \E p : /\ Reorders(p, k)
                  /\ \A i \in 1..k : t[i] = s[p[i]]
        /\ \A i, j \in 1..k : i < j => t[i].sum >= t[j].sum
    <2>1. /\ Decreasing(s) \in Seq(Sets(R))
          /\ Len(Decreasing(s)) = Len(s)
          /\ \E p : /\ Reorders(p, Len(s))
                    /\ \A i \in 1..Len(s) : Decreasing(s)[i] = s[p[i]]
          /\ \A i, j \in 1..Len(s) :
                i < j => Decreasing(s)[i].sum >= Decreasing(s)[j].sum
      BY <1>1, DecreasingOrders
    <2> QED
      BY <1>1, <2>1
  <1> HIDE DEF t
  <1>3. PICK p : Reorders(p, k) /\ \A i \in 1..k : t[i] = s[p[i]]
    BY <1>2
  <1>4. /\ Apart(t, values, k, R)
        /\ In(t) = In(s)
        /\ Even(s, k) => Even(t, k)
    BY <1>2, <1>3, ApartReorders
  <1>5. Falling(t, k)
    BY <1>2 DEF Falling
  <1>6. \A i \in 1..k : \E j \in 1..k : t[i] = s[j]
    BY <1>3 DEF Reorders
  <1> QED
    BY <1>4, <1>5, <1>6 DEF t, InOrder

-----------------------------------------------------------------------------
(* A first state.                                                          *)

\* The total of one row is its value.
LEMMA TotalOne ==
    ASSUME NEW R, NEW values, Valued(values, R), NEW r \in R
    PROVE  Total(values, <<r>>) = values[r]
  <1> DEFINE g == Listed(values, <<r>>)
  <1>1. <<r>> \in Seq(R) /\ Len(<<r>>) = 1 /\ <<r>>[1] = r
    BY Singleton
  <1>2. g[1] = values[r] /\ values[r] \in Int
    BY <1>1 DEF Listed, Valued
  <1> HIDE DEF g
  <1>3. Numbers(g, 1) /\ Total(values, <<r>>) = SumTo(g, 1)
    BY <1>1, TotalIsSum DEF g
  <1>4. /\ SumTo(g, 0) = 0
        /\ \A n \in 1..1 : SumTo(g, n) = SumTo(g, n - 1) + g[n]
    BY <1>3, SumSteps
  <1>5. SumTo(g, 1) = SumTo(g, 0) + g[1]
    <2>1. 1 \in 1..1 /\ 1 - 1 = 0
      OBVIOUS
    <2> QED
      BY <1>4, <2>1
  <1> QED
    BY <1>2, <1>3, <1>4, <1>5

\* s is a state of the rows, in k sets.
Holds(s, rows, values, k, R) ==
    /\ Apart(s, values, k, R)
    /\ Falling(s, k)
    /\ In(s) = Held(rows)
    /\ Len(rows) = k => Even(s, k) /\ Near(s, values, k)

\* A first state has one row in a set, and no set has more than one more
\* than another.
LEMMA StateOfRows ==
    ASSUME NEW R, R \subseteq Int, NEW values, Valued(values, R),
           NEW k \in Nat \ {0}, NEW rows \in Seq(R), Once(rows),
           Len(rows) <= k
    PROVE  Holds(StateOf(values, rows, k), rows, values, k, R)
  <1> DEFINE N == Len(rows)
             s == [j \in 1..k |->
                    IF j <= N THEN [sum |-> values[rows[j]], rows |-> <<rows[j]>>]
                    ELSE EmptySet]
             t == Decreasing(s)
  <1>1. N \in Nat /\ \A j \in 1..N : rows[j] \in R /\ values[rows[j]] \in Int
    BY LenProperties, ElementOfSeq DEF Valued
  <1>2. ASSUME NEW j \in 1..k
        PROVE  /\ s[j] \in Sets(R)
               /\ j \in 1..N =>
                    s[j].rows = <<rows[j]>> /\ s[j].sum = values[rows[j]]
               /\ j \notin 1..N => s[j].rows = <<>> /\ s[j].sum = 0
    <2>1. CASE j <= N
      <3>1. j \in 1..N
        BY <1>1, <2>1
      <3>2. rows[j] \in R /\ values[rows[j]] \in Int
        BY <1>1, <3>1
      <3>3. <<rows[j]>> \in Seq(R)
        BY <3>2, Singleton
      <3>4. s[j] = [sum |-> values[rows[j]], rows |-> <<rows[j]>>]
        BY <2>1
      <3> HIDE DEF s
      <3> QED
        BY <3>1, <3>2, <3>3, <3>4 DEF Sets
    <2>2. CASE ~(j <= N)
      <3>1. j \notin 1..N /\ s[j] = EmptySet
        BY <2>2
      <3>2. <<>> \in Seq(R)
        BY EmptySeq
      <3> HIDE DEF s
      <3> QED
        BY <3>1, <3>2 DEF Sets, EmptySet
    <2> QED
      BY <2>1, <2>2
  <1>3. s \in Seq(Sets(R)) /\ Len(s) = k
    <2>1. s \in [1..k -> Sets(R)]
      <3>1. s = [j \in 1..k |-> s[j]]
        OBVIOUS
      <3> HIDE DEF s
      <3> QED
        BY <1>2, <3>1
    <2> HIDE DEF s
    <2>2. k \in Nat
      OBVIOUS
    <2> QED
      BY <2>1, <2>2, FunctionIsSeq
  <1> HIDE DEF s
  <1>4. ASSUME NEW j \in 1..k
        PROVE  /\ Once(s[j].rows)
               /\ s[j].sum = Total(values, s[j].rows)
               /\ \A r : r \in Held(s[j].rows) <=> j \in 1..N /\ r = rows[j]
    <2>1. CASE j \in 1..N
      <3>1. rows[j] \in R
        BY <1>1, <2>1
      <3> DEFINE r == rows[j]
      <3>2. s[j].rows = <<r>> /\ s[j].sum = values[r] /\ r \in R
        BY <1>2, <2>1, <3>1
      <3> HIDE DEF r
      <3>3. Once(<<r>>) /\ Total(values, <<r>>) = values[r] /\ Held(<<r>>) = {r}
        BY <3>2, TotalOne, OneHeld
      <3>4. r = rows[j]
        BY DEF r
      <3> QED
        BY <2>1, <3>2, <3>3, <3>4
    <2>2. CASE j \notin 1..N
      BY <1>2, <2>2, TotalEmpty, NoneHeld
    <2> QED
      BY <2>1, <2>2
  <1>5. Apart(s, values, k, R)
    <2>1. ASSUME NEW j \in 1..k, NEW l \in 1..k, j # l
          PROVE  Held(s[j].rows) \cap Held(s[l].rows) = {}
      <3>1. ASSUME NEW r, r \in Held(s[j].rows), r \in Held(s[l].rows)
            PROVE  FALSE
        <4>1. j \in 1..N /\ l \in 1..N /\ rows[j] = rows[l]
          BY <1>4, <3>1
        <4> QED
          BY <2>1, <4>1 DEF Once
      <3> QED
        BY <3>1
    <2> QED
      BY <1>3, <1>4, <2>1 DEF Apart
  <1>6. In(s) = Held(rows)
    <2>1. \A r : r \in In(s) <=> \E j \in 1..k : r \in Held(s[j].rows)
      BY <1>3, InMember
    <2>2. \A j \in 1..N : j \in 1..k
      BY <1>1
    <2>3. \A r : r \in Held(rows) <=> \E j \in 1..N : r = rows[j]
      BY DEF Held
    <2>4. ASSUME NEW r \in In(s) PROVE r \in Held(rows)
      BY <1>4, <2>1, <2>3
    <2>5. ASSUME NEW r \in Held(rows) PROVE r \in In(s)
      <3>1. PICK j \in 1..N : r = rows[j]
        BY <2>3
      <3>2. j \in 1..k /\ r \in Held(s[j].rows)
        BY <1>4, <2>2, <3>1
      <3> QED
        BY <2>1, <3>2
    <2> QED
      BY <2>4, <2>5
  <1>7. N = k => Even(s, k)
    <2>1. ASSUME N = k, NEW i \in 1..k PROVE Len(s[i].rows) = 1
      BY <1>2, <2>1, OneHeld
    <2> QED
      BY <2>1 DEF Even
  <1>8. /\ Apart(t, values, k, R)
        /\ Falling(t, k)
        /\ In(t) = In(s)
        /\ Even(s, k) => Even(t, k)
        /\ \A i \in 1..k : \E j \in 1..k : t[i] = s[j]
    <2>1. k \in Nat
      OBVIOUS
    <2> HIDE DEF t
    <2>2. InOrder(Decreasing(s), s, values, k, R)
      BY <1>5, <2>1, DecreasingState
    <2>3. InOrder(t, s, values, k, R)
      BY <2>2 DEF t
    <2> QED
      BY <2>3 DEF InOrder
  <1>9. StateOf(values, rows, k) = t
    BY DEF StateOf, t, s, N
  <1> HIDE DEF t
  <1>10. ASSUME N = k PROVE Near(t, values, k)
    <2>1. 1 \in 1..k /\ k \in 1..k
      OBVIOUS
    <2>2. PICK i \in 1..k : t[1] = s[i]
      BY <1>8, <2>1
    <2>3. PICK j \in 1..k : t[k] = s[j]
      BY <1>8, <2>1
    <2>4. /\ t[1].sum = values[rows[i]] /\ t[k].sum = values[rows[j]]
          /\ rows[i] \in Held(rows) /\ rows[j] \in Held(rows)
          /\ values[rows[i]] \in Int /\ values[rows[j]] \in Int
      BY <1>1, <1>2, <1>10, <2>2, <2>3 DEF Held
    <2>5. t[1].sum - t[k].sum <= values[rows[i]] - values[rows[j]]
      BY <2>4
    <2> QED
      BY <1>6, <1>8, <2>4, <2>5 DEF Near
  <1> QED
    BY <1>6, <1>7, <1>8, <1>9, <1>10 DEF N, Holds

\* All that holds of a state of the queue; "even" when equal_size is set.
Kept(s, values, k, R, even) ==
    /\ Apart(s, values, k, R)
    /\ Falling(s, k)
    /\ even => Even(s, k) /\ Near(s, values, k)

-----------------------------------------------------------------------------
(* Merging two states.                                                     *)

\* No two sets are further apart than the first and the last.
LEMMA FallingEnds ==
    ASSUME NEW R, NEW values, NEW k \in Nat \ {0}, NEW s,
           Apart(s, values, k, R), Falling(s, k), NEW i \in 1..k, NEW j \in 1..k
    PROVE  /\ s[i].sum \in Int /\ s[j].sum \in Int
           /\ s[i].sum - s[j].sum <= s[1].sum - s[k].sum
           /\ i <= j => s[i].sum - s[j].sum >= 0
  <1>1. /\ s \in Seq(Sets(R)) /\ Len(s) = k
        /\ \A m, n \in 1..k : m < n => s[m].sum >= s[n].sum
    BY DEF Apart, Falling
  <1>2. \A m \in 1..k : s[m].sum \in Int
    BY <1>1, ElementOfSeq, SetFacts
  <1>3. 1 \in 1..k /\ k \in 1..k
    OBVIOUS
  <1>4. s[1].sum >= s[i].sum
    <2>1. i = 1 \/ 1 < i
      OBVIOUS
    <2> QED
      BY <1>1, <1>2, <1>3, <2>1
  <1>5. s[j].sum >= s[k].sum
    <2>1. j = k \/ j < k
      OBVIOUS
    <2> QED
      BY <1>1, <1>2, <1>3, <2>1
  <1>6. i <= j => s[i].sum >= s[j].sum
    <2>1. i <= j => i = j \/ i < j
      OBVIOUS
    <2> QED
      BY <1>1, <1>2, <2>1
  <1>7. /\ s[i].sum \in Int /\ s[j].sum \in Int
        /\ s[1].sum \in Int /\ s[k].sum \in Int
    BY <1>2, <1>3
  <1> QED
    BY <1>4, <1>5, <1>6, <1>7

\* m has all that s and t have.
Joint(m, s, t, values, k, R, even) ==
    /\ Kept(m, values, k, R, even)
    /\ In(m) = In(s) \cup In(t)

\* Merging two states gives one that has the rows of both; its spread is
\* no wider than the wider of theirs.
LEMMA MergeKeeps ==
    ASSUME NEW R, R \subseteq Int, NEW values, Valued(values, R),
           NEW k \in Nat \ {0}, NEW even,
           NEW s, Kept(s, values, k, R, even),
           NEW t, Kept(t, values, k, R, even), In(s) \cap In(t) = {}
    PROVE  Joint(Merge(s, t), s, t, values, k, R, even)
  <1> DEFINE Other(j) == t[(k + 1) - j]
             m == [j \in 1..k |->
                    [sum |-> s[j].sum + Other(j).sum,
                     rows |-> s[j].rows \o Other(j).rows]]
             d == Decreasing(m)
  <1>1. /\ s \in Seq(Sets(R)) /\ Len(s) = k
        /\ \A j \in 1..k : /\ Once(s[j].rows)
                           /\ s[j].sum = Total(values, s[j].rows)
        /\ \A j, l \in 1..k :
                j # l => Held(s[j].rows) \cap Held(s[l].rows) = {}
    BY DEF Kept, Apart
  <1>2. /\ t \in Seq(Sets(R)) /\ Len(t) = k
        /\ \A j \in 1..k : /\ Once(t[j].rows)
                           /\ t[j].sum = Total(values, t[j].rows)
        /\ \A j, l \in 1..k :
                j # l => Held(t[j].rows) \cap Held(t[l].rows) = {}
    BY DEF Kept, Apart
  <1>3. d = Merge(s, t)
    <2>1. DOMAIN s = 1..k
      BY <1>1, LenProperties
    <2> DEFINE e == [j \in 1..k |->
                        [sum |-> s[j].sum + t[k + 1 - j].sum,
                         rows |-> s[j].rows \o t[k + 1 - j].rows]]
    <2>2. Merge(s, t) = Decreasing(e)
      BY <1>1, <2>1 DEF Merge
    <2>3. \A j \in 1..k : k + 1 - j = (k + 1) - j
      OBVIOUS
    <2>4. e = m
      BY <2>3
    <2> HIDE DEF e, m
    <2> QED
      BY <2>2, <2>4
  <1>4. \A j \in 1..k : (k + 1) - j \in 1..k
    OBVIOUS
  <1>5. \A j, l \in 1..k : j # l => (k + 1) - j # (k + 1) - l
    OBVIOUS
  <1>6. \A j \in 1..k : /\ m[j].sum = s[j].sum + Other(j).sum
                        /\ m[j].rows = s[j].rows \o Other(j).rows
    OBVIOUS
  <1>7. \A j \in 1..k :
            /\ s[j].sum \in Int /\ s[j].rows \in Seq(R)
            /\ Len(s[j].rows) \in Nat
            /\ t[j].sum \in Int /\ t[j].rows \in Seq(R)
            /\ Len(t[j].rows) \in Nat
    BY <1>1, <1>2, ElementOfSeq, SetFacts
  <1>8. /\ \A r : r \in In(s) <=> \E j \in 1..k : r \in Held(s[j].rows)
        /\ \A r : r \in In(t) <=> \E j \in 1..k : r \in Held(t[j].rows)
    BY <1>1, <1>2, InMember
  <1>9. ASSUME NEW j \in 1..k
        PROVE  /\ m[j] \in Sets(R)
               /\ m[j].sum = Total(values, m[j].rows)
               /\ Once(m[j].rows)
               /\ Held(m[j].rows) = Held(s[j].rows) \cup Held(Other(j).rows)
               /\ Len(m[j].rows) = Len(s[j].rows) + Len(Other(j).rows)
    <2> DEFINE i == (k + 1) - j
               a == s[j].rows
               b == t[i].rows
    <2>1. i \in 1..k /\ Other(j) = t[i]
      BY <1>4
    <2> HIDE DEF i, m
    <2>2. /\ a \in Seq(R) /\ b \in Seq(R) /\ Once(a) /\ Once(b)
          /\ s[j].sum = Total(values, a) /\ t[i].sum = Total(values, b)
          /\ s[j].sum \in Int /\ t[i].sum \in Int
      BY <1>1, <1>2, <1>7, <2>1
    <2>3. Held(a) \cap Held(b) = {}
      BY <1>8, <2>1
    <2>4. m[j].sum = s[j].sum + t[i].sum /\ m[j].rows = a \o b
      BY <1>6, <2>1
    <2>5. m[j] = [sum |-> s[j].sum + t[i].sum, rows |-> a \o b]
      BY <2>1 DEF m
    <2> HIDE DEF a, b
    <2>6. /\ a \o b \in Seq(R)
          /\ Len(a \o b) = Len(a) + Len(b)
          /\ Held(a \o b) = Held(a) \cup Held(b)
          /\ Once(a \o b)
      BY <2>2, <2>3, JoinHolds
    <2>7. Total(values, a \o b) = Total(values, a) + Total(values, b)
      BY <2>2, TotalJoins
    <2>8. m[j] \in Sets(R)
      BY <2>2, <2>5, <2>6 DEF Sets
    <2>9. Other(j).rows = b /\ s[j].rows = a
      BY <2>1 DEF a, b
    <2> HIDE DEF Other
    <2> QED
      BY <2>2, <2>4, <2>6, <2>7, <2>8, <2>9
  <1>10. m \in Seq(Sets(R)) /\ Len(m) = k
    <2>1. m = [j \in 1..k |-> m[j]]
      OBVIOUS
    <2> HIDE DEF m
    <2>2. m \in [1..k -> Sets(R)]
      BY <1>9, <2>1
    <2>3. k \in Nat
      OBVIOUS
    <2> QED
      BY <2>2, <2>3, FunctionIsSeq
  <1> HIDE DEF m
  <1>11. Apart(m, values, k, R)
    <2>1. ASSUME NEW j \in 1..k, NEW l \in 1..k, j # l
          PROVE  Held(m[j].rows) \cap Held(m[l].rows) = {}
      <3> DEFINE i == (k + 1) - j
                 n == (k + 1) - l
      <3>1. i \in 1..k /\ n \in 1..k /\ i # n /\ Other(j) = t[i] /\ Other(l) = t[n]
        BY <1>4, <1>5, <2>1
      <3> HIDE DEF i, n, Other
      <3>2. /\ Held(m[j].rows) = Held(s[j].rows) \cup Held(t[i].rows)
            /\ Held(m[l].rows) = Held(s[l].rows) \cup Held(t[n].rows)
        BY <1>9, <3>1
      <3>3. /\ Held(s[j].rows) \cap Held(s[l].rows) = {}
            /\ Held(t[i].rows) \cap Held(t[n].rows) = {}
        BY <1>1, <1>2, <2>1, <3>1
      <3>4. /\ Held(s[j].rows) \cap Held(t[n].rows) = {}
            /\ Held(s[l].rows) \cap Held(t[i].rows) = {}
        BY <1>8, <3>1
      <3> QED
        BY <3>2, <3>3, <3>4
    <2> QED
      BY <1>9, <1>10, <2>1 DEF Apart
  <1>12. In(m) = In(s) \cup In(t)
    <2>1. \A r : r \in In(m) <=> \E j \in 1..k : r \in Held(m[j].rows)
      BY <1>10, InMember
    <2>2. ASSUME NEW r \in In(m) PROVE r \in In(s) \cup In(t)
      <3>1. PICK j \in 1..k : r \in Held(m[j].rows)
        BY <2>1
      <3>2. r \in Held(s[j].rows) \/ r \in Held(t[(k + 1) - j].rows)
        BY <1>9, <3>1
      <3> QED
        BY <1>4, <1>8, <3>2
    <2>3. ASSUME NEW r \in In(s) PROVE r \in In(m)
      <3>1. PICK j \in 1..k : r \in Held(s[j].rows)
        BY <1>8
      <3>2. r \in Held(m[j].rows)
        BY <1>9, <3>1
      <3> QED
        BY <2>1, <3>2
    <2>4. ASSUME NEW r \in In(t) PROVE r \in In(m)
      <3>1. PICK l \in 1..k : r \in Held(t[l].rows)
        BY <1>8
      <3> DEFINE j == (k + 1) - l
      <3>2. j \in 1..k /\ (k + 1) - j = l
        OBVIOUS
      <3>3. Other(j) = t[l]
        BY <3>2
      <3> HIDE DEF j, Other
      <3>4. r \in Held(m[j].rows)
        BY <1>9, <3>1, <3>2, <3>3
      <3> QED
        BY <2>1, <3>2, <3>4
    <2> QED
      BY <2>2, <2>3, <2>4
  <1>13. /\ Apart(d, values, k, R)
         /\ Falling(d, k)
         /\ In(d) = In(m)
         /\ Even(m, k) => Even(d, k)
         /\ \A i \in 1..k : \E j \in 1..k : d[i] = m[j]
    <2>1. k \in Nat
      OBVIOUS
    <2> HIDE DEF d
    <2>2. InOrder(Decreasing(m), m, values, k, R)
      BY <1>11, <2>1, DecreasingState
    <2>3. InOrder(d, m, values, k, R)
      BY <2>2 DEF d
    <2> QED
      BY <2>3 DEF InOrder
  <1>14. ASSUME even PROVE Even(m, k)
    <2>1. Even(s, k) /\ Even(t, k)
      BY <1>14 DEF Kept
    <2>2. ASSUME NEW j \in 1..k, NEW l \in 1..k
          PROVE  Len(m[j].rows) = Len(m[l].rows)
      <3>1. Len(s[j].rows) = Len(s[l].rows)
        BY <2>1 DEF Even
      <3>2. Len(Other(j).rows) = Len(Other(l).rows)
        BY <1>4, <2>1 DEF Even
      <3> QED
        BY <1>9, <3>1, <3>2
    <2> QED
      BY <2>2 DEF Even
  <1>15. ASSUME even PROVE Near(d, values, k)
    <2>1. PICK r1 \in In(s), t1 \in In(s) :
                s[1].sum - s[k].sum <= values[r1] - values[t1]
      BY <1>15 DEF Kept, Near
    <2>2. PICK r2 \in In(t), t2 \in In(t) :
                t[1].sum - t[k].sum <= values[r2] - values[t2]
      BY <1>15 DEF Kept, Near
    <2>3. 1 \in 1..k /\ k \in 1..k
      OBVIOUS
    <2>4. PICK i \in 1..k : d[1] = m[i]
      BY <1>13, <2>3
    <2>5. PICK j \in 1..k : d[k] = m[j]
      BY <1>13, <2>3
    <2> DEFINE a == (k + 1) - i
               b == (k + 1) - j
    <2>6. /\ a \in 1..k /\ b \in 1..k /\ (i <= j <=> b <= a)
          /\ (j <= i <=> a <= b)
      OBVIOUS
    <2>7. d[1].sum = s[i].sum + t[a].sum /\ d[k].sum = s[j].sum + t[b].sum
      BY <1>6, <2>4, <2>5
    <2> HIDE DEF a, b, d, Other
    <2>8. /\ Apart(s, values, k, R) /\ Falling(s, k)
          /\ Apart(t, values, k, R) /\ Falling(t, k)
      BY DEF Kept
    <2>9. /\ s[i].sum \in Int /\ s[j].sum \in Int
          /\ s[i].sum - s[j].sum <= s[1].sum - s[k].sum
          /\ i <= j => s[i].sum - s[j].sum >= 0
      BY <2>8, FallingEnds
    <2>10. j <= i => s[j].sum - s[i].sum >= 0
      BY <2>8, FallingEnds
    <2>11. /\ t[a].sum \in Int /\ t[b].sum \in Int
           /\ t[a].sum - t[b].sum <= t[1].sum - t[k].sum
           /\ a <= b => t[a].sum - t[b].sum >= 0
      BY <2>6, <2>8, FallingEnds
    <2>12. b <= a => t[b].sum - t[a].sum >= 0
      BY <2>6, <2>8, FallingEnds
    <2>13. /\ s[1].sum \in Int /\ s[k].sum \in Int
           /\ t[1].sum \in Int /\ t[k].sum \in Int
      BY <1>7, <2>3
    <2>14. /\ \A r \in In(s) : r \in R
           /\ \A r \in In(t) : r \in R
      BY <1>7, <1>8, HeldIn
    <2>15. /\ values[r1] \in Int /\ values[t1] \in Int
           /\ values[r2] \in Int /\ values[t2] \in Int
      BY <2>14 DEF Valued
    <2>16. \/ d[1].sum - d[k].sum <= values[r1] - values[t1]
           \/ d[1].sum - d[k].sum <= values[r2] - values[t2]
      <3>1. CASE i <= j
        BY <2>1, <2>6, <2>7, <2>9, <2>11, <2>12, <2>13, <2>15, <3>1
      <3>2. CASE j <= i
        BY <2>2, <2>6, <2>7, <2>9, <2>10, <2>11, <2>13, <2>15, <3>2
      <3> QED
        BY <3>1, <3>2
    <2>17. In(d) = In(s) \cup In(t)
      BY <1>12, <1>13
    <2> QED
      BY <2>16, <2>17 DEF Near
  <1> QED
    BY <1>3, <1>12, <1>13, <1>14, <1>15 DEF Kept, Joint

-----------------------------------------------------------------------------
(* The queue of states.                                                    *)

\* Every row is in one state.
Queue(q, values, k, R, even) ==
    /\ q \in Seq(Seq(Sets(R)))
    /\ \A a \in 1..Len(q) : Kept(q[a], values, k, R, even)
    /\ \A a, b \in 1..Len(q) : a # b => In(q[a]) \cap In(q[b]) = {}
    /\ \A r \in R : \E a \in 1..Len(q) : r \in In(q[a])

\* The order of the queue does not matter.
LEMMA QueueReorders ==
    ASSUME NEW R, NEW values, NEW k, NEW even,
           NEW q, Queue(q, values, k, R, even),
           NEW u \in Seq(Seq(Sets(R))), Len(u) = Len(q),
           NEW p, Reorders(p, Len(q)), \A a \in 1..Len(q) : u[a] = q[p[a]]
    PROVE  Queue(u, values, k, R, even)
  <1> DEFINE N == Len(q)
  <1>1. /\ \A a \in 1..N : p[a] \in 1..N
        /\ \A a, b \in 1..N : p[a] = p[b] => a = b
        /\ \A b \in 1..N : \E a \in 1..N : p[a] = b
    BY DEF Reorders
  <1>2. /\ \A a \in 1..N : Kept(q[a], values, k, R, even)
        /\ \A a, b \in 1..N : a # b => In(q[a]) \cap In(q[b]) = {}
        /\ \A r \in R : \E a \in 1..N : r \in In(q[a])
    BY DEF Queue
  <1>3. Len(u) = N /\ \A a \in 1..N : u[a] = q[p[a]]
    OBVIOUS
  <1> HIDE DEF N
  <1>4. ASSUME NEW a \in 1..N PROVE Kept(u[a], values, k, R, even)
    <2>1. p[a] \in 1..N /\ u[a] = q[p[a]]
      BY <1>1, <1>3
    <2>2. Kept(q[p[a]], values, k, R, even)
      BY <1>2, <2>1
    <2> QED
      BY <2>1, <2>2
  <1>5. ASSUME NEW a \in 1..N, NEW b \in 1..N, a # b
        PROVE  In(u[a]) \cap In(u[b]) = {}
    <2>1. p[a] \in 1..N /\ p[b] \in 1..N /\ p[a] # p[b]
      BY <1>1, <1>5
    <2>2. In(q[p[a]]) \cap In(q[p[b]]) = {}
      BY <1>2, <2>1
    <2> QED
      BY <1>3, <2>2
  <1>6. ASSUME NEW r \in R PROVE \E a \in 1..N : r \in In(u[a])
    <2>1. PICK b \in 1..N : r \in In(q[b])
      BY <1>2
    <2>2. PICK a \in 1..N : p[a] = b
      BY <1>1
    <2>3. r \in In(u[a])
      BY <1>3, <2>1, <2>2
    <2> QED
      BY <2>3
  <1> QED
    BY <1>3, <1>4, <1>5, <1>6 DEF Queue

\* Merging the first two states leaves every row in one state.
LEMMA MergeFirstKeeps ==
    ASSUME NEW R, R \subseteq Int, NEW values, Valued(values, R),
           NEW k \in Nat \ {0}, NEW even,
           NEW q, Queue(q, values, k, R, even), Len(q) >= 2
    PROVE  /\ Queue(MergeFirst(q), values, k, R, even)
           /\ Len(MergeFirst(q)) = Len(q) - 1
  <1> DEFINE N == Len(q)
             less == {p \in Pairs(q) : Before(q[p[1]], q[p[2]])}
             u == Sorted(q, less)
             m == Merge(u[1], u[2])
             v == <<m>>
             w == SubSeq(u, 3, Len(u))
             z == v \o w
  <1>1. q \in Seq(Seq(Sets(R))) /\ N \in Nat /\ N >= 2
    BY LenProperties DEF Queue
  <1>2. /\ u \in Seq(Seq(Sets(R))) /\ Len(u) = N
        /\ \E p : Reorders(p, N) /\ \A a \in 1..N : u[a] = q[p[a]]
    <2> HIDE DEF less
    <2>1. /\ Sorted(q, less) \in Seq(Seq(Sets(R)))
          /\ Len(Sorted(q, less)) = Len(q)
          /\ \E p : /\ Reorders(p, Len(q))
                    /\ \A i \in 1..Len(q) : Sorted(q, less)[i] = q[p[i]]
                    /\ WeakOrder(less, Len(q)) => Ranked(p, Len(q), less)
      BY <1>1, SortedPermutes
    <2> QED
      BY <2>1
  <1>3. MergeFirst(q) = z
    BY DEF MergeFirst
  <1> HIDE DEF u
  <1>4. Queue(u, values, k, R, even)
    <2>1. PICK p : Reorders(p, N) /\ \A a \in 1..N : u[a] = q[p[a]]
      BY <1>2
    <2> QED
      BY <1>2, <2>1, QueueReorders
  <1> HIDE DEF N
  <1>5. /\ \A a \in 1..N : Kept(u[a], values, k, R, even)
        /\ \A a, b \in 1..N : a # b => In(u[a]) \cap In(u[b]) = {}
        /\ \A r \in R : \E a \in 1..N : r \in In(u[a])
    BY <1>2, <1>4 DEF Queue
  <1>6. 1 \in 1..N /\ 2 \in 1..N /\ 1 # 2
    BY <1>1
  <1>7. /\ Kept(m, values, k, R, even)
        /\ In(m) = In(u[1]) \cup In(u[2])
    <2> DEFINE s == u[1]
               t == u[2]
    <2>1. /\ Kept(s, values, k, R, even) /\ Kept(t, values, k, R, even)
          /\ In(s) \cap In(t) = {}
      BY <1>5, <1>6
    <2> HIDE DEF s, t, m
    <2>2. Joint(Merge(s, t), s, t, values, k, R, even)
      BY <2>1, MergeKeeps
    <2>3. m = Merge(s, t)
      BY DEF m, s, t
    <2>4. Joint(m, s, t, values, k, R, even)
      BY <2>2, <2>3
    <2> QED
      BY <2>4 DEF s, t, Joint
  <1> HIDE DEF m
  <1>8. /\ v \in Seq(Seq(Sets(R))) /\ Len(v) = 1 /\ v[1] = m
    <2>1. m \in Seq(Sets(R))
      BY <1>7 DEF Kept, Apart
    <2> QED
      BY <2>1, Singleton
  <1>9. /\ w \in Seq(Seq(Sets(R))) /\ Len(w) = N - 2
        /\ \A a \in 1..(N - 2) : w[a] = u[a + 2]
    <2>1. \A a \in 3..N : u[a] \in Seq(Sets(R))
      BY <1>1, <1>2, ElementOfSeq
    <2>2. /\ w \in Seq(Seq(Sets(R)))
          /\ Len(w) = IF 3 <= N THEN N - 3 + 1 ELSE 0
          /\ \A i \in 1..(N - 3 + 1) : w[i] = u[3 + i - 1]
      BY <1>1, <1>2, <2>1, SubSeqProperties
    <2> HIDE DEF w
    <2>3. Len(w) = N - 2
      BY <1>1, <2>2
    <2>4. ASSUME NEW a \in 1..(N - 2) PROVE w[a] = u[a + 2]
      <3>1. a \in 1..(N - 3 + 1) /\ 3 + a - 1 = a + 2
        BY <1>1
      <3> QED
        BY <2>2, <3>1
    <2> QED
      BY <2>2, <2>3, <2>4
  <1> HIDE DEF v, w
  <1>10. /\ z \in Seq(Seq(Sets(R))) /\ Len(z) = Len(v) + Len(w)
         /\ \A a \in 1..(Len(v) + Len(w)) :
                z[a] = IF a <= Len(v) THEN v[a] ELSE w[a - Len(v)]
    BY <1>8, <1>9, ConcatProperties, ZenonT(60)
  <1> HIDE DEF z
  <1>11. /\ Len(z) = N - 1 /\ 1 \in 1..(N - 1) /\ z[1] = m
         /\ \A a \in 2..(N - 1) : z[a] = u[a + 1]
    <2>1. Len(v) + Len(w) = N - 1
      BY <1>1, <1>8, <1>9
    <2>2. 1 \in 1..(N - 1) /\ z[1] = m
      BY <1>1, <1>8, <1>10, <2>1
    <2>3. ASSUME NEW a \in 2..(N - 1) PROVE z[a] = u[a + 1]
      <3>1. a \in 1..(N - 1) /\ ~(a <= Len(v)) /\ a - Len(v) = a - 1
        BY <1>1, <1>8
      <3>2. a - 1 \in 1..(N - 2) /\ (a - 1) + 2 = a + 1
        BY <1>1
      <3> QED
        BY <1>9, <1>10, <2>1, <3>1, <3>2
    <2> QED
      BY <1>10, <2>1, <2>2, <2>3
  <1>12. ASSUME NEW a \in 1..(N - 1) PROVE a = 1 \/ a \in 2..(N - 1)
    OBVIOUS
  <1>13. \A a \in 2..(N - 1) : a + 1 \in 1..N /\ a + 1 # 1 /\ a + 1 # 2
    BY <1>1
  <1>14. ASSUME NEW a \in 1..(N - 1) PROVE Kept(z[a], values, k, R, even)
    BY <1>5, <1>7, <1>11, <1>12, <1>13
  <1>15. ASSUME NEW a \in 2..(N - 1) PROVE In(z[1]) \cap In(z[a]) = {}
    <2> DEFINE b == a + 1
    <2>1. b \in 1..N /\ b # 1 /\ b # 2 /\ z[a] = u[b]
      BY <1>11, <1>13
    <2> HIDE DEF b
    <2>2. In(u[1]) \cap In(u[b]) = {} /\ In(u[2]) \cap In(u[b]) = {}
      BY <1>5, <1>6, <2>1
    <2> QED
      BY <1>7, <1>11, <2>1, <2>2
  <1>16. ASSUME NEW a \in 1..(N - 1), NEW b \in 1..(N - 1), a # b
         PROVE  In(z[a]) \cap In(z[b]) = {}
    <2>1. CASE a = 1
      BY <1>12, <1>15, <1>16, <2>1
    <2>2. CASE b = 1
      BY <1>12, <1>15, <1>16, <2>2
    <2>3. CASE a # 1 /\ b # 1
      <3> DEFINE c == a + 1
                 e == b + 1
      <3>1. /\ c \in 1..N /\ e \in 1..N /\ c # e
            /\ z[a] = u[c] /\ z[b] = u[e]
        BY <1>11, <1>12, <1>13, <1>16, <2>3
      <3> HIDE DEF c, e
      <3> QED
        BY <1>5, <3>1
    <2> QED
      BY <2>1, <2>2, <2>3
  <1>17. ASSUME NEW r \in R PROVE \E a \in 1..(N - 1) : r \in In(z[a])
    <2>1. PICK b \in 1..N : r \in In(u[b])
      BY <1>5
    <2>2. CASE b = 1 \/ b = 2
      <3>1. r \in In(z[1])
        BY <1>7, <1>11, <2>1, <2>2
      <3> QED
        BY <1>11, <3>1
    <2>3. CASE ~(b = 1 \/ b = 2)
      <3>1. b - 1 \in 2..(N - 1) /\ (b - 1) + 1 = b /\ b - 1 \in 1..(N - 1)
        BY <1>1, <2>3
      <3>2. r \in In(z[b - 1])
        BY <1>11, <2>1, <3>1
      <3> QED
        BY <3>1, <3>2
    <2> QED
      BY <2>2, <2>3
  <1>18. Queue(z, values, k, R, even)
    BY <1>10, <1>11, <1>14, <1>16, <1>17 DEF Queue
  <1> QED
    BY <1>3, <1>11, <1>18 DEF N

-----------------------------------------------------------------------------
(* Orders of rows.                                                         *)

\* Sorted returns the elements in another order.
LEMMA SortedRearranges ==
    ASSUME NEW S, NEW s \in Seq(S), NEW less
    PROVE  Rearranged(Sorted(s, less), s, S)
  <1>1. /\ Sorted(s, less) \in Seq(S)
        /\ Len(Sorted(s, less)) = Len(s)
        /\ \E p : /\ Reorders(p, Len(s))
                  /\ \A i \in 1..Len(s) : Sorted(s, less)[i] = s[p[i]]
                  /\ WeakOrder(less, Len(s)) => Ranked(p, Len(s), less)
    BY SortedPermutes
  <1> QED
    BY <1>1 DEF Rearranged

\* Increasing returns the rows in another order.
LEMMA IncreasingPermutes ==
    ASSUME NEW S, NEW values, NEW rows \in Seq(S)
    PROVE  Rearranged(Increasing(values, rows), rows, S)
  <1>1. PICK less : Increasing(values, rows) = Sorted(rows, less)
    BY DEF Increasing
  <1>2. Rearranged(Sorted(rows, less), rows, S)
    BY SortedRearranges
  <1> QED
    BY <1>1, <1>2

\* Rows in another order are the same rows.
LEMMA IncreasingHolds ==
    ASSUME NEW S, NEW values, NEW rows \in Seq(S)
    PROVE  /\ Held(Increasing(values, rows)) = Held(rows)
           /\ Once(rows) => Once(Increasing(values, rows))
  <1> DEFINE t == Increasing(values, rows)
             N == Len(rows)
  <1>1. N \in Nat
    BY LenProperties
  <1>2. /\ Len(t) = N
        /\ \E p : Reorders(p, N) /\ \A i \in 1..N : t[i] = rows[p[i]]
    <2>1. Rearranged(t, rows, S)
      BY IncreasingPermutes
    <2> QED
      BY <2>1 DEF Rearranged
  <1> HIDE DEF t, N
  <1>3. Len(rows) = N
    BY DEF N
  <1>4. PICK p : Reorders(p, N) /\ \A i \in 1..N : t[i] = rows[p[i]]
    BY <1>2
  <1>5. Held(t) = Held(rows) /\ (Once(rows) => Once(t))
    BY <1>1, <1>2, <1>3, <1>4, ReorderHolds
  <1> QED
    BY <1>5 DEF t

\* The rows from 1 to N.
LEMMA UpToIs ==
    ASSUME NEW N \in Nat
    PROVE  /\ UpTo(N) \in Seq(1..N) /\ Len(UpTo(N)) = N
           /\ \A i \in 1..N : UpTo(N)[i] = i
           /\ Held(UpTo(N)) = 1..N /\ Once(UpTo(N))
  <1> DEFINE u == UpTo(N)
  <1>1. u \in [1..N -> 1..N] /\ \A i \in 1..N : u[i] = i
    BY DEF UpTo
  <1> HIDE DEF u
  <1>2. u \in Seq(1..N) /\ Len(u) = N
    BY <1>1, FunctionIsSeq
  <1>3. Held(u) = 1..N /\ Once(u)
    BY <1>1, <1>2 DEF Held, Once
  <1> QED
    BY <1>1, <1>2, <1>3 DEF u

-----------------------------------------------------------------------------
(* karmarkar_karp.                                                         *)

\* What the differencing method begins with: N rows, in k sets.
Given(values, N, k, even) ==
    /\ N \in Nat \ {0} /\ Len(values) = N /\ Valued(values, 1..N)
    /\ k \in Nat \ {0}
    /\ even => N % k = 0

\* The states to begin with have every row, each once.
LEMMA FirstQueue ==
    ASSUME NEW values, NEW N, NEW k, NEW even, Given(values, N, k, even)
    PROVE  /\ Queue(FirstStates(values, k, even), values, k, 1..N, even)
           /\ Len(FirstStates(values, k, even)) \in Nat \ {0}
  <1> DEFINE R == 1..N
             rows == Increasing(values, UpTo(N))
             step == IF even THEN k ELSE 1
             L == N \div step
             q == [j \in 1..L |-> StateOf(values, Slice(rows, step, j), k)]
  <1>1. /\ N \in Nat \ {0} /\ N \in Nat /\ Len(values) = N
        /\ Valued(values, R)
        /\ k \in Nat \ {0} /\ k \in Nat /\ (even => N % k = 0)
    BY DEF Given
  <1>2. /\ rows \in Seq(R) /\ Len(rows) = N
        /\ Held(rows) = R /\ Once(rows)
    <2> DEFINE u == UpTo(N)
    <2>1. u \in Seq(R) /\ Len(u) = N /\ Held(u) = R /\ Once(u)
      BY <1>1, UpToIs
    <2>a. rows = Increasing(values, u)
      OBVIOUS
    <2> HIDE DEF u, R, rows
    <2>2. /\ Increasing(values, u) \in Seq(R)
          /\ Len(Increasing(values, u)) = Len(u)
      BY <2>1, IncreasingPermutes DEF Rearranged
    <2>3. /\ Held(Increasing(values, u)) = Held(u)
          /\ Once(Increasing(values, u))
      BY <2>1, IncreasingHolds
    <2> QED
      BY <2>1, <2>a, <2>2, <2>3
  <1> HIDE DEF rows
  <1>3. /\ step \in Nat \ {0} /\ step <= k /\ (even => step = k)
        /\ N % step = 0
    <2>1. CASE even
      BY <1>1, <2>1
    <2>2. CASE ~even
      BY <1>1, <2>2
    <2> QED
      BY <2>1, <2>2
  <1>4. FirstStates(values, k, even) = q
    BY <1>1, <1>2 DEF FirstStates, Slice, rows
  <1> HIDE DEF step
  <1>5. L \in Nat /\ N = L * step /\ L # 0
    <2>1. L \in Nat /\ N = step * L
      BY <1>1, <1>3, DivExact
    <2> HIDE DEF L
    <2>2. step * L = L * step /\ step * 0 = 0
      BY <1>3, <2>1
    <2> QED
      BY <1>1, <2>1, <2>2
  <1> HIDE DEF L
  <1>6. Len(rows) = L * step
    BY <1>2, <1>5
  <1>7. /\ \A j \in 1..L : Once(Slice(rows, step, j))
        /\ \A j, l \in 1..L : j # l =>
             Held(Slice(rows, step, j)) \cap Held(Slice(rows, step, l)) = {}
        /\ \A r \in Held(rows) :
             \E j \in 1..L : r \in Held(Slice(rows, step, j))
    <2> HIDE DEF R
    <2> QED
      BY <1>2, <1>3, <1>5, <1>6, SlicesPart
  <1>8. ASSUME NEW j \in 1..L
        PROVE  /\ Kept(q[j], values, k, R, even)
               /\ In(q[j]) = Held(Slice(rows, step, j))
    <2> DEFINE t == Slice(rows, step, j)
    <2>1. Cut(Slice(rows, step, j), rows, R, step, (j - 1) * step)
      <3> HIDE DEF R
      <3> QED
        BY <1>2, <1>3, <1>5, <1>6, SliceIs
    <2>2. t \in Seq(R) /\ Len(t) = step /\ Once(t) /\ R \subseteq Int
      BY <1>7, <2>1 DEF Cut
    <2>3. q[j] = StateOf(values, t, k)
      OBVIOUS
    <2> HIDE DEF t, R, q
    <2>4. Len(t) <= k
      BY <1>3, <2>2
    <2>5. Holds(StateOf(values, t, k), t, values, k, R)
      BY <1>1, <2>2, <2>4, StateOfRows
    <2>6. /\ Apart(q[j], values, k, R)
          /\ Falling(q[j], k)
          /\ In(q[j]) = Held(t)
          /\ Len(t) = k => Even(q[j], k) /\ Near(q[j], values, k)
      BY <2>3, <2>5 DEF Holds
    <2> QED
      BY <1>3, <2>2, <2>6 DEF Kept, t
  <1>9. q \in Seq(Seq(Sets(R))) /\ Len(q) = L
    <2>1. q = [j \in 1..L |-> q[j]]
      OBVIOUS
    <2> HIDE DEF q, R
    <2>2. \A j \in 1..L : q[j] \in Seq(Sets(R))
      BY <1>8 DEF Kept, Apart
    <2>3. q \in [1..L -> Seq(Sets(R))]
      BY <2>1, <2>2
    <2> QED
      BY <1>5, <2>3, FunctionIsSeq
  <1> HIDE DEF q, R
  <1>10. Queue(q, values, k, R, even)
    <2>1. \A j \in 1..L : Kept(q[j], values, k, R, even)
      BY <1>8
    <2>2. \A a, b \in 1..L : a # b => In(q[a]) \cap In(q[b]) = {}
      BY <1>7, <1>8
    <2>3. \A r \in R : \E a \in 1..L : r \in In(q[a])
      BY <1>2, <1>7, <1>8
    <2> QED
      BY <1>9, <2>1, <2>2, <2>3 DEF Queue
  <1> QED
    BY <1>4, <1>5, <1>9, <1>10 DEF R

\* The queues that karmarkar_karp goes through.
QueueRun(f, first, N) ==
    f = [n \in 0..N |-> IF n = 0 THEN first ELSE MergeFirst(f[n - 1])]

\* The rows of the first k sets.
Rows(state, k) == [j \in 1..k |-> state[j].rows]

\* The function that KarmarkarKarp defines.
LEMMA KarmarkarKarpUnfold ==
    ASSUME NEW values, NEW k, NEW even,
           \E f : QueueRun(f, FirstStates(values, k, even),
                          Len(FirstStates(values, k, even)) - 1)
    PROVE  \E f : /\ QueueRun(f, FirstStates(values, k, even),
                             Len(FirstStates(values, k, even)) - 1)
                  /\ KarmarkarKarp(values, k, even)
                        = Rows(f[Len(FirstStates(values, k, even)) - 1][1], k)
  BY DEF KarmarkarKarp, QueueRun, Rows

\* What is left in the end is one state, with every row.
LEMMA LastQueue ==
    ASSUME NEW values, NEW N, NEW k, NEW even, Given(values, N, k, even)
    PROVE  \E q : /\ Queue(q, values, k, 1..N, even)
                  /\ Len(q) = 1
                  /\ KarmarkarKarp(values, k, even)
                        = Rows(q[1], k)
  <1> DEFINE R == 1..N
             first == FirstStates(values, k, even)
             M == Len(first) - 1
             S == {q \in Seq(Seq(Sets(R))) : Queue(q, values, k, R, even)}
             F == [p \in S \X (1..M) |->
                    IF Len(p[1]) >= 2 THEN MergeFirst(p[1]) ELSE p[1]]
  <1>1. R \subseteq Int /\ Valued(values, R) /\ k \in Nat \ {0}
    BY DEF Given
  <1>2. Queue(first, values, k, R, even) /\ Len(first) \in Nat \ {0}
    BY FirstQueue
  <1> HIDE DEF R, first
  <1>3. M \in Nat /\ Len(first) = M + 1
    BY <1>2
  <1>4. first \in S
    BY <1>2 DEF Queue
  <1> HIDE DEF M
  <1>5. ASSUME NEW q \in S, Len(q) >= 2
        PROVE  MergeFirst(q) \in S /\ Len(MergeFirst(q)) = Len(q) - 1
    <2>1. /\ Queue(MergeFirst(q), values, k, R, even)
          /\ Len(MergeFirst(q)) = Len(q) - 1
      BY <1>1, <1>5, MergeFirstKeeps, ZenonT(60)
    <2> QED
      BY <2>1 DEF Queue
  <1>6. \A q \in S : Len(q) \in Nat
    BY LenProperties
  <1> HIDE DEF S
  <1>7. F \in [S \X (1..M) -> S]
    BY <1>5
  <1>8. \A q \in S, n \in 1..M :
            F[<<q, n>>] = IF Len(q) >= 2 THEN MergeFirst(q) ELSE q
    OBVIOUS
  <1> HIDE DEF F
  <1>9. Steps(S, M, first, F)
    BY <1>3, <1>4, <1>7 DEF Steps
  <1>10. \E f : Runs(f, S, M, first, F)
    BY <1>9, RecursionExists, Zenon
  <1>11. PICK f \in [0..M -> S] :
            f[0] = first /\ \A n \in 1..M : f[n] = F[<<f[n - 1], n>>]
    BY <1>10 DEF Runs
  <1> DEFINE Good == {n \in Nat : n <= M => Len(f[n]) = (M + 1) - n}
  <1>12. 0 \in Good
    BY <1>3, <1>11
  <1>13. ASSUME NEW n \in Good PROVE n + 1 \in Good
    <2>1. CASE n + 1 <= M
      <3>1. n \in 0..M /\ n + 1 \in 1..M /\ (n + 1) - 1 = n
        BY <2>1, <1>3
      <3>2. Len(f[n]) = (M + 1) - n /\ f[n] \in S
        BY <3>1, <1>11
      <3>3. Len(f[n]) >= 2
        BY <1>3, <2>1, <3>2
      <3>4. f[n + 1] = MergeFirst(f[n])
        BY <1>8, <1>11, <3>1, <3>2, <3>3, ZenonT(60)
      <3>5. Len(f[n + 1]) = Len(f[n]) - 1
        BY <1>5, <3>2, <3>3, <3>4
      <3> QED
        BY <1>3, <2>1, <3>2, <3>5
    <2>2. CASE ~(n + 1 <= M)
      BY <2>2
    <2> QED
      BY <2>1, <2>2
  <1>14. Good = Nat
    <2> HIDE DEF Good
    <2>1. Good \in SUBSET Nat
      BY DEF Good
    <2> QED
      BY <1>12, <1>13, <2>1, Induction
  <1>15. \A n \in 0..M : Len(f[n]) = (M + 1) - n
    BY <1>3, <1>14
  <1> HIDE DEF Good
  <1>16. ASSUME NEW n \in 1..M PROVE f[n] = MergeFirst(f[n - 1])
    <2>1. n - 1 \in 0..M /\ f[n - 1] \in S /\ Len(f[n - 1]) >= 2
      BY <1>3, <1>11, <1>15
    <2> QED
      BY <1>8, <1>11, <2>1
  <1>17. QueueRun(f, first, M)
    <2>1. ASSUME NEW n \in 0..M
          PROVE  f[n] = IF n = 0 THEN first ELSE MergeFirst(f[n - 1])
      <3>1. n # 0 => n \in 1..M
        BY <1>3
      <3> QED
        BY <1>11, <1>16, <3>1
    <2>2. f = [n \in 0..M |-> f[n]]
      BY <1>11
    <2> QED
      BY <2>1, <2>2 DEF QueueRun
  <1>18. PICK g : /\ QueueRun(g, first, M)
                  /\ KarmarkarKarp(values, k, even)
                        = Rows(g[M][1], k)
    <2>1. first = FirstStates(values, k, even) /\ M = Len(first) - 1
      BY DEF first, M
    <2> QED
      BY <1>17, <2>1, KarmarkarKarpUnfold
  <1>19. g[M] = f[M]
    <2>1. g[0] = first /\ \A n \in 1..M : g[n] = MergeFirst(g[n - 1])
      BY <1>3, <1>18 DEF QueueRun
    <2>2. Alike(g, f, M)
      BY <1>11, <1>16, <2>1 DEF Alike
    <2> QED
      BY <1>3, <2>2, RecursionUnique
  <1>20. M \in 0..M /\ f[M] \in S /\ Len(f[M]) = 1
    <2>1. M \in 0..M /\ (M + 1) - M = 1
      BY <1>3
    <2> QED
      BY <2>1, <1>11, <1>15
  <1>21. Queue(f[M], values, k, R, even)
    BY <1>20 DEF S
  <1> QED
    BY <1>18, <1>19, <1>20, <1>21 DEF R

-----------------------------------------------------------------------------
(* get_seqlen_balanced_partitions.                                         *)

\* k parts, every row in one of them, and once.
Parts(parts, k, N) ==
    /\ parts \in Seq(Seq(1..N)) /\ Len(parts) = k
    /\ \A j \in 1..k : Once(parts[j])
    /\ \A j, l \in 1..k : j # l => Held(parts[j]) \cap Held(parts[l]) = {}
    /\ \A r \in 1..N : \E j \in 1..k : r \in Held(parts[j])

\* The parts have as many rows.
Equal(parts, k) == \A j, l \in 1..k : Len(parts[j]) = Len(parts[l])

\* No part is further above another than one row is above another.
Level(parts, values, k, N) ==
    \E r, t \in 1..N : \A j, l \in 1..k :
        Total(values, parts[j]) - Total(values, parts[l])
            <= values[r] - values[t]

\* What the differencing method returns.
Parted(parts, values, k, N, even) ==
    /\ Parts(parts, k, N)
    /\ even => Equal(parts, k) /\ Level(parts, values, k, N)

\* The differencing method puts every row in one of k parts; if the parts
\* are to be equal they have as many rows, and are no further apart than two
\* rows are.
LEMMA KarmarkarKarpParts ==
    ASSUME NEW values, NEW N, NEW k, NEW even, Given(values, N, k, even)
    PROVE  Parted(KarmarkarKarp(values, k, even), values, k, N, even)
  <1> DEFINE R == 1..N
             parts == KarmarkarKarp(values, k, even)
  <1>1. PICK q : /\ Queue(q, values, k, R, even)
                 /\ Len(q) = 1
                 /\ parts = Rows(q[1], k)
    BY LastQueue
  <1> DEFINE s == q[1]
  <1>2. /\ Kept(s, values, k, R, even)
        /\ \A r \in R : r \in In(s)
    <2>1. 1..Len(q) = {1}
      BY <1>1
    <2> QED
      BY <1>1, <2>1 DEF Queue
  <1> HIDE DEF parts, s
  <1>3. k \in Nat \ {0} /\ k \in Nat
    BY DEF Given
  <1>4. /\ s \in Seq(Sets(R)) /\ Len(s) = k
        /\ \A j \in 1..k : /\ Once(s[j].rows)
                           /\ s[j].sum = Total(values, s[j].rows)
        /\ \A j, l \in 1..k :
                j # l => Held(s[j].rows) \cap Held(s[l].rows) = {}
    BY <1>2 DEF Kept, Apart
  <1>5. \A j \in 1..k : parts[j] = s[j].rows
    BY <1>1 DEF Rows, s
  <1>6. \A j \in 1..k : s[j].sum \in Int /\ s[j].rows \in Seq(R)
    BY <1>4, ElementOfSeq, SetFacts
  <1>7. parts \in Seq(Seq(R)) /\ Len(parts) = k
    <2>1. parts = [j \in 1..k |-> s[j].rows]
      BY <1>1 DEF Rows, s
    <2>2. parts \in [1..k -> Seq(R)]
      BY <1>6, <2>1
    <2> QED
      BY <1>3, <2>2, FunctionIsSeq
  <1>8. \A r : r \in In(s) <=> \E j \in 1..k : r \in Held(s[j].rows)
    BY <1>4, InMember
  <1>9. Parts(parts, k, N)
    <2>1. \A j \in 1..k : Once(parts[j])
      BY <1>4, <1>5
    <2>2. \A j, l \in 1..k : j # l => Held(parts[j]) \cap Held(parts[l]) = {}
      BY <1>4, <1>5
    <2>3. \A r \in R : \E j \in 1..k : r \in Held(parts[j])
      BY <1>2, <1>5, <1>8
    <2> QED
      BY <1>7, <2>1, <2>2, <2>3 DEF Parts
  <1>10. ASSUME even PROVE Equal(parts, k)
    BY <1>2, <1>5, <1>10 DEF Kept, Even, Equal
  <1>11. ASSUME even PROVE Level(parts, values, k, N)
    <2>1. PICK r, t \in In(s) : s[1].sum - s[k].sum <= values[r] - values[t]
      BY <1>2, <1>11 DEF Kept, Near
    <2>2. r \in R /\ t \in R
      BY <1>6, <1>8, HeldIn
    <2>3. values[r] \in Int /\ values[t] \in Int
      BY <2>2 DEF Given, Valued
    <2>4. ASSUME NEW j \in 1..k, NEW l \in 1..k
          PROVE  Total(values, parts[j]) - Total(values, parts[l])
                    <= values[r] - values[t]
      <3>1. Apart(s, values, k, R) /\ Falling(s, k)
        BY <1>2 DEF Kept
      <3>2. /\ s[j].sum \in Int /\ s[l].sum \in Int
            /\ s[j].sum - s[l].sum <= s[1].sum - s[k].sum
        BY <1>3, <3>1, FallingEnds
      <3>3. 1 \in 1..k /\ k \in 1..k
        BY <1>3
      <3>4. s[1].sum \in Int /\ s[k].sum \in Int
        BY <1>6, <3>3
      <3>5. /\ Total(values, parts[j]) = s[j].sum
            /\ Total(values, parts[l]) = s[l].sum
        BY <1>4, <1>5
      <3> QED
        BY <2>1, <2>3, <3>2, <3>4, <3>5
    <2> QED
      BY <2>2, <2>4 DEF Level
  <1> QED
    BY <1>9, <1>10, <1>11 DEF Parted, parts

\* The parts with their rows in another order.
Within(more, parts, k) ==
    \A j \in 1..k :
        /\ Len(more[j]) = Len(parts[j])
        /\ \E p : /\ Reorders(p, Len(parts[j]))
                  /\ \A i \in 1..Len(parts[j]) : more[j][i] = parts[j][p[i]]

\* The order of the rows in a part does not matter.
LEMMA PartedWithin ==
    ASSUME NEW values, NEW N, Valued(values, 1..N), NEW k, NEW even,
           NEW parts, Parted(parts, values, k, N, even),
           NEW more \in Seq(Seq(1..N)), Len(more) = k, Within(more, parts, k)
    PROVE  /\ Parted(more, values, k, N, even)
           /\ \A j \in 1..k : Held(more[j]) = Held(parts[j])
  <1> DEFINE R == 1..N
  <1>1. /\ parts \in Seq(Seq(R)) /\ Len(parts) = k
        /\ \A j \in 1..k : Once(parts[j])
        /\ \A j, l \in 1..k : j # l => Held(parts[j]) \cap Held(parts[l]) = {}
        /\ \A r \in R : \E j \in 1..k : r \in Held(parts[j])
    BY DEF Parted, Parts
  <1> HIDE DEF R
  <1>2. Valued(values, R) /\ more \in Seq(Seq(R))
    BY DEF R
  <1>3. ASSUME NEW j \in 1..k
        PROVE  /\ Held(more[j]) = Held(parts[j])
               /\ Once(more[j])
               /\ Len(more[j]) = Len(parts[j])
               /\ Total(values, more[j]) = Total(values, parts[j])
    <2> DEFINE a == parts[j]
               b == more[j]
               M == Len(a)
    <2>1. a \in Seq(R) /\ b \in Seq(R)
      BY <1>1, <1>2, ElementOfSeq
    <2>2. /\ Len(b) = M
          /\ \E p : Reorders(p, M) /\ \A i \in 1..M : b[i] = a[p[i]]
      BY DEF Within
    <2>3. M \in Nat /\ Once(a)
      BY <1>1, <2>1, LenProperties
    <2> HIDE DEF a, b, M
    <2>4. PICK p : Reorders(p, M) /\ \A i \in 1..M : b[i] = a[p[i]]
      BY <2>2
    <2>5. Len(a) = M
      BY DEF M
    <2>6. Held(b) = Held(a) /\ Once(b)
      BY <2>2, <2>3, <2>4, <2>5, ReorderHolds
    <2>7. Total(values, b) = Total(values, a)
      <3>1. /\ Len(b) = Len(a) /\ Reorders(p, Len(a))
            /\ \A i \in 1..Len(a) : b[i] = a[p[i]]
        BY <2>2, <2>4, <2>5
      <3> QED
        BY <1>2, <2>1, <3>1, TotalPermutes
    <2> QED
      BY <2>2, <2>5, <2>6, <2>7 DEF a, b
  <1>4. Parts(more, k, N)
    <2>1. \A r \in R : \E j \in 1..k : r \in Held(more[j])
      BY <1>1, <1>3
    <2>2. \A j, l \in 1..k : j # l => Held(more[j]) \cap Held(more[l]) = {}
      BY <1>1, <1>3
    <2> QED
      BY <1>2, <1>3, <2>1, <2>2 DEF Parts, R
  <1>5. even => Equal(more, k)
    <2> SUFFICES ASSUME even, NEW j \in 1..k, NEW l \in 1..k
                 PROVE  Len(more[j]) = Len(more[l])
      BY DEF Equal
    <2>1. Len(parts[j]) = Len(parts[l])
      BY DEF Parted, Equal
    <2>2. Len(more[j]) = Len(parts[j]) /\ Len(more[l]) = Len(parts[l])
      BY DEF Within
    <2> QED
      BY <2>1, <2>2
  <1>6. even => Level(more, values, k, N)
    BY <1>3 DEF Parted, Level
  <1> QED
    BY <1>3, <1>4, <1>5, <1>6 DEF Parted

\* get_seqlen_balanced_partitions puts every row in one part and once; with
\* equal_size the parts have as many rows, and no two are further apart in
\* total than two rows are in value.
THEOREM BalancedParts ==
    ASSUME NEW values, NEW N, NEW k, NEW even, Given(values, N, k, even)
    PROVE  Parted(BalancedPartitions(values, k, even), values, k, N, even)
  <1> DEFINE R == 1..N
             parts == KarmarkarKarp(values, k, even)
             Less(j) == {p \in Pairs(parts[j]) :
                            parts[j][p[1]] < parts[j][p[2]]}
             more == [j \in 1..k |-> Sorted(parts[j], Less(j))]
  <1>1. Parted(parts, values, k, N, even)
    BY KarmarkarKarpParts
  <1>2. more = BalancedPartitions(values, k, even)
    BY DEF BalancedPartitions
  <1> HIDE DEF parts, Less
  <1>3. parts \in Seq(Seq(R)) /\ Len(parts) = k
    BY <1>1 DEF Parted, Parts
  <1> HIDE DEF R
  <1>4. ASSUME NEW j \in 1..k
        PROVE  /\ more[j] \in Seq(R)
               /\ Len(more[j]) = Len(parts[j])
               /\ \E p : /\ Reorders(p, Len(parts[j]))
                         /\ \A i \in 1..Len(parts[j]) :
                                more[j][i] = parts[j][p[i]]
    <2> DEFINE a == parts[j]
               less == Less(j)
    <2>1. a \in Seq(R) /\ more[j] = Sorted(a, less)
      BY <1>3, ElementOfSeq
    <2> HIDE DEF a, less, more
    <2>2. /\ Sorted(a, less) \in Seq(R)
          /\ Len(Sorted(a, less)) = Len(a)
          /\ \E p : /\ Reorders(p, Len(a))
                    /\ \A i \in 1..Len(a) : Sorted(a, less)[i] = a[p[i]]
                    /\ WeakOrder(less, Len(a)) => Ranked(p, Len(a), less)
      BY <2>1, SortedPermutes
    <2>3. /\ more[j] \in Seq(R)
          /\ Len(more[j]) = Len(a)
          /\ \E p : /\ Reorders(p, Len(a))
                    /\ \A i \in 1..Len(a) : more[j][i] = a[p[i]]
      BY <2>1, <2>2
    <2> QED
      BY <2>3 DEF a
  <1>5. more \in Seq(Seq(R)) /\ Len(more) = k
    <2>1. more = [j \in 1..k |-> more[j]]
      OBVIOUS
    <2> HIDE DEF more
    <2>2. more \in [1..k -> Seq(R)]
      BY <1>4, <2>1
    <2>3. k \in Nat
      BY DEF Given
    <2> QED
      BY <2>2, <2>3, FunctionIsSeq
  <1> HIDE DEF more
  <1>6. Within(more, parts, k)
    BY <1>4 DEF Within
  <1>7. Valued(values, 1..N)
    BY DEF Given
  <1>8. more \in Seq(Seq(1..N))
    BY <1>5 DEF R
  <1> QED
    BY <1>1, <1>2, <1>5, <1>6, <1>7, <1>8, PartedWithin

-----------------------------------------------------------------------------
(* Parts, one behind the other.                                            *)

\* All rows, in some order.
Order(idx, N) ==
    idx \in Seq(1..N) /\ Len(idx) = N /\ Once(idx) /\ Held(idx) = 1..N

\* The parts, one behind the other, are all rows in some order.
LEMMA PartsOrder ==
    ASSUME NEW N \in Nat, NEW k, NEW parts, Parts(parts, k, N)
    PROVE  Order(FlattenSeq(parts), N)
  <1> DEFINE R == 1..N
             t == FlattenSeq(parts)
  <1>1. /\ parts \in Seq(Seq(R)) /\ Len(parts) = k
        /\ \A j \in 1..k : Once(parts[j])
        /\ \A j, l \in 1..k : j # l => Held(parts[j]) \cap Held(parts[l]) = {}
        /\ \A r \in R : \E j \in 1..k : r \in Held(parts[j])
    BY DEF Parts
  <1> HIDE DEF R
  <1>2. /\ \A r : r \in Held(t) <=> \E j \in 1..k : r \in Held(parts[j])
        /\ Once(t)
    BY <1>1, FlattenHolds
  <1>3. t \in Seq(R)
    BY <1>1, EndsAdd
  <1> HIDE DEF t
  <1>4. Held(t) = R
    <2>1. Held(t) \subseteq R
      BY <1>3, HeldIn
    <2> QED
      BY <1>1, <1>2, <2>1
  <1>5. Len(t) = N
    BY <1>2, <1>3, <1>4, OnceLength DEF R
  <1> QED
    BY <1>2, <1>3, <1>4, <1>5 DEF Order, t, R

\* Parts of as many rows come one behind the other.
Regular(parts, idx, k, m) ==
    \A j \in 1..k :
        /\ Len(parts[j]) = m
        /\ \A i \in 1..m : /\ (j - 1) * m + i \in 1..Len(idx)
                           /\ idx[(j - 1) * m + i] = parts[j][i]

\* Equal parts, one behind the other, are slices.
LEMMA PartsRegular ==
    ASSUME NEW N \in Nat, NEW k \in Nat \ {0}, NEW parts,
           Parts(parts, k, N), Equal(parts, k)
    PROVE  /\ N \div k \in Nat
           /\ k * (N \div k) = N
           /\ Regular(parts, FlattenSeq(parts), k, N \div k)
  <1> DEFINE R == 1..N
             t == FlattenSeq(parts)
             m == Len(parts[1])
  <1>1. parts \in Seq(Seq(R)) /\ Len(parts) = k
    BY DEF Parts
  <1>2. Len(t) = N
    BY PartsOrder DEF Order
  <1>3. m \in Nat /\ \A j \in 1..k : Len(parts[j]) = m
    <2>1. 1 \in 1..k
      OBVIOUS
    <2>2. parts[1] \in Seq(R)
      BY <1>1, <2>1, ElementOfSeq
    <2>3. m \in Nat
      BY <2>2, LenProperties
    <2> QED
      BY <2>1, <2>3 DEF Equal
  <1> HIDE DEF m, R
  <1>4. \A n \in 0..k : Ends(parts, n) = n * m
    BY <1>1, <1>3, EqualEnds
  <1>5. Len(t) = Ends(parts, k)
    BY <1>1, EndsAdd
  <1>6. \A j \in 1..k : \A i \in 1..Len(parts[j]) :
            /\ Ends(parts, j - 1) + i \in 1..Len(t)
            /\ t[Ends(parts, j - 1) + i] = parts[j][i]
    <2>1. \A j \in 1..Len(parts) : \A i \in 1..Len(parts[j]) :
            /\ Ends(parts, j - 1) + i \in 1..Len(FlattenSeq(parts))
            /\ FlattenSeq(parts)[Ends(parts, j - 1) + i] = parts[j][i]
      BY <1>1, FlattenPlaces
    <2>2. Len(parts) = k
      BY <1>1
    <2> HIDE DEF t
    <2>3. t = FlattenSeq(parts)
      BY DEF t
    <2> QED
      BY <2>1, <2>2, <2>3
  <1> HIDE DEF t
  <1>7. k * m = N
    BY <1>2, <1>4, <1>5
  <1>8. N \div k = m
    BY <1>3, <1>7, Multiple
  <1>9. ASSUME NEW j \in 1..k, NEW i \in 1..m
        PROVE  (j - 1) * m + i \in 1..Len(t)
               /\ t[(j - 1) * m + i] = parts[j][i]
    <2>1. Ends(parts, j - 1) = (j - 1) * m
      BY <1>4
    <2>2. i \in 1..Len(parts[j])
      BY <1>3
    <2> QED
      BY <1>6, <2>1, <2>2
  <1>10. Regular(parts, t, k, m)
    BY <1>3, <1>9 DEF Regular
  <1> QED
    BY <1>3, <1>7, <1>8, <1>10 DEF t

-----------------------------------------------------------------------------
(* Every second row.                                                       *)

\* The first, third, ... or the second, fourth, ... element.
Seconds(t, s, S, start, n) ==
    /\ t \in Seq(S) /\ Len(t) = n
    /\ \A i \in 1..n : start + 2 * i - 1 \in 1..Len(s)
                       /\ t[i] = s[start + 2 * i - 1]

\* What EverySecond returns.
LEMMA EverySecondIs ==
    ASSUME NEW S, NEW s \in Seq(S), NEW start \in {0, 1}
    PROVE  Seconds(EverySecond(s, start), s, S, start,
                   (Len(s) + 1 - start) \div 2)
  <1> DEFINE N == Len(s)
             n == (N + 1 - start) \div 2
             t == EverySecond(s, start)
  <1>1. N \in Nat /\ \A i \in 1..N : s[i] \in S
    BY LenProperties, ElementOfSeq
  <1>2. t = [i \in 1..n |-> s[start + 2 * i - 1]]
    BY DEF EverySecond
  <1>3. n \in Nat /\ \A i \in 1..n : start + 2 * i - 1 \in 1..N
    BY <1>1
  <1> HIDE DEF N, n, t
  <1>4. t \in [1..n -> S]
    BY <1>1, <1>2, <1>3
  <1>5. t \in Seq(S) /\ Len(t) = n
    BY <1>3, <1>4, FunctionIsSeq
  <1>6. Seconds(t, s, S, start, n)
    BY <1>2, <1>3, <1>5 DEF Seconds, N
  <1> QED
    BY <1>6 DEF N, n, t

\* The longest in the middle.
LEMMA MiddleRearranges ==
    ASSUME NEW S, NEW s \in Seq(S)
    PROVE  Rearranged(EverySecond(s, 0) \o Reverse(EverySecond(s, 1)), s, S)
  <1> DEFINE N == Len(s)
             h == (N + 1) \div 2
             l == N \div 2
             a == EverySecond(s, 0)
             b == EverySecond(s, 1)
             r == Reverse(b)
             t == a \o r
             p == [i \in 1..N |-> IF i <= h THEN 2 * i - 1
                                  ELSE 2 * ((N - i) + 1)]
  <1>1. N \in Nat /\ h \in Nat /\ l \in Nat /\ h + l = N
        /\ N + 1 - 0 = N + 1 /\ N + 1 - 1 = N
    BY LenProperties
  <1>2. Seconds(a, s, S, 0, h)
    <2>1. Seconds(a, s, S, 0, (Len(s) + 1 - 0) \div 2)
      BY EverySecondIs
    <2> QED
      BY <1>1, <2>1
  <1>3. Seconds(b, s, S, 1, l)
    <2>1. Seconds(b, s, S, 1, (Len(s) + 1 - 1) \div 2)
      BY EverySecondIs
    <2> QED
      BY <1>1, <2>1
  <1>4. /\ a \in Seq(S) /\ Len(a) = h
        /\ \A i \in 1..h : a[i] = s[2 * i - 1]
    <2> HIDE DEF a, h
    <2>1. \A i \in 1..h : 0 + 2 * i - 1 = 2 * i - 1
      BY <1>1
    <2> QED
      BY <1>2, <2>1 DEF Seconds
  <1>5. /\ b \in Seq(S) /\ Len(b) = l
        /\ \A i \in 1..l : b[i] = s[2 * i]
    <2> HIDE DEF b, l
    <2>1. \A i \in 1..l : 1 + 2 * i - 1 = 2 * i
      BY <1>1
    <2> QED
      BY <1>3, <2>1 DEF Seconds
  <1> HIDE DEF a, b
  <1>6. /\ r \in Seq(S) /\ Len(r) = l
        /\ \A i \in 1..l : (l - i) + 1 \in 1..l /\ r[i] = b[(l - i) + 1]
    <2>1. /\ Reverse(b) \in Seq(S) /\ Len(Reverse(b)) = Len(b)
          /\ \A i \in 1..Len(b) :
                /\ (Len(b) - i) + 1 \in 1..Len(b)
                /\ Reverse(b)[i] = b[(Len(b) - i) + 1]
      BY <1>5, ReverseIs
    <2> QED
      BY <1>5, <2>1
  <1> HIDE DEF r
  <1>7. /\ t \in Seq(S) /\ Len(t) = h + l
        /\ \A i \in 1..(h + l) : t[i] = IF i <= h THEN a[i] ELSE r[i - h]
    <2> HIDE DEF h, l
    <2>1. /\ a \o r \in Seq(S) /\ Len(a \o r) = Len(a) + Len(r)
          /\ \A i \in 1..(Len(a) + Len(r)) :
                (a \o r)[i] = IF i <= Len(a) THEN a[i] ELSE r[i - Len(a)]
      <3>1. a \in Seq(S) /\ r \in Seq(S)
        BY <1>4, <1>6
      <3> QED
        BY <3>1, ConcatProperties
    <2> QED
      BY <1>4, <1>6, <2>1
  <1> HIDE DEF t
  <1>8. ASSUME NEW i \in 1..N PROVE t[i] = s[p[i]]
    <2>1. CASE i <= h
      <3>1. i \in 1..h
        BY <1>1, <2>1
      <3> QED
        BY <1>1, <1>4, <1>7, <2>1, <3>1
    <2>2. CASE ~(i <= h)
      <3>1. i - h \in 1..l /\ (l - (i - h)) + 1 = (N - i) + 1
        BY <1>1, <2>2
      <3>2. (N - i) + 1 \in 1..l
        BY <1>6, <3>1
      <3>3. r[i - h] = b[(N - i) + 1]
        BY <1>6, <3>1
      <3>4. b[(N - i) + 1] = s[2 * ((N - i) + 1)]
        BY <1>5, <3>2
      <3>5. t[i] = r[i - h]
        BY <1>1, <1>7, <2>2
      <3>6. p[i] = 2 * ((N - i) + 1)
        BY <2>2
      <3> QED
        BY <3>3, <3>4, <3>5, <3>6
    <2> QED
      BY <2>1, <2>2
  <1>9. Reorders(p, N)
    <2>1. p \in [1..N -> 1..N]
      BY <1>1
    <2>2. \A i, j \in 1..N : p[i] = p[j] => i = j
      BY <1>1
    <2>3. ASSUME NEW k \in 1..N PROVE \E i \in 1..N : p[i] = k
      <3>1. CASE k % 2 = 1
        <4> DEFINE i == (k + 1) \div 2
        <4>1. i \in 1..N /\ i <= h /\ 2 * i - 1 = k
          BY <1>1, <3>1
        <4> QED
          BY <4>1
      <3>2. CASE k % 2 = 0
        <4> DEFINE i == (N + 1) - (k \div 2)
        <4>1. i \in 1..N /\ ~(i <= h) /\ 2 * ((N - i) + 1) = k
          BY <1>1, <3>2
        <4> QED
          BY <4>1
      <3> QED
        BY <3>1, <3>2
    <2> HIDE DEF p
    <2> QED
      BY <2>1, <2>2, <2>3 DEF Reorders
  <1>10. Rearranged(t, s, S)
    <2> HIDE DEF p
    <2> QED
      BY <1>1, <1>7, <1>8, <1>9 DEF Rearranged
  <1> QED
    BY <1>10 DEF t, a, r, b

\* The smaller ones at both ends.
LEMMA EndsRearrange ==
    ASSUME NEW S, NEW s \in Seq(S)
    PROVE  Rearranged(Reverse(EverySecond(s, 0)) \o EverySecond(s, 1), s, S)
  <1> DEFINE N == Len(s)
             h == (N + 1) \div 2
             l == N \div 2
             a == EverySecond(s, 0)
             b == EverySecond(s, 1)
             r == Reverse(a)
             t == r \o b
             p == [i \in 1..N |-> IF i <= h THEN 2 * ((h - i) + 1) - 1
                                  ELSE 2 * (i - h)]
  <1>1. N \in Nat /\ h \in Nat /\ l \in Nat /\ h + l = N
        /\ N + 1 - 0 = N + 1 /\ N + 1 - 1 = N
    BY LenProperties
  <1>2. Seconds(a, s, S, 0, h)
    <2>1. Seconds(a, s, S, 0, (Len(s) + 1 - 0) \div 2)
      BY EverySecondIs
    <2> QED
      BY <1>1, <2>1
  <1>3. Seconds(b, s, S, 1, l)
    <2>1. Seconds(b, s, S, 1, (Len(s) + 1 - 1) \div 2)
      BY EverySecondIs
    <2> QED
      BY <1>1, <2>1
  <1>4. /\ a \in Seq(S) /\ Len(a) = h
        /\ \A i \in 1..h : a[i] = s[2 * i - 1]
    <2> HIDE DEF a, h
    <2>1. \A i \in 1..h : 0 + 2 * i - 1 = 2 * i - 1
      BY <1>1
    <2> QED
      BY <1>2, <2>1 DEF Seconds
  <1>5. /\ b \in Seq(S) /\ Len(b) = l
        /\ \A i \in 1..l : b[i] = s[2 * i]
    <2> HIDE DEF b, l
    <2>1. \A i \in 1..l : 1 + 2 * i - 1 = 2 * i
      BY <1>1
    <2> QED
      BY <1>3, <2>1 DEF Seconds
  <1> HIDE DEF a, b
  <1>6. /\ r \in Seq(S) /\ Len(r) = h
        /\ \A i \in 1..h : (h - i) + 1 \in 1..h /\ r[i] = a[(h - i) + 1]
    <2>1. /\ Reverse(a) \in Seq(S) /\ Len(Reverse(a)) = Len(a)
          /\ \A i \in 1..Len(a) :
                /\ (Len(a) - i) + 1 \in 1..Len(a)
                /\ Reverse(a)[i] = a[(Len(a) - i) + 1]
      BY <1>4, ReverseIs
    <2> QED
      BY <1>4, <2>1
  <1> HIDE DEF r
  <1>7. /\ t \in Seq(S) /\ Len(t) = h + l
        /\ \A i \in 1..(h + l) : t[i] = IF i <= h THEN r[i] ELSE b[i - h]
    <2> HIDE DEF h, l
    <2>1. /\ r \o b \in Seq(S) /\ Len(r \o b) = Len(r) + Len(b)
          /\ \A i \in 1..(Len(r) + Len(b)) :
                (r \o b)[i] = IF i <= Len(r) THEN r[i] ELSE b[i - Len(r)]
      <3>1. r \in Seq(S) /\ b \in Seq(S)
        BY <1>5, <1>6
      <3> QED
        BY <3>1, ConcatProperties
    <2> QED
      BY <1>5, <1>6, <2>1
  <1> HIDE DEF t
  <1>8. ASSUME NEW i \in 1..N PROVE t[i] = s[p[i]]
    <2>1. CASE i <= h
      <3>1. i \in 1..h /\ (h - i) + 1 \in 1..h
        BY <1>1, <2>1
      <3>2. t[i] = a[(h - i) + 1]
        BY <1>1, <1>6, <1>7, <2>1, <3>1
      <3>3. a[(h - i) + 1] = s[2 * ((h - i) + 1) - 1]
        BY <1>4, <3>1
      <3>4. p[i] = 2 * ((h - i) + 1) - 1
        BY <2>1
      <3> QED
        BY <3>2, <3>3, <3>4
    <2>2. CASE ~(i <= h)
      <3>1. i - h \in 1..l
        BY <1>1, <2>2
      <3>2. t[i] = b[i - h]
        BY <1>1, <1>7, <2>2
      <3> QED
        BY <1>5, <2>2, <3>1, <3>2
    <2> QED
      BY <2>1, <2>2
  <1>9. Reorders(p, N)
    <2>1. p \in [1..N -> 1..N]
      BY <1>1
    <2>2. \A i, j \in 1..N : p[i] = p[j] => i = j
      BY <1>1
    <2>3. ASSUME NEW k \in 1..N PROVE \E i \in 1..N : p[i] = k
      <3>1. CASE k % 2 = 1
        <4> DEFINE i == (h + 1) - ((k + 1) \div 2)
        <4>1. i \in 1..N /\ i <= h /\ 2 * ((h - i) + 1) - 1 = k
          BY <1>1, <3>1
        <4> QED
          BY <4>1
      <3>2. CASE k % 2 = 0
        <4> DEFINE i == h + (k \div 2)
        <4>1. i \in 1..N /\ ~(i <= h) /\ 2 * (i - h) = k
          BY <1>1, <3>2
        <4> QED
          BY <4>1
      <3> QED
        BY <3>1, <3>2
    <2> HIDE DEF p
    <2> QED
      BY <2>1, <2>2, <2>3 DEF Reorders
  <1>10. Rearranged(t, s, S)
    <2> HIDE DEF p
    <2> QED
      BY <1>1, <1>7, <1>8, <1>9 DEF Rearranged
  <1> QED
    BY <1>10 DEF t, a, r, b

-----------------------------------------------------------------------------
(* _balance_batch, rearrange_micro_batches and restore_dynamic_batch.      *)

\* LongestInMiddle returns the rows in another order.
LEMMA MiddleIs ==
    ASSUME NEW S, NEW values, NEW rows \in Seq(S)
    PROVE  Rearranged(LongestInMiddle(values, rows), rows, S)
  <1> DEFINE s == Increasing(values, rows)
             t == EverySecond(s, 0) \o Reverse(EverySecond(s, 1))
  <1>1. Rearranged(s, rows, S)
    BY IncreasingPermutes
  <1>2. t = LongestInMiddle(values, rows)
    BY DEF LongestInMiddle
  <1> HIDE DEF s
  <1>3. s \in Seq(S)
    BY <1>1 DEF Rearranged
  <1>4. Rearranged(t, s, S)
    BY <1>3, MiddleRearranges
  <1> HIDE DEF t
  <1> QED
    BY <1>1, <1>2, <1>4, RearrangedTwice

\* The parts of a batch that is balanced row by row.
LEMMA MiddleParts ==
    ASSUME NEW values, NEW N, NEW k, NEW even, Given(values, N, k, even),
           NEW parts, Parted(parts, values, k, N, even),
           NEW more, more = [j \in DOMAIN parts |->
                                LongestInMiddle(values, parts[j])]
    PROVE  Parted(more, values, k, N, even)
  <1> DEFINE R == 1..N
  <1>1. parts \in Seq(Seq(R)) /\ Len(parts) = k /\ k \in Nat
        /\ Valued(values, R)
    BY DEF Parted, Parts, Given
  <1>2. DOMAIN parts = 1..k
    BY <1>1, LenProperties
  <1> HIDE DEF R
  <1>3. ASSUME NEW j \in 1..k
        PROVE  Rearranged(more[j], parts[j], R)
    <2> DEFINE a == parts[j]
    <2>1. a \in Seq(R) /\ more[j] = LongestInMiddle(values, a)
      BY <1>1, <1>2, ElementOfSeq
    <2> HIDE DEF a
    <2>2. Rearranged(LongestInMiddle(values, a), a, R)
      BY <2>1, MiddleIs
    <2> QED
      BY <2>1, <2>2 DEF a
  <1>4. more \in Seq(Seq(R)) /\ Len(more) = k
    <2>1. more = [j \in 1..k |-> more[j]]
      BY <1>2
    <2>2. \A j \in 1..k : more[j] \in Seq(R)
      BY <1>3 DEF Rearranged
    <2>3. more \in [1..k -> Seq(R)]
      BY <2>1, <2>2
    <2> QED
      BY <1>1, <2>3, FunctionIsSeq
  <1>5. Within(more, parts, k)
    BY <1>3 DEF Rearranged, Within
  <1>6. Valued(values, 1..N) /\ more \in Seq(Seq(1..N))
    BY <1>1, <1>4 DEF R
  <1> QED
    BY <1>4, <1>5, <1>6, PartedWithin

\* The parts in another order.
LEMMA PartsRearranged ==
    ASSUME NEW N, NEW k \in Nat, NEW parts, Parts(parts, k, N),
           NEW more, Rearranged(more, parts, Seq(1..N))
    PROVE  Parts(more, k, N)
  <1> DEFINE R == 1..N
  <1>1. /\ parts \in Seq(Seq(R)) /\ Len(parts) = k
        /\ \A j \in 1..k : Once(parts[j])
        /\ \A j, l \in 1..k : j # l => Held(parts[j]) \cap Held(parts[l]) = {}
        /\ \A r \in R : \E j \in 1..k : r \in Held(parts[j])
    BY DEF Parts
  <1>2. more \in Seq(Seq(R)) /\ Len(more) = k
    BY <1>1 DEF Rearranged
  <1>3. PICK p : Reorders(p, k) /\ \A i \in 1..k : more[i] = parts[p[i]]
    BY <1>1 DEF Rearranged
  <1> HIDE DEF R
  <1>4. /\ \A i \in 1..k : p[i] \in 1..k
        /\ \A i, j \in 1..k : p[i] = p[j] => i = j
        /\ \A j \in 1..k : \E i \in 1..k : p[i] = j
    BY <1>3 DEF Reorders
  <1>5. ASSUME NEW j \in 1..k PROVE Once(more[j])
    <2>1. p[j] \in 1..k /\ more[j] = parts[p[j]]
      BY <1>3, <1>4
    <2>2. Once(parts[p[j]])
      BY <1>1, <2>1
    <2> QED
      BY <2>1, <2>2
  <1>6. ASSUME NEW j \in 1..k, NEW l \in 1..k, j # l
        PROVE  Held(more[j]) \cap Held(more[l]) = {}
    <2>1. p[j] \in 1..k /\ p[l] \in 1..k /\ p[j] # p[l]
      BY <1>4, <1>6
    <2>2. Held(parts[p[j]]) \cap Held(parts[p[l]]) = {}
      BY <1>1, <2>1
    <2> QED
      BY <1>3, <2>2
  <1>7. ASSUME NEW r \in R PROVE \E j \in 1..k : r \in Held(more[j])
    <2>1. PICK l \in 1..k : r \in Held(parts[l])
      BY <1>1
    <2>2. PICK j \in 1..k : p[j] = l
      BY <1>4
    <2>3. r \in Held(more[j])
      BY <1>3, <2>1, <2>2
    <2> QED
      BY <2>3
  <1> QED
    BY <1>2, <1>5, <1>6, <1>7 DEF Parts, R

\* The lengths of rows are numbers.
Lengths(lens, N) == N \in Nat \ {0} /\ lens \in Seq(Nat) /\ Len(lens) = N

\* rearrange_micro_batches puts every row in one of k micro-batches, and
\* once.
THEOREM MicroBatchesAre ==
    ASSUME NEW lens, NEW N, Lengths(lens, N), NEW k \in Nat \ {0}
    PROVE  Parts(MicroBatches(lens, k), k, N)
  <1> DEFINE R == 1..N
             work == [i \in DOMAIN lens |-> Workload(lens[i])]
             parts == BalancedPartitions(work, k, FALSE)
             Heavier(p, q) == \/ Total(work, p) > Total(work, q)
                              \/ Total(work, p) = Total(work, q) /\ p[1] > q[1]
             less == {p \in Pairs(parts) : Heavier(parts[p[1]], parts[p[2]])}
             s == Sorted(parts, less)
             t == Reverse(EverySecond(s, 0)) \o EverySecond(s, 1)
  <1>1. /\ N \in Nat \ {0} /\ N \in Nat /\ DOMAIN lens = 1..N
        /\ \A i \in 1..N : lens[i] \in Nat
    BY LenProperties, ElementOfSeq DEF Lengths
  <1>2. t = MicroBatches(lens, k)
    BY DEF MicroBatches
  <1>3. Given(work, N, k, FALSE)
    <2>1. \A i \in 1..N : Workload(lens[i]) \in Int
      BY <1>1 DEF Workload
    <2>2. work \in [1..N -> Int] /\ \A i \in 1..N : work[i] \in Int
      BY <1>1, <2>1
    <2> HIDE DEF work
    <2>3. Len(work) = N
      BY <1>1, <2>2, FunctionIsSeq
    <2> QED
      BY <1>1, <2>2, <2>3 DEF Given, Valued
  <1> HIDE DEF work
  <1>4. Parted(parts, work, k, N, FALSE)
    BY <1>3, BalancedParts
  <1> HIDE DEF parts
  <1>5. Parts(parts, k, N) /\ parts \in Seq(Seq(R)) /\ Len(parts) = k
    BY <1>4 DEF Parted, Parts
  <1> HIDE DEF R, less
  <1>6. Rearranged(s, parts, Seq(R))
    BY <1>5, SortedRearranges
  <1> HIDE DEF s
  <1>7. Rearranged(t, s, Seq(R))
    <2>1. s \in Seq(Seq(R))
      BY <1>6 DEF Rearranged
    <2> QED
      BY <2>1, EndsRearrange
  <1> HIDE DEF t
  <1>8. Rearranged(t, parts, Seq(R))
    BY <1>6, <1>7, RearrangedTwice
  <1>9. Parts(t, k, N)
    <2>1. k \in Nat
      OBVIOUS
    <2> QED
      BY <1>5, <1>8, <2>1, PartsRearranged DEF R
  <1> QED
    BY <1>2, <1>9

\* The number of micro-batches is a number.
LEMMA NeededIsNat ==
    ASSUME NEW lens, NEW N, Lengths(lens, N), NEW max \in Nat \ {0}
    PROVE  MicroBatchesNeeded(lens, max) \in Nat
  <1> DEFINE tokens == Total(lens, UpTo(Len(lens)))
             n == CeilDiv(tokens, max)
  <1>1. N \in Nat /\ Len(lens) = N /\ \A i \in 1..N : lens[i] \in Nat
    BY ElementOfSeq DEF Lengths
  <1>2. UpTo(N) \in Seq(1..N)
    BY <1>1, UpToIs
  <1>3. tokens \in Nat
    <2> DEFINE R == 1..N
               u == UpTo(N)
    <2>1. u \in Seq(R) /\ \A r \in R : lens[r] \in Nat
      BY <1>1, <1>2
    <2> HIDE DEF R, u
    <2>2. Total(lens, u) \in Nat
      BY <2>1, TotalOfNats
    <2> QED
      BY <1>1, <2>2 DEF u
  <1>4. MicroBatchesNeeded(lens, max) = IF n < Len(lens) THEN n ELSE Len(lens)
    BY DEF MicroBatchesNeeded
  <1> HIDE DEF tokens
  <1>5. n \in Nat
    <2> DEFINE b == (tokens + max) - 1
    <2>1. b \in Nat /\ tokens + max - 1 = b
      BY <1>3
    <2> HIDE DEF b
    <2>2. b \div max \in Nat
      BY <2>1, DivMod
    <2> QED
      BY <2>1, <2>2 DEF CeilDiv
  <1> QED
    BY <1>1, <1>4, <1>5

\* restore_dynamic_batch undoes the order of the micro-batches.
LEMMA RestoreIs ==
    ASSUME NEW N \in Nat, NEW idx, Order(idx, N), NEW f,
           NEW values, values = [i \in 1..N |-> f[idx[i]]]
    PROVE  Restore(values, idx) = [i \in 1..N |-> f[i]]
  <1>1. Len(idx) = N /\ \A i \in 1..N : \E j \in 1..N : idx[j] = i
    BY DEF Order, Held
  <1> DEFINE back == ReverseIdx(idx)
  <1>2. \A i \in 1..N : back[i] \in 1..N /\ idx[back[i]] = i
    <2>1. back = [i \in 1..N |-> CHOOSE j \in 1..N : idx[j] = i]
      BY <1>1 DEF ReverseIdx
    <2> HIDE DEF back
    <2> QED
      BY <1>1, <2>1
  <1>3. Restore(values, idx) = [i \in 1..N |-> values[back[i]]]
    BY <1>1 DEF Restore
  <1> HIDE DEF back
  <1>4. ASSUME NEW i \in 1..N PROVE values[back[i]] = f[i]
    <2> DEFINE j == back[i]
    <2>1. j \in 1..N /\ idx[j] = i
      BY <1>2
    <2> HIDE DEF j
    <2>2. values[j] = f[idx[j]]
      BY <2>1
    <2> QED
      BY <2>1, <2>2 DEF j
  <1> QED
    BY <1>3, <1>4

-----------------------------------------------------------------------------
(* get_group_balanced_partitions.                                          *)

\* The n rows of a group, and the group of a row.
Group(n, g) == [i \in 1..n |-> (g - 1) * n + i]

GroupOf(n, r) == ((r - 1) \div n) + 1

\* t are the rows of group g.
IsGroup(t, n, g, N) ==
    /\ t \in Seq(1..N) /\ Len(t) = n /\ Once(t)
    /\ \A r : r \in Held(t) <=> r \in 1..N /\ GroupOf(n, r) = g

\* A group has n rows, and they are those whose group it is.
LEMMA GroupIs ==
    ASSUME NEW n \in Nat \ {0}, NEW G \in Nat, NEW g \in 1..G
    PROVE  IsGroup(Group(n, g), n, g, G * n)
  <1> DEFINE c == (g - 1) * n
             N == G * n
             t == Group(n, g)
  <1>1. c \in Nat /\ N \in Nat /\ g * n \in Nat /\ g * n = c + n /\ g * n <= N
    BY SliceProduct
  <1>2. t = [i \in 1..n |-> c + i]
    BY DEF Group
  <1> HIDE DEF t
  <1>3. c = n * (g - 1)
    OBVIOUS
  <1> HIDE DEF c, N
  <1>4. t \in [1..n -> 1..N]
    BY <1>1, <1>2
  <1>5. t \in Seq(1..N) /\ Len(t) = n
    BY <1>4, FunctionIsSeq
  <1>6. Once(t)
    <2>1. \A i, j \in 1..n : t[i] = t[j] => i = j
      BY <1>1, <1>2
    <2> QED
      BY <1>5, <2>1 DEF Once
  <1>7. ASSUME NEW r, r \in Held(t)
        PROVE  r \in 1..N /\ GroupOf(n, r) = g
    <2>1. PICK i \in 1..n : r = c + i
      BY <1>2, <1>5, <1>7 DEF Held
    <2>2. r \in 1..N
      BY <1>1, <2>1
    <2> DEFINE q == g - 1
               m == i - 1
    <2>3. q \in Nat /\ m \in 0..(n - 1) /\ r - 1 = n * q + m
      BY <1>1, <1>3, <2>1
    <2> HIDE DEF q, m
    <2>4. (n * q + m) \div n = q
      BY <2>3, DivUnique
    <2>5. GroupOf(n, r) = q + 1
      BY <2>3, <2>4 DEF GroupOf
    <2> QED
      BY <2>2, <2>5 DEF q
  <1>8. ASSUME NEW r \in 1..N, GroupOf(n, r) = g PROVE r \in Held(t)
    <2> DEFINE a == r - 1
               q == a \div n
               m == a % n
    <2>1. a \in Nat
      OBVIOUS
    <2> HIDE DEF a
    <2>2. q \in Nat /\ m \in 0..(n - 1) /\ a = n * q + m
      BY <2>1, DivMod
    <2>3. q + 1 = g
      BY <1>8 DEF GroupOf, a
    <2> HIDE DEF q, m
    <2>4. a = c + m
      <3>1. q = g - 1
        BY <2>2, <2>3
      <3> QED
        BY <1>3, <2>2, <3>1
    <2>5. r = c + (m + 1) /\ m + 1 \in 1..n
      BY <1>1, <2>2, <2>4 DEF a
    <2>6. t[m + 1] = r
      BY <1>2, <2>5
    <2> QED
      BY <1>5, <2>5, <2>6 DEF Held
  <1>9. IsGroup(t, n, g, N)
    BY <1>5, <1>6, <1>7, <1>8 DEF IsGroup
  <1> QED
    BY <1>9 DEF t, N

\* Every row has a group.
LEMMA GroupOfRow ==
    ASSUME NEW n \in Nat \ {0}, NEW G \in Nat, NEW r \in 1..(G * n)
    PROVE  GroupOf(n, r) \in 1..G
  <1> DEFINE a == r - 1
             q == a \div n
             m == a % n
  <1>1. a \in Nat /\ G * n \in Nat /\ G * n = n * G
    OBVIOUS
  <1>2. a < n * G
    BY <1>1
  <1> HIDE DEF a
  <1>3. q \in Nat /\ m \in 0..(n - 1) /\ a = n * q + m
    BY <1>1, DivMod
  <1>4. GroupOf(n, r) = q + 1
    BY DEF GroupOf, a
  <1> HIDE DEF q, m
  <1>5. q < G
    <2> SUFFICES ASSUME ~(q < G) PROVE FALSE
      OBVIOUS
    <2>1. n * G <= n * q
      BY <1>3, MulMono
    <2>2. n * q \in Nat /\ n * G \in Nat
      BY <1>3
    <2> QED
      BY <1>2, <1>3, <2>1, <2>2
  <1> QED
    BY <1>3, <1>4, <1>5

\* The rows of the groups of a part.
RowsOf(n, part) == FlattenSeq([g \in DOMAIN part |-> Group(n, part[g])])

\* The rows are those of the groups, and each comes once.
RowsOfPart(t, part, n, N) ==
    /\ t \in Seq(1..N) /\ Once(t)
    /\ Len(t) = Len(part) * n
    /\ \A r : r \in Held(t) <=> r \in 1..N /\ GroupOf(n, r) \in Held(part)

\* Groups, one behind the other, have their rows, and each once.
LEMMA RowsOfIs ==
    ASSUME NEW n \in Nat \ {0}, NEW G \in Nat, NEW part \in Seq(1..G),
           Once(part)
    PROVE  RowsOfPart(RowsOf(n, part), part, n, G * n)
  <1> DEFINE M == Len(part)
             N == G * n
             R == 1..N
             ss == [g \in DOMAIN part |-> Group(n, part[g])]
             t == FlattenSeq(ss)
  <1>1. M \in Nat /\ DOMAIN part = 1..M /\ \A g \in 1..M : part[g] \in 1..G
    BY LenProperties, ElementOfSeq
  <1>2. t = RowsOf(n, part)
    BY DEF RowsOf
  <1>3. \A g \in 1..M : ss[g] = Group(n, part[g])
    BY <1>1
  <1>4. ASSUME NEW g \in 1..M
        PROVE  /\ ss[g] \in Seq(R) /\ Len(ss[g]) = n /\ Once(ss[g])
               /\ \A r : r \in Held(ss[g])
                            <=> r \in R /\ GroupOf(n, r) = part[g]
    <2> DEFINE b == part[g]
               u == ss[g]
    <2>1. b \in 1..G /\ u = Group(n, b)
      BY <1>1, <1>3
    <2> HIDE DEF b, u
    <2>2. IsGroup(Group(n, b), n, b, N)
      BY <2>1, GroupIs
    <2>3. IsGroup(u, n, b, N)
      BY <2>1, <2>2
    <2> QED
      BY <2>3 DEF IsGroup, u, b
  <1>5. ss \in Seq(Seq(R)) /\ Len(ss) = M
    <2>1. ss = [g \in 1..M |-> ss[g]]
      BY <1>1
    <2> HIDE DEF ss, R
    <2>2. ss \in [1..M -> Seq(R)]
      BY <1>4, <2>1
    <2> QED
      BY <1>1, <2>2, FunctionIsSeq
  <1> HIDE DEF ss, M, R
  <1>6. ASSUME NEW g \in 1..M, NEW h \in 1..M, g # h
        PROVE  Held(ss[g]) \cap Held(ss[h]) = {}
    <2>1. part[g] # part[h]
      BY <1>6 DEF Once, M
    <2> QED
      BY <1>4, <2>1
  <1>7. /\ \A r : r \in Held(t) <=> \E g \in 1..M : r \in Held(ss[g])
        /\ Once(t)
    <2>1. /\ \A g \in 1..Len(ss) : Once(ss[g])
          /\ \A g, h \in 1..Len(ss) :
                g # h => Held(ss[g]) \cap Held(ss[h]) = {}
      BY <1>4, <1>5, <1>6
    <2>2. /\ \A r : r \in Held(FlattenSeq(ss)) <=>
                        \E g \in 1..Len(ss) : r \in Held(ss[g])
          /\ Once(FlattenSeq(ss))
      BY <1>5, <2>1, FlattenHolds
    <2> QED
      BY <1>5, <2>2
  <1>8. t \in Seq(R) /\ Len(t) = Ends(ss, M)
    BY <1>5, EndsAdd
  <1>9. Ends(ss, M) = M * n
    <2>1. n \in Nat /\ \A g \in 1..Len(ss) : Len(ss[g]) = n
      BY <1>4, <1>5
    <2>2. \A m \in 0..Len(ss) : Ends(ss, m) = m * n
      BY <1>5, <2>1, EqualEnds
    <2> QED
      BY <1>1, <1>5, <2>2
  <1> HIDE DEF t
  <1>10. \A r : r \in Held(t) <=> r \in R /\ GroupOf(n, r) \in Held(part)
    <2>1. Held(part) = {part[g] : g \in 1..M}
      BY DEF Held, M
    <2> QED
      BY <1>4, <1>7, <2>1
  <1>11. RowsOfPart(t, part, n, N)
    BY <1>7, <1>8, <1>9, <1>10 DEF RowsOfPart, R, M
  <1> QED
    BY <1>2, <1>11

\* Parts of whole groups.
Grouped(parts, n, k, N) ==
    /\ Parts(parts, k, N)
    /\ Equal(parts, k)
    /\ \A j, l \in 1..k : \A r \in Held(parts[j]), t \in Held(parts[l]) :
            GroupOf(n, r) = GroupOf(n, t) => j = l

\* get_group_balanced_partitions returns equal parts of whole groups.
LEMMA GroupParts ==
    ASSUME NEW values, NEW N \in Nat \ {0}, Len(values) = N,
           Valued(values, 1..N),
           NEW n \in Nat \ {0}, NEW k \in Nat \ {0}, N % (k * n) = 0
    PROVE  Grouped(GroupPartitions(values, n, k), n, k, N)
  <1> DEFINE G == N \div n
             groups == [g \in 1..G |-> Total(values, Group(n, g))]
             parts == BalancedPartitions(groups, k, TRUE)
             q == [j \in 1..k |-> RowsOf(n, parts[j])]
  <1>1. q = GroupPartitions(values, n, k)
    <2>1. N \div n = G
      OBVIOUS
    <2> QED
      BY DEF GroupPartitions, Group, RowsOf
  <1>2. G \in Nat \ {0} /\ G % k = 0 /\ G * n = N
    <2>1. N % n = 0 /\ (N \div n) % k = 0
      <3> DEFINE c == k * n
      <3>1. N \in Nat /\ c = k * n /\ N % c = 0
        OBVIOUS
      <3> HIDE DEF c
      <3>2. Factors(N, k, n)
        BY <3>1, DivFactors
      <3> QED
        BY <3>2 DEF Factors
    <2>2. N \div n \in Nat /\ N = n * (N \div n)
      BY <2>1, DivExact
    <2> HIDE DEF G
    <2>3. G \in Nat /\ N = n * G /\ G % k = 0
      BY <2>1, <2>2 DEF G
    <2>4. n * G = G * n /\ n * 0 = 0
      BY <2>3
    <2> QED
      BY <2>3, <2>4
  <1> HIDE DEF G
  <1>3. Given(groups, G, k, TRUE)
    <2>1. ASSUME NEW g \in 1..G PROVE Total(values, Group(n, g)) \in Int
      <3> DEFINE u == Group(n, g)
                 R == 1..N
      <3>1. IsGroup(u, n, g, G * n)
        BY <1>2, GroupIs
      <3>2. u \in Seq(R) /\ Valued(values, R)
        BY <1>2, <3>1 DEF IsGroup
      <3> HIDE DEF u, R
      <3>3. Total(values, u) \in Int
        BY <3>2, TotalIsSum
      <3> QED
        BY <3>3 DEF u
    <2>2. groups \in [1..G -> Int] /\ \A g \in 1..G : groups[g] \in Int
      BY <2>1
    <2> HIDE DEF groups
    <2>3. Len(groups) = G
      BY <1>2, <2>2, FunctionIsSeq
    <2> QED
      BY <1>2, <2>2, <2>3 DEF Given, Valued
  <1> HIDE DEF groups
  <1>4. Parted(parts, groups, k, G, TRUE)
    BY <1>3, BalancedParts
  <1> HIDE DEF parts
  <1>5. /\ parts \in Seq(Seq(1..G)) /\ Len(parts) = k
        /\ \A j \in 1..k : Once(parts[j])
        /\ \A j, l \in 1..k : j # l => Held(parts[j]) \cap Held(parts[l]) = {}
        /\ \A g \in 1..G : \E j \in 1..k : g \in Held(parts[j])
        /\ Equal(parts, k)
    BY <1>4 DEF Parted, Parts
  <1>6. ASSUME NEW j \in 1..k
        PROVE  /\ q[j] \in Seq(1..N) /\ Once(q[j])
               /\ Len(q[j]) = Len(parts[j]) * n
               /\ \A r : r \in Held(q[j])
                            <=> r \in 1..N /\ GroupOf(n, r) \in Held(parts[j])
    <2> DEFINE a == parts[j]
    <2>1. a \in Seq(1..G) /\ Once(a) /\ q[j] = RowsOf(n, a)
      BY <1>5, ElementOfSeq
    <2> HIDE DEF a, q
    <2>2. RowsOfPart(RowsOf(n, a), a, n, G * n)
      BY <1>2, <2>1, RowsOfIs
    <2>3. RowsOfPart(q[j], a, n, N)
      BY <1>2, <2>1, <2>2
    <2> QED
      BY <2>3 DEF RowsOfPart, a
  <1>7. q \in Seq(Seq(1..N)) /\ Len(q) = k
    <2>1. q = [j \in 1..k |-> q[j]]
      OBVIOUS
    <2> HIDE DEF q
    <2>2. q \in [1..k -> Seq(1..N)]
      BY <1>6, <2>1
    <2>3. k \in Nat
      OBVIOUS
    <2> QED
      BY <2>2, <2>3, FunctionIsSeq
  <1> HIDE DEF q
  <1>8. ASSUME NEW j \in 1..k, NEW l \in 1..k, NEW r \in Held(q[j]),
               NEW t \in Held(q[l]), GroupOf(n, r) = GroupOf(n, t)
        PROVE  j = l
    <2>1. /\ GroupOf(n, r) \in Held(parts[j])
          /\ GroupOf(n, t) \in Held(parts[l])
      BY <1>6
    <2> QED
      BY <1>5, <1>8, <2>1
  <1>9. ASSUME NEW r \in 1..N PROVE \E j \in 1..k : r \in Held(q[j])
    <2>1. GroupOf(n, r) \in 1..G
      BY <1>2, GroupOfRow
    <2>2. PICK j \in 1..k : GroupOf(n, r) \in Held(parts[j])
      BY <1>5, <2>1
    <2> QED
      BY <1>6, <2>2
  <1>10. Parts(q, k, N)
    <2>1. \A j, l \in 1..k : j # l => Held(q[j]) \cap Held(q[l]) = {}
      BY <1>8
    <2> QED
      BY <1>6, <1>7, <1>9, <2>1 DEF Parts
  <1>11. Equal(q, k)
    <2>1. ASSUME NEW j \in 1..k, NEW l \in 1..k
          PROVE  Len(q[j]) = Len(q[l])
      <3>1. Len(parts[j]) = Len(parts[l])
        BY <1>5 DEF Equal
      <3>2. Len(q[j]) = Len(parts[j]) * n /\ Len(q[l]) = Len(parts[l]) * n
        BY <1>6
      <3> QED
        BY <3>1, <3>2
    <2> QED
      BY <2>1 DEF Equal
  <1>12. Grouped(q, n, k, N)
    BY <1>8, <1>10, <1>11 DEF Grouped
  <1> QED
    BY <1>1, <1>12

-----------------------------------------------------------------------------
(* The invariant.                                                          *)

\* What is assumed of the constants.
LEMMA Sizes ==
    /\ DpSize \in Nat \ {0} /\ Replicas \in Nat \ {0}
    /\ AgentWorkers \in Nat \ {0}
    /\ GroupSize \in Nat \ {0} /\ MaxSeqlen \in Nat \ {0}
    /\ MaxTokenLen \in Nat \ {0}
    /\ BatchSizes \subseteq Nat \ {0} /\ ValSizes \subseteq Nat \ {0}
    /\ \A n \in BatchSizes : n % (DpSize * GroupSize) = 0
    /\ Width \in Nat \ {0} /\ Copies \in Nat \ {0}
    /\ mode = "validate" => Width = AgentWorkers /\ Copies = 1
    /\ mode # "validate" => Width = DpSize /\ Copies = Replicas
  <1>1. 1 \in Nat \ {0}
    OBVIOUS
  <1> QED
    BY <1>1, BatchAssumption DEF Width, Copies

\* A row of a batch, and where a worker can be.
Row == [sample : Nat, len : 1..MaxSeqlen]

Stages == {"idle", "generate", "count", "reduce", "split", "forward",
           "restore", "returned"}

\* Every variable has its type; padding adds rows to a batch that is
\* validated, and only to such.
Types ==
    /\ mode \in Modes
    /\ layout \in {"dp_outer", "dp_inner"}
    /\ phase \in {"prepare", "dispatch", "wait", "done"}
    /\ batch \in Seq(Row)
    /\ size \in Nat \ {0} /\ size <= Len(batch)
    /\ mode # "validate" => size = Len(batch)
    /\ chunk \in [Workers -> Seq(Row)]
    /\ stage \in [Workers -> Stages]
    /\ count \in [Workers -> Nat]
    /\ order \in [Workers -> Seq(Seq(Nat))]
    /\ computed \in [Workers -> Seq(Nat)]

\* A batch that nothing was done with.
Unprepared ==
    phase = "prepare" =>
        /\ size = Len(batch)
        /\ mode # "validate" => size \in BatchSizes
        /\ \A i \in 1..Len(batch) : batch[i].sample = i

\* A worker that has got no rows yet.
Idle(w) == stage[w] = "idle" /\ chunk[w] = <<>>

\* Where the rows of the batch are.
Dispatched ==
    /\ phase \in {"prepare", "dispatch"} => \A w \in Workers : Idle(w)
    /\ phase = "wait" \/ (phase = "done" /\ mode # "validate") =>
            /\ Len(batch) % Width = 0
            /\ \A w \in Workers : chunk[w] = ChunkOf(DpRank(w))
    /\ \A w \in Workers : stage[w] # "idle" => chunk[w] # <<>>

\* What is computed for rows in the order idx.
Picked(rows, idx) == [i \in 1..Len(idx) |-> rows[idx[i]].sample]

\* What a worker has computed, by the place where it is.
Progress(w) ==
    /\ stage[w] = "generate" => mode = "validate"
    /\ stage[w] \in {"count", "reduce", "split", "forward", "restore"}
            => mode # "validate"
    /\ mode = "validate" => order[w] = <<>>
    /\ stage[w] \in {"idle", "count", "reduce", "split"} => computed[w] = <<>>
    /\ stage[w] \in {"forward", "restore"} =>
            /\ Parts(order[w], count[w], Len(chunk[w]))
            /\ \A j \in 1..Len(order[w]) : order[w][j] # <<>>
    /\ stage[w] = "forward" =>
            \E b \in 0..Len(order[w]) :
                computed[w]
                    = Picked(chunk[w], FlattenSeq(SubSeq(order[w], 1, b)))
    /\ stage[w] = "restore" =>
            computed[w] = Picked(chunk[w], FlattenSeq(order[w]))
    /\ stage[w] = "returned" => computed[w] = Samples(chunk[w])
    /\ stage[w] \in {"forward", "restore", "returned"} /\ mode # "validate"
            => Len(order[w]) = count[w]

\* From the reduction on the workers have one number of micro-batches.
Agreed ==
    \A v, w \in Workers :
        mode # "validate"
        /\ {stage[v], stage[w]}
                \subseteq {"split", "forward", "restore", "returned"}
            => count[v] = count[w]

\* The work of rows.
RowsWork(rows) ==
    Total([i \in DOMAIN rows |-> Workload(rows[i].len)], UpTo(Len(rows)))

\* The data-parallel ranks.
Ranks == 0..(Width - 1)

\* The parts of a balanced batch are level, and no group is in two parts.
BalancedBatch ==
    mode = "balanced" /\ phase # "prepare" =>
        \E i, j \in 1..Len(batch) : \A a, b \in Ranks :
            RowsWork(ChunkOf(a)) - RowsWork(ChunkOf(b))
                <= Workload(batch[i].len) - Workload(batch[j].len)

GroupedBatch ==
    mode = "grouped" /\ phase # "prepare" =>
        \A a, b \in Ranks :
            \A i \in DOMAIN ChunkOf(a), j \in DOMAIN ChunkOf(b) :
                Uid(ChunkOf(a)[i]) = Uid(ChunkOf(b)[j]) => a = b

\* The inductive invariant.
IInv ==
    /\ Types /\ Unprepared /\ Dispatched
    /\ \A w \in Workers : Progress(w)
    /\ Agreed /\ BalancedBatch /\ GroupedBatch /\ ResultsMatch

-----------------------------------------------------------------------------
(* Workers and ranks.                                                      *)

\* What is done with a batch decides who works on it.
SameWorkers ==
    Width' = Width /\ Copies' = Copies /\ Workers' = Workers /\ Ranks' = Ranks

\* As long as that stays, they stay.
LEMMA ShapeStays ==
    ASSUME mode' = mode
    PROVE  SameWorkers
  <1>1. Width' = Width /\ Copies' = Copies
    BY DEF Width, Copies
  <1> QED
    BY <1>1 DEF SameWorkers, Workers, Ranks


\* How many of the first i workers give their results.
Collectors(i) ==
    IF layout = "dp_outer" THEN (i + (Copies - 1)) \div Copies
    ELSE IF i <= (Copies - 1) * Width THEN 0
         ELSE i - (Copies - 1) * Width

\* One worker of each rank gives its results, in the order of the ranks.
Collects(w) ==
    /\ DpRank(w) \in Ranks
    /\ IsCollect(w) => /\ Collectors(w) = DpRank(w)
                       /\ Collectors(w + 1) = DpRank(w) + 1
    /\ ~IsCollect(w) => Collectors(w + 1) = Collectors(w)
    /\ Collectors(w) \in Nat

\* Workers are numbered from 0.
LEMMA WorkerFacts ==
    ASSUME NEW w \in Workers
    PROVE  w \in Nat /\ w < Width * Copies
  <1>1. Width * Copies \in Nat
    BY Sizes
  <1> QED
    BY <1>1 DEF Workers

\* With the data-parallel dimension first, the first worker of each rank
\* gives its results (FSDP).
LEMMA OuterCollects ==
    ASSUME layout = "dp_outer", NEW w \in Workers
    PROVE  Collects(w)
  <1> DEFINE R == Copies
             D == Width
             q == w \div R
             m == w % R
  <1>1. R \in Nat \ {0} /\ D \in Nat \ {0} /\ w \in Nat /\ w < D * R
    BY Sizes, WorkerFacts
  <1>2. /\ DpRank(w) = q /\ (IsCollect(w) <=> m = 0)
        /\ Collectors(w) = (w + (R - 1)) \div R
        /\ Collectors(w + 1) = ((w + 1) + (R - 1)) \div R
    BY DEF DpRank, IsCollect, Collectors
  <1> HIDE DEF R, D
  <1>3. q \in Nat /\ m \in 0..(R - 1) /\ w = R * q + m
    BY <1>1, DivMod
  <1> HIDE DEF q, m
  <1>4. q \in 0..(D - 1)
    <2> SUFFICES ASSUME ~(q < D) PROVE FALSE
      BY <1>1, <1>3
    <2>1. R * D <= R * q
      BY <1>1, <1>3, MulMono
    <2>2. R * D = D * R /\ R * q \in Nat /\ D * R \in Nat
      BY <1>1, <1>3
    <2> QED
      BY <1>1, <1>3, <2>1, <2>2
  <1>5. R * (q + 1) = R * q + R /\ R * q \in Nat
    BY <1>1, <1>3
  <1>6. Collectors(w + 1) = q + 1
    <2>1. (w + 1) + (R - 1) = R * (q + 1) + m
      BY <1>1, <1>3, <1>5
    <2>2. (R * (q + 1) + m) \div R = q + 1
      <3>1. q + 1 \in Nat
        BY <1>3
      <3> QED
        BY <1>1, <1>3, <3>1, DivUnique
    <2> QED
      BY <1>2, <2>1, <2>2
  <1>7. m = 0 => Collectors(w) = q
    <2> SUFFICES ASSUME m = 0 PROVE Collectors(w) = q
      OBVIOUS
    <2>1. w + (R - 1) = R * q + (R - 1) /\ R - 1 \in 0..(R - 1)
      BY <1>1, <1>3, <1>5
    <2>2. (R * q + (R - 1)) \div R = q
      BY <1>1, <1>3, <2>1, DivUnique
    <2> QED
      BY <1>2, <2>1, <2>2
  <1>8. m # 0 => Collectors(w) = q + 1
    <2> SUFFICES ASSUME m # 0 PROVE Collectors(w) = q + 1
      OBVIOUS
    <2>1. w + (R - 1) = R * (q + 1) + (m - 1) /\ m - 1 \in 0..(R - 1)
      BY <1>1, <1>3, <1>5
    <2>2. (R * (q + 1) + (m - 1)) \div R = q + 1
      <3>1. q + 1 \in Nat
        BY <1>3
      <3> QED
        BY <1>1, <2>1, <3>1, DivUnique
    <2> QED
      BY <1>2, <2>1, <2>2
  <1> QED
    BY <1>2, <1>3, <1>4, <1>6, <1>7, <1>8 DEF Collects, Ranks, D

\* With the data-parallel dimension within, the workers of the last stage
\* give theirs (Megatron).
LEMMA InnerCollects ==
    ASSUME layout = "dp_inner", NEW w \in Workers
    PROVE  Collects(w)
  <1> DEFINE R == Copies
             D == Width
             c == (R - 1) * D
             q == w \div D
             m == w % D
  <1>1. R \in Nat \ {0} /\ D \in Nat \ {0} /\ w \in Nat /\ w < D * R
    BY Sizes, WorkerFacts
  <1>2. /\ DpRank(w) = m /\ (IsCollect(w) <=> q = R - 1)
        /\ \A i : Collectors(i) = IF i <= c THEN 0 ELSE i - c
    BY DEF DpRank, IsCollect, Collectors
  <1> HIDE DEF R, D
  <1>3. q \in Nat /\ m \in 0..(D - 1) /\ w = D * q + m
    BY <1>1, DivMod
  <1> HIDE DEF q, m
  <1>4. R - 1 \in Nat /\ c \in Nat /\ c = D * (R - 1) /\ D * R = c + D
    BY <1>1
  <1> HIDE DEF c
  <1>5. q = R - 1 => w = c + m
    BY <1>3, <1>4
  <1>6. q # R - 1 => w + 1 <= c
    <2> SUFFICES ASSUME q # R - 1 PROVE w + 1 <= c
      OBVIOUS
    <2>1. D * q \in Nat /\ D * (q + 1) = D * q + D
      BY <1>1, <1>3
    <2>2. q < R
      <3> SUFFICES ASSUME ~(q < R) PROVE FALSE
        OBVIOUS
      <3>1. D * R <= D * q
        BY <1>1, <1>3, MulMono
      <3>2. D * R \in Nat
        BY <1>1, <1>4
      <3> QED
        BY <1>1, <1>3, <2>1, <3>1, <3>2
    <2>3. q + 1 <= R - 1 /\ q + 1 \in Nat
      BY <1>1, <1>3, <2>2
    <2>4. D * (q + 1) <= D * (R - 1)
      BY <1>1, <1>4, <2>3, MulMono
    <2> QED
      BY <1>1, <1>3, <1>4, <2>1, <2>4
  <1>7. q = R - 1 => Collectors(w) = m /\ Collectors(w + 1) = m + 1
    <2>1. q = R - 1 => (w <= c => m = 0) /\ (w - c = m)
                        /\ ~(w + 1 <= c) /\ (w + 1) - c = m + 1
      BY <1>1, <1>3, <1>4, <1>5
    <2> QED
      BY <1>2, <2>1
  <1>8. q # R - 1 => Collectors(w) = 0 /\ Collectors(w + 1) = 0
    <2>1. q # R - 1 => w <= c /\ w + 1 <= c
      BY <1>1, <1>4, <1>6
    <2> QED
      BY <1>2, <2>1
  <1> QED
    BY <1>2, <1>3, <1>7, <1>8 DEF Collects, Ranks, D

\* Every rank's results are collected, each once.
LEMMA AllCollect ==
    ASSUME layout \in {"dp_outer", "dp_inner"}
    PROVE  /\ \A w \in Workers : Collects(w)
           /\ Collectors(0) = 0
           /\ Collectors(Width * Copies) = Width
  <1> DEFINE R == Copies
             D == Width
  <1>1. R \in Nat \ {0} /\ D \in Nat \ {0}
    BY Sizes
  <1>2. \A w \in Workers : Collects(w)
    BY OuterCollects, InnerCollects
  <1>3. CASE layout = "dp_outer"
    <2>1. /\ Collectors(0) = (0 + (R - 1)) \div R
          /\ Collectors(D * R) = (D * R + (R - 1)) \div R
      BY <1>3 DEF Collectors
    <2> HIDE DEF R, D
    <2>2. /\ 0 + (R - 1) = R * 0 + (R - 1) /\ R - 1 \in 0..(R - 1)
          /\ D * R = R * D /\ D \in Nat /\ 0 \in Nat
      BY <1>1
    <2>3. (R * 0 + (R - 1)) \div R = 0
      BY <1>1, <2>2, DivUnique
    <2>4. (R * D + (R - 1)) \div R = D
      BY <1>1, <2>2, DivUnique
    <2>5. Collectors(0) = 0 /\ Collectors(D * R) = D
      BY <2>1, <2>2, <2>3, <2>4
    <2> QED
      BY <1>2, <2>5 DEF R, D
  <1>4. CASE layout = "dp_inner"
    <2> DEFINE c == (R - 1) * D
    <2>1. \A i : Collectors(i) = IF i <= c THEN 0 ELSE i - c
      BY <1>4 DEF Collectors
    <2> HIDE DEF R, D
    <2>2. c \in Nat /\ D * R = c + D
      BY <1>1
    <2> HIDE DEF c
    <2>3. 0 <= c /\ ~(D * R <= c) /\ D * R - c = D
      BY <1>1, <2>2
    <2>4. Collectors(0) = 0 /\ Collectors(D * R) = D
      BY <2>1, <2>3
    <2> QED
      BY <1>2, <2>4 DEF R, D
  <1> QED
    BY <1>3, <1>4

\* Groups stay together as long as the chunks stay.
LEMMA GroupsStay ==
    ASSUME mode' = mode, mode = "grouped" /\ phase' # "prepare" =>
                \A a, b \in Ranks :
                    \A i \in DOMAIN ChunkOf(a)', j \in DOMAIN ChunkOf(b)' :
                        Uid(ChunkOf(a)'[i]) = Uid(ChunkOf(b)'[j]) => a = b
    PROVE  GroupedBatch'
  <1>1. Ranks' = Ranks
    BY ShapeStays DEF SameWorkers
  <1> SUFFICES ASSUME mode' = "grouped", phase' # "prepare",
                      NEW a \in Ranks', NEW b \in Ranks',
                      NEW i \in DOMAIN ChunkOf(a)', NEW j \in DOMAIN ChunkOf(b)',
                      Uid(ChunkOf(a)'[i]) = Uid(ChunkOf(b)'[j])
               PROVE  a = b
    BY DEF GroupedBatch, Uid
  <1>2. a \in Ranks /\ b \in Ranks
    BY <1>1
  <1> QED
    BY <1>2

-----------------------------------------------------------------------------
(* Rows and chunks.                                                        *)

\* A row has a sample, a length and some work.
LEMMA RowFacts ==
    ASSUME NEW r \in Row
    PROVE  /\ r.sample \in Nat /\ r.len \in 1..MaxSeqlen
           /\ r.len \in Nat \ {0} /\ Workload(r.len) \in Nat
  <1>1. r.sample \in Nat /\ r.len \in 1..MaxSeqlen
    BY DEF Row
  <1>2. r.len \in Nat \ {0}
    BY <1>1, Sizes
  <1>3. Workload(r.len) \in Nat
    BY <1>2 DEF Workload
  <1> QED
    BY <1>1, <1>2, <1>3

\* Samples takes the samples of the rows.
LEMMA SamplesAre ==
    ASSUME NEW rows \in Seq(Row)
    PROVE  /\ Samples(rows) \in Seq(Nat) /\ Len(Samples(rows)) = Len(rows)
           /\ \A i \in 1..Len(rows) : Samples(rows)[i] = rows[i].sample
  <1> DEFINE N == Len(rows)
             s == Samples(rows)
  <1>1. N \in Nat /\ DOMAIN rows = 1..N /\ \A i \in 1..N : rows[i] \in Row
    BY LenProperties, ElementOfSeq
  <1>2. s = [i \in 1..N |-> rows[i].sample]
    BY <1>1 DEF Samples
  <1> HIDE DEF s, N
  <1>3. s \in [1..N -> Nat]
    BY <1>1, <1>2, RowFacts
  <1>4. s \in Seq(Nat) /\ Len(s) = N
    BY <1>1, <1>3, FunctionIsSeq
  <1> QED
    BY <1>2, <1>4 DEF s, N

\* The rows that DataProto.chunk gives a rank.
ChunkAt(rows, a) == Slice(rows, Len(rows) \div Width, a + 1)

\* A worker's chunk is that of its rank.
LEMMA ChunkOfIs ==
    ASSUME NEW a \in Ranks
    PROVE  ChunkOf(a) = ChunkAt(batch, a)
  <1>1. (a + 1) - 1 = a
    BY Sizes DEF Ranks
  <1> QED
    BY <1>1 DEF ChunkOf, ChunkAt, Slice

\* A batch that is not empty and that divides among the ranks.
Divisible(rows) == rows \in Seq(Row) /\ rows # <<>> /\ Len(rows) % Width = 0

\* All chunks have as many rows.
LEMMA ChunkSize ==
    ASSUME NEW rows, Divisible(rows), NEW n, n = Len(rows) \div Width
    PROVE  n \in Nat \ {0} /\ Len(rows) = Width * n
  <1> DEFINE N == Len(rows)
  <1>1. N \in Nat \ {0} /\ N % Width = 0
    BY LenProperties, EmptySeq DEF Divisible
  <1> HIDE DEF N
  <1>2. n \in Nat /\ N = Width * n
    BY <1>1, Sizes, DivExact DEF N
  <1>3. Width * 0 = 0
    BY Sizes
  <1> QED
    BY <1>1, <1>2, <1>3 DEF N

\* The chunk of a rank has the rows behind those of the ranks before it.
LEMMA ChunkIs ==
    ASSUME NEW rows, Divisible(rows), NEW n, n = Len(rows) \div Width,
           NEW a \in Ranks
    PROVE  Cut(ChunkAt(rows, a), rows, Row, n, a * n)
  <1>1. n \in Nat \ {0} /\ Len(rows) = Width * n /\ rows \in Seq(Row)
    BY ChunkSize DEF Divisible
  <1> DEFINE j == a + 1
  <1>2. j \in 1..Width /\ j - 1 = a /\ Width \in Nat
    BY Sizes DEF Ranks
  <1>3. ChunkAt(rows, a) = Slice(rows, n, j)
    BY DEF ChunkAt
  <1> HIDE DEF j
  <1>4. Cut(Slice(rows, n, j), rows, Row, n, (j - 1) * n)
    BY <1>1, <1>2, SliceIs
  <1> QED
    BY <1>2, <1>3, <1>4

\* The samples of what is cut out are cut out of the samples.
LEMMA SamplesCut ==
    ASSUME NEW rows \in Seq(Row), NEW n \in Nat, NEW c \in Nat,
           NEW t, Cut(t, rows, Row, n, c)
    PROVE  Cut(Samples(t), Samples(rows), Nat, n, c)
  <1>1. /\ t \in Seq(Row) /\ Len(t) = n
        /\ \A i \in 1..n : c + i \in 1..Len(rows) /\ t[i] = rows[c + i]
    BY DEF Cut
  <1>2. /\ Samples(t) \in Seq(Nat) /\ Len(Samples(t)) = n
        /\ \A i \in 1..n : Samples(t)[i] = t[i].sample
    BY <1>1, SamplesAre
  <1>3. /\ Len(Samples(rows)) = Len(rows)
        /\ \A i \in 1..Len(rows) : Samples(rows)[i] = rows[i].sample
    BY SamplesAre
  <1>4. ASSUME NEW i \in 1..n
        PROVE  /\ c + i \in 1..Len(Samples(rows))
               /\ Samples(t)[i] = Samples(rows)[c + i]
    BY <1>1, <1>2, <1>3
  <1> QED
    BY <1>2, <1>4 DEF Cut

\* The results of the workers that give theirs are those of the batch.
LEMMA CollectedIs ==
    ASSUME layout \in {"dp_outer", "dp_inner"}, Divisible(batch),
           \A w \in Workers : computed[w] = Samples(ChunkAt(batch, DpRank(w)))
    PROVE  Collected = Samples(batch)
  <1> DEFINE W == Width * Copies
             n == Len(batch) \div Width
             s == Samples(batch)
             cs == [i \in 1..W |-> IF IsCollect(i - 1) THEN computed[i - 1]
                                   ELSE <<>>]
             C(i) == Collectors(i)
  <1>1. /\ W \in Nat /\ Width \in Nat \ {0}
        /\ \A i \in 1..W : i - 1 \in Workers /\ (i - 1) + 1 = i
    BY Sizes DEF Workers
  <1>2. /\ \A w \in Workers : Collects(w)
        /\ C(0) = 0 /\ C(W) = Width
    BY AllCollect
  <1>3. n \in Nat \ {0} /\ Len(batch) = Width * n /\ batch \in Seq(Row)
    BY ChunkSize DEF Divisible
  <1>4. s \in Seq(Nat) /\ Len(s) = Width * n
    BY <1>3, SamplesAre
  <1>5. ASSUME NEW a \in Ranks
        PROVE  /\ Cut(Samples(ChunkAt(batch, a)), s, Nat, n, a * n)
               /\ a * n \in Nat /\ (a + 1) * n = a * n + n
               /\ a * n + n <= Width * n
    <2>1. Cut(ChunkAt(batch, a), batch, Row, n, a * n)
      BY ChunkIs
    <2>2. a \in Nat /\ a + 1 \in 1..Width /\ (a + 1) - 1 = a /\ Width \in Nat
      BY <1>1 DEF Ranks
    <2> DEFINE j == a + 1
    <2> HIDE DEF n, j
    <2>3. j \in 1..Width /\ j - 1 = a
      BY <2>2 DEF j
    <2>4. /\ (j - 1) * n \in Nat /\ j * n \in Nat
          /\ j * n = (j - 1) * n + n
          /\ j * n <= Width * n
      BY <1>3, <2>2, <2>3, SliceProduct
    <2>5. a * n \in Nat /\ j * n = a * n + n /\ a * n + n <= Width * n
      BY <2>3, <2>4
    <2>6. Cut(Samples(ChunkAt(batch, a)), s, Nat, n, a * n)
      BY <1>3, <2>1, <2>5, SamplesCut
    <2> QED
      BY <2>5, <2>6 DEF j
  <1> HIDE DEF W, n, s, C
  <1>6. \A i \in 1..W :
            cs[i] = IF IsCollect(i - 1) THEN computed[i - 1] ELSE <<>>
    OBVIOUS
  <1>7. \A i \in 1..W : cs[i] \in Seq(Nat)
    <2> SUFFICES ASSUME NEW i \in 1..W PROVE cs[i] \in Seq(Nat)
      OBVIOUS
    <2> DEFINE w == i - 1
    <2>1. w \in Workers
      BY <1>1
    <2> HIDE DEF w
    <2>2. DpRank(w) \in Ranks
      BY <1>2, <2>1 DEF Collects
    <2>3. computed[w] \in Seq(Nat)
      BY <1>5, <2>1, <2>2 DEF Cut
    <2>4. <<>> \in Seq(Nat)
      BY EmptySeq
    <2> QED
      BY <1>6, <2>3, <2>4 DEF w
  <1>8. cs \in Seq(Seq(Nat)) /\ Len(cs) = W
    <2>1. cs = [i \in 1..W |-> cs[i]]
      OBVIOUS
    <2> HIDE DEF cs
    <2>2. cs \in [1..W -> Seq(Nat)]
      BY <1>7, <2>1
    <2> QED
      BY <1>1, <2>2, FunctionIsSeq
  <1>9. Collected = FlattenSeq(cs)
    BY DEF Collected, W
  <1> HIDE DEF cs
  <1> DEFINE f(i) == FlattenSeq(SubSeq(cs, 1, i))
             Good == {i \in Nat : i <= W => f(i) = SubSeq(s, 1, C(i) * n)}
  <1>10. /\ f(0) = <<>>
         /\ \A i \in 1..W : f(i) = f(i - 1) \o cs[i]
         /\ \A i \in 0..W : f(i) \in Seq(Nat)
    BY <1>8, FlattenPrefixes
  <1> HIDE DEF f
  <1>11. 0 \in Good
    <2>1. C(0) * n = 0
      BY <1>2, <1>3
    <2>2. SubSeq(s, 1, 0) = <<>>
      BY SubSeqEmpty
    <2> QED
      BY <1>10, <2>1, <2>2
  <1>12. ASSUME NEW i \in Good PROVE i + 1 \in Good
    <2>1. CASE i + 1 <= W
      <3> DEFINE h == i + 1
      <3>1. h \in 1..W /\ h - 1 = i /\ i <= W /\ i \in Workers /\ i \in 0..W
        BY <1>1, <2>1
      <3>2. f(i) = SubSeq(s, 1, C(i) * n) /\ f(h) = f(i) \o cs[h]
            /\ f(i) \in Seq(Nat)
        BY <1>10, <3>1
      <3>3. cs[h] = IF IsCollect(i) THEN computed[i] ELSE <<>>
        BY <1>6, <3>1
      <3>4. Collects(i)
        BY <1>2, <3>1
      <3>5. CASE IsCollect(i)
        <4> DEFINE a == DpRank(i)
        <4>1. a \in Ranks /\ C(i) = a /\ C(h) = a + 1
          BY <3>4, <3>5 DEF Collects, C
        <4>2. cs[h] = Samples(ChunkAt(batch, a))
          BY <3>1, <3>3, <3>5
        <4> HIDE DEF a, h
        <4>3. /\ Cut(cs[h], s, Nat, n, a * n)
              /\ a * n \in Nat /\ (a + 1) * n = a * n + n
              /\ a * n + n <= Len(s)
          BY <1>4, <1>5, <4>1, <4>2
        <4>4. SubSeq(s, 1, a * n) \o cs[h] = SubSeq(s, 1, a * n + n)
          <5> DEFINE c == a * n
                     t == cs[h]
          <5>1. /\ c \in Nat /\ n \in Nat /\ c + n <= Len(s)
                /\ Cut(t, s, Nat, n, c)
            BY <1>3, <4>3
          <5> HIDE DEF c, t
          <5>2. SubSeq(s, 1, c) \o t = SubSeq(s, 1, c + n)
            BY <1>4, <5>1, PrefixJoins
          <5> QED
            BY <5>2 DEF c, t
        <4>5. f(h) = SubSeq(s, 1, C(h) * n)
          BY <3>2, <4>1, <4>3, <4>4
        <4> QED
          BY <3>1, <4>5 DEF h
      <3>6. CASE ~IsCollect(i)
        <4>1. C(h) = C(i)
          BY <3>4, <3>6 DEF Collects, C
        <4>2. f(i) \o <<>> = f(i)
          BY <3>2, ConcatEmptySeq
        <4> HIDE DEF h
        <4>3. f(h) = SubSeq(s, 1, C(h) * n)
          BY <3>2, <3>3, <3>6, <4>1, <4>2
        <4> QED
          BY <3>1, <4>3 DEF h
      <3> QED
        BY <3>5, <3>6
    <2>2. CASE ~(i + 1 <= W)
      BY <2>2
    <2> QED
      BY <2>1, <2>2
  <1>13. Good = Nat
    <2> HIDE DEF Good
    <2>1. Good \in SUBSET Nat
      BY DEF Good
    <2> QED
      BY <1>11, <1>12, <2>1, Induction
  <1>14. f(W) = SubSeq(s, 1, C(W) * n)
    <2>1. W \in Good
      BY <1>1, <1>13
    <2> QED
      BY <1>1, <2>1
  <1>15. f(W) = FlattenSeq(cs)
    BY <1>8, SubSeqFull DEF f
  <1>16. SubSeq(s, 1, C(W) * n) = s
    <2>1. C(W) * n = Len(s)
      BY <1>2, <1>4
    <2> QED
      BY <1>4, <2>1, SubSeqFull
  <1> QED
    BY <1>9, <1>14, <1>15, <1>16 DEF s

-----------------------------------------------------------------------------
(* What _balance_batch does to the chunks.                                 *)

\* The rows of the parts, one part behind the other: a chunk is a part.
Moved(new, rows, parts) ==
    /\ Divisible(new) /\ Len(new) = Len(rows)
    /\ \A a \in Ranks :
        /\ ChunkAt(new, a) \in Seq(Row)
        /\ Len(ChunkAt(new, a)) = Len(parts[a + 1])
        /\ \A i \in 1..Len(parts[a + 1]) :
            /\ parts[a + 1][i] \in 1..Len(rows)
            /\ ChunkAt(new, a)[i] = rows[parts[a + 1][i]]
    /\ \A r \in 1..Len(rows) : \E i \in 1..Len(new) : new[i] = rows[r]

\* _balance_batch moves the rows so that the chunk of a rank is a part.
LEMMA PartsMove ==
    ASSUME NEW rows \in Seq(Row), rows # <<>>,
           NEW parts, Parts(parts, Width, Len(rows)), Equal(parts, Width),
           NEW idx, idx = FlattenSeq(parts),
           NEW new, new = [i \in 1..Len(idx) |-> rows[idx[i]]]
    PROVE  Moved(new, rows, parts)
  <1> DEFINE N == Len(rows)
             n == N \div Width
  <1>1. /\ N \in Nat \ {0} /\ N \in Nat /\ \A i \in 1..N : rows[i] \in Row
    BY LenProperties, EmptySeq, ElementOfSeq
  <1>2. Width \in Nat \ {0} /\ Width \in Nat
    BY Sizes
  <1>3. Parts(parts, Width, N) /\ Equal(parts, Width)
    OBVIOUS
  <1> HIDE DEF N
  <1>4. /\ n \in Nat /\ Width * n = N
        /\ Regular(parts, idx, Width, n)
    BY <1>1, <1>2, <1>3, PartsRegular
  <1>5. idx \in Seq(1..N) /\ Len(idx) = N /\ Held(idx) = 1..N
    BY <1>1, <1>3, PartsOrder DEF Order
  <1>6. \A i \in 1..N : idx[i] \in 1..N
    BY <1>5, ElementOfSeq
  <1>7. new = [i \in 1..N |-> rows[idx[i]]]
    BY <1>5
  <1>8. new \in Seq(Row) /\ Len(new) = N
    <2>1. new \in [1..N -> Row]
      BY <1>1, <1>6, <1>7
    <2> QED
      BY <1>1, <2>1, FunctionIsSeq
  <1>9. Len(new) % Width = 0
    <2> HIDE DEF n
    <2>1. (Width * n) % Width = 0
      BY <1>2, <1>4, Multiple
    <2> QED
      BY <1>4, <1>8, <2>1
  <1>10. Divisible(new)
    <2>1. new # <<>>
      BY <1>1, <1>8, EmptySeq
    <2> QED
      BY <1>8, <1>9, <2>1 DEF Divisible
  <1>11. ASSUME NEW r \in 1..N PROVE \E i \in 1..Len(new) : new[i] = rows[r]
    <2>1. PICK i \in 1..N : idx[i] = r
      BY <1>5 DEF Held
    <2> QED
      BY <1>7, <1>8, <2>1
  <1>12. ASSUME NEW a \in Ranks
         PROVE  /\ ChunkAt(new, a) \in Seq(Row)
                /\ Len(ChunkAt(new, a)) = Len(parts[a + 1])
                /\ \A i \in 1..Len(parts[a + 1]) :
                        /\ parts[a + 1][i] \in 1..N
                        /\ ChunkAt(new, a)[i] = rows[parts[a + 1][i]]
    <2> DEFINE t == ChunkAt(new, a)
               j == a + 1
               c == a * n
    <2>1. j \in 1..Width /\ j - 1 = a
      BY <1>2 DEF Ranks
    <2>2. Cut(t, new, Row, n, c)
      <3>1. n = Len(new) \div Width
        BY <1>8
      <3> HIDE DEF n
      <3> QED
        BY <1>10, <3>1, ChunkIs
    <2>3. /\ Len(parts[j]) = n
          /\ \A i \in 1..n : c + i \in 1..N /\ idx[c + i] = parts[j][i]
      <3> HIDE DEF j, n
      <3>1. /\ Len(parts[j]) = n
            /\ \A i \in 1..n : /\ (j - 1) * n + i \in 1..Len(idx)
                               /\ idx[(j - 1) * n + i] = parts[j][i]
        BY <1>4, <2>1 DEF Regular
      <3> QED
        BY <1>5, <2>1, <3>1
    <2> HIDE DEF t, j, c, n
    <2>4. /\ t \in Seq(Row) /\ Len(t) = n
          /\ \A i \in 1..n : t[i] = new[c + i]
      BY <2>2 DEF Cut
    <2>5. ASSUME NEW i \in 1..n
          PROVE  parts[j][i] \in 1..N /\ t[i] = rows[parts[j][i]]
      <3> DEFINE h == c + i
      <3>1. h \in 1..N /\ idx[h] = parts[j][i] /\ t[i] = new[h]
        BY <2>3, <2>4
      <3> HIDE DEF h
      <3> QED
        BY <1>6, <1>7, <3>1
    <2>6. /\ t \in Seq(Row) /\ Len(t) = Len(parts[j])
          /\ \A i \in 1..Len(parts[j]) :
                parts[j][i] \in 1..N /\ t[i] = rows[parts[j][i]]
      BY <2>3, <2>4, <2>5
    <2> QED
      BY <2>6 DEF t, j
  <1> QED
    BY <1>8, <1>10, <1>11, <1>12 DEF Moved, N

\* Rows with the same values, one by one.
SameValues(values, rows, others, more) ==
    /\ Len(more) = Len(rows)
    /\ \A i \in 1..Len(rows) : values[rows[i]] = others[more[i]]

\* They have the same total.
LEMMA SameTotal ==
    ASSUME NEW R, NEW values, Valued(values, R), NEW rows \in Seq(R),
           NEW T, NEW others, Valued(others, T), NEW more \in Seq(T),
           SameValues(values, rows, others, more)
    PROVE  Total(values, rows) = Total(others, more)
  <1>1. /\ Len(more) = Len(rows)
        /\ \A i \in 1..Len(rows) : values[rows[i]] = others[more[i]]
    BY DEF SameValues
  <1> QED
    BY <1>1, TotalSame

\* The work of rows is the total of the values they have in the batch.
LEMMA WorkOfRows ==
    ASSUME NEW rows \in Seq(Row), NEW work,
           work = [i \in DOMAIN rows |-> Workload(rows[i].len)],
           NEW part \in Seq(1..Len(rows)),
           NEW t \in Seq(Row), Len(t) = Len(part),
           \A i \in 1..Len(part) : t[i] = rows[part[i]]
    PROVE  RowsWork(t) = Total(work, part)
  <1> DEFINE M == Len(part)
             N == Len(rows)
             R == 1..M
             T == 1..N
             v == [i \in DOMAIN t |-> Workload(t[i].len)]
             u == UpTo(M)
  <1>1. /\ M \in Nat /\ DOMAIN t = 1..M /\ DOMAIN rows = 1..N
        /\ \A i \in 1..M : t[i] \in Row /\ part[i] \in 1..N
        /\ \A i \in 1..N : rows[i] \in Row
    BY LenProperties, ElementOfSeq
  <1>2. RowsWork(t) = Total(v, u)
    BY DEF RowsWork
  <1>3. u \in Seq(R) /\ Len(u) = M /\ \A i \in 1..M : u[i] = i
    BY <1>1, UpToIs
  <1>4. \A i \in R : v[i] = Workload(t[i].len) /\ v[i] \in Int
    BY <1>1, RowFacts
  <1>5. \A i \in T : work[i] = Workload(rows[i].len) /\ work[i] \in Int
    BY <1>1, RowFacts
  <1>6. \A i \in R : v[i] = work[part[i]]
    BY <1>1, <1>4, <1>5
  <1>7. part \in Seq(T) /\ Len(part) = M
    OBVIOUS
  <1> HIDE DEF u, v, T, M
  <1>8. Valued(v, R) /\ Valued(work, T)
    BY <1>4, <1>5 DEF Valued
  <1>9. \A i \in 1..M : v[u[i]] = work[part[i]]
    BY <1>3, <1>6
  <1> HIDE DEF R
  <1>10. Len(part) = Len(u) /\ \A i \in 1..Len(u) : v[u[i]] = work[part[i]]
    BY <1>3, <1>7, <1>9
  <1>11. Total(v, u) = Total(work, part)
    <2>1. /\ Valued(v, R) /\ u \in Seq(R) /\ Valued(work, T) /\ part \in Seq(T)
          /\ SameValues(v, u, work, part)
      BY <1>3, <1>7, <1>8, <1>10 DEF SameValues
    <2> QED
      BY <2>1, SameTotal
  <1> QED
    BY <1>2, <1>11

\* The chunks are level if the parts are.
LevelChunks(rows) ==
    \E i, j \in 1..Len(rows) : \A a, b \in Ranks :
        RowsWork(ChunkAt(rows, a)) - RowsWork(ChunkAt(rows, b))
            <= Workload(rows[i].len) - Workload(rows[j].len)

\* Level parts make level chunks.
LEMMA PartsLevel ==
    ASSUME NEW rows \in Seq(Row), NEW work,
           work = [i \in DOMAIN rows |-> Workload(rows[i].len)],
           NEW parts, Parts(parts, Width, Len(rows)),
           Level(parts, work, Width, Len(rows)),
           NEW new, Moved(new, rows, parts)
    PROVE  LevelChunks(new)
  <1> DEFINE N == Len(rows)
  <1>1. /\ parts \in Seq(Seq(1..N)) /\ Len(parts) = Width
    BY DEF Parts
  <1>2. /\ \A a \in Ranks :
            /\ ChunkAt(new, a) \in Seq(Row)
            /\ Len(ChunkAt(new, a)) = Len(parts[a + 1])
            /\ \A i \in 1..Len(parts[a + 1]) :
                    ChunkAt(new, a)[i] = rows[parts[a + 1][i]]
        /\ \A r \in 1..N : \E i \in 1..Len(new) : new[i] = rows[r]
    BY DEF Moved
  <1>3. \A a \in Ranks : a + 1 \in 1..Width
    BY Sizes DEF Ranks
  <1>4. ASSUME NEW a \in Ranks
        PROVE  RowsWork(ChunkAt(new, a)) = Total(work, parts[a + 1])
    <2> DEFINE p == parts[a + 1]
               t == ChunkAt(new, a)
    <2>1. p \in Seq(1..N)
      BY <1>1, <1>3, ElementOfSeq
    <2>2. /\ t \in Seq(Row) /\ Len(t) = Len(p)
          /\ \A i \in 1..Len(p) : t[i] = rows[p[i]]
      BY <1>2
    <2> HIDE DEF p, t
    <2>3. RowsWork(t) = Total(work, p)
      BY <2>1, <2>2, WorkOfRows
    <2> QED
      BY <2>3 DEF p, t
  <1>5. PICK r, q \in 1..N : \A j, l \in 1..Width :
            Total(work, parts[j]) - Total(work, parts[l])
                <= work[r] - work[q]
    BY DEF Level
  <1>6. PICK i \in 1..Len(new) : new[i] = rows[r]
    BY <1>2
  <1>7. PICK j \in 1..Len(new) : new[j] = rows[q]
    BY <1>2
  <1>8. DOMAIN rows = 1..N
    BY LenProperties
  <1>9. /\ work[r] = Workload(new[i].len)
        /\ work[q] = Workload(new[j].len)
    BY <1>6, <1>7, <1>8
  <1>10. \A a, b \in Ranks :
            RowsWork(ChunkAt(new, a)) - RowsWork(ChunkAt(new, b))
                <= Workload(new[i].len) - Workload(new[j].len)
    BY <1>3, <1>4, <1>5, <1>9
  <1> QED
    BY <1>10 DEF LevelChunks

\* No two chunks have rows of one group if no two parts have.
GroupedChunks(rows) ==
    \A a, b \in Ranks :
        \A i \in DOMAIN ChunkAt(rows, a), j \in DOMAIN ChunkAt(rows, b) :
            Uid(ChunkAt(rows, a)[i]) = Uid(ChunkAt(rows, b)[j]) => a = b

\* Parts of whole groups make chunks of whole groups.
LEMMA PartsGroup ==
    ASSUME NEW rows \in Seq(Row), \A i \in 1..Len(rows) : rows[i].sample = i,
           NEW parts, Grouped(parts, GroupSize, Width, Len(rows)),
           NEW new, Moved(new, rows, parts)
    PROVE  GroupedChunks(new)
  <1> DEFINE N == Len(rows)
  <1>1. \A a \in Ranks : a + 1 \in 1..Width
    BY Sizes DEF Ranks
  <1>2. ASSUME NEW a \in Ranks, NEW i \in DOMAIN ChunkAt(new, a)
        PROVE  \E r \in Held(parts[a + 1]) :
                    /\ r \in 1..N
                    /\ Uid(ChunkAt(new, a)[i]) = (r - 1) \div GroupSize
    <2> DEFINE p == parts[a + 1]
               t == ChunkAt(new, a)
    <2>1. /\ t \in Seq(Row) /\ Len(t) = Len(p)
          /\ \A m \in 1..Len(p) : p[m] \in 1..N /\ t[m] = rows[p[m]]
      BY DEF Moved
    <2>2. i \in DOMAIN t
      OBVIOUS
    <2> HIDE DEF p, t
    <2>3. i \in 1..Len(p)
      BY <2>1, <2>2, LenProperties
    <2> DEFINE r == p[i]
    <2>4. r \in 1..N /\ t[i] = rows[r] /\ r \in Held(p)
      BY <2>1, <2>3 DEF Held
    <2> HIDE DEF r
    <2>5. Uid(t[i]) = (r - 1) \div GroupSize
      BY <2>4 DEF Uid
    <2> QED
      BY <2>4, <2>5 DEF p, t
  <1>3. ASSUME NEW a \in Ranks, NEW b \in Ranks,
               NEW i \in DOMAIN ChunkAt(new, a),
               NEW j \in DOMAIN ChunkAt(new, b),
               Uid(ChunkAt(new, a)[i]) = Uid(ChunkAt(new, b)[j])
        PROVE  a = b
    <2>1. PICK r \in Held(parts[a + 1]) :
            /\ r \in 1..N
            /\ Uid(ChunkAt(new, a)[i]) = (r - 1) \div GroupSize
      BY <1>2
    <2>2. PICK q \in Held(parts[b + 1]) :
            /\ q \in 1..N
            /\ Uid(ChunkAt(new, b)[j]) = (q - 1) \div GroupSize
      BY <1>2
    <2>3. GroupOf(GroupSize, r) = GroupOf(GroupSize, q)
      BY <1>3, <2>1, <2>2 DEF GroupOf
    <2>4. a + 1 = b + 1
      BY <1>1, <2>3 DEF Grouped
    <2> QED
      BY <2>4, Sizes DEF Ranks
  <1> QED
    BY <1>3 DEF GroupedChunks

-----------------------------------------------------------------------------
(* Steps of the workers.                                                   *)

\* A step in which workers that have their chunk get on.
Working ==
    /\ UNCHANGED <<mode, layout, batch, size, phase, chunk, results>>
    /\ stage' \in [Workers -> Stages]
    /\ count' \in [Workers -> Nat]
    /\ order' \in [Workers -> Seq(Seq(Nat))]
    /\ computed' \in [Workers -> Seq(Nat)]
    /\ \A v \in Workers : stage'[v] # "idle" => stage[v] # "idle"
    /\ \E w \in Workers : stage[w] # "idle"

\* What such a step leaves true.
Settled ==
    Types /\ Unprepared /\ Dispatched /\ BalancedBatch /\ GroupedBatch
    /\ ResultsMatch

\* Such a step leaves it true.
LEMMA WorkingSettled ==
    ASSUME Settled, Working
    PROVE  Settled'
  <1>0. Width' = Width /\ Copies' = Copies /\ Workers' = Workers /\ Ranks' = Ranks
    BY ShapeStays DEF SameWorkers, Working
  <1> USE <1>0
  <1>1. UNCHANGED <<mode, layout, batch, size, phase, chunk, results>>
    BY DEF Working
  <1>2. Types'
    BY <1>1 DEF Settled, Types, Working
  <1>3. Unprepared'
    BY <1>1 DEF Settled, Unprepared
  <1>4. Dispatched'
    <2>1. ~(phase' \in {"prepare", "dispatch"})
      BY <1>1 DEF Settled, Dispatched, Working, Idle
    <2>2. phase' = "wait" \/ (phase' = "done" /\ mode' # "validate") =>
            /\ Len(batch') % Width = 0
            /\ \A w \in Workers : chunk'[w] = ChunkOf(DpRank(w))'
      BY <1>1 DEF Settled, Dispatched, ChunkOf, DpRank
    <2>3. \A w \in Workers : stage'[w] # "idle" => chunk'[w] # <<>>
      BY <1>1 DEF Settled, Dispatched, Working
    <2> QED
      BY <2>1, <2>2, <2>3 DEF Dispatched
  <1>5. BalancedBatch'
    BY <1>1 DEF Settled, BalancedBatch, ChunkOf
  <1>6. GroupedBatch'
    <2>1. \A a \in Ranks : ChunkOf(a)' = ChunkOf(a)
      BY <1>1 DEF ChunkOf
    <2>2. \A a, b \in Ranks :
            \A i \in DOMAIN ChunkOf(a), j \in DOMAIN ChunkOf(b) :
                mode = "grouped" /\ phase # "prepare"
                /\ Uid(ChunkOf(a)[i]) = Uid(ChunkOf(b)[j]) => a = b
      BY DEF Settled, GroupedBatch
    <2> QED
      BY <1>1, <2>1, <2>2, GroupsStay
  <1>7. ResultsMatch'
    BY <1>1 DEF Settled, ResultsMatch
  <1> QED
    BY <1>2, <1>3, <1>4, <1>5, <1>6, <1>7 DEF Settled

\* A worker that does not get on.
LEMMA Waiting ==
    ASSUME NEW v, Progress(v),
           mode' = mode, chunk' = chunk, stage'[v] = stage[v],
           count'[v] = count[v], order'[v] = order[v],
           computed'[v] = computed[v]
    PROVE  Progress(v)'
  BY DEF Progress

\* The invariant is that, and what holds of each worker.
LEMMA SettledIs ==
    IInv <=> Settled /\ (\A w \in Workers : Progress(w)) /\ Agreed
  BY DEF IInv, Settled

\* Generation keeps the invariant.
LEMMA GenerateKeeps ==
    ASSUME IInv, NEW w \in Workers, Generate(w)
    PROVE  IInv'
  <1>0. Width' = Width /\ Copies' = Copies /\ Workers' = Workers /\ Ranks' = Ranks
    BY ShapeStays DEF SameWorkers, Generate
  <1> USE <1>0
  <1>1. /\ Settled /\ Types /\ (\A v \in Workers : Progress(v)) /\ Agreed
    BY SettledIs DEF Settled
  <1>2. chunk[w] \in Seq(Row) /\ Samples(chunk[w]) \in Seq(Nat)
    BY <1>1, SamplesAre DEF Types
  <1>3. Working
    BY <1>1, <1>2 DEF Generate, Working, Types, Stages
  <1>4. Settled'
    BY <1>1, <1>3, WorkingSettled
  <1>5. ASSUME NEW v \in Workers PROVE Progress(v)'
    <2>1. CASE v = w
      <3>1. stage'[v] = "returned" /\ computed'[v] = Samples(chunk[v])
        BY <1>1, <2>1 DEF Generate, Types
      <3>2. mode = "validate" /\ order[v] = <<>>
        BY <1>1, <2>1 DEF Generate, Progress
      <3>3. mode' = mode /\ chunk' = chunk /\ order' = order
        BY DEF Generate
      <3> QED
        BY <3>1, <3>2, <3>3 DEF Progress
    <2>2. CASE v # w
      BY <1>1, <2>2, Waiting DEF Generate, Types
    <2> QED
      BY <2>1, <2>2
  <1>6. Agreed'
    <2>1. mode = "validate" /\ mode' = mode
      BY <1>1 DEF Generate, Progress
    <2> QED
      BY <2>1 DEF Agreed
  <1>7. (Settled /\ (\A v \in Workers : Progress(v)) /\ Agreed)'
    BY <1>4, <1>5, <1>6
  <1> QED
    BY <1>7 DEF IInv, Settled

\* The lengths of rows are numbers.
LEMMA LensAre ==
    ASSUME NEW rows \in Seq(Row), rows # <<>>
    PROVE  Lengths(Lens(rows), Len(rows))
  <1> DEFINE N == Len(rows)
             t == Lens(rows)
  <1>1. /\ N \in Nat \ {0} /\ DOMAIN rows = 1..N
        /\ \A i \in 1..N : rows[i] \in Row
    BY LenProperties, EmptySeq, ElementOfSeq
  <1>2. t = [i \in 1..N |-> rows[i].len]
    BY <1>1 DEF Lens
  <1>3. t \in [1..N -> Nat]
    BY <1>1, <1>2, RowFacts
  <1> HIDE DEF t, N
  <1>4. t \in Seq(Nat) /\ Len(t) = N
    BY <1>1, <1>3, FunctionIsSeq
  <1> QED
    BY <1>1, <1>4 DEF Lengths, t, N

\* Counting the micro-batches keeps the invariant.
LEMMA CountKeeps ==
    ASSUME IInv, NEW w \in Workers, CountMicroBatches(w)
    PROVE  IInv'
  <1>0. Width' = Width /\ Copies' = Copies /\ Workers' = Workers /\ Ranks' = Ranks
    BY ShapeStays DEF SameWorkers, CountMicroBatches
  <1> USE <1>0
  <1>1. /\ Settled /\ Types /\ Dispatched
        /\ (\A v \in Workers : Progress(v)) /\ Agreed
    BY SettledIs DEF Settled
  <1>2. chunk[w] \in Seq(Row) /\ chunk[w] # <<>> /\ stage[w] = "count"
    BY <1>1 DEF Types, Dispatched, CountMicroBatches
  <1>3. MicroBatchesNeeded(Lens(chunk[w]), MaxTokenLen) \in Nat
    BY <1>2, LensAre, NeededIsNat, Sizes
  <1>4. Working
    BY <1>1, <1>3 DEF CountMicroBatches, Working, Types, Stages
  <1>5. Settled'
    BY <1>1, <1>4, WorkingSettled
  <1>6. ASSUME NEW v \in Workers PROVE Progress(v)'
    <2>1. CASE v = w
      <3>1. stage'[v] = "reduce"
        BY <1>1, <2>1 DEF CountMicroBatches, Types
      <3>2. mode # "validate" /\ computed[v] = <<>>
        BY <1>1, <1>2, <2>1 DEF Progress
      <3>3. mode' = mode /\ computed' = computed
        BY DEF CountMicroBatches
      <3> QED
        BY <3>1, <3>2, <3>3 DEF Progress
    <2>2. CASE v # w
      BY <1>1, <2>2, Waiting DEF CountMicroBatches, Types
    <2> QED
      BY <2>1, <2>2
  <1>7. Agreed'
    <2>1. ASSUME NEW v \in Workers,
                 stage'[v] \in {"split", "forward", "restore", "returned"}
          PROVE  count'[v] = count[v] /\ stage'[v] = stage[v]
      BY <1>1, <2>1 DEF CountMicroBatches, Types
    <2>2. mode' = mode
      BY DEF CountMicroBatches
    <2> QED
      BY <1>1, <2>1, <2>2 DEF Agreed
  <1>8. (Settled /\ (\A v \in Workers : Progress(v)) /\ Agreed)'
    BY <1>5, <1>6, <1>7
  <1> QED
    BY <1>8 DEF IInv, Settled

\* There is a largest number.
LEMMA ReducedIs ==
    ASSUME count \in [Workers -> Nat]
    PROVE  \A w \in Workers : Reduced(w) \in Nat
  <1> DEFINE W == Width * Copies
             f == [i \in 1..W |-> count[i - 1]]
             All == {count[v] : v \in Workers}
             Tops == {m \in Nat : \A v \in Workers : count[v] <= m}
  <1>1. W \in Nat \ {0} /\ Workers = 0..(W - 1)
    BY Sizes, MulNat DEF Workers
  <1> HIDE DEF W
  <1>2. \A i \in 1..W : f[i] \in Nat
    BY <1>1
  <1>3. PICK m \in Nat : \A i \in 1..W : f[i] <= m
    <2> HIDE DEF f
    <2> QED
      BY <1>1, <1>2, Bounded
  <1>4. \A v \in Workers : count[v] <= m
    <2> SUFFICES ASSUME NEW v \in Workers PROVE count[v] <= m
      OBVIOUS
    <2>1. v + 1 \in 1..W /\ (v + 1) - 1 = v
      BY <1>1
    <2>2. f[v + 1] = count[v]
      BY <2>1
    <2> QED
      BY <1>3, <2>1, <2>2
  <1>5. PICK least \in Tops : \A n \in Tops : least <= n
    <2>1. Tops \in SUBSET Nat /\ Tops # {}
      BY <1>4
    <2> HIDE DEF Tops
    <2> QED
      BY <2>1, LeastNat
  <1>6. least \in All
    <2> SUFFICES ASSUME \A v \in Workers : count[v] # least PROVE FALSE
      OBVIOUS
    <2>1. 0 \in Workers /\ count[0] \in Nat /\ count[0] <= least
          /\ least \in Nat
      BY <1>1, <1>5
    <2>2. least - 1 \in Nat
      BY <2>1
    <2>3. \A v \in Workers : count[v] <= least - 1
      BY <1>5, <2>2
    <2>4. least - 1 \in Tops
      BY <2>2, <2>3
    <2> QED
      BY <1>5, <2>1, <2>4
  <1>7. \E n \in All : \A v \in Workers : count[v] <= n
    BY <1>5, <1>6
  <1> SUFFICES ASSUME NEW w \in Workers PROVE Reduced(w) \in Nat
    OBVIOUS
  <1>8. Reduced(w) \in All
    BY <1>7 DEF Reduced
  <1> QED
    BY <1>8

\* The reduction keeps the invariant: it makes the numbers equal.
LEMMA AllReduceKeeps ==
    ASSUME IInv, AllReduce
    PROVE  IInv'
  <1>0. Width' = Width /\ Copies' = Copies /\ Workers' = Workers /\ Ranks' = Ranks
    BY ShapeStays DEF SameWorkers, AllReduce
  <1> USE <1>0
  <1>1. /\ Settled /\ Types
        /\ (\A v \in Workers : Progress(v)) /\ Agreed
    BY SettledIs DEF Settled
  <1>2. \A w \in Workers : Reduced(w) \in Nat
    BY <1>1, ReducedIs DEF Types
  <1>3. \E w \in Workers : TRUE
    <2>1. Width * Copies \in Nat \ {0}
      BY Sizes, MulNat
    <2>2. 0 \in Workers
      BY <2>1 DEF Workers
    <2> QED
      BY <2>2
  <1>4. Working
    BY <1>1, <1>2, <1>3 DEF AllReduce, Working, Types, Stages
  <1>5. Settled'
    BY <1>1, <1>4, WorkingSettled
  <1>6. ASSUME NEW v \in Workers PROVE Progress(v)'
    <2>1. stage'[v] = "split" /\ stage[v] = "reduce"
      BY DEF AllReduce
    <2>2. mode # "validate" /\ computed[v] = <<>>
      BY <1>1, <2>1 DEF Progress
    <2>3. mode' = mode /\ computed' = computed
      BY DEF AllReduce
    <2> QED
      BY <2>1, <2>2, <2>3 DEF Progress
  <1>7. Agreed'
    <2>1. \A v, w \in Workers : count'[v] = count'[w]
      BY DEF AllReduce, Reduced
    <2> QED
      BY <2>1 DEF Agreed
  <1>8. (Settled /\ (\A v \in Workers : Progress(v)) /\ Agreed)'
    BY <1>5, <1>6, <1>7
  <1> QED
    BY <1>8 DEF IInv, Settled

\* No micro-batches of rows are no partition of them.
LEMMA NoMicroBatches ==
    ASSUME NEW lens, NEW N \in Nat \ {0}
    PROVE  ~Partitions(MicroBatches(lens, 0), N)
  <1> DEFINE work == [i \in DOMAIN lens |-> Workload(lens[i])]
             parts == BalancedPartitions(work, 0, FALSE)
             Heavier(p, q) == \/ Total(work, p) > Total(work, q)
                              \/ Total(work, p) = Total(work, q) /\ p[1] > q[1]
             less == {p \in Pairs(parts) : Heavier(parts[p[1]], parts[p[2]])}
             ordered == Sorted(parts, less)
             micro == MicroBatches(lens, 0)
  <1>1. micro = Reverse(EverySecond(ordered, 0)) \o EverySecond(ordered, 1)
    BY DEF MicroBatches
  <1>2. parts = <<>>
    <2>1. 1..0 = {}
      OBVIOUS
    <2> QED
      BY <2>1 DEF BalancedPartitions
  <1> HIDE DEF parts, less, micro
  <1>3. parts \in Seq(Seq({})) /\ Len(parts) = 0
    BY <1>2, EmptySeq
  <1>4. ordered \in Seq(Seq({})) /\ Len(ordered) = 0
    BY <1>3, SortedRearranges DEF Rearranged
  <1> HIDE DEF ordered
  <1>5. micro \in Seq(Seq({})) /\ Len(micro) = 0
    BY <1>1, <1>4, EndsRearrange DEF Rearranged
  <1>6. FlattenSeq(micro) \in Seq({}) /\ Len(FlattenSeq(micro)) = 0
    BY <1>5, EndsAdd
  <1>7. {FlattenSeq(micro)[i] : i \in 1..Len(FlattenSeq(micro))} = {}
    BY <1>6
  <1>8. 1 \in 1..N
    OBVIOUS
  <1> QED
    BY <1>7, <1>8 DEF Partitions, micro

\* Parts are sequences of numbers and, joined, an order of all rows.
LEMMA NumberedParts ==
    ASSUME NEW parts, NEW k, NEW N \in Nat, Parts(parts, k, N)
    PROVE  /\ parts \in Seq(Seq(1..N)) /\ parts \in Seq(Seq(Nat))
           /\ Len(parts) = k /\ Order(FlattenSeq(parts), N)
  <1>1. parts \in Seq(Seq(1..N)) /\ Len(parts) = k
    BY DEF Parts
  <1>2. Order(FlattenSeq(parts), N)
    BY PartsOrder
  <1>3. \A i \in 1..Len(parts) : parts[i] \in Seq(1..N)
    BY <1>1, ElementOfSeq
  <1>4. Seq(1..N) \subseteq Seq(Nat)
    <2>1. 1..N \subseteq Nat
      OBVIOUS
    <2> QED
      BY <2>1
  <1>5. parts \in [1..Len(parts) -> Seq(Nat)]
    <2>1. parts \in [1..Len(parts) -> Seq(1..N)]
      BY <1>1, LenProperties
    <2> QED
      BY <1>4, <2>1
  <1>6. parts \in Seq(Seq(Nat))
    BY <1>1, <1>5, LenProperties, FunctionIsSeq
  <1> QED
    BY <1>1, <1>2, <1>6

\* Nothing is computed for no rows.
LEMMA PickedNothing ==
    ASSUME NEW rows
    PROVE  Picked(rows, <<>>) = <<>>
  <1>1. Len(<<>>) = 0 /\ 1..0 = {}
    BY EmptySeq
  <1> QED
    BY <1>1 DEF Picked

\* What is computed for rows is a number for each.
LEMMA PickedIs ==
    ASSUME NEW rows \in Seq(Row), NEW idx \in Seq(1..Len(rows))
    PROVE  /\ Picked(rows, idx) \in Seq(Nat)
           /\ Len(Picked(rows, idx)) = Len(idx)
           /\ \A i \in 1..Len(idx) : Picked(rows, idx)[i] = rows[idx[i]].sample
  <1> DEFINE N == Len(idx)
             t == Picked(rows, idx)
  <1>1. t = [i \in 1..N |-> rows[idx[i]].sample] /\ N \in Nat
    BY LenProperties DEF Picked
  <1>2. \A i \in 1..N : idx[i] \in 1..Len(rows)
    BY ElementOfSeq
  <1>3. \A i \in 1..Len(rows) : rows[i] \in Row
    BY ElementOfSeq
  <1>4. \A i \in 1..N : rows[idx[i]].sample \in Nat
    BY <1>2, <1>3, RowFacts
  <1> HIDE DEF t, N
  <1>5. t \in [1..N -> Nat]
    BY <1>1, <1>4
  <1>6. t \in Seq(Nat) /\ Len(t) = N
    BY <1>1, <1>5, FunctionIsSeq
  <1> QED
    BY <1>1, <1>6 DEF t, N

\* What is computed for rows joined is joined.
LEMMA PickedJoins ==
    ASSUME NEW rows \in Seq(Row), NEW a \in Seq(1..Len(rows)),
           NEW b \in Seq(1..Len(rows))
    PROVE  Picked(rows, a \o b) = Picked(rows, a) \o Picked(rows, b)
  <1> DEFINE R == 1..Len(rows)
             c == a \o b
             s == Picked(rows, a)
             t == Picked(rows, b)
             u == Picked(rows, c)
  <1>1. /\ c \in Seq(R) /\ Len(c) = Len(a) + Len(b)
        /\ \A i \in 1..(Len(a) + Len(b)) :
                c[i] = IF i <= Len(a) THEN a[i] ELSE b[i - Len(a)]
        /\ Len(a) \in Nat /\ Len(b) \in Nat
    BY ConcatProperties, LenProperties
  <1> HIDE DEF c
  <1>2. /\ s \in Seq(Nat) /\ Len(s) = Len(a)
        /\ \A i \in 1..Len(a) : s[i] = rows[a[i]].sample
    BY PickedIs
  <1>3. /\ t \in Seq(Nat) /\ Len(t) = Len(b)
        /\ \A i \in 1..Len(b) : t[i] = rows[b[i]].sample
    BY PickedIs
  <1>4. /\ u \in Seq(Nat) /\ Len(u) = Len(c)
        /\ \A i \in 1..Len(c) : u[i] = rows[c[i]].sample
    BY <1>1, PickedIs
  <1> HIDE DEF s, t, u
  <1> DEFINE v == s \o t
  <1>5. /\ v \in Seq(Nat) /\ Len(v) = Len(a) + Len(b)
        /\ \A i \in 1..(Len(a) + Len(b)) :
                v[i] = IF i <= Len(a) THEN s[i] ELSE t[i - Len(a)]
    <2>1. s \in Seq(Nat) /\ t \in Seq(Nat)
      BY <1>2, <1>3
    <2>2. /\ v \in Seq(Nat) /\ Len(v) = Len(s) + Len(t)
          /\ \A i \in 1..(Len(s) + Len(t)) :
                v[i] = IF i <= Len(s) THEN s[i] ELSE t[i - Len(s)]
      BY <2>1, ConcatProperties
    <2> HIDE DEF v
    <2> QED
      BY <1>2, <1>3, <2>2
  <1> HIDE DEF v
  <1>6. \A i \in 1..Len(u) : u[i] = v[i]
    <2> SUFFICES ASSUME NEW i \in 1..Len(u) PROVE u[i] = v[i]
      OBVIOUS
    <2>1. CASE i <= Len(a)
      <3>1. i \in 1..Len(a) /\ i \in 1..(Len(a) + Len(b)) /\ i \in 1..Len(c)
        BY <1>1, <1>4, <2>1
      <3>2. c[i] = a[i] /\ v[i] = s[i]
        BY <1>1, <1>5, <2>1, <3>1
      <3> QED
        BY <1>2, <1>4, <3>1, <3>2
    <2>2. CASE ~(i <= Len(a))
      <3>1. i - Len(a) \in 1..Len(b)
        BY <1>1, <1>4, <2>2
      <3> QED
        BY <1>1, <1>3, <1>4, <1>5, <2>2, <3>1
    <2> QED
      BY <2>1, <2>2
  <1>7. u = v
    BY <1>1, <1>4, <1>5, <1>6, SeqEqual
  <1> QED
    BY <1>7 DEF s, t, u, v, c

\* Splitting into micro-batches keeps the invariant: each has a row.
LEMMA SplitKeeps ==
    ASSUME IInv, NEW w \in Workers, Split(w)
    PROVE  IInv'
  <1> DEFINE rows == chunk[w]
             N == Len(rows)
             k == count[w]
             micro == MicroBatches(Lens(rows), k)
  <1>0. Width' = Width /\ Copies' = Copies /\ Workers' = Workers /\ Ranks' = Ranks
    BY ShapeStays DEF SameWorkers, Split
  <1> USE <1>0
  <1>1. /\ Settled /\ Types /\ Dispatched
        /\ (\A v \in Workers : Progress(v)) /\ Agreed
    BY SettledIs DEF Settled
  <1>2. /\ stage[w] = "split" /\ Partitions(micro, N)
        /\ order' = [order EXCEPT ![w] = micro]
        /\ stage' = [stage EXCEPT ![w] = "forward"]
        /\ UNCHANGED <<mode, layout, batch, size, phase, chunk, count,
                       computed, results>>
    BY DEF Split
  <1>3. rows \in Seq(Row) /\ rows # <<>> /\ k \in Nat
    BY <1>1, <1>2 DEF Types, Dispatched
  <1>4. Lengths(Lens(rows), N) /\ N \in Nat \ {0}
    BY <1>3, LensAre DEF Lengths
  <1>5. k \in Nat \ {0}
    <2> SUFFICES ASSUME k = 0 PROVE FALSE
      BY <1>3
    <2>1. Partitions(MicroBatches(Lens(rows), 0), N)
      BY <1>2
    <2> HIDE DEF N, k, rows
    <2> QED
      BY <1>4, <2>1, NoMicroBatches
  <1>6. Parts(micro, k, N)
    <2> HIDE DEF N, k
    <2> QED
      BY <1>4, <1>5, MicroBatchesAre
  <1>7. \A j \in 1..Len(micro) : micro[j] # <<>>
    <2> HIDE DEF micro, N
    <2>1. DOMAIN micro = 1..Len(micro)
      BY <1>6, LenProperties DEF Parts
    <2> QED
      BY <1>2, <2>1 DEF Partitions
  <1>8. micro \in Seq(Seq(Nat)) /\ Len(micro) = k
    <2> HIDE DEF micro, N, k
    <2> QED
      BY <1>4, <1>6, NumberedParts
  <1> HIDE DEF micro
  <1>9. Working
    BY <1>1, <1>2, <1>8 DEF Working, Types, Stages
  <1>10. Settled'
    BY <1>1, <1>9, WorkingSettled
  <1>11. ASSUME NEW v \in Workers PROVE Progress(v)'
    <2>1. CASE v = w
      <3>1. stage'[v] = "forward" /\ order'[v] = micro
        BY <1>1, <1>2, <2>1 DEF Types
      <3>2. mode # "validate" /\ computed[v] = <<>>
        BY <1>1, <1>2, <2>1 DEF Progress
      <3>3. 0 \in 0..Len(micro)
            /\ computed[v] = Picked(rows, FlattenSeq(SubSeq(micro, 1, 0)))
        <4>1. FlattenSeq(SubSeq(micro, 1, 0)) = <<>>
          BY <1>8, FlattenPrefixes
        <4> QED
          BY <1>3, <1>8, <3>2, <4>1, PickedNothing
      <3> QED
        BY <1>2, <1>6, <1>7, <1>8, <2>1, <3>1, <3>2, <3>3 DEF Progress
    <2>2. CASE v # w
      BY <1>1, <1>2, <2>2, Waiting DEF Types
    <2> QED
      BY <2>1, <2>2
  <1>12. Agreed'
    <2>1. ASSUME NEW v \in Workers,
                 stage'[v] \in {"split", "forward", "restore", "returned"}
          PROVE  stage[v] \in {"split", "forward", "restore", "returned"}
      BY <1>1, <1>2, <2>1 DEF Types
    <2> QED
      BY <1>1, <1>2, <2>1 DEF Agreed
  <1>13. (Settled /\ (\A v \in Workers : Progress(v)) /\ Agreed)'
    BY <1>10, <1>11, <1>12
  <1> QED
    BY <1>13 DEF IInv, Settled

\* Putting the results back in order keeps the invariant: they are those
\* of the chunk.
LEMMA RestoreKeeps ==
    ASSUME IInv, NEW w \in Workers, RestoreOrder(w)
    PROVE  IInv'
  <1> DEFINE rows == chunk[w]
             N == Len(rows)
             idx == FlattenSeq(order[w])
             f == Samples(rows)
  <1>0. Width' = Width /\ Copies' = Copies /\ Workers' = Workers /\ Ranks' = Ranks
    BY ShapeStays DEF SameWorkers, RestoreOrder
  <1> USE <1>0
  <1>1. /\ Settled /\ Types /\ Dispatched
        /\ (\A v \in Workers : Progress(v)) /\ Agreed
    BY SettledIs DEF Settled
  <1>2. /\ stage[w] = "restore"
        /\ computed' = [computed EXCEPT ![w] = Restore(computed[w], idx)]
        /\ stage' = [stage EXCEPT ![w] = "returned"]
        /\ UNCHANGED <<mode, layout, batch, size, phase, chunk, count, order,
                       results>>
    BY <1>1 DEF RestoreOrder, Types
  <1>3. rows \in Seq(Row) /\ rows # <<>> /\ N \in Nat \ {0}
    <2>1. rows \in Seq(Row) /\ rows # <<>>
      BY <1>1, <1>2 DEF Types, Dispatched
    <2> QED
      BY <2>1, LenProperties, EmptySeq
  <1>4. /\ Parts(order[w], count[w], N) /\ computed[w] = Picked(rows, idx)
        /\ mode # "validate" /\ Len(order[w]) = count[w]
    BY <1>1, <1>2 DEF Progress
  <1>5. Order(idx, N)
    BY <1>3, <1>4, NumberedParts
  <1>6. /\ f \in Seq(Nat) /\ Len(f) = N
        /\ \A i \in 1..N : f[i] = rows[i].sample
    BY <1>3, SamplesAre
  <1>7. computed[w] = [i \in 1..N |-> f[idx[i]]]
    <2>1. /\ idx \in Seq(1..N) /\ Len(idx) = N
      BY <1>5 DEF Order
    <2>2. \A i \in 1..N : idx[i] \in 1..N
      BY <2>1, ElementOfSeq
    <2>3. \A i \in 1..N : rows[idx[i]].sample = f[idx[i]]
      BY <1>6, <2>2
    <2> HIDE DEF idx, f, rows
    <2> QED
      BY <1>4, <2>1, <2>3 DEF Picked
  <1>8. Restore(computed[w], idx) = f
    <2> HIDE DEF idx, f, N
    <2>1. Restore(computed[w], idx) = [i \in 1..N |-> f[i]]
      BY <1>3, <1>5, <1>7, RestoreIs, SMTT(40)
    <2>2. f = [i \in 1..N |-> f[i]]
      BY <1>6, LenProperties
    <2> QED
      BY <2>1, <2>2
  <1> HIDE DEF f, idx
  <1>9. Working
    BY <1>1, <1>2, <1>6, <1>8 DEF Working, Types, Stages
  <1>10. Settled'
    BY <1>1, <1>9, WorkingSettled
  <1>11. ASSUME NEW v \in Workers PROVE Progress(v)'
    <2>1. CASE v = w
      <3>1. stage'[v] = "returned" /\ computed'[v] = f
        BY <1>1, <1>2, <1>8, <2>1 DEF Types
      <3> QED
        BY <1>2, <1>4, <2>1, <3>1 DEF Progress, f
    <2>2. CASE v # w
      BY <1>1, <1>2, <2>2, Waiting DEF Types
    <2> QED
      BY <2>1, <2>2
  <1>12. Agreed'
    <2>1. ASSUME NEW v \in Workers,
                 stage'[v] \in {"split", "forward", "restore", "returned"}
          PROVE  stage[v] \in {"split", "forward", "restore", "returned"}
      BY <1>1, <1>2, <2>1 DEF Types
    <2> QED
      BY <1>1, <1>2, <2>1 DEF Agreed
  <1>13. (Settled /\ (\A v \in Workers : Progress(v)) /\ Agreed)'
    BY <1>10, <1>11, <1>12
  <1> QED
    BY <1>13 DEF IInv, Settled

\* A worker in a forward pass, with b micro-batches behind it.
Passing(w, b) ==
    /\ Parts(order[w], count[w], Len(chunk[w])) /\ chunk[w] \in Seq(Row)
    /\ \A j \in 1..Len(order[w]) : order[w][j] # <<>>
    /\ b \in 0..Len(order[w])
    /\ computed[w] = Picked(chunk[w], FlattenSeq(SubSeq(order[w], 1, b)))

\* The number of micro-batches behind a worker follows from how much it
\* has computed.
LEMMA BehindIs ==
    ASSUME NEW w, NEW b, Passing(w, b)
    PROVE  Behind(w) = b
  <1> DEFINE rows == chunk[w]
             N == Len(rows)
             parts == order[w]
             idx == FlattenSeq(SubSeq(parts, 1, b))
  <1>1. /\ Parts(parts, count[w], N) /\ rows \in Seq(Row) /\ b \in 0..Len(parts)
        /\ computed[w] = Picked(rows, idx)
        /\ \A j \in 1..Len(parts) : parts[j] # <<>>
    BY DEF Passing
  <1>2. N \in Nat
    BY <1>1, LenProperties
  <1>3. parts \in Seq(Seq(1..N))
    BY <1>1 DEF Parts
  <1>4. idx \in Seq(1..N)
    BY <1>1, <1>3, FlattenPrefixes
  <1>5. Len(computed[w]) = Ends(parts, b)
    <2>1. Len(computed[w]) = Len(idx)
      BY <1>1, <1>4, PickedIs
    <2> QED
      BY <2>1 DEF Ends
  <1> HIDE DEF N, idx
  <1>6. \A n \in 0..Len(parts) : Ends(parts, n) = Ends(parts, b) => n = b
    <2> HIDE DEF parts
    <2> QED
      BY <1>1, <1>3, EndsApart
  <1>7. Behind(w) = CHOOSE n \in 0..Len(parts) : Ends(parts, n) = Ends(parts, b)
    BY <1>5 DEF Behind, Ends
  <1> HIDE DEF parts
  <1> QED
    BY <1>1, <1>6, <1>7

\* One more forward pass is one more micro-batch.
LEMMA PassingGoesOn ==
    ASSUME NEW w, NEW b, Passing(w, b), b < Len(order[w]),
           NEW more, more = [i \in DOMAIN order[w][b + 1] |->
                                chunk[w][order[w][b + 1][i]].sample]
    PROVE  /\ computed[w] \o more
                = Picked(chunk[w], FlattenSeq(SubSeq(order[w], 1, b + 1)))
           /\ computed[w] \o more \in Seq(Nat)
  <1> DEFINE rows == chunk[w]
             N == Len(rows)
             parts == order[w]
             h == b + 1
             idx == FlattenSeq(SubSeq(parts, 1, b))
             next == FlattenSeq(SubSeq(parts, 1, h))
             part == parts[h]
  <1>1. /\ Parts(parts, count[w], N) /\ rows \in Seq(Row) /\ b \in 0..Len(parts)
        /\ computed[w] = Picked(rows, idx)
    BY DEF Passing
  <1>2. parts \in Seq(Seq(1..N)) /\ Len(parts) \in Nat
    BY <1>1, LenProperties DEF Parts
  <1>3. h \in 1..Len(parts) /\ h \in 0..Len(parts) /\ h - 1 = b
    BY <1>1, <1>2, SMTT(40)
  <1>4. part \in Seq(1..N)
    BY <1>2, <1>3, ElementOfSeq
  <1>5. DOMAIN part = 1..Len(part)
    BY <1>4, LenProperties
  <1>6. more = Picked(rows, part)
    BY <1>5 DEF Picked
  <1> HIDE DEF h
  <1>7. /\ idx \in Seq(1..N) /\ next \in Seq(1..N) /\ next = idx \o part
    BY <1>1, <1>2, <1>3, FlattenPrefixes
  <1>8. Picked(rows, next) = computed[w] \o more
    <2> HIDE DEF idx, part, next
    <2> QED
      BY <1>1, <1>4, <1>6, <1>7, PickedJoins
  <1>9. Picked(rows, next) \in Seq(Nat)
    <2> HIDE DEF next
    <2> QED
      BY <1>1, <1>7, PickedIs
  <1> QED
    BY <1>8, <1>9 DEF h

\* A forward pass keeps the invariant.
LEMMA ForwardKeeps ==
    ASSUME IInv, Forward
    PROVE  IInv'
  <1> DEFINE more(w, b) == [i \in DOMAIN order[w][b + 1] |->
                                chunk[w][order[w][b + 1][i]].sample]
  <1>0. Width' = Width /\ Copies' = Copies /\ Workers' = Workers /\ Ranks' = Ranks
    BY ShapeStays DEF SameWorkers, Forward
  <1> USE <1>0
  <1>1. /\ Settled /\ Types /\ Dispatched
        /\ (\A v \in Workers : Progress(v)) /\ Agreed
    BY SettledIs DEF Settled
  <1>2. /\ \A w \in Workers : stage[w] = "forward" /\ Behind(w) < Len(order[w])
        /\ computed' = [w \in Workers |-> computed[w] \o more(w, Behind(w))]
        /\ stage' = [w \in Workers |-> IF Behind(w) + 1 = Len(order[w])
                                       THEN "restore" ELSE "forward"]
        /\ UNCHANGED <<mode, layout, batch, size, phase, chunk, count, order,
                       results>>
    BY DEF Forward
  <1>3. ASSUME NEW w \in Workers
        PROVE  /\ Passing(w, Behind(w)) /\ Len(order[w]) \in Nat
               /\ mode # "validate" /\ Len(order[w]) = count[w]
               /\ order[w] \in Seq(Seq(Nat))
               /\ order[w] # <<>>
    <2>1. /\ Parts(order[w], count[w], Len(chunk[w])) /\ chunk[w] \in Seq(Row)
          /\ \A j \in 1..Len(order[w]) : order[w][j] # <<>>
          /\ mode # "validate" /\ Len(order[w]) = count[w]
      BY <1>1, <1>2 DEF Progress, Types
    <2>2. PICK b \in 0..Len(order[w]) :
            computed[w] = Picked(chunk[w], FlattenSeq(SubSeq(order[w], 1, b)))
      BY <1>1, <1>2 DEF Progress
    <2>3. Passing(w, b)
      BY <2>1, <2>2 DEF Passing
    <2>4. Behind(w) = b
      BY <2>3, BehindIs
    <2>5. order[w] \in Seq(Seq(Nat)) /\ Len(order[w]) \in Nat
      BY <1>1, LenProperties DEF Types
    <2>6. order[w] # <<>>
      BY <1>2, <2>2, <2>4, <2>5, EmptySeq
    <2> QED
      BY <2>1, <2>3, <2>4, <2>5, <2>6
  <1>4. ASSUME NEW w \in Workers, NEW b, b = Behind(w)
        PROVE  /\ b \in 0..Len(order[w]) /\ b + 1 \in 0..Len(order[w])
               /\ computed'[w] = Picked(chunk[w],
                                    FlattenSeq(SubSeq(order[w], 1, b + 1)))
               /\ computed'[w] \in Seq(Nat)
    <2>1. Passing(w, b) /\ b < Len(order[w]) /\ Len(order[w]) \in Nat
      BY <1>2, <1>3, <1>4
    <2>2. b \in 0..Len(order[w]) /\ b + 1 \in 0..Len(order[w])
      BY <2>1 DEF Passing
    <2>3. computed'[w] = computed[w] \o more(w, b)
      BY <1>2, <1>4
    <2>4. /\ computed[w] \o more(w, b)
                = Picked(chunk[w], FlattenSeq(SubSeq(order[w], 1, b + 1)))
          /\ computed[w] \o more(w, b) \in Seq(Nat)
      BY <2>1, PassingGoesOn
    <2> QED
      BY <2>2, <2>3, <2>4
  <1> HIDE DEF more
  <1>5. /\ stage' \in [Workers -> Stages]
        /\ computed' \in [Workers -> Seq(Nat)]
    <2>1. \A w \in Workers : computed'[w] \in Seq(Nat)
      BY <1>4
    <2> QED
      BY <1>2, <2>1 DEF Stages
  <1>6. \E w \in Workers : TRUE
    <2>1. Width * Copies \in Nat \ {0}
      BY Sizes, MulNat
    <2>2. 0 \in Workers
      BY <2>1 DEF Workers
    <2> QED
      BY <2>2
  <1>7. Working
    BY <1>1, <1>2, <1>5, <1>6 DEF Working, Types
  <1>8. Settled'
    BY <1>1, <1>7, WorkingSettled
  <1>9. ASSUME NEW v \in Workers PROVE Progress(v)'
    <2> DEFINE b == Behind(v)
               parts == order[v]
               rows == chunk[v]
               c == computed'[v]
    <2>1. /\ b + 1 \in 0..Len(parts)
          /\ c = Picked(rows, FlattenSeq(SubSeq(parts, 1, b + 1)))
      BY <1>4
    <2>2. /\ Parts(parts, count[v], Len(rows))
          /\ \A j \in 1..Len(parts) : parts[j] # <<>>
          /\ mode # "validate" /\ Len(parts) = count[v]
      BY <1>3 DEF Passing
    <2>3. /\ order'[v] = parts /\ chunk'[v] = rows /\ count'[v] = count[v]
          /\ mode' = mode
      BY <1>2
    <2>4. CASE b + 1 = Len(parts)
      <3>1. stage'[v] = "restore"
        BY <1>2, <2>4
      <3>2. SubSeq(parts, 1, b + 1) = parts
        BY <1>3, <2>4, SubSeqFull
      <3>3. c = Picked(rows, FlattenSeq(parts))
        BY <2>1, <3>2
      <3> HIDE DEF b, parts, rows
      <3> QED
        BY <2>2, <2>3, <3>1, <3>3 DEF Progress
    <2>5. CASE b + 1 # Len(parts)
      <3>1. stage'[v] = "forward"
        BY <1>2, <2>5
      <3> DEFINE h == b + 1
      <3>2. /\ h \in 0..Len(parts)
            /\ c = Picked(rows, FlattenSeq(SubSeq(parts, 1, h)))
        BY <2>1
      <3> HIDE DEF b, parts, rows, h
      <3>3. \E n \in 0..Len(parts) :
                c = Picked(rows, FlattenSeq(SubSeq(parts, 1, n)))
        BY <3>2
      <3> QED
        BY <2>2, <2>3, <3>1, <3>3 DEF Progress
    <2> QED
      BY <2>4, <2>5
  <1>10. Agreed'
    <2>1. \A v, w \in Workers : mode # "validate" => count[v] = count[w]
      BY <1>1, <1>2 DEF Agreed
    <2> QED
      BY <1>2, <2>1 DEF Agreed
  <1>11. (Settled /\ (\A v \in Workers : Progress(v)) /\ Agreed)'
    BY <1>8, <1>9, <1>10
  <1> QED
    BY <1>11 DEF IInv, Settled

-----------------------------------------------------------------------------
(* Steps of the driver.                                                    *)

\* A batch has a row.
LEMMA NotEmpty ==
    ASSUME Types
    PROVE  batch # <<>> /\ Len(batch) \in Nat \ {0} /\ DOMAIN batch = 1..Len(batch)
  <1>1. Len(batch) \in Nat /\ DOMAIN batch = 1..Len(batch)
    BY LenProperties DEF Types
  <1>2. Len(batch) # 0
    <2>1. size \in Nat \ {0} /\ size <= Len(batch)
      BY DEF Types
    <2> QED
      BY <2>1
  <1> QED
    BY <1>1, <1>2, EmptySeq

\* Dispatching keeps the invariant: every worker gets the chunk of its
\* rank.
LEMMA DispatchKeeps ==
    ASSUME IInv, Dispatch
    PROVE  IInv'
  <1>0. Width' = Width /\ Copies' = Copies /\ Workers' = Workers /\ Ranks' = Ranks
    BY ShapeStays DEF SameWorkers, Dispatch
  <1> USE <1>0
  <1>1. /\ Types /\ Dispatched /\ BalancedBatch /\ GroupedBatch
        /\ (\A v \in Workers : Progress(v))
    BY DEF IInv
  <1>2. /\ phase = "dispatch" /\ Len(batch) % Width = 0
        /\ chunk' = [w \in Workers |-> ChunkOf(DpRank(w))]
        /\ stage' = [w \in Workers |-> IF mode = "validate" THEN "generate"
                                       ELSE "count"]
        /\ phase' = "wait"
        /\ UNCHANGED <<mode, layout, batch, size, count, order, computed,
                       results>>
    BY DEF Dispatch
  <1>3. ASSUME NEW w \in Workers
        PROVE  /\ chunk'[w] = ChunkOf(DpRank(w))
               /\ chunk'[w] \in Seq(Row) /\ chunk'[w] # <<>>
    <2> DEFINE a == DpRank(w)
               n == Len(batch) \div Width
    <2>1. a \in Ranks
      BY <1>1, AllCollect DEF Types, Collects
    <2>2. Divisible(batch)
      BY <1>1, <1>2, NotEmpty DEF Divisible, Types
    <2>3. n \in Nat \ {0}
      BY <2>2, ChunkSize
    <2> HIDE DEF a
    <2>4. ChunkOf(a) = ChunkAt(batch, a)
      BY <2>1, ChunkOfIs
    <2>5. Cut(ChunkAt(batch, a), batch, Row, n, a * n)
      BY <2>1, <2>2, ChunkIs
    <2>6. ChunkOf(a) \in Seq(Row) /\ Len(ChunkOf(a)) = n
      BY <2>4, <2>5 DEF Cut
    <2>7. ChunkOf(a) # <<>>
      BY <2>3, <2>6, EmptySeq
    <2> QED
      BY <1>2, <2>6, <2>7 DEF a
  <1>4. Types'
    BY <1>1, <1>2, <1>3 DEF Types, Stages
  <1>5. Unprepared'
    BY <1>2 DEF Unprepared
  <1>6. Dispatched'
    <2>1. \A w \in Workers : chunk'[w] = ChunkOf(DpRank(w))'
      BY <1>2 DEF ChunkOf, DpRank
    <2>2. \A w \in Workers : chunk'[w] # <<>>
      BY <1>3
    <2> QED
      BY <1>2, <2>1, <2>2 DEF Dispatched
  <1>7. ASSUME NEW v \in Workers PROVE Progress(v)'
    <2>1. computed[v] = <<>> /\ (mode = "validate" => order[v] = <<>>)
      BY <1>1, <1>2 DEF Dispatched, Progress, Idle
    <2>2. stage'[v] = IF mode = "validate" THEN "generate" ELSE "count"
      BY <1>2
    <2> QED
      BY <1>2, <2>1, <2>2 DEF Progress
  <1>8. Agreed'
    <2>1. \A v \in Workers : stage'[v] \in {"generate", "count"}
      BY <1>2
    <2> QED
      BY <2>1 DEF Agreed
  <1>9. BalancedBatch'
    BY <1>1, <1>2 DEF BalancedBatch, ChunkOf
  <1>10. GroupedBatch'
    <2>1. \A a \in Ranks : ChunkOf(a)' = ChunkOf(a)
      BY <1>2 DEF ChunkOf
    <2>2. \A a, b \in Ranks :
            \A i \in DOMAIN ChunkOf(a), j \in DOMAIN ChunkOf(b) :
                mode = "grouped" /\ phase # "prepare"
                /\ Uid(ChunkOf(a)[i]) = Uid(ChunkOf(b)[j]) => a = b
      BY <1>1 DEF GroupedBatch
    <2>3. phase # "prepare" /\ mode' = mode
      BY <1>2
    <2> QED
      BY <1>2, <2>1, <2>2, <2>3, GroupsStay
  <1>11. ResultsMatch'
    BY <1>2 DEF ResultsMatch
  <1> QED
    BY <1>4, <1>5, <1>6, <1>7, <1>8, <1>9, <1>10, <1>11 DEF IInv

\* What pad_dataproto_to_divisor returns.
LEMMA PaddedIs ==
    ASSUME batch \in Seq(Row), batch # <<>>, NEW d \in Nat \ {0}
    PROVE  Padded(d) \in Seq(Row) /\ Len(Padded(d)) >= Len(batch)
  <1> DEFINE N == Len(batch)
             pad == (d - (N % d)) % d
             more == [i \in 1..pad |-> batch[((i - 1) % N) + 1]]
  <1>1. N \in Nat \ {0} /\ \A i \in 1..N : batch[i] \in Row
    BY LenProperties, EmptySeq, ElementOfSeq
  <1> HIDE DEF N
  <1>2. pad \in Nat
    <2> DEFINE m == N % d
               e == d - m
    <2>1. m \in 0..(d - 1)
      BY <1>1, DivMod
    <2> HIDE DEF m
    <2>2. e \in Nat
      BY <2>1
    <2> HIDE DEF e
    <2>3. e % d \in Nat
      BY <2>2, DivMod
    <2> QED
      BY <2>3 DEF e, m
  <1> HIDE DEF pad
  <1>3. \A i \in 1..pad : ((i - 1) % N) + 1 \in 1..N
    <2> SUFFICES ASSUME NEW i \in 1..pad PROVE ((i - 1) % N) + 1 \in 1..N
      OBVIOUS
    <2> DEFINE h == i - 1
    <2>1. h \in Nat
      BY <1>2
    <2> HIDE DEF h
    <2>2. h % N \in 0..(N - 1)
      BY <1>1, <2>1, DivMod
    <2>3. (h % N) + 1 \in 1..N
      BY <1>1, <2>2
    <2> QED
      BY <2>3 DEF h
  <1>4. more \in [1..pad -> Row]
    BY <1>1, <1>3
  <1> HIDE DEF more
  <1>5. more \in Seq(Row) /\ Len(more) = pad
    BY <1>2, <1>4, FunctionIsSeq
  <1> DEFINE t == batch \o more
  <1>6. t \in Seq(Row) /\ Len(t) = Len(batch) + Len(more)
    BY <1>5, ConcatProperties
  <1> HIDE DEF t
  <1>7. t \in Seq(Row) /\ Len(t) >= N
    BY <1>1, <1>2, <1>5, <1>6 DEF N
  <1>8. Padded(d) = t
    BY DEF Padded, t, more, pad, N
  <1> QED
    BY <1>7, <1>8 DEF N

\* Every row of the batch has its work.
LEMMA WorkIs ==
    ASSUME batch \in Seq(Row), batch # <<>>
    PROVE  Len(Work) = Len(batch) /\ Valued(Work, 1..Len(batch))
  <1> DEFINE N == Len(batch)
             w == Work
  <1>1. /\ N \in Nat \ {0} /\ DOMAIN batch = 1..N
        /\ \A i \in 1..N : batch[i] \in Row
    BY LenProperties, EmptySeq, ElementOfSeq
  <1>2. w = [i \in 1..N |-> Workload(batch[i].len)]
    BY <1>1 DEF Work
  <1>3. \A i \in 1..N : Workload(batch[i].len) \in Nat
    BY <1>1, RowFacts
  <1> HIDE DEF w, N
  <1>4. w \in [1..N -> Nat]
    BY <1>2, <1>3
  <1>5. Len(w) = N
    BY <1>1, <1>4, FunctionIsSeq
  <1>6. Valued(w, 1..N)
    BY <1>4 DEF Valued
  <1> QED
    BY <1>5, <1>6 DEF w, N

\* _balance_batch, row by row.
LEMMA BalancedIs ==
    ASSUME Types, mode = "balanced", Len(batch) % Width = 0
    PROVE  /\ Divisible(Reordered) /\ Len(Reordered) = Len(batch)
           /\ LevelChunks(Reordered)
  <1> DEFINE N == Len(batch)
             p == BalancedPartitions(Work, Width, TRUE)
             parts == [j \in DOMAIN p |-> LongestInMiddle(Work, p[j])]
             idx == FlattenSeq(parts)
             new == Reordered
  <1>0. Width = DpSize
    BY Sizes
  <1>1. batch \in Seq(Row) /\ batch # <<>> /\ N \in Nat \ {0}
    BY NotEmpty DEF Types
  <1>2. Given(Work, N, Width, TRUE)
    BY <1>1, WorkIs, Sizes DEF Given
  <1> HIDE DEF N
  <1>3. Parted(p, Work, Width, N, TRUE)
    BY <1>2, BalancedParts
  <1> HIDE DEF p
  <1>4. Parted(parts, Work, Width, N, TRUE)
    BY <1>2, <1>3, MiddleParts
  <1>5. new = [i \in 1..Len(idx) |-> batch[idx[i]]]
    BY <1>0 DEF Reordered, p
  <1> HIDE DEF parts, idx, new
  <1>6. /\ Parts(parts, Width, N) /\ Equal(parts, Width)
        /\ Level(parts, Work, Width, N)
    BY <1>4 DEF Parted
  <1>7. Moved(new, batch, parts)
    BY <1>1, <1>5, <1>6, PartsMove DEF idx, N
  <1>8. LevelChunks(new)
    <2>1. Work = [i \in DOMAIN batch |-> Workload(batch[i].len)]
      BY DEF Work
    <2> QED
      BY <1>1, <1>6, <1>7, <2>1, PartsLevel DEF N
  <1> QED
    BY <1>7, <1>8 DEF Moved, new

\* _balance_batch, group by group.
LEMMA GroupedIs ==
    ASSUME Types, mode = "grouped", Len(batch) % (Width * GroupSize) = 0,
           \A i \in 1..Len(batch) : batch[i].sample = i
    PROVE  /\ Divisible(Reordered) /\ Len(Reordered) = Len(batch)
           /\ GroupedChunks(Reordered)
  <1> DEFINE N == Len(batch)
             parts == GroupPartitions(Work, GroupSize, Width)
             idx == FlattenSeq(parts)
             new == Reordered
  <1>0. Width = DpSize
    BY Sizes
  <1>1. batch \in Seq(Row) /\ batch # <<>> /\ N \in Nat \ {0}
    BY NotEmpty DEF Types
  <1>2. Len(Work) = N /\ Valued(Work, 1..N) /\ N % (Width * GroupSize) = 0
    BY <1>1, WorkIs
  <1> HIDE DEF N
  <1>3. Grouped(parts, GroupSize, Width, N)
    BY <1>1, <1>2, GroupParts, Sizes
  <1>4. new = [i \in 1..Len(idx) |-> batch[idx[i]]]
    BY <1>0 DEF Reordered
  <1> HIDE DEF parts, idx, new
  <1>5. Parts(parts, Width, N) /\ Equal(parts, Width)
    BY <1>3 DEF Grouped
  <1>6. Moved(new, batch, parts)
    BY <1>1, <1>4, <1>5, PartsMove DEF idx, N
  <1>7. GroupedChunks(new)
    BY <1>1, <1>3, <1>6, PartsGroup DEF N
  <1> QED
    BY <1>6, <1>7 DEF Moved, new

\* Balancing or padding keeps the invariant.
LEMMA PrepareKeeps ==
    ASSUME IInv, Prepare
    PROVE  IInv'
  <1>0. Width' = Width /\ Copies' = Copies /\ Workers' = Workers /\ Ranks' = Ranks
    BY ShapeStays DEF SameWorkers, Prepare
  <1> USE <1>0
  <1>1. /\ Types /\ Unprepared /\ Dispatched /\ Agreed
        /\ (\A v \in Workers : Progress(v))
    BY DEF IInv
  <1>2. /\ phase = "prepare" /\ phase' = "dispatch"
        /\ UNCHANGED <<mode, layout, size, chunk, stage, count, order,
                       computed, results>>
    BY DEF Prepare
  <1>3. batch \in Seq(Row) /\ batch # <<>> /\ mode \in Modes
        /\ Len(batch) \in Nat \ {0}
    BY <1>1, NotEmpty DEF Types
  <1>4. size = Len(batch) /\ \A i \in 1..Len(batch) : batch[i].sample = i
    BY <1>1, <1>2 DEF Unprepared
  <1>5. mode # "validate" =>
            Len(batch) % (Width * GroupSize) = 0 /\ Len(batch) % Width = 0
    <2> SUFFICES ASSUME mode # "validate"
                 PROVE  /\ Len(batch) % (Width * GroupSize) = 0
                        /\ Len(batch) % Width = 0
      OBVIOUS
    <2> DEFINE N == Len(batch)
               c == Width * GroupSize
    <2>1. N % c = 0
      BY <1>1, <1>2, Sizes DEF Unprepared
    <2> HIDE DEF N, c
    <2>2. Factors(N, Width, GroupSize)
      BY <1>3, <2>1, Sizes, DivFactors DEF N, c
    <2>3. N % Width = 0
      BY <2>2 DEF Factors
    <2> QED
      BY <2>1, <2>3 DEF N, c
  <1> DEFINE new == batch'
  <1>6. /\ mode = "plain" => new = batch
        /\ mode = "validate" => new = Padded(AgentWorkers)
        /\ mode \in {"balanced", "grouped"} => new = Reordered
    BY DEF Prepare
  <1>7. /\ new \in Seq(Row) /\ Len(new) >= Len(batch)
        /\ mode # "validate" => Len(new) = Len(batch)
    <2>1. CASE mode = "plain"
      BY <1>3, <1>6, <2>1
    <2>2. CASE mode = "validate"
      <3>1. AgentWorkers \in Nat \ {0}
        BY Sizes
      <3> QED
        BY <1>3, <1>6, <2>2, <3>1, PaddedIs
    <2>3. CASE mode = "balanced"
      BY <1>1, <1>3, <1>5, <1>6, <2>3, BalancedIs DEF Divisible
    <2>4. CASE mode = "grouped"
      BY <1>1, <1>3, <1>4, <1>5, <1>6, <2>4, GroupedIs DEF Divisible
    <2> QED
      BY <1>3, <2>1, <2>2, <2>3, <2>4 DEF Modes
  <1>8. Types'
    BY <1>1, <1>2, <1>3, <1>4, <1>7 DEF Types
  <1>9. Unprepared'
    BY <1>2 DEF Unprepared
  <1>10. Dispatched'
    BY <1>1, <1>2 DEF Dispatched, Idle
  <1>11. ASSUME NEW v \in Workers PROVE Progress(v)'
    BY <1>1, <1>2, Waiting
  <1>12. Agreed'
    BY <1>1, <1>2 DEF Agreed
  <1>13. \A a \in Ranks : ChunkOf(a)' = ChunkAt(new, a)
    <2>1. \A a \in Ranks : (a + 1) - 1 = a
      BY Sizes DEF Ranks
    <2> QED
      BY <2>1 DEF ChunkOf, ChunkAt, Slice
  <1>14. BalancedBatch'
    <2> SUFFICES ASSUME mode = "balanced" PROVE BalancedBatch'
      BY <1>2 DEF BalancedBatch
    <2>1. LevelChunks(new)
      BY <1>1, <1>5, <1>6, BalancedIs
    <2> QED
      BY <1>13, <2>1 DEF LevelChunks, BalancedBatch
  <1>15. GroupedBatch'
    <2> SUFFICES ASSUME mode = "grouped" PROVE GroupedBatch'
      BY <1>2 DEF GroupedBatch
    <2>1. GroupedChunks(new)
      BY <1>1, <1>4, <1>5, <1>6, GroupedIs
    <2> HIDE DEF new
    <2> QED
      BY <1>2, <1>13, <2>1, GroupsStay DEF GroupedChunks
  <1>16. ResultsMatch'
    BY <1>2 DEF ResultsMatch
  <1> QED
    BY <1>8, <1>9, <1>10, <1>11, <1>12, <1>14, <1>15, <1>16 DEF IInv

\* The first rows have the first samples.
LEMMA FirstSamples ==
    ASSUME NEW rows \in Seq(Row), NEW c \in 0..Len(rows)
    PROVE  Samples(SubSeq(rows, 1, c)) = SubSeq(Samples(rows), 1, c)
  <1> DEFINE front == SubSeq(rows, 1, c)
             s == Samples(rows)
             t == Samples(front)
             u == SubSeq(s, 1, c)
  <1>1. /\ front \in Seq(Row) /\ Len(front) = c
        /\ \A i \in 1..c : front[i] = rows[i]
    BY PrefixIs
  <1>2. /\ s \in Seq(Nat) /\ Len(s) = Len(rows)
        /\ \A i \in 1..Len(rows) : s[i] = rows[i].sample
    BY SamplesAre
  <1> HIDE DEF front
  <1>3. /\ t \in Seq(Nat) /\ Len(t) = c
        /\ \A i \in 1..c : t[i] = front[i].sample
    BY <1>1, SamplesAre
  <1> HIDE DEF s, t
  <1>4. c \in 0..Len(s)
    BY <1>2
  <1>5. /\ u \in Seq(Nat) /\ Len(u) = c
        /\ \A i \in 1..c : u[i] = s[i]
    BY <1>2, <1>4, PrefixIs
  <1> HIDE DEF u
  <1>6. \A i \in 1..c : i \in 1..Len(rows)
    BY LenProperties
  <1>7. \A i \in 1..Len(t) : t[i] = u[i]
    BY <1>1, <1>2, <1>3, <1>5, <1>6
  <1>8. t = u
    BY <1>3, <1>5, <1>7, SeqEqual
  <1> QED
    BY <1>8 DEF front, s, t, u

\* Collecting keeps the invariant: the results are those of the batch.
LEMMA CollectKeeps ==
    ASSUME IInv, Collect
    PROVE  IInv'
  <1>0. Width' = Width /\ Copies' = Copies /\ Workers' = Workers /\ Ranks' = Ranks
    BY ShapeStays DEF SameWorkers, Collect
  <1> USE <1>0
  <1>1. /\ Types /\ Dispatched /\ BalancedBatch /\ GroupedBatch /\ Agreed
        /\ (\A v \in Workers : Progress(v))
    BY DEF IInv
  <1>2. /\ phase = "wait" /\ \A w \in Workers : stage[w] = "returned"
        /\ results' = Unpadded(Collected)
        /\ batch' = SubSeq(batch, 1, size)
        /\ phase' = "done"
        /\ UNCHANGED <<mode, layout, size, chunk, stage, count, order,
                       computed>>
    BY DEF Collect
  <1>3. batch \in Seq(Row) /\ batch # <<>> /\ Len(batch) \in Nat
        /\ size \in 0..Len(batch) /\ size \in Nat \ {0}
    BY <1>1, NotEmpty DEF Types
  <1>4. batch' \in Seq(Row) /\ Len(batch') = size
    BY <1>2, <1>3, PrefixIs
  <1>5. mode # "validate" => batch' = batch
    BY <1>1, <1>2, <1>3, SubSeqFull DEF Types
  <1>6. Types'
    BY <1>1, <1>2, <1>3, <1>4 DEF Types
  <1>7. Unprepared'
    BY <1>2 DEF Unprepared
  <1>8. Dispatched'
    <2>1. mode # "validate" =>
            /\ Len(batch') % Width = 0
            /\ \A w \in Workers : chunk'[w] = ChunkOf(DpRank(w))'
      BY <1>1, <1>2, <1>5 DEF Dispatched, ChunkOf, DpRank
    <2> QED
      BY <1>1, <1>2, <2>1 DEF Dispatched
  <1>9. ASSUME NEW v \in Workers PROVE Progress(v)'
    BY <1>1, <1>2, Waiting
  <1>10. Agreed'
    BY <1>1, <1>2 DEF Agreed
  <1>11. BalancedBatch'
    BY <1>1, <1>2, <1>5, ZenonT(60) DEF BalancedBatch, ChunkOf
  <1>12. GroupedBatch'
    <2> SUFFICES ASSUME mode = "grouped" PROVE GroupedBatch'
      BY <1>2 DEF GroupedBatch
    <2>1. \A a \in Ranks : ChunkOf(a)' = ChunkOf(a)
      BY <1>5 DEF ChunkOf
    <2>2. \A a, b \in Ranks :
            \A i \in DOMAIN ChunkOf(a), j \in DOMAIN ChunkOf(b) :
                Uid(ChunkOf(a)[i]) = Uid(ChunkOf(b)[j]) => a = b
      BY <1>1, <1>2 DEF GroupedBatch
    <2> QED
      BY <1>2, <2>1, <2>2, GroupsStay
  <1>13. ResultsMatch'
    <2>1. Divisible(batch)
      BY <1>1, <1>2, <1>3 DEF Divisible, Dispatched
    <2>2. \A w \in Workers : computed[w] = Samples(ChunkAt(batch, DpRank(w)))
      <3> SUFFICES ASSUME NEW w \in Workers
                   PROVE  computed[w] = Samples(ChunkAt(batch, DpRank(w)))
        OBVIOUS
      <3>1. DpRank(w) \in Ranks
        BY <1>1, AllCollect DEF Types, Collects
      <3>2. chunk[w] = ChunkOf(DpRank(w)) /\ computed[w] = Samples(chunk[w])
        BY <1>1, <1>2 DEF Dispatched, Progress
      <3>3. ChunkOf(DpRank(w)) = ChunkAt(batch, DpRank(w))
        BY <3>1, ChunkOfIs
      <3> QED
        BY <3>2, <3>3
    <2>3. Collected = Samples(batch)
      BY <1>1, <2>1, <2>2, CollectedIs DEF Types
    <2>4. Len(Samples(batch)) = Len(batch)
      BY <1>3, SamplesAre
    <2>5. Len(batch) - (Len(batch) - size) = size
      BY <1>3
    <2>6. results' = SubSeq(Samples(batch), 1, size)
      BY <1>2, <2>3, <2>4, <2>5 DEF Unpadded
    <2>7. Samples(SubSeq(batch, 1, size)) = SubSeq(Samples(batch), 1, size)
      BY <1>3, FirstSamples
    <2>8. results' = Samples(batch')
      BY <1>2, <2>6, <2>7
    <2>9. Samples(batch') = Samples(batch)'
      BY DEF Samples
    <2> QED
      BY <2>8, <2>9 DEF ResultsMatch
  <1> QED
    BY <1>6, <1>7, <1>8, <1>9, <1>10, <1>11, <1>12, <1>13 DEF IInv

-----------------------------------------------------------------------------
(* The theorems.                                                           *)

\* The invariant holds in the beginning.
LEMMA InitHolds == Init => IInv
  <1> SUFFICES ASSUME Init PROVE IInv
    OBVIOUS
  <1> DEFINE sizes == IF mode = "validate" THEN ValSizes ELSE BatchSizes
  <1>1. PICK lens \in Batches(sizes) :
            /\ batch = [i \in DOMAIN lens |-> [sample |-> i, len |-> lens[i]]]
            /\ size = Len(lens)
    BY DEF Init
  <1>2. PICK n \in sizes : lens \in [1..n -> 1..MaxSeqlen]
    BY <1>1 DEF Batches
  <1>3. n \in Nat \ {0} /\ (mode # "validate" => n \in BatchSizes)
    BY Sizes
  <1>4. Len(lens) = n /\ DOMAIN lens = 1..n
    BY <1>2, <1>3, FunctionIsSeq
  <1>5. batch = [i \in 1..n |-> [sample |-> i, len |-> lens[i]]] /\ size = n
    BY <1>1, <1>4
  <1>6. batch \in [1..n -> Row]
    BY <1>2, <1>3, <1>5 DEF Row
  <1>7. batch \in Seq(Row) /\ Len(batch) = n
    BY <1>3, <1>6, FunctionIsSeq
  <1>8. \A i \in 1..n : batch[i].sample = i
    BY <1>5
  <1>9. \A w \in Workers :
            /\ chunk[w] = <<>> /\ stage[w] = "idle" /\ count[w] = 0
            /\ order[w] = <<>> /\ computed[w] = <<>>
    BY DEF Init
  <1>10. Types
    <2>1. mode \in Modes /\ layout \in {"dp_outer", "dp_inner"}
          /\ phase \in {"prepare", "dispatch", "wait", "done"}
      BY DEF Init
    <2>2. <<>> \in Seq(Row) /\ <<>> \in Seq(Seq(Nat)) /\ <<>> \in Seq(Nat)
      BY EmptySeq
    <2>3. /\ chunk \in [Workers -> Seq(Row)] /\ stage \in [Workers -> Stages]
          /\ count \in [Workers -> Nat]
          /\ order \in [Workers -> Seq(Seq(Nat))]
          /\ computed \in [Workers -> Seq(Nat)]
      BY <2>2 DEF Init, Stages
    <2>4. size \in Nat \ {0} /\ size = Len(batch) /\ size <= Len(batch)
      BY <1>3, <1>5, <1>7
    <2> QED
      BY <1>7, <2>1, <2>3, <2>4 DEF Types
  <1>11. Unprepared
    BY <1>3, <1>5, <1>7, <1>8 DEF Unprepared
  <1>12. phase = "prepare"
    BY DEF Init
  <1>13. Dispatched
    BY <1>9, <1>12 DEF Dispatched, Idle
  <1>14. \A w \in Workers : Progress(w)
    BY <1>9 DEF Progress
  <1>15. Agreed
    BY <1>9 DEF Agreed
  <1> QED
    BY <1>10, <1>11, <1>12, <1>13, <1>14, <1>15
       DEF IInv, BalancedBatch, GroupedBatch, ResultsMatch

\* Nothing happens.
LEMMA StutterKeeps ==
    ASSUME IInv, UNCHANGED vars
    PROVE  IInv'
  <1>0. Width' = Width /\ Copies' = Copies /\ Workers' = Workers /\ Ranks' = Ranks
    BY ShapeStays DEF SameWorkers, vars
  <1> USE <1>0
  <1>1. /\ mode' = mode /\ layout' = layout /\ batch' = batch /\ size' = size
        /\ phase' = phase /\ chunk' = chunk /\ stage' = stage
        /\ count' = count /\ order' = order /\ computed' = computed
        /\ results' = results
    BY DEF vars
  <1>2. Types' /\ Unprepared'
    BY <1>1 DEF IInv, Types, Unprepared
  <1>3. Dispatched'
    BY <1>1 DEF IInv, Dispatched, Idle, ChunkOf, DpRank
  <1>4. \A w \in Workers : Progress(w)'
    BY <1>1, Waiting DEF IInv
  <1>5. Agreed'
    BY <1>1 DEF IInv, Agreed
  <1>6. BalancedBatch'
    BY <1>1 DEF IInv, BalancedBatch, ChunkOf
  <1>7. GroupedBatch'
    <2>1. \A a \in Ranks : ChunkOf(a)' = ChunkOf(a)
      BY <1>1 DEF ChunkOf
    <2>2. \A a, b \in Ranks :
            \A i \in DOMAIN ChunkOf(a), j \in DOMAIN ChunkOf(b) :
                mode = "grouped" /\ phase # "prepare"
                /\ Uid(ChunkOf(a)[i]) = Uid(ChunkOf(b)[j]) => a = b
      BY DEF IInv, GroupedBatch
    <2> QED
      BY <1>1, <2>1, <2>2, GroupsStay
  <1>8. ResultsMatch'
    BY <1>1 DEF IInv, ResultsMatch, Samples
  <1> QED
    BY <1>2, <1>3, <1>4, <1>5, <1>6, <1>7, <1>8 DEF IInv

\* Every step keeps the invariant.
LEMMA NextKeeps ==
    ASSUME IInv, [Next]_vars
    PROVE  IInv'
  <1>1. CASE Prepare BY <1>1, PrepareKeeps
  <1>2. CASE Dispatch BY <1>2, DispatchKeeps
  <1>3. CASE Collect BY <1>3, CollectKeeps
  <1>4. CASE AllReduce BY <1>4, AllReduceKeeps
  <1>5. CASE Forward BY <1>5, ForwardKeeps
  <1>6. CASE UNCHANGED vars BY <1>6, StutterKeeps
  <1>7. ASSUME NEW w \in Workers, Worker(w) PROVE IInv'
    <2>1. CASE Generate(w) BY <2>1, GenerateKeeps
    <2>2. CASE CountMicroBatches(w) BY <2>2, CountKeeps
    <2>3. CASE Split(w) BY <2>3, SplitKeeps
    <2>4. CASE RestoreOrder(w) BY <2>4, RestoreKeeps
    <2> QED
      BY <1>7, <2>1, <2>2, <2>3, <2>4 DEF Worker
  <1> QED
    BY <1>1, <1>2, <1>3, <1>4, <1>5, <1>6, <1>7 DEF Next, Over

\* The invariant holds: of how the driver cuts the batch, of what each
\* worker has computed, and of the parts that the balancing makes.
THEOREM BatchInvariant == Spec => []IInv
  <1>1. Init => IInv
    BY InitHolds
  <1>2. IInv /\ [Next]_vars => IInv'
    BY NextKeeps
  <1> QED
    BY <1>1, <1>2, PTL DEF Spec

\* When the results are joined to the batch, every row gets the one that
\* was computed for it, however the batch was padded, balanced, chunked,
\* split into micro-batches and collected.
THEOREM BatchResultsMatch == Spec => []ResultsMatch
  <1>1. IInv => ResultsMatch
    BY DEF IInv
  <1> QED
    BY <1>1, BatchInvariant, PTL

\* Workers that have split their rows have as many micro-batches.
LEMMA StepsTogether == IInv => LockStep
  <1> SUFFICES ASSUME IInv, NEW v \in Workers, NEW w \in Workers,
                      {stage[v], stage[w]}
                            \subseteq {"forward", "restore", "returned"}
               PROVE  Len(order[v]) = Len(order[w])
    BY DEF LockStep
  <1>1. CASE mode = "validate"
    BY <1>1 DEF IInv, Progress
  <1>2. CASE mode # "validate"
    <2>1. Len(order[v]) = count[v] /\ Len(order[w]) = count[w]
      BY <1>2 DEF IInv, Progress
    <2>2. count[v] = count[w]
      BY <1>2 DEF IInv, Agreed
    <2> QED
      BY <2>1, <2>2
  <1> QED
    BY <1>1, <1>2

\* No worker is left waiting in a forward pass that another does not make
\* (prepare_dynamic_batch with same_micro_num_in_dp).
THEOREM BatchLockStep == Spec => []LockStep
  <1> QED
    BY StepsTogether, BatchInvariant, PTL

\* A worker has no rows yet or those of its rank.
LEMMA ChunksAre ==
    ASSUME IInv, mode # "validate", NEW w \in Workers
    PROVE  /\ DpRank(w) \in Ranks
           /\ phase \notin {"wait", "done"} => chunk[w] = <<>>
           /\ phase \in {"wait", "done"} => chunk[w] = ChunkOf(DpRank(w))
  <1>1. DpRank(w) \in Ranks
    BY AllCollect DEF IInv, Types, Collects
  <1>2. phase \in {"prepare", "dispatch", "wait", "done"}
    BY DEF IInv, Types
  <1> QED
    BY <1>1, <1>2 DEF IInv, Dispatched, Idle

\* Chunks of whole groups keep groups together.
LEMMA GroupsAre == IInv => GroupsStayTogether
  <1> SUFFICES ASSUME IInv, mode = "grouped",
                      NEW v \in Workers, NEW w \in Workers,
                      NEW i \in DOMAIN chunk[v], NEW j \in DOMAIN chunk[w],
                      Uid(chunk[v][i]) = Uid(chunk[w][j])
               PROVE  DpRank(v) = DpRank(w)
    BY DEF GroupsStayTogether
  <1>1. CASE phase \in {"wait", "done"}
    <2>1. /\ DpRank(v) \in Ranks /\ DpRank(w) \in Ranks
          /\ chunk[v] = ChunkOf(DpRank(v)) /\ chunk[w] = ChunkOf(DpRank(w))
      BY <1>1, ChunksAre
    <2> DEFINE a == DpRank(v)
               b == DpRank(w)
    <2>2. \A c, d \in Ranks :
            \A m \in DOMAIN ChunkOf(c), n \in DOMAIN ChunkOf(d) :
                Uid(ChunkOf(c)[m]) = Uid(ChunkOf(d)[n]) => c = d
      BY <1>1 DEF IInv, GroupedBatch
    <2>3. /\ a \in Ranks /\ b \in Ranks
          /\ i \in DOMAIN ChunkOf(a) /\ j \in DOMAIN ChunkOf(b)
          /\ Uid(ChunkOf(a)[i]) = Uid(ChunkOf(b)[j])
      BY <2>1
    <2> HIDE DEF a, b
    <2>4. a = b
      BY <2>2, <2>3
    <2> QED
      BY <2>4 DEF a, b
  <1>2. CASE phase \notin {"wait", "done"}
    <2>1. chunk[v] = <<>>
      BY <1>2, ChunksAre
    <2> QED
      BY <2>1
  <1> QED
    BY <1>1, <1>2

\* Rows of one uid reach the same rank when they are balanced as a group
\* (get_group_balanced_partitions).
THEOREM BatchGroupsStayTogether == Spec => []GroupsStayTogether
  <1> QED
    BY GroupsAre, BatchInvariant, PTL

\* Level chunks are well balanced.
LEMMA WorkIsLevel == IInv => WellBalanced
  <1> SUFFICES ASSUME IInv, mode = "balanced",
                      NEW v \in Workers, NEW w \in Workers
               PROVE  \E i, j \in DOMAIN batch :
                        ChunkWork(v) - ChunkWork(w)
                            <= Workload(batch[i].len) - Workload(batch[j].len)
    BY DEF WellBalanced
  <1>1. ChunkWork(v) = RowsWork(chunk[v]) /\ ChunkWork(w) = RowsWork(chunk[w])
    BY DEF ChunkWork, RowsWork
  <1>2. Len(batch) \in Nat \ {0} /\ DOMAIN batch = 1..Len(batch)
        /\ batch \in Seq(Row)
    BY NotEmpty DEF IInv, Types
  <1>3. CASE phase \in {"wait", "done"}
    <2> DEFINE a == DpRank(v)
               b == DpRank(w)
    <2>1. /\ a \in Ranks /\ b \in Ranks
          /\ chunk[v] = ChunkOf(a) /\ chunk[w] = ChunkOf(b)
      BY <1>3, ChunksAre
    <2> HIDE DEF a, b
    <2>2. PICK i, j \in 1..Len(batch) : \A c, d \in Ranks :
            RowsWork(ChunkOf(c)) - RowsWork(ChunkOf(d))
                <= Workload(batch[i].len) - Workload(batch[j].len)
      BY <1>3 DEF IInv, BalancedBatch
    <2> QED
      BY <1>1, <1>2, <2>1, <2>2
  <1>4. CASE phase \notin {"wait", "done"}
    <2>1. chunk[v] = <<>> /\ chunk[w] = <<>>
      BY <1>4, ChunksAre
    <2>2. RowsWork(<<>>) \in Int
      <3>1. UpTo(0) = <<>>
        <4>1. UpTo(0) \in Seq(1..0) /\ Len(UpTo(0)) = 0
          BY UpToIs
        <4> QED
          BY <4>1, EmptySeq
      <3>2. Len(<<>>) = 0
        BY EmptySeq
      <3> QED
        BY <3>1, <3>2, TotalEmpty DEF RowsWork
    <2>3. 1 \in DOMAIN batch /\ batch[1] \in Row
      BY <1>2, ElementOfSeq
    <2>4. Workload(batch[1].len) \in Nat
      BY <2>3, RowFacts
    <2>5. ChunkWork(v) - ChunkWork(w)
            <= Workload(batch[1].len) - Workload(batch[1].len)
      BY <1>1, <2>1, <2>2, <2>4
    <2> QED
      BY <2>3, <2>5
  <1> QED
    BY <1>3, <1>4

\* The largest differencing method with parts of equal size leaves no two
\* ranks further apart than the longest row is from the shortest, for any
\* number of ranks and any lengths.
THEOREM BatchWellBalanced == Spec => []WellBalanced
  <1> QED
    BY WorkIsLevel, BatchInvariant, PTL
=============================================================================
