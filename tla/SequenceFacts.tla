--------------------------- MODULE SequenceFacts ---------------------------
(***************************************************************************)
(* Facts about numbers, recursive functions and sequences that the proofs  *)
(* of this project rest on: induction over the numbers, stated of a set of *)
(* numbers so that it holds by the well-foundedness of <; that a function  *)
(* defined by recursion exists and is the only one; and what FlattenSeq    *)
(* returns.                                                                *)
(***************************************************************************)
EXTENDS Integers, FiniteSets, SequencesExt, SequenceTheorems,
        FiniteSetTheorems, WellFoundedInduction, TLAPS

-----------------------------------------------------------------------------
(* Numbers.                                                                *)

Smaller == {p \in Nat \X Nat : p[1] < p[2]}

LEMMA NatOrder == IsWellFoundedOn(Smaller, Nat)
  BY NatLessThanWellFounded DEF OpToRel, Smaller

LEMMA LeastNat ==
    ASSUME NEW S \in SUBSET Nat, S # {}
    PROVE  \E m \in S : \A n \in S : m <= n
  <1>1. PICK m \in S : \A n \in S : <<n, m>> \notin Smaller
    BY NatOrder, WFMin
  <1>2. \A n \in S : ~(n < m)
    BY <1>1 DEF Smaller
  <1> QED
    BY <1>2

\* What holds of 0, and of n + 1 if it holds of n, holds of every number.
LEMMA Induction ==
    ASSUME NEW S \in SUBSET Nat, 0 \in S, \A n \in S : n + 1 \in S
    PROVE  S = Nat
  <1> SUFFICES ASSUME Nat \ S # {} PROVE FALSE
    OBVIOUS
  <1>1. PICK m \in Nat \ S : \A n \in Nat \ S : m <= n
    BY LeastNat
  <1>2. m # 0 /\ m - 1 \in Nat
    OBVIOUS
  <1>3. m - 1 \in S
    BY <1>1, <1>2
  <1>4. (m - 1) + 1 = m
    OBVIOUS
  <1> QED
    BY <1>3, <1>4

\* A function on 0..N that never falls from one number to the next.
Rising(f, N) ==
    /\ \A n \in 0..N : f[n] \in Int
    /\ \A n \in 1..N : f[n - 1] <= f[n]

LEMMA RisingSteps ==
    ASSUME NEW f, NEW N \in Nat, Rising(f, N),
           NEW m \in 0..N, NEW n \in 0..N, m <= n
    PROVE  f[m] <= f[n]
  <1> USE DEF Rising
  <1> DEFINE Good == {d \in Nat : m + d <= N => f[m] <= f[m + d]}
  <1>1. 0 \in Good
    <2>1. m + 0 = m /\ f[m] \in Int
      OBVIOUS
    <2> QED
      BY <2>1
  <1>2. ASSUME NEW d \in Good PROVE d + 1 \in Good
    <2>1. CASE m + (d + 1) <= N
      <3>1. /\ m + d \in 0..N /\ m + (d + 1) \in 1..N
            /\ m + (d + 1) \in 0..N
            /\ (m + (d + 1)) - 1 = m + d
        BY <2>1
      <3>2. /\ f[m] <= f[m + d] /\ f[m + d] <= f[m + (d + 1)]
            /\ f[m] \in Int /\ f[m + d] \in Int /\ f[m + (d + 1)] \in Int
        BY <3>1
      <3>3. f[m] <= f[m + (d + 1)]
        BY <3>2
      <3> QED
        BY <3>3
    <2>2. CASE ~(m + (d + 1) <= N)
      BY <2>2
    <2> QED
      BY <2>1, <2>2
  <1>3. Good = Nat
    <2> HIDE DEF Good
    <2>1. Good \in SUBSET Nat
      BY DEF Good
    <2> QED
      BY <1>1, <1>2, <2>1, Induction
  <1>4. n - m \in Nat /\ m + (n - m) = n
    OBVIOUS
  <1>5. n - m \in Good
    BY <1>3, <1>4
  <1> QED
    BY <1>4, <1>5

\* The values of a function on 1..N have a bound.
LEMMA Bounded ==
    ASSUME NEW N \in Nat, NEW f, \A i \in 1..N : f[i] \in Nat
    PROVE  \E m \in Nat : \A i \in 1..N : f[i] <= m
  <1> DEFINE Good == {n \in Nat : n <= N =>
                        \E m \in Nat : \A i \in 1..n : f[i] <= m}
  <1>1. 0 \in Good
    <2>1. 1..0 = {} /\ 0 \in Nat
      OBVIOUS
    <2> QED
      BY <2>1
  <1>2. ASSUME NEW n \in Good PROVE n + 1 \in Good
    <2>1. CASE n + 1 <= N
      <3>1. PICK m \in Nat : \A i \in 1..n : f[i] <= m
        BY <2>1
      <3>2. n + 1 \in 1..N /\ f[n + 1] \in Nat
        BY <2>1
      <3> DEFINE b == m + f[n + 1]
      <3>3. b \in Nat
        BY <3>2
      <3>4. ASSUME NEW i \in 1..(n + 1) PROVE f[i] <= b
        <4>1. f[i] \in Nat
          BY <2>1
        <4>2. CASE i = n + 1
          BY <4>2, <3>2
        <4>3. CASE i # n + 1
          <5>1. f[i] <= m
            BY <4>3, <3>1
          <5> QED
            BY <5>1, <4>1, <3>2
        <4> QED
          BY <4>2, <4>3
      <3> HIDE DEF b
      <3> QED
        BY <3>3, <3>4
    <2>2. CASE ~(n + 1 <= N)
      BY <2>2
    <2> QED
      BY <2>1, <2>2
  <1>3. Good = Nat
    <2> HIDE DEF Good
    <2>1. Good \in SUBSET Nat
      BY DEF Good
    <2> QED
      BY <1>1, <1>2, <2>1, Induction
  <1> QED
    BY <1>3

-----------------------------------------------------------------------------
(* Recursive functions.                                                    *)

\* A first value in S, a next one for each, and the function on 0..N.
Steps(S, N, a, F) == N \in Nat /\ a \in S /\ F \in [S \X (1..N) -> S]

Runs(f, S, N, a, F) ==
    /\ f \in [0..N -> S]
    /\ f[0] = a
    /\ \A n \in 1..N : f[n] = F[<<f[n - 1], n>>]

LEMMA RecursionExists ==
    ASSUME NEW S, NEW N, NEW a, NEW F, Steps(S, N, a, F)
    PROVE  \E f : Runs(f, S, N, a, F)
  <1> USE DEF Steps
  <1> DEFINE Rec(f, k) == /\ f \in [0..k -> S]
                          /\ f[0] = a
                          /\ \A n \in 1..k : f[n] = F[<<f[n - 1], n>>]
             Good == {k \in Nat : k <= N => \E f : Rec(f, k)}
  <1>1. 0 \in Good
    <2>1. Rec([n \in 0..0 |-> a], 0)
      OBVIOUS
    <2> QED
      BY <2>1
  <1>2. ASSUME NEW k \in Good PROVE k + 1 \in Good
    <2>1. CASE k + 1 <= N
      <3>1. PICK f : Rec(f, k)
        BY <2>1
      <3>2. f[k] \in S /\ k + 1 \in 1..N
        BY <3>1, <2>1
      <3>3. <<f[k], k + 1>> \in S \X (1..N)
        BY <3>2
      <3>4. F[<<f[k], k + 1>>] \in S
        BY <3>3
      <3> DEFINE next == F[<<f[k], k + 1>>]
                 g == [n \in 0..(k + 1) |-> IF n = k + 1 THEN next ELSE f[n]]
      <3>5. next \in S
        BY <3>4
      <3>6. /\ next = F[<<f[k], k + 1>>]
            /\ \A n \in 0..k : n \in 0..(k + 1) /\ n # k + 1
            /\ k + 1 \in 0..(k + 1) /\ 0 \in 0..k
        OBVIOUS
      <3> HIDE DEF next
      <3>7. /\ g \in [0..(k + 1) -> S]
            /\ g[k + 1] = next
            /\ \A n \in 0..k : g[n] = f[n]
        <4>1. \A n \in 0..(k + 1) : n # k + 1 => n \in 0..k
          OBVIOUS
        <4>2. \A n \in 0..k : f[n] \in S
          BY <3>1
        <4>3. g \in [0..(k + 1) -> S]
          BY <3>5, <4>1, <4>2
        <4> QED
          BY <4>3, <3>6
      <3>8. ASSUME NEW n \in 1..(k + 1) PROVE g[n] = F[<<g[n - 1], n>>]
        <4>1. CASE n = k + 1
          <5>1. n - 1 = k /\ k \in 0..k
            BY <4>1
          <5> QED
            BY <4>1, <5>1, <3>6, <3>7
        <4>2. CASE n # k + 1
          <5>1. n \in 1..k /\ n \in 0..k /\ n - 1 \in 0..k
            BY <4>2
          <5>2. f[n] = F[<<f[n - 1], n>>]
            BY <5>1, <3>1
          <5> QED
            BY <5>1, <5>2, <3>7
        <4> QED
          BY <4>1, <4>2
      <3>9. g[0] = a
        BY <3>1, <3>6, <3>7
      <3> HIDE DEF g
      <3>10. Rec(g, k + 1)
        BY <3>7, <3>8, <3>9
      <3> QED
        BY <3>10
    <2>2. CASE ~(k + 1 <= N)
      BY <2>2
    <2> QED
      BY <2>1, <2>2
  <1>3. Good = Nat
    <2> HIDE DEF Good
    <2>1. Good \in SUBSET Nat
      BY DEF Good
    <2> QED
      BY <1>1, <1>2, <2>1, Induction
  <1>4. N \in Good
    BY <1>3
  <1>5. PICK f : Rec(f, N)
    BY <1>4
  <1>6. Runs(f, S, N, a, F)
    BY <1>5 DEF Runs
  <1> QED
    BY <1>6

\* Functions on 0..N that begin alike and go on alike are the same.
Alike(f, g, N) ==
    /\ f[0] = g[0]
    /\ \A n \in 1..N : f[n - 1] = g[n - 1] => f[n] = g[n]

LEMMA RecursionUnique ==
    ASSUME NEW N \in Nat, NEW f, NEW g, Alike(f, g, N)
    PROVE  \A n \in 0..N : f[n] = g[n]
  <1> USE DEF Alike
  <1> DEFINE Same == {k \in Nat : k <= N => f[k] = g[k]}
  <1>1. 0 \in Same
    OBVIOUS
  <1>2. ASSUME NEW k \in Same PROVE k + 1 \in Same
    <2>1. CASE k + 1 <= N
      <3>1. k + 1 \in 1..N /\ (k + 1) - 1 = k /\ k <= N
        BY <2>1
      <3>2. f[k] = g[k]
        BY <3>1
      <3> QED
        BY <3>1, <3>2
    <2>2. CASE ~(k + 1 <= N)
      BY <2>2
    <2> QED
      BY <2>1, <2>2
  <1>3. Same = Nat
    <2> HIDE DEF Same
    <2>1. Same \in SUBSET Nat
      BY DEF Same
    <2> QED
      BY <1>1, <1>2, <2>1, Induction
  <1> QED
    BY <1>3

-----------------------------------------------------------------------------
(* FlattenSeq.                                                             *)

\* The function that FlattenSeq defines for a sequence that is not empty.
LEMMA FlattenUnfold ==
    ASSUME NEW ss, NEW N \in Nat \ {0}, Len(ss) = N,
           \E h : h = [i \in 1..N |-> IF i = 1 THEN ss[i] ELSE h[i - 1] \o ss[i]]
    PROVE  \E h : /\ h = [i \in 1..N |-> IF i = 1 THEN ss[i]
                                         ELSE h[i - 1] \o ss[i]]
                  /\ FlattenSeq(ss) = h[N]
  BY DEF FlattenSeq

\* FlattenSeq joins the sequences from the left.
LEMMA FlattenPrefixes ==
    ASSUME NEW S, NEW ss \in Seq(Seq(S))
    PROVE  /\ FlattenSeq(SubSeq(ss, 1, 0)) = <<>>
           /\ \A k \in 0..Len(ss) : FlattenSeq(SubSeq(ss, 1, k)) \in Seq(S)
           /\ \A k \in 1..Len(ss) :
                FlattenSeq(SubSeq(ss, 1, k))
                    = FlattenSeq(SubSeq(ss, 1, k - 1)) \o ss[k]
  <1> DEFINE N == Len(ss)
             F == [p \in Seq(S) \X (1..N) |-> p[1] \o ss[p[2]]]
  <1>1. N \in Nat /\ \A n \in 1..N : ss[n] \in Seq(S)
    BY LenProperties, ElementOfSeq
  <1>2. <<>> \in Seq(S)
    BY EmptySeq
  <1>3. F \in [Seq(S) \X (1..N) -> Seq(S)]
    BY <1>1, ConcatProperties
  <1>4. \A s \in Seq(S), n \in 1..N : F[<<s, n>>] = s \o ss[n]
    OBVIOUS
  <1> HIDE DEF F, N
  <1>a. Steps(Seq(S), N, <<>>, F)
    BY <1>1, <1>2, <1>3 DEF Steps
  <1>b. \E f : Runs(f, Seq(S), N, <<>>, F)
    BY <1>a, RecursionExists, Zenon
  <1>5. PICK f \in [0..N -> Seq(S)] :
            f[0] = <<>> /\ \A n \in 1..N : f[n] = F[<<f[n - 1], n>>]
    BY <1>b DEF Runs
  <1>6. \A n \in 1..N : f[n] = f[n - 1] \o ss[n]
    <2>1. \A n \in 1..N : n - 1 \in 0..N
      BY <1>1
    <2> QED
      BY <1>4, <1>5, <2>1
  <1>7. ASSUME NEW k \in 0..N PROVE FlattenSeq(SubSeq(ss, 1, k)) = f[k]
    <2> DEFINE t == SubSeq(ss, 1, k)
    <2>1. Len(t) = k /\ \A i \in 1..k : t[i] = ss[i]
      <3>1. \A i \in 1..k : ss[i] \in Seq(S)
        BY <1>1
      <3>2. /\ Len(t) = IF 1 <= k THEN k - 1 + 1 ELSE 0
            /\ \A i \in 1..(k - 1 + 1) : t[i] = ss[1 + i - 1]
        BY <1>1, <3>1, SubSeqProperties
      <3> QED
        BY <1>1, <3>2
    <2> HIDE DEF t
    <2>2. CASE k = 0
      <3>1. Len(t) = 0
        BY <2>1, <2>2
      <3>2. FlattenSeq(t) = t
        BY <3>1 DEF FlattenSeq
      <3>3. t = <<>>
        BY <2>2, SubSeqEmpty DEF t
      <3> QED
        BY <2>2, <3>2, <3>3, <1>5 DEF t
    <2>3. CASE k # 0
      <3>1. k \in Nat \ {0} /\ \A i \in 1..k : i \in 1..N /\ i - 1 \in 0..N
        BY <2>3, <1>1
      <3> DEFINE g == [i \in 1..k |-> f[i]]
      <3>2. ASSUME NEW i \in 1..k
            PROVE  g[i] = IF i = 1 THEN t[i] ELSE g[i - 1] \o t[i]
        <4>1. CASE i = 1
          <5>1. f[1] = <<>> \o ss[1]
            <6>1. 1 \in 1..N /\ 1 - 1 = 0
              BY <4>1, <3>1
            <6>2. f[1] = f[1 - 1] \o ss[1]
              BY <6>1, <1>6, Zenon
            <6> QED
              BY <6>1, <6>2, <1>5, Zenon
          <5>2. f[1] = ss[1]
            BY <4>1, <5>1, <3>1, <1>1, ConcatEmptySeq
          <5> QED
            BY <4>1, <5>2, <2>1
        <4>2. CASE i # 1
          <5>1. i - 1 \in 1..k
            BY <4>2
          <5> QED
            BY <4>2, <5>1, <3>1, <1>6, <2>1
        <4> QED
          BY <4>1, <4>2
      <3>3. g = [i \in 1..k |-> IF i = 1 THEN t[i] ELSE g[i - 1] \o t[i]]
        BY <3>2
      <3> HIDE DEF g
      <3>4. PICK h :
                /\ h = [i \in 1..k |-> IF i = 1 THEN t[i]
                                       ELSE h[i - 1] \o t[i]]
                /\ FlattenSeq(t) = h[k]
        <4>1. Len(t) = k
          BY <2>1
        <4>2. \E h : h = [i \in 1..k |-> IF i = 1 THEN t[i]
                                         ELSE h[i - 1] \o t[i]]
          BY <3>3, Zenon
        <4> QED
          BY <3>1, <4>1, <4>2, FlattenUnfold, Zenon
      <3> DEFINE h0 == [n \in 0..k |-> IF n = 0 THEN <<>> ELSE h[n]]
      <3>5. ASSUME NEW n \in 1..k, h0[n - 1] = f[n - 1] PROVE h0[n] = f[n]
        <4>1. n - 1 \in 0..k /\ n \in 0..k /\ n # 0
          OBVIOUS
        <4>2. h0[n] = h[n]
          BY <4>1
        <4>3. CASE n = 1
          <5>1. h[1] = t[1]
            BY <4>3, <3>4
          <5>2. f[1] = <<>> \o ss[1]
            <6>1. 1 \in 1..N /\ 1 - 1 = 0
              BY <4>3, <3>1
            <6>2. f[1] = f[1 - 1] \o ss[1]
              BY <6>1, <1>6, Zenon
            <6> QED
              BY <6>1, <6>2, <1>5, Zenon
          <5>3. f[1] = ss[1]
            BY <4>3, <5>2, <3>1, <1>1, ConcatEmptySeq
          <5> QED
            BY <4>2, <4>3, <5>1, <5>3, <2>1
        <4>4. CASE n # 1
          <5>1. n - 1 # 0 /\ n - 1 \in 1..k
            BY <4>4
          <5>2. h[n] = h[n - 1] \o t[n]
            BY <4>4, <3>4
          <5>3. h0[n - 1] = h[n - 1]
            BY <4>1, <5>1
          <5> QED
            BY <4>2, <5>2, <5>3, <3>5, <3>1, <1>6, <2>1
        <4> QED
          BY <4>3, <4>4
      <3>6. h0[0] = f[0]
        BY <3>1, <1>5
      <3> HIDE DEF h0
      <3>7. \A n \in 0..k : h0[n] = f[n]
        <4>1. Alike(h0, f, k)
          BY <3>5, <3>6 DEF Alike
        <4>2. k \in Nat
          BY <3>1
        <4> QED
          BY <4>1, <4>2, RecursionUnique, Zenon
      <3>8. h0[k] = h[k]
        BY <3>1 DEF h0
      <3> QED
        BY <3>1, <3>4, <3>7, <3>8 DEF t
    <2> QED
      BY <2>2, <2>3
  <1>8. 0 \in 0..N /\ \A k \in 1..N : k \in 0..N /\ k - 1 \in 0..N
    BY <1>1
  <1>9. FlattenSeq(SubSeq(ss, 1, 0)) = <<>>
    BY <1>5, <1>7, <1>8
  <1>10. \A k \in 0..N : FlattenSeq(SubSeq(ss, 1, k)) \in Seq(S)
    BY <1>5, <1>7
  <1>11. ASSUME NEW k \in 1..N
         PROVE  FlattenSeq(SubSeq(ss, 1, k))
                    = FlattenSeq(SubSeq(ss, 1, k - 1)) \o ss[k]
    BY <1>6, <1>7, <1>8
  <1> QED
    BY <1>9, <1>10, <1>11 DEF N

\* Where the first n sequences end in what FlattenSeq makes of them.
Ends(ss, n) == Len(FlattenSeq(SubSeq(ss, 1, n)))

LEMMA EndsAdd ==
    ASSUME NEW S, NEW ss \in Seq(Seq(S))
    PROVE  /\ Ends(ss, 0) = 0
           /\ \A n \in 0..Len(ss) : Ends(ss, n) \in Nat
           /\ \A n \in 1..Len(ss) : Ends(ss, n) = Ends(ss, n - 1) + Len(ss[n])
           /\ FlattenSeq(ss) \in Seq(S)
           /\ Len(FlattenSeq(ss)) = Ends(ss, Len(ss))
  <1>1. /\ FlattenSeq(SubSeq(ss, 1, 0)) = <<>>
        /\ \A k \in 0..Len(ss) : FlattenSeq(SubSeq(ss, 1, k)) \in Seq(S)
        /\ \A k \in 1..Len(ss) :
                FlattenSeq(SubSeq(ss, 1, k))
                    = FlattenSeq(SubSeq(ss, 1, k - 1)) \o ss[k]
    BY FlattenPrefixes
  <1>2. Len(ss) \in Nat /\ SubSeq(ss, 1, Len(ss)) = ss
    BY LenProperties, SubSeqFull
  <1>3. Ends(ss, 0) = 0
    BY <1>1, EmptySeq DEF Ends
  <1>4. \A n \in 0..Len(ss) : Ends(ss, n) \in Nat
    BY <1>1, LenProperties DEF Ends
  <1>5. ASSUME NEW n \in 1..Len(ss)
        PROVE  Ends(ss, n) = Ends(ss, n - 1) + Len(ss[n])
    <2>1. n - 1 \in 0..Len(ss) /\ ss[n] \in Seq(S)
      BY <1>2, ElementOfSeq
    <2>2. FlattenSeq(SubSeq(ss, 1, n - 1)) \in Seq(S)
      BY <2>1, <1>1
    <2>3. FlattenSeq(SubSeq(ss, 1, n))
            = FlattenSeq(SubSeq(ss, 1, n - 1)) \o ss[n]
      BY <1>1
    <2> QED
      BY <2>1, <2>2, <2>3, ConcatProperties DEF Ends
  <1>6. FlattenSeq(ss) \in Seq(S)
    <2>1. Len(ss) \in 0..Len(ss)
      BY <1>2
    <2> QED
      BY <1>1, <1>2, <2>1
  <1> QED
    BY <1>2, <1>3, <1>4, <1>5, <1>6 DEF Ends

\* What FlattenSeq returns has every element of the sequences at its place,
\* and no other.
LEMMA FlattenPlaces ==
    ASSUME NEW S, NEW ss \in Seq(Seq(S))
    PROVE  /\ \A j \in 1..Len(ss) : \A k \in 1..Len(ss[j]) :
                /\ Ends(ss, j - 1) + k \in 1..Len(FlattenSeq(ss))
                /\ FlattenSeq(ss)[Ends(ss, j - 1) + k] = ss[j][k]
           /\ \A i \in 1..Len(FlattenSeq(ss)) :
                \E j \in 1..Len(ss) : \E k \in 1..Len(ss[j]) :
                    i = Ends(ss, j - 1) + k
  <1> DEFINE N == Len(ss)
             f(n) == FlattenSeq(SubSeq(ss, 1, n))
             At(n) == /\ \A j \in 1..n : \A k \in 1..Len(ss[j]) :
                            /\ Ends(ss, j - 1) + k \in 1..Ends(ss, n)
                            /\ f(n)[Ends(ss, j - 1) + k] = ss[j][k]
                      /\ \A i \in 1..Ends(ss, n) :
                            \E j \in 1..n : \E k \in 1..Len(ss[j]) :
                                i = Ends(ss, j - 1) + k
             Good == {n \in Nat : n <= N => At(n)}
  <1>1. N \in Nat
    BY LenProperties
  <1>2. /\ Ends(ss, 0) = 0
        /\ \A n \in 0..N : Ends(ss, n) \in Nat
        /\ \A n \in 1..N : Ends(ss, n) = Ends(ss, n - 1) + Len(ss[n])
    BY EndsAdd
  <1>3. 0 \in Good
    <2>1. 1..0 = {} /\ 0 \in Nat
      OBVIOUS
    <2>2. At(0)
      BY <1>2, <2>1
    <2> QED
      BY <2>2
  <1>4. ASSUME NEW n \in Good PROVE n + 1 \in Good
    <2>1. CASE n + 1 <= N
      <3>1. At(n) /\ n \in 0..N /\ n + 1 \in 1..N /\ (n + 1) - 1 = n
        BY <2>1, <1>1
      <3>2. /\ f(n) \in Seq(S) /\ ss[n + 1] \in Seq(S)
            /\ f(n + 1) = f(n) \o ss[n + 1]
        BY <3>1, FlattenPrefixes, ElementOfSeq
      <3> DEFINE e == Ends(ss, n)
                 l == Len(ss[n + 1])
      <3>3. /\ Len(f(n)) = e /\ e \in Nat /\ l \in Nat
            /\ Ends(ss, n + 1) = e + l
        BY <3>1, <3>2, <1>2, LenProperties DEF Ends
      <3>4. \A i \in 1..(e + l) :
                f(n + 1)[i] = IF i <= e THEN f(n)[i] ELSE ss[n + 1][i - e]
        <4> HIDE DEF f
        <4>1. \A i \in 1..(Len(f(n)) + Len(ss[n + 1])) :
                    (f(n) \o ss[n + 1])[i]
                        = IF i <= Len(f(n)) THEN f(n)[i]
                          ELSE ss[n + 1][i - Len(f(n))]
          BY <3>2, ConcatProperties
        <4> QED
          BY <3>2, <3>3, <4>1
      <3> HIDE DEF f
      <3>5. ASSUME NEW j \in 1..(n + 1), NEW k \in 1..Len(ss[j])
            PROVE  /\ Ends(ss, j - 1) + k \in 1..Ends(ss, n + 1)
                   /\ f(n + 1)[Ends(ss, j - 1) + k] = ss[j][k]
        <4>1. CASE j = n + 1
          <5>1. j - 1 = n /\ k \in 1..l
            BY <4>1
          <5>2. e + k \in 1..(e + l) /\ ~(e + k <= e) /\ (e + k) - e = k
            BY <5>1, <3>3
          <5>3. f(n + 1)[e + k] = ss[n + 1][k]
            BY <5>2, <3>4
          <5> QED
            BY <4>1, <5>1, <5>2, <5>3, <3>3
        <4>2. CASE j # n + 1
          <5>1. j \in 1..n
            BY <4>2
          <5>2. /\ Ends(ss, j - 1) + k \in 1..e
                /\ f(n)[Ends(ss, j - 1) + k] = ss[j][k]
            BY <5>1, <3>1
          <5>3. \A i \in 1..e : i \in 1..(e + l) /\ i <= e
            BY <3>3
          <5> HIDE DEF e, l
          <5> QED
            BY <5>2, <5>3, <3>3, <3>4
        <4> QED
          BY <4>1, <4>2
      <3>6. ASSUME NEW i \in 1..Ends(ss, n + 1)
            PROVE  \E j \in 1..(n + 1) : \E k \in 1..Len(ss[j]) :
                        i = Ends(ss, j - 1) + k
        <4>1. CASE i <= e
          <5>1. i \in 1..e
            BY <4>1, <3>3
          <5>2. PICK j \in 1..n : \E k \in 1..Len(ss[j]) :
                        i = Ends(ss, j - 1) + k
            BY <5>1, <3>1
          <5>3. j \in 1..(n + 1)
            OBVIOUS
          <5> QED
            BY <5>2, <5>3
        <4>2. CASE ~(i <= e)
          <5>1. i - e \in 1..l /\ i = e + (i - e) /\ n + 1 \in 1..(n + 1)
            BY <4>2, <3>3
          <5>2. i - e \in 1..Len(ss[n + 1])
                /\ i = Ends(ss, (n + 1) - 1) + (i - e)
            BY <5>1, <3>1
          <5> QED
            BY <5>1, <5>2
        <4> QED
          BY <4>1, <4>2
      <3>7. At(n + 1)
        BY <3>5, <3>6
      <3> QED
        BY <3>7
    <2>2. CASE ~(n + 1 <= N)
      BY <2>2
    <2> QED
      BY <2>1, <2>2
  <1>5. Good = Nat
    <2> HIDE DEF Good
    <2>1. Good \in SUBSET Nat
      BY DEF Good
    <2> QED
      BY <1>3, <1>4, <2>1, Induction
  <1>6. At(N)
    BY <1>1, <1>5
  <1>7. f(N) = FlattenSeq(ss) /\ Ends(ss, N) = Len(FlattenSeq(ss))
    BY SubSeqFull, EndsAdd
  <1> QED
    BY <1>6, <1>7

LEMMA EndsMonotonic ==
    ASSUME NEW S, NEW ss \in Seq(Seq(S)),
           NEW m \in 0..Len(ss), NEW n \in 0..Len(ss), m <= n
    PROVE  Ends(ss, m) <= Ends(ss, n)
  <1> DEFINE N == Len(ss)
             f == [i \in 0..N |-> Ends(ss, i)]
  <1>1. N \in Nat /\ m \in 0..N /\ n \in 0..N
    BY LenProperties
  <1>2. \A i \in 0..N : f[i] = Ends(ss, i)
    OBVIOUS
  <1>3. /\ \A i \in 0..N : Ends(ss, i) \in Nat
        /\ \A i \in 1..N : Ends(ss, i) = Ends(ss, i - 1) + Len(ss[i])
    BY EndsAdd
  <1>4. \A i \in 1..N : Len(ss[i]) \in Nat
    BY ElementOfSeq, LenProperties
  <1> HIDE DEF f, N
  <1>5. \A i \in 1..N : i \in 0..N /\ i - 1 \in 0..N
    BY <1>1
  <1>6. Rising(f, N)
    <2>1. \A i \in 0..N : f[i] \in Int
      BY <1>2, <1>3 DEF N
    <2>2. ASSUME NEW i \in 1..N PROVE f[i - 1] <= f[i]
      <3>1. i \in 0..N /\ i - 1 \in 0..N
        BY <1>5
      <3>2. Ends(ss, i - 1) \in Nat /\ Ends(ss, i) \in Nat
        BY <3>1, <1>3 DEF N
      <3>3. Ends(ss, i) = Ends(ss, i - 1) + Len(ss[i]) /\ Len(ss[i]) \in Nat
        BY <1>3, <1>4 DEF N
      <3>4. Ends(ss, i - 1) <= Ends(ss, i)
        BY <3>2, <3>3
      <3> QED
        BY <3>1, <3>4, <1>2
    <2> QED
      BY <2>1, <2>2 DEF Rising
  <1>7. f[m] <= f[n]
    BY <1>1, <1>6, RisingSteps
  <1> QED
    BY <1>1, <1>2, <1>7

-----------------------------------------------------------------------------
(* Sequences whose last element changes.                                   *)

LEMMA Singleton ==
    ASSUME NEW S, NEW x \in S
    PROVE  <<x>> \in Seq(S) /\ Len(<<x>>) = 1 /\ <<x>>[1] = x
  OBVIOUS

LEMMA ReplaceLast ==
    ASSUME NEW S, NEW s \in Seq(S), s # <<>>, NEW x \in S
    PROVE  /\ Front(s) \o <<x>> \in Seq(S)
           /\ Front(s) \o <<x>> # <<>>
           /\ Len(Front(s) \o <<x>>) = Len(s)
           /\ \A i \in 1..Len(s) :
                (Front(s) \o <<x>>)[i] = IF i = Len(s) THEN x ELSE s[i]
  <1> DEFINE N == Len(s)
             f == Front(s)
             e == <<x>>
             t == f \o e
  <1>1. N \in Nat \ {0} /\ \A i \in 1..N : s[i] \in S
    BY EmptySeq, ElementOfSeq
  <1>2. /\ f \in Seq(S) /\ Len(f) = N - 1
        /\ \A i \in 1..(N - 1) : f[i] = s[i]
    <2>1. f = SubSeq(s, 1, N - 1)
      BY DEF Front
    <2>2. \A i \in 1..(N - 1) : s[i] \in S
      BY <1>1
    <2>3. /\ f \in Seq(S)
          /\ Len(f) = IF 1 <= N - 1 THEN N - 1 - 1 + 1 ELSE 0
          /\ \A i \in 1..(N - 1 - 1 + 1) : f[i] = s[1 + i - 1]
      BY <1>1, <2>1, <2>2, SubSeqProperties
    <2> HIDE DEF N, f
    <2>4. Len(f) = N - 1
      BY <1>1, <2>3
    <2>5. ASSUME NEW i \in 1..(N - 1) PROVE f[i] = s[i]
      <3>1. i \in 1..(N - 1 - 1 + 1) /\ 1 + i - 1 = i
        BY <1>1
      <3> QED
        BY <2>3, <3>1
    <2> QED
      BY <2>3, <2>4, <2>5
  <1>3. e \in Seq(S) /\ Len(e) = 1 /\ e[1] = x
    BY Singleton
  <1> HIDE DEF f, e
  <1>4. /\ t \in Seq(S) /\ Len(t) = Len(f) + Len(e)
        /\ \A i \in 1..(Len(f) + Len(e)) :
                t[i] = IF i <= Len(f) THEN f[i] ELSE e[i - Len(f)]
    BY <1>2, <1>3, ConcatProperties
  <1> HIDE DEF t, N
  <1>5. Len(f) + Len(e) = N /\ Len(t) = N
    BY <1>1, <1>2, <1>3, <1>4
  <1>6. ASSUME NEW i \in 1..N PROVE t[i] = IF i = N THEN x ELSE s[i]
    <2>1. t[i] = IF i <= Len(f) THEN f[i] ELSE e[i - Len(f)]
      BY <1>4, <1>5
    <2>2. CASE i = N
      <3>1. ~(i <= Len(f)) /\ i - Len(f) = 1
        BY <1>1, <1>2, <2>2
      <3> QED
        BY <2>1, <2>2, <3>1, <1>3
    <2>3. CASE i # N
      <3>1. i <= Len(f) /\ i \in 1..(N - 1)
        BY <1>1, <1>2, <2>3
      <3> QED
        BY <2>1, <2>3, <3>1, <1>2
    <2> QED
      BY <2>2, <2>3
  <1>7. t # <<>>
    BY <1>1, <1>5, EmptySeq
  <1> QED
    BY <1>4, <1>5, <1>6, <1>7 DEF t, f, e, N

-----------------------------------------------------------------------------
(* Quotients and remainders.                                               *)

\* What \div and % return.
LEMMA DivMod ==
    ASSUME NEW a \in Nat, NEW b \in Nat \ {0}
    PROVE  /\ a \div b \in Nat /\ a % b \in 0..(b - 1)
           /\ a = b * (a \div b) + (a % b)
  OBVIOUS

\* There is one quotient and one remainder.
LEMMA DivUnique ==
    ASSUME NEW b \in Nat \ {0}, NEW q \in Nat, NEW r \in 0..(b - 1)
    PROVE  (b * q + r) \div b = q /\ (b * q + r) % b = r
  OBVIOUS

\* Products grow with their factors.
LEMMA MulMono ==
    ASSUME NEW a \in Nat, NEW b \in Nat, NEW c \in Nat, a <= b
    PROVE  c * a <= c * b
  OBVIOUS

\* A product is 0 only if a factor is.
LEMMA MulNat ==
    ASSUME NEW a \in Nat \ {0}, NEW b \in Nat \ {0}
    PROVE  a * b \in Nat \ {0}
  OBVIOUS

\* Products of numbers.
LEMMA MulAssoc ==
    ASSUME NEW a \in Nat, NEW b \in Nat, NEW c \in Nat
    PROVE  /\ (a * b) * c = a * (b * c) /\ a * b = b * a
           /\ a * (b + c) = a * b + a * c /\ a * (b + 1) = a * b + a
  OBVIOUS

\* A multiple leaves no remainder.
LEMMA Multiple ==
    ASSUME NEW b \in Nat \ {0}, NEW q \in Nat
    PROVE  (b * q) % b = 0 /\ (b * q) \div b = q
  <1>1. 0 \in 0..(b - 1) /\ b * q + 0 = b * q
    OBVIOUS
  <1> QED BY <1>1, DivUnique

\* What leaves no remainder is a multiple.
LEMMA DivExact ==
    ASSUME NEW n \in Nat, NEW b \in Nat \ {0}, n % b = 0
    PROVE  n \div b \in Nat /\ n = b * (n \div b)
  OBVIOUS

\* What a product divides, its factors divide.
LEMMA DivFactor ==
    ASSUME NEW n \in Nat, NEW a \in Nat \ {0}, NEW b \in Nat \ {0},
           n % (a * b) = 0
    PROVE  n % a = 0 /\ n % b = 0 /\ (n \div b) % a = 0
  <1> DEFINE c == a * b
             q == n \div c
  <1>1. c \in Nat \ {0}
    BY MulNat
  <1>a. n % c = 0
    OBVIOUS
  <1> HIDE DEF c
  <1>2. q \in Nat /\ n = c * q
    BY <1>1, <1>a, DivExact
  <1> HIDE DEF q
  <1>3. /\ n = a * (b * q) /\ n = b * (a * q)
        /\ b * q \in Nat /\ a * q \in Nat
    BY <1>2, MulAssoc DEF c
  <1> DEFINE d == b * q
             e == a * q
  <1>b. n = a * d /\ n = b * e /\ e = a * q /\ d \in Nat /\ e \in Nat
    BY <1>3
  <1> HIDE DEF d, e
  <1>4. n % a = 0
    BY <1>b, Multiple
  <1>5. n % b = 0 /\ n \div b = e
    BY <1>b, Multiple
  <1>6. e % a = 0
    BY <1>2, <1>b, Multiple
  <1> QED
    BY <1>4, <1>5, <1>6

\* Both factors divide n, and one the rest that the other leaves.
Factors(n, a, b) == n % a = 0 /\ n % b = 0 /\ (n \div b) % a = 0

\* The factors of a divisor.
LEMMA DivFactors ==
    ASSUME NEW n \in Nat, NEW a \in Nat \ {0}, NEW b \in Nat \ {0},
           NEW c, c = a * b, n % c = 0
    PROVE  Factors(n, a, b)
  BY DivFactor DEF Factors

-----------------------------------------------------------------------------
(* Sequences from parts of sequences.                                      *)

\* A function on 1..n is a sequence of n elements.
LEMMA FunctionIsSeq ==
    ASSUME NEW S, NEW n \in Nat, NEW f \in [1..n -> S]
    PROVE  f \in Seq(S) /\ Len(f) = n
  <1>1. f \in Seq(S)
    BY SeqDef
  <1>2. DOMAIN f = 1..n /\ DOMAIN f = 1..Len(f) /\ Len(f) \in Nat
    BY <1>1, LenProperties
  <1>3. Len(f) = n
    BY <1>2
  <1> QED
    BY <1>1, <1>3

\* What InsertAt returns.
LEMMA InsertAtPlaces ==
    ASSUME NEW S, NEW t \in Seq(S), NEW x \in S, NEW p \in 1..(Len(t) + 1)
    PROVE  /\ InsertAt(t, p, x) \in Seq(S)
           /\ Len(InsertAt(t, p, x)) = Len(t) + 1
           /\ \A i \in 1..(Len(t) + 1) :
                InsertAt(t, p, x)[i] = IF i < p THEN t[i]
                                       ELSE IF i = p THEN x ELSE t[i - 1]
  <1> DEFINE N == Len(t)
             a == SubSeq(t, 1, p - 1)
             b == SubSeq(t, p, N)
             e == <<x>>
  <1>1. N \in Nat /\ p \in 1..(N + 1) /\ \A i \in 1..N : t[i] \in S
    BY ElementOfSeq, LenProperties
  <1>2. /\ a \in Seq(S) /\ Len(a) = p - 1
        /\ \A i \in 1..(p - 1) : a[i] = t[i]
    <2>1. \A i \in 1..(p - 1) : t[i] \in S
      BY <1>1
    <2>2. /\ a \in Seq(S)
          /\ Len(a) = IF 1 <= p - 1 THEN p - 1 - 1 + 1 ELSE 0
          /\ \A i \in 1..(p - 1 - 1 + 1) : a[i] = t[1 + i - 1]
      BY <1>1, <2>1, SubSeqProperties
    <2> HIDE DEF a
    <2>3. Len(a) = p - 1
      BY <1>1, <2>2
    <2>4. ASSUME NEW i \in 1..(p - 1) PROVE a[i] = t[i]
      <3>1. i \in 1..(p - 1 - 1 + 1) /\ 1 + i - 1 = i
        BY <1>1
      <3> QED
        BY <2>2, <3>1
    <2> QED
      BY <2>2, <2>3, <2>4
  <1>3. /\ b \in Seq(S) /\ Len(b) = (N + 1) - p
        /\ \A i \in 1..((N + 1) - p) : b[i] = t[(p + i) - 1]
    <2>1. \A i \in p..N : t[i] \in S
      BY <1>1
    <2>2. /\ b \in Seq(S)
          /\ Len(b) = IF p <= N THEN N - p + 1 ELSE 0
          /\ \A i \in 1..(N - p + 1) : b[i] = t[p + i - 1]
      BY <1>1, <2>1, SubSeqProperties
    <2> HIDE DEF b, N
    <2>3. Len(b) = (N + 1) - p
      BY <1>1, <2>2
    <2>4. ASSUME NEW i \in 1..((N + 1) - p) PROVE b[i] = t[(p + i) - 1]
      <3>1. i \in 1..(N - p + 1) /\ p + i - 1 = (p + i) - 1
        BY <1>1
      <3> QED
        BY <2>2, <3>1
    <2> QED
      BY <2>2, <2>3, <2>4
  <1>4. e \in Seq(S) /\ Len(e) = 1 /\ e[1] = x
    BY Singleton
  <1> HIDE DEF a, b, e
  <1> DEFINE c == a \o e
  <1>5. /\ c \in Seq(S) /\ Len(c) = Len(a) + Len(e)
        /\ \A i \in 1..(Len(a) + Len(e)) :
                c[i] = IF i <= Len(a) THEN a[i] ELSE e[i - Len(a)]
    BY <1>2, <1>4, ConcatProperties
  <1>6. /\ Len(c) = p
        /\ \A i \in 1..p : c[i] = IF i < p THEN t[i] ELSE x
    <2> HIDE DEF c, N
    <2>1. Len(a) + Len(e) = p /\ p \in Nat
      BY <1>1, <1>2, <1>4
    <2>2. ASSUME NEW i \in 1..p PROVE c[i] = IF i < p THEN t[i] ELSE x
      <3>1. c[i] = IF i <= Len(a) THEN a[i] ELSE e[i - Len(a)]
        BY <1>5, <2>1
      <3>2. CASE i < p
        <4>1. i <= Len(a) /\ i \in 1..(p - 1)
          BY <1>2, <2>1, <3>2
        <4> QED
          BY <1>2, <3>1, <3>2, <4>1
      <3>3. CASE ~(i < p)
        <4>1. ~(i <= Len(a)) /\ i - Len(a) = 1
          BY <1>2, <2>1, <3>3
        <4> QED
          BY <1>4, <3>1, <3>3, <4>1
      <3> QED
        BY <3>2, <3>3
    <2> QED
      BY <1>5, <2>1, <2>2
  <1> HIDE DEF c
  <1> DEFINE d == c \o b
  <1>7. /\ d \in Seq(S) /\ Len(d) = Len(c) + Len(b)
        /\ \A i \in 1..(Len(c) + Len(b)) :
                d[i] = IF i <= Len(c) THEN c[i] ELSE b[i - Len(c)]
    <2>1. c \in Seq(S) /\ b \in Seq(S)
      BY <1>3, <1>5
    <2> QED
      BY <2>1, ConcatProperties
  <1>8. d = InsertAt(t, p, x)
    BY DEF a, b, c, e, InsertAt
  <1> HIDE DEF d, N
  <1>9. Len(c) + Len(b) = N + 1
    BY <1>1, <1>3, <1>6
  <1>10. ASSUME NEW i \in 1..(N + 1)
         PROVE  d[i] = IF i < p THEN t[i] ELSE IF i = p THEN x ELSE t[i - 1]
    <2>1. d[i] = IF i <= p THEN c[i] ELSE b[i - p]
      BY <1>6, <1>7, <1>9
    <2>2. CASE i <= p
      <3>1. i \in 1..p /\ (~(i < p) => i = p)
        BY <1>1, <2>2
      <3> QED
        BY <1>6, <2>1, <2>2, <3>1
    <2>3. CASE ~(i <= p)
      <3>1. /\ i - p \in 1..((N + 1) - p) /\ (p + (i - p)) - 1 = i - 1
            /\ ~(i < p) /\ i # p
        BY <1>1, <2>3
      <3> QED
        BY <1>3, <2>1, <2>3, <3>1
    <2> QED
      BY <2>2, <2>3
  <1> QED
    BY <1>7, <1>8, <1>9, <1>10 DEF N

\* Reverse counts from the end.
LEMMA ReverseIs ==
    ASSUME NEW S, NEW s \in Seq(S)
    PROVE  /\ Reverse(s) \in Seq(S) /\ Len(Reverse(s)) = Len(s)
           /\ \A i \in 1..Len(s) : /\ (Len(s) - i) + 1 \in 1..Len(s)
                                   /\ Reverse(s)[i] = s[(Len(s) - i) + 1]
  <1> DEFINE N == Len(s)
             t == Reverse(s)
  <1>1. N \in Nat /\ \A i \in 1..N : s[i] \in S
    BY LenProperties, ElementOfSeq
  <1>2. t = [i \in 1..N |-> s[(N - i) + 1]]
    BY DEF Reverse
  <1>3. \A i \in 1..N : (N - i) + 1 \in 1..N
    BY <1>1
  <1> HIDE DEF N, t
  <1>4. t \in [1..N -> S]
    BY <1>1, <1>2, <1>3
  <1>5. t \in Seq(S) /\ Len(t) = N
    BY <1>1, <1>4, FunctionIsSeq
  <1> QED
    BY <1>2, <1>3, <1>5 DEF N, t

\* The first c elements.
LEMMA PrefixIs ==
    ASSUME NEW S, NEW s \in Seq(S), NEW c \in 0..Len(s)
    PROVE  /\ SubSeq(s, 1, c) \in Seq(S) /\ Len(SubSeq(s, 1, c)) = c
           /\ \A i \in 1..c : SubSeq(s, 1, c)[i] = s[i]
  <1> DEFINE N == Len(s)
             t == SubSeq(s, 1, c)
  <1>1. N \in Nat /\ \A i \in 1..N : s[i] \in S
    BY LenProperties, ElementOfSeq
  <1> HIDE DEF N
  <1>2. c \in Nat /\ c <= N
    BY <1>1 DEF N
  <1>3. \A i \in 1..c : s[i] \in S
    BY <1>1, <1>2
  <1>4. /\ t \in Seq(S)
        /\ Len(t) = IF 1 <= c THEN c - 1 + 1 ELSE 0
        /\ \A i \in 1..(c - 1 + 1) : t[i] = s[1 + i - 1]
    BY <1>2, <1>3, SubSeqProperties
  <1> HIDE DEF t
  <1>5. Len(t) = c
    BY <1>2, <1>4
  <1>6. ASSUME NEW i \in 1..c PROVE t[i] = s[i]
    <2>1. i \in 1..(c - 1 + 1) /\ 1 + i - 1 = i
      BY <1>2
    <2> QED
      BY <1>4, <2>1
  <1> QED
    BY <1>4, <1>5, <1>6 DEF t

\* The rows of every state to begin with.
Slice(rows, step, j) == SubSeq(rows, (j - 1) * step + 1, j * step)

\* Where slices begin and end.
LEMMA SliceProduct ==
    ASSUME NEW step \in Nat \ {0}, NEW L \in Nat, NEW j \in 1..L
    PROVE  /\ (j - 1) * step \in Nat /\ j * step \in Nat
           /\ j * step = (j - 1) * step + step
           /\ L * step \in Nat /\ j * step <= L * step
  <1>1. j - 1 \in Nat /\ j \in Nat /\ (j - 1) + 1 = j
    OBVIOUS
  <1>2. (j - 1) * step \in Nat /\ j * step \in Nat /\ L * step \in Nat
    BY <1>1
  <1>3. j * step = (j - 1) * step + step
    <2> DEFINE i == j - 1
    <2>1. i \in Nat /\ j = i + 1
      OBVIOUS
    <2> HIDE DEF i
    <2>2. (i + 1) * step = i * step + step
      BY <2>1
    <2> QED
      BY <2>1, <2>2 DEF i
  <1>4. j * step <= L * step
    <2>1. step * j <= step * L
      BY <1>1
    <2>2. step * j = j * step /\ step * L = L * step
      BY <1>1
    <2> QED
      BY <2>1, <2>2
  <1> QED
    BY <1>2, <1>3, <1>4

\* t has the step rows behind place c.
Cut(t, rows, R, step, c) ==
    /\ t \in Seq(R)
    /\ Len(t) = step
    /\ \A i \in 1..step : c + i \in 1..Len(rows) /\ t[i] = rows[c + i]

\* A slice is what is cut out behind those before it.
LEMMA SliceIs ==
    ASSUME NEW R, NEW rows \in Seq(R), NEW step \in Nat \ {0},
           NEW L \in Nat, Len(rows) = L * step, NEW j \in 1..L
    PROVE  Cut(Slice(rows, step, j), rows, R, step, (j - 1) * step)
  <1> DEFINE a == (j - 1) * step
             b == j * step
             N == Len(rows)
             t == SubSeq(rows, a + 1, b)
  <1>1. a \in Nat /\ b \in Nat /\ b = a + step /\ N \in Nat /\ b <= N
    BY SliceProduct
  <1>2. t = Slice(rows, step, j)
    BY DEF Slice
  <1>3. \A i \in 1..N : rows[i] \in R
    BY ElementOfSeq
  <1> HIDE DEF a, b, N
  <1>4. \A i \in (a + 1)..b : rows[i] \in R
    BY <1>1, <1>3
  <1>5. /\ t \in Seq(R)
        /\ Len(t) = IF a + 1 <= b THEN b - (a + 1) + 1 ELSE 0
        /\ \A i \in 1..(b - (a + 1) + 1) : t[i] = rows[(a + 1) + i - 1]
    BY <1>1, <1>4, SubSeqProperties
  <1> HIDE DEF t
  <1>6. Len(t) = step
    BY <1>1, <1>5
  <1>7. ASSUME NEW i \in 1..step
        PROVE  a + i \in 1..N /\ t[i] = rows[a + i]
    <2>1. /\ i \in 1..(b - (a + 1) + 1) /\ (a + 1) + i - 1 = a + i
          /\ a + i \in 1..N
      BY <1>1
    <2> QED
      BY <1>5, <2>1
  <1> QED
    BY <1>2, <1>5, <1>6, <1>7 DEF a, N, Cut

\* What comes behind place c, joined to all before it.
LEMMA PrefixJoins ==
    ASSUME NEW S, NEW s \in Seq(S), NEW c \in Nat, NEW n \in Nat,
           c + n <= Len(s), NEW t, Cut(t, s, S, n, c)
    PROVE  SubSeq(s, 1, c) \o t = SubSeq(s, 1, c + n)
  <1> DEFINE a == SubSeq(s, 1, c)
             b == SubSeq(s, 1, c + n)
             d == a \o t
             e == c + n
  <1>1. Len(s) \in Nat /\ c \in 0..Len(s) /\ e \in 0..Len(s)
    BY LenProperties
  <1>2. a \in Seq(S) /\ Len(a) = c /\ \A i \in 1..c : a[i] = s[i]
    BY <1>1, PrefixIs
  <1>3. b \in Seq(S) /\ Len(b) = e /\ \A i \in 1..e : b[i] = s[i]
    BY <1>1, PrefixIs
  <1>4. t \in Seq(S) /\ Len(t) = n /\ \A i \in 1..n : t[i] = s[c + i]
    BY DEF Cut
  <1> HIDE DEF a, b
  <1>5. /\ d \in Seq(S) /\ Len(d) = Len(a) + Len(t)
        /\ \A i \in 1..(Len(a) + Len(t)) :
                d[i] = IF i <= Len(a) THEN a[i] ELSE t[i - Len(a)]
    <2>1. a \in Seq(S) /\ t \in Seq(S)
      BY <1>2, <1>4
    <2> QED
      BY <2>1, ConcatProperties
  <1> HIDE DEF d
  <1>6. Len(d) = e
    BY <1>2, <1>4, <1>5
  <1>7. ASSUME NEW i \in 1..e PROVE d[i] = b[i]
    <2>1. d[i] = IF i <= c THEN a[i] ELSE t[i - c]
      BY <1>2, <1>4, <1>5
    <2>2. CASE i <= c
      <3>1. i \in 1..c
        BY <2>2
      <3> QED
        BY <1>2, <1>3, <2>1, <2>2, <3>1
    <2>3. CASE ~(i <= c)
      <3>1. i - c \in 1..n /\ c + (i - c) = i
        BY <2>3
      <3> QED
        BY <1>3, <1>4, <2>1, <2>3, <3>1
    <2> QED
      BY <2>2, <2>3
  <1> HIDE DEF e
  <1>8. d = b
    BY <1>3, <1>5, <1>6, <1>7, SeqEqual
  <1> QED
    BY <1>8 DEF d, a, b

\* The places of parts of m rows each.
LEMMA EqualEnds ==
    ASSUME NEW S, NEW ss \in Seq(Seq(S)), NEW m \in Nat,
           \A j \in 1..Len(ss) : Len(ss[j]) = m
    PROVE  \A n \in 0..Len(ss) : Ends(ss, n) = n * m
  <1> DEFINE K == Len(ss)
             Good == {n \in Nat : n <= K => Ends(ss, n) = n * m}
  <1>1. K \in Nat
    BY LenProperties
  <1>2. /\ Ends(ss, 0) = 0
        /\ \A n \in 1..K : Ends(ss, n) = Ends(ss, n - 1) + Len(ss[n])
    BY EndsAdd
  <1>3. 0 \in Good
    <2>1. 0 * m = 0
      OBVIOUS
    <2> QED
      BY <1>2, <2>1
  <1>4. ASSUME NEW n \in Good PROVE n + 1 \in Good
    <2>1. CASE n + 1 <= K
      <3>1. n + 1 \in 1..K /\ (n + 1) - 1 = n /\ n <= K
        BY <1>1, <2>1
      <3>2. Ends(ss, n) = n * m
        BY <3>1
      <3>3. Len(ss[n + 1]) = m
        BY <3>1
      <3>4. Ends(ss, n + 1) = Ends(ss, n) + m
        BY <1>2, <3>1, <3>3
      <3>5. (n + 1) * m = n * m + m
        OBVIOUS
      <3>6. Ends(ss, n + 1) = (n + 1) * m
        BY <3>2, <3>4, <3>5
      <3> QED
        BY <3>6
    <2>2. CASE ~(n + 1 <= K)
      BY <2>2
    <2> QED
      BY <2>1, <2>2
  <1>5. Good = Nat
    <2> HIDE DEF Good
    <2>1. Good \in SUBSET Nat
      BY DEF Good
    <2> QED
      BY <1>3, <1>4, <2>1, Induction
  <1>6. ASSUME NEW n \in 0..K PROVE Ends(ss, n) = n * m
    <2> HIDE DEF Good, K
    <2>1. n \in Nat /\ n <= K
      BY <1>1
    <2>2. n \in Good
      BY <1>5, <2>1
    <2> QED
      BY <2>1, <2>2 DEF Good
  <1> QED
    BY <1>6

\* Sequences that are not empty end behind one another.
LEMMA EndsApart ==
    ASSUME NEW S, NEW ss \in Seq(Seq(S)),
           \A j \in 1..Len(ss) : ss[j] # <<>>,
           NEW m \in 0..Len(ss), NEW n \in 0..Len(ss),
           Ends(ss, m) = Ends(ss, n)
    PROVE  m = n
  <1>1. Len(ss) \in Nat
    BY LenProperties
  <1>2. ASSUME NEW i \in 0..Len(ss), NEW j \in 0..Len(ss), i < j
        PROVE  Ends(ss, i) < Ends(ss, j)
    <2>1. j \in 1..Len(ss) /\ j - 1 \in 0..Len(ss) /\ i <= j - 1
      BY <1>1, <1>2
    <2>2. Ends(ss, i) <= Ends(ss, j - 1)
      <3> DEFINE h == j - 1
      <3> HIDE DEF h
      <3>1. h \in 0..Len(ss) /\ i <= h
        BY <2>1 DEF h
      <3>2. Ends(ss, i) <= Ends(ss, h)
        BY <3>1, EndsMonotonic
      <3> QED
        BY <3>2 DEF h
    <2>3. ss[j] \in Seq(S) /\ ss[j] # <<>>
      BY <2>1, ElementOfSeq
    <2>4. Len(ss[j]) \in Nat \ {0}
      BY <2>3, LenProperties, EmptySeq
    <2>5. /\ Ends(ss, j) = Ends(ss, j - 1) + Len(ss[j])
          /\ Ends(ss, j - 1) \in Nat /\ Ends(ss, i) \in Nat
      BY <2>1, EndsAdd
    <2> QED
      BY <2>2, <2>4, <2>5
  <1>3. Ends(ss, m) \in Nat
    BY EndsAdd
  <1>4. ~(m < n) /\ ~(n < m)
    BY <1>2, <1>3
  <1> QED
    BY <1>1, <1>4

-----------------------------------------------------------------------------
(* Permutations.                                                           *)

\* p is a permutation of 1..N.
Reorders(p, N) ==
    /\ p \in [1..N -> 1..N]
    /\ \A i, j \in 1..N : p[i] = p[j] => i = j
    /\ \A k \in 1..N : \E i \in 1..N : p[i] = k

\* A set of numbers that has every smaller one too is an interval.
LEMMA InitialSegment ==
    ASSUME NEW N \in Nat, NEW D \in SUBSET (1..N),
           \A i, j \in 1..N : i < j /\ j \in D => i \in D
    PROVE  D = 1..Cardinality(D)
  <1>1. CASE D = {}
    <2>1. Cardinality(D) = 0
      BY <1>1, FS_EmptySet
    <2> QED
      BY <1>1, <2>1
  <1>2. CASE D # {}
    <2> DEFINE B == {m \in Nat : \A i \in D : i <= m}
    <2>1. N \in B
      OBVIOUS
    <2>2. B \in SUBSET Nat /\ B # {}
      BY <2>1
    <2>3. PICK m \in B : \A n \in B : m <= n
      BY <2>2, LeastNat
    <2>4. m \in D
      <3> SUFFICES ASSUME m \notin D PROVE FALSE
        OBVIOUS
      <3>1. PICK d \in D : TRUE
        BY <1>2
      <3>2. m - 1 \in Nat
        BY <2>3, <3>1
      <3>3. \A i \in D : i <= m /\ i # m /\ i \in Nat
        BY <2>3
      <3>4. m - 1 \in B
        BY <2>3, <3>2, <3>3
      <3> QED
        BY <2>3, <3>2, <3>4
    <2>5. D = 1..m
      <3>1. m \in 1..N /\ \A i \in D : i <= m
        BY <2>3, <2>4
      <3>2. ASSUME NEW i \in 1..m PROVE i \in D
        <4>1. CASE i = m
          BY <2>4, <4>1
        <4>2. CASE i # m
          BY <2>4, <3>1, <4>2
        <4> QED
          BY <4>1, <4>2
      <3>3. ASSUME NEW i \in D PROVE i \in 1..m
        BY <3>1
      <3> QED
        BY <3>2, <3>3
    <2>6. Cardinality(1..m) = m
      <3>1. m \in Nat \ {0}
        BY <2>3, <2>4
      <3>2. Cardinality(1..m) = IF 1 > m THEN 0 ELSE m - 1 + 1
        BY <3>1, FS_Interval
      <3> QED
        BY <3>1, <3>2
    <2> QED
      BY <2>5, <2>6
  <1> QED
    BY <1>1, <1>2

\* The elements of s in another order.
Rearranged(t, s, S) ==
    /\ t \in Seq(S) /\ Len(t) = Len(s)
    /\ \E p : /\ Reorders(p, Len(s))
              /\ \A i \in 1..Len(s) : t[i] = s[p[i]]

\* What is rearranged twice is rearranged.
LEMMA RearrangedTwice ==
    ASSUME NEW S, NEW s, NEW t, NEW u,
           Rearranged(t, s, S), Rearranged(u, t, S)
    PROVE  Rearranged(u, s, S)
  <1> DEFINE N == Len(s)
  <1>1. Len(t) = N /\ u \in Seq(S) /\ Len(u) = N
    BY DEF Rearranged
  <1>2. PICK p : Reorders(p, N) /\ \A i \in 1..N : t[i] = s[p[i]]
    BY DEF Rearranged
  <1>3. PICK q : Reorders(q, N) /\ \A i \in 1..N : u[i] = t[q[i]]
    BY <1>1 DEF Rearranged
  <1> HIDE DEF N
  <1> DEFINE c == [i \in 1..N |-> p[q[i]]]
  <1>4. /\ \A i \in 1..N : p[i] \in 1..N /\ q[i] \in 1..N
        /\ \A i, j \in 1..N : p[i] = p[j] => i = j
        /\ \A i, j \in 1..N : q[i] = q[j] => i = j
        /\ \A k \in 1..N : \E i \in 1..N : p[i] = k
        /\ \A k \in 1..N : \E i \in 1..N : q[i] = k
    BY <1>2, <1>3 DEF Reorders
  <1>5. c \in [1..N -> 1..N] /\ \A i \in 1..N : c[i] = p[q[i]]
    BY <1>4
  <1> HIDE DEF c
  <1>6. ASSUME NEW k \in 1..N PROVE \E i \in 1..N : c[i] = k
    <2>1. PICK j \in 1..N : p[j] = k
      BY <1>4
    <2>2. PICK i \in 1..N : q[i] = j
      BY <1>4
    <2> QED
      BY <1>5, <2>1, <2>2
  <1>7. ASSUME NEW i \in 1..N, NEW j \in 1..N, c[i] = c[j] PROVE i = j
    <2> DEFINE k == q[i]
               l == q[j]
    <2>1. p[k] = p[l] /\ k \in 1..N /\ l \in 1..N
      BY <1>4, <1>5, <1>7
    <2> HIDE DEF k, l
    <2>2. k = l
      BY <1>4, <2>1
    <2> QED
      BY <1>4, <2>2 DEF k, l
  <1>8. Reorders(c, N)
    BY <1>5, <1>6, <1>7 DEF Reorders
  <1>9. ASSUME NEW i \in 1..N PROVE u[i] = s[c[i]]
    <2>1. q[i] \in 1..N /\ u[i] = t[q[i]]
      BY <1>3, <1>4
    <2>2. t[q[i]] = s[p[q[i]]]
      BY <1>2, <2>1
    <2> QED
      BY <1>5, <2>1, <2>2
  <1> QED
    BY <1>1, <1>8, <1>9 DEF Rearranged, N

-----------------------------------------------------------------------------
(* What sequences hold.                                                    *)

\* The elements of a sequence.
Held(s) == {s[i] : i \in 1..Len(s)}

\* No element comes twice.
Once(s) == \A i, j \in 1..Len(s) : s[i] = s[j] => i = j

\* A permutation keeps the elements and repeats none.
LEMMA ReorderHolds ==
    ASSUME NEW s, NEW t, NEW N \in Nat, Len(s) = N, Len(t) = N,
           NEW p, Reorders(p, N), \A i \in 1..N : t[i] = s[p[i]]
    PROVE  /\ Held(t) = Held(s)
           /\ Once(s) => Once(t)
  <1>1. /\ \A i \in 1..N : p[i] \in 1..N
        /\ \A i, j \in 1..N : p[i] = p[j] => i = j
        /\ \A k \in 1..N : \E i \in 1..N : p[i] = k
    BY DEF Reorders
  <1>2. Held(t) = {t[i] : i \in 1..N} /\ Held(s) = {s[i] : i \in 1..N}
    BY DEF Held
  <1>3. ASSUME NEW x \in Held(t) PROVE x \in Held(s)
    <2>1. PICK i \in 1..N : x = t[i]
      BY <1>2
    <2>2. x = s[p[i]] /\ p[i] \in 1..N
      BY <1>1, <2>1
    <2> QED
      BY <1>2, <2>2
  <1>4. ASSUME NEW x \in Held(s) PROVE x \in Held(t)
    <2>1. PICK k \in 1..N : x = s[k]
      BY <1>2
    <2>2. PICK i \in 1..N : p[i] = k
      BY <1>1
    <2>3. x = t[i]
      BY <2>1, <2>2
    <2> QED
      BY <1>2, <2>3
  <1>5. ASSUME Once(s) PROVE Once(t)
    <2>1. \A i, j \in 1..N : s[i] = s[j] => i = j
      BY <1>5 DEF Once
    <2>2. \A i, j \in 1..N : t[i] = t[j] => i = j
      BY <1>1, <2>1
    <2> QED
      BY <2>2 DEF Once
  <1> QED
    BY <1>3, <1>4, <1>5

\* What is joined has the elements of both.
LEMMA JoinHolds ==
    ASSUME NEW R, NEW a \in Seq(R), NEW b \in Seq(R)
    PROVE  /\ a \o b \in Seq(R)
           /\ Len(a \o b) = Len(a) + Len(b)
           /\ Held(a \o b) = Held(a) \cup Held(b)
           /\ Once(a) /\ Once(b) /\ Held(a) \cap Held(b) = {} => Once(a \o b)
  <1> DEFINE M == Len(a)
             N == Len(b)
             c == a \o b
  <1>1. /\ M \in Nat /\ N \in Nat /\ c \in Seq(R) /\ Len(c) = M + N
        /\ \A i \in 1..(M + N) : c[i] = IF i <= M THEN a[i] ELSE b[i - M]
    BY LenProperties, ConcatProperties
  <1>2. /\ Held(a) = {a[i] : i \in 1..M}
        /\ Held(b) = {b[i] : i \in 1..N}
        /\ Held(c) = {c[i] : i \in 1..(M + N)}
    BY <1>1 DEF Held
  <1>3. /\ Once(a) <=> \A i, j \in 1..M : a[i] = a[j] => i = j
        /\ Once(b) <=> \A i, j \in 1..N : b[i] = b[j] => i = j
        /\ Once(c) <=> \A i, j \in 1..(M + N) : c[i] = c[j] => i = j
    BY <1>1 DEF Once
  <1> HIDE DEF M, N, c
  <1>4. \A i \in 1..M : i \in 1..(M + N) /\ c[i] = a[i]
    BY <1>1
  <1>5. \A i \in 1..N : M + i \in 1..(M + N) /\ c[M + i] = b[i]
    <2> SUFFICES ASSUME NEW i \in 1..N
                 PROVE  M + i \in 1..(M + N) /\ c[M + i] = b[i]
      OBVIOUS
    <2>1. M + i \in 1..(M + N) /\ ~(M + i <= M) /\ (M + i) - M = i
      BY <1>1
    <2> QED
      BY <1>1, <2>1
  <1>6. \A i \in 1..(M + N) :
            i \in 1..M \/ \E j \in 1..N : i = M + j
    <2> SUFFICES ASSUME NEW i \in 1..(M + N), i \notin 1..M
                 PROVE  \E j \in 1..N : i = M + j
      OBVIOUS
    <2>1. i - M \in 1..N /\ i = M + (i - M)
      BY <1>1
    <2> QED
      BY <2>1
  <1>7. Held(c) = Held(a) \cup Held(b)
    <2>1. ASSUME NEW x \in Held(c) PROVE x \in Held(a) \cup Held(b)
      <3>1. PICK i \in 1..(M + N) : x = c[i]
        BY <1>2
      <3>2. CASE i \in 1..M
        BY <1>2, <1>4, <3>1, <3>2
      <3>3. CASE \E j \in 1..N : i = M + j
        BY <1>2, <1>5, <3>1, <3>3
      <3> QED
        BY <1>6, <3>2, <3>3
    <2>2. ASSUME NEW x \in Held(a) PROVE x \in Held(c)
      BY <1>2, <1>4
    <2>3. ASSUME NEW x \in Held(b) PROVE x \in Held(c)
      BY <1>2, <1>5
    <2> QED
      BY <2>1, <2>2, <2>3
  <1>8. ASSUME Once(a), Once(b), Held(a) \cap Held(b) = {}
        PROVE  Once(c)
    <2>1. ASSUME NEW i \in 1..(M + N), NEW j \in 1..(M + N), c[i] = c[j]
          PROVE  i = j
      <3>1. CASE i \in 1..M /\ j \in 1..M
        BY <1>3, <1>4, <1>8, <2>1, <3>1
      <3>2. CASE i \in 1..M /\ j \notin 1..M
        <4>1. PICK m \in 1..N : j = M + m
          BY <1>6, <3>2
        <4>2. c[i] \in Held(a) /\ c[j] \in Held(b)
          BY <1>2, <1>4, <1>5, <3>2, <4>1
        <4> QED
          BY <1>8, <2>1, <4>2
      <3>3. CASE i \notin 1..M /\ j \in 1..M
        <4>1. PICK m \in 1..N : i = M + m
          BY <1>6, <3>3
        <4>2. c[i] \in Held(b) /\ c[j] \in Held(a)
          BY <1>2, <1>4, <1>5, <3>3, <4>1
        <4> QED
          BY <1>8, <2>1, <4>2
      <3>4. CASE i \notin 1..M /\ j \notin 1..M
        <4>1. PICK m \in 1..N : i = M + m
          BY <1>6, <3>4
        <4>2. PICK n \in 1..N : j = M + n
          BY <1>6, <3>4
        <4>3. b[m] = b[n]
          BY <1>5, <2>1, <4>1, <4>2
        <4> QED
          BY <1>3, <1>8, <4>1, <4>2, <4>3
      <3> QED
        BY <3>1, <3>2, <3>3, <3>4
    <2> QED
      BY <1>3, <2>1
  <1> QED
    BY <1>1, <1>7, <1>8 DEF M, N, c

\* The elements of a sequence over R are in R.
LEMMA HeldIn ==
    ASSUME NEW R, NEW s \in Seq(R)
    PROVE  Held(s) \subseteq R
  BY ElementOfSeq DEF Held

\* A sequence of one.
LEMMA OneHeld ==
    ASSUME NEW r
    PROVE  Held(<<r>>) = {r} /\ Once(<<r>>) /\ Len(<<r>>) = 1
  <1>1. Len(<<r>>) = 1 /\ <<r>>[1] = r /\ 1..1 = {1}
    OBVIOUS
  <1> QED
    BY <1>1 DEF Held, Once

\* A sequence of none.
LEMMA NoneHeld == Held(<<>>) = {} /\ Once(<<>>)
  <1>1. Len(<<>>) = 0 /\ 1..0 = {}
    BY EmptySeq
  <1> QED
    BY <1>1 DEF Held, Once

\* A slice has rows that no other slice has, and every row is in one.
LEMMA SlicesPart ==
    ASSUME NEW R, NEW rows \in Seq(R), Once(rows), NEW step \in Nat \ {0},
           NEW L \in Nat, Len(rows) = L * step
    PROVE  /\ \A j \in 1..L : Once(Slice(rows, step, j))
           /\ \A j, l \in 1..L : j # l =>
                Held(Slice(rows, step, j)) \cap Held(Slice(rows, step, l)) = {}
           /\ \A r \in Held(rows) :
                \E j \in 1..L : r \in Held(Slice(rows, step, j))
  <1> DEFINE At(j, i) == (j - 1) * step + i
  <1>1. ASSUME NEW j \in 1..L
        PROVE  /\ Len(Slice(rows, step, j)) = step
               /\ \A i \in 1..step :
                    /\ At(j, i) \in 1..Len(rows)
                    /\ Slice(rows, step, j)[i] = rows[At(j, i)]
    <2>1. Cut(Slice(rows, step, j), rows, R, step, (j - 1) * step)
      BY SliceIs
    <2> QED
      BY <2>1 DEF Cut
  <1>2. \A j \in 1..L : \A r : r \in Held(Slice(rows, step, j)) <=>
                \E i \in 1..step : r = rows[At(j, i)]
    <2> SUFFICES ASSUME NEW j \in 1..L
                 PROVE  \A r : r \in Held(Slice(rows, step, j)) <=>
                            \E i \in 1..step : r = rows[At(j, i)]
      OBVIOUS
    <2> DEFINE t == Slice(rows, step, j)
    <2>1. Len(t) = step /\ \A i \in 1..step : t[i] = rows[At(j, i)]
      BY <1>1
    <2> HIDE DEF t, At
    <2>2. Held(t) = {t[i] : i \in 1..step}
      BY <2>1 DEF Held
    <2>3. \A r : r \in Held(t) <=> \E i \in 1..step : r = rows[At(j, i)]
      BY <2>1, <2>2
    <2> QED
      BY <2>3 DEF t
  <1>3. ASSUME NEW j \in 1..L, NEW l \in 1..L, j < l,
               NEW i \in 1..step, NEW m \in 1..step
        PROVE  At(j, i) # At(l, m)
    <2>1. /\ (j - 1) * step \in Nat /\ j * step \in Nat
          /\ j * step = (j - 1) * step + step
      BY SliceProduct
    <2>2. (l - 1) * step \in Nat
      BY SliceProduct
    <2>3. j * step <= (l - 1) * step
      <3> DEFINE n == l - 1
      <3>1. n \in Nat /\ j \in 1..n
        BY <1>3
      <3> HIDE DEF n
      <3>2. j * step <= n * step
        BY <3>1, SliceProduct
      <3> QED
        BY <3>2 DEF n
    <2> QED
      BY <2>1, <2>2, <2>3
  <1>4. ASSUME NEW j \in 1..L PROVE Once(Slice(rows, step, j))
    <2> DEFINE t == Slice(rows, step, j)
               c == (j - 1) * step
    <2>1. c \in Nat
      BY SliceProduct
    <2>2. /\ Len(t) = step
          /\ \A i \in 1..step : c + i \in 1..Len(rows) /\ t[i] = rows[c + i]
      BY <1>1
    <2> HIDE DEF t, c
    <2>3. ASSUME NEW i \in 1..step, NEW m \in 1..step, t[i] = t[m]
          PROVE  i = m
      <3>1. rows[c + i] = rows[c + m]
        BY <2>2, <2>3
      <3>2. c + i = c + m
        BY <2>2, <3>1 DEF Once
      <3> QED
        BY <2>1, <3>2
    <2>4. Once(t)
      BY <2>2, <2>3 DEF Once
    <2> QED
      BY <2>4 DEF t
  <1>5. ASSUME NEW j \in 1..L, NEW l \in 1..L, j # l,
               NEW r, r \in Held(Slice(rows, step, j)),
               r \in Held(Slice(rows, step, l))
        PROVE  FALSE
    <2>1. PICK i \in 1..step : r = rows[At(j, i)]
      BY <1>2, <1>5
    <2>2. PICK m \in 1..step : r = rows[At(l, m)]
      BY <1>2, <1>5
    <2>3. At(j, i) # At(l, m)
      <3>1. j < l \/ l < j
        BY <1>5
      <3>2. CASE j < l
        BY <1>3, <3>2
      <3>3. CASE l < j
        <4>1. At(l, m) # At(j, i)
          BY <1>3, <3>3
        <4> QED
          BY <4>1
      <3> QED
        BY <3>1, <3>2, <3>3
    <2>4. At(j, i) \in 1..Len(rows) /\ At(l, m) \in 1..Len(rows)
      BY <1>1
    <2> HIDE DEF At
    <2> QED
      BY <2>1, <2>2, <2>3, <2>4 DEF Once
  <1>6. ASSUME NEW r \in Held(rows)
        PROVE  \E j \in 1..L : r \in Held(Slice(rows, step, j))
    <2>1. PICK n \in 1..Len(rows) : r = rows[n]
      BY DEF Held
    <2> DEFINE b == (n - 1) \div step
               m == (n - 1) % step
    <2>2. n - 1 \in Nat /\ Len(rows) \in Nat
      BY LenProperties
    <2>3. b \in Nat /\ m \in 0..(step - 1) /\ n - 1 = step * b + m
      BY <2>2, DivMod
    <2> HIDE DEF b, m
    <2>4. b + 1 \in 1..L
      <3> SUFFICES ASSUME ~(b < L) PROVE FALSE
        BY <2>3
      <3>1. step * L <= step * b
        BY <2>3, MulMono
      <3>2. step * L = L * step /\ step * b \in Nat
        BY <2>3
      <3>3. n <= L * step
        BY <2>1
      <3> QED
        BY <2>3, <3>1, <3>2, <3>3
    <2>5. m + 1 \in 1..step /\ At(b + 1, m + 1) = n
      <3>1. ((b + 1) - 1) = b /\ b * step = step * b /\ step * b \in Nat
        BY <2>3
      <3> QED
        BY <2>3, <3>1
    <2>6. r \in Held(Slice(rows, step, b + 1))
      <3> HIDE DEF At
      <3> QED
        BY <1>2, <2>1, <2>4, <2>5
    <2> QED
      BY <2>4, <2>6
  <1> QED
    BY <1>4, <1>5, <1>6

\* FlattenSeq keeps the elements, and repeats none if no sequence does
\* and no two have one in common.
LEMMA FlattenHolds ==
    ASSUME NEW R, NEW ss \in Seq(Seq(R)),
           \A j \in 1..Len(ss) : Once(ss[j]),
           \A j, l \in 1..Len(ss) : j # l => Held(ss[j]) \cap Held(ss[l]) = {}
    PROVE  /\ \A r : r \in Held(FlattenSeq(ss)) <=>
                        \E j \in 1..Len(ss) : r \in Held(ss[j])
           /\ Once(FlattenSeq(ss))
  <1> DEFINE K == Len(ss)
             t == FlattenSeq(ss)
             E(j) == Ends(ss, j - 1)
  <1>1. /\ \A j \in 1..K : \A m \in 1..Len(ss[j]) :
                E(j) + m \in 1..Len(t) /\ t[E(j) + m] = ss[j][m]
        /\ \A i \in 1..Len(t) :
                \E j \in 1..K : \E m \in 1..Len(ss[j]) : i = E(j) + m
    BY FlattenPlaces
  <1> HIDE DEF E, t, K
  <1>2. /\ \A j \in 1..K : Once(ss[j])
        /\ \A j, l \in 1..K : j # l => Held(ss[j]) \cap Held(ss[l]) = {}
    BY DEF K
  <1>3. ASSUME NEW r, r \in Held(t) PROVE \E j \in 1..K : r \in Held(ss[j])
    <2>1. PICK i \in 1..Len(t) : r = t[i]
      BY <1>3 DEF Held
    <2>2. PICK j \in 1..K : \E m \in 1..Len(ss[j]) : i = E(j) + m
      BY <1>1
    <2>3. PICK m \in 1..Len(ss[j]) : i = E(j) + m
      BY <2>2
    <2>4. r = ss[j][m]
      BY <1>1, <2>1, <2>3
    <2> QED
      BY <2>3, <2>4 DEF Held
  <1>4. ASSUME NEW r, NEW j \in 1..K, r \in Held(ss[j]) PROVE r \in Held(t)
    <2>1. PICK m \in 1..Len(ss[j]) : r = ss[j][m]
      BY <1>4 DEF Held
    <2>2. E(j) + m \in 1..Len(t) /\ t[E(j) + m] = r
      BY <1>1, <2>1
    <2> QED
      BY <2>2 DEF Held
  <1>5. ASSUME NEW i \in 1..Len(t), NEW h \in 1..Len(t), t[i] = t[h]
        PROVE  i = h
    <2>1. PICK j \in 1..K : \E m \in 1..Len(ss[j]) : i = E(j) + m
      BY <1>1
    <2>2. PICK m \in 1..Len(ss[j]) : i = E(j) + m
      BY <2>1
    <2>3. PICK l \in 1..K : \E n \in 1..Len(ss[l]) : h = E(l) + n
      BY <1>1
    <2>4. PICK n \in 1..Len(ss[l]) : h = E(l) + n
      BY <2>3
    <2>5. ss[j][m] = ss[l][n]
      BY <1>1, <1>5, <2>2, <2>4
    <2>6. ss[j][m] \in Held(ss[j]) /\ ss[l][n] \in Held(ss[l])
      BY DEF Held
    <2>7. j = l
      BY <1>2, <2>5, <2>6
    <2>8. m = n
      BY <1>2, <2>5, <2>7 DEF Once
    <2> QED
      BY <2>2, <2>4, <2>7, <2>8
  <1>6. Once(t)
    BY <1>5 DEF Once
  <1> QED
    BY <1>3, <1>4, <1>6 DEF t, K

\* As many places as numbers.
LEMMA OnceLength ==
    ASSUME NEW N \in Nat, NEW s \in Seq(1..N), Once(s), Held(s) = 1..N
    PROVE  Len(s) = N
  <1> DEFINE M == Len(s)
             f == [i \in 1..M |-> s[i]]
  <1>1. M \in Nat /\ \A i \in 1..M : s[i] \in 1..N
    BY LenProperties, ElementOfSeq
  <1>2. /\ \A i, j \in 1..M : s[i] = s[j] => i = j
        /\ \A r \in 1..N : \E i \in 1..M : s[i] = r
    BY DEF Once, Held
  <1> HIDE DEF M
  <1>3. f \in Bijection(1..M, 1..N)
    <2>1. f \in [1..M -> 1..N] /\ \A i \in 1..M : f[i] = s[i]
      BY <1>1
    <2> HIDE DEF f
    <2> QED
      BY <1>2, <2>1 DEF Bijection, Injection, Surjection, IsInjective
  <1>4. ExistsBijection(1..M, 1..N)
    BY <1>3 DEF ExistsBijection
  <1>5. /\ IsFiniteSet(1..M) /\ IsFiniteSet(1..N)
        /\ Cardinality(1..M) = M /\ Cardinality(1..N) = N
    <2>1. \A K \in Nat : IsFiniteSet(1..K) /\ Cardinality(1..K) = K
      <3> SUFFICES ASSUME NEW K \in Nat
                   PROVE  IsFiniteSet(1..K) /\ Cardinality(1..K) = K
        OBVIOUS
      <3>1. /\ IsFiniteSet(1..K)
            /\ Cardinality(1..K) = IF 1 > K THEN 0 ELSE K - 1 + 1
        BY FS_Interval
      <3> QED
        BY <3>1
    <2> QED
      BY <1>1, <2>1
  <1>6. Cardinality(1..M) = Cardinality(1..N)
    BY <1>4, <1>5, FS_Bijection
  <1> QED
    BY <1>5, <1>6 DEF M

-----------------------------------------------------------------------------
(* Sums.                                                                   *)

\* g[1] + ... + g[n].
SumTo(g, n) ==
    LET f[k \in 0..n] == IF k = 0 THEN 0 ELSE f[k - 1] + g[k] IN f[n]

\* The function that SumTo defines.
LEMMA SumUnfold ==
    ASSUME NEW g, NEW n,
           \E f : f = [k \in 0..n |-> IF k = 0 THEN 0 ELSE f[k - 1] + g[k]]
    PROVE  \E f : /\ f = [k \in 0..n |-> IF k = 0 THEN 0 ELSE f[k - 1] + g[k]]
                  /\ SumTo(g, n) = f[n]
  BY DEF SumTo

\* The sums on the way.
Adds(f, g, n) ==
    /\ f[0] = 0
    /\ \A k \in 1..n : f[k] = f[k - 1] + g[k]

\* All of them are numbers.
Numbers(g, n) == \A i \in 1..n : g[i] \in Int

\* There are such sums.
LEMMA AddsExists ==
    ASSUME NEW n \in Nat, NEW g, Numbers(g, n)
    PROVE  \E f : f \in [0..n -> Int] /\ Adds(f, g, n)
  <1> DEFINE F == [p \in Int \X (1..n) |-> p[1] + g[p[2]]]
  <1>1. \A i \in 1..n : g[i] \in Int
    BY DEF Numbers
  <1>2. F \in [Int \X (1..n) -> Int]
    BY <1>1
  <1>3. \A x \in Int, k \in 1..n : F[<<x, k>>] = x + g[k]
    OBVIOUS
  <1> HIDE DEF F
  <1>4. Steps(Int, n, 0, F)
    BY <1>2 DEF Steps
  <1>5. \E f : Runs(f, Int, n, 0, F)
    BY <1>4, RecursionExists, Zenon
  <1>6. PICK f \in [0..n -> Int] :
            f[0] = 0 /\ \A k \in 1..n : f[k] = F[<<f[k - 1], k>>]
    BY <1>5 DEF Runs
  <1>7. ASSUME NEW k \in 1..n PROVE f[k] = f[k - 1] + g[k]
    <2>1. k - 1 \in 0..n
      OBVIOUS
    <2>2. f[k - 1] \in Int
      BY <1>6, <2>1
    <2> QED
      BY <1>3, <1>6, <2>2
  <1> QED
    BY <1>6, <1>7 DEF Adds

\* Any such sums end in Sum.
LEMMA SumIs ==
    ASSUME NEW n \in Nat, NEW g, NEW f, Numbers(g, n), Adds(f, g, n)
    PROVE  SumTo(g, n) = f[n] /\ SumTo(g, n) \in Int
  <1>1. PICK e : e \in [0..n -> Int] /\ Adds(e, g, n)
    BY AddsExists
  <1>2. e = [k \in 0..n |-> IF k = 0 THEN 0 ELSE e[k - 1] + g[k]]
    <2>1. e = [k \in 0..n |-> e[k]]
      BY <1>1
    <2>2. ASSUME NEW k \in 0..n
          PROVE  e[k] = IF k = 0 THEN 0 ELSE e[k - 1] + g[k]
      <3>1. k # 0 => k \in 1..n
        OBVIOUS
      <3> QED
        BY <1>1, <3>1 DEF Adds
    <2> QED
      BY <2>1, <2>2
  <1>3. \E h : h = [k \in 0..n |-> IF k = 0 THEN 0 ELSE h[k - 1] + g[k]]
    BY <1>2, Zenon
  <1>4. PICK h : /\ h = [k \in 0..n |-> IF k = 0 THEN 0 ELSE h[k - 1] + g[k]]
                 /\ SumTo(g, n) = h[n]
    BY <1>3, SumUnfold
  <1>5. /\ 0 \in 0..n /\ n \in 0..n
        /\ \A k \in 1..n : k \in 0..n /\ k # 0
    OBVIOUS
  <1>6. /\ h[0] = 0
        /\ \A k \in 1..n : h[k] = h[k - 1] + g[k]
    <2>1. \A k \in 0..n : h[k] = IF k = 0 THEN 0 ELSE h[k - 1] + g[k]
      BY <1>4, Zenon
    <2> QED
      BY <1>5, <2>1
  <1>7. Alike(h, f, n) /\ Alike(h, e, n)
    BY <1>1, <1>6 DEF Alike, Adds
  <1>8. \A k \in 0..n : h[k] = f[k]
    BY <1>7, RecursionUnique
  <1>9. \A k \in 0..n : h[k] = e[k]
    BY <1>7, RecursionUnique
  <1> QED
    BY <1>1, <1>4, <1>5, <1>8, <1>9

\* SumTo adds one number to those before it.
LEMMA SumSteps ==
    ASSUME NEW N \in Nat, NEW g, Numbers(g, N)
    PROVE  /\ SumTo(g, 0) = 0
           /\ \A n \in 0..N : SumTo(g, n) \in Int
           /\ \A n \in 1..N : SumTo(g, n) = SumTo(g, n - 1) + g[n]
  <1>1. PICK f : f \in [0..N -> Int] /\ Adds(f, g, N)
    BY AddsExists
  <1>2. ASSUME NEW n \in 0..N PROVE SumTo(g, n) = f[n] /\ SumTo(g, n) \in Int
    <2>1. /\ n \in Nat /\ Numbers(g, n) /\ Adds(f, g, n)
      BY <1>1 DEF Numbers, Adds
    <2> QED
      BY <2>1, SumIs
  <1>3. \A n \in 1..N : n \in 0..N /\ n - 1 \in 0..N
    OBVIOUS
  <1>4. 0 \in 0..N
    OBVIOUS
  <1> QED
    BY <1>1, <1>2, <1>3, <1>4 DEF Adds

\* What does not fall below 0 adds up to no less than 0.
LEMMA SumOfNats ==
    ASSUME NEW N \in Nat, NEW g, \A i \in 1..N : g[i] \in Nat
    PROVE  \A n \in 0..N : SumTo(g, n) \in Nat
  <1> DEFINE Good == {n \in Nat : n <= N => SumTo(g, n) \in Nat}
  <1>1. Numbers(g, N)
    BY DEF Numbers
  <1>2. /\ SumTo(g, 0) = 0
        /\ \A n \in 0..N : SumTo(g, n) \in Int
        /\ \A n \in 1..N : SumTo(g, n) = SumTo(g, n - 1) + g[n]
    BY <1>1, SumSteps
  <1>3. 0 \in Good
    BY <1>2
  <1>4. ASSUME NEW n \in Good PROVE n + 1 \in Good
    <2>1. CASE n + 1 <= N
      <3>1. n + 1 \in 1..N /\ (n + 1) - 1 = n /\ SumTo(g, n) \in Nat
        BY <2>1
      <3>2. SumTo(g, n + 1) = SumTo(g, n) + g[n + 1] /\ g[n + 1] \in Nat
        BY <1>2, <3>1
      <3> QED
        BY <3>1, <3>2
    <2>2. CASE ~(n + 1 <= N)
      BY <2>2
    <2> QED
      BY <2>1, <2>2
  <1>5. Good = Nat
    <2> HIDE DEF Good
    <2>1. Good \in SUBSET Nat
      BY DEF Good
    <2> QED
      BY <1>3, <1>4, <2>1, Induction
  <1> QED
    BY <1>5

\* Equal numbers have equal sums.
LEMMA SumSame ==
    ASSUME NEW N \in Nat, NEW g, NEW h, Numbers(g, N),
           \A i \in 1..N : g[i] = h[i]
    PROVE  SumTo(g, N) = SumTo(h, N)
  <1>1. PICK f : f \in [0..N -> Int] /\ Adds(f, g, N)
    BY AddsExists
  <1>2. Numbers(h, N) /\ Adds(f, h, N)
    BY <1>1 DEF Numbers, Adds
  <1>3. SumTo(g, N) = f[N]
    BY <1>1, SumIs
  <1>4. SumTo(h, N) = f[N]
    BY <1>2, SumIs
  <1> QED
    BY <1>3, <1>4

\* One number is another.
LEMMA SumUpdate ==
    ASSUME NEW N \in Nat, NEW g, NEW h, Numbers(g, N), Numbers(h, N),
           NEW j \in 1..N, \A i \in 1..N : i # j => g[i] = h[i]
    PROVE  SumTo(h, N) = (SumTo(g, N) - g[j]) + h[j]
  <1> DEFINE d == h[j] - g[j]
             Good == {n \in Nat : n <= N =>
                        SumTo(h, n) = IF n < j THEN SumTo(g, n) ELSE SumTo(g, n) + d}
  <1>1. /\ g[j] \in Int /\ h[j] \in Int /\ d \in Int
        /\ g[j] + d = h[j]
        /\ \A i \in 1..N : g[i] \in Int /\ h[i] \in Int
    BY DEF Numbers
  <1>2. /\ SumTo(g, 0) = 0
        /\ \A n \in 0..N : SumTo(g, n) \in Int
        /\ \A n \in 1..N : SumTo(g, n) = SumTo(g, n - 1) + g[n]
    BY SumSteps
  <1>3. /\ SumTo(h, 0) = 0
        /\ \A n \in 0..N : SumTo(h, n) \in Int
        /\ \A n \in 1..N : SumTo(h, n) = SumTo(h, n - 1) + h[n]
    BY SumSteps
  <1> HIDE DEF d
  <1>4. 0 \in Good
    BY <1>2, <1>3
  <1>5. ASSUME NEW n \in Good PROVE n + 1 \in Good
    <2>1. CASE n + 1 <= N
      <3>1. /\ n + 1 \in 1..N /\ (n + 1) - 1 = n /\ n \in 0..N
            /\ SumTo(h, n) = IF n < j THEN SumTo(g, n) ELSE SumTo(g, n) + d
        BY <2>1
      <3>2. /\ SumTo(g, n + 1) = SumTo(g, n) + g[n + 1]
            /\ SumTo(h, n + 1) = SumTo(h, n) + h[n + 1]
            /\ SumTo(g, n) \in Int /\ g[n + 1] \in Int /\ h[n + 1] \in Int
        BY <1>1, <1>2, <1>3, <3>1
      <3>3. CASE n + 1 = j
        <4>1. n < j /\ ~(n + 1 < j)
          BY <3>3
        <4>2. h[n + 1] = g[n + 1] + d
          BY <1>1, <3>3
        <4>3. SumTo(h, n + 1) = SumTo(g, n + 1) + d
          BY <1>1, <3>1, <3>2, <4>1, <4>2
        <4> QED
          BY <4>1, <4>3
      <3>4. CASE n + 1 # j
        <4>1. h[n + 1] = g[n + 1] /\ (n < j <=> n + 1 < j)
          BY <3>1, <3>4
        <4>2. SumTo(h, n + 1)
                = IF n + 1 < j THEN SumTo(g, n + 1) ELSE SumTo(g, n + 1) + d
          BY <1>1, <3>1, <3>2, <4>1
        <4> QED
          BY <4>2
      <3> QED
        BY <3>3, <3>4
    <2>2. CASE ~(n + 1 <= N)
      BY <2>2
    <2> QED
      BY <2>1, <2>2
  <1>6. Good = Nat
    <2> HIDE DEF Good
    <2>1. Good \in SUBSET Nat
      BY DEF Good
    <2> QED
      BY <1>4, <1>5, <2>1, Induction
  <1>7. SumTo(h, N) = SumTo(g, N) + d /\ SumTo(g, N) \in Int
    BY <1>2, <1>6
  <1> QED
    BY <1>1, <1>7

\* The numbers may come in any order.
LEMMA SumPermutes ==
    ASSUME NEW N \in Nat, NEW g, NEW h, NEW p, Numbers(g, N),
           Reorders(p, N), \A i \in 1..N : h[i] = g[p[i]]
    PROVE  SumTo(h, N) = SumTo(g, N)
  <1> DEFINE Through(n, v, q) == [i \in 1..n |-> v[q[i]]]
             Holds(n) == \A v \in [1..n -> Int] : \A q \in [1..n -> 1..n] :
                            Reorders(q, n) =>
                                SumTo(Through(n, v, q), n) = SumTo(v, n)
             Good == {n \in Nat : Holds(n)}
  <1>1. 0 \in Good
    <2>1. ASSUME NEW v \in [1..0 -> Int], NEW q \in [1..0 -> 1..0]
          PROVE  SumTo(Through(0, v, q), 0) = SumTo(v, 0)
      <3>1. Numbers(v, 0) /\ Numbers(Through(0, v, q), 0) /\ 0 \in Nat
        BY DEF Numbers
      <3> HIDE DEF Through
      <3>2. SumTo(v, 0) = 0
        BY <3>1, SumSteps
      <3>3. SumTo(Through(0, v, q), 0) = 0
        BY <3>1, SumSteps
      <3> QED
        BY <3>2, <3>3
    <2> QED
      BY <2>1
  <1>2. ASSUME NEW n \in Good PROVE n + 1 \in Good
    <2> DEFINE m == n + 1
    <2>a. Holds(n) /\ n \in Nat
      OBVIOUS
    <2>b. m \in Nat /\ (Holds(m) => n + 1 \in Good)
      <3> HIDE DEF Holds
      <3> QED
        OBVIOUS
    <2> HIDE DEF Good
    <2> SUFFICES ASSUME NEW v \in [1..m -> Int], NEW q \in [1..m -> 1..m],
                        Reorders(q, m)
                 PROVE  SumTo(Through(m, v, q), m) = SumTo(v, m)
      <3>1. Holds(m)
        OBVIOUS
      <3> HIDE DEF Holds
      <3> QED
        BY <2>b, <3>1
    <2>1. n \in Nat /\ m \in Nat /\ m \in 1..m /\ m - 1 = n
          /\ \A i \in 1..m : i # m => i \in 1..n
      BY <2>a
    <2>n. \A i \in 1..n : i \in 1..m /\ i # m
      BY <2>a
    <2>2. PICK j \in 1..m : q[j] = m
      BY <2>1 DEF Reorders
    <2> DEFINE r == [i \in 1..n |-> IF i = j THEN q[m] ELSE q[i]]
               w == [i \in 1..n |-> v[i]]
               h1 == Through(m, v, q)
               h2 == Through(n, w, r)
    <2> HIDE DEF m
    <2>3. \A i \in 1..n : /\ r[i] = IF i = j THEN q[m] ELSE q[i]
                          /\ r[i] \in 1..n
      <3> SUFFICES ASSUME NEW i \in 1..n PROVE r[i] \in 1..n
        OBVIOUS
      <3>1. i \in 1..m /\ i # m
        BY <2>n
      <3>2. i # j => q[i] # m
        BY <2>2, <3>1 DEF Reorders
      <3>3. i = j => q[m] # m
        BY <2>1, <2>2, <3>1 DEF Reorders
      <3>4. r[i] \in 1..m /\ r[i] # m
        BY <2>1, <3>1, <3>2, <3>3
      <3> QED
        BY <2>1, <3>4
    <2>4. r \in [1..n -> 1..n]
      BY <2>3
    <2>5. Reorders(r, n)
      <3> HIDE DEF r
      <3>1. ASSUME NEW i \in 1..n, NEW k \in 1..n, r[i] = r[k] PROVE i = k
        <4>1. i \in 1..m /\ k \in 1..m /\ i # m /\ k # m
          BY <2>n
        <4>2. /\ r[i] = IF i = j THEN q[m] ELSE q[i]
              /\ r[k] = IF k = j THEN q[m] ELSE q[k]
          BY <2>3
        <4>3. \A a, b \in 1..m : q[a] = q[b] => a = b
          BY DEF Reorders
        <4> QED
          BY <2>1, <3>1, <4>1, <4>2, <4>3, ZenonT(60)
      <3>2. ASSUME NEW k \in 1..n PROVE \E i \in 1..n : r[i] = k
        <4>1. k \in 1..m /\ k # m
          BY <2>n
        <4>2. PICK i \in 1..m : q[i] = k
          BY <4>1 DEF Reorders
        <4>3. i # j
          BY <2>2, <4>1, <4>2
        <4>4. CASE i = m
          <5>1. j \in 1..n
            BY <2>1, <4>3, <4>4
          <5>2. r[j] = k
            BY <2>3, <4>2, <4>4, <5>1
          <5> QED
            BY <5>1, <5>2
        <4>5. CASE i # m
          <5>1. i \in 1..n
            BY <2>1, <4>5
          <5>2. r[i] = k
            BY <2>3, <4>2, <4>3, <5>1
          <5> QED
            BY <5>1, <5>2
        <4> QED
          BY <4>4, <4>5
      <3> QED
        BY <2>4, <3>1, <3>2 DEF Reorders
    <2>6. w \in [1..n -> Int] /\ \A i \in 1..n : w[i] = v[i]
      BY <2>n
    <2>7. SumTo(h2, n) = SumTo(w, n)
      BY <2>a, <2>4, <2>5, <2>6
    <2>8. /\ \A i \in 1..m : h1[i] = v[q[i]] /\ h1[i] \in Int
          /\ \A i \in 1..n : h2[i] = v[r[i]] /\ h2[i] \in Int
      <3>1. \A i \in 1..n : h2[i] = w[r[i]]
        OBVIOUS
      <3>2. \A i \in 1..n : w[r[i]] = v[r[i]] /\ w[r[i]] \in Int
        BY <2>3, <2>6
      <3> HIDE DEF h2, r, w
      <3> QED
        BY <3>1, <3>2
    <2> HIDE DEF h1, h2, r, w, Through, Holds
    <2>9. Numbers(v, m) /\ Numbers(h1, m) /\ Numbers(h1, n) /\ Numbers(h2, n)
          /\ Numbers(w, n) /\ Numbers(v, n)
      BY <2>n, <2>6, <2>8 DEF Numbers
    <2>10. SumTo(v, m) = SumTo(v, n) + v[m] /\ SumTo(v, n) \in Int /\ v[m] \in Int
      <3>1. /\ \A i \in 0..m : SumTo(v, i) \in Int
            /\ \A i \in 1..m : SumTo(v, i) = SumTo(v, i - 1) + v[i]
        BY <2>1, <2>9, SumSteps, ZenonT(60)
      <3>2. n \in 0..m
        BY <2>1
      <3> QED
        BY <2>1, <3>1, <3>2
    <2>11. /\ SumTo(h1, m) = SumTo(h1, n) + h1[m]
           /\ SumTo(h1, n) \in Int /\ h1[m] \in Int
      <3>1. /\ \A i \in 0..m : SumTo(h1, i) \in Int
            /\ \A i \in 1..m : SumTo(h1, i) = SumTo(h1, i - 1) + h1[i]
        BY <2>1, <2>9, SumSteps, ZenonT(60)
      <3>2. n \in 0..m
        BY <2>1
      <3> QED
        BY <2>1, <2>8, <3>1, <3>2
    <2>12. SumTo(v, n) = SumTo(w, n)
      BY <2>1, <2>6, <2>9, SumSame
    <2>13. CASE j = m
      <3>1. \A i \in 1..n : h1[i] = h2[i]
        <4> SUFFICES ASSUME NEW i \in 1..n PROVE h1[i] = h2[i]
          OBVIOUS
        <4>1. i \in 1..m /\ i # m /\ r[i] = q[i]
          BY <2>n, <2>3, <2>13
        <4> QED
          BY <2>8, <4>1
      <3>2. SumTo(h1, n) = SumTo(h2, n)
        BY <2>1, <2>9, <3>1, SumSame
      <3>3. h1[m] = v[m]
        BY <2>1, <2>2, <2>8, <2>13
      <3> QED
        BY <2>7, <2>10, <2>11, <2>12, <3>2, <3>3 DEF h1
    <2>14. CASE j # m
      <3>1. j \in 1..n
        BY <2>1, <2>14
      <3>2. \A i \in 1..n : i # j => h1[i] = h2[i]
        <4> SUFFICES ASSUME NEW i \in 1..n, i # j PROVE h1[i] = h2[i]
          OBVIOUS
        <4>1. i \in 1..m /\ r[i] = q[i]
          BY <2>n, <2>3
        <4> QED
          BY <2>8, <4>1
      <3>3. SumTo(h2, n) = (SumTo(h1, n) - h1[j]) + h2[j]
        BY <2>1, <2>9, <3>1, <3>2, SumUpdate
      <3>4. h1[j] = v[m] /\ h2[j] = h1[m]
        <4>1. r[j] = q[m]
          BY <2>3, <3>1
        <4> QED
          BY <2>1, <2>2, <2>8, <3>1, <4>1
      <3> QED
        BY <2>7, <2>10, <2>11, <2>12, <3>3, <3>4 DEF h1
    <2> QED
      BY <2>13, <2>14
  <1>3. Good = Nat
    <2> HIDE DEF Good
    <2>1. Good \in SUBSET Nat
      BY DEF Good
    <2> QED
      BY <1>1, <1>2, <2>1, Induction
  <1> DEFINE v == [i \in 1..N |-> g[i]]
  <1>4. v \in [1..N -> Int] /\ \A i \in 1..N : v[i] = g[i]
    BY DEF Numbers
  <1>5. p \in [1..N -> 1..N]
    BY DEF Reorders
  <1>6. SumTo(Through(N, v, p), N) = SumTo(v, N)
    <2> HIDE DEF Through, v
    <2> QED
      BY <1>3, <1>4, <1>5
  <1>7. \A i \in 1..N : /\ Through(N, v, p)[i] = v[p[i]] /\ p[i] \in 1..N
                        /\ v[p[i]] = h[i] /\ v[p[i]] \in Int
    BY <1>4, <1>5
  <1> HIDE DEF Through, v
  <1>8. Numbers(Through(N, v, p), N) /\ Numbers(v, N)
    BY <1>4, <1>7 DEF Numbers
  <1>9. SumTo(Through(N, v, p), N) = SumTo(h, N)
    BY <1>7, <1>8, SumSame
  <1>10. SumTo(v, N) = SumTo(g, N)
    BY <1>4, <1>8, SumSame
  <1> QED
    BY <1>6, <1>9, <1>10
=============================================================================
