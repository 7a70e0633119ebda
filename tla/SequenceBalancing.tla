------------------------- MODULE SequenceBalancing -------------------------
(***************************************************************************)
(* How rows of different lengths are divided among processes and among the *)
(* micro-batches of a process (verl/utils/seqlen_balancing.py).            *)
(*                                                                         *)
(* Rows are numbered from 1; a partition is a sequence of sequences of     *)
(* row numbers.                                                            *)
(***************************************************************************)
EXTENDS Integers, FiniteSets, SequencesExt

\* calculate_workload of a row.
Workload(len) == 24576 * len + len * len

Total(values, rows) ==
    LET sum[n \in 0..Len(rows)] ==
            IF n = 0 THEN 0 ELSE sum[n - 1] + values[rows[n]]
    IN  sum[Len(rows)]

CeilDiv(a, b) == (a + b - 1) \div b

UpTo(n) == [i \in 1..n |-> i]

Pairs(s) == (DOMAIN s) \X (DOMAIN s)

\* sorted(s), stable: every element goes in behind those before it that it
\* is not smaller than.  less holds the pairs of places of s whose first
\* element is smaller than the second.
Sorted(s, less) ==
    LET Place(n) == Cardinality({i \in 1..(n - 1) : <<n, i>> \notin less}) + 1
        sorted[n \in 0..Len(s)] ==
            IF n = 0 THEN <<>> ELSE InsertAt(sorted[n - 1], Place(n), s[n])
    IN  sorted[Len(s)]

-----------------------------------------------------------------------------
(* karmarkar_karp, the largest differencing method.  A state is a sequence *)
(* of k sets, the one with the largest sum first.                          *)

EmptySet == [sum |-> 0, rows |-> <<>>]

\* Set.__lt__; sets of a state have no row in common, so the first row
\* decides between lists of rows.
SetLess(a, b) ==
    \/ a.sum < b.sum
    \/ a.sum = b.sum /\ Len(a.rows) < Len(b.rows)
    \/ a.sum = b.sum /\ Len(a.rows) = Len(b.rows) /\ a.rows # <<>>
       /\ Head(a.rows) < Head(b.rows)

Decreasing(sets) ==
    Sorted(sets, {p \in Pairs(sets) : SetLess(sets[p[2]], sets[p[1]])})

\* State.__init__: one row in each of the first sets.
StateOf(values, rows, k) ==
    Decreasing([j \in 1..k |->
                    IF j <= Len(rows)
                    THEN [sum |-> values[rows[j]], rows |-> <<rows[j]>>]
                    ELSE EmptySet])

Spread(state) == state[1].sum - Last(state).sum

\* State.__lt__: the widest spread first, then the largest set.
Before(s, t) ==
    \/ Spread(s) > Spread(t)
    \/ Spread(s) = Spread(t) /\ SetLess(t[1], s[1])

\* State.merge: the largest sets meet the smallest.
Merge(s, t) ==
    Decreasing([j \in DOMAIN s |->
        LET other == t[Len(s) + 1 - j]
        IN  [sum |-> s[j].sum + other.sum, rows |-> s[j].rows \o other.rows]])

\* The first two states of the queue become one.
MergeFirst(states) ==
    LET queue == Sorted(states, {p \in Pairs(states) :
                                    Before(states[p[1]], states[p[2]])})
    IN  <<Merge(queue[1], queue[2])>> \o SubSeq(queue, 3, Len(queue))

\* Rows by increasing value.
Increasing(values, rows) ==
    LET Less(i, j) == \/ values[i] < values[j]
                      \/ values[i] = values[j] /\ i < j
    IN  Sorted(rows, {p \in Pairs(rows) : Less(rows[p[1]], rows[p[2]])})

\* The states to begin with: of k rows each, or of one.
FirstStates(values, k, equal_size) ==
    LET rows == Increasing(values, UpTo(Len(values)))
        step == IF equal_size THEN k ELSE 1
    IN  [j \in 1..(Len(rows) \div step) |->
            StateOf(values, SubSeq(rows, (j - 1) * step + 1, j * step), k)]

KarmarkarKarp(values, k, equal_size) ==
    LET first == FirstStates(values, k, equal_size)
        queue[n \in 0..(Len(first) - 1)] ==
            IF n = 0 THEN first ELSE MergeFirst(queue[n - 1])
        final == queue[Len(first) - 1]
    IN  [j \in 1..k |-> final[1][j].rows]

\* get_seqlen_balanced_partitions: the rows of a part in their order.
BalancedPartitions(values, k, equal_size) ==
    LET parts == KarmarkarKarp(values, k, equal_size)
    IN  [j \in 1..k |->
            Sorted(parts[j], {p \in Pairs(parts[j]) :
                                parts[j][p[1]] < parts[j][p[2]]})]

\* What _check_and_sort_partitions asserts of the parts.
Partitions(parts, n) ==
    /\ \A j \in DOMAIN parts : parts[j] # <<>>
    /\ {FlattenSeq(parts)[i] : i \in 1..Len(FlattenSeq(parts))} = 1..n

-----------------------------------------------------------------------------
(* Orders.                                                                 *)

\* Python's s[start::2].
EverySecond(s, start) ==
    [i \in 1..((Len(s) + 1 - start) \div 2) |-> s[start + 2 * i - 1]]

\* _balance_batch: the longest rows of a part in the middle.
LongestInMiddle(values, rows) ==
    LET ordered == Increasing(values, rows)
    IN  EverySecond(ordered, 0) \o Reverse(EverySecond(ordered, 1))

\* get_group_balanced_partitions for groups of n neighbouring rows.
GroupPartitions(values, n, k) ==
    LET groups == [g \in 1..(Len(values) \div n) |->
                    Total(values, [i \in 1..n |-> (g - 1) * n + i])]
        parts == BalancedPartitions(groups, k, TRUE)
    IN  [j \in 1..k |->
            FlattenSeq([g \in DOMAIN parts[j] |->
                    [i \in 1..n |-> (parts[j][g] - 1) * n + i]])]

\* rearrange_micro_batches: the number of micro-batches this process needs.
MicroBatchesNeeded(lens, max_token_len) ==
    LET tokens == Total(lens, UpTo(Len(lens)))
        n == CeilDiv(tokens, max_token_len)
    IN  IF n < Len(lens) THEN n ELSE Len(lens)

\* Micro-batches of the rows, the smaller ones at both ends.
MicroBatches(lens, n) ==
    LET work == [i \in DOMAIN lens |-> Workload(lens[i])]
        Heavier(p, q) == \/ Total(work, p) > Total(work, q)
                         \/ Total(work, p) = Total(work, q) /\ p[1] > q[1]
        parts == BalancedPartitions(work, n, FALSE)
        ordered == Sorted(parts, {p \in Pairs(parts) :
                                    Heavier(parts[p[1]], parts[p[2]])})
    IN  Reverse(EverySecond(ordered, 0)) \o EverySecond(ordered, 1)

\* Mutant: the order is applied where its inverse is due.
Unreversed(rows) == rows

\* get_reverse_idx: where each row has gone.
ReverseIdx(rows) ==
    [i \in 1..Len(rows) |-> CHOOSE j \in 1..Len(rows) : rows[j] = i]

\* restore_dynamic_batch.
Restore(values, rows) ==
    LET back == ReverseIdx(rows) IN [i \in 1..Len(rows) |-> values[back[i]]]
=============================================================================
