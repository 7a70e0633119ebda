-------------------------- MODULE DistributedBatch --------------------------
(***************************************************************************)
(* One pass of a batch through a group of workers and back: the driver     *)
(* balances or pads it and cuts it into chunks, every worker gets the      *)
(* chunk of its data-parallel rank, splits it into micro-batches, computes *)
(* and puts its results back in order, and the driver joins the results of *)
(* one worker for each chunk to the batch it has kept.  From               *)
(* RayPPOTrainer._balance_batch and ._validate (trainer/ppo/ray_trainer.py)*)
(* protocol.py, single_controller/base/decorator.py,                       *)
(* DataParallelPPOActor.compute_log_prob (workers/actor/dp_actor.py) and   *)
(* AgentLoopManager.generate_sequences (experimental/agent_loop).          *)
(*                                                                         *)
(* A batch that is trained goes to the actor's worker group, one that is   *)
(* validated to the agent loop workers: async_rollout_mode is always on.   *)
(* _balance_batch(keep_minibatch=True), which nothing in the repository    *)
(* calls for, is left out: it balances each mini-batch by itself, so that  *)
(* the work of two ranks may differ by as many rows as there are           *)
(* mini-batches, and drops the rows behind the last full one.              *)
(*                                                                         *)
(* A row is a sample and its length; what a worker computes for a row is   *)
(* named by the sample.                                                    *)
(***************************************************************************)
EXTENDS SequenceBalancing

CONSTANTS
    DpSize,      \* data-parallel ranks
    Replicas,    \* workers of each (tensor, sequence or pipeline parallel)
    AgentWorkers, \* rollout.agent.num_workers
    BatchSizes,  \* how many rows a trained batch may have
    ValSizes,    \* how many rows a validated batch may have
    GroupSize,   \* rows of one uid in a trained batch (rollout.n)
    MaxSeqlen,   \* bound of the length of a row
    MaxTokenLen  \* max_token_len of a micro-batch

ASSUME BatchAssumption ==
    /\ {DpSize, Replicas, AgentWorkers} \subseteq Nat \ {0}
    /\ {GroupSize, MaxSeqlen, MaxTokenLen} \subseteq Nat \ {0}
    /\ BatchSizes \subseteq Nat \ {0} /\ ValSizes \subseteq Nat \ {0}
    /\ \A n \in BatchSizes : n % (DpSize * GroupSize) = 0
    /\ MaxTokenLen >= MaxSeqlen

VARIABLES
    mode,     \* what is done with the batch
    layout,   \* of the data-parallel ranks over the workers
    batch,    \* the driver's rows
    size,     \* how many there were before padding
    phase,    \* what the driver does next
    chunk,    \* the rows of each worker
    stage,    \* what each worker does next
    count,    \* its number of micro-batches
    order,    \* its micro-batches
    computed, \* what it has computed, in the order of its micro-batches
    results   \* what the driver gets

vars == <<mode, layout, batch, size, phase, chunk, stage, count, order,
          computed, results>>

Modes == {"plain", "balanced", "grouped", "validate"}

\* Into how many chunks the batch is cut, and how many workers get each: the
\* agent loop workers one, the actor's workers that of their rank.
Width == IF mode = "validate" THEN AgentWorkers ELSE DpSize
Copies == IF mode = "validate" THEN 1 ELSE Replicas
Workers == 0..(Width * Copies - 1)

Batches(sizes) ==
    UNION {[1..n -> 1..MaxSeqlen] : n \in sizes}

Init ==
    /\ mode \in Modes
    /\ layout \in {"dp_outer", "dp_inner"}
    /\ \E lens \in Batches(IF mode = "validate" THEN ValSizes ELSE BatchSizes) :
        /\ batch = [i \in DOMAIN lens |-> [sample |-> i, len |-> lens[i]]]
        /\ size = Len(lens)
    /\ phase = "prepare"
    /\ chunk = [w \in Workers |-> <<>>]
    /\ stage = [w \in Workers |-> "idle"]
    /\ count = [w \in Workers |-> 0]
    /\ order = [w \in Workers |-> <<>>]
    /\ computed = [w \in Workers |-> <<>>]
    /\ results = <<>>

Lens(rows) == [i \in DOMAIN rows |-> rows[i].len]
Work == [i \in DOMAIN batch |-> Workload(batch[i].len)]

\* The uid of a row: the rows of a prompt are neighbours when they come from
\* the rollout.
Uid(row) == (row.sample - 1) \div GroupSize

-----------------------------------------------------------------------------
(* The driver: before.                                                     *)

\* Mutant: the batch is not reordered.
AsItWas == batch

\* Mutant: rows are balanced one by one, whatever uid they have.
RowByRow ==
    LET idx == FlattenSeq(BalancedPartitions(Work, DpSize, TRUE))
    IN  [i \in 1..Len(idx) |-> batch[idx[i]]]

\* _balance_batch.
Reordered ==
    LET parts ==
            IF mode = "grouped" THEN GroupPartitions(Work, GroupSize, DpSize)
            ELSE LET p == BalancedPartitions(Work, DpSize, TRUE)
                 IN  [j \in DOMAIN p |-> LongestInMiddle(Work, p[j])]
        idx == FlattenSeq(parts)
    IN  [i \in 1..Len(idx) |-> batch[idx[i]]]

\* pad_dataproto_to_divisor: rows from the beginning, as often as it takes.
Padded(divisor) ==
    LET pad == (divisor - (Len(batch) % divisor)) % divisor
    IN  batch \o [i \in 1..pad |-> batch[((i - 1) % Len(batch)) + 1]]

\* A batch that is validated is padded to a multiple of the agent loop
\* workers, one that is trained is balanced if balance_batch says so.
Prepare ==
    /\ phase = "prepare"
    /\ batch' = CASE mode = "plain" -> batch
                  [] mode = "validate" -> Padded(AgentWorkers)
                  [] OTHER -> Reordered
    /\ phase' = "dispatch"
    /\ UNCHANGED <<mode, layout, size, chunk, stage, count, order, computed,
                   results>>

\* dp_rank_mapping: the mesh has the data-parallel dimension first (FSDP) or
\* within the pipeline's (Megatron).
DpRank(w) == IF layout = "dp_outer" THEN w \div Copies ELSE w % Width

\* Mutant: the results of all workers are collected.
CollectAll(w) == TRUE

\* collect_mask: the first worker of a rank, or the pipeline's last stage.
IsCollect(w) == IF layout = "dp_outer" THEN w % Copies = 0
                ELSE w \div Width = Copies - 1

\* DataProto.chunk.
ChunkOf(rank) ==
    LET n == Len(batch) \div Width
    IN  SubSeq(batch, rank * n + 1, (rank + 1) * n)

\* dispatch_nd_compute, and the agent loop manager's own.
Dispatch ==
    /\ phase = "dispatch"
    /\ Len(batch) % Width = 0
    /\ chunk' = [w \in Workers |-> ChunkOf(DpRank(w))]
    /\ stage' = [w \in Workers |-> IF mode = "validate" THEN "generate"
                                   ELSE "count"]
    /\ phase' = "wait"
    /\ UNCHANGED <<mode, layout, batch, size, count, order, computed, results>>

-----------------------------------------------------------------------------
(* A worker.                                                               *)

Samples(rows) == [i \in DOMAIN rows |-> rows[i].sample]

\* An agent loop worker gathers the outputs of the loops of its rows.
Generate(w) ==
    /\ stage[w] = "generate"
    /\ computed' = [computed EXCEPT ![w] = Samples(chunk[w])]
    /\ stage' = [stage EXCEPT ![w] = "returned"]
    /\ UNCHANGED <<mode, layout, batch, size, phase, chunk, count, order,
                   results>>

CountMicroBatches(w) ==
    /\ stage[w] = "count"
    /\ count' = [count EXCEPT ![w] =
                    MicroBatchesNeeded(Lens(chunk[w]), MaxTokenLen)]
    /\ stage' = [stage EXCEPT ![w] = "reduce"]
    /\ UNCHANGED <<mode, layout, batch, size, phase, chunk, order, computed,
                   results>>

\* Mutant: every worker goes by its own number.
OwnCount(w) == count[w]

\* The largest number, of all workers.
Reduced(w) == CHOOSE n \in {count[v] : v \in Workers} :
                \A v \in Workers : count[v] <= n

\* dist.all_reduce.
AllReduce ==
    /\ \A w \in Workers : stage[w] = "reduce"
    /\ count' = [w \in Workers |-> Reduced(w)]
    /\ stage' = [w \in Workers |-> "split"]
    /\ UNCHANGED <<mode, layout, batch, size, phase, chunk, order, computed,
                   results>>

\* prepare_dynamic_batch; its assertions hold.
Split(w) ==
    LET micro == MicroBatches(Lens(chunk[w]), count[w])
    IN  /\ stage[w] = "split"
        /\ count[w] <= Len(chunk[w])
        /\ Partitions(micro, Len(chunk[w]))
        /\ order' = [order EXCEPT ![w] = micro]
        /\ stage' = [stage EXCEPT ![w] = "forward"]
        /\ UNCHANGED <<mode, layout, batch, size, phase, chunk, count,
                       computed, results>>

\* How many micro-batches a worker has behind it.
Behind(w) == CHOOSE n \in 0..Len(order[w]) :
                Len(FlattenSeq(SubSeq(order[w], 1, n))) = Len(computed[w])

\* A forward pass gathers the sharded parameters of all workers: all make
\* it, each for its next micro-batch, or nobody gets on.
Forward ==
    /\ \A w \in Workers : stage[w] = "forward" /\ Behind(w) < Len(order[w])
    /\ computed' = [w \in Workers |->
                        LET rows == order[w][Behind(w) + 1]
                        IN  computed[w] \o [i \in DOMAIN rows |->
                                                chunk[w][rows[i]].sample]]
    /\ stage' = [w \in Workers |-> IF Behind(w) + 1 = Len(order[w])
                                   THEN "restore" ELSE "forward"]
    /\ UNCHANGED <<mode, layout, batch, size, phase, chunk, count, order,
                   results>>

RestoreOrder(w) ==
    /\ stage[w] = "restore"
    /\ computed' = [computed EXCEPT ![w] = Restore(@, FlattenSeq(order[w]))]
    /\ stage' = [stage EXCEPT ![w] = "returned"]
    /\ UNCHANGED <<mode, layout, batch, size, phase, chunk, count, order,
                   results>>

-----------------------------------------------------------------------------
(* The driver: after.                                                      *)

\* collect_nd_compute or ray.get of all, and DataProto.concat, in the order
\* of the workers.
Collected ==
    FlattenSeq([i \in 1..(Width * Copies) |->
                    IF IsCollect(i - 1) THEN computed[i - 1] ELSE <<>>])

\* Mutant: the padding stays in the results.
StillPadded(rows) == rows

\* unpad_dataproto.
Unpadded(rows) == SubSeq(rows, 1, Len(rows) - (Len(batch) - size))

\* The driver's own batch was not changed by padding.
Collect ==
    /\ phase = "wait"
    /\ \A w \in Workers : stage[w] = "returned"
    /\ results' = Unpadded(Collected)
    /\ batch' = SubSeq(batch, 1, size)
    /\ phase' = "done"
    /\ UNCHANGED <<mode, layout, size, chunk, stage, count, order, computed>>

Worker(w) == Generate(w) \/ CountMicroBatches(w) \/ Split(w) \/ RestoreOrder(w)

\* The pass is over; every other state without a step is a deadlock.
Over == phase = "done" /\ UNCHANGED vars

Next == \/ Prepare \/ Dispatch \/ Collect \/ AllReduce \/ Forward \/ Over
        \/ \E w \in Workers : Worker(w)

Spec == Init /\ [][Next]_vars

-----------------------------------------------------------------------------
(* Correctness.                                                            *)

\* When the results are joined to the batch, every row gets the result that
\* was computed for it, however the rows were moved, repeated, split and
\* copied on the way.
ResultsMatch == phase = "done" => results = Samples(batch)

\* Rows of one uid reach the same rank when they are balanced as a group.
GroupsStayTogether ==
    mode = "grouped" =>
        \A v, w \in Workers :
            \A i \in DOMAIN chunk[v], j \in DOMAIN chunk[w] :
                Uid(chunk[v][i]) = Uid(chunk[w][j]) => DpRank(v) = DpRank(w)

\* The work of the rows of a chunk.
ChunkWork(w) == Total([i \in DOMAIN chunk[w] |-> Workload(chunk[w][i].len)],
                      UpTo(Len(chunk[w])))

\* Balancing leaves the work of no two ranks further apart than that of the
\* longest row is from the shortest.
WellBalanced ==
    mode = "balanced" =>
        \A v, w \in Workers :
            \E i, j \in DOMAIN batch :
                ChunkWork(v) - ChunkWork(w)
                    <= Workload(batch[i].len) - Workload(batch[j].len)

\* No worker is left waiting in a forward pass that another does not make:
\* once they are split, all have the same number of micro-batches to go.
LockStep ==
    \A v, w \in Workers :
        {stage[v], stage[w]} \subseteq {"forward", "restore", "returned"}
            => Len(order[v]) = Len(order[w])
=============================================================================
