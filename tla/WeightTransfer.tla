--------------------------- MODULE WeightTransfer ---------------------------
(***************************************************************************)
(* What all the engines that bring the weights of the trainer to the       *)
(* rollout workers have in common: weights are packed into byte buffers of *)
(* a fixed size, travel in them, and are handed to the model of each       *)
(* worker as views into its buffer (verl/checkpoint_engine/base.py and     *)
(* verl/experimental/fully_async_policy/checkpoint_engine.py).             *)
(*                                                                         *)
(* A buffer is an array of cells.  A weight is known by its number, the    *)
(* place it has in the trainer's list, and fills as many cells as its size *)
(* says; a cell holds the number of the weight whose bytes are in it, or 0.*)
(***************************************************************************)
EXTENDS Integers, Sequences

CONSTANTS
    Receivers,  \* how many rollout workers, ranks 1..Receivers
    NumWeights, \* how many weights, in the trainer's order
    BucketSize  \* cells of a bucket

ASSUME TransferAssumption ==
    Receivers \in Nat \ {0} /\ NumWeights \in Nat \ {0}
    /\ BucketSize \in Nat \ {0}

VARIABLES
    backend, \* the engine that is configured
    size,    \* of each weight, at most a bucket
    loaded   \* what each worker's model was handed, as it was then

transferVars == <<backend, size, loaded>>

Backends == {"nccl", "nixl", "broadcast", "overlapped"}

Workers == 1..Receivers
Weights == 1..NumWeights
Cells == 1..BucketSize

TransferInit ==
    /\ backend \in Backends
    /\ size \in [Weights -> Cells]
    /\ loaded = [q \in Workers |-> <<>>]

\* Write a weight into a buffer, behind offset.
Write(buffer, offset, w) ==
    [i \in DOMAIN buffer |->
        IF i \in (offset + 1)..(offset + size[w]) THEN w ELSE buffer[i]]

\* The weight that a view into a buffer shows: 0 if it is not, or not all,
\* the one that the metadata name.
Value(buffer, meta) ==
    IF \A i \in (meta.offset + 1)..(meta.offset + size[meta.name]) :
            buffer[i] = meta.name
    THEN meta.name ELSE 0

\* load_weights with one weight.
Load(q, buffer, meta) ==
    loaded' = [loaded EXCEPT ![q] = Append(@, Value(buffer, meta))]

-----------------------------------------------------------------------------
(* Correctness.                                                            *)

\* Every worker is handed each weight at most once and with its own bytes,
\* although the buffers are filled again while the weights travel and while
\* the model loads from them.
WeightsIntact ==
    \A q \in Workers : \A i \in 1..Len(loaded[q]) :
        /\ loaded[q][i] \in Weights
        /\ \A j \in 1..(i - 1) : loaded[q][j] # loaded[q][i]

\* Each worker has as many weights as there are.
AllLoaded == \A q \in Workers : Len(loaded[q]) = NumWeights
=============================================================================
