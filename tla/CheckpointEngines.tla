------------------------- MODULE CheckpointEngines -------------------------
(***************************************************************************)
(* The engines that carry the trainer's weights to the rollout workers,    *)
(* one of which a configuration chooses, and what all of them promise.     *)
(***************************************************************************)
EXTENDS StreamedEngine, BucketedBroadcast

engineVars == <<transferVars, streamVars, broadcastVars>>

Streams == backend \in {"nccl", "nixl"}

Init == TransferInit /\ StreamInit /\ BroadcastInit

StreamStep ==
    /\ Streams
    /\ StreamNext
    /\ UNCHANGED <<schedule, stage, gidx, load_buffer, views, request>>

BroadcastStep ==
    /\ ~Streams
    /\ BroadcastNext
    /\ UNCHANGED <<buf, half, packed, offset, metadata, is_last, pc, out, in,
                   inbox>>

Next == StreamStep \/ BroadcastStep

Spec == Init /\ [][Next]_engineVars

FairSpec == Spec /\ (IF Streams THEN StreamFairness ELSE BroadcastFairness)

-----------------------------------------------------------------------------

\* Metadata of a weight in a buffer of n cells.
Meta(n) == [name : Weights, offset : 0..(n - 1)]

Message == [bucket : Seq(Meta(BucketSize)), last : BOOLEAN]

\* The variables have their types, and no bucket overruns its buffer.
TypeOK ==
    /\ backend \in Backends
    /\ size \in [Weights -> Cells]
    /\ loaded \in [Workers -> Seq(Weights \union {0})]
    /\ buf \in [Ranks -> [{0, 1} -> [Cells -> Weights \union {0}]]]
    /\ half \in [Ranks -> {0, 1}]
    /\ packed \in 0..NumWeights
    /\ offset \in 0..BucketSize
    /\ metadata \in [Ranks -> Seq(Meta(BucketSize))]
    /\ is_last \in [Ranks -> BOOLEAN]
    /\ pc \in [Ranks -> {"fill", "first", "wait", "forward", "yield",
                         "flush", "returned"}]
    /\ inbox \in [Ranks -> Seq(Message)]
    /\ stage \in [Members -> {"prepare", "broadcast", "load", "recv",
                              "barrier", "send", "join", "end_barrier",
                              "returned"}]
    /\ gidx \in [Members -> 0..Len(schedule)]
    /\ views \in [Members -> Seq(Meta(BucketSize))]
    /\ request \in [Members -> [pc : {"sent", "answered"},
                                metas : Seq(Meta(2 * BucketSize))]]

\* A transfer ends: every process returns, and each worker has all weights.
AllArrive ==
    <>(/\ AllLoaded
       /\ IF Streams THEN \A r \in Ranks : pc[r] = "returned"
          ELSE \A p \in Members : stage[p] = "returned")
=============================================================================
