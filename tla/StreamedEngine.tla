--------------------------- MODULE StreamedEngine ---------------------------
(***************************************************************************)
(* The checkpoint engines that stream the weights of the trainer to the    *)
(* rollout workers through two buffers on every process: NCCL, where one   *)
(* broadcast serves all, and NIXL, where each process reads from the one   *)
(* before it and is read by the next (verl/checkpoint_engine, files        *)
(* nccl_checkpoint_engine.py and nixl_checkpoint_engine.py).               *)
(*                                                                         *)
(* Rank 0 is the trainer.  While an operation is under way its copy may    *)
(* happen at any moment.  Messages arrive, and in order.                   *)
(***************************************************************************)
EXTENDS WeightTransfer

VARIABLES
    buf,      \* the two buffers of each rank
    half,     \* which of them is its send_buf
    packed,   \* weights the trainer has put into buckets
    offset,   \* of the bucket it is filling
    metadata, \* of the bucket a rank fills (trainer) or hands out (worker)
    is_last,  \* whether that is the last bucket
    pc,       \* where send_weights or receive_weights is
    out,      \* its operation that lets others have send_buf
    in,       \* its operation that fills recv_buf
    inbox     \* bucket metadata sent to a rank

streamVars == <<transferVars, buf, half, packed, offset, metadata, is_last,
                pc, out, in, inbox>>

Ranks == 0..Receivers

Idle == [pc |-> "idle"]

StreamInit ==
    /\ buf = [r \in Ranks |-> [h \in {0, 1} |-> [i \in Cells |-> 0]]]
    /\ half = [r \in Ranks |-> 0]
    /\ packed = 0
    /\ offset = 0
    /\ metadata = [r \in Ranks |-> <<>>]
    /\ is_last = [r \in Ranks |-> FALSE]
    /\ pc = [r \in Ranks |-> IF r = 0 THEN "fill" ELSE "first"]
    /\ out = [r \in Ranks |-> Idle]
    /\ in = [r \in Ranks |-> Idle]
    /\ inbox = [r \in Ranks |-> <<>>]

-----------------------------------------------------------------------------
(* Operations.                                                             *)

\* Who has the buffer of a rank: all workers, or the next in the chain.
Readers(r) ==
    IF backend = "nccl"
    THEN IF r = 0 THEN Workers ELSE {}
    ELSE {r + 1} \cap Workers

\* BroadcastOperation of the trainer, ReadableOperation: the metadata are
\* sent, the buffer is open to the readers.
Open(r, bucket, last) ==
    /\ out' = [out EXCEPT ![r] = [pc |-> "open", half |-> half[r]]]
    /\ inbox' = [q \in Ranks |->
                    IF q \in Readers(r)
                    THEN Append(inbox[q], [bucket |-> bucket, last |-> last])
                    ELSE inbox[q]]

\* BroadcastOperation of a worker, ReadOperation: into recv_buf.
Join(q) ==
    /\ inbox[q] # <<>>
    /\ in[q].pc = "posted"
    /\ in' = [in EXCEPT ![q] = [pc |-> "joined", half |-> @.half,
                                meta |-> Head(inbox[q])]]
    /\ inbox' = [inbox EXCEPT ![q] = Tail(@)]
    /\ UNCHANGED <<backend, size, buf, half, packed, offset, metadata,
                   is_last, pc, out, loaded>>

Posted(q) == [in EXCEPT ![q] = [pc |-> "posted", half |-> 1 - half[q]]]

\* The copy, when every reader takes part; it ends the operation on both
\* sides (broadcast returns, the reader's notification arrives).
Transfer(r) ==
    /\ out[r].pc = "open"
    /\ \A q \in Readers(r) : in[q].pc = "joined"
    /\ buf' = [q \in Ranks |->
                IF q \in Readers(r)
                THEN [buf[q] EXCEPT ![in[q].half] = buf[r][out[r].half]]
                ELSE buf[q]]
    /\ in' = [q \in Ranks |->
                IF q \in Readers(r) THEN [in[q] EXCEPT !.pc = "complete"]
                ELSE in[q]]
    /\ out' = [out EXCEPT ![r] = Idle]
    /\ UNCHANGED <<backend, size, half, packed, offset, metadata, is_last, pc,
                   inbox, loaded>>

\* Mutant: wait_for_complete is not awaited.
NotAwaited(r) == TRUE

\* wait_for_complete of what others read.
OutComplete(r) == out[r] = Idle

InComplete(q) == in[q].pc = "complete"

-----------------------------------------------------------------------------
(* The trainer: send_weights.                                              *)

\* Mutant: the bucket may be overrun by one cell.
FitsOffByOne(w) == offset + size[w] <= BucketSize + 1

Fits(w) == offset + size[w] <= BucketSize

\* The next weight is copied into the bucket.
Fill ==
    /\ pc[0] = "fill"
    /\ packed < NumWeights
    /\ Fits(packed + 1)
    /\ buf' = [buf EXCEPT ![0][half[0]] = Write(@, offset, packed + 1)]
    /\ metadata' = [metadata EXCEPT ![0] =
                        Append(@, [name |-> packed + 1, offset |-> offset])]
    /\ packed' = packed + 1
    /\ offset' = offset + size[packed + 1]
    /\ UNCHANGED <<backend, size, half, is_last, pc, out, in, inbox, loaded>>

\* The bucket is full: when the one before it has arrived it is sent, and
\* the other buffer is filled.
SendBucket ==
    /\ pc[0] = "fill"
    /\ packed < NumWeights
    /\ ~Fits(packed + 1)
    /\ OutComplete(0)
    /\ Open(0, metadata[0], FALSE)
    /\ half' = [half EXCEPT ![0] = 1 - @]
    /\ metadata' = [metadata EXCEPT ![0] = <<>>]
    /\ offset' = 0
    /\ UNCHANGED <<backend, size, buf, packed, is_last, pc, in, loaded>>

SendLastBucket ==
    /\ pc[0] = "fill"
    /\ packed = NumWeights
    /\ OutComplete(0)
    /\ Open(0, metadata[0], TRUE)
    /\ pc' = [pc EXCEPT ![0] = "flush"]
    /\ UNCHANGED <<backend, size, buf, half, packed, offset, metadata,
                   is_last, in, loaded>>

\* A trainer or worker whose last buffer others have read returns.
Return(r) ==
    /\ pc[r] = "flush"
    /\ OutComplete(r)
    /\ pc' = [pc EXCEPT ![r] = "returned"]
    /\ UNCHANGED <<backend, size, buf, half, packed, offset, metadata,
                   is_last, out, in, inbox, loaded>>

-----------------------------------------------------------------------------
(* A worker: receive_weights.                                              *)

ReceiveFirst(q) ==
    /\ pc[q] = "first"
    /\ in' = Posted(q)
    /\ pc' = [pc EXCEPT ![q] = "wait"]
    /\ UNCHANGED <<backend, size, buf, half, packed, offset, metadata,
                   is_last, out, inbox, loaded>>

\* Mutant: the buffers are not swapped.
KeepBuffers(q) == half

\* The bucket received becomes the one to hand out.
SwapBuffers(q) == [half EXCEPT ![q] = 1 - @]

\* The next bucket is there, and nobody reads the last one any more.
BucketReceived(q) ==
    /\ pc[q] = "wait"
    /\ InComplete(q)
    /\ OutComplete(q)
    /\ half' = SwapBuffers(q)
    /\ metadata' = [metadata EXCEPT ![q] = in[q].meta.bucket]
    /\ is_last' = [is_last EXCEPT ![q] = in[q].meta.last]
    /\ in' = [in EXCEPT ![q] = Idle]
    /\ pc' = [pc EXCEPT ![q] = "forward"]
    /\ UNCHANGED <<backend, size, buf, packed, offset, out, inbox, loaded>>

\* The bucket is opened to the next process and the next one asked for.
Forward(q) ==
    /\ pc[q] = "forward"
    /\ IF Readers(q) # {} THEN Open(q, metadata[q], is_last[q])
       ELSE UNCHANGED <<out, inbox>>
    /\ in' = IF is_last[q] THEN in ELSE Posted(q)
    /\ pc' = [pc EXCEPT ![q] = "yield"]
    /\ UNCHANGED <<backend, size, buf, half, packed, offset, metadata,
                   is_last, loaded>>

\* NIXL reads the metadata of the next bucket before it hands out this one,
\* NCCL in the thread of the broadcast.
YieldWeight(q) ==
    /\ pc[q] = "yield"
    /\ backend = "nixl" /\ ~is_last[q] => in[q].pc # "posted"
    /\ metadata[q] # <<>>
    /\ Load(q, buf[q][half[q]], Head(metadata[q]))
    /\ metadata' = [metadata EXCEPT ![q] = Tail(@)]
    /\ UNCHANGED <<backend, size, buf, half, packed, offset, is_last, pc, out,
                   in, inbox>>

BucketHandedOut(q) ==
    /\ pc[q] = "yield"
    /\ metadata[q] = <<>>
    /\ pc' = [pc EXCEPT ![q] = IF is_last[q] THEN "flush" ELSE "wait"]
    /\ UNCHANGED <<backend, size, buf, half, packed, offset, metadata,
                   is_last, out, in, inbox, loaded>>

Send == Fill \/ SendBucket \/ SendLastBucket \/ Return(0)

Receive(q) == \/ ReceiveFirst(q) \/ BucketReceived(q) \/ Forward(q)
              \/ YieldWeight(q) \/ BucketHandedOut(q) \/ Return(q)

Operate(r) == Join(r) \/ Transfer(r)

StreamNext == \/ Send
              \/ \E q \in Workers : Receive(q)
              \/ \E r \in Ranks : Operate(r)

\* Processes and the transport go on.
StreamFairness ==
    /\ WF_streamVars(Send)
    /\ \A q \in Workers : WF_streamVars(Receive(q))
    /\ \A r \in Ranks : WF_streamVars(Operate(r))
=============================================================================
