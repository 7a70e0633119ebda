------------------------- MODULE BucketedBroadcast -------------------------
(***************************************************************************)
(* The checkpoint engine of the fully asynchronous trainer: every process  *)
(* of the trainer keeps a share of the weights in buckets, and all         *)
(* processes walk the same list of buckets, each broadcast by its owner    *)
(* (register_checkpoint and update_checkpoint in                           *)
(* verl/experimental/fully_async_policy/checkpoint_engine.py).             *)
(*                                                                         *)
(* With backend "broadcast" a bucket is loaded before the next one is      *)
(* broadcast; with "overlapped" a thread of each process loads it from one *)
(* half of the buffer while the next one fills the other half, and answers *)
(* over a REQ/REP socket.  Ranks are shifted so that the rollout workers   *)
(* are 1..Receivers in every engine.  A broadcast ends on all processes at *)
(* once: how it is queued on the devices is left to the library.           *)
(***************************************************************************)
EXTENDS WeightTransfer, SequencesExt

CONSTANT NumActors \* how many processes of the trainer

ASSUME ActorsAssumption == NumActors \in Nat \ {0}

VARIABLES
    schedule,    \* the buckets with their owners, in the order of broadcasts
    stage,       \* where update_checkpoint of each process is
    gidx,        \* how many broadcasts it has behind it
    load_buffer, \* its broadcast_load_buffer
    views,       \* plain: weights of the bucket it has yet to load
    request      \* overlapped: what its loading thread was last sent

broadcastVars == <<transferVars, schedule, stage, gidx, load_buffer, views,
                   request>>

ActorRanks == (1 - NumActors)..0
Members == ActorRanks \union Workers

-----------------------------------------------------------------------------
(* register_checkpoint.                                                    *)

\* The only rank that stores a weight.
AssignRank(w) == (1 - NumActors) + ((w - 1) % NumActors)

SizeOf(bucket) ==
    LET sum[n \in 0..Len(bucket)] ==
            IF n = 0 THEN 0 ELSE sum[n - 1] + size[bucket[n]]
    IN  sum[Len(bucket)]

FitsInto(bucket, w) == SizeOf(bucket) + size[w] <= BucketSize

\* The weight goes into its owner's last bucket or opens a new one.
PutWeight(buckets, w) ==
    LET a == AssignRank(w)
    IN  [buckets EXCEPT ![a] = IF FitsInto(Last(@), w)
                               THEN Front(@) \o <<Append(Last(@), w)>>
                               ELSE Append(@, <<w>>)]

\* The buckets when the first n weights are in them.
Registered[n \in 0..NumWeights] ==
    IF n = 0 THEN [a \in ActorRanks |-> <<(<<>>)>>]
    ELSE PutWeight(Registered[n - 1], n)

GlobalBuckets == Registered[NumWeights]

\* Mutant: the rank with the fewest buckets decides.
FewestRounds(buckets) ==
    CHOOSE n \in {Len(buckets[a]) : a \in ActorRanks} :
        \A a \in ActorRanks : n <= Len(buckets[a])

\* get_max_buckets_num_per_rank.
Rounds(buckets) ==
    CHOOSE n \in {Len(buckets[a]) : a \in ActorRanks} :
        \A a \in ActorRanks : Len(buckets[a]) <= n

\* for i in range(max_h2d_iter): for broadcast_rank, _buckets in ...
BroadcastOrder(buckets) ==
    LET Turn(i, a) == IF i <= Len(buckets[a])
                      THEN <<[owner |-> a, bucket |-> buckets[a][i]]>>
                      ELSE <<>>
        Round(i) == FlattenSeq([k \in 1..NumActors |-> Turn(i, k - NumActors)])
    IN  FlattenSeq([i \in 1..Rounds(buckets) |-> Round(i)])

\* Nothing sent yet.
NoRequest == [pc |-> "idle", metas |-> <<>>]

BroadcastInit ==
    /\ schedule = BroadcastOrder(GlobalBuckets)
    /\ stage = [p \in Members |-> "prepare"]
    /\ gidx = [p \in Members |-> 0]
    /\ load_buffer = [p \in Members |-> [i \in 1..(2 * BucketSize) |-> 0]]
    /\ views = [p \in Members |-> <<>>]
    \* The thread's first request, empty, is under way.
    /\ request = [p \in Members |-> [pc |-> "sent", metas |-> <<>>]]

-----------------------------------------------------------------------------
(* update_checkpoint.                                                      *)

\* The bucket a process is at.
Current(p) == schedule[gidx[p] + 1]

\* Mutant: both buckets use one half.
SameHalf(g) == 0

\* Which half of the buffer a broadcast fills.
Start(g) == IF backend = "overlapped" THEN (g % 2) * BucketSize ELSE 0

\* _to_flattened_tensor_meta: where the weights of a bucket are.
Metas(bucket, start) ==
    [k \in 1..Len(bucket) |->
        [name |-> bucket[k],
         offset |-> start + SizeOf(SubSeq(bucket, 1, k - 1))]]

\* The buffer with all weights of a bucket in it, written one by one.
Filled(buffer, metas) ==
    LET Writers(i) == {k \in DOMAIN metas :
                        i \in (metas[k].offset + 1)
                              ..(metas[k].offset + size[metas[k].name])}
    IN  [i \in DOMAIN buffer |-> IF Writers(i) = {} THEN buffer[i]
                                 ELSE metas[Max(Writers(i))].name]

\* The owner copies its bucket to the place it is broadcast from.
Prepare(p) ==
    /\ stage[p] = "prepare"
    /\ gidx[p] < Len(schedule)
    /\ stage' = [stage EXCEPT ![p] = "broadcast"]
    /\ load_buffer' =
            IF p = Current(p).owner
            THEN [load_buffer EXCEPT ![p] =
                    Filled(@, Metas(Current(p).bucket, Start(gidx[p])))]
            ELSE load_buffer
    /\ UNCHANGED <<transferVars, schedule, gidx, views, request>>

\* collective.broadcast, when every process has called it.
Broadcast ==
    /\ \A p \in Members : stage[p] = "broadcast"
    /\ \E a \in ActorRanks :
        LET start == Start(gidx[a])
            part == (start + 1)..(start + SizeOf(Current(a).bucket))
        IN  /\ a = Current(a).owner
            /\ load_buffer' =
                    [p \in Members |->
                        [i \in 1..(2 * BucketSize) |->
                            IF i \in part THEN load_buffer[a][i]
                            ELSE load_buffer[p][i]]]
    /\ stage' = [p \in Members |->
                    CASE backend = "overlapped" -> "recv"
                      [] backend # "overlapped" /\ p \in Workers -> "load"
                      [] OTHER -> "prepare"]
    /\ views' = [p \in Members |->
                    IF backend = "broadcast" /\ p \in Workers
                    THEN Metas(Current(p).bucket, 0) ELSE views[p]]
    /\ gidx' = IF backend = "overlapped" THEN gidx
               ELSE [p \in Members |-> IF p \in Workers THEN gidx[p]
                                       ELSE gidx[p] + 1]
    /\ UNCHANGED <<transferVars, schedule, request>>

\* Plain: a worker loads the bucket itself, weight by weight.
LoadDirectly(p) ==
    /\ stage[p] = "load"
    /\ views[p] # <<>>
    /\ Load(p, load_buffer[p], Head(views[p]))
    /\ views' = [views EXCEPT ![p] = Tail(@)]
    /\ UNCHANGED <<backend, size, schedule, stage, gidx, load_buffer,
                   request>>

BucketLoaded(p) ==
    /\ stage[p] = "load"
    /\ views[p] = <<>>
    /\ stage' = [stage EXCEPT ![p] = "prepare"]
    /\ gidx' = [gidx EXCEPT ![p] = @ + 1]
    /\ UNCHANGED <<transferVars, schedule, load_buffer, views, request>>

\* socket.recv: the thread has answered, it is done with the last bucket.
Answered(p) == request[p].pc = "answered"

Recv(p) ==
    /\ stage[p] = "recv"
    /\ Answered(p)
    /\ stage' = [stage EXCEPT ![p] = "barrier"]
    /\ UNCHANGED <<transferVars, schedule, gidx, load_buffer, views, request>>

\* collective.barrier, in the loop and at the end.
Barrier ==
    /\ \E here \in {"barrier", "end_barrier"} :
        \A p \in Members : stage[p] = here
    /\ stage' = [p \in Members |-> IF stage[p] = "barrier" THEN "send"
                                   ELSE "returned"]
    /\ UNCHANGED <<transferVars, schedule, gidx, load_buffer, views, request>>

\* socket.send_pyobj: the thread is told where the weights are.
SendMetas(p) ==
    /\ stage[p] = "send"
    /\ request' = [request EXCEPT ![p] =
                    [pc |-> "sent",
                     metas |-> Metas(Current(p).bucket, Start(gidx[p]))]]
    /\ gidx' = [gidx EXCEPT ![p] = @ + 1]
    /\ stage' = [stage EXCEPT ![p] = "prepare"]
    /\ UNCHANGED <<transferVars, schedule, load_buffer, views>>

\* After the last broadcast: the thread finishes its last bucket, is told
\* to end, and is joined.
LoopOver(p) ==
    /\ stage[p] = "prepare"
    /\ gidx[p] = Len(schedule)
    /\ backend = "overlapped" => Answered(p)
    /\ stage' = [stage EXCEPT ![p] = IF backend = "overlapped" THEN "join"
                                     ELSE "end_barrier"]
    /\ request' = IF backend = "overlapped"
                  THEN [request EXCEPT ![p] = [NoRequest EXCEPT !.pc = "sent"]]
                  ELSE request
    /\ UNCHANGED <<transferVars, schedule, gidx, load_buffer, views>>

JoinThread(p) ==
    /\ stage[p] = "join"
    /\ Answered(p)
    /\ stage' = [stage EXCEPT ![p] = "end_barrier"]
    /\ UNCHANGED <<transferVars, schedule, gidx, load_buffer, views, request>>

-----------------------------------------------------------------------------
(* The thread: update_weights_from_ipc_.                                   *)

\* Only a rollout worker has a model to load into.
ThreadLoads(p) ==
    /\ request[p].pc = "sent"
    /\ p \in Workers
    /\ request[p].metas # <<>>
    /\ Load(p, load_buffer[p], Head(request[p].metas))
    /\ request' = [request EXCEPT ![p].metas = Tail(@)]
    /\ UNCHANGED <<backend, size, schedule, stage, gidx, load_buffer, views>>

ThreadAnswers(p) ==
    /\ backend = "overlapped"
    /\ request[p].pc = "sent"
    /\ p \in Workers => request[p].metas = <<>>
    /\ request' = [request EXCEPT ![p] = [pc |-> "answered", metas |-> <<>>]]
    /\ UNCHANGED <<transferVars, schedule, stage, gidx, load_buffer, views>>

-----------------------------------------------------------------------------

UpdateCheckpoint(p) ==
    \/ Prepare(p) \/ LoadDirectly(p) \/ BucketLoaded(p) \/ Recv(p)
    \/ SendMetas(p) \/ LoopOver(p) \/ JoinThread(p)

Thread(p) == ThreadLoads(p) \/ ThreadAnswers(p)

BroadcastNext ==
    \/ Broadcast
    \/ Barrier
    \/ \E p \in Members : UpdateCheckpoint(p) \/ Thread(p)

\* Processes, their threads and the collectives go on.
BroadcastFairness ==
    /\ WF_broadcastVars(Broadcast)
    /\ WF_broadcastVars(Barrier)
    /\ \A p \in Members : /\ WF_broadcastVars(UpdateCheckpoint(p))
                          /\ WF_broadcastVars(Thread(p))
=============================================================================
