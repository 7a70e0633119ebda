---------------------- MODULE CheckpointEnginesProofs ----------------------
(***************************************************************************)
(* Proof that every engine hands every worker whole weights, each once,    *)
(* for any number of workers, trainer processes, weights, and cells.       *)
(*                                                                         *)
(* For the streaming engines (NCCL, NIXL) the invariant follows a weight   *)
(* from the trainer's bucket to the model: what a process has given equals *)
(* what its readers have taken and are told of (Order); a reader is told   *)
(* of a bucket exactly while the buffer that holds it is open (Flight);    *)
(* whoever fills a buffer, fills the one that is not open and not being    *)
(* loaded from (Control, Buffers).                                         *)
(*                                                                         *)
(* For the engines that broadcast, the schedule that register_checkpoint   *)
(* and the loops of update_checkpoint make has every weight at most once   *)
(* and no bucket that overruns (ScheduleSound); all processes have the     *)
(* same number of broadcasts behind them; a worker's buffer shows the      *)
(* bucket it loads from, and its next half the one that has arrived        *)
(* (Sound); what it has loaded are the places of the schedule behind it    *)
(* (Handed).                                                               *)
(***************************************************************************)
EXTENDS CheckpointEngines, SequenceFacts

-----------------------------------------------------------------------------
(* The invariant of the engines that stream.                               *)

\* Metadata of a weight, and a message with a bucket of them.
Place == Meta(BucketSize)
Note == [bucket : Seq(Place), last : BOOLEAN]
Halves == {0, 1}

\* Operations under way: a buffer let to others, asked for, being filled.
Opening == [pc : {"open"}, half : Halves]
Awaiting == [pc : {"posted"}, half : Halves]
Holding == [pc : {"joined", "complete"}, half : Halves, meta : Note]

\* The process that a worker reads from.
Up(q) == IF backend = "nccl" THEN 0 ELSE q - 1

\* A buffer shows the weights that the metadata of a bucket name.
Shows(buffer, bucket) ==
    \A k \in 1..Len(bucket) :
        \A i \in (bucket[k].offset + 1)
                    ..(bucket[k].offset + size[bucket[k].name]) :
            buffer[i] = bucket[k].name

\* A bucket with the weights behind the first n.
Behind(bucket, n) == \A k \in 1..Len(bucket) : bucket[k].name = n + k

\* The bucket a worker reads or has read, and the one it has been told of.
InBucket(q) == IF in[q] \in Holding THEN in[q].meta.bucket ELSE <<>>
BoxBucket(q) == IF inbox[q] = <<>> THEN <<>> ELSE inbox[q][1].bucket

\* How many weights a process has given to its readers, and has been given.
Given(r) ==
    IF r = 0 THEN IF pc[0] = "fill" THEN packed - Len(metadata[0]) ELSE packed
    ELSE Len(loaded[r]) + (IF pc[r] = "forward" THEN 0 ELSE Len(metadata[r]))

Taken(q) == Len(loaded[q]) + Len(metadata[q]) + Len(InBucket(q))

Types ==
    /\ backend \in {"nccl", "nixl"}
    /\ size \in [Weights -> Cells]
    /\ loaded \in [Workers -> Seq(Weights \union {0})]
    /\ buf \in [Ranks -> [Halves -> [Cells -> Weights \union {0}]]]
    /\ half \in [Ranks -> Halves]
    /\ packed \in 0..NumWeights
    /\ offset \in 0..BucketSize
    /\ metadata \in [Ranks -> Seq(Place)]
    /\ is_last \in [Ranks -> BOOLEAN]
    /\ pc \in [Ranks -> {"fill", "first", "wait", "forward", "yield",
                         "flush", "returned"}]
    /\ out \in [Ranks -> {Idle} \union Opening]
    /\ in \in [Ranks -> {Idle} \union Awaiting \union Holding]
    /\ inbox \in [Ranks -> Seq(Note)]

\* Which operations are under way at which point of a process, and on which
\* of its buffers.
Control ==
    /\ pc[0] \in {"fill", "flush", "returned"}
    /\ in[0] = Idle
    /\ pc[0] = "fill" /\ out[0] # Idle => out[0].half = 1 - half[0]
    /\ \A q \in Workers :
        /\ pc[q] # "fill"
        /\ pc[q] \in {"first", "wait"} => metadata[q] = <<>>
        /\ pc[q] \in {"first", "forward"} => in[q] = Idle
        /\ pc[q] = "forward" => out[q] = Idle
        /\ in[q] # Idle => in[q].half = 1 - half[q]
        /\ out[q] # Idle => out[q].half = half[q]

\* A worker has been told of a bucket exactly while it is open to it.
Flight ==
    \A q \in Workers :
        IF out[Up(q)] = Idle
        THEN inbox[q] = <<>> /\ in[q].pc # "joined"
        ELSE LET buffer == buf[Up(q)][out[Up(q)].half]
             IN  \/ /\ Len(inbox[q]) = 1 /\ in[q].pc # "joined"
                    /\ Shows(buffer, inbox[q][1].bucket)
                 \/ /\ inbox[q] = <<>> /\ in[q].pc = "joined"
                    /\ Shows(buffer, in[q].meta.bucket)

\* Buffers show what the metadata of the buckets in them say.
Buffers ==
    /\ pc[0] = "fill" =>
        /\ Shows(buf[0][half[0]], metadata[0])
        /\ \A k \in 1..Len(metadata[0]) :
            metadata[0][k].offset + size[metadata[0][k].name] <= offset
    /\ \A q \in Workers :
        /\ pc[q] \in {"forward", "yield"} => Shows(buf[q][half[q]], metadata[q])
        /\ in[q].pc = "complete" => Shows(buf[q][in[q].half], in[q].meta.bucket)

\* Every process is given the weights in their order.
Order ==
    /\ pc[0] = "fill" => /\ Len(metadata[0]) <= packed
                         /\ Behind(metadata[0], packed - Len(metadata[0]))
    /\ \A q \in Workers :
        /\ \A i \in 1..Len(loaded[q]) : loaded[q][i] = i
        /\ Behind(metadata[q], Len(loaded[q]))
        /\ Behind(InBucket(q), Len(loaded[q]) + Len(metadata[q]))
        /\ Behind(BoxBucket(q), Taken(q))
        /\ Given(Up(q)) = Taken(q) + Len(BoxBucket(q))

StreamInv == Types /\ Control /\ Flight /\ Buffers /\ Order

-----------------------------------------------------------------------------
(* What it is built from, and that it holds at the start.                  *)

LEMMA Sizes ==
    /\ Receivers \in Nat \ {0} /\ NumWeights \in Nat \ {0}
    /\ BucketSize \in Nat \ {0}
    /\ Workers \subseteq Ranks /\ 0 \in Ranks /\ 0 \notin Workers
    /\ Ranks = Workers \union {0}
    /\ \A w \in Weights : w \in Nat \ {0}
    /\ \A c \in Cells : c \in Nat \ {0}
  BY TransferAssumption DEF Workers, Ranks, Weights, Cells

\* A worker is a reader of one process only.
LEMMA ReadersUp ==
    ASSUME backend \in {"nccl", "nixl"}
    PROVE  /\ \A r \in Ranks : Readers(r) \subseteq Workers
           /\ \A q \in Workers : Up(q) \in Ranks /\ Up(q) # q
           /\ \A q \in Workers, r \in Ranks : q \in Readers(r) <=> r = Up(q)
  BY Sizes DEF Readers, Up, Workers, Ranks

LEMMA IdlePc ==
    /\ Idle.pc = "idle" /\ Idle \notin Opening
    /\ Idle \notin Awaiting /\ Idle \notin Holding
    /\ \A o \in Holding : o \notin Awaiting
  BY DEF Idle, Opening, Awaiting, Holding

\* How many weights a worker has taken is a number.
LEMMA Counts ==
    ASSUME Types, NEW q \in Workers
    PROVE  /\ Len(loaded[q]) \in Nat /\ Len(metadata[q]) \in Nat
           /\ InBucket(q) \in Seq(Place) /\ Len(InBucket(q)) \in Nat
           /\ Taken(q) \in Nat
  <1>1. /\ loaded[q] \in Seq(Weights \union {0}) /\ metadata[q] \in Seq(Place)
        /\ in[q] \in Holding => in[q].meta.bucket \in Seq(Place)
    BY Sizes DEF Types, Holding, Note
  <1>2. InBucket(q) \in Seq(Place)
    BY <1>1 DEF InBucket
  <1>3. /\ Len(loaded[q]) \in Nat /\ Len(metadata[q]) \in Nat
        /\ Len(InBucket(q)) \in Nat
    BY <1>1, <1>2, LenProperties
  <1>4. \A a, b, c \in Nat : a + b + c \in Nat
    OBVIOUS
  <1>5. Taken(q) \in Nat
    BY <1>3, <1>4, Zenon DEF Taken
  <1> QED
    BY <1>2, <1>3, <1>5

\* The sequence of one element.
LEMMA Single ==
    ASSUME NEW S, NEW s \in Seq(S), Len(s) = 1
    PROVE  Head(s) = s[1] /\ s[1] \in S /\ Tail(s) = <<>>
  <1>1. s # <<>> /\ 1 \in 1..Len(s)
    BY EmptySeq
  <1>2. Head(s) = s[1] /\ s[1] \in S
    BY <1>1, HeadTailProperties, ElementOfSeq
  <1>3. Tail(s) \in Seq(S) /\ Len(Tail(s)) = 0
    BY <1>1, HeadTailProperties
  <1> QED
    BY <1>2, <1>3, EmptySeq

LEMMA StreamInvInit ==
    ASSUME TransferInit, StreamInit, Streams
    PROVE  StreamInv
  <1> USE DEF TransferInit, StreamInit, Streams
  <1>1. Types
    <2>1. /\ backend \in {"nccl", "nixl"}
          /\ size \in [Weights -> Cells]
          /\ packed \in 0..NumWeights /\ offset \in 0..BucketSize
      BY Sizes
    <2>2. /\ loaded \in [Workers -> Seq(Weights \union {0})]
          /\ metadata \in [Ranks -> Seq(Place)]
          /\ inbox \in [Ranks -> Seq(Note)]
      OBVIOUS
    <2>3. buf \in [Ranks -> [Halves -> [Cells -> Weights \union {0}]]]
      BY DEF Halves
    <2>4. /\ half \in [Ranks -> Halves]
          /\ is_last \in [Ranks -> BOOLEAN]
          /\ pc \in [Ranks -> {"fill", "first", "wait", "forward", "yield",
                               "flush", "returned"}]
          /\ out \in [Ranks -> {Idle} \union Opening]
          /\ in \in [Ranks -> {Idle} \union Awaiting \union Holding]
      BY DEF Halves
    <2> QED
      BY <2>1, <2>2, <2>3, <2>4 DEF Types
  <1>2. Control
    BY Sizes DEF Control
  <1>3. Flight
    BY Sizes, ReadersUp, IdlePc DEF Flight
  <1>4. Buffers
    BY Sizes, IdlePc DEF Buffers, Shows
  <1>5. Order
    <2>1. \A q \in Workers : InBucket(q) = <<>> /\ BoxBucket(q) = <<>>
      BY Sizes, IdlePc DEF InBucket, BoxBucket
    <2>2. \A q \in Workers : loaded[q] = <<>> /\ metadata[q] = <<>>
      BY Sizes
    <2>3. pc[0] = "fill" /\ packed = 0 /\ metadata[0] = <<>>
      BY Sizes
    <2>4. Len(<<>>) = 0 /\ 1..0 = {}
      OBVIOUS
    <2>5. \A r \in Ranks : Given(r) = 0
      <3>1. Given(0) = 0
        BY <2>3, <2>4 DEF Given
      <3>2. \A q \in Workers :
                q # 0 /\ Len(loaded[q]) = 0 /\ Len(metadata[q]) = 0
        BY Sizes, <2>2, <2>4
      <3>3. ASSUME NEW q \in Workers PROVE Given(q) = 0
        BY <3>2 DEF Given
      <3> QED
        BY Sizes, <3>1, <3>3
    <2>6. \A q \in Workers : Taken(q) = 0
      BY <2>1, <2>2, <2>4 DEF Taken
    <2> QED
      BY Sizes, ReadersUp, <2>1, <2>2, <2>3, <2>4, <2>5, <2>6 DEF Order, Behind
  <1> QED
    BY <1>1, <1>2, <1>3, <1>4, <1>5 DEF StreamInv

-----------------------------------------------------------------------------
(* Steps that move no weight.                                              *)

\* The order holds on while nobody gives or takes a weight.
LEMMA OrderStays ==
    ASSUME Order, UNCHANGED <<backend, loaded, packed, metadata>>,
           \A q \in Workers : InBucket(q)' = InBucket(q)
                            /\ BoxBucket(q)' = BoxBucket(q),
           \A q \in Workers, r \in Ranks : r = Up(q) => Given(r)' = Given(r),
           \A q \in Workers : Up(q) \in Ranks,
           pc'[0] = "fill" => pc[0] = "fill"
    PROVE  Order'
  <1>1. \A q \in Workers : Taken(q)' = Taken(q) /\ Up(q)' = Up(q)
    BY DEF Taken, Up
  <1>2. \A q \in Workers : Given(Up(q))' = Given(Up(q))
    BY <1>1 DEF Given, Up
  <1>3. \A s, n : Behind(s, n)' <=> Behind(s, n)
    BY DEF Behind
  <1>4. pc'[0] = "fill" => /\ Len(metadata'[0]) <= packed'
                           /\ Behind(metadata[0], packed - Len(metadata[0]))'
    BY <1>3 DEF Order
  <1>5. ASSUME NEW q \in Workers
        PROVE  /\ \A i \in 1..Len(loaded'[q]) : loaded'[q][i] = i
               /\ Behind(metadata[q], Len(loaded[q]))'
               /\ Behind(InBucket(q), Len(loaded[q]) + Len(metadata[q]))'
               /\ Behind(BoxBucket(q), Taken(q))'
               /\ Given(Up(q))' = Taken(q)' + Len(BoxBucket(q)')
    BY <1>1, <1>2, <1>3 DEF Order
  <1> QED
    BY <1>4, <1>5 DEF Order

\* What a buffer shows, and who is read by whom, lies in buffers and constants.
LEMMA ShowsStays ==
    ASSUME size' = size
    PROVE  \A b, s : Shows(b, s)' <=> Shows(b, s)
  BY DEF Shows

LEMMA UpStays ==
    ASSUME backend' = backend
    PROVE  \A q : Up(q)' = Up(q)
  BY DEF Up

\* Buckets stay in flight while nobody is told, joins or leaves.
LEMMA FlightStays ==
    ASSUME Flight, UNCHANGED <<backend, size, buf, out, inbox>>,
           \A q \in Workers :
                /\ in'[q].pc = "joined" <=> in[q].pc = "joined"
                /\ in[q].pc = "joined" => in'[q] = in[q]
    PROVE  Flight'
  <1>1. \A b, s : Shows(b, s)' <=> Shows(b, s)
    BY ShowsStays
  <1>2. \A q : Up(q)' = Up(q)
    BY UpStays
  <1> QED
    BY <1>1, <1>2 DEF Flight

\* Buffers show on what they show while nobody fills or takes one.
LEMMA BuffersStay ==
    ASSUME Buffers, UNCHANGED <<size, buf, half, offset, metadata>>,
           pc'[0] = "fill" => pc[0] = "fill",
           \A q \in Workers :
                /\ pc'[q] \in {"forward", "yield"} => pc'[q] = pc[q]
                /\ in'[q].pc = "complete" => in'[q] = in[q]
    PROVE  Buffers'
  <1>1. \A b, s : Shows(b, s)' <=> Shows(b, s)
    BY ShowsStays
  <1> QED
    BY <1>1 DEF Buffers

\* The operation of a rank is of the kind that its pc says.
LEMMA Kinds ==
    ASSUME Types, NEW r \in Ranks
    PROVE  /\ out[r].pc = "open" <=> out[r] # Idle
           /\ out[r] # Idle => out[r] \in Opening
           /\ in[r].pc = "posted" <=> in[r] \in Awaiting
           /\ in[r].pc \in {"joined", "complete"} <=> in[r] \in Holding
           /\ in[r].pc = "idle" <=> in[r] = Idle
  BY DEF Types, Idle, Opening, Awaiting, Holding

LEMMA KeepReturn ==
    ASSUME StreamInv, NEW r \in Ranks, Return(r)
    PROVE  StreamInv'
  <1>1. /\ pc[r] = "flush" /\ out[r] = Idle
        /\ pc' = [pc EXCEPT ![r] = "returned"]
        /\ UNCHANGED <<backend, size, buf, half, packed, offset, metadata,
                       is_last, out, in, inbox, loaded>>
    BY DEF Return, OutComplete
  <1>2. Types'
    BY <1>1 DEF StreamInv, Types
  <1>3. Control'
    BY <1>1, Sizes DEF StreamInv, Types, Control
  <1>4. Flight'
    BY <1>1, FlightStays DEF StreamInv
  <1>5. Buffers'
    <2>1. /\ pc'[0] = "fill" => pc[0] = "fill"
          /\ \A p \in Workers :
                pc'[p] \in {"forward", "yield"} => pc'[p] = pc[p]
      BY <1>1, Sizes DEF StreamInv, Types
    <2> QED
      BY <1>1, <2>1, BuffersStay DEF StreamInv
  <1>6. Order'
    <2>1. \A s \in Ranks : Given(s)' = Given(s)
      BY <1>1, Sizes DEF StreamInv, Types, Given
    <2>2. pc'[0] = "fill" => pc[0] = "fill"
      BY <1>1, Sizes DEF StreamInv, Types
    <2> QED
      BY <1>1, <2>1, <2>2, ReadersUp, OrderStays
         DEF StreamInv, Types, InBucket, BoxBucket
  <1> QED
    BY <1>2, <1>3, <1>4, <1>5, <1>6 DEF StreamInv

LEMMA KeepReceiveFirst ==
    ASSUME StreamInv, NEW q \in Workers, ReceiveFirst(q)
    PROVE  StreamInv'
  <1>1. /\ pc[q] = "first" /\ in' = Posted(q)
        /\ pc' = [pc EXCEPT ![q] = "wait"]
        /\ UNCHANGED <<backend, size, buf, half, packed, offset, metadata,
                       is_last, out, inbox, loaded>>
    BY DEF ReceiveFirst
  <1>2. /\ in[q] = Idle /\ metadata[q] = <<>>
        /\ half[q] \in {0, 1}
        /\ in'[q] \in Awaiting /\ in'[q].half = 1 - half'[q]
        /\ \A p \in Workers \ {q} : in'[p] = in[p]
    BY <1>1, Sizes DEF StreamInv, Types, Control, Posted, Awaiting, Halves
  <1>3. Types'
    BY <1>1, <1>2, Sizes DEF StreamInv, Types, Posted
  <1>4. Control'
    <2>1. in'[0] = in[0] /\ pc'[0] = pc[0]
      BY <1>1, Sizes DEF StreamInv, Types, Posted
    <2>2. /\ pc'[q] = "wait"
          /\ \A p \in Workers \ {q} : pc'[p] = pc[p]
      BY <1>1, Sizes DEF StreamInv, Types
    <2> QED
      BY <1>1, <1>2, <2>1, <2>2 DEF StreamInv, Control
  <1>5. in[q].pc = "idle" /\ in'[q].pc = "posted"
    BY <1>2 DEF Idle, Awaiting
  <1>6. Flight'
    <2>1. \A p \in Workers :
                /\ in'[p].pc = "joined" <=> in[p].pc = "joined"
                /\ in[p].pc = "joined" => in'[p] = in[p]
      BY <1>2, <1>5
    <2> QED
      BY <1>1, <2>1, FlightStays DEF StreamInv
  <1>7. Buffers'
    <2>1. /\ pc'[0] = "fill" => pc[0] = "fill"
          /\ \A p \in Workers :
                pc'[p] \in {"forward", "yield"} => pc'[p] = pc[p]
      BY <1>1, Sizes DEF StreamInv, Types
    <2>2. \A p \in Workers : in'[p].pc = "complete" => in'[p] = in[p]
      BY <1>2, <1>5
    <2> QED
      BY <1>1, <2>1, <2>2, BuffersStay DEF StreamInv
  <1>8. Order'
    <2>1. \A r \in Ranks : Given(r)' = Given(r)
      BY <1>1, Sizes DEF StreamInv, Types, Given
    <2>2. \A p \in Workers : InBucket(p)' = InBucket(p)
                            /\ BoxBucket(p)' = BoxBucket(p)
      BY <1>1, <1>2, IdlePc DEF InBucket, BoxBucket
    <2>3. pc'[0] = "fill" => pc[0] = "fill"
      BY <1>1, Sizes DEF StreamInv, Types
    <2> QED
      BY <1>1, <2>1, <2>2, <2>3, ReadersUp, OrderStays DEF StreamInv, Types
  <1> QED
    BY <1>3, <1>4, <1>6, <1>7, <1>8 DEF StreamInv

LEMMA KeepBucketHandedOut ==
    ASSUME StreamInv, NEW q \in Workers, BucketHandedOut(q)
    PROVE  StreamInv'
  <1>1. /\ pc[q] = "yield" /\ metadata[q] = <<>>
        /\ pc' = [pc EXCEPT ![q] = IF is_last[q] THEN "flush" ELSE "wait"]
        /\ UNCHANGED <<backend, size, buf, half, packed, offset, metadata,
                       is_last, out, in, inbox, loaded>>
    BY DEF BucketHandedOut
  <1>2. Types'
    BY <1>1 DEF StreamInv, Types
  <1>3. Control'
    BY <1>1, Sizes DEF StreamInv, Types, Control
  <1>4. Flight'
    BY <1>1, FlightStays DEF StreamInv
  <1>5. Buffers'
    <2>1. /\ pc'[0] = "fill" => pc[0] = "fill"
          /\ \A p \in Workers :
                pc'[p] \in {"forward", "yield"} => pc'[p] = pc[p]
      BY <1>1, Sizes DEF StreamInv, Types
    <2> QED
      BY <1>1, <2>1, BuffersStay DEF StreamInv
  <1>6. Order'
    <2>1. \A s \in Ranks : Given(s)' = Given(s)
      BY <1>1, Sizes DEF StreamInv, Types, Given
    <2>2. pc'[0] = "fill" => pc[0] = "fill"
      BY <1>1, Sizes DEF StreamInv, Types
    <2> QED
      BY <1>1, <2>1, <2>2, ReadersUp, OrderStays
         DEF StreamInv, Types, InBucket, BoxBucket
  <1> QED
    BY <1>2, <1>3, <1>4, <1>5, <1>6 DEF StreamInv

LEMMA KeepJoin ==
    ASSUME StreamInv, NEW q \in Ranks, Join(q)
    PROVE  StreamInv'
  <1>1. /\ inbox[q] # <<>> /\ in[q].pc = "posted"
        /\ in' = [in EXCEPT ![q] = [pc |-> "joined", half |-> @.half,
                                    meta |-> Head(inbox[q])]]
        /\ inbox' = [inbox EXCEPT ![q] = Tail(@)]
        /\ UNCHANGED <<backend, size, buf, half, packed, offset, metadata,
                       is_last, pc, out, loaded>>
    BY DEF Join
  <1>2. q \in Workers
    BY <1>1, Sizes DEF StreamInv, Control, Idle
  <1>3. /\ in[q] \in Awaiting /\ in[q] # Idle
        /\ inbox[q] \in Seq(Note)
        /\ in \in [Ranks -> {Idle} \union Awaiting \union Holding]
        /\ inbox \in [Ranks -> Seq(Note)]
    BY <1>1, Kinds DEF StreamInv, Types, Idle
  <1>4. /\ out[Up(q)] # Idle /\ Len(inbox[q]) = 1
        /\ Shows(buf[Up(q)][out[Up(q)].half], inbox[q][1].bucket)
    BY <1>1, <1>2 DEF StreamInv, Flight
  <1>5. /\ Head(inbox[q]) = inbox[q][1] /\ inbox[q][1] \in Note
        /\ Tail(inbox[q]) = <<>>
    BY <1>3, <1>4, Single
  <1>6. /\ inbox'[q] = <<>>
        /\ in'[q] = [pc |-> "joined", half |-> in[q].half, meta |-> inbox[q][1]]
        /\ \A p \in Workers \ {q} : in'[p] = in[p] /\ inbox'[p] = inbox[p]
    BY <1>1, <1>2, <1>3, <1>5, Sizes
  <1>7. in'[q] \in Holding /\ in'[q].half = in[q].half /\ in'[q] # Idle
    BY <1>3, <1>5, <1>6 DEF Awaiting, Holding, Idle
  <1>8. Types'
    <2>1. in' \in [Ranks -> {Idle} \union Awaiting \union Holding]
      BY <1>1, <1>3, <1>6, <1>7
    <2>2. inbox' \in [Ranks -> Seq(Note)]
      BY <1>1, <1>3, <1>5
    <2> QED
      BY <1>1, <2>1, <2>2 DEF StreamInv, Types
  <1>9. Control'
    <2>1. in'[0] = in[0]
      BY <1>1, <1>2, <1>3, Sizes
    <2> QED
      BY <1>1, <1>2, <1>3, <1>6, <1>7, <2>1 DEF StreamInv, Control
  <1>10. Flight'
    <2>1. \A p \in Workers : Up(p)' = Up(p)
      BY <1>1 DEF Up
    <2>2. \A b, s : Shows(b, s)' <=> Shows(b, s)
      BY <1>1 DEF Shows
    <2>3. in'[q].pc = "joined" /\ in'[q].meta = inbox[q][1]
      BY <1>6
    <2> QED
      BY <1>1, <1>4, <1>6, <2>1, <2>2, <2>3 DEF StreamInv, Flight
  <1>11. Buffers'
    <2>1. \A b, s : Shows(b, s)' <=> Shows(b, s)
      BY <1>1 DEF Shows
    <2>2. in'[q].pc = "joined"
      BY <1>6
    <2> QED
      BY <1>1, <1>6, <2>1, <2>2 DEF StreamInv, Buffers
  <1>12. Order'
    <2>1. /\ InBucket(q) = <<>> /\ BoxBucket(q) = inbox[q][1].bucket
          /\ InBucket(q)' = inbox[q][1].bucket /\ BoxBucket(q)' = <<>>
      BY <1>1, <1>3, <1>6, <1>7, IdlePc DEF InBucket, BoxBucket
    <2>2. \A p \in Workers \ {q} : InBucket(p)' = InBucket(p)
                                /\ BoxBucket(p)' = BoxBucket(p)
      BY <1>6 DEF InBucket, BoxBucket
    <2>3. /\ \A p \in Workers : Up(p)' = Up(p)
          /\ \A p \in Workers : Given(Up(p))' = Given(Up(p))
          /\ \A s, n : Behind(s, n)' <=> Behind(s, n)
      BY <1>1 DEF Up, Given, Behind
    <2>4. /\ inbox[q][1].bucket \in Seq(Place)
          /\ loaded[q] \in Seq(Weights \union {0}) /\ metadata[q] \in Seq(Place)
          /\ Len(<<>>) = 0
      BY <1>2, <1>5, Sizes DEF StreamInv, Types, Note
    <2>5. /\ Len(loaded[q]) \in Nat /\ Len(metadata[q]) \in Nat
          /\ Len(inbox[q][1].bucket) \in Nat
      BY <2>4
    <2>6. /\ Taken(q) = Len(loaded[q]) + Len(metadata[q])
          /\ Taken(q)' = Taken(q) + Len(inbox[q][1].bucket)
      BY <1>1, <2>1, <2>4, <2>5 DEF Taken
    <2>7. \A p \in Workers \ {q} : Taken(p)' = Taken(p)
      BY <1>1, <2>2 DEF Taken
    <2>8. ASSUME NEW p \in Workers
          PROVE  /\ \A i \in 1..Len(loaded'[p]) : loaded'[p][i] = i
                 /\ Behind(metadata[p], Len(loaded[p]))'
                 /\ Behind(InBucket(p), Len(loaded[p]) + Len(metadata[p]))'
                 /\ Behind(BoxBucket(p), Taken(p))'
                 /\ Given(Up(p))' = Taken(p)' + Len(BoxBucket(p)')
      <3>1. CASE p = q
        <4>1. Behind(<<>>, Taken(q)')
          BY DEF Behind
        <4>2. Given(Up(q)) = Taken(q) + Len(inbox[q][1].bucket)
          BY <1>2, <2>1 DEF StreamInv, Order
        <4>3. Taken(q)' + Len(BoxBucket(q)')
                = Taken(q) + Len(inbox[q][1].bucket)
          BY <2>1, <2>4, <2>5, <2>6
        <4>4. Behind(InBucket(q)', Len(loaded[q]) + Len(metadata[q]))
          BY <1>2, <2>1, <2>6 DEF StreamInv, Order
        <4> QED
          BY <1>1, <1>2, <2>1, <2>3, <3>1, <4>1, <4>2, <4>3, <4>4
             DEF StreamInv, Order
      <3>2. CASE p # q
        BY <1>1, <2>2, <2>3, <2>7, <3>2 DEF StreamInv, Order
      <3> QED
        BY <3>1, <3>2
    <2>9. pc'[0] = "fill" => /\ Len(metadata'[0]) <= packed'
                             /\ Behind(metadata[0], packed - Len(metadata[0]))'
      BY <1>1, <2>3 DEF StreamInv, Order
    <2> QED
      BY <2>8, <2>9 DEF Order
  <1> QED
    BY <1>8, <1>9, <1>10, <1>11, <1>12 DEF StreamInv

\* What the tail of a bucket keeps.
LEMMA Tails ==
    ASSUME NEW s \in Seq(Place), s # <<>>
    PROVE  /\ Head(s) \in Place /\ Head(s) = s[1] /\ Tail(s) \in Seq(Place)
           /\ Len(s) \in Nat \ {0} /\ Len(Tail(s)) = Len(s) - 1
           /\ \A n \in Nat : Behind(s, n) => /\ s[1].name = n + 1
                                             /\ Behind(Tail(s), n + 1)
           /\ \A b : Shows(b, s) =>
                /\ \A i \in (s[1].offset + 1)..(s[1].offset + size[s[1].name]) :
                    b[i] = s[1].name
                /\ Shows(b, Tail(s))
  <1>1. /\ Head(s) \in Place /\ Head(s) = s[1] /\ Tail(s) \in Seq(Place)
        /\ Len(s) \in Nat \ {0} /\ Len(Tail(s)) = Len(s) - 1
        /\ \A i \in 1..Len(Tail(s)) : Tail(s)[i] = s[i + 1]
    BY HeadTailProperties, EmptySeq
  <1>2. /\ 1 \in 1..Len(s)
        /\ \A k \in 1..Len(Tail(s)) : k + 1 \in 1..Len(s)
    BY <1>1
  <1>3. ASSUME NEW n \in Nat, Behind(s, n)
        PROVE  s[1].name = n + 1 /\ Behind(Tail(s), n + 1)
    <2>1. s[1].name = n + 1
      BY <1>2, <1>3 DEF Behind
    <2>2. ASSUME NEW k \in 1..Len(Tail(s)) PROVE Tail(s)[k].name = (n + 1) + k
      <3>1. Tail(s)[k] = s[k + 1] /\ s[k + 1].name = n + (k + 1)
        BY <1>1, <1>2, <1>3 DEF Behind
      <3> QED
        BY <3>1
    <2> QED
      BY <2>1, <2>2 DEF Behind
  <1>4. ASSUME NEW b, Shows(b, s)
        PROVE  /\ \A i \in (s[1].offset + 1)..(s[1].offset + size[s[1].name]) :
                    b[i] = s[1].name
               /\ Shows(b, Tail(s))
    BY <1>1, <1>2, <1>4 DEF Shows
  <1> QED
    BY <1>1, <1>3, <1>4

LEMMA KeepYieldWeight ==
    ASSUME StreamInv, NEW q \in Workers, YieldWeight(q)
    PROVE  StreamInv'
  <1> DEFINE value == Value(buf[q][half[q]], Head(metadata[q]))
  <1>1. /\ pc[q] = "yield" /\ metadata[q] # <<>>
        /\ loaded' = [loaded EXCEPT ![q] = Append(@, value)]
        /\ metadata' = [metadata EXCEPT ![q] = Tail(@)]
        /\ UNCHANGED <<backend, size, buf, half, packed, offset, is_last, pc,
                       out, in, inbox>>
    BY DEF YieldWeight, Load
  <1>2. /\ q \in Ranks /\ q # 0
        /\ metadata \in [Ranks -> Seq(Place)] /\ metadata[q] \in Seq(Place)
        /\ loaded \in [Workers -> Seq(Weights \union {0})]
        /\ loaded[q] \in Seq(Weights \union {0})
        /\ Len(loaded[q]) \in Nat /\ Len(metadata[q]) \in Nat
    BY Sizes DEF StreamInv, Types
  <1>3. /\ Behind(metadata[q], Len(loaded[q]))
        /\ Shows(buf[q][half[q]], metadata[q])
    BY <1>1 DEF StreamInv, Order, Buffers
  <1>4. value = Head(metadata[q]).name
    BY <1>1, <1>2, <1>3, Tails DEF Value
  <1>5. value = Len(loaded[q]) + 1 /\ value \in Weights
    <2>1. /\ Head(metadata[q]) \in Place
          /\ Head(metadata[q]).name = Len(loaded[q]) + 1
      BY <1>1, <1>2, <1>3, Tails
    <2>2. Head(metadata[q]).name \in Weights
      BY <2>1 DEF Place, Meta
    <2> QED
      BY <1>4, <2>1, <2>2
  <1> HIDE DEF value
  <1>6. /\ loaded'[q] = Append(loaded[q], value)
        /\ metadata'[q] = Tail(metadata[q])
        /\ Len(loaded'[q]) = Len(loaded[q]) + 1
        /\ Len(metadata'[q]) = Len(metadata[q]) - 1
        /\ \A r \in Ranks \ {q} : metadata'[r] = metadata[r]
        /\ \A p \in Workers \ {q} : loaded'[p] = loaded[p]
    BY <1>1, <1>2, <1>5, Tails
  <1>13. Len(loaded'[q]) + Len(metadata'[q])
            = Len(loaded[q]) + Len(metadata[q])
    <2>1. \A m, n \in Nat : (m + 1) + (n - 1) = m + n
      OBVIOUS
    <2> QED
      BY <1>2, <1>6, <2>1
  <1>7. Types'
    <2>1. loaded' \in [Workers -> Seq(Weights \union {0})]
      BY <1>1, <1>2, <1>5
    <2>2. metadata' \in [Ranks -> Seq(Place)]
      BY <1>1, <1>2, Tails
    <2> QED
      BY <1>1, <2>1, <2>2 DEF StreamInv, Types
  <1>8. Control'
    BY <1>1, <1>6, Sizes DEF StreamInv, Control
  <1>9. /\ \A b, s : Shows(b, s)' <=> Shows(b, s)
        /\ \A s, n : Behind(s, n)' <=> Behind(s, n)
        /\ \A p \in Workers : Up(p)' = Up(p)
        /\ \A p \in Workers : InBucket(p)' = InBucket(p)
                           /\ BoxBucket(p)' = BoxBucket(p)
    BY <1>1 DEF Shows, Behind, Up, InBucket, BoxBucket
  <1>10. Flight'
    BY <1>1, <1>9 DEF StreamInv, Flight
  <1>11. Buffers'
    <2>1. metadata'[0] = metadata[0]
      BY <1>2, <1>6, Sizes
    <2>2. Shows(buf[q][half[q]], metadata'[q])
      BY <1>1, <1>2, <1>3, <1>6, Tails
    <2>3. \A p \in Workers \ {q} : metadata'[p] = metadata[p]
      BY <1>6, Sizes
    <2> QED
      BY <1>1, <1>9, <2>1, <2>2, <2>3 DEF StreamInv, Buffers
  <1>12. Order'
    <2>1. \A r \in Ranks : Given(r)' = Given(r)
      <3>1. Given(0)' = Given(0)
        BY <1>1, <1>2, <1>6, Sizes DEF Given
      <3>2. Given(q)' = Given(q)
        <4>1. Given(q) = Len(loaded[q]) + Len(metadata[q])
          BY <1>1, <1>2 DEF Given
        <4>2. Given(q)' = Len(loaded'[q]) + Len(metadata'[q])
          BY <1>1, <1>2 DEF Given
        <4> QED
          BY <1>2, <1>6, <4>1, <4>2
      <3>3. ASSUME NEW p \in Workers \ {q} PROVE Given(p)' = Given(p)
        <4>1. p # 0 /\ loaded'[p] = loaded[p] /\ metadata'[p] = metadata[p]
          BY <1>6, Sizes
        <4> QED
          BY <1>1, <4>1 DEF Given
      <3> QED
        BY <3>1, <3>2, <3>3, Sizes
    <2>2. \A p \in Workers : Up(p) \in Ranks
      BY ReadersUp DEF StreamInv, Types
    <2>3. \A p \in Workers : Given(Up(p))' = Given(Up(p))
      BY <1>9, <2>1, <2>2 DEF Given
    <2>4. ASSUME NEW p \in Workers, Len(InBucket(p)) \in Nat
          PROVE  /\ Taken(p)' = Taken(p)
                 /\ Len(loaded'[p]) + Len(metadata'[p])
                        = Len(loaded[p]) + Len(metadata[p])
      <3>1. CASE p = q
        BY <1>9, <1>13, <3>1 DEF Taken
      <3>2. CASE p # q
        BY <1>6, <1>9, <3>2, Sizes DEF Taken
      <3> QED
        BY <3>1, <3>2
    <2>5. \A p \in Workers : Len(InBucket(p)) \in Nat
      BY Sizes, IdlePc DEF StreamInv, Types, InBucket, Holding, Note
    <2>6. /\ \A i \in 1..Len(loaded'[q]) : loaded'[q][i] = i
          /\ Behind(metadata'[q], Len(loaded'[q]))
      <3>1. \A i \in 1..Len(loaded[q]) : loaded[q][i] = i
        BY DEF StreamInv, Order
      <3>2. \A i \in 1..Len(loaded'[q]) : loaded'[q][i] = i
        <4>1. SUFFICES ASSUME NEW i \in 1..Len(loaded'[q])
                       PROVE  Append(loaded[q], value)[i] = i
          BY <1>6
        <4>2. i \in 1..Len(loaded[q]) \/ i = Len(loaded[q]) + 1
          BY <1>2, <1>6
        <4> QED
          BY <1>2, <1>5, <3>1, <4>2
      <3> QED
        BY <1>1, <1>2, <1>3, <1>6, <3>2, Tails
    <2>7. ASSUME NEW p \in Workers
          PROVE  /\ \A i \in 1..Len(loaded'[p]) : loaded'[p][i] = i
                 /\ Behind(metadata[p], Len(loaded[p]))'
      <3>1. CASE p = q
        BY <1>9, <2>6, <3>1
      <3>2. CASE p # q
        BY <1>6, <1>9, <3>2, Sizes DEF StreamInv, Order
      <3> QED
        BY <3>1, <3>2
    <2>8. ASSUME NEW p \in Workers
          PROVE  /\ Behind(InBucket(p), Len(loaded[p]) + Len(metadata[p]))'
                 /\ Behind(BoxBucket(p), Taken(p))'
                 /\ Given(Up(p))' = Taken(p)' + Len(BoxBucket(p)')
      BY <1>9, <2>3, <2>4, <2>5 DEF StreamInv, Order
    <2>9. pc'[0] = "fill" => /\ Len(metadata'[0]) <= packed'
                             /\ Behind(metadata[0], packed - Len(metadata[0]))'
      BY <1>1, <1>2, <1>6, <1>9, Sizes DEF StreamInv, Order
    <2> QED
      BY <2>7, <2>8, <2>9 DEF Order
  <1> QED
    BY <1>7, <1>8, <1>10, <1>11, <1>12 DEF StreamInv

-----------------------------------------------------------------------------
(* Steps that open a buffer.                                               *)

\* The first message to an empty inbox.
LEMMA FirstNote ==
    ASSUME NEW n \in Note
    PROVE  /\ Append(<<>>, n) = <<n>>
           /\ <<n>> # <<>> /\ Len(<<n>>) = 1 /\ <<n>>[1] = n
  OBVIOUS

\* A buffer that shows its metadata, opened to readers who had everything
\* that was given to them.
LEMMA Opened ==
    ASSUME StreamInv, NEW r \in Ranks, NEW bucket \in Seq(Place),
           NEW last \in BOOLEAN, Open(r, bucket, last), out[r] = Idle,
           UNCHANGED <<backend, size, buf, loaded>>,
           Shows(buf[r][half[r]], bucket),
           Given(r) \in Nat, Behind(bucket, Given(r)),
           Given(r)' = Given(r) + Len(bucket),
           \A s \in Ranks \ {r} : Given(s)' = Given(s),
           \A q \in Workers :
                /\ metadata'[q] = metadata[q]
                /\ InBucket(q)' = InBucket(q)
                /\ in'[q].pc = "joined" <=> in[q].pc = "joined"
                /\ in[q].pc = "joined" => in'[q] = in[q],
           pc'[0] = "fill" => /\ Len(metadata'[0]) <= packed'
                              /\ Behind(metadata[0], packed - Len(metadata[0]))'
    PROVE  /\ out' \in [Ranks -> {Idle} \union Opening]
           /\ inbox' \in [Ranks -> Seq(Note)]
           /\ out'[r] # Idle /\ out'[r].half = half[r]
           /\ \A s \in Ranks \ {r} : out'[s] = out[s]
           /\ Flight' /\ Order'
  <1> DEFINE note == [bucket |-> bucket, last |-> last]
  <1>1. /\ out \in [Ranks -> {Idle} \union Opening]
        /\ inbox \in [Ranks -> Seq(Note)]
        /\ half[r] \in Halves /\ Workers \subseteq Ranks
        /\ note \in Note
    BY Sizes DEF StreamInv, Types, Note
  <1>2. /\ out' = [out EXCEPT ![r] = [pc |-> "open", half |-> half[r]]]
        /\ inbox' = [q \in Ranks |->
                        IF q \in Readers(r) THEN Append(inbox[q], note)
                        ELSE inbox[q]]
    BY DEF Open
  <1>3. [pc |-> "open", half |-> half[r]] \in Opening
    BY <1>1 DEF Opening
  <1>4. /\ out'[r] = [pc |-> "open", half |-> half[r]]
        /\ \A s \in Ranks \ {r} : out'[s] = out[s]
    BY <1>1, <1>2
  <1>5. out'[r] # Idle /\ out'[r].half = half[r]
    BY <1>3, <1>4, IdlePc
  <1>6. out' \in [Ranks -> {Idle} \union Opening]
    BY <1>1, <1>2, <1>3
  <1>7. inbox' \in [Ranks -> Seq(Note)]
    BY <1>1, <1>2
  <1>8. /\ \A q \in Workers : Up(q) \in Ranks /\ Up(q)' = Up(q)
        /\ \A q \in Workers : q \in Readers(r) <=> r = Up(q)
    BY ReadersUp DEF StreamInv, Types, Up
  <1>9. \A q \in Workers : r = Up(q) => inbox[q] = <<>> /\ in[q].pc # "joined"
    BY DEF StreamInv, Flight
  <1>10. \A q \in Workers :
            IF r = Up(q) THEN inbox'[q] = <<note>> ELSE inbox'[q] = inbox[q]
    BY <1>1, <1>2, <1>8, <1>9, FirstNote
  <1>11. \A q \in Workers :
            r = Up(q) => /\ BoxBucket(q) = <<>> /\ BoxBucket(q)' = bucket
                         /\ Len(inbox'[q]) = 1 /\ inbox'[q][1].bucket = bucket
    <2>1. note.bucket = bucket
      OBVIOUS
    <2> HIDE DEF note
    <2> QED
      BY <1>1, <1>9, <1>10, <2>1, FirstNote, ZenonT(60) DEF BoxBucket
  <1>12. \A q \in Workers : r # Up(q) => BoxBucket(q)' = BoxBucket(q)
    BY <1>10 DEF BoxBucket
  <1> HIDE DEF note
  <1>13. /\ \A b, s : Shows(b, s)' <=> Shows(b, s)
         /\ \A s, n : Behind(s, n)' <=> Behind(s, n)
    BY DEF Shows, Behind
  <1>14. Flight'
    <2>1. ASSUME NEW q \in Workers, r = Up(q)
          PROVE  /\ out'[Up(q)'] # Idle
                 /\ Len(inbox'[q]) = 1 /\ in'[q].pc # "joined"
                 /\ Shows(buf[Up(q)][out[Up(q)].half], inbox[q][1].bucket)'
      <3>1. Shows(buf'[r][out'[r].half], inbox'[q][1].bucket)
        BY <1>5, <1>11, <2>1
      <3> QED
        BY <1>5, <1>8, <1>9, <1>11, <1>13, <2>1, <3>1
    <2>2. ASSUME NEW q \in Workers, r # Up(q)
          PROVE  /\ out'[Up(q)'] = out[Up(q)]
                 /\ inbox'[q] = inbox[q]
      BY <1>4, <1>8, <1>10, <2>2
    <2> QED
      BY <1>8, <1>13, <2>1, <2>2 DEF StreamInv, Flight
  <1>15. Order'
    <2>1. \A q \in Workers : Taken(q)' = Taken(q)
      BY DEF Taken
    <2>2. \A q \in Workers : Given(Up(q)) = Taken(q) + Len(BoxBucket(q))
      BY DEF StreamInv, Order
    <2>3. ASSUME NEW q \in Workers, r = Up(q)
          PROVE  /\ Behind(BoxBucket(q)', Taken(q)')
                 /\ Given(Up(q))' = Taken(q)' + Len(BoxBucket(q)')
      <3>3. Taken(q) \in Nat
        BY Counts DEF StreamInv
      <3>4. Given(r) = Taken(q)
        BY <1>11, <2>2, <2>3, <3>3
      <3>5. Given(Up(q))' = Given(r)'
        BY <1>8, <2>3 DEF Given
      <3> QED
        BY <1>11, <2>1, <2>3, <3>4, <3>5
    <2>4. ASSUME NEW q \in Workers, r # Up(q)
          PROVE  /\ Behind(BoxBucket(q)', Taken(q)')
                 /\ Given(Up(q))' = Taken(q)' + Len(BoxBucket(q)')
      <3>1. Given(Up(q))' = Given(Up(q))
        BY <1>8, <2>4 DEF Given
      <3> QED
        BY <1>12, <2>1, <2>4, <3>1 DEF StreamInv, Order
    <2>5. ASSUME NEW q \in Workers
          PROVE  /\ \A i \in 1..Len(loaded'[q]) : loaded'[q][i] = i
                 /\ Behind(metadata[q], Len(loaded[q]))'
                 /\ Behind(InBucket(q), Len(loaded[q]) + Len(metadata[q]))'
      BY <1>13 DEF StreamInv, Order
    <2> QED
      BY <1>13, <2>3, <2>4, <2>5 DEF Order
  <1> QED
    BY <1>4, <1>5, <1>6, <1>7, <1>14, <1>15

\* What the trainer that has filled a bucket has given, and its bucket.
LEMMA Full ==
    ASSUME StreamInv, pc[0] = "fill"
    PROVE  /\ metadata[0] \in Seq(Place) /\ Len(metadata[0]) \in Nat
           /\ packed \in Nat /\ Given(0) = packed - Len(metadata[0])
           /\ Given(0) \in Nat /\ Behind(metadata[0], Given(0))
           /\ Shows(buf[0][half[0]], metadata[0])
  <1>1. metadata[0] \in Seq(Place) /\ packed \in Nat
    BY Sizes DEF StreamInv, Types
  <1>2. Len(metadata[0]) \in Nat /\ Len(metadata[0]) <= packed
    BY <1>1, LenProperties DEF StreamInv, Order
  <1>3. Given(0) = packed - Len(metadata[0])
    BY DEF Given
  <1>4. Given(0) \in Nat
    BY <1>1, <1>2, <1>3
  <1> QED
    BY <1>1, <1>2, <1>3, <1>4 DEF StreamInv, Order, Buffers

LEMMA KeepSendLastBucket ==
    ASSUME StreamInv, SendLastBucket
    PROVE  StreamInv'
  <1>1. /\ pc[0] = "fill" /\ out[0] = Idle /\ Open(0, metadata[0], TRUE)
        /\ pc' = [pc EXCEPT ![0] = "flush"]
        /\ UNCHANGED <<backend, size, buf, half, packed, offset, metadata,
                       is_last, in, loaded>>
    BY DEF SendLastBucket, OutComplete
  <1>2. /\ pc'[0] = "flush" /\ \A q \in Workers : pc'[q] = pc[q] /\ q # 0
    BY <1>1, Sizes DEF StreamInv, Types
  <1>3. /\ out' \in [Ranks -> {Idle} \union Opening]
        /\ inbox' \in [Ranks -> Seq(Note)]
        /\ \A s \in Ranks \ {0} : out'[s] = out[s]
        /\ Flight' /\ Order'
    <2>1. Given(0)' = Given(0) + Len(metadata[0])
      <3>1. Given(0)' = packed
        BY <1>1, <1>2 DEF Given
      <3> QED
        BY <1>1, <3>1, Full
    <2>2. \A s \in Ranks \ {0} : Given(s)' = Given(s)
      BY <1>1, <1>2, Sizes DEF Given
    <2>3. \A q \in Workers : InBucket(q)' = InBucket(q)
      BY <1>1 DEF InBucket
    <2> QED
      BY <1>1, <1>2, <2>1, <2>2, <2>3, Full, Opened, Sizes
  <1>4. Types'
    <2>1. pc' \in [Ranks -> {"fill", "first", "wait", "forward", "yield",
                             "flush", "returned"}]
      BY <1>1 DEF StreamInv, Types
    <2> QED
      BY <1>1, <1>3, <2>1 DEF StreamInv, Types
  <1>5. Control'
    BY <1>1, <1>2, <1>3, Sizes DEF StreamInv, Control
  <1>6. Buffers'
    <2>1. \A b, s : Shows(b, s)' <=> Shows(b, s)
      BY <1>1 DEF Shows
    <2>2. UNCHANGED <<buf, half, metadata, in>>
      BY <1>1
    <2> QED
      BY <1>2, <2>1, <2>2 DEF StreamInv, Buffers
  <1> QED
    BY <1>3, <1>4, <1>5, <1>6 DEF StreamInv

LEMMA KeepSendBucket ==
    ASSUME StreamInv, SendBucket
    PROVE  StreamInv'
  <1>1. /\ pc[0] = "fill" /\ out[0] = Idle /\ Open(0, metadata[0], FALSE)
        /\ half' = [half EXCEPT ![0] = 1 - @]
        /\ metadata' = [metadata EXCEPT ![0] = <<>>]
        /\ offset' = 0
        /\ UNCHANGED <<backend, size, buf, packed, is_last, pc, in, loaded>>
    BY DEF SendBucket, OutComplete
  <1>2. /\ half[0] \in {0, 1} /\ half'[0] = 1 - half[0] /\ metadata'[0] = <<>>
        /\ Len(metadata'[0]) = 0 /\ packed \in Nat
        /\ \A q \in Workers : /\ half'[q] = half[q] /\ q # 0
                              /\ metadata'[q] = metadata[q]
    BY <1>1, Sizes DEF StreamInv, Types, Halves
  <1>3. /\ out' \in [Ranks -> {Idle} \union Opening]
        /\ inbox' \in [Ranks -> Seq(Note)]
        /\ out'[0].half = half[0]
        /\ \A s \in Ranks \ {0} : out'[s] = out[s]
        /\ Flight' /\ Order'
    <2>1. Given(0)' = Given(0) + Len(metadata[0])
      <3>1. Given(0)' = packed - 0
        BY <1>1, <1>2 DEF Given
      <3> QED
        BY <1>1, <3>1, Full
    <2>2. \A s \in Ranks \ {0} : Given(s)' = Given(s)
      BY <1>1, <1>2, Sizes DEF Given
    <2>3. \A q \in Workers : InBucket(q)' = InBucket(q)
      BY <1>1 DEF InBucket
    <2>4. /\ Len(metadata'[0]) <= packed'
          /\ Behind(metadata[0], packed - Len(metadata[0]))'
      <3>1. 1..Len(metadata'[0]) = {}
        BY <1>2
      <3>2. Behind(metadata'[0], packed' - Len(metadata'[0]))
        BY <3>1 DEF Behind
      <3>3. Len(metadata'[0]) <= packed'
        BY <1>1, <1>2
      <3> QED
        BY <3>2, <3>3 DEF Behind
    <2> QED
      BY <1>1, <1>2, <2>1, <2>2, <2>3, <2>4, Full, Opened, Sizes
  <1>4. Types'
    <2>1. /\ half' \in [Ranks -> Halves] /\ offset' \in 0..BucketSize
          /\ metadata' \in [Ranks -> Seq(Place)]
      <3>1. /\ 1 - half[0] \in Halves /\ 0 \in 0..BucketSize
            /\ <<>> \in Seq(Place)
        BY <1>2, Sizes, EmptySeq DEF Halves
      <3> QED
        BY <1>1, <3>1 DEF StreamInv, Types
    <2> QED
      BY <1>1, <1>3, <2>1 DEF StreamInv, Types
  <1>5. Control'
    <2>1. out'[0] # Idle => out'[0].half = 1 - half'[0]
      BY <1>2, <1>3
    <2>2. \A q \in Workers : out'[q] = out[q]
      BY <1>2, <1>3, Sizes
    <2> QED
      BY <1>1, <1>2, <2>1, <2>2 DEF StreamInv, Control
  <1>6. Buffers'
    <2>1. /\ Shows(buf[0][half[0]], metadata[0])'
          /\ \A k \in 1..Len(metadata'[0]) :
                metadata'[0][k].offset + size'[metadata'[0][k].name] <= offset'
      BY <1>2 DEF Shows
    <2>2. \A b, s : Shows(b, s)' <=> Shows(b, s)
      BY <1>1, ShowsStays
    <2> QED
      BY <1>1, <1>2, <2>1, <2>2 DEF StreamInv, Buffers
  <1> QED
    BY <1>3, <1>4, <1>5, <1>6 DEF StreamInv

LEMMA KeepForward ==
    ASSUME StreamInv, NEW q \in Workers, Forward(q)
    PROVE  StreamInv'
  <1>1. /\ pc[q] = "forward"
        /\ IF Readers(q) # {} THEN Open(q, metadata[q], is_last[q])
           ELSE UNCHANGED <<out, inbox>>
        /\ in' = IF is_last[q] THEN in ELSE Posted(q)
        /\ pc' = [pc EXCEPT ![q] = "yield"]
        /\ UNCHANGED <<backend, size, buf, half, packed, offset, metadata,
                       is_last, loaded>>
    BY DEF Forward
  <1>2. /\ q \in Ranks /\ q # 0 /\ pc'[q] = "yield"
        /\ \A s \in Ranks \ {q} : pc'[s] = pc[s]
        /\ in[q] = Idle /\ out[q] = Idle /\ half[q] \in {0, 1}
        /\ metadata[q] \in Seq(Place) /\ is_last[q] \in BOOLEAN
    BY <1>1, Sizes DEF StreamInv, Types, Control, Halves
  <1>3. /\ \A s \in Ranks \ {q} : in'[s] = in[s]
        /\ in'[q] # Idle => in'[q] \in Awaiting /\ in'[q].half = 1 - half[q]
        /\ in' \in [Ranks -> {Idle} \union Awaiting \union Holding]
    <2>1. CASE is_last[q]
      BY <1>1, <1>2, <2>1 DEF StreamInv, Types
    <2>2. CASE ~is_last[q]
      <3>1. in' = [in EXCEPT ![q] = [pc |-> "posted", half |-> 1 - half[q]]]
        BY <1>1, <2>2 DEF Posted
      <3>2. [pc |-> "posted", half |-> 1 - half[q]] \in Awaiting
        BY <1>2 DEF Awaiting, Halves
      <3> QED
        BY <1>2, <3>1, <3>2 DEF StreamInv, Types
    <2> QED
      BY <2>1, <2>2
  <1>4. /\ in[q].pc = "idle" /\ in'[q].pc \in {"idle", "posted"}
        /\ in[q] \notin Holding /\ in'[q] \notin Holding
    BY <1>2, <1>3, IdlePc DEF Awaiting, Holding
  <1>5. \A p \in Workers : InBucket(p)' = InBucket(p)
    BY <1>3, <1>4, Sizes DEF InBucket
  <1>6. \A s \in Ranks \ {q} : Given(s)' = Given(s)
    BY <1>1, <1>2 DEF Given
  <1>7. Given(q) = Len(loaded[q]) + 0
    BY <1>1, <1>2 DEF Given
  <1>8. Given(q)' = Len(loaded[q]) + Len(metadata[q])
    BY <1>1, <1>2 DEF Given
  <1>9. /\ out' \in [Ranks -> {Idle} \union Opening]
        /\ inbox' \in [Ranks -> Seq(Note)]
        /\ out'[q] # Idle => out'[q].half = half[q]
        /\ \A s \in Ranks \ {q} : out'[s] = out[s]
        /\ Flight' /\ Order'
    <2>1. CASE Readers(q) # {}
      <3>1. /\ Len(loaded[q]) \in Nat /\ Given(q) = Len(loaded[q])
            /\ Given(q)' = Given(q) + Len(metadata[q])
        BY <1>7, <1>8, Counts DEF StreamInv
      <3>2. /\ Behind(metadata[q], Given(q))
            /\ Shows(buf[q][half[q]], metadata[q])
        BY <1>1, <3>1 DEF StreamInv, Order, Buffers
      <3>3. \A p \in Workers :
                /\ metadata'[p] = metadata[p]
                /\ InBucket(p)' = InBucket(p)
                /\ in'[p].pc = "joined" <=> in[p].pc = "joined"
                /\ in[p].pc = "joined" => in'[p] = in[p]
        BY <1>1, <1>3, <1>4, <1>5, Sizes
      <3>4. pc'[0] = "fill" =>
                /\ Len(metadata'[0]) <= packed'
                /\ Behind(metadata[0], packed - Len(metadata[0]))'
        BY <1>1, <1>2, Sizes DEF StreamInv, Order, Behind
      <3> QED
        BY <1>1, <1>2, <1>6, <2>1, <3>1, <3>2, <3>3, <3>4, Opened
    <2>2. CASE Readers(q) = {}
      <3>1. UNCHANGED <<out, inbox>>
        BY <1>1, <2>2
      <3>2. \A p \in Workers : Up(p) \in Ranks /\ Up(p) # q
        BY <1>2, <2>2, ReadersUp DEF StreamInv, Types
      <3>3. Flight'
        <4>1. \A p \in Workers :
                    /\ in'[p].pc = "joined" <=> in[p].pc = "joined"
                    /\ in[p].pc = "joined" => in'[p] = in[p]
          BY <1>3, <1>4, Sizes
        <4>2. \A b, s : Shows(b, s)' <=> Shows(b, s)
          BY <1>1 DEF Shows
        <4>3. \A p \in Workers : Up(p)' = Up(p)
          BY <1>1 DEF Up
        <4> QED
          BY <1>1, <3>1, <4>1, <4>2, <4>3 DEF StreamInv, Flight
      <3>4. /\ \A p \in Workers : BoxBucket(p)' = BoxBucket(p)
            /\ \A p \in Workers, r \in Ranks : r = Up(p) => Given(r)' = Given(r)
            /\ pc'[0] = "fill" => pc[0] = "fill"
        BY <1>2, <1>6, <3>1, <3>2, Sizes DEF BoxBucket
      <3>5. Order'
        BY <1>1, <1>5, <3>2, <3>4, OrderStays DEF StreamInv
      <3> QED
        BY <1>2, <3>1, <3>3, <3>5 DEF StreamInv, Types
    <2> QED
      BY <2>1, <2>2
  <1>10. Types'
    <2>1. pc' \in [Ranks -> {"fill", "first", "wait", "forward", "yield",
                             "flush", "returned"}]
      BY <1>1 DEF StreamInv, Types
    <2> QED
      BY <1>1, <1>3, <1>9, <2>1 DEF StreamInv, Types
  <1>11. Control'
    <2>1. /\ pc'[0] = pc[0] /\ in'[0] = in[0]
          /\ out'[0] = out[0] /\ half'[0] = half[0]
      BY <1>1, <1>2, <1>3, <1>9, Sizes
    <2>2. \A p \in Workers \ {q} :
                pc'[p] = pc[p] /\ in'[p] = in[p] /\ out'[p] = out[p]
      BY <1>2, <1>3, <1>9, Sizes
    <2>3. ASSUME NEW p \in Workers
          PROVE  /\ pc'[p] # "fill"
                 /\ pc'[p] \in {"first", "wait"} => metadata'[p] = <<>>
                 /\ pc'[p] \in {"first", "forward"} => in'[p] = Idle
                 /\ pc'[p] = "forward" => out'[p] = Idle
                 /\ in'[p] # Idle => in'[p].half = 1 - half'[p]
                 /\ out'[p] # Idle => out'[p].half = half'[p]
      <3>1. CASE p = q
        BY <1>1, <1>2, <1>3, <1>9, <3>1
      <3>2. CASE p # q
        BY <1>1, <2>2, <3>2 DEF StreamInv, Control
      <3> QED
        BY <3>1, <3>2
    <2>4. /\ pc'[0] \in {"fill", "flush", "returned"} /\ in'[0] = Idle
          /\ pc'[0] = "fill" /\ out'[0] # Idle => out'[0].half = 1 - half'[0]
      BY <2>1 DEF StreamInv, Control
    <2> QED
      BY <2>3, <2>4 DEF Control
  <1>12. Buffers'
    <2>1. \A b, s : Shows(b, s)' <=> Shows(b, s)
      BY <1>1 DEF Shows
    <2>2. Shows(buf[q][half[q]], metadata[q])
      BY <1>1 DEF StreamInv, Buffers
    <2>3. \A p \in Workers \ {q} : pc'[p] = pc[p] /\ in'[p] = in[p]
      BY <1>2, <1>3, Sizes
    <2>4. pc'[0] = pc[0]
      BY <1>2, Sizes
    <2> QED
      BY <1>1, <1>4, <2>1, <2>2, <2>3, <2>4 DEF StreamInv, Buffers
  <1> QED
    BY <1>9, <1>10, <1>11, <1>12 DEF StreamInv

LEMMA KeepBucketReceived ==
    ASSUME StreamInv, NEW q \in Workers, BucketReceived(q)
    PROVE  StreamInv'
  <1>1. /\ pc[q] = "wait" /\ in[q].pc = "complete" /\ out[q] = Idle
        /\ half' = [half EXCEPT ![q] = 1 - @]
        /\ metadata' = [metadata EXCEPT ![q] = in[q].meta.bucket]
        /\ is_last' = [is_last EXCEPT ![q] = in[q].meta.last]
        /\ in' = [in EXCEPT ![q] = Idle]
        /\ pc' = [pc EXCEPT ![q] = "forward"]
        /\ UNCHANGED <<backend, size, buf, packed, offset, out, inbox, loaded>>
    BY DEF BucketReceived, SwapBuffers, InComplete, OutComplete
  <1>2. /\ q \in Ranks /\ q # 0 /\ half[q] \in {0, 1} /\ metadata[q] = <<>>
        /\ in[q] \in Holding /\ in[q].meta \in Note
        /\ in[q].meta.bucket \in Seq(Place) /\ in[q].meta.last \in BOOLEAN
        /\ in[q].half = 1 - half[q]
    <2>1. in[q] \in Holding
      BY <1>1, Sizes, Kinds DEF StreamInv
    <2> QED
      BY <1>1, <2>1, Sizes, IdlePc
         DEF StreamInv, Types, Control, Halves, Holding, Note
  <1>3. /\ pc'[q] = "forward" /\ in'[q] = Idle /\ in'[q].pc = "idle"
        /\ metadata'[q] = in[q].meta.bucket /\ half'[q] = 1 - half[q]
        /\ \A s \in Ranks \ {q} : /\ pc'[s] = pc[s] /\ in'[s] = in[s]
                                  /\ metadata'[s] = metadata[s]
                                  /\ half'[s] = half[s]
    BY <1>1, <1>2, IdlePc DEF StreamInv, Types
  <1>4. Types'
    <2>1. /\ half' \in [Ranks -> Halves] /\ metadata' \in [Ranks -> Seq(Place)]
          /\ is_last' \in [Ranks -> BOOLEAN]
      BY <1>1, <1>2 DEF StreamInv, Types, Halves
    <2>2. /\ in' \in [Ranks -> {Idle} \union Awaiting \union Holding]
          /\ pc' \in [Ranks -> {"fill", "first", "wait", "forward", "yield",
                                "flush", "returned"}]
      BY <1>1 DEF StreamInv, Types
    <2> QED
      BY <1>1, <2>1, <2>2 DEF StreamInv, Types
  <1>5. Control'
    BY <1>1, <1>2, <1>3, Sizes DEF StreamInv, Control
  <1>6. /\ \A b, s : Shows(b, s)' <=> Shows(b, s)
        /\ \A s, n : Behind(s, n)' <=> Behind(s, n)
        /\ \A p \in Workers : Up(p)' = Up(p)
        /\ \A p \in Workers : BoxBucket(p)' = BoxBucket(p)
    BY <1>1 DEF Shows, Behind, Up, BoxBucket
  <1>7. Flight'
    BY <1>1, <1>3, <1>6, Sizes DEF StreamInv, Flight
  <1>8. Buffers'
    <2>1. Shows(buf[q][half'[q]], metadata'[q])
      BY <1>1, <1>2, <1>3 DEF StreamInv, Buffers
    <2>2. ASSUME NEW p \in Workers
          PROVE  /\ pc'[p] \in {"forward", "yield"} =>
                        Shows(buf[p][half[p]], metadata[p])'
                 /\ in'[p].pc = "complete" =>
                        Shows(buf[p][in[p].half], in[p].meta.bucket)'
      <3>1. CASE p = q
        BY <1>1, <1>3, <1>6, <2>1, <3>1
      <3>2. CASE p # q
        BY <1>1, <1>3, <1>6, <3>2, Sizes DEF StreamInv, Buffers
      <3> QED
        BY <3>1, <3>2
    <2>3. pc'[0] = pc[0] /\ metadata'[0] = metadata[0] /\ half'[0] = half[0]
      BY <1>2, <1>3, Sizes
    <2> QED
      BY <1>1, <1>6, <2>2, <2>3 DEF StreamInv, Buffers
  <1>9. Order'
    <2>1. InBucket(q) = metadata'[q] /\ InBucket(q)' = <<>>
      BY <1>2, <1>3, IdlePc DEF InBucket
    <2>2. \A p \in Workers \ {q} : InBucket(p)' = InBucket(p)
      BY <1>3, Sizes DEF InBucket
    <2>3. Len(loaded[q]) \in Nat /\ Len(metadata'[q]) \in Nat /\ Len(<<>>) = 0
      BY <2>1, Counts DEF StreamInv
    <2>4. Taken(q)' = Taken(q)
      <3>1. Taken(q) = (Len(loaded[q]) + 0) + Len(metadata'[q])
        BY <1>2, <2>1, <2>3 DEF Taken
      <3>2. Taken(q)' = (Len(loaded[q]) + Len(metadata'[q])) + 0
        BY <1>1, <2>1, <2>3 DEF Taken
      <3>3. \A m, n \in Nat : (m + n) + 0 = (m + 0) + n
        OBVIOUS
      <3> QED
        BY <2>3, <3>1, <3>2, <3>3
    <2>5. \A p \in Workers \ {q} : Taken(p)' = Taken(p)
      BY <1>1, <1>3, <2>2, Sizes DEF Taken
    <2>6. \A r \in Ranks : Given(r)' = Given(r)
      <3>1. Given(q)' = Given(q)
        BY <1>1, <1>2, <1>3, <2>3 DEF Given
      <3>2. ASSUME NEW r \in Ranks \ {q} PROVE Given(r)' = Given(r)
        <4>1. pc'[r] = pc[r] /\ metadata'[r] = metadata[r]
          BY <1>3
        <4>2. CASE r = 0
          BY <1>1, <4>1, <4>2 DEF Given
        <4>3. CASE r # 0
          BY <1>1, <4>1, <4>3 DEF Given
        <4> QED
          BY <4>2, <4>3
      <3> QED
        BY <3>1, <3>2
    <2>7. \A p \in Workers : Given(Up(p))' = Given(Up(p))
      <3>1. \A p \in Workers : Up(p) \in Ranks
        BY ReadersUp DEF StreamInv, Types
      <3> QED
        BY <1>6, <2>6, <3>1 DEF Given
    <2>8. /\ Behind(metadata'[q], Len(loaded[q]))
          /\ Behind(<<>>, Len(loaded[q]) + Len(metadata'[q]))
      <3>1. Behind(metadata'[q], Len(loaded[q]) + 0)
        BY <1>2, <2>1, <2>3 DEF StreamInv, Order
      <3> QED
        BY <2>3, <3>1 DEF Behind
    <2>9. ASSUME NEW p \in Workers
          PROVE  /\ Behind(metadata[p], Len(loaded[p]))'
                 /\ Behind(InBucket(p), Len(loaded[p]) + Len(metadata[p]))'
      <3>1. CASE p = q
        BY <1>1, <1>6, <2>1, <2>8, <3>1
      <3>2. CASE p # q
        <4>1. metadata'[p] = metadata[p] /\ InBucket(p)' = InBucket(p)
          BY <1>3, <2>2, <3>2, Sizes
        <4>2. /\ Behind(metadata[p], Len(loaded[p]))
              /\ Behind(InBucket(p), Len(loaded[p]) + Len(metadata[p]))
          BY DEF StreamInv, Order
        <4> QED
          BY <1>1, <1>6, <4>1, <4>2
      <3> QED
        BY <3>1, <3>2
    <2>10. ASSUME NEW p \in Workers
           PROVE  /\ \A i \in 1..Len(loaded'[p]) : loaded'[p][i] = i
                  /\ Behind(BoxBucket(p), Taken(p))'
                  /\ Given(Up(p))' = Taken(p)' + Len(BoxBucket(p)')
      BY <1>1, <1>6, <2>4, <2>5, <2>7 DEF StreamInv, Order
    <2>11. pc'[0] = "fill" => /\ Len(metadata'[0]) <= packed'
                              /\ Behind(metadata[0], packed - Len(metadata[0]))'
      BY <1>1, <1>2, <1>3, <1>6, Sizes DEF StreamInv, Order
    <2> QED
      BY <2>9, <2>10, <2>11 DEF Order
  <1> QED
    BY <1>4, <1>5, <1>7, <1>8, <1>9 DEF StreamInv

-----------------------------------------------------------------------------
(* Steps that write into a buffer.                                         *)

\* The weights of a bucket lie before the first n cells end.
Below(bucket, n) ==
    \A k \in 1..Len(bucket) : bucket[k].offset + size[bucket[k].name] <= n

Item(w, n) == [name |-> w, offset |-> n]

\* The next weight, in a buffer b and its metadata s.
Packed(b, s, n, w, t) ==
    /\ Write(b, n, w) \in [Cells -> Weights \union {0}]
    /\ Shows(Write(b, n, w), t)
    /\ t \in Seq(Place) /\ Len(t) = Len(s) + 1
    /\ Below(t, n + size[w])
    /\ \A m \in Nat : Behind(s, m) /\ w = m + (Len(s) + 1) => Behind(t, m)

\* A weight put behind those that a buffer shows.
LEMMA Written ==
    ASSUME size \in [Weights -> Cells], NEW s \in Seq(Place),
           NEW b \in [Cells -> Weights \union {0}], NEW n \in Nat,
           NEW w \in Weights, n + size[w] <= BucketSize, Shows(b, s),
           Below(s, n), NEW t, t = Append(s, Item(w, n))
    PROVE  Packed(b, s, n, w, t)
  <1>1. Item(w, n) \in Place
    <2>1. n \in 0..(BucketSize - 1)
      <3>1. size[w] \in Nat \ {0} /\ BucketSize \in Nat
        BY Sizes
      <3> QED
        BY <3>1
    <2> QED
      BY <2>1 DEF Place, Meta, Item
  <1>2. /\ t \in Seq(Place) /\ Len(s) \in Nat /\ Len(t) = Len(s) + 1
        /\ \A k \in 1..Len(s) : t[k] = s[k]
        /\ t[Len(s) + 1] = Item(w, n)
    BY <1>1
  <1>3. \A k \in 1..Len(t) : k \in 1..Len(s) \/ k = Len(s) + 1
    BY <1>2
  <1>4. \A k \in 1..Len(s) : s[k] \in Place
    BY ElementOfSeq
  <1>5. Write(b, n, w) \in [Cells -> Weights \union {0}]
    BY DEF Write
  <1>6. /\ size[w] \in Nat \ {0}
        /\ \A v \in Weights : size[v] \in Nat
    BY Sizes
  <1>7. \A i \in (n + 1)..(n + size[w]) : Write(b, n, w)[i] = w
    BY <1>6, Sizes DEF Write, Cells
  <1>8. ASSUME NEW k \in 1..Len(s),
               NEW i \in (s[k].offset + 1)..(s[k].offset + size[s[k].name])
        PROVE  Write(b, n, w)[i] = s[k].name
    <2>1. /\ s[k].offset \in Nat /\ s[k].name \in Weights
          /\ size[s[k].name] \in Nat
      BY <1>4, <1>6 DEF Place, Meta
    <2>2. i \in Nat /\ 1 <= i /\ i <= n
      BY <2>1 DEF Below
    <2>3. i \in Cells /\ i \notin (n + 1)..(n + size[w])
      BY <1>6, <2>2, Sizes DEF Cells
    <2>4. b[i] = s[k].name
      BY DEF Shows
    <2> QED
      BY <2>3, <2>4 DEF Write
  <1>9. Shows(Write(b, n, w), t)
    <2>1. ASSUME NEW k \in 1..Len(t),
                 NEW i \in (t[k].offset + 1)..(t[k].offset + size[t[k].name])
          PROVE  Write(b, n, w)[i] = t[k].name
      <3>1. CASE k \in 1..Len(s)
        BY <1>2, <1>8, <3>1
      <3>2. CASE k = Len(s) + 1
        BY <1>2, <1>7, <3>2 DEF Item
      <3> QED
        BY <1>3, <3>1, <3>2
    <2> QED
      BY <2>1 DEF Shows
  <1>10. ASSUME NEW k \in 1..Len(t)
         PROVE  t[k].offset + size[t[k].name] <= n + size[w]
    <2>1. CASE k \in 1..Len(s)
      <3>1. /\ s[k].offset \in Nat /\ size[s[k].name] \in Nat
            /\ s[k].offset + size[s[k].name] <= n
        BY <1>4, <1>6, <2>1 DEF Place, Meta, Below
      <3> QED
        BY <1>2, <1>6, <2>1, <3>1
    <2>2. CASE k = Len(s) + 1
      BY <1>2, <1>6, <2>2 DEF Item
    <2> QED
      BY <1>3, <2>1, <2>2
  <1>11. ASSUME NEW m \in Nat, Behind(s, m), w = m + (Len(s) + 1)
         PROVE  Behind(t, m)
    <2>1. ASSUME NEW k \in 1..Len(t) PROVE t[k].name = m + k
      <3>1. CASE k \in 1..Len(s)
        BY <1>2, <1>11, <3>1 DEF Behind
      <3>2. CASE k = Len(s) + 1
        BY <1>2, <1>11, <3>2 DEF Item
      <3> QED
        BY <1>3, <3>1, <3>2
    <2> QED
      BY <2>1 DEF Behind
  <1> QED
    BY <1>2, <1>5, <1>9, <1>10, <1>11 DEF Packed, Below

\* How the counts change when a weight is packed.
LEMMA PackedOne ==
    \A m, n \in Nat : /\ (m + 1) - (n + 1) = m - n
                      /\ m + 1 = (m - n) + (n + 1)
                      /\ n <= m => n + 1 <= m + 1
  OBVIOUS

LEMMA KeepFill ==
    ASSUME StreamInv, Fill
    PROVE  StreamInv'
  <1> DEFINE w == packed + 1
             b == buf[0][half[0]]
             t == Append(metadata[0], Item(w, offset))
  <1>1. /\ pc[0] = "fill" /\ packed < NumWeights
        /\ offset + size[w] <= BucketSize
        /\ buf' = [buf EXCEPT ![0][half[0]] = Write(b, offset, w)]
        /\ metadata' = [metadata EXCEPT ![0] = t]
        /\ packed' = w /\ offset' = offset + size[w]
        /\ UNCHANGED <<backend, size, half, is_last, pc, out, in, inbox,
                       loaded>>
    BY DEF Fill, Fits, Item
  <1>2. /\ metadata[0] \in Seq(Place) /\ half[0] \in Halves
        /\ b \in [Cells -> Weights \union {0}]
        /\ packed \in 0..NumWeights /\ offset \in 0..BucketSize
        /\ w \in Weights /\ size[w] \in Nat
        /\ metadata \in [Ranks -> Seq(Place)]
        /\ buf \in [Ranks -> [Halves -> [Cells -> Weights \union {0}]]]
        /\ size \in [Weights -> Cells]
    <2>1. /\ packed \in 0..NumWeights /\ offset \in 0..BucketSize
          /\ metadata \in [Ranks -> Seq(Place)] /\ half \in [Ranks -> Halves]
          /\ buf \in [Ranks -> [Halves -> [Cells -> Weights \union {0}]]]
          /\ size \in [Weights -> Cells]
      BY DEF StreamInv, Types
    <2>2. /\ metadata[0] \in Seq(Place) /\ half[0] \in Halves
          /\ b \in [Cells -> Weights \union {0}]
      BY <2>1, Sizes
    <2>3. w \in Weights
      BY <1>1, <2>1, Sizes DEF Weights
    <2>4. size[w] \in Nat
      BY <2>1, <2>3, Sizes
    <2> QED
      BY <2>1, <2>2, <2>3, <2>4
  <1>3. Shows(b, metadata[0]) /\ Below(metadata[0], offset)
    BY <1>1 DEF StreamInv, Buffers, Below
  <1>4. /\ Write(b, offset, w) \in [Cells -> Weights \union {0}]
        /\ Shows(Write(b, offset, w), t)
        /\ t \in Seq(Place) /\ Len(t) = Len(metadata[0]) + 1
        /\ Below(t, offset + size[w])
        /\ \A m \in Nat :
            Behind(metadata[0], m) /\ w = m + (Len(metadata[0]) + 1)
                => Behind(t, m)
    <2>1. offset \in Nat /\ t = Append(metadata[0], Item(w, offset))
      BY <1>2
    <2> HIDE DEF w, b, t
    <2>2. Packed(b, metadata[0], offset, w, t)
      BY <1>1, <1>2, <1>3, <2>1, Written
    <2> QED
      BY <2>2 DEF Packed
  <1>5. Behind(t, packed - Len(metadata[0])) /\ Len(metadata[0]) \in Nat
    <2>1. /\ packed - Len(metadata[0]) \in Nat /\ Len(metadata[0]) \in Nat
          /\ Behind(metadata[0], packed - Len(metadata[0]))
      BY <1>1, Full DEF StreamInv
    <2>2. w = (packed - Len(metadata[0])) + (Len(metadata[0]) + 1)
      <3>1. packed \in Nat
        BY <1>2
      <3> QED
        BY <2>1, <3>1, PackedOne
    <2> QED
      BY <1>4, <2>1, <2>2
  <1> HIDE DEF w, b, t
  <1>6. /\ metadata'[0] = t
        /\ buf'[0][half[0]] = Write(b, offset, w)
        /\ \A h \in Halves : h # half[0] => buf'[0][h] = buf[0][h]
        /\ \A q \in Workers : metadata'[q] = metadata[q] /\ buf'[q] = buf[q]
    BY <1>1, <1>2, Sizes
  <1>7. Types'
    <2>1. buf' \in [Ranks -> [Halves -> [Cells -> Weights \union {0}]]]
      BY <1>1, <1>2, <1>4
    <2>2. /\ metadata' \in [Ranks -> Seq(Place)]
          /\ packed' \in 0..NumWeights /\ offset' \in 0..BucketSize
      <3>1. metadata' \in [Ranks -> Seq(Place)]
        BY <1>1, <1>2, <1>4
      <3>2. packed' \in 0..NumWeights
        BY <1>1, <1>2, Sizes DEF Weights
      <3>3. offset' \in 0..BucketSize
        BY <1>1, <1>2, Sizes
      <3> QED
        BY <3>1, <3>2, <3>3
    <2> QED
      BY <1>1, <2>1, <2>2 DEF StreamInv, Types
  <1>8. Control'
    BY <1>1, <1>6, Sizes DEF StreamInv, Control
  <1>9. /\ \A c, s : Shows(c, s)' <=> Shows(c, s)
        /\ \A s, n : Behind(s, n)' <=> Behind(s, n)
        /\ \A q \in Workers : Up(q) \in Ranks /\ Up(q)' = Up(q)
        /\ \A q \in Workers : InBucket(q)' = InBucket(q)
                           /\ BoxBucket(q)' = BoxBucket(q)
    BY <1>1, ReadersUp
       DEF StreamInv, Types, Shows, Behind, Up, InBucket, BoxBucket
  <1>10. Flight'
    <2>1. ASSUME NEW q \in Workers, out[Up(q)] # Idle
          PROVE  buf'[Up(q)][out[Up(q)].half] = buf[Up(q)][out[Up(q)].half]
      <3>1. CASE Up(q) = 0
        <4>1. out[0] \in Opening /\ out[0].half = 1 - half[0]
          BY <1>1, <2>1, <3>1, Sizes, Kinds DEF StreamInv, Control
        <4>2. out[0].half \in Halves /\ out[0].half # half[0]
          BY <1>2, <4>1 DEF Halves
        <4> QED
          BY <1>6, <3>1, <4>2
      <3>2. CASE Up(q) # 0
        BY <1>6, <1>9, <3>2, Sizes
      <3> QED
        BY <3>1, <3>2
    <2> QED
      BY <1>1, <1>9, <2>1 DEF StreamInv, Flight
  <1>11. Buffers'
    <2>1. /\ Shows(buf[0][half[0]], metadata[0])'
          /\ \A k \in 1..Len(metadata'[0]) :
                metadata'[0][k].offset + size'[metadata'[0][k].name] <= offset'
      BY <1>1, <1>4, <1>6, <1>9 DEF Below
    <2> QED
      BY <1>1, <1>6, <1>9, <2>1 DEF StreamInv, Buffers
  <1>12. Order'
    <2>1. packed' - Len(metadata'[0]) = packed - Len(metadata[0])
      <3>1. packed \in Nat /\ packed' = packed + 1
        BY <1>1, <1>2 DEF w
      <3>2. Len(metadata'[0]) = Len(metadata[0]) + 1
        BY <1>4, <1>6
      <3> QED
        BY <1>5, <3>1, <3>2, PackedOne
    <2>2. Given(0)' = Given(0)
      BY <1>1, <2>1 DEF Given
    <2>3. ASSUME NEW q \in Workers PROVE q # 0 /\ Given(q)' = Given(q)
      <3>1. q # 0
        BY Sizes
      <3> QED
        BY <1>1, <1>6, <3>1 DEF Given
    <2>4. \A q \in Workers : Given(Up(q))' = Given(Up(q))
      BY <1>9, <2>2, <2>3, Sizes DEF Given
    <2>5. \A q \in Workers : Taken(q)' = Taken(q)
      BY <1>1, <1>6, <1>9 DEF Taken
    <2>6. ASSUME NEW q \in Workers
          PROVE  /\ \A i \in 1..Len(loaded'[q]) : loaded'[q][i] = i
                 /\ Behind(metadata[q], Len(loaded[q]))'
                 /\ Behind(InBucket(q), Len(loaded[q]) + Len(metadata[q]))'
                 /\ Behind(BoxBucket(q), Taken(q))'
                 /\ Given(Up(q))' = Taken(q)' + Len(BoxBucket(q)')
      BY <1>1, <1>6, <1>9, <2>4, <2>5 DEF StreamInv, Order
    <2>7. /\ Len(metadata'[0]) <= packed'
          /\ Behind(metadata[0], packed - Len(metadata[0]))'
      <3>1. Len(metadata[0]) <= packed
        BY <1>1 DEF StreamInv, Order
      <3>2. Len(metadata'[0]) <= packed'
        <4>1. packed \in Nat /\ packed' = packed + 1
          BY <1>1, <1>2 DEF w
        <4> QED
          BY <1>4, <1>5, <1>6, <3>1, <4>1, PackedOne
      <3> QED
        BY <1>5, <1>6, <1>9, <2>1, <3>2
    <2> QED
      BY <2>6, <2>7 DEF Order
  <1> QED
    BY <1>7, <1>8, <1>10, <1>11, <1>12 DEF StreamInv

LEMMA KeepTransfer ==
    ASSUME StreamInv, NEW r \in Ranks, Transfer(r)
    PROVE  StreamInv'
  <1>1. /\ out[r].pc = "open"
        /\ \A q \in Readers(r) : in[q].pc = "joined"
        /\ buf' = [q \in Ranks |->
                    IF q \in Readers(r)
                    THEN [buf[q] EXCEPT ![in[q].half] = buf[r][out[r].half]]
                    ELSE buf[q]]
        /\ in' = [q \in Ranks |->
                    IF q \in Readers(r) THEN [in[q] EXCEPT !.pc = "complete"]
                    ELSE in[q]]
        /\ out' = [out EXCEPT ![r] = Idle]
        /\ UNCHANGED <<backend, size, half, packed, offset, metadata, is_last,
                       pc, inbox, loaded>>
    BY DEF Transfer
  <1>2. /\ \A q \in Readers(r) : q \in Workers /\ q \in Ranks /\ r = Up(q)
        /\ \A q \in Workers : r = Up(q) => q \in Readers(r)
        /\ \A q \in Workers : Up(q) \in Ranks /\ Up(q)' = Up(q)
        /\ 0 \notin Readers(r)
    BY <1>1, ReadersUp, Sizes DEF StreamInv, Types, Up
  <1>3. /\ out \in [Ranks -> {Idle} \union Opening]
        /\ in \in [Ranks -> {Idle} \union Awaiting \union Holding]
        /\ buf \in [Ranks -> [Halves -> [Cells -> Weights \union {0}]]]
        /\ half \in [Ranks -> Halves]
        /\ out[r] \in Opening /\ out[r] # Idle /\ out[r].half \in Halves
    BY <1>1, Kinds DEF StreamInv, Types, Opening
  <1>4. ASSUME NEW q \in Readers(r)
        PROVE  /\ in[q] \in Holding /\ in[q].half \in Halves /\ in[q] # Idle
               /\ in[q].half = 1 - half[q] /\ in[q].half # half[q]
               /\ inbox[q] = <<>>
               /\ Shows(buf[r][out[r].half], in[q].meta.bucket)
    <2>1. in[q] \in Holding /\ in[q] # Idle
      BY <1>1, <1>2, Kinds DEF StreamInv, Idle
    <2>2. in[q].half = 1 - half[q] /\ half[q] \in {0, 1}
      BY <1>2, <1>3, <2>1 DEF StreamInv, Control, Halves
    <2>3. inbox[q] = <<>> /\ Shows(buf[r][out[r].half], in[q].meta.bucket)
      BY <1>1, <1>2, <1>3 DEF StreamInv, Flight
    <2> QED
      BY <2>1, <2>2, <2>3 DEF Halves
  <1>5. ASSUME NEW q \in Readers(r)
        PROVE  /\ in'[q].pc = "complete" /\ in'[q].half = in[q].half
               /\ in'[q].meta = in[q].meta /\ in'[q] \in Holding
               /\ in'[q] # Idle
    <2>1. in'[q] = [in[q] EXCEPT !.pc = "complete"]
      BY <1>1, <1>2
    <2>2. /\ in'[q].pc = "complete" /\ in'[q].half = in[q].half
          /\ in'[q].meta = in[q].meta /\ in'[q] \in Holding
      BY <1>4, <2>1 DEF Holding
    <2> QED
      BY <2>2, IdlePc
  <1>6. \A q \in Ranks \ Readers(r) : in'[q] = in[q] /\ buf'[q] = buf[q]
    BY <1>1
  <1>7. \A q \in Readers(r) :
            /\ buf'[q][in[q].half] = buf[r][out[r].half]
            /\ buf'[q][half[q]] = buf[q][half[q]]
    <2>1. ASSUME NEW q \in Readers(r)
          PROVE  buf'[q] = [buf[q] EXCEPT ![in[q].half] = buf[r][out[r].half]]
      BY <1>1, <1>2
    <2>2. ASSUME NEW q \in Readers(r)
          PROVE  buf[q] \in [Halves -> [Cells -> Weights \union {0}]]
                 /\ half[q] \in Halves
      BY <1>2, <1>3
    <2> QED
      BY <1>4, <2>1, <2>2
  <1>8. /\ out'[r] = Idle
        /\ \A s \in Ranks \ {r} : out'[s] = out[s]
    BY <1>1, <1>3
  <1>9. /\ \A b, s : Shows(b, s)' <=> Shows(b, s)
    BY <1>1 DEF Shows
  <1>10. Types'
    <2>1. out' \in [Ranks -> {Idle} \union Opening]
      BY <1>1, <1>3
    <2>2. in' \in [Ranks -> {Idle} \union Awaiting \union Holding]
      <3>1. \A q \in Ranks : in'[q] \in {Idle} \union Awaiting \union Holding
        BY <1>3, <1>5, <1>6
      <3>2. in' = [q \in Ranks |-> in'[q]]
        BY <1>1
      <3> QED
        BY <3>1, <3>2
    <2>3. buf' \in [Ranks -> [Halves -> [Cells -> Weights \union {0}]]]
      <3>1. buf[r][out[r].half] \in [Cells -> Weights \union {0}]
        BY <1>3
      <3>2. \A q \in Ranks :
                [buf[q] EXCEPT ![in[q].half] = buf[r][out[r].half]]
                    \in [Halves -> [Cells -> Weights \union {0}]]
        BY <1>3, <3>1
      <3> QED
        BY <1>1, <1>3, <3>2
    <2> QED
      BY <1>1, <2>1, <2>2, <2>3 DEF StreamInv, Types
  <1>11. Control'
    <2>1. in'[0] = in[0]
      BY <1>2, <1>6, Sizes
    <2>2. \A s \in Ranks : out'[s] # Idle => out'[s] = out[s]
      BY <1>8
    <2>3. ASSUME NEW q \in Workers
          PROVE  /\ in[q] = Idle => in'[q] = Idle
                 /\ in'[q] # Idle => in'[q].half = 1 - half[q]
      <3>1. CASE q \in Readers(r)
        BY <1>4, <1>5, <3>1
      <3>2. CASE q \notin Readers(r)
        BY <1>6, <3>2, Sizes DEF StreamInv, Control
      <3> QED
        BY <3>1, <3>2
    <2>4. \A q \in Workers : out[q] = Idle => out'[q] = Idle
      BY <1>8, Sizes
    <2> QED
      BY <1>1, <2>1, <2>2, <2>3, <2>4, Sizes DEF StreamInv, Control
  <1>12. Flight'
    <2>1. ASSUME NEW p \in Workers, r = Up(p)
          PROVE  out'[Up(p)'] = Idle /\ inbox'[p] = <<>> /\ in'[p].pc # "joined"
      BY <1>1, <1>2, <1>4, <1>5, <1>8, <2>1
    <2>2. ASSUME NEW p \in Workers, r # Up(p)
          PROVE  /\ out'[Up(p)'] = out[Up(p)] /\ in'[p] = in[p]
                 /\ inbox'[p] = inbox[p]
                 /\ out[Up(p)] # Idle => buf'[Up(p)'][out[Up(p)].half]
                                            = buf[Up(p)][out[Up(p)].half]
      <3>1. /\ out'[Up(p)'] = out[Up(p)] /\ in'[p] = in[p]
            /\ inbox'[p] = inbox[p]
        BY <1>1, <1>2, <1>6, <1>8, <2>2, Sizes
      <3>2. ASSUME out[Up(p)] # Idle, Up(p) \in Readers(r)
            PROVE  out[Up(p)].half = half[Up(p)]
        BY <1>2, <3>2 DEF StreamInv, Control
      <3> QED
        BY <1>2, <1>6, <1>7, <3>1, <3>2
    <2> QED
      BY <1>9, <2>1, <2>2 DEF StreamInv, Flight
  <1>13. Buffers'
    <2>1. buf'[0] = buf[0]
      BY <1>2, <1>6, Sizes
    <2>2. ASSUME NEW q \in Workers
          PROVE  /\ pc'[q] \in {"forward", "yield"} =>
                        Shows(buf[q][half[q]], metadata[q])'
                 /\ in'[q].pc = "complete" =>
                        Shows(buf[q][in[q].half], in[q].meta.bucket)'
      <3>1. CASE q \in Readers(r)
        <4>1. /\ buf'[q][half'[q]] = buf[q][half[q]]
              /\ buf'[q][in'[q].half] = buf[r][out[r].half]
          <5>1. in'[q].half = in[q].half /\ half' = half
            BY <1>1, <1>5, <3>1
          <5>2. /\ buf'[q][in[q].half] = buf[r][out[r].half]
                /\ buf'[q][half[q]] = buf[q][half[q]]
            BY <1>7, <3>1
          <5> QED
            BY <5>1, <5>2
        <4>2. Shows(buf'[q][in'[q].half], in'[q].meta.bucket)
          BY <1>4, <1>5, <3>1, <4>1
        <4>3. pc[q] \in {"forward", "yield"} =>
                Shows(buf[q][half[q]], metadata[q])
          BY DEF StreamInv, Buffers
        <4> QED
          BY <1>1, <1>9, <4>1, <4>2, <4>3
      <3>2. CASE q \notin Readers(r)
        BY <1>1, <1>6, <1>9, <3>2, Sizes DEF StreamInv, Buffers
      <3> QED
        BY <3>1, <3>2
    <2> QED
      BY <1>1, <1>9, <2>1, <2>2 DEF StreamInv, Buffers
  <1>14. Order'
    <2>1. ASSUME NEW q \in Workers
          PROVE  InBucket(q)' = InBucket(q) /\ BoxBucket(q)' = BoxBucket(q)
      <3>1. CASE q \in Readers(r)
        <4>1. InBucket(q) = in[q].meta.bucket
          BY <1>4, <3>1 DEF InBucket
        <4>2. InBucket(q)' = in'[q].meta.bucket
          BY <1>5, <3>1 DEF InBucket
        <4>3. in'[q].meta = in[q].meta
          BY <1>5, <3>1
        <4> QED
          BY <1>1, <4>1, <4>2, <4>3 DEF BoxBucket
      <3>2. CASE q \notin Readers(r)
        BY <1>1, <1>6, <3>2, Sizes DEF InBucket, BoxBucket
      <3> QED
        BY <3>1, <3>2
    <2>2. \A s \in Ranks : Given(s)' = Given(s)
      BY <1>1 DEF Given
    <2> QED
      BY <1>1, <1>2, <2>1, <2>2, OrderStays DEF StreamInv
  <1> QED
    BY <1>10, <1>11, <1>12, <1>13, <1>14 DEF StreamInv

\* A step of a streamed transfer keeps the invariant.
LEMMA StreamInvNext ==
    ASSUME StreamInv, StreamNext
    PROVE  StreamInv'
  <1>1. CASE Send
    BY <1>1, KeepFill, KeepSendBucket, KeepSendLastBucket, KeepReturn, Sizes
       DEF Send
  <1>2. ASSUME NEW q \in Workers, Receive(q)
        PROVE  StreamInv'
    BY <1>2, KeepReceiveFirst, KeepBucketReceived, KeepForward,
       KeepYieldWeight, KeepBucketHandedOut, KeepReturn, Sizes DEF Receive
  <1>3. ASSUME NEW r \in Ranks, Operate(r)
        PROVE  StreamInv'
    BY <1>3, KeepJoin, KeepTransfer DEF Operate
  <1> QED
    BY <1>1, <1>2, <1>3 DEF StreamNext

\* What the invariant says of the weights that are loaded.
LEMMA StreamInvIntact ==
    ASSUME StreamInv
    PROVE  WeightsIntact
  <1> SUFFICES ASSUME NEW q \in Workers, NEW i \in 1..Len(loaded[q])
               PROVE  /\ loaded[q][i] \in Weights
                      /\ \A j \in 1..(i - 1) : loaded[q][j] # loaded[q][i]
    BY DEF WeightsIntact
  <1>1. loaded[q] \in Seq(Weights \union {0}) /\ Len(loaded[q]) \in Nat
    BY Counts DEF StreamInv, Types
  <1>2. \A j \in 1..Len(loaded[q]) : loaded[q][j] = j
    BY DEF StreamInv, Order
  <1>3. loaded[q][i] \in Weights
    <2>1. loaded[q][i] \in Weights \union {0}
      BY <1>1, ElementOfSeq
    <2> QED
      BY <1>1, <1>2, <2>1
  <1>4. ASSUME NEW j \in 1..(i - 1)
        PROVE  loaded[q][j] # loaded[q][i]
    BY <1>1, <1>2
  <1> QED
    BY <1>3, <1>4

LEMMA StreamInvStays ==
    ASSUME StreamInv, UNCHANGED streamVars
    PROVE  StreamInv'
  <1>1. UNCHANGED <<backend, size, loaded, buf, half, packed, offset, metadata,
                    is_last, pc, out, in, inbox>>
    BY DEF streamVars, transferVars
  <1>2. Types' /\ Control'
    BY <1>1 DEF StreamInv, Types, Control
  <1>3. Flight' /\ Buffers'
    BY <1>1, FlightStays, BuffersStay DEF StreamInv
  <1>4. Order'
    BY <1>1, ReadersUp, OrderStays
       DEF StreamInv, Types, InBucket, BoxBucket, Given
  <1> QED
    BY <1>2, <1>3, <1>4 DEF StreamInv

-----------------------------------------------------------------------------
(* The invariant of the engines that broadcast.                            *)

Turns == [owner : ActorRanks, bucket : Seq(Weights)]

\* Every bucket fits, and no weight is in the schedule twice.
ScheduleSound ==
    /\ schedule \in Seq(Turns)
    /\ \A g \in 1..Len(schedule) : SizeOf(schedule[g].bucket) <= BucketSize
    /\ \A g, h \in 1..Len(schedule) :
        \A k \in 1..Len(schedule[g].bucket), l \in 1..Len(schedule[h].bucket) :
            schedule[g].bucket[k] = schedule[h].bucket[l] => g = h /\ k = l

Request == [pc : {"sent", "answered"}, metas : Seq(Meta(2 * BucketSize))]

BroadcastTypes ==
    /\ backend \in {"broadcast", "overlapped"}
    /\ size \in [Weights -> Cells]
    /\ loaded \in [Workers -> Seq(Weights \union {0})]
    /\ stage \in [Members -> {"prepare", "broadcast", "load", "recv",
                              "barrier", "send", "join", "end_barrier",
                              "returned"}]
    /\ gidx \in [Members -> 0..Len(schedule)]
    /\ load_buffer \in [Members -> [1..(2 * BucketSize) -> Weights \union {0}]]
    /\ views \in [Members -> Seq(Meta(BucketSize))]
    /\ request \in [Members -> Request]

\* A process that is between the broadcast of its bucket and the next one.
Within(p) == stage[p] \in {"load", "recv", "barrier", "send"}

\* How many broadcasts a process has taken part in.
Done(p) == IF Within(p) THEN gidx[p] + 1 ELSE gidx[p]

\* What a process loads, it loads between two broadcasts (plain) or until its
\* thread has answered (overlapped).
Phase(p) ==
    /\ stage[p] = "broadcast" \/ Within(p) => gidx[p] < Len(schedule)
    /\ request[p].pc = "answered" => request[p].metas = <<>>
    /\ backend = "broadcast" => /\ stage[p] \notin {"recv", "barrier", "send"}
                                /\ request[p].metas = <<>>
                                /\ stage[p] # "load" => views[p] = <<>>
    /\ backend = "overlapped" => stage[p] # "load" /\ views[p] = <<>>
    /\ stage[p] \in {"barrier", "send"} => request[p].pc = "answered"
    /\ stage[p] = "load" => p \in Workers

\* Where the weights of the g-th bucket are.
Places(g) == Metas(schedule[g].bucket, Start(g - 1))

\* What a worker has yet to load, and from which bucket.
Rest(q) == IF backend = "broadcast" THEN views[q] ELSE request[q].metas
At(q) == IF backend = "broadcast" THEN Done(q) ELSE gidx[q]

\* An owner shows the bucket it is about to broadcast.
Prepared(p) ==
    stage[p] = "broadcast" /\ p = Current(p).owner =>
        Shows(load_buffer[p], Places(gidx[p] + 1))

\* A process shows the bucket that its thread will be told of.
Arrived(p) ==
    stage[p] \in {"recv", "barrier", "send"} =>
        Shows(load_buffer[p], Places(gidx[p] + 1))

\* What a worker has yet to load is the end of a bucket its buffer shows.
Loading(p) ==
    p \in Workers /\ Rest(p) # <<>> =>
        /\ At(p) \in 1..Len(schedule)
        /\ Len(Rest(p)) <= Len(schedule[At(p)].bucket)
        /\ \A j \in 1..Len(Rest(p)) :
            Rest(p)[j] = Places(At(p))[(Len(schedule[At(p)].bucket)
                                            - Len(Rest(p))) + j]
        /\ Shows(load_buffer[p], Places(At(p)))

Sound(p) == Phase(p) /\ Prepared(p) /\ Arrived(p) /\ Loading(p)

\* The weight at a place of the schedule has been loaded by a worker.
Passed(q, g, k) ==
    /\ g <= At(q)
    /\ g = At(q) => k <= Len(schedule[g].bucket) - Len(Rest(q))

\* What a worker has loaded comes from places it has behind it, each once.
Handed(q) ==
    /\ \A i \in 1..Len(loaded[q]) :
        \E g \in 1..Len(schedule) : \E k \in 1..Len(schedule[g].bucket) :
            loaded[q][i] = schedule[g].bucket[k] /\ Passed(q, g, k)
    /\ \A i, j \in 1..Len(loaded[q]) : loaded[q][i] = loaded[q][j] => i = j

BroadcastInv ==
    /\ ScheduleSound
    /\ BroadcastTypes
    /\ \A p, q \in Members : Done(p) = Done(q)
    /\ \A p \in Members : Sound(p)
    /\ \A q \in Workers : Handed(q)

-----------------------------------------------------------------------------
(* Where the weights of a bucket are.                                      *)

LEMMA SizeUnfold ==
    ASSUME NEW b, NEW N \in Nat, Len(b) = N,
           \E f : f = [n \in 0..N |-> IF n = 0 THEN 0
                                     ELSE f[n - 1] + size[b[n]]]
    PROVE  \E f : /\ f = [n \in 0..N |-> IF n = 0 THEN 0
                                         ELSE f[n - 1] + size[b[n]]]
                  /\ SizeOf(b) = f[N]
  BY DEF SizeOf

LEMMA SizeOfPrefixes ==
    ASSUME size \in [Weights -> Cells], NEW b \in Seq(Weights)
    PROVE  /\ SizeOf(SubSeq(b, 1, 0)) = 0
           /\ \A k \in 0..Len(b) : SizeOf(SubSeq(b, 1, k)) \in Nat
           /\ \A k \in 1..Len(b) :
                /\ size[b[k]] \in Nat \ {0}
                /\ SizeOf(SubSeq(b, 1, k))
                        = SizeOf(SubSeq(b, 1, k - 1)) + size[b[k]]
  <1> DEFINE N == Len(b)
             F == [p \in Nat \X (1..N) |-> p[1] + size[b[p[2]]]]
  <1>1. N \in Nat /\ \A n \in 1..N : b[n] \in Weights
    BY LenProperties, ElementOfSeq
  <1>2. \A n \in 1..N : size[b[n]] \in Nat \ {0}
    BY <1>1, Sizes
  <1>3. F \in [Nat \X (1..N) -> Nat]
    BY <1>2
  <1>4. \A s \in Nat, n \in 1..N : F[<<s, n>>] = s + size[b[n]]
    OBVIOUS
  <1> HIDE DEF F, N
  <1>5. Steps(Nat, N, 0, F)
    BY <1>1, <1>3 DEF Steps
  <1>6. \E f : Runs(f, Nat, N, 0, F)
    BY <1>5, RecursionExists, Zenon
  <1>7. PICK f \in [0..N -> Nat] :
            f[0] = 0 /\ \A n \in 1..N : f[n] = F[<<f[n - 1], n>>]
    BY <1>6 DEF Runs
  <1>8. \A n \in 1..N : f[n] = f[n - 1] + size[b[n]]
    <2>1. \A n \in 1..N : n - 1 \in 0..N
      BY <1>1
    <2> QED
      BY <1>4, <1>7, <2>1
  <1>9. ASSUME NEW k \in 0..N PROVE SizeOf(SubSeq(b, 1, k)) = f[k]
    <2> DEFINE t == SubSeq(b, 1, k)
    <2>1. Len(t) = k /\ \A i \in 1..k : t[i] = b[i]
      <3>1. \A i \in 1..k : b[i] \in Weights
        BY <1>1
      <3>2. /\ Len(t) = IF 1 <= k THEN k - 1 + 1 ELSE 0
            /\ \A i \in 1..(k - 1 + 1) : t[i] = b[1 + i - 1]
        BY <1>1, <3>1, SubSeqProperties
      <3> QED
        BY <1>1, <3>2
    <2> HIDE DEF t
    <2>2. k \in Nat /\ \A i \in 0..k : i \in 0..N /\ (i # 0 => i \in 1..N)
      BY <1>1
    <2> DEFINE g == [i \in 0..k |-> f[i]]
    <2>3. ASSUME NEW i \in 0..k
          PROVE  g[i] = IF i = 0 THEN 0 ELSE g[i - 1] + size[t[i]]
      <3>1. i # 0 => i - 1 \in 0..k /\ i \in 1..k /\ i \in 1..N
        BY <2>2
      <3> QED
        BY <3>1, <2>1, <1>7, <1>8
    <2>4. g = [i \in 0..k |-> IF i = 0 THEN 0 ELSE g[i - 1] + size[t[i]]]
      BY <2>3
    <2> HIDE DEF g
    <2>5. PICK h :
            /\ h = [i \in 0..k |-> IF i = 0 THEN 0 ELSE h[i - 1] + size[t[i]]]
            /\ SizeOf(t) = h[k]
      <3>1. \E h : h = [i \in 0..k |-> IF i = 0 THEN 0
                                      ELSE h[i - 1] + size[t[i]]]
        BY <2>4, Zenon
      <3>2. Len(t) = k
        BY <2>1
      <3> QED
        BY <2>2, <3>1, <3>2, SizeUnfold, Zenon
    <2>6. Alike(h, f, k)
      <3>1. 0 \in 0..k /\ h[0] = 0
        BY <2>2, <2>5
      <3>2. ASSUME NEW n \in 1..k, h[n - 1] = f[n - 1] PROVE h[n] = f[n]
        <4>1. n \in 0..k /\ n # 0 /\ n \in 1..N
          BY <2>2
        <4>2. h[n] = h[n - 1] + size[t[n]]
          BY <4>1, <2>5
        <4> QED
          BY <4>1, <4>2, <3>2, <2>1, <1>8
      <3> QED
        BY <3>1, <3>2, <1>7 DEF Alike
    <2>7. h[k] = f[k]
      <3>1. k \in Nat
        BY <2>2
      <3>2. \A n \in 0..k : h[n] = f[n]
        BY <2>6, <3>1, RecursionUnique, Zenon
      <3>3. k \in 0..k
        BY <3>1
      <3> QED
        BY <3>2, <3>3
    <2> QED
      BY <2>5, <2>7 DEF t
  <1>10. 0 \in 0..N /\ \A k \in 1..N : k \in 0..N /\ k - 1 \in 0..N
    BY <1>1
  <1>11. \A k \in 0..N : SizeOf(SubSeq(b, 1, k)) \in Nat
    BY <1>7, <1>9
  <1>12. ASSUME NEW k \in 1..N
         PROVE  SizeOf(SubSeq(b, 1, k))
                        = SizeOf(SubSeq(b, 1, k - 1)) + size[b[k]]
    BY <1>8, <1>9, <1>10
  <1> QED
    BY <1>2, <1>7, <1>9, <1>10, <1>11, <1>12 DEF N

\* The weights of a bucket follow each other and end where the bucket does.
LEMMA SizesMonotonic ==
    ASSUME size \in [Weights -> Cells], NEW b \in Seq(Weights),
           NEW m \in 0..Len(b), NEW n \in 0..Len(b), m <= n
    PROVE  SizeOf(SubSeq(b, 1, m)) <= SizeOf(SubSeq(b, 1, n))
  <1> DEFINE N == Len(b)
             f == [i \in 0..N |-> SizeOf(SubSeq(b, 1, i))]
  <1>1. N \in Nat /\ m \in 0..N /\ n \in 0..N
    BY LenProperties
  <1>2. \A i \in 0..N : f[i] = SizeOf(SubSeq(b, 1, i)) /\ f[i] \in Nat
    BY SizeOfPrefixes
  <1>3. ASSUME NEW i \in 1..N PROVE f[i - 1] <= f[i]
    <2>1. i \in 0..N /\ i - 1 \in 0..N
      BY <1>1
    <2>2. /\ size[b[i]] \in Nat
          /\ SizeOf(SubSeq(b, 1, i)) = SizeOf(SubSeq(b, 1, i - 1)) + size[b[i]]
      BY SizeOfPrefixes
    <2> HIDE DEF f
    <2>3. /\ f[i - 1] \in Nat /\ f[i - 1] = SizeOf(SubSeq(b, 1, i - 1))
          /\ f[i] = SizeOf(SubSeq(b, 1, i))
      BY <1>2, <2>1
    <2> HIDE DEF N
    <2> QED
      BY <2>2, <2>3
  <1> HIDE DEF f, N
  <1>4. \A i \in 0..N : f[i] \in Int
    BY <1>2
  <1>5. Rising(f, N)
    BY <1>3, <1>4 DEF Rising
  <1>6. f[m] <= f[n]
    BY <1>1, <1>5, RisingSteps
  <1> QED
    BY <1>1, <1>2, <1>6

\* A bucket that fits: its metadata show each weight within it, behind the
\* weights before.
LEMMA MetasSound ==
    ASSUME size \in [Weights -> Cells], NEW b \in Seq(Weights),
           SizeOf(b) <= BucketSize, NEW start \in Nat
    PROVE  /\ SizeOf(b) \in Nat
           /\ Len(Metas(b, start)) = Len(b)
           /\ DOMAIN Metas(b, start) = 1..Len(b)
           /\ Metas(b, start) \in Seq(Meta(start + BucketSize))
           /\ \A k \in 1..Len(b) :
                /\ b[k] \in Weights /\ size[b[k]] \in Nat \ {0}
                /\ Metas(b, start)[k].name = b[k]
                /\ Metas(b, start)[k].offset \in Nat
                /\ start <= Metas(b, start)[k].offset
                /\ Metas(b, start)[k].offset + size[b[k]] <= start + SizeOf(b)
           /\ \A j, k \in 1..Len(b) :
                j < k => Metas(b, start)[j].offset + size[b[j]]
                            <= Metas(b, start)[k].offset
  <1> DEFINE N == Len(b)
             M == Metas(b, start)
             f(k) == SizeOf(SubSeq(b, 1, k))
  <1>1. /\ N \in Nat /\ SizeOf(b) = f(N)
        /\ \A n \in 1..N : b[n] \in Weights /\ n - 1 \in 0..N /\ n \in 0..N
        /\ N \in 0..N
    <2>1. N \in Nat /\ \A n \in 1..N : b[n] \in Weights
      BY LenProperties, ElementOfSeq
    <2>2. SubSeq(b, 1, N) = b
      BY SubSeqFull
    <2>3. SizeOf(b) = f(N)
      BY <2>2
    <2> HIDE DEF N, f
    <2> QED
      BY <2>1, <2>3
  <1>2. /\ \A k \in 0..N : f(k) \in Nat
        /\ \A k \in 1..N : /\ size[b[k]] \in Nat \ {0}
                           /\ f(k) = f(k - 1) + size[b[k]]
    BY SizeOfPrefixes
  <1>3. \A m, n \in 0..N : m <= n => f(m) <= f(n)
    BY SizesMonotonic
  <1>4. /\ Len(M) = N /\ DOMAIN M = 1..N
        /\ \A k \in 1..N : M[k] = [name |-> b[k], offset |-> start + f(k - 1)]
    BY <1>1 DEF Metas
  <1> HIDE DEF M, f, N
  <1>5. ASSUME NEW k \in 1..N
        PROVE  /\ M[k].name = b[k]
               /\ M[k].offset = start + f(k - 1)
               /\ M[k].offset \in Nat
               /\ start <= M[k].offset
               /\ M[k].offset + size[b[k]] <= start + SizeOf(b)
               /\ M[k].offset \in 0..((start + BucketSize) - 1)
    <2>1. /\ k - 1 \in 0..N /\ k \in 0..N /\ N \in 0..N /\ k <= N
          /\ M[k].offset = start + f(k - 1)
          /\ M[k].name = b[k]
      BY <1>1, <1>4
    <2>2. /\ f(k - 1) \in Nat /\ f(k) \in Nat /\ f(N) \in Nat
          /\ f(k) = f(k - 1) + size[b[k]] /\ f(k) <= f(N)
          /\ size[b[k]] \in Nat \ {0} /\ f(N) <= BucketSize
      BY <2>1, <1>1, <1>2, <1>3
    <2>3. BucketSize \in Nat
      BY Sizes
    <2> DEFINE o == M[k].offset
               l == f(k - 1)
               s == size[b[k]]
               e == SizeOf(b)
    <2>4. /\ o = start + l /\ l \in Nat /\ s \in Nat \ {0} /\ e \in Nat
          /\ l + s <= e /\ e <= BucketSize
      BY <2>1, <2>2, <1>1
    <2> HIDE DEF o, l, s, e
    <2>5. /\ o \in Nat /\ start <= o /\ o + s <= start + e
          /\ o \in 0..((start + BucketSize) - 1)
      BY <2>3, <2>4
    <2> QED
      BY <2>1, <2>5 DEF o, l, s, e
  <1>6. \A k \in 1..N : M[k] \in Meta(start + BucketSize)
    <2> SUFFICES ASSUME NEW k \in 1..N PROVE M[k] \in Meta(start + BucketSize)
      OBVIOUS
    <2> DEFINE x == b[k]
               o == start + f(k - 1)
               n == start + BucketSize
    <2>1. M[k] = [name |-> x, offset |-> o]
      BY <1>4
    <2>2. x \in Weights
      BY <1>1
    <2>3. o \in 0..(n - 1)
      <3>1. M[k].offset = o /\ M[k].offset \in 0..(n - 1)
        BY <1>5, Zenon
      <3> QED
        BY <3>1, Zenon
    <2> HIDE DEF x, o, n
    <2>4. M[k] \in Meta(n)
      BY <2>1, <2>2, <2>3 DEF Meta
    <2> QED
      BY <2>4 DEF n
  <1>7. M \in Seq(Meta(start + BucketSize))
    <2>1. M = [k \in 1..N |-> M[k]]
      BY <1>4 DEF M, Metas, N
    <2>2. M \in [1..N -> Meta(start + BucketSize)]
      BY <2>1, <1>6
    <2> QED
      BY <2>2, <1>1, SeqDef
  <1>8. ASSUME NEW j \in 1..N, NEW k \in 1..N, j < k
        PROVE  M[j].offset + size[b[j]] <= M[k].offset
    <2>1. /\ j - 1 \in 0..N /\ j \in 0..N /\ k - 1 \in 0..N /\ j <= k - 1
      BY <1>1, <1>8
    <2>2. /\ f(j - 1) \in Nat /\ f(j) \in Nat /\ f(k - 1) \in Nat
          /\ f(j) = f(j - 1) + size[b[j]] /\ f(j) <= f(k - 1)
          /\ size[b[j]] \in Nat
      BY <2>1, <1>2, <1>3
    <2>3. M[j].offset = start + f(j - 1) /\ M[k].offset = start + f(k - 1)
      BY <1>5
    <2> QED
      BY <2>2, <2>3
  <1>9. SizeOf(b) \in Nat
    BY <1>1, <1>2
  <1> QED
    BY <1>1, <1>2, <1>4, <1>5, <1>7, <1>8, <1>9 DEF M, N

\* A buffer into which a bucket is written shows it.
LEMMA FilledShows ==
    ASSUME size \in [Weights -> Cells], NEW b \in Seq(Weights),
           SizeOf(b) <= BucketSize, NEW start \in {0, BucketSize},
           NEW buffer \in [1..(2 * BucketSize) -> Weights \union {0}]
    PROVE  /\ Filled(buffer, Metas(b, start))
                    \in [1..(2 * BucketSize) -> Weights \union {0}]
           /\ Shows(Filled(buffer, Metas(b, start)), Metas(b, start))
  <1> DEFINE M == Metas(b, start)
             Part(k) == (M[k].offset + 1)..(M[k].offset + size[M[k].name])
             Writers(i) == {k \in DOMAIN M : i \in Part(k)}
             F == Filled(buffer, M)
  <1>1. start \in Nat /\ BucketSize \in Nat
    BY Sizes
  <1>2. /\ SizeOf(b) \in Nat
        /\ Len(M) = Len(b) /\ DOMAIN M = 1..Len(b)
        /\ \A k \in 1..Len(b) :
                /\ b[k] \in Weights /\ size[b[k]] \in Nat \ {0}
                /\ M[k].name = b[k]
                /\ M[k].offset \in Nat
                /\ start <= M[k].offset
                /\ M[k].offset + size[b[k]] <= start + SizeOf(b)
        /\ \A j, k \in 1..Len(b) :
                j < k => M[j].offset + size[b[j]] <= M[k].offset
    BY <1>1, MetasSound
  <1>3. Len(b) \in Nat
    BY LenProperties
  <1> HIDE DEF M
  <1>4. F = [i \in 1..(2 * BucketSize) |->
                IF Writers(i) = {} THEN buffer[i]
                ELSE M[Max(Writers(i))].name]
    BY DEF Filled
  <1>5. ASSUME NEW j \in 1..Len(b), NEW k \in 1..Len(b),
               NEW i \in Part(j), i \in Part(k)
        PROVE  j = k
    <2>1. /\ M[j].offset \in Nat /\ M[k].offset \in Nat
          /\ size[b[j]] \in Nat /\ size[b[k]] \in Nat
          /\ i \in (M[j].offset + 1)..(M[j].offset + size[b[j]])
          /\ i \in (M[k].offset + 1)..(M[k].offset + size[b[k]])
      BY <1>2, <1>5
    <2>2. /\ j < k => M[j].offset + size[b[j]] <= M[k].offset
          /\ k < j => M[k].offset + size[b[k]] <= M[j].offset
      BY <1>2
    <2> DEFINE oj == M[j].offset
               ok == M[k].offset
               sj == size[b[j]]
               sk == size[b[k]]
    <2> HIDE DEF oj, ok, sj, sk
    <2>3. ~(oj + sj <= ok) /\ ~(ok + sk <= oj)
      <3>1. /\ oj \in Nat /\ ok \in Nat /\ sj \in Nat /\ sk \in Nat
            /\ i \in (oj + 1)..(oj + sj) /\ i \in (ok + 1)..(ok + sk)
        BY <2>1 DEF oj, ok, sj, sk
      <3> QED
        BY <3>1
    <2>4. ~(j < k) /\ ~(k < j)
      BY <2>2, <2>3 DEF oj, ok, sj, sk
    <2> QED
      BY <2>4
  <1>6. ASSUME NEW k \in 1..Len(b), NEW i \in Part(k)
        PROVE  Max(Writers(i)) = k /\ Writers(i) # {}
    <2>1. Writers(i) = {k}
      BY <1>2, <1>5, <1>6
    <2>2. Max({k}) = k
      BY DEF Max
    <2> QED
      BY <2>1, <2>2
  <1>7. ASSUME NEW k \in 1..Len(b), NEW i \in Part(k)
        PROVE  i \in 1..(2 * BucketSize) /\ F[i] = M[k].name
    <2>1. /\ M[k].offset \in Nat /\ size[b[k]] \in Nat
          /\ i \in (M[k].offset + 1)..(M[k].offset + size[b[k]])
          /\ M[k].offset + size[b[k]] <= start + SizeOf(b)
          /\ SizeOf(b) \in Nat
      BY <1>2, <1>7
    <2>2. i \in 1..(2 * BucketSize)
      BY <1>1, <2>1, SMTT(40)
    <2> QED
      BY <1>4, <1>6, <2>2
  <1>8. ASSUME NEW i \in 1..(2 * BucketSize)
        PROVE  F[i] \in Weights \union {0}
    <2>1. CASE Writers(i) = {}
      BY <1>4, <2>1
    <2>2. CASE Writers(i) # {}
      <3>1. PICK k \in 1..Len(b) : i \in Part(k)
        BY <1>2, <2>2
      <3>2. F[i] = M[k].name
        BY <1>7, <3>1
      <3> QED
        BY <1>2, <3>2
    <2> QED
      BY <2>1, <2>2
  <1>9. F \in [1..(2 * BucketSize) -> Weights \union {0}]
    <2>1. F = [i \in 1..(2 * BucketSize) |-> F[i]]
      BY <1>4
    <2> HIDE DEF F
    <2> QED
      BY <2>1, <1>8
  <1>10. Shows(F, M)
    BY <1>2, <1>7 DEF Shows
  <1> QED
    BY <1>9, <1>10 DEF M

\* A buffer that has the cells of a bucket as another shows the bucket too.
LEMMA ShowsCopied ==
    ASSUME size \in [Weights -> Cells], NEW b \in Seq(Weights),
           SizeOf(b) <= BucketSize, NEW start \in {0, BucketSize},
           NEW x, NEW y, Shows(x, Metas(b, start)),
           \A i \in (start + 1)..(start + SizeOf(b)) : y[i] = x[i]
    PROVE  Shows(y, Metas(b, start))
  <1> DEFINE M == Metas(b, start)
  <1>1. start \in Nat
    BY Sizes
  <1>2. /\ SizeOf(b) \in Nat /\ Len(M) = Len(b)
        /\ \A k \in 1..Len(b) :
                /\ size[b[k]] \in Nat
                /\ M[k].name = b[k]
                /\ M[k].offset \in Nat
                /\ start <= M[k].offset
                /\ M[k].offset + size[b[k]] <= start + SizeOf(b)
    <2>1. /\ SizeOf(b) \in Nat
          /\ Len(Metas(b, start)) = Len(b)
          /\ \A k \in 1..Len(b) :
                /\ b[k] \in Weights /\ size[b[k]] \in Nat \ {0}
                /\ Metas(b, start)[k].name = b[k]
                /\ Metas(b, start)[k].offset \in Nat
                /\ start <= Metas(b, start)[k].offset
                /\ Metas(b, start)[k].offset + size[b[k]] <= start + SizeOf(b)
      BY <1>1, MetasSound, SMTT(30)
    <2> HIDE DEF M
    <2>2. M = Metas(b, start)
      BY DEF M
    <2> QED
      BY <2>1, <2>2
  <1> HIDE DEF M
  <1> SUFFICES ASSUME NEW k \in 1..Len(M),
                      NEW i \in (M[k].offset + 1)
                                    ..(M[k].offset + size[M[k].name])
               PROVE  y[i] = M[k].name
    BY DEF Shows, M
  <1>3. x[i] = M[k].name
    BY DEF Shows, M
  <1>4. /\ M[k].offset \in Nat /\ size[b[k]] \in Nat
        /\ start <= M[k].offset /\ SizeOf(b) \in Nat
        /\ M[k].offset + size[b[k]] <= start + SizeOf(b)
        /\ i \in (M[k].offset + 1)..(M[k].offset + size[b[k]])
    BY <1>2
  <1>5. i \in (start + 1)..(start + SizeOf(b))
    BY <1>1, <1>4
  <1> QED
    BY <1>3, <1>5

-----------------------------------------------------------------------------
(* The schedule.                                                           *)

LEMMA SizeOfAppend ==
    ASSUME size \in [Weights -> Cells], NEW b \in Seq(Weights),
           NEW w \in Weights
    PROVE  /\ SizeOf(Append(b, w)) = SizeOf(b) + size[w]
           /\ SizeOf(b) \in Nat
           /\ SizeOf(<<w>>) = size[w] /\ SizeOf(<<>>) = 0
  <1>1. ASSUME NEW c \in Seq(Weights)
        PROVE  /\ SizeOf(Append(c, w)) = SizeOf(c) + size[w]
               /\ SizeOf(c) \in Nat
    <2> DEFINE d == Append(c, w)
    <2>1. /\ d \in Seq(Weights) /\ Len(d) = Len(c) + 1 /\ Len(c) \in Nat
          /\ \A i \in 1..Len(c) : d[i] = c[i]
          /\ d[Len(c) + 1] = w
      BY AppendProperties, LenProperties
    <2>2. SubSeq(c, 1, Len(c)) = c /\ SubSeq(d, 1, Len(d)) = d
      BY <2>1, SubSeqFull
    <2>3. SubSeq(d, 1, Len(c)) = c
      <3> DEFINE e == SubSeq(d, 1, Len(c))
      <3>1. \A i \in 1..Len(c) : d[i] \in Weights
        BY <2>1, ElementOfSeq
      <3>2. /\ e \in Seq(Weights)
            /\ Len(e) = IF 1 <= Len(c) THEN Len(c) - 1 + 1 ELSE 0
            /\ \A i \in 1..(Len(c) - 1 + 1) : e[i] = d[1 + i - 1]
        BY <2>1, <3>1, SubSeqProperties
      <3>3. Len(e) = Len(c) /\ \A i \in 1..Len(e) : e[i] = c[i]
        BY <2>1, <3>2
      <3> QED
        BY <3>2, <3>3, SeqEqual
    <2> HIDE DEF d
    <2>4. Len(d) \in 1..Len(d) /\ Len(d) - 1 = Len(c) /\ Len(c) \in 0..Len(c)
      BY <2>1
    <2>5. SizeOf(SubSeq(d, 1, Len(d)))
            = SizeOf(SubSeq(d, 1, Len(d) - 1)) + size[d[Len(d)]]
      BY <2>1, <2>4, SizeOfPrefixes
    <2>6. SizeOf(SubSeq(c, 1, Len(c))) \in Nat
      BY <2>4, SizeOfPrefixes
    <2>7. d[Len(d)] = w
      BY <2>1
    <2> QED
      BY <2>2, <2>3, <2>4, <2>5, <2>6, <2>7 DEF d
  <1>2. SizeOf(<<>>) = 0
    <2>1. SubSeq(b, 1, 0) = <<>>
      BY SubSeqEmpty
    <2> QED
      BY <2>1, SizeOfPrefixes
  <1>3. SizeOf(<<w>>) = size[w]
    <2>1. <<>> \in Seq(Weights) /\ Append(<<>>, w) = <<w>>
      BY EmptySeq
    <2>2. SizeOf(Append(<<>>, w)) = SizeOf(<<>>) + size[w]
      BY <1>1, <2>1
    <2>3. size[w] \in Nat
      BY Sizes
    <2> QED
      BY <1>2, <2>1, <2>2, <2>3
  <1> QED
    BY <1>1, <1>2, <1>3

\* The buckets of a rank, at least one, and those of every rank.
Shelves == {s \in Seq(Seq(Weights)) : s # <<>>}
AllFit(s) == \A i \in 1..Len(s) : SizeOf(s[i]) <= BucketSize
Racks == {R \in [ActorRanks -> Shelves] : \A a \in ActorRanks : AllFit(R[a])}

\* What a rank has with one weight more, which is behind all others of its
\* bucket.
Put(s, w) == IF FitsInto(Last(s), w)
             THEN Front(s) \o <<Append(Last(s), w)>>
             ELSE Append(s, <<w>>)

OneMore(s, t, w) ==
    \E i0, k0 \in Nat :
        \A i \in 1..Len(t) : \A k \in 1..Len(t[i]) :
            \/ /\ i \in 1..Len(s) /\ k \in 1..Len(s[i])
               /\ t[i][k] = s[i][k]
            \/ i = i0 /\ k = k0 /\ t[i][k] = w

LEMMA PutOne ==
    ASSUME size \in [Weights -> Cells], NEW s \in Shelves, NEW w \in Weights,
           AllFit(s)
    PROVE  Put(s, w) \in Shelves /\ AllFit(Put(s, w)) /\ OneMore(s, Put(s, w), w)
  <1> DEFINE t == Put(s, w)
  <1>1. /\ s \in Seq(Seq(Weights)) /\ Len(s) \in Nat \ {0}
        /\ \A i \in 1..Len(s) : s[i] \in Seq(Weights)
    BY EmptySeq, ElementOfSeq DEF Shelves
  <1>2. /\ Last(s) = s[Len(s)] /\ Last(s) \in Seq(Weights)
        /\ Len(s) \in 1..Len(s)
    BY <1>1 DEF Last
  <1> DEFINE N == Len(s)
  <1>3. CASE FitsInto(Last(s), w)
    <2> DEFINE l == Append(Last(s), w)
               m == Len(s[N])
    <2>1. /\ l \in Seq(Weights) /\ Len(l) = m + 1
          /\ \A k \in 1..m : l[k] = s[N][k]
          /\ l[m + 1] = w
          /\ m \in Nat
      BY <1>2, AppendProperties, LenProperties
    <2>2. SizeOf(l) <= BucketSize
      BY <1>2, <1>3, SizeOfAppend DEF FitsInto
    <2>3. t = Front(s) \o <<l>>
      BY <1>3 DEF Put
    <2> HIDE DEF t
    <2> DEFINE T == Seq(Weights)
    <2>4. s \in Seq(T) /\ s # <<>> /\ l \in T
      BY <1>1, <2>1 DEF Shelves
    <2> HIDE DEF l, T, N, m
    <2>5. /\ t \in Seq(T) /\ t # <<>> /\ Len(t) = Len(s)
          /\ \A i \in 1..Len(s) : t[i] = IF i = Len(s) THEN l ELSE s[i]
      <3>1. /\ Front(s) \o <<l>> \in Seq(T) /\ Front(s) \o <<l>> # <<>>
            /\ Len(Front(s) \o <<l>>) = Len(s)
            /\ \A i \in 1..Len(s) :
                    (Front(s) \o <<l>>)[i] = IF i = Len(s) THEN l ELSE s[i]
        BY <2>4, ReplaceLast
      <3> QED
        BY <2>3, <3>1, Zenon
    <2>6. t \in Shelves
      BY <2>5 DEF Shelves, T
    <2>7. ASSUME NEW i \in 1..Len(t)
          PROVE  SizeOf(t[i]) <= BucketSize
      BY <2>2, <2>5 DEF AllFit
    <2>8. ASSUME NEW i \in 1..Len(t), NEW k \in 1..Len(t[i])
          PROVE  \/ /\ i \in 1..Len(s) /\ k \in 1..Len(s[i])
                    /\ t[i][k] = s[i][k]
                 \/ i = N /\ k = m + 1 /\ t[i][k] = w
      <3>1. CASE i = Len(s)
        <4>1. t[i] = l /\ i \in 1..Len(s) /\ k \in 1..(m + 1) /\ i = N
              /\ m = Len(s[i])
          BY <3>1, <2>1, <2>5 DEF N, m
        <4>2. k \in 1..m \/ k = m + 1
          BY <4>1, <2>1
        <4>3. k \in 1..m => l[k] = s[i][k]
          BY <4>1, <2>1
        <4>4. k = m + 1 => l[k] = w
          BY <2>1
        <4> QED
          BY <4>1, <4>2, <4>3, <4>4, Zenon
      <3>2. CASE i # Len(s)
        <4>1. i \in 1..Len(s) /\ t[i] = s[i]
          BY <3>2, <2>5
        <4> QED
          BY <4>1, Zenon
      <3> QED
        BY <3>1, <3>2
    <2>9. N \in Nat /\ m + 1 \in Nat
      BY <1>1, <2>1 DEF N
    <2>10. OneMore(s, t, w)
      BY <2>8, <2>9 DEF OneMore
    <2>11. AllFit(t)
      BY <2>7 DEF AllFit
    <2> QED
      BY <2>6, <2>10, <2>11 DEF t
  <1>4. CASE ~FitsInto(Last(s), w)
    <2> DEFINE e == <<w>>
               T == Seq(Weights)
    <2>1. e \in T /\ Len(e) = 1 /\ e[1] = w
      BY Singleton
    <2>2. SizeOf(e) <= BucketSize
      <3>1. SizeOf(e) = size[w]
        <4>1. <<>> \in Seq(Weights)
          BY EmptySeq
        <4> QED
          BY <4>1, SizeOfAppend
      <3>2. size[w] <= BucketSize
        BY DEF Cells
      <3> QED
        BY <3>1, <3>2
    <2>3. t = Append(s, e) /\ s \in Seq(T)
      BY <1>1, <1>4 DEF Put
    <2> HIDE DEF t
    <2> HIDE DEF e, T
    <2>4. /\ t \in Seq(T) /\ t # <<>> /\ Len(t) = Len(s) + 1
          /\ \A i \in 1..Len(s) : t[i] = s[i]
          /\ t[Len(s) + 1] = e
      <3>1. /\ Append(s, e) \in Seq(T) /\ Append(s, e) # <<>>
            /\ Len(Append(s, e)) = Len(s) + 1
            /\ \A i \in 1..Len(s) : Append(s, e)[i] = s[i]
            /\ Append(s, e)[Len(s) + 1] = e
        BY <2>1, <2>3, AppendProperties
      <3> QED
        BY <2>3, <3>1, Zenon
    <2>5. t \in Shelves
      BY <2>4 DEF Shelves, T
    <2>6. ASSUME NEW i \in 1..Len(t)
          PROVE  i \in 1..Len(s) \/ i = N + 1
      BY <1>1, <2>4
    <2>7. ASSUME NEW i \in 1..Len(t)
          PROVE  SizeOf(t[i]) <= BucketSize
      BY <2>2, <2>4, <2>6 DEF AllFit
    <2>8. ASSUME NEW i \in 1..Len(t), NEW k \in 1..Len(t[i])
          PROVE  \/ /\ i \in 1..Len(s) /\ k \in 1..Len(s[i])
                    /\ t[i][k] = s[i][k]
                 \/ i = N + 1 /\ k = 1 /\ t[i][k] = w
      <3>1. CASE i = N + 1
        <4>1. t[i] = e
          BY <3>1, <2>4
        <4>2. k = 1
          <5>1. Len(t[i]) = 1
            BY <4>1, <2>1, Zenon
          <5> QED
            BY <5>1
        <4> QED
          BY <3>1, <4>1, <4>2, <2>1
      <3>2. CASE i \in 1..Len(s)
        BY <3>2, <2>4
      <3> QED
        BY <3>1, <3>2, <2>6
    <2>9. N + 1 \in Nat /\ 1 \in Nat
      BY <1>1
    <2> HIDE DEF N
    <2>10. OneMore(s, t, w)
      BY <2>8, <2>9 DEF OneMore
    <2>11. AllFit(t)
      BY <2>7 DEF AllFit
    <2> QED
      BY <2>5, <2>10, <2>11 DEF t
  <1> QED
    BY <1>3, <1>4

LEMMA AssignRankType == \A w \in Weights : AssignRank(w) \in ActorRanks
  <1> SUFFICES ASSUME NEW w \in Weights PROVE AssignRank(w) \in ActorRanks
    OBVIOUS
  <1>1. w - 1 \in Nat /\ NumActors \in Nat \ {0}
    BY Sizes, ActorsAssumption
  <1>2. (w - 1) % NumActors \in 0..(NumActors - 1)
    BY <1>1
  <1> QED
    BY <1>1, <1>2 DEF AssignRank, ActorRanks

LEMMA PutWeightType ==
    ASSUME size \in [Weights -> Cells], NEW R \in Racks, NEW w \in Weights
    PROVE  /\ PutWeight(R, w) \in Racks
           /\ \A a \in ActorRanks :
                PutWeight(R, w)[a] = IF a = AssignRank(w) THEN Put(R[a], w)
                                     ELSE R[a]
  <1> DEFINE P == PutWeight(R, w)
  <1>1. P = [R EXCEPT ![AssignRank(w)] = Put(R[AssignRank(w)], w)]
    BY DEF PutWeight, Put
  <1>2. R \in [ActorRanks -> Shelves] /\ \A a \in ActorRanks : AllFit(R[a])
    BY DEF Racks
  <1>3. \A a \in ActorRanks :
            Put(R[a], w) \in Shelves /\ AllFit(Put(R[a], w))
    BY <1>2, PutOne
  <1> HIDE DEF P
  <1>4. \A a \in ActorRanks :
            P[a] = IF a = AssignRank(w) THEN Put(R[a], w) ELSE R[a]
    BY <1>1, <1>2
  <1>5. P \in [ActorRanks -> Shelves]
    BY <1>1, <1>2, <1>3
  <1>6. \A a \in ActorRanks : AllFit(P[a])
    BY <1>2, <1>3, <1>4
  <1>7. P \in Racks
    BY <1>5, <1>6 DEF Racks
  <1> QED
    BY <1>4, <1>7 DEF P

\* No weight is in the buckets twice, and none behind the n-th.
Apart(R, n) ==
    /\ \A a \in ActorRanks : \A i \in 1..Len(R[a]) :
        \A k \in 1..Len(R[a][i]) : R[a][i][k] \in 1..n
    /\ \A a, b \in ActorRanks :
        \A i \in 1..Len(R[a]), j \in 1..Len(R[b]) :
            \A k \in 1..Len(R[a][i]), l \in 1..Len(R[b][j]) :
                R[a][i][k] = R[b][j][l] => a = b /\ i = j /\ k = l

LEMMA PutApart ==
    ASSUME size \in [Weights -> Cells], NEW R \in Racks,
           NEW n \in Nat, n + 1 \in Weights, Apart(R, n)
    PROVE  Apart(PutWeight(R, n + 1), n + 1)
  <1> DEFINE w == n + 1
             P == PutWeight(R, w)
             c == AssignRank(w)
  <1>1. c \in ActorRanks /\ w \in Weights
    BY AssignRankType
  <1>2. \A a \in ActorRanks : P[a] = IF a = c THEN Put(R[a], w) ELSE R[a]
    BY <1>1, PutWeightType
  <1>3. OneMore(R[c], Put(R[c], w), w)
    <2>1. R[c] \in Shelves /\ AllFit(R[c])
      BY <1>1 DEF Racks
    <2> HIDE DEF c, w
    <2> QED
      BY <1>1, <2>1, PutOne
  <1> HIDE DEF P, c
  <1>4. PICK i0, k0 \in Nat :
            \A i \in 1..Len(P[c]) : \A k \in 1..Len(P[c][i]) :
                \/ /\ i \in 1..Len(R[c]) /\ k \in 1..Len(R[c][i])
                   /\ P[c][i][k] = R[c][i][k]
                \/ i = i0 /\ k = k0 /\ P[c][i][k] = w
    <2>1. P[c] = Put(R[c], w)
      BY <1>1, <1>2
    <2>2. OneMore(R[c], P[c], w)
      BY <1>3, <2>1
    <2> QED
      BY <2>2, Zenon DEF OneMore
  <1> DEFINE Old(a, i, k) == /\ i \in 1..Len(R[a]) /\ k \in 1..Len(R[a][i])
                             /\ P[a][i][k] = R[a][i][k]
             New(a, i, k) == a = c /\ i = i0 /\ k = k0 /\ P[a][i][k] = w
  <1>5. ASSUME NEW a \in ActorRanks, NEW i \in 1..Len(P[a]),
               NEW k \in 1..Len(P[a][i])
        PROVE  Old(a, i, k) \/ New(a, i, k)
    <2>1. CASE a = c
      BY <2>1, <1>4
    <2>2. CASE a # c
      <3>1. P[a] = R[a]
        BY <1>2, <2>2
      <3> QED
        BY <3>1, Zenon
    <2> QED
      BY <2>1, <2>2
  <1>6. \A a \in ActorRanks : \A i, k : Old(a, i, k) => P[a][i][k] \in 1..n
    BY DEF Apart
  <1>7. \A x \in 1..n : x # w /\ x \in 1..w
    OBVIOUS
  <1>8. ASSUME NEW a \in ActorRanks, NEW b \in ActorRanks,
               NEW i, NEW j, NEW k, NEW l,
               Old(a, i, k), Old(b, j, l), P[a][i][k] = P[b][j][l]
        PROVE  a = b /\ i = j /\ k = l
    <2>1. R[a][i][k] = R[b][j][l]
      BY <1>8
    <2>2. /\ i \in 1..Len(R[a]) /\ k \in 1..Len(R[a][i])
          /\ j \in 1..Len(R[b]) /\ l \in 1..Len(R[b][j])
      BY <1>8
    <2> HIDE DEF w, Old, New
    <2>3. \A i1 \in 1..Len(R[a]), j1 \in 1..Len(R[b]) :
            \A k1 \in 1..Len(R[a][i1]), l1 \in 1..Len(R[b][j1]) :
                R[a][i1][k1] = R[b][j1][l1] => a = b /\ i1 = j1 /\ k1 = l1
      BY Zenon DEF Apart
    <2>4. \A k1 \in 1..Len(R[a][i]), l1 \in 1..Len(R[b][j]) :
                R[a][i][k1] = R[b][j][l1] => a = b /\ i = j /\ k1 = l1
      BY <2>2, <2>3, Zenon
    <2> QED
      BY <2>1, <2>2, <2>4, Zenon
  <1>9. w \in 1..w
    OBVIOUS
  <1> HIDE DEF w, Old
  <1>10. ASSUME NEW a \in ActorRanks, NEW i \in 1..Len(P[a]),
                NEW k \in 1..Len(P[a][i])
         PROVE  P[a][i][k] \in 1..w
    BY <1>5, <1>6, <1>7, <1>9
  <1>11. ASSUME NEW a \in ActorRanks, NEW b \in ActorRanks,
                NEW i \in 1..Len(P[a]), NEW j \in 1..Len(P[b]),
                NEW k \in 1..Len(P[a][i]), NEW l \in 1..Len(P[b][j]),
                P[a][i][k] = P[b][j][l]
         PROVE  a = b /\ i = j /\ k = l
    <2>1. Old(a, i, k) \/ New(a, i, k)
      BY <1>5
    <2>2. Old(b, j, l) \/ New(b, j, l)
      BY <1>5
    <2>3. CASE Old(a, i, k) /\ Old(b, j, l)
      BY <2>3, <1>8, <1>11
    <2>4. CASE New(a, i, k) /\ New(b, j, l)
      BY <2>4
    <2>5. CASE Old(a, i, k) /\ New(b, j, l)
      BY <2>5, <1>6, <1>7, <1>11
    <2>6. CASE New(a, i, k) /\ Old(b, j, l)
      BY <2>6, <1>6, <1>7, <1>11
    <2> QED
      BY <2>1, <2>2, <2>3, <2>4, <2>5, <2>6
  <1>12. Apart(P, w)
    BY <1>10, <1>11 DEF Apart
  <1> QED
    BY <1>12 DEF P, w

LEMMA RegisteredSound ==
    ASSUME size \in [Weights -> Cells]
    PROVE  GlobalBuckets \in Racks /\ Apart(GlobalBuckets, NumWeights)
  <1> DEFINE N == NumWeights
             base == [a \in ActorRanks |-> <<(<<>>)>>]
             F == [p \in Racks \X (1..N) |-> PutWeight(p[1], p[2])]
  <1>1. N \in Nat \ {0} /\ \A n \in 1..N : n \in Weights
    BY Sizes DEF Weights
  <1>2. base \in Racks /\ Apart(base, 0)
    <2> DEFINE T == Seq(Weights)
               e == <<>>
    <2>1. e \in T /\ Len(e) = 0
      BY EmptySeq
    <2>2. SizeOf(e) = 0 /\ 0 <= BucketSize
      <3>1. 1 \in Weights
        BY <1>1
      <3>2. <<>> \in Seq(Weights)
        BY EmptySeq
      <3> QED
        <4>1. SizeOf(<<>>) = 0
          BY <3>1, <3>2, SizeOfAppend
        <4> QED
          BY <4>1, Sizes
    <2> HIDE DEF e, T
    <2>3. <<e>> \in Seq(T) /\ Len(<<e>>) = 1 /\ <<e>>[1] = e
      BY <2>1, Singleton
    <2>4. <<e>> # <<>>
      OBVIOUS
    <2>5. <<e>> \in Shelves
      BY <2>3, <2>4 DEF Shelves, T
    <2>6. AllFit(<<e>>)
      BY <2>2, <2>3 DEF AllFit
    <2>7. \A a \in ActorRanks : base[a] = <<e>>
      BY DEF e
    <2>8. base \in [ActorRanks -> Shelves]
      BY <2>5 DEF e
    <2> HIDE DEF base
    <2>9. \A a \in ActorRanks : \A i \in 1..Len(base[a]) :
            Len(base[a][i]) = 0
      BY <2>1, <2>3, <2>7
    <2>10. \A a \in ActorRanks : \A i \in 1..Len(base[a]) :
            \A k \in 1..Len(base[a][i]) : FALSE
      BY <2>9
    <2>11. Apart(base, 0)
      BY <2>10, Zenon DEF Apart
    <2> QED
      BY <2>6, <2>7, <2>8, <2>11 DEF Racks
  <1>3. F \in [Racks \X (1..N) -> Racks]
    BY <1>1, PutWeightType
  <1>4. \A R \in Racks, n \in 1..N : F[<<R, n>>] = PutWeight(R, n)
    OBVIOUS
  <1> HIDE DEF F, base
  <1>5. Steps(Racks, N, base, F)
    BY <1>1, <1>2, <1>3 DEF Steps
  <1>6. \E f : Runs(f, Racks, N, base, F)
    BY <1>5, RecursionExists, Zenon
  <1>7. PICK f \in [0..N -> Racks] :
            f[0] = base /\ \A n \in 1..N : f[n] = F[<<f[n - 1], n>>]
    BY <1>6 DEF Runs
  <1>8. f = [n \in 0..N |-> IF n = 0 THEN base ELSE PutWeight(f[n - 1], n)]
    <2>1. ASSUME NEW n \in 0..N
          PROVE  f[n] = IF n = 0 THEN base ELSE PutWeight(f[n - 1], n)
      <3>1. n # 0 => n \in 1..N /\ n - 1 \in 0..N
        BY <1>1
      <3> QED
        BY <3>1, <1>4, <1>7
    <2> QED
      BY <2>1
  <1> DEFINE G == Registered
  <1>9. G = [n \in 0..N |-> IF n = 0 THEN base ELSE PutWeight(G[n - 1], n)]
    <2>1. \E g : g = [n \in 0..N |-> IF n = 0 THEN base
                                    ELSE PutWeight(g[n - 1], n)]
      BY <1>8, Zenon
    <2> QED
      BY <2>1, Zenon DEF Registered, base
  <1> HIDE DEF G
  <1> DEFINE Good == {n \in Nat : n <= N => G[n] \in Racks /\ Apart(G[n], n)}
  <1>10. 0 \in Good
    <2>1. 0 \in 0..N
      BY <1>1
    <2>2. G[0] = base
      BY <2>1, <1>9
    <2> QED
      BY <2>2, <1>2
  <1>11. ASSUME NEW n \in Good PROVE n + 1 \in Good
    <2>1. CASE n + 1 <= N
      <3>1. /\ n \in Nat /\ n <= N /\ n + 1 \in 0..N /\ n + 1 \in 1..N
            /\ n + 1 # 0 /\ (n + 1) - 1 = n
        BY <2>1, <1>1
      <3>2. G[n] \in Racks /\ Apart(G[n], n) /\ n + 1 \in Weights
        BY <3>1, <1>1
      <3>3. G[n + 1] = PutWeight(G[n], n + 1)
        BY <3>1, <1>9
      <3>4. PutWeight(G[n], n + 1) \in Racks
        BY <3>2, PutWeightType
      <3>5. Apart(PutWeight(G[n], n + 1), n + 1)
        BY <3>1, <3>2, PutApart
      <3> QED
        BY <3>1, <3>3, <3>4, <3>5
    <2>2. CASE ~(n + 1 <= N)
      BY <2>2
    <2> QED
      BY <2>1, <2>2
  <1>12. Good = Nat
    <2> HIDE DEF Good
    <2>1. Good \in SUBSET Nat
      BY DEF Good
    <2> QED
      BY <1>10, <1>11, <2>1, Induction
  <1>13. G[N] \in Racks /\ Apart(G[N], N)
    BY <1>1, <1>12
  <1> QED
    BY <1>13 DEF GlobalBuckets, G, N

\* One turn of a process in a round, and the round.
Turn(R, i, a) == IF i <= Len(R[a]) THEN <<[owner |-> a, bucket |-> R[a][i]]>>
                 ELSE <<>>
TurnsOf(R, i) == [k \in 1..NumActors |-> Turn(R, i, k - NumActors)]
RoundsOf(R) == [i \in 1..Rounds(R) |-> FlattenSeq(TurnsOf(R, i))]

LEMMA OrderOfRounds == \A R : BroadcastOrder(R) = FlattenSeq(RoundsOf(R))
  BY DEF BroadcastOrder, RoundsOf, TurnsOf, Turn

\* There are as many rounds as the rank with the most buckets has.
LEMMA RoundsNat ==
    ASSUME NEW R \in Racks
    PROVE  Rounds(R) \in Nat
  <1> DEFINE L == {Len(R[a]) : a \in ActorRanks}
             U == {n \in Nat : \A a \in ActorRanks : Len(R[a]) <= n}
  <1>1. \A a \in ActorRanks : Len(R[a]) \in Nat
    BY LenProperties DEF Racks, Shelves
  <1>2. PICK u \in U : \A v \in U : u <= v
    <2> DEFINE f == [k \in 1..NumActors |-> Len(R[k - NumActors])]
    <2>a. /\ NumActors \in Nat
          /\ \A k \in 1..NumActors : k - NumActors \in ActorRanks
          /\ \A a \in ActorRanks : /\ a + NumActors \in 1..NumActors
                                   /\ (a + NumActors) - NumActors = a
      BY ActorsAssumption DEF ActorRanks
    <2>b. \A k \in 1..NumActors : f[k] \in Nat
      BY <1>1, <2>a
    <2>c. \A a \in ActorRanks : f[a + NumActors] = Len(R[a])
      BY <2>a
    <2> HIDE DEF f
    <2>d. PICK m \in Nat : \A k \in 1..NumActors : f[k] <= m
      BY <2>a, <2>b, Bounded
    <2>1. m \in U /\ U \in SUBSET Nat
      BY <2>a, <2>c, <2>d
    <2> HIDE DEF U
    <2> QED
      BY <2>1, LeastNat
  <1>3. 0 \in ActorRanks
    BY ActorsAssumption DEF ActorRanks
  <1>4. u \in L
    <2> SUFFICES ASSUME u \notin L PROVE FALSE
      OBVIOUS
    <2>1. \A a \in ActorRanks : Len(R[a]) <= u /\ Len(R[a]) # u
      BY <1>2
    <2>2. \A a \in ActorRanks : Len(R[a]) <= u - 1
      BY <1>1, <1>2, <2>1
    <2>3. u - 1 \in Nat
      BY <1>1, <1>2, <1>3, <2>1, <2>2
    <2>4. u - 1 \in U
      BY <2>2, <2>3
    <2>5. u \in Nat
      BY <1>2
    <2> HIDE DEF U
    <2>6. u <= u - 1
      BY <1>2, <2>4
    <2> QED
      BY <2>5, <2>6
  <1>5. \E n \in L : \A a \in ActorRanks : Len(R[a]) <= n
    BY <1>2, <1>4
  <1>6. Rounds(R) \in L
    BY <1>5, Zenon DEF Rounds
  <1> QED
    BY <1>1, <1>6

\* Where the broadcasts of a round come from.
LEMMA RoundPlaces ==
    ASSUME NEW R \in Racks, NEW i \in Nat \ {0}
    PROVE  /\ TurnsOf(R, i) \in Seq(Seq(Turns))
           /\ FlattenSeq(TurnsOf(R, i)) \in Seq(Turns)
           /\ \A k \in 1..Len(FlattenSeq(TurnsOf(R, i))) :
                \E m \in 1..NumActors :
                    /\ k = Ends(TurnsOf(R, i), m - 1) + 1
                    /\ m - NumActors \in ActorRanks
                    /\ i \in 1..Len(R[m - NumActors])
                    /\ FlattenSeq(TurnsOf(R, i))[k]
                        = [owner |-> m - NumActors,
                           bucket |-> R[m - NumActors][i]]
  <1> DEFINE T == TurnsOf(R, i)
  <1>1. /\ \A a \in ActorRanks : R[a] \in Seq(Seq(Weights))
        /\ \A a \in ActorRanks : Len(R[a]) \in Nat
    BY LenProperties DEF Racks, Shelves
  <1>2. NumActors \in Nat /\ \A m \in 1..NumActors : m - NumActors \in ActorRanks
    BY ActorsAssumption DEF ActorRanks
  <1>3. ASSUME NEW a \in ActorRanks
        PROVE  /\ Turn(R, i, a) \in Seq(Turns)
               /\ \A k \in 1..Len(Turn(R, i, a)) :
                    /\ k = 1 /\ i \in 1..Len(R[a])
                    /\ Turn(R, i, a)[k] = [owner |-> a, bucket |-> R[a][i]]
    <2>1. CASE i <= Len(R[a])
      <3> DEFINE e == [owner |-> a, bucket |-> R[a][i]]
      <3>1. i \in 1..Len(R[a])
        BY <1>1, <2>1
      <3>2. R[a][i] \in Seq(Weights)
        BY <1>1, <3>1, ElementOfSeq
      <3>3. e \in Turns
        BY <3>2 DEF Turns
      <3>4. Turn(R, i, a) = <<e>>
        BY <2>1 DEF Turn
      <3> HIDE DEF e
      <3>5. <<e>> \in Seq(Turns) /\ Len(<<e>>) = 1 /\ <<e>>[1] = e
        BY <3>3, Singleton
      <3>6. \A k \in 1..Len(<<e>>) : k = 1
        BY <3>5
      <3> QED
        BY <3>1, <3>4, <3>5, <3>6 DEF e
    <2>2. CASE ~(i <= Len(R[a]))
      <3>1. Turn(R, i, a) = <<>>
        BY <2>2 DEF Turn
      <3>2. <<>> \in Seq(Turns) /\ Len(<<>>) = 0 /\ 1..0 = {}
        BY EmptySeq
      <3> QED
        BY <3>1, <3>2
    <2> QED
      BY <2>1, <2>2
  <1>4. /\ T \in Seq(Seq(Turns)) /\ Len(T) = NumActors
        /\ \A m \in 1..NumActors : T[m] = Turn(R, i, m - NumActors)
    <2> DEFINE S == Seq(Turns)
    <2>1. \A m \in 1..NumActors : Turn(R, i, m - NumActors) \in S
      BY <1>2, <1>3
    <2>2. T = [m \in 1..NumActors |-> Turn(R, i, m - NumActors)]
      BY DEF TurnsOf
    <2> HIDE DEF S, T
    <2>3. T \in [1..NumActors -> S]
      BY <2>1, <2>2
    <2>4. T \in Seq(S)
      BY <2>3, <1>2, SeqDef
    <2>5. Len(T) = NumActors
      BY <2>2, <1>2
    <2> QED
      BY <2>2, <2>4, <2>5 DEF S
  <1> HIDE DEF T
  <1>5. FlattenSeq(T) \in Seq(Turns)
    BY <1>4, EndsAdd
  <1>6. ASSUME NEW k \in 1..Len(FlattenSeq(T))
        PROVE  \E m \in 1..NumActors :
                    /\ k = Ends(T, m - 1) + 1
                    /\ m - NumActors \in ActorRanks
                    /\ i \in 1..Len(R[m - NumActors])
                    /\ FlattenSeq(T)[k] = [owner |-> m - NumActors,
                                           bucket |-> R[m - NumActors][i]]
    <2>1. PICK m \in 1..Len(T) : \E l \in 1..Len(T[m]) : k = Ends(T, m - 1) + l
      BY <1>4, FlattenPlaces
    <2>2. PICK l \in 1..Len(T[m]) : k = Ends(T, m - 1) + l
      BY <2>1
    <2>3. FlattenSeq(T)[k] = T[m][l]
      <3>1. FlattenSeq(T)[Ends(T, m - 1) + l] = T[m][l]
        BY <1>4, FlattenPlaces, ZenonT(60)
      <3> QED
        BY <2>2, <3>1
    <2>4. /\ m \in 1..NumActors /\ m - NumActors \in ActorRanks
          /\ T[m] = Turn(R, i, m - NumActors)
      BY <1>2, <1>4
    <2>5. /\ l = 1 /\ i \in 1..Len(R[m - NumActors])
          /\ T[m][l] = [owner |-> m - NumActors, bucket |-> R[m - NumActors][i]]
      BY <1>3, <2>4
    <2> QED
      BY <2>2, <2>3, <2>4, <2>5
  <1> QED
    BY <1>4, <1>5, <1>6 DEF T

\* The schedule of any buckets that are apart is sound.
LEMMA OrderSound ==
    ASSUME NEW R \in Racks, NEW n \in Nat, Apart(R, n), Rounds(R) \in Nat,
           schedule = BroadcastOrder(R)
    PROVE  ScheduleSound
  <1> DEFINE RR == RoundsOf(R)
             N == Rounds(R)
             FF(i) == FlattenSeq(TurnsOf(R, i))
             sch == FlattenSeq(RR)
  <1>1. \A i \in 1..N : i \in Nat \ {0}
    OBVIOUS
  <1>2. /\ RR \in Seq(Seq(Turns)) /\ Len(RR) = N
        /\ \A i \in 1..N : RR[i] = FF(i)
    <2> DEFINE S == Seq(Turns)
    <2>1. \A i \in 1..N : FF(i) \in S
      BY <1>1, RoundPlaces
    <2>2. RR = [i \in 1..N |-> FF(i)]
      BY DEF RoundsOf
    <2> HIDE DEF S, RR, FF, N
    <2>3. N \in Nat
      BY DEF N
    <2>4. RR \in [1..N -> S]
      BY <2>1, <2>2
    <2>5. RR \in Seq(S)
      BY <2>3, <2>4, SeqDef
    <2>6. Len(RR) = N
      BY <2>2, <2>3
    <2> QED
      BY <2>2, <2>5, <2>6 DEF S
  <1>3. schedule = sch
    BY OrderOfRounds
  <1> DEFINE Place2(g, i, k, m) ==
                /\ g = Ends(RR, i - 1) + k
                /\ k = Ends(TurnsOf(R, i), m - 1) + 1
                /\ m - NumActors \in ActorRanks
                /\ i \in 1..Len(R[m - NumActors])
                /\ sch[g].bucket = R[m - NumActors][i]
  <1> HIDE DEF RR, N
  <1>4. sch \in Seq(Turns)
    BY <1>2, EndsAdd
  <1>5. ASSUME NEW g \in 1..Len(sch)
        PROVE  \E i \in 1..N : \E k : \E m \in 1..NumActors : Place2(g, i, k, m)
    <2>1. PICK i \in 1..Len(RR) : \E k \in 1..Len(RR[i]) :
                g = Ends(RR, i - 1) + k
      BY <1>2, FlattenPlaces
    <2>2. PICK k \in 1..Len(RR[i]) : g = Ends(RR, i - 1) + k
      BY <2>1
    <2>3. sch[g] = RR[i][k]
      BY <1>2, <2>2, FlattenPlaces
    <2>4. i \in 1..N /\ RR[i] = FF(i) /\ i \in Nat \ {0}
      BY <1>1, <1>2
    <2>5. k \in 1..Len(FF(i))
      BY <2>4
    <2>6. PICK m \in 1..NumActors :
                    /\ k = Ends(TurnsOf(R, i), m - 1) + 1
                    /\ m - NumActors \in ActorRanks
                    /\ i \in 1..Len(R[m - NumActors])
                    /\ FF(i)[k] = [owner |-> m - NumActors,
                                   bucket |-> R[m - NumActors][i]]
      BY <2>4, <2>5, RoundPlaces
    <2>7. sch[g].bucket = R[m - NumActors][i]
      BY <2>3, <2>4, <2>6
    <2>8. Place2(g, i, k, m)
      BY <2>2, <2>6, <2>7
    <2> QED
      BY <2>4, <2>8
  <1>6. ASSUME NEW g \in 1..Len(sch) PROVE SizeOf(sch[g].bucket) <= BucketSize
    <2>1. PICK i \in 1..N : \E k : \E m \in 1..NumActors : Place2(g, i, k, m)
      BY <1>5
    <2>2. PICK k, m : m \in 1..NumActors /\ Place2(g, i, k, m)
      BY <2>1
    <2>3. AllFit(R[m - NumActors])
      BY <2>2 DEF Racks
    <2> QED
      BY <2>2, <2>3 DEF AllFit
  <1>7. ASSUME NEW g \in 1..Len(sch), NEW h \in 1..Len(sch),
               NEW k \in 1..Len(sch[g].bucket), NEW l \in 1..Len(sch[h].bucket),
               sch[g].bucket[k] = sch[h].bucket[l]
        PROVE  g = h /\ k = l
    <2>1. PICK i \in 1..N : \E x : \E m \in 1..NumActors : Place2(g, i, x, m)
      BY <1>5
    <2>2. PICK x, m : m \in 1..NumActors /\ Place2(g, i, x, m)
      BY <2>1
    <2>3. PICK j \in 1..N : \E x1 : \E m1 \in 1..NumActors :
                Place2(h, j, x1, m1)
      BY <1>5
    <2>4. PICK y, p : p \in 1..NumActors /\ Place2(h, j, y, p)
      BY <2>3
    <2> DEFINE a == m - NumActors
               b == p - NumActors
    <2>5. /\ a \in ActorRanks /\ b \in ActorRanks
          /\ i \in 1..Len(R[a]) /\ j \in 1..Len(R[b])
          /\ sch[g].bucket = R[a][i] /\ sch[h].bucket = R[b][j]
      BY <2>2, <2>4
    <2>6. k \in 1..Len(R[a][i]) /\ l \in 1..Len(R[b][j])
          /\ R[a][i][k] = R[b][j][l]
      BY <2>5, <1>7
    <2> HIDE DEF a, b, sch
    <2>7. \A i1 \in 1..Len(R[a]), j1 \in 1..Len(R[b]) :
            \A k1 \in 1..Len(R[a][i1]), l1 \in 1..Len(R[b][j1]) :
                R[a][i1][k1] = R[b][j1][l1] => a = b /\ i1 = j1 /\ k1 = l1
      BY <2>5, Zenon DEF Apart
    <2>8. \A k1 \in 1..Len(R[a][i]), l1 \in 1..Len(R[b][j]) :
                R[a][i][k1] = R[b][j][l1] => a = b /\ i = j /\ k1 = l1
      BY <2>5, <2>7, Zenon
    <2>9. a = b /\ i = j /\ k = l
      BY <2>6, <2>8, Zenon
    <2>10. m = p
      <3>1. m - NumActors = p - NumActors
        BY <2>9 DEF a, b
      <3>2. m \in Int /\ p \in Int /\ NumActors \in Int
        BY <2>2, <2>4, ActorsAssumption
      <3> QED
        BY <3>1, <3>2
    <2>11. x = y
      BY <2>2, <2>4, <2>9, <2>10
    <2>12. g = h
      BY <2>2, <2>4, <2>9, <2>11
    <2> QED
      BY <2>9, <2>12
  <1> QED
    BY <1>3, <1>4, <1>6, <1>7 DEF ScheduleSound

LEMMA ScheduleInit ==
    ASSUME size \in [Weights -> Cells],
           schedule = BroadcastOrder(GlobalBuckets)
    PROVE  ScheduleSound
  <1> DEFINE R == GlobalBuckets
  <1>1. R \in Racks /\ Apart(R, NumWeights) /\ NumWeights \in Nat
    BY RegisteredSound, Sizes
  <1> HIDE DEF R
  <1>2. Rounds(R) \in Nat
    BY <1>1, RoundsNat
  <1> QED
    BY <1>1, <1>2, OrderSound DEF R

-----------------------------------------------------------------------------
(* The broadcasts: what stays, and what holds at the start.                *)

LEMMA Ranked ==
    /\ Workers \subseteq Members /\ ActorRanks \subseteq Members
    /\ Members = ActorRanks \union Workers
    /\ \A q \in Workers : q \notin ActorRanks
    /\ 0 \in ActorRanks
  BY Sizes, ActorsAssumption DEF Members, ActorRanks, Workers

\* Nobody changes what is broadcast, and where it is.
LEMMA ScheduleStays ==
    ASSUME backend' = backend, size' = size, schedule' = schedule
    PROVE  /\ \A g : Places(g)' = Places(g)
           /\ \A x, s : Shows(x, s)' <=> Shows(x, s)
           /\ ScheduleSound => ScheduleSound'
  <1>1. \A b : SizeOf(b)' = SizeOf(b)
    BY DEF SizeOf
  <1>2. \A g : Places(g)' = Places(g)
    <2>1. \A g : Start(g)' = Start(g)
      BY DEF Start
    <2>2. \A b, s : Metas(b, s)' = Metas(b, s)
      BY <1>1 DEF Metas
    <2> QED
      BY <2>1, <2>2 DEF Places
  <1>3. \A x, s : Shows(x, s)' <=> Shows(x, s)
    BY DEF Shows
  <1>4. ScheduleSound => ScheduleSound'
    BY <1>1 DEF ScheduleSound
  <1> QED
    BY <1>2, <1>3, <1>4

\* A bucket of the schedule, and the half it is broadcast through.
LEMMA PlacesSound ==
    ASSUME ScheduleSound, BroadcastTypes, NEW g \in 1..Len(schedule)
    PROVE  /\ Len(schedule) \in Nat
           /\ schedule[g].bucket \in Seq(Weights)
           /\ Len(schedule[g].bucket) \in Nat
           /\ schedule[g].owner \in ActorRanks
           /\ SizeOf(schedule[g].bucket) \in Nat
           /\ SizeOf(schedule[g].bucket) <= BucketSize
           /\ Start(g - 1) \in {0, BucketSize}
           /\ Len(Places(g)) = Len(schedule[g].bucket)
           /\ Places(g) \in Seq(Meta(2 * BucketSize))
           /\ backend = "broadcast" => /\ Start(g - 1) = 0
                                       /\ Places(g) \in Seq(Meta(BucketSize))
           /\ \A k \in 1..Len(schedule[g].bucket) :
                /\ schedule[g].bucket[k] \in Weights
                /\ Places(g)[k].name = schedule[g].bucket[k]
  <1> DEFINE b == schedule[g].bucket
             s == Start(g - 1)
  <1>1. /\ Len(schedule) \in Nat /\ schedule[g] \in Turns
        /\ SizeOf(b) <= BucketSize
    BY LenProperties, ElementOfSeq DEF ScheduleSound
  <1>2. b \in Seq(Weights) /\ schedule[g].owner \in ActorRanks
    BY <1>1 DEF Turns
  <1>3. BucketSize \in Nat \ {0}
    BY Sizes
  <1>4. s \in {0, BucketSize} /\ (backend = "broadcast" => s = 0)
    <2>1. (g - 1) % 2 \in {0, 1}
      <3>1. g - 1 \in Nat
        BY <1>1
      <3> QED
        BY <3>1
    <2>2. 0 * BucketSize = 0 /\ 1 * BucketSize = BucketSize
      BY <1>3
    <2> QED
      BY <2>1, <2>2 DEF Start
  <1>5. size \in [Weights -> Cells] /\ s \in Nat
    BY <1>3, <1>4 DEF BroadcastTypes
  <1>6. Places(g) = Metas(b, s)
    BY DEF Places
  <1> HIDE DEF b, s
  <1>7. /\ SizeOf(b) \in Nat
        /\ Len(Metas(b, s)) = Len(b)
        /\ Metas(b, s) \in Seq(Meta(s + BucketSize))
        /\ \A k \in 1..Len(b) : b[k] \in Weights /\ Metas(b, s)[k].name = b[k]
    BY <1>1, <1>2, <1>5, MetasSound
  <1>8. /\ Meta(s + BucketSize) \subseteq Meta(2 * BucketSize)
        /\ s = 0 => Meta(s + BucketSize) = Meta(BucketSize)
    <2>1. 0..((s + BucketSize) - 1) \subseteq 0..((2 * BucketSize) - 1)
      BY <1>3, <1>4
    <2>2. s = 0 => s + BucketSize = BucketSize
      BY <1>3
    <2> QED
      BY <2>1, <2>2 DEF Meta
  <1>9. Metas(b, s) \in Seq(Meta(2 * BucketSize))
    BY <1>7, <1>8, SeqMonotonic
  <1>10. Len(b) \in Nat
    BY <1>2, LenProperties
  <1> QED
    BY <1>1, <1>2, <1>4, <1>6, <1>7, <1>8, <1>9, <1>10 DEF b, s

LEMMA BroadcastInvInit ==
    ASSUME TransferInit, BroadcastInit, ~Streams
    PROVE  BroadcastInv
  <1>1. size \in [Weights -> Cells] /\ backend \in {"broadcast", "overlapped"}
    BY DEF TransferInit, Streams, Backends
  <1>2. ScheduleSound
    BY <1>1, ScheduleInit DEF BroadcastInit
  <1>3. Len(schedule) \in Nat
    BY <1>2, LenProperties DEF ScheduleSound
  <1>4. BroadcastTypes
    <2>1. loaded \in [Workers -> Seq(Weights \union {0})]
      BY DEF TransferInit
    <2>2. /\ stage \in [Members -> {"prepare", "broadcast", "load", "recv",
                                    "barrier", "send", "join", "end_barrier",
                                    "returned"}]
          /\ gidx \in [Members -> 0..Len(schedule)]
      BY <1>3 DEF BroadcastInit
    <2>3. load_buffer \in [Members -> [1..(2 * BucketSize)
                                        -> Weights \union {0}]]
      BY DEF BroadcastInit
    <2>4. views \in [Members -> Seq(Meta(BucketSize))]
      BY DEF BroadcastInit
    <2>5. request \in [Members -> Request]
      BY DEF BroadcastInit, Request
    <2> QED
      BY <1>1, <2>1, <2>2, <2>3, <2>4, <2>5 DEF BroadcastTypes
  <1>5. \A p \in Members : /\ stage[p] = "prepare" /\ gidx[p] = 0
                           /\ views[p] = <<>> /\ request[p].metas = <<>>
                           /\ request[p].pc = "sent" /\ Rest(p) = <<>>
    BY DEF BroadcastInit, Rest
  <1>6. \A p \in Members : ~Within(p) /\ Done(p) = 0
    BY <1>5 DEF Within, Done
  <1>7. ASSUME NEW p \in Members PROVE Sound(p)
    BY <1>5, <1>6 DEF Sound, Phase, Prepared, Arrived, Loading
  <1>8. ASSUME NEW q \in Workers PROVE Handed(q)
    <2>1. Len(loaded[q]) = 0
      BY DEF TransferInit
    <2>2. \A i \in 1..Len(loaded[q]) : FALSE
      BY <2>1
    <2> QED
      BY <2>2, Zenon DEF Handed
  <1> QED
    BY <1>2, <1>4, <1>6, <1>7, <1>8 DEF BroadcastInv

-----------------------------------------------------------------------------
(* The steps of the engines that broadcast.                                *)


\* What no step of an engine changes.
Fixed == backend' = backend /\ size' = size /\ schedule' = schedule

\* A step that leaves a process alone.
Unmoved(p) ==
    /\ stage'[p] = stage[p] /\ gidx'[p] = gidx[p]
    /\ load_buffer'[p] = load_buffer[p]
    /\ views'[p] = views[p] /\ request'[p] = request[p]
    /\ p \in Workers => loaded'[p] = loaded[p]

LEMMA UnmovedStays ==
    ASSUME Fixed, NEW p \in Members, Unmoved(p)
    PROVE  /\ Done(p)' = Done(p) /\ Rest(p)' = Rest(p) /\ At(p)' = At(p)
           /\ Sound(p) => Sound(p)'
  <1>1. Within(p)' <=> Within(p)
    BY DEF Within, Unmoved
  <1>2. Done(p)' = Done(p)
    BY <1>1 DEF Done, Unmoved
  <1>3. Rest(p)' = Rest(p) /\ At(p)' = At(p)
    BY <1>2 DEF Rest, At, Fixed, Unmoved
  <1>4. /\ \A g : Places(g)' = Places(g)
        /\ \A x, s : Shows(x, s)' <=> Shows(x, s)
    BY ScheduleStays DEF Fixed
  <1>5. Phase(p) => Phase(p)'
    BY <1>1 DEF Phase, Fixed, Unmoved
  <1>6. /\ Current(p)' = Current(p)
        /\ Places(gidx[p] + 1)' = Places(gidx[p] + 1)
        /\ Places(At(p))' = Places(At(p))
        /\ schedule[At(p)]' = schedule[At(p)]
    BY <1>3 DEF Current, Places, Metas, SizeOf, Start, Fixed, Unmoved
  <1>7. /\ Shows(load_buffer[p], Places(gidx[p] + 1))'
                <=> Shows(load_buffer[p], Places(gidx[p] + 1))
        /\ Shows(load_buffer[p], Places(At(p)))'
                <=> Shows(load_buffer[p], Places(At(p)))
    BY <1>6 DEF Shows, Fixed, Unmoved
  <1>8. Prepared(p) => Prepared(p)'
    BY <1>6, <1>7 DEF Prepared, Unmoved
  <1>9. Arrived(p) => Arrived(p)'
    BY <1>7 DEF Arrived, Unmoved
  <1>10. Loading(p) => Loading(p)'
    BY <1>3, <1>6, <1>7 DEF Loading, Fixed, Unmoved
  <1> QED
    BY <1>2, <1>3, <1>5, <1>8, <1>9, <1>10 DEF Sound

LEMMA DoneNat ==
    ASSUME BroadcastInv, NEW p \in Members
    PROVE  /\ gidx[p] \in Nat /\ Done(p) \in Nat /\ At(p) \in Nat
           /\ Done(p) <= Len(schedule) /\ Len(schedule) \in Nat
  <1>1. Len(schedule) \in Nat
    BY LenProperties DEF BroadcastInv, ScheduleSound
  <1>2. gidx[p] \in 0..Len(schedule)
    BY DEF BroadcastInv, BroadcastTypes
  <1>3. Within(p) => gidx[p] < Len(schedule)
    BY DEF BroadcastInv, Sound, Phase
  <1>4. /\ gidx[p] \in Nat /\ Done(p) \in Nat /\ Done(p) <= Len(schedule)
    BY <1>1, <1>2, <1>3 DEF Done
  <1> QED
    BY <1>1, <1>4 DEF At

\* A worker that loads nothing keeps what it has.
LEMMA HandedStays ==
    ASSUME Fixed, NEW q \in Workers, loaded'[q] = loaded[q], At(q) \in Int,
           \/ At(q)' = At(q) /\ Rest(q)' = Rest(q)
           \/ At(q)' = At(q) + 1,
           schedule \in Seq(Turns), Handed(q)
    PROVE  Handed(q)'
  <1>1. ASSUME NEW g \in 1..Len(schedule),
               NEW k \in 1..Len(schedule[g].bucket), Passed(q, g, k)
        PROVE  Passed(q, g, k)'
    <2>1. schedule' = schedule
      BY DEF Fixed
    <2>2. g \in Int
      OBVIOUS
    <2>3. CASE At(q)' = At(q) /\ Rest(q)' = Rest(q)
      BY <1>1, <2>1, <2>3 DEF Passed
    <2>4. CASE At(q)' = At(q) + 1
      <3>1. g <= At(q) /\ g # At(q) + 1 /\ g <= At(q) + 1
        BY <1>1, <2>2 DEF Passed
      <3> QED
        BY <2>4, <3>1 DEF Passed
    <2> QED
      BY <2>3, <2>4
  <1>2. schedule' = schedule
    BY DEF Fixed
  <1> QED
    BY <1>1, <1>2 DEF Handed

\* The invariant after a step of one process.
LEMMA OneMoves ==
    ASSUME BroadcastInv, Fixed, BroadcastTypes', NEW p \in Members,
           \A r \in Members \ {p} : Unmoved(r),
           Done(p)' = Done(p), Sound(p)', p \in Workers => Handed(p)'
    PROVE  BroadcastInv'
  <1>1. ScheduleSound'
    BY ScheduleStays DEF BroadcastInv, Fixed
  <1>2. ASSUME NEW r \in Members PROVE Done(r)' = Done(r) /\ Sound(r)'
    <2>1. Sound(r)
      BY DEF BroadcastInv
    <2>2. CASE r = p
      BY <2>2
    <2>3. CASE r # p
      BY <2>1, <2>3, UnmovedStays
    <2> QED
      BY <2>2, <2>3
  <1>3. ASSUME NEW q \in Workers PROVE Handed(q)'
    <2>1. CASE q = p
      BY <2>1
    <2>2. CASE q # p
      <3>1. q \in Members /\ Unmoved(q)
        BY <2>2, Ranked
      <3>2. At(q)' = At(q) /\ Rest(q)' = Rest(q)
        BY <3>1, UnmovedStays
      <3>3. Handed(q) /\ schedule \in Seq(Turns)
        BY DEF BroadcastInv, ScheduleSound
      <3>4. loaded'[q] = loaded[q]
        BY <3>1 DEF Unmoved
      <3>5. At(q) \in Int
        BY <3>1, DoneNat
      <3> QED
        BY <3>2, <3>3, <3>4, <3>5, HandedStays
    <2> QED
      BY <2>1, <2>2
  <1>4. \A r, s \in Members : Done(r)' = Done(s)'
    BY <1>2 DEF BroadcastInv
  <1> QED
    BY <1>1, <1>2, <1>3, <1>4 DEF BroadcastInv

\* A worker that loads the next weight of its bucket gets that weight, which
\* it did not have.
LEMMA LoadNext ==
    ASSUME BroadcastInv, Fixed, NEW q \in Workers, Rest(q) # <<>>,
           Load(q, load_buffer[q], Head(Rest(q))),
           load_buffer'[q] = load_buffer[q],
           Rest(q)' = Tail(Rest(q)), At(q)' = At(q)
    PROVE  /\ loaded' \in [Workers -> Seq(Weights \union {0})]
           /\ \A r \in Workers \ {q} : loaded'[r] = loaded[r]
           /\ Tail(Rest(q)) \in Seq(Meta(2 * BucketSize))
           /\ backend = "broadcast" => Tail(Rest(q)) \in Seq(Meta(BucketSize))
           /\ Loading(q)' /\ Handed(q)'
  <1> DEFINE R == Rest(q)
             g == At(q)
             b == schedule[g].bucket
             k == (Len(b) - Len(R)) + 1
             L == loaded[q]
             v == Value(load_buffer[q], Head(R))
  <1>1. /\ q \in Members /\ Loading(q) /\ ScheduleSound /\ BroadcastTypes
        /\ Handed(q)
    BY Ranked DEF BroadcastInv, Sound
  <1>2. /\ R \in Seq(Meta(2 * BucketSize)) /\ R # <<>>
        /\ backend = "broadcast" => R \in Seq(Meta(BucketSize))
    <2>1. /\ views[q] \in Seq(Meta(BucketSize))
          /\ request[q].metas \in Seq(Meta(2 * BucketSize))
      BY <1>1 DEF BroadcastTypes, Request
    <2>2. Meta(BucketSize) \subseteq Meta(2 * BucketSize)
      <3>1. BucketSize \in Nat
        BY Sizes
      <3>2. 0..(BucketSize - 1) \subseteq 0..((2 * BucketSize) - 1)
        BY <3>1
      <3> QED
        BY <3>2 DEF Meta
    <2>3. views[q] \in Seq(Meta(2 * BucketSize))
      BY <2>1, <2>2, SeqMonotonic
    <2> QED
      BY <2>1, <2>3 DEF Rest
  <1>3. /\ g \in 1..Len(schedule) /\ Len(R) <= Len(b)
        /\ \A j \in 1..Len(R) : R[j] = Places(g)[(Len(b) - Len(R)) + j]
        /\ Shows(load_buffer[q], Places(g))
    BY <1>1 DEF Loading
  <1>4. /\ Len(b) \in Nat /\ Len(Places(g)) = Len(b)
        /\ \A i \in 1..Len(b) : b[i] \in Weights /\ Places(g)[i].name = b[i]
    BY <1>1, <1>3, PlacesSound
  <1>5. L \in Seq(Weights \union {0}) /\ DOMAIN loaded = Workers
    BY <1>1 DEF BroadcastTypes
  <1>16. /\ Places(At(q))' = Places(At(q))
         /\ schedule[At(q)]' = schedule[At(q)]
         /\ Shows(load_buffer[q], Places(At(q)))'
    <2>1. At(q)' = At(q)
      OBVIOUS
    <2>2. Places(At(q))' = Places(At(q)) /\ schedule[At(q)]' = schedule[At(q)]
      BY <2>1 DEF Places, Metas, SizeOf, Start, Fixed
    <2>3. Shows(load_buffer[q], Places(At(q)))'
                <=> Shows(load_buffer[q], Places(At(q)))
      BY <2>2 DEF Shows, Fixed
    <2> QED
      BY <1>3, <2>2, <2>3
  <1> HIDE DEF R, g, b, L
  <1>6. Len(R) \in Nat \ {0} /\ Head(R) = R[1] /\ 1 \in 1..Len(R)
    BY <1>2, LenProperties, EmptySeq
  <1>7. /\ k \in 1..Len(b) /\ k = (Len(b) - Len(R)) + 1
    BY <1>3, <1>4, <1>6
  <1> HIDE DEF k
  <1>8. Head(R) = Places(g)[k]
    BY <1>3, <1>6, <1>7
  <1>9. b[k] \in Weights /\ Places(g)[k].name = b[k]
    BY <1>4, <1>7
  <1>10. v = b[k]
    <2>1. \A i \in (Places(g)[k].offset + 1)
                    ..(Places(g)[k].offset + size[Places(g)[k].name]) :
                load_buffer[q][i] = Places(g)[k].name
      BY <1>3, <1>4, <1>7 DEF Shows
    <2> QED
      BY <2>1, <1>8, <1>9 DEF Value
  <1>11. loaded' = [loaded EXCEPT ![q] = Append(L, b[k])]
    BY <1>10 DEF Load, L, R
  <1>12. loaded'[q] = Append(L, b[k])
    BY <1>5, <1>11
  <1>13. /\ loaded' \in [Workers -> Seq(Weights \union {0})]
         /\ \A r \in Workers \ {q} : loaded'[r] = loaded[r]
    <2>1. Append(L, b[k]) \in Seq(Weights \union {0})
      BY <1>5, <1>9, AppendProperties
    <2>2. loaded \in [Workers -> Seq(Weights \union {0})]
      BY <1>1 DEF BroadcastTypes
    <2> QED
      BY <1>11, <2>1, <2>2
  <1>14. /\ Tail(R) \in Seq(Meta(2 * BucketSize))
         /\ backend = "broadcast" => Tail(R) \in Seq(Meta(BucketSize))
         /\ Len(Tail(R)) = Len(R) - 1
         /\ \A j \in 1..Len(Tail(R)) : Tail(R)[j] = R[j + 1]
    BY <1>2, HeadTailProperties
  <1>15. Rest(q)' = Tail(R) /\ At(q)' = g /\ schedule' = schedule
    BY DEF R, g, Fixed
  <1>17. Loading(q)'
    <2>1. /\ Len(Tail(R)) <= Len(b)
          /\ \A j \in 1..Len(Tail(R)) :
                Tail(R)[j] = Places(g)[(Len(b) - Len(Tail(R))) + j]
      <3>1. Len(Tail(R)) <= Len(b)
        BY <1>3, <1>4, <1>6, <1>14
      <3>2. ASSUME NEW j \in 1..Len(Tail(R))
            PROVE  Tail(R)[j] = Places(g)[(Len(b) - Len(Tail(R))) + j]
        <4>1. Tail(R)[j] = R[j + 1] /\ j + 1 \in 1..Len(R)
          BY <1>6, <1>14
        <4>2. R[j + 1] = Places(g)[(Len(b) - Len(R)) + (j + 1)]
          BY <4>1, <1>3
        <4>3. (Len(b) - Len(R)) + (j + 1) = (Len(b) - Len(Tail(R))) + j
          BY <1>4, <1>6, <1>14
        <4> QED
          BY <4>1, <4>2, <4>3
      <3> QED
        BY <3>1, <3>2
    <2> QED
      BY <1>3, <1>15, <1>16, <2>1 DEF Loading, g, b
  <1>18. Len(L) \in Nat /\ Len(loaded'[q]) = Len(L) + 1
         /\ loaded'[q][Len(L) + 1] = b[k]
         /\ \A i \in 1..Len(L) : loaded'[q][i] = L[i]
    BY <1>5, <1>9, <1>12, AppendProperties, LenProperties
  <1>19. ASSUME NEW h \in 1..Len(schedule),
                NEW l \in 1..Len(schedule[h].bucket)
         PROVE  /\ Passed(q, h, l) => Passed(q, h, l)'
                /\ h = g /\ l = k => Passed(q, h, l)'
                /\ h = g /\ l = k => ~Passed(q, h, l)
    <2>1. /\ Passed(q, h, l) <=> /\ h <= g
                                 /\ h = g => l <= Len(b) - Len(R)
          /\ Passed(q, h, l)' <=> /\ h <= g
                                  /\ h = g => l <= Len(b) - Len(Tail(R))
      <3>1. /\ h = g => schedule[h].bucket = b
            /\ Rest(q) = R /\ At(q) = g
        BY DEF b, R, g
      <3> QED
        BY <1>15, <3>1 DEF Passed
    <2>2. /\ Len(b) - Len(R) <= Len(b) - Len(Tail(R))
          /\ k <= Len(b) - Len(Tail(R)) /\ ~(k <= Len(b) - Len(R))
          /\ g <= g /\ l \in Int /\ Len(b) - Len(R) \in Int
          /\ Len(b) - Len(Tail(R)) \in Int
      BY <1>3, <1>4, <1>6, <1>7, <1>14
    <2> QED
      BY <2>1, <2>2
  <1>20. ASSUME NEW i \in 1..Len(loaded'[q])
         PROVE  \E h \in 1..Len(schedule) : \E l \in 1..Len(schedule[h].bucket) :
                    loaded'[q][i] = schedule[h].bucket[l] /\ Passed(q, h, l)'
    <2>1. CASE i \in 1..Len(L)
      <3>1. \E h \in 1..Len(schedule) : \E l \in 1..Len(schedule[h].bucket) :
                L[i] = schedule[h].bucket[l] /\ Passed(q, h, l)
        BY <1>1, <2>1 DEF Handed, L
      <3>2. loaded'[q][i] = L[i]
        BY <1>18, <2>1
      <3> QED
        BY <3>1, <3>2, <1>19
    <2>2. CASE i = Len(L) + 1
      <3>1. loaded'[q][i] = b[k]
        BY <1>18, <2>2
      <3>2. g \in 1..Len(schedule) /\ b = schedule[g].bucket
        BY <1>3 DEF b
      <3> QED
        BY <3>1, <3>2, <1>7, <1>19
    <2> QED
      BY <2>1, <2>2, <1>18
  <1>21. \A i \in 1..Len(L) : L[i] # b[k]
    <2> SUFFICES ASSUME NEW i \in 1..Len(L), L[i] = b[k] PROVE FALSE
      OBVIOUS
    <2>1. PICK h \in 1..Len(schedule) : \E l \in 1..Len(schedule[h].bucket) :
                L[i] = schedule[h].bucket[l] /\ Passed(q, h, l)
      BY <1>1 DEF Handed, L
    <2>2. PICK l \in 1..Len(schedule[h].bucket) :
                L[i] = schedule[h].bucket[l] /\ Passed(q, h, l)
      BY <2>1
    <2>3. b = schedule[g].bucket
      BY DEF b
    <2>4. h = g /\ l = k
      <3>1. \A l1 \in 1..Len(schedule[h].bucket),
               k1 \in 1..Len(schedule[g].bucket) :
                schedule[h].bucket[l1] = schedule[g].bucket[k1]
                    => h = g /\ l1 = k1
        BY <1>1, <1>3, Zenon DEF ScheduleSound
      <3>2. k \in 1..Len(schedule[g].bucket)
        BY <1>7, <2>3
      <3>3. schedule[h].bucket[l] = schedule[g].bucket[k]
        BY <2>2, <2>3
      <3> QED
        BY <3>1, <3>2, <3>3, Zenon
    <2> QED
      BY <2>2, <2>4, <1>19
  <1>22. ASSUME NEW i \in 1..Len(loaded'[q]), NEW j \in 1..Len(loaded'[q]),
                loaded'[q][i] = loaded'[q][j]
         PROVE  i = j
    <2>1. /\ i \in 1..Len(L) \/ i = Len(L) + 1
          /\ j \in 1..Len(L) \/ j = Len(L) + 1
      BY <1>18
    <2>2. CASE i \in 1..Len(L) /\ j \in 1..Len(L)
      <3>1. L[i] = L[j]
        BY <1>18, <1>22, <2>2
      <3> QED
        BY <1>1, <2>2, <3>1 DEF Handed, L
    <2> QED
      BY <1>18, <1>21, <1>22, <2>1, <2>2
  <1>23. Handed(q)'
    BY <1>15, <1>20, <1>22 DEF Handed
  <1> QED
    BY <1>13, <1>14, <1>17, <1>23 DEF R


\* A step that leaves the buffer of a process alone.
LEMMA BufferStays ==
    ASSUME Fixed, NEW p \in Members, load_buffer'[p] = load_buffer[p]
    PROVE  /\ gidx'[p] = gidx[p] =>
                /\ Current(p)' = Current(p)
                /\ Shows(load_buffer[p], Places(gidx[p] + 1))'
                        <=> Shows(load_buffer[p], Places(gidx[p] + 1))
           /\ At(p)' = At(p) /\ Rest(p)' = Rest(p) /\ Loading(p)
                => Loading(p)'
  <1>1. gidx'[p] = gidx[p] =>
            /\ Current(p)' = Current(p)
            /\ Places(gidx[p] + 1)' = Places(gidx[p] + 1)
    BY DEF Current, Places, Metas, SizeOf, Start, Fixed
  <1>2. gidx'[p] = gidx[p] =>
            (Shows(load_buffer[p], Places(gidx[p] + 1))'
                        <=> Shows(load_buffer[p], Places(gidx[p] + 1)))
    BY <1>1 DEF Shows, Fixed
  <1>3. At(p)' = At(p) => /\ Places(At(p))' = Places(At(p))
                          /\ schedule[At(p)]' = schedule[At(p)]
    BY DEF Places, Metas, SizeOf, Start, Fixed
  <1>4. At(p)' = At(p) =>
            (Shows(load_buffer[p], Places(At(p)))'
                        <=> Shows(load_buffer[p], Places(At(p))))
    BY <1>3 DEF Shows, Fixed
  <1>5. At(p)' = At(p) /\ Rest(p)' = Rest(p) /\ Loading(p) => Loading(p)'
    BY <1>3, <1>4 DEF Loading, Fixed
  <1> QED
    BY <1>1, <1>2, <1>5

\* What a process knows of itself.
LEMMA Own ==
    ASSUME BroadcastInv, NEW p \in Members
    PROVE  /\ BroadcastTypes /\ schedule \in Seq(Turns)
           /\ Phase(p) /\ Prepared(p) /\ Arrived(p) /\ Loading(p)
           /\ p \in Workers => Handed(p)
           /\ backend \in {"broadcast", "overlapped"}
           /\ At(p) \in Int /\ gidx[p] \in Nat /\ Len(schedule) \in Nat
           /\ gidx[p] <= Len(schedule)
  <1>1. gidx[p] \in 0..Len(schedule)
    BY DEF BroadcastInv, BroadcastTypes
  <1>2. At(p) \in Int /\ gidx[p] \in Nat /\ Len(schedule) \in Nat
    BY DoneNat
  <1> QED
    BY <1>1, <1>2 DEF BroadcastInv, BroadcastTypes, ScheduleSound, Sound

\* A step of a process within a broadcast or without: nothing is loaded.
LEMMA StageMoves ==
    ASSUME BroadcastInv, Fixed, NEW p \in Members,
           UNCHANGED <<loaded, gidx, load_buffer, views>>,
           NEW s \in {"prepare", "broadcast", "load", "recv", "barrier",
                      "send", "join", "end_barrier", "returned"},
           stage' = [stage EXCEPT ![p] = s],
           NEW r \in Request, request' = [request EXCEPT ![p] = r],
           r.metas = request[p].metas,
           Done(p)' = Done(p), Phase(p)',
           s \in {"recv", "barrier", "send"} =>
                stage[p] \in {"recv", "barrier", "send"},
           s = "broadcast" => stage[p] = "broadcast"
    PROVE  BroadcastInv'
  <1>1. /\ BroadcastTypes /\ schedule \in Seq(Turns)
        /\ Prepared(p) /\ Arrived(p) /\ Loading(p)
        /\ p \in Workers => Handed(p)
        /\ At(p) \in Int
    BY Own
  <1>2. stage'[p] = s /\ request'[p] = r
    BY <1>1 DEF BroadcastTypes
  <1>3. BroadcastTypes'
    BY <1>1 DEF BroadcastTypes, Fixed
  <1>4. \A o \in Members \ {p} : Unmoved(o)
    BY <1>1 DEF BroadcastTypes, Unmoved
  <1>5. At(p)' = At(p) /\ Rest(p)' = Rest(p)
    BY <1>2 DEF At, Rest, Fixed
  <1>6. Loading(p)'
    BY <1>1, <1>5, BufferStays
  <1>7. Prepared(p)' /\ Arrived(p)'
    BY <1>1, <1>2, BufferStays DEF Prepared, Arrived
  <1>8. p \in Workers => Handed(p)'
    BY <1>1, <1>5, HandedStays
  <1>9. Sound(p)'
    BY <1>6, <1>7 DEF Sound
  <1> QED
    BY <1>3, <1>4, <1>8, <1>9, OneMoves

LEMMA KeepRecv ==
    ASSUME BroadcastInv, NEW p \in Members, Recv(p)
    PROVE  BroadcastInv'
  <1>1. Phase(p) /\ BroadcastTypes /\ request[p] \in Request
    BY Own DEF BroadcastTypes
  <1>2. /\ Fixed /\ UNCHANGED <<loaded, gidx, load_buffer, views>>
        /\ stage[p] = "recv" /\ request[p].pc = "answered"
        /\ stage' = [stage EXCEPT ![p] = "barrier"]
        /\ request' = [request EXCEPT ![p] = request[p]]
    BY <1>1 DEF Recv, Answered, Fixed, transferVars, BroadcastTypes
  <1>3. stage'[p] = "barrier" /\ request'[p] = request[p]
    BY <1>1, <1>2 DEF BroadcastTypes
  <1>4. Done(p)' = Done(p)
    BY <1>2, <1>3 DEF Done, Within
  <1>5. Phase(p)'
    BY <1>1, <1>2, <1>3 DEF Phase, Within, Fixed
  <1> QED
    BY <1>1, <1>2, <1>4, <1>5, StageMoves

LEMMA KeepJoinThread ==
    ASSUME BroadcastInv, NEW p \in Members, JoinThread(p)
    PROVE  BroadcastInv'
  <1>1. Phase(p) /\ BroadcastTypes /\ request[p] \in Request
    BY Own DEF BroadcastTypes
  <1>2. /\ Fixed /\ UNCHANGED <<loaded, gidx, load_buffer, views>>
        /\ stage[p] = "join"
        /\ stage' = [stage EXCEPT ![p] = "end_barrier"]
        /\ request' = [request EXCEPT ![p] = request[p]]
    BY <1>1 DEF JoinThread, Fixed, transferVars, BroadcastTypes
  <1>3. stage'[p] = "end_barrier" /\ request'[p] = request[p]
    BY <1>1, <1>2 DEF BroadcastTypes
  <1>4. Done(p)' = Done(p)
    BY <1>2, <1>3 DEF Done, Within
  <1>5. Phase(p)'
    BY <1>1, <1>2, <1>3 DEF Phase, Within, Fixed
  <1> QED
    BY <1>1, <1>2, <1>4, <1>5, StageMoves

LEMMA KeepLoopOver ==
    ASSUME BroadcastInv, NEW p \in Members, LoopOver(p)
    PROVE  BroadcastInv'
  <1>1. /\ Phase(p) /\ BroadcastTypes /\ request[p] \in Request
        /\ backend \in {"broadcast", "overlapped"}
    BY Own DEF BroadcastTypes
  <1>2. /\ Fixed /\ UNCHANGED <<loaded, gidx, load_buffer, views>>
        /\ stage[p] = "prepare"
    BY DEF LoopOver, Fixed, transferVars
  <1>3. \E s \in {"join", "end_barrier"}, r \in Request :
            /\ stage' = [stage EXCEPT ![p] = s]
            /\ request' = [request EXCEPT ![p] = r]
            /\ r.metas = request[p].metas
            /\ r.pc = "sent" \/ r = request[p]
    <2>1. CASE backend = "overlapped"
      <3> DEFINE r == [NoRequest EXCEPT !.pc = "sent"]
      <3>1. r.metas = <<>> /\ r.pc = "sent" /\ r \in Request
        <4>1. r = [pc |-> "sent", metas |-> <<>>]
          BY DEF NoRequest
        <4>2. [pc |-> "sent", metas |-> <<>>] \in Request
          BY DEF Request
        <4> QED
          BY <4>1, <4>2
      <3>2. request[p].metas = <<>>
        BY <1>1, <2>1 DEF Phase, LoopOver, Answered
      <3>3. /\ stage' = [stage EXCEPT ![p] = "join"]
            /\ request' = [request EXCEPT ![p] = r]
        BY <2>1 DEF LoopOver
      <3> HIDE DEF r
      <3> QED
        BY <3>1, <3>2, <3>3
    <2>2. CASE backend # "overlapped"
      <3>1. stage' = [stage EXCEPT ![p] = "end_barrier"]
        BY <2>2 DEF LoopOver
      <3>2. request' = [request EXCEPT ![p] = request[p]]
        BY <1>1, <2>2 DEF LoopOver, BroadcastTypes
      <3> QED
        BY <1>1, <3>1, <3>2
    <2> QED
      BY <2>1, <2>2
  <1>4. PICK s \in {"join", "end_barrier"}, r \in Request :
            /\ stage' = [stage EXCEPT ![p] = s]
            /\ request' = [request EXCEPT ![p] = r]
            /\ r.metas = request[p].metas
            /\ r.pc = "sent" \/ r = request[p]
    BY <1>3
  <1>5. stage'[p] = s /\ request'[p] = r
    BY <1>1, <1>4 DEF BroadcastTypes
  <1>6. Done(p)' = Done(p)
    BY <1>2, <1>5 DEF Done, Within
  <1>7. Phase(p)'
    BY <1>1, <1>2, <1>4, <1>5 DEF Phase, Within, Fixed
  <1> QED
    BY <1>1, <1>2, <1>4, <1>6, <1>7, StageMoves

LEMMA KeepThreadAnswers ==
    ASSUME BroadcastInv, NEW p \in Members, ThreadAnswers(p)
    PROVE  BroadcastInv'
  <1>1. /\ Phase(p) /\ BroadcastTypes /\ schedule \in Seq(Turns)
        /\ Prepared(p) /\ Arrived(p) /\ Loading(p)
        /\ p \in Workers => Handed(p)
        /\ At(p) \in Int
    BY Own
  <1> DEFINE r == [pc |-> "answered", metas |-> <<>>]
  <1>2. /\ Fixed /\ UNCHANGED <<loaded, stage, gidx, load_buffer, views>>
        /\ request' = [request EXCEPT ![p] = r]
        /\ backend = "overlapped" /\ request[p].pc = "sent"
        /\ p \in Workers => request[p].metas = <<>>
    BY DEF ThreadAnswers, Fixed, transferVars
  <1>3. r \in Request /\ r.metas = <<>> /\ r.pc = "answered"
    BY DEF Request
  <1> HIDE DEF r
  <1>4. request'[p] = r
    BY <1>1, <1>2 DEF BroadcastTypes
  <1>5. BroadcastTypes'
    BY <1>1, <1>2, <1>3 DEF BroadcastTypes, Fixed
  <1>6. \A o \in Members \ {p} : Unmoved(o)
    BY <1>1, <1>2 DEF BroadcastTypes, Unmoved
  <1>7. Done(p)' = Done(p) /\ At(p)' = At(p) /\ (Within(p)' <=> Within(p))
    BY <1>2 DEF Done, Within, At, Fixed
  <1>8. p \in Workers => Rest(p)' = Rest(p)
    BY <1>2, <1>3, <1>4 DEF Rest, Fixed
  <1>9. Loading(p)'
    BY <1>1, <1>2, <1>7, <1>8, BufferStays DEF Loading
  <1>10. Prepared(p)' /\ Arrived(p)'
    BY <1>1, <1>2, BufferStays DEF Prepared, Arrived
  <1>11. Phase(p)'
    BY <1>1, <1>2, <1>3, <1>4, <1>7 DEF Phase, Fixed
  <1>12. p \in Workers => Handed(p)'
    BY <1>1, <1>2, <1>7, <1>8, HandedStays
  <1>13. Sound(p)'
    BY <1>9, <1>10, <1>11 DEF Sound
  <1> QED
    BY <1>2, <1>5, <1>6, <1>7, <1>12, <1>13, OneMoves

LEMMA KeepBarrier ==
    ASSUME BroadcastInv, Barrier
    PROVE  BroadcastInv'
  <1>1. PICK here \in {"barrier", "end_barrier"} :
            \A p \in Members : stage[p] = here
    BY DEF Barrier
  <1>2. /\ Fixed /\ UNCHANGED <<loaded, gidx, load_buffer, views, request>>
        /\ stage' = [p \in Members |-> IF stage[p] = "barrier" THEN "send"
                                       ELSE "returned"]
    BY DEF Barrier, Fixed, transferVars
  <1>3. \A p \in Members :
            /\ stage[p] = here
            /\ stage'[p] = IF here = "barrier" THEN "send" ELSE "returned"
    BY <1>1, <1>2
  <1>4. BroadcastTypes'
    <2>1. BroadcastTypes
      BY DEF BroadcastInv
    <2>2. stage' \in [Members -> {"prepare", "broadcast", "load", "recv",
                                  "barrier", "send", "join", "end_barrier",
                                  "returned"}]
      BY <1>2
    <2> QED
      BY <1>2, <2>1, <2>2 DEF BroadcastTypes, Fixed
  <1>5. ASSUME NEW p \in Members
        PROVE  /\ Done(p)' = Done(p) /\ Sound(p)'
               /\ At(p)' = At(p) /\ Rest(p)' = Rest(p)
    <2>1. Phase(p) /\ Prepared(p) /\ Arrived(p) /\ Loading(p)
      BY Own
    <2>2. Done(p)' = Done(p) /\ (Within(p)' <=> Within(p))
      BY <1>2, <1>3 DEF Done, Within
    <2>3. At(p)' = At(p) /\ Rest(p)' = Rest(p)
      BY <1>2, <2>2 DEF At, Rest, Fixed
    <2>4. Loading(p)'
      BY <1>2, <2>1, <2>3, BufferStays
    <2>5. Prepared(p)' /\ Arrived(p)'
      BY <1>2, <1>3, <2>1, BufferStays DEF Prepared, Arrived
    <2>6. Phase(p)'
      BY <1>2, <1>3, <2>1, <2>2 DEF Phase, Fixed
    <2> QED
      BY <2>2, <2>3, <2>4, <2>5, <2>6 DEF Sound
  <1>6. ASSUME NEW q \in Workers PROVE Handed(q)'
    <2>1. q \in Members
      BY Ranked
    <2>2. /\ Handed(q) /\ schedule \in Seq(Turns) /\ At(q) \in Int
      BY <2>1, Own
    <2>3. loaded'[q] = loaded[q]
      BY <1>2
    <2> QED
      BY <1>2, <1>5, <2>1, <2>2, <2>3, HandedStays
  <1>7. ScheduleSound'
    BY <1>2, ScheduleStays DEF BroadcastInv, Fixed
  <1>8. \A r, s \in Members : Done(r)' = Done(s)'
    BY <1>5 DEF BroadcastInv
  <1> QED
    BY <1>4, <1>5, <1>6, <1>7, <1>8 DEF BroadcastInv

LEMMA KeepLoadDirectly ==
    ASSUME BroadcastInv, NEW p \in Members, LoadDirectly(p)
    PROVE  BroadcastInv'
  <1>1. /\ Phase(p) /\ BroadcastTypes /\ Prepared(p) /\ Arrived(p)
        /\ backend \in {"broadcast", "overlapped"}
    BY Own
  <1>2. /\ Fixed /\ UNCHANGED <<stage, gidx, load_buffer, request>>
        /\ stage[p] = "load" /\ views[p] # <<>>
        /\ Load(p, load_buffer[p], Head(views[p]))
        /\ views' = [views EXCEPT ![p] = Tail(views[p])]
    BY DEF LoadDirectly, Fixed
  <1>3. backend = "broadcast" /\ p \in Workers
    BY <1>1, <1>2 DEF Phase
  <1>4. views'[p] = Tail(views[p])
    BY <1>1, <1>2 DEF BroadcastTypes
  <1>5. Done(p)' = Done(p) /\ (Within(p)' <=> Within(p))
    BY <1>2 DEF Done, Within
  <1>6. /\ Rest(p) = views[p] /\ Rest(p)' = Tail(Rest(p))
        /\ At(p)' = At(p)
    BY <1>2, <1>3, <1>4, <1>5 DEF Rest, At, Fixed
  <1>7. /\ loaded' \in [Workers -> Seq(Weights \union {0})]
        /\ \A r \in Workers \ {p} : loaded'[r] = loaded[r]
        /\ Tail(views[p]) \in Seq(Meta(BucketSize))
        /\ Loading(p)' /\ Handed(p)'
    BY <1>2, <1>3, <1>6, LoadNext
  <1>8. BroadcastTypes'
    BY <1>1, <1>2, <1>7 DEF BroadcastTypes, Fixed
  <1>9. \A o \in Members \ {p} : Unmoved(o)
    BY <1>1, <1>2, <1>7 DEF BroadcastTypes, Unmoved
  <1>10. Prepared(p)' /\ Arrived(p)'
    BY <1>1, <1>2, BufferStays DEF Prepared, Arrived
  <1>11. Phase(p)'
    BY <1>1, <1>2, <1>3, <1>5 DEF Phase, Fixed
  <1>12. Sound(p)'
    BY <1>7, <1>10, <1>11 DEF Sound
  <1> QED
    BY <1>2, <1>5, <1>7, <1>8, <1>9, <1>12, OneMoves

LEMMA KeepThreadLoads ==
    ASSUME BroadcastInv, NEW p \in Members, ThreadLoads(p)
    PROVE  BroadcastInv'
  <1>1. /\ Phase(p) /\ BroadcastTypes /\ Prepared(p) /\ Arrived(p)
        /\ backend \in {"broadcast", "overlapped"}
    BY Own
  <1>2. /\ Fixed /\ UNCHANGED <<stage, gidx, load_buffer, views>>
        /\ request[p].pc = "sent" /\ p \in Workers /\ request[p].metas # <<>>
        /\ Load(p, load_buffer[p], Head(request[p].metas))
        /\ request' = [request EXCEPT ![p].metas = Tail(@)]
    BY DEF ThreadLoads, Fixed
  <1>3. backend = "overlapped"
    BY <1>1, <1>2 DEF Phase
  <1>4. /\ request[p] \in Request
        /\ request'[p] = [request[p] EXCEPT !.metas = Tail(request[p].metas)]
        /\ request'[p].metas = Tail(request[p].metas)
        /\ request'[p].pc = "sent"
    BY <1>1, <1>2 DEF BroadcastTypes, Request
  <1>5. Done(p)' = Done(p) /\ (Within(p)' <=> Within(p))
    BY <1>2 DEF Done, Within
  <1>6. /\ Rest(p) = request[p].metas /\ Rest(p)' = Tail(Rest(p))
        /\ At(p)' = At(p)
    BY <1>2, <1>3, <1>4 DEF Rest, At, Fixed
  <1>7. /\ loaded' \in [Workers -> Seq(Weights \union {0})]
        /\ \A r \in Workers \ {p} : loaded'[r] = loaded[r]
        /\ Tail(request[p].metas) \in Seq(Meta(2 * BucketSize))
        /\ Loading(p)' /\ Handed(p)'
    BY <1>2, <1>6, LoadNext
  <1>8. BroadcastTypes'
    <2>1. request'[p] \in Request
      BY <1>4, <1>7 DEF Request
    <2>2. \A o \in Members \ {p} : request'[o] = request[o]
      BY <1>1, <1>2 DEF BroadcastTypes
    <2>3. request' \in [Members -> Request]
      <3>1. request' = [o \in Members |-> request'[o]]
        BY <1>1, <1>2 DEF BroadcastTypes
      <3>2. \A o \in Members : request'[o] \in Request
        BY <1>1, <2>1, <2>2 DEF BroadcastTypes
      <3> QED
        BY <3>1, <3>2
    <2> QED
      BY <1>1, <1>2, <1>7, <2>3 DEF BroadcastTypes, Fixed
  <1>9. \A o \in Members \ {p} : Unmoved(o)
    BY <1>1, <1>2, <1>7 DEF BroadcastTypes, Unmoved
  <1>10. Prepared(p)' /\ Arrived(p)'
    BY <1>1, <1>2, BufferStays DEF Prepared, Arrived
  <1>11. Phase(p)'
    BY <1>1, <1>2, <1>3, <1>4, <1>5 DEF Phase, Fixed
  <1>12. Sound(p)'
    BY <1>7, <1>10, <1>11 DEF Sound
  <1> QED
    BY <1>2, <1>5, <1>7, <1>8, <1>9, <1>12, OneMoves


LEMMA KeepBucketLoaded ==
    ASSUME BroadcastInv, NEW p \in Members, BucketLoaded(p)
    PROVE  BroadcastInv'
  <1>1. /\ Phase(p) /\ BroadcastTypes /\ Loading(p)
        /\ schedule \in Seq(Turns)
        /\ p \in Workers => Handed(p)
        /\ At(p) \in Int /\ gidx[p] \in Nat /\ Len(schedule) \in Nat
        /\ backend \in {"broadcast", "overlapped"}
    BY Own
  <1>2. /\ Fixed /\ UNCHANGED <<loaded, load_buffer, views, request>>
        /\ stage[p] = "load" /\ views[p] = <<>>
        /\ stage' = [stage EXCEPT ![p] = "prepare"]
        /\ gidx' = [gidx EXCEPT ![p] = gidx[p] + 1]
    BY DEF BucketLoaded, Fixed, transferVars
  <1>3. backend = "broadcast" /\ p \in Workers /\ gidx[p] < Len(schedule)
    BY <1>1, <1>2 DEF Phase, Within
  <1>4. stage'[p] = "prepare" /\ gidx'[p] = gidx[p] + 1
    BY <1>1, <1>2 DEF BroadcastTypes
  <1>5. Done(p)' = Done(p) /\ ~Within(p)'
    BY <1>2, <1>4 DEF Done, Within
  <1>6. At(p)' = At(p) /\ Rest(p)' = Rest(p)
    BY <1>2, <1>3, <1>5 DEF At, Rest, Fixed
  <1>7. BroadcastTypes'
    <2>1. gidx[p] + 1 \in 0..Len(schedule)
      BY <1>1, <1>3
    <2>2. gidx' \in [Members -> 0..Len(schedule)]
      BY <1>1, <1>2, <2>1 DEF BroadcastTypes
    <2> QED
      BY <1>1, <1>2, <2>2 DEF BroadcastTypes, Fixed
  <1>8. \A o \in Members \ {p} : Unmoved(o)
    BY <1>1, <1>2 DEF BroadcastTypes, Unmoved
  <1>9. Loading(p)'
    BY <1>1, <1>2, <1>6, BufferStays
  <1>10. Phase(p)'
    BY <1>1, <1>2, <1>3, <1>4, <1>5 DEF Phase, Fixed
  <1>11. Sound(p)'
    BY <1>4, <1>9, <1>10 DEF Sound, Prepared, Arrived
  <1>12. Handed(p)'
    BY <1>1, <1>2, <1>3, <1>6, HandedStays
  <1> QED
    BY <1>2, <1>5, <1>7, <1>8, <1>11, <1>12, OneMoves

\* A worker that is told of a bucket its buffer shows.
LEMMA LoadingStarts ==
    ASSUME BroadcastInv, Fixed, NEW p \in Members, NEW g \in 1..Len(schedule),
           At(p)' = g, Rest(p)' = Places(g),
           NEW y, load_buffer'[p] = y, Shows(y, Places(g))
    PROVE  Loading(p)'
  <1>1. /\ Len(Places(g)) = Len(schedule[g].bucket)
        /\ Len(schedule[g].bucket) \in Nat
    BY PlacesSound DEF BroadcastInv
  <1>2. Places(g)' = Places(g) /\ schedule' = schedule /\ size' = size
    BY ScheduleStays DEF Fixed
  <1>3. /\ Places(At(p))' = Places(g)
        /\ schedule[At(p)]' = schedule[g]
    BY <1>2 DEF Places, Metas, SizeOf, Start, Fixed
  <1>4. Shows(load_buffer[p], Places(At(p)))'
    BY <1>2, <1>3 DEF Shows
  <1>5. \A j \in 1..Len(Places(g)) :
            (Len(schedule[g].bucket) - Len(Places(g))) + j = j
    BY <1>1
  <1> QED
    BY <1>1, <1>2, <1>3, <1>4, <1>5 DEF Loading

LEMMA KeepSendMetas ==
    ASSUME BroadcastInv, NEW p \in Members, SendMetas(p)
    PROVE  BroadcastInv'
  <1>1. /\ Phase(p) /\ BroadcastTypes /\ Arrived(p)
        /\ schedule \in Seq(Turns)
        /\ p \in Workers => Handed(p)
        /\ At(p) \in Int /\ gidx[p] \in Nat /\ Len(schedule) \in Nat
        /\ backend \in {"broadcast", "overlapped"}
    BY Own
  <1> DEFINE g == gidx[p] + 1
             m == Places(g)
             r == [pc |-> "sent", metas |-> m]
  <1>2. /\ stage[p] = "send" /\ g \in 1..Len(schedule)
        /\ backend = "overlapped"
        /\ request[p].pc = "answered" /\ request[p].metas = <<>>
    BY <1>1 DEF Phase, Within, SendMetas
  <1>3. m = Metas(Current(p).bucket, Start(gidx[p]))
    <2>1. g - 1 = gidx[p]
      BY <1>1
    <2> QED
      BY <2>1 DEF Places, Current
  <1>4. /\ Fixed /\ UNCHANGED <<loaded, load_buffer, views>>
        /\ stage' = [stage EXCEPT ![p] = "prepare"]
        /\ gidx' = [gidx EXCEPT ![p] = g]
        /\ request' = [request EXCEPT ![p] = r]
    BY <1>3 DEF SendMetas, Fixed, transferVars
  <1>5. m \in Seq(Meta(2 * BucketSize))
    BY <1>2, PlacesSound DEF BroadcastInv
  <1>6. Shows(load_buffer[p], m)
    BY <1>1, <1>2 DEF Arrived
  <1>7. PICK gg : gg = g
    OBVIOUS
  <1>8. PICK mm : mm = m
    OBVIOUS
  <1>9. /\ mm = Places(gg) /\ gg \in 1..Len(schedule) /\ gg = gidx[p] + 1
        /\ gidx' = [gidx EXCEPT ![p] = gg]
        /\ request' = [request EXCEPT ![p] = [pc |-> "sent", metas |-> mm]]
        /\ mm \in Seq(Meta(2 * BucketSize)) /\ Shows(load_buffer[p], mm)
    BY <1>2, <1>4, <1>5, <1>6, <1>7, <1>8
  <1> HIDE DEF g, m, r
  <1>10. /\ stage'[p] = "prepare" /\ gidx'[p] = gg
         /\ request'[p] = [pc |-> "sent", metas |-> mm]
    BY <1>1, <1>4, <1>9 DEF BroadcastTypes
  <1>11. Done(p)' = Done(p) /\ ~Within(p)'
    BY <1>2, <1>9, <1>10 DEF Done, Within
  <1>12. /\ At(p)' = At(p) + 1 /\ At(p)' = gg /\ Rest(p)' = mm
    BY <1>2, <1>4, <1>9, <1>10 DEF At, Rest, Fixed
  <1>13. BroadcastTypes'
    <2>1. gg \in 0..Len(schedule)
      BY <1>1, <1>9
    <2>2. gidx' \in [Members -> 0..Len(schedule)]
      BY <1>1, <1>9, <2>1 DEF BroadcastTypes
    <2>3. [pc |-> "sent", metas |-> mm] \in Request
      BY <1>9 DEF Request
    <2>4. request' \in [Members -> Request]
      BY <1>1, <1>9, <2>3 DEF BroadcastTypes
    <2> QED
      BY <1>1, <1>4, <2>2, <2>4 DEF BroadcastTypes, Fixed
  <1>14. \A o \in Members \ {p} : Unmoved(o)
    BY <1>1, <1>4, <1>9 DEF BroadcastTypes, Unmoved
  <1>15. Loading(p)'
    <2>1. load_buffer'[p] = load_buffer[p]
      BY <1>4
    <2> QED
      BY <1>4, <1>9, <1>12, <2>1, LoadingStarts
  <1>16. Phase(p)'
    BY <1>1, <1>2, <1>4, <1>10, <1>11 DEF Phase, Fixed
  <1>17. Sound(p)'
    BY <1>10, <1>15, <1>16 DEF Sound, Prepared, Arrived
  <1>18. p \in Workers => Handed(p)'
    BY <1>1, <1>4, <1>12, HandedStays
  <1> QED
    BY <1>4, <1>11, <1>13, <1>14, <1>17, <1>18, OneMoves

LEMMA KeepPrepare ==
    ASSUME BroadcastInv, NEW p \in Members, Prepare(p)
    PROVE  BroadcastInv'
  <1>1. /\ Phase(p) /\ BroadcastTypes /\ Loading(p)
        /\ schedule \in Seq(Turns)
        /\ p \in Workers => Handed(p)
        /\ At(p) \in Int /\ gidx[p] \in Nat /\ Len(schedule) \in Nat
        /\ backend \in {"broadcast", "overlapped"} /\ ScheduleSound
    BY Own DEF BroadcastInv
  <1>2. /\ Fixed /\ UNCHANGED <<loaded, gidx, views, request>>
        /\ stage[p] = "prepare" /\ gidx[p] < Len(schedule)
        /\ stage' = [stage EXCEPT ![p] = "broadcast"]
    BY DEF Prepare, Fixed, transferVars
  <1>3. stage'[p] = "broadcast"
    BY <1>1, <1>2 DEF BroadcastTypes
  <1>4. Done(p)' = Done(p) /\ ~Within(p)' /\ ~Within(p)
    BY <1>2, <1>3 DEF Done, Within
  <1>5. At(p)' = At(p) /\ Rest(p)' = Rest(p)
    BY <1>2, <1>4 DEF At, Rest, Fixed
  <1>6. Phase(p)'
    BY <1>1, <1>2, <1>3, <1>4 DEF Phase, Fixed
  <1>7. p \in Workers => Handed(p)'
    BY <1>1, <1>2, <1>5, HandedStays
  <1> DEFINE g == gidx[p] + 1
             b == schedule[g].bucket
             s == Start(gidx[p])
             F == Filled(load_buffer[p], Metas(b, s))
  <1>8. g \in 1..Len(schedule) /\ g - 1 = gidx[p]
    BY <1>1, <1>2
  <1>9. /\ b \in Seq(Weights) /\ SizeOf(b) <= BucketSize
        /\ s \in {0, BucketSize} /\ Current(p).owner \in ActorRanks
    BY <1>1, <1>8, PlacesSound DEF Current
  <1>10. Places(g) = Metas(b, s)
    BY <1>8 DEF Places
  <1>11. /\ F \in [1..(2 * BucketSize) -> Weights \union {0}]
         /\ Shows(F, Metas(b, s))
    <2>1. /\ load_buffer[p] \in [1..(2 * BucketSize) -> Weights \union {0}]
          /\ size \in [Weights -> Cells]
      BY <1>1 DEF BroadcastTypes
    <2> HIDE DEF b, s
    <2> QED
      BY <1>9, <2>1, FilledShows
  <1>12. load_buffer' = IF p = Current(p).owner
                        THEN [load_buffer EXCEPT ![p] = F] ELSE load_buffer
    BY DEF Prepare, Current
  <1>13. PICK ff : ff = F
    OBVIOUS
  <1>14. /\ load_buffer' = IF p = Current(p).owner
                           THEN [load_buffer EXCEPT ![p] = ff] ELSE load_buffer
         /\ ff \in [1..(2 * BucketSize) -> Weights \union {0}]
         /\ Shows(ff, Places(gidx[p] + 1))
    BY <1>10, <1>11, <1>12, <1>13
  <1> HIDE DEF F, b, s, g
  <1>15. BroadcastTypes'
    BY <1>1, <1>2, <1>14 DEF BroadcastTypes, Fixed
  <1>16. \A o \in Members \ {p} : Unmoved(o)
    BY <1>1, <1>2, <1>14 DEF BroadcastTypes, Unmoved
  <1>17. Prepared(p)'
    <2>1. /\ Current(p)' = Current(p)
          /\ Places(gidx[p] + 1)' = Places(gidx[p] + 1)
      BY <1>2 DEF Current, Places, Metas, SizeOf, Start, Fixed
    <2>2. p = Current(p).owner => load_buffer'[p] = ff
      BY <1>1, <1>14 DEF BroadcastTypes
    <2>3. p = Current(p).owner =>
                Shows(load_buffer[p], Places(gidx[p] + 1))'
      <3>1. \A z, m : Shows(z, m)' <=> Shows(z, m)
        BY <1>2, ScheduleStays DEF Fixed
      <3> QED
        BY <1>14, <2>1, <2>2, <3>1
    <2> QED
      BY <2>1, <2>3 DEF Prepared
  <1>18. Loading(p)'
    <2>1. CASE p \in Workers
      <3>1. p # Current(p).owner
        BY <1>9, <2>1, Ranked
      <3>2. load_buffer'[p] = load_buffer[p]
        BY <1>14, <3>1
      <3> QED
        BY <1>1, <1>2, <1>5, <3>2, BufferStays
    <2> QED
      BY <2>1 DEF Loading
  <1>19. Sound(p)'
    BY <1>3, <1>6, <1>17, <1>18 DEF Sound, Arrived
  <1> QED
    BY <1>2, <1>4, <1>7, <1>15, <1>16, <1>19, OneMoves


\* Consecutive buckets are broadcast through different halves.
LEMMA OtherHalf ==
    ASSUME backend = "overlapped", NEW g \in Nat \ {0}
    PROVE  {Start(g - 1), Start(g)} = {0, BucketSize}
  <1>1. g % 2 \in {0, 1} /\ (g - 1) % 2 = 1 - (g % 2)
    OBVIOUS
  <1>2. BucketSize \in Nat \ {0} /\ 0 * BucketSize = 0
        /\ 1 * BucketSize = BucketSize
    BY Sizes
  <1> QED
    BY <1>1, <1>2 DEF Start

\* What a broadcast does to the processes.
BroadcastBy(a, h) ==
    /\ a \in ActorRanks /\ h \in Nat /\ h + 1 \in 1..Len(schedule)
    /\ \A p \in Members : stage[p] = "broadcast" /\ gidx[p] = h
    /\ Shows(load_buffer[a], Places(h + 1))
    /\ load_buffer' =
            [p \in Members |->
                [i \in 1..(2 * BucketSize) |->
                    IF i \in (Start(h) + 1)
                                ..(Start(h) + SizeOf(schedule[h + 1].bucket))
                    THEN load_buffer[a][i] ELSE load_buffer[p][i]]]
    /\ Fixed /\ UNCHANGED <<loaded, request>>
    /\ \A p \in Members :
        IF backend = "overlapped"
        THEN stage'[p] = "recv" /\ gidx'[p] = h /\ views'[p] = views[p]
        ELSE IF p \in Workers
        THEN stage'[p] = "load" /\ gidx'[p] = h /\ views'[p] = Places(h + 1)
        ELSE stage'[p] = "prepare" /\ gidx'[p] = h + 1 /\ views'[p] = views[p]
    /\ stage' = [p \in Members |-> stage'[p]]
    /\ gidx' = [p \in Members |-> gidx'[p]]
    /\ views' = [p \in Members |-> views'[p]]

LEMMA BroadcastsBy ==
    ASSUME BroadcastInv, Broadcast
    PROVE  \E a, h : BroadcastBy(a, h)
  <1>1. PICK a \in ActorRanks :
            LET start == Start(gidx[a])
                part == (start + 1)..(start + SizeOf(Current(a).bucket))
            IN  /\ a = Current(a).owner
                /\ load_buffer' =
                        [p \in Members |->
                            [i \in 1..(2 * BucketSize) |->
                                IF i \in part THEN load_buffer[a][i]
                                ELSE load_buffer[p][i]]]
    BY DEF Broadcast
  <1> DEFINE h == gidx[a]
  <1>2. a \in Members
    BY Ranked
  <1>3. ASSUME NEW p \in Members
        PROVE  stage[p] = "broadcast" /\ gidx[p] = h
    <2>1. stage[p] = "broadcast" /\ stage[a] = "broadcast"
      BY <1>2 DEF Broadcast
    <2>2. Done(p) = Done(a)
      BY <1>2 DEF BroadcastInv
    <2> QED
      BY <2>1, <2>2 DEF Done, Within
  <1>4. /\ h \in Nat /\ Len(schedule) \in Nat /\ h < Len(schedule)
        /\ BroadcastTypes /\ Prepared(a)
        /\ backend \in {"broadcast", "overlapped"} /\ ScheduleSound
    BY <1>2, <1>3, Own DEF Phase, BroadcastInv
  <1>5. h + 1 \in 1..Len(schedule)
    BY <1>4
  <1>6. /\ Current(a) = schedule[h + 1]
        /\ \A p \in Members : Current(p) = schedule[h + 1]
    BY <1>2, <1>3 DEF Current
  <1>7. Shows(load_buffer[a], Places(h + 1))
    BY <1>1, <1>2, <1>3, <1>4 DEF Prepared
  <1>8. load_buffer' =
            [p \in Members |->
                [i \in 1..(2 * BucketSize) |->
                    IF i \in (Start(h) + 1)
                                ..(Start(h) + SizeOf(schedule[h + 1].bucket))
                    THEN load_buffer[a][i] ELSE load_buffer[p][i]]]
    BY <1>1, <1>6
  <1>9. Fixed /\ UNCHANGED <<loaded, request>>
    BY DEF Broadcast, Fixed, transferVars
  <1>10. backend = "broadcast" =>
            Places(h + 1) = Metas(schedule[h + 1].bucket, 0)
    <2>1. backend = "broadcast" => Start((h + 1) - 1) = 0
      BY DEF Start
    <2> QED
      BY <2>1 DEF Places
  <1>11. /\ stage' = [p \in Members |->
                        CASE backend = "overlapped" -> "recv"
                          [] backend # "overlapped" /\ p \in Workers -> "load"
                          [] OTHER -> "prepare"]
         /\ views' = [p \in Members |->
                        IF backend = "broadcast" /\ p \in Workers
                        THEN Metas(Current(p).bucket, 0) ELSE views[p]]
         /\ gidx' = IF backend = "overlapped" THEN gidx
                    ELSE [p \in Members |-> IF p \in Workers THEN gidx[p]
                                            ELSE gidx[p] + 1]
    BY DEF Broadcast
  <1>12. gidx' = [p \in Members |->
                    IF backend = "overlapped" \/ p \in Workers THEN h
                    ELSE h + 1]
    <2>1. CASE backend = "overlapped"
      <3>1. gidx' = gidx /\ gidx = [p \in Members |-> gidx[p]]
        BY <1>4, <1>11, <2>1 DEF BroadcastTypes
      <3>2. gidx = [p \in Members |-> h]
        BY <3>1, <1>3
      <3> QED
        BY <2>1, <3>1, <3>2
    <2>2. CASE backend # "overlapped"
      BY <1>3, <1>11, <2>2
    <2> QED
      BY <2>1, <2>2
  <1>13. /\ stage' = [p \in Members |-> stage'[p]]
         /\ gidx' = [p \in Members |-> gidx'[p]]
         /\ views' = [p \in Members |-> views'[p]]
    <2>1. stage' = [p \in Members |-> stage'[p]]
      BY <1>11
    <2>2. gidx' = [p \in Members |-> gidx'[p]]
      BY <1>12
    <2>3. views' = [p \in Members |-> views'[p]]
      BY <1>11
    <2> QED
      BY <2>1, <2>2, <2>3
  <1> HIDE DEF h
  <1>14. ASSUME NEW p \in Members
         PROVE  IF backend = "overlapped"
                THEN stage'[p] = "recv" /\ gidx'[p] = h /\ views'[p] = views[p]
                ELSE IF p \in Workers
                THEN /\ stage'[p] = "load" /\ gidx'[p] = h
                     /\ views'[p] = Places(h + 1)
                ELSE /\ stage'[p] = "prepare" /\ gidx'[p] = h + 1
                     /\ views'[p] = views[p]
    <2>1. stage'[p] = IF backend = "overlapped" THEN "recv"
                      ELSE IF p \in Workers THEN "load" ELSE "prepare"
      BY <1>11
    <2>2. gidx'[p] = IF backend = "overlapped" \/ p \in Workers THEN h
                     ELSE h + 1
      BY <1>12
    <2>3. views'[p] = IF backend = "broadcast" /\ p \in Workers
                      THEN Metas(Current(p).bucket, 0) ELSE views[p]
      BY <1>11
    <2>4. backend = "broadcast" =>
                Metas(Current(p).bucket, 0) = Places(h + 1)
      BY <1>6, <1>10
    <2>5. CASE backend = "overlapped"
      BY <2>1, <2>2, <2>3, <2>5
    <2>6. CASE backend = "broadcast" /\ p \in Workers
      BY <2>1, <2>2, <2>3, <2>4, <2>6
    <2>7. CASE backend = "broadcast" /\ p \notin Workers
      BY <2>1, <2>2, <2>3, <2>7
    <2> QED
      BY <1>4, <2>5, <2>6, <2>7
  <1>15. BroadcastBy(a, h)
    BY <1>3, <1>4, <1>5, <1>7, <1>8, <1>9, <1>13, <1>14 DEF BroadcastBy
  <1> QED
    BY <1>15

\* After a broadcast every process shows the bucket, and a bucket in the
\* other half is as it was.
LEMMA BroadcastCopies ==
    ASSUME BroadcastInv, NEW a, NEW h, BroadcastBy(a, h), NEW p \in Members
    PROVE  /\ load_buffer'[p] \in [1..(2 * BucketSize) -> Weights \union {0}]
           /\ Shows(load_buffer'[p], Places(h + 1))
           /\ backend = "overlapped" /\ h # 0 /\ Shows(load_buffer[p], Places(h))
                => Shows(load_buffer'[p], Places(h))
  <1> DEFINE b == schedule[h + 1].bucket
             s == Start(h)
             x == load_buffer[a]
             y == load_buffer[p]
             z == load_buffer'[p]
             part == (s + 1)..(s + SizeOf(b))
  <1>1. /\ ScheduleSound /\ BroadcastTypes /\ BucketSize \in Nat \ {0}
        /\ size \in [Weights -> Cells] /\ a \in Members
        /\ h \in Nat /\ h + 1 \in 1..Len(schedule) /\ (h + 1) - 1 = h
    <2>1. ScheduleSound /\ BroadcastTypes /\ size \in [Weights -> Cells]
      BY DEF BroadcastInv, BroadcastTypes
    <2>2. a \in ActorRanks /\ h \in Nat /\ h + 1 \in 1..Len(schedule)
      BY DEF BroadcastBy
    <2> QED
      BY <2>1, <2>2, Sizes, Ranked
  <1>2. /\ b \in Seq(Weights) /\ SizeOf(b) \in Nat /\ SizeOf(b) <= BucketSize
        /\ s \in {0, BucketSize}
    BY <1>1, PlacesSound
  <1>3. Places(h + 1) = Metas(b, s)
    BY <1>1 DEF Places
  <1>4. /\ x \in [1..(2 * BucketSize) -> Weights \union {0}]
        /\ y \in [1..(2 * BucketSize) -> Weights \union {0}]
    BY <1>1 DEF BroadcastTypes
  <1>5. z = [i \in 1..(2 * BucketSize) |-> IF i \in part THEN x[i] ELSE y[i]]
    BY DEF BroadcastBy
  <1>6. Shows(x, Metas(b, s))
    BY <1>3 DEF BroadcastBy
  <1> HIDE DEF b, s, x, y, z
  <1>7. part \subseteq 1..(2 * BucketSize)
    BY <1>1, <1>2
  <1>8. \A i \in part : z[i] = x[i]
    BY <1>5, <1>7
  <1>9. Shows(z, Metas(b, s))
    BY <1>1, <1>2, <1>6, <1>8, ShowsCopied
  <1>10. z \in [1..(2 * BucketSize) -> Weights \union {0}]
    BY <1>4, <1>5
  <1>11. ASSUME backend = "overlapped", h # 0, Shows(y, Places(h))
         PROVE  Shows(z, Places(h))
    <2> DEFINE c == schedule[h].bucket
               t == Start(h - 1)
    <2>1. h \in 1..Len(schedule)
      <3>1. Len(schedule) \in Nat
        BY <1>1, LenProperties DEF ScheduleSound
      <3> QED
        BY <1>1, <1>11, <3>1
    <2>2. /\ c \in Seq(Weights) /\ SizeOf(c) \in Nat /\ SizeOf(c) <= BucketSize
          /\ t \in {0, BucketSize}
      BY <1>1, <2>1, PlacesSound
    <2>3. Places(h) = Metas(c, t)
      BY DEF Places
    <2>4. {t, s} = {0, BucketSize}
      BY <1>1, <1>11, OtherHalf DEF s
    <2> HIDE DEF c, t
    <2>5. ASSUME NEW i \in (t + 1)..(t + SizeOf(c))
          PROVE  i \notin part /\ i \in 1..(2 * BucketSize)
      <3>1. (t = 0 /\ s = BucketSize) \/ (t = BucketSize /\ s = 0)
        BY <1>1, <2>4
      <3>2. i \in Int /\ t + 1 <= i /\ i <= t + SizeOf(c)
        BY <1>1, <2>2
      <3>3. CASE t = 0 /\ s = BucketSize
        BY <1>1, <1>2, <2>2, <3>2, <3>3
      <3>4. CASE t = BucketSize /\ s = 0
        BY <1>1, <1>2, <2>2, <3>2, <3>4
      <3> QED
        BY <3>1, <3>3, <3>4
    <2>6. \A i \in (t + 1)..(t + SizeOf(c)) : z[i] = y[i]
      BY <1>5, <2>5
    <2>7. Shows(y, Metas(c, t))
      BY <1>11, <2>3
    <2> QED
      BY <1>1, <2>2, <2>3, <2>6, <2>7, ShowsCopied
  <1> QED
    BY <1>3, <1>9, <1>10, <1>11 DEF y, z

LEMMA KeepBroadcast ==
    ASSUME BroadcastInv, Broadcast
    PROVE  BroadcastInv'
  <1>1. PICK a, h : BroadcastBy(a, h)
    BY BroadcastsBy
  <1>2. /\ BroadcastTypes /\ ScheduleSound /\ schedule \in Seq(Turns)
        /\ backend \in {"broadcast", "overlapped"}
        /\ Len(schedule) \in Nat
    BY LenProperties DEF BroadcastInv, BroadcastTypes, ScheduleSound
  <1>3. /\ h \in Nat /\ h + 1 \in 1..Len(schedule) /\ Fixed
        /\ UNCHANGED <<loaded, request>>
    BY <1>1 DEF BroadcastBy
  <1>4. ASSUME NEW p \in Members
        PROVE  /\ stage[p] = "broadcast" /\ gidx[p] = h
               /\ Phase(p) /\ Loading(p)
               /\ ~Within(p)
               /\ Done(p) = h
               /\ IF backend = "overlapped"
                  THEN stage'[p] = "recv" /\ gidx'[p] = h /\ views'[p] = views[p]
                  ELSE IF p \in Workers
                  THEN /\ stage'[p] = "load" /\ gidx'[p] = h
                       /\ views'[p] = Places(h + 1)
                  ELSE /\ stage'[p] = "prepare" /\ gidx'[p] = h + 1
                       /\ views'[p] = views[p]
    <2>1. /\ stage[p] = "broadcast" /\ gidx[p] = h
          /\ IF backend = "overlapped"
             THEN stage'[p] = "recv" /\ gidx'[p] = h /\ views'[p] = views[p]
             ELSE IF p \in Workers
             THEN /\ stage'[p] = "load" /\ gidx'[p] = h
                  /\ views'[p] = Places(h + 1)
             ELSE /\ stage'[p] = "prepare" /\ gidx'[p] = h + 1
                  /\ views'[p] = views[p]
      BY <1>1 DEF BroadcastBy
    <2>2. ~Within(p) /\ Done(p) = h
      BY <2>1 DEF Within, Done
    <2> QED
      BY <2>1, <2>2, Own
  <1>5. \A p \in Members : Done(p)' = h + 1
    BY <1>2, <1>3, <1>4 DEF Done, Within, Fixed
  <1>6. BroadcastTypes'
    <2>1. /\ backend = "broadcast" => Places(h + 1) \in Seq(Meta(BucketSize))
      BY <1>2, <1>3, PlacesSound
    <2>2. h \in 0..Len(schedule) /\ h + 1 \in 0..Len(schedule)
      BY <1>2, <1>3
    <2>3. ASSUME NEW p \in Members
          PROVE  /\ stage'[p] \in {"load", "recv", "prepare"}
                 /\ gidx'[p] \in 0..Len(schedule)
                 /\ views'[p] \in Seq(Meta(BucketSize))
                 /\ load_buffer'[p] \in [1..(2 * BucketSize)
                                            -> Weights \union {0}]
      <3>1. views[p] \in Seq(Meta(BucketSize))
        BY <1>2 DEF BroadcastTypes
      <3>2. load_buffer'[p] \in [1..(2 * BucketSize) -> Weights \union {0}]
        BY <1>1, BroadcastCopies
      <3> QED
        BY <1>2, <1>4, <2>1, <2>2, <3>1, <3>2
    <2>4. /\ stage' = [p \in Members |-> stage'[p]]
          /\ gidx' = [p \in Members |-> gidx'[p]]
          /\ views' = [p \in Members |-> views'[p]]
      BY <1>1 DEF BroadcastBy
    <2>5. load_buffer' = [p \in Members |-> load_buffer'[p]]
      BY <1>1 DEF BroadcastBy
    <2>6. stage' \in [Members -> {"prepare", "broadcast", "load", "recv",
                                  "barrier", "send", "join", "end_barrier",
                                  "returned"}]
      BY <2>3, <2>4
    <2>7. gidx' \in [Members -> 0..Len(schedule)]
      BY <2>3, <2>4
    <2>8. views' \in [Members -> Seq(Meta(BucketSize))]
      BY <2>3, <2>4
    <2>9. load_buffer' \in [Members -> [1..(2 * BucketSize)
                                            -> Weights \union {0}]]
      BY <2>3, <2>5
    <2> QED
      BY <1>2, <1>3, <2>6, <2>7, <2>8, <2>9 DEF BroadcastTypes, Fixed
  <1>7. ASSUME NEW p \in Members
        PROVE  /\ Phase(p)' /\ Prepared(p)' /\ Arrived(p)' /\ Loading(p)'
               /\ p \in Workers => \/ At(p)' = At(p) /\ Rest(p)' = Rest(p)
                                   \/ At(p)' = At(p) + 1
    <2>1. Phase(p)'
      BY <1>2, <1>3, <1>4 DEF Phase, Within, Fixed
    <2>2. Prepared(p)'
      BY <1>2, <1>4 DEF Prepared
    <2>3. PICK y : y = load_buffer'[p]
      OBVIOUS
    <2>4. /\ Shows(y, Places(h + 1))
          /\ backend = "overlapped" /\ h # 0 /\ Shows(load_buffer[p], Places(h))
                => Shows(y, Places(h))
      BY <1>1, <2>3, BroadcastCopies
    <2>5. Arrived(p)'
      <3>1. CASE backend = "overlapped"
        <4>1. Places(gidx[p] + 1)' = Places(h + 1)
          <5>1. gidx'[p] = h
            BY <1>4, <3>1
          <5> QED
            BY <1>3, <5>1 DEF Places, Metas, SizeOf, Start, Fixed
        <4>2. Shows(load_buffer[p], Places(gidx[p] + 1))'
          BY <1>3, <2>3, <2>4, <4>1 DEF Shows, Fixed
        <4> QED
          BY <4>2 DEF Arrived
      <3>2. CASE backend # "overlapped"
        BY <1>4, <3>2 DEF Arrived
      <3> QED
        BY <3>1, <3>2
    <2>6. CASE backend = "overlapped"
      <3>1. At(p)' = h /\ At(p) = h /\ Rest(p)' = Rest(p)
        BY <1>3, <1>4, <2>6 DEF At, Rest, Fixed
      <3>2. Places(At(p))' = Places(h) /\ schedule[At(p)]' = schedule[h]
        BY <1>3, <3>1 DEF Places, Metas, SizeOf, Start, Fixed
      <3>3. p \in Workers /\ Rest(p) # <<>> =>
                h # 0 /\ Shows(load_buffer[p], Places(h))
        BY <1>4, <3>1 DEF Loading
      <3>4. p \in Workers /\ Rest(p) # <<>> =>
                Shows(load_buffer[p], Places(At(p)))'
        <4>1. \A x, s : Shows(x, s)' <=> Shows(x, s)
          BY <1>3, ScheduleStays DEF Fixed
        <4> QED
          BY <1>3, <2>3, <2>4, <2>6, <3>1, <3>2, <3>3, <4>1
      <3>5. Loading(p)'
        <4>1. p \in Workers /\ Rest(p) # <<>> =>
                /\ h \in 1..Len(schedule)
                /\ Len(Rest(p)) <= Len(schedule[h].bucket)
                /\ \A j \in 1..Len(Rest(p)) :
                    Rest(p)[j] = Places(h)[(Len(schedule[h].bucket)
                                            - Len(Rest(p))) + j]
          BY <1>4, <3>1, Zenon DEF Loading
        <4>2. schedule' = schedule
          BY <1>3 DEF Fixed
        <4> QED
          BY <3>1, <3>2, <3>4, <4>1, <4>2 DEF Loading
      <3> QED
        BY <2>1, <2>2, <2>5, <3>1, <3>5
    <2>7. CASE backend = "broadcast" /\ p \in Workers
      <3>1. At(p)' = h + 1 /\ At(p) = h /\ Rest(p)' = Places(h + 1)
        BY <1>3, <1>4, <1>5, <2>7 DEF At, Rest, Fixed
      <3>2. PICK g : g = h + 1
        OBVIOUS
      <3>3. g \in 1..Len(schedule) /\ At(p)' = g /\ Rest(p)' = Places(g)
        BY <1>3, <3>1, <3>2
      <3>4. Loading(p)'
        BY <1>3, <2>3, <2>4, <3>2, <3>3, LoadingStarts
      <3> QED
        BY <2>1, <2>2, <2>5, <3>1, <3>4
    <2>8. CASE p \notin Workers
      BY <2>1, <2>2, <2>5, <2>8 DEF Loading
    <2> QED
      BY <1>2, <2>6, <2>7, <2>8
  <1>8. ASSUME NEW q \in Workers PROVE Handed(q)'
    <2>1. q \in Members
      BY Ranked
    <2>2. /\ Handed(q) /\ At(q) \in Int
      BY <2>1, Own
    <2>3. loaded'[q] = loaded[q]
      BY <1>3
    <2> QED
      BY <1>2, <1>3, <1>7, <2>1, <2>2, <2>3, HandedStays
  <1>9. ScheduleSound'
    BY <1>2, <1>3, ScheduleStays DEF Fixed
  <1>10. \A p \in Members : Sound(p)'
    BY <1>7 DEF Sound
  <1> QED
    BY <1>5, <1>6, <1>8, <1>9, <1>10 DEF BroadcastInv

-----------------------------------------------------------------------------
(* Every transfer.                                                         *)

LEMMA BroadcastInvNext ==
    ASSUME BroadcastInv, BroadcastNext
    PROVE  BroadcastInv'
  <1>1. CASE Broadcast \/ Barrier
    BY <1>1, KeepBroadcast, KeepBarrier
  <1>2. ASSUME NEW p \in Members, UpdateCheckpoint(p) PROVE BroadcastInv'
    BY <1>2, KeepPrepare, KeepLoadDirectly, KeepBucketLoaded, KeepRecv,
       KeepSendMetas, KeepLoopOver, KeepJoinThread DEF UpdateCheckpoint
  <1>3. ASSUME NEW p \in Members, Thread(p) PROVE BroadcastInv'
    BY <1>3, KeepThreadLoads, KeepThreadAnswers DEF Thread
  <1> QED
    BY <1>1, <1>2, <1>3 DEF BroadcastNext

LEMMA BroadcastInvStays ==
    ASSUME BroadcastInv, UNCHANGED broadcastVars
    PROVE  BroadcastInv'
  <1>1. /\ Fixed
        /\ UNCHANGED <<loaded, stage, gidx, load_buffer, views, request>>
    BY DEF broadcastVars, transferVars, Fixed
  <1>2. ScheduleSound'
    BY <1>1, ScheduleStays DEF BroadcastInv, Fixed
  <1>3. BroadcastTypes'
    BY <1>1 DEF BroadcastInv, BroadcastTypes, Fixed
  <1>4. ASSUME NEW p \in Members
        PROVE  /\ Done(p)' = Done(p) /\ Sound(p)'
               /\ Rest(p)' = Rest(p) /\ At(p)' = At(p)
    <2>1. Unmoved(p)
      BY <1>1 DEF Unmoved
    <2>2. Sound(p)
      BY DEF BroadcastInv
    <2> QED
      BY <1>1, <2>1, <2>2, UnmovedStays
  <1>5. ASSUME NEW q \in Workers PROVE Handed(q)'
    <2>1. q \in Members
      BY Ranked
    <2>2. Handed(q) /\ schedule \in Seq(Turns) /\ At(q) \in Int
      BY <2>1, Own
    <2>3. loaded'[q] = loaded[q]
      BY <1>1
    <2> QED
      BY <1>1, <1>4, <2>1, <2>2, <2>3, HandedStays
  <1>6. \A p, q \in Members : Done(p)' = Done(q)'
    BY <1>4 DEF BroadcastInv
  <1> QED
    BY <1>2, <1>3, <1>4, <1>5, <1>6 DEF BroadcastInv

LEMMA BroadcastInvIntact ==
    ASSUME BroadcastInv
    PROVE  WeightsIntact
  <1> SUFFICES ASSUME NEW q \in Workers, NEW i \in 1..Len(loaded[q])
               PROVE  /\ loaded[q][i] \in Weights
                      /\ \A j \in 1..(i - 1) : loaded[q][j] # loaded[q][i]
    BY DEF WeightsIntact
  <1>1. Handed(q) /\ ScheduleSound /\ BroadcastTypes
    BY DEF BroadcastInv
  <1>2. PICK g \in 1..Len(schedule) : \E k \in 1..Len(schedule[g].bucket) :
            loaded[q][i] = schedule[g].bucket[k]
    BY <1>1 DEF Handed
  <1>3. loaded[q][i] \in Weights
    BY <1>1, <1>2, PlacesSound
  <1>4. Len(loaded[q]) \in Nat
    BY <1>1, LenProperties DEF BroadcastTypes
  <1>5. ASSUME NEW j \in 1..(i - 1) PROVE loaded[q][j] # loaded[q][i]
    <2>1. j \in 1..Len(loaded[q]) /\ j # i
      BY <1>4
    <2> QED
      BY <1>1, <2>1 DEF Handed
  <1> QED
    BY <1>3, <1>5

\* The variables of the engines that are not configured have their types.
StreamTypes ==
    /\ buf \in [Ranks -> [{0, 1} -> [Cells -> Weights \union {0}]]]
    /\ half \in [Ranks -> {0, 1}]
    /\ packed \in 0..NumWeights
    /\ offset \in 0..BucketSize
    /\ metadata \in [Ranks -> Seq(Meta(BucketSize))]
    /\ is_last \in [Ranks -> BOOLEAN]
    /\ pc \in [Ranks -> {"fill", "first", "wait", "forward", "yield",
                         "flush", "returned"}]
    /\ inbox \in [Ranks -> Seq(Message)]

TurnTypes ==
    /\ stage \in [Members -> {"prepare", "broadcast", "load", "recv",
                              "barrier", "send", "join", "end_barrier",
                              "returned"}]
    /\ gidx \in [Members -> 0..Len(schedule)]
    /\ views \in [Members -> Seq(Meta(BucketSize))]
    /\ request \in [Members -> Request]

\* The configured engine keeps its invariant, the others are not used.
EnginesInv == (StreamInv /\ TurnTypes) \/ (BroadcastInv /\ StreamTypes)

LEMMA EnginesInvInit == Init => EnginesInv
  <1> SUFFICES ASSUME Init PROVE EnginesInv
    OBVIOUS
  <1>1. TransferInit /\ StreamInit /\ BroadcastInit
    BY DEF Init
  <1>2. StreamTypes
    <2>1. packed \in 0..NumWeights /\ offset \in 0..BucketSize
      BY <1>1, Sizes DEF StreamInit
    <2>2. /\ metadata \in [Ranks -> Seq(Meta(BucketSize))]
          /\ inbox \in [Ranks -> Seq(Message)]
      BY <1>1 DEF StreamInit
    <2>3. /\ buf \in [Ranks -> [{0, 1} -> [Cells -> Weights \union {0}]]]
          /\ half \in [Ranks -> {0, 1}]
          /\ is_last \in [Ranks -> BOOLEAN]
          /\ pc \in [Ranks -> {"fill", "first", "wait", "forward", "yield",
                               "flush", "returned"}]
      BY <1>1 DEF StreamInit
    <2> QED
      BY <2>1, <2>2, <2>3 DEF StreamTypes
  <1>3. TurnTypes
    <2>1. size \in [Weights -> Cells]
      BY <1>1 DEF TransferInit
    <2>2. ScheduleSound
      BY <1>1, <2>1, ScheduleInit DEF BroadcastInit
    <2>3. Len(schedule) \in Nat
      BY <2>2, LenProperties DEF ScheduleSound
    <2>4. /\ stage \in [Members -> {"prepare", "broadcast", "load", "recv",
                                    "barrier", "send", "join", "end_barrier",
                                    "returned"}]
          /\ gidx \in [Members -> 0..Len(schedule)]
      BY <1>1, <2>3 DEF BroadcastInit
    <2>5. views \in [Members -> Seq(Meta(BucketSize))]
      BY <1>1 DEF BroadcastInit
    <2>6. request \in [Members -> Request]
      BY <1>1 DEF BroadcastInit, Request
    <2> QED
      BY <2>4, <2>5, <2>6 DEF TurnTypes
  <1>4. CASE Streams
    BY <1>1, <1>3, <1>4, StreamInvInit DEF EnginesInv
  <1>5. CASE ~Streams
    BY <1>1, <1>2, <1>5, BroadcastInvInit DEF EnginesInv
  <1> QED
    BY <1>4, <1>5

LEMMA EnginesInvNext == EnginesInv /\ [Next]_engineVars => EnginesInv'
  <1> SUFFICES ASSUME EnginesInv, [Next]_engineVars PROVE EnginesInv'
    OBVIOUS
  <1>1. /\ StreamInv => Streams
        /\ BroadcastInv => ~Streams
    BY DEF StreamInv, Types, BroadcastInv, BroadcastTypes, Streams
  <1>2. CASE StreamInv /\ TurnTypes
    <2>1. UNCHANGED <<schedule, stage, gidx, views, request>>
      BY <1>1, <1>2
         DEF Next, StreamStep, BroadcastStep, engineVars, broadcastVars
    <2>2. TurnTypes'
      BY <1>2, <2>1 DEF TurnTypes, Request, Meta
    <2>3. StreamNext \/ UNCHANGED streamVars
      BY <1>1, <1>2 DEF Next, StreamStep, BroadcastStep, engineVars
    <2>4. StreamInv'
      BY <1>2, <2>3, StreamInvNext, StreamInvStays
    <2> QED
      BY <2>2, <2>4 DEF EnginesInv
  <1>3. CASE BroadcastInv /\ StreamTypes
    <2>1. UNCHANGED <<buf, half, packed, offset, metadata, is_last, pc, inbox>>
      BY <1>1, <1>3
         DEF Next, StreamStep, BroadcastStep, engineVars, streamVars
    <2>2. StreamTypes'
      BY <1>3, <2>1 DEF StreamTypes, Message, Meta
    <2>3. BroadcastNext \/ UNCHANGED broadcastVars
      BY <1>1, <1>3 DEF Next, StreamStep, BroadcastStep, engineVars
    <2>4. BroadcastInv'
      BY <1>3, <2>3, BroadcastInvNext, BroadcastInvStays
    <2> QED
      BY <2>2, <2>4 DEF EnginesInv
  <1> QED
    BY <1>2, <1>3 DEF EnginesInv

\* The variables have their types and no bucket overruns its buffer, in any
\* engine, for any number of processes, weights and cells: the metadata that
\* register_checkpoint, send_weights and the messages carry stay within it.
THEOREM EnginesTypeOK == Spec => []TypeOK
  <1>1. EnginesInv => TypeOK
    <2>1. ASSUME StreamInv, TurnTypes PROVE TypeOK
      <3>1. backend \in Backends
        BY <2>1 DEF StreamInv, Types, Backends
      <3>2. Note = Message
        BY DEF Note, Message, Place
      <3> QED
        BY <2>1, <3>1, <3>2
           DEF StreamInv, Types, TurnTypes, TypeOK, Request, Place, Halves
    <2>2. ASSUME BroadcastInv, StreamTypes PROVE TypeOK
      <3>1. backend \in Backends
        BY <2>2 DEF BroadcastInv, BroadcastTypes, Backends
      <3> QED
        BY <2>2, <3>1
           DEF BroadcastInv, BroadcastTypes, StreamTypes, TypeOK, Request
    <2> QED
      BY <2>1, <2>2 DEF EnginesInv
  <1> QED
    BY <1>1, EnginesInvInit, EnginesInvNext, PTL DEF Spec

\* Every weight that a worker is handed, by any engine, is whole and handed
\* once, for any number of workers, trainer processes, weights and sizes of
\* weights and buckets, although the buckets are written again while the
\* weights travel and the model loads from them.
THEOREM EnginesKeepWeights == Spec => []WeightsIntact
  <1>1. EnginesInv => WeightsIntact
    BY StreamInvIntact, BroadcastInvIntact DEF EnginesInv
  <1> QED
    BY <1>1, EnginesInvInit, EnginesInvNext, PTL DEF Spec

\* A streaming engine (NCCL, NIXL) hands the weights over in the order in
\* which the trainer sends them.
InTrainersOrder ==
    Streams => \A q \in Workers : \A i \in 1..Len(loaded[q]) : loaded[q][i] = i

THEOREM StreamsKeepOrder == Spec => []InTrainersOrder
  <1>1. EnginesInv => InTrainersOrder
    BY DEF EnginesInv, InTrainersOrder, StreamInv, Order, BroadcastInv,
           BroadcastTypes, Streams
  <1> QED
    BY <1>1, EnginesInvInit, EnginesInvNext, PTL DEF Spec

\* The processes of an engine that broadcasts never drift apart: they have
\* the same number of broadcasts behind them, so that a collective is never
\* called for two different buckets.
InStep == ~Streams => \A p, q \in Members : Done(p) = Done(q)

THEOREM BroadcastsInStep == Spec => []InStep
  <1>1. EnginesInv => InStep
    BY DEF EnginesInv, InStep, StreamInv, Types, BroadcastInv, Streams
  <1> QED
    BY <1>1, EnginesInvInit, EnginesInvNext, PTL DEF Spec
=============================================================================
