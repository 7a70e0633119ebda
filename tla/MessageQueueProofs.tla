------------------------- MODULE MessageQueueProofs -------------------------
(***************************************************************************)
(* Proofs about MessageQueue, for every queue size, every number of        *)
(* samples and every set of consumers.                                     *)
(***************************************************************************)
EXTENDS MessageQueue, SequenceTheorems, TLAPS

\* The invariants together are inductive: the order of deliveries rests on
\* the order in the queue, and that one on the count of samples put.
Inv ==
    /\ TypeOK
    /\ CountersAddUp
    /\ HoldsNewest
    /\ DeliveredInOrder
    /\ NoLostWakeup

-----------------------------------------------------------------------------
(* The helpers on the deque.                                               *)

\* The sequence s is a run of consecutive numbers up to top.
RunUpTo(s, top) == \A i \in 1..Len(s) : s[i] = top - Len(s) + i

\* Appending the next number keeps the run.
LEMMA AppendToRun ==
    ASSUME NEW S, NEW s \in Seq(S), NEW top \in Nat, top + 1 \in S,
           RunUpTo(s, top)
    PROVE  /\ Append(s, top + 1) \in Seq(S)
           /\ Len(Append(s, top + 1)) = Len(s) + 1
           /\ RunUpTo(Append(s, top + 1), top + 1)
  <1>1. Len(s) \in Nat
    BY LenProperties
  <1>2. /\ Append(s, top + 1) \in Seq(S)
        /\ Len(Append(s, top + 1)) = Len(s) + 1
        /\ \A i \in 1..Len(s) : Append(s, top + 1)[i] = s[i]
        /\ Append(s, top + 1)[Len(s) + 1] = top + 1
    BY AppendProperties
  <1>3. ASSUME NEW i \in 1..(Len(s) + 1)
        PROVE  Append(s, top + 1)[i] = top + 1 - (Len(s) + 1) + i
    <2>1. CASE i = Len(s) + 1
      BY <1>1, <1>2, <2>1
    <2>2. CASE i # Len(s) + 1
      <3>1. i \in 1..Len(s)
        BY <1>1, <2>2
      <3> QED
        BY <1>1, <1>2, <3>1 DEF RunUpTo
    <2> QED
      BY <2>1, <2>2
  <1> QED
    BY <1>2, <1>3 DEF RunUpTo

\* Removing the oldest number keeps the run, which began with it.
LEMMA TailOfRun ==
    ASSUME NEW S, NEW s \in Seq(S), s # <<>>, NEW top \in Nat,
           RunUpTo(s, top)
    PROVE  /\ Head(s) \in S
           /\ Head(s) = top - Len(s) + 1
           /\ Tail(s) \in Seq(S)
           /\ Len(Tail(s)) = Len(s) - 1
           /\ Len(Tail(s)) \in Nat
           /\ RunUpTo(Tail(s), top)
  <1>1. Len(s) \in Nat \ {0}
    BY EmptySeq
  <1>2. /\ Head(s) \in S
        /\ Tail(s) \in Seq(S)
        /\ Len(Tail(s)) = Len(s) - 1
        /\ \A i \in 1..Len(Tail(s)) : Tail(s)[i] = s[i + 1]
    BY HeadTailProperties
  <1>3. Head(s) = s[1]
    OBVIOUS
  <1>4. s[1] = top - Len(s) + 1
    BY <1>1 DEF RunUpTo
  <1>5. ASSUME NEW i \in 1..(Len(s) - 1)
        PROVE  Tail(s)[i] = top - (Len(s) - 1) + i
    BY <1>1, <1>2 DEF RunUpTo
  <1> QED
    BY <1>1, <1>2, <1>3, <1>4, <1>5 DEF RunUpTo

\* The deque after put_sample: typed, bounded, shorter only by what is
\* counted as dropped, and still a run, up to the new sample.
LEMMA PushedProperties ==
    ASSUME TypeOK, HoldsNewest, total_produced < MaxProduced
    PROVE  /\ Pushed(total_produced + 1) \in Seq(1..MaxProduced)
           /\ Len(Pushed(total_produced + 1)) = Len(queue) + 1 - Dropped
           /\ Len(Pushed(total_produced + 1)) <= MaxQueueSize
           /\ RunUpTo(Pushed(total_produced + 1), total_produced + 1)
           /\ Dropped \in 0..1
  <1>1. /\ total_produced \in Nat
        /\ total_produced + 1 \in 1..MaxProduced
        /\ queue \in Seq(1..MaxProduced)
        /\ Len(queue) \in Nat
        /\ Len(queue) <= MaxQueueSize
        /\ RunUpTo(queue, total_produced)
    BY MaxProducedAssumption DEF TypeOK, HoldsNewest, RunUpTo
  <1>2. CASE IsFull
    <2>1. queue # <<>> /\ Len(queue) = MaxQueueSize
      BY <1>1, <1>2, MaxQueueSizeAssumption, EmptySeq DEF IsFull
    <2>2. /\ Tail(queue) \in Seq(1..MaxProduced)
          /\ Len(Tail(queue)) = Len(queue) - 1
          /\ RunUpTo(Tail(queue), total_produced)
      BY <1>1, <2>1, TailOfRun
    <2>3. /\ Append(Tail(queue), total_produced + 1) \in Seq(1..MaxProduced)
          /\ Len(Append(Tail(queue), total_produced + 1))
                = Len(Tail(queue)) + 1
          /\ RunUpTo(Append(Tail(queue), total_produced + 1),
                     total_produced + 1)
      BY <1>1, <2>2, AppendToRun
    <2>4. /\ Pushed(total_produced + 1)
                = Append(Tail(queue), total_produced + 1)
          /\ Dropped = 1
      BY <1>2 DEF Pushed, Dropped
    <2>5. /\ Pushed(total_produced + 1) \in Seq(1..MaxProduced)
          /\ RunUpTo(Pushed(total_produced + 1), total_produced + 1)
      BY <2>3, <2>4, Zenon
    <2>6. /\ Len(Pushed(total_produced + 1)) = Len(queue) + 1 - Dropped
          /\ Len(Pushed(total_produced + 1)) <= MaxQueueSize
      BY <1>1, <2>1, <2>2, <2>3, <2>4
    <2> QED
      BY <2>4, <2>5, <2>6
  <1>3. CASE ~IsFull
    <2>1. /\ Pushed(total_produced + 1) = Append(queue, total_produced + 1)
          /\ Dropped = 0
      BY <1>3 DEF Pushed, Dropped
    <2>2. Len(queue) + 1 <= MaxQueueSize
      BY <1>1, <1>3, MaxQueueSizeAssumption DEF IsFull
    <2>3. /\ Append(queue, total_produced + 1) \in Seq(1..MaxProduced)
          /\ Len(Append(queue, total_produced + 1)) = Len(queue) + 1
          /\ RunUpTo(Append(queue, total_produced + 1), total_produced + 1)
      BY <1>1, AppendToRun
    <2>4. /\ Pushed(total_produced + 1) \in Seq(1..MaxProduced)
          /\ RunUpTo(Pushed(total_produced + 1), total_produced + 1)
      BY <2>1, <2>3, Zenon
    <2>5. /\ Len(Pushed(total_produced + 1)) = Len(queue) + 1 - Dropped
          /\ Len(Pushed(total_produced + 1)) <= MaxQueueSize
      BY <1>1, <2>1, <2>2, <2>3
    <2> QED
      BY <2>1, <2>4, <2>5
  <1> QED
    BY <1>2, <1>3

-----------------------------------------------------------------------------
(* The actions keep the invariant.                                         *)

\* HoldsNewest says that the deque is a run up to the last sample put.
LEMMA NewestIsRun ==
    HoldsNewest <=> RunUpTo(queue, total_produced)
  BY DEF HoldsNewest, RunUpTo

\* Samples are numbers.
LEMMA DeliveredNumbers ==
    ASSUME TypeOK
    PROVE  /\ Len(delivered) \in Nat
           /\ \A i \in 1..Len(delivered) : delivered[i] \in Nat
  <1>1. delivered \in Seq(1..MaxProduced)
    BY DEF TypeOK
  <1>2. ASSUME NEW i \in 1..Len(delivered)
        PROVE  delivered[i] \in Nat
    <2>1. delivered[i] \in 1..MaxProduced
      BY <1>1, ElementOfSeq
    <2> QED
      BY <2>1, MaxProducedAssumption
  <1> QED
    BY <1>1, <1>2, LenProperties

\* An attempt that finds a sample.
LEMMA TakeKeepsInv ==
    ASSUME Inv, NEW c \in Consumers, queue # <<>>, PopLeft,
           total_consumed' = total_consumed + 1,
           getter' = [getter EXCEPT ![c] = "idle"],
           UNCHANGED <<running, total_produced, dropped_samples, cleared>>
    PROVE  Inv'
  <1> USE DEF Inv
  <1>1. /\ queue \in Seq(1..MaxProduced)
        /\ Len(queue) \in Nat
        /\ delivered \in Seq(1..MaxProduced)
        /\ total_produced \in Nat
        /\ total_consumed \in Nat /\ dropped_samples \in Nat
        /\ cleared \in Nat
    BY DEF TypeOK
  <1>2. /\ Head(queue) \in 1..MaxProduced
        /\ Head(queue) = total_produced - Len(queue) + 1
        /\ Tail(queue) \in Seq(1..MaxProduced)
        /\ Len(Tail(queue)) = Len(queue) - 1
        /\ Len(Tail(queue)) \in Nat
        /\ RunUpTo(Tail(queue), total_produced)
    BY <1>1, TailOfRun, NewestIsRun
  <1>3. /\ Append(delivered, Head(queue)) \in Seq(1..MaxProduced)
        /\ Len(Append(delivered, Head(queue))) = Len(delivered) + 1
        /\ Len(delivered) \in Nat
        /\ \A i \in 1..Len(delivered) :
                Append(delivered, Head(queue))[i] = delivered[i]
        /\ Append(delivered, Head(queue))[Len(delivered) + 1] = Head(queue)
    BY <1>1, <1>2, AppendProperties, LenProperties
  <1>4. queue' = Tail(queue) /\ delivered' = Append(delivered, Head(queue))
    BY DEF PopLeft
  <1>5. TypeOK'
    <2>1. getter' \in [Consumers -> GetterState]
      BY DEF TypeOK, GetterState
    <2>2. /\ queue' \in Seq(1..MaxProduced) /\ delivered' \in Seq(1..MaxProduced)
          /\ Len(queue') <= MaxQueueSize
      BY <1>1, <1>2, <1>3, <1>4, MaxQueueSizeAssumption DEF TypeOK
    <2> QED
      BY <1>1, <2>1, <2>2 DEF TypeOK
  <1>6. CountersAddUp'
    BY <1>1, <1>2, <1>4 DEF CountersAddUp
  <1>7. HoldsNewest'
    BY <1>2, <1>4 DEF HoldsNewest, RunUpTo
  <1>8. DeliveredInOrder'
    <2>1. \A i \in 1..Len(delivered) : /\ delivered[i] \in Nat
                                       /\ delivered[i] < Head(queue)
      BY <1>1, <1>2, DeliveredNumbers DEF DeliveredInOrder
    <2>2. ASSUME NEW i \in 1..(Len(delivered) + 1)
          PROVE  delivered'[i] <= total_produced' - Len(queue')
      BY <1>1, <1>2, <1>3, <1>4, <2>1
    <2>3. ASSUME NEW i \in 1..(Len(delivered) + 1),
                 NEW j \in 1..(Len(delivered) + 1), i < j
          PROVE  delivered'[i] < delivered'[j]
      <3>1. i \in 1..Len(delivered)
        BY <1>3, <2>3
      <3>2. CASE j = Len(delivered) + 1
        BY <1>3, <1>4, <2>1, <3>1, <3>2
      <3>3. CASE j # Len(delivered) + 1
        <4>1. j \in 1..Len(delivered)
          BY <1>3, <3>3
        <4> QED
          BY <1>3, <1>4, <2>3, <3>1, <4>1 DEF DeliveredInOrder
      <3> QED
        BY <3>2, <3>3
    <2> QED
      BY <1>3, <1>4, <2>2, <2>3 DEF DeliveredInOrder
  <1>9. NoLostWakeup'
    <2>1. \A d \in Consumers : getter'[d] # "waiting"
      BY DEF NoLostWakeup, TypeOK
    <2> QED
      BY <2>1 DEF NoLostWakeup
  <1> QED
    BY <1>5, <1>6, <1>7, <1>8, <1>9

\* One pass of get_sample, first or later.
LEMMA AttemptKeepsInv ==
    ASSUME Inv, NEW c \in Consumers, Attempt(c)
    PROVE  Inv'
  <1>1. CASE queue # <<>>
    BY <1>1, TakeKeepsInv DEF Attempt
  <1>2. CASE queue = <<>>
    <2>1. /\ getter' = [getter EXCEPT ![c] =
                            IF running THEN "waiting" ELSE "closed"]
          /\ UNCHANGED <<queue, delivered, total_consumed, running,
                         total_produced, dropped_samples, cleared>>
      BY <1>2 DEF Attempt
    <2>2. TypeOK'
      BY <2>1 DEF Inv, TypeOK, GetterState
    <2>3. NoLostWakeup'
      BY <1>2, <2>1 DEF Inv, TypeOK, NoLostWakeup
    <2> QED
      BY <2>1, <2>2, <2>3
      DEF Inv, CountersAddUp, HoldsNewest, DeliveredInOrder
  <1> QED
    BY <1>1, <1>2

\* put_sample.
LEMMA PutKeepsInv ==
    ASSUME Inv, PutNext
    PROVE  Inv'
  <1> USE DEF Inv
  <1>1. /\ total_produced < MaxProduced
        /\ queue' = Pushed(total_produced + 1)
        /\ dropped_samples' = dropped_samples + Dropped
        /\ total_produced' = total_produced + 1
        /\ NotifyAll
        /\ UNCHANGED <<running, total_consumed, cleared, delivered>>
    BY DEF PutNext, PutSample
  <1>2. /\ queue' \in Seq(1..MaxProduced)
        /\ Len(queue') = Len(queue) + 1 - Dropped
        /\ Len(queue') <= MaxQueueSize
        /\ Dropped \in 0..1
    BY <1>1, PushedProperties
  <1>3. /\ total_produced \in Nat /\ total_produced' \in 0..MaxProduced
        /\ total_consumed \in Nat /\ dropped_samples \in Nat
        /\ cleared \in Nat /\ Len(queue) \in Nat /\ Len(queue') \in Nat
        /\ delivered \in Seq(1..MaxProduced)
    BY <1>1, <1>2, MaxProducedAssumption, LenProperties DEF TypeOK
  <1>4. TypeOK'
    <2>1. getter' \in [Consumers -> GetterState]
      BY <1>1 DEF NotifyAll, TypeOK, GetterState
    <2>2. dropped_samples' \in Nat
      BY <1>1, <1>2, <1>3
    <2> QED
      BY <1>1, <1>2, <1>3, <2>1, <2>2 DEF TypeOK
  <1>5. CountersAddUp'
    BY <1>1, <1>2, <1>3 DEF CountersAddUp
  <1>6. HoldsNewest'
    <2>1. RunUpTo(Pushed(total_produced + 1), total_produced + 1)
      BY <1>1, PushedProperties
    <2> QED
      BY <1>1, <2>1 DEF HoldsNewest, RunUpTo
  <1>7. DeliveredInOrder'
    <2>1. \A i \in 1..Len(delivered) : delivered[i] \in Nat
      BY DeliveredNumbers
    <2>2. total_produced' - Len(queue') >= total_produced - Len(queue)
      BY <1>1, <1>2, <1>3
    <2> QED
      BY <1>1, <1>2, <1>3, <2>1, <2>2 DEF DeliveredInOrder
  <1>8. NoLostWakeup'
    BY <1>1 DEF NotifyAll, NoLostWakeup, TypeOK
  <1> QED
    BY <1>4, <1>5, <1>6, <1>7, <1>8

\* Every step keeps the invariant.
LEMMA NextKeepsInv == Inv /\ [Next]_vars => Inv'
  <1> SUFFICES ASSUME Inv, [Next]_vars PROVE Inv'
    OBVIOUS
  <1>1. CASE PutNext
    BY <1>1, PutKeepsInv
  <1>2. ASSUME NEW c \in Consumers, GetSample(c) \/ ResumeGet(c)
        PROVE  Inv'
    BY <1>2, AttemptKeepsInv DEF GetSample, ResumeGet
  <1>3. CASE ClearQueue
    <2>1. /\ Len(queue) \in Nat /\ Len(queue') = 0
          /\ queue' \in Seq(1..MaxProduced) /\ queue' = <<>>
          /\ \A i \in 1..Len(delivered) : delivered[i] \in Nat
      BY <1>3, EmptySeq, LenProperties, DeliveredNumbers
      DEF ClearQueue, Inv, TypeOK
    <2>2. TypeOK'
      BY <1>3, <2>1, MaxQueueSizeAssumption DEF ClearQueue, Inv, TypeOK
    <2>3. CountersAddUp' /\ HoldsNewest' /\ NoLostWakeup'
      BY <1>3, <2>1
      DEF ClearQueue, Inv, TypeOK, CountersAddUp, HoldsNewest, NoLostWakeup
    <2>4. DeliveredInOrder'
      BY <1>3, <2>1 DEF ClearQueue, Inv, TypeOK, DeliveredInOrder
    <2> QED
      BY <2>2, <2>3, <2>4 DEF Inv
  <1>4. CASE Shutdown
    <2>1. TypeOK'
      BY <1>4 DEF Shutdown, NotifyAll, Inv, TypeOK, GetterState
    <2>2. NoLostWakeup'
      BY <1>4 DEF Shutdown, NotifyAll, Inv, TypeOK, NoLostWakeup
    <2> QED
      BY <1>4, <2>1, <2>2
      DEF Shutdown, Inv, CountersAddUp, HoldsNewest, DeliveredInOrder
  <1>5. CASE UNCHANGED vars
    BY <1>5 DEF vars, Inv, TypeOK, CountersAddUp, HoldsNewest,
                DeliveredInOrder, NoLostWakeup
  <1> QED
    BY <1>1, <1>2, <1>3, <1>4, <1>5 DEF Next

\* The conjunction of the invariants holds in every reachable state.
LEMMA InvHolds == Spec => []Inv
  <1>1. Init => Inv
    <2> SUFFICES ASSUME Init PROVE Inv
      OBVIOUS
    <2>1. TypeOK
      BY EmptySeq, MaxQueueSizeAssumption, MaxProducedAssumption
      DEF Init, TypeOK, GetterState
    <2>2. CountersAddUp /\ HoldsNewest /\ DeliveredInOrder
      BY EmptySeq DEF Init, CountersAddUp, HoldsNewest, DeliveredInOrder
    <2>3. NoLostWakeup
      BY DEF Init, NoLostWakeup
    <2> QED
      BY <2>1, <2>2, <2>3 DEF Inv
  <1> QED
    BY <1>1, NextKeepsInv, PTL DEF Spec

-----------------------------------------------------------------------------
(* The invariants of the runs.                                             *)

\* Every variable of the message queue actor keeps its type, and the deque
\* its bound.
THEOREM QueueTypeOK == Spec => []TypeOK
  BY InvHolds, PTL DEF Inv

\* Every sample put is consumed, dropped, cleared or in the queue, according
\* to the counters that get_statistics reports.
THEOREM QueueCounters == Spec => []CountersAddUp
  BY InvHolds, PTL DEF Inv

\* Overflow and consumption take the oldest samples only.
THEOREM QueueHoldsNewest == Spec => []HoldsNewest
  BY InvHolds, PTL DEF Inv

\* Samples are delivered in order and once, to however many consumers.
THEOREM QueueDeliversInOrder == Spec => []DeliveredInOrder
  BY InvHolds, PTL DEF Inv

\* No consumer sleeps in get_sample beside a sample or after shutdown.
THEOREM QueueLosesNoWakeup == Spec => []NoLostWakeup
  BY InvHolds, PTL DEF Inv

-----------------------------------------------------------------------------
(* The queue implements the sample feed.                                   *)

Held == {queue[i] : i \in 1..Len(queue)}

\* The numbers of a run are an interval.
LEMMA RunIsInterval ==
    ASSUME NEW S, NEW s \in Seq(S), NEW top \in Nat, RunUpTo(s, top)
    PROVE  {s[i] : i \in 1..Len(s)} = (top - Len(s) + 1)..top
  <1>1. Len(s) \in Nat
    BY LenProperties
  <1>2. ASSUME NEW x \in (top - Len(s) + 1)..top
        PROVE  \E i \in 1..Len(s) : s[i] = x
    <2>1. /\ x - top + Len(s) \in 1..Len(s)
          /\ top - Len(s) + (x - top + Len(s)) = x
      BY <1>1
    <2> QED
      BY <2>1 DEF RunUpTo
  <1>3. ASSUME NEW i \in 1..Len(s)
        PROVE  s[i] \in (top - Len(s) + 1)..top
    BY <1>1 DEF RunUpTo
  <1> QED
    BY <1>2, <1>3

\* The oldest sample of an interval is its first.
LEMMA OldestOfInterval ==
    ASSUME NEW first \in Int, NEW last \in Int, first <= last
    PROVE  /\ \A s : Feed!IsOldest(s, first..last) <=> s = first
           /\ (first..last) \ {first} = (first + 1)..last
  <1>1. ASSUME NEW s
        PROVE  Feed!IsOldest(s, first..last) <=> s = first
    <2>1. first \in first..last /\ \A t \in first..last : first <= t
      OBVIOUS
    <2>2. ASSUME s \in first..last, \A t \in first..last : s <= t
          PROVE  s = first
      BY <2>1, <2>2
    <2> QED
      BY <2>1, <2>2 DEF Feed!IsOldest
  <1>2. (first..last) \ {first} = (first + 1)..last
    OBVIOUS
  <1> QED
    BY <1>1, <1>2

\* What the feed holds: the samples from first to last.
LEMMA HeldIsInterval ==
    ASSUME Inv
    PROVE  /\ Held = (total_produced - Len(queue) + 1)..total_produced
           /\ total_produced \in Nat /\ Len(queue) \in Nat
           /\ Len(queue) <= MaxQueueSize
  <1>1. /\ queue \in Seq(1..MaxProduced) /\ total_produced \in Nat
        /\ Len(queue) \in Nat
        /\ RunUpTo(queue, total_produced)
    BY LenProperties, NewestIsRun DEF Inv, TypeOK
  <1>2. Held = (total_produced - Len(queue) + 1)..total_produced
    BY <1>1, RunIsInterval DEF Held
  <1> QED
    BY <1>1, <1>2 DEF Inv, TypeOK

\* put_sample sends.
LEMMA PutIsSend ==
    ASSUME Inv, Inv', PutNext
    PROVE  Feed!Send
  <1> DEFINE n == Len(queue)
  <1> DEFINE top == total_produced
  <1>1. /\ Held = (top - n + 1)..top
        /\ top \in Nat /\ n \in Nat /\ n <= MaxQueueSize
    BY HeldIsInterval
  <1>2. /\ total_produced' = top + 1
        /\ delivered' = delivered
        /\ Len(queue') = n + 1 - Dropped
        /\ Dropped = IF n >= MaxQueueSize THEN 1 ELSE 0
    BY PushedProperties DEF PutNext, PutSample, Inv, Dropped, IsFull
  <1>3. Held' = (total_produced' - Len(queue') + 1)..total_produced'
    <2>1. /\ queue' \in Seq(1..MaxProduced) /\ total_produced' \in Nat
      BY DEF Inv, TypeOK
    <2>2. RunUpTo(queue', total_produced')
      BY DEF Inv, HoldsNewest, RunUpTo
    <2> QED
      BY <2>1, <2>2, RunIsInterval DEF Held
  <1>4. Held' = {s \in Held \union {top + 1} : s > top + 1 - MaxQueueSize}
    <2>1. CASE n < MaxQueueSize
      <3>1. Dropped = 0
        BY <1>1, <1>2, <2>1, MaxQueueSizeAssumption
      <3> QED
        BY <1>1, <1>2, <1>3, <2>1, <3>1, MaxQueueSizeAssumption
    <2>2. CASE n = MaxQueueSize
      <3>1. Dropped = 1
        BY <1>1, <1>2, <2>2
      <3> QED
        BY <1>1, <1>2, <1>3, <2>2, <3>1, MaxQueueSizeAssumption
    <2> QED
      BY <1>1, <2>1, <2>2, MaxQueueSizeAssumption
  <1> QED
    BY <1>2, <1>4 DEF Feed!Send, Held

\* get_sample receives, or changes nothing the feed sees.
LEMMA AttemptIsReceive ==
    ASSUME Inv, Inv', NEW c \in Consumers, Attempt(c)
    PROVE  Feed!Receive \/ UNCHANGED Feed!vars
  <1>1. CASE queue # <<>>
    <2> DEFINE first == total_produced - Len(queue) + 1
    <2>1. /\ Held = first..total_produced
          /\ total_produced \in Nat /\ Len(queue) \in Nat
      BY HeldIsInterval
    <2>2. /\ queue' = Tail(queue)
          /\ delivered' = Append(delivered, Head(queue))
          /\ total_produced' = total_produced
      BY <1>1 DEF Attempt, PopLeft
    <2>3. /\ queue \in Seq(1..MaxProduced)
          /\ RunUpTo(queue, total_produced)
      BY NewestIsRun DEF Inv, TypeOK
    <2>4. /\ Head(queue) = first
          /\ Tail(queue) \in Seq(1..MaxProduced)
          /\ Len(Tail(queue)) = Len(queue) - 1
          /\ RunUpTo(Tail(queue), total_produced)
      BY <1>1, <2>1, <2>3, TailOfRun
    <2>5. {Tail(queue)[i] : i \in 1..Len(Tail(queue))}
            = (total_produced - Len(Tail(queue)) + 1)..total_produced
      BY <2>1, <2>4, RunIsInterval
    <2>6. Len(queue) >= 1
      BY <1>1, <2>3, EmptySeq
    <2>7. /\ first \in Held
          /\ Feed!IsOldest(first, Held)
          /\ Held \ {first} = (first + 1)..total_produced
      <3>1. first \in Int /\ total_produced \in Int /\ first <= total_produced
        BY <2>1, <2>6
      <3> QED
        BY <2>1, <3>1, OldestOfInterval
    <2>8. Held' = Held \ {first}
      <3>1. Held' = {Tail(queue)[i] : i \in 1..Len(Tail(queue))}
        BY <2>2 DEF Held
      <3>2. total_produced - Len(Tail(queue)) + 1 = first + 1
        BY <2>1, <2>4
      <3> QED
        BY <2>5, <2>7, <3>1, <3>2
    <2>9. /\ Held' = Held \ {first}
          /\ delivered' = Append(delivered, first)
          /\ total_produced' = total_produced
      BY <2>2, <2>4, <2>8
    <2>10. Feed!Receive <=>
            \E s \in Held : /\ Feed!IsOldest(s, Held)
                            /\ Held' = Held \ {s}
                            /\ delivered' = Append(delivered, s)
                            /\ UNCHANGED total_produced
      BY DEF Feed!Receive, Held
    <2> QED
      BY <2>7, <2>9, <2>10
  <1>2. CASE queue = <<>>
    BY <1>2 DEF Attempt, Feed!vars
  <1> QED
    BY <1>1, <1>2

\* The message queue implements the sample feed: it never holds more than its
\* size, gives up the oldest sample when it overflows, and hands out the
\* others oldest first, each to one consumer.
THEOREM QueueImplementsFeed == Spec => FeedSpec
  <1>1. Init => Feed!Init
    BY EmptySeq DEF Init, Feed!Init
  <1>2. Inv /\ Inv' /\ [Next]_vars => [Feed!Next]_(Feed!vars)
    <2> SUFFICES ASSUME Inv, Inv', [Next]_vars
                 PROVE  Feed!Next \/ UNCHANGED Feed!vars
      OBVIOUS
    <2>1. CASE PutNext
      BY <2>1, PutIsSend DEF Feed!Next
    <2>2. ASSUME NEW c \in Consumers, GetSample(c) \/ ResumeGet(c)
          PROVE  Feed!Next \/ UNCHANGED Feed!vars
      BY <2>2, AttemptIsReceive DEF GetSample, ResumeGet, Feed!Next
    <2>3. CASE ClearQueue
      BY <2>3 DEF ClearQueue, Feed!Next, Feed!Discard
    <2>4. CASE Shutdown
      BY <2>4 DEF Shutdown, Feed!vars
    <2>5. CASE UNCHANGED vars
      BY <2>5 DEF vars, Feed!vars
    <2> QED
      BY <2>1, <2>2, <2>3, <2>4, <2>5 DEF Next
  <1> QED
    BY <1>1, <1>2, InvHolds, PTL DEF Spec, FeedSpec, Feed!Spec
=============================================================================
