---------------------------- MODULE MessageQueue ----------------------------
(***************************************************************************)
(* The MessageQueue actor between the Rollouter and the Trainer            *)
(* (verl/experimental/fully_async_policy/message_queue.py).                *)
(*                                                                         *)
(* The methods are coroutines of one actor and take the same asyncio lock. *)
(* None of them suspends while it holds the lock except get_sample, whose  *)
(* condition wait releases it; so each method is one step, and get_sample  *)
(* is one step per attempt.  The statistics it only reports, the parameter *)
(* version it only stores and the queue of validation metrics are left     *)
(* out.                                                                    *)
(***************************************************************************)
EXTENDS Integers, Sequences

CONSTANTS
    MaxQueueSize, \* max_queue_size
    Consumers,    \* callers of get_sample
    MaxProduced   \* bound: samples put during a run

ASSUME MaxQueueSizeAssumption == MaxQueueSize \in Nat \ {0}
ASSUME MaxProducedAssumption == MaxProduced \in Nat

VARIABLES
    queue,           \* deque of samples, oldest first
    running,
    total_produced,
    total_consumed,
    dropped_samples,
    cleared,         \* samples removed by clear_queue (not kept by the code)
    getter,          \* where each caller of get_sample is
    delivered        \* the samples returned, in that order (history)

vars == <<queue, running, total_produced, total_consumed, dropped_samples,
          cleared, getter, delivered>>

GetterState ==
    {"idle",     \* no call, or the last one returned a sample
     "waiting",  \* suspended in the condition
     "notified", \* woken, not yet back under the lock
     "closed"}   \* the last call returned None: closed and empty

Init ==
    /\ queue = <<>>
    /\ running = TRUE
    /\ total_produced = 0
    /\ total_consumed = 0
    /\ dropped_samples = 0
    /\ cleared = 0
    /\ getter = [c \in Consumers |-> "idle"]
    /\ delivered = <<>>

\* Mutant: one more sample than max_queue_size.
IsFullOffByOne == Len(queue) > MaxQueueSize

IsFull == Len(queue) >= MaxQueueSize

\* Mutant: a full queue refuses the new sample.
PushedIfRoom(sample) == IF IsFull THEN queue ELSE Append(queue, sample)

\* The deque after a push: a full one loses its oldest sample first.
Pushed(sample) == Append(IF IsFull THEN Tail(queue) ELSE queue, sample)

\* Mutant: the sample pushed out of the deque is not counted.
NeverDropped == 0

Dropped == IF IsFull THEN 1 ELSE 0

\* Mutant: only the lock is taken, nobody is woken.
NotifyNone == UNCHANGED getter

\* Condition.notify_all: every waiter is woken.
NotifyAll ==
    getter' = [c \in Consumers |->
                IF getter[c] = "waiting" THEN "notified" ELSE getter[c]]

\* put_sample.
PutSample(sample) ==
    /\ queue' = Pushed(sample)
    /\ dropped_samples' = dropped_samples + Dropped
    /\ total_produced' = total_produced + 1
    /\ NotifyAll
    /\ UNCHANGED <<running, total_consumed, cleared, delivered>>

\* Mutant: pop in place of popleft.
PopNewest ==
    /\ queue' = SubSeq(queue, 1, Len(queue) - 1)
    /\ delivered' = Append(delivered, queue[Len(queue)])

PopLeft ==
    /\ queue' = Tail(queue)
    /\ delivered' = Append(delivered, Head(queue))

\* One pass through the loop of get_sample under the lock: a sample, None
\* from a closed and empty queue, or another wait.
Attempt(c) ==
    /\ \/ /\ queue # <<>>
          /\ PopLeft
          /\ total_consumed' = total_consumed + 1
          /\ getter' = [getter EXCEPT ![c] = "idle"]
       \/ /\ queue = <<>>
          /\ getter' = [getter EXCEPT ![c] =
                            IF running THEN "waiting" ELSE "closed"]
          /\ UNCHANGED <<queue, delivered, total_consumed>>
    /\ UNCHANGED <<running, total_produced, dropped_samples, cleared>>

\* A consumer calls get_sample, perhaps once more after None.
GetSample(c) == getter[c] \in {"idle", "closed"} /\ Attempt(c)

\* A woken consumer has the lock again and looks once more.
ResumeGet(c) == getter[c] = "notified" /\ Attempt(c)

\* clear_queue wakes nobody: the waiters' condition has not changed.
ClearQueue ==
    /\ cleared' = cleared + Len(queue)
    /\ queue' = <<>>
    /\ UNCHANGED <<running, total_produced, total_consumed, dropped_samples,
                   getter, delivered>>

Shutdown ==
    /\ running' = FALSE
    /\ NotifyAll
    /\ UNCHANGED <<queue, total_produced, total_consumed, dropped_samples,
                   cleared, delivered>>

\* The environment numbers the samples it puts.
PutNext == total_produced < MaxProduced /\ PutSample(total_produced + 1)

Next ==
    \/ PutNext
    \/ \E c \in Consumers : GetSample(c) \/ ResumeGet(c)
    \/ ClearQueue
    \/ Shutdown

Spec == Init /\ [][Next]_vars

-----------------------------------------------------------------------------
(* Correctness.                                                            *)

\* The types of the variables, and the bound of the deque.
TypeOK ==
    /\ queue \in Seq(1..MaxProduced)
    /\ Len(queue) <= MaxQueueSize
    /\ running \in BOOLEAN
    /\ total_produced \in 0..MaxProduced
    /\ total_consumed \in Nat
    /\ dropped_samples \in Nat
    /\ cleared \in Nat
    /\ getter \in [Consumers -> GetterState]
    /\ delivered \in Seq(1..MaxProduced)

\* The counters the actor reports account for every sample put: it is
\* consumed, dropped, cleared or still in the queue.
CountersAddUp ==
    total_produced = total_consumed + dropped_samples + cleared + Len(queue)

\* The queue holds the newest samples, all of them and in order: overflow
\* and consumption take from the old end only.
HoldsNewest ==
    \A i \in 1..Len(queue) : queue[i] = total_produced - Len(queue) + i

\* Among all consumers together, samples come out in the order they were
\* put, none twice, and before all that is still queued.
DeliveredInOrder ==
    /\ \A i, j \in 1..Len(delivered) : i < j => delivered[i] < delivered[j]
    /\ \A i \in 1..Len(delivered) :
            delivered[i] <= total_produced - Len(queue)

\* No lost wakeup: a consumer sleeps only while there is nothing to take and
\* more may come, whichever consumers took the samples it was woken for.
NoLostWakeup ==
    \A c \in Consumers : getter[c] = "waiting" => queue = <<>> /\ running

\* The feed the queue implements: its set of samples is the deque's.
Feed == INSTANCE SampleFeed WITH
            Capacity <- MaxQueueSize,
            sent <- total_produced,
            held <- {queue[i] : i \in 1..Len(queue)},
            received <- delivered

\* The queue implements the sample feed.
FeedSpec == Feed!Spec
=============================================================================
