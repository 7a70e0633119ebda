-------------------------- MODULE FullyAsyncProofs --------------------------
(***************************************************************************)
(* Proofs about FullyAsync, for every number of samples, every limit and   *)
(* any number of failures, with and without partial rollout.               *)
(***************************************************************************)
EXTENDS FullyAsync, SequenceTheorems, FiniteSetTheorems,
        FunctionTheorems, TLAPS

-----------------------------------------------------------------------------
(* Counting the occurrences of a sample in a queue.                        *)

At(s, seq) == {i \in 1..Len(seq) : seq[i] = s}

LEMMA AtFinite ==
    ASSUME NEW s, NEW seq \in Seq(Nat)
    PROVE  /\ IsFiniteSet(At(s, seq))
           /\ Occurrences(s, seq) = Cardinality(At(s, seq))
           /\ Occurrences(s, seq) \in Nat
           /\ Len(seq) \in Nat
  <1>1. Len(seq) \in Nat
    BY LenProperties
  <1>2. IsFiniteSet(1..Len(seq)) /\ At(s, seq) \in SUBSET (1..Len(seq))
    BY <1>1, FS_Interval DEF At
  <1>3. IsFiniteSet(At(s, seq))
    BY <1>2, FS_Subset
  <1>4. Occurrences(s, seq) = Cardinality(At(s, seq))
    BY DEF Occurrences, At
  <1> QED
    BY <1>1, <1>3, <1>4, FS_CardinalityType

LEMMA OccurrencesEmpty ==
    ASSUME NEW s
    PROVE  Occurrences(s, <<>>) = 0
  <1>1. {i \in 1..Len(<<>>) : <<>>[i] = s} = {}
    OBVIOUS
  <1> QED
    BY <1>1, FS_EmptySet DEF Occurrences

\* A sample that is appended occurs once more.
LEMMA OccurrencesAppend ==
    ASSUME NEW s, NEW seq \in Seq(Nat), NEW e \in Nat
    PROVE  /\ Append(seq, e) \in Seq(Nat)
           /\ Occurrences(s, Append(seq, e)) = Occurrences(s, seq) + If(s = e)
           /\ Occurrences(s, seq) \in Nat
  <1> DEFINE n == Len(seq)
  <1>1. /\ n \in Nat /\ Append(seq, e) \in Seq(Nat)
        /\ Len(Append(seq, e)) = n + 1
        /\ \A i \in 1..n : Append(seq, e)[i] = seq[i]
        /\ Append(seq, e)[n + 1] = e
    BY AppendProperties, LenProperties
  <1>2. /\ IsFiniteSet(At(s, seq)) /\ n + 1 \notin At(s, seq)
        /\ Occurrences(s, seq) = Cardinality(At(s, seq))
        /\ Occurrences(s, seq) \in Nat
    <2>1. n + 1 \notin At(s, seq)
      BY <1>1 DEF At
    <2> QED
      BY <2>1, AtFinite
  <1>3. Occurrences(s, Append(seq, e)) = Cardinality(At(s, Append(seq, e)))
    BY <1>1, AtFinite
  <1>4. CASE s = e
    <2>1. At(s, Append(seq, e)) = At(s, seq) \cup {n + 1}
      BY <1>1, <1>4 DEF At
    <2>2. Cardinality(At(s, seq) \cup {n + 1}) = Cardinality(At(s, seq)) + 1
      BY <1>2, FS_AddElement
    <2> QED
      BY <1>1, <1>2, <1>3, <1>4, <2>1, <2>2 DEF If
  <1>5. CASE s # e
    <2>1. At(s, Append(seq, e)) = At(s, seq)
      BY <1>1, <1>5 DEF At
    <2> QED
      BY <1>1, <1>2, <1>3, <1>5, <2>1 DEF If
  <1> QED
    BY <1>1, <1>2, <1>4, <1>5

\* The first sample that is taken occurs once less.
LEMMA OccurrencesTail ==
    ASSUME NEW s, NEW seq \in Seq(Nat), seq # <<>>
    PROVE  /\ Tail(seq) \in Seq(Nat) /\ Head(seq) \in Nat
           /\ Occurrences(s, seq) = Occurrences(s, Tail(seq)) + If(s = Head(seq))
           /\ Occurrences(s, Tail(seq)) \in Nat
  <1> DEFINE rest == Tail(seq)
             later == {i \in 2..Len(seq) : seq[i] = s}
  <1>1. /\ rest \in Seq(Nat) /\ Head(seq) \in Nat
        /\ Len(rest) = Len(seq) - 1
        /\ \A i \in 1..Len(rest) : rest[i] = seq[i + 1]
        /\ Len(seq) \in Nat \ {0} /\ Head(seq) = seq[1]
    BY HeadTailProperties, EmptySeq
  <1>2. /\ IsFiniteSet(At(s, seq))
        /\ Occurrences(s, seq) = Cardinality(At(s, seq))
        /\ IsFiniteSet(At(s, rest))
        /\ Occurrences(s, rest) = Cardinality(At(s, rest))
        /\ Occurrences(s, rest) \in Nat
    BY <1>1, AtFinite
  <1> HIDE DEF rest
  <1>3. Cardinality(later) = Cardinality(At(s, rest)) /\ IsFiniteSet(later)
    <2> DEFINE f == [i \in At(s, rest) |-> i + 1]
    <2>1. f \in [At(s, rest) -> later]
      <3> SUFFICES ASSUME NEW i \in At(s, rest)
                   PROVE  i + 1 \in later
        OBVIOUS
      <3> QED
        BY <1>1, SMTT(40) DEF At
    <2>2. \A i, j \in At(s, rest) : f[i] = f[j] => i = j
      BY <1>1 DEF At
    <2>3. \A j \in later : \E i \in At(s, rest) : f[i] = j
      <3> SUFFICES ASSUME NEW j \in later
                   PROVE  \E i \in At(s, rest) : f[i] = j
        OBVIOUS
      <3>1. j - 1 \in 1..Len(rest) /\ rest[j - 1] = seq[j] /\ (j - 1) + 1 = j
        BY <1>1
      <3>2. j - 1 \in At(s, rest)
        BY <3>1 DEF At
      <3> QED
        BY <3>1, <3>2
    <2> HIDE DEF f
    <2>4. f \in Bijection(At(s, rest), later)
      BY <2>1, <2>2, <2>3, Fun_IsBij
    <2>5. ExistsBijection(At(s, rest), later)
      BY <2>4, Fun_ExistsBij
    <2> QED
      BY <1>2, <2>5, FS_Bijection
  <1>4. CASE s = Head(seq)
    <2>1. At(s, seq) = later \cup {1} /\ 1 \notin later
      BY <1>1, <1>4 DEF At
    <2>2. Cardinality(later \cup {1}) = Cardinality(later) + 1
      BY <1>3, <2>1, FS_AddElement
    <2> QED
      BY <1>1, <1>2, <1>3, <1>4, <2>1, <2>2 DEF If, rest
  <1>5. CASE s # Head(seq)
    <2>1. At(s, seq) = later
      BY <1>1, <1>5 DEF At
    <2> QED
      BY <1>1, <1>2, <1>3, <1>5, <2>1 DEF If, rest
  <1> QED
    BY <1>4, <1>5, <1>1, <1>2 DEF rest

-----------------------------------------------------------------------------
(* Types.                                                                  *)

TaskState == {"none", "generating", "put"}

\* Where samples are.
placeVars == <<pending_queue, rollout_sample, task, cancel_queue, queue,
               delivered, fed>>

Types ==
    /\ queue \in Seq(Nat) /\ delivered \in Seq(Nat)
    /\ pending_queue \in Seq(Nat) /\ cancel_queue \in Seq(Nat)
    /\ rollout_sample \in Nat /\ fed \in Nat
    /\ task \in [Samples -> TaskState]
    /\ finished_tasks \in Nat /\ failed_tasks \in Nat

\* The processor submits the sample it has in hand.
Submits ==
    /\ processor = "submit" /\ ~paused /\ Locked("processor")
    /\ task' = [task EXCEPT ![rollout_sample] = "generating"]
    /\ rollout_sample' = None /\ processor' = "top"
    /\ UNCHANGED <<pending_queue, cancel_queue, queue, delivered, fed,
                   finished_tasks, failed_tasks>>

elsewhere == <<task, queue, delivered, fed, finished_tasks, failed_tasks>>

\* It takes a sample, when it has none.
Asking == {"top", "get_pending"}

TakesPending == TakePending /\ processor \in Asking /\ UNCHANGED elsewhere
TakesCancelled == TakeCancelled /\ processor \in Asking /\ UNCHANGED elsewhere

\* What a step of the processor does to the samples: it takes one, submits
\* one, or leaves them where they are.
LEMMA ProcessorEffect ==
    ASSUME Processor
    PROVE  \/ UNCHANGED placeVars
           \/ TakesPending
           \/ TakesCancelled
           \/ Submits
  <1> USE DEF placeVars, elsewhere, TakesPending, TakesCancelled, Asking,
              takeVars, waitVars, activeVars, mqVars
  <1>0. UNCHANGED <<mqVars, fed>>
    BY DEF Processor
  <1>1. CASE ProcessorTop
    BY <1>0, <1>1 DEF ProcessorTop
  <1>2. CASE ProcessorGetPending
    BY <1>0, <1>2 DEF ProcessorGetPending
  <1>3. CASE ProcessorSetPaused
    BY <1>0, <1>3 DEF ProcessorSetPaused
  <1>4. CASE DrainForPause \/ DrainForDone \/ DrainForLimit
    BY <1>0, <1>4 DEF DrainForPause, DrainForDone, DrainForLimit, DrainLoop
  <1>5. CASE \/ DrainLocked("lock_pause", "join_pause", "drain_pause")
             \/ DrainLocked("lock_done", "join_done", "drain_done")
             \/ DrainLocked("lock_limit", "join_limit", "drain_limit")
    BY <1>0, <1>5 DEF DrainLocked
  <1>6. CASE \/ DrainWait("join_pause", "drain_pause")
             \/ DrainWait("join_done", "drain_done")
             \/ DrainWait("join_limit", "drain_limit")
    BY <1>0, <1>6 DEF DrainWait
  <1>7. CASE ProcessorCheckResume
    BY <1>0, <1>7 DEF ProcessorCheckResume
  <1>8. CASE \/ Relock("wait_resume", "check_resume")
             \/ Relock("wait_submit", "submit")
    BY <1>0, <1>8 DEF Relock
  <1>9. CASE ProcessorSubmit
    BY <1>0, <1>9 DEF ProcessorSubmit, SubmitWaits, Submits
  <1> QED
    BY <1>1, <1>2, <1>3, <1>4, <1>5, <1>6, <1>7, <1>8, <1>9 DEF Processor

\* The sequences a step of a task or of the message queue leaves behind.
LEMMA PushedPlaces ==
    ASSUME Types, NEW x \in Nat, NEW s
    PROVE  /\ MQ!Pushed(x) \in Seq(Nat)
           /\ Occurrences(s, MQ!Pushed(x)) + If(MQ!IsFull /\ s = Head(queue))
                = Occurrences(s, queue) + If(s = x)
           /\ Occurrences(s, MQ!Pushed(x)) <= Occurrences(s, queue) + If(s = x)
           /\ Occurrences(s, MQ!Pushed(x)) \in Nat
  <1>1. queue \in Seq(Nat)
    BY DEF Types
  <1>2. CASE MQ!IsFull
    <2>1. queue # <<>>
      BY <1>1, <1>2, RollouterAssumption, EmptySeq DEF MQ!IsFull
    <2>2. /\ Tail(queue) \in Seq(Nat)
          /\ Occurrences(s, queue) = Occurrences(s, Tail(queue))
                                        + If(s = Head(queue))
          /\ Occurrences(s, Tail(queue)) \in Nat
      BY <1>1, <2>1, OccurrencesTail
    <2>3. /\ Append(Tail(queue), x) \in Seq(Nat)
          /\ Occurrences(s, Append(Tail(queue), x))
                = Occurrences(s, Tail(queue)) + If(s = x)
      <3> DEFINE rest == Tail(queue)
      <3>1. rest \in Seq(Nat)
        BY <2>2
      <3> HIDE DEF rest
      <3>2. /\ Append(rest, x) \in Seq(Nat)
            /\ Occurrences(s, Append(rest, x)) = Occurrences(s, rest) + If(s = x)
        BY <3>1, OccurrencesAppend
      <3> QED
        BY <3>2 DEF rest
    <2>4. MQ!Pushed(x) = Append(Tail(queue), x)
      BY <1>2 DEF MQ!Pushed
    <2>5. /\ If(s = x) \in Nat /\ If(s = Head(queue)) \in Nat
          /\ If(MQ!IsFull /\ s = Head(queue)) = If(s = Head(queue))
      BY <1>2 DEF If
    <2> QED
      BY <2>2, <2>3, <2>4, <2>5
  <1>3. CASE ~MQ!IsFull
    <2>1. MQ!Pushed(x) = Append(queue, x)
      BY <1>3 DEF MQ!Pushed
    <2>2. If(s = x) \in Nat /\ If(MQ!IsFull /\ s = Head(queue)) = 0
      BY <1>3 DEF If
    <2> QED
      BY <1>1, <2>1, <2>2, OccurrencesAppend
  <1> QED
    BY <1>2, <1>3

\* The processor keeps the counts of the tasks that are over, or takes them
\* all.
LEMMA ProcessorCounts ==
    ASSUME Processor
    PROVE  \/ UNCHANGED <<finished_tasks, failed_tasks>>
           \/ finished_tasks' = 0 /\ failed_tasks' = 0 /\ UNCHANGED task
  BY DEF Processor, ProcessorTop, ProcessorGetPending, ProcessorSetPaused,
         DrainForPause, DrainForDone, DrainForLimit, DrainLoop, DrainLocked,
         DrainWait, ProcessorCheckResume, Relock, ProcessorSubmit, activeVars

LEMMA FeedTypes ==
    ASSUME Types, FeedSample
    PROVE  Types'
  <1>1. pending_queue \in Seq(Nat) /\ fed \in Nat
    BY DEF Types
  <1>2. (IF fed < Total THEN fed + 1 ELSE Done) \in Nat
    BY <1>1 DEF Done
  <1>3. pending_queue' \in Seq(Nat)
    BY <1>1, <1>2, AppendProperties DEF FeedSample
  <1> QED
    BY <1>1, <1>3 DEF FeedSample, Types, mqVars, processorVars, activeVars

LEMMA ProcessorTypes ==
    ASSUME Types, Processor
    PROVE  Types'
  <1>0. finished_tasks' \in Nat /\ failed_tasks' \in Nat
    BY ProcessorCounts DEF Types
  <1>1. CASE UNCHANGED placeVars
    BY <1>0, <1>1 DEF placeVars, Types
  <1>2. CASE TakesPending
    <2>1. Tail(pending_queue) \in Seq(Nat) /\ Head(pending_queue) \in Nat
      BY <1>2, HeadTailProperties DEF TakesPending, TakePending, Types
    <2> QED
      BY <1>0, <1>2, <2>1 DEF TakesPending, TakePending, elsewhere, Types
  <1>3. CASE TakesCancelled
    <2>1. Tail(cancel_queue) \in Seq(Nat) /\ Head(cancel_queue) \in Nat
      BY <1>3, HeadTailProperties DEF TakesCancelled, TakeCancelled, Types
    <2> QED
      BY <1>0, <1>3, <2>1 DEF TakesCancelled, TakeCancelled, CancelledRest, elsewhere, Types
  <1>4. CASE Submits
    <2>1. task' \in [Samples -> TaskState]
      BY <1>4 DEF Submits, Types, TaskState
    <2> QED
      BY <1>0, <1>4, <2>1 DEF Submits, Types, None
  <1> QED
    BY <1>1, <1>2, <1>3, <1>4, ProcessorEffect

\* Samples are numbers.
LEMMA SamplesAreNumbers == \A s \in Samples : s \in Nat /\ s # None
  BY RollouterAssumption DEF Samples, None

LEMMA TaskTypes ==
    ASSUME Types, NEW s \in Samples, Task(s) \/ TaskFailure(s)
    PROVE  Types'
  <1>1. UNCHANGED <<pending_queue, fed, rollout_sample>>
    BY DEF Task, TaskFailure, taskFrame, processorVars
  <1>2. s \in Nat
    BY SamplesAreNumbers
  <1>3. CASE TaskPut(s)
    <2>1. MQ!Pushed(s) \in Seq(Nat)
      BY <1>2, PushedPlaces
    <2>2. task' \in [Samples -> TaskState]
      BY <1>3 DEF TaskPut, Types, TaskState
    <2>3. queue' = MQ!Pushed(s) /\ delivered' = delivered
      BY <1>3 DEF TaskPut, MQ!PutSample
    <2> QED
      BY <1>1, <1>3, <2>1, <2>2, <2>3 DEF TaskPut, Types
  <1>4. CASE TaskReturn(s) \/ TaskFail(s)
    <2>1. task' \in [Samples -> TaskState]
      BY <1>4 DEF TaskReturn, TaskFail, Types, TaskState
    <2>2. finished_tasks' \in Nat /\ failed_tasks' \in Nat
      BY <1>4 DEF TaskReturn, TaskFail, Types
    <2> QED
      BY <1>1, <1>4, <2>1, <2>2 DEF TaskReturn, TaskFail, Types, mqVars
  <1>5. CASE TaskInterrupted(s)
    <2>1. task' \in [Samples -> TaskState] /\ finished_tasks' \in Nat
      BY <1>5 DEF TaskInterrupted, Types, TaskState
    <2>2. cancel_queue' \in Seq(Nat)
      BY <1>2, <1>5, AppendProperties DEF TaskInterrupted, KeepPartial, Types
    <2> QED
      BY <1>1, <1>5, <2>1, <2>2 DEF TaskInterrupted, Types, mqVars
  <1> QED
    BY <1>3, <1>4, <1>5 DEF Task, TaskFailure

\* The rest of the rollouter: only the finish signal is put somewhere.
LEMMA MainEffect ==
    ASSUME Main
    PROVE  /\ UNCHANGED <<pending_queue, rollout_sample, task, cancel_queue,
                          delivered, fed, finished_tasks, failed_tasks>>
           /\ \/ main = "run" /\ ProcessorOver /\ queue' = MQ!Pushed(None)
              \/ main # "run" /\ UNCHANGED queue
           /\ main' # "run"
           /\ UNCHANGED processor
  BY DEF Main, MainFinish, MainStop, MainStopped, MQ!PutSample, mqVars,
         queueVars, processorVars, activeVars

otherVars == <<placeVars, processor, main>>

LEMMA OthersEffect ==
    ASSUME Monitor \/ Calls
    PROVE  /\ UNCHANGED otherVars
           /\ \/ UNCHANGED <<finished_tasks, failed_tasks>>
              \/ finished_tasks' = 0 /\ failed_tasks' = 0
  <1> USE DEF otherVars, placeVars, mqVars, queueVars, processorVars,
              activeVars
  <1>1. CASE Monitor
    BY <1>1 DEF Monitor
  <1>2. CASE Pause
    BY <1>2 DEF Pause, PauseCall, PauseAcquired, PauseCancel, PauseGather,
                PauseReturn
  <1>3. CASE Update(current_version)
    BY <1>3 DEF Update
  <1>4. CASE Resume
    BY <1>4 DEF Resume
  <1> QED
    BY <1>1, <1>2, <1>3, <1>4 DEF Calls

\* The trainer only takes samples from the message queue.
LEMMA TrainerEffect ==
    ASSUME Trainer
    PROVE  /\ UNCHANGED <<pending_queue, rollout_sample, task, cancel_queue,
                          fed, finished_tasks, failed_tasks, processor, main>>
           /\ \/ UNCHANGED <<queue, delivered>>
              \/ /\ queue # <<>> /\ queue' = Tail(queue)
                 /\ delivered' = Append(delivered, Head(queue))
                 /\ trainer = "collect" /\ Collect(Head(queue))
                 /\ UNCHANGED final
  <1> USE DEF rollouterVars, queueVars, processorVars, activeVars
  <1>1. CASE TrainerGet
    BY <1>1 DEF TrainerGet, MQ!GetSample, MQ!ResumeGet, MQ!Attempt,
                MQ!PopLeft
  <1>2. CASE TrainStep \/ TrainerFinal \/ TrainerDone \/ Synchronizer
    BY <1>2 DEF TrainStep, TrainerFinal, TrainerDone, Synchronizer, mqVars
  <1> QED
    BY <1>1, <1>2 DEF Trainer

LEMMA TrainerTypes ==
    ASSUME Types, Trainer
    PROVE  Types'
  <1>1. CASE UNCHANGED <<queue, delivered>>
    BY <1>1, TrainerEffect DEF Types
  <1>2. CASE /\ queue # <<>> /\ queue' = Tail(queue)
             /\ delivered' = Append(delivered, Head(queue))
    <2>1. Tail(queue) \in Seq(Nat) /\ Head(queue) \in Nat
      BY <1>2, HeadTailProperties DEF Types
    <2>2. Append(delivered, Head(queue)) \in Seq(Nat)
      BY <2>1, AppendProperties DEF Types
    <2> QED
      BY <1>2, <2>1, <2>2, TrainerEffect DEF Types
  <1> QED
    BY <1>1, <1>2, TrainerEffect

LEMMA ClearEffect ==
    ASSUME MainClearQueue
    PROVE  /\ queue' = <<>> /\ trainer = "done"
           /\ UNCHANGED <<pending_queue, rollout_sample, task, cancel_queue,
                          delivered, fed, finished_tasks, failed_tasks,
                          processor, main, trainerVars>>
  BY DEF MainClearQueue, MQ!ClearQueue, rollouterVars, queueVars,
         processorVars, activeVars, trainerVars

LEMMA TypesNext == Types /\ [Next]_vars => Types'
  <1> SUFFICES ASSUME Types, [Next]_vars PROVE Types'
    OBVIOUS
  <1>1. CASE Rollouts(FeedSample)
    BY <1>1, FeedTypes DEF Rollouts
  <1>2. CASE Rollouts(Processor)
    BY <1>2, ProcessorTypes DEF Rollouts
  <1>3. CASE Rollouts(Main)
    <2>1. Main
      BY <1>3 DEF Rollouts
    <2>2. MQ!Pushed(None) \in Seq(Nat)
      BY PushedPlaces DEF None
    <2>3. queue' \in Seq(Nat)
      BY <2>1, <2>2, MainEffect DEF Types
    <2> QED
      BY <2>1, <2>3, MainEffect DEF Types
  <1>4. CASE Rollouts(Monitor) \/ Rollouts(Calls)
    <2>1. Monitor \/ Calls
      BY <1>4 DEF Rollouts
    <2> QED
      BY <2>1, OthersEffect DEF Types, otherVars, placeVars
  <1>5. ASSUME NEW s \in Samples, Rollouts(Task(s)) \/ Rollouts(TaskFailure(s))
        PROVE  Types'
    BY <1>5, TaskTypes DEF Rollouts
  <1>6. CASE Trainer
    BY <1>6, TrainerTypes
  <1>7. CASE MainClearQueue
    BY <1>7, ClearEffect, EmptySeq DEF Types
  <1>8. CASE UNCHANGED vars
    BY <1>8 DEF vars, rollouterVars, mqVars, queueVars, processorVars,
                activeVars, Types
  <1> QED
    BY <1>1, <1>2, <1>3, <1>4, <1>5, <1>6, <1>7, <1>8 DEF Next

LEMMA TypesInit == Init => Types
  BY EmptySeq DEF Init, RollouterInit, MQ!Init, Types, TaskState, None

LEMMA TypesHold == Spec => []Types
  BY TypesInit, TypesNext, PTL DEF Spec

-----------------------------------------------------------------------------
(* The versions of the trainer, the synchronizer and the rollouter.        *)

\* VersionLag is kept because the rollouter is idle while a synchronization
\* is under way, and resume only ends an update that has returned.
VersionInv ==
    /\ VersionLag
    /\ param_version \in Nat /\ current_version \in Nat
    /\ current_param_version \in Nat
    /\ trainer \in {"pausing", "syncing"} => update = "idle"
    /\ resume \in {"acquire", "workers_resumed"} => update = "returned"

versionVars == <<trainer, param_version, current_version,
                 current_param_version, update, resume>>

LEMMA VersionUnchanged ==
    ASSUME VersionInv, UNCHANGED versionVars
    PROVE  VersionInv'
  BY DEF VersionInv, VersionLag, versionVars

LEMMA VersionCalls ==
    ASSUME VersionInv, Calls, UNCHANGED trainerVars
    PROVE  VersionInv'
  <1> USE DEF VersionInv, VersionLag, If, trainerVars
  <1>1. CASE Pause
    BY <1>1, VersionUnchanged DEF Pause, versionVars
  <1>2. CASE Update(current_version)
    <2>1. UNCHANGED resume
      BY <1>2 DEF Update
    <2>2. CASE UpdateCall
      BY <2>1, <2>2 DEF UpdateCall
    <2>3. CASE UpdateAcquired(current_version)
      BY <2>1, <2>3 DEF UpdateAcquired
    <2>4. CASE UpdateReturn
      BY <2>1, <2>4 DEF UpdateReturn
    <2> QED
      BY <1>2, <2>2, <2>3, <2>4 DEF Update
  <1>3. CASE Resume
    <2>1. UNCHANGED current_param_version
      BY <1>3 DEF Resume
    <2>2. CASE ResumeCall \/ ResumeWorkers
      BY <2>1, <2>2 DEF ResumeCall, ResumeWorkers
    <2>3. CASE ResumeReturn
      BY <2>1, <2>3 DEF ResumeReturn
    <2> QED
      BY <1>3, <2>2, <2>3 DEF Resume
  <1> QED
    BY <1>1, <1>2, <1>3 DEF Calls

LEMMA VersionTrainer ==
    ASSUME VersionInv, Trainer
    PROVE  VersionInv'
  <1> USE DEF VersionInv, VersionLag, If, rollouterVars, flagVars, callVars
  <1>1. CASE TrainerGet
    BY <1>1 DEF TrainerGet, Collect
  <1>2. CASE TrainStep
    BY <1>2 DEF TrainStep, NextVersion
  <1>3. CASE TrainerFinal
    BY <1>3 DEF TrainerFinal, NextVersion
  <1>4. CASE TrainerDone
    BY <1>4 DEF TrainerDone
  <1>5. CASE Synchronizer
    <2>1. CASE SyncPause
      BY <1>5, <2>1 DEF Synchronizer, SyncPause, LastSyncOver
    <2>2. CASE SyncWeights
      BY <1>5, <2>2 DEF Synchronizer, SyncWeights
    <2>3. CASE SyncReturn
      BY <1>5, <2>3 DEF Synchronizer, SyncReturn
    <2> QED
      BY <1>5, <2>1, <2>2, <2>3 DEF Synchronizer
  <1> QED
    BY <1>1, <1>2, <1>3, <1>4, <1>5 DEF Trainer

LEMMA VersionNext == VersionInv /\ [Next]_vars => VersionInv'
  <1> SUFFICES ASSUME VersionInv, [Next]_vars PROVE VersionInv'
    OBVIOUS
  <1>1. CASE Rollouts(FeedSample) \/ Rollouts(Processor) \/ Rollouts(Main)
             \/ Rollouts(Monitor)
    BY <1>1, VersionUnchanged
    DEF Rollouts, FeedSample, Processor, Main, Monitor, versionVars,
        trainerVars, callVars, flagVars
  <1>2. CASE Rollouts(Calls)
    BY <1>2, VersionCalls DEF Rollouts
  <1>3. ASSUME NEW s \in Samples, Rollouts(Task(s)) \/ Rollouts(TaskFailure(s))
        PROVE  VersionInv'
    BY <1>3, VersionUnchanged
    DEF Rollouts, Task, TaskFailure, taskFrame, versionVars, trainerVars,
        callVars, flagVars
  <1>4. CASE Trainer
    BY <1>4, VersionTrainer
  <1>5. CASE MainClearQueue \/ UNCHANGED vars
    BY <1>5, VersionUnchanged
    DEF MainClearQueue, vars, versionVars, rollouterVars, trainerVars,
        callVars, flagVars
  <1> QED
    BY <1>1, <1>2, <1>3, <1>4, <1>5 DEF Next

\* Trainer, synchronizer and rollouter count versions on their own
\* (fully_async_trainer.py, param_sync.py, fully_async_rollouter.py): the
\* trainer is ahead of what was sent only while it waits for the previous
\* exchange, and the rollouter learns of every version before the next one
\* is sent.
THEOREM AsyncVersionLag == Spec => []VersionLag
  <1>1. Init => VersionInv
    BY DEF Init, RollouterInit, VersionInv, VersionLag, If
  <1> QED
    BY <1>1, VersionNext, PTL DEF Spec, VersionInv

-----------------------------------------------------------------------------
(* Submissions.                                                            *)

\* Only the processor starts a generation.
LEMMA OnlyProcessorSubmits ==
    ASSUME Types, [Next]_vars, NEW s \in Samples,
           task[s] # "generating", task'[s] = "generating"
    PROVE  Rollouts(Processor) /\ Submits
  <1>0. task' # task
    OBVIOUS
  <1>1. CASE Rollouts(FeedSample)
    BY <1>0, <1>1 DEF Rollouts, FeedSample, activeVars
  <1>2. CASE Rollouts(Processor)
    BY <1>0, <1>2, ProcessorEffect
    DEF Rollouts, placeVars, elsewhere, TakesPending, TakesCancelled
  <1>3. CASE Rollouts(Main)
    BY <1>0, <1>3, MainEffect DEF Rollouts
  <1>4. CASE Rollouts(Monitor) \/ Rollouts(Calls)
    BY <1>0, <1>4, OthersEffect DEF Rollouts, otherVars, placeVars
  <1>5. ASSUME NEW t \in Samples, Rollouts(Task(t)) \/ Rollouts(TaskFailure(t))
        PROVE  FALSE
    <2>1. \/ task' = [task EXCEPT ![t] = "put"]
          \/ task' = [task EXCEPT ![t] = "none"]
      BY <1>5 DEF Rollouts, Task, TaskFailure, TaskPut, TaskReturn,
                  TaskInterrupted, TaskFail
    <2> QED
      BY <2>1 DEF Types
  <1>6. CASE Trainer
    BY <1>0, <1>6, TrainerEffect
  <1>7. CASE MainClearQueue
    BY <1>0, <1>7, ClearEffect
  <1>8. CASE UNCHANGED vars
    BY <1>0, <1>8 DEF vars, rollouterVars, activeVars
  <1> QED
    BY <1>1, <1>2, <1>3, <1>4, <1>5, <1>6, <1>7, <1>8 DEF Next

\* The processor looks at the paused flag again, under the lock, before it
\* creates a task: no generation starts during a pause.
THEOREM AsyncSubmitsOnlyUnpaused == Spec => SubmitsOnlyUnpaused
  <1>1. Types /\ [Next]_vars =>
            [\A s \in Samples :
                task[s] = "none" /\ task'[s] = "generating" => ~paused]_vars
    BY OnlyProcessorSubmits DEF Submits
  <1> QED
    BY <1>1, TypesHold, PTL DEF Spec, SubmitsOnlyUnpaused

-----------------------------------------------------------------------------
(* The concurrency limit.                                                  *)

AboutToSubmit == {"submit", "wait_submit"}

\* From the end of its wait for room until it submits, the processor has
\* room for one more task, whatever pauses come between; when it is over it
\* has waited for one, or for all.
ConcurrencyInv ==
    /\ ConcurrencyBound
    /\ processor \in AboutToSubmit => ActiveTasks < MaxConcurrent
    /\ ProcessorOver => ActiveTasks < MaxConcurrent

LEMMA RunningCount ==
    ASSUME Types
    PROVE  /\ IsFiniteSet(RunningTasks) /\ Cardinality(RunningTasks) \in Nat
           /\ ActiveTasks \in Nat
  <1>1. IsFiniteSet(Samples)
    BY RollouterAssumption, FS_Interval DEF Samples
  <1>2. RunningTasks \in SUBSET Samples
    BY DEF RunningTasks
  <1>3. IsFiniteSet(RunningTasks)
    BY <1>1, <1>2, FS_Subset
  <1>4. Cardinality(RunningTasks) \in Nat
    BY <1>3, FS_CardinalityType
  <1> QED
    BY <1>3, <1>4 DEF ActiveTasks, Types

\* A task that ends is counted among those that are over.
LEMMA EndKeepsCount ==
    ASSUME Types, NEW s \in Samples, task[s] # "none",
           task' = [task EXCEPT ![s] = "none"],
           \/ finished_tasks' = finished_tasks + 1 /\ UNCHANGED failed_tasks
           \/ failed_tasks' = failed_tasks + 1 /\ UNCHANGED finished_tasks
    PROVE  ActiveTasks' = ActiveTasks
  <1>1. RunningTasks' = RunningTasks \ {s} /\ s \in RunningTasks
    BY DEF RunningTasks, Types
  <1>2. Cardinality(RunningTasks \ {s}) = Cardinality(RunningTasks) - 1
    BY <1>1, RunningCount, FS_RemoveElement
  <1>3. Cardinality(RunningTasks') = Cardinality(RunningTasks) - 1
    BY <1>1, <1>2
  <1> QED
    BY <1>3, RunningCount DEF ActiveTasks, Types

LEMMA TaskKeepsCount ==
    ASSUME Types, NEW s \in Samples, Task(s) \/ TaskFailure(s)
    PROVE  ActiveTasks' = ActiveTasks /\ UNCHANGED processor
  <1>0. UNCHANGED processor
    BY DEF Task, TaskFailure, taskFrame, processorVars
  <1>1. CASE TaskPut(s)
    <2>1. RunningTasks' = RunningTasks
      BY <1>1 DEF TaskPut, RunningTasks, Types
    <2> QED
      BY <1>0, <1>1, <2>1 DEF TaskPut, ActiveTasks
  <1>2. CASE TaskReturn(s) \/ TaskInterrupted(s) \/ TaskFail(s)
    BY <1>0, <1>2, EndKeepsCount DEF TaskReturn, TaskInterrupted, TaskFail
  <1> QED
    BY <1>1, <1>2 DEF Task, TaskFailure

LEMMA SubmitCounts ==
    ASSUME Types, Submits
    PROVE  ActiveTasks' <= ActiveTasks + 1 /\ ActiveTasks' \in Nat
  <1> DEFINE more == RunningTasks \cup {rollout_sample}
  <1>1. RunningTasks' \in SUBSET more
    BY DEF RunningTasks, Submits, Types
  <1>2. IsFiniteSet(more) /\ Cardinality(more) <= Cardinality(RunningTasks) + 1
        /\ Cardinality(more) \in Nat
    <2>1. IsFiniteSet(more)
      BY RunningCount, FS_AddElement
    <2>2. CASE rollout_sample \in RunningTasks
      <3>1. more = RunningTasks
        BY <2>2
      <3> QED
        BY <2>1, <3>1, RunningCount
    <2>3. CASE rollout_sample \notin RunningTasks
      BY <2>1, <2>3, RunningCount, FS_AddElement
    <2> QED
      BY <2>1, <2>2, <2>3
  <1>3. /\ IsFiniteSet(RunningTasks')
        /\ Cardinality(RunningTasks') <= Cardinality(more)
        /\ Cardinality(RunningTasks') \in Nat
    <2> HIDE DEF more
    <2> QED
      BY <1>1, <1>2, FS_Subset, FS_CardinalityType
  <1>4. /\ finished_tasks' = finished_tasks /\ failed_tasks' = failed_tasks
        /\ finished_tasks \in Nat /\ failed_tasks \in Nat
    BY DEF Submits, Types
  <1>5. Cardinality(RunningTasks') <= Cardinality(RunningTasks) + 1
    <2> HIDE DEF more
    <2> QED
      BY <1>2, <1>3, RunningCount
  <1> QED
    BY <1>3, <1>4, <1>5, RunningCount DEF ActiveTasks

\* Tasks that are over are waited for.
LEMMA JoinCounts ==
    ASSUME Types, UNCHANGED task,
           \/ UNCHANGED <<finished_tasks, failed_tasks>>
           \/ finished_tasks' = 0 /\ failed_tasks' = 0
    PROVE  ActiveTasks' <= ActiveTasks /\ ActiveTasks' \in Nat
  <1>1. RunningTasks' = RunningTasks
    BY DEF RunningTasks
  <1> QED
    BY <1>1, RunningCount DEF ActiveTasks, Types

\* The processor only goes on to submit when there is room.
LEMMA ProcessorRoom ==
    ASSUME Processor, processor' \in AboutToSubmit
    PROVE  /\ processor \in AboutToSubmit \/ ~AtLimit
           /\ UNCHANGED activeVars
  BY DEF Processor, AboutToSubmit, ProcessorTop, TakeCancelled, TakePending,
         ProcessorGetPending, ProcessorSetPaused,
         DrainForPause, DrainForDone, DrainForLimit, DrainLoop, DrainLocked,
         DrainWait, ProcessorCheckResume, Relock, ProcessorSubmit, activeVars

\* The processor ends without a task, or with one that raised.
LEMMA ProcessorEnds ==
    ASSUME Processor
    PROVE  /\ ~ProcessorOver
           /\ ProcessorOver' =>
                \/ ~HasActive /\ UNCHANGED activeVars
                \/ /\ failed_tasks > 0 /\ UNCHANGED task
                   /\ finished_tasks' = 0 /\ failed_tasks' = 0
  BY DEF Processor, ProcessorOver, ProcessorTop, TakeCancelled, TakePending,
         ProcessorGetPending, ProcessorSetPaused,
         DrainForPause, DrainForDone, DrainForLimit, DrainLoop, DrainLocked,
         DrainWait, ProcessorCheckResume, Relock, ProcessorSubmit, activeVars

LEMMA EndCounts ==
    ASSUME Types, ConcurrencyInv, Processor, ProcessorOver'
    PROVE  ActiveTasks' < MaxConcurrent
  <1>1. MaxConcurrent \in Nat \ {0} /\ ActiveTasks \in Nat
    BY RollouterAssumption, RunningCount
  <1>2. CASE ~HasActive /\ UNCHANGED activeVars
    <2>1. ActiveTasks' = ActiveTasks
      BY <1>2 DEF ActiveTasks, RunningTasks, activeVars
    <2> QED
      BY <1>1, <1>2, <2>1 DEF HasActive
  <1>3. CASE /\ failed_tasks > 0 /\ UNCHANGED task
             /\ finished_tasks' = 0 /\ failed_tasks' = 0
    <2>1. RunningTasks' = RunningTasks
      BY <1>3 DEF RunningTasks
    <2>2. ActiveTasks' < ActiveTasks
      BY <1>3, <2>1, RunningCount DEF ActiveTasks, Types
    <2>3. ActiveTasks' \in Nat
      BY <1>3, <2>1, RunningCount DEF ActiveTasks
    <2> QED
      BY <1>1, <2>2, <2>3 DEF ConcurrencyInv, ConcurrencyBound
  <1> QED
    BY <1>2, <1>3, ProcessorEnds

LEMMA ConcurrencyProcessor ==
    ASSUME Types, ConcurrencyInv, Processor
    PROVE  ConcurrencyInv'
  <1>1. MaxConcurrent \in Nat /\ ActiveTasks \in Nat
    BY RollouterAssumption, RunningCount
  <1>2. CASE Submits
    <2>1. ConcurrencyBound' /\ processor' = "top"
      BY <1>1, <1>2, SubmitCounts
      DEF ConcurrencyInv, ConcurrencyBound, AboutToSubmit, Submits
    <2> QED
      BY <2>1 DEF ConcurrencyInv, AboutToSubmit, ProcessorOver
  <1>3. CASE ~Submits
    <2>1. UNCHANGED task
      BY <1>3, ProcessorEffect
      DEF placeVars, elsewhere, TakesPending, TakesCancelled
    <2>2. ActiveTasks' <= ActiveTasks /\ ActiveTasks' \in Nat
      BY <2>1, ProcessorCounts, JoinCounts
    <2>3. ConcurrencyBound'
      BY <1>1, <2>2 DEF ConcurrencyInv, ConcurrencyBound
    <2>4. ASSUME processor' \in AboutToSubmit
          PROVE  ActiveTasks' < MaxConcurrent
      <3>1. processor \in AboutToSubmit \/ ~AtLimit
        BY <2>4, ProcessorRoom
      <3> QED
        BY <1>1, <2>2, <3>1 DEF AtLimit, ConcurrencyInv
    <2> QED
      BY <2>3, <2>4, EndCounts DEF ConcurrencyInv
  <1> QED
    BY <1>2, <1>3

LEMMA ConcurrencyOthers ==
    ASSUME Types, ConcurrencyInv, UNCHANGED processor,
           ActiveTasks' <= ActiveTasks, ActiveTasks' \in Nat
    PROVE  ConcurrencyInv'
  <1>1. MaxConcurrent \in Nat /\ ActiveTasks \in Nat
    BY RollouterAssumption, RunningCount
  <1> QED
    BY <1>1 DEF ConcurrencyInv, ConcurrencyBound, ProcessorOver

LEMMA ConcurrencyNext == Types /\ ConcurrencyInv /\ [Next]_vars => ConcurrencyInv'
  <1> SUFFICES ASSUME Types, ConcurrencyInv, [Next]_vars PROVE ConcurrencyInv'
    OBVIOUS
  <1>1. CASE Rollouts(FeedSample)
    BY <1>1, JoinCounts, ConcurrencyOthers
    DEF Rollouts, FeedSample, activeVars, processorVars
  <1>2. CASE Rollouts(Processor)
    BY <1>2, ConcurrencyProcessor DEF Rollouts
  <1>3. CASE Rollouts(Main)
    BY <1>3, MainEffect, JoinCounts, ConcurrencyOthers DEF Rollouts
  <1>4. CASE Rollouts(Monitor) \/ Rollouts(Calls)
    BY <1>4, OthersEffect, JoinCounts, ConcurrencyOthers
    DEF Rollouts, otherVars, placeVars
  <1>5. ASSUME NEW s \in Samples, Rollouts(Task(s)) \/ Rollouts(TaskFailure(s))
        PROVE  ConcurrencyInv'
    <2>1. ActiveTasks' = ActiveTasks /\ UNCHANGED processor
      BY <1>5, TaskKeepsCount DEF Rollouts
    <2> QED
      BY <2>1, RunningCount, ConcurrencyOthers
  <1>6. CASE Trainer
    BY <1>6, TrainerEffect, JoinCounts, ConcurrencyOthers
  <1>7. CASE MainClearQueue
    BY <1>7, ClearEffect, JoinCounts, ConcurrencyOthers
  <1>8. CASE UNCHANGED vars
    BY <1>8, JoinCounts, ConcurrencyOthers
    DEF vars, rollouterVars, activeVars, processorVars
  <1> QED
    BY <1>1, <1>2, <1>3, <1>4, <1>5, <1>6, <1>7, <1>8 DEF Next

LEMMA ConcurrencyHolds == Spec => []ConcurrencyInv
  <1>1. Init => ConcurrencyInv
    <2> SUFFICES ASSUME Init PROVE ConcurrencyInv
      OBVIOUS
    <2>1. RunningTasks = {} /\ finished_tasks = 0 /\ failed_tasks = 0
      BY DEF Init, RollouterInit, RunningTasks
    <2>2. ActiveTasks = 0
      BY <2>1, FS_EmptySet DEF ActiveTasks
    <2> QED
      BY <2>2, RollouterAssumption
      DEF Init, RollouterInit, ConcurrencyInv, ConcurrencyBound,
          AboutToSubmit, ProcessorOver
  <1> QED
    BY <1>1, TypesHold, ConcurrencyNext, PTL DEF Spec

\* max_concurrent_samples bounds the tasks of the rollouter, those that are
\* over and not yet waited for included, through pauses, interruptions and
\* retries (_processor_worker, fully_async_rollouter.py).
THEOREM AsyncConcurrencyBound == Spec => []ConcurrencyBound
  BY ConcurrencyHolds, PTL DEF ConcurrencyInv

-----------------------------------------------------------------------------
(* Custody of the samples.                                                 *)

\* No sample is in two places, and none is anywhere before it was fed.
CustodyInv ==
    \A s \in Samples : Places(s) <= 1 /\ (s > fed => Places(s) = 0)

LEMMA PlacesNumbers ==
    ASSUME Types, NEW s
    PROVE  /\ Occurrences(s, pending_queue) \in Nat
           /\ Occurrences(s, cancel_queue) \in Nat
           /\ Occurrences(s, queue) \in Nat
           /\ Occurrences(s, delivered) \in Nat
           /\ If(rollout_sample = s) \in Nat
           /\ If(task[s] = "generating") \in Nat
           /\ Places(s) \in Nat
  <1>1. /\ Occurrences(s, pending_queue) \in Nat
        /\ Occurrences(s, cancel_queue) \in Nat
        /\ Occurrences(s, queue) \in Nat
        /\ Occurrences(s, delivered) \in Nat
    BY AtFinite DEF Types
  <1>2. If(rollout_sample = s) \in Nat /\ If(task[s] = "generating") \in Nat
    BY DEF If
  <1> QED
    BY <1>1, <1>2 DEF Places

LEMMA PlacesNumbersPrimed ==
    ASSUME Types', NEW s
    PROVE  Places(s)' \in Nat
  <1>1. /\ Occurrences(s, pending_queue') \in Nat
        /\ Occurrences(s, cancel_queue') \in Nat
        /\ Occurrences(s, queue') \in Nat
        /\ Occurrences(s, delivered') \in Nat
    BY AtFinite DEF Types
  <1>2. If(rollout_sample' = s) \in Nat /\ If(task'[s] = "generating") \in Nat
    BY DEF If
  <1> QED
    BY <1>1, <1>2 DEF Places

\* The processor moves samples, it never copies one.
LEMMA ProcessorPlaces ==
    ASSUME Types, Types', Processor, NEW s \in Samples
    PROVE  Places(s)' <= Places(s) /\ UNCHANGED fed
  <1>0. \/ UNCHANGED placeVars
        \/ TakesPending
        \/ TakesCancelled
        \/ Submits
    BY ProcessorEffect
  <1> USE PlacesNumbers
  <1>1. CASE UNCHANGED placeVars
    BY <1>1 DEF placeVars, Places
  <1>2. CASE TakesPending
    <2>1. /\ pending_queue # <<>> /\ pending_queue' = Tail(pending_queue)
          /\ rollout_sample' = Head(pending_queue)
          /\ UNCHANGED <<cancel_queue, task, queue, delivered, fed>>
      BY <1>2 DEF TakesPending, TakePending, elsewhere
    <2>2. /\ Occurrences(s, pending_queue)
                = Occurrences(s, pending_queue') + If(s = rollout_sample')
          /\ Occurrences(s, pending_queue') \in Nat
      BY <2>1, OccurrencesTail DEF Types
    <2>3. /\ If(rollout_sample' = s) = If(s = rollout_sample')
          /\ If(rollout_sample' = s) \in Nat
      BY DEF If
    <2>4. /\ Occurrences(s, pending_queue) \in Nat
          /\ If(rollout_sample = s) \in Nat
          /\ If(task[s] = "generating") \in Nat
          /\ Occurrences(s, cancel_queue) \in Nat
          /\ Occurrences(s, queue) \in Nat
          /\ Occurrences(s, delivered) \in Nat
      BY PlacesNumbers
    <2>5. UNCHANGED <<cancel_queue, task, queue, delivered, fed>>
      BY <2>1
    <2> HIDE PlacesNumbers
    <2> QED
      BY <2>2, <2>3, <2>4, <2>5 DEF Places
  <1>3. CASE TakesCancelled
    <2>1. /\ cancel_queue # <<>> /\ cancel_queue' = Tail(cancel_queue)
          /\ rollout_sample' = Head(cancel_queue)
          /\ UNCHANGED <<pending_queue, task, queue, delivered, fed>>
      BY <1>3 DEF TakesCancelled, TakeCancelled, CancelledRest, elsewhere
    <2>2. /\ Occurrences(s, cancel_queue)
                = Occurrences(s, cancel_queue') + If(s = rollout_sample')
          /\ Occurrences(s, cancel_queue') \in Nat
      BY <2>1, OccurrencesTail DEF Types
    <2>3. /\ If(rollout_sample' = s) = If(s = rollout_sample')
          /\ If(rollout_sample' = s) \in Nat
      BY DEF If
    <2>4. /\ Occurrences(s, pending_queue) \in Nat
          /\ If(rollout_sample = s) \in Nat
          /\ If(task[s] = "generating") \in Nat
          /\ Occurrences(s, cancel_queue) \in Nat
          /\ Occurrences(s, queue) \in Nat
          /\ Occurrences(s, delivered) \in Nat
      BY PlacesNumbers
    <2>5. UNCHANGED <<pending_queue, task, queue, delivered, fed>>
      BY <2>1
    <2> HIDE PlacesNumbers
    <2> QED
      BY <2>2, <2>3, <2>4, <2>5 DEF Places
  <1>4. CASE Submits
    <2>1. /\ UNCHANGED <<pending_queue, cancel_queue, queue, delivered, fed>>
          /\ rollout_sample' = None
      BY <1>4 DEF Submits
    <2>2. If(rollout_sample' = s) = 0
      BY <2>1, SamplesAreNumbers DEF If
    <2>3. If(task'[s] = "generating")
            <= If(rollout_sample = s) + If(task[s] = "generating")
      BY <1>4 DEF Submits, If, Types
    <2>4. If(task'[s] = "generating") \in Nat
      BY DEF If
    <2> QED
      BY <2>1, <2>2, <2>3, <2>4 DEF Places
  <1> QED
    BY <1>0, <1>1, <1>2, <1>3, <1>4

\* A task takes its sample along; a full queue loses its oldest one.
LEMMA PutPlaces ==
    ASSUME Types, Types', NEW t \in Samples, Task(t), TaskPut(t),
           NEW s \in Samples
    PROVE  Places(s)' + If(MQ!IsFull /\ s = Head(queue)) = Places(s)
  <1> USE PlacesNumbers
  <1>1. UNCHANGED <<pending_queue, rollout_sample>> /\ t \in Nat
    BY SamplesAreNumbers DEF Task, taskFrame, processorVars
  <1>2. /\ task' = [task EXCEPT ![t] = "put"] /\ task[t] = "generating"
        /\ queue' = MQ!Pushed(t)
        /\ UNCHANGED <<delivered, cancel_queue>>
    BY DEF TaskPut, MQ!PutSample
  <1>3. /\ Occurrences(s, queue') + If(MQ!IsFull /\ s = Head(queue))
                = Occurrences(s, queue) + If(s = t)
        /\ Occurrences(s, queue') \in Nat
    BY <1>1, <1>2, PushedPlaces
  <1>4. If(task'[s] = "generating") + If(s = t) = If(task[s] = "generating")
    BY <1>2 DEF If, Types
  <1>5. /\ If(s = t) \in Nat /\ If(task'[s] = "generating") \in Nat
        /\ If(MQ!IsFull /\ s = Head(queue)) \in Nat
    BY DEF If
  <1>6. UNCHANGED <<pending_queue, rollout_sample, delivered, cancel_queue>>
    BY <1>1, <1>2
  <1> QED
    BY <1>3, <1>4, <1>5, <1>6 DEF Places

LEMMA FailPlaces ==
    ASSUME Types, Types', NEW t \in Samples, TaskFailure(t),
           NEW s \in Samples
    PROVE  Places(s)' + If(s = t) = Places(s)
  <1> USE PlacesNumbers
  <1>1. UNCHANGED <<pending_queue, rollout_sample, queue, delivered,
                    cancel_queue>>
    BY DEF TaskFailure, TaskFail, taskFrame, processorVars, mqVars
  <1>2. If(task'[s] = "generating") + If(s = t) = If(task[s] = "generating")
    BY DEF TaskFailure, TaskFail, If, Types
  <1>3. If(s = t) \in Nat /\ If(task'[s] = "generating") \in Nat
    BY DEF If
  <1> QED
    BY <1>1, <1>2, <1>3 DEF Places

LEMMA KeepPlaces ==
    ASSUME Types, Types', NEW t \in Samples, Task(t), ~TaskPut(t),
           NEW s \in Samples
    PROVE  Places(s)' = Places(s)
  <1> USE PlacesNumbers
  <1>0. t \in Nat
    BY SamplesAreNumbers
  <1>1. UNCHANGED <<pending_queue, rollout_sample, queue, delivered>>
    BY DEF Task, TaskReturn, TaskInterrupted, taskFrame, processorVars, mqVars
  <1>2. CASE TaskReturn(t)
    <2>1. UNCHANGED cancel_queue
      BY <1>2 DEF TaskReturn
    <2>2. If(task'[s] = "generating") = If(task[s] = "generating")
      BY <1>2 DEF TaskReturn, If, Types
    <2> QED
      BY <1>1, <2>1, <2>2 DEF Places
  <1>3. CASE TaskInterrupted(t)
    <2>1. /\ task' = [task EXCEPT ![t] = "none"] /\ task[t] = "generating"
          /\ cancel_queue' = Append(cancel_queue, t)
      BY <1>3 DEF TaskInterrupted, KeepPartial
    <2>2. Occurrences(s, cancel_queue') = Occurrences(s, cancel_queue) + If(s = t)
      <3>1. cancel_queue \in Seq(Nat)
        BY DEF Types
      <3>2. Occurrences(s, Append(cancel_queue, t))
                = Occurrences(s, cancel_queue) + If(s = t)
        BY <1>0, <3>1, OccurrencesAppend, SMTT(40)
      <3> QED
        BY <2>1, <3>2
    <2>3. If(task'[s] = "generating") + If(s = t) = If(task[s] = "generating")
      BY <2>1 DEF If, Types
    <2>4. If(s = t) \in Nat /\ If(task'[s] = "generating") \in Nat
      BY DEF If
    <2> QED
      BY <1>1, <2>2, <2>3, <2>4 DEF Places
  <1> QED
    BY <1>2, <1>3 DEF Task

LEMMA TaskPlaces ==
    ASSUME Types, Types', NEW t \in Samples, Task(t) \/ TaskFailure(t),
           NEW s \in Samples
    PROVE  Places(s)' <= Places(s)
  <1>1. Places(s) \in Nat /\ Places(s)' \in Nat
    BY PlacesNumbers, PlacesNumbersPrimed
  <1>2. CASE Task(t) /\ TaskPut(t)
    <2>1. Places(s)' + If(MQ!IsFull /\ s = Head(queue)) = Places(s)
      BY <1>2, PutPlaces
    <2>2. If(MQ!IsFull /\ s = Head(queue)) \in Nat
      BY DEF If
    <2> QED
      BY <1>1, <2>1, <2>2
  <1>3. CASE Task(t) /\ ~TaskPut(t)
    BY <1>1, <1>3, KeepPlaces
  <1>4. CASE TaskFailure(t)
    <2>1. Places(s)' + If(s = t) = Places(s)
      BY <1>4, FailPlaces
    <2>2. If(s = t) \in Nat
      BY DEF If
    <2> QED
      BY <1>1, <2>1, <2>2
  <1> QED
    BY <1>2, <1>3, <1>4

LEMMA TrainerPlaces ==
    ASSUME Types, Types', Trainer, NEW s \in Samples
    PROVE  Places(s)' = Places(s) /\ UNCHANGED fed
  <1> USE PlacesNumbers
  <1>1. UNCHANGED <<pending_queue, rollout_sample, task, cancel_queue, fed>>
    BY TrainerEffect
  <1>2. CASE UNCHANGED <<queue, delivered>>
    BY <1>1, <1>2 DEF Places
  <1>3. CASE /\ queue # <<>> /\ queue' = Tail(queue)
             /\ delivered' = Append(delivered, Head(queue))
    <2>1. /\ Occurrences(s, queue)
                = Occurrences(s, queue') + If(s = Head(queue))
          /\ Occurrences(s, queue') \in Nat /\ Head(queue) \in Nat
      BY <1>3, OccurrencesTail, ZenonT(60) DEF Types
    <2>2. Occurrences(s, delivered')
            = Occurrences(s, delivered) + If(s = Head(queue))
      <3> DEFINE e == Head(queue)
      <3>1. delivered \in Seq(Nat) /\ e \in Nat
        BY <2>1 DEF Types
      <3> HIDE DEF e
      <3>2. Occurrences(s, Append(delivered, e))
                = Occurrences(s, delivered) + If(s = e)
        BY <3>1, OccurrencesAppend
      <3> QED
        BY <1>3, <3>2 DEF e
    <2>3. If(s = Head(queue)) \in Nat
      BY DEF If
    <2> QED
      BY <1>1, <2>1, <2>2, <2>3 DEF Places
  <1> QED
    BY <1>1, <1>2, <1>3, TrainerEffect

\* The finish signal is no sample.
LEMMA MainPlaces ==
    ASSUME Types, Types', Main, NEW s \in Samples
    PROVE  Places(s)' <= Places(s) /\ UNCHANGED fed
  <1> USE PlacesNumbers
  <1>1. UNCHANGED <<pending_queue, rollout_sample, task, cancel_queue,
                    delivered, fed>>
    BY MainEffect
  <1>2. Occurrences(s, queue') <= Occurrences(s, queue)
    <2>1. /\ Occurrences(s, MQ!Pushed(None)) <= Occurrences(s, queue) + If(s = None)
          /\ Occurrences(s, MQ!Pushed(None)) \in Nat
      BY PushedPlaces DEF None
    <2>2. If(s = None) = 0
      BY SamplesAreNumbers DEF If
    <2>3. queue' = MQ!Pushed(None) \/ queue' = queue
      BY MainEffect
    <2> QED
      BY <2>1, <2>2, <2>3
  <1>3. Occurrences(s, queue') \in Nat
    BY AtFinite DEF Types
  <1> QED
    BY <1>1, <1>2, <1>3 DEF Places

\* The feed creates the next sample, and only that one.
LEMMA FeedPlaces ==
    ASSUME Types, Types', FeedSample, NEW s \in Samples
    PROVE  Places(s)' = Places(s) + If(s = fed + 1) /\ fed' = fed + 1
  <1> USE PlacesNumbers
  <1>1. /\ UNCHANGED <<rollout_sample, task, cancel_queue, queue, delivered>>
        /\ fed' = fed + 1 /\ fed <= Total
    BY DEF FeedSample, mqVars, processorVars, activeVars
  <1> DEFINE e == IF fed < Total THEN fed + 1 ELSE Done
  <1>2. pending_queue' = Append(pending_queue, e)
    BY DEF FeedSample
  <1>3. e \in Nat
    BY DEF Types, Done
  <1>4. If(s = e) = If(s = fed + 1)
    <2>1. CASE fed < Total
      BY <2>1
    <2>2. CASE ~(fed < Total)
      BY <1>1, <2>2, SamplesAreNumbers, RollouterAssumption
      DEF If, Types, Samples, Done, None
    <2> QED
      BY <2>1, <2>2
  <1> HIDE DEF e
  <1>5. Occurrences(s, pending_queue') = Occurrences(s, pending_queue) + If(s = e)
    BY <1>2, <1>3, OccurrencesAppend DEF Types
  <1>6. If(s = e) \in Nat
    BY DEF If
  <1> QED
    BY <1>1, <1>4, <1>5, <1>6 DEF Places

LEMMA CustodyKept ==
    ASSUME Types, Types', CustodyInv, UNCHANGED fed,
           \A s \in Samples : Places(s)' <= Places(s)
    PROVE  CustodyInv'
  <1> SUFFICES ASSUME NEW s \in Samples
               PROVE  (Places(s) <= 1 /\ (s > fed => Places(s) = 0))'
    BY DEF CustodyInv
  <1>1. Places(s) \in Nat
    BY PlacesNumbers
  <1>2. Places(s)' \in Nat
    BY PlacesNumbersPrimed
  <1> QED
    BY <1>1, <1>2 DEF CustodyInv

LEMMA CustodyNext == Types /\ Types' /\ CustodyInv /\ [Next]_vars => CustodyInv'
  <1> SUFFICES ASSUME Types, Types', CustodyInv, [Next]_vars PROVE CustodyInv'
    OBVIOUS
  <1>1. CASE Rollouts(FeedSample)
    <2> SUFFICES ASSUME NEW s \in Samples
                 PROVE  (Places(s) <= 1 /\ (s > fed => Places(s) = 0))'
      BY DEF CustodyInv
    <2>1. Places(s)' = Places(s) + If(s = fed + 1) /\ fed' = fed + 1
      BY <1>1, FeedPlaces DEF Rollouts
    <2>2. Places(s) \in Nat /\ fed \in Nat /\ s \in Nat
      BY PlacesNumbers, SamplesAreNumbers DEF Types
    <2>3. Places(s) <= 1 /\ (s > fed => Places(s) = 0)
      BY DEF CustodyInv
    <2>4. CASE s = fed + 1
      BY <2>1, <2>2, <2>3, <2>4 DEF If
    <2>5. CASE s # fed + 1
      BY <2>1, <2>2, <2>3, <2>5 DEF If
    <2> QED
      BY <2>4, <2>5
  <1>2. CASE Rollouts(Processor)
    <2>1. Processor
      BY <1>2 DEF Rollouts
    <2>2. \A s \in Samples : Places(s)' <= Places(s)
      BY <2>1, ProcessorPlaces
    <2>3. UNCHANGED fed
      BY <2>1 DEF Processor
    <2> QED
      BY <2>2, <2>3, CustodyKept
  <1>3. CASE Rollouts(Main)
    <2>1. Main
      BY <1>3 DEF Rollouts
    <2>2. \A s \in Samples : Places(s)' <= Places(s)
      BY <2>1, MainPlaces
    <2>3. UNCHANGED fed
      BY <2>1 DEF Main, queueVars
    <2> QED
      BY <2>2, <2>3, CustodyKept
  <1>4. CASE Rollouts(Monitor) \/ Rollouts(Calls)
    BY <1>4, OthersEffect DEF Rollouts, otherVars, placeVars, CustodyInv, Places
  <1>5. ASSUME NEW s \in Samples, Rollouts(Task(s)) \/ Rollouts(TaskFailure(s))
        PROVE  CustodyInv'
    <2>1. Task(s) \/ TaskFailure(s)
      BY <1>5 DEF Rollouts
    <2>2. \A t \in Samples : Places(t)' <= Places(t)
      BY <2>1, TaskPlaces
    <2>3. UNCHANGED fed
      BY <2>1 DEF Task, TaskFailure, taskFrame
    <2> QED
      BY <2>2, <2>3, CustodyKept
  <1>6. CASE Trainer
    <2>1. \A s \in Samples : Places(s)' <= Places(s)
      BY <1>6, TrainerPlaces, PlacesNumbers
    <2>2. UNCHANGED fed
      BY <1>6, TrainerEffect
    <2> QED
      BY <2>1, <2>2, CustodyKept
  <1>7. CASE MainClearQueue
    <2>1. \A s \in Samples : Places(s)' <= Places(s)
      <3> SUFFICES ASSUME NEW s \in Samples PROVE Places(s)' <= Places(s)
        OBVIOUS
      <3>1. Occurrences(s, queue') = 0
        BY <1>7, ClearEffect, OccurrencesEmpty
      <3> QED
        BY <1>7, <3>1, ClearEffect, PlacesNumbers DEF Places
    <2> QED
      BY <1>7, <2>1, ClearEffect, CustodyKept
  <1>8. CASE UNCHANGED vars
    BY <1>8 DEF vars, rollouterVars, mqVars, queueVars, processorVars,
                activeVars, CustodyInv, Places
  <1> QED
    BY <1>1, <1>2, <1>3, <1>4, <1>5, <1>6, <1>7, <1>8 DEF Next

LEMMA CustodyHolds == Spec => []CustodyInv
  <1>1. Init => CustodyInv
    <2> SUFFICES ASSUME Init, NEW s \in Samples PROVE Places(s) = 0
      BY DEF CustodyInv
    <2>1. /\ Occurrences(s, pending_queue) = 0
          /\ Occurrences(s, cancel_queue) = 0
          /\ Occurrences(s, queue) = 0
          /\ Occurrences(s, delivered) = 0
      BY OccurrencesEmpty DEF Init, RollouterInit, MQ!Init
    <2>2. If(rollout_sample = s) = 0 /\ If(task[s] = "generating") = 0
      BY SamplesAreNumbers DEF Init, RollouterInit, If
    <2> QED
      BY <2>1, <2>2 DEF Places
  <1> QED
    BY <1>1, TypesHold, CustodyNext, PTL DEF Spec

\* A sample is in one place at a time, among the queues, the processor's
\* hands, the running generations and what the trainer was given: pauses,
\* interruptions and retries never generate it twice or hand it over twice.
THEOREM AsyncSingleCustody == Spec => []SingleCustody
  <1>1. CustodyInv => SingleCustody
    BY DEF CustodyInv, SingleCustody
  <1> QED
    BY <1>1, CustodyHolds, PTL

-----------------------------------------------------------------------------
(* The finish signal.                                                      *)

Generating == {s \in Samples : task[s] = "generating"}

\* The trainer may still ask for the finish signal.
Awaited ==
    \/ trainer \in {"collect", "train"}
    \/ trainer \in {"wait_last_valid", "pausing", "syncing"} /\ ~final

\* The only finish signal is the i-th in the queue, and the samples that may
\* come to stand behind it are too few to push it out.
SignalAt(i) ==
    /\ i \in 1..Len(queue)
    /\ \A j \in 1..Len(queue) : queue[j] = None <=> j = i
    /\ Len(queue) - i + Cardinality(Generating) < MaxConcurrent

FinishInv ==
    /\ main = "run" => \A j \in 1..Len(queue) : queue[j] # None
    /\ main # "run" => ProcessorOver
    /\ main # "run" /\ Awaited => \E i \in Nat : SignalAt(i)

LEMMA GeneratingCount ==
    ASSUME Types
    PROVE  /\ IsFiniteSet(Generating) /\ Cardinality(Generating) \in Nat
           /\ Cardinality(Generating) <= ActiveTasks
  <1>1. Generating \in SUBSET RunningTasks
    BY DEF Generating, RunningTasks
  <1>2. /\ IsFiniteSet(Generating) /\ Cardinality(Generating) \in Nat
        /\ Cardinality(Generating) <= Cardinality(RunningTasks)
    BY <1>1, RunningCount, FS_Subset, FS_CardinalityType
  <1> QED
    BY <1>2, RunningCount DEF ActiveTasks, Types

\* Without the processor, no generation starts.
LEMMA GeneratingFalls ==
    ASSUME Types, Types', [Next]_vars, ProcessorOver
    PROVE  /\ Cardinality(Generating') <= Cardinality(Generating)
           /\ Cardinality(Generating') \in Nat
  <1>1. Generating' \in SUBSET Generating
    <2> SUFFICES ASSUME NEW s \in Samples, task'[s] = "generating",
                        task[s] # "generating"
                 PROVE  FALSE
      BY DEF Generating
    <2>1. Submits
      BY OnlyProcessorSubmits
    <2> QED
      BY <2>1 DEF Submits, ProcessorOver
  <1> QED
    BY <1>1, GeneratingCount, FS_Subset, FS_CardinalityType

LEMMA PutFalls ==
    ASSUME Types, NEW s \in Samples, TaskPut(s)
    PROVE  Cardinality(Generating') = Cardinality(Generating) - 1
  <1>1. Generating' = Generating \ {s} /\ s \in Generating
    BY DEF Generating, TaskPut, Types
  <1>2. Cardinality(Generating \ {s}) = Cardinality(Generating) - 1
    BY <1>1, GeneratingCount, FS_RemoveElement
  <1> QED
    BY <1>1, <1>2

\* What is where in the queue after a push: all stay in their places, or
\* move one place to the front.
LEMMA PushedAt ==
    ASSUME Types, NEW x \in Nat
    PROVE  LET q == MQ!Pushed(x)
               d == IF MQ!IsFull THEN 1 ELSE 0
           IN  /\ q \in Seq(Nat)
               /\ Len(queue) \in Nat /\ d <= Len(queue)
               /\ Len(q) = Len(queue) - d + 1
               /\ q[Len(queue) - d + 1] = x
               /\ \A j \in 1..(Len(queue) - d) : q[j] = queue[j + d]
  <1>1. queue \in Seq(Nat) /\ Len(queue) \in Nat
    BY LenProperties DEF Types
  <1>2. CASE MQ!IsFull
    <2> DEFINE rest == Tail(queue)
    <2>1. queue # <<>>
      BY <1>1, <1>2, RollouterAssumption, EmptySeq DEF MQ!IsFull
    <2>2. /\ rest \in Seq(Nat) /\ Len(rest) = Len(queue) - 1
          /\ Len(queue) >= 1
          /\ \A j \in 1..(Len(queue) - 1) : rest[j] = queue[j + 1]
      BY <1>1, <2>1, HeadTailProperties, EmptySeq
    <2>3. MQ!Pushed(x) = Append(rest, x)
      BY <1>2 DEF MQ!Pushed
    <2> HIDE DEF rest
    <2>4. /\ Append(rest, x) \in Seq(Nat)
          /\ Len(Append(rest, x)) = Len(queue)
          /\ Append(rest, x)[Len(queue)] = x
          /\ \A j \in 1..(Len(queue) - 1) : Append(rest, x)[j] = queue[j + 1]
      BY <1>1, <2>2, AppendProperties
    <2> QED
      BY <1>1, <1>2, <2>2, <2>3, <2>4
  <1>3. CASE ~MQ!IsFull
    <2>1. MQ!Pushed(x) = Append(queue, x)
      BY <1>3 DEF MQ!Pushed
    <2>2. /\ Append(queue, x) \in Seq(Nat)
          /\ Len(Append(queue, x)) = Len(queue) + 1
          /\ Append(queue, x)[Len(queue) + 1] = x
          /\ \A j \in 1..Len(queue) : Append(queue, x)[j] = queue[j]
      BY <1>1, AppendProperties
    <2> QED
      BY <1>1, <1>3, <2>1, <2>2
  <1> QED
    BY <1>2, <1>3

\* A step that leaves the queue alone.
LEMMA SignalStays ==
    ASSUME Types, Types', [Next]_vars, ProcessorOver, UNCHANGED queue,
           NEW i \in Nat, SignalAt(i)
    PROVE  SignalAt(i)'
  <1>1. /\ Cardinality(Generating') <= Cardinality(Generating)
        /\ Cardinality(Generating') \in Nat /\ Cardinality(Generating) \in Nat
        /\ MaxConcurrent \in Nat /\ Len(queue) \in Nat
    BY GeneratingFalls, GeneratingCount, RollouterAssumption, LenProperties
    DEF Types
  <1> QED
    BY <1>1 DEF SignalAt

\* A sample that follows the signal: it takes the place of its generation.
LEMMA SignalBeforePut ==
    ASSUME Types, Types', NEW s \in Samples, TaskPut(s),
           NEW i \in Nat, SignalAt(i)
    PROVE  \E k \in Nat : SignalAt(k)'
  <1> DEFINE d == IF MQ!IsFull THEN 1 ELSE 0
             n == Len(queue)
             g == Cardinality(Generating)
  <1>1. queue' = MQ!Pushed(s) /\ s \in Nat /\ s # None
    BY SamplesAreNumbers DEF TaskPut, MQ!PutSample
  <1>2. /\ Len(queue') = n - d + 1 /\ n \in Nat /\ d <= n
        /\ queue'[n - d + 1] = s
        /\ \A j \in 1..(n - d) : queue'[j] = queue[j + d]
    BY <1>1, PushedAt
  <1>3. /\ Cardinality(Generating') = g - 1 /\ g \in Nat
        /\ MaxConcurrent \in Nat /\ MaxConcurrent <= MaxRequired
        /\ MaxRequired \in Nat
    BY PutFalls, GeneratingCount, RollouterAssumption
  <1>4. /\ i \in 1..n /\ n - i + g < MaxConcurrent
        /\ \A j \in 1..n : queue[j] = None <=> j = i
    BY DEF SignalAt
  <1>5. g >= 1
    <2>1. s \in Generating
      BY DEF TaskPut, Generating
    <2> QED
      BY <2>1, <1>3, GeneratingCount, FS_EmptySet
  <1>6. i - d \in 1..(n - d)
    <2>1. CASE MQ!IsFull
      BY <1>2, <1>3, <1>4, <1>5, <2>1 DEF MQ!IsFull
    <2>2. CASE ~MQ!IsFull
      BY <1>2, <1>4, <2>2
    <2> QED
      BY <2>1, <2>2
  <1>7. d \in {0, 1}
    OBVIOUS
  <1> HIDE DEF d
  <1>8. ASSUME NEW j \in 1..(n - d + 1)
        PROVE  queue'[j] = None <=> j = i - d
    <2>1. CASE j = n - d + 1
      BY <1>1, <1>2, <1>6, <1>7, <2>1
    <2>2. CASE j # n - d + 1
      <3>1. j \in 1..(n - d) /\ j + d \in 1..n
        BY <1>2, <1>7, <2>2
      <3> QED
        BY <1>2, <1>4, <1>7, <3>1
    <2> QED
      BY <2>1, <2>2
  <1>9. Len(queue') - (i - d) + Cardinality(Generating') < MaxConcurrent
    BY <1>2, <1>3, <1>4, <1>7
  <1>10. i - d \in Nat /\ i - d \in 1..Len(queue')
    BY <1>2, <1>6, <1>7
  <1>11. PICK k \in Nat : k = i - d
    BY <1>10
  <1>12. /\ k \in 1..Len(queue')
         /\ \A j \in 1..Len(queue') : queue'[j] = None <=> j = k
         /\ Len(queue') - k + Cardinality(Generating') < MaxConcurrent
    BY <1>2, <1>8, <1>9, <1>10, <1>11
  <1>13. SignalAt(k)'
    BY <1>12 DEF SignalAt
  <1> QED
    BY <1>13

\* The trainer takes a sample from before the signal.
LEMMA SignalAfterTake ==
    ASSUME Types, Types', [Next]_vars, ProcessorOver, NEW i \in Nat, SignalAt(i),
           queue # <<>>, queue' = Tail(queue), Head(queue) # None
    PROVE  \E k \in Nat : SignalAt(k)'
  <1>1. /\ Len(queue) \in Nat /\ Len(queue') = Len(queue) - 1
        /\ Head(queue) = queue[1]
        /\ \A j \in 1..Len(queue') : queue'[j] = queue[j + 1]
    BY HeadTailProperties, LenProperties DEF Types
  <1>2. /\ Cardinality(Generating') <= Cardinality(Generating)
        /\ Cardinality(Generating') \in Nat /\ Cardinality(Generating) \in Nat
        /\ MaxConcurrent \in Nat
    BY GeneratingFalls, GeneratingCount, RollouterAssumption
  <1>3. /\ i \in 1..Len(queue)
        /\ \A j \in 1..Len(queue) : queue[j] = None <=> j = i
        /\ Len(queue) - i + Cardinality(Generating) < MaxConcurrent
    BY DEF SignalAt
  <1>4. i # 1
    BY <1>1, <1>3
  <1>5. /\ i - 1 \in Nat /\ i - 1 \in 1..Len(queue')
        /\ Len(queue') - (i - 1) + Cardinality(Generating') < MaxConcurrent
    BY <1>1, <1>2, <1>3, <1>4
  <1>6. \A j \in 1..Len(queue') : queue'[j] = None <=> j = i - 1
    <2> SUFFICES ASSUME NEW j \in 1..Len(queue')
                 PROVE  queue'[j] = None <=> j = i - 1
      OBVIOUS
    <2>1. j + 1 \in 1..Len(queue) /\ queue'[j] = queue[j + 1]
      BY <1>1
    <2> QED
      BY <1>3, <2>1
  <1>7. SignalAt(i - 1)'
    BY <1>5, <1>6 DEF SignalAt
  <1> QED
    BY <1>5, <1>7

\* The signal is sent: it is the last in the queue.
LEMMA SignalSent ==
    ASSUME Types, Types', [Next]_vars, ProcessorOver, ConcurrencyInv,
           \A j \in 1..Len(queue) : queue[j] # None,
           queue' = MQ!Pushed(None)
    PROVE  \E k \in Nat : SignalAt(k)'
  <1> DEFINE d == IF MQ!IsFull THEN 1 ELSE 0
             n == Len(queue)
  <1>1. /\ Len(queue') = n - d + 1 /\ n \in Nat /\ d <= n
        /\ queue'[n - d + 1] = None
        /\ \A j \in 1..(n - d) : queue'[j] = queue[j + d]
    BY PushedAt DEF None
  <1>2. d \in {0, 1}
    OBVIOUS
  <1> HIDE DEF d
  <1>3. /\ Cardinality(Generating') \in Nat
        /\ Cardinality(Generating') < MaxConcurrent
        /\ MaxConcurrent \in Nat
    BY GeneratingFalls, GeneratingCount, RunningCount, RollouterAssumption
    DEF ConcurrencyInv
  <1>4. ASSUME NEW j \in 1..(n - d + 1)
        PROVE  queue'[j] = None <=> j = n - d + 1
    <2>1. CASE j = n - d + 1
      BY <1>1, <2>1
    <2>2. CASE j # n - d + 1
      <3>1. j \in 1..(n - d) /\ j + d \in 1..n
        BY <1>1, <1>2, <2>2
      <3> QED
        BY <1>1, <3>1, <2>2
    <2> QED
      BY <2>1, <2>2
  <1>5. PICK k \in Nat : k = n - d + 1
    BY <1>1, <1>2
  <1>6. /\ k \in 1..Len(queue')
        /\ \A j \in 1..Len(queue') : queue'[j] = None <=> j = k
        /\ Len(queue') - k + Cardinality(Generating') < MaxConcurrent
    BY <1>1, <1>2, <1>3, <1>4, <1>5
  <1>7. SignalAt(k)'
    BY <1>6 DEF SignalAt
  <1> QED
    BY <1>7

\* Whether the trainer may still ask for the signal depends on its own steps.
LEMMA TrainerAwaits ==
    ASSUME Trainer, Awaited'
    PROVE  /\ Awaited
           /\ queue # <<>> /\ queue' = Tail(queue) /\ queue' # queue
                => Head(queue) # None
  <1>1. CASE TrainerGet
    <2>1. Awaited
      BY <1>1 DEF TrainerGet, Awaited
    <2>2. queue # <<>> => Head(queue) # None
      BY <1>1 DEF TrainerGet, Collect, Awaited
    <2> QED
      BY <2>1, <2>2
  <1>2. CASE TrainStep \/ TrainerFinal \/ TrainerDone
    BY <1>2 DEF TrainStep, TrainerFinal, TrainerDone, NextVersion, Awaited,
                mqVars
  <1>3. CASE Synchronizer
    BY <1>3 DEF Synchronizer, SyncPause, SyncWeights, SyncReturn, Awaited,
                mqVars
  <1> QED
    BY <1>1, <1>2, <1>3 DEF Trainer

\* Samples that are put before the processor is over are no finish signal.
LEMMA NoSignalBefore ==
    ASSUME Types, NEW s \in Samples, TaskPut(s),
           \A j \in 1..Len(queue) : queue[j] # None
    PROVE  \A j \in 1..Len(queue') : queue'[j] # None
  <1> DEFINE d == IF MQ!IsFull THEN 1 ELSE 0
             n == Len(queue)
  <1>1. queue' = MQ!Pushed(s) /\ s \in Nat /\ s # None
    BY SamplesAreNumbers DEF TaskPut, MQ!PutSample
  <1>2. /\ Len(queue') = n - d + 1 /\ n \in Nat /\ d <= n
        /\ queue'[n - d + 1] = s
        /\ \A j \in 1..(n - d) : queue'[j] = queue[j + d]
    BY <1>1, PushedAt
  <1>3. d \in {0, 1}
    OBVIOUS
  <1> HIDE DEF d
  <1> SUFFICES ASSUME NEW j \in 1..Len(queue') PROVE queue'[j] # None
    OBVIOUS
  <1>4. CASE j = n - d + 1
    BY <1>1, <1>2, <1>4
  <1>5. CASE j # n - d + 1
    <2>1. j \in 1..(n - d) /\ j + d \in 1..n
      BY <1>2, <1>3, <1>5
    <2> QED
      BY <1>2, <2>1
  <1> QED
    BY <1>4, <1>5

\* Steps that change neither the queue nor what main and the trainer do.
LEMMA FinishStays ==
    ASSUME Types, Types', [Next]_vars, FinishInv, UNCHANGED <<queue, main>>,
           ProcessorOver => ProcessorOver', Awaited' => Awaited
    PROVE  FinishInv'
  <1>1. (main = "run" => \A j \in 1..Len(queue) : queue[j] # None)'
    BY DEF FinishInv
  <1>2. (main # "run" => ProcessorOver)'
    BY DEF FinishInv
  <1>3. ASSUME main' # "run", Awaited'
        PROVE  \E i \in Nat : SignalAt(i)'
    <2>1. ProcessorOver /\ \E i \in Nat : SignalAt(i)
      BY <1>3 DEF FinishInv
    <2> QED
      BY <2>1, SignalStays
  <1> QED
    BY <1>1, <1>2, <1>3 DEF FinishInv

LEMMA FinishTask ==
    ASSUME Types, Types', [Next]_vars, FinishInv, UNCHANGED trainerVars,
           NEW s \in Samples, Task(s) \/ TaskFailure(s)
    PROVE  FinishInv'
  <1>0. UNCHANGED <<main, processor, trainer, final>>
    BY DEF Task, TaskFailure, taskFrame, processorVars, trainerVars
  <1>1. /\ (ProcessorOver' <=> ProcessorOver) /\ (Awaited' <=> Awaited)
    BY <1>0 DEF ProcessorOver, Awaited
  <1>2. CASE UNCHANGED queue
    BY <1>0, <1>1, <1>2, FinishStays
  <1>3. CASE TaskPut(s)
    <2>1. (main = "run" => \A j \in 1..Len(queue) : queue[j] # None)'
      BY <1>0, <1>3, NoSignalBefore DEF FinishInv
    <2>2. (main # "run" => ProcessorOver)'
      BY <1>0, <1>1 DEF FinishInv
    <2>3. ASSUME main' # "run", Awaited'
          PROVE  \E i \in Nat : SignalAt(i)'
      <3>1. \E i \in Nat : SignalAt(i)
        BY <1>0, <1>1, <2>3 DEF FinishInv
      <3> QED
        BY <1>3, <3>1, SignalBeforePut
    <2> QED
      BY <2>1, <2>2, <2>3 DEF FinishInv
  <1> QED
    BY <1>2, <1>3 DEF Task, TaskFailure, TaskReturn, TaskInterrupted,
                      TaskFail, mqVars

LEMMA FinishTrainer ==
    ASSUME Types, Types', [Next]_vars, FinishInv, Trainer
    PROVE  FinishInv'
  <1>0. UNCHANGED <<main, processor>>
    BY TrainerEffect
  <1>1. (ProcessorOver' <=> ProcessorOver) /\ (Awaited' => Awaited)
    BY <1>0, TrainerAwaits DEF ProcessorOver
  <1>2. CASE UNCHANGED queue
    BY <1>0, <1>1, <1>2, FinishStays
  <1>3. CASE queue # <<>> /\ queue' = Tail(queue) /\ queue' # queue
    <2>1. /\ Len(queue') = Len(queue) - 1 /\ Len(queue) \in Nat
          /\ \A j \in 1..Len(queue') : queue'[j] = queue[j + 1]
      BY <1>3, HeadTailProperties, LenProperties DEF Types
    <2>2. (main = "run" => \A j \in 1..Len(queue) : queue[j] # None)'
      <3> SUFFICES ASSUME main = "run", NEW j \in 1..Len(queue')
                   PROVE  queue'[j] # None
        BY <1>0
      <3>1. j + 1 \in 1..Len(queue) /\ queue'[j] = queue[j + 1]
        BY <2>1
      <3> QED
        BY <3>1 DEF FinishInv
    <2>3. (main # "run" => ProcessorOver)'
      BY <1>0, <1>1 DEF FinishInv
    <2>4. ASSUME main' # "run", Awaited'
          PROVE  \E i \in Nat : SignalAt(i)'
      <3>1. ProcessorOver /\ \E i \in Nat : SignalAt(i)
        BY <1>0, <1>1, <2>4 DEF FinishInv
      <3>2. Head(queue) # None
        BY <1>3, <2>4, TrainerAwaits
      <3> QED
        BY <1>3, <3>1, <3>2, SignalAfterTake
    <2> QED
      BY <2>2, <2>3, <2>4 DEF FinishInv
  <1> QED
    BY <1>2, <1>3, TrainerEffect

LEMMA FinishMain ==
    ASSUME Types, Types', [Next]_vars, ConcurrencyInv, FinishInv, Main,
           UNCHANGED trainerVars
    PROVE  FinishInv'
  <1>0. /\ UNCHANGED <<processor, trainer, final>> /\ main' # "run"
    BY MainEffect DEF trainerVars
  <1>1. (ProcessorOver' <=> ProcessorOver) /\ (Awaited' <=> Awaited)
    BY <1>0 DEF ProcessorOver, Awaited
  <1>2. CASE main = "run" /\ ProcessorOver /\ queue' = MQ!Pushed(None)
    <2>1. \E k \in Nat : SignalAt(k)'
      BY <1>2, SignalSent DEF FinishInv
    <2> QED
      BY <1>0, <1>1, <1>2, <2>1 DEF FinishInv
  <1>3. CASE main # "run" /\ UNCHANGED queue
    <2>1. ProcessorOver
      BY <1>3 DEF FinishInv
    <2>2. Awaited' => \E i \in Nat : SignalAt(i)'
      BY <1>1, <1>3, <2>1, SignalStays DEF FinishInv
    <2> QED
      BY <1>0, <1>1, <2>1, <2>2 DEF FinishInv
  <1> QED
    BY <1>2, <1>3, MainEffect

LEMMA FinishNext ==
    Types /\ Types' /\ ConcurrencyInv /\ FinishInv /\ [Next]_vars => FinishInv'
  <1> SUFFICES ASSUME Types, Types', ConcurrencyInv, FinishInv, [Next]_vars
               PROVE  FinishInv'
    OBVIOUS
  <1>1. CASE Rollouts(FeedSample)
    BY <1>1, FinishStays
    DEF Rollouts, FeedSample, trainerVars, mqVars, processorVars, Awaited,
        ProcessorOver
  <1>2. CASE Rollouts(Processor)
    <2>1. UNCHANGED <<queue, main, trainer, final>> /\ ~ProcessorOver
      BY <1>2, ProcessorEnds DEF Rollouts, Processor, mqVars, trainerVars
    <2> QED
      BY <2>1, FinishStays DEF Awaited
  <1>3. CASE Rollouts(Main)
    BY <1>3, FinishMain DEF Rollouts
  <1>4. CASE Rollouts(Monitor) \/ Rollouts(Calls)
    <2>1. UNCHANGED <<queue, main, processor, trainer, final>>
      BY <1>4, OthersEffect DEF Rollouts, otherVars, placeVars, trainerVars
    <2> QED
      BY <2>1, FinishStays DEF Awaited, ProcessorOver
  <1>5. ASSUME NEW s \in Samples, Rollouts(Task(s)) \/ Rollouts(TaskFailure(s))
        PROVE  FinishInv'
    BY <1>5, FinishTask DEF Rollouts
  <1>6. CASE Trainer
    BY <1>6, FinishTrainer
  <1>7. CASE MainClearQueue
    <2>1. /\ queue' = <<>> /\ trainer = "done"
          /\ UNCHANGED <<main, processor, trainer, final>>
      BY <1>7, ClearEffect DEF trainerVars
    <2> QED
      BY <2>1 DEF FinishInv, Awaited, ProcessorOver
  <1>8. CASE UNCHANGED vars
    BY <1>8, FinishStays
    DEF vars, rollouterVars, mqVars, processorVars, trainerVars, Awaited,
        ProcessorOver
  <1> QED
    BY <1>1, <1>2, <1>3, <1>4, <1>5, <1>6, <1>7, <1>8 DEF Next

LEMMA FinishHolds == Spec => []FinishInv
  <1>1. Init => FinishInv
    BY DEF Init, RollouterInit, MQ!Init, FinishInv
  <1> QED
    BY <1>1, TypesHold, ConcurrencyHolds, FinishNext, PTL DEF Spec

\* Once the processor is over, however it ended, the finish signal waits in
\* the queue until the trainer takes it: tasks that outlive a crashed
\* processor put fewer samples behind it than the queue has room for
\* (_streaming_generation_main and put_sample).
THEOREM AsyncFinishSignalKept == Spec => []FinishSignalKept
  <1>1. Types /\ FinishInv => FinishSignalKept
    <2> SUFFICES ASSUME Types, FinishInv, main # "run", trainer = "collect"
                 PROVE  Occurrences(None, queue) = 1
      BY DEF FinishSignalKept
    <2>1. PICK i \in Nat : SignalAt(i)
      BY DEF FinishInv, Awaited
    <2>2. At(None, queue) = {i}
      BY <2>1 DEF SignalAt, At
    <2>3. Cardinality({i}) = 1
      BY FS_Singleton
    <2> QED
      BY <2>2, <2>3, AtFinite DEF Types
  <1> QED
    BY <1>1, TypesHold, FinishHolds, PTL

-----------------------------------------------------------------------------
(* Every sample is accounted for.                                          *)

\* Where the processor has no sample in hand.
EmptyHands ==
    {"top", "get_pending", "set_paused", "drain_pause", "lock_pause",
     "join_pause", "check_resume", "wait_resume"}

\* The samples that are nowhere any more.
Gone == {s \in Samples : s <= fed /\ Places(s) = 0}

HandsInv == processor \in EmptyHands => rollout_sample = None

QueueRange == \A j \in 1..Len(queue) : queue[j] \in 0..Total

\* What the trainer has done once it no longer asks for samples.
AfterSignal ==
    /\ ~Awaited => main # "run" /\ \A j \in 1..Len(queue) : queue[j] # None
    /\ trainer \in {"collect", "train"} => ~final

Accounted ==
    /\ cleared \in Nat /\ dropped_samples \in Nat /\ failures \in Nat
    /\ cleared = 0 => Cardinality(Gone) = dropped_samples + failures

LEMMA HandsProcessor ==
    ASSUME HandsInv, Processor
    PROVE  HandsInv'
  BY DEF HandsInv, EmptyHands, Processor, ProcessorTop, TakeCancelled,
         TakePending, ProcessorGetPending, ProcessorSetPaused, DrainForPause,
         DrainForDone, DrainForLimit, DrainLoop, DrainLocked, DrainWait,
         ProcessorCheckResume, Relock, ProcessorSubmit, takeVars

LEMMA HandsNext == HandsInv /\ [Next]_vars => HandsInv'
  <1> SUFFICES ASSUME HandsInv, [Next]_vars PROVE HandsInv'
    OBVIOUS
  <1>1. CASE Rollouts(Processor)
    BY <1>1, HandsProcessor DEF Rollouts
  <1>2. CASE \/ Rollouts(FeedSample) \/ Rollouts(Main) \/ Rollouts(Monitor)
             \/ Rollouts(Calls)
             \/ \E s \in Samples : Rollouts(Task(s)) \/ Rollouts(TaskFailure(s))
    <2>1. UNCHANGED <<processor, rollout_sample>>
      BY <1>2, MainEffect, OthersEffect
      DEF Rollouts, FeedSample, Task, TaskFailure, taskFrame, processorVars,
          otherVars, placeVars
    <2> QED
      BY <2>1 DEF HandsInv
  <1>3. CASE Trainer \/ MainClearQueue \/ UNCHANGED vars
    <2>1. UNCHANGED <<processor, rollout_sample>>
      BY <1>3, TrainerEffect, ClearEffect DEF vars, rollouterVars, processorVars
    <2> QED
      BY <2>1 DEF HandsInv
  <1> QED
    BY <1>1, <1>2, <1>3 DEF Next

\* The queue holds samples and the finish signal.
LEMMA RangeAfterPut ==
    ASSUME Types, QueueRange, NEW x \in 0..Total, queue' = MQ!Pushed(x)
    PROVE  QueueRange'
  <1> DEFINE d == IF MQ!IsFull THEN 1 ELSE 0
             n == Len(queue)
  <1>0. x \in Nat
    BY RollouterAssumption
  <1>1. /\ Len(queue') = n - d + 1 /\ n \in Nat /\ d <= n
        /\ queue'[n - d + 1] = x
        /\ \A j \in 1..(n - d) : queue'[j] = queue[j + d]
    BY <1>0, PushedAt
  <1>2. d \in {0, 1}
    OBVIOUS
  <1> HIDE DEF d
  <1> SUFFICES ASSUME NEW j \in 1..Len(queue') PROVE queue'[j] \in 0..Total
    BY DEF QueueRange
  <1>3. CASE j = n - d + 1
    BY <1>1, <1>3
  <1>4. CASE j # n - d + 1
    <2>1. j \in 1..(n - d) /\ j + d \in 1..n
      BY <1>1, <1>2, <1>4
    <2> QED
      BY <1>1, <2>1 DEF QueueRange
  <1> QED
    BY <1>3, <1>4

LEMMA TakenAt ==
    ASSUME Types, queue # <<>>, queue' = Tail(queue)
    PROVE  /\ Len(queue) \in Nat \ {0} /\ Len(queue') = Len(queue) - 1
           /\ Head(queue) = queue[1]
           /\ \A j \in 1..Len(queue') :
                /\ j + 1 \in 1..Len(queue) /\ j + 1 # 1
                /\ queue'[j] = queue[j + 1]
  <1>1. /\ Len(queue) \in Nat \ {0} /\ Len(queue') = Len(queue) - 1
        /\ Head(queue) = queue[1]
        /\ \A j \in 1..Len(queue') : queue'[j] = queue[j + 1]
    BY HeadTailProperties, LenProperties, EmptySeq DEF Types
  <1> QED
    BY <1>1

LEMMA RangeNext == Types /\ QueueRange /\ [Next]_vars => QueueRange'
  <1> SUFFICES ASSUME Types, QueueRange, [Next]_vars PROVE QueueRange'
    OBVIOUS
  <1>1. ASSUME UNCHANGED queue PROVE QueueRange'
    BY <1>1 DEF QueueRange
  <1>2. CASE \/ Rollouts(FeedSample) \/ Rollouts(Processor)
             \/ Rollouts(Monitor) \/ Rollouts(Calls)
    BY <1>1, <1>2, OthersEffect
    DEF Rollouts, FeedSample, Processor, mqVars, otherVars, placeVars
  <1>3. CASE Rollouts(Main)
    <2>1. queue' = MQ!Pushed(None) \/ UNCHANGED queue
      BY <1>3, MainEffect DEF Rollouts
    <2>2. None \in 0..Total
      BY RollouterAssumption DEF None
    <2> QED
      BY <1>1, <2>1, <2>2, RangeAfterPut
  <1>4. ASSUME NEW s \in Samples, Rollouts(Task(s)) \/ Rollouts(TaskFailure(s))
        PROVE  QueueRange'
    <2>1. queue' = MQ!Pushed(s) \/ UNCHANGED queue
      BY <1>4 DEF Rollouts, Task, TaskFailure, TaskPut, MQ!PutSample,
                  TaskReturn, TaskInterrupted, TaskFail, mqVars
    <2>2. s \in 0..Total
      BY RollouterAssumption DEF Samples
    <2> QED
      BY <1>1, <2>1, <2>2, RangeAfterPut
  <1>5. CASE Trainer
    <2>1. CASE queue # <<>> /\ queue' = Tail(queue)
      <3> SUFFICES ASSUME NEW j \in 1..Len(queue') PROVE queue'[j] \in 0..Total
        BY DEF QueueRange
      <3>1. j + 1 \in 1..Len(queue) /\ queue'[j] = queue[j + 1]
        BY <2>1, TakenAt
      <3> QED
        BY <3>1 DEF QueueRange
    <2> QED
      BY <1>1, <1>5, <2>1, TrainerEffect
  <1>6. CASE MainClearQueue
    BY <1>6, ClearEffect DEF QueueRange
  <1>7. CASE UNCHANGED vars
    BY <1>1, <1>7 DEF vars, mqVars
  <1> QED
    BY <1>2, <1>3, <1>4, <1>5, <1>6, <1>7 DEF Next

\* Whatever the trainer does not do leaves the queue without a signal.
LEMMA AfterStays ==
    ASSUME AfterSignal, UNCHANGED <<queue, trainer, final>>,
           main # "run" => main' # "run"
    PROVE  AfterSignal'
  BY DEF AfterSignal, Awaited

\* The signal was the only one.
LEMMA AfterTrainer ==
    ASSUME Types, FinishInv, AfterSignal, Trainer
    PROVE  AfterSignal'
  <1>0. UNCHANGED main
    BY TrainerEffect
  <1>1. CASE TrainerGet
    <2>1. trainer = "collect" /\ UNCHANGED final /\ ~final
      BY <1>1 DEF TrainerGet, AfterSignal
    <2>2. CASE Awaited'
      BY <2>1, <2>2 DEF AfterSignal
    <2>3. CASE ~Awaited'
      <3>1. queue # <<>> /\ queue' = Tail(queue) /\ Head(queue) = None
        BY <1>1, <2>1, <2>3
        DEF TrainerGet, Collect, Awaited, MQ!GetSample, MQ!ResumeGet,
            MQ!Attempt, MQ!PopLeft
      <3>2. 1 \in 1..Len(queue) /\ queue[1] = None
        BY <3>1, TakenAt
      <3>3. main # "run"
        BY <3>2 DEF FinishInv
      <3>4. PICK i \in Nat : SignalAt(i)
        BY <2>1, <3>3 DEF FinishInv, Awaited
      <3>5. \A j \in 1..Len(queue) : queue[j] = None <=> j = 1
        BY <3>2, <3>4 DEF SignalAt
      <3>6. \A j \in 1..Len(queue') : queue'[j] # None
        BY <3>1, <3>5, TakenAt
      <3>7. trainer' = "final"
        BY <1>1, <3>1 DEF TrainerGet, Collect
      <3> QED
        BY <1>0, <3>3, <3>6, <3>7 DEF AfterSignal
    <2> QED
      BY <2>2, <2>3
  <1>2. CASE TrainStep \/ TrainerFinal \/ TrainerDone \/ Synchronizer
    <2>1. UNCHANGED queue
      BY <1>2 DEF TrainStep, TrainerFinal, TrainerDone, Synchronizer, mqVars
    <2>2. Awaited => Awaited'
      <3>1. CASE TrainStep
        BY <3>1 DEF TrainStep, NextVersion, Awaited, AfterSignal
      <3>2. CASE TrainerFinal \/ TrainerDone
        BY <3>2 DEF TrainerFinal, TrainerDone, Awaited
      <3>3. CASE Synchronizer
        BY <3>3 DEF Synchronizer, SyncPause, SyncWeights, SyncReturn, Awaited
      <3> QED
        BY <1>2, <3>1, <3>2, <3>3
    <2>3. trainer' \in {"collect", "train"} => ~final'
      <3>1. CASE TrainStep
        BY <3>1 DEF TrainStep, NextVersion, AfterSignal
      <3>2. CASE TrainerFinal \/ TrainerDone
        BY <3>2 DEF TrainerFinal, TrainerDone, NextVersion
      <3>3. CASE Synchronizer
        BY <3>3 DEF Synchronizer, SyncPause, SyncWeights, SyncReturn
      <3> QED
        BY <1>2, <3>1, <3>2, <3>3
    <2> QED
      BY <1>0, <2>1, <2>2, <2>3 DEF AfterSignal
  <1> QED
    BY <1>1, <1>2 DEF Trainer

LEMMA AfterNext ==
    Types /\ FinishInv /\ AfterSignal /\ [Next]_vars => AfterSignal'
  <1> SUFFICES ASSUME Types, FinishInv, AfterSignal, [Next]_vars
               PROVE  AfterSignal'
    OBVIOUS
  <1>1. CASE \/ Rollouts(FeedSample) \/ Rollouts(Processor)
             \/ Rollouts(Monitor) \/ Rollouts(Calls)
    <2>1. UNCHANGED <<queue, trainer, final, main>>
      BY <1>1, OthersEffect
      DEF Rollouts, FeedSample, Processor, mqVars, otherVars, placeVars,
          trainerVars
    <2> QED
      BY <2>1, AfterStays
  <1>2. CASE Rollouts(Main)
    <2>1. UNCHANGED <<trainer, final>> /\ main' # "run"
      BY <1>2, MainEffect DEF Rollouts, trainerVars
    <2>2. CASE main = "run"
      BY <2>1, <2>2 DEF AfterSignal, Awaited
    <2>3. CASE main # "run"
      BY <1>2, <2>1, <2>3, MainEffect, AfterStays DEF Rollouts
    <2> QED
      BY <2>2, <2>3
  <1>3. ASSUME NEW s \in Samples, Rollouts(Task(s)) \/ Rollouts(TaskFailure(s))
        PROVE  AfterSignal'
    <2>1. UNCHANGED <<trainer, final, main>>
      BY <1>3 DEF Rollouts, Task, TaskFailure, taskFrame, trainerVars
    <2>2. CASE UNCHANGED queue
      BY <2>1, <2>2, AfterStays
    <2>3. CASE TaskPut(s)
      BY <2>1, <2>3, NoSignalBefore DEF AfterSignal, Awaited
    <2> QED
      BY <1>3, <2>2, <2>3 DEF Rollouts, Task, TaskFailure, TaskReturn,
                              TaskInterrupted, TaskFail, mqVars
  <1>4. CASE Trainer
    BY <1>4, AfterTrainer
  <1>5. CASE MainClearQueue
    <2>1. /\ queue' = <<>> /\ UNCHANGED <<trainer, final, main>>
      BY <1>5, ClearEffect DEF trainerVars
    <2> QED
      BY <2>1 DEF AfterSignal, Awaited
  <1>6. CASE UNCHANGED vars
    <2>1. UNCHANGED <<queue, trainer, final, main>>
      BY <1>6 DEF vars, rollouterVars, mqVars, trainerVars
    <2> QED
      BY <2>1, AfterStays
  <1> QED
    BY <1>1, <1>2, <1>3, <1>4, <1>5, <1>6 DEF Next

\* The processor takes a sample only with empty hands, and submits one that
\* is not generated already: it loses none.
LEMMA ProcessorKeepsPlaces ==
    ASSUME Types, Types', CustodyInv, HandsInv, Processor, NEW s \in Samples
    PROVE  Places(s)' = Places(s)
  <1>0. /\ Occurrences(s, pending_queue) \in Nat
        /\ If(rollout_sample = s) \in Nat
        /\ If(task[s] = "generating") \in Nat
        /\ Occurrences(s, cancel_queue) \in Nat
        /\ Occurrences(s, queue) \in Nat
        /\ Occurrences(s, delivered) \in Nat
    BY PlacesNumbers
  <1>1. CASE UNCHANGED placeVars
    BY <1>1 DEF placeVars, Places
  <1>2. CASE TakesPending \/ TakesCancelled
    <2>1. processor \in EmptyHands
      BY <1>2 DEF TakesPending, TakesCancelled, Asking, EmptyHands
    <2>2. If(rollout_sample = s) = 0
      BY <2>1, SamplesAreNumbers DEF HandsInv, If
    <2>3. CASE TakesPending
      <3>1. /\ pending_queue # <<>> /\ pending_queue' = Tail(pending_queue)
            /\ rollout_sample' = Head(pending_queue)
            /\ UNCHANGED <<cancel_queue, task, queue, delivered, fed>>
        BY <2>3 DEF TakesPending, TakePending, elsewhere
      <3>2. /\ Occurrences(s, pending_queue)
                  = Occurrences(s, pending_queue') + If(s = rollout_sample')
            /\ Occurrences(s, pending_queue') \in Nat
        BY <3>1, OccurrencesTail DEF Types
      <3>3. /\ If(rollout_sample' = s) = If(s = rollout_sample')
            /\ If(rollout_sample' = s) \in Nat
        BY DEF If
      <3>4. UNCHANGED <<cancel_queue, task, queue, delivered>>
        BY <3>1
      <3> QED
        BY <1>0, <2>2, <3>2, <3>3, <3>4 DEF Places
    <2>4. CASE TakesCancelled
      <3>1. /\ cancel_queue # <<>> /\ cancel_queue' = Tail(cancel_queue)
            /\ rollout_sample' = Head(cancel_queue)
            /\ UNCHANGED <<pending_queue, task, queue, delivered, fed>>
        BY <2>4 DEF TakesCancelled, TakeCancelled, CancelledRest, elsewhere
      <3>2. /\ Occurrences(s, cancel_queue)
                  = Occurrences(s, cancel_queue') + If(s = rollout_sample')
            /\ Occurrences(s, cancel_queue') \in Nat
        BY <3>1, OccurrencesTail DEF Types
      <3>3. /\ If(rollout_sample' = s) = If(s = rollout_sample')
            /\ If(rollout_sample' = s) \in Nat
        BY DEF If
      <3>4. UNCHANGED <<pending_queue, task, queue, delivered>>
        BY <3>1
      <3> QED
        BY <1>0, <2>2, <3>2, <3>3, <3>4 DEF Places
    <2> QED
      BY <1>2, <2>3, <2>4
  <1>3. CASE Submits
    <2>1. /\ UNCHANGED <<pending_queue, cancel_queue, queue, delivered>>
          /\ rollout_sample' = None
      BY <1>3 DEF Submits
    <2>2. If(rollout_sample' = s) = 0
      BY <2>1, SamplesAreNumbers DEF If
    <2>3. If(rollout_sample = s) + If(task[s] = "generating") <= 1
      <3>1. Places(s) <= 1
        BY DEF CustodyInv
      <3> QED
        BY <1>0, <3>1 DEF Places
    <2>4. If(task'[s] = "generating")
            = If(rollout_sample = s) + If(task[s] = "generating")
      BY <1>3, <2>3 DEF Submits, If, Types
    <2>5. UNCHANGED <<pending_queue, cancel_queue, queue, delivered>>
      BY <2>1
    <2> QED
      BY <1>0, <2>2, <2>4, <2>5 DEF Places
  <1> QED
    BY <1>1, <1>2, <1>3, ProcessorEffect

\* The finish signal is put: a full queue loses its oldest sample.
LEMMA MainPutPlaces ==
    ASSUME Types, Types', Main, queue' = MQ!Pushed(None), NEW s \in Samples
    PROVE  Places(s)' + If(MQ!IsFull /\ s = Head(queue)) = Places(s)
  <1>0. /\ Occurrences(s, pending_queue) \in Nat
        /\ If(rollout_sample = s) \in Nat
        /\ If(task[s] = "generating") \in Nat
        /\ Occurrences(s, cancel_queue) \in Nat
        /\ Occurrences(s, queue) \in Nat
        /\ Occurrences(s, delivered) \in Nat
    BY PlacesNumbers
  <1>1. UNCHANGED <<pending_queue, rollout_sample, task, cancel_queue,
                    delivered>>
    BY MainEffect
  <1>2. /\ Occurrences(s, queue') + If(MQ!IsFull /\ s = Head(queue))
                = Occurrences(s, queue) + If(s = None)
        /\ Occurrences(s, queue') \in Nat
    BY PushedPlaces DEF None
  <1>3. If(s = None) = 0 /\ If(MQ!IsFull /\ s = Head(queue)) \in Nat
    BY SamplesAreNumbers DEF If
  <1> QED
    BY <1>0, <1>1, <1>2, <1>3 DEF Places

LEMMA GoneFinite ==
    IsFiniteSet(Gone) /\ Cardinality(Gone) \in Nat
  <1>1. IsFiniteSet(Samples) /\ Gone \in SUBSET Samples
    BY RollouterAssumption, FS_Interval DEF Samples, Gone
  <1> QED
    BY <1>1, FS_Subset, FS_CardinalityType

\* One sample vanishes.
LEMMA OneGone ==
    ASSUME Types, Types', CustodyInv, UNCHANGED fed,
           NEW x \in Samples, Places(x) > 0,
           \A s \in Samples : Places(s)' + If(s = x) = Places(s)
    PROVE  Cardinality(Gone') = Cardinality(Gone) + 1
  <1>1. \A s \in Samples : Places(s) \in Nat /\ Places(s)' \in Nat
    BY PlacesNumbers, PlacesNumbersPrimed
  <1>2. Places(x) = 1 /\ Places(x)' = 0 /\ x <= fed
    <2>1. Places(x) <= 1 /\ (x > fed => Places(x) = 0)
      BY DEF CustodyInv
    <2>2. Places(x)' + 1 = Places(x)
      BY DEF If
    <2>3. x \in Nat /\ fed \in Nat
      BY SamplesAreNumbers DEF Types
    <2> QED
      BY <1>1, <2>1, <2>2, <2>3
  <1>3. \A s \in Samples : s # x => Places(s)' = Places(s)
    <2> SUFFICES ASSUME NEW s \in Samples, s # x
                 PROVE  Places(s)' = Places(s)
      OBVIOUS
    <2>1. Places(s)' + 0 = Places(s)
      BY DEF If
    <2> QED
      BY <1>1, <2>1
  <1>4. Gone' = Gone \cup {x} /\ x \notin Gone
    BY <1>2, <1>3 DEF Gone
  <1> QED
    BY <1>4, GoneFinite, FS_AddElement

LEMMA NoneGone ==
    ASSUME UNCHANGED fed, \A s \in Samples : Places(s)' = Places(s)
    PROVE  Gone' = Gone
  BY DEF Gone

\* The sample the feed creates is not gone.
LEMMA FeedGone ==
    ASSUME Types, Types', FeedSample
    PROVE  Gone' = Gone
  <1>1. \A s \in Samples : /\ Places(s)' = Places(s) + If(s = fed + 1)
                            /\ Places(s) \in Nat /\ s \in Nat
    BY FeedPlaces, PlacesNumbers, SamplesAreNumbers
  <1>2. fed' = fed + 1 /\ fed \in Nat
    BY DEF FeedSample, Types
  <1> SUFFICES ASSUME NEW s \in Samples
               PROVE  (s <= fed /\ Places(s) = 0)' <=> s <= fed /\ Places(s) = 0
    BY DEF Gone
  <1>3. CASE s = fed + 1
    <2>1. Places(s)' = Places(s) + 1
      BY <1>1, <1>3 DEF If
    <2> QED
      BY <1>1, <1>2, <1>3, <2>1
  <1>4. CASE s # fed + 1
    <2>1. Places(s)' = Places(s)
      BY <1>1, <1>4 DEF If
    <2> QED
      BY <1>1, <1>2, <1>4, <2>1
  <1> QED
    BY <1>3, <1>4

LEMMA HeadOfQueue ==
    ASSUME Types, QueueRange, MQ!IsFull
    PROVE  /\ 1 \in 1..Len(queue) /\ Head(queue) = queue[1]
           /\ Head(queue) # None
                => Head(queue) \in Samples /\ Places(Head(queue)) > 0
  <1>1. queue \in Seq(Nat) /\ queue # <<>>
    BY RollouterAssumption, EmptySeq DEF MQ!IsFull, Types
  <1>2. /\ 1 \in 1..Len(queue) /\ Head(queue) = queue[1]
        /\ Head(queue) \in 0..Total
    BY <1>1, HeadTailProperties, EmptySeq, LenProperties DEF QueueRange
  <1>3. ASSUME Head(queue) # None
        PROVE  Head(queue) \in Samples
    BY <1>2, <1>3, RollouterAssumption DEF Samples, None
  <1>4. Places(Head(queue)) > 0
    <2>1. PICK x : x = Head(queue)
      OBVIOUS
    <2>2. /\ Occurrences(x, queue) = Occurrences(x, Tail(queue)) + If(x = Head(queue))
          /\ Occurrences(x, Tail(queue)) \in Nat
      BY <1>1, OccurrencesTail
    <2>3. If(x = Head(queue)) = 1
      BY <2>1 DEF If
    <2>4. Places(x) > 0
      <3>1. /\ Occurrences(x, pending_queue) \in Nat
            /\ If(rollout_sample = x) \in Nat
            /\ If(task[x] = "generating") \in Nat
            /\ Occurrences(x, cancel_queue) \in Nat
            /\ Occurrences(x, delivered) \in Nat
        BY PlacesNumbers
      <3> QED
        BY <2>2, <2>3, <3>1 DEF Places
    <2> QED
      BY <2>1, <2>4
  <1> QED
    BY <1>2, <1>3, <1>4

\* A full queue never loses the finish signal.
LEMMA FullHead ==
    ASSUME Types, QueueRange, FinishInv, AfterSignal, NEW t \in Samples,
           TaskPut(t), MQ!IsFull
    PROVE  Head(queue) # None
  <1>1. 1 \in 1..Len(queue) /\ Head(queue) = queue[1]
    BY HeadOfQueue
  <1>2. CASE main = "run"
    BY <1>1, <1>2 DEF FinishInv
  <1>3. CASE main # "run" /\ Awaited
    <2>1. PICK i \in Nat : SignalAt(i)
      BY <1>3 DEF FinishInv
    <2>2. /\ Cardinality(Generating) \in Nat
          /\ Cardinality(Generating) # 0
          /\ MaxConcurrent \in Nat /\ MaxConcurrent <= MaxRequired
          /\ MaxRequired \in Nat /\ Len(queue) \in Nat
      <3>1. t \in Generating
        BY DEF TaskPut, Generating
      <3>2. /\ IsFiniteSet(Generating) /\ Cardinality(Generating) \in Nat
            /\ Cardinality(Generating) # 0
        BY <3>1, GeneratingCount, FS_EmptySet
      <3> QED
        BY <3>2, RollouterAssumption, LenProperties DEF Types
    <2>3. i # 1
      BY <2>1, <2>2 DEF SignalAt, MQ!IsFull
    <2> QED
      BY <1>1, <2>1, <2>3 DEF SignalAt
  <1>4. CASE ~Awaited
    BY <1>1, <1>4 DEF AfterSignal
  <1> QED
    BY <1>2, <1>3, <1>4

\* What a push into the queue loses.
LEMMA PushGone ==
    ASSUME Types, Types', CustodyInv, QueueRange, UNCHANGED fed,
           MQ!IsFull => Head(queue) # None,
           \A s \in Samples :
                Places(s)' + If(MQ!IsFull /\ s = Head(queue)) = Places(s)
    PROVE  Cardinality(Gone') = Cardinality(Gone) + MQ!Dropped
  <1>0. \A s \in Samples : Places(s) \in Nat /\ Places(s)' \in Nat
    BY PlacesNumbers, PlacesNumbersPrimed
  <1>1. CASE MQ!IsFull
    <2>1. PICK x \in Samples : x = Head(queue) /\ Places(x) > 0
      BY <1>1, HeadOfQueue
    <2>2. \A s \in Samples : Places(s)' + If(s = x) = Places(s)
      BY <1>1, <2>1 DEF If
    <2>3. Cardinality(Gone') = Cardinality(Gone) + 1
      BY <2>1, <2>2, OneGone
    <2> QED
      BY <1>1, <2>3 DEF MQ!Dropped
  <1>2. CASE ~MQ!IsFull
    <2>1. \A s \in Samples : Places(s)' = Places(s)
      BY <1>0, <1>2 DEF If
    <2>2. Gone' = Gone
      BY <2>1, NoneGone
    <2> QED
      BY <1>2, <2>2, GoneFinite DEF MQ!Dropped
  <1> QED
    BY <1>1, <1>2

LEMMA AccountStays ==
    ASSUME Accounted, Gone' = Gone,
           UNCHANGED <<cleared, dropped_samples, failures>>
    PROVE  Accounted'
  BY DEF Accounted

LEMMA AccountPut ==
    ASSUME Accounted, Cardinality(Gone') = Cardinality(Gone) + MQ!Dropped,
           dropped_samples' = dropped_samples + MQ!Dropped,
           UNCHANGED <<cleared, failures>>
    PROVE  Accounted'
  <1>1. MQ!Dropped \in Nat
    BY DEF MQ!Dropped
  <1> QED
    BY <1>1, GoneFinite DEF Accounted

LEMMA AccountNext ==
    /\ Types /\ Types' /\ CustodyInv /\ HandsInv /\ QueueRange /\ FinishInv
    /\ AfterSignal /\ Accounted /\ [Next]_vars
    => Accounted'
  <1> SUFFICES ASSUME Types, Types', CustodyInv, HandsInv, QueueRange,
                      FinishInv, AfterSignal, Accounted, [Next]_vars
               PROVE  Accounted'
    OBVIOUS
  <1>1. CASE Rollouts(FeedSample)
    BY <1>1, FeedGone, AccountStays DEF Rollouts, FeedSample, mqVars
  <1>2. CASE Rollouts(Processor)
    <2>1. /\ Processor
          /\ UNCHANGED <<fed, cleared, dropped_samples, failures>>
      BY <1>2 DEF Rollouts, Processor, mqVars
    <2>2. Gone' = Gone
      BY <2>1, ProcessorKeepsPlaces, NoneGone
    <2> QED
      BY <2>1, <2>2, AccountStays
  <1>3. CASE Rollouts(Main)
    <2>1. Main /\ UNCHANGED <<fed, failures>>
      BY <1>3 DEF Rollouts, Main, queueVars
    <2>2. CASE MainFinish
      <3>1. /\ queue' = MQ!Pushed(None) /\ main = "run"
            /\ dropped_samples' = dropped_samples + MQ!Dropped
            /\ UNCHANGED cleared
        BY <2>2 DEF MainFinish, MQ!PutSample
      <3>2. MQ!IsFull => Head(queue) # None
        BY <3>1, HeadOfQueue DEF FinishInv
      <3>3. Cardinality(Gone') = Cardinality(Gone) + MQ!Dropped
        BY <2>1, <3>1, <3>2, MainPutPlaces, PushGone
      <3> QED
        BY <2>1, <3>1, <3>3, AccountPut
    <2>3. CASE MainStop \/ MainStopped
      <3>1. UNCHANGED <<queue, delivered, cleared, dropped_samples>>
        BY <2>3 DEF MainStop, MainStopped, mqVars
      <3>2. \A s \in Samples : Places(s)' = Places(s)
        BY <2>1, <3>1, MainEffect DEF Places
      <3>3. Gone' = Gone
        BY <2>1, <3>2, NoneGone
      <3> QED
        BY <2>1, <3>1, <3>3, AccountStays
    <2> QED
      BY <2>1, <2>2, <2>3 DEF Main
  <1>4. CASE Rollouts(Monitor) \/ Rollouts(Calls)
    <2>1. UNCHANGED placeVars
      BY <1>4, OthersEffect DEF Rollouts, otherVars
    <2>2. UNCHANGED <<cleared, dropped_samples, failures>>
      BY <1>4 DEF Rollouts, Monitor, Calls, Pause, Update, Resume, mqVars
    <2>3. Gone' = Gone
      BY <2>1 DEF placeVars, Gone, Places
    <2> QED
      BY <2>2, <2>3, AccountStays
  <1>5. ASSUME NEW t \in Samples, Rollouts(Task(t)) \/ Rollouts(TaskFailure(t))
        PROVE  Accounted'
    <2>1. UNCHANGED fed
      BY <1>5 DEF Rollouts, Task, TaskFailure, taskFrame
    <2>2. CASE Task(t) /\ TaskPut(t)
      <3>1. /\ dropped_samples' = dropped_samples + MQ!Dropped
            /\ UNCHANGED <<cleared, failures>>
        BY <2>2 DEF TaskPut, MQ!PutSample
      <3>2. MQ!IsFull => Head(queue) # None
        BY <2>2, FullHead
      <3>3. Cardinality(Gone') = Cardinality(Gone) + MQ!Dropped
        BY <2>1, <2>2, <3>2, PutPlaces, PushGone
      <3> QED
        BY <3>1, <3>3, AccountPut
    <2>3. CASE Task(t) /\ ~TaskPut(t)
      <3>1. UNCHANGED <<cleared, dropped_samples, failures>>
        BY <2>3 DEF Task, TaskReturn, TaskInterrupted, mqVars
      <3>2. Gone' = Gone
        BY <2>1, <2>3, KeepPlaces, NoneGone
      <3> QED
        BY <3>1, <3>2, AccountStays
    <2>4. CASE TaskFailure(t)
      <3>1. /\ failures' = failures + 1 /\ task[t] = "generating"
            /\ UNCHANGED <<cleared, dropped_samples>>
        BY <2>4 DEF TaskFailure, TaskFail, mqVars
      <3>2. Places(t) > 0
        <4>1. If(task[t] = "generating") = 1
          BY <3>1 DEF If
        <4>2. /\ Occurrences(t, pending_queue) \in Nat
              /\ If(rollout_sample = t) \in Nat
              /\ Occurrences(t, cancel_queue) \in Nat
              /\ Occurrences(t, queue) \in Nat
              /\ Occurrences(t, delivered) \in Nat
          BY PlacesNumbers
        <4> QED
          BY <4>1, <4>2 DEF Places
      <3>3. \A s \in Samples : Places(s)' + If(s = t) = Places(s)
        BY <2>4, FailPlaces
      <3>4. Cardinality(Gone') = Cardinality(Gone) + 1
        BY <2>1, <3>2, <3>3, OneGone
      <3> QED
        BY <3>1, <3>4, GoneFinite DEF Accounted
    <2> QED
      BY <1>5, <2>2, <2>3, <2>4 DEF Rollouts
  <1>6. CASE Trainer
    <2>1. UNCHANGED <<fed, failures>>
      BY <1>6, TrainerEffect
      DEF Trainer, TrainerGet, TrainStep, TrainerFinal, TrainerDone,
          Synchronizer, rollouterVars
    <2>2. UNCHANGED <<cleared, dropped_samples>>
      BY <1>6
      DEF Trainer, TrainerGet, TrainStep, TrainerFinal, TrainerDone,
          Synchronizer, mqVars, MQ!GetSample, MQ!ResumeGet, MQ!Attempt
    <2>3. Gone' = Gone
      BY <1>6, <2>1, TrainerPlaces, NoneGone
    <2> QED
      BY <2>1, <2>2, <2>3, AccountStays
  <1>7. CASE MainClearQueue
    <2>1. /\ Len(queue) \in Nat \ {0}
      BY <1>7, LenProperties, EmptySeq DEF MainClearQueue, Types
    <2>2. /\ cleared' = cleared + Len(queue)
          /\ UNCHANGED <<dropped_samples, failures>>
      BY <1>7 DEF MainClearQueue, MQ!ClearQueue, rollouterVars
    <2> QED
      BY <2>1, <2>2 DEF Accounted
  <1>8. CASE UNCHANGED vars
    <2>1. UNCHANGED <<placeVars, cleared, dropped_samples, failures>>
      BY <1>8 DEF vars, rollouterVars, mqVars, queueVars, processorVars,
                  activeVars, placeVars
    <2>2. Gone' = Gone
      BY <2>1 DEF placeVars, Gone, Places
    <2> QED
      BY <2>1, <2>2, AccountStays
  <1> QED
    BY <1>1, <1>2, <1>3, <1>4, <1>5, <1>6, <1>7, <1>8 DEF Next

\* A sample that was fed is somewhere, unless the queue counted it as dropped
\* or its generation raised: pauses, interruptions, a crash of the processor
\* and the end of the run lose none, and the counter of dropped samples
\* counts nothing but samples.
THEOREM AsyncNothingVanishes == Spec => []NothingVanishes
  <1>1. Init => HandsInv /\ QueueRange /\ AfterSignal /\ Accounted
    <2> SUFFICES ASSUME Init
                 PROVE  HandsInv /\ QueueRange /\ AfterSignal /\ Accounted
      OBVIOUS
    <2>1. HandsInv /\ QueueRange /\ AfterSignal
      BY DEF Init, RollouterInit, MQ!Init, HandsInv, QueueRange, AfterSignal,
             Awaited
    <2>2. Gone = {}
      BY SamplesAreNumbers DEF Gone, Init, RollouterInit, Samples
    <2>3. cleared = 0 /\ dropped_samples = 0 /\ failures = 0
      BY DEF Init, RollouterInit, MQ!Init
    <2> QED
      BY <2>1, <2>2, <2>3, FS_EmptySet DEF Accounted
  <1>2. Accounted => NothingVanishes
    BY DEF Accounted, NothingVanishes, Gone, Samples
  <1> QED
    BY <1>1, <1>2, TypesHold, CustodyHolds, FinishHolds, HandsNext, RangeNext,
       AfterNext, AccountNext, PTL DEF Spec

-----------------------------------------------------------------------------
(* The lock of the rollouter.                                              *)

Holds(c) == lockq # <<>> /\ Head(lockq) = c

\* Suspensions in which a coroutine keeps the lock.
Joining == {"join_pause", "join_done", "join_limit"}
Gathering == {"cancel", "gather", "clear_kv_cache"}

LockInv ==
    /\ lockq \in Seq(Coroutines)
    /\ processor \in Joining => Holds("processor")
    /\ pause \in Gathering => Holds("pause")
    /\ update = "queue_size" => Holds("update")

\* Waiters come behind the holder.
LEMMA AppendHolds ==
    ASSUME lockq \in Seq(Coroutines), NEW c \in Coroutines,
           lockq' = Append(lockq, c), NEW h, Holds(h)
    PROVE  lockq' \in Seq(Coroutines) /\ Holds(h)'
  <1>1. /\ lockq' \in Seq(Coroutines) /\ lockq' # <<>>
        /\ Head(lockq') = Head(lockq)
    BY AppendProperties, HeadTailProperties, LenProperties, EmptySeq DEF Holds
  <1> QED
    BY <1>1 DEF Holds

\* Only the holder lets go.
LEMMA LockKept ==
    ASSUME LockInv, NEW c \in Coroutines,
           \/ UNCHANGED lockq
           \/ lockq' = Append(lockq, c)
    PROVE  /\ lockq' \in Seq(Coroutines)
           /\ processor \in Joining => Holds("processor")'
           /\ pause \in Gathering => Holds("pause")'
           /\ update = "queue_size" => Holds("update")'
  <1>1. CASE UNCHANGED lockq
    BY <1>1 DEF LockInv, Holds
  <1>2. CASE lockq' = Append(lockq, c)
    BY <1>2, AppendHolds, AppendProperties DEF LockInv
  <1> QED
    BY <1>1, <1>2

LEMMA LockLeft ==
    ASSUME LockInv, NEW d \in Coroutines, lockq # <<>>,
           \/ lockq' = Tail(lockq)
           \/ lockq' = Append(Tail(lockq), d)
    PROVE  lockq' \in Seq(Coroutines)
  <1>1. Tail(lockq) \in Seq(Coroutines)
    BY HeadTailProperties DEF LockInv
  <1> QED
    BY <1>1, AppendProperties

LEMMA LockProcessor ==
    ASSUME LockInv, Processor
    PROVE  /\ UNCHANGED <<pause, update>>
           /\ \/ UNCHANGED lockq /\ (processor' \in Joining => Holds("processor"))
              \/ lockq' = Append(lockq, "processor") /\ processor' \notin Joining
              \/ /\ Holds("processor") /\ lockq' = Tail(lockq)
                 /\ processor' \notin Joining
  <1> USE DEF Holds, Joining, Locked, Request, Release
  <1>0. UNCHANGED <<pause, update>>
    BY DEF Processor, callVars
  <1>1. CASE ProcessorTop
    BY <1>0, <1>1 DEF ProcessorTop, TakeCancelled, TakePending
  <1>2. CASE ProcessorGetPending
    BY <1>0, <1>2 DEF ProcessorGetPending, TakePending
  <1>3. CASE ProcessorSetPaused \/ ProcessorCheckResume \/ ProcessorSubmit
    BY <1>0, <1>3 DEF ProcessorSetPaused, ProcessorCheckResume, ProcessorSubmit
  <1>4. CASE DrainForPause \/ DrainForDone \/ DrainForLimit
    BY <1>0, <1>4 DEF DrainForPause, DrainForDone, DrainForLimit, DrainLoop
  <1>5. CASE \/ DrainLocked("lock_pause", "join_pause", "drain_pause")
             \/ DrainLocked("lock_done", "join_done", "drain_done")
             \/ DrainLocked("lock_limit", "join_limit", "drain_limit")
    BY <1>0, <1>5 DEF DrainLocked
  <1>6. CASE \/ DrainWait("join_pause", "drain_pause")
             \/ DrainWait("join_done", "drain_done")
             \/ DrainWait("join_limit", "drain_limit")
    BY <1>0, <1>6 DEF DrainWait, LockInv
  <1>7. CASE \/ Relock("wait_resume", "check_resume")
             \/ Relock("wait_submit", "submit")
    BY <1>0, <1>7 DEF Relock
  <1> QED
    BY <1>1, <1>2, <1>3, <1>4, <1>5, <1>6, <1>7 DEF Processor

LEMMA LockMonitor ==
    ASSUME LockInv, Monitor \/ Main
    PROVE  /\ UNCHANGED <<processor, pause, update>>
           /\ \/ \E c \in Coroutines : lockq' = Append(lockq, c)
              \/ UNCHANGED lockq
              \/ /\ Holds("monitor") \/ Holds("main")
                 /\ \/ lockq' = Tail(lockq)
                    \/ lockq' = Append(Tail(lockq), "monitor")
  BY DEF Monitor, MonitorTick, MonitorUnpause, MonitorCheck, Main, MainFinish,
         MainStop, MainStopped, Request, Release, Reacquire, Locked, Holds,
         Coroutines, callVars, processorVars, schedVars

LEMMA LockPause ==
    ASSUME LockInv, Pause
    PROVE  /\ UNCHANGED <<processor, update>>
           /\ \/ lockq' = Append(lockq, "pause") /\ pause' \notin Gathering
              \/ UNCHANGED lockq /\ (pause' \in Gathering => Holds("pause"))
              \/ /\ Holds("pause") /\ lockq' = Tail(lockq)
                 /\ pause' \notin Gathering
  BY DEF Pause, PauseCall, PauseAcquired, PauseCancel, PauseGather,
         PauseReturn, Request, Release, Locked, Holds, Gathering, LockInv,
         processorVars, schedVars

LEMMA LockUpdate ==
    ASSUME LockInv, Update(current_version)
    PROVE  /\ UNCHANGED <<processor, pause>>
           /\ \/ lockq' = Append(lockq, "update") /\ update' # "queue_size"
              \/ UNCHANGED lockq /\ Holds("update")
              \/ /\ Holds("update") /\ lockq' = Tail(lockq)
                 /\ update' # "queue_size"
  BY DEF Update, UpdateCall, UpdateAcquired, UpdateReturn, Request, Release,
         Locked, Holds, LockInv, processorVars

LEMMA LockResume ==
    ASSUME LockInv, Resume
    PROVE  /\ UNCHANGED <<processor, pause>>
           /\ update' # "queue_size" \/ UNCHANGED update
           /\ \/ lockq' = Append(lockq, "resume")
              \/ UNCHANGED lockq
              \/ Holds("resume") /\ lockq' = Tail(lockq)
  BY DEF Resume, ResumeCall, ResumeWorkers, ResumeReturn, Request, Release,
         Locked, Holds, processorVars

LEMMA LockNext == LockInv /\ [Next]_vars => LockInv'
  <1> SUFFICES ASSUME LockInv, [Next]_vars PROVE LockInv'
    OBVIOUS
  <1>1. CASE Rollouts(FeedSample)
    <2>1. UNCHANGED <<lockq, processor, pause, update>>
      BY <1>1 DEF Rollouts, FeedSample, processorVars, callVars
    <2> QED
      BY <2>1 DEF LockInv, Holds
  <1>2. CASE Rollouts(Processor)
    <2>1. Processor
      BY <1>2 DEF Rollouts
    <2>2. UNCHANGED <<pause, update>>
      BY <2>1, LockProcessor
    <2>3. CASE UNCHANGED lockq /\ (processor' \in Joining => Holds("processor"))
      BY <2>2, <2>3 DEF LockInv, Holds
    <2>4. CASE lockq' = Append(lockq, "processor") /\ processor' \notin Joining
      <3>1. "processor" \in Coroutines
        BY DEF Coroutines
      <3> QED
        BY <2>2, <2>4, <3>1, LockKept DEF LockInv
    <2>5. CASE /\ Holds("processor") /\ lockq' = Tail(lockq)
               /\ processor' \notin Joining
      <3>1. lockq' \in Seq(Coroutines)
        BY <2>5, LockLeft DEF Holds, Coroutines
      <3>2. pause \notin Gathering /\ update # "queue_size"
        BY <2>5 DEF LockInv, Holds
      <3> QED
        BY <2>2, <2>5, <3>1, <3>2 DEF LockInv
    <2> QED
      BY <2>1, <2>3, <2>4, <2>5, LockProcessor
  <1>3. CASE Rollouts(Main) \/ Rollouts(Monitor)
    <2>1. Monitor \/ Main
      BY <1>3 DEF Rollouts
    <2>2. UNCHANGED <<processor, pause, update>>
      BY <2>1, LockMonitor
    <2>3. CASE \/ \E c \in Coroutines : lockq' = Append(lockq, c)
               \/ UNCHANGED lockq
      <3>1. "main" \in Coroutines
        BY DEF Coroutines
      <3> QED
        BY <2>2, <2>3, <3>1, LockKept DEF LockInv
    <2>4. CASE /\ Holds("monitor") \/ Holds("main")
               /\ \/ lockq' = Tail(lockq)
                  \/ lockq' = Append(Tail(lockq), "monitor")
      <3>1. lockq' \in Seq(Coroutines)
        BY <2>4, LockLeft DEF Holds, Coroutines
      <3>2. /\ processor \notin Joining /\ pause \notin Gathering
            /\ update # "queue_size"
        BY <2>4 DEF LockInv, Holds
      <3> QED
        BY <2>2, <3>1, <3>2 DEF LockInv
    <2> QED
      BY <2>1, <2>3, <2>4, LockMonitor
  <1>4. CASE Rollouts(Pause)
    <2>1. Pause
      BY <1>4 DEF Rollouts
    <2>2. UNCHANGED <<processor, update>>
      BY <2>1, LockPause
    <2>3. CASE lockq' = Append(lockq, "pause") /\ pause' \notin Gathering
      <3>1. "pause" \in Coroutines
        BY DEF Coroutines
      <3> QED
        BY <2>2, <2>3, <3>1, LockKept DEF LockInv
    <2>4. CASE UNCHANGED lockq /\ (pause' \in Gathering => Holds("pause"))
      BY <2>2, <2>4 DEF LockInv, Holds
    <2>5. CASE /\ Holds("pause") /\ lockq' = Tail(lockq)
               /\ pause' \notin Gathering
      <3>1. lockq' \in Seq(Coroutines)
        BY <2>5, LockLeft DEF Holds, Coroutines
      <3>2. processor \notin Joining /\ update # "queue_size"
        BY <2>5 DEF LockInv, Holds
      <3> QED
        BY <2>2, <2>5, <3>1, <3>2 DEF LockInv
    <2> QED
      BY <2>1, <2>3, <2>4, <2>5, LockPause
  <1>5. CASE Rollouts(Update(current_version))
    <2>1. Update(current_version)
      BY <1>5 DEF Rollouts
    <2>2. UNCHANGED <<processor, pause>>
      BY <2>1, LockUpdate
    <2>3. CASE lockq' = Append(lockq, "update") /\ update' # "queue_size"
      <3>1. "update" \in Coroutines
        BY DEF Coroutines
      <3> QED
        BY <2>2, <2>3, <3>1, LockKept DEF LockInv
    <2>4. CASE UNCHANGED lockq /\ Holds("update")
      BY <2>2, <2>4 DEF LockInv, Holds
    <2>5. CASE /\ Holds("update") /\ lockq' = Tail(lockq)
               /\ update' # "queue_size"
      <3>1. lockq' \in Seq(Coroutines)
        BY <2>5, LockLeft DEF Holds, Coroutines
      <3>2. processor \notin Joining /\ pause \notin Gathering
        BY <2>5 DEF LockInv, Holds
      <3> QED
        BY <2>2, <2>5, <3>1, <3>2 DEF LockInv
    <2> QED
      BY <2>1, <2>3, <2>4, <2>5, LockUpdate
  <1>6. CASE Rollouts(Resume)
    <2>1. Resume
      BY <1>6 DEF Rollouts
    <2>2. UNCHANGED <<processor, pause>> /\ (update' # "queue_size" \/ UNCHANGED update)
      BY <2>1, LockResume
    <2>3. CASE lockq' = Append(lockq, "resume") \/ UNCHANGED lockq
      <3>1. "resume" \in Coroutines
        BY DEF Coroutines
      <3> QED
        BY <2>2, <2>3, <3>1, LockKept DEF LockInv
    <2>4. CASE Holds("resume") /\ lockq' = Tail(lockq)
      <3>1. lockq' \in Seq(Coroutines)
        BY <2>4, LockLeft DEF Holds, Coroutines
      <3>2. /\ processor \notin Joining /\ pause \notin Gathering
            /\ update # "queue_size"
        BY <2>4 DEF LockInv, Holds
      <3> QED
        BY <2>2, <3>1, <3>2 DEF LockInv
    <2> QED
      BY <2>1, <2>3, <2>4, LockResume
  <1>7. ASSUME NEW s \in Samples, Rollouts(Task(s)) \/ Rollouts(TaskFailure(s))
        PROVE  LockInv'
    <2>1. UNCHANGED <<lockq, processor, pause, update>>
      BY <1>7 DEF Rollouts, Task, TaskFailure, taskFrame, schedVars,
                  processorVars, callVars
    <2> QED
      BY <2>1 DEF LockInv, Holds
  <1>8. CASE Trainer
    <2>1. /\ UNCHANGED <<lockq, processor>>
          /\ pause' \notin Gathering \/ UNCHANGED pause
          /\ update' # "queue_size" \/ UNCHANGED update
      BY <1>8 DEF Trainer, TrainerGet, TrainStep, TrainerFinal, TrainerDone,
                  Synchronizer, SyncPause, SyncWeights, SyncReturn, Gathering,
                  rollouterVars, schedVars, processorVars, callVars
    <2> QED
      BY <2>1 DEF LockInv, Holds
  <1>9. CASE MainClearQueue \/ UNCHANGED vars
    <2>1. UNCHANGED <<lockq, processor, pause, update>>
      BY <1>9 DEF MainClearQueue, vars, rollouterVars, schedVars,
                  processorVars, callVars
    <2> QED
      BY <2>1 DEF LockInv, Holds
  <1> QED
    BY <1>1, <1>2, <1>3, <1>4, <1>5, <1>6, <1>7, <1>8, <1>9
    DEF Next, Rollouts, Calls

LEMMA LockHolds == Spec => []LockInv
  <1>1. Init => LockInv
    BY DEF Init, RollouterInit, LockInv, Joining, Gathering
  <1> QED
    BY <1>1, LockNext, PTL DEF Spec

-----------------------------------------------------------------------------
(* Staleness.                                                              *)

\* A sample that update_param_version counts before it waits for the size of
\* the message queue, and one that awaits the trainer.
Waits(s) == task[s] = "generating" \/ Occurrences(s, cancel_queue) > 0
Awaits(s) == Waits(s) \/ rollout_sample = s \/ Occurrences(s, queue) > 0

Waiting == {s \in Samples : Waits(s)}
Awaiting == {s \in Samples : Awaits(s)}

StalenessInv ==
    /\ staleness_samples \in Nat /\ counted \in Nat
    /\ Cardinality(Awaiting) <= staleness_samples + 1
    /\ Cardinality(Awaiting) <= MaxRequired + 1
    /\ processor = "get_pending" => Cardinality(Awaiting) <= MaxRequired
    /\ update = "queue_size" => Cardinality(Waiting) <= counted

LEMMA AwaitingFinite ==
    /\ IsFiniteSet(Samples)
    /\ IsFiniteSet(Awaiting) /\ Cardinality(Awaiting) \in Nat
    /\ IsFiniteSet(Waiting) /\ Cardinality(Waiting) \in Nat
    /\ IsFiniteSet(RunningTasks) /\ Cardinality(RunningTasks) \in Nat
  <1>1. IsFiniteSet(Samples)
    BY FS_Interval, RollouterAssumption DEF Samples
  <1>2. /\ Awaiting \in SUBSET Samples /\ Waiting \in SUBSET Samples
        /\ RunningTasks \in SUBSET Samples
    BY DEF Awaiting, Waiting, RunningTasks
  <1>3. IsFiniteSet(Awaiting) /\ IsFiniteSet(Waiting) /\ IsFiniteSet(RunningTasks)
    BY <1>1, <1>2, FS_Subset
  <1> QED
    BY <1>1, <1>3, FS_CardinalityType

LEMMA OneMore ==
    ASSUME NEW S, IsFiniteSet(S), NEW x
    PROVE  /\ IsFiniteSet(S \cup {x}) /\ Cardinality(S \cup {x}) \in Nat
           /\ Cardinality(S) \in Nat
           /\ Cardinality(S \cup {x}) <= Cardinality(S) + 1
  <1>1. IsFiniteSet(S \cup {x})
    BY FS_AddElement
  <1>2. \/ Cardinality(S \cup {x}) = Cardinality(S)
        \/ Cardinality(S \cup {x}) = Cardinality(S) + 1
    BY FS_AddElement
  <1>3. Cardinality(S) \in Nat /\ Cardinality(S \cup {x}) \in Nat
    BY <1>1, FS_CardinalityType
  <1> QED
    BY <1>1, <1>2, <1>3

LEMMA AwaitingFinitePrimed ==
    Cardinality(Awaiting)' \in Nat /\ Cardinality(Waiting)' \in Nat
  <1>1. Awaiting' \in SUBSET Samples /\ Waiting' \in SUBSET Samples
    BY DEF Awaiting, Waiting
  <1>2. IsFiniteSet(Awaiting') /\ IsFiniteSet(Waiting')
    BY <1>1, AwaitingFinite, FS_Subset
  <1> QED
    BY <1>2, FS_CardinalityType

\* A queue holds no more samples than its length.
LEMMA QueueHolds ==
    ASSUME NEW seq \in Seq(Nat)
    PROVE  LET held == {s \in Samples : Occurrences(s, seq) > 0}
           IN  /\ IsFiniteSet(held)
               /\ Cardinality(held) \in Nat
               /\ Cardinality(held) <= Len(seq)
               /\ Len(seq) \in Nat
  <1> DEFINE held == {s \in Samples : Occurrences(s, seq) > 0}
             place == [s \in held |-> CHOOSE i \in 1..Len(seq) : seq[i] = s]
  <1>0. Len(seq) \in Nat
    BY LenProperties
  <1>1. IsFiniteSet(1..Len(seq)) /\ Cardinality(1..Len(seq)) = Len(seq)
    <2>1. 1 \in Int /\ Len(seq) \in Int
      BY <1>0
    <2>2. /\ IsFiniteSet(1..Len(seq))
          /\ Cardinality(1..Len(seq))
               = IF 1 > Len(seq) THEN 0 ELSE Len(seq) - 1 + 1
      BY <2>1, FS_Interval
    <2> QED
      BY <1>0, <2>2
  <1>2. ASSUME NEW s \in held
        PROVE  \E i \in 1..Len(seq) : seq[i] = s
    <2>1. At(s, seq) # {}
      BY AtFinite, FS_EmptySet
    <2> QED
      BY <2>1 DEF At
  <1>3. ASSUME NEW s \in held
        PROVE  place[s] \in 1..Len(seq) /\ seq[place[s]] = s
    BY <1>2
  <1>4. place \in Injection(held, 1..Len(seq))
    <2>1. place \in [held -> 1..Len(seq)]
      BY <1>3
    <2>2. \A a, b \in held : place[a] = place[b] => a = b
      BY <1>3
    <2> HIDE DEF place
    <2> QED
      BY <2>1, <2>2 DEF Injection, IsInjective
  <1> HIDE DEF place, held
  <1>5. IsFiniteSet(held) /\ Cardinality(held) <= Cardinality(1..Len(seq))
    BY <1>1, <1>4, FS_Injection
  <1>6. Cardinality(held) \in Nat
    BY <1>5, FS_CardinalityType
  <1> QED
    BY <1>0, <1>1, <1>5, <1>6 DEF held

\* Fewer samples wait, fewer await the trainer.
LEMMA AwaitingFalls ==
    ASSUME \A s \in Samples : Awaits(s)' => Awaits(s)
    PROVE  Cardinality(Awaiting)' <= Cardinality(Awaiting)
  <1>1. PICK before : before = Awaiting
    OBVIOUS
  <1>2. IsFiniteSet(before) /\ Cardinality(before) = Cardinality(Awaiting)
    BY <1>1, AwaitingFinite
  <1>3. Awaiting' \in SUBSET before
    BY <1>1 DEF Awaiting
  <1>4. Cardinality(Awaiting') <= Cardinality(before)
    BY <1>2, <1>3, FS_Subset
  <1> QED
    BY <1>2, <1>4

LEMMA WaitingFalls ==
    ASSUME \A s \in Samples : Waits(s)' => Waits(s)
    PROVE  Cardinality(Waiting)' <= Cardinality(Waiting)
  <1>1. PICK before : before = Waiting
    OBVIOUS
  <1>2. IsFiniteSet(before) /\ Cardinality(before) = Cardinality(Waiting)
    BY <1>1, AwaitingFinite
  <1>3. Waiting' \in SUBSET before
    BY <1>1 DEF Waiting
  <1>4. Cardinality(Waiting') <= Cardinality(before)
    BY <1>2, <1>3, FS_Subset
  <1> QED
    BY <1>2, <1>4

\* One sample more at most.
LEMMA AwaitingGrows ==
    ASSUME NEW t, \A s \in Samples : Awaits(s)' => Awaits(s) \/ s = t
    PROVE  Cardinality(Awaiting)' <= Cardinality(Awaiting) + 1
  <1>1. PICK before : before = Awaiting
    OBVIOUS
  <1>2. /\ IsFiniteSet(before) /\ Cardinality(before) = Cardinality(Awaiting)
        /\ Cardinality(before) \in Nat
    BY <1>1, AwaitingFinite
  <1>3. /\ IsFiniteSet(before \cup {t})
        /\ Cardinality(before \cup {t}) <= Cardinality(before) + 1
    BY <1>2, OneMore
  <1>4. Awaiting' \in SUBSET (before \cup {t})
    BY <1>1 DEF Awaiting
  <1>5. Cardinality(Awaiting') <= Cardinality(before \cup {t})
    BY <1>3, <1>4, FS_Subset
  <1>6. /\ Cardinality(Awaiting)' \in Nat
        /\ Cardinality(before \cup {t}) \in Nat
    <2>1. IsFiniteSet(Awaiting')
      BY <1>3, <1>4, FS_Subset
    <2> QED
      BY <1>3, <2>1, FS_CardinalityType
  <1> QED
    BY <1>2, <1>3, <1>5, <1>6

\* What the update counts: the tasks and the interrupted samples, before it
\* waits.
LEMMA WaitingCounted ==
    ASSUME Types
    PROVE  /\ Cardinality(Waiting) <= ActiveTasks + Len(cancel_queue)
           /\ ActiveTasks + Len(cancel_queue) \in Nat
  <1> DEFINE interrupted == {s \in Samples : Occurrences(s, cancel_queue) > 0}
  <1>1. /\ IsFiniteSet(interrupted) /\ Cardinality(interrupted) \in Nat
        /\ Cardinality(interrupted) <= Len(cancel_queue)
        /\ Len(cancel_queue) \in Nat
    BY QueueHolds DEF Types
  <1>2. Waiting \in SUBSET (RunningTasks \cup interrupted)
    BY DEF Waiting, Waits, RunningTasks
  <1> HIDE DEF interrupted
  <1>3. /\ IsFiniteSet(RunningTasks \cup interrupted)
        /\ Cardinality(RunningTasks \cup interrupted)
             = Cardinality(RunningTasks) + Cardinality(interrupted)
                - Cardinality(RunningTasks \cap interrupted)
        /\ Cardinality(RunningTasks \cap interrupted) \in Nat
    BY <1>1, AwaitingFinite, FS_Union, FS_Intersection, FS_CardinalityType
  <1>4. Cardinality(Waiting) <= Cardinality(RunningTasks \cup interrupted)
    BY <1>2, <1>3, FS_Subset
  <1>5. /\ ActiveTasks \in Nat /\ Cardinality(RunningTasks) <= ActiveTasks
    BY AwaitingFinite DEF ActiveTasks, Types
  <1> QED
    BY <1>1, <1>3, <1>4, <1>5, AwaitingFinite

\* What it misses: the sample in the hands of the processor.
LEMMA AwaitingCounted ==
    ASSUME Types
    PROVE  /\ Cardinality(Awaiting) <= Cardinality(Waiting) + Len(queue) + 1
           /\ Len(queue) \in Nat
  <1> DEFINE queued == {s \in Samples : Occurrences(s, queue) > 0}
  <1>1. /\ IsFiniteSet(queued) /\ Cardinality(queued) \in Nat
        /\ Cardinality(queued) <= Len(queue) /\ Len(queue) \in Nat
    BY QueueHolds DEF Types
  <1>2. Awaiting \in SUBSET ((Waiting \cup queued) \cup {rollout_sample})
    BY DEF Awaiting, Waiting, Awaits
  <1> HIDE DEF queued
  <1>3. /\ IsFiniteSet(Waiting \cup queued)
        /\ Cardinality(Waiting \cup queued)
             = Cardinality(Waiting) + Cardinality(queued)
                - Cardinality(Waiting \cap queued)
        /\ Cardinality(Waiting \cap queued) \in Nat
    BY <1>1, AwaitingFinite, FS_Union, FS_Intersection, FS_CardinalityType
  <1> DEFINE both == Waiting \cup queued
  <1>4. IsFiniteSet(both) /\ Cardinality(both) <= Cardinality(Waiting) + Len(queue)
    BY <1>1, <1>3, AwaitingFinite
  <1>5. Awaiting \in SUBSET (both \cup {rollout_sample})
    BY <1>2
  <1>6. Cardinality(both) \in Nat
    BY <1>4, FS_CardinalityType
  <1> HIDE DEF both
  <1>7. /\ IsFiniteSet(both \cup {rollout_sample})
        /\ Cardinality(both \cup {rollout_sample}) \in Nat
        /\ Cardinality(both \cup {rollout_sample}) <= Cardinality(both) + 1
    BY <1>4, <1>6, OneMore
  <1>8. Cardinality(Awaiting) <= Cardinality(both \cup {rollout_sample})
    BY <1>5, <1>7, FS_Subset
  <1> QED
    BY <1>1, <1>4, <1>6, <1>7, <1>8, AwaitingFinite

\* Who may add to the samples that await the trainer: the processor, with a
\* sample from the feed.
LEMMA ProcessorAwaits ==
    ASSUME Types, Types', Processor, NEW s \in Samples, Awaits(s)'
    PROVE  Awaits(s) \/ (TakesPending /\ s = rollout_sample')
  <1> USE SamplesAreNumbers
  <1>1. CASE UNCHANGED placeVars
    BY <1>1 DEF placeVars, Awaits, Waits
  <1>2. CASE TakesPending
    BY <1>2 DEF TakesPending, TakePending, elsewhere, Awaits, Waits
  <1>3. CASE TakesCancelled
    <2>1. /\ cancel_queue # <<>> /\ cancel_queue' = Tail(cancel_queue)
          /\ rollout_sample' = Head(cancel_queue)
          /\ UNCHANGED <<task, queue>>
      BY <1>3 DEF TakesCancelled, TakeCancelled, CancelledRest, elsewhere
    <2>2. /\ Occurrences(s, cancel_queue)
                = Occurrences(s, cancel_queue') + If(s = rollout_sample')
          /\ Occurrences(s, cancel_queue') \in Nat
      BY <2>1, OccurrencesTail DEF Types
    <2>3. UNCHANGED <<task, queue>>
      BY <2>1
    <2> QED
      BY <2>2, <2>3 DEF Awaits, Waits, If
  <1>4. CASE Submits
    BY <1>4 DEF Submits, Awaits, Waits, Types
  <1> QED
    BY <1>1, <1>2, <1>3, <1>4, ProcessorEffect

\* While the processor submits nothing, nothing is added to what the update
\* counted.
LEMMA ProcessorWaits ==
    ASSUME Types, Types', Processor, ~Submits, NEW s \in Samples, Waits(s)'
    PROVE  Waits(s)
  <1>1. CASE UNCHANGED placeVars
    BY <1>1 DEF placeVars, Waits
  <1>2. CASE TakesPending
    BY <1>2 DEF TakesPending, TakePending, elsewhere, Waits
  <1>3. CASE TakesCancelled
    <2>1. /\ cancel_queue # <<>> /\ cancel_queue' = Tail(cancel_queue)
          /\ UNCHANGED task
      BY <1>3 DEF TakesCancelled, TakeCancelled, CancelledRest, elsewhere
    <2>2. /\ Occurrences(s, cancel_queue)
                = Occurrences(s, cancel_queue') + If(s = Head(cancel_queue))
          /\ Occurrences(s, cancel_queue') \in Nat
      BY <2>1, OccurrencesTail DEF Types
    <2>3. If(s = Head(cancel_queue)) \in Nat /\ UNCHANGED task
      BY <2>1 DEF If
    <2> QED
      BY <2>2, <2>3 DEF Waits
  <1> QED
    BY <1>1, <1>2, <1>3, ProcessorEffect

\* A task takes its sample along, to the message queue or back.
LEMMA TaskAwaits ==
    ASSUME Types, Types', NEW t \in Samples, Task(t) \/ TaskFailure(t),
           NEW s \in Samples
    PROVE  /\ Awaits(s)' => Awaits(s)
           /\ Waits(s)' => Waits(s)
  <1>0. t \in Nat /\ UNCHANGED rollout_sample
    BY SamplesAreNumbers DEF Task, TaskFailure, taskFrame, processorVars
  <1>1. CASE TaskPut(t)
    <2>1. /\ task' = [task EXCEPT ![t] = "put"] /\ task[t] = "generating"
          /\ queue' = MQ!Pushed(t)
          /\ UNCHANGED cancel_queue
      BY <1>1 DEF TaskPut, MQ!PutSample
    <2>2. /\ Occurrences(s, queue') <= Occurrences(s, queue) + If(s = t)
          /\ Occurrences(s, queue') \in Nat
      BY <1>0, <2>1, PushedPlaces
    <2>3. Occurrences(s, queue) \in Nat
      BY PlacesNumbers
    <2>4. task[t] = "generating" /\ UNCHANGED cancel_queue
      BY <2>1
    <2>5. task'[s] = "generating" => task[s] = "generating"
      BY <2>1 DEF Types
    <2> QED
      BY <1>0, <2>2, <2>3, <2>4, <2>5 DEF Awaits, Waits, If
  <1>2. CASE TaskReturn(t)
    BY <1>0, <1>2 DEF TaskReturn, mqVars, Awaits, Waits, Types
  <1>3. CASE TaskInterrupted(t)
    <2>1. /\ task' = [task EXCEPT ![t] = "none"] /\ task[t] = "generating"
          /\ cancel_queue' = Append(cancel_queue, t)
          /\ UNCHANGED queue
      BY <1>3 DEF TaskInterrupted, KeepPartial, mqVars
    <2>2. Occurrences(s, cancel_queue') = Occurrences(s, cancel_queue) + If(s = t)
      <3>1. cancel_queue \in Seq(Nat)
        BY DEF Types
      <3>2. Occurrences(s, Append(cancel_queue, t))
                = Occurrences(s, cancel_queue) + If(s = t)
        BY <1>0, <3>1, OccurrencesAppend
      <3> QED
        BY <2>1, <3>2
    <2>3. Occurrences(s, cancel_queue) \in Nat
      BY PlacesNumbers
    <2>4. task[t] = "generating" /\ UNCHANGED queue
      BY <2>1
    <2>5. task'[s] = "generating" => task[s] = "generating"
      BY <2>1 DEF Types
    <2> QED
      BY <1>0, <2>2, <2>3, <2>4, <2>5 DEF Awaits, Waits, If
  <1>4. CASE TaskFail(t)
    BY <1>0, <1>4 DEF TaskFail, mqVars, Awaits, Waits, Types
  <1> QED
    BY <1>1, <1>2, <1>3, <1>4 DEF Task, TaskFailure

\* The rest only shortens the message queue, or adds the finish signal to it.
LEMMA QueueAwaits ==
    ASSUME Types, Types', Trainer \/ Main \/ MainClearQueue, NEW s \in Samples
    PROVE  /\ Awaits(s)' => Awaits(s)
           /\ Waits(s)' => Waits(s)
  <1>1. UNCHANGED <<rollout_sample, task, cancel_queue>>
    BY TrainerEffect, MainEffect, ClearEffect
  <1>2. Occurrences(s, queue) \in Nat
    BY PlacesNumbers
  <1>3. Occurrences(s, queue') <= Occurrences(s, queue)
    <2>1. CASE Main
      <3>1. /\ Occurrences(s, MQ!Pushed(None))
                  <= Occurrences(s, queue) + If(s = None)
            /\ Occurrences(s, MQ!Pushed(None)) \in Nat
        BY PushedPlaces DEF None
      <3>2. If(s = None) = 0
        BY SamplesAreNumbers DEF If
      <3>3. queue' = MQ!Pushed(None) \/ queue' = queue
        BY <2>1, MainEffect
      <3> QED
        BY <1>2, <3>1, <3>2, <3>3
    <2>2. CASE Trainer
      <3>1. CASE UNCHANGED queue
        BY <1>2, <3>1
      <3>2. CASE queue # <<>> /\ queue' = Tail(queue)
        <4>1. /\ Occurrences(s, queue)
                    = Occurrences(s, queue') + If(s = Head(queue))
              /\ Occurrences(s, queue') \in Nat
          BY <3>2, OccurrencesTail DEF Types
        <4>2. If(s = Head(queue)) \in Nat
          BY DEF If
        <4> QED
          BY <4>1, <4>2
      <3> QED
        BY <2>2, <3>1, <3>2, TrainerEffect
    <2>3. CASE MainClearQueue
      BY <1>2, <2>3, ClearEffect, OccurrencesEmpty
    <2> QED
      BY <2>1, <2>2, <2>3
  <1>4. Occurrences(s, queue') \in Nat
    BY AtFinite DEF Types
  <1> QED
    BY <1>1, <1>2, <1>3, <1>4 DEF Awaits, Waits

\* The processor takes a sample from the feed below the limit, or after it
\* waited for one from below the limit.
LEMMA ProcessorBelow ==
    ASSUME Processor, staleness_samples \in Nat
    PROVE  /\ UNCHANGED <<update, counted>>
           /\ TakesPending =>
                /\ staleness_samples' = staleness_samples + 1
                /\ processor' # "get_pending"
                /\ processor = "get_pending" \/ staleness_samples < MaxRequired
           /\ ~TakesPending => UNCHANGED staleness_samples
           /\ processor' = "get_pending" => staleness_samples < MaxRequired
  <1> USE DEF TakesPending, Asking, elsewhere, takeVars, waitVars,
              activeVars, mqVars
  <1>0. MaxRequired \in Nat
    BY RollouterAssumption
  <1>1. UNCHANGED <<update, counted, mqVars, fed>>
    BY DEF Processor, callVars
  <1>2. CASE ProcessorTop
    <2>1. CASE MustPause /\ processor' = "set_paused" /\ UNCHANGED takeVars
      BY <1>1, <2>1 DEF TakePending
    <2>2. CASE ~MustPause /\ TakeCancelled
      BY <1>1, <2>2 DEF TakeCancelled, TakePending
    <2>3. CASE ~MustPause /\ TakePending
      BY <1>0, <1>1, <1>2, <2>3 DEF ProcessorTop, TakePending, MustPause, ShouldPause
    <2>4. CASE ~MustPause /\ processor' = "get_pending" /\ UNCHANGED takeVars
      BY <1>0, <1>1, <2>4 DEF TakePending, MustPause, ShouldPause
    <2> QED
      BY <1>2, <2>1, <2>2, <2>3, <2>4 DEF ProcessorTop
  <1>3. CASE ProcessorGetPending
    BY <1>0, <1>1, <1>3 DEF ProcessorGetPending, TakePending
  <1>4. CASE ProcessorSetPaused \/ ProcessorCheckResume \/ ProcessorSubmit
    BY <1>1, <1>4
    DEF ProcessorSetPaused, ProcessorCheckResume, ProcessorSubmit
  <1>5. CASE DrainForPause \/ DrainForDone \/ DrainForLimit
    BY <1>1, <1>5 DEF DrainForPause, DrainForDone, DrainForLimit, DrainLoop
  <1>6. CASE \/ DrainLocked("lock_pause", "join_pause", "drain_pause")
             \/ DrainLocked("lock_done", "join_done", "drain_done")
             \/ DrainLocked("lock_limit", "join_limit", "drain_limit")
    BY <1>1, <1>6 DEF DrainLocked
  <1>7. CASE \/ DrainWait("join_pause", "drain_pause")
             \/ DrainWait("join_done", "drain_done")
             \/ DrainWait("join_limit", "drain_limit")
    BY <1>1, <1>7 DEF DrainWait
  <1>8. CASE \/ Relock("wait_resume", "check_resume")
             \/ Relock("wait_submit", "submit")
    BY <1>1, <1>8 DEF Relock
  <1> QED
    BY <1>2, <1>3, <1>4, <1>5, <1>6, <1>7, <1>8 DEF Processor

\* Nothing new awaits the trainer, and the counters stay.
LEMMA StalenessStays ==
    ASSUME StalenessInv,
           \A s \in Samples : (Awaits(s)' => Awaits(s)) /\ (Waits(s)' => Waits(s)),
           UNCHANGED <<staleness_samples, counted, processor>>,
           update' # "queue_size" \/ UNCHANGED update
    PROVE  StalenessInv'
  <1>1. /\ Cardinality(Awaiting)' <= Cardinality(Awaiting)
        /\ Cardinality(Waiting)' <= Cardinality(Waiting)
    BY AwaitingFalls, WaitingFalls
  <1>2. /\ Cardinality(Awaiting)' \in Nat /\ Cardinality(Waiting)' \in Nat
    BY AwaitingFinitePrimed
  <1>3. /\ Cardinality(Awaiting) \in Nat /\ Cardinality(Waiting) \in Nat
        /\ MaxRequired \in Nat
    BY AwaitingFinite, RollouterAssumption
  <1> QED
    BY <1>1, <1>2, <1>3 DEF StalenessInv

LEMMA StalenessProcessor ==
    ASSUME Types, Types', LockInv, StalenessInv, Processor
    PROVE  StalenessInv'
  <1>1. /\ UNCHANGED <<update, counted>>
        /\ TakesPending =>
             /\ staleness_samples' = staleness_samples + 1
             /\ processor' # "get_pending"
             /\ processor = "get_pending" \/ staleness_samples < MaxRequired
        /\ ~TakesPending => UNCHANGED staleness_samples
        /\ processor' = "get_pending" => staleness_samples < MaxRequired
    BY ProcessorBelow DEF StalenessInv
  <1>2. /\ Cardinality(Awaiting)' \in Nat /\ Cardinality(Waiting)' \in Nat
    BY AwaitingFinitePrimed
  <1>3. /\ Cardinality(Awaiting) \in Nat /\ Cardinality(Waiting) \in Nat
        /\ MaxRequired \in Nat
    BY AwaitingFinite, RollouterAssumption
  <1>4. update = "queue_size" => Cardinality(Waiting)' <= Cardinality(Waiting)
    <2> SUFFICES ASSUME update = "queue_size"
                 PROVE  Cardinality(Waiting)' <= Cardinality(Waiting)
      OBVIOUS
    <2>1. ~Submits
      BY DEF Submits, Locked, LockInv, Holds
    <2>2. \A s \in Samples : Waits(s)' => Waits(s)
      BY <2>1, ProcessorWaits
    <2> QED
      BY <2>2, WaitingFalls
  <1>5. CASE TakesPending
    <2>1. \A s \in Samples : Awaits(s)' => Awaits(s) \/ s = rollout_sample'
      BY ProcessorAwaits
    <2>2. Cardinality(Awaiting)' <= Cardinality(Awaiting) + 1
      <3>1. PICK t : t = rollout_sample'
        OBVIOUS
      <3> QED
        BY <2>1, <3>1, AwaitingGrows
    <2> QED
      BY <1>1, <1>2, <1>3, <1>4, <1>5, <2>2 DEF StalenessInv
  <1>6. CASE ~TakesPending
    <2>1. \A s \in Samples : Awaits(s)' => Awaits(s)
      BY <1>6, ProcessorAwaits
    <2>2. Cardinality(Awaiting)' <= Cardinality(Awaiting)
      BY <2>1, AwaitingFalls
    <2> QED
      BY <1>1, <1>2, <1>3, <1>4, <1>6, <2>2 DEF StalenessInv
  <1> QED
    BY <1>5, <1>6

LEMMA StalenessUpdate ==
    ASSUME Types, Types', StalenessInv, Update(current_version)
    PROVE  StalenessInv'
  <1>1. UNCHANGED <<task, cancel_queue, queue, rollout_sample, processor>>
    BY DEF Update, mqVars, queueVars, processorVars, activeVars
  <1>2. \A s \in Samples : (Awaits(s)' <=> Awaits(s)) /\ (Waits(s)' <=> Waits(s))
    BY <1>1 DEF Awaits, Waits
  <1>3. CASE UpdateCall
    BY <1>1, <1>2, <1>3, StalenessStays DEF UpdateCall
  <1>4. Awaiting' = Awaiting /\ Waiting' = Waiting
    BY <1>1 DEF Awaiting, Waiting, Awaits, Waits
  <1>5. /\ Cardinality(Awaiting) \in Nat /\ Cardinality(Waiting) \in Nat
        /\ MaxRequired \in Nat
    BY AwaitingFinite, RollouterAssumption
  <1>6. CASE UpdateAcquired(current_version)
    <2>1. /\ counted' = ActiveTasks + Len(cancel_queue)
          /\ UNCHANGED staleness_samples
      BY <1>6 DEF UpdateAcquired, ActiveOrInterrupted
    <2> QED
      BY <1>1, <1>4, <2>1, WaitingCounted DEF StalenessInv
  <1>7. CASE UpdateReturn
    <2>1. /\ staleness_samples' = counted + Len(queue) /\ counted' = 0
          /\ update = "queue_size" /\ update' = "returned"
      BY <1>7 DEF UpdateReturn
    <2> QED
      BY <1>1, <1>4, <1>5, <2>1, AwaitingCounted DEF StalenessInv
  <1> QED
    BY <1>3, <1>6, <1>7 DEF Update

LEMMA StalenessNext ==
    Types /\ Types' /\ LockInv /\ StalenessInv /\ [Next]_vars => StalenessInv'
  <1> SUFFICES ASSUME Types, Types', LockInv, StalenessInv, [Next]_vars
               PROVE  StalenessInv'
    OBVIOUS
  <1>1. CASE Rollouts(FeedSample) \/ Rollouts(Monitor) \/ UNCHANGED vars
    <2>1. UNCHANGED <<task, cancel_queue, queue, rollout_sample, processor,
                      staleness_samples, counted, update>>
      BY <1>1 DEF Rollouts, FeedSample, Monitor, vars, rollouterVars, mqVars,
                  flagVars, queueVars, processorVars, callVars, activeVars
    <2>2. \A s \in Samples : (Awaits(s)' <=> Awaits(s)) /\ (Waits(s)' <=> Waits(s))
      BY <2>1 DEF Awaits, Waits
    <2> QED
      BY <2>1, <2>2, StalenessStays
  <1>2. CASE Rollouts(Processor)
    BY <1>2, StalenessProcessor DEF Rollouts
  <1>3. CASE Rollouts(Main)
    <2>1. UNCHANGED <<processor, staleness_samples, counted, update>>
      BY <1>3 DEF Rollouts, Main, processorVars, callVars
    <2> QED
      BY <1>3, <2>1, QueueAwaits, StalenessStays DEF Rollouts
  <1>4. CASE Rollouts(Pause) \/ Rollouts(Resume)
    <2>1. /\ UNCHANGED <<task, cancel_queue, queue, rollout_sample, processor,
                         staleness_samples, counted>>
          /\ update' # "queue_size" \/ UNCHANGED update
      BY <1>4 DEF Rollouts, Pause, PauseCall, PauseAcquired, PauseCancel,
                  PauseGather, PauseReturn, Resume, ResumeCall, ResumeWorkers,
                  ResumeReturn, mqVars, queueVars, processorVars, activeVars
    <2>2. \A s \in Samples : (Awaits(s)' <=> Awaits(s)) /\ (Waits(s)' <=> Waits(s))
      BY <2>1 DEF Awaits, Waits
    <2> QED
      BY <2>1, <2>2, StalenessStays
  <1>5. CASE Rollouts(Update(current_version))
    BY <1>5, StalenessUpdate DEF Rollouts
  <1>6. ASSUME NEW t \in Samples, Rollouts(Task(t)) \/ Rollouts(TaskFailure(t))
        PROVE  StalenessInv'
    <2>1. UNCHANGED <<processor, staleness_samples, counted, update>>
      BY <1>6 DEF Rollouts, Task, TaskFailure, taskFrame, flagVars,
                  processorVars, callVars
    <2>2. Task(t) \/ TaskFailure(t)
      BY <1>6 DEF Rollouts
    <2>3. \A s \in Samples : (Awaits(s)' => Awaits(s)) /\ (Waits(s)' => Waits(s))
      BY <2>2, TaskAwaits
    <2> QED
      BY <2>1, <2>3, StalenessStays
  <1>7. CASE Trainer
    <2>1. /\ UNCHANGED <<processor, staleness_samples, counted>>
          /\ update' # "queue_size" \/ UNCHANGED update
      BY <1>7 DEF Trainer, TrainerGet, TrainStep, TrainerFinal, TrainerDone,
                  Synchronizer, SyncPause, SyncWeights, SyncReturn,
                  rollouterVars, flagVars, processorVars, callVars
    <2> QED
      BY <1>7, <2>1, QueueAwaits, StalenessStays
  <1>8. CASE MainClearQueue
    <2>1. UNCHANGED <<processor, staleness_samples, counted, update>>
      BY <1>8 DEF MainClearQueue, rollouterVars, flagVars, processorVars,
                  callVars
    <2> QED
      BY <1>8, <2>1, QueueAwaits, StalenessStays
  <1> QED
    BY <1>1, <1>2, <1>3, <1>4, <1>5, <1>6, <1>7, <1>8
    DEF Next, Rollouts, Calls

\* update_param_version resets the staleness of a running system from four
\* places read at different times; under the lock it still misses only the
\* sample in the hands of the processor, so that never more than MaxRequired
\* samples and that one await the trainer.
THEOREM AsyncInFlightBound == Spec => []InFlightBound
  <1>1. Init => StalenessInv
    <2> SUFFICES ASSUME Init PROVE StalenessInv
      OBVIOUS
    <2>1. Awaiting = {}
      BY OccurrencesEmpty, SamplesAreNumbers
      DEF Awaiting, Awaits, Waits, Init, RollouterInit, MQ!Init
    <2>2. /\ Cardinality(Awaiting) = 0
          /\ staleness_samples = 0 /\ counted = 0 /\ update = "idle"
          /\ MaxRequired \in Nat
      BY <2>1, FS_EmptySet, RollouterAssumption DEF Init, RollouterInit
    <2> QED
      BY <2>2 DEF StalenessInv
  <1>2. StalenessInv => InFlightBound
    <2>1. InFlight = Cardinality(Awaiting)
      <3>1. {s \in Samples : \/ rollout_sample = s
                             \/ task[s] = "generating"
                             \/ Occurrences(s, cancel_queue) > 0
                             \/ Occurrences(s, queue) > 0} = Awaiting
        BY DEF Awaiting, Awaits, Waits
      <3> QED
        BY <3>1 DEF InFlight
    <2> QED
      BY <2>1 DEF StalenessInv, InFlightBound
  <1> QED
    BY <1>1, <1>2, TypesHold, LockHolds, StalenessNext, PTL DEF Spec
=============================================================================
