----------------------------- MODULE Rollouter -----------------------------
(***************************************************************************)
(* The FullyAsyncRollouter actor                                           *)
(* (verl/experimental/fully_async_policy/fully_async_rollouter.py): the    *)
(* coroutines that feed samples, generate them concurrently and put them   *)
(* in the message queue, and the methods pause, update_param_version and   *)
(* resume through which the parameter synchronizer stops and restarts them.*)
(*                                                                         *)
(* All of them are coroutines of one asyncio event loop.  Variable loop    *)
(* names the coroutine that has run since its last suspension: until it    *)
(* suspends, only other actors move.  The asyncio lock is the queue lockq, *)
(* its holder first, because a released lock goes to the first waiter.     *)
(* A task that is over stays in active_tasks until it is waited for; by    *)
(* then its sample may run in another task, so the tasks that are over are *)
(* counted and the others are known by their sample.                       *)
(***************************************************************************)
EXTENDS Integers, Sequences, FiniteSets

CONSTANTS
    Total,          \* total_rollout_steps: samples fed
    MaxRequired,    \* max_required_samples, also max_queue_size
    MaxConcurrent,  \* max_concurrent_samples
    PendingSize,    \* maxsize of pending_queue
    PartialModes,   \* values of async_training.partial_rollout considered
    MaxFailures     \* bound: generations that raise during a run

ASSUME RollouterAssumption ==
    /\ Total \in Nat \ {0}
    /\ MaxRequired \in Nat \ {0}
    /\ MaxConcurrent \in 1..MaxRequired
    /\ PendingSize \in Nat \ {0}
    /\ PartialModes \subseteq BOOLEAN
    /\ MaxFailures \in Nat

Samples == 1..Total
None == 0     \* no sample; the finish signal in the message queue
Done == 0     \* the string "DONE" in pending_queue

VARIABLES
    partial_rollout, \* async_training.partial_rollout, fixed at start
    \* the message queue actor
    queue, mq_running, total_produced, total_consumed, dropped_samples,
    cleared, getter, delivered,
    \* the event loop and the lock
    loop, lockq,
    \* attributes of the rollouter
    paused, monitor_loop_trigger, running, staleness_samples,
    current_param_version, pending_queue, fed, cancel_queue,
    \* coroutines: where each one is, and their local variables
    processor, rollout_sample, done_tasks_bound, notified,
    main, monitor, pause, update, resume, counted,
    \* active_tasks: where the running tasks are, and how many are over but
    \* still in the set; the cancellation event of the agent loop workers
    task, finished_tasks, failed_tasks, cancelled, failures

mqVars == <<queue, mq_running, total_produced, total_consumed,
            dropped_samples, cleared, getter, delivered>>
schedVars == <<loop, lockq>>
flagVars == <<paused, monitor_loop_trigger, running, staleness_samples,
              current_param_version>>
queueVars == <<pending_queue, fed, cancel_queue>>
processorVars == <<processor, rollout_sample, done_tasks_bound, notified>>
callVars == <<pause, update, resume, counted>>
activeVars == <<task, finished_tasks, failed_tasks>>
rollouterVars == <<partial_rollout, schedVars, flagVars, queueVars,
                   processorVars, main, monitor, callVars, activeVars,
                   cancelled, failures>>

MQ == INSTANCE MessageQueue WITH
        MaxQueueSize <- MaxRequired, Consumers <- {"trainer"},
        MaxProduced <- Total + 1, running <- mq_running

Coroutines == {"feed", "processor", "main", "monitor", "pause", "update",
               "resume"}

\* The state fit leaves behind, after the synchronization that precedes it.
RollouterInit ==
    /\ partial_rollout \in PartialModes
    /\ MQ!Init
    /\ loop = "none"
    /\ lockq = <<>>
    /\ paused = FALSE
    /\ monitor_loop_trigger = TRUE
    /\ running = TRUE
    /\ staleness_samples = 0
    /\ current_param_version = 0
    /\ pending_queue = <<>>
    /\ fed = 0
    /\ cancel_queue = <<>>
    /\ processor = "top"
    /\ rollout_sample = None
    /\ done_tasks_bound = FALSE
    /\ notified = FALSE
    /\ main = "run"
    /\ monitor = "sleep"
    /\ pause = "idle" /\ update = "idle" /\ resume = "idle"
    /\ counted = 0
    /\ task = [s \in Samples |-> "none"]
    /\ finished_tasks = 0 /\ failed_tasks = 0
    /\ cancelled = FALSE
    /\ failures = 0

-----------------------------------------------------------------------------
(* The event loop and the lock.                                            *)

\* Coroutine c may run: nobody else is between two suspensions.
MayRun(c) == loop \in {"none", c}

Continue(c) == loop' = c
Suspend == loop' = "none"

\* async with self.lock: without waiters there is no suspension.
Request(c) ==
    /\ lockq' = Append(lockq, c)
    /\ loop' = IF lockq = <<>> THEN c ELSE "none"

\* Coroutine c runs and has the lock.
Locked(c) == MayRun(c) /\ lockq # <<>> /\ Head(lockq) = c

Release == lockq' = Tail(lockq)

\* The lock is released and asked for again.
Reacquire(c) ==
    /\ lockq' = Append(Tail(lockq), c)
    /\ loop' = IF Tail(lockq) = <<>> THEN c ELSE "none"

\* Mutant: nobody is woken.
NotifyNobody == UNCHANGED notified

\* condition.notify_all: only the processor ever waits on the condition.
NotifyAll ==
    notified' = (notified \/ processor \in {"wait_resume", "wait_submit"})

-----------------------------------------------------------------------------
(* _feed_samples.                                                          *)

FeedSample ==
    /\ MayRun("feed")
    /\ fed <= Total
    /\ Len(pending_queue) < PendingSize
    /\ pending_queue' = Append(pending_queue,
                               IF fed < Total THEN fed + 1 ELSE Done)
    /\ fed' = fed + 1
    /\ loop' = IF fed' <= Total /\ Len(pending_queue') < PendingSize
               THEN "feed" ELSE "none"
    /\ UNCHANGED <<mqVars, lockq, flagVars, cancel_queue, processorVars, main,
                   monitor, callVars, activeVars, cancelled, failures>>

-----------------------------------------------------------------------------
(* _processor_worker.                                                      *)

\* What taking a sample changes, and what only the processor changes of the
\* set of tasks and of its own state.
takeVars == <<pending_queue, cancel_queue, staleness_samples, rollout_sample>>
waitVars == <<done_tasks_bound, notified>>

\* _should_pause_generation.
ShouldPause ==
    \/ Len(queue) >= MaxRequired
    \/ staleness_samples >= MaxRequired

\* A sample taken from pending_queue, "DONE" included, counts as stale.
TakePending ==
    /\ pending_queue # <<>>
    /\ pending_queue' = Tail(pending_queue)
    /\ staleness_samples' = staleness_samples + 1
    /\ rollout_sample' = Head(pending_queue)
    /\ processor' = IF Head(pending_queue) = Done
                    THEN "drain_done" ELSE "drain_limit"
    /\ Continue("processor")
    /\ UNCHANGED <<lockq, cancel_queue>>

\* Mutant: an interrupted sample is looked at, not taken.
CancelledPeek == cancel_queue

\* The cancel queue without the sample that get takes.
CancelledRest == Tail(cancel_queue)

TakeCancelled ==
    /\ cancel_queue # <<>>
    /\ cancel_queue' = CancelledRest
    /\ rollout_sample' = Head(cancel_queue)
    /\ processor' = "drain_limit"
    /\ Continue("processor")
    /\ UNCHANGED <<lockq, pending_queue, staleness_samples>>

MustPause == paused \/ ShouldPause

\* The head of the loop: pause, or take the next sample, an interrupted one
\* first.
ProcessorTop ==
    /\ processor = "top"
    /\ MayRun("processor")
    /\ \/ /\ MustPause
          /\ processor' = "set_paused"
          /\ Request("processor")
          /\ UNCHANGED takeVars
       \/ ~MustPause /\ TakeCancelled
       \/ ~MustPause /\ cancel_queue = <<>> /\ TakePending
       \/ /\ ~MustPause /\ cancel_queue = <<>> /\ pending_queue = <<>>
          /\ processor' = "get_pending"
          /\ Suspend
          /\ UNCHANGED <<lockq, takeVars>>
    /\ UNCHANGED <<paused, waitVars, activeVars>>

\* pending_queue.get returns after a wait.
ProcessorGetPending ==
    /\ processor = "get_pending"
    /\ MayRun("processor")
    /\ TakePending
    /\ UNCHANGED <<paused, waitVars, activeVars>>

ProcessorSetPaused ==
    /\ processor = "set_paused"
    /\ Locked("processor")
    /\ paused' = TRUE
    /\ Release
    /\ Continue("processor")
    /\ processor' = "drain_pause"
    /\ UNCHANGED <<takeVars, waitVars, activeVars>>

RunningTasks == {s \in Samples : task[s] # "none"}

\* len(self.active_tasks)
ActiveTasks == Cardinality(RunningTasks) + finished_tasks + failed_tasks

\* Mutant: one task more than the limit.
AtLimitOffByOne == ActiveTasks > MaxConcurrent

HasActive == ActiveTasks > 0
AtLimit   == ActiveTasks >= MaxConcurrent

\* The three loops that wait for tasks: to pause, to stop after "DONE", and
\* to stay below the concurrency limit.  When the condition of the loop no
\* longer holds, the processor goes on to "after".
DrainLoop(drain, wait, again, after) ==
    /\ processor = drain
    /\ MayRun("processor")
    /\ processor' = IF again THEN wait ELSE after
    /\ IF processor' = "exit" THEN Suspend /\ UNCHANGED lockq
                              ELSE Request("processor")
    /\ UNCHANGED <<paused, takeVars, waitVars, activeVars>>

DrainForPause == DrainLoop("drain_pause", "lock_pause", HasActive, "check_resume")
DrainForDone  == DrainLoop("drain_done", "lock_done", HasActive, "exit")
DrainForLimit == DrainLoop("drain_limit", "lock_limit", AtLimit, "submit")

\* Under the lock: wait for a task, if pause has not taken them all; the for
\* loop over done_tasks fails if the name was never bound.
DrainLocked(lock, wait, drain) ==
    /\ processor = lock
    /\ Locked("processor")
    /\ \/ /\ HasActive
          /\ processor' = wait
          /\ Suspend
          /\ UNCHANGED lockq
       \/ /\ ~HasActive
          /\ processor' = IF done_tasks_bound THEN drain ELSE "unbound"
          /\ loop' = IF done_tasks_bound THEN "processor" ELSE "none"
          /\ Release
    /\ UNCHANGED <<paused, takeVars, waitVars, activeVars>>

\* asyncio.wait returns: the tasks that are over leave active_tasks, and one
\* that raised takes the processor with it.
DrainWait(wait, drain) ==
    /\ processor = wait
    /\ MayRun("processor")
    /\ finished_tasks + failed_tasks > 0
    /\ finished_tasks' = 0
    /\ failed_tasks' = 0
    /\ processor' = IF failed_tasks > 0 THEN "dead" ELSE drain
    /\ loop' = IF failed_tasks > 0 THEN "none" ELSE "processor"
    /\ done_tasks_bound' = TRUE
    /\ Release
    /\ UNCHANGED <<paused, takeVars, notified, task>>

\* while self.paused: await condition.wait().
ProcessorCheckResume ==
    /\ processor = "check_resume"
    /\ Locked("processor")
    /\ Release
    /\ processor' = IF paused THEN "wait_resume" ELSE "top"
    /\ loop' = IF paused THEN "none" ELSE "processor"
    /\ notified' = FALSE
    /\ UNCHANGED <<paused, takeVars, done_tasks_bound, activeVars>>

\* A notified wait first takes the lock back.
Relock(wait, check) ==
    /\ processor = wait
    /\ notified
    /\ MayRun("processor")
    /\ processor' = check
    /\ Request("processor")
    /\ UNCHANGED <<paused, takeVars, waitVars, activeVars>>

\* Mutant: the pause is not looked at again under the lock.
SubmitAnyway == FALSE

SubmitWaits == paused

\* Submit the sample, once the pause is over.
ProcessorSubmit ==
    /\ processor = "submit"
    /\ Locked("processor")
    /\ Release
    /\ notified' = FALSE
    /\ \/ /\ SubmitWaits
          /\ processor' = "wait_submit"
          /\ Suspend
          /\ UNCHANGED <<task, rollout_sample>>
       \/ /\ ~SubmitWaits
          /\ processor' = "top"
          /\ Continue("processor")
          /\ task' = [task EXCEPT ![rollout_sample] = "generating"]
          /\ rollout_sample' = None
    /\ UNCHANGED <<paused, pending_queue, cancel_queue, staleness_samples,
                   done_tasks_bound, finished_tasks, failed_tasks>>

Processor ==
    /\ \/ ProcessorTop
       \/ ProcessorGetPending
       \/ ProcessorSetPaused
       \/ DrainForPause
       \/ DrainForDone
       \/ DrainForLimit
       \/ DrainLocked("lock_pause", "join_pause", "drain_pause")
       \/ DrainLocked("lock_done", "join_done", "drain_done")
       \/ DrainLocked("lock_limit", "join_limit", "drain_limit")
       \/ DrainWait("join_pause", "drain_pause")
       \/ DrainWait("join_done", "drain_done")
       \/ DrainWait("join_limit", "drain_limit")
       \/ ProcessorCheckResume
       \/ Relock("wait_resume", "check_resume")
       \/ Relock("wait_submit", "submit")
       \/ ProcessorSubmit
    /\ UNCHANGED <<mqVars, monitor_loop_trigger, running,
                   current_param_version, fed, main, monitor, callVars,
                   cancelled, failures>>

-----------------------------------------------------------------------------
(* _process_single_sample_streaming.                                       *)

\* The generation ends and its result reaches the message queue, whose
\* put_sample runs in its own actor.
TaskPut(s) ==
    /\ task[s] = "generating"
    /\ MQ!PutSample(s)
    /\ task' = [task EXCEPT ![s] = "put"]
    /\ UNCHANGED <<cancel_queue, finished_tasks, failed_tasks, failures>>

\* put_sample has answered and the coroutine of the task returns.
TaskReturn(s) ==
    /\ task[s] = "put"
    /\ loop = "none"
    /\ task' = [task EXCEPT ![s] = "none"]
    /\ finished_tasks' = finished_tasks + 1
    /\ UNCHANGED <<mqVars, cancel_queue, failed_tasks, failures>>

\* Mutant: a partial result is thrown away.
ForgetPartial(s) == UNCHANGED cancel_queue

KeepPartial(s) == cancel_queue' = Append(cancel_queue, s)

\* The agent loop noticed the cancellation event: the partial result goes to
\* the cancel queue.
TaskInterrupted(s) ==
    /\ task[s] = "generating"
    /\ cancelled
    /\ loop = "none"
    /\ KeepPartial(s)
    /\ task' = [task EXCEPT ![s] = "none"]
    /\ finished_tasks' = finished_tasks + 1
    /\ UNCHANGED <<mqVars, failed_tasks, failures>>

TaskFail(s) ==
    /\ task[s] = "generating"
    /\ failures < MaxFailures
    /\ loop = "none"
    /\ failures' = failures + 1
    /\ task' = [task EXCEPT ![s] = "none"]
    /\ failed_tasks' = failed_tasks + 1
    /\ UNCHANGED <<mqVars, cancel_queue, finished_tasks>>

taskFrame == <<schedVars, flagVars, pending_queue, fed, processorVars, main,
               monitor, callVars, cancelled>>

Task(s) ==
    /\ TaskPut(s) \/ TaskReturn(s) \/ TaskInterrupted(s)
    /\ UNCHANGED taskFrame

TaskFailure(s) == TaskFail(s) /\ UNCHANGED taskFrame

-----------------------------------------------------------------------------
(* _streaming_generation_main and _async_monitor_loop.                     *)

\* Mutant: the finish signal follows the feed, not the processor.
FeedOver == fed > Total

ProcessorOver == processor \in {"exit", "dead", "unbound"}

\* The processor is over, normally or not: send the finish signal.
MainFinish ==
    /\ main = "run"
    /\ ProcessorOver
    /\ MayRun("main")
    /\ MQ!PutSample(None)
    /\ main' = "stop"
    /\ UNCHANGED <<schedVars, running>>

MainStop ==
    /\ main = "stop"
    /\ MayRun("main")
    /\ main' = "stopping"
    /\ Request("main")
    /\ UNCHANGED <<mqVars, running>>

MainStopped ==
    /\ main = "stopping"
    /\ Locked("main")
    /\ Release
    /\ Suspend
    /\ running' = FALSE
    /\ main' = "done"
    /\ UNCHANGED mqVars

Main ==
    /\ MainFinish \/ MainStop \/ MainStopped
    /\ UNCHANGED <<paused, monitor_loop_trigger, staleness_samples,
                   current_param_version, queueVars, processorVars, monitor,
                   callVars, activeVars, cancelled, failures>>

\* The sleep of check_interval is over.
MonitorTick ==
    /\ monitor = "sleep"
    /\ MayRun("monitor")
    /\ monitor' = IF monitor_loop_trigger /\ ~ShouldPause
                  THEN "unpause" ELSE "check"
    /\ Request("monitor")
    /\ UNCHANGED <<paused, notified>>

\* Recovery, then the head of the loop takes the lock again.
MonitorUnpause ==
    /\ monitor = "unpause"
    /\ Locked("monitor")
    /\ paused' = FALSE
    /\ NotifyAll
    /\ monitor' = "check"
    /\ Reacquire("monitor")

MonitorCheck ==
    /\ monitor = "check"
    /\ Locked("monitor")
    /\ Release
    /\ Suspend
    /\ monitor' = IF running THEN "sleep" ELSE "exit"
    /\ UNCHANGED <<paused, notified>>

Monitor ==
    /\ MonitorTick \/ MonitorUnpause \/ MonitorCheck
    /\ UNCHANGED <<mqVars, monitor_loop_trigger, running, staleness_samples,
                   current_param_version, queueVars, processor,
                   rollout_sample, done_tasks_bound, main, callVars,
                   activeVars, cancelled, failures>>

-----------------------------------------------------------------------------
(* pause, update_param_version and resume, called by the synchronizer.     *)

PauseCall ==
    /\ pause = "requested"
    /\ MayRun("pause")
    /\ pause' = "acquire"
    /\ Request("pause")
    /\ UNCHANGED <<paused, monitor_loop_trigger, activeVars, cancelled>>

\* paused is set first, then the agent loops are cancelled.
PauseAcquired ==
    /\ pause = "acquire"
    /\ Locked("pause")
    /\ paused' = TRUE
    /\ pause' = IF partial_rollout THEN "cancel" ELSE "gather"
    /\ Suspend
    /\ UNCHANGED <<lockq, monitor_loop_trigger, activeVars, cancelled>>

\* The cancellation event is set in the agent loop workers.
PauseCancel ==
    /\ pause = "cancel"
    /\ cancelled' = TRUE
    /\ pause' = "gather"
    /\ UNCHANGED <<schedVars, paused, monitor_loop_trigger, activeVars>>

\* gather(return_exceptions=True): all are over, those that raised included.
PauseGather ==
    /\ pause = "gather"
    /\ loop = "none"
    /\ RunningTasks = {}
    /\ finished_tasks' = 0
    /\ failed_tasks' = 0
    /\ pause' = "clear_kv_cache"
    /\ UNCHANGED <<schedVars, paused, monitor_loop_trigger, task, cancelled>>

\* Only now, after the last wait, is the monitor told to stay away.
PauseReturn ==
    /\ pause = "clear_kv_cache"
    /\ loop = "none"
    /\ monitor_loop_trigger' = FALSE
    /\ Release
    /\ pause' = "returned"
    /\ UNCHANGED <<loop, paused, activeVars, cancelled>>

Pause ==
    /\ \/ PauseCall \/ PauseAcquired \/ PauseCancel \/ PauseGather
       \/ PauseReturn
    /\ UNCHANGED <<mqVars, running, staleness_samples, current_param_version,
                   queueVars, processorVars, main, monitor, update, resume,
                   counted, failures>>

UpdateCall ==
    /\ update = "requested"
    /\ MayRun("update")
    /\ update' = "acquire"
    /\ Request("update")
    /\ UNCHANGED <<staleness_samples, current_param_version, counted>>

\* Mutant: running tasks do not count as stale.
InterruptedOnly == Len(cancel_queue)

\* The part of the new staleness that is known before the wait.
ActiveOrInterrupted == ActiveTasks + Len(cancel_queue)

\* The new version, and the size of the message queue is asked for.
UpdateAcquired(version) ==
    /\ update = "acquire"
    /\ Locked("update")
    /\ current_param_version' = version
    /\ counted' = ActiveOrInterrupted
    /\ update' = "queue_size"
    /\ Suspend
    /\ UNCHANGED <<lockq, staleness_samples>>

\* The message queue has answered: what the processor counted since is lost.
UpdateReturn ==
    /\ update = "queue_size"
    /\ loop = "none"
    /\ staleness_samples' = counted + Len(queue)
    /\ counted' = 0
    /\ Release
    /\ update' = "returned"
    /\ UNCHANGED <<loop, current_param_version>>

Update(version) ==
    /\ UpdateCall \/ UpdateAcquired(version) \/ UpdateReturn
    /\ UNCHANGED <<mqVars, paused, monitor_loop_trigger, running, queueVars,
                   processorVars, main, monitor, pause, resume, activeVars,
                   cancelled, failures>>

\* Ray starts resume once the update it depends on has returned.
ResumeCall ==
    /\ resume = "requested"
    /\ update = "returned"
    /\ MayRun("resume")
    /\ resume' = "acquire"
    /\ Request("resume")
    /\ UNCHANGED <<paused, monitor_loop_trigger, notified, update, cancelled>>

\* The agent loop workers clear the cancellation event.
ResumeWorkers ==
    /\ resume = "acquire"
    /\ partial_rollout
    /\ Locked("resume")
    /\ cancelled' = FALSE
    /\ resume' = "workers_resumed"
    /\ Suspend
    /\ UNCHANGED <<lockq, paused, monitor_loop_trigger, notified, update>>

ResumeReturn ==
    /\ resume = IF partial_rollout THEN "workers_resumed" ELSE "acquire"
    /\ Locked("resume")
    /\ paused' = FALSE
    /\ monitor_loop_trigger' = TRUE
    /\ NotifyAll
    /\ Release
    /\ Suspend
    /\ resume' = "idle"
    /\ update' = "idle"
    /\ UNCHANGED cancelled

Resume ==
    /\ ResumeCall \/ ResumeWorkers \/ ResumeReturn
    /\ UNCHANGED <<mqVars, running, staleness_samples, current_param_version,
                   queueVars, processor, rollout_sample, done_tasks_bound,
                   main, monitor, pause, counted, activeVars, failures>>
=============================================================================
