----------------------------- MODULE FullyAsync -----------------------------
(***************************************************************************)
(* Fully asynchronous training: the Rollouter, the message queue, the      *)
(* FullyAsyncTrainer actor and the ParameterSynchronizer                   *)
(* (verl/experimental/fully_async_policy/{fully_async_trainer,param_sync,  *)
(* fully_async_main}.py).  The trainer calls the synchronizer and waits    *)
(* for it, so the two are one process here; the synchronizer calls the     *)
(* rollouter, waits for pause, and leaves update_param_version and resume  *)
(* running while the trainer goes on.                                      *)
(*                                                                         *)
(* Training itself, metrics, validation and checkpoints are left out.      *)
(***************************************************************************)
EXTENDS Rollouter

CONSTANTS
    Required,    \* required_samples
    TriggerStep, \* trigger_parameter_sync_step
    TestFreq     \* rollout.test_freq

ASSUME TrainerAssumption ==
    /\ Required \in Nat \ {0}
    /\ TriggerStep \in Nat \ {0}
    /\ TestFreq \in Nat \ {0}

\* set_max_required_samples, with a staleness_threshold of zero or more.
ASSUME StalenessAssumption == MaxRequired >= Required * TriggerStep

VARIABLES
    trainer,            \* where the trainer or its synchronizer is
    collected,          \* samples of the batch being collected
    local_trigger_step,
    param_version,      \* current_param_version of the trainer
    final,              \* the synchronization after the loop
    current_version     \* the version the synchronizer sends or has sent

trainerVars == <<trainer, collected, local_trigger_step, param_version, final,
                 current_version>>
vars == <<rollouterVars, mqVars, trainerVars>>

Init ==
    /\ RollouterInit
    /\ trainer = "collect"
    /\ collected = 0
    /\ local_trigger_step = 1
    /\ param_version = 0
    /\ final = FALSE
    /\ current_version = 0

-----------------------------------------------------------------------------
(* FullyAsyncTrainer.                                                      *)

\* What get_sample returned: a sample of the batch, or the finish signal,
\* at which an incomplete batch is given up.
Collect(sample) ==
    IF sample = None
    THEN /\ trainer' = "final"
         /\ collected' = 0
    ELSE /\ collected' = collected + 1
         /\ trainer' = IF collected' = Required THEN "train" ELSE "collect"

\* _get_samples_from_queue, one get_sample at a time.
TrainerGet ==
    /\ trainer = "collect"
    /\ MQ!GetSample("trainer") \/ MQ!ResumeGet("trainer")
    /\ IF queue # <<>>
       THEN Collect(Head(queue))
       ELSE UNCHANGED <<trainer, collected>>
    /\ UNCHANGED <<rollouterVars, local_trigger_step, param_version, final,
                   current_version>>

\* The branch of _trigger_parameter_sync_after_step that synchronizes.
NextVersion ==
    /\ param_version' = param_version + 1
    /\ local_trigger_step' = 1
    /\ trainer' = "wait_last_valid"

\* A training step; every TriggerStep of them the parameters are sent.
TrainStep ==
    /\ trainer = "train"
    /\ collected' = 0
    /\ IF local_trigger_step < TriggerStep
       THEN /\ local_trigger_step' = local_trigger_step + 1
            /\ trainer' = "collect"
            /\ UNCHANGED param_version
       ELSE NextVersion
    /\ UNCHANGED <<rollouterVars, mqVars, final, current_version>>

\* Mutant: nothing is waited for.
LastSyncIgnored == TRUE

\* wait_last_valid: the last update_param_version and resume have returned.
LastSyncOver == update = "idle" /\ resume = "idle"

\* The end of fit: one more synchronization if the last one was not
\* validated, or if there are updates it did not include.
TrainerFinal ==
    /\ trainer = "final"
    /\ LastSyncOver
    /\ IF param_version % TestFreq # 0 \/ local_trigger_step > 1
       THEN NextVersion /\ final' = TRUE
       ELSE /\ trainer' = "done"
            /\ UNCHANGED <<local_trigger_step, param_version, final>>
    /\ UNCHANGED <<rollouterVars, mqVars, collected, current_version>>

TrainerDone ==
    /\ trainer = "last_valid"
    /\ LastSyncOver
    /\ trainer' = "done"
    /\ UNCHANGED <<rollouterVars, mqVars, collected, local_trigger_step,
                   param_version, final, current_version>>

-----------------------------------------------------------------------------
(* ParameterSynchronizer.sync_weights.                                     *)

SyncPause ==
    /\ trainer = "wait_last_valid"
    /\ LastSyncOver
    /\ current_version' = param_version
    /\ pause' = "requested"
    /\ trainer' = "pausing"
    /\ UNCHANGED <<update, resume>>

\* pause has returned: the weights travel from the actor to the rollout
\* workers.
SyncWeights ==
    /\ trainer = "pausing"
    /\ pause = "returned"
    /\ pause' = "idle"
    /\ trainer' = "syncing"
    /\ UNCHANGED <<update, resume, current_version>>

\* The weights have arrived: start update_param_version and, after it,
\* resume, and return to the trainer.
SyncReturn ==
    /\ trainer = "syncing"
    /\ update' = "requested"
    /\ resume' = "requested"
    /\ trainer' = IF final THEN "last_valid" ELSE "collect"
    /\ UNCHANGED <<pause, current_version>>

Synchronizer ==
    /\ SyncPause \/ SyncWeights \/ SyncReturn
    /\ UNCHANGED <<mqVars, partial_rollout, schedVars, flagVars, queueVars,
                   processorVars, main, monitor, counted, activeVars,
                   cancelled, failures, collected, local_trigger_step,
                   param_version, final>>

Trainer ==
    \/ TrainerGet \/ TrainStep \/ TrainerFinal \/ TrainerDone
    \/ Synchronizer

\* _run_training_loop: both futures are over.
MainClearQueue ==
    /\ trainer = "done"
    /\ main = "done"
    /\ queue # <<>>
    /\ MQ!ClearQueue
    /\ UNCHANGED <<rollouterVars, trainerVars>>

-----------------------------------------------------------------------------

\* The trainer is not affected by a step of the rollouter.
Rollouts(step) == step /\ UNCHANGED <<partial_rollout, trainerVars>>

\* The three calls of one synchronization, each of which starts after the
\* one before has returned.
Calls == Pause \/ Update(current_version) \/ Resume

Next ==
    \/ Rollouts(FeedSample)
    \/ Rollouts(Processor)
    \/ Rollouts(Main)
    \/ Rollouts(Monitor)
    \/ Rollouts(Calls)
    \/ \E s \in Samples : Rollouts(Task(s)) \/ Rollouts(TaskFailure(s))
    \/ Trainer
    \/ MainClearQueue

Spec == Init /\ [][Next]_vars

\* An event loop runs its ready coroutines, and a lock serves its waiters,
\* first come first served: a coroutine that is ready again and again runs,
\* even if another one has the loop in between.  Main only moves when the
\* processor is over, so they share a condition.  Generations end, and the
\* trainer is never stopped.  Nothing obliges a generation to fail.
Fairness ==
    /\ SF_vars(Rollouts(FeedSample))
    /\ SF_vars(Rollouts(Processor \/ Main))
    /\ SF_vars(Rollouts(Monitor))
    /\ SF_vars(Rollouts(Calls))
    /\ \A s \in Samples : SF_vars(Rollouts(Task(s)))
    /\ WF_vars(Trainer)

FairSpec == Spec /\ Fairness

-----------------------------------------------------------------------------
(* Correctness.                                                            *)

Occurrences(s, seq) == Cardinality({i \in 1..Len(seq) : seq[i] = s})
If(p) == IF p THEN 1 ELSE 0

\* How many places hold sample s.
Places(s) ==
    Occurrences(s, pending_queue) + If(rollout_sample = s)
    + If(task[s] = "generating") + Occurrences(s, cancel_queue)
    + Occurrences(s, queue) + Occurrences(s, delivered)

\* A sample is in one place at a time: pauses, interruptions and retries
\* never generate it twice or hand it to the trainer twice.
SingleCustody == \A s \in Samples : Places(s) <= 1

\* A sample that was fed is somewhere, unless the message queue reports it
\* dropped or its generation raised.
NothingVanishes ==
    cleared = 0 =>
        Cardinality({s \in 1..Total : s <= fed /\ Places(s) = 0})
            = dropped_samples + failures

InFlight ==
    Cardinality({s \in Samples : \/ rollout_sample = s
                                 \/ task[s] = "generating"
                                 \/ Occurrences(s, cancel_queue) > 0
                                 \/ Occurrences(s, queue) > 0})

\* The staleness counter is reset under a running system from four places
\* read at different times; it still misses at most the sample the processor
\* has in hand, so that at most MaxRequired + 1 samples await the trainer.
InFlightBound ==
    /\ InFlight <= staleness_samples + 1
    /\ InFlight <= MaxRequired + 1

\* max_concurrent_samples holds through pauses and retries.
ConcurrencyBound == ActiveTasks <= MaxConcurrent

\* The finish signal reaches the trainer: samples of tasks that outlive a
\* crashed processor may follow it into the queue but never push it out.
FinishSignalKept ==
    main # "run" /\ trainer = "collect" => Occurrences(None, queue) = 1

\* Trainer, synchronizer and rollouter count versions on their own: the
\* trainer is one ahead of what was sent only until the previous exchange is
\* over, and the rollouter learns of each version, in order, before its
\* successor is sent.
VersionLag ==
    /\ param_version - current_version = If(trainer = "wait_last_valid")
    /\ current_version - current_param_version =
            If(\/ trainer \in {"pausing", "syncing"}
               \/ update \in {"requested", "acquire"})

\* No generation starts while the paused flag is set.
SubmitsOnlyUnpaused ==
    [][\A s \in Samples :
        task[s] = "none" /\ task'[s] = "generating" => ~paused]_vars

\* A pause for staleness or for a full queue ends: the monitor or resume
\* brings the processor back to work, no notification is lost.
PauseEnds == processor = "wait_resume" ~> processor = "top"

\* The trainer ends, and so do the coroutines of the rollouter: no pause,
\* full queue or lost notification stops the pipeline for good.
Terminates == <>(trainer = "done" /\ main = "done" /\ monitor = "exit")

-----------------------------------------------------------------------------
(* Statements of the documentation the code does not keep.                 *)

\* docs/advance/fully_async.md: "When triggering parameter synchronization,
\* if Rollouter has ongoing tasks, it will wait for the tasks to complete and
\* not add new tasks".
NoGenerationDuringSync ==
    trainer = "syncing" => \A s \in Samples : task[s] # "generating"

\* docs/advance/fully_async.md: "The interrupted samples will continue to be
\* generated after synchronization".  The processor takes them up again,
\* unless it has stopped.
InterruptedContinueEventually ==
    \A s \in Samples :
        Occurrences(s, cancel_queue) > 0
            ~> (task[s] = "generating" \/ ProcessorOver)
=============================================================================
