-------------------------- MODULE TrainingRestarts --------------------------
(***************************************************************************)
(* A training run that saves checkpoints, is killed at any moment and is   *)
(* started again: RayPPOTrainer.fit with _save_checkpoint and              *)
(* _load_checkpoint (verl/trainer/ppo/ray_trainer.py), SFTTrainer.fit with *)
(* CheckpointHandler (verl/trainer/sft_trainer.py,                         *)
(* utils/checkpoint/checkpoint_handler.py), and below both the checkpoint  *)
(* managers (utils/checkpoint).                                            *)
(*                                                                         *)
(* A model is represented by the batches it was updated with, in order.    *)
(* Each pass over the data has an order of its own, so a batch is a number *)
(* that tells its pass and its place in it: a run that is never killed     *)
(* trains on 1, 2, 3 ...  resume_mode is auto, checkpoints are local and   *)
(* saved synchronously.  Validation, metrics and profiling are left out.   *)
(* global_steps is the number of the step                                  *)
(* being trained or last trained; fit increments it at the end of a step   *)
(* in one trainer and at its beginning in the other.  The driver of a PPO  *)
(* run and rank 0 of a supervised run, where every rank has a data loader, *)
(* are called Main.                                                        *)
(***************************************************************************)
EXTENDS Integers, Sequences, FiniteSets

CONSTANTS
    Ranks,       \* processes of a model, each with a shard of it
    Main,        \* rank 0
    Batches,     \* len(train_dataloader)
    TotalEpochs, \* trainer.total_epochs
    TotalSteps,  \* choices of total_training_steps
    SaveFreqs,   \* choices of trainer.save_freq, 0 for none (-1 in the code)
    KeepCounts,  \* choices of max_ckpt_to_keep, 0 for null
    Warmup,      \* trainer.critic_warmup
    MaxCrashes,  \* bound: how often the run is killed
    Missing,     \* a file that does not exist
    Torn         \* a file of which only a part was written

ASSUME SizesAssumption ==
    /\ Main \in Ranks
    /\ Batches \in Nat \ {0}
    /\ TotalEpochs \in Nat \ {0}
    /\ TotalSteps \subseteq 1..(Batches * TotalEpochs)
    /\ SaveFreqs \subseteq Nat
    /\ KeepCounts \subseteq Nat
    /\ Warmup \in Nat
    /\ MaxCrashes \in Nat

ASSUME FilesAssumption ==
    /\ Missing # Torn /\ {Missing, Torn} \cap Nat = {}
    /\ {Missing, Torn} \cap ([pass : Nat, place : Nat] \union Seq(Nat)) = {}

VARIABLES
    config,       \* the configuration of the run
    phase,        \* what the driver does next
    global_steps,
    epoch,
    pass,         \* whose order the sampler gives: the epoch it was told, or
                  \* (PPO) how often its own generator has shuffled
    position,     \* batches the data loader has handed out in this pass
    seen,         \* for each model, the batches it was updated with
    timed,        \* max_steps_duration > 0
    role,         \* the model being saved
    writing,      \* what each of its ranks has done
    saved_paths,  \* previous_saved_paths of each model, the steps in it
    shards,       \* disk: the model of a step, by model, step and rank
    data,         \* disk: the state of the data loader, by step and rank
    tracker,      \* disk: latest_checkpointed_iteration.txt
    crashes

memory == <<global_steps, epoch, pass, position, seen, timed>>
saving == <<role, writing, saved_paths>>
disk == <<shards, data, tracker>>
vars == <<config, phase, memory, saving, disk, crashes>>

Roles == {"actor", "critic"}
Steps == 1..(Batches * TotalEpochs)

Config ==
    {c \in [trainer : {"ppo", "sft"}, use_critic : BOOLEAN,
            keep : [Roles -> KeepCounts], save_freq : SaveFreqs,
            total_training_steps : TotalSteps] :
        /\ c.trainer = "sft" => ~c.use_critic
        /\ ~c.use_critic => c.keep["critic"] = c.keep["actor"]} \* not read

\* The models of this run: a supervised run has one engine, called "actor".
Models == IF config.use_critic THEN Roles ELSE {"actor"}

\* The processes that have a data loader.
DataRanks == IF config.trainer = "ppo" THEN {Main} ELSE Ranks

Nothing == [r \in Ranks |-> "todo"]
Absent == [r \in Ranks |-> Missing]

Fresh == [m \in Roles |-> <<>>]

Init ==
    /\ config \in Config
    /\ phase = "load"
    /\ global_steps = 0
    /\ epoch = 0
    /\ pass = 0
    /\ position = 0
    /\ seen = Fresh
    /\ timed = FALSE
    /\ role = "actor"
    /\ writing = Nothing
    /\ saved_paths = [m \in Roles |-> {}]
    /\ shards = [m \in Roles |-> [s \in Steps |-> Absent]]
    /\ data = [s \in Steps |-> Absent]
    /\ tracker = Missing
    /\ crashes = 0

-----------------------------------------------------------------------------
(* Resuming.                                                               *)

\* os.path.exists of the step's folder.  Retention removes the folder of a
\* model: in a PPO run a part of the step's folder, in a supervised run all.
FolderExists(s) ==
    \/ config.trainer = "ppo"
    \/ data[s] # Absent
    \/ shards["actor"][s] # Absent

\* find_latest_ckpt_path has a step to resume from.
Resumable == tracker \in Steps /\ FolderExists(tracker)

FromScratch ==
    \/ tracker = Missing
    \/ tracker \in Steps /\ ~FolderExists(tracker)

ShardReadable(m, s, r) == shards[m][s][r] \notin {Missing, Torn}

\* A data loader that has handed out nothing.
NewLoader == [pass |-> 0, place |-> 0]

\* state_dict of the data loader.  The sampler of a supervised run has no
\* state, that of a PPO run its generator.
LoaderState ==
    [pass |-> IF config.trainer = "ppo" THEN pass ELSE 0, place |-> position]

\* Mutant: the data loader starts from scratch.
NothingLoaded(s, r) == NewLoader

\* load_state_dict of the data loader, if there is a file for it.
LoadedState(s, r) == IF data[s][r] = Missing THEN NewLoader ELSE data[s][r]

\* Load for a run without a checkpoint.
LoadNothing ==
    /\ phase = "load"
    /\ FromScratch
    /\ phase' = "epoch"
    /\ global_steps' = 0
    /\ epoch' = 0
    /\ pass' = 0
    /\ position' = 0
    /\ seen' = Fresh
    /\ UNCHANGED <<config, timed, saving, disk, crashes>>

\* Some file the run would load is not all there.
Unreadable(s) ==
    \/ \E m \in Models, r \in Ranks : ~ShardReadable(m, s, r)
    \/ \E r \in DataRanks : data[s][r] = Torn

\* Every rank reads its shard of every model and the state of its data
\* loader.  Ranks that then train on different batches are not followed.
LoadCheckpoint ==
    /\ phase = "load"
    /\ Resumable
    /\ ~Unreadable(tracker)
    /\ phase' = IF \A r \in DataRanks :
                     LoadedState(tracker, r) = LoadedState(tracker, Main)
                THEN "epoch" ELSE "diverged"
    /\ global_steps' = tracker
    /\ epoch' = tracker \div Batches
    /\ pass' = LoadedState(tracker, Main).pass
    /\ position' = LoadedState(tracker, Main).place
    /\ \E r \in Ranks :
        seen' = [m \in Roles |-> IF m \in Models THEN shards[m][tracker][r]
                                 ELSE <<>>]
    /\ UNCHANGED <<config, timed, saving, disk, crashes>>

\* int() of an empty tracker, or torch.load of a file that is not all there,
\* raises; so does every further attempt.
LoadFails ==
    /\ phase = "load"
    /\ tracker = Torn \/ (Resumable /\ Unreadable(tracker))
    /\ phase' = "failed"
    /\ UNCHANGED <<config, memory, saving, disk, crashes>>

-----------------------------------------------------------------------------
(* The training loop.                                                      *)

\* for epoch in range(..., total_epochs) is over.
EpochsOver ==
    /\ phase = "epoch"
    /\ epoch >= TotalEpochs
    /\ phase' = "done"
    /\ UNCHANGED <<config, memory, saving, disk, crashes>>

\* The order of the next pass: the sampler of a supervised run is told the
\* epoch (set_epoch).
OrderOfPass(n) == IF config.trainer = "ppo" THEN n ELSE epoch

\* A pass begins, where the loaded state left it.
StartPass ==
    /\ phase = "epoch"
    /\ epoch < TotalEpochs
    /\ phase' = "train"
    /\ pass' = OrderOfPass(pass)
    /\ UNCHANGED <<config, global_steps, epoch, position, seen, timed, saving,
                   disk, crashes>>

\* A state saved after the last batch of a pass: whether the data loader
\* begins a new pass at once or ends this one first is the library's choice.
ExhaustedStateSkipped ==
    /\ phase = "epoch"
    /\ epoch < TotalEpochs
    /\ position = Batches
    /\ phase' = "train"
    /\ pass' = OrderOfPass(pass + 1)
    /\ position' = 0
    /\ UNCHANGED <<config, global_steps, epoch, seen, timed, saving, disk,
                   crashes>>

\* Mutant: one step more.
IsPastLastStep(s) == s > config.total_training_steps

IsLastStep(s) == s >= config.total_training_steps

\* Mutant: the actor is not held back during the critic's warmup.
AlwaysUpdated(m, s) == m \in Models

\* critic_warmup <= global_steps, for the actor of a PPO run.
IsUpdated(m, s) ==
    /\ m \in Models
    /\ config.trainer = "ppo" /\ m = "actor" => Warmup <= s

\* save_freq divides the step, or it is the last one, or (PPO) the instance
\* is about to expire, which is guessed from the duration of earlier steps.
SaveDue(s, expiring) ==
    LET multiple == config.save_freq > 0 /\ s % config.save_freq = 0
    IN  IF config.trainer = "ppo"
        THEN config.save_freq > 0 /\ (IsLastStep(s) \/ multiple \/ expiring)
        ELSE IsLastStep(s) \/ multiple

\* The number of the batch that the data loader hands out next.
NextBatchNumber == pass * Batches + position + 1

TrainStep ==
    /\ phase = "train"
    /\ position < Batches
    /\ position' = position + 1
    /\ global_steps' = global_steps + 1
    /\ seen' = [m \in Roles |-> IF IsUpdated(m, global_steps + 1)
                                THEN Append(seen[m], NextBatchNumber)
                                ELSE seen[m]]
    /\ \E expiring \in IF timed THEN BOOLEAN ELSE {FALSE} :
        phase' = IF SaveDue(global_steps + 1, expiring) THEN "ensure"
                 ELSE "advance"
    /\ role' = "actor"
    /\ UNCHANGED <<config, epoch, pass, timed, writing, saved_paths, disk,
                   crashes>>

\* The end of a step: return after the last one.
Advance ==
    /\ phase = "advance"
    /\ timed' = TRUE
    /\ phase' = IF IsLastStep(global_steps) THEN "done" ELSE "train"
    /\ UNCHANGED <<config, global_steps, epoch, pass, position, seen, saving,
                   disk, crashes>>

\* The data loader has no batch left in this pass.
EndPass ==
    /\ phase = "train"
    /\ position = Batches
    /\ phase' = "epoch"
    /\ epoch' = epoch + 1
    /\ pass' = IF config.trainer = "ppo" THEN pass + 1 ELSE pass
    /\ position' = 0
    /\ UNCHANGED <<config, global_steps, seen, timed, saving, disk, crashes>>

-----------------------------------------------------------------------------
(* Saving.                                                                 *)

\* Mutant: the wrong end of the list is kept.
Oldest(S, k) == {s \in S : Cardinality({t \in S : t < s}) < k}

\* Mutant: nothing is ever forgotten.
All(S, k) == S

\* The last k entries of previous_saved_paths, which grows in the order of
\* the steps.
Newest(S, k) == {s \in S : Cardinality({t \in S : t > s}) < k}

\* remove_previous_save_local_path.  In a supervised run the folder holds
\* the state of the data loader too.
Remove(m, old) ==
    /\ shards' = [shards EXCEPT ![m] =
                    [s \in Steps |-> IF s \in old THEN Absent
                                     ELSE shards[m][s]]]
    /\ data' = IF config.trainer = "sft"
               THEN [s \in Steps |-> IF s \in old THEN Absent ELSE data[s]]
               ELSE data

\* Forget and remove all paths but those kept.
Retain(m, kept) ==
    /\ saved_paths' = [saved_paths EXCEPT ![m] = kept]
    /\ Remove(m, saved_paths[m] \ kept)

\* ensure_checkpoint_capacity, on rank 0, before the others pass the barrier.
EnsureCapacity ==
    LET keep == config.keep[role]
    IN  /\ phase = "ensure"
        /\ Retain(role, IF keep > 1 THEN Newest(saved_paths[role], keep - 1)
                        ELSE saved_paths[role])
        /\ writing' = Nothing
        /\ phase' = "shards"
        /\ UNCHANGED <<config, memory, role, tracker, crashes>>

\* A rank opens its file, perhaps over one that an earlier run left.
BeginShard(r) ==
    /\ phase = "shards"
    /\ writing[r] = "todo"
    /\ writing' = [writing EXCEPT ![r] = "open"]
    /\ shards' = [shards EXCEPT ![role][global_steps][r] = Torn]
    /\ UNCHANGED <<config, phase, memory, role, saved_paths, data, tracker,
                   crashes>>

EndShard(r) ==
    /\ phase = "shards"
    /\ writing[r] = "open"
    /\ writing' = [writing EXCEPT ![r] = "written"]
    /\ shards' = [shards EXCEPT ![role][global_steps][r] = seen[role]]
    /\ UNCHANGED <<config, phase, memory, role, saved_paths, data, tracker,
                   crashes>>

\* Mutant: rank 0 registers when one shard is written.
SomeWritten == \E r \in Ranks : writing[r] \notin {"todo", "open"}

\* torch.distributed.barrier.
AllWritten == \A r \in Ranks : writing[r] \notin {"todo", "open"}

\* Mutant: a critic is saved if there is one or not.
CriticAlways == role = "actor"

\* _save_checkpoint goes on with the critic.
CriticIsNext == role = "actor" /\ config.use_critic

\* register_checkpoint, on rank 0.  The driver then saves the next model.
Register ==
    LET keep == config.keep[role]
        paths == saved_paths[role] \union {global_steps}
        kept == IF keep > 0 THEN Newest(paths, keep) ELSE paths
    IN  /\ phase = "shards"
        /\ AllWritten
        /\ saved_paths' = [saved_paths EXCEPT ![role] = kept]
        /\ Remove(role, paths \ kept)
        /\ IF CriticIsNext
           THEN phase' = "ensure" /\ role' = "critic"
           ELSE phase' = "data" /\ UNCHANGED role
        /\ UNCHANGED <<config, memory, writing, tracker, crashes>>

BeginData ==
    /\ phase = "data"
    /\ data' = [data EXCEPT ![global_steps][Main] = Torn]
    /\ phase' = "data_open"
    /\ UNCHANGED <<config, memory, saving, shards, tracker, crashes>>

EndData ==
    /\ phase = "data_open"
    /\ data' = [data EXCEPT ![global_steps][Main] = LoaderState]
    /\ phase' = "tracker"
    /\ UNCHANGED <<config, memory, saving, shards, tracker, crashes>>

\* The other ranks of a supervised run write the state of theirs, while
\* rank 0 goes on up to the barrier.
BeginOtherData(r) ==
    /\ config.trainer = "sft" /\ r # Main
    /\ phase \in {"shards", "data", "data_open", "tracker", "barrier"}
    /\ AllWritten
    /\ writing[r] = "written"
    /\ writing' = [writing EXCEPT ![r] = "data_open"]
    /\ data' = [data EXCEPT ![global_steps][r] = Torn]
    /\ UNCHANGED <<config, phase, memory, role, saved_paths, shards, tracker,
                   crashes>>

EndOtherData(r) ==
    /\ writing[r] = "data_open"
    /\ writing' = [writing EXCEPT ![r] = "saved"]
    /\ data' = [data EXCEPT ![global_steps][r] = LoaderState]
    /\ UNCHANGED <<config, phase, memory, role, saved_paths, shards, tracker,
                   crashes>>

\* open(tracker, "w") empties the file that names the last checkpoint.
BeginTracker ==
    /\ phase = "tracker"
    /\ config.trainer = "ppo"
    /\ tracker' = Torn
    /\ phase' = "tracker_open"
    /\ UNCHANGED <<config, memory, saving, shards, data, crashes>>

\* The new name is in the file: written into the open one, or (supervised)
\* written aside and renamed.
EndTracker ==
    /\ phase = IF config.trainer = "ppo" THEN "tracker_open" ELSE "tracker"
    /\ tracker' = global_steps
    /\ phase' = IF config.trainer = "ppo" THEN "advance" ELSE "barrier"
    /\ UNCHANGED <<config, memory, saving, shards, data, crashes>>

\* The end of save_checkpoint of a supervised run.
Barrier ==
    /\ phase = "barrier"
    /\ \A r \in Ranks \ {Main} : writing[r] = "saved"
    /\ phase' = "advance"
    /\ UNCHANGED <<config, memory, saving, disk, crashes>>

-----------------------------------------------------------------------------

\* The run is killed and started again: memory is lost, the retention lists
\* with it.
Crash ==
    /\ crashes < MaxCrashes
    /\ phase \notin {"load", "done", "failed", "diverged"}
    /\ crashes' = crashes + 1
    /\ phase' = "load"
    /\ timed' = FALSE
    /\ writing' = Nothing
    /\ saved_paths' = [m \in Roles |-> {}]
    /\ UNCHANGED <<config, global_steps, epoch, pass, position, seen, role,
                   disk>>

Load == LoadNothing \/ LoadCheckpoint \/ LoadFails
Train == EpochsOver \/ StartPass \/ ExhaustedStateSkipped \/ TrainStep
         \/ Advance \/ EndPass
Write(r) == BeginShard(r) \/ EndShard(r) \/ BeginOtherData(r)
            \/ EndOtherData(r)
Save == \/ EnsureCapacity
        \/ \E r \in Ranks : Write(r)
        \/ Register
        \/ BeginData \/ EndData \/ BeginTracker \/ EndTracker \/ Barrier

Step == Load \/ Train \/ Save

Next == Step \/ Crash

Spec == Init /\ [][Next]_vars

\* The run goes on unless it is killed; ranks answer.
FairSpec == Spec /\ WF_vars(Step)

-----------------------------------------------------------------------------
(* Correctness.                                                            *)

Phase == {"load", "failed", "diverged", "epoch", "train", "advance", "done",
          "ensure", "shards", "data", "data_open", "tracker", "tracker_open",
          "barrier"}

\* The variables have their types, steps and passes their bounds.
TypeOK ==
    /\ config \in Config
    /\ phase \in Phase
    /\ global_steps \in 0..(Batches * TotalEpochs)
    /\ epoch \in 0..TotalEpochs
    /\ pass \in Nat
    /\ position \in 0..Batches
    /\ seen \in [Roles -> Seq(Nat)]
    /\ timed \in BOOLEAN
    /\ role \in Models
    /\ writing \in [Ranks -> {"todo", "open", "written", "data_open", "saved"}]
    /\ saved_paths \in [Roles -> SUBSET Steps]
    /\ shards \in [Roles -> [Steps -> [Ranks -> Seq(Nat)
                                                \union {Missing, Torn}]]]
    /\ data \in [Steps -> [Ranks -> [pass : Nat, place : 0..Batches]
                                        \union {Missing, Torn}]]
    /\ tracker \in Steps \union {Missing, Torn}
    /\ crashes \in 0..MaxCrashes

\* The place of a batch in its pass, by its number; also that of the batch of
\* a step in a run that is never killed.
BatchOf(n) == ((n - 1) % Batches) + 1

\* The step after which a model is first updated.
Held(m) == IF config.trainer = "ppo" /\ m = "actor" /\ Warmup > 0
           THEN Warmup - 1 ELSE 0

\* What a model has seen after a step of a run that is never killed.
Ideal(m, s) ==
    IF m \in Models
    THEN [i \in 1..(IF s > Held(m) THEN s - Held(m) ELSE 0) |-> i + Held(m)]
    ELSE <<>>

\* A step on the batch of a later pass, at the place of its own: the first
\* of a pass, or the one after the batch of the step before.
OfLaterPass(q, i) ==
    /\ i > 1
    /\ q[i] > i
    /\ BatchOf(q[i]) = BatchOf(i)
    /\ BatchOf(i) = 1 \/ q[i] = q[i - 1] + 1

\* Whether q is what a model may have seen after step s: in a PPO run what
\* it has seen in one that is never killed; in a supervised run passes may
\* be left out.
MayHaveSeen(m, s, q) ==
    IF config.trainer = "ppo" \/ m \notin Models
    THEN q = Ideal(m, s)
    ELSE Len(q) = s /\ \A i \in 1..s : q[i] = i \/ OfLaterPass(q, i)

\* The data loader's state after a step of a run that is never killed.
StateAfter(s) ==
    [pass |-> IF config.trainer = "ppo" THEN (s - 1) \div Batches ELSE 0,
     place |-> BatchOf(s)]

\* A checkpoint that is all there and has what a run may have at that step,
\* but for the data files of other ranks than rank 0.
Complete(s) ==
    /\ \A m \in Models, r \in Ranks :
        /\ shards[m][s][r] \notin {Missing, Torn}
        /\ shards[m][s][r] = shards[m][s][Main]
        /\ MayHaveSeen(m, s, shards[m][s][r])
    /\ data[s][Main] = StateAfter(s)

\* No model is kept in a single copy.
KeepsTwo == \A m \in Models : config.keep[m] # 1

\* A checkpoint is being saved: the tracker does not name it yet.
Saving == phase \in {"ensure", "shards", "data", "data_open", "tracker",
                     "tracker_open"}

\* Whenever the run is killed, the checkpoint that the tracker names is
\* complete: saved files are not removed or overwritten before a newer
\* checkpoint is named (in a supervised run a folder that is gone would even
\* mean a silent start from scratch).  With a keep count of one this is so
\* only between saves, and until the run is killed for the first time.
TrackedComplete ==
    tracker \in Steps /\ (KeepsTwo \/ (crashes = 0 /\ ~Saving))
        => Complete(tracker)

\* "With max_ckpt_to_keep=1 ... we keep the existing checkpoint until the new
\* save completes successfully": whatever the keep count, what the tracker
\* names is there.
NamedCheckpointKept == tracker \in Steps => Complete(tracker)

\* However often it was killed, the run in memory is one that was not, if it
\* keeps two checkpoints: no step is lost or done twice, the actor is held
\* back for the warmup once, the data loader stands behind the last batch.
\* A PPO run has trained on the very batches of a run that was never killed.
\* A supervised run has too until a restart leaves out the pass after the
\* checkpoint (its loader may end a pass that it had ended before): from
\* there on steps may be on a later pass, each whole or changed by another
\* restart, but never on an earlier one.
LikeUninterrupted ==
    phase \notin {"load", "failed", "diverged"} /\ (KeepsTwo \/ crashes = 0) =>
        /\ \A m \in Roles : MayHaveSeen(m, global_steps, seen[m])
        /\ global_steps > 0 =>
                \/ position = BatchOf(global_steps)
                \/ position = 0 /\ BatchOf(global_steps) = Batches
        /\ config.trainer = "ppo" => pass * Batches + position = global_steps

\* Models on disk, in whole or in part.
OnDisk(m) == {s \in Steps : shards[m][s] # Absent}

\* Each start of the run leaves no more checkpoints than it may keep; what
\* earlier starts left is never removed.
RetentionBound ==
    \A m \in Models :
        config.keep[m] > 1 =>
            Cardinality(OnDisk(m)) <= config.keep[m] * (crashes + 1)

\* The run saves at its last step.
SavesLast == config.trainer = "sft" \/ config.save_freq > 0

\* A run that ends has trained the configured number of steps, but for the
\* pass that an exhausted data loader may skip and one step too many for
\* each restart after the last checkpoint.  If it has trained them all, the
\* tracker names the last one; if not, it names one behind which no further
\* checkpoint was due.
FinishedDurably ==
    phase = "done" =>
        /\ global_steps >= config.total_training_steps - Batches
        /\ global_steps <= config.total_training_steps + crashes
        /\ SavesLast /\ global_steps >= config.total_training_steps
                => tracker = global_steps
        /\ config.save_freq > 0 =>
            \A s \in 1..global_steps : s % config.save_freq = 0 =>
                tracker \in Steps /\ s <= tracker

\* Killed while the tracker was written in place, or when rank 0 had named a
\* checkpoint and other ranks had not saved their position.
CutShort ==
    \/ tracker = Torn
    \/ /\ tracker \in Steps
       /\ \E r \in DataRanks \ {Main} : data[tracker][r] # StateAfter(tracker)

\* Every run that keeps two checkpoints ends; only one that was killed in
\* these two places cannot be resumed as it was.
Completes ==
    KeepsTwo =>
        <>(phase = "done" \/ (phase \in {"failed", "diverged"} /\ CutShort))

\* The step a restart finds.
DurableStep == CASE tracker = Torn -> Torn
                 [] tracker = Missing -> 0
                 [] OTHER -> IF Complete(tracker) THEN tracker ELSE 0

\* A run that keeps one checkpoint is mapped to one that does nothing.
Progress == INSTANCE DurableProgress WITH
                step <- IF ~KeepsTwo THEN 0
                        ELSE IF phase \in {"load", "failed"} THEN DurableStep
                        ELSE global_steps,
                durable <- IF KeepsTwo THEN DurableStep ELSE 0

\* A run that keeps two checkpoints implements durable progress: a restart
\* continues at the step that was last committed, and a commit is one write,
\* of the tracker.
ProgressSpec == Progress!Spec
=============================================================================
