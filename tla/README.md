# Verification of VideoSeeker's reinforcement-learning core

VideoSeeker trains a video model that calls tools. Its repository holds the
authors' own code (tools, rewards, recipe, evaluation) on top of two large
frameworks: a fork of verl (`src/verl/verl`), which generates trajectories and
trains on them, and a fork of LLaMA-Factory, used for supervised fine-tuning.
The part with a behaviour worth model checking is verl's: the loop that lets the
model call tools, the fully asynchronous training pipeline in which generation,
training and weight transfer run at the same time, the checkpoints that let a
killed run go on, and the way a batch travels through a group of workers.

Paths below are relative to `src/verl/verl/verl` unless they begin with `src/`.

## 1. Inventory

| Component | State it keeps | Operations | What makes it hard | What makes it correct |
|---|---|---|---|---|
| Tool agent loop (`experimental/agent_loop/tool_agent_loop.py`) | the tokens of one trajectory, the mask and log-probabilities beside them, images, turn counters, the parsed calls | one handler per `AgentState`; `_call_tool` once per call, concurrently | three lists that must grow together in three handlers; tool calls that raise at any point; length and turn limits checked in one handler and counted in others | the mask marks exactly the generated tokens; the result is aligned and bounded; tool instances are released; the loop ends |
| Partial-rollout agent loop (`experimental/fully_async_policy/agent_loop`, `vllm_rollout/vllm_async_server.py`) | the state above, saved in the output of an interrupted trajectory; cancellation events; `paused` and the requests of each server | the handlers; `cancel`, `resume`; the two ends of `generate_for_partial` | resumption in the middle of a turn, on any worker; a request that races with the pause | an interrupted and resumed trajectory is one the plain loop could produce; no generation runs on past a pause |
| Message queue (`experimental/fully_async_policy/message_queue.py`) | a bounded deque, counters, a condition | `put_sample`, `get_sample`, `clear_queue`, `shutdown` | overflow, competing consumers, wakeups | newest samples, in order, none twice, no lost wakeup |
| Rollouter (`.../fully_async_rollouter.py`) | `pending_queue`, `cancel_queue`, `active_tasks`, `paused`, `staleness_samples`, one lock and condition | coroutines `_feed_samples`, `_processor_worker`, one task per sample, `_async_monitor_loop`, and the remote methods `pause`, `update_param_version`, `resume` | about ten coroutines share flags that are tested before an `await` and used after it | no sample lost or doubled; limits on concurrency and staleness; pauses hold and end |
| Trainer and synchronizer (`.../fully_async_trainer.py`, `param_sync.py`, `fully_async_main.py`) | the batch being collected, version counters, the futures of the last update | collect, train, `sync_weights`, `wait_last_valid` | the rollouter works on while the synchronizer's last two calls are still running | versions in step; the pipeline ends |
| Checkpoint engines (`checkpoint_engine`, `experimental/fully_async_policy/checkpoint_engine.py`) | two buffers, bucket metadata, operations in flight, a loading thread | send, receive, forward, broadcast, load | a buffer is filled while the other travels or is loaded from | every worker gets each weight once and unchanged; the transfer ends |
| Checkpoints and resume (`utils/checkpoint`, `trainer/ppo/ray_trainer.py`, `trainer/sft_trainer.py`) | previously saved paths in memory; shards, data loader state and the tracker file on disk | save, register, remove, resume; the step and epoch loops | a kill between any two file operations; state of one checkpoint in many files of many processes | the tracker names a complete checkpoint; a resumed run is the uninterrupted one |
| Dispatch and balancing (`utils/seqlen_balancing.py`, `protocol.py`, `single_controller/base/decorator.py`, `workers/actor/dp_actor.py`) | the driver's batch, each worker's chunk and micro-batches | balance, pad, chunk, split, all-reduce, forward, restore, collect | rows are identified by order alone; collective calls must be made equally often | each row meets its own result; no worker waits for ever; work is balanced |
| Server manager, reward router (`experimental/agent_loop/agent_loop.py`, `experimental/reward_loop/router`) | request counts per server, a sticky map | choose, release | counts that are not decremented on failure | balance, stickiness |
| Rate limiter (`experimental/reward_loop/reward_manager/limited.py`) | tokens in a bucket, time of last refill | `acquire` | concurrent waits, negative balance | the rate over every window |
| Tools, interactions, inference servers | instance maps, engines | `create`/`execute`/`release`, `generate_response`, `generate` | external | only their contract with the agent loop |
| Losses, models, kernels, evaluation, LLaMA-Factory | tensors, files | | numerical code and I/O | not modelled |

How they interact: the **rollouter** gives each sample to agent loop workers,
which run one **tool agent loop** per trajectory against the inference servers.
A finished sample goes into the **message queue**; the **trainer** takes batches
from it and, every `trigger_parameter_sync_step` batches, calls the
**synchronizer**, which pauses the rollouter (and interrupts trajectories under
**partial rollout**), moves the weights with a **checkpoint engine** and leaves
`update_param_version` and `resume` running behind it. All of the rollouter's
coroutines share one asyncio event loop and one lock; the other parts are Ray
actors of their own. The synchronous trainers take the same batches through
**dispatch and balancing** and save **checkpoints**.

`PROJECT.json` lists each component with its status, and under `hazards` the
places where this code is hard to test.

## 2. Modules

| Module | What it models |
|---|---|
| `ToolAgentLoop` | one trajectory of the tool agent loop |
| `ToolAgentLoopProofs` | theorems about it |
| `PartialToolAgentLoop` | the same trajectory interrupted and resumed, with workers and servers; extends `ToolAgentLoop` and refines it |
| `PartialToolAgentLoopProofs` | theorems about it, the refinement included |
| `SampleFeed` | abstract: what the message queue promises |
| `MessageQueue`, `MCMessageQueue` | the message queue, and its instance for TLC |
| `MessageQueueProofs` | theorems about it, the refinement included |
| `Rollouter` | the rollouter actor, with the message queue as an INSTANCE |
| `FullyAsync` | rollouter, trainer, synchronizer and main program together |
| `FullyAsyncProofs` | theorems about them |
| `WeightTransfer` | what all checkpoint engines have in common, and what they promise |
| `StreamedEngine` | the NCCL and NIXL engines |
| `BucketedBroadcast` | the two modes of the fully asynchronous trainer's engine |
| `CheckpointEngines` | a transfer with one of the four, as configured |
| `CheckpointEnginesProofs` | theorems about the four engines |
| `DurableProgress` | abstract: what checkpoints promise a run that may be killed |
| `TrainingRestarts` | PPO and supervised training, saved, killed and resumed |
| `TrainingRestartsProofs` | theorems about it, the refinement included |
| `SequenceBalancing` | the partitioning algorithms, as operators |
| `DistributedBatch` | a batch through balancing, dispatch, micro-batches and back |
| `DistributedBatchProofs` | theorems about it and about the algorithms |
| `SequenceFacts` | lemmas for the last two components: induction, recursive functions, sums, permutations, `FlattenSeq` |

### ToolAgentLoop

A token is represented by where it comes from (prompt, prompt image, generated,
environment text, environment image), which is all the mask and the image
placeholders depend on. `state` is the handler that runs next; `HandlePending`,
`HandleGenerating`, `HandleToolReplies` and `HandleInteracting` are the four
handlers, `Finalize` the code after the loop. The gathered `_call_tool`
coroutines are the sequence `calls`, each of which moves through create, execute
and the `finally` clause by itself. An exception up to `execute` becomes an error
text; one in `release`, or in the `ToolResponse` built behind it, is outside the
`try` and leaves the call `raised`. `GatherRaises` then ends the trajectory at
once, while the other calls run on to their own end, as coroutines do when
`asyncio.gather` has raised. `GenerateRejected` and `ToolReplyRejected` are the
other exceptions that end a trajectory. `Budget` is the number of tokens the
inference server grants (`vllm_async_server.py:472-490`).

`config.list_sizes` says how many images other than `None` the lists of this
deployment's tools hold. The handler adds one placeholder for each message with a
list (line 301) but every image of the list that is not `None` (319-321), so
`ImagesMatchPlaceholders` speaks of lists of one image. With `[None]`, which
leaves a placeholder without image, or with several images, which
`tools/schemas.py:106` names (`[img1, img2, ...]`) and the video tool returns
(`custom_tools/video_tools.py:79-87`), the two numbers differ. Such tools are in
the model and in `tool_loop`, where everything else is checked of them too.

Text, rewards, scores, metrics, the chat history and video inputs are left out.
A prompt is at most `prompt_length` long because the recipe
(`src/verl/recipe/start_train.sh:34`) filters longer ones. A generation that is
granted tokens returns at least one, as the engines do.

### PartialToolAgentLoop

Extends `ToolAgentLoop`: the handlers are the same but for generation, which is
a request with steps of its own. `Submit` is the first half of
`generate_for_partial` (both halves are atomic under the server's lock; a paused
server refuses at once), `Produce` and `FinishRequest` the engine, `KeepPart` and
`EndTurn` what the loop does with an interrupted and a complete answer.
`Interrupt` and `Resubmit` are the two ends of an interruption: the trajectory's
whole state travels in the output, and goes on at any worker and server.
`BeginPause` to `ResumeServer` are `FullyAsyncAgentLoopManager.cancel` and
`resume`, which reach workers and servers one by one in any order.
`turn_tokens` and `written` are history variables: what an unfinished turn has
appended, which the refinement mapping hides from the plain loop, and the tool
calls the policy has written in it. Log-probabilities are always on here, as the
partial server returns them unconditionally.

`LoopSpec` is the refinement. It has one exception, `EndsFull`: with a simulated
user, a user turn may fill the response, and the partial loop then ends an
interrupted generation at once where the plain loop would generate tokens that
the result cuts off again.

### MessageQueue

Every method holds the actor's lock from its first to its last statement, except
while `get_sample` waits for the condition; each is one action, `get_sample` one
per attempt. `delivered` is a history variable, and `cleared` counts what
`clear_queue` removed, which the code only logs. `SampleFeed` is the abstract
view: a set of held samples of which the oldest are given up. `FeedSpec` states
the refinement, with `held` the set of samples in the deque.

### Rollouter

Coroutines interleave only where they suspend. `loop` names the coroutine that
runs, or `"none"`; an action of coroutine `c` is possible when `MayRun(c)`.
`lockq` is the asyncio lock with its waiters, in order, its holder first.
`Request`, `Locked`, `Release` and `Reacquire` are the operations on it;
`notified` is the condition's answer to the only coroutine that waits on it.
Between two suspensions the model still takes several steps where the code
consults other actors (the size of the message queue), whose own steps may come
in between. `processor` is the program counter of `_processor_worker`. Its three
loops that wait for tasks are instances of `DrainLoop`, `DrainLocked` and
`DrainWait`. A task that is over stays in `active_tasks` until it is waited for;
by then its sample may be running in a second task, so finished and failed tasks
are counted and the others are known by their sample. `done_tasks_bound` is
whether the local name `done_tasks` exists yet.

`TaskInterrupted` is a generation that noticed the cancellation event;
`TaskFail` one that raised. The message queue is the module above, with one
consumer; `None` (0) is the finish signal.

### FullyAsync

The trainer calls the synchronizer and waits for it, so both are one process,
`trainer`. `pause`, `update` and `resume` are the three calls it makes to the
rollouter. `current_version` is the synchronizer's, `param_version` the
trainer's and `current_param_version` the rollouter's idea of the version. The
specification starts where `fit` starts both actors, after the initial
synchronization (`fully_async_main.py:206-218`) is over.

### WeightTransfer, StreamedEngine, BucketedBroadcast, CheckpointEngines

A buffer is an array of cells and a weight fills as many as its size says; a
cell holds the number of the weight whose bytes are in it. What a model is handed
is what the view shows at the moment of `Load`, so a buffer that is filled too
early shows a foreign or a torn weight. In `StreamedEngine` (NCCL: one broadcast
to all; NIXL: a chain in which each process reads from the one before) an
operation is open from its start to its completion and its copy, `Transfer`, may
happen at any moment between, when all readers have joined. In `BucketedBroadcast`
every process of the trainer owns some of the weights; all walk one list of
buckets (`BroadcastOrder`), and with `"overlapped"` each has a thread that loads
from one half of the buffer. `CheckpointEngines` runs one of the four engines,
chosen at the start, with every assignment of sizes to weights.

Messages arrive in order. A PUB/SUB subscriber that connects after the first
message (see the hazards) is not modelled, nor is the set-up of process groups.

### TrainingRestarts, DurableProgress

A model is represented by the sequence of batches it was updated with, so that a
skipped, repeated or wrongly held back update shows. Each pass over the data has
an order of its own, so a batch is the number of its pass and its place in it in
one (`NextBatchNumber`). The order of a PPO run comes from the generator of its
sampler, which is saved with the data loader; a supervised run tells its sampler
the epoch (`set_epoch`, `sft_trainer.py:299`). `phase` is the driver's
program counter; `trainer` is `"ppo"` or `"sft"`. Saving is modelled file by
file: each rank opens and writes its shard (`BeginShard`, `EndShard`, a file is
`Torn` in between), rank 0 removes old checkpoints before (`EnsureCapacity`) and
after (`Register`), then come the data loader's position and the tracker; the
other ranks of a supervised run write their positions on their own
(`BeginOtherData`). `Crash` loses the memory, the retention lists included, and
leaves the disk as it is; the next start reads the tracker. The two places where
a kill leaves something that cannot be resumed as it was are in the model and
named by `CutShort`: a tracker emptied and not yet rewritten (PPO), and ranks
whose positions were not saved when rank 0 named the checkpoint (supervised).

A state that was saved after the last batch of a pass may, when it is loaded,
begin a new pass at once or end this one first: that is the choice of the data
loader's library (`ExhaustedStateSkipped`). If it ends it first, the loop's epoch,
which counts from the step, moves on over a pass nobody trained on. A PPO run
still gets the next batches of its generator; a supervised run, whose order
follows the epoch, leaves out a whole shuffled pass, although
`sft_trainer.py:272-273` expects the loader to go on where it left off.
`LikeUninterrupted` is therefore exact for PPO, and for a supervised run says that
its steps are on the batches of an uninterrupted run or, from such a restart on,
on those of later passes, each at the place of its own step.

With a keep count of one `register_checkpoint` removes the checkpoint that the
tracker still names. Such runs are in the model; the properties say of them what
holds (between the saves of a run that was never killed, and at the end of any
run), and `keep_one` shows the rest.

`DurableProgress` is the promise: a restart goes on at the step last committed,
and a commit is the one write that names it. `ProgressSpec` states that the
run implements it: all the other file operations are stutters.

Left out: remote storage, asynchronous saving, explicit resume paths, removal of
a folder in steps (`rmtree` is one action), and what supervised ranks do after
they have resumed at different positions (phase `"diverged"` ends the model).
A `save_freq` of 0 in the model is the code's -1.

### SequenceBalancing, DistributedBatch

`SequenceBalancing` writes the Karmarkar-Karp partition, the group and
micro-batch variants and their inverse as operators on sequences, with the tie
breaking of Python's stable sort and of the code's `__lt__` methods. `Sorted` is
an insertion that the set of smaller pairs drives, a form that can be reasoned
about without an operator as a parameter.
`DistributedBatch` takes a batch through them. A trained batch goes to the actor's
workers: the driver reorders it, every worker gets the chunk of its data-parallel
rank (in both layouts of the mesh), agrees with the others on the number of micro-batches, takes part in one
collective forward pass for each, restores the order and returns; the driver
keeps one worker's results for each chunk. A validated batch goes through the
agent loop manager, since `async_rollout_mode` is always on
(`ray_trainer.py:966`): it is padded to a multiple of `rollout.agent.num_workers`,
cut into one chunk for each agent loop worker, and the outputs are joined and
unpadded. A result is named by the sample it was computed from.

`_balance_batch(keep_minibatch=True)` (`ray_trainer.py:1193-1205`) is left out:
the three callers do not ask for it. It balances every mini-batch by itself, so
that two ranks may differ by several rows, and drops the rows behind the last full
mini-batch. `WellBalanced` is about the default mode, not about groups.

## 3. Runs

| Run | Shows | States |
|---|---|---|
| `tool_loop` | all properties of one trajectory, with and without a turn limit | 705 thousand |
| `partial_tool_loop` | a trajectory interrupted twice is one the plain loop could produce, no generation outlasts a pause, it ends | 449 thousand |
| `message_queue` | the queue's invariants and the refinement of `SampleFeed` | 3 thousand |
| `fully_async` | the safety of the whole pipeline, with and without partial rollout, one generation failing | 905 thousand |
| `fully_async_live` | without partial rollout the pipeline ends and pauses for staleness end | 25 thousand |
| `training_restarts` | runs killed twice at any moment: what the tracker names is complete, training continues as if never interrupted, the refinement of `DurableProgress`, every run ends | 665 thousand |
| `checkpoint_engines` | four ways to carry the weights: each arrives once, unchanged, and the transfer ends | 120 thousand |
| `distributed_batch` | results meet their rows, groups stay together, work is balanced, no worker waits for ever | 86 thousand |
| `split_call` | *violation*: a tool call written before an interruption is not made after it | |
| `pause_is_undone` | *violation*: a generation runs during weight transfer | |
| `interrupted_stall` | *violation*: an interrupted sample never continued, and the pipeline stuck | |
| `keep_one` | *violation*: with a keep count of one, the tracker names a checkpoint that has been removed | |

**Bounds.** `tool_loop` has room for a prompt of two tokens, one of which may be
an image, and five response tokens: enough for three generations with two
environment turns between them, and for each turn to end below, at and above the
limit. Two concurrent calls of three parsed ones exercise the interleavings and
the cut at `max_parallel_calls`. There is no limit on assistant turns, and either
one of one user turn or none at all: without any, it is the length of the response
alone (or, with a simulated user, of the context) that makes `Terminates` hold.
Tools answer with lists of one image, or with lists of none and two.

`partial_tool_loop` has two workers and two servers, so that a trajectory resumes
elsewhere and pauses reach the two kinds in every order, two pauses, so that a
turn is interrupted again after it was resumed, and user turns of up to two
tokens, so that one can fill the context and `SubmitRejected` happens.

`message_queue` has two consumers, where the pipeline has one, because a stolen
wakeup needs two; five samples overflow its two places more than once.

`fully_async` feeds four samples, of which at most two may await the trainer, so
the rollouter pauses by itself and is paused by each of up to five
synchronizations; two tasks run at a time; `pending_queue` holds two. The live
run has a synchronization every two batches, so that some pauses are ended by
the monitor and others by `resume`. The proofs of section 4 hold for all sizes.
With `MaxConcurrent < MaxRequired` the processor can also reach the limit without
any earlier wait, find `pending_queue` empty although the feed is not over, and
then have its tasks taken away by `pause`; it stops in state `unbound`, on the
loop over `done_tasks` (`fully_async_rollouter.py:490`). The code's feed refills
the queue within one turn of the event loop, a timing the model leaves open, so
this state says nothing about the code; the processor is then over as after a
failed generation.

`training_restarts` has two batches in a pass and three passes, the last of which
may end with the run or after it, two ranks, checkpoints every step, every other
step or (`save_freq` 0) none, or only the supervised run's last, one model or two, keep counts of one, two or all for
each of them, and two crashes: enough for a crash before the first checkpoint,
during the removal that follows a resumed start, and during a second save, at and
between the ends of passes.

`checkpoint_engines` has two workers (the chain of NIXL has a middle and an end),
two trainer processes, four weights of one or two cells and buckets of two cells:
between two and four buckets, so that each half of a buffer is used again.

`distributed_batch` has two data-parallel ranks of two workers, four or eight rows
in groups of two, and up to four rows to pad; every row is one or two tokens long
and a micro-batch holds three, so that ranks need different numbers of them. Three
agent loop workers are neither the number of ranks nor that of workers.

**Deadlock** is checked in `distributed_batch`, whose `Over` is the only state
that may last: there a missing row or an unequal number of forward passes shows
as a deadlock. Elsewhere it is not: trajectories end, generations stop, and a
consumer waits for ever when nobody puts a sample. The liveness properties state
what must not stop.

**Fairness.** `ToolAgentLoop`: the coroutine is resumed and servers, tools and
users answer (weak fairness of `Next`, which is enough for the calls that run on
behind a trajectory that failed: nothing else can happen then). `PartialToolAgentLoop`: weak fairness of
the loop, of the rollouter's resubmission, of the engine and of a synchronization
that has begun; nobody has to begin one. `MessageQueue`: a notified consumer gets
the lock (weak fairness of `ResumeGet`); nobody has to put or take. `FullyAsync`:
strong fairness of each coroutine, because another coroutine may have the event
loop in between, and asyncio runs ready callbacks and serves lock waiters first
come, first served; the trainer is a process of its own and has weak fairness. A
generation ends, by result, interruption or exception, but no generation has to
raise. `TrainingRestarts`: weak fairness of everything but `Crash`.
`CheckpointEngines`: weak fairness of each process, thread, operation and
collective.

### What the violations say

* `split_call`: `docs/advance/fully_async.md:530` says that an interrupted
  trajectory is resumed from its saved state. The tokens are, but the tool parser
  gets the tokens generated since the last interruption only
  (`partial_tool_agent_loop.py:205` and `220`): a call that was written or begun
  before it is not made.
* `pause_is_undone`: `docs/advance/fully_async.md:236-237` says that no tasks
  are added during synchronization. A tick of the monitor that waits for the
  lock behind `pause` un-pauses the rollouter as soon as `pause` returns.
* `interrupted_stall`: the same document, line 245, says interrupted samples are
  continued after synchronization. A sample counted twice at the staleness reset
  (once as a finished task not yet waited for, once in `cancel_queue`) can keep
  the rollouter paused for good, with the trainer waiting for it. Samples that
  are interrupted when the processor has already passed the last sample stay in
  `cancel_queue` too.
* `keep_one`: with a keep count of one "we keep the existing checkpoint until the
  new save completes successfully (handled by register_checkpoint)"
  (`utils/checkpoint/checkpoint_manager.py:148-149`), a setting that
  `ray_trainer.py:1005-1008` recommends and
  `src/verl/verl/tests/utils/ckpt/test_checkpoint_cleanup_on_cpu.py:64-88` presents
  as safe. But `register_checkpoint` removes it when one model's shards are
  written, before the critic, the data loader's state and the tracker. Killed in
  between, a PPO run finds a tracker that names a folder without a model and fails
  at every start; a supervised run finds no folder and starts from scratch.

The formula at line 136 of that document bounds the samples generated between
two updates by `max_required_samples`. The code's bound is one more
(`InFlightBound`): a sample the processor holds while the counter is reset is
not counted.

Seen while modelling, and stated by no run: a request that is stopped before its
first token leaves its entries in `req_output` and `cancel_event`
(`experimental/fully_async_policy/vllm_rollout/vllm_async_server.py:106`), a
micro-batch may exceed `max_token_len` since the partition balances work and not
tokens, `auto_padding` pads the caller's own batch (`protocol.py:860-873`), and a
`test_freq` or `save_freq` of 0 divides by zero.

### Mutants

For each property of a passing run, `PROJECT.json` names a mutation of a mapped
definition (marked "Mutant" in the modules) under which the run must fail.

## 4. Proofs

`tlapm` proves, for every value of the constants that satisfies the named
assumptions:

**MessageQueueProofs.** `Inv` is the conjunction of types, counters, order,
`HoldsNewest` and `NoLostWakeup`, which is
inductive as it stands: order needs the types, the counters and the fact that
the queue is a run of the newest samples, and `NoLostWakeup` is preserved
because every step that adds a sample or closes the queue wakes all waiters.
`QueueImplementsFeed` shows that the initial state maps to the feed's and each
step to a step or a stutter; that the oldest sample of the feed is the head of
the deque comes from `HoldsNewest`.

**ToolAgentLoopProofs.** All invariants of `tool_loop`. None is inductive by
itself; `Inv` adds what the states of the loop know:

* `NothingYet`: before the prompt there are no tokens;
* `LengthsBounded`: the prompt is at most `PromptLength` long, and a turn of the
  environment is only begun with some, but fewer than `ResponseLength`, response
  tokens, since each request leaves room for one. From this follow `RequestFits`
  and that the log-probabilities are not empty when a turn is appended, which the
  code takes as the sign that they are wanted;
* `CallsTracked`: an instance belongs to a call between create and release or to
  one that raised, and there are calls only in a turn of tools or in a trajectory
  that failed in one, which gives `NoLeakedInstance`;
* `TurnsCounted`: both turn counters are below their limits when a turn begins,
  which gives `TurnLimits`;
* `GeneratedEnd`: a turn that may end the trajectory ends with a generated token
  within `ResponseLength`, which gives `EndsWithGenerated`;
* `ResultRight`: the result, once there is one, stays.

The lemmas on `Copies`, `Encode` and the slices say what these return;
`AlignedAppend` and `FollowAppend` are the core of the argument: two sequences
that agree still agree when a turn and its own mask are appended.
`ImagesMatchPlaceholders` follows from `RepliesGiven` (what a call holds is an
answer of the configured tools) by `SingleImages`: where each list holds one image,
the turn has as many images as calls that answered with a list.

**PartialToolAgentLoopProofs.** `PartialInv` joins the invariant of
`ToolAgentLoopProofs`, which the partial loop keeps, to what interruptions add:
`RequestRight` (a request is under way only while the state is generating, and
never has more tokens than the context grants), `TurnRight` (the last
`turn_tokens` tokens are generated ones with mask 1 and real log-probabilities,
and the turn is unfinished) and `PauseReachesAll`. From it follow the properties
of the plain loop for interrupted trajectories, `PartialPauseReachesAll`, and
`PartialImplementsLoop`: every step maps to a step of the plain loop, a stutter
or `EndsFull`. The core is `AppendedCopies` and `CopiesAtEnd`: dropping the
unfinished turn from the lists and appending it again in one go gives the lists
the partial loop has.

**FullyAsyncProofs.** All seven safety properties of `fully_async`, for every
number of samples, limits, failures and both modes. The inductive invariants are
proved one after the other, each from those before it:

* `Types`, and `LockInv`: a coroutine that is suspended inside a critical section
  is the head of `lockq`;
* `VersionInv`: the rollouter's update is idle while a synchronization is under
  way, and `resume` runs only behind an update that has returned, which is what
  keeps `VersionLag`; `SubmitsOnlyUnpaused` follows from the re-check under the
  lock;
* `ConcurrencyInv`: from its wait for room until it submits, the processor has
  room for one more task, whatever pauses come between;
* `CustodyInv`: no sample is in two places, and none is anywhere before it is fed;
* `FinishInv` (with `SignalAt`): once the processor is over, what surviving tasks
  may still put fits behind the finish signal, so that the bounded deque does not
  push it out;
* `HandsInv`, `QueueRange`, `AfterSignal`, `Accounted`: every fed sample is
  counted once, as present, dropped or failed, which gives `NothingVanishes`;
* `StalenessInv`: the counter bounds what awaits the trainer, up to the sample in
  the processor's hands, and what `update_param_version` counted before it waited
  for other actors still bounds it when the counter is written, since nothing is
  submitted under its lock. This gives `InFlightBound`.

**TrainingRestartsProofs.** `TypeOK`, `TrackedComplete`, `LikeUninterrupted`,
`FinishedDurably`, `RetentionBound` and the refinement of `DurableProgress`, for
every number of ranks, batches, passes, steps, crashes, warmup, `save_freq` and
keep count. What holds of every run is `Base`: `TypeOK`, `BoundInv` (no step
beyond the passes, none but one after the last) and `OpenInv` (when other ranks
may still be writing). What holds of a run that is `Protected`, because it keeps
two checkpoints or was not killed yet, is `Core`:

* `PassInv`: the passes of the data loader bound the steps;
* `OrderInv`: the next batch is the one of its pass that follows the last;
* `StepInv`: the run in memory is like the uninterrupted one (this is
  `LikeUninterrupted`, with where the data loader stands in each phase);
* `PathsInv`: no retention list is ahead of the tracker but for the step being
  saved. Hence with two checkpoints kept the named one is the newest entry, or the
  newest but one, when old ones are removed, and `NewestKept` says that it stays;
* `FilesInv`: which files of the step being saved are whole in which phase, so
  that all are when the tracker is written;
* `TrackedInv`: what the tracker names is whole.

`BaseHolds` and `CoreHolds` are the two inductions; in the second, a run that
keeps one checkpoint leaves `Protected` with its first crash. A resumed start
satisfies `StepInv` because of `TrackedInv`, and `PassInv` because of `PassOf`, one
of the lemmas on division that the module proves first.

`FinishedDurably`, which needs no protection, follows from `EndInv`: `LowerInv`
(the passes bound the steps from below as well), `LastInv` (each restart trains at
most one step more than configured, and the last step is in the tracker before the
run goes on) and `DueInv` (between saves no checkpoint is due behind the named
one). `RetentionBound` follows from `RetainInv`: the folders that belong to the
start that runs, in its list or being written, are at most as many as may be kept,
and each crash leaves no more than that behind.

**CheckpointEnginesProofs.** `TypeOK` and `WeightsIntact` for all four engines,
for every number of workers, trainer processes and weights and every size of
weights and buckets; that a streaming engine keeps the trainer's order
(`StreamsKeepOrder`), and that the processes of a broadcasting engine are never in
two different broadcasts (`BroadcastsInStep`). `EnginesInv` is the invariant of
the engine that was chosen, with the variables of the other at rest.

For the engines that stream, `StreamInv` follows a weight from the trainer's
bucket to the model:

* `Control`: whichever buffer a process lets others have, it fills the other one;
* `Flight`: a worker has a message, or has joined, exactly while the process it
  reads from (`Up`) has its buffer open, and that buffer shows what the message
  says (`Shows`);
* `Buffers`: so do the bucket being filled, the one received and the one handed
  out;
* `Order`: what a process has given to its readers is what each of them has taken
  and is told of, so the next bucket starts with the next weight (`Behind`).

Two steps need more than the definitions: opening a buffer (lemma `Opened`, used
for the trainer and for a worker in the chain) and packing a weight (`Written`:
bytes behind the offset touch none of the weights before it).

For the engines that broadcast, `BroadcastInv` rests on `ScheduleSound`: the list
of buckets that `register_checkpoint` and the loops of `update_checkpoint` make
has every weight once and no bucket that overruns, by induction over the
assignment of weights to ranks, over the ranks and over the rounds. A process has
`Done` so many broadcasts behind it; `Prepared`, `Arrived` and `Loading` say what
the two halves of its buffer show in each stage; `Handed` says that what a worker
has loaded are the places of the schedule up to where it is (`Passed`).

**DistributedBatchProofs.** The four invariants of `distributed_batch`, for every
number of ranks, replicas and agent loop workers, batch, group and micro-batch size, and all lengths.
First the algorithms:

* `SortedPermutes`: `Sorted` returns its elements in another order, and in the
  right one if the comparison is a weak order;
* `BalancedParts`: karmarkar_karp keeps a queue of states (`Queue`, `Kept`) that
  hold every row once, in sets of as many rows where `equal_size` asks for it and
  whose spread is at most what two rows of the batch differ by. `MergeKeeps` is
  the core: the largest sets meet the smallest, and the spread of the merged state
  is no wider than the wider of the two. So the parts have each row once and are
  no further apart than two rows (`Level`);
* `GroupParts`: groups of neighbouring rows, balanced as one, stay whole;
* `MicroBatchesAre`, `RestoreIs`: micro-batches have each row once, and restoring
  undoes their order.

Then the invariant `IInv` of the pass:

* `Dispatched`: a worker's chunk is that of its rank;
* `Progress`: what a worker has computed is what the micro-batches behind it pick
  from its chunk; since none is empty, their number follows from how much it has
  computed (`BehindIs`);
* `Agreed`: from the reduction on all workers have one number of micro-batches,
  which gives `LockStep`;
* `BalancedBatch`, `GroupedBatch`: the parts that the driver made are still the
  chunks.

`AllCollect` says that in both layouts of the mesh the collecting workers are one
for each rank, in the order of the ranks; with it the results, joined, are those
of the padded batch (`CollectedIs`).

**SequenceFacts.** The library's induction theorems take an operator, which the
provers cannot instantiate. `Induction` states induction of a set of numbers
instead (from the well-foundedness of <), and `RecursionExists` and
`RecursionUnique` say that a function defined by steps exists and is the only
one. From these follow what `FlattenSeq`, `SumTo` and the recursive functions of
the models return.

**Assumptions.** `LengthsAssumption` (the context is at least as long as prompt
and response together, as the servers require), `TurnsAssumption`,
`TransferAssumption`, `ActorsAssumption`, the sizes of queue, rollouter and trainer, `SizesAssumption`,
and `FilesAssumption` (the two marks for a missing and a torn file are not equal
and are none of the contents of a file). TLC evaluates them in the runs.

`BatchAssumption` asks that the sizes of trained batches divide by ranks and
groups, as the trainers assert. No theorem has a further hypothesis on the
constants: where a property needs two checkpoints or lists of one image, it says
so of the run's own configuration, and the other configurations are in the model.

**What the proofs changed in the models.** In `BucketedBroadcast` the two cases
that decide a process's next stage after a broadcast overlapped, which TLC
resolves by their order and the logic does not; they are disjoint now. `SizeOf`,
the schedule and `Sorted` are recursive functions instead of folds.

**Only model-checked:** all liveness (`Terminates`, `EndsDespitePauses`,
`PauseEnds`, `Completes`, `AllArrive`), which is beyond the proof system, as is
ENABLED; that `distributed_batch` and the engines do not deadlock; and the
violations. Every invariant and every refinement that a passing run checks is
proved. **Only proved:** `TurnLimits` and `RequestFits` of `ToolAgentLoop` and
`HoldsNewest` of `MessageQueue`, which no run lists because other properties of
the runs say more.

## 5. Not modelled

Validation and checkpoints in the asynchronous pipeline; the statistics the
actors report; construction of workers and process groups; failures of whole
actors (Ray ends the job); the server manager's and the reward router's choice of
a server and the rate limiter of the reward loop, whose hazards are listed; the
other dispatch modes of the single controller; the engines for other hardware;
tensor code; everything listed as `not_modelled` in `PROJECT.json`. By lines most
of the repository is of this kind: model definitions, kernels, losses, data
preparation, command lines and the vendored LLaMA-Factory, which keep no state
that several actors share.

## 6. Plan

Done: all modules of section 2 with their runs and proofs. Next, by value:

1. `RateLimiter` (token bucket, refining an abstract rate over every window) and
   `LeastLoaded` (server manager and router, with requests that fail).
2. Checkpoints of the fully asynchronous trainer: what a restart finds of samples
   that were pending, interrupted or queued.
3. Validation in the asynchronous pipeline (`param_sync.py:128`).
4. Proofs: that `WellBalanced` holds for the groups as well (with the work of
   groups in the place of rows); that a forward pass always finds its workers
   ready once they have split, which is the safety half of the absence of
   deadlock in `distributed_batch`.
