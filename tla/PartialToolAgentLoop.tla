------------------------ MODULE PartialToolAgentLoop ------------------------
(***************************************************************************)
(* The tool-calling agent loop under partial rollout: the loop of          *)
(* ToolAgentLoop, interrupted for every synchronization of the weights and *)
(* resumed afterwards, perhaps on another worker and server                *)
(* (verl/experimental/fully_async_policy, files                            *)
(* agent_loop/partial_tool_agent_loop.py, agent_loop/agent_loop.py and     *)
(* vllm_rollout/vllm_async_server.py), with partial_rollout on.            *)
(*                                                                         *)
(* AsyncPartialToolAgentLoop inherits the handlers of ToolAgentLoop but    *)
(* the generating one.  The server's limit is its context alone.  Its lock *)
(* makes the two ends of generate_for_partial, cancel and resume atomic.   *)
(***************************************************************************)
EXTENDS ToolAgentLoop

CONSTANTS
    Workers,  \* FullyAsyncAgentLoopWorker actors
    Servers,  \* vLLMHttpServerForPartial actors
    MaxPauses \* bound: synchronizations during the trajectory

ASSUME ActorsAssumption ==
    Workers # {} /\ Servers # {} /\ MaxPauses \in Nat

VARIABLES
    running,      \* run() is in progress; if not, the Rollouter has its output
    worker,       \* where it runs, or ran last
    server,       \* the server this worker sends the trajectory's requests to
    request,      \* the generation in progress
    cancelled,    \* workers whose cancellation_event is set
    paused,       \* servers that are paused
    synchronizing, \* between FullyAsyncAgentLoopManager.cancel and resume
    pauses,
    turn_tokens,  \* tokens appended of a turn that is not over (not kept by
    written       \* the code), and tool calls the policy wrote in that turn

control == <<worker, server, cancelled, paused, synchronizing, pauses>>
turn == <<turn_tokens, written>>
partialVars == <<vars, running, control, request, turn>>

Request == [pc : {"none", "refused", "running", "finished"},
            tokens : 0..MaxModelLen, calls : 0..MaxCalls, stop : BOOLEAN]

NoRequest == [pc |-> "none", tokens |-> 0, calls |-> 0, stop |-> FALSE]

PartialInit ==
    /\ Init
    /\ config.logprobs \* the server always returns them
    /\ running = TRUE
    /\ worker \in Workers
    /\ server \in Servers
    /\ request = NoRequest
    /\ cancelled = {}
    /\ paused = {}
    /\ synchronizing = FALSE
    /\ pauses = 0
    /\ turn_tokens = 0
    /\ written = 0

-----------------------------------------------------------------------------
(* The state machine.                                                      *)

\* The coroutine is at the head of the loop of _run_state_machine.
AtHead ==
    /\ running
    /\ state \notin {"terminated", "failed"}
    /\ calls = <<>>
    /\ request = NoRequest

Proceeds == AtHead /\ worker \notin cancelled

\* Cancellation is seen before a handler starts: run returns with the state
\* saved in its output.
Interrupt ==
    /\ AtHead
    /\ worker \in cancelled
    /\ running' = FALSE
    /\ UNCHANGED <<vars, control, request, turn>>

\* The Rollouter submits the sample again, with that output.
Resubmit ==
    /\ ~running
    /\ running' = TRUE
    /\ worker' \in Workers
    /\ server' \in Servers
    /\ UNCHANGED <<vars, cancelled, paused, synchronizing, pauses, request,
                   turn>>

\* The handlers that begin at the head of the loop and those under way.
Handle ==
    /\ \/ Proceeds /\ (HandlePending \/ StartCalls \/ HandleInteracting)
       \/ \E c \in DOMAIN calls : CallTool(c)
       \/ GatherRaises
       \/ ToolReplyRejected
       \/ HandleToolReplies
       \/ Finalize
    /\ UNCHANGED <<running, control, request, turn>>

-----------------------------------------------------------------------------
(* Generation.                                                             *)

\* What max_tokens grants: the rest of the context.
ContextLeft == MaxModelLen - Len(prompt_ids)

\* Mutant: the server accepts requests while it is paused.
Accepted == TRUE

\* generate_for_partial looks at paused under the lock.
Accepts == server \notin paused

\* A paused server answers at once that it was stopped with no token; the
\* loop starts over, and asks again if its worker is not cancelled yet.
Submit ==
    /\ Proceeds
    /\ state = "generating"
    /\ Accepts => ContextLeft > 0
    /\ request' = [NoRequest EXCEPT !.pc = IF Accepts THEN "running"
                                           ELSE "refused"]
    /\ UNCHANGED <<vars, running, control, turn>>

\* The engine refuses a request that leaves nothing to generate.
SubmitRejected ==
    /\ Proceeds
    /\ state = "generating"
    /\ Accepts
    /\ ContextLeft <= 0
    /\ state' = "failed"
    /\ UNCHANGED <<config, tokens, image_data, turns, tools, output, running,
                   control, request, turn>>

\* The engine writes a token; a tool call may be complete with it.
Produce ==
    /\ request.pc = "running"
    /\ request.tokens < ContextLeft
    /\ \E k \in {0, 1} :
        /\ written + request.calls + k <= MaxCalls
        /\ request' = [request EXCEPT !.tokens = @ + 1, !.calls = @ + k]
    /\ UNCHANGED <<vars, running, control, turn>>

\* The engine's last output.
FinishRequest ==
    /\ request.pc = "running"
    /\ request.tokens > 0
    /\ request' = [request EXCEPT !.pc = "finished"]
    /\ UNCHANGED <<vars, running, control, turn>>

\* Mutant: the answer of a paused server is not one that was stopped.
StoppedRunning == request.pc = "running" /\ request.stop

\* The server answers that generation was stopped.
Stopped ==
    \/ request.pc = "refused"
    \/ request.pc = "running" /\ request.stop

\* Mutant: what was generated is thrown away.
AppendNothing(n) ==
    UNCHANGED <<prompt_ids, response_mask, response_logprobs>>

\* Append what was generated.
AppendGenerated(n) ==
    /\ prompt_ids' = prompt_ids \o Copies("generated", n)
    /\ response_mask' = response_mask \o Copies(1, n)
    /\ response_logprobs' = response_logprobs \o Copies("real", n)

\* Mutant: the length is looked at before the new tokens are appended.
FullBefore == Len(response_mask) >= ResponseLength

\* The response has reached its length.
FullAfter == Len(response_mask') >= ResponseLength

\* An interrupted generation: its tokens are kept, and the turn goes on when
\* the trajectory is resumed, unless the response is long enough.
KeepPart ==
    /\ Stopped
    /\ AppendGenerated(request.tokens)
    /\ IF FullAfter
       THEN /\ assistant_turns' = assistant_turns + 1
            /\ state' = "terminated"
            /\ turn_tokens' = 0
            /\ written' = 0
       ELSE /\ turn_tokens' = turn_tokens + request.tokens
            /\ written' = written + request.calls
            /\ UNCHANGED <<assistant_turns, state>>
    /\ request' = NoRequest
    /\ UNCHANGED <<config, image_data, user_turns, tools, output, running,
                   control>>

\* The turn is over.  The parser is given what was generated last: the part
\* after an interruption, if there was one.
EndTurn ==
    /\ request.pc = "finished"
    /\ AppendGenerated(request.tokens)
    /\ assistant_turns' = assistant_turns + 1
    /\ IF GenerationEnds(response_mask', assistant_turns')
       THEN state' = "terminated" /\ UNCHANGED tool_calls
       ELSE /\ tool_calls' = request.calls
            /\ state' = StateAfterGeneration(request.calls)
    /\ turn_tokens' = 0
    /\ written' = 0
    /\ request' = NoRequest
    /\ UNCHANGED <<config, image_data, user_turns, calls, instances, output,
                   running, control>>

-----------------------------------------------------------------------------
(* The Rollouter's pause and resume.                                       *)

\* FullyAsyncAgentLoopManager.cancel and resume tell workers and servers in
\* any order, and wait for all.
BeginPause ==
    /\ ~synchronizing
    /\ cancelled = {} /\ paused = {}
    /\ pauses < MaxPauses
    /\ synchronizing' = TRUE
    /\ pauses' = pauses + 1
    /\ UNCHANGED <<vars, running, worker, server, request, cancelled, paused,
                   turn>>

EndPause ==
    /\ synchronizing
    /\ cancelled = Workers /\ paused = Servers
    /\ synchronizing' = FALSE
    /\ UNCHANGED <<vars, running, worker, server, request, cancelled, paused,
                   pauses, turn>>

CancelWorker(w) ==
    /\ synchronizing
    /\ w \notin cancelled
    /\ cancelled' = cancelled \union {w}
    /\ UNCHANGED <<vars, running, worker, server, request, paused,
                   synchronizing, pauses, turn>>

ResumeWorker(w) ==
    /\ ~synchronizing
    /\ w \in cancelled
    /\ cancelled' = cancelled \ {w}
    /\ UNCHANGED <<vars, running, worker, server, request, paused,
                   synchronizing, pauses, turn>>

\* Under the lock: no new request, and every registered one is told to stop.
PauseServer(v) ==
    /\ synchronizing
    /\ v \notin paused
    /\ paused' = paused \union {v}
    /\ request' = IF v = server /\ request.pc = "running"
                  THEN [request EXCEPT !.stop = TRUE] ELSE request
    /\ UNCHANGED <<vars, running, worker, server, cancelled, synchronizing,
                   pauses, turn>>

ResumeServer(v) ==
    /\ ~synchronizing
    /\ v \in paused
    /\ paused' = paused \ {v}
    /\ UNCHANGED <<vars, running, worker, server, request, cancelled,
                   synchronizing, pauses, turn>>

-----------------------------------------------------------------------------

Loops == Interrupt \/ Handle \/ Submit \/ SubmitRejected \/ KeepPart \/ EndTurn

Controls == \/ EndPause
            \/ \E w \in Workers : CancelWorker(w) \/ ResumeWorker(w)
            \/ \E v \in Servers : PauseServer(v) \/ ResumeServer(v)

PartialNext == Loops \/ Resubmit \/ Produce \/ FinishRequest \/ BeginPause
               \/ Controls

PartialSpec == PartialInit /\ [][PartialNext]_partialVars

\* Coroutine, engine and Rollouter go on; a synchronization ends, and its
\* calls reach every worker and server.
PartialFairSpec ==
    /\ PartialSpec
    /\ WF_partialVars(Loops)
    /\ WF_partialVars(Resubmit)
    /\ WF_partialVars(Produce \/ FinishRequest)
    /\ WF_partialVars(Controls)

-----------------------------------------------------------------------------
(* Correctness.                                                            *)

\* The types of what the partial loop adds.
PartialTypeOK ==
    /\ running \in BOOLEAN
    /\ worker \in Workers
    /\ server \in Servers
    /\ request \in Request
    /\ cancelled \subseteq Workers
    /\ paused \subseteq Servers
    /\ synchronizing \in BOOLEAN
    /\ pauses \in 0..MaxPauses
    /\ turn_tokens \in 0..Len(response_mask)
    /\ written \in 0..MaxCalls

\* No generation slips past a pause: while the weights are replaced the
\* server has told each request to stop, also one that arrived while the
\* workers were being told.
PauseReachesAll ==
    request.pc = "running" /\ server \in paused => request.stop

\* The plain loop, in a deployment whose response may fill the context, that
\* has not yet seen the tokens of the unfinished turn.
Loop == INSTANCE ToolAgentLoop WITH
            PromptLength <- MaxModelLen - ResponseLength,
            prompt_ids <- DropLast(prompt_ids, turn_tokens),
            response_mask <- DropLast(response_mask, turn_tokens),
            response_logprobs <- DropLast(response_logprobs, turn_tokens)

\* A response that a user turn has filled: an interruption ends it where the
\* plain loop would generate tokens that are cut off again.
EndsFull ==
    /\ Len(response_mask) >= ResponseLength
    /\ state = "generating" /\ state' = "terminated"
    /\ assistant_turns' = assistant_turns + 1
    /\ UNCHANGED <<config, tokens, image_data, user_turns, tools, output>>

\* However often it is interrupted, and wherever it is resumed, a trajectory
\* is one the plain loop could produce in one go: no token, mask or turn is
\* lost or counted twice.
LoopSpec == Loop!Init /\ [][Loop!Next \/ EndsFull]_Loop!vars

\* Every trajectory ends although it is interrupted.
EndsDespitePauses == <>(state = "failed" \/ output # NoOutput)

\* A resumed turn continues the one that was interrupted: the tool calls
\* written in it are the ones that are made (docs/advance/fully_async.md:
\* "Resuming execution from the saved state").
TurnContinues ==
    [][EndTurn /\ state' # "terminated"
        => tool_calls' = written + request.calls]_partialVars
=============================================================================
