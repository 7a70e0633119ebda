--------------------------- MODULE ToolAgentLoop ---------------------------
(***************************************************************************)
(* The tool-calling agent loop of verl                                     *)
(* (verl/experimental/agent_loop/tool_agent_loop.py): one trajectory that  *)
(* alternates between the inference server, the tools and a simulated user *)
(* and that accumulates, token by token, the sequence the policy is        *)
(* trained on and the mask that says which tokens the policy wrote.        *)
(*                                                                         *)
(* A token is represented by where it comes from.  Token ids, texts, tool  *)
(* names, rewards, turn scores, metrics and the chat history (which only   *)
(* the simulated user reads) are left out; video inputs and the gpt-oss    *)
(* formatter, which adds text only, are left out too.                      *)
(***************************************************************************)
EXTENDS Integers, Sequences, FiniteSets

CONSTANTS
    PromptLength,      \* rollout.prompt_length
    ResponseLength,    \* rollout.response_length
    MaxModelLen,       \* context length of the inference server
    MaxAssistantTurns, \* multi_turn.max_assistant_turns, 0 for null
    UserTurnLimits,    \* choices of multi_turn.max_user_turns, 0 for null
    MaxParallelCalls,  \* multi_turn.max_parallel_calls
    \* Bounds of the environment, not of the code:
    MaxCalls,          \* tool calls the model writes in one turn
    MaxTurnText,       \* text tokens of a tool or user turn
    MaxPromptImages,   \* images of the initial prompt
    MaxImagesPerCall,  \* images one tool call returns
    ListSizes          \* choices of how many images, None aside, a list of
                       \* images that a tool answers with may hold

ASSUME LengthsAssumption ==
    /\ PromptLength \in Nat \ {0}
    /\ ResponseLength \in Nat \ {0}
    /\ MaxModelLen \in Nat
    /\ MaxModelLen >= PromptLength + ResponseLength

ASSUME TurnsAssumption ==
    /\ MaxAssistantTurns \in Nat
    /\ UserTurnLimits \subseteq Nat
    /\ MaxParallelCalls \in Nat \ {0}
    /\ MaxCalls \in Nat
    /\ MaxTurnText \in Nat \ {0}
    /\ MaxPromptImages \in Nat
    /\ MaxImagesPerCall \in Nat
    /\ ListSizes \subseteq SUBSET (0..MaxImagesPerCall)

VARIABLES
    config,            \* the switches and tools of this deployment
    state,             \* AgentState, or how the trajectory ended
    prompt_ids,        \* all tokens so far, each by its origin
    response_mask,     \* 1 for generated tokens, 0 for the environment's
    response_logprobs, \* "real" from the server, "pad" for the 0.0 filler
    image_data,        \* how many images accompany prompt_ids
    assistant_turns,
    user_turns,
    tool_calls,        \* number of calls parsed from the last generation
    calls,             \* the concurrent _call_tool coroutines
    instances,         \* tool instances created and not yet released
    output             \* the AgentLoopOutput, once there is one

vars == <<config, state, prompt_ids, response_mask, response_logprobs,
          image_data, assistant_turns, user_turns, tool_calls, calls,
          instances, output>>

tokens == <<prompt_ids, response_mask, response_logprobs>>
turns  == <<assistant_turns, user_turns>>
tools  == <<tool_calls, calls, instances>>

Config == [interaction : BOOLEAN, image_processor : BOOLEAN,
           logprobs : BOOLEAN, max_user_turns : UserTurnLimits,
           list_sizes : ListSizes]

AgentState == {"pending", "generating", "processing_tools", "interacting",
               "terminated"}

Token == {"prompt", "prompt_image", "generated", "env", "env_image"}
ImageToken == {"prompt_image", "env_image"}

Reply == [kind : {"none", "error", "text", "image", "video", "malformed"},
          images : Nat]
Call  == [pc : {"start", "created", "executed", "done", "raised"},
          reply : Reply]

NoReply == [kind |-> "none", images |-> 0]
ErrorReply == [kind |-> "error", images |-> 0]
NoOutput == [num_turns |-> 0]

Least(a, b) == IF a <= b THEN a ELSE b

\* n copies of x.
Copies(x, n) == [i \in 1..n |-> x]

\* What the chat template makes of a turn with this many image placeholders.
Encode(text, textToken, images, imageToken) ==
    [i \in 1..(text + images) |-> IF i <= text THEN textToken ELSE imageToken]

-----------------------------------------------------------------------------

Init ==
    /\ config \in Config
    /\ state = "pending"
    /\ prompt_ids = <<>>
    /\ response_mask = <<>>
    /\ response_logprobs = <<>>
    /\ image_data \in 0..MaxPromptImages
    /\ assistant_turns = 0
    /\ user_turns = 0
    /\ tool_calls = 0
    /\ calls = <<>>
    /\ instances = {}
    /\ output = NoOutput

\* The initial prompt.  The dataset drops prompts longer than prompt_length
\* (data.filter_overlong_prompts=True in start_train.sh).
HandlePending ==
    /\ state = "pending"
    /\ \E text \in 1..PromptLength :
        /\ text + image_data <= PromptLength
        /\ prompt_ids' = Encode(text, "prompt", image_data, "prompt_image")
    /\ state' = "generating"
    /\ UNCHANGED <<config, response_mask, response_logprobs, image_data,
                   turns, tools, output>>

-----------------------------------------------------------------------------
(* Generation.                                                             *)

\* The number of tokens the server may add to the current prompt.
Budget ==
    LET free == Least(ResponseLength + PromptLength - Len(prompt_ids),
                      MaxModelLen - Len(prompt_ids))
    IN  IF free <= 0 THEN 0 ELSE free

\* generate raises: the prompt exceeds the context, or nothing may be
\* generated and the engine refuses max_tokens = 0.
GenerateRejected ==
    /\ state = "generating"
    /\ Len(prompt_ids) > MaxModelLen \/ Budget = 0
    /\ state' = "failed"
    /\ UNCHANGED <<config, tokens, image_data, turns, tools, output>>

\* The three early returns of the generating handler.
GenerationEnds(mask, assistantTurns) ==
    \/ Len(mask) >= ResponseLength
    \/ MaxAssistantTurns # 0 /\ assistantTurns >= MaxAssistantTurns
    \/ config.max_user_turns # 0 /\ user_turns >= config.max_user_turns

StateAfterGeneration(parsedCalls) ==
    IF parsedCalls > 0 THEN "processing_tools"
    ELSE IF config.interaction THEN "interacting" ELSE "terminated"

\* A generation of n tokens, and the tool calls the parser finds in it
\* (none in an empty generation).
HandleGenerating ==
    /\ state = "generating"
    /\ Len(prompt_ids) <= MaxModelLen
    /\ \E n \in IF Budget = 0 THEN {0} ELSE 1..Budget :
        /\ prompt_ids' = prompt_ids \o Copies("generated", n)
        /\ response_mask' = response_mask \o Copies(1, n)
        /\ response_logprobs' = IF config.logprobs
                                THEN response_logprobs \o Copies("real", n)
                                ELSE response_logprobs
        /\ assistant_turns' = assistant_turns + 1
        /\ IF GenerationEnds(response_mask', assistant_turns')
           THEN /\ state' = "terminated"
                /\ UNCHANGED tool_calls
           ELSE \E k \in IF n = 0 THEN {0} ELSE 0..MaxCalls :
                    /\ tool_calls' = k
                    /\ state' = StateAfterGeneration(k)
    /\ UNCHANGED <<config, image_data, user_turns, calls, instances, output>>

-----------------------------------------------------------------------------
(* Tool calls: gather runs the _call_tool coroutines concurrently, and     *)
(* those that are left run on when one has raised.                         *)

StartCalls ==
    /\ state = "processing_tools"
    /\ calls = <<>>
    /\ calls' = Copies([pc |-> "start", reply |-> NoReply],
                       Least(tool_calls, MaxParallelCalls))
    /\ UNCHANGED <<config, state, tokens, image_data, turns, tool_calls,
                   instances, output>>

\* json.loads, the lookup of the tool by name and tool.create, any of which
\* may raise before there is an instance.
CreateTool(c) ==
    /\ calls[c].pc = "start"
    /\ \/ /\ calls' = [calls EXCEPT ![c] = [pc |-> "created",
                                            reply |-> NoReply]]
          /\ instances' = instances \union {c}
       \/ /\ calls' = [calls EXCEPT ![c] = [pc |-> "done",
                                            reply |-> ErrorReply]]
          /\ UNCHANGED instances
    /\ UNCHANGED <<config, state, tokens, image_data, turns, tool_calls,
                   output>>

\* Mutant: a tool answers with a content type ToolResponse does not have.
ToolReplyWithAudio == {ErrorReply, [kind |-> "audio", images |-> 0]}

\* What tool.execute may answer: an exception becomes an error text, a list
\* of images may have None in it, and a malformed answer is one that
\* ToolResponse does not accept.
ToolReply ==
    {ErrorReply}
    \union {[kind |-> k, images |-> 0] : k \in {"text", "video", "malformed"}}
    \union {[kind |-> "image", images |-> n] : n \in config.list_sizes}

ExecuteTool(c) ==
    /\ calls[c].pc = "created"
    /\ \E r \in ToolReply :
        calls' = [calls EXCEPT ![c] = [pc |-> "executed", reply |-> r]]
    /\ UNCHANGED <<config, state, tokens, image_data, turns, tool_calls,
                   instances, output>>

\* Mutant: release on the success path only, not in a finally clause.
LeftOnSuccess(c) ==
    IF calls[c].reply.kind = "error" THEN instances ELSE instances \ {c}

LeftOnRelease(c) == instances \ {c}

\* Where a call ends: building its ToolResponse may raise.
PcAfterRelease(c) ==
    IF calls[c].reply.kind = "malformed" THEN "raised" ELSE "done"

\* The finally clause, reached after an answer and after an exception, where
\* release may raise itself.
ReleaseTool(c) ==
    /\ calls[c].pc = "executed"
    /\ \/ /\ calls' = [calls EXCEPT ![c].pc = PcAfterRelease(c)]
          /\ instances' = LeftOnRelease(c)
       \/ /\ calls' = [calls EXCEPT ![c].pc = "raised"]
          /\ UNCHANGED instances
    /\ UNCHANGED <<config, state, tokens, image_data, turns, tool_calls,
                   output>>

CallTool(c) == CreateTool(c) \/ ExecuteTool(c) \/ ReleaseTool(c)

\* Mutant: a call that raised never completes the gather.
CallsSucceeded ==
    /\ calls # <<>>
    /\ \A c \in DOMAIN calls :
        calls[c].pc = "done" /\ calls[c].reply.kind # "error"

CallsDone == calls # <<>> /\ \A c \in DOMAIN calls : calls[c].pc = "done"

\* The first exception of a call leaves gather, and with it the trajectory,
\* at once: the other calls are neither awaited nor cancelled.
GatherRaises ==
    /\ state = "processing_tools"
    /\ \E c \in DOMAIN calls : calls[c].pc = "raised"
    /\ state' = "failed"
    /\ UNCHANGED <<config, tokens, image_data, turns, tools, output>>

\* A reply the handler cannot turn into a message: a list without an image
\* processor, or a video.
Unsupported(r) ==
    \/ r.kind = "image" /\ ~config.image_processor
    \/ r.kind = "video"

ToolReplyRejected ==
    /\ state = "processing_tools"
    /\ CallsDone
    /\ \E c \in DOMAIN calls : Unsupported(calls[c].reply)
    /\ state' = "failed"
    /\ calls' = <<>>
    /\ UNCHANGED <<config, tokens, image_data, turns, tool_calls, instances,
                   output>>

ImageCalls == {c \in DOMAIN calls : calls[c].reply.kind = "image"}

\* Mutant: one placeholder for the whole turn.
OnePlaceholder(cs) == IF cs = {} THEN 0 ELSE 1

\* One message, with one image placeholder, per call that returned a list.
PlaceholdersOf(cs) == Cardinality(cs)

\* All the images the calls returned, None left out.
NewImages ==
    Cardinality({p \in (DOMAIN calls) \X (1..MaxImagesPerCall) :
                    p[2] <= calls[p[1]].reply.images})

\* Mutant: the environment's tokens are trained on.
TrainedOn(turn) == Copies(1, Len(turn))

\* What a turn of the environment adds to the mask and, if the trajectory
\* has any, to the log-probabilities.
MaskOf(turn) == Copies(0, Len(turn))

\* Mutant: no filler log-probabilities.
NoFiller(turn) == <<>>

FillerOf(turn) == IF response_logprobs = <<>> THEN <<>>
                  ELSE Copies("pad", Len(turn))

\* Append a turn of the environment to the tokens of the trajectory.
AppendEnvironment(turn) ==
    /\ prompt_ids' = prompt_ids \o turn
    /\ response_mask' = response_mask \o MaskOf(turn)
    /\ response_logprobs' = response_logprobs \o FillerOf(turn)

\* Mutant: a turn that fills the response exactly is accepted.
OverflowsOffByOne(turn) == Len(response_mask) + Len(turn) > ResponseLength

\* The turn leaves no room for another generated token.
Overflows(turn) == Len(response_mask) + Len(turn) >= ResponseLength

\* The replies become one turn; when it does not leave room for another
\* generation the trajectory ends without it.
HandleToolReplies ==
    /\ state = "processing_tools"
    /\ CallsDone
    /\ \A c \in DOMAIN calls : ~Unsupported(calls[c].reply)
    /\ \E text \in 1..MaxTurnText :
        LET turn == Encode(text, "env", PlaceholdersOf(ImageCalls),
                           "env_image")
        IN  IF Overflows(turn)
            THEN /\ state' = "terminated"
                 /\ UNCHANGED <<tokens, image_data, user_turns>>
            ELSE /\ state' = "generating"
                 /\ AppendEnvironment(turn)
                 /\ image_data' = image_data + NewImages
                 /\ user_turns' = user_turns + 1
    /\ calls' = <<>>
    /\ UNCHANGED <<config, assistant_turns, tool_calls, instances, output>>

-----------------------------------------------------------------------------
(* The simulated user.                                                     *)

HandleInteracting ==
    /\ state = "interacting"
    /\ user_turns' = user_turns + 1
    /\ \E text \in 1..MaxTurnText :
        AppendEnvironment(Encode(text, "env", 0, "env_image"))
    /\ state' \in {"terminated", "generating"}
    /\ UNCHANGED <<config, image_data, assistant_turns, tools, output>>

-----------------------------------------------------------------------------
(* The result.                                                             *)

\* Mutant: no cut at the response length.
Uncut(s, n) == s

\* s[:n], s[-n:] and s[:len(s) - n] of Python.
FirstOf(s, n) == SubSeq(s, 1, Least(n, Len(s)))
LastOf(s, n)  == IF n = 0 THEN s ELSE SubSeq(s, Len(s) - n + 1, Len(s))
DropLast(s, n) == SubSeq(s, 1, Len(s) - n)

Finalize ==
    /\ state = "terminated"
    /\ output = NoOutput
    /\ output' =
        [prompt_ids |-> DropLast(prompt_ids, Len(response_mask)),
         response_ids |-> FirstOf(LastOf(prompt_ids, Len(response_mask)),
                                  ResponseLength),
         response_mask |-> FirstOf(response_mask, ResponseLength),
         response_logprobs |-> FirstOf(response_logprobs, ResponseLength),
         num_turns |-> user_turns + assistant_turns + 1]
    /\ UNCHANGED <<config, state, tokens, image_data, turns, tools>>

Next ==
    \/ HandlePending
    \/ GenerateRejected
    \/ HandleGenerating
    \/ StartCalls
    \/ \E c \in DOMAIN calls : CallTool(c)
    \/ GatherRaises
    \/ ToolReplyRejected
    \/ HandleToolReplies
    \/ HandleInteracting
    \/ Finalize

\* The coroutine of the trajectory is scheduled again after each await, and
\* server, tools and simulated user answer.
Fairness == WF_vars(Next)

Spec == Init /\ [][Next]_vars
FairSpec == Spec /\ Fairness

-----------------------------------------------------------------------------
(* Correctness.                                                            *)

Output == [prompt_ids : Seq(Token), response_ids : Seq(Token),
           response_mask : Seq({0, 1}),
           response_logprobs : Seq({"real", "pad"}), num_turns : Nat]

\* Every variable of AgentData and of the running tool calls has its type.
TypeOK ==
    /\ config \in Config
    /\ state \in AgentState \union {"failed"}
    /\ prompt_ids \in Seq(Token)
    /\ response_mask \in Seq({0, 1})
    /\ response_logprobs \in Seq({"real", "pad"})
    /\ image_data \in Nat
    /\ assistant_turns \in Nat
    /\ user_turns \in Nat
    /\ tool_calls \in Nat
    /\ calls \in Seq(Call)
    /\ instances \subseteq Nat
    /\ output \in Output \union {NoOutput}

\* The mask covers a suffix of the tokens and marks exactly those the policy
\* generated: never a token of a tool or user turn, which would train the
\* policy on text it did not write, and every token it did write
\* (AgentLoopOutput: "1 for LLM generated token, 0 for tool response token").
MaskMarksGenerated ==
    /\ Len(response_mask) <= Len(prompt_ids)
    /\ \A i \in 1..Len(prompt_ids) :
        LET m == i - (Len(prompt_ids) - Len(response_mask))
        IN  IF m >= 1
            THEN /\ prompt_ids[i] \in {"generated", "env", "env_image"}
                 /\ response_mask[m] = 1 <=> prompt_ids[i] = "generated"
            ELSE prompt_ids[i] \in {"prompt", "prompt_image"}

\* When log-probabilities are asked for, the i-th one belongs to the i-th
\* response token: real where the mask is 1, the 0.0 filler elsewhere.
LogprobsFollowMask ==
    IF config.logprobs
    THEN /\ Len(response_logprobs) = Len(response_mask)
         /\ \A i \in 1..Len(response_mask) :
                response_logprobs[i] = "real" <=> response_mask[i] = 1
    ELSE response_logprobs = <<>>

\* Where each list of a tool holds one image, the images passed to the server
\* beside the tokens are as many as the placeholders in them, over concurrent
\* calls with and without images and the turn that is given up for its
\* length.  With None in a list, or several images, they are not.
ImagesMatchPlaceholders ==
    config.list_sizes = {1} =>
        Cardinality({i \in 1..Len(prompt_ids) : prompt_ids[i] \in ImageToken})
            = IF state = "pending" THEN 0 ELSE image_data

\* Without a simulated user, no request is rejected for its length and each
\* one leaves room for a token: the length check on a tool turn reserves it.
RequestFits ==
    state = "generating" /\ ~config.interaction => Budget >= 1

\* An instance that is held belongs to a call that is still going to release
\* it, also after another call has ended the trajectory, or to one whose
\* release raised; a trajectory that goes on to the next turn or to its
\* result has left none behind.
NoLeakedInstance ==
    /\ \A c \in instances :
        /\ c \in DOMAIN calls
        /\ calls[c].pc \in {"created", "executed", "raised"}
    /\ state \notin {"processing_tools", "failed"} => instances = {}

\* The turn limits of the configuration hold, and the loop alternates: each
\* turn of the environment answers one generation.
TurnLimits ==
    /\ MaxAssistantTurns # 0 => assistant_turns <= MaxAssistantTurns
    /\ config.max_user_turns # 0 => user_turns <= config.max_user_turns
    /\ assistant_turns - user_turns \in {0, 1}

\* The result splits the tokens at the end of the initial prompt, and ids,
\* mask and log-probabilities are cut to the same, bounded, length.
OutputFaithful ==
    output # NoOutput =>
        /\ \A i \in DOMAIN output.prompt_ids :
                output.prompt_ids[i] \in {"prompt", "prompt_image"}
        /\ Len(output.response_ids) = Len(output.response_mask)
        /\ Len(output.response_ids) \in 1..ResponseLength
        /\ \A i \in DOMAIN output.response_ids :
                output.response_mask[i] = 1
                    <=> output.response_ids[i] = "generated"
        /\ config.logprobs => Len(output.response_logprobs)
                                = Len(output.response_mask)

\* Without a simulated user a trajectory ends with the policy's own tokens:
\* a tool turn that ends the trajectory leaves no trace in it.
EndsWithGenerated ==
    output # NoOutput /\ ~config.interaction =>
        output.response_mask[Len(output.response_mask)] = 1

\* Every trajectory ends, with a result or with an exception, and every tool
\* call it started is over in the end: without a turn limit it is the length
\* of the response that ends the loop, and with a simulated user, whose turns
\* are not measured, the length of the context.
Terminates ==
    <>(/\ state = "failed" \/ output # NoOutput
       /\ \A c \in DOMAIN calls : calls[c].pc \in {"done", "raised"})
=============================================================================
