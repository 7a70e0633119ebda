--------------------- MODULE PartialToolAgentLoopProofs ---------------------
(***************************************************************************)
(* Proofs about PartialToolAgentLoop, for every number of workers, servers *)
(* and pauses: what is proved of the plain loop in ToolAgentLoopProofs     *)
(* holds however often the trajectory is interrupted, no generation slips  *)
(* past a pause, and the partial loop implements the plain one.            *)
(***************************************************************************)
EXTENDS PartialToolAgentLoop, ToolAgentLoopProofs

-----------------------------------------------------------------------------
(* The sequences of an unfinished turn.                                    *)

\* Nothing is appended, or dropped, when there is nothing to.
LEMMA NoCopies ==
    ASSUME NEW S, NEW s \in Seq(S), NEW x \in S
    PROVE  s \o Copies(x, 0) = s /\ DropLast(s, 0) = s
  <1>1. Len(s) \in Nat
    BY LenProperties
  <1>2. Copies(x, 0) \in Seq(S) /\ Len(Copies(x, 0)) = 0
    BY CopiesProperties
  <1>3. /\ s \o Copies(x, 0) \in Seq(S)
        /\ Len(s \o Copies(x, 0)) = Len(s)
        /\ \A i \in 1..Len(s) : (s \o Copies(x, 0))[i] = s[i]
    BY <1>1, <1>2, ConcatProperties
  <1>4. /\ DropLast(s, 0) \in Seq(S)
        /\ Len(DropLast(s, 0)) = Len(s)
        /\ \A i \in 1..Len(s) : DropLast(s, 0)[i] = s[i]
    BY <1>1, SliceProperties
  <1> QED
    BY <1>3, <1>4, SeqEqual

\* The last k elements of s are x.
EndsWith(s, x, k) ==
    /\ k <= Len(s)
    /\ \A i \in 1..Len(s) : i > Len(s) - k => s[i] = x

\* Appending n more to a sequence that ends with k copies.
LEMMA AppendedCopies ==
    ASSUME NEW S, NEW s \in Seq(S), NEW x \in S, NEW n \in Nat, NEW k \in Nat,
           EndsWith(s, x, k)
    PROVE  /\ EndsWith(s \o Copies(x, n), x, k + n)
           /\ DropLast(s \o Copies(x, n), k + n) = DropLast(s, k)
  <1> DEFINE longer == s \o Copies(x, n)
             kept == DropLast(s, k)
  <1>1. Len(s) \in Nat /\ k <= Len(s) /\ k + n \in Nat
    BY LenProperties DEF EndsWith
  <1>2. /\ Copies(x, n) \in Seq(S) /\ Len(Copies(x, n)) = n
        /\ \A i \in 1..n : Copies(x, n)[i] = x
    BY CopiesProperties
  <1>3. /\ longer \in Seq(S) /\ Len(longer) = Len(s) + n
        /\ \A i \in 1..(Len(s) + n) :
            longer[i] = IF i <= Len(s) THEN s[i] ELSE Copies(x, n)[i - Len(s)]
    BY <1>2, ConcatProperties
  <1>4. /\ kept \in Seq(S) /\ Len(kept) = Len(s) - k
        /\ \A i \in 1..(Len(s) - k) : kept[i] = s[i]
    BY <1>1, SliceProperties
  <1> HIDE DEF longer, kept
  <1>5. \A i \in 1..(Len(s) + n) : i > Len(s) - k => longer[i] = x
    <2> SUFFICES ASSUME NEW i \in 1..(Len(s) + n), i > Len(s) - k
                 PROVE  longer[i] = x
      OBVIOUS
    <2>1. CASE i <= Len(s)
      <3>1. i \in 1..Len(s)
        BY <1>1, <2>1
      <3> QED
        BY <1>3, <2>1, <3>1 DEF EndsWith
    <2>2. CASE ~(i <= Len(s))
      <3>1. i - Len(s) \in 1..n
        BY <1>1, <2>2
      <3> QED
        BY <1>2, <1>3, <2>2, <3>1
    <2> QED
      BY <2>1, <2>2
  <1>6. EndsWith(longer, x, k + n)
    BY <1>1, <1>3, <1>5 DEF EndsWith
  <1>7. DropLast(longer, k + n) = kept
    <2>1. /\ DropLast(longer, k + n) \in Seq(S)
          /\ Len(DropLast(longer, k + n)) = Len(longer) - (k + n)
          /\ \A i \in 1..(Len(longer) - (k + n)) :
                DropLast(longer, k + n)[i] = longer[i]
      <3>1. k + n <= Len(longer)
        BY <1>1, <1>3
      <3> QED
        BY <1>1, <1>3, <3>1, SliceProperties
    <2>2. Len(longer) - (k + n) = Len(s) - k
      BY <1>1, <1>3
    <2>3. \A i \in 1..(Len(s) - k) : longer[i] = kept[i]
      BY SMTT(30), <1>1, <1>3, <1>4
    <2> QED
      BY <1>4, <2>1, <2>2, <2>3, SeqEqual
  <1> QED
    BY <1>6, <1>7 DEF longer, kept

\* A sequence that ends with k copies is made of what is before them and them.
LEMMA CopiesAtEnd ==
    ASSUME NEW S, NEW s \in Seq(S), NEW x \in S, NEW k \in Nat,
           EndsWith(s, x, k)
    PROVE  s = DropLast(s, k) \o Copies(x, k)
  <1> DEFINE kept == DropLast(s, k)
             joined == kept \o Copies(x, k)
  <1>1. Len(s) \in Nat /\ k <= Len(s)
    BY LenProperties DEF EndsWith
  <1>2. /\ kept \in Seq(S) /\ Len(kept) = Len(s) - k
        /\ \A i \in 1..(Len(s) - k) : kept[i] = s[i]
    BY <1>1, SliceProperties
  <1>3. /\ Copies(x, k) \in Seq(S) /\ Len(Copies(x, k)) = k
        /\ \A i \in 1..k : Copies(x, k)[i] = x
    BY CopiesProperties
  <1> HIDE DEF kept
  <1>4. /\ joined \in Seq(S) /\ Len(joined) = Len(s)
        /\ \A i \in 1..Len(s) :
            joined[i] = IF i <= Len(s) - k THEN kept[i]
                        ELSE Copies(x, k)[i - (Len(s) - k)]
    BY <1>1, <1>2, <1>3, ConcatProperties
  <1> HIDE DEF joined
  <1>5. ASSUME NEW i \in 1..Len(s)
        PROVE  s[i] = joined[i]
    <2>1. CASE i <= Len(s) - k
      <3>1. i \in 1..(Len(s) - k)
        BY <1>1, <2>1
      <3> QED
        BY <1>2, <1>4, <2>1, <3>1
    <2>2. CASE ~(i <= Len(s) - k)
      <3>1. i - (Len(s) - k) \in 1..k /\ i > Len(s) - k
        BY <1>1, <2>2
      <3> QED
        BY <1>3, <1>4, <2>2, <3>1 DEF EndsWith
    <2> QED
      BY <2>1, <2>2
  <1> QED
    BY <1>4, <1>5, SeqEqual DEF kept, joined

-----------------------------------------------------------------------------
(* The strengthening of the invariant of the plain loop.                   *)

\* What a request knows of the loop that waits for it.
RequestRight ==
    /\ ~running => request = NoRequest
    /\ request # NoRequest => state = "generating"
    /\ request.pc \in {"none", "refused"} => request.tokens = 0
    /\ request.calls <= request.tokens
    /\ request.pc \in {"running", "finished"} => request.tokens <= ContextLeft
    /\ request.pc = "finished" => request.tokens > 0
    /\ written + request.calls <= MaxCalls

\* A turn is unfinished only while the loop generates and has room, and its
\* tokens are the last of the trajectory.
TurnRight ==
    /\ state # "generating" => turn_tokens = 0
    /\ written <= turn_tokens
    /\ turn_tokens > 0 => Len(response_mask) < ResponseLength
    /\ EndsWith(prompt_ids, "generated", turn_tokens)
    /\ EndsWith(response_mask, 1, turn_tokens)
    /\ EndsWith(response_logprobs, "real", turn_tokens)

PartialInv ==
    /\ Inv
    /\ config.logprobs
    /\ PartialTypeOK
    /\ RequestRight
    /\ TurnRight
    /\ PauseReachesAll

\* The invariant of the plain loop, when a generation of n tokens is appended
\* and the turn goes on, in a response that is not full, or is over.
LEMMA GenerationKeepsInv ==
    ASSUME Inv, config.logprobs, state = "generating", NEW n \in Nat,
           AppendGenerated(n), tool_calls' \in Nat,
           UNCHANGED <<config, image_data, user_turns, calls, instances,
                       output>>,
           \/ /\ Len(response_mask') < ResponseLength
              /\ UNCHANGED <<assistant_turns, state>>
           \/ /\ n > 0 \/ Len(response_mask') >= ResponseLength
              /\ assistant_turns' = assistant_turns + 1
              /\ \/ state' = "terminated"
                 \/ /\ ~GenerationEnds(response_mask', assistant_turns')
                    /\ state' = StateAfterGeneration(tool_calls')
    PROVE  Inv'
  <1> USE LengthsAssumption, TurnsAssumption
  <1>1. /\ prompt_ids' = prompt_ids \o Copies("generated", n)
        /\ response_mask' = response_mask \o Copies(1, n)
        /\ response_logprobs' = response_logprobs \o Copies("real", n)
        /\ \/ state' = "generating"
           \/ state' = "terminated"
           \/ state' = "processing_tools"
           \/ state' = "interacting" /\ config.interaction
        /\ assistant_turns' = IF state' = "generating" THEN assistant_turns
                              ELSE assistant_turns + 1
        /\ state' \in {"processing_tools", "interacting"} =>
                ~GenerationEnds(response_mask', assistant_turns')
    BY DEF AppendGenerated, StateAfterGeneration
  <1>2. TypeOK'
    <2>1. /\ prompt_ids' \in Seq(Token) /\ response_mask' \in Seq({0, 1})
          /\ response_logprobs' \in Seq({"real", "pad"})
      BY <1>1, GenerationTypes DEF Inv
    <2>2. state' \in AgentState /\ assistant_turns' \in Nat
      BY <1>1 DEF Inv, TypeOK, AgentState
    <2> QED
      BY <2>1, <2>2 DEF Inv, TypeOK
  <1>3. /\ Len(prompt_ids) \in Nat /\ Len(response_mask) \in Nat
        /\ Len(prompt_ids') = Len(prompt_ids) + n
        /\ Len(response_mask') = Len(response_mask) + n
    BY <1>1, GenerationLengths DEF Inv
  <1>4. MaskMarksGenerated'
    <2>1. Aligned(prompt_ids', response_mask')
      BY <1>1, GenerationAligned DEF Inv, TokensRight
    <2>2. (MaskMarksGenerated <=> Aligned(prompt_ids, response_mask))'
      BY <1>2, AlignedIsMaskMarksGenerated, PTL
    <2> QED
      BY <2>1, <2>2
  <1>5. LogprobsFollowMask'
    <2>1. Follow(response_logprobs, response_mask)
      BY DEF Inv, TokensRight, LogprobsFollowMask, Follow
    <2>2. Follow(response_logprobs', response_mask')
      BY <1>1, <2>1, GenerationFollow DEF Inv
    <2> QED
      BY <2>2 DEF LogprobsFollowMask, Follow
  <1>6. /\ state' # "pending"
        /\ assistant_turns' = assistant_turns \/ Len(response_mask') >= 1
    BY <1>1, <1>3
  <1>7. LengthsBounded'
    <2>1. /\ Len(prompt_ids') - Len(response_mask') <= PromptLength
          /\ ~GenerationEnds(response_mask', assistant_turns') =>
                Len(response_mask') < ResponseLength
      BY <1>3 DEF Inv, TokensRight, LengthsBounded, GenerationEnds
    <2> QED
      BY SMTT(30), <1>1, <1>3, <1>6, <2>1 DEF Inv, TypeOK, LengthsBounded
  <1>8. CallsTracked'
    BY DEF Inv, CallsTracked
  <1>9. TurnsCounted' /\ TurnLimits'
    BY SMTT(30), <1>1, ConfigTypes
    DEF Inv, TypeOK, TurnsCounted, TurnLimits, GenerationEnds
  <1>10. GeneratedEnd'
    <2> SUFFICES ASSUME ~config.interaction,
                        state' \in {"processing_tools", "terminated"}
                 PROVE  response_mask'[Least(ResponseLength,
                                             Len(response_mask'))] = 1
      BY DEF GeneratedEnd
    <2>1. Len(response_mask) < ResponseLength
      BY DEF Inv, TokensRight, LengthsBounded
    <2>2. n >= 1
      BY <1>1, <1>3, <2>1
    <2>3. /\ Copies(1, n) \in Seq({0, 1}) /\ Len(Copies(1, n)) = n
          /\ \A i \in 1..n : Copies(1, n)[i] = 1
      BY CopiesProperties
    <2>4. \A i \in 1..(Len(response_mask) + n) :
            response_mask'[i] = IF i <= Len(response_mask)
                                THEN response_mask[i]
                                ELSE Copies(1, n)[i - Len(response_mask)]
      <3>1. response_mask \in Seq({0, 1})
        BY DEF Inv, TypeOK
      <3> QED
        BY <1>1, <2>2, <2>3, <3>1, MaskConcat
    <2> DEFINE j == Least(ResponseLength, Len(response_mask'))
    <2>5. /\ j \in 1..(Len(response_mask) + n)
          /\ ~(j <= Len(response_mask))
          /\ j - Len(response_mask) \in 1..n
      BY <1>3, <2>1, <2>2 DEF Least
    <2> HIDE DEF j
    <2>6. response_mask'[j] = 1
      BY <2>3, <2>4, <2>5
    <2> QED
      BY <2>6 DEF j
  <1>11. ResultRight'
    BY DEF Inv, ResultRight, OutputFaithful, EndsWithGenerated
  <1> QED
    BY <1>2, <1>4, <1>5, <1>6, <1>7, <1>8, <1>9, <1>10, <1>11
    DEF Inv, TokensRight, NothingYet

\* The tokens of an unfinished turn and their count grow together.
LEMMA TurnGrows ==
    ASSUME PartialInv, NEW n \in Nat, AppendGenerated(n)
    PROVE  /\ EndsWith(prompt_ids', "generated", turn_tokens + n)
           /\ EndsWith(response_mask', 1, turn_tokens + n)
           /\ EndsWith(response_logprobs', "real", turn_tokens + n)
           /\ DropLast(prompt_ids', turn_tokens + n)
                = DropLast(prompt_ids, turn_tokens)
           /\ DropLast(response_mask', turn_tokens + n)
                = DropLast(response_mask, turn_tokens)
           /\ DropLast(response_logprobs', turn_tokens + n)
                = DropLast(response_logprobs, turn_tokens)
           /\ prompt_ids' = DropLast(prompt_ids, turn_tokens)
                                \o Copies("generated", turn_tokens + n)
           /\ response_mask' = DropLast(response_mask, turn_tokens)
                                \o Copies(1, turn_tokens + n)
           /\ response_logprobs' = DropLast(response_logprobs, turn_tokens)
                                \o Copies("real", turn_tokens + n)
  <1>1. /\ turn_tokens \in Nat
        /\ prompt_ids \in Seq(Token) /\ "generated" \in Token
        /\ response_mask \in Seq({0, 1})
        /\ response_logprobs \in Seq({"real", "pad"})
    BY LenProperties DEF PartialInv, PartialTypeOK, Inv, TypeOK, Token
  <1>2. /\ EndsWith(prompt_ids, "generated", turn_tokens)
        /\ EndsWith(response_mask, 1, turn_tokens)
        /\ EndsWith(response_logprobs, "real", turn_tokens)
    BY DEF PartialInv, TurnRight
  <1>3. /\ prompt_ids' = prompt_ids \o Copies("generated", n)
        /\ response_mask' = response_mask \o Copies(1, n)
        /\ response_logprobs' = response_logprobs \o Copies("real", n)
    BY DEF AppendGenerated
  <1>4. /\ prompt_ids' \in Seq(Token) /\ response_mask' \in Seq({0, 1})
        /\ response_logprobs' \in Seq({"real", "pad"})
        /\ turn_tokens + n \in Nat
    BY <1>1, <1>3, GenerationTypes DEF PartialInv, Inv
  <1>5. /\ EndsWith(prompt_ids', "generated", turn_tokens + n)
        /\ DropLast(prompt_ids', turn_tokens + n)
                = DropLast(prompt_ids, turn_tokens)
        /\ prompt_ids' = DropLast(prompt_ids, turn_tokens)
                                \o Copies("generated", turn_tokens + n)
    <2>1. "generated" \in Token
      BY <1>1
    <2>2. /\ EndsWith(prompt_ids', "generated", turn_tokens + n)
          /\ DropLast(prompt_ids', turn_tokens + n)
                = DropLast(prompt_ids, turn_tokens)
      BY <1>1, <1>2, <1>3, <2>1, AppendedCopies
    <2>3. prompt_ids' = DropLast(prompt_ids', turn_tokens + n)
                                \o Copies("generated", turn_tokens + n)
      BY <1>1, <1>4, <2>1, <2>2, CopiesAtEnd
    <2> QED
      BY <2>2, <2>3
  <1>6. /\ EndsWith(response_mask', 1, turn_tokens + n)
        /\ DropLast(response_mask', turn_tokens + n)
                = DropLast(response_mask, turn_tokens)
        /\ response_mask' = DropLast(response_mask, turn_tokens)
                                \o Copies(1, turn_tokens + n)
    <2>1. 1 \in {0, 1}
      BY <1>1
    <2>2. /\ EndsWith(response_mask', 1, turn_tokens + n)
          /\ DropLast(response_mask', turn_tokens + n)
                = DropLast(response_mask, turn_tokens)
      BY <1>1, <1>2, <1>3, <2>1, AppendedCopies
    <2>3. response_mask' = DropLast(response_mask', turn_tokens + n)
                                \o Copies(1, turn_tokens + n)
      BY <1>1, <1>4, <2>1, <2>2, CopiesAtEnd
    <2> QED
      BY <2>2, <2>3
  <1>7. /\ EndsWith(response_logprobs', "real", turn_tokens + n)
        /\ DropLast(response_logprobs', turn_tokens + n)
                = DropLast(response_logprobs, turn_tokens)
        /\ response_logprobs' = DropLast(response_logprobs, turn_tokens)
                                \o Copies("real", turn_tokens + n)
    <2>1. "real" \in {"real", "pad"}
      BY <1>1
    <2>2. /\ EndsWith(response_logprobs', "real", turn_tokens + n)
          /\ DropLast(response_logprobs', turn_tokens + n)
                = DropLast(response_logprobs, turn_tokens)
      BY <1>1, <1>2, <1>3, <2>1, AppendedCopies
    <2>3. response_logprobs' = DropLast(response_logprobs', turn_tokens + n)
                                \o Copies("real", turn_tokens + n)
      BY <1>1, <1>4, <2>1, <2>2, CopiesAtEnd
    <2> QED
      BY <2>2, <2>3
  <1> QED
    BY <1>5, <1>6, <1>7

-----------------------------------------------------------------------------
(* The steps of the partial loop.                                          *)

LEMMA NoRequestType == NoRequest \in Request
  <1>1. 0 \in 0..MaxModelLen /\ 0 \in 0..MaxCalls
    BY LengthsAssumption, TurnsAssumption
  <1> QED
    BY <1>1 DEF NoRequest, Request

LEMMA PartialInvInit == PartialInit => PartialInv
  <1> SUFFICES ASSUME PartialInit
               PROVE  PartialInv
    OBVIOUS
  <1>1. Inv
    BY InvInit DEF PartialInit
  <1>2. /\ Len(prompt_ids) = 0 /\ Len(response_mask) = 0
        /\ Len(response_logprobs) = 0
    BY EmptySeq DEF PartialInit, Init
  <1>3. PartialTypeOK
    <2>1. 0 \in 0..MaxCalls /\ 0 \in 0..MaxPauses /\ 0 \in 0..Len(response_mask)
      BY <1>2, ActorsAssumption, TurnsAssumption
    <2> QED
      BY <2>1, NoRequestType DEF PartialInit, PartialTypeOK
  <1>4. RequestRight
    BY TurnsAssumption DEF PartialInit, RequestRight, NoRequest
  <1>5. TurnRight
    BY <1>2 DEF PartialInit, TurnRight, EndsWith
  <1>6. PauseReachesAll
    BY DEF PartialInit, PauseReachesAll, NoRequest
  <1> QED
    BY <1>1, <1>3, <1>4, <1>5, <1>6 DEF PartialInv, PartialInit

\* The handlers of the plain loop run between generations.
LEMMA HandleBetweenTurns ==
    ASSUME PartialInv, Handle
    PROVE  /\ Next
           /\ UNCHANGED <<config, running, control, request, turn>>
           /\ state # "generating"
           /\ request = NoRequest /\ turn_tokens = 0 /\ written = 0
  <1>1. /\ Next
        /\ UNCHANGED <<running, control, request, turn>>
    BY DEF Handle, Next
  <1>2. state # "generating" =>
            request = NoRequest /\ turn_tokens = 0 /\ written = 0
    BY TurnsAssumption DEF PartialInv, PartialTypeOK, RequestRight, TurnRight
  <1>3. CASE \E c \in DOMAIN calls : CallTool(c)
    <2>1. PICK c \in DOMAIN calls : CallTool(c)
      BY <1>3
    <2>2. config' = config
      BY <2>1, CallToolTypes DEF PartialInv, Inv
    <2>3. calls # <<>>
      BY <2>1, EmptySeq
    <2>4. state \in {"processing_tools", "failed"}
      BY <2>3 DEF PartialInv, Inv, CallsTracked
    <2> QED
      BY <1>1, <1>2, <2>2, <2>4
  <1>4. CASE \/ Proceeds /\ (HandlePending \/ StartCalls \/ HandleInteracting)
             \/ GatherRaises \/ ToolReplyRejected \/ HandleToolReplies
             \/ Finalize
    <2>1. state # "generating" /\ config' = config
      BY <1>4
      DEF HandlePending, StartCalls, HandleInteracting, GatherRaises,
          ToolReplyRejected, HandleToolReplies, Finalize
    <2> QED
      BY <1>1, <1>2, <2>1
  <1> QED
    BY <1>3, <1>4 DEF Handle

LEMMA HandleKeeps ==
    ASSUME PartialInv, Handle
    PROVE  PartialInv'
  <1> USE DEF control, turn
  <1>1. /\ Next
        /\ UNCHANGED <<config, running, control, request, turn>>
        /\ request = NoRequest /\ turn_tokens = 0 /\ written = 0
    BY HandleBetweenTurns
  <1>2. Inv'
    BY <1>1, InvNext DEF PartialInv
  <1>3. /\ Len(prompt_ids') \in Nat /\ Len(response_mask') \in Nat
        /\ Len(response_logprobs') \in Nat
    BY <1>2, LenProperties DEF Inv, TypeOK
  <1>4. PartialTypeOK'
    BY <1>1, <1>3 DEF PartialInv, PartialTypeOK
  <1>5. RequestRight'
    BY <1>1, TurnsAssumption DEF RequestRight, NoRequest
  <1>6. TurnRight'
    BY <1>1, <1>3 DEF TurnRight, EndsWith
  <1>7. PauseReachesAll'
    BY <1>1 DEF PartialInv, PauseReachesAll
  <1> QED
    BY <1>1, <1>2, <1>4, <1>5, <1>6, <1>7 DEF PartialInv

\* A step that leaves the plain loop and the turn alone.
LEMMA LoopUntouched ==
    ASSUME PartialInv, UNCHANGED <<vars, turn>>
    PROVE  Inv' /\ TurnRight' /\ ContextLeft' = ContextLeft
  <1>1. Inv'
    BY InvNext DEF PartialInv
  <1> QED
    BY <1>1 DEF PartialInv, TurnRight, ContextLeft, vars, turn

\* The Rollouter, which interrupts and resubmits.
LEMMA RollouterKeeps ==
    ASSUME PartialInv, Interrupt \/ Resubmit
    PROVE  PartialInv'
  <1>1. /\ UNCHANGED <<vars, turn, request, cancelled, paused, synchronizing,
                       pauses>>
        /\ request = NoRequest
        /\ running' \in BOOLEAN
        /\ worker' \in Workers /\ server' \in Servers
    BY DEF Interrupt, AtHead, Resubmit, control, PartialInv, PartialTypeOK,
           RequestRight
  <1>2. Inv' /\ TurnRight' /\ ContextLeft' = ContextLeft
    BY <1>1, LoopUntouched
  <1> QED
    BY <1>1, <1>2
    DEF PartialInv, PartialTypeOK, RequestRight, PauseReachesAll, NoRequest,
        vars, turn

\* Workers and servers are told to stop and to go on.
LEMMA PauseKeeps ==
    ASSUME PartialInv, BeginPause \/ Controls
    PROVE  PartialInv'
  <1>1. ASSUME UNCHANGED <<vars, turn, running, worker, server>>,
               cancelled' \subseteq Workers, paused' \subseteq Servers,
               synchronizing' \in BOOLEAN, pauses' \in 0..MaxPauses,
               \/ request' = request
               \/ /\ request.pc = "running"
                  /\ request' = [request EXCEPT !.stop = TRUE],
               PauseReachesAll'
        PROVE  PartialInv'
    <2>1. Inv' /\ TurnRight' /\ ContextLeft' = ContextLeft
      BY <1>1, LoopUntouched
    <2>2. /\ request \in Request /\ request' \in Request
          /\ request'.pc = request.pc /\ request'.tokens = request.tokens
          /\ request'.calls = request.calls
          /\ request' = NoRequest <=> request = NoRequest
      <3>1. request \in Request
        BY DEF PartialInv, PartialTypeOK
      <3>2. CASE request' = request
        BY <3>1, <3>2
      <3>3. CASE /\ request.pc = "running"
                 /\ request' = [request EXCEPT !.stop = TRUE]
        <4>1. request' \in Request /\ request'.pc = "running"
          BY <3>1, <3>3 DEF Request
        <4>2. request # NoRequest /\ request' # NoRequest
          BY <3>3, <4>1 DEF NoRequest
        <4> QED
          BY <3>1, <3>3, <4>1, <4>2 DEF Request
      <3> QED
        BY <1>1, <3>2, <3>3
    <2>3. PartialTypeOK'
      BY <1>1, <2>2 DEF PartialInv, PartialTypeOK, vars, turn
    <2>4. RequestRight'
      BY <1>1, <2>1, <2>2 DEF PartialInv, RequestRight, vars, turn
    <2> QED
      BY <1>1, <2>1, <2>3, <2>4 DEF PartialInv, vars
  <1> USE DEF PartialInv, PartialTypeOK, PauseReachesAll
  <1>2. CASE BeginPause
    <2>1. pauses' \in 0..MaxPauses
      BY <1>2, ActorsAssumption DEF BeginPause
    <2> QED
      BY <1>1, <1>2, <2>1 DEF BeginPause
  <1>3. CASE EndPause
    BY <1>1, <1>3 DEF EndPause
  <1>4. ASSUME NEW w \in Workers, CancelWorker(w) \/ ResumeWorker(w)
        PROVE  PartialInv'
    BY <1>1, <1>4 DEF CancelWorker, ResumeWorker
  <1>5. ASSUME NEW v \in Servers, PauseServer(v)
        PROVE  PartialInv'
    <2>1. request \in Request
      OBVIOUS
    <2>2. \/ request' = request
          \/ /\ request.pc = "running"
             /\ request' = [request EXCEPT !.stop = TRUE]
      BY <1>5 DEF PauseServer
    <2>3. PauseReachesAll'
      BY <1>5, <2>1 DEF PauseServer, Request
    <2>4. /\ UNCHANGED <<vars, turn, running, worker, server, cancelled,
                         synchronizing, pauses>>
          /\ paused' \subseteq Servers
      BY <1>5 DEF PauseServer
    <2> QED
      BY <1>1, <2>2, <2>3, <2>4
  <1>6. ASSUME NEW v \in Servers, ResumeServer(v)
        PROVE  PartialInv'
    BY <1>1, <1>6 DEF ResumeServer
  <1> QED
    BY <1>2, <1>3, <1>4, <1>5, <1>6 DEF Controls

\* A request is sent, grows and is answered.
LEMMA RequestKeeps ==
    ASSUME PartialInv, Submit \/ Produce \/ FinishRequest
    PROVE  PartialInv'
  <1> USE DEF control, turn
  <1>1. UNCHANGED <<vars, running, control, turn>>
    BY DEF Submit, Produce, FinishRequest
  <1>2. Inv' /\ TurnRight' /\ ContextLeft' = ContextLeft
    BY <1>1, LoopUntouched
  <1>3. /\ request \in Request /\ NoRequest \in Request
        /\ RequestRight /\ PauseReachesAll
        /\ written \in Nat
        /\ Len(prompt_ids) \in Nat /\ MaxModelLen \in Nat
    BY NoRequestType, LengthsAssumption, LenProperties
    DEF PartialInv, PartialTypeOK, Inv, TypeOK
  <1>4. /\ request' \in Request
        /\ RequestRight'
        /\ PauseReachesAll'
    <2>1. CASE Submit
      <3>1. /\ running /\ state = "generating"
            /\ Accepts => ContextLeft > 0
            /\ request = NoRequest
            /\ request' = [NoRequest EXCEPT !.pc = IF Accepts THEN "running"
                                                   ELSE "refused"]
        BY <2>1 DEF Submit, Proceeds, AtHead
      <3>2. /\ request'.pc = IF Accepts THEN "running" ELSE "refused"
            /\ request'.tokens = 0 /\ request'.calls = 0
            /\ request' \in Request
        BY <1>3, <3>1 DEF NoRequest, Request
      <3>3. written + 0 <= MaxCalls
        BY <1>3, <3>1 DEF RequestRight, NoRequest
      <3>4. RequestRight'
        BY <1>1, <1>2, <1>3, <3>1, <3>2, <3>3 DEF RequestRight, ContextLeft, vars
      <3>5. PauseReachesAll'
        BY <1>1, <3>2 DEF PauseReachesAll, Accepts
      <3> QED
        BY <3>2, <3>4, <3>5
    <2>2. CASE Produce
      <3>1. PICK k \in {0, 1} :
                /\ written + request.calls + k <= MaxCalls
                /\ request' = [request EXCEPT !.tokens = @ + 1, !.calls = @ + k]
        BY <2>2 DEF Produce
      <3>2. request.pc = "running" /\ request.tokens < ContextLeft
        BY <2>2 DEF Produce
      <3>3. /\ request.tokens + 1 \in 0..MaxModelLen
            /\ request.tokens + 1 <= ContextLeft
            /\ request.calls + k \in 0..MaxCalls
            /\ request.calls + k <= request.tokens + 1
        <4>1. /\ request.tokens \in Nat /\ request.calls \in Nat
              /\ MaxCalls \in Nat /\ MaxModelLen \in Nat /\ written \in Nat
          BY <1>3, TurnsAssumption DEF Request
        <4>2. request.calls <= request.tokens
          BY <1>3 DEF RequestRight
        <4>3. ContextLeft \in Int /\ ContextLeft <= MaxModelLen
          BY <1>3 DEF ContextLeft
        <4>4. written + request.calls + k <= MaxCalls
          BY <3>1
        <4> QED
          BY <3>2, <4>1, <4>2, <4>3, <4>4
      <3>4. /\ request' \in Request
            /\ request'.pc = "running" /\ request'.stop = request.stop
            /\ request'.tokens = request.tokens + 1
            /\ request'.calls = request.calls + k
        BY <1>3, <3>1, <3>2, <3>3 DEF Request
      <3>5. written + (request.calls + k) <= MaxCalls
        BY <1>3, <3>1 DEF Request
      <3>6. request # NoRequest
        BY <3>2 DEF NoRequest
      <3>7. RequestRight'
        BY <1>1, <1>2, <1>3, <3>3, <3>4, <3>5, <3>6 DEF RequestRight, vars
      <3>8. PauseReachesAll'
        BY <1>1, <1>3, <3>2, <3>4 DEF PauseReachesAll
      <3> QED
        BY <3>4, <3>7, <3>8
    <2>3. CASE FinishRequest
      <3>1. /\ request.pc = "running" /\ request.tokens > 0
            /\ request' = [request EXCEPT !.pc = "finished"]
        BY <2>3 DEF FinishRequest
      <3>2. /\ request' \in Request /\ request'.pc = "finished"
            /\ request'.tokens = request.tokens
            /\ request'.calls = request.calls
        BY <1>3, <3>1 DEF Request
      <3>3. request # NoRequest
        BY <3>1 DEF NoRequest
      <3>4. RequestRight'
        BY <1>1, <1>2, <1>3, <3>1, <3>2, <3>3 DEF RequestRight, vars
      <3>5. PauseReachesAll'
        BY <3>2 DEF PauseReachesAll
      <3> QED
        BY <3>2, <3>4, <3>5
    <2> QED
      BY <2>1, <2>2, <2>3
  <1> QED
    BY <1>1, <1>2, <1>4 DEF PartialInv, PartialTypeOK, vars

\* The engine refuses a request that leaves nothing to generate.  A turn
\* that was interrupted has room left, so it is never one of those.
LEMMA SubmitRejectedKeeps ==
    ASSUME PartialInv, SubmitRejected
    PROVE  /\ PartialInv'
           /\ turn_tokens = 0
  <1> USE DEF control, turn, tokens, turns, tools
  <1>1. /\ UNCHANGED <<config, tokens, image_data, turns, tools, output,
                       running, control, request, turn>>
        /\ running /\ request = NoRequest /\ state = "generating"
        /\ state' = "failed" /\ ContextLeft <= 0
    BY DEF SubmitRejected, Proceeds, AtHead
  <1>2. Len(prompt_ids) \in Nat /\ Len(response_mask) \in Nat
    BY LenProperties DEF PartialInv, Inv, TypeOK
  <1>3. GenerateRejected
    BY <1>1, <1>2, LengthsAssumption
    DEF GenerateRejected, ContextLeft, Budget, Least
  <1>4. Inv'
    BY <1>3, InvNext DEF PartialInv, Next
  <1>5. turn_tokens = 0 /\ written = 0
    <2>1. /\ Len(prompt_ids) - Len(response_mask) <= PromptLength
          /\ turn_tokens > 0 => Len(response_mask) < ResponseLength
          /\ turn_tokens \in Nat /\ written \in Nat /\ written <= turn_tokens
      BY <1>2 DEF PartialInv, PartialTypeOK, Inv, TokensRight, LengthsBounded,
                  TurnRight
    <2> QED
      BY <1>1, <1>2, <2>1, LengthsAssumption DEF ContextLeft
  <1>6. TurnRight'
    BY <1>1, <1>5 DEF PartialInv, TurnRight
  <1> QED
    BY <1>1, <1>4, <1>5, <1>6
    DEF PartialInv, PartialTypeOK, RequestRight, PauseReachesAll, NoRequest

\* A part of a generation, or its end, has a number of tokens that the context
\* has room for.
LEMMA PartLength ==
    ASSUME PartialInv, KeepPart \/ EndTurn
    PROVE  /\ state = "generating"
           /\ request.tokens \in Nat /\ request.calls \in Nat
           /\ turn_tokens \in Nat /\ written \in Nat
           /\ request.tokens > 0 => request.tokens <= ContextLeft
           /\ EndTurn => request.tokens > 0
           /\ request.calls <= request.tokens
           /\ written + request.calls <= MaxCalls
           /\ written <= turn_tokens
  <1>1. /\ request \in Request /\ RequestRight
        /\ turn_tokens \in 0..Len(response_mask) /\ written \in 0..MaxCalls
        /\ Len(response_mask) \in Nat
    BY LenProperties DEF PartialInv, PartialTypeOK, Inv, TypeOK
  <1>2. /\ request.pc \in {"refused", "running", "finished"}
        /\ EndTurn => request.pc = "finished"
    BY DEF KeepPart, Stopped, EndTurn
  <1>3. request # NoRequest
    BY <1>2 DEF NoRequest
  <1>4. request.tokens \in Nat /\ request.calls \in Nat
    BY <1>1 DEF Request
  <1> QED
    BY <1>1, <1>2, <1>3, <1>4, TurnsAssumption
    DEF RequestRight, PartialInv, TurnRight

LEMMA KeepPartKeeps ==
    ASSUME PartialInv, KeepPart
    PROVE  PartialInv'
  <1> USE DEF control, tools
  <1> DEFINE n == request.tokens
  <1>1. /\ AppendGenerated(n) /\ request' = NoRequest
        /\ UNCHANGED <<config, image_data, user_turns, tools, output, running,
                       control>>
        /\ IF FullAfter
           THEN /\ assistant_turns' = assistant_turns + 1
                /\ state' = "terminated"
                /\ turn_tokens' = 0
                /\ written' = 0
           ELSE /\ turn_tokens' = turn_tokens + n
                /\ written' = written + request.calls
                /\ UNCHANGED <<assistant_turns, state>>
    BY DEF KeepPart
  <1>2. /\ state = "generating" /\ n \in Nat /\ request.calls \in Nat
        /\ turn_tokens \in Nat /\ written \in Nat
        /\ request.calls <= n /\ written <= turn_tokens
        /\ written + request.calls <= MaxCalls
    BY PartLength
  <1> HIDE DEF n
  <1>3. Inv'
    <2>1. /\ tool_calls' \in Nat
          /\ UNCHANGED <<config, image_data, user_turns, calls, instances,
                         output>>
      BY <1>1 DEF PartialInv, Inv, TypeOK
    <2>2. /\ Len(response_mask) \in Nat
          /\ Len(response_mask') = Len(response_mask) + n
      BY <1>1, <1>2, GenerationLengths DEF PartialInv, Inv, AppendGenerated
    <2>3. \/ /\ Len(response_mask') < ResponseLength
             /\ UNCHANGED <<assistant_turns, state>>
          \/ /\ n > 0 \/ Len(response_mask') >= ResponseLength
             /\ assistant_turns' = assistant_turns + 1
             /\ state' = "terminated"
      BY <1>1, <1>2, <2>2, LengthsAssumption DEF FullAfter
    <2> QED
      BY <1>1, <1>2, <2>1, <2>3, GenerationKeepsInv DEF PartialInv
  <1>4. /\ Len(prompt_ids') \in Nat /\ Len(response_mask') \in Nat
        /\ Len(response_logprobs') \in Nat
    BY <1>3, LenProperties DEF Inv, TypeOK
  <1>5. TurnRight'
    <2>1. CASE FullAfter
      BY <1>1, <1>4, <2>1 DEF TurnRight, EndsWith
    <2>2. CASE ~FullAfter
      <3>1. /\ turn_tokens' = turn_tokens + n /\ state' = "generating"
            /\ written' = written + request.calls
            /\ Len(response_mask') < ResponseLength
        BY <1>1, <1>2, <1>4, <2>2, LengthsAssumption DEF FullAfter
      <3>2. /\ EndsWith(prompt_ids', "generated", turn_tokens')
            /\ EndsWith(response_mask', 1, turn_tokens')
            /\ EndsWith(response_logprobs', "real", turn_tokens')
        BY <1>1, <1>2, <3>1, TurnGrows
      <3> QED
        BY <1>2, <3>1, <3>2 DEF TurnRight
    <2> QED
      BY <2>1, <2>2
  <1>6. PartialTypeOK' /\ written' + 0 <= MaxCalls
    <2>1. turn_tokens' \in 0..Len(response_mask')
      BY <1>1, <1>2, <1>4, <1>5 DEF TurnRight, EndsWith
    <2>2. written' \in 0..MaxCalls /\ written' + 0 <= MaxCalls
      BY <1>1, <1>2, TurnsAssumption
    <2>3. request' \in Request
      BY <1>1, NoRequestType
    <2> QED
      BY <1>1, <2>1, <2>2, <2>3
      DEF PartialInv, PartialTypeOK
  <1>7. RequestRight' /\ PauseReachesAll'
    BY <1>1, <1>6 DEF RequestRight, PauseReachesAll, NoRequest
  <1> QED
    BY <1>1, <1>3, <1>5, <1>6, <1>7 DEF PartialInv

LEMMA EndTurnKeeps ==
    ASSUME PartialInv, EndTurn
    PROVE  PartialInv'
  <1> USE DEF control
  <1> DEFINE n == request.tokens
  <1>1. /\ AppendGenerated(n) /\ request' = NoRequest
        /\ assistant_turns' = assistant_turns + 1
        /\ IF GenerationEnds(response_mask', assistant_turns')
           THEN state' = "terminated" /\ UNCHANGED tool_calls
           ELSE /\ tool_calls' = request.calls
                /\ state' = StateAfterGeneration(request.calls)
        /\ turn_tokens' = 0 /\ written' = 0
        /\ UNCHANGED <<config, image_data, user_turns, calls, instances, output,
                       running, control>>
    BY DEF EndTurn
  <1>2. /\ state = "generating" /\ n \in Nat /\ n > 0
        /\ request.calls \in Nat
    BY PartLength
  <1> HIDE DEF n
  <1>3. Inv'
    <2>1. /\ tool_calls' \in Nat
          /\ \/ state' = "terminated"
             \/ /\ ~GenerationEnds(response_mask', assistant_turns')
                /\ state' = StateAfterGeneration(tool_calls')
      BY <1>1, <1>2 DEF PartialInv, Inv, TypeOK
    <2> QED
      BY <1>1, <1>2, <2>1, GenerationKeepsInv DEF PartialInv
  <1>4. /\ Len(prompt_ids') \in Nat /\ Len(response_mask') \in Nat
        /\ Len(response_logprobs') \in Nat
    BY <1>3, LenProperties DEF Inv, TypeOK
  <1>5. TurnRight'
    BY <1>1, <1>4 DEF TurnRight, EndsWith
  <1>6. PartialTypeOK'
    BY <1>1, <1>4, NoRequestType, TurnsAssumption DEF PartialInv, PartialTypeOK
  <1>7. RequestRight' /\ PauseReachesAll'
    BY <1>1, TurnsAssumption DEF RequestRight, PauseReachesAll, NoRequest
  <1> QED
    BY <1>1, <1>3, <1>5, <1>6, <1>7 DEF PartialInv

LEMMA PartialInvNext == PartialInv /\ [PartialNext]_partialVars => PartialInv'
  <1> SUFFICES ASSUME PartialInv, [PartialNext]_partialVars
               PROVE  PartialInv'
    OBVIOUS
  <1>1. CASE Interrupt \/ Resubmit
    BY <1>1, RollouterKeeps
  <1>2. CASE Handle
    BY <1>2, HandleKeeps
  <1>3. CASE Submit \/ Produce \/ FinishRequest
    BY <1>3, RequestKeeps
  <1>4. CASE SubmitRejected
    BY <1>4, SubmitRejectedKeeps
  <1>5. CASE KeepPart
    BY <1>5, KeepPartKeeps
  <1>6. CASE EndTurn
    BY <1>6, EndTurnKeeps
  <1>7. CASE BeginPause \/ Controls
    BY <1>7, PauseKeeps
  <1>8. CASE UNCHANGED partialVars
    <2>1. UNCHANGED <<vars, turn, request, running, worker, server, cancelled,
                      paused, synchronizing, pauses>>
      BY <1>8 DEF partialVars, control
    <2>2. Inv' /\ TurnRight' /\ ContextLeft' = ContextLeft
      BY <2>1, LoopUntouched
    <2> QED
      BY <2>1, <2>2
      DEF PartialInv, PartialTypeOK, RequestRight, PauseReachesAll, vars, turn
  <1> QED
    BY <1>1, <1>2, <1>3, <1>4, <1>5, <1>6, <1>7, <1>8 DEF PartialNext, Loops

LEMMA PartialInvariance == PartialSpec => []PartialInv
  BY PartialInvInit, PartialInvNext, PTL DEF PartialSpec

-----------------------------------------------------------------------------
(* What holds of the plain loop holds of the interrupted one.              *)

\* What the partial loop adds to the plain one keeps its types.
THEOREM PartialTypes == PartialSpec => []PartialTypeOK
  <1>1. PartialInv => PartialTypeOK
    BY DEF PartialInv
  <1> QED
    BY <1>1, PartialInvariance, PTL

\* While a server is paused, the generation that runs on it, if any, has been
\* told to stop, whenever its request arrived.
THEOREM PartialPauseReachesAll == PartialSpec => []PauseReachesAll
  <1>1. PartialInv => PauseReachesAll
    BY DEF PartialInv
  <1> QED
    BY <1>1, PartialInvariance, PTL

\* However often it is interrupted, a trajectory trains the policy on the
\* tokens it generated and on no other.
THEOREM PartialMasksEnvironment == PartialSpec => []MaskMarksGenerated
  <1>1. PartialInv => MaskMarksGenerated
    BY DEF PartialInv, Inv, TokensRight
  <1> QED
    BY <1>1, PartialInvariance, PTL

\* The log-probabilities of the parts of a generation, each of other weights,
\* stay beside the tokens they were computed for.
THEOREM PartialLogprobsFollowMask == PartialSpec => []LogprobsFollowMask
  <1>1. PartialInv => LogprobsFollowMask
    BY DEF PartialInv, Inv, TokensRight
  <1> QED
    BY <1>1, PartialInvariance, PTL

\* Interruptions add nothing to what may hold an instance: a call that is
\* going to release it or that raised, and none once the trajectory has gone
\* on without failing, on whichever worker it goes on.
THEOREM PartialReleasesInstances == PartialSpec => []NoLeakedInstance
  <1>1. PartialInv => NoLeakedInstance
    BY EmptySeq DEF PartialInv, Inv, CallsTracked, NoLeakedInstance
  <1> QED
    BY <1>1, PartialInvariance, PTL

\* The result of an interrupted trajectory is split and cut like that of any
\* other.
THEOREM PartialOutputFaithful == PartialSpec => []OutputFaithful
  <1>1. PartialInv => OutputFaithful
    BY DEF PartialInv, Inv, ResultRight
  <1> QED
    BY <1>1, PartialInvariance, PTL

-----------------------------------------------------------------------------
(* The partial loop implements the plain one.                              *)

\* The operators of the two do not depend on the tokens.
LEMMA SameOperators ==
    /\ \A x, n : Loop!Copies(x, n) = Copies(x, n)
    /\ \A a, b : Loop!Least(a, b) = Least(a, b)
    /\ \A text, t, images, u :
            Loop!Encode(text, t, images, u) = Encode(text, t, images, u)
    /\ \A s, n : /\ Loop!DropLast(s, n) = DropLast(s, n)
                 /\ Loop!LastOf(s, n) = LastOf(s, n)
                 /\ Loop!FirstOf(s, n) = FirstOf(s, n)
    /\ \A t : Loop!MaskOf(t) = MaskOf(t)
    /\ Loop!NewImages = NewImages
    /\ Loop!PlaceholdersOf(Loop!ImageCalls) = PlaceholdersOf(ImageCalls)
    /\ Loop!CallsDone <=> CallsDone
    /\ \A r : Loop!Unsupported(r) <=> Unsupported(r)
    /\ \A k : Loop!StateAfterGeneration(k) = StateAfterGeneration(k)
    /\ Loop!ToolReply = ToolReply
    /\ Loop!NoReply = NoReply /\ Loop!ErrorReply = ErrorReply
    /\ Loop!NoOutput = NoOutput
  <1>1. \A x, n : Loop!Copies(x, n) = Copies(x, n)
    BY DEF Loop!Copies, Copies
  <1>2. \A a, b : Loop!Least(a, b) = Least(a, b)
    BY DEF Loop!Least, Least
  <1>3. \A text, t, images, u :
            Loop!Encode(text, t, images, u) = Encode(text, t, images, u)
    BY DEF Loop!Encode, Encode
  <1>4. \A s, n : /\ Loop!DropLast(s, n) = DropLast(s, n)
                  /\ Loop!LastOf(s, n) = LastOf(s, n)
                  /\ Loop!FirstOf(s, n) = FirstOf(s, n)
    BY <1>2 DEF Loop!DropLast, DropLast, Loop!LastOf, LastOf, Loop!FirstOf,
                FirstOf
  <1>5. \A t : Loop!MaskOf(t) = MaskOf(t)
    BY <1>1 DEF Loop!MaskOf, MaskOf
  <1>6. \A S : Loop!Cardinality(S) = Cardinality(S)
    BY DEF Loop!Cardinality, Cardinality
  <1>7. Loop!NewImages = NewImages
    BY <1>6, Zenon DEF Loop!NewImages, NewImages
  <1>8. Loop!PlaceholdersOf(Loop!ImageCalls) = PlaceholdersOf(ImageCalls)
    BY <1>6, Zenon DEF Loop!PlaceholdersOf, PlaceholdersOf, Loop!ImageCalls, ImageCalls
  <1>9. /\ Loop!CallsDone <=> CallsDone
        /\ \A r : Loop!Unsupported(r) <=> Unsupported(r)
        /\ \A k : Loop!StateAfterGeneration(k) = StateAfterGeneration(k)
    BY DEF Loop!CallsDone, CallsDone, Loop!Unsupported, Unsupported,
           Loop!StateAfterGeneration, StateAfterGeneration
  <1>10. /\ Loop!NoReply = NoReply /\ Loop!ErrorReply = ErrorReply
        /\ Loop!NoOutput = NoOutput
    BY DEF Loop!NoReply, NoReply, Loop!ErrorReply, ErrorReply, Loop!NoOutput,
           NoOutput
  <1>11. Loop!ToolReply = ToolReply
    BY <1>10, Zenon DEF Loop!ToolReply, ToolReply
  <1> QED
    BY <1>1, <1>2, <1>3, <1>4, <1>5, <1>7, <1>8, <1>9,
       <1>10, <1>11

\* When no turn is unfinished the two loops have the same tokens.
LEMMA SameTokens ==
    ASSUME PartialInv, turn_tokens = 0
    PROVE  /\ DropLast(prompt_ids, turn_tokens) = prompt_ids
           /\ DropLast(response_mask, turn_tokens) = response_mask
           /\ DropLast(response_logprobs, turn_tokens) = response_logprobs
  <1>1. /\ prompt_ids \in Seq(Token) /\ "generated" \in Token
        /\ response_mask \in Seq({0, 1}) /\ 1 \in {0, 1}
        /\ response_logprobs \in Seq({"real", "pad"})
        /\ "real" \in {"real", "pad"}
    BY DEF PartialInv, Inv, TypeOK, Token
  <1>2. DropLast(prompt_ids, 0) = prompt_ids
    BY <1>1, NoCopies
  <1>3. DropLast(response_mask, 0) = response_mask
    BY <1>1, NoCopies
  <1>4. DropLast(response_logprobs, 0) = response_logprobs
    BY <1>1, NoCopies
  <1> QED
    BY <1>2, <1>3, <1>4

\* The handlers of the two loops are the same when no turn is unfinished.
LEMMA HandlersMap ==
    ASSUME PartialInv, PartialInv', turn_tokens = 0, turn_tokens' = 0,
           state # "generating", Next
    PROVE  Loop!Next
  <1> DEFINE ids == DropLast(prompt_ids, turn_tokens)
             mask == DropLast(response_mask, turn_tokens)
             logprobs == DropLast(response_logprobs, turn_tokens)
  <1>1. ids = prompt_ids /\ mask = response_mask /\ logprobs = response_logprobs
    BY SameTokens
  <1>2. /\ ids' = prompt_ids' /\ mask' = response_mask'
        /\ logprobs' = response_logprobs'
    <2>1. (/\ PartialInv
           /\ turn_tokens = 0
             => /\ DropLast(prompt_ids, turn_tokens) = prompt_ids
                /\ DropLast(response_mask, turn_tokens) = response_mask
                /\ DropLast(response_logprobs, turn_tokens)
                        = response_logprobs)'
      BY SameTokens, PTL
    <2> QED
      BY <2>1
  <1> USE <1>1, <1>2 DEF tokens, turns, tools, Loop!tokens, Loop!turns, Loop!tools
  <1>3. CASE HandlePending
    <2>1. PICK text \in 1..PromptLength :
            /\ text + image_data <= PromptLength
            /\ prompt_ids' = Encode(text, "prompt", image_data, "prompt_image")
      BY <1>3 DEF HandlePending
    <2>2. /\ text \in 1..(MaxModelLen - ResponseLength)
          /\ text + image_data <= MaxModelLen - ResponseLength
      BY <2>1, LengthsAssumption DEF PartialInv, Inv, TypeOK
    <2>3. ids' = Loop!Encode(text, "prompt", image_data, "prompt_image")
      BY <2>1, SameOperators
    <2> QED
      BY <1>3, <2>2, <2>3 DEF HandlePending, Loop!HandlePending, Loop!Next
  <1>4. CASE StartCalls
    BY <1>4, SameOperators DEF StartCalls, Loop!StartCalls, Loop!Next
  <1>5. ASSUME NEW c \in DOMAIN calls, CallTool(c)
        PROVE  Loop!Next
    <2>1. Loop!CallTool(c)
      <3>1. CASE CreateTool(c)
        BY <3>1, SameOperators DEF CreateTool, Loop!CreateTool, Loop!CallTool
      <3>2. CASE ExecuteTool(c)
        BY <3>2, SameOperators DEF ExecuteTool, Loop!ExecuteTool, Loop!CallTool
      <3>3. CASE ReleaseTool(c)
        BY <3>3
        DEF ReleaseTool, LeftOnRelease, PcAfterRelease, Loop!ReleaseTool,
            Loop!LeftOnRelease, Loop!PcAfterRelease, Loop!CallTool
      <3> QED
        BY <1>5, <3>1, <3>2, <3>3 DEF CallTool
    <2> QED
      BY <2>1 DEF Loop!Next
  <1>6. CASE ToolReplyRejected \/ GatherRaises
    BY <1>6, SameOperators
    DEF ToolReplyRejected, GatherRaises, Loop!ToolReplyRejected,
        Loop!GatherRaises, Loop!Next
  <1>7. ASSUME NEW t, AppendEnvironment(t)
        PROVE  Loop!AppendEnvironment(t)
    BY <1>7, SameOperators
    DEF AppendEnvironment, FillerOf, Loop!AppendEnvironment, Loop!FillerOf
  <1>8. CASE HandleToolReplies
    <2>1. PICK text \in 1..MaxTurnText :
            LET t == Encode(text, "env", PlaceholdersOf(ImageCalls),
                            "env_image")
            IN  IF Overflows(t)
                THEN /\ state' = "terminated"
                     /\ UNCHANGED <<tokens, image_data, user_turns>>
                ELSE /\ state' = "generating"
                     /\ AppendEnvironment(t)
                     /\ image_data' = image_data + NewImages
                     /\ user_turns' = user_turns + 1
      BY <1>8 DEF HandleToolReplies
    <2> DEFINE t == Encode(text, "env", PlaceholdersOf(ImageCalls), "env_image")
    <2>2. /\ t = Loop!Encode(text, "env",
                             Loop!PlaceholdersOf(Loop!ImageCalls), "env_image")
          /\ Loop!Overflows(t) <=> Overflows(t)
      BY SameOperators DEF Overflows, Loop!Overflows
    <2>3. IF Loop!Overflows(t)
          THEN /\ state' = "terminated"
               /\ UNCHANGED <<Loop!tokens, image_data, user_turns>>
          ELSE /\ state' = "generating"
               /\ Loop!AppendEnvironment(t)
               /\ image_data' = image_data + Loop!NewImages
               /\ user_turns' = user_turns + 1
      <3>1. CASE Overflows(t)
        BY <2>1, <2>2, <3>1
      <3>2. CASE ~Overflows(t)
        <4>1. AppendEnvironment(t)
          BY <2>1, <3>2
        <4>2. Loop!AppendEnvironment(t)
          BY <1>7, <4>1
        <4> QED
          BY <2>1, <2>2, <3>2, <4>2, SameOperators
      <3> QED
        BY <3>1, <3>2
    <2>4. /\ state = "processing_tools" /\ Loop!CallsDone
          /\ \A c \in DOMAIN calls : ~Loop!Unsupported(calls[c].reply)
          /\ calls' = <<>>
          /\ UNCHANGED <<config, assistant_turns, tool_calls, instances, output>>
      BY <1>8, SameOperators DEF HandleToolReplies
    <2> HIDE DEF t
    <2>5. Loop!HandleToolReplies
      BY <2>2, <2>3, <2>4 DEF Loop!HandleToolReplies
    <2> QED
      BY <2>5 DEF Loop!Next
  <1>9. CASE HandleInteracting
    <2>1. PICK text \in 1..MaxTurnText :
            AppendEnvironment(Encode(text, "env", 0, "env_image"))
      BY <1>9 DEF HandleInteracting
    <2>2. Loop!AppendEnvironment(Loop!Encode(text, "env", 0, "env_image"))
      BY <1>7, <2>1, SameOperators
    <2> QED
      BY <1>9, <2>2 DEF HandleInteracting, Loop!HandleInteracting, Loop!Next
  <1>10. CASE Finalize
    BY <1>10, SameOperators DEF Finalize, Loop!Finalize, Loop!Next
  <1> QED
    BY <1>3, <1>4, <1>5, <1>6, <1>8, <1>9, <1>10
    DEF Next, GenerateRejected, HandleGenerating

\* The two loops know the same when neither tokens nor handlers move.
LEMMA UntouchedMaps ==
    ASSUME UNCHANGED <<vars, turn>>
    PROVE  UNCHANGED Loop!vars
  BY DEF vars, turn, Loop!vars

\* A request that is refused for its length.
LEMMA RejectedMaps ==
    ASSUME PartialInv, SubmitRejected
    PROVE  Loop!Next
  <1> USE DEF tokens, turns, tools, turn
  <1>1. turn_tokens = 0
    BY SubmitRejectedKeeps
  <1>2. /\ DropLast(prompt_ids, turn_tokens) = prompt_ids
        /\ Len(prompt_ids) \in Nat
    BY <1>1, SameTokens, LenProperties DEF PartialInv, Inv, TypeOK
  <1>3. Loop!Budget = 0
    BY <1>2, LengthsAssumption
    DEF SubmitRejected, ContextLeft, Loop!Budget, Loop!Least
  <1>4. /\ state = "generating" /\ state' = "failed"
        /\ UNCHANGED <<config, prompt_ids, response_mask, response_logprobs,
                       image_data, assistant_turns, user_turns, tool_calls,
                       calls, instances, output, turn_tokens>>
    BY DEF SubmitRejected
  <1>5. Loop!GenerateRejected
    BY <1>3, <1>4
    DEF Loop!GenerateRejected, Loop!tokens, Loop!turns, Loop!tools
  <1> QED
    BY <1>5 DEF Loop!Next

\* The generation of the plain loop that ends a turn of n tokens, of which
\* turn_tokens were appended before.
LEMMA GenerationMaps ==
    ASSUME PartialInv, PartialInv', state = "generating", NEW n \in Nat,
           turn_tokens + n > 0, n <= ContextLeft \/ n = 0,
           AppendGenerated(n), turn_tokens' = 0,
           assistant_turns' = assistant_turns + 1,
           IF GenerationEnds(response_mask', assistant_turns')
           THEN state' = "terminated" /\ UNCHANGED tool_calls
           ELSE /\ tool_calls' \in 0..MaxCalls
                /\ state' = StateAfterGeneration(tool_calls'),
           UNCHANGED <<config, image_data, user_turns, calls, instances, output>>
    PROVE  Loop!Next
  <1> DEFINE ids == DropLast(prompt_ids, turn_tokens)
             mask == DropLast(response_mask, turn_tokens)
             logprobs == DropLast(response_logprobs, turn_tokens)
             m == turn_tokens + n
  <1>1. /\ ids' = prompt_ids' /\ mask' = response_mask'
        /\ logprobs' = response_logprobs'
    <2>1. (/\ PartialInv
           /\ turn_tokens = 0
             => /\ DropLast(prompt_ids, turn_tokens) = prompt_ids
                /\ DropLast(response_mask, turn_tokens) = response_mask
                /\ DropLast(response_logprobs, turn_tokens)
                        = response_logprobs)'
      BY SameTokens, PTL
    <2> QED
      BY <2>1
  <1>2. /\ ids' = ids \o Loop!Copies("generated", m)
        /\ mask' = mask \o Loop!Copies(1, m)
        /\ logprobs' = logprobs \o Loop!Copies("real", m)
    BY <1>1, TurnGrows, SameOperators
  <1>3. /\ turn_tokens \in Nat /\ Len(prompt_ids) \in Nat
        /\ turn_tokens <= Len(prompt_ids)
        /\ Len(ids) = Len(prompt_ids) - turn_tokens
        /\ turn_tokens > 0 => Len(prompt_ids) < MaxModelLen
    <2>1. /\ turn_tokens \in Nat /\ Len(prompt_ids) \in Nat
          /\ Len(response_mask) \in Nat
          /\ prompt_ids \in Seq(Token)
      BY LenProperties DEF PartialInv, PartialTypeOK, Inv, TypeOK
    <2>2. turn_tokens <= Len(prompt_ids)
      BY DEF PartialInv, TurnRight, EndsWith
    <2>3. Len(ids) = Len(prompt_ids) - turn_tokens
      BY <2>1, <2>2, SliceProperties
    <2>4. /\ Len(prompt_ids) - Len(response_mask) <= PromptLength
          /\ turn_tokens > 0 => Len(response_mask) < ResponseLength
      BY DEF PartialInv, Inv, TokensRight, LengthsBounded, TurnRight
    <2> QED
      BY <2>1, <2>2, <2>3, <2>4, LengthsAssumption
  <1>4. /\ Len(ids) <= MaxModelLen
        /\ Loop!Budget = MaxModelLen - Len(ids)
        /\ m \in 1..Loop!Budget
        /\ m # 0
    <2>1. /\ m \in Nat /\ m > 0
          /\ m <= MaxModelLen - Len(ids)
      BY <1>3, LengthsAssumption DEF ContextLeft
    <2>2. Loop!Budget = MaxModelLen - Len(ids)
      BY <1>3, <2>1, LengthsAssumption DEF Loop!Budget, Loop!Least
    <2> QED
      BY <1>3, <2>1, <2>2, LengthsAssumption
  <1>5. Loop!GenerationEnds(mask', assistant_turns')
            <=> GenerationEnds(response_mask', assistant_turns')
    BY <1>1 DEF Loop!GenerationEnds, GenerationEnds
  <1>6. \A k : Loop!StateAfterGeneration(k) = StateAfterGeneration(k)
    BY SameOperators
  <1>7. config.logprobs /\ m \in IF Loop!Budget = 0 THEN {0} ELSE 1..Loop!Budget
    BY <1>4 DEF PartialInv
  <1>8. IF Loop!GenerationEnds(mask', assistant_turns')
        THEN state' = "terminated" /\ UNCHANGED tool_calls
        ELSE \E k \in IF m = 0 THEN {0} ELSE 0..MaxCalls :
                tool_calls' = k /\ state' = Loop!StateAfterGeneration(k)
    BY <1>4, <1>5, <1>6
  <1> HIDE DEF ids, mask, logprobs, m
  <1>9. \E k \in IF Loop!Budget = 0 THEN {0} ELSE 1..Loop!Budget :
            /\ ids' = ids \o Loop!Copies("generated", k)
            /\ mask' = mask \o Loop!Copies(1, k)
            /\ logprobs' = IF config.logprobs
                           THEN logprobs \o Loop!Copies("real", k)
                           ELSE logprobs
            /\ assistant_turns' = assistant_turns + 1
            /\ IF Loop!GenerationEnds(mask', assistant_turns')
               THEN state' = "terminated" /\ UNCHANGED tool_calls
               ELSE \E c \in IF k = 0 THEN {0} ELSE 0..MaxCalls :
                        tool_calls' = c /\ state' = Loop!StateAfterGeneration(c)
    BY <1>2, <1>7, <1>8
  <1>10. Loop!HandleGenerating
    BY <1>4, <1>9 DEF Loop!HandleGenerating, ids, mask, logprobs
  <1> QED
    BY <1>10 DEF Loop!Next

\* A part of a turn changes nothing the plain loop sees, unless it ends the
\* response.
LEMMA KeepPartMaps ==
    ASSUME PartialInv, PartialInv', KeepPart
    PROVE  Loop!Next \/ EndsFull \/ UNCHANGED Loop!vars
  <1> USE DEF tools
  <1> DEFINE n == request.tokens
  <1>1. /\ AppendGenerated(n)
        /\ UNCHANGED <<config, image_data, user_turns, tool_calls, calls,
                       instances, output>>
        /\ IF FullAfter
           THEN /\ assistant_turns' = assistant_turns + 1
                /\ state' = "terminated"
                /\ turn_tokens' = 0
           ELSE /\ turn_tokens' = turn_tokens + n
                /\ UNCHANGED <<assistant_turns, state>>
    BY DEF KeepPart
  <1>2. /\ state = "generating" /\ n \in Nat /\ turn_tokens \in Nat
        /\ n <= ContextLeft \/ n = 0
    BY PartLength
  <1> HIDE DEF n
  <1>3. CASE ~FullAfter
    <2>1. /\ DropLast(prompt_ids', turn_tokens')
                = DropLast(prompt_ids, turn_tokens)
          /\ DropLast(response_mask', turn_tokens')
                = DropLast(response_mask, turn_tokens)
          /\ DropLast(response_logprobs', turn_tokens')
                = DropLast(response_logprobs, turn_tokens)
      BY <1>1, <1>2, <1>3, TurnGrows
    <2> QED
      BY <1>1, <1>3, <2>1 DEF Loop!vars
  <1>4. CASE FullAfter /\ turn_tokens + n > 0
    <2>1. GenerationEnds(response_mask', assistant_turns')
      BY <1>4 DEF GenerationEnds, FullAfter
    <2> QED
      BY <1>1, <1>2, <1>4, <2>1, GenerationMaps
  <1>5. CASE FullAfter /\ turn_tokens + n = 0
    <2>1. n = 0 /\ turn_tokens = 0
      BY <1>2, <1>5
    <2>2. /\ prompt_ids \in Seq(Token) /\ "generated" \in Token
          /\ response_mask \in Seq({0, 1}) /\ 1 \in {0, 1}
          /\ response_logprobs \in Seq({"real", "pad"})
          /\ "real" \in {"real", "pad"}
      BY DEF PartialInv, Inv, TypeOK, Token
    <2>3. prompt_ids' = prompt_ids
      BY <1>1, <2>1, <2>2, NoCopies DEF AppendGenerated
    <2>4. response_mask' = response_mask
      BY <1>1, <2>1, <2>2, NoCopies DEF AppendGenerated
    <2>5. response_logprobs' = response_logprobs
      BY <1>1, <2>1, <2>2, NoCopies DEF AppendGenerated
    <2>6. EndsFull
      BY <1>1, <1>2, <1>5, <2>3, <2>4, <2>5 DEF EndsFull, FullAfter, tokens
    <2> QED
      BY <2>6
  <1> QED
    BY <1>2, <1>3, <1>4, <1>5

LEMMA EndTurnMaps ==
    ASSUME PartialInv, PartialInv', EndTurn
    PROVE  Loop!Next
  <1> DEFINE n == request.tokens
  <1>1. /\ AppendGenerated(n) /\ turn_tokens' = 0
        /\ assistant_turns' = assistant_turns + 1
        /\ IF GenerationEnds(response_mask', assistant_turns')
           THEN state' = "terminated" /\ UNCHANGED tool_calls
           ELSE /\ tool_calls' = request.calls
                /\ state' = StateAfterGeneration(request.calls)
        /\ UNCHANGED <<config, image_data, user_turns, calls, instances, output>>
    BY DEF EndTurn
  <1>2. /\ state = "generating" /\ n \in Nat /\ turn_tokens + n > 0
        /\ n <= ContextLeft
        /\ request.calls \in 0..MaxCalls
    BY PartLength, TurnsAssumption
  <1> QED
    BY <1>1, <1>2, GenerationMaps

\* However often it is interrupted, and wherever it is resumed, a trajectory
\* is one the plain loop could produce in one go.
THEOREM PartialImplementsLoop == PartialSpec => LoopSpec
  <1>1. PartialInit => Loop!Init
    <2> SUFFICES ASSUME PartialInit
                 PROVE  Loop!Init
      OBVIOUS
    <2>1. /\ DropLast(prompt_ids, turn_tokens) = prompt_ids
          /\ DropLast(response_mask, turn_tokens) = response_mask
          /\ DropLast(response_logprobs, turn_tokens) = response_logprobs
      BY PartialInvInit, SameTokens DEF PartialInit
    <2> QED
      BY <2>1
      DEF PartialInit, Init, Loop!Init, Config, Loop!Config, NoOutput,
          Loop!NoOutput
  <1>2. PartialInv /\ PartialInv' /\ [PartialNext]_partialVars
            => [Loop!Next \/ EndsFull]_(Loop!vars)
    <2> SUFFICES ASSUME PartialInv, PartialInv', [PartialNext]_partialVars
                 PROVE  Loop!Next \/ EndsFull \/ UNCHANGED Loop!vars
      OBVIOUS
    <2>1. CASE Handle
      <3>1. /\ Next /\ UNCHANGED turn /\ state # "generating"
            /\ turn_tokens = 0
        BY <2>1, HandleBetweenTurns
      <3> QED
        BY <3>1, HandlersMap DEF turn
    <2>2. CASE SubmitRejected
      BY <2>2, RejectedMaps
    <2>3. CASE KeepPart
      BY <2>3, KeepPartMaps
    <2>4. CASE EndTurn
      BY <2>4, EndTurnMaps
    <2>5. CASE \/ Interrupt \/ Resubmit \/ Submit \/ Produce \/ FinishRequest
               \/ BeginPause \/ Controls \/ UNCHANGED partialVars
      <3>1. UNCHANGED <<vars, turn>>
        BY <2>5
        DEF Interrupt, Resubmit, Submit, Produce, FinishRequest, BeginPause,
            Controls, EndPause, CancelWorker, ResumeWorker, PauseServer,
            ResumeServer, partialVars
      <3> QED
        BY <3>1, UntouchedMaps
    <2> QED
      BY <2>1, <2>2, <2>3, <2>4, <2>5 DEF PartialNext, Loops
  <1> QED
    BY <1>1, <1>2, PartialInvariance, PTL DEF PartialSpec, LoopSpec
=============================================================================
