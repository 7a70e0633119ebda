------------------------ MODULE ToolAgentLoopProofs ------------------------
(***************************************************************************)
(* Proofs about ToolAgentLoop, for every length, turn limit and bound of   *)
(* the environment.                                                        *)
(***************************************************************************)
EXTENDS ToolAgentLoop, SequenceTheorems, FiniteSetTheorems, TLAPS

-----------------------------------------------------------------------------
(* The sequences a turn is made of.                                        *)

\* A function on 1..n is a sequence of length n.
LEMMA SeqIntro ==
    ASSUME NEW S, NEW n \in Nat, NEW f \in [1..n -> S]
    PROVE  f \in Seq(S) /\ Len(f) = n
  <1>1. f \in Seq(S)
    BY SeqDef
  <1>2. DOMAIN f = 1..n /\ DOMAIN f = 1..Len(f) /\ Len(f) \in Nat
    BY <1>1, LenProperties
  <1> QED
    BY <1>1, <1>2

\* Copies(x, n) is x repeated n times.
LEMMA CopiesProperties ==
    ASSUME NEW x, NEW n \in Nat, NEW S, x \in S
    PROVE  /\ Copies(x, n) \in Seq(S)
           /\ Len(Copies(x, n)) = n
           /\ \A i \in 1..n : Copies(x, n)[i] = x
  <1>1. Copies(x, n) \in [1..n -> S]
    BY DEF Copies
  <1>2. \A i \in 1..n : Copies(x, n)[i] = x
    BY DEF Copies
  <1> QED
    BY <1>1, <1>2, SeqIntro

\* Encode makes a sequence of text and image tokens.
LEMMA EncodeProperties ==
    ASSUME NEW text \in Nat, NEW images \in Nat,
           NEW t \in Token, NEW u \in Token
    PROVE  /\ Encode(text, t, images, u) \in Seq(Token)
           /\ Len(Encode(text, t, images, u)) = text + images
           /\ \A i \in 1..(text + images) : Encode(text, t, images, u)[i] \in {t, u}
  <1>1. text + images \in Nat
    OBVIOUS
  <1>2. /\ Encode(text, t, images, u) \in [1..(text + images) -> Token]
        /\ \A i \in 1..(text + images) : Encode(text, t, images, u)[i] \in {t, u}
    BY DEF Encode
  <1> QED
    BY <1>1, <1>2, SeqIntro

\* The slices of Finalize.
LEMMA SliceProperties ==
    ASSUME NEW S, NEW s \in Seq(S), NEW n \in Nat, n <= Len(s)
    PROVE  /\ DropLast(s, n) \in Seq(S)
           /\ Len(DropLast(s, n)) = Len(s) - n
           /\ \A i \in 1..(Len(s) - n) : DropLast(s, n)[i] = s[i]
           /\ LastOf(s, n) \in Seq(S)
           /\ n # 0 => /\ Len(LastOf(s, n)) = n
                       /\ \A i \in 1..n : LastOf(s, n)[i] = s[Len(s) - n + i]
  <1>1. Len(s) \in Nat /\ \A i \in 1..Len(s) : s[i] \in S
    BY LenProperties, ElementOfSeq
  <1>2. /\ DropLast(s, n) \in Seq(S)
        /\ Len(DropLast(s, n)) = Len(s) - n
        /\ \A i \in 1..(Len(s) - n) : DropLast(s, n)[i] = s[i]
    <2>1. \A i \in 1..(Len(s) - n) : s[i] \in S
      BY <1>1
    <2>2. /\ SubSeq(s, 1, Len(s) - n) \in Seq(S)
          /\ Len(SubSeq(s, 1, Len(s) - n))
                = IF 1 <= Len(s) - n THEN Len(s) - n - 1 + 1 ELSE 0
          /\ \A i \in 1..(Len(s) - n - 1 + 1) :
                SubSeq(s, 1, Len(s) - n)[i] = s[1 + i - 1]
      BY <1>1, <2>1, SubSeqProperties
    <2> QED
      BY <1>1, <2>2 DEF DropLast
  <1>3. CASE n = 0
    BY <1>2, <1>3 DEF LastOf
  <1>4. CASE n # 0
    <2>1. \A i \in (Len(s) - n + 1)..Len(s) : s[i] \in S
      BY <1>1
    <2>2. /\ SubSeq(s, Len(s) - n + 1, Len(s)) \in Seq(S)
          /\ Len(SubSeq(s, Len(s) - n + 1, Len(s)))
                = IF Len(s) - n + 1 <= Len(s)
                  THEN Len(s) - (Len(s) - n + 1) + 1 ELSE 0
          /\ \A i \in 1..(Len(s) - (Len(s) - n + 1) + 1) :
                SubSeq(s, Len(s) - n + 1, Len(s))[i]
                    = s[Len(s) - n + 1 + i - 1]
      BY <1>1, <2>1, SubSeqProperties
    <2> QED
      BY <1>1, <1>2, <1>4, <2>2 DEF LastOf
  <1> QED
    BY <1>3, <1>4

LEMMA FirstOfProperties ==
    ASSUME NEW S, NEW s \in Seq(S), NEW n \in Nat
    PROVE  /\ FirstOf(s, n) \in Seq(S)
           /\ Len(FirstOf(s, n)) = Least(n, Len(s))
           /\ \A i \in 1..Least(n, Len(s)) : FirstOf(s, n)[i] = s[i]
  <1>1. /\ Len(s) \in Nat /\ \A i \in 1..Len(s) : s[i] \in S
        /\ Least(n, Len(s)) \in Nat /\ Least(n, Len(s)) <= Len(s)
    BY LenProperties, ElementOfSeq DEF Least
  <1>2. \A i \in 1..Least(n, Len(s)) : s[i] \in S
    BY <1>1
  <1>3. /\ SubSeq(s, 1, Least(n, Len(s))) \in Seq(S)
        /\ Len(SubSeq(s, 1, Least(n, Len(s))))
                = IF 1 <= Least(n, Len(s)) THEN Least(n, Len(s)) - 1 + 1 ELSE 0
        /\ \A i \in 1..(Least(n, Len(s)) - 1 + 1) :
                SubSeq(s, 1, Least(n, Len(s)))[i] = s[1 + i - 1]
    BY <1>1, <1>2, SubSeqProperties
  <1> QED
    BY <1>1, <1>3 DEF FirstOf

\* The budget of a generation is a number of tokens.
LEMMA BudgetType ==
    ASSUME TypeOK
    PROVE  Budget \in Nat /\ Len(prompt_ids) \in Nat
  <1>1. Len(prompt_ids) \in Nat
    BY LenProperties DEF TypeOK
  <1> QED
    BY <1>1, LengthsAssumption DEF Budget, Least

\* A generation of n tokens.
LEMMA GenerationTypes ==
    ASSUME TypeOK, NEW n \in Nat
    PROVE  /\ prompt_ids \o Copies("generated", n) \in Seq(Token)
           /\ response_mask \o Copies(1, n) \in Seq({0, 1})
           /\ response_logprobs \o Copies("real", n) \in Seq({"real", "pad"})
  <1>1. /\ Copies("generated", n) \in Seq(Token)
        /\ Copies(1, n) \in Seq({0, 1})
        /\ Copies("real", n) \in Seq({"real", "pad"})
    BY CopiesProperties DEF Token
  <1> QED
    BY <1>1, ConcatProperties DEF TypeOK

\* What a turn of the environment adds to mask and log-probabilities.
LEMMA MaskOfProperties ==
    ASSUME NEW turn \in Seq(Token)
    PROVE  /\ Len(turn) \in Nat
           /\ MaskOf(turn) \in Seq({0, 1})
           /\ Len(MaskOf(turn)) = Len(turn)
           /\ \A i \in 1..Len(turn) : MaskOf(turn)[i] = 0
           /\ FillerOf(turn) \in Seq({"real", "pad"})
           /\ response_logprobs # <<>> =>
                /\ Len(FillerOf(turn)) = Len(turn)
                /\ \A i \in 1..Len(turn) : FillerOf(turn)[i] = "pad"
           /\ response_logprobs = <<>> => FillerOf(turn) = <<>>
  <1>1. Len(turn) \in Nat
    BY LenProperties
  <1>2. /\ Copies(0, Len(turn)) \in Seq({0, 1})
        /\ Len(Copies(0, Len(turn))) = Len(turn)
        /\ \A i \in 1..Len(turn) : Copies(0, Len(turn))[i] = 0
    BY <1>1, CopiesProperties
  <1>3. /\ Copies("pad", Len(turn)) \in Seq({"real", "pad"})
        /\ Len(Copies("pad", Len(turn))) = Len(turn)
        /\ \A i \in 1..Len(turn) : Copies("pad", Len(turn))[i] = "pad"
    BY <1>1, CopiesProperties
  <1> QED
    BY <1>1, <1>2, <1>3, EmptySeq DEF MaskOf, FillerOf

LEMMA EnvironmentTypes ==
    ASSUME TypeOK, NEW turn \in Seq(Token), AppendEnvironment(turn)
    PROVE  /\ prompt_ids' \in Seq(Token)
           /\ response_mask' \in Seq({0, 1})
           /\ response_logprobs' \in Seq({"real", "pad"})
  <1>1. /\ MaskOf(turn) \in Seq({0, 1})
        /\ FillerOf(turn) \in Seq({"real", "pad"})
    BY MaskOfProperties
  <1> QED
    BY <1>1, ConcatProperties DEF AppendEnvironment, TypeOK

-----------------------------------------------------------------------------
(* Types.                                                                  *)

\* The configured turn limit and the sizes of lists of images are numbers.
LEMMA ConfigTypes ==
    ASSUME config \in Config
    PROVE  /\ config.max_user_turns \in Nat
           /\ config.list_sizes \subseteq 0..MaxImagesPerCall
           /\ config.list_sizes \subseteq Nat
  <1>1. config.max_user_turns \in Nat
    BY TurnsAssumption DEF Config
  <1>2. config.list_sizes \in ListSizes
    BY DEF Config
  <1>3. config.list_sizes \subseteq 0..MaxImagesPerCall
    BY <1>2, TurnsAssumption
  <1>4. 0..MaxImagesPerCall \subseteq Nat
    BY TurnsAssumption
  <1> QED
    BY <1>1, <1>3, <1>4

\* One step of one call changes that call and perhaps its tool instance.
LEMMA CallToolTypes ==
    ASSUME TypeOK, NEW c \in DOMAIN calls, CallTool(c)
    PROVE  /\ calls' \in Seq(Call) /\ Len(calls') = Len(calls)
           /\ c \in 1..Len(calls)
           /\ \A d \in 1..Len(calls) : d # c => calls'[d] = calls[d]
           /\ UNCHANGED <<config, state, tokens, image_data, turns,
                          tool_calls, output>>
  <1>1. /\ c \in 1..Len(calls) /\ Len(calls) \in Nat
        /\ calls \in Seq(Call) /\ calls[c] \in Call
    BY LenProperties, ElementOfSeq DEF TypeOK
  <1>2. ASSUME NEW e \in Call, calls' = [calls EXCEPT ![c] = e]
        PROVE  /\ calls' \in Seq(Call) /\ Len(calls') = Len(calls)
               /\ \A d \in 1..Len(calls) : d # c => calls'[d] = calls[d]
    BY <1>1, <1>2, ExceptSeq
  <1>3. CASE CreateTool(c)
    <2>1. /\ [pc |-> "created", reply |-> NoReply] \in Call
          /\ [pc |-> "done", reply |-> ErrorReply] \in Call
      BY DEF Call, Reply, NoReply, ErrorReply
    <2> QED
      BY <1>1, <1>2, <1>3, <2>1 DEF CreateTool
  <1>4. CASE ExecuteTool(c)
    <2>1. ASSUME NEW r \in ToolReply
          PROVE  [pc |-> "executed", reply |-> r] \in Call
      <3>1. config.list_sizes \subseteq Nat
        BY ConfigTypes DEF TypeOK
      <3> QED
        BY <3>1 DEF ToolReply, ErrorReply, Call, Reply
    <2> QED
      BY <1>1, <1>2, <1>4, <2>1 DEF ExecuteTool
  <1>5. CASE ReleaseTool(c)
    <2>1. PICK q \in {"done", "raised"} :
            calls' = [calls EXCEPT ![c] = [calls[c] EXCEPT !.pc = q]]
      BY <1>5 DEF ReleaseTool, PcAfterRelease
    <2>2. [calls[c] EXCEPT !.pc = q] \in Call
      BY <1>1 DEF Call
    <2> QED
      BY <1>1, <1>2, <1>5, <2>1, <2>2 DEF ReleaseTool
  <1> QED
    BY <1>3, <1>4, <1>5 DEF CallTool

\* The result of Finalize has the fields of an AgentLoopOutput.
LEMMA OutputTypes ==
    ASSUME TypeOK, Finalize, Len(response_mask) <= Len(prompt_ids)
    PROVE  output' \in Output
  <1>1. /\ prompt_ids \in Seq(Token) /\ response_mask \in Seq({0, 1})
        /\ response_logprobs \in Seq({"real", "pad"})
        /\ Len(response_mask) \in Nat /\ ResponseLength \in Nat
        /\ user_turns + assistant_turns + 1 \in Nat
    BY LenProperties, LengthsAssumption DEF TypeOK
  <1>2. /\ DropLast(prompt_ids, Len(response_mask)) \in Seq(Token)
        /\ LastOf(prompt_ids, Len(response_mask)) \in Seq(Token)
    BY <1>1, SliceProperties
  <1>3. /\ FirstOf(LastOf(prompt_ids, Len(response_mask)), ResponseLength)
                \in Seq(Token)
        /\ FirstOf(response_mask, ResponseLength) \in Seq({0, 1})
        /\ FirstOf(response_logprobs, ResponseLength) \in Seq({"real", "pad"})
    BY <1>1, <1>2, FirstOfProperties
  <1> QED
    BY <1>1, <1>2, <1>3 DEF Finalize, Output

\* The calls of a turn are finitely many, so their images and placeholders
\* are numbers of tokens.
LEMMA TurnImages ==
    ASSUME TypeOK
    PROVE  /\ PlaceholdersOf(ImageCalls) \in Nat /\ NewImages \in Nat
           /\ \A text \in 1..MaxTurnText :
                Encode(text, "env", PlaceholdersOf(ImageCalls), "env_image")
                    \in Seq(Token)
  <1>1. /\ Len(calls) \in Nat /\ DOMAIN calls = 1..Len(calls)
        /\ MaxImagesPerCall \in Nat /\ MaxTurnText \in Nat
    BY LenProperties, TurnsAssumption DEF TypeOK
  <1>2. IsFiniteSet(DOMAIN calls) /\ IsFiniteSet(1..MaxImagesPerCall)
    BY <1>1, FS_Interval
  <1>3. PlaceholdersOf(ImageCalls) \in Nat
    <2>1. IsFiniteSet(ImageCalls)
      BY <1>2, FS_Subset DEF ImageCalls
    <2> QED
      BY <2>1, FS_CardinalityType DEF PlaceholdersOf
  <1>4. NewImages \in Nat
    <2>1. IsFiniteSet((DOMAIN calls) \X (1..MaxImagesPerCall))
      BY <1>2, FS_Product
    <2>2. IsFiniteSet({p \in (DOMAIN calls) \X (1..MaxImagesPerCall) :
                            p[2] <= calls[p[1]].reply.images})
      BY <2>1, FS_Subset
    <2> QED
      BY <2>2, FS_CardinalityType DEF NewImages
  <1>5. ASSUME NEW text \in 1..MaxTurnText
        PROVE  Encode(text, "env", PlaceholdersOf(ImageCalls), "env_image")
                    \in Seq(Token)
    <2>1. text \in Nat /\ "env" \in Token /\ "env_image" \in Token
      BY <1>1 DEF Token
    <2> QED
      BY <1>3, <2>1, EncodeProperties
  <1> QED
    BY <1>3, <1>4, <1>5

LEMMA TypesNext ==
    ASSUME TypeOK, MaskMarksGenerated, [Next]_vars
    PROVE  TypeOK'
  <1> USE LengthsAssumption, TurnsAssumption DEF tokens, turns, tools
  <1>1. CASE HandlePending
    <2>1. PICK text \in 1..PromptLength :
            prompt_ids' = Encode(text, "prompt", image_data, "prompt_image")
      BY <1>1 DEF HandlePending
    <2>2. prompt_ids' \in Seq(Token)
      BY <2>1, EncodeProperties DEF Token, TypeOK
    <2> QED
      BY <1>1, <2>2 DEF HandlePending, TypeOK, AgentState
  <1>2. CASE GenerateRejected
    BY <1>2 DEF GenerateRejected, TypeOK
  <1>3. CASE HandleGenerating
    <2>1. PICK n \in IF Budget = 0 THEN {0} ELSE 1..Budget :
            /\ prompt_ids' = prompt_ids \o Copies("generated", n)
            /\ response_mask' = response_mask \o Copies(1, n)
            /\ response_logprobs' = IF config.logprobs
                                    THEN response_logprobs \o Copies("real", n)
                                    ELSE response_logprobs
      BY <1>3 DEF HandleGenerating
    <2>2. n \in Nat
      BY BudgetType
    <2>3. /\ prompt_ids' \in Seq(Token) /\ response_mask' \in Seq({0, 1})
          /\ response_logprobs' \in Seq({"real", "pad"})
      BY <2>1, <2>2, GenerationTypes DEF TypeOK
    <2>4. /\ state' \in AgentState /\ tool_calls' \in Nat
          /\ assistant_turns' \in Nat
      BY <1>3 DEF HandleGenerating, StateAfterGeneration, TypeOK, AgentState
    <2> QED
      BY <1>3, <2>3, <2>4 DEF HandleGenerating, TypeOK
  <1>4. CASE StartCalls
    <2>1. Least(tool_calls, MaxParallelCalls) \in Nat
      BY DEF TypeOK, Least
    <2>2. [pc |-> "start", reply |-> NoReply] \in Call
      BY DEF Call, Reply, NoReply
    <2>3. calls' \in Seq(Call)
      BY <1>4, <2>1, <2>2, CopiesProperties DEF StartCalls
    <2> QED
      BY <1>4, <2>3 DEF StartCalls, TypeOK
  <1>5. ASSUME NEW c \in DOMAIN calls, CallTool(c)
        PROVE  TypeOK'
    <2>1. /\ calls' \in Seq(Call) /\ c \in Nat
          /\ UNCHANGED <<config, state, tokens, image_data, turns,
                         tool_calls, output>>
      BY <1>5, CallToolTypes
    <2>2. instances' \subseteq Nat
      BY <1>5, <2>1
      DEF CallTool, CreateTool, ExecuteTool, ReleaseTool, LeftOnRelease, TypeOK
    <2> QED
      BY <2>1, <2>2 DEF TypeOK
  <1>6. CASE ToolReplyRejected \/ GatherRaises
    BY <1>6, EmptySeq DEF ToolReplyRejected, GatherRaises, TypeOK
  <1>7. CASE HandleToolReplies
    <2>1. PICK text \in 1..MaxTurnText :
            LET turn == Encode(text, "env", PlaceholdersOf(ImageCalls),
                               "env_image")
            IN  IF Overflows(turn)
                THEN /\ state' = "terminated"
                     /\ UNCHANGED <<tokens, image_data, user_turns>>
                ELSE /\ state' = "generating"
                     /\ AppendEnvironment(turn)
                     /\ image_data' = image_data + NewImages
                     /\ user_turns' = user_turns + 1
      BY <1>7 DEF HandleToolReplies
    <2> DEFINE turn == Encode(text, "env", PlaceholdersOf(ImageCalls),
                              "env_image")
    <2>2. turn \in Seq(Token) /\ NewImages \in Nat
      BY <1>7, TurnImages DEF TypeOK
    <2>3. calls' \in Seq(Call)
      BY <1>7, EmptySeq DEF HandleToolReplies
    <2>4. CASE Overflows(turn)
      BY <1>7, <2>1, <2>3, <2>4 DEF HandleToolReplies, TypeOK, AgentState
    <2>5. CASE ~Overflows(turn)
      <3>1. /\ state' = "generating" /\ AppendEnvironment(turn)
            /\ image_data' = image_data + NewImages
            /\ user_turns' = user_turns + 1
        BY <2>1, <2>5
      <3>2. /\ prompt_ids' \in Seq(Token) /\ response_mask' \in Seq({0, 1})
            /\ response_logprobs' \in Seq({"real", "pad"})
        BY <2>2, <3>1, EnvironmentTypes
      <3> QED
        BY <1>7, <2>2, <2>3, <3>1, <3>2
        DEF HandleToolReplies, TypeOK, AgentState
    <2> QED
      BY <2>4, <2>5
  <1>8. CASE HandleInteracting
    <2>1. PICK text \in 1..MaxTurnText :
            AppendEnvironment(Encode(text, "env", 0, "env_image"))
      BY <1>8 DEF HandleInteracting
    <2>2. Encode(text, "env", 0, "env_image") \in Seq(Token)
      BY EncodeProperties DEF Token
    <2>3. /\ prompt_ids' \in Seq(Token) /\ response_mask' \in Seq({0, 1})
          /\ response_logprobs' \in Seq({"real", "pad"})
      BY <2>1, <2>2, EnvironmentTypes
    <2> QED
      BY <1>8, <2>3 DEF HandleInteracting, TypeOK, AgentState
  <1>9. CASE Finalize
    <2>1. output' \in Output
      BY <1>9, OutputTypes DEF MaskMarksGenerated
    <2> QED
      BY <1>9, <2>1 DEF Finalize, TypeOK
  <1>10. CASE UNCHANGED vars
    BY <1>10 DEF vars, TypeOK
  <1> QED
    BY <1>1, <1>2, <1>3, <1>4, <1>5, <1>6, <1>7, <1>8, <1>9, <1>10 DEF Next

-----------------------------------------------------------------------------
(* The mask and the log-probabilities beside the tokens.                   *)

PromptToken == {"prompt", "prompt_image"}
ResponseToken == {"generated", "env", "env_image"}

\* MaskMarksGenerated, said of any tokens and any mask.
Aligned(ids, mask) ==
    /\ Len(mask) <= Len(ids)
    /\ \A i \in 1..(Len(ids) - Len(mask)) : ids[i] \in PromptToken
    /\ \A i \in 1..Len(ids) : i > Len(ids) - Len(mask) =>
            /\ ids[i] \in ResponseToken
            /\ mask[i - (Len(ids) - Len(mask))] = 1 <=> ids[i] = "generated"

LEMMA AlignedIsMaskMarksGenerated ==
    ASSUME TypeOK
    PROVE  MaskMarksGenerated <=> Aligned(prompt_ids, response_mask)
  <1>1. Len(prompt_ids) \in Nat /\ Len(response_mask) \in Nat
    BY LenProperties DEF TypeOK
  <1> QED
    BY <1>1
    DEF MaskMarksGenerated, Aligned, PromptToken, ResponseToken

\* ConcatProperties for masks.
LEMMA MaskConcat ==
    ASSUME NEW mask \in Seq({0, 1}), NEW m \in Seq({0, 1})
    PROVE  /\ Len(mask \o m) = Len(mask) + Len(m)
           /\ \A i \in 1..(Len(mask) + Len(m)) :
                (mask \o m)[i] = IF i <= Len(mask) THEN mask[i]
                                 ELSE m[i - Len(mask)]
  BY ConcatProperties

\* Appending a turn whose own mask marks its generated tokens.
LEMMA AlignedAppend ==
    ASSUME NEW ids \in Seq(Token), NEW mask \in Seq({0, 1}),
           Aligned(ids, mask),
           NEW t \in Seq(Token), NEW m \in Seq({0, 1}), Len(m) = Len(t),
           \A i \in 1..Len(t) : /\ t[i] \in ResponseToken
                                /\ m[i] = 1 <=> t[i] = "generated"
    PROVE  Aligned(ids \o t, mask \o m)
  <1> DEFINE cut == Len(ids) - Len(mask)
  <1>1. /\ Len(ids) \in Nat /\ Len(mask) \in Nat /\ Len(t) \in Nat
        /\ cut \in Nat
    BY LenProperties DEF Aligned
  <1>2. /\ Len(ids \o t) = Len(ids) + Len(t)
        /\ \A i \in 1..(Len(ids) + Len(t)) :
            (ids \o t)[i] = IF i <= Len(ids) THEN ids[i] ELSE t[i - Len(ids)]
    BY ConcatProperties
  <1>3. /\ Len(mask \o m) = Len(mask) + Len(m)
        /\ \A i \in 1..(Len(mask) + Len(m)) :
            (mask \o m)[i] = IF i <= Len(mask) THEN mask[i] ELSE m[i - Len(mask)]
    BY MaskConcat
  <1>4. /\ Len(ids \o t) - Len(mask \o m) = cut
        /\ Len(mask \o m) <= Len(ids \o t)
    BY <1>1, <1>2, <1>3
  <1>5. ASSUME NEW i \in 1..cut
        PROVE  (ids \o t)[i] \in PromptToken
    BY <1>1, <1>2 DEF Aligned
  <1>6. ASSUME NEW i \in 1..(Len(ids) + Len(t)), i > cut
        PROVE  /\ (ids \o t)[i] \in ResponseToken
               /\ (mask \o m)[i - cut] = 1 <=> (ids \o t)[i] = "generated"
    <2>1. CASE i <= Len(ids)
      <3>1. i \in 1..Len(ids) /\ i - cut \in 1..Len(mask)
        BY <1>1, <1>6, <2>1
      <3>2. (ids \o t)[i] = ids[i] /\ (mask \o m)[i - cut] = mask[i - cut]
        BY <1>1, <1>2, <1>3, <3>1
      <3>3. /\ ids[i] \in ResponseToken
            /\ mask[i - cut] = 1 <=> ids[i] = "generated"
        BY <1>1, <1>6, <3>1 DEF Aligned
      <3> QED
        BY <3>2, <3>3
    <2>2. CASE ~(i <= Len(ids))
      <3>1. /\ i - Len(ids) \in 1..Len(t)
            /\ i - cut \in 1..(Len(mask) + Len(m))
            /\ i - cut > Len(mask)
            /\ i - cut - Len(mask) = i - Len(ids)
        BY <1>1, <1>6, <2>2
      <3>2. /\ (ids \o t)[i] = t[i - Len(ids)]
            /\ (mask \o m)[i - cut] = m[i - Len(ids)]
        BY <1>1, <1>2, <1>3, <2>2, <3>1
      <3> QED
        BY <3>1, <3>2
    <2> QED
      BY <2>1, <2>2
  <1>7. \A i \in 1..(Len(ids \o t) - Len(mask \o m)) :
            (ids \o t)[i] \in PromptToken
    BY <1>4, <1>5
  <1>8. \A i \in 1..Len(ids \o t) : i > Len(ids \o t) - Len(mask \o m) =>
            /\ (ids \o t)[i] \in ResponseToken
            /\ (mask \o m)[i - (Len(ids \o t) - Len(mask \o m))] = 1
                <=> (ids \o t)[i] = "generated"
    <2> SUFFICES ASSUME NEW i \in 1..Len(ids \o t),
                        i > Len(ids \o t) - Len(mask \o m)
                 PROVE  /\ (ids \o t)[i] \in ResponseToken
                        /\ (mask \o m)[i - (Len(ids \o t) - Len(mask \o m))] = 1
                            <=> (ids \o t)[i] = "generated"
      OBVIOUS
    <2>1. i \in 1..(Len(ids) + Len(t)) /\ i > cut
      BY <1>2, <1>4
    <2>2. i - (Len(ids \o t) - Len(mask \o m)) = i - cut
      BY <1>4
    <2> HIDE DEF cut
    <2> QED
      BY <1>6, <2>1, <2>2, Zenon
  <1> QED
    BY <1>4, <1>7, <1>8 DEF Aligned

\* A generation and its mask.
LEMMA GenerationAligned ==
    ASSUME TypeOK, MaskMarksGenerated, NEW n \in Nat
    PROVE  Aligned(prompt_ids \o Copies("generated", n),
                   response_mask \o Copies(1, n))
  <1>1. /\ Copies("generated", n) \in Seq(Token)
        /\ Copies(1, n) \in Seq({0, 1})
        /\ Len(Copies("generated", n)) = n /\ Len(Copies(1, n)) = n
        /\ \A i \in 1..n : /\ Copies("generated", n)[i] = "generated"
                           /\ Copies(1, n)[i] = 1
    BY CopiesProperties DEF Token
  <1>2. \A i \in 1..Len(Copies("generated", n)) :
            /\ Copies("generated", n)[i] \in ResponseToken
            /\ Copies(1, n)[i] = 1 <=> Copies("generated", n)[i] = "generated"
    BY <1>1 DEF ResponseToken
  <1> QED
    BY <1>1, <1>2, AlignedAppend, AlignedIsMaskMarksGenerated DEF TypeOK

\* A turn of the environment and its mask.
LEMMA EnvironmentAligned ==
    ASSUME TypeOK, MaskMarksGenerated, NEW turn \in Seq(Token),
           \A i \in 1..Len(turn) : turn[i] \in {"env", "env_image"},
           AppendEnvironment(turn)
    PROVE  Aligned(prompt_ids', response_mask')
  <1>1. /\ MaskOf(turn) \in Seq({0, 1}) /\ Len(MaskOf(turn)) = Len(turn)
        /\ \A i \in 1..Len(turn) : MaskOf(turn)[i] = 0
    BY MaskOfProperties
  <1>2. \A i \in 1..Len(turn) : /\ turn[i] \in ResponseToken
                                /\ MaskOf(turn)[i] = 1 <=> turn[i] = "generated"
    BY <1>1 DEF ResponseToken
  <1>3. Aligned(prompt_ids \o turn, response_mask \o MaskOf(turn))
    BY <1>1, <1>2, AlignedAppend, AlignedIsMaskMarksGenerated DEF TypeOK
  <1> QED
    BY <1>3 DEF AppendEnvironment

\* LogprobsFollowMask, said of any log-probabilities and any mask.
Follow(logprobs, mask) ==
    /\ Len(logprobs) = Len(mask)
    /\ \A i \in 1..Len(mask) : logprobs[i] = "real" <=> mask[i] = 1

LEMMA FollowAppend ==
    ASSUME NEW p \in Seq({"real", "pad"}), NEW mask \in Seq({0, 1}),
           Follow(p, mask),
           NEW q \in Seq({"real", "pad"}), NEW m \in Seq({0, 1}), Follow(q, m)
    PROVE  Follow(p \o q, mask \o m)
  <1>1. /\ Len(p) \in Nat /\ Len(q) \in Nat
        /\ Len(mask) = Len(p) /\ Len(m) = Len(q)
    BY LenProperties DEF Follow
  <1>2. /\ Len(p \o q) = Len(p) + Len(q)
        /\ \A i \in 1..(Len(p) + Len(q)) :
            (p \o q)[i] = IF i <= Len(p) THEN p[i] ELSE q[i - Len(p)]
    BY ConcatProperties
  <1>3. /\ Len(mask \o m) = Len(mask) + Len(m)
        /\ \A i \in 1..(Len(mask) + Len(m)) :
            (mask \o m)[i] = IF i <= Len(mask) THEN mask[i] ELSE m[i - Len(mask)]
    BY ConcatProperties
  <1>4. ASSUME NEW i \in 1..(Len(p) + Len(q))
        PROVE  (p \o q)[i] = "real" <=> (mask \o m)[i] = 1
    <2>1. CASE i <= Len(p)
      BY <1>1, <1>2, <1>3, <2>1 DEF Follow
    <2>2. CASE i > Len(p)
      <3>1. i - Len(p) \in 1..Len(q)
        BY <1>1, <2>2
      <3> QED
        BY <1>1, <1>2, <1>3, <2>2, <3>1 DEF Follow
    <2> QED
      BY <1>1, <2>1, <2>2
  <1> QED
    BY <1>1, <1>2, <1>3, <1>4 DEF Follow

\* A generation and a turn of the environment, when log-probabilities are
\* asked for; the turn needs some to be there already.
LEMMA GenerationFollow ==
    ASSUME TypeOK, Follow(response_logprobs, response_mask), NEW n \in Nat
    PROVE  Follow(response_logprobs \o Copies("real", n),
                  response_mask \o Copies(1, n))
  <1>1. /\ Copies("real", n) \in Seq({"real", "pad"})
        /\ Copies(1, n) \in Seq({0, 1})
        /\ Len(Copies("real", n)) = n /\ Len(Copies(1, n)) = n
        /\ \A i \in 1..n : Copies("real", n)[i] = "real" /\ Copies(1, n)[i] = 1
    BY CopiesProperties
  <1>2. Follow(Copies("real", n), Copies(1, n))
    BY <1>1 DEF Follow
  <1> QED
    BY <1>1, <1>2, FollowAppend DEF TypeOK

LEMMA EnvironmentFollow ==
    ASSUME TypeOK, Follow(response_logprobs, response_mask),
           response_mask # <<>>, NEW turn \in Seq(Token),
           AppendEnvironment(turn)
    PROVE  Follow(response_logprobs', response_mask')
  <1>1. response_logprobs # <<>>
    BY EmptySeq DEF Follow, TypeOK
  <1>2. /\ Len(turn) \in Nat
        /\ MaskOf(turn) \in Seq({0, 1}) /\ Len(MaskOf(turn)) = Len(turn)
        /\ \A i \in 1..Len(turn) : MaskOf(turn)[i] = 0
        /\ FillerOf(turn) \in Seq({"real", "pad"})
        /\ Len(FillerOf(turn)) = Len(turn)
        /\ \A i \in 1..Len(turn) : FillerOf(turn)[i] = "pad"
    BY <1>1, MaskOfProperties
  <1>3. Follow(FillerOf(turn), MaskOf(turn))
    BY <1>2 DEF Follow
  <1>4. Follow(response_logprobs \o FillerOf(turn),
               response_mask \o MaskOf(turn))
    BY <1>2, <1>3, FollowAppend DEF TypeOK
  <1> QED
    BY <1>4 DEF AppendEnvironment

-----------------------------------------------------------------------------
(* The strengthening: what the states of the loop know of the lengths, the *)
(* turns, the calls and the result.                                        *)

NothingYet ==
    state = "pending" =>
        /\ prompt_ids = <<>> /\ response_mask = <<>>
        /\ response_logprobs = <<>>
        /\ assistant_turns = 0 /\ user_turns = 0

\* Each request leaves room for a token, so a turn that goes on has some
\* response tokens, and fewer than the limit.
LengthsBounded ==
    /\ Len(prompt_ids) - Len(response_mask) <= PromptLength
    /\ state \in {"processing_tools", "interacting"} =>
            Len(response_mask) \in 1..(ResponseLength - 1)
    /\ state = "interacting" => config.interaction
    /\ state = "generating" /\ ~config.interaction =>
            Len(response_mask) < ResponseLength
    /\ state = "terminated" => Len(response_mask) >= 1

\* The instances are those of calls between create and release, or of calls
\* that raised.
CallsTracked ==
    /\ state \notin {"processing_tools", "failed"} => calls = <<>>
    /\ \A c \in instances :
        /\ c \in DOMAIN calls
        /\ calls[c].pc \in {"created", "executed", "raised"}

\* A turn of the environment is only begun below both limits.
TurnsCounted ==
    /\ state \in {"pending", "generating"} => assistant_turns = user_turns
    /\ state \in {"processing_tools", "interacting"} =>
            /\ assistant_turns = user_turns + 1
            /\ MaxAssistantTurns # 0 => assistant_turns < MaxAssistantTurns
            /\ config.max_user_turns # 0 => user_turns < config.max_user_turns
    /\ state = "generating" /\ MaxAssistantTurns # 0 =>
            assistant_turns < MaxAssistantTurns

\* No action changes the configuration.
LEMMA ConfigFixed ==
    ASSUME TypeOK, [Next]_vars
    PROVE  config' = config
  <1>1. ASSUME NEW c \in DOMAIN calls, CallTool(c)
        PROVE  config' = config
    BY <1>1, CallToolTypes
  <1> QED
    BY <1>1
    DEF Next, HandlePending, GenerateRejected, HandleGenerating, StartCalls,
        GatherRaises, ToolReplyRejected, HandleToolReplies,
        HandleInteracting, Finalize, vars

\* The turns, action by action.
LEMMA TurnsNext ==
    ASSUME TypeOK, NothingYet, TurnsCounted, TurnLimits, [Next]_vars
    PROVE  TurnsCounted' /\ TurnLimits'
  <1> USE TurnsAssumption DEF TurnsCounted, TurnLimits, turns, tools, TypeOK
  <1>0. config.max_user_turns \in Nat /\ config' = config
    BY ConfigTypes, ConfigFixed
  <1>1. CASE HandlePending
    BY <1>0, <1>1 DEF HandlePending, NothingYet
  <1>2. CASE GenerateRejected
    BY <1>0, <1>2 DEF GenerateRejected
  <1>3. CASE HandleGenerating
    <2>1. /\ state = "generating" /\ user_turns' = user_turns
          /\ assistant_turns' = assistant_turns + 1
          /\ \/ state' = "terminated"
             \/ /\ ~GenerationEnds(response_mask', assistant_turns')
                /\ state' \in {"processing_tools", "interacting", "terminated"}
      BY <1>3 DEF HandleGenerating, StateAfterGeneration
    <2> QED
      BY <1>0, <2>1 DEF GenerationEnds
  <1>4. CASE StartCalls
    BY <1>0, <1>4 DEF StartCalls
  <1>5. ASSUME NEW c \in DOMAIN calls, CallTool(c)
        PROVE  TurnsCounted' /\ TurnLimits'
    BY <1>0, <1>5, CallToolTypes
  <1>6. CASE ToolReplyRejected \/ GatherRaises
    BY <1>0, <1>6 DEF ToolReplyRejected, GatherRaises
  <1>7. CASE HandleToolReplies
    <2>1. /\ state = "processing_tools" /\ assistant_turns' = assistant_turns
          /\ \/ state' = "terminated" /\ user_turns' = user_turns
             \/ state' = "generating" /\ user_turns' = user_turns + 1
      BY <1>7 DEF HandleToolReplies
    <2> QED
      BY <1>0, <2>1
  <1>8. CASE HandleInteracting
    BY <1>0, <1>8 DEF HandleInteracting
  <1>9. CASE Finalize
    BY <1>0, <1>9 DEF Finalize
  <1>10. CASE UNCHANGED vars
    BY <1>0, <1>10 DEF vars
  <1> QED
    BY <1>1, <1>2, <1>3, <1>4, <1>5, <1>6, <1>7, <1>8, <1>9, <1>10 DEF Next

\* The calls, action by action.
LEMMA CallsNext ==
    ASSUME TypeOK, CallsTracked, [Next]_vars
    PROVE  CallsTracked'
  <1> USE DEF turns, tools
  <1>1. CASE StartCalls
    <2>1. /\ calls = <<>> /\ instances' = instances /\ state' = state
          /\ state = "processing_tools"
          /\ \A c \in DOMAIN calls' : calls'[c].pc = "start"
      BY <1>1 DEF StartCalls, Copies
    <2>2. DOMAIN calls = {}
      BY <2>1, EmptySeq
    <2> QED
      BY <2>1, <2>2 DEF CallsTracked
  <1>2. ASSUME NEW c \in DOMAIN calls, CallTool(c)
        PROVE  CallsTracked'
    <2>1. /\ c \in 1..Len(calls) /\ DOMAIN calls = 1..Len(calls)
          /\ DOMAIN calls' = DOMAIN calls
          /\ \A d \in DOMAIN calls : d # c => calls'[d] = calls[d]
          /\ state' = state
      BY <1>2, CallToolTypes, LenProperties DEF TypeOK
    <2>2. calls # <<>>
      BY <2>1, EmptySeq
    <2>3. \/ /\ calls'[c].pc \in {"created", "executed", "raised"}
             /\ instances' \subseteq instances \union {c}
          \/ instances' = instances \ {c}
          \/ c \notin instances /\ instances' = instances
      <3>1. c \in instances => calls[c].pc # "start"
        BY DEF CallsTracked
      <3>2. CASE CreateTool(c)
        BY <3>1, <3>2 DEF CreateTool, TypeOK
      <3>3. CASE ExecuteTool(c)
        <4>1. calls'[c].pc = "executed"
          BY <3>3 DEF ExecuteTool, TypeOK
        <4> QED
          BY <3>3, <4>1 DEF ExecuteTool
      <3>4. CASE ReleaseTool(c)
        <4>1. CASE instances' = LeftOnRelease(c)
          BY <4>1 DEF LeftOnRelease
        <4>2. CASE /\ calls' = [calls EXCEPT ![c].pc = "raised"]
                   /\ UNCHANGED instances
          <5>1. calls[c] \in Call
            BY <2>1, ElementOfSeq DEF TypeOK
          <5> QED
            BY <4>2, <5>1 DEF TypeOK, Call
        <4> QED
          BY <3>4, <4>1, <4>2 DEF ReleaseTool
      <3> QED
        BY <1>2, <3>2, <3>3, <3>4 DEF CallTool
    <2>4. state \in {"processing_tools", "failed"}
      BY <2>2 DEF CallsTracked
    <2> QED
      BY <2>1, <2>3, <2>4 DEF CallsTracked
  <1>3. CASE ToolReplyRejected \/ HandleToolReplies
    <2>1. /\ CallsDone /\ calls' = <<>> /\ instances' = instances
      BY <1>3 DEF ToolReplyRejected, HandleToolReplies
    <2>2. instances = {}
      BY <2>1 DEF CallsDone, CallsTracked
    <2> QED
      BY <2>1, <2>2, EmptySeq DEF CallsTracked
  <1>4. CASE \/ HandlePending \/ GenerateRejected \/ HandleGenerating
             \/ GatherRaises \/ HandleInteracting \/ Finalize \/ UNCHANGED vars
    <2>1. /\ calls' = calls /\ instances' = instances
          /\ state \in {"processing_tools", "failed"} =>
                state' \in {"processing_tools", "failed"}
      BY <1>4
      DEF HandlePending, GenerateRejected, HandleGenerating, GatherRaises,
          HandleInteracting, Finalize, vars
    <2> QED
      BY <2>1 DEF CallsTracked
  <1> QED
    BY <1>1, <1>2, <1>3, <1>4 DEF Next

\* The properties of the tokens of the trajectory.
TokensRight ==
    MaskMarksGenerated /\ LogprobsFollowMask /\ NothingYet /\ LengthsBounded

\* Tokens and mask grow by as much.
LEMMA GenerationLengths ==
    ASSUME TypeOK, NEW n \in Nat
    PROVE  /\ Len(prompt_ids) \in Nat /\ Len(response_mask) \in Nat
           /\ Len(prompt_ids \o Copies("generated", n)) = Len(prompt_ids) + n
           /\ Len(response_mask \o Copies(1, n)) = Len(response_mask) + n
  <1>1. /\ Copies("generated", n) \in Seq(Token)
        /\ Copies(1, n) \in Seq({0, 1})
        /\ Len(Copies("generated", n)) = n /\ Len(Copies(1, n)) = n
    BY CopiesProperties DEF Token
  <1>2. prompt_ids \in Seq(Token) /\ response_mask \in Seq({0, 1})
    BY DEF TypeOK
  <1>3. Len(prompt_ids) \in Nat /\ Len(response_mask) \in Nat
    BY <1>2, LenProperties
  <1>4. Len(prompt_ids \o Copies("generated", n)) = Len(prompt_ids) + n
    BY <1>1, <1>2, ConcatProperties
  <1>5. Len(response_mask \o Copies(1, n)) = Len(response_mask) + n
    BY <1>1, <1>2, ConcatProperties, ZenonT(60)
  <1> QED
    BY <1>3, <1>4, <1>5

LEMMA EnvironmentLengths ==
    ASSUME TypeOK, NEW turn \in Seq(Token), AppendEnvironment(turn)
    PROVE  /\ Len(prompt_ids) \in Nat /\ Len(response_mask) \in Nat
           /\ Len(turn) \in Nat
           /\ Len(prompt_ids') = Len(prompt_ids) + Len(turn)
           /\ Len(response_mask') = Len(response_mask) + Len(turn)
  <1>1. MaskOf(turn) \in Seq({0, 1}) /\ Len(MaskOf(turn)) = Len(turn)
    BY MaskOfProperties
  <1>2. Len(prompt_ids \o turn) = Len(prompt_ids) + Len(turn)
    BY ConcatProperties DEF TypeOK
  <1>3. Len(response_mask \o MaskOf(turn)) = Len(response_mask) + Len(turn)
    BY <1>1, MaskConcat DEF TypeOK
  <1> QED
    BY <1>2, <1>3, LenProperties DEF AppendEnvironment, TypeOK

\* The initial prompt.
LEMMA TokensPending ==
    ASSUME TypeOK, TokensRight, HandlePending
    PROVE  TokensRight'
  <1> USE DEF turns, tools
  <1>1. PICK text \in 1..PromptLength :
            /\ text + image_data <= PromptLength
            /\ prompt_ids' = Encode(text, "prompt", image_data, "prompt_image")
    BY DEF HandlePending
  <1>2. /\ Len(prompt_ids') = text + image_data
        /\ text + image_data \in Nat
        /\ \A i \in 1..(text + image_data) :
                prompt_ids'[i] \in {"prompt", "prompt_image"}
    <2>1. text \in Nat /\ image_data \in Nat
      BY LengthsAssumption DEF TypeOK
    <2>2. "prompt" \in Token /\ "prompt_image" \in Token
      BY DEF Token
    <2>3. text + image_data \in Nat
      BY <2>1
    <2> DEFINE e == Encode(text, "prompt", image_data, "prompt_image")
    <2>4. /\ Len(e) = text + image_data
          /\ \A i \in 1..(text + image_data) : e[i] \in {"prompt", "prompt_image"}
      BY <2>1, <2>2, EncodeProperties, ZenonT(60)
    <2> QED
      BY <1>1, <2>3, <2>4
  <1>3. /\ response_mask' = <<>> /\ Len(response_mask') = 0
        /\ response_logprobs' = <<>> /\ Len(response_logprobs') = 0
        /\ state' = "generating" /\ config' = config
    BY EmptySeq DEF HandlePending, TokensRight, NothingYet
  <1>4. MaskMarksGenerated'
    BY <1>2, <1>3 DEF MaskMarksGenerated
  <1>5. LogprobsFollowMask' /\ NothingYet'
    BY <1>3 DEF LogprobsFollowMask, NothingYet
  <1>6. LengthsBounded'
    BY <1>1, <1>2, <1>3, LengthsAssumption DEF LengthsBounded
  <1> QED
    BY <1>4, <1>5, <1>6 DEF TokensRight

\* A generation of n tokens, none only when the response is full already.
LEMMA TokensGenerating ==
    ASSUME TypeOK, TokensRight, HandleGenerating
    PROVE  TokensRight'
  <1>1. PICK n \in IF Budget = 0 THEN {0} ELSE 1..Budget :
          /\ prompt_ids' = prompt_ids \o Copies("generated", n)
          /\ response_mask' = response_mask \o Copies(1, n)
          /\ response_logprobs' = IF config.logprobs
                                  THEN response_logprobs \o Copies("real", n)
                                  ELSE response_logprobs
    BY DEF HandleGenerating
  <1>2. n \in Nat /\ (n = 0 => Budget = 0)
    BY BudgetType
  <1>3. /\ TypeOK'
        /\ state = "generating" /\ config' = config
        /\ \/ state' = "terminated"
           \/ /\ ~GenerationEnds(response_mask', assistant_turns')
              /\ \/ state' \in {"processing_tools", "terminated"}
                 \/ state' = "interacting" /\ config.interaction
    BY TypesNext
    DEF HandleGenerating, StateAfterGeneration, Next, TokensRight
  <1>4. MaskMarksGenerated'
    <2>1. Aligned(prompt_ids', response_mask')
      BY <1>1, <1>2, GenerationAligned DEF TokensRight
    <2>2. (MaskMarksGenerated <=> Aligned(prompt_ids, response_mask))'
      BY <1>3, AlignedIsMaskMarksGenerated, PTL
    <2> QED
      BY <2>1, <2>2
  <1>5. LogprobsFollowMask'
    <2>1. CASE config.logprobs
      <3>1. Follow(response_logprobs, response_mask)
        BY <2>1 DEF TokensRight, LogprobsFollowMask, Follow
      <3>2. Follow(response_logprobs', response_mask')
        BY <1>1, <1>2, <2>1, <3>1, GenerationFollow
      <3> QED
        BY <1>3, <2>1, <3>2 DEF LogprobsFollowMask, Follow
    <2>2. CASE ~config.logprobs
      BY <1>1, <1>3, <2>2 DEF TokensRight, LogprobsFollowMask
    <2> QED
      BY <2>1, <2>2
  <1>6. /\ Len(prompt_ids) \in Nat /\ Len(response_mask) \in Nat
        /\ Len(prompt_ids') = Len(prompt_ids) + n
        /\ Len(response_mask') = Len(response_mask) + n
    BY <1>1, <1>2, GenerationLengths
  <1>7. Len(response_mask') >= 1
    <2>1. CASE n = 0
      <3>1. /\ Budget = 0
            /\ Len(prompt_ids) - Len(response_mask) <= PromptLength
        BY <1>2, <2>1 DEF TokensRight, LengthsBounded
      <3> QED
        BY <1>2, <1>6, <3>1, LengthsAssumption DEF Budget, Least
    <2> QED
      BY <1>2, <1>6, <2>1
  <1>8. LengthsBounded'
    <2>1. ~GenerationEnds(response_mask', assistant_turns') =>
                Len(response_mask') < ResponseLength
      BY <1>2, <1>6, LengthsAssumption DEF GenerationEnds
    <2> QED
      BY <1>2, <1>3, <1>6, <1>7, <2>1, LengthsAssumption
      DEF TokensRight, LengthsBounded
  <1>9. NothingYet'
    BY <1>3 DEF NothingYet
  <1> QED
    BY <1>4, <1>5, <1>8, <1>9 DEF TokensRight

\* A turn of the environment, in a trajectory that has generated something.
LEMMA TokensEnvironment ==
    ASSUME TypeOK, TypeOK', TokensRight, response_mask # <<>>,
           NEW turn \in Seq(Token),
           \A i \in 1..Len(turn) : turn[i] \in {"env", "env_image"},
           AppendEnvironment(turn), config' = config
    PROVE  /\ MaskMarksGenerated' /\ LogprobsFollowMask'
           /\ Len(prompt_ids') - Len(response_mask') <= PromptLength
           /\ Len(response_mask') = Len(response_mask) + Len(turn)
           /\ Len(response_mask) \in Nat /\ Len(turn) \in Nat
  <1>1. MaskMarksGenerated'
    <2>1. Aligned(prompt_ids', response_mask')
      BY EnvironmentAligned DEF TokensRight
    <2>2. (MaskMarksGenerated <=> Aligned(prompt_ids, response_mask))'
      BY AlignedIsMaskMarksGenerated, PTL
    <2> QED
      BY <2>1, <2>2
  <1>2. LogprobsFollowMask'
    <2>1. CASE config.logprobs
      <3>1. Follow(response_logprobs, response_mask)
        BY <2>1 DEF TokensRight, LogprobsFollowMask, Follow
      <3>2. Follow(response_logprobs', response_mask')
        BY <3>1, EnvironmentFollow
      <3> QED
        BY <2>1, <3>2 DEF LogprobsFollowMask, Follow
    <2>2. CASE ~config.logprobs
      <3>1. response_logprobs = <<>> /\ <<>> \o <<>> = <<>>
        BY <2>2 DEF TokensRight, LogprobsFollowMask
      <3>2. response_logprobs' = <<>>
        BY <3>1, MaskOfProperties DEF AppendEnvironment
      <3> QED
        BY <2>2, <3>2 DEF LogprobsFollowMask
    <2> QED
      BY <2>1, <2>2
  <1> QED
    BY <1>1, <1>2, EnvironmentLengths, LengthsAssumption
    DEF TokensRight, LengthsBounded

\* A turn made by the chat template has tokens of the environment only.
LEMMA EncodedTurn ==
    ASSUME NEW text \in 1..MaxTurnText, NEW images \in Nat
    PROVE  /\ Encode(text, "env", images, "env_image") \in Seq(Token)
           /\ \A i \in 1..Len(Encode(text, "env", images, "env_image")) :
                Encode(text, "env", images, "env_image")[i]
                    \in {"env", "env_image"}
  <1>1. text \in Nat /\ "env" \in Token /\ "env_image" \in Token
    BY TurnsAssumption DEF Token
  <1> DEFINE e == Encode(text, "env", images, "env_image")
  <1>2. /\ e \in Seq(Token) /\ Len(e) = text + images
        /\ \A i \in 1..(text + images) : e[i] \in {"env", "env_image"}
    BY <1>1, EncodeProperties, ZenonT(60)
  <1> QED
    BY <1>2

\* Tool replies: appended below the limit, dropped otherwise.
LEMMA TokensToolReplies ==
    ASSUME TypeOK, TypeOK', TokensRight, HandleToolReplies
    PROVE  TokensRight'
  <1> USE DEF tokens
  <1>1. PICK text \in 1..MaxTurnText :
          LET turn == Encode(text, "env", PlaceholdersOf(ImageCalls),
                             "env_image")
          IN  IF Overflows(turn)
              THEN /\ state' = "terminated"
                   /\ UNCHANGED <<tokens, image_data, user_turns>>
              ELSE /\ state' = "generating"
                   /\ AppendEnvironment(turn)
    BY DEF HandleToolReplies
  <1> DEFINE turn == Encode(text, "env", PlaceholdersOf(ImageCalls),
                            "env_image")
  <1>2. /\ turn \in Seq(Token)
        /\ \A i \in 1..Len(turn) : turn[i] \in {"env", "env_image"}
    BY TurnImages, EncodedTurn
  <1> HIDE DEF turn
  <1>3. /\ state = "processing_tools" /\ config' = config
        /\ Len(response_mask) \in 1..(ResponseLength - 1)
    BY DEF HandleToolReplies, TokensRight, LengthsBounded
  <1>4. CASE Overflows(turn)
    <2>1. state' = "terminated" /\ UNCHANGED tokens
      BY <1>1, <1>4 DEF turn
    <2> QED
      BY <1>3, <2>1
      DEF TokensRight, MaskMarksGenerated, LogprobsFollowMask, NothingYet,
          LengthsBounded
  <1>5. CASE ~Overflows(turn)
    <2>1. state' = "generating" /\ AppendEnvironment(turn)
      BY <1>1, <1>5 DEF turn
    <2>2. response_mask # <<>>
      BY <1>3, EmptySeq
    <2>3. /\ MaskMarksGenerated' /\ LogprobsFollowMask'
          /\ Len(prompt_ids') - Len(response_mask') <= PromptLength
          /\ Len(response_mask') = Len(response_mask) + Len(turn)
          /\ Len(response_mask) \in Nat /\ Len(turn) \in Nat
      BY <1>2, <1>3, <2>1, <2>2, TokensEnvironment
    <2>4. Len(response_mask') < ResponseLength
      BY <1>5, <2>3, LengthsAssumption DEF Overflows
    <2> QED
      BY <2>1, <2>3, <2>4 DEF TokensRight, NothingYet, LengthsBounded
  <1> QED
    BY <1>4, <1>5

LEMMA TokensInteracting ==
    ASSUME TypeOK, TypeOK', TokensRight, HandleInteracting
    PROVE  TokensRight'
  <1>1. PICK text \in 1..MaxTurnText :
            AppendEnvironment(Encode(text, "env", 0, "env_image"))
    BY DEF HandleInteracting
  <1> DEFINE turn == Encode(text, "env", 0, "env_image")
  <1>2. /\ turn \in Seq(Token)
        /\ \A i \in 1..Len(turn) : turn[i] \in {"env", "env_image"}
    BY EncodedTurn
  <1>3. AppendEnvironment(turn)
    BY <1>1
  <1> HIDE DEF turn
  <1>4. /\ state = "interacting" /\ config' = config /\ config.interaction
        /\ state' \in {"terminated", "generating"}
        /\ Len(response_mask) \in 1..(ResponseLength - 1)
    BY DEF HandleInteracting, TokensRight, LengthsBounded
  <1>5. response_mask # <<>>
    BY <1>4, EmptySeq
  <1>6. /\ MaskMarksGenerated' /\ LogprobsFollowMask'
        /\ Len(prompt_ids') - Len(response_mask') <= PromptLength
        /\ Len(response_mask') = Len(response_mask) + Len(turn)
        /\ Len(response_mask) \in Nat /\ Len(turn) \in Nat
    BY <1>2, <1>3, <1>4, <1>5, TokensEnvironment
  <1>7. Len(response_mask') >= 1
    BY <1>4, <1>6, LengthsAssumption
  <1> QED
    BY <1>4, <1>6, <1>7 DEF TokensRight, NothingYet, LengthsBounded

\* The tokens, action by action.
LEMMA TokensNext ==
    ASSUME TypeOK, TokensRight, [Next]_vars
    PROVE  TokensRight'
  <1>1. TypeOK'
    BY TypesNext DEF TokensRight
  <1>2. CASE HandlePending
    BY <1>2, TokensPending
  <1>3. CASE HandleGenerating
    BY <1>3, TokensGenerating
  <1>4. CASE HandleToolReplies
    BY <1>1, <1>4, TokensToolReplies
  <1>5. CASE HandleInteracting
    BY <1>1, <1>5, TokensInteracting
  <1>6. ASSUME UNCHANGED <<config, tokens, turns>>,
               state' = state \/ state' = "failed"
        PROVE  TokensRight'
    BY <1>6
    DEF TokensRight, MaskMarksGenerated, LogprobsFollowMask, NothingYet,
        LengthsBounded, tokens, turns
  <1>7. CASE GenerateRejected \/ ToolReplyRejected \/ GatherRaises
    BY <1>6, <1>7 DEF GenerateRejected, ToolReplyRejected, GatherRaises
  <1>8. CASE StartCalls \/ Finalize \/ UNCHANGED vars
    BY <1>6, <1>8 DEF StartCalls, Finalize, vars, tokens, turns
  <1>9. ASSUME NEW c \in DOMAIN calls, CallTool(c)
        PROVE  TokensRight'
    BY <1>6, <1>9, CallToolTypes
  <1> QED
    BY <1>2, <1>3, <1>4, <1>5, <1>7, <1>8, <1>9 DEF Next

-----------------------------------------------------------------------------
(* The request and the result.                                             *)

LEMMA LengthsGiveRoom ==
    ASSUME TypeOK, LengthsBounded
    PROVE  RequestFits
  <1>1. Len(prompt_ids) \in Nat /\ Len(response_mask) \in Nat
    BY LenProperties DEF TypeOK
  <1> QED
    BY <1>1, LengthsAssumption DEF LengthsBounded, RequestFits, Budget, Least

\* Without a simulated user the last token the result can keep is one the
\* policy generated.
GeneratedEnd ==
    ~config.interaction /\ state \in {"processing_tools", "terminated"} =>
        response_mask[Least(ResponseLength, Len(response_mask))] = 1

LEMMA GeneratedEndNext ==
    ASSUME TypeOK, TokensRight, GeneratedEnd, [Next]_vars
    PROVE  GeneratedEnd'
  <1> USE DEF turns, tools, tokens
  <1>1. CASE HandleGenerating
    <2> SUFFICES ASSUME ~config.interaction
                 PROVE  response_mask'[Least(ResponseLength,
                                             Len(response_mask'))] = 1
      BY <1>1 DEF GeneratedEnd, HandleGenerating
    <2>1. Budget >= 1 /\ Len(response_mask) < ResponseLength
      BY <1>1, LengthsGiveRoom
      DEF HandleGenerating, TokensRight, RequestFits, LengthsBounded
    <2>2. PICK n \in IF Budget = 0 THEN {0} ELSE 1..Budget :
                response_mask' = response_mask \o Copies(1, n)
      BY <1>1 DEF HandleGenerating
    <2>3. n \in Nat /\ n >= 1
      BY <2>1, <2>2, BudgetType
    <2>4. /\ Copies(1, n) \in Seq({0, 1}) /\ Len(Copies(1, n)) = n
          /\ \A i \in 1..n : Copies(1, n)[i] = 1
      BY <2>3, CopiesProperties
    <2>5. /\ Len(response_mask') = Len(response_mask) + n
          /\ \A i \in 1..(Len(response_mask) + n) :
                response_mask'[i] = IF i <= Len(response_mask)
                                    THEN response_mask[i]
                                    ELSE Copies(1, n)[i - Len(response_mask)]
      BY <2>2, <2>4, MaskConcat DEF TypeOK
    <2> DEFINE j == Least(ResponseLength, Len(response_mask'))
    <2>6. /\ Len(response_mask) \in Nat
          /\ j \in 1..(Len(response_mask) + n)
          /\ ~(j <= Len(response_mask))
          /\ j - Len(response_mask) \in 1..n
      BY <2>1, <2>3, <2>5, LenProperties, LengthsAssumption DEF Least, TypeOK
    <2> HIDE DEF j
    <2>7. response_mask'[j] = 1
      BY <2>4, <2>5, <2>6
    <2> QED
      BY <2>7 DEF j
  <1>2. CASE HandleToolReplies
    <2>1. /\ state = "processing_tools" /\ config' = config
          /\ \/ state' = "generating"
             \/ state' = "terminated" /\ response_mask' = response_mask
      BY <1>2 DEF HandleToolReplies
    <2> QED
      BY <2>1 DEF GeneratedEnd
  <1>3. CASE HandleInteracting
    BY <1>3 DEF HandleInteracting, GeneratedEnd, TokensRight, LengthsBounded
  <1>4. CASE \/ HandlePending \/ GenerateRejected
             \/ ToolReplyRejected \/ GatherRaises
    BY <1>4
    DEF HandlePending, GenerateRejected, ToolReplyRejected, GatherRaises,
        GeneratedEnd
  <1>5. CASE StartCalls \/ Finalize \/ UNCHANGED vars
    BY <1>5 DEF StartCalls, Finalize, vars, GeneratedEnd
  <1>6. ASSUME NEW c \in DOMAIN calls, CallTool(c)
        PROVE  GeneratedEnd'
    BY <1>6, CallToolTypes DEF GeneratedEnd
  <1> QED
    BY <1>1, <1>2, <1>3, <1>4, <1>5, <1>6 DEF Next

\* The result, once there is one.
ResultRight ==
    /\ output # NoOutput => state = "terminated"
    /\ OutputFaithful
    /\ EndsWithGenerated

LEMMA FinalizeRight ==
    ASSUME TypeOK, TokensRight, GeneratedEnd, Finalize
    PROVE  ResultRight'
  <1> DEFINE m == Len(response_mask)
             k == Least(ResponseLength, m)
             response == LastOf(prompt_ids, m)
  <1>1. /\ m \in Nat /\ m >= 1 /\ m <= Len(prompt_ids)
        /\ Len(prompt_ids) \in Nat
        /\ ResponseLength \in Nat
        /\ k \in 1..ResponseLength /\ k \in 1..m
    BY LenProperties, LengthsAssumption
    DEF Finalize, TypeOK, TokensRight, LengthsBounded, MaskMarksGenerated, Least
  <1> HIDE DEF m, k
  <1>2. /\ output'.prompt_ids = DropLast(prompt_ids, m)
        /\ output'.response_ids = FirstOf(response, ResponseLength)
        /\ output'.response_mask = FirstOf(response_mask, ResponseLength)
        /\ output'.response_logprobs = FirstOf(response_logprobs, ResponseLength)
        /\ state' = "terminated" /\ config' = config /\ state = "terminated"
    BY DEF Finalize, m
  <1>3. /\ DropLast(prompt_ids, m) \in Seq(Token)
        /\ Len(DropLast(prompt_ids, m)) = Len(prompt_ids) - m
        /\ \A i \in 1..(Len(prompt_ids) - m) :
                DropLast(prompt_ids, m)[i] = prompt_ids[i]
        /\ response \in Seq(Token) /\ Len(response) = m
        /\ \A i \in 1..m : response[i] = prompt_ids[Len(prompt_ids) - m + i]
    <2>1. prompt_ids \in Seq(Token)
      BY DEF TypeOK
    <2>2. /\ DropLast(prompt_ids, m) \in Seq(Token)
          /\ Len(DropLast(prompt_ids, m)) = Len(prompt_ids) - m
          /\ \A i \in 1..(Len(prompt_ids) - m) :
                DropLast(prompt_ids, m)[i] = prompt_ids[i]
          /\ LastOf(prompt_ids, m) \in Seq(Token)
          /\ m # 0 => /\ Len(LastOf(prompt_ids, m)) = m
                      /\ \A i \in 1..m : LastOf(prompt_ids, m)[i]
                                            = prompt_ids[Len(prompt_ids) - m + i]
      BY <1>1, <2>1, SliceProperties
    <2> QED
      BY <1>1, <2>2
  <1> HIDE DEF response
  <1>4. /\ FirstOf(response, ResponseLength) \in Seq(Token)
        /\ Len(FirstOf(response, ResponseLength)) = k
        /\ \A i \in 1..k : FirstOf(response, ResponseLength)[i] = response[i]
    BY <1>1, <1>3, FirstOfProperties DEF k
  <1>5. /\ Len(FirstOf(response_mask, ResponseLength)) = k
        /\ \A i \in 1..k :
                FirstOf(response_mask, ResponseLength)[i] = response_mask[i]
    BY <1>1, FirstOfProperties DEF k, m, TypeOK
  <1>6. \A i \in DOMAIN output'.prompt_ids :
            output'.prompt_ids[i] \in {"prompt", "prompt_image"}
    <2> SUFFICES ASSUME NEW i \in DOMAIN DropLast(prompt_ids, m)
                 PROVE  DropLast(prompt_ids, m)[i] \in {"prompt", "prompt_image"}
      BY <1>2
    <2>1. i \in 1..(Len(prompt_ids) - m)
      BY <1>3, LenProperties
    <2>2. Aligned(prompt_ids, response_mask)
      BY AlignedIsMaskMarksGenerated DEF TokensRight
    <2> QED
      BY <1>3, <2>1, <2>2 DEF Aligned, PromptToken, m
  <1>7. \A i \in 1..k : FirstOf(response_mask, ResponseLength)[i] = 1
                <=> FirstOf(response, ResponseLength)[i] = "generated"
    <2> TAKE i \in 1..k
    <2>1. /\ i \in 1..m /\ Len(prompt_ids) - m + i \in 1..Len(prompt_ids)
          /\ Len(prompt_ids) - m + i > Len(prompt_ids) - m
          /\ Len(prompt_ids) - m + i - (Len(prompt_ids) - m) = i
      BY <1>1
    <2>2. Aligned(prompt_ids, response_mask)
      BY AlignedIsMaskMarksGenerated DEF TokensRight
    <2>3. response_mask[i] = 1 <=> prompt_ids[Len(prompt_ids) - m + i] = "generated"
      BY <2>1, <2>2 DEF Aligned, m
    <2> QED
      BY <1>3, <1>4, <1>5, <2>1, <2>3
  <1>8. config.logprobs =>
            Len(output'.response_logprobs) = Len(output'.response_mask)
    <2> SUFFICES ASSUME config.logprobs
                 PROVE  Len(FirstOf(response_logprobs, ResponseLength)) = k
      BY <1>2, <1>5
    <2>1. Len(response_logprobs) = m
      BY DEF TokensRight, LogprobsFollowMask, m
    <2> QED
      BY <1>1, <2>1, FirstOfProperties DEF k, TypeOK
  <1>9. OutputFaithful'
    <2>1. DOMAIN output'.response_ids = 1..k
      BY <1>2, <1>4, LenProperties
    <2> QED
      BY <1>1, <1>2, <1>4, <1>5, <1>6, <1>7, <1>8, <2>1 DEF OutputFaithful
  <1>10. EndsWithGenerated'
    <2>1. ~config.interaction => response_mask[k] = 1
      BY <1>2 DEF GeneratedEnd, k, m
    <2> QED
      BY <1>1, <1>2, <1>5, <2>1 DEF EndsWithGenerated
  <1> QED
    BY <1>2, <1>9, <1>10 DEF ResultRight

LEMMA ResultNext ==
    ASSUME TypeOK, TokensRight, GeneratedEnd, ResultRight, [Next]_vars
    PROVE  ResultRight'
  <1> USE DEF turns, tools, tokens
  <1>1. CASE Finalize
    BY <1>1, FinalizeRight
  <1>2. ASSUME output' = output, config' = config,
               state = "terminated" => state' = state
        PROVE  ResultRight'
    BY <1>2 DEF ResultRight, OutputFaithful, EndsWithGenerated
  <1>3. CASE \/ HandlePending \/ GenerateRejected \/ HandleGenerating
             \/ StartCalls \/ GatherRaises \/ ToolReplyRejected
             \/ HandleToolReplies \/ HandleInteracting \/ UNCHANGED vars
    BY <1>2, <1>3
    DEF HandlePending, GenerateRejected, HandleGenerating, StartCalls,
        GatherRaises, ToolReplyRejected, HandleToolReplies,
        HandleInteracting, vars
  <1>4. ASSUME NEW c \in DOMAIN calls, CallTool(c)
        PROVE  ResultRight'
    BY <1>2, <1>4, CallToolTypes
  <1> QED
    BY <1>1, <1>3, <1>4 DEF Next

-----------------------------------------------------------------------------
(* The inductive invariant and the theorems.                               *)

Inv ==
    /\ TypeOK
    /\ TokensRight
    /\ CallsTracked
    /\ TurnsCounted
    /\ TurnLimits
    /\ GeneratedEnd
    /\ ResultRight

LEMMA InvInit == Init => Inv
  <1> SUFFICES ASSUME Init
               PROVE  Inv
    OBVIOUS
  <1> USE LengthsAssumption, TurnsAssumption, EmptySeq
  <1>1. /\ Len(prompt_ids) = 0 /\ Len(response_mask) = 0
        /\ Len(response_logprobs) = 0 /\ DOMAIN calls = {}
    BY DEF Init
  <1>2. TypeOK
    BY DEF Init, TypeOK, AgentState
  <1>3. MaskMarksGenerated
    BY <1>1 DEF MaskMarksGenerated
  <1>4. LogprobsFollowMask
    BY <1>1 DEF Init, LogprobsFollowMask
  <1>5. NothingYet /\ LengthsBounded /\ CallsTracked
    BY <1>1 DEF Init, NothingYet, LengthsBounded, CallsTracked
  <1>6. TurnsCounted /\ TurnLimits
    BY ConfigTypes DEF Init, TurnsCounted, TurnLimits
  <1>7. GeneratedEnd /\ ResultRight
    BY DEF Init, GeneratedEnd, ResultRight, OutputFaithful, EndsWithGenerated
  <1> QED
    BY <1>2, <1>3, <1>4, <1>5, <1>6, <1>7 DEF Inv, TokensRight

LEMMA InvNext == Inv /\ [Next]_vars => Inv'
  <1> SUFFICES ASSUME Inv, [Next]_vars
               PROVE  Inv'
    OBVIOUS
  <1>1. TypeOK' /\ TokensRight'
    BY TypesNext, TokensNext DEF Inv, TokensRight
  <1>2. CallsTracked'
    BY CallsNext DEF Inv
  <1>3. TurnsCounted' /\ TurnLimits'
    BY TurnsNext DEF Inv, TokensRight
  <1>4. GeneratedEnd' /\ ResultRight'
    BY GeneratedEndNext, ResultNext DEF Inv
  <1> QED
    BY <1>1, <1>2, <1>3, <1>4 DEF Inv

LEMMA Invariance == Spec => []Inv
  BY InvInit, InvNext, PTL DEF Spec

\* The fields of AgentData, the running calls and the result have their types
\* through any number of turns.
THEOREM LoopTypeOK == Spec => []TypeOK
  BY Invariance, PTL DEF Inv

\* The response mask covers the tokens after the initial prompt and is 1 at
\* exactly those the policy generated, in every state of the loop.
THEOREM LoopMasksEnvironment == Spec => []MaskMarksGenerated
  <1>1. Inv => MaskMarksGenerated
    BY DEF Inv, TokensRight
  <1> QED
    BY <1>1, Invariance, PTL

\* Log-probabilities, when asked for, are as long as the mask, real at the
\* generated tokens and filler elsewhere; otherwise there are none.
THEOREM LoopLogprobsFollowMask == Spec => []LogprobsFollowMask
  <1>1. Inv => LogprobsFollowMask
    BY DEF Inv, TokensRight
  <1> QED
    BY <1>1, Invariance, PTL

\* Without a simulated user each request to the server leaves room for at
\* least one token, so none is rejected for its length.
THEOREM LoopRequestFits == Spec => []RequestFits
  <1>1. Inv => RequestFits
    BY LengthsGiveRoom DEF Inv, TokensRight
  <1> QED
    BY <1>1, Invariance, PTL

\* Whatever the concurrent tool calls do, a tool instance that is held belongs
\* to a call that is going to release it or that raised, and a trajectory
\* that has not failed leaves none behind when it leaves the turn.
THEOREM LoopReleasesInstances == Spec => []NoLeakedInstance
  <1>1. Inv => NoLeakedInstance
    BY EmptySeq DEF Inv, CallsTracked, NoLeakedInstance
  <1> QED
    BY <1>1, Invariance, PTL

\* The configured limits of assistant and user turns hold, and the two kinds
\* of turn alternate.
THEOREM LoopTurnLimits == Spec => []TurnLimits
  BY Invariance, PTL DEF Inv

\* The result splits the tokens where the initial prompt ends, and its ids,
\* mask and log-probabilities stay aligned after the cut to response_length.
THEOREM LoopOutputFaithful == Spec => []OutputFaithful
  <1>1. Inv => OutputFaithful
    BY DEF Inv, ResultRight
  <1> QED
    BY <1>1, Invariance, PTL

\* Without a simulated user a result ends with a token of the policy.
THEOREM LoopEndsWithGenerated == Spec => []EndsWithGenerated
  <1>1. Inv => EndsWithGenerated
    BY DEF Inv, ResultRight
  <1> QED
    BY <1>1, Invariance, PTL

-----------------------------------------------------------------------------
(* Images.                                                                 *)

Placeholders(ids) == {i \in 1..Len(ids) : ids[i] \in ImageToken}

LEMMA PlaceholdersFinite ==
    ASSUME NEW ids \in Seq(Token)
    PROVE  /\ IsFiniteSet(Placeholders(ids))
           /\ Cardinality(Placeholders(ids)) \in Nat
  <1>1. IsFiniteSet(1..Len(ids))
    BY LenProperties, FS_Interval
  <1> QED
    BY <1>1, FS_Subset, FS_CardinalityType DEF Placeholders

\* The placeholders of a turn follow those of the tokens before it.
LEMMA PlaceholdersConcat ==
    ASSUME NEW s \in Seq(Token), NEW t \in Seq(Token)
    PROVE  Cardinality(Placeholders(s \o t))
            = Cardinality(Placeholders(s)) + Cardinality(Placeholders(t))
  <1> DEFINE n == Len(s)
             moved == {i \in (n + 1)..(n + Len(t)) : t[i - n] \in ImageToken}
             shift == [j \in Placeholders(t) |-> n + j]
  <1>1. n \in Nat /\ Len(t) \in Nat
    BY LenProperties
  <1>2. /\ s \o t \in Seq(Token) /\ Len(s \o t) = n + Len(t)
        /\ \A i \in 1..(n + Len(t)) :
            (s \o t)[i] = IF i <= n THEN s[i] ELSE t[i - n]
    BY ConcatProperties
  <1>3. Placeholders(s \o t) = Placeholders(s) \union moved
    BY <1>1, <1>2 DEF Placeholders
  <1>4. Placeholders(s) \cap moved = {}
    BY <1>1 DEF Placeholders
  <1>5. shift \in Bijection(Placeholders(t), moved)
    <2>1. shift \in [Placeholders(t) -> moved]
      BY <1>1 DEF Placeholders
    <2>2. \A i, j \in Placeholders(t) : shift[i] = shift[j] => i = j
      BY <1>1 DEF Placeholders
    <2>3. ASSUME NEW i \in moved PROVE \E j \in Placeholders(t) : shift[j] = i
      <3>1. i - n \in Placeholders(t)
        BY <1>1 DEF Placeholders
      <3>2. shift[i - n] = i
        BY <1>1, <3>1
      <3> QED
        BY <3>1, <3>2
    <2> QED
      BY <2>1, <2>2, <2>3 DEF Bijection, Injection, Surjection, IsInjective
  <1> HIDE DEF moved, shift
  <1>6. /\ IsFiniteSet(Placeholders(s)) /\ Cardinality(Placeholders(s)) \in Nat
        /\ IsFiniteSet(Placeholders(t)) /\ Cardinality(Placeholders(t)) \in Nat
    BY PlaceholdersFinite
  <1>7. IsFiniteSet(moved) /\ Cardinality(moved) = Cardinality(Placeholders(t))
    BY <1>5, <1>6, FS_Bijection DEF ExistsBijection
  <1>8. Cardinality(Placeholders(s) \union moved)
            = Cardinality(Placeholders(s)) + Cardinality(moved)
                - Cardinality(Placeholders(s) \cap moved)
    BY <1>6, <1>7, FS_Union
  <1>9. Cardinality(Placeholders(s) \cap moved) = 0
    BY <1>4, FS_EmptySet
  <1> QED
    BY <1>3, <1>6, <1>7, <1>8, <1>9

\* A turn with k image placeholders has k.
LEMMA PlaceholdersEncode ==
    ASSUME NEW text \in Nat, NEW k \in Nat,
           NEW t \in Token \ ImageToken, NEW u \in ImageToken
    PROVE  Cardinality(Placeholders(Encode(text, t, k, u))) = k
  <1> DEFINE turn == Encode(text, t, k, u)
  <1>1. turn \in Seq(Token) /\ Len(turn) = text + k
    <2>1. t \in Token /\ u \in Token
      BY DEF Token, ImageToken
    <2> QED
      BY <2>1, EncodeProperties
  <1>2. \A i \in 1..(text + k) : turn[i] = IF i <= text THEN t ELSE u
    BY DEF Encode
  <1> HIDE DEF turn
  <1>3. Placeholders(turn) = (text + 1)..(text + k)
    BY <1>1, <1>2 DEF Placeholders
  <1>4. Cardinality((text + 1)..(text + k)) = k
    <2>1. text + 1 \in Int /\ text + k \in Int
      OBVIOUS
    <2>2. Cardinality((text + 1)..(text + k)) =
            IF text + 1 > text + k THEN 0 ELSE (text + k) - (text + 1) + 1
      BY <2>1, FS_Interval
    <2> QED
      BY <2>2
  <1> QED
    BY <1>3, <1>4 DEF turn

\* What the policy generates has none.
LEMMA PlaceholdersGenerated ==
    ASSUME NEW n \in Nat
    PROVE  /\ Copies("generated", n) \in Seq(Token)
           /\ Cardinality(Placeholders(Copies("generated", n))) = 0
  <1>1. /\ Copies("generated", n) \in Seq(Token)
        /\ Len(Copies("generated", n)) = n
        /\ \A i \in 1..n : Copies("generated", n)[i] = "generated"
    BY CopiesProperties DEF Token
  <1>2. Placeholders(Copies("generated", n)) = {}
    BY <1>1 DEF Placeholders, ImageToken
  <1> QED
    BY <1>1, <1>2, FS_EmptySet

\* A call holds no reply or one a tool may give.
RepliesGiven ==
    \A c \in DOMAIN calls : calls[c].reply \in ToolReply \union {NoReply}

LEMMA RepliesNext ==
    ASSUME TypeOK, RepliesGiven, [Next]_vars
    PROVE  RepliesGiven'
  <1> USE DEF RepliesGiven
  <1>0. config' = config /\ ToolReply' = ToolReply
    <2>1. config' = config
      BY ConfigFixed
    <2> QED
      BY <2>1 DEF ToolReply
  <1>1. CASE StartCalls
    BY <1>0, <1>1 DEF StartCalls, Copies
  <1>2. ASSUME NEW c \in DOMAIN calls, CallTool(c)
        PROVE  RepliesGiven'
    <2>1. /\ c \in 1..Len(calls) /\ DOMAIN calls = 1..Len(calls)
          /\ DOMAIN calls' = DOMAIN calls
          /\ \A d \in DOMAIN calls : d # c => calls'[d] = calls[d]
      BY <1>2, CallToolTypes, LenProperties DEF TypeOK
    <2>2. calls'[c].reply \in ToolReply \union {NoReply}
      <3>1. calls[c] \in Call /\ calls[c].reply \in ToolReply \union {NoReply}
        BY <2>1, ElementOfSeq DEF TypeOK
      <3>2. CASE CreateTool(c)
        BY <2>1, <3>2 DEF CreateTool, ToolReply
      <3>3. CASE ExecuteTool(c)
        BY <2>1, <3>3 DEF ExecuteTool
      <3>4. CASE ReleaseTool(c)
        BY <2>1, <3>1, <3>4 DEF ReleaseTool, Call
      <3> QED
        BY <1>2, <3>2, <3>3, <3>4 DEF CallTool
    <2> QED
      BY <1>0, <2>1, <2>2
  <1>3. CASE ToolReplyRejected \/ HandleToolReplies
    BY <1>0, <1>3, EmptySeq DEF ToolReplyRejected, HandleToolReplies
  <1>4. CASE \/ HandlePending \/ GenerateRejected \/ HandleGenerating
             \/ GatherRaises \/ HandleInteracting \/ Finalize
             \/ UNCHANGED vars
    BY <1>0, <1>4 DEF HandlePending, GenerateRejected, HandleGenerating,
                GatherRaises, HandleInteracting, Finalize, vars, tools
  <1> QED
    BY <1>1, <1>2, <1>3, <1>4 DEF Next

\* Where each list holds one image, a turn has as many images as messages
\* with a list.
LEMMA SingleImages ==
    ASSUME TypeOK, RepliesGiven, config.list_sizes = {1}
    PROVE  NewImages = PlaceholdersOf(ImageCalls)
  <1> DEFINE images == {p \in (DOMAIN calls) \X (1..MaxImagesPerCall) :
                            p[2] <= calls[p[1]].reply.images}
             image == [c \in ImageCalls |-> <<c, 1>>]
  <1>1. MaxImagesPerCall \in Nat /\ 1 \in 1..MaxImagesPerCall
    <2>1. {1} \subseteq 0..MaxImagesPerCall
      BY ConfigTypes DEF TypeOK
    <2> QED
      BY <2>1, TurnsAssumption
  <1>2. \A c \in DOMAIN calls :
            /\ calls[c].reply.kind = "image" => calls[c].reply.images = 1
            /\ calls[c].reply.kind # "image" => calls[c].reply.images = 0
    BY DEF RepliesGiven, ToolReply, NoReply, ErrorReply
  <1>3. image \in Bijection(ImageCalls, images)
    <2>1. image \in [ImageCalls -> images]
      BY <1>1, <1>2 DEF ImageCalls
    <2>2. \A c, d \in ImageCalls : image[c] = image[d] => c = d
      OBVIOUS
    <2>3. ASSUME NEW p \in images PROVE \E c \in ImageCalls : image[c] = p
      <3>1. /\ p[1] \in DOMAIN calls /\ p[2] \in 1..MaxImagesPerCall
            /\ p = <<p[1], p[2]>> /\ p[2] <= calls[p[1]].reply.images
        OBVIOUS
      <3>2. calls[p[1]].reply.kind = "image"
        BY <1>1, <1>2, <3>1
      <3>3. p[2] = 1
        BY <1>1, <1>2, <3>1, <3>2
      <3> QED
        BY <3>1, <3>2, <3>3 DEF ImageCalls
    <2> QED
      BY <2>1, <2>2, <2>3 DEF Bijection, Injection, Surjection, IsInjective
  <1>4. IsFiniteSet(ImageCalls)
    <2>1. IsFiniteSet(DOMAIN calls)
      <3>1. calls \in Seq(Call)
        BY DEF TypeOK
      <3>2. Len(calls) \in Nat /\ DOMAIN calls = 1..Len(calls)
        BY <3>1, LenProperties
      <3> QED
        BY <3>2, FS_Interval
    <2> QED
      BY <2>1, FS_Subset DEF ImageCalls
  <1> HIDE DEF image, images
  <1>5. Cardinality(images) = Cardinality(ImageCalls)
    BY <1>3, <1>4, FS_Bijection DEF ExistsBijection
  <1> QED
    BY <1>5 DEF NewImages, PlaceholdersOf, images

LEMMA ImagesNext ==
    ASSUME TypeOK, NothingYet, RepliesGiven, ImagesMatchPlaceholders,
           config.list_sizes = {1}, [Next]_vars
    PROVE  ImagesMatchPlaceholders'
  <1>0. config' = config
    BY ConfigFixed
  <1> DEFINE count == Cardinality(Placeholders(prompt_ids))
  <1>1. ImagesMatchPlaceholders <=>
            count = IF state = "pending" THEN 0 ELSE image_data
    BY DEF ImagesMatchPlaceholders, Placeholders
  <1>2. ImagesMatchPlaceholders' <=>
            count' = (IF state = "pending" THEN 0 ELSE image_data)'
    BY <1>0 DEF ImagesMatchPlaceholders, Placeholders
  <1>3. ASSUME UNCHANGED <<prompt_ids, image_data>>,
               (state = "pending") <=> (state' = "pending")
        PROVE  ImagesMatchPlaceholders'
    BY <1>1, <1>2, <1>3
  <1>4. CASE HandlePending
    <2>1. PICK text \in 1..PromptLength :
            prompt_ids' = Encode(text, "prompt", image_data, "prompt_image")
      BY <1>4 DEF HandlePending
    <2>2. state' = "generating" /\ image_data' = image_data
      BY <1>4 DEF HandlePending
    <2>3. text \in Nat /\ image_data \in Nat
      BY LengthsAssumption DEF TypeOK
    <2>4. count' = image_data
      BY <2>1, <2>3, PlaceholdersEncode DEF Token, ImageToken
    <2> QED
      BY <1>2, <2>2, <2>4
  <1>5. CASE HandleGenerating
    <2>1. PICK n \in IF Budget = 0 THEN {0} ELSE 1..Budget :
            prompt_ids' = prompt_ids \o Copies("generated", n)
      BY <1>5 DEF HandleGenerating
    <2>2. n \in Nat
      BY BudgetType
    <2>3. /\ state = "generating" /\ state' # "pending"
          /\ image_data' = image_data
      BY <1>5 DEF HandleGenerating, StateAfterGeneration
    <2>4. count' = count
      BY <2>1, <2>2, PlaceholdersGenerated, PlaceholdersConcat,
         PlaceholdersFinite DEF TypeOK
    <2> QED
      BY <1>1, <1>2, <2>3, <2>4
  <1>6. CASE HandleToolReplies
    <2> DEFINE k == PlaceholdersOf(ImageCalls)
    <2>1. PICK text \in 1..MaxTurnText :
            LET turn == Encode(text, "env", k, "env_image")
            IN  IF Overflows(turn)
                THEN /\ state' = "terminated"
                     /\ UNCHANGED <<tokens, image_data, user_turns>>
                ELSE /\ state' = "generating"
                     /\ AppendEnvironment(turn)
                     /\ image_data' = image_data + NewImages
                     /\ user_turns' = user_turns + 1
      BY <1>6 DEF HandleToolReplies
    <2> DEFINE turn == Encode(text, "env", k, "env_image")
    <2>2. /\ state = "processing_tools" /\ k \in Nat /\ NewImages = k
          /\ turn \in Seq(Token) /\ text \in Nat
      BY <1>6, TurnImages, SingleImages, TurnsAssumption DEF HandleToolReplies
    <2>3. Cardinality(Placeholders(turn)) = k
      BY <2>2, PlaceholdersEncode DEF Token, ImageToken
    <2> HIDE DEF turn, k
    <2>4. CASE Overflows(turn)
      BY <1>3, <2>1, <2>2, <2>4 DEF turn, tokens
    <2>5. CASE ~Overflows(turn)
      <3>1. /\ state' = "generating" /\ prompt_ids' = prompt_ids \o turn
            /\ image_data' = image_data + k
        BY <2>1, <2>2, <2>5 DEF turn, AppendEnvironment
      <3>2. count' = count + k
        BY <2>2, <2>3, <3>1, PlaceholdersConcat DEF TypeOK
      <3> QED
        BY <1>1, <1>2, <2>2, <3>1, <3>2
    <2> QED
      BY <2>4, <2>5
  <1>7. CASE HandleInteracting
    <2>1. PICK text \in 1..MaxTurnText :
            AppendEnvironment(Encode(text, "env", 0, "env_image"))
      BY <1>7 DEF HandleInteracting
    <2> DEFINE turn == Encode(text, "env", 0, "env_image")
    <2>2. /\ state = "interacting" /\ state' # "pending"
          /\ image_data' = image_data
      BY <1>7 DEF HandleInteracting
    <2>3. text \in Nat
      BY TurnsAssumption
    <2>4. turn \in Seq(Token) /\ Cardinality(Placeholders(turn)) = 0
      <3>1. /\ "env" \in Token \ ImageToken /\ "env_image" \in ImageToken
            /\ "env_image" \in Token /\ 0 \in Nat
        BY DEF Token, ImageToken
      <3>2. turn \in Seq(Token)
        BY <2>3, <3>1, EncodeProperties
      <3>3. Cardinality(Placeholders(turn)) = 0
        BY <2>3, <3>1, PlaceholdersEncode
      <3> QED
        BY <3>2, <3>3
    <2>5. prompt_ids' = prompt_ids \o turn
      BY <2>1 DEF AppendEnvironment
    <2> HIDE DEF turn
    <2>6. count' = count
      BY <2>4, <2>5, PlaceholdersConcat, PlaceholdersFinite DEF TypeOK
    <2> QED
      BY <1>1, <1>2, <2>2, <2>6
  <1>8. CASE \/ GenerateRejected \/ StartCalls \/ GatherRaises
             \/ ToolReplyRejected \/ Finalize
    BY <1>3, <1>8 DEF GenerateRejected, StartCalls, GatherRaises,
                      ToolReplyRejected, Finalize, tokens
  <1>9. ASSUME NEW c \in DOMAIN calls, CallTool(c)
        PROVE  ImagesMatchPlaceholders'
    <2>1. UNCHANGED <<state, tokens, image_data>>
      BY <1>9, CallToolTypes
    <2> QED
      BY <1>3, <2>1 DEF tokens
  <1>10. CASE UNCHANGED vars
    BY <1>3, <1>10 DEF vars
  <1> QED
    BY <1>4, <1>5, <1>6, <1>7, <1>8, <1>9, <1>10 DEF Next

\* Where each list a tool answers with holds one image, the images that are
\* sent beside the tokens are as many as the placeholders in them, through
\* any number of turns and of concurrent calls.
THEOREM LoopImagesMatchPlaceholders == Spec => []ImagesMatchPlaceholders
  <1>1. Init => RepliesGiven /\ ImagesMatchPlaceholders
    <2> SUFFICES ASSUME Init PROVE RepliesGiven /\ ImagesMatchPlaceholders
      OBVIOUS
    <2>1. DOMAIN calls = {} /\ Len(prompt_ids) = 0 /\ state = "pending"
      BY EmptySeq DEF Init
    <2>2. {i \in 1..Len(prompt_ids) : prompt_ids[i] \in ImageToken} = {}
      BY <2>1
    <2> QED
      BY <2>1, <2>2, FS_EmptySet DEF RepliesGiven, ImagesMatchPlaceholders
  <1>2. Inv /\ RepliesGiven /\ ImagesMatchPlaceholders /\ [Next]_vars
            => RepliesGiven' /\ ImagesMatchPlaceholders'
    <2> SUFFICES ASSUME Inv, RepliesGiven, ImagesMatchPlaceholders, [Next]_vars
                 PROVE  RepliesGiven' /\ ImagesMatchPlaceholders'
      OBVIOUS
    <2>1. RepliesGiven' /\ config' = config
      BY RepliesNext, ConfigFixed DEF Inv
    <2>2. CASE config.list_sizes = {1}
      BY <2>1, <2>2, ImagesNext DEF Inv, TokensRight
    <2>3. CASE config.list_sizes # {1}
      BY <2>1, <2>3 DEF ImagesMatchPlaceholders
    <2> QED
      BY <2>1, <2>2, <2>3
  <1> QED
    BY <1>1, <1>2, Invariance, PTL DEF Spec
=============================================================================
