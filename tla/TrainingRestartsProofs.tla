----------------------- MODULE TrainingRestartsProofs -----------------------
(***************************************************************************)
(* Proofs about a training run that is killed and started again, for any   *)
(* number of ranks, batches, passes, steps, crashes and any choice of      *)
(* save_freq, critic_warmup and kept checkpoints.                          *)
(*                                                                         *)
(* Base holds of every run: types, what bounds the steps (BoundInv), and   *)
(* when the other ranks of a supervised run may still be writing           *)
(* (OpenInv).  Core is inductive while the run is protected: as long as it *)
(* keeps more than one checkpoint of each model, or was never killed.  It  *)
(* says: how far the passes of the data loader bound the steps (PassInv),  *)
(* which batch comes next (OrderInv), that the run in memory is like the   *)
(* uninterrupted one (StepInv), that a retention list is never ahead of    *)
(* the tracker but for the step being saved, which is why the newest entry *)
(* that is named survives both removals of a save if two are kept          *)
(* (PathsInv), which files of that step are whole at which point of the    *)
(* save (FilesInv), and that what the tracker names is whole (TrackedInv). *)
(*                                                                         *)
(* How a run ends needs two more: a pass is never further ahead than the   *)
(* steps allow (LowerInv), and a restart trains at most one step more than *)
(* configured, which is named before the run goes on (LastInv).  Retention *)
(* counts apart what the process still lists and what the ones before it   *)
(* left behind (RetainInv).                                                *)
(***************************************************************************)
EXTENDS TrainingRestarts, FiniteSetTheorems, SequenceTheorems, TLAPS

LEMMA Times ==
    ASSUME NEW b \in Nat \ {0}, NEW q \in Int, NEW p \in Int, q > p
    PROVE  b * q >= b * p + b
  <1>1. q - p - 1 \in Nat
    OBVIOUS
  <1>2. b * (q - p - 1) \in Nat
    BY <1>1
  <1>3. b * (q - p - 1) = b * q - b * p - b
    OBVIOUS
  <1>4. b * q \in Int /\ b * p \in Int
    OBVIOUS
  <1> QED
    BY <1>2, <1>3, <1>4

LEMMA DivMod ==
    ASSUME NEW b \in Nat \ {0}, NEW n \in Nat
    PROVE  /\ n % b \in 0..(b - 1) /\ n \div b \in Nat
           /\ n = b * (n \div b) + (n % b)
  OBVIOUS

LEMMA DivModUnique ==
    ASSUME NEW b \in Nat \ {0}, NEW q \in Nat, NEW r \in 0..(b - 1)
    PROVE  /\ (b * q + r) % b = r
           /\ (b * q + r) \div b = q
  <1> DEFINE n == b * q + r
             p == n \div b
             t == n % b
  <1>1. n \in Nat /\ b * q \in Nat
    OBVIOUS
  <1>2. t \in 0..(b - 1) /\ p \in Nat /\ n = b * p + t
    BY <1>1, DivMod
  <1> HIDE DEF p, t
  <1>3. b * p \in Nat
    BY <1>2
  <1>4. ~(q > p)
    <2> SUFFICES ASSUME q > p PROVE FALSE
      OBVIOUS
    <2>1. b * q >= b * p + b
      BY <1>2, Times
    <2> QED
      BY <1>1, <1>2, <1>3, <2>1
  <1>5. ~(p > q)
    <2> SUFFICES ASSUME p > q PROVE FALSE
      OBVIOUS
    <2>1. b * p >= b * q + b
      BY <1>2, Times
    <2> QED
      BY <1>1, <1>2, <1>3, <2>1
  <1>6. p = q
    BY <1>2, <1>4, <1>5
  <1>7. t = r
    BY <1>1, <1>2, <1>6
  <1> QED
    BY <1>6, <1>7 DEF p, t

LEMMA BatchBounds ==
    ASSUME NEW s \in Nat \ {0}
    PROVE  BatchOf(s) \in 1..Batches
  <1>1. s - 1 \in Nat
    OBVIOUS
  <1>2. (s - 1) % Batches \in 0..(Batches - 1)
    BY <1>1, DivMod, SizesAssumption
  <1> QED
    BY <1>2, SizesAssumption DEF BatchOf

\* The batch after the last one of a pass is the first, else the next one.
LEMMA BatchNext ==
    ASSUME NEW s \in Nat \ {0}
    PROVE  /\ BatchOf(s) < Batches => BatchOf(s + 1) = BatchOf(s) + 1
           /\ BatchOf(s) = Batches => BatchOf(s + 1) = 1
  <1> DEFINE q == (s - 1) \div Batches
             r == (s - 1) % Batches
  <1>1. s - 1 \in Nat /\ Batches \in Nat \ {0}
    BY SizesAssumption
  <1>2. r \in 0..(Batches - 1) /\ q \in Nat /\ s - 1 = Batches * q + r
    BY <1>1, DivMod
  <1>3. BatchOf(s) = r + 1 /\ BatchOf(s + 1) = (s % Batches) + 1
    BY DEF BatchOf
  <1> HIDE DEF q, r
  <1>4. Batches * q \in Nat
    BY <1>1, <1>2
  <1>5. ASSUME r + 1 < Batches
        PROVE  s % Batches = r + 1
    <2>1. r + 1 \in 0..(Batches - 1) /\ s = Batches * q + (r + 1)
      BY <1>1, <1>2, <1>4, <1>5
    <2> QED
      BY <1>1, <1>2, <2>1, DivModUnique
  <1>6. ASSUME r + 1 = Batches
        PROVE  s % Batches = 0
    <2>1. Batches * (q + 1) = Batches * q + Batches
      BY <1>1, <1>2
    <2>2. s = Batches * (q + 1) + 0 /\ 0 \in 0..(Batches - 1) /\ q + 1 \in Nat
      BY <1>1, <1>2, <1>4, <1>6, <2>1
    <2> QED
      BY <1>1, <2>2, DivModUnique
  <1> QED
    BY <1>1, <1>2, <1>3, <1>5, <1>6

LEMMA BatchOne == BatchOf(1) = 1
  <1>1. 0 = Batches * 0 + 0 /\ 0 \in 0..(Batches - 1) /\ Batches \in Nat \ {0}
    BY SizesAssumption
  <1>2. 0 % Batches = 0
    BY <1>1, DivModUnique
  <1> QED
    BY <1>2 DEF BatchOf

\* The number of a batch tells its place and its pass.
LEMMA BatchPlace ==
    ASSUME NEW q \in Nat, NEW p \in 1..Batches
    PROVE  /\ q * Batches + p \in Nat \ {0}
           /\ BatchOf(q * Batches + p) = p
           /\ (q * Batches + p - 1) \div Batches = q
  <1>1. Batches \in Nat \ {0} /\ p - 1 \in 0..(Batches - 1)
    BY SizesAssumption
  <1>2. q * Batches \in Nat /\ q * Batches = Batches * q
    BY <1>1
  <1>3. q * Batches + p - 1 = Batches * q + (p - 1)
    BY <1>1, <1>2
  <1>4. /\ (Batches * q + (p - 1)) % Batches = p - 1
        /\ (Batches * q + (p - 1)) \div Batches = q
    BY <1>1, DivModUnique
  <1> QED
    BY <1>1, <1>2, <1>3, <1>4 DEF BatchOf

LEMMA BatchPass ==
    ASSUME NEW q \in Nat, NEW p \in 1..Batches, NEW n \in Nat,
           q * Batches + p = n
    PROVE  (n - 1) \div Batches = q
  <1>1. Batches \in Nat \ {0} /\ p - 1 \in 0..(Batches - 1)
    BY SizesAssumption
  <1>2. q * Batches = Batches * q
    BY <1>1
  <1>3. n - 1 = Batches * q + (p - 1)
    BY <1>1, <1>2
  <1>4. (Batches * q + (p - 1)) \div Batches = q
    BY <1>1, DivModUnique
  <1> QED
    BY <1>3, <1>4

\* The batch of a step that was trained in turn has its number.
LEMMA StepNumber ==
    ASSUME NEW s \in Nat \ {0}
    PROVE  /\ (s - 1) \div Batches \in Nat
           /\ ((s - 1) \div Batches) * Batches + BatchOf(s) = s
  <1> DEFINE q == (s - 1) \div Batches
             r == (s - 1) % Batches
  <1>1. s - 1 \in Nat /\ Batches \in Nat \ {0}
    BY SizesAssumption
  <1>2. r \in 0..(Batches - 1) /\ q \in Nat /\ s - 1 = Batches * q + r
    BY <1>1, DivMod
  <1>3. BatchOf(s) = r + 1
    BY DEF BatchOf
  <1> HIDE DEF q, r
  <1>4. Batches * q \in Nat /\ q * Batches = Batches * q
    BY <1>1, <1>2
  <1>5. q \in Nat /\ q * Batches + BatchOf(s) = s
    BY <1>1, <1>2, <1>3, <1>4
  <1> QED
    BY <1>5 DEF q

\* The passes behind a step, and the batches it has had of the next one.
LEMMA PassOf ==
    ASSUME NEW s \in Steps
    PROVE  /\ s \div Batches \in 0..TotalEpochs
           /\ s < (s \div Batches) * Batches + Batches
           /\ (s \div Batches) * Batches <= s
           /\ s <= (s \div Batches) * Batches + BatchOf(s)
           /\ BatchOf(s) = Batches => s <= (s \div Batches) * Batches
           /\ BatchOf(s) < Batches => (s \div Batches) * Batches + BatchOf(s) = s
  <1> DEFINE q == s \div Batches
             r == s % Batches
             p == (s - 1) \div Batches
             t == (s - 1) % Batches
  <1>1. /\ Batches \in Nat \ {0} /\ TotalEpochs \in Nat \ {0}
        /\ Batches * TotalEpochs \in Nat
    BY SizesAssumption
  <1>2. s \in Nat /\ s - 1 \in Nat /\ s <= Batches * TotalEpochs
    BY <1>1 DEF Steps
  <1>3. /\ r \in 0..(Batches - 1) /\ q \in Nat /\ s = Batches * q + r
        /\ t \in 0..(Batches - 1) /\ p \in Nat /\ s - 1 = Batches * p + t
        /\ BatchOf(s) = t + 1
    BY <1>1, <1>2, DivMod DEF BatchOf
  <1> HIDE DEF q, r, p, t
  <1>4. Batches * q \in Nat /\ Batches * p \in Nat /\ q * Batches = Batches * q
    BY <1>1, <1>3
  <1>5. q <= TotalEpochs
    <2> SUFFICES ASSUME q > TotalEpochs PROVE FALSE
      BY <1>1, <1>3
    <2>1. Batches * q >= Batches * TotalEpochs + Batches
      BY <1>1, <1>3, Times
    <2> QED
      BY <1>1, <1>2, <1>3, <1>4, <2>1
  <1>6. CASE t + 1 < Batches
    <2>1. t + 1 \in 0..(Batches - 1) /\ s = Batches * p + (t + 1)
      BY <1>1, <1>2, <1>3, <1>4, <1>6
    <2>2. r = t + 1
      BY <1>1, <1>3, <2>1, DivModUnique DEF r
    <2> QED
      BY <1>1, <1>2, <1>3, <1>4, <1>5, <1>6, <2>2 DEF q
  <1>7. CASE t + 1 = Batches
    <2>1. Batches * (p + 1) = Batches * p + Batches
      BY <1>1, <1>3
    <2>2. s = Batches * (p + 1) + 0 /\ 0 \in 0..(Batches - 1) /\ p + 1 \in Nat
      BY <1>1, <1>2, <1>3, <1>4, <1>7, <2>1
    <2>3. r = 0
      BY <1>1, <2>2, DivModUnique DEF r
    <2> QED
      BY <1>1, <1>2, <1>3, <1>4, <1>5, <1>7, <2>3 DEF q
  <1> QED
    BY <1>1, <1>3, <1>6, <1>7

-----------------------------------------------------------------------------
(* The invariants.                                                         *)

\* Models, Ideal, MayHaveSeen and StateAfter for a given configuration.
ModelsOf(c) == IF c.use_critic THEN Roles ELSE {"actor"}

HeldOf(c, m) == IF c.trainer = "ppo" /\ m = "actor" /\ Warmup > 0
                THEN Warmup - 1 ELSE 0

IdealOf(c, m, s) ==
    IF m \in ModelsOf(c)
    THEN [i \in 1..(IF s > HeldOf(c, m) THEN s - HeldOf(c, m) ELSE 0) |->
            i + HeldOf(c, m)]
    ELSE <<>>

MaySee(c, m, s, q) ==
    IF c.trainer = "ppo" \/ m \notin ModelsOf(c)
    THEN q = IdealOf(c, m, s)
    ELSE Len(q) = s /\ \A i \in 1..s : q[i] = i \/ OfLaterPass(q, i)

StateOf(c, s) ==
    [pass |-> IF c.trainer = "ppo" THEN (s - 1) \div Batches ELSE 0,
     place |-> BatchOf(s)]

LEMMA IdealIs ==
    /\ Models = ModelsOf(config)
    /\ \A m, s : Ideal(m, s) = IdealOf(config, m, s)
    /\ \A m, s, q : MayHaveSeen(m, s, q) <=> MaySee(config, m, s, q)
    /\ \A s : StateAfter(s) = StateOf(config, s)
  <1>1. Models = ModelsOf(config)
    BY DEF Models, ModelsOf
  <1>2. \A m, s : Ideal(m, s) = IdealOf(config, m, s)
    BY <1>1 DEF Ideal, IdealOf, Held, HeldOf
  <1>3. \A m, s, q : MayHaveSeen(m, s, q) <=> MaySee(config, m, s, q)
    BY <1>1, <1>2 DEF MayHaveSeen, MaySee
  <1>4. \A s : StateAfter(s) = StateOf(config, s)
    BY DEF StateAfter, StateOf
  <1> QED
    BY <1>1, <1>2, <1>3, <1>4

Running == phase \notin {"load", "failed", "diverged"}
InStep == Saving \/ phase \in {"barrier", "advance"}
InPass == InStep \/ phase = "train"

\* A run trains neither more steps than its passes have nor, after one more
\* than configured, another.
BoundInv ==
    /\ InPass => epoch < TotalEpochs
    /\ InStep => global_steps > 0
    /\ phase \in {"epoch", "train"} =>
        \/ global_steps < epoch * Batches + Batches
        \/ global_steps < config.total_training_steps

\* Data files of other ranks are open only during a save.
OpenInv ==
    /\ writing[Main] \notin {"data_open", "saved"}
    /\ \A r \in Ranks : writing[r] = "data_open" =>
        /\ config.trainer = "sft"
        /\ phase \in {"shards", "data", "data_open", "tracker", "barrier"}

Base == TypeOK /\ BoundInv /\ OpenInv

\* Two checkpoints are kept, or the run was never killed.
Protected == KeepsTwo \/ crashes = 0

\* The data loader's passes bound the steps.
PassInv ==
    /\ Running => global_steps <= epoch * Batches + position
    /\ phase = "epoch" /\ position = Batches
            => global_steps <= epoch * Batches

\* The next batch of a PPO run is that of the next step; of a supervised one,
\* the one of its pass that follows the last.
OrderInv ==
    /\ Running =>
        /\ config.trainer = "ppo" => pass * Batches + position = global_steps
        /\ global_steps = 0 => epoch = 0
        /\ config.trainer = "sft" /\ position \in 1..(Batches - 1) =>
            \/ epoch * Batches + position = global_steps
            \/ seen["actor"][global_steps] = epoch * Batches + position
    /\ InPass /\ config.trainer = "sft" => pass = epoch

\* The run in memory is like the uninterrupted one.
StepInv ==
    /\ Running =>
        /\ \A m \in Roles : MaySee(config, m, global_steps, seen[m])
        /\ IF global_steps > 0
           THEN \/ position = BatchOf(global_steps)
                \/ position = 0 /\ BatchOf(global_steps) = Batches
           ELSE position = 0
    /\ InStep => position = BatchOf(global_steps)

\* No list of saved paths is ahead of the tracker, but for the step that is
\* being saved.
PathsInv ==
    /\ ~Running => \A m \in Roles : saved_paths[m] = {}
    /\ \A m \in Roles : \A s \in saved_paths[m] :
        /\ s <= global_steps
        /\ tracker \in Steps =>
                s <= tracker \/ (Saving /\ s = global_steps)
    /\ tracker \in Steps /\ phase \notin {"load", "failed"} =>
        tracker <= global_steps /\ (Saving => tracker < global_steps)
    /\ phase \in {"ensure", "shards"} =>
        /\ global_steps \notin saved_paths[role]
        /\ role = "actor" => global_steps \notin saved_paths["critic"]

\* What is on disk of the step that is being saved.
FilesInv ==
    /\ phase \in {"data", "data_open", "tracker", "tracker_open"} =>
        \A m \in ModelsOf(config), r \in Ranks :
            shards[m][global_steps][r] = seen[m]
    /\ phase \in {"ensure", "shards"} /\ role = "critic" =>
        \A r \in Ranks : shards["actor"][global_steps][r] = seen["actor"]
    /\ phase = "shards" =>
        \A r \in Ranks : writing[r] \notin {"todo", "open"} =>
            shards[role][global_steps][r] = seen[role]
    /\ phase \in {"tracker", "tracker_open"} =>
        data[global_steps][Main] = StateOf(config, global_steps)

\* What the tracker names is there; until the first time it is named when the
\* run is killed, nothing is.
TrackedInv ==
    /\ tracker \in Steps /\ (KeepsTwo \/ ~Saving) =>
        /\ \A m \in ModelsOf(config), r \in Ranks :
            /\ shards[m][tracker][r] \notin {Missing, Torn}
            /\ shards[m][tracker][r] = shards[m][tracker][Main]
            /\ MaySee(config, m, tracker, shards[m][tracker][r])
        /\ data[tracker][Main] = StateOf(config, tracker)
    /\ phase = "load" /\ crashes = 0 => tracker = Missing

Core == PassInv /\ OrderInv /\ StepInv /\ PathsInv /\ FilesInv /\ TrackedInv

Inv == Base /\ Core

LEMMA Sizes ==
    /\ Batches \in Nat \ {0} /\ TotalEpochs \in Nat \ {0}
    /\ Batches * TotalEpochs \in Nat
    /\ Steps = 1..(Batches * TotalEpochs)
    /\ Warmup \in Nat /\ MaxCrashes \in Nat /\ Main \in Ranks
  BY SizesAssumption DEF Steps

Loaders == [pass : Nat, place : 0..Batches]
ShardSet == [Roles -> [Steps -> [Ranks -> Seq(Nat) \union {Missing, Torn}]]]
DataSet == [Steps -> [Ranks -> Loaders \union {Missing, Torn}]]

LEMMA NoFile ==
    /\ Missing \notin Steps /\ Torn \notin Steps /\ Missing # Torn
    /\ Missing \notin Nat /\ Torn \notin Nat
    /\ Missing \notin Loaders /\ Torn \notin Loaders
    /\ Missing \notin Seq(Nat) /\ Torn \notin Seq(Nat)
  <1>1. /\ Missing \notin Nat /\ Torn \notin Nat /\ Missing # Torn
        /\ Missing \notin [pass : Nat, place : Nat]
        /\ Torn \notin [pass : Nat, place : Nat]
        /\ Missing \notin Seq(Nat) /\ Torn \notin Seq(Nat)
    BY FilesAssumption
  <1>2. Steps \subseteq Nat
    BY Sizes
  <1>3. Loaders \subseteq [pass : Nat, place : Nat]
    BY Sizes DEF Loaders
  <1> QED
    BY <1>1, <1>2, <1>3

-----------------------------------------------------------------------------
(* What holds of every run.                                                *)

LEMMA TypeBounds ==
    ASSUME TypeOK
    PROVE  /\ global_steps \in Nat /\ epoch \in Nat /\ position \in Nat
           /\ pass \in Nat /\ position <= Batches /\ epoch <= TotalEpochs
           /\ global_steps <= Batches * TotalEpochs
           /\ epoch * Batches \in Nat /\ pass * Batches \in Nat
           /\ config.total_training_steps \in Nat \ {0}
           /\ config.total_training_steps <= Batches * TotalEpochs
  <1>1. /\ global_steps \in Nat /\ epoch \in Nat /\ position \in Nat
        /\ pass \in Nat /\ position <= Batches /\ epoch <= TotalEpochs
        /\ global_steps <= Batches * TotalEpochs
    BY Sizes DEF TypeOK
  <1>2. epoch * Batches \in Nat /\ pass * Batches \in Nat
    BY <1>1, Sizes
  <1>3. config.total_training_steps \in TotalSteps
    BY DEF TypeOK, Config
  <1>4. TotalSteps \subseteq 1..(Batches * TotalEpochs)
    BY SizesAssumption
  <1>5. /\ config.total_training_steps \in Nat \ {0}
        /\ config.total_training_steps <= Batches * TotalEpochs
    <2>1. config.total_training_steps \in 1..(Batches * TotalEpochs)
      BY <1>3, <1>4
    <2> QED
      BY <2>1, Sizes
  <1> QED
    BY <1>1, <1>2, <1>5

LEMMA BaseInit == Init => Base
  <1> SUFFICES ASSUME Init PROVE Base
    OBVIOUS
  <1> USE DEF Init, Saving, InStep, InPass, Nothing, Absent, Fresh
  <1>1. TypeOK
    <2>1. /\ config \in Config /\ role \in Models
          /\ phase \in Phase /\ timed \in BOOLEAN
      BY DEF Models, Roles, Phase
    <2>2. /\ global_steps \in 0..(Batches * TotalEpochs)
          /\ epoch \in 0..TotalEpochs /\ position \in 0..Batches
          /\ crashes \in 0..MaxCrashes /\ pass \in Nat
      BY Sizes
    <2>3. <<>> \in Seq(Nat)
      OBVIOUS
    <2>4. seen \in [Roles -> Seq(Nat)]
      BY <2>3
    <2>5. /\ saved_paths \in [Roles -> SUBSET Steps]
          /\ writing \in [Ranks -> {"todo", "open", "written", "data_open",
                                    "saved"}]
      OBVIOUS
    <2>6. shards \in ShardSet /\ data \in DataSet
          /\ tracker \in Steps \union {Missing, Torn}
      BY DEF ShardSet, DataSet
    <2> QED
      BY <2>1, <2>2, <2>4, <2>5, <2>6 DEF TypeOK, ShardSet, DataSet, Loaders
  <1>2. BoundInv /\ OpenInv
    BY Sizes DEF BoundInv, OpenInv
  <1> QED
    BY <1>1, <1>2 DEF Base

\* A run never trains more steps than its passes have.
LEMMA StepBound ==
    ASSUME TypeOK, BoundInv, phase = "train"
    PROVE  global_steps + 1 \in Steps
  <1>1. /\ global_steps \in Nat /\ epoch \in Nat /\ epoch < TotalEpochs
        /\ config.total_training_steps \in Nat \ {0}
        /\ config.total_training_steps <= Batches * TotalEpochs
        /\ \/ global_steps < epoch * Batches + Batches
           \/ global_steps < config.total_training_steps
    BY TypeBounds DEF BoundInv, InPass
  <1>2. Batches * TotalEpochs >= Batches * epoch + Batches
    BY <1>1, Sizes, Times
  <1>3. epoch * Batches = Batches * epoch /\ Batches * epoch \in Nat
    BY <1>1, Sizes
  <1>4. global_steps + 1 <= Batches * TotalEpochs
    BY <1>1, <1>2, <1>3, Sizes
  <1> QED
    BY <1>1, <1>4, Sizes

LEMMA RemoveEffect ==
    ASSUME TypeOK, NEW m \in Roles, NEW old, Remove(m, old)
    PROVE  /\ shards' \in ShardSet
           /\ data' \in DataSet
           /\ \A n \in Roles \ {m} : shards'[n] = shards[n]
           /\ \A s \in Steps \ old : /\ shards'[m][s] = shards[m][s]
                                     /\ data'[s] = data[s]
  <1>1. shards \in ShardSet /\ data \in DataSet
    BY DEF TypeOK, ShardSet, DataSet, Loaders
  <1>3. /\ Absent \in [Ranks -> Seq(Nat) \union {Missing, Torn}]
        /\ Absent \in [Ranks -> Loaders \union {Missing, Torn}]
    BY DEF Absent
  <1> DEFINE F == [s \in Steps |-> IF s \in old THEN Absent ELSE shards[m][s]]
  <1>4. F \in [Steps -> [Ranks -> Seq(Nat) \union {Missing, Torn}]]
    BY <1>1, <1>3 DEF ShardSet
  <1>5. shards' = [shards EXCEPT ![m] = F]
    BY DEF Remove
  <1>6. \A s \in Steps \ old : F[s] = shards[m][s]
    OBVIOUS
  <1> HIDE DEF F
  <1>7. /\ shards' \in ShardSet
        /\ \A n \in Roles \ {m} : shards'[n] = shards[n]
        /\ \A s \in Steps \ old : shards'[m][s] = shards[m][s]
    BY <1>1, <1>4, <1>5, <1>6 DEF ShardSet
  <1>8. data' \in DataSet /\ \A s \in Steps \ old : data'[s] = data[s]
    BY <1>1, <1>3 DEF Remove, DataSet
  <1> QED
    BY <1>7, <1>8

LEMMA StateType ==
    ASSUME TypeOK
    PROVE  /\ LoaderState \in Loaders
           /\ \A s \in Steps, r \in Ranks :
                data[s][r] # Torn => LoadedState(s, r) \in Loaders
  <1>1. pass \in Nat /\ position \in 0..Batches /\ 0 \in 0..Batches
    BY Sizes DEF TypeOK
  <1>2. \A s \in Steps, r \in Ranks :
            data[s][r] \in Loaders \union {Missing, Torn}
    BY DEF TypeOK, Loaders
  <1>3. NewLoader \in Loaders
    BY <1>1 DEF NewLoader, Loaders
  <1>4. LoaderState \in Loaders
    BY <1>1 DEF LoaderState, Loaders
  <1> QED
    BY <1>2, <1>3, <1>4 DEF LoadedState

\* The types that a step of the training loop changes.
LEMMA TypeLoop ==
    ASSUME Base, EpochsOver \/ StartPass \/ ExhaustedStateSkipped \/ TrainStep
                    \/ Advance \/ EndPass
    PROVE  TypeOK'
  <1> USE DEF Base
  <1>1. CASE EpochsOver
    BY <1>1 DEF EpochsOver, memory, saving, disk, TypeOK, Phase, Models
  <1>2. CASE StartPass
    BY <1>2 DEF StartPass, OrderOfPass, saving, disk, TypeOK, Phase, Models
  <1>3. CASE ExhaustedStateSkipped
    <2>1. pass' \in Nat /\ 0 \in 0..Batches
      BY <1>3, TypeBounds, Sizes DEF ExhaustedStateSkipped, OrderOfPass
    <2> QED
      BY <1>3, <2>1
      DEF ExhaustedStateSkipped, saving, disk, TypeOK, Phase, Models
  <1>4. CASE TrainStep
    <2>1. /\ phase = "train" /\ position < Batches /\ position' = position + 1
          /\ global_steps' = global_steps + 1
          /\ phase' \in {"ensure", "advance"} /\ role' = "actor"
          /\ UNCHANGED <<config, epoch, pass, timed, writing, saved_paths,
                         shards, data, tracker, crashes>>
      BY <1>4 DEF TrainStep, disk
    <2>2. seen' = [m \in Roles |-> IF IsUpdated(m, global_steps + 1)
                                   THEN Append(seen[m], NextBatchNumber)
                                   ELSE seen[m]]
      BY <1>4 DEF TrainStep
    <2>3. NextBatchNumber \in Nat
      BY TypeBounds DEF NextBatchNumber
    <2>4. \A m \in Roles : /\ seen[m] \in Seq(Nat)
                           /\ Append(seen[m], NextBatchNumber) \in Seq(Nat)
      BY <2>3, AppendProperties DEF TypeOK
    <2>5. seen' \in [Roles -> Seq(Nat)]
      BY <2>2, <2>4
    <2>6. /\ global_steps' \in 0..(Batches * TotalEpochs)
          /\ position' \in 0..Batches
      BY SMTT(30), <2>1, StepBound, TypeBounds, Sizes
    <2>7. role' \in Models' /\ phase' \in Phase
      BY <2>1 DEF Models, Roles, Phase
    <2> QED
      BY <2>1, <2>5, <2>6, <2>7 DEF TypeOK
  <1>5. CASE Advance
    BY <1>5 DEF Advance, saving, disk, TypeOK, Phase, Models
  <1>6. CASE EndPass
    <2>1. epoch' \in 0..TotalEpochs /\ pass' \in Nat /\ 0 \in 0..Batches
      BY SMTT(30), <1>6, TypeBounds, Sizes DEF EndPass, BoundInv, InPass
    <2> QED
      BY <1>6, <2>1 DEF EndPass, saving, disk, TypeOK, Phase, Models
  <1> QED
    BY <1>1, <1>2, <1>3, <1>4, <1>5, <1>6

\* The types that loading and crashing change.
LEMMA TypeLoad ==
    ASSUME Base, Load \/ Crash
    PROVE  TypeOK'
  <1> USE DEF Base
  <1>1. CASE LoadNothing
    <2>1. seen' \in [Roles -> Seq(Nat)]
      BY <1>1, EmptySeq DEF LoadNothing, Fresh
    <2>2. /\ 0 \in 0..TotalEpochs /\ 0 \in 0..(Batches * TotalEpochs)
          /\ 0 \in 0..Batches
      BY Sizes
    <2> QED
      BY <1>1, <2>1, <2>2
      DEF LoadNothing, saving, disk, TypeOK, Phase, Models
  <1>2. CASE LoadCheckpoint
    <2>1. /\ phase' \in {"epoch", "diverged"}
          /\ global_steps' = tracker /\ epoch' = tracker \div Batches
          /\ pass' = LoadedState(tracker, Main).pass
          /\ position' = LoadedState(tracker, Main).place
          /\ tracker \in Steps /\ ~Unreadable(tracker)
          /\ UNCHANGED <<config, timed, role, writing, saved_paths, shards,
                         data, tracker, crashes>>
      BY <1>2 DEF LoadCheckpoint, Resumable, saving, disk
    <2>2. PICK r \in Ranks :
            seen' = [m \in Roles |-> IF m \in Models THEN shards[m][tracker][r]
                                     ELSE <<>>]
      BY <1>2 DEF LoadCheckpoint
    <2>3. \A m \in Models : shards[m][tracker][r] \in Seq(Nat)
      BY <2>1 DEF TypeOK, Unreadable, ShardReadable, Models, Roles
    <2>4. seen' \in [Roles -> Seq(Nat)]
      BY <2>2, <2>3, EmptySeq
    <2>5. LoadedState(tracker, Main) \in Loaders
      <3>1. Main \in DataRanks
        BY Sizes DEF DataRanks
      <3>2. data[tracker][Main] # Torn
        BY <2>1, <3>1 DEF Unreadable
      <3> QED
        BY <2>1, <3>2, StateType, Sizes
    <2>6. pass' \in Nat /\ position' \in 0..Batches
      BY <2>1, <2>5 DEF Loaders
    <2>7. epoch' \in 0..TotalEpochs /\ global_steps' \in 0..(Batches * TotalEpochs)
      BY <2>1, PassOf, Sizes
    <2>8. phase' \in Phase /\ role' \in Models'
      BY <2>1 DEF TypeOK, Phase, Models
    <2> QED
      BY <2>1, <2>4, <2>6, <2>7, <2>8 DEF TypeOK
  <1>3. CASE LoadFails
    BY <1>3 DEF LoadFails, memory, saving, disk, TypeOK, Phase, Models
  <1>4. CASE Crash
    <2>1. crashes' \in 0..MaxCrashes
      BY <1>4, Sizes DEF Crash, TypeOK
    <2>2. /\ saved_paths' \in [Roles -> SUBSET Steps]
          /\ writing' \in [Ranks -> {"todo", "open", "written", "data_open",
                                      "saved"}]
      BY <1>4 DEF Crash, Nothing
    <2> QED
      BY <1>4, <2>1, <2>2 DEF Crash, disk, TypeOK, Phase, Models
  <1> QED
    BY <1>1, <1>2, <1>3, <1>4 DEF Load

\* The types that saving changes.
LEMMA TypeSave ==
    ASSUME Base, Save
    PROVE  TypeOK'
  <1> USE DEF Base
  <1>0. /\ shards \in ShardSet /\ data \in DataSet
        /\ writing \in [Ranks -> {"todo", "open", "written", "data_open",
                                  "saved"}]
        /\ role \in Roles
        /\ seen[role] \in Seq(Nat) /\ LoaderState \in Loaders
    BY StateType DEF TypeOK, ShardSet, DataSet, Loaders, Models, Roles
  <1>1. CASE EnsureCapacity
    <2> DEFINE kept == IF config.keep[role] > 1
                       THEN Newest(saved_paths[role], config.keep[role] - 1)
                       ELSE saved_paths[role]
    <2>1. /\ phase' = "shards" /\ writing' = Nothing
          /\ saved_paths' = [saved_paths EXCEPT ![role] = kept]
          /\ Remove(role, saved_paths[role] \ kept)
          /\ UNCHANGED <<config, memory, role, tracker, crashes>>
      BY <1>1 DEF EnsureCapacity, Retain
    <2>2. kept \subseteq saved_paths[role]
      BY DEF Newest
    <2> HIDE DEF kept
    <2>3. saved_paths' \in [Roles -> SUBSET Steps]
      BY <2>1, <2>2, <1>0 DEF TypeOK
    <2>4. shards' \in ShardSet /\ data' \in DataSet
      BY <2>1, <1>0, RemoveEffect
    <2>5. writing' \in [Ranks -> {"todo", "open", "written", "data_open",
                                  "saved"}] /\ phase' \in Phase
      BY <2>1 DEF Nothing, Phase
    <2> QED
      BY <2>1, <2>3, <2>4, <2>5
      DEF memory, TypeOK, Models, ShardSet, DataSet, Loaders
  <1>2. CASE Register
    <2> DEFINE paths == saved_paths[role] \union {global_steps}
               kept == IF config.keep[role] > 0
                       THEN Newest(paths, config.keep[role]) ELSE paths
    <2>1. /\ saved_paths' = [saved_paths EXCEPT ![role] = kept]
          /\ Remove(role, paths \ kept) /\ phase = "shards"
          /\ IF CriticIsNext THEN phase' = "ensure" /\ role' = "critic"
             ELSE phase' = "data" /\ role' = role
          /\ UNCHANGED <<config, memory, writing, tracker, crashes>>
      BY <1>2 DEF Register
    <2>2. kept \subseteq paths
      BY DEF Newest
    <2>3. global_steps \in Steps
      BY <2>1, Sizes DEF BoundInv, InStep, Saving, TypeOK
    <2>4. saved_paths' \in [Roles -> SUBSET Steps]
      <3>1. paths \in SUBSET Steps
        BY <1>0, <2>3 DEF TypeOK
      <3>2. kept \in SUBSET Steps
        BY <2>2, <3>1
      <3> HIDE DEF kept
      <3> QED
        BY <2>1, <3>2 DEF TypeOK
    <2> HIDE DEF kept, paths
    <2>5. shards' \in ShardSet /\ data' \in DataSet
      BY <2>1, <1>0, RemoveEffect
    <2>6. role' \in Models' /\ phase' \in Phase
      BY <2>1 DEF CriticIsNext, TypeOK, Models, Roles, Phase
    <2> QED
      BY <2>1, <2>4, <2>5, <2>6
      DEF memory, TypeOK, ShardSet, DataSet, Loaders
  <1>3. ASSUME NEW r \in Ranks, BeginShard(r) \/ EndShard(r)
        PROVE  TypeOK'
    <2> DEFINE Content == Seq(Nat) \union {Missing, Torn}
    <2>1. /\ \E v \in Content :
                shards' = [shards EXCEPT ![role][global_steps][r] = v]
          /\ \/ writing' = [writing EXCEPT ![r] = "open"]
             \/ writing' = [writing EXCEPT ![r] = "written"]
          /\ UNCHANGED <<config, phase, memory, role, saved_paths, data,
                         tracker, crashes>>
      BY <1>0, <1>3 DEF BeginShard, EndShard
    <2>2. shards' \in ShardSet
      <3>1. PICK v \in Content :
                shards' = [shards EXCEPT ![role][global_steps][r] = v]
        BY <2>1
      <3>2. shards \in [Roles -> [Steps -> [Ranks -> Content]]]
        BY <1>0 DEF ShardSet
      <3> HIDE DEF Content
      <3>3. shards' \in [Roles -> [Steps -> [Ranks -> Content]]]
        BY <3>1, <3>2
      <3> QED
        BY <3>3 DEF ShardSet, Content
    <2>3. writing' \in [Ranks -> {"todo", "open", "written", "data_open",
                                  "saved"}]
      BY <1>0, <2>1
    <2> QED
      BY <2>1, <2>2, <2>3 DEF memory, TypeOK, Models, ShardSet
  <1>4. ASSUME NEW r \in Ranks, BeginOtherData(r) \/ EndOtherData(r)
        PROVE  TypeOK'
    <2>1. /\ \/ data' = [data EXCEPT ![global_steps][r] = Torn]
             \/ data' = [data EXCEPT ![global_steps][r] = LoaderState]
          /\ \/ writing' = [writing EXCEPT ![r] = "data_open"]
             \/ writing' = [writing EXCEPT ![r] = "saved"]
          /\ UNCHANGED <<config, phase, memory, role, saved_paths, shards,
                         tracker, crashes>>
      BY <1>4 DEF BeginOtherData, EndOtherData
    <2>2. data' \in DataSet
      BY SMTT(30), <1>0, <2>1 DEF DataSet
    <2>3. writing' \in [Ranks -> {"todo", "open", "written", "data_open",
                                  "saved"}]
      BY <1>0, <2>1
    <2> QED
      BY <2>1, <2>2, <2>3 DEF memory, TypeOK, Models, DataSet, Loaders
  <1>5. CASE BeginData \/ EndData
    <2>1. /\ \/ data' = [data EXCEPT ![global_steps][Main] = Torn]
             \/ data' = [data EXCEPT ![global_steps][Main] = LoaderState]
          /\ phase' \in {"data_open", "tracker"}
          /\ UNCHANGED <<config, memory, saving, shards, tracker, crashes>>
      BY <1>5 DEF BeginData, EndData
    <2>2. data' \in DataSet
      BY <1>0, <2>1 DEF DataSet
    <2> QED
      BY <2>1, <2>2 DEF memory, saving, TypeOK, Models, Phase, DataSet, Loaders
  <1>6. CASE BeginTracker
    BY <1>6 DEF BeginTracker, memory, saving, TypeOK, Models, Phase
  <1>7. CASE EndTracker
    <2>1. global_steps \in Steps
      BY <1>7, Sizes DEF EndTracker, BoundInv, InStep, Saving, TypeOK
    <2>2. /\ tracker' = global_steps /\ phase' \in {"advance", "barrier"}
          /\ UNCHANGED <<config, memory, saving, shards, data, crashes>>
      BY <1>7 DEF EndTracker
    <2> QED
      BY <2>1, <2>2 DEF memory, saving, TypeOK, Models, Phase
  <1>8. CASE Barrier
    BY <1>8 DEF Barrier, memory, saving, disk, TypeOK, Models, Phase
  <1> QED
    BY <1>1, <1>2, <1>3, <1>4, <1>5, <1>6, <1>7, <1>8 DEF Save, Write

LEMMA BoundNext == ASSUME Base, [Next]_vars PROVE BoundInv'
  <1> USE DEF Base, InPass, InStep, Saving
  <1>0. /\ global_steps \in Nat /\ epoch \in Nat /\ epoch * Batches \in Nat
        /\ Batches \in Nat \ {0}
        /\ config.total_training_steps \in Nat \ {0}
    BY TypeBounds, Sizes
  <1>1. CASE LoadNothing
    BY <1>0, <1>1 DEF LoadNothing, BoundInv
  <1>2. CASE LoadCheckpoint
    <2>1. /\ tracker \in Steps /\ phase' \in {"epoch", "diverged"}
          /\ global_steps' = tracker /\ epoch' = tracker \div Batches
      BY <1>2 DEF LoadCheckpoint, Resumable
    <2>2. tracker < (tracker \div Batches) * Batches + Batches
      BY <2>1, PassOf
    <2> QED
      BY <2>1, <2>2 DEF BoundInv
  <1>3. CASE LoadFails \/ Crash
    BY <1>3 DEF LoadFails, Crash, BoundInv
  <1>4. CASE EpochsOver \/ StartPass \/ ExhaustedStateSkipped
    BY <1>0, <1>4
    DEF EpochsOver, StartPass, ExhaustedStateSkipped, memory, BoundInv
  <1>5. CASE TrainStep
    <2>1. /\ phase = "train" /\ phase' \in {"ensure", "advance"}
          /\ global_steps' = global_steps + 1
          /\ UNCHANGED <<config, epoch>>
      BY <1>5 DEF TrainStep
    <2> QED
      BY <1>0, <2>1 DEF BoundInv
  <1>6. CASE Advance
    <2>1. /\ phase = "advance"
          /\ phase' = IF IsLastStep(global_steps) THEN "done" ELSE "train"
          /\ UNCHANGED <<config, global_steps, epoch>>
      BY <1>6 DEF Advance
    <2> QED
      BY <1>0, <2>1 DEF BoundInv, IsLastStep
  <1>7. CASE EndPass
    <2>1. (epoch + 1) * Batches = epoch * Batches + Batches
      BY <1>0
    <2>2. /\ phase = "train" /\ phase' = "epoch" /\ epoch' = epoch + 1
          /\ UNCHANGED <<config, global_steps>>
      BY <1>7 DEF EndPass
    <2> QED
      BY <1>0, <2>1, <2>2 DEF BoundInv
  <1>8. CASE EnsureCapacity \/ Register
    <2>1. /\ phase \in {"ensure", "shards"}
          /\ phase' \in {"ensure", "shards", "data"}
          /\ UNCHANGED <<config, global_steps, epoch>>
      BY <1>8 DEF EnsureCapacity, Register, memory
    <2> QED
      BY <2>1 DEF BoundInv
  <1>9. ASSUME NEW r \in Ranks, Write(r) PROVE BoundInv'
    BY <1>9 DEF Write, BeginShard, EndShard, BeginOtherData, EndOtherData,
                memory, BoundInv
  <1>10. CASE BeginData \/ EndData \/ BeginTracker \/ EndTracker \/ Barrier
    BY <1>10 DEF BeginData, EndData, BeginTracker, EndTracker, Barrier,
                 memory, BoundInv
  <1>11. CASE UNCHANGED vars
    BY <1>11 DEF vars, memory, BoundInv
  <1> QED
    BY <1>1, <1>2, <1>3, <1>4, <1>5, <1>6, <1>7, <1>8, <1>9, <1>10, <1>11
    DEF Next, Step, Load, Train, Save

\* The end of a supervised save waits for the other ranks.
LEMMA OpenNext == ASSUME Base, [Next]_vars PROVE OpenInv'
  <1> USE DEF Base, OpenInv
  <1>1. CASE LoadNothing \/ LoadCheckpoint \/ LoadFails
    BY <1>1 DEF LoadNothing, LoadCheckpoint, LoadFails, saving
  <1>2. CASE EpochsOver \/ StartPass \/ ExhaustedStateSkipped \/ TrainStep
             \/ Advance \/ EndPass
    BY <1>2 DEF EpochsOver, StartPass, ExhaustedStateSkipped, TrainStep,
                Advance, EndPass, saving
  <1>3. CASE EnsureCapacity
    BY <1>3, Sizes DEF EnsureCapacity, Nothing
  <1>4. ASSUME NEW q \in Ranks, BeginShard(q) \/ EndShard(q) PROVE OpenInv'
    BY <1>4, Sizes DEF BeginShard, EndShard, TypeOK
  <1>5. ASSUME NEW q \in Ranks, BeginOtherData(q) \/ EndOtherData(q)
        PROVE  OpenInv'
    BY <1>5, Sizes DEF BeginOtherData, EndOtherData, TypeOK
  <1>6. CASE Register
    BY <1>6 DEF Register, CriticIsNext, TypeOK, Config
  <1>7. CASE BeginData \/ EndData \/ BeginTracker \/ EndTracker
    BY <1>7 DEF BeginData, EndData, BeginTracker, EndTracker, saving
  <1>8. CASE Barrier
    BY <1>8 DEF Barrier, saving
  <1>9. CASE Crash
    BY <1>9, Sizes DEF Crash, Nothing
  <1>10. CASE UNCHANGED vars
    BY <1>10 DEF vars, saving
  <1> QED
    BY <1>1, <1>2, <1>3, <1>4, <1>5, <1>6, <1>7, <1>8, <1>9, <1>10
    DEF Next, Step, Load, Train, Save, Write

LEMMA BaseNext == ASSUME Base, [Next]_vars PROVE Base'
  <1>1. TypeOK'
    <2>1. CASE UNCHANGED vars
      BY <2>1 DEF vars, memory, saving, disk, Base, TypeOK, Models
    <2> QED
      BY <2>1, TypeLoop, TypeLoad, TypeSave DEF Next, Step, Train
  <1> QED
    BY <1>1, BoundNext, OpenNext DEF Base

LEMMA BaseHolds == Spec => []Base
  <1> QED
    BY BaseInit, BaseNext, PTL DEF Spec

-----------------------------------------------------------------------------
(* Steps of the training loop, in a protected run.                         *)

LEMMA SeesNothing ==
    ASSUME NEW c, NEW m
    PROVE  MaySee(c, m, 0, <<>>)
  <1>1. IdealOf(c, m, 0) = <<>>
    <2>1. HeldOf(c, m) \in Nat
      BY Sizes DEF HeldOf
    <2>2. ~(0 > HeldOf(c, m)) /\ 1..0 = {}
      BY <2>1
    <2>3. [i \in 1..0 |-> i + HeldOf(c, m)] = <<>>
      BY <2>2
    <2> QED
      BY <2>2, <2>3 DEF IdealOf
  <1>2. Len(<<>>) = 0 /\ 1..0 = {}
    OBVIOUS
  <1> QED
    BY <1>1, <1>2 DEF MaySee

LEMMA CoreInit == Init => Core
  <1> SUFFICES ASSUME Init PROVE Core
    OBVIOUS
  <1>1. \A m \in Roles : MaySee(config, m, 0, <<>>)
    BY SeesNothing
  <1> USE DEF Init, Running, Saving, InStep, InPass, Nothing, Absent, Fresh
  <1>2. PassInv /\ OrderInv /\ PathsInv /\ FilesInv
    BY Sizes DEF PassInv, OrderInv, PathsInv, FilesInv, Roles
  <1>3. StepInv
    BY <1>1, Sizes DEF StepInv
  <1>4. TrackedInv
    BY NoFile DEF TrackedInv
  <1> QED
    BY <1>2, <1>3, <1>4 DEF Core

LEMMA KeepsTwoStays == ASSUME UNCHANGED config PROVE KeepsTwo' <=> KeepsTwo
  BY DEF KeepsTwo, Models

LEMMA TrainerCases ==
    ASSUME TypeOK
    PROVE  /\ config.trainer = "ppo" \/ config.trainer = "sft"
           /\ config.trainer = "sft" => ModelsOf(config) = {"actor"}
           /\ "actor" \in ModelsOf(config) /\ ModelsOf(config) \subseteq Roles
           /\ role \in ModelsOf(config)
  BY IdealIs DEF TypeOK, Config, ModelsOf, Roles

\* A step that writes no file and saves nothing keeps what is said of disk.
LEMMA DiskStays ==
    ASSUME Core, Running, Running', ~Saving, ~Saving',
           UNCHANGED <<config, global_steps, saved_paths, shards, data,
                       tracker, crashes>>
    PROVE  PathsInv' /\ FilesInv' /\ TrackedInv'
  <1>1. PathsInv'
    BY DEF Core, PathsInv, Running, Saving
  <1>2. FilesInv'
    BY DEF FilesInv, Saving
  <1>3. TrackedInv'
    BY KeepsTwoStays DEF Core, TrackedInv, Running
  <1> QED
    BY <1>1, <1>2, <1>3

LEMMA CoreEpochsOver == ASSUME Inv, EpochsOver PROVE Core'
  <1> USE DEF Inv, Core, EpochsOver, Running, Saving, InStep, InPass, memory, saving, disk
  <1>1. PassInv' /\ OrderInv' /\ StepInv'
    BY DEF PassInv, OrderInv, StepInv
  <1>2. PathsInv' /\ FilesInv' /\ TrackedInv'
    BY DiskStays
  <1> QED
    BY <1>1, <1>2

LEMMA CoreStartPass == ASSUME Inv, StartPass PROVE Core'
  <1> USE DEF Inv, Core, StartPass, Running, Saving, InStep, InPass, saving, disk
  <1>1. PassInv' /\ StepInv'
    BY DEF PassInv, StepInv
  <1>2. OrderInv'
    BY DEF OrderInv, OrderOfPass
  <1>3. PathsInv' /\ FilesInv' /\ TrackedInv'
    BY DiskStays
  <1> QED
    BY <1>1, <1>2, <1>3

LEMMA CoreSkipped == ASSUME Inv, ExhaustedStateSkipped PROVE Core'
  <1> USE DEF Inv, Base, Core, ExhaustedStateSkipped, Running, Saving, InStep, InPass, saving, disk
  <1>0. /\ global_steps \in Nat /\ epoch \in Nat /\ epoch * Batches \in Nat
        /\ pass \in Nat /\ pass * Batches \in Nat /\ Batches \in Nat \ {0}
        /\ (pass + 1) * Batches = pass * Batches + Batches
    BY TypeBounds, Sizes
  <1>1. PassInv'
    BY <1>0 DEF PassInv
  <1>2. StepInv'
    BY <1>0, Sizes DEF StepInv, TypeOK
  <1>3. OrderInv'
    BY <1>0 DEF OrderInv, OrderOfPass
  <1>4. PathsInv' /\ FilesInv' /\ TrackedInv'
    BY DiskStays
  <1> QED
    BY <1>1, <1>2, <1>3, <1>4

LEMMA CoreAdvance == ASSUME Inv, Advance PROVE Core'
  <1> USE DEF Inv, Core, Advance, Running, Saving, InStep, InPass, saving, disk
  <1>1. PassInv' /\ StepInv'
    BY DEF PassInv, StepInv
  <1>2. OrderInv'
    BY DEF OrderInv
  <1>3. PathsInv' /\ FilesInv' /\ TrackedInv'
    BY DiskStays
  <1> QED
    BY <1>1, <1>2, <1>3

LEMMA CoreEndPass == ASSUME Inv, EndPass PROVE Core'
  <1> USE DEF Inv, Base, Core, EndPass, Running, Saving, InStep, InPass, saving, disk
  <1>a. /\ global_steps \in Nat /\ epoch \in Nat /\ epoch * Batches \in Nat
        /\ pass \in Nat /\ pass * Batches \in Nat /\ Batches \in Nat \ {0}
    BY TypeBounds, Sizes
  <1>b. (pass + 1) * Batches = pass * Batches + Batches
    BY <1>a
  <1>c. (epoch + 1) * Batches = epoch * Batches + Batches
    BY <1>a
  <1>0. /\ global_steps \in Nat /\ epoch \in Nat /\ epoch * Batches \in Nat
        /\ pass \in Nat /\ pass * Batches \in Nat /\ Batches \in Nat \ {0}
        /\ (pass + 1) * Batches = pass * Batches + Batches
        /\ (epoch + 1) * Batches = epoch * Batches + Batches
    BY <1>a, <1>b, <1>c
  <1>1. PassInv'
    BY <1>0 DEF PassInv
  <1>2. StepInv'
    BY <1>0, Sizes DEF StepInv, TypeOK
  <1>3. OrderInv'
    <2>1. global_steps > 0
      BY <1>0, Sizes DEF StepInv
    <2> QED
      BY <1>0, <2>1 DEF OrderInv
  <1>4. PathsInv' /\ FilesInv' /\ TrackedInv'
    BY DiskStays
  <1> QED
    BY <1>1, <1>2, <1>3, <1>4

LEMMA CoreBarrier == ASSUME Inv, Barrier PROVE Core'
  <1> USE DEF Inv, Core, Barrier, Running, Saving, InStep, InPass, memory, saving, disk
  <1>1. PassInv' /\ OrderInv' /\ StepInv'
    BY DEF PassInv, OrderInv, StepInv
  <1>2. PathsInv' /\ FilesInv' /\ TrackedInv'
    BY DiskStays
  <1> QED
    BY <1>1, <1>2

\* The next batch has the place that an uninterrupted run would be at.
LEMMA NextPlace ==
    ASSUME Inv, phase = "train", position < Batches
    PROVE  position + 1 = BatchOf(global_steps + 1)
  <1>1. /\ global_steps \in Nat /\ position \in Nat
        /\ IF global_steps > 0
           THEN \/ position = BatchOf(global_steps)
                \/ position = 0 /\ BatchOf(global_steps) = Batches
           ELSE position = 0
    BY TypeBounds DEF Inv, Base, Core, StepInv, Running
  <1>2. CASE global_steps = 0
    BY <1>1, <1>2, BatchOne
  <1>3. CASE global_steps > 0
    <2>1. global_steps \in Nat \ {0}
      BY <1>1, <1>3
    <2> QED
      BY <1>1, <1>3, <2>1, BatchNext
  <1> QED
    BY <1>1, <1>2, <1>3

\* What a model has seen grows by the batch of the step from the step on at
\* which it is first updated.
LEMMA IdealGrows ==
    ASSUME NEW c, NEW m \in ModelsOf(c), NEW s \in Nat, HeldOf(c, m) <= s
    PROVE  IdealOf(c, m, s + 1) = Append(IdealOf(c, m, s), s + 1)
  <1> DEFINE h == HeldOf(c, m)
             old == IdealOf(c, m, s)
             new == IdealOf(c, m, s + 1)
  <1>1. h \in Nat /\ h <= s
    BY Sizes DEF HeldOf
  <1>2. /\ old = [i \in 1..(s - h) |-> i + h]
        /\ new = [i \in 1..(s + 1 - h) |-> i + h]
    BY <1>1 DEF IdealOf
  <1> HIDE DEF h, old, new
  <1>3. s - h \in Nat /\ s + 1 - h = (s - h) + 1
    BY <1>1
  <1>4. old \in Seq(Nat) /\ Len(old) = s - h
    <2>1. PICK n \in Nat : n = s - h
      BY <1>3
    <2>2. old \in [1..n -> Nat]
      BY <1>1, <1>2, <2>1
    <2>3. old \in Seq(Nat)
      BY <2>2, SeqDef
    <2>4. Len(old) = n
      BY <2>2
    <2> QED
      BY <2>1, <2>3, <2>4
  <1>5. Append(old, s + 1) = [i \in 1..((s - h) + 1) |->
                IF i = (s - h) + 1 THEN s + 1 ELSE old[i]]
    BY <1>4
  <1>6. \A i \in 1..((s - h) + 1) :
            i + h = IF i = (s - h) + 1 THEN s + 1 ELSE old[i]
    BY <1>1, <1>2, <1>3
  <1>7. new = Append(old, s + 1)
    BY SMTT(30), <1>2, <1>3, <1>5, <1>6
  <1> QED
    BY <1>7 DEF old, new

LEMMA IdealStays ==
    ASSUME NEW c, NEW m, NEW s \in Nat, m \in ModelsOf(c) => s < HeldOf(c, m)
    PROVE  IdealOf(c, m, s + 1) = IdealOf(c, m, s)
  <1>1. CASE m \notin ModelsOf(c)
    BY <1>1 DEF IdealOf
  <1>2. CASE m \in ModelsOf(c)
    <2>1. HeldOf(c, m) \in Nat
      BY Sizes DEF HeldOf
    <2>2. ~(s > HeldOf(c, m)) /\ ~(s + 1 > HeldOf(c, m))
      BY <1>2, <2>1
    <2> QED
      BY <2>2 DEF IdealOf
  <1> QED
    BY <1>1, <1>2

LEMMA UpdatedWhen ==
    ASSUME config \in Config, NEW m \in Roles, NEW s \in Nat
    PROVE  IsUpdated(m, s + 1) <=> m \in ModelsOf(config) /\ HeldOf(config, m) <= s
  BY Sizes, IdealIs DEF IsUpdated, HeldOf

\* The batches of a supervised run with one more of the same or a later pass.
LEMMA LaterGrows ==
    ASSUME NEW q \in Seq(Nat), NEW s \in Nat, NEW b \in Nat, Len(q) = s,
           \A i \in 1..s : q[i] = i \/ OfLaterPass(q, i),
           b >= s + 1, BatchOf(b) = BatchOf(s + 1), s = 0 => b = 1,
           \/ b = s + 1
           \/ BatchOf(s + 1) = 1
           \/ b = q[s] + 1
    PROVE  /\ Len(Append(q, b)) = s + 1
           /\ \A i \in 1..(s + 1) :
                Append(q, b)[i] = i \/ OfLaterPass(Append(q, b), i)
  <1> DEFINE new == Append(q, b)
  <1>1. /\ Len(new) = s + 1 /\ new[s + 1] = b
        /\ \A i \in 1..s : new[i] = q[i]
    BY AppendProperties
  <1> HIDE DEF new
  <1>2. ASSUME NEW i \in 1..s PROVE new[i] = i \/ OfLaterPass(new, i)
    <2>1. i > 1 => i - 1 \in 1..s
      OBVIOUS
    <2> QED
      BY <1>1, <2>1 DEF OfLaterPass
  <1>3. new[s + 1] = s + 1 \/ OfLaterPass(new, s + 1)
    <2> SUFFICES ASSUME b # s + 1 PROVE OfLaterPass(new, s + 1)
      BY <1>1
    <2>1. s > 0 /\ s + 1 > 1 /\ b > s + 1 /\ (s + 1) - 1 = s /\ s \in 1..s
      OBVIOUS
    <2>2. BatchOf(s + 1) = 1 \/ new[s + 1] = new[(s + 1) - 1] + 1
      BY <1>1, <2>1
    <2> QED
      BY <1>1, <2>1, <2>2 DEF OfLaterPass
  <1>4. \A i \in 1..(s + 1) : i \in 1..s \/ i = s + 1
    OBVIOUS
  <1>5. \A i \in 1..(s + 1) : new[i] = i \/ OfLaterPass(new, i)
    BY <1>2, <1>3, <1>4
  <1> QED
    BY <1>1, <1>5 DEF new

\* The batch a step trains on: that of its number, or, in a supervised run,
\* one of a later pass.
LEMMA NextNumber ==
    ASSUME Inv, phase = "train", position < Batches
    PROVE  /\ NextBatchNumber \in Nat
           /\ config.trainer = "ppo" => NextBatchNumber = global_steps + 1
           /\ config.trainer = "sft" =>
                /\ NextBatchNumber = epoch * Batches + (position + 1)
                /\ NextBatchNumber >= global_steps + 1
                /\ BatchOf(NextBatchNumber) = BatchOf(global_steps + 1)
                /\ global_steps = 0 => NextBatchNumber = 1
                /\ \/ NextBatchNumber = global_steps + 1
                   \/ BatchOf(global_steps + 1) = 1
                   \/ NextBatchNumber = seen["actor"][global_steps] + 1
  <1>1. /\ global_steps \in Nat /\ epoch \in Nat /\ epoch * Batches \in Nat
        /\ pass \in Nat /\ pass * Batches \in Nat /\ Batches \in Nat \ {0}
        /\ position \in Nat
    BY TypeBounds, Sizes DEF Inv, Base
  <1>2. /\ global_steps <= epoch * Batches + position
        /\ config.trainer = "ppo" => pass * Batches + position = global_steps
        /\ global_steps = 0 => epoch = 0 /\ position = 0
        /\ config.trainer = "sft" => pass = epoch
    BY <1>1 DEF Inv, Core, PassInv, OrderInv, StepInv, Running, InPass
  <1>3. NextBatchNumber \in Nat
    BY <1>1 DEF NextBatchNumber
  <1>4. ASSUME config.trainer = "ppo" PROVE NextBatchNumber = global_steps + 1
    BY <1>1, <1>2, <1>4 DEF NextBatchNumber
  <1>5. ASSUME config.trainer = "sft"
        PROVE  /\ NextBatchNumber = epoch * Batches + (position + 1)
               /\ NextBatchNumber >= global_steps + 1
               /\ global_steps = 0 => NextBatchNumber = 1
    <2>1. NextBatchNumber = epoch * Batches + (position + 1)
      BY <1>1, <1>2, <1>5 DEF NextBatchNumber
    <2>2. epoch = 0 => epoch * Batches = 0
      BY <1>1
    <2> QED
      BY <1>1, <1>2, <2>1, <2>2
  <1>6. BatchOf(epoch * Batches + (position + 1)) = BatchOf(global_steps + 1)
    <2>1. position + 1 \in 1..Batches
      BY <1>1
    <2> QED
      BY <1>1, <2>1, BatchPlace, NextPlace
  <1>7. ASSUME config.trainer = "sft"
        PROVE  \/ NextBatchNumber = global_steps + 1
               \/ BatchOf(global_steps + 1) = 1
               \/ NextBatchNumber = seen["actor"][global_steps] + 1
    <2>1. CASE position = 0
      BY <2>1, NextPlace
    <2>2. CASE position # 0
      <3>1. position \in 1..(Batches - 1)
        BY <1>1, <2>2
      <3>2. \/ epoch * Batches + position = global_steps
            \/ seen["actor"][global_steps] = epoch * Batches + position
        BY <1>7, <3>1 DEF Inv, Core, OrderInv, Running
      <3> QED
        BY <1>1, <1>5, <1>7, <3>2
    <2> QED
      BY <2>1, <2>2
  <1> QED
    BY <1>3, <1>4, <1>5, <1>6, <1>7

LEMMA CoreTrainStep == ASSUME Inv, TrainStep PROVE Core'
  <1>1. /\ phase = "train" /\ position < Batches /\ position' = position + 1
        /\ global_steps' = global_steps + 1
        /\ phase' \in {"ensure", "advance"} /\ role' = "actor"
        /\ UNCHANGED <<config, epoch, pass, timed, writing, saved_paths, shards,
                       data, tracker, crashes>>
    BY DEF TrainStep, disk
  <1>2. /\ seen' = [m \in Roles |-> IF IsUpdated(m, global_steps + 1)
                                    THEN Append(seen[m], NextBatchNumber)
                                    ELSE seen[m]]
    BY DEF TrainStep
  <1>3. global_steps + 1 \in Steps /\ position + 1 = BatchOf(global_steps + 1)
    BY <1>1, StepBound, NextPlace DEF Inv, Base
  <1>4. /\ TypeOK /\ global_steps \in Nat /\ position \in Nat /\ epoch \in Nat
        /\ epoch * Batches \in Nat /\ pass * Batches \in Nat
        /\ Batches \in Nat \ {0}
    BY TypeBounds, Sizes DEF Inv, Base
  <1>5. \A m \in Roles : MaySee(config, m, global_steps + 1, seen'[m])
    <2> TAKE m \in Roles
    <2>1. MaySee(config, m, global_steps, seen[m])
      BY <1>1 DEF Inv, Core, StepInv, Running
    <2>2. CASE config.trainer = "ppo" \/ m \notin ModelsOf(config)
      <3>1. seen[m] = IdealOf(config, m, global_steps)
        BY <2>1, <2>2 DEF MaySee
      <3>2. CASE IsUpdated(m, global_steps + 1)
        <4>1. m \in ModelsOf(config) /\ HeldOf(config, m) <= global_steps
          BY <1>4, <3>2, UpdatedWhen DEF TypeOK
        <4>2. NextBatchNumber = global_steps + 1
          BY <1>1, <2>2, <4>1, NextNumber
        <4>3. IdealOf(config, m, global_steps + 1)
                = Append(IdealOf(config, m, global_steps), global_steps + 1)
          BY <1>4, <4>1, IdealGrows
        <4> QED
          BY <1>2, <2>2, <3>1, <3>2, <4>2, <4>3 DEF MaySee
      <3>3. CASE ~IsUpdated(m, global_steps + 1)
        <4>1. m \in ModelsOf(config) => global_steps < HeldOf(config, m)
          BY <1>4, <3>3, UpdatedWhen, Sizes DEF TypeOK, HeldOf
        <4>2. IdealOf(config, m, global_steps + 1) = IdealOf(config, m, global_steps)
          BY <1>4, <4>1, IdealStays
        <4> QED
          BY <1>2, <2>2, <3>1, <3>3, <4>2 DEF MaySee
      <3> QED
        BY <3>2, <3>3
    <2>3. CASE config.trainer = "sft" /\ m \in ModelsOf(config)
      <3>1. m = "actor" /\ IsUpdated(m, global_steps + 1)
        BY <1>4, <2>3, TrainerCases, IdealIs DEF IsUpdated
      <3>2. /\ seen[m] \in Seq(Nat) /\ Len(seen[m]) = global_steps
            /\ \A i \in 1..global_steps :
                    seen[m][i] = i \/ OfLaterPass(seen[m], i)
        BY <1>4, <2>1, <2>3 DEF MaySee, TypeOK
      <3>3. seen'[m] = Append(seen[m], NextBatchNumber)
        BY <1>2, <3>1
      <3>4. /\ Len(seen'[m]) = global_steps + 1
            /\ \A i \in 1..(global_steps + 1) :
                    seen'[m][i] = i \/ OfLaterPass(seen'[m], i)
        <4>1. PICK q \in Seq(Nat) : q = seen[m]
          BY <3>2
        <4>2. PICK b \in Nat : b = NextBatchNumber
          BY <1>1, NextNumber
        <4>3. /\ b >= global_steps + 1
              /\ BatchOf(b) = BatchOf(global_steps + 1)
              /\ global_steps = 0 => b = 1
              /\ \/ b = global_steps + 1
                 \/ BatchOf(global_steps + 1) = 1
                 \/ b = q[global_steps] + 1
          BY <1>1, <2>3, <3>1, <4>1, <4>2, NextNumber
        <4>4. /\ Len(Append(q, b)) = global_steps + 1
              /\ \A i \in 1..(global_steps + 1) :
                    Append(q, b)[i] = i \/ OfLaterPass(Append(q, b), i)
          BY SMTT(30), <1>4, <3>2, <4>1, <4>3, LaterGrows
        <4> QED
          BY <3>3, <4>1, <4>2, <4>4
      <3> QED
        BY <2>3, <3>4 DEF MaySee
    <2> QED
      BY <1>4, <2>2, <2>3, TrainerCases
  <1>6. PassInv'
    <2>1. global_steps <= epoch * Batches + position
      BY <1>1 DEF Inv, Core, PassInv, Running
    <2> QED
      BY <1>1, <1>4, <2>1 DEF PassInv, Running
  <1>7. OrderInv'
    <2>1. /\ config.trainer = "ppo" => pass * Batches + position = global_steps
          /\ config.trainer = "sft" => pass = epoch
      BY <1>1 DEF Inv, Core, OrderInv, Running, InPass
    <2>2. ASSUME config.trainer = "sft"
          PROVE  seen'["actor"][global_steps + 1] = epoch * Batches + (position + 1)
      <3>1. "actor" \in Roles /\ IsUpdated("actor", global_steps + 1)
        BY <1>4, <2>2, TrainerCases, IdealIs DEF IsUpdated, Roles
      <3>2. seen'["actor"] = Append(seen["actor"], NextBatchNumber)
        BY <1>2, <3>1
      <3>3. seen["actor"] \in Seq(Nat) /\ Len(seen["actor"]) = global_steps
        <4>1. MaySee(config, "actor", global_steps, seen["actor"])
          BY <1>1, <3>1 DEF Inv, Core, StepInv, Running
        <4> QED
          BY <1>4, <2>2, <3>1, <4>1, TrainerCases DEF MaySee, TypeOK
      <3>4. /\ NextBatchNumber = epoch * Batches + (position + 1)
            /\ NextBatchNumber \in Nat
        BY <1>1, <2>2, NextNumber
      <3> QED
        BY <3>2, <3>3, <3>4, AppendProperties
    <2>3. /\ pass * Batches + position = global_steps =>
                pass * Batches + (position + 1) = global_steps + 1
          /\ global_steps + 1 # 0
      BY <1>4
    <2> QED
      BY <1>1, <2>1, <2>2, <2>3 DEF OrderInv, Running, InPass
  <1>8. StepInv'
    BY <1>1, <1>3, <1>4, <1>5 DEF StepInv, Running, InStep, Saving
  <1>9. PathsInv'
    <2>1. \A m \in Roles : \A s \in saved_paths[m] :
            /\ s \in Nat /\ s <= global_steps
            /\ tracker \in Steps => s <= tracker
      BY <1>1, <1>4, Sizes DEF Inv, Core, PathsInv, Saving, TypeOK
    <2>2. tracker \in Steps => tracker <= global_steps /\ tracker \in Nat
      BY <1>1, Sizes DEF Inv, Core, PathsInv
    <2> QED
      BY <1>1, <1>4, <2>1, <2>2 DEF PathsInv, Running, Saving, Roles
  <1>10. FilesInv'
    BY <1>1 DEF FilesInv
  <1>11. TrackedInv'
    BY <1>1, KeepsTwoStays DEF Inv, Core, TrackedInv, Saving
  <1> QED
    BY <1>6, <1>7, <1>8, <1>9, <1>10, <1>11 DEF Core

-----------------------------------------------------------------------------
(* Loading and crashing.                                                   *)

\* A checkpoint that the tracker names is never taken for none.
LEMMA TrackedThere ==
    ASSUME Inv, KeepsTwo, tracker \in Steps
    PROVE  /\ FolderExists(tracker)
           /\ LoadedState(tracker, Main) = StateOf(config, tracker)
  <1>1. data[tracker][Main] = StateOf(config, tracker) /\ tracker \in Nat \ {0}
    BY Sizes DEF Inv, Core, TrackedInv
  <1>2. BatchOf(tracker) \in 1..Batches /\ (tracker - 1) \div Batches \in Nat
    BY <1>1, BatchBounds, StepNumber
  <1>3. StateOf(config, tracker) \in Loaders
    BY <1>2, Sizes DEF StateOf, Loaders
  <1>4. data[tracker][Main] # Missing
    BY <1>1, <1>3, NoFile
  <1>5. data[tracker] # Absent
    BY <1>4, Sizes DEF Absent
  <1> QED
    BY <1>1, <1>4, <1>5 DEF FolderExists, LoadedState

\* A run that loads a checkpoint was killed before.
LEMMA LoadsProtected ==
    ASSUME Inv, Protected, phase = "load", tracker \in Steps
    PROVE  KeepsTwo
  BY NoFile DEF Inv, Core, TrackedInv, Protected

LEMMA CoreLoadNothing == ASSUME Inv, Protected, LoadNothing PROVE Core'
  <1>1. /\ phase = "load" /\ phase' = "epoch" /\ global_steps' = 0
        /\ epoch' = 0 /\ pass' = 0 /\ position' = 0 /\ seen' = Fresh
        /\ UNCHANGED <<config, timed, role, writing, saved_paths, shards, data,
                       tracker, crashes>>
    BY DEF LoadNothing, saving, disk
  <1>2. tracker \notin Steps
    <2> SUFFICES ASSUME tracker \in Steps PROVE FALSE
      OBVIOUS
    <2>1. FolderExists(tracker)
      BY <1>1, LoadsProtected, TrackedThere
    <2> QED
      BY <2>1, NoFile DEF LoadNothing, FromScratch
  <1>3. PassInv' /\ OrderInv'
    BY <1>1, Sizes DEF PassInv, OrderInv, Running, InPass, InStep, Saving
  <1>4. StepInv'
    BY <1>1, SeesNothing DEF StepInv, Running, InStep, Saving, Fresh
  <1>5. PathsInv' /\ FilesInv' /\ TrackedInv'
    BY <1>1, <1>2
    DEF Inv, Core, PathsInv, FilesInv, TrackedInv, Running, Saving
  <1> QED
    BY <1>3, <1>4, <1>5 DEF Core

LEMMA CoreLoadCheckpoint ==
    ASSUME Inv, Protected, LoadCheckpoint
    PROVE  Core'
  <1>1. /\ phase = "load" /\ phase' \in {"epoch", "diverged"}
        /\ global_steps' = tracker /\ epoch' = tracker \div Batches
        /\ pass' = LoadedState(tracker, Main).pass
        /\ position' = LoadedState(tracker, Main).place
        /\ tracker \in Steps
        /\ UNCHANGED <<config, timed, role, writing, saved_paths, shards, data,
                       tracker, crashes>>
    BY DEF LoadCheckpoint, Resumable, saving, disk
  <1>2. PICK r \in Ranks :
            seen' = [m \in Roles |-> IF m \in Models THEN shards[m][tracker][r]
                                     ELSE <<>>]
    BY DEF LoadCheckpoint
  <1>3. /\ tracker \in Nat \ {0} /\ tracker # 0
        /\ BatchOf(tracker) \in 1..Batches /\ BatchOf(tracker) \in Nat
        /\ tracker \div Batches \in Nat
        /\ (tracker \div Batches) * Batches \in Nat
    <2>1. tracker \in Nat \ {0} /\ tracker # 0
      BY <1>1, Sizes
    <2>2. BatchOf(tracker) \in 1..Batches /\ BatchOf(tracker) \in Nat
      BY <2>1, BatchBounds
    <2>3. tracker \div Batches \in Nat
      BY <1>1, PassOf
    <2> QED
      BY <2>1, <2>2, <2>3, Sizes
  <1>4. /\ position' = BatchOf(tracker)
        /\ pass' = IF config.trainer = "ppo" THEN (tracker - 1) \div Batches
                   ELSE 0
    BY <1>1, LoadsProtected, TrackedThere DEF StateOf
  <1>5. \A m \in Roles : MaySee(config, m, tracker, seen'[m])
    <2> TAKE m \in Roles
    <2>1. CASE m \in ModelsOf(config)
      BY <1>1, <1>2, <2>1, LoadsProtected, IdealIs DEF Inv, Core, TrackedInv
    <2>2. CASE m \notin ModelsOf(config)
      BY <1>2, <2>2, IdealIs DEF MaySee, IdealOf
    <2> QED
      BY <2>1, <2>2
  <1>6. /\ tracker <= (tracker \div Batches) * Batches + BatchOf(tracker)
        /\ BatchOf(tracker) = Batches => tracker <= (tracker \div Batches) * Batches
        /\ BatchOf(tracker) < Batches =>
                (tracker \div Batches) * Batches + BatchOf(tracker) = tracker
    BY <1>1, PassOf
  <1>7. PassInv'
    BY <1>1, <1>3, <1>4, <1>6 DEF PassInv, Running
  <1>8. OrderInv'
    <2>1. config.trainer = "ppo" => pass' * Batches + position' = global_steps'
      BY <1>1, <1>3, <1>4, StepNumber
    <2>2. position' \in 1..(Batches - 1) =>
                epoch' * Batches + position' = global_steps'
      BY <1>1, <1>3, <1>4, <1>6, Sizes
    <2>3. global_steps' # 0
      BY <1>1, <1>3
    <2> QED
      BY <1>1, <2>1, <2>2, <2>3 DEF OrderInv, InPass, InStep, Saving
  <1>9. StepInv'
    BY <1>1, <1>3, <1>4, <1>5 DEF StepInv, Running, InStep, Saving
  <1>10. PathsInv' /\ FilesInv' /\ TrackedInv'
    BY <1>1, <1>3, LoadsProtected, KeepsTwoStays
    DEF Inv, Core, PathsInv, FilesInv, TrackedInv, Running, Saving
  <1> QED
    BY <1>7, <1>8, <1>9, <1>10 DEF Core

LEMMA CoreLoadFails == ASSUME Inv, LoadFails PROVE Core'
  <1> USE DEF Inv, Core, LoadFails, Running, Saving, InStep, InPass, memory,
              saving, disk
  <1>1. PassInv' /\ OrderInv' /\ StepInv'
    BY DEF PassInv, OrderInv, StepInv
  <1>2. PathsInv' /\ FilesInv' /\ TrackedInv'
    BY KeepsTwoStays DEF PathsInv, FilesInv, TrackedInv
  <1> QED
    BY <1>1, <1>2

LEMMA CoreCrash == ASSUME Inv, KeepsTwo, Crash PROVE Core'
  <1>1. /\ phase' = "load" /\ writing' = Nothing
        /\ saved_paths' = [m \in Roles |-> {}] /\ crashes' = crashes + 1
        /\ crashes \in Nat
        /\ UNCHANGED <<config, shards, data, tracker>>
    BY Sizes DEF Crash, disk, Inv, Base, TypeOK
  <1>2. PassInv' /\ OrderInv' /\ StepInv'
    BY <1>1 DEF PassInv, OrderInv, StepInv, Running, InPass, InStep, Saving
  <1>3. PathsInv' /\ FilesInv'
    BY <1>1 DEF PathsInv, FilesInv, Running, Saving
  <1>4. TrackedInv'
    <2>1. crashes' # 0
      BY <1>1
    <2> QED
      BY <1>1, <2>1, KeepsTwoStays DEF Inv, Core, TrackedInv
  <1> QED
    BY <1>2, <1>3, <1>4 DEF Core

-----------------------------------------------------------------------------
(* Saving.                                                                 *)

\* What is newest but for one, or newest of all, is kept.
LEMMA NewestKept ==
    ASSUME NEW S, NEW k \in Nat, NEW x \in S, NEW y,
           \/ k > 1 /\ {t \in S : t > x} \subseteq {y}
           \/ k > 0 /\ {t \in S : t > x} = {}
    PROVE  x \in Newest(S, k)
  <1> DEFINE above == {t \in S : t > x}
  <1> HIDE DEF above
  <1>1. CASE k > 0 /\ above = {}
    <2>1. Cardinality(above) = 0
      BY <1>1, FS_EmptySet
    <2> QED
      BY <1>1, <2>1 DEF above, Newest
  <1>2. CASE k > 1 /\ above \subseteq {y}
    <2>1. IsFiniteSet({y}) /\ Cardinality({y}) = 1
      BY FS_Singleton
    <2>2. Cardinality(above) <= 1 /\ Cardinality(above) \in Nat
      BY <1>2, <2>1, FS_Subset, FS_CardinalityType
    <2> QED
      BY <1>2, <2>2 DEF above, Newest
  <1> QED
    BY <1>1, <1>2 DEF above

\* Saving leaves the state in memory alone.
LEMMA MemoryStays ==
    ASSUME PassInv, OrderInv, StepInv, InStep, UNCHANGED <<config, memory>>,
           phase' \in {"ensure", "shards", "data", "data_open", "tracker",
                       "tracker_open", "barrier", "advance"}
    PROVE  PassInv' /\ OrderInv' /\ StepInv'
  <1>1. /\ phase # "epoch" /\ phase' # "epoch" /\ Running /\ InPass
        /\ Running' /\ InPass' /\ InStep'
    BY DEF Running, InPass, InStep, Saving
  <1>2. UNCHANGED <<config, global_steps, epoch, pass, position, seen>>
    BY DEF memory
  <1>3. PassInv' /\ OrderInv'
    BY <1>1, <1>2 DEF PassInv, OrderInv
  <1>4. StepInv'
    BY <1>1, <1>2 DEF StepInv
  <1> QED
    BY <1>3, <1>4

\* The types of a save.
LEMMA SaveTypes ==
    ASSUME Base, InStep
    PROVE  /\ global_steps \in Steps /\ global_steps \in Nat \ {0}
           /\ role \in Roles /\ role \in ModelsOf(config)
           /\ ModelsOf(config) \subseteq Roles
           /\ saved_paths[role] \subseteq Steps
           /\ config.keep[role] \in Nat
           /\ shards \in ShardSet /\ data \in DataSet
           /\ LoaderState \in Loaders /\ seen[role] \in Seq(Nat)
           /\ writing \in [Ranks -> {"todo", "open", "written", "data_open",
                                     "saved"}]
           /\ saved_paths \in [Roles -> SUBSET Steps]
  <1>1. global_steps \in Steps /\ global_steps \in Nat \ {0}
    BY Sizes DEF Base, TypeOK, BoundInv
  <1>2. role \in ModelsOf(config) /\ ModelsOf(config) \subseteq Roles
    BY TrainerCases DEF Base
  <1>3. config.keep \in [Roles -> KeepCounts]
    BY DEF Base, TypeOK, Config
  <1>4. config.keep[role] \in Nat
    BY <1>2, <1>3, SizesAssumption
  <1>5. saved_paths[role] \subseteq Steps /\ seen[role] \in Seq(Nat)
    BY <1>2 DEF Base, TypeOK
  <1>6. shards \in ShardSet /\ data \in DataSet
    BY DEF Base, TypeOK, ShardSet, DataSet, Loaders
  <1>7. LoaderState \in Loaders
    BY StateType DEF Base
  <1>8. /\ writing \in [Ranks -> {"todo", "open", "written", "data_open",
                                  "saved"}]
        /\ saved_paths \in [Roles -> SUBSET Steps]
    BY DEF Base, TypeOK
  <1> QED
    BY <1>1, <1>2, <1>4, <1>5, <1>6, <1>7, <1>8

\* What a protected run saves.
LEMMA SavingFacts ==
    ASSUME Inv, InStep
    PROVE  /\ position = BatchOf(global_steps)
           /\ LoaderState = StateOf(config, global_steps)
           /\ \A m \in Roles : MaySee(config, m, global_steps, seen[m])
           /\ Saving /\ tracker \in Steps => tracker < global_steps
  <1>1. global_steps \in Nat \ {0}
    BY SaveTypes DEF Inv
  <1>2. Running /\ phase \notin {"load", "failed"}
    BY DEF InStep, Saving, Running
  <1>3. position = BatchOf(global_steps)
    BY DEF Inv, Core, StepInv
  <1>4. config.trainer = "ppo" => pass = (global_steps - 1) \div Batches
    <2> SUFFICES ASSUME config.trainer = "ppo"
                 PROVE  pass = (global_steps - 1) \div Batches
      OBVIOUS
    <2>1. pass * Batches + position = global_steps
      BY <1>2 DEF Inv, Core, OrderInv
    <2>2. position \in 1..Batches /\ pass \in Nat
      BY <1>1, <1>3, BatchBounds, TypeBounds DEF Inv, Base
    <2> QED
      BY <1>1, <2>1, <2>2, BatchPass
  <1>5. LoaderState = StateOf(config, global_steps)
    BY <1>3, <1>4 DEF LoaderState, StateOf
  <1>6. \A m \in Roles : MaySee(config, m, global_steps, seen[m])
    BY <1>2 DEF Inv, Core, StepInv
  <1>7. Saving /\ tracker \in Steps => tracker < global_steps
    BY <1>2 DEF Inv, Core, PathsInv
  <1> QED
    BY <1>3, <1>5, <1>6, <1>7

\* A checkpoint that is named stays if its files do.
LEMMA TrackedStays ==
    ASSUME Inv, Saving, UNCHANGED <<config, tracker, crashes>>, phase' # "load",
           tracker \in Steps =>
                /\ \A m \in Roles : shards'[m][tracker] = shards[m][tracker]
                /\ data'[tracker][Main] = data[tracker][Main],
           KeepsTwo \/ Saving'
    PROVE  TrackedInv'
  <1>1. ModelsOf(config) \subseteq Roles
    BY TrainerCases DEF Inv, Base
  <1> QED
    BY <1>1, KeepsTwoStays DEF Inv, Core, TrackedInv

\* Room is made for a checkpoint without removing the one that is named.
LEMMA CoreEnsureCapacity == ASSUME Inv, EnsureCapacity PROVE Core'
  <1> DEFINE keep == config.keep[role]
             kept == IF keep > 1 THEN Newest(saved_paths[role], keep - 1)
                     ELSE saved_paths[role]
             old == saved_paths[role] \ kept
  <1>1. /\ phase = "ensure" /\ phase' = "shards" /\ writing' = Nothing
        /\ saved_paths' = [saved_paths EXCEPT ![role] = kept]
        /\ Remove(role, old)
        /\ UNCHANGED <<config, memory, role, tracker, crashes>>
    BY DEF EnsureCapacity, Retain
  <1>2. InStep /\ Saving /\ Base /\ TypeOK
    BY <1>1 DEF InStep, Saving, Inv, Base
  <1>3. global_steps \notin old /\ global_steps \notin saved_paths[role]
    BY <1>1 DEF Inv, Core, PathsInv
  <1>4. kept \subseteq saved_paths[role]
    BY DEF Newest
  <1>5. ASSUME tracker \in Steps PROVE tracker \notin old
    <2> SUFFICES ASSUME tracker \in saved_paths[role], keep > 1
                 PROVE  tracker \in Newest(saved_paths[role], keep - 1)
      OBVIOUS
    <2>1. \A s \in saved_paths[role] : s <= tracker
      BY <1>2, <1>3, <1>5, SaveTypes DEF Inv, Core, PathsInv
    <2>2. {t \in saved_paths[role] : t > tracker} = {}
      BY <1>2, <1>5, <2>1, SaveTypes, Sizes
    <2>3. keep - 1 \in Nat /\ keep - 1 > 0
      BY <1>2, SaveTypes
    <2> QED
      BY <2>2, <2>3, NewestKept
  <1> HIDE DEF keep, kept, old
  <1>6. UNCHANGED <<global_steps, seen>>
    BY <1>1 DEF memory
  <1>7. PassInv' /\ OrderInv' /\ StepInv'
    BY <1>1, <1>2, MemoryStays DEF Inv, Core
  <1>8. PathsInv'
    <2>1. \A m \in Roles : saved_paths'[m] \subseteq saved_paths[m]
      BY <1>1, <1>2, <1>4, SaveTypes
    <2>2. Running' /\ Saving'
      BY <1>1 DEF Running, Saving
    <2> QED
      BY <1>1, <1>2, <1>3, <1>6, <2>1, <2>2, SaveTypes
      DEF Inv, Core, PathsInv, Roles
  <1>9. FilesInv'
    <2>1. role = "critic" => shards'["actor"] = shards["actor"]
      BY <1>1, <1>2, SaveTypes, RemoveEffect DEF Roles
    <2>2. \A r \in Ranks : writing'[r] = "todo"
      BY <1>1 DEF Nothing
    <2> QED
      BY <1>1, <1>6, <2>1, <2>2 DEF Inv, Core, FilesInv
  <1>10. TrackedInv'
    <2>1. ASSUME tracker \in Steps
          PROVE  /\ \A m \in Roles : shards'[m][tracker] = shards[m][tracker]
                 /\ data'[tracker] = data[tracker]
      BY <1>1, <1>2, <1>5, <2>1, SaveTypes, RemoveEffect
    <2>2. Saving' /\ phase' # "load"
      BY <1>1 DEF Saving
    <2> QED
      BY <1>1, <1>2, <2>1, <2>2, TrackedStays
  <1> QED
    BY <1>7, <1>8, <1>9, <1>10 DEF Core

LEMMA CoreBeginShard ==
    ASSUME Inv, NEW r \in Ranks, BeginShard(r)
    PROVE  Core'
  <1>1. /\ phase = "shards" /\ phase' = "shards"
        /\ writing' = [writing EXCEPT ![r] = "open"]
        /\ shards' = [shards EXCEPT ![role][global_steps][r] = Torn]
        /\ UNCHANGED <<config, memory, role, saved_paths, data, tracker,
                       crashes>>
    BY DEF BeginShard
  <1>2. /\ InStep /\ Saving /\ Base /\ Saving' /\ Running'
    BY <1>1 DEF InStep, Saving, Running, Inv
  <1>3. global_steps \in Steps /\ role \in Roles
    BY <1>2, SaveTypes
  <1>4. /\ \A q \in Ranks \ {r} : shards'[role][global_steps][q]
                                    = shards[role][global_steps][q]
        /\ \A z \in Steps \ {global_steps} : shards'[role][z] = shards[role][z]
        /\ \A n \in Roles \ {role} : shards'[n] = shards[n]
    BY <1>1, <1>2, <1>3, SaveTypes DEF ShardSet
  <1>5. UNCHANGED <<global_steps, seen>>
    BY <1>1 DEF memory
  <1>6. PassInv' /\ OrderInv' /\ StepInv'
    BY <1>1, <1>2, MemoryStays DEF Inv, Core
  <1>7. PathsInv'
    BY <1>1, <1>2, <1>5 DEF Inv, Core, PathsInv
  <1>8. FilesInv'
    <2>1. role = "critic" => shards'["actor"] = shards["actor"]
      BY <1>4 DEF Roles
    <2>2. writing'[r] = "open" /\ \A q \in Ranks \ {r} : writing'[q] = writing[q]
      BY <1>1, <1>2, SaveTypes
    <2> QED
      BY <1>1, <1>4, <1>5, <2>1, <2>2 DEF Inv, Core, FilesInv
  <1>9. TrackedInv'
    <2>1. ASSUME tracker \in Steps
          PROVE  \A m \in Roles : shards'[m][tracker] = shards[m][tracker]
      BY <1>2, <1>3, <1>4, <2>1, SavingFacts, Sizes
    <2> QED
      BY <1>1, <1>2, <2>1, TrackedStays
  <1> QED
    BY <1>6, <1>7, <1>8, <1>9 DEF Core

LEMMA CoreEndShard ==
    ASSUME Inv, NEW r \in Ranks, EndShard(r)
    PROVE  Core'
  <1>1. /\ phase = "shards" /\ phase' = "shards"
        /\ writing' = [writing EXCEPT ![r] = "written"]
        /\ shards' = [shards EXCEPT ![role][global_steps][r] = seen[role]]
        /\ UNCHANGED <<config, memory, role, saved_paths, data, tracker,
                       crashes>>
    BY DEF EndShard
  <1>2. /\ InStep /\ Saving /\ Base /\ Saving' /\ Running'
    BY <1>1 DEF InStep, Saving, Running, Inv
  <1>3. global_steps \in Steps /\ role \in Roles
    BY <1>2, SaveTypes
  <1>4. /\ shards'[role][global_steps][r] = seen[role]
        /\ \A q \in Ranks \ {r} : shards'[role][global_steps][q]
                                    = shards[role][global_steps][q]
        /\ \A z \in Steps \ {global_steps} : shards'[role][z] = shards[role][z]
        /\ \A n \in Roles \ {role} : shards'[n] = shards[n]
    BY <1>1, <1>2, <1>3, SaveTypes DEF ShardSet
  <1>5. UNCHANGED <<global_steps, seen>>
    BY <1>1 DEF memory
  <1>6. PassInv' /\ OrderInv' /\ StepInv'
    BY <1>1, <1>2, MemoryStays DEF Inv, Core
  <1>7. PathsInv'
    BY <1>1, <1>2, <1>5 DEF Inv, Core, PathsInv
  <1>8. FilesInv'
    <2>1. role = "critic" => shards'["actor"] = shards["actor"]
      BY <1>4 DEF Roles
    <2>2. writing'[r] = "written" /\ \A q \in Ranks \ {r} : writing'[q] = writing[q]
      BY <1>1, <1>2, SaveTypes
    <2> QED
      BY <1>1, <1>4, <1>5, <2>1, <2>2 DEF Inv, Core, FilesInv
  <1>9. TrackedInv'
    <2>1. ASSUME tracker \in Steps
          PROVE  \A m \in Roles : shards'[m][tracker] = shards[m][tracker]
      BY <1>2, <1>3, <1>4, <2>1, SavingFacts, Sizes
    <2> QED
      BY <1>1, <1>2, <2>1, TrackedStays
  <1> QED
    BY <1>6, <1>7, <1>8, <1>9 DEF Core

\* Registering a checkpoint does not remove it, nor the one that is named if
\* two are kept.
LEMMA CoreRegister == ASSUME Inv, Register PROVE Core'
  <1> DEFINE keep == config.keep[role]
             paths == saved_paths[role] \union {global_steps}
             kept == IF keep > 0 THEN Newest(paths, keep) ELSE paths
             old == paths \ kept
  <1>1. /\ phase = "shards" /\ AllWritten
        /\ saved_paths' = [saved_paths EXCEPT ![role] = kept]
        /\ Remove(role, old)
        /\ IF CriticIsNext THEN phase' = "ensure" /\ role' = "critic"
           ELSE phase' = "data" /\ role' = role
        /\ UNCHANGED <<config, memory, writing, tracker, crashes>>
    BY DEF Register
  <1>2. InStep /\ Saving /\ Base /\ TypeOK
    BY <1>1 DEF InStep, Saving, Inv, Base
  <1>3. /\ global_steps \in Steps /\ role \in Roles /\ keep \in Nat
        /\ paths \subseteq Steps /\ kept \subseteq paths
    BY <1>2, SaveTypes DEF Newest
  <1>4. global_steps \notin old
    <2> SUFFICES ASSUME keep > 0 PROVE global_steps \in Newest(paths, keep)
      OBVIOUS
    <2>1. \A s \in saved_paths[role] : s <= global_steps
      BY <1>3 DEF Inv, Core, PathsInv
    <2>2. {t \in paths : t > global_steps} = {}
      BY <1>2, <1>3, <2>1, SaveTypes, Sizes
    <2> QED
      BY <1>3, <2>2, NewestKept
  <1>5. ASSUME KeepsTwo, tracker \in Steps PROVE tracker \notin old
    <2> SUFFICES ASSUME tracker \in paths, keep > 0
                 PROVE  tracker \in Newest(paths, keep)
      OBVIOUS
    <2>1. \A s \in saved_paths[role] : s <= tracker \/ s = global_steps
      BY <1>2, <1>3, <1>5 DEF Inv, Core, PathsInv
    <2>2. {t \in paths : t > tracker} \subseteq {global_steps}
      BY <1>2, <1>3, <1>5, <2>1, SaveTypes, Sizes
    <2>3. keep > 1
      BY <1>2, <1>3, <1>5, SaveTypes, IdealIs DEF KeepsTwo
    <2> QED
      BY <1>3, <2>2, <2>3, NewestKept
  <1> HIDE DEF keep, kept, old
  <1>6. UNCHANGED <<global_steps, seen>>
    BY <1>1 DEF memory
  <1>7. /\ \A n \in Roles \ {role} : shards'[n] = shards[n]
        /\ \A s \in Steps \ old : /\ shards'[role][s] = shards[role][s]
                                  /\ data'[s] = data[s]
    BY <1>1, <1>2, <1>3, RemoveEffect
  <1>8. /\ CriticIsNext => role = "actor" /\ phase' = "ensure" /\ role' = "critic"
        /\ ~CriticIsNext => phase' = "data" /\ role' = role
    BY <1>1 DEF CriticIsNext
  <1>9. PassInv' /\ OrderInv' /\ StepInv'
    BY <1>1, <1>2, <1>8, MemoryStays DEF Inv, Core
  <1>10. PathsInv'
    <2>1. /\ \A s \in saved_paths'[role] : s \in saved_paths[role]
                                            \/ s = global_steps
          /\ \A m \in Roles \ {role} : saved_paths'[m] = saved_paths[m]
      BY <1>1, <1>2, <1>3, SaveTypes
    <2>2. Running' /\ Saving'
      BY <1>8 DEF Running, Saving
    <2>3. \A m \in Roles : \A s \in saved_paths'[m] :
            /\ s <= global_steps
            /\ tracker \in Steps => s <= tracker \/ s = global_steps
      BY <1>3, <2>1, Sizes DEF Inv, Core, PathsInv
    <2>4. tracker \in Steps => tracker < global_steps /\ tracker <= global_steps
      BY <1>2, <1>3, SavingFacts, Sizes
    <2>5. phase' \in {"ensure", "shards"} =>
            role' = "critic" /\ global_steps \notin saved_paths'["critic"]
      BY <1>1, <1>8, <2>1 DEF Inv, Core, PathsInv, Roles
    <2> QED
      BY <1>1, <1>6, <2>2, <2>3, <2>4, <2>5 DEF PathsInv
  <1>11. FilesInv'
    <2>1. \A r \in Ranks : shards'[role][global_steps][r] = seen[role]
      BY <1>1, <1>3, <1>4, <1>7 DEF AllWritten, Inv, Core, FilesInv
    <2>2. ASSUME role = "critic"
          PROVE  \A r \in Ranks : shards'["actor"][global_steps][r] = seen["actor"]
      BY <1>1, <1>7, <2>2 DEF Inv, Core, FilesInv, Roles
    <2>3. CASE CriticIsNext
      BY <1>1, <1>6, <1>8, <2>1, <2>3 DEF FilesInv
    <2>4. CASE ~CriticIsNext
      <3>1. \A m \in ModelsOf(config) : m = role \/ (role = "critic" /\ m = "actor")
        BY <1>2, <2>4, SaveTypes DEF CriticIsNext, ModelsOf, Roles
      <3> QED
        BY <1>1, <1>6, <1>8, <2>1, <2>2, <2>4, <3>1 DEF FilesInv
    <2> QED
      BY <2>3, <2>4
  <1>12. TrackedInv'
    <2>1. Saving' /\ phase' # "load"
      BY <1>8 DEF Saving
    <2>2. CASE KeepsTwo
      <3>1. ASSUME tracker \in Steps
            PROVE  /\ \A m \in Roles : shards'[m][tracker] = shards[m][tracker]
                   /\ data'[tracker] = data[tracker]
        BY <1>5, <1>7, <2>2, <3>1
      <3> QED
        BY <1>1, <1>2, <2>1, <3>1, TrackedStays
    <2>3. CASE ~KeepsTwo
      BY <1>1, <2>1, <2>3, KeepsTwoStays DEF TrackedInv
    <2> QED
      BY <2>2, <2>3
  <1> QED
    BY <1>9, <1>10, <1>11, <1>12 DEF Core

LEMMA CoreBeginData == ASSUME Inv, BeginData PROVE Core'
  <1>1. /\ phase = "data" /\ phase' = "data_open"
        /\ data' = [data EXCEPT ![global_steps][Main] = Torn]
        /\ UNCHANGED <<config, memory, saving, shards, tracker, crashes>>
    BY DEF BeginData
  <1>2. /\ InStep /\ Saving /\ Base /\ Saving' /\ Running'
    BY <1>1 DEF InStep, Saving, Running, Inv
  <1>3. \A z \in Steps \ {global_steps} : data'[z] = data[z]
    BY <1>1, <1>2, SaveTypes DEF DataSet
  <1>4. UNCHANGED <<global_steps, seen, role, writing, saved_paths>>
    BY <1>1 DEF memory, saving
  <1>5. PassInv' /\ OrderInv' /\ StepInv'
    BY <1>1, <1>2, MemoryStays DEF Inv, Core
  <1>6. PathsInv'
    BY <1>1, <1>2, <1>4 DEF Inv, Core, PathsInv
  <1>7. FilesInv'
    BY <1>1, <1>4 DEF Inv, Core, FilesInv
  <1>8. TrackedInv'
    <2>1. tracker \in Steps => data'[tracker] = data[tracker]
      BY <1>2, <1>3, SavingFacts, SaveTypes, Sizes
    <2> QED
      BY <1>1, <1>2, <2>1, TrackedStays
  <1> QED
    BY <1>5, <1>6, <1>7, <1>8 DEF Core

LEMMA CoreEndData == ASSUME Inv, EndData PROVE Core'
  <1>1. /\ phase = "data_open" /\ phase' = "tracker"
        /\ data' = [data EXCEPT ![global_steps][Main] = LoaderState]
        /\ UNCHANGED <<config, memory, saving, shards, tracker, crashes>>
    BY DEF EndData
  <1>2. /\ InStep /\ Saving /\ Base /\ Saving' /\ Running'
    BY <1>1 DEF InStep, Saving, Running, Inv
  <1>3. /\ \A z \in Steps \ {global_steps} : data'[z] = data[z]
        /\ data'[global_steps][Main] = StateOf(config, global_steps)
    BY <1>1, <1>2, SaveTypes, SavingFacts, Sizes DEF DataSet
  <1>4. UNCHANGED <<global_steps, seen, role, writing, saved_paths>>
    BY <1>1 DEF memory, saving
  <1>5. PassInv' /\ OrderInv' /\ StepInv'
    BY <1>1, <1>2, MemoryStays DEF Inv, Core
  <1>6. PathsInv'
    BY <1>1, <1>2, <1>4 DEF Inv, Core, PathsInv
  <1>7. FilesInv'
    BY <1>1, <1>3, <1>4 DEF Inv, Core, FilesInv
  <1>8. TrackedInv'
    <2>1. tracker \in Steps => data'[tracker] = data[tracker]
      BY <1>2, <1>3, SavingFacts, SaveTypes, Sizes
    <2> QED
      BY <1>1, <1>2, <2>1, TrackedStays
  <1> QED
    BY <1>5, <1>6, <1>7, <1>8 DEF Core

\* A rank other than Main writes a file of its own.
LEMMA CoreOtherData ==
    ASSUME Inv, NEW r \in Ranks, BeginOtherData(r) \/ EndOtherData(r)
    PROVE  Core'
  <1>1. /\ \E w \in {"data_open", "saved"} :
                writing' = [writing EXCEPT ![r] = w]
        /\ \E v \in {Torn, LoaderState} :
                data' = [data EXCEPT ![global_steps][r] = v]
        /\ writing[r] \in {"written", "data_open"}
        /\ UNCHANGED <<config, phase, memory, role, saved_paths, shards,
                       tracker, crashes>>
    BY DEF BeginOtherData, EndOtherData
  <1>2. r # Main /\ InStep /\ Base
    BY DEF BeginOtherData, EndOtherData, InStep, Saving, Inv, Base, OpenInv
  <1>3. \A z \in Steps : data'[z][Main] = data[z][Main]
    BY <1>1, <1>2, SaveTypes DEF DataSet
  <1>4. \A q \in Ranks : writing'[q] \notin {"todo", "open"}
                                => writing[q] \notin {"todo", "open"}
    BY <1>1, <1>2, SaveTypes
  <1>5. UNCHANGED <<global_steps, epoch, pass, position, seen>>
    BY <1>1 DEF memory
  <1>6. PassInv' /\ OrderInv' /\ StepInv'
    BY <1>1, <1>5
    DEF Inv, Core, PassInv, OrderInv, StepInv, Running, InPass, InStep, Saving
  <1>7. PathsInv'
    BY <1>1, <1>5 DEF Inv, Core, PathsInv, Running, Saving
  <1>8. FilesInv'
    <2>1. global_steps \in Steps
      BY <1>2, SaveTypes
    <2> QED
      BY <1>1, <1>3, <1>4, <1>5, <2>1 DEF Inv, Core, FilesInv
  <1>9. TrackedInv'
    BY <1>1, <1>3, KeepsTwoStays DEF Inv, Core, TrackedInv, Saving
  <1> QED
    BY <1>6, <1>7, <1>8, <1>9 DEF Core

LEMMA CoreBeginTracker == ASSUME Inv, BeginTracker PROVE Core'
  <1>1. /\ phase = "tracker" /\ phase' = "tracker_open" /\ tracker' = Torn
        /\ UNCHANGED <<config, memory, saving, shards, data, crashes>>
    BY DEF BeginTracker
  <1>2. /\ InStep /\ Saving' /\ Running'
    BY <1>1 DEF InStep, Saving, Running
  <1>3. UNCHANGED <<global_steps, seen, role, writing, saved_paths>>
    BY <1>1 DEF memory, saving
  <1>4. tracker' \notin Steps
    BY <1>1, NoFile
  <1>5. PassInv' /\ OrderInv' /\ StepInv'
    BY <1>1, <1>2, MemoryStays DEF Inv, Core
  <1>6. PathsInv'
    BY <1>1, <1>2, <1>3, <1>4 DEF Inv, Core, PathsInv
  <1>7. FilesInv'
    BY <1>1, <1>3 DEF Inv, Core, FilesInv
  <1>8. TrackedInv'
    BY <1>1, <1>4 DEF TrackedInv
  <1> QED
    BY <1>5, <1>6, <1>7, <1>8 DEF Core

\* A checkpoint is named when all of it is there.
LEMMA CoreEndTracker == ASSUME Inv, EndTracker PROVE Core'
  <1>1. /\ phase \in {"tracker", "tracker_open"}
        /\ phase' \in {"advance", "barrier"} /\ tracker' = global_steps
        /\ UNCHANGED <<config, memory, saving, shards, data, crashes>>
    BY DEF EndTracker
  <1>2. /\ InStep /\ Saving /\ Base /\ ~Saving' /\ Running'
    BY <1>1 DEF InStep, Saving, Running, Inv
  <1>3. UNCHANGED <<global_steps, seen, role, writing, saved_paths>>
    BY <1>1 DEF memory, saving
  <1>4. global_steps \in Steps /\ global_steps <= global_steps
    BY <1>2, SaveTypes, Sizes
  <1>5. PassInv' /\ OrderInv' /\ StepInv'
    BY <1>1, <1>2, MemoryStays DEF Inv, Core
  <1>6. PathsInv'
    <2>1. \A m \in Roles : \A s \in saved_paths[m] : s <= global_steps
      BY DEF Inv, Core, PathsInv
    <2> QED
      BY <1>1, <1>2, <1>3, <1>4, <2>1 DEF PathsInv
  <1>7. FilesInv'
    BY <1>1, <1>3 DEF FilesInv
  <1>8. TrackedInv'
    <2>1. \A m \in ModelsOf(config), r \in Ranks :
            /\ shards[m][global_steps][r] = seen[m]
            /\ seen[m] \notin {Missing, Torn}
            /\ MaySee(config, m, global_steps, seen[m])
      <3> TAKE m \in ModelsOf(config), r \in Ranks
      <3>1. m \in Roles
        BY <1>2, SaveTypes
      <3>2. seen[m] \in Seq(Nat)
        BY <1>2, <3>1 DEF Base, TypeOK
      <3> QED
        BY <1>1, <1>2, <3>1, <3>2, NoFile, SavingFacts DEF Inv, Core, FilesInv
    <2>2. data[global_steps][Main] = StateOf(config, global_steps)
      BY <1>1 DEF Inv, Core, FilesInv
    <2> QED
      BY <1>1, <1>3, <2>1, <2>2, Sizes DEF TrackedInv
  <1> QED
    BY <1>5, <1>6, <1>7, <1>8 DEF Core

LEMMA CoreNext == ASSUME Inv, [Next]_vars, Protected, Protected' PROVE Core'
  <1>1. CASE LoadNothing \/ LoadCheckpoint \/ LoadFails
    BY <1>1, CoreLoadNothing, CoreLoadCheckpoint, CoreLoadFails
  <1>2. CASE EpochsOver \/ StartPass \/ ExhaustedStateSkipped
    BY <1>2, CoreEpochsOver, CoreStartPass, CoreSkipped
  <1>3. CASE TrainStep \/ Advance \/ EndPass
    BY <1>3, CoreTrainStep, CoreAdvance, CoreEndPass
  <1>4. CASE EnsureCapacity \/ Register
    BY <1>4, CoreEnsureCapacity, CoreRegister
  <1>5. ASSUME NEW r \in Ranks, Write(r) PROVE Core'
    BY <1>5, CoreBeginShard, CoreEndShard, CoreOtherData DEF Write
  <1>6. CASE BeginData \/ EndData \/ BeginTracker \/ EndTracker \/ Barrier
    BY <1>6, CoreBeginData, CoreEndData, CoreBeginTracker, CoreEndTracker,
       CoreBarrier
  <1>7. CASE Crash
    <2>1. crashes \in Nat /\ crashes' = crashes + 1 /\ UNCHANGED config
      BY <1>7, Sizes DEF Crash, Inv, Base, TypeOK
    <2>2. KeepsTwo
      BY <2>1, KeepsTwoStays DEF Protected
    <2> QED
      BY <1>7, <2>2, CoreCrash
  <1>8. CASE UNCHANGED vars
    BY <1>8, KeepsTwoStays
    DEF vars, memory, saving, disk, Inv, Core, PassInv, OrderInv, StepInv,
        PathsInv, FilesInv, TrackedInv, Running, InPass, InStep, Saving
  <1> QED
    BY <1>1, <1>2, <1>3, <1>4, <1>5, <1>6, <1>7, <1>8
    DEF Next, Step, Load, Train, Save

\* A run that is protected always was.
LEMMA WasProtected == ASSUME Base, [Next]_vars, Protected' PROVE Protected
  <1>1. /\ UNCHANGED config /\ crashes \in Nat
        /\ crashes' = crashes \/ crashes' = crashes + 1
    <2>1. crashes \in Nat
      BY Sizes DEF Base, TypeOK
    <2>2. CASE Load \/ Train \/ Crash \/ UNCHANGED vars
      BY <2>1, <2>2
      DEF Load, Train, LoadNothing, LoadCheckpoint, LoadFails, EpochsOver,
          StartPass, ExhaustedStateSkipped, TrainStep, Advance, EndPass, Crash,
          vars
    <2>3. CASE Save
      BY <2>1, <2>3
      DEF Save, Write, EnsureCapacity, BeginShard, EndShard, BeginOtherData,
          EndOtherData, Register, BeginData, EndData, BeginTracker, EndTracker,
          Barrier
    <2> QED
      BY <2>1, <2>2, <2>3 DEF Next, Step
  <1> QED
    BY <1>1, KeepsTwoStays DEF Protected

LEMMA CoreHolds == Spec => [](Base /\ (Protected => Core))
  <1>1. Init => Base /\ (Protected => Core)
    BY BaseInit, CoreInit
  <1>2. ASSUME Base, Protected => Core, [Next]_vars
        PROVE  Base' /\ (Protected' => Core')
    BY <1>2, BaseNext, CoreNext, WasProtected DEF Inv
  <1> QED
    BY <1>1, <1>2, PTL DEF Spec

-----------------------------------------------------------------------------
(* What a restarted run can rely on.                                       *)

\* The variables keep their types: steps and passes their bounds, and disk
\* files are whole, torn or missing.
THEOREM RestartsTypeOK == Spec => []TypeOK
  <1>1. Base => TypeOK
    BY DEF Base
  <1> QED
    BY <1>1, BaseHolds, PTL

\* Whenever the run is killed, the checkpoint that the tracker names is
\* complete, with any number of ranks, batches, passes and crashes, if two
\* checkpoints of each model are kept.  If only one is, so it is outside the
\* saves of a run that was never killed.
THEOREM RestartsTrackedComplete == Spec => []TrackedComplete
  <1>1. ASSUME Base, Protected => Core
        PROVE  TrackedComplete
    BY <1>1, IdealIs
    DEF Protected, Core, TrackedInv, TrackedComplete, Complete
  <1> QED
    BY <1>1, CoreHolds, PTL

\* However often it was killed, the run in memory is like one that was not,
\* if it keeps two checkpoints: a PPO run has trained on the batches of that
\* run, a supervised run on those and, from a restart on, on the batches of
\* whole passes that follow.
THEOREM RestartsLikeUninterrupted == Spec => []LikeUninterrupted
  <1>1. ASSUME Base, Protected => Core
        PROVE  LikeUninterrupted
    BY <1>1, IdealIs
    DEF Protected, Core, StepInv, OrderInv, LikeUninterrupted, Running
  <1> QED
    BY <1>1, CoreHolds, PTL

\* A restart finds what the tracker names, since it is complete.
LEMMA Durable ==
    Inv /\ KeepsTwo
        => DurableStep = IF tracker = Missing THEN 0 ELSE tracker
  <1> SUFFICES ASSUME Inv, KeepsTwo
               PROVE  DurableStep = IF tracker = Missing THEN 0 ELSE tracker
    OBVIOUS
  <1>1. tracker \in Steps => Complete(tracker)
    BY IdealIs DEF Inv, Core, TrackedInv, Complete
  <1>2. tracker \in Steps \union {Missing, Torn}
    BY DEF Inv, Base, TypeOK
  <1> QED
    BY <1>1, <1>2, NoFile DEF DurableStep

LEMMA DurableAfter ==
    (Inv /\ KeepsTwo
        => DurableStep = IF tracker = Missing THEN 0 ELSE tracker)'
  BY Durable, PTL

LEMMA ConfigStays == ASSUME [Next]_vars PROVE UNCHANGED config
  <1>1. CASE Load \/ Train \/ Crash \/ UNCHANGED vars
    BY <1>1
    DEF Load, Train, LoadNothing, LoadCheckpoint, LoadFails, EpochsOver,
        StartPass, ExhaustedStateSkipped, TrainStep, Advance, EndPass, Crash,
        vars
  <1>2. CASE Save
    BY <1>2
    DEF Save, Write, EnsureCapacity, BeginShard, EndShard, BeginOtherData,
        EndOtherData, Register, BeginData, EndData, BeginTracker, EndTracker,
        Barrier
  <1> QED
    BY <1>1, <1>2 DEF Next, Step

LEMMA ProgressStep ==
    ASSUME KeepsTwo, Inv, Inv', [Next]_vars
    PROVE  [Progress!Next]_(Progress!vars)
  <1> DEFINE named == IF tracker = Missing THEN 0 ELSE tracker
             behind == IF phase \in {"load", "failed"} THEN named
                       ELSE global_steps
  <1>1. KeepsTwo' /\ DurableStep = named /\ DurableStep' = named'
    BY Durable, DurableAfter, ConfigStays, KeepsTwoStays
  <1>2. SUFFICES \/ /\ behind # Torn /\ behind' = behind + 1
                    /\ named' = named
                 \/ named' = behind /\ behind' = behind
                 \/ named' = Torn /\ behind' = behind
                 \/ behind' = named /\ named' = named
                 \/ behind' = behind /\ named' = named
    BY <1>1 DEF Progress!Next, Progress!vars, Progress!Work, Progress!Commit,
                Progress!BeginCommit, Progress!Restart
  <1>3. CASE LoadNothing
    <2>1. tracker = Missing
      BY <1>3, TrackedThere DEF LoadNothing, FromScratch
    <2> QED
      BY <1>3, <2>1 DEF LoadNothing, disk
  <1>4. CASE LoadCheckpoint
    <2>1. tracker # Missing
      BY <1>4, NoFile DEF LoadCheckpoint, Resumable
    <2>2. phase' \notin {"load", "failed"}
      BY <1>4 DEF LoadCheckpoint
    <2> QED
      BY <1>4, <2>1, <2>2 DEF LoadCheckpoint, disk
  <1>5. CASE LoadFails
    BY <1>5 DEF LoadFails, disk
  <1>6. CASE TrainStep
    <2>1. global_steps # Torn
      BY NoFile, Sizes DEF Inv, Base, TypeOK
    <2>2. phase' \notin {"load", "failed"} /\ phase \notin {"load", "failed"}
      BY <1>6 DEF TrainStep
    <2> QED
      BY <1>6, <2>1, <2>2 DEF TrainStep, disk
  <1>7. CASE EpochsOver \/ StartPass \/ ExhaustedStateSkipped \/ Advance
             \/ EndPass \/ BeginData \/ EndData \/ Barrier
    <2>1. phase' \notin {"load", "failed"} /\ phase \notin {"load", "failed"}
      BY <1>7 DEF EpochsOver, StartPass, ExhaustedStateSkipped, Advance,
                  EndPass, BeginData, EndData, Barrier
    <2>2. UNCHANGED <<global_steps, tracker>>
      BY <1>7 DEF EpochsOver, StartPass, ExhaustedStateSkipped, Advance,
                  EndPass, BeginData, EndData, Barrier, memory, disk
    <2> QED
      BY <2>1, <2>2
  <1>8. CASE EnsureCapacity \/ Register
    <2>1. phase' \notin {"load", "failed"} /\ phase \notin {"load", "failed"}
      BY <1>8 DEF EnsureCapacity, Register
    <2>2. UNCHANGED <<global_steps, tracker>>
      BY <1>8 DEF EnsureCapacity, Register, memory
    <2> QED
      BY <2>1, <2>2
  <1>9. ASSUME NEW r \in Ranks, Write(r)
        PROVE  behind' = behind /\ named' = named
    <2>1. UNCHANGED <<global_steps, tracker, phase>>
      BY <1>9 DEF Write, BeginShard, EndShard, BeginOtherData, EndOtherData,
                  memory
    <2> QED
      BY <2>1
  <1>10. CASE BeginTracker
    <2>1. tracker' = Torn /\ UNCHANGED global_steps
      BY <1>10 DEF BeginTracker, memory
    <2>2. phase' \notin {"load", "failed"} /\ phase \notin {"load", "failed"}
      BY <1>10 DEF BeginTracker
    <2> QED
      BY <2>1, <2>2, NoFile
  <1>11. CASE EndTracker
    <2>1. tracker' = global_steps /\ UNCHANGED global_steps
      BY <1>11 DEF EndTracker, memory
    <2>2. phase' \notin {"load", "failed"} /\ phase \notin {"load", "failed"}
      BY <1>11 DEF EndTracker
    <2>3. global_steps # Missing
      BY NoFile, Sizes DEF Inv, Base, TypeOK
    <2> QED
      BY <2>1, <2>2, <2>3
  <1>12. CASE Crash
    <2>1. phase' = "load" /\ UNCHANGED tracker
      BY <1>12 DEF Crash, disk
    <2> QED
      BY <2>1
  <1>13. CASE UNCHANGED vars
    BY <1>13 DEF vars, memory, disk
  <1> QED
    BY <1>3, <1>4, <1>5, <1>6, <1>7, <1>8, <1>9, <1>10, <1>11, <1>12, <1>13
    DEF Next, Step, Load, Train, Save

\* A run that keeps two checkpoints and is killed and started again makes
\* durable progress: it goes on at the step that was last committed, a commit
\* is the one write that names a checkpoint, and nothing else a save does can
\* be seen by a restart.
THEOREM RestartsProgress == Spec => ProgressSpec
  <1>1. Init => Progress!Init
    BY NoFile DEF Init, Progress!Init, DurableStep
  <1>2. ASSUME Base, Protected => Core, Base', Protected' => Core',
               [Next]_vars
        PROVE  [Progress!Next]_(Progress!vars)
    <2>1. KeepsTwo' <=> KeepsTwo
      BY <1>2, ConfigStays, KeepsTwoStays
    <2>2. CASE KeepsTwo
      <3>1. Inv /\ Inv'
        BY <1>2, <2>1, <2>2 DEF Inv, Protected
      <3> QED
        BY <1>2, <2>2, <3>1, ProgressStep
    <2>3. CASE ~KeepsTwo
      BY <2>1, <2>3 DEF Progress!vars
    <2> QED
      BY <2>2, <2>3
  <1> QED
    BY <1>1, <1>2, CoreHolds, PTL DEF Spec, ProgressSpec, Progress!Spec

-----------------------------------------------------------------------------
(* How a run ends.                                                         *)

\* The passes the data loader has made bound the steps from below, too: only
\* the pass of a state saved at its end may be skipped.
LowerInv == Running => epoch * Batches + position <= global_steps + Batches

\* Each restart trains at most one step more than configured, and what is
\* trained to the last step is named before the run goes on.
LastInv ==
    LET total == config.total_training_steps
    IN  /\ Running => global_steps <= total + crashes
        /\ tracker \in Steps => tracker <= total + crashes
        /\ phase = "load" /\ tracker \in Steps => tracker < total + crashes
        /\ phase \in {"epoch", "train"} => global_steps < total + crashes
        /\ phase \in {"epoch", "train", "advance", "done"} =>
            (global_steps >= total /\ SavesLast => tracker = global_steps)
        /\ phase = "barrier" => tracker = global_steps

\* Between two saves no checkpoint is due behind the one that is named.
DueInv ==
    phase \in {"epoch", "train", "advance", "done"} /\ config.save_freq > 0 =>
        \A s \in 1..global_steps : s % config.save_freq = 0 =>
            tracker \in Steps /\ s <= tracker

EndInv == LowerInv /\ LastInv /\ DueInv

LEMMA LowerNext == ASSUME Base, LowerInv, [Next]_vars PROVE LowerInv'
  <1> USE DEF LowerInv
  <1>0. /\ epoch * Batches \in Nat /\ global_steps \in Nat /\ position \in Nat
        /\ epoch \in Nat
    BY TypeBounds DEF Base
  <1>1. CASE LoadNothing
    BY <1>1, Sizes DEF LoadNothing
  <1>2. CASE LoadCheckpoint
    <2>1. /\ tracker \in Steps /\ global_steps' = tracker
          /\ epoch' = tracker \div Batches
          /\ position' = LoadedState(tracker, Main).place
          /\ ~Unreadable(tracker)
      BY <1>2 DEF LoadCheckpoint, Resumable
    <2>2. LoadedState(tracker, Main) \in Loaders
      BY <2>1, StateType, Sizes DEF Base, Unreadable, DataRanks
    <2>3. position' \in 0..Batches
      BY <2>1, <2>2 DEF Loaders
    <2>4. /\ (tracker \div Batches) * Batches <= tracker
          /\ tracker \div Batches \in Nat /\ tracker \in Nat
      BY <2>1, PassOf, Sizes
    <2>5. (tracker \div Batches) * Batches \in Nat
      BY <2>4, Sizes
    <2>6. epoch' * Batches = (tracker \div Batches) * Batches
      BY <2>1
    <2> QED
      BY <2>1, <2>3, <2>4, <2>5, <2>6, Sizes
  <1>3. CASE LoadFails
    BY <1>3 DEF LoadFails, Running
  <1>4. CASE ExhaustedStateSkipped
    BY <1>4, <1>0, Sizes DEF ExhaustedStateSkipped, Running
  <1>5. CASE TrainStep
    BY <1>5, <1>0, Sizes DEF TrainStep, Running
  <1>6. CASE EndPass
    <2>1. (epoch + 1) * Batches = epoch * Batches + Batches
      BY <1>0, Sizes
    <2> QED
      BY <1>6, <1>0, <2>1, Sizes DEF EndPass, Running
  <1>7. CASE EpochsOver \/ StartPass \/ Advance \/ BeginData \/ EndData
             \/ BeginTracker \/ EndTracker \/ Barrier
    BY <1>7 DEF EpochsOver, StartPass, Advance, BeginData, EndData,
                BeginTracker, EndTracker, Barrier, memory, Running
  <1>8. CASE EnsureCapacity \/ Register
    BY <1>8 DEF EnsureCapacity, Register, memory, Running
  <1>9. ASSUME NEW r \in Ranks, Write(r) PROVE LowerInv'
    BY <1>9 DEF Write, BeginShard, EndShard, BeginOtherData, EndOtherData,
                memory, Running
  <1>10. CASE Crash
    BY <1>10 DEF Crash, Running
  <1>11. CASE UNCHANGED vars
    BY <1>11 DEF vars, memory, Running
  <1> QED
    BY <1>1, <1>2, <1>3, <1>4, <1>5, <1>6, <1>7, <1>8, <1>9, <1>10, <1>11
    DEF Next, Step, Load, Train, Save

LEMMA LastTypes ==
    ASSUME TypeOK
    PROVE  /\ config.total_training_steps \in Steps
           /\ config.total_training_steps \in Nat \ {0}
           /\ config.save_freq \in Nat /\ crashes \in Nat /\ global_steps \in Nat
           /\ tracker \in Steps => tracker \in Nat
  <1>1. /\ config.total_training_steps \in TotalSteps
        /\ config.save_freq \in SaveFreqs
    BY DEF TypeOK, Config
  <1>2. /\ config.total_training_steps \in Steps
        /\ config.total_training_steps \in Nat \ {0}
    <2>1. TotalSteps \subseteq Steps
      BY SizesAssumption DEF Steps
    <2>2. Steps \subseteq Nat \ {0}
      BY Sizes
    <2> QED
      BY <1>1, <2>1, <2>2
  <1>3. config.save_freq \in Nat
    BY <1>1, SizesAssumption
  <1>4. crashes \in Nat /\ global_steps \in Nat
    BY Sizes DEF TypeOK
  <1>5. tracker \in Steps => tracker \in Nat
    BY Sizes
  <1> QED
    BY <1>2, <1>3, <1>4, <1>5

LEMMA LastNext == ASSUME Base, LastInv, [Next]_vars PROVE LastInv'
  <1> DEFINE total == config.total_training_steps
  <1> USE DEF LastInv, SavesLast
  <1>0. /\ total \in Nat \ {0} /\ config.save_freq \in Nat /\ crashes \in Nat
        /\ global_steps \in Nat
        /\ tracker \in Steps => tracker \in Nat
    BY LastTypes DEF Base
  <1>1. CASE LoadNothing
    <2>1. /\ phase = "load" /\ phase' = "epoch" /\ global_steps' = 0
          /\ UNCHANGED <<config, tracker, crashes>>
      BY <1>1 DEF LoadNothing, disk
    <2> QED
      BY <1>0, <2>1
  <1>2. CASE LoadCheckpoint
    <2>1. /\ phase = "load" /\ phase' \in {"epoch", "diverged"}
          /\ tracker \in Steps /\ global_steps' = tracker
          /\ UNCHANGED <<config, tracker, crashes>>
      BY <1>2 DEF LoadCheckpoint, Resumable, disk
    <2>2. tracker \in Nat /\ tracker < total + crashes
      BY <1>0, <2>1
    <2>3. phase' # "load" /\ phase' # "barrier"
      BY <2>1
    <2> QED
      BY <1>0, <2>1, <2>2, <2>3
  <1>3. CASE LoadFails
    <2>1. phase' = "failed" /\ UNCHANGED <<config, tracker, crashes>>
      BY <1>3 DEF LoadFails, disk
    <2> QED
      BY <1>0, <2>1 DEF Running
  <1>4. CASE EpochsOver \/ StartPass \/ ExhaustedStateSkipped \/ EndPass
    BY <1>4 DEF EpochsOver, StartPass, ExhaustedStateSkipped, EndPass, memory,
                disk, Running
  <1>5. CASE TrainStep
    <2>1. /\ phase = "train" /\ phase' \in {"ensure", "advance"}
          /\ global_steps' = global_steps + 1
          /\ UNCHANGED <<config, tracker, crashes>>
      BY <1>5 DEF TrainStep, disk
    <2>2. phase' = "advance" /\ SavesLast => global_steps + 1 < total
      <3>1. config.trainer = "ppo" \/ config.trainer = "sft"
        BY TrainerCases DEF Base
      <3> QED
        BY <1>0, <1>5, <2>1, <3>1 DEF TrainStep, SaveDue, IsLastStep
    <2> QED
      BY <1>0, <2>1, <2>2 DEF Running
  <1>6. CASE Advance
    BY <1>0, <1>6 DEF Advance, disk, Running, IsLastStep
  <1>7. CASE EnsureCapacity \/ Register
    <2>1. /\ phase \in {"ensure", "shards"}
          /\ phase' \in {"ensure", "shards", "data"}
          /\ UNCHANGED <<config, global_steps, tracker, crashes>>
      BY <1>7 DEF EnsureCapacity, Register, memory
    <2> QED
      BY <2>1 DEF Running
  <1>8. ASSUME NEW r \in Ranks, Write(r) PROVE LastInv'
    BY <1>8 DEF Write, BeginShard, EndShard, BeginOtherData, EndOtherData,
                memory, Running
  <1>9. CASE BeginData \/ EndData
    BY <1>9 DEF BeginData, EndData, memory, Running
  <1>10. CASE BeginTracker
    <2>1. /\ phase = "tracker" /\ phase' = "tracker_open" /\ tracker' = Torn
          /\ UNCHANGED <<config, global_steps, crashes>>
      BY <1>10 DEF BeginTracker, memory
    <2>2. tracker' \notin Steps
      BY <2>1, NoFile
    <2> QED
      BY <2>1, <2>2 DEF Running
  <1>11. CASE EndTracker
    <2>1. /\ phase \in {"tracker", "tracker_open"}
          /\ phase' \in {"advance", "barrier"} /\ tracker' = global_steps
          /\ UNCHANGED <<config, global_steps, crashes>>
      BY <1>11 DEF EndTracker, memory
    <2> QED
      BY <2>1 DEF Running
  <1>12. CASE Barrier
    BY <1>12 DEF Barrier, memory, disk, Running
  <1>13. CASE Crash
    <2>1. /\ phase' = "load" /\ crashes' = crashes + 1
          /\ UNCHANGED <<config, tracker>>
      BY <1>13 DEF Crash, disk
    <2> QED
      BY <1>0, <2>1 DEF Running
  <1>14. CASE UNCHANGED vars
    BY <1>14 DEF vars, memory, disk, Running
  <1> QED
    BY <1>1, <1>2, <1>3, <1>4, <1>5, <1>6, <1>7, <1>8, <1>9, <1>10, <1>11,
       <1>12, <1>13, <1>14
    DEF Next, Step, Load, Train, Save

LEMMA DueNext == ASSUME Base, LastInv, DueInv, [Next]_vars PROVE DueInv'
  <1> USE DEF DueInv
  <1>0. /\ config.save_freq \in Nat /\ global_steps \in Nat
        /\ tracker \in Steps => tracker \in Nat
    BY LastTypes DEF Base
  <1>1. CASE LoadNothing
    BY <1>1 DEF LoadNothing
  <1>2. CASE LoadCheckpoint
    BY <1>0, <1>2 DEF LoadCheckpoint, Resumable, disk
  <1>3. CASE LoadFails
    BY <1>3 DEF LoadFails
  <1>4. CASE EpochsOver \/ StartPass \/ ExhaustedStateSkipped \/ EndPass
             \/ Advance
    BY <1>4 DEF EpochsOver, StartPass, ExhaustedStateSkipped, EndPass, Advance,
                memory, disk
  <1>5. CASE TrainStep
    <2>1. /\ phase = "train" /\ phase' \in {"ensure", "advance"}
          /\ global_steps' = global_steps + 1
          /\ UNCHANGED <<config, tracker>>
      BY <1>5 DEF TrainStep, disk
    <2>2. phase' = "advance" /\ config.save_freq > 0
                => (global_steps + 1) % config.save_freq # 0
      <3>1. config.trainer = "ppo" \/ config.trainer = "sft"
        BY TrainerCases DEF Base
      <3> QED
        BY <1>5, <2>1, <3>1 DEF TrainStep, SaveDue
    <2>3. \A s \in 1..(global_steps + 1) :
                s \in 1..global_steps \/ s = global_steps + 1
      BY <1>0
    <2> QED
      BY <1>0, <2>1, <2>2, <2>3
  <1>6. CASE EnsureCapacity \/ Register
    BY <1>6 DEF EnsureCapacity, Register
  <1>7. ASSUME NEW r \in Ranks, Write(r) PROVE DueInv'
    BY <1>7 DEF Write, BeginShard, EndShard, BeginOtherData, EndOtherData,
                memory
  <1>8. CASE BeginData \/ EndData \/ BeginTracker
    BY <1>8 DEF BeginData, EndData, BeginTracker
  <1>9. CASE EndTracker \/ Barrier
    <2>1. /\ InStep /\ tracker' = global_steps /\ UNCHANGED global_steps
      BY <1>9 DEF EndTracker, Barrier, memory, disk, InStep, Saving, LastInv
    <2> QED
      BY <1>0, <2>1, SaveTypes
  <1>10. CASE Crash
    BY <1>10 DEF Crash
  <1>11. CASE UNCHANGED vars
    BY <1>11 DEF vars, memory, disk
  <1> QED
    BY <1>1, <1>2, <1>3, <1>4, <1>5, <1>6, <1>7, <1>8, <1>9, <1>10, <1>11
    DEF Next, Step, Load, Train, Save

\* A run that is killed any number of times and ends has trained the
\* configured steps, but for the one pass that a state saved at its end may
\* skip and one step too many for each restart.  If it trained them all, the
\* tracker names the last one, if not, one behind which no checkpoint was due.
THEOREM RestartsFinishedDurably == Spec => []FinishedDurably
  <1> DEFINE Over == phase = "done" =>
                        epoch >= TotalEpochs
                            \/ global_steps >= config.total_training_steps
  <1>1. Init => EndInv /\ Over
    BY NoFile, LastTypes, BaseInit, Sizes
    DEF Init, EndInv, LowerInv, LastInv, DueInv, Base
  <1>2. Base /\ EndInv /\ Over /\ [Next]_vars => EndInv' /\ Over'
    <2> SUFFICES ASSUME Base, EndInv, Over, [Next]_vars
                 PROVE  EndInv' /\ Over'
      OBVIOUS
    <2>1. EndInv'
      BY LowerNext, LastNext, DueNext DEF EndInv
    <2>2. Over'
      <3>1. CASE Load
        BY <3>1 DEF Load, LoadNothing, LoadCheckpoint, LoadFails
      <3>2. CASE Train
        BY <3>2 DEF Train, EpochsOver, StartPass, ExhaustedStateSkipped,
                    TrainStep, Advance, EndPass, memory, IsLastStep
      <3>3. ASSUME NEW r \in Ranks, Write(r) PROVE Over'
        BY <3>3 DEF Write, BeginShard, EndShard, BeginOtherData,
                    EndOtherData, memory
      <3>4. CASE EnsureCapacity \/ Register
        BY <3>4 DEF EnsureCapacity, Register
      <3>5. CASE BeginData \/ EndData \/ BeginTracker \/ EndTracker \/ Barrier
        BY <3>5 DEF BeginData, EndData, BeginTracker, EndTracker, Barrier
      <3>6. CASE Crash
        BY <3>6 DEF Crash
      <3>7. CASE UNCHANGED vars
        BY <3>7 DEF vars, memory
      <3> QED
        BY <3>1, <3>2, <3>3, <3>4, <3>5, <3>6, <3>7 DEF Next, Step, Save
    <2> QED
      BY <2>1, <2>2
  <1>3. Base /\ EndInv /\ Over => FinishedDurably
    <2> SUFFICES ASSUME Base, EndInv, Over, phase = "done"
                 PROVE  FinishedDurably
      BY DEF FinishedDurably
    <2>1. /\ config.total_training_steps \in Nat /\ global_steps \in Nat
          /\ config.total_training_steps <= Batches * TotalEpochs
      BY LastTypes, Sizes DEF Base
    <2>2. global_steps >= config.total_training_steps - Batches
      <3>1. CASE global_steps >= config.total_training_steps
        BY <3>1, <2>1, Sizes
      <3>2. CASE epoch >= TotalEpochs
        <4>1. epoch = TotalEpochs /\ position \in Nat
          BY <3>2, TypeBounds, Sizes DEF Base
        <4>2. TotalEpochs * Batches + position <= global_steps + Batches
          BY <4>1 DEF EndInv, LowerInv, Running
        <4>3. TotalEpochs * Batches = Batches * TotalEpochs
          BY Sizes
        <4> QED
          BY <2>1, <4>1, <4>2, <4>3, Sizes
      <3> QED
        BY <3>1, <3>2
    <2> QED
      BY <2>2 DEF FinishedDurably, EndInv, LastInv, DueInv, Running
  <1> HIDE DEF Over
  <1> QED
    BY <1>1, <1>2, <1>3, BaseHolds, PTL DEF Spec

-----------------------------------------------------------------------------
(* What stays on disk.                                                     *)

\* The order of the naturals as a relation, so that a set of them has a least
\* element.
Below == {p \in Nat \X Nat : p[1] < p[2]}

LEMMA Least ==
    ASSUME NEW S \in SUBSET Nat, S # {}
    PROVE  \E m \in S : \A n \in S : m <= n
  <1>1. IsWellFoundedOn(Below, Nat)
    BY NatLessThanWellFounded DEF OpToRel, Below
  <1>2. PICK m \in S : \A n \in S : <<n, m>> \notin Below
    BY <1>1, WFMin
  <1>3. \A n \in S : ~(n < m)
    BY <1>2 DEF Below
  <1> QED
    BY <1>3

LEMMA StepsFinite ==
    ASSUME NEW S \in SUBSET Steps
    PROVE  IsFiniteSet(S) /\ Cardinality(S) \in Nat
  <1>1. IsFiniteSet(Steps)
    BY Sizes, FS_Interval
  <1> QED
    BY <1>1, FS_Subset, FS_CardinalityType

\* No more are newest than asked for: all but the oldest of them are newer
\* than it.
LEMMA NewestBound ==
    ASSUME NEW S \in SUBSET Steps, NEW k \in Nat
    PROVE  Cardinality(Newest(S, k)) <= k
  <1> DEFINE T == Newest(S, k)
  <1>1. T \in SUBSET Steps /\ T \in SUBSET Nat
    <2>1. T \subseteq S
      BY DEF Newest
    <2>2. Steps \subseteq Nat
      BY Sizes
    <2> QED
      BY <2>1, <2>2
  <1>2. CASE T = {}
    BY <1>2, FS_EmptySet
  <1>3. CASE T # {}
    <2>1. PICK m \in T : \A n \in T : m <= n
      BY <1>1, <1>3, Least
    <2> DEFINE newer == {t \in S : t > m}
    <2>2. Cardinality(newer) < k /\ m \in Nat
      BY <1>1, <2>1 DEF Newest
    <2>3. T \ {m} \subseteq newer
      <3> SUFFICES ASSUME NEW n \in T, n # m PROVE n \in newer
        OBVIOUS
      <3>1. n \in S /\ n \in Nat /\ m <= n
        BY <1>1, <2>1 DEF Newest
      <3> QED
        BY <2>2, <3>1
    <2>4. IsFiniteSet(newer) /\ Cardinality(newer) \in Nat
      BY StepsFinite
    <2> HIDE DEF newer, T
    <2>5. Cardinality(T \ {m}) <= Cardinality(newer)
      BY <2>3, <2>4, FS_Subset
    <2>6. IsFiniteSet(T) /\ Cardinality(T) \in Nat
      BY <1>1, StepsFinite
    <2>7. Cardinality(T \ {m}) = Cardinality(T) - 1
      BY <2>1, <2>6, FS_RemoveElement
    <2> QED
      BY <2>2, <2>4, <2>5, <2>6, <2>7 DEF T
  <1> QED
    BY <1>2, <1>3

\* The checkpoint of a model that this start of the run is writing.
Current(m) == IF phase = "shards" /\ role = m THEN {global_steps} ELSE {}

\* The checkpoints this start of the run answers for, and those it does not.
Owned(m) == saved_paths[m] \union Current(m)
LeftBehind(m) == OnDisk(m) \ Owned(m)

\* This start answers for no more checkpoints than it may keep, and all that
\* were started before it left no more than that each.
RetainInv ==
    \A m \in Roles : config.keep[m] > 1 =>
        /\ Cardinality(Owned(m)) <= config.keep[m]
        /\ Cardinality(LeftBehind(m)) <= config.keep[m] * crashes

LEMMA OwnedSteps ==
    ASSUME Base, NEW m \in Roles
    PROVE  /\ Owned(m) \in SUBSET Steps /\ LeftBehind(m) \in SUBSET Steps
           /\ saved_paths[m] \in SUBSET Steps
           /\ config.keep[m] \in Nat /\ crashes \in Nat
  <1>1. phase = "shards" => global_steps \in Steps
    BY SaveTypes DEF InStep, Saving
  <1>2. saved_paths[m] \in SUBSET Steps /\ OnDisk(m) \in SUBSET Steps
    BY DEF Base, TypeOK, OnDisk
  <1>3. config.keep[m] \in Nat
    BY SizesAssumption DEF Base, TypeOK, Config
  <1>4. crashes \in Nat
    BY Sizes DEF Base, TypeOK
  <1> QED
    BY <1>1, <1>2, <1>3, <1>4 DEF Owned, Current, LeftBehind

\* What one start may leave on top of what c starts left.
LEMMA LeftBound ==
    ASSUME NEW S \in SUBSET Steps, NEW T \in SUBSET Steps, NEW k \in Nat,
           NEW c \in Nat, Cardinality(S) <= k, Cardinality(T) <= k * c,
           NEW U, U \subseteq S \union T
    PROVE  Cardinality(U) <= k * (c + 1)
  <1>1. /\ IsFiniteSet(S) /\ Cardinality(S) \in Nat
        /\ IsFiniteSet(T) /\ Cardinality(T) \in Nat
        /\ IsFiniteSet(S \union T) /\ Cardinality(S \union T) \in Nat
        /\ Cardinality(S \cap T) \in Nat
    BY StepsFinite
  <1>2. Cardinality(S \union T)
            = Cardinality(S) + Cardinality(T) - Cardinality(S \cap T)
    BY <1>1, FS_Union
  <1>3. Cardinality(U) <= Cardinality(S \union T) /\ Cardinality(U) \in Nat
    BY <1>1, FS_Subset, FS_CardinalityType
  <1>4. k * (c + 1) = k * c + k /\ k * c \in Nat
    OBVIOUS
  <1> QED
    BY <1>1, <1>2, <1>3, <1>4

\* A step that lets a start answer for no more than it may, and leaves it no
\* checkpoint it does not answer for, keeps the bound.
LEMMA RetainStays ==
    ASSUME Base, RetainInv, UNCHANGED <<config, crashes>>,
           \A m \in Roles :
              /\ config.keep[m] > 1 => Cardinality(Owned(m)') <= config.keep[m]
              /\ LeftBehind(m)' \subseteq LeftBehind(m)
    PROVE  RetainInv'
  <1> SUFFICES ASSUME NEW m \in Roles, config.keep[m] > 1
               PROVE  Cardinality(LeftBehind(m)') <= config.keep[m] * crashes
    BY DEF RetainInv
  <1>1. LeftBehind(m) \in SUBSET Steps /\ config.keep[m] * crashes \in Nat
    BY OwnedSteps
  <1>2. IsFiniteSet(LeftBehind(m)) /\ Cardinality(LeftBehind(m)) \in Nat
    BY <1>1, StepsFinite
  <1>3. /\ Cardinality(LeftBehind(m)') <= Cardinality(LeftBehind(m))
        /\ IsFiniteSet(LeftBehind(m)')
    BY <1>2, FS_Subset
  <1>4. Cardinality(LeftBehind(m)') \in Nat
    BY <1>3, FS_CardinalityType
  <1>5. Cardinality(LeftBehind(m)) <= config.keep[m] * crashes
    BY DEF RetainInv
  <1> QED
    BY <1>1, <1>2, <1>3, <1>4, <1>5

\* A removal takes folders from disk, and adds none.
LEMMA RemoveOnDisk ==
    ASSUME TypeOK, NEW m \in Roles, NEW old, Remove(m, old)
    PROVE  /\ OnDisk(m)' \subseteq OnDisk(m) \ old
           /\ \A n \in Roles \ {m} : OnDisk(n)' = OnDisk(n)
  <1>1. shards \in ShardSet
    BY DEF TypeOK, ShardSet
  <1>2. shards' = [shards EXCEPT ![m] =
                    [s \in Steps |-> IF s \in old THEN Absent
                                     ELSE shards[m][s]]]
    BY DEF Remove
  <1>3. /\ \A s \in Steps : shards'[m][s] = IF s \in old THEN Absent
                                            ELSE shards[m][s]
        /\ \A n \in Roles \ {m} : shards'[n] = shards[n]
    BY <1>1, <1>2 DEF ShardSet
  <1> QED
    BY <1>3 DEF OnDisk

LEMMA RetainEnsure ==
    ASSUME Base, RetainInv, EnsureCapacity
    PROVE  RetainInv'
  <1>0. PICK q \in Roles : q = role
    BY SaveTypes DEF EnsureCapacity, InStep, Saving
  <1> DEFINE keep == config.keep[q]
             kept == IF keep > 1 THEN Newest(saved_paths[q], keep - 1)
                     ELSE saved_paths[q]
             old == saved_paths[q] \ kept
  <1>1. /\ phase = "ensure" /\ phase' = "shards"
        /\ saved_paths' = [saved_paths EXCEPT ![q] = kept]
        /\ Remove(q, old)
        /\ UNCHANGED <<config, role, crashes, global_steps>>
    BY <1>0 DEF EnsureCapacity, Retain, memory
  <1>2. /\ role = q /\ global_steps \in Steps /\ keep \in Nat
        /\ saved_paths[q] \in SUBSET Steps
    BY <1>0, <1>1, SaveTypes DEF InStep, Saving
  <1>3. /\ saved_paths'[q] = kept
        /\ \A m \in Roles \ {q} : saved_paths'[m] = saved_paths[m]
    BY <1>1, <1>2 DEF Base, TypeOK
  <1>4. kept \subseteq saved_paths[q]
    BY DEF Newest
  <1>5. keep > 1 => Cardinality(kept) <= keep - 1
    BY <1>2, NewestBound
  <1>6. /\ OnDisk(q)' \subseteq OnDisk(q) \ old
        /\ \A m \in Roles \ {q} : OnDisk(m)' = OnDisk(m)
    BY <1>1, <1>2, RemoveOnDisk DEF Base
  <1> HIDE DEF kept
  <1>7. /\ Owned(q)' = kept \union {global_steps}
        /\ Owned(q) = saved_paths[q]
        /\ \A m \in Roles \ {q} : Owned(m)' = Owned(m)
    BY <1>1, <1>2, <1>3 DEF Owned, Current
  <1>8. \A m \in Roles : LeftBehind(m)' \subseteq LeftBehind(m)
    <2>1. LeftBehind(q)' \subseteq LeftBehind(q)
      BY <1>6, <1>7 DEF LeftBehind
    <2>2. \A m \in Roles \ {q} : LeftBehind(m)' = LeftBehind(m)
      BY <1>6, <1>7 DEF LeftBehind
    <2> QED
      BY <2>1, <2>2
  <1>9. keep > 1 => Cardinality(Owned(q)') <= keep
    <2> SUFFICES ASSUME keep > 1 PROVE Cardinality(kept \union {global_steps}) <= keep
      BY <1>7
    <2>1. IsFiniteSet(kept) /\ Cardinality(kept) \in Nat
      BY <1>2, <1>4, StepsFinite
    <2>2. Cardinality(kept \union {global_steps}) =
            IF global_steps \in kept THEN Cardinality(kept)
            ELSE Cardinality(kept) + 1
      BY <2>1, FS_AddElement
    <2>3. Cardinality(kept) <= keep - 1
      BY <1>5
    <2> HIDE DEF keep
    <2> QED
      BY <1>2, <2>1, <2>2, <2>3
  <1>10. ASSUME NEW m \in Roles, config.keep[m] > 1
         PROVE  Cardinality(Owned(m)') <= config.keep[m]
    <2>1. CASE m = q
      BY <1>9, <1>10, <2>1
    <2>2. CASE m # q
      BY <1>7, <1>10, <2>2 DEF RetainInv
    <2> QED
      BY <2>1, <2>2
  <1> QED
    BY <1>1, <1>8, <1>10, RetainStays

LEMMA RetainRegister ==
    ASSUME Base, RetainInv, Register
    PROVE  RetainInv'
  <1>0. PICK q \in Roles : q = role
    BY SaveTypes DEF Register, InStep, Saving
  <1> DEFINE keep == config.keep[q]
             paths == saved_paths[q] \union {global_steps}
             kept == IF keep > 0 THEN Newest(paths, keep) ELSE paths
             old == paths \ kept
  <1>1. /\ phase = "shards" /\ phase' \in {"ensure", "data"}
        /\ saved_paths' = [saved_paths EXCEPT ![q] = kept]
        /\ Remove(q, old)
        /\ UNCHANGED <<config, crashes, global_steps>>
    BY <1>0 DEF Register, memory
  <1>2. /\ role = q /\ global_steps \in Steps /\ keep \in Nat
        /\ saved_paths[q] \in SUBSET Steps
    BY <1>0, <1>1, SaveTypes DEF InStep, Saving
  <1>3. /\ saved_paths'[q] = kept
        /\ \A m \in Roles \ {q} : saved_paths'[m] = saved_paths[m]
    BY <1>1, <1>2 DEF Base, TypeOK
  <1>4. kept \subseteq paths
    BY DEF Newest
  <1>5. keep > 1 => Cardinality(kept) <= keep
    <2>1. paths \in SUBSET Steps
      BY <1>2
    <2> QED
      BY <1>2, <2>1, NewestBound
  <1> HIDE DEF keep, kept, old
  <1>6. /\ OnDisk(q)' \subseteq OnDisk(q) \ old
        /\ \A m \in Roles \ {q} : OnDisk(m)' = OnDisk(m)
    BY <1>1, <1>2, RemoveOnDisk DEF Base
  <1>7. /\ Owned(q)' = kept /\ Owned(q) = paths
        /\ \A m \in Roles \ {q} : Owned(m)' = Owned(m)
    <2>1. \A m \in Roles : Current(m)' = {}
      BY <1>1 DEF Current
    <2>2. \A m \in Roles \ {q} : Current(m) = {}
      BY <1>2 DEF Current
    <2>3. Current(q) = {global_steps}
      BY <1>1, <1>2 DEF Current
    <2> QED
      BY <1>2, <1>3, <2>1, <2>2, <2>3 DEF Owned
  <1>8. \A m \in Roles : LeftBehind(m)' \subseteq LeftBehind(m)
    <2>1. LeftBehind(q)' \subseteq LeftBehind(q)
      BY <1>6, <1>7 DEF LeftBehind, old
    <2>2. \A m \in Roles \ {q} : LeftBehind(m)' = LeftBehind(m)
      BY <1>6, <1>7 DEF LeftBehind
    <2> QED
      BY <2>1, <2>2
  <1>9. ASSUME NEW m \in Roles, config.keep[m] > 1
        PROVE  Cardinality(Owned(m)') <= config.keep[m]
    <2>1. CASE m = q
      BY <1>5, <1>7, <1>9, <2>1 DEF keep
    <2>2. CASE m # q
      BY <1>7, <1>9, <2>2 DEF RetainInv
    <2> QED
      BY <2>1, <2>2
  <1> QED
    BY <1>1, <1>8, <1>9, RetainStays

\* A rank writes into the folder of the step that is being saved.
LEMMA RetainShard ==
    ASSUME Base, RetainInv, NEW r \in Ranks, BeginShard(r) \/ EndShard(r)
    PROVE  RetainInv'
  <1>1. /\ phase = "shards" /\ phase' = "shards"
        /\ \E v : shards' = [shards EXCEPT ![role][global_steps][r] = v]
        /\ UNCHANGED <<config, crashes, global_steps, role, saved_paths>>
    BY DEF BeginShard, EndShard, memory
  <1>2. \A m \in Roles : Owned(m)' = Owned(m)
    BY <1>1 DEF Owned, Current
  <1>3. role \in Roles /\ global_steps \in Steps
    BY <1>1, SaveTypes DEF InStep, Saving
  <1>4. \A m \in Roles, s \in Steps :
            ~(m = role /\ s = global_steps) => shards'[m][s] = shards[m][s]
    BY <1>1, <1>3 DEF Base, TypeOK
  <1>5. global_steps \in Owned(role)
    BY <1>1 DEF Owned, Current
  <1>6. \A m \in Roles : LeftBehind(m)' \subseteq LeftBehind(m)
    BY <1>2, <1>4, <1>5 DEF LeftBehind, OnDisk
  <1>7. \A m \in Roles : config.keep[m] > 1 =>
                            Cardinality(Owned(m)') <= config.keep[m]
    BY <1>2 DEF RetainInv
  <1> QED
    BY <1>1, <1>6, <1>7, RetainStays

\* What a killed run leaves adds to what was left before it.
LEMMA RetainCrash ==
    ASSUME Base, RetainInv, Crash
    PROVE  RetainInv'
  <1>1. /\ phase' = "load" /\ crashes' = crashes + 1
        /\ saved_paths' = [m \in Roles |-> {}]
        /\ UNCHANGED <<config, shards>>
    BY DEF Crash, disk
  <1> SUFFICES ASSUME NEW m \in Roles, config.keep[m] > 1
               PROVE  /\ Cardinality(Owned(m)') <= config.keep[m]
                      /\ Cardinality(LeftBehind(m)')
                            <= config.keep[m] * (crashes + 1)
    BY <1>1 DEF RetainInv
  <1> DEFINE k == config.keep[m]
  <1>2. /\ Owned(m) \in SUBSET Steps /\ LeftBehind(m) \in SUBSET Steps
        /\ k \in Nat /\ crashes \in Nat
    BY OwnedSteps
  <1>3. Owned(m)' = {} /\ LeftBehind(m)' \subseteq LeftBehind(m) \union Owned(m)
    BY <1>1 DEF Owned, Current, LeftBehind, OnDisk
  <1>4. /\ Cardinality(Owned(m)) <= k
        /\ Cardinality(LeftBehind(m)) <= k * crashes
    BY DEF RetainInv
  <1> HIDE DEF k
  <1>5. Cardinality(LeftBehind(m)') <= k * (crashes + 1)
    BY <1>2, <1>3, <1>4, LeftBound
  <1> QED
    BY <1>2, <1>3, <1>5, FS_EmptySet DEF k

LEMMA RetainNext == ASSUME Base, RetainInv, [Next]_vars PROVE RetainInv'
  <1> DEFINE Same == /\ UNCHANGED <<config, crashes, saved_paths, shards>>
                     /\ \A m \in Roles : Current(m)' = Current(m)
  <1>1. ASSUME Same PROVE RetainInv'
    BY <1>1 DEF RetainInv, Owned, LeftBehind, OnDisk
  <1>2. CASE Load
    BY <1>1, <1>2 DEF Load, LoadNothing, LoadCheckpoint, LoadFails, Current,
                      saving, disk
  <1>3. CASE Train
    BY <1>1, <1>3
    DEF Train, EpochsOver, StartPass, ExhaustedStateSkipped, TrainStep,
        Advance, EndPass, Current, saving, disk
  <1>4. ASSUME NEW r \in Ranks, BeginOtherData(r) \/ EndOtherData(r)
        PROVE  RetainInv'
    BY <1>1, <1>4 DEF BeginOtherData, EndOtherData, Current, memory
  <1>5. CASE BeginData \/ EndData \/ BeginTracker \/ EndTracker \/ Barrier
    BY <1>1, <1>5 DEF BeginData, EndData, BeginTracker, EndTracker, Barrier,
                      Current, memory, saving, disk
  <1>6. CASE UNCHANGED vars
    BY <1>1, <1>6 DEF vars, Current, memory, saving, disk
  <1> QED
    BY <1>2, <1>3, <1>4, <1>5, <1>6, RetainEnsure, RetainRegister,
       RetainShard, RetainCrash
    DEF Next, Step, Save, Write

\* Retention works across restarts, in the only way it can: each start of
\* the run leaves no more checkpoints of a model than it may keep.
THEOREM RestartsRetentionBound == Spec => []RetentionBound
  <1>1. Init => RetainInv
    <2> SUFFICES ASSUME Init, NEW m \in Roles, config.keep[m] > 1
                 PROVE  /\ Cardinality(Owned(m)) <= config.keep[m]
                        /\ Cardinality(LeftBehind(m)) <= config.keep[m] * crashes
      BY DEF RetainInv
    <2>1. Owned(m) = {} /\ LeftBehind(m) = {} /\ crashes = 0
      BY DEF Init, Owned, Current, LeftBehind, OnDisk
    <2>2. config.keep[m] \in Nat
      BY BaseInit, OwnedSteps
    <2> QED
      BY <2>1, <2>2, FS_EmptySet
  <1>2. Base /\ RetainInv /\ [Next]_vars => RetainInv'
    BY RetainNext
  <1>3. Base /\ RetainInv => RetentionBound
    <2> SUFFICES ASSUME Base, RetainInv, NEW m \in Models, config.keep[m] > 1
                 PROVE  Cardinality(OnDisk(m)) <= config.keep[m] * (crashes + 1)
      BY DEF RetentionBound
    <2> DEFINE k == config.keep[m]
    <2>1. m \in Roles
      BY DEF Models, Roles
    <2>2. /\ Owned(m) \in SUBSET Steps /\ LeftBehind(m) \in SUBSET Steps
          /\ k \in Nat /\ crashes \in Nat
      BY <2>1, OwnedSteps
    <2>3. Cardinality(Owned(m)) <= k /\ Cardinality(LeftBehind(m)) <= k * crashes
      BY <2>1 DEF RetainInv
    <2>4. OnDisk(m) \subseteq Owned(m) \union LeftBehind(m)
      BY DEF LeftBehind
    <2> HIDE DEF k
    <2>5. Cardinality(OnDisk(m)) <= k * (crashes + 1)
      BY <2>2, <2>3, <2>4, LeftBound
    <2> QED
      BY <2>5 DEF k
  <1> QED
    BY <1>1, <1>2, <1>3, BaseHolds, PTL DEF Spec
=============================================================================
