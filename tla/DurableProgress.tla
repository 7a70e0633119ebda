-------------------------- MODULE DurableProgress --------------------------
(***************************************************************************)
(* What checkpoints promise a training run that may be killed at any       *)
(* moment: a restart continues at the last step that was committed, and    *)
(* commits only move forward.  A commit may first leave the run without a  *)
(* readable one.                                                           *)
(***************************************************************************)
EXTENDS Integers

CONSTANT Torn \* the last commit is unreadable, the step before it forgotten

VARIABLES
    step,   \* steps behind the state in memory
    durable \* the step a restart finds

vars == <<step, durable>>

Init == step = 0 /\ durable = 0

Work == step # Torn /\ step' = step + 1 /\ UNCHANGED durable

Commit == durable' = step /\ UNCHANGED step

BeginCommit == durable' = Torn /\ UNCHANGED step

\* The process is killed; what it continues from is what is durable.
Restart == step' = durable /\ UNCHANGED durable

Next == Work \/ Commit \/ BeginCommit \/ Restart

Spec == Init /\ [][Next]_vars
=============================================================================
