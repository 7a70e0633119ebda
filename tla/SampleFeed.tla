----------------------------- MODULE SampleFeed -----------------------------
(***************************************************************************)
(* What the message queue between Rollouter and Trainer promises: a feed   *)
(* of samples, numbered in the order they are sent, that holds at most     *)
(* Capacity of them, gives up the oldest when it overflows, and hands each *)
(* of the others to one consumer, oldest first.                            *)
(***************************************************************************)
EXTENDS Integers, Sequences

CONSTANT Capacity \* samples the feed can hold

VARIABLES
    sent,     \* how many samples were sent
    held,     \* the samples the feed holds
    received  \* the samples handed out, in that order

vars == <<sent, held, received>>

Init ==
    /\ sent = 0
    /\ held = {}
    /\ received = <<>>

\* Sample s is the oldest of S.
IsOldest(s, S) == s \in S /\ \A t \in S : s <= t

\* The new sample is held, and no sample that is Capacity behind it: a feed
\* that is not full gives up nothing, a full one its oldest sample.
Send ==
    /\ sent' = sent + 1
    /\ held' = {s \in held \union {sent + 1} : s > sent + 1 - Capacity}
    /\ UNCHANGED received

Receive ==
    \E s \in held :
        /\ IsOldest(s, held)
        /\ held' = held \ {s}
        /\ received' = Append(received, s)
        /\ UNCHANGED sent

Discard ==
    /\ held' = {}
    /\ UNCHANGED <<sent, received>>

Next == Send \/ Receive \/ Discard

Spec == Init /\ [][Next]_vars
=============================================================================
