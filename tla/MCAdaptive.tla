------------------------------ MODULE MCAdaptive ------------------------------
(* Instances of AdaptiveConcurrency for TLC. *)
EXTENDS AdaptiveConcurrency, TLC

Both == {"http", "websocket"}
OnlyWss == {"websocket"}

\* Windows that start narrow, so that a few completions saturate, grow and
\* halve them.
OneEach == [l \in Lane |-> 1]
TwoEach == [l \in Lane |-> 2]

TaskSymmetry == Permutations(Task)
=============================================================================
