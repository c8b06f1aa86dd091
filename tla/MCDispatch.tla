------------------------------ MODULE MCDispatch ------------------------------
(* Instances of ResponsesDispatch for TLC. *)
EXTENDS ResponsesDispatch, TLC

Both == {"http", "websocket"}
OneEach == [l \in Lane |-> 1]
TwoEach == [l \in Lane |-> 2]

Names == Permutations(Task) \cup Permutations(Socket)
=============================================================================
