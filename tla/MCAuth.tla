------------------------------- MODULE MCAuth -------------------------------
(* Instances of CodexAuth for TLC. *)
EXTENDS CodexAuth, TLC

CONSTANTS p1, p2, c1, c2, c3

OneProcess == [c \in Caller |-> p1]
TwoProcesses == c1 :> p1 @@ c2 :> p1 @@ c3 :> p2

\* The two callers of one process.
Neighbours == Permutations({c1, c2})

\* Nobody logs in: all of Next but Login, which the auth part of MCRealtime has.
WithoutLogin ==
  \/ \E c \in Caller :
       \/ Ask(c) \/ LoadHit(c) \/ LoadStale(c) \/ ForceShared(c) \/ ForceStart(c)
       \/ Refresh(c) \/ Finish(c) \/ Reject(c) \/ Drop(c)
  \/ \E p \in Process : Crash(p) \/ Restart(p) \/ PassTtl(p)
  \/ \E n \in 0..issued : Expire(n)

RotationSpec == Init /\ [][WithoutLogin]_vars
=============================================================================
