--------------------------- MODULE AdmissionLedger ---------------------------
(***************************************************************************)
(* What the admission controller of crates/rtinfer-core/src/adaptive.rs    *)
(* promises its callers, with no waiter list, no notification and no       *)
(* counter: a ledger of which task holds which lane.  A task that seeks    *)
(* admission gets one lane of the enabled ones when that lane and the      *)
(* aggregate have room and no account throttle is running; it owns exactly *)
(* one slot until it settles; windows move only when a lease settles.      *)
(***************************************************************************)
EXTENDS Naturals, FiniteSets

CONSTANTS
  Task,          \* callers of acquire
  Lane,          \* transports
  Enabled,       \* the lanes the configured mode may use
  Initial,       \* first window of a lane
  Maximum,       \* largest window of a lane
  AggregateMax,  \* fixed process ceiling
  Pauses         \* lengths a shared throttle may have

VARIABLES
  seekers,  \* tasks whose acquire has not returned
  holders,  \* holders[l]: tasks with a lease on lane l
  window,   \* window[l]: current concurrency window
  pause     \* time left of the account throttle, 0 when none

ledger == <<seekers, holders, window, pause>>

Idle == Task \ (seekers \cup UNION {holders[l] : l \in Lane})

Admitted == UNION {holders[l] : l \in Lane}

Saturated(l) == Cardinality(holders[l]) >= window[l]

Init ==
  /\ seekers = {}
  /\ holders = [l \in Lane |-> {}]
  /\ window = Initial
  /\ pause = 0

Seek(t) ==
  /\ t \in Idle
  /\ seekers' = seekers \cup {t}
  /\ UNCHANGED <<holders, window, pause>>

GiveUp(t) ==
  /\ t \in seekers
  /\ seekers' = seekers \ {t}
  /\ UNCHANGED <<holders, window, pause>>

Admit(t, l) ==
  /\ t \in seekers
  /\ l \in Enabled
  /\ pause = 0
  /\ ~Saturated(l)
  /\ Cardinality(Admitted) < AggregateMax
  /\ seekers' = seekers \ {t}
  /\ holders' = [holders EXCEPT ![l] = @ \cup {t}]
  /\ UNCHANGED <<window, pause>>

\* A lease ends, in one of four ways.
Leave(t, l) ==
  /\ t \in holders[l]
  /\ holders' = [holders EXCEPT ![l] = @ \ {t}]
  /\ UNCHANGED seekers

\* Only a saturated lane may grow, by one and up to its maximum.
Succeed(t, l) ==
  /\ Leave(t, l)
  /\ UNCHANGED pause
  /\ \/ UNCHANGED window
     \/ /\ Saturated(l)
        /\ window[l] < Maximum[l]
        /\ window' = [window EXCEPT ![l] = @ + 1]

\* An overload halves the window, to no less than one.
Overload(t, l) ==
  /\ Leave(t, l)
  /\ UNCHANGED pause
  /\ window' = [window EXCEPT ![l] = IF @ > 1 THEN @ \div 2 ELSE 1]

\* A throttle extends the pause, never shortens it.
Throttle(t, l) ==
  /\ Leave(t, l)
  /\ UNCHANGED window
  /\ \E d \in Pauses : pause' = IF pause > d THEN pause ELSE d

\* A failure, an indeterminate end or a caller that goes away.
Withdraw(t, l) == Leave(t, l) /\ UNCHANGED <<window, pause>>

Settle(t, l) ==
  \/ Succeed(t, l)
  \/ Overload(t, l)
  \/ Throttle(t, l)
  \/ Withdraw(t, l)

Elapse ==
  /\ pause > 0
  /\ pause' = pause - 1
  /\ UNCHANGED <<seekers, holders, window>>

Next ==
  \/ \E t \in Task : Seek(t) \/ GiveUp(t)
  \/ \E t \in Task, l \in Lane : Admit(t, l) \/ Settle(t, l)
  \/ Elapse

Spec == Init /\ [][Next]_ledger

\* Room is never left unused for ever while somebody seeks it, every lease
\* settles, and a throttle runs out.
FairSpec ==
  /\ Spec
  /\ WF_ledger(\E t \in Task, l \in Lane : Admit(t, l))
  /\ \A t \in Task : WF_ledger(\E l \in Lane : Settle(t, l))
  /\ WF_ledger(Elapse)
=============================================================================
