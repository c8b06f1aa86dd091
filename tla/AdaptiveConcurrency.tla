------------------------- MODULE AdaptiveConcurrency -------------------------
(***************************************************************************)
(* The admission controller of crates/rtinfer-core/src/adaptive.rs: two    *)
(* transport lanes with windows that adapt, one aggregate ceiling, an      *)
(* account throttle, and callers that wait on one tokio Notify.            *)
(*                                                                         *)
(* Every critical section of the state mutex is one step, and so is every  *)
(* call into Notify, because the code makes these calls with the mutex     *)
(* released: other tasks run in between.                                   *)
(***************************************************************************)
EXTENDS Naturals, FiniteSets

CONSTANTS
  Task,           \* one value per concurrent caller of acquire
  Enabled,        \* lanes of the configured mode (EnabledResponsesLanes)
  Initial,        \* Initial[l]: first window of lane l
  Maximum,        \* Maximum[l]: largest window of lane l
  AggregateMax,   \* fixed process ceiling
  MinPause,       \* shortest pause a Retry-After gives (100 ms in the code)
  DefaultPause,   \* pause without a usable Retry-After (1 s)
  MaxPause,       \* longest pause (30 s)
  RetryAfter,     \* Retry-After values the provider sends, in the same unit
  Recurring       \* whether a caller asks again when its ask has ended

Lane == {"http", "websocket"}

\* validate_config, and the mode that enables at least one lane.  Time is
\* counted in units of MinPause or finer, so no pause is empty.
ASSUME ConfigAssumption ==
  /\ IsFiniteSet(Task)
  /\ Enabled \subseteq Lane /\ Enabled # {}
  /\ Initial \in [Lane -> Nat \ {0}]
  /\ Maximum \in [Lane -> Nat \ {0}]
  /\ \A l \in Lane : Initial[l] <= Maximum[l]
  /\ AggregateMax \in Nat \ {0}
  /\ AggregateMax <= Maximum["http"] + Maximum["websocket"]
  /\ MinPause \in Nat \ {0} /\ DefaultPause \in Nat \ {0} /\ MaxPause \in Nat
  /\ MinPause <= MaxPause
  /\ RetryAfter \subseteq Nat
  /\ Recurring \in BOOLEAN

-----------------------------------------------------------------------------
VARIABLES
  lane,                 \* lane[l]: the Lane struct
  aggregate_in_flight,  \* State.aggregate_in_flight
  waiting,              \* State.waiting
  throttle,             \* time left until State.throttle_until, 0 if past
  pc,                   \* where a task is in acquire or in its lease
  lease,                \* lane of the lease a task holds
  timer,                \* time left until the deadline a task sleeps to
  notified,             \* the task's Notified future
  permit                \* Notify's stored permit

shared == <<lane, aggregate_in_flight, waiting, throttle>>
notify == <<notified, permit>>
vars == <<lane, aggregate_in_flight, waiting, throttle, pc, lease, timer,
          notified, permit>>

NoLease == "none"

Outcome == {"Success", "LaneOverload", "Failure", "Indeterminate"}

\* idle -> start -> registered -> granted -> holding -> notify_* -> done, with
\* the loop registered -> parked or sleeping -> rechecking -> start.
Location ==
  {"idle", "start", "registered", "parked", "sleeping", "rechecking",
   "abandoned", "granted", "holding", "notify_one", "notify_all", "done"}

\* "out": no future; "waiting": in Notify's list; "one", "all": taken from
\* the list by notify_one or notify_waiters and not polled since; "ready":
\* polled to completion.
Notice == {"out", "waiting", "one", "all", "ready"}

LaneState ==
  [limit : Nat, in_flight : Nat, slow_start : BOOLEAN,
   successes_since_increase : Nat]

LeaseOwner == {"granted", "holding"}
Blocked == {"parked", "sleeping"}

Holders(l) == {t \in Task : pc[t] \in LeaseOwner /\ lease[t] = l}
Waiters == {t \in Task : pc[t] \in Blocked}
Listed == {t \in Task : notified[t] = "waiting"}

\* usize::saturating_sub(1)
Less1(n) == IF n > 0 THEN n - 1 ELSE 0

Larger(m, n) == IF m > n THEN m ELSE n

-----------------------------------------------------------------------------
(* Lane *)

NewLane(l) ==
  [limit |-> Initial[l], in_flight |-> 0, slow_start |-> TRUE,
   successes_since_increase |-> 0]

HasHeadroom(w) == w.in_flight < w.limit

Headroom(w) == IF w.limit > w.in_flight THEN w.limit - w.in_flight ELSE 0

Reserve(w) == [w EXCEPT !.in_flight = @ + 1]

\* Mutant: a cancelled lease frees the aggregate slot only.
LeakyCancelLane(w) == w

CancelLane(w) == [w EXCEPT !.in_flight = Less1(@)]

\* A success grows the window only if the lane was saturated when it ended
\* and the window is below its maximum.
Grow(w) ==
  IF w.slow_start
  THEN [w EXCEPT !.limit = @ + 1]
  ELSE IF w.successes_since_increase + 1 >= w.limit
       THEN [w EXCEPT !.limit = @ + 1, !.successes_since_increase = 0]
       ELSE [w EXCEPT !.successes_since_increase = @ + 1]

\* Mutant: a window may be halved to nothing.
ShrinkToNothing(w) ==
  [w EXCEPT !.limit = @ \div 2,
            !.slow_start = FALSE,
            !.successes_since_increase = 0]

Shrink(w) ==
  [w EXCEPT !.limit = Larger(@ \div 2, 1),
            !.slow_start = FALSE,
            !.successes_since_increase = 0]

FinishLane(w, max, outcome) ==
  LET saturated == w.in_flight >= w.limit
      freed == [w EXCEPT !.in_flight = Less1(@)]
  IN  CASE outcome = "Success" /\ saturated /\ w.limit < max -> Grow(freed)
        [] outcome = "LaneOverload" -> Shrink(freed)
        [] OTHER -> freed

-----------------------------------------------------------------------------
(* State *)

Open == {l \in Enabled : HasHeadroom(lane[l])}

\* Mutant: the aggregate ceiling is not consulted.
LaneRoomOnly == Open # {}

CanAdmit == aggregate_in_flight < AggregateMax /\ Open # {}

\* Utilisation compared without division, then headroom, then HTTP.
Prefers(l, m) ==
  LET here == lane[l].in_flight * lane[m].limit
      there == lane[m].in_flight * lane[l].limit
  IN  \/ here < there
      \/ here = there /\ Headroom(lane[l]) > Headroom(lane[m])
      \/ here = there /\ Headroom(lane[l]) = Headroom(lane[m]) /\ l = "http"

Selected(l) ==
  /\ CanAdmit
  /\ l \in Open
  /\ \A m \in Open \ {l} : Prefers(l, m)

\* shared_throttle_duration over the values Retry-After can take.
Clamp(secs) == IF secs < MinPause THEN MinPause
               ELSE IF secs > MaxPause THEN MaxPause ELSE secs

Pauses == {DefaultPause} \cup {Clamp(secs) : secs \in RetryAfter}

-----------------------------------------------------------------------------
(* tokio::sync::Notify.  Which listed waiter notify_one takes is left open. *)

NotifyOne(list) ==
  IF list = {}
  THEN permit' = TRUE /\ notified' = notified
  ELSE /\ \E u \in list : notified' = [notified EXCEPT ![u] = "one"]
       /\ UNCHANGED permit

\* Mutant: a throttle wakes one waiter.
NotifyOneOfWaiters == NotifyOne(Listed)

NotifyWaiters ==
  /\ notified' = [u \in Task |-> IF u \in Listed THEN "all" ELSE notified[u]]
  /\ UNCHANGED permit

\* Mutant: a notification dies with the future that received it.
DropFutureSilently(t) ==
  notified' = [notified EXCEPT ![t] = "out"] /\ UNCHANGED permit

\* Dropping a future that notify_one took and nobody polled passes the
\* notification on.
DropFuture(t) ==
  IF notified[t] # "one"
  THEN notified' = [notified EXCEPT ![t] = "out"] /\ UNCHANGED permit
  ELSE IF Listed = {}
       THEN notified' = [notified EXCEPT ![t] = "out"] /\ permit' = TRUE
       ELSE /\ \E u \in Listed :
                 notified' = [notified EXCEPT ![t] = "out", ![u] = "one"]
            /\ UNCHANGED permit

-----------------------------------------------------------------------------
Goto(t, from, to) == pc[t] = from /\ pc' = [pc EXCEPT ![t] = to]

Init ==
  /\ lane = [l \in Lane |-> NewLane(l)]
  /\ aggregate_in_flight = 0
  /\ waiting = 0
  /\ throttle = 0
  /\ pc = [t \in Task |-> "idle"]
  /\ lease = [t \in Task |-> NoLease]
  /\ timer = [t \in Task |-> 0]
  /\ notified = [t \in Task |-> "out"]
  /\ permit = FALSE

\* A caller enters acquire.
Ask(t) ==
  /\ Goto(t, "idle", "start")
  /\ UNCHANGED <<shared, lease, timer, notify>>

\* notified() and enable(): consume a stored permit or join the list.
Register(t) ==
  /\ Goto(t, "start", "registered")
  /\ notified' = [notified EXCEPT ![t] = IF permit THEN "ready" ELSE "waiting"]
  /\ permit' = FALSE
  /\ UNCHANGED <<shared, lease, timer>>

\* The locked section of acquire, one action per outcome.
CheckThrottled(t) ==
  /\ throttle > 0
  /\ Goto(t, "registered", "sleeping")
  /\ waiting' = waiting + 1
  /\ timer' = [timer EXCEPT ![t] = throttle]
  /\ UNCHANGED <<lane, aggregate_in_flight, throttle, lease, notify>>

CheckGranted(t, l) ==
  /\ throttle = 0
  /\ Selected(l)
  /\ Goto(t, "registered", "granted")
  /\ lane' = [lane EXCEPT ![l] = Reserve(@)]
  /\ aggregate_in_flight' = aggregate_in_flight + 1
  /\ lease' = [lease EXCEPT ![t] = l]
  /\ UNCHANGED <<waiting, throttle, timer, notify>>

CheckFull(t) ==
  /\ throttle = 0
  /\ ~CanAdmit
  /\ Goto(t, "registered", "parked")
  /\ waiting' = waiting + 1
  /\ UNCHANGED <<lane, aggregate_in_flight, throttle, lease, timer, notify>>

\* The wait ends and the WaitingGuard drops.  Polling the future consumes its
\* notification; the branch of select! that the deadline wins does not.
LeaveWait(t, to) ==
  /\ pc' = [pc EXCEPT ![t] = to]
  /\ waiting' = Less1(waiting)
  /\ timer' = [timer EXCEPT ![t] = 0]
  /\ UNCHANGED <<lane, aggregate_in_flight, throttle, lease, permit>>

WakeByNotice(t) ==
  /\ pc[t] \in Blocked
  /\ notified[t] \in {"one", "all", "ready"}
  /\ notified' = [notified EXCEPT ![t] = "ready"]
  /\ LeaveWait(t, "rechecking")

\* Mutant: a throttled task waits for a notification alone.
NoDeadline(t) == FALSE /\ pc[t] = "sleeping" /\ UNCHANGED vars

WakeByDeadline(t) ==
  /\ pc[t] = "sleeping"
  /\ timer[t] = 0
  /\ LeaveWait(t, "rechecking")
  /\ UNCHANGED notified

\* The caller's future is dropped while it is pending.  One whose Notified is
\* ready on the first poll never pends.
Abandon(t) ==
  /\ pc[t] \in Blocked
  /\ notified[t] # "ready"
  /\ LeaveWait(t, "abandoned")
  /\ UNCHANGED notified

\* The Notified future goes out of scope: at the end of the loop body, when
\* acquire returns the lease, or when the caller's future is dropped.
DropNotified(t) ==
  /\ \/ Goto(t, "rechecking", "start")
     \/ Goto(t, "granted", "holding")
     \/ Goto(t, "abandoned", "done")
  /\ DropFuture(t)
  /\ UNCHANGED <<shared, lease, timer>>

\* AdaptiveLease::release up to the unlock.
Release(t, w) ==
  /\ pc[t] = "holding"
  /\ lane' = [lane EXCEPT ![lease[t]] = w]
  /\ aggregate_in_flight' = Less1(aggregate_in_flight)
  /\ lease' = [lease EXCEPT ![t] = NoLease]
  /\ UNCHANGED <<waiting, timer, notify>>

Finish(t, outcome) ==
  /\ Goto(t, "holding", "notify_one")
  /\ Release(t, FinishLane(lane[lease[t]], Maximum[lease[t]], outcome))
  /\ UNCHANGED throttle

\* Mutant: a shorter throttle replaces a longer one that is running.
FinishThrottledAnew(t, d) ==
  /\ Goto(t, "holding", "notify_all")
  /\ Release(t, FinishLane(lane[lease[t]], Maximum[lease[t]], "SharedThrottle"))
  /\ throttle' = d

FinishThrottled(t, d) ==
  /\ Goto(t, "holding", "notify_all")
  /\ Release(t, FinishLane(lane[lease[t]], Maximum[lease[t]], "SharedThrottle"))
  /\ throttle' = Larger(throttle, d)

\* Mutant: a lease dropped by its caller wakes nobody.
DropLeaseQuietly(t) ==
  /\ Goto(t, "holding", "done")
  /\ Release(t, CancelLane(lane[lease[t]]))
  /\ UNCHANGED throttle

DropLease(t) ==
  /\ Goto(t, "holding", "notify_one")
  /\ Release(t, CancelLane(lane[lease[t]]))
  /\ UNCHANGED throttle

\* The call into Notify that follows the unlock.
Announce(t) ==
  /\ \/ Goto(t, "notify_one", "done") /\ NotifyOne(Listed)
     \/ Goto(t, "notify_all", "done") /\ NotifyWaiters
  /\ UNCHANGED <<shared, lease, timer>>

AskAgain(t) ==
  /\ Recurring
  /\ Goto(t, "done", "idle")
  /\ UNCHANGED <<shared, lease, timer, notify>>

Tick ==
  /\ throttle > 0
  /\ throttle' = throttle - 1
  /\ timer' = [t \in Task |-> Less1(timer[t])]
  /\ UNCHANGED <<lane, aggregate_in_flight, waiting, pc, lease, notify>>

EndLease(t) ==
  \/ \E outcome \in Outcome : Finish(t, outcome)
  \/ \E d \in Pauses : FinishThrottled(t, d)
  \/ DropLease(t)

\* What the runtime runs for a task once it has asked.
Progress(t) ==
  \/ Register(t)
  \/ CheckThrottled(t)
  \/ \E l \in Lane : CheckGranted(t, l)
  \/ CheckFull(t)
  \/ WakeByNotice(t)
  \/ WakeByDeadline(t)
  \/ DropNotified(t)
  \/ EndLease(t)
  \/ Announce(t)

Next ==
  \/ \E t \in Task : Ask(t) \/ Abandon(t) \/ AskAgain(t) \/ Progress(t)
  \/ Tick

Spec == Init /\ [][Next]_vars

\* The runtime polls every woken task, every ask ends (120 s deadline in both
\* lanes), and time passes.  Nobody is obliged to ask or to give up.
FairSpec ==
  /\ Spec
  /\ \A t \in Task : WF_vars(Progress(t))
  /\ WF_vars(Tick)

-----------------------------------------------------------------------------
TypeOK ==
  /\ lane \in [Lane -> LaneState]
  /\ \A l \in Lane : lane[l].limit \in 1..Maximum[l]
  /\ aggregate_in_flight \in Nat
  /\ waiting \in Nat
  /\ throttle \in Nat
  /\ pc \in [Task -> Location]
  /\ lease \in [Task -> Lane \cup {NoLease}]
  /\ timer \in [Task -> Nat]
  /\ notified \in [Task -> Notice]
  /\ permit \in BOOLEAN

\* The counters are exactly the leases and the waits there are, through
\* every completion, cancellation and throttle: nothing leaks, nothing is
\* released twice, and no saturating_sub ever saturates.
Conservation ==
  /\ \A l \in Lane : lane[l].in_flight = Cardinality(Holders(l))
  /\ aggregate_in_flight = lane["http"].in_flight + lane["websocket"].in_flight
  /\ waiting = Cardinality(Waiters)

\* No lane and no aggregate count ever exceeds its configured maximum, even
\* when a window shrinks under leases that are out and grows again.
RespectsMaxima ==
  /\ \A l \in Lane : lane[l].in_flight <= Maximum[l]
  /\ aggregate_in_flight <= AggregateMax

\* A task that waits for a notification is never forgotten: a lease is out
\* whose end will notify, or a notification is under way, or a task is awake
\* and about to recheck.
Forgotten(t) == pc[t] = "parked" /\ notified[t] = "waiting"

Rechecker(t) == pc[t] \in {"start", "registered", "rechecking"}

NoLostWakeup ==
  (\E t \in Task : Forgotten(t)) =>
    \/ aggregate_in_flight > 0
    \/ \E t \in Task : pc[t] \in {"notify_one", "notify_all"} \/ Rechecker(t)
    \/ \E t \in Task : notified[t] = "one"

\* A throttle reaches everyone who waits: until notify_waiters has run, or
\* else by their own deadline, which no later throttle leaves stale.
ThrottleReachesWaiters ==
  (throttle > 0 /\ \A u \in Task : pc[u] # "notify_all") =>
    \A t \in Listed :
      /\ pc[t] # "parked"
      /\ pc[t] = "sleeping" => timer[t] = throttle

\* Once no caller asks again, every ask that starts is admitted or given up by
\* its caller: who waits may be overtaken by newcomers, and by nothing else.
EveryAskSettles ==
  <>[][\A t \in Task : ~AskAgain(t)]_vars =>
    \A t \in Task : pc[t] = "start" ~> pc[t] \in {"holding", "done"}

\* "Wait until a lane and aggregate slot are available": nobody waits for a
\* notification while there is room and nobody is on the way to take it or to
\* wake the waiter.
Quiescent == \A t \in Task :
  /\ pc[t] \in {"idle", "parked", "sleeping", "holding", "done"}
  /\ notified[t] \in {"out", "waiting"}

NoIdleCapacity ==
  Quiescent /\ throttle = 0 /\ CanAdmit => \A t \in Task : ~Forgotten(t)

-----------------------------------------------------------------------------
\* The controller implements the ledger.
Ledger == INSTANCE AdmissionLedger WITH
  seekers <- {t \in Task : pc[t] \in {"start", "registered", "rechecking"}
                                      \cup Blocked},
  holders <- [l \in Lane |-> Holders(l)],
  window <- [l \in Lane |-> lane[l].limit],
  pause <- throttle

LedgerSpec == Ledger!Spec
LedgerFairSpec == Ledger!FairSpec
=============================================================================
