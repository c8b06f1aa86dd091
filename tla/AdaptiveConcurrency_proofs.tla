--------------------- MODULE AdaptiveConcurrency_proofs ---------------------
(***************************************************************************)
(* Proofs about the admission controller, for any number of callers, any   *)
(* windows and any ceiling.                                                *)
(***************************************************************************)
EXTENDS AdaptiveConcurrency, FiniteSetTheorems, TLAPS

-----------------------------------------------------------------------------
(* The operators on a Lane. *)

\* Growing adds at most one to the window and touches no slot.
LEMMA GrowLane ==
  ASSUME NEW w \in LaneState
  PROVE  /\ Grow(w) \in LaneState
         /\ Grow(w).limit \in {w.limit, w.limit + 1}
         /\ Grow(w).in_flight = w.in_flight
<1> DEFINE more == w.limit + 1
           credit == w.successes_since_increase + 1
<1>1. w.limit \in Nat /\ more \in Nat /\ credit \in Nat
  BY DEF LaneState
<1>2. \/ Grow(w) = [w EXCEPT !.limit = more]
      \/ Grow(w) = [w EXCEPT !.limit = more, !.successes_since_increase = 0]
      \/ Grow(w) = [w EXCEPT !.successes_since_increase = credit]
  BY Zenon DEF Grow
<1> HIDE DEF more, credit
<1>3. CASE Grow(w) = [w EXCEPT !.limit = more]
  BY <1>1, <1>3 DEF LaneState, more
<1>4. CASE Grow(w) = [w EXCEPT !.limit = more, !.successes_since_increase = 0]
  <2>1. Grow(w) \in LaneState /\ Grow(w).limit = more
        /\ Grow(w).in_flight = w.in_flight
    <3>1. w = [limit |-> w.limit, in_flight |-> w.in_flight,
               slow_start |-> w.slow_start,
               successes_since_increase |-> w.successes_since_increase]
      BY DEF LaneState
    <3>2. Grow(w) = [limit |-> more, in_flight |-> w.in_flight,
                     slow_start |-> w.slow_start, successes_since_increase |-> 0]
      BY <3>1, <1>4, Zenon
    <3>3. QED
      BY <1>1, <3>2 DEF LaneState
  <2>2. QED
    BY <2>1 DEF more
<1>5. CASE Grow(w) = [w EXCEPT !.successes_since_increase = credit]
  BY <1>1, <1>5 DEF LaneState
<1>6. QED
  BY <1>2, <1>3, <1>4, <1>5

\* Shrinking halves the window down to one and touches no slot.
LEMMA ShrinkLane ==
  ASSUME NEW w \in LaneState
  PROVE  /\ Shrink(w) \in LaneState
         /\ Shrink(w).limit = IF w.limit > 1 THEN w.limit \div 2 ELSE 1
         /\ Shrink(w).in_flight = w.in_flight
<1>1. Larger(w.limit \div 2, 1) = IF w.limit > 1 THEN w.limit \div 2 ELSE 1
  BY DEF Larger, LaneState
<1>2. Larger(w.limit \div 2, 1) \in Nat
  BY <1>1 DEF LaneState
<1>3. QED
  BY <1>1, <1>2 DEF Shrink, LaneState

\* A completion frees one slot of its lane, keeps the window between one and
\* its maximum, and moves it only as the ledger allows.
LEMMA FinishLaneEffect ==
  ASSUME NEW w \in LaneState, NEW max \in Nat, w.limit \in 1..max, NEW outcome
  PROVE  LET after == FinishLane(w, max, outcome)
         IN  /\ after \in LaneState
             /\ after.limit \in 1..max
             /\ after.in_flight = Less1(w.in_flight)
             /\ \/ after.limit = w.limit
                \/ /\ w.in_flight >= w.limit
                   /\ w.limit < max
                   /\ after.limit = w.limit + 1
                \/ after.limit = IF w.limit > 1 THEN w.limit \div 2 ELSE 1
<1> DEFINE freed == [w EXCEPT !.in_flight = Less1(@)]
           saturated == w.in_flight >= w.limit
<1>1. freed \in LaneState /\ freed.limit = w.limit
      /\ freed.in_flight = Less1(w.in_flight)
  BY DEF LaneState, Less1
<1>2. FinishLane(w, max, outcome) =
        IF outcome = "Success" /\ saturated /\ w.limit < max THEN Grow(freed)
        ELSE IF outcome = "LaneOverload" THEN Shrink(freed) ELSE freed
  BY DEF FinishLane
<1> HIDE DEF freed
<1>3. /\ Grow(freed) \in LaneState
      /\ Grow(freed).limit \in {w.limit, w.limit + 1}
      /\ Grow(freed).in_flight = Less1(w.in_flight)
  BY <1>1, GrowLane
<1>4. /\ Shrink(freed) \in LaneState
      /\ Shrink(freed).limit = IF w.limit > 1 THEN w.limit \div 2 ELSE 1
      /\ Shrink(freed).in_flight = Less1(w.in_flight)
  BY <1>1, ShrinkLane
<1>5. w.limit \in Nat
  BY DEF LaneState
<1>6. QED
  BY <1>1, <1>2, <1>3, <1>4, <1>5

\* A cancelled lease frees its slot and leaves the window alone.
LEMMA CancelLaneEffect ==
  ASSUME NEW w \in LaneState
  PROVE  /\ CancelLane(w) \in LaneState
         /\ CancelLane(w).limit = w.limit
         /\ CancelLane(w).in_flight = Less1(w.in_flight)
BY DEF CancelLane, LaneState, Less1

\* A reservation takes one slot and leaves the window alone.
LEMMA ReserveEffect ==
  ASSUME NEW w \in LaneState
  PROVE  /\ Reserve(w) \in LaneState
         /\ Reserve(w).limit = w.limit
         /\ Reserve(w).in_flight = w.in_flight + 1
BY DEF Reserve, LaneState

\* Every pause is a positive number of ticks.
LEMMA PausesType == \A d \in Pauses : d \in Nat \ {0}
BY ConfigAssumption DEF Pauses, Clamp

-----------------------------------------------------------------------------
(* Type correctness, with the fact that a lease names its lane exactly      *)
(* while a task owns it.                                                    *)

LeaseShape == \A t \in Task : pc[t] \in LeaseOwner <=> lease[t] \in Lane

Typed == TypeOK /\ LeaseShape

\* The three ways a lease ends, seen as one: what becomes of the lane.
Freed(before, after, max) ==
  /\ after \in LaneState
  /\ after.limit \in 1..max
  /\ after.in_flight = Less1(before.in_flight)
  /\ \/ after.limit = before.limit
     \/ /\ before.in_flight >= before.limit
        /\ before.limit < max
        /\ after.limit = before.limit + 1
     \/ after.limit = IF before.limit > 1 THEN before.limit \div 2 ELSE 1

Ended(t) ==
  /\ pc[t] = "holding"
  /\ \E w : Freed(lane[lease[t]], w, Maximum[lease[t]]) /\ Release(t, w)

\* What the three ways a lease can end (finish, finish with a throttle, drop)
\* have in common: who moves, which lane it leaves and what the pause may do.
LEMMA EndLeaseShape ==
  ASSUME Typed, NEW t \in Task, EndLease(t)
  PROVE  /\ Ended(t)
         /\ lease[t] \in Lane
         /\ \E to \in {"notify_one", "notify_all"} : pc' = [pc EXCEPT ![t] = to]
         /\ \/ throttle' = throttle
            \/ /\ pc' = [pc EXCEPT ![t] = "notify_all"]
               /\ \E d \in Pauses : throttle' = Larger(throttle, d)
               /\ lane'[lease[t]].limit = lane[lease[t]].limit
<1> DEFINE w == lane[lease[t]]
           max == Maximum[lease[t]]
<1>1. pc[t] = "holding"
  BY DEF EndLease, Finish, FinishThrottled, DropLease, Goto
<1>2. lease[t] \in Lane
  BY <1>1 DEF Typed, LeaseShape, LeaseOwner
<1>3. w \in LaneState /\ max \in Nat /\ w.limit \in 1..max
  BY <1>2, ConfigAssumption DEF Typed, TypeOK
<1>4. lane \in [Lane -> LaneState]
  BY DEF Typed, TypeOK
<1> HIDE DEF w, max
<1>5. CASE \E outcome \in Outcome : Finish(t, outcome)
  <2>1. PICK outcome \in Outcome : Finish(t, outcome)
    BY <1>5
  <2>2. Freed(w, FinishLane(w, max, outcome), max)
    BY <1>3, FinishLaneEffect DEF Freed
  <2>3. Ended(t)
    BY <1>1, <2>1, <2>2 DEF Ended, Finish, w, max
  <2>4. QED
    BY <1>2, <2>1, <2>3 DEF Finish, Goto
<1>6. CASE \E d \in Pauses : FinishThrottled(t, d)
  <2>1. PICK d \in Pauses : FinishThrottled(t, d)
    BY <1>6
  <2>2. Freed(w, FinishLane(w, max, "SharedThrottle"), max)
    BY <1>3, FinishLaneEffect DEF Freed
  <2>3. Ended(t)
    BY <1>1, <2>1, <2>2 DEF Ended, FinishThrottled, w, max
  <2>4. lane'[lease[t]] = FinishLane(w, max, "SharedThrottle")
    BY <1>2, <1>4, <2>1 DEF FinishThrottled, Release, w, max
  <2>5. FinishLane(w, max, "SharedThrottle").limit = w.limit
    BY <1>3 DEF FinishLane, LaneState
  <2>6. QED
    BY <1>2, <2>1, <2>3, <2>4, <2>5 DEF FinishThrottled, Goto, w
<1>7. CASE DropLease(t)
  <2>1. Freed(w, CancelLane(w), max)
    BY <1>3, CancelLaneEffect DEF Freed
  <2>2. Ended(t)
    BY <1>1, <1>7, <2>1 DEF Ended, DropLease, w, max
  <2>3. QED
    BY <1>2, <1>7, <2>2 DEF DropLease, Goto
<1>8. QED
  BY <1>5, <1>6, <1>7 DEF EndLease


\* AdaptiveConcurrency::new builds a well-typed controller.
LEMMA TypedInit == Init => Typed
<1> SUFFICES ASSUME Init
             PROVE  Typed
  OBVIOUS
<1>1. \A l \in Lane : /\ NewLane(l) \in LaneState
                      /\ NewLane(l).limit \in 1..Maximum[l]
  BY ConfigAssumption DEF NewLane, LaneState
<1>2. lane = [l \in Lane |-> NewLane(l)]
  BY DEF Init
<1>3. /\ lane \in [Lane -> LaneState]
      /\ \A l \in Lane : lane[l].limit \in 1..Maximum[l]
  BY <1>1, <1>2
<1>4. NoLease \notin Lane
  BY DEF NoLease, Lane
<1>5. QED
  BY <1>3, <1>4 DEF Init, Typed, TypeOK, LeaseShape, Location, Notice, LeaseOwner

\* Every step of acquire, of a lease and of the clock keeps the types, and
\* keeps that a task names a lane exactly while it owns a lease.
LEMMA TypedStep == Typed /\ [Next]_vars => Typed'
<1> SUFFICES ASSUME Typed, [Next]_vars
             PROVE  Typed'
  OBVIOUS
<1> USE DEF Typed, TypeOK, LeaseShape, Location, Notice, LeaseOwner
<1>1. ASSUME NEW t \in Task, Ask(t)
      PROVE  Typed'
  BY <1>1 DEF Ask, Goto, shared, notify
<1>2. ASSUME NEW t \in Task, AskAgain(t)
      PROVE  Typed'
  BY <1>2 DEF AskAgain, Goto, shared, notify
<1>3. ASSUME NEW t \in Task, Register(t)
      PROVE  Typed'
  BY <1>3 DEF Register, Goto, shared
<1>4. ASSUME NEW t \in Task, CheckThrottled(t)
      PROVE  Typed'
  BY <1>4 DEF CheckThrottled, Goto, notify
<1>5. ASSUME NEW t \in Task, NEW l \in Lane, CheckGranted(t, l)
      PROVE  Typed'
  <2>1. lane' = [lane EXCEPT ![l] = Reserve(lane[l])]
    BY <1>5 DEF CheckGranted
  <2>2. /\ Reserve(lane[l]) \in LaneState
        /\ Reserve(lane[l]).limit = lane[l].limit
    BY ReserveEffect
  <2>3. /\ lane' \in [Lane -> LaneState]
        /\ \A m \in Lane : lane'[m].limit \in 1..Maximum[m]
    BY <2>1, <2>2
  <2>4. QED
    BY <1>5, <2>3 DEF CheckGranted, Goto, notify
<1>6. ASSUME NEW t \in Task, CheckFull(t)
      PROVE  Typed'
  BY <1>6 DEF CheckFull, Goto, notify
<1>7. ASSUME NEW t \in Task, NEW to \in {"rechecking", "abandoned"},
             pc[t] \in Blocked, LeaveWait(t, to),
             notified' \in [Task -> Notice]
      PROVE  Typed'
  BY <1>7 DEF LeaveWait, Less1, Blocked
<1>8. ASSUME NEW t \in Task, WakeByNotice(t) \/ WakeByDeadline(t) \/ Abandon(t)
      PROVE  Typed'
  BY <1>7, <1>8 DEF WakeByNotice, WakeByDeadline, Abandon, Blocked
<1>9. ASSUME NEW t \in Task, DropNotified(t)
      PROVE  Typed'
  <2>1. notified' \in [Task -> Notice] /\ permit' \in BOOLEAN
    BY <1>9 DEF DropNotified, DropFuture, Listed
  <2>2. QED
    BY <1>9, <2>1 DEF DropNotified, Goto, shared
<1>10. ASSUME NEW t \in Task, EndLease(t)
       PROVE  Typed'
  <2>1. /\ Ended(t)
        /\ lease[t] \in Lane
        /\ \E to \in {"notify_one", "notify_all"} : pc' = [pc EXCEPT ![t] = to]
        /\ throttle' \in Nat
    BY <1>10, EndLeaseShape, PausesType DEF Larger
  <2>2. PICK w : Freed(lane[lease[t]], w, Maximum[lease[t]]) /\ Release(t, w)
    BY <2>1 DEF Ended
  <2>3. /\ lane' \in [Lane -> LaneState]
        /\ \A m \in Lane : lane'[m].limit \in 1..Maximum[m]
    BY <2>1, <2>2 DEF Freed, Release
  <2>4. lease' = [lease EXCEPT ![t] = NoLease] /\ NoLease \notin Lane
    BY <2>2 DEF Release, NoLease, Lane
  <2>5. QED
    BY <2>1, <2>2, <2>3, <2>4 DEF Release, notify, Less1, Ended
<1>11. ASSUME NEW t \in Task, Announce(t)
       PROVE  Typed'
  <2>1. notified' \in [Task -> Notice] /\ permit' \in BOOLEAN
    BY <1>11 DEF Announce, NotifyOne, NotifyWaiters, Listed
  <2>2. QED
    BY <1>11, <2>1 DEF Announce, Goto, shared
<1>12. CASE Tick
  BY <1>12 DEF Tick, notify, Less1
<1>13. CASE UNCHANGED vars
  BY <1>13 DEF vars
<1>14. QED
  BY <1>1, <1>2, <1>3, <1>4, <1>5, <1>6, <1>8, <1>9, <1>10, <1>11, <1>12, <1>13
     DEF Next, Progress

\* Every reachable state is well typed; in particular a window never leaves
\* 1..Maximum (Lane::finish halves down to Lane.min and grows up to Lane.max).
THEOREM TypeCorrect == Spec => []TypeOK
<1>1. Typed => TypeOK
  BY DEF Typed
<1>2. QED
  BY TypedInit, TypedStep, <1>1, PTL DEF Spec

\* The typed part of the inductive invariant holds in every reachable state.
LEMMA AlwaysTyped == Spec => []Typed
BY TypedInit, TypedStep, PTL DEF Spec

-----------------------------------------------------------------------------
(* Conservation and the maxima. *)

\* The sets the counters count are finite, so that counting them means
\* something for every finite set of callers.
LEMMA CountsAreFinite ==
  /\ IsFiniteSet(Waiters) /\ Cardinality(Waiters) \in Nat
  /\ \A l \in Lane : /\ IsFiniteSet(Holders(l))
                     /\ Cardinality(Holders(l)) \in Nat
<1>1. Waiters \in SUBSET Task /\ \A l \in Lane : Holders(l) \in SUBSET Task
  BY DEF Waiters, Holders
<1>2. QED
  BY <1>1, ConfigAssumption, FS_Subset, FS_CardinalityType

\* A step that moves nobody in or out of a lease or a wait keeps the counts.
LEMMA QuietStep ==
  ASSUME Conservation,
         UNCHANGED <<lane, aggregate_in_flight, waiting, lease>>,
         \A u \in Task : /\ pc'[u] \in LeaseOwner <=> pc[u] \in LeaseOwner
                         /\ pc'[u] \in Blocked <=> pc[u] \in Blocked
  PROVE  Conservation'
<1>1. Waiters' = Waiters /\ \A l \in Lane : Holders(l)' = Holders(l)
  BY DEF Waiters, Holders
<1>2. QED
  BY <1>1 DEF Conservation

\* A lease that ends frees one slot of its lane and one of the aggregate; the
\* subtractions do not saturate.
LEMMA ReleaseCounts ==
  ASSUME Typed, Conservation, NEW t \in Task, EndLease(t)
  PROVE  Conservation'
<1>0. PICK l \in Lane : l = lease[t]
  BY EndLeaseShape
<1>1. /\ Ended(t)
      /\ lease[t] = l
      /\ \E to \in {"notify_one", "notify_all"} : pc' = [pc EXCEPT ![t] = to]
  BY <1>0, EndLeaseShape
<1>2. PICK w : Freed(lane[l], w, Maximum[l]) /\ Release(t, w)
  BY <1>1 DEF Ended
<1>3. /\ pc \in [Task -> Location]
      /\ lease \in [Task -> Lane \cup {NoLease}]
      /\ lane \in [Lane -> LaneState]
      /\ waiting \in Nat
  BY DEF Typed, TypeOK
<1>4. Waiters' = Waiters
  BY <1>1, <1>3 DEF Waiters, Blocked, Ended
<1>5. /\ t \in Holders(l)
      /\ Holders(l)' = Holders(l) \ {t}
      /\ \A m \in Lane \ {l} : Holders(m)' = Holders(m)
  <2>1. NoLease \notin Lane
    BY DEF NoLease, Lane
  <2>2. lease' = [lease EXCEPT ![t] = NoLease]
    BY <1>2 DEF Release
  <2>3. QED
    BY <1>1, <1>3, <2>1, <2>2 DEF Holders, LeaseOwner, Ended
<1>6. /\ Cardinality(Holders(l)') = Cardinality(Holders(l)) - 1
      /\ Cardinality(Holders(l)) > 0
  BY <1>5, CountsAreFinite, FS_RemoveElement, FS_EmptySet, <1>1
<1>7. /\ lane'[l].in_flight = lane[l].in_flight - 1
      /\ lane[l].in_flight > 0
      /\ \A m \in Lane \ {l} : lane'[m] = lane[m]
  <2>1. lane[l].in_flight = Cardinality(Holders(l))
    BY <1>1 DEF Conservation
  <2>2. lane' = [lane EXCEPT ![l] = w] /\ w.in_flight = Less1(lane[l].in_flight)
    BY <1>1, <1>2 DEF Release, Freed
  <2>3. lane'[l].in_flight = Less1(lane[l].in_flight)
    BY <1>1, <1>3, <2>2
  <2>4. \A m \in Lane \ {l} : lane'[m] = lane[m]
    BY <1>1, <1>3, <2>2
  <2>5. QED
    BY <1>6, <2>1, <2>3, <2>4 DEF Less1
<1>8. aggregate_in_flight' = aggregate_in_flight - 1
  <2>1. \A m \in Lane : lane[m].in_flight \in Nat
    BY <1>3 DEF LaneState
  <2>2. aggregate_in_flight > 0
    BY <1>1, <1>7, <2>1 DEF Conservation, Lane
  <2>3. QED
    BY <1>2, <2>2 DEF Release, Less1
<1>9. \A m \in Lane : lane'[m].in_flight = Cardinality(Holders(m)')
  BY <1>5, <1>6, <1>7, <1>1 DEF Conservation
<1>10. aggregate_in_flight' =
         lane'["http"].in_flight + lane'["websocket"].in_flight
  <2>1. \A m \in Lane : lane[m].in_flight \in Nat
    BY <1>3 DEF LaneState
  <2>2. aggregate_in_flight =
          lane["http"].in_flight + lane["websocket"].in_flight
    BY DEF Conservation
  <2>3. CASE l = "http"
    BY <1>7, <1>8, <2>1, <2>2, <2>3 DEF Lane
  <2>4. CASE l = "websocket"
    BY <1>7, <1>8, <2>1, <2>2, <2>4 DEF Lane
  <2>5. QED
    BY <1>1, <2>3, <2>4 DEF Lane
<1>11. waiting' = Cardinality(Waiters')
  BY <1>2, <1>4 DEF Release, Conservation
<1>12. QED
  BY <1>9, <1>10, <1>11 DEF Conservation

\* try_reserve counts the lease it grants in its lane and in the aggregate.
LEMMA GrantCounts ==
  ASSUME Typed, Conservation, NEW t \in Task, NEW l \in Lane, CheckGranted(t, l)
  PROVE  Conservation'
<1>1. /\ pc \in [Task -> Location]
      /\ lease \in [Task -> Lane \cup {NoLease}]
      /\ lane \in [Lane -> LaneState]
  BY DEF Typed, TypeOK
<1>2. /\ pc[t] = "registered" /\ pc' = [pc EXCEPT ![t] = "granted"]
      /\ lease' = [lease EXCEPT ![t] = l]
      /\ lane' = [lane EXCEPT ![l] = Reserve(lane[l])]
      /\ aggregate_in_flight' = aggregate_in_flight + 1
      /\ waiting' = waiting
  BY DEF CheckGranted, Goto
<1>3. Waiters' = Waiters
  BY <1>1, <1>2 DEF Waiters, Blocked
<1>4. /\ t \notin Holders(l)
      /\ Holders(l)' = Holders(l) \cup {t}
      /\ \A m \in Lane \ {l} : Holders(m)' = Holders(m)
  BY <1>1, <1>2 DEF Holders, LeaseOwner
<1>5. Cardinality(Holders(l)') = Cardinality(Holders(l)) + 1
  BY <1>4, CountsAreFinite, FS_AddElement
<1>6. /\ lane'[l].in_flight = lane[l].in_flight + 1
      /\ \A m \in Lane \ {l} : lane'[m] = lane[m]
  BY <1>1, <1>2, ReserveEffect
<1>7. \A m \in Lane : lane'[m].in_flight = Cardinality(Holders(m)')
  BY <1>4, <1>5, <1>6 DEF Conservation
<1>8. aggregate_in_flight' =
        lane'["http"].in_flight + lane'["websocket"].in_flight
  <2>1. \A m \in Lane : lane[m].in_flight \in Nat
    BY <1>1 DEF LaneState
  <2>2. aggregate_in_flight =
          lane["http"].in_flight + lane["websocket"].in_flight
    BY DEF Conservation
  <2>3. CASE l = "http"
    BY <1>2, <1>6, <2>1, <2>2, <2>3 DEF Lane
  <2>4. CASE l = "websocket"
    BY <1>2, <1>6, <2>1, <2>2, <2>4 DEF Lane
  <2>5. QED
    BY <2>3, <2>4 DEF Lane
<1>9. QED
  BY <1>2, <1>3, <1>7, <1>8 DEF Conservation

\* Entering and leaving the wait counts one waiter, and touches no lease.
LEMMA WaitCounts ==
  ASSUME Typed, Conservation, NEW t \in Task,
         UNCHANGED <<lane, aggregate_in_flight, lease>>,
         NEW to \in Location, pc' = [pc EXCEPT ![t] = to],
         pc[t] \notin LeaseOwner, to \notin LeaseOwner,
         \/ pc[t] \notin Blocked /\ to \in Blocked /\ waiting' = waiting + 1
         \/ pc[t] \in Blocked /\ to \notin Blocked /\ waiting' = Less1(waiting)
  PROVE  Conservation'
<1>1. pc \in [Task -> Location]
  BY DEF Typed, TypeOK
<1>2. \A l \in Lane : Holders(l)' = Holders(l)
  BY <1>1 DEF Holders
<1>3. waiting' = Cardinality(Waiters')
  <2>1. CASE pc[t] \notin Blocked /\ to \in Blocked /\ waiting' = waiting + 1
    <3>1. t \notin Waiters /\ Waiters' = Waiters \cup {t}
      BY <1>1, <2>1 DEF Waiters
    <3>2. Cardinality(Waiters') = Cardinality(Waiters) + 1
      BY <3>1, CountsAreFinite, FS_AddElement
    <3>3. QED
      BY <2>1, <3>2 DEF Conservation
  <2>2. CASE pc[t] \in Blocked /\ to \notin Blocked /\ waiting' = Less1(waiting)
    <3>1. t \in Waiters /\ Waiters' = Waiters \ {t}
      BY <1>1, <2>2 DEF Waiters
    <3>2. /\ Cardinality(Waiters') = Cardinality(Waiters) - 1
          /\ Cardinality(Waiters) > 0
      BY <3>1, CountsAreFinite, FS_RemoveElement, FS_EmptySet
    <3>3. QED
      BY <2>2, <3>2 DEF Conservation, Less1
  <2>3. QED
    BY <2>1, <2>2
<1>4. QED
  BY <1>2, <1>3 DEF Conservation


\* A new controller counts nothing and nobody holds or waits.
LEMMA ConservationInit == Init => Conservation
<1> SUFFICES ASSUME Init
             PROVE  Conservation
  OBVIOUS
<1>1. Waiters = {} /\ \A l \in Lane : Holders(l) = {}
  BY DEF Init, Waiters, Holders, Blocked, LeaseOwner
<1>2. \A l \in Lane : lane[l].in_flight = 0
  BY DEF Init, NewLane
<1>3. QED
  BY <1>1, <1>2, FS_EmptySet DEF Init, Conservation, Lane

\* Every step of the controller moves the counters and the tasks together.
LEMMA ConservationStep == Typed /\ Conservation /\ [Next]_vars => Conservation'
<1> SUFFICES ASSUME Typed, Conservation, [Next]_vars
             PROVE  Conservation'
  OBVIOUS
<1>0. pc \in [Task -> Location]
  BY DEF Typed, TypeOK
<1>1. ASSUME NEW t \in Task,
             Ask(t) \/ AskAgain(t) \/ Register(t) \/ DropNotified(t) \/ Announce(t)
      PROVE  Conservation'
  <2>1. UNCHANGED <<lane, aggregate_in_flight, waiting, lease>>
    BY <1>1 DEF Ask, AskAgain, Register, DropNotified, Announce, shared
  <2>2. \A u \in Task : /\ pc'[u] \in LeaseOwner <=> pc[u] \in LeaseOwner
                        /\ pc'[u] \in Blocked <=> pc[u] \in Blocked
    BY <1>0, <1>1 DEF Ask, AskAgain, Register, DropNotified, Announce, Goto,
                      LeaseOwner, Blocked
  <2>3. QED
    BY <2>1, <2>2, QuietStep
<1>2. ASSUME NEW t \in Task, CheckThrottled(t) \/ CheckFull(t)
      PROVE  Conservation'
  <2>1. /\ UNCHANGED <<lane, aggregate_in_flight, lease>>
        /\ waiting' = waiting + 1
        /\ pc[t] = "registered"
        /\ \E to \in Blocked : pc' = [pc EXCEPT ![t] = to]
    BY <1>2 DEF CheckThrottled, CheckFull, Goto, Blocked
  <2>2. QED
    BY <2>1, WaitCounts DEF Blocked, LeaseOwner, Location
<1>3. ASSUME NEW t \in Task, NEW l \in Lane, CheckGranted(t, l)
      PROVE  Conservation'
  BY <1>3, GrantCounts
<1>4. ASSUME NEW t \in Task, WakeByNotice(t) \/ WakeByDeadline(t) \/ Abandon(t)
      PROVE  Conservation'
  <2>1. /\ UNCHANGED <<lane, aggregate_in_flight, lease>>
        /\ waiting' = Less1(waiting)
        /\ pc[t] \in Blocked
        /\ \E to \in {"rechecking", "abandoned"} : pc' = [pc EXCEPT ![t] = to]
    BY <1>4 DEF WakeByNotice, WakeByDeadline, Abandon, LeaveWait, Blocked
  <2>2. QED
    BY <2>1, WaitCounts DEF Blocked, LeaseOwner, Location
<1>5. ASSUME NEW t \in Task, EndLease(t)
      PROVE  Conservation'
  BY <1>5, ReleaseCounts
<1>6. CASE Tick \/ UNCHANGED vars
  BY <1>6, QuietStep DEF Tick, vars
<1>7. QED
  BY <1>1, <1>2, <1>3, <1>4, <1>5, <1>6 DEF Next, Progress

\* The counters of the controller are the leases and waits there are
\* (AdaptiveLease and WaitingGuard release once, on every path).
THEOREM CountersConserved == Spec => []Conservation
BY AlwaysTyped, ConservationInit, ConservationStep, PTL DEF Spec

\* No step lifts a count above its maximum: select admits below the window
\* and the ceiling only, and no window passes its lane's maximum.
LEMMA MaximaStep ==
  ASSUME Typed, Conservation, RespectsMaxima, [Next]_vars
  PROVE  RespectsMaxima'
<1>0. /\ lane \in [Lane -> LaneState]
      /\ aggregate_in_flight \in Nat
      /\ \A l \in Lane : Maximum[l] \in Nat /\ lane[l].limit <= Maximum[l]
      /\ AggregateMax \in Nat
  BY ConfigAssumption DEF Typed, TypeOK
<1>1. ASSUME NEW t \in Task, NEW l \in Lane, CheckGranted(t, l)
      PROVE  RespectsMaxima'
  <2>1. /\ lane' = [lane EXCEPT ![l] = Reserve(lane[l])]
        /\ lane[l].in_flight < lane[l].limit
        /\ aggregate_in_flight < AggregateMax
        /\ aggregate_in_flight' = aggregate_in_flight + 1
    BY <1>1 DEF CheckGranted, Selected, CanAdmit, Open, HasHeadroom
  <2>2. Reserve(lane[l]).in_flight <= Maximum[l]
    BY <1>0, <2>1, ReserveEffect DEF LaneState
  <2>3. QED
    BY <1>0, <2>1, <2>2 DEF RespectsMaxima
<1>2. ASSUME NEW t \in Task, EndLease(t)
      PROVE  RespectsMaxima'
  <2>0. PICK l \in Lane : l = lease[t]
    BY <1>2, EndLeaseShape
  <2>1. Ended(t)
    BY <1>2, EndLeaseShape
  <2>2. PICK w : Freed(lane[l], w, Maximum[l]) /\ Release(t, w)
    BY <2>0, <2>1 DEF Ended
  <2>3. /\ lane' = [lane EXCEPT ![l] = w]
        /\ w.in_flight <= lane[l].in_flight
        /\ aggregate_in_flight' <= aggregate_in_flight
    BY <1>0, <2>0, <2>2 DEF Release, Freed, Less1, LaneState
  <2>4. w \in LaneState
    BY <2>2 DEF Freed
  <2>5. w.in_flight <= Maximum[l]
    BY <1>0, <2>3, <2>4 DEF RespectsMaxima, LaneState
  <2>6. aggregate_in_flight' \in Nat
    BY <1>0, <2>2 DEF Release, Less1
  <2>7. QED
    BY <1>0, <2>3, <2>5, <2>6 DEF RespectsMaxima
<1>3. CASE UNCHANGED <<lane, aggregate_in_flight>>
  BY <1>3 DEF RespectsMaxima
<1>4. QED
  BY <1>1, <1>2, <1>3
     DEF Next, Progress, vars, shared, Ask, AskAgain, Register, CheckThrottled,
         CheckFull, WakeByNotice, WakeByDeadline, Abandon, LeaveWait,
         DropNotified, Announce, Tick

\* A new controller has nothing in flight.
LEMMA MaximaInit == Init => RespectsMaxima
BY ConfigAssumption DEF Init, RespectsMaxima, NewLane

\* Nothing ever runs above a configured maximum, although windows shrink under
\* leases that are out (Lane::reserve, State::try_reserve).
THEOREM MaximaRespected == Spec => []RespectsMaxima
<1>1. Typed /\ Conservation /\ RespectsMaxima /\ [Next]_vars => RespectsMaxima'
  BY MaximaStep
<1>2. QED
  BY <1>1, MaximaInit, AlwaysTyped, CountersConserved, PTL DEF Spec

-----------------------------------------------------------------------------
(* Throttles reach the waiters, and no wakeup is lost.                      *)

\* Only Register puts a future on the list; every call into Notify takes
\* futures off it, and NotifyWaiters takes them all.
LEMMA NotifyShrinksList ==
  ASSUME Typed, NEW t \in Task
  PROVE  /\ DropFuture(t) => Listed' \subseteq Listed \ {t}
         /\ NotifyOne(Listed) => Listed' \subseteq Listed
         /\ NotifyWaiters => Listed' = {}
BY DEF Typed, TypeOK, DropFuture, NotifyOne, NotifyWaiters, Listed

\* Every step keeps that a throttle reaches those who wait: the ones that
\* sleep have its deadline, or notify_waiters is still to run.
LEMMA ThrottleStep ==
  ASSUME Typed, ThrottleReachesWaiters, [Next]_vars
  PROVE  ThrottleReachesWaiters'
<1> USE DEF ThrottleReachesWaiters
<1>0. /\ pc \in [Task -> Location]
      /\ timer \in [Task -> Nat]
      /\ notified \in [Task -> Notice]
      /\ throttle \in Nat
  BY DEF Typed, TypeOK
<1>1. ASSUME NEW t \in Task, Ask(t) \/ AskAgain(t)
      PROVE  ThrottleReachesWaiters'
  BY <1>0, <1>1 DEF Ask, AskAgain, Goto, shared, notify, Listed
<1>2. ASSUME NEW t \in Task, Register(t)
      PROVE  ThrottleReachesWaiters'
  BY <1>0, <1>2 DEF Register, Goto, shared, Listed
<1>3. ASSUME NEW t \in Task, CheckThrottled(t)
      PROVE  ThrottleReachesWaiters'
  BY <1>0, <1>3 DEF CheckThrottled, Goto, notify, Listed
<1>4. ASSUME NEW t \in Task,
             CheckFull(t) \/ \E l \in Lane : CheckGranted(t, l)
      PROVE  ThrottleReachesWaiters'
  BY <1>0, <1>4 DEF CheckFull, CheckGranted
<1>5. ASSUME NEW t \in Task, WakeByNotice(t) \/ WakeByDeadline(t) \/ Abandon(t)
      PROVE  ThrottleReachesWaiters'
  BY <1>0, <1>5 DEF WakeByNotice, WakeByDeadline, Abandon, LeaveWait, Listed, Blocked
<1>6. ASSUME NEW t \in Task, DropNotified(t)
      PROVE  ThrottleReachesWaiters'
  <2>1. Listed' \subseteq Listed
    BY <1>6, NotifyShrinksList DEF DropNotified
  <2>2. QED
    BY <1>0, <1>6, <2>1 DEF DropNotified, Goto, shared, Listed
<1>7. ASSUME NEW t \in Task, EndLease(t)
      PROVE  ThrottleReachesWaiters'
  <2>1. UNCHANGED <<timer, notified>> /\ pc[t] = "holding"
    BY <1>7 DEF EndLease, Finish, FinishThrottled, DropLease, Release, notify
  <2>2. \/ pc' = [pc EXCEPT ![t] = "notify_all"]
        \/ /\ pc' = [pc EXCEPT ![t] = "notify_one"]
           /\ throttle' = throttle
    BY <1>7 DEF EndLease, Finish, FinishThrottled, DropLease, Goto
  <2>3. QED
    BY <1>0, <2>1, <2>2 DEF Listed
<1>8. ASSUME NEW t \in Task, Announce(t)
      PROVE  ThrottleReachesWaiters'
  <2>1. UNCHANGED <<throttle, timer>>
    BY <1>8 DEF Announce, shared
  <2>2. CASE Goto(t, "notify_one", "done") /\ NotifyOne(Listed)
    <3>1. Listed' \subseteq Listed
      BY <2>2, NotifyShrinksList
    <3>2. QED
      BY <1>0, <2>1, <2>2, <3>1 DEF Goto, Listed
  <2>3. CASE Goto(t, "notify_all", "done") /\ NotifyWaiters
    BY <2>3, NotifyShrinksList
  <2>4. QED
    BY <1>8, <2>2, <2>3 DEF Announce
<1>9. CASE Tick
  BY <1>0, <1>9 DEF Tick, notify, Less1, Listed
<1>10. CASE UNCHANGED vars
  BY <1>10 DEF vars, Listed
<1>11. QED
  BY <1>1, <1>2, <1>3, <1>4, <1>5, <1>6, <1>7, <1>8, <1>9, <1>10
     DEF Next, Progress

\* A throttle wakes every waiter or is already each waiter's deadline
\* (notify_waiters in AdaptiveLease::release, sleep_until in acquire).
THEOREM ThrottleReaches == Spec => []ThrottleReachesWaiters
<1>1. Init => ThrottleReachesWaiters
  BY DEF Init, ThrottleReachesWaiters
<1>2. Typed /\ ThrottleReachesWaiters /\ [Next]_vars => ThrottleReachesWaiters'
  BY ThrottleStep
<1>3. QED
  BY <1>1, <1>2, AlwaysTyped, PTL DEF Spec

\* A controller without room has a lease out.
LEMMA FullMeansBusy ==
  ASSUME Typed, Conservation, ~CanAdmit
  PROVE  aggregate_in_flight > 0
<1>1. /\ aggregate_in_flight \in Nat /\ AggregateMax \in Nat \ {0}
      /\ \A l \in Lane : lane[l].in_flight \in Nat /\ lane[l].limit \in Nat \ {0}
  BY ConfigAssumption DEF Typed, TypeOK, LaneState
<1>2. CASE aggregate_in_flight >= AggregateMax
  BY <1>1, <1>2
<1>3. CASE Open = {}
  <2>1. PICK l \in Enabled : TRUE
    BY ConfigAssumption
  <2>2. l \in Lane /\ ~HasHeadroom(lane[l])
    BY <1>3, <2>1, ConfigAssumption DEF Open
  <2>3. lane[l].in_flight > 0
    BY <1>1, <2>2 DEF HasHeadroom
  <2>4. QED
    BY <1>1, <2>2, <2>3 DEF Conservation, Lane
<1>4. QED
  BY <1>1, <1>2, <1>3 DEF CanAdmit

\* What stands in for a forgotten waiter.
Remembered ==
  \/ aggregate_in_flight > 0
  \/ \E t \in Task : pc[t] \in {"notify_one", "notify_all"} \/ Rechecker(t)
  \/ \E t \in Task : notified[t] = "one"

\* Every step that leaves a task waiting for a notification leaves somebody
\* who will notify it: the counterpart of the comment in acquire, "a release
\* cannot be lost between the full-window observation and the wait".
LEMMA WakeupStep ==
  ASSUME Typed, Conservation, ThrottleReachesWaiters, NoLostWakeup, [Next]_vars
  PROVE  NoLostWakeup'
<1> SUFFICES ASSUME NEW s \in Task, Forgotten(s)'
             PROVE  Remembered'
  BY DEF NoLostWakeup, Remembered
<1> USE DEF Remembered, Forgotten, Rechecker
<1>0. /\ pc \in [Task -> Location]
      /\ notified \in [Task -> Notice]
      /\ aggregate_in_flight \in Nat
  BY DEF Typed, TypeOK
<1>old. Forgotten(s) => Remembered
  BY DEF NoLostWakeup
<1>1. ASSUME NEW t \in Task, Ask(t) \/ AskAgain(t) \/ Register(t)
      PROVE  Remembered'
  BY <1>0, <1>1, <1>old DEF Ask, AskAgain, Register, Goto, shared, notify
<1>2. ASSUME NEW t \in Task, CheckThrottled(t)
      PROVE  Remembered'
  <2>1. Forgotten(s) /\ throttle > 0
    BY <1>0, <1>2 DEF CheckThrottled, Goto, notify
  <2>2. PICK u \in Task : pc[u] = "notify_all"
    BY <2>1 DEF ThrottleReachesWaiters, Listed
  <2>3. pc'[u] = "notify_all"
    BY <1>0, <1>2, <2>2 DEF CheckThrottled, Goto
  <2>4. QED
    BY <2>3
<1>3. ASSUME NEW t \in Task, NEW l \in Lane, CheckGranted(t, l)
      PROVE  Remembered'
  BY <1>0, <1>3 DEF CheckGranted
<1>4. ASSUME NEW t \in Task, CheckFull(t)
      PROVE  Remembered'
  BY <1>4, FullMeansBusy DEF CheckFull
<1>5. ASSUME NEW t \in Task, WakeByNotice(t) \/ WakeByDeadline(t)
      PROVE  Remembered'
  BY <1>0, <1>5 DEF WakeByNotice, WakeByDeadline, LeaveWait
<1>6. ASSUME NEW t \in Task, Abandon(t)
      PROVE  Remembered'
  <2>1. Forgotten(s) /\ Remembered
    BY <1>0, <1>6, <1>old DEF Abandon, LeaveWait
  <2>2. QED
    BY <1>0, <1>6, <2>1 DEF Abandon, LeaveWait, Blocked
<1>7. ASSUME NEW t \in Task, DropNotified(t)
      PROVE  Remembered'
  <2>1. /\ s # t
        /\ s \in Listed
        /\ Forgotten(s)
    <3>1. Listed' \subseteq Listed \ {t}
      BY <1>7, NotifyShrinksList DEF DropNotified
    <3>2. s \in Listed'
      BY DEF Listed
    <3>3. QED
      BY <1>0, <1>7, <3>1, <3>2 DEF DropNotified, Goto, Listed
  <2>2. CASE notified[t] = "one"
    <3>1. \E u \in Listed : notified' = [notified EXCEPT ![t] = "out", ![u] = "one"]
      BY <1>7, <2>1, <2>2 DEF DropNotified, DropFuture
    <3>2. QED
      BY <1>0, <3>1 DEF Listed
  <2>3. CASE notified[t] # "one"
    <3>1. notified' = [notified EXCEPT ![t] = "out"]
      BY <1>7, <2>3 DEF DropNotified, DropFuture
    <3>2. QED
      BY <1>0, <1>7, <1>old, <2>1, <2>3, <3>1 DEF DropNotified, Goto, shared
  <2>4. QED
    BY <2>2, <2>3
<1>8. ASSUME NEW t \in Task, EndLease(t)
      PROVE  Remembered'
  BY <1>0, <1>8, EndLeaseShape
<1>9. ASSUME NEW t \in Task, Announce(t)
      PROVE  Remembered'
  <2>1. CASE NotifyOne(Listed)
    <3>1. s \in Listed
      BY <2>1, NotifyShrinksList DEF Listed
    <3>2. QED
      BY <1>0, <2>1, <3>1 DEF NotifyOne, Listed
  <2>2. CASE NotifyWaiters
    BY <2>2, NotifyShrinksList DEF Listed
  <2>3. QED
    BY <1>9, <2>1, <2>2 DEF Announce
<1>10. CASE Tick \/ UNCHANGED vars
  BY <1>10, <1>old DEF Tick, vars, notify
<1>11. QED
  BY <1>1, <1>2, <1>3, <1>4, <1>5, <1>6, <1>7, <1>8, <1>9, <1>10
     DEF Next, Progress

\* A release is never lost between the full-window observation and the wait
\* (register before recheck in acquire, forwarding by the dropped future).
THEOREM WakeupsNotLost == Spec => []NoLostWakeup
<1>1. Init => NoLostWakeup
  BY DEF Init, NoLostWakeup, Forgotten
<1>2. /\ Typed /\ Conservation /\ ThrottleReachesWaiters
      /\ NoLostWakeup /\ [Next]_vars
      => NoLostWakeup'
  BY WakeupStep
<1>3. QED
  BY <1>1, <1>2, AlwaysTyped, CountersConserved, ThrottleReaches, PTL DEF Spec

-----------------------------------------------------------------------------
(* Refinement: the controller implements AdmissionLedger. *)

Seekers ==
  {t \in Task : pc[t] \in {"start", "registered", "rechecking"} \cup Blocked}

HoldersOf == [l \in Lane |-> Holders(l)]

Windows == [l \in Lane |-> lane[l].limit]

\* The ledger counts with the same Cardinality.
LEMMA LedgerCardinality ==
  ASSUME NEW S
  PROVE  Ledger!Cardinality(S) = Cardinality(S)
BY DEF Ledger!Cardinality, Cardinality

\* No step moves a task in the ledger but the ones named in LedgerStep.
LEMMA LedgerStutter ==
  ASSUME UNCHANGED <<lane, lease, throttle>>,
         \A u \in Task :
           /\ pc'[u] \in LeaseOwner <=> pc[u] \in LeaseOwner
           /\ u \in Seekers' <=> u \in Seekers
  PROVE  UNCHANGED Ledger!ledger
<1>1. Seekers' = Seekers
  BY DEF Seekers
<1>2. HoldersOf' = HoldersOf /\ Windows' = Windows
  BY DEF HoldersOf, Holders, Windows
<1>3. QED
  BY <1>1, <1>2 DEF Ledger!ledger, Seekers, HoldersOf, Windows

\* The leases of the two lanes are disjoint and add up.
LEMMA AdmittedCount ==
  ASSUME Conservation
  PROVE  Cardinality(Ledger!Admitted) = aggregate_in_flight
<1>1. Ledger!Admitted = Holders("http") \cup Holders("websocket")
  BY DEF Ledger!Admitted, Lane
<1>2. Holders("http") \cap Holders("websocket") = {}
  BY DEF Holders
<1>3. /\ IsFiniteSet(Holders("http")) /\ Cardinality(Holders("http")) \in Nat
      /\ IsFiniteSet(Holders("websocket"))
      /\ Cardinality(Holders("websocket")) \in Nat
  BY CountsAreFinite DEF Lane
<1>4. Cardinality(Ledger!Admitted) =
        Cardinality(Holders("http")) + Cardinality(Holders("websocket")) - 0
  BY <1>1, <1>2, <1>3, FS_Union, FS_EmptySet
<1>5. QED
  BY <1>3, <1>4 DEF Conservation, Lane

\* try_reserve is an Admit of the ledger.
LEMMA AdmitStep ==
  ASSUME Typed, Conservation, NEW t \in Task, NEW l \in Lane, CheckGranted(t, l)
  PROVE  Ledger!Admit(t, l)
<1>0. /\ pc \in [Task -> Location]
      /\ lease \in [Task -> Lane \cup {NoLease}]
      /\ lane \in [Lane -> LaneState]
  BY DEF Typed, TypeOK
<1>1. /\ pc[t] = "registered" /\ pc' = [pc EXCEPT ![t] = "granted"]
      /\ lease' = [lease EXCEPT ![t] = l]
      /\ lane' = [lane EXCEPT ![l] = Reserve(lane[l])]
      /\ throttle = 0 /\ throttle' = throttle
      /\ l \in Enabled /\ lane[l].in_flight < lane[l].limit
      /\ aggregate_in_flight < AggregateMax
  BY DEF CheckGranted, Goto, Selected, CanAdmit, Open, HasHeadroom
<1>2. t \in Seekers /\ Seekers' = Seekers \ {t}
  BY <1>0, <1>1 DEF Seekers, Blocked
<1>3. HoldersOf' = [HoldersOf EXCEPT ![l] = @ \cup {t}]
  <2>1. /\ Holders(l)' = Holders(l) \cup {t}
        /\ \A m \in Lane \ {l} : Holders(m)' = Holders(m)
    BY <1>0, <1>1 DEF Holders, LeaseOwner
  <2>2. QED
    BY <2>1 DEF HoldersOf
<1>4. Windows' = Windows
  BY <1>0, <1>1, ReserveEffect DEF Windows
<1>5. ~(Cardinality(HoldersOf[l]) >= Windows[l])
  BY <1>0, <1>1 DEF Conservation, HoldersOf, Windows, LaneState
<1>6. Cardinality(Ledger!Admitted) < AggregateMax
  BY <1>1, AdmittedCount
<1>7. QED
  BY <1>1, <1>2, <1>3, <1>4, <1>5, <1>6, LedgerCardinality
     DEF Ledger!Admit, Ledger!Saturated, Seekers, HoldersOf, Windows

\* AdaptiveLease::release is a Settle of the ledger, however the lease ends.
LEMMA SettleStep ==
  ASSUME Typed, Conservation, NEW t \in Task, EndLease(t)
  PROVE  \E l \in Lane : Ledger!Settle(t, l)
<1>0. /\ pc \in [Task -> Location]
      /\ lease \in [Task -> Lane \cup {NoLease}]
      /\ lane \in [Lane -> LaneState]
  BY DEF Typed, TypeOK
<1>1. PICK l \in Lane : l = lease[t]
  BY EndLeaseShape
<1>2. /\ pc[t] = "holding"
      /\ \E to \in {"notify_one", "notify_all"} : pc' = [pc EXCEPT ![t] = to]
  BY EndLeaseShape DEF Ended
<1>3. PICK w : Freed(lane[l], w, Maximum[l]) /\ Release(t, w)
  BY <1>1, EndLeaseShape DEF Ended
<1>4. lane' = [lane EXCEPT ![l] = w] /\ lease' = [lease EXCEPT ![t] = NoLease]
  BY <1>1, <1>3 DEF Release
<1>5. Seekers' = Seekers
  BY <1>0, <1>2 DEF Seekers, Blocked
<1>6. /\ t \in Holders(l)
      /\ HoldersOf' = [HoldersOf EXCEPT ![l] = @ \ {t}]
  <2>1. NoLease \notin Lane
    BY DEF NoLease, Lane
  <2>2. /\ t \in Holders(l)
        /\ Holders(l)' = Holders(l) \ {t}
        /\ \A m \in Lane \ {l} : Holders(m)' = Holders(m)
    BY <1>0, <1>1, <1>2, <1>4, <2>1 DEF Holders, LeaseOwner
  <2>3. QED
    BY <2>2 DEF HoldersOf
<1>7. /\ Windows \in [Lane -> Nat]
      /\ Windows' = [Windows EXCEPT ![l] = w.limit]
  BY <1>0, <1>4 DEF Windows, LaneState
<1>8. Cardinality(HoldersOf[l]) = lane[l].in_flight /\ Windows[l] = lane[l].limit
  BY DEF Conservation, HoldersOf, Windows
<1>9. \/ Windows' = Windows
      \/ /\ Cardinality(HoldersOf[l]) >= Windows[l]
         /\ Windows[l] < Maximum[l]
         /\ Windows' = [Windows EXCEPT ![l] = @ + 1]
      \/ Windows' = [Windows EXCEPT ![l] = IF @ > 1 THEN @ \div 2 ELSE 1]
  BY <1>3, <1>7, <1>8 DEF Freed
<1>10. Ledger!Leave(t, l)
  BY <1>5, <1>6 DEF Ledger!Leave, Seekers, HoldersOf
<1>11. CASE throttle' = throttle
  BY <1>9, <1>10, <1>11, LedgerCardinality
     DEF Ledger!Settle, Ledger!Succeed, Ledger!Overload, Ledger!Withdraw,
         Ledger!Saturated, HoldersOf, Windows
<1>12. CASE /\ \E d \in Pauses : throttle' = Larger(throttle, d)
            /\ lane'[lease[t]].limit = lane[lease[t]].limit
  <2>1. Windows' = Windows
    BY <1>0, <1>1, <1>4, <1>7, <1>8, <1>12
  <2>2. QED
    BY <1>10, <1>12, <2>1
       DEF Ledger!Settle, Ledger!Throttle, Larger, Windows
<1>13. QED
  BY <1>11, <1>12, EndLeaseShape

\* Every step of the controller is a step of the ledger or leaves it alone.
LEMMA LedgerStep ==
  ASSUME Typed, Conservation, [Next]_vars
  PROVE  [Ledger!Next]_(Ledger!ledger)
<1>0. /\ pc \in [Task -> Location]
      /\ lease \in [Task -> Lane \cup {NoLease}]
      /\ throttle \in Nat
  BY DEF Typed, TypeOK
<1>1. ASSUME NEW t \in Task, Ask(t)
      PROVE  Ledger!Seek(t)
  <2>1. /\ Seekers' = Seekers \cup {t} /\ t \notin Seekers
        /\ HoldersOf' = HoldersOf /\ \A l \in Lane : t \notin HoldersOf[l]
        /\ Windows' = Windows /\ throttle' = throttle
    BY <1>0, <1>1 DEF Ask, Goto, shared, Seekers, HoldersOf, Holders, Windows,
                      LeaseOwner, Blocked
  <2>2. t \in Ledger!Idle
    BY <2>1 DEF Ledger!Idle, Seekers, HoldersOf
  <2>3. QED
    BY <2>1, <2>2 DEF Ledger!Seek, Seekers, HoldersOf, Windows
<1>2. ASSUME NEW t \in Task, Abandon(t)
      PROVE  Ledger!GiveUp(t)
  <2>1. /\ t \in Seekers /\ Seekers' = Seekers \ {t}
        /\ HoldersOf' = HoldersOf
        /\ Windows' = Windows /\ throttle' = throttle
    BY <1>0, <1>2 DEF Abandon, LeaveWait, Seekers, HoldersOf, Holders, Windows,
                      LeaseOwner, Blocked
  <2>2. QED
    BY <2>1 DEF Ledger!GiveUp, Seekers, HoldersOf, Windows
<1>3. ASSUME NEW t \in Task,
             \/ AskAgain(t) \/ Register(t) \/ CheckThrottled(t) \/ CheckFull(t)
             \/ WakeByNotice(t) \/ WakeByDeadline(t) \/ DropNotified(t)
             \/ Announce(t)
      PROVE  UNCHANGED Ledger!ledger
  <2>1. UNCHANGED <<lane, lease, throttle>>
    BY <1>3 DEF AskAgain, Register, CheckThrottled, CheckFull, WakeByNotice,
                WakeByDeadline, LeaveWait, DropNotified, Announce, shared
  <2>2. \A u \in Task : /\ pc'[u] \in LeaseOwner <=> pc[u] \in LeaseOwner
                        /\ u \in Seekers' <=> u \in Seekers
    BY <1>0, <1>3
       DEF AskAgain, Register, CheckThrottled, CheckFull, WakeByNotice,
           WakeByDeadline, LeaveWait, DropNotified, Announce, Goto,
           Seekers, LeaseOwner, Blocked
  <2>3. QED
    BY <2>1, <2>2, LedgerStutter
<1>4. CASE Tick
  <2>1. /\ throttle > 0 /\ throttle' = throttle - 1
        /\ Seekers' = Seekers /\ HoldersOf' = HoldersOf /\ Windows' = Windows
    BY <1>4 DEF Tick, Seekers, HoldersOf, Holders, Windows
  <2>2. Ledger!Elapse
    BY <2>1 DEF Ledger!Elapse, Seekers, HoldersOf, Windows
  <2>3. QED
    BY <2>2 DEF Ledger!Next
<1>5. CASE UNCHANGED vars
  BY <1>5, LedgerStutter DEF vars, Seekers
<1>6. ASSUME NEW t \in Task, NEW l \in Lane, CheckGranted(t, l)
      PROVE  Ledger!Next
  BY <1>6, AdmitStep DEF Ledger!Next
<1>7. ASSUME NEW t \in Task, EndLease(t)
      PROVE  Ledger!Next
  BY <1>7, SettleStep DEF Ledger!Next
<1>8. QED
  BY <1>1, <1>2, <1>3, <1>4, <1>5, <1>6, <1>7 DEF Next, Progress, Ledger!Next

\* The controller does only what the ledger allows: one lane and one aggregate
\* slot per caller until it settles, never during a throttle, and windows that
\* move by one up or by half down when a lease ends.
THEOREM ControllerImplementsLedger == Spec => LedgerSpec
<1>1. Init => Ledger!Init
  <2>1. Init => /\ Seekers = {}
                /\ HoldersOf = [l \in Lane |-> {}]
                /\ Windows = Initial
                /\ throttle = 0
    BY ConfigAssumption
       DEF Init, Seekers, HoldersOf, Holders, Windows, NewLane, Blocked, LeaseOwner
  <2>2. QED
    BY <2>1 DEF Ledger!Init, Seekers, HoldersOf, Windows
<1>2. Typed /\ Conservation /\ [Next]_vars => [Ledger!Next]_(Ledger!ledger)
  BY LedgerStep
<1>3. QED
  BY <1>1, <1>2, AlwaysTyped, CountersConserved, PTL
     DEF Spec, LedgerSpec, Ledger!Spec

=============================================================================
