------------------------- MODULE WarmSessionPool_proofs -------------------------
(***************************************************************************)
(* Proofs about the warm pool, for any number of asks, sessions and        *)
(* prompt families.                                                        *)
(***************************************************************************)
EXTENDS WarmSessionPool, SequenceLemmas, FiniteSetTheorems

-----------------------------------------------------------------------------
(* The load of a session *)

Counting == Inside \cup {"gone"}
OnSession(s) == {a \in WarmAsk : session[a] = s /\ wpc[a] \in Counting}

Accounted ==
  /\ load = [s \in Session |-> Cardinality(OnSession(s))]
  /\ wpc = [a \in WarmAsk |-> wpc[a]] /\ session = [a \in WarmAsk |-> session[a]]

LEMMA OnSessionFinite ==
  ASSUME NEW s PROVE IsFiniteSet(OnSession(s)) /\ Cardinality(OnSession(s)) \in Nat
<1>1. IsFiniteSet(WarmAsk) /\ OnSession(s) \in SUBSET WarmAsk
  BY WarmAssumption DEF OnSession
<1>2. IsFiniteSet(OnSession(s))
  BY <1>1, FS_Subset
<1>3. QED
  BY <1>2, FS_CardinalityType

LEMMA MovedTo ==
  ASSUME Accounted, NEW a \in WarmAsk, NEW to, Goto(a, to)
  PROVE  /\ wpc' = [b \in WarmAsk |-> wpc'[b]]
         /\ \A b \in WarmAsk : wpc'[b] = IF b = a THEN to ELSE wpc[b]
BY DEF Accounted, Goto

\* A step after which every session is counted on by the same asks.
LEMMA LoadUntouched ==
  ASSUME Accounted, UNCHANGED load, wpc' = [b \in WarmAsk |-> wpc'[b]],
         session' = [b \in WarmAsk |-> session'[b]],
         \A b \in WarmAsk : wpc'[b] \in Counting <=> wpc[b] \in Counting,
         \A b \in WarmAsk : wpc[b] \in Counting => session'[b] = session[b]
  PROVE  Accounted'
<1>1. \A s \in Session : OnSession(s)' = OnSession(s)
  BY DEF OnSession
<1>2. QED
  BY <1>1 DEF Accounted

\* An ask goes on to another await without coming to its session or leaving it.
LEMMA LoadMoved ==
  ASSUME Accounted, NEW a \in WarmAsk, NEW to, Goto(a, to), UNCHANGED <<load, session>>,
         wpc[a] \in Counting <=> to \in Counting
  PROVE  Accounted'
<1>1. \A b \in WarmAsk : wpc'[b] \in Counting <=> wpc[b] \in Counting
  BY MovedTo
<1>2. wpc' = [b \in WarmAsk |-> wpc'[b]] /\ session' = [b \in WarmAsk |-> session'[b]]
  BY MovedTo DEF Accounted
<1>3. QED
  BY <1>1, <1>2, LoadUntouched

LEMMA LoadRouted ==
  ASSUME Accounted, NEW a \in WarmAsk, LookUpPin(a) \/ SelectCold(a) \/ Pin(a)
  PROVE  Accounted'
<1>1. PICK to \in {"picked", "select", "pin"} : Goto(a, to)
  BY DEF LookUpPin, SelectCold, Pin
<1>2. UNCHANGED load /\ wpc[a] \in {"idle", "select", "pin"}
  BY DEF LookUpPin, SelectCold, Pin
<1>3. /\ session' = [b \in WarmAsk |-> session'[b]]
      /\ \A b \in WarmAsk \ {a} : session'[b] = session[b]
  BY DEF LookUpPin, SelectCold, Pin, Accounted
<1>4. wpc[a] \notin Counting /\ to \notin Counting
  BY <1>2 DEF Counting, Inside
<1>5. QED
  BY <1>1, <1>2, <1>3, <1>4, MovedTo, LoadUntouched

LEMMA LoadEntered ==
  ASSUME Accounted, NEW a \in WarmAsk, Enter(a)
  PROVE  Accounted'
<1>1. /\ wpc[a] = "picked" /\ Goto(a, "queued") /\ UNCHANGED session
      /\ load' = [load EXCEPT ![session[a]] = @ + 1]
  BY DEF Enter
<1>2. ASSUME NEW s \in Session PROVE load'[s] = Cardinality(OnSession(s)')
  <2>1. CASE s = session[a]
    <3>1. OnSession(s)' = OnSession(s) \cup {a} /\ a \notin OnSession(s)
      BY <1>1, <2>1, MovedTo DEF OnSession, Counting, Inside
    <3>2. Cardinality(OnSession(s)') = Cardinality(OnSession(s)) + 1
      BY <3>1, OnSessionFinite, FS_AddElement
    <3>3. QED
      BY <3>2, <2>1, <1>1 DEF Accounted
  <2>2. CASE s # session[a]
    <3>1. OnSession(s)' = OnSession(s)
      BY <1>1, <2>2, MovedTo DEF OnSession
    <3>2. QED
      BY <3>1, <2>2, <1>1 DEF Accounted
  <2>3. QED
    BY <2>1, <2>2
<1>3. load' = [s \in Session |-> load'[s]]
  BY <1>1 DEF Accounted
<1>4. wpc' = [b \in WarmAsk |-> wpc'[b]] /\ session' = [b \in WarmAsk |-> session'[b]]
  BY <1>1, MovedTo DEF Accounted
<1>5. QED
  BY <1>2, <1>3, <1>4 DEF Accounted

LEMMA LoadReturned ==
  ASSUME Accounted, NEW a \in WarmAsk, NEW to \in {"answered", "failed"},
         wpc[a] \in Inside, Return(a, to), UNCHANGED session
  PROVE  Accounted'
<1>1. Goto(a, to) /\ load' = [load EXCEPT ![session[a]] = @ - 1]
  BY DEF Return
<1>2. ASSUME NEW s \in Session PROVE load'[s] = Cardinality(OnSession(s)')
  <2>1. CASE s = session[a]
    <3>1. OnSession(s)' = OnSession(s) \ {a} /\ a \in OnSession(s)
      BY <1>1, <2>1, MovedTo DEF OnSession, Counting, Inside
    <3>2. Cardinality(OnSession(s)') = Cardinality(OnSession(s)) - 1
      BY <3>1, OnSessionFinite, FS_RemoveElement
    <3>3. QED
      BY <3>2, <2>1, <1>1 DEF Accounted
  <2>2. CASE s # session[a]
    <3>1. OnSession(s)' = OnSession(s)
      BY <1>1, <2>2, MovedTo DEF OnSession
    <3>2. QED
      BY <3>1, <2>2, <1>1 DEF Accounted
  <2>3. QED
    BY <2>1, <2>2
<1>3. load' = [s \in Session |-> load'[s]]
  BY <1>1 DEF Accounted
<1>4. wpc' = [b \in WarmAsk |-> wpc'[b]] /\ session' = [b \in WarmAsk |-> session'[b]]
  BY <1>1, MovedTo DEF Accounted
<1>5. QED
  BY <1>2, <1>3, <1>4 DEF Accounted

LEMMA LoadWorked ==
  ASSUME Accounted, NEW a \in WarmAsk,
         \/ EnsureLive(a) \/ ConnectAndPrime(a) \/ AuthRejected(a) \/ Send(a) \/ ReadDelta(a)
  PROVE  Accounted'
<1>1. CASE ReadDelta(a)
  <2>1. UNCHANGED <<load, session, wpc>>
    BY <1>1 DEF ReadDelta, routing
  <2>2. QED
    BY <2>1, LoadUntouched DEF Accounted
<1>2. CASE EnsureLive(a) \/ ConnectAndPrime(a) \/ AuthRejected(a) \/ Send(a)
  <2>1. UNCHANGED <<load, session>> /\ wpc[a] \in Inside
    BY <1>2 DEF EnsureLive, ConnectAndPrime, AuthRejected, Send, routing, Inside
  <2>2. PICK to \in Inside : Goto(a, to)
    BY <1>2 DEF EnsureLive, ConnectAndPrime, AuthRejected, Send, Inside
  <2>3. QED
    BY <2>1, <2>2, LoadMoved DEF Counting
<1>3. QED
  BY <1>1, <1>2

LEMMA LoadEnded ==
  ASSUME Accounted, NEW a \in WarmAsk,
         ConnectFails(a) \/ StaleSocket(a) \/ ReadEnd(a) \/ WallClock(a)
  PROVE  Accounted'
<1>1. UNCHANGED session /\ wpc[a] \in Inside
  BY DEF ConnectFails, StaleSocket, is_stale_socket_error, ReadEnd, WallClock, Inside
<1>2. \/ \E to \in {"answered", "failed"} : Return(a, to)
      \/ Goto(a, "connect") /\ UNCHANGED load
  BY DEF ConnectFails, StaleSocket, is_stale_socket_error, Redispatch, ReadEnd, WallClock, Fail
<1>3. CASE \E to \in {"answered", "failed"} : Return(a, to)
  BY <1>1, <1>3, LoadReturned
<1>4. CASE Goto(a, "connect") /\ UNCHANGED load
  BY <1>1, <1>4, LoadMoved DEF Counting, Inside
<1>5. QED
  BY <1>2, <1>3, <1>4

LEMMA LoadCancelled ==
  ASSUME Accounted, NEW a \in WarmAsk, Cancel(a)
  PROVE  Accounted'
<1>1. /\ wpc[a] \in Routed \cup Inside /\ UNCHANGED <<load, session>>
      /\ Goto(a, IF wpc[a] \in Inside THEN "gone" ELSE "left")
  BY DEF Cancel, routing
<1>2. wpc[a] \in Counting <=> (IF wpc[a] \in Inside THEN "gone" ELSE "left") \in Counting
  BY <1>1 DEF Counting, Inside, Routed
<1>3. QED
  BY <1>1, <1>2, LoadMoved

LEMMA LoadInit == WarmInit => Accounted
<1>1. ASSUME WarmInit, NEW s \in Session PROVE OnSession(s) = {}
  BY <1>1 DEF WarmInit, OnSession, Counting, Inside
<1>2. QED
  BY <1>1, FS_EmptySet DEF WarmInit, Accounted

LEMMA LoadKept ==
  ASSUME Accounted, [WarmNext]_warmVars
  PROVE  Accounted'
<1>1. CASE UNCHANGED warmVars \/ \E s \in Session : Decay(s)
  <2>1. UNCHANGED <<load, session, wpc>>
    BY <1>1 DEF Decay, Close, Age, routing, warmVars
  <2>2. QED
    BY <2>1, LoadUntouched DEF Accounted
<1>2. ASSUME NEW a \in WarmAsk, LookUpPin(a) \/ Step(a) \/ Cancel(a) PROVE Accounted'
  BY <1>2, LoadRouted, LoadEntered, LoadWorked, LoadEnded, LoadCancelled DEF Step
<1>3. QED
  BY <1>1, <1>2 DEF WarmNext

\* The load sessions are routed by (WarmSession.load) is the asks in progress on
\* them and those abandoned there: returning takes an ask's load off whatever
\* became of it, being dropped never does.
THEOREM LoadCounts == WarmSpec => []OnlyAbandonedAsksLeakLoad
<1>1. ASSUME Accounted, NEW s \in Session
      PROVE  load[s] = Cardinality(InFlight(s)) + Cardinality(Abandoned(s))
  <2>1. /\ IsFiniteSet(WarmAsk)
        /\ InFlight(s) \in SUBSET WarmAsk /\ Abandoned(s) \in SUBSET WarmAsk
    BY WarmAssumption DEF InFlight, Abandoned
  <2>2. IsFiniteSet(InFlight(s)) /\ IsFiniteSet(Abandoned(s))
    BY <2>1, FS_Subset
  <2>3. OnSession(s) = InFlight(s) \cup Abandoned(s) /\ InFlight(s) \cap Abandoned(s) = {}
    BY DEF OnSession, InFlight, Abandoned, Counting, Inside
  <2>4. Cardinality(InFlight(s)) \in Nat /\ Cardinality(Abandoned(s)) \in Nat
    BY <2>2, FS_CardinalityType
  <2>5. Cardinality(InFlight(s) \cap Abandoned(s)) = 0
    BY <2>3, FS_EmptySet
  <2>6. Cardinality(InFlight(s) \cup Abandoned(s))
          = Cardinality(InFlight(s)) + Cardinality(Abandoned(s))
            - Cardinality(InFlight(s) \cap Abandoned(s))
    BY <2>2, FS_Union, Zenon
  <2>7. Cardinality(OnSession(s)) = Cardinality(InFlight(s)) + Cardinality(Abandoned(s))
    BY <2>3, <2>4, <2>5, <2>6
  <2>8. QED
    BY <1>1, <2>7 DEF Accounted
<1>2. Accounted => OnlyAbandonedAsksLeakLoad
  BY <1>1 DEF OnlyAbandonedAsksLeakLoad
<1>3. QED
  BY <1>2, LoadInit, LoadKept, PTL DEF WarmSpec

-----------------------------------------------------------------------------
(* How often an ask is sent *)

Locations == {"idle", "picked", "answered", "failed", "gone", "left"} \cup Routed \cup Inside

\* An ask that is about to connect has been sent at most once, on a socket it
\* found; one that has connected a socket itself does not connect again.
SentFor(a) ==
  /\ wpc[a] \in {"idle", "select", "pin", "picked", "queued"} => runs[a] = 0 /\ ~fresh[a]
  /\ wpc[a] \in {"connect", "reconnect"} => runs[a] <= 1 /\ ~fresh[a]
  /\ wpc[a] = "send" => runs[a] <= IF fresh[a] THEN 1 ELSE 0
  /\ wpc[a] = "read" => runs[a] <= IF fresh[a] THEN 2 ELSE 1
  /\ runs[a] <= 2

Dispatched ==
  /\ wpc \in [WarmAsk -> Locations] /\ fresh \in [WarmAsk -> BOOLEAN]
  /\ runs \in [WarmAsk -> Nat]
  /\ \A a \in WarmAsk : SentFor(a)

LEMMA DispatchedInit == WarmInit => Dispatched
BY DEF WarmInit, Dispatched, SentFor, Locations

\* A step of ask a concerns the other asks in nothing.
LEMMA DispatchedStep ==
  ASSUME Dispatched, NEW a \in WarmAsk, NEW to \in Locations,
         NEW n \in Nat, NEW b \in BOOLEAN, Goto(a, to),
         runs' = [runs EXCEPT ![a] = n], fresh' = [fresh EXCEPT ![a] = b],
         SentFor(a)'
  PROVE  Dispatched'
<1>1. wpc' \in [WarmAsk -> Locations] /\ fresh' \in [WarmAsk -> BOOLEAN] /\ runs' \in [WarmAsk -> Nat]
  BY DEF Dispatched, Goto
<1>2. ASSUME NEW c \in WarmAsk, c # a PROVE SentFor(c)'
  <2>1. wpc'[c] = wpc[c] /\ runs'[c] = runs[c] /\ fresh'[c] = fresh[c]
    BY <1>2 DEF Dispatched, Goto
  <2>2. QED
    BY <2>1 DEF Dispatched, SentFor
<1>3. QED
  BY <1>1, <1>2 DEF Dispatched

\* A step that neither sends nor connects goes to a place that permits no
\* fewer dispatches.
Slack(from, to) ==
  \/ to \in {"answered", "failed", "gone", "left"}
  \/ from = "connect" /\ to = "reconnect"
  \/ from \in {"idle", "select", "pin", "picked", "queued"} /\ to \in Routed \cup {"picked"} \cup Inside

LEMMA DispatchedQuietly ==
  ASSUME Dispatched, NEW a \in WarmAsk, NEW to \in Locations, Goto(a, to),
         Slack(wpc[a], to), UNCHANGED <<runs, fresh>>
  PROVE  Dispatched'
<1>1. wpc'[a] = to /\ runs'[a] = runs[a] /\ fresh'[a] = fresh[a]
  BY DEF Dispatched, Goto
<1>2. runs[a] \in Nat /\ fresh[a] \in BOOLEAN /\ SentFor(a) /\ wpc[a] \in Locations
  BY DEF Dispatched
<1>3. runs' = [runs EXCEPT ![a] = runs[a]] /\ fresh' = [fresh EXCEPT ![a] = fresh[a]]
  BY DEF Dispatched
<1>4. SentFor(a)'
  BY <1>1, <1>2 DEF SentFor, Slack, Locations, Routed, Inside
<1>5. QED
  BY <1>2, <1>3, <1>4, DispatchedStep

LEMMA DispatchedSend ==
  ASSUME Dispatched, NEW a \in WarmAsk, Send(a)
  PROVE  Dispatched'
<1>1. wpc[a] = "send" /\ Goto(a, "read") /\ UNCHANGED fresh
      /\ (runs' = [runs EXCEPT ![a] = @ + 1] \/ UNCHANGED runs)
  BY DEF Send
<1>2. runs[a] \in Nat /\ fresh[a] \in BOOLEAN /\ SentFor(a) /\ "read" \in Locations
  BY DEF Dispatched, Locations, Inside
<1>3. PICK n \in {runs[a], runs[a] + 1} : runs' = [runs EXCEPT ![a] = n]
  BY <1>1, <1>2 DEF Dispatched
<1>4. n \in Nat /\ fresh' = [fresh EXCEPT ![a] = fresh[a]]
  BY <1>1, <1>2, <1>3 DEF Dispatched
<1>5. wpc'[a] = "read" /\ runs'[a] = n /\ fresh'[a] = fresh[a]
  BY <1>1, <1>3 DEF Dispatched, Goto
<1>6. SentFor(a)'
  BY <1>1, <1>2, <1>3, <1>5 DEF SentFor
<1>7. QED
  BY <1>1, <1>2, <1>3, <1>4, <1>6, DispatchedStep

LEMMA DispatchedConnect ==
  ASSUME Dispatched, NEW a \in WarmAsk, ConnectAndPrime(a)
  PROVE  Dispatched'
<1>1. wpc[a] \in {"connect", "reconnect"} /\ Goto(a, "send") /\ UNCHANGED runs
      /\ fresh' = [fresh EXCEPT ![a] = TRUE]
  BY DEF ConnectAndPrime
<1>2. runs[a] \in Nat /\ SentFor(a) /\ "send" \in Locations
  BY DEF Dispatched, Locations, Inside
<1>3. wpc'[a] = "send" /\ runs'[a] = runs[a] /\ fresh'[a] = TRUE
      /\ runs' = [runs EXCEPT ![a] = runs[a]]
  BY <1>1 DEF Dispatched, Goto
<1>4. SentFor(a)'
  BY <1>1, <1>2, <1>3 DEF SentFor
<1>5. QED
  BY <1>1, <1>2, <1>3, <1>4, DispatchedStep

\* Only an ask on a socket it found connects after it was sent.
LEMMA DispatchedStale ==
  ASSUME Dispatched, NEW a \in WarmAsk, StaleSocket(a)
  PROVE  Dispatched'
<1>1. UNCHANGED <<runs, fresh>>
  BY DEF StaleSocket, is_stale_socket_error, Redispatch, Fail
<1>2. runs[a] \in Nat /\ fresh[a] \in BOOLEAN /\ SentFor(a)
  BY DEF Dispatched
<1>3. CASE ~fresh[a]
  <2>1. wpc[a] \in {"send", "read"} /\ Goto(a, "connect")
    BY <1>3 DEF StaleSocket, is_stale_socket_error, Redispatch
  <2>2. "connect" \in Locations
    BY DEF Locations, Inside
  <2>3. wpc'[a] = "connect" /\ runs'[a] = runs[a] /\ fresh'[a] = fresh[a]
        /\ runs' = [runs EXCEPT ![a] = runs[a]] /\ fresh' = [fresh EXCEPT ![a] = fresh[a]]
    BY <1>1, <2>1 DEF Dispatched, Goto
  <2>4. SentFor(a)'
    BY <1>2, <1>3, <2>1, <2>3 DEF SentFor
  <2>5. QED
    BY <1>2, <2>1, <2>2, <2>3, <2>4, DispatchedStep
<1>4. CASE fresh[a]
  <2>1. Goto(a, "failed") /\ "failed" \in Locations
    BY <1>4 DEF StaleSocket, Fail, Return, Locations
  <2>2. QED
    BY <1>1, <2>1, DispatchedQuietly DEF Slack
<1>5. QED
  BY <1>2, <1>3, <1>4

LEMMA DispatchedKept ==
  ASSUME Dispatched, [WarmNext]_warmVars
  PROVE  Dispatched'
<1>1. CASE UNCHANGED <<wpc, runs, fresh>>
  BY <1>1 DEF Dispatched, SentFor
<1>2. ASSUME NEW s \in Session, Decay(s) PROVE UNCHANGED <<wpc, runs, fresh>>
  BY <1>2, Zenon DEF Decay, Close, Age
<1>3. ASSUME NEW a \in WarmAsk,
             LookUpPin(a) \/ SelectCold(a) \/ Pin(a) \/ Enter(a) \/ EnsureLive(a) \/ AuthRejected(a)
      PROVE  Dispatched'
  <2>1. PICK to \in Locations : Goto(a, to) /\ Slack(wpc[a], to)
    BY <1>3 DEF LookUpPin, SelectCold, Pin, Enter, EnsureLive, AuthRejected, Slack,
                Locations, Routed, Inside
  <2>2. UNCHANGED <<runs, fresh>>
    BY <1>3 DEF LookUpPin, SelectCold, Pin, Enter, EnsureLive, AuthRejected
  <2>3. QED
    BY <2>1, <2>2, DispatchedQuietly
<1>4. ASSUME NEW a \in WarmAsk, ConnectFails(a) \/ ReadEnd(a) \/ WallClock(a) \/ Cancel(a)
      PROVE  Dispatched'
  <2>1. PICK to \in {"answered", "failed", "gone", "left"} : Goto(a, to)
    BY <1>4 DEF ConnectFails, ReadEnd, WallClock, Cancel, Fail, Return
  <2>2. UNCHANGED <<runs, fresh>>
    BY <1>4 DEF ConnectFails, ReadEnd, WallClock, Cancel
  <2>3. QED
    BY <2>1, <2>2, DispatchedQuietly DEF Slack, Locations
<1>5. ASSUME NEW a \in WarmAsk, ReadDelta(a) PROVE UNCHANGED <<wpc, runs, fresh>>
  BY <1>5 DEF ReadDelta
<1>6. CASE UNCHANGED warmVars
  BY <1>1, <1>6 DEF warmVars
<1>7. CASE WarmNext
  BY <1>1, <1>2, <1>3, <1>4, <1>5, <1>7, DispatchedSend, DispatchedConnect, DispatchedStale
     DEF WarmNext, Step
<1>8. QED
  BY <1>6, <1>7

-----------------------------------------------------------------------------
(* Which sessions asks are routed to *)

\* Who has come as far as its session, or is about to.
Bound == {"pin", "picked"} \cup Inside

Sited ==
  /\ ring \in 0..PerModel /\ pin \in [Family -> 0..PerModel]
  /\ session \in [WarmAsk -> 0..PerModel]
  /\ \A a \in WarmAsk : wpc[a] \in Bound => session[a] \in Session

\* The asks that hold their session's mutex.
Working == {"connect", "reconnect", "send", "read"}

InLine ==
  /\ queue \in [Session -> Seq(WarmAsk)]
  /\ \A a \in WarmAsk : wpc[a] \in Inside => InQueue(queue[session[a]], a)
  /\ \A a \in WarmAsk : wpc[a] \in Working => Head(queue[session[a]]) = a

\* A session has one socket or none, and whoever sends or reads has one.
SocketRecord == [open : BOOLEAN, aged : BOOLEAN, owed : SUBSET WarmAsk]

Socketed ==
  /\ sock \in [Session -> SUBSET SocketRecord]
  /\ \A s \in Session : \A x, y \in sock[s] : x = y
  /\ \A a \in WarmAsk : wpc[a] \in {"send", "read"} => sock[session[a]] # {}

\* A socket owes no more responses than there are asks to have left or to read
\* them, and until a caller goes away its reader's and no other.
Owes(s) ==
  \A x \in sock[s] :
    /\ Cardinality(x.owed) <= Cardinality(Abandoned(s)) + Cardinality(Reading(s))
    /\ Abandoned(s) = {} => x.owed \subseteq Reading(s)

Hears(a) ==
  /\ heard[a] \subseteq {a} \/ Abandoned(session[a]) # {}
  /\ wpc[a] \notin Inside \cup {"answered", "failed", "gone"} => heard[a] = {}

Unread ==
  /\ \A s \in Session : Owes(s)
  /\ heard \in [WarmAsk -> SUBSET WarmAsk] /\ \A a \in WarmAsk : Hears(a)

LEMMA LowestFirst ==
  ASSUME NEW C, C \subseteq Nat, C # {}, NEW R \in [C -> Nat]
  PROVE  \E s \in C : \A t \in C \ {s} : R[s] < R[t] \/ (R[s] = R[t] /\ s < t)
<1>1. PICK M : M = {R[s] : s \in C}
  OBVIOUS
<1>2. M \subseteq Nat /\ M # {}
  BY <1>1
<1>3. PICK m \in M : \A y \in M : m <= y
  BY <1>2, SmallestOf
<1>4. PICK D : D = {s \in C : R[s] = m}
  OBVIOUS
<1>5. D \subseteq Nat /\ D # {}
  BY <1>1, <1>3, <1>4
<1>6. PICK d \in D : \A y \in D : d <= y
  BY <1>5, SmallestOf
<1>7. d \in C /\ R[d] = m
  BY <1>4, <1>6
<1>8. ASSUME NEW t \in C \ {d} PROVE R[d] < R[t] \/ (R[d] = R[t] /\ d < t)
  <2>1. R[t] \in M /\ R[t] \in Nat /\ m \in Nat /\ t \in Nat /\ d \in Nat
    BY <1>1, <1>2, <1>5, <1>8
  <2>2. CASE R[t] = m
    <3>1. t \in D
      BY <1>4, <1>8, <2>2
    <3>2. d <= t /\ t # d
      BY <1>6, <1>8, <3>1
    <3>3. QED
      BY <1>7, <2>1, <2>2, <3>2
  <2>3. CASE R[t] # m
    BY <1>3, <1>7, <2>1, <2>3
  <2>4. QED
    BY <2>2, <2>3
<1>9. QED
  BY <1>7, <1>8

LEMMA LoadIsNat ==
  ASSUME Accounted, NEW s \in Session PROVE load[s] \in Nat
BY OnSessionFinite DEF Accounted

LEMMA ChosenIsSession ==
  ASSUME Accounted, ring \in 0..PerModel PROVE Chosen \in Session
<1>1. PerModel \in Nat \ {0} /\ ring \in Nat /\ ring <= PerModel
  BY WarmAssumption
<1>2. PICK I : I = {s \in 1..ring : load[s] = 0}
  OBVIOUS
<1>3. I \subseteq Session /\ I \subseteq Nat /\ 1..ring \subseteq Session /\ 1..ring \subseteq Nat
  BY <1>1, <1>2 DEF Session
<1>4. CASE I # {}
  <2>1. PICK R : R = [s \in I |-> RoutingState(s)]
    OBVIOUS
  <2>2. R \in [I -> Nat]
    BY <2>1 DEF RoutingState
  <2>3. \E s \in I : \A t \in I \ {s} : R[s] < R[t] \/ (R[s] = R[t] /\ s < t)
    BY <1>3, <1>4, <2>2, LowestFirst
  <2>4. \E s \in I : \A t \in I \ {s} :
          RoutingState(s) < RoutingState(t) \/ (RoutingState(s) = RoutingState(t) /\ s < t)
    BY <2>1, <2>3
  <2>5. Best(I, RoutingState) \in I
    BY <2>4 DEF Best
  <2>6. Chosen = Best(I, RoutingState)
    BY <1>2, <1>4 DEF Chosen
  <2>7. QED
    BY <1>3, <2>5, <2>6
<1>5. CASE I = {} /\ ring < PerModel
  <2>1. Chosen = ring + 1
    BY <1>2, <1>5 DEF Chosen
  <2>2. QED
    BY <1>1, <1>5, <2>1 DEF Session
<1>6. CASE I = {} /\ ~(ring < PerModel)
  <2>1. PICK R : R = [s \in 1..ring |-> 3 * load[s] + RoutingState(s)]
    OBVIOUS
  <2>2. \A s \in 1..ring : RoutingState(s) \in Nat /\ load[s] \in Nat
    BY <1>3, LoadIsNat DEF RoutingState
  <2>3. R \in [1..ring -> Nat]
    BY <2>1, <2>2
  <2>4. 1..ring # {}
    BY <1>1, <1>6
  <2>5. \E s \in 1..ring : \A t \in (1..ring) \ {s} : R[s] < R[t] \/ (R[s] = R[t] /\ s < t)
    BY <1>3, <2>3, <2>4, LowestFirst
  <2>6. PICK B : B = CHOOSE s \in 1..ring : \A t \in (1..ring) \ {s} :
                       \/ 3 * load[s] + RoutingState(s) < 3 * load[t] + RoutingState(t)
                       \/ 3 * load[s] + RoutingState(s) = 3 * load[t] + RoutingState(t) /\ s < t
    OBVIOUS
  <2>7. \E s \in 1..ring : \A t \in (1..ring) \ {s} :
          \/ 3 * load[s] + RoutingState(s) < 3 * load[t] + RoutingState(t)
          \/ 3 * load[s] + RoutingState(s) = 3 * load[t] + RoutingState(t) /\ s < t
    BY <2>1, <2>5
  <2>8. B \in 1..ring
    BY <2>6, <2>7
  <2>9. Chosen = B
    BY <1>2, <1>6, <2>6 DEF Chosen, Best
  <2>10. QED
    BY <1>3, <2>8, <2>9
<1>7. QED
  BY <1>4, <1>5, <1>6

\* Where the asks are after a step of ask a.
LEMMA WentTo ==
  ASSUME Dispatched, NEW a \in WarmAsk, NEW to, Goto(a, to)
  PROVE  wpc'[a] = to /\ \A b \in WarmAsk \ {a} : wpc'[b] = wpc[b]
BY DEF Dispatched, Goto

\* A step of ask a is no step of another.
LEMMA OthersStay ==
  ASSUME Dispatched, NEW a \in WarmAsk, LookUpPin(a) \/ Step(a) \/ Cancel(a)
  PROVE  \A b \in WarmAsk \ {a} : wpc'[b] = wpc[b]
<1>1. CASE ReadDelta(a)
  BY <1>1 DEF ReadDelta
<1>2. CASE ~ReadDelta(a)
  <2>1. \E to : Goto(a, to)
    <3>1. CASE LookUpPin(a) \/ SelectCold(a) \/ Pin(a) \/ Enter(a)
      BY <3>1 DEF LookUpPin, SelectCold, Pin, Enter
    <3>2. CASE EnsureLive(a) \/ ConnectAndPrime(a) \/ AuthRejected(a) \/ Send(a) \/ Cancel(a)
      BY <3>2 DEF EnsureLive, ConnectAndPrime, AuthRejected, Send, Cancel
    <3>3. CASE ConnectFails(a) \/ StaleSocket(a) \/ ReadEnd(a) \/ WallClock(a)
      BY <3>3 DEF ConnectFails, StaleSocket, Redispatch, ReadEnd, WallClock, Fail, Return
    <3>4. QED
      BY <1>2, <3>1, <3>2, <3>3, Zenon DEF Step
  <2>2. QED
    BY <2>1, WentTo
<1>3. QED
  BY <1>1, <1>2

LEMMA SitedLookUp ==
  ASSUME Dispatched, Sited, NEW a \in WarmAsk, LookUpPin(a)
  PROVE  Sited'
<1>1. UNCHANGED <<ring, pin>> /\ pin[FamilyOf[a]] \in 0..PerModel /\ PerModel \in Nat
  BY WarmAssumption DEF LookUpPin, Sited
<1>2. \/ Goto(a, "picked") /\ pin[FamilyOf[a]] # 0
         /\ session' = [session EXCEPT ![a] = pin[FamilyOf[a]]]
      \/ Goto(a, "select") /\ UNCHANGED session
  BY DEF LookUpPin
<1>3. CASE Goto(a, "picked") /\ pin[FamilyOf[a]] # 0
           /\ session' = [session EXCEPT ![a] = pin[FamilyOf[a]]]
  <2>1. pin[FamilyOf[a]] \in Session
    BY <1>1, <1>3 DEF Session
  <2>2. QED
    BY <1>1, <1>3, <2>1, WentTo DEF Sited
<1>4. CASE Goto(a, "select") /\ UNCHANGED session
  BY <1>1, <1>4, WentTo DEF Sited, Bound, Inside
<1>5. QED
  BY <1>2, <1>3, <1>4

LEMMA SitedSelect ==
  ASSUME Accounted, Dispatched, Sited, NEW a \in WarmAsk, SelectCold(a) \/ Pin(a)
  PROVE  Sited'
<1>1. ring \in 0..PerModel /\ PerModel \in Nat /\ Chosen \in Session
      /\ Session \subseteq 0..PerModel /\ FamilyOf[a] \in Family
  BY ChosenIsSession, WarmAssumption DEF Sited, Session
<1>2. CASE SelectCold(a)
  <2>1. PICK c \in Session : c = Chosen
    BY <1>1
  <2>2. session' = [session EXCEPT ![a] = c] /\ UNCHANGED pin
        /\ ring' = IF c > ring THEN c ELSE ring
    BY <1>2, <2>1 DEF SelectCold
  <2>3. ring' \in 0..PerModel
    BY <1>1, <2>1, <2>2
  <2>4. Goto(a, "pin") \/ Goto(a, "picked")
    BY <1>2 DEF SelectCold
  <2>5. \A b \in WarmAsk \ {a} : wpc'[b] = wpc[b]
    BY <2>4, WentTo
  <2>6. QED
    BY <1>1, <2>1, <2>2, <2>3, <2>5 DEF Sited
<1>3. CASE Pin(a)
  <2>1. wpc[a] = "pin" /\ Goto(a, "picked") /\ UNCHANGED <<ring, session>>
        /\ pin' = [pin EXCEPT ![FamilyOf[a]] = session[a]]
    BY <1>3 DEF Pin
  <2>2. session[a] \in Session
    BY <2>1 DEF Sited, Bound
  <2>3. QED
    BY <1>1, <2>1, <2>2, WentTo DEF Sited
<1>4. QED
  BY <1>2, <1>3

LEMMA SitedAfter ==
  ASSUME Dispatched, Sited, NEW a \in WarmAsk,
         \/ Enter(a) \/ EnsureLive(a) \/ ConnectAndPrime(a) \/ AuthRejected(a)
         \/ ConnectFails(a) \/ Send(a) \/ StaleSocket(a) \/ ReadDelta(a) \/ ReadEnd(a)
         \/ WallClock(a) \/ Cancel(a)
  PROVE  Sited'
<1>1. UNCHANGED <<ring, pin, session>>
  <2>1. CASE Enter(a) \/ EnsureLive(a) \/ ConnectAndPrime(a) \/ AuthRejected(a) \/ Send(a)
             \/ ReadDelta(a) \/ Cancel(a)
    BY <2>1 DEF Enter, EnsureLive, ConnectAndPrime, AuthRejected, Send, ReadDelta, Cancel, routing
  <2>2. CASE ConnectFails(a) \/ StaleSocket(a) \/ ReadEnd(a) \/ WallClock(a)
    BY <2>2 DEF ConnectFails, StaleSocket, ReadEnd, WallClock
  <2>3. QED
    BY <2>1, <2>2
<1>2. wpc[a] \in Bound \/ wpc'[a] \notin Bound
  <2>1. CASE Enter(a) \/ EnsureLive(a) \/ ConnectAndPrime(a) \/ AuthRejected(a) \/ Send(a)
             \/ ReadDelta(a)
    BY <2>1 DEF Enter, EnsureLive, ConnectAndPrime, AuthRejected, Send, ReadDelta, Bound, Inside
  <2>2. CASE ConnectFails(a) \/ StaleSocket(a) \/ ReadEnd(a) \/ WallClock(a)
    BY <2>2 DEF ConnectFails, StaleSocket, is_stale_socket_error, ReadEnd, WallClock, Bound, Inside
  <2>3. CASE Cancel(a)
    <3>1. Goto(a, IF wpc[a] \in Inside THEN "gone" ELSE "left")
      BY <2>3 DEF Cancel
    <3>2. wpc'[a] \in {"gone", "left"}
      BY <3>1, WentTo
    <3>3. QED
      BY <3>2 DEF Bound, Inside
  <2>4. QED
    BY <2>1, <2>2, <2>3
<1>3. \A b \in WarmAsk \ {a} : wpc'[b] = wpc[b]
  BY OthersStay DEF Step
<1>4. QED
  BY <1>1, <1>2, <1>3 DEF Sited

LEMMA SitedKept ==
  ASSUME Accounted, Dispatched, Sited, [WarmNext]_warmVars
  PROVE  Sited'
<1>1. ASSUME UNCHANGED <<ring, pin, session, wpc>> PROVE Sited'
  BY <1>1 DEF Sited
<1>2. CASE UNCHANGED warmVars
  BY <1>1, <1>2 DEF warmVars
<1>3. ASSUME NEW s \in Session, Decay(s) PROVE UNCHANGED <<ring, pin, session, wpc>>
  BY <1>3, Zenon DEF Decay, Close, Age, routing
<1>4. ASSUME NEW a \in WarmAsk, LookUpPin(a) \/ Step(a) \/ Cancel(a) PROVE Sited'
  BY <1>4, SitedLookUp, SitedSelect, SitedAfter, Zenon DEF Step
<1>5. QED
  BY <1>1, <1>2, <1>3, <1>4, Zenon DEF WarmNext

LEMMA SitedInit == WarmInit => Sited
BY WarmAssumption DEF WarmInit, Sited, Bound, Inside

-----------------------------------------------------------------------------
(* The mutex of a session *)

\* A step at which nobody joins or leaves a queue.
LEMMA InLineUntouched ==
  ASSUME InLine, NEW a \in WarmAsk, UNCHANGED queue,
         \A b \in WarmAsk \ {a} : wpc'[b] = wpc[b] /\ session'[b] = session[b],
         wpc'[a] \in Inside => wpc[a] \in Inside /\ session'[a] = session[a],
         wpc'[a] \in Working => Head(queue[session[a]]) = a,
         Working \subseteq Inside
  PROVE  InLine'
BY DEF InLine

LEMMA WorkingInside == Working \subseteq Inside
BY DEF Working, Inside

LEMMA InLineRouted ==
  ASSUME Dispatched, Sited, InLine, NEW a \in WarmAsk, LookUpPin(a) \/ SelectCold(a) \/ Pin(a)
  PROVE  InLine'
<1>1. UNCHANGED queue
  BY DEF LookUpPin, SelectCold, Pin
<1>2. \A b \in WarmAsk \ {a} : session'[b] = session[b]
  BY DEF LookUpPin, SelectCold, Pin, Sited
<1>3. wpc'[a] \notin Inside
  BY WentTo DEF LookUpPin, SelectCold, Pin, Inside
<1>4. \A b \in WarmAsk \ {a} : wpc'[b] = wpc[b]
  BY OthersStay DEF Step
<1>5. QED
  BY <1>1, <1>2, <1>3, <1>4, WorkingInside, InLineUntouched

LEMMA InLineEntered ==
  ASSUME Dispatched, Sited, InLine, NEW a \in WarmAsk, Enter(a)
  PROVE  InLine'
<1>1. /\ wpc[a] = "picked" /\ wpc'[a] = "queued" /\ UNCHANGED session
      /\ \A b \in WarmAsk \ {a} : wpc'[b] = wpc[b]
  BY WentTo DEF Enter
<1>2. session[a] \in Session
  BY <1>1 DEF Sited, Bound
<1>3. PICK q : q = queue[session[a]]
  OBVIOUS
<1>4. q \in Seq(WarmAsk) /\ queue' = [queue EXCEPT ![session[a]] = Append(q, a)]
  BY <1>2, <1>3 DEF InLine, Enter
<1>5. /\ Append(q, a) \in Seq(WarmAsk) /\ InQueue(Append(q, a), a)
      /\ \A v : InQueue(q, v) => InQueue(Append(q, a), v)
      /\ q # <<>> => Head(Append(q, a)) = Head(q)
  BY <1>4, Joins
<1>6. queue' \in [Session -> Seq(WarmAsk)] /\ queue'[session[a]] = Append(q, a)
      /\ \A s \in Session \ {session[a]} : queue'[s] = queue[s]
  BY <1>2, <1>4, <1>5 DEF InLine
<1>7. ASSUME NEW b \in WarmAsk, wpc'[b] \in Inside PROVE InQueue(queue'[session[b]], b)
  <2>1. CASE b = a
    BY <1>5, <1>6, <2>1
  <2>2. CASE b # a
    <3>1. wpc[b] \in Inside /\ InQueue(queue[session[b]], b) /\ session[b] \in Session
      BY <1>1, <1>7, <2>2 DEF InLine, Sited, Bound
    <3>2. CASE session[b] = session[a]
      BY <1>3, <1>5, <1>6, <3>1, <3>2
    <3>3. CASE session[b] # session[a]
      BY <1>6, <3>1, <3>3
    <3>4. QED
      BY <3>2, <3>3
  <2>3. QED
    BY <2>1, <2>2
<1>8. ASSUME NEW b \in WarmAsk, wpc'[b] \in Working PROVE Head(queue'[session[b]]) = b
  <2>1. b # a /\ wpc[b] \in Working /\ wpc[b] \in Inside
    BY <1>1, <1>8, WorkingInside DEF Working
  <2>2. Head(queue[session[b]]) = b /\ InQueue(queue[session[b]], b) /\ session[b] \in Session
    BY <2>1 DEF InLine, Sited, Bound
  <2>3. CASE session[b] = session[a]
    <3>1. q # <<>>
      BY <1>3, <1>4, <2>2, <2>3, HeadIs
    <3>2. QED
      BY <1>3, <1>5, <1>6, <2>2, <2>3, <3>1
  <2>4. CASE session[b] # session[a]
    BY <1>6, <2>2, <2>4
  <2>5. QED
    BY <2>3, <2>4
<1>9. QED
  BY <1>1, <1>6, <1>7, <1>8 DEF InLine

\* Nobody but the head works, so when it unlocks nobody is working.
LEMMA InLineReturned ==
  ASSUME Dispatched, Sited, InLine, NEW a \in WarmAsk, wpc[a] \in Working,
         NEW to \in {"answered", "failed"}, Return(a, to), UNCHANGED session
  PROVE  InLine'
<1>1. wpc'[a] = to /\ \A b \in WarmAsk \ {a} : wpc'[b] = wpc[b]
  BY WentTo DEF Return
<1>2. wpc[a] \in Inside /\ session[a] \in Session
  BY WorkingInside DEF Sited, Bound
<1>3. PICK q : q = queue[session[a]]
  OBVIOUS
<1>4. q \in Seq(WarmAsk) /\ queue' = [queue EXCEPT ![session[a]] = Tail(q)]
      /\ Head(q) = a /\ InQueue(q, a)
  BY <1>2, <1>3 DEF InLine, Return
<1>5. Tail(q) \in Seq(WarmAsk) /\ \A v : v # a /\ InQueue(q, v) => InQueue(Tail(q), v)
  <2>1. q # <<>>
    BY <1>4, HeadIs
  <2>2. QED
    BY <1>4, <2>1, Unlocks
<1>6. queue' \in [Session -> Seq(WarmAsk)] /\ queue'[session[a]] = Tail(q)
      /\ \A s \in Session \ {session[a]} : queue'[s] = queue[s]
  BY <1>2, <1>4, <1>5 DEF InLine
<1>7. to \notin Inside /\ to \notin Working
  BY DEF Inside, Working
<1>8. ASSUME NEW b \in WarmAsk, wpc'[b] \in Inside PROVE InQueue(queue'[session[b]], b)
  <2>1. b # a /\ wpc[b] \in Inside
    BY <1>1, <1>7, <1>8
  <2>2. InQueue(queue[session[b]], b) /\ session[b] \in Session
    BY <2>1 DEF InLine, Sited, Bound
  <2>3. QED
    BY <1>3, <1>5, <1>6, <2>1, <2>2
<1>9. ASSUME NEW b \in WarmAsk, wpc'[b] \in Working PROVE Head(queue'[session[b]]) = b
  <2>1. b # a /\ wpc[b] \in Working
    BY <1>1, <1>7, <1>9
  <2>2. Head(queue[session[b]]) = b /\ session[b] \in Session
    BY <2>1, WorkingInside DEF InLine, Sited, Bound
  <2>3. session[b] # session[a]
    BY <1>3, <1>4, <2>1, <2>2
  <2>4. QED
    BY <1>6, <2>2, <2>3
<1>10. QED
  BY <1>6, <1>8, <1>9 DEF InLine

LEMMA InLineCancelled ==
  ASSUME Dispatched, Sited, InLine, NEW a \in WarmAsk, Cancel(a)
  PROVE  InLine'
<1>1. wpc'[a] \in {"gone", "left"} /\ (\A b \in WarmAsk \ {a} : wpc'[b] = wpc[b])
      /\ UNCHANGED session /\ queue' = [s \in Session |-> RemoveFirst(queue[s], a)]
  <2>1. Goto(a, IF wpc[a] \in Inside THEN "gone" ELSE "left")
    BY DEF Cancel
  <2>2. wpc'[a] \in {"gone", "left"} /\ \A b \in WarmAsk \ {a} : wpc'[b] = wpc[b]
    BY <2>1, WentTo
  <2>3. QED
    BY <2>2 DEF Cancel, routing
<1>2. \A s \in Session :
        /\ queue'[s] \in Seq(WarmAsk)
        /\ \A v : v # a /\ InQueue(queue[s], v) => InQueue(queue'[s], v)
        /\ queue[s] # <<>> /\ Head(queue[s]) # a => Head(queue'[s]) = Head(queue[s])
  BY <1>1, Leaves DEF InLine
<1>3. ASSUME NEW b \in WarmAsk, wpc'[b] \in Inside
      PROVE  InQueue(queue'[session[b]], b) /\ (wpc'[b] \in Working => Head(queue'[session[b]]) = b)
  <2>1. b # a /\ wpc[b] = wpc'[b]
    BY <1>1, <1>3 DEF Inside
  <2>2. InQueue(queue[session[b]], b) /\ session[b] \in Session /\ queue[session[b]] \in Seq(WarmAsk)
        /\ (wpc[b] \in Working => Head(queue[session[b]]) = b)
    BY <1>3, <2>1 DEF InLine, Sited, Bound
  <2>3. queue[session[b]] # <<>>
    BY <2>2, HeadIs
  <2>4. QED
    BY <1>2, <2>1, <2>2, <2>3
<1>4. queue' \in [Session -> Seq(WarmAsk)]
  BY <1>1, <1>2
<1>5. QED
  BY <1>1, <1>3, <1>4, WorkingInside DEF InLine

\* What an ask does under the mutex without leaving it.
LEMMA InLineWorked ==
  ASSUME Dispatched, Sited, InLine, NEW a \in WarmAsk,
         \/ EnsureLive(a) \/ ConnectAndPrime(a) \/ AuthRejected(a) \/ Send(a) \/ ReadDelta(a)
         \/ Goto(a, "connect") /\ wpc[a] \in Working /\ UNCHANGED <<queue, session>>
  PROVE  InLine'
<1>1. UNCHANGED <<queue, session>>
  BY DEF EnsureLive, ConnectAndPrime, AuthRejected, Send, ReadDelta, routing
<1>2. wpc[a] \in Inside /\ Head(queue[session[a]]) = a
  <2>1. CASE EnsureLive(a)
    BY <2>1 DEF EnsureLive, Inside
  <2>2. CASE ~EnsureLive(a)
    <3>1. wpc[a] \in Working
      BY <2>2 DEF ConnectAndPrime, AuthRejected, Send, ReadDelta, Working
    <3>2. QED
      BY <3>1, WorkingInside DEF InLine
  <2>3. QED
    BY <2>1, <2>2
<1>3. \A b \in WarmAsk \ {a} : wpc'[b] = wpc[b]
  <2>1. CASE Goto(a, "connect")
    BY <2>1, WentTo
  <2>2. CASE ~Goto(a, "connect")
    BY <2>2, OthersStay DEF Step
  <2>3. QED
    BY <2>1, <2>2
<1>4. QED
  BY <1>1, <1>2, <1>3, WorkingInside, InLineUntouched

LEMMA InLineEnded ==
  ASSUME Dispatched, Sited, InLine, NEW a \in WarmAsk,
         ConnectFails(a) \/ StaleSocket(a) \/ ReadEnd(a) \/ WallClock(a)
  PROVE  InLine'
<1>1. UNCHANGED session /\ wpc[a] \in Working
  BY DEF ConnectFails, StaleSocket, is_stale_socket_error, ReadEnd, WallClock, Working
<1>2. \/ \E to \in {"answered", "failed"} : Return(a, to)
      \/ Goto(a, "connect") /\ UNCHANGED queue
  BY DEF ConnectFails, StaleSocket, Redispatch, ReadEnd, WallClock, Fail
<1>3. QED
  BY <1>1, <1>2, InLineReturned, InLineWorked

LEMMA InLineKept ==
  ASSUME Dispatched, Sited, InLine, [WarmNext]_warmVars
  PROVE  InLine'
<1>1. ASSUME UNCHANGED <<queue, session, wpc>> PROVE InLine'
  BY <1>1 DEF InLine
<1>2. CASE UNCHANGED warmVars
  BY <1>1, <1>2 DEF warmVars
<1>3. ASSUME NEW s \in Session, Decay(s) PROVE UNCHANGED <<queue, session, wpc>>
  BY <1>3, Zenon DEF Decay, Close, Age, routing
<1>4. ASSUME NEW a \in WarmAsk, LookUpPin(a) \/ Step(a) \/ Cancel(a) PROVE InLine'
  BY <1>4, InLineRouted, InLineEntered, InLineWorked, InLineEnded, InLineCancelled, Zenon DEF Step
<1>5. QED
  BY <1>1, <1>2, <1>3, <1>4, Zenon DEF WarmNext

LEMMA InLineInit == WarmInit => InLine
BY DEF WarmInit, InLine, Working, Inside

-----------------------------------------------------------------------------
(* The sockets *)

LEMMA TheSocket ==
  ASSUME Socketed, NEW s \in Session, sock[s] # {}
  PROVE  Socket(s) \in SocketRecord /\ sock[s] = {Socket(s)}
<1>1. Socket(s) \in sock[s]
  BY DEF Socket
<1>2. QED
  BY <1>1 DEF Socketed

LEMMA RecordChanged ==
  ASSUME NEW x \in SocketRecord, NEW o \in SUBSET WarmAsk
  PROVE  /\ [x EXCEPT !.owed = o] \in SocketRecord /\ [x EXCEPT !.owed = o].owed = o
         /\ [x EXCEPT !.open = FALSE, !.owed = o] \in SocketRecord
         /\ [x EXCEPT !.open = FALSE, !.owed = o].owed = o
         /\ [x EXCEPT !.aged = TRUE] \in SocketRecord
         /\ [x EXCEPT !.aged = TRUE].owed = x.owed
BY DEF SocketRecord

\* One session's socket is replaced, or taken away.
LEMMA SocketReplaced ==
  ASSUME Socketed, NEW s \in Session, NEW S \in SUBSET SocketRecord, \A x, y \in S : x = y,
         sock' = [sock EXCEPT ![s] = S]
  PROVE  /\ sock' \in [Session -> SUBSET SocketRecord]
         /\ \A t \in Session : \A x, y \in sock'[t] : x = y
         /\ sock'[s] = S /\ \A t \in Session \ {s} : sock'[t] = sock[t]
<1>1. sock \in [Session -> SUBSET SocketRecord] /\ \A t \in Session : \A x, y \in sock[t] : x = y
  BY DEF Socketed
<1>2. sock'[s] = S /\ \A t \in Session \ {s} : sock'[t] = sock[t]
  BY <1>1
<1>3. sock' \in [Session -> SUBSET SocketRecord]
  BY <1>1
<1>4. ASSUME NEW t \in Session PROVE \A x, y \in sock'[t] : x = y
  <2>1. CASE t = s
    BY <1>2, <2>1
  <2>2. CASE t # s
    BY <1>1, <1>2, <2>2
  <2>3. QED
    BY <2>1, <2>2
<1>5. QED
  BY <1>2, <1>3, <1>4

LEMMA NewRecord == NewSocket \in SUBSET SocketRecord /\ (\A x, y \in NewSocket : x = y)
                   /\ NewSocket # {} /\ \A x \in NewSocket : x.owed = {}
BY DEF NewSocket, SocketRecord

\* Two asks do not hold one mutex.
LEMMA OneHolder ==
  ASSUME InLine, NEW a \in WarmAsk, Head(queue[session[a]]) = a,
         NEW b \in WarmAsk \ {a}, wpc[b] \in Working
  PROVE  session[b] # session[a]
BY DEF InLine

\* What becomes of the socket of the session an ask is on.
Replaces(a, S) ==
  /\ session[a] \in Session /\ S \in SUBSET SocketRecord /\ \A x, y \in S : x = y
  /\ sock' = [sock EXCEPT ![session[a]] = S] /\ Head(queue[session[a]]) = a
  /\ UNCHANGED session /\ (wpc'[a] \in {"send", "read"} => S # {})

LEMMA SocketedReplaced ==
  ASSUME Socketed, InLine, NEW a \in WarmAsk, NEW S, Replaces(a, S),
         \A b \in WarmAsk \ {a} : wpc'[b] = wpc[b]
  PROVE  Socketed'
<1>1. /\ sock' \in [Session -> SUBSET SocketRecord]
      /\ \A t \in Session : \A x, y \in sock'[t] : x = y
      /\ sock'[session[a]] = S /\ \A t \in Session \ {session[a]} : sock'[t] = sock[t]
  <2>1. /\ session[a] \in Session /\ S \in SUBSET SocketRecord /\ \A x, y \in S : x = y
        /\ sock' = [sock EXCEPT ![session[a]] = S]
    BY Zenon DEF Replaces
  <2>2. PICK s \in Session : s = session[a]
    BY <2>1
  <2>3. sock' = [sock EXCEPT ![s] = S]
    BY <2>1, <2>2
  <2>4. /\ sock' \in [Session -> SUBSET SocketRecord]
        /\ \A t \in Session : \A x, y \in sock'[t] : x = y
        /\ sock'[s] = S /\ \A t \in Session \ {s} : sock'[t] = sock[t]
    BY <2>1, <2>3, SocketReplaced, Zenon
  <2>5. QED
    BY <2>2, <2>4
<1>2. ASSUME NEW b \in WarmAsk, wpc'[b] \in {"send", "read"} PROVE sock'[session'[b]] # {}
  <2>1. session'[b] = session[b]
    BY DEF Replaces
  <2>2. CASE b = a
    BY <1>1, <1>2, <2>1, <2>2 DEF Replaces
  <2>3. CASE b # a
    <3>1. wpc[b] \in Working /\ wpc[b] \in {"send", "read"}
      BY <1>2, <2>3 DEF Working
    <3>2. session[b] # session[a]
      BY <2>3, <3>1, OneHolder DEF Replaces
    <3>3. sock'[session[b]] = sock[session[b]]
      <4>1. CASE session[b] \in Session
        BY <1>1, <3>2, <4>1
      <4>2. CASE session[b] \notin Session
        BY <1>1, <4>2, <3>2 DEF Replaces, Socketed
      <4>3. QED
        BY <4>1, <4>2
    <3>4. QED
      BY <2>1, <3>1, <3>3 DEF Socketed
  <2>4. QED
    BY <2>2, <2>3
<1>3. QED
  BY <1>1, <1>2 DEF Socketed

\* The steps that change no socket.
Keeps(a) ==
  /\ UNCHANGED sock
  /\ wpc'[a] \in {"send", "read"} => session'[a] = session[a] /\ sock[session[a]] # {}

LEMMA SocketedKept ==
  ASSUME Socketed, NEW a \in WarmAsk, Keeps(a),
         \A b \in WarmAsk \ {a} : wpc'[b] = wpc[b] /\ session'[b] = session[b]
  PROVE  Socketed'
BY DEF Socketed, Keeps

\* Each step of an ask keeps the socket of its session or replaces it.
LEMMA KeepsOrReplaces ==
  ASSUME Dispatched, Sited, InLine, Socketed, NEW a \in WarmAsk,
         LookUpPin(a) \/ Step(a) \/ Cancel(a)
  PROVE  Keeps(a) \/ \E S : Replaces(a, S)
<1>1. wpc[a] \in Working \cup {"queued"} => session[a] \in Session
  BY DEF Working, Sited, Bound, Inside
<1>2. wpc[a] \in Working => Head(queue[session[a]]) = a
  BY DEF InLine
<1>3. CASE LookUpPin(a) \/ SelectCold(a) \/ Pin(a) \/ Enter(a)
  <2>1. UNCHANGED sock /\ wpc'[a] \in {"picked", "select", "pin", "queued"}
    BY <1>3, WentTo DEF LookUpPin, SelectCold, Pin, Enter
  <2>2. QED
    BY <2>1 DEF Keeps
<1>4. CASE AuthRejected(a) \/ Cancel(a)
  <2>1. CASE AuthRejected(a)
    BY <2>1, WentTo DEF AuthRejected, Keeps
  <2>2. CASE Cancel(a)
    <3>1. UNCHANGED sock /\ Goto(a, IF wpc[a] \in Inside THEN "gone" ELSE "left")
      BY <2>2 DEF Cancel
    <3>2. wpc'[a] = IF wpc[a] \in Inside THEN "gone" ELSE "left"
      BY <3>1, WentTo
    <3>3. QED
      BY <3>1, <3>2 DEF Keeps
  <2>3. QED
    BY <1>4, <2>1, <2>2
<1>5. CASE ReadDelta(a)
  BY <1>5 DEF ReadDelta, routing, Keeps, Socketed
<1>6. CASE EnsureLive(a)
  <2>1. UNCHANGED session /\ wpc[a] = "queued" /\ Head(queue[session[a]]) = a
    BY <1>6 DEF EnsureLive, routing
  <2>2. CASE Reusable(session[a])
    BY <1>6, <2>1, <2>2 DEF EnsureLive, Reusable, NoSocket, Keeps
  <2>3. CASE ~Reusable(session[a])
    <3>1. wpc'[a] = "connect" /\ sock' = [sock EXCEPT ![session[a]] = {}]
      BY <1>6, <2>3, WentTo DEF EnsureLive, NoSocket
    <3>2. Replaces(a, {})
      BY <1>1, <2>1, <3>1 DEF Replaces
    <3>3. QED
      BY <3>2
  <2>4. QED
    BY <2>2, <2>3
<1>7. CASE ConnectAndPrime(a)
  <2>1. UNCHANGED session /\ wpc[a] \in Working /\ sock' = [sock EXCEPT ![session[a]] = NewSocket]
    BY <1>7 DEF ConnectAndPrime, routing, Working
  <2>2. Replaces(a, NewSocket)
    BY <1>1, <1>2, <2>1, NewRecord DEF Replaces
  <2>3. QED
    BY <2>2
<1>8. ASSUME UNCHANGED session, wpc[a] \in Working, sock' = [sock EXCEPT ![session[a]] = {}],
             wpc'[a] \notin {"send", "read"}
      PROVE  \E S : Replaces(a, S)
  <2>1. Replaces(a, {})
    BY <1>1, <1>2, <1>8 DEF Replaces
  <2>2. QED
    BY <2>1
<1>9. CASE ConnectFails(a) \/ WallClock(a)
  <2>1. UNCHANGED session /\ wpc[a] \in Working /\ Fail(a)
    BY <1>9 DEF ConnectFails, WallClock, Working
  <2>2. QED
    BY <1>8, <2>1, WentTo DEF Fail, Return, NoSocket
<1>10. CASE StaleSocket(a)
  <2>1. UNCHANGED session /\ wpc[a] \in Working /\ (Fail(a) \/ Redispatch(a))
    BY <1>10 DEF StaleSocket, is_stale_socket_error, Working
  <2>2. QED
    BY <1>8, <2>1, WentTo DEF Fail, Return, Redispatch, NoSocket
<1>11. CASE Send(a)
  <2>1. UNCHANGED session /\ wpc[a] = "send" /\ wpc[a] \in Working /\ sock[session[a]] # {}
    BY <1>11 DEF Send, routing, Working, Socketed
  <2>2. CASE ~Socket(session[a]).open
    BY <1>11, <2>1, <2>2 DEF Send, Keeps
  <2>3. CASE Socket(session[a]).open
    <3>1. Socket(session[a]) \in SocketRecord
      BY <1>1, <2>1, TheSocket
    <3>2. PICK x : x = [Socket(session[a]) EXCEPT !.owed = @ \cup {a}]
      OBVIOUS
    <3>3. x \in SocketRecord
      BY <3>1, <3>2, RecordChanged DEF SocketRecord
    <3>4. sock' = [sock EXCEPT ![session[a]] = {x}]
      BY <1>11, <2>3, <3>2 DEF Send, Live
    <3>5. Replaces(a, {x})
      BY <1>1, <1>2, <2>1, <3>3, <3>4 DEF Replaces
    <3>6. QED
      BY <3>5
  <2>4. QED
    BY <2>2, <2>3
<1>12. CASE ReadEnd(a)
  <2>1. UNCHANGED session /\ wpc[a] = "read" /\ wpc[a] \in Working /\ sock[session[a]] # {}
    BY <1>12 DEF ReadEnd, Working, Socketed
  <2>2. CASE Fail(a)
    BY <1>8, <2>1, <2>2, WentTo DEF Fail, Return, NoSocket
  <2>3. CASE ~Fail(a)
    <3>1. Socket(session[a]) \in SocketRecord
      BY <1>1, <2>1, TheSocket
    <3>2. PICK r : Live(session[a], [Socket(session[a]) EXCEPT !.owed = @ \ {r}])
                   /\ Return(a, "answered")
      BY <1>12, <2>3 DEF ReadEnd
    <3>3. PICK x : x = [Socket(session[a]) EXCEPT !.owed = @ \ {r}]
      OBVIOUS
    <3>4. x \in SocketRecord
      BY <3>1, <3>3, RecordChanged DEF SocketRecord
    <3>5. sock' = [sock EXCEPT ![session[a]] = {x}]
      BY <3>2, <3>3 DEF Live
    <3>6. Replaces(a, {x})
      BY <1>1, <1>2, <2>1, <3>4, <3>5 DEF Replaces
    <3>7. QED
      BY <3>6
  <2>4. QED
    BY <2>2, <2>3
<1>13. QED
  BY <1>3, <1>4, <1>5, <1>6, <1>7, <1>9, <1>10, <1>11, <1>12, Zenon DEF Step

LEMMA OthersSitStill ==
  ASSUME Sited, NEW a \in WarmAsk, LookUpPin(a) \/ Step(a) \/ Cancel(a)
  PROVE  /\ \A b \in WarmAsk \ {a} : session'[b] = session[b]
         /\ wpc[a] \notin {"idle", "select"} => session'[a] = session[a]
<1>1. CASE LookUpPin(a)
  BY <1>1 DEF LookUpPin, Sited
<1>2. CASE SelectCold(a)
  BY <1>2 DEF SelectCold, Sited
<1>3. CASE ~LookUpPin(a) /\ ~SelectCold(a)
  <2>1. CASE Pin(a) \/ Enter(a) \/ EnsureLive(a) \/ ConnectAndPrime(a) \/ AuthRejected(a) \/ Send(a)
             \/ ReadDelta(a) \/ Cancel(a)
    BY <2>1 DEF Pin, Enter, EnsureLive, ConnectAndPrime, AuthRejected, Send, ReadDelta, Cancel, routing
  <2>2. CASE ConnectFails(a) \/ StaleSocket(a) \/ ReadEnd(a) \/ WallClock(a)
    BY <2>2 DEF ConnectFails, StaleSocket, ReadEnd, WallClock
  <2>3. QED
    BY <1>3, <2>1, <2>2, Zenon DEF Step
<1>4. QED
  BY <1>1, <1>2, <1>3

\* A socket decays: it stays the session's one socket and owes nothing more.
LEMMA Decayed ==
  ASSUME Socketed, NEW s \in Session, Decay(s)
  PROVE  \E x \in SocketRecord : /\ sock' = [sock EXCEPT ![s] = {x}]
                                 /\ x.owed \in {{}, Socket(s).owed} /\ sock[s] = {Socket(s)}
<1>1. sock[s] # {}
  BY DEF Decay, Close, Age, NoSocket
<1>2. Socket(s) \in SocketRecord /\ sock[s] = {Socket(s)}
  BY <1>1, TheSocket
<1>3. CASE Live(s, [Socket(s) EXCEPT !.open = FALSE, !.owed = {}])
  <2>1. PICK x : x = [Socket(s) EXCEPT !.open = FALSE, !.owed = {}]
    OBVIOUS
  <2>2. x \in SocketRecord /\ x.owed = {}
    BY <1>2, <2>1, RecordChanged
  <2>3. QED
    BY <1>2, <1>3, <2>1, <2>2 DEF Live
<1>4. CASE Live(s, [Socket(s) EXCEPT !.aged = TRUE])
  <2>1. PICK x : x = [Socket(s) EXCEPT !.aged = TRUE]
    OBVIOUS
  <2>2. x \in SocketRecord /\ x.owed = Socket(s).owed
    BY <1>2, <2>1, RecordChanged
  <2>3. QED
    BY <1>2, <1>4, <2>1, <2>2 DEF Live
<1>5. QED
  BY <1>3, <1>4, Zenon DEF Decay, Close, Age

LEMMA SocketedNext ==
  ASSUME Dispatched, Sited, InLine, Socketed, [WarmNext]_warmVars
  PROVE  Socketed'
<1>1. ASSUME UNCHANGED <<sock, session, wpc>> PROVE Socketed'
  BY <1>1 DEF Socketed
<1>2. CASE UNCHANGED warmVars
  BY <1>1, <1>2 DEF warmVars
<1>3. ASSUME NEW s \in Session, Decay(s) PROVE Socketed'
  <2>1. UNCHANGED <<session, wpc>>
    BY <1>3, Zenon DEF Decay, Close, Age, routing
  <2>2. PICK x \in SocketRecord : sock' = [sock EXCEPT ![s] = {x}]
    BY <1>3, Decayed
  <2>3. /\ sock' \in [Session -> SUBSET SocketRecord]
        /\ \A t \in Session : \A y, z \in sock'[t] : y = z
        /\ sock'[s] = {x} /\ \A t \in Session \ {s} : sock'[t] = sock[t]
    <3>1. PICK S : S = {x}
      OBVIOUS
    <3>2. S \in SUBSET SocketRecord /\ (\A y, z \in S : y = z) /\ sock' = [sock EXCEPT ![s] = S]
      BY <2>2, <3>1
    <3>3. QED
      BY <3>1, <3>2, SocketReplaced, Zenon
  <2>4. \A t : sock[t] # {} => sock'[t] # {}
    BY <2>2, <2>3 DEF Socketed
  <2>5. QED
    BY <2>1, <2>3, <2>4 DEF Socketed
<1>4. ASSUME NEW a \in WarmAsk, LookUpPin(a) \/ Step(a) \/ Cancel(a) PROVE Socketed'
  <2>1. \A b \in WarmAsk \ {a} : wpc'[b] = wpc[b] /\ session'[b] = session[b]
    BY <1>4, OthersStay, OthersSitStill
  <2>2. CASE Keeps(a)
    BY <2>1, <2>2, SocketedKept
  <2>3. ASSUME NEW S, Replaces(a, S) PROVE Socketed'
    BY <2>1, <2>3, SocketedReplaced
  <2>4. QED
    BY <1>4, <2>2, <2>3, KeepsOrReplaces, Zenon
<1>5. QED
  BY <1>1, <1>2, <1>3, <1>4, Zenon DEF WarmNext

LEMMA SocketedInit == WarmInit => Socketed
BY DEF WarmInit, Socketed, NoSocket

-----------------------------------------------------------------------------
(* What sockets owe *)

LEMMA Crowds ==
  ASSUME NEW s
  PROVE  /\ IsFiniteSet(Abandoned(s)) /\ Cardinality(Abandoned(s)) \in Nat
         /\ IsFiniteSet(Reading(s)) /\ Cardinality(Reading(s)) \in Nat
<1>1. IsFiniteSet(WarmAsk) /\ Abandoned(s) \in SUBSET WarmAsk /\ Reading(s) \in SUBSET WarmAsk
  BY WarmAssumption DEF Abandoned, Reading
<1>2. IsFiniteSet(Abandoned(s)) /\ IsFiniteSet(Reading(s))
  BY <1>1, FS_Subset
<1>3. QED
  BY <1>2, FS_CardinalityType

LEMMA OwedIsFinite ==
  ASSUME NEW o \in SUBSET WarmAsk PROVE IsFiniteSet(o) /\ Cardinality(o) \in Nat
<1>1. IsFiniteSet(o)
  BY WarmAssumption, FS_Subset
<1>2. QED
  BY <1>1, FS_CardinalityType

\* How a step of ask a changes who has left a session and who is reading there.
CrowdsMoved(a) ==
  \A s \in Session :
    /\ Abandoned(s)' = IF wpc'[a] = "gone" /\ session'[a] = s
                       THEN Abandoned(s) \cup {a} ELSE Abandoned(s)
    /\ Reading(s)' = IF wpc'[a] = "read" /\ session'[a] = s
                     THEN Reading(s) \cup {a} ELSE Reading(s) \ {a}

LEMMA CrowdsMove ==
  ASSUME Dispatched, Sited, NEW a \in WarmAsk, LookUpPin(a) \/ Step(a) \/ Cancel(a)
  PROVE  wpc[a] # "gone" /\ CrowdsMoved(a)
<1>1. \A b \in WarmAsk \ {a} : wpc'[b] = wpc[b] /\ session'[b] = session[b]
  BY OthersStay, OthersSitStill
<1>2. wpc[a] # "gone"
  <2>1. CASE LookUpPin(a) \/ SelectCold(a) \/ Pin(a) \/ Enter(a) \/ EnsureLive(a)
             \/ ConnectAndPrime(a) \/ AuthRejected(a)
    BY <2>1 DEF LookUpPin, SelectCold, Pin, Enter, EnsureLive, ConnectAndPrime, AuthRejected
  <2>2. CASE Send(a) \/ ReadDelta(a) \/ ConnectFails(a) \/ StaleSocket(a) \/ ReadEnd(a) \/ WallClock(a)
    BY <2>2 DEF Send, ReadDelta, ConnectFails, StaleSocket, is_stale_socket_error, ReadEnd, WallClock
  <2>3. CASE Cancel(a)
    BY <2>3 DEF Cancel, Routed, Inside
  <2>4. QED
    BY <2>1, <2>2, <2>3, Zenon DEF Step
<1>3. ASSUME NEW s \in Session
      PROVE  Abandoned(s)' = IF wpc'[a] = "gone" /\ session'[a] = s
                             THEN Abandoned(s) \cup {a} ELSE Abandoned(s)
  BY <1>1, <1>2 DEF Abandoned
<1>4. ASSUME NEW s \in Session
      PROVE  Reading(s)' = IF wpc'[a] = "read" /\ session'[a] = s
                           THEN Reading(s) \cup {a} ELSE Reading(s) \ {a}
  BY <1>1 DEF Reading
<1>5. QED
  BY <1>2, <1>3, <1>4, Zenon DEF CrowdsMoved

\* Nobody else reads at the session of an ask that holds its mutex.
LEMMA ReadsAlone ==
  ASSUME InLine, NEW a \in WarmAsk, Head(queue[session[a]]) = a
  PROVE  Reading(session[a]) \subseteq {a}
BY DEF InLine, Reading, Working

LEMMA OwesElsewhere ==
  ASSUME NEW a \in WarmAsk, NEW s \in Session, CrowdsMoved(a), Owes(s), sock'[s] = sock[s],
         a \notin Reading(s), ~(wpc'[a] \in {"gone", "read"} /\ session'[a] = s)
  PROVE  Owes(s)'
<1>1. Abandoned(s)' = Abandoned(s) /\ Reading(s)' = Reading(s)
  BY DEF CrowdsMoved
<1>2. QED
  BY <1>1 DEF Owes

LEMMA OwesNothing ==
  ASSUME NEW s \in Session, \A x \in sock'[s] : x.owed = {}
  PROVE  Owes(s)'
<1>1. PICK A, R : A = Abandoned(s)' /\ R = Reading(s)'
  OBVIOUS
<1>2. A \in SUBSET WarmAsk /\ R \in SUBSET WarmAsk
  BY <1>1 DEF Abandoned, Reading
<1>3. Cardinality(A) \in Nat /\ Cardinality(R) \in Nat
  BY <1>2, OwedIsFinite
<1>4. Cardinality({}) = 0
  BY FS_EmptySet
<1>5. \A x \in sock'[s] : Cardinality(x.owed) <= Cardinality(A) + Cardinality(R) /\ x.owed \subseteq R
  <2>1. ASSUME NEW x \in sock'[s] PROVE Cardinality(x.owed) = 0 /\ x.owed \subseteq R
    BY <1>4, <2>1
  <2>2. QED
    BY <1>3, <2>1
<1>6. QED
  BY <1>1, <1>5 DEF Owes

\* A caller goes away: if its response was being read it is now abandoned.
LEMMA OwesAbandoned ==
  ASSUME NEW a \in WarmAsk, NEW s \in Session, CrowdsMoved(a), Owes(s), Socketed,
         sock'[s] = sock[s], wpc[a] # "gone", wpc'[a] = "gone", session'[a] = s
  PROVE  Owes(s)'
<1>1. Abandoned(s)' = Abandoned(s) \cup {a} /\ Reading(s)' = Reading(s) \ {a}
  BY DEF CrowdsMoved
<1>2. a \notin Abandoned(s)
  BY DEF Abandoned
<1>3. Cardinality(Abandoned(s) \cup {a}) = Cardinality(Abandoned(s)) + 1
  BY <1>2, Crowds, FS_AddElement
<1>4. Cardinality(Reading(s) \ {a}) \in Nat /\ Cardinality(Reading(s) \ {a}) >= Cardinality(Reading(s)) - 1
  <2>1. CASE a \in Reading(s)
    <3>1. Cardinality(Reading(s) \ {a}) = Cardinality(Reading(s)) - 1
      BY <2>1, Crowds, FS_RemoveElement
    <3>2. Reading(s) \ {a} \in SUBSET WarmAsk
      BY DEF Reading
    <3>3. QED
      BY <3>1, <3>2, Crowds, OwedIsFinite
  <2>2. CASE a \notin Reading(s)
    <3>1. Reading(s) \ {a} = Reading(s)
      BY <2>2
    <3>2. QED
      BY <3>1, Crowds
  <2>3. QED
    BY <2>1, <2>2
<1>5. ASSUME NEW x \in sock'[s]
      PROVE  Cardinality(x.owed) <= Cardinality(Abandoned(s)') + Cardinality(Reading(s)')
  <2>1. x \in sock[s] /\ x.owed \in SUBSET WarmAsk
    BY <1>5 DEF Socketed, SocketRecord
  <2>2. Cardinality(x.owed) \in Nat
    BY <2>1, OwedIsFinite
  <2>3. Cardinality(x.owed) <= Cardinality(Abandoned(s)) + Cardinality(Reading(s))
    BY <2>1 DEF Owes
  <2>4. QED
    BY <1>1, <1>3, <1>4, <2>2, <2>3, Crowds
<1>6. QED
  BY <1>1, <1>5 DEF Owes

\* The ask goes on to read, whether or not its frame was taken.
LEMMA OwesSent ==
  ASSUME NEW a \in WarmAsk, NEW s \in Session, CrowdsMoved(a), Owes(s), Socketed, InLine,
         wpc[a] = "send", wpc'[a] = "read", session[a] = s, session'[a] = s,
         NEW x, x \in sock[s], NEW y, sock'[s] = {y}, y.owed \subseteq x.owed \cup {a}
  PROVE  Owes(s)'
<1>1. Abandoned(s)' = Abandoned(s) /\ Reading(s)' = Reading(s) \cup {a}
  BY DEF CrowdsMoved
<1>2. a \notin Reading(s)
  BY DEF Reading
<1>3. Cardinality(Reading(s) \cup {a}) = Cardinality(Reading(s)) + 1
  BY <1>2, Crowds, FS_AddElement
<1>4. PICK o : o = x.owed
  OBVIOUS
<1>5. o \in SUBSET WarmAsk
  BY <1>4 DEF Socketed, SocketRecord
<1>6. PICK p : p = y.owed
  OBVIOUS
<1>7. p \in SUBSET WarmAsk /\ p \subseteq o \cup {a}
  BY <1>4, <1>5, <1>6
<1>8. Cardinality(p) <= Cardinality(o) + 1
  <2>1. IsFiniteSet(o) /\ Cardinality(o) \in Nat /\ Cardinality(p) \in Nat /\ o \cup {a} \in SUBSET WarmAsk
    BY <1>5, <1>7, OwedIsFinite
  <2>2. IsFiniteSet(o \cup {a}) /\ Cardinality(o \cup {a}) \in Nat
    BY <2>1, OwedIsFinite
  <2>3. Cardinality(p) <= Cardinality(o \cup {a})
    BY <1>7, <2>2, FS_Subset
  <2>4. Cardinality(o \cup {a}) <= Cardinality(o) + 1
    <3>1. CASE a \in o
      <4>1. o \cup {a} = o
        BY <3>1
      <4>2. Cardinality(o \cup {a}) = Cardinality(o)
        BY <4>1
      <4>3. QED
        BY <2>1, <4>2
    <3>2. CASE a \notin o
      <4>1. Cardinality(o \cup {a}) = Cardinality(o) + 1
        BY <2>1, <3>2, FS_AddElement
      <4>2. QED
        BY <2>1, <4>1
    <3>3. QED
      BY <3>1, <3>2
  <2>5. QED
    BY <2>1, <2>2, <2>3, <2>4
<1>9. Cardinality(o) <= Cardinality(Abandoned(s)) + Cardinality(Reading(s))
      /\ (Abandoned(s) = {} => o \subseteq Reading(s))
  BY <1>4 DEF Owes
<1>10. Cardinality(p) <= Cardinality(Abandoned(s)') + Cardinality(Reading(s)')
  <2>1. Cardinality(o) \in Nat /\ Cardinality(p) \in Nat
    BY <1>5, <1>7, OwedIsFinite
  <2>2. QED
    BY <1>1, <1>3, <1>8, <1>9, <2>1, Crowds
<1>11. Abandoned(s)' = {} => p \subseteq Reading(s)'
  BY <1>1, <1>7, <1>9
<1>12. QED
  BY <1>6, <1>10, <1>11 DEF Owes

\* The reader takes one response off its socket and stops reading.
LEMMA OwesAnswered ==
  ASSUME NEW a \in WarmAsk, NEW s \in Session, CrowdsMoved(a), Owes(s), Socketed, InLine,
         wpc[a] = "read", wpc'[a] = "answered", session[a] = s,
         NEW x, x \in sock[s], NEW r \in x.owed, NEW y, sock'[s] = {y}, y.owed = x.owed \ {r}
  PROVE  Owes(s)'
<1>1. Abandoned(s)' = Abandoned(s) /\ Reading(s)' = Reading(s) \ {a}
  BY DEF CrowdsMoved
<1>2. a \in Reading(s) /\ Reading(s) \subseteq {a}
  BY ReadsAlone DEF Reading, InLine, Working
<1>3. Cardinality(Reading(s) \ {a}) = Cardinality(Reading(s)) - 1
  BY <1>2, Crowds, FS_RemoveElement
<1>4. PICK o : o = x.owed
  OBVIOUS
<1>5. o \in SUBSET WarmAsk /\ r \in o
  BY <1>4 DEF Socketed, SocketRecord
<1>6. Cardinality(o \ {r}) = Cardinality(o) - 1 /\ Cardinality(o) \in Nat
  BY <1>5, OwedIsFinite, FS_RemoveElement
<1>7. Cardinality(o) <= Cardinality(Abandoned(s)) + Cardinality(Reading(s))
      /\ (Abandoned(s) = {} => o \subseteq Reading(s))
  BY <1>4 DEF Owes
<1>8. Cardinality(o \ {r}) <= Cardinality(Abandoned(s)') + Cardinality(Reading(s)')
  BY <1>1, <1>3, <1>6, <1>7, Crowds
<1>9. Abandoned(s)' = {} => o \ {r} \subseteq Reading(s)'
  BY <1>1, <1>2, <1>5, <1>7
<1>10. QED
  BY <1>4, <1>8, <1>9 DEF Owes

\* The session an ask acts on.
LEMMA OwesHere ==
  ASSUME Dispatched, Sited, InLine, Socketed, NEW a \in WarmAsk,
         LookUpPin(a) \/ Step(a) \/ Cancel(a),
         wpc[a] \in Inside, NEW s \in Session, session[a] = s, Owes(s)
  PROVE  Owes(s)'
<1>1. session[a] = s
  OBVIOUS
<1>2. wpc[a] # "gone" /\ CrowdsMoved(a)
  BY CrowdsMove
<1>3. session'[a] = s
  BY <1>1, OthersSitStill DEF Inside
<1>4. sock \in [Session -> SUBSET SocketRecord] /\ Owes(s)
  BY <1>1 DEF Socketed
<1>5. ASSUME sock'[s] = sock[s], wpc[a] # "read", wpc'[a] \notin {"gone", "read"} PROVE Owes(s)'
  <2>1. a \notin Reading(s)
    BY <1>5 DEF Reading
  <2>2. QED
    BY <1>2, <1>4, <1>5, <2>1, OwesElsewhere
<1>6. ASSUME sock' = [sock EXCEPT ![s] = {}] PROVE Owes(s)'
  <2>1. sock'[s] = {}
    BY <1>4, <1>6
  <2>2. QED
    BY <2>1, OwesNothing
<1>7. CASE EnsureLive(a)
  <2>1. wpc[a] = "queued" /\ wpc'[a] \in {"send", "connect"}
    BY <1>7, WentTo DEF EnsureLive
  <2>2. sock' = sock \/ sock' = [sock EXCEPT ![s] = {}]
    BY <1>1, <1>7 DEF EnsureLive, NoSocket
  <2>3. QED
    BY <1>5, <1>6, <2>1, <2>2
<1>8. CASE AuthRejected(a)
  <2>1. wpc[a] = "connect" /\ wpc'[a] = "reconnect" /\ sock' = sock
    BY <1>8, WentTo DEF AuthRejected
  <2>2. QED
    BY <1>5, <2>1
<1>9. CASE ConnectAndPrime(a)
  <2>1. sock'[s] = NewSocket
    BY <1>1, <1>4, <1>9 DEF ConnectAndPrime
  <2>2. QED
    BY <2>1, NewRecord, OwesNothing
<1>10. ASSUME Fail(a) PROVE Owes(s)'
  BY <1>1, <1>6, <1>10 DEF Fail, NoSocket
<1>11. CASE ConnectFails(a) \/ WallClock(a)
  BY <1>10, <1>11 DEF ConnectFails, WallClock
<1>12. CASE StaleSocket(a)
  BY <1>1, <1>6, <1>10, <1>12 DEF StaleSocket, Redispatch, NoSocket
<1>13. ASSUME wpc[a] \in {"send", "read"}
       PROVE  sock[s] = {Socket(s)} /\ Socket(s) \in SocketRecord /\ Socket(s) \in sock[s]
  <2>1. sock[s] # {}
    BY <1>1, <1>13 DEF Socketed
  <2>2. QED
    BY <2>1, TheSocket
<1>14. CASE Send(a)
  <2>1. wpc[a] = "send" /\ wpc'[a] = "read"
    BY <1>14, WentTo DEF Send
  <2>2. sock[s] = {Socket(s)} /\ Socket(s) \in SocketRecord /\ Socket(s) \in sock[s]
    BY <1>13, <2>1
  <2>3. PICK x : x = Socket(s)
    OBVIOUS
  <2>4. CASE x.open
    <3>1. PICK o : o = x.owed \cup {a}
      OBVIOUS
    <3>2. o \in SUBSET WarmAsk /\ x \in SocketRecord
      BY <2>2, <2>3, <3>1 DEF SocketRecord
    <3>3. PICK y : y = [x EXCEPT !.owed = o]
      OBVIOUS
    <3>4. y.owed = x.owed \cup {a}
      BY <3>1, <3>2, <3>3, RecordChanged
    <3>5. sock' = [sock EXCEPT ![s] = {y}]
      BY <1>1, <1>14, <2>3, <2>4, <3>1, <3>3 DEF Send, Live
    <3>6. sock'[s] = {y} /\ y.owed \subseteq x.owed \cup {a} /\ x \in sock[s]
      BY <1>4, <2>2, <2>3, <3>4, <3>5
    <3>7. QED
      BY <1>1, <1>2, <1>3, <1>4, <2>1, <3>6, OwesSent
  <2>5. CASE ~x.open
    <3>1. sock'[s] = {x} /\ x \in sock[s] /\ x.owed \subseteq x.owed \cup {a}
      BY <1>1, <1>14, <2>2, <2>3, <2>5 DEF Send
    <3>2. QED
      BY <1>1, <1>2, <1>3, <1>4, <2>1, <3>1, OwesSent
  <2>6. QED
    BY <2>4, <2>5
<1>15. CASE ReadDelta(a)
  <2>1. wpc[a] = "read" /\ UNCHANGED <<wpc, session, sock>>
    BY <1>15 DEF ReadDelta, routing
  <2>2. Abandoned(s)' = Abandoned(s) /\ Reading(s)' = Reading(s)
    BY <2>1 DEF Abandoned, Reading
  <2>3. QED
    BY <1>4, <2>1, <2>2 DEF Owes
<1>16. CASE ReadEnd(a)
  <2>1. wpc[a] = "read"
    BY <1>16 DEF ReadEnd
  <2>2. sock[s] = {Socket(s)} /\ Socket(s) \in SocketRecord /\ Socket(s) \in sock[s]
    BY <1>13, <2>1
  <2>3. CASE ~Fail(a)
    <3>1. PICK r \in Socket(s).owed :
            Return(a, "answered") /\ Live(s, [Socket(s) EXCEPT !.owed = @ \ {r}])
      BY <1>1, <1>16, <2>3 DEF ReadEnd
    <3>2. PICK x : x = Socket(s)
      OBVIOUS
    <3>3. PICK o : o = x.owed \ {r}
      OBVIOUS
    <3>4. o \in SUBSET WarmAsk /\ x \in SocketRecord /\ r \in x.owed /\ x \in sock[s]
      BY <2>2, <3>2, <3>3 DEF SocketRecord
    <3>5. PICK y : y = [x EXCEPT !.owed = o]
      OBVIOUS
    <3>6. y.owed = x.owed \ {r} /\ sock'[s] = {y}
      <4>1. y.owed = x.owed \ {r}
        BY <3>3, <3>4, <3>5, RecordChanged
      <4>2. sock'[s] = {y}
        BY <1>4, <3>1, <3>2, <3>3, <3>5 DEF Live
      <4>3. QED
        BY <4>1, <4>2
    <3>7. wpc'[a] = "answered"
      BY <3>1, WentTo DEF Return
    <3>8. QED
      BY <1>1, <1>2, <1>4, <2>1, <3>4, <3>6, <3>7, OwesAnswered
  <2>4. QED
    BY <1>10, <2>3
<1>17. CASE Cancel(a)
  <2>1. Goto(a, "gone") /\ sock' = sock
    BY <1>17 DEF Cancel
  <2>2. wpc'[a] = "gone"
    BY <2>1, WentTo
  <2>3. QED
    BY <1>2, <1>3, <1>4, <2>1, <2>2, OwesAbandoned
<1>18. ~LookUpPin(a) /\ ~SelectCold(a) /\ ~Pin(a) /\ ~Enter(a)
  BY DEF LookUpPin, SelectCold, Pin, Enter, Inside
<1>19. QED
  BY <1>7, <1>8, <1>9, <1>11, <1>12, <1>14, <1>15, <1>16, <1>17, <1>18, Zenon DEF Step

\* The other sessions, and those of asks that are outside.
LEMMA OwesThere ==
  ASSUME Dispatched, Sited, InLine, Socketed, NEW a \in WarmAsk,
         LookUpPin(a) \/ Step(a) \/ Cancel(a),
         NEW s \in Session, wpc[a] \notin Inside \/ session[a] # s, Owes(s)
  PROVE  Owes(s)'
<1>1. wpc[a] # "gone" /\ CrowdsMoved(a)
  BY CrowdsMove
<1>2. CASE wpc[a] \notin Inside
  <2>1. UNCHANGED sock /\ wpc'[a] \notin {"gone", "read"}
    <3>1. CASE LookUpPin(a) \/ SelectCold(a) \/ Pin(a) \/ Enter(a)
      BY <3>1, WentTo DEF LookUpPin, SelectCold, Pin, Enter
    <3>2. CASE Cancel(a)
      <4>1. UNCHANGED sock /\ Goto(a, "left")
        BY <1>2, <3>2 DEF Cancel
      <4>2. QED
        BY <4>1, WentTo
    <3>3. ~EnsureLive(a) /\ ~ConnectAndPrime(a) /\ ~AuthRejected(a) /\ ~ConnectFails(a) /\ ~Send(a)
          /\ ~StaleSocket(a) /\ ~ReadDelta(a) /\ ~ReadEnd(a) /\ ~WallClock(a)
      BY <1>2 DEF EnsureLive, ConnectAndPrime, AuthRejected, ConnectFails, Send, StaleSocket,
                  is_stale_socket_error, ReadDelta, ReadEnd, WallClock, Inside
    <3>4. QED
      BY <3>1, <3>2, <3>3, Zenon DEF Step
  <2>2. a \notin Reading(s)
    BY <1>2 DEF Reading, Inside
  <2>3. QED
    BY <1>1, <2>1, <2>2, OwesElsewhere
<1>3. CASE wpc[a] \in Inside /\ session[a] # s
  <2>1. session'[a] # s
    BY <1>3, OthersSitStill DEF Inside
  <2>2. sock'[s] = sock[s]
    <3>1. CASE Keeps(a)
      BY <3>1 DEF Keeps
    <3>2. ASSUME NEW S, Replaces(a, S) PROVE sock'[s] = sock[s]
      <4>1. sock' = [sock EXCEPT ![session[a]] = S]
        BY <3>2, Zenon DEF Replaces
      <4>2. QED
        BY <1>3, <4>1 DEF Socketed
    <3>3. QED
      BY <3>1, <3>2, KeepsOrReplaces, Zenon
  <2>3. a \notin Reading(s)
    BY <1>3 DEF Reading
  <2>4. QED
    BY <1>1, <2>1, <2>2, <2>3, OwesElsewhere
<1>4. QED
  BY <1>2, <1>3

-----------------------------------------------------------------------------
(* What asks hear *)

\* What an ask has heard after a step of its own: no more, or one response of
\* those its socket owed while it was reading.
LEMMA Heard ==
  ASSUME Unread, NEW a \in WarmAsk, LookUpPin(a) \/ Step(a) \/ Cancel(a)
  PROVE  /\ \A b \in WarmAsk \ {a} : heard'[b] = heard[b]
         /\ \/ heard'[a] = heard[a] \/ heard'[a] = {}
            \/ wpc[a] = "read" /\ \E r \in Socket(session[a]).owed : heard'[a] = heard[a] \cup {r}
         /\ heard' = [b \in WarmAsk |-> heard'[b]]
<1>1. heard \in [WarmAsk -> SUBSET WarmAsk]
  BY DEF Unread
<1>2. CASE LookUpPin(a) \/ SelectCold(a) \/ Pin(a) \/ Enter(a) \/ EnsureLive(a)
           \/ ConnectAndPrime(a) \/ AuthRejected(a)
  BY <1>1, <1>2 DEF LookUpPin, SelectCold, Pin, Enter, EnsureLive, ConnectAndPrime, AuthRejected
<1>3. CASE Send(a) \/ ConnectFails(a) \/ WallClock(a) \/ Cancel(a)
  BY <1>1, <1>3 DEF Send, ConnectFails, WallClock, Cancel
<1>4. CASE StaleSocket(a)
  BY <1>1, <1>4 DEF StaleSocket, Redispatch
<1>5. CASE ReadDelta(a) \/ ReadEnd(a)
  <2>1. PICK r \in Socket(session[a]).owed : heard' = [heard EXCEPT ![a] = @ \cup {r}]
    BY <1>5 DEF ReadDelta, ReadEnd
  <2>2. wpc[a] = "read"
    BY <1>5 DEF ReadDelta, ReadEnd
  <2>3. QED
    BY <1>1, <2>1, <2>2
<1>6. QED
  BY <1>2, <1>3, <1>4, <1>5, Zenon DEF Step

\* An ask that is outside stays outside or queues, and has heard nothing.
LEMMA QuietOutside ==
  ASSUME Dispatched, NEW a \in WarmAsk, LookUpPin(a) \/ Step(a) \/ Cancel(a),
         wpc'[a] \notin Inside \cup {"answered", "failed", "gone"}
  PROVE  wpc[a] \notin Inside \cup {"answered", "failed", "gone"}
<1>1. CASE LookUpPin(a) \/ SelectCold(a) \/ Pin(a)
  BY <1>1 DEF LookUpPin, SelectCold, Pin, Inside
<1>2. CASE Enter(a) \/ EnsureLive(a) \/ ConnectAndPrime(a) \/ AuthRejected(a) \/ Send(a)
  BY <1>2, WentTo DEF Enter, EnsureLive, ConnectAndPrime, AuthRejected, Send, Inside
<1>3. CASE ReadDelta(a)
  BY <1>3 DEF ReadDelta, Inside
<1>4. CASE ConnectFails(a) \/ StaleSocket(a) \/ ReadEnd(a) \/ WallClock(a)
  BY <1>4, WentTo DEF ConnectFails, StaleSocket, Redispatch, ReadEnd, WallClock, Fail, Return, Inside
<1>5. CASE Cancel(a)
  <2>1. wpc[a] \in Routed \cup Inside /\ Goto(a, IF wpc[a] \in Inside THEN "gone" ELSE "left")
    BY <1>5 DEF Cancel
  <2>2. wpc'[a] = IF wpc[a] \in Inside THEN "gone" ELSE "left"
    BY <2>1, WentTo
  <2>3. QED
    BY <2>1, <2>2 DEF Routed, Inside
<1>6. QED
  BY <1>1, <1>2, <1>3, <1>4, <1>5, Zenon DEF Step

LEMMA HearsStep ==
  ASSUME Dispatched, Sited, InLine, Socketed, Unread, NEW a \in WarmAsk,
         LookUpPin(a) \/ Step(a) \/ Cancel(a)
  PROVE  heard' \in [WarmAsk -> SUBSET WarmAsk] /\ \A b \in WarmAsk : Hears(b)'
<1>1. heard \in [WarmAsk -> SUBSET WarmAsk] /\ session \in [WarmAsk -> 0..PerModel]
  BY DEF Unread, Sited
<1>2. ASSUME NEW r, wpc[a] = "read", r \in Socket(session[a]).owed
      PROVE  r \in WarmAsk /\ (Abandoned(session[a]) = {} => r = a)
  <2>1. PICK s \in Session : s = session[a]
    BY <1>2 DEF Sited, Bound, Inside
  <2>2. Socket(s) \in SocketRecord /\ Socket(s) \in sock[s]
    <3>1. sock[s] # {}
      BY <1>2, <2>1 DEF Socketed
    <3>2. QED
      BY <3>1, TheSocket
  <2>3. Owes(s) /\ Reading(s) \subseteq {a}
    BY <1>2, <2>1, ReadsAlone DEF Unread, InLine, Working
  <2>4. Abandoned(s) = {} => Socket(s).owed \subseteq {a}
    BY <2>2, <2>3 DEF Owes
  <2>5. QED
    BY <1>2, <2>1, <2>2, <2>4 DEF SocketRecord
<1>3. heard'[a] \subseteq {a} \cup WarmAsk
      /\ (heard'[a] \subseteq {a} \/ heard'[a] \subseteq heard[a] \/ Abandoned(session[a]) # {})
  <2>1. CASE heard'[a] = heard[a] \/ heard'[a] = {}
    BY <1>1, <2>1
  <2>2. CASE wpc[a] = "read" /\ \E r \in Socket(session[a]).owed : heard'[a] = heard[a] \cup {r}
    <3>1. PICK r \in Socket(session[a]).owed : heard'[a] = heard[a] \cup {r}
      BY <2>2
    <3>2. r \in WarmAsk /\ (Abandoned(session[a]) = {} => r = a)
      BY <1>2, <2>2
    <3>3. heard[a] \subseteq {a} \/ Abandoned(session[a]) # {}
      BY DEF Unread, Hears
    <3>4. QED
      BY <1>1, <3>1, <3>2, <3>3
  <2>3. QED
    BY <2>1, <2>2, Heard, Zenon
<1>4. Hears(a)'
  <2>1. CASE wpc[a] \in {"idle", "select"}
    <3>1. heard[a] = {} /\ (heard'[a] = heard[a] \/ heard'[a] = {})
      BY <2>1, Heard DEF Unread, Hears, Inside
    <3>2. QED
      BY <3>1 DEF Hears
  <2>2. CASE wpc[a] \notin {"idle", "select"}
    <3>1. session'[a] = session[a]
      BY <2>2, OthersSitStill
    <3>2. heard[a] \subseteq {a} \/ Abandoned(session[a]) # {}
      BY DEF Unread, Hears
    <3>3. heard'[a] \subseteq {a} \/ Abandoned(session[a]) # {}
      BY <1>3, <3>2
    <3>4. heard'[a] \subseteq {a} \/ Abandoned(session[a])' # {}
      <4>1. CASE heard'[a] \subseteq {a}
        BY <4>1
      <4>2. CASE Abandoned(session[a]) # {}
        <5>1. \E b \in WarmAsk : wpc[b] = "gone" /\ session[b] = session[a]
          BY <4>2 DEF Abandoned
        <5>2. \A b \in WarmAsk : wpc[b] = "gone" => wpc'[b] = "gone" /\ session'[b] = session[b]
          BY CrowdsMove, OthersStay, OthersSitStill
        <5>3. QED
          BY <3>1, <5>1, <5>2 DEF Abandoned
      <4>3. QED
        BY <3>3, <4>1, <4>2
    <3>5. wpc'[a] \notin Inside \cup {"answered", "failed", "gone"} => heard'[a] = {}
      <4>1. SUFFICES ASSUME wpc'[a] \notin Inside \cup {"answered", "failed", "gone"}
                     PROVE  heard'[a] = {}
        OBVIOUS
      <4>2. wpc[a] \notin Inside \cup {"answered", "failed", "gone"} /\ wpc[a] # "read"
        BY <4>1, QuietOutside DEF Inside
      <4>3. heard[a] = {}
        BY <4>2 DEF Unread, Hears
      <4>4. QED
        BY <4>2, <4>3, Heard
    <3>6. QED
      BY <3>4, <3>5 DEF Hears
  <2>3. QED
    BY <2>1, <2>2
<1>5. ASSUME NEW b \in WarmAsk, b # a PROVE Hears(b)'
  <2>1. wpc'[b] = wpc[b] /\ session'[b] = session[b] /\ heard'[b] = heard[b]
    BY <1>5, OthersStay, OthersSitStill, Heard
  <2>2. Hears(b)
    BY DEF Unread
  <2>3. Abandoned(session[b]) # {} => Abandoned(session[b])' # {}
    <3>1. \A c \in WarmAsk : wpc[c] = "gone" => wpc'[c] = "gone" /\ session'[c] = session[c]
      BY CrowdsMove, OthersStay, OthersSitStill
    <3>2. QED
      BY <2>1, <3>1 DEF Abandoned
  <2>4. QED
    BY <2>1, <2>2, <2>3 DEF Hears
<1>6. heard' \in [WarmAsk -> SUBSET WarmAsk]
  BY <1>1, <1>3, Heard
<1>7. QED
  BY <1>4, <1>5, <1>6

LEMMA UnreadKept ==
  ASSUME Dispatched, Sited, InLine, Socketed, Unread, [WarmNext]_warmVars
  PROVE  Unread'
<1>1. CASE UNCHANGED warmVars
  <2>1. UNCHANGED <<session, wpc, heard, sock>>
    BY <1>1 DEF warmVars
  <2>2. \A t : Abandoned(t)' = Abandoned(t) /\ Reading(t)' = Reading(t)
    BY <2>1 DEF Abandoned, Reading
  <2>3. \A t \in Session : Owes(t)'
    BY <2>1, <2>2 DEF Unread, Owes
  <2>4. \A a \in WarmAsk : Hears(a)'
    <3>1. \A a \in WarmAsk : Abandoned(session[a])' = Abandoned(session[a])
      BY <2>1 DEF Abandoned
    <3>2. QED
      BY <2>1, <3>1 DEF Unread, Hears
  <2>5. QED
    BY <2>1, <2>3, <2>4 DEF Unread
<1>2. ASSUME NEW s \in Session, Decay(s) PROVE Unread'
  <2>1. UNCHANGED <<session, wpc, heard>>
    BY <1>2, Zenon DEF Decay, Close, Age, routing
  <2>2. \A t : Abandoned(t)' = Abandoned(t) /\ Reading(t)' = Reading(t)
    BY <2>1 DEF Abandoned, Reading
  <2>3. PICK x \in SocketRecord : /\ sock' = [sock EXCEPT ![s] = {x}]
                                  /\ x.owed \in {{}, Socket(s).owed} /\ sock[s] = {Socket(s)}
    BY <1>2, Decayed
  <2>4. ASSUME NEW t \in Session PROVE Owes(t)'
    <3>1. CASE t # s
      <4>1. sock'[t] = sock[t]
        BY <2>3, <3>1 DEF Socketed
      <4>2. QED
        BY <2>2, <4>1 DEF Unread, Owes
    <3>2. CASE t = s /\ x.owed = {}
      <4>1. sock'[s] = {x}
        BY <2>3 DEF Socketed
      <4>2. QED
        BY <3>2, <4>1, OwesNothing
    <3>3. CASE t = s /\ x.owed = Socket(s).owed
      <4>1. sock'[s] = {x} /\ Socket(s) \in sock[s]
        BY <2>3 DEF Socketed
      <4>2. QED
        BY <2>2, <3>3, <4>1 DEF Unread, Owes
    <3>4. QED
      BY <2>3, <3>1, <3>2, <3>3
  <2>5. QED
    BY <2>1, <2>2, <2>4 DEF Unread, Hears
<1>3. ASSUME NEW a \in WarmAsk, LookUpPin(a) \/ Step(a) \/ Cancel(a) PROVE Unread'
  <2>1. ASSUME NEW s \in Session PROVE Owes(s)'
    BY <1>3, OwesHere, OwesThere DEF Unread
  <2>2. heard' \in [WarmAsk -> SUBSET WarmAsk] /\ \A b \in WarmAsk : Hears(b)'
    BY <1>3, HearsStep
  <2>3. QED
    BY <2>1, <2>2 DEF Unread
<1>4. QED
  BY <1>1, <1>2, <1>3, Zenon DEF WarmNext

LEMMA UnreadInit == WarmInit => Unread
BY DEF WarmInit, Unread, Owes, Hears, NoSocket

Separate == Accounted /\ Dispatched /\ Sited /\ InLine /\ Socketed /\ Unread

LEMMA SeparateHolds == WarmSpec => []Separate
<1>1. WarmInit => Separate
  BY LoadInit, DispatchedInit, SitedInit, InLineInit, SocketedInit, UnreadInit DEF Separate
<1>2. Separate /\ [WarmNext]_warmVars => Separate'
  BY LoadKept, DispatchedKept, SitedKept, InLineKept, SocketedNext, UnreadKept DEF Separate
<1>3. QED
  BY <1>1, <1>2, PTL DEF WarmSpec

\* Of all the ways an ask may end - timeouts, provider errors, sockets that
\* die, redispatches - only a caller that goes away leaves a response unread on
\* a socket that another ask will read (ask_structured, ask_text, ask_tools
\* and the Fail paths of warm.rs), however asks share sessions.
THEOREM OnlyCancelCrosses == WarmSpec => []CrossTalkNeedsCancel
<1>1. Separate => CrossTalkNeedsCancel
  BY DEF Separate, Unread, Owes, Hears, CrossTalkNeedsCancel
<1>2. QED
  BY <1>1, SeparateHolds, PTL

-----------------------------------------------------------------------------
(* Asks that are sent again *)

\* The asks that have been sent twice or are about to be, and the sessions whose
\* socket the provider has closed without anybody having noticed: each closing
\* pays for one of them at most.
Again == {a \in WarmAsk : \/ runs[a] = 2
                          \/ runs[a] = 1 /\ wpc[a] \in {"connect", "reconnect", "send"}}
Dead == {s \in Session : \E x \in sock[s] : ~x.open}

Repeats == closings \in Nat /\ Cardinality(Again) + Cardinality(Dead) <= closings

LEMMA SessionFinite == IsFiniteSet(Session)
<1>1. 1 \in Int /\ PerModel \in Int
  BY WarmAssumption
<1>2. IsFiniteSet(1..PerModel)
  BY <1>1, FS_Interval, Zenon
<1>3. QED
  BY <1>2 DEF Session

LEMMA FewerOf ==
  ASSUME NEW U, IsFiniteSet(U), NEW S \in SUBSET U, NEW T \in SUBSET S
  PROVE  Cardinality(S) \in Nat /\ Cardinality(T) \in Nat /\ Cardinality(T) <= Cardinality(S)
<1>1. IsFiniteSet(S)
  BY FS_Subset, Zenon
<1>2. IsFiniteSet(T) /\ Cardinality(T) <= Cardinality(S)
  BY <1>1, FS_Subset, Zenon
<1>3. QED
  BY <1>1, <1>2, FS_CardinalityType, Zenon

\* A step after which no ask more is to be sent again and no socket more is dead.
LEMMA RepeatsFewer ==
  ASSUME Repeats, Again' \in SUBSET Again, Dead' \in SUBSET Dead, UNCHANGED closings
  PROVE  Repeats'
<1>1. /\ IsFiniteSet(WarmAsk) /\ Again \in SUBSET WarmAsk
      /\ IsFiniteSet(Session) /\ Dead \in SUBSET Session
  BY WarmAssumption, SessionFinite DEF Again, Dead
<1>2. /\ Cardinality(Again) \in Nat /\ Cardinality(Again') \in Nat
      /\ Cardinality(Again') <= Cardinality(Again)
  BY <1>1, FewerOf, Zenon
<1>3. /\ Cardinality(Dead) \in Nat /\ Cardinality(Dead') \in Nat
      /\ Cardinality(Dead') <= Cardinality(Dead)
  BY <1>1, FewerOf, Zenon
<1>4. closings' = closings /\ closings \in Nat /\ Cardinality(Again) + Cardinality(Dead) <= closings
  BY DEF Repeats
<1>5. Cardinality(Again') + Cardinality(Dead') <= closings'
  BY <1>2, <1>3, <1>4
<1>6. QED
  BY <1>4, <1>5 DEF Repeats

\* The provider closes a socket.
LEMMA RepeatsClosed ==
  ASSUME Socketed, Repeats, NEW s \in Session, Close(s)
  PROVE  Repeats'
<1>1. sock[s] = {Socket(s)} /\ Socket(s) \in SocketRecord /\ Socket(s).open
  BY TheSocket DEF Close, NoSocket
<1>2. PICK x : x = [Socket(s) EXCEPT !.open = FALSE, !.owed = {}]
  OBVIOUS
<1>3. sock' = [sock EXCEPT ![s] = {x}]
  BY <1>2 DEF Close, Live
<1>4. ~x.open
  BY <1>1, <1>2 DEF SocketRecord
<1>5. sock'[s] = {x} /\ \A t \in Session \ {s} : sock'[t] = sock[t]
  BY <1>3 DEF Socketed
<1>6. Dead' = Dead \cup {s}
  BY <1>4, <1>5 DEF Dead
<1>7. s \notin Dead
  BY <1>1 DEF Dead
<1>8. /\ IsFiniteSet(Dead) /\ Cardinality(Dead) \in Nat /\ Cardinality(Again) \in Nat
  <2>1. IsFiniteSet(WarmAsk) /\ Again \in SUBSET WarmAsk /\ Dead \in SUBSET Session
    BY WarmAssumption DEF Again, Dead
  <2>2. IsFiniteSet(Again) /\ IsFiniteSet(Dead)
    BY <2>1, SessionFinite, FS_Subset, Zenon
  <2>3. QED
    BY <2>2, FS_CardinalityType, Zenon
<1>9. Cardinality(Dead') = Cardinality(Dead) + 1
  BY <1>6, <1>7, <1>8, FS_AddElement
<1>10. Again' = Again /\ closings' = closings + 1
  BY DEF Again, Close
<1>11. closings \in Nat /\ Cardinality(Again) + Cardinality(Dead) <= closings
  BY DEF Repeats
<1>12. closings' \in Nat /\ Cardinality(Again') + Cardinality(Dead') <= closings'
  BY <1>8, <1>9, <1>10, <1>11
<1>13. QED
  BY <1>12 DEF Repeats

\* An ask that finds its socket dead takes the socket away and is sent again.
LEMMA RepeatsStale ==
  ASSUME Dispatched, Sited, Socketed, Repeats, NEW a \in WarmAsk, StaleSocket(a), ~fresh[a]
  PROVE  Repeats'
<1>1. PICK s : s = session[a]
  OBVIOUS
<1>2. /\ wpc[a] \in {"send", "read"} /\ ~Socket(s).open /\ Goto(a, "connect")
      /\ sock' = [sock EXCEPT ![s] = {}] /\ UNCHANGED <<runs, closings>>
  BY <1>1 DEF StaleSocket, is_stale_socket_error, Redispatch, NoSocket
<1>3. s \in Session /\ sock[s] # {}
  BY <1>1, <1>2 DEF Sited, Bound, Inside, Socketed
<1>4. s \in Dead
  <2>1. sock[s] = {Socket(s)}
    BY <1>3, TheSocket
  <2>2. QED
    BY <1>2, <1>3, <2>1 DEF Dead
<1>5. Dead' = Dead \ {s}
  <2>1. sock'[s] = {} /\ \A t \in Session \ {s} : sock'[t] = sock[t]
    BY <1>2, <1>3 DEF Socketed
  <2>2. QED
    BY <2>1 DEF Dead
<1>6. Again' \in SUBSET (Again \cup {a})
  <2>1. \A b \in WarmAsk \ {a} : wpc'[b] = wpc[b]
    BY <1>2, WentTo
  <2>2. QED
    BY <1>2, <2>1 DEF Again
<1>7. /\ IsFiniteSet(Again) /\ IsFiniteSet(Dead)
      /\ Cardinality(Dead) \in Nat /\ Cardinality(Again) \in Nat
  <2>1. IsFiniteSet(WarmAsk) /\ Again \in SUBSET WarmAsk /\ Dead \in SUBSET Session
    BY WarmAssumption DEF Again, Dead
  <2>2. IsFiniteSet(Again) /\ IsFiniteSet(Dead)
    BY <2>1, SessionFinite, FS_Subset, Zenon
  <2>3. QED
    BY <2>2, FS_CardinalityType, Zenon
<1>8. Cardinality(Dead') = Cardinality(Dead) - 1
  BY <1>4, <1>5, <1>7, FS_RemoveElement
<1>9. Cardinality(Again') \in Nat /\ Cardinality(Again') <= Cardinality(Again) + 1
  <2>1. /\ IsFiniteSet(Again \cup {a})
        /\ Cardinality(Again \cup {a}) = IF a \in Again THEN Cardinality(Again)
                                         ELSE Cardinality(Again) + 1
    BY <1>7, FS_AddElement
  <2>2. Cardinality(Again \cup {a}) \in Nat /\ Cardinality(Again \cup {a}) <= Cardinality(Again) + 1
    BY <1>7, <2>1
  <2>3. /\ Cardinality(Again') \in Nat /\ Cardinality(Again') <= Cardinality(Again \cup {a})
    <3>1. PICK G, B : G = Again' /\ B = Again \cup {a}
      OBVIOUS
    <3>2. IsFiniteSet(B) /\ B \in SUBSET B /\ G \in SUBSET B
      BY <1>6, <2>1, <3>1
    <3>3. Cardinality(G) \in Nat /\ Cardinality(G) <= Cardinality(B)
      BY <3>2, FewerOf, Zenon
    <3>4. QED
      BY <3>1, <3>3
  <2>4. QED
    BY <1>7, <2>2, <2>3
<1>10. closings' = closings /\ closings \in Nat /\ Cardinality(Again) + Cardinality(Dead) <= closings
  BY <1>2 DEF Repeats
<1>11. Cardinality(Again') + Cardinality(Dead') <= closings'
  BY <1>7, <1>8, <1>9, <1>10
<1>12. QED
  BY <1>10, <1>11 DEF Repeats

\* A step that puts the socket of one session away, or opens a new one.
LEMMA DeadFewer ==
  ASSUME Socketed, NEW s \in Session, NEW S, sock' = [sock EXCEPT ![s] = S],
         (\A x \in S : x.open) \/ (\E y \in sock[s] : \A x \in S : x.open = y.open)
  PROVE  Dead' \in SUBSET Dead
<1>1. sock'[s] = S /\ \A t \in Session \ {s} : sock'[t] = sock[t]
  BY DEF Socketed
<1>2. QED
  BY <1>1 DEF Dead

\* An ask takes no socket for dead that was not, unless it dispatches again.
LEMMA DeadStay ==
  ASSUME Dispatched, Sited, InLine, Socketed, NEW a \in WarmAsk,
         LookUpPin(a) \/ Step(a) \/ Cancel(a)
  PROVE  Dead' \in SUBSET Dead
<1>1. ASSUME UNCHANGED sock PROVE Dead' \in SUBSET Dead
  BY <1>1 DEF Dead
<1>2. PICK s : s = session[a]
  OBVIOUS
<1>3. wpc[a] \in Inside => s \in Session
  BY <1>2 DEF Sited, Bound
<1>4. ASSUME wpc[a] \in Inside, sock' = [sock EXCEPT ![s] = {}] PROVE Dead' \in SUBSET Dead
  BY <1>3, <1>4, DeadFewer
<1>5. CASE LookUpPin(a) \/ SelectCold(a) \/ Pin(a) \/ Enter(a) \/ AuthRejected(a)
           \/ ReadDelta(a) \/ Cancel(a)
  BY <1>1, <1>5 DEF LookUpPin, SelectCold, Pin, Enter, AuthRejected, ReadDelta, Cancel
<1>6. CASE EnsureLive(a)
  <2>1. UNCHANGED sock \/ (wpc[a] \in Inside /\ sock' = [sock EXCEPT ![s] = {}])
    BY <1>2, <1>6 DEF EnsureLive, NoSocket, Inside
  <2>2. QED
    BY <1>1, <1>4, <2>1
<1>7. CASE ConnectAndPrime(a)
  <2>1. wpc[a] \in Inside /\ sock' = [sock EXCEPT ![s] = NewSocket]
    BY <1>2, <1>7 DEF ConnectAndPrime, Inside
  <2>2. \A x \in NewSocket : x.open
    BY DEF NewSocket
  <2>3. QED
    BY <1>3, <2>1, <2>2, DeadFewer
<1>8. ASSUME Fail(a), wpc[a] \in Inside PROVE Dead' \in SUBSET Dead
  BY <1>2, <1>4, <1>8 DEF Fail, NoSocket
<1>9. CASE ConnectFails(a) \/ WallClock(a)
  BY <1>8, <1>9 DEF ConnectFails, WallClock, Inside
<1>10. CASE StaleSocket(a)
  <2>1. wpc[a] \in Inside /\ (Fail(a) \/ sock' = [sock EXCEPT ![s] = {}])
    BY <1>2, <1>10, Zenon DEF StaleSocket, is_stale_socket_error, Redispatch, NoSocket, Inside
  <2>2. QED
    BY <1>4, <1>8, <2>1
<1>11. ASSUME wpc[a] \in {"send", "read"}, NEW o \in SUBSET WarmAsk,
              Live(s, [Socket(s) EXCEPT !.owed = o])
       PROVE  Dead' \in SUBSET Dead
  <2>1. s \in Session /\ sock[s] # {}
    BY <1>2, <1>3, <1>11 DEF Inside, Socketed
  <2>2. Socket(s) \in SocketRecord /\ sock[s] = {Socket(s)}
    BY <2>1, TheSocket
  <2>3. PICK x : x = [Socket(s) EXCEPT !.owed = o]
    OBVIOUS
  <2>4. x.open = Socket(s).open /\ sock' = [sock EXCEPT ![s] = {x}]
    BY <1>11, <2>2, <2>3 DEF Live, SocketRecord
  <2>5. QED
    BY <2>1, <2>2, <2>4, DeadFewer
<1>12. CASE Send(a)
  <2>1. wpc[a] \in {"send", "read"} /\ s \in Session /\ sock[s] # {}
    BY <1>2, <1>3, <1>12 DEF Send, Inside, Socketed
  <2>2. Socket(s) \in SocketRecord
    BY <2>1, TheSocket
  <2>3. Socket(s).owed \cup {a} \in SUBSET WarmAsk
    BY <2>2 DEF SocketRecord
  <2>4. UNCHANGED sock \/ Live(s, [Socket(s) EXCEPT !.owed = Socket(s).owed \cup {a}])
    BY <1>2, <1>12 DEF Send
  <2>5. QED
    BY <1>1, <1>11, <2>1, <2>3, <2>4
<1>13. CASE ReadEnd(a)
  <2>1. wpc[a] \in {"send", "read"} /\ wpc[a] \in Inside /\ s \in Session /\ sock[s] # {}
    BY <1>2, <1>3, <1>13 DEF ReadEnd, Inside, Socketed
  <2>2. Socket(s) \in SocketRecord
    BY <2>1, TheSocket
  <2>3. Fail(a) \/ \E r : Live(s, [Socket(s) EXCEPT !.owed = Socket(s).owed \ {r}])
    BY <1>2, <1>13 DEF ReadEnd
  <2>4. \A r : Socket(s).owed \ {r} \in SUBSET WarmAsk
    BY <2>2 DEF SocketRecord
  <2>5. CASE Fail(a)
    BY <1>8, <2>1, <2>5
  <2>6. CASE ~Fail(a)
    <3>1. PICK r : Live(s, [Socket(s) EXCEPT !.owed = Socket(s).owed \ {r}])
      BY <2>3, <2>6
    <3>2. PICK o \in SUBSET WarmAsk : o = Socket(s).owed \ {r}
      BY <2>4
    <3>3. Live(s, [Socket(s) EXCEPT !.owed = o])
      BY <3>1, <3>2
    <3>4. QED
      BY <1>11, <2>1, <3>3
  <2>7. QED
    BY <2>5, <2>6
<1>14. QED
  BY <1>5, <1>6, <1>7, <1>9, <1>10, <1>12, <1>13, Zenon DEF Step

LEMMA ClosingsStay ==
  ASSUME NEW a \in WarmAsk, LookUpPin(a) \/ Step(a) \/ Cancel(a)
  PROVE  UNCHANGED closings
<1>1. CASE LookUpPin(a) \/ SelectCold(a) \/ Pin(a) \/ Enter(a) \/ EnsureLive(a) \/ Cancel(a)
  BY <1>1 DEF LookUpPin, SelectCold, Pin, Enter, EnsureLive, Cancel
<1>2. CASE ConnectAndPrime(a) \/ AuthRejected(a) \/ ConnectFails(a) \/ Send(a)
  BY <1>2 DEF ConnectAndPrime, AuthRejected, ConnectFails, Send
<1>3. CASE StaleSocket(a) \/ ReadDelta(a) \/ ReadEnd(a) \/ WallClock(a)
  BY <1>3 DEF StaleSocket, ReadDelta, ReadEnd, WallClock
<1>4. QED
  BY <1>1, <1>2, <1>3, Zenon DEF Step

\* Only an ask that dispatches again comes to be among them.
LEMMA AgainStay ==
  ASSUME Dispatched, NEW a \in WarmAsk, LookUpPin(a) \/ Step(a) \/ Cancel(a),
         ~(StaleSocket(a) /\ ~fresh[a])
  PROVE  Again' \in SUBSET Again
<1>1. SentFor(a) /\ wpc[a] \in Locations /\ runs[a] \in Nat /\ fresh[a] \in BOOLEAN
  BY DEF Dispatched
<1>3. ASSUME UNCHANGED runs, NEW to, Goto(a, to),
             \/ a \in Again \/ runs[a] = 0
             \/ to \notin {"connect", "reconnect", "send"}
      PROVE  Again' \in SUBSET Again
  <2>1. wpc'[a] = to /\ \A b \in WarmAsk \ {a} : wpc'[b] = wpc[b]
    BY <1>3, WentTo
  <2>2. QED
    BY <1>3, <2>1 DEF Again
<1>4. CASE LookUpPin(a) \/ SelectCold(a) \/ Pin(a) \/ Enter(a) \/ EnsureLive(a)
  <2>1. runs[a] = 0
    BY <1>1, <1>4 DEF SentFor, LookUpPin, SelectCold, Pin, Enter, EnsureLive
  <2>2. UNCHANGED runs /\ \E to : Goto(a, to)
    BY <1>4 DEF LookUpPin, SelectCold, Pin, Enter, EnsureLive
  <2>3. QED
    BY <1>3, <2>1, <2>2
<1>5. CASE ConnectAndPrime(a) \/ AuthRejected(a)
  <2>1. wpc[a] \in {"connect", "reconnect"} /\ UNCHANGED runs /\ \E to : Goto(a, to)
    BY <1>5 DEF ConnectAndPrime, AuthRejected
  <2>2. runs[a] \in {0, 1}
    BY <1>1, <2>1 DEF SentFor
  <2>3. a \in Again \/ runs[a] = 0
    BY <2>1, <2>2 DEF Again
  <2>4. QED
    BY <1>3, <2>1, <2>3
<1>6. CASE ConnectFails(a) \/ ReadEnd(a) \/ WallClock(a) \/ Cancel(a) \/ StaleSocket(a)
  <2>1. UNCHANGED runs
    BY <1>6 DEF ConnectFails, ReadEnd, WallClock, Cancel, StaleSocket
  <2>2. PICK to \in {"answered", "failed", "gone", "left"} : Goto(a, to)
    BY <1>6 DEF ConnectFails, ReadEnd, WallClock, Cancel, StaleSocket, Fail, Return
  <2>3. QED
    BY <1>3, <2>1, <2>2
<1>7. CASE ReadDelta(a)
  BY <1>7 DEF ReadDelta, Again
<1>8. CASE Send(a)
  <2>1. wpc[a] = "send" /\ Goto(a, "read")
        /\ (runs' = [runs EXCEPT ![a] = @ + 1] \/ UNCHANGED runs)
    BY <1>8 DEF Send
  <2>2. wpc'[a] = "read" /\ \A b \in WarmAsk \ {a} : wpc'[b] = wpc[b]
    BY <2>1, WentTo
  <2>3. \A b \in WarmAsk \ {a} : runs'[b] = runs[b]
    BY <2>1 DEF Dispatched
  <2>4. runs'[a] \in {runs[a], runs[a] + 1} /\ runs[a] \in {0, 1}
    BY <1>1, <2>1 DEF Dispatched, SentFor
  <2>5. a \in Again' => a \in Again
    BY <2>1, <2>2, <2>4 DEF Again
  <2>6. \A b \in WarmAsk \ {a} : b \in Again' => b \in Again
    BY <2>2, <2>3 DEF Again
  <2>7. Again' \in SUBSET WarmAsk
    BY DEF Again
  <2>8. QED
    BY <2>5, <2>6, <2>7
<1>9. QED
  BY <1>4, <1>5, <1>6, <1>7, <1>8, Zenon DEF Step

LEMMA RepeatsKept ==
  ASSUME Separate, Repeats, [WarmNext]_warmVars
  PROVE  Repeats'
<1>1. Dispatched /\ Sited /\ InLine /\ Socketed
  BY DEF Separate
<1>2. CASE UNCHANGED warmVars
  BY <1>2 DEF warmVars, Repeats, Again, Dead
<1>3. ASSUME NEW s \in Session, Close(s) PROVE Repeats'
  BY <1>1, <1>3, RepeatsClosed
<1>4. ASSUME NEW s \in Session, Age(s) PROVE Repeats'
  <2>1. sock[s] = {Socket(s)} /\ Socket(s) \in SocketRecord
    BY <1>1, <1>4, TheSocket DEF Age, NoSocket
  <2>2. PICK x : x = [Socket(s) EXCEPT !.aged = TRUE]
    OBVIOUS
  <2>3. x.open = Socket(s).open /\ sock' = [sock EXCEPT ![s] = {x}]
    BY <1>4, <2>1, <2>2 DEF Age, Live, SocketRecord
  <2>4. Dead' \in SUBSET Dead
    BY <1>1, <2>1, <2>3, DeadFewer
  <2>5. Again' \in SUBSET Again /\ UNCHANGED closings
    BY <1>4 DEF Age, Again
  <2>6. QED
    BY <2>4, <2>5, RepeatsFewer
<1>5. ASSUME NEW a \in WarmAsk, LookUpPin(a) \/ Step(a) \/ Cancel(a) PROVE Repeats'
  <2>1. CASE StaleSocket(a) /\ ~fresh[a]
    BY <1>1, <2>1, RepeatsStale
  <2>2. CASE ~(StaleSocket(a) /\ ~fresh[a])
    <3>1. Dead' \in SUBSET Dead
      BY <1>1, <1>5, DeadStay
    <3>2. Again' \in SUBSET Again /\ UNCHANGED closings
      BY <1>1, <1>5, <2>2, AgainStay, ClosingsStay
    <3>3. QED
      BY <3>1, <3>2, RepeatsFewer
  <2>3. QED
    BY <2>1, <2>2
<1>6. QED
  BY <1>2, <1>3, <1>4, <1>5, Zenon DEF WarmNext, Decay

LEMMA RepeatsInit == WarmInit => Repeats
<1>1. ASSUME WarmInit PROVE Again = {} /\ Dead = {} /\ closings = 0
  BY <1>1 DEF WarmInit, Again, Dead, NoSocket
<1>2. ASSUME WarmInit PROVE Cardinality(Again) = 0 /\ Cardinality(Dead) = 0
  BY <1>1, <1>2, FS_EmptySet
<1>3. QED
  BY <1>1, <1>2 DEF Repeats

\* Re-dispatch repeats no ask a third time, and repeats no more asks than there
\* were sockets the provider closed (the reused arms of ask_structured, ask_text
\* and ask_tools), whatever else failed, timed out or was abandoned.
THEOREM RepeatsAreFew == WarmSpec => []RepeatsFollowClosings
<1>1. ASSUME Separate, Repeats PROVE RepeatsFollowClosings
  <2>1. \A a \in WarmAsk : runs[a] <= 2
    BY <1>1 DEF Separate, Dispatched, SentFor
  <2>2. PICK T : T = {a \in WarmAsk : runs[a] = 2}
    OBVIOUS
  <2>3. /\ IsFiniteSet(WarmAsk) /\ Again \in SUBSET WarmAsk /\ T \in SUBSET Again
        /\ IsFiniteSet(Session) /\ Dead \in SUBSET Session
    BY <2>2, WarmAssumption, SessionFinite DEF Again, Dead
  <2>4. /\ Cardinality(Again) \in Nat /\ Cardinality(T) \in Nat
        /\ Cardinality(T) <= Cardinality(Again)
    BY <2>3, FewerOf, Zenon
  <2>5. Dead \in SUBSET Dead
    OBVIOUS
  <2>6. Cardinality(Dead) \in Nat
    BY <2>3, <2>5, FewerOf, Zenon
  <2>7. closings \in Nat /\ Cardinality(Again) + Cardinality(Dead) <= closings
    BY <1>1 DEF Repeats
  <2>8. Cardinality(T) <= closings
    BY <2>4, <2>6, <2>7
  <2>9. QED
    BY <2>1, <2>2, <2>8 DEF RepeatsFollowClosings
<1>2. Separate /\ Repeats /\ [WarmNext]_warmVars => Repeats'
  BY RepeatsKept
<1>3. QED
  BY <1>1, <1>2, RepeatsInit, SeparateHolds, PTL DEF WarmSpec

-----------------------------------------------------------------------------
(* The promise of the module, for callers who stay *)

NobodyGone == \A a \in WarmAsk : wpc[a] # "gone"

LEMMA PatientStay ==
  ASSUME Impatient = {}, NobodyGone, Dispatched, [WarmNext]_warmVars
  PROVE  NobodyGone'
<1>1. ASSUME NEW a \in WarmAsk, NEW to, to # "gone", Goto(a, to) PROVE NobodyGone'
  BY <1>1 DEF Goto, NobodyGone, Dispatched
<1>2. ASSUME wpc' = wpc PROVE NobodyGone'
  BY <1>2 DEF NobodyGone
<1>3. ASSUME NEW a \in WarmAsk, LookUpPin(a) PROVE NobodyGone'
  <2>1. Goto(a, "picked") \/ Goto(a, "select")
    BY <1>3, Zenon DEF LookUpPin
  <2>2. QED
    BY <1>1, <2>1
<1>4. ASSUME NEW a \in WarmAsk, Step(a) PROVE NobodyGone'
  <2>1. CASE SelectCold(a)
    <3>1. Goto(a, IF pinning[a] THEN "pin" ELSE "picked")
      BY <2>1 DEF SelectCold
    <3>2. QED
      BY <1>1, <3>1
  <2>2. CASE Pin(a) \/ Enter(a)
    BY <1>1, <2>2 DEF Pin, Enter
  <2>3. CASE EnsureLive(a)
    <3>1. Goto(a, "send") \/ Goto(a, "connect")
      BY <2>3, Zenon DEF EnsureLive
    <3>2. QED
      BY <1>1, <3>1
  <2>4. CASE ConnectAndPrime(a) \/ AuthRejected(a) \/ Send(a)
    BY <1>1, <2>4 DEF ConnectAndPrime, AuthRejected, Send
  <2>5. CASE ConnectFails(a) \/ WallClock(a)
    BY <1>1, <2>5 DEF ConnectFails, WallClock, Fail, Return
  <2>6. CASE StaleSocket(a)
    <3>1. Goto(a, "connect") \/ Goto(a, "failed")
      BY <2>6, Zenon DEF StaleSocket, Redispatch, Fail, Return
    <3>2. QED
      BY <1>1, <3>1
  <2>7. CASE ReadDelta(a)
    BY <1>2, <2>7 DEF ReadDelta
  <2>8. CASE ReadEnd(a)
    <3>1. Goto(a, "answered") \/ Goto(a, "failed")
      BY <2>8, Zenon DEF ReadEnd, Fail, Return
    <3>2. QED
      BY <1>1, <3>1
  <2>9. QED
    BY <1>4, <2>1, <2>2, <2>3, <2>4, <2>5, <2>6, <2>7, <2>8, Zenon DEF Step
<1>5. ASSUME NEW s \in Session, Decay(s) PROVE NobodyGone'
  BY <1>2, <1>5 DEF Decay, Close, Age
<1>6. \A a \in WarmAsk : ~ Cancel(a)
  BY DEF Cancel
<1>7. CASE UNCHANGED warmVars
  BY <1>2, <1>7 DEF warmVars
<1>8. QED
  BY <1>3, <1>4, <1>5, <1>6, <1>7, Zenon DEF WarmNext

\* "One out-of-band response per socket at a time keeps the read loop trivially
\* correct": it does while no caller goes away, through timeouts, provider
\* errors, dead sockets and redispatches (the read loops of warm.rs).
THEOREM PatientAsksHearTheirOwn == Impatient = {} => (WarmSpec => []WarmAnswersOwnAsk)
<1>1. SUFFICES ASSUME Impatient = {} PROVE WarmSpec => []WarmAnswersOwnAsk
  OBVIOUS
<1>2. WarmInit => NobodyGone
  BY DEF WarmInit, NobodyGone
<1>3. NobodyGone /\ Dispatched /\ [WarmNext]_warmVars => NobodyGone'
  BY <1>1, PatientStay
<1>4. Separate => Dispatched
  BY DEF Separate
<1>5. NobodyGone /\ CrossTalkNeedsCancel => WarmAnswersOwnAsk
  BY DEF NobodyGone, CrossTalkNeedsCancel, Abandoned, WarmAnswersOwnAsk
<1>6. QED
  BY <1>2, <1>3, <1>4, <1>5, SeparateHolds, OnlyCancelCrosses, PTL DEF WarmSpec

\* "In-flight asks routed to this socket" (WarmSession.load): so it is while no
\* caller goes away.
THEOREM PatientLoad == Impatient = {} => (WarmSpec => []LoadIsInFlight)
<1>1. SUFFICES ASSUME Impatient = {} PROVE WarmSpec => []LoadIsInFlight
  OBVIOUS
<1>2. WarmInit => NobodyGone
  BY DEF WarmInit, NobodyGone
<1>3. NobodyGone /\ Dispatched /\ [WarmNext]_warmVars => NobodyGone'
  BY <1>1, PatientStay
<1>4. Separate => Dispatched
  BY DEF Separate
<1>5. ASSUME NobodyGone, OnlyAbandonedAsksLeakLoad, NEW s \in Session
      PROVE  load[s] = Cardinality(InFlight(s))
  <2>1. Abandoned(s) = {}
    BY <1>5 DEF NobodyGone, Abandoned
  <2>2. Cardinality(Abandoned(s)) = 0
    BY <2>1, FS_EmptySet
  <2>3. InFlight(s) \in SUBSET WarmAsk /\ IsFiniteSet(WarmAsk)
    BY WarmAssumption DEF InFlight
  <2>4. Cardinality(InFlight(s)) \in Nat
    BY <2>3, FS_Subset, FS_CardinalityType
  <2>5. load[s] = Cardinality(InFlight(s)) + Cardinality(Abandoned(s))
    BY <1>5 DEF OnlyAbandonedAsksLeakLoad
  <2>6. QED
    BY <2>2, <2>4, <2>5
<1>6. NobodyGone /\ OnlyAbandonedAsksLeakLoad => LoadIsInFlight
  BY <1>5 DEF LoadIsInFlight
<1>7. QED
  BY <1>2, <1>3, <1>4, <1>6, SeparateHolds, LoadCounts, PTL DEF WarmSpec

=============================================================================
