------------------------ MODULE ResponsesDispatch_proofs ------------------------
(***************************************************************************)
(* Proofs about the dispatch of asks, for any number of asks and sockets,  *)
(* any windows, and any size of the handshake gate.                        *)
(***************************************************************************)
EXTENDS ResponsesDispatch, FiniteSetTheorems, SequenceTheorems, TLAPS

-----------------------------------------------------------------------------
(* Where an ask is, on which lane, and how often it was sent *)

Outside == {"idle", "seeking", "done"}
HttpOnly == {"http_send", "http_reading"}
WssOnly ==
  {"checkout", "gate", "handshake", "backoff", "connected", "reading", "checkin"}
Unsent ==
  {"idle", "seeking", "admitted", "auth", "fetching", "checkout", "gate",
   "handshake", "backoff", "connected", "http_send"}
WarmLocation ==
  {"warming", "auth", "fetching", "gate", "handshake", "checkin", "backoff", "done"}

\* An ask has one lease, on the lane whose awaits it reaches.
LeaseFor(t) ==
  /\ ~(t \in holders["http"] /\ t \in holders["websocket"])
  /\ pc[t] \in Outside <=> t \notin holders["http"] /\ t \notin holders["websocket"]
  /\ pc[t] \in HttpOnly => t \in holders["http"]
  /\ pc[t] \in WssOnly => t \in holders["websocket"]

\* A refresh follows a refused handshake on the WSS lane and a refused request
\* on the HTTP lane; after the second one nothing is sent.
SentFor(t) ==
  /\ pc[t] \in Unsent => sent[t] = 0
  /\ pc[t] \in {"refresh", "refreshing"} /\ t \notin holders["http"] => sent[t] = 0
  /\ sent[t] \in {0, 1}

Placed ==
  /\ pc \in [Actor -> Location] /\ pc[Warmer] \in WarmLocation
  /\ \A t \in Task : pc[t] # "warming"
  /\ holders \in [Lane -> SUBSET Task] /\ sent \in [Task -> Nat]
  /\ \A t \in Task : LeaseFor(t) /\ SentFor(t)

LEMMA PlacedInit == Init => Placed
BY DispatchAssumption
   DEF Init, Ledger!Init, Placed, LeaseFor, SentFor, Actor, Lane, Location, WarmLocation,
       Outside, HttpOnly, WssOnly, Unsent

\* A step of one actor concerns the lease and the sends of no other.
LEMMA PlacedStep ==
  ASSUME Placed, NEW a \in Actor, NEW to \in Location, Goto(a, to),
         holders' \in [Lane -> SUBSET Task], sent' \in [Task -> Nat],
         \A t \in Task \ {a} : sent'[t] = sent[t],
         \A t \in Task \ {a}, l \in Lane : t \in holders'[l] <=> t \in holders[l],
         a = Warmer => to \in WarmLocation,
         a \in Task => to # "warming" /\ LeaseFor(a)' /\ SentFor(a)'
  PROVE  Placed'
<1>1. pc' \in [Actor -> Location] /\ pc'[a] = to /\ \A b \in Actor \ {a} : pc'[b] = pc[b]
  BY DEF Placed, Goto
<1>2. pc'[Warmer] \in WarmLocation /\ \A t \in Task : pc'[t] # "warming"
  BY <1>1, DispatchAssumption DEF Placed, Actor
<1>3. ASSUME NEW t \in Task \ {a} PROVE LeaseFor(t)' /\ SentFor(t)'
  BY <1>1 DEF Placed, LeaseFor, SentFor, Actor, Lane
<1>4. QED
  BY <1>1, <1>2, <1>3 DEF Placed

\* An ask goes from one await to the next with the lease it has and unsent.
LEMMA PlacedMove ==
  ASSUME Placed, NEW t \in Task, NEW to \in Location \ {"warming"}, Goto(t, to),
         UNCHANGED <<holders, sent>>,
         pc[t] \in Outside <=> to \in Outside,
         to \in HttpOnly => t \in holders["http"],
         to \in WssOnly => t \in holders["websocket"],
         to \in Unsent => sent[t] = 0,
         to \in {"refresh", "refreshing"} /\ t \notin holders["http"] => sent[t] = 0
  PROVE  Placed'
<1>1. pc'[t] = to
  BY DEF Placed, Goto, Actor
<1>2. LeaseFor(t)' /\ SentFor(t)'
  BY <1>1 DEF Placed, LeaseFor, SentFor
<1>3. QED
  BY <1>2, PlacedStep, DispatchAssumption DEF Placed, Actor

LEMMA PlacedAuth ==
  ASSUME Placed, NEW t \in Task, Begin(t) \/ Auth(t) \/ FetchFailed(t) \/ Refresh(t)
  PROVE  Placed'
<1> USE DEF Location, Outside, HttpOnly, WssOnly, Unsent
<1>1. LeaseFor(t) /\ SentFor(t) /\ pc[t] \in Location
  BY DEF Placed, Actor
<1>2. UNCHANGED <<holders, sent>>
  BY DEF Begin, Auth, LoadCached, LoadStale, Fetched, FetchFailed, Refresh, RefreshShared,
         RefreshStart, RefreshDone, RefreshFailed, ledger
<1>3. CASE Begin(t)
  BY <1>1, <1>2, <1>3, PlacedMove DEF Begin, LeaseFor, SentFor
<1>4. CASE Auth(t)
  BY <1>1, <1>2, <1>4, PlacedMove
     DEF Auth, LoadCached, LoadStale, Fetched, AfterAuth, LeaseFor, SentFor
<1>5. CASE FetchFailed(t)
  BY <1>1, <1>2, <1>5, PlacedMove DEF FetchFailed, LeaseFor, SentFor
<1>6. CASE Refresh(t)
  BY <1>1, <1>2, <1>6, PlacedMove
     DEF Refresh, RefreshShared, RefreshStart, RefreshDone, RefreshFailed, AfterRefresh,
         LeaseFor, SentFor
<1>7. QED
  BY <1>3, <1>4, <1>5, <1>6

LEMMA PlacedConnect ==
  ASSUME Placed, NEW t \in Task, Acquire(t) \/ Connecting(t)
  PROVE  Placed'
<1> USE DEF Location, Outside, HttpOnly, WssOnly, Unsent
<1>1. LeaseFor(t) /\ SentFor(t) /\ pc[t] \in Location /\ t # Warmer
  BY DispatchAssumption DEF Placed, Actor
<1>2. UNCHANGED <<holders, sent>>
  BY DEF Acquire, CheckoutReused, CheckoutEmpty, HandshakeRefused, HandshakeFailed, BackedOff,
         GiveUpConnecting, Connecting, TakePermit, Connect, ledger
<1>3. CASE CheckoutReused(t) \/ CheckoutEmpty(t)
  BY <1>1, <1>2, <1>3, PlacedMove DEF CheckoutReused, CheckoutEmpty, LeaseFor, SentFor
<1>4. CASE HandshakeRefused(t) \/ HandshakeFailed(t)
  BY <1>1, <1>2, <1>4, PlacedMove DEF HandshakeRefused, HandshakeFailed, LeaseFor, SentFor
<1>5. CASE BackedOff(t) \/ GiveUpConnecting(t)
  BY <1>1, <1>2, <1>5, PlacedMove DEF BackedOff, GiveUpConnecting, LeaseFor, SentFor
<1>6. CASE Connecting(t)
  BY <1>1, <1>2, <1>6, PlacedMove DEF Connecting, TakePermit, Connect, LeaseFor, SentFor
<1>7. QED
  BY <1>3, <1>4, <1>5, <1>6 DEF Acquire

\* The two places where a request is sent: the ask was not sent before.
LEMMA PlacedSend ==
  ASSUME Placed, NEW t \in Task, Send(t) \/ HttpSend(t)
  PROVE  Placed'
<1> USE DEF Location, Outside, HttpOnly, WssOnly, Unsent
<1>1. LeaseFor(t) /\ SentFor(t)
  BY DEF Placed
<1>2. PICK to \in {"reading", "http_reading"} :
        /\ Goto(t, to) /\ pc[t] = IF to = "reading" THEN "connected" ELSE "http_send"
        /\ UNCHANGED holders /\ sent' = [sent EXCEPT ![t] = @ + 1]
  BY DEF Send, HttpSend, ledger
<1>3. pc'[t] = to /\ sent'[t] = 1 /\ sent' \in [Task -> Nat]
      /\ \A u \in Task \ {t} : sent'[u] = sent[u]
  BY <1>1, <1>2 DEF Placed, Goto, Actor, SentFor
<1>4. LeaseFor(t)' /\ SentFor(t)'
  BY <1>1, <1>2, <1>3 DEF LeaseFor, SentFor
<1>5. QED
  BY <1>2, <1>3, <1>4, PlacedStep, DispatchAssumption DEF Placed, Actor

LEMMA PlacedAnswer ==
  ASSUME Placed, NEW t \in Task,
         \/ ReadSuccess(t) \/ ReadError(t) \/ ReadLost(t) \/ Checkin(t)
         \/ (\E c \in Class : HttpEnd(t, c)) \/ HttpRefused(t)
  PROVE  Placed'
<1> USE DEF Location, Outside, HttpOnly, WssOnly, Unsent
<1>1. LeaseFor(t) /\ SentFor(t) /\ pc[t] \in Location /\ t # Warmer
  BY DispatchAssumption DEF Placed, Actor
<1>2. UNCHANGED <<holders, sent>>
  BY DEF ReadSuccess, ReadError, ReadLost, Abort, Checkin, HttpEnd, HttpRefused, ledger
<1>3. CASE ReadSuccess(t) \/ ReadError(t) \/ ReadLost(t)
  BY <1>1, <1>2, <1>3, PlacedMove DEF ReadSuccess, ReadError, ReadLost, Abort, LeaseFor, SentFor
<1>4. CASE Checkin(t)
  BY <1>1, <1>2, <1>4, PlacedMove DEF Checkin, LeaseFor, SentFor
<1>5. CASE (\E c \in Class : HttpEnd(t, c)) \/ HttpRefused(t)
  BY <1>1, <1>2, <1>5, PlacedMove DEF HttpEnd, HttpRefused, LeaseFor, SentFor
<1>6. QED
  BY <1>3, <1>4, <1>5

LEMMA PlacedAdmission ==
  ASSUME Placed, NEW t \in Task, Ask(t) \/ \E l \in Lane : Admit(t, l)
  PROVE  Placed'
<1> USE DEF Location, Outside, HttpOnly, WssOnly, Unsent
<1>1. LeaseFor(t) /\ SentFor(t)
  BY DEF Placed
<1>2. CASE Ask(t)
  BY <1>1, <1>2, PlacedMove DEF Ask, Ledger!Seek, LeaseFor, SentFor
<1>3. ASSUME NEW l \in Lane, Admit(t, l) PROVE Placed'
  <2>1. /\ pc[t] = "seeking" /\ Goto(t, "admitted") /\ UNCHANGED sent
        /\ holders' = [holders EXCEPT ![l] = @ \cup {t}]
    BY <1>3 DEF Admit, Ledger!Admit
  <2>2. pc'[t] = "admitted" /\ holders' \in [Lane -> SUBSET Task]
        /\ \A u \in Task \ {t}, k \in Lane : u \in holders'[k] <=> u \in holders[k]
    BY <2>1 DEF Placed, Goto, Actor
  <2>3. LeaseFor(t)' /\ SentFor(t)'
    BY <1>1, <2>1, <2>2 DEF LeaseFor, SentFor, Placed, Lane
  <2>4. QED
    BY <2>1, <2>2, <2>3, PlacedStep, DispatchAssumption DEF Placed, Actor
<1>4. QED
  BY <1>2, <1>3

\* The lease an ask gives back is the only one it has.
LEMMA PlacedLeft ==
  ASSUME Placed, NEW t \in Task, NEW l \in Lane, Goto(t, "done"), UNCHANGED sent,
         Ledger!Leave(t, l)
  PROVE  Placed'
<1> USE DEF Location, Outside, HttpOnly, WssOnly, Unsent
<1>1. LeaseFor(t) /\ SentFor(t)
  BY DEF Placed
<1>2. t \in holders[l] /\ holders' = [holders EXCEPT ![l] = @ \ {t}]
  BY DEF Ledger!Leave
<1>3. pc'[t] = "done" /\ holders' \in [Lane -> SUBSET Task]
      /\ \A u \in Task \ {t}, k \in Lane : u \in holders'[k] <=> u \in holders[k]
  BY <1>2 DEF Placed, Goto, Actor
<1>4. LeaseFor(t)' /\ SentFor(t)'
  BY <1>1, <1>2, <1>3 DEF LeaseFor, SentFor, Placed, Lane
<1>5. QED
  BY <1>3, <1>4, PlacedStep, DispatchAssumption DEF Placed, Actor

\* However it is settled, a lease leaves the ledger.
LEMMA SettledLeaves ==
  ASSUME NEW t, Settle(t) PROVE \E l \in Lane : Ledger!Leave(t, l)
BY DEF Settle, LedgerOf, Ledger!Succeed, Ledger!Overload, Ledger!Throttle, Ledger!Withdraw

LEMMA PlacedEnded ==
  ASSUME Placed, NEW t \in Task, Settle(t) \/ Cancel(t)
  PROVE  Placed'
<1>1. CASE Settle(t)
  BY <1>1, SettledLeaves, PlacedLeft DEF Settle
<1>2. ASSUME Cancel(t), NEW l \in Lane, Ledger!Withdraw(t, l) PROVE Placed'
  BY <1>2, PlacedLeft DEF Cancel, Ledger!Withdraw
<1>3. CASE Cancel(t) /\ pc[t] = "seeking" /\ Ledger!GiveUp(t)
  <2>1. Goto(t, "done") /\ UNCHANGED <<holders, sent>>
    BY <1>3 DEF Cancel, Ledger!GiveUp
  <2>2. QED
    BY <1>3, <2>1, PlacedMove DEF Location, Outside, HttpOnly, WssOnly, Unsent
<1>4. QED
  BY <1>1, <1>2, <1>3 DEF Cancel

LEMMA PlacedWarm == ASSUME Placed, Warm PROVE Placed'
<1>1. UNCHANGED <<holders, sent>> /\ pc[Warmer] \in WarmLocation /\ Warmer \notin holders["http"]
  BY DispatchAssumption
     DEF Warm, WarmNext, WarmAuthFailed, WarmHandshakeFailed, WarmBackedOff, Auth, LoadCached,
         LoadStale, Fetched, Connecting, TakePermit, Connect, Checkin, ledger, Placed, Lane
<1>2. PICK to \in WarmLocation : Goto(Warmer, to)
  BY <1>1 DEF Warm, WarmNext, WarmAuthFailed, WarmHandshakeFailed, WarmBackedOff, Auth,
     LoadCached, LoadStale, Fetched, Connecting, TakePermit, Connect, Checkin, AfterAuth,
     WarmLocation
<1>3. QED
  BY <1>1, <1>2, PlacedStep, DispatchAssumption DEF Placed, Actor, WarmLocation, Location

LEMMA PlacedKept == ASSUME Placed, [Next]_vars PROVE Placed'
<1>1. CASE UNCHANGED <<pc, holders, sent>>
  BY <1>1 DEF Placed, LeaseFor, SentFor
<1>2. (\E s \in Socket : Provider(s)) \/ Elapse \/ UNCHANGED vars => UNCHANGED <<pc, holders, sent>>
  BY DEF Provider, Answer, Hangup, Elapse, Ledger!Elapse, vars, ledger
<1>3. ASSUME NEW t \in Task, Ask(t) \/ Dispatch(t) \/ Cancel(t) PROVE Placed'
  BY <1>3, PlacedAuth, PlacedConnect, PlacedSend, PlacedAnswer, PlacedAdmission, PlacedEnded
     DEF Dispatch, Exchange, Http
<1>4. QED
  BY <1>1, <1>2, <1>3, PlacedWarm DEF Next

\* "The same logical request MUST NOT be sent again on the same lane or the
\* other lane": one lease, one lane, one send, whatever is refused, refreshed,
\* lost or cancelled on the way (CodexResponsesClient::dispatch).
THEOREM NeverSentTwice == Spec => []SentAtMostOnce
<1>1. Placed => SentAtMostOnce
  BY DEF Placed, SentFor, SentAtMostOnce
<1>2. QED
  BY <1>1, PlacedInit, PlacedKept, PTL DEF Spec

-----------------------------------------------------------------------------
(* What is counted *)

Handshaking == {a \in Actor : pc[a] = "handshake"}
Asking == {t \in Task : pc[t] \in {"reading", "checkin"}}
Fetching == {"fetching", "refreshing"}

Counted ==
  /\ permits + Cardinality(Handshaking) = GatePermits /\ permits \in Nat
  /\ active_asks = Cardinality(Asking)
  /\ auth_writer \in Actor \cup {None}
  /\ auth_writer # None => pc[auth_writer] \in Fetching

LEMMA ActorsFinite == IsFiniteSet(Actor) /\ IsFiniteSet(Task)
BY DispatchAssumption, FS_AddElement DEF Actor

\* One element moves: a set it joins gains it, a set it leaves loses it.
LEMMA CountJoined ==
  ASSUME NEW S, NEW T, NEW a, IsFiniteSet(S), T = S \cup {a}, a \notin S
  PROVE  Cardinality(T) = Cardinality(S) + 1
BY FS_AddElement

LEMMA CountParted ==
  ASSUME NEW S, NEW T, NEW a, IsFiniteSet(S), T = S \ {a}, a \in S
  PROVE  Cardinality(T) = Cardinality(S) - 1
BY FS_RemoveElement

LEMMA HandshakingMoved ==
  ASSUME Placed, NEW a \in Actor, NEW to, Goto(a, to)
  PROVE  /\ Cardinality(Handshaking) \in Nat
         /\ Cardinality(Handshaking') =
              IF to = "handshake" /\ pc[a] # "handshake" THEN Cardinality(Handshaking) + 1
              ELSE IF to # "handshake" /\ pc[a] = "handshake" THEN Cardinality(Handshaking) - 1
              ELSE Cardinality(Handshaking)
<1>1. IsFiniteSet(Handshaking) /\ Cardinality(Handshaking) \in Nat
  BY ActorsFinite, FS_Subset, FS_CardinalityType DEF Handshaking
<1>2. \A b \in Actor : pc'[b] = IF b = a THEN to ELSE pc[b]
  BY DEF Placed, Goto
<1>3. CASE to = "handshake" /\ pc[a] # "handshake"
  <2>1. Handshaking' = Handshaking \cup {a} /\ a \notin Handshaking
    BY <1>2, <1>3 DEF Handshaking
  <2>2. QED
    BY <1>1, <1>3, <2>1, CountJoined
<1>4. CASE to # "handshake" /\ pc[a] = "handshake"
  <2>1. Handshaking' = Handshaking \ {a} /\ a \in Handshaking
    BY <1>2, <1>4 DEF Handshaking
  <2>2. QED
    BY <1>1, <1>4, <2>1, CountParted
<1>5. CASE to = "handshake" <=> pc[a] = "handshake"
  <2>1. Handshaking' = Handshaking
    BY <1>2, <1>5 DEF Handshaking
  <2>2. QED
    BY <1>1, <1>5, <2>1
<1>6. QED
  BY <1>3, <1>4, <1>5

LEMMA AskingMoved ==
  ASSUME Placed, NEW t \in Task, NEW to, Goto(t, to)
  PROVE  /\ Cardinality(Asking) \in Nat
         /\ Cardinality(Asking') =
              IF to \in {"reading", "checkin"} /\ pc[t] \notin {"reading", "checkin"}
                THEN Cardinality(Asking) + 1
              ELSE IF to \notin {"reading", "checkin"} /\ pc[t] \in {"reading", "checkin"}
                THEN Cardinality(Asking) - 1
              ELSE Cardinality(Asking)
<1>1. IsFiniteSet(Asking) /\ Cardinality(Asking) \in Nat
  BY ActorsFinite, FS_Subset, FS_CardinalityType DEF Asking
<1>2. \A u \in Task : pc'[u] = IF u = t THEN to ELSE pc[u]
  BY DEF Placed, Goto, Actor
<1>3. CASE to \in {"reading", "checkin"} /\ pc[t] \notin {"reading", "checkin"}
  <2>1. Asking' = Asking \cup {t} /\ t \notin Asking
    BY <1>2, <1>3 DEF Asking
  <2>2. QED
    BY <1>1, <1>3, <2>1, CountJoined
<1>4. CASE to \notin {"reading", "checkin"} /\ pc[t] \in {"reading", "checkin"}
  <2>1. Asking' = Asking \ {t} /\ t \in Asking
    BY <1>2, <1>4 DEF Asking
  <2>2. QED
    BY <1>1, <1>4, <2>1, CountParted
<1>5. CASE to \in {"reading", "checkin"} <=> pc[t] \in {"reading", "checkin"}
  <2>1. Asking' = Asking
    BY <1>2, <1>5 DEF Asking
  <2>2. QED
    BY <1>1, <1>5, <2>1
<1>6. QED
  BY <1>3, <1>4, <1>5

LEMMA AskingElsewhere ==
  ASSUME Placed, NEW to, Goto(Warmer, to)
  PROVE  Asking' = Asking
BY DispatchAssumption DEF Placed, Goto, Actor, Asking

LEMMA CountedInit == Init => Counted
<1>1. Init => Handshaking = {} /\ Asking = {}
  BY DispatchAssumption DEF Init, Handshaking, Asking, Actor
<1>2. Cardinality({}) = 0
  BY FS_EmptySet
<1>3. Init => permits = GatePermits /\ active_asks = 0 /\ auth_writer = None
  BY DEF Init
<1>4. QED
  BY <1>1, <1>2, <1>3, DispatchAssumption DEF Counted

\* What a step of an actor takes and gives back.
Uses(a, to) ==
  /\ permits' = IF to = "handshake" /\ pc[a] # "handshake" THEN permits - 1
                ELSE IF to # "handshake" /\ pc[a] = "handshake" THEN permits + 1
                ELSE permits
  /\ active_asks' =
       IF a # Warmer /\ to \in {"reading", "checkin"} /\ pc[a] \notin {"reading", "checkin"}
         THEN active_asks + 1
       ELSE IF a # Warmer /\ to \notin {"reading", "checkin"} /\ pc[a] \in {"reading", "checkin"}
         THEN active_asks - 1
       ELSE active_asks
  /\ \/ auth_writer' = None
     \/ auth_writer' = a /\ to \in Fetching
     \/ auth_writer' = auth_writer /\ (a = auth_writer => pc[a] \notin Fetching)

LEMMA CountedStep ==
  ASSUME Placed, Counted, NEW a \in Actor, NEW to \in Location, Goto(a, to), Uses(a, to),
         to = "handshake" => permits > 0
  PROVE  Counted'
<1>1. pc'[a] = to /\ \A b \in Actor \ {a} : pc'[b] = pc[b]
  BY DEF Placed, Goto
<1>2. permits' + Cardinality(Handshaking') = GatePermits /\ permits' \in Nat
  BY HandshakingMoved, DispatchAssumption DEF Counted, Uses
<1>3. active_asks' = Cardinality(Asking')
  <2>1. CASE a \in Task
    BY <2>1, AskingMoved, DispatchAssumption DEF Counted, Uses
  <2>2. CASE a = Warmer
    BY <2>2, AskingElsewhere DEF Counted, Uses
  <2>3. QED
    BY <2>1, <2>2 DEF Actor
<1>4. /\ auth_writer' \in Actor \cup {None}
      /\ auth_writer' # None => pc'[auth_writer'] \in Fetching
  BY <1>1 DEF Counted, Uses
<1>5. QED
  BY <1>2, <1>3, <1>4 DEF Counted

\* A step between two awaits at which nothing of this is held.
LEMMA CountedMove ==
  ASSUME Placed, Counted, NEW a \in Actor, NEW to \in Location, Goto(a, to),
         UNCHANGED <<permits, active_asks>>, pc[a] # "handshake", to # "handshake",
         a # Warmer => (pc[a] \in {"reading", "checkin"} <=> to \in {"reading", "checkin"}),
         \/ auth_writer' = None
         \/ auth_writer' = a /\ to \in Fetching
         \/ auth_writer' = auth_writer /\ pc[a] \notin Fetching
  PROVE  Counted'
BY CountedStep DEF Uses

LEMMA CountedAuth ==
  ASSUME Placed, Counted, NEW a \in Actor, Auth(a)
  PROVE  Counted'
<1>1. CASE LoadCached(a)
  BY <1>1, CountedMove DEF LoadCached, AfterAuth, Location, Fetching
<1>2. CASE LoadStale(a)
  BY <1>2, CountedMove DEF LoadStale, Location, Fetching
<1>3. CASE Fetched(a)
  BY <1>3, CountedMove DEF Fetched, AfterAuth, Location, Fetching
<1>4. QED
  BY <1>1, <1>2, <1>3 DEF Auth

LEMMA CountedRefresh ==
  ASSUME Placed, Counted, NEW t \in Task, Begin(t) \/ FetchFailed(t) \/ Refresh(t)
  PROVE  Counted'
<1>1. t \in Actor
  BY DEF Actor
<1>2. CASE Begin(t)
  BY <1>1, <1>2, CountedMove DEF Begin, Location, Fetching
<1>3. CASE FetchFailed(t)
  BY <1>1, <1>3, CountedMove DEF FetchFailed, Location, Fetching
<1>4. CASE RefreshShared(t) \/ RefreshStart(t)
  BY <1>1, <1>4, CountedMove DEF RefreshShared, RefreshStart, AfterRefresh, Location, Fetching
<1>5. CASE RefreshDone(t) \/ RefreshFailed(t)
  BY <1>1, <1>5, CountedMove DEF RefreshDone, RefreshFailed, AfterRefresh, Location, Fetching
<1>6. QED
  BY <1>2, <1>3, <1>4, <1>5 DEF Refresh

\* The gate: TakePermit is the one place where a permit is taken, and each end
\* of a handshake gives it back.
LEMMA CountedGate ==
  ASSUME Placed, Counted, NEW a \in Actor,
         \/ Connecting(a)
         \/ a \in Task /\ (HandshakeRefused(a) \/ HandshakeFailed(a))
         \/ a = Warmer /\ WarmHandshakeFailed
  PROVE  Counted'
<1>1. /\ UNCHANGED <<active_asks, auth_writer>>
      /\ \/ /\ pc[a] = "gate" /\ Goto(a, "handshake")
            /\ permits > 0 /\ permits' = permits - 1
         \/ /\ pc[a] = "handshake" /\ permits' = permits + 1
            /\ \E to \in Location : Goto(a, to) /\ to # "handshake"
                 /\ (a # Warmer => to \notin {"reading", "checkin"})
  BY DEF Connecting, TakePermit, Connect, HandshakeRefused, HandshakeFailed, WarmHandshakeFailed,
         Location
<1>2. QED
  BY <1>1, CountedStep DEF Uses, Location, Fetching

LEMMA CountedConnect ==
  ASSUME Placed, Counted, NEW t \in Task,
         CheckoutReused(t) \/ CheckoutEmpty(t) \/ BackedOff(t) \/ GiveUpConnecting(t)
  PROVE  Counted'
<1>1. /\ UNCHANGED <<permits, active_asks, auth_writer>> /\ pc[t] \in {"checkout", "backoff"}
      /\ \E to \in {"connected", "auth", "gate", "checkout", "settle"} : Goto(t, to)
  BY DEF CheckoutReused, CheckoutEmpty, BackedOff, GiveUpConnecting
<1>2. QED
  BY <1>1, CountedMove DEF Location, Fetching, Actor

LEMMA CountedExchange ==
  ASSUME Placed, Counted, NEW t \in Task, Exchange(t) \/ Checkin(t)
  PROVE  Counted'
<1>1. t \in Actor /\ t # Warmer
  BY DispatchAssumption DEF Actor
<1>2. CASE Send(t)
  <2>1. /\ pc[t] = "connected" /\ Goto(t, "reading") /\ active_asks' = active_asks + 1
        /\ UNCHANGED <<permits, auth_writer>>
    BY <1>2 DEF Send
  <2>2. QED
    BY <1>1, <2>1, CountedStep DEF Uses, Location, Fetching
<1>3. CASE ReadSuccess(t)
  <2>1. /\ pc[t] = "reading" /\ Goto(t, "checkin") /\ UNCHANGED <<active_asks, permits, auth_writer>>
    BY <1>3 DEF ReadSuccess
  <2>2. QED
    BY <1>1, <2>1, CountedMove DEF Location, Fetching
<1>4. CASE ReadError(t) \/ ReadLost(t) \/ Checkin(t)
  <2>1. /\ pc[t] \in {"reading", "checkin"} /\ Goto(t, "settle") /\ active_asks' = active_asks - 1
        /\ UNCHANGED <<permits, auth_writer>>
    BY <1>1, <1>4 DEF ReadError, ReadLost, Abort, Checkin
  <2>2. QED
    BY <1>1, <2>1, CountedStep DEF Uses, Location, Fetching
<1>5. QED
  BY <1>2, <1>3, <1>4 DEF Exchange

LEMMA CountedRest ==
  ASSUME Placed, Counted, NEW t \in Task,
         Ask(t) \/ (\E l \in Lane : Admit(t, l)) \/ Http(t) \/ Settle(t)
  PROVE  Counted'
<1>1. UNCHANGED <<permits, active_asks, auth_writer>>
  BY DEF Ask, Admit, Http, HttpSend, HttpEnd, HttpRefused, Settle
<1>2. /\ pc[t] \in {"idle", "seeking", "http_send", "http_reading", "settle"}
      /\ \E to \in {"seeking", "admitted", "http_reading", "settle", "refresh", "done"} : Goto(t, to)
  BY DEF Ask, Admit, Http, HttpSend, HttpEnd, HttpRefused, Settle
<1>3. QED
  BY <1>1, <1>2, CountedMove DEF Location, Fetching, Actor

\* A caller that goes away gives back what its ask has at that await.
LEMMA CountedCancel ==
  ASSUME Placed, Counted, NEW t \in Task, Cancel(t)
  PROVE  Counted'
<1>1. t \in Actor /\ t # Warmer
  BY DispatchAssumption DEF Actor
<1>2. /\ Goto(t, "done")
      /\ permits' = IF pc[t] = "handshake" THEN permits + 1 ELSE permits
      /\ auth_writer' = IF auth_writer = t THEN None ELSE auth_writer
      /\ active_asks' = IF pc[t] \in {"reading", "checkin"} THEN active_asks - 1 ELSE active_asks
  BY DEF Cancel, FreePermit
<1>3. QED
  BY <1>1, <1>2, CountedStep DEF Uses, Location, Fetching

LEMMA CountedWarm == ASSUME Placed, Counted, Warm PROVE Counted'
<1>1. Warmer \in Actor
  BY DEF Actor
<1>2. CASE WarmNext \/ WarmAuthFailed \/ WarmBackedOff
  BY <1>1, <1>2, CountedMove DEF WarmNext, WarmAuthFailed, WarmBackedOff, Location, Fetching
<1>3. CASE Checkin(Warmer)
  <2>1. /\ pc[Warmer] = "checkin" /\ Goto(Warmer, "warming")
        /\ UNCHANGED <<active_asks, permits, auth_writer>>
    BY <1>3 DEF Checkin
  <2>2. QED
    BY <1>1, <2>1, CountedMove DEF Location, Fetching
<1>4. QED
  BY <1>1, <1>2, <1>3, CountedAuth, CountedGate DEF Warm

LEMMA CountedKept == ASSUME Placed, Counted, [Next]_vars PROVE Counted'
<1>1. CASE UNCHANGED <<pc, permits, active_asks, auth_writer>>
  BY <1>1 DEF Counted, Handshaking, Asking
<1>2. (\E s \in Socket : Provider(s)) \/ Elapse \/ UNCHANGED vars
        => UNCHANGED <<pc, permits, active_asks, auth_writer>>
  BY DEF Provider, Answer, Hangup, Elapse, vars
<1>3. ASSUME NEW t \in Task, Ask(t) \/ Dispatch(t) \/ Cancel(t) PROVE Counted'
  BY <1>3, CountedAuth, CountedRefresh, CountedGate, CountedConnect, CountedExchange,
     CountedRest, CountedCancel DEF Dispatch, Acquire, Actor
<1>4. QED
  BY <1>1, <1>2, <1>3, CountedWarm DEF Next

\* What an ask holds it gives back at whichever await it ends or is dropped:
\* its lease (DispatchCompletionGuard), its handshake permit, the write lock of
\* the auth cache, and its place in active_asks.
THEOREM EverythingReturned == Spec => []NothingLeaks
<1>1. Placed /\ Counted => NothingLeaks
  <2>1. Ledger!Admitted = holders["http"] \cup holders["websocket"]
    BY DEF Ledger!Admitted, Lane
  <2>2. QED
    BY <2>1 DEF Placed, LeaseFor, Outside, Counted, Handshaking, Asking, Fetching, NothingLeaks
<1>2. QED
  BY <1>1, PlacedInit, PlacedKept, CountedInit, CountedKept, PTL DEF Spec

-----------------------------------------------------------------------------
(* Who owns a socket *)

Owning == {"connected", "reading", "checkin"}

Owned ==
  /\ socket \in [Actor -> Socket \cup {None}]
  /\ \A a \in Actor : socket[a] # None <=> pc[a] \in Owning
  /\ idle \in Seq(Socket) /\ Len(idle) <= MaxIdle
  /\ SocketsExclusive

LEMMA OwnedInit == Init => Owned
<1>1. Init => socket = [a \in Actor |-> None] /\ idle = <<>>
              /\ pc = [a \in Actor |-> IF a = Warmer THEN "warming" ELSE "idle"]
  BY DEF Init
<1>2. <<>> \in Seq(Socket) /\ Len(<<>>) = 0 /\ DOMAIN <<>> = {} /\ MaxIdle \in Nat
  BY DispatchAssumption DEF MaxIdle, Lane
<1>3. ASSUME Init PROVE Idle = {} /\ SocketsExclusive
  BY <1>1, <1>2, <1>3 DEF Idle, SocketsExclusive
<1>4. QED
  BY <1>1, <1>2, <1>3 DEF Owned, Owning

\* A step of one actor moves the owner of no other socket.
LEMMA OwnedMove ==
  ASSUME Placed, Owned, NEW a \in Actor, NEW to, Goto(a, to), UNCHANGED <<socket, idle>>,
         pc[a] \in Owning <=> to \in Owning
  PROVE  Owned'
<1>1. \A b \in Actor : pc'[b] = IF b = a THEN to ELSE pc[b]
  BY DEF Placed, Goto
<1>2. SocketsExclusive'
  BY DEF Owned, SocketsExclusive, Idle
<1>3. QED
  BY <1>1, <1>2 DEF Owned

\* The stack is popped: the place that was on top is gone.
LEMMA Popped ==
  ASSUME Owned, idle # <<>>, idle' = SubSeq(idle, 1, Len(idle) - 1)
  PROVE  /\ idle' \in Seq(Socket) /\ Len(idle') = Len(idle) - 1 /\ Len(idle) \in Nat \ {0}
         /\ DOMAIN idle = 1..Len(idle) /\ DOMAIN idle' = 1..(Len(idle) - 1)
         /\ \A i \in DOMAIN idle' : idle'[i] = idle[i]
<1>1. /\ Len(idle) \in Nat \ {0} /\ DOMAIN idle = 1..Len(idle)
      /\ \A i \in 1..Len(idle) : idle[i] \in Socket
  BY EmptySeq, LenProperties DEF Owned
<1>2. /\ idle' \in Seq(Socket) /\ Len(idle') = Len(idle) - 1
      /\ \A i \in 1..(Len(idle) - 1) : idle'[i] = idle[i]
  BY <1>1, SubSeqProperties
<1>3. QED
  BY <1>1, <1>2, LenProperties

LEMMA OwnedReused ==
  ASSUME Placed, Owned, NEW t \in Task, CheckoutReused(t)
  PROVE  Owned'
<1>1. /\ pc[t] = "checkout" /\ Goto(t, "connected") /\ idle # <<>> /\ t \in Actor
      /\ socket' = [socket EXCEPT ![t] = idle[Len(idle)]]
      /\ idle' = SubSeq(idle, 1, Len(idle) - 1)
  BY DEF CheckoutReused, Actor
<1>2. \A b \in Actor : pc'[b] = IF b = t THEN "connected" ELSE pc[b]
  BY <1>1 DEF Placed, Goto
<1>3. /\ idle' \in Seq(Socket) /\ Len(idle') = Len(idle) - 1 /\ Len(idle) \in Nat \ {0}
      /\ DOMAIN idle = 1..Len(idle) /\ DOMAIN idle' = 1..(Len(idle) - 1)
      /\ \A i \in DOMAIN idle' : idle'[i] = idle[i]
  BY <1>1, Popped
<1>4. idle[Len(idle)] \in Socket /\ idle[Len(idle)] \in Idle /\ idle[Len(idle)] # None
  BY <1>3, ElementOfSeq, DispatchAssumption DEF Idle, Owned
<1>5. /\ socket' \in [Actor -> Socket \cup {None}]
      /\ \A b \in Actor : socket'[b] = IF b = t THEN idle[Len(idle)] ELSE socket[b]
  BY <1>1, <1>4 DEF Owned
<1>6. \A b \in Actor : socket'[b] # None <=> pc'[b] \in Owning
  BY <1>2, <1>4, <1>5 DEF Owned, Owning
<1>7. \A i, j \in DOMAIN idle' : idle'[i] = idle'[j] => i = j
  BY <1>3 DEF Owned, SocketsExclusive
<1>8. Idle' = Idle \ {idle[Len(idle)]}
  BY <1>3 DEF Owned, SocketsExclusive, Idle
<1>9. \A b \in Actor : socket'[b] \notin Idle'
  BY <1>5, <1>8 DEF Owned, SocketsExclusive
<1>10. \A b, c \in Actor : b # c /\ socket'[b] # None => socket'[b] # socket'[c]
  BY <1>4, <1>5 DEF Owned, SocketsExclusive
<1>11. Len(idle') <= MaxIdle
  BY <1>3, DispatchAssumption DEF Owned, MaxIdle, Lane
<1>12. QED
  BY <1>3, <1>5, <1>6, <1>7, <1>9, <1>10, <1>11 DEF Owned, SocketsExclusive

LEMMA OwnedConnected ==
  ASSUME Placed, Owned, NEW a \in Actor, NEW s \in Socket, Connect(a, s)
  PROVE  Owned'
<1>1. /\ pc[a] = "handshake" /\ s \in Unused /\ socket' = [socket EXCEPT ![a] = s]
      /\ UNCHANGED idle /\ \E to \in Owning : Goto(a, to)
  BY DEF Connect, Owning
<1>2. pc'[a] \in Owning /\ \A b \in Actor \ {a} : pc'[b] = pc[b]
  BY <1>1 DEF Placed, Goto
<1>3. \A b \in Actor : socket'[b] = IF b = a THEN s ELSE socket[b]
  BY <1>1 DEF Owned
<1>4. s # None /\ s \notin Idle /\ Idle' = Idle /\ \A b \in Actor : socket[b] # s
  BY <1>1, DispatchAssumption DEF Unused, Idle
<1>5. SocketsExclusive'
  BY <1>1, <1>3, <1>4 DEF Owned, SocketsExclusive
<1>6. QED
  BY <1>1, <1>2, <1>3, <1>4, <1>5 DEF Owned

LEMMA OwnedDropped ==
  ASSUME Placed, Owned, NEW a \in Actor, NEW to, to \notin Owning, Goto(a, to), DropSocket(a)
  PROVE  Owned'
<1>1. \A b \in Actor : pc'[b] = IF b = a THEN to ELSE pc[b]
  BY DEF Placed, Goto
<1>2. \A b \in Actor : socket'[b] = IF b = a THEN None ELSE socket[b]
  BY DEF Owned, DropSocket
<1>3. Idle' = Idle /\ None \notin Idle /\ UNCHANGED idle
  BY DispatchAssumption, ElementOfSeq, LenProperties DEF DropSocket, Owned, Idle
<1>4. SocketsExclusive'
  BY <1>2, <1>3 DEF Owned, SocketsExclusive
<1>5. QED
  BY <1>1, <1>2, <1>3, <1>4 DEF Owned, DropSocket

\* A socket that is handed back is in the stack or closed, and nowhere else.
LEMMA OwnedReturned ==
  ASSUME Placed, Owned, NEW a \in Actor, Checkin(a)
  PROVE  Owned'
<1>1. /\ pc[a] = "checkin" /\ socket' = [socket EXCEPT ![a] = None]
      /\ idle' = (IF Len(idle) < MaxIdle THEN Append(idle, socket[a]) ELSE idle)
      /\ \E to \in {"warming", "settle"} : Goto(a, to)
  BY DEF Checkin, Push
<1>2. pc'[a] \notin Owning /\ \A b \in Actor \ {a} : pc'[b] = pc[b]
  BY <1>1 DEF Placed, Goto, Owning
<1>3. \A b \in Actor : socket'[b] = IF b = a THEN None ELSE socket[b]
  BY <1>1 DEF Owned
<1>4. socket[a] \in Socket /\ socket[a] \notin Idle
  BY <1>1 DEF Owned, Owning, SocketsExclusive
<1>5. Len(idle) \in Nat /\ DOMAIN idle = 1..Len(idle) /\ MaxIdle \in Nat /\ None \notin Idle
  BY DispatchAssumption, LenProperties, ElementOfSeq DEF Owned, MaxIdle, Lane, Idle
<1>6. CASE Len(idle) < MaxIdle
  <2>1. /\ idle' \in Seq(Socket) /\ Len(idle') = Len(idle) + 1
        /\ \A i \in 1..Len(idle) : idle'[i] = idle[i]
        /\ idle'[Len(idle) + 1] = socket[a]
    BY <1>1, <1>4, <1>6, AppendProperties DEF Owned
  <2>2. DOMAIN idle' = 1..(Len(idle) + 1)
    BY <2>1, LenProperties
  <2>3. Idle' = Idle \cup {socket[a]}
    BY <1>5, <2>1, <2>2 DEF Idle
  <2>4. \A i, j \in DOMAIN idle' : idle'[i] = idle'[j] => i = j
    BY <1>4, <1>5, <2>1, <2>2 DEF Owned, SocketsExclusive, Idle
  <2>5. SocketsExclusive'
    BY <1>3, <1>4, <1>5, <2>3, <2>4, DispatchAssumption DEF Owned, SocketsExclusive
  <2>6. QED
    BY <1>1, <1>2, <1>3, <1>5, <1>6, <2>1, <2>5 DEF Owned
<1>7. CASE ~(Len(idle) < MaxIdle)
  <2>1. UNCHANGED idle /\ Idle' = Idle
    BY <1>1, <1>7 DEF Idle
  <2>2. SocketsExclusive'
    BY <1>3, <1>5, <2>1 DEF Owned, SocketsExclusive
  <2>3. QED
    BY <1>1, <1>2, <1>3, <2>1, <2>2 DEF Owned
<1>8. QED
  BY <1>6, <1>7

LEMMA OwnedAbort ==
  ASSUME Placed, Owned, NEW t \in Task, ReadError(t) \/ ReadLost(t) \/ Cancel(t)
  PROVE  Owned'
<1>1. t \in Actor /\ DropSocket(t) /\ (Goto(t, "settle") \/ Goto(t, "done"))
  BY DEF ReadError, ReadLost, Abort, Cancel, Actor
<1>2. QED
  BY <1>1, OwnedDropped DEF Owning

\* The steps of an ask at which no socket changes hands.
Keeps(t) ==
  \/ Ask(t) \/ (\E l \in Lane : Admit(t, l)) \/ Begin(t) \/ FetchFailed(t) \/ Refresh(t)
  \/ CheckoutEmpty(t) \/ HandshakeRefused(t) \/ HandshakeFailed(t) \/ BackedOff(t)
  \/ GiveUpConnecting(t) \/ Send(t) \/ ReadSuccess(t) \/ Http(t) \/ Settle(t)

LEMMA KeepsSockets == ASSUME NEW t, Keeps(t) PROVE UNCHANGED <<socket, idle>>
BY DEF Keeps, Ask, Admit, Begin, FetchFailed, Refresh, RefreshShared, RefreshStart, RefreshDone,
       RefreshFailed, CheckoutEmpty, HandshakeRefused, HandshakeFailed, BackedOff,
       GiveUpConnecting, Send, ReadSuccess, Http, HttpSend, HttpEnd, HttpRefused, Settle, pool

LEMMA OwnedQuiet ==
  ASSUME Placed, Owned, NEW a \in Actor, UNCHANGED <<socket, idle>>,
         \/ Auth(a) \/ TakePermit(a)
         \/ a \in Task /\ Keeps(a)
         \/ a = Warmer /\ (WarmNext \/ WarmAuthFailed \/ WarmHandshakeFailed \/ WarmBackedOff)
  PROVE  Owned'
<1>1. PICK to : Goto(a, to) /\ (pc[a] \in Owning <=> to \in Owning)
  <2>1. CASE Auth(a) \/ TakePermit(a)
    BY <2>1 DEF Auth, LoadCached, LoadStale, Fetched, TakePermit, AfterAuth, Owning
  <2>2. CASE a = Warmer /\ (WarmNext \/ WarmAuthFailed \/ WarmHandshakeFailed \/ WarmBackedOff)
    BY <2>2 DEF WarmNext, WarmAuthFailed, WarmHandshakeFailed, WarmBackedOff, Owning
  <2>3. CASE \/ Ask(a) \/ (\E l \in Lane : Admit(a, l)) \/ Begin(a) \/ FetchFailed(a)
             \/ CheckoutEmpty(a) \/ HandshakeRefused(a) \/ HandshakeFailed(a)
    BY <2>3 DEF Ask, Admit, Begin, FetchFailed, CheckoutEmpty, HandshakeRefused, HandshakeFailed,
                Owning
  <2>4. CASE \/ Refresh(a) \/ BackedOff(a) \/ GiveUpConnecting(a) \/ Http(a) \/ Settle(a)
    BY <2>4 DEF Refresh, RefreshShared, RefreshStart, RefreshDone, RefreshFailed, AfterRefresh,
                BackedOff, GiveUpConnecting, Http, HttpSend, HttpEnd, HttpRefused, Settle, Owning
  <2>5. CASE Send(a)
    BY <2>5 DEF Send, Owning
  <2>6. CASE ReadSuccess(a)
    BY <2>6 DEF ReadSuccess, Owning
  <2>7. QED
    BY <2>1, <2>2, <2>3, <2>4, <2>5, <2>6 DEF Keeps
<1>2. QED
  BY <1>1, OwnedMove

LEMMA OwnedKept == ASSUME Placed, Owned, [Next]_vars PROVE Owned'
<1>1. CASE UNCHANGED <<pc, socket, idle>>
  BY <1>1 DEF Owned, SocketsExclusive, Idle
<1>2. (\E s \in Socket : Provider(s)) \/ Elapse \/ UNCHANGED vars => UNCHANGED <<pc, socket, idle>>
  BY DEF Provider, Answer, Hangup, Elapse, vars, pool
<1>3. ASSUME NEW a \in Actor,
             Auth(a) \/ Connecting(a) \/ Checkin(a) \/ (a = Warmer /\ Warm)
      PROVE  Owned'
  <2>1. Auth(a) \/ TakePermit(a) => UNCHANGED <<socket, idle>>
    BY DEF Auth, LoadCached, LoadStale, Fetched, TakePermit, pool
  <2>2. WarmNext \/ WarmAuthFailed \/ WarmHandshakeFailed \/ WarmBackedOff
          => UNCHANGED <<socket, idle>>
    BY DEF WarmNext, WarmAuthFailed, WarmHandshakeFailed, WarmBackedOff, pool
  <2>3. QED
    BY <1>3, <2>1, <2>2, OwnedQuiet, OwnedConnected, OwnedReturned DEF Warm, Connecting
<1>4. ASSUME NEW t \in Task, Keeps(t) PROVE Owned'
  BY <1>4, KeepsSockets, OwnedQuiet DEF Actor
<1>5. ASSUME NEW t \in Task, Ask(t) \/ Dispatch(t) \/ Cancel(t) PROVE Owned'
  BY <1>3, <1>4, <1>5, OwnedReused, OwnedAbort DEF Dispatch, Acquire, Exchange, Actor, Keeps
<1>6. CASE Warm
  BY <1>3, <1>6 DEF Actor
<1>7. QED
  BY <1>1, <1>2, <1>5, <1>6 DEF Next

\* "MUST NOT multiplex two active asks on one WSS socket": however asks reuse,
\* connect, hand back and abandon sockets, each has one owner, an ask, the
\* prewarm or one place in the idle stack (CodexResponsesWssPool).
THEOREM OneOwnerPerSocket == Spec => []SocketsExclusive
<1>1. Owned => SocketsExclusive
  BY DEF Owned
<1>2. QED
  BY <1>1, PlacedInit, PlacedKept, OwnedInit, OwnedKept, PTL DEF Spec

-----------------------------------------------------------------------------
(* What is in flight on a socket *)

Quiet(s) == link[s].requests = <<>> /\ link[s].frames = <<>>

\* Of one request, first it and then its answer are in flight.
Carries(s, t) ==
  \/ link[s].requests = <<t>> /\ link[s].frames = <<>>
  \/ /\ link[s].requests = <<>>
     /\ \E c \in Class : link[s].frames = <<[to |-> t, class |-> c]>>

Clean ==
  /\ link \in [Socket -> Link]
  /\ answer \in [Task -> Task \cup {None}]
  /\ \A s \in Socket :
       Quiet(s) \/ \E t \in Task : pc[t] = "reading" /\ socket[t] = s /\ Carries(s, t)
  /\ AnswersOwnAsk

LEMMA Single ==
  ASSUME NEW S, NEW x \in S
  PROVE  /\ <<>> \in Seq(S) /\ <<x>> \in Seq(S) /\ Append(<<>>, x) = <<x>>
         /\ Head(<<x>>) = x /\ Tail(<<x>>) = <<>> /\ <<x>> # <<>>
OBVIOUS

LEMMA CleanInit == Init => Clean
<1>1. ASSUME Init PROVE \A s \in Socket : link[s] = NewLink /\ Quiet(s)
  BY <1>1 DEF Init, NewLink, Quiet
<1>2. NewLink \in Link
  BY DEF NewLink, Link
<1>3. Init => link \in [Socket -> Link] /\ answer \in [Task -> Task \cup {None}] /\ AnswersOwnAsk
  BY <1>2 DEF Init, AnswersOwnAsk
<1>4. QED
  BY <1>1, <1>3 DEF Clean

\* A step at the one socket s: the others keep what they carry and who reads.
LEMMA CleanStep ==
  ASSUME Clean, NEW s, link' \in [Socket -> Link],
         answer' \in [Task -> Task \cup {None}], AnswersOwnAsk',
         \A r \in Socket \ {s} : link'[r] = link[r],
         \A t \in Task : pc[t] = "reading" /\ socket[t] # s
                           => pc'[t] = "reading" /\ socket'[t] = socket[t],
         s \in Socket =>
           \/ Quiet(s)'
           \/ \E t \in Task : pc'[t] = "reading" /\ socket'[t] = s /\ Carries(s, t)'
  PROVE  Clean'
<1>1. ASSUME NEW r \in Socket \ {s}
      PROVE  \/ Quiet(r)'
             \/ \E t \in Task : pc'[t] = "reading" /\ socket'[t] = r /\ Carries(r, t)'
  <2>1. link'[r] = link[r]
    BY <1>1
  <2>2. CASE Quiet(r)
    BY <2>1, <2>2 DEF Quiet
  <2>3. ASSUME NEW t \in Task, pc[t] = "reading", socket[t] = r, Carries(r, t)
        PROVE  pc'[t] = "reading" /\ socket'[t] = r /\ Carries(r, t)'
    <3>1. pc'[t] = "reading" /\ socket'[t] = r
      BY <1>1, <2>3
    <3>2. Carries(r, t)'
      BY <2>1, <2>3 DEF Carries
    <3>3. QED
      BY <3>1, <3>2
  <2>4. QED
    BY <2>2, <2>3 DEF Clean
<1>2. QED
  BY <1>1 DEF Clean

\* An attempt ends with an answer of its own or with none.
LEMMA EndsOwn ==
  ASSUME Clean, NEW t \in Task, NEW class, NEW of \in {t, None}, End(t, class, of)
  PROVE  answer' \in [Task -> Task \cup {None}] /\ AnswersOwnAsk'
BY DEF Clean, AnswersOwnAsk, End

LEMMA CleanQuiet ==
  ASSUME Placed, Owned, Clean, NEW a \in Actor, NEW to, Goto(a, to), pc[a] # "reading",
         UNCHANGED link, \A b \in Actor \ {a} : socket'[b] = socket[b],
         answer' \in [Task -> Task \cup {None}], AnswersOwnAsk'
  PROVE  Clean'
<1>1. \A t \in Task : pc[t] = "reading" => pc'[t] = "reading" /\ socket'[t] = socket[t]
  BY DEF Placed, Goto, Actor
<1>2. QED
  BY <1>1, CleanStep, DispatchAssumption DEF Clean

\* The reader of a socket goes away and the socket with it: what is still in
\* flight on it goes nowhere.
LEMMA CleanDropped ==
  ASSUME Placed, Owned, Clean, NEW t \in Task, NEW to, Goto(t, to), DropSocket(t),
         answer' \in [Task -> Task \cup {None}], AnswersOwnAsk'
  PROVE  Clean'
<1>1. PICK s \in Socket \cup {None} : s = socket[t]
  BY DEF Owned, Actor
<1>2. \A b \in Actor \ {t} : pc'[b] = pc[b] /\ socket'[b] = socket[b]
  BY DEF Placed, Owned, Goto, DropSocket
<1>3. \A u \in Task : pc[u] = "reading" /\ socket[u] # s
                        => pc'[u] = "reading" /\ socket'[u] = socket[u]
  BY <1>1, <1>2 DEF Actor
<1>4. CASE s = None
  <2>1. UNCHANGED link
    BY <1>1, <1>4 DEF DropSocket
  <2>2. QED
    BY <1>3, <1>4, <2>1, CleanStep, DispatchAssumption DEF Clean
<1>5. CASE s \in Socket
  <2>1. NewLink \in Link
    BY DEF NewLink, Link
  <2>2. link' = [link EXCEPT ![s] = NewLink]
    BY <1>1, <1>5, DispatchAssumption DEF DropSocket
  <2>3. /\ link' \in [Socket -> Link] /\ link'[s] = NewLink
        /\ \A r \in Socket \ {s} : link'[r] = link[r]
    BY <1>5, <2>1, <2>2 DEF Clean
  <2>4. Quiet(s)'
    BY <2>3 DEF Quiet, NewLink
  <2>5. QED
    BY <1>3, <2>3, <2>4, CleanStep
<1>6. QED
  BY <1>1, <1>4, <1>5

\* What is in flight on the socket of an actor is its own.
LEMMA OwnLink ==
  ASSUME Owned, Clean, NEW a \in Actor, NEW s \in Socket, socket[a] = s
  PROVE  Quiet(s) \/ (a \in Task /\ pc[a] = "reading" /\ Carries(s, a))
BY DispatchAssumption DEF Owned, SocketsExclusive, Clean, Actor

LEMMA CleanSend ==
  ASSUME Placed, Owned, Clean, NEW t \in Task, Send(t)
  PROVE  Clean'
<1>1. /\ t \in Actor /\ pc[t] = "connected" /\ Goto(t, "reading")
      /\ UNCHANGED <<socket, answer>>
      /\ link' = IF link[socket[t]].open
                 THEN [link EXCEPT ![socket[t]].requests = Append(@, t)] ELSE link
  BY DEF Send, result, Actor
<1>2. PICK s \in Socket : s = socket[t]
  BY <1>1 DEF Owned, Owning
<1>3. Quiet(s) /\ link[s] \in Link
  BY <1>1, <1>2, OwnLink DEF Clean
<1>4. pc'[t] = "reading" /\ \A u \in Task \ {t} : pc'[u] = pc[u]
  BY <1>1 DEF Placed, Goto, Actor
<1>5. \A u \in Task : pc[u] = "reading" /\ socket[u] # s
                        => pc'[u] = "reading" /\ socket'[u] = socket[u]
  BY <1>1, <1>4
<1>6. answer' \in [Task -> Task \cup {None}] /\ AnswersOwnAsk'
  BY <1>1 DEF Clean, AnswersOwnAsk
<1>7. CASE link[s].open
  <2>1. link' = [link EXCEPT ![s].requests = Append(link[s].requests, t)]
    BY <1>1, <1>2, <1>7
  <2>2. Append(link[s].requests, t) = <<t>> /\ <<t>> \in Seq(Task)
    BY <1>3, Single DEF Quiet
  <2>3. link' = [link EXCEPT ![s].requests = <<t>>] /\ link \in [Socket -> Link]
    BY <2>1, <2>2 DEF Clean
  <2>4. /\ link' \in [Socket -> Link]
        /\ link'[s].requests = <<t>> /\ link'[s].frames = link[s].frames
        /\ \A r \in Socket \ {s} : link'[r] = link[r]
    BY <2>2, <2>3 DEF Link
  <2>5. Carries(s, t)'
    BY <1>3, <2>4 DEF Carries, Quiet
  <2>6. QED
    BY <1>1, <1>2, <1>4, <1>5, <1>6, <2>4, <2>5, CleanStep
<1>8. CASE ~link[s].open
  <2>1. UNCHANGED link
    BY <1>1, <1>2, <1>8
  <2>2. Quiet(s)'
    BY <1>3, <2>1 DEF Quiet
  <2>3. QED
    BY <1>5, <1>6, <2>1, <2>2, CleanStep DEF Clean
<1>9. QED
  BY <1>7, <1>8

\* The one frame an ask can read is the answer to its own request, and none is
\* behind it: the socket it hands back carries nothing.
LEMMA CleanRead ==
  ASSUME Placed, Owned, Clean, NEW t \in Task, ReadSuccess(t)
  PROVE  Clean'
<1>1. /\ t \in Actor /\ pc[t] = "reading" /\ Goto(t, "checkin")
      /\ link[socket[t]].frames # <<>>
      /\ End(t, "Success", Head(link[socket[t]].frames).to)
      /\ link' = [link EXCEPT ![socket[t]].frames = Tail(@)]
      /\ UNCHANGED socket
  BY DEF ReadSuccess, Actor
<1>2. PICK s \in Socket : s = socket[t]
  BY <1>1 DEF Owned, Owning
<1>3. Carries(s, t) /\ link[s] \in Link
  BY <1>1, <1>2, OwnLink DEF Clean, Quiet
<1>4. PICK c \in Class : link[s].frames = <<[to |-> t, class |-> c]>> /\ link[s].requests = <<>>
  BY <1>1, <1>2, <1>3 DEF Carries
<1>5. [to |-> t, class |-> c] \in Frame
  BY DEF Frame
<1>6. Head(link[s].frames).to = t /\ Tail(link[s].frames) = <<>> /\ <<>> \in Seq(Frame)
  BY <1>4, <1>5, Single
<1>7. answer' \in [Task -> Task \cup {None}] /\ AnswersOwnAsk'
  BY <1>1, <1>2, <1>6, EndsOwn
<1>8. \A u \in Task : pc[u] = "reading" /\ socket[u] # s
                        => pc'[u] = "reading" /\ socket'[u] = socket[u]
  BY <1>1, <1>2 DEF Placed, Goto, Actor
<1>9. link' = [link EXCEPT ![s].frames = <<>>] /\ link \in [Socket -> Link]
  BY <1>1, <1>2, <1>6 DEF Clean
<1>10. /\ link' \in [Socket -> Link]
       /\ link'[s].requests = <<>> /\ link'[s].frames = <<>>
       /\ \A r \in Socket \ {s} : link'[r] = link[r]
  BY <1>4, <1>6, <1>9 DEF Link
<1>11. Quiet(s)'
  BY <1>10 DEF Quiet
<1>12. QED
  BY <1>7, <1>8, <1>10, <1>11, CleanStep

LEMMA CleanCheckin ==
  ASSUME Placed, Owned, Clean, NEW a \in Actor, Checkin(a)
  PROVE  Clean'
<1>1. /\ pc[a] = "checkin" /\ (\E to : Goto(a, to)) /\ UNCHANGED answer
      /\ socket' = [socket EXCEPT ![a] = None]
      /\ (UNCHANGED link \/ link' = [link EXCEPT ![socket[a]] = NewLink])
  BY DEF Checkin, result
<1>2. PICK s \in Socket : s = socket[a]
  BY <1>1 DEF Owned, Owning
<1>3. Quiet(s) /\ NewLink \in Link
  BY <1>1, <1>2, OwnLink DEF NewLink, Link
<1>4. \A u \in Task : pc[u] = "reading" => pc'[u] = "reading" /\ socket'[u] = socket[u]
  BY <1>1 DEF Placed, Owned, Goto, Actor
<1>5. /\ link' \in [Socket -> Link] /\ (link'[s] = link[s] \/ link'[s] = NewLink)
      /\ \A r \in Socket \ {s} : link'[r] = link[r]
  BY <1>1, <1>2, <1>3 DEF Clean
<1>6. Quiet(s)'
  BY <1>3, <1>5 DEF Quiet, NewLink
<1>7. answer' \in [Task -> Task \cup {None}] /\ AnswersOwnAsk'
  BY <1>1 DEF Clean, AnswersOwnAsk
<1>8. QED
  BY <1>4, <1>5, <1>6, <1>7, CleanStep

\* The provider answers the one request it has, or hangs up on it.
LEMMA CleanProvider ==
  ASSUME Clean, NEW s \in Socket, Provider(s)
  PROVE  Clean'
<1>1. UNCHANGED <<pc, socket, answer>>
  BY DEF Provider, Answer, Hangup, result
<1>2. answer' \in [Task -> Task \cup {None}] /\ AnswersOwnAsk'
  BY <1>1 DEF Clean, AnswersOwnAsk
<1>3. link[s] \in Link
  BY DEF Clean
<1>4. CASE Hangup(s)
  <2>1. link' = [link EXCEPT ![s].open = FALSE] /\ link \in [Socket -> Link]
    BY <1>4 DEF Hangup, Clean
  <2>2. /\ link' \in [Socket -> Link]
        /\ link'[s].requests = link[s].requests /\ link'[s].frames = link[s].frames
        /\ \A r \in Socket \ {s} : link'[r] = link[r]
    BY <2>1 DEF Link
  <2>3. Quiet(s)' = Quiet(s) /\ \A t \in Task : Carries(s, t)' = Carries(s, t)
    BY <2>2 DEF Quiet, Carries
  <2>4. \/ Quiet(s)'
        \/ \E t \in Task : pc'[t] = "reading" /\ socket'[t] = s /\ Carries(s, t)'
    BY <1>1, <2>3 DEF Clean
  <2>5. QED
    BY <1>1, <1>2, <2>2, <2>4, CleanStep
<1>5. ASSUME NEW c \in Class, Answer(s, c) PROVE Clean'
  <2>1. /\ link[s].requests # <<>> /\ link \in [Socket -> Link]
        /\ link' = [link EXCEPT
             ![s].requests = Tail(link[s].requests),
             ![s].frames = Append(link[s].frames, [to |-> Head(link[s].requests), class |-> c])]
    BY <1>5 DEF Answer, Clean
  <2>2. PICK t \in Task : pc[t] = "reading" /\ socket[t] = s /\ Carries(s, t)
    BY <2>1 DEF Clean, Quiet
  <2>3. link[s].requests = <<t>> /\ link[s].frames = <<>>
    BY <2>1, <2>2 DEF Carries
  <2>4. Head(link[s].requests) = t /\ Tail(link[s].requests) = <<>> /\ <<>> \in Seq(Task)
    BY <2>3, Single
  <2>5. [to |-> t, class |-> c] \in Frame
    BY DEF Frame
  <2>6. /\ Append(link[s].frames, [to |-> t, class |-> c]) = <<[to |-> t, class |-> c]>>
        /\ <<[to |-> t, class |-> c]>> \in Seq(Frame)
    BY <2>3, <2>5, Single
  <2>7. link' = [link EXCEPT ![s].requests = <<>>, ![s].frames = <<[to |-> t, class |-> c]>>]
    BY <2>1, <2>4, <2>6
  <2>8. /\ link' \in [Socket -> Link]
        /\ link'[s].requests = <<>> /\ link'[s].frames = <<[to |-> t, class |-> c]>>
        /\ \A r \in Socket \ {s} : link'[r] = link[r]
    BY <2>1, <2>4, <2>6, <2>7 DEF Link
  <2>9. Carries(s, t)'
    BY <2>8 DEF Carries
  <2>10. QED
    BY <1>1, <1>2, <2>2, <2>8, <2>9, CleanStep
<1>6. QED
  BY <1>4, <1>5 DEF Provider

\* The steps at which nothing is sent, read or dropped; an ask that ends at one
\* of them has an answer of its own or none.
LEMMA CleanElsewhere ==
  ASSUME Placed, Owned, Clean, NEW t \in Task,
         \/ Ask(t) \/ (\E l \in Lane : Admit(t, l)) \/ Begin(t) \/ Auth(t) \/ FetchFailed(t)
         \/ Refresh(t) \/ Acquire(t) \/ Connecting(t) \/ Http(t) \/ Settle(t)
  PROVE  Clean'
<1>1. pc[t] # "reading" /\ \E to : Goto(t, to)
  BY DEF Ask, Admit, Begin, Auth, LoadCached, LoadStale, Fetched, FetchFailed, Refresh,
         RefreshShared, RefreshStart, RefreshDone, RefreshFailed, Acquire, CheckoutReused,
         CheckoutEmpty, HandshakeRefused, HandshakeFailed, BackedOff, GiveUpConnecting,
         Connecting, TakePermit, Connect, Http, HttpSend, HttpEnd, HttpRefused, Settle
<1>2. UNCHANGED link /\ \A b \in Actor \ {t} : socket'[b] = socket[b]
  BY DEF Ask, Admit, Begin, Auth, LoadCached, LoadStale, Fetched, FetchFailed, Refresh,
         RefreshShared, RefreshStart, RefreshDone, RefreshFailed, Acquire, CheckoutReused,
         CheckoutEmpty, HandshakeRefused, HandshakeFailed, BackedOff, GiveUpConnecting,
         Connecting, TakePermit, Connect, Http, HttpSend, HttpEnd, HttpRefused, Settle, pool,
         Owned
<1>3. UNCHANGED answer \/ \E class, of : of \in {t, None} /\ End(t, class, of)
  BY DEF Ask, Admit, Begin, Auth, LoadCached, LoadStale, Fetched, FetchFailed, Refresh,
         RefreshShared, RefreshStart, RefreshDone, RefreshFailed, Acquire, CheckoutReused,
         CheckoutEmpty, HandshakeRefused, HandshakeFailed, BackedOff, GiveUpConnecting,
         Connecting, TakePermit, Connect, Http, HttpSend, HttpEnd, HttpRefused, Settle, result
<1>4. answer' \in [Task -> Task \cup {None}] /\ AnswersOwnAsk'
  <2>1. CASE UNCHANGED answer
    BY <2>1 DEF Clean, AnswersOwnAsk
  <2>2. CASE \E class, of : of \in {t, None} /\ End(t, class, of)
    BY <2>2, EndsOwn
  <2>3. QED
    BY <1>3, <2>1, <2>2
<1>5. QED
  BY <1>1, <1>2, <1>4, CleanQuiet DEF Actor

LEMMA CleanAbort ==
  ASSUME Placed, Owned, Clean, NEW t \in Task, ReadError(t) \/ ReadLost(t) \/ Cancel(t)
  PROVE  Clean'
<1>1. /\ DropSocket(t) /\ (\E to : Goto(t, to))
      /\ \E class : End(t, class, None)
  BY DEF ReadError, ReadLost, Abort, Cancel
<1>2. answer' \in [Task -> Task \cup {None}] /\ AnswersOwnAsk'
  BY <1>1, EndsOwn
<1>3. QED
  BY <1>1, <1>2, CleanDropped

LEMMA CleanWarm == ASSUME Placed, Owned, Clean, Warm PROVE Clean'
<1>1. Warmer \in Actor /\ UNCHANGED answer
  BY DEF Actor, Warm, WarmNext, WarmAuthFailed, WarmHandshakeFailed, WarmBackedOff, Auth,
         LoadCached, LoadStale, Fetched, Connecting, TakePermit, Connect, Checkin, result
<1>2. CASE Checkin(Warmer)
  BY <1>1, <1>2, CleanCheckin
<1>3. CASE ~Checkin(Warmer)
  <2>1. UNCHANGED link /\ \A b \in Actor \ {Warmer} : socket'[b] = socket[b]
    BY <1>3 DEF Warm, WarmNext, WarmAuthFailed, WarmHandshakeFailed, WarmBackedOff, Auth,
         LoadCached, LoadStale, Fetched, Connecting, TakePermit, Connect, pool, Owned
  <2>2. pc[Warmer] # "reading" /\ \E to : Goto(Warmer, to)
    BY <1>3 DEF Warm, WarmNext, WarmAuthFailed, WarmHandshakeFailed, WarmBackedOff, Auth,
         LoadCached, LoadStale, Fetched, Connecting, TakePermit, Connect
  <2>3. answer' \in [Task -> Task \cup {None}] /\ AnswersOwnAsk'
    BY <1>1 DEF Clean, AnswersOwnAsk
  <2>4. QED
    BY <1>1, <2>1, <2>2, <2>3, CleanQuiet
<1>4. QED
  BY <1>2, <1>3

LEMMA CleanKept == ASSUME Placed, Owned, Clean, [Next]_vars PROVE Clean'
<1>1. CASE UNCHANGED <<pc, socket, link, answer>>
  BY <1>1 DEF Clean, Quiet, Carries, AnswersOwnAsk
<1>2. Elapse \/ UNCHANGED vars => UNCHANGED <<pc, socket, link, answer>>
  BY DEF Elapse, vars, pool, result
<1>3. ASSUME NEW t \in Task, Ask(t) \/ Dispatch(t) \/ Cancel(t) PROVE Clean'
  <2>1. CASE Exchange(t) \/ Checkin(t) \/ Cancel(t)
    BY <2>1, CleanSend, CleanRead, CleanAbort, CleanCheckin DEF Exchange, Actor
  <2>2. QED
    BY <1>3, <2>1, CleanElsewhere DEF Dispatch
<1>4. QED
  BY <1>1, <1>2, <1>3, CleanWarm, CleanProvider DEF Next

\* The text an ask returns answers its own request: a socket is handed back
\* with nothing in flight on it and dropped in every other case, so no reply
\* an earlier ask left unread reaches its next owner.
THEOREM RepliesReachTheirAsk == Spec => []AnswersOwnAsk
<1>1. Clean => AnswersOwnAsk
  BY DEF Clean
<1>2. QED
  BY <1>1, PlacedInit, PlacedKept, OwnedInit, OwnedKept, CleanInit, CleanKept, PTL DEF Spec

-----------------------------------------------------------------------------
(* How many sockets there are *)

\* A lane admits within its window, and its window stays within its maximum.
Windowed ==
  /\ window \in [Lane -> Nat]
  /\ \A l \in Lane : window[l] <= Maximum[l] /\ Cardinality(holders[l]) <= Maximum[l]

\* The asks that own a socket or are about to connect one.
Connects(t) ==
  \/ pc[t] \in Owning \cup {"gate", "handshake"}
  \/ pc[t] \in {"auth", "fetching"} /\ t \notin holders["http"]

Connectors == {t \in Task : Connects(t)}
WarmBusy == pc[Warmer] \in {"auth", "fetching", "gate", "handshake", "checkin"}
Warming == IF WarmBusy THEN 1 ELSE 0

Bounded ==
  /\ rounds \in Nat /\ rounds <= PrewarmTarget /\ Warming <= rounds
  /\ Len(idle) + Cardinality(Connectors) + Warming <= MaxIdle + rounds

LEMMA MaximaPositive == \A l \in Lane : Maximum[l] \in Nat /\ Maximum[l] > 0
BY DispatchAssumption

LEMMA LedgerCardinality == ASSUME NEW S PROVE Ledger!Cardinality(S) = Cardinality(S)
BY DEF Ledger!Cardinality, Cardinality

LEMMA HoldersFinite ==
  ASSUME Placed, NEW l \in Lane
  PROVE  IsFiniteSet(holders[l]) /\ Cardinality(holders[l]) \in Nat
<1>1. holders[l] \in SUBSET Task
  BY DEF Placed
<1>2. QED
  BY <1>1, ActorsFinite, FS_Subset, FS_CardinalityType

LEMMA WindowedInit == Init => Windowed
<1>1. ASSUME Init PROVE \A l \in Lane : Cardinality(holders[l]) = 0
  BY <1>1, FS_EmptySet DEF Init, Ledger!Init
<1>2. Init => window = Initial
  BY DEF Init, Ledger!Init
<1>3. QED
  BY <1>1, <1>2, DispatchAssumption DEF Windowed

LEMMA WindowedAdmit ==
  ASSUME Placed, Windowed, NEW t \in Task, NEW l \in Lane, Ledger!Admit(t, l)
  PROVE  Windowed'
<1>1. /\ Cardinality(holders[l]) < window[l] /\ UNCHANGED window
      /\ holders' = [holders EXCEPT ![l] = @ \cup {t}]
  BY HoldersFinite, LedgerCardinality DEF Ledger!Admit, Ledger!Saturated, Windowed
<1>2. holders'[l] = holders[l] \cup {t} /\ \A k \in Lane \ {l} : holders'[k] = holders[k]
  BY <1>1 DEF Placed
<1>3. Cardinality(holders'[l]) = IF t \in holders[l] THEN Cardinality(holders[l])
                                 ELSE Cardinality(holders[l]) + 1
  BY <1>2, HoldersFinite, FS_AddElement
<1>4. Cardinality(holders'[l]) <= Maximum[l]
  BY <1>1, <1>3, HoldersFinite, MaximaPositive DEF Windowed
<1>5. QED
  BY <1>1, <1>2, <1>4 DEF Windowed

LEMMA WindowedLeave ==
  ASSUME Placed, Windowed, NEW t, NEW l \in Lane, Ledger!Leave(t, l),
         window' \in [Lane -> Nat], \A k \in Lane : window'[k] <= Maximum[k]
  PROVE  Windowed'
<1>1. t \in holders[l] /\ holders' = [holders EXCEPT ![l] = @ \ {t}]
  BY DEF Ledger!Leave
<1>2. holders'[l] = holders[l] \ {t} /\ \A k \in Lane \ {l} : holders'[k] = holders[k]
  BY <1>1 DEF Placed
<1>3. Cardinality(holders'[l]) = Cardinality(holders[l]) - 1
  BY <1>1, <1>2, HoldersFinite, FS_RemoveElement
<1>4. QED
  BY <1>2, <1>3, HoldersFinite, DispatchAssumption DEF Windowed

LEMMA WindowedSettle ==
  ASSUME Placed, Windowed, NEW t \in Task, Settle(t)
  PROVE  Windowed'
<1>1. PICK l \in Lane : LedgerOf(t, l, outcome[t])
  BY DEF Settle
<1>2. \/ Ledger!Succeed(t, l) \/ Ledger!Overload(t, l) \/ Ledger!Throttle(t, l)
      \/ Ledger!Withdraw(t, l)
  BY <1>1 DEF LedgerOf
<1>3. Ledger!Leave(t, l)
  BY <1>2 DEF Ledger!Succeed, Ledger!Overload, Ledger!Throttle, Ledger!Withdraw
<1>4. window' \in [Lane -> Nat] /\ \A k \in Lane : window'[k] <= Maximum[k]
  <2>1. CASE UNCHANGED window
    BY <2>1 DEF Windowed
  <2>2. CASE window[l] < Maximum[l] /\ window' = [window EXCEPT ![l] = @ + 1]
    BY <2>2, MaximaPositive DEF Windowed
  <2>3. CASE window' = [window EXCEPT ![l] = IF @ > 1 THEN @ \div 2 ELSE 1]
    <3>1. PICK n \in Nat : n = IF window[l] > 1 THEN window[l] \div 2 ELSE 1
      BY DEF Windowed
    <3>2. n <= Maximum[l]
      BY <3>1, MaximaPositive DEF Windowed
    <3>3. window' = [window EXCEPT ![l] = n]
      BY <2>3, <3>1
    <3>4. QED
      BY <3>2, <3>3 DEF Windowed
  <2>4. QED
    BY <1>2, <2>1, <2>2, <2>3
       DEF Ledger!Succeed, Ledger!Overload, Ledger!Throttle, Ledger!Withdraw
<1>5. QED
  BY <1>3, <1>4, WindowedLeave

LEMMA WindowedCancel ==
  ASSUME Placed, Windowed, NEW t \in Task, Cancel(t)
  PROVE  Windowed'
<1>1. ASSUME NEW l \in Lane, Ledger!Withdraw(t, l) PROVE Windowed'
  BY <1>1, WindowedLeave DEF Ledger!Withdraw, Windowed
<1>2. CASE Ledger!GiveUp(t)
  BY <1>2 DEF Ledger!GiveUp, Windowed
<1>3. QED
  BY <1>1, <1>2 DEF Cancel

LEMMA WindowedKept == ASSUME Placed, Windowed, [Next]_vars PROVE Windowed'
<1>1. CASE UNCHANGED <<holders, window>>
  BY <1>1 DEF Windowed
<1>2. (\E s \in Socket : Provider(s)) \/ Elapse \/ Warm \/ UNCHANGED vars
        => UNCHANGED <<holders, window>>
  BY DEF Provider, Answer, Hangup, Elapse, Ledger!Elapse, vars, ledger, Warm, WarmNext,
         WarmAuthFailed, WarmHandshakeFailed, WarmBackedOff, Auth, LoadCached, LoadStale, Fetched,
         Connecting, TakePermit, Connect, Checkin
<1>3. ASSUME NEW t \in Task,
             \/ Ask(t) \/ Begin(t) \/ Auth(t) \/ FetchFailed(t) \/ Refresh(t) \/ Acquire(t)
             \/ Connecting(t) \/ Exchange(t) \/ Checkin(t) \/ Http(t)
      PROVE  UNCHANGED <<holders, window>>
  BY <1>3 DEF Ask, Ledger!Seek, Begin, Auth, LoadCached, LoadStale, Fetched, FetchFailed, Refresh,
         RefreshShared, RefreshStart, RefreshDone, RefreshFailed, Acquire, CheckoutReused,
         CheckoutEmpty, HandshakeRefused, HandshakeFailed, BackedOff, GiveUpConnecting,
         Connecting, TakePermit, Connect, Exchange, Send, ReadSuccess, ReadError, ReadLost, Abort,
         Checkin, Http, HttpSend, HttpEnd, HttpRefused, ledger
<1>4. ASSUME NEW t \in Task, NEW l \in Lane, Admit(t, l) PROVE Windowed'
  BY <1>4, WindowedAdmit DEF Admit
<1>5. QED
  BY <1>1, <1>2, <1>3, <1>4, WindowedSettle, WindowedCancel DEF Next, Dispatch

LEMMA ConnectorsFinite ==
  IsFiniteSet(Connectors) /\ Cardinality(Connectors) \in Nat
BY ActorsFinite, FS_Subset, FS_CardinalityType DEF Connectors

LEMMA PoolNumbers ==
  ASSUME Owned
  PROVE  Len(idle) \in Nat /\ MaxIdle \in Nat /\ PrewarmTarget \in Nat /\ Warming \in {0, 1}
BY DispatchAssumption, LenProperties, MaximaPositive
   DEF Owned, MaxIdle, PrewarmTarget, Warming, Lane

\* An ask that has or makes a connection has a lease on the WSS lane.
LEMMA ConnectorsHold ==
  ASSUME Placed PROVE Connectors \subseteq holders["websocket"]
BY DEF Placed, LeaseFor, Connectors, Connects, Owning, WssOnly, Outside

LEMMA BoundedInit == Init => Bounded
<1>1. ASSUME Init PROVE Connectors = {} /\ Warming = 0 /\ Len(idle) = 0 /\ rounds = 0
  BY <1>1, DispatchAssumption DEF Init, Connectors, Connects, Owning, Warming, WarmBusy, Actor
<1>2. ASSUME Init PROVE Cardinality(Connectors) = 0
  BY <1>1, <1>2, FS_EmptySet
<1>3. MaxIdle \in Nat /\ PrewarmTarget \in Nat
  BY MaximaPositive, DispatchAssumption DEF MaxIdle, PrewarmTarget, Lane
<1>4. QED
  BY <1>1, <1>2, <1>3 DEF Bounded

\* A step after which no more asks have or make a connection, and no more
\* sockets are idle.
LEMMA BoundedShrunk ==
  ASSUME Owned, Owned', Bounded, Connectors' \subseteq Connectors, Len(idle') <= Len(idle),
         Warming' <= Warming, UNCHANGED rounds
  PROVE  Bounded'
<1>1. Cardinality(Connectors') <= Cardinality(Connectors) /\ Cardinality(Connectors') \in Nat
  BY ConnectorsFinite, FS_Subset, FS_CardinalityType
<1>2. PrewarmTarget' = PrewarmTarget /\ MaxIdle' = MaxIdle
  BY DEF PrewarmTarget, MaxIdle
<1>3. Len(idle') \in Nat /\ Warming' \in {0, 1}
  BY LenProperties DEF Owned, Warming
<1>4. QED
  BY <1>1, <1>2, <1>3, ConnectorsFinite, PoolNumbers DEF Bounded

\* A step of ask t that makes no other ask connect.
LEMMA ConnectsElsewhere ==
  ASSUME Placed, NEW t \in Task, NEW to, Goto(t, to),
         \A u \in Task \ {t} : u \in holders'["http"] <=> u \in holders["http"]
  PROVE  /\ Warming' = Warming /\ \A u \in Task \ {t} : Connects(u)' <=> Connects(u)
         /\ Connects(t)' <=> \/ to \in Owning \cup {"gate", "handshake"}
                             \/ to \in {"auth", "fetching"} /\ t \notin holders'["http"]
<1>1. pc'[t] = to /\ pc'[Warmer] = pc[Warmer] /\ \A u \in Task \ {t} : pc'[u] = pc[u]
  BY DispatchAssumption DEF Placed, Goto, Actor
<1>2. QED
  BY <1>1 DEF Connects, Warming, WarmBusy

\* An ask that finds the stack empty sets out to connect: all connections there
\* are, and are being made, belong to asks with leases.
LEMMA BoundedEmpty ==
  ASSUME Placed, Placed', Windowed', Owned, Owned', Bounded, NEW t \in Task, CheckoutEmpty(t)
  PROVE  Bounded'
<1>1. idle' = <<>> /\ UNCHANGED <<rounds, holders>> /\ \E to : Goto(t, to)
  BY DEF CheckoutEmpty, pool, ledger
<1>2. Warming' = Warming
  BY <1>1, ConnectsElsewhere
<1>3. Cardinality(Connectors') <= Cardinality(holders'["websocket"])
  <2>1. Connectors' \subseteq holders'["websocket"]
    BY ConnectorsHold DEF Placed, LeaseFor, Connectors, Connects, Owning, WssOnly, Outside
  <2>2. IsFiniteSet(holders'["websocket"])
    BY ActorsFinite, FS_Subset DEF Placed, Lane
  <2>3. QED
    BY <2>1, <2>2, FS_Subset
<1>4. Cardinality(holders'["websocket"]) <= MaxIdle
  BY DEF Windowed, MaxIdle, Lane
<1>5. Cardinality(Connectors') \in Nat /\ Cardinality(holders'["websocket"]) \in Nat
  <2>1. IsFiniteSet(Connectors')
    BY ActorsFinite, FS_Subset DEF Connectors
  <2>2. IsFiniteSet(holders'["websocket"])
    BY ActorsFinite, FS_Subset DEF Placed, Lane
  <2>3. QED
    BY <2>1, <2>2, FS_CardinalityType
<1>6. Len(idle') = 0 /\ PrewarmTarget' = PrewarmTarget /\ MaxIdle' = MaxIdle
  BY <1>1 DEF PrewarmTarget, MaxIdle
<1>7. QED
  BY <1>1, <1>2, <1>3, <1>4, <1>5, <1>6, PoolNumbers DEF Bounded

LEMMA BoundedReused ==
  ASSUME Placed, Owned, Owned', Bounded, NEW t \in Task, CheckoutReused(t)
  PROVE  Bounded'
<1>1. /\ pc[t] = "checkout" /\ Goto(t, "connected") /\ UNCHANGED <<rounds, holders>>
      /\ idle # <<>> /\ idle' = SubSeq(idle, 1, Len(idle) - 1)
  BY DEF CheckoutReused, ledger
<1>2. Len(idle') = Len(idle) - 1
  BY <1>1, Popped
<1>3. Warming' = Warming /\ Connectors' = Connectors \cup {t} /\ t \notin Connectors
  BY <1>1, ConnectsElsewhere DEF Connectors, Connects, Owning
<1>4. Cardinality(Connectors') = Cardinality(Connectors) + 1
  BY <1>3, ConnectorsFinite, CountJoined
<1>5. PrewarmTarget' = PrewarmTarget /\ MaxIdle' = MaxIdle
  BY DEF PrewarmTarget, MaxIdle
<1>6. QED
  BY <1>1, <1>2, <1>3, <1>4, <1>5, ConnectorsFinite, PoolNumbers DEF Bounded

LEMMA IdleGrowth ==
  ASSUME Owned, NEW a \in Actor, Checkin(a)
  PROVE  Len(idle') <= Len(idle) + 1
<1>1. pc[a] = "checkin" /\ idle' = IF Len(idle) < MaxIdle THEN Append(idle, socket[a]) ELSE idle
  BY DEF Checkin, Push
<1>2. socket[a] \in Socket
  BY <1>1 DEF Owned, Owning
<1>3. Len(Append(idle, socket[a])) = Len(idle) + 1
  BY <1>2, AppendProperties DEF Owned
<1>4. QED
  BY <1>1, <1>3, PoolNumbers

LEMMA BoundedReturned ==
  ASSUME Placed, Owned, Owned', Bounded, NEW t \in Task, Checkin(t)
  PROVE  Bounded'
<1>1. pc[t] = "checkin" /\ Goto(t, "settle") /\ UNCHANGED <<rounds, holders>> /\ t \in Actor
  BY DispatchAssumption DEF Checkin, ledger, Actor
<1>2. Warming' = Warming /\ Connectors' = Connectors \ {t} /\ t \in Connectors
  BY <1>1, ConnectsElsewhere DEF Connectors, Connects, Owning
<1>3. Cardinality(Connectors') = Cardinality(Connectors) - 1
  BY <1>2, ConnectorsFinite, CountParted
<1>4. PrewarmTarget' = PrewarmTarget /\ MaxIdle' = MaxIdle
  BY DEF PrewarmTarget, MaxIdle
<1>5. QED
  BY <1>1, <1>2, <1>3, <1>4, IdleGrowth, ConnectorsFinite, PoolNumbers DEF Bounded

LEMMA BoundedMove ==
  ASSUME Placed, Owned, Owned', Bounded, NEW t \in Task, NEW to, Goto(t, to),
         UNCHANGED <<idle, rounds>>,
         \A u \in Task \ {t} : u \in holders'["http"] <=> u \in holders["http"],
         to \in Owning \cup {"gate", "handshake"} => Connects(t),
         to \in {"auth", "fetching"} => Connects(t) \/ t \in holders'["http"]
  PROVE  Bounded'
<1>1. Warming' = Warming /\ Connectors' \subseteq Connectors
  BY ConnectsElsewhere DEF Connectors
<1>2. QED
  BY <1>1, BoundedShrunk, PoolNumbers

LEMMA BoundedAuth ==
  ASSUME Placed, Owned, Owned', Bounded, NEW t \in Task,
         Begin(t) \/ Auth(t) \/ FetchFailed(t) \/ Refresh(t)
  PROVE  Bounded'
<1>1. UNCHANGED <<idle, rounds, holders>>
  BY DEF Begin, Auth, LoadCached, LoadStale, Fetched, FetchFailed, Refresh, RefreshShared,
         RefreshStart, RefreshDone, RefreshFailed, pool, ledger
<1>2. CASE Begin(t) \/ FetchFailed(t)
  BY <1>1, <1>2, BoundedMove DEF Begin, FetchFailed, Owning
<1>3. CASE Auth(t)
  BY <1>1, <1>3, BoundedMove DEF Auth, LoadCached, LoadStale, Fetched, AfterAuth, Connects, Owning
<1>4. CASE Refresh(t)
  BY <1>1, <1>4, BoundedMove
     DEF Refresh, RefreshShared, RefreshStart, RefreshDone, RefreshFailed, AfterRefresh, Owning
<1>5. QED
  BY <1>2, <1>3, <1>4

LEMMA BoundedConnect ==
  ASSUME Placed, Owned, Owned', Bounded, NEW t \in Task,
         \/ HandshakeRefused(t) \/ HandshakeFailed(t) \/ BackedOff(t) \/ GiveUpConnecting(t)
         \/ Connecting(t) \/ Send(t) \/ ReadSuccess(t) \/ Http(t)
  PROVE  Bounded'
<1>1. UNCHANGED <<idle, rounds, holders>>
  BY DEF HandshakeRefused, HandshakeFailed, BackedOff, GiveUpConnecting, Connecting, TakePermit,
         Connect, Send, ReadSuccess, Http, HttpSend, HttpEnd, HttpRefused, pool, ledger
<1>2. CASE \/ HandshakeRefused(t) \/ HandshakeFailed(t) \/ BackedOff(t) \/ GiveUpConnecting(t)
  BY <1>1, <1>2, BoundedMove
     DEF HandshakeRefused, HandshakeFailed, BackedOff, GiveUpConnecting, Owning
<1>3. CASE Connecting(t)
  <2>1. Connects(t) /\ \E to : Goto(t, to)
    BY <1>3 DEF Connecting, TakePermit, Connect, Connects
  <2>2. QED
    BY <1>1, <2>1, BoundedMove
<1>4. CASE Send(t) \/ ReadSuccess(t)
  <2>1. Connects(t) /\ \E to : Goto(t, to)
    BY <1>4 DEF Send, ReadSuccess, Connects, Owning
  <2>2. QED
    BY <1>1, <2>1, BoundedMove
<1>5. CASE Http(t)
  BY <1>1, <1>5, BoundedMove DEF Http, HttpSend, HttpEnd, HttpRefused, Owning
<1>6. QED
  BY <1>2, <1>3, <1>4, <1>5

\* Admission and the ends of an ask: no connection is made there.
LEMMA BoundedEnds ==
  ASSUME Placed, Owned, Owned', Bounded, NEW t \in Task,
         \/ Ask(t) \/ (\E l \in Lane : Admit(t, l)) \/ ReadError(t) \/ ReadLost(t)
         \/ Settle(t) \/ Cancel(t)
  PROVE  Bounded'
<1>1. UNCHANGED <<idle, rounds>>
  BY DEF Ask, Admit, ReadError, ReadLost, Abort, Settle, Cancel, DropSocket, pool
<1>2. \E to \in {"seeking", "admitted", "settle", "done"} : Goto(t, to)
  BY DEF Ask, Admit, ReadError, ReadLost, Abort, Settle, Cancel
<1>3. \/ UNCHANGED holders
      \/ \E l \in Lane : Ledger!Admit(t, l)
      \/ \E l \in Lane : Ledger!Leave(t, l)
  BY SettledLeaves DEF Ask, Ledger!Seek, Admit, ReadError, ReadLost, Abort, Cancel,
     Ledger!GiveUp, Ledger!Withdraw, ledger
<1>4. \A u \in Task \ {t} : u \in holders'["http"] <=> u \in holders["http"]
  BY <1>3 DEF Ledger!Admit, Ledger!Leave, Placed, Lane
<1>5. QED
  BY <1>1, <1>2, <1>4, BoundedMove DEF Owning

\* The prewarm counts a round before it connects, so each socket it adds to
\* what the asks have is one of its rounds.
LEMMA BoundedWarm ==
  ASSUME Placed, Owned, Owned', Bounded, Warm
  PROVE  Bounded'
<1>1. UNCHANGED holders /\ \E to : Goto(Warmer, to)
  BY DEF Warm, WarmNext, WarmAuthFailed, WarmHandshakeFailed, WarmBackedOff, Auth, LoadCached,
         LoadStale, Fetched, Connecting, TakePermit, Connect, Checkin, ledger
<1>2. \A t \in Task : pc'[t] = pc[t]
  BY <1>1, DispatchAssumption DEF Placed, Goto, Actor
<1>3. Connectors' = Connectors
  BY <1>1, <1>2 DEF Connectors, Connects
<1>4. ASSUME NEW to, Goto(Warmer, to) PROVE pc'[Warmer] = to
  BY <1>4 DEF Placed, Goto, Actor
<1>5. PrewarmTarget' = PrewarmTarget /\ MaxIdle' = MaxIdle
  BY DEF PrewarmTarget, MaxIdle
<1>6. CASE WarmNext
  <2>1. UNCHANGED idle /\ Warming = 0
    BY <1>6 DEF WarmNext, Warming, WarmBusy, pool
  <2>2. CASE rounds < PrewarmTarget /\ Goto(Warmer, "auth") /\ rounds' = rounds + 1
    <3>1. Warming' = 1
      BY <1>4, <2>2 DEF Warming, WarmBusy
    <3>2. QED
      BY <1>3, <1>5, <2>1, <2>2, <3>1, ConnectorsFinite, PoolNumbers DEF Bounded
  <2>3. CASE Goto(Warmer, "done") /\ UNCHANGED rounds
    <3>1. Warming' = 0
      BY <1>4, <2>3 DEF Warming, WarmBusy
    <3>2. QED
      BY <1>3, <2>1, <2>3, <3>1, BoundedShrunk, PoolNumbers
  <2>4. QED
    BY <1>6, <2>2, <2>3 DEF WarmNext
<1>7. CASE Checkin(Warmer)
  <2>1. Warming = 1 /\ Warming' = 0 /\ UNCHANGED rounds
    BY <1>4, <1>7 DEF Checkin, Warming, WarmBusy
  <2>2. Len(idle') <= Len(idle) + 1 /\ Len(idle') \in Nat
    BY <1>7, IdleGrowth, LenProperties DEF Actor, Owned
  <2>3. QED
    BY <1>3, <1>5, <2>1, <2>2, ConnectorsFinite, PoolNumbers DEF Bounded
<1>8. CASE \/ WarmAuthFailed \/ WarmHandshakeFailed \/ WarmBackedOff
           \/ Auth(Warmer) \/ Connecting(Warmer)
  <2>1. UNCHANGED <<idle, rounds>> /\ (pc'[Warmer] = "warming" => pc[Warmer] = "backoff")
        /\ (pc[Warmer] \in {"warming", "backoff", "done"} => pc'[Warmer] = "warming")
    BY <1>4, <1>8 DEF WarmAuthFailed, WarmHandshakeFailed, WarmBackedOff, Auth, LoadCached,
       LoadStale, Fetched, AfterAuth, Connecting, TakePermit, Connect, pool
  <2>2. Warming' <= Warming
    BY <2>1 DEF Placed, Warming, WarmBusy, WarmLocation
  <2>3. QED
    BY <1>3, <2>1, <2>2, BoundedShrunk, PoolNumbers
<1>9. QED
  BY <1>6, <1>7, <1>8 DEF Warm

LEMMA BoundedKept ==
  ASSUME Placed, Placed', Windowed', Owned, Owned', Bounded, [Next]_vars
  PROVE  Bounded'
<1>1. CASE UNCHANGED <<pc, holders, idle, rounds>>
  <2>1. Connectors' = Connectors /\ Warming' = Warming /\ Len(idle') = Len(idle)
    BY <1>1 DEF Connectors, Connects, Warming, WarmBusy
  <2>2. QED
    BY <1>1, <2>1, BoundedShrunk, PoolNumbers
<1>2. (\E s \in Socket : Provider(s)) \/ Elapse \/ UNCHANGED vars
        => UNCHANGED <<pc, holders, idle, rounds>>
  BY DEF Provider, Answer, Hangup, Elapse, Ledger!Elapse, vars, ledger, pool
<1>3. ASSUME NEW t \in Task, Ask(t) \/ Dispatch(t) \/ Cancel(t) PROVE Bounded'
  BY <1>3, BoundedEmpty, BoundedReused, BoundedReturned, BoundedAuth, BoundedConnect, BoundedEnds
     DEF Dispatch, Acquire, Exchange
<1>4. QED
  BY <1>1, <1>2, <1>3, BoundedWarm DEF Next

\* The pool never has more connections than wss_max and what prewarm added:
\* asks that find the stack empty connect while others check sockets in, but
\* each connection above the bound would need a lease of its own
\* (CodexResponsesWssPool::acquire_socket, checkin and prewarm).
THEOREM PoolStaysBounded == Spec => []ConnectionsBounded
<1>1. Placed /\ Owned /\ Bounded => ConnectionsBounded
  <2> SUFFICES ASSUME Placed, Owned, Bounded PROVE ConnectionsBounded
    OBVIOUS
  <2>2. {a \in Actor : socket[a] # None} = {a \in Actor : pc[a] \in Owning}
    BY DEF Owned
  <2>3. {a \in Task : pc[a] \in Owning} \subseteq Connectors
    BY DEF Connectors, Connects
  <2>4. PICK C : C = {a \in Task : pc[a] \in Owning}
    OBVIOUS
  <2>5. IsFiniteSet(C) /\ Cardinality(C) \in Nat /\ Cardinality(C) <= Cardinality(Connectors)
    BY <2>3, <2>4, ConnectorsFinite, FS_Subset, FS_CardinalityType
  <2>6. Cardinality({a \in Actor : socket[a] # None}) <= Cardinality(C) + Warming
    <3>1. CASE pc[Warmer] \in Owning
      <4>1. {a \in Actor : socket[a] # None} = C \cup {Warmer} /\ Warmer \notin C
        BY <2>2, <2>4, <3>1, DispatchAssumption DEF Actor
      <4>2. Warming = 1
        BY <3>1 DEF Placed, Owning, Warming, WarmBusy, WarmLocation
      <4>3. Cardinality({a \in Actor : socket[a] # None}) = Cardinality(C) + 1
        BY <2>5, <4>1, CountJoined
      <4>4. QED
        BY <2>5, <4>2, <4>3
    <3>2. CASE pc[Warmer] \notin Owning
      <4>1. {a \in Actor : socket[a] # None} = C
        BY <2>2, <2>4, <3>2 DEF Actor
      <4>2. Cardinality({a \in Actor : socket[a] # None}) = Cardinality(C)
        BY <4>1
      <4>3. Warming \in Nat
        BY PoolNumbers
      <4>4. QED
        BY <2>5, <4>2, <4>3
    <3>3. QED
      BY <3>1, <3>2
  <2>7. Cardinality({a \in Actor : socket[a] # None}) \in Nat
    BY ActorsFinite, FS_Subset, FS_CardinalityType
  <2>8. QED
    BY <2>5, <2>6, <2>7, ConnectorsFinite, PoolNumbers DEF Bounded, ConnectionsBounded, MaxIdle
<1>2. Placed /\ Placed' /\ Windowed' /\ Owned /\ Owned' /\ Bounded /\ [Next]_vars => Bounded'
  BY BoundedKept
<1>3. QED
  BY <1>1, <1>2, PlacedInit, PlacedKept, OwnedInit, OwnedKept, WindowedInit, WindowedKept,
     BoundedInit, PTL DEF Spec

-----------------------------------------------------------------------------
(* Completion events *)

\* An ask has its event exactly once, at its end; one that ends without has
\* neither been sent nor come to a result.
Reported(t) ==
  /\ events[t] \in {0, 1}
  /\ pc[t] # "done" => events[t] = 0
  /\ pc[t] = "done" /\ (sent[t] = 1 \/ outcome[t] \in Class) => events[t] = 1

AllReported ==
  /\ events \in [Task -> Nat] /\ outcome = [t \in Task |-> outcome[t]]
  /\ \A t \in Task : Reported(t)

LEMMA ReportedInit == Init => AllReported
BY DispatchAssumption DEF Init, AllReported, Reported, Actor, Class, None

\* An ask that goes on, and every ask whose turn it is not.
Ongoing(t) == pc[t] # "done" /\ pc'[t] # "done"
Untouched(t) == pc'[t] = pc[t] /\ sent'[t] = sent[t] /\ outcome'[t] = outcome[t]

LEMMA ReportedOn ==
  ASSUME AllReported, UNCHANGED events, outcome' = [t \in Task |-> outcome'[t]],
         \A t \in Task : Ongoing(t) \/ Untouched(t)
  PROVE  AllReported'
BY DEF AllReported, Reported, Ongoing, Untouched

LEMMA ReportedGoesOn ==
  ASSUME Placed, AllReported, NEW t \in Task, NEW to, Goto(t, to), to # "done", pc[t] # "done",
         UNCHANGED events,
         sent' = sent \/ sent' = [sent EXCEPT ![t] = @ + 1],
         outcome' = outcome \/ \E class : outcome' = [outcome EXCEPT ![t] = class]
  PROVE  AllReported'
<1>1. pc \in [Actor -> Location] /\ Task \subseteq Actor /\ sent \in [Task -> Nat]
      /\ outcome = [u \in Task |-> outcome[u]]
  BY DEF Placed, AllReported, Actor
<1>2. Ongoing(t) /\ \A u \in Task \ {t} : pc'[u] = pc[u] /\ sent'[u] = sent[u]
  BY <1>1 DEF Goto, Ongoing
<1>3. outcome' = [u \in Task |-> outcome'[u]] /\ \A u \in Task \ {t} : outcome'[u] = outcome[u]
  BY <1>1
<1>4. QED
  BY <1>2, <1>3, ReportedOn DEF Untouched

LEMMA ReportedDispatch ==
  ASSUME Placed, AllReported, NEW t \in Task, Ask(t) \/ Dispatch(t), ~Settle(t)
  PROVE  AllReported'
<1> USE DEF result
<1>1. CASE Ask(t) \/ (\E l \in Lane : Admit(t, l)) \/ Begin(t) \/ Auth(t) \/ FetchFailed(t)
  BY <1>1, ReportedGoesOn
     DEF Ask, Admit, Begin, Auth, LoadCached, LoadStale, Fetched, AfterAuth, FetchFailed, End
<1>2. CASE Refresh(t)
  BY <1>2, ReportedGoesOn
     DEF Refresh, RefreshShared, RefreshStart, RefreshDone, RefreshFailed, AfterRefresh, End
<1>3. CASE Acquire(t)
  BY <1>3, ReportedGoesOn
     DEF Acquire, CheckoutReused, CheckoutEmpty, HandshakeRefused, HandshakeFailed, BackedOff,
         GiveUpConnecting, End
<1>4. CASE Connecting(t) \/ Checkin(t)
  BY <1>4, ReportedGoesOn, DispatchAssumption DEF Connecting, TakePermit, Connect, Checkin
<1>5. CASE Exchange(t)
  BY <1>5, ReportedGoesOn DEF Exchange, Send, ReadSuccess, ReadError, ReadLost, Abort, End
<1>6. CASE Http(t)
  BY <1>6, ReportedGoesOn DEF Http, HttpSend, HttpEnd, HttpRefused, End
<1>7. QED
  BY <1>1, <1>2, <1>3, <1>4, <1>5, <1>6 DEF Dispatch

LEMMA ReportedEnds ==
  ASSUME Placed, AllReported, NEW t \in Task, Settle(t) \/ Cancel(t)
  PROVE  AllReported'
<1>1. /\ pc \in [Actor -> Location] /\ Task \subseteq Actor /\ sent \in [Task -> Nat]
      /\ outcome = [u \in Task |-> outcome[u]] /\ events \in [Task -> Nat] /\ SentFor(t)
  BY DEF Placed, AllReported, Actor
<1>2. pc[t] # "done" /\ Goto(t, "done") /\ UNCHANGED sent
  BY DEF Settle, Cancel, Pending
<1>3. events[t] = 0
  BY <1>2 DEF AllReported, Reported
<1>4. outcome' = [u \in Task |-> outcome'[u]] /\ \A u \in Task \ {t} : outcome'[u] = outcome[u]
  BY <1>1 DEF Settle, Cancel, End, result
<1>5. events' \in [Task -> Nat] /\ \A u \in Task \ {t} : events'[u] = events[u]
  BY <1>1 DEF Settle, Cancel
<1>6. \A u \in Task \ {t} : Reported(u)'
  BY <1>1, <1>2, <1>4, <1>5 DEF Goto, AllReported, Reported
<1>7. pc'[t] = "done" /\ sent'[t] = sent[t]
  BY <1>1, <1>2 DEF Goto
<1>8. ASSUME events' = [events EXCEPT ![t] = @ + 1] PROVE Reported(t)'
  BY <1>1, <1>3, <1>7, <1>8 DEF Reported
<1>9. ASSUME events' = events, pc[t] \in {"seeking", "admitted"}, Cancel(t)
      PROVE  Reported(t)'
  <2>1. sent[t] = 0
    BY <1>1, <1>9 DEF SentFor, Unsent
  <2>2. outcome'[t] \notin Class
    BY <1>1, <1>9 DEF Cancel, End, Class, None
  <2>3. QED
    BY <1>3, <1>7, <1>9, <2>1, <2>2 DEF Reported
<1>10. Reported(t)'
  BY <1>8, <1>9 DEF Settle, Cancel
<1>11. QED
  BY <1>4, <1>5, <1>6, <1>10 DEF AllReported

LEMMA ReportedKept == ASSUME Placed, AllReported, [Next]_vars PROVE AllReported'
<1>1. ASSUME NEW t \in Task, Ask(t) \/ Dispatch(t) \/ Cancel(t) PROVE AllReported'
  BY <1>1, ReportedDispatch, ReportedEnds
<1>2. CASE Warm
  <2>1. UNCHANGED <<events, sent, outcome>> /\ \E to : Goto(Warmer, to)
    BY <1>2 DEF Warm, WarmNext, WarmAuthFailed, WarmHandshakeFailed, WarmBackedOff, Auth,
       LoadCached, LoadStale, Fetched, Connecting, TakePermit, Connect, Checkin, result
  <2>2. \A t \in Task : pc'[t] = pc[t]
    BY <2>1, DispatchAssumption DEF Goto, Placed, Actor
  <2>3. QED
    BY <2>1, <2>2 DEF AllReported, Reported
<1>3. ASSUME UNCHANGED <<pc, events, sent, outcome>> PROVE AllReported'
  BY <1>3 DEF AllReported, Reported
<1>4. CASE (\E s \in Socket : Provider(s)) \/ Elapse \/ UNCHANGED vars
  BY <1>3, <1>4 DEF Provider, Answer, Hangup, Elapse, vars, result
<1>5. QED
  BY <1>1, <1>2, <1>4 DEF Next

\* "Each logical request has one event" for every request that was sent and
\* every ask that came to a result, and never two, whichever of its awaits an
\* ask is dropped at: what is missing is only the event of an ask dropped
\* between its admission and its guard (DispatchCompletionGuard), before it
\* has sent anything.
THEOREM SentAsksAreReported == Spec => []AllReported
<1>1. Placed /\ AllReported /\ [Next]_vars => AllReported'
  BY ReportedKept
<1>2. QED
  BY <1>1, ReportedInit, PlacedInit, PlacedKept, PTL DEF Spec

=============================================================================
