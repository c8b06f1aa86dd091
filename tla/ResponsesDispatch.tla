--------------------------- MODULE ResponsesDispatch ---------------------------
(***************************************************************************)
(* One logical ask of crates/rtinfer-core/src/responses.rs from admission  *)
(* to completion: CodexResponsesClient::dispatch over the HTTP lane and    *)
(* the WSS pool, with the pool's idle sockets, the handshake gate, the     *)
(* write lock of the shared auth cache, the startup prewarm, the provider  *)
(* at the far end of every socket, and callers that go away at an await.   *)
(*                                                                         *)
(* Admission is the AdmissionLedger, which AdaptiveConcurrency implements. *)
(* Each step runs from one await to the next.                              *)
(***************************************************************************)
EXTENDS Naturals, Sequences, FiniteSets

CONSTANTS
  Task,          \* logical asks, one dispatch each
  Warmer,        \* the task that prewarms sockets at startup
  Socket,        \* names for WSS connections
  Enabled,       \* lanes of the configured mode
  Initial,       \* first window of a lane
  Maximum,       \* largest window of a lane (http_max, wss_max)
  AggregateMax,  \* fixed process ceiling
  Pauses,        \* lengths a shared throttle may have
  GatePermits,   \* HANDSHAKE_GATE_PERMITS, 8 in the code
  Attempts,      \* handshakes one ask may try, 8 in the code
  Prewarm        \* RTINFER_RESPONSES_PREWARM

Lane == {"http", "websocket"}

None == "none"

ASSUME DispatchAssumption ==
  /\ IsFiniteSet(Task) /\ Warmer \notin Task
  /\ None \notin Socket
  /\ Enabled \subseteq Lane /\ Enabled # {}
  /\ Initial \in [Lane -> Nat \ {0}] /\ Maximum \in [Lane -> Nat \ {0}]
  /\ \A l \in Lane : Initial[l] <= Maximum[l]
  /\ AggregateMax \in Nat \ {0}
  /\ Pauses \subseteq Nat \ {0}
  /\ GatePermits \in Nat \ {0} /\ Attempts \in Nat \ {0} /\ Prewarm \in Nat

Actor == Task \cup {Warmer}
MaxIdle == Maximum["websocket"]

-----------------------------------------------------------------------------
VARIABLES
  seekers, holders, window, pause,  \* the admission ledger
  pc,           \* the await an actor has reached
  attempt,      \* handshakes an ask has had refused
  refreshed,    \* whether an ask has refreshed the auth it connects with
  auth_writer,  \* who holds the auth cache's write lock across a fetch
  permits,      \* free permits of HANDSHAKE_GATE
  idle,         \* CodexResponsesWssPool.idle_sockets, a stack
  socket,       \* the socket an actor owns
  link,         \* the far end of each socket
  active_asks,  \* CodexResponsesWssPool.active_asks
  sent,         \* how often an ask's request was sent, on either lane
  outcome,      \* result class of an ask
  answer,       \* the request the text of a successful ask answers
  events,       \* completion events emitted for an ask
  rounds        \* iterations of the prewarm loop

ledger == <<seekers, holders, window, pause>>
pool == <<idle, socket, link>>
result == <<outcome, answer>>
vars == <<ledger, pc, attempt, refreshed, auth_writer, permits, pool,
          active_asks, sent, result, events, rounds>>

\* ResponsesResultClass
Class ==
  {"Success", "LaneOverload", "SharedThrottle", "Failure", "Indeterminate"}

Location ==
  {"idle", "seeking", "admitted", "auth", "fetching", "checkout", "gate",
   "handshake", "refresh", "refreshing", "backoff", "connected", "reading",
   "checkin", "http_send", "http_reading", "settle", "done", "warming"}

\* One request is answered by one terminal frame; the class is the one
\* ResponsesAssembler gives it.  Frames that only continue are left out.
Frame == [to : Task, class : Class]

Link == [open : BOOLEAN, requests : Seq(Task), frames : Seq(Frame)]

NewLink == [open |-> TRUE, requests |-> <<>>, frames |-> <<>>]

Ledger == INSTANCE AdmissionLedger

Idle == {idle[i] : i \in DOMAIN idle}
Unused == Socket \ (Idle \cup {socket[a] : a \in Actor})

-----------------------------------------------------------------------------
Goto(a, to) == pc' = [pc EXCEPT ![a] = to]

\* An attempt ends with a class and, if it is Success, with a text.
End(t, class, of) ==
  /\ outcome' = [outcome EXCEPT ![t] = class]
  /\ answer' = [answer EXCEPT ![t] = IF class = "Success" THEN of ELSE None]

\* The future that owns the socket is dropped, and the socket with it.
DropSocket(a) ==
  /\ socket' = [socket EXCEPT ![a] = None]
  /\ link' = IF socket[a] = None THEN link
             ELSE [link EXCEPT ![socket[a]] = NewLink]
  /\ UNCHANGED idle

\* Mutant: the idle stack is not bounded.
PushUnbounded(s) == idle' = Append(idle, s)

Push(s) == idle' = IF Len(idle) < MaxIdle THEN Append(idle, s) ELSE idle

Init ==
  /\ Ledger!Init
  /\ pc = [a \in Actor |-> IF a = Warmer THEN "warming" ELSE "idle"]
  /\ attempt = [t \in Task |-> 0]
  /\ refreshed = [t \in Task |-> FALSE]
  /\ auth_writer = None
  /\ permits = GatePermits
  /\ idle = <<>>
  /\ socket = [a \in Actor |-> None]
  /\ link = [s \in Socket |-> NewLink]
  /\ active_asks = 0
  /\ sent = [t \in Task |-> 0]
  /\ outcome = [t \in Task |-> None]
  /\ answer = [t \in Task |-> None]
  /\ events = [t \in Task |-> 0]
  /\ rounds = 0

-----------------------------------------------------------------------------
(* dispatch: admission, generation().await, then the lane. *)

Ask(t) ==
  /\ pc[t] = "idle" /\ Goto(t, "seeking")
  /\ Ledger!Seek(t)
  /\ UNCHANGED <<attempt, refreshed, auth_writer, permits, pool, active_asks,
                 sent, result, events, rounds>>

Admit(t, l) ==
  /\ pc[t] = "seeking" /\ Goto(t, "admitted")
  /\ Ledger!Admit(t, l)
  /\ UNCHANGED <<attempt, refreshed, auth_writer, permits, pool, active_asks,
                 sent, result, events, rounds>>

Begin(t) ==
  /\ pc[t] = "admitted"
  /\ auth_writer = None
  /\ Goto(t, IF t \in holders["http"] THEN "auth" ELSE "checkout")
  /\ UNCHANGED <<ledger, attempt, refreshed, auth_writer, permits, pool,
                 active_asks, sent, result, events, rounds>>

(* CodexAuthCache::load.  The slow path keeps the write lock while it fetches. *)

AfterAuth(a) == IF a \in holders["http"] THEN "http_send" ELSE "gate"

LoadCached(a) ==
  /\ pc[a] = "auth" /\ Goto(a, AfterAuth(a))
  /\ auth_writer = None
  /\ UNCHANGED <<ledger, attempt, refreshed, auth_writer, permits, pool,
                 active_asks, sent, result, events, rounds>>

LoadStale(a) ==
  /\ pc[a] = "auth" /\ Goto(a, "fetching")
  /\ auth_writer = None
  /\ auth_writer' = a
  /\ UNCHANGED <<ledger, attempt, refreshed, permits, pool, active_asks, sent,
                 result, events, rounds>>

Fetched(a) ==
  /\ pc[a] = "fetching" /\ Goto(a, AfterAuth(a))
  /\ auth_writer' = None
  /\ UNCHANGED <<ledger, attempt, refreshed, permits, pool, active_asks, sent,
                 result, events, rounds>>

FetchFailed(t) ==
  /\ pc[t] = "fetching" /\ Goto(t, "settle")
  /\ auth_writer' = None
  /\ End(t, "Failure", None)
  /\ UNCHANGED <<ledger, attempt, refreshed, permits, pool, active_asks, sent,
                 events, rounds>>

(* CodexAuthCache::force_refresh_after, after a refused handshake or an HTTP *)
(* 401/403.  An HTTP ask ends in Failure whatever the refresh says.          *)

AfterRefresh(t) == IF t \in holders["http"] THEN "settle" ELSE "backoff"

RefreshShared(t) ==
  /\ pc[t] = "refresh" /\ Goto(t, AfterRefresh(t))
  /\ auth_writer = None
  /\ refreshed' = [refreshed EXCEPT ![t] = TRUE]
  /\ UNCHANGED <<ledger, attempt, auth_writer, permits, pool, active_asks,
                 sent, result, events, rounds>>

RefreshStart(t) ==
  /\ pc[t] = "refresh" /\ Goto(t, "refreshing")
  /\ auth_writer = None
  /\ auth_writer' = t
  /\ UNCHANGED <<ledger, attempt, refreshed, permits, pool, active_asks, sent,
                 result, events, rounds>>

RefreshDone(t) ==
  /\ pc[t] = "refreshing" /\ Goto(t, AfterRefresh(t))
  /\ auth_writer' = None
  /\ refreshed' = [refreshed EXCEPT ![t] = TRUE]
  /\ UNCHANGED <<ledger, attempt, permits, pool, active_asks, sent, result,
                 events, rounds>>

RefreshFailed(t) ==
  /\ pc[t] = "refreshing" /\ Goto(t, "settle")
  /\ auth_writer' = None
  /\ End(t, "Failure", None)
  /\ UNCHANGED <<ledger, attempt, refreshed, permits, pool, active_asks, sent,
                 events, rounds>>

-----------------------------------------------------------------------------
(* CodexResponsesWssPool::acquire_socket and connect_socket *)

\* Mutant: a socket is handed out and stays in the stack.
PeekSocket(t) ==
  /\ pc[t] = "checkout" /\ Goto(t, "connected")
  /\ idle # <<>>
  /\ socket' = [socket EXCEPT ![t] = idle[Len(idle)]]
  /\ UNCHANGED <<ledger, attempt, refreshed, auth_writer, permits, idle, link,
                 active_asks, sent, result, events, rounds>>

CheckoutReused(t) ==
  /\ pc[t] = "checkout" /\ Goto(t, "connected")
  /\ idle # <<>>
  /\ socket' = [socket EXCEPT ![t] = idle[Len(idle)]]
  /\ idle' = SubSeq(idle, 1, Len(idle) - 1)
  /\ UNCHANGED <<ledger, attempt, refreshed, auth_writer, permits, link,
                 active_asks, sent, result, events, rounds>>

\* Mutant: an ask connects a socket of its own beside the idle ones.
ConnectAnyway(t) ==
  /\ pc[t] = "checkout"
  /\ Goto(t, IF attempt[t] = 0 THEN "auth" ELSE "gate")
  /\ UNCHANGED <<ledger, attempt, refreshed, auth_writer, permits, pool,
                 active_asks, sent, result, events, rounds>>

CheckoutEmpty(t) ==
  /\ pc[t] = "checkout"
  /\ idle = <<>>
  /\ Goto(t, IF attempt[t] = 0 THEN "auth" ELSE "gate")
  /\ UNCHANGED <<ledger, attempt, refreshed, auth_writer, permits, pool,
                 active_asks, sent, result, events, rounds>>

TakePermit(a) ==
  /\ pc[a] = "gate" /\ Goto(a, "handshake")
  /\ permits > 0
  /\ permits' = permits - 1
  /\ UNCHANGED <<ledger, attempt, refreshed, auth_writer, pool, active_asks,
                 sent, result, events, rounds>>

Connect(a, s) ==
  /\ pc[a] = "handshake"
  /\ Goto(a, IF a = Warmer THEN "checkin" ELSE "connected")
  /\ permits' = permits + 1
  /\ s \in Unused
  /\ socket' = [socket EXCEPT ![a] = s]
  /\ UNCHANGED <<ledger, attempt, refreshed, auth_writer, idle, link,
                 active_asks, sent, result, events, rounds>>

HandshakeRefused(t) ==
  /\ pc[t] = "handshake"
  /\ Goto(t, IF refreshed[t] THEN "backoff" ELSE "refresh")
  /\ permits' = permits + 1
  /\ UNCHANGED <<ledger, attempt, refreshed, auth_writer, pool, active_asks,
                 sent, result, events, rounds>>

HandshakeFailed(t) ==
  /\ pc[t] = "handshake" /\ Goto(t, "settle")
  /\ permits' = permits + 1
  /\ End(t, "Failure", None)
  /\ UNCHANGED <<ledger, attempt, refreshed, auth_writer, pool, active_asks,
                 sent, events, rounds>>

\* Mutant: a refused handshake is not counted.
RetryForever(t) ==
  /\ pc[t] = "backoff" /\ Goto(t, "checkout")
  /\ UNCHANGED <<ledger, attempt, refreshed, auth_writer, permits, pool,
                 active_asks, sent, result, events, rounds>>

BackedOff(t) ==
  /\ pc[t] = "backoff"
  /\ attempt[t] + 1 < Attempts
  /\ Goto(t, "checkout")
  /\ attempt' = [attempt EXCEPT ![t] = @ + 1]
  /\ UNCHANGED <<ledger, refreshed, auth_writer, permits, pool, active_asks,
                 sent, result, events, rounds>>

GiveUpConnecting(t) ==
  /\ pc[t] = "backoff" /\ Goto(t, "settle")
  /\ attempt[t] + 1 >= Attempts
  /\ End(t, "Failure", None)
  /\ UNCHANGED <<ledger, attempt, refreshed, auth_writer, permits, pool,
                 active_asks, sent, events, rounds>>

-----------------------------------------------------------------------------
(* CodexResponsesWssPool::ask from the active guard on *)

Send(t) ==
  /\ pc[t] = "connected" /\ Goto(t, "reading")
  /\ active_asks' = active_asks + 1
  /\ sent' = [sent EXCEPT ![t] = @ + 1]
  /\ link' = IF link[socket[t]].open
             THEN [link EXCEPT ![socket[t]].requests = Append(@, t)]
             ELSE link
  /\ UNCHANGED <<ledger, attempt, refreshed, auth_writer, permits, idle,
                 socket, result, events, rounds>>

ReadSuccess(t) ==
  LET s == socket[t]
  IN  /\ pc[t] = "reading" /\ Goto(t, "checkin")
      /\ link[s].frames # <<>>
      /\ Head(link[s].frames).class = "Success"
      /\ End(t, "Success", Head(link[s].frames).to)
      /\ link' = [link EXCEPT ![s].frames = Tail(@)]
      /\ UNCHANGED <<ledger, attempt, refreshed, auth_writer, permits, idle,
                     socket, active_asks, sent, events, rounds>>

\* Every other end drops the socket and the guard: an error the provider
\* reports, or a deadline, a lost connection or a malformed frame.
Abort(t, class) ==
  /\ pc[t] = "reading" /\ Goto(t, "settle")
  /\ End(t, class, None)
  /\ DropSocket(t)
  /\ active_asks' = active_asks - 1
  /\ UNCHANGED <<ledger, attempt, refreshed, auth_writer, permits, sent,
                 events, rounds>>

ReadError(t) ==
  /\ pc[t] = "reading"
  /\ link[socket[t]].frames # <<>>
  /\ Head(link[socket[t]].frames).class # "Success"
  /\ Abort(t, Head(link[socket[t]].frames).class)

\* Mutant: an ask that times out hands its socket back.
KeepTimedOutSocket(t) ==
  /\ pc[t] = "reading" /\ Goto(t, "settle")
  /\ End(t, "Indeterminate", None)
  /\ Push(socket[t])
  /\ socket' = [socket EXCEPT ![t] = None]
  /\ active_asks' = active_asks - 1
  /\ UNCHANGED <<ledger, attempt, refreshed, auth_writer, permits, link, sent,
                 events, rounds>>

ReadLost(t) == Abort(t, "Indeterminate")

Checkin(a) ==
  /\ pc[a] = "checkin"
  /\ Goto(a, IF a = Warmer THEN "warming" ELSE "settle")
  /\ Push(socket[a])
  /\ socket' = [socket EXCEPT ![a] = None]
  /\ active_asks' = IF a = Warmer THEN active_asks ELSE active_asks - 1
  /\ link' = IF Len(idle) < MaxIdle THEN link
             ELSE [link EXCEPT ![socket[a]] = NewLink]
  /\ UNCHANGED <<ledger, attempt, refreshed, auth_writer, permits, sent,
                 result, events, rounds>>

(* CodexResponsesHttpLane::ask.  Streams of the HTTP/2 client are external:  *)
(* a stream answers the request it carries.                                  *)

HttpSend(t) ==
  /\ pc[t] = "http_send" /\ Goto(t, "http_reading")
  /\ sent' = [sent EXCEPT ![t] = @ + 1]
  /\ UNCHANGED <<ledger, attempt, refreshed, auth_writer, permits, pool,
                 active_asks, result, events, rounds>>

HttpEnd(t, class) ==
  /\ pc[t] = "http_reading" /\ Goto(t, "settle")
  /\ End(t, class, t)
  /\ UNCHANGED <<ledger, attempt, refreshed, auth_writer, permits, pool,
                 active_asks, sent, events, rounds>>

\* Mutant: a refused HTTP request is sent again with the refreshed auth.
HttpReplayRefused(t) ==
  /\ pc[t] = "http_reading" /\ Goto(t, "auth")
  /\ UNCHANGED <<ledger, attempt, refreshed, auth_writer, permits, pool,
                 active_asks, sent, result, events, rounds>>

HttpRefused(t) ==
  /\ pc[t] = "http_reading" /\ Goto(t, "refresh")
  /\ End(t, "Failure", None)
  /\ UNCHANGED <<ledger, attempt, refreshed, auth_writer, permits, pool,
                 active_asks, sent, events, rounds>>

-----------------------------------------------------------------------------
(* DispatchCompletionGuard: release the lease, then emit one event. *)

LedgerOf(t, l, class) ==
  CASE class = "Success" -> Ledger!Succeed(t, l)
    [] class = "LaneOverload" -> Ledger!Overload(t, l)
    [] class = "SharedThrottle" -> Ledger!Throttle(t, l)
    [] OTHER -> Ledger!Withdraw(t, l)

Settle(t) ==
  /\ pc[t] = "settle" /\ Goto(t, "done")
  /\ \E l \in Lane : LedgerOf(t, l, outcome[t])
  /\ events' = [events EXCEPT ![t] = @ + 1]
  /\ UNCHANGED <<attempt, refreshed, auth_writer, permits, pool, active_asks,
                 sent, result, rounds>>

\* The caller's future is dropped at an await that is pending.  An ask that has
\* no lease yet has no result class; it has its guard once it is past
\* generation().await.
Pending(t) ==
  \/ pc[t] \in {"seeking", "fetching", "checkout", "handshake", "refreshing",
                "backoff", "reading", "checkin", "http_reading"}
  \/ pc[t] \in {"admitted", "auth", "refresh"} /\ auth_writer # None
  \/ pc[t] = "gate" /\ permits = 0

\* Mutant: the permit of an abandoned handshake is lost.
KeepPermit(t) == permits' = permits

FreePermit(t) ==
  permits' = IF pc[t] = "handshake" THEN permits + 1 ELSE permits

Cancel(t) ==
  /\ Pending(t) /\ Goto(t, "done")
  /\ \/ pc[t] = "seeking" /\ Ledger!GiveUp(t)
     \/ pc[t] # "seeking" /\ \E l \in Lane : Ledger!Withdraw(t, l)
  /\ End(t, IF pc[t] = "seeking" THEN None ELSE "Cancelled", None)
  /\ DropSocket(t)
  /\ FreePermit(t)
  /\ auth_writer' = IF auth_writer = t THEN None ELSE auth_writer
  /\ active_asks' = IF pc[t] \in {"reading", "checkin"} THEN active_asks - 1
                    ELSE active_asks
  /\ events' = IF pc[t] \in {"seeking", "admitted"} THEN events
               ELSE [events EXCEPT ![t] = @ + 1]
  /\ UNCHANGED <<attempt, refreshed, sent, rounds>>

-----------------------------------------------------------------------------
(* CodexResponsesWssPool::prewarm, spawned once when the daemon starts. *)

PrewarmTarget ==
  IF "websocket" \notin Enabled THEN 0
  ELSE IF Prewarm < MaxIdle THEN Prewarm ELSE MaxIdle

WarmNext ==
  /\ pc[Warmer] = "warming"
  /\ IF rounds < PrewarmTarget /\ Len(idle) < PrewarmTarget
     THEN Goto(Warmer, "auth") /\ rounds' = rounds + 1
     ELSE Goto(Warmer, "done") /\ UNCHANGED rounds
  /\ UNCHANGED <<ledger, attempt, refreshed, auth_writer, permits, pool,
                 active_asks, sent, result, events>>

WarmAuthFailed ==
  /\ pc[Warmer] = "fetching" /\ Goto(Warmer, "done")
  /\ auth_writer' = None
  /\ UNCHANGED <<ledger, attempt, refreshed, permits, pool, active_asks, sent,
                 result, events, rounds>>

WarmHandshakeFailed ==
  /\ pc[Warmer] = "handshake" /\ Goto(Warmer, "backoff")
  /\ permits' = permits + 1
  /\ UNCHANGED <<ledger, attempt, refreshed, auth_writer, pool, active_asks,
                 sent, result, events, rounds>>

WarmBackedOff ==
  /\ pc[Warmer] = "backoff" /\ Goto(Warmer, "warming")
  /\ UNCHANGED <<ledger, attempt, refreshed, auth_writer, permits, pool,
                 active_asks, sent, result, events, rounds>>

-----------------------------------------------------------------------------
(* The provider's end of a socket, and time. *)

Answer(s, class) ==
  /\ link[s].open /\ link[s].requests # <<>>
  /\ link' = [link EXCEPT
       ![s].requests = Tail(@),
       ![s].frames = Append(@, [to |-> Head(link[s].requests), class |-> class])]
  /\ UNCHANGED <<ledger, pc, attempt, refreshed, auth_writer, permits, idle,
                 socket, active_asks, sent, result, events, rounds>>

Hangup(s) ==
  /\ s \notin Unused /\ link[s].open
  /\ link' = [link EXCEPT ![s].open = FALSE]
  /\ UNCHANGED <<ledger, pc, attempt, refreshed, auth_writer, permits, idle,
                 socket, active_asks, sent, result, events, rounds>>

Elapse ==
  /\ Ledger!Elapse
  /\ UNCHANGED <<pc, attempt, refreshed, auth_writer, permits, pool,
                 active_asks, sent, result, events, rounds>>

Auth(a) == LoadCached(a) \/ LoadStale(a) \/ Fetched(a)

Refresh(t) ==
  RefreshShared(t) \/ RefreshStart(t) \/ RefreshDone(t) \/ RefreshFailed(t)

Acquire(t) ==
  \/ CheckoutReused(t) \/ CheckoutEmpty(t)
  \/ HandshakeRefused(t) \/ HandshakeFailed(t)
  \/ BackedOff(t) \/ GiveUpConnecting(t)

Connecting(a) == TakePermit(a) \/ \E s \in Socket : Connect(a, s)

Exchange(t) == Send(t) \/ ReadSuccess(t) \/ ReadError(t) \/ ReadLost(t)

Http(t) == HttpSend(t) \/ (\E c \in Class : HttpEnd(t, c)) \/ HttpRefused(t)

Dispatch(t) ==
  \/ \E l \in Lane : Admit(t, l)
  \/ Begin(t) \/ Auth(t) \/ FetchFailed(t) \/ Refresh(t) \/ Acquire(t)
  \/ Connecting(t) \/ Exchange(t) \/ Checkin(t) \/ Http(t) \/ Settle(t)

Warm ==
  \/ WarmNext \/ WarmAuthFailed \/ WarmHandshakeFailed \/ WarmBackedOff
  \/ Auth(Warmer) \/ Connecting(Warmer) \/ Checkin(Warmer)

Provider(s) == (\E c \in Class : Answer(s, c)) \/ Hangup(s)

Next ==
  \/ \E t \in Task : Ask(t) \/ Dispatch(t) \/ Cancel(t)
  \/ Warm
  \/ \E s \in Socket : Provider(s)
  \/ Elapse

Spec == Init /\ [][Next]_vars

\* Every await has a deadline or is released by somebody who has one; nobody
\* is obliged to ask or to go away, and the provider may stay silent.
FairSpec ==
  /\ Spec
  /\ \A t \in Task : WF_vars(Dispatch(t))
  /\ WF_vars(Warm)
  /\ WF_vars(Elapse)

-----------------------------------------------------------------------------
TypeOK ==
  /\ seekers \subseteq Task /\ holders \in [Lane -> SUBSET Task]
  /\ window \in [Lane -> Nat] /\ pause \in Nat
  /\ pc \in [Actor -> Location]
  /\ attempt \in [Task -> 0..(Attempts - 1)] /\ refreshed \in [Task -> BOOLEAN]
  /\ auth_writer \in Actor \cup {None}
  /\ permits \in 0..GatePermits
  /\ idle \in Seq(Socket) /\ Len(idle) <= MaxIdle
  /\ socket \in [Actor -> Socket \cup {None}]
  /\ link \in [Socket -> Link]
  /\ active_asks \in Nat /\ sent \in [Task -> Nat] /\ events \in [Task -> Nat]
  /\ outcome \in [Task -> Class \cup {None, "Cancelled"}]
  /\ answer \in [Task -> Task \cup {None}]
  /\ rounds \in Nat

\* What an ask holds it gives back, at whichever await it ends or is dropped:
\* its lease, its handshake permit, the auth lock, its place in active_asks.
NothingLeaks ==
  /\ permits + Cardinality({a \in Actor : pc[a] = "handshake"}) = GatePermits
  /\ active_asks =
       Cardinality({t \in Task : pc[t] \in {"reading", "checkin"}})
  /\ auth_writer # None => pc[auth_writer] \in {"fetching", "refreshing"}
  /\ \A t \in Task :
       t \in Ledger!Admitted <=> pc[t] \notin {"idle", "seeking", "done"}

\* "MUST NOT multiplex two active asks on one WSS socket": a socket has one
\* owner, an ask, the prewarm or one place in the idle stack.
SocketsExclusive ==
  /\ \A a, b \in Actor : a # b /\ socket[a] # None => socket[a] # socket[b]
  /\ \A a \in Actor : socket[a] \notin Idle
  /\ \A i, j \in DOMAIN idle : idle[i] = idle[j] => i = j

\* The text an ask returns answers its own request: no reply that an earlier
\* ask left unread reaches the next owner of its socket.
AnswersOwnAsk == \A t \in Task : answer[t] \in {t, None}

\* "The same logical request MUST NOT be sent again on the same lane or the
\* other lane", through handshake retries, refreshes and lost sockets.
SentAtMostOnce == \A t \in Task : sent[t] <= 1

\* The pool never has more connections than asks can use: wss_max, and what
\* prewarm added, although the idle stack alone may hold wss_max of them.
ConnectionsBounded ==
  Len(idle) + Cardinality({a \in Actor : socket[a] # None})
    <= Maximum["websocket"] + PrewarmTarget

\* Every ask ends, and no ask waits for ever on the gate, on the auth lock or
\* on a provider that says nothing.
EveryAskEnds == \A t \in Task : pc[t] = "seeking" ~> pc[t] = "done"

\* "Each logical request has one event", for the completed, failed,
\* indeterminate and cancelled (lease dropped before a terminal result) alike.
OneEventPerRequest ==
  \A t \in Task : pc[t] = "done" /\ outcome[t] # None => events[t] = 1
=============================================================================
