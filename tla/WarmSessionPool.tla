---------------------------- MODULE WarmSessionPool ----------------------------
(***************************************************************************)
(* crates/rtinfer-core/src/warm.rs: WarmSessionPool routes the asks of one *)
(* model to a small ring of WarmSessions.  A session owns one Realtime     *)
(* socket and a fair mutex under which its asks run one after the other;   *)
(* an ask may reconnect the socket, be sent a second time on a fresh one,  *)
(* time out, or be dropped by its caller at any await.                     *)
(*                                                                         *)
(* The three kinds of ask differ only in the frame they send and in the    *)
(* terminal envelopes they accept.  Rings and pins are keyed by model, and *)
(* models share nothing but credentials (CredentialLease).                 *)
(***************************************************************************)
EXTENDS Naturals, Sequences, FiniteSets, SequencesExt

CONSTANTS
  WarmAsk,    \* asks of one model, each made once
  KindOf,     \* the kind of an ask
  FamilyOf,   \* family_hash of its system prompt
  Family,
  PerModel,   \* sockets per model
  Overflow,   \* sticky_overflow_inflight
  Sticky,     \* RTINFER_STICKY_ROUTING
  Impatient,  \* asks whose caller may go away (bound)
  Closings    \* sockets that may be closed by the provider (bound)

Kind == {"structured", "text", "tools"}
Session == 1..PerModel

ASSUME WarmAssumption ==
  /\ IsFiniteSet(WarmAsk) /\ Impatient \subseteq WarmAsk
  /\ KindOf \in [WarmAsk -> Kind] /\ FamilyOf \in [WarmAsk -> Family]
  /\ PerModel \in Nat \ {0} /\ Overflow \in Nat \ {0}
  /\ Sticky \in BOOLEAN /\ Closings \in Nat

-----------------------------------------------------------------------------
VARIABLES
  ring,      \* sessions of the model, numbered in the order they were opened
  load,      \* WarmSession.load
  repin,     \* WarmSession.sticky_repin_needed
  sock,      \* WarmSession.inner: at most one socket
  queue,     \* its mutex, first come first served; the head holds it
  pin,       \* family_pins; 0 is no pin
  wpc,       \* the await an ask has reached
  session,   \* the session an ask was routed to
  pinning,   \* whether an ask moves its family's pin
  fresh,     \* whether the ask itself connected the socket it runs on
  heard,     \* whose envelopes an ask has folded into its result
  runs,      \* how often the provider received an ask
  closings

routing == <<ring, load, pin, session, pinning>>
warmVars == <<ring, load, repin, sock, queue, pin, wpc, session, pinning,
              fresh, heard, runs, closings>>

NoSocket == {}
\* A live socket: whether it is still open, whether its age or idle time rules
\* out a reuse, and the asks whose responses the provider still has to send.
NewSocket == {[open |-> TRUE, aged |-> FALSE, owed |-> {}]}
Socket(s) == CHOOSE x \in sock[s] : TRUE
Live(s, x) == sock' = [sock EXCEPT ![s] = {x}]

WarmInit ==
  /\ ring = 0
  /\ load = [s \in Session |-> 0] /\ repin = [s \in Session |-> FALSE]
  /\ sock = [s \in Session |-> NoSocket] /\ queue = [s \in Session |-> <<>>]
  /\ pin = [f \in Family |-> 0]
  /\ wpc = [a \in WarmAsk |-> "idle"] /\ session = [a \in WarmAsk |-> 0]
  /\ pinning = [a \in WarmAsk |-> FALSE] /\ fresh = [a \in WarmAsk |-> FALSE]
  /\ heard = [a \in WarmAsk |-> {}] /\ runs = [a \in WarmAsk |-> 0]
  /\ closings = 0

Goto(a, to) == wpc' = [wpc EXCEPT ![a] = to]

-----------------------------------------------------------------------------
(* Routing *)

\* A mutex that is taken counts as warm: try_lock fails.
IsWarm(s) == queue[s] # <<>> \/ sock[s] # NoSocket

RoutingState(s) == IF IsWarm(s) THEN 0 ELSE IF repin[s] THEN 2 ELSE 1

\* The first of the ring's sessions that Rank puts lowest.
Best(C, Rank(_)) ==
  CHOOSE s \in C : \A t \in C \ {s} :
    Rank(s) < Rank(t) \/ (Rank(s) = Rank(t) /\ s < t)

Chosen ==
  LET idle == {s \in 1..ring : load[s] = 0}
      rank(s) == 3 * load[s] + RoutingState(s)
  IN  IF idle # {} THEN Best(idle, RoutingState)
      ELSE IF ring < PerModel THEN ring + 1
      ELSE Best(1..ring, rank)

\* The pin is read before the ring is locked.
LookUpPin(a) ==
  LET home == pin[FamilyOf[a]]
      hit == Sticky /\ home # 0 /\ ~repin[home] /\ load[home] < Overflow
  IN
  /\ wpc[a] = "idle"
  /\ IF hit
     THEN Goto(a, "picked") /\ session' = [session EXCEPT ![a] = home]
          /\ UNCHANGED pinning
     ELSE /\ Goto(a, "select") /\ UNCHANGED session
          /\ pinning' = [pinning EXCEPT ![a] =
                           Sticky /\ (home = 0 \/ repin[home])]
  /\ UNCHANGED <<ring, load, repin, sock, queue, pin, fresh, heard, runs, closings>>

SelectCold(a) ==
  /\ wpc[a] = "select" /\ Goto(a, IF pinning[a] THEN "pin" ELSE "picked")
  /\ session' = [session EXCEPT ![a] = Chosen]
  /\ ring' = IF Chosen > ring THEN Chosen ELSE ring
  /\ UNCHANGED <<load, repin, sock, queue, pin, pinning, fresh, heard, runs, closings>>

Pin(a) ==
  /\ wpc[a] = "pin" /\ Goto(a, "picked")
  /\ pin' = [pin EXCEPT ![FamilyOf[a]] = session[a]]
  /\ UNCHANGED <<ring, load, repin, sock, queue, session, pinning, fresh, heard,
                 runs, closings>>

\* The load is counted after the session is picked, then the mutex awaited.
Enter(a) ==
  LET s == session[a] IN
  /\ wpc[a] = "picked" /\ Goto(a, "queued")
  /\ load' = [load EXCEPT ![s] = @ + 1]
  /\ queue' = [queue EXCEPT ![s] = Append(@, a)]
  /\ UNCHANGED <<ring, repin, sock, pin, session, pinning, fresh, heard, runs, closings>>

\* Mutant: an ask that fails keeps its load.
ReturnLoaded(a, to) ==
  LET s == session[a] IN
  /\ Goto(a, to)
  /\ queue' = [queue EXCEPT ![s] = Tail(@)]
  /\ load' = [load EXCEPT ![s] = IF to = "failed" THEN @ ELSE @ - 1]

\* The ask returns: it unlocks the session and takes its load off.
Return(a, to) ==
  LET s == session[a] IN
  /\ Goto(a, to)
  /\ queue' = [queue EXCEPT ![s] = Tail(@)]
  /\ load' = [load EXCEPT ![s] = @ - 1]

-----------------------------------------------------------------------------
(* One ask on its session, under the session's mutex *)

Reusable(s) == sock[s] # NoSocket /\ ~Socket(s).aged

\* ensure_live: a socket that is absent, old or idle too long is replaced.
EnsureLive(a) ==
  LET s == session[a] IN
  /\ wpc[a] = "queued" /\ Head(queue[s]) = a
  /\ IF Reusable(s) THEN Goto(a, "send") /\ UNCHANGED sock
     ELSE Goto(a, "connect") /\ sock' = [sock EXCEPT ![s] = NoSocket]
  /\ UNCHANGED <<routing, repin, queue, fresh, heard, runs, closings>>

ConnectAndPrime(a) ==
  LET s == session[a] IN
  /\ wpc[a] \in {"connect", "reconnect"} /\ Goto(a, "send")
  /\ sock' = [sock EXCEPT ![s] = NewSocket]
  /\ repin' = [repin EXCEPT ![s] = FALSE]
  /\ fresh' = [fresh EXCEPT ![a] = TRUE]
  /\ UNCHANGED <<routing, queue, heard, runs, closings>>

\* A handshake refused for its credentials is tried once more with new ones.
AuthRejected(a) ==
  /\ wpc[a] = "connect" /\ Goto(a, "reconnect")
  /\ UNCHANGED <<routing, repin, sock, queue, fresh, heard, runs, closings>>

\* Every error but a stale reused socket ends the ask, drops the socket and
\* marks the session.
Fail(a) ==
  LET s == session[a] IN
  /\ Return(a, "failed")
  /\ sock' = [sock EXCEPT ![s] = NoSocket]
  /\ repin' = [repin EXCEPT ![s] = TRUE]

ConnectFails(a) ==
  /\ wpc[a] \in {"connect", "reconnect"} /\ Fail(a)
  /\ UNCHANGED <<ring, pin, session, pinning, fresh, heard, runs, closings>>

\* A socket closed from the other end may still take the frame.
Send(a) ==
  LET s == session[a] IN
  /\ wpc[a] = "send" /\ Goto(a, "read")
  /\ IF Socket(s).open
     THEN /\ Live(s, [Socket(s) EXCEPT !.owed = @ \cup {a}])
          /\ runs' = [runs EXCEPT ![a] = @ + 1]
     ELSE UNCHANGED <<sock, runs>>
  /\ UNCHANGED <<routing, repin, queue, fresh, heard, closings>>

\* "ws send", "ws read" or "socket closed mid-ask".
is_stale_socket_error(a) == wpc[a] \in {"send", "read"} /\ ~Socket(session[a]).open

\* The socket is dropped, with what was heard on it, and another one connected.
Redispatch(a) ==
  /\ Goto(a, "connect") /\ sock' = [sock EXCEPT ![session[a]] = NoSocket]
  /\ heard' = [heard EXCEPT ![a] = {}]

\* Mutant: also an ask that connected its socket itself is dispatched again.
StaleSocketAgain(a) ==
  /\ is_stale_socket_error(a) /\ Redispatch(a)
  /\ UNCHANGED <<repin, queue, load, ring, pin, session, pinning, fresh, runs, closings>>

\* On a reused socket the ask is dispatched once more, on a new one.
StaleSocket(a) ==
  /\ is_stale_socket_error(a)
  /\ IF ~fresh[a]
     THEN Redispatch(a) /\ UNCHANGED <<repin, queue, load>>
     ELSE Fail(a) /\ UNCHANGED heard
  /\ UNCHANGED <<ring, pin, session, pinning, fresh, runs, closings>>

\* The read loop takes every envelope for its own; nothing on the wire says
\* which ask it answers.
ReadDelta(a) ==
  /\ wpc[a] = "read"
  /\ \E r \in Socket(session[a]).owed :
       r \notin heard[a] /\ heard' = [heard EXCEPT ![a] = @ \cup {r}]
  /\ UNCHANGED <<routing, repin, sock, queue, wpc, fresh, runs, closings>>

\* How a response may end: a tool call, one whose arguments do not parse, text
\* that is JSON, text that is not, a provider error.
Ending == {"call", "malformed", "json", "prose", "error"}

run_one == {"call", "json"}
run_text == Ending \ {"error"}
run_tools == Ending \ {"malformed", "error"}

Accepted(a) ==
  CASE KindOf[a] = "structured" -> run_one
    [] KindOf[a] = "text" -> run_text
    [] KindOf[a] = "tools" -> run_tools

ReadEnd(a) ==
  LET s == session[a] IN
  /\ wpc[a] = "read"
  /\ \E r \in Socket(s).owed, e \in Ending :
       /\ heard' = [heard EXCEPT ![a] = @ \cup {r}]
       /\ IF e \in Accepted(a)
          THEN /\ Return(a, "answered") /\ UNCHANGED repin
               /\ Live(s, [Socket(s) EXCEPT !.owed = @ \ {r}])
          ELSE Fail(a)
  /\ UNCHANGED <<ring, pin, session, pinning, fresh, runs, closings>>

\* Mutant: the socket outlives the timeout.
WallClockKeepsSocket(a) ==
  /\ wpc[a] = "read" /\ Return(a, "failed")
  /\ UNCHANGED <<ring, pin, session, pinning, fresh, heard, runs, closings, sock, repin>>

\* ASK_WALL_CLOCK passes without a terminal envelope.
WallClock(a) ==
  /\ wpc[a] = "read" /\ Fail(a)
  /\ UNCHANGED <<ring, pin, session, pinning, fresh, heard, runs, closings>>

-----------------------------------------------------------------------------
(* The surroundings *)

Routed == {"select", "pin"}
Inside == {"queued", "connect", "reconnect", "send", "read"}

\* Mutant: the mutex is never left.
CancelHoldsLock(a) ==
  /\ a \in Impatient /\ wpc[a] \in Routed \cup Inside
  /\ Goto(a, IF wpc[a] \in Inside THEN "gone" ELSE "left")
  /\ UNCHANGED <<routing, repin, sock, queue, fresh, heard, runs, closings>>

\* Dropping the handler's future unlocks or leaves the mutex; nothing takes
\* the load off, and a socket whose response is unread stays in the session.
Cancel(a) ==
  /\ a \in Impatient /\ wpc[a] \in Routed \cup Inside
  /\ Goto(a, IF wpc[a] \in Inside THEN "gone" ELSE "left")
  /\ queue' = [s \in Session |-> RemoveFirst(queue[s], a)]
  /\ UNCHANGED <<routing, repin, sock, fresh, heard, runs, closings>>

\* The provider closes a socket, with every response it still owed.
Close(s) ==
  /\ closings < Closings /\ closings' = closings + 1
  /\ sock[s] # NoSocket /\ Socket(s).open
  /\ Live(s, [Socket(s) EXCEPT !.open = FALSE, !.owed = {}])
  /\ UNCHANGED <<routing, repin, queue, wpc, fresh, heard, runs>>

\* A socket passes SESSION_IDLE_MAX or SESSION_MAX_AGE.  Only ensure_live looks
\* at its age: while an ask runs on it there is nothing to tell.
Age(s) ==
  /\ sock[s] # NoSocket /\ ~Socket(s).aged
  /\ \A a \in WarmAsk : session[a] = s => wpc[a] \notin {"send", "read"}
  /\ Live(s, [Socket(s) EXCEPT !.aged = TRUE])
  /\ UNCHANGED <<routing, repin, queue, wpc, fresh, heard, runs, closings>>

Decay(s) == Close(s) \/ Age(s)

Step(a) ==
  \/ SelectCold(a) \/ Pin(a) \/ Enter(a) \/ EnsureLive(a)
  \/ ConnectAndPrime(a) \/ AuthRejected(a) \/ ConnectFails(a)
  \/ Send(a) \/ StaleSocket(a) \/ ReadDelta(a) \/ ReadEnd(a) \/ WallClock(a)

WarmNext ==
  \/ \E a \in WarmAsk : LookUpPin(a) \/ Step(a) \/ Cancel(a)
  \/ \E s \in Session : Decay(s)

WarmSpec == WarmInit /\ [][WarmNext]_warmVars

\* Tasks are scheduled, handshakes and reads are under a timeout, and tokio's
\* mutex serves its waiters in order.  A frame is sent without a timeout: that
\* the socket takes it is assumed of the network.
WarmFairness == \A a \in WarmAsk : WF_warmVars(Step(a))

-----------------------------------------------------------------------------
WarmTypeOK ==
  /\ ring \in 0..PerModel
  /\ load \in [Session -> Nat] /\ repin \in [Session -> BOOLEAN]
  /\ \A s \in Session :
       /\ sock[s] = NoSocket \/ \E x \in sock[s] : sock[s] = {x}
       /\ \A x \in sock[s] : x.open \in BOOLEAN /\ x.aged \in BOOLEAN
                             /\ x.owed \subseteq WarmAsk
  /\ queue \in [Session -> Seq(WarmAsk)]
  /\ pin \in [Family -> 0..ring]
  /\ wpc \in [WarmAsk -> {"idle", "picked", "answered", "failed", "gone", "left"}
                         \cup Routed \cup Inside]
  /\ session \in [WarmAsk -> 0..ring]
  /\ pinning \in [WarmAsk -> BOOLEAN] /\ fresh \in [WarmAsk -> BOOLEAN]
  /\ heard \in [WarmAsk -> SUBSET WarmAsk]
  /\ runs \in [WarmAsk -> Nat] /\ closings \in 0..Closings

InFlight(s) == {a \in WarmAsk : wpc[a] \in Inside /\ session[a] = s}
Abandoned(s) == {a \in WarmAsk : wpc[a] = "gone" /\ session[a] = s}

\* "In-flight asks routed to this socket": the load that sessions are chosen by.
LoadIsInFlight == \A s \in Session : load[s] = Cardinality(InFlight(s))

\* What it is instead: an ask takes its load off whichever way it returns, and
\* one that is dropped leaves it behind for good, so that a load never counts
\* too few and its excess is the asks abandoned on the session.
OnlyAbandonedAsksLeakLoad ==
  \A s \in Session : load[s] = Cardinality(InFlight(s)) + Cardinality(Abandoned(s))

\* The socket of a session owes no more responses than the ask reading it and
\* those abandoned on it: timeouts, provider errors and dead sockets leave
\* nothing unread, so only an abandoned ask can put one ask's words into the
\* answers of those that follow.
Reading(s) == {a \in WarmAsk : wpc[a] = "read" /\ session[a] = s}

CrossTalkNeedsCancel ==
  /\ \A s \in Session : \A x \in sock[s] :
       Cardinality(x.owed) <= Cardinality(Abandoned(s)) + Cardinality(Reading(s))
  /\ \A a \in WarmAsk : heard[a] \subseteq {a} \/ Abandoned(session[a]) # {}

\* "One out-of-band response per socket at a time keeps the read loop trivially
\* correct": an answer is made of the provider's words for that ask alone.
WarmAnswersOwnAsk ==
  \A a \in WarmAsk : wpc[a] = "answered" => heard[a] \subseteq {a}

\* "That ask never started server-side, so reconnect and re-dispatch it": what a
\* reused socket that died has not delivered the provider has not begun.
RedispatchedNeverStarted ==
  \A a \in WarmAsk : is_stale_socket_error(a) /\ ~fresh[a] => a \notin heard[a]

\* What holds of re-dispatches instead: no ask is sent a third time, and each
\* socket the provider closes has at most one ask sent again, however many are
\* queued on its session or find it dead.
RepeatsFollowClosings ==
  /\ \A a \in WarmAsk : runs[a] <= 2
  /\ Cardinality({a \in WarmAsk : runs[a] = 2}) <= closings

\* An ask that was routed returns, unless its caller went away: an abandoned
\* ask does not keep the session's mutex from those behind it.
EveryWarmAskReturns ==
  \A a \in WarmAsk :
    wpc[a] # "idle" ~> wpc[a] \in {"answered", "failed", "gone", "left"}
=============================================================================
