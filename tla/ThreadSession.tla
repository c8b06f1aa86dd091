----------------------------- MODULE ThreadSession -----------------------------
(***************************************************************************)
(* crates/rtinfer-core/src/thread.rs: the ThreadRegistry keeps one         *)
(* ThreadSession per thread and model, least recently used first out.  A   *)
(* session owns a Realtime socket whose server-side conversation is meant  *)
(* to hold exactly the items of its log, appended_ids.  Every ask carries  *)
(* the whole window of transcript items; the session appends what the      *)
(* server lacks, or reconnects and replays the window.                     *)
(*                                                                         *)
(* An item's text counts one unit of thread_max_chars.                     *)
(***************************************************************************)
EXTENDS Naturals, Sequences, FiniteSets, SequencesExt

CONSTANTS
  ThreadAsk,     \* asks, each made once
  KeyOf,         \* model and thread id of an ask
  Key,
  Inputs,        \* windows of item ids and config_hash values an ask may carry
  MaxItems,      \* thread_max_chars
  MaxThreads,    \* DEFAULT_MAX_THREADS
  Hasty,         \* asks whose caller may go away (bound)
  Losses         \* sockets the provider may close or that age (bound)

\* An ask creates at most one session.
Thread == 1..Cardinality(ThreadAsk)

ASSUME ThreadAssumption ==
  /\ IsFiniteSet(ThreadAsk) /\ Hasty \subseteq ThreadAsk
  /\ KeyOf \in [ThreadAsk -> Key] /\ DOMAIN Inputs = ThreadAsk
  /\ \A a \in ThreadAsk : \A in \in Inputs[a] : in.items \in Seq(ToSet(in.items))
  /\ MaxItems \in Nat \ {0} /\ MaxThreads \in Nat \ {0} /\ Losses \in Nat

-----------------------------------------------------------------------------
VARIABLES
  registry,   \* ThreadRegistry.threads, by last_used: the oldest first
  created,    \* sessions created so far
  thread,     \* ThreadState of each session
  far,        \* the provider's end of each session's socket
  waiting,    \* the session's mutex, first come first served
  tpc,        \* the await an ask has reached
  ask,        \* the session, window and config of an ask
  sent,       \* items it has sent to the socket and not yet logged
  asked,      \* what its response.create stood for when it was sent
  replies,    \* whose envelopes an ask has folded into its result
  losses

threadVars == <<registry, created, thread, far, waiting, tpc, ask, sent, asked,
                replies, losses>>

Down == [live |-> FALSE, appended_ids |-> <<>>, config_hash |-> {}]
NoFarEnd == [open |-> FALSE, aged |-> FALSE, items |-> <<>>, config |-> {}, owed |-> {}]

\* An "error" event the provider owes for an item it refused.
Refusal == "refusal"

ThreadInit ==
  /\ registry = <<>> /\ created = 0
  /\ thread = [s \in Thread |-> Down] /\ far = [s \in Thread |-> NoFarEnd]
  /\ waiting = [s \in Thread |-> <<>>]
  /\ tpc = [a \in ThreadAsk |-> "idle"]
  /\ ask = [a \in ThreadAsk |-> [session |-> 0, items |-> <<>>, config |-> {}]]
  /\ sent = [a \in ThreadAsk |-> 0]
  /\ asked = [a \in ThreadAsk |-> {}] /\ replies = [a \in ThreadAsk |-> {}]
  /\ losses = 0

\* Equal exactly for equal configurations; Down's is the default of no ask.
config_hash(config) == {config}

At(a, here, next) == tpc[a] = here /\ tpc' = [tpc EXCEPT ![a] = next]
Set(s, st) == thread' = [thread EXCEPT ![s] = st]
Log(s) == thread[s].appended_ids

-----------------------------------------------------------------------------
(* The registry: pairs of a key and a session *)

Registered(k) == {i \in DOMAIN registry : registry[i].key = k}

\* A full registry is held to one below its bound, the idle longest leaving
\* first; since only one has to go, whether it has passed THREAD_IDLE_TTL
\* makes no difference, nor does the `.max(1)` of the code's target, whose
\* bound is 64: MaxThreads scales that bound down, to one if need be.
EvictIdle == IF Len(registry) >= MaxThreads THEN Tail(registry) ELSE registry

SessionFor(a) ==
  LET k == KeyOf[a]
      Found(s, in) == ask' = [ask EXCEPT ![a] =
                        [session |-> s, items |-> in.items, config |-> config_hash(in.config)]]
  IN
  \E in \in Inputs[a] :
    /\ At(a, "idle", "found")
    /\ IF Registered(k) # {}
       THEN /\ \E i \in Registered(k) : Found(registry[i].session, in)
            /\ UNCHANGED <<registry, created>>
       ELSE /\ created' = created + 1 /\ Found(created + 1, in)
            /\ registry' = Append(EvictIdle, [key |-> k, session |-> created + 1])
    /\ UNCHANGED <<thread, far, waiting, sent, asked, replies, losses>>

\* last_used is renewed before the session's mutex is awaited.
Touch(a) ==
  LET s == ask[a].session
      entry == [key |-> KeyOf[a], session |-> s]
  IN
  /\ At(a, "found", "queued")
  /\ registry' = IF Contains(registry, entry) THEN Append(RemoveFirst(registry, entry), entry)
                 ELSE registry
  /\ waiting' = [waiting EXCEPT ![s] = Append(@, a)]
  /\ UNCHANGED <<created, thread, far, ask, sent, asked, replies, losses>>

-----------------------------------------------------------------------------
(* ThreadSession::ask, under the session's mutex *)

\* Mutant: only the lengths are compared.
IdsNoLonger(appended, items) == Len(appended) <= Len(items)

ids_extend(appended, items) == IsPrefix(appended, items)

NeedsReset(s, a) ==
  \/ ~thread[s].live \/ far[s].aged
  \/ thread[s].config_hash # ask[a].config
  \/ ~ids_extend(Log(s), ask[a].items)
  \/ Len(Log(s)) + Len(SubSeq(ask[a].items, Len(Log(s)) + 1, Len(ask[a].items))) > MaxItems

\* Where an ask goes whose session holds the first n items of its window.
AfterLog(a, n) == IF n = Len(ask[a].items) THEN "dispatch" ELSE "append"

\* Mutant: a reset keeps the log.
BeginKeepsLog(a) ==
  LET s == ask[a].session IN
  /\ tpc[a] = "queued" /\ Head(waiting[s]) = a
  /\ IF NeedsReset(s, a)
     THEN /\ At(a, "queued", "connect") /\ Set(s, [thread[s] EXCEPT !.live = FALSE])
          /\ far' = [far EXCEPT ![s] = NoFarEnd]
     ELSE At(a, "queued", AfterLog(a, Len(Log(s)))) /\ UNCHANGED <<thread, far>>
  /\ UNCHANGED <<registry, created, waiting, ask, sent, asked, replies, losses>>

Begin(a) ==
  LET s == ask[a].session IN
  /\ tpc[a] = "queued" /\ Head(waiting[s]) = a
  /\ IF NeedsReset(s, a)
     THEN /\ At(a, "queued", "connect")
          /\ Set(s, [thread[s] EXCEPT !.live = FALSE, !.appended_ids = <<>>])
          /\ far' = [far EXCEPT ![s] = NoFarEnd]
     ELSE At(a, "queued", AfterLog(a, Len(Log(s)))) /\ UNCHANGED <<thread, far>>
  /\ UNCHANGED <<registry, created, waiting, ask, sent, asked, replies, losses>>

\* session.update pins the instructions and the result tool.  A handshake
\* refused for its credentials is repeated within the step.
Connect(a) ==
  LET s == ask[a].session IN
  /\ At(a, "connect", AfterLog(a, 0))
  /\ Set(s, [thread[s] EXCEPT !.live = TRUE, !.config_hash = ask[a].config])
  /\ far' = [far EXCEPT ![s] = [NoFarEnd EXCEPT !.open = TRUE, !.config = ask[a].config]]
  /\ UNCHANGED <<registry, created, waiting, ask, sent, asked, replies, losses>>

\* The provider refuses an id it already has.
Receives(end, id) ==
  IF ~end.open THEN end
  ELSE IF Contains(end.items, id) THEN [end EXCEPT !.owed = @ \cup {Refusal}]
  ELSE [end EXCEPT !.items = Append(@, id)]

\* One conversation.item.create.  The log is brought up to the window once
\* every item is sent.
AppendItem(a) ==
  LET s == ask[a].session
      n == Len(Log(s)) + sent[a] + 1
      id == ask[a].items[n]
  IN
  /\ tpc[a] = "append"
  /\ far' = [far EXCEPT ![s] = Receives(@, id)]
  /\ IF n = Len(ask[a].items)
     THEN /\ At(a, "append", "dispatch")
          /\ Set(s, [thread[s] EXCEPT !.appended_ids = ask[a].items])
          /\ sent' = [sent EXCEPT ![a] = 0]
     ELSE sent' = [sent EXCEPT ![a] = @ + 1] /\ UNCHANGED <<thread, tpc>>
  /\ UNCHANGED <<registry, created, waiting, ask, asked, replies, losses>>

\* response.create refers to every item of the log; beside it, what the
\* provider has when it is sent.
response_create_frame(s) ==
  [items |-> Log(s), known |-> ToSet(far[s].items), config |-> far[s].config,
   open |-> far[s].open]

Dispatch(a) ==
  LET s == ask[a].session IN
  /\ At(a, "dispatch", "read")
  /\ asked' = [asked EXCEPT ![a] = {response_create_frame(s)}]
  /\ far' = [far EXCEPT ![s].owed = IF far[s].open THEN @ \cup {a} ELSE @]
  /\ UNCHANGED <<registry, created, thread, waiting, ask, sent, replies, losses>>

Release(a) ==
  waiting' = [s \in Thread |-> RemoveFirst(waiting[s], a)]

\* Mutant: an error leaves the socket in place.
FailsInPlace(a) ==
  Release(a) /\ sent' = [sent EXCEPT ![a] = 0] /\ UNCHANGED <<thread, far>>

\* Any error drops the socket; the next ask replays its window.
Fails(a) ==
  LET s == ask[a].session IN
  /\ Release(a)
  /\ Set(s, [thread[s] EXCEPT !.live = FALSE])
  /\ far' = [far EXCEPT ![s] = NoFarEnd]
  /\ sent' = [sent EXCEPT ![a] = 0]

\* run_ask: the next terminal envelope is taken for the ask's own.  A tool
\* call or JSON text is a result, anything else an error.
RunAsk(a) ==
  LET s == ask[a].session IN
  /\ tpc[a] = "read"
  /\ \E r \in far[s].owed \ {Refusal} :
       /\ At(a, "read", "answered") /\ Release(a)
       /\ replies' = [replies EXCEPT ![a] = {r}]
       /\ far' = [far EXCEPT ![s].owed = @ \ {r}]
  /\ UNCHANGED <<registry, created, thread, ask, sent, asked, losses>>

\* A handshake or send that fails, a provider error, a malformed result, a
\* socket closed mid-ask or the wall clock of 120 seconds.
AskFails(a) ==
  LET s == ask[a].session IN
  /\ \/ At(a, "connect", "failed")
     \/ \E here \in {"append", "dispatch"} : At(a, here, "failed") /\ ~far[s].open
     \/ At(a, "read", "failed")
  /\ Fails(a)
  /\ UNCHANGED <<registry, created, ask, asked, replies, losses>>

-----------------------------------------------------------------------------
Busy == {"queued", "connect", "append", "dispatch", "read"}

\* The caller goes away: the log and the socket stay as they are.
Abandon(a) ==
  /\ a \in Hasty /\ \E here \in Busy : At(a, here, "gone")
  /\ Release(a)
  /\ UNCHANGED <<registry, created, thread, far, ask, sent, asked, replies, losses>>

Lose(s) ==
  /\ losses < Losses /\ losses' = losses + 1
  /\ far[s].open
  /\ \/ far' = [far EXCEPT ![s] = [@ EXCEPT !.open = FALSE, !.owed = {}]]
     \/ far' = [far EXCEPT ![s].aged = TRUE]
  /\ UNCHANGED <<registry, created, thread, waiting, tpc, ask, sent, asked, replies>>

ThreadNext ==
  \/ \E a \in ThreadAsk :
       \/ SessionFor(a) \/ Touch(a) \/ Begin(a) \/ Connect(a) \/ AppendItem(a)
       \/ Dispatch(a) \/ RunAsk(a) \/ AskFails(a) \/ Abandon(a)
  \/ \E s \in Thread : Lose(s)

ThreadSpec == ThreadInit /\ [][ThreadNext]_threadVars

-----------------------------------------------------------------------------
Deserted(s) == {a \in ThreadAsk : tpc[a] = "gone" /\ ask[a].session = s}

\* The log, and the items the ask at work has sent beyond it.
Sent(s) ==
  LET at == {a \in ThreadAsk : tpc[a] = "append" /\ ask[a].session = s} IN
  IF at = {} THEN Log(s)
  ELSE LET a == CHOOSE a \in at : TRUE IN SubSeq(ask[a].items, 1, Len(Log(s)) + sent[a])

InOrder(items, among) ==
  \A m, n \in DOMAIN items : m < n =>
    \E k, l \in DOMAIN among : k < l /\ among[k] = items[m] /\ among[l] = items[n]

\* What a session has sent is in the provider's conversation; in the order it
\* was sent unless an item was refused, as one is that is there already; and
\* then the conversation holds nothing else unless an ask was abandoned.
LogMatchesConversation ==
  \A s \in Thread : thread[s].live /\ far[s].open =>
    /\ ToSet(Sent(s)) \subseteq ToSet(far[s].items)
    /\ Refusal \notin far[s].owed =>
         /\ InOrder(Sent(s), far[s].items)
         /\ Deserted(s) = {} => far[s].items = Sent(s)

\* An ask refers to its own window, item by item, on a conversation that holds
\* those items, under its own instructions and schema.
AsksItsWindow ==
  \A a \in ThreadAsk : \A q \in asked[a] :
    /\ q.items = ask[a].items
    /\ q.open => ToSet(q.items) \subseteq q.known /\ q.config = ask[a].config

\* A response is read by the ask it belongs to, unless an ask was abandoned on
\* the session.
RepliesNeedDesertion ==
  \A a \in ThreadAsk : replies[a] \subseteq {a} \/ Deserted(ask[a].session) # {}

\* "Judge asks on one thread are inherently sequential": no two asks of one
\* thread are at work at once.
ThreadSequential ==
  \A a, b \in ThreadAsk :
    a # b /\ KeyOf[a] = KeyOf[b]
      => ~(tpc[a] \in Busy \ {"queued"} /\ tpc[b] \in Busy \ {"queued"})
=============================================================================
