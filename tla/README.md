# Verification of rtinfer

TLA+ models of rtinfer, a local inference daemon that multiplexes many callers
over ChatGPT-authenticated HTTP and WebSocket connections. Every module is
translated from the Rust source under `src/crates`. TLC checks the modules on
small instances. TLAPS proves the theorems listed below for every value of the
constants.

## 1. The system

A request reaches the daemon over loopback HTTP (`server.rs`). It is answered by
one of two families of backends.

* The **Responses** backend (`responses.rs`, `adaptive.rs`, `auth.rs`) answers
  every `/v1/infer` request of a Responses
  tier. One *logical ask* is admitted by the
  adaptive controller, which gives it one slot of one transport lane. It then
  takes the current credentials from the auth cache, and is sent once, either as
  an HTTP/2 SSE stream or on a pooled WebSocket. Its terminal frame is
  classified, and the class is fed back to the controller when the slot is
  released.
* The **realtime** backends (`warm.rs`, `thread.rs`, `pool.rs` over
  `protocol.rs`) keep stateful WebSocket sessions: a pool of warm sessions with
  sticky pins, a registry of append-only threads, and a simple pool of one
  socket per ask which the daemon does not use.

Beside them run the credential sources (`auth.rs`, `cse_toold_auth.rs`), the
half-hourly self-update (`self_update.rs`, `lock.rs`, `install.rs`) and the endpoint
file by which clients discover the daemon (`endpoint_file.rs`, `clients/`).

### 1.1 Components

| Component | State it keeps | Operations | Interacts with | What makes it correct |
|---|---|---|---|---|
| Adaptive admission (`adaptive.rs`) | per-lane window, `in_flight`, slow start, success count; `aggregate_in_flight`, `waiting`, `throttle_until`; a `Notify` | `acquire`, `AdaptiveLease::finish`, drop of a lease, drop of a pending `acquire` | called by `dispatch`; `tokio::sync::Notify` | counters equal the leases and waits there are; maxima hold while windows shrink; no wakeup is lost; a throttle reaches every waiter; everybody who asks is admitted or gives up |
| Responses dispatch and WSS pool (`responses.rs`) | idle socket stack, `active_asks`, handshake gate, one ask's lease, socket, attempt count and completion guard | `dispatch`, `acquire_socket`, `connect_socket`, `run_on_socket`, `checkin_socket`, `prewarm`, HTTP `ask`, guard `finish` and drop | admission, auth cache, provider | one owner per socket; a reply answers the ask that reads it; a request is sent at most once; nothing leaks at any await; connections are bounded; every ask ends |
| Stream assembly (`responses.rs`) | deltas, completed text, terminal flag; SSE line buffer | `on_frame`, `finish`, `push` | fed by both lanes | chunk boundaries do not change the result; only a consistent completed stream is a Success |
| Codex auth file and OAuth rotation (`auth.rs`) | `auth.json` on disk, its temporary file, the provider's current refresh token | `refresh`, `patch_auth_json`, `write_auth_file_atomic` | OAuth endpoint, the `codex` CLI, other caches | a rotated refresh token is not lost; readers never see half a file |
| Codex auth cache (`auth.rs`) | cached credentials, age, generation | `load`, `force_refresh_after`, `generation` | every dispatch and session | one fetch for many callers; a rejected token is not handed out again; generation counts changes |
| Warm realtime pool (`warm.rs`) | sessions with socket, generation, age, load; sticky pins | `ask_structured`, `ask_text`, `ask_tools`, `pick`, `ensure_live` | `protocol.rs`, auth | a reply belongs to its ask; load counts the asks in flight; an ask is sent again once at most, and only for a socket that was closed; every ask returns (sections 4 and 4.1 say where this fails) |
| Threads (`thread.rs`) | registry (64 entries, two hours), append log, live socket | `ask`, `connect`, `evict_idle` | `protocol.rs`, auth | the local log is what the server's conversation holds; an evicted thread is idle |
| Realtime pool (`pool.rs`) | semaphore | `ask`, `fresh_auth` | `protocol.rs` | one socket per ask, one auth retry |
| Wire protocol (`protocol.rs`) | none beyond one session's loop | `run_session`, `run_session_with_tools`, `run_session_structured` | provider | tools stay within their budget; an exchange with a wall clock ends |
| HTTP server (`server.rs`) | shared state, counters | handlers, translation of conversations, error envelopes, health | all backends | the model sees the conversation it took part in, by whichever endpoint |
| Self-update, lock, installer | marker file, lock file, installed binary, launch agent | `check_and_update`, `try_acquire`, `run_install` | npm, launchd | the job stays loaded whoever installs at once; a release is tried, and once; service returns |
| Endpoint file | `endpoint.json` | `write`, `remove` | clients | who serves is named, or hidden by a daemon on another port alone |
| Credential process (`cse_toold_auth.rs`) | the last lease, behind a mutex kept across the child | `load`, `force_refresh` | child process, `AuthLoader` of the warm pool and the threads | leases only go forward; a retry uses another one; every load ends |
| Clients (`clients/js`, `clients/python`) | cached endpoint | `discover`, `ask` | endpoint file, server | a dead endpoint leads to a fallback |

### 1.2 What is hard here

* **Cancellation.** Handlers await the pools inline, so a client that
  disconnects drops the future of its ask at whichever await it has reached. A
  lease, a permit, a lock guard, a socket and the completion guard are given
  back by destructors alone.
* **Check, unlock, act.** The controller notifies after it has unlocked, and a
  waiter registers before it locks. In between, anything may happen.
* **Reuse.** A socket that served one ask serves the next. Its stream carries no
  request identity that the code compares.
* **Retries before a send, none after.** Eight handshakes, one forced refresh
  per ask, and the promise that the request itself is never repeated.
* **Shared credentials.** Several processes read and replace one `auth.json`,
  and each refresh invalidates the token that it used.

* **Far ends that are out of step.** A thread's log, a loader's credential, the
  endpoint file and a client's cache each mirror something that changes without
  them.

`PROJECT.json` lists each hazard at its line, with the properties that cover it
or the reason why none does.

## 2. Modules

| Module | Models | Kind |
|---|---|---|
| `AdmissionLedger` | what the controller promises: who seeks, who holds which lane, windows, the throttle | abstract specification |
| `AdaptiveConcurrency` | `adaptive.rs`, one step per critical section and per call into `Notify` | detailed specification |
| `ResponsesDispatch` | one logical ask of `responses.rs` from admission to completion, composed with `AdmissionLedger` | detailed specification |
| `ResponsesStream` | how one answer of `responses.rs` is read: HTTP status, SSE decoder, assembler, and the read loop of the WSS lane | algorithms and a state machine |
| `CodexAuth` | `auth.rs`: the file, its rotation at the provider, the cache of each process | detailed specification |
| `WarmSessionPool` | `warm.rs`: routing, one session's asks under its mutex, re-dispatch, cancellation | detailed specification |
| `ThreadSession` | `thread.rs`: the registry, and each log against the provider's conversation | detailed specification |
| `RealtimeExchange` | `pool.rs` and the loops of `protocol.rs`: permits, tool budgets, wall clocks | detailed specification |
| `Gateway` | `server.rs`: both OpenAI endpoints through a loop of tool calls | algorithms and a state machine |
| `DaemonLifecycle` | `main.rs`, `serve`, `self_update.rs`, `lock.rs`, `install.rs`, `endpoint_file.rs` beside launchd and npm | detailed specification |
| `CredentialLease` | `cse_toold_auth.rs` under the `AuthLoader` of `warm.rs`, and health | detailed specification |
| `Clients` | both loopback clients: discovery, their cache, and what an ask comes to | detailed specification |
| `*_proofs` | theorems of the module of that name; `Realtime_proofs` of `ThreadSession` and `RealtimeExchange`, `Daemon_proofs` of `DaemonLifecycle`, `CredentialLease` and `Gateway` | TLAPS proofs |
| `SequenceLemmas` | induction along numbers, what folding and flattening compute, slices, and a fair mutex as a sequence of those who wait | lemmas |
| `MCAdaptive`, `MCDispatch`, `MCResponses`, `MCAuth`, `MCWarm`, `MCRealtime`, `MCDaemon` | instances | for TLC |

`ResponsesDispatch` composes the ask with its admission, because the two
interact. Some MC modules put two or three modules beside each other that share
no state (a dispatch and the reading of one answer, a warm pool and the gateway
above it, a thread and an exchange, the daemon with its leases and its
clients; beside the threads and exchanges, the `auth.json` they authenticate
with). Interleaving them would multiply states and show nothing, so such a
specification is a disjoint union: the variable `part` is chosen in the initial
state and says which of them runs, and the others keep their initial state.

### 2.1 AdaptiveConcurrency

`lane[l]` is the `Lane` struct. Its latency averages, sample counters and peaks
are never read by admission and are left out; `Enabled` is the
`EnabledResponsesLanes` which the configured mode passes to `acquire`.
`aggregate_in_flight`, `waiting` and `throttle` are the fields of `State`. The
instant `throttle_until` is kept as the time left until it, so that time has no
upper end in the model; `timer[t]` is the same for the deadline which a
throttled task sleeps to.

`acquire` is a loop, and a task's `pc` is where it stands in it:

    idle -> start -> registered -> granted -> holding -> notify_one -> done
              ^         |                             -> notify_all
              |         v
        rechecking <- parked, sleeping -> abandoned

`Register` is `notified()` with `enable()`. `CheckThrottled`, `CheckGranted` and
`CheckFull` are the three ends of the locked section. `WakeByNotice` and
`WakeByDeadline` are the two arms of the `select!`. `Abandon` is the caller
dropping the future. `DropNotified` is the scope end of the `Notified` future, a
step of its own because a future that was notified by `notify_one` and never
polled passes its notification on when it drops. `Finish`, `FinishThrottled` and
`DropLease` are `AdaptiveLease::release` up to the unlock, and `Announce` is the
call into `Notify` that follows it.

`Notify` is external. It is modelled by its documented contract: a stored
permit, a list of waiters, `notify_one` takes one (which one is left open),
`notify_waiters` takes all and stores nothing.

An overload halves a window under the leases that are out, so `in_flight` may
exceed the current `limit` until enough of them have ended; the bound that holds
at all times is the lane's maximum (`RespectsMaxima`).

### 2.2 AdmissionLedger

The ledger has four variables and no waiter list. A seeker may be admitted to a
lane with room while no throttle runs; a lease settles in one of four ways; a
window moves only when a lease settles, and grows only if its lane was
saturated. `AdaptiveConcurrency` implements it under the mapping at the end of
that module: `seekers` are the tasks inside `acquire`, `holders` the leases by
lane, `window` the limits and `pause` the throttle.

### 2.3 ResponsesDispatch

Each step runs from one await to the next. Admission is `AdmissionLedger`
itself, so what the runs show of a dispatch holds for the controller that
implements the ledger. `idle` is `idle_sockets` (a stack: checkout pops what
checkin pushed last), `permits` is `HANDSHAKE_GATE`, `auth_writer` is the holder
of the cache's write lock, which the code keeps across a fetch. `link[s]` is the
far end of a connection: the requests the provider has read and not answered,
the terminal frames which nobody has read, and whether it is still open. A frame
carries the request that it answers, an identity which the program does not see
and the properties need.

An ask goes through

    idle -> seeking -> admitted -> checkout -> connected -> reading -> checkin -> settle -> done
                          |           |  ^                     |                    ^
                          |           v  +--- backoff <--+     +--------------------+
                          |         auth -> gate -> handshake -> refresh
                          +-> auth -> http_send -> http_reading

with `fetching` and `refreshing` for the times at which it holds the cache's
write lock. `Cancel` drops the future at every await which may be pending and
models the destructors that run: the socket closes, the permit and the lock
return, the active guard and the completion guard act. A ready await is not a
place where a future can be dropped, which `Pending` says.

Names for connections are reused. A name is in use while an actor or the idle
stack has it; `Connect` waits for a free name, and the instances have enough of
them that it never waits (section 3.2).

What is abstracted: the payload and its assembly (the class of a terminal frame
stands for what `ResponsesAssembler` returns; a reply of several frames is its
last one), tokens and their ages (`LoadCached` and `LoadStale` are the two
outcomes of the age test), the length of timeouts (a deadline may pass at any
time, in `ReadLost` and `HttpEnd`), and the HTTP/2 client (`HttpEnd` gives any
class; a stream answers the request it carries).

### 2.4 CodexAuth

A credential is a pair of numbers: the access token (with the `id_token` of the
same grant) and the refresh token, each numbered by its grant. `live` is the set
of refresh tokens that the provider accepts; a grant replaces the one it was
asked with ("rotated on every successful refresh", says the doc of
`CodexAuth.refresh_token`). `file` is `auth.json`, a credential or `Torn`, which
stands for contents that do not parse; `tmp` is the temporary copy. `handle[p]`
says what a process's open descriptor on the copy points to, because a rename by
another process moves the file under it.

Per process there are the fields of `CacheState`, with `aged` for the TTL, and
the write lock, which is held from `StartRefresh` to `Rename` or an error. A
caller goes

    idle -> load -> using -> force -> using -> done
              |               |
              +-> posting -> replied -> granted -> opened -> written -> using

`posting` and `replied` are the two halves of `send().await`, the only await of
`refresh` and so the only place where a client that goes away can stop it
(`Drop`). From `granted` on there are system calls only, between which other
processes run and a crash may come. Re-reading the file matters to the model
only by its failure: all that `patch_auth_json` keeps are fields other than the
tokens. A proactive refresh that fails falls back on what was read, a forced one
fails the ask (`RefreshFails`).

What is abstracted: a reply without an `id_token` or a refresh token does not
occur, `can_refresh` holds (a file without a refresh token is never rotated), a
login replaces the file in one step, and the readers of the file which never
refresh (the loaders of the warm pool and the threads) are covered by
`FileParses`.

### 2.5 ResponsesStream

A stream is a sequence of tokens: one for each line ending character and one for
the rest of a line, so that a chunk may end inside an event, inside a line
ending and between the two halves of an event's end. `PushChunk`, `DrainEvent`
and `Drained` are `push` and the loop of `drain_events` within the lane's loop;
`Conclude` is `finish`. `on_frame`, `finish_after_completed`,
`classify_provider_code`, `provider_error_from_value`, `find_event_separator`
and `HttpErrorClass` are the functions of those names or the match they stand
in. `run_on_socket` folds the same frames (`ReadAll`, `Read`) as the WSS lane
reads them, one text message each, and is the reference against which the
decoder is checked (`LanesAgree`). `SuccessIsTheWholeAnswer` says what a success is without either
of them. Frames are the kinds the assembler tells apart; texts are sequences of
fragments, one of which is blank.

### 2.6 WarmSessionPool

`ring`, `load`, `repin`, `sock` and `queue` are the sessions: `queue[s]` is the
session's tokio mutex with its waiters in order. `sock[s]` holds at most one
live socket, which knows the asks whose responses the provider has yet to send
(`owed`), an identity that the program does not see. An ask goes

    idle -> select -> pin -> picked -> queued -> connect -> send -> read -> answered
      |                        ^         |          ^ |       |       |
      +------------------------+         +-> send   | +-> reconnect   +-> failed
                                                    +-----------------+  (stale reused socket)

`LookUpPin`, `SelectCold` and `Pin` are apart because `pick` locks the pins, the
ring and the pins again one after another. `Return` is the end of every ask that
has an end; `Cancel` is the one that has none, and leaves both the load and the
socket behind. The doc of `load` says "in-flight asks routed to this socket"
(`LoadIsInFlight`); `OnlyAbandonedAsksLeakLoad` says what it is instead (section
4.1), and finding 2 is about the socket. The three kinds of ask differ by the
endings they accept (`run_one`, `run_text`, `run_tools`).

A socket that the provider closes (`Close`) loses what it owed. The asks that
find it closed cannot tell whether it was closed before their request, after it,
or in the middle of the answer: `StaleSocket` sends an ask again in each of the
three cases if its socket was a reused one, which is finding 3.
`RepeatsFollowClosings` says how often that can happen. `Age` stands for the two
limits of age and idle time, which `ensure_live` alone looks at; a socket on
which an ask runs is not aged, because nothing would tell until that ask has
ended.

### 2.7 ThreadSession

`thread[s]` is `ThreadState`, `far[s]` the provider's end of its socket: the
items its conversation has, the instructions pinned to it, and the envelopes it
still owes. A session evicted from `registry` lives on while asks hold it, and
the next ask of its key opens another. `Begin` decides on a reset, `Connect`
opens and pins the configuration, `AppendItem` sends one item (the log is set
once all are sent), `Dispatch` refers to the whole log, `RunAsk` and `AskFails`
end it. `AsksItsWindow` looks at what an ask referred to at the moment it was
sent (`asked`).

`Receives` is the provider at an item: one whose id its conversation has already
is refused, with an error event that somebody will read. That happens when an
ask was abandoned while it appended, since the log does not have what it sent,
and when a window names an item twice. `LogMatchesConversation` says what is
left then. Everything sent (`Sent`: the log, and what an ask has appended beyond
it) is in the conversation at all times. Its order is that of the conversation
as long as nothing was refused: an abandoned ask may have put `j` before the
next one sends `i, j`, and it is the refusal of `j` that gives this away, because
the next ask reads it as an error and drops the socket. The conversation is
exactly what was sent as long as nobody has abandoned an ask either.

### 2.8 RealtimeExchange

One variable says where an exchange stands. `Charged` is what a tool's result
adds to `total_tool_chars`: itself, or a preview and its wrapper if it is too
long, or a hint if nothing is left; the encoding of a preview may lengthen it,
which is `Growth`. `Expires` is enabled only where the code looks at a clock: a
plain exchange has none, so `TimedAsksEnd` does not speak of it, and a provider
that keeps its socket open and silent holds one of the pool's permits.

### 2.9 Gateway

The client keeps the conversation in entries that both APIs can carry, and the
model keeps what was really said (`said`). `ChatItems` and `ResponsesItems`
translate an entry as the two functions do, `ChatFails` and `ResponsesFails` say
when they refuse, `PromptOf` is the transcript used without tools, `Stream` and
`NonStream` are what a client is given of a turn. A stream leaves out the text
beside calls, and what it leaves out is not in `said` either: that the model
does not see those words again is a limit of the stream which
`ModelSeesItsConversation` does not count. For a Responses conversation `said`
grows by the items of the entry as `ResponsesItems` makes them, so there the
property is about the turns and the history, and about the translation for Chat.

A tool's output in the history is a string. Left out
are the string form of `input` and bare strings among its items, each the same
as one user message, tool outputs that are arrays or objects, which
`function_output_to_string` writes as JSON and the chat endpoint reads as parts,
and the daemon's own `/v1/infer`, which takes no history.

### 2.10 DaemonLifecycle

Two processes may run the daemon: launchd's job, on the port that it was
installed for, and one started by hand on any port (`--port`, `RTINFER_PORT`).
`at` is where each stands in `serve`, `poll` where its self-update task stands.
Releases are numbers in the order of publication; `Rank` is what `is_newer`
compares, in which a prerelease equals the release it leads to.

    down -> starting -> bound -> opened -> written -> serving -> draining -> down
               |                              |
               +-> down (port taken)          +-> down (copy taken away)

All daemons of a user write one `endpoint.json` by way of one
`endpoint.json.tmp`, whatever port they are on, so `OpenDraft`, `WriteDraft` and
`Advertise` are steps of their own: `draft` is the copy and `fd` what a writer's
descriptor points to after somebody else's rename or removal. `Overwritten` is
what a copy can hold when two have written it. `Die` is the end of a process:
the kernel frees port and lock, the endpoint file stays and names a pid that is
dead (`Buried`), and a running `npm install` goes on by itself (`orphan`).

`serve` drains on a self-update and on Ctrl-C (`Interrupt`), and its self-update
task goes on meanwhile. `SIGTERM`, which launchd and the installer send, has no
handler, although the comment at `server.rs:162` names it: `BootOut`,
`DrainPids` and `Uninstall` end a process where it stands.

An installer writes the plist for its port; a bootstrap that finds the job
loaded boots it out and tries again (`Bootstrap`), and if that fails too the job
is not loaded (`BootstrapFails`). `InstallFails` covers the returns before that
and an installer that is killed. The result of `try_acquire` is kept by the
self-update but not looked at, so an update may run beside an installer; the
model has that, and `InstallsLeaveJob` holds all the same.

`ServingIsAdvertised` is about one port: nobody on the port of a daemon that
serves, running or dead, hides it. A daemon on another port does, by overwriting
the file and by leaving its dead name in it when it ends, and then clients that
rely on the file find nobody (section 4.1). `TriedOnce` has the premise that no
two self-update tasks have run at once (`alone`), which `Advertise` keeps track
of: the marker is read and written without a lock.

### 2.11 CredentialLease

Leases are numbers in the order of issue. Asks queue on the mutex of their
`AuthLoader`, then on that of the source, which is kept while the child runs;
health goes to the source itself. `Drop` kills the child and loses what it has
minted. `rejected` is what a forced load names: the loader's credential, which
need not be the one that was refused.

### 2.12 Clients

A behaviour is that of one process of one of the two clients (`runtime`): its
asks share the cached endpoint and interleave at every probe and POST. What
answers at the three endpoints is external and changes. `Replies` are the ways a
POST ends that the clients tell apart, and `broken` stands for an answer that is
breaks off. An answer that is not HTTP (`not_http`) makes `fetch` throw, which
the JavaScript client reports as `DaemonUnreachable`, and the Python client
raise.

## 3. Runs

| Run | Question | Expected |
|---|---|---|
| `adaptive_dual` | do counters, maxima and throttles stay right for callers that ask again and again over both lanes, and is each step of the controller a step of the ledger? | pass |
| `adaptive_wss` | in the default mode with asks without end, is no wakeup lost, is room never left unused for ever, and is everybody served once the newcomers stop? | pass |
| `dispatch_dual` | is everything given back at every end of an ask over both lanes, is no request sent twice, who owns which socket and whose reply does an ask return; and do both lanes read a stream alike, wherever it is cut? | pass |
| `dispatch_live` | does every ask end, and does the bound on connections hold beside the prewarm? | pass |
| `auth_rotation` | with two processes, a provider that rotates and every fault, does the file always parse, does a cache ever go back, is a newer grant ever rotated? | pass |
| `warm` | does whichever way an ask returns take its load off, can a response reach another ask without a cancellation, are asks sent again once at most and only for sockets that were closed, does every ask return; and is the model shown its own conversation through a tool loop? | pass |
| `realtime` | does the provider hold what a thread has sent, in that order and nothing else, refusals and abandoned asks apart; does an ask refer to its own window and read its own reply; do tools stay within budget and timed exchanges end; and with two processes and a login on one `auth.json`, and no fault, is there always a live refresh token in the file or about to be? | pass |
| `daemon` | is a daemon that serves hidden by nobody on its own port, does it come back, is each release tried once; do leases go forward and loads end; does the Python client find a daemon again? | pass |
| `auth_lost` | with a provider that rotates, can a client that goes away lose the token? | violation, finding 1 |
| `warm_crosstalk` | does a warm ask only ever return its own response? | violation, finding 2 |
| `warm_redispatch` | has an ask that is dispatched again never been begun by the provider? | violation, finding 3 |
| `client_raises` | does the Python client always return? | violation, finding 4 |

Every property of a passing run has a mutant: a plausible bug in one definition
(named `Mutant:` in the module, and listed in `PROJECT.json`) under which TLC
finds that property violated. Type invariants are part of the runs for the
controller only; for the pools they are among the lemmas of the proofs.

`EveryAskSettles` is a conditional promise: if from some time on nobody asks
anew, everybody who has asked is admitted or has given up. Without the premise
it does not hold, since newcomers may overtake a waiter for ever.

### 3.1 Bounds of the controller

Three tasks are the least number with which one task ends a lease while another
is notified and a third waits, which is what lost wakeups and overtaking need
(two of them wait for one slot in `adaptive_wss`; with both lanes a third slot
would be needed). Windows start at one and reach two, so that slow start, halving, additive growth with its success
counter, and the maximum all happen. The aggregate maximum is below the sum of
the lanes' maxima, so both ceilings bind. Throttles last one or two units, with
`Retry-After` values below and above the clamp, so that a throttle is extended
while tasks sleep to the old deadline. Nothing else is bounded: `Recurring` lets
every task ask again for ever, and the state space is finite because windows and
throttles are.

### 3.2 Bounds of the dispatch

Each task is one logical ask, which the program never repeats; three of them
give two asks in flight beside a third that inherits their sockets. Three socket
names are one more than the largest number of connections under
`ConnectionsBounded`, so the mutant that breaks it can be seen. `Attempts` is
two where the code has eight and `GatePermits` one where it has eight: enough
for a refusal, a refresh, a second handshake and an end, and for an ask that
waits at the gate. `Prewarm` is at most one. Deadlock is not checked in these
runs: after all asks have ended nothing more happens.

### 3.3 Bounds of the auth model

`auth_rotation` has two callers in one process, so that they meet at its lock,
and a third in another, so that the two processes meet at the file and at the
provider. `MaxGrants` is two: one process can rotate what the other has just
rotated. The instance in `realtime` has one caller in each process and four
credentials, one of them a login: each caller may refresh by schedule and again
after a rejection.
`RotationSpec` is `Spec` without `Login`, which `MaxLogins` of zero excludes.
An ask is rejected at most once, as in `acquire_socket`. Time is not counted:
the TTL and the expiry of any `id_token` may pass at any moment. No liveness is
claimed of this model; that callers leave the cache is part of `EveryAskEnds`.

`FileParses` holds in `auth_rotation` although nothing locks the file: while
tokens rotate, a second process has to read what the first has renamed before
the provider grants it anything, so the token endpoint orders the writers. A
login gives a second token set and ends that order (section 4.1).

### 3.4 Bounds of the stream

Three events of fifteen kinds are enough for a text in two parts or a text and
its final form before a terminal frame, and for a terminal frame with something
after it. Chunks of up to five tokens cover every place of a cut, since the
decoder's state is its buffer; the buffer holds ten tokens, so that it
overflows. Both line endings are tried.

### 3.5 Bounds of the realtime models

`warm` has three asks, one of each kind, two of one prompt family, two sockets
and an overflow limit of one: asks share a session, wait for its mutex, follow a
pin and leave it. One caller may go away, and the provider may close two
sockets, so that a re-dispatched ask can find its second socket dead as well.
Sockets age at any time without a bound. The gateway
has three turns of up to two calls, which makes two requests that carry earlier
turns.

`realtime` has three asks, two of one thread, and room for one thread, so that a
session is evicted under an ask that uses it. `MaxThreads` is one where the code
has 64, and the text budget is two items: windows extend the log, diverge from
it, reverse it, name an item twice, change the instructions and are too long.
Three exchanges, one of each mode,
share two permits; results of one and of nine characters against a budget of
three are whole, cut, and beyond it.

### 3.6 Bounds of the daemon

There are three releases, the last a prerelease, two installers for one port, a
daemon started by hand on this port or another, one uninstall and two troubles
(a crash, an interrupt, or a failure of `npm`, `launchctl` or a file). A
behaviour has at most three of these together (`Together`), in any order: an
update, an install and a crash meet, two failures in a row make the second back
off longer than the first (`MaxBackoff` is two where the code has 8), and a
marker written for one release stands in the way of the next. The installers are
alike, so the first to begin is called `i1` (`InOrder`); a symmetry set would not
be sound for the liveness properties.

Three leases are one
more than the two that a first connection and a retry need. Two asks of a client
and one change of its surroundings are the least with which one of them
overwrites what the other has found.

### 3.7 Fairness

`FairSpec` of the controller assumes that the tokio runtime polls a task it has
woken, that every lease ends (both lanes put a deadline of 120 s on an ask, and
a dropped future drops its lease), and that time passes. It does not assume that
anybody asks or gives up. `FairSpec` of the dispatch assumes weak fairness of
each ask as a whole: at every await something becomes ready, because the socket
and the stream have deadlines, a handshake has one of 15 s, a backoff is a
bounded sleep, and gate and lock are queues served in order. It assumes nothing
of the provider, who may stay silent for ever, and nothing of the choice between
a reply and a deadline. Weak fairness of a whole ask is enough for the gate and
the lock only because each ask is finite, so that nobody can overtake for ever.

`WarmFairness` assumes that the tasks which hold or await a session's mutex are
run, that handshakes and reads are under deadlines (15 s and 120 s) and that the
mutex is fair, as tokio documents. The sends of `response.create` and of the
priming update have no deadline in the code (`warm.rs:477`): that the socket
takes a frame is assumed of the network, so `EveryWarmAskReturns` does not cover
a peer that stops reading until the buffers are full. `ExchangeFairness` covers only what happens
of itself, not what the provider sends. `LifecycleFairness` assumes that launchd
keeps a loaded job alive, that processes run and `npm` ends, and that an install
goes on once it has begun; nobody is assumed to publish, install or uninstall,
and troubles are bounded, so that failures do not go on for
ever. `LeaseFairness` assumes that the child and the handshake end, both under
timeouts. `ClientsFairness` assumes callers that keep asking and a clock; it
does not say whether they ask for a refresh, so the JavaScript client's
permanent cache shows.

## 4. Findings

1. **`auth_lost`** `refresh` spends the refresh token in its `send().await` and
   writes the rotated one afterwards, inside the future of the ask that found
   the credential stale. A client that disconnects at that await drops the only
   copy. The doc of `can_refresh` says that the write-back path is there "so the
   rotated `refresh_token` is never lost". A crash, a lost reply or a failed
   write does the same.
2. **`warm_crosstalk`** A warm ask that is dropped after its `response.create`
   leaves its socket in the session with a response unread. The next ask of that
   session compares no response id and takes the first terminal envelope for its
   own, and every later one on that socket is one behind. The module doc says
   that one response per socket at a time "keeps the read loop trivially
   correct". `CrossTalkNeedsCancel` shows that nothing else has this effect:
   errors, timeouts and dead sockets all drop the socket.
3. **`warm_redispatch`** A reused socket that breaks in the middle of an answer
   is taken for a stale one, and the ask is dispatched again. The comments say
   that such an ask "never started server-side" and that it is "safe to
   re-dispatch". The trace has read a delta of the first answer when the socket
   closes, so the model has begun that ask and begins it a second time.
   `RepeatsFollowClosings` bounds the harm: nothing is sent a third time, and
   each closed socket repeats one ask at most.
4. **`client_raises`** `http.client`'s `BadStatusLine` and `IncompleteRead` are
   none of the exceptions which the Python client catches. A port that something
   else has taken, or an answer that breaks off, raises out of `discover` and
   the asks, where the module's doc promises `(None, None)`.

### 4.1 Other departures

These are stated as properties or follow from the models, and no run counts on
them. The configurations `adaptive_idle_capacity.cfg`, `dispatch_events.cfg`,
`auth_torn.cfg` and `warm_load.cfg` show the first four by hand.

* `NoIdleCapacity` (`adaptive.rs:472`): a success that finds its lane saturated
  frees a slot and widens the window, which makes room for two, and calls
  `notify_one` once. A second waiter sleeps beside free room until another lease
  ends. Nobody waits for ever while asks go on.
* `OneEventPerRequest` (`responses.rs:2242`): an ask dropped while it waits to
  read the auth generation has a lease and no completion guard yet, so that no
  event is emitted for it. `SentAsksAreReported` shows that nothing else is lost.
* `FileParses` with a login (`auth.rs:626`): all processes share one name for
  the temporary file and open it with truncation. If one truncates it while
  another is about to rename it, `auth.json` is empty until the first has
  written. `RefreshTokenKept`, in `realtime`, shows that the tokens survive it.
* `LoadIsInFlight` (`warm.rs:822`): load is taken off after the await of the ask,
  so an ask that is dropped there leaves it behind for good, where the doc
  (`warm.rs:135`) says "in-flight asks". A session with one abandoned ask never
  looks idle again and, with the default overflow of one, is never again used by
  the families pinned to it. `OnlyAbandonedAsksLeakLoad` shows that nothing else has this
  effect.
* `SomeServiceIsAdvertised` (`endpoint_file.rs:14`, `main.rs:33`): a daemon on
  another port writes the same `endpoint.json`, and when it ends the file names
  nobody who serves although another daemon does. The doc calls the file "the
  authoritative advertisement". The two also share `endpoint.json.tmp`, so
  that a rename may find nothing and end the second daemon, or publish the bytes
  of both (`AdvertiseFails`, `Overwritten`).
* `TriedOnce` without its premise (`self_update.rs:143`): two daemons that check
  at once may both find no marker and run `npm install` for one release.
* `SIGTERM` is not drained, where the comment at `server.rs:162` says it is
  (section 2.10).
* `NoPrereleaseAdopted` (`self_update.rs:132`): `npm install -g @latest`
  installs what is latest by then, which may be a prerelease published after the
  comparison.
* `OnlyFailedLeasesRejected` (`auth.rs:260`, `warm.rs:733`): a forced load names
  the loader's present credential as the rejected one, which another ask may
  have put there since and which no handshake has failed with.
* `ThreadSequential` (`thread.rs:123`): after an eviction two asks of one thread
  may be at work on two sessions. `AsksItsWindow` shows that neither is misled,
  `ResidentThreadsSequential` that only an eviction does it.
* `JsReconnects` (`rtinfer-client.mjs:120`): a JavaScript client that has found
  nothing keeps that answer until it is asked to refresh.
* The doc of `ThreadRegistry` (`thread.rs:413`) speaks of a periodic sweep;
  there is none, and idle threads leave when a new one needs their place.
* Without tools, the Responses endpoint refuses a history with function calls,
  where the chat endpoint drops the calls (`PromptFails`).

## 5. Proofs

The theorems hold for every value of the constants that satisfies the named
assumption of the module they are about. The assumptions say that sets of asks,
tasks, processes, callers and installers are finite, that bounds are numbers
(positive where the code has positive constants), and what configuration checks
guarantee:

* `ConfigAssumption` is `validate_config` of the controller;
  `DispatchAssumption` is the part of it that the dispatch sees, with a gate and
  a number of attempts of at least one, and `None` no socket.
* `ThreadAssumption` adds that a window is a sequence of items, as a `Vec` is.
* `AuthAssumption` adds that the marks for no value, a torn file and no file are
  no callers, tokens or credentials.
* `StreamAssumption` says that an event of the provider has at least one line
  and that a line ending is no line; bounds are numbers.
* `WarmAssumption`, `ExchangeAssumption`, `GatewayAssumption`, `LeaseAssumption` and
  `LifecycleAssumption` only give the constants their types.

| Module | Theorem | Statement |
|---|---|---|
| `AdaptiveConcurrency_proofs` | `TypeCorrect` | `Spec => []TypeOK`; in particular a window stays between one and its lane's maximum |
| | `CountersConserved` | `Spec => []Conservation` |
| | `MaximaRespected` | `Spec => []RespectsMaxima` |
| | `ThrottleReaches` | `Spec => []ThrottleReachesWaiters` |
| | `WakeupsNotLost` | `Spec => []NoLostWakeup` |
| | `ControllerImplementsLedger` | `Spec => LedgerSpec` |
| `ResponsesDispatch_proofs` | `NeverSentTwice` | `Spec => []SentAtMostOnce` |
| | `EverythingReturned` | `Spec => []NothingLeaks` |
| | `OneOwnerPerSocket` | `Spec => []SocketsExclusive` |
| | `RepliesReachTheirAsk` | `Spec => []AnswersOwnAsk` |
| | `PoolStaysBounded` | `Spec => []ConnectionsBounded` |
| | `SentAsksAreReported` | `Spec => []AllReported` |
| `ResponsesStream_proofs` | `LanesAlwaysAgree` | `StreamSpec => []LanesAgree` |
| | `SuccessIsAlwaysTheWholeAnswer` | `StreamSpec => []SuccessIsTheWholeAnswer` |
| `CodexAuth_proofs` | `AuthTypeCorrect` | `Spec => []TypeOK` |
| | `FileAlwaysParses` | `MaxLogins = 0 => (Spec => []FileParses)` |
| | `CacheGoesForward` | `MaxLogins = 0 => (Spec => ForwardOnly)` |
| | `RotatesRejectedOnly` | `MaxLogins = 0 => (Spec => RotatesOnlyRejected)` |
| | `TokensKept` | `Faults = {} => (Spec => []RefreshTokenKept)` |
| `WarmSessionPool_proofs` | `LoadCounts` | `WarmSpec => []OnlyAbandonedAsksLeakLoad` |
| | `RepeatsAreFew` | `WarmSpec => []RepeatsFollowClosings` |
| | `OnlyCancelCrosses` | `WarmSpec => []CrossTalkNeedsCancel` |
| | `PatientAsksHearTheirOwn` | `Impatient = {} => (WarmSpec => []WarmAnswersOwnAsk)` |
| | `PatientLoad` | `Impatient = {} => (WarmSpec => []LoadIsInFlight)` |
| `Realtime_proofs` | `ToolBudgetKept` | `ExchangeSpec => []ToolBudget` |
| | `PermitsKept` | `ExchangeSpec => []PermitsConserved` |
| | `LogIsTheConversation` | `ThreadSpec => []LogMatchesConversation` |
| | `AsksKeepToTheirWindow` | `ThreadSpec => []AsksItsWindow` |
| | `OnlyDesertionCrosses` | `ThreadSpec => []RepliesNeedDesertion` |
| | `ResidentThreadsSequential` | `Cardinality(Threads) <= MaxThreads => (ThreadSpec => []ThreadSequential)` |
| | `StayingAsksHearTheirOwn` | `Hasty = {} => (ThreadSpec => [](\A a \in ThreadAsk : replies[a] \subseteq {a}))` |
| `Daemon_proofs` | `EachTriedOnce` | `LifecycleSpec => []TriedOnce` |
| | `ServiceAdvertised` | `LifecycleSpec => []ServingIsAdvertised` |
| | `JobIsLeft` | `LifecycleSpec => []InstallsLeaveJob` |
| | `LeasesGoForward` | `LeaseSpec => LeasesForward` |
| | `RetryIsAnotherLease` | `LeaseSpec => RetryUsesAnotherLease` |
| | `ModelAlwaysSeesItsConversation` | `GatewaySpec => []ModelSeesItsConversation` |
| | `EndpointsAlwaysAgree` | `GatewaySpec => []EndpointsAgree` |

### 5.1 The controller

The argument goes in layers. `Typed` is `TypeOK` with
`LeaseShape` (a task names a lane exactly while it is in `granted` or
`holding`); without it `Release` could not be shown to act on a lane. `Typed` is
inductive by itself. `Conservation` is inductive relative to `Typed`: each
action changes at most one task's membership in `Holders` or `Waiters`, and one
counter with it (`GrantCounts`, `ReleaseCounts`, `WaitCounts`, `QuietStep`).
From conservation, no `saturating_sub` ever saturates, and `RespectsMaxima`
follows by looking at `CheckGranted` alone: the window at the time of the grant
is below the maximum, even if it was halved before. `ThrottleReachesWaiters` and
`NoLostWakeup` are inductive relative to these. The key lemma of the last is
`FullMeansBusy`: a task parks only when a lease is out, because each window is
at least one and so is the aggregate ceiling. `NoLostWakeup` itself is
strengthened with the stored permit (`Remembered`). The refinement takes each
action to a step of the ledger or to a stutter, with `FinishLaneEffect` for the
four ways in which a lease settles.

### 5.2 The dispatch

Again layers, each inductive relative to those before it.

* `Placed` ties where an ask stands to the lane of its lease and to how often it
  was sent. `SentAtMostOnce` alone is not inductive: that a request is not sent
  again after a refresh rests on which of the two refreshes it is. On the WSS
  lane it follows a refused handshake, before any send. On the HTTP lane it
  follows the refused request, and an ask that comes from there ends.
* `Counted` says that permits, the auth lock and the active counter are what the
  places of the asks add up to; with `Placed` it is `NothingLeaks`.
* `Owned` adds to `SocketsExclusive` that an ask has a socket exactly at the
  awaits where it needs one, and that the idle stack stays within its size.
* `Clean` gives `AnswersOwnAsk`: the far end of a socket is quiet (no request,
  no unread frame), or an ask reads that socket and either its own request or
  the answer to it is there and nothing else. It is inductive because only a
  terminal frame leads to `checkin_socket`: an ask that ends in any other way
  drops its socket with what is still to come on it.
* `Windowed` says that a lane has no more leases than its maximum. `Bounded`
  counts, with the idle stack, everybody who owns a socket or is on its way to
  connect one (`Connectors`), since an ask that has found the stack empty can no
  longer be stopped. It becomes one only under a lease and with an empty stack,
  so its lane's maximum bounds them all; a turn of the prewarm adds one more
  (`rounds`). `ConnectionsBounded` follows, while for the sockets that are open
  alone the step of a handshake could not be shown to keep it.

* `AllReported` states how much of "each logical request has one event" is true
  (section 4.1): no ask has two, and one without has neither been sent nor come
  to a result. It rests on `Placed`: an ask that is dropped before its guard
  exists is one that was never sent.

### 5.3 Credentials

Of `auth.json`, three theorems have the hypothesis that nobody logs in while the
daemon runs (`MaxLogins = 0`) and none about faults: clients may go away,
processes may crash, replies may be lost, writes may fail. The provider then
goes through one chain of grants, and `OneGrant` says where everybody is on it:
exactly the last token is accepted, the file has it or the one before it, and at
most one caller anywhere holds a grant that is not in the file. So the token
endpoint orders the writers although they share no lock. `OwnCopy` follows: the
only open handle is that of this one caller, and it points to the copy, so that
`FileParses` holds. `Followed` puts cache entries behind the file and behind
what a refresher has read, which makes `ForwardOnly` inductive, and `Reasoned`
remembers why a caller refreshes, for `RotatesOnlyRejected`. With a login there
are two chains and all three fail (section 4.1 shows the first by hand), so the
hypothesis cannot be dropped.

`TokensKept` has the other hypothesis: any number of logins, no fault. `Kept`
accounts for every unwritten grant: it is the only copy of its token
(`Unspent`), a file or copy that does not parse has somebody who is about to
write it (`Attended`), and either the file is usable or somebody carries a grant
that can still reach it (`Survives`). Finding 1 shows that one fault is enough
to break it.

For the leases of a credential process, `LeaseInv` has what each store knows
of the next: a loader is never ahead of the source (`StoresBehind`), whoever
runs the child holds the mutex and brings a lease no older than the cached one
(`AtTheMutex`, `ChildrenGoForward`), and an ask that retries names a credential
which its loader has had (`TokensBehind`). Without the last, the source could be
asked to reject a lease that it does not have yet, and the retry would get the
one that was refused.

### 5.4 Sessions

A session's mutex is a queue in `WarmSessionPool`, `ThreadSession` and
`CredentialLease`. `SequenceLemmas` says once what their proofs need: who joins
goes to the end, who leaves changes nobody else's place but may make the next
one the head, and the head is one and only one.

**The warm pool.** `Accounted` says that `load` is the function of cardinalities
that `OnlyAbandonedAsksLeakLoad` names, and that no action confuses the asks;
each action moves at most one ask into or out of the asks that count on its
session, and the load with it. `Dispatched` ties the number of sends to where an
ask stands: an ask that has not connected a socket itself has been sent at most
once, and not at all before it reads, which is what makes a third send
impossible. For `RepeatsAreFew`, `Repeats` counts what closings have paid for:
the asks that are sent twice or about to be (`Again`) and the sessions whose
socket is closed without anybody having noticed (`Dead`). A re-dispatch turns
one of the latter into one of the former, and only `Close` makes a new one.
`OnlyCancelCrosses` needs to know where asks are routed (`Sited`), that whoever
works holds the mutex (`InLine`), that a session has one socket and who sends or
reads has it (`Socketed`), and what a socket owes (`Unread`): no more responses
than there are asks to have left or to read them, and its reader's alone until
somebody has left.

**The threads.** `ThreadInv` has `ThreadTyped`, the two of the warm pool in
their form for threads (`Sited`, `InLine`), and then the log step by step.
`Windowed` ties it to the window of the ask at work: empty before the socket is
connected, a prefix of the window while the rest is appended, the window from
then on. `Held` ties it to the provider's conversation, in the terms of
`LogMatchesConversation` and for the items sent so far; the two together are
`AsksItsWindow`. `Owing` is who is owed a response. An earlier form of
`LogMatchesConversation` claimed the order of what was sent without regard to
refusals. Its proof failed at `AppendItem`, and TLC refuted it as soon as a
window came back reversed after an abandoned ask; section 2.7 says what holds.

**What fails, and when it does not.** Three departures of section 4 end as
theorems with the hypothesis that excludes them. If no caller goes away, warm
asks and thread asks hear their own answers (`PatientAsksHearTheirOwn`,
`StayingAsksHearTheirOwn`), so that abandonment is the one cause of finding 2,
and loads are the asks in flight (`PatientLoad`).
If the threads in use fit into the registry, the asks of one thread are at work
one after the other (`ResidentThreadsSequential`): `Resident` says that the
registry names each thread once and has the session of every ask; that a new
thread finds room without an eviction is a matter of counting the entries
(`RoomForOne`), and that a renewed entry is the only one of its thread, of
following the permutation (`RenewedApart`).

**The exchange.** `ToolBudget` is not inductive, because the bound on characters
is a bound on the whole ask. `Budgeted` bounds them by the number of calls made
so far (`Allowed`): a result is either whole and within the budget, or it
exhausts it, and every later one is a hint. `Permitted` says that permits and
holders add up.

### 5.5 The daemon

`Endings`, `Launches`, `Serves` and `Polling` sort the steps of the lifecycle by
what they may touch, and the lemma `Steps` says that there are no others; each
invariant below is shown for the sorts. `Progress` says where a self-update task
can stand and that the marker names a release that the registry has called
latest. `Solo` is what holds while no two tasks have run at once: nothing later
than the marker has been tried, and whoever is about to try a release is past
the marker. Both are needed, because a crash between the marker and `npm` must
leave something that the respawned daemon can see. `EachTriedOnce` follows.

`Claims` is the invariant of `ServiceAdvertised`. It adds that a port has one
process, and says of the temporary copy what the theorem says of the file: from
the moment a process has opened the copy, neither the copy nor, while it serves,
the file has its port under another name. Without the part about the copy, the
rename of a daemon on another port could publish what a dead one on this port
had written. `Goes` is the shape of a step of one process that keeps it.

`InstallsLeaveJob` is inductive as it stands, given the
types of what it speaks of (`JobLeft`): the last install to end has just
bootstrapped the job, and whoever has booted it out meanwhile has not ended.

### 5.6 Streams and conversations

What the reader of an answer computes, and what an endpoint makes of a history,
are functions of sequences of any length, so these proofs go by induction over
data. A library induction theorem takes the property as a parameter, which the
provers cannot instantiate. `SequenceLemmas` therefore states induction for a
set of numbers (`UpTo`: a set that has 0 and, below `N`, with each number the
next, has all numbers up to `N`), and each proof forms the set of the numbers
for which its property holds. The folds of the community modules are solved with
it once: `FoldExists` shows that a recursive choice has a value,
`FlattenNone` and `FlattenMore` give flattening its two equations, and
`FlattenCat` says that it goes through concatenation.

**The stream.** `StreamIInv` says that the decoder has read some number `k` of
whole events: its buffer holds what follows them among the tokens that arrived
(`Decoded`), and the assembler with the state of the reading is what `k` frames
make of it (`After(k)`). While it waits for more there is no event separator in
the buffer. The step that matters is that the first separator in the buffer ends
exactly the event `k + 1`: a line is never a line ending, no event has an empty
line inside, and the separator is complete only when the last token of the event
has arrived, wherever the chunks were cut. When the stream ends in mid-event,
the rest is dropped and the verdict is that of the events which were delivered
whole (`Ended`), the value that the WSS lane reaches: `LanesAlwaysAgree`. For
`SuccessIsAlwaysTheWholeAnswer` an induction along the frames relates the
assembler's two buffers to the frames read so far.

**The gateway.** `GatewayIInv` says that what was said is what the model hears
of the client's history (`Heard`), entry by entry; system prompts are not part
of it, and a Responses client has none in its history. Each action appends on
both sides: a turn that was streamed appears in the history as it was shown,
which is why `said` leaves out the words that a stream left out beside calls.
With tools, an endpoint that accepts the history passes on `Heard` of it
(`ItemsAre`); without, it passes on its `Transcript` (`PromptIs`), which needs
that a transcript goes through concatenation (`TranscriptCat`). Both hold for
either endpoint, so `EndpointsAlwaysAgree` follows for the part of a history
that has no system prompt.

### 5.7 What is only model-checked

Liveness, which TLAPS does not check: `EveryAskSettles`, `LedgerFairSpec`,
`EveryAskEnds`, `EveryWarmAskReturns`, `TimedAsksEnd`, `ServiceReturns`,
`ReleasesTried`, `EveryLoadEnds` and `PythonReconnects`. Of `LedgerFairSpec`,
the part without fairness is `ControllerImplementsLedger`.

Every other property of a passing run is stated by a theorem.

## 6. Not modelled, and the plan

What the plan has left: abstract specifications of the sessions and of the
credential stores with the refinements to them, and for the other departures of
section 4.1 the exact hypothesis under which each does not happen.

Not modelled, and why. `lib.rs` holds types and constants. Argument parsing but
for the port, the contents of the plist but for the port, header and frame building, the strict-schema rewrite of
requests, the counters of health, metrics and logs are wording or I/O on which
no property above depends. The builder's configuration rules are checks of
constants, which the assumptions state. Latency averages and sample counters are
never read by admission. The readers of `auth.json` that never refresh are
covered by `FileParses`. Packaging scripts start processes and copy files. The
process identifiers that the installer signals are not modelled, so a reused one
is not seen. Nor is a write of `self-update.json` or of its directory that fails,
which `write_last_attempt` ignores: `TriedOnce` is about a marker that is written.
