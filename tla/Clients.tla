---------------------------- MODULE Clients ----------------------------
(***************************************************************************)
(* The two loopback clients, clients/js/rtinfer-client.mjs and             *)
(* clients/python/rtinfer_client.py: how the asks of one process find a    *)
(* daemon.  Each process caches the endpoint it found; its asks (promises  *)
(* in JavaScript, threads in Python) share that cache and interleave at    *)
(* every probe and every POST.  What answers at the three endpoints is     *)
(* external and changes while they ask.                                    *)
(***************************************************************************)
EXTENDS Naturals, Sequences

CONSTANTS
  ClientAsk,  \* asks of the process
  Garbled,    \* whether an endpoint may be held by a program that is not HTTP
  Changes     \* changes of the environment (bound)

ASSUME ClientsAssumption == Garbled \in BOOLEAN /\ Changes \in Nat

VARIABLES
  runtime,   \* "js" or "py"
  setting,   \* CSE_RTINFER_URL: unset, set, or set with CSE_RTINFER_STRICT_URL
  health,    \* what answers at an endpoint
  advert,    \* the contract endpoint.json states; "none" when there is no file
  changes,
  base,      \* the endpoint cached, or none
  resolved,  \* JavaScript: whether anything is cached; Python: whether the TTL runs
  phase, todo, target,  \* an ask: its step, candidates left to probe, endpoint chosen
  outcome    \* what the last call of an ask came to

environment == <<runtime, setting, health, advert, changes>>
clientVars == <<environment, base, resolved, phase, todo, target, outcome>>
asking == <<base, resolved, phase, todo, target, outcome>>

Endpoint == {"override", "daemon", "cockpit"}
Health == {"dead", "warming", "foreign", "garbled", "ready"}
Advert == {"none", "rtinfer/1", "rtinfer/1.1", "rtinfer/2"}

contractMajorOk(contract) == contract \in {"rtinfer/1", "rtinfer/1.1"}

candidates ==
  IF setting = "strict" THEN <<"override">>
  ELSE (IF setting = "set" THEN <<"override">> ELSE <<>>)
       \o (IF contractMajorOk(advert) THEN <<"daemon">> ELSE <<>>)
       \o <<"cockpit">>

ClientsInit ==
  /\ runtime \in {"js", "py"}
  /\ setting \in {"unset", "set", "strict"}
  /\ health \in [Endpoint -> {"dead", "ready"}] /\ advert \in {"none", "rtinfer/1"} /\ changes = 0
  /\ base = "none" /\ resolved = FALSE
  /\ phase = [a \in ClientAsk |-> "idle"] /\ todo = [a \in ClientAsk |-> <<>>]
  /\ target = [a \in ClientAsk |-> "none"] /\ outcome = [a \in ClientAsk |-> "none"]

\* Mutant: an endpoint is cached for good.
PyCachedForGood == base # "none"

\* _resolved in JavaScript, nothing found included; in Python an endpoint
\* within its TTL.
JsCached == resolved
PyCached == base # "none" /\ resolved
Cached == IF runtime = "js" THEN JsCached ELSE PyCached

\* An ask leaves discover with the endpoint e, or with none.
Chosen(a, e) ==
  /\ phase' = [phase EXCEPT ![a] = IF e = "none" THEN "idle" ELSE "post"]
  /\ target' = [target EXCEPT ![a] = e]
  /\ outcome' = [outcome EXCEPT ![a] = IF e = "none" THEN "unreachable" ELSE "none"]

\* discoverEndpoint / discover: the cached answer, unless a refresh is wanted,
\* or the list of candidates to probe.
Discover(a, refresh) ==
  /\ phase[a] = "idle"
  /\ IF Cached /\ ~refresh
     THEN Chosen(a, base) /\ UNCHANGED todo
     ELSE /\ phase' = [phase EXCEPT ![a] = "probe"]
          /\ todo' = [todo EXCEPT ![a] = candidates]
          /\ outcome' = [outcome EXCEPT ![a] = "none"] /\ UNCHANGED target
  /\ UNCHANGED <<environment, base, resolved>>

\* probe / _health_ok on one candidate; the process-wide cache is written when
\* one is ready or none is left.
Probe(a) ==
  LET ready == health[Head(todo[a])] = "ready"
      found == IF ready THEN Head(todo[a]) ELSE "none"
  IN
  /\ phase[a] = "probe" /\ ~(runtime = "py" /\ health[Head(todo[a])] = "garbled")
  /\ IF ready \/ Len(todo[a]) = 1
     THEN /\ base' = found /\ resolved' = TRUE
          /\ todo' = [todo EXCEPT ![a] = <<>>] /\ Chosen(a, found)
     ELSE /\ todo' = [todo EXCEPT ![a] = Tail(@)]
          /\ UNCHANGED <<base, resolved, phase, target, outcome>>
  /\ UNCHANGED <<environment>>

\* What a POST to e comes to: an envelope with ok, one without (HTTP 200), an
\* HTTP error, no answer, an answer that breaks off, or one that is not HTTP.
Replies(e) ==
  CASE health[e] = "ready" -> {"ok", "not_ok", "http_error", "broken"}
    [] health[e] \in {"warming", "foreign"} -> {"not_ok", "http_error", "broken"}
    [] health[e] = "garbled" -> {"not_http"}
    [] health[e] = "dead" -> {"no_answer"}

Done(a, how) ==
  /\ phase' = [phase EXCEPT ![a] = "idle"] /\ target' = [target EXCEPT ![a] = "none"]
  /\ todo' = [todo EXCEPT ![a] = <<>>] /\ outcome' = [outcome EXCEPT ![a] = how]

\* http.client's BadStatusLine and IncompleteRead are none of the exceptions
\* the Python client catches: they leave _health_ok and discover.
ProbeRaises(a) ==
  /\ runtime = "py" /\ phase[a] = "probe" /\ health[Head(todo[a])] = "garbled"
  /\ Done(a, "raised")
  /\ UNCHANGED <<environment, base, resolved>>

\* postInfer, daemonAskThread: null for an answer that is not ok or whose body
\* breaks off; DaemonUnreachable when fetch gets no answer that is HTTP.
JsPost(a) ==
  /\ runtime = "js" /\ phase[a] = "post"
  /\ \E reply \in Replies(target[a]) :
       Done(a, CASE reply = "ok" -> "served"
                 [] reply \in {"no_answer", "not_http"} -> "unreachable"
                 [] OTHER -> "failed")
  /\ UNCHANGED <<environment, base, resolved>>

\* _invalidate
Invalidate == base' = "none" /\ resolved' = FALSE

\* ask_structured, ask_responses_structured, ask_thread_structured, ask_text: an
\* HTTP error is a URLError like a connection that fails; the rest raises.
PyPost(a) ==
  /\ runtime = "py" /\ phase[a] = "post"
  /\ \E reply \in Replies(target[a]) :
       /\ Done(a, CASE reply = "ok" -> "served" [] reply \in {"broken", "not_http"} -> "raised"
                    [] OTHER -> "failed")
       /\ IF reply \in {"http_error", "no_answer"} THEN Invalidate
          ELSE UNCHANGED <<base, resolved>>
  /\ UNCHANGED <<environment>>

\* _DISCOVERY_TTL runs out.
Expire ==
  /\ runtime = "py" /\ base # "none" /\ resolved /\ resolved' = FALSE
  /\ UNCHANGED <<environment, base, phase, todo, target, outcome>>

Change ==
  /\ changes < Changes /\ changes' = changes + 1
  /\ \/ \E e \in Endpoint, h \in Health :
          /\ h = "garbled" => Garbled
          /\ health' = [health EXCEPT ![e] = h] /\ UNCHANGED advert
     \/ advert' \in Advert /\ UNCHANGED health
  /\ UNCHANGED <<runtime, setting, asking>>

ClientStep(a) ==
  \/ \E refresh \in BOOLEAN : Discover(a, refresh)
  \/ Probe(a) \/ ProbeRaises(a) \/ JsPost(a) \/ PyPost(a)
ClientsNext == (\E a \in ClientAsk : ClientStep(a)) \/ Expire \/ Change

ClientsSpec == ClientsInit /\ [][ClientsNext]_clientVars

\* Callers that keep asking, and a clock that goes on.
ClientsFairness ==
  /\ \A a \in ClientAsk : WF_clientVars(ClientStep(a))
  /\ WF_clientVars(Expire)

-----------------------------------------------------------------------------
\* Whether a probe of the candidates would find a daemon, and whether an ask is sent to one that is ready.
Usable == \E i \in DOMAIN candidates : health[candidates[i]] = "ready"
Reaches == \E a \in ClientAsk : phase[a] = "post" /\ health[target[a]] = "ready"

\* A Python process that keeps asking reaches a ready daemon again and again
\* once there is one, whatever endpoint it has cached, found dead or found
\* taken by another HTTP service, and however its threads overwrite the cache.
PythonReconnects ==
  <>[](runtime = "py" /\ Usable /\ \A e \in Endpoint : health[e] # "garbled") => []<>Reaches

\* "`ready:false` means present but warming -> we keep probing the next
\* candidate, then the caller retries briefly": the same of JavaScript.
JsReconnects == <>[](runtime = "js" /\ Usable) => []<>Reaches

\* "any unreachability, timeout, or non-OK envelope returns (None, None) so
\* callers can fall through to their own inference path".
PythonFallsBack == \A a \in ClientAsk : outcome[a] # "raised"
=============================================================================
