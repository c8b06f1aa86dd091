--------------------------- MODULE RealtimeExchange ---------------------------
(***************************************************************************)
(* crates/rtinfer-core/src/pool.rs and protocol.rs: a RealtimePool runs    *)
(* every ask as one exchange on a socket of its own, with at most          *)
(* `capacity` of them at once.  An exchange is plain (run_session), drives *)
(* a tool loop (run_session_with_tools) or wants one forced tool call      *)
(* (run_session_structured).                                               *)
(*                                                                         *)
(* Sending the session update, the context, the question and the first     *)
(* response.create is part of opening the exchange.                        *)
(***************************************************************************)
EXTENDS Naturals, FiniteSets

CONSTANTS
  ExAsk,         \* asks, each made once
  ModeOf,
  Capacity,      \* permits of the pool
  MaxToolCalls,  \* RealtimeToolOptions.max_tool_calls
  MaxToolChars,  \* RealtimeToolOptions.max_total_tool_result_chars
  Outputs,       \* lengths of tool results
  Hint,          \* length of the result that stands for one beyond the budget
  Wrapper,       \* what the object around a truncated result adds to it
  Growth,        \* how much longer a preview may be once encoded
  Batches        \* how many calls a response may ask for

Mode == {"plain", "tools", "structured"}

ASSUME ExchangeAssumption ==
  /\ IsFiniteSet(ExAsk) /\ ModeOf \in [ExAsk -> Mode]
  /\ Capacity \in Nat \ {0} /\ MaxToolCalls \in Nat /\ MaxToolChars \in Nat
  /\ Outputs \subseteq Nat /\ Hint \in Nat /\ Wrapper \in Nat
  /\ Growth \in Nat \ {0} /\ Batches \subseteq Nat

VARIABLES
  free,     \* permits of the pool's semaphore
  epc,      \* the await an ask has reached
  text,     \* whether text deltas have arrived
  batch,    \* calls of the current response still to execute
  used,     \* tool_calls
  chars,    \* total_tool_chars
  retried   \* whether the handshake has been refused and retried

exchangeVars == <<free, epc, text, batch, used, chars, retried>>

ExchangeInit ==
  /\ free = Capacity
  /\ epc = [a \in ExAsk |-> "idle"] /\ text = [a \in ExAsk |-> FALSE]
  /\ batch = [a \in ExAsk |-> 0] /\ used = [a \in ExAsk |-> 0]
  /\ chars = [a \in ExAsk |-> 0] /\ retried = [a \in ExAsk |-> FALSE]

Moves(a, here, next) == epc[a] = here /\ epc' = [epc EXCEPT ![a] = next]

\* The permit is dropped with the future, however it ends.
Ends(a, here, how) == Moves(a, here, how) /\ free' = free + 1

-----------------------------------------------------------------------------
Submit(a) ==
  /\ Moves(a, "idle", "permit")
  /\ UNCHANGED <<free, text, batch, used, chars, retried>>

Acquire(a) ==
  /\ free > 0 /\ free' = free - 1 /\ Moves(a, "permit", "auth")
  /\ UNCHANGED <<text, batch, used, chars, retried>>

FreshAuth(a) ==
  /\ \/ Moves(a, "auth", "open") /\ UNCHANGED free
     \/ Ends(a, "auth", "failed")
  /\ UNCHANGED <<text, batch, used, chars, retried>>

\* The handshake, and the frames sent after it: each may be the one that fails.
Opened(a) ==
  /\ \/ Moves(a, "open", "read") /\ UNCHANGED free
     \/ Ends(a, "open", "failed")
  /\ UNCHANGED retried

\* Only a structured ask answers a rejected credential, by one retry.
RetryRejected(a) ==
  /\ ModeOf[a] = "structured" /\ ~retried[a]
  /\ Moves(a, "open", "auth") /\ retried' = [retried EXCEPT ![a] = TRUE]
  /\ UNCHANGED free

OpenSession(a) ==
  /\ Opened(a) \/ RetryRejected(a)
  /\ UNCHANGED <<text, batch, used, chars>>

Delta(a) ==
  /\ Moves(a, "read", "read") /\ ~text[a] /\ text' = [text EXCEPT ![a] = TRUE]
  /\ UNCHANGED <<free, batch, used, chars, retried>>

\* response.done without a call: text, which a structured ask has to parse.
DoneText(a) ==
  /\ \/ Ends(a, "read", "complete")
     \/ ModeOf[a] = "structured" /\ Ends(a, "read", "failed")
  /\ UNCHANGED <<text, batch, used, chars, retried>>

\* Mutant: every round has the whole budget of calls.
DoneCallsAnew(a) ==
  \E n \in Batches :
    /\ 0 < n /\ n <= MaxToolCalls /\ ModeOf[a] = "tools" /\ Moves(a, "read", "tool")
    /\ batch' = [batch EXCEPT ![a] = n]
    /\ UNCHANGED <<free, text, used, chars, retried>>

\* response.done with calls: ignored, the result, or another round of tools.
\* Arguments that do not parse are an error.
DoneCalls(a) ==
  \E n \in Batches :
    /\ n > 0
    /\ CASE ModeOf[a] = "plain" -> Ends(a, "read", "complete") /\ UNCHANGED batch
         [] ModeOf[a] = "structured" ->
              (\E how \in {"complete", "failed"} : Ends(a, "read", how)) /\ UNCHANGED batch
         [] ModeOf[a] = "tools" ->
              \/ Ends(a, "read", "failed") /\ UNCHANGED batch
              \/ /\ used[a] + n <= MaxToolCalls
                 /\ Moves(a, "read", "tool") /\ UNCHANGED free
                 /\ batch' = [batch EXCEPT ![a] = n]
    /\ UNCHANGED <<text, used, chars, retried>>

\* What the result of a tool adds to total_tool_chars.  A result longer than
\* what is left of the budget is cut to that many characters and wrapped.
Charged(total, n) ==
  LET left == IF total < MaxToolChars THEN MaxToolChars - total ELSE 0 IN
  IF n <= left THEN {n}
  ELSE IF left = 0 THEN {Hint}
  ELSE {left + Wrapper, Growth * left + Wrapper}

ExecuteTool(a) ==
  \E n \in Outputs : \E c \in Charged(chars[a], n) :
    /\ epc[a] = "tool"
    /\ used' = [used EXCEPT ![a] = @ + 1] /\ chars' = [chars EXCEPT ![a] = @ + c]
    /\ batch' = [batch EXCEPT ![a] = @ - 1]
    /\ epc' = [epc EXCEPT ![a] = IF batch[a] = 1 THEN "read" ELSE "tool"]
    /\ UNCHANGED <<free, text, retried>>

\* A close or the end of the stream stops the loop without an error; what has
\* arrived is the answer.
SocketEnds(a) ==
  /\ \/ Ends(a, "read", "cut")
     \/ ModeOf[a] = "structured" /\ Ends(a, "read", "failed")
  /\ UNCHANGED <<text, batch, used, chars, retried>>

\* An "error" event, a read or send error, or a tool that fails or times out.
ExchangeFails(a) ==
  /\ \E here \in {"read", "tool"} : Ends(a, here, "failed")
  /\ UNCHANGED <<text, batch, used, chars, retried>>

\* Mutant: the tool loop has no wall clock either.
ExpiresStructured(a) ==
  /\ ModeOf[a] = "structured" /\ Ends(a, "read", "failed")
  /\ UNCHANGED <<text, batch, used, chars, retried>>

\* The wall clock runs only where it is looked at: plain exchanges have none.
Expires(a) ==
  /\ ModeOf[a] # "plain" /\ Ends(a, "read", "failed")
  /\ UNCHANGED <<text, batch, used, chars, retried>>

Holding == {"auth", "open", "read", "tool"}

CallerLeaves(a) ==
  /\ \/ Moves(a, "permit", "gone") /\ UNCHANGED free
     \/ \E here \in Holding : Ends(a, here, "gone")
  /\ UNCHANGED <<text, batch, used, chars, retried>>

\* What happens of itself: tasks run, handshakes, tools and the timed reads
\* are under timeouts.  What the provider sends is not among it.
Advance(a) ==
  \/ Acquire(a) \/ FreshAuth(a) \/ OpenSession(a) \/ ExecuteTool(a) \/ Expires(a)

ExchangeNext ==
  \E a \in ExAsk :
    \/ Submit(a) \/ Advance(a) \/ Delta(a) \/ DoneText(a) \/ DoneCalls(a)
    \/ SocketEnds(a) \/ ExchangeFails(a) \/ CallerLeaves(a)

ExchangeSpec == ExchangeInit /\ [][ExchangeNext]_exchangeVars

ExchangeFairness == \A a \in ExAsk : WF_exchangeVars(Advance(a))

-----------------------------------------------------------------------------
ExchangeTypeOK ==
  /\ free \in 0..Capacity
  /\ epc \in [ExAsk -> Holding \cup {"idle", "permit", "complete", "cut", "failed", "gone"}]
  /\ text \in [ExAsk -> BOOLEAN] /\ retried \in [ExAsk -> BOOLEAN]
  /\ batch \in [ExAsk -> Nat] /\ used \in [ExAsk -> Nat] /\ chars \in [ExAsk -> Nat]

\* Permits are neither lost nor made up on any way an ask may end.
PermitsConserved == free + Cardinality({a \in ExAsk : epc[a] \in Holding}) = Capacity

\* Over all rounds of its loop an ask executes no more tools than it may, and
\* at most one result is cut: what the model is sent stays within the budget,
\* one encoded preview and a hint for every later call.
ToolBudget ==
  \A a \in ExAsk :
    /\ used[a] + batch[a] <= MaxToolCalls
    /\ chars[a] <= Growth * MaxToolChars + Wrapper + MaxToolCalls * Hint

\* An exchange with a wall clock ends, and so hands its permit on.
TimedAsksEnd ==
  \A a \in ExAsk : ModeOf[a] # "plain" =>
    (epc[a] \in Holding ~> epc[a] \notin Holding)
=============================================================================
