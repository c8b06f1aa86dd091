---------------------------- MODULE Realtime_proofs ----------------------------
(***************************************************************************)
(* Proofs about the two ways to the Realtime socket that keep a            *)
(* conversation or a permit: exchanges with a socket each, for any number  *)
(* of asks and permits and any budget of tools; and threads, for any       *)
(* number of asks, threads and windows, any bound on the registry and the  *)
(* window, any callers that go away and any number of lost sockets.        *)
(***************************************************************************)
EXTENDS ThreadSession, RealtimeExchange, SequenceLemmas, FiniteSetTheorems

-----------------------------------------------------------------------------
(* The budget of a tool loop *)

\* What the results of n calls may come to, the preview of a truncated one and
\* a hint for each included.
Allowed(n) == Growth * MaxToolChars + Wrapper + n * Hint

\* An ask below its budget has been charged whole results; a result cut short
\* exhausts it, and every call after that costs a hint.
Budgeted ==
  /\ epc \in [ExAsk -> Holding \cup {"idle", "permit", "complete", "cut", "failed", "gone"}]
  /\ batch \in [ExAsk -> Nat] /\ used \in [ExAsk -> Nat] /\ chars \in [ExAsk -> Nat]
  /\ \A a \in ExAsk :
       /\ used[a] + batch[a] <= MaxToolCalls
       /\ epc[a] = "tool" => batch[a] > 0
       /\ epc[a] \in {"idle", "permit", "auth", "open", "read"} => batch[a] = 0
       /\ chars[a] <= Allowed(used[a])

\* Multiplication is all the provers have to be told about.
LEMMA Products ==
  /\ Growth * MaxToolChars \in Nat /\ Growth * MaxToolChars >= MaxToolChars
  /\ \A n \in Nat : n * Hint \in Nat /\ (n + 1) * Hint = n * Hint + Hint
  /\ \A n \in Nat : n <= MaxToolCalls => n * Hint <= MaxToolCalls * Hint
  /\ \A k \in 0..MaxToolChars :
       /\ Growth * (MaxToolChars - k) \in Nat
       /\ k + Growth * (MaxToolChars - k) <= Growth * MaxToolChars
<1>1. Growth \in Nat /\ Growth >= 1 /\ MaxToolChars \in Nat /\ Hint \in Nat /\ MaxToolCalls \in Nat
  BY ExchangeAssumption
<1>2. Growth * MaxToolChars \in Nat /\ Growth * MaxToolChars >= MaxToolChars
  BY <1>1
<1>3. \A n \in Nat : n * Hint \in Nat /\ (n + 1) * Hint = n * Hint + Hint
  BY <1>1
<1>4. ASSUME NEW n \in Nat, n <= MaxToolCalls PROVE n * Hint <= MaxToolCalls * Hint
  <2>1. PICK d \in Nat : MaxToolCalls = n + d
    <3>1. MaxToolCalls - n \in Nat /\ MaxToolCalls = n + (MaxToolCalls - n)
      BY <1>1, <1>4
    <3>2. QED
      BY <3>1
  <2>2. (n + d) * Hint = n * Hint + d * Hint /\ d * Hint \in Nat /\ n * Hint \in Nat
    BY <1>1
  <2>3. QED
    BY <2>1, <2>2
<1>5. ASSUME NEW k \in 0..MaxToolChars
      PROVE  /\ Growth * (MaxToolChars - k) \in Nat
             /\ k + Growth * (MaxToolChars - k) <= Growth * MaxToolChars
  <2>1. PICK r \in Nat : r = MaxToolChars - k
    BY <1>1
  <2>2. MaxToolChars = k + r
    BY <1>1, <2>1
  <2>3. Growth * (k + r) = Growth * k + Growth * r /\ Growth * r \in Nat /\ Growth * k \in Nat
    BY <1>1
  <2>4. Growth * k >= k
    BY <1>1
  <2>5. QED
    BY <2>1, <2>2, <2>3, <2>4
<1>6. QED
  BY <1>2, <1>3, <1>4, <1>5

\* One result keeps within what the calls so far allow, and one hint more.
LEMMA ChargedWithin ==
  ASSUME NEW total \in Nat, NEW n \in Nat, NEW len \in Nat, total <= Allowed(n),
         NEW c \in Charged(total, len)
  PROVE  c \in Nat /\ total + c <= Allowed(n + 1)
<1>1. Hint \in Nat /\ Wrapper \in Nat /\ MaxToolChars \in Nat
  BY ExchangeAssumption
<1>2. PICK g \in Nat : g = Growth * MaxToolChars /\ g >= MaxToolChars
  BY Products
<1>3. PICK h \in Nat : h = n * Hint /\ (n + 1) * Hint = h + Hint
  BY Products
<1>4. Allowed(n) = g + Wrapper + h /\ Allowed(n + 1) = g + Wrapper + h + Hint
  BY <1>1, <1>2, <1>3 DEF Allowed
<1>5. CASE total >= MaxToolChars
  <2>1. ~(total < MaxToolChars)
    BY <1>5, <1>1
  <2>2. Charged(total, len) = IF len <= 0 THEN {len} ELSE {Hint}
    BY <2>1, Zenon DEF Charged
  <2>3. c \in {len, Hint} /\ (c = len => len <= 0 \/ c = Hint)
    BY <2>2
  <2>4. QED
    BY <2>3, <1>1, <1>2, <1>3, <1>4
<1>6. CASE total < MaxToolChars
  <2>1. PICK left \in Nat : left = MaxToolChars - total /\ left > 0
    BY <1>6, <1>1
  <2>2. \/ c = len /\ len <= left
        \/ c = left + Wrapper
        \/ c = Growth * left + Wrapper
    BY <2>1, <1>6 DEF Charged
  <2>3. total + left = MaxToolChars
    BY <2>1, <1>1
  <2>4. Growth * left \in Nat /\ total + Growth * left <= g
    <3>1. total \in 0..MaxToolChars
      BY <1>1, <1>6
    <3>2. /\ Growth * (MaxToolChars - total) \in Nat
          /\ total + Growth * (MaxToolChars - total) <= Growth * MaxToolChars
      BY <3>1, Products, Zenon
    <3>3. QED
      BY <3>2, <2>1, <1>2, Zenon
  <2>5. QED
    BY <2>2, <2>3, <2>4, <1>1, <1>2, <1>3, <1>4
<1>7. QED
  BY <1>5, <1>6, <1>1

LEMMA BudgetedInit == ExchangeInit => Budgeted
<1>1. Growth * MaxToolChars \in Nat /\ 0 * Hint \in Nat
  BY Products
<1>2. MaxToolCalls \in Nat /\ Wrapper \in Nat
  BY ExchangeAssumption
<1>3. 0 <= Allowed(0)
  BY <1>1, <1>2 DEF Allowed
<1>4. QED
  BY <1>2, <1>3 DEF ExchangeInit, Budgeted, Holding

\* A step that charges nothing and does not enter a round of tools.
LEMMA BudgetedMove ==
  ASSUME Budgeted, NEW a \in ExAsk, NEW here, NEW to \in {"permit", "auth", "open", "read",
           "complete", "cut", "failed", "gone"},
         Moves(a, here, to), UNCHANGED <<batch, used, chars>>,
         to \in {"permit", "auth", "open", "read"} => here \in {"idle", "permit", "auth", "open", "read"}
  PROVE  Budgeted'
<1>1. epc[a] = here /\ epc' \in [ExAsk -> Holding \cup {"idle", "permit", "complete", "cut", "failed", "gone"}]
      /\ \A b \in ExAsk : epc'[b] = IF b = a THEN to ELSE epc[b]
  BY DEF Moves, Budgeted, Holding
<1>2. QED
  BY <1>1 DEF Budgeted, Allowed

LEMMA BudgetedTool ==
  ASSUME Budgeted, NEW a \in ExAsk, ExecuteTool(a)
  PROVE  Budgeted'
<1>1. PICK len \in Outputs : \E c \in Charged(chars[a], len) :
        /\ epc[a] = "tool"
        /\ used' = [used EXCEPT ![a] = @ + 1] /\ chars' = [chars EXCEPT ![a] = @ + c]
        /\ batch' = [batch EXCEPT ![a] = @ - 1]
        /\ epc' = [epc EXCEPT ![a] = IF batch[a] = 1 THEN "read" ELSE "tool"]
  BY Zenon DEF ExecuteTool
<1>2. PICK c \in Charged(chars[a], len) :
        /\ epc[a] = "tool"
        /\ used' = [used EXCEPT ![a] = @ + 1] /\ chars' = [chars EXCEPT ![a] = @ + c]
        /\ batch' = [batch EXCEPT ![a] = @ - 1]
        /\ epc' = [epc EXCEPT ![a] = IF batch[a] = 1 THEN "read" ELSE "tool"]
  BY <1>1, Zenon
<1>3. c \in Nat /\ chars[a] + c <= Allowed(used[a] + 1)
  <2>1. len \in Nat /\ chars[a] \in Nat /\ used[a] \in Nat /\ chars[a] <= Allowed(used[a])
    BY ExchangeAssumption DEF Budgeted
  <2>2. QED
    BY <2>1, ChargedWithin
<1>4. MaxToolCalls \in Nat
  BY ExchangeAssumption
<1>5. /\ batch[a] \in Nat /\ batch[a] > 0 /\ used[a] \in Nat /\ used[a] + batch[a] <= MaxToolCalls
      /\ chars[a] \in Nat
  BY <1>2 DEF Budgeted
<1>6. /\ batch[a] - 1 \in Nat /\ used[a] + 1 \in Nat /\ chars[a] + c \in Nat
      /\ (used[a] + 1) + (batch[a] - 1) <= MaxToolCalls
      /\ batch[a] # 1 => batch[a] - 1 > 0
  BY <1>3, <1>4, <1>5
<1>7. /\ epc' \in [ExAsk -> Holding \cup {"idle", "permit", "complete", "cut", "failed", "gone"}]
      /\ batch' \in [ExAsk -> Nat] /\ used' \in [ExAsk -> Nat] /\ chars' \in [ExAsk -> Nat]
  BY <1>2, <1>6 DEF Budgeted, Holding
<1>8. ASSUME NEW b \in ExAsk
      PROVE  /\ used'[b] + batch'[b] <= MaxToolCalls
             /\ epc'[b] = "tool" => batch'[b] > 0
             /\ epc'[b] \in {"idle", "permit", "auth", "open", "read"} => batch'[b] = 0
             /\ chars'[b] <= Allowed(used'[b])
  <2>1. CASE b = a
    <3>1. /\ used'[b] = used[a] + 1 /\ batch'[b] = batch[a] - 1 /\ chars'[b] = chars[a] + c
          /\ epc'[b] = IF batch[a] = 1 THEN "read" ELSE "tool"
      BY <1>2, <2>1 DEF Budgeted
    <3>2. QED
      BY <3>1, <1>3, <1>5, <1>6
  <2>2. CASE b # a
    BY <1>2, <2>2 DEF Budgeted
  <2>3. QED
    BY <2>1, <2>2
<1>9. QED
  BY <1>7, <1>8 DEF Budgeted, Allowed

LEMMA BudgetedCalls ==
  ASSUME Budgeted, NEW a \in ExAsk, DoneCalls(a)
  PROVE  Budgeted'
<1>1. PICK n \in Batches :
        /\ n > 0 /\ UNCHANGED <<used, chars>>
        /\ \/ (\E how \in {"complete", "failed"} : Moves(a, "read", how)) /\ UNCHANGED batch
           \/ /\ used[a] + n <= MaxToolCalls /\ Moves(a, "read", "tool")
              /\ batch' = [batch EXCEPT ![a] = n]
  BY ExchangeAssumption DEF DoneCalls, Ends, Mode
<1>2. CASE (\E how \in {"complete", "failed"} : Moves(a, "read", how)) /\ UNCHANGED batch
  BY <1>1, <1>2, BudgetedMove
<1>3. CASE /\ used[a] + n <= MaxToolCalls /\ Moves(a, "read", "tool")
           /\ batch' = [batch EXCEPT ![a] = n]
  <2>1. n \in Nat
    BY ExchangeAssumption
  <2>2. /\ epc' \in [ExAsk -> Holding \cup {"idle", "permit", "complete", "cut", "failed", "gone"}]
        /\ \A b \in ExAsk : epc'[b] = IF b = a THEN "tool" ELSE epc[b]
        /\ batch' \in [ExAsk -> Nat]
        /\ \A b \in ExAsk : batch'[b] = IF b = a THEN n ELSE batch[b]
    BY <1>3, <2>1 DEF Moves, Budgeted, Holding
  <2>3. QED
    BY <1>1, <1>3, <2>1, <2>2 DEF Budgeted, Allowed
<1>4. QED
  BY <1>1, <1>2, <1>3

LEMMA BudgetedKept ==
  ASSUME Budgeted, [ExchangeNext]_exchangeVars
  PROVE  Budgeted'
<1>1. CASE UNCHANGED exchangeVars
  BY <1>1 DEF Budgeted, exchangeVars, Allowed
<1>2. ASSUME NEW a \in ExAsk, ExecuteTool(a) PROVE Budgeted'
  BY <1>2, BudgetedTool
<1>3. ASSUME NEW a \in ExAsk, DoneCalls(a) PROVE Budgeted'
  BY <1>3, BudgetedCalls
<1>4. ASSUME NEW a \in ExAsk, Submit(a) \/ Acquire(a) \/ FreshAuth(a) \/ OpenSession(a)
      PROVE  Budgeted'
  BY <1>4, BudgetedMove DEF Submit, Acquire, FreshAuth, OpenSession, Opened,
    RetryRejected, Ends
<1>5. ASSUME NEW a \in ExAsk, Delta(a) \/ DoneText(a) \/ SocketEnds(a) \/ Expires(a)
      PROVE  Budgeted'
  BY <1>5, BudgetedMove DEF Delta, DoneText, SocketEnds, Expires, Ends
<1>6. ASSUME NEW a \in ExAsk, ExchangeFails(a) \/ CallerLeaves(a) PROVE Budgeted'
  <2>1. /\ \E here \in Holding \cup {"permit"} : \E how \in {"failed", "gone"} : Moves(a, here, how)
        /\ UNCHANGED <<batch, used, chars>>
    BY <1>6 DEF ExchangeFails, CallerLeaves, Ends, Holding
  <2>2. QED
    BY <2>1, BudgetedMove
<1>7. QED
  BY <1>1, <1>2, <1>3, <1>4, <1>5, <1>6 DEF ExchangeNext, Advance

\* Over all rounds a tool loop executes at most max_tool_calls tools, and what
\* it sends the model stays within max_total_tool_result_chars, one encoded
\* preview and the hints (run_session_with_tools).
THEOREM ToolBudgetKept == ExchangeSpec => []ToolBudget
<1>1. Budgeted => ToolBudget
  <2>1. ASSUME Budgeted, NEW a \in ExAsk
        PROVE  chars[a] <= Allowed(MaxToolCalls)
    <3>1. used[a] \in Nat /\ batch[a] \in Nat /\ used[a] + batch[a] <= MaxToolCalls
          /\ chars[a] \in Nat /\ chars[a] <= Allowed(used[a])
      BY <2>1 DEF Budgeted
    <3>2. MaxToolCalls \in Nat /\ Wrapper \in Nat
      BY ExchangeAssumption
    <3>3. used[a] <= MaxToolCalls
      BY <3>1, <3>2
    <3>4. /\ used[a] * Hint \in Nat /\ MaxToolCalls * Hint \in Nat /\ Growth * MaxToolChars \in Nat
          /\ used[a] * Hint <= MaxToolCalls * Hint
      BY <3>1, <3>2, <3>3, Products
    <3>5. QED
      BY <3>1, <3>2, <3>4 DEF Allowed
  <2>2. QED
    BY <2>1 DEF Budgeted, ToolBudget, Allowed
<1>2. QED
  BY <1>1, BudgetedInit, BudgetedKept, PTL DEF ExchangeSpec

-----------------------------------------------------------------------------
(* The permits of the pool *)

Holders == {a \in ExAsk : epc[a] \in Holding}

Permitted ==
  /\ free \in Nat /\ DOMAIN epc = ExAsk /\ epc = [a \in ExAsk |-> epc[a]]
  /\ PermitsConserved

LEMMA HoldersFinite == IsFiniteSet(Holders) /\ Cardinality(Holders) \in Nat
<1>1. IsFiniteSet(ExAsk) /\ Holders \in SUBSET ExAsk
  BY ExchangeAssumption DEF Holders
<1>2. IsFiniteSet(Holders)
  BY <1>1, FS_Subset
<1>3. QED
  BY <1>2, FS_CardinalityType

LEMMA MovedAsk ==
  ASSUME Permitted, NEW a \in ExAsk, NEW here, NEW to, Moves(a, here, to)
  PROVE  /\ epc[a] = here /\ DOMAIN epc' = ExAsk /\ epc' = [b \in ExAsk |-> epc'[b]]
         /\ \A b \in ExAsk : epc'[b] = IF b = a THEN to ELSE epc[b]
BY DEF Permitted, Moves

\* A step that neither takes nor returns a permit.
LEMMA PermitUntouched ==
  ASSUME Permitted, NEW a \in ExAsk, NEW here, NEW to, Moves(a, here, to),
         here \in Holding <=> to \in Holding, UNCHANGED free
  PROVE  Permitted'
<1>1. Holders' = Holders
  BY MovedAsk DEF Holders
<1>2. QED
  BY <1>1, MovedAsk DEF Permitted, PermitsConserved, Holders

LEMMA PermitTaken ==
  ASSUME Permitted, NEW a \in ExAsk, Acquire(a)
  PROVE  Permitted'
<1>1. free > 0 /\ free' = free - 1 /\ Moves(a, "permit", "auth")
  BY DEF Acquire
<1>2. Holders' = Holders \cup {a} /\ a \notin Holders
  BY <1>1, MovedAsk DEF Holders, Holding
<1>3. Cardinality(Holders') = Cardinality(Holders) + 1
  BY <1>2, HoldersFinite, FS_AddElement
<1>4. free + Cardinality(Holders) = Capacity /\ free \in Nat
  BY DEF Permitted, PermitsConserved, Holders
<1>5. free' \in Nat /\ free' + Cardinality(Holders') = Capacity
  BY <1>1, <1>3, <1>4, HoldersFinite, ExchangeAssumption
<1>6. QED
  BY <1>1, <1>5, MovedAsk DEF Permitted, PermitsConserved, Holders

LEMMA PermitReturned ==
  ASSUME Permitted, NEW a \in ExAsk, NEW here \in Holding,
         NEW how \in {"complete", "cut", "failed", "gone"}, Ends(a, here, how)
  PROVE  Permitted'
<1>1. free' = free + 1 /\ Moves(a, here, how)
  BY DEF Ends
<1>2. Holders' = Holders \ {a} /\ a \in Holders
  BY <1>1, MovedAsk DEF Holders, Holding
<1>3. Cardinality(Holders') = Cardinality(Holders) - 1
  BY <1>2, HoldersFinite, FS_RemoveElement
<1>4. free + Cardinality(Holders) = Capacity /\ free \in Nat
  BY DEF Permitted, PermitsConserved, Holders
<1>5. free' \in Nat /\ free' + Cardinality(Holders') = Capacity
  BY <1>1, <1>3, <1>4, HoldersFinite, ExchangeAssumption
<1>6. QED
  BY <1>1, <1>5, MovedAsk DEF Permitted, PermitsConserved, Holders

LEMMA PermittedInit == ExchangeInit => Permitted
<1>1. ASSUME ExchangeInit PROVE Holders = {} /\ free = Capacity
  BY <1>1 DEF ExchangeInit, Holders, Holding
<1>2. QED
  BY <1>1, FS_EmptySet, ExchangeAssumption
     DEF ExchangeInit, Permitted, PermitsConserved, Holders

LEMMA PermittedKept ==
  ASSUME Permitted, [ExchangeNext]_exchangeVars
  PROVE  Permitted'
<1>1. CASE UNCHANGED exchangeVars
  BY <1>1 DEF Permitted, PermitsConserved, exchangeVars
<1>2. ASSUME NEW a \in ExAsk, Acquire(a) PROVE Permitted'
  BY <1>2, PermitTaken
<1>3. ASSUME NEW a \in ExAsk, Submit(a) \/ Delta(a) PROVE Permitted'
  BY <1>3, PermitUntouched DEF Submit, Delta, Holding
<1>4. ASSUME NEW a \in ExAsk, FreshAuth(a) \/ OpenSession(a) PROVE Permitted'
  <2>1. \/ (\E here, to \in Holding : Moves(a, here, to)) /\ UNCHANGED free
        \/ \E here \in Holding : Ends(a, here, "failed")
    BY <1>4 DEF FreshAuth, OpenSession, Opened, RetryRejected, Holding
  <2>2. QED
    BY <2>1, PermitUntouched, PermitReturned
<1>5. ASSUME NEW a \in ExAsk,
             DoneText(a) \/ SocketEnds(a) \/ Expires(a) \/ ExchangeFails(a)
      PROVE  Permitted'
  <2>1. \E here \in Holding : \E how \in {"complete", "cut", "failed"} : Ends(a, here, how)
    BY <1>5 DEF DoneText, SocketEnds, Expires, ExchangeFails, Holding
  <2>2. QED
    BY <2>1, PermitReturned
<1>6. ASSUME NEW a \in ExAsk, DoneCalls(a) PROVE Permitted'
  <2>1. \/ \E how \in {"complete", "failed"} : Ends(a, "read", how)
        \/ Moves(a, "read", "tool") /\ UNCHANGED free
    BY <1>6, ExchangeAssumption DEF DoneCalls, Mode
  <2>2. QED
    BY <2>1, PermitUntouched, PermitReturned DEF Holding
<1>7. ASSUME NEW a \in ExAsk, ExecuteTool(a) PROVE Permitted'
  <2>1. UNCHANGED free /\ epc[a] = "tool"
        /\ epc' = [epc EXCEPT ![a] = IF batch[a] = 1 THEN "read" ELSE "tool"]
    BY <1>7 DEF ExecuteTool
  <2>2. PICK to \in {"read", "tool"} : epc' = [epc EXCEPT ![a] = to]
    BY <2>1
  <2>3. Moves(a, "tool", to)
    BY <2>1, <2>2 DEF Moves
  <2>4. QED
    BY <2>1, <2>3, PermitUntouched DEF Holding
<1>8. ASSUME NEW a \in ExAsk, CallerLeaves(a) PROVE Permitted'
  BY <1>8, PermitUntouched, PermitReturned DEF CallerLeaves, Holding
<1>9. QED
  BY <1>1, <1>2, <1>3, <1>4, <1>5, <1>6, <1>7, <1>8 DEF ExchangeNext, Advance

\* The pool's semaphore never loses a permit nor gains one, however exchanges
\* end: with a result, an error, a timeout or a caller that goes away.
THEOREM PermitsKept == ExchangeSpec => []PermitsConserved
<1>1. Permitted => PermitsConserved
  BY DEF Permitted
<1>2. QED
  BY <1>1, PermittedInit, PermittedKept, PTL DEF ExchangeSpec

-----------------------------------------------------------------------------
(* What an ask finds on the session it was given *)

Carried == UNION {Inputs[a] : a \in ThreadAsk}
Item == UNION {ToSet(in.items) : in \in Carried}
Config == {in.config : in \in Carried}

Logged == [live : BOOLEAN, appended_ids : Seq(Item), config_hash : SUBSET Config]
FarEnd == [open : BOOLEAN, aged : BOOLEAN, items : Seq(Item), config : SUBSET Config,
           owed : SUBSET (ThreadAsk \cup {Refusal})]
Asking == [session : Nat, items : Seq(Item), config : SUBSET Config]
Reference == [items : Seq(Item), known : SUBSET Item, config : SUBSET Config, open : BOOLEAN]

ThreadTyped ==
  /\ created \in Nat
  /\ thread \in [Thread -> Logged] /\ far \in [Thread -> FarEnd]
  /\ waiting \in [Thread -> Seq(ThreadAsk)]
  /\ tpc \in [ThreadAsk -> Busy \cup {"idle", "found", "answered", "failed", "gone"}]
  /\ ask \in [ThreadAsk -> Asking] /\ sent \in [ThreadAsk -> Nat]
  /\ asked \in [ThreadAsk -> SUBSET Reference]
  /\ replies \in [ThreadAsk -> SUBSET (ThreadAsk \cup {Refusal})]

\* An ask creates at most one session, and works on one that exists.
Started == {a \in ThreadAsk : tpc[a] # "idle"}

Sited ==
  /\ created <= Cardinality(Started)
  /\ registry \in Seq([key : Key, session : 1..created])
  /\ \A a \in ThreadAsk :
       IF tpc[a] = "idle" THEN asked[a] = {} /\ replies[a] = {}
       ELSE ask[a].session \in 1..created

\* Whoever works holds the session's mutex.
Working == Busy \ {"queued"}

InLine ==
  \A a \in ThreadAsk :
    /\ tpc[a] \in Busy => InQueue(waiting[ask[a].session], a)
    /\ tpc[a] \in Working => Head(waiting[ask[a].session]) = a

\* The log as the ask at work has it: empty before its socket is connected, a
\* part of its window while it appends the rest, and its window from then on.
Window(a) ==
  LET st == thread[ask[a].session] IN
  /\ tpc[a] = "connect" => ~st.live /\ st.appended_ids = <<>>
  /\ tpc[a] \in {"append", "dispatch"} => st.live /\ st.config_hash = ask[a].config
  /\ tpc[a] = "append" =>
       /\ Len(st.appended_ids) + sent[a] < Len(ask[a].items)
       /\ st.appended_ids = SubSeq(ask[a].items, 1, Len(st.appended_ids))
  /\ tpc[a] = "dispatch" => st.appended_ids = ask[a].items
  /\ tpc[a] \notin {"append", "gone"} => sent[a] = 0

Windowed == \A a \in ThreadAsk : Window(a)

\* What the provider holds when it has been sent some items.
Holds(items, held, refused, alone) ==
  /\ ToSet(items) \subseteq ToSet(held)
  /\ ~refused => InOrder(items, held) /\ (alone => held = items)

HeldOf(s, items) ==
  Holds(items, far[s].items, Refusal \in far[s].owed, Deserted(s) = {})

Appends(a, s) == tpc[a] = "append" /\ ask[a].session = s

HeldAt(s) ==
  thread[s].live /\ far[s].open =>
    /\ far[s].config = thread[s].config_hash
    /\ (\A a \in ThreadAsk : ~Appends(a, s)) => HeldOf(s, Log(s))
    /\ \A a \in ThreadAsk : Appends(a, s) =>
         HeldOf(s, SubSeq(ask[a].items, 1, Len(Log(s)) + sent[a]))

Held == \A s \in Thread : HeldAt(s)

\* Only asks that read are owed a response, until one of them is abandoned.
Owing ==
  \A s \in Thread : Deserted(s) = {} =>
    \A b \in far[s].owed \ {Refusal} : tpc[b] = "read" /\ ask[b].session = s

ThreadInv ==
  /\ ThreadTyped /\ Sited /\ InLine /\ Windowed /\ Held /\ Owing
  /\ AsksItsWindow /\ RepliesNeedDesertion
LEMMA WiderSeq ==
  ASSUME NEW S, NEW T, S \subseteq T, NEW q \in Seq(S)
  PROVE  q \in Seq(T)
<1>1. q \in [1..Len(q) -> S] /\ Len(q) \in Nat
  OBVIOUS
<1>2. q \in [1..Len(q) -> T]
  BY <1>1
<1>3. QED
  BY <1>1, <1>2

LEMMA WindowIs ==
  ASSUME NEW a \in ThreadAsk, NEW in \in Inputs[a]
  PROVE  in.items \in Seq(Item) /\ config_hash(in.config) \in SUBSET Config
<1>1. in \in Carried
  BY DEF Carried
<1>2. in.items \in Seq(ToSet(in.items)) /\ ToSet(in.items) \subseteq Item
  BY <1>1, ThreadAssumption DEF Item
<1>3. in.items \in Seq(Item)
  BY <1>2, WiderSeq
<1>4. QED
  BY <1>1, <1>3 DEF Config, config_hash

LEMMA StartedFinite ==
  /\ IsFiniteSet(Started) /\ Cardinality(Started) \in Nat
  /\ Cardinality(Started) <= Cardinality(ThreadAsk) /\ Cardinality(ThreadAsk) \in Nat
<1>1. Started \subseteq ThreadAsk /\ IsFiniteSet(ThreadAsk)
  BY ThreadAssumption DEF Started
<1>2. IsFiniteSet(Started) /\ Cardinality(Started) <= Cardinality(ThreadAsk)
  BY <1>1, FS_Subset
<1>3. QED
  BY <1>1, <1>2, FS_CardinalityType

LEMMA AskOnThread ==
  ASSUME ThreadTyped, Sited, NEW a \in ThreadAsk, tpc[a] # "idle"
  PROVE  ask[a].session \in Thread
<1>1. ask[a].session \in 1..created /\ created \in Nat /\ created <= Cardinality(Started)
  BY DEF ThreadTyped, Sited
<1>2. QED
  BY <1>1, StartedFinite DEF Thread

\* Nobody becomes idle, and nobody else starts.
LEMMA StartedKept ==
  ASSUME ThreadTyped, NEW a \in ThreadAsk, tpc[a] # "idle", NEW v, v # "idle",
         tpc' = [tpc EXCEPT ![a] = v]
  PROVE  Started' = Started
BY DEF Started, ThreadTyped

LEMMA ElementIs ==
  ASSUME NEW U, NEW q \in Seq(U), NEW i \in DOMAIN q
  PROVE  q[i] \in U
OBVIOUS

LEMMA RegisteredOn ==
  ASSUME Sited, NEW k, NEW i \in Registered(k)
  PROVE  registry[i].session \in 1..created
<1>1. i \in DOMAIN registry
  BY DEF Registered
<1>2. registry[i] \in [key : Key, session : 1..created]
  BY <1>1, ElementIs DEF Sited
<1>3. QED
  BY <1>2

LEMMA SitedInit == ThreadInit => Sited
<1>1. SUFFICES ASSUME ThreadInit PROVE Sited
  OBVIOUS
<1>2. created = 0 /\ registry = <<>>
  BY <1>1 DEF ThreadInit
<1>3. \A a \in ThreadAsk : tpc[a] = "idle" /\ asked[a] = {} /\ replies[a] = {}
  BY <1>1 DEF ThreadInit
<1>4. created <= Cardinality(Started)
  BY <1>2, StartedFinite
<1>5. QED
  BY <1>2, <1>3, <1>4 DEF Sited

LEMMA SitedFor ==
  ASSUME ThreadTyped, Sited, NEW a \in ThreadAsk, SessionFor(a)
  PROVE  Sited'
<1>1. /\ tpc[a] = "idle" /\ tpc' = [tpc EXCEPT ![a] = "found"] /\ UNCHANGED <<asked, replies>>
      /\ \/ /\ UNCHANGED <<registry, created>>
            /\ \E i \in Registered(KeyOf[a]) : \E in \in Inputs[a] :
                 ask' = [ask EXCEPT ![a] = [session |-> registry[i].session, items |-> in.items,
                                            config |-> config_hash(in.config)]]
         \/ /\ created' = created + 1
            /\ registry' = Append(EvictIdle, [key |-> KeyOf[a], session |-> created + 1])
            /\ \E in \in Inputs[a] :
                 ask' = [ask EXCEPT ![a] = [session |-> created + 1, items |-> in.items,
                                            config |-> config_hash(in.config)]]
  BY DEF SessionFor, At
<1>2. created \in Nat /\ ask \in [ThreadAsk -> Asking] /\ registry \in Seq([key : Key, session : 1..created])
  BY DEF ThreadTyped, Sited
<1>3. Started' = Started \cup {a} /\ a \notin Started
  BY <1>1 DEF Started, ThreadTyped
<1>4. Cardinality(Started') = Cardinality(Started) + 1
  BY <1>3, StartedFinite, FS_AddElement
<1>5. created <= Cardinality(Started) /\ created <= created'
  BY <1>1, <1>2 DEF Sited
<1>6. created' \in Nat /\ created' <= Cardinality(Started')
  BY <1>1, <1>2, <1>4, <1>5, StartedFinite
<1>7. registry' \in Seq([key : Key, session : 1..created']) /\ ask'[a].session \in 1..created'
  <2>1. CASE created' = created + 1 /\ registry' = Append(EvictIdle, [key |-> KeyOf[a], session |-> created + 1])
             /\ \E in \in Inputs[a] :
                 ask' = [ask EXCEPT ![a] = [session |-> created + 1, items |-> in.items,
                                            config |-> config_hash(in.config)]]
    <3>1. [key : Key, session : 1..created] \subseteq [key : Key, session : 1..(created + 1)]
      BY <1>2
    <3>2. registry \in Seq([key : Key, session : 1..(created + 1)])
      BY <1>2, <3>1, WiderSeq
    <3>3. EvictIdle \in Seq([key : Key, session : 1..(created + 1)])
      <4>1. CASE Len(registry) >= MaxThreads
        <5>1. Len(registry) # 0
          BY <4>1, ThreadAssumption
        <5>2. registry # <<>>
          BY <5>1
        <5>3. QED
          BY <3>2, <4>1, <5>2 DEF EvictIdle
      <4>2. CASE ~(Len(registry) >= MaxThreads)
        BY <3>2, <4>2 DEF EvictIdle
      <4>3. QED
        BY <4>1, <4>2
    <3>4. [key |-> KeyOf[a], session |-> created + 1] \in [key : Key, session : 1..(created + 1)]
      BY <1>2, ThreadAssumption
    <3>5. ask'[a].session = created + 1
      BY <2>1, <1>2
    <3>6. QED
      BY <1>2, <2>1, <3>3, <3>4, <3>5
  <2>2. CASE UNCHANGED <<registry, created>>
             /\ \E i \in Registered(KeyOf[a]) : \E in \in Inputs[a] :
                  ask' = [ask EXCEPT ![a] = [session |-> registry[i].session, items |-> in.items,
                                             config |-> config_hash(in.config)]]
    <3>1. PICK i \in Registered(KeyOf[a]) : \E in \in Inputs[a] :
                  ask' = [ask EXCEPT ![a] = [session |-> registry[i].session, items |-> in.items,
                                             config |-> config_hash(in.config)]]
      BY <2>2
    <3>2. registry[i].session \in 1..created
      BY RegisteredOn
    <3>3. ask'[a].session = registry[i].session
      BY <3>1, <1>2
    <3>4. QED
      BY <1>2, <2>2, <3>2, <3>3
  <2>3. QED
    BY <1>1, <2>1, <2>2
<1>8. ASSUME NEW b \in ThreadAsk
      PROVE  IF tpc'[b] = "idle" THEN asked'[b] = {} /\ replies'[b] = {}
             ELSE ask'[b].session \in 1..created'
  <2>1. CASE b = a
    BY <1>1, <1>7, <2>1 DEF ThreadTyped
  <2>2. CASE b # a
    <3>1. tpc'[b] = tpc[b] /\ ask'[b] = ask[b]
      BY <1>1, <1>2, <2>2 DEF ThreadTyped
    <3>2. IF tpc[b] = "idle" THEN asked[b] = {} /\ replies[b] = {} ELSE ask[b].session \in 1..created
      BY DEF Sited
    <3>3. QED
      BY <1>1, <1>2, <1>5, <1>6, <3>1, <3>2
  <2>3. QED
    BY <2>1, <2>2
<1>9. QED
  BY <1>6, <1>7, <1>8 DEF Sited

LEMMA SitedTouch ==
  ASSUME ThreadTyped, Sited, NEW a \in ThreadAsk, Touch(a)
  PROVE  Sited'
<1>1. /\ tpc[a] = "found" /\ tpc' = [tpc EXCEPT ![a] = "queued"]
      /\ UNCHANGED <<created, ask, asked, replies>>
  BY DEF Touch, At
<1>2. PICK entry : entry = [key |-> KeyOf[a], session |-> ask[a].session]
  OBVIOUS
<1>3. registry' = IF Contains(registry, entry) THEN Append(RemoveFirst(registry, entry), entry) ELSE registry
  BY <1>2 DEF Touch
<1>4. PICK U : U = [key : Key, session : 1..created]
  OBVIOUS
<1>5. registry \in Seq(U) /\ entry \in U
  BY <1>1, <1>2, <1>4, ThreadAssumption DEF Sited
<1>6. RemoveFirst(registry, entry) \in Seq(U)
  BY <1>5, Leaves
<1>7. registry' \in Seq(U)
  BY <1>3, <1>5, <1>6
<1>8. Started' = Started
  BY <1>1, StartedKept
<1>9. QED
  BY <1>1, <1>4, <1>7, <1>8 DEF Sited, ThreadTyped

\* Every later step of an ask leaves sessions and registry alone.
LEMMA SitedMove ==
  ASSUME ThreadTyped, Sited, NEW a \in ThreadAsk, NEW v, v # "idle", tpc[a] # "idle",
         tpc' = [tpc EXCEPT ![a] = v] \/ UNCHANGED tpc, UNCHANGED <<registry, created, ask>>,
         \A b \in ThreadAsk : b # a => asked'[b] = asked[b] /\ replies'[b] = replies[b]
  PROVE  Sited'
<1>1. Started' = Started
  BY StartedKept DEF Started
<1>2. QED
  BY <1>1 DEF Sited, ThreadTyped

-----------------------------------------------------------------------------
(* Types *)

LEMMA TypedInit == ThreadInit => ThreadTyped
<1>1. <<>> \in Seq(Item) /\ <<>> \in Seq(ThreadAsk)
  OBVIOUS
<1>2. QED
  BY <1>1 DEF ThreadInit, ThreadTyped, Down, NoFarEnd, Logged, FarEnd, Asking

LEMMA TypedFor ==
  ASSUME ThreadTyped, Sited, NEW a \in ThreadAsk, SessionFor(a) \/ Touch(a)
  PROVE  ThreadTyped'
<1>1. CASE SessionFor(a)
  <2>1. created' \in Nat
    BY <1>1 DEF SessionFor, ThreadTyped
  <2>2. ask' \in [ThreadAsk -> Asking]
    <3>1. PICK in \in Inputs[a] : \E s :
            ask' = [ask EXCEPT ![a] = [session |-> s, items |-> in.items, config |-> config_hash(in.config)]]
            /\ (s = created + 1 \/ \E i \in Registered(KeyOf[a]) : s = registry[i].session)
      BY <1>1 DEF SessionFor
    <3>2. PICK s :
            ask' = [ask EXCEPT ![a] = [session |-> s, items |-> in.items, config |-> config_hash(in.config)]]
            /\ (s = created + 1 \/ \E i \in Registered(KeyOf[a]) : s = registry[i].session)
      BY <3>1
    <3>3. s \in Nat
      <4>1. CASE s = created + 1
        BY <4>1 DEF ThreadTyped
      <4>2. CASE \E i \in Registered(KeyOf[a]) : s = registry[i].session
        BY <4>2, RegisteredOn DEF ThreadTyped
      <4>3. QED
        BY <3>2, <4>1, <4>2
    <3>4. [session |-> s, items |-> in.items, config |-> config_hash(in.config)] \in Asking
      BY <3>3, WindowIs DEF Asking
    <3>5. QED
      BY <3>2, <3>4 DEF ThreadTyped
  <2>3. tpc' \in [ThreadAsk -> Busy \cup {"idle", "found", "answered", "failed", "gone"}]
    BY <1>1 DEF SessionFor, At, ThreadTyped
  <2>4. UNCHANGED <<thread, far, waiting, sent, asked, replies>>
    BY <1>1 DEF SessionFor
  <2>5. QED
    BY <2>1, <2>2, <2>3, <2>4 DEF ThreadTyped
<1>2. CASE Touch(a)
  <2>1. tpc' \in [ThreadAsk -> Busy \cup {"idle", "found", "answered", "failed", "gone"}]
    BY <1>2 DEF Touch, At, ThreadTyped, Busy
  <2>2. waiting' \in [Thread -> Seq(ThreadAsk)]
    <3>1. tpc[a] # "idle"
      BY <1>2 DEF Touch, At
    <3>2. Append(waiting[ask[a].session], a) \in Seq(ThreadAsk)
      BY <3>1, AskOnThread, Joins DEF ThreadTyped
    <3>3. QED
      BY <1>2, <3>2 DEF Touch, ThreadTyped
  <2>3. UNCHANGED <<created, thread, far, ask, sent, asked, replies>>
    BY <1>2 DEF Touch
  <2>4. QED
    BY <2>1, <2>2, <2>3 DEF ThreadTyped
<1>3. QED
  BY <1>1, <1>2

LEMMA AskIs ==
  ASSUME ThreadTyped, NEW a \in ThreadAsk
  PROVE  /\ ask[a].items \in Seq(Item) /\ ask[a].config \in SUBSET Config
         /\ Len(ask[a].items) \in Nat /\ ask[a].session \in Nat /\ sent[a] \in Nat
BY DEF ThreadTyped, Asking

LEMMA SessionIs ==
  ASSUME ThreadTyped, NEW s \in Thread
  PROVE  /\ Log(s) \in Seq(Item) /\ Len(Log(s)) \in Nat /\ thread[s] \in Logged /\ far[s] \in FarEnd
         /\ far[s].items \in Seq(Item) /\ far[s].owed \subseteq ThreadAsk \cup {Refusal}
BY DEF ThreadTyped, Logged, FarEnd, Log

Steps == Busy \cup {"answered", "failed", "gone"}

LEMMA MovesTyped ==
  ASSUME ThreadTyped, NEW a \in ThreadAsk, NEW v \in Steps, tpc' = [tpc EXCEPT ![a] = v]
  PROVE  tpc' \in [ThreadAsk -> Busy \cup {"idle", "found", "answered", "failed", "gone"}]
BY DEF ThreadTyped, Steps

LEMMA ReleaseTyped ==
  ASSUME ThreadTyped, NEW a \in ThreadAsk, Release(a)
  PROVE  waiting' \in [Thread -> Seq(ThreadAsk)]
<1>1. \A s \in Thread : RemoveFirst(waiting[s], a) \in Seq(ThreadAsk)
  BY Leaves DEF ThreadTyped
<1>2. QED
  BY <1>1 DEF Release

LEMMA FreshTyped ==
  <<>> \in Seq(Item) /\ NoFarEnd \in FarEnd
<1>1. <<>> \in Seq(Item)
  OBVIOUS
<1>2. QED
  BY <1>1 DEF NoFarEnd, FarEnd

LEMMA TypedSocket ==
  ASSUME ThreadTyped, Sited, NEW a \in ThreadAsk, Begin(a) \/ Connect(a)
  PROVE  ThreadTyped'
<1>1. PICK s : s = ask[a].session
  OBVIOUS
<1>2. CASE Begin(a)
  <2>1. UNCHANGED <<registry, created, waiting, ask, sent, asked, replies>>
    BY <1>2 DEF Begin
  <2>2. \E v \in Steps : tpc' = [tpc EXCEPT ![a] = v]
    BY <1>2 DEF Begin, At, AfterLog, Steps, Busy
  <2>3. thread' \in [Thread -> Logged] /\ far' \in [Thread -> FarEnd]
    <3>1. \/ UNCHANGED <<thread, far>>
          \/ /\ thread' = [thread EXCEPT ![s] = [thread[s] EXCEPT !.live = FALSE, !.appended_ids = <<>>]]
             /\ far' = [far EXCEPT ![s] = NoFarEnd]
      BY <1>1, <1>2 DEF Begin, Set
    <3>2. ASSUME thread' = [thread EXCEPT ![s] = [thread[s] EXCEPT !.live = FALSE, !.appended_ids = <<>>]]
          PROVE  thread' \in [Thread -> Logged]
      BY <3>2, FreshTyped DEF ThreadTyped, Logged
    <3>3. QED
      BY <3>1, <3>2, FreshTyped DEF ThreadTyped
  <2>4. QED
    BY <2>1, <2>2, <2>3, MovesTyped DEF ThreadTyped
<1>3. CASE Connect(a)
  <2>1. UNCHANGED <<registry, created, waiting, ask, sent, asked, replies>>
    BY <1>3 DEF Connect
  <2>2. \E v \in Steps : tpc' = [tpc EXCEPT ![a] = v]
    BY <1>3 DEF Connect, At, AfterLog, Steps, Busy
  <2>3. thread' \in [Thread -> Logged]
    <3>1. thread' = [thread EXCEPT ![s] = [thread[s] EXCEPT !.live = TRUE, !.config_hash = ask[a].config]]
      BY <1>1, <1>3 DEF Connect, Set
    <3>2. QED
      BY <3>1, AskIs DEF ThreadTyped, Logged
  <2>4. far' \in [Thread -> FarEnd]
    <3>1. far' = [far EXCEPT ![s] = [NoFarEnd EXCEPT !.open = TRUE, !.config = ask[a].config]]
      BY <1>1, <1>3 DEF Connect
    <3>2. [NoFarEnd EXCEPT !.open = TRUE, !.config = ask[a].config] \in FarEnd
      BY FreshTyped, AskIs DEF FarEnd
    <3>3. QED
      BY <3>1, <3>2 DEF ThreadTyped
  <2>5. QED
    BY <2>1, <2>2, <2>3, <2>4, MovesTyped DEF ThreadTyped
<1>4. QED
  BY <1>2, <1>3

\* The item an append sends next is one of its window.
LEMMA NextItem ==
  ASSUME ThreadTyped, Sited, Windowed, NEW a \in ThreadAsk, tpc[a] = "append"
  PROVE  LET s == ask[a].session
             n == Len(Log(s)) + sent[a] + 1
         IN  s \in Thread /\ n \in 1..Len(ask[a].items) /\ ask[a].items[n] \in Item
<1>1. ask[a].session \in Thread
  BY AskOnThread
<1>2. Len(Log(ask[a].session)) \in Nat
  BY <1>1, SessionIs
<1>3. Len(Log(ask[a].session)) + sent[a] < Len(ask[a].items)
  BY DEF Windowed, Window, Log
<1>4. Len(Log(ask[a].session)) + sent[a] + 1 \in 1..Len(ask[a].items)
  BY <1>2, <1>3, AskIs
<1>5. ask[a].items[Len(Log(ask[a].session)) + sent[a] + 1] \in Item
  BY <1>4, AskIs, ElementIs
<1>6. QED
  BY <1>1, <1>4, <1>5

LEMMA ReceivesTyped ==
  ASSUME NEW end \in FarEnd, NEW id \in Item
  PROVE  Receives(end, id) \in FarEnd
<1>1. Append(end.items, id) \in Seq(Item)
  BY DEF FarEnd
<1>2. QED
  BY <1>1 DEF Receives, FarEnd

LEMMA TypedAppend ==
  ASSUME ThreadTyped, Sited, Windowed, NEW a \in ThreadAsk, AppendItem(a)
  PROVE  ThreadTyped'
<1>1. PICK s, n, id : s = ask[a].session /\ n = Len(Log(s)) + sent[a] + 1 /\ id = ask[a].items[n]
  OBVIOUS
<1>2. tpc[a] = "append"
  BY DEF AppendItem
<1>3. s \in Thread /\ id \in Item
  BY <1>1, <1>2, NextItem
<1>4. far' \in [Thread -> FarEnd]
  <2>1. far' = [far EXCEPT ![s] = Receives(far[s], id)]
    BY <1>1 DEF AppendItem
  <2>2. Receives(far[s], id) \in FarEnd
    BY <1>3, SessionIs, ReceivesTyped
  <2>3. QED
    BY <2>1, <2>2 DEF ThreadTyped
<1>5. thread' \in [Thread -> Logged] /\ sent' \in [ThreadAsk -> Nat]
  <2>1. CASE n = Len(ask[a].items)
    <3>1. thread' = [thread EXCEPT ![s] = [thread[s] EXCEPT !.appended_ids = ask[a].items]]
          /\ sent' = [sent EXCEPT ![a] = 0]
      BY <1>1, <2>1 DEF AppendItem, Set
    <3>2. [thread[s] EXCEPT !.appended_ids = ask[a].items] \in Logged
      BY <1>3, AskIs, SessionIs DEF Logged
    <3>3. QED
      BY <3>1, <3>2 DEF ThreadTyped
  <2>2. CASE n # Len(ask[a].items)
    <3>1. thread' = thread /\ sent' = [sent EXCEPT ![a] = sent[a] + 1]
      BY <1>1, <2>2 DEF AppendItem
    <3>2. QED
      BY <3>1 DEF ThreadTyped
  <2>3. QED
    BY <2>1, <2>2
<1>6. tpc' \in [ThreadAsk -> Busy \cup {"idle", "found", "answered", "failed", "gone"}]
  BY DEF AppendItem, At, ThreadTyped, Busy
<1>7. UNCHANGED <<registry, created, waiting, ask, asked, replies>>
  BY DEF AppendItem
<1>8. QED
  BY <1>4, <1>5, <1>6, <1>7 DEF ThreadTyped

LEMMA TypedDispatch ==
  ASSUME ThreadTyped, Sited, NEW a \in ThreadAsk, Dispatch(a)
  PROVE  ThreadTyped'
<1>1. PICK s : s = ask[a].session
  OBVIOUS
<1>2. s \in Thread
  BY <1>1, AskOnThread DEF Dispatch, At
<1>3. response_create_frame(s) \in Reference
  <2>1. ToSet(far[s].items) \subseteq Item
    BY <1>2, SessionIs DEF ToSet
  <2>2. far[s] \in FarEnd /\ Log(s) \in Seq(Item)
    BY <1>2, SessionIs
  <2>3. QED
    BY <2>1, <2>2 DEF response_create_frame, Reference, FarEnd
<1>4. asked' \in [ThreadAsk -> SUBSET Reference]
  <2>1. asked' = [asked EXCEPT ![a] = {response_create_frame(s)}]
    BY <1>1 DEF Dispatch
  <2>2. QED
    BY <1>3, <2>1 DEF ThreadTyped
<1>5. far' \in [Thread -> FarEnd]
  <2>1. far' = [far EXCEPT ![s] = [far[s] EXCEPT !.owed = IF far[s].open THEN far[s].owed \cup {a} ELSE far[s].owed]]
    BY <1>1 DEF Dispatch
  <2>2. [far[s] EXCEPT !.owed = IF far[s].open THEN far[s].owed \cup {a} ELSE far[s].owed] \in FarEnd
    BY <1>2, SessionIs DEF FarEnd
  <2>3. QED
    BY <2>1, <2>2 DEF ThreadTyped
<1>6. tpc' \in [ThreadAsk -> Busy \cup {"idle", "found", "answered", "failed", "gone"}]
  BY DEF Dispatch, At, ThreadTyped, Busy
<1>7. UNCHANGED <<registry, created, thread, waiting, ask, sent, replies>>
  BY DEF Dispatch
<1>8. QED
  BY <1>4, <1>5, <1>6, <1>7 DEF ThreadTyped

LEMMA TypedRunAsk ==
  ASSUME ThreadTyped, Sited, NEW a \in ThreadAsk, RunAsk(a)
  PROVE  ThreadTyped'
<1>1. PICK s : s = ask[a].session
  OBVIOUS
<1>2. PICK r \in far[s].owed \ {Refusal} :
        /\ At(a, "read", "answered") /\ Release(a)
        /\ replies' = [replies EXCEPT ![a] = {r}]
        /\ far' = [far EXCEPT ![s].owed = @ \ {r}]
  BY <1>1 DEF RunAsk
<1>3. s \in Thread
  BY <1>1, <1>2, AskOnThread DEF At
<1>4. r \in ThreadAsk \cup {Refusal}
  BY <1>3, SessionIs
<1>5. far' \in [Thread -> FarEnd]
  <2>1. far' = [far EXCEPT ![s] = [far[s] EXCEPT !.owed = far[s].owed \ {r}]]
    BY <1>2
  <2>2. [far[s] EXCEPT !.owed = far[s].owed \ {r}] \in FarEnd
    BY <1>3, SessionIs DEF FarEnd
  <2>3. QED
    BY <2>1, <2>2 DEF ThreadTyped
<1>6. replies' \in [ThreadAsk -> SUBSET (ThreadAsk \cup {Refusal})]
  BY <1>2, <1>4 DEF ThreadTyped
<1>7. tpc' \in [ThreadAsk -> Busy \cup {"idle", "found", "answered", "failed", "gone"}]
  BY <1>2 DEF At, ThreadTyped
<1>8. waiting' \in [Thread -> Seq(ThreadAsk)]
  BY <1>2, ReleaseTyped
<1>9. UNCHANGED <<registry, created, thread, ask, sent, asked>>
  BY DEF RunAsk
<1>10. QED
  BY <1>5, <1>6, <1>7, <1>8, <1>9 DEF ThreadTyped

LEMMA TypedEnds ==
  ASSUME ThreadTyped, Sited, NEW a \in ThreadAsk, AskFails(a) \/ Abandon(a)
  PROVE  ThreadTyped'
<1>1. CASE AskFails(a)
  <2>1. PICK s : s = ask[a].session
    OBVIOUS
  <2>2. /\ thread' = [thread EXCEPT ![s] = [thread[s] EXCEPT !.live = FALSE]]
        /\ far' = [far EXCEPT ![s] = NoFarEnd] /\ sent' = [sent EXCEPT ![a] = 0]
        /\ UNCHANGED <<registry, created, ask, asked, replies>> /\ Release(a)
    BY <1>1, <2>1 DEF AskFails, Fails, Set
  <2>3. [z \in Thread |-> [thread[z] EXCEPT !.live = FALSE]] \in [Thread -> Logged]
    BY DEF ThreadTyped, Logged
  <2>4. thread' \in [Thread -> Logged]
    BY <2>2, <2>3 DEF ThreadTyped
  <2>5. tpc' \in [ThreadAsk -> Busy \cup {"idle", "found", "answered", "failed", "gone"}]
    BY <1>1 DEF AskFails, At, ThreadTyped
  <2>6. QED
    BY <2>2, <2>4, <2>5, ReleaseTyped, FreshTyped DEF ThreadTyped
<1>2. CASE Abandon(a)
  <2>1. tpc' \in [ThreadAsk -> Busy \cup {"idle", "found", "answered", "failed", "gone"}]
    BY <1>2 DEF Abandon, At, ThreadTyped
  <2>2. UNCHANGED <<registry, created, thread, far, ask, sent, asked, replies>> /\ Release(a)
    BY <1>2 DEF Abandon
  <2>3. QED
    BY <2>1, <2>2, ReleaseTyped DEF ThreadTyped
<1>3. QED
  BY <1>1, <1>2

LEMMA TypedLose ==
  ASSUME ThreadTyped, NEW s \in Thread, Lose(s)
  PROVE  ThreadTyped'
<1>1. UNCHANGED <<registry, created, thread, waiting, tpc, ask, sent, asked, replies>>
  BY DEF Lose
<1>2. \/ far' = [far EXCEPT ![s] = [far[s] EXCEPT !.open = FALSE, !.owed = {}]]
      \/ far' = [far EXCEPT ![s] = [far[s] EXCEPT !.aged = TRUE]]
  BY DEF Lose
<1>3. [far[s] EXCEPT !.open = FALSE, !.owed = {}] \in FarEnd /\ [far[s] EXCEPT !.aged = TRUE] \in FarEnd
  BY SessionIs DEF FarEnd
<1>4. QED
  BY <1>1, <1>2, <1>3 DEF ThreadTyped

-----------------------------------------------------------------------------
(* The mutex *)

LEMMA HeadWorks ==
  ASSUME ThreadTyped, Sited, InLine, NEW a \in ThreadAsk, NEW b \in ThreadAsk,
         tpc[b] \in Working, ask[a].session = ask[b].session,
         tpc[a] \in Working \/ (tpc[a] = "queued" /\ Head(waiting[ask[a].session]) = a)
  PROVE  a = b
BY DEF InLine

LEMMA LineInit == ThreadInit => InLine
BY DEF ThreadInit, InLine, Busy, Working

LEMMA LineMoved ==
  ASSUME ThreadTyped, Sited, InLine, NEW a \in ThreadAsk, NEW v,
         tpc' = [tpc EXCEPT ![a] = v] \/ UNCHANGED tpc, UNCHANGED <<waiting, ask>>,
         v \notin Busy \/ tpc[a] \in Working \/ (tpc[a] = "queued" /\ Head(waiting[ask[a].session]) = a)
  PROVE  InLine'
<1>1. ASSUME NEW b \in ThreadAsk
      PROVE  /\ tpc'[b] \in Busy => InQueue(waiting[ask[b].session], b)
             /\ tpc'[b] \in Working => Head(waiting[ask[b].session]) = b
  <2>1. CASE tpc'[b] = tpc[b]
    BY <2>1 DEF InLine
  <2>2. CASE tpc'[b] # tpc[b]
    <3>1. b = a /\ tpc'[a] = v
      BY <2>2 DEF ThreadTyped
    <3>2. v \notin Busy \/ (tpc[a] \in Busy /\ Head(waiting[ask[a].session]) = a)
      BY DEF InLine, Working, Busy
    <3>3. tpc[a] \in Busy => InQueue(waiting[ask[a].session], a)
      BY DEF InLine
    <3>4. v \in Working => v \in Busy
      BY DEF Working
    <3>5. QED
      BY <3>1, <3>2, <3>3, <3>4
  <2>3. QED
    BY <2>1, <2>2
<1>2. QED
  BY <1>1 DEF InLine

LEMMA LineFor ==
  ASSUME ThreadTyped, Sited, InLine, NEW a \in ThreadAsk, SessionFor(a)
  PROVE  InLine'
<1>1. tpc[a] = "idle" /\ tpc' = [tpc EXCEPT ![a] = "found"] /\ UNCHANGED waiting
  BY DEF SessionFor, At
<1>2. \A b \in ThreadAsk : b # a => ask'[b] = ask[b]
  BY DEF SessionFor, ThreadTyped
<1>3. ASSUME NEW b \in ThreadAsk
      PROVE  /\ tpc'[b] \in Busy => InQueue(waiting[ask'[b].session], b)
             /\ tpc'[b] \in Working => Head(waiting[ask'[b].session]) = b
  <2>1. CASE b = a
    BY <1>1, <2>1 DEF ThreadTyped, Busy, Working
  <2>2. CASE b # a
    BY <1>1, <1>2, <2>2 DEF ThreadTyped, InLine
  <2>3. QED
    BY <2>1, <2>2
<1>4. QED
  BY <1>1, <1>3 DEF InLine

LEMMA LineTouch ==
  ASSUME ThreadTyped, Sited, InLine, NEW a \in ThreadAsk, Touch(a)
  PROVE  InLine'
<1>1. PICK s : s = ask[a].session
  OBVIOUS
<1>2. /\ tpc[a] = "found" /\ tpc' = [tpc EXCEPT ![a] = "queued"] /\ UNCHANGED ask
      /\ waiting' = [waiting EXCEPT ![s] = Append(waiting[s], a)]
  BY <1>1 DEF Touch, At
<1>3. s \in Thread /\ waiting[s] \in Seq(ThreadAsk)
  BY <1>1, <1>2, AskOnThread DEF ThreadTyped
<1>4. /\ InQueue(Append(waiting[s], a), a)
      /\ \A v : InQueue(waiting[s], v) => InQueue(Append(waiting[s], a), v)
      /\ waiting[s] # <<>> => Head(Append(waiting[s], a)) = Head(waiting[s])
  BY <1>3, Joins
<1>5. waiting'[s] = Append(waiting[s], a) /\ \A z : z # s => waiting'[z] = waiting[z]
  BY <1>2, <1>3 DEF ThreadTyped
<1>6. ASSUME NEW b \in ThreadAsk
      PROVE  /\ tpc'[b] \in Busy => InQueue(waiting'[ask[b].session], b)
             /\ tpc'[b] \in Working => Head(waiting'[ask[b].session]) = b
  <2>1. CASE b = a
    <3>1. tpc'[b] = "queued"
      BY <1>2, <2>1 DEF ThreadTyped
    <3>2. QED
      BY <1>1, <1>4, <1>5, <2>1, <3>1 DEF Working
  <2>2. CASE b # a
    <3>1. tpc'[b] = tpc[b]
      BY <1>2, <2>2 DEF ThreadTyped
    <3>2. /\ tpc[b] \in Busy => InQueue(waiting[ask[b].session], b)
          /\ tpc[b] \in Working => Head(waiting[ask[b].session]) = b
      BY DEF InLine
    <3>3. CASE ask[b].session # s
      BY <1>5, <3>1, <3>2, <3>3
    <3>4. CASE ask[b].session = s
      <4>1. tpc[b] \in Busy => waiting[s] # <<>>
        BY <1>3, <3>2, <3>4, HeadIs
      <4>2. tpc[b] \in Working => tpc[b] \in Busy
        BY DEF Working
      <4>3. QED
        BY <1>4, <1>5, <3>1, <3>2, <3>4, <4>1, <4>2
    <3>5. QED
      BY <3>3, <3>4
  <2>3. QED
    BY <2>1, <2>2
<1>7. QED
  BY <1>2, <1>6 DEF InLine

LEMMA LineLeft ==
  ASSUME ThreadTyped, Sited, InLine, NEW a \in ThreadAsk, NEW v, v \notin Busy,
         tpc' = [tpc EXCEPT ![a] = v], Release(a), UNCHANGED ask
  PROVE  InLine'
<1>1. ASSUME NEW b \in ThreadAsk
      PROVE  /\ tpc'[b] \in Busy => InQueue(waiting'[ask[b].session], b)
             /\ tpc'[b] \in Working => Head(waiting'[ask[b].session]) = b
  <2>1. CASE b = a
    <3>1. tpc'[b] = v /\ v \notin Working
      BY <2>1 DEF ThreadTyped, Working
    <3>2. QED
      BY <3>1
  <2>2. CASE b # a /\ tpc[b] \in Busy
    <3>1. tpc'[b] = tpc[b]
      BY <2>2 DEF ThreadTyped
    <3>2. PICK z : z = ask[b].session
      OBVIOUS
    <3>3. z \in Thread
      BY <2>2, <3>2, AskOnThread DEF Busy
    <3>4. PICK q : q = waiting[z]
      OBVIOUS
    <3>5. q \in Seq(ThreadAsk) /\ InQueue(q, b) /\ (tpc[b] \in Working => Head(q) = b)
      BY <2>2, <3>2, <3>3, <3>4 DEF ThreadTyped, InLine
    <3>6. q # <<>>
      BY <3>5, HeadIs
    <3>7. InQueue(RemoveFirst(q, a), b) /\ (tpc[b] \in Working => Head(RemoveFirst(q, a)) = b)
      BY <2>2, <3>5, <3>6, Leaves
    <3>8. waiting'[z] = RemoveFirst(q, a)
      BY <3>3, <3>4 DEF Release
    <3>9. QED
      BY <3>1, <3>2, <3>7, <3>8
  <2>3. CASE b # a /\ tpc[b] \notin Busy
    BY <2>3 DEF ThreadTyped, Working
  <2>4. QED
    BY <2>1, <2>2, <2>3
<1>2. QED
  BY <1>1 DEF InLine

-----------------------------------------------------------------------------
(* Log and window *)

LEMMA WindowedInit == ThreadInit => Windowed
BY DEF ThreadInit, Windowed, Window

Heads(a) == tpc[a] \in Working \/ (tpc[a] = "queued" /\ Head(waiting[ask[a].session]) = a)

\* A step changes the log of its own session only, where nobody else works.
LEMMA WindowOther ==
  ASSUME ThreadTyped, Sited, InLine, Windowed, NEW a \in ThreadAsk, NEW v,
         tpc' = [tpc EXCEPT ![a] = v] \/ UNCHANGED tpc, UNCHANGED ask,
         \A b \in ThreadAsk : b # a => sent'[b] = sent[b],
         UNCHANGED thread \/ (Heads(a) /\ \A z \in Thread : z # ask[a].session => thread'[z] = thread[z]),
         NEW b \in ThreadAsk, b # a
  PROVE  Window(b)'
<1>1. tpc'[b] = tpc[b] /\ sent'[b] = sent[b]
  BY DEF ThreadTyped
<1>2. Window(b)
  BY DEF Windowed
<1>3. CASE thread'[ask[b].session] = thread[ask[b].session]
  BY <1>1, <1>2, <1>3 DEF Window
<1>4. CASE thread'[ask[b].session] # thread[ask[b].session]
  <2>1. tpc[b] \notin Working
    <3>1. SUFFICES ASSUME tpc[b] \in Working PROVE FALSE
      OBVIOUS
    <3>2. ask[b].session \in Thread
      BY <3>1, AskOnThread DEF Working, Busy
    <3>3. ask[b].session = ask[a].session /\ Heads(a)
      BY <1>4, <3>2
    <3>4. QED
      BY <3>1, <3>3, HeadWorks DEF Heads
  <2>2. tpc[b] \notin {"connect", "append", "dispatch"}
    BY <2>1 DEF Working, Busy
  <2>3. QED
    BY <1>1, <1>2, <2>2 DEF Window
<1>5. QED
  BY <1>3, <1>4

LEMMA WindowedMoved ==
  ASSUME ThreadTyped, Sited, InLine, Windowed, NEW a \in ThreadAsk, NEW v,
         tpc' = [tpc EXCEPT ![a] = v] \/ UNCHANGED tpc, UNCHANGED ask,
         \A b \in ThreadAsk : b # a => sent'[b] = sent[b],
         UNCHANGED thread \/ (Heads(a) /\ \A z \in Thread : z # ask[a].session => thread'[z] = thread[z]),
         Window(a)'
  PROVE  Windowed'
<1>1. ASSUME NEW b \in ThreadAsk PROVE Window(b)'
  BY WindowOther
<1>2. QED
  BY <1>1 DEF Windowed

\* An ask that does not work on the log has nothing to say of it.
LEMMA WindowRest ==
  ASSUME ThreadTyped, Sited, InLine, Windowed, NEW a \in ThreadAsk, NEW v,
         tpc' = [tpc EXCEPT ![a] = v], UNCHANGED ask,
         \A b \in ThreadAsk : b # a => sent'[b] = sent[b],
         v \notin {"connect", "append", "dispatch"}, v = "gone" \/ sent'[a] = 0,
         UNCHANGED thread \/ (Heads(a) /\ \A z \in Thread : z # ask[a].session => thread'[z] = thread[z])
  PROVE  Windowed'
<1>1. tpc'[a] = v
  BY DEF ThreadTyped
<1>2. Window(a)'
  BY <1>1 DEF Window
<1>3. QED
  BY <1>2, WindowedMoved

LEMMA WindowedFor ==
  ASSUME ThreadTyped, Sited, InLine, Windowed, NEW a \in ThreadAsk, SessionFor(a)
  PROVE  Windowed'
<1>1. tpc[a] = "idle" /\ tpc' = [tpc EXCEPT ![a] = "found"] /\ UNCHANGED <<thread, sent>>
  BY DEF SessionFor, At
<1>2. \A b \in ThreadAsk : b # a => ask'[b] = ask[b]
  BY DEF SessionFor, ThreadTyped
<1>3. ASSUME NEW b \in ThreadAsk PROVE Window(b)'
  <2>1. Window(b)
    BY DEF Windowed
  <2>2. CASE b = a
    <3>1. tpc'[b] = "found" /\ sent'[b] = 0
      BY <1>1, <2>1, <2>2 DEF ThreadTyped, Window
    <3>2. QED
      BY <3>1 DEF Window
  <2>3. CASE b # a
    <3>1. tpc'[b] = tpc[b] /\ ask'[b] = ask[b] /\ sent'[b] = sent[b] /\ thread' = thread
      BY <1>1, <1>2, <2>3 DEF ThreadTyped
    <3>2. QED
      BY <2>1, <3>1 DEF Window
  <2>4. QED
    BY <2>2, <2>3
<1>4. QED
  BY <1>3 DEF Windowed

LEMMA PrefixIs ==
  ASSUME NEW U, NEW p \in Seq(U), NEW q \in Seq(U), IsPrefix(p, q)
  PROVE  /\ Len(p) <= Len(q) /\ p = SubSeq(q, 1, Len(p))
         /\ Len(p) = Len(q) => p = q
<1>1. Len(p) <= Len(q) /\ SubSeq(p, 1, Len(p)) = SubSeq(q, 1, Len(p))
  BY DEF IsPrefix
<1>2. \A r \in Seq(U) : SubSeq(r, 1, Len(r)) = r
  OBVIOUS
<1>3. QED
  BY <1>1, <1>2

LEMMA WindowBegin ==
  ASSUME ThreadTyped, Sited, InLine, Windowed, NEW a \in ThreadAsk, Begin(a)
  PROVE  Windowed'
<1>1. PICK s : s = ask[a].session
  OBVIOUS
<1>2. /\ tpc[a] = "queued" /\ Head(waiting[s]) = a /\ UNCHANGED <<sent, ask>>
      /\ \/ /\ NeedsReset(s, a) /\ tpc' = [tpc EXCEPT ![a] = "connect"]
            /\ thread' = [thread EXCEPT ![s] = [thread[s] EXCEPT !.live = FALSE, !.appended_ids = <<>>]]
         \/ /\ ~NeedsReset(s, a) /\ tpc' = [tpc EXCEPT ![a] = AfterLog(a, Len(Log(s)))]
            /\ UNCHANGED thread
  BY <1>1 DEF Begin, At, Set
<1>3. s \in Thread /\ sent[a] = 0
  BY <1>1, <1>2, AskOnThread DEF Windowed, Window
<1>4. Heads(a)
  BY <1>1, <1>2 DEF Heads
<1>5. CASE NeedsReset(s, a)
  <2>1. tpc' = [tpc EXCEPT ![a] = "connect"] /\ sent'[a] = 0
        /\ thread' = [thread EXCEPT ![s] = [thread[s] EXCEPT !.live = FALSE, !.appended_ids = <<>>]]
    BY <1>2, <1>3, <1>5
  <2>2. tpc'[a] = "connect"
    BY <2>1 DEF ThreadTyped
  <2>3. ~thread'[s].live /\ thread'[s].appended_ids = <<>>
    BY <1>3, <2>1 DEF ThreadTyped, Logged
  <2>4. Window(a)'
    BY <1>1, <1>2, <2>1, <2>2, <2>3 DEF Window
  <2>5. \A z \in Thread : z # s => thread'[z] = thread[z]
    BY <2>1 DEF ThreadTyped
  <2>6. QED
    BY <1>1, <1>2, <1>4, <2>1, <2>4, <2>5, WindowedMoved
<1>6. CASE ~NeedsReset(s, a)
  <2>1. tpc' = [tpc EXCEPT ![a] = AfterLog(a, Len(Log(s)))] /\ UNCHANGED thread
    BY <1>2, <1>6
  <2>2. tpc'[a] = AfterLog(a, Len(Log(s))) /\ sent'[a] = 0
    BY <1>2, <1>3, <2>1 DEF ThreadTyped
  <2>3. thread[s].live /\ thread[s].config_hash = ask[a].config /\ IsPrefix(Log(s), ask[a].items)
    BY <1>6 DEF NeedsReset, ids_extend
  <2>4. /\ Len(Log(s)) <= Len(ask[a].items) /\ Log(s) = SubSeq(ask[a].items, 1, Len(Log(s)))
        /\ Len(Log(s)) = Len(ask[a].items) => Log(s) = ask[a].items
    BY <1>3, <2>3, AskIs, SessionIs, PrefixIs
  <2>5. Len(Log(s)) \in Nat /\ Len(ask[a].items) \in Nat
    BY <1>3, AskIs, SessionIs
  <2>6. Window(a)'
    <3>1. CASE Len(Log(s)) = Len(ask[a].items)
      <4>1. tpc'[a] = "dispatch"
        BY <2>2, <3>1 DEF AfterLog
      <4>2. QED
        BY <1>1, <1>2, <2>1, <2>2, <2>3, <2>4, <3>1, <4>1 DEF Window, Log
    <3>2. CASE Len(Log(s)) # Len(ask[a].items)
      <4>1. tpc'[a] = "append"
        BY <2>2, <3>2 DEF AfterLog
      <4>2. Len(Log(s)) + 0 < Len(ask[a].items)
        BY <2>4, <2>5, <3>2
      <4>3. QED
        BY <1>1, <1>2, <2>1, <2>2, <2>3, <2>4, <4>1, <4>2 DEF Window, Log
    <3>3. QED
      BY <3>1, <3>2
  <2>7. QED
    BY <1>2, <2>1, <2>6, WindowedMoved
<1>7. QED
  BY <1>5, <1>6

LEMMA WindowConnect ==
  ASSUME ThreadTyped, Sited, InLine, Windowed, NEW a \in ThreadAsk, Connect(a)
  PROVE  Windowed'
<1>1. PICK s : s = ask[a].session
  OBVIOUS
<1>2. /\ tpc[a] = "connect" /\ tpc' = [tpc EXCEPT ![a] = AfterLog(a, 0)] /\ UNCHANGED <<sent, ask>>
      /\ thread' = [thread EXCEPT ![s] = [thread[s] EXCEPT !.live = TRUE, !.config_hash = ask[a].config]]
  BY <1>1 DEF Connect, At, Set
<1>3. s \in Thread /\ sent[a] = 0 /\ thread[s].appended_ids = <<>>
  BY <1>1, <1>2, AskOnThread DEF Windowed, Window
<1>4. Heads(a)
  BY <1>2 DEF Heads, Working, Busy
<1>5. thread'[s].live /\ thread'[s].config_hash = ask[a].config /\ thread'[s].appended_ids = <<>>
  BY <1>2, <1>3 DEF ThreadTyped, Logged
<1>6. tpc'[a] = AfterLog(a, 0) /\ sent'[a] = 0
  BY <1>2, <1>3 DEF ThreadTyped
<1>7. ask[a].items \in Seq(Item) /\ Len(ask[a].items) \in Nat
  BY AskIs
<1>8. SubSeq(ask[a].items, 1, 0) = <<>> /\ (Len(ask[a].items) = 0 => ask[a].items = <<>>) /\ Len(<<>>) = 0
  BY <1>7
<1>9. Window(a)'
  <2>1. CASE Len(ask[a].items) = 0
    <3>1. tpc'[a] = "dispatch"
      BY <1>6, <2>1 DEF AfterLog
    <3>2. QED
      BY <1>1, <1>2, <1>5, <1>6, <1>8, <2>1, <3>1 DEF Window
  <2>2. CASE Len(ask[a].items) # 0
    <3>1. tpc'[a] = "append"
      BY <1>6, <2>2 DEF AfterLog
    <3>2. Len(<<>>) + 0 < Len(ask[a].items)
      BY <1>7, <1>8, <2>2
    <3>3. QED
      BY <1>1, <1>2, <1>5, <1>6, <1>8, <3>1, <3>2 DEF Window
  <2>3. QED
    BY <2>1, <2>2
<1>10. \A z \in Thread : z # s => thread'[z] = thread[z]
  BY <1>2 DEF ThreadTyped
<1>11. QED
  BY <1>1, <1>2, <1>4, <1>9, <1>10, WindowedMoved

LEMMA WindowAppend ==
  ASSUME ThreadTyped, Sited, InLine, Windowed, NEW a \in ThreadAsk, AppendItem(a)
  PROVE  Windowed'
<1>1. PICK s, n : s = ask[a].session /\ n = Len(Log(s)) + sent[a] + 1
  OBVIOUS
<1>2. /\ tpc[a] = "append" /\ UNCHANGED ask
      /\ \/ /\ n = Len(ask[a].items) /\ tpc' = [tpc EXCEPT ![a] = "dispatch"]
            /\ thread' = [thread EXCEPT ![s] = [thread[s] EXCEPT !.appended_ids = ask[a].items]]
            /\ sent' = [sent EXCEPT ![a] = 0]
         \/ /\ n # Len(ask[a].items) /\ sent' = [sent EXCEPT ![a] = sent[a] + 1]
            /\ UNCHANGED <<thread, tpc>>
  BY <1>1 DEF AppendItem, At, Set
<1>3. s \in Thread /\ n \in 1..Len(ask[a].items)
  BY <1>1, <1>2, NextItem
<1>4. Heads(a)
  BY <1>2 DEF Heads, Working, Busy
<1>5. Window(a)
  BY DEF Windowed
<1>6. CASE n = Len(ask[a].items)
  <2>1. /\ tpc' = [tpc EXCEPT ![a] = "dispatch"] /\ sent' = [sent EXCEPT ![a] = 0]
        /\ thread' = [thread EXCEPT ![s] = [thread[s] EXCEPT !.appended_ids = ask[a].items]]
    BY <1>2, <1>6
  <2>2. tpc'[a] = "dispatch" /\ sent'[a] = 0 /\ \A b \in ThreadAsk : b # a => sent'[b] = sent[b]
    BY <2>1 DEF ThreadTyped
  <2>3. thread'[s].live = thread[s].live /\ thread'[s].config_hash = thread[s].config_hash
        /\ thread'[s].appended_ids = ask[a].items
    BY <1>3, <2>1 DEF ThreadTyped, Logged
  <2>4. Window(a)'
    BY <1>1, <1>2, <1>5, <2>2, <2>3 DEF Window
  <2>5. \A z \in Thread : z # s => thread'[z] = thread[z]
    BY <2>1 DEF ThreadTyped
  <2>6. QED
    BY <1>1, <1>2, <1>4, <2>1, <2>2, <2>4, <2>5, WindowedMoved
<1>7. CASE n # Len(ask[a].items)
  <2>1. sent' = [sent EXCEPT ![a] = sent[a] + 1] /\ UNCHANGED <<thread, tpc>>
    BY <1>2, <1>7
  <2>2. sent'[a] = sent[a] + 1 /\ \A b \in ThreadAsk : b # a => sent'[b] = sent[b]
    BY <2>1 DEF ThreadTyped
  <2>3. Len(Log(s)) + (sent[a] + 1) < Len(ask[a].items)
    BY <1>1, <1>3, <1>7, AskIs, SessionIs
  <2>4. Window(a)'
    BY <1>1, <1>2, <1>5, <2>1, <2>2, <2>3 DEF Window, Log
  <2>5. QED
    BY <1>2, <2>1, <2>2, <2>4, WindowedMoved
<1>8. QED
  BY <1>6, <1>7

-----------------------------------------------------------------------------
(* Desertion, and whose responses are owed *)

LEMMA DesertedKept ==
  ASSUME ThreadTyped, NEW a \in ThreadAsk, NEW v, tpc[a] # "gone",
         tpc' = [tpc EXCEPT ![a] = v] \/ UNCHANGED tpc, UNCHANGED ask
  PROVE  \A s : /\ Deserted(s) \subseteq Deserted(s)'
                /\ v # "gone" \/ s # ask[a].session => Deserted(s)' = Deserted(s)
<1>1. \A b \in ThreadAsk : b # a => tpc'[b] = tpc[b]
  BY DEF ThreadTyped
<1>2. tpc'[a] = tpc[a] \/ tpc'[a] = v
  BY DEF ThreadTyped
<1>3. QED
  BY <1>1, <1>2, Zenon DEF Deserted

LEMMA DesertedFor ==
  ASSUME ThreadTyped, NEW a \in ThreadAsk, SessionFor(a)
  PROVE  \A s : Deserted(s)' = Deserted(s)
<1>1. tpc[a] = "idle" /\ tpc' = [tpc EXCEPT ![a] = "found"]
  BY DEF SessionFor, At
<1>2. \A b \in ThreadAsk : b # a => ask'[b] = ask[b] /\ tpc'[b] = tpc[b]
  BY <1>1 DEF SessionFor, ThreadTyped
<1>3. tpc[a] # "gone" /\ tpc'[a] # "gone"
  BY <1>1 DEF ThreadTyped
<1>4. QED
  BY <1>2, <1>3, Zenon DEF Deserted

LEMMA OwingInit == ThreadInit => Owing
BY DEF ThreadInit, Owing, NoFarEnd

LEMMA OwingFor ==
  ASSUME ThreadTyped, Owing, NEW a \in ThreadAsk, SessionFor(a)
  PROVE  Owing'
<1>1. tpc[a] = "idle" /\ tpc' = [tpc EXCEPT ![a] = "found"] /\ UNCHANGED far
  BY DEF SessionFor, At
<1>2. \A b \in ThreadAsk : b # a => ask'[b] = ask[b] /\ tpc'[b] = tpc[b]
  BY <1>1 DEF SessionFor, ThreadTyped
<1>3. ASSUME NEW s \in Thread, Deserted(s)' = {}, NEW b \in far'[s].owed \ {Refusal}
      PROVE  tpc'[b] = "read" /\ ask'[b].session = s
  <2>1. tpc[b] = "read" /\ ask[b].session = s
    BY <1>1, <1>3, DesertedFor DEF Owing
  <2>2. b \in ThreadAsk /\ b # a
    BY <1>1, <1>3, <2>1, SessionIs
  <2>3. QED
    BY <1>2, <2>1, <2>2
<1>4. QED
  BY <1>3 DEF Owing

LEMMA OwingMoved ==
  ASSUME ThreadTyped, Owing, NEW a \in ThreadAsk, NEW v, tpc[a] # "gone",
         tpc' = [tpc EXCEPT ![a] = v] \/ (UNCHANGED tpc /\ tpc[a] # "read"), UNCHANGED ask,
         \A s \in Thread : far'[s].owed \ {Refusal} \subseteq far[s].owed,
         \/ tpc[a] # "read" \/ v = "gone"
         \/ Deserted(ask[a].session) # {} \/ a \notin far'[ask[a].session].owed
  PROVE  Owing'
<1>1. ASSUME NEW s \in Thread, Deserted(s)' = {}, NEW b \in far'[s].owed \ {Refusal}
      PROVE  tpc'[b] = "read" /\ ask'[b].session = s
  <2>1. Deserted(s) = {}
    BY <1>1, DesertedKept
  <2>2. b \in far[s].owed \ {Refusal}
    BY <1>1
  <2>3. tpc[b] = "read" /\ ask[b].session = s /\ b \in ThreadAsk
    BY <2>1, <2>2, SessionIs DEF Owing
  <2>4. CASE b # a
    BY <2>3, <2>4 DEF ThreadTyped
  <2>5. CASE b = a
    <3>1. v = "gone" /\ tpc' = [tpc EXCEPT ![a] = v]
      BY <1>1, <2>1, <2>3, <2>5
    <3>2. tpc'[a] = "gone"
      BY <3>1 DEF ThreadTyped
    <3>3. a \in Deserted(s)'
      BY <2>3, <2>5, <3>2 DEF Deserted
    <3>4. QED
      BY <1>1, <3>3
  <2>6. QED
    BY <2>4, <2>5
<1>2. QED
  BY <1>1 DEF Owing

LEMMA OwingDispatch ==
  ASSUME ThreadTyped, Sited, Owing, NEW a \in ThreadAsk, Dispatch(a)
  PROVE  Owing'
<1>1. PICK s : s = ask[a].session
  OBVIOUS
<1>2. /\ tpc[a] = "dispatch" /\ tpc' = [tpc EXCEPT ![a] = "read"] /\ UNCHANGED ask
      /\ far' = [far EXCEPT ![s] = [far[s] EXCEPT !.owed = IF far[s].open THEN far[s].owed \cup {a} ELSE far[s].owed]]
  BY <1>1 DEF Dispatch, At
<1>3. s \in Thread
  BY <1>1, <1>2, AskOnThread
<1>4. /\ far'[s].owed \subseteq far[s].owed \cup {a}
      /\ \A z \in Thread : z # s => far'[z] = far[z]
  BY <1>2, <1>3 DEF ThreadTyped, FarEnd
<1>5. ASSUME NEW z \in Thread, Deserted(z)' = {}, NEW b \in far'[z].owed \ {Refusal}
      PROVE  tpc'[b] = "read" /\ ask'[b].session = z
  <2>1. Deserted(z) = {}
    BY <1>2, <1>5, DesertedKept
  <2>2. CASE b = a /\ z = s
    BY <1>1, <1>2, <2>2 DEF ThreadTyped
  <2>3. CASE b \in far[z].owed
    <3>1. tpc[b] = "read" /\ ask[b].session = z /\ b \in ThreadAsk
      BY <1>5, <2>1, <2>3, SessionIs DEF Owing
    <3>2. b # a
      BY <1>2, <3>1
    <3>3. QED
      BY <1>2, <3>1, <3>2 DEF ThreadTyped
  <2>4. QED
    BY <1>4, <1>5, <2>2, <2>3
<1>6. QED
  BY <1>5 DEF Owing

\* An ask reads its own response while nobody is gone.
LEMMA ReadsOwn ==
  ASSUME ThreadTyped, Sited, InLine, Owing, NEW a \in ThreadAsk, tpc[a] = "read",
         Deserted(ask[a].session) = {}, NEW r \in far[ask[a].session].owed \ {Refusal}
  PROVE  r = a
<1>1. ask[a].session \in Thread
  BY AskOnThread
<1>2. tpc[r] = "read" /\ ask[r].session = ask[a].session /\ r \in ThreadAsk
  BY <1>1, SessionIs DEF Owing
<1>3. QED
  BY <1>2, HeadWorks DEF Working, Busy

LEMMA OwingRunAsk ==
  ASSUME ThreadTyped, Sited, InLine, Owing, NEW a \in ThreadAsk, RunAsk(a)
  PROVE  Owing'
<1>1. PICK s : s = ask[a].session
  OBVIOUS
<1>2. PICK r \in far[s].owed \ {Refusal} :
        At(a, "read", "answered") /\ far' = [far EXCEPT ![s].owed = @ \ {r}]
  BY <1>1 DEF RunAsk
<1>3. /\ tpc[a] = "read" /\ tpc' = [tpc EXCEPT ![a] = "answered"] /\ UNCHANGED ask
      /\ far' = [far EXCEPT ![s] = [far[s] EXCEPT !.owed = far[s].owed \ {r}]]
  BY <1>2 DEF At, RunAsk
<1>4. s \in Thread
  BY <1>1, <1>3, AskOnThread
<1>5. far'[s].owed = far[s].owed \ {r} /\ \A z \in Thread : z # s => far'[z] = far[z]
  BY <1>3, <1>4 DEF ThreadTyped, FarEnd
<1>6. Deserted(s) = {} => r = a
  BY <1>1, <1>2, <1>3, ReadsOwn
<1>7. Deserted(s) # {} \/ a \notin far'[s].owed
  BY <1>5, <1>6
<1>8. \A z \in Thread : far'[z].owed \ {Refusal} \subseteq far[z].owed
  BY <1>5
<1>9. QED
  BY <1>1, <1>3, <1>7, <1>8, OwingMoved

\* Whatever is done to the socket of a's session that adds no response.
LEMMA OwingElse ==
  ASSUME ThreadTyped, Sited, Owing, NEW a \in ThreadAsk,
         Touch(a) \/ Begin(a) \/ Connect(a) \/ Abandon(a)
  PROVE  Owing'
<1>1. UNCHANGED ask
  BY DEF Touch, Begin, Connect, Abandon
<1>2. tpc[a] # "gone" /\ \E v : tpc' = [tpc EXCEPT ![a] = v] /\ (tpc[a] # "read" \/ v = "gone")
  BY DEF Touch, Begin, Connect, Abandon, At, Busy
<1>3. UNCHANGED far \/ \E end : far' = [far EXCEPT ![ask[a].session] = end] /\ end.owed = {}
  <2>1. NoFarEnd.owed = {} /\ [NoFarEnd EXCEPT !.open = TRUE, !.config = ask[a].config].owed = {}
    BY DEF NoFarEnd
  <2>2. QED
    BY <2>1 DEF Touch, Begin, Connect, Abandon
<1>4. \A z \in Thread : far'[z].owed \ {Refusal} \subseteq far[z].owed
  BY <1>3 DEF ThreadTyped
<1>5. QED
  BY <1>1, <1>2, <1>4, OwingMoved

LEMMA OwingAppend ==
  ASSUME ThreadTyped, Sited, Owing, NEW a \in ThreadAsk, AppendItem(a)
  PROVE  Owing'
<1>1. tpc[a] = "append" /\ UNCHANGED ask /\ (tpc' = [tpc EXCEPT ![a] = "dispatch"] \/ UNCHANGED tpc)
  BY DEF AppendItem, At
<1>2. PICK s, id : s = ask[a].session /\ far' = [far EXCEPT ![s] = Receives(far[s], id)]
  BY DEF AppendItem
<1>3. s \in Thread
  BY <1>1, <1>2, AskOnThread
<1>4. Receives(far[s], id).owed \ {Refusal} \subseteq far[s].owed
  BY <1>3, SessionIs DEF Receives, FarEnd
<1>5. \A z \in Thread : far'[z].owed \ {Refusal} \subseteq far[z].owed
  BY <1>2, <1>4 DEF ThreadTyped
<1>6. QED
  BY <1>1, <1>5, OwingMoved

LEMMA OwingFails ==
  ASSUME ThreadTyped, Sited, Owing, NEW a \in ThreadAsk, AskFails(a)
  PROVE  Owing'
<1>1. tpc[a] \in Working /\ tpc' = [tpc EXCEPT ![a] = "failed"] /\ UNCHANGED ask
  BY DEF AskFails, At, Working, Busy
<1>2. far' = [far EXCEPT ![ask[a].session] = NoFarEnd]
  BY DEF AskFails, Fails
<1>3. ask[a].session \in Thread /\ tpc[a] # "gone"
  BY <1>1, AskOnThread DEF Working, Busy
<1>4. far'[ask[a].session].owed = {} /\ \A z \in Thread : far'[z].owed \ {Refusal} \subseteq far[z].owed
  BY <1>2, <1>3 DEF ThreadTyped, NoFarEnd
<1>5. QED
  BY <1>1, <1>3, <1>4, OwingMoved

LEMMA OwingLose ==
  ASSUME ThreadTyped, Owing, NEW s \in Thread, Lose(s)
  PROVE  Owing'
<1>1. UNCHANGED <<tpc, ask>>
  BY DEF Lose
<1>2. \/ far' = [far EXCEPT ![s] = [far[s] EXCEPT !.open = FALSE, !.owed = {}]]
      \/ far' = [far EXCEPT ![s] = [far[s] EXCEPT !.aged = TRUE]]
  BY DEF Lose
<1>3. \A z \in Thread : far'[z].owed \subseteq far[z].owed
  <2>1. /\ [far[s] EXCEPT !.open = FALSE, !.owed = {}].owed = {}
        /\ [far[s] EXCEPT !.aged = TRUE].owed = far[s].owed
    BY SessionIs DEF FarEnd
  <2>2. QED
    BY <1>2, <2>1 DEF ThreadTyped
<1>4. QED
  BY <1>1, <1>3 DEF Owing, Deserted

-----------------------------------------------------------------------------
(* What the provider holds *)

LEMMA HoldsNone ==
  ASSUME NEW refused, NEW alone PROVE Holds(<<>>, <<>>, refused, alone)
BY DEF Holds, ToSet, InOrder

\* Fewer claims are made of a conversation that others have left items in.
LEMMA HoldsWeaker ==
  ASSUME NEW items, NEW held, NEW r1, NEW r2, NEW d1, NEW d2,
         Holds(items, held, r1, d1), r1 => r2, d2 => d1
  PROVE  Holds(items, held, r2, d2)
BY DEF Holds

\* The provider takes the next item of a window, or refuses it.
LEMMA HoldsTaken ==
  ASSUME NEW U, NEW w \in Seq(U), NEW n \in Nat, n < Len(w), NEW held \in Seq(U),
         NEW refused, NEW alone, Holds(SubSeq(w, 1, n), held, refused, alone),
         w[n + 1] \notin ToSet(held)
  PROVE  Holds(SubSeq(w, 1, n + 1), Append(held, w[n + 1]), refused, alone)
<1>1. PICK p, q, h, x : /\ p = SubSeq(w, 1, n) /\ q = SubSeq(w, 1, n + 1)
                        /\ h = Append(held, x) /\ x = w[n + 1]
  OBVIOUS
<1>2. x \in U /\ p \in Seq(U) /\ q \in Seq(U) /\ h \in Seq(U)
  BY <1>1
<1>3. /\ Len(p) = n /\ Len(q) = n + 1 /\ \A i \in 1..n : p[i] = w[i] /\ q[i] = w[i]
      /\ q[n + 1] = x /\ Len(held) \in Nat
  BY <1>1
<1>4. /\ Len(h) = Len(held) + 1 /\ h[Len(held) + 1] = x /\ \A i \in 1..Len(held) : h[i] = held[i]
  BY <1>1, <1>2
<1>5. DOMAIN p = 1..n /\ DOMAIN q = 1..(n + 1) /\ DOMAIN held = 1..Len(held) /\ DOMAIN h = 1..(Len(held) + 1)
  BY <1>2, <1>3, <1>4
<1>6. \A i \in 1..n : \E k \in 1..Len(held) : held[k] = p[i]
  BY <1>1, <1>5 DEF Holds, ToSet
<1>7. \A i \in 1..(n + 1) : \E k \in 1..(Len(held) + 1) : h[k] = q[i] /\ (i <= n => k <= Len(held))
  <2>1. ASSUME NEW i \in 1..(n + 1) PROVE \E k \in 1..(Len(held) + 1) : h[k] = q[i] /\ (i <= n => k <= Len(held))
    <3>1. CASE i = n + 1
      BY <1>3, <1>4, <3>1
    <3>2. CASE i # n + 1
      <4>1. i \in 1..n
        BY <3>2
      <4>2. PICK k \in 1..Len(held) : held[k] = p[i]
        BY <1>6, <4>1
      <4>3. h[k] = q[i] /\ k \in 1..(Len(held) + 1) /\ k <= Len(held)
        BY <1>3, <1>4, <4>1, <4>2
      <4>4. QED
        BY <4>3
    <3>3. QED
      BY <3>1, <3>2
  <2>2. QED
    BY <2>1
<1>8. ToSet(q) \subseteq ToSet(h)
  BY <1>5, <1>7 DEF ToSet
<1>9. ASSUME ~refused PROVE InOrder(q, h)
  <2>1. \A l, m \in 1..n : l < m => \E i, j \in 1..Len(held) : i < j /\ held[i] = p[l] /\ held[j] = p[m]
    <3>1. InOrder(p, held)
      BY <1>1, <1>9 DEF Holds
    <3>2. ASSUME NEW l \in 1..n, NEW m \in 1..n, l < m
          PROVE  \E i, j \in 1..Len(held) : i < j /\ held[i] = p[l] /\ held[j] = p[m]
      <4>1. l \in DOMAIN p /\ m \in DOMAIN p
        BY <1>5
      <4>2. \E i, j \in DOMAIN held : i < j /\ held[i] = p[l] /\ held[j] = p[m]
        BY <3>1, <3>2, <4>1 DEF InOrder
      <4>3. QED
        BY <1>5, <4>2
    <3>3. QED
      BY <3>2
  <2>2. ASSUME NEW l \in 1..(n + 1), NEW m \in 1..(n + 1), l < m
        PROVE  \E i, j \in 1..(Len(held) + 1) : i < j /\ h[i] = q[l] /\ h[j] = q[m]
    <3>1. CASE m = n + 1
      <4>1. PICK i \in 1..(Len(held) + 1) : h[i] = q[l] /\ i <= Len(held)
        BY <1>7, <2>2, <3>1
      <4>2. i < Len(held) + 1 /\ Len(held) + 1 \in 1..(Len(held) + 1)
        BY <1>3, <4>1
      <4>3. h[Len(held) + 1] = q[m]
        BY <1>3, <1>4, <3>1
      <4>4. QED
        BY <4>1, <4>2, <4>3
    <3>2. CASE m # n + 1
      <4>1. l \in 1..n /\ m \in 1..n
        BY <2>2, <3>2
      <4>2. PICK i \in 1..Len(held), j \in 1..Len(held) : i < j /\ held[i] = p[l] /\ held[j] = p[m]
        BY <2>1, <2>2, <4>1
      <4>3. i \in 1..(Len(held) + 1) /\ j \in 1..(Len(held) + 1)
        BY <1>3
      <4>4. h[i] = held[i] /\ h[j] = held[j] /\ q[l] = p[l] /\ q[m] = p[m]
        BY <1>3, <1>4, <4>1
      <4>5. QED
        BY <4>2, <4>3, <4>4
    <3>3. QED
      BY <3>1, <3>2
  <2>3. ASSUME NEW l \in DOMAIN q, NEW m \in DOMAIN q, l < m
        PROVE  \E i, j \in DOMAIN h : i < j /\ h[i] = q[l] /\ h[j] = q[m]
    <3>1. l \in 1..(n + 1) /\ m \in 1..(n + 1)
      BY <1>5
    <3>2. \E i, j \in 1..(Len(held) + 1) : i < j /\ h[i] = q[l] /\ h[j] = q[m]
      BY <2>2, <2>3, <3>1
    <3>3. QED
      BY <1>5, <3>2
  <2>4. QED
    BY <2>3 DEF InOrder
<1>10. ASSUME ~refused, alone PROVE h = q
  <2>1. held = p
    BY <1>1, <1>10 DEF Holds
  <2>2. Len(h) = Len(q) /\ \A i \in 1..Len(h) : h[i] = q[i]
    BY <1>3, <1>4, <2>1
  <2>3. QED
    BY <1>2, <1>5, <2>2, SeqEqual
<1>11. QED
  BY <1>1, <1>8, <1>9, <1>10 DEF Holds

LEMMA HoldsRefused ==
  ASSUME NEW U, NEW w \in Seq(U), NEW n \in Nat, n < Len(w), NEW held,
         NEW refused, NEW alone, Holds(SubSeq(w, 1, n), held, refused, alone),
         w[n + 1] \in ToSet(held)
  PROVE  Holds(SubSeq(w, 1, n + 1), held, TRUE, alone)
<1>1. PICK p, q : p = SubSeq(w, 1, n) /\ q = SubSeq(w, 1, n + 1)
  OBVIOUS
<1>2. DOMAIN p = 1..n /\ DOMAIN q = 1..(n + 1) /\ q[n + 1] = w[n + 1] /\ \A i \in 1..n : p[i] = q[i]
  BY <1>1
<1>3. \A i \in 1..(n + 1) : i = n + 1 \/ i \in 1..n
  OBVIOUS
<1>4. \A i \in 1..(n + 1) : q[i] \in ToSet(p) \cup {w[n + 1]}
  BY <1>2, <1>3 DEF ToSet
<1>5. ToSet(q) \subseteq ToSet(p) \cup {w[n + 1]}
  BY <1>2, <1>4 DEF ToSet
<1>6. QED
  BY <1>1, <1>5 DEF Holds

\* What is left of a window that an abandoned ask was sending.
LEMMA HoldsCut ==
  ASSUME NEW U, NEW w \in Seq(U), NEW m \in Nat, NEW n \in Nat, m <= n, n <= Len(w), NEW held,
         NEW refused, NEW alone, Holds(SubSeq(w, 1, n), held, refused, alone)
  PROVE  Holds(SubSeq(w, 1, m), held, refused, FALSE)
<1>1. PICK p, q : p = SubSeq(w, 1, m) /\ q = SubSeq(w, 1, n)
  OBVIOUS
<1>2. DOMAIN p = 1..m /\ DOMAIN q = 1..n /\ \A i \in 1..m : i \in 1..n /\ p[i] = q[i]
  BY <1>1
<1>3. ToSet(p) \subseteq ToSet(q)
  BY <1>2 DEF ToSet
<1>4. ASSUME NEW h, InOrder(q, h) PROVE InOrder(p, h)
  BY <1>2, <1>4 DEF InOrder
<1>5. QED
  BY <1>1, <1>3, <1>4 DEF Holds

LEMMA HeldInit == ThreadInit => Held
BY DEF ThreadInit, Held, HeldAt, NoFarEnd

\* A step that sends the session nothing.
LEMMA HeldKept ==
  ASSUME NEW s \in Thread, HeldAt(s), thread'[s] = thread[s],
         far'[s].items = far[s].items, far'[s].config = far[s].config,
         far'[s].open => far[s].open,
         far'[s].open /\ Refusal \in far[s].owed => Refusal \in far'[s].owed,
         Deserted(s)' = {} => Deserted(s) = {},
         \A b \in ThreadAsk : Appends(b, s)' <=> Appends(b, s),
         \A b \in ThreadAsk : Appends(b, s) => ask'[b] = ask[b] /\ sent'[b] = sent[b]
  PROVE  HeldAt(s)'
<1>1. SUFFICES ASSUME thread'[s].live, far'[s].open
               PROVE  /\ far'[s].config = thread'[s].config_hash
                      /\ (\A b \in ThreadAsk : ~Appends(b, s)') => HeldOf(s, Log(s))'
                      /\ \A b \in ThreadAsk : Appends(b, s)' =>
                           HeldOf(s, SubSeq(ask[b].items, 1, Len(Log(s)) + sent[b]))'
  BY DEF HeldAt
<1>2. thread[s].live /\ far[s].open
  BY <1>1
<1>3. Log(s)' = Log(s)
  BY DEF Log
<1>4. ASSUME NEW x, HeldOf(s, x)
      PROVE  Holds(x, far'[s].items, Refusal \in far'[s].owed, Deserted(s)' = {})
  <2>1. Holds(x, far'[s].items, Refusal \in far[s].owed, Deserted(s) = {})
    BY <1>4 DEF HeldOf
  <2>2. QED
    BY <1>1, <2>1 DEF Holds
<1>5. (\A b \in ThreadAsk : ~Appends(b, s)') => HeldOf(s, Log(s))'
  <2>1. ASSUME \A b \in ThreadAsk : ~Appends(b, s)' PROVE HeldOf(s, Log(s))
    BY <1>2, <2>1 DEF HeldAt
  <2>2. HeldOf(s, Log(s)) => Holds(Log(s), far'[s].items, Refusal \in far'[s].owed, Deserted(s)' = {})
    BY <1>4
  <2>3. QED
    BY <1>3, <2>1, <2>2 DEF HeldOf
<1>6. ASSUME NEW b \in ThreadAsk, Appends(b, s)'
      PROVE  HeldOf(s, SubSeq(ask[b].items, 1, Len(Log(s)) + sent[b]))'
  <2>1. PICK x : x = SubSeq(ask[b].items, 1, Len(Log(s)) + sent[b])
    OBVIOUS
  <2>2. HeldOf(s, x)
    BY <1>2, <1>6, <2>1 DEF HeldAt
  <2>3. Holds(x, far'[s].items, Refusal \in far'[s].owed, Deserted(s)' = {})
    BY <1>4, <2>2
  <2>4. SubSeq(ask'[b].items, 1, Len(Log(s)') + sent'[b]) = x
    BY <1>3, <1>6, <2>1
  <2>5. QED
    BY <2>3, <2>4 DEF HeldOf
<1>7. far'[s].config = thread'[s].config_hash
  BY <1>2 DEF HeldAt
<1>8. QED
  BY <1>5, <1>6, <1>7

\* An ask's step leaves other sessions alone.
LEMMA HeldElsewhere ==
  ASSUME ThreadTyped, NEW a \in ThreadAsk, NEW v, tpc[a] # "gone",
         tpc' = [tpc EXCEPT ![a] = v] \/ UNCHANGED tpc, UNCHANGED ask,
         \A b \in ThreadAsk : b # a => sent'[b] = sent[b],
         NEW s \in Thread, s # ask[a].session, HeldAt(s), thread'[s] = thread[s], far'[s] = far[s]
  PROVE  HeldAt(s)'
<1>1. Deserted(s)' = Deserted(s)
  BY DesertedKept
<1>2. ASSUME NEW b \in ThreadAsk
      PROVE  /\ Appends(b, s)' <=> Appends(b, s)
             /\ Appends(b, s) => ask'[b] = ask[b] /\ sent'[b] = sent[b]
  <2>1. CASE b = a
    BY <2>1 DEF Appends
  <2>2. CASE b # a
    BY <2>2 DEF Appends, ThreadTyped
  <2>3. QED
    BY <2>1, <2>2
<1>3. QED
  BY <1>1, <1>2, HeldKept

LEMMA Quiet ==
  ASSUME ThreadTyped, Sited, InLine, NEW a \in ThreadAsk, Heads(a), NEW b \in ThreadAsk,
         Appends(b, ask[a].session)
  PROVE  b = a
BY HeadWorks DEF Heads, Appends, Working, Busy

\* Nobody appends before or after, and nothing is sent.
LEMMA HeldQuiet ==
  ASSUME ThreadTyped, Sited, InLine, NEW a \in ThreadAsk, NEW v, Heads(a), tpc[a] # "append", v # "append",
         tpc' = [tpc EXCEPT ![a] = v], UNCHANGED ask,
         NEW s \in Thread, s = ask[a].session, HeldAt(s), thread'[s] = thread[s],
         far'[s].items = far[s].items, far'[s].config = far[s].config, far'[s].open = far[s].open,
         Refusal \in far[s].owed => Refusal \in far'[s].owed
  PROVE  HeldAt(s)'
<1>1. ASSUME NEW b \in ThreadAsk PROVE ~Appends(b, s) /\ ~Appends(b, s)'
  <2>1. ~Appends(b, s)
    BY Quiet DEF Appends
  <2>2. CASE b = a
    BY <2>1, <2>2 DEF Appends, ThreadTyped
  <2>3. CASE b # a
    BY <2>1, <2>3 DEF Appends, ThreadTyped
  <2>4. QED
    BY <2>1, <2>2, <2>3
<1>2. tpc[a] # "gone"
  BY DEF Heads, Working, Busy
<1>3. Deserted(s)' = {} => Deserted(s) = {}
  BY <1>2, DesertedKept
<1>4. QED
  BY <1>1, <1>3, HeldKept

LEMMA HeldFor ==
  ASSUME ThreadTyped, Held, NEW a \in ThreadAsk, SessionFor(a) \/ Touch(a)
  PROVE  Held'
<1>1. /\ tpc[a] \in {"idle", "found"} /\ UNCHANGED <<thread, far, sent>>
      /\ \E v \in {"found", "queued"} : tpc' = [tpc EXCEPT ![a] = v]
  BY DEF SessionFor, Touch, At
<1>2. \A b \in ThreadAsk : b # a => ask'[b] = ask[b] /\ tpc'[b] = tpc[b]
  BY <1>1 DEF SessionFor, Touch, ThreadTyped
<1>3. tpc'[a] # "append" /\ tpc[a] # "append"
  BY <1>1 DEF ThreadTyped
<1>4. \A s : Deserted(s)' = {} => Deserted(s) = {}
  <2>1. CASE SessionFor(a)
    BY <2>1, DesertedFor
  <2>2. CASE Touch(a)
    <3>1. UNCHANGED ask /\ tpc[a] # "gone"
      BY <1>1, <2>2 DEF Touch
    <3>2. QED
      BY <1>1, <3>1, DesertedKept
  <2>3. QED
    BY <2>1, <2>2
<1>5. ASSUME NEW s \in Thread PROVE HeldAt(s)'
  <2>1. ASSUME NEW b \in ThreadAsk
        PROVE  /\ Appends(b, s)' <=> Appends(b, s)
               /\ Appends(b, s) => ask'[b] = ask[b] /\ sent'[b] = sent[b]
    <3>1. CASE b = a
      BY <1>3, <3>1 DEF Appends
    <3>2. CASE b # a
      BY <1>1, <1>2, <3>2 DEF Appends
    <3>3. QED
      BY <3>1, <3>2
  <2>2. HeldAt(s)
    BY DEF Held
  <2>3. QED
    BY <1>1, <1>4, <2>1, <2>2, HeldKept
<1>6. QED
  BY <1>5 DEF Held

LEMMA HeldLose ==
  ASSUME ThreadTyped, Held, NEW s \in Thread, Lose(s)
  PROVE  Held'
<1>1. UNCHANGED <<thread, tpc, ask, sent>>
  BY DEF Lose
<1>2. \/ far' = [far EXCEPT ![s] = [far[s] EXCEPT !.open = FALSE, !.owed = {}]]
      \/ far' = [far EXCEPT ![s] = [far[s] EXCEPT !.aged = TRUE]]
  BY DEF Lose
<1>3. \E end : /\ far' = [far EXCEPT ![s] = end]
               /\ end.items = far[s].items /\ end.config = far[s].config
               /\ end.open => far[s].open /\ end.owed = far[s].owed
  <2>1. PICK e, f : e = [far[s] EXCEPT !.open = FALSE, !.owed = {}] /\ f = [far[s] EXCEPT !.aged = TRUE]
    OBVIOUS
  <2>2. /\ e.items = far[s].items /\ e.config = far[s].config /\ ~e.open
        /\ f.items = far[s].items /\ f.config = far[s].config /\ f.open = far[s].open /\ f.owed = far[s].owed
    BY <2>1, SessionIs DEF FarEnd
  <2>3. QED
    BY <1>2, <2>1, <2>2
<1>4. ASSUME NEW z \in Thread PROVE HeldAt(z)'
  <2>1. /\ far'[z].items = far[z].items /\ far'[z].config = far[z].config
        /\ far'[z].open => far[z].open /\ far'[z].owed = far[z].owed
    BY <1>3 DEF ThreadTyped
  <2>2. Deserted(z)' = Deserted(z) /\ \A b \in ThreadAsk : Appends(b, z)' <=> Appends(b, z)
    BY <1>1 DEF Deserted, Appends
  <2>3. HeldAt(z)
    BY DEF Held
  <2>4. QED
    BY <1>1, <2>1, <2>2, <2>3, HeldKept
<1>5. QED
  BY <1>4 DEF Held

\* What a step does to the session it works on is all there is to show.
LEMMA HeldMoved ==
  ASSUME ThreadTyped, Held, NEW a \in ThreadAsk, NEW v, tpc[a] # "gone",
         tpc' = [tpc EXCEPT ![a] = v] \/ UNCHANGED tpc, UNCHANGED ask,
         \A b \in ThreadAsk : b # a => sent'[b] = sent[b],
         \A z \in Thread : z # ask[a].session => thread'[z] = thread[z] /\ far'[z] = far[z],
         NEW s \in Thread, s = ask[a].session, HeldAt(s)'
  PROVE  Held'
<1>1. ASSUME NEW z \in Thread PROVE HeldAt(z)'
  <2>1. CASE z = s
    BY <2>1
  <2>2. CASE z # s
    BY <2>2, HeldElsewhere DEF Held
  <2>3. QED
    BY <2>1, <2>2
<1>2. QED
  BY <1>1 DEF Held

LEMMA HeldClosed ==
  ASSUME NEW s \in Thread, ~(thread'[s].live /\ far'[s].open)
  PROVE  HeldAt(s)'
BY DEF HeldAt

LEMMA HeldBegin ==
  ASSUME ThreadTyped, Sited, InLine, Windowed, Held, Windowed', NEW a \in ThreadAsk, Begin(a)
  PROVE  Held'
<1>1. PICK s : s = ask[a].session
  OBVIOUS
<1>2. /\ tpc[a] = "queued" /\ Head(waiting[s]) = a /\ UNCHANGED <<sent, ask>>
      /\ \/ /\ tpc' = [tpc EXCEPT ![a] = "connect"]
            /\ thread' = [thread EXCEPT ![s] = [thread[s] EXCEPT !.live = FALSE, !.appended_ids = <<>>]]
            /\ far' = [far EXCEPT ![s] = NoFarEnd]
         \/ /\ tpc' = [tpc EXCEPT ![a] = AfterLog(a, Len(Log(s)))] /\ UNCHANGED <<thread, far>>
  BY <1>1 DEF Begin, At, Set
<1>3. s \in Thread /\ HeldAt(s)
  BY <1>1, <1>2, AskOnThread DEF Held
<1>4. Heads(a)
  BY <1>1, <1>2 DEF Heads
<1>5. CASE /\ tpc' = [tpc EXCEPT ![a] = "connect"]
           /\ thread' = [thread EXCEPT ![s] = [thread[s] EXCEPT !.live = FALSE, !.appended_ids = <<>>]]
           /\ far' = [far EXCEPT ![s] = NoFarEnd]
  <2>1. ~far'[s].open
    BY <1>3, <1>5 DEF ThreadTyped, NoFarEnd
  <2>2. HeldAt(s)'
    BY <1>3, <2>1, HeldClosed
  <2>3. \A z \in Thread : z # s => thread'[z] = thread[z] /\ far'[z] = far[z]
    BY <1>5 DEF ThreadTyped
  <2>4. QED
    BY <1>1, <1>2, <1>3, <1>5, <2>2, <2>3, HeldMoved
<1>6. CASE tpc' = [tpc EXCEPT ![a] = AfterLog(a, Len(Log(s)))] /\ UNCHANGED <<thread, far>>
  <2>1. \A b \in ThreadAsk : ~Appends(b, s)
    BY <1>1, <1>2, <1>4, Quiet DEF Appends
  <2>2. \A b \in ThreadAsk : b # a => ~Appends(b, s)'
    BY <1>2, <1>6, <2>1 DEF Appends, ThreadTyped
  <2>3. Deserted(s)' = Deserted(s)
    <3>1. AfterLog(a, Len(Log(s))) # "gone" /\ tpc[a] # "gone"
      BY <1>2 DEF AfterLog
    <3>2. QED
      BY <1>2, <1>6, <3>1, DesertedKept
  <2>4. ASSUME Appends(a, s)' PROVE SubSeq(ask'[a].items, 1, Len(Log(s)') + sent'[a]) = Log(s)
    <3>1. sent[a] = 0
      BY <1>2 DEF Windowed, Window
    <3>2. Window(a)'
      BY DEF Windowed
    <3>3. Log(s) = SubSeq(ask[a].items, 1, Len(Log(s)))
      BY <1>1, <1>2, <1>6, <2>4, <3>2 DEF Window, Appends, Log
    <3>4. Len(Log(s)) + 0 = Len(Log(s)) /\ Log(s)' = Log(s)
      BY <1>3, <1>6, SessionIs DEF Log
    <3>5. QED
      BY <1>2, <3>1, <3>3, <3>4
  <2>5. HeldAt(s)'
    <3>1. SUFFICES ASSUME thread'[s].live, far'[s].open
                   PROVE  /\ far'[s].config = thread'[s].config_hash
                          /\ (\A b \in ThreadAsk : ~Appends(b, s)') => HeldOf(s, Log(s))'
                          /\ \A b \in ThreadAsk : Appends(b, s)' =>
                               HeldOf(s, SubSeq(ask[b].items, 1, Len(Log(s)) + sent[b]))'
      BY DEF HeldAt
    <3>2. far[s].config = thread[s].config_hash /\ HeldOf(s, Log(s))
      BY <1>3, <1>6, <2>1, <3>1 DEF HeldAt
    <3>3. Holds(Log(s), far'[s].items, Refusal \in far'[s].owed, Deserted(s)' = {})
      BY <1>6, <2>3, <3>2 DEF HeldOf
    <3>4. HeldOf(s, Log(s))'
      BY <1>6, <3>3 DEF HeldOf, Log
    <3>5. ASSUME NEW b \in ThreadAsk, Appends(b, s)'
          PROVE  HeldOf(s, SubSeq(ask[b].items, 1, Len(Log(s)) + sent[b]))'
      <4>1. b = a
        BY <2>2, <3>5
      <4>2. SubSeq(ask'[b].items, 1, Len(Log(s)') + sent'[b]) = Log(s)
        BY <2>4, <3>5, <4>1
      <4>3. QED
        BY <3>3, <4>2 DEF HeldOf
    <3>6. QED
      BY <1>6, <3>2, <3>4, <3>5
  <2>6. tpc[a] # "gone" /\ \A z \in Thread : z # s => thread'[z] = thread[z] /\ far'[z] = far[z]
    BY <1>2, <1>6
  <2>7. QED
    BY <1>1, <1>2, <1>3, <1>6, <2>5, <2>6, HeldMoved
<1>7. QED
  BY <1>2, <1>5, <1>6

LEMMA HeldConnect ==
  ASSUME ThreadTyped, Sited, InLine, Windowed, Held, NEW a \in ThreadAsk, Connect(a)
  PROVE  Held'
<1>1. PICK s : s = ask[a].session
  OBVIOUS
<1>2. /\ tpc[a] = "connect" /\ tpc' = [tpc EXCEPT ![a] = AfterLog(a, 0)] /\ UNCHANGED <<sent, ask>>
      /\ thread' = [thread EXCEPT ![s] = [thread[s] EXCEPT !.live = TRUE, !.config_hash = ask[a].config]]
      /\ far' = [far EXCEPT ![s] = [NoFarEnd EXCEPT !.open = TRUE, !.config = ask[a].config]]
  BY <1>1 DEF Connect, At, Set
<1>3. s \in Thread /\ sent[a] = 0 /\ thread[s].appended_ids = <<>>
  BY <1>1, <1>2, AskOnThread DEF Windowed, Window
<1>4. Heads(a)
  BY <1>2 DEF Heads, Working, Busy
<1>5. /\ thread'[s].config_hash = ask[a].config /\ thread'[s].appended_ids = <<>>
      /\ far'[s].config = ask[a].config /\ far'[s].items = <<>>
  BY <1>2, <1>3 DEF ThreadTyped, Logged, NoFarEnd
<1>6. \A b \in ThreadAsk : Appends(b, s)' => b = a
  BY <1>1, <1>2, <1>4, Quiet DEF Appends, ThreadTyped
<1>7. \A x : x = <<>> => HeldOf(s, x)'
  <2>1. Holds(<<>>, far'[s].items, Refusal \in far'[s].owed, Deserted(s)' = {})
    BY <1>5, HoldsNone
  <2>2. QED
    BY <2>1 DEF HeldOf
<1>8. SubSeq(ask[a].items, 1, Len(<<>>) + 0) = <<>>
  BY AskIs
<1>9. HeldAt(s)'
  <2>1. ASSUME NEW b \in ThreadAsk, Appends(b, s)'
        PROVE  HeldOf(s, SubSeq(ask[b].items, 1, Len(Log(s)) + sent[b]))'
    <3>1. SubSeq(ask'[b].items, 1, Len(Log(s)') + sent'[b]) = <<>>
      BY <1>2, <1>3, <1>5, <1>6, <1>8, <2>1 DEF Log
    <3>2. QED
      BY <1>7, <3>1
  <2>2. HeldOf(s, Log(s))'
    BY <1>5, <1>7 DEF Log
  <2>3. QED
    BY <1>5, <2>1, <2>2 DEF HeldAt
<1>10. tpc[a] # "gone" /\ \A z \in Thread : z # s => thread'[z] = thread[z] /\ far'[z] = far[z]
  BY <1>2 DEF ThreadTyped
<1>11. QED
  BY <1>1, <1>2, <1>3, <1>9, <1>10, HeldMoved

LEMMA HeldRead ==
  ASSUME ThreadTyped, Sited, InLine, Held, NEW a \in ThreadAsk, Dispatch(a) \/ RunAsk(a)
  PROVE  Held'
<1>1. PICK s : s = ask[a].session
  OBVIOUS
<1>2. /\ tpc[a] \in {"dispatch", "read"} /\ UNCHANGED <<sent, ask, thread>>
      /\ \E v \in {"read", "answered"} : tpc' = [tpc EXCEPT ![a] = v]
  BY DEF Dispatch, RunAsk, At
<1>3. s \in Thread /\ HeldAt(s)
  BY <1>1, <1>2, AskOnThread DEF Held
<1>4. PICK o : far' = [far EXCEPT ![s] = [far[s] EXCEPT !.owed = o]]
               /\ (Refusal \in far[s].owed => Refusal \in o)
  <2>1. CASE Dispatch(a)
    <3>1. far' = [far EXCEPT ![s] = [far[s] EXCEPT !.owed = IF far[s].open THEN far[s].owed \cup {a} ELSE far[s].owed]]
      BY <1>1, <2>1 DEF Dispatch
    <3>2. QED
      BY <3>1
  <2>2. CASE RunAsk(a)
    <3>1. PICK r \in far[s].owed \ {Refusal} : far' = [far EXCEPT ![s].owed = @ \ {r}]
      BY <1>1, <2>2 DEF RunAsk
    <3>2. far' = [far EXCEPT ![s] = [far[s] EXCEPT !.owed = far[s].owed \ {r}]]
      BY <3>1
    <3>3. QED
      BY <3>2
  <2>3. QED
    BY <2>1, <2>2
<1>5. /\ far'[s].items = far[s].items /\ far'[s].config = far[s].config /\ far'[s].open = far[s].open
      /\ far'[s].owed = o /\ \A z \in Thread : z # s => far'[z] = far[z]
  BY <1>3, <1>4 DEF ThreadTyped, FarEnd
<1>6. Heads(a)
  BY <1>2 DEF Heads, Working, Busy
<1>7. HeldAt(s)'
  BY <1>1, <1>2, <1>3, <1>4, <1>5, <1>6, HeldQuiet
<1>8. QED
  BY <1>1, <1>2, <1>3, <1>5, <1>7, HeldMoved

LEMMA HeldFails ==
  ASSUME ThreadTyped, Sited, InLine, Held, NEW a \in ThreadAsk, AskFails(a)
  PROVE  Held'
<1>1. PICK s : s = ask[a].session
  OBVIOUS
<1>2. /\ tpc[a] \in Working /\ tpc' = [tpc EXCEPT ![a] = "failed"] /\ UNCHANGED ask
      /\ thread' = [thread EXCEPT ![s] = [thread[s] EXCEPT !.live = FALSE]]
      /\ far' = [far EXCEPT ![s] = NoFarEnd] /\ sent' = [sent EXCEPT ![a] = 0]
  BY <1>1 DEF AskFails, Fails, Set, At, Working, Busy
<1>3. s \in Thread /\ tpc[a] # "gone"
  BY <1>1, <1>2, AskOnThread DEF Working, Busy
<1>4. ~far'[s].open
  BY <1>2, <1>3 DEF ThreadTyped, NoFarEnd
<1>5. HeldAt(s)'
  BY <1>3, <1>4, HeldClosed
<1>6. /\ \A z \in Thread : z # s => thread'[z] = thread[z] /\ far'[z] = far[z]
      /\ \A b \in ThreadAsk : b # a => sent'[b] = sent[b]
  BY <1>2 DEF ThreadTyped
<1>7. QED
  BY <1>1, <1>2, <1>3, <1>5, <1>6, HeldMoved

LEMMA HeldAbandon ==
  ASSUME ThreadTyped, Sited, InLine, Windowed, Held, NEW a \in ThreadAsk, Abandon(a)
  PROVE  Held'
<1>1. PICK s : s = ask[a].session
  OBVIOUS
<1>2. tpc[a] \in Busy /\ tpc' = [tpc EXCEPT ![a] = "gone"] /\ UNCHANGED <<thread, far, ask, sent>>
  BY DEF Abandon, At
<1>3. s \in Thread /\ HeldAt(s) /\ tpc[a] # "gone"
  BY <1>1, <1>2, AskOnThread DEF Busy, Held
<1>4. Deserted(s)' # {}
  <2>1. tpc'[a] = "gone"
    BY <1>2 DEF ThreadTyped
  <2>2. a \in Deserted(s)'
    BY <1>1, <1>2, <2>1 DEF Deserted
  <2>3. QED
    BY <2>2
<1>5. \A b \in ThreadAsk : b # a => (Appends(b, s)' <=> Appends(b, s))
  BY <1>2 DEF Appends, ThreadTyped
<1>6. HeldAt(s)'
  <2>1. CASE ~Appends(a, s)
    <3>1. ~Appends(a, s)'
      BY <1>2 DEF Appends, ThreadTyped
    <3>2. \A b \in ThreadAsk : Appends(b, s)' <=> Appends(b, s)
      BY <1>5, <2>1, <3>1
    <3>3. QED
      BY <1>2, <1>3, <1>4, <3>2, HeldKept
  <2>2. CASE Appends(a, s)
    <3>1. SUFFICES ASSUME thread[s].live, far[s].open
                   PROVE  /\ far[s].config = thread[s].config_hash
                          /\ HeldOf(s, Log(s))'
                          /\ \A b \in ThreadAsk : ~Appends(b, s)'
      BY <1>2 DEF HeldAt
    <3>2. PICK w, m, n : w = ask[a].items /\ m = Len(Log(s)) /\ n = m + sent[a]
      OBVIOUS
    <3>3. w \in Seq(Item) /\ m \in Nat /\ n \in Nat /\ m <= n /\ n <= Len(w) /\ Log(s) = SubSeq(w, 1, m)
      <4>1. /\ Len(Log(s)) + sent[a] < Len(ask[a].items)
            /\ Log(s) = SubSeq(ask[a].items, 1, Len(Log(s)))
        BY <2>2 DEF Windowed, Window, Appends, Log
      <4>2. Len(Log(s)) \in Nat /\ sent[a] \in Nat /\ Len(ask[a].items) \in Nat /\ ask[a].items \in Seq(Item)
        BY <1>3, AskIs, SessionIs
      <4>3. QED
        BY <3>2, <4>1, <4>2
    <3>4. HeldOf(s, SubSeq(w, 1, n))
      BY <1>3, <2>2, <3>1, <3>2 DEF HeldAt
    <3>5. Holds(SubSeq(w, 1, m), far[s].items, Refusal \in far[s].owed, FALSE)
      BY <3>3, <3>4, HoldsCut DEF HeldOf
    <3>6. HeldOf(s, Log(s))'
      BY <1>2, <1>4, <3>3, <3>5 DEF HeldOf, Log
    <3>7. ASSUME NEW b \in ThreadAsk PROVE ~Appends(b, s)'
      <4>1. Heads(a)
        BY <2>2 DEF Heads, Appends, Working, Busy
      <4>2. CASE b = a
        BY <1>2, <4>2 DEF Appends, ThreadTyped
      <4>3. CASE b # a
        BY <1>1, <1>5, <4>1, <4>3, Quiet
      <4>4. QED
        BY <4>2, <4>3
    <3>8. far[s].config = thread[s].config_hash
      BY <1>3, <3>1 DEF HeldAt
    <3>9. QED
      BY <3>6, <3>7, <3>8
  <2>3. QED
    BY <2>1, <2>2
<1>7. QED
  BY <1>1, <1>2, <1>3, <1>6, HeldMoved

LEMMA HeldAppend ==
  ASSUME ThreadTyped, Sited, InLine, Windowed, Held, NEW a \in ThreadAsk, AppendItem(a)
  PROVE  Held'
<1>1. PICK s, w, m, n : /\ s = ask[a].session /\ w = ask[a].items
                        /\ m = Len(Log(s)) + sent[a] /\ n = Len(Log(s)) + sent[a] + 1
  OBVIOUS
<1>2. /\ tpc[a] = "append" /\ UNCHANGED ask /\ far' = [far EXCEPT ![s] = Receives(far[s], w[n])]
      /\ \/ /\ n = Len(w) /\ tpc' = [tpc EXCEPT ![a] = "dispatch"]
            /\ thread' = [thread EXCEPT ![s] = [thread[s] EXCEPT !.appended_ids = w]]
            /\ sent' = [sent EXCEPT ![a] = 0]
         \/ /\ n # Len(w) /\ sent' = [sent EXCEPT ![a] = sent[a] + 1] /\ UNCHANGED <<thread, tpc>>
  BY <1>1 DEF AppendItem, At, Set
<1>3. s \in Thread /\ n \in 1..Len(w) /\ w \in Seq(Item) /\ HeldAt(s) /\ w[n] \in Item
  BY <1>1, <1>2, NextItem, AskIs DEF Held
<1>4. m \in Nat /\ n = m + 1 /\ m < Len(w) /\ Len(w) \in Nat
  BY <1>1, <1>3, AskIs, SessionIs
<1>5. Heads(a) /\ tpc[a] # "gone"
  BY <1>2 DEF Heads, Working, Busy
<1>6. PICK e : e = Receives(far[s], w[n])
  OBVIOUS
<1>7. far'[s] = e /\ \A z \in Thread : z # s => far'[z] = far[z]
  BY <1>2, <1>3, <1>6 DEF ThreadTyped
<1>8. \A b \in ThreadAsk : Appends(b, s)' => b = a
  BY <1>1, <1>2, <1>5, Quiet DEF Appends, ThreadTyped
<1>9. Deserted(s)' = {} => Deserted(s) = {}
  BY <1>2, <1>5, DesertedKept
<1>10. SubSeq(w, 1, Len(w)) = w
  BY <1>3
<1>11. HeldAt(s)'
  <2>1. CASE thread[s].live /\ far[s].open
    <3>1. Holds(SubSeq(w, 1, m), far[s].items, Refusal \in far[s].owed, Deserted(s) = {})
          /\ far[s].config = thread[s].config_hash
      BY <1>1, <1>2, <1>3, <2>1 DEF HeldAt, HeldOf, Appends
    <3>2. Holds(SubSeq(w, 1, m + 1), e.items, Refusal \in e.owed, Deserted(s) = {})
      <4>1. CASE w[n] \in ToSet(far[s].items)
        <5>1. Contains(far[s].items, w[n])
          <6>1. PICK i \in DOMAIN far[s].items : far[s].items[i] = w[n]
            BY <4>1 DEF ToSet
          <6>2. i \in 1..Len(far[s].items)
            BY <1>3, <6>1, SessionIs
          <6>3. QED
            BY <6>1, <6>2 DEF Contains
        <5>2. e.items = far[s].items /\ Refusal \in e.owed
          BY <1>3, <1>6, <2>1, <5>1, SessionIs DEF Receives, FarEnd
        <5>3. Holds(SubSeq(w, 1, m + 1), far[s].items, TRUE, Deserted(s) = {})
          BY <1>3, <1>4, <3>1, <4>1, HoldsRefused
        <5>4. QED
          BY <5>2, <5>3 DEF Holds
      <4>2. CASE w[n] \notin ToSet(far[s].items)
        <5>1. ~Contains(far[s].items, w[n])
          BY <1>3, <4>2, SessionIs DEF Contains, ToSet
        <5>2. e.items = Append(far[s].items, w[m + 1]) /\ e.owed = far[s].owed
          BY <1>3, <1>4, <1>6, <2>1, <5>1, SessionIs DEF Receives, FarEnd
        <5>3. Holds(SubSeq(w, 1, m + 1), Append(far[s].items, w[m + 1]), Refusal \in far[s].owed, Deserted(s) = {})
          BY <1>3, <1>4, <3>1, <4>2, SessionIs, HoldsTaken
        <5>4. QED
          BY <5>2, <5>3
      <4>3. QED
        BY <4>1, <4>2
    <3>3. Holds(SubSeq(w, 1, n), far'[s].items, Refusal \in far'[s].owed, Deserted(s)' = {})
      BY <1>4, <1>7, <1>9, <3>2 DEF Holds
    <3>4. e.config = far[s].config
      BY <1>3, <1>6, SessionIs DEF Receives, FarEnd
    <3>5. CASE n = Len(w)
      <4>1. thread' = [thread EXCEPT ![s] = [thread[s] EXCEPT !.appended_ids = w]]
            /\ tpc' = [tpc EXCEPT ![a] = "dispatch"]
        BY <1>2, <3>5
      <4>2. thread'[s].appended_ids = w /\ thread'[s].config_hash = thread[s].config_hash
        BY <1>3, <4>1 DEF ThreadTyped, Logged
      <4>3. \A b \in ThreadAsk : ~Appends(b, s)'
        BY <1>8, <4>1 DEF Appends, ThreadTyped
      <4>4. HeldOf(s, Log(s))'
        BY <1>10, <3>3, <3>5, <4>2 DEF HeldOf, Log
      <4>5. QED
        BY <1>7, <3>1, <3>4, <4>2, <4>3, <4>4 DEF HeldAt
    <3>6. CASE n # Len(w)
      <4>1. UNCHANGED <<thread, tpc>> /\ sent'[a] = sent[a] + 1
        BY <1>2, <3>6 DEF ThreadTyped
      <4>2. Appends(a, s)'
        BY <1>1, <1>2, <4>1 DEF Appends
      <4>3. Len(Log(s)') + sent'[a] = n
        <5>1. Log(s)' = Log(s) /\ Len(Log(s)) \in Nat /\ sent[a] \in Nat
          BY <1>3, <4>1, AskIs, SessionIs DEF Log
        <5>2. n = Len(Log(s)) + (sent[a] + 1)
          BY <1>1, <5>1
        <5>3. QED
          BY <4>1, <5>1, <5>2
      <4>4. HeldOf(s, SubSeq(ask[a].items, 1, Len(Log(s)) + sent[a]))'
        BY <1>1, <1>2, <3>3, <4>3 DEF HeldOf
      <4>5. QED
        BY <1>7, <1>8, <3>1, <3>4, <4>1, <4>2, <4>4 DEF HeldAt
    <3>7. QED
      BY <3>5, <3>6
  <2>2. CASE ~(thread[s].live /\ far[s].open)
    <3>1. ~(thread'[s].live /\ far'[s].open)
      <4>1. thread'[s].live = thread[s].live
        BY <1>2, <1>3 DEF ThreadTyped, Logged
      <4>2. e.open = far[s].open
        BY <1>3, <1>6, SessionIs DEF Receives, FarEnd
      <4>3. QED
        BY <1>7, <2>2, <4>1, <4>2
    <3>2. QED
      BY <1>3, <3>1, HeldClosed
  <2>3. QED
    BY <2>1, <2>2
<1>12. /\ \A z \in Thread : z # s => thread'[z] = thread[z]
       /\ \A b \in ThreadAsk : b # a => sent'[b] = sent[b]
  BY <1>2 DEF ThreadTyped
<1>13. QED
  BY <1>1, <1>2, <1>3, <1>5, <1>7, <1>11, <1>12, HeldMoved

-----------------------------------------------------------------------------
(* What an ask refers to, and what it reads *)

Refers(a) ==
  \A q \in asked[a] :
    /\ q.items = ask[a].items
    /\ q.open => ToSet(q.items) \subseteq q.known /\ q.config = ask[a].config

LEMMA RefersKept ==
  ASSUME AsksItsWindow, NEW a \in ThreadAsk, Refers(a)',
         \A b \in ThreadAsk : b # a => ask'[b] = ask[b] /\ asked'[b] = asked[b]
  PROVE  AsksItsWindow'
<1>1. ASSUME NEW b \in ThreadAsk PROVE Refers(b)'
  <2>1. CASE b = a
    BY <2>1
  <2>2. CASE b # a
    BY <2>2 DEF Refers, AsksItsWindow
  <2>3. QED
    BY <2>1, <2>2
<1>2. QED
  BY <1>1 DEF Refers, AsksItsWindow

LEMMA RefersFor ==
  ASSUME ThreadTyped, Sited, AsksItsWindow, NEW a \in ThreadAsk, SessionFor(a)
  PROVE  AsksItsWindow'
<1>1. tpc[a] = "idle" /\ UNCHANGED asked
  BY DEF SessionFor, At
<1>2. asked'[a] = {}
  BY <1>1 DEF Sited
<1>3. Refers(a)'
  BY <1>2 DEF Refers
<1>4. \A b \in ThreadAsk : b # a => ask'[b] = ask[b] /\ asked'[b] = asked[b]
  BY <1>1 DEF SessionFor, ThreadTyped
<1>5. QED
  BY <1>3, <1>4, RefersKept

LEMMA RefersDispatch ==
  ASSUME ThreadTyped, Sited, InLine, Windowed, Held, AsksItsWindow, NEW a \in ThreadAsk, Dispatch(a)
  PROVE  AsksItsWindow'
<1>1. PICK s : s = ask[a].session
  OBVIOUS
<1>2. tpc[a] = "dispatch" /\ asked' = [asked EXCEPT ![a] = {response_create_frame(s)}] /\ UNCHANGED ask
  BY <1>1 DEF Dispatch, At
<1>3. s \in Thread /\ HeldAt(s) /\ Heads(a)
  BY <1>1, <1>2, AskOnThread DEF Held, Heads, Working, Busy
<1>4. thread[s].live /\ thread[s].config_hash = ask[a].config /\ Log(s) = ask[a].items
  BY <1>1, <1>2 DEF Windowed, Window, Log
<1>5. \A b \in ThreadAsk : ~Appends(b, s)
  BY <1>1, <1>2, <1>3, Quiet DEF Appends
<1>6. far[s].open => far[s].config = ask[a].config /\ ToSet(Log(s)) \subseteq ToSet(far[s].items)
  BY <1>3, <1>4, <1>5 DEF HeldAt, HeldOf, Holds
<1>7. PICK q : q = response_create_frame(s)
  OBVIOUS
<1>8. /\ q.items = ask[a].items
      /\ q.open => ToSet(q.items) \subseteq q.known /\ q.config = ask[a].config
  BY <1>4, <1>6, <1>7 DEF response_create_frame
<1>9. asked'[a] = {q} /\ \A b \in ThreadAsk : b # a => asked'[b] = asked[b]
  BY <1>2, <1>7 DEF ThreadTyped
<1>10. Refers(a)'
  BY <1>2, <1>8, <1>9 DEF Refers
<1>11. QED
  BY <1>2, <1>9, <1>10, RefersKept

ReadsRight(a) == replies[a] \subseteq {a} \/ Deserted(ask[a].session) # {}

LEMMA RepliesKept ==
  ASSUME ThreadTyped, RepliesNeedDesertion, NEW a \in ThreadAsk, NEW v, tpc[a] # "gone",
         tpc' = [tpc EXCEPT ![a] = v] \/ UNCHANGED tpc, UNCHANGED ask,
         \A b \in ThreadAsk : b # a => replies'[b] = replies[b],
         replies'[a] = replies[a] \/ replies'[a] \subseteq {a} \/ Deserted(ask[a].session) # {}
  PROVE  RepliesNeedDesertion'
<1>1. \A s : Deserted(s) # {} => Deserted(s)' # {}
  BY DesertedKept
<1>2. ASSUME NEW b \in ThreadAsk PROVE ReadsRight(b)'
  <2>1. PICK s : s = ask[b].session
    OBVIOUS
  <2>2. replies[b] \subseteq {b} \/ Deserted(s) # {}
    BY <2>1 DEF RepliesNeedDesertion
  <2>3. replies'[b] \subseteq {b} \/ Deserted(s)' # {}
    BY <1>1, <2>1, <2>2
  <2>4. QED
    BY <2>1, <2>3 DEF ReadsRight, Deserted
<1>3. QED
  BY <1>2 DEF RepliesNeedDesertion, ReadsRight

LEMMA RepliesFor ==
  ASSUME ThreadTyped, Sited, RepliesNeedDesertion, NEW a \in ThreadAsk, SessionFor(a)
  PROVE  RepliesNeedDesertion'
<1>1. tpc[a] = "idle" /\ UNCHANGED replies
  BY DEF SessionFor, At
<1>2. replies'[a] = {} /\ \A b \in ThreadAsk : b # a => ask'[b] = ask[b]
  BY <1>1 DEF Sited, SessionFor, ThreadTyped
<1>3. ASSUME NEW b \in ThreadAsk PROVE ReadsRight(b)'
  <2>1. CASE b = a
    BY <1>2, <2>1 DEF ReadsRight
  <2>2. CASE b # a
    <3>1. PICK s : s = ask[b].session
      OBVIOUS
    <3>2. replies[b] \subseteq {b} \/ Deserted(s) # {}
      BY <3>1 DEF RepliesNeedDesertion
    <3>3. replies'[b] \subseteq {b} \/ Deserted(s)' # {}
      BY <1>1, <3>2, DesertedFor
    <3>4. ask'[b].session = s
      BY <1>2, <2>2, <3>1
    <3>5. QED
      BY <3>3, <3>4 DEF ReadsRight, Deserted
  <2>3. QED
    BY <2>1, <2>2
<1>4. QED
  BY <1>3 DEF RepliesNeedDesertion, ReadsRight

LEMMA RepliesRunAsk ==
  ASSUME ThreadTyped, Sited, InLine, Owing, RepliesNeedDesertion, NEW a \in ThreadAsk, RunAsk(a)
  PROVE  RepliesNeedDesertion'
<1>1. PICK r \in far[ask[a].session].owed \ {Refusal} :
        At(a, "read", "answered") /\ replies' = [replies EXCEPT ![a] = {r}]
  BY DEF RunAsk
<1>2. tpc[a] = "read" /\ tpc' = [tpc EXCEPT ![a] = "answered"] /\ UNCHANGED ask
  BY <1>1 DEF At, RunAsk
<1>3. Deserted(ask[a].session) = {} => r = a
  BY <1>2, ReadsOwn
<1>4. replies'[a] = {r} /\ \A b \in ThreadAsk : b # a => replies'[b] = replies[b]
  BY <1>1 DEF ThreadTyped
<1>5. replies'[a] \subseteq {a} \/ Deserted(ask[a].session) # {}
  BY <1>3, <1>4
<1>6. tpc[a] # "gone"
  BY <1>2
<1>7. QED
  BY <1>2, <1>4, <1>5, <1>6, RepliesKept

-----------------------------------------------------------------------------
(* The invariant, action by action *)

LEMMA ThreadInvInit == ThreadInit => ThreadInv
<1>1. SUFFICES ASSUME ThreadInit PROVE ThreadInv
  OBVIOUS
<1>2. AsksItsWindow /\ RepliesNeedDesertion
  BY <1>1 DEF ThreadInit, AsksItsWindow, RepliesNeedDesertion
<1>3. QED
  BY <1>1, <1>2, TypedInit, SitedInit, LineInit, WindowedInit, HeldInit, OwingInit DEF ThreadInv

LEMMA ThreadFor ==
  ASSUME ThreadInv, NEW a \in ThreadAsk, SessionFor(a)
  PROVE  ThreadInv'
BY TypedFor, SitedFor, LineFor, WindowedFor, HeldFor, OwingFor, RefersFor, RepliesFor DEF ThreadInv

\* What every step of an ask that has a session keeps.
LEMMA ThreadMove ==
  ASSUME ThreadInv, NEW a \in ThreadAsk, NEW v, v # "idle", tpc[a] # "idle", tpc[a] # "gone",
         tpc' = [tpc EXCEPT ![a] = v] \/ UNCHANGED tpc, UNCHANGED <<registry, created, ask, asked, replies>>
  PROVE  Sited' /\ AsksItsWindow' /\ RepliesNeedDesertion'
<1>1. Sited'
  BY SitedMove DEF ThreadInv
<1>2. AsksItsWindow'
  BY DEF ThreadInv, AsksItsWindow
<1>3. RepliesNeedDesertion'
  BY RepliesKept DEF ThreadInv
<1>4. QED
  BY <1>1, <1>2, <1>3

LEMMA ThreadTouch ==
  ASSUME ThreadInv, NEW a \in ThreadAsk, Touch(a)
  PROVE  ThreadInv'
<1>1. /\ tpc[a] = "found" /\ tpc' = [tpc EXCEPT ![a] = "queued"]
      /\ UNCHANGED <<created, thread, far, ask, sent, asked, replies>>
  BY DEF Touch, At
<1>2. sent'[a] = 0
  BY <1>1 DEF ThreadInv, Windowed, Window
<1>3. Windowed'
  BY <1>1, <1>2, WindowRest DEF ThreadInv
<1>4. AsksItsWindow' /\ RepliesNeedDesertion'
  BY <1>1, RepliesKept DEF ThreadInv, AsksItsWindow
<1>5. QED
  BY <1>3, <1>4, TypedFor, SitedTouch, LineTouch, HeldFor, OwingElse DEF ThreadInv

LEMMA ThreadBegin ==
  ASSUME ThreadInv, NEW a \in ThreadAsk, Begin(a)
  PROVE  ThreadInv'
<1>1. PICK v \in {"connect", "append", "dispatch"} :
        /\ tpc[a] = "queued" /\ tpc' = [tpc EXCEPT ![a] = v] /\ Head(waiting[ask[a].session]) = a
        /\ UNCHANGED <<registry, created, waiting, ask, sent, asked, replies>>
  BY DEF Begin, At, AfterLog
<1>2. InLine'
  BY <1>1, LineMoved DEF ThreadInv
<1>3. Windowed'
  BY WindowBegin DEF ThreadInv
<1>4. QED
  BY <1>1, <1>2, <1>3, ThreadMove, TypedSocket, HeldBegin, OwingElse DEF ThreadInv

LEMMA ThreadConnect ==
  ASSUME ThreadInv, NEW a \in ThreadAsk, Connect(a)
  PROVE  ThreadInv'
<1>1. PICK v \in {"append", "dispatch"} :
        /\ tpc[a] = "connect" /\ tpc' = [tpc EXCEPT ![a] = v]
        /\ UNCHANGED <<registry, created, waiting, ask, sent, asked, replies>>
  BY DEF Connect, At, AfterLog
<1>2. InLine'
  BY <1>1, LineMoved DEF ThreadInv, Working, Busy
<1>3. QED
  BY <1>1, <1>2, ThreadMove, TypedSocket, WindowConnect, HeldConnect, OwingElse DEF ThreadInv

LEMMA ThreadAppend ==
  ASSUME ThreadInv, NEW a \in ThreadAsk, AppendItem(a)
  PROVE  ThreadInv'
<1>1. /\ tpc[a] = "append" /\ (tpc' = [tpc EXCEPT ![a] = "dispatch"] \/ UNCHANGED tpc)
      /\ UNCHANGED <<registry, created, waiting, ask, asked, replies>>
  BY DEF AppendItem, At
<1>2. tpc[a] = "append"
  BY DEF AppendItem
<1>3. InLine'
  BY <1>1, <1>2, LineMoved DEF ThreadInv, Working, Busy
<1>4. QED
  BY <1>1, <1>2, <1>3, ThreadMove, TypedAppend, WindowAppend, HeldAppend, OwingAppend DEF ThreadInv

LEMMA ThreadDispatch ==
  ASSUME ThreadInv, NEW a \in ThreadAsk, Dispatch(a)
  PROVE  ThreadInv'
<1>1. /\ tpc[a] = "dispatch" /\ tpc' = [tpc EXCEPT ![a] = "read"]
      /\ UNCHANGED <<registry, created, thread, waiting, ask, sent, replies>>
      /\ \A b \in ThreadAsk : b # a => asked'[b] = asked[b]
  BY DEF Dispatch, At, ThreadInv, ThreadTyped
<1>2. InLine'
  BY <1>1, LineMoved DEF ThreadInv, Working, Busy
<1>3. Sited'
  BY <1>1, SitedMove DEF ThreadInv
<1>4. sent'[a] = 0
  BY <1>1 DEF ThreadInv, Windowed, Window
<1>5. Windowed'
  BY <1>1, <1>4, WindowRest DEF ThreadInv
<1>6. RepliesNeedDesertion'
  BY <1>1, RepliesKept DEF ThreadInv
<1>7. QED
  BY <1>2, <1>3, <1>5, <1>6, TypedDispatch, HeldRead, OwingDispatch, RefersDispatch DEF ThreadInv

LEMMA ThreadRunAsk ==
  ASSUME ThreadInv, NEW a \in ThreadAsk, RunAsk(a)
  PROVE  ThreadInv'
<1>1. /\ tpc[a] = "read" /\ tpc' = [tpc EXCEPT ![a] = "answered"] /\ Release(a)
      /\ UNCHANGED <<registry, created, thread, ask, sent, asked>>
      /\ \A b \in ThreadAsk : b # a => replies'[b] = replies[b]
  BY DEF RunAsk, At, ThreadInv, ThreadTyped
<1>2. InLine'
  BY <1>1, LineLeft DEF ThreadInv, Busy
<1>3. Sited'
  BY <1>1, SitedMove DEF ThreadInv
<1>4. sent'[a] = 0
  BY <1>1 DEF ThreadInv, Windowed, Window
<1>5. Windowed'
  BY <1>1, <1>4, WindowRest DEF ThreadInv
<1>6. AsksItsWindow'
  BY <1>1 DEF ThreadInv, AsksItsWindow
<1>7. QED
  BY <1>2, <1>3, <1>5, <1>6, TypedRunAsk, HeldRead, OwingRunAsk, RepliesRunAsk DEF ThreadInv

LEMMA ThreadFails ==
  ASSUME ThreadInv, NEW a \in ThreadAsk, AskFails(a)
  PROVE  ThreadInv'
<1>1. /\ tpc[a] \in Working /\ tpc' = [tpc EXCEPT ![a] = "failed"] /\ Release(a)
      /\ UNCHANGED <<registry, created, ask, asked, replies>>
      /\ sent' = [sent EXCEPT ![a] = 0]
      /\ thread' = [thread EXCEPT ![ask[a].session] = [thread[ask[a].session] EXCEPT !.live = FALSE]]
  BY DEF AskFails, Fails, Set, At, Working, Busy
<1>2. /\ sent'[a] = 0 /\ \A b \in ThreadAsk : b # a => sent'[b] = sent[b]
      /\ \A z \in Thread : z # ask[a].session => thread'[z] = thread[z]
  BY <1>1 DEF ThreadInv, ThreadTyped
<1>3. Windowed'
  BY <1>1, <1>2, WindowRest DEF ThreadInv, Heads
<1>4. InLine'
  BY <1>1, LineLeft DEF ThreadInv, Busy
<1>5. tpc[a] # "idle" /\ tpc[a] # "gone"
  BY <1>1 DEF Working, Busy
<1>6. QED
  BY <1>1, <1>3, <1>4, <1>5, ThreadMove, TypedEnds, HeldFails, OwingFails DEF ThreadInv

LEMMA ThreadAbandon ==
  ASSUME ThreadInv, NEW a \in ThreadAsk, Abandon(a)
  PROVE  ThreadInv'
<1>1. /\ tpc[a] \in Busy /\ tpc' = [tpc EXCEPT ![a] = "gone"] /\ Release(a)
      /\ UNCHANGED <<registry, created, thread, far, ask, sent, asked, replies>>
  BY DEF Abandon, At
<1>2. Windowed'
  BY <1>1, WindowRest DEF ThreadInv
<1>3. InLine'
  BY <1>1, LineLeft DEF ThreadInv, Busy
<1>4. tpc[a] # "idle" /\ tpc[a] # "gone"
  BY <1>1 DEF Busy
<1>5. QED
  BY <1>1, <1>2, <1>3, <1>4, ThreadMove, TypedEnds, HeldAbandon, OwingElse DEF ThreadInv

LEMMA ThreadLose ==
  ASSUME ThreadInv, NEW s \in Thread, Lose(s)
  PROVE  ThreadInv'
<1>1. UNCHANGED <<registry, created, thread, waiting, tpc, ask, sent, asked, replies>>
  BY DEF Lose
<1>2. Sited' /\ InLine' /\ Windowed'
  BY <1>1 DEF ThreadInv, Sited, Started, InLine, Windowed, Window
<1>3. AsksItsWindow' /\ RepliesNeedDesertion'
  BY <1>1 DEF ThreadInv, AsksItsWindow, RepliesNeedDesertion, Deserted
<1>4. QED
  BY <1>2, <1>3, TypedLose, HeldLose, OwingLose DEF ThreadInv

LEMMA ThreadStill ==
  ASSUME ThreadInv, UNCHANGED threadVars
  PROVE  ThreadInv'
<1>1. UNCHANGED <<registry, created, thread, far, waiting, tpc, ask, sent, asked, replies>>
  BY DEF threadVars
<1>2. ThreadTyped' /\ Sited' /\ InLine' /\ Windowed'
  BY <1>1 DEF ThreadInv, ThreadTyped, Sited, Started, InLine, Windowed, Window
<1>3. Held'
  BY <1>1 DEF ThreadInv, Held, HeldAt, HeldOf, Appends, Log, Deserted
<1>4. Owing' /\ AsksItsWindow' /\ RepliesNeedDesertion'
  BY <1>1 DEF ThreadInv, Owing, AsksItsWindow, RepliesNeedDesertion, Deserted
<1>5. QED
  BY <1>2, <1>3, <1>4 DEF ThreadInv

LEMMA ThreadInvNext == ThreadInv /\ [ThreadNext]_threadVars => ThreadInv'
<1>1. SUFFICES ASSUME ThreadInv, [ThreadNext]_threadVars PROVE ThreadInv'
  OBVIOUS
<1>2. ASSUME NEW a \in ThreadAsk,
             \/ SessionFor(a) \/ Touch(a) \/ Begin(a) \/ Connect(a) \/ AppendItem(a)
             \/ Dispatch(a) \/ RunAsk(a) \/ AskFails(a) \/ Abandon(a)
      PROVE  ThreadInv'
  BY <1>1, <1>2, ThreadFor, ThreadTouch, ThreadBegin, ThreadConnect, ThreadAppend,
     ThreadDispatch, ThreadRunAsk, ThreadFails, ThreadAbandon, Zenon
<1>3. CASE UNCHANGED threadVars
  BY <1>1, <1>3, ThreadStill
<1>4. QED
  BY <1>1, <1>2, <1>3, ThreadLose, Zenon DEF ThreadNext

LEMMA ThreadInvAlways == ThreadSpec => []ThreadInv
<1>1. QED
  BY ThreadInvInit, ThreadInvNext, PTL DEF ThreadSpec

LEMMA SentIsHeld ==
  ASSUME ThreadInv PROVE LogMatchesConversation
<1>1. SUFFICES ASSUME NEW s \in Thread, thread[s].live, far[s].open
               PROVE  /\ ToSet(Sent(s)) \subseteq ToSet(far[s].items)
                      /\ Refusal \notin far[s].owed =>
                           /\ InOrder(Sent(s), far[s].items)
                           /\ Deserted(s) = {} => far[s].items = Sent(s)
  BY DEF LogMatchesConversation
<1>2. PICK at : at = {a \in ThreadAsk : tpc[a] = "append" /\ ask[a].session = s}
  OBVIOUS
<1>3. HeldAt(s)
  BY DEF ThreadInv, Held
<1>4. HeldOf(s, Sent(s))
  <2>1. CASE at = {}
    <3>1. \A a \in ThreadAsk : ~Appends(a, s)
      BY <1>2, <2>1 DEF Appends
    <3>2. Sent(s) = Log(s)
      BY <1>2, <2>1 DEF Sent
    <3>3. QED
      BY <1>1, <1>3, <3>1, <3>2 DEF HeldAt
  <2>2. CASE at # {}
    <3>1. PICK a : a = CHOOSE b \in at : TRUE
      OBVIOUS
    <3>2. a \in at
      BY <2>2, <3>1
    <3>3. a \in ThreadAsk /\ Appends(a, s)
      BY <1>2, <3>2 DEF Appends
    <3>4. Sent(s) = SubSeq(ask[a].items, 1, Len(Log(s)) + sent[a])
      BY <1>2, <2>2, <3>1 DEF Sent
    <3>5. QED
      BY <1>1, <1>3, <3>3, <3>4 DEF HeldAt
  <2>3. QED
    BY <2>1, <2>2
<1>5. QED
  BY <1>4 DEF HeldOf, Holds

\* What a session has sent since it was connected (thread.rs:211-288) is in the
\* provider's conversation, in order unless the provider refused an item, and
\* alone in it unless an ask was abandoned on the session.
THEOREM LogIsTheConversation == ThreadSpec => []LogMatchesConversation
<1>1. ThreadInv => LogMatchesConversation
  BY SentIsHeld
<1>2. QED
  BY <1>1, ThreadInvAlways, PTL

\* An ask's response.create refers to its own window under its own instructions,
\* whatever was appended, reset or abandoned before (thread.rs:233-294).
THEOREM AsksKeepToTheirWindow == ThreadSpec => []AsksItsWindow
<1>1. ThreadInv => AsksItsWindow
  BY DEF ThreadInv
<1>2. QED
  BY <1>1, ThreadInvAlways, PTL

\* run_ask takes the next terminal envelope for its own (thread.rs:347-405): it
\* is, as long as nobody was abandoned on the session.
THEOREM OnlyDesertionCrosses == ThreadSpec => []RepliesNeedDesertion
<1>1. ThreadInv => RepliesNeedDesertion
  BY DEF ThreadInv
<1>2. QED
  BY <1>1, ThreadInvAlways, PTL

-----------------------------------------------------------------------------
(* One session per thread, while no thread has to leave the registry *)

Threads == {KeyOf[a] : a \in ThreadAsk}
Entry(a) == [key |-> KeyOf[a], session |-> ask[a].session]

\* The registry names each thread once, and an ask's session is its thread's.
Apart(entries) ==
  /\ \A i \in 1..Len(entries) : entries[i].key \in Threads
  /\ \A i, j \in 1..Len(entries) : entries[i].key = entries[j].key => i = j

Resident == Apart(registry) /\ \A a \in Started : InQueue(registry, Entry(a))

LEMMA ResidentInit == ThreadInit => Resident
BY DEF ThreadInit, Resident, Apart, Started

LEMMA ThreadsCounted ==
  IsFiniteSet(Threads) /\ Cardinality(Threads) \in Nat
<1>1. KeyOf \in Surjection(ThreadAsk, Threads)
  BY ThreadAssumption DEF Surjection, Threads
<1>2. QED
  BY <1>1, ThreadAssumption, FS_Surjection, FS_CardinalityType

\* A registry without a thread has fewer entries than there are threads.
LEMMA RoomForOne ==
  ASSUME NEW U, NEW q \in Seq(U), Apart(q), NEW k \in Threads,
         \A i \in 1..Len(q) : q[i].key # k
  PROVE  Len(q) < Cardinality(Threads)
<1>1. PICK n \in Nat : n = Len(q)
  OBVIOUS
<1>2. PICK f : f = [i \in 1..n |-> q[i].key]
  OBVIOUS
<1>3. f \in Injection(1..n, Threads \ {k})
  <2>1. f \in [1..n -> Threads \ {k}]
    BY <1>1, <1>2 DEF Apart
  <2>2. \A i, j \in 1..n : f[i] = f[j] => i = j
    BY <1>1, <1>2 DEF Apart
  <2>3. QED
    BY <2>1, <2>2 DEF Injection, IsInjective
<1>4. IsFiniteSet(Threads \ {k}) /\ Cardinality(Threads \ {k}) = Cardinality(Threads) - 1
  BY ThreadsCounted, FS_RemoveElement
<1>5. Cardinality(1..n) <= Cardinality(Threads \ {k})
  BY <1>3, <1>4, FS_Injection
<1>6. Cardinality(1..n) = n
  <2>1. 1 \in Int /\ n \in Int
    OBVIOUS
  <2>2. Cardinality(1..n) = IF 1 > n THEN 0 ELSE n - 1 + 1
    BY <2>1, FS_Interval, Zenon
  <2>3. QED
    BY <2>2
<1>7. QED
  BY <1>1, <1>4, <1>5, <1>6, ThreadsCounted

LEMMA ResidentFor ==
  ASSUME ThreadInv, Resident, Cardinality(Threads) <= MaxThreads, NEW a \in ThreadAsk,
         SessionFor(a)
  PROVE  Resident'
<1>1. PICK U : U = [key : Key, session : 1..created]
  OBVIOUS
<1>2. registry \in Seq(U) /\ ask \in [ThreadAsk -> Asking] /\ KeyOf[a] \in Threads
  BY <1>1 DEF ThreadInv, Sited, ThreadTyped, Threads
<1>3. Started' = Started \cup {a} /\ a \notin Started /\ Started \subseteq ThreadAsk
  BY DEF SessionFor, At, Started, ThreadInv, ThreadTyped
<1>4. \A b \in Started : Entry(b)' = Entry(b)
  BY <1>2, <1>3 DEF SessionFor, Entry
<1>5. CASE Registered(KeyOf[a]) # {}
  <2>1. PICK i \in Registered(KeyOf[a]) : ask'[a].session = registry[i].session
    BY <1>2, <1>5 DEF SessionFor
  <2>2. registry' = registry
    BY <1>5 DEF SessionFor
  <2>3. i \in 1..Len(registry) /\ registry[i].key = KeyOf[a]
    BY <1>2 DEF Registered
  <2>4. registry[i] \in U
    BY <1>2, <2>3, ElementIs
  <2>5. registry[i] = [key |-> registry[i].key, session |-> registry[i].session]
    BY <1>1, <2>4
  <2>6. Entry(a)' = registry[i]
    BY <2>1, <2>3, <2>5 DEF Entry
  <2>7. InQueue(registry', Entry(a)')
    BY <2>2, <2>3, <2>6 DEF InQueue
  <2>8. \A b \in Started : InQueue(registry', Entry(b)')
    BY <1>4, <2>2 DEF Resident
  <2>9. QED
    BY <1>3, <2>2, <2>7, <2>8 DEF Resident, Apart
<1>6. CASE Registered(KeyOf[a]) = {}
  <2>1. PICK e : e = [key |-> KeyOf[a], session |-> created + 1]
    OBVIOUS
  <2>2. \A i \in 1..Len(registry) : registry[i].key # KeyOf[a]
    BY <1>2, <1>6 DEF Registered
  <2>3. Len(registry) < Cardinality(Threads)
    BY <1>2, <2>2, RoomForOne DEF Resident
  <2>4. EvictIdle = registry
    BY <1>2, <2>3, ThreadsCounted, ThreadAssumption DEF EvictIdle
  <2>5. registry' = Append(registry, e) /\ ask'[a].session = created + 1
    BY <1>2, <1>6, <2>1, <2>4 DEF SessionFor
  <2>6. PICK n \in Nat : n = Len(registry)
    BY <1>2
  <2>7. /\ Len(registry') = n + 1 /\ registry'[n + 1] = e
        /\ \A i \in 1..n : registry'[i] = registry[i]
    BY <1>2, <2>5, <2>6
  <2>8. Apart(registry')
    <3>1. \A i \in 1..n : registry'[i].key \in Threads /\ registry'[i].key # KeyOf[a]
      BY <2>2, <2>6, <2>7 DEF Resident, Apart
    <3>2. registry'[n + 1].key = KeyOf[a]
      BY <2>1, <2>7
    <3>3. \A i \in 1..(n + 1) : i \in 1..n \/ i = n + 1
      OBVIOUS
    <3>4. \A i \in 1..Len(registry') : registry'[i].key \in Threads
      BY <1>2, <2>7, <3>1, <3>2, <3>3
    <3>5. ASSUME NEW i \in 1..Len(registry'), NEW j \in 1..Len(registry'),
                 registry'[i].key = registry'[j].key
          PROVE  i = j
      <4>1. CASE i \in 1..n /\ j \in 1..n
        BY <2>6, <2>7, <3>5, <4>1 DEF Resident, Apart
      <4>2. CASE ~(i \in 1..n /\ j \in 1..n)
        BY <2>7, <3>1, <3>2, <3>3, <3>5, <4>2
      <4>3. QED
        BY <4>1, <4>2
    <3>6. QED
      BY <3>4, <3>5 DEF Apart
  <2>9. \A v : InQueue(registry, v) => InQueue(registry', v)
    BY <2>6, <2>7 DEF InQueue
  <2>10. InQueue(registry', e)
    BY <2>6, <2>7 DEF InQueue
  <2>11. Entry(a)' = e
    BY <2>1, <2>5 DEF Entry
  <2>12. \A b \in Started : InQueue(registry', Entry(b)')
    BY <1>4, <2>9 DEF Resident
  <2>13. QED
    BY <1>3, <2>8, <2>10, <2>11, <2>12 DEF Resident
<1>7. QED
  BY <1>5, <1>6

\* An entry that is renewed goes to the end; the others stay in their order.
LEMMA RenewedApart ==
  ASSUME NEW U, NEW q \in Seq(U), NEW e \in U, Apart(q), InQueue(q, e),
         NEW r, r = Append(RemoveFirst(q, e), e)
  PROVE  Apart(r) /\ \A v : InQueue(q, v) => InQueue(r, v)
<1>1. PICK k \in 1..Len(q) :
        q[k] = e /\ RemoveFirst(q, e) = SubSeq(q, 1, k - 1) \o SubSeq(q, k + 1, Len(q))
  BY RemovedAt
<1>2. PICK m : m = RemoveFirst(q, e)
  OBVIOUS
<1>3. /\ m \in Seq(U) /\ Len(m) = Len(q) - 1
      /\ \A i \in 1..(k - 1) : m[i] = q[i]
      /\ \A i \in k..(Len(q) - 1) : m[i] = q[i + 1]
  BY <1>1, <1>2, CutQueue
<1>4. PICK n \in Nat : n = Len(q)
  OBVIOUS
<1>5. PICK p : p = [i \in 1..n |-> IF i < k THEN i ELSE IF i < n THEN i + 1 ELSE k]
  OBVIOUS
<1>6. /\ \A i \in 1..n : p[i] \in 1..n
      /\ \A i, j \in 1..n : p[i] = p[j] => i = j
  BY <1>4, <1>5
<1>7. Len(r) = n /\ r[n] = e /\ \A i \in 1..(n - 1) : r[i] = m[i]
  BY <1>2, <1>3, <1>4
<1>8. \A i \in 1..n : r[i] = q[p[i]]
  <2>1. ASSUME NEW i \in 1..n PROVE r[i] = q[p[i]]
    <3>1. CASE i = n
      <4>1. p[i] = k
        BY <1>4, <1>5, <3>1
      <4>2. QED
        BY <1>1, <1>7, <3>1, <4>1
    <3>2. CASE i < n /\ i < k
      BY <1>3, <1>4, <1>5, <1>7, <3>2
    <3>3. CASE i < n /\ ~(i < k)
      <4>1. i \in k..(n - 1) /\ i \in 1..(n - 1)
        BY <1>1, <3>3
      <4>2. p[i] = i + 1
        BY <1>5, <3>3
      <4>3. QED
        BY <1>3, <1>4, <1>7, <4>1, <4>2
    <3>4. i = n \/ i < n
      OBVIOUS
    <3>5. QED
      BY <3>1, <3>2, <3>3, <3>4
  <2>2. QED
    BY <2>1
<1>9. Apart(r)
  <2>1. \A i \in 1..n : r[i].key \in Threads
    BY <1>4, <1>6, <1>8 DEF Apart
  <2>2. ASSUME NEW i \in 1..n, NEW j \in 1..n, r[i].key = r[j].key PROVE i = j
    <3>1. p[i] \in 1..Len(q) /\ p[j] \in 1..Len(q) /\ q[p[i]].key = q[p[j]].key
      BY <1>4, <1>6, <1>8, <2>2
    <3>2. p[i] = p[j]
      BY <3>1 DEF Apart
    <3>3. QED
      BY <1>6, <3>2
  <2>3. QED
    BY <1>7, <2>1, <2>2 DEF Apart
<1>10. ASSUME NEW v, InQueue(q, v) PROVE InQueue(r, v)
  <2>1. CASE v = e
    BY <1>2, <1>3, <2>1, Joins
  <2>2. CASE v # e
    BY <1>2, <1>3, <1>10, <2>2, Leaves, Joins
  <2>3. QED
    BY <2>1, <2>2
<1>11. QED
  BY <1>9, <1>10

LEMMA ResidentTouch ==
  ASSUME ThreadInv, Resident, NEW a \in ThreadAsk, Touch(a)
  PROVE  Resident'
<1>1. PICK U : U = [key : Key, session : 1..created]
  OBVIOUS
<1>2. /\ tpc[a] = "found" /\ tpc' = [tpc EXCEPT ![a] = "queued"] /\ UNCHANGED <<created, ask>>
  BY DEF Touch, At
<1>3. registry \in Seq(U) /\ a \in Started
  BY <1>1, <1>2 DEF ThreadInv, Sited, Started
<1>4. PICK e : e = Entry(a)
  OBVIOUS
<1>5. InQueue(registry, e)
  BY <1>3, <1>4 DEF Resident
<1>6. e \in U
  BY <1>3, <1>5, ElementIs DEF InQueue
<1>7. registry' = Append(RemoveFirst(registry, e), e)
  <2>1. Contains(registry, e)
    BY <1>3, <1>5 DEF Contains, InQueue
  <2>2. QED
    BY <1>4, <2>1 DEF Touch, Entry
<1>8. Apart(registry') /\ \A v : InQueue(registry, v) => InQueue(registry', v)
  BY <1>3, <1>5, <1>6, <1>7, RenewedApart DEF Resident
<1>9. Started' = Started /\ \A b \in Started : Entry(b)' = Entry(b)
  BY <1>2, StartedKept DEF ThreadInv, Entry
<1>10. QED
  BY <1>8, <1>9 DEF Resident

LEMMA ResidentKept ==
  ASSUME ThreadInv, Resident, Cardinality(Threads) <= MaxThreads, [ThreadNext]_threadVars
  PROVE  Resident'
<1>1. ASSUME UNCHANGED <<registry, ask, Started>> PROVE Resident'
  BY <1>1 DEF Resident, Apart, Entry
<1>2. ASSUME NEW a \in ThreadAsk,
             \/ Begin(a) \/ Connect(a) \/ AppendItem(a) \/ Dispatch(a)
             \/ RunAsk(a) \/ AskFails(a) \/ Abandon(a)
      PROVE  Resident'
  <2>1. UNCHANGED <<registry, ask>>
    BY <1>2 DEF Begin, Connect, AppendItem, Dispatch, RunAsk, AskFails, Abandon
  <2>2. /\ tpc[a] # "idle"
        /\ UNCHANGED tpc \/ \E v : v # "idle" /\ tpc' = [tpc EXCEPT ![a] = v]
    BY <1>2 DEF Begin, Connect, AppendItem, Dispatch, RunAsk, AskFails, Abandon, AfterLog, At, Busy
  <2>3. Started' = Started
    BY <2>2, StartedKept DEF ThreadInv, Started
  <2>4. QED
    BY <1>1, <2>1, <2>3
<1>3. ASSUME NEW s \in Thread, Lose(s) PROVE Resident'
  BY <1>1, <1>3 DEF Lose, Started
<1>4. CASE UNCHANGED threadVars
  BY <1>1, <1>4 DEF threadVars, Started
<1>5. ASSUME NEW a \in ThreadAsk, SessionFor(a) \/ Touch(a) PROVE Resident'
  BY <1>5, ResidentFor, ResidentTouch
<1>6. QED
  BY <1>2, <1>3, <1>4, <1>5, Zenon DEF ThreadNext

\* "Judge asks on one thread are inherently sequential" (thread.rs:123) as long
\* as the registry holds every thread in use, however often sockets are lost and
\* callers go away: only an eviction gives a thread a second session.
THEOREM ResidentThreadsSequential ==
  Cardinality(Threads) <= MaxThreads => (ThreadSpec => []ThreadSequential)
<1>1. SUFFICES ASSUME Cardinality(Threads) <= MaxThreads PROVE ThreadSpec => []ThreadSequential
  OBVIOUS
<1>2. ThreadInv /\ Resident => ThreadSequential
  <2>1. SUFFICES ASSUME ThreadInv, Resident, NEW a \in ThreadAsk, NEW b \in ThreadAsk,
                        KeyOf[a] = KeyOf[b], tpc[a] \in Working, tpc[b] \in Working
                 PROVE  a = b
    BY DEF ThreadSequential, Working
  <2>2. InQueue(registry, Entry(a)) /\ InQueue(registry, Entry(b))
    BY <2>1 DEF Resident, Started, Working, Busy
  <2>3. PICK i \in 1..Len(registry), j \in 1..Len(registry) :
          registry[i] = Entry(a) /\ registry[j] = Entry(b)
    BY <2>2 DEF InQueue
  <2>4. i = j
    BY <2>1, <2>3 DEF Resident, Apart, Entry
  <2>5. ask[a].session = ask[b].session
    BY <2>3, <2>4 DEF Entry
  <2>6. QED
    BY <2>1, <2>5, HeadWorks DEF ThreadInv
<1>3. ThreadInv /\ Resident /\ [ThreadNext]_threadVars => Resident'
  BY <1>1, ResidentKept
<1>4. QED
  BY <1>2, <1>3, ResidentInit, ThreadInvAlways, PTL DEF ThreadSpec

\* While no caller goes away, run_ask (thread.rs:347-405) returns every ask its
\* own answer, through lost sockets, failed asks and evicted sessions.
THEOREM StayingAsksHearTheirOwn ==
  Hasty = {} => (ThreadSpec => [](\A a \in ThreadAsk : replies[a] \subseteq {a}))
<1>1. SUFFICES ASSUME Hasty = {}
               PROVE  ThreadSpec => [](\A a \in ThreadAsk : replies[a] \subseteq {a})
  OBVIOUS
<1> DEFINE Stays == \A a \in ThreadAsk : tpc[a] # "gone"
<1>2. ThreadInit => Stays
  BY DEF ThreadInit
<1>3. Stays /\ ThreadInv /\ [ThreadNext]_threadVars => Stays'
  <2>1. SUFFICES ASSUME Stays, ThreadInv, [ThreadNext]_threadVars PROVE Stays'
    OBVIOUS
  <2>2. ASSUME NEW a \in ThreadAsk,
               \/ SessionFor(a) \/ Touch(a) \/ Begin(a) \/ Connect(a) \/ AppendItem(a)
               \/ Dispatch(a) \/ RunAsk(a) \/ AskFails(a) \/ Abandon(a)
        PROVE  Stays'
    <3>1. UNCHANGED tpc \/ \E v : v # "gone" /\ tpc' = [tpc EXCEPT ![a] = v]
      BY <1>1, <2>2 DEF SessionFor, Touch, Begin, Connect, AppendItem, Dispatch, RunAsk,
         AskFails, Abandon, AfterLog, At
    <3>2. QED
      BY <2>1, <3>1 DEF ThreadInv, ThreadTyped
  <2>3. ASSUME NEW s \in Thread, Lose(s) PROVE Stays'
    BY <2>1, <2>3 DEF Lose
  <2>4. CASE UNCHANGED threadVars
    BY <2>1, <2>4 DEF threadVars
  <2>5. QED
    BY <2>1, <2>2, <2>3, <2>4, Zenon DEF ThreadNext
<1>4. Stays /\ ThreadInv => \A a \in ThreadAsk : replies[a] \subseteq {a}
  BY DEF ThreadInv, RepliesNeedDesertion, Deserted
<1>5. QED
  BY <1>2, <1>3, <1>4, ThreadInvAlways, PTL DEF ThreadSpec

=============================================================================
