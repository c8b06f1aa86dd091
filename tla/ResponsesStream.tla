---------------------------- MODULE ResponsesStream ----------------------------
(***************************************************************************)
(* How one answer of codex/responses is read (responses.rs): the HTTP      *)
(* lane with its SSE decoder and the assembler that the websocket lane     *)
(* shares.  The provider's answer is a status and either an error body or  *)
(* a stream of server-sent events; the stream reaches the decoder in       *)
(* chunks cut anywhere, also inside an event or inside CR LF.              *)
(*                                                                         *)
(* A stream is a sequence of tokens: CR, LF, and one token for the rest of *)
(* a line.  Texts are sequences of fragments.                              *)
(***************************************************************************)
EXTENDS Naturals, Sequences, SequencesExt

CONSTANTS
  Events,     \* what the provider may send, each a sequence of lines
  MaxEvents,  \* length of a stream in events (bound)
  MaxChunk,   \* length of a chunk in tokens (bound)
  BufferMax   \* SSE_EVENT_BUFFER_MAX, in tokens

\* An event has lines, and no line ends before its end.
IsEvent(e) == e # <<>> /\ e \in Seq(ToSet(e) \ {"CR", "LF"})

ASSUME StreamAssumption ==
  MaxEvents \in Nat /\ MaxChunk \in Nat /\ BufferMax \in Nat /\ \A e \in Events : IsEvent(e)

VARIABLES
  sse, eol,      \* the provider's stream: its events and how it ends lines
  stage,         \* sent, streaming, draining (events of the buffer), ended, overflowed
  pos,           \* tokens the decoder has been given
  buf,           \* SseDecoder.buf
  asm,           \* ResponsesAssembler
  reading,       \* continue, completed, or the class of the error that ended it
  status, code,  \* HTTP status, and the code an error body carries
  verdict        \* AttemptOutcome

decoder == <<pos, buf, asm, reading>>
provided == <<sse, eol, status, code>>
streamVars == <<provided, stage, decoder, verdict>>

Overloads == {"server_is_overloaded", "slow_down", "websocket_connection_limit_reached"}
Classes == {"Success", "LaneOverload", "SharedThrottle", "Failure", "Indeterminate"}

classify_provider_code(c) ==
  CASE c \in Overloads -> "LaneOverload"
    [] c = "rate_limit_exceeded" -> "SharedThrottle"
    [] OTHER -> "Failure"

-----------------------------------------------------------------------------
(* Frames.  The payload of an event, once its data lines are joined.       *)

\* `error.code`, or `error.type` where there is no code; a code that is null
\* hides the type.
provider_error_from_value(err) ==
  CASE err.code = "absent" -> err.type [] err.code = "null" -> "unknown" [] OTHER -> err.code

FrameOf(data) ==
  CASE data \in {<<"delta_a">>, <<"delta_", "a">>} -> [kind |-> "delta", text |-> <<"a">>]
    [] data = <<"delta_b">> -> [kind |-> "delta", text |-> <<"b">>]
    [] data = <<"delta_blank">> -> [kind |-> "delta", text |-> <<" ">>]
    [] data = <<"done_c">> -> [kind |-> "done", text |-> <<"c">>]
    [] data = <<"done_empty">> -> [kind |-> "done", text |-> <<>>]
    [] data = <<"completed">> -> [kind |-> "completed", status |-> "completed"]
    [] data = <<"completed_bare">> -> [kind |-> "completed", status |-> "none"]
    [] data = <<"incomplete">> -> [kind |-> "completed", status |-> "incomplete"]
    [] data = <<"overload">> -> [kind |-> "error", code |-> "server_is_overloaded", type |-> "absent"]
    [] data = <<"limit">> -> [kind |-> "error", code |-> "absent", type |-> "rate_limit_exceeded"]
    [] data = <<"null_code">> -> [kind |-> "error", code |-> "null", type |-> "rate_limit_exceeded"]
    [] data = <<"created">> -> [kind |-> "other"]
    [] OTHER -> [kind |-> "malformed"]

EmptyAssembler == [delta_buf |-> <<>>, done_text |-> {}, completed_status |-> "none", terminal_seen |-> FALSE]

on_frame(a, f) ==
  CASE f.kind = "delta" -> [a EXCEPT !.delta_buf = @ \o f.text]
    [] f.kind = "done" -> [a EXCEPT !.done_text = {f.text}]
    [] f.kind = "completed" -> [a EXCEPT !.terminal_seen = TRUE, !.completed_status = f.status]
    [] OTHER -> a

\* FrameOutcome
OutcomeOf(f) ==
  CASE f.kind = "completed" -> "completed"
    [] f.kind = "error" -> classify_provider_code(provider_error_from_value(f))
    [] f.kind = "malformed" -> "Indeterminate"
    [] OTHER -> "continue"

assembled_text(a) == IF a.done_text = {} THEN a.delta_buf ELSE CHOOSE t \in a.done_text : TRUE
Blank(text) == \A i \in DOMAIN text : text[i] = " "

Err(class, terminal) == [class |-> class, text |-> <<>>, terminal |-> terminal]

\* Mutant: the status of the response is not looked at.
FinishAnyStatus(a) ==
  IF ~Blank(assembled_text(a))
  THEN [class |-> "Success", text |-> assembled_text(a), terminal |-> TRUE]
  ELSE Err("Failure", TRUE)

finish_after_completed(a) ==
  IF a.completed_status \in {"none", "completed"} /\ ~Blank(assembled_text(a))
  THEN [class |-> "Success", text |-> assembled_text(a), terminal |-> TRUE]
  ELSE Err("Failure", TRUE)

\* SseDecoder::finish, and the end of the loop of run_on_socket.
Conclude(a, r) ==
  CASE r = "completed" -> finish_after_completed(a)
    [] r = "continue" -> Err("Indeterminate", a.terminal_seen)
    [] OTHER -> Err(r, a.terminal_seen)

-----------------------------------------------------------------------------
(* The SSE encoding of the stream, external, and its decoder               *)

EndOfLine(e) == IF e = "crlf" THEN <<"CR", "LF">> ELSE <<"LF">>
Encode(event) ==
  FlattenSeq([i \in DOMAIN event |-> <<event[i]>> \o EndOfLine(eol)]) \o EndOfLine(eol)
\* The first k events.
Encoded(k) == FlattenSeq([i \in 1..k |-> Encode(sse[i])])
Tokens == Encoded(Len(sse))

\* Mutant: events end with LF LF only.
FindLfLf(b) ==
  {<<i, 2>> : i \in {j \in 1..(Len(b) - 1) : SubSeq(b, j, j + 1) = <<"LF", "LF">>}}

find_event_separator(b) ==
  {<<i, 2>> : i \in {j \in 1..(Len(b) - 1) : SubSeq(b, j, j + 1) = <<"LF", "LF">>}}
  \cup {<<i, 4>> : i \in {j \in 1..(Len(b) - 3) : SubSeq(b, j, j + 3) = <<"CR", "LF", "CR", "LF">>}}

\* dispatch_event_block: event names and comments are skipped.
Data(token) == IF token \in {"CR", "LF", "event", ":"} THEN <<>> ELSE <<token>>
DataLines(block) == FlattenSeq([i \in DOMAIN block |-> Data(block[i])])

StreamInit ==
  /\ sse \in UNION {[1..n -> Events] : n \in 0..MaxEvents} /\ eol \in {"lf", "crlf"}
  /\ stage = "sent" /\ pos = 0 /\ buf = <<>> /\ asm = EmptyAssembler /\ reading = "continue"
  /\ status = 0 /\ code = "none" /\ verdict = Err("Indeterminate", FALSE)

EndStream(v) == stage' = "ended" /\ verdict' = v

\* send_streaming fails.
SendFails ==
  /\ stage = "sent" /\ EndStream(Err("Indeterminate", FALSE))
  /\ UNCHANGED <<provided, decoder>>

\* classify_http_error_body: a body that is not JSON, has no code, or is longer
\* than HTTP_ERROR_BODY_LIMIT has none.
BodyClass(c) == IF c = "none" THEN {} ELSE {classify_provider_code(c)}

HttpErrorClass(s, c) ==
  CASE s \in {401, 403} -> "Failure"
    [] s = 429 -> IF BodyClass(c) = {"LaneOverload"} THEN "LaneOverload" ELSE "SharedThrottle"
    [] OTHER -> IF BodyClass(c) = {} THEN "Failure" ELSE CHOOSE x \in BodyClass(c) : TRUE

Rejected ==
  /\ stage = "sent" /\ status' \in {401, 403, 429, 500}
  /\ code' \in {"none", "server_is_overloaded", "rate_limit_exceeded", "invalid_prompt"}
  /\ EndStream(Err(HttpErrorClass(status', code'), FALSE))
  /\ UNCHANGED <<sse, eol, decoder>>

\* A 2xx that is not HTTP/2 or not an event stream.
NotAStream ==
  /\ stage = "sent" /\ status' = 200 /\ EndStream(Err("Failure", FALSE))
  /\ UNCHANGED <<sse, eol, code, decoder>>

Streams ==
  /\ stage = "sent" /\ status' = 200 /\ stage' = "streaming"
  /\ UNCHANGED <<sse, eol, code, decoder, verdict>>

\* push
PushChunk(n) ==
  LET chunk == SubSeq(Tokens, pos + 1, pos + n) IN
  /\ stage = "streaming" /\ pos + n <= Len(Tokens)
  /\ IF Len(buf) + n > BufferMax
     THEN /\ stage' = "overflowed" /\ verdict' = Err("Indeterminate", FALSE)
          /\ UNCHANGED <<buf, pos>>
     ELSE /\ buf' = buf \o chunk /\ pos' = pos + n
          /\ stage' = "draining" /\ UNCHANGED verdict
  /\ UNCHANGED <<provided, asm, reading>>

\* One turn of the loop of drain_events.
DrainEvent ==
  LET seps == find_event_separator(buf)
      first == CHOOSE s \in seps : \A t \in seps : s[1] <= t[1]
      data == DataLines(SubSeq(buf, 1, first[1] - 1))
  IN
  /\ stage = "draining" /\ reading = "continue" /\ seps # {}
  /\ buf' = SubSeq(buf, first[1] + first[2], Len(buf))
  /\ IF data = <<>> THEN UNCHANGED <<asm, reading>>
     ELSE asm' = on_frame(asm, FrameOf(data)) /\ reading' = OutcomeOf(FrameOf(data))
  /\ UNCHANGED <<provided, stage, pos, verdict>>

\* The loop ends: the lane waits for the next chunk, or has its outcome.
Drained ==
  /\ stage = "draining"
  /\ IF reading = "continue"
     THEN find_event_separator(buf) = {} /\ stage' = "streaming" /\ UNCHANGED verdict
     ELSE EndStream(Conclude(asm, reading))
  /\ UNCHANGED <<provided, decoder>>

\* The body ends, or fails, wherever it has got to.
BodyEnds ==
  /\ stage = "streaming" /\ EndStream(Conclude(asm, reading))
  /\ UNCHANGED <<provided, decoder>>

StreamNext ==
  \/ SendFails \/ Rejected \/ NotAStream \/ Streams
  \/ (\E n \in 1..MaxChunk : PushChunk(n)) \/ DrainEvent \/ Drained \/ BodyEnds

StreamSpec == StreamInit /\ [][StreamNext]_streamVars

-----------------------------------------------------------------------------
(* The websocket lane on the same frames                                   *)

\* One text message per payload: the loop of run_on_socket up to the first
\* frame that ends it.
Message(event) ==
  LET data == DataLines(event) IN IF data = <<>> THEN <<>> ELSE <<FrameOf(data)>>
Frames(n) == FlattenSeq([i \in 1..n |-> Message(sse[i])])

Read(st, f) ==
  IF st.r = "continue" THEN [a |-> on_frame(st.a, f), r |-> OutcomeOf(f)] ELSE st

ReadAll(frames) ==
  LET After[n \in 0..Len(frames)] ==
        IF n = 0 THEN [a |-> EmptyAssembler, r |-> "continue"]
        ELSE Read(After[n - 1], frames[n])
  IN After[Len(frames)]

run_on_socket(frames) ==
  LET end == ReadAll(frames) IN Conclude(end.a, end.r)

-----------------------------------------------------------------------------
\* Events of the stream that lie within its first pos tokens.
Delivered ==
  CHOOSE k \in 0..Len(sse) :
    Len(Encoded(k)) <= pos /\ (k < Len(sse) => Len(Encoded(k + 1)) > pos)

\* Wherever the stream is cut into chunks and wherever it stops, the HTTP lane
\* comes to what the websocket lane makes of the events that arrived whole:
\* the same class for the admission controller, the same text for the caller,
\* unless the decoder's buffer is full.
LanesAgree ==
  stage = "ended" /\ pos > 0 => verdict = run_on_socket(Frames(Delivered))

\* A success is the whole answer: the provider said it was completed, nothing
\* that arrived before said otherwise, and the text is the last final text or
\* else every fragment, in the order sent.
SuccessIsTheWholeAnswer ==
  verdict.class = "Success" =>
    LET frames == Frames(Delivered) IN
    \E k \in DOMAIN frames :
      /\ frames[k].kind = "completed" /\ frames[k].status # "incomplete"
      /\ \A i \in 1..(k - 1) : frames[i].kind \notin {"completed", "error", "malformed"}
      /\ LET finals == {i \in 1..(k - 1) : frames[i].kind = "done"}
             part == [i \in 1..(k - 1) |->
                        IF frames[i].kind = "delta" THEN frames[i].text ELSE <<>>]
         IN verdict.text = IF finals # {} THEN frames[Max(finals)].text ELSE FlattenSeq(part)

=============================================================================
