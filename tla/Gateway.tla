---------------------------- MODULE Gateway ----------------------------
(***************************************************************************)
(* The two OpenAI endpoints of the daemon (server.rs), through which a     *)
(* client runs a loop of tool calls with a realtime model.  The client is  *)
(* external: it keeps the conversation, appends what the gateway answered  *)
(* and the results of the calls, and sends all of it again.  The pools     *)
(* behind the gateway are external too: what they answer is the model's    *)
(* turn.                                                                   *)
(*                                                                         *)
(* A text is a sequence of fragments, empty for the empty string.          *)
(***************************************************************************)
EXTENDS Naturals, Sequences, SequencesExt

CONSTANTS
  MaxTurns,  \* turns of the model in a conversation (bound)
  MaxCalls   \* calls in one turn (bound)

ASSUME GatewayAssumption == MaxTurns \in Nat /\ MaxCalls \in Nat

VARIABLES
  api,       \* "chat" or "responses"
  history,   \* the client's conversation, in entries that both APIs can carry
  said,      \* what was said, with the model's turns as the model gave them
  turns,
  upstream,  \* the ask given to warm_realtime, {} when there is none
  reply      \* the turn that the last answer holds, empty for an error

gatewayVars == <<api, history, said, turns, upstream, reply>>

(* Contents of a message: text parts, and perhaps a part that is not text. *)
Content(text, image) == [text |-> text, image |-> image]
openai_content_text_fails(c) == c.image

Entry(who, text, image, calls, id) ==
  [who |-> who, content |-> Content(text, image), calls |-> calls, id |-> id]
Said(who, text) == Entry(who, text, FALSE, <<>>, <<>>)
Output(call, text) == Entry("tool", text, FALSE, <<>>, call)

-----------------------------------------------------------------------------
(* Conversation to ask.  A translation is a sequence of items, or fails.   *)

realtime_text_item(role, text) == [kind |-> "text", role |-> role, text |-> text, call |-> <<>>]
CallItem(call) == [kind |-> "call", role |-> "", text |-> <<>>, call |-> call]
OutputItem(call, text) == [kind |-> "output", role |-> "", text |-> text, call |-> call]

TextItems(role, text) == IF text = <<>> THEN <<>> ELSE <<realtime_text_item(role, text)>>
CallItems(calls) == [i \in DOMAIN calls |-> CallItem(calls[i])]
IsSystem(e) == e.who \in {"system", "developer"}
Roles == {"system", "developer", "user", "assistant", "tool"}

\* Mutant: the calls of a turn go before its text.
ChatItemsCallsFirst(e) ==
  CASE IsSystem(e) -> <<>>
    [] e.who = "user" -> TextItems("user", e.content.text)
    [] e.who = "assistant" -> CallItems(e.calls) \o TextItems("assistant", e.content.text)
    [] e.who = "tool" -> <<OutputItem(e.id, e.content.text)>>

\* chat_messages_to_realtime, one message of it.
ChatItems(e) ==
  CASE IsSystem(e) -> <<>>
    [] e.who = "user" -> TextItems("user", e.content.text)
    [] e.who = "assistant" -> TextItems("assistant", e.content.text) \o CallItems(e.calls)
    [] e.who = "tool" -> <<OutputItem(e.id, e.content.text)>>

ChatFails(h) ==
  \E i \in DOMAIN h : \/ openai_content_text_fails(h[i].content)
                      \/ h[i].who \notin Roles
                      \/ h[i].who = "tool" /\ h[i].id = <<>>

\* Mutant: every message is the user's.
ResponsesItemsUnlabelled(e) ==
  CASE e.who = "tool" -> <<OutputItem(e.id, e.content.text)>>
    [] OTHER -> TextItems("user", e.content.text) \o CallItems(e.calls)

\* responses_input_to_realtime on the input items an entry becomes: a message,
\* function calls, or a function call's output.
ResponsesItems(e) ==
  CASE e.who = "tool" -> <<OutputItem(e.id, e.content.text)>>
    [] OTHER -> TextItems(e.who, e.content.text) \o CallItems(e.calls)

\* An output is any JSON value, made a string by function_output_to_string.
ResponsesFails(h) ==
  \E i \in DOMAIN h : h[i].who # "tool" /\ openai_content_text_fails(h[i].content)

ItemsOf(a, h) == FlattenSeq([i \in DOMAIN h |-> IF a = "chat" THEN ChatItems(h[i]) ELSE ResponsesItems(h[i])])

\* The system prompt of a chat; a Responses client has `instructions` instead.
SystemText(h) == FlattenSeq([i \in DOMAIN h |-> IF IsSystem(h[i]) THEN h[i].content.text ELSE <<>>])

\* openai_messages_to_prompt and responses_input_to_text: without tools the
\* conversation is one labelled transcript.  Chat leaves calls out; Responses
\* takes messages only.
PromptOf(a, h) ==
  FlattenSeq([i \in DOMAIN h |->
    IF a = "chat" /\ IsSystem(h[i]) THEN <<>> ELSE TextItems(h[i].who, h[i].content.text)])

PromptFails(a, h) ==
  IF a = "chat" THEN \E i \in DOMAIN h : h[i].who \notin Roles \/ openai_content_text_fails(h[i].content)
  ELSE \/ ResponsesFails(h)
       \/ \E i \in DOMAIN h : h[i].who = "tool" \/ h[i].calls # <<>>

\* parse_openai_tools: Chat nests the function, or leaves it flat; Responses
\* reads the flat shape.
ToolsFail(a, tools) == tools = "unnamed" \/ (tools = "nested" /\ a = "responses")

\* resolve_reasoning_effort: reasoning.effort, then reasoning_effort, then its
\* camel-case spelling; a blank one counts as given.
resolve_reasoning_effort_fails(model, effort) ==
  \/ model = "plain" /\ effort # "absent"
  \/ effort = "unknown"

\* What openai_chat_completions / openai_responses refuse with 400.
RequestRefused(model, effort, tools) ==
  LET items == IF tools = "none" THEN PromptOf(api, history) ELSE ItemsOf(api, history)
      fails == CASE tools = "none" -> PromptFails(api, history)
                 [] api = "chat" -> ChatFails(history)
                 [] OTHER -> ResponsesFails(history)
  IN \/ model = "unknown" \/ history = <<>>
     \/ resolve_reasoning_effort_fails(model, effort)
     \/ tools # "none" /\ ToolsFail(api, tools)
     \/ fails \/ items = <<>>

-----------------------------------------------------------------------------
(* Turn to answer.  A turn is a text and calls; a stream is the order of   *)
(* its deltas.                                                             *)

Turn(text, calls) == [text |-> text, calls |-> calls]

\* openai_chat_tool_response, openai_responses_tool_non_stream, and what they
\* fall back to when there are no calls.
NonStream(turn) == turn

\* openai_responses_stream, openai_chat_stream_response: one delta holds the text.
TextStream(text) == Turn(text, <<>>)

\* openai_chat_tool_stream_response, openai_responses_tool_stream: beside calls
\* the text is not sent.
Stream(turn) == IF turn.calls = <<>> THEN TextStream(turn.text) ELSE Turn(<<>>, turn.calls)

Answer(turn, stream) == IF stream THEN Stream(turn) ELSE NonStream(turn)

NoTurn == Turn(<<>>, <<>>)

-----------------------------------------------------------------------------
(* The client and the OpenAI endpoints                                     *)

GatewayInit ==
  /\ api \in {"chat", "responses"} /\ turns = 0 /\ upstream = {} /\ reply = NoTurn
  /\ \E system \in {<<>>, << <<"s", 0>> >>} :
       history = IF system # <<>> /\ api = "chat" THEN <<Said("system", system)>> ELSE <<>>
  /\ said = <<>>

Words(who) == << <<who, turns>> >>
Idle == upstream = {} /\ reply.calls = <<>>

\* The user speaks; the message may be one the gateway refuses.
Speaks ==
  /\ Idle /\ turns < MaxTurns /\ (history # <<>> => Last(history).who \in {"assistant", "system"})
  /\ \E e \in {Said("user", Words("u")), Said("user", <<>>), Entry("user", Words("u"), TRUE, <<>>, <<>>),
               Said("function", Words("u")), Output(<<>>, Words("u"))} :
       /\ history' = Append(history, e)
       /\ said' = said \o ResponsesItems(e)
  /\ reply' = NoTurn /\ UNCHANGED <<api, turns, upstream>>

Request(model, effort, tools) ==
  /\ Idle /\ turns < MaxTurns /\ history # <<>> /\ Last(history).who # "assistant"
  /\ reply' = NoTurn
  /\ IF RequestRefused(model, effort, tools) THEN UNCHANGED upstream
     ELSE upstream' = {[tools |-> tools # "none", system |-> SystemText(history),
                        items |-> IF tools = "none" THEN PromptOf(api, history)
                                  ELSE ItemsOf(api, history)]}
  /\ UNCHANGED <<api, history, said, turns>>

\* The pool answers with the model's turn: with calls only if tools were given.
Answered(text, calls, stream) ==
  LET shown == Answer(Turn(text, calls), stream) IN
  /\ \E ask \in upstream : calls # <<>> => ask.tools
  /\ upstream' = {} /\ turns' = turns + 1
  /\ reply' = shown
  /\ history' = Append(history, Entry("assistant", shown.text, FALSE, shown.calls, <<>>))
  /\ said' = said \o (IF stream /\ calls # <<>> THEN <<>> ELSE TextItems("assistant", text))
                  \o CallItems(calls)
  /\ UNCHANGED api

\* The pool fails: 502, and the client may send the same again.
Failed ==
  /\ upstream # {} /\ upstream' = {} /\ reply' = NoTurn
  /\ UNCHANGED <<api, history, said, turns>>

\* The client runs the calls it was given, in order, and appends what they return.
RunsCalls ==
  LET outputs == [i \in DOMAIN reply.calls |->
                    Output(reply.calls[i], Words("o"))]
  IN
  /\ reply.calls # <<>> /\ history' = history \o outputs
  /\ said' = said \o [i \in DOMAIN outputs |-> OutputItem(outputs[i].id, Words("o"))]
  /\ reply' = NoTurn /\ UNCHANGED <<api, turns, upstream>>

-----------------------------------------------------------------------------
TurnTexts == {<<>>, Words("m")}
TurnCalls == {[i \in 1..n |-> <<turns, i>>] : n \in 0..MaxCalls}

GatewayNext ==
  \/ Speaks \/ Failed \/ RunsCalls
  \/ \E model \in {"thinker", "plain", "unknown"}, effort \in {"absent", "blank", "low", "unknown"},
        tools \in {"none", "flat", "nested", "unnamed"} : Request(model, effort, tools)
  \/ \E text \in TurnTexts, calls \in TurnCalls, stream \in BOOLEAN : Answered(text, calls, stream)

GatewaySpec == GatewayInit /\ [][GatewayNext]_gatewayVars

-----------------------------------------------------------------------------
\* The items as one transcript: calls left out, outputs said by "tool".
Transcript(items) ==
  FlattenSeq([i \in DOMAIN items |-> CASE items[i].kind = "text" -> <<items[i]>>
                                      [] items[i].kind = "output" -> TextItems("tool", items[i].text)
                                      [] items[i].kind = "call" -> <<>>])

\* Request after request the model is shown the conversation it took part in:
\* every call with its output, in order and before what followed, and its own
\* words; without tools, the words.  What a stream left out beside calls is not
\* counted among them.
ModelSeesItsConversation ==
  \A ask \in upstream :
    ask.items = IF ask.tools THEN said ELSE Transcript(said)

\* A conversation both endpoints accept is the same conversation to the model,
\* whichever of them it arrives by.
EndpointsAgree ==
  LET talk == FlattenSeq([i \in DOMAIN history |->
                           IF IsSystem(history[i]) THEN <<>> ELSE <<history[i]>>])
  IN
  /\ ~ChatFails(talk) => ~ResponsesFails(talk) /\ ItemsOf("chat", talk) = ItemsOf("responses", talk)
  /\ ~PromptFails("responses", talk) /\ ~PromptFails("chat", talk) =>
       PromptOf("chat", talk) = PromptOf("responses", talk)

=============================================================================
