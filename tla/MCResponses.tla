------------------------------ MODULE MCResponses ------------------------------
(***************************************************************************)
(* Instances of ResponsesDispatch and of ResponsesStream for TLC.  The     *)
(* dispatch of asks and the reading of one answer share no state: a        *)
(* behaviour of ResponsesSpec is a behaviour of one or of the other.       *)
(***************************************************************************)
EXTENDS MCDispatch, ResponsesStream

\* Every kind of frame, events with names and with two data lines, a comment,
\* and data that is no frame.
AllEvents ==
  {<<"event", "delta_a">>, <<"delta_", "a">>, <<"delta_b">>, <<"delta_blank">>, <<"done_c">>,
   <<"done_empty">>, <<"event", "completed">>, <<"completed_bare">>, <<"incomplete">>,
   <<"overload">>, <<"limit">>, <<"null_code">>, <<"created">>, <<":">>, <<"[DONE]">>}

VARIABLE part

ResponsesInit ==
  /\ part \in {"dispatch", "stream"} /\ Init /\ StreamInit
  /\ part = "dispatch" => sse = <<>> /\ eol = "lf"

ResponsesNext ==
  \/ part = "dispatch" /\ Next /\ UNCHANGED <<part, streamVars>>
  \/ part = "stream" /\ StreamNext /\ UNCHANGED <<part, vars>>

ResponsesSpec == ResponsesInit /\ [][ResponsesNext]_<<part, vars, streamVars>>
=============================================================================
