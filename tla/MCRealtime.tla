------------------------------ MODULE MCRealtime ------------------------------
(***************************************************************************)
(* Instances of ThreadSession, of RealtimeExchange and of CodexAuth for    *)
(* TLC: asks that share a thread, asks with a socket each, and the         *)
(* auth.json that both authenticate with.  They share no state: a          *)
(* behaviour of RealtimeSpec is a behaviour of one of them.                *)
(***************************************************************************)
EXTENDS ThreadSession, RealtimeExchange, CodexAuth

CONSTANTS b1, b2, b3, k1, k2, c1, c2, c3, p1, p2, r1, r2

Keys == b1 :> k1 @@ b2 :> k1 @@ b3 :> k2
Modes == c1 :> "plain" @@ c2 :> "tools" @@ c3 :> "structured"
Apart == r1 :> p1 @@ r2 :> p2

\* Windows that extend one another, that do not, that hold the same items in
\* another order or one of them twice, and that are too long.
In(w, c) == [items |-> w, config |-> c]
Windows ==
  b1 :> {In(<<"i">>, 1), In(<<"i", "j">>, 1)} @@
  b2 :> {In(<<"i", "j">>, 1), In(<<"i", "j">>, 2), In(<<"j">>, 1), In(<<"j", "i">>, 1),
         In(<<"i", "j", "k">>, 1)} @@
  b3 :> {In(<<"i">>, 1), In(<<"i", "i">>, 1)}

VARIABLE part

RealtimeInit ==
  part \in {"thread", "exchange", "auth"} /\ ThreadInit /\ ExchangeInit /\ Init

RealtimeNext ==
  \/ part = "thread" /\ ThreadNext /\ UNCHANGED <<part, exchangeVars, vars>>
  \/ part = "exchange" /\ ExchangeNext /\ UNCHANGED <<part, threadVars, vars>>
  \/ part = "auth" /\ Next /\ UNCHANGED <<part, threadVars, exchangeVars>>

RealtimeSpec ==
  /\ RealtimeInit /\ [][RealtimeNext]_<<part, threadVars, exchangeVars, vars>>
  /\ \A a \in ExAsk :
       WF_exchangeVars(part = "exchange" /\ Advance(a) /\ UNCHANGED <<part, threadVars, vars>>)
=============================================================================
