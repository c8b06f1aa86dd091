-------------------------------- MODULE MCWarm --------------------------------
(***************************************************************************)
(* Instances of WarmSessionPool and of Gateway for TLC.  The gateway's     *)
(* pools are external to it and the pool's callers to that: a behaviour of *)
(* WarmGatewaySpec is a behaviour of one or of the other.                  *)
(***************************************************************************)
EXTENDS WarmSessionPool, Gateway, TLC

CONSTANTS a1, a2, a3, f, g

OneOfEach == a1 :> "structured" @@ a2 :> "text" @@ a3 :> "tools"
Families == a1 :> f @@ a2 :> f @@ a3 :> g

VARIABLE part

WarmGatewayInit ==
  /\ part \in {"warm", "gateway"} /\ WarmInit /\ GatewayInit
  /\ part = "warm" => api = "chat" /\ history = <<>>

WarmGatewayNext ==
  \/ part = "warm" /\ WarmNext /\ UNCHANGED <<part, gatewayVars>>
  \/ part = "gateway" /\ GatewayNext /\ UNCHANGED <<part, warmVars>>

WarmGatewaySpec ==
  /\ WarmGatewayInit /\ [][WarmGatewayNext]_<<part, warmVars, gatewayVars>>
  /\ \A a \in WarmAsk : WF_warmVars(part = "warm" /\ Step(a) /\ UNCHANGED <<part, gatewayVars>>)
=============================================================================
