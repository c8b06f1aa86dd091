------------------------------- MODULE MCDaemon -------------------------------
(***************************************************************************)
(* Instances of DaemonLifecycle, CredentialLease and Clients for TLC: the  *)
(* machine around the pools.  The three share no state: a behaviour of     *)
(* DaemonSpec is a behaviour of one of them.                               *)
(***************************************************************************)
EXTENDS DaemonLifecycle, CredentialLease, Clients, TLC

CONSTANTS
  Together,  \* strays, installs, uninstalls and troubles in a behaviour (bound)
  i1, i2, u1, u2, h, warm

Ranks == <<1, 2, 3>>
Ports == i1 :> "own" @@ i2 :> "own"
Loaders == u1 :> warm @@ u2 :> warm

VARIABLE part

life == <<part, lifeVars>>
lease == <<part, leaseVars>>
clients == <<part, clientVars>>

DaemonInit ==
  /\ part \in {"lifecycle", "lease", "clients"}
  /\ LifecycleInit /\ LeaseInit /\ ClientsInit
  /\ plist = "own"
  /\ part # "clients" =>
       /\ runtime = "js" /\ setting = "unset" /\ advert = "none"
       /\ \A e \in Endpoint : health[e] = "dead"

InLifecycle(A) == part = "lifecycle" /\ A /\ UNCHANGED <<part, leaseVars, clientVars>>
InLease(A) == part = "lease" /\ A /\ UNCHANGED <<part, lifeVars, clientVars>>
InClients(A) == part = "clients" /\ A /\ UNCHANGED <<part, lifeVars, leaseVars>>

Installs == Cardinality({i \in Installer : ipc[i] # "idle"})
FewTogether == strays' + uninstalls' + troubles' + Installs' <= Together

\* The two installers are alike: the first to begin is called i1.
InOrder == ipc'[i2] # "idle" => ipc'[i1] # "idle"

DaemonNext ==
  \/ InLifecycle(LifecycleNext) /\ FewTogether /\ InOrder
  \/ InLease(LeaseNext) \/ InClients(ClientsNext)

DaemonFairness ==
  /\ WF_life(InLifecycle(KeepAlive))
  /\ \A p \in Proc : WF_life(InLifecycle(Serve(p))) /\ WF_life(InLifecycle(Update(p)))
  /\ \A i \in Installer : WF_life(InLifecycle(Install(i)))
  /\ \A u \in User : WF_lease(InLease(Proceed(u)))
  /\ \A a \in ClientAsk : WF_clients(InClients(ClientStep(a)))
  /\ WF_clients(InClients(Expire))

DaemonSpec == DaemonInit /\ [][DaemonNext]_<<part, lifeVars, leaseVars, clientVars>> /\ DaemonFairness
=============================================================================
