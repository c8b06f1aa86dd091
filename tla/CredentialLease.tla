---------------------------- MODULE CredentialLease ----------------------------
(***************************************************************************)
(* The daemon in credential-process mode.  One CseTooldCodexAuthSource     *)
(* (rtinfer-daemon/src/cse_toold_auth.rs) mints leases by running          *)
(* `cse-toold codex-lease` under its state mutex; the warm pool and the    *)
(* thread registry each keep the last credential in an AuthLoader          *)
(* (rtinfer-core/src/warm.rs) and load through it; health asks the source  *)
(* itself.  Asks connect with what they get and answer a refused handshake *)
(* by one forced load.                                                     *)
(*                                                                         *)
(* A lease is a number, and so is its access token; 0 is none.             *)
(***************************************************************************)
EXTENDS Naturals, Sequences, FiniteSets, SequencesExt

CONSTANTS
  User,         \* asks that need a socket, and health checks, each made once
  Loader,       \* AuthLoaders
  LoaderOf,     \* the loader of an ask
  HealthCheck,  \* the users that are health checks
  Hurried,      \* users who may go away (bound)
  MaxLeases     \* leases cse-toold may issue (bound)

ASSUME LeaseAssumption ==
  /\ IsFiniteSet(User) /\ HealthCheck \subseteq User /\ Hurried \subseteq User
  /\ LoaderOf \in [User \ HealthCheck -> Loader] /\ MaxLeases \in Nat

VARIABLES
  issued,    \* leases cse-toold has issued
  honoured,  \* those the provider accepts
  brief,     \* those with less than MIN_VALID_FOR_SECS left
  failed,    \* those a handshake was refused with
  cached,    \* ProviderState.cached
  slock,     \* waiters of the state mutex, the first holding it
  kept,      \* AuthLoader.cached
  llock,     \* waiters of each loader's mutex
  upc,       \* the await a user has reached
  forced,    \* whether its load is forced
  got,       \* what its child process has been given and not yet returned
  token      \* the credential it connects with

leaseVars == <<issued, honoured, brief, failed, cached, slock, kept, llock, upc,
               forced, got, token>>
provider == <<issued, honoured, brief>>

LeaseInit ==
  /\ issued = 0 /\ honoured = {} /\ brief = {} /\ failed = {}
  /\ cached = 0 /\ slock = <<>>
  /\ kept = [l \in Loader |-> 0] /\ llock = [l \in Loader |-> <<>>]
  /\ upc = [u \in User |-> "idle"] /\ forced = [u \in User |-> FALSE]
  /\ got = [u \in User |-> 0] /\ token = [u \in User |-> 0]

Step(u, here, next) == upc[u] = here /\ upc' = [upc EXCEPT ![u] = next]

\* Both mutexes are left together: the loader's guard outlives the source's.
Unlock(u) ==
  /\ slock' = RemoveFirst(slock, u)
  /\ llock' = [l \in Loader |-> RemoveFirst(llock[l], u)]

-----------------------------------------------------------------------------
(* AuthLoader::load *)

EnterLoader(u, force) ==
  /\ forced' = [forced EXCEPT ![u] = force]
  /\ llock' = [llock EXCEPT ![LoaderOf[u]] = Append(@, u)]

AskForAuth(u) ==
  /\ Step(u, "idle", IF u \in HealthCheck THEN "source" ELSE "loader")
  /\ IF u \in HealthCheck
     THEN slock' = Append(slock, u) /\ UNCHANGED <<llock, forced>>
     ELSE EnterLoader(u, FALSE) /\ UNCHANGED slock
  /\ UNCHANGED <<provider, failed, cached, kept, got, token>>

AtLoader(u) == upc[u] = "loader" /\ Head(llock[LoaderOf[u]]) = u

LoaderHit(u) ==
  /\ AtLoader(u) /\ ~forced[u] /\ kept[LoaderOf[u]] # 0
  /\ Step(u, "loader", "shake") /\ Unlock(u)
  /\ token' = [token EXCEPT ![u] = kept[LoaderOf[u]]]
  /\ UNCHANGED <<provider, failed, cached, kept, forced, got>>

LoaderMiss(u) ==
  /\ AtLoader(u) /\ (forced[u] \/ kept[LoaderOf[u]] = 0)
  /\ Step(u, "loader", "source") /\ slock' = Append(slock, u)
  /\ UNCHANGED <<provider, failed, cached, kept, llock, forced, got, token>>

-----------------------------------------------------------------------------
(* CseTooldCodexAuthSource::load, force_refresh *)

StillValid(n) == n # 0 /\ n \notin brief

\* A forced load names the credential its loader kept; another one in the
\* cache answers it, as does any valid one a load that is not forced.
rejected(u) == kept[LoaderOf[u]]
\* Mutant: a forced load takes any valid lease that is cached.
SourceHasAny(u) == StillValid(cached)

SourceHas(u) ==
  StillValid(cached) /\ (forced[u] => rejected(u) # 0 /\ cached # rejected(u))

AtSource(u) == upc[u] = "source" /\ Head(slock) = u

\* A user leaves the source with lease n.
Served(u, n) ==
  /\ Unlock(u) /\ token' = [token EXCEPT ![u] = n]
  /\ IF u \in HealthCheck
     THEN upc' = [upc EXCEPT ![u] = "done"] /\ UNCHANGED kept
     ELSE /\ upc' = [upc EXCEPT ![u] = IF forced[u] THEN "reshake" ELSE "shake"]
          /\ kept' = [kept EXCEPT ![LoaderOf[u]] = n]

SourceHit(u) ==
  /\ AtSource(u) /\ SourceHas(u) /\ Served(u, cached)
  /\ UNCHANGED <<provider, failed, cached, forced, got>>

\* Mutant: the state mutex is not held while the child runs.
RunLeaseUnlocked(u) ==
  /\ AtSource(u) /\ ~SourceHas(u) /\ Step(u, "source", "mint")
  /\ slock' = RemoveFirst(slock, u)
  /\ UNCHANGED <<provider, failed, cached, kept, llock, forced, got, token>>

RunLease(u) ==
  /\ AtSource(u) /\ ~SourceHas(u) /\ Step(u, "source", "mint")
  /\ UNCHANGED <<provider, failed, cached, slock, kept, llock, forced, got, token>>

\* cse-toold is external: it hands out its newest lease unless that is about
\* to expire or named as rejected, and then a new one.
Issue(u) ==
  /\ upc[u] = "mint" /\ got[u] = 0
  /\ IF StillValid(issued) /\ ~(forced[u] /\ issued = cached)
     THEN got' = [got EXCEPT ![u] = issued] /\ UNCHANGED <<issued, honoured>>
     ELSE /\ issued < MaxLeases /\ issued' = issued + 1
          /\ honoured' = honoured \cup {issued + 1}
          /\ got' = [got EXCEPT ![u] = issued + 1]
  /\ UNCHANGED <<brief, failed, cached, slock, kept, llock, upc, forced, token>>

MintLocked(u) ==
  /\ upc[u] = "mint" /\ got[u] # 0
  /\ StillValid(got[u])
  /\ cached' = got[u] /\ Served(u, got[u]) /\ got' = [got EXCEPT ![u] = 0]
  /\ UNCHANGED <<provider, failed, forced>>

\* A spawn, a read or an exit that fails, malformed JSON, a refused credential
\* (stderr_is_credential_refusal) or a lease that does not validate.
MintFails(u) ==
  /\ Step(u, "mint", "done") /\ Unlock(u) /\ got' = [got EXCEPT ![u] = 0]
  /\ UNCHANGED <<provider, failed, cached, kept, forced, token>>

-----------------------------------------------------------------------------
(* The handshake *)

Accepted(u) ==
  /\ upc[u] \in {"shake", "reshake"} /\ token[u] \in honoured
  /\ upc' = [upc EXCEPT ![u] = "done"]
  /\ UNCHANGED <<provider, failed, cached, slock, kept, llock, forced, got, token>>

\* The first refusal forces a load.  The second ends the ask.
Refused(u) ==
  /\ token[u] \notin honoured /\ failed' = failed \cup {token[u]}
  /\ \/ Step(u, "shake", "loader") /\ EnterLoader(u, TRUE)
     \/ Step(u, "reshake", "done") /\ UNCHANGED <<llock, forced>>
  /\ UNCHANGED <<provider, cached, slock, kept, got, token>>

-----------------------------------------------------------------------------
Held == {"loader", "source", "mint", "shake", "reshake"}

\* Mutant: a caller that goes away leaves the mutexes locked.
DropLocked(u) ==
  /\ u \in Hurried /\ upc[u] \in Held
  /\ upc' = [upc EXCEPT ![u] = "gone"] /\ got' = [got EXCEPT ![u] = 0]
  /\ UNCHANGED <<provider, failed, cached, slock, kept, llock, forced, token>>

\* The child is killed on drop; what it has minted is lost.
Drop(u) ==
  /\ u \in Hurried /\ upc[u] \in Held
  /\ upc' = [upc EXCEPT ![u] = "gone"] /\ Unlock(u)
  /\ got' = [got EXCEPT ![u] = 0]
  /\ UNCHANGED <<provider, failed, cached, kept, forced, token>>

Revoke(n) ==
  /\ n \in honoured /\ honoured' = honoured \ {n}
  /\ UNCHANGED <<issued, brief, failed, cached, slock, kept, llock, upc, forced,
                 got, token>>

RunDown(n) ==
  /\ n \in 1..issued /\ n \notin brief /\ brief' = brief \cup {n}
  /\ UNCHANGED <<issued, honoured, failed, cached, slock, kept, llock, upc, forced,
                 got, token>>

Proceed(u) ==
  \/ LoaderHit(u) \/ LoaderMiss(u) \/ SourceHit(u) \/ RunLease(u) \/ Issue(u)
  \/ MintLocked(u) \/ MintFails(u) \/ Accepted(u) \/ Refused(u)

LeaseNext ==
  \/ \E u \in User : AskForAuth(u) \/ Proceed(u) \/ Drop(u)
  \/ \E n \in 1..issued : Revoke(n) \/ RunDown(n)

LeaseSpec == LeaseInit /\ [][LeaseNext]_leaseVars

\* Children and handshakes run under timeouts; tokio's mutex is fair.
LeaseFairness == \A u \in User : WF_leaseVars(Proceed(u))

-----------------------------------------------------------------------------
\* No store of credentials ever goes back to an older lease, although children
\* are killed and loads overtake one another.
LeasesForward ==
  [][cached' >= cached /\ \A l \in Loader : kept'[l] >= kept[l]]_leaseVars

\* The handshake after a refused one never repeats its credential, whatever
\* other asks have put into the loader and the source meanwhile.
RetryUsesAnotherLease ==
  [][\A u \in User :
       upc[u] # "reshake" /\ upc'[u] = "reshake" => token'[u] # token[u]]_leaseVars

\* "The access token that just failed": a lease is reported to cse-toold as
\* rejected only if a handshake was refused with it.
OnlyFailedLeasesRejected ==
  \A u \in User : upc[u] = "mint" /\ forced[u] => cached \in failed \cup {0}

\* Every ask and every health check comes to an end, whoever holds the locks:
\* each is made once, so again and again none is under way.
EveryLoadEnds == []<>(\A u \in User : upc[u] \notin Held)
=============================================================================
