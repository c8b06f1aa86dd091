------------------------------- MODULE CodexAuth -------------------------------
(***************************************************************************)
(* crates/rtinfer-core/src/auth.rs: the shared auth.json, the provider's   *)
(* rotation of refresh tokens, and the CodexAuthCache of every process     *)
(* that reads and replaces the file.  Callers of one process share its     *)
(* cache and its write lock; processes share only the file and the name of *)
(* its temporary copy.                                                     *)
(*                                                                         *)
(* A caller's step ends at an await, or at a system call that another      *)
(* process can run between.                                                *)
(***************************************************************************)
EXTENDS Naturals, FiniteSets

CONSTANTS
  Process,    \* processes that use one auth.json
  Caller,     \* asks, each in one process
  Home,       \* Home[c]: the process of caller c
  Faults,     \* what may go wrong: "drop", "crash", "reply", "write"
  MaxGrants,  \* bound on the credentials the provider issues
  MaxLogins,  \* how often the user logs in with the codex CLI
  None,       \* no value
  Torn,       \* a file that does not parse
  Absent      \* no file

\* Tokens are numbered in the order of issue.  The access token and the
\* id_token of a grant come together.
Credential == [access : Nat, refresh : Nat]

ASSUME AuthAssumption ==
  /\ IsFiniteSet(Process) /\ IsFiniteSet(Caller)
  /\ Home \in [Caller -> Process]
  /\ Faults \subseteq {"drop", "crash", "reply", "write"}
  /\ MaxGrants \in Nat /\ MaxLogins \in Nat
  /\ None \notin Caller \cup Nat \cup Credential
  /\ {Torn, Absent} \cap Credential = {} /\ Torn # Absent

VARIABLES
  live,         \* refresh tokens the provider accepts
  issued,       \* credentials the provider has issued
  expired,      \* access tokens whose id_token is near its expiry
  file,         \* auth.json
  tmp,          \* auth.json.refresh.tmp
  handle,       \* where a process's open handle on tmp points
  up,           \* whether a process runs
  entry,        \* CacheState.entry
  aged,         \* whether entry is past the TTL
  generation,   \* CacheState.generation
  last_access,  \* CacheState.last_access_token
  lock,         \* the caller that holds the cache's write lock
  pc,           \* where a caller is
  base,         \* the credential a caller read from the file
  grant,        \* the credential the provider granted a caller
  got,          \* the access token a caller uses
  rejected,     \* the access token a caller saw rejected
  logins        \* logins so far

provider == <<live, issued, expired>>
disk == <<file, tmp, handle>>
cache == <<entry, aged, generation, last_access>>
caller == <<base, grant, got, rejected>>
vars == <<provider, disk, up, cache, lock, pc, caller, logins>>

First == [access |-> 0, refresh |-> 0]

Location ==
  {"idle", "load", "using", "force", "posting", "replied", "granted",
   "opened", "written", "done"}

Unsaved == {"replied", "granted", "opened", "written"}

Goto(c, to) == pc' = [pc EXCEPT ![c] = to]

Init ==
  /\ live = {0} /\ issued = 0 /\ expired = {}
  /\ file = First /\ tmp = Absent
  /\ handle = [p \in Process |-> "closed"]
  /\ up = [p \in Process |-> TRUE]
  /\ entry = [p \in Process |-> First]
  /\ aged = [p \in Process |-> FALSE]
  /\ generation = [p \in Process |-> 1]
  /\ last_access = [p \in Process |-> 0]
  /\ lock = [p \in Process |-> None]
  /\ pc = [c \in Caller |-> "idle"]
  /\ base = [c \in Caller |-> None]
  /\ grant = [c \in Caller |-> None]
  /\ got = [c \in Caller |-> None]
  /\ rejected = [c \in Caller |-> None]
  /\ logins = 0

-----------------------------------------------------------------------------
(* CacheState and CodexAuth *)

NeedsRefresh(cred) == cred.access \in expired

FreshHit(p) == entry[p] # None /\ ~aged[p] /\ ~NeedsRefresh(entry[p])

Commit(p, cred) ==
  /\ entry' = [entry EXCEPT ![p] = cred]
  /\ aged' = [aged EXCEPT ![p] = FALSE]
  /\ last_access' = [last_access EXCEPT ![p] = cred.access]
  /\ generation' = [generation EXCEPT ![p] =
                      IF last_access[p] # cred.access THEN @ + 1 ELSE @]

\* The cached entry is handed out.
Serve(c, cred) ==
  /\ Goto(c, "using")
  /\ got' = [got EXCEPT ![c] = cred.access]

\* load or force_refresh_after returns what it commits, and unlocks.
Return(c, cred) ==
  /\ Commit(Home[c], cred)
  /\ Serve(c, cred)
  /\ lock' = [lock EXCEPT ![Home[c]] = None]

\* It returns an error, the ask ends, and the lock is released.
Fail(c) ==
  /\ Goto(c, "done")
  /\ lock' = [lock EXCEPT ![Home[c]] = None]
  /\ UNCHANGED <<cache, got>>

-----------------------------------------------------------------------------
(* CodexAuthCache::load and force_refresh_after up to the grant *)

Ask(c) ==
  /\ pc[c] = "idle" /\ Goto(c, "load")
  /\ up[Home[c]]
  /\ UNCHANGED <<provider, disk, up, cache, lock, caller, logins>>

LoadHit(c) ==
  /\ pc[c] = "load"
  /\ lock[Home[c]] = None
  /\ FreshHit(Home[c])
  /\ Serve(c, entry[Home[c]])
  /\ UNCHANGED <<provider, disk, up, cache, lock, base, grant, rejected, logins>>

\* A caller that took the write lock has read the file.
StartRefresh(c) ==
  /\ Goto(c, "posting")
  /\ lock' = [lock EXCEPT ![Home[c]] = c]
  /\ base' = [base EXCEPT ![c] = file]
  /\ UNCHANGED <<cache, got>>

\* Mutant: a stale load does not wait for the one that runs.
LoadUnlocked(c) ==
  /\ pc[c] = "load"
  /\ ~FreshHit(Home[c])
  /\ \/ file = Torn /\ Fail(c) /\ UNCHANGED base
     \/ file # Torn /\ NeedsRefresh(file) /\ StartRefresh(c)
     \/ file # Torn /\ ~NeedsRefresh(file) /\ Return(c, file) /\ UNCHANGED base
  /\ UNCHANGED <<provider, disk, up, grant, rejected, logins>>

LoadStale(c) ==
  /\ pc[c] = "load"
  /\ lock[Home[c]] = None
  /\ ~FreshHit(Home[c])
  /\ \/ file = Torn /\ Fail(c) /\ UNCHANGED base
     \/ file # Torn /\ NeedsRefresh(file) /\ StartRefresh(c)
     \/ file # Torn /\ ~NeedsRefresh(file) /\ Return(c, file) /\ UNCHANGED base
  /\ UNCHANGED <<provider, disk, up, grant, rejected, logins>>

ForceShared(c) ==
  /\ pc[c] = "force"
  /\ lock[Home[c]] = None
  /\ entry[Home[c]] # None /\ entry[Home[c]].access # rejected[c]
  /\ Serve(c, entry[Home[c]])
  /\ UNCHANGED <<provider, disk, up, cache, lock, base, grant, rejected, logins>>

\* Mutant: a forced refresh rotates whatever the file holds.
RotateRegardless(c) == StartRefresh(c)

\* "If another writer already rotated past the rejected token, reuse it."
ReuseOrRotate(c) ==
  \/ file # Torn /\ file.access = rejected[c] /\ StartRefresh(c)
  \/ file # Torn /\ file.access # rejected[c] /\ Return(c, file) /\ UNCHANGED base

ForceStart(c) ==
  /\ pc[c] = "force"
  /\ lock[Home[c]] = None
  /\ entry[Home[c]] # None => entry[Home[c]].access = rejected[c]
  /\ \/ ReuseOrRotate(c)
     \/ file = Torn /\ Fail(c) /\ UNCHANGED base
  /\ UNCHANGED <<provider, disk, up, grant, rejected, logins>>

-----------------------------------------------------------------------------
(* CodexAuth::refresh *)

\* The token endpoint is external.  A grant replaces the refresh token that it
\* was asked with.
Grant(c) ==
  /\ pc[c] = "posting" /\ Goto(c, "replied")
  /\ base[c].refresh \in live
  /\ issued < MaxGrants /\ issued' = issued + 1
  /\ live' = (live \ {base[c].refresh}) \cup {issued'}
  /\ grant' = [grant EXCEPT ![c] = [access |-> issued', refresh |-> issued']]
  /\ UNCHANGED <<expired, disk, up, cache, lock, base, got, rejected, logins>>

Receive(c) ==
  /\ pc[c] = "replied" /\ Goto(c, "granted")
  /\ UNCHANGED <<provider, disk, up, cache, lock, caller, logins>>

\* A proactive refresh that fails is logged and the old credential goes on; a
\* forced one fails the ask.
RefreshFails(c) ==
  /\ IF rejected[c] = None THEN Return(c, base[c]) ELSE Fail(c)
  /\ handle' = [handle EXCEPT ![Home[c]] = "closed"]
  /\ UNCHANGED <<provider, up, base, grant, rejected, logins>>

\* The POST fails before it is granted, or is refused.
Refused(c) ==
  /\ pc[c] = "posting"
  /\ RefreshFails(c)
  /\ UNCHANGED <<file, tmp>>

ReplyLost(c) ==
  /\ "reply" \in Faults
  /\ pc[c] = "replied"
  /\ RefreshFails(c)
  /\ UNCHANGED <<file, tmp>>

\* Mutant: the file itself is truncated and written.
OpenInPlace(c) ==
  /\ pc[c] = "granted" /\ Goto(c, "opened")
  /\ file' = Torn
  /\ handle' = [handle EXCEPT ![Home[c]] = "file"]
  /\ UNCHANGED <<provider, tmp, up, cache, lock, caller, logins>>

\* The file is read again to be patched, and the temporary copy is created or
\* truncated.
OpenTmp(c) ==
  /\ pc[c] = "granted" /\ Goto(c, "opened")
  /\ file # Torn
  /\ tmp' = Torn
  /\ handle' = [handle EXCEPT ![Home[c]] = "tmp"]
  /\ UNCHANGED <<provider, file, up, cache, lock, caller, logins>>

\* Mutant: the spent refresh token is written back.
PatchKeepsRefresh(c) == [grant[c] EXCEPT !.refresh = base[c].refresh]

Patched(c) == grant[c]

WriteTmp(c) ==
  LET at == handle[Home[c]]
  IN  /\ pc[c] = "opened" /\ Goto(c, "written")
      /\ tmp' = IF at = "tmp" THEN Patched(c) ELSE tmp
      /\ file' = IF at = "file" THEN Patched(c) ELSE file
      /\ handle' = [handle EXCEPT ![Home[c]] = "closed"]
      /\ UNCHANGED <<provider, up, cache, lock, caller, logins>>

\* Renaming moves the file under every handle that is open on it.
Moved(h) == CASE h = "tmp" -> "file" [] h = "file" -> "gone" [] OTHER -> h

Rename(c) ==
  /\ pc[c] = "written"
  /\ tmp # Absent
  /\ file' = tmp /\ tmp' = Absent
  /\ handle' = [p \in Process |-> Moved(handle[p])]
  /\ Return(c, grant[c])
  /\ UNCHANGED <<provider, up, base, grant, rejected, logins>>

\* The write-back fails: the file does not parse, somebody else renamed the
\* temporary copy, or a system call returns an error.
SaveFails(c) ==
  /\ \/ pc[c] = "granted" /\ file = Torn
     \/ pc[c] = "written" /\ tmp = Absent
     \/ pc[c] \in {"granted", "opened", "written"} /\ "write" \in Faults
  /\ RefreshFails(c)
  /\ UNCHANGED <<file, tmp>>

-----------------------------------------------------------------------------
(* What surrounds the cache *)

Finish(c) ==
  /\ pc[c] = "using" /\ Goto(c, "done")
  /\ UNCHANGED <<provider, disk, up, cache, lock, caller, logins>>

\* A handshake is refused, once per ask.
Reject(c) ==
  /\ pc[c] = "using" /\ Goto(c, "force")
  /\ rejected[c] = None
  /\ rejected' = [rejected EXCEPT ![c] = got[c]]
  /\ UNCHANGED <<provider, disk, up, cache, lock, base, grant, got, logins>>

\* The client of an ask goes away while it waits for the lock or the reply.
Drop(c) ==
  /\ "drop" \in Faults
  /\ pc[c] \in {"load", "force", "posting", "replied"} /\ Goto(c, "done")
  /\ lock' = IF lock[Home[c]] = c THEN [lock EXCEPT ![Home[c]] = None] ELSE lock
  /\ UNCHANGED <<provider, disk, up, cache, caller, logins>>

Crash(p) ==
  /\ "crash" \in Faults
  /\ up[p] /\ up' = [up EXCEPT ![p] = FALSE]
  /\ pc' = [c \in Caller |->
              IF Home[c] = p /\ pc[c] # "idle" THEN "done" ELSE pc[c]]
  /\ entry' = [entry EXCEPT ![p] = None]
  /\ generation' = [generation EXCEPT ![p] = 0]
  /\ last_access' = [last_access EXCEPT ![p] = None]
  /\ lock' = [lock EXCEPT ![p] = None]
  /\ handle' = [handle EXCEPT ![p] = "closed"]
  /\ UNCHANGED <<provider, file, tmp, aged, caller, logins>>

\* CodexAuthCacheBuilder::build loads the file if it parses.
Restart(p) ==
  /\ ~up[p] /\ up' = [up EXCEPT ![p] = TRUE]
  /\ IF file = Torn THEN UNCHANGED cache ELSE Commit(p, file)
  /\ UNCHANGED <<provider, disk, lock, pc, caller, logins>>

PassTtl(p) ==
  /\ ~aged[p] /\ aged' = [aged EXCEPT ![p] = TRUE]
  /\ UNCHANGED <<provider, disk, up, entry, generation, last_access, lock, pc,
                 caller, logins>>

Expire(n) ==
  /\ n \notin expired /\ expired' = expired \cup {n}
  /\ UNCHANGED <<live, issued, disk, up, cache, lock, pc, caller, logins>>

\* The codex CLI is external: a login replaces the tokens by a new set and
\* leaves those of earlier logins valid.
Login ==
  /\ logins < MaxLogins /\ logins' = logins + 1
  /\ issued < MaxGrants /\ issued' = issued + 1
  /\ live' = live \cup {issued + 1}
  /\ file' = [access |-> issued + 1, refresh |-> issued + 1]
  /\ handle' = [p \in Process |-> IF handle[p] = "file" THEN "gone" ELSE handle[p]]
  /\ UNCHANGED <<expired, tmp, up, cache, lock, pc, caller>>

Refresh(c) ==
  \/ Grant(c) \/ Receive(c) \/ Refused(c) \/ ReplyLost(c)
  \/ OpenTmp(c) \/ WriteTmp(c) \/ Rename(c) \/ SaveFails(c)

Next ==
  \/ \E c \in Caller :
       \/ Ask(c) \/ LoadHit(c) \/ LoadStale(c) \/ ForceShared(c) \/ ForceStart(c)
       \/ Refresh(c) \/ Finish(c) \/ Reject(c) \/ Drop(c)
  \/ \E p \in Process : Crash(p) \/ Restart(p) \/ PassTtl(p)
  \/ \E n \in 0..issued : Expire(n)
  \/ Login

Spec == Init /\ [][Next]_vars

-----------------------------------------------------------------------------
TypeOK ==
  /\ live \subseteq 0..issued /\ issued \in 0..MaxGrants /\ expired \subseteq 0..issued
  /\ file \in Credential \cup {Torn} /\ tmp \in Credential \cup {Torn, Absent}
  /\ handle \in [Process -> {"closed", "tmp", "file", "gone"}]
  /\ up \in [Process -> BOOLEAN]
  /\ entry \in [Process -> Credential \cup {None}]
  /\ aged \in [Process -> BOOLEAN] /\ generation \in [Process -> Nat]
  /\ last_access \in [Process -> Nat \cup {None}]
  /\ lock \in [Process -> Caller \cup {None}]
  /\ pc \in [Caller -> Location]
  /\ base \in [Caller -> Credential \cup {None}]
  /\ grant \in [Caller -> Credential \cup {None}]
  /\ got \in [Caller -> Nat \cup {None}]
  /\ rejected \in [Caller -> Nat \cup {None}]
  /\ logins \in 0..MaxLogins

\* "A write-back path so the rotated refresh_token is never lost": the file
\* holds a refresh token that the provider accepts, or a refresh is about to
\* write one.
Usable(cred) == cred \in Credential /\ cred.refresh \in live

RefreshTokenKept ==
  Usable(file) \/ \E c \in Caller : pc[c] \in Unsaved /\ Usable(grant[c])

\* Writes are atomic for readers: whenever a process reads auth.json it parses.
\* Nothing locks the file or its temporary copy; a provider that rotates lets
\* only one refresh at a time past the token endpoint.
FileParses == file # Torn

\* A cache never goes back to an older credential, whatever other processes do
\* and whichever refreshes fail.
ForwardOnly ==
  [][\A p \in Process : entry[p] # None /\ entry'[p] # None =>
       entry'[p].access >= entry[p].access]_vars

\* "Rotating again would invalidate the newer grant": a forced refresh spends a
\* refresh token only while the rejected access token is the newest in the file.
RotatesOnlyRejected ==
  [][\A c \in Caller :
       pc[c] = "posting" /\ pc'[c] = "replied" /\ rejected[c] # None =>
         file # Torn /\ file.access = rejected[c]]_vars
=============================================================================
