---------------------------- MODULE CodexAuth_proofs ----------------------------
(***************************************************************************)
(* Proofs about the shared auth.json, for any number of processes, callers *)
(* and grants.                                                             *)
(***************************************************************************)
EXTENDS CodexAuth, TLAPS

-----------------------------------------------------------------------------
(* Types *)

Refreshing == {"posting"} \cup Unsaved

\* What a caller carries from the file to the provider and back.
Carrying ==
  /\ \A c \in Caller : pc[c] \in Refreshing => base[c] \in Credential
  /\ \A c \in Caller : pc[c] \in Unsaved => grant[c] \in Credential

Typed == TypeOK /\ Carrying

CacheTyped ==
  /\ entry \in [Process -> Credential \cup {None}] /\ aged \in [Process -> BOOLEAN]
  /\ generation \in [Process -> Nat] /\ last_access \in [Process -> Nat \cup {None}]

\* What a step of one caller changes of the callers and their locks.
CallersTyped ==
  /\ lock \in [Process -> Caller \cup {None}] /\ pc \in [Caller -> Location]
  /\ base \in [Caller -> Credential \cup {None}]
  /\ grant \in [Caller -> Credential \cup {None}]
  /\ got \in [Caller -> Nat \cup {None}] /\ rejected \in [Caller -> Nat \cup {None}]

ProviderTyped == live \subseteq 0..issued /\ issued \in 0..MaxGrants /\ expired \subseteq 0..issued

DiskTyped ==
  /\ file \in Credential \cup {Torn} /\ tmp \in Credential \cup {Torn, Absent}
  /\ handle \in [Process -> {"closed", "tmp", "file", "gone"}]

LEMMA TypedParts ==
  TypeOK <=> /\ CacheTyped /\ CallersTyped /\ ProviderTyped /\ DiskTyped
             /\ up \in [Process -> BOOLEAN] /\ logins \in 0..MaxLogins
BY DEF TypeOK, CacheTyped, CallersTyped, ProviderTyped, DiskTyped

LEMMA TypedAgain ==
  ASSUME CacheTyped', CallersTyped', ProviderTyped', DiskTyped', Carrying',
         up' \in [Process -> BOOLEAN], logins' \in 0..MaxLogins
  PROVE  Typed'
BY DEF Typed, TypeOK, CacheTyped, CallersTyped, ProviderTyped, DiskTyped

LEMMA Values ==
  /\ None \notin Caller /\ None \notin Nat /\ None \notin Credential
  /\ Torn \notin Credential /\ Absent \notin Credential /\ Torn # Absent
  /\ \A c \in Caller : Home[c] \in Process
BY AuthAssumption

LEMMA Places ==
  /\ Unsaved \subseteq Location /\ Refreshing \subseteq Location
  /\ Unsaved \subseteq Refreshing /\ "posting" \in Refreshing \ Unsaved
  /\ {"idle", "load", "using", "force", "done"} \subseteq Location \ Refreshing
BY DEF Unsaved, Refreshing, Location

LEMMA TypedInit == Init => Typed
<1>1. First \in Credential
  BY DEF First, Credential
<1>2. Init => CacheTyped /\ CallersTyped /\ DiskTyped /\ Carrying
  BY <1>1 DEF Init, CacheTyped, CallersTyped, DiskTyped, Carrying, Location, Refreshing, Unsaved
<1>3. Init => ProviderTyped /\ up \in [Process -> BOOLEAN] /\ logins \in 0..MaxLogins
  BY AuthAssumption DEF Init, ProviderTyped
<1>4. QED
  BY <1>2, <1>3, TypedParts DEF Typed

LEMMA CommitTyped ==
  ASSUME CacheTyped, NEW p \in Process, NEW cred \in Credential, Commit(p, cred)
  PROVE  CacheTyped'
<1>1. cred.access \in Nat
  BY DEF Credential
<1>2. QED
  BY <1>1 DEF CacheTyped, Commit

\* A caller that leaves the cache carries nothing.
LEMMA LeftTyped ==
  ASSUME Typed, NEW c \in Caller, NEW to \in Location \ Refreshing, Goto(c, to),
         UNCHANGED <<base, grant>>
  PROVE  Carrying'
<1>1. \A d \in Caller : pc'[d] \in Refreshing => pc[d] = pc'[d]
  BY DEF Goto, Typed, TypeOK
<1>2. QED
  BY <1>1, Places DEF Typed, Carrying

LEMMA ReturnTyped ==
  ASSUME Typed, NEW c \in Caller, NEW cred \in Credential, Return(c, cred),
         UNCHANGED <<base, grant, rejected>>
  PROVE  CacheTyped' /\ CallersTyped' /\ Carrying'
<1>1. Goto(c, "using") /\ cred.access \in Nat /\ Home[c] \in Process
  BY Values DEF Return, Serve, Credential
<1>2. CacheTyped'
  BY <1>1, TypedParts, CommitTyped DEF Return, Typed
<1>3. CallersTyped'
  BY <1>1, TypedParts, Places DEF Return, Serve, Goto, CallersTyped, Typed
<1>4. QED
  BY <1>1, <1>2, <1>3, LeftTyped, Places

LEMMA FailTyped ==
  ASSUME Typed, NEW c \in Caller, Fail(c), UNCHANGED <<base, grant, rejected>>
  PROVE  CacheTyped' /\ CallersTyped' /\ Carrying'
<1>1. Goto(c, "done")
  BY DEF Fail
<1>2. CacheTyped'
  BY TypedParts DEF Fail, cache, CacheTyped, Typed
<1>3. CallersTyped'
  BY <1>1, TypedParts, Places DEF Fail, Goto, CallersTyped, Typed
<1>4. QED
  BY <1>1, <1>2, <1>3, LeftTyped, Places

LEMMA StartTyped ==
  ASSUME Typed, NEW c \in Caller, StartRefresh(c), file # Torn, UNCHANGED <<grant, rejected>>
  PROVE  CacheTyped' /\ CallersTyped' /\ Carrying'
<1>1. file \in Credential
  BY DEF Typed, TypeOK
<1>2. CacheTyped'
  BY TypedParts DEF StartRefresh, cache, CacheTyped, Typed
<1>3. CallersTyped'
  BY <1>1, TypedParts, Places DEF StartRefresh, Goto, CallersTyped, Typed
<1>4. \A d \in Caller : (pc'[d] \in Refreshing => d = c \/ pc[d] \in Refreshing)
                     /\ (pc'[d] \in Unsaved => pc[d] \in Unsaved)
                     /\ base'[d] = IF d = c THEN file ELSE base[d]
  BY Places DEF StartRefresh, Goto, Typed, TypeOK
<1>5. Carrying'
  BY <1>1, <1>4 DEF Typed, Carrying
<1>6. QED
  BY <1>2, <1>3, <1>5

\* A refresh that fails returns what was read, or ends the ask.
LEMMA RefreshFailsTyped ==
  ASSUME Typed, NEW c \in Caller, pc[c] \in Refreshing, RefreshFails(c), UNCHANGED <<file, tmp>>
  PROVE  Typed'
<1>1. base[c] \in Credential
  BY DEF Typed, Carrying
<1>2. CacheTyped' /\ CallersTyped' /\ Carrying'
  <2>1. CASE rejected[c] = None
    BY <1>1, <2>1, ReturnTyped DEF RefreshFails
  <2>2. CASE rejected[c] # None
    BY <2>2, FailTyped DEF RefreshFails
  <2>3. QED
    BY <2>1, <2>2
<1>3. DiskTyped' /\ ProviderTyped' /\ up' \in [Process -> BOOLEAN] /\ logins' \in 0..MaxLogins
  BY TypedParts, Values DEF RefreshFails, provider, DiskTyped, ProviderTyped, Typed
<1>4. QED
  BY <1>2, <1>3, TypedAgain

LEMMA TypedLoads ==
  ASSUME Typed, NEW c \in Caller,
         \/ Ask(c) \/ LoadHit(c) \/ LoadStale(c) \/ ForceShared(c) \/ ForceStart(c)
         \/ Finish(c) \/ Reject(c) \/ Drop(c)
  PROVE  Typed'
<1>1. DiskTyped' /\ ProviderTyped' /\ up' \in [Process -> BOOLEAN] /\ logins' \in 0..MaxLogins
  BY TypedParts DEF Ask, LoadHit, LoadStale, ForceShared, ForceStart, Finish, Reject, Drop,
                    disk, provider, DiskTyped, ProviderTyped, Typed
<1>2. CASE LoadStale(c) \/ ForceStart(c)
  <2>1. file # Torn => file \in Credential
    BY DEF Typed, TypeOK
  <2>2. UNCHANGED <<grant, rejected>>
    BY <1>2 DEF LoadStale, ForceStart
  <2>3. \/ file # Torn /\ StartRefresh(c)
        \/ file # Torn /\ Return(c, file) /\ UNCHANGED base
        \/ Fail(c) /\ UNCHANGED base
    BY <1>2, Zenon DEF LoadStale, ForceStart, ReuseOrRotate
  <2>4. CacheTyped' /\ CallersTyped' /\ Carrying'
    BY <2>1, <2>2, <2>3, StartTyped, ReturnTyped, FailTyped
  <2>5. QED
    BY <1>1, <2>4, TypedAgain
<1>3. CASE ~(LoadStale(c) \/ ForceStart(c))
  <2>1. PICK to \in Location \ Refreshing : Goto(c, to)
    BY <1>3, Places DEF Ask, LoadHit, ForceShared, Finish, Reject, Drop, Serve
  <2>2. UNCHANGED <<base, grant>>
    BY <1>3 DEF Ask, LoadHit, ForceShared, Finish, Reject, Drop, caller
  <2>3. CacheTyped'
    BY <1>3, TypedParts DEF Ask, LoadHit, ForceShared, Finish, Reject, Drop, cache, CacheTyped, Typed
  <2>4. pc' \in [Caller -> Location]
    BY <2>1 DEF Goto, Typed, TypeOK
  <2>5. lock' \in [Process -> Caller \cup {None}]
    BY <1>3 DEF Ask, LoadHit, ForceShared, Finish, Reject, Drop, Typed, TypeOK
  <2>6. got' \in [Caller -> Nat \cup {None}]
    <3>1. CASE LoadHit(c) \/ ForceShared(c)
      <4>1. entry[Home[c]] \in Credential /\ Serve(c, entry[Home[c]])
        BY <3>1, Values DEF LoadHit, ForceShared, FreshHit, Typed, TypeOK
      <4>2. QED
        BY <4>1 DEF Serve, Credential, Typed, TypeOK
    <3>2. CASE ~(LoadHit(c) \/ ForceShared(c))
      BY <1>3, <3>2 DEF Ask, Finish, Reject, Drop, caller, Typed, TypeOK
    <3>3. QED
      BY <3>1, <3>2
  <2>7. rejected' \in [Caller -> Nat \cup {None}]
    BY <1>3 DEF Ask, LoadHit, ForceShared, Finish, Reject, Drop, caller, Typed, TypeOK
  <2>8. CallersTyped'
    BY <2>2, <2>4, <2>5, <2>6, <2>7 DEF CallersTyped, Typed, TypeOK
  <2>9. Carrying'
    BY <2>1, <2>2, LeftTyped
  <2>10. QED
    BY <1>1, <2>3, <2>8, <2>9, TypedAgain
<1>4. QED
  BY <1>2, <1>3

LEMMA TypedGrant ==
  ASSUME Typed, NEW c \in Caller, Grant(c)
  PROVE  Typed'
<1>1. issued' = issued + 1 /\ issued \in Nat /\ issued' \in 0..MaxGrants
  BY AuthAssumption DEF Grant, Typed, TypeOK
<1>2. [access |-> issued', refresh |-> issued'] \in Credential
  BY <1>1 DEF Credential
<1>3. ProviderTyped'
  <2>1. 0..issued \subseteq 0..issued' /\ issued' \in 0..issued'
    BY <1>1
  <2>2. live' \subseteq live \cup {issued'} /\ expired' = expired
    BY DEF Grant
  <2>3. QED
    BY <1>1, <2>1, <2>2 DEF ProviderTyped, Typed, TypeOK
<1>4. CacheTyped' /\ DiskTyped' /\ up' \in [Process -> BOOLEAN] /\ logins' \in 0..MaxLogins
  BY TypedParts DEF Grant, cache, disk, CacheTyped, DiskTyped, Typed
<1>5. CallersTyped'
  BY <1>2, TypedParts, Places DEF Grant, Goto, CallersTyped, Typed, Unsaved
<1>6. \A d \in Caller : (pc'[d] \in Refreshing => pc[d] \in Refreshing) /\ base'[d] = base[d]
                     /\ (pc'[d] \in Unsaved => d = c \/ pc[d] \in Unsaved)
                     /\ (d # c => grant'[d] = grant[d]) /\ grant'[c] \in Credential
  BY <1>2, Places DEF Grant, Goto, Typed, TypeOK
<1>7. Carrying'
  BY <1>6 DEF Carrying, Typed
<1>8. QED
  BY <1>3, <1>4, <1>5, <1>7, TypedAgain

\* A caller goes on with what it carries.
LEMMA TypedSaves ==
  ASSUME Typed, NEW c \in Caller, Receive(c) \/ OpenTmp(c) \/ WriteTmp(c)
  PROVE  Typed'
<1>1. PICK to \in Unsaved : Goto(c, to)
  BY DEF Receive, OpenTmp, WriteTmp, Unsaved
<1>2. UNCHANGED caller /\ pc[c] \in Unsaved
  BY DEF Receive, OpenTmp, WriteTmp, Unsaved
<1>3. CacheTyped' /\ ProviderTyped' /\ up' \in [Process -> BOOLEAN] /\ logins' \in 0..MaxLogins
  BY TypedParts DEF Receive, OpenTmp, WriteTmp, cache, provider, CacheTyped, ProviderTyped, Typed
<1>4. CallersTyped'
  BY <1>1, TypedParts, Places
     DEF Receive, OpenTmp, WriteTmp, Goto, caller, CallersTyped, Typed
<1>5. grant[c] \in Credential
  BY <1>2 DEF Typed, Carrying
<1>6. DiskTyped'
  BY <1>5, TypedParts, Values
     DEF Receive, OpenTmp, WriteTmp, Patched, disk, DiskTyped, Typed
<1>7. \A d \in Caller : (pc'[d] \in Refreshing => pc[d] \in Refreshing)
                     /\ (pc'[d] \in Unsaved => pc[d] \in Unsaved)
  BY <1>1, <1>2, Places DEF Goto, Typed, TypeOK
<1>8. Carrying'
  BY <1>2, <1>7 DEF Carrying, Typed, caller
<1>9. QED
  BY <1>3, <1>4, <1>6, <1>8, TypedAgain

LEMMA TypedRename ==
  ASSUME Typed, NEW c \in Caller, Rename(c)
  PROVE  Typed'
<1>1. grant[c] \in Credential /\ file' \in Credential \cup {Torn}
  BY Places DEF Rename, Unsaved, Typed, TypeOK, Carrying
<1>2. CacheTyped' /\ CallersTyped' /\ Carrying'
  BY <1>1, ReturnTyped DEF Rename
<1>3. \A h \in {"closed", "tmp", "file", "gone"} : Moved(h) \in {"closed", "tmp", "file", "gone"}
  BY Zenon DEF Moved
<1>4. DiskTyped'
  BY <1>1, <1>3 DEF Rename, DiskTyped, Typed, TypeOK
<1>5. ProviderTyped' /\ up' \in [Process -> BOOLEAN] /\ logins' \in 0..MaxLogins
  BY TypedParts DEF Rename, provider, ProviderTyped, Typed
<1>6. QED
  BY <1>2, <1>4, <1>5, TypedAgain

LEMMA TypedRefresh ==
  ASSUME Typed, NEW c \in Caller, Refresh(c)
  PROVE  Typed'
<1>1. CASE Refused(c) \/ ReplyLost(c) \/ SaveFails(c)
  BY <1>1, RefreshFailsTyped, Places DEF Refused, ReplyLost, SaveFails, Unsaved
<1>2. QED
  BY <1>1, TypedGrant, TypedSaves, TypedRename DEF Refresh

LEMMA TypedProcess ==
  ASSUME Typed, NEW p \in Process, Crash(p) \/ Restart(p) \/ PassTtl(p)
  PROVE  Typed'
<1>1. ProviderTyped' /\ up' \in [Process -> BOOLEAN] /\ logins' \in 0..MaxLogins
  BY TypedParts DEF Crash, Restart, PassTtl, provider, ProviderTyped, Typed
<1>2. DiskTyped'
  BY TypedParts DEF Crash, Restart, PassTtl, disk, DiskTyped, Typed
<1>3. CacheTyped'
  <2>1. CASE Restart(p)
    <3>1. file # Torn => file \in Credential
      BY DEF Typed, TypeOK
    <3>2. CASE file = Torn
      BY <2>1, <3>2, TypedParts DEF Restart, cache, CacheTyped, Typed
    <3>3. CASE file # Torn
      BY <2>1, <3>1, <3>3, TypedParts, CommitTyped DEF Restart, Typed
    <3>4. QED
      BY <3>2, <3>3
  <2>2. CASE Crash(p)
    BY <2>2 DEF Crash, CacheTyped, Typed, TypeOK
  <2>3. CASE PassTtl(p)
    BY <2>3 DEF PassTtl, CacheTyped, Typed, TypeOK
  <2>4. QED
    BY <2>1, <2>2, <2>3
<1>4. pc' \in [Caller -> Location] /\ UNCHANGED caller
      /\ \A d \in Caller : pc'[d] # pc[d] => pc'[d] = "done"
  BY Places DEF Crash, Restart, PassTtl, Typed, TypeOK
<1>5. lock' \in [Process -> Caller \cup {None}]
  BY DEF Crash, Restart, PassTtl, Typed, TypeOK
<1>6. CallersTyped'
  BY <1>4, <1>5 DEF CallersTyped, caller, Typed, TypeOK
<1>7. Carrying'
  BY <1>4, Places DEF Carrying, caller, Typed
<1>8. QED
  BY <1>1, <1>2, <1>3, <1>6, <1>7, TypedAgain

LEMMA TypedWorld ==
  ASSUME Typed, (\E n \in 0..issued : Expire(n)) \/ Login
  PROVE  Typed'
<1>1. CacheTyped' /\ CallersTyped' /\ Carrying' /\ up' \in [Process -> BOOLEAN]
  BY TypedParts DEF Expire, Login, cache, caller, CacheTyped, CallersTyped, Carrying, Typed
<1>2. issued \in Nat /\ MaxGrants \in Nat /\ MaxLogins \in Nat /\ logins \in Nat
  BY AuthAssumption DEF Typed, TypeOK
<1>3. ProviderTyped' /\ logins' \in 0..MaxLogins
  <2>1. CASE Login
    <3>1. issued' = issued + 1 /\ issued' \in 0..MaxGrants /\ logins' \in 0..MaxLogins
      BY <1>2, <2>1 DEF Login
    <3>2. 0..issued \subseteq 0..issued' /\ issued' \in 0..issued'
      BY <1>2, <3>1
    <3>3. live' = live \cup {issued'} /\ expired' = expired
      BY <2>1, <3>1 DEF Login
    <3>4. QED
      BY <3>1, <3>2, <3>3 DEF ProviderTyped, Typed, TypeOK
  <2>2. ASSUME NEW n \in 0..issued, Expire(n) PROVE ProviderTyped' /\ logins' \in 0..MaxLogins
    BY <2>2 DEF Expire, ProviderTyped, Typed, TypeOK
  <2>3. QED
    BY <2>1, <2>2
<1>4. issued + 1 \in Nat => [access |-> issued + 1, refresh |-> issued + 1] \in Credential
  BY DEF Credential
<1>5. DiskTyped'
  BY <1>2, <1>4, TypedParts DEF Expire, Login, disk, DiskTyped, Typed
<1>6. QED
  BY <1>1, <1>3, <1>5, TypedAgain

LEMMA TypedKept ==
  ASSUME Typed, [Next]_vars
  PROVE  Typed'
<1>1. CASE UNCHANGED vars
  BY <1>1 DEF vars, provider, disk, cache, caller, Typed, TypeOK, Carrying
<1>2. QED
  BY <1>1, TypedLoads, TypedRefresh, TypedProcess, TypedWorld DEF Next

\* Every token, lock and handle of the model stays of its kind, and no caller
\* reaches the token endpoint or the disk without a credential to send or to
\* write (CodexAuthCache::load, force_refresh_after and CodexAuth::refresh).
THEOREM AuthTypeCorrect == Spec => []TypeOK
<1>1. Typed => TypeOK
  BY DEF Typed
<1>2. QED
  BY <1>1, TypedInit, TypedKept, PTL DEF Spec

-----------------------------------------------------------------------------
(* The cache's write lock *)

\* A caller refreshes under the write lock of its process, which runs.
Locked ==
  /\ \A c \in Caller : pc[c] \in Refreshing => lock[Home[c]] = c
  /\ \A c \in Caller : pc[c] \notin {"idle", "done"} => up[Home[c]]

Loads(c) ==
  \/ Ask(c) \/ LoadHit(c) \/ LoadStale(c) \/ ForceShared(c) \/ ForceStart(c)
  \/ Finish(c) \/ Reject(c) \/ Drop(c)

\* A step of one caller leaves the other callers and processes alone; only
\* a rename reaches the handles of other processes.
Alone(c) ==
  /\ \A d \in Caller \ {c} :
       /\ pc'[d] = pc[d] /\ base'[d] = base[d] /\ grant'[d] = grant[d]
       /\ rejected'[d] = rejected[d]
  /\ \A p \in Process \ {Home[c]} : lock'[p] = lock[p] /\ entry'[p] = entry[p]
  /\ UNCHANGED <<up, logins>>

\* It starts a refresh under a free lock, goes on with one, or stops.
Moves(c) ==
  \/ pc'[c] = "posting" /\ lock[Home[c]] = None /\ lock'[Home[c]] = c
     /\ pc[c] \in {"load", "force"} /\ base'[c] = file /\ file # Torn
     /\ UNCHANGED <<provider, disk, entry, grant, rejected>>
  \/ pc[c] \in Refreshing /\ pc'[c] \in Unsaved /\ UNCHANGED <<entry, lock, base, rejected>>
  \/ pc'[c] \notin Refreshing /\ UNCHANGED <<provider, base, grant>>
     /\ (lock'[Home[c]] # lock[Home[c]] => lock[Home[c]] \in {None, c})

LEMMA CommitAlone ==
  ASSUME Typed, NEW p \in Process, NEW cred, Commit(p, cred)
  PROVE  entry'[p] = cred /\ \A q \in Process \ {p} : entry'[q] = entry[q]
BY DEF Commit, Typed, TypeOK

LEMMA ReturnAlone ==
  ASSUME Typed, NEW c \in Caller, NEW cred, Return(c, cred) \/ Fail(c),
         UNCHANGED <<base, grant, rejected, up, logins>>
  PROVE  /\ Alone(c)
         /\ pc'[c] \in {"using", "done"} /\ lock'[Home[c]] = None
         /\ entry'[Home[c]] = IF Return(c, cred) THEN cred ELSE entry[Home[c]]
<1>1. Home[c] \in Process
  BY Values
<1>2. CASE Return(c, cred)
  BY <1>1, <1>2, CommitAlone DEF Return, Serve, Goto, Alone, Typed, TypeOK
<1>3. CASE ~Return(c, cred)
  BY <1>1, <1>3 DEF Fail, cache, Goto, Alone, Typed, TypeOK
<1>4. QED
  BY <1>2, <1>3

LEMMA StartMoves ==
  ASSUME Typed, NEW c \in Caller, StartRefresh(c), file # Torn, pc[c] \in {"load", "force"},
         lock[Home[c]] = None, UNCHANGED <<provider, disk, up, grant, rejected, logins>>
  PROVE  Alone(c) /\ Moves(c)
<1>1. Home[c] \in Process
  BY Values
<1>2. Alone(c)
  BY <1>1 DEF StartRefresh, Goto, cache, Alone, Typed, TypeOK
<1>3. QED
  BY <1>1, <1>2 DEF StartRefresh, Goto, cache, Moves, Typed, TypeOK

LEMMA LoadsMove ==
  ASSUME Typed, NEW c \in Caller, Loads(c)
  PROVE  Alone(c) /\ Moves(c)
<1>1. Home[c] \in Process
  BY Values
<1>2. CASE LoadStale(c) \/ ForceStart(c)
  <2>1. /\ UNCHANGED <<provider, disk, up, grant, rejected, logins>>
        /\ pc[c] \in {"load", "force"} /\ lock[Home[c]] = None
    BY <1>2 DEF LoadStale, ForceStart
  <2>2. \/ file # Torn /\ StartRefresh(c)
        \/ file # Torn /\ Return(c, file) /\ UNCHANGED base
        \/ Fail(c) /\ UNCHANGED base
    BY <1>2, Zenon DEF LoadStale, ForceStart, ReuseOrRotate
  <2>3. CASE file # Torn /\ StartRefresh(c)
    BY <2>1, <2>3, StartMoves
  <2>4. CASE (Return(c, file) \/ Fail(c)) /\ UNCHANGED base
    <3>1. Alone(c) /\ pc'[c] \in {"using", "done"}
      BY <2>1, <2>4, ReturnAlone
    <3>2. QED
      BY <2>1, <2>4, <3>1 DEF Moves, Refreshing, Unsaved
  <2>5. QED
    BY <2>2, <2>3, <2>4
<1>3. CASE ~(LoadStale(c) \/ ForceStart(c))
  <2>1. UNCHANGED <<provider, base, grant, entry, up, logins>>
    BY <1>3 DEF Loads, Ask, LoadHit, ForceShared, Finish, Reject, Drop, caller, cache
  <2>2. PICK to \in {"load", "using", "force", "done"} : Goto(c, to)
    BY <1>3 DEF Loads, Ask, LoadHit, ForceShared, Finish, Reject, Drop, Serve
  <2>3. \A d \in Caller \ {c} : rejected'[d] = rejected[d]
    BY <1>3 DEF Loads, Ask, LoadHit, ForceShared, Finish, Reject, Drop, caller, Typed, TypeOK
  <2>4. /\ \A p \in Process \ {Home[c]} : lock'[p] = lock[p]
        /\ lock'[Home[c]] # lock[Home[c]] => lock[Home[c]] = c
    BY <1>1, <1>3 DEF Loads, Ask, LoadHit, ForceShared, Finish, Reject, Drop, Typed, TypeOK
  <2>5. pc'[c] = to /\ \A d \in Caller \ {c} : pc'[d] = pc[d]
    BY <2>2 DEF Goto, Typed, TypeOK
  <2>6. Alone(c)
    BY <2>1, <2>3, <2>4, <2>5 DEF Alone
  <2>7. QED
    BY <2>1, <2>4, <2>5, <2>6 DEF Moves, Refreshing, Unsaved
<1>4. QED
  BY <1>2, <1>3

LEMMA RefreshMoves ==
  ASSUME Typed, Locked, NEW c \in Caller, Refresh(c)
  PROVE  pc[c] \in Refreshing /\ Alone(c) /\ Moves(c)
<1>1. Home[c] \in Process /\ pc[c] \in Refreshing
  BY Values DEF Refresh, Grant, Receive, Refused, ReplyLost, OpenTmp, WriteTmp, Rename,
                SaveFails, Refreshing, Unsaved
<1>2. lock[Home[c]] = c
  BY <1>1 DEF Locked
<1>3. CASE Refused(c) \/ ReplyLost(c) \/ SaveFails(c) \/ Rename(c)
  <2>1. UNCHANGED <<provider, base, grant, rejected, up, logins>>
    BY <1>3 DEF Refused, ReplyLost, SaveFails, Rename, RefreshFails
  <2>2. \E cred : Return(c, cred) \/ Fail(c)
    BY <1>3 DEF Refused, ReplyLost, SaveFails, Rename, RefreshFails
  <2>3. Alone(c) /\ pc'[c] \in {"using", "done"}
    BY <2>1, <2>2, ReturnAlone
  <2>4. QED
    BY <1>1, <1>2, <2>1, <2>3 DEF Moves, Refreshing, Unsaved
<1>4. CASE Grant(c) \/ Receive(c) \/ OpenTmp(c) \/ WriteTmp(c)
  <2>1. UNCHANGED <<entry, lock, base, rejected, up, logins>>
    BY <1>4 DEF Grant, Receive, OpenTmp, WriteTmp, cache, caller
  <2>2. PICK to \in Unsaved : Goto(c, to)
    BY <1>4 DEF Grant, Receive, OpenTmp, WriteTmp, Unsaved
  <2>3. \A d \in Caller \ {c} : grant'[d] = grant[d]
    BY <1>4 DEF Grant, Receive, OpenTmp, WriteTmp, caller, Typed, TypeOK
  <2>4. pc'[c] = to /\ \A d \in Caller \ {c} : pc'[d] = pc[d]
    BY <2>2 DEF Goto, Typed, TypeOK
  <2>5. QED
    BY <1>1, <2>1, <2>3, <2>4 DEF Alone, Moves
<1>5. QED
  BY <1>3, <1>4 DEF Refresh

LEMMA LockedMove ==
  ASSUME Typed, Locked, NEW c \in Caller, Alone(c), Moves(c), up[Home[c]]
  PROVE  Locked'
<1>1. ASSUME NEW d \in Caller, pc'[d] \in Refreshing PROVE lock'[Home[d]] = d
  <2>1. CASE d = c
    BY <1>1, <2>1, Places DEF Moves, Locked
  <2>2. CASE d # c
    <3>1. pc[d] \in Refreshing /\ lock[Home[d]] = d /\ d # None /\ Home[d] \in Process
      BY <1>1, <2>2, Values DEF Alone, Locked
    <3>2. lock'[Home[c]] # lock[Home[c]] => lock[Home[c]] \in {None, c}
      BY DEF Moves
    <3>3. QED
      BY <2>2, <3>1, <3>2 DEF Alone
  <2>3. QED
    BY <2>1, <2>2
<1>2. \A d \in Caller : pc'[d] \notin {"idle", "done"} => up'[Home[d]]
  BY DEF Alone, Locked
<1>3. QED
  BY <1>1, <1>2 DEF Locked

LEMMA LockedKept ==
  ASSUME Typed, Locked, [Next]_vars
  PROVE  Locked'
<1>1. ASSUME NEW c \in Caller, Loads(c) PROVE Locked'
  <2>1. up[Home[c]]
    BY <1>1 DEF Loads, Ask, LoadHit, LoadStale, ForceShared, ForceStart, Finish, Reject, Drop, Locked
  <2>2. QED
    BY <1>1, <2>1, LoadsMove, LockedMove
<1>2. ASSUME NEW c \in Caller, Refresh(c) PROVE Locked'
  <2>1. up[Home[c]]
    BY <1>2, RefreshMoves DEF Locked, Refreshing, Unsaved
  <2>2. QED
    BY <1>2, <2>1, RefreshMoves, LockedMove
<1>3. ASSUME NEW p \in Process, Crash(p) PROVE Locked'
  <2>1. \A d \in Caller : IF Home[d] = p THEN pc'[d] \in {"idle", "done"} ELSE pc'[d] = pc[d]
    BY <1>3 DEF Crash
  <2>2. \A q \in Process \ {p} : lock'[q] = lock[q] /\ up'[q] = up[q]
    BY <1>3 DEF Crash, Typed, TypeOK
  <2>3. QED
    BY <2>1, <2>2, Values, Places DEF Locked
<1>4. ASSUME NEW p \in Process, Restart(p) PROVE Locked'
  BY <1>4, Values DEF Restart, Locked, Typed, TypeOK
<1>5. CASE (\E p \in Process : PassTtl(p)) \/ (\E n \in 0..issued : Expire(n)) \/ Login
           \/ UNCHANGED vars
  BY <1>5 DEF PassTtl, Expire, Login, vars, Locked
<1>6. QED
  BY <1>1, <1>2, <1>3, <1>4, <1>5 DEF Next, Loads

LEMMA LockedInit == Init => Locked
BY DEF Init, Locked, Refreshing, Unsaved

-----------------------------------------------------------------------------
(* Without a login there is one chain of grants: the provider accepts only   *)
(* the newest refresh token, and nobody can be granted the next one before    *)
(* the file holds it.                                                         *)

\* The file holds the newest credential, or a caller may be carrying it there.
OneGrant ==
  /\ live = {issued} /\ file \in Credential /\ file.access = file.refresh
  /\ file.refresh = issued \/ file.refresh + 1 = issued
  /\ \A c \in Caller : pc[c] \in Refreshing =>
       base[c].access = base[c].refresh /\ base[c].refresh <= file.refresh
  /\ \A c \in Caller : pc[c] \in Unsaved =>
       grant[c] = [access |-> issued, refresh |-> issued] /\ file.refresh + 1 = issued
  /\ \A c, d \in Caller : pc[c] \in Unsaved /\ pc[d] \in Unsaved => c = d

\* The only open handle is that of the one caller that writes, on the copy.
OwnCopy ==
  /\ \A p \in Process : handle[p] # "closed" =>
       handle[p] = "tmp" /\ \E c \in Caller : Home[c] = p /\ pc[c] = "opened"
  /\ \A c \in Caller : pc[c] = "opened" => handle[Home[c]] = "tmp"
  /\ \A c \in Caller : pc[c] = "written" => tmp = grant[c]

Ordered == OneGrant /\ OwnCopy

LEMMA OrderedInit == Init => Ordered
BY DEF Init, Ordered, OneGrant, OwnCopy, First, Credential, Refreshing, Unsaved

\* Nothing is granted or renamed; callers stop, or begin with what is read.
LEMMA GrantQuiet ==
  ASSUME OneGrant, UNCHANGED <<live, issued, file>>,
         \A d \in Caller : pc'[d] \in Refreshing =>
           \/ pc'[d] = "posting" /\ base'[d] = file
           \/ pc[d] \in Refreshing /\ UNCHANGED base[d]
              /\ (pc'[d] \in Unsaved => pc[d] \in Unsaved /\ UNCHANGED grant[d])
  PROVE  OneGrant'
<1>1. \A d \in Caller : pc'[d] \in Unsaved => pc[d] \in Unsaved /\ UNCHANGED grant[d]
  BY Places DEF Unsaved
<1>2. \A d \in Caller : pc'[d] \in Refreshing =>
        base'[d] = file \/ (pc[d] \in Refreshing /\ base'[d] = base[d])
  OBVIOUS
<1>3. file.refresh \in Nat
  BY DEF OneGrant, Credential
<1>4. QED
  BY <1>1, <1>2, <1>3 DEF OneGrant

LEMMA CopyQuiet ==
  ASSUME OwnCopy, UNCHANGED <<handle, tmp>>,
         \A d \in Caller : /\ pc'[d] = "opened" <=> pc[d] = "opened"
                           /\ pc'[d] = "written" => pc[d] = "written" /\ UNCHANGED grant[d]
  PROVE  OwnCopy'
BY DEF OwnCopy

LEMMA OrderedLoads ==
  ASSUME Typed, Ordered, NEW c \in Caller, Loads(c)
  PROVE  Ordered'
<1>1. UNCHANGED <<live, issued, file, handle, tmp, grant>>
  BY DEF Loads, Ask, LoadHit, LoadStale, ForceShared, ForceStart, Finish, Reject, Drop,
         provider, disk, caller
<1>2. pc[c] \notin {"opened", "written"}
  BY DEF Loads, Ask, LoadHit, LoadStale, ForceShared, ForceStart, Finish, Reject, Drop
<1>3. Alone(c) /\ Moves(c)
  BY LoadsMove
<1>4. ~(pc[c] \in Refreshing /\ pc'[c] \in Unsaved)
  BY DEF Loads, Ask, LoadHit, LoadStale, ForceShared, ForceStart, Finish, Reject, Drop,
         Goto, Serve, Refreshing, Unsaved, Typed, TypeOK
<1>5. (pc'[c] = "posting" /\ base'[c] = file) \/ pc'[c] \notin Refreshing
  BY <1>3, <1>4 DEF Moves
<1>6. OneGrant'
  BY <1>1, <1>3, <1>5, GrantQuiet, Places DEF Alone, Ordered
<1>7. pc'[c] \notin {"opened", "written"}
  BY <1>5 DEF Refreshing, Unsaved
<1>8. OwnCopy'
  BY <1>1, <1>2, <1>3, <1>7, CopyQuiet DEF Alone, Ordered
<1>9. QED
  BY <1>6, <1>8 DEF Ordered

LEMMA OrderedGrant ==
  ASSUME Typed, Ordered, NEW c \in Caller, Grant(c)
  PROVE  Ordered'
<1>1. /\ base[c].refresh \in live /\ issued' = issued + 1 /\ live' = (live \ {base[c].refresh}) \cup {issued'}
      /\ pc[c] = "posting" /\ UNCHANGED <<disk, base>>
      /\ base[c] \in Credential /\ issued \in Nat /\ file.refresh \in Nat
  BY AuthAssumption, Places
     DEF Grant, Typed, TypeOK, Carrying, Ordered, OneGrant, Credential
<1>2. base[c].refresh = issued /\ base[c].refresh <= file.refresh
  BY <1>1, Places DEF Ordered, OneGrant
<1>3. file.refresh = issued
  BY <1>1, <1>2 DEF Ordered, OneGrant
<1>4. \A d \in Caller : pc[d] \notin Unsaved
  BY <1>1, <1>3 DEF Ordered, OneGrant
<1>5. /\ pc'[c] = "replied" /\ grant'[c] = [access |-> issued', refresh |-> issued']
      /\ \A d \in Caller \ {c} : pc'[d] = pc[d] /\ grant'[d] = grant[d]
  BY DEF Grant, Goto, Typed, TypeOK
<1>6. \A d \in Caller : pc'[d] \in Unsaved => d = c
  BY <1>4, <1>5
<1>7. live' = {issued'}
  BY <1>1, <1>2 DEF Ordered, OneGrant
<1>8. OneGrant'
  BY <1>1, <1>3, <1>5, <1>6, <1>7, Places DEF Ordered, OneGrant, disk
<1>9. OwnCopy'
  BY <1>1, <1>5, CopyQuiet DEF disk, Ordered
<1>10. QED
  BY <1>8, <1>9 DEF Ordered

LEMMA OrderedReceive ==
  ASSUME Typed, Ordered, NEW c \in Caller, Receive(c)
  PROVE  Ordered'
<1>1. UNCHANGED <<live, issued, file, handle, tmp, base, grant>>
  BY DEF Receive, provider, disk, caller
<1>2. /\ pc[c] = "replied" /\ pc'[c] = "granted" /\ \A d \in Caller \ {c} : pc'[d] = pc[d]
  BY DEF Receive, Goto, Typed, TypeOK
<1>3. OneGrant' /\ OwnCopy'
  BY <1>1, <1>2, GrantQuiet, CopyQuiet DEF Ordered, Unsaved, Refreshing
<1>4. QED
  BY <1>3 DEF Ordered

\* A refresh that fails closes its handle.  A caller that opened the copy is
\* in another process, or is the one that stops.
LEMMA OrderedFails ==
  ASSUME Typed, Locked, Ordered, NEW c \in Caller, pc[c] \in Refreshing, RefreshFails(c),
         UNCHANGED <<file, tmp>>
  PROVE  Ordered'
<1>1. UNCHANGED <<live, issued, base, grant, rejected, up, logins>> /\ Home[c] \in Process
  BY Values DEF RefreshFails, provider
<1>2. Alone(c) /\ pc'[c] \in {"using", "done"}
  BY <1>1, ReturnAlone DEF RefreshFails
<1>3. OneGrant'
  BY <1>1, <1>2, GrantQuiet, Places DEF Alone, Ordered
<1>4. handle' = [handle EXCEPT ![Home[c]] = "closed"]
  BY DEF RefreshFails
<1>5. \A d \in Caller \ {c} : pc[d] = "opened" => Home[d] # Home[c] /\ Home[d] \in Process
  BY Values DEF Locked, Refreshing, Unsaved
<1>6. OwnCopy'
  <2>1. \A p \in Process : handle'[p] = IF p = Home[c] THEN "closed" ELSE handle[p]
    BY <1>1, <1>4 DEF Typed, TypeOK
  <2>2. ASSUME NEW p \in Process, handle'[p] # "closed"
        PROVE  handle'[p] = "tmp" /\ \E d \in Caller : Home[d] = p /\ pc'[d] = "opened"
    <3>1. p # Home[c] /\ handle'[p] = handle[p]
      BY <2>1, <2>2
    <3>2. PICK d \in Caller : Home[d] = p /\ pc[d] = "opened"
      BY <2>2, <3>1 DEF Ordered, OwnCopy
    <3>3. d # c
      BY <3>1, <3>2
    <3>4. QED
      BY <1>2, <2>2, <3>1, <3>2, <3>3 DEF Alone, Ordered, OwnCopy
  <2>3. \A d \in Caller : pc'[d] = "opened" => handle'[Home[d]] = "tmp"
    BY <1>2, <1>5, <2>1 DEF Alone, Ordered, OwnCopy
  <2>4. \A d \in Caller : pc'[d] = "written" => tmp' = grant'[d]
    BY <1>1, <1>2 DEF Alone, Ordered, OwnCopy
  <2>5. QED
    BY <2>2, <2>3, <2>4 DEF OwnCopy
<1>7. QED
  BY <1>3, <1>6 DEF Ordered

LEMMA OrderedWrites ==
  ASSUME Typed, Ordered, NEW c \in Caller, OpenTmp(c) \/ WriteTmp(c)
  PROVE  Ordered'
<1>1. UNCHANGED <<live, issued, base, grant>> /\ pc[c] \in Unsaved /\ Home[c] \in Process
  BY Values DEF OpenTmp, WriteTmp, provider, caller, Unsaved
<1>2. \A d \in Caller : pc[d] \in Unsaved => d = c
  BY <1>1 DEF Ordered, OneGrant
<1>3. \A d \in Caller \ {c} : pc'[d] = pc[d] /\ pc'[d] \notin Unsaved
  BY <1>2 DEF OpenTmp, WriteTmp, Goto, Typed, TypeOK
<1>4. \A p \in Process \ {Home[c]} : handle'[p] = handle[p] /\ handle[p] = "closed"
  <2>1. \A p \in Process \ {Home[c]} : handle'[p] = handle[p]
    BY <1>1 DEF OpenTmp, WriteTmp, Typed, TypeOK
  <2>2. \A p \in Process \ {Home[c]} : handle[p] = "closed"
    BY <1>2 DEF Ordered, OwnCopy, Unsaved
  <2>3. QED
    BY <2>1, <2>2
<1>5. CASE OpenTmp(c)
  <2>1. file' = file /\ pc'[c] = "opened" /\ handle'[Home[c]] = "tmp"
    BY <1>1, <1>5 DEF OpenTmp, Goto, Typed, TypeOK
  <2>2. OneGrant'
    BY <1>1, <1>3, <2>1, GrantQuiet, Places DEF Ordered
  <2>3. OwnCopy'
    BY <1>1, <1>3, <1>4, <2>1 DEF OwnCopy, Unsaved
  <2>4. QED
    BY <2>2, <2>3 DEF Ordered
<1>6. CASE WriteTmp(c)
  <2>1. handle[Home[c]] = "tmp"
    BY <1>6 DEF WriteTmp, Ordered, OwnCopy
  <2>2. file' = file /\ tmp' = grant[c] /\ pc'[c] = "written" /\ handle'[Home[c]] = "closed"
    BY <1>1, <1>6, <2>1 DEF WriteTmp, Patched, Goto, Typed, TypeOK
  <2>3. OneGrant'
    BY <1>1, <1>3, <2>2, GrantQuiet, Places DEF Ordered
  <2>4. OwnCopy'
    BY <1>1, <1>3, <1>4, <2>2 DEF OwnCopy, Unsaved
  <2>5. QED
    BY <2>3, <2>4 DEF Ordered
<1>7. QED
  BY <1>5, <1>6

LEMMA OrderedRename ==
  ASSUME Typed, Ordered, NEW c \in Caller, Rename(c)
  PROVE  Ordered' /\ file' = grant[c] /\ issued' = issued /\ file'.access = issued
<1>1. /\ UNCHANGED <<live, issued, base, grant, rejected, up, logins>> /\ Home[c] \in Process
      /\ pc[c] = "written" /\ pc[c] \in Unsaved /\ issued \in Nat
  BY Values, AuthAssumption DEF Rename, provider, Unsaved, Typed, TypeOK
<1>2. \A d \in Caller : pc[d] \in Unsaved => d = c
  BY <1>1 DEF Ordered, OneGrant
<1>3. Alone(c) /\ pc'[c] \in {"using", "done"}
  BY <1>1, ReturnAlone DEF Rename
<1>4. \A d \in Caller : pc'[d] \notin Unsaved
  BY <1>2, <1>3 DEF Alone, Unsaved
<1>5. \A p \in Process : handle[p] = "closed"
  BY <1>1, <1>2 DEF Ordered, OwnCopy, Unsaved
<1>6. Moved("closed") = "closed"
  BY Zenon DEF Moved
<1>7. \A p \in Process : handle'[p] = "closed"
  BY <1>5, <1>6 DEF Rename
<1>8. file' = grant[c] /\ grant[c] = [access |-> issued, refresh |-> issued]
  BY <1>1 DEF Rename, Ordered, OwnCopy, OneGrant
<1>9. file' \in Credential /\ file'.access = issued /\ file'.refresh = issued
  BY <1>1, <1>8 DEF Credential
<1>10. \A d \in Caller : pc'[d] \in Refreshing => pc[d] \in Refreshing
  BY <1>3 DEF Alone, Refreshing, Unsaved
<1>11. \A d \in Caller : pc[d] \in Refreshing => base[d].access = base[d].refresh /\ base[d].refresh <= issued
  <2>1. \A d \in Caller : pc[d] \in Refreshing => base[d].refresh \in Nat
    BY DEF Typed, Carrying, Credential
  <2>2. file.refresh \in Nat
    BY DEF Ordered, OneGrant, Credential
  <2>3. QED
    BY <1>1, <2>1, <2>2 DEF Ordered, OneGrant
<1>12. OneGrant'
  BY <1>1, <1>4, <1>9, <1>10, <1>11 DEF Ordered, OneGrant
<1>13. OwnCopy'
  BY <1>4, <1>7 DEF OwnCopy, Unsaved
<1>14. QED
  BY <1>1, <1>8, <1>9, <1>12, <1>13 DEF Ordered

LEMMA OrderedCrash ==
  ASSUME Typed, Ordered, NEW p \in Process, Crash(p)
  PROVE  Ordered'
<1>1. UNCHANGED <<live, issued, file, tmp, base, grant>>
  BY DEF Crash, provider, caller
<1>2. \A d \in Caller : IF Home[d] = p THEN pc'[d] \in {"idle", "done"} ELSE pc'[d] = pc[d]
  BY DEF Crash
<1>3. \A q \in Process : handle'[q] = IF q = p THEN "closed" ELSE handle[q]
  BY DEF Crash, Typed, TypeOK
<1>4. OneGrant'
  BY <1>1, <1>2, GrantQuiet, Places DEF Ordered
<1>5. ASSUME NEW q \in Process, handle'[q] # "closed"
      PROVE  handle'[q] = "tmp" /\ \E d \in Caller : Home[d] = q /\ pc'[d] = "opened"
  <2>1. q # p /\ handle'[q] = handle[q]
    BY <1>3, <1>5
  <2>2. PICK d \in Caller : Home[d] = q /\ pc[d] = "opened"
    BY <1>5, <2>1 DEF Ordered, OwnCopy
  <2>3. QED
    BY <1>2, <1>5, <2>1, <2>2 DEF Ordered, OwnCopy
<1>6. \A d \in Caller : pc'[d] = "opened" => handle'[Home[d]] = "tmp"
  BY <1>2, <1>3, Values DEF Ordered, OwnCopy
<1>7. \A d \in Caller : pc'[d] = "written" => tmp' = grant'[d]
  BY <1>1, <1>2 DEF Ordered, OwnCopy
<1>8. QED
  BY <1>4, <1>5, <1>6, <1>7 DEF Ordered, OwnCopy

LEMMA NoLogin == ASSUME MaxLogins = 0, Typed PROVE ~Login
BY DEF Login, Typed, TypeOK

LEMMA OrderedKept ==
  ASSUME MaxLogins = 0, Typed, Locked, Ordered, [Next]_vars
  PROVE  Ordered'
<1>1. CASE (\E p \in Process : Restart(p) \/ PassTtl(p)) \/ (\E n \in 0..issued : Expire(n))
           \/ UNCHANGED vars
  <2>1. UNCHANGED <<live, issued, file, tmp, handle, pc, base, grant>>
    BY <1>1 DEF Restart, PassTtl, Expire, vars, provider, disk, caller
  <2>2. QED
    BY <2>1, GrantQuiet, CopyQuiet DEF Ordered
<1>2. ASSUME NEW c \in Caller, Refused(c) \/ ReplyLost(c) \/ SaveFails(c) PROVE Ordered'
  BY <1>2, OrderedFails, Places DEF Refused, ReplyLost, SaveFails, Unsaved
<1>3. ASSUME NEW c \in Caller, Refresh(c) PROVE Ordered'
  BY <1>2, <1>3, OrderedGrant, OrderedReceive, OrderedWrites, OrderedRename DEF Refresh
<1>4. ASSUME NEW c \in Caller, Loads(c) PROVE Ordered'
  BY <1>4, OrderedLoads
<1>5. QED
  BY <1>1, <1>3, <1>4, OrderedCrash, NoLogin DEF Next, Loads

\* "Writes are atomic for readers" without a login: auth.json parses at every
\* moment, whatever fails and whoever crashes (write_auth_file_atomic).  The
\* file is not locked; the order comes from the token endpoint.
THEOREM FileAlwaysParses == MaxLogins = 0 => (Spec => []FileParses)
<1> SUFFICES ASSUME MaxLogins = 0 PROVE Spec => []FileParses
  OBVIOUS
<1>1. Ordered => FileParses
  BY Values DEF Ordered, OneGrant, FileParses
<1>2. Typed /\ Locked /\ Ordered /\ [Next]_vars => Ordered'
  BY OrderedKept
<1>3. QED
  BY <1>1, <1>2, TypedInit, TypedKept, LockedInit, LockedKept, OrderedInit, PTL DEF Spec

-----------------------------------------------------------------------------
(* The cache follows the file *)

Followed ==
  /\ \A p \in Process : entry[p] # None => entry[p].access <= file.access
  /\ \A c \in Caller : pc[c] \in Refreshing /\ entry[Home[c]] # None =>
       entry[Home[c]].access <= base[c].access

\* A process's entry stays, is lost, or is replaced by one that is no older
\* while nobody in the process refreshes.
Advances(p) ==
  \/ entry'[p] \in {entry[p], None}
  \/ /\ entry'[p] \in Credential /\ entry'[p].access <= file'.access
     /\ entry[p] # None => entry[p].access <= entry'[p].access
     /\ \A c \in Caller : Home[c] = p => pc'[c] \notin Refreshing

\* The file moves forward, and a caller reads it before it refreshes.
Reads ==
  /\ file.access <= file'.access
  /\ \A c \in Caller : pc'[c] \in Refreshing =>
       \/ pc[c] \in Refreshing /\ base'[c] = base[c]
       \/ base'[c] = file

LEMMA FollowedInit == Init => Followed
BY DEF Init, Followed, First, Refreshing, Unsaved

LEMMA FollowedStep ==
  ASSUME Typed, Ordered, Followed, Reads, \A p \in Process : Advances(p), file' \in Credential
  PROVE  Followed'
<1>1. file \in Credential /\ file.access \in Nat /\ file'.access \in Nat
  BY DEF Ordered, OneGrant, Credential
<1>2. \A p \in Process : entry[p] # None => entry[p] \in Credential /\ entry[p].access \in Nat
  BY DEF Typed, TypeOK, Credential
<1>3. ASSUME NEW p \in Process, entry'[p] # None PROVE entry'[p].access <= file'.access
  BY <1>1, <1>2, <1>3 DEF Followed, Reads, Advances
<1>4. ASSUME NEW c \in Caller, pc'[c] \in Refreshing, entry'[Home[c]] # None
      PROVE  entry'[Home[c]].access <= base'[c].access
  <2>1. Home[c] \in Process
    BY Values
  <2>2. entry'[Home[c]] = entry[Home[c]]
    BY <1>4, <2>1 DEF Advances
  <2>3. QED
    BY <1>4, <2>1, <2>2 DEF Followed, Reads
<1>5. QED
  BY <1>3, <1>4 DEF Followed

\* Nobody else of the process refreshes when its lock is free or c's.
LEMMA NoOther ==
  ASSUME Locked, NEW c \in Caller, lock[Home[c]] \in {None, c}, Alone(c),
         pc'[c] \notin Refreshing
  PROVE  \A d \in Caller : Home[d] = Home[c] => pc'[d] \notin Refreshing
BY Values DEF Locked, Alone

LEMMA LoadsFollow ==
  ASSUME Typed, Locked, Ordered, Followed, NEW c \in Caller, Loads(c)
  PROVE  Reads /\ \A p \in Process : Advances(p)
<1>1. file' = file /\ file \in Credential /\ file.access \in Nat /\ Home[c] \in Process
  BY Values DEF Loads, Ask, LoadHit, LoadStale, ForceShared, ForceStart, Finish, Reject, Drop,
     disk, Ordered, OneGrant, Credential
<1>2. Alone(c) /\ Moves(c)
  BY LoadsMove
<1>3. Reads
  BY <1>1, <1>2, Places DEF Reads, Alone, Moves
<1>4. Advances(Home[c])
  <2>1. CASE entry'[Home[c]] = entry[Home[c]]
    BY <2>1 DEF Advances
  <2>2. CASE entry'[Home[c]] # entry[Home[c]]
    <3>1. LoadStale(c) \/ ForceStart(c)
      BY <2>2 DEF Loads, Ask, LoadHit, ForceShared, Finish, Reject, Drop, cache
    <3>2. /\ UNCHANGED <<grant, rejected, up, logins>> /\ lock[Home[c]] = None
      BY <3>1 DEF LoadStale, ForceStart
    <3>3. Return(c, file) /\ UNCHANGED base
      <4>1. ~StartRefresh(c) /\ ~Fail(c)
        BY <2>2 DEF StartRefresh, Fail, cache
      <4>2. QED
        BY <3>1, <4>1, Zenon DEF LoadStale, ForceStart, ReuseOrRotate
    <3>4. entry'[Home[c]] = file /\ pc'[c] \in {"using", "done"}
      BY <3>2, <3>3, ReturnAlone
    <3>5. \A d \in Caller : Home[d] = Home[c] => pc'[d] \notin Refreshing
      BY <1>2, <3>2, <3>4, NoOther DEF Refreshing, Unsaved
    <3>6. QED
      BY <1>1, <3>4, <3>5 DEF Advances, Followed
  <2>3. QED
    BY <2>1, <2>2
<1>5. QED
  BY <1>2, <1>3, <1>4 DEF Alone, Advances

LEMMA RefreshFollows ==
  ASSUME MaxLogins = 0, Typed, Locked, Ordered, Followed, NEW c \in Caller, Refresh(c)
  PROVE  Reads /\ \A p \in Process : Advances(p)
<1>1. pc[c] \in Refreshing /\ Alone(c) /\ Moves(c) /\ Home[c] \in Process /\ lock[Home[c]] = c
  BY RefreshMoves, Values DEF Locked
<1>2. base[c] \in Credential /\ base[c].access \in Nat /\ file.access \in Nat
      /\ issued \in Nat /\ file.refresh \in Nat
  BY <1>1, AuthAssumption DEF Typed, TypeOK, Carrying, Ordered, OneGrant, Credential
<1>3. CASE Rename(c)
  <2>1. /\ file' = grant[c] /\ file'.access = issued
        /\ UNCHANGED <<base, grant, rejected, up, logins>> /\ Return(c, grant[c])
    BY <1>3, OrderedRename DEF Rename
  <2>2. file.access <= issued
    BY <1>2 DEF Ordered, OneGrant
  <2>3. entry'[Home[c]] = file' /\ pc'[c] \in {"using", "done"}
    BY <2>1, ReturnAlone
  <2>4. grant[c] \in Credential
    BY <1>3 DEF Typed, Carrying, Rename, Unsaved
  <2>5. entry[Home[c]] # None => entry[Home[c]].access \in Nat
    BY <1>1 DEF Typed, TypeOK, Credential
  <2>6. \A d \in Caller : Home[d] = Home[c] => pc'[d] \notin Refreshing
    BY <1>1, <2>3, NoOther DEF Refreshing, Unsaved
  <2>7. Advances(Home[c])
    BY <1>1, <1>2, <2>1, <2>2, <2>3, <2>4, <2>5, <2>6 DEF Advances, Followed
  <2>8. Reads
    BY <1>1, <2>1, <2>2, <2>3 DEF Reads, Alone, Refreshing, Unsaved
  <2>9. QED
    BY <1>1, <2>7, <2>8 DEF Alone, Advances
<1>4. CASE Refused(c) \/ ReplyLost(c) \/ SaveFails(c)
  <2>1. file' = file /\ UNCHANGED <<base, grant, rejected, up, logins>> /\ RefreshFails(c)
    BY <1>4 DEF Refused, ReplyLost, SaveFails, RefreshFails
  <2>2. pc'[c] \in {"using", "done"} /\ entry'[Home[c]] \in {base[c], entry[Home[c]]}
    BY <2>1, ReturnAlone DEF RefreshFails
  <2>3. base[c].access <= file.access
    BY <1>1, <1>2 DEF Ordered, OneGrant
  <2>4. \A d \in Caller : Home[d] = Home[c] => pc'[d] \notin Refreshing
    BY <1>1, <2>2, NoOther DEF Refreshing, Unsaved
  <2>5. Advances(Home[c])
    BY <1>1, <1>2, <2>1, <2>2, <2>3, <2>4 DEF Advances, Followed
  <2>6. Reads
    BY <1>1, <1>2, <2>1, <2>2 DEF Reads, Alone, Refreshing, Unsaved
  <2>7. QED
    BY <1>1, <2>5, <2>6 DEF Alone, Advances
<1>5. CASE Grant(c) \/ Receive(c) \/ OpenTmp(c) \/ WriteTmp(c)
  <2>1. entry' = entry /\ base' = base
    BY <1>5 DEF Grant, Receive, OpenTmp, WriteTmp, cache, caller
  <2>2. file' = file
    BY <1>5 DEF Grant, Receive, OpenTmp, WriteTmp, disk, Ordered, OwnCopy
  <2>3. Reads
    BY <1>1, <1>2, <2>1, <2>2 DEF Reads, Alone
  <2>4. QED
    BY <2>1, <2>3 DEF Advances
<1>6. QED
  BY <1>3, <1>4, <1>5 DEF Refresh

LEMMA StepFollows ==
  ASSUME MaxLogins = 0, Typed, Locked, Ordered, Followed, [Next]_vars
  PROVE  Reads /\ \A p \in Process : Advances(p)
<1>1. file \in Credential /\ file.access \in Nat
  BY DEF Ordered, OneGrant, Credential
<1>2. ASSUME NEW p \in Process, Crash(p) PROVE Reads /\ \A q \in Process : Advances(q)
  <2>1. file' = file /\ base' = base /\ \A d \in Caller : pc'[d] \in {pc[d], "done"}
    BY <1>2 DEF Crash, caller
  <2>2. \A q \in Process : entry'[q] \in {entry[q], None}
    BY <1>2 DEF Crash, Typed, TypeOK
  <2>3. QED
    BY <1>1, <2>1, <2>2, Places DEF Reads, Advances
<1>3. ASSUME NEW p \in Process, Restart(p) PROVE Reads /\ \A q \in Process : Advances(q)
  <2>1. UNCHANGED <<file, base, pc>> /\ ~up[p] /\ Commit(p, file)
    BY <1>1, <1>3, Values DEF Restart, disk, caller
  <2>2. entry'[p] = file /\ \A q \in Process \ {p} : entry'[q] = entry[q]
    BY <2>1, CommitAlone
  <2>3. \A d \in Caller : Home[d] = p => pc'[d] \notin Refreshing
    BY <2>1 DEF Locked, Refreshing, Unsaved
  <2>4. QED
    BY <1>1, <2>1, <2>2, <2>3 DEF Reads, Advances, Followed
<1>4. CASE (\E p \in Process : PassTtl(p)) \/ (\E n \in 0..issued : Expire(n)) \/ UNCHANGED vars
  <2>1. UNCHANGED <<file, base, pc, entry>>
    BY <1>4 DEF PassTtl, Expire, vars, disk, cache, caller
  <2>2. QED
    BY <1>1, <2>1 DEF Reads, Advances
<1>5. QED
  BY <1>2, <1>3, <1>4, LoadsFollow, RefreshFollows, NoLogin DEF Next, Loads

\* A cache never goes back to an older credential while nobody logs in: what a
\* caller falls back on or hands out was read under its process's lock and is
\* no older than the entry (CodexAuthCache::load and force_refresh_after).
THEOREM CacheGoesForward == MaxLogins = 0 => (Spec => ForwardOnly)
<1> SUFFICES ASSUME MaxLogins = 0 PROVE Spec => ForwardOnly
  OBVIOUS
<1>1. Typed /\ Locked /\ Ordered /\ Followed /\ [Next]_vars => Followed'
  <2>1. Typed /\ Locked /\ Ordered /\ [Next]_vars => file' \in Credential
    BY OrderedKept DEF Ordered, OneGrant
  <2>2. QED
    BY <2>1, StepFollows, FollowedStep
<1>2. Typed /\ Locked /\ Ordered /\ Followed /\ [Next]_vars
        => [\A p \in Process : entry[p] # None /\ entry'[p] # None =>
              entry'[p].access >= entry[p].access]_vars
  <2> SUFFICES ASSUME Typed, Locked, Ordered, Followed, [Next]_vars, NEW p \in Process,
                      entry[p] # None, entry'[p] # None
               PROVE  entry'[p].access >= entry[p].access
    OBVIOUS
  <2>1. entry[p].access \in Nat
    BY DEF Typed, TypeOK, Credential
  <2>2. Advances(p)
    BY StepFollows
  <2>3. QED
    BY <2>1, <2>2 DEF Advances, Credential
<1>3. Typed /\ Locked /\ Ordered /\ [Next]_vars => Ordered'
  BY OrderedKept
<1>4. QED
  BY <1>1, <1>2, <1>3, TypedInit, TypedKept, LockedInit, LockedKept, OrderedInit, FollowedInit,
     PTL DEF Spec, ForwardOnly

-----------------------------------------------------------------------------
(* Why a token is spent *)

\* A caller saw its token rejected before it forces a refresh, and asks the
\* endpoint only if it has found that token in the file.
Reasoned ==
  /\ \A c \in Caller : pc[c] \in {"idle", "load"} => rejected[c] = None
  /\ \A c \in Caller : pc[c] = "posting" /\ rejected[c] # None => base[c].access = rejected[c]

LEMMA ReasonedInit == Init => Reasoned
BY DEF Init, Reasoned

LEMMA ReasonedMoves ==
  ASSUME Reasoned, NEW c \in Caller, Alone(c),
         /\ pc'[c] \in {"idle", "load"} => pc[c] \in {"idle", "load"} /\ UNCHANGED rejected
         /\ pc'[c] = "posting" /\ rejected'[c] # None => base'[c].access = rejected'[c]
  PROVE  Reasoned'
BY DEF Reasoned, Alone

LEMMA ReasonedKept ==
  ASSUME Typed, Locked, Reasoned, [Next]_vars
  PROVE  Reasoned'
<1>1. ASSUME NEW c \in Caller, Loads(c) PROVE Reasoned'
  <2>1. Alone(c) /\ Moves(c)
    BY <1>1, LoadsMove
  <2>2. CASE Ask(c)
    BY <2>1, <2>2, ReasonedMoves DEF Ask, Goto, caller, Typed, TypeOK
  <2>3. CASE ~Ask(c)
    <3>1. pc'[c] \notin {"idle", "load"}
      BY <1>1, <2>3
         DEF Loads, LoadHit, LoadStale, ForceShared, ForceStart, ReuseOrRotate, Finish, Reject,
             Drop, StartRefresh, Return, Serve, Fail, Goto, Typed, TypeOK
    <3>2. ASSUME pc'[c] = "posting", rejected'[c] # None PROVE base'[c].access = rejected'[c]
      <4>1. LoadStale(c) \/ ForceStart(c)
        BY <1>1, <3>2 DEF Loads, Ask, LoadHit, ForceShared, Finish, Reject,
                          Drop, Serve, Goto, Typed, TypeOK
      <4>2. rejected' = rejected
        BY <4>1 DEF LoadStale, ForceStart
      <4>3. ForceStart(c)
        BY <3>2, <4>1, <4>2 DEF LoadStale, Reasoned
      <4>4. StartRefresh(c)
        BY <3>2, <4>3 DEF ForceStart, ReuseOrRotate, Return, Serve, Fail, Goto, Typed, TypeOK
      <4>5. file.access = rejected[c]
        BY <3>2, <4>3 DEF ForceStart, ReuseOrRotate, Return, Serve, Fail, Goto, Typed, TypeOK
      <4>6. base'[c] = file
        BY <4>4 DEF StartRefresh, Typed, TypeOK
      <4>7. QED
        BY <4>2, <4>5, <4>6
    <3>3. QED
      BY <2>1, <3>1, <3>2, ReasonedMoves
  <2>4. QED
    BY <2>2, <2>3
<1>2. ASSUME NEW c \in Caller, Refresh(c) PROVE Reasoned'
  <2>1. Alone(c) /\ Moves(c) /\ pc[c] \in Refreshing
    BY <1>2, RefreshMoves
  <2>2. pc'[c] \notin {"idle", "load", "posting"}
    BY <1>2 DEF Refresh, Grant, Receive, Refused, ReplyLost, OpenTmp, WriteTmp, Rename, SaveFails,
                RefreshFails, Return, Serve, Fail, Goto, Typed, TypeOK
  <2>3. QED
    BY <2>1, <2>2, ReasonedMoves
<1>3. ASSUME NEW p \in Process, Crash(p) PROVE Reasoned'
  <2>1. \A d \in Caller : pc'[d] \in {pc[d], "done"}
    BY <1>3 DEF Crash
  <2>2. UNCHANGED caller
    BY <1>3 DEF Crash
  <2>3. QED
    BY <2>1, <2>2 DEF Reasoned, caller
<1>4. CASE (\E p \in Process : Restart(p) \/ PassTtl(p)) \/ (\E n \in 0..issued : Expire(n))
           \/ Login \/ UNCHANGED vars
  BY <1>4 DEF Restart, PassTtl, Expire, Login, vars, caller, Reasoned
<1>5. QED
  BY <1>1, <1>2, <1>3, <1>4 DEF Next, Loads

\* "Rotating again would invalidate the newer grant": while nobody logs in, a
\* forced refresh is granted only if the rejected access token is still the one
\* in the file (CodexAuthCache::force_refresh_after), although another process
\* may have rotated between its read and its request.
THEOREM RotatesRejectedOnly == MaxLogins = 0 => (Spec => RotatesOnlyRejected)
<1> SUFFICES ASSUME MaxLogins = 0 PROVE Spec => RotatesOnlyRejected
  OBVIOUS
<1>1. Typed /\ Locked /\ Ordered /\ Reasoned /\ [Next]_vars
        => [\A c \in Caller :
              pc[c] = "posting" /\ pc'[c] = "replied" /\ rejected[c] # None =>
                file # Torn /\ file.access = rejected[c]]_vars
  <2> SUFFICES ASSUME Typed, Locked, Ordered, Reasoned, Next, NEW c \in Caller,
                      pc[c] = "posting", pc'[c] = "replied", rejected[c] # None
               PROVE  file # Torn /\ file.access = rejected[c]
    BY DEF vars
  <2>1. Grant(c)
    <3>1. ASSUME NEW d \in Caller, Loads(d) PROVE FALSE
      <4>1. Alone(d) /\ Moves(d)
        BY <3>1, LoadsMove
      <4>2. d = c
        BY <4>1 DEF Alone
      <4>3. pc'[d] # "replied"
        BY <3>1 DEF Loads, Ask, LoadHit, LoadStale, ForceShared, ForceStart, ReuseOrRotate, Finish,
             Reject, Drop, StartRefresh, Return, Serve, Fail, Goto, Typed, TypeOK
      <4>4. QED
        BY <4>2, <4>3
    <3>2. ASSUME NEW d \in Caller, Refresh(d) PROVE d = c
      BY <3>2, RefreshMoves DEF Alone
    <3>3. Refresh(c)
      BY <3>1, <3>2 DEF Next, Loads, Crash, Restart, PassTtl, Expire, Login
    <3>4. QED
      BY <3>3 DEF Refresh, Receive, Refused, ReplyLost, OpenTmp, WriteTmp, Rename,
                  SaveFails, RefreshFails, Return, Serve, Fail, Goto, Typed, TypeOK
  <2>2. base[c].refresh = issued /\ base[c].refresh <= file.refresh
    BY <2>1, Places DEF Grant, Ordered, OneGrant
  <2>3. issued \in Nat /\ file.refresh \in Nat
    BY AuthAssumption DEF Typed, TypeOK, Ordered, OneGrant, Credential
  <2>4. file.refresh = issued /\ file.access = file.refresh /\ file # Torn
    BY <2>2, <2>3, Values DEF Ordered, OneGrant
  <2>5. base[c].access = base[c].refresh /\ base[c].access = rejected[c]
    BY Places DEF Ordered, OneGrant, Reasoned
  <2>6. QED
    BY <2>2, <2>4, <2>5
<1>2. Typed /\ Locked /\ Ordered /\ [Next]_vars => Ordered'
  BY OrderedKept
<1>3. QED
  BY <1>1, <1>2, TypedInit, TypedKept, LockedInit, LockedKept, OrderedInit, ReasonedInit,
     ReasonedKept, PTL DEF Spec, RotatesOnlyRejected

-----------------------------------------------------------------------------
(* No token is lost unless a step fails, however many processes share the    *)
(* file and however often the user logs in.                                  *)

Unwritten == {"replied", "granted", "opened"}

\* The provider accepts the token, and nobody has read it or can read it.
Unread(n) ==
  /\ n \in live
  /\ file \in Credential => file.refresh # n
  /\ \A d \in Caller : pc[d] = "posting" => base[d].refresh # n

\* Tokens in use are among those issued.
Numbered ==
  /\ file \in Credential => file.refresh <= issued
  /\ tmp \in Credential => tmp.refresh <= issued
  /\ \A c \in Caller : pc[c] = "posting" => base[c].refresh <= issued
  /\ \A c \in Caller : pc[c] \in Unwritten => grant[c].refresh <= issued

\* A grant that is not yet in the file is the only copy of its token.
Unspent ==
  /\ \A c \in Caller : pc[c] \in Unwritten => Unread(grant[c].refresh)
  /\ \A c, d \in Caller : c # d /\ pc[c] \in Unwritten /\ pc[d] \in Unwritten =>
       grant[c].refresh # grant[d].refresh
  /\ tmp \in Credential => Unread(tmp.refresh)
  /\ \A c \in Caller : tmp \in Credential /\ pc[c] \in Unwritten =>
       tmp.refresh # grant[c].refresh

\* Whoever truncated the file or its copy is about to write it.
Opened(c, at) == pc[c] = "opened" /\ handle[Home[c]] = at
Attended ==
  /\ file = Torn => \E c \in Caller : Opened(c, "file")
  /\ tmp = Torn => \E c \in Caller : Opened(c, "tmp")

\* A caller whose grant can still reach the file.
Carries(c) ==
  \/ pc[c] \in {"replied", "granted"}
  \/ Opened(c, "tmp") \/ Opened(c, "file")
  \/ pc[c] = "written" /\ tmp = grant[c]
Survives == Usable(file) \/ \E c \in Caller : Carries(c)

Kept == Numbered /\ Unspent /\ Attended /\ Survives

LEMMA KeptInit == Init => Kept
BY Values DEF Init, Kept, Numbered, Unspent, Attended, Survives, Usable, First, Credential, Unwritten

LEMMA Numbers ==
  ASSUME Typed
  PROVE  /\ issued \in Nat
         /\ \A x \in Credential : x.refresh \in Nat
         /\ \A c \in Caller : pc[c] = "posting" => base[c] \in Credential
         /\ \A c \in Caller : pc[c] \in Unwritten => grant[c] \in Credential
         /\ file \in Credential \/ file = Torn
         /\ tmp \in Credential \/ tmp \in {Torn, Absent}
BY AuthAssumption DEF Typed, TypeOK, Carrying, Credential, Refreshing, Unsaved, Unwritten

\* Nothing is granted or written, and callers do no more than begin.
LEMMA KeptQuiet ==
  ASSUME Typed, Kept, UNCHANGED <<live, issued, file, tmp, handle>>,
         \A d \in Caller : pc'[d] = "posting" =>
           (file # Torn /\ base'[d] = file) \/ (pc[d] = "posting" /\ base'[d] = base[d]),
         \A d \in Caller : /\ pc'[d] \in Unwritten <=> pc[d] \in Unwritten
                           /\ pc'[d] = "opened" <=> pc[d] = "opened"
                           /\ pc'[d] = "written" <=> pc[d] = "written"
                           /\ pc[d] \in Unsaved => grant'[d] = grant[d]
  PROVE  Kept'
<1>1. \A n : Unread(n) => Unread(n)'
  <2> SUFFICES ASSUME NEW n, Unread(n) PROVE Unread(n)'
    OBVIOUS
  <2>1. \A d \in Caller : pc'[d] = "posting" => base'[d].refresh # n
    BY Numbers DEF Unread
  <2>2. QED
    BY <2>1 DEF Unread
<1>2. Unwritten \subseteq Unsaved
  BY DEF Unwritten, Unsaved
<1>3. Numbered'
  BY <1>2, Numbers DEF Kept, Numbered
<1>4. Unspent'
  <2>1. \A c \in Caller : pc'[c] \in Unwritten => pc[c] \in Unwritten /\ grant'[c] = grant[c]
    BY <1>2
  <2>2. \A c \in Caller : pc'[c] \in Unwritten => Unread(grant[c].refresh)'
    BY <1>1, <2>1 DEF Kept, Unspent
  <2>3. tmp \in Credential => Unread(tmp.refresh)'
    BY <1>1 DEF Kept, Unspent
  <2>4. QED
    BY <2>1, <2>2, <2>3 DEF Kept, Unspent, Unread
<1>5. Attended'
  BY DEF Kept, Attended, Opened
<1>6. \A c \in Caller : Carries(c) => Carries(c)'
  BY DEF Carries, Opened, Unwritten, Unsaved
<1>7. Survives'
  BY <1>6 DEF Kept, Survives, Usable
<1>8. QED
  BY <1>3, <1>4, <1>5, <1>7 DEF Kept

LEMMA KeptLoads ==
  ASSUME Faults = {}, Typed, Kept, NEW c \in Caller, Loads(c)
  PROVE  Kept'
<1>1. UNCHANGED <<live, issued, file, handle, tmp, grant>> /\ ~Drop(c)
  BY DEF Loads, Ask, LoadHit, LoadStale, ForceShared, ForceStart, Finish, Reject, Drop,
         provider, disk, caller
<1>2. pc[c] \notin Refreshing
  BY <1>1 DEF Loads, Ask, LoadHit, LoadStale, ForceShared, ForceStart, Finish, Reject,
              Refreshing, Unsaved
<1>3. Alone(c) /\ Moves(c)
  BY LoadsMove
<1>4. (pc'[c] = "posting" /\ file # Torn /\ base'[c] = file) \/ pc'[c] \notin Refreshing
  BY <1>2, <1>3 DEF Moves
<1>5. QED
  BY <1>1, <1>2, <1>3, <1>4, KeptQuiet, Zenon DEF Alone, Refreshing, Unsaved, Unwritten

\* The grant is a new token: nobody else has it.
LEMMA KeptGrant ==
  ASSUME Typed, Kept, NEW c \in Caller, Grant(c)
  PROVE  Kept'
<1>1. /\ issued' = issued + 1 /\ live' = (live \ {base[c].refresh}) \cup {issued'}
      /\ pc[c] = "posting" /\ UNCHANGED <<file, tmp, handle, base>> /\ issued \in Nat
  BY Numbers DEF Grant, disk
<1>2. /\ pc'[c] = "replied" /\ grant'[c] = [access |-> issued', refresh |-> issued']
      /\ \A d \in Caller \ {c} : pc'[d] = pc[d] /\ grant'[d] = grant[d]
  BY DEF Grant, Goto, Typed, TypeOK
<1>3. \A n : Unread(n) => Unread(n)'
  BY <1>1, <1>2 DEF Unread
<1>4. \A d \in Caller : pc'[d] \in Unwritten => d = c \/ (pc[d] \in Unwritten /\ grant'[d] = grant[d])
  BY <1>2
<1>5. Numbered'
  BY <1>1, <1>2, <1>4, Numbers DEF Kept, Numbered
<1>6. Unspent'
  <2>1. \A n : n = issued' => Unread(n)'
    BY <1>1, <1>2, Numbers DEF Unread, Kept, Numbered
  <2>2. ASSUME NEW d \in Caller, pc'[d] \in Unwritten PROVE Unread(grant[d].refresh)'
    <3>1. PICK n : n = grant'[d].refresh
      OBVIOUS
    <3>2. CASE d = c
      BY <1>2, <2>1, <3>1, <3>2 DEF Unread
    <3>3. CASE d # c
      <4>1. n = grant[d].refresh /\ Unread(n)
        BY <1>4, <2>2, <3>1, <3>3 DEF Kept, Unspent
      <4>2. QED
        BY <1>3, <3>1, <4>1 DEF Unread
    <3>4. QED
      BY <3>2, <3>3
  <2>3. \A d \in Caller \ {c} : pc[d] \in Unwritten => grant[d].refresh # issued'
    BY <1>1, Numbers DEF Kept, Numbered
  <2>4. tmp \in Credential => tmp.refresh # issued'
    BY <1>1, Numbers DEF Kept, Numbered
  <2>5. tmp' \in Credential => Unread(tmp.refresh)'
    BY <1>1, <1>2 DEF Kept, Unspent, Unread
  <2>6. QED
    BY <1>1, <1>2, <1>4, <2>2, <2>3, <2>4, <2>5 DEF Kept, Unspent
<1>7. Attended'
  BY <1>1, <1>2 DEF Kept, Attended, Opened
<1>8. Survives'
  BY <1>2 DEF Survives, Carries
<1>9. QED
  BY <1>5, <1>6, <1>7, <1>8 DEF Kept

\* A caller that stops and closes its handle takes nothing along that could
\* still have reached the file, or somebody else is about to write it.
LEMMA KeptStops ==
  ASSUME Typed, Locked, Kept, NEW c \in Caller, pc[c] \in Refreshing,
         UNCHANGED <<live, issued, file, tmp, base, grant>>,
         Alone(c), pc'[c] \in {"using", "done"},
         handle' = [handle EXCEPT ![Home[c]] = "closed"],
         \/ pc[c] = "posting"
         \/ pc[c] = "granted" /\ file = Torn
         \/ pc[c] = "written" /\ tmp = Absent
  PROVE  Kept'
<1>1. Home[c] \in Process /\ pc'[c] \notin Unwritten /\ pc'[c] # "posting"
  BY Values DEF Unwritten
<1>2. \A d \in Caller \ {c} : pc'[d] = pc[d]
  BY DEF Alone
<1>3. \A n : Unread(n) => Unread(n)'
  BY <1>1, <1>2 DEF Unread
<1>4. \A d \in Caller : pc'[d] \in Unwritten => d # c /\ pc[d] \in Unwritten
  BY <1>1, <1>2
<1>5. Numbered'
  BY <1>1, <1>2, <1>4 DEF Kept, Numbered
<1>6. Unspent'
  <2>1. \A d \in Caller : pc[d] \in Unwritten => Unread(grant[d].refresh)'
    BY <1>3 DEF Kept, Unspent
  <2>2. tmp \in Credential => Unread(tmp.refresh)'
    BY <1>3 DEF Kept, Unspent
  <2>3. QED
    BY <1>4, <2>1, <2>2 DEF Kept, Unspent, Unread
<1>7. \A d \in Caller, at \in {"tmp", "file"} : d # c /\ Opened(d, at) => Opened(d, at)'
  <2>1. \A d \in Caller : d # c /\ pc[d] = "opened" => Home[d] \in Process \ {Home[c]}
    BY Values DEF Locked, Refreshing, Unsaved
  <2>2. QED
    BY <1>2, <2>1 DEF Opened, Typed, TypeOK
<1>8. pc[c] # "opened"
  OBVIOUS
<1>9. Attended'
  <2>1. \A at \in {"tmp", "file"} : (\E d \in Caller : Opened(d, at)) => \E d \in Caller : Opened(d, at)'
    BY <1>7, <1>8 DEF Opened
  <2>2. QED
    BY <2>1 DEF Kept, Attended, Opened
<1>10. Survives'
  <2>1. CASE Usable(file)
    BY <2>1 DEF Usable, Survives
  <2>2. ASSUME NEW d \in Caller, Carries(d), d # c PROVE Survives'
    <3>1. Opened(d, "tmp") => Opened(d, "tmp")'
      BY <1>7, <2>2
    <3>2. Opened(d, "file") => Opened(d, "file")'
      BY <1>7, <2>2
    <3>3. Carries(d)'
      BY <1>2, <2>2, <3>1, <3>2 DEF Carries
    <3>4. QED
      BY <3>3 DEF Survives
  <2>3. CASE Carries(c)
    <3>1. pc[c] = "granted" /\ file = Torn
      <4>1. pc[c] = "written" => grant[c] \in Credential
        BY DEF Typed, Carrying, Unsaved
      <4>2. QED
        BY <2>3, <4>1, Values DEF Carries, Opened
    <3>2. PICK e \in Caller : Opened(e, "file")
      BY <3>1 DEF Kept, Attended
    <3>3. e # c /\ Carries(e)
      BY <1>8, <3>2 DEF Opened, Carries
    <3>4. QED
      BY <2>2, <3>3
  <2>4. QED
    BY <2>1, <2>2, <2>3 DEF Kept, Survives
<1>11. QED
  BY <1>5, <1>6, <1>9, <1>10 DEF Kept

LEMMA KeptOpen ==
  ASSUME Typed, Locked, Kept, NEW c \in Caller, OpenTmp(c)
  PROVE  Kept'
<1>1. /\ UNCHANGED <<live, issued, file, base, grant>> /\ tmp' = Torn /\ Torn \notin Credential
      /\ pc[c] = "granted" /\ file # Torn /\ Home[c] \in Process
  BY Values DEF OpenTmp, provider, caller
<1>2. /\ pc'[c] = "opened" /\ handle'[Home[c]] = "tmp"
      /\ \A d \in Caller \ {c} : pc'[d] = pc[d]
  BY <1>1 DEF OpenTmp, Goto, Typed, TypeOK
<1>3. \A n : Unread(n) => Unread(n)'
  BY <1>1, <1>2 DEF Unread
<1>4. \A d \in Caller : pc'[d] \in Unwritten => pc[d] \in Unwritten
  BY <1>1, <1>2 DEF Unwritten
<1>5. Numbered'
  BY <1>1, <1>2, <1>4 DEF Kept, Numbered
<1>6. Unspent'
  <2>1. \A d \in Caller : pc[d] \in Unwritten => Unread(grant[d].refresh)'
    BY <1>1, <1>3 DEF Kept, Unspent, Unread
  <2>2. QED
    BY <1>1, <1>4, <2>1 DEF Kept, Unspent
<1>7. Opened(c, "tmp")'
  BY <1>2 DEF Opened
<1>8. Attended' /\ Survives'
  BY <1>1, <1>7 DEF Attended, Survives, Carries
<1>9. QED
  BY <1>5, <1>6, <1>8 DEF Kept

\* The grant goes to the copy, to the file that the copy has become, or to a
\* file that somebody has replaced since.
LEMMA KeptWrite ==
  ASSUME Typed, Locked, Kept, NEW c \in Caller, WriteTmp(c)
  PROVE  Kept'
<1>1. /\ UNCHANGED <<live, issued, base, grant>> /\ pc[c] = "opened" /\ Home[c] \in Process
      /\ grant[c] \in Credential /\ pc[c] \in Unwritten
  BY Values DEF WriteTmp, provider, caller, Typed, Carrying, Unsaved, Unwritten
<1>2. /\ pc'[c] = "written" /\ pc'[c] \notin Unwritten
      /\ \A d \in Caller \ {c} : pc'[d] = pc[d]
  BY DEF WriteTmp, Goto, Typed, TypeOK, Unwritten
<1>3. /\ tmp' = IF handle[Home[c]] = "tmp" THEN grant[c] ELSE tmp
      /\ file' = IF handle[Home[c]] = "file" THEN grant[c] ELSE file
  BY DEF WriteTmp, Patched
<1>4. \A n : Unread(n) /\ n # grant[c].refresh => Unread(n)'
  BY <1>1, <1>2, <1>3 DEF Unread
<1>5. handle[Home[c]] # "file" => \A n : Unread(n) => Unread(n)'
  BY <1>1, <1>2, <1>3 DEF Unread
<1>6. \A d \in Caller : pc'[d] \in Unwritten => d # c /\ pc[d] \in Unwritten
  BY <1>2
<1>7. Numbered'
  BY <1>1, <1>2, <1>3, <1>6, Numbers DEF Kept, Numbered
<1>8. Unspent'
  <2>1. \A d \in Caller \ {c} : pc[d] \in Unwritten =>
          Unread(grant[d].refresh)' /\ grant[d].refresh # grant[c].refresh
    BY <1>1, <1>4 DEF Kept, Unspent, Unread
  <2>2. tmp' \in Credential => Unread(tmp.refresh)'
    <3>1. CASE handle[Home[c]] = "tmp"
      BY <1>1, <1>3, <1>5, <3>1 DEF Kept, Unspent, Unread
    <3>2. CASE handle[Home[c]] # "tmp"
      BY <1>1, <1>3, <1>4, <3>2 DEF Kept, Unspent, Unread
    <3>3. QED
      BY <3>1, <3>2
  <2>3. \A d \in Caller \ {c} : tmp' \in Credential /\ pc[d] \in Unwritten =>
          tmp'.refresh # grant[d].refresh
    BY <1>3, <2>1 DEF Kept, Unspent
  <2>4. QED
    BY <1>1, <1>6, <2>1, <2>2, <2>3 DEF Kept, Unspent
<1>9. \A d \in Caller, at \in {"tmp", "file"} : d # c /\ Opened(d, at) => Opened(d, at)'
  <2>1. \A d \in Caller : d # c /\ pc[d] = "opened" => Home[d] \in Process \ {Home[c]}
    BY <1>1, Values DEF Locked, Refreshing, Unsaved
  <2>2. QED
    BY <1>2, <2>1 DEF WriteTmp, Opened, Typed, TypeOK
<1>10. Attended'
  <2>1. file' = Torn => \E d \in Caller : Opened(d, "file")'
    <3> SUFFICES ASSUME file' = Torn PROVE \E d \in Caller : Opened(d, "file")'
      OBVIOUS
    <3>1. file = Torn /\ handle[Home[c]] # "file"
      BY <1>1, <1>3, Values
    <3>2. PICK d \in Caller : Opened(d, "file")
      BY <3>1 DEF Kept, Attended
    <3>3. d # c
      BY <3>1, <3>2 DEF Opened
    <3>4. QED
      BY <1>9, <3>2, <3>3
  <2>2. tmp' = Torn => \E d \in Caller : Opened(d, "tmp")'
    <3> SUFFICES ASSUME tmp' = Torn PROVE \E d \in Caller : Opened(d, "tmp")'
      OBVIOUS
    <3>1. tmp = Torn /\ handle[Home[c]] # "tmp"
      BY <1>1, <1>3, Values
    <3>2. PICK d \in Caller : Opened(d, "tmp")
      BY <3>1 DEF Kept, Attended
    <3>3. d # c
      BY <3>1, <3>2 DEF Opened
    <3>4. QED
      BY <1>9, <3>2, <3>3
  <2>3. QED
    BY <2>1, <2>2 DEF Attended, Opened
<1>11. Survives'
  <2>1. CASE handle[Home[c]] = "tmp"
    BY <1>1, <1>2, <1>3, <2>1 DEF Survives, Carries
  <2>2. CASE handle[Home[c]] = "file"
    <3>1. grant[c].refresh \in live
      BY <1>1 DEF Kept, Unspent, Unread
    <3>2. QED
      BY <1>1, <1>3, <2>2, <3>1 DEF Survives, Usable
  <2>3. CASE handle[Home[c]] \notin {"tmp", "file"}
    <3>1. ASSUME NEW d \in Caller, Carries(d) PROVE Survives'
      <4>1. d # c
        BY <1>1, <2>3, <3>1 DEF Carries, Opened
      <4>2. Opened(d, "tmp") => Opened(d, "tmp")'
        BY <1>9, <4>1
      <4>3. Opened(d, "file") => Opened(d, "file")'
        BY <1>9, <4>1
      <4>4. Carries(d)'
        BY <1>1, <1>2, <1>3, <2>3, <3>1, <4>1, <4>2, <4>3 DEF Carries
      <4>5. QED
        BY <4>4 DEF Survives
    <3>2. Usable(file) => Usable(file)'
      BY <1>1, <1>3, <2>3 DEF Usable
    <3>3. QED
      BY <3>1, <3>2 DEF Kept, Survives
  <2>4. QED
    BY <2>1, <2>2, <2>3
<1>12. QED
  BY <1>7, <1>8, <1>10, <1>11 DEF Kept

\* What is renamed is a grant that nobody has read yet, or a truncated copy
\* that somebody is about to write, then in the file's place.
LEMMA KeptRename ==
  ASSUME Typed, Locked, Kept, NEW c \in Caller, Rename(c)
  PROVE  Kept'
<1>1. /\ UNCHANGED <<live, issued, base, grant, rejected, up, logins>> /\ pc[c] = "written"
      /\ file' = tmp /\ tmp' = Absent /\ Absent \notin Credential /\ tmp # Absent
      /\ Absent # Torn
  BY Values DEF Rename, provider
<1>2. Alone(c) /\ pc'[c] \in {"using", "done"}
  BY <1>1, ReturnAlone DEF Rename
<1>3. /\ pc'[c] \notin Unwritten /\ pc'[c] # "posting"
      /\ \A d \in Caller \ {c} : pc'[d] = pc[d]
  BY <1>2 DEF Alone, Unwritten
<1>4. \A d \in Caller : pc'[d] \in Unwritten => pc[d] \in Unwritten
  BY <1>3
<1>5. \A n : Unread(n) /\ (tmp \in Credential => tmp.refresh # n) => Unread(n)'
  BY <1>1, <1>3 DEF Unread
<1>6. Numbered'
  BY <1>1, <1>3, <1>4 DEF Kept, Numbered
<1>7. Unspent'
  <2>1. \A d \in Caller : pc[d] \in Unwritten => Unread(grant[d].refresh)'
    BY <1>1, <1>5 DEF Kept, Unspent, Unread
  <2>2. QED
    BY <1>1, <1>4, <2>1 DEF Kept, Unspent
<1>8. CASE tmp \in Credential
  <2>1. Usable(file)'
    BY <1>1, <1>8 DEF Usable, Kept, Unspent, Unread
  <2>2. Attended'
    BY <1>1, <1>8, Values DEF Attended
  <2>3. QED
    BY <1>6, <1>7, <2>1, <2>2 DEF Kept, Survives
<1>9. CASE tmp = Torn
  <2>1. PICK d \in Caller : Opened(d, "tmp")
    BY <1>9 DEF Kept, Attended
  <2>2. d # c /\ Home[d] \in Process
    BY <1>1, <2>1, Values DEF Opened
  <2>3. Moved("tmp") = "file"
    BY Zenon DEF Moved
  <2>4. Opened(d, "file")'
    BY <1>3, <2>1, <2>2, <2>3 DEF Rename, Opened
  <2>5. Attended' /\ Survives'
    BY <1>1, <2>4 DEF Attended, Survives, Carries
  <2>6. QED
    BY <1>6, <1>7, <2>5 DEF Kept
<1>10. QED
  BY <1>1, <1>8, <1>9 DEF Typed, TypeOK

LEMMA KeptLogin ==
  ASSUME Typed, Kept, Login
  PROVE  Kept'
<1>1. /\ issued \in Nat /\ issued' = issued + 1 /\ live' = live \cup {issued'}
      /\ UNCHANGED <<tmp, pc, base, grant>>
      /\ file' = [access |-> issued', refresh |-> issued']
  BY Numbers DEF Login, caller
<1>2. file' \in Credential /\ file'.refresh = issued' /\ file' # Torn
  BY <1>1, Values DEF Credential
<1>3. \A n : Unread(n) /\ n <= issued => Unread(n)'
  BY <1>1, <1>2 DEF Unread
<1>4. Numbered'
  BY <1>1, <1>2, Numbers DEF Kept, Numbered
<1>5. Unspent'
  <2>1. \A d \in Caller : pc[d] \in Unwritten => Unread(grant[d].refresh)'
    BY <1>1, <1>3 DEF Kept, Unspent, Unread, Numbered
  <2>2. tmp \in Credential => Unread(tmp.refresh)'
    BY <1>1, <1>3 DEF Kept, Unspent, Unread, Numbered
  <2>3. QED
    BY <1>1, <2>1, <2>2 DEF Kept, Unspent
<1>6. Attended'
  <2>1. ASSUME tmp = Torn PROVE \E d \in Caller : Opened(d, "tmp")'
    <3>1. PICK d \in Caller : Opened(d, "tmp")
      BY <2>1 DEF Kept, Attended
    <3>2. Opened(d, "tmp")'
      BY <1>1, <3>1, Values DEF Login, Opened
    <3>3. QED
      BY <3>2
  <2>2. QED
    BY <1>1, <1>2, <2>1 DEF Attended
<1>7. Survives'
  BY <1>1, <1>2 DEF Survives, Usable
<1>8. QED
  BY <1>4, <1>5, <1>6, <1>7 DEF Kept

LEMMA KeptKept ==
  ASSUME Faults = {}, Typed, Locked, Kept, [Next]_vars
  PROVE  Kept'
<1>1. ASSUME NEW c \in Caller, Refused(c) \/ SaveFails(c) PROVE Kept'
  <2>1. /\ pc[c] = "posting" \/ (pc[c] = "granted" /\ file = Torn) \/ (pc[c] = "written" /\ tmp = Absent)
        /\ UNCHANGED <<file, tmp>> /\ RefreshFails(c)
    BY <1>1 DEF Refused, SaveFails
  <2>2. /\ UNCHANGED <<live, issued, base, grant, rejected, up, logins>>
        /\ handle' = [handle EXCEPT ![Home[c]] = "closed"]
    BY <2>1 DEF RefreshFails, provider
  <2>3. Alone(c) /\ pc'[c] \in {"using", "done"}
    BY <2>1, <2>2, ReturnAlone DEF RefreshFails
  <2>4. pc[c] \in Refreshing
    BY <2>1 DEF Refreshing, Unsaved
  <2>5. QED
    BY <2>1, <2>2, <2>3, <2>4, KeptStops
<1>2. ASSUME NEW c \in Caller, Receive(c) PROVE Kept'
  <2>1. UNCHANGED <<live, issued, file, handle, tmp, base, grant>>
    BY <1>2 DEF Receive, provider, disk, caller
  <2>2. pc[c] = "replied" /\ pc'[c] = "granted" /\ \A d \in Caller \ {c} : pc'[d] = pc[d]
    BY <1>2 DEF Receive, Goto, Typed, TypeOK
  <2>3. QED
    BY <2>1, <2>2, KeptQuiet DEF Unwritten
<1>3. ASSUME NEW c \in Caller, Refresh(c) PROVE Kept'
  BY <1>1, <1>2, <1>3, KeptGrant, KeptOpen, KeptWrite, KeptRename DEF Refresh, ReplyLost
<1>4. ASSUME NEW c \in Caller, Loads(c) PROVE Kept'
  BY <1>4, KeptLoads
<1>5. CASE (\E p \in Process : Restart(p) \/ PassTtl(p)) \/ (\E n \in 0..issued : Expire(n))
           \/ UNCHANGED vars
  <2>1. UNCHANGED <<live, issued, file, handle, tmp, base, grant, pc>>
    BY <1>5 DEF Restart, PassTtl, Expire, vars, provider, disk, caller
  <2>2. QED
    BY <2>1, KeptQuiet
<1>6. QED
  BY <1>3, <1>4, <1>5, KeptLogin DEF Next, Loads, Crash

\* "A write-back path so the rotated refresh_token is never lost" (can_refresh):
\* if no step fails, however many processes rotate the tokens of one auth.json
\* without a lock and however often the user logs in, the file or a caller that
\* is about to write it holds a token which the provider accepts.
THEOREM TokensKept == Faults = {} => (Spec => []RefreshTokenKept)
<1> SUFFICES ASSUME Faults = {} PROVE Spec => []RefreshTokenKept
  OBVIOUS
<1>1. Typed /\ Kept => RefreshTokenKept
  <2> SUFFICES ASSUME Typed, Kept, ~Usable(file) PROVE RefreshTokenKept
    BY DEF RefreshTokenKept
  <2>1. PICK c \in Caller : Carries(c)
    BY DEF Kept, Survives
  <2>2. pc[c] \in Unsaved /\ grant[c] \in Credential
    BY <2>1 DEF Carries, Opened, Unsaved, Typed, Carrying
  <2>3. grant[c].refresh \in live
    BY <2>1, <2>2 DEF Carries, Opened, Kept, Unspent, Unread, Unwritten
  <2>4. QED
    BY <2>2, <2>3 DEF RefreshTokenKept, Usable
<1>2. Typed /\ Locked /\ Kept /\ [Next]_vars => Kept'
  BY KeptKept
<1>3. QED
  BY <1>1, <1>2, TypedInit, TypedKept, LockedInit, LockedKept, KeptInit, PTL DEF Spec

=============================================================================
