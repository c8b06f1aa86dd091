---------------------------- MODULE DaemonLifecycle ----------------------------
(***************************************************************************)
(* How rtinferd stays up and up to date on one machine: main.rs, serve     *)
(* (server.rs), self_update.rs, lock.rs, install.rs, endpoint_file.rs and  *)
(* the npm postinstall script.  Two processes may run the daemon: the job  *)
(* launchd keeps alive, on the port it was installed for, and a stray one  *)
(* started by hand on any port.  Both run what npm's global shim points to *)
(* and write the same endpoint file.  launchd, npm and its registry are    *)
(* external.                                                               *)
(*                                                                         *)
(* Releases are numbered as they are published; Rank is what is_newer      *)
(* compares, in which a prerelease equals the release it leads to.         *)
(***************************************************************************)
EXTENDS Naturals, FiniteSets

CONSTANTS
  LastRelease,  \* releases (bound)
  Rank,
  Prerelease,
  Port,         \* values of --port and RTINFER_PORT
  Installer,    \* processes that run `rtinferd install`, each once
  PortOf,       \* the port each installs the job for
  MaxBackoff,   \* MAX_BACKOFF_TICKS
  Strays,       \* daemons started by hand (bound)
  Uninstalls,   \* uninstalls (bound)
  Troubles      \* crashes, interrupts, failures of npm, launchd or files (bound)

Release == 1..LastRelease
Proc == {"job", "stray"}

\* What endpoint.json or its temporary copy can hold: a pid with the base_url
\* that it serves at, nothing, or the bytes of two writers.
Nobody == [pid |-> "none", at |-> "none"]  \* there is no such file
Empty == [pid |-> "none", at |-> "empty"]
Torn == [pid |-> "none", at |-> "torn"]

ASSUME LifecycleAssumption ==
  /\ LastRelease \in Nat \ {0} /\ Rank \in [Release -> Nat]
  /\ Prerelease \subseteq Release \ {1} /\ MaxBackoff \in Nat \ {0}
  /\ IsFiniteSet(Installer) /\ Installer \cap Proc = {}
  /\ Port \cap {Nobody.at, Empty.at, Torn.at} = {}
  /\ Port # {} /\ PortOf \in [Installer -> Port]
  /\ {Strays, Uninstalls, Troubles} \subseteq Nat

VARIABLES
  latest,     \* what the registry calls latest
  shim,       \* the release installed
  marker,     \* last_attempted in self-update.json; 0 is none
  attempts,   \* how often each release was tried
  loaded,     \* whether launchd has the job
  plist,      \* the port it was installed for
  at,         \* where a process is: down or in one of the states of serve
  port,       \* the port it binds
  version,    \* the release it runs; 0 if it is down
  poll,       \* the self-update task: wait, mark, npm, or ended
  seen,       \* the release that it is about to try
  failures, skip_ticks,
  alone,      \* whether no two self-update tasks have run at once
  endpoint,   \* endpoint.json
  draft,      \* endpoint.json.tmp
  fd,         \* what a process that writes it has open: tmp, file, gone or none
  lock,       \* holders of install.lock
  ipc,        \* the step an installer has reached
  orphan,     \* whether an `npm install` has survived the daemon that ran it
  strays, uninstalls, troubles

updates == <<latest, marker, attempts, failures, skip_ticks, seen, alone>>
budgets == <<strays, uninstalls, troubles>>
procVars == <<at, port, version, poll>>
fileVars == <<endpoint, draft, fd>>
lifeVars == <<updates, budgets, procVars, fileVars, shim, loaded, plist, lock, ipc, orphan>>

LifecycleInit ==
  /\ latest = 1 /\ shim = 1 /\ marker = 0 /\ attempts = [v \in Release |-> 0]
  /\ loaded = FALSE /\ plist \in Port
  /\ at = [p \in Proc |-> "down"] /\ version = [p \in Proc |-> 0]
  /\ port = [p \in Proc |-> Nobody.at]
  /\ poll = [p \in Proc |-> "wait"] /\ seen = [p \in Proc |-> 0] /\ alone = TRUE
  /\ failures = [p \in Proc |-> 0] /\ skip_ticks = [p \in Proc |-> 0]
  /\ endpoint = Nobody /\ draft = Nobody /\ fd = [p \in Proc |-> "none"]
  /\ lock = {} /\ ipc = [i \in Installer |-> "idle"] /\ orphan = FALSE
  /\ strays = 0 /\ uninstalls = 0 /\ troubles = 0

Writing == {"bound", "opened", "written"}
Up(p) == at[p] \in Writing \cup {"serving"}
PortFree(n) == \A p \in Proc : Up(p) => port[p] # n
Trouble == troubles < Troubles /\ troubles' = troubles + 1

Buried(c, D) == IF c.pid \in D THEN [c EXCEPT !.pid = "dead"] ELSE c

Lost(D, f, none) == [p \in Proc |-> IF p \in D THEN none ELSE f[p]]

End(D) ==
  /\ at' = Lost(D, at, "down") /\ port' = Lost(D, port, Nobody.at)
  /\ version' = Lost(D, version, 0)
  /\ poll' = Lost(D, poll, "wait") /\ seen' = Lost(D, seen, 0)
  /\ failures' = Lost(D, failures, 0) /\ skip_ticks' = Lost(D, skip_ticks, 0)
  /\ orphan' = (orphan \/ \E p \in D : poll[p] = "npm")
  /\ UNCHANGED <<latest, marker, attempts, alone>>

\* Mutant: a process that ends removes the endpoint file, whoever it names.
DieUnadvertised(D) ==
  End(D) /\ fd' = Lost(D, fd, "none") /\ endpoint' = Nobody /\ UNCHANGED draft

\* The processes of set D end, in whatever they are doing.  A child npm goes
\* on; locks and the port are released by the kernel, the files stay.
Die(D) ==
  /\ End(D) /\ endpoint' = Buried(endpoint, D) /\ draft' = Buried(draft, D)
  /\ fd' = Lost(D, fd, "none")

-----------------------------------------------------------------------------
(* serve *)

Launch(p, n) ==
  /\ at[p] = "down"
  /\ at' = [at EXCEPT ![p] = "starting"] /\ port' = [port EXCEPT ![p] = n]
  /\ version' = [version EXCEPT ![p] = shim]
  /\ UNCHANGED <<updates, uninstalls, troubles, poll, fileVars, shim, loaded, plist, lock, ipc,
                 orphan>>

\* Mutant: the endpoint file keeps a daemon from starting, like a pid file.
KeepAliveUnlessAdvertised ==
  loaded /\ endpoint = Nobody /\ Launch("job", plist) /\ UNCHANGED strays

KeepAlive == loaded /\ Launch("job", plist) /\ UNCHANGED strays

StartStray ==
  /\ strays < Strays /\ strays' = strays + 1 /\ \E n \in Port : Launch("stray", n)

At(p, to) == at' = [at EXCEPT ![p] = to] /\ UNCHANGED <<port, version, poll>>

Bind(p) ==
  /\ at[p] = "starting" /\ PortFree(port[p]) /\ At(p, "bound")
  /\ UNCHANGED <<updates, budgets, fileVars, shim, loaded, plist, lock, ipc, orphan>>

BindFails(p) ==
  /\ at[p] = "starting" /\ ~PortFree(port[p]) /\ Die({p})
  /\ UNCHANGED <<budgets, shim, loaded, plist, lock, ipc>>

\* endpoint_file::write: the copy is created or truncated, written and renamed.
\* Daemons on two ports use one name for it.
OpenDraft(p) ==
  /\ at[p] = "bound" /\ At(p, "opened") /\ draft' = Empty
  /\ fd' = [fd EXCEPT ![p] = "tmp"]
  /\ UNCHANGED <<updates, budgets, endpoint, shim, loaded, plist, lock, ipc, orphan>>

Name(p) == [pid |-> p, at |-> port[p]]
Overwritten(c, p) == IF c = Empty THEN {Name(p)} ELSE {Name(p), Torn}

WriteDraft(p) ==
  /\ at[p] = "opened" /\ At(p, "written")
  /\ \/ fd[p] = "tmp" /\ draft' \in Overwritten(draft, p) /\ UNCHANGED endpoint
     \/ fd[p] = "file" /\ endpoint' \in Overwritten(endpoint, p) /\ UNCHANGED draft
     \/ fd[p] = "gone" /\ UNCHANGED <<endpoint, draft>>
  /\ fd' = [fd EXCEPT ![p] = "none"]
  /\ UNCHANGED <<updates, budgets, shim, loaded, plist, lock, ipc, orphan>>

Moved == [tmp |-> "file", file |-> "gone", gone |-> "gone", none |-> "none"]
Polls(p) == at[p] \in {"serving", "draining"} /\ poll[p] # "ended"

\* From here on requests are served and the self-update task runs.
Advertise(p) ==
  /\ at[p] = "written" /\ draft # Nobody
  /\ At(p, "serving") /\ endpoint' = draft /\ draft' = Nobody
  /\ fd' = [q \in Proc |-> Moved[fd[q]]]
  /\ alone' = (alone /\ \A q \in Proc : ~Polls(q))
  /\ UNCHANGED <<latest, marker, attempts, failures, skip_ticks, seen, budgets, shim,
                 loaded, plist, lock, ipc, orphan>>

\* Another daemon has renamed the copy: serve ends with the error.
AdvertiseFails(p) ==
  /\ at[p] = "written" /\ draft = Nobody /\ Die({p})
  /\ UNCHANGED <<budgets, shim, loaded, plist, lock, ipc>>

\* Ctrl-C: the listener is closed, requests in progress end; meanwhile the
\* self-update task goes on.  Any other signal ends the process.
Interrupt(p) ==
  /\ Trouble /\ at[p] = "serving" /\ At(p, "draining")
  /\ UNCHANGED <<updates, strays, uninstalls, fileVars, shim, loaded, plist, lock, ipc, orphan>>

Drained(p) ==
  /\ at[p] = "draining" /\ Die({p}) /\ lock' = lock \ {p}
  /\ UNCHANGED <<budgets, shim, loaded, plist, ipc>>

Crash(p) ==
  /\ Trouble /\ at[p] # "down" /\ Die({p}) /\ lock' = lock \ {p}
  /\ UNCHANGED <<strays, uninstalls, shim, loaded, plist, ipc>>

-----------------------------------------------------------------------------
(* self_update *)

is_newer(v, w) == Rank[v] > Rank[w]
Ticks(p) == Polls(p) /\ poll[p] = "wait"

\* Mutant: the ticks to skip are never used up.
SkipTickForever(p) ==
  /\ Ticks(p) /\ skip_ticks[p] > 0 /\ UNCHANGED lifeVars

SkipTick(p) ==
  /\ Ticks(p) /\ skip_ticks[p] > 0 /\ skip_ticks' = [skip_ticks EXCEPT ![p] = @ - 1]
  /\ UNCHANGED <<latest, marker, attempts, failures, seen, alone, budgets, procVars, fileVars,
                 shim, loaded, plist, lock, ipc, orphan>>

ShouldTry(p) ==
  latest \notin Prerelease /\ is_newer(latest, version[p]) /\ marker # latest

PollIs(p, now) == poll' = [poll EXCEPT ![p] = now] /\ UNCHANGED <<at, port, version>>

\* The registry's answer and the marker are read; both may be old when they
\* are used.
CheckAndUpdate(p) ==
  /\ Ticks(p) /\ skip_ticks[p] = 0
  /\ IF ShouldTry(p)
     THEN PollIs(p, "mark") /\ seen' = [seen EXCEPT ![p] = latest] /\ UNCHANGED failures
     ELSE failures' = [failures EXCEPT ![p] = 0] /\ UNCHANGED <<procVars, seen>>
  /\ UNCHANGED <<latest, marker, attempts, skip_ticks, alone, budgets, fileVars, shim, loaded,
                 plist, lock, ipc, orphan>>

Tried(p) == attempts' = [attempts EXCEPT ![seen[p]] = @ + 1]

\* Mutant: the attempt is not recorded.
AttemptUnmarked(p) == Tried(p) /\ UNCHANGED marker

\* The marker is on disk before npm is started.
write_last_attempt(p) == Tried(p) /\ marker' = seen[p]

\* The result of try_acquire is kept, but not looked at; the file may fail to
\* open.
StartNpm(p) ==
  /\ poll[p] = "mark" /\ PollIs(p, "npm")
  /\ write_last_attempt(p) /\ seen' = [seen EXCEPT ![p] = 0]
  /\ lock' \in {lock, IF lock = {} THEN {p} ELSE lock}
  /\ UNCHANGED <<latest, failures, skip_ticks, alone, budgets, fileVars, shim, loaded, plist,
                 ipc, orphan>>

\* `npm install -g @latest` installs what is latest by then; the task tells
\* serve to drain, and ends.
UpdateInstalled(p) ==
  /\ poll[p] = "npm" /\ poll' = [poll EXCEPT ![p] = "ended"]
  /\ at' = [at EXCEPT ![p] = "draining"]
  /\ shim' = latest /\ lock' = lock \ {p}
  /\ UNCHANGED <<updates, budgets, port, version, fileVars, loaded, plist, ipc, orphan>>

BackOff(p) ==
  LET n == failures[p] + 1 IN
  /\ failures' = [failures EXCEPT ![p] = n]
  /\ skip_ticks' = [skip_ticks EXCEPT ![p] = IF n < MaxBackoff THEN n ELSE MaxBackoff]

\* npm view or npm install fails.
UpdateFails(p) ==
  /\ Trouble /\ BackOff(p)
  /\ \/ Ticks(p) /\ skip_ticks[p] = 0 /\ UNCHANGED <<procVars, lock>>
     \/ poll[p] = "npm" /\ PollIs(p, "wait") /\ lock' = lock \ {p}
  /\ UNCHANGED <<latest, marker, attempts, seen, alone, strays, uninstalls, fileVars, shim,
                 loaded, plist, ipc, orphan>>

-----------------------------------------------------------------------------
(* run_install, from the postinstall script or by hand; run_uninstall *)

Ipc(i, here, next) == ipc[i] = here /\ ipc' = [ipc EXCEPT ![i] = next]

\* try_acquire: Ok(None) ends the install, Err(()) lets it go on unlocked.
BeginInstall(i) ==
  /\ \/ lock = {} /\ Ipc(i, "idle", "bootout") /\ lock' = {i} /\ UNCHANGED troubles
     \/ lock # {} /\ Ipc(i, "idle", "skipped") /\ UNCHANGED <<lock, troubles>>
     \/ Trouble /\ Ipc(i, "idle", "bootout") /\ UNCHANGED lock
  /\ shim' \in {shim, latest}
  /\ UNCHANGED <<updates, strays, uninstalls, procVars, fileVars, loaded, plist, orphan>>

BootOut(i) ==
  /\ Ipc(i, "bootout", "drain") /\ loaded' = FALSE /\ Die({"job"}) /\ lock' = lock \ {"job"}
  /\ UNCHANGED <<budgets, shim, plist>>

\* The process the endpoint file names, on whatever port, and those that
\* listen on the port of the install.
Holders(i) == {p \in Proc : endpoint.pid = p \/ (Up(p) /\ port[p] = PortOf[i])}

\* SIGTERM, five seconds, SIGKILL.
DrainPids(i) ==
  /\ Ipc(i, "drain", "wait_port") /\ Die(Holders(i)) /\ lock' = lock \ Holders(i)
  /\ UNCHANGED <<budgets, shim, loaded, plist>>

Finish(i, here, how) == Ipc(i, here, how) /\ lock' = lock \ {i}

WaitPortFree(i) ==
  /\ \/ PortFree(PortOf[i]) /\ Ipc(i, "wait_port", "bootstrap") /\ UNCHANGED lock
     \/ ~PortFree(PortOf[i]) /\ Finish(i, "wait_port", "failed")
  /\ UNCHANGED <<updates, budgets, procVars, fileVars, shim, loaded, plist, orphan>>

Replaced == IF loaded THEN Die({"job"}) ELSE UNCHANGED <<updates, procVars, fileVars, orphan>>

\* Mutant: it is booted out and not repeated.
BootstrapOnce(i) ==
  /\ Ipc(i, "bootstrap", "ok") /\ lock' = lock \ {i, "job"}
  /\ loaded' = ~loaded /\ plist' = PortOf[i] /\ Replaced
  /\ UNCHANGED <<budgets, shim>>

\* The plist is written.  A bootstrap that finds the job loaded boots it out
\* and is repeated.
Bootstrap(i) ==
  /\ Ipc(i, "bootstrap", "ok") /\ lock' = lock \ {i, "job"}
  /\ loaded' = TRUE /\ plist' = PortOf[i] /\ Replaced
  /\ UNCHANGED <<budgets, shim>>

\* The program, node or a directory is not found, the plist cannot be written,
\* or the installer is killed.
InstallFails(i) ==
  /\ Trouble
  /\ \E here \in {"bootout", "drain", "wait_port", "bootstrap"} : Finish(i, here, "failed")
  /\ UNCHANGED <<updates, strays, uninstalls, procVars, fileVars, shim, loaded, plist, orphan>>

\* The second bootstrap fails as well, after what was loaded was booted out.
BootstrapFails(i) ==
  /\ Trouble /\ Ipc(i, "bootstrap", "failed") /\ lock' = lock \ {i, "job"}
  /\ loaded' = FALSE /\ Replaced
  /\ UNCHANGED <<strays, uninstalls, shim, plist>>

Unlinked == [tmp |-> "tmp", file |-> "gone", gone |-> "gone", none |-> "none"]

Uninstall ==
  /\ uninstalls < Uninstalls /\ uninstalls' = uninstalls + 1
  /\ loaded' = FALSE /\ End({"job"}) /\ lock' = lock \ {"job"}
  /\ endpoint' = Nobody /\ draft' = Buried(draft, {"job"})
  /\ fd' = Lost({"job"}, [p \in Proc |-> Unlinked[fd[p]]], "none")
  /\ UNCHANGED <<strays, troubles, shim, plist, ipc>>

-----------------------------------------------------------------------------
(* npm *)

Publish ==
  /\ latest < LastRelease /\ latest' = latest + 1
  /\ UNCHANGED <<marker, attempts, failures, skip_ticks, seen, alone, budgets, procVars, fileVars,
                 shim, loaded, plist, lock, ipc, orphan>>

OrphanEnds ==
  /\ orphan /\ orphan' = FALSE /\ shim' \in {shim, latest}
  /\ UNCHANGED <<updates, budgets, procVars, fileVars, loaded, plist, lock, ipc>>

Install(i) ==
  BootOut(i) \/ DrainPids(i) \/ WaitPortFree(i) \/ Bootstrap(i)
Serve(p) ==
  \/ Bind(p) \/ BindFails(p) \/ OpenDraft(p) \/ WriteDraft(p)
  \/ Advertise(p) \/ AdvertiseFails(p) \/ Drained(p)
Update(p) == SkipTick(p) \/ CheckAndUpdate(p) \/ StartNpm(p) \/ UpdateInstalled(p)

LifecycleNext ==
  \/ KeepAlive \/ StartStray \/ Uninstall \/ Publish \/ OrphanEnds
  \/ \E p \in Proc : Serve(p) \/ Update(p) \/ Interrupt(p) \/ Crash(p) \/ UpdateFails(p)
  \/ \E i \in Installer : BeginInstall(i) \/ Install(i) \/ InstallFails(i) \/ BootstrapFails(i)

LifecycleSpec == LifecycleInit /\ [][LifecycleNext]_lifeVars

\* launchd keeps the job alive, processes run, npm ends, an install that was
\* begun goes on.  Nothing makes anybody publish, install or uninstall.
LifecycleFairness ==
  /\ WF_lifeVars(KeepAlive)
  /\ \A p \in Proc : WF_lifeVars(Serve(p)) /\ WF_lifeVars(Update(p))
  /\ \A i \in Installer : WF_lifeVars(Install(i))

-----------------------------------------------------------------------------
\* Whoever serves is the process the endpoint file names, through crashes,
\* respawns, self-updates and installs.  Only a daemon on another port hides it,
\* by writing the file of both in whole or in part, and an uninstall, which
\* removes it; a daemon on the same port, running or dead, never does.
ServingIsAdvertised ==
  uninstalls = 0 =>
    \A p \in Proc : at[p] = "serving" =>
      endpoint = Name(p) \/ endpoint.at \notin {port[p], Nobody.at}

\* "This file is the authoritative advertisement" while anybody serves.
SomeServiceIsAdvertised ==
  uninstalls = 0 /\ (\E p \in Proc : at[p] = "serving") =>
    \E p \in Proc : at[p] = "serving" /\ endpoint = Name(p)

\* A release that crashes the daemon or fails to install is tried once: the
\* marker outlives every respawn, so no loop of `npm i -g` can arise.  That
\* two daemons never check at once is needed, since the marker is read and
\* written without a lock.
TriedOnce == alone => \A v \in Release : attempts[v] <= 1

\* An install that succeeded leaves the job loaded, however installs, updates
\* and crashes are interleaved, until the user uninstalls or another install
\* is cut short.
InstallsLeaveJob ==
  /\ uninstalls = 0
  /\ \E i \in Installer : ipc[i] = "ok"
  /\ \A i \in Installer : ipc[i] \in {"idle", "ok", "skipped"}
  => loaded

\* While launchd has the job some daemon serves again on its port after every
\* drain, crash and install.
InService(p) == at[p] = "serving" /\ port[p] = plist
ServiceReturns == loaded ~> (\E p \in Proc : InService(p)) \/ ~loaded

\* A stable release is tried by the daemon that serves, unless a later one or
\* an install overtakes it: backing off after failures only delays it.
ReleasesTried ==
  \A v \in Release \ Prerelease :
    latest = v ~> \/ latest # v \/ marker = v \/ ~loaded
                  \/ \E p \in Proc : InService(p) /\ ~is_newer(v, version[p])

\* "Never auto-adopt a prerelease": the daemon does not replace itself by one.
NoPrereleaseAdopted ==
  [][\A p \in Proc : poll'[p] = "ended" /\ poll[p] # "ended" => shim' \notin Prerelease]_lifeVars
=============================================================================
