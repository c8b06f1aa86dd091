------------------------------ MODULE Daemon_proofs ------------------------------
(***************************************************************************)
(* Proofs about the daemon: its life, for any number of releases,          *)
(* installers, crashes and failures; its credential-process mode, for any  *)
(* number of asks, health checks, loaders and leases; and what its OpenAI  *)
(* endpoints make of conversations of any length.                          *)
(***************************************************************************)
EXTENDS DaemonLifecycle, CredentialLease, Gateway, SequenceLemmas

-----------------------------------------------------------------------------
(* DaemonLifecycle *)

\* A step that ends the processes of D, in its bearing on what a process is and
\* on the files.
Ends(D) == D \in SUBSET Proc /\ End(D)
EndsFiled(D) ==
  Ends(D) /\ endpoint' = Buried(endpoint, D) /\ draft' = Buried(draft, D)

\* The steps that end processes.
Endings ==
  \/ \E p \in Proc : BindFails(p) \/ AdvertiseFails(p) \/ Drained(p) \/ Crash(p)
  \/ \E i \in Installer : \/ BootOut(i) \/ DrainPids(i)
                          \/ loaded /\ (Bootstrap(i) \/ BootstrapFails(i))

LEMMA EndingsEnd ==
  ASSUME Endings PROVE UNCHANGED uninstalls /\ \E D : EndsFiled(D)
<1>1. ASSUME NEW p \in Proc, BindFails(p) \/ AdvertiseFails(p) \/ Drained(p) \/ Crash(p)
      PROVE  UNCHANGED uninstalls /\ EndsFiled({p})
  BY <1>1 DEF BindFails, AdvertiseFails, Drained, Crash, Die, EndsFiled, Ends, budgets
<1>2. ASSUME NEW i \in Installer, BootOut(i) PROVE UNCHANGED uninstalls /\ EndsFiled({"job"})
  BY <1>2 DEF BootOut, Die, EndsFiled, Ends, budgets, Proc
<1>3. ASSUME NEW i \in Installer, DrainPids(i) PROVE UNCHANGED uninstalls /\ EndsFiled(Holders(i))
  <2>1. Holders(i) \in SUBSET Proc
    BY DEF Holders
  <2>2. QED
    BY <1>3, <2>1 DEF DrainPids, Die, EndsFiled, Ends, budgets
<1>4. ASSUME NEW i \in Installer, loaded /\ (Bootstrap(i) \/ BootstrapFails(i))
      PROVE  UNCHANGED uninstalls /\ EndsFiled({"job"})
  BY <1>4 DEF Bootstrap, BootstrapFails, Replaced, Die, EndsFiled, Ends, budgets, Proc
<1>5. QED
  BY <1>1, <1>2, <1>3, <1>4, Zenon DEF Endings

\* The other steps of installs and of npm touch no process and no file.
Aside ==
  \/ Publish \/ OrphanEnds
  \/ \E i \in Installer :
       \/ BeginInstall(i) \/ WaitPortFree(i) \/ InstallFails(i)
       \/ ~loaded /\ (Bootstrap(i) \/ BootstrapFails(i))

LEMMA AsideAside ==
  ASSUME Aside
  PROVE  /\ UNCHANGED <<marker, attempts, alone, seen, at, port, poll, endpoint, draft, uninstalls>>
         /\ Publish \/ latest' = latest
         /\ plist' = plist \/ \E i \in Installer : plist' = PortOf[i]
<1>1. CASE Publish \/ OrphanEnds
  BY <1>1 DEF Publish, OrphanEnds, updates, procVars, fileVars, budgets
<1>2. ASSUME NEW i \in Installer, BeginInstall(i) \/ WaitPortFree(i) \/ InstallFails(i)
      PROVE  UNCHANGED <<updates, procVars, fileVars, uninstalls, plist>>
  BY <1>2 DEF BeginInstall, WaitPortFree, InstallFails, budgets
<1>3. ASSUME NEW i \in Installer, ~loaded /\ (Bootstrap(i) \/ BootstrapFails(i))
      PROVE  /\ UNCHANGED <<updates, procVars, fileVars, uninstalls>>
             /\ plist' = plist \/ plist' = PortOf[i]
  BY <1>3 DEF Bootstrap, BootstrapFails, Replaced, budgets
<1>4. QED
  BY <1>1, <1>2, <1>3 DEF Aside, updates, procVars, fileVars

\* The steps of a process by itself.
Launches == \E p \in Proc, n \in Port \cup {plist} : Launch(p, n)
Serves(p) == Bind(p) \/ OpenDraft(p) \/ WriteDraft(p) \/ Interrupt(p)
Polling(p) == SkipTick(p) \/ CheckAndUpdate(p) \/ StartNpm(p) \/ UpdateInstalled(p) \/ UpdateFails(p)

LEMMA Steps ==
  ASSUME LifecycleNext
  PROVE  \/ Endings \/ Aside \/ Launches \/ Uninstall
         \/ \E p \in Proc : Serves(p) \/ Advertise(p) \/ Polling(p)
<1>1. CASE KeepAlive \/ StartStray
  BY <1>1 DEF KeepAlive, StartStray, Launches, Proc
<1>2. CASE Uninstall \/ Publish \/ OrphanEnds
  BY <1>2 DEF Aside
<1>3. CASE \E p \in Proc : Serve(p) \/ Update(p) \/ Interrupt(p) \/ Crash(p) \/ UpdateFails(p)
  BY <1>3, Zenon DEF Serve, Update, Serves, Polling, Endings
<1>4. CASE \E i \in Installer : BeginInstall(i) \/ Install(i) \/ InstallFails(i) \/ BootstrapFails(i)
  BY <1>4, Zenon DEF Install, Aside, Endings
<1>5. QED
  BY <1>1, <1>2, <1>3, <1>4, Zenon DEF LifecycleNext

Stage == {"down", "starting", "serving", "draining"} \cup Writing

-----------------------------------------------------------------------------
(* How often a release is tried *)

\* While no two self-update tasks have run at once the marker names the latest
\* release that was tried, and whoever is about to try one is past it.
Progress ==
  /\ latest \in Release /\ marker \in 0..latest /\ attempts \in [Release -> Nat]
  /\ alone \in BOOLEAN /\ at \in [Proc -> Stage]
  /\ poll \in [Proc -> {"wait", "mark", "npm", "ended"}] /\ seen \in [Proc -> Nat]
  /\ \A p \in Proc : poll[p] # "wait" => at[p] \in {"serving", "draining"}
  /\ \A p \in Proc : poll[p] = "mark" => seen[p] \in 1..latest

Solo ==
  alone =>
    /\ \A p, q \in Proc : Polls(p) /\ Polls(q) => p = q
    /\ \A p \in Proc : poll[p] = "mark" => marker < seen[p]
    /\ \A v \in Release : attempts[v] <= 1 /\ (marker < v => attempts[v] = 0)

LEMMA ProgressInit == LifecycleInit => Progress /\ Solo
BY LifecycleAssumption DEF LifecycleInit, Progress, Solo, Release, Stage, Polls

LEMMA ProgressEnds ==
  ASSUME Progress, Solo, NEW D, Ends(D) PROVE Progress' /\ Solo'
<1>1. \A p \in Proc : /\ at'[p] = IF p \in D THEN "down" ELSE at[p]
                      /\ poll'[p] = IF p \in D THEN "wait" ELSE poll[p]
                      /\ seen'[p] = IF p \in D THEN 0 ELSE seen[p]
  BY DEF Ends, End, Lost
<1>2. /\ at' \in [Proc -> Stage] /\ poll' \in [Proc -> {"wait", "mark", "npm", "ended"}]
      /\ seen' \in [Proc -> Nat]
  BY DEF Ends, End, Lost, Progress, Stage
<1>3. UNCHANGED <<latest, marker, attempts, alone>>
  BY DEF Ends, End
<1>4. \A p \in Proc : Polls(p)' => Polls(p)
  BY <1>1 DEF Polls
<1>5. Progress'
  BY <1>1, <1>2, <1>3 DEF Progress
<1>6. Solo'
  BY <1>1, <1>3, <1>4 DEF Solo
<1>7. QED
  BY <1>5, <1>6

\* Only a publication moves latest, and forward.
LEMMA ProgressAside ==
  ASSUME Progress, Solo, Aside PROVE Progress' /\ Solo'
<1>1. UNCHANGED <<marker, attempts, alone, seen, at, poll>> /\ (Publish \/ latest' = latest)
  BY AsideAside
<1>2. latest' \in Release /\ latest <= latest'
  BY <1>1, LifecycleAssumption DEF Progress, Publish, Release
<1>3. Progress'
  BY <1>1, <1>2 DEF Progress, Release
<1>4. Solo'
  BY <1>1 DEF Solo, Polls
<1>5. QED
  BY <1>3, <1>4

\* A process goes on within serve.
LEMMA ProgressMoves ==
  ASSUME Progress, Solo, NEW p \in Proc, NEW to \in Stage, at' = [at EXCEPT ![p] = to],
         at[p] \in {"serving", "draining"} <=> to \in {"serving", "draining"},
         UNCHANGED <<latest, marker, attempts, alone, poll, seen>>
  PROVE  Progress' /\ Solo'
<1>1. at' \in [Proc -> Stage] /\ \A q \in Proc : at'[q] = IF q = p THEN to ELSE at[q]
  BY DEF Progress
<1>2. \A q \in Proc : Polls(q)' <=> Polls(q)
  BY <1>1 DEF Polls
<1>3. QED
  BY <1>1, <1>2 DEF Progress, Solo

LEMMA ProgressLaunches ==
  ASSUME Progress, Solo, Launches PROVE Progress' /\ Solo'
<1>1. PICK p \in Proc : at[p] = "down" /\ at' = [at EXCEPT ![p] = "starting"]
                        /\ UNCHANGED <<latest, marker, attempts, alone, poll, seen>>
  BY DEF Launches, Launch, updates
<1>2. "starting" \in Stage
  BY DEF Stage
<1>3. QED
  BY <1>1, <1>2, ProgressMoves

LEMMA ProgressServes ==
  ASSUME Progress, Solo, NEW p \in Proc, Serves(p) PROVE Progress' /\ Solo'
<1>1. UNCHANGED <<latest, marker, attempts, alone, poll, seen>>
  BY DEF Serves, Bind, OpenDraft, WriteDraft, Interrupt, At, updates
<1>2. PICK to \in {"bound", "opened", "written", "draining"} :
        /\ at' = [at EXCEPT ![p] = to]
        /\ at[p] \in {"serving", "draining"} <=> to \in {"serving", "draining"}
  BY DEF Serves, Bind, OpenDraft, WriteDraft, Interrupt, At
<1>3. to \in Stage
  BY DEF Stage, Writing
<1>4. QED
  BY <1>1, <1>2, <1>3, ProgressMoves

LEMMA ProgressAdvertise ==
  ASSUME Progress, Solo, NEW p \in Proc, Advertise(p) PROVE Progress' /\ Solo'
<1>1. /\ at[p] = "written" /\ at' = [at EXCEPT ![p] = "serving"]
      /\ alone' = (alone /\ \A q \in Proc : ~Polls(q))
      /\ UNCHANGED <<latest, marker, attempts, poll, seen>>
  BY DEF Advertise, At
<1>2. at' \in [Proc -> Stage] /\ \A q \in Proc : at'[q] = IF q = p THEN "serving" ELSE at[q]
  BY <1>1 DEF Progress, Stage
<1>3. Progress'
  BY <1>1, <1>2 DEF Progress
<1>4. ASSUME alone' PROVE alone /\ \A q, r \in Proc : Polls(q)' /\ Polls(r)' => q = r
  BY <1>1, <1>2, <1>4 DEF Polls
<1>5. Solo'
  BY <1>1, <1>4 DEF Solo
<1>6. QED
  BY <1>3, <1>5

\* The self-update task goes on without a word about releases.
LEMMA ProgressPolls ==
  ASSUME Progress, Solo, NEW p \in Proc, Polls(p), NEW now \in {"wait", "ended"},
         poll' = [poll EXCEPT ![p] = now],
         at' = at \/ at' = [at EXCEPT ![p] = "draining"],
         UNCHANGED <<latest, marker, attempts, alone, seen>>
  PROVE  Progress' /\ Solo'
<1>1. \A q \in Proc : poll'[q] = IF q = p THEN now ELSE poll[q]
  BY DEF Progress
<1>2. at' \in [Proc -> Stage] /\ at'[p] \in {"serving", "draining"}
      /\ \A q \in Proc \ {p} : at'[q] = at[q]
  BY DEF Progress, Polls, Stage
<1>3. \A q \in Proc : Polls(q)' => Polls(q)
  BY <1>1, <1>2 DEF Polls
<1>4. Progress'
  BY <1>1, <1>2 DEF Progress
<1>5. Solo'
  BY <1>1, <1>3 DEF Solo
<1>6. QED
  BY <1>4, <1>5

LEMMA ProgressCheck ==
  ASSUME Progress, Solo, NEW p \in Proc, CheckAndUpdate(p), ShouldTry(p)
  PROVE  Progress' /\ Solo'
<1>1. /\ Polls(p) /\ poll' = [poll EXCEPT ![p] = "mark"] /\ seen' = [seen EXCEPT ![p] = latest]
      /\ UNCHANGED <<latest, marker, attempts, alone, at>>
  BY DEF CheckAndUpdate, Ticks, PollIs
<1>2. \A q \in Proc : /\ poll'[q] = IF q = p THEN "mark" ELSE poll[q]
                      /\ seen'[q] = IF q = p THEN latest ELSE seen[q]
  BY <1>1 DEF Progress
<1>3. marker < latest /\ latest \in 1..latest /\ latest \in Nat
  BY LifecycleAssumption DEF Progress, ShouldTry, Release
<1>4. \A q \in Proc : Polls(q)' => Polls(q)
  BY <1>1, <1>2 DEF Polls
<1>5. Progress'
  BY <1>1, <1>2, <1>3 DEF Progress, Polls
<1>6. Solo'
  BY <1>1, <1>2, <1>3, <1>4 DEF Solo
<1>7. QED
  BY <1>5, <1>6

\* What is tried is past the marker, and so tried for the first time.
LEMMA ProgressNpm ==
  ASSUME Progress, Solo, NEW p \in Proc, StartNpm(p)
  PROVE  Progress' /\ Solo'
<1>1. PICK v : v = seen[p]
  OBVIOUS
<1>2. /\ poll[p] = "mark" /\ poll' = [poll EXCEPT ![p] = "npm"]
      /\ attempts' = [attempts EXCEPT ![v] = @ + 1] /\ marker' = v
      /\ seen' = [seen EXCEPT ![p] = 0] /\ UNCHANGED <<latest, alone, at>>
  BY <1>1 DEF StartNpm, write_last_attempt, Tried, PollIs
<1>3. \A q \in Proc : /\ poll'[q] = IF q = p THEN "npm" ELSE poll[q]
                      /\ seen'[q] = IF q = p THEN 0 ELSE seen[q]
  BY <1>2 DEF Progress
<1>4. v \in 1..latest /\ v \in Release /\ at[p] \in {"serving", "draining"}
  BY <1>1, <1>2, LifecycleAssumption DEF Progress, Release
<1>5. /\ attempts' \in [Release -> Nat] /\ attempts'[v] = attempts[v] + 1
      /\ \A w \in Release \ {v} : attempts'[w] = attempts[w]
  BY <1>2, <1>4 DEF Progress
<1>6. Progress'
  <2>1. /\ poll' \in [Proc -> {"wait", "mark", "npm", "ended"}] /\ seen' \in [Proc -> Nat]
    BY <1>2 DEF Progress
  <2>2. marker' \in 0..latest
    BY <1>2, <1>4 DEF Progress, Release
  <2>3. QED
    BY <1>2, <1>3, <1>4, <1>5, <2>1, <2>2 DEF Progress
<1>7. \A q \in Proc : (Polls(q)' <=> Polls(q)) /\ (poll[q] = "mark" => Polls(q))
  BY <1>2, <1>3 DEF Polls, Progress
<1>8. ASSUME alone PROVE \A q \in Proc : poll'[q] # "mark"
  BY <1>2, <1>3, <1>7, <1>8 DEF Solo
<1>9. ASSUME alone, NEW w \in Release
      PROVE  attempts'[w] <= 1 /\ (marker' < w => attempts'[w] = 0)
  <2>1. marker < v /\ attempts[v] = 0 /\ attempts[w] <= 1 /\ (marker < w => attempts[w] = 0)
    BY <1>1, <1>2, <1>4, <1>9 DEF Solo
  <2>2. CASE w = v
    BY <1>2, <1>5, <2>1, <2>2, LifecycleAssumption DEF Release
  <2>3. CASE w # v
    <3>1. attempts'[w] = attempts[w] /\ marker' = v
      BY <1>2, <1>5, <2>3
    <3>2. marker \in Nat /\ v \in Nat /\ w \in Nat
      BY <1>4 DEF Progress, Release
    <3>3. QED
      BY <2>1, <3>1, <3>2
  <2>4. QED
    BY <2>2, <2>3
<1>10. Solo'
  BY <1>2, <1>7, <1>8, <1>9 DEF Solo
<1>11. QED
  BY <1>6, <1>10

LEMMA ProgressPolling ==
  ASSUME Progress, Solo, NEW p \in Proc, Polling(p)
  PROVE  Progress' /\ Solo'
<1>1. ASSUME UNCHANGED <<latest, marker, attempts, alone, at, poll, seen>> PROVE Progress' /\ Solo'
  BY <1>1 DEF Progress, Solo, Polls
<1>2. CASE SkipTick(p)
  BY <1>1, <1>2 DEF SkipTick, procVars
<1>3. CASE CheckAndUpdate(p)
  <2>1. CASE ShouldTry(p)
    BY <1>3, <2>1, ProgressCheck
  <2>2. CASE ~ShouldTry(p)
    BY <1>1, <1>3, <2>2 DEF CheckAndUpdate, procVars
  <2>3. QED
    BY <2>1, <2>2
<1>4. CASE StartNpm(p)
  BY <1>4, ProgressNpm
<1>5. CASE UpdateInstalled(p)
  <2>1. Polls(p)
    BY <1>5 DEF UpdateInstalled, Progress, Polls
  <2>2. /\ poll' = [poll EXCEPT ![p] = "ended"] /\ at' = [at EXCEPT ![p] = "draining"]
        /\ UNCHANGED <<latest, marker, attempts, alone, seen>>
    BY <1>5 DEF UpdateInstalled, updates
  <2>3. QED
    BY <2>1, <2>2, ProgressPolls
<1>6. CASE UpdateFails(p)
  <2>1. UNCHANGED <<latest, marker, attempts, alone, seen, at>>
    BY <1>6 DEF UpdateFails, PollIs, procVars
  <2>2. CASE UNCHANGED poll
    BY <1>1, <2>1, <2>2
  <2>3. CASE ~UNCHANGED poll
    <3>1. poll[p] = "npm" /\ poll' = [poll EXCEPT ![p] = "wait"]
      BY <1>6, <2>3 DEF UpdateFails, PollIs, procVars
    <3>2. Polls(p)
      BY <3>1 DEF Progress, Polls
    <3>3. QED
      BY <2>1, <3>1, <3>2, ProgressPolls
  <2>4. QED
    BY <2>2, <2>3
<1>7. QED
  BY <1>2, <1>3, <1>4, <1>5, <1>6, Zenon DEF Polling

LEMMA ProgressKept ==
  ASSUME Progress, Solo, [LifecycleNext]_lifeVars
  PROVE  Progress' /\ Solo'
<1>1. CASE UNCHANGED lifeVars
  BY <1>1 DEF Progress, Solo, Polls, lifeVars, updates, procVars
<1>2. CASE Endings
  <2>1. PICK D : Ends(D)
    BY <1>2, EndingsEnd DEF EndsFiled
  <2>2. QED
    BY <2>1, ProgressEnds
<1>3. CASE Uninstall
  <2>1. Ends({"job"})
    BY <1>3 DEF Uninstall, Ends, Proc
  <2>2. QED
    BY <2>1, ProgressEnds
<1>4. CASE LifecycleNext
  BY <1>2, <1>3, <1>4, Steps, ProgressAside, ProgressLaunches, ProgressServes,
     ProgressAdvertise, ProgressPolling, Zenon
<1>5. QED
  BY <1>1, <1>4

\* A release is tried at most once, whatever crashes, fails or is installed in
\* between, while no two daemons check for releases at once: the marker written
\* before the install (check_and_update) suffices.
THEOREM EachTriedOnce == LifecycleSpec => []TriedOnce
<1>1. Progress /\ Solo => TriedOnce
  BY DEF Solo, TriedOnce
<1>2. QED
  BY <1>1, ProgressInit, ProgressKept, PTL DEF LifecycleSpec

-----------------------------------------------------------------------------
(* Who serves *)

Advert == [pid : Proc \cup {"none", "dead"}, at : Port \cup {Nobody.at, Empty.at, Torn.at}]
Claiming == {"opened", "written", "serving"}

\* A port admits one process.  From the moment a process has opened the copy of
\* the endpoint file, neither the copy nor, while it serves, the file names
\* its port for anybody else.
Claims ==
  /\ plist \in Port /\ at \in [Proc -> Stage] /\ port \in [Proc -> Port \cup {Nobody.at}]
  /\ endpoint \in Advert /\ draft \in Advert
  /\ draft.at = Nobody.at => draft = Nobody
  /\ \A p \in Proc : at[p] = "starting" \/ Up(p) => port[p] \in Port
  /\ \A p, q \in Proc : Up(p) /\ Up(q) /\ port[p] = port[q] => p = q
  /\ \A p \in Proc : at[p] \in Claiming => draft = Name(p) \/ draft.at # port[p]
  /\ \A p \in Proc : at[p] = "serving" =>
       endpoint = Name(p) \/ endpoint.at \notin {port[p], Nobody.at}

Advertised == uninstalls \in Nat /\ (uninstalls = 0 => Claims)

LEMMA AdvertisedInit == LifecycleInit => Advertised
BY DEF LifecycleInit, Advertised, Claims, Up, Stage, Writing, Advert, Nobody, Claiming

\* A name that is buried keeps its port.
LEMMA Burying ==
  ASSUME NEW c \in Advert, NEW D \in SUBSET Proc
  PROVE  /\ Buried(c, D) \in Advert /\ Buried(c, D).at = c.at
         /\ c.pid \notin D => Buried(c, D) = c
BY DEF Buried, Advert

LEMMA ClaimsEnds ==
  ASSUME Claims, NEW D, EndsFiled(D), UNCHANGED plist \/ \E i \in Installer : plist' = PortOf[i]
  PROVE  Claims'
<1>1. /\ D \in SUBSET Proc /\ endpoint' = Buried(endpoint, D) /\ draft' = Buried(draft, D)
      /\ \A p \in Proc : /\ at'[p] = IF p \in D THEN "down" ELSE at[p]
                         /\ port'[p] = IF p \in D THEN Nobody.at ELSE port[p]
  BY DEF EndsFiled, Ends, End, Lost
<1>2. at' \in [Proc -> Stage] /\ port' \in [Proc -> Port \cup {Nobody.at}]
  BY DEF EndsFiled, Ends, End, Lost, Claims, Stage
<1>3. plist' \in Port
  BY LifecycleAssumption DEF Claims
<1>4. endpoint \in Advert /\ draft \in Advert
  BY DEF Claims
<1>5. /\ endpoint' \in Advert /\ endpoint'.at = endpoint.at
      /\ endpoint.pid \notin D => endpoint' = endpoint
  BY <1>1, <1>4, Burying
<1>6. /\ draft' \in Advert /\ draft'.at = draft.at
      /\ draft.pid \notin D => draft' = draft
  BY <1>1, <1>4, Burying
<1>7. draft'.at = Nobody.at => draft' = Nobody
  BY <1>1, <1>6 DEF Claims, Nobody, Proc
<1>8. \A p \in Proc : Up(p)' => Up(p) /\ p \notin D
  BY <1>1 DEF Up, Writing
<1>9. \A p \in Proc \ D : Name(p)' = Name(p) /\ Name(p).pid = p /\ at'[p] = at[p] /\ port'[p] = port[p]
  BY <1>1 DEF Name
<1>10. \A p \in Proc : at'[p] = "starting" \/ Up(p)' => port'[p] \in Port
  BY <1>1, <1>8 DEF Claims
<1>11. \A p, q \in Proc : Up(p)' /\ Up(q)' /\ port'[p] = port'[q] => p = q
  BY <1>8, <1>9 DEF Claims
<1>12. ASSUME NEW p \in Proc, at'[p] \in Claiming PROVE draft' = Name(p)' \/ draft'.at # port'[p]
  <2>1. p \notin D /\ at[p] \in Claiming
    BY <1>1, <1>12 DEF Claiming
  <2>2. draft = Name(p) \/ draft.at # port[p]
    BY <2>1 DEF Claims
  <2>3. QED
    BY <1>6, <1>9, <2>1, <2>2
<1>13. ASSUME NEW p \in Proc, at'[p] = "serving"
       PROVE  endpoint' = Name(p)' \/ endpoint'.at \notin {port'[p], Nobody.at}
  <2>1. p \notin D /\ at[p] = "serving"
    BY <1>1, <1>13
  <2>2. endpoint = Name(p) \/ endpoint.at \notin {port[p], Nobody.at}
    BY <2>1 DEF Claims
  <2>3. QED
    BY <1>5, <1>9, <2>1, <2>2
<1>14. QED
  BY <1>2, <1>3, <1>5, <1>6, <1>7, <1>10, <1>11, <1>12, <1>13 DEF Claims

\* A step of process p that leaves its port alone.
Goes(p, to) ==
  /\ at' = [at EXCEPT ![p] = to] /\ to \in Stage \ {"starting"}
  /\ UNCHANGED <<plist, port>> /\ endpoint' \in Advert /\ draft' \in Advert
  /\ draft'.at = Nobody.at => draft' = Nobody
  /\ to \in Writing \cup {"serving"} => port[p] \in Port /\ (Up(p) \/ PortFree(port[p]))
  /\ \A q \in Proc : (IF q = p THEN to ELSE at[q]) \in Claiming =>
       draft' = Name(q) \/ draft'.at # port[q]
  /\ \A q \in Proc : (IF q = p THEN to ELSE at[q]) = "serving" =>
       endpoint' = Name(q) \/ endpoint'.at \notin {port[q], Nobody.at}

LEMMA ClaimsMoves ==
  ASSUME Claims, NEW p \in Proc, NEW to, Goes(p, to)
  PROVE  Claims'
<1>1. at' \in [Proc -> Stage] /\ \A q \in Proc : at'[q] = IF q = p THEN to ELSE at[q]
  BY DEF Claims, Goes
<1>2. \A q \in Proc \ {p} : Up(q)' <=> Up(q)
  BY <1>1 DEF Up
<1>3. Up(p)' => to \in Writing \cup {"serving"}
  BY <1>1 DEF Up
<1>4. \A q \in Proc : at'[q] = "starting" \/ Up(q)' => port'[q] \in Port
  BY <1>1, <1>2, <1>3 DEF Claims, Goes
<1>5. ASSUME NEW q \in Proc, NEW r \in Proc, Up(q)', Up(r)', port'[q] = port'[r] PROVE q = r
  <2>1. CASE q # p /\ r # p
    BY <1>2, <1>5, <2>1 DEF Claims, Goes
  <2>2. CASE q = p \/ r = p
    <3>1. Up(p) \/ PortFree(port[p])
      BY <1>3, <1>5, <2>2 DEF Goes
    <3>2. QED
      BY <1>2, <1>5, <2>2, <3>1 DEF Claims, PortFree, Goes
  <2>3. QED
    BY <2>1, <2>2
<1>6. \A q \in Proc : Name(q)' = Name(q)
  BY DEF Name, Goes
<1>7. \A q \in Proc : at'[q] \in Claiming => draft' = Name(q)' \/ draft'.at # port'[q]
  BY <1>1, <1>6 DEF Goes
<1>8. \A q \in Proc : at'[q] = "serving" =>
        endpoint' = Name(q)' \/ endpoint'.at \notin {port'[q], Nobody.at}
  BY <1>1, <1>6 DEF Goes
<1>9. QED
  BY <1>1, <1>4, <1>5, <1>7, <1>8 DEF Claims, Goes

\* What a writer leaves behind names it or nobody.
LEMMA Writes ==
  ASSUME Claims, NEW p \in Proc, port[p] \in Port, NEW c, NEW w \in Overwritten(c, p)
  PROVE  /\ w \in Advert /\ w.at # Nobody.at
         /\ w = Name(p) \/ w.at \notin Port
         /\ w.at \in {port[p], Torn.at}
<1>1. w = Name(p) \/ w = Torn
  BY DEF Overwritten
<1>2. Torn \in Advert /\ Torn.at \notin Port /\ Torn.at # Nobody.at
  BY LifecycleAssumption DEF Torn, Advert, Nobody
<1>3. Name(p) \in Advert /\ Name(p).at = port[p] /\ port[p] # Nobody.at
  BY LifecycleAssumption DEF Name, Advert, Nobody
<1>4. QED
  BY <1>1, <1>2, <1>3

LEMMA ClaimsServes ==
  ASSUME Claims, NEW p \in Proc, Serves(p) PROVE Claims'
<1>1. UNCHANGED <<plist, port>>
  BY DEF Serves, Bind, OpenDraft, WriteDraft, Interrupt, At
<1>2. ASSUME NEW q \in Proc PROVE at[q] \in Claiming => port[q] \in Port /\ Up(q)
  BY DEF Claims, Claiming, Up, Writing
<1>3. CASE Bind(p)
  <2>1. at[p] = "starting" /\ PortFree(port[p]) /\ at' = [at EXCEPT ![p] = "bound"]
        /\ UNCHANGED <<endpoint, draft>> /\ "bound" \in Stage /\ "bound" \notin Claiming
    BY <1>3 DEF Bind, At, fileVars, Stage, Writing, Claiming
  <2>2. Goes(p, "bound")
    BY <1>1, <2>1 DEF Claims, Goes
  <2>3. QED
    BY <2>2, ClaimsMoves, Zenon
<1>4. CASE OpenDraft(p)
  <2>1. at[p] = "bound" /\ at' = [at EXCEPT ![p] = "opened"]
        /\ draft' = Empty /\ UNCHANGED endpoint /\ "opened" \in Stage
    BY <1>4 DEF OpenDraft, At, Stage, Writing
  <2>2. Up(p) /\ port[p] \in Port
    BY <2>1 DEF Claims, Up, Writing
  <2>3. Empty \in Advert /\ Empty.at \notin Port /\ Empty.at # Nobody.at
    BY LifecycleAssumption DEF Empty, Advert, Nobody
  <2>4. \A q \in Proc : (IF q = p THEN "opened" ELSE at[q]) \in Claiming => Empty.at # port[q]
    BY <1>2, <2>2, <2>3
  <2>5. Goes(p, "opened")
    BY <1>1, <2>1, <2>2, <2>3, <2>4 DEF Claims, Goes
  <2>6. QED
    BY <2>5, ClaimsMoves, Zenon
<1>5. CASE WriteDraft(p)
  <2>1. at[p] = "opened" /\ at' = [at EXCEPT ![p] = "written"] /\ "written" \in Stage
    BY <1>5 DEF WriteDraft, At, Stage, Writing
  <2>2. Up(p) /\ port[p] \in Port /\ at[p] \in Claiming
    BY <2>1 DEF Claims, Up, Writing, Claiming
  <2>3. \A q \in Proc : at[q] \in Claiming /\ q # p => port[q] # port[p] /\ port[q] \in Port
    BY <1>2, <2>2 DEF Claims
  <2>4. CASE draft' \in Overwritten(draft, p) /\ UNCHANGED endpoint
    <3>1. PICK w \in Overwritten(draft, p) : draft' = w
      BY <2>4
    <3>2. /\ w \in Advert /\ w.at # Nobody.at /\ (w = Name(p) \/ w.at \notin Port)
          /\ w.at \in {port[p], Torn.at}
      BY <2>2, Writes
    <3>3. ASSUME NEW q \in Proc, (IF q = p THEN "written" ELSE at[q]) \in Claiming
          PROVE  w = Name(q) \/ w.at # port[q]
      <4>1. CASE q = p
        BY <2>2, <3>2, <4>1
      <4>2. CASE q # p
        <5>1. port[q] # port[p] /\ port[q] \in Port
          BY <2>3, <3>3, <4>2
        <5>2. Torn.at \notin Port
          BY LifecycleAssumption
        <5>3. QED
          BY <3>2, <5>1, <5>2
      <4>3. QED
        BY <4>1, <4>2
    <3>4. Goes(p, "written")
      BY <1>1, <2>1, <2>2, <2>4, <3>1, <3>2, <3>3 DEF Claims, Goes
    <3>5. QED
      BY <3>4, ClaimsMoves, Zenon
  <2>5. CASE endpoint' \in Overwritten(endpoint, p) /\ UNCHANGED draft
    <3>1. PICK w \in Overwritten(endpoint, p) : endpoint' = w
      BY <2>5
    <3>2. w \in Advert /\ w.at # Nobody.at /\ w.at \in {port[p], Torn.at}
      BY <2>2, Writes
    <3>3. ASSUME NEW q \in Proc, (IF q = p THEN "written" ELSE at[q]) = "serving"
          PROVE  w.at \notin {port[q], Nobody.at}
      <4>1. q # p /\ at[q] \in Claiming
        BY <3>3 DEF Claiming
      <4>2. port[q] # port[p] /\ port[q] \in Port /\ Torn.at \notin Port
        BY <2>3, <4>1, LifecycleAssumption
      <4>3. QED
        BY <3>2, <4>2
    <3>4. \A q \in Proc : (IF q = p THEN "written" ELSE at[q]) \in Claiming =>
            draft' = Name(q) \/ draft'.at # port[q]
      BY <2>2, <2>5 DEF Claims
    <3>5. Goes(p, "written")
      BY <1>1, <2>1, <2>2, <2>5, <3>1, <3>2, <3>3, <3>4 DEF Claims, Goes
    <3>6. QED
      BY <3>5, ClaimsMoves, Zenon
  <2>6. CASE UNCHANGED <<endpoint, draft>>
    <3>1. \A q \in Proc : (IF q = p THEN "written" ELSE at[q]) \in Claiming =>
            draft' = Name(q) \/ draft'.at # port[q]
      BY <2>2, <2>6 DEF Claims
    <3>2. Goes(p, "written")
      BY <1>1, <2>1, <2>2, <2>6, <3>1 DEF Claims, Goes
    <3>3. QED
      BY <3>2, ClaimsMoves, Zenon
  <2>7. QED
    BY <1>5, <2>4, <2>5, <2>6, Zenon DEF WriteDraft
<1>6. CASE Interrupt(p)
  <2>1. at[p] = "serving" /\ at' = [at EXCEPT ![p] = "draining"] /\ UNCHANGED <<endpoint, draft>>
        /\ "draining" \in Stage /\ "draining" \notin Claiming \cup Writing
    BY <1>6 DEF Interrupt, At, fileVars, Stage, Writing, Claiming
  <2>2. Goes(p, "draining")
    BY <1>1, <2>1 DEF Claims, Goes
  <2>3. QED
    BY <2>2, ClaimsMoves, Zenon
<1>7. QED
  BY <1>3, <1>4, <1>5, <1>6, Zenon DEF Serves

\* The copy that is renamed names nobody else at the port of one who serves.
LEMMA ClaimsAdvertise ==
  ASSUME Claims, NEW p \in Proc, Advertise(p) PROVE Claims'
<1>1. /\ at[p] = "written" /\ draft # Nobody /\ at' = [at EXCEPT ![p] = "serving"]
      /\ endpoint' = draft /\ draft' = Nobody /\ UNCHANGED <<plist, port>> /\ "serving" \in Stage
  BY DEF Advertise, At, Stage
<1>2. Up(p) /\ port[p] \in Port /\ at[p] \in Claiming
  BY <1>1 DEF Claims, Up, Writing, Claiming
<1>3. Nobody \in Advert /\ Nobody.at \notin Port
  BY LifecycleAssumption DEF Nobody, Advert
<1>4. \A q \in Proc : at[q] \in Claiming => port[q] \in Port
  BY DEF Claims, Claiming, Up, Writing
<1>5. \A q \in Proc : (IF q = p THEN "serving" ELSE at[q]) \in Claiming => Nobody.at # port[q]
  BY <1>2, <1>3, <1>4
<1>6. draft.at # Nobody.at
  BY <1>1 DEF Claims
<1>7. ASSUME NEW q \in Proc, (IF q = p THEN "serving" ELSE at[q]) = "serving"
      PROVE  draft = Name(q) \/ draft.at \notin {port[q], Nobody.at}
  <2>1. at[q] \in Claiming
    BY <1>2, <1>7 DEF Claiming
  <2>2. QED
    BY <1>6, <2>1 DEF Claims
<1>8. Goes(p, "serving")
  BY <1>1, <1>2, <1>3, <1>5, <1>7 DEF Claims, Goes
<1>9. QED
  BY <1>8, ClaimsMoves, Zenon

LEMMA ClaimsLaunches ==
  ASSUME Claims, Launches PROVE Claims'
<1>1. PICK p \in Proc, n \in Port :
        /\ at[p] = "down" /\ at' = [at EXCEPT ![p] = "starting"] /\ port' = [port EXCEPT ![p] = n]
        /\ UNCHANGED <<endpoint, draft, plist>>
  BY DEF Launches, Launch, fileVars, Claims
<1>2. /\ at' \in [Proc -> Stage] /\ port' \in [Proc -> Port \cup {Nobody.at}]
      /\ \A q \in Proc : /\ at'[q] = IF q = p THEN "starting" ELSE at[q]
                         /\ port'[q] = IF q = p THEN n ELSE port[q]
  BY <1>1 DEF Claims, Stage
<1>3. ~Up(p)' /\ \A q \in Proc \ {p} : (Up(q)' <=> Up(q)) /\ Name(q)' = Name(q)
  BY <1>2 DEF Up, Writing, Name
<1>4. "starting" \notin Claiming
  BY DEF Claiming
<1>5. \A q \in Proc : at'[q] \in Claiming => q # p
  BY <1>2, <1>4
<1>6. \A q \in Proc : at'[q] = "starting" \/ Up(q)' => port'[q] \in Port
  BY <1>2, <1>3 DEF Claims
<1>7. \A q, r \in Proc : Up(q)' /\ Up(r)' /\ port'[q] = port'[r] => q = r
  BY <1>2, <1>3 DEF Claims
<1>8. \A q \in Proc : at'[q] \in Claiming => draft' = Name(q)' \/ draft'.at # port'[q]
  BY <1>1, <1>2, <1>3, <1>5 DEF Claims
<1>9. \A q \in Proc : at'[q] = "serving" =>
        endpoint' = Name(q)' \/ endpoint'.at \notin {port'[q], Nobody.at}
  BY <1>1, <1>2, <1>3 DEF Claims
<1>10. QED
  BY <1>1, <1>2, <1>6, <1>7, <1>8, <1>9 DEF Claims

LEMMA ClaimsPolling ==
  ASSUME Claims, NEW p \in Proc, Polling(p) PROVE Claims'
<1>1. UNCHANGED <<plist, port, endpoint, draft>>
  BY DEF Polling, SkipTick, CheckAndUpdate, StartNpm, UpdateInstalled, UpdateFails, PollIs,
         procVars, fileVars
<1>2. UNCHANGED at \/ at' = [at EXCEPT ![p] = "draining"]
  BY DEF Polling, SkipTick, CheckAndUpdate, StartNpm, UpdateInstalled, UpdateFails, PollIs, procVars
<1>3. CASE UNCHANGED at
  BY <1>1, <1>3 DEF Claims, Up, Name
<1>4. CASE at' = [at EXCEPT ![p] = "draining"]
  <2>1. "draining" \in Stage /\ "draining" \notin Claiming \cup Writing
    BY DEF Stage, Writing, Claiming
  <2>2. Goes(p, "draining")
    BY <1>1, <1>4, <2>1 DEF Claims, Goes
  <2>3. QED
    BY <2>2, ClaimsMoves, Zenon
<1>5. QED
  BY <1>2, <1>3, <1>4

LEMMA UninstallsStay ==
  ASSUME LifecycleNext, ~Uninstall PROVE UNCHANGED uninstalls
<1>1. CASE Launches
  BY <1>1 DEF Launches, Launch
<1>2. ASSUME NEW p \in Proc, Serves(p) \/ Advertise(p) PROVE UNCHANGED uninstalls
  BY <1>2 DEF Serves, Bind, OpenDraft, WriteDraft, Interrupt, Advertise, budgets
<1>3. ASSUME NEW p \in Proc, Polling(p) PROVE UNCHANGED uninstalls
  BY <1>3 DEF Polling, SkipTick, CheckAndUpdate, StartNpm, UpdateInstalled, UpdateFails, budgets
<1>4. QED
  BY <1>1, <1>2, <1>3, Steps, EndingsEnd, AsideAside

LEMMA PlistStays ==
  ASSUME Endings PROVE UNCHANGED plist \/ \E i \in Installer : plist' = PortOf[i]
BY DEF Endings, BindFails, AdvertiseFails, Drained, Crash, BootOut, DrainPids, Bootstrap, BootstrapFails

LEMMA ClaimsKept ==
  ASSUME Claims, LifecycleNext, ~Uninstall PROVE Claims'
<1>1. CASE Endings
  <2>1. PICK D : EndsFiled(D)
    BY <1>1, EndingsEnd
  <2>2. QED
    BY <1>1, <2>1, ClaimsEnds, PlistStays
<1>2. CASE Aside
  <2>1. UNCHANGED <<at, port, endpoint, draft>> /\ plist' \in Port
    BY <1>2, AsideAside, LifecycleAssumption DEF Claims
  <2>2. QED
    BY <2>1 DEF Claims, Up, Name
<1>3. QED
  BY <1>1, <1>2, Steps, ClaimsLaunches, ClaimsServes, ClaimsAdvertise, ClaimsPolling, Zenon

LEMMA AdvertisedKept ==
  ASSUME Advertised, [LifecycleNext]_lifeVars PROVE Advertised'
<1>1. CASE UNCHANGED lifeVars
  BY <1>1 DEF Advertised, Claims, Up, Name, lifeVars, budgets, procVars, fileVars
<1>2. CASE Uninstall
  <2>1. uninstalls' = uninstalls + 1
    BY <1>2 DEF Uninstall
  <2>2. QED
    BY <2>1 DEF Advertised
<1>3. CASE LifecycleNext /\ ~Uninstall
  BY <1>3, UninstallsStay, ClaimsKept DEF Advertised
<1>4. QED
  BY <1>1, <1>2, <1>3

\* endpoint.json names whoever serves unless a daemon on another port has
\* written over it (serve, endpoint_file::write), through any crashes,
\* respawns, self-updates and installs and any race of two writers for the
\* name of the copy, until an uninstall.
THEOREM ServiceAdvertised == LifecycleSpec => []ServingIsAdvertised
<1>1. Advertised => ServingIsAdvertised
  BY DEF Advertised, Claims, ServingIsAdvertised
<1>2. QED
  BY <1>1, AdvertisedInit, AdvertisedKept, PTL DEF LifecycleSpec

-----------------------------------------------------------------------------
(* What installs leave behind *)

InstallStep == {"idle", "skipped", "bootout", "drain", "wait_port", "bootstrap", "ok", "failed"}

\* The last install to end is one that has just bootstrapped the job, whoever
\* has booted it out meanwhile.
JobLeft ==
  /\ uninstalls \in Nat /\ ipc \in [Installer -> InstallStep] /\ InstallsLeaveJob

LEMMA JobLeftInit == LifecycleInit => JobLeft
BY DEF LifecycleInit, JobLeft, InstallStep, InstallsLeaveJob

LEMMA IpcMoved ==
  ASSUME JobLeft, NEW i \in Installer, NEW here, NEW next \in InstallStep, Ipc(i, here, next)
  PROVE  /\ ipc[i] = here /\ ipc' \in [Installer -> InstallStep]
         /\ ipc'[i] = next /\ \A j \in Installer \ {i} : ipc'[j] = ipc[j]
BY DEF JobLeft, Ipc

\* A step of an install after which that install is not over, or has failed.
LEMMA JobLeftBusy ==
  ASSUME JobLeft, NEW i \in Installer, NEW here,
         NEW next \in {"bootout", "drain", "wait_port", "bootstrap", "failed"},
         Ipc(i, here, next), UNCHANGED uninstalls
  PROVE  JobLeft'
<1>1. next \in InstallStep /\ next \notin {"idle", "ok", "skipped"}
  BY DEF InstallStep
<1>2. ipc' \in [Installer -> InstallStep] /\ ipc'[i] = next
  BY <1>1, IpcMoved
<1>3. QED
  BY <1>1, <1>2 DEF JobLeft, InstallsLeaveJob

LEMMA JobLeftInstall ==
  ASSUME JobLeft, NEW i \in Installer, BeginInstall(i) \/ Install(i) \/ InstallFails(i) \/ BootstrapFails(i)
  PROVE  JobLeft'
<1>1. UNCHANGED uninstalls
  BY DEF BeginInstall, Install, InstallFails, BootOut, DrainPids, WaitPortFree, Bootstrap,
         BootstrapFails, budgets
<1>2. CASE BeginInstall(i)
  <2>1. CASE Ipc(i, "idle", "bootout")
    BY <1>1, <2>1, JobLeftBusy
  <2>2. CASE Ipc(i, "idle", "skipped")
    <3>1. /\ ipc[i] = "idle" /\ ipc' \in [Installer -> InstallStep]
          /\ ipc'[i] = "skipped" /\ \A j \in Installer \ {i} : ipc'[j] = ipc[j]
      BY <2>2, IpcMoved DEF InstallStep
    <3>2. loaded' = loaded
      BY <1>2 DEF BeginInstall
    <3>3. (\E j \in Installer : ipc'[j] = "ok") => \E j \in Installer : ipc[j] = "ok"
      BY <3>1
    <3>4. (\A j \in Installer : ipc'[j] \in {"idle", "ok", "skipped"})
            => \A j \in Installer : ipc[j] \in {"idle", "ok", "skipped"}
      BY <3>1
    <3>5. QED
      BY <1>1, <3>1, <3>2, <3>3, <3>4 DEF JobLeft, InstallsLeaveJob
  <2>3. QED
    BY <1>2, <2>1, <2>2 DEF BeginInstall
<1>3. CASE BootOut(i) \/ DrainPids(i) \/ WaitPortFree(i) \/ InstallFails(i) \/ BootstrapFails(i)
  <2>1. \E here, next : Ipc(i, here, next) /\ next \in {"drain", "wait_port", "bootstrap", "failed"}
    BY <1>3, Zenon DEF BootOut, DrainPids, WaitPortFree, InstallFails, BootstrapFails, Finish
  <2>2. QED
    BY <1>1, <2>1, JobLeftBusy
<1>4. CASE Bootstrap(i)
  <2>1. loaded' = TRUE /\ Ipc(i, "bootstrap", "ok")
    BY <1>4 DEF Bootstrap
  <2>2. ipc' \in [Installer -> InstallStep]
    BY <2>1, IpcMoved DEF InstallStep
  <2>3. QED
    BY <1>1, <2>1, <2>2 DEF JobLeft, InstallsLeaveJob
<1>5. QED
  BY <1>2, <1>3, <1>4, Zenon DEF Install

LEMMA JobLeftKept ==
  ASSUME JobLeft, [LifecycleNext]_lifeVars
  PROVE  JobLeft'
<1>1. ASSUME UNCHANGED <<uninstalls, ipc, loaded>> PROVE JobLeft'
  BY <1>1 DEF JobLeft, InstallsLeaveJob
<1>2. CASE UNCHANGED lifeVars
  BY <1>1, <1>2 DEF lifeVars, budgets
<1>3. CASE KeepAlive \/ StartStray \/ Publish \/ OrphanEnds
  BY <1>1, <1>3 DEF KeepAlive, StartStray, Launch, Publish, OrphanEnds, budgets
<1>4. CASE Uninstall
  <2>1. uninstalls' = uninstalls + 1 /\ UNCHANGED ipc
    BY <1>4 DEF Uninstall
  <2>2. uninstalls' \in Nat /\ uninstalls' # 0
    BY <2>1 DEF JobLeft
  <2>3. QED
    BY <2>1, <2>2 DEF JobLeft, InstallsLeaveJob
<1>5. ASSUME NEW p \in Proc, Serve(p) \/ Update(p) PROVE JobLeft'
  <2>1. CASE Serve(p)
    BY <1>1, <2>1 DEF Serve, Bind, BindFails, OpenDraft, WriteDraft, Advertise, AdvertiseFails,
                      Drained, budgets
  <2>2. CASE Update(p)
    BY <1>1, <2>2 DEF Update, SkipTick, CheckAndUpdate, StartNpm, UpdateInstalled, budgets
  <2>3. QED
    BY <1>5, <2>1, <2>2
<1>6. ASSUME NEW p \in Proc, Interrupt(p) \/ Crash(p) \/ UpdateFails(p) PROVE JobLeft'
  BY <1>1, <1>6 DEF Interrupt, Crash, UpdateFails
<1>7. ASSUME NEW i \in Installer,
             BeginInstall(i) \/ Install(i) \/ InstallFails(i) \/ BootstrapFails(i)
      PROVE  JobLeft'
  BY <1>7, JobLeftInstall
<1>8. QED
  BY <1>2, <1>3, <1>4, <1>5, <1>6, <1>7, Zenon DEF LifecycleNext

\* Whatever installs, self-updates and crashes run into one another, once they
\* are over and none was cut short launchd has the job (install.rs, run_install:
\* boot out, drain, wait for the port, bootstrap, once more if that fails), even
\* if an installer went on without the lock.
THEOREM JobIsLeft == LifecycleSpec => []InstallsLeaveJob
<1>1. JobLeft => InstallsLeaveJob
  BY DEF JobLeft
<1>2. QED
  BY <1>1, JobLeftInit, JobLeftKept, PTL DEF LifecycleSpec

-----------------------------------------------------------------------------
(* CredentialLease *)

Place == {"idle", "loader", "source", "mint", "shake", "reshake", "done", "gone"}

Typed ==
  /\ issued \in Nat /\ cached \in 0..issued
  /\ kept \in [Loader -> Nat] /\ slock \in Seq(User)
  /\ upc \in [User -> Place] /\ forced \in [User -> BOOLEAN]
  /\ got \in [User -> Nat] /\ token \in [User -> Nat]

Ask == User \ HealthCheck

\* What an ask compares a lease with, it got from a store that is not ahead
\* of the source.
StoresBehind == \A l \in Loader : kept[l] <= cached

HealthChecksApart ==
  \A u \in HealthCheck : ~forced[u] /\ upc[u] \notin {"loader", "shake", "reshake"}

\* Whoever is at the source waits for the state mutex, and holds it while its
\* child runs.
AtTheMutex ==
  \A u \in User : /\ upc[u] \in {"source", "mint"} => InQueue(slock, u)
                  /\ upc[u] = "mint" => Head(slock) = u

\* The lease a child brings is none older than the one in the cache, and a
\* newer one after a refusal.
Minted(u) ==
  IF upc[u] = "mint"
  THEN got[u] # 0 => cached <= got[u] /\ got[u] <= issued /\ (forced[u] => cached < got[u])
  ELSE got[u] = 0

ChildrenGoForward == \A u \in User : Minted(u)

\* The credential an ask connects or has been refused with is none its loader
\* has not had.
Shaken(u) == upc[u] \in {"shake", "reshake"}
Retrying(u) == forced[u] /\ upc[u] \in {"loader", "source", "mint"}

TokensBehind == \A u \in Ask : Shaken(u) \/ Retrying(u) => token[u] <= kept[LoaderOf[u]]

LeaseInv ==
  /\ Typed /\ StoresBehind /\ HealthChecksApart /\ AtTheMutex
  /\ ChildrenGoForward /\ TokensBehind
-----------------------------------------------------------------------------
(* Who acts *)

Acts(u) == AskForAuth(u) \/ Proceed(u) \/ Drop(u)

LEMMA LeaseActions ==
  ASSUME [LeaseNext]_leaseVars
  PROVE  \/ \E u \in User : Acts(u)
         \/ \E n \in 1..issued : Revoke(n) \/ RunDown(n)
         \/ UNCHANGED leaseVars
BY Zenon DEF LeaseNext, Acts

LEMMA InitHolds == LeaseInit => LeaseInv
<1>1. SUFFICES ASSUME LeaseInit PROVE LeaseInv
  OBVIOUS
<1>2. Typed
  BY <1>1 DEF LeaseInit, Typed, Place
<1>3. StoresBehind /\ HealthChecksApart
  BY <1>1, LeaseAssumption DEF LeaseInit, StoresBehind, HealthChecksApart
<1>4. AtTheMutex /\ ChildrenGoForward
  BY <1>1 DEF LeaseInit, AtTheMutex, ChildrenGoForward, Minted
<1>5. TokensBehind
  BY <1>1 DEF LeaseInit, TokensBehind, Shaken, Retrying, Ask
<1>6. QED
  BY <1>2, <1>3, <1>4, <1>5 DEF LeaseInv

\* Whoever may have left the mutex: the others stand as they stood.
LEMMA Unlocked ==
  ASSUME Typed, NEW u, Unlock(u)
  PROVE  /\ slock' \in Seq(User)
         /\ \A v : v # u /\ InQueue(slock, v) => InQueue(slock', v)
         /\ slock # <<>> /\ Head(slock) # u => Head(slock') = Head(slock)
BY Leaves DEF Typed, Unlock

\* A step of u leaves the other users and their turns at the mutex alone.
Alone(u) ==
  /\ slock' \in Seq(User)
  /\ \A v \in User \ {u} : /\ upc'[v] = upc[v] /\ forced'[v] = forced[v]
                           /\ got'[v] = got[v] /\ token'[v] = token[v]
                           /\ InQueue(slock, v) => InQueue(slock', v)
                           /\ InQueue(slock, v) /\ Head(slock) = v => Head(slock') = v

LEMMA MutexKept ==
  ASSUME Typed, NEW u \in User, slock' = slock \/ slock' = Append(slock, u) \/ Unlock(u)
  PROVE  /\ slock' \in Seq(User)
         /\ \A v \in User \ {u} : /\ InQueue(slock, v) => InQueue(slock', v)
                                  /\ InQueue(slock, v) /\ Head(slock) = v => Head(slock') = v
<1>1. slock \in Seq(User)
  BY DEF Typed
<1>2. \A v : InQueue(slock, v) => slock # <<>>
  BY <1>1, HeadIs
<1>3. CASE slock' = slock
  BY <1>1, <1>3
<1>4. CASE slock' = Append(slock, u)
  BY <1>1, <1>2, <1>4, Joins
<1>5. CASE Unlock(u)
  BY <1>2, <1>5, Unlocked
<1>6. QED
  BY <1>3, <1>4, <1>5

LEMMA OneAtATime ==
  ASSUME Typed, NEW u \in User, Acts(u)
  PROVE  Alone(u)
<1>1. slock' = slock \/ slock' = Append(slock, u) \/ Unlock(u)
  <2>1. CASE AskForAuth(u)
    BY <2>1 DEF AskForAuth
  <2>2. CASE Drop(u)
    BY <2>2 DEF Drop
  <2>3. CASE LoaderHit(u) \/ LoaderMiss(u)
    BY <2>3 DEF LoaderHit, LoaderMiss
  <2>4. CASE SourceHit(u) \/ MintLocked(u) \/ MintFails(u)
    BY <2>4 DEF SourceHit, MintLocked, MintFails, Served
  <2>5. CASE RunLease(u) \/ Issue(u) \/ Accepted(u) \/ Refused(u)
    BY <2>5 DEF RunLease, Issue, Accepted, Refused
  <2>6. QED
    BY <2>1, <2>2, <2>3, <2>4, <2>5 DEF Acts, Proceed
<1>2. \A v \in User \ {u} : upc'[v] = upc[v] /\ forced'[v] = forced[v]
  <2>1. CASE AskForAuth(u)
    BY <2>1 DEF AskForAuth, Step, EnterLoader, Typed
  <2>2. CASE Drop(u)
    BY <2>2 DEF Drop, Typed
  <2>3. CASE LoaderHit(u) \/ LoaderMiss(u)
    BY <2>3 DEF LoaderHit, LoaderMiss, Step, Typed
  <2>4. CASE SourceHit(u) \/ MintLocked(u)
    BY <2>4 DEF SourceHit, MintLocked, Served, Typed
  <2>5. CASE RunLease(u) \/ Issue(u) \/ Accepted(u) \/ MintFails(u)
    BY <2>5 DEF RunLease, Issue, Accepted, MintFails, Step, Typed
  <2>6. CASE Refused(u)
    BY <2>6 DEF Refused, Step, EnterLoader, Typed
  <2>7. QED
    BY <2>1, <2>2, <2>3, <2>4, <2>5, <2>6 DEF Acts, Proceed
<1>3. \A v \in User \ {u} : got'[v] = got[v] /\ token'[v] = token[v]
  <2>1. CASE AskForAuth(u) \/ Drop(u)
    BY <2>1 DEF AskForAuth, Drop, Typed
  <2>2. CASE LoaderHit(u) \/ LoaderMiss(u)
    BY <2>2 DEF LoaderHit, LoaderMiss, Typed
  <2>3. CASE SourceHit(u) \/ MintLocked(u) \/ MintFails(u)
    BY <2>3 DEF SourceHit, MintLocked, MintFails, Served, Typed
  <2>4. CASE RunLease(u) \/ Issue(u) \/ Accepted(u) \/ Refused(u)
    BY <2>4 DEF RunLease, Issue, Accepted, Refused, Typed
  <2>5. QED
    BY <2>1, <2>2, <2>3, <2>4 DEF Acts, Proceed
<1>4. QED
  BY <1>1, <1>2, <1>3, MutexKept DEF Alone

-----------------------------------------------------------------------------
(* The stores *)

LEMMA LeaseServed ==
  ASSUME LeaseInv, NEW u \in User, upc[u] \in {"source", "mint"},
         NEW n \in Nat, n >= cached, Served(u, n)
  PROVE  /\ kept' \in [Loader -> Nat]
         /\ \A l \in Loader : kept[l] <= kept'[l] /\ kept'[l] <= n
<1>1. kept \in [Loader -> Nat] /\ cached \in Nat /\ \A l \in Loader : kept[l] <= cached
  BY DEF LeaseInv, Typed, StoresBehind
<1>2. CASE kept' = kept
  BY <1>1, <1>2
<1>3. CASE u \notin HealthCheck /\ kept' = [kept EXCEPT ![LoaderOf[u]] = n]
  <2>1. \A l \in Loader : kept'[l] = kept[l] \/ kept'[l] = n
    BY <1>1, <1>3
  <2>2. kept' \in [Loader -> Nat]
    BY <1>1, <1>3
  <2>3. QED
    BY <1>1, <2>1, <2>2
<1>4. QED
  BY <1>2, <1>3 DEF Served

StoresForward ==
  /\ issued' \in Nat /\ cached' \in 0..issued' /\ kept' \in [Loader -> Nat]
  /\ issued' >= issued /\ cached' >= cached
  /\ \A l \in Loader : kept'[l] >= kept[l] /\ kept'[l] <= cached'

LEMMA StoresKept ==
  ASSUME LeaseInv, UNCHANGED <<issued, cached, kept>>
  PROVE  StoresForward
BY DEF LeaseInv, Typed, StoresBehind, StoresForward

LEMMA StoresStep ==
  ASSUME LeaseInv, [LeaseNext]_leaseVars
  PROVE  StoresForward
<1>1. CASE UNCHANGED <<issued, cached, kept>>
  BY <1>1, StoresKept
<1>2. ASSUME NEW u \in User, AskForAuth(u) \/ Drop(u) PROVE StoresForward
  BY <1>2, <1>1 DEF AskForAuth, Drop, provider
<1>3. ASSUME NEW u \in User, LoaderHit(u) \/ LoaderMiss(u) \/ RunLease(u) \/ MintFails(u)
      PROVE  StoresForward
  BY <1>3, <1>1 DEF LoaderHit, LoaderMiss, RunLease, MintFails, provider
<1>4. ASSUME NEW u \in User, Accepted(u) \/ Refused(u) PROVE StoresForward
  BY <1>4, <1>1 DEF Accepted, Refused, provider
<1>5. ASSUME NEW n \in 1..issued, Revoke(n) \/ RunDown(n) PROVE StoresForward
  BY <1>5, <1>1 DEF Revoke, RunDown
<1>6. CASE UNCHANGED leaseVars
  BY <1>6, <1>1 DEF leaseVars
<1>7. ASSUME NEW u \in User, SourceHit(u) PROVE StoresForward
  <2>1. issued' = issued /\ cached' = cached /\ issued \in Nat /\ cached \in 0..issued
    BY <1>7 DEF SourceHit, provider, LeaseInv, Typed
  <2>2. upc[u] = "source" /\ Served(u, cached)
    BY <1>7 DEF SourceHit, AtSource
  <2>3. kept' \in [Loader -> Nat] /\ \A l \in Loader : kept[l] <= kept'[l] /\ kept'[l] <= cached
    BY <2>1, <2>2, LeaseServed
  <2>4. QED
    BY <2>1, <2>3 DEF StoresForward, LeaseInv, Typed
<1>8. ASSUME NEW u \in User, MintLocked(u) PROVE StoresForward
  <2>1. upc[u] = "mint" /\ got[u] # 0 /\ cached' = got[u] /\ Served(u, got[u]) /\ issued' = issued
    BY <1>8 DEF MintLocked, provider
  <2>2. got[u] \in Nat /\ cached <= got[u] /\ got[u] <= issued /\ issued \in Nat /\ cached \in Nat
    BY <2>1 DEF LeaseInv, Typed, ChildrenGoForward, Minted
  <2>3. kept' \in [Loader -> Nat] /\ \A l \in Loader : kept[l] <= kept'[l] /\ kept'[l] <= got[u]
    BY <2>1, <2>2, LeaseServed
  <2>4. QED
    BY <2>1, <2>2, <2>3 DEF StoresForward, LeaseInv, Typed
<1>9. ASSUME NEW u \in User, Issue(u) PROVE StoresForward
  <2>1. cached' = cached /\ kept' = kept /\ (issued' = issued \/ issued' = issued + 1)
    BY <1>9 DEF Issue
  <2>2. QED
    BY <2>1 DEF LeaseInv, Typed, StoresBehind, StoresForward
<1>10. ASSUME NEW u \in User, Acts(u) PROVE StoresForward
  BY <1>2, <1>3, <1>4, <1>7, <1>8, <1>9, <1>10, Zenon DEF Acts, Proceed
<1>11. QED
  BY <1>5, <1>6, <1>10, LeaseActions

\* Only the holder of the mutex replaces what the source has cached.
LEMMA CachedByHolder ==
  ASSUME LeaseInv, NEW u \in User, Acts(u), cached' # cached
  PROVE  upc[u] = "mint" /\ Head(slock) = u
<1>1. MintLocked(u)
  BY DEF Acts, Proceed, AskForAuth, Drop, LoaderHit, LoaderMiss, SourceHit, RunLease,
         Issue, MintFails, Accepted, Refused
<1>2. QED
  BY <1>1 DEF MintLocked, LeaseInv, AtTheMutex

-----------------------------------------------------------------------------
(* Types *)

UsersTyped ==
  /\ upc' \in [User -> Place] /\ forced' \in [User -> BOOLEAN]
  /\ got' \in [User -> Nat] /\ token' \in [User -> Nat]

LEMMA UsersStep ==
  ASSUME LeaseInv, NEW u \in User, Acts(u)
  PROVE  UsersTyped
<1>1. /\ upc \in [User -> Place] /\ forced \in [User -> BOOLEAN]
      /\ got \in [User -> Nat] /\ token \in [User -> Nat]
      /\ issued \in Nat /\ cached \in Nat /\ kept \in [Loader -> Nat]
  BY DEF LeaseInv, Typed
<1>2. upc[u] \in {"loader", "shake", "reshake"} => LoaderOf[u] \in Loader
  BY LeaseAssumption DEF LeaseInv, HealthChecksApart
<1>3. CASE AskForAuth(u)
  BY <1>1, <1>3 DEF AskForAuth, Step, EnterLoader, UsersTyped, Place
<1>4. CASE LoaderHit(u)
  <2>1. kept[LoaderOf[u]] \in Nat
    BY <1>1, <1>2, <1>4 DEF LoaderHit, AtLoader
  <2>2. QED
    BY <1>1, <1>4, <2>1 DEF LoaderHit, Step, UsersTyped, Place
<1>5. CASE LoaderMiss(u) \/ RunLease(u) \/ MintFails(u) \/ Drop(u) \/ Accepted(u)
  <2>1. CASE LoaderMiss(u) \/ RunLease(u) \/ Accepted(u)
    BY <1>1, <2>1 DEF LoaderMiss, RunLease, Accepted, Step, UsersTyped, Place
  <2>2. CASE MintFails(u) \/ Drop(u)
    BY <1>1, <2>2 DEF MintFails, Drop, Step, UsersTyped, Place
  <2>3. QED
    BY <1>5, <2>1, <2>2
<1>6. CASE SourceHit(u)
  BY <1>1, <1>6 DEF SourceHit, Served, UsersTyped, Place
<1>7. CASE MintLocked(u)
  BY <1>1, <1>7 DEF MintLocked, Served, UsersTyped, Place
<1>8. CASE Issue(u)
  BY <1>1, <1>8 DEF Issue, UsersTyped
<1>9. CASE Refused(u)
  BY <1>1, <1>9 DEF Refused, Step, EnterLoader, UsersTyped, Place
<1>10. QED
  BY <1>3, <1>4, <1>5, <1>6, <1>7, <1>8, <1>9 DEF Acts, Proceed

LEMMA TypedStep ==
  ASSUME LeaseInv, [LeaseNext]_leaseVars
  PROVE  Typed'
<1>1. StoresForward
  BY StoresStep
<1>2. ASSUME NEW u \in User, Acts(u) PROVE Typed'
  <2>1. UsersTyped /\ Alone(u)
    BY <1>2, UsersStep, OneAtATime DEF LeaseInv
  <2>2. QED
    BY <1>1, <2>1 DEF UsersTyped, Alone, StoresForward, Typed
<1>3. ASSUME UNCHANGED <<slock, upc, forced, got, token>> PROVE Typed'
  BY <1>1, <1>3 DEF StoresForward, Typed, LeaseInv
<1>4. ASSUME NEW n \in 1..issued, Revoke(n) \/ RunDown(n) PROVE Typed'
  BY <1>3, <1>4 DEF Revoke, RunDown
<1>5. CASE UNCHANGED leaseVars
  BY <1>3, <1>5 DEF leaseVars
<1>6. QED
  BY <1>2, <1>4, <1>5, LeaseActions

-----------------------------------------------------------------------------
(* The user that acts *)

LEMMA HealthCheckOwn ==
  ASSUME LeaseInv, NEW u \in HealthCheck, Acts(u)
  PROVE  ~forced'[u] /\ upc'[u] \notin {"loader", "shake", "reshake"}
<1>1. /\ u \in User /\ ~forced[u] /\ upc[u] \notin {"loader", "shake", "reshake"}
      /\ upc \in [User -> Place] /\ forced \in [User -> BOOLEAN]
  BY LeaseAssumption DEF LeaseInv, HealthChecksApart, Typed
<1>2. ~LoaderHit(u) /\ ~LoaderMiss(u) /\ ~Accepted(u) /\ ~Refused(u)
  BY <1>1 DEF LoaderHit, LoaderMiss, AtLoader, Accepted, Refused, Step
<1>3. CASE AskForAuth(u)
  BY <1>1, <1>3 DEF AskForAuth, Step
<1>4. CASE SourceHit(u) \/ MintLocked(u)
  BY <1>1, <1>4 DEF SourceHit, MintLocked, Served
<1>5. CASE RunLease(u) \/ Issue(u) \/ MintFails(u) \/ Drop(u)
  BY <1>1, <1>5 DEF RunLease, Issue, MintFails, Drop, Step
<1>6. QED
  BY <1>2, <1>3, <1>4, <1>5 DEF Acts, Proceed

\* Reaching the source is joining its queue, leaving it is leaving the queue,
\* and running a child is being the first in it.
LEMMA MutexOwn ==
  ASSUME LeaseInv, NEW u \in User, Acts(u)
  PROVE  /\ upc'[u] \in {"source", "mint"} => InQueue(slock', u)
         /\ upc'[u] = "mint" => Head(slock') = u
<1>1. /\ upc \in [User -> Place] /\ slock \in Seq(User)
      /\ upc[u] \in {"source", "mint"} => InQueue(slock, u)
      /\ upc[u] = "mint" => Head(slock) = u
  BY DEF LeaseInv, AtTheMutex, Typed
<1>2. CASE AskForAuth(u)
  <2>1. upc'[u] = "source" => slock' = Append(slock, u)
    BY <1>1, <1>2 DEF AskForAuth, Step
  <2>2. upc'[u] # "mint"
    BY <1>1, <1>2 DEF AskForAuth, Step
  <2>3. QED
    BY <1>1, <2>1, <2>2, Joins
<1>3. CASE LoaderMiss(u)
  <2>1. upc'[u] = "source" /\ slock' = Append(slock, u)
    BY <1>1, <1>3 DEF LoaderMiss, Step
  <2>2. QED
    BY <1>1, <2>1, Joins
<1>4. CASE LoaderHit(u) \/ Accepted(u) \/ Refused(u) \/ MintFails(u) \/ Drop(u)
  BY <1>1, <1>4 DEF LoaderHit, Accepted, Refused, MintFails, Drop, Step
<1>5. CASE SourceHit(u) \/ MintLocked(u)
  BY <1>1, <1>5 DEF SourceHit, MintLocked, Served
<1>6. CASE RunLease(u)
  BY <1>1, <1>6 DEF RunLease, AtSource, Step
<1>7. CASE Issue(u)
  BY <1>1, <1>7 DEF Issue
<1>8. QED
  BY <1>2, <1>3, <1>4, <1>5, <1>6, <1>7 DEF Acts, Proceed

LEMMA MintedOwn ==
  ASSUME LeaseInv, NEW u \in User, Acts(u)
  PROVE  Minted(u)'
<1>1. /\ upc \in [User -> Place] /\ got \in [User -> Nat] /\ Minted(u)
      /\ issued \in Nat /\ cached \in Nat /\ cached <= issued
      /\ forced \in [User -> BOOLEAN]
  BY DEF LeaseInv, ChildrenGoForward, Typed
<1>2. CASE Issue(u)
  <2>1. upc' = upc /\ upc[u] = "mint" /\ forced' = forced /\ cached' = cached
    BY <1>2 DEF Issue
  <2>2. CASE StillValid(issued) /\ ~(forced[u] /\ issued = cached)
    <3>1. issued' = issued /\ got'[u] = issued
      BY <1>1, <1>2, <2>2 DEF Issue
    <3>2. QED
      BY <1>1, <2>1, <2>2, <3>1 DEF Minted
  <2>3. CASE ~(StillValid(issued) /\ ~(forced[u] /\ issued = cached))
    <3>1. issued' = issued + 1 /\ got'[u] = issued + 1
      BY <1>1, <1>2, <2>3 DEF Issue
    <3>2. QED
      BY <1>1, <2>1, <3>1 DEF Minted
  <2>4. QED
    BY <2>2, <2>3
<1>3. CASE RunLease(u)
  <2>1. upc'[u] = "mint" /\ upc[u] = "source" /\ got'[u] = got[u]
    BY <1>1, <1>3 DEF RunLease, Step
  <2>2. QED
    BY <1>1, <2>1 DEF Minted
<1>4. ASSUME upc'[u] # "mint", got'[u] = 0 PROVE Minted(u)'
  BY <1>4 DEF Minted
<1>5. CASE AskForAuth(u)
  <2>1. upc[u] = "idle" /\ upc'[u] # "mint" /\ got' = got
    BY <1>1, <1>5 DEF AskForAuth, Step
  <2>2. QED
    BY <1>1, <1>4, <2>1 DEF Minted
<1>6. CASE LoaderHit(u) \/ LoaderMiss(u) \/ Accepted(u) \/ Refused(u)
  <2>1. upc[u] # "mint" /\ upc'[u] # "mint" /\ got' = got
    BY <1>1, <1>6 DEF LoaderHit, LoaderMiss, Accepted, Refused, Step
  <2>2. QED
    BY <1>1, <1>4, <2>1 DEF Minted
<1>7. CASE SourceHit(u)
  <2>1. upc[u] # "mint" /\ upc'[u] # "mint" /\ got' = got
    BY <1>1, <1>7 DEF SourceHit, AtSource, Served
  <2>2. QED
    BY <1>1, <1>4, <2>1 DEF Minted
<1>8. CASE MintLocked(u)
  <2>1. upc'[u] # "mint" /\ got'[u] = 0
    BY <1>1, <1>8 DEF MintLocked, Served
  <2>2. QED
    BY <1>4, <2>1
<1>9. CASE MintFails(u) \/ Drop(u)
  <2>1. upc'[u] # "mint" /\ got'[u] = 0
    BY <1>1, <1>9 DEF MintFails, Drop, Step
  <2>2. QED
    BY <1>4, <2>1
<1>10. QED
  BY <1>2, <1>3, <1>5, <1>6, <1>7, <1>8, <1>9, Zenon DEF Acts, Proceed

\* An ask connects with what its loader keeps, and is refused with it.
LEMMA TokenOwn ==
  ASSUME LeaseInv, NEW u \in Ask, Acts(u), Shaken(u)' \/ Retrying(u)'
  PROVE  token'[u] <= kept'[LoaderOf[u]]
<1>1. /\ u \in User /\ u \notin HealthCheck /\ LoaderOf[u] \in Loader
      /\ upc \in [User -> Place] /\ forced \in [User -> BOOLEAN] /\ token \in [User -> Nat]
      /\ kept \in [Loader -> Nat] /\ cached \in Nat
      /\ Shaken(u) \/ Retrying(u) => token[u] <= kept[LoaderOf[u]]
  BY LeaseAssumption DEF LeaseInv, TokensBehind, Typed, Ask
<1>2. \/ token'[u] = kept'[LoaderOf[u]] /\ kept' \in [Loader -> Nat]
      \/ token' = token /\ kept' = kept /\ (Shaken(u) \/ Retrying(u))
  <2>1. CASE AskForAuth(u)
    BY <1>1, <2>1 DEF AskForAuth, EnterLoader, Step, Shaken, Retrying
  <2>2. CASE LoaderHit(u)
    BY <1>1, <2>2 DEF LoaderHit
  <2>3. CASE SourceHit(u) \/ MintLocked(u)
    <3>1. PICK n \in Nat : Served(u, n)
      BY <1>1, <2>3 DEF SourceHit, MintLocked, LeaseInv, Typed
    <3>2. token'[u] = n
      BY <1>1, <3>1 DEF Served
    <3>3. kept' = [kept EXCEPT ![LoaderOf[u]] = n]
      BY <1>1, <3>1 DEF Served
    <3>4. QED
      BY <1>1, <3>2, <3>3
  <2>4. CASE LoaderMiss(u) \/ RunLease(u)
    BY <1>1, <2>4 DEF LoaderMiss, RunLease, AtLoader, AtSource, Step, Shaken, Retrying
  <2>5. CASE Issue(u)
    BY <1>1, <2>5 DEF Issue, Shaken, Retrying
  <2>6. CASE MintFails(u) \/ Drop(u)
    BY <1>1, <2>6 DEF MintFails, Drop, Step, Shaken, Retrying
  <2>7. CASE Accepted(u)
    BY <1>1, <2>7 DEF Accepted, Shaken, Retrying
  <2>8. CASE Refused(u)
    BY <1>1, <2>8 DEF Refused, EnterLoader, Step, Shaken, Retrying
  <2>9. QED
    BY <2>1, <2>2, <2>3, <2>4, <2>5, <2>6, <2>7, <2>8 DEF Acts, Proceed
<1>3. CASE token'[u] = kept'[LoaderOf[u]] /\ kept' \in [Loader -> Nat]
  BY <1>1, <1>3
<1>4. CASE token' = token /\ kept' = kept /\ (Shaken(u) \/ Retrying(u))
  BY <1>1, <1>4
<1>5. QED
  BY <1>2, <1>3, <1>4

-----------------------------------------------------------------------------
(* Induction *)

LEMMA StepOfUser ==
  ASSUME LeaseInv, NEW u \in User, Acts(u), StoresForward
  PROVE  HealthChecksApart' /\ AtTheMutex' /\ ChildrenGoForward' /\ TokensBehind'
<1>1. Alone(u)
  BY OneAtATime DEF LeaseInv
<1>2. HealthChecksApart'
  <2>1. ASSUME NEW v \in HealthCheck
        PROVE  ~forced'[v] /\ upc'[v] \notin {"loader", "shake", "reshake"}
    <3>1. v \in User /\ ~forced[v] /\ upc[v] \notin {"loader", "shake", "reshake"}
      BY LeaseAssumption DEF LeaseInv, HealthChecksApart
    <3>2. CASE v = u
      BY <3>2, HealthCheckOwn
    <3>3. CASE v # u
      BY <1>1, <3>1, <3>3 DEF Alone
    <3>4. QED
      BY <3>2, <3>3
  <2>2. QED
    BY <2>1 DEF HealthChecksApart
<1>3. AtTheMutex'
  <2>1. ASSUME NEW v \in User
        PROVE  /\ upc'[v] \in {"source", "mint"} => InQueue(slock', v)
               /\ upc'[v] = "mint" => Head(slock') = v
    <3>1. CASE v = u
      BY <3>1, MutexOwn
    <3>2. CASE v # u
      <4>1. /\ upc[v] \in {"source", "mint"} => InQueue(slock, v)
            /\ upc[v] = "mint" => Head(slock) = v
        BY DEF LeaseInv, AtTheMutex
      <4>2. QED
        BY <1>1, <3>2, <4>1 DEF Alone
    <3>3. QED
      BY <3>1, <3>2
  <2>2. QED
    BY <2>1 DEF AtTheMutex
<1>4. ChildrenGoForward'
  <2>1. ASSUME NEW v \in User PROVE Minted(v)'
    <3>1. CASE v = u
      BY <3>1, MintedOwn
    <3>2. CASE v # u
      <4>1. upc'[v] = upc[v] /\ forced'[v] = forced[v] /\ got'[v] = got[v]
        BY <1>1, <3>2 DEF Alone
      <4>2. Minted(v) /\ (upc[v] = "mint" => Head(slock) = v)
        BY DEF LeaseInv, ChildrenGoForward, AtTheMutex
      <4>3. upc[v] = "mint" => cached' = cached
        BY <3>2, <4>2, CachedByHolder
      <4>4. issued' >= issued /\ issued \in Nat /\ issued' \in Nat /\ got[v] \in Nat
        BY DEF StoresForward, LeaseInv, Typed
      <4>5. QED
        BY <4>1, <4>2, <4>3, <4>4 DEF Minted
    <3>3. QED
      BY <3>1, <3>2
  <2>2. QED
    BY <2>1 DEF ChildrenGoForward
<1>5. TokensBehind'
  <2>1. ASSUME NEW v \in Ask, Shaken(v)' \/ Retrying(v)'
        PROVE  token'[v] <= kept'[LoaderOf[v]]
    <3>1. CASE v = u
      BY <2>1, <3>1, TokenOwn
    <3>2. CASE v # u
      <4>1. v \in User /\ LoaderOf[v] \in Loader
        BY LeaseAssumption DEF Ask
      <4>2. upc'[v] = upc[v] /\ forced'[v] = forced[v] /\ token'[v] = token[v]
        BY <1>1, <3>2, <4>1 DEF Alone
      <4>3. token[v] <= kept[LoaderOf[v]] /\ token[v] \in Nat
        BY <2>1, <4>1, <4>2 DEF Shaken, Retrying, LeaseInv, TokensBehind, Typed
      <4>4. /\ kept'[LoaderOf[v]] >= kept[LoaderOf[v]]
            /\ kept'[LoaderOf[v]] \in Nat /\ kept[LoaderOf[v]] \in Nat
        BY <4>1 DEF StoresForward, LeaseInv, Typed
      <4>5. QED
        BY <4>2, <4>3, <4>4
    <3>3. QED
      BY <3>1, <3>2
  <2>2. QED
    BY <2>1 DEF TokensBehind
<1>6. QED
  BY <1>2, <1>3, <1>4, <1>5

LEMMA StepHolds == LeaseInv /\ [LeaseNext]_leaseVars => LeaseInv'
<1>1. SUFFICES ASSUME LeaseInv, [LeaseNext]_leaseVars PROVE LeaseInv'
  OBVIOUS
<1>2. Typed' /\ StoresForward
  BY <1>1, TypedStep, StoresStep
<1>3. StoresBehind'
  BY <1>2 DEF StoresForward, StoresBehind
<1>4. ASSUME UNCHANGED <<cached, slock, kept, upc, forced, got, token, issued>>
      PROVE  HealthChecksApart' /\ AtTheMutex' /\ ChildrenGoForward' /\ TokensBehind'
  BY <1>1, <1>4 DEF LeaseInv, HealthChecksApart, AtTheMutex, ChildrenGoForward, Minted,
                    TokensBehind, Shaken, Retrying
<1>5. HealthChecksApart' /\ AtTheMutex' /\ ChildrenGoForward' /\ TokensBehind'
  <2>1. ASSUME NEW u \in User, Acts(u)
        PROVE  HealthChecksApart' /\ AtTheMutex' /\ ChildrenGoForward' /\ TokensBehind'
    BY <1>1, <1>2, <2>1, StepOfUser
  <2>2. ASSUME NEW n \in 1..issued, Revoke(n) \/ RunDown(n)
        PROVE  UNCHANGED <<cached, slock, kept, upc, forced, got, token, issued>>
    BY <2>2 DEF Revoke, RunDown
  <2>3. CASE UNCHANGED leaseVars
    BY <1>4, <2>3 DEF leaseVars
  <2>4. QED
    BY <1>1, <1>4, <2>1, <2>2, <2>3, LeaseActions, Zenon
<1>6. QED
  BY <1>2, <1>3, <1>5 DEF LeaseInv

LEMMA LeaseInvHolds == LeaseSpec => []LeaseInv
BY InitHolds, StepHolds, PTL DEF LeaseSpec

\* No store of credentials - the source's cache, a loader's - ever goes back
\* to an older lease (CseTooldCodexAuthSource::mint_locked, AuthLoader::load):
\* a child that was overtaken is one that is not under the state mutex.
THEOREM LeasesGoForward == LeaseSpec => LeasesForward
<1>1. LeaseInv /\ [LeaseNext]_leaseVars =>
        [cached' >= cached /\ \A l \in Loader : kept'[l] >= kept[l]]_leaseVars
  BY StoresStep DEF StoresForward
<1>2. QED
  BY <1>1, LeaseInvHolds, PTL DEF LeaseSpec, LeasesForward

\* A handshake that was refused is repeated with another lease, whatever the
\* other asks of the loader and the source did meanwhile
\* (CseTooldCodexAuthSource::force_refresh names the rejected token).
THEOREM RetryIsAnotherLease == LeaseSpec => RetryUsesAnotherLease
<1>1. ASSUME LeaseInv, NEW u \in User, Acts(u), upc[u] # "reshake", upc'[u] = "reshake"
      PROVE  token'[u] # token[u]
  <2>1. /\ upc \in [User -> Place] /\ token \in [User -> Nat] /\ cached \in Nat
        /\ got \in [User -> Nat] /\ kept \in [Loader -> Nat]
    BY <1>1 DEF LeaseInv, Typed
  <2>2. SourceHit(u) \/ MintLocked(u)
    <3>1. ~AskForAuth(u)
      BY <1>1, <2>1 DEF AskForAuth, Step
    <3>2. ~LoaderHit(u) /\ ~LoaderMiss(u) /\ ~RunLease(u)
      BY <1>1, <2>1 DEF LoaderHit, LoaderMiss, RunLease, Step
    <3>3. ~Issue(u) /\ ~MintFails(u) /\ ~Accepted(u) /\ ~Drop(u)
      BY <1>1, <2>1 DEF Issue, MintFails, Accepted, Drop, Step
    <3>4. ~Refused(u)
      BY <1>1, <2>1 DEF Refused, Step
    <3>5. QED
      BY <1>1, <3>1, <3>2, <3>3, <3>4 DEF Acts, Proceed
  <2>3. PICK n \in Nat : Served(u, n) /\ n = IF SourceHit(u) THEN cached ELSE got[u]
    BY <2>1, <2>2 DEF SourceHit, MintLocked
  <2>4. u \notin HealthCheck /\ forced[u] /\ token'[u] = n /\ upc[u] \in {"source", "mint"}
    BY <1>1, <2>1, <2>2, <2>3 DEF Served, SourceHit, MintLocked, AtSource
  <2>5. LoaderOf[u] \in Loader /\ u \in Ask
    BY <2>4, LeaseAssumption DEF Ask
  <2>6. token[u] <= kept[LoaderOf[u]] /\ kept[LoaderOf[u]] <= cached
    BY <1>1, <2>4, <2>5 DEF LeaseInv, TokensBehind, Retrying, StoresBehind
  <2>7. CASE SourceHit(u)
    <3>1. cached # kept[LoaderOf[u]]
      BY <2>4, <2>7 DEF SourceHit, SourceHas, rejected
    <3>2. QED
      BY <2>1, <2>3, <2>4, <2>5, <2>6, <2>7, <3>1
  <2>8. CASE ~SourceHit(u)
    <3>1. n = got[u] /\ upc[u] = "mint" /\ got[u] # 0
      BY <2>2, <2>3, <2>8 DEF MintLocked
    <3>2. cached < got[u]
      BY <1>1, <2>4, <3>1 DEF LeaseInv, ChildrenGoForward, Minted
    <3>3. QED
      BY <2>1, <2>4, <2>5, <2>6, <3>1, <3>2
  <2>9. QED
    BY <2>7, <2>8
<1>2. LeaseInv /\ [LeaseNext]_leaseVars =>
        [\A u \in User :
           upc[u] # "reshake" /\ upc'[u] = "reshake" => token'[u] # token[u]]_leaseVars
  <2>1. SUFFICES ASSUME LeaseInv, [LeaseNext]_leaseVars, NEW u \in User,
                        upc[u] # "reshake", upc'[u] = "reshake"
                 PROVE  token'[u] # token[u]
    OBVIOUS
  <2>2. ASSUME NEW v \in User, Acts(v) PROVE token'[u] # token[u]
    <3>1. CASE v = u
      BY <1>1, <2>1, <2>2, <3>1
    <3>2. CASE v # u
      BY <2>1, <2>2, <3>2, OneAtATime DEF Alone, LeaseInv
    <3>3. QED
      BY <3>1, <3>2
  <2>3. ASSUME NEW n \in 1..issued, Revoke(n) \/ RunDown(n) PROVE FALSE
    BY <2>1, <2>3 DEF Revoke, RunDown
  <2>4. CASE UNCHANGED leaseVars
    BY <2>1, <2>4 DEF leaseVars
  <2>5. QED
    BY <2>1, <2>2, <2>3, <2>4, LeaseActions
<1>3. QED
  BY <1>2, LeaseInvHolds, PTL DEF LeaseSpec, RetryUsesAnotherLease

-----------------------------------------------------------------------------
(* Gateway: the conversation and what the model is shown of it *)

Speakers == {"system", "developer", "user", "assistant", "tool", "function"}
Texts == Seq({"s", "u", "m", "o"} \X Nat)
Calls == Seq(Nat)
Entries ==
  {e \in [who : Speakers, content : [text : Texts, image : BOOLEAN], calls : Seq(Calls), id : Calls] :
     e.who # "assistant" => e.calls = <<>>}
Item == [kind : {"text", "call", "output"}, role : Speakers \cup {""}, text : Texts, call : Calls]

LEMMA TextItemsIs ==
  ASSUME NEW who \in Speakers, NEW text \in Texts
  PROVE  /\ TextItems(who, text) \in Seq(Item)
         /\ text = <<>> => TextItems(who, text) = <<>>
         /\ text # <<>> => TextItems(who, text) = <<realtime_text_item(who, text)>>
         /\ realtime_text_item(who, text) \in Item
<1>1. <<>> \in Calls
  BY DEF Calls
<1>2. realtime_text_item(who, text) \in Item
  BY <1>1 DEF realtime_text_item, Item
<1>3. <<realtime_text_item(who, text)>> \in Seq(Item) /\ <<>> \in Seq(Item)
  BY <1>2
<1>4. QED
  BY <1>2, <1>3, Zenon DEF TextItems

LEMMA CallItemsIs ==
  ASSUME NEW calls \in Seq(Calls)
  PROVE  /\ CallItems(calls) \in Seq(Item) /\ (calls = <<>> => CallItems(calls) = <<>>)
         /\ Len(CallItems(calls)) = Len(calls)
         /\ \A i \in 1..Len(calls) : CallItems(calls)[i].kind = "call"
<1>1. ASSUME NEW i \in 1..Len(calls) PROVE CallItem(calls[i]) \in Item /\ CallItem(calls[i]).kind = "call"
  <2>1. calls[i] \in Calls /\ <<>> \in Texts
    BY DEF Texts
  <2>2. QED
    BY <2>1 DEF CallItem, Item
<1>2. CallItems(calls) \in [1..Len(calls) -> Item]
  BY <1>1 DEF CallItems
<1>3. CallItems(calls) \in Seq(Item) /\ Len(CallItems(calls)) = Len(calls)
  BY <1>2
<1>4. \A i \in 1..Len(calls) : CallItems(calls)[i] = CallItem(calls[i])
  BY DEF CallItems
<1>5. calls = <<>> => CallItems(calls) = <<>>
  BY DEF CallItems
<1>6. QED
  BY <1>1, <1>3, <1>4, <1>5

LEMMA OutputIs ==
  ASSUME NEW call \in Calls, NEW text \in Texts
  PROVE  OutputItem(call, text) \in Item /\ <<OutputItem(call, text)>> \in Seq(Item)
<1>1. OutputItem(call, text) \in Item
  BY DEF OutputItem, Item
<1>2. QED
  BY <1>1

\* What the model hears of an entry: system prompts go beside the conversation.
Hears(e) == IF IsSystem(e) THEN <<>> ELSE ResponsesItems(e)

LEMMA EntryIs ==
  ASSUME NEW e \in Entries
  PROVE  /\ e.who \in Speakers /\ e.content.text \in Texts /\ e.calls \in Seq(Calls) /\ e.id \in Calls
         /\ (e.who # "assistant" => e.calls = <<>>)
BY DEF Entries

LEMMA HearsIs ==
  ASSUME NEW e \in Entries
  PROVE  /\ Hears(e) \in Seq(Item) /\ ResponsesItems(e) \in Seq(Item)
         /\ e.who = "tool" => ResponsesItems(e) = <<OutputItem(e.id, e.content.text)>>
         /\ e.who # "tool" => ResponsesItems(e) = Cat(TextItems(e.who, e.content.text), CallItems(e.calls))
<1>1. /\ e.who \in Speakers /\ e.content.text \in Texts /\ e.calls \in Seq(Calls) /\ e.id \in Calls
      /\ (e.who # "assistant" => e.calls = <<>>)
  BY EntryIs
<1>2. CASE e.who = "tool"
  <2>1. ResponsesItems(e) = <<OutputItem(e.id, e.content.text)>>
    BY <1>2, Zenon DEF ResponsesItems
  <2>2. ResponsesItems(e) \in Seq(Item)
    BY <1>1, <2>1, OutputIs, Zenon
  <2>3. <<>> \in Seq(Item)
    OBVIOUS
  <2>4. QED
    BY <1>2, <2>1, <2>2, <2>3, Zenon DEF Hears
<1>3. CASE e.who # "tool"
  <2>1. ResponsesItems(e) = Cat(TextItems(e.who, e.content.text), CallItems(e.calls))
    BY <1>3, Zenon DEF ResponsesItems, Cat
  <2>2. ResponsesItems(e) \in Seq(Item)
    <3>1. TextItems(e.who, e.content.text) \in Seq(Item) /\ CallItems(e.calls) \in Seq(Item)
      BY <1>1, TextItemsIs, CallItemsIs, Zenon
    <3>2. QED
      BY <2>1, <3>1, CatIs, Zenon
  <2>3. <<>> \in Seq(Item)
    OBVIOUS
  <2>4. QED
    BY <1>3, <2>1, <2>2, <2>3, Zenon DEF Hears
<1>4. QED
  BY <1>2, <1>3

HearsOf(h) == [i \in DOMAIN h |-> Hears(h[i])]
Heard(h) == FlattenSeq(HearsOf(h))

\* What the chat endpoint, which knows five roles, makes of an entry.
LEMMA ChatIs ==
  ASSUME NEW e \in Entries, e.who \in Roles
  PROVE  ChatItems(e) = Hears(e)
<1>1. /\ e.who \in Speakers /\ e.content.text \in Texts /\ e.calls \in Seq(Calls) /\ e.id \in Calls
      /\ (e.who # "assistant" => e.calls = <<>>)
  BY EntryIs
<1>2. CASE IsSystem(e)
  <2>1. e.who # "user" /\ e.who # "assistant" /\ e.who # "tool"
    BY <1>2 DEF IsSystem
  <2>2. ChatItems(e) = <<>>
    BY <1>2, <2>1, Zenon DEF ChatItems
  <2>3. QED
    BY <1>2, <2>2, Zenon DEF Hears
<1>3. CASE e.who = "user"
  <2>1. CallItems(e.calls) = <<>>
    BY <1>1, <1>3, CallItemsIs
  <2>2. TextItems("user", e.content.text) \in Seq(Item)
    BY <1>1, <1>3, TextItemsIs, Zenon
  <2>3. Cat(TextItems("user", e.content.text), <<>>) = TextItems("user", e.content.text)
    BY <2>2, CatLaws, Zenon
  <2>4. ~ IsSystem(e) /\ e.who # "tool"
    BY <1>3 DEF IsSystem
  <2>5. Hears(e) = TextItems("user", e.content.text)
    BY <1>3, <2>1, <2>3, <2>4, HearsIs, Zenon DEF Hears
  <2>6. ChatItems(e) = TextItems("user", e.content.text)
    BY <1>3, <2>4 DEF ChatItems
  <2>7. QED
    BY <2>5, <2>6
<1>4. CASE e.who = "assistant"
  <2>1. ~ IsSystem(e) /\ e.who # "tool"
    BY <1>4 DEF IsSystem
  <2>2. ChatItems(e) = Cat(TextItems("assistant", e.content.text), CallItems(e.calls))
    <3>1. e.who # "user"
      BY <1>4
    <3>2. QED
      BY <1>4, <2>1, <3>1, Zenon DEF ChatItems, Cat
  <2>3. QED
    BY <1>4, <2>1, <2>2, HearsIs, Zenon DEF Hears
<1>5. CASE e.who = "tool"
  <2>1. ~ IsSystem(e) /\ e.who # "user" /\ e.who # "assistant"
    BY <1>5 DEF IsSystem
  <2>2. ChatItems(e) = <<OutputItem(e.id, e.content.text)>>
    BY <1>5, <2>1, Zenon DEF ChatItems
  <2>3. QED
    BY <1>5, <2>1, <2>2, HearsIs, Zenon DEF Hears
<1>6. QED
  BY <1>2, <1>3, <1>4, <1>5 DEF Roles, IsSystem

-----------------------------------------------------------------------------
(* The transcript of a conversation is the conversation of its transcripts *)

Piece(x) ==
  CASE x.kind = "text" -> <<x>> [] x.kind = "output" -> TextItems("tool", x.text) [] x.kind = "call" -> <<>>
PiecesOf(items) == [i \in DOMAIN items |-> Piece(items[i])]

LEMMA PieceIs ==
  ASSUME NEW x \in Item
  PROVE  /\ Piece(x) \in Seq(Item) /\ (x.kind = "text" => Piece(x) = <<x>>)
         /\ (x.kind = "output" => Piece(x) = TextItems("tool", x.text))
         /\ (x.kind = "call" => Piece(x) = <<>>)
<1>1. x.text \in Texts /\ x.kind \in {"text", "call", "output"} /\ "tool" \in Speakers
  BY DEF Item, Speakers
<1>2. TextItems("tool", x.text) \in Seq(Item) /\ <<x>> \in Seq(Item) /\ <<>> \in Seq(Item)
  <2>1. TextItems("tool", x.text) \in Seq(Item)
    BY <1>1, TextItemsIs, Zenon
  <2>2. <<x>> \in Seq(Item) /\ <<>> \in Seq(Item)
    OBVIOUS
  <2>3. QED
    BY <2>1, <2>2
<1>3. CASE x.kind = "text"
  BY <1>2, <1>3, Zenon DEF Piece
<1>4. CASE x.kind = "output"
  <2>1. x.kind # "text"
    BY <1>4
  <2>2. Piece(x) = TextItems("tool", x.text)
    BY <1>4, <2>1, Zenon DEF Piece
  <2>3. QED
    BY <1>2, <1>4, <2>2
<1>5. CASE x.kind = "call"
  <2>1. x.kind # "text" /\ x.kind # "output"
    BY <1>5
  <2>2. Piece(x) = <<>>
    BY <1>5, <2>1, Zenon DEF Piece
  <2>3. QED
    BY <1>2, <1>5, <2>2
<1>6. QED
  BY <1>1, <1>3, <1>4, <1>5

LEMMA TranscriptIs ==
  ASSUME NEW items \in Seq(Item)
  PROVE  /\ Transcript(items) = FlattenSeq(Firsts(PiecesOf(items), Len(items)))
         /\ Transcript(items) \in Seq(Item)
         /\ \A i \in 1..Len(items) : PiecesOf(items)[i] = Piece(items[i]) /\ PiecesOf(items)[i] \in Seq(Item)
<1>1. DOMAIN items = 1..Len(items) /\ Len(items) \in Nat
  OBVIOUS
<1>2. \A i \in 1..Len(items) : PiecesOf(items)[i] = Piece(items[i])
  BY <1>1 DEF PiecesOf
<1>3. \A i \in 1..Len(items) : PiecesOf(items)[i] \in Seq(Item)
  <2>1. \A i \in 1..Len(items) : items[i] \in Item
    OBVIOUS
  <2>2. QED
    BY <1>2, <2>1, PieceIs, Zenon
<1>4. PiecesOf(items) = Firsts(PiecesOf(items), Len(items))
  BY <1>1 DEF PiecesOf, Firsts
<1>5. Transcript(items) = FlattenSeq(PiecesOf(items))
  BY Zenon DEF Transcript, PiecesOf, Piece
<1>6. Len(items) \in 0..Len(items)
  BY <1>1
<1>7. Transcript(items) = FlattenSeq(Firsts(PiecesOf(items), Len(items)))
  BY <1>4, <1>5, Zenon
<1>8. Transcript(items) \in Seq(Item)
  BY <1>1, <1>3, <1>6, <1>7, FlattenIsSeq, Zenon
<1>9. QED
  BY <1>2, <1>3, <1>7, <1>8

LEMMA TranscriptCat ==
  ASSUME NEW a \in Seq(Item), NEW b \in Seq(Item)
  PROVE  Transcript(Cat(a, b)) = Cat(Transcript(a), Transcript(b))
<1>1. PICK M \in Nat : M = Len(a)
  OBVIOUS
<1>2. PICK N \in Nat : N = Len(b)
  OBVIOUS
<1>3. PICK c \in Seq(Item) : c = Cat(a, b)
  <2>1. Cat(a, b) \in Seq(Item)
    BY CatIs
  <2>2. QED
    BY <2>1, Zenon
<1>4. Len(c) = M + N /\ \A i \in 1..(M + N) : c[i] = IF i <= M THEN a[i] ELSE b[i - M]
  <2>1. /\ Len(c) = Len(a) + Len(b)
        /\ \A i \in 1..(Len(a) + Len(b)) : c[i] = IF i <= Len(a) THEN a[i] ELSE b[i - Len(a)]
    BY <1>3, CatIs
  <2>2. QED
    BY <1>1, <1>2, <2>1
<1>5. PICK p : p = PiecesOf(a)
  OBVIOUS
<1>6. PICK q : q = PiecesOf(b)
  OBVIOUS
<1>7. PICK r : r = PiecesOf(c)
  OBVIOUS
<1>8. /\ \A i \in 1..M : p[i] = Piece(a[i]) /\ p[i] \in Seq(Item)
      /\ \A i \in 1..N : q[i] = Piece(b[i]) /\ q[i] \in Seq(Item)
      /\ \A i \in 1..(M + N) : r[i] = Piece(c[i])
  BY <1>1, <1>2, <1>4, <1>5, <1>6, <1>7, TranscriptIs, Zenon
<1>9. ASSUME NEW i \in 1..M PROVE r[i] = p[i]
  <2>1. i \in 1..(M + N) /\ c[i] = a[i]
    BY <1>4
  <2>2. QED
    BY <1>8, <2>1, Zenon
<1>10. ASSUME NEW j \in 1..N PROVE r[M + j] = q[j]
  <2>1. PICK i \in 1..(M + N) : i = M + j /\ ~ (i <= M) /\ i - M = j
    OBVIOUS
  <2>2. c[i] = b[j]
    BY <1>4, <2>1, Zenon
  <2>3. QED
    BY <1>8, <2>1, <2>2, Zenon
<1>11. FlattenSeq(Firsts(r, M + N)) = Cat(FlattenSeq(Firsts(p, M)), FlattenSeq(Firsts(q, N)))
  <2>1. AllSeqs(Item, p, M) /\ AllSeqs(Item, q, N)
    BY <1>8, Zenon DEF AllSeqs
  <2>2. Behind(p, M, q, N, r)
    BY <1>9, <1>10, Zenon DEF Behind
  <2>3. QED
    BY <2>1, <2>2, FlattenCat, SMT
<1>12. QED
  BY <1>1, <1>2, <1>3, <1>4, <1>5, <1>6, <1>7, <1>11, TranscriptIs, Zenon

\* Entry after entry.
LEMMA TranscriptOfAll ==
  ASSUME NEW N \in Nat, NEW s, \A i \in 1..N : s[i] \in Seq(Item),
         NEW t, \A i \in 1..N : t[i] = Transcript(s[i])
  PROVE  Transcript(FlattenSeq(Firsts(s, N))) = FlattenSeq(Firsts(t, N))
<1>1. PICK X : X = {n \in 0..N : Transcript(FlattenSeq(Firsts(s, n))) = FlattenSeq(Firsts(t, n))}
  OBVIOUS
<1>2. PICK V : V = Seq(Item)
  OBVIOUS
<1>3. Joinable(V) /\ \A i \in 1..N : s[i] \in V /\ t[i] \in V
  <2>1. \A i \in 1..N : t[i] \in Seq(Item)
    BY TranscriptIs, Zenon
  <2>2. QED
    BY <1>2, <2>1, SeqJoinable, Zenon
<1>4. 0 \in X
  <2>1. Transcript(<<>>) = <<>>
    <3>1. PICK e \in Seq(Item) : e = <<>> /\ Len(e) = 0
      <4>1. <<>> \in Seq(Item) /\ Len(<<>>) = 0
        OBVIOUS
      <4>2. QED
        BY <4>1, Zenon
    <3>2. QED
      BY <3>1, TranscriptIs, FlattenNone, Zenon
  <2>2. 0 \in 0..N
    OBVIOUS
  <2>3. Transcript(FlattenSeq(Firsts(s, 0))) = FlattenSeq(Firsts(t, 0))
    BY <2>1, FlattenNone, Zenon
  <2>4. QED
    BY <1>1, <2>2, <2>3
<1>5. ASSUME NEW n \in 0..(N - 1), n \in X PROVE n + 1 \in X
  <2>1. PICK m \in 1..N : m = n + 1
    OBVIOUS
  <2>2. n \in Nat /\ n \in 0..N /\ m \in 0..N /\ \A i \in 1..(n + 1) : i \in 1..N
    BY <2>1
  <2>3. (\A i \in 1..(n + 1) : s[i] \in V) /\ (\A i \in 1..(n + 1) : t[i] \in V)
    BY <1>3, <2>2, Zenon
  <2>4. FlattenSeq(Firsts(s, n + 1)) = Cat(FlattenSeq(Firsts(s, n)), s[n + 1])
    BY <1>3, <2>2, <2>3, FlattenMore, Zenon
  <2>5. FlattenSeq(Firsts(t, n + 1)) = Cat(FlattenSeq(Firsts(t, n)), t[n + 1])
    BY <1>3, <2>2, <2>3, FlattenMore, Zenon
  <2>6. PICK y \in Seq(Item) : y = FlattenSeq(Firsts(s, n))
    BY <2>2, FlattenIsSeq, Zenon
  <2>7. PICK z \in Seq(Item) : z = s[m]
    BY <1>2, <1>3, Zenon
  <2>8. Transcript(Cat(y, z)) = Cat(Transcript(y), Transcript(z))
    BY TranscriptCat, Zenon
  <2>9. Transcript(y) = FlattenSeq(Firsts(t, n))
    BY <1>1, <1>5, <2>6
  <2>10. t[m] = Transcript(z)
    BY <2>7
  <2>11. Transcript(FlattenSeq(Firsts(s, m))) = FlattenSeq(Firsts(t, m))
    BY <2>1, <2>4, <2>5, <2>6, <2>7, <2>8, <2>9, <2>10, Zenon
  <2>12. QED
    BY <1>1, <2>1, <2>2, <2>11, Zenon
<1>6. 0..N \subseteq X
  BY <1>4, <1>5, UpTo
<1>7. N \in X
  BY <1>6
<1>8. QED
  BY <1>1, <1>7

LEMMA TranscriptOne ==
  ASSUME NEW x \in Item
  PROVE  Transcript(<<x>>) = Piece(x)
<1>1. PICK e \in Seq(Item) : e = <<x>> /\ Len(e) = 1 /\ e[1] = x
  <2>1. <<x>> \in Seq(Item) /\ Len(<<x>>) = 1 /\ <<x>>[1] = x
    OBVIOUS
  <2>2. QED
    BY <2>1, Zenon
<1>2. PICK p : p = PiecesOf(e)
  OBVIOUS
<1>3. PICK i \in 1..Len(e) : i = 1
  BY <1>1
<1>4. p[i] = Piece(e[i]) /\ p[i] \in Seq(Item) /\ Transcript(e) = FlattenSeq(Firsts(p, 1))
  BY <1>1, <1>2, TranscriptIs, Zenon
<1>5. FlattenSeq(Firsts(p, 1)) = p[1]
  BY <1>3, <1>4, FlattenOne, Zenon
<1>6. QED
  BY <1>1, <1>3, <1>4, <1>5, Zenon

LEMMA TranscriptOfCalls ==
  ASSUME NEW calls \in Seq(Calls)
  PROVE  Transcript(CallItems(calls)) = <<>>
<1>1. PICK c \in Seq(Item) : c = CallItems(calls) /\ \A i \in 1..Len(c) : c[i].kind = "call"
  BY CallItemsIs, Zenon
<1>2. PICK p : p = PiecesOf(c)
  OBVIOUS
<1>3. ASSUME NEW i \in 1..Len(c) PROVE p[i] = <<>>
  <2>1. PICK x \in Item : x = c[i]
    OBVIOUS
  <2>2. x.kind = "call" /\ p[i] = Piece(x)
    BY <1>1, <1>2, <2>1, TranscriptIs, Zenon
  <2>3. QED
    BY <2>2, PieceIs, Zenon
<1>4. Len(c) \in Nat
  OBVIOUS
<1>5. FlattenSeq(Firsts(p, Len(c))) = <<>>
  BY <1>3, <1>4, FlattenNothing, Zenon
<1>6. QED
  BY <1>1, <1>2, <1>5, TranscriptIs, Zenon

LEMMA TranscriptOfText ==
  ASSUME NEW who \in Speakers, NEW text \in Texts
  PROVE  Transcript(TextItems(who, text)) = TextItems(who, text)
<1>1. CASE text = <<>>
  <2>1. TextItems(who, text) = <<>>
    BY <1>1, TextItemsIs, Zenon
  <2>2. <<>> \in Seq(Calls) /\ CallItems(<<>>) = <<>>
    <3>1. <<>> \in Seq(Calls)
      OBVIOUS
    <3>2. QED
      BY <3>1, CallItemsIs, Zenon
  <2>3. QED
    BY <2>1, <2>2, TranscriptOfCalls, Zenon
<1>2. CASE text # <<>>
  <2>1. PICK x \in Item : x = realtime_text_item(who, text)
    BY TextItemsIs, Zenon
  <2>2. x.kind = "text"
    BY <2>1 DEF realtime_text_item
  <2>3. TextItems(who, text) = <<x>>
    BY <1>2, <2>1, TextItemsIs, Zenon
  <2>4. QED
    BY <2>2, <2>3, TranscriptOne, PieceIs, Zenon
<1>3. QED
  BY <1>1, <1>2

\* An entry in the transcript, whoever spoke.
LEMMA TranscriptOfEntry ==
  ASSUME NEW e \in Entries
  PROVE  Transcript(Hears(e)) = IF IsSystem(e) THEN <<>> ELSE TextItems(e.who, e.content.text)
<1>1. /\ e.who \in Speakers /\ e.content.text \in Texts /\ e.calls \in Seq(Calls) /\ e.id \in Calls
  BY EntryIs
<1>2. CASE IsSystem(e)
  <2>1. <<>> \in Texts /\ TextItems(e.who, <<>>) = <<>> /\ Hears(e) = <<>>
    <3>1. <<>> \in Texts
      BY DEF Texts
    <3>2. QED
      BY <1>1, <1>2, <3>1, TextItemsIs, Zenon DEF Hears
  <2>2. Transcript(<<>>) = <<>>
    BY <1>1, <2>1, TranscriptOfText, Zenon
  <2>3. QED
    BY <1>2, <2>1, <2>2, Zenon
<1>3. CASE ~ IsSystem(e) /\ e.who = "tool"
  <2>1. PICK x \in Item : x = OutputItem(e.id, e.content.text)
    BY <1>1, OutputIs, Zenon
  <2>2. x.kind = "output" /\ x.text = e.content.text
    BY <2>1 DEF OutputItem
  <2>3. Hears(e) = <<x>>
    BY <1>3, <2>1, HearsIs, Zenon DEF Hears
  <2>4. Transcript(<<x>>) = TextItems("tool", x.text)
    BY <2>2, TranscriptOne, PieceIs, Zenon
  <2>5. QED
    BY <1>3, <2>2, <2>3, <2>4, Zenon
<1>4. CASE ~ IsSystem(e) /\ e.who # "tool"
  <2>1. PICK a \in Seq(Item) : a = TextItems(e.who, e.content.text)
    BY <1>1, TextItemsIs, Zenon
  <2>2. PICK b \in Seq(Item) : b = CallItems(e.calls)
    BY <1>1, CallItemsIs, Zenon
  <2>3. Hears(e) = Cat(a, b)
    BY <1>4, <2>1, <2>2, HearsIs, Zenon DEF Hears
  <2>4. Transcript(a) = a /\ Transcript(b) = <<>>
    BY <1>1, <2>1, <2>2, TranscriptOfText, TranscriptOfCalls, Zenon
  <2>5. Transcript(Cat(a, b)) = a
    <3>1. Cat(a, <<>>) = a
      BY CatLaws, Zenon
    <3>2. Transcript(Cat(a, b)) = Cat(Transcript(a), Transcript(b))
      BY TranscriptCat, Zenon
    <3>3. QED
      BY <2>4, <3>1, <3>2, Zenon
  <2>6. QED
    BY <1>4, <2>1, <2>3, <2>5, Zenon
<1>5. QED
  BY <1>2, <1>3, <1>4

LEMMA HeardIs ==
  ASSUME NEW h \in Seq(Entries)
  PROVE  /\ Heard(h) = FlattenSeq(Firsts(HearsOf(h), Len(h))) /\ Heard(h) \in Seq(Item)
         /\ HearsOf(h) = Firsts(HearsOf(h), Len(h))
         /\ \A i \in 1..Len(h) : HearsOf(h)[i] = Hears(h[i]) /\ HearsOf(h)[i] \in Seq(Item)
<1>1. DOMAIN h = 1..Len(h) /\ Len(h) \in Nat /\ Len(h) \in 0..Len(h)
  OBVIOUS
<1>2. \A i \in 1..Len(h) : HearsOf(h)[i] = Hears(h[i])
  BY <1>1 DEF HearsOf
<1>3. \A i \in 1..Len(h) : HearsOf(h)[i] \in Seq(Item)
  <2>1. \A i \in 1..Len(h) : h[i] \in Entries
    OBVIOUS
  <2>2. QED
    BY <1>2, <2>1, HearsIs, Zenon
<1>4. HearsOf(h) = Firsts(HearsOf(h), Len(h))
  BY <1>1 DEF HearsOf, Firsts
<1>5. Heard(h) = FlattenSeq(Firsts(HearsOf(h), Len(h)))
  BY <1>4, Zenon DEF Heard
<1>6. Heard(h) \in Seq(Item)
  BY <1>1, <1>3, <1>5, FlattenIsSeq, Zenon
<1>7. QED
  BY <1>2, <1>3, <1>4, <1>5, <1>6

\* What is appended to the conversation is heard behind the rest.
LEMMA HeardCat ==
  ASSUME NEW h \in Seq(Entries), NEW k \in Seq(Entries)
  PROVE  Heard(Cat(h, k)) = Cat(Heard(h), Heard(k))
<1>1. PICK M \in Nat : M = Len(h)
  OBVIOUS
<1>2. PICK N \in Nat : N = Len(k)
  OBVIOUS
<1>3. PICK c \in Seq(Entries) : c = Cat(h, k)
  <2>1. Cat(h, k) \in Seq(Entries)
    BY CatIs
  <2>2. QED
    BY <2>1, Zenon
<1>4. Len(c) = M + N /\ \A i \in 1..(M + N) : c[i] = IF i <= M THEN h[i] ELSE k[i - M]
  <2>1. /\ Len(c) = Len(h) + Len(k)
        /\ \A i \in 1..(Len(h) + Len(k)) : c[i] = IF i <= Len(h) THEN h[i] ELSE k[i - Len(h)]
    BY <1>3, CatIs
  <2>2. QED
    BY <1>1, <1>2, <2>1
<1>5. PICK p : p = HearsOf(h)
  OBVIOUS
<1>6. PICK q : q = HearsOf(k)
  OBVIOUS
<1>7. PICK r : r = HearsOf(c)
  OBVIOUS
<1>8. /\ \A i \in 1..M : p[i] = Hears(h[i]) /\ p[i] \in Seq(Item)
      /\ \A i \in 1..N : q[i] = Hears(k[i]) /\ q[i] \in Seq(Item)
      /\ \A i \in 1..(M + N) : r[i] = Hears(c[i])
  BY <1>1, <1>2, <1>4, <1>5, <1>6, <1>7, HeardIs, Zenon
<1>9. ASSUME NEW i \in 1..M PROVE r[i] = p[i]
  <2>1. i \in 1..(M + N) /\ c[i] = h[i]
    BY <1>4
  <2>2. QED
    BY <1>8, <2>1, Zenon
<1>10. ASSUME NEW j \in 1..N PROVE r[M + j] = q[j]
  <2>1. PICK i \in 1..(M + N) : i = M + j /\ ~ (i <= M) /\ i - M = j
    OBVIOUS
  <2>2. c[i] = k[j]
    BY <1>4, <2>1, Zenon
  <2>3. QED
    BY <1>8, <2>1, <2>2, Zenon
<1>11. FlattenSeq(Firsts(r, M + N)) = Cat(FlattenSeq(Firsts(p, M)), FlattenSeq(Firsts(q, N)))
  <2>1. AllSeqs(Item, p, M) /\ AllSeqs(Item, q, N)
    BY <1>8, Zenon DEF AllSeqs
  <2>2. Behind(p, M, q, N, r)
    BY <1>9, <1>10, Zenon DEF Behind
  <2>3. QED
    BY <2>1, <2>2, FlattenCat, SMT
<1>12. QED
  BY <1>1, <1>2, <1>3, <1>4, <1>5, <1>6, <1>7, <1>11, HeardIs, Zenon

LEMMA HeardOne ==
  ASSUME NEW e \in Entries
  PROVE  Heard(<<e>>) = Hears(e)
<1>1. PICK h \in Seq(Entries) : h = <<e>> /\ Len(h) = 1 /\ h[1] = e
  <2>1. <<e>> \in Seq(Entries) /\ Len(<<e>>) = 1 /\ <<e>>[1] = e
    OBVIOUS
  <2>2. QED
    BY <2>1, Zenon
<1>2. PICK i \in 1..Len(h) : i = 1
  BY <1>1
<1>3. PICK s : s = HearsOf(h)
  OBVIOUS
<1>4. s[i] = Hears(h[i]) /\ s[i] \in Seq(Item) /\ Heard(h) = FlattenSeq(Firsts(s, 1))
  BY <1>1, <1>3, HeardIs, Zenon
<1>5. FlattenSeq(Firsts(s, 1)) = s[1]
  BY <1>2, <1>4, FlattenOne, Zenon
<1>6. QED
  BY <1>1, <1>2, <1>4, <1>5, Zenon

LEMMA HeardMore ==
  ASSUME NEW h \in Seq(Entries), NEW e \in Entries
  PROVE  /\ Append(h, e) \in Seq(Entries)
         /\ Heard(Append(h, e)) = Cat(Heard(h), Hears(e))
         /\ \A i \in 1..Len(Append(h, e)) : Append(h, e)[i] = e \/ \E j \in 1..Len(h) : Append(h, e)[i] = h[j]
<1>1. PICK k \in Seq(Entries) : k = <<e>>
  <2>1. <<e>> \in Seq(Entries)
    OBVIOUS
  <2>2. QED
    BY <2>1, Zenon
<1>2. Append(h, e) = Cat(h, k)
  BY <1>1 DEF Cat
<1>3. Heard(Append(h, e)) = Cat(Heard(h), Hears(e))
  BY <1>1, <1>2, HeardCat, HeardOne, Zenon
<1>4. QED
  BY <1>3

-----------------------------------------------------------------------------
(* What the endpoints make of a conversation they accept *)

\* With tools, entry by entry.
LEMMA ItemsAre ==
  ASSUME NEW h \in Seq(Entries), NEW a \in {"chat", "responses"},
         a = "chat" => ~ ChatFails(h),
         a = "responses" => \A i \in 1..Len(h) : ~ IsSystem(h[i])
  PROVE  ItemsOf(a, h) = Heard(h)
<1>1. DOMAIN h = 1..Len(h) /\ \A i \in 1..Len(h) : h[i] \in Entries
  OBVIOUS
<1>2. ASSUME NEW i \in 1..Len(h)
      PROVE  Hears(h[i]) = IF a = "chat" THEN ChatItems(h[i]) ELSE ResponsesItems(h[i])
  <2>1. CASE a = "chat"
    <3>1. h[i].who \in Roles
      BY <1>1, <2>1, Zenon DEF ChatFails
    <3>2. QED
      BY <1>1, <2>1, <3>1, ChatIs, Zenon
  <2>2. CASE a # "chat"
    <3>1. ~ IsSystem(h[i])
      BY <2>2
    <3>2. QED
      BY <2>2, <3>1, Zenon DEF Hears
  <2>3. QED
    BY <2>1, <2>2
<1>3. HearsOf(h) = [i \in DOMAIN h |-> IF a = "chat" THEN ChatItems(h[i]) ELSE ResponsesItems(h[i])]
  BY <1>1, <1>2 DEF HearsOf
<1>4. QED
  BY <1>3, Zenon DEF Heard, ItemsOf

\* Without tools, the transcript of what is heard.
LEMMA PromptIs ==
  ASSUME NEW h \in Seq(Entries), NEW a \in {"chat", "responses"},
         a = "responses" => \A i \in 1..Len(h) : ~ IsSystem(h[i])
  PROVE  PromptOf(a, h) = Transcript(Heard(h))
<1>1. PICK N \in Nat : N = Len(h) /\ DOMAIN h = 1..N /\ \A i \in 1..N : h[i] \in Entries
  OBVIOUS
<1>2. PICK s : s = HearsOf(h)
  OBVIOUS
<1>3. PICK t : t = [i \in 1..N |->
                      IF a = "chat" /\ IsSystem(h[i]) THEN <<>> ELSE TextItems(h[i].who, h[i].content.text)]
  OBVIOUS
<1>4. \A i \in 1..N : s[i] = Hears(h[i]) /\ s[i] \in Seq(Item)
  BY <1>1, <1>2, HeardIs, Zenon
<1>5. ASSUME NEW i \in 1..N PROVE t[i] = Transcript(s[i])
  <2>1. t[i] = IF a = "chat" /\ IsSystem(h[i]) THEN <<>> ELSE TextItems(h[i].who, h[i].content.text)
    BY <1>3
  <2>2. Transcript(s[i]) = IF IsSystem(h[i]) THEN <<>> ELSE TextItems(h[i].who, h[i].content.text)
    BY <1>1, <1>4, TranscriptOfEntry, Zenon
  <2>3. IsSystem(h[i]) => a = "chat"
    BY <1>1
  <2>4. CASE IsSystem(h[i])
    BY <2>1, <2>2, <2>3, <2>4, Zenon
  <2>5. CASE ~ IsSystem(h[i])
    BY <2>1, <2>2, <2>5, Zenon
  <2>6. QED
    BY <2>4, <2>5
<1>6. Transcript(FlattenSeq(Firsts(s, N))) = FlattenSeq(Firsts(t, N))
  BY <1>4, <1>5, TranscriptOfAll, SMT
<1>7. Firsts(t, N) = t
  BY <1>3 DEF Firsts
<1>8. PromptOf(a, h) = FlattenSeq(t)
  BY <1>1, <1>3, Zenon DEF PromptOf
<1>9. Heard(h) = FlattenSeq(Firsts(s, N))
  BY <1>1, <1>2, HeardIs, Zenon
<1>10. QED
  BY <1>6, <1>7, <1>8, <1>9, Zenon

-----------------------------------------------------------------------------
(* The invariant: what was said is what the model hears of the client's    *)
(* conversation, whoever sends it and however much of it was streamed.     *)

GatewayIInv ==
  /\ api \in {"chat", "responses"} /\ turns \in Nat /\ history \in Seq(Entries) /\ said = Heard(history)
  /\ api = "responses" => \A i \in 1..Len(history) : ~ IsSystem(history[i])
  /\ reply.calls \in Seq(Calls) /\ (upstream # {} => reply.calls = <<>>)
  /\ ModelSeesItsConversation

LEMMA NothingHeard == <<>> \in Seq(Entries) /\ Heard(<<>>) = <<>>
<1>1. PICK h \in Seq(Entries) : h = <<>> /\ Len(h) = 0
  <2>1. <<>> \in Seq(Entries) /\ Len(<<>>) = 0
    OBVIOUS
  <2>2. QED
    BY <2>1, Zenon
<1>2. QED
  BY <1>1, HeardIs, FlattenNone, Zenon

LEMMA EntryOf ==
  ASSUME NEW who \in Speakers, NEW text \in Texts, NEW image \in BOOLEAN, NEW calls \in Seq(Calls),
         NEW id \in Calls, who # "assistant" => calls = <<>>
  PROVE  /\ Entry(who, text, image, calls, id) \in Entries
         /\ Entry(who, text, image, calls, id).who = who
         /\ Entry(who, text, image, calls, id).content.text = text
         /\ Entry(who, text, image, calls, id).calls = calls
         /\ Entry(who, text, image, calls, id).id = id
BY DEF Entry, Content, Entries

LEMMA SaidIs ==
  ASSUME NEW who \in {"system", "user", "function"}, NEW text \in Texts
  PROVE  /\ Said(who, text) \in Entries /\ Said(who, text).who = who
         /\ ResponsesItems(Said(who, text)) = TextItems(who, text)
<1>1. who \in Speakers /\ who # "assistant" /\ who # "tool"
  BY DEF Speakers
<1>2. <<>> \in Seq(Calls) /\ <<>> \in Calls /\ FALSE \in BOOLEAN
  BY DEF Calls
<1>3. PICK none \in Seq(Calls) : none = <<>> /\ none \in Calls
  BY <1>2, Zenon
<1>4. PICK image \in BOOLEAN : ~ image
  BY <1>2, Zenon
<1>a. PICK e : e = Entry(who, text, image, none, none)
  OBVIOUS
<1>5. e \in Entries /\ e.who = who /\ e.content.text = text /\ e.calls = none
  BY <1>1, <1>3, <1>a DEF Entry, Content, Entries
<1>6. ResponsesItems(e) = Cat(TextItems(who, text), CallItems(none))
  BY <1>1, <1>5, HearsIs, Zenon
<1>7. CallItems(none) = <<>> /\ TextItems(who, text) \in Seq(Item)
  BY <1>1, <1>2, <1>3, CallItemsIs, TextItemsIs, Zenon
<1>8. ResponsesItems(e) = TextItems(who, text)
  BY <1>6, <1>7, CatLaws, Zenon
<1>9. e = Said(who, text)
  <2>1. image = FALSE
    BY <1>4
  <2>2. QED
    BY <1>3, <1>a, <2>1, Zenon DEF Said
<1>10. QED
  BY <1>5, <1>8, <1>9

LEMMA WordsIs ==
  ASSUME turns \in Nat, NEW who \in {"s", "u", "m", "o"}
  PROVE  Words(who) \in Texts /\ <<>> \in Texts /\ <<>> \in Calls /\ <<>> \in Seq(Calls)
<1>1. PICK w \in {"s", "u", "m", "o"} \X Nat : w = <<who, turns>>
  OBVIOUS
<1>2. <<w>> \in Seq({"s", "u", "m", "o"} \X Nat)
  OBVIOUS
<1>3. Words(who) = <<w>>
  BY <1>1, Zenon DEF Words
<1>4. <<>> \in Texts /\ <<>> \in Calls /\ <<>> \in Seq(Calls)
  BY DEF Texts, Calls
<1>5. QED
  BY <1>2, <1>3, <1>4, Zenon DEF Texts

LEMMA OutputEntry ==
  ASSUME NEW call \in Calls, NEW text \in Texts
  PROVE  /\ Output(call, text) \in Entries /\ ~ IsSystem(Output(call, text)) /\ Output(call, text).id = call
         /\ Hears(Output(call, text)) = <<OutputItem(call, text)>>
<1>1. PICK e : e = Output(call, text)
  OBVIOUS
<1>2. e \in Entries /\ e.who = "tool" /\ e.id = call /\ e.content.text = text
  <2>1. <<>> \in Seq(Calls)
    OBVIOUS
  <2>2. QED
    BY <1>1, <2>1 DEF Output, Entry, Content, Entries, Speakers
<1>3. ~ IsSystem(e)
  BY <1>2 DEF IsSystem
<1>4. Hears(e) = <<OutputItem(call, text)>>
  BY <1>2, <1>3, HearsIs, Zenon DEF Hears
<1>5. QED
  BY <1>1, <1>2, <1>3, <1>4

LEMMA TurnCallsAre ==
  ASSUME turns \in Nat, NEW calls \in TurnCalls
  PROVE  calls \in Seq(Calls)
<1>1. PICK n \in 0..MaxCalls : calls = [i \in 1..n |-> <<turns, i>>]
  BY DEF TurnCalls
<1>2. n \in Nat
  BY GatewayAssumption
<1>3. ASSUME NEW i \in 1..n PROVE <<turns, i>> \in Calls
  <2>1. i \in Nat
    BY <1>2
  <2>2. QED
    BY <2>1 DEF Calls
<1>4. calls \in [1..n -> Calls]
  BY <1>1, <1>3
<1>5. QED
  BY <1>2, <1>4

LEMMA GatewayInitIInv == GatewayInit => GatewayIInv
<1>1. SUFFICES ASSUME GatewayInit PROVE GatewayIInv
  OBVIOUS
<1>2. api \in {"chat", "responses"} /\ turns = 0 /\ upstream = {} /\ reply = NoTurn /\ said = <<>>
  BY <1>1 DEF GatewayInit
<1>3. reply.calls = <<>>
  BY <1>2 DEF NoTurn, Turn
<1>4. <<>> \in Seq(Calls) /\ ModelSeesItsConversation
  BY <1>2 DEF ModelSeesItsConversation
<1>5. PICK system \in {<<>>, << <<"s", 0>> >>} :
        history = IF system # <<>> /\ api = "chat" THEN <<Said("system", system)>> ELSE <<>>
  BY <1>1, Zenon DEF GatewayInit
<1>6. CASE history = <<>>
  <2>1. Len(history) = 0
    BY <1>6
  <2>2. QED
    BY <1>2, <1>3, <1>4, <1>6, <2>1, NothingHeard DEF GatewayIInv
<1>7. CASE history # <<>>
  <2>1. api = "chat" /\ history = <<Said("system", system)>> /\ system = << <<"s", 0>> >>
    BY <1>5, <1>7
  <2>2. << <<"s", 0>> >> \in Texts
    <3>1. PICK w \in {"s", "u", "m", "o"} \X Nat : w = <<"s", 0>>
      OBVIOUS
    <3>2. <<w>> \in Seq({"s", "u", "m", "o"} \X Nat)
      OBVIOUS
    <3>3. QED
      BY <3>1, <3>2, Zenon DEF Texts
  <2>3. PICK e \in Entries : e = Said("system", system) /\ e.who = "system"
    <3>1. Said("system", system) \in Entries /\ Said("system", system).who = "system"
      BY <2>1, <2>2, SaidIs, Zenon DEF Speakers
    <3>2. QED
      BY <3>1, Zenon
  <2>4. <<e>> \in Seq(Entries)
    OBVIOUS
  <2>5. Heard(<<e>>) = <<>>
    <3>1. IsSystem(e)
      BY <2>3 DEF IsSystem
    <3>2. QED
      BY <3>1, HeardOne, Zenon DEF Hears
  <2>6. history \in Seq(Entries) /\ said = Heard(history)
    BY <1>2, <2>1, <2>3, <2>4, <2>5, Zenon
  <2>7. turns \in Nat /\ api # "responses"
    BY <1>2, <2>1
  <2>8. QED
    BY <1>2, <1>3, <1>4, <2>6, <2>7, Zenon DEF GatewayIInv
<1>8. QED
  BY <1>6, <1>7

\* An entry that is no system prompt, behind the conversation.
LEMMA Grows ==
  ASSUME GatewayIInv, NEW e \in Entries, ~ IsSystem(e), history' = Append(history, e),
         said' = Cat(said, ResponsesItems(e)), api' = api, turns' \in Nat, upstream' = {},
         reply'.calls \in Seq(Calls)
  PROVE  GatewayIInv'
<1>1. api \in {"chat", "responses"} /\ history \in Seq(Entries) /\ said = Heard(history)
  BY DEF GatewayIInv
<1>2. PICK h : h = history'
  OBVIOUS
<1>3. h = Append(history, e)
  BY <1>2
<1>4. h \in Seq(Entries) /\ Heard(h) = Cat(Heard(history), Hears(e))
  BY <1>1, <1>3, HeardMore, Zenon
<1>5. said' = Heard(h)
  BY <1>1, <1>4, Zenon DEF Hears
<1>6. ASSUME api = "responses", NEW i \in 1..Len(h) PROVE ~ IsSystem(h[i])
  <2>1. h[i] = e \/ \E j \in 1..Len(history) : h[i] = history[j]
    BY <1>1, <1>3, HeardMore, Zenon
  <2>2. \A j \in 1..Len(history) : ~ IsSystem(history[j])
    BY <1>6 DEF GatewayIInv
  <2>3. QED
    BY <2>1, <2>2, Zenon
<1>7. ModelSeesItsConversation'
  BY DEF ModelSeesItsConversation
<1>8. QED
  BY <1>1, <1>2, <1>4, <1>5, <1>6, <1>7, Zenon DEF GatewayIInv

\* The user speaks, or is refused what it says.
LEMMA SpeaksIInv == GatewayIInv /\ Speaks => GatewayIInv'
<1>1. SUFFICES ASSUME GatewayIInv, Speaks PROVE GatewayIInv'
  OBVIOUS
<1>2. PICK e \in {Said("user", Words("u")), Said("user", <<>>), Entry("user", Words("u"), TRUE, <<>>, <<>>),
                  Said("function", Words("u")), Output(<<>>, Words("u"))} :
         history' = Append(history, e) /\ said' = said \o ResponsesItems(e)
  BY <1>1, Zenon DEF Speaks
<1>3. turns \in Nat
  BY <1>1 DEF GatewayIInv
<1>4. upstream = {} /\ reply' = NoTurn /\ api' = api /\ turns' = turns /\ upstream' = upstream
  BY <1>1 DEF Speaks, Idle
<1>5. Words("u") \in Texts /\ <<>> \in Texts /\ <<>> \in Calls /\ <<>> \in Seq(Calls)
  BY <1>3, WordsIs
<1>6. e \in Entries /\ ~ IsSystem(e)
  <2>1. CASE e = Said("user", Words("u")) \/ e = Said("user", <<>>)
    BY <1>5, <2>1, SaidIs DEF IsSystem
  <2>2. CASE e = Said("function", Words("u"))
    BY <1>5, <2>2, SaidIs DEF IsSystem
  <2>3. CASE e = Entry("user", Words("u"), TRUE, <<>>, <<>>)
    BY <1>5, <2>3 DEF Entry, Content, Entries, Speakers, IsSystem
  <2>4. CASE e = Output(<<>>, Words("u"))
    BY <1>5, <2>4, OutputEntry, Zenon
  <2>5. QED
    BY <1>2, <2>1, <2>2, <2>3, <2>4, Zenon
<1>7. said' = Cat(said, ResponsesItems(e))
  BY <1>2, Zenon DEF Cat
<1>8. reply'.calls \in Seq(Calls) /\ turns' \in Nat /\ upstream' = {}
  BY <1>3, <1>4, <1>5 DEF NoTurn, Turn
<1>9. QED
  BY <1>1, <1>2, <1>4, <1>6, <1>7, <1>8, Grows, Zenon

\* What an endpoint passes on is what was said.
LEMMA RequestIInv ==
  ASSUME NEW model, NEW effort, NEW tools, GatewayIInv, Request(model, effort, tools)
  PROVE  GatewayIInv'
<1>1. /\ api \in {"chat", "responses"} /\ history \in Seq(Entries) /\ said = Heard(history)
      /\ api = "responses" => \A i \in 1..Len(history) : ~ IsSystem(history[i])
      /\ reply.calls = <<>> /\ upstream = {}
  BY DEF GatewayIInv, Request, Idle
<1>2. api' = api /\ history' = history /\ said' = said /\ turns' = turns
  BY DEF Request
<1>3. reply'.calls = <<>>
  BY DEF Request, NoTurn, Turn
<1>4. ModelSeesItsConversation'
  <2>1. CASE RequestRefused(model, effort, tools)
    <3>1. upstream' = {}
      BY <1>1, <2>1, Zenon DEF Request
    <3>2. QED
      BY <3>1 DEF ModelSeesItsConversation
  <2>2. CASE ~ RequestRefused(model, effort, tools)
    <3>1. PICK items : items = IF tools = "none" THEN PromptOf(api, history) ELSE ItemsOf(api, history)
      OBVIOUS
    <3>2. PICK ask : /\ ask = [tools |-> tools # "none", system |-> SystemText(history), items |-> items]
                     /\ upstream' = {ask}
      BY <2>2, <3>1, Zenon DEF Request
    <3>3. ask.items = items /\ (ask.tools <=> tools # "none")
      BY <3>2
    <3>6. items = IF tools = "none" THEN Transcript(said) ELSE said
      <4>1. CASE tools = "none"
        <5>1. PromptOf(api, history) = Transcript(Heard(history))
          BY <1>1, PromptIs, Zenon
        <5>2. QED
          BY <1>1, <3>1, <4>1, <5>1, Zenon
      <4>2. CASE tools # "none"
        <5>1. api = "chat" => ~ ChatFails(history)
          BY <2>2, <4>2, Zenon DEF RequestRefused
        <5>2. ItemsOf(api, history) = Heard(history)
          BY <1>1, <5>1, ItemsAre, Zenon
        <5>3. QED
          BY <1>1, <3>1, <4>2, <5>2, Zenon
      <4>3. QED
        BY <4>1, <4>2
    <3>7. ask.items = IF ask.tools THEN said ELSE Transcript(said)
      BY <3>3, <3>6
    <3>8. Transcript(said)' = Transcript(said)
      BY <1>2
    <3>9. QED
      BY <1>2, <3>2, <3>7, <3>8, Zenon DEF ModelSeesItsConversation
  <2>3. QED
    BY <2>1, <2>2
<1>5. <<>> \in Seq(Calls)
  OBVIOUS
<1>6. Heard(history)' = Heard(history)
  BY <1>2, Zenon DEF Heard, HearsOf, Hears
<1>7. QED
  BY <1>1, <1>2, <1>3, <1>4, <1>5, <1>6, Zenon DEF GatewayIInv

\* The model's turn, as the client is given it.
LEMMA AnsweredIInv ==
  ASSUME NEW text \in TurnTexts, NEW calls \in TurnCalls, NEW stream \in BOOLEAN,
         GatewayIInv, Answered(text, calls, stream)
  PROVE  GatewayIInv'
<1>1. PICK shown : shown = Answer(Turn(text, calls), stream)
  OBVIOUS
<1>2. /\ upstream' = {} /\ turns' = turns + 1 /\ reply' = shown /\ api' = api
      /\ history' = Append(history, Entry("assistant", shown.text, FALSE, shown.calls, <<>>))
      /\ said' = said \o (IF stream /\ calls # <<>> THEN <<>> ELSE TextItems("assistant", text))
                      \o CallItems(calls)
  BY <1>1, Zenon DEF Answered
<1>3. turns \in Nat /\ history \in Seq(Entries) /\ said = Heard(history)
  BY DEF GatewayIInv
<1>4. text \in Texts /\ <<>> \in Texts /\ calls \in Seq(Calls) /\ <<>> \in Calls
  <2>1. Words("m") \in Texts /\ <<>> \in Texts /\ <<>> \in Calls
    BY <1>3, WordsIs
  <2>2. calls \in Seq(Calls)
    BY <1>3, TurnCallsAre
  <2>3. text = <<>> \/ text = Words("m")
    BY DEF TurnTexts
  <2>4. QED
    BY <2>1, <2>2, <2>3, Zenon
<1>5. /\ shown.text = IF stream /\ calls # <<>> THEN <<>> ELSE text
      /\ shown.calls = calls
  BY <1>1 DEF Answer, Stream, NonStream, TextStream, Turn
<1>6. PICK e : e = Entry("assistant", shown.text, FALSE, shown.calls, <<>>)
  OBVIOUS
<1>7. e \in Entries /\ e.who = "assistant" /\ e.content.text = shown.text /\ e.calls = calls
  <2>1. shown.text \in Texts /\ shown.calls \in Seq(Calls)
    BY <1>4, <1>5
  <2>2. QED
    BY <1>4, <1>5, <1>6, <2>1 DEF Entry, Content, Entries, Speakers
<1>8. ~ IsSystem(e) /\ e.who # "tool"
  BY <1>7 DEF IsSystem
<1>9. PICK a \in Seq(Item) : a = IF stream /\ calls # <<>> THEN <<>> ELSE TextItems("assistant", text)
  <2>1. TextItems("assistant", text) \in Seq(Item) /\ <<>> \in Seq(Item)
    <3>1. "assistant" \in Speakers /\ <<>> \in Seq(Item)
      BY DEF Speakers
    <3>2. QED
      BY <1>4, <3>1, TextItemsIs, Zenon
  <2>2. QED
    BY <2>1, Zenon
<1>10. a = TextItems("assistant", shown.text)
  <2>1. "assistant" \in Speakers
    BY DEF Speakers
  <2>2. CASE stream /\ calls # <<>>
    <3>1. shown.text = <<>>
      BY <1>5, <2>2, Zenon
    <3>2. TextItems("assistant", <<>>) = <<>>
      BY <1>4, <2>1, TextItemsIs, Zenon
    <3>3. QED
      BY <1>9, <2>2, <3>1, <3>2, Zenon
  <2>3. CASE ~ (stream /\ calls # <<>>)
    BY <1>5, <1>9, <2>3, Zenon
  <2>4. QED
    BY <2>2, <2>3
<1>11. PICK b \in Seq(Item) : b = CallItems(calls)
  BY <1>4, CallItemsIs, Zenon
<1>12. ResponsesItems(e) = Cat(a, b)
  BY <1>7, <1>8, <1>10, <1>11, HearsIs, Zenon
<1>13. PICK c \in Seq(Item) : c = said
  BY <1>3, HeardIs, Zenon
<1>14. Cat(Cat(c, a), b) = Cat(c, Cat(a, b))
  BY CatLaws, Zenon
<1>15. said' = Cat(Cat(c, a), b)
  BY <1>2, <1>9, <1>11, <1>13, Zenon DEF Cat
<1>16. said' = Cat(said, ResponsesItems(e))
  BY <1>12, <1>13, <1>14, <1>15, Zenon
<1>17. reply'.calls \in Seq(Calls) /\ turns' \in Nat
  BY <1>2, <1>3, <1>4, <1>5
<1>18. history' = Append(history, e)
  BY <1>2, <1>6
<1>19. QED
  BY <1>2, <1>7, <1>8, <1>16, <1>17, <1>18, Grows, Zenon

\* The results of the calls, in their order, behind the turn that made them.
LEMMA RunsCallsIInv == GatewayIInv /\ RunsCalls => GatewayIInv'
<1>1. SUFFICES ASSUME GatewayIInv, RunsCalls PROVE GatewayIInv'
  OBVIOUS
<1>2. PICK calls \in Seq(Calls) : calls = reply.calls /\ calls # <<>>
  <2>1. reply.calls \in Seq(Calls) /\ reply.calls # <<>>
    BY <1>1 DEF GatewayIInv, RunsCalls
  <2>2. QED
    BY <2>1, Zenon
<1>3. PICK N \in Nat : N = Len(calls) /\ DOMAIN calls = 1..N /\ \A i \in 1..N : calls[i] \in Calls
  OBVIOUS
<1>4. PICK text \in Texts : text = Words("o")
  <2>1. turns \in Nat
    BY <1>1 DEF GatewayIInv
  <2>2. Words("o") \in Texts
    BY <2>1, WordsIs
  <2>3. QED
    BY <2>2, Zenon
<1>5. PICK outputs : outputs = [i \in 1..N |-> Output(calls[i], text)]
  OBVIOUS
<1>6. /\ history' = history \o outputs
      /\ said' = said \o [i \in DOMAIN outputs |-> OutputItem(outputs[i].id, text)]
      /\ reply' = NoTurn /\ api' = api /\ turns' = turns /\ upstream' = upstream
  BY <1>1, <1>2, <1>3, <1>4, <1>5, Zenon DEF RunsCalls
<1>7. \A i \in 1..N : /\ outputs[i] \in Entries /\ ~ IsSystem(outputs[i])
                      /\ outputs[i].id = calls[i] /\ Hears(outputs[i]) = <<OutputItem(calls[i], text)>>
  <2>1. ASSUME NEW i \in 1..N
        PROVE  /\ outputs[i] \in Entries /\ ~ IsSystem(outputs[i])
               /\ outputs[i].id = calls[i] /\ Hears(outputs[i]) = <<OutputItem(calls[i], text)>>
    <3>1. PICK call \in Calls : call = calls[i]
      BY <1>3, Zenon
    <3>2. outputs[i] = Output(call, text)
      BY <1>5, <3>1
    <3>3. QED
      BY <3>1, <3>2, OutputEntry, Zenon
  <2>2. QED
    BY <2>1, Zenon
<1>8. outputs \in Seq(Entries) /\ Len(outputs) = N /\ DOMAIN outputs = 1..N
  <2>1. outputs \in [1..N -> Entries]
    BY <1>5, <1>7
  <2>2. QED
    BY <2>1
<1>9. PICK items : items = [i \in 1..N |-> OutputItem(calls[i], text)]
  OBVIOUS
<1>10. items \in [1..N -> Item] /\ \A i \in 1..N : items[i] = OutputItem(calls[i], text)
  <2>1. \A i \in 1..N : OutputItem(calls[i], text) \in Item
    BY <1>3, OutputIs, Zenon
  <2>2. QED
    BY <1>9, <2>1
<1>11. Heard(outputs) = items
  <2>1. PICK s : s = HearsOf(outputs)
    OBVIOUS
  <2>2. \A i \in 1..N : s[i] = <<items[i]>>
    <3>1. \A i \in 1..N : s[i] = Hears(outputs[i])
      BY <1>8, <2>1, HeardIs, Zenon
    <3>2. QED
      BY <1>7, <1>10, <3>1, Zenon
  <2>3. FlattenSeq(Firsts(s, N)) = items
    BY <1>10, <2>2, FlattenSingles, Zenon
  <2>4. QED
    BY <1>8, <2>1, <2>3, HeardIs, Zenon
<1>12. PICK h : h = Cat(history, outputs)
  OBVIOUS
<1>13. history \in Seq(Entries) /\ said = Heard(history) /\ api \in {"chat", "responses"}
  BY <1>1 DEF GatewayIInv
<1>14. h = history' /\ h \in Seq(Entries)
  <2>1. h = history'
    BY <1>6, <1>12, Zenon DEF Cat
  <2>2. QED
    BY <1>8, <1>12, <1>13, <2>1, CatIs, Zenon
<1>15. said' = Heard(h)
  <2>1. Heard(h) = Cat(Heard(history), Heard(outputs))
    BY <1>8, <1>12, <1>13, HeardCat, Zenon
  <2>2. items = [i \in DOMAIN outputs |-> OutputItem(outputs[i].id, text)]
    BY <1>7, <1>8, <1>9
  <2>3. QED
    BY <1>6, <1>11, <1>13, <2>1, <2>2, Zenon DEF Cat
<1>16. ASSUME api = "responses", NEW i \in 1..Len(h) PROVE ~ IsSystem(h[i])
  <2>1. /\ Len(h) = Len(history) + Len(outputs)
        /\ \A j \in 1..(Len(history) + Len(outputs)) :
             h[j] = IF j <= Len(history) THEN history[j] ELSE outputs[j - Len(history)]
    BY <1>8, <1>12, <1>13, CatIs
  <2>2. \A j \in 1..Len(history) : ~ IsSystem(history[j])
    BY <1>1, <1>16 DEF GatewayIInv
  <2>3. PICK M \in Nat : M = Len(history)
    BY <1>13
  <2>4. CASE i <= M
    <3>1. i \in 1..M /\ i \in 1..(M + N)
      BY <1>8, <2>1, <2>3, <2>4
    <3>2. h[i] = history[i]
      BY <1>8, <2>1, <2>3, <2>4, <3>1, Zenon
    <3>3. QED
      BY <2>2, <2>3, <3>1, <3>2, Zenon
  <2>5. CASE ~ (i <= M)
    <3>1. PICK j \in 1..N : j = i - M /\ i \in 1..(M + N)
      <4>1. i - M \in 1..N /\ i \in 1..(M + N)
        BY <1>8, <2>1, <2>3, <2>5
      <4>2. QED
        BY <4>1, Zenon
    <3>2. h[i] = outputs[j]
      BY <1>8, <2>1, <2>3, <2>5, <3>1, Zenon
    <3>3. QED
      BY <1>7, <3>2, Zenon
  <2>6. QED
    BY <2>4, <2>5
<1>17. upstream = {}
  BY <1>1, <1>2 DEF GatewayIInv
<1>18. upstream' = {} /\ turns' \in Nat /\ reply'.calls = <<>> /\ <<>> \in Seq(Calls)
  BY <1>1, <1>6, <1>17 DEF GatewayIInv, NoTurn, Turn
<1>19. ModelSeesItsConversation'
  BY <1>18 DEF ModelSeesItsConversation
<1>20. QED
  BY <1>6, <1>13, <1>14, <1>15, <1>16, <1>18, <1>19, Zenon DEF GatewayIInv

\* The conversation stays as it is.
LEMMA AsItWas ==
  ASSUME GatewayIInv, history' = history, said' = said, api' = api, turns' = turns,
         upstream' \in {{}, upstream}, reply'.calls = <<>> \/ reply' = reply
  PROVE  GatewayIInv'
<1>1. Heard(history)' = Heard(history)
  BY Zenon DEF Heard, HearsOf, Hears
<1>2. Transcript(said)' = Transcript(said)
  OBVIOUS
<1>3. ModelSeesItsConversation'
  <2>1. ModelSeesItsConversation
    BY DEF GatewayIInv
  <2>2. CASE upstream' = {}
    BY <2>2 DEF ModelSeesItsConversation
  <2>3. CASE upstream' = upstream
    BY <1>2, <2>1, <2>3, Zenon DEF ModelSeesItsConversation
  <2>4. QED
    BY <2>2, <2>3
<1>4. <<>> \in Seq(Calls)
  OBVIOUS
<1>5. reply'.calls \in Seq(Calls) /\ (upstream' # {} => reply'.calls = <<>>)
  BY <1>4 DEF GatewayIInv
<1>6. QED
  BY <1>1, <1>3, <1>5, Zenon DEF GatewayIInv

THEOREM GatewayInvariant == GatewaySpec => []GatewayIInv
<1>1. GatewayIInv /\ [GatewayNext]_gatewayVars => GatewayIInv'
  <2>1. SUFFICES ASSUME GatewayIInv, [GatewayNext]_gatewayVars PROVE GatewayIInv'
    OBVIOUS
  <2>2. CASE Speaks
    BY <2>1, <2>2, SpeaksIInv
  <2>3. CASE Failed
    <3>1. reply'.calls = <<>>
      BY <2>3 DEF Failed, NoTurn, Turn
    <3>2. QED
      BY <2>1, <2>3, <3>1, AsItWas DEF Failed
  <2>4. CASE RunsCalls
    BY <2>1, <2>4, RunsCallsIInv
  <2>5. CASE \E model \in {"thinker", "plain", "unknown"}, effort \in {"absent", "blank", "low", "unknown"},
                tools \in {"none", "flat", "nested", "unnamed"} : Request(model, effort, tools)
    BY <2>1, <2>5, RequestIInv, Zenon
  <2>6. CASE \E text \in TurnTexts, calls \in TurnCalls, stream \in BOOLEAN : Answered(text, calls, stream)
    BY <2>1, <2>6, AnsweredIInv, Zenon
  <2>8. CASE UNCHANGED gatewayVars
    BY <2>1, <2>8, AsItWas DEF gatewayVars
  <2>9. QED
    BY <2>1, <2>2, <2>3, <2>4, <2>5, <2>6, <2>8, Zenon DEF GatewayNext
<1>2. QED
  BY <1>1, GatewayInitIInv, PTL DEF GatewaySpec

\* Whatever the client and the model said to one another, over either endpoint
\* and however it was streamed, what the gateway hands the model is that
\* conversation, in order, with every call and its output.
THEOREM ModelAlwaysSeesItsConversation == GatewaySpec => []ModelSeesItsConversation
<1>1. GatewayIInv => ModelSeesItsConversation
  BY DEF GatewayIInv
<1>2. QED
  BY <1>1, GatewayInvariant, PTL

\* Whatever was said, a conversation both endpoints accept is the same to the
\* model, whichever of them it arrives by.
THEOREM EndpointsAlwaysAgree == GatewaySpec => []EndpointsAgree
<1>1. GatewayIInv => EndpointsAgree
  <2>1. SUFFICES ASSUME GatewayIInv PROVE EndpointsAgree
    OBVIOUS
  <2>2. PICK h \in Seq(Entries) : h = history
    BY <2>1 DEF GatewayIInv
  <2>3. PICK N \in Nat : N = Len(h) /\ DOMAIN h = 1..N /\ \A i \in 1..N : h[i] \in Entries
    OBVIOUS
  <2>4. PICK t : t = [i \in 1..N |-> IF IsSystem(h[i]) THEN <<>> ELSE <<h[i]>>]
    OBVIOUS
  <2>5. PICK U : U = {e \in Entries : ~ IsSystem(e)}
    OBVIOUS
  <2>6. \A i \in 1..N : t[i] \in Seq(U)
    <3>1. ASSUME NEW i \in 1..N PROVE t[i] \in Seq(U)
      <4>1. CASE IsSystem(h[i])
        BY <2>4, <4>1
      <4>2. CASE ~ IsSystem(h[i])
        <5>1. PICK e \in U : e = h[i]
          BY <2>3, <2>5, <4>2
        <5>2. t[i] = <<e>>
          BY <2>4, <4>2, <5>1
        <5>3. QED
          BY <5>2
      <4>3. QED
        BY <4>1, <4>2
    <3>2. QED
      BY <3>1, Zenon
  <2>7. PICK talk : talk = FlattenSeq([i \in DOMAIN history |-> IF IsSystem(history[i]) THEN <<>> ELSE <<history[i]>>])
    OBVIOUS
  <2>8. talk \in Seq(U)
    <3>1. t = Firsts(t, N)
      BY <2>4 DEF Firsts
    <3>2. talk = FlattenSeq(t)
      BY <2>2, <2>3, <2>4, <2>7, Zenon
    <3>3. N \in 0..N
      OBVIOUS
    <3>4. QED
      BY <2>6, <3>1, <3>2, <3>3, FlattenIsSeq, Zenon
  <2>9. talk \in Seq(Entries) /\ \A i \in 1..Len(talk) : ~ IsSystem(talk[i])
    <3>1. \A i \in 1..Len(talk) : talk[i] \in U
      BY <2>8
    <3>2. talk \in [1..Len(talk) -> Entries] /\ Len(talk) \in Nat
      BY <2>5, <2>8, <3>1
    <3>3. talk \in Seq(Entries)
      BY <3>2
    <3>4. QED
      BY <2>5, <3>1, <3>3
  <2>10. ASSUME ~ ChatFails(talk)
         PROVE  ~ ResponsesFails(talk) /\ ItemsOf("chat", talk) = ItemsOf("responses", talk)
    <3>1. ~ ResponsesFails(talk)
      BY <2>10, Zenon DEF ChatFails, ResponsesFails
    <3>2. \A a \in {"chat", "responses"} : ItemsOf(a, talk) = Heard(talk)
      BY <2>9, <2>10, ItemsAre, Zenon
    <3>3. QED
      BY <3>1, <3>2
  <2>11. PromptOf("chat", talk) = PromptOf("responses", talk)
    <3>1. \A a \in {"chat", "responses"} : PromptOf(a, talk) = Transcript(Heard(talk))
      BY <2>9, PromptIs, Zenon
    <3>2. QED
      BY <3>1
  <2>12. QED
    BY <2>7, <2>10, <2>11, Zenon DEF EndpointsAgree
<1>2. QED
  BY <1>1, GatewayInvariant, PTL
=============================================================================
