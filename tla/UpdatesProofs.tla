---------------------------- MODULE UpdatesProofs ----------------------------
(***************************************************************************)
(* Proofs about the updates: for any number of threads, any queue, any     *)
(* number of commands and faults, and lossy or reliable messages           *)
(* (UpdateProtocol); for every interval, backoff, jitter and server cap,   *)
(* and for clocks that are set back at any moment but the one between a    *)
(* worker's answer and its consumption (UpdateSchedule); and for any set   *)
(* of releases, any number of redirects and any size of the cache          *)
(* (InstallerFetch).                                                       *)
(***************************************************************************)
EXTENDS MCUpdates, FiniteSetTheorems, WellFoundedInduction, TLAPS

WorkerSteps == {"free"} \cup Checks \cup Installs \cup Posts

-----------------------------------------------------------------------------
(* Types.                                                                  *)

LEMMA TypesInitial == Init => TypeOK
<1> SUFFICES ASSUME Init PROVE TypeOK
  OBVIOUS
<1>1. worker \in [Workers -> {"free"} \cup Checks \cup Installs \cup Posts]
  BY DEF Init
<1>2. <<>> \in Seq(Messages)
  OBVIOUS
<1> QED
  BY <1>1, <1>2 DEF Init, TypeOK, States

LEMMA PostTyped ==
  ASSUME NEW rest \in Seq(Messages), NEW message \in Messages, Post(rest, message)
  PROVE  queue' \in Seq(Messages)
BY DEF Post

LEMMA SpawnTyped ==
  ASSUME TypeOK, NEW active \in {"Checking", "Downloading"},
         NEW step \in {"fetching", "downloading"},
         NEW rest \in Seq(Messages), NEW message \in Messages,
         Spawn(active, step, rest, message)
  PROVE  /\ state' \in States /\ worker' \in [Workers -> WorkerSteps]
         /\ queue' \in Seq(Messages) /\ faults' \in Nat
<1>1. CASE \E w \in Workers : worker[w] = "free" /\ Become(w, step)
  BY <1>1, PostTyped
  DEF Spawn, TypeOK, States, Become, WorkerSteps, Checks, Installs
<1>2. CASE UNCHANGED worker
  BY <1>2, PostTyped DEF Spawn, TypeOK, States, WorkerSteps
<1> QED
  BY <1>1, <1>2 DEF Spawn

LEMMA FinishCheckTyped ==
  ASSUME TypeOK, NEW rest \in Seq(Messages), FinishCheck(rest)
  PROVE  /\ state' \in States /\ worker' \in [Workers -> WorkerSteps]
         /\ queue' \in Seq(Messages) /\ faults' \in Nat
         /\ inFlight' \in {"Automatic", "Manual", None} /\ failures' \in Nat
<1>1. CASE StartInstall(rest)
  BY <1>1, SpawnTyped DEF StartInstall, FinishCheck, TypeOK, Messages
<1>2. CASE UNCHANGED <<state, worker, faults>> /\ queue' = rest
  BY <1>2 DEF FinishCheck, TypeOK, WorkerSteps
<1> QED
  BY <1>1, <1>2 DEF FinishCheck

LEMMA StartCheckTyped ==
  ASSUME TypeOK, NEW origin \in {"Automatic", "Manual"}, StartCheck(origin)
  PROVE  /\ state' \in States /\ worker' \in [Workers -> WorkerSteps]
         /\ queue' \in Seq(Messages) /\ faults' \in Nat
         /\ inFlight' \in {"Automatic", "Manual", None} /\ failures' \in Nat
         /\ latest' \in {"Automatic", "Manual", None}
<1>1. Spawn("Checking", "fetching", queue, "check_done") /\ queue \in Seq(Messages)
  BY DEF StartCheck, TypeOK
<1> QED
  BY <1>1, SpawnTyped DEF StartCheck, TypeOK, Messages

LEMMA TypesPreserved == TypeOK /\ [Next]_vars => TypeOK'
<1> SUFFICES ASSUME TypeOK, [Next]_vars PROVE TypeOK'
  OBVIOUS
<1>t. queue # <<>> => Tail(queue) \in Seq(Messages)
  BY DEF TypeOK
<1>q. queue \in Seq(Messages)
  BY DEF TypeOK
<1>1. CASE TickUpdate
  BY <1>1, <1>q, FinishCheckTyped DEF TickUpdate, TypeOK, WorkerSteps
<1>2. CASE TickDue
  <2>1. CASE StartCheck("Automatic")
    BY <1>2, <2>1, StartCheckTyped DEF TickDue, TypeOK, WorkerSteps
  <2>2. CASE UNCHANGED <<state, worker, inFlight, failures, queue, faults, latest>>
    BY <1>2, <2>2 DEF TickDue, TypeOK
  <2> QED
    BY <1>2, <2>1, <2>2 DEF TickDue
<1>3. CASE HandleCheckDone
  BY <1>3, <1>t, FinishCheckTyped DEF HandleCheckDone, TypeOK, WorkerSteps
<1>4. CASE HandleInstallFailed
  BY <1>4, <1>t DEF HandleInstallFailed, TypeOK, counters
<1>5. CASE HandleRequestExit
  BY <1>5, <1>t DEF HandleRequestExit, BeginExit, TypeOK
<1>6. CASE Cancel
  BY <1>6 DEF Cancel, TypeOK, schedule, counters
<1>7. CASE End
  BY <1>7 DEF End, TypeOK, schedule, counters
<1>8. CASE UserCheck
  BY <1>8, StartCheckTyped DEF UserCheck, Command, TypeOK, WorkerSteps
<1>9. CASE UserInstall
  BY <1>9, <1>q, SpawnTyped
  DEF UserInstall, StartInstall, Command, TypeOK, WorkerSteps, Messages, schedule
<1>10. CASE UserExit
  BY <1>10 DEF UserExit, Command, BeginExit, TypeOK
<1>11. CASE UserToggle
  BY <1>11 DEF UserToggle, Command, TypeOK, schedule
<1>12. ASSUME NEW w \in Workers, Work(w) PROVE TypeOK'
  <2>1. ASSUME NEW from, NEW to \in WorkerSteps, Step(w, from, to)
        PROVE  /\ worker' \in [Workers -> WorkerSteps]
               /\ UNCHANGED <<cancelled, inFlight, failures, over, ui, autoUpdate,
                              commands, latest>>
    BY <2>1 DEF Step, Become, TypeOK, WorkerSteps, schedule
  <2>2. WorkerSteps = {"free", "fetching", "storing_check", "downloading",
                       "verified", "launching", "launched", "failed",
                       "storing_launched", "storing_failed", "posting_check",
                       "posting_exit", "posting_failed"}
    BY DEF WorkerSteps, Checks, Installs, Posts
  <2>3. CASE CheckFetched(w)
    BY <2>1, <2>2, <2>3 DEF CheckFetched, TypeOK, WorkerSteps
  <2>4. CASE CheckStored(w)
    BY <2>1, <2>2, <2>4 DEF CheckStored, TypeOK, WorkerSteps, States
  <2>5. CASE Downloaded(w) \/ DownloadFailed(w)
    BY <2>1, <2>2, <2>5 DEF Downloaded, DownloadFailed, TypeOK, WorkerSteps
  <2>6. CASE EnterGate(w) \/ Launch(w) \/ LaunchFailed(w)
    BY <2>1, <2>2, <2>6 DEF EnterGate, Launch, LaunchFailed, TypeOK, WorkerSteps
  <2>7. CASE InstallEnded(w)
    BY <2>1, <2>2, <2>7 DEF InstallEnded, TypeOK, WorkerSteps
  <2>8. CASE InstallStored(w)
    BY <2>1, <2>2, <2>8 DEF InstallStored, TypeOK, WorkerSteps, States
  <2>9. CASE WorkerPosts(w)
    <3>1. queue' \in Seq(Messages)
      BY <1>q, <2>9, PostTyped DEF WorkerPosts, Messages
    <3> QED
      BY <2>1, <2>2, <2>9, <3>1 DEF WorkerPosts, TypeOK, WorkerSteps
  <2> QED
    BY <1>12, <2>3, <2>4, <2>5, <2>6, <2>7, <2>8, <2>9 DEF Work
<1>13. CASE UNCHANGED vars
  BY <1>13 DEF vars, schedule, counters, TypeOK
<1> QED
  BY <1>1, <1>2, <1>3, <1>4, <1>5, <1>6, <1>7, <1>8, <1>9, <1>10, <1>11, <1>12,
     <1>13 DEF Next, Loop, Handle, User

\* Every variable keeps its type, whatever the queue and the workers do.
THEOREM TypeCorrect == Spec => []TypeOK
BY TypesInitial, TypesPreserved, PTL DEF Spec

-----------------------------------------------------------------------------
(* At most one worker works, it launches at most once, and never after the *)
(* cancel.  Core is inductive: the last two parts need the first.          *)

Working(w) == worker[w] \in Checks \cup Installs

\* After the launch the state admits neither a check nor another install, and
\* no worker is on its way to launch or to report a failure.
LaunchedAndOver ==
    /\ launches \in {0, 1}
    /\ launches = 1 =>
        /\ state \in {"Downloading", "Launching"}
        /\ \A w \in Workers :
              worker[w] \notin {"downloading", "verified", "launching", "failed",
                               "storing_failed"}

GateClosed == cancelled => \A w \in Workers : worker[w] # "launching"

Core == TypeOK /\ OneAtATime /\ LaunchedAndOver /\ GateClosed

\* The parts of Core that a step can break, given the types.
Parts == OneAtATime /\ LaunchedAndOver /\ GateClosed

LEMMA CoreInitial == Init => Core
<1> SUFFICES ASSUME Init PROVE Core
  OBVIOUS
<1>1. \A w \in Workers : worker[w] = "free"
  BY DEF Init
<1> QED
  BY <1>1, TypesInitial
  DEF Init, Core, OneAtATime, LaunchedAndOver, GateClosed, Checks, Installs

\* Only a state without work starts some: then no worker is at work.
LEMMA SpawnKeepsCore ==
  ASSUME Core, ~Busy,
         NEW active, NEW step, NEW rest, NEW message,
         \/ active = "Checking" /\ step = "fetching"
         \/ active = "Downloading" /\ step = "downloading",
         Spawn(active, step, rest, message), UNCHANGED <<launches, cancelled>>
  PROVE  Parts'
<1>1. launches = 0 /\ launches' = 0
  BY DEF Core, LaunchedAndOver, Busy
<1>2. \A w \in Workers : worker[w] \notin Checks \cup Installs
  BY DEF Core, OneAtATime, Busy
<1>3. CASE \E w \in Workers : worker[w] = "free" /\ Become(w, step) /\ state' = active
  <2>1. PICK w \in Workers : Become(w, step) /\ state' = active
    BY <1>3
  <2>2. \A v \in Workers : worker'[v] = IF v = w THEN step ELSE worker[v]
    BY <2>1 DEF Become, Core, TypeOK
  <2> QED
    BY <1>1, <1>2, <2>1, <2>2
    DEF Parts, Core, OneAtATime, LaunchedAndOver, GateClosed, Checks, Installs
<1>4. CASE UNCHANGED worker
  BY <1>1, <1>2, <1>4
  DEF Parts, Core, OneAtATime, LaunchedAndOver, GateClosed, Checks, Installs
<1> QED
  BY <1>3, <1>4 DEF Spawn

\* Steps that leave the shared state and the workers alone.
LEMMA QuietKeepsCore ==
  ASSUME Core, UNCHANGED <<state, worker, launches>>,
         cancelled' = cancelled \/ (\A w \in Workers : worker[w] # "launching")
  PROVE  Parts'
BY DEF Parts, Core, OneAtATime, LaunchedAndOver, GateClosed, Checks, Installs

LEMMA FinishCheckKeepsCore ==
  ASSUME Core, NEW rest, FinishCheck(rest), UNCHANGED <<launches, cancelled>>
  PROVE  Parts'
<1>1. CASE InstallDecided /\ StartInstall(rest)
  <2>1. ~Busy
    BY <1>1 DEF InstallDecided, Busy
  <2> QED
    BY <1>1, <2>1, SpawnKeepsCore DEF StartInstall
<1>2. CASE UNCHANGED <<state, worker>>
  BY <1>2, QuietKeepsCore
<1> QED
  BY <1>1, <1>2 DEF FinishCheck

LEMMA StartCheckKeepsCore ==
  ASSUME Core, NEW origin, StartCheck(origin), UNCHANGED <<launches, cancelled>>
  PROVE  Parts'
BY SpawnKeepsCore DEF StartCheck

LEMMA WorkKeepsCore ==
  ASSUME Core, NEW w \in Workers, Work(w)
  PROVE  Parts'
<1> USE DEF Parts, OneAtATime, LaunchedAndOver, GateClosed, Checks, Installs, Core
<1>0. ASSUME NEW from, NEW to, Step(w, from, to)
      PROVE  /\ worker[w] = from
             /\ worker'[w] = to
             /\ \A v \in Workers : v # w => worker'[v] = worker[v]
             /\ cancelled' = cancelled
  BY <1>0 DEF Step, Become, TypeOK
<1>1. CASE CheckFetched(w)
  BY <1>0, <1>1 DEF CheckFetched
<1>2. CASE CheckStored(w)
  BY <1>0, <1>2 DEF CheckStored
<1>3. CASE Downloaded(w) \/ DownloadFailed(w)
  BY <1>0, <1>3 DEF Downloaded, DownloadFailed
<1>4. CASE EnterGate(w)
  BY <1>0, <1>4 DEF EnterGate
<1>5. CASE Launch(w)
  BY <1>0, <1>5 DEF Launch
<1>6. CASE LaunchFailed(w)
  BY <1>0, <1>6 DEF LaunchFailed
<1>7. CASE InstallEnded(w)
  BY <1>0, <1>7 DEF InstallEnded
<1>8. CASE InstallStored(w)
  BY <1>0, <1>8 DEF InstallStored
<1>9. CASE WorkerPosts(w)
  BY <1>0, <1>9 DEF WorkerPosts
<1> QED
  BY <1>1, <1>2, <1>3, <1>4, <1>5, <1>6, <1>7, <1>8, <1>9 DEF Work

LEMMA CorePreserved == Core /\ [Next]_vars => Core'
<1> SUFFICES ASSUME Core, [Next]_vars PROVE Core'
  OBVIOUS
<1>t. TypeOK'
  BY TypesPreserved DEF Core
<1> SUFFICES Parts'
  BY <1>t DEF Core, Parts
<1>1. CASE TickUpdate
  BY <1>1, FinishCheckKeepsCore DEF TickUpdate
<1>2. CASE TickDue
  BY <1>2, StartCheckKeepsCore, QuietKeepsCore DEF TickDue
<1>3. CASE HandleCheckDone
  BY <1>3, FinishCheckKeepsCore DEF HandleCheckDone
<1>4. CASE HandleInstallFailed
  BY <1>4, QuietKeepsCore DEF HandleInstallFailed, counters
<1>5. CASE HandleRequestExit
  BY <1>5, QuietKeepsCore DEF HandleRequestExit, BeginExit
<1>6. CASE Cancel
  BY <1>6, QuietKeepsCore DEF Cancel, counters
<1>7. CASE End
  <2>1. \A w \in Workers : worker'[w] = "free"
    BY <1>7 DEF End
  <2>2. UNCHANGED <<state, launches>>
    BY <1>7 DEF End, counters
  <2> QED
    BY <2>1, <2>2
    DEF Core, Parts, OneAtATime, LaunchedAndOver, GateClosed, Checks, Installs
<1>8. CASE UserCheck
  BY <1>8, StartCheckKeepsCore DEF UserCheck
<1>9. CASE UserInstall
  <2>1. ~Busy
    BY <1>9 DEF UserInstall, Busy
  <2> QED
    BY <1>9, <2>1, SpawnKeepsCore DEF UserInstall, StartInstall
<1>10. CASE UserExit
  BY <1>10, QuietKeepsCore DEF UserExit, BeginExit
<1>11. CASE UserToggle
  BY <1>11, QuietKeepsCore DEF UserToggle
<1>12. CASE \E w \in Workers : Work(w)
  BY <1>12, WorkKeepsCore
<1>13. CASE UNCHANGED vars
  BY <1>13, QuietKeepsCore DEF vars, counters
<1> QED
  BY <1>1, <1>2, <1>3, <1>4, <1>5, <1>6, <1>7, <1>8, <1>9, <1>10, <1>11, <1>12,
     <1>13 DEF Next, Loop, Handle, User

\* However many threads there are, at most one of them checks or installs, and
\* the shared state names what it does.
THEOREM NeverTwoAtWork == Spec => []OneAtATime
<1>1. Core => OneAtATime
  BY DEF Core
<1> QED
  BY <1>1, CoreInitial, CorePreserved, PTL DEF Spec

\* One session launches at most one installer.
THEOREM AtMostOneLaunch == Spec => []LaunchedOnce
<1>1. Core => LaunchedOnce
  BY DEF Core, LaunchedAndOver, LaunchedOnce
<1> QED
  BY <1>1, CoreInitial, CorePreserved, PTL DEF Spec

\* Once cancel returned, no interleaving of the workers launches an installer.
THEOREM CancelStopsLaunches == Spec => NoLaunchAfterCancel
<1>1. ASSUME Core, [Next]_vars, launches' # launches PROVE ~cancelled
  <2>1. \E w \in Workers : Launch(w)
    <3>1. CASE \E w \in Workers : Work(w)
      BY <1>1, <3>1
      DEF Work, CheckFetched, CheckStored, Downloaded, DownloadFailed, EnterGate,
          LaunchFailed, InstallEnded, InstallStored, WorkerPosts
    <3>2. CASE Loop \/ User \/ UNCHANGED vars
      BY <1>1, <3>2
      DEF Loop, User, Handle, TickUpdate, TickDue, HandleCheckDone,
          HandleInstallFailed, HandleRequestExit, Cancel, End, UserCheck,
          UserInstall, UserExit, UserToggle, BeginExit, counters, vars
    <3> QED
      BY <1>1, <3>1, <3>2 DEF Next
  <2> QED
    BY <1>1, <2>1 DEF Core, GateClosed, Launch, Step
<1>2. Core /\ [Next]_vars => [launches' # launches => ~cancelled]_vars
  BY <1>1
<1> QED
  BY <1>2, CoreInitial, CorePreserved, PTL DEF Spec, NoLaunchAfterCancel

-----------------------------------------------------------------------------
(* A busy state has a worker that will end it.  The workers end with the    *)
(* process: that this happens only after the cancel is the part Leaving of *)
(* the invariant, without which NoOrphan is not inductive.                  *)

Leaving == ui \in {"quitting", "ended"} => cancelled

Manned == Core /\ Leaving /\ NoOrphan

LEMMA MannedInitial == Init => Manned
BY CoreInitial DEF Init, Manned, Leaving, NoOrphan

\* A spawned thread mans the state it was spawned for; without one it is Failed.
LEMMA SpawnMans ==
  ASSUME TypeOK, NEW active, NEW step, NEW rest, NEW message,
         step \in Checks \cup Installs, Spawn(active, step, rest, message)
  PROVE  NoOrphan'
<1>1. CASE \E w \in Workers : Become(w, step)
  <2>1. PICK w \in Workers : Become(w, step)
    BY <1>1
  <2>2. worker'[w] \in Checks \cup Installs
    BY <2>1 DEF Become, TypeOK
  <2> QED
    BY <2>2 DEF NoOrphan
<1>2. CASE state' = "Failed"
  BY <1>2 DEF NoOrphan
<1> QED
  BY <1>1, <1>2 DEF Spawn

LEMMA FinishCheckMans ==
  ASSUME Manned, NEW rest, FinishCheck(rest), UNCHANGED cancelled
  PROVE  NoOrphan'
<1>1. CASE StartInstall(rest)
  BY <1>1, SpawnMans DEF StartInstall, Manned, Core, Installs
<1>2. CASE UNCHANGED <<state, worker>>
  BY <1>2 DEF Manned, NoOrphan
<1> QED
  BY <1>1, <1>2 DEF FinishCheck

LEMMA StartCheckMans ==
  ASSUME Manned, NEW origin, StartCheck(origin)
  PROVE  NoOrphan'
BY SpawnMans DEF StartCheck, Manned, Core, Checks

\* A worker leaves its work only by storing a result, or when it is cancelled.
LEMMA WorkMans ==
  ASSUME Manned, NEW w \in Workers, Work(w)
  PROVE  NoOrphan'
<1> USE DEF Manned, Core, NoOrphan, Checks, Installs
<1>0. ASSUME NEW from, NEW to, Step(w, from, to)
      PROVE  /\ worker[w] = from
             /\ worker'[w] = to
             /\ \A v \in Workers : v # w => worker'[v] = worker[v]
             /\ cancelled' = cancelled
  BY <1>0 DEF Step, Become, TypeOK
<1>1. CASE CheckFetched(w)
  BY <1>0, <1>1 DEF CheckFetched
<1>2. CASE CheckStored(w)
  BY <1>0, <1>2 DEF CheckStored
<1>3. CASE Downloaded(w) \/ DownloadFailed(w)
  BY <1>0, <1>3 DEF Downloaded, DownloadFailed
<1>4. CASE EnterGate(w) \/ Launch(w) \/ LaunchFailed(w)
  BY <1>0, <1>4 DEF EnterGate, Launch, LaunchFailed
<1>5. CASE InstallEnded(w)
  BY <1>0, <1>5 DEF InstallEnded
<1>6. CASE InstallStored(w)
  BY <1>0, <1>6 DEF InstallStored
<1>7. CASE WorkerPosts(w)
  BY <1>0, <1>7 DEF WorkerPosts
<1> QED
  BY <1>1, <1>2, <1>3, <1>4, <1>5, <1>6, <1>7 DEF Work

LEMMA MannedPreserved == Manned /\ [Next]_vars => Manned'
<1> SUFFICES ASSUME Manned, [Next]_vars PROVE Leaving' /\ NoOrphan'
  BY CorePreserved DEF Manned
<1> USE DEF Leaving
<1>1. CASE TickUpdate
  BY <1>1, FinishCheckMans DEF TickUpdate
<1>2. CASE TickDue
  <2>1. CASE StartCheck("Automatic")
    BY <1>2, <2>1, StartCheckMans DEF TickDue
  <2>2. CASE UNCHANGED <<state, worker>>
    BY <1>2, <2>2 DEF TickDue, Manned, NoOrphan
  <2> QED
    BY <1>2, <2>1, <2>2 DEF TickDue
<1>3. CASE HandleCheckDone
  BY <1>3, FinishCheckMans DEF HandleCheckDone, Manned
<1>4. CASE HandleInstallFailed
  BY <1>4 DEF HandleInstallFailed, Manned, NoOrphan
<1>5. CASE HandleRequestExit \/ UserExit
  BY <1>5 DEF HandleRequestExit, UserExit, BeginExit, Manned, NoOrphan
<1>6. CASE Cancel
  BY <1>6 DEF Cancel, NoOrphan
<1>7. CASE End
  BY <1>7 DEF End, Manned, NoOrphan
<1>8. CASE UserCheck
  BY <1>8, StartCheckMans DEF UserCheck, Manned
<1>9. CASE UserInstall
  BY <1>9, SpawnMans DEF UserInstall, StartInstall, Manned, Core, Installs
<1>10. CASE UserToggle
  BY <1>10 DEF UserToggle, Manned, NoOrphan
<1>11. ASSUME NEW w \in Workers, Work(w) PROVE Leaving' /\ NoOrphan'
  <2>1. UNCHANGED <<ui, cancelled>>
    BY <1>11
    DEF Work, CheckFetched, CheckStored, Downloaded, DownloadFailed, EnterGate,
        Launch, LaunchFailed, InstallEnded, InstallStored, WorkerPosts, Step
  <2> QED
    BY <1>11, <2>1, WorkMans DEF Manned
<1>12. CASE UNCHANGED vars
  BY <1>12 DEF vars, Manned, NoOrphan
<1> QED
  BY <1>1, <1>2, <1>3, <1>4, <1>5, <1>6, <1>7, <1>8, <1>9, <1>10, <1>11, <1>12
  DEF Next, Loop, Handle, User

\* However checks, installs, failed spawns and lost messages interleave, a state
\* that forbids the next check has a worker that will leave it, until the cancel.
THEOREM NeverOrphaned == Spec => []NoOrphan
<1>1. Manned => NoOrphan
  BY DEF Manned
<1> QED
  BY <1>1, MannedInitial, MannedPreserved, PTL DEF Spec

-----------------------------------------------------------------------------
(* Who asked.  The origin of the check in flight is that of the latest one: *)
(* a manual check that replaced an automatic one made it its own.           *)

Credited ==
    /\ inFlight # None => inFlight = latest
    /\ over => inFlight = None

LEMMA CreditedInitial == Init => Credited
BY DEF Init, Credited

LEMMA CreditedPreserved == Credited /\ [Next]_vars => Credited'
<1> SUFFICES ASSUME Credited, [Next]_vars PROVE Credited'
  OBVIOUS
<1> USE DEF Credited
<1>1. CASE Loop
  BY <1>1
  DEF Loop, TickUpdate, TickDue, Handle, HandleCheckDone, HandleInstallFailed,
      HandleRequestExit, BeginExit, FinishCheck, StartCheck, Cancel, End, schedule
<1>2. CASE User
  BY <1>2
  DEF User, UserCheck, UserInstall, UserExit, UserToggle, BeginExit, StartCheck, schedule
<1>3. CASE \E w \in Workers : Work(w)
  BY <1>3
  DEF Work, CheckFetched, CheckStored, Downloaded, DownloadFailed, EnterGate, Launch,
      LaunchFailed, InstallEnded, InstallStored, WorkerPosts, Step, schedule
<1>4. CASE UNCHANGED vars
  BY <1>4 DEF vars, schedule
<1> QED
  BY <1>1, <1>2, <1>3, <1>4 DEF Next

\* A manual check leaves Install to the user, also one that took the place of an
\* automatic check whose result was waiting: without a command, only the result
\* of an automatic check, with the setting on, starts a download.
THEOREM InstallsAuthorised == Spec => InstallAuthorised
<1> DEFINE Begins == /\ worker' # worker /\ state' = "Downloading"
                     /\ state # "Downloading" /\ commands' = commands
<1>1. ASSUME TypeOK, Credited, [Next]_vars, Begins PROVE latest = "Automatic" /\ autoUpdate
  <2>1. CASE \E rest : FinishCheck(rest)
    BY <1>1, <2>1 DEF FinishCheck, Reported, InstallDecided, Credited
  <2>2. CASE User
    <3>1. commands + 1 # commands
      BY <1>1 DEF TypeOK
    <3> QED
      BY <1>1, <2>2, <3>1
      DEF User, UserCheck, UserInstall, UserExit, UserToggle, Command
  <2>3. CASE \E origin : StartCheck(origin)
    BY <1>1, <2>3 DEF StartCheck, Spawn
  <2>4. CASE \E w \in Workers : Work(w)
    BY <1>1, <2>4
    DEF Work, CheckFetched, CheckStored, Downloaded, DownloadFailed, EnterGate, Launch,
        LaunchFailed, InstallEnded, InstallStored, WorkerPosts
  <2>5. CASE UNCHANGED state
    BY <1>1, <2>5
  <2> QED
    BY <1>1, <2>1, <2>2, <2>3, <2>4, <2>5
    DEF Next, Loop, Handle, TickUpdate, TickDue, HandleCheckDone, HandleInstallFailed,
        HandleRequestExit, BeginExit, Cancel, End, vars
<1>2. TypeOK /\ Credited /\ [Next]_vars
         => [Begins => latest = "Automatic" /\ autoUpdate]_vars
  BY <1>1
<1> QED
  BY <1>2, TypesInitial, TypesPreserved, CreditedInitial, CreditedPreserved, PTL
  DEF Spec, InstallAuthorised

-----------------------------------------------------------------------------
(* The schedule.                                                           *)

\* A backoff is a time, and never longer than the interval.
LEMMA BackoffBounded ==
  ASSUME NEW n \in Nat
  PROVE  /\ Least(Doubled(n), Interval) \in Nat
         /\ Least(Doubled(n), Interval) <= Interval
<1>1. \A i \in 1..17 : Powers[i] \in Nat
  BY DEF Powers
<1>2. Least(n, 16) + 1 \in 1..17
  BY DEF Least
<1>3. Doubled(n) \in Nat
  BY <1>1, <1>2, ScheduleAssumption DEF Doubled
<1> QED
  BY <1>3, ScheduleAssumption DEF Least

LEMMA ScheduleTyped ==
  ASSUME ScheduleTypeOK, NEW due \in Nat, NEW jitter \in Jitters, Schedule(due, jitter)
  PROVE  /\ scheduledAt' = now /\ nextDue' \in Nat
         /\ nextDue' <= due + MaxJitter
BY ScheduleAssumption DEF ScheduleTypeOK, Jitters, Schedule, Least

\* A consumed answer sets the next check at most the longest wait ahead, if its
\* retry time is at most the server's cap ahead.
LEMMA FailedBounded ==
  ASSUME ScheduleTypeOK, NEW retry \in Nat, NEW jitter \in Jitters, Failed(retry, jitter)
  PROVE  /\ scheduledAt' = now /\ nextDue' \in Nat /\ failedInARow' \in Nat
         /\ retry <= now + ServerMax => nextDue' <= now + LongestWait
<1> DEFINE backoff == Least(Doubled(failedInARow), Interval)
           due == Most(now + backoff, retry)
<1>1. backoff \in Nat /\ backoff <= Interval /\ now \in Nat
  BY BackoffBounded DEF ScheduleTypeOK
<1> HIDE DEF backoff
<1>2. due \in Nat /\ (retry <= now + ServerMax => due + MaxJitter <= now + LongestWait)
  BY <1>1, ScheduleAssumption DEF Most, LongestWait
<1>3. Schedule(due, jitter) /\ failedInARow' = failedInARow + 1
  BY DEF Failed, backoff
<1> HIDE DEF due
<1>4. scheduledAt' = now /\ nextDue' \in Nat /\ nextDue' <= due + MaxJitter
  BY <1>2, <1>3, ScheduleTyped
<1>5. now + LongestWait \in Nat
  BY <1>1, ScheduleAssumption DEF LongestWait, Most
<1> QED
  BY <1>2, <1>3, <1>4, <1>5, ScheduleAssumption DEF ScheduleTypeOK

LEMMA SucceededBounded ==
  ASSUME ScheduleTypeOK, NEW jitter \in Jitters, Succeeded(jitter)
  PROVE  /\ scheduledAt' = now /\ nextDue' \in Nat /\ failedInARow' \in Nat
         /\ nextDue' <= now + LongestWait
<1>1. Schedule(now + Interval, jitter) /\ now + Interval \in Nat
  BY ScheduleAssumption DEF Succeeded, ScheduleTypeOK
<1> QED
  BY <1>1, ScheduleTyped, ScheduleAssumption
  DEF Succeeded, ScheduleTypeOK, LongestWait, Most

\* What the server may ask is capped.
LEMMA RetryCapped ==
  ASSUME ScheduleTypeOK, NEW time \in Nat
  PROVE  /\ RetryAfter(time) \in Nat /\ RetryAfter(time) <= now + ServerMax
         /\ RetryReset(time) \in Nat /\ RetryReset(time) <= now + ServerMax
BY ScheduleAssumption DEF ScheduleTypeOK, RetryAfter, RetryReset, Least, NoRetry

LEMMA FailsCapped ==
  ASSUME ScheduleTypeOK, Fails
  PROVE  \E retry \in Nat : retry <= now + ServerMax /\ Answer("Failed", retry)
<1>1. CASE Answer("Failed", NoRetry)
  BY <1>1, ScheduleAssumption DEF NoRetry, ScheduleTypeOK
<1>2. ASSUME NEW wait \in 0..MaxTime, Answer("Failed", RetryAfter(wait))
      PROVE  \E retry \in Nat : retry <= now + ServerMax /\ Answer("Failed", retry)
  BY <1>2, RetryCapped
<1>3. ASSUME NEW reset \in 0..MaxTime, Answer("Failed", RetryReset(reset))
      PROVE  \E retry \in Nat : retry <= now + ServerMax /\ Answer("Failed", retry)
  BY <1>3, RetryCapped
<1> QED
  BY <1>1, <1>2, <1>3 DEF Fails

\* A result that waits asks for no more than the cap, and the plan never lies
\* further ahead of the moment it was made than the longest wait.
AnswerCapped ==
    ~SetBackWhileAnswered /\ ResultWaits => controller.retry <= now + ServerMax
PlanCapped == ~SetBackWhileAnswered => nextDue <= scheduledAt + LongestWait

Inv == ScheduleTypeOK /\ AnswerCapped /\ PlanCapped

LEMMA InvInitial == ScheduleInit => Inv
<1> SUFFICES ASSUME ScheduleInit PROVE Inv
  OBVIOUS
<1>1. ScheduleTypeOK
  <2>1. now \in Nat /\ nextDue \in Nat /\ scheduledAt \in Nat /\ failedInARow \in Nat
        /\ reports \in Nat /\ asked \in Nat
    BY ScheduleAssumption DEF ScheduleInit, NoRetry
  <2>2. controller \in Controllers
    BY DEF ScheduleInit, Controllers, NoRetry
  <2>3. stopped \in BOOLEAN /\ overruled \in BOOLEAN /\ checking \in Origins \cup {NoCheck}
    BY DEF ScheduleInit
  <2> QED
    BY <2>1, <2>2, <2>3 DEF ScheduleTypeOK
<1>2. PlanCapped /\ AnswerCapped
  BY ScheduleAssumption
  DEF ScheduleInit, AnswerCapped, ResultWaits, PlanCapped, LongestWait, Most
<1> QED
  BY <1>1, <1>2 DEF Inv

\* What a handler stores in the controller.
LEMMA BecomesTyped ==
  ASSUME NEW next \in Results \cup {"Idle", "Checking", "Downloading", "Launching"},
         NEW retry \in Nat, Becomes(next, retry)
  PROVE  controller' \in Controllers /\ controller'.state = next /\ controller'.retry = retry
BY DEF Becomes, Controllers

LEMMA InvPreserved == Inv /\ [ScheduleNext]_scheduleVars => Inv'
<1> SUFFICES ASSUME Inv, [ScheduleNext]_scheduleVars PROVE Inv'
  OBVIOUS
<1> USE DEF Inv, ScheduleTypeOK, AnswerCapped, ResultWaits, PlanCapped, plan, promised
<1>0. NoRetry \in Nat /\ NoRetry <= now + ServerMax
  BY ScheduleAssumption DEF NoRetry
\* A step of the controller alone.
<1>a. ASSUME NEW next \in Results \cup {"Idle", "Checking", "Downloading", "Launching"},
             NEW retry \in Nat, retry <= now + ServerMax, Becomes(next, retry),
             UNCHANGED <<now, plan, stopped>>, checking' \in Origins \cup {NoCheck},
             reports' \in Nat, asked' \in Nat, overruled' \in BOOLEAN
      PROVE  Inv'
  <2>1. controller' \in Controllers /\ controller'.retry = retry
    BY <1>a, BecomesTyped
  <2> QED
    BY <1>a, <2>1
<1>1. CASE BeginAutomatic \/ BeginManual
  <2>1. Becomes("Checking", NoRetry) /\ checking' \in Origins \cup {NoCheck}
    BY <1>1 DEF BeginAutomatic, BeginManual, BeginsCheck, Origins
  <2> QED
    BY <1>0, <1>1, <1>a, <2>1 DEF BeginAutomatic, BeginManual
<1>3. ASSUME NEW result \in Results, NEW retry \in Nat,
             retry <= now + ServerMax, Answer(result, retry)
      PROVE  Inv'
  BY <1>3, <1>a DEF Answer
<1>4. CASE Succeeds
  BY <1>0, <1>3, <1>4 DEF Succeeds, Results
<1>5. CASE Fails
  BY <1>3, <1>5, FailsCapped DEF Results
<1>6. ASSUME NEW jitter \in Jitters, NEW enabled \in BOOLEAN, Complete(jitter, enabled)
      PROVE  Inv'
  <2>1. controller.retry \in Nat
    BY <1>6 DEF Controllers
  <2>2. /\ scheduledAt' = now /\ nextDue' \in Nat /\ failedInARow' \in Nat
        /\ ~SetBackWhileAnswered => nextDue' <= now + LongestWait
    <3>1. CASE controller.state = "Failed"
      BY <1>6, <2>1, <3>1, FailedBounded DEF Complete
    <3>2. CASE controller.state # "Failed"
      BY <1>6, <3>2, SucceededBounded DEF Complete
    <3> QED
      BY <3>1, <3>2
  <2>3. controller' \in Controllers
    BY <1>0, <1>6, BecomesTyped DEF Complete
  <2> QED
    BY <1>6, <2>1, <2>2, <2>3, ScheduleAssumption DEF Complete, Origins
<1>7. ASSUME NEW jitter \in Jitters, InstallFailed(jitter) PROVE Inv'
  <2>1. CASE stopped
    BY <1>7, <2>1 DEF InstallFailed
  <2>2. CASE ~stopped
    <3>1. /\ scheduledAt' = now /\ nextDue' \in Nat /\ failedInARow' \in Nat
          /\ nextDue' <= now + LongestWait
      BY <1>0, <1>7, <2>2, FailedBounded DEF InstallFailed
    <3> QED
      BY <1>7, <2>2, <3>1 DEF InstallFailed
  <2> QED
    BY <2>1, <2>2
<1>8. CASE InstallFound \/ InstallLaunches \/ InstallEnds
  <2>1. PICK next \in Results \cup {"Idle", "Checking", "Downloading", "Launching"} :
           Becomes(next, NoRetry)
    BY <1>8 DEF InstallFound, InstallLaunches, InstallEnds, Results
  <2>2. /\ UNCHANGED <<now, plan, stopped>> /\ checking' = checking
        /\ asked' = asked /\ overruled' = overruled
    BY <1>8 DEF InstallFound, InstallLaunches, InstallEnds
  <2>3. reports' = reports \/ reports' = reports + 1
    BY <1>8 DEF InstallFound, InstallLaunches, InstallEnds
  <2> HIDE DEF AnswerCapped, PlanCapped, ResultWaits, plan, promised
  <2>4. /\ checking' \in Origins \cup {NoCheck} /\ reports' \in Nat
        /\ asked' \in Nat /\ overruled' \in BOOLEAN
    BY <2>2, <2>3
  <2> QED
    BY ONLY <1>0, <1>a, <2>1, <2>2, <2>4
<1>9. CASE CancelSchedule
  BY <1>9 DEF CancelSchedule
<1>10. CASE Tick
  BY <1>10, ScheduleAssumption DEF Tick, Controllers
<1>11. ASSUME NEW time \in 1..MaxTime, SetBack(time) PROVE Inv'
  BY <1>11, ScheduleAssumption DEF SetBack
<1>12. CASE UNCHANGED scheduleVars
  BY <1>12 DEF scheduleVars
<1> QED
  BY <1>1, <1>4, <1>5, <1>6, <1>7, <1>8, <1>9, <1>10, <1>11, <1>12 DEF ScheduleNext

\* Every time stays a time, whatever the server asks and the clock does.
THEOREM ScheduleTypeCorrect == ScheduleSpec => []ScheduleTypeOK
<1>1. Inv => ScheduleTypeOK
  BY DEF Inv
<1> QED
  BY <1>1, InvInitial, InvPreserved, PTL DEF ScheduleSpec

\* No sequence of answers, failures and clock changes puts the next automatic
\* check out of reach, if the clock stands while an answer waits.
THEOREM WaitAlwaysBounded ==
  ASSUME SetBackWhileAnswered = FALSE
  PROVE  ScheduleSpec => []WaitBounded
<1>1. Inv => WaitBounded
  BY ScheduleAssumption
  DEF Inv, ScheduleTypeOK, PlanCapped, WaitBounded, IsDue, LongestWait, Most
<1> QED
  BY <1>1, InvInitial, InvPreserved, PTL DEF ScheduleSpec

-----------------------------------------------------------------------------
(* When a check is tried again.  The plan keeps to what the last completed  *)
(* check was told, and to the backoff.  A failed install that is handled    *)
(* plans anew, without a time from the server, at any moment: the history   *)
(* says so, and only the backoff is left of the promise.                    *)

\* Doubling never makes a backoff shorter than the first one.
LEMMA BackoffAtLeastFirst ==
  ASSUME NEW n \in Nat
  PROVE  Least(Doubled(n), Interval) >= RetryBase
<1>1. \A i \in 1..17 : Powers[i] \in Nat /\ Powers[i] >= 1
  BY DEF Powers
<1>2. PICK i \in 1..17 : Doubled(n) = RetryBase * Powers[i]
  BY DEF Doubled, Least
<1>3. ASSUME NEW base \in Nat, NEW power \in Nat, power >= 1
      PROVE  base * power \in Nat /\ base * power >= base
  BY <1>3
<1>4. Doubled(n) \in Nat /\ Doubled(n) >= RetryBase
  BY <1>1, <1>2, <1>3, ScheduleAssumption
<1> QED
  BY <1>4, ScheduleAssumption DEF Least

PlanKeeps ==
    nextDue # 0 => /\ overruled \/ nextDue >= asked
                   /\ nextDue >= scheduledAt + RetryBase
OnlyFailuresAsk ==
    controller.state \in {"Current", "Available"} => controller.retry = NoRetry

Keeps == ScheduleTypeOK /\ PlanKeeps /\ OnlyFailuresAsk

LEMMA FailedKeeps ==
  ASSUME ScheduleTypeOK, NEW retry \in Nat, NEW jitter \in Jitters, Failed(retry, jitter)
  PROVE  /\ failedInARow' # 0 /\ scheduledAt' = now
         /\ nextDue' >= retry /\ nextDue' >= now + RetryBase
<1> DEFINE backoff == Least(Doubled(failedInARow), Interval)
           due == Most(now + backoff, retry)
<1>1. backoff \in Nat /\ backoff >= RetryBase /\ now \in Nat /\ failedInARow \in Nat
  BY BackoffBounded, BackoffAtLeastFirst DEF ScheduleTypeOK
<1>2. Schedule(due, jitter) /\ failedInARow' = failedInARow + 1
  BY DEF Failed
<1> HIDE DEF backoff
<1>3. due \in Nat /\ due >= retry /\ due >= now + RetryBase
  BY <1>1, ScheduleAssumption DEF Most
<1> HIDE DEF due
<1> QED
  BY <1>1, <1>2, <1>3, ScheduleAssumption DEF Schedule, Least, Jitters

LEMMA SucceededKeeps ==
  ASSUME ScheduleTypeOK, NEW jitter \in Jitters, Succeeded(jitter)
  PROVE  scheduledAt' = now /\ nextDue' \in Nat /\ nextDue' >= now + RetryBase
BY ScheduleAssumption DEF ScheduleTypeOK, Succeeded, Schedule, Least, Jitters

LEMMA KeepsInitial == ScheduleInit => Keeps
<1>1. ScheduleInit => ScheduleTypeOK
  BY InvInitial DEF Inv
<1> QED
  BY <1>1 DEF ScheduleInit, Keeps, PlanKeeps, OnlyFailuresAsk

LEMMA KeepsPreserved == Keeps /\ Inv /\ [ScheduleNext]_scheduleVars => Keeps'
<1> SUFFICES ASSUME Keeps, Inv, [ScheduleNext]_scheduleVars
             PROVE  PlanKeeps' /\ OnlyFailuresAsk'
  BY InvPreserved DEF Keeps, Inv
<1> USE DEF PlanKeeps, OnlyFailuresAsk, plan, promised
<1>t. ScheduleTypeOK
  BY DEF Keeps
<1>1. CASE BeginAutomatic \/ BeginManual
  BY <1>1 DEF Keeps, BeginAutomatic, BeginManual, BeginsCheck, Becomes
<1>2. CASE Succeeds \/ Fails
  BY <1>2 DEF Keeps, Succeeds, Fails, Answer, Becomes
<1>3. ASSUME NEW jitter \in Jitters, NEW enabled \in BOOLEAN, Complete(jitter, enabled)
      PROVE  PlanKeeps' /\ OnlyFailuresAsk'
  <2>1. controller.retry \in Nat /\ now \in Nat
    BY <1>t DEF ScheduleTypeOK, Controllers
  <2>2. OnlyFailuresAsk'
    BY <1>3 DEF Complete, Keeps, Becomes
  <2>3. CASE controller.state = "Failed"
    BY <1>3, <1>t, <2>1, <2>2, <2>3, FailedKeeps DEF Complete
  <2>4. CASE controller.state # "Failed"
    <3>1. asked' = NoRetry
      BY <1>3, <2>4 DEF Complete, ResultWaits, Results, Keeps
    <3>2. scheduledAt' = now /\ nextDue' \in Nat /\ nextDue' >= now + RetryBase
      BY <1>3, <1>t, <2>4, SucceededKeeps DEF Complete
    <3> QED
      BY <2>2, <3>1, <3>2 DEF NoRetry
  <2> QED
    BY <2>3, <2>4
<1>4. ASSUME NEW jitter \in Jitters, InstallFailed(jitter)
      PROVE  PlanKeeps' /\ OnlyFailuresAsk'
  <2>1. CASE stopped
    BY <1>4, <2>1 DEF InstallFailed, Keeps
  <2>2. CASE ~stopped
    <3>1. scheduledAt' = now /\ nextDue' >= now + RetryBase /\ overruled'
      BY <1>4, <1>t, <2>2, FailedKeeps DEF InstallFailed, NoRetry
    <3> QED
      BY <1>4, <3>1 DEF InstallFailed, Keeps
  <2> QED
    BY <2>1, <2>2
<1>5. CASE InstallFound \/ InstallLaunches \/ InstallEnds
  BY <1>5 DEF InstallFound, InstallLaunches, InstallEnds, Becomes, Keeps
<1>6. CASE CancelSchedule
  BY <1>6 DEF CancelSchedule, Keeps
<1>7. CASE Tick \/ \E time \in 1..MaxTime : SetBack(time)
  BY <1>7 DEF Tick, SetBack, Keeps
<1>8. CASE UNCHANGED scheduleVars
  BY <1>8 DEF scheduleVars, Keeps
<1> QED
  BY <1>1, <1>2, <1>3, <1>4, <1>5, <1>6, <1>7, <1>8 DEF ScheduleNext

\* Whatever the clock does and in whatever order checks, installs and their
\* messages come, no automatic check begins before the first backoff after the
\* last plan is over, nor, unless a failed install was handled since, before the
\* time that the server gave the last completed check.
THEOREM RetriesKept == ScheduleSpec => RetryKept
<1> DEFINE Waited == (overruled \/ now >= asked) /\ now >= scheduledAt + RetryBase
<1>1. ASSUME Keeps, [ScheduleNext]_scheduleVars, AutomaticAgain PROVE Waited
  <2>1. BeginAutomatic
    BY <1>1, ScheduleAssumption
    DEF AutomaticAgain, ScheduleNext, BeginManual, Succeeds, Fails, Answer, InstallFound,
        InstallLaunches, InstallEnds, CancelSchedule, Tick, InstallFailed, Complete,
        SetBack, scheduleVars
  <2>2. now >= nextDue
    BY <1>1, <2>1 DEF AutomaticAgain, BeginAutomatic, IsDue, Keeps, ScheduleTypeOK
  <2> QED
    BY <1>1, <2>2, ScheduleAssumption
    DEF AutomaticAgain, Keeps, ScheduleTypeOK, PlanKeeps
<1>2. Keeps /\ [ScheduleNext]_scheduleVars => [AutomaticAgain => Waited]_scheduleVars
  BY <1>1
<1> QED
  BY <1>2, InvInitial, InvPreserved, KeepsInitial, KeepsPreserved, PTL
  DEF ScheduleSpec, RetryKept

-----------------------------------------------------------------------------
(* The cache.  Of any set of releases, the newest few are few: below the    *)
(* oldest of them are at most MaxCached - 1 others.                         *)

LEMMA LeastExists ==
  ASSUME NEW T \in SUBSET Nat, T # {}
  PROVE  \E m \in T : \A n \in T : m <= n
<1>1. PICK m \in T : \A n \in T : <<n, m>> \notin OpToRel(<, Nat)
  BY NatLessThanWellFounded, WFMin
<1>2. \A n \in T : ~(n < m)
  BY <1>1 DEF OpToRel
<1> QED
  BY <1>2

\* The instance counts as the library does.
LEMMA SameCount == ASSUME NEW S PROVE Fetch!Cardinality(S) = Cardinality(S)
BY Zenon DEF Fetch!Cardinality, Cardinality

LEMMA NewestAreFew ==
  ASSUME NEW c
  PROVE  IsFiniteSet(Fetch!Newest(c)) /\ Cardinality(Fetch!Newest(c)) <= MaxCached
<1> DEFINE N == Fetch!Newest(c)
<1>1. N \subseteq Versions /\ IsFiniteSet(N)
  BY FetchAssumption, FS_Subset DEF Fetch!Newest
<1>2. CASE N = {}
  BY <1>1, <1>2, FS_EmptySet, FetchAssumption
<1>3. CASE N # {}
  <2>1. PICK m \in N : \A n \in N : m <= n
    BY <1>1, <1>3, LeastExists, FetchAssumption
  <2> DEFINE Above == {w \in Versions : c[w] # Fetch!Absent /\ w > m}
  <2>2. Cardinality(Above) < MaxCached
    BY SameCount DEF Fetch!Newest
  <2>7. IsFiniteSet(Above)
    BY FetchAssumption, FS_Subset
  <2>3. N \ {m} \subseteq Above
    <3>1. N \subseteq {v \in Versions : c[v] # Fetch!Absent}
      BY DEF Fetch!Newest
    <3> HIDE DEF N
    <3> QED
      BY <1>1, <2>1, <3>1, FetchAssumption
  <2>4. Cardinality(N \ {m}) <= Cardinality(Above)
    BY <2>7, <2>3, FS_Subset
  <2>5. Cardinality(N \ {m}) = Cardinality(N) - 1
    BY <1>1, FS_RemoveElement
  <2>6. /\ Cardinality(N) \in Nat /\ Cardinality(Above) \in Nat
        /\ Cardinality(N \ {m}) \in Nat
    BY <1>1, <2>7, FS_CardinalityType, FS_RemoveElement
  <2> QED
    BY <1>1, <2>2, <2>4, <2>5, <2>6, FetchAssumption
<1> QED
  BY <1>2, <1>3

\* How many installers the update directory holds.
Kept(c) == {v \in Versions : c[v] # Fetch!Absent}
Few(c) == IsFiniteSet(Kept(c)) /\ Cardinality(Kept(c)) <= MaxCached + 2

LEMMA FewBounded == ASSUME NEW S, IsFiniteSet(S), Cardinality(S) <= MaxCached + 2,
                           NEW T \in SUBSET S
                    PROVE  IsFiniteSet(T) /\ Cardinality(T) <= MaxCached + 2
<1>1. IsFiniteSet(T) /\ Cardinality(T) <= Cardinality(S)
  BY FS_Subset
<1>2. Cardinality(S) \in Nat /\ Cardinality(T) \in Nat
  BY <1>1, FS_CardinalityType
<1> QED
  BY <1>1, <1>2, FetchAssumption

\* A cleanup leaves few of any number of installers.
LEMMA CleanedAreFew == ASSUME NEW c, NEW keep PROVE Few(Fetch!Cleaned(c, keep))
<1> DEFINE N == Fetch!Newest(c)
<1>1. IsFiniteSet(N) /\ Cardinality(N) <= MaxCached
  BY NewestAreFew
<1>2. /\ IsFiniteSet(N \cup {keep})
      /\ Cardinality(N \cup {keep}) \in {Cardinality(N), Cardinality(N) + 1}
  BY <1>1, FS_AddElement
<1>3. /\ IsFiniteSet((N \cup {keep}) \cup {launched})
      /\ Cardinality((N \cup {keep}) \cup {launched})
           \in {Cardinality(N \cup {keep}), Cardinality(N \cup {keep}) + 1}
  BY <1>2, FS_AddElement
<1>4. Cardinality(N) \in Nat /\ Cardinality((N \cup {keep}) \cup {launched}) \in Nat
  BY <1>1, <1>3, FS_CardinalityType
<1>5. Cardinality((N \cup {keep}) \cup {launched}) <= MaxCached + 2
  BY <1>1, <1>2, <1>3, <1>4, FetchAssumption
<1>6. Kept(Fetch!Cleaned(c, keep)) \subseteq (N \cup {keep}) \cup {launched}
  BY DEF Kept, Fetch!Cleaned
<1> QED
  BY <1>3, <1>5, <1>6, FewBounded DEF Few

\* Files that go make it fewer.
LEMMA FewerAreFew ==
  ASSUME NEW c, NEW d, Few(c), \A v \in Versions : d[v] \in {c[v], Fetch!Absent}
  PROVE  Few(d)
<1>1. Kept(d) \subseteq Kept(c)
  BY DEF Kept
<1> QED
  BY <1>1, FewBounded DEF Few

-----------------------------------------------------------------------------
(* The requests.                                                            *)

Hosts == Fetch!BoundedSeq(Fetch!Host, MaxRedirects + 1)

LEMMA HostsAre == Hosts = {q \in Seq(Fetch!Host) : Len(q) <= MaxRedirects + 1}
<1>1. ASSUME NEW q \in Hosts PROVE q \in Seq(Fetch!Host) /\ Len(q) <= MaxRedirects + 1
  <2>1. PICK m \in 0..MaxRedirects+1 : q \in [1..m -> Fetch!Host]
    BY DEF Hosts, Fetch!BoundedSeq, Fetch!SeqOf
  <2> QED
    BY <2>1, FetchAssumption
<1>2. ASSUME NEW q \in Seq(Fetch!Host), Len(q) <= MaxRedirects + 1 PROVE q \in Hosts
  <2>1. Len(q) \in 0..MaxRedirects+1 /\ q \in [1..Len(q) -> Fetch!Host]
    BY <1>2, FetchAssumption
  <2> QED
    BY <2>1 DEF Hosts, Fetch!BoundedSeq, Fetch!SeqOf
<1> QED
  BY <1>1, <1>2

Requests ==
    /\ hosts \in Hosts /\ headers \in BOOLEAN
    /\ Fetch!Confined
    /\ pc \in Fetch!Requesting => hosts # <<>>

\* What a step does with the request: it ends it, begins one, leaves it, or
\* follows a redirect.
Ended == pc' = "idle" /\ hosts' = <<>> /\ headers' = FALSE
Begun(host) == hosts' = <<host>> /\ headers' \in BOOLEAN
Left == UNCHANGED <<hosts, headers>> /\ (pc' = pc \/ pc' \notin Fetch!Requesting)
Followed(to) ==
    /\ pc \in Fetch!Requesting
    /\ Fetch!FollowsRedirects(Head(hosts)) /\ Fetch!Allowed(Fetch!Last(hosts), to)
    /\ Len(hosts) <= MaxRedirects
    /\ hosts' = Append(hosts, to)
    /\ headers' = (headers /\ to = Fetch!Last(hosts))

LEMMA RequestMoves ==
  Fetch!Next => \/ Ended \/ Left
                \/ \E host \in Fetch!Host : Begun(host)
                \/ \E to \in Fetch!Host : Followed(to)
<1> SUFFICES ASSUME Fetch!Next
             PROVE  \/ Ended \/ Left
                    \/ \E host \in Fetch!Host : Begun(host)
                    \/ \E to \in Fetch!Host : Followed(to)
  OBVIOUS
<1>1. CASE Fetch!Check \/ Fetch!FetchLimits \/ Fetch!StartInstall
  <2>1. \E host \in Fetch!Host, with \in BOOLEAN : hosts' = <<host>> /\ headers' = with
    BY <1>1 DEF Fetch!Check, Fetch!FetchLimits, Fetch!StartInstall, Fetch!Ask, Fetch!Host
  <2> QED
    BY <2>1 DEF Begun
<1>2. ASSUME NEW to \in Fetch!Host, Fetch!Redirect(to) PROVE Ended \/ Followed(to)
  BY <1>2 DEF Fetch!Redirect, Fetch!Abandon, Fetch!Rest, Ended, Followed
<1>3. CASE Fetch!RequestFails \/ Fetch!LimitsAnswer \/ Fetch!FileFails \/ Fetch!Withdraw
           \/ Fetch!End
  BY <1>3 DEF Fetch!RequestFails, Fetch!LimitsAnswer, Fetch!FileFails, Fetch!Withdraw,
              Fetch!End, Fetch!Abandon, Fetch!Rest, Ended
<1>4. ASSUME NEW r, Fetch!ReleaseAnswer(r) PROVE Ended
  BY <1>4 DEF Fetch!ReleaseAnswer, Fetch!Rest, Ended
<1>5. ASSUME NEW m, Fetch!ChecksumAnswer(m)
      PROVE  Ended \/ Begun("github")
  BY <1>5 DEF Fetch!ChecksumAnswer, Fetch!Abandon, Fetch!Rest, Fetch!Ask, Ended, Begun
<1>6. CASE Fetch!InstallerAnswer \/ Fetch!Hash
  BY <1>6 DEF Fetch!InstallerAnswer, Fetch!Hash, Fetch!Abandon, Fetch!Rest, Fetch!request,
              Fetch!Requesting, Ended, Left
<1>7. CASE Fetch!Swap
  BY <1>7 DEF Fetch!Swap, Fetch!request, Fetch!Requesting, Left
<1>8. CASE Fetch!Launch
  BY <1>8 DEF Fetch!Launch, Fetch!request, Fetch!Rest, Fetch!Requesting, Ended, Left
<1>9. CASE Fetch!Cancel \/ Fetch!InstallerEnds
  BY <1>9 DEF Fetch!Cancel, Fetch!InstallerEnds, Fetch!request, Left
<1>10. "github" \in Fetch!Host
  BY DEF Fetch!Host
<1> QED
  BY <1>1, <1>2, <1>3, <1>4, <1>5, <1>6, <1>7, <1>8, <1>9, <1>10 DEF Fetch!Next

\* One redirect keeps a request to its hosts: the last host was the first one,
\* or it is a release host that was reached from github.com.
LEMMA FollowedConfined ==
  ASSUME Requests, NEW to \in Fetch!Host, Followed(to)
  PROVE  Requests'
<1>1. /\ hosts \in Seq(Fetch!Host) /\ Len(hosts) \in Nat /\ Len(hosts) > 0
      /\ Len(hosts) <= MaxRedirects
  BY HostsAre DEF Requests, Followed
<1> DEFINE last == hosts[Len(hosts)]
<1>2. /\ Fetch!Allowed(last, to) /\ hosts' = Append(hosts, to)
      /\ last \in Fetch!Host
  BY <1>1 DEF Followed, Fetch!Last
<1>3. headers' = (headers /\ to = last)
  BY DEF Followed, Fetch!Last
<1>4. /\ hosts' \in Seq(Fetch!Host) /\ Len(hosts') = Len(hosts) + 1 /\ hosts' # <<>>
      /\ \A i \in 1..Len(hosts) : hosts'[i] = hosts[i]
      /\ hosts'[Len(hosts) + 1] = to
  BY <1>1, <1>2
<1>5. hosts' \in Hosts
  BY <1>1, <1>4, HostsAre, FetchAssumption
<1>6. headers' \in BOOLEAN
  BY <1>3
<1>7. ASSUME NEW i \in 1..Len(hosts), NEW j \in 1..Len(hosts), i < j
      PROVE  /\ hosts[i] # hosts[j] => hosts[i] = "github" /\ hosts[j] \in Fetch!Cdn
             /\ headers => hosts[i] = hosts[j]
  BY <1>1, <1>7 DEF Requests, Fetch!Confined
<1>8. ASSUME NEW i \in 1..Len(hosts)
      PROVE  /\ hosts[i] # to => hosts[i] = "github" /\ to \in Fetch!Cdn
             /\ headers' => hosts[i] = to
  <2>1. hosts[i] # last => hosts[i] = "github" /\ last \in Fetch!Cdn
    BY <1>1, <1>7
  <2>2. headers => hosts[i] = last
    BY <1>1, <1>7
  <2>3. last # to => last = "github" /\ to \in Fetch!Cdn
    BY <1>2 DEF Fetch!Allowed, Fetch!Host, Fetch!Cdn
  <2>4. "github" \notin Fetch!Cdn
    BY DEF Fetch!Cdn
  <2>5. headers' => hosts[i] = to
    BY <2>2, <1>3
  <2> QED
    BY <2>1, <2>3, <2>4, <2>5
<1>9. Fetch!Confined'
  <2> SUFFICES ASSUME NEW i \in DOMAIN hosts', NEW j \in DOMAIN hosts', i < j
               PROVE  /\ hosts'[i] # hosts'[j] => hosts'[i] = "github" /\ hosts'[j] \in Fetch!Cdn
                      /\ headers' => hosts'[i] = hosts'[j]
    BY DEF Fetch!Confined
  <2>1. i \in 1..Len(hosts) /\ (j \in 1..Len(hosts) \/ j = Len(hosts) + 1)
    BY <1>1, <1>4
  <2>2. headers' => headers
    BY <1>3
  <2>3. CASE j \in 1..Len(hosts)
    BY <2>1, <2>2, <2>3, <1>4, <1>7
  <2>4. CASE j = Len(hosts) + 1
    BY <2>1, <2>4, <1>4, <1>8
  <2> QED
    BY <2>1, <2>3, <2>4
<1> QED
  BY <1>4, <1>5, <1>6, <1>9 DEF Requests

LEMMA RequestsKept == Requests /\ [Fetch!Next]_fetchVars => Requests'
<1> SUFFICES ASSUME Requests, [Fetch!Next]_fetchVars PROVE Requests'
  OBVIOUS
<1>1. CASE Ended
  <2>1. hosts' \in Hosts
    BY <1>1, HostsAre, FetchAssumption DEF Ended
  <2>2. headers' \in BOOLEAN
    BY <1>1 DEF Ended
  <2>3. Fetch!Confined'
    BY <1>1 DEF Ended, Fetch!Confined
  <2>4. pc' \notin Fetch!Requesting
    BY <1>1 DEF Ended, Fetch!Requesting
  <2> QED
    BY <2>1, <2>2, <2>3, <2>4 DEF Requests
<1>2. ASSUME NEW host \in Fetch!Host, Begun(host) PROVE Requests'
  <2>1. hosts' = <<host>> /\ hosts' \in Seq(Fetch!Host) /\ Len(hosts') = 1
    BY <1>2 DEF Begun
  <2>2. hosts' \in Hosts
    BY <2>1, HostsAre, FetchAssumption
  <2>3. headers' \in BOOLEAN
    BY <1>2 DEF Begun
  <2>4. Fetch!Confined'
    BY <2>1 DEF Fetch!Confined
  <2> QED
    BY <2>1, <2>2, <2>3, <2>4 DEF Requests
<1>3. CASE Left
  <2>1. hosts' \in Hosts
    BY <1>3 DEF Left, Requests
  <2>2. headers' \in BOOLEAN
    BY <1>3 DEF Left, Requests
  <2>3. Fetch!Confined'
    BY <1>3 DEF Left, Requests, Fetch!Confined
  <2>4. pc' \in Fetch!Requesting => hosts' # <<>>
    BY <1>3 DEF Left, Requests
  <2> QED
    BY <2>1, <2>2, <2>3, <2>4 DEF Requests
<1>4. ASSUME NEW to \in Fetch!Host, Followed(to) PROVE Requests'
  BY <1>4, FollowedConfined
<1>5. CASE UNCHANGED fetchVars
  <2>1. Left
    BY <1>5 DEF fetchVars, Left
  <2> QED
    BY <2>1, <1>3
<1> QED
  BY <1>1, <1>2, <1>3, <1>4, <1>5, RequestMoves

-----------------------------------------------------------------------------
(* The files.  What is under an installer's name came there from a partial  *)
(* file that was hashed just before; the candidate and the launched         *)
(* installer are ahead of the version that runs, since that changes only    *)
(* when both are dropped.                                                   *)

Bytes == Fetch!Content \cup {Fetch!Absent}
FilePcs == Fetch!Requesting \cup {"idle", "hash", "swap", "launch", "exiting"}

FilesTyped ==
    /\ running \in Versions
    /\ exe \in [Versions -> Bytes] /\ partial \in [Versions -> Bytes]
    /\ launched \in Versions \cup {0} /\ candidate \in Versions \cup {0}
    /\ pc \in FilePcs

Ahead ==
    /\ candidate # 0 => candidate > running
    /\ launched # 0 => launched > running
Chosen == pc \in {"checksum", "installer", "hash", "swap", "launch"} => candidate # 0
Hashed == pc = "swap" => partial[candidate] = "good"

FilesSafe ==
    /\ FilesTyped /\ Fetch!OnlyVerified /\ Few(exe)
    /\ Ahead /\ Chosen /\ Hashed

LEMMA CleanedKeeps ==
  ASSUME NEW c \in [Versions -> Bytes], NEW keep
  PROVE  /\ Fetch!Cleaned(c, keep) \in [Versions -> Bytes]
         /\ \A v \in Versions : Fetch!Cleaned(c, keep)[v] \in {c[v], "absent"}
BY DEF Fetch!Cleaned, Bytes, Fetch!Absent

\* Steps that leave the files, the candidate or none, and the running version.
LEMMA Unmoved ==
  ASSUME FilesSafe, UNCHANGED <<running, exe, partial, launched>>,
         candidate' = candidate \/ (candidate' = 0 /\ pc' \in {"idle", "release", "limits"}),
         \/ pc' \in {"idle", "release", "limits", "exiting"}
         \/ pc' = pc
         \/ pc' = "checksum" /\ candidate # 0
  PROVE  FilesSafe'
<1>1. FilesTyped'
  BY DEF FilesSafe, FilesTyped, FilePcs, Fetch!Requesting
<1>2. Fetch!OnlyVerified'
  BY DEF FilesSafe, Fetch!OnlyVerified
<1>3. Few(exe)'
  BY DEF FilesSafe, Few, Kept
<1>4. Ahead'
  BY DEF FilesSafe, Ahead
<1>5. Chosen'
  BY DEF FilesSafe, Chosen
<1>6. Hashed'
  BY DEF FilesSafe, Hashed
<1> QED
  BY <1>1, <1>2, <1>3, <1>4, <1>5, <1>6 DEF FilesSafe

\* A worker that gives up drops the partial file it was at.
LEMMA AbandonSafe == FilesSafe /\ Fetch!Abandon => FilesSafe'
<1> SUFFICES ASSUME FilesSafe, Fetch!Abandon PROVE FilesSafe'
  OBVIOUS
<1>1. /\ pc' = "idle" /\ candidate' \in {candidate, 0}
      /\ partial' = partial \/ partial' = [partial EXCEPT ![candidate] = "absent"]
      /\ UNCHANGED <<running, exe, launched>>
  BY DEF Fetch!Abandon, Fetch!Rest, Fetch!NoVersion, Fetch!Absent
<1>2. partial' \in [Versions -> Bytes]
  BY <1>1 DEF FilesSafe, FilesTyped, Bytes, Fetch!Absent
<1>3. FilesTyped'
  BY <1>1, <1>2 DEF FilesSafe, FilesTyped, FilePcs
<1>4. Fetch!OnlyVerified' /\ Few(exe)'
  BY <1>1 DEF FilesSafe, Fetch!OnlyVerified, Few, Kept
<1>5. Ahead' /\ Chosen' /\ Hashed'
  BY <1>1 DEF FilesSafe, Ahead, Chosen, Hashed
<1> QED
  BY <1>3, <1>4, <1>5 DEF FilesSafe

\* The answers: what is selected is newer than what runs.
LEMMA AnswersSafe ==
  ASSUME FilesSafe,
         \/ \E r \in Fetch!Release : Fetch!ReleaseAnswer(r)
         \/ \E m \in Fetch!Manifests : Fetch!ChecksumAnswer(m)
         \/ Fetch!InstallerAnswer
  PROVE  FilesSafe'
<1>1. ASSUME NEW r \in Fetch!Release, Fetch!ReleaseAnswer(r) PROVE FilesSafe'
  <2>1. /\ pc' = "idle" /\ candidate' = Fetch!Select(r)
        /\ UNCHANGED <<running, exe, partial, launched>>
    BY <1>1 DEF Fetch!ReleaseAnswer, Fetch!Rest, Fetch!files
  <2>2. candidate' \in Versions \cup {0} /\ (candidate' # 0 => candidate' > running)
    BY <2>1 DEF Fetch!Select, Fetch!Newer, Fetch!Release, Fetch!Tag, Fetch!NoVersion
  <2>3. FilesTyped'
    BY <2>1, <2>2 DEF FilesSafe, FilesTyped, FilePcs
  <2>4. Fetch!OnlyVerified' /\ Few(exe)'
    BY <2>1 DEF FilesSafe, Fetch!OnlyVerified, Few, Kept
  <2>5. Ahead' /\ Chosen' /\ Hashed'
    BY <2>1, <2>2 DEF FilesSafe, Ahead, Chosen, Hashed
  <2> QED
    BY <2>3, <2>4, <2>5 DEF FilesSafe
<1>2. ASSUME NEW m \in Fetch!Manifests, Fetch!ChecksumAnswer(m) PROVE FilesSafe'
  <2>1. CASE Fetch!Abandon
    BY <2>1, AbandonSafe
  <2>2. CASE ~Fetch!Abandon
    <3>1. /\ pc = "checksum" /\ pc' = "installer"
          /\ exe' = Fetch!Cleaned(exe, 0)
          /\ partial' = [Fetch!NoPart EXCEPT ![candidate] = "cut"]
          /\ UNCHANGED <<running, launched, candidate>>
      BY <1>2, <2>2 DEF Fetch!ChecksumAnswer, Fetch!Ask, Fetch!NoVersion
    <3>2. /\ exe' \in [Versions -> Bytes]
          /\ \A v \in Versions : exe'[v] \in {exe[v], "absent"}
      BY <3>1, CleanedKeeps DEF FilesSafe, FilesTyped
    <3>3. partial' \in [Versions -> Bytes]
      BY <3>1 DEF Fetch!NoPart, Bytes, Fetch!Absent, Fetch!Content
    <3>4. FilesTyped'
      BY <3>1, <3>2, <3>3 DEF FilesSafe, FilesTyped, FilePcs, Fetch!Requesting
    <3>5. Fetch!OnlyVerified'
      BY <3>2 DEF FilesSafe, Fetch!OnlyVerified, Fetch!Absent
    <3>6. Few(exe)'
      BY <3>1, CleanedAreFew DEF Few, Kept
    <3>7. Ahead' /\ Chosen' /\ Hashed'
      BY <3>1 DEF FilesSafe, Ahead, Chosen, Hashed
    <3> QED
      BY <3>4, <3>5, <3>6, <3>7 DEF FilesSafe
  <2> QED
    BY <2>1, <2>2
<1>3. CASE Fetch!InstallerAnswer
  <2>1. CASE Fetch!Abandon
    BY <2>1, AbandonSafe
  <2>2. CASE ~Fetch!Abandon
    <3>1. /\ pc = "installer" /\ pc' = "hash"
          /\ \E c \in {"good", "bad"} : partial' = [partial EXCEPT ![candidate] = c]
          /\ UNCHANGED <<running, exe, launched, candidate>>
      BY <1>3, <2>2 DEF Fetch!InstallerAnswer
    <3>2. partial' \in [Versions -> Bytes]
      BY <3>1 DEF FilesSafe, FilesTyped, Bytes, Fetch!Content
    <3>3. FilesTyped'
      BY <3>1, <3>2 DEF FilesSafe, FilesTyped, FilePcs
    <3>4. Fetch!OnlyVerified' /\ Few(exe)'
      BY <3>1 DEF FilesSafe, Fetch!OnlyVerified, Few, Kept
    <3>5. Ahead' /\ Chosen' /\ Hashed'
      BY <3>1 DEF FilesSafe, Ahead, Chosen, Hashed
    <3> QED
      BY <3>3, <3>4, <3>5 DEF FilesSafe
  <2> QED
    BY <2>1, <2>2
<1> QED
  BY <1>1, <1>2, <1>3

\* From the hash to the launch: only bytes that were hashed are renamed.
LEMMA InstallSafe ==
  ASSUME FilesSafe,
         Fetch!Hash \/ Fetch!FileFails \/ Fetch!Swap \/ Fetch!Withdraw \/ Fetch!Launch
  PROVE  FilesSafe'
<1>t. /\ exe \in [Versions -> Bytes] /\ partial \in [Versions -> Bytes]
      /\ candidate \in Versions \cup {0}
  BY DEF FilesSafe, FilesTyped
<1>1. CASE Fetch!Hash
  <2>1. CASE Fetch!Abandon
    BY <2>1, AbandonSafe
  <2>2. CASE ~Fetch!Abandon
    <3>1. /\ pc = "hash" /\ pc' = "swap" /\ partial[candidate] = "good"
          /\ UNCHANGED <<running, exe, partial, launched, candidate>>
      BY <1>1, <2>2 DEF Fetch!Hash, Fetch!files
    <3>2. FilesTyped' /\ Fetch!OnlyVerified' /\ Few(exe)'
      BY <3>1 DEF FilesSafe, FilesTyped, FilePcs, Fetch!OnlyVerified, Few, Kept
    <3>3. Ahead' /\ Chosen' /\ Hashed'
      BY <3>1 DEF FilesSafe, Ahead, Chosen, Hashed
    <3> QED
      BY <3>2, <3>3 DEF FilesSafe
  <2> QED
    BY <2>1, <2>2
<1>2. CASE Fetch!FileFails
  <2>1. /\ pc' = "idle" /\ candidate' = 0
        /\ exe' = exe \/ exe' = [exe EXCEPT ![candidate] = "absent"]
        /\ UNCHANGED <<running, partial, launched>>
    BY <1>2 DEF Fetch!FileFails, Fetch!Rest, Fetch!NoVersion, Fetch!Absent
  <2>2. /\ exe' \in [Versions -> Bytes]
        /\ \A v \in Versions : exe'[v] \in {exe[v], "absent"}
    BY <2>1, <1>t DEF Bytes, Fetch!Absent
  <2>3. FilesTyped'
    BY <2>1, <2>2 DEF FilesSafe, FilesTyped, FilePcs
  <2>4. Fetch!OnlyVerified'
    BY <2>2 DEF FilesSafe, Fetch!OnlyVerified, Fetch!Absent
  <2>5. Few(exe')
    BY <2>2, FewerAreFew DEF FilesSafe, Fetch!Absent
  <2>6. Few(exe)'
    BY <2>5 DEF Few, Kept
  <2>7. Ahead' /\ Chosen' /\ Hashed'
    BY <2>1 DEF FilesSafe, Ahead, Chosen, Hashed
  <2> QED
    BY <2>3, <2>4, <2>6, <2>7 DEF FilesSafe
<1>3. CASE Fetch!Swap
  <2> DEFINE swapped == [exe EXCEPT ![candidate] = partial[candidate]]
  <2>1. /\ pc = "swap" /\ pc' = "launch"
        /\ exe' = Fetch!Cleaned(swapped, candidate)
        /\ partial' = Fetch!NoPart
        /\ UNCHANGED <<running, launched, candidate>>
    BY <1>3 DEF Fetch!Swap
  <2>2. candidate \in Versions /\ partial[candidate] = "good"
    BY <2>1, <1>t DEF FilesSafe, Chosen, Hashed
  <2>3. swapped \in [Versions -> Bytes] /\ \A v \in Versions : swapped[v] \in {"absent", "good"}
    BY <2>2, <1>t DEF FilesSafe, Fetch!OnlyVerified, Bytes, Fetch!Absent, Fetch!Content
  <2>4. /\ exe' \in [Versions -> Bytes]
        /\ \A v \in Versions : exe'[v] \in {swapped[v], "absent"}
    BY <2>1, <2>3, CleanedKeeps
  <2>5. partial' \in [Versions -> Bytes]
    BY <2>1 DEF Fetch!NoPart, Bytes, Fetch!Absent
  <2>6. FilesTyped'
    BY <2>1, <2>4, <2>5 DEF FilesSafe, FilesTyped, FilePcs
  <2>7. Fetch!OnlyVerified'
    BY <2>3, <2>4 DEF Fetch!OnlyVerified, Fetch!Absent
  <2>8. Few(exe)'
    BY <2>1, CleanedAreFew DEF Few, Kept
  <2>9. Ahead' /\ Chosen' /\ Hashed'
    BY <2>1 DEF FilesSafe, Ahead, Chosen, Hashed
  <2> QED
    BY <2>6, <2>7, <2>8, <2>9 DEF FilesSafe
<1>4. CASE Fetch!Withdraw
  <2>1. /\ pc' = "idle" /\ candidate' = 0
        /\ exe' = [exe EXCEPT ![candidate] = "absent"]
        /\ UNCHANGED <<running, partial, launched>>
    BY <1>4 DEF Fetch!Withdraw, Fetch!Rest, Fetch!NoVersion, Fetch!Absent
  <2>2. /\ exe' \in [Versions -> Bytes]
        /\ \A v \in Versions : exe'[v] \in {exe[v], "absent"}
    BY <2>1, <1>t DEF Bytes, Fetch!Absent
  <2>3. FilesTyped'
    BY <2>1, <2>2 DEF FilesSafe, FilesTyped, FilePcs
  <2>4. Fetch!OnlyVerified'
    BY <2>2 DEF FilesSafe, Fetch!OnlyVerified, Fetch!Absent
  <2>5. Few(exe')
    BY <2>2, FewerAreFew DEF FilesSafe, Fetch!Absent
  <2>6. Few(exe)'
    BY <2>5 DEF Few, Kept
  <2>7. Ahead' /\ Chosen' /\ Hashed'
    BY <2>1 DEF FilesSafe, Ahead, Chosen, Hashed
  <2> QED
    BY <2>3, <2>4, <2>6, <2>7 DEF FilesSafe
<1>5. CASE Fetch!Launch
  <2>1. /\ pc = "launch"
        /\ exe' = exe \/ exe' = Fetch!Cleaned(exe, candidate)
        /\ \/ launched' = candidate /\ pc' = "exiting" /\ candidate' = candidate
           \/ pc' = "idle" /\ candidate' = 0 /\ launched' = launched
        /\ UNCHANGED <<running, partial>>
    BY <1>5 DEF Fetch!Launch, Fetch!Rest, Fetch!NoVersion
  <2>2. /\ exe' \in [Versions -> Bytes]
        /\ \A v \in Versions : exe'[v] \in {exe[v], "absent"}
    BY <2>1, <1>t, CleanedKeeps
  <2>3. FilesTyped'
    BY <2>1, <2>2 DEF FilesSafe, FilesTyped, FilePcs
  <2>4. Fetch!OnlyVerified'
    BY <2>2 DEF FilesSafe, Fetch!OnlyVerified, Fetch!Absent
  <2>5. Few(exe')
    BY <2>2, FewerAreFew DEF FilesSafe, Fetch!Absent
  <2>6. Few(exe)'
    BY <2>5 DEF Few, Kept
  <2>7. Ahead' /\ Chosen' /\ Hashed'
    BY <2>1 DEF FilesSafe, Ahead, Chosen, Hashed
  <2> QED
    BY <2>3, <2>4, <2>6, <2>7 DEF FilesSafe
<1> QED
  BY <1>1, <1>2, <1>3, <1>4, <1>5

LEMMA FilesSafeKept ==
  FilesSafe /\ [Fetch!Next]_fetchVars => FilesSafe' /\ running' >= running
<1> SUFFICES ASSUME FilesSafe, [Fetch!Next]_fetchVars
             PROVE  FilesSafe' /\ running' >= running
  OBVIOUS
<1>t. running \in Nat /\ launched \in Versions \cup {0} /\ running \in Versions
  BY FetchAssumption DEF FilesSafe, FilesTyped
<1>1. CASE Fetch!InstallerEnds
  <2>1. /\ launched # 0 /\ launched' = 0 /\ running' \in {running, launched}
        /\ candidate' = 0 /\ pc = "idle" /\ UNCHANGED <<exe, partial, pc>>
    BY <1>1 DEF Fetch!InstallerEnds, Fetch!NoVersion, Fetch!files
  <2>2. running' \in Versions /\ running' >= running
    BY <2>1, <1>t, FetchAssumption DEF FilesSafe, Ahead
  <2>3. FilesTyped' /\ Fetch!OnlyVerified' /\ Few(exe)'
    BY <2>1, <2>2 DEF FilesSafe, FilesTyped, Fetch!OnlyVerified, Few, Kept
  <2>4. Ahead' /\ Chosen' /\ Hashed'
    BY <2>1 DEF Ahead, Chosen, Hashed
  <2> QED
    BY <2>2, <2>3, <2>4 DEF FilesSafe
<1>2. CASE Fetch!Next /\ ~Fetch!InstallerEnds
  <2>1. UNCHANGED running
    <3>1. CASE \E to \in Fetch!Host : Fetch!Redirect(to)
      BY <3>1 DEF Fetch!Redirect, Fetch!Abandon
    <3>2. CASE \/ \E r \in Fetch!Release : Fetch!ReleaseAnswer(r)
               \/ \E m \in Fetch!Manifests : Fetch!ChecksumAnswer(m)
      BY <3>2 DEF Fetch!ReleaseAnswer, Fetch!ChecksumAnswer, Fetch!Abandon
    <3>3. CASE Fetch!Check \/ Fetch!FetchLimits \/ Fetch!StartInstall \/ Fetch!RequestFails
               \/ Fetch!LimitsAnswer \/ Fetch!InstallerAnswer \/ Fetch!Hash
      BY <3>3 DEF Fetch!Check, Fetch!FetchLimits, Fetch!StartInstall, Fetch!RequestFails,
                  Fetch!LimitsAnswer, Fetch!InstallerAnswer, Fetch!Hash, Fetch!Abandon
    <3>4. CASE Fetch!FileFails \/ Fetch!Swap \/ Fetch!Withdraw \/ Fetch!Launch \/ Fetch!End
               \/ Fetch!Cancel
      BY <3>4 DEF Fetch!FileFails, Fetch!Swap, Fetch!Withdraw, Fetch!Launch, Fetch!End,
                  Fetch!Cancel
    <3> QED
      BY <1>2, <3>1, <3>2, <3>3, <3>4 DEF Fetch!Next
  <2>2. FilesSafe'
    <3>1. CASE Fetch!Check \/ Fetch!FetchLimits \/ Fetch!LimitsAnswer \/ Fetch!End
      BY <3>1, Unmoved DEF Fetch!Check, Fetch!FetchLimits, Fetch!LimitsAnswer, Fetch!End,
                           Fetch!Ask, Fetch!Rest, Fetch!files, Fetch!NoVersion
    <3>2. CASE Fetch!StartInstall
      BY <3>2, Unmoved DEF Fetch!StartInstall, Fetch!Ask, Fetch!files, Fetch!NoVersion
    <3>3. ASSUME NEW to \in Fetch!Host, Fetch!Redirect(to) PROVE FilesSafe'
      <4>1. CASE Fetch!Abandon
        BY <4>1, AbandonSafe
      <4>2. CASE ~Fetch!Abandon
        BY <3>3, <4>2, Unmoved DEF Fetch!Redirect, Fetch!files
      <4> QED
        BY <4>1, <4>2
    <3>4. CASE Fetch!RequestFails
      BY <3>4, AbandonSafe DEF Fetch!RequestFails
    <3>5. CASE Fetch!Cancel
      BY <3>5, Unmoved DEF Fetch!Cancel, Fetch!files
    <3>6. CASE \/ \E r \in Fetch!Release : Fetch!ReleaseAnswer(r)
               \/ \E m \in Fetch!Manifests : Fetch!ChecksumAnswer(m)
               \/ Fetch!InstallerAnswer
      BY <3>6, AnswersSafe
    <3>7. CASE Fetch!Hash \/ Fetch!FileFails \/ Fetch!Swap \/ Fetch!Withdraw \/ Fetch!Launch
      BY <3>7, InstallSafe
    <3> QED
      BY <1>2, <3>1, <3>2, <3>3, <3>4, <3>5, <3>6, <3>7 DEF Fetch!Next
  <2> QED
    BY <2>1, <2>2, <1>t
<1>3. CASE UNCHANGED fetchVars
  <2>1. UNCHANGED <<running, exe, partial, launched, pc, candidate>>
    BY <1>3 DEF fetchVars
  <2>2. FilesSafe'
    BY <2>1, Unmoved
  <2> QED
    BY <2>1, <2>2, <1>t
<1> QED
  BY <1>1, <1>2, <1>3

Safe == FilesSafe /\ Requests /\ leaving \in BOOLEAN

LEMMA SafeInitially == Fetch!Init => Safe
<1> SUFFICES ASSUME Fetch!Init PROVE Safe
  OBVIOUS
<1>1. /\ running = 1 /\ exe = Fetch!NoPart /\ partial = Fetch!NoPart /\ launched = 0
      /\ pc = "idle" /\ candidate = 0 /\ hosts = <<>>
  BY DEF Fetch!Init, Fetch!NoVersion
<1>2. FilesTyped
  BY <1>1, FetchAssumption DEF FilesTyped, Fetch!NoPart, Bytes, Fetch!Absent, FilePcs
<1>3. Fetch!OnlyVerified /\ Ahead /\ Chosen /\ Hashed
  BY <1>1 DEF Fetch!OnlyVerified, Fetch!NoPart, Ahead, Chosen, Hashed
<1>4. Few(exe)
  <2>1. Kept(exe) = {}
    BY <1>1 DEF Kept, Fetch!NoPart
  <2> QED
    BY <2>1, FS_EmptySet, FetchAssumption DEF Few
<1>5. hosts \in Hosts
  BY <1>1, HostsAre, FetchAssumption
<1>6. Fetch!Confined /\ pc \notin Fetch!Requesting
  BY <1>1 DEF Fetch!Confined, Fetch!Requesting
<1>7. headers \in BOOLEAN
  BY DEF Fetch!Init
<1>8. leaving \in BOOLEAN
  BY DEF Fetch!Init
<1> QED
  BY <1>2, <1>3, <1>4, <1>5, <1>6, <1>7, <1>8 DEF Safe, FilesSafe, Requests

LEMMA LeavingTyped == leaving \in BOOLEAN /\ [Fetch!Next]_fetchVars => leaving' \in BOOLEAN
<1> SUFFICES ASSUME leaving \in BOOLEAN, [Fetch!Next]_fetchVars PROVE leaving' \in BOOLEAN
  OBVIOUS
<1>1. CASE Fetch!End
  BY <1>1 DEF Fetch!End
<1>2. CASE Fetch!Cancel
  BY <1>2 DEF Fetch!Cancel
<1>3. CASE Fetch!Next /\ ~Fetch!End /\ ~Fetch!Cancel
  <2>1. UNCHANGED leaving
    BY <1>3 DEF Fetch!Next, Fetch!Check, Fetch!FetchLimits, Fetch!StartInstall,
       Fetch!Redirect, Fetch!RequestFails, Fetch!ReleaseAnswer, Fetch!LimitsAnswer,
       Fetch!ChecksumAnswer, Fetch!InstallerAnswer, Fetch!Hash, Fetch!FileFails,
       Fetch!Swap, Fetch!Withdraw, Fetch!Launch, Fetch!InstallerEnds, Fetch!Abandon
  <2> QED
    BY <2>1
<1>4. CASE UNCHANGED fetchVars
  BY <1>4 DEF fetchVars
<1> QED
  BY <1>1, <1>2, <1>3, <1>4

\* No file has an installer's name unless its bytes are those its manifest names;
\* a request leaves its host only for a release host and without its headers; the
\* cache holds few installers; the version that runs never goes back: for any
\* releases, redirects, cancels, failing file operations and stops
\* (download_installer, github_redirect_allowed, cleanup_update_cache,
\* select_update).
THEOREM FetchesSafely == UpdatesSpec => FetchedSafely
<1>1. UpdatesInit => Safe
  BY SafeInitially DEF UpdatesInit
<1>2. [UpdatesNext]_updatesVars => [Fetch!Next]_fetchVars
  BY DEF UpdatesNext, OfProtocol, OfSchedule, OfFetch, updatesVars
<1>3. Safe /\ [Fetch!Next]_fetchVars => Safe' /\ running' >= running
  BY FilesSafeKept, RequestsKept, LeavingTyped DEF Safe
<1>4. Safe => Fetch!TypeOK
  BY DEF Safe, FilesSafe, FilesTyped, FilePcs, Requests, Hosts, Bytes, Fetch!TypeOK,
         Fetch!NoVersion
<1>5. Safe => Fetch!OnlyVerified /\ Fetch!Confined
  BY DEF Safe, FilesSafe, Requests
<1>6. Safe => Fetch!CacheBounded
  BY SameCount DEF Safe, FilesSafe, Few, Kept, Fetch!CacheBounded
<1>7. Safe /\ [UpdatesNext]_updatesVars => Safe' /\ [running' >= running]_(Fetch!vars)
  BY <1>2, <1>3
<1> QED
  BY <1>1, <1>4, <1>5, <1>6, <1>7, PTL DEF UpdatesSpec, FetchedSafely, Fetch!OnlyForward
=============================================================================
