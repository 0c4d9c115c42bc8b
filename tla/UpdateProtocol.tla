--------------------------- MODULE UpdateProtocol ---------------------------
(***************************************************************************)
(* Update checks and installs of RunDog.  The message-loop thread owns the *)
(* schedule and starts short-lived workers; a worker fetches or downloads, *)
(* stores its result in the shared state, and posts a message that may be  *)
(* late or lost.  Leaving the program races with the launch of the         *)
(* installer; a gate decides which comes first.  When a check is due is    *)
(* the matter of UpdateSchedule: here the clock may say so at any tick.    *)
(***************************************************************************)
EXTENDS Naturals, Sequences, FiniteSets

CONSTANTS
    Workers,      \* thread slots; bound: workers alive at once
    QueueLimit,   \* posted messages the window's queue holds
    Lossy,        \* may PostMessageW fail while the queue has room?
    MaxCommands,  \* bound: menu commands of one session
    MaxFaults,    \* bound: failed checks and installs of one session
    None

ASSUME ProtocolAssumption ==
    /\ QueueLimit \in Nat /\ MaxCommands \in Nat /\ MaxFaults \in Nat
    /\ Lossy \in BOOLEAN

VARIABLES
    state,         \* UpdateController.state
    worker,        \* what the thread in each slot does next
    cancelled,     \* UpdateController.cancelled
    inFlight,      \* UpdateSchedule.in_flight
    failures,      \* UpdateSchedule.consecutive_failures
    over,          \* UpdateSchedule.cancelled
    queue,         \* messages posted to the window
    ui,            \* where the message-loop thread is
    autoUpdate,    \* the auto_update setting
    launches,      \* installers launched so far
    faults,        \* checks and installs that failed so far
    latest,        \* history: who asked for the latest check that started
    commands       \* menu commands taken so far

schedule == <<inFlight, failures, over>>
counters == <<launches, faults, commands>>
vars == <<state, worker, cancelled, schedule, queue, ui, autoUpdate, counters,
          latest>>

States   == {"Idle", "Checking", "Current", "Available", "Downloading",
             "Launching", "Failed"}
Outcomes == {"Current", "Available", "Failed"}
Messages == {"check_done", "install_failed", "request_exit"}
Checks   == {"fetching", "storing_check"}
Installs == {"downloading", "verified", "launching", "launched", "failed",
             "storing_launched", "storing_failed"}
Posts    == {"posting_check", "posting_exit", "posting_failed"}

TypeOK ==
    /\ state \in States
    /\ worker \in [Workers -> {"free"} \cup Checks \cup Installs \cup Posts]
    /\ cancelled \in BOOLEAN
    /\ inFlight \in {"Automatic", "Manual", None}
    /\ failures \in Nat
    /\ over \in BOOLEAN
    /\ queue \in Seq(Messages)
    /\ ui \in {"running", "ticking", "cancelling", "quitting", "ended"}
    /\ autoUpdate \in BOOLEAN
    /\ launches \in Nat /\ faults \in Nat /\ commands \in Nat
    /\ latest \in {"Automatic", "Manual", None}

Init ==
    /\ state = "Idle"
    /\ worker = [w \in Workers |-> "free"]
    /\ cancelled = FALSE
    /\ inFlight = None
    /\ failures = 0
    /\ over = FALSE
    /\ queue = <<>>
    /\ ui = "ticking"    \* start_update_checks ends in tick_update
    /\ autoUpdate \in BOOLEAN
    /\ launches = 0 /\ faults = 0 /\ commands = 0
    /\ latest = None

-----------------------------------------------------------------------------
(* Shared helpers.  rest is the queue without the message being handled.   *)

\* PostMessageW fails when the queue is full; its result is ignored.
Post(rest, message) ==
    \/ Len(rest) < QueueLimit /\ queue' = Append(rest, message)
    \/ (Lossy \/ Len(rest) >= QueueLimit) /\ queue' = rest

\* Mutants: an installer that runs, or a download, does not count as work.
BusyUntilLaunched == state \in {"Checking", "Downloading"}
BusyIgnoringDownload == state \in {"Checking", "Launching"}

Busy == state \in {"Checking", "Downloading", "Launching"}

Become(w, step) == worker' = [worker EXCEPT ![w] = step]

\* thread::Builder::spawn: a thread in a free slot, or an error that the caller
\* turns into Failed and a message to itself.
Spawn(active, step, rest, message) ==
    \/ /\ \E w \in Workers : worker[w] = "free" /\ Become(w, step)
       /\ state' = active
       /\ queue' = rest
       /\ UNCHANGED faults
    \/ /\ faults < MaxFaults
       /\ faults' = faults + 1
       /\ state' = "Failed"
       /\ Post(rest, message)
       /\ UNCHANGED worker

\* Mutant: a check replacing one still awaited keeps that one's origin.
StartCheckKeepingOrigin(origin) ==
    /\ ~Busy
    /\ Spawn("Checking", "fetching", queue, "check_done")
    /\ inFlight' = IF over \/ inFlight # None THEN inFlight ELSE origin
    /\ latest' = origin
    /\ UNCHANGED failures

\* check_for_updates once begin_check found nothing active, then begin.
StartCheck(origin) ==
    /\ ~Busy
    /\ Spawn("Checking", "fetching", queue, "check_done")
    /\ inFlight' = IF over THEN inFlight ELSE origin
    /\ latest' = origin
    /\ UNCHANGED failures

StartInstall(rest) == Spawn("Downloading", "downloading", rest, "install_failed")

\* awaiting_result, and a check_outcome to report.
Reported == inFlight # None /\ state \in Outcomes

\* What UpdateSchedule::complete answers: only an automatic check installs, and
\* only with the setting on now.
InstallDecided == state = "Available" /\ inFlight = "Automatic" /\ autoUpdate

FinishCheck(rest) ==
    \/ /\ Reported
       /\ inFlight' = None
       /\ failures' = IF state = "Failed" THEN failures + 1 ELSE 0
       /\ \/ InstallDecided /\ StartInstall(rest)
          \/ ~InstallDecided /\ queue' = rest /\ UNCHANGED <<state, worker, faults>>
    \/ /\ ~Reported
       /\ queue' = rest
       /\ UNCHANGED <<inFlight, failures, state, worker, faults>>

-----------------------------------------------------------------------------
(* The message-loop thread.                                                *)

\* Mutant: the timer does not look for a result whose message was lost.
TickUpdateBlind ==
    /\ ui = "running" /\ queue = <<>>
    /\ ui' = "ticking"
    /\ UNCHANGED <<state, worker, cancelled, schedule, queue, autoUpdate, counters,
                   latest>>

\* tick_update, first half.  WM_TIMER is generated only on an empty queue.
TickUpdate ==
    /\ ui = "running" /\ queue = <<>>
    /\ FinishCheck(queue)
    /\ ui' = "ticking"
    /\ UNCHANGED <<cancelled, over, autoUpdate, launches, commands, latest>>

\* tick_update, second half: the workers did not wait for it.
TickDue ==
    /\ ui = "ticking"
    /\ ui' = "running"
    /\ \/ inFlight = None /\ ~over /\ StartCheck("Automatic")
       \/ UNCHANGED <<state, worker, inFlight, failures, queue, faults, latest>>
    /\ UNCHANGED <<cancelled, over, autoUpdate, launches, commands>>

Looping == ui \in {"running", "quitting"}

\* Mutant: a message without a result to report is posted again.
HandleCheckDoneReposting ==
    /\ Looping /\ queue # <<>> /\ Head(queue) = "check_done"
    /\ FinishCheck(IF Reported THEN Tail(queue) ELSE Append(Tail(queue), "check_done"))
    /\ UNCHANGED <<cancelled, over, ui, autoUpdate, launches, commands, latest>>

HandleCheckDone ==
    /\ Looping /\ queue # <<>> /\ Head(queue) = "check_done"
    /\ FinishCheck(Tail(queue))
    /\ UNCHANGED <<cancelled, over, ui, autoUpdate, launches, commands, latest>>

HandleInstallFailed ==
    /\ Looping /\ queue # <<>> /\ Head(queue) = "install_failed"
    /\ queue' = Tail(queue)
    /\ failures' = IF over THEN failures ELSE failures + 1
    /\ UNCHANGED <<state, worker, cancelled, inFlight, over, ui, autoUpdate, counters,
                   latest>>

\* dispatch(ExitRequested) begins: the schedule first, then the controller.
BeginExit ==
    /\ ui' = "cancelling"
    /\ over' = TRUE
    /\ inFlight' = None
    /\ UNCHANGED <<state, worker, cancelled, failures, autoUpdate, launches, faults,
                   latest>>

HandleRequestExit ==
    /\ Looping /\ queue # <<>> /\ Head(queue) = "request_exit"
    /\ queue' = Tail(queue)
    /\ BeginExit
    /\ UNCHANGED commands

\* UpdateController::cancel holds the launch gate while it sets the flag.
Cancel ==
    /\ ui = "cancelling"
    /\ \A w \in Workers : worker[w] # "launching"
    /\ cancelled' = TRUE
    /\ ui' = "quitting"
    /\ UNCHANGED <<state, worker, schedule, queue, autoUpdate, counters, latest>>

\* WM_QUIT is delivered once the queue is empty; the process ends its threads.
End ==
    /\ ui = "quitting" /\ queue = <<>>
    /\ ui' = "ended"
    /\ worker' = [w \in Workers |-> "free"]
    /\ UNCHANGED <<state, cancelled, schedule, queue, autoUpdate, counters, latest>>

Command ==
    /\ Looping
    /\ commands < MaxCommands
    /\ commands' = commands + 1

UserCheck ==
    /\ Command
    /\ StartCheck("Manual")
    /\ UNCHANGED <<cancelled, over, ui, autoUpdate, launches>>

UserInstall ==
    /\ Command
    /\ state = "Available"
    /\ StartInstall(queue)
    /\ UNCHANGED <<cancelled, schedule, ui, autoUpdate, launches, latest>>

UserExit ==
    /\ Command
    /\ ui = "running"
    /\ BeginExit
    /\ UNCHANGED queue

UserToggle ==
    /\ Command
    /\ ui = "running"
    /\ autoUpdate' = ~autoUpdate
    /\ UNCHANGED <<state, worker, cancelled, schedule, queue, ui, launches, faults, latest>>

-----------------------------------------------------------------------------
(* A worker: every read of cancelled, store and post is a step of its own. *)

Alive == ui # "ended"

Step(w, from, to) ==
    /\ Alive
    /\ worker[w] = from
    /\ Become(w, to)
    /\ UNCHANGED <<cancelled, schedule, ui, autoUpdate, commands, latest>>

\* The request is over; a cancelled worker returns without a result.
CheckFetched(w) ==
    /\ Step(w, "fetching", IF cancelled THEN "free" ELSE "storing_check")
    /\ UNCHANGED <<state, queue, launches, faults>>

\* Mutant: a failed request posts its message without storing a result.
CheckStoredUnlessFailed(w) ==
    /\ Step(w, "storing_check", "posting_check")
    /\ \/ state' \in {"Current", "Available"} /\ UNCHANGED faults
       \/ faults < MaxFaults /\ UNCHANGED state /\ faults' = faults + 1
    /\ UNCHANGED <<queue, launches>>

CheckStored(w) ==
    /\ Step(w, "storing_check", "posting_check")
    /\ \/ state' \in {"Current", "Available"} /\ UNCHANGED faults
       \/ faults < MaxFaults /\ state' = "Failed" /\ faults' = faults + 1
    /\ UNCHANGED <<queue, launches>>

\* The download and its verification ended, or the flag cut them short.
Downloaded(w) ==
    /\ Step(w, "downloading", IF cancelled THEN "failed" ELSE "verified")
    /\ UNCHANGED <<state, queue, launches, faults>>

DownloadFailed(w) ==
    /\ faults < MaxFaults
    /\ Step(w, "downloading", "failed")
    /\ faults' = faults + 1
    /\ UNCHANGED <<state, queue, launches>>

\* Mutant: the flag is not read again under the gate.
EnterGateUnchecked(w) ==
    /\ \A v \in Workers : worker[v] # "launching"
    /\ Step(w, "verified", "launching")
    /\ UNCHANGED <<state, queue, launches, faults>>

\* launch_installer_if_not_cancelled: the flag is read under the gate, which is
\* kept until the launch is over.
EnterGate(w) ==
    /\ \A v \in Workers : worker[v] # "launching"
    /\ Step(w, "verified", IF cancelled THEN "failed" ELSE "launching")
    /\ UNCHANGED <<state, queue, launches, faults>>

Launch(w) ==
    /\ Step(w, "launching", "launched")
    /\ launches' = launches + 1
    /\ UNCHANGED <<state, queue, faults>>

LaunchFailed(w) ==
    /\ faults < MaxFaults
    /\ Step(w, "launching", "failed")
    /\ faults' = faults + 1
    /\ UNCHANGED <<state, queue, launches>>

\* install_candidate reads the flag again before it stores a result.
InstallEnded(w) ==
    /\ \/ Step(w, "launched", IF cancelled THEN "free" ELSE "storing_launched")
       \/ Step(w, "failed", IF cancelled THEN "free" ELSE "storing_failed")
    /\ UNCHANGED <<state, queue, launches, faults>>

InstallStored(w) ==
    /\ \/ Step(w, "storing_launched", "posting_exit") /\ state' = "Launching"
       \/ Step(w, "storing_failed", "posting_failed") /\ state' = "Failed"
    /\ UNCHANGED <<queue, launches, faults>>

WorkerPosts(w) ==
    /\ \/ Step(w, "posting_check", "free") /\ Post(queue, "check_done")
       \/ Step(w, "posting_exit", "free") /\ Post(queue, "request_exit")
       \/ Step(w, "posting_failed", "free") /\ Post(queue, "install_failed")
    /\ UNCHANGED <<state, launches, faults>>

-----------------------------------------------------------------------------
Handle == HandleCheckDone \/ HandleInstallFailed \/ HandleRequestExit

Loop == TickUpdate \/ TickDue \/ Handle \/ Cancel \/ End

User == UserCheck \/ UserInstall \/ UserExit \/ UserToggle

Work(w) ==
    \/ CheckFetched(w) \/ CheckStored(w)
    \/ Downloaded(w) \/ DownloadFailed(w)
    \/ EnterGate(w) \/ Launch(w) \/ LaunchFailed(w)
    \/ InstallEnded(w) \/ InstallStored(w) \/ WorkerPosts(w)

Next == Loop \/ User \/ \E w \in Workers : Work(w)

Spec == Init /\ [][Next]_vars

\* Threads are scheduled, requests time out, and the timer keeps firing.
FairSpec ==
    /\ Spec
    /\ WF_vars(TickUpdate) /\ WF_vars(TickDue) /\ WF_vars(Handle)
    /\ WF_vars(Cancel) /\ WF_vars(End)
    /\ \A w \in Workers : WF_vars(Work(w))

-----------------------------------------------------------------------------
(* Properties.                                                             *)

\* "Once cancel returns, no worker can launch a new installer."
NoLaunchAfterCancel == [][launches' # launches => ~cancelled]_vars

\* However checks, retries and menu commands interleave, one session launches
\* at most one installer.
LaunchedOnce == launches <= 1

\* The two kinds of work share the state and the update cache: at most one
\* worker fetches or installs, and the state says which.
OneAtATime ==
    \A v, w \in Workers :
        worker[v] \in Checks \cup Installs =>
            /\ state = IF worker[v] \in Checks THEN "Checking" ELSE "Downloading"
            /\ worker[w] \in Checks \cup Installs => v = w

\* A busy state is never left behind by a worker that is gone, unless the
\* program is on its way out: checks do not stop for good.
NoOrphan ==
    state \in {"Checking", "Downloading"} /\ ~cancelled =>
        \E w \in Workers : worker[w] \in Checks \cup Installs

\* "a manual check reports its result and leaves Install to the user", also when
\* it replaced an automatic one whose result was not handled yet: an install
\* that no command asked for follows an automatic check, with the setting on.
InstallAuthorised ==
    [][ worker' # worker /\ state' = "Downloading" /\ state # "Downloading"
            /\ commands' = commands =>
                latest = "Automatic" /\ autoUpdate ]_vars

\* A started check is consumed, even when its message is lost, unless an
\* installer took over the program.
CheckConsumed == (inFlight # None) ~> (inFlight = None \/ state = "Launching")

\* Leaving the program always ends, although it waits for the launch gate.
ExitEnds == (ui = "cancelling") ~> (ui = "ended")

\* Neither a started check nor the end of the program waits forever.
Answered == CheckConsumed /\ ExitEnds

\* "First retry after a failed check or install; doubles per consecutive
\* failure": the schedule counts no more failures than there were.
FailureCountedOnce == failures <= faults
=============================================================================
