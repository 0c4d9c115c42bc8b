--------------------------- MODULE SettingsCommit ---------------------------
(***************************************************************************)
(* The settings commit of RunDog: the tray application, the saga that      *)
(* makes a settings change durable, the registry values it writes, the     *)
(* exit-time save, and the recovery of an interrupted commit at the next   *)
(* start.  One thread executes all of it, so the interleavings are those   *)
(* of that thread with crashes, failing registry calls and the clock.      *)
(***************************************************************************)
EXTENDS Naturals

CONSTANTS
    Looks,          \* values of (theme, fps limit, display mode, auto update)
    DefaultLook,    \* the value AppSettings::default gives them
    FaultyOps,      \* the registry calls that may fail
    MaxOperation,   \* bound: the last operation ID a selection may take
    MaxGeneration,  \* bound: the last generation an exit-time save may write
    None            \* no journal, no commit

RegistryOps == {"clear_tombstone", "write_pending", "write_record", "rollback",
                "set_startup", "reconcile", "clear_pending", "save"}

Settings == [look : Looks, startup : BOOLEAN]
Record   == [generation : Nat, op : Nat, settings : Settings]
Job      == [op : Nat, base : Nat, desired : Settings, previous : Settings,
             sync : BOOLEAN]

Statuses == {"Applied", "Duplicate", "RejectedStale", "TimedOut", "Failed",
             "Tombstoned"}

ASSUME LooksAssumption == DefaultLook \in Looks
ASSUME BoundsAssumption == MaxOperation \in Nat /\ MaxGeneration \in Nat
ASSUME NoneAssumption ==
    None \notin Job /\ None \notin Nat /\ None \notin Statuses /\ None \notin Settings
ASSUME FaultyAssumption == FaultyOps \subseteq RegistryOps

DefaultSettings == [look |-> DefaultLook, startup |-> FALSE]
FreshRecord     == [generation |-> 0, op |-> 0, settings |-> DefaultSettings]

VARIABLES
    record,      \* durable: the SettingsRecord value
    journal,     \* durable: the PendingJournal value, or None
    runEntry,    \* durable: is there a Run entry for RunDog?
    tombstoned,  \* durable: is the settings key marked deleted?
    pc,          \* what the thread does next; "down": no process
    recovering,  \* is the saga step part of recover_pending?
    job,         \* the CommitRequest, or the journal under recovery
    status,      \* the CommitStatus the saga will report
    expired,     \* has now_millis reached the deadline of job?
    timedOut,    \* CommitGate.timed_out: an operation ID, or None
    app          \* App; while the process is down, what the user last saw

durable == <<record, journal, runEntry, tombstoned>>
saga    == <<recovering, job, status, expired, timedOut>>
vars    == <<durable, pc, saga, app>>

SagaSteps == {"begun", "journalled", "written", "rollback", "clear", "finish"}

TypeOK ==
    /\ record \in Record
    /\ journal \in Job \cup {None}
    /\ runEntry \in BOOLEAN
    /\ tombstoned \in BOOLEAN
    /\ pc \in SagaSteps \cup {"down", "recover", "reconcile", "idle"}
    /\ recovering \in BOOLEAN
    /\ job \in Job \cup {None}
    /\ status \in Statuses \cup {None}
    /\ expired \in BOOLEAN
    /\ timedOut \in Nat \cup {None}
    /\ app \in [settings : Settings, generation : Nat, lastOp : Nat, nextOp : Nat]

\* The record of a previous installation, or of none: a legacy layout reads as
\* generation 0.  A tombstone an older uninstall left holds no record.
Init ==
    /\ record \in [generation : {0}, op : {0}, settings : Settings]
    /\ journal = None
    /\ runEntry \in BOOLEAN
    /\ tombstoned \in BOOLEAN
    /\ tombstoned => record = FreshRecord
    /\ pc = "down"
    /\ recovering = FALSE
    /\ job = None
    /\ status = None
    /\ expired = FALSE
    /\ timedOut = None
    /\ app = [settings |-> record.settings, generation |-> 0, lastOp |-> 0,
              nextOp |-> 1]

-----------------------------------------------------------------------------
(* Registry calls: each is one RegSetValueExW or RegDeleteValueW.          *)

Outcomes(call) == IF call \in FaultyOps THEN BOOLEAN ELSE {TRUE}

\* A call that needs the writable settings key is refused under a tombstone.
KeyOutcomes(call) == IF tombstoned THEN {FALSE} ELSE Outcomes(call)

\* write_record's compare-and-set: expected is the generation the caller read.
RecordOutcomes(call, expected) ==
    IF record.generation # expected THEN {FALSE} ELSE KeyOutcomes(call)

-----------------------------------------------------------------------------
(* The application.                                                        *)

\* handle_*_selection and the toggles: only with no commit pending.
BeginCommit(desired, sync) ==
    /\ pc = "idle"
    /\ app.nextOp <= MaxOperation
    /\ job' = [op |-> app.nextOp, base |-> app.generation, desired |-> desired,
               previous |-> app.settings, sync |-> sync]
    /\ app' = [app EXCEPT !.nextOp = @ + 1]
    /\ pc' = "begun"
    /\ expired' = FALSE
    /\ status' = None
    /\ UNCHANGED <<durable, recovering, timedOut>>

SelectLook(look) ==
    /\ look # app.settings.look
    /\ BeginCommit([app.settings EXCEPT !.look = look], FALSE)

ToggleStartup == BeginCommit([app.settings EXCEPT !.startup = ~@], TRUE)

Adopted(outcome) ==
    IF outcome = "Applied" THEN job.desired ELSE app.settings

Max2(a, b) == IF a > b THEN a ELSE b

\* Mutant: a commit that failed is executed again instead of given up.
FinishOrRetry ==
    /\ pc = "finish"
    /\ IF status = "Failed"
       THEN pc' = "begun" /\ UNCHANGED <<job, app>>
       ELSE /\ pc' = "idle"
            /\ job' = None
            /\ app' = [app EXCEPT !.settings = Adopted(status),
                                  !.generation = record.generation,
                                  !.lastOp = Max2(record.op, app.lastOp)]
    /\ UNCHANGED <<durable, recovering, status, expired, timedOut>>

\* SettingsCommitFinished carries the record as the saga read it last.
FinishCommit ==
    LET lastOp == Max2(record.op, app.lastOp) IN
    /\ pc = "finish"
    /\ app' = [settings   |-> Adopted(status),
               generation |-> record.generation,
               lastOp     |-> lastOp,
               nextOp     |-> Max2(app.nextOp, lastOp + 1)]
    /\ job' = None
    /\ pc' = "idle"
    /\ UNCHANGED <<durable, recovering, status, expired, timedOut>>

\* handle_exit: best-effort save under the operation ID already recorded.
Exit ==
    /\ pc = "idle"
    /\ record.generation < MaxGeneration
    /\ \E ok \in KeyOutcomes("save") :
          record' = IF ok THEN [generation |-> record.generation + 1,
                                op |-> record.op, settings |-> app.settings]
                          ELSE record
    /\ pc' = "down"
    /\ UNCHANGED <<journal, runEntry, tombstoned, saga, app>>

Crash ==
    /\ pc # "down"
    /\ pc' = "down"
    /\ UNCHANGED <<durable, saga, app>>

-----------------------------------------------------------------------------
(* execute_commit.                                                         *)

DeadlinePasses ==
    /\ pc \in SagaSteps
    /\ ~recovering
    /\ ~expired
    /\ expired' = TRUE
    /\ UNCHANGED <<durable, pc, recovering, job, status, timedOut, app>>

\* terminal_blocked
Blocked == expired \/ timedOut = job.op

\* What execute_commit answers before it writes anything, or None.
Refusal ==
    IF tombstoned THEN "Tombstoned"
    ELSE IF job.op <= record.op THEN "Duplicate"
    ELSE IF job.base # record.generation THEN "RejectedStale"
    ELSE IF Blocked THEN "TimedOut"
    ELSE None

RefuseCommit ==
    /\ pc = "begun"
    /\ Refusal # None
    /\ status' = Refusal
    /\ timedOut' = IF Refusal = "TimedOut" THEN job.op ELSE timedOut
    /\ pc' = "finish"
    /\ UNCHANGED <<durable, recovering, job, expired, app>>

WritePending ==
    /\ pc = "begun"
    /\ Refusal = None
    /\ \E ok \in KeyOutcomes("write_pending") :
          /\ journal' = IF ok THEN job ELSE journal
          /\ pc' = IF ok THEN "journalled" ELSE "finish"
          /\ status' = IF ok THEN status ELSE "Failed"
    /\ UNCHANGED <<record, runEntry, tombstoned, recovering, job, expired,
                   timedOut, app>>

AbandonUnwritten ==
    /\ pc = "journalled"
    /\ Blocked
    /\ status' = "TimedOut"
    /\ timedOut' = job.op
    /\ pc' = "clear"
    /\ UNCHANGED <<durable, recovering, job, expired, app>>

\* Mutant: the journal is dropped as soon as the record is written.
WriteRecordAndClear ==
    /\ pc = "journalled"
    /\ ~Blocked
    /\ record' = [generation |-> job.base + 1, op |-> job.op,
                  settings |-> job.desired]
    /\ journal' = None
    /\ pc' = "written"
    /\ UNCHANGED <<runEntry, tombstoned, saga, app>>

WriteRecord ==
    /\ pc = "journalled"
    /\ ~Blocked
    /\ \E ok \in RecordOutcomes("write_record", job.base) :
          /\ record' = IF ok THEN [generation |-> job.base + 1, op |-> job.op,
                                   settings |-> job.desired]
                             ELSE record
          /\ pc' = IF ok THEN "written" ELSE "clear"
          /\ status' = IF ok THEN status ELSE "Failed"
    /\ UNCHANGED <<journal, runEntry, tombstoned, recovering, job, expired,
                   timedOut, app>>

AbandonWritten ==
    /\ pc = "written"
    /\ Blocked
    /\ status' = "TimedOut"
    /\ timedOut' = job.op
    /\ pc' = "rollback"
    /\ UNCHANGED <<durable, recovering, job, expired, app>>

\* set_startup when the commit asks for it; the rest of the saga otherwise.
SyncOutcomes == IF job.sync THEN Outcomes("set_startup") ELSE {TRUE}

\* Mutant: a failed Run entry fails the commit without the compensating write.
SyncRunEntryOnly ==
    /\ pc = "written"
    /\ ~Blocked
    /\ \E ok \in SyncOutcomes :
          /\ runEntry' = IF ok /\ job.sync THEN job.desired.startup ELSE runEntry
          /\ status' = IF ok THEN "Applied" ELSE "Failed"
    /\ pc' = "clear"
    /\ UNCHANGED <<record, journal, tombstoned, recovering, job, expired,
                   timedOut, app>>

SyncRunEntry ==
    /\ pc = "written"
    /\ ~Blocked
    /\ \E ok \in SyncOutcomes :
          /\ runEntry' = IF ok /\ job.sync THEN job.desired.startup ELSE runEntry
          /\ status' = IF ok THEN "Applied" ELSE "Failed"
          /\ pc' = IF ok THEN "clear" ELSE "rollback"
    /\ UNCHANGED <<record, journal, tombstoned, recovering, job, expired,
                   timedOut, app>>

\* The content goes back under a new generation; the result is ignored.
RollBack ==
    /\ pc = "rollback"
    /\ \E ok \in KeyOutcomes("rollback") :
          record' = IF ok THEN [generation |-> record.generation + 1,
                                op |-> job.op, settings |-> job.previous]
                          ELSE record
    /\ pc' = "clear"
    /\ UNCHANGED <<journal, runEntry, tombstoned, saga, app>>

\* clear_pending, its result ignored.  A deadline that passed once the commit
\* had succeeded is still marked on the gate.
ClearPending ==
    /\ pc = "clear"
    /\ \E ok \in KeyOutcomes("clear_pending") :
          journal' = IF ok THEN None ELSE journal
    /\ timedOut' = IF ~recovering /\ status = "Applied" /\ expired
                   THEN job.op ELSE timedOut
    /\ pc' = IF recovering THEN "reconcile" ELSE "finish"
    /\ UNCHANGED <<record, runEntry, tombstoned, recovering, job, status,
                   expired, app>>

-----------------------------------------------------------------------------
(* run_single_instance: clear the tombstone, recover, reconcile, build App.*)

Start ==
    /\ pc = "down"
    /\ \E ok \in Outcomes("clear_tombstone") :
          tombstoned' = (tombstoned /\ ~ok)
    /\ pc' = "recover"
    /\ recovering' = TRUE
    /\ timedOut' = None
    /\ expired' = FALSE
    /\ UNCHANGED <<record, journal, runEntry, job, status, app>>

\* No journal; one that a tombstoned key still held could not be cleared.
RecoverNothing ==
    /\ pc = "recover"
    /\ journal = None \/ tombstoned
    /\ status' = IF journal = None THEN "Applied" ELSE "Tombstoned"
    /\ pc' = "reconcile"
    /\ UNCHANGED <<durable, recovering, job, expired, timedOut, app>>

\* The desired generation of the journalled commit is visible.
Matches(j) == record.op = j.op /\ record.settings = j.desired

\* The deadline is a tick count of the boot that wrote it: after a restart of
\* Windows it may again lie ahead, so both answers are possible.
RecoverLate ==
    /\ pc = "recover"
    /\ journal # None /\ ~tombstoned
    /\ job' = journal
    /\ timedOut' = journal.op
    /\ status' = "TimedOut"
    /\ pc' = IF Matches(journal) THEN "rollback" ELSE "clear"
    /\ UNCHANGED <<durable, recovering, expired, app>>

RecoverUnwritten ==
    /\ pc = "recover"
    /\ journal # None /\ ~tombstoned
    /\ ~Matches(journal)
    /\ job' = journal
    /\ status' = "Failed"
    /\ pc' = "clear"
    /\ UNCHANGED <<durable, recovering, expired, timedOut, app>>

RecoverWritten ==
    /\ pc = "recover"
    /\ journal # None /\ ~tombstoned
    /\ Matches(journal)
    /\ job' = journal
    /\ \E ok \in IF journal.sync THEN Outcomes("set_startup") ELSE {TRUE} :
          /\ runEntry' = IF ok /\ journal.sync THEN journal.desired.startup
                                               ELSE runEntry
          /\ status' = IF ok THEN "Applied" ELSE "Failed"
          /\ pc' = IF ok THEN "clear" ELSE "rollback"
    /\ UNCHANGED <<record, journal, tombstoned, recovering, expired, timedOut,
                   app>>

\* load_record reads defaults under a tombstone.
Loaded == IF tombstoned THEN FreshRecord ELSE record

\* Mutant: App starts from the recovered record, the Run entry is left alone.
ReconcileAppOnly ==
    /\ pc = "reconcile"
    /\ app' = [settings |-> Loaded.settings, generation |-> Loaded.generation,
               lastOp |-> Loaded.op, nextOp |-> Loaded.op + 1]
    /\ job' = None
    /\ recovering' = FALSE
    /\ pc' = "idle"
    /\ UNCHANGED <<record, journal, runEntry, tombstoned, status, expired, timedOut>>

\* reconcile_launch_at_startup ignores its result; App::with_persistence.
Reconcile ==
    /\ pc = "reconcile"
    /\ \E ok \in Outcomes("reconcile") :
          runEntry' = IF ok THEN Loaded.settings.startup ELSE runEntry
    /\ app' = [settings |-> Loaded.settings, generation |-> Loaded.generation,
               lastOp |-> Loaded.op, nextOp |-> Loaded.op + 1]
    /\ job' = None
    /\ recovering' = FALSE
    /\ pc' = "idle"
    /\ UNCHANGED <<record, journal, tombstoned, status, expired, timedOut>>

-----------------------------------------------------------------------------
Select == ToggleStartup \/ \E look \in Looks : SelectLook(look)

Execute ==
    \/ RefuseCommit \/ WritePending
    \/ AbandonUnwritten \/ WriteRecord
    \/ AbandonWritten \/ SyncRunEntry
    \/ RollBack \/ ClearPending \/ FinishCommit

Recover ==
    RecoverNothing \/ RecoverLate \/ RecoverUnwritten \/ RecoverWritten \/ Reconcile

Next == Select \/ Execute \/ DeadlinePasses \/ Exit \/ Crash \/ Start \/ Recover

Spec == Init /\ [][Next]_vars

\* The thread runs a commit, or a recovery, to its end unless it dies.
FairSpec == Spec /\ WF_vars(Execute) /\ WF_vars(Recover)

-----------------------------------------------------------------------------
(* Properties.                                                             *)

\* Whenever the message loop waits, the cursor of App is the durable one, so
\* the next commit is neither stale nor a duplicate, whatever failed before.
CursorAligned ==
    pc = "idle" =>
        /\ app.generation = record.generation
        /\ app.lastOp = record.op
        /\ app.nextOp > record.op

\* "leaves the previous complete generation observable": a commit reported as
\* anything but Applied shows the previous content in the registry.
FailedLeavesPrevious ==
    pc = "finish" /\ status # "Applied" => record.settings = job.previous

\* The settings the user sees change only by a commit the user asked for, from
\* its previous to its desired settings: also across crashes and recovery.
ShownStep ==
    app'.settings # app.settings =>
        /\ job # None
        /\ job.previous = app.settings
        /\ job.desired = app'.settings
ShownOnlyByRequest == [][ShownStep]_vars

\* "Makes the Run entry agree with the durable settings flag": whenever the
\* message loop waits they agree, whichever step failed or crashed before.
RunEntryAgrees ==
    pc = "idle" => runEntry = record.settings.startup

\* Recovery decides by operation ID: no journal is older than the record.
JournalNotOutdated == journal # None => record.op <= journal.op

\* The journal is the commit point: while the journalled content is visible the
\* commit is undecided, and deleting the journal puts it into effect.
InDoubt == journal # None /\ Matches(journal)

InEffect  == IF InDoubt THEN journal.previous ELSE record.settings
Undecided == IF InDoubt THEN journal.desired
             ELSE IF pc \in {"begun", "journalled"} THEN job.desired ELSE None

Atomic == INSTANCE AtomicSettings WITH
    Values <- Settings, value <- InEffect, wish <- Undecided, shown <- app.settings

\* Across crashes, failing calls and deadlines, a change takes effect at one
\* instant or not at all, and what is shown is what is in effect.
ImplementsAtomic == Atomic!Spec

\* Every commit and every recovery comes to an end, or the process dies.
Settles == (pc \in SagaSteps \cup {"recover", "reconcile"}) ~> (pc \in {"idle", "down"})

=============================================================================
