------------------------ MODULE SettingsCommitProofs ------------------------
(***************************************************************************)
(* Proofs about SettingsCommit, for every set of looks, every bound and    *)
(* every set of registry calls that may fail, unless a theorem says which  *)
(* calls it needs to be reliable.                                          *)
(***************************************************************************)
EXTENDS SettingsCommit, TLAPS

\* A saga step always has the commit it works on.
HasJob == pc \in SagaSteps => job # None

TInv == TypeOK /\ HasJob

LEMMA TypesInitial == Init => TInv
<1> SUFFICES ASSUME Init PROVE TInv
  OBVIOUS
<1>1. record \in Record /\ record.settings \in Settings
  BY DEF Init, Record
<1>2. app \in [settings : Settings, generation : Nat, lastOp : Nat, nextOp : Nat]
  BY <1>1 DEF Init
<1> QED
  BY <1>1, <1>2 DEF Init, TInv, TypeOK, HasJob, SagaSteps

\* A settings value stays one when a field is replaced.
LEMMA SettingsUpdated ==
  ASSUME NEW s \in Settings
  PROVE  /\ [s EXCEPT !.startup = ~@] \in Settings
         /\ \A look \in Looks : [s EXCEPT !.look = look] \in Settings
BY DEF Settings

LEMMA FreshTyped == FreshRecord \in Record /\ DefaultSettings \in Settings
BY LooksAssumption DEF FreshRecord, DefaultSettings, Record, Settings

LEMMA TypesPreserved == TInv /\ [Next]_vars => TInv'
<1> SUFFICES ASSUME TInv, [Next]_vars PROVE TInv'
  OBVIOUS
<1> USE DEF TInv, HasJob, TypeOK, SagaSteps, Record, Job
<1>1. ASSUME NEW desired \in Settings, NEW sync \in BOOLEAN,
             BeginCommit(desired, sync)
      PROVE  TInv'
  <2>1. job' \in Job /\ job' # None
    BY <1>1, NoneAssumption DEF BeginCommit
  <2>2. app' \in [settings : Settings, generation : Nat, lastOp : Nat, nextOp : Nat]
    BY <1>1 DEF BeginCommit
  <2> QED
    BY <1>1, <2>1, <2>2 DEF BeginCommit, durable
<1>2. CASE ToggleStartup
  BY <1>1, <1>2, SettingsUpdated DEF ToggleStartup
<1>3. ASSUME NEW look \in Looks, SelectLook(look) PROVE TInv'
  BY <1>1, <1>3, SettingsUpdated DEF SelectLook
<1>4. CASE RefuseCommit
  BY <1>4 DEF RefuseCommit, Refusal, durable, Statuses
<1>5. CASE WritePending
  BY <1>5 DEF WritePending, Statuses
<1>6. CASE AbandonUnwritten
  BY <1>6 DEF AbandonUnwritten, durable, Statuses
<1>7. CASE WriteRecord
  <2>1. job \in Job
    BY <1>7 DEF WriteRecord
  <2>2. record' \in Record
    BY <1>7, <2>1 DEF WriteRecord
  <2> QED
    BY <1>7, <2>1, <2>2 DEF WriteRecord, Statuses
<1>8. CASE AbandonWritten
  BY <1>8 DEF AbandonWritten, durable, Statuses
<1>9. CASE SyncRunEntry
  <2>1. job.desired.startup \in BOOLEAN
    BY <1>9 DEF SyncRunEntry, Settings
  <2> QED
    BY <1>9, <2>1 DEF SyncRunEntry, Statuses
<1>10. CASE RollBack
  BY <1>10 DEF RollBack, saga
<1>11. CASE ClearPending
  BY <1>11 DEF ClearPending
<1>12. CASE FinishCommit
  <2>1. app'.settings \in Settings
    BY <1>12 DEF FinishCommit, Adopted
  <2>2. app' \in [settings : Settings, generation : Nat, lastOp : Nat, nextOp : Nat]
    BY <1>12, <2>1 DEF FinishCommit, Max2
  <2> QED
    BY <1>12, <2>2 DEF FinishCommit, durable
<1>13. CASE DeadlinePasses
  BY <1>13 DEF DeadlinePasses, durable
<1>14. CASE Exit
  <2>1. record' \in Record
    BY <1>14 DEF Exit
  <2> QED
    BY <1>14, <2>1 DEF Exit, saga
<1>15. CASE Crash
  BY <1>15 DEF Crash, durable, saga
<1>16. CASE Start
  BY <1>16 DEF Start
<1>17. CASE RecoverNothing
  BY <1>17 DEF RecoverNothing, durable, Statuses
<1>18. CASE RecoverLate
  BY <1>18 DEF RecoverLate, durable, Statuses
<1>19. CASE RecoverUnwritten
  BY <1>19 DEF RecoverUnwritten, durable, Statuses
<1>20. CASE RecoverWritten
  BY <1>20, FreshTyped DEF RecoverWritten, Statuses, Settings
<1>21. CASE Reconcile
  <2>1. Loaded \in Record
    BY FreshTyped DEF Loaded
  <2>2. Loaded.settings \in Settings /\ Loaded.settings.startup \in BOOLEAN
    BY <2>1 DEF Settings
  <2>3. app' \in [settings : Settings, generation : Nat, lastOp : Nat, nextOp : Nat]
    BY <1>21, <2>1 DEF Reconcile
  <2> QED
    BY <1>21, <2>2, <2>3 DEF Reconcile
<1>22. CASE UNCHANGED vars
  BY <1>22 DEF vars, durable, saga
<1> QED
  BY <1>2, <1>3, <1>4, <1>5, <1>6, <1>7, <1>8, <1>9, <1>10, <1>11, <1>12,
     <1>13, <1>14, <1>15, <1>16, <1>17, <1>18, <1>19, <1>20, <1>21, <1>22
     DEF Next, Select, Execute, Recover

\* Every state the program reaches has the types of TypeOK.
THEOREM TypeCorrect == Spec => []TypeOK
<1>1. TInv => TypeOK
  BY DEF TInv
<1> QED
  BY <1>1, TypesInitial, TypesPreserved, PTL DEF Spec

-----------------------------------------------------------------------------
(* The cursor of App, whatever registry call fails.                        *)

InProcess == ~recovering /\ pc \in SagaSteps

\* A tombstoned key is never written again.
TombstoneHolds == tombstoned => record = FreshRecord /\ journal = None

\* The strengthening of CursorAligned: where the cursor stands at each step.
CInv ==
  /\ TombstoneHolds
  /\ JournalNotOutdated
  /\ app.lastOp <= record.op
  /\ pc \in {"idle", "begun", "journalled", "written", "finish"} => ~recovering
  /\ pc \in {"recover", "reconcile"} => recovering
  /\ CursorAligned
  /\ InProcess =>
       /\ app.nextOp = job.op + 1
       /\ record.op <= job.op
  /\ pc \in {"begun", "journalled"} =>
       /\ job.base = record.generation
       /\ record.op < job.op
  /\ pc \in {"written", "rollback"} => record.op = job.op
  /\ InProcess /\ pc \in {"journalled", "written", "rollback", "clear"} => ~tombstoned
  /\ pc = "journalled" => journal = job
  /\ pc \in {"written", "rollback"} => journal # None

LEMMA CursorInitial == Init => CInv
BY DEF Init, CInv, TombstoneHolds, JournalNotOutdated, CursorAligned, InProcess,
   SagaSteps

LEMMA CursorPreserved == TInv /\ CInv /\ [Next]_vars => CInv'
<1> SUFFICES ASSUME TInv, CInv, [Next]_vars PROVE CInv'
  OBVIOUS
<1> USE DEF TInv, HasJob, TypeOK, SagaSteps, Record, Job, CInv, TombstoneHolds,
            JournalNotOutdated, CursorAligned, InProcess
<1>1. ASSUME NEW desired \in Settings, NEW sync \in BOOLEAN,
             BeginCommit(desired, sync)
      PROVE  CInv'
  BY <1>1 DEF BeginCommit, durable
<1>2. CASE ToggleStartup
  BY <1>1, <1>2, SettingsUpdated DEF ToggleStartup
<1>3. ASSUME NEW look \in Looks, SelectLook(look) PROVE CInv'
  BY <1>1, <1>3, SettingsUpdated DEF SelectLook
<1>4. CASE RefuseCommit
  BY <1>4 DEF RefuseCommit, durable
<1>5. CASE WritePending
  BY <1>5, NoneAssumption DEF WritePending, Refusal, KeyOutcomes
<1>6. CASE AbandonUnwritten
  BY <1>6 DEF AbandonUnwritten, durable
<1>7. CASE WriteRecord
  BY <1>7 DEF WriteRecord, RecordOutcomes, KeyOutcomes
<1>8. CASE AbandonWritten
  BY <1>8 DEF AbandonWritten, durable
<1>9. CASE SyncRunEntry
  BY <1>9 DEF SyncRunEntry
<1>10. CASE RollBack
  BY <1>10 DEF RollBack, saga, KeyOutcomes
<1>11. CASE ClearPending
  BY <1>11 DEF ClearPending
<1>12. CASE FinishCommit
  BY <1>12 DEF FinishCommit, Max2, durable
<1>13. CASE DeadlinePasses
  BY <1>13 DEF DeadlinePasses, durable
<1>14. CASE Exit
  <2>1. tombstoned => record' = record
    BY <1>14 DEF Exit, KeyOutcomes
  <2>2. record'.op = record.op
    BY <1>14 DEF Exit
  <2> QED
    BY <1>14, <2>1, <2>2 DEF Exit, saga
<1>15. CASE Crash
  BY <1>15 DEF Crash, durable, saga
<1>16. CASE Start
  BY <1>16 DEF Start
<1>17. CASE RecoverNothing
  BY <1>17 DEF RecoverNothing, durable
<1>18. CASE RecoverLate
  BY <1>18 DEF RecoverLate, Matches, durable
<1>19. CASE RecoverUnwritten
  BY <1>19 DEF RecoverUnwritten, durable
<1>20. CASE RecoverWritten
  BY <1>20 DEF RecoverWritten, Matches
<1>21. CASE Reconcile
  BY <1>21 DEF Reconcile, Loaded
<1>22. CASE UNCHANGED vars
  BY <1>22 DEF vars, durable, saga
<1> QED
  BY <1>2, <1>3, <1>4, <1>5, <1>6, <1>7, <1>8, <1>9, <1>10, <1>11, <1>12,
     <1>13, <1>14, <1>15, <1>16, <1>17, <1>18, <1>19, <1>20, <1>21, <1>22
     DEF Next, Select, Execute, Recover

\* Whatever registry call fails and wherever the process dies, a waiting
\* message loop holds the durable cursor.
THEOREM CursorAlwaysAligned == Spec => []CursorAligned
<1>1. CInv => CursorAligned
  BY DEF CInv
<1> QED
  BY <1>1, TypesInitial, TypesPreserved, CursorInitial, CursorPreserved, PTL DEF Spec

\* Recovery never meets a journal older than the record it compares it with.
THEOREM JournalNeverOutdated == Spec => []JournalNotOutdated
<1>1. CInv => JournalNotOutdated
  BY DEF CInv
<1> QED
  BY <1>1, TypesInitial, TypesPreserved, CursorInitial, CursorPreserved, PTL DEF Spec

-----------------------------------------------------------------------------
(* What the registry holds, when the compensating write is reliable.       *)

RollbackReliable  == "rollback" \notin FaultyOps
ReconcileReliable == "reconcile" \notin FaultyOps

\* The content of the record at each step of a commit.
PInv ==
  /\ pc = "idle" => app.settings = record.settings
  /\ InProcess => job.previous = app.settings
  /\ pc \in {"begun", "journalled"} => record.settings = job.previous
  /\ InProcess /\ pc \in {"written", "rollback"} => record.settings = job.desired
  /\ InProcess /\ pc = "rollback" => status # "Applied"
  /\ InProcess /\ pc \in {"clear", "finish"} =>
       record.settings = IF status = "Applied" THEN job.desired ELSE job.previous

LEMMA ContentInitial == Init => PInv
BY DEF Init, PInv, InProcess, SagaSteps

LEMMA ContentPreserved ==
  ASSUME RollbackReliable, TInv, CInv, PInv, [Next]_vars
  PROVE  PInv'
<1> USE DEF RollbackReliable, TInv, HasJob, TypeOK, SagaSteps, Record, Job, CInv,
            TombstoneHolds, InProcess, PInv
<1>1. ASSUME NEW desired \in Settings, NEW sync \in BOOLEAN,
             BeginCommit(desired, sync)
      PROVE  PInv'
  BY <1>1 DEF BeginCommit, durable
<1>2. CASE ToggleStartup
  BY <1>1, <1>2, SettingsUpdated DEF ToggleStartup
<1>3. ASSUME NEW look \in Looks, SelectLook(look) PROVE PInv'
  BY <1>1, <1>3, SettingsUpdated DEF SelectLook
<1>4. CASE RefuseCommit
  BY <1>4 DEF RefuseCommit, Refusal, durable
<1>5. CASE WritePending
  BY <1>5 DEF WritePending
<1>6. CASE AbandonUnwritten
  BY <1>6 DEF AbandonUnwritten, durable
<1>7. CASE WriteRecord
  BY <1>7 DEF WriteRecord
<1>8. CASE AbandonWritten
  BY <1>8 DEF AbandonWritten, durable
<1>9. CASE SyncRunEntry
  BY <1>9 DEF SyncRunEntry
<1>10. CASE RollBack
  <2>1. CASE recovering
    BY <1>10, <2>1 DEF RollBack, saga
  <2>2. CASE ~recovering
    <3>1. KeyOutcomes("rollback") = {TRUE}
      BY <1>10, <2>2 DEF RollBack, KeyOutcomes, Outcomes
    <3>2. record' = [generation |-> record.generation + 1, op |-> job.op,
                     settings |-> job.previous]
      BY <1>10, <3>1, Zenon DEF RollBack
    <3>3. record'.settings = job.previous
      BY <3>2
    <3> QED
      BY <1>10, <2>2, <3>3 DEF RollBack, saga
  <2> QED
    BY <2>1, <2>2
<1>11. CASE ClearPending
  BY <1>11 DEF ClearPending
<1>12. CASE FinishCommit
  BY <1>12 DEF FinishCommit, Adopted, durable
<1>13. CASE DeadlinePasses
  BY <1>13 DEF DeadlinePasses, durable
<1>14. CASE Exit
  BY <1>14 DEF Exit
<1>15. CASE Crash
  BY <1>15 DEF Crash
<1>16. CASE Start
  BY <1>16 DEF Start
<1>17. CASE RecoverNothing
  BY <1>17 DEF RecoverNothing
<1>18. CASE RecoverLate
  BY <1>18 DEF RecoverLate
<1>19. CASE RecoverUnwritten
  BY <1>19 DEF RecoverUnwritten
<1>20. CASE RecoverWritten
  BY <1>20 DEF RecoverWritten
<1>21. CASE Reconcile
  BY <1>21 DEF Reconcile, Loaded
<1>22. CASE UNCHANGED vars
  BY <1>22 DEF vars, durable, saga
<1> QED
  BY <1>2, <1>3, <1>4, <1>5, <1>6, <1>7, <1>8, <1>9, <1>10, <1>11, <1>12,
     <1>13, <1>14, <1>15, <1>16, <1>17, <1>18, <1>19, <1>20, <1>21, <1>22
     DEF Next, Select, Execute, Recover

\* "leaves the previous complete generation observable".
THEOREM FailedAlwaysLeavesPrevious ==
  ASSUME RollbackReliable
  PROVE  Spec => []FailedLeavesPrevious
<1>1. TInv /\ CInv /\ PInv => FailedLeavesPrevious
  BY DEF TInv, HasJob, CInv, PInv, FailedLeavesPrevious, InProcess, SagaSteps
<1>2. PInv /\ TInv /\ CInv /\ [Next]_vars => PInv'
  BY ContentPreserved
<1> QED
  BY <1>1, <1>2, TypesInitial, TypesPreserved, CursorInitial, CursorPreserved,
     ContentInitial, PTL DEF Spec

\* The Run entry at each step of a commit.
RInv ==
  /\ pc \in {"idle", "begun", "journalled"} => runEntry = record.settings.startup
  /\ InProcess /\ pc \in {"clear", "finish"} => runEntry = record.settings.startup
  /\ InProcess /\ pc \in {"written", "rollback"} => runEntry = job.previous.startup
  /\ InProcess /\ ~job.sync => job.desired.startup = job.previous.startup

LEMMA RunEntryInitial == Init => RInv
BY DEF Init, RInv, InProcess, SagaSteps

LEMMA RunEntryPreserved ==
  ASSUME RollbackReliable, ReconcileReliable, TInv, CInv, PInv, RInv, [Next]_vars
  PROVE  RInv'
<1> USE DEF RollbackReliable, ReconcileReliable, TInv, HasJob, TypeOK, SagaSteps,
            Record, Job, CInv, TombstoneHolds, InProcess, PInv, RInv
<1>1. ASSUME NEW desired \in Settings, NEW sync \in BOOLEAN,
             sync \/ desired.startup = app.settings.startup,
             BeginCommit(desired, sync)
      PROVE  RInv'
  BY <1>1 DEF BeginCommit, durable
<1>2. CASE ToggleStartup
  BY <1>1, <1>2, SettingsUpdated DEF ToggleStartup
<1>3. ASSUME NEW look \in Looks, SelectLook(look) PROVE RInv'
  <2>1. [app.settings EXCEPT !.look = look].startup = app.settings.startup
    BY DEF Settings
  <2> QED
    BY <1>1, <1>3, <2>1, SettingsUpdated DEF SelectLook
<1>4. CASE RefuseCommit
  BY <1>4 DEF RefuseCommit, Refusal, durable
<1>5. CASE WritePending
  BY <1>5 DEF WritePending
<1>6. CASE AbandonUnwritten
  BY <1>6 DEF AbandonUnwritten, durable
<1>7. CASE WriteRecord
  BY <1>7 DEF WriteRecord
<1>8. CASE AbandonWritten
  BY <1>8 DEF AbandonWritten, durable
<1>9. CASE SyncRunEntry
  BY <1>9 DEF SyncRunEntry
<1>10. CASE RollBack
  <2>1. CASE recovering
    BY <1>10, <2>1 DEF RollBack, saga
  <2>2. CASE ~recovering
    <3>1. KeyOutcomes("rollback") = {TRUE}
      BY <1>10, <2>2 DEF RollBack, KeyOutcomes, Outcomes
    <3>2. record' = [generation |-> record.generation + 1, op |-> job.op,
                     settings |-> job.previous]
      BY <1>10, <3>1, Zenon DEF RollBack
    <3>3. record'.settings = job.previous
      BY <3>2
    <3> QED
      BY <1>10, <2>2, <3>3 DEF RollBack, saga
  <2> QED
    BY <2>1, <2>2
<1>11. CASE ClearPending
  BY <1>11 DEF ClearPending
<1>12. CASE FinishCommit
  BY <1>12 DEF FinishCommit, Adopted, durable
<1>13. CASE DeadlinePasses
  BY <1>13 DEF DeadlinePasses, durable
<1>14. CASE Exit
  BY <1>14 DEF Exit
<1>15. CASE Crash
  BY <1>15 DEF Crash
<1>16. CASE Start
  BY <1>16 DEF Start
<1>17. CASE RecoverNothing
  BY <1>17 DEF RecoverNothing
<1>18. CASE RecoverLate
  BY <1>18 DEF RecoverLate
<1>19. CASE RecoverUnwritten
  BY <1>19 DEF RecoverUnwritten
<1>20. CASE RecoverWritten
  BY <1>20 DEF RecoverWritten
<1>21. CASE Reconcile
  BY <1>21 DEF Reconcile, Loaded, Outcomes
<1>22. CASE UNCHANGED vars
  BY <1>22 DEF vars, durable, saga
<1> QED
  BY <1>2, <1>3, <1>4, <1>5, <1>6, <1>7, <1>8, <1>9, <1>10, <1>11, <1>12,
     <1>13, <1>14, <1>15, <1>16, <1>17, <1>18, <1>19, <1>20, <1>21, <1>22
     DEF Next, Select, Execute, Recover

\* The Run entry agrees with the durable flag whenever the message loop waits,
\* whichever other registry call fails and wherever the process dies.
THEOREM RunEntryAlwaysAgrees ==
  ASSUME RollbackReliable, ReconcileReliable
  PROVE  Spec => []RunEntryAgrees
<1>1. RInv => RunEntryAgrees
  BY DEF RInv, RunEntryAgrees
<1>2. PInv /\ TInv /\ CInv /\ [Next]_vars => PInv'
  BY ContentPreserved
<1>3. RInv /\ PInv /\ TInv /\ CInv /\ [Next]_vars => RInv'
  BY RunEntryPreserved
<1> QED
  BY <1>1, <1>2, <1>3, TypesInitial, TypesPreserved, CursorInitial,
     CursorPreserved, ContentInitial, RunEntryInitial, PTL DEF Spec

-----------------------------------------------------------------------------
(* Across crashes: the journal is the commit point.                        *)

ClearReliable == "clear_pending" \notin FaultyOps

\* What the journal and the record say of each other and of what was shown.
GInv ==
  /\ journal # None =>
       /\ journal = job
       /\ job.previous = app.settings
       /\ job.desired # job.previous
       /\ \/ record.settings = job.previous
          \/ record.settings = job.desired /\ record.op = job.op
  /\ journal = None =>
       \/ record.settings = app.settings
       \/ /\ job # None
          /\ job.previous = app.settings
          /\ record.settings = job.desired
  /\ pc \in {"idle", "begun", "finish", "reconcile"} => journal = None
  /\ pc \in {"journalled", "written", "rollback", "clear"} => journal # None
  /\ InProcess => job.desired # job.previous

LEMMA JournalInitial == Init => GInv
BY DEF Init, GInv, InProcess, SagaSteps

LEMMA JournalPreserved ==
  ASSUME RollbackReliable, ClearReliable, TInv, CInv, PInv, GInv, [Next]_vars
  PROVE  GInv'
<1> USE DEF RollbackReliable, ClearReliable, TInv, HasJob, TypeOK, SagaSteps,
            Record, Job, CInv, TombstoneHolds, InProcess, PInv, GInv
<1>1. ASSUME NEW desired \in Settings, NEW sync \in BOOLEAN,
             desired # app.settings, BeginCommit(desired, sync)
      PROVE  GInv'
  BY <1>1 DEF BeginCommit, durable
<1>2. CASE ToggleStartup
  <2>1. [app.settings EXCEPT !.startup = ~@] # app.settings
    BY DEF Settings
  <2> QED
    BY <1>1, <1>2, <2>1, SettingsUpdated DEF ToggleStartup
<1>3. ASSUME NEW look \in Looks, SelectLook(look) PROVE GInv'
  <2>1. [app.settings EXCEPT !.look = look] # app.settings
    BY <1>3 DEF Settings, SelectLook
  <2> QED
    BY <1>1, <1>3, <2>1, SettingsUpdated DEF SelectLook
<1>4. CASE RefuseCommit
  BY <1>4 DEF RefuseCommit, durable
<1>5. CASE WritePending
  BY <1>5 DEF WritePending
<1>6. CASE AbandonUnwritten
  BY <1>6 DEF AbandonUnwritten, durable
<1>7. CASE WriteRecord
  BY <1>7 DEF WriteRecord
<1>8. CASE AbandonWritten
  BY <1>8 DEF AbandonWritten, durable
<1>9. CASE SyncRunEntry
  BY <1>9 DEF SyncRunEntry
<1>10. CASE RollBack
  <2>1. KeyOutcomes("rollback") = {TRUE}
    BY <1>10 DEF RollBack, KeyOutcomes, Outcomes
  <2>2. record' = [generation |-> record.generation + 1, op |-> job.op,
                   settings |-> job.previous]
    BY <1>10, <2>1, Zenon DEF RollBack
  <2>3. record'.settings = job.previous /\ record'.op = job.op
    BY <2>2
  <2> QED
    BY <1>10, <2>3 DEF RollBack, saga
<1>11. CASE ClearPending
  <2>1. KeyOutcomes("clear_pending") = {TRUE}
    BY <1>11 DEF ClearPending, KeyOutcomes, Outcomes
  <2>2. journal' = None
    BY <1>11, <2>1, Zenon DEF ClearPending
  <2> QED
    BY <1>11, <2>2 DEF ClearPending
<1>12. CASE FinishCommit
  BY <1>12 DEF FinishCommit, Adopted, durable
<1>13. CASE DeadlinePasses
  BY <1>13 DEF DeadlinePasses, durable
<1>14. CASE Exit
  BY <1>14 DEF Exit, saga
<1>15. CASE Crash
  BY <1>15 DEF Crash, durable, saga
<1>16. CASE Start
  BY <1>16 DEF Start
<1>17. CASE RecoverNothing
  BY <1>17 DEF RecoverNothing, durable
<1>18. CASE RecoverLate
  BY <1>18 DEF RecoverLate, Matches, durable
<1>19. CASE RecoverUnwritten
  BY <1>19 DEF RecoverUnwritten, durable
<1>20. CASE RecoverWritten
  BY <1>20 DEF RecoverWritten, Matches
<1>21. CASE Reconcile
  BY <1>21 DEF Reconcile, Loaded
<1>22. CASE UNCHANGED vars
  BY <1>22 DEF vars, durable, saga
<1> QED
  BY <1>2, <1>3, <1>4, <1>5, <1>6, <1>7, <1>8, <1>9, <1>10, <1>11, <1>12,
     <1>13, <1>14, <1>15, <1>16, <1>17, <1>18, <1>19, <1>20, <1>21, <1>22
     DEF Next, Select, Execute, Recover

\* What the user sees changes only by a commit the user asked for, from its
\* previous to its desired settings, across crashes and recoveries too.
THEOREM ShownChangesOnlyByRequest ==
  ASSUME RollbackReliable, ClearReliable
  PROVE  Spec => ShownOnlyByRequest
<1>1. TInv /\ CInv /\ PInv /\ GInv /\ [Next]_vars => [ShownStep]_vars
  <2> SUFFICES ASSUME TInv, CInv, PInv, GInv, Next PROVE ShownStep
    BY DEF ShownStep
  <2>1. CASE FinishCommit
    BY <2>1 DEF FinishCommit, Adopted, ShownStep, TInv, HasJob, CInv, PInv,
                InProcess, SagaSteps
  <2>2. CASE Reconcile
    BY <2>2 DEF Reconcile, Loaded, ShownStep, CInv, TombstoneHolds, GInv
  <2>3. CASE Select
    <3>1. ASSUME NEW desired, NEW sync, BeginCommit(desired, sync)
          PROVE  app'.settings = app.settings
      BY <3>1 DEF BeginCommit, TInv, TypeOK
    <3> QED
      BY <2>3, <3>1 DEF Select, ToggleStartup, SelectLook, ShownStep
  <2>4. CASE app' = app
    BY <2>4 DEF ShownStep
  <2> QED
    BY <2>1, <2>2, <2>3, <2>4
       DEF Next, Execute, Recover, RefuseCommit, WritePending, AbandonUnwritten,
           WriteRecord, AbandonWritten, SyncRunEntry, RollBack, ClearPending,
           DeadlinePasses, Exit, Crash, Start, RecoverNothing, RecoverLate,
           RecoverUnwritten, RecoverWritten
<1>2. PInv /\ TInv /\ CInv /\ [Next]_vars => PInv'
  BY ContentPreserved
<1>3. GInv /\ PInv /\ TInv /\ CInv /\ [Next]_vars => GInv'
  BY JournalPreserved
<1> QED
  BY <1>1, <1>2, <1>3, TypesInitial, TypesPreserved, CursorInitial,
     CursorPreserved, ContentInitial, JournalInitial, PTL
     DEF Spec, ShownOnlyByRequest

\* Every step of the saga, of a crash and of a recovery is a step of the atomic
\* commit or leaves it unchanged.
LEMMA StepImplementsAtomic ==
  ASSUME RollbackReliable, ClearReliable, TInv, CInv, PInv, GInv, [Next]_vars
  PROVE  [Atomic!Next]_(Atomic!vars)
<1> USE DEF RollbackReliable, ClearReliable, TInv, HasJob, TypeOK, SagaSteps,
            Record, Job, CInv, TombstoneHolds, InProcess, PInv, GInv,
            InDoubt, Matches, InEffect, Undecided, Atomic!vars, Atomic!Next,
            Atomic!Ask, Atomic!Take, Atomic!Drop, Atomic!Show
<1>1. ASSUME NEW desired \in Settings, NEW sync \in BOOLEAN,
             desired # app.settings, BeginCommit(desired, sync)
      PROVE  [Atomic!Next]_(Atomic!vars)
  BY <1>1 DEF BeginCommit, durable
<1>2. CASE ToggleStartup
  <2>1. [app.settings EXCEPT !.startup = ~@] # app.settings
    BY DEF Settings
  <2> QED
    BY <1>1, <1>2, <2>1, SettingsUpdated DEF ToggleStartup
<1>3. ASSUME NEW look \in Looks, SelectLook(look) PROVE [Atomic!Next]_(Atomic!vars)
  <2>1. [app.settings EXCEPT !.look = look] # app.settings
    BY <1>3 DEF Settings, SelectLook
  <2> QED
    BY <1>1, <1>3, <2>1, SettingsUpdated DEF SelectLook
<1>4. CASE RefuseCommit
  BY <1>4 DEF RefuseCommit, durable
<1>5. CASE WritePending
  BY <1>5 DEF WritePending
<1>6. CASE AbandonUnwritten
  BY <1>6 DEF AbandonUnwritten, durable
<1>7. CASE WriteRecord
  BY <1>7 DEF WriteRecord
<1>8. CASE AbandonWritten
  BY <1>8 DEF AbandonWritten, durable
<1>9. CASE SyncRunEntry
  BY <1>9 DEF SyncRunEntry
<1>10. CASE RollBack
  <2>1. KeyOutcomes("rollback") = {TRUE}
    BY <1>10 DEF RollBack, KeyOutcomes, Outcomes
  <2>2. record' = [generation |-> record.generation + 1, op |-> job.op,
                   settings |-> job.previous]
    BY <1>10, <2>1, Zenon DEF RollBack
  <2>3. record'.settings = job.previous /\ record'.op = job.op
    BY <2>2
  <2> QED
    BY <1>10, <2>3 DEF RollBack, saga
<1>11. CASE ClearPending
  <2>1. KeyOutcomes("clear_pending") = {TRUE}
    BY <1>11 DEF ClearPending, KeyOutcomes, Outcomes
  <2>2. journal' = None
    BY <1>11, <2>1, Zenon DEF ClearPending
  <2> QED
    BY <1>11, <2>2, NoneAssumption DEF ClearPending
<1>12. CASE FinishCommit
  BY <1>12 DEF FinishCommit, Adopted, durable
<1>13. CASE DeadlinePasses
  BY <1>13 DEF DeadlinePasses, durable
<1>14. CASE Exit
  BY <1>14 DEF Exit, saga
<1>15. CASE Crash
  BY <1>15 DEF Crash, durable, saga
<1>16. CASE Start
  BY <1>16 DEF Start
<1>17. CASE RecoverNothing
  BY <1>17 DEF RecoverNothing, durable
<1>18. CASE RecoverLate
  BY <1>18 DEF RecoverLate, durable
<1>19. CASE RecoverUnwritten
  BY <1>19 DEF RecoverUnwritten, durable
<1>20. CASE RecoverWritten
  BY <1>20 DEF RecoverWritten
<1>21. CASE Reconcile
  BY <1>21 DEF Reconcile, Loaded
<1>22. CASE UNCHANGED vars
  BY <1>22 DEF vars, durable, saga
<1> QED
  BY <1>2, <1>3, <1>4, <1>5, <1>6, <1>7, <1>8, <1>9, <1>10, <1>11, <1>12,
     <1>13, <1>14, <1>15, <1>16, <1>17, <1>18, <1>19, <1>20, <1>21, <1>22
     DEF Next, Select, Execute, Recover

\* A settings change takes effect at one instant or not at all, and what is
\* shown is what is in effect: the saga implements the atomic commit.
THEOREM CommitIsAtomic ==
  ASSUME RollbackReliable, ClearReliable
  PROVE  Spec => ImplementsAtomic
<1>1. Init => Atomic!Init
  <2> SUFFICES ASSUME Init PROVE Atomic!Init
    OBVIOUS
  <2>1. record.settings \in Settings
    BY DEF Init
  <2> QED
    BY <2>1 DEF Init, Atomic!Init, InEffect, Undecided, InDoubt
<1>2. PInv /\ TInv /\ CInv /\ [Next]_vars => PInv'
  BY ContentPreserved
<1>3. GInv /\ PInv /\ TInv /\ CInv /\ [Next]_vars => GInv'
  BY JournalPreserved
<1>4. TInv /\ CInv /\ PInv /\ GInv /\ [Next]_vars => [Atomic!Next]_(Atomic!vars)
  BY StepImplementsAtomic
<1> QED
  BY <1>1, <1>2, <1>3, <1>4, TypesInitial, TypesPreserved, CursorInitial,
     CursorPreserved, ContentInitial, JournalInitial, PTL
     DEF Spec, ImplementsAtomic, Atomic!Spec

=============================================================================
