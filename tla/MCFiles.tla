------------------------------ MODULE MCFiles ------------------------------
(***************************************************************************)
(* What RunDog shares with its own other runs and with other programs, for *)
(* TLC: the generations of the usage checkpoint (UsageStore), the          *)
(* directory they lie in (StoreRoot), the log of the runs (RunHistory),    *)
(* the login of Claude Code (Limits), the snapshots of otak-usage          *)
(* (OtakFloor) and the texts in the registry (SettingsText).  A behaviour  *)
(* is of one of them; the others stay where they began.                    *)
(***************************************************************************)
EXTENDS UsageStore

CONSTANTS
    MaxSaves, MaxStarts, MaxFailures,   \* of StoreRoot
    MaxLines, MaxRuns, MaxFaults,       \* of RunHistory
    MaxToken, MaxLogins, MaxLost, Used, Plans,  \* of Limits
    DayLength, MonthLength, LastTime, MaxEpoch, MaxSpent,  \* of OtakFloor
    Themes, Rates, Startups, Modes, MaxChoices, MaxSpoilt  \* of SettingsText

VARIABLES view,       \* the module this behaviour is of
          dirs, barred, rootStep, root, overCurrent, began, saves, starts, failures,
          marker, log, run, runStep, tracked, result, told, silent, faults,
          provider, login, good, issued, code, logins, fetchStep, creds, why, host,
          identity, lost, claudeShown, codexShown, fromRemote, access,
          now, spent, logged, lock, artifact, tickStep, fence, snapshot, dayKey,
          totals, floor,
          record, journal, legacy, app, saved, spoilt

rootVars == <<dirs, barred, rootStep, root, overCurrent, began, saves, starts, failures>>
historyVars == <<marker, log, run, runStep, tracked, result, told, silent, faults>>
limitsVars == <<provider, login, good, issued, code, logins, fetchStep, creds, why, host,
                identity, lost, claudeShown, codexShown, fromRemote, access>>
floorVars == <<now, spent, logged, lock, artifact, tickStep, fence, snapshot, dayKey,
               totals, floor>>
textVars == <<record, journal, legacy, app, saved, spoilt>>
filesVars == <<view, vars, rootVars, historyVars, limitsVars, floorVars, textVars>>

Root == INSTANCE StoreRoot WITH pc <- rootStep, loaded <- began

History == INSTANCE RunHistory WITH pc <- runStep

Login == INSTANCE Limits WITH
    file <- login, pc <- fetchStep, read <- identity,
    claude <- claudeShown, codex <- codexShown

Otak == INSTANCE OtakFloor WITH
    pc <- tickStep, read <- snapshot

Registry == INSTANCE SettingsText WITH
    MaxGeneration <- MaxChoices, MaxDamage <- MaxSpoilt,
    ReadFailsAtStart <- FALSE, damaged <- spoilt

\* None is a value of its own, a log has room for a line, an older version may
\* have left a state, no plan has the name that stands for API access, and the
\* settings offered include the defaults.
ASSUME FilesAssumption ==
    /\ {MaxStarts, MaxFailures, MaxRuns, MaxFaults} \subseteq Nat
    /\ {MaxToken, MaxLogins, MaxLost} \subseteq Nat
    /\ {LastTime, MaxEpoch, MaxSpent} \subseteq Nat
    /\ {MaxSaves, MaxLines, DayLength, MonthLength} \subseteq Nat \ {0}
    /\ None \notin Nat /\ None \notin Root!Contents /\ None \notin Login!Logins
    /\ "api" \notin Plans /\ None \notin {"api", "login"}
    /\ {MaxChoices, MaxSpoilt} \subseteq Nat /\ Startups \subseteq BOOLEAN
    /\ Registry!Default \in Registry!Offered
    /\ None \notin Registry!Records \cup Registry!Journals
    /\ None \notin Registry!Texts

NoDirectories == dirs = [p \in Root!Places |-> None] /\ barred = {}

FilesInit ==
    /\ view \in {"store", "root", "history", "login", "otak", "registry"}
    /\ Init
    /\ Root!Init /\ (view # "root" => NoDirectories)
    /\ History!Init
    /\ Login!Init /\ (view # "login" => provider = "claude")
    /\ Otak!Init
    /\ Registry!Init /\ (view # "registry" => record = None /\ legacy = <<>>)

OfStore(A) ==
    /\ view = "store" /\ A
    /\ UNCHANGED <<view, rootVars, historyVars, limitsVars, floorVars, textVars>>
OfRoot(A) ==
    /\ view = "root" /\ A
    /\ UNCHANGED <<view, vars, historyVars, limitsVars, floorVars, textVars>>
OfHistory(A) ==
    /\ view = "history" /\ A
    /\ UNCHANGED <<view, vars, rootVars, limitsVars, floorVars, textVars>>
OfLogin(A) ==
    /\ view = "login" /\ A
    /\ UNCHANGED <<view, vars, rootVars, historyVars, floorVars, textVars>>
OfOtak(A) ==
    /\ view = "otak" /\ A
    /\ UNCHANGED <<view, vars, rootVars, historyVars, limitsVars, textVars>>
OfRegistry(A) ==
    /\ view = "registry" /\ A
    /\ UNCHANGED <<view, vars, rootVars, historyVars, limitsVars, floorVars>>

FilesNext ==
    \/ OfStore(Next) \/ OfRoot(Root!Next) \/ OfHistory(History!Next)
    \/ OfLogin(Login!Next) \/ OfOtak(Otak!Next)
    \/ OfRegistry(Registry!Next)

FilesSpec == FilesInit /\ [][FilesNext]_filesVars
-----------------------------------------------------------------------------
\* The program goes on with the newest state it saved, whichever directory it
\* lies in, and what the store did not write itself stays
\* (select_production_root, migrate_and_cleanup): see StoreRoot.
DirectoryMoved == [](Root!TypeOK /\ Root!NewestLoaded) /\ Root!ForeignKept

\* The log never tells twice how a run ended, and without faults no run is left
\* out (start_production, finish): see RunHistory.
ToldOnce == History!TypeOK /\ History!ToldOnce

\* A fetch of RunDog never costs the user the login of Claude Code, and the
\* heading says API exactly while the last answer was for an API key
\* (refresh_claude_login, apply_claude_limits, apply_codex_limits): see Limits.
LimitsTrue == Login!TypeOK /\ Login!LoginKept /\ Login!HeadingTrue

\* The cost shown of a day or a month is never more than it cost
\* (parse_snapshot, reset_if_day_changed): see OtakFloor.
ShownIsSpent == Otak!TypeOK /\ Otak!ShownIsSpent

\* The settings saved last are those that are read, by whichever release they
\* were written; a damaged text is read as a whole or not at all
\* (SettingsRecord::decode, load_settings_record_at, save_settings): see
\* SettingsText.
SettingsKept ==
    view = "registry" =>
        Registry!TypeOK /\ Registry!SavedIsRead /\ Registry!JournalMatches
=============================================================================
