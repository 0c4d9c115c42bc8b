----------------------------- MODULE MCUpdates -----------------------------
(***************************************************************************)
(* The update modules for TLC.  They model three views of the same code,   *)
(* which share no state: the threads and messages (UpdateProtocol), the    *)
(* clock (UpdateSchedule) and the files and requests of the worker         *)
(* (InstallerFetch).  A behaviour is of one of them, the other two stay    *)
(* where they began: their states add up instead of multiplying, and no    *)
(* behaviour of any one is lost.                                           *)
(***************************************************************************)
EXTENDS UpdateProtocol, UpdateSchedule, TLC

CONSTANTS Versions, MaxRedirects, MaxCached

ASSUME FetchAssumption ==
    /\ Versions \subseteq Nat \ {0} /\ IsFiniteSet(Versions) /\ 1 \in Versions
    /\ MaxRedirects \in Nat /\ MaxCached \in Nat

VARIABLES view,       \* the module this behaviour is of
          running, exe, partial, launched, pc, candidate, hosts, headers, leaving

fetchVars == <<running, exe, partial, launched, pc, candidate, hosts, headers, leaving>>
updatesVars == <<view, vars, scheduleVars, fetchVars>>

Fetch == INSTANCE InstallerFetch WITH
    part <- partial, asked <- hosts, cancelled <- leaving

UpdatesInit ==
    /\ view \in {"protocol", "schedule", "fetch"}
    /\ Init /\ (view # "protocol" => ~autoUpdate)
    /\ ScheduleInit /\ (view # "schedule" => now = 1)
    /\ Fetch!Init

OfProtocol(A) == view = "protocol" /\ A /\ UNCHANGED <<view, scheduleVars, fetchVars>>
OfSchedule(A) == view = "schedule" /\ A /\ UNCHANGED <<view, vars, fetchVars>>
OfFetch(A) == view = "fetch" /\ A /\ UNCHANGED <<view, vars, scheduleVars>>

UpdatesNext == OfProtocol(Next) \/ OfSchedule(ScheduleNext) \/ OfFetch(Fetch!Next)

\* The fairness of UpdateProtocol's FairSpec, on its own behaviours.
UpdatesSpec ==
    /\ UpdatesInit /\ [][UpdatesNext]_updatesVars
    /\ WF_updatesVars(OfProtocol(TickUpdate)) /\ WF_updatesVars(OfProtocol(TickDue))
    /\ WF_updatesVars(OfProtocol(Handle)) /\ WF_updatesVars(OfProtocol(Cancel))
    /\ WF_updatesVars(OfProtocol(End))
    /\ \A w \in Workers : WF_updatesVars(OfProtocol(Work(w)))

WorkerSymmetry == Permutations(Workers)
-----------------------------------------------------------------------------
\* Every file with an installer's name has the bytes its manifest names; a
\* request leaves its host only for a release host, and without its headers; the
\* cache holds no more than it may; the version that runs never goes back
\* (download_installer, github_redirect_allowed, cleanup_update_cache,
\* select_update): see InstallerFetch.
FetchedSafely ==
    /\ []Fetch!TypeOK /\ []Fetch!OnlyVerified /\ []Fetch!Confined /\ []Fetch!CacheBounded
    /\ Fetch!OnlyForward
=============================================================================
