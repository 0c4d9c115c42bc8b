----------------------------- MODULE RunHistory -----------------------------
(***************************************************************************)
(* The account RunDog keeps of its own runs (windows/run_history.rs): a    *)
(* marker file that a run leaves behind unless it ends by itself, and a    *)
(* bounded log.  A process may be killed between any two file operations,  *)
(* and each of them may fail, which the code takes no notice of.           *)
(*                                                                         *)
(* The mutex admits one process per Windows session; two sessions of one   *)
(* user, which share the directory, are left out.                          *)
(***************************************************************************)
EXTENDS Naturals, Sequences, SequencesExt

CONSTANTS
    MaxLines,     \* lines the log holds (MAX_LOG_BYTES)
    MaxRuns,      \* bound: starts of the program
    MaxFaults,    \* bound: file operations that fail, markers that are damaged
    None

VARIABLES
    marker,   \* the file active-run: none, the run it names, or unreadable
    log,      \* the lines of termination.log: [event, run]
    run,      \* the run that started last
    pc,       \* what its process does next, "down" without one
    tracked,  \* RunSession.root: has it a directory?
    result,   \* how its message loop ended: clean_exit or error_exit
    told,     \* history: runs with a line of how they ended
    silent,   \* history: runs killed before their marker or after it
    faults    \* faults so far

vars == <<marker, log, run, pc, tracked, result, told, silent, faults>>
files == <<marker, log>>
history == <<told, silent>>

\* RunMarker::decode gives no marker.
Unreadable == 0

\* RunMarker: a run has an ID of its own.
Markers == {None, Unreadable} \cup 1..MaxRuns

Ends == {"unclean", "clean_exit", "error_exit"}
Line(event, r) == [event |-> event, run |-> r]

TypeOK ==
    /\ marker \in Markers /\ run \in 0..MaxRuns /\ faults \in 0..MaxFaults
    /\ Len(log) <= MaxLines /\ tracked \in BOOLEAN
    /\ pc \in {"down", "report", "mark", "begin", "up", "unmark", "end"}
    /\ result \in {"clean_exit", "error_exit"}
    /\ told \subseteq 0..MaxRuns /\ silent \subseteq 1..MaxRuns

Init ==
    /\ marker = None /\ log = <<>>
    /\ run = 0 /\ pc = "down" /\ tracked = FALSE /\ result = "clean_exit"
    /\ told = {} /\ silent = {} /\ faults = 0

-----------------------------------------------------------------------------
\* bounded_log: the oldest lines go.
Bounded(lines) == SubSeq(lines, IF Len(lines) > MaxLines THEN Len(lines) - MaxLines + 1 ELSE 1,
                         Len(lines))

\* append_log and write_log.  A log that cannot be read is taken for an empty
\* one, and a write that fails leaves the old one.
Append1(line) ==
    \/ log' = Bounded(Append(log, line)) /\ faults' = faults
    \/ /\ faults < MaxFaults /\ faults' = faults + 1
       /\ log' \in {<<line>>, log}

\* Mutant: every start that finds the marker reports it.
AppendAgain(line) == Append1(line)

\* append_log_once: unless a line of the log names the run already.
AppendOnce(line) ==
    \/ line \in ToSet(log) /\ UNCHANGED <<log, faults>>
    \/ line \notin ToSet(log) /\ Append1(line)
    \/ line \in ToSet(log) /\ faults < MaxFaults /\ faults' = faults + 1 /\ log' = <<line>>

Tell(line) == told' = IF log' # log THEN told \cup {line.run} ELSE told

\* The process begins; it may have no directory to write to.
Start ==
    /\ pc = "down" /\ run < MaxRuns
    /\ run' = run + 1
    /\ \/ pc' = "report" /\ tracked' = TRUE /\ faults' = faults
       \/ /\ faults < MaxFaults /\ faults' = faults + 1
          /\ pc' = "up" /\ tracked' = FALSE
    /\ UNCHANGED <<files, result, history>>

\* A marker that was left behind: the run before it did not end by itself.
Report ==
    /\ pc = "report"
    /\ pc' = "mark"
    /\ CASE marker = None -> UNCHANGED <<log, told, faults>>
         [] marker = Unreadable -> Append1(Line("unreadable", 0)) /\ UNCHANGED told
         [] OTHER -> /\ AppendOnce(Line("unclean", marker))
                     /\ Tell(Line("unclean", marker))
    /\ UNCHANGED <<marker, run, tracked, result, silent>>

\* The marker of this run replaces it, or nothing more is recorded.
Mark ==
    /\ pc = "mark"
    /\ \/ marker' = run /\ pc' = "begin" /\ UNCHANGED <<tracked, faults>>
       \/ /\ faults < MaxFaults /\ faults' = faults + 1
          /\ tracked' = FALSE /\ pc' = "up" /\ UNCHANGED marker
    /\ UNCHANGED <<log, run, result, history>>

Begin ==
    /\ pc = "begin"
    /\ pc' = "up"
    /\ Append1(Line("start", run))
    /\ UNCHANGED <<marker, run, tracked, result, history>>

\* run_single_instance returns: after the message loop, whose diagnostics are
\* recorded, or with an error from before it.
Diagnose ==
    /\ pc = "up"
    /\ pc' = "unmark"
    /\ result' \in {"clean_exit", "error_exit"}
    /\ IF tracked THEN Append1(Line("usage_diagnostics", run)) ELSE UNCHANGED <<log, faults>>
    /\ UNCHANGED <<marker, run, tracked, history>>

FailEarly ==
    /\ pc = "up"
    /\ pc' = "unmark" /\ result' = "error_exit"
    /\ UNCHANGED <<files, run, tracked, history, faults>>

\* finish: the marker is removed if it is this run's.
Unmark ==
    /\ pc = "unmark"
    /\ \/ tracked /\ marker = run /\ marker' = None /\ pc' = "end" /\ faults' = faults
       \/ /\ ~(tracked /\ marker = run)
          /\ pc' = "down" /\ UNCHANGED <<marker, faults>>
       \/ /\ tracked /\ faults < MaxFaults /\ faults' = faults + 1
          /\ pc' = "down" /\ UNCHANGED marker
    /\ UNCHANGED <<log, run, tracked, result, history>>

End ==
    /\ pc = "end"
    /\ pc' = "down"
    /\ Append1(Line(result, run)) /\ Tell(Line(result, run))
    /\ UNCHANGED <<marker, run, tracked, result, silent>>

\* The process is killed.
Kill ==
    /\ pc # "down"
    /\ pc' = "down"
    /\ silent' = IF pc \in {"report", "mark", "end"} THEN silent \cup {run} ELSE silent
    /\ UNCHANGED <<files, run, tracked, result, told, faults>>

\* The marker is damaged on disk.
Damage ==
    /\ pc = "down" /\ marker \notin {None, Unreadable}
    /\ faults < MaxFaults /\ faults' = faults + 1
    /\ marker' = Unreadable
    /\ UNCHANGED <<log, run, pc, tracked, result, history>>

Next ==
    \/ Start \/ Report \/ Mark \/ Begin \/ Diagnose \/ FailEarly \/ Unmark \/ End
    \/ Kill \/ Damage

Spec == Init /\ [][Next]_vars

-----------------------------------------------------------------------------
\* Each run that is over is told of at most once in the log, as unclean or by
\* its own last line: a start that could not replace the marker does not report
\* the same run again (append_log_once), and a run whose marker stayed does not
\* claim a clean end (finish).  Without faults, every run before this one whose
\* marker was written is told of, unless it was killed between removing its
\* marker and the line about it.
ToldOnce ==
    /\ \A i, j \in DOMAIN log :
          log[i].event \in Ends /\ log[j].event \in Ends /\ log[i].run = log[j].run => i = j
    /\ faults = 0 /\ pc \notin {"report", "down"} => (1..run - 1) \ silent \subseteq told
=============================================================================
