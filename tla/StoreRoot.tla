------------------------------ MODULE StoreRoot ------------------------------
(***************************************************************************)
(* Where the usage store is.  An older version kept it in a legacy         *)
(* directory; at a start the program moves that to the current place, or   *)
(* goes on using it, and removes it once the current one has a state.  Any *)
(* of these steps may fail or be cut short, and a directory that is a link *)
(* or lies in a tree of Claude or Codex is not touched at all.  UsageStore *)
(* has what is inside a directory; here it holds the newest state saved,   *)
(* numbered as they are saved.                                             *)
(***************************************************************************)
EXTENDS Naturals, FiniteSets

CONSTANTS
    MaxSaves,     \* bound: states saved
    MaxStarts,    \* bound: starts of the program
    MaxFailures,  \* bound: moves and removals that fail
    None

Places == {"legacy", "current"}

\* What a directory holds: the newest valid state, 0 without one; temporary
\* files and states that cannot be read; and what the store did not write.
Contents == [state : Nat, spoilt : BOOLEAN, other : BOOLEAN]
Empty == [state |-> 0, spoilt |-> FALSE, other |-> FALSE]

VARIABLES
    dirs,      \* what each place holds, None if it is not there
    barred,    \* places that are links or lie in a provider's tree
    pc,        \* down, the next step of select_production_root, or up
    root,      \* the place chosen
    overCurrent,  \* was there a current directory when this start chose?
    loaded,    \* the state the running process began with
    saves,     \* states saved so far; the last one has this number
    starts, failures

vars == <<dirs, barred, pc, root, overCurrent, loaded, saves, starts, failures>>

TypeOK ==
    /\ dirs \in [Places -> Contents \cup {None}]
    /\ barred \subseteq Places
    /\ pc \in {"down", "choose", "clear", "empty", "move", "fallback", "load", "up"}
    /\ root \in Places /\ overCurrent \in BOOLEAN
    /\ loaded \in Nat /\ saves \in 0..MaxSaves
    /\ starts \in 0..MaxStarts /\ failures \in 0..MaxFailures

\* What an older version, or a user, may have left: one state at most.
Init ==
    /\ dirs \in [Places -> {None} \cup [state : 0..1, spoilt : BOOLEAN, other : BOOLEAN]]
    /\ barred \in SUBSET Places
    /\ LET stored == {p \in Places : dirs[p] # None /\ dirs[p].state = 1}
       IN  /\ stored # Places /\ stored \cap barred = {}
           /\ saves = IF stored = {} THEN 0 ELSE 1
    /\ pc = "down" /\ root = "current" /\ overCurrent = FALSE /\ loaded = 0
    /\ starts = 0 /\ failures = 0

-----------------------------------------------------------------------------
\* forbidden: the place lies in a provider's tree, under whichever name, or it
\* is a link, which cannot be pinned.
Forbidden(p) == p \in barred

\* PinnedDirectory::open: the place can be used as a directory.
IsReal(p) == dirs[p] # None /\ ~Forbidden(p)
HasState(p) == IsReal(p) /\ (IsReal(p) => dirs[p].state > 0)
IsEmpty(p) == IsReal(p) /\ dirs[p] = Empty

Fail == failures < MaxFailures /\ failures' = failures + 1

Start ==
    /\ pc = "down" /\ starts < MaxStarts
    /\ starts' = starts + 1 /\ pc' = "choose"
    /\ UNCHANGED <<dirs, barred, overCurrent, root, loaded, saves, failures>>

\* Mutant: the legacy directory goes whatever the current one holds.
ClearsAlways == IsReal("current")

ClearsLegacy == HasState("current")

\* select_production_root, up to its first change.
Choose ==
    /\ pc = "choose"
    /\ pc' = IF ~IsReal("current") THEN (IF IsReal("legacy") THEN "move" ELSE "load")
             ELSE IF ClearsLegacy THEN "clear"
             ELSE IF IsEmpty("current") /\ IsReal("legacy") THEN "empty"
             ELSE "fallback"
    /\ root' = "current" /\ overCurrent' = IsReal("current")
    /\ UNCHANGED <<dirs, barred, loaded, saves, starts, failures>>

\* remove_real_directory: the store's own files, and then the directory if
\* nothing is left in it.
ClearLegacy ==
    /\ pc = "clear"
    /\ pc' = "load"
    /\ IF ~IsReal("legacy") THEN UNCHANGED <<dirs, failures>>
       ELSE \/ /\ dirs' = [dirs EXCEPT !["legacy"] =
                              IF @.other THEN [Empty EXCEPT !.other = TRUE] ELSE None]
               /\ UNCHANGED failures
            \/ Fail /\ UNCHANGED dirs
            \/ Fail /\ dirs' = [dirs EXCEPT !["legacy"].spoilt = TRUE, !["legacy"].state = 0]
    /\ UNCHANGED <<barred, overCurrent, root, loaded, saves, starts>>

\* remove_empty_directory; what it does is not looked at.
RemoveEmpty ==
    /\ pc = "empty"
    /\ pc' = "move"
    /\ \/ dirs' = [dirs EXCEPT !["current"] = None] /\ UNCHANGED failures
       \/ Fail /\ UNCHANGED dirs
    /\ UNCHANGED <<barred, overCurrent, root, loaded, saves, starts>>

\* move_directory: to a place that is free, allowed, and has no directory yet.
Moves == IsReal("legacy") /\ ~Forbidden("current") /\ dirs["current"] = None

Move ==
    /\ pc = "move" /\ Moves
    /\ dirs' = [dirs EXCEPT !["current"] = dirs["legacy"], !["legacy"] = None]
    /\ pc' = "load"
    /\ UNCHANGED <<barred, overCurrent, root, loaded, saves, starts, failures>>

MoveFails ==
    /\ pc = "move"
    /\ IF Moves THEN Fail ELSE UNCHANGED failures
    /\ pc' = "fallback"
    /\ UNCHANGED <<dirs, barred, overCurrent, root, loaded, saves, starts>>

\* The legacy directory is used where it is: if it has a state, or whatever
\* it holds if there was no current one.
Fallback ==
    /\ pc = "fallback"
    /\ root' = (IF HasState("legacy") \/ (IsReal("legacy") /\ ~overCurrent)
                    THEN "legacy" ELSE "current")
    /\ pc' = "load"
    /\ UNCHANGED <<dirs, barred, overCurrent, loaded, saves, starts, failures>>

Load ==
    /\ pc = "load"
    /\ loaded' = IF HasState(root) THEN dirs[root].state ELSE 0
    /\ pc' = "up"
    /\ UNCHANGED <<dirs, barred, overCurrent, root, saves, starts, failures>>

\* A state is saved: the directory is made if it is not there.
Save ==
    /\ pc = "up" /\ saves < MaxSaves
    /\ ~Forbidden(root)
    /\ dirs' = [dirs EXCEPT ![root] =
                   IF @ = None THEN [Empty EXCEPT !.state = saves + 1]
                               ELSE [@ EXCEPT !.state = saves + 1]]
    /\ saves' = saves + 1 /\ loaded' = saves + 1
    /\ UNCHANGED <<barred, overCurrent, pc, root, starts, failures>>

Crash ==
    /\ pc # "down"
    /\ pc' = "down"
    /\ UNCHANGED <<dirs, barred, overCurrent, root, loaded, saves, starts, failures>>

Next ==
    \/ Start \/ Choose \/ ClearLegacy \/ RemoveEmpty \/ Move \/ MoveFails
    \/ Fallback \/ Load \/ Save \/ Crash

Spec == Init /\ [][Next]_vars

-----------------------------------------------------------------------------
\* A running process has the newest state that was ever saved, wherever the
\* starts before it were cut short and whatever they could not move.
NewestLoaded == pc = "up" => loaded = saves

Foreign == {p \in Places : dirs[p] # None /\ dirs[p].other}

\* What the store did not write, and what lies in a provider's tree or behind
\* a link, stays as it was.
ForeignKept ==
    [][/\ \A p \in barred : dirs'[p] = dirs[p]
       /\ Cardinality(Foreign') = Cardinality(Foreign)]_vars

=============================================================================
