----------------------------- MODULE UsageStore -----------------------------
(***************************************************************************)
(* The durable usage checkpoint: numbered blobs and a file that names the  *)
(* current one.  A persist writes a new blob, then moves current, then     *)
(* deletes old blobs; each step may fail, and the process or the machine   *)
(* may stop between any two.  Blobs and current may be damaged on disk.    *)
(* A blob holds a stamp: how many snapshots were written before it, plus 1.*)
(***************************************************************************)
EXTENDS Naturals

CONSTANTS
    Prior,          \* MAX_PRIOR_GENERATIONS
    MaxGeneration,  \* bound: the highest generation written
    MaxDamage,      \* bound: files damaged or lost on disk
    ReadsFail,      \* may a persist fail to read the directory?
    Damaged, None

ASSUME StoreAssumption ==
    /\ Prior \in Nat /\ MaxGeneration \in Nat /\ MaxDamage \in Nat
    /\ ReadsFail \in BOOLEAN
    /\ Damaged \notin Nat /\ None \notin Nat /\ Damaged # None

Generations == 1..MaxGeneration

VARIABLES
    blobs,    \* what the blob of each generation holds
    current,  \* the generation the current file names, None without a valid file
    pc,       \* what the process does next
    target,   \* the generation being persisted, or cleaned up after
    stamp,    \* snapshots written so far
    acked,    \* the stamp of the last persist that reported Applied
    loaded,   \* the stamp the running process was restored from, 0 if Missing
    damage    \* files damaged so far

vars == <<blobs, current, pc, target, stamp, acked, loaded, damage>>

TypeOK ==
    /\ blobs \in [Generations -> Nat \cup {Damaged, None}]
    /\ current \in Generations \cup {None}
    /\ pc \in {"down", "idle", "publish", "cleanup"}
    /\ target \in Nat
    /\ stamp \in Nat /\ acked \in Nat /\ loaded \in Nat /\ damage \in Nat

Init ==
    /\ blobs = [g \in Generations |-> None]
    /\ current = None
    /\ pc = "down"
    /\ target = 0
    /\ stamp = 0 /\ acked = 0 /\ loaded = 0 /\ damage = 0

-----------------------------------------------------------------------------
\* h is the largest of a set of generations, 0 if the set is empty.
IsHighest(h, S) == IF S = {} THEN h = 0 ELSE h \in S /\ \A g \in S : g <= h

\* highest_blob_generation goes by the names: it counts damaged blobs too.
IsHighestBlob(h) == IsHighest(h, {g \in Generations : blobs[g] # None})

CurrentOr0 == IF current = None THEN 0 ELSE current

\* decode_blob: a header, fields and a generation that is the blob's own.
Decodable(g) == blobs[g] \in Nat

\* Mutant: only the generation just before is tried.
PriorStatesNearest(requested) == {g \in Generations : g + 1 = requested /\ Decodable(g)}

\* recover_prior walks these from the newest down, Prior of them at most.
PriorStates(requested) ==
    {g \in Generations : g < requested /\ requested <= g + Prior /\ Decodable(g)}

\* load_usage_state: the generation it restores, 0 if Missing.
Restores(g) ==
    \E requested \in 0..MaxGeneration :
        /\ IF current = None THEN IsHighestBlob(requested) ELSE requested = current
        /\ IF requested \in Generations /\ Decodable(requested)
               THEN g = requested
               ELSE IsHighest(g, PriorStates(requested))

-----------------------------------------------------------------------------
\* A read that fails counts as 0, like a file that is not there.
Seen(value) == IF ReadsFail THEN {value, 0} ELSE {value}

NextGeneration(c, h) == IF c >= h THEN c + 1 ELSE h + 1

\* Mutant: the blobs of interrupted saves are not looked at.
WriteBlobAfterCurrent ==
    /\ pc = "idle"
    /\ CurrentOr0 + 1 \in Generations
    /\ blobs' = [blobs EXCEPT ![CurrentOr0 + 1] = stamp + 1]
    /\ target' = CurrentOr0 + 1
    /\ stamp' = stamp + 1
    /\ pc' = "publish"
    /\ UNCHANGED <<current, acked, loaded, damage>>

\* persist_usage_state up to write_blob; build_state hands in generation 0.
\* A write that fails leaves at most a temporary file, which nothing reads.
WriteBlob ==
    /\ pc = "idle"
    /\ \E highest \in 0..MaxGeneration :
          /\ IsHighestBlob(highest)
          /\ \E c \in Seen(CurrentOr0), h \in Seen(highest) :
                target' = NextGeneration(c, h)
    /\ target' \in Generations
    /\ blobs' = [blobs EXCEPT ![target'] = stamp + 1]
    /\ stamp' = stamp + 1
    /\ pc' = "publish"
    /\ UNCHANGED <<current, acked, loaded, damage>>

\* write_current; Applied is reported only when it succeeds.
WriteCurrent ==
    /\ pc = "publish"
    /\ current' = target
    /\ acked' = stamp
    /\ pc' = "cleanup"
    /\ UNCHANGED <<blobs, target, stamp, loaded, damage>>

WriteCurrentFails ==
    /\ pc = "publish"
    /\ pc' = "idle"
    /\ UNCHANGED <<blobs, current, target, stamp, acked, loaded, damage>>

\* cleanup_after_publish: each delete is attempted once and may fail.
Cleanup ==
    /\ pc = "cleanup"
    /\ \E gone \in SUBSET {g \in Generations : g + Prior < target} :
          blobs' = [g \in Generations |-> IF g \in gone THEN None ELSE blobs[g]]
    /\ pc' = "idle"
    /\ UNCHANGED <<current, target, stamp, acked, loaded, damage>>

Crash ==
    /\ pc # "down"
    /\ pc' = "down"
    /\ UNCHANGED <<blobs, current, target, stamp, acked, loaded, damage>>

Load ==
    /\ pc = "down"
    /\ \E g \in 0..MaxGeneration :
          /\ Restores(g)
          /\ loaded' = IF g = 0 THEN 0 ELSE blobs[g]
          /\ target' = g
          /\ pc' = IF g = 0 THEN "idle" ELSE "cleanup"
    /\ UNCHANGED <<blobs, current, stamp, acked, damage>>

\* A blob or current becomes unreadable or disappears.
Damage ==
    /\ damage < MaxDamage
    /\ damage' = damage + 1
    /\ \/ /\ \E g \in Generations, what \in {Damaged, None} :
                blobs[g] \in Nat /\ blobs' = [blobs EXCEPT ![g] = what]
          /\ UNCHANGED current
       \/ current' = None /\ current # None /\ UNCHANGED blobs
    /\ UNCHANGED <<pc, target, stamp, acked, loaded>>

Next ==
    \/ WriteBlob \/ WriteCurrent \/ WriteCurrentFails \/ Cleanup
    \/ Crash \/ Load \/ Damage

Spec == Init /\ [][Next]_vars

-----------------------------------------------------------------------------
(* Properties.                                                             *)

\* "Load prefers a valid prior generation over an empty rebuild": wherever the
\* process stops, the next one restores what the last successful persist saved
\* or something newer; each damaged file costs at most one snapshot.
AcknowledgedSurvives ==
    [][ pc = "down" /\ pc' # "down" => loaded' + damage >= acked ]_vars

\* "Never reuse an existing generation (including an unpublished blob left by
\* an interrupted save)": a good blob is deleted or damaged, never replaced.
NeverReused ==
    [][ \A g \in Generations :
            blobs[g] \in Nat /\ blobs'[g] \in Nat => blobs'[g] = blobs[g] ]_vars
=============================================================================
