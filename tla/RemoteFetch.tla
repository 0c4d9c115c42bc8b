----------------------------- MODULE RemoteFetch -----------------------------
(***************************************************************************)
(* The remote limit fetches of the usage collector: one slot per provider, *)
(* filled by a worker thread and emptied by the message loop at the next   *)
(* tick or when the worker's message arrives.  Messages only make that     *)
(* sooner, so they are left out, and so is the clock: a provider may be    *)
(* due at any tick, and a failure may find the old limits expired or not.  *)
(***************************************************************************)
EXTENDS Naturals

CONSTANTS
    Slots,            \* of the providers: Claude and Codex
    BackoffInitial,   \* FETCH_BACKOFF_INITIAL_MS
    BackoffMax,       \* FETCH_BACKOFF_MAX_MS
    MaxGeneration,    \* bound: the last request generation of a slot
    Empty             \* of a slot without an outcome

ASSUME FetchAssumption ==
    /\ BackoffInitial \in Nat \ {0} /\ BackoffMax \in Nat
    /\ BackoffInitial <= BackoffMax
    /\ MaxGeneration \in Nat

Generations == 1..MaxGeneration
Outcomes    == [generation : Generations, good : BOOLEAN]

\* What a worker does next; "good" and "bad": store that outcome.
Active == {"spawned", "good", "bad"}

VARIABLES
    inFlight,    \* ProviderFetchState.in_flight
    generation,  \* ProviderFetchState.request_generation
    failed,      \* is ProviderFetchState.last_error set?
    freshness,   \* ProviderFetchState.freshness
    backoff,     \* ProviderFetchState.backoff_ms
    running,     \* ProviderRemoteSlot.in_flight, shared with the worker
    latest,      \* ProviderRemoteSlot.latest, shared with the worker
    cancelled,   \* UsageCollector.cancelled and the flag of each slot
    worker,      \* the worker of each request
    shown,       \* the request whose limits are shown, 0 before the first
    visit        \* the providers the current tick has yet to consider

fetchState == <<inFlight, generation, failed, freshness, backoff>>
fetchVars == <<fetchState, running, latest, cancelled, worker, shown, visit>>

FetchTypeOK ==
    /\ inFlight \in [Slots -> BOOLEAN]
    /\ generation \in [Slots -> 0..MaxGeneration + 1]
    /\ failed \in [Slots -> BOOLEAN]
    /\ freshness \in [Slots -> {"Unknown", "Current", "Stale", "Expired", "Failed"}]
    /\ backoff \in [Slots -> 0..BackoffMax]
    /\ running \in [Slots -> BOOLEAN]
    /\ latest \in [Slots -> Outcomes \cup {Empty}]
    /\ cancelled \in BOOLEAN
    /\ worker \in [Slots -> [Generations -> Active \cup {"none", "stored", "done"}]]
    /\ shown \in [Slots -> 0..MaxGeneration]
    /\ visit \in SUBSET Slots

FetchInit ==
    /\ inFlight = [p \in Slots |-> FALSE]
    /\ generation = [p \in Slots |-> 0]
    /\ failed = [p \in Slots |-> FALSE]
    /\ freshness = [p \in Slots |-> "Unknown"]
    /\ backoff = [p \in Slots |-> 0]
    /\ running = [p \in Slots |-> FALSE]
    /\ latest = [p \in Slots |-> Empty]
    /\ cancelled = FALSE
    /\ worker = [p \in Slots |-> [g \in Generations |-> "none"]]
    /\ shown = [p \in Slots |-> 0]
    /\ visit = {}

-----------------------------------------------------------------------------

NextBackoff(b) ==
    IF b = 0 THEN BackoffInitial ELSE IF 2 * b <= BackoffMax THEN 2 * b ELSE BackoffMax

\* Mutant: a failure leaves the freshness of the last success.
FreshnessKept(p) == {freshness[p]}

\* freshness_after_failure: whether the window reset meanwhile is up to the clock.
AfterFailure(p) == IF shown[p] = 0 THEN {"Failed"} ELSE {"Stale", "Expired"}

\* Mutant: the outcome of any request of this session is welcome.
RejectLateNever(p, outcome) == FALSE

\* reject_late_result; no request has generation 0.
RejectLate(p, outcome) == cancelled \/ outcome.generation # generation[p]

\* apply_remote_outcome on one slot: finish_fetch, then the payload.
Applied(p) == latest[p] # Empty /\ ~RejectLate(p, latest[p]) /\ latest[p].good
Missed(p)  == latest[p] # Empty /\ ~RejectLate(p, latest[p]) /\ ~latest[p].good

\* take_claude_limits empties both slots and applies what was in them.
TakeLimits ==
    /\ latest' = [p \in Slots |-> Empty]
    /\ inFlight' = [p \in Slots |-> inFlight[p] /\ latest[p] = Empty]
    /\ failed' = [p \in Slots |-> (failed[p] /\ ~Applied(p)) \/ Missed(p)]
    /\ backoff' = [p \in Slots |->
                    IF Applied(p) THEN 0
                    ELSE IF Missed(p) THEN NextBackoff(backoff[p]) ELSE backoff[p]]
    /\ shown' = [p \in Slots |->
                    IF Applied(p) THEN latest[p].generation ELSE shown[p]]
    /\ \E fresh \in [Slots -> {"Unknown", "Current", "Stale", "Expired", "Failed"}] :
          /\ \A p \in Slots :
                fresh[p] \in IF Applied(p) THEN {"Current"}
                             ELSE IF Missed(p) THEN AfterFailure(p) ELSE {freshness[p]}
          /\ freshness' = fresh
    /\ UNCHANGED generation

HandleReady ==
    /\ visit = {}
    /\ TakeLimits
    /\ UNCHANGED <<running, cancelled, worker, visit>>

\* tick_at up to maybe_fetch_remote_limits, which does nothing after the cancel.
Tick ==
    /\ visit = {}
    /\ ~cancelled
    /\ TakeLimits
    /\ visit' = Slots
    /\ UNCHANGED <<running, cancelled, worker>>

-----------------------------------------------------------------------------
\* Mutant: only the flag the worker clears keeps a second request away.
MayStartWhenIdle(p) == ~running[p]

\* should_start_fetch apart from the time, and the compare_exchange on the flag.
MayStart(p) == ~inFlight[p] /\ ~running[p]

NotDue(p) ==
    /\ p \in visit
    /\ visit' = visit \ {p}
    /\ UNCHANGED <<fetchState, running, latest, cancelled, worker, shown>>

Begin(p) ==
    /\ p \in visit
    /\ visit' = visit \ {p}
    /\ MayStart(p)
    /\ generation[p] < MaxGeneration
    /\ generation' = [generation EXCEPT ![p] = @ + 1]

StartFetch(p) ==
    /\ Begin(p)
    /\ inFlight' = [inFlight EXCEPT ![p] = TRUE]
    /\ running' = [running EXCEPT ![p] = TRUE]
    /\ worker' = [worker EXCEPT ![p][generation[p] + 1] = "spawned"]
    /\ UNCHANGED <<failed, freshness, backoff, latest, cancelled, shown>>

\* Mutant: a failed spawn leaves the slot in flight.
SpawnFailsInFlight(p) ==
    /\ Begin(p)
    /\ inFlight' = [inFlight EXCEPT ![p] = TRUE]
    /\ failed' = [failed EXCEPT ![p] = TRUE]
    /\ backoff' = [backoff EXCEPT ![p] = NextBackoff(@)]
    /\ \E fresh \in AfterFailure(p) : freshness' = [freshness EXCEPT ![p] = fresh]
    /\ UNCHANGED <<running, latest, cancelled, worker, shown>>

\* record_spawn_failure: the request was counted, both flags are cleared again.
SpawnFails(p) ==
    /\ Begin(p)
    /\ failed' = [failed EXCEPT ![p] = TRUE]
    /\ backoff' = [backoff EXCEPT ![p] = NextBackoff(@)]
    /\ \E fresh \in AfterFailure(p) : freshness' = [freshness EXCEPT ![p] = fresh]
    /\ UNCHANGED <<inFlight, running, latest, cancelled, worker, shown>>

\* cancel_remote_fetches at exit; the loop still handles messages after it.
Cancel ==
    /\ visit = {}
    /\ ~cancelled
    /\ cancelled' = TRUE
    /\ generation' = [p \in Slots |-> generation[p] + 1]
    /\ inFlight' = [p \in Slots |-> FALSE]
    /\ failed' = [p \in Slots |-> TRUE]
    /\ \E fresh \in [Slots -> {"Stale", "Expired", "Failed"}] :
          /\ \A p \in Slots : fresh[p] \in AfterFailure(p)
          /\ freshness' = fresh
    /\ UNCHANGED <<backoff, running, latest, worker, shown, visit>>

-----------------------------------------------------------------------------
(* The worker of request g of provider p.                                  *)

Advance(p, g, from, to) ==
    /\ worker[p][g] = from
    /\ worker' = [worker EXCEPT ![p][g] = to]
    /\ UNCHANGED <<fetchState, cancelled, shown, visit>>

FetchEnds(p, g) ==
    /\ \/ ~cancelled /\ Advance(p, g, "spawned", "good")
       \/ Advance(p, g, "spawned", "bad")
    /\ UNCHANGED <<running, latest>>

StoreOutcome(p, g) ==
    /\ \E good \in BOOLEAN :
          /\ Advance(p, g, IF good THEN "good" ELSE "bad", "stored")
          /\ latest' = [latest EXCEPT ![p] = [generation |-> g, good |-> good]]
    /\ UNCHANGED running

ClearRunning(p, g) ==
    /\ Advance(p, g, "stored", "done")
    /\ running' = [running EXCEPT ![p] = FALSE]
    /\ UNCHANGED latest

-----------------------------------------------------------------------------
Visit(p) == NotDue(p) \/ StartFetch(p) \/ SpawnFails(p)

Work(p, g) == FetchEnds(p, g) \/ StoreOutcome(p, g) \/ ClearRunning(p, g)

FetchNext ==
    \/ HandleReady \/ Tick \/ Cancel
    \/ \E p \in Slots : Visit(p) \/ \E g \in Generations : Work(p, g)

FetchSpec == FetchInit /\ [][FetchNext]_fetchVars

-----------------------------------------------------------------------------
(* Properties.                                                             *)

\* An outcome stays in its slot until the message loop takes it: the next
\* request of the provider never overwrites it.
NoOutcomeLost ==
    [][ \A p \in Slots : latest[p] # Empty => latest'[p] \in {Empty, latest[p]} ]_fetchVars

\* "Late results after cancel or a newer generation are rejected": limits are
\* replaced only by those of the provider's newest request, never after exit.
OnlyNewestShown ==
    [][ \A p \in Slots :
            shown'[p] # shown[p] => ~cancelled /\ shown'[p] = generation[p] ]_fetchVars

\* Limits pass for current only while the last attempt of their provider went
\* well, whatever the other provider, a late worker or a failed spawn did.
CurrentIsHonest ==
    \A p \in Slots :
        freshness[p] = "Current" => shown[p] # 0 /\ ~failed[p] /\ backoff[p] = 0

\* "do not leave the slot stuck": a provider in flight is always released again.
Released == \A p \in Slots : []<>~inFlight[p]
=============================================================================
