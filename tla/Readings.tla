------------------------------ MODULE Readings ------------------------------
(***************************************************************************)
(* What the sample every two seconds makes of the counters of Windows: the *)
(* load of the machine and its smoothing (core/cpu.rs), the share of       *)
(* RunDog itself (windows/process.rs), the memory in use (core/memory.rs)  *)
(* and the curves of the card, which are rings (core/sparkline.rs).        *)
(* Counters are read one after another, any of the reads may fail, and     *)
(* they start again from 0 when Windows resets them.                       *)
(*                                                                         *)
(* A percentage is in hundredths, cut to the integer below; the code has   *)
(* it as a float.                                                          *)
(***************************************************************************)
EXTENDS Integers, Sequences, FiniteSetsExt

CONSTANTS
    Capacity,     \* points of a curve (SPARKLINE_CAPACITY)
    MaxSamples,   \* bound: intervals between two timers
    MaxResets,    \* bound: counters that start again; that they did so twice
                  \* within one interval could not be told
    Uptime,       \* the counters when RunDog starts, more than is counted later
    Ticks,        \* what the machine does between two timers
    None

VARIABLES
    times,     \* GetSystemTimes: idle, kernel (idle among it) and user ticks
    own,       \* GetProcessTimes: the ticks of RunDog
    sampler,   \* CpuSampler: previous, smoothed, raw
    process,   \* WindowsProcessSource, and the share that is shown
    curves,    \* the rings of cpu and memory
    memory,    \* the last possible reading of memory, in percent
    samples, resets,
    spent,     \* history: ticks since the last reading of the counters
    ownSpent,  \* history: ticks since the last reading of RunDog's own
    ownShare,  \* history: RunDog's part of the time between its last two readings
    loads,     \* history: the load of each interval that was measured
    remembered \* history: the readings of memory that went with them

environment == <<times, own, samples, resets>>
state == <<sampler, process, curves, memory>>
history == <<spent, ownSpent, ownShare, loads, remembered>>
vars == <<environment, state, history>>

-----------------------------------------------------------------------------
(***************************************************************************)
(* core/cpu.rs                                                             *)
(***************************************************************************)
Ratio(part, total) == (10000 * part) \div total

\* interval_ticks: nothing if a counter fell, if the interval is empty, or if
\* more was idle than the kernel had.
Interval(previous, current) ==
    LET d == [c \in DOMAIN current |-> current[c] - previous[c]]
    IN  IF (\E c \in DOMAIN d : d[c] < 0) \/ d.kernel + d.user = 0 \/ d.idle > d.kernel
        THEN None ELSE d

\* breakdown_between
Breakdown(d) ==
    LET total == d.kernel + d.user
    IN  [total |-> Ratio(total - d.idle, total), system |-> Ratio(d.kernel - d.idle, total),
         user |-> Ratio(d.user, total), idle |-> Ratio(d.idle, total)]

\* process_share, of the same interval of the machine.
Share(d, ticks) ==
    LET total == d.kernel + d.user
    IN  Ratio(IF ticks < total THEN ticks ELSE total, total)

\* CpuSampler::push: the first reading is a base only.
Smoothed(old, load) == IF old = None THEN load ELSE old + (35 * (load - old)) \div 100

Push(current) ==
    LET d == IF sampler.previous = None THEN None ELSE Interval(sampler.previous, current)
    IN  IF d = None THEN [sampler EXCEPT !.previous = current]
        ELSE [previous |-> current, raw |-> Breakdown(d),
              smoothed |-> Smoothed(sampler.smoothed, Breakdown(d).total)]

-----------------------------------------------------------------------------
(***************************************************************************)
(* core/sparkline.rs                                                       *)
(***************************************************************************)
NoPoints == [values |-> [i \in 0..Capacity - 1 |-> 0], len |-> 0, start |-> 0]

\* push, in whole percent.
Drawn(ring, percent) ==
    LET value == (percent + 50) \div 100
    IN  IF ring.len < Capacity
        THEN [ring EXCEPT !.values[ring.len] = value, !.len = ring.len + 1]
        ELSE [ring EXCEPT !.values[ring.start] = value,
                          !.start = (ring.start + 1) % Capacity]

\* copy_points: the oldest first.
Points(ring) == [i \in 1..ring.len |-> ring.values[(ring.start + i - 1) % Capacity]]

-----------------------------------------------------------------------------
Idle == [idle |-> 0, kernel |-> 0, user |-> 0]

\* Loads and shares, in hundredths of a percent.
Percent == 0..10000

TypeOK ==
    /\ times \in [DOMAIN Idle -> Nat] /\ own \in Nat
    /\ sampler.smoothed \in Percent \cup {None}
    /\ process.share \in Percent \cup {None} /\ memory \in Percent \cup {None}
    /\ \A c \in DOMAIN curves : curves[c].len \in 0..Capacity /\ curves[c].start \in 0..Capacity - 1
    /\ samples \in 0..MaxSamples /\ resets \in 0..MaxResets

Init ==
    /\ times = [c \in DOMAIN Idle |-> Uptime] /\ own = 0
    /\ sampler = [previous |-> None, smoothed |-> None, raw |-> None]
    /\ process = [previous |-> None, own |-> 0, share |-> None]
    /\ curves = [c \in {"cpu", "memory"} |-> NoPoints]
    /\ memory = None
    /\ samples = 0 /\ resets = 0
    /\ spent = None /\ ownSpent = None /\ ownShare = None /\ loads = <<>> /\ remembered = <<>>

Added(s, t) == [c \in DOMAIN s |-> s[c] + t[c]]

\* Time passes between two timers; part of it is RunDog's.
Elapse ==
    /\ samples < MaxSamples /\ samples' = samples + 1
    /\ \E t \in Ticks, part \in 0..1 :
          /\ part <= t.user
          /\ times' = [idle |-> times.idle + t.idle,
                       kernel |-> times.kernel + t.idle + t.system, user |-> times.user + t.user]
          /\ own' = own + part
          /\ spent' = IF spent = None THEN None ELSE Added(spent, t)
          /\ ownSpent' = IF ownSpent = None THEN None
                         ELSE [ticks |-> ownSpent.ticks + part, of |-> Added(ownSpent.of, t)]
    /\ UNCHANGED <<resets, state, ownShare, loads, remembered>>

\* The counters of Windows start again: what was spent cannot be told.
Reset ==
    /\ resets < MaxResets /\ resets' = resets + 1
    /\ times' = Idle
    /\ spent' = None /\ ownSpent' = None
    /\ UNCHANGED <<own, samples, state, ownShare, loads, remembered>>

Total(t) == t.idle + t.system + t.user
NoTicks == [idle |-> 0, system |-> 0, user |-> 0]

\* WindowsProcessSource::sample, when both of its calls succeed.
Measured ==
    /\ process' =
          LET d == IF process.previous = None THEN None ELSE Interval(process.previous, times)
          IN  [previous |-> times, own |-> own,
               share |-> IF d = None THEN None ELSE Share(d, own - process.own)]
    /\ ownSpent' = [ticks |-> 0, of |-> NoTicks]
    /\ ownShare' = IF ownSpent = None \/ Total(ownSpent.of) = 0 THEN None
                   ELSE Ratio(ownSpent.ticks, Total(ownSpent.of))

\* Mutant: the machine's interval begins anew although RunDog's could not be read.
SampleProcessEarly(succeeds) ==
    IF succeeds THEN Measured
    ELSE process' = [process EXCEPT !.previous = times] /\ UNCHANGED <<ownSpent, ownShare>>

\* If one of them fails the old readings stay, both of them, and so does the share.
SampleProcess(succeeds) ==
    IF succeeds THEN Measured ELSE UNCHANGED <<process, ownSpent, ownShare>>

\* TIMER_CPU and handle_cpu_sample: nothing happens if the counters cannot be
\* read.  A reading of memory that is impossible leaves the last one.
CpuSample ==
    /\ \E succeeds \in BOOLEAN : SampleProcess(succeeds)
    /\ sampler' = Push(times)
    /\ memory' \in {memory, 2550}
    /\ LET measured == sampler.previous # None /\ Interval(sampler.previous, times) # None
       IN  /\ curves' =
                 IF ~measured THEN curves
                 ELSE [cpu |-> Drawn(curves.cpu, sampler'.raw.total),
                       memory |-> IF memory' = None THEN curves.memory
                                  ELSE Drawn(curves.memory, memory')]
           /\ remembered' = IF measured /\ memory' # None THEN Append(remembered, memory')
                            ELSE remembered
    /\ loads' = IF spent # None /\ Total(spent) > 0
                THEN Append(loads, Ratio(Total(spent) - spent.idle, Total(spent))) ELSE loads
    /\ spent' = NoTicks
    /\ UNCHANGED environment

Next == Elapse \/ Reset \/ CpuSample

Spec == Init /\ [][Next]_vars

-----------------------------------------------------------------------------
Last(s) == SubSeq(s, IF Len(s) > Capacity THEN Len(s) - Capacity + 1 ELSE 1, Len(s))
Percents(s) == [i \in DOMAIN s |-> (s[i] + 50) \div 100]

\* The curves are the last loads the machine really had and the memory that was
\* in use with them, the oldest first; no load is made up when the counters start
\* again or a read of them fails (interval_ticks, Sparkline::push, copy_points).
CurvesTrue ==
    /\ Points(curves.cpu) = Percents(Last(loads))
    /\ Points(curves.memory) = Percents(Last(remembered))

\* The load that drives the dog lies between those that were measured, and its
\* parts are those of the last one (CpuSampler::push).
LoadTrue ==
    /\ (sampler.smoothed = None) = (loads = <<>>)
    /\ loads # <<>> =>
          LET measured == {loads[i] : i \in DOMAIN loads}
          IN  /\ Min(measured) <= sampler.smoothed /\ sampler.smoothed <= Max(measured)
              /\ sampler.raw.total = loads[Len(loads)]
              /\ sampler.raw.total - sampler.raw.system - sampler.raw.user \in 0..1

\* RunDog's share is of the time in which its ticks were counted: it is never
\* more than the load of that time (WindowsProcessSource::sample).
ShareTrue == process.share = ownShare
=============================================================================
