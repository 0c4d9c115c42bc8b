----------------------------- MODULE OtakFloor -----------------------------
(***************************************************************************)
(* The floor that the snapshot of the otak-usage extension puts under the  *)
(* shown costs (windows/otak_snapshot.rs and the collector's part of       *)
(* windows/usage.rs).  Windows of VS Code elect a leader, which names      *)
(* itself and its epoch in a lock file and publishes a snapshot file of    *)
(* its own; RunDog reads the lock, the file it points to and the lock      *)
(* again, while leaders come and go and midnight passes.                   *)
(*                                                                         *)
(* One provider stands for both, which are treated alike.  An amount is    *)
(* the cost of a day; tokens are treated like it.                          *)
(***************************************************************************)
EXTENDS Naturals, FiniteSetsExt

CONSTANTS
    DayLength,    \* clock units of a day
    MonthLength,  \* days of a month
    LastTime,     \* bound: the clock
    MaxEpoch,     \* bound: leaders
    MaxSpent,     \* bound: amounts
    None

VARIABLES
    now,        \* the clock
    spent,      \* what each day cost
    logged,     \* of it, what the session files that still exist tell
    lock,       \* scan-leader: the epoch it names; 0 without a usable one
    artifact,   \* the snapshot file of each epoch: None, malformed, or its content
    pc,         \* what the collector does
    fence,      \* the epoch it read from the lock
    read,       \* the snapshot it read under it
    dayKey,     \* the day of the last tick, which the totals are of; 0 before it
    totals,     \* local accounting: [today, month]
    floor       \* otak_cache_floor: None, or [updated, available, today, month]

vars == <<now, spent, logged, lock, artifact, pc, fence, read, dayKey, totals, floor>>
world == <<now, spent, logged, lock, artifact>>

Day(t) == t \div DayLength + 1
Month(d) == (d - 1) \div MonthLength
Days == 1..Day(LastTime)
MonthTo(d) == {e \in 1..d : Month(e) = Month(d)}
SumOver(f, S) == MapThenSumSet(LAMBDA d : f[d], S)
Malformed == [malformed |-> TRUE]

\* Fence: the leader's epoch, which names its file; 0 is no fence.
Fences == 0..MaxEpoch

\* OtakSnapshot: the sums that a snapshot gives for the day of the tick.
Snapshots == [updated : 0..LastTime, available : BOOLEAN,
              today : 0..MaxSpent, month : 0..MaxSpent]

TypeOK ==
    /\ {spent, logged} \subseteq [Days -> 0..MaxSpent]
    /\ {lock, fence} \subseteq Fences /\ now \in 0..LastTime
    /\ pc \in {"idle", "lock", "artifact", "fence"}
    /\ {read, floor} \subseteq Snapshots \cup {None}
    /\ dayKey \in {0} \cup Days

Init ==
    /\ now = 0
    /\ spent = [d \in Days |-> 0] /\ logged = spent
    /\ lock = 0 /\ artifact = [e \in 1..MaxEpoch |-> None]
    /\ pc = "idle" /\ fence = 0 /\ read = None
    /\ dayKey = 0 /\ totals = [today |-> 0, month |-> 0] /\ floor = None

-----------------------------------------------------------------------------
(* The world.                                                              *)

Time ==
    /\ now < LastTime
    /\ now' = now + 1
    /\ UNCHANGED <<spent, logged, lock, artifact, pc, fence, read, dayKey, totals, floor>>

\* A session costs something; its file is there, or it was deleted.
Spend ==
    /\ SumOver(spent, Days) < MaxSpent
    /\ spent' = [spent EXCEPT ![Day(now)] = @ + 1]
    /\ logged' \in {logged, [logged EXCEPT ![Day(now)] = @ + 1]}
    /\ UNCHANGED <<now, lock, artifact, pc, fence, read, dayKey, totals, floor>>

\* A leader takes over, or the last one gives its lock back.
Lead ==
    /\ lock' \in {0, 1 + Max({0} \cup {e \in 1..MaxEpoch : e <= lock \/ artifact[e] # None})}
    /\ lock' <= MaxEpoch /\ lock' # lock
    /\ UNCHANGED <<now, spent, logged, artifact, pc, fence, read, dayKey, totals, floor>>

\* A leader, possibly one that was replaced, publishes what it knows: days of
\* this month, of one provider or, without its files, of the other one only.
Publish(e) ==
    /\ e <= lock \/ artifact[e] # None
    /\ \/ artifact' = [artifact EXCEPT ![e] = Malformed]
       \/ \E S \in SUBSET MonthTo(Day(now)) : \E a \in BOOLEAN :
             /\ S # {}
             /\ artifact' = [artifact EXCEPT ![e] =
                    [updated |-> now, available |-> a, days |-> [d \in S |-> spent[d]]]]
    /\ UNCHANGED <<now, spent, logged, lock, pc, fence, read, dayKey, totals, floor>>

-----------------------------------------------------------------------------
(* The collector.                                                          *)

\* Mutant: the floor of yesterday stays.
ResetTotals(day) == UNCHANGED floor

\* reset_if_day_changed and reset_if_month_changed.
Reset(day) == floor' = IF dayKey \in {0, day} THEN floor ELSE None

\* A tick brings the local totals up to its day, and reads the snapshot at
\* most once a minute.
BeginTick ==
    /\ pc = "idle"
    /\ dayKey' = Day(now)
    /\ Reset(dayKey')
    /\ totals' = [today |-> logged[dayKey'], month |-> SumOver(logged, MonthTo(dayKey'))]
    /\ pc' \in {"idle", "lock"}
    /\ UNCHANGED <<world, fence, read>>

ReadLock ==
    /\ pc = "lock"
    /\ fence' = lock
    /\ pc' = IF lock = 0 THEN "idle" ELSE "artifact"
    /\ UNCHANGED <<world, read, dayKey, totals, floor>>

\* parse_snapshot: the sums of a snapshot, with today as the tick has it.
Parsed(raw) ==
    [updated |-> raw.updated, available |-> raw.available,
     today |-> IF raw.available /\ dayKey \in DOMAIN raw.days THEN raw.days[dayKey] ELSE 0,
     month |-> IF raw.available THEN SumOver(raw.days, DOMAIN raw.days) ELSE 0]

\* read_bounded_json: the file is there, not too large, and JSON.
Readable(raw) == raw \notin {None, Malformed}

\* It was published this month and not after today, and so were its days.
InMonth(raw) == {Day(raw.updated)} \cup DOMAIN raw.days \subseteq MonthTo(dayKey)

ReadArtifact ==
    /\ pc = "artifact"
    /\ LET raw == artifact[fence]
           good == Readable(raw) /\ (Readable(raw) => InMonth(raw))
       IN  /\ read' = IF good THEN Parsed(raw) ELSE None
           /\ pc' = IF good THEN "fence" ELSE "idle"
           /\ fence' = IF good THEN fence ELSE 0
    /\ UNCHANGED <<world, dayKey, totals, floor>>

\* The lock still names the same leader: a newer snapshot becomes the floor.
Reconcile ==
    /\ pc = "fence"
    /\ pc' = "idle" /\ read' = None /\ fence' = 0
    /\ floor' = IF lock = fence /\ (floor # None => floor.updated < read.updated)
                THEN read ELSE floor
    /\ UNCHANGED <<world, dayKey, totals>>

\* The program is started anew: the floor is not saved.
Restart ==
    /\ pc' = "idle" /\ fence' = 0 /\ read' = None
    /\ dayKey' = 0 /\ totals' = [today |-> 0, month |-> 0] /\ floor' = None
    /\ UNCHANGED world

Next ==
    \/ Time \/ Spend \/ Lead \/ \E e \in 1..MaxEpoch : Publish(e)
    \/ BeginTick \/ ReadLock \/ ReadArtifact \/ Reconcile \/ Restart

Spec == Init /\ [][Next]_vars

-----------------------------------------------------------------------------

\* apply_cache_floor: the higher one of both is shown.
WithFloor(local, part) == IF part > local THEN part ELSE local

Shown ==
    [today |-> WithFloor(totals.today, IF floor = None THEN 0 ELSE floor.today),
     month |-> WithFloor(totals.month, IF floor = None THEN 0 ELSE floor.month)]

\* "the same usage is not counted twice", and the cost of one day or month is
\* never shown as that of another: whatever leaders publish, replace and leave
\* behind while RunDog reads, the shown cost of a day or month is at most what
\* that day or month cost (snapshot, reset_if_day_changed, parse_snapshot).
ShownIsSpent ==
    dayKey # 0 =>
        /\ Shown.today <= spent[dayKey]
        /\ Shown.month <= SumOver(spent, {d \in Days : Month(d) = Month(dayKey)})
        /\ Shown.today >= totals.today /\ Shown.month >= totals.month
=============================================================================
