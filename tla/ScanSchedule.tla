---------------------------- MODULE ScanSchedule ----------------------------
(***************************************************************************)
(* What the usage collector reads in a tick: it looks into directories,    *)
(* registers the session files it finds, reads the files in its queue and  *)
(* looks again at the ones it has read, all within budgets, while the      *)
(* files grow and Windows refuses some of them for a time.                 *)
(*                                                                         *)
(* A file's size counts portions of complete lines.  Each provider keeps   *)
(* its files in one directory here, whose time stamp changes when a file   *)
(* is created in it and not when one grows.  UsageIngest has what is done  *)
(* with the records, LogReader how a file is read.                         *)
(*                                                                         *)
(* A tick takes the time at its start.  Ticks come a minute apart, which is *)
(* also how long a hot file is left alone and how often directories are    *)
(* looked at; while the collector catches up they come faster.             *)
(***************************************************************************)
EXTENDS Integers, Sequences, FiniteSets, SequencesExt

CONSTANTS
    Claude, Codex,            \* the files of each provider
    Order,                    \* the order in which a map returns all files
    FilesCatchUp, FilesIdle,  \* files that a tick handles
    ReadBudget,               \* portions that a tick reads
    StatBudget,               \* files that a tick looks at again
    DirBudget,                \* directories that a tick looks into
    MaxRetries,               \* failures after which a path rests for long
    Long,                     \* minutes that it rests, and that cold files do
    Age0, Size0,              \* age and size of each file at the start
    Stored0,                  \* files that the restored state knows
    MaxSize, MaxWrites,       \* bounds: size of a file, appends
    MaxRefusals,              \* bound: looks at files that Windows refuses
    None

ASSUME ScheduleAssumption ==
    /\ Claude \cap Codex = {}
    /\ Order \in Seq(Claude \cup Codex) /\ ToSet(Order) = Claude \cup Codex
    /\ IsInjective(Order)
    /\ {FilesCatchUp, FilesIdle, ReadBudget, StatBudget, DirBudget, MaxRetries,
      Long} \subseteq Nat \ {0}
    /\ FilesIdle <= FilesCatchUp
    /\ Stored0 \subseteq Claude \cup Codex
    /\ MaxSize \in Nat /\ MaxWrites \in Nat /\ MaxRefusals \in Nat
    /\ Size0 \in [Claude \cup Codex -> 0..MaxSize]
    /\ Age0 \in [Claude \cup Codex -> 0..2]
    /\ None \notin [size : 0..MaxSize, offset : 0..MaxSize, age : 0..2]

Files == Claude \cup Codex
Providers == {"claude", "codex"}
Kind(f) == IF f \in Claude THEN "claude" ELSE "codex"
FilesOf(p) == IF p = "claude" THEN Claude ELSE Codex

\* When a file was last written: in an earlier month, recently, today.
Ages == 0..2

VARIABLES
    size,       \* of each file on disk, 0 if there is none
    age,        \* of each file on disk
    changed,    \* directories that changed since they were listed
    writes, refusals,   \* appends and refusals so far
    cursor,     \* per file: size and age it was seen with, and the offset
    statOrder,  \* the files, in the order they were last looked at
    discover,   \* directories to look into
    registrations,   \* files to register: today's, then recent, then others
    todayCount, recentCount,   \* how many there are of the first two
    pending,    \* files to read
    deferred,   \* files of earlier months to read after the catch-up
    attempts,   \* failures in a row per path
    rest,       \* minutes until the next try of a path, part of one counts
    cool,       \* minutes until a file is looked at again
    rediscover, \* is this the first tick, or one in which to look for files?
    catchUp,    \* is the catch-up on?
    backlog,    \* did the last tick leave bytes unread?
    preferred,  \* the provider whose files of today come first
    pc,         \* idle, or the part of the tick that runs
    work,       \* of the tick: files it may handle, files and portions it
    opens,      \* read, files or directories left in the running part, paths
    portions,   \* that were not due; of the portions, those that the loop over
    queue,      \* the queue read
    parked,
    pendingPortions

disk == <<size, age, changed, writes>>
registry == <<registrations, todayCount, recentCount>>
queues == <<discover, registry, pending, deferred>>
timers == <<attempts, rest, cool, rediscover>>
mode == <<catchUp, backlog, preferred>>
tick == <<pc, work, opens, portions, pendingPortions, queue, parked>>
vars == <<disk, refusals, cursor, statOrder, queues, timers, mode, tick>>

Terminal(f) == attempts[f] = MaxRetries
Resting == {f \in Files : rest[f] > 0}
Cool == {f \in Files : cool[f] > 0}
Known == {f \in Files : cursor[f] # None}
Unread(f) == cursor[f].size # cursor[f].offset

FileBudget == IF catchUp \/ backlog THEN FilesCatchUp ELSE FilesIdle

TypeOK ==
    /\ size \in [Files -> 0..MaxSize] /\ age \in [Files -> Ages]
    /\ changed \subseteq Providers
    /\ writes \in 0..MaxWrites /\ refusals \in 0..MaxRefusals
    /\ cursor \in [Files -> [size : 0..MaxSize, offset : 0..MaxSize, age : Ages]
                              \cup {None}]
    /\ \A f \in Known : cursor[f].offset <= cursor[f].size
    /\ statOrder \in Seq(Files) /\ ToSet(statOrder) = Files /\ IsInjective(statOrder)
    /\ ToSet(discover) \subseteq Providers
    /\ registrations \in Seq(Files \X BOOLEAN)
    /\ ToSet(pending) \cup ToSet(deferred) \subseteq Known
    /\ attempts \in [Files -> 0..MaxRetries]
    /\ rest \in [Files -> 0..Long] /\ cool \in [Files -> 0..Long]
    /\ {rediscover, catchUp, backlog} \subseteq BOOLEAN
    /\ preferred \in Providers
    /\ pc \in {"idle", "discover", "register", "hot", "pending", "restat"}
    /\ work \in 0..FilesCatchUp /\ opens \in 0..FilesCatchUp
    /\ portions \in Nat /\ pendingPortions \in Nat

Init ==
    /\ size = Size0 /\ age = Age0
    /\ changed = Providers /\ writes = 0 /\ refusals = 0
    /\ cursor = [f \in Files |-> None]
    /\ statOrder = Order
    /\ discover = <<>> /\ registrations = <<>> /\ todayCount = 0 /\ recentCount = 0
    /\ pending = <<>> /\ deferred = <<>>
    /\ attempts = [f \in Files |-> 0]
    /\ rest = [f \in Files |-> 0] /\ cool = [f \in Files |-> 0]
    /\ rediscover = TRUE
    /\ catchUp = TRUE /\ backlog = FALSE /\ preferred = "claude"
    /\ pc = "idle" /\ work = 0 /\ opens = 0 /\ portions = 0 /\ pendingPortions = 0
    /\ queue = <<>> /\ parked = <<>>

-----------------------------------------------------------------------------
(***************************************************************************)
(* Other programs.                                                         *)
(***************************************************************************)
Write(f) ==
    /\ writes < MaxWrites /\ size[f] < MaxSize
    /\ writes' = writes + 1
    /\ size' = [size EXCEPT ![f] = @ + 1] /\ age' = [age EXCEPT ![f] = 2]
    /\ changed' = IF size[f] = 0 THEN changed \cup {Kind(f)} ELSE changed
    /\ UNCHANGED <<refusals, cursor, statOrder, queues, timers, mode, tick>>

-----------------------------------------------------------------------------
(***************************************************************************)
(* The queue of registrations.                                             *)
(***************************************************************************)

\* insert_recent_registration, for a queue r = [list, today, recent].
InsertRecent(r, f) ==
    IF age[f] = 2
    THEN [list |-> InsertAt(r.list, r.today + 1, <<f, TRUE>>),
          today |-> r.today + 1, recent |-> r.recent + 1]
    ELSE [list |-> InsertAt(r.list, r.recent + 1, <<f, TRUE>>),
          today |-> r.today, recent |-> r.recent + 1]

PositionOf(r, f) == CHOOSE i \in DOMAIN r.list : r.list[i][1] = f

\* Mutant: a path that comes from behind the recent ones was never counted.
WithdrawAlways(r, f) ==
    [r EXCEPT !.list = RemoveAt(r.list, PositionOf(r, f)),
              !.recent = IF @ > 0 THEN @ - 1 ELSE 0]

\* Takes a path out of the queue, of whichever part.
Withdraw(r, f) ==
    LET i == PositionOf(r, f) IN
    [list |-> RemoveAt(r.list, i),
     today |-> IF i <= r.today THEN r.today - 1 ELSE r.today,
     recent |-> IF i <= r.recent THEN r.recent - 1 ELSE r.recent]

\* queue_registration, with the attempts and resting paths it finds.
Queued(r, f, recent, rests) ==
    IF f \in Known THEN r
    ELSE IF \E i \in DOMAIN r.list : r.list[i][1] = f
    THEN IF recent THEN InsertRecent(Withdraw(r, f), f) ELSE r
    ELSE IF attempts'[f] = MaxRetries /\ f \in rests THEN r
    ELSE IF recent THEN InsertRecent(r, f)
    ELSE [r EXCEPT !.list = Append(@, <<f, FALSE>>)]

Registry == [list |-> registrations, today |-> todayCount, recent |-> recentCount]

\* Queues the pairs of a file and a flag in a sequence, one after the other.
QueueAll(pairs, r, rests) ==
    LET add(acc, pair) == Queued(acc, pair[1], pair[2], rests) IN
    FoldLeft(add, r, pairs)

SetRegistry(r) ==
    /\ registrations' = r.list
    /\ todayCount' = r.today /\ recentCount' = r.recent

\* Windows refuses a look at a path, and record_path_failure counts it.
Refused(f) ==
    /\ refusals < MaxRefusals /\ refusals' = refusals + 1
    /\ attempts' = [attempts EXCEPT ![f] = IF @ = MaxRetries THEN @ ELSE @ + 1]
    /\ rest' = [rest EXCEPT ![f] =
                  IF attempts'[f] = MaxRetries THEN Long ELSE 1]

-----------------------------------------------------------------------------
(***************************************************************************)
(* A tick.                                                                 *)
(***************************************************************************)
Monus(n, m) == IF n > m THEN n - m ELSE 0

\* The elements of a sequence that are in S, in their order.
Filter(s, S) ==
    LET keep(acc, x) == IF x \in S THEN Append(acc, x) ELSE acc IN
    FoldLeft(keep, <<>>, s)

Aged(S, a) == {f \in S : cursor[f].age = a}

\* What the time since the last tick did: nothing, or it was enough for a path
\* that failed to be tried again, or it was a minute.
Elapse(time) ==
    /\ rest' = [f \in Files |->
          IF time = "minute" \/ (time = "seconds" /\ ~Terminal(f))
          THEN Monus(rest[f], 1) ELSE rest[f]]
    /\ cool' = [f \in Files |-> IF time = "minute" THEN Monus(cool[f], 1) ELSE cool[f]]

\* queue_hot_roots; it also queues the paths that the restored state knows.
QueueRoots ==
    /\ discover' = <<"codex", "claude">>
    /\ SetRegistry(IF discover = <<>>
         THEN QueueAll([i \in 1..Cardinality(Stored0) |->
                          <<SetToSeq(Stored0)[i], FALSE>>], Registry,
                       {f \in Files : rest'[f] > 0})
         ELSE Registry)

BeginTick(time) ==
    /\ pc = "idle"
    /\ time # "minute" => catchUp \/ backlog
    /\ pc' = "discover"
    /\ work' = FileBudget /\ opens' = 0 /\ portions' = 0 /\ pendingPortions' = 0
    /\ parked' = <<>>
    /\ queue' = [i \in 1..DirBudget |-> i]
    /\ Elapse(time) /\ UNCHANGED attempts
    /\ rediscover' = FALSE
    /\ IF rediscover \/ (time = "minute" /\ ~catchUp)
       THEN QueueRoots ELSE UNCHANGED <<discover, registry>>
    /\ UNCHANGED <<disk, refusals, cursor, statOrder, pending, deferred, mode>>

\* discover_dir: a directory that did not change is not read again.  A known
\* file in one that did is read, the others are registered.
Discover ==
    /\ pc = "discover" /\ discover # <<>> /\ queue # <<>>
    /\ queue' = Tail(queue)
    /\ discover' = Tail(discover)
    /\ changed' = changed \ {Head(discover)}
    /\ UNCHANGED attempts
    /\ LET there == IF Head(discover) \in changed
                    THEN {f \in FilesOf(Head(discover)) : size[f] > 0}
                    ELSE {}
           known == SetToSeq((there \cap Known) \ (ToSet(pending) \cup Resting))
           new   == SetToSeq(there \ Known)
       IN  /\ pending' = pending \o known
           /\ SetRegistry(QueueAll([i \in DOMAIN new |-> <<new[i], TRUE>>],
                                   Registry, Resting))
    /\ UNCHANGED <<size, age, writes, refusals, cursor, statOrder, deferred,
                   rest, cool, rediscover, mode, pc, work, opens, portions,
                   pendingPortions, parked>>

Least(a, b) == IF a < b THEN a ELSE b

\* process_registrations: half of the budget is kept for reading if there is
\* anything to read.
BeginRegister ==
    /\ pc = "discover" /\ (discover = <<>> \/ queue = <<>>)
    /\ pc' = "register"
    /\ LET budget == IF pending = <<>> /\ recentCount = 0 THEN work
                     ELSE (work + 1) \div 2
       IN queue' = [i \in 1..Least(Len(registrations), budget) |-> i]
    /\ UNCHANGED <<disk, refusals, cursor, statOrder, queues, timers, mode, work, opens,
                   portions, pendingPortions, parked>>

\* enqueue_scan, for a file that was just registered.
Enqueue(f) ==
    IF catchUp /\ age[f] = 0
    THEN deferred' = Append(deferred, f) /\ UNCHANGED pending
    ELSE /\ UNCHANGED deferred
         /\ LET later == {i \in DOMAIN pending : cursor[pending[i]].age < age[f]}
                place == IF later = {} THEN Len(pending) + 1
                         ELSE CHOOSE i \in later : \A j \in later : i <= j
            IN pending' = IF age[f] = 2 THEN InsertAt(pending, place, f)
                                        ELSE Append(pending, f)

\* Mutant: a path that Windows refuses is not registered again.
RegisterFileOnce(f, flag, left) ==
    LET read == IF f \in Stored0 THEN Least(Size0[f], size[f]) ELSE 0 IN
    \/ /\ Refused(f) /\ SetRegistry(left)
       /\ UNCHANGED <<cursor, pending, deferred>>
    \/ /\ attempts' = [attempts EXCEPT ![f] = 0]
       /\ cursor' = [cursor EXCEPT ![f] =
            [size |-> size[f], offset |-> read, age |-> age[f]]]
       /\ SetRegistry(left)
       /\ IF size[f] > read THEN Enqueue(f) ELSE UNCHANGED <<pending, deferred>>
       /\ UNCHANGED <<rest, refusals>>

\* register_jsonl_file, for a path that is due.  The bytes that the restored
\* state counts are not read again.
RegisterFile(f, flag, left) ==
    LET read == IF f \in Stored0 THEN Least(Size0[f], size[f]) ELSE 0 IN
    \/ /\ Refused(f)
       /\ SetRegistry(Queued(left, f, flag, {g \in Files : rest'[g] > 0}))
       /\ UNCHANGED <<cursor, pending, deferred>>
    \/ /\ attempts' = [attempts EXCEPT ![f] = 0]
       /\ cursor' = [cursor EXCEPT ![f] =
            [size |-> size[f], offset |-> read, age |-> age[f]]]
       /\ SetRegistry(left)
       /\ IF size[f] > read THEN Enqueue(f) ELSE UNCHANGED <<pending, deferred>>
       /\ UNCHANGED <<rest, refusals>>

WithoutFirst ==
    [list |-> Tail(registrations),
     today |-> Monus(todayCount, 1), recent |-> Monus(recentCount, 1)]

\* One round of process_registrations.
Register ==
    /\ pc = "register" /\ queue # <<>>
    /\ queue' = Tail(queue)
    /\ LET f    == Head(registrations)[1]
           flag == Head(registrations)[2]
           left == WithoutFirst
       IN  IF f \in Resting
           THEN /\ parked' = Append(parked, <<f, flag>>)
                /\ SetRegistry(left)
                /\ UNCHANGED <<cursor, pending, deferred, attempts, rest,
                               refusals, work>>
           ELSE /\ work' = work - 1
                /\ UNCHANGED parked
                /\ RegisterFile(f, flag, left)
    /\ UNCHANGED <<disk, statOrder, discover, cool, rediscover, mode, pc, opens,
                   portions, pendingPortions>>

\* Paths that were not due go back into the queue; a catch-up reads the newest
\* files first.
EndRegister ==
    /\ pc = "register" /\ queue = <<>>
    /\ pc' = "hot"
    /\ parked' = <<>>
    /\ UNCHANGED attempts
    /\ SetRegistry(QueueAll(parked, Registry, Resting))
    /\ LET ofAge(a) == Filter(pending, Aged(Known, a)) IN
       pending' = IF catchUp THEN ofAge(2) \o ofAge(1) \o ofAge(0) ELSE pending
    /\ UNCHANGED <<disk, refusals, cursor, statOrder, discover, deferred, rest, cool,
                   rediscover, mode, work, opens, portions, pendingPortions, queue>>

\* scan_file, for a path that is due: it is looked at, and what is new in it is
\* read as far as the budget goes.  A failed look clears nothing, and neither
\* does one that finds nothing new.
Scan(f) ==
    /\ work' = work - 1
    /\ statOrder' = Append(RemoveAt(statOrder,
                              CHOOSE i \in DOMAIN statOrder : statOrder[i] = f), f)
    /\ \/ Refused(f) /\ UNCHANGED <<cursor, opens, portions>>
       \/ LET more == Least(size[f] - cursor[f].offset, ReadBudget) IN
            /\ cursor' = [cursor EXCEPT ![f] =
                 [size |-> size[f], offset |-> @.offset + more, age |-> age[f]]]
            /\ portions' = portions + more
            /\ opens' = IF more > 0 THEN opens + 1 ELSE opens
            /\ attempts' = IF more > 0 THEN [attempts EXCEPT ![f] = 0] ELSE attempts
            /\ UNCHANGED <<rest, refusals>>
    /\ cool' = [cool EXCEPT ![f] = IF cursor'[f].age > 0 THEN 1 ELSE Long]

UnreadAfter(f) == cursor'[f].size # cursor'[f].offset
TerminalAfter(f) == attempts'[f] = MaxRetries

Hot(f) == cursor[f].age > 0
Dues == {f \in Known : f \notin Resting}

\* Looked at a moment ago, or waiting in the queue: no candidate.
HotCandidates ==
    {f \in Dues \ Cool : /\ f \notin ToSet(pending)
                         /\ ~Unread(f) \/ Terminal(f)
                         /\ Hot(f)}

\* Today's files first, then the one not looked at for longest.
Coolest(fs) ==
    LET today == Aged(fs, 2)
        best  == IF today # {} THEN today ELSE fs
    IN  CHOOSE f \in best :
            \E i \in DOMAIN statOrder :
                statOrder[i] = f /\ \A j \in 1..i-1 : statOrder[j] \notin best

\* The read that is reserved for a hot file.
ScanHot ==
    /\ pc = "hot"
    /\ pc' = "pending"
    /\ IF HotCandidates # {} /\ work > (IF pending = <<>> THEN 0 ELSE 1)
       THEN LET f == Coolest(HotCandidates) IN
            /\ Scan(f)
            /\ pending' = IF UnreadAfter(f) /\ ~TerminalAfter(f)
                          THEN Append(pending, f) ELSE pending
       ELSE UNCHANGED <<refusals, cursor, statOrder, pending, attempts, rest,
                        cool, work, opens, portions>>
    /\ queue' = pending'
    /\ UNCHANGED <<disk, discover, registry, deferred, rediscover, mode, pendingPortions,
                   parked>>

\* pop_pending_for_today: today's files come first, of each provider in turn.
NextPending ==
    LET todays(p) == {i \in DOMAIN pending :
                        Kind(pending[i]) = p /\ cursor[pending[i]].age = 2}
        other == IF preferred = "claude" THEN "codex" ELSE "claude"
        best  == IF todays(preferred) # {} THEN todays(preferred) ELSE todays(other)
    IN  IF best = {} THEN 1 ELSE CHOOSE i \in best : \A j \in best : i <= j

\* The loop over the queue has a read budget of its own; what the hot file took
\* is not counted.
ScanPending ==
    /\ pc = "pending" /\ queue # <<>>
    /\ opens < FileBudget /\ pendingPortions < ReadBudget /\ work > 0
    /\ queue' = Tail(queue)
    /\ LET f    == pending[NextPending]
           left == RemoveAt(pending, NextPending)
       IN  /\ preferred' = IF cursor[f].age # 2 THEN preferred
                           ELSE IF f \in Claude THEN "codex" ELSE "claude"
           /\ IF f \in Resting
              THEN /\ work' = work - 1
                   /\ UNCHANGED <<refusals, cursor, statOrder, attempts, rest,
                                  cool, opens, portions>>
              ELSE Scan(f)
           /\ pending' = IF (attempts'[f] > 0 \/ UnreadAfter(f)) /\ ~TerminalAfter(f)
                         THEN Append(left, f) ELSE left
    /\ pendingPortions' = pendingPortions + portions' - portions
    /\ UNCHANGED <<disk, discover, registry, deferred, rediscover, catchUp,
                   backlog, pc, parked>>

\* Files to look at again, once in a while: read ones, and paths that failed
\* too often.  If there are too many, hot and new ones are taken.
Candidates ==
    LET due    == {f \in Dues \ Cool : Unread(f) => Terminal(f)}
        all    == Filter(Order, due)
        aged(a) == Filter(Order, Aged(due, a))
        ranked == IF Len(all) <= StatBudget THEN all ELSE aged(2) \o aged(1) \o aged(0)
    IN  SubSeq(ranked, 1, Least(Len(ranked), StatBudget))

EndPending ==
    /\ pc = "pending"
    /\ \/ queue = <<>> \/ opens >= FileBudget \/ pendingPortions >= ReadBudget
       \/ work = 0
    /\ pc' = "restat"
    /\ queue' = Candidates
    /\ UNCHANGED <<disk, refusals, cursor, statOrder, queues, timers, mode, work, opens,
                   portions, pendingPortions, parked>>

Restat ==
    /\ pc = "restat" /\ queue # <<>>
    /\ opens < FileBudget /\ portions < ReadBudget /\ work > 0
    /\ queue' = Tail(queue)
    /\ LET f == Head(queue) IN
       /\ Scan(f)
       /\ pending' = IF UnreadAfter(f) /\ ~TerminalAfter(f)
                     THEN Append(pending, f) ELSE pending
    /\ UNCHANGED <<disk, discover, registry, deferred, rediscover, mode, pc,
                   pendingPortions, parked>>

\* The files that the tick leaves unread.
Left == {f \in ToSet(pending) : Unread(f) /\ ~Terminal(f)}

\* The end of scan_pending_and_hot and of the tick, with finish_catch_up.
EndTick ==
    /\ pc = "restat"
    /\ \/ queue = <<>> \/ opens >= FileBudget \/ portions >= ReadBudget \/ work = 0
    /\ pc' = "idle" /\ work' = 0 /\ opens' = 0 /\ portions' = 0 /\ queue' = <<>>
    /\ pendingPortions' = 0
    /\ LET done == catchUp /\ discover = <<>> /\ registrations = <<>> /\ Left = {}
       IN  /\ backlog' = (Left \ Resting # {})
           /\ catchUp' = (catchUp /\ ~done)
           /\ pending' = IF done THEN pending \o deferred ELSE pending
           /\ deferred' = IF done THEN <<>> ELSE deferred
    /\ UNCHANGED <<disk, refusals, cursor, statOrder, discover, registry, timers, preferred,
                   parked>>

-----------------------------------------------------------------------------
InTick ==
    \/ Discover \/ BeginRegister \/ Register \/ EndRegister
    \/ ScanHot \/ ScanPending \/ EndPending \/ Restat \/ EndTick

Next ==
    \/ \E f \in Files : Write(f)
    \/ \E time \in {"instant", "seconds", "minute"} : BeginTick(time)
    \/ InTick

\* The timer of the window ticks on and a tick ends.  While it ticks fast, a
\* minute passes all the same.
Fairness ==
    /\ WF_vars(InTick)
    /\ SF_vars(BeginTick("minute"))

Spec == Init /\ [][Next]_vars /\ Fairness

-----------------------------------------------------------------------------
\* The two counters cut the queue of registrations where its flags do.  They
\* are kept by hand over every insertion, move and removal; one that is off
\* lets a path of yesterday stand before today's, or underflows.
CountsDelimit ==
    /\ 0 <= todayCount /\ todayCount <= recentCount
    /\ recentCount <= Len(registrations)
    /\ \A i \in DOMAIN registrations : registrations[i][2] <=> i <= recentCount

\* Between ticks, a file with unread bytes is in a queue or is one of the
\* candidates to be looked at again: its cursor is not frozen.
NothingForgotten ==
    pc = "idle" => \A f \in Known :
        Unread(f) => f \in ToSet(pending) \cup ToSet(deferred) \/ Terminal(f)

\* The catch-up comes to an end.
CatchUpEnds == <>[]~catchUp

Read(f) == size[f] > 0 => f \in Known /\ cursor[f].offset = size[f]

\* Every file is read to its end, whatever was refused before: a path that was
\* refused too often "is revisited only after the cooldown", which "leaves a path
\* recoverable" (MAX_PATH_RETRIES, record_path_failure).
EverythingRead == <>[](\A f \in Files : Read(f))

\* A path that no checkpoint knows and that was refused too often before it was
\* registered: it leaves the queue (register_jsonl_file), and a new file beside it
\* brings it back, or a rescan, a new month and a restart, which are not here.
GivenUp(f) == f \notin Known /\ f \notin Stored0 /\ Terminal(f)

\* The same for every other file: one that was registered, that the restored
\* state knows, or that was refused less often.
ReadOrGivenUp == <>[](\A f \in Files : GivenUp(f) \/ Read(f))
=============================================================================
