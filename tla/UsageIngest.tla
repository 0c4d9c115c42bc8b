---------------------------- MODULE UsageIngest ----------------------------
(***************************************************************************)
(* Usage ingestion: the collector reads the session files of Claude and    *)
(* Codex from a byte offset per file, keeps totals for today and for the   *)
(* month, and what each file contributed to them, and saves all of it      *)
(* together.  Meanwhile other programs append to the files, replace,       *)
(* truncate and delete them, days and months pass, and the collector may   *)
(* stop anywhere and start again from a saved state.                       *)
(*                                                                         *)
(* A file is a sequence of complete records; LogReader has the bytes.  A   *)
(* record's amount stands for its cost and its tokens, which are added and *)
(* subtracted together.  Inputs stay below the caps of the dedupe window,  *)
(* which UsageState has.                                                   *)
(***************************************************************************)
EXTENDS Integers, Sequences, FiniteSetsExt, SequencesExt, Functions

CONSTANTS
    Claude, Codex,       \* the files of each provider
    Ids,                 \* names of requests
    MaxAmount,           \* bound: the amount of a record
    MonthLength,         \* days in a month
    FirstDay, LastDay,   \* bounds: the days of a run
    MaxLines,            \* bound: records in a file
    MaxChanges,          \* bound: changes to files by other programs
    MaxStarts,           \* bound: starts of the collector
    MidnightInTick,      \* may midnight pass while a tick runs?
    ExitAfterMidnight,   \* may it pass between the last tick and the exit?
    AcrossMonths,        \* may the collector be off while a month ends?
    None

ASSUME IngestAssumption ==
    /\ Claude \cap Codex = {} /\ IsFiniteSet(Claude \cup Codex)
    /\ MaxAmount \in Nat /\ MonthLength \in Nat \ {0}
    /\ FirstDay \in Nat \ {0} /\ LastDay \in Nat /\ FirstDay <= LastDay
    /\ MaxLines \in Nat \ {0} /\ MaxChanges \in Nat /\ MaxStarts \in Nat
    /\ {MidnightInTick, ExitAfterMidnight, AcrossMonths} \subseteq BOOLEAN

Files == Claude \cup Codex
Days == 1..LastDay
Providers == {"claude", "codex"}
FilesOf(p) == IF p = "claude" THEN Claude ELSE Codex
ProviderOf(f) == IF f \in Claude THEN "claude" ELSE "codex"
Records == [id : Ids, day : Days, amount : 1..MaxAmount]

VARIABLES
    today,       \* the calendar
    disk,        \* the session files
    changes,     \* how often other programs changed one, which stamps the files
    pc,          \* what the collector does: down, idle, tick, probe or read
    window,      \* the day the running tick took at its start
    seenStat,    \* file, size and stamp that the running scan was told
    cursors,     \* per file: the live cursor, or the one restored and not yet live
    month,       \* totals of the month per provider
    day,         \* totals of today per provider
    monthKey,    \* the month and the day the totals are of, 0 before the first tick
    dayKey,
    retirement,  \* files waiting to be looked at for retirement
    dirty,       \* is there anything to save?
    saved,       \* the state saved last
    starts       \* starts so far

files == <<today, disk, changes>>
totals == <<month, day>>
vars == <<today, disk, changes, pc, window, seenStat, cursors, month, day,
          monthKey, dayKey, retirement, dirty, saved, starts>>

MonthOf(d) == (d + MonthLength - 1) \div MonthLength

PreviousMonth(d) == MonthOf(d) - 1

Nothing == [d \in Days |-> 0]
NoTotals == [p \in Providers |-> 0]
Monus(a, b) == IF a > b THEN a - b ELSE 0

\* What one file has contributed to the totals: an amount per day.
Contributions == [Days -> Nat]

\* FileCursor and UsageCursor.  One that is not live is an entry of
\* file_checkpoint; it has no time stamp, which is not saved.
Cursors ==
    [live : BOOLEAN, active : Nat, size : Nat, stamp : Nat, offset : Nat,
     identity : Nat, prefix : Records \cup {None}, keys : SUBSET Records,
     revisable : SUBSET Records, contrib : Contributions]

DiskFiles == [identity : Nat, stamp : Nat, mday : Days, lines : Seq(Records)]

\* UsageState: the totals and all cursors, under one generation.
States ==
    [month : Nat, today : Nat, monthTotals : [Providers -> Nat],
     dayTotals : [Providers -> Nat], cursors : [Files -> Cursors \cup {None}]]

ASSUME NoneAssumption ==
    /\ None \notin Files /\ None \notin Cursors /\ None \notin DiskFiles
    /\ None \notin States

NoStat == [file |-> None, size |-> 0, stamp |-> 0, mday |-> 1]

\* The first 64 bytes lie inside the first record.
Prefix(lines) == IF lines = <<>> THEN None ELSE Head(lines)

TypeOK ==
    /\ today \in Days
    /\ \A f \in Files : disk[f] # None =>
          disk[f] \in DiskFiles /\ Len(disk[f].lines) <= MaxLines
    /\ changes \in 0..MaxChanges
    /\ pc \in {"down", "idle", "tick", "probe", "read"}
    /\ window \in Days \cup {0}
    /\ seenStat = NoStat <=> pc \notin {"probe", "read"}
    /\ \A f \in Files : cursors[f] # None =>
          cursors[f] \in Cursors /\ cursors[f].offset <= MaxLines
    /\ month \in [Providers -> Nat] /\ day \in [Providers -> Nat]
    /\ monthKey \in Nat /\ dayKey \in Days \cup {0}
    /\ retirement \subseteq Files
    /\ dirty \in BOOLEAN
    /\ saved # None => saved \in States
    /\ starts \in 0..MaxStarts

Init ==
    /\ today = FirstDay
    /\ disk = [f \in Files |-> None]
    /\ changes = 0
    /\ pc = "down" /\ window = 0 /\ seenStat = NoStat
    /\ cursors = [f \in Files |-> None]
    /\ month = NoTotals /\ day = NoTotals
    /\ monthKey = 0 /\ dayKey = 0
    /\ retirement = {}
    /\ dirty = FALSE
    /\ saved = None
    /\ starts = 0

-----------------------------------------------------------------------------
(***************************************************************************)
(* Other programs.  A record is stamped with the day it is written; a      *)
(* session that is copied or resumed brings older records along.           *)
(***************************************************************************)
Stamped(f, identity, lines) ==
    /\ changes < MaxChanges
    /\ changes' = changes + 1
    /\ disk' = [disk EXCEPT ![f] =
          [identity |-> identity, stamp |-> changes', mday |-> today,
           lines |-> lines]]
    /\ UNCHANGED <<today, pc, window, seenStat, cursors, totals, monthKey,
                   dayKey, retirement, dirty, saved, starts>>

Written == {r \in Records : r.day <= today}

\* How far the collector, or a state it may restore, has read the file.
ReadOf(f) ==
    {c.offset : c \in {cursors[f], IF saved = None THEN None ELSE saved.cursors[f]}
                         \ {None}}

\* A file shrunk in place does not grow again past what was read of it: the
\* code takes the file for the old one then, and cannot know better.
Append1(f) ==
    /\ disk[f] # None /\ Len(disk[f].lines) < MaxLines
    /\ \A n \in ReadOf(f) : n <= Len(disk[f].lines)
    /\ \E r \in Written : Stamped(f, disk[f].identity, Append(disk[f].lines, r))

\* A file that is created, or replaced by another one, has a new identity.
Replace(f) ==
    \E r \in Written : Stamped(f, changes + 1, <<r>>)

Truncate(f) ==
    /\ disk[f] # None /\ Len(disk[f].lines) > 1
    /\ Stamped(f, disk[f].identity, Front(disk[f].lines))

Delete(f) ==
    /\ disk[f] # None /\ changes < MaxChanges
    /\ changes' = changes + 1
    /\ disk' = [disk EXCEPT ![f] = None]
    /\ UNCHANGED <<today, pc, window, seenStat, cursors, totals, monthKey,
                   dayKey, retirement, dirty, saved, starts>>

\* May midnight pass now?  While a tick runs, and between the last tick and
\* the exit, it is a choice of the instance, and so is the end of a month
\* while the collector is off.
Midnight ==
    /\ today < LastDay
    /\ pc = "down" /\ ~AcrossMonths /\ saved # None =>
          MonthOf(today + 1) = saved.month
    /\ pc \in {"tick", "probe", "read"} => MidnightInTick
    /\ today' = today + 1
    /\ UNCHANGED <<disk, changes, pc, window, seenStat, cursors, totals,
                   monthKey, dayKey, retirement, dirty, saved, starts>>

-----------------------------------------------------------------------------
(***************************************************************************)
(* The totals and the cursors.                                             *)
(***************************************************************************)
\* Claude's key names the request, so a later record with the same key is a
\* revision; Codex's key is made of time and tokens, so it is a repetition.
\* Both keys carry the month.
SameKey(f, q, r) ==
    IF f \in Claude THEN q.id = r.id /\ MonthOf(q.day) = MonthOf(r.day)
                    ELSE q = r

\* Mutant: a repeated record is not a reason to skip it.
CountRepeated(f, w, t, r) ==
    LET seen == {q \in t.keys : SameKey(f, q, r)} IN
    IF MonthOf(r.day) # MonthOf(w) THEN t
    ELSE [keys |-> (t.keys \ seen) \cup {r}, revisable |-> t.revisable,
          contrib |-> [t.contrib EXCEPT ![r.day] = @ + r.amount],
          month |-> t.month + r.amount,
          day |-> IF r.day = w THEN t.day + r.amount ELSE t.day]

\* The loop of scan_file over the events of a chunk, for one record r.
Count(f, w, t, r) ==
    LET seen    == {q \in t.keys : SameKey(f, q, r)}
        revised == {q \in t.revisable : SameKey(f, q, r)}
        before  == SumSet({q.amount : q \in revised})
        undone  == {q.day : q \in revised}
        left(n, d) == IF d \in undone THEN Monus(n, before) ELSE n
    IN  IF \/ MonthOf(r.day) # MonthOf(w)
           \/ seen # {} /\ ~\E q \in revised : r.amount > q.amount
        THEN t
        ELSE [keys |-> (t.keys \ seen) \cup {r},
              revisable |-> (t.revisable \ revised)
                               \cup (IF f \in Claude THEN {r} ELSE {}),
              contrib |-> [d \in Days |->
                  left(t.contrib[d], d) + (IF d = r.day THEN r.amount ELSE 0)],
              month |-> Monus(t.month, before) + r.amount,
              day |-> left(t.day, w) + (IF r.day = w THEN r.amount ELSE 0)]

\* Mutant: nothing is subtracted when a file is read anew.
SubtractNothing(f, w, contrib) == UNCHANGED totals

\* subtract_file_contrib: it goes over every day of the contribution, also
\* over those of another month.
Subtract(f, w, contrib) ==
    /\ month' = [month EXCEPT ![ProviderOf(f)] = Monus(@, SumFunction(contrib))]
    /\ day' = [day EXCEPT ![ProviderOf(f)] = Monus(@, contrib[w])]

Forgotten(c) ==
    [c EXCEPT !.offset = 0, !.keys = {}, !.revisable = {}, !.contrib = Nothing]

\* cursor_rebuild_reason: why a live cursor starts anew.
MustRebuildLive(c, d, stat) ==
    \/ stat.size < c.offset
    \/ d.identity # c.identity
    \/ Prefix(d.lines) # c.prefix
    \/ stat.size = c.offset /\ stat.size = c.size /\ stat.stamp # c.stamp

\* restored_cursor_offset: why a restored cursor does.
MustRebuildStored(c, d, stat) ==
    \/ stat.size < c.size \/ stat.size < c.offset
    \/ d.identity # c.identity
    \/ Prefix(d.lines) # c.prefix

\* reset_if_month_changed keeps of a cursor what belongs to the new month.
RetainMonth(c, m) ==
    [c EXCEPT !.keys = {r \in @ : MonthOf(r.day) >= m},
              !.revisable = {r \in @ : MonthOf(r.day) >= m},
              !.contrib = [d \in Days |-> IF MonthOf(d) >= m THEN @[d] ELSE 0]]

Known(cs) == {f \in Files : cs[f] # None}

-----------------------------------------------------------------------------
(***************************************************************************)
(* A tick: day_window, the changes of month and day, then any number of    *)
(* retirements, registrations and scans, then the save.                    *)
(***************************************************************************)
BeginTick ==
    /\ pc = "idle"
    /\ pc' = "tick" /\ window' = today
    /\ monthKey' = MonthOf(today) /\ dayKey' = today
    /\ LET newMonth == monthKey \notin {0, MonthOf(today)}
           newDay   == dayKey \notin {0, today}
       IN
       /\ month' = IF newMonth THEN NoTotals ELSE month
       /\ day' = IF newMonth \/ newDay THEN NoTotals ELSE day
       /\ cursors' = IF newMonth
             THEN [f \in Files |-> IF cursors[f] = None THEN None
                                   ELSE RetainMonth(cursors[f], MonthOf(today))]
             ELSE cursors
       /\ retirement' = IF newMonth THEN Known(cursors) ELSE retirement
       /\ dirty' = (dirty \/ newMonth \/ newDay)
    /\ UNCHANGED <<files, seenStat, saved, starts>>

\* Has the file of a cursor nothing more to give?
Obsolete(f) ==
    \/ disk[f] = None
    \/ /\ Len(disk[f].lines) = cursors[f].size
       /\ cursors[f].offset = cursors[f].size
       /\ MonthOf(disk[f].mday) < PreviousMonth(window)

\* retire_obsolete_paths, for one path.
Retire(f) ==
    /\ pc = "tick" /\ f \in retirement
    /\ retirement' = retirement \ {f}
    /\ IF /\ cursors[f] # None
          /\ cursors[f].active < MonthOf(window)
          /\ Obsolete(f)
       THEN cursors' = [cursors EXCEPT ![f] = None] /\ dirty' = TRUE
       ELSE UNCHANGED <<cursors, dirty>>
    /\ UNCHANGED <<files, pc, window, seenStat, totals, monthKey, dayKey, saved,
                   starts>>

\* register_jsonl_file and scan_file first ask for size and time.  A path
\* that cannot be asked is left alone.  A session found in a directory is
\* registered only if it was written in this month or the last.
Stat(f) ==
    /\ pc = "tick"
    /\ disk[f] # None
    /\ cursors[f] = None => MonthOf(disk[f].mday) >= PreviousMonth(window)
    /\ pc' = "probe"
    /\ seenStat' = [file |-> f, size |-> Len(disk[f].lines),
                    stamp |-> disk[f].stamp, mday |-> disk[f].mday]
    /\ UNCHANGED <<files, window, cursors, totals, monthKey, dayKey, retirement,
                   dirty, saved, starts>>

\* A probe, a registration or a read that fails leaves everything as it is.
GiveUp ==
    /\ pc \in {"probe", "read"}
    /\ pc' = "tick" /\ seenStat' = NoStat
    /\ UNCHANGED <<files, window, cursors, totals, monthKey, dayKey, retirement,
                   dirty, saved, starts>>

\* Revisions are forgotten when a file was quiet for half an hour and is read
\* to its end.
MaybeQuiet(c) == {c} \cup (IF c.offset = c.size THEN {[c EXCEPT !.revisable = {}]} ELSE {})

NewCursor(d, stat) ==
    [live |-> TRUE, active |-> MonthOf(window), size |-> stat.size,
     stamp |-> stat.stamp, offset |-> 0, identity |-> d.identity,
     prefix |-> Prefix(d.lines), keys |-> {}, revisable |-> {},
     contrib |-> Nothing]

\* register_jsonl_file after its probe.
Register ==
    LET f == seenStat.file
        d == disk[f]
        c == cursors[f]
        again == c # None /\ MustRebuildStored(c, d, seenStat)
        kept == IF c = None THEN NewCursor(d, seenStat)
                ELSE [(IF again THEN Forgotten(c) ELSE c) EXCEPT
                        !.live = TRUE, !.size = seenStat.size, !.stamp = seenStat.stamp,
                        !.identity = d.identity, !.prefix = Prefix(d.lines)]
    IN  /\ pc = "probe" /\ d # None
        /\ c # None => ~c.live
        /\ IF again THEN Subtract(f, window, c.contrib) ELSE UNCHANGED totals
        /\ \E new \in MaybeQuiet(kept) : cursors' = [cursors EXCEPT ![f] = new]
        /\ dirty' = (dirty \/ again \/ c = None
                       \/ c.identity # d.identity \/ c.prefix # Prefix(d.lines)
                       \/ c.size # seenStat.size
                       \/ cursors'[f].revisable # kept.revisable)
        /\ pc' = "tick" /\ seenStat' = NoStat
        /\ UNCHANGED <<files, window, monthKey, dayKey, retirement, saved, starts>>

\* scan_file up to the read.  A cursor that is at the end of the file is done.
Probe ==
    LET f == seenStat.file
        d == disk[f]
        c == cursors[f]
        again == MustRebuildLive(c, d, seenStat)
        kept == IF again THEN Forgotten(c) ELSE c
        atEnd == kept.offset = seenStat.size
        marked(k) == [k EXCEPT !.identity = d.identity, !.prefix = Prefix(d.lines),
                               !.size = IF atEnd THEN seenStat.size ELSE @,
                               !.stamp = IF atEnd THEN seenStat.stamp ELSE @]
    IN  /\ pc = "probe" /\ d # None
        /\ c # None /\ c.live
        /\ IF again THEN Subtract(f, window, c.contrib) ELSE UNCHANGED totals
        /\ \E new \in MaybeQuiet(kept) : cursors' = [cursors EXCEPT ![f] = marked(new)]
        /\ dirty' = (dirty \/ again
                       \/ c.identity # d.identity \/ c.prefix # Prefix(d.lines)
                       \/ c.size # seenStat.size
                       \/ cursors'[f].revisable # kept.revisable)
        /\ IF atEnd THEN pc' = "tick" /\ seenStat' = NoStat
                    ELSE pc' = "read" /\ UNCHANGED seenStat
        /\ UNCHANGED <<files, window, monthKey, dayKey, retirement, saved, starts>>

\* How far a read may get: not past the size it was told, not past what the
\* file holds by now, and at least one record if there is one.
ReadsTo(c, d) ==
    LET end == Min({seenStat.size, Len(d.lines)}) IN
    IF c.offset < end THEN c.offset+1..end ELSE {c.offset}

\* scan_file from the read on.
Read ==
    LET f == seenStat.file
        d == disk[f]
        c == cursors[f]
        p == ProviderOf(f)
        start == [keys |-> c.keys, revisable |-> c.revisable,
                  contrib |-> c.contrib, month |-> month[p], day |-> day[p]]
        tally(t, r) == Count(f, window, t, r)
    IN  /\ pc = "read" /\ d # None
        /\ \E end \in ReadsTo(c, d) :
             LET sum == FoldLeft(tally, start, SubSeq(d.lines, c.offset + 1, end))
                 read == [c EXCEPT !.offset = end, !.size = seenStat.size,
                            !.stamp = seenStat.stamp,
                            !.active = IF end # c.offset THEN MonthOf(window) ELSE @,
                            !.keys = sum.keys, !.revisable = sum.revisable,
                            !.contrib = sum.contrib]
             IN  /\ \E new \in MaybeQuiet(read) : cursors' = [cursors EXCEPT ![f] = new]
                 /\ month' = [month EXCEPT ![p] = sum.month]
                 /\ day' = [day EXCEPT ![p] = sum.day]
                 /\ dirty' = (dirty \/ end # c.offset \/ c.size # seenStat.size
                                \/ cursors'[f].revisable # read.revisable)
        /\ pc' = "tick" /\ seenStat' = NoStat
        /\ UNCHANGED <<files, window, monthKey, dayKey, retirement, saved, starts>>

-----------------------------------------------------------------------------
(***************************************************************************)
(* Saving and restoring.  UsageStore shows that a save takes effect at one *)
(* instant; a start that gets the state before the last, as it shows too,   *)
(* is here a save that failed.                                             *)
(***************************************************************************)
Stored(c) == IF c = None THEN None ELSE [c EXCEPT !.live = FALSE, !.stamp = 0]

\* build_state stamps the totals with the window it is given.
StateAt(w) ==
    [month |-> MonthOf(w), today |-> w, monthTotals |-> month, dayTotals |-> day,
     cursors |-> [f \in Files |-> Stored(cursors[f])]]

\* persist_checkpoint_if_needed.
Persist(w) ==
    IF dirty
    THEN \/ saved' = StateAt(w) /\ dirty' = FALSE
         \/ UNCHANGED <<saved, dirty>>
    ELSE UNCHANGED <<saved, dirty>>

\* The end of tick_at.  While it catches up, it saves only every 5 seconds.
EndTick ==
    /\ pc = "tick"
    /\ Persist(window)
    /\ pc' = "idle" /\ window' = 0
    /\ UNCHANGED <<files, seenStat, cursors, totals, monthKey, dayKey, retirement,
                   starts>>

\* What is in memory is gone.
Stop ==
    /\ pc' = "down" /\ window' = 0 /\ seenStat' = NoStat
    /\ cursors' = [f \in Files |-> None]
    /\ month' = NoTotals /\ day' = NoTotals
    /\ monthKey' = 0 /\ dayKey' = 0
    /\ retirement' = {} /\ dirty' = FALSE
    /\ UNCHANGED <<files, starts>>

\* flush_checkpoint, when the program ends.
Exit ==
    /\ pc = "idle"
    /\ ~ExitAfterMidnight => dayKey \in {0, today}
    /\ saved' = IF dirty THEN StateAt(today) ELSE saved
    /\ Stop

\* A crash; an exit whose save fails is no different.
Crash ==
    /\ pc # "down"
    /\ UNCHANGED saved
    /\ Stop

\* apply_state.  (A state of an older schema is not restored: the month is
\* read again, as Rescan does.)
Restore(s) ==
    /\ cursors' = s.cursors
    /\ month' = IF s.month = MonthOf(today) THEN s.monthTotals ELSE NoTotals
    /\ day' = IF s.today = today THEN s.dayTotals ELSE NoTotals
    /\ monthKey' = MonthOf(today) /\ dayKey' = today
    /\ retirement' = Known(s.cursors)

Start ==
    /\ pc = "down" /\ starts < MaxStarts
    /\ starts' = starts + 1
    /\ pc' = "idle"
    /\ ~AcrossMonths /\ saved # None => saved.month = MonthOf(today)
    /\ IF saved = None
       THEN UNCHANGED <<cursors, totals, monthKey, dayKey, retirement>>
       ELSE Restore(saved)
    /\ UNCHANGED <<files, window, seenStat, dirty, saved>>

\* rescan_current_month, from the menu: forget everything and read it again.
Rescan ==
    /\ pc = "idle"
    /\ cursors' = [f \in Files |-> None]
    /\ month' = NoTotals /\ day' = NoTotals
    /\ monthKey' = IF monthKey = 0 THEN MonthOf(today) ELSE monthKey
    /\ dayKey' = today
    /\ retirement' = {}
    /\ dirty' = TRUE
    /\ UNCHANGED <<files, pc, window, seenStat, saved, starts>>

-----------------------------------------------------------------------------
Next ==
    \/ \E f \in Files :
          Append1(f) \/ Replace(f) \/ Truncate(f) \/ Delete(f)
          \/ Retire(f) \/ Stat(f)
    \/ Midnight \/ BeginTick \/ GiveUp \/ Register \/ Probe \/ Read \/ EndTick
    \/ Exit \/ Crash \/ Start \/ Rescan

Spec == Init /\ [][Next]_vars

-----------------------------------------------------------------------------
InMonth(contrib, m) ==
    SumFunctionOnSet(contrib, {d \in Days : MonthOf(d) = m})

KnownOf(p) == {f \in FilesOf(p) : cursors[f] # None}

\* What is shown is what the files gave: the month's total of a provider is
\* the sum over its files, live or restored, of what they contributed to this
\* month, and today's total is the sum of what they contributed to this day.
\* Appends, rewrites, retirements, restarts and changes of day and month all
\* have to keep it, or a later rebuild subtracts the wrong amount.
TotalsAreContributions ==
    pc # "down" /\ dayKey # 0 =>
        \A p \in Providers :
            /\ month[p] = SumFunction([f \in KnownOf(p) |->
                             InMonth(cursors[f].contrib, monthKey)])
            /\ day[p] = SumFunction([f \in KnownOf(p) |-> cursors[f].contrib[dayKey]])

\* The collector has seen the file as it is now, to its end.
UpToDate(f) ==
    /\ disk[f] # None /\ cursors[f] # None
    /\ cursors[f].live
    /\ cursors[f].identity = disk[f].identity
    /\ cursors[f].stamp = disk[f].stamp
    /\ cursors[f].offset = Len(disk[f].lines)

\* A file that was read to its end has contributed each of its requests of
\* this month once, with one of the request's records: no record is lost and
\* none is counted twice, whatever was appended, replaced or truncated while
\* the file was being read, and however often the collector started.
EachRequestOnce ==
    \A f \in Files : pc # "down" /\ UpToDate(f) =>
        LET mine  == {r \in ToSet(disk[f].lines) : MonthOf(r.day) = monthKey}
            picks == {s \in SUBSET mine :
                        \A r \in mine : Cardinality({q \in s : SameKey(f, q, r)}) = 1}
        IN  \E s \in picks : \A d \in {e \in Days : MonthOf(e) = monthKey} :
                cursors[f].contrib[d] = SumFunction([q \in {r \in s : r.day = d} |-> q.amount])
=============================================================================
