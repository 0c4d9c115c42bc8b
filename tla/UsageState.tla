---------------------------- MODULE UsageState ----------------------------
(***************************************************************************)
(* The text of a saved usage state, and the dedupe windows it carries.     *)
(* A window remembers the keys of a file's latest events, so that none is  *)
(* counted twice, and the Claude events that a later, larger copy may      *)
(* still replace.  Saving turns windows, contributions and totals into     *)
(* lines; loading takes a file of lines apart again, or refuses it.        *)
(* UsageStore has where the lines are kept and UsageIngest what is counted.*)
(***************************************************************************)
EXTENDS Naturals, Sequences, SequencesExt, FiniteSetsExt, Functions, TLC

CONSTANTS
    Claude, Codex,     \* the session files
    Odd,               \* Claude files whose model name is not a plain word
    Digests,           \* what tells the events of a file apart
    MaxTokens,         \* bound: the size of an event
    SeenCapClaude, SeenCapCodex, PendingCap,
    NanosPerCent,
    LastMonth,         \* bound: months
    MaxEvents,         \* bound: events read
    MaxDamage,         \* bound: lines lost, repeated, moved or of another version;
                       \* the run is about nothing else from the first on
    None

Files == Claude \cup Codex
Keys == [digest : Digests, month : 1..LastMonth]
SeenCap(f) == IF f \in Claude THEN SeenCapClaude ELSE SeenCapCodex

VARIABLES
    month,      \* the calendar
    monthKey,   \* the month the collector is in
    pc,         \* down or up
    subject,    \* the file that is written to in this run
    windows,    \* the collector's dedupe window of each file
    contrib,    \* what each file contributed, per month
    nanos,      \* the total
    unbroken,   \* the windows of a collector that was never stopped
    file,       \* the saved lines, None before the first save
    mark,       \* unbroken, as it was when file was saved
    registry,   \* the checkpoint an old version left in the registry
    events,     \* events read so far
    damage      \* lines damaged so far

vars == <<month, monthKey, pc, subject, windows, contrib, nanos, unbroken, file, mark,
          registry, events, damage>>

\* UsageCheckpoint: none there, one of an older format, one of a catch-up that was
\* not over, a complete one.
Checkpoints == {"none", "old", "incomplete", "complete"}

\* UsageCheckpoint::decode gives Some.
CheckpointAccepted == registry = "complete"

EmptyWindow == [order |-> <<>>, recent |-> <<>>, pending |-> <<>>]
NoWindows == [f \in Files |-> EmptyWindow]
NoContrib == [f \in Files |-> [m \in 1..LastMonth |-> 0]]

Tail0(s, n) == SubSeq(s, IF Len(s) > n THEN Len(s) - n + 1 ELSE 1, Len(s))

-----------------------------------------------------------------------------
\* FileDedupeWindow::remember: a key already there moves to the newest place.
\* A revision is kept while its key is among the PendingCap newest.
Remember(w, k, revision, cap) ==
    LET order  == Tail0(Append(Remove(w.order, k), k), cap)
        newest == Tail0(Append(Remove(w.recent, k), k), PendingCap)
        recent == SelectSeq(newest, LAMBDA other : Contains(order, other))
        held   == [other \in DOMAIN w.pending \ {k} |-> w.pending[other]]
                  @@ (IF revision = None THEN <<>> ELSE k :> revision)
    IN  [order |-> order, recent |-> recent,
         pending |-> Restrict(held, DOMAIN held \cap Range(recent))]

RetainMonth(w, m) ==
    LET kept(s) == SelectSeq(s, LAMBDA k : k.month >= m)
    IN  [order |-> kept(w.order), recent |-> kept(w.recent),
         pending |-> Restrict(w.pending, DOMAIN w.pending \cap Range(kept(w.recent)))]

\* FileDedupeWindow::from_parts, from what seen_keys and pending_values gave.
FromParts(seen, pending) ==
    LET recent == Tail0(seen, PendingCap)
    IN  [order |-> seen, recent |-> recent,
         pending |-> Restrict(pending, DOMAIN pending \cap Range(recent))]

\* display_cents rounds half up; add_month_nanos keeps the cents beside it.
DisplayCents(n) == (n + NanosPerCent \div 2) \div NanosPerCent

\* persisted_nanos: a total that has cents only is written from its cents.
PersistedNanos(cents, n) == IF n = 0 /\ cents > 0 THEN cents * NanosPerCent ELSE n

-----------------------------------------------------------------------------
Plain(f) == f \notin Odd

\* The lines of one cursor.  The prefix and, for Codex, the last model are
\* hints: one line stands for them.
CursorLines(f, w, c) ==
    <<<<"cursor", f>>, <<"active_month", f, monthKey>>, <<"hint", f>>, <<"file_id", f>>>>
    \o [i \in 1..Len(w.order) |-> <<"seen", f, w.order[i]>>]
    \o LET billed == SetToSortSeq({m \in DOMAIN c : c[m] > 0}, <)
       IN  [i \in 1..Len(billed) |-> <<"contrib_day", f, billed[i], c[billed[i]]>>]
    \o IF f \in Claude /\ Plain(f)
       THEN LET held == SelectSeq(w.recent, LAMBDA k : k \in DOMAIN w.pending)
            IN  [i \in 1..Len(held) |-> <<"cpending", f, held[i], w.pending[held[i]]>>]
       ELSE <<>>

\* Mutant: the cents are cut off instead of rounded.
HeadLinesCut(n) ==
    <<<<"header", 2>>, <<"schema", 7>>, <<"month", monthKey>>,
      <<"cents", n \div NanosPerCent>>, <<"nanos", n>>>>

\* The header and the aggregate, with one total for its four.
HeadLines(n) ==
    <<<<"header", 2>>, <<"schema", 7>>, <<"month", monthKey>>,
      <<"cents", DisplayCents(n)>>, <<"nanos", PersistedNanos(DisplayCents(n), n)>>>>

\* UsageState::encode: the cursors are sorted, so a state has one text.
Encode(ws, cs, n) ==
    HeadLines(n)
    \o FlattenSeq(LET fs == SetToSeq(Files)
                  IN  [i \in 1..Len(fs) |-> CursorLines(fs[i], ws[fs[i]], cs[fs[i]])])

-----------------------------------------------------------------------------
Lines(text, kind) == SelectSeq(text, LAMBDA l : l[1] = kind)
Of(text, kind, f) == SelectSeq(text, LAMBDA l : l[1] = kind /\ l[2] = f)
IdsOf(text, kind) == {l[2] : l \in Range(Lines(text, kind))}

\* The last value of a head line; None if it is missing.
Head0(text, kind) ==
    LET ls == Lines(text, kind) IN IF ls = <<>> THEN None ELSE ls[Len(ls)][2]

Distinct(ls, field) == \A i, j \in DOMAIN ls : ls[i][field] = ls[j][field] => i = j

Seen(text, f) == LET ls == Of(text, "seen", f) IN [i \in DOMAIN ls |-> ls[i][3]]
Pending(text, f) ==
    [k \in {l[3] : l \in Range(Of(text, "cpending", f))} |->
        (CHOOSE l \in Range(Of(text, "cpending", f)) : l[3] = k)[4]]

\* A revision is of a key among the newest, and a Codex file has none.
PendingIsRecent(text, f) ==
    /\ f \in Codex => Of(text, "cpending", f) = <<>>
    /\ \A l \in Range(Of(text, "cpending", f)) :
          Contains(Tail0(Seen(text, f), PendingCap), l[3])

\* What is said twice of one file, or of a file without a cursor, is refused;
\* a hint is not, and of a cursor that is there twice the second is empty.
CursorAccepted(text, f) ==
    /\ Len(Of(text, "active_month", f)) <= 1 /\ Len(Of(text, "file_id", f)) <= 1
    /\ Distinct(Of(text, "seen", f), 3) /\ Len(Of(text, "seen", f)) <= SeenCap(f)
    /\ Distinct(Of(text, "cpending", f), 3) /\ Len(Of(text, "cpending", f)) <= PendingCap
    /\ Distinct(Of(text, "contrib_day", f), 3)
    /\ PendingIsRecent(text, f)
    /\ Of(text, "cursor", f) = <<>> =>
           \A kind \in {"active_month", "file_id", "seen", "cpending", "contrib_day"} :
               Of(text, kind, f) = <<>>

\* UsageState::decode gives Some.
Accepted(text) ==
    /\ text # <<>> /\ text[1] = <<"header", 2>>
    /\ \A kind \in {"schema", "month", "nanos"} : Head0(text, kind) # None
    /\ Head0(text, "schema") \in 2..7
    /\ DisplayCents(Head0(text, "nanos"))
           = (IF Head0(text, "cents") = None THEN 0 ELSE Head0(text, "cents"))
    /\ \A f \in Files : CursorAccepted(text, f)

DecodedWindow(text, f) ==
    IF Len(Of(text, "cursor", f)) = 1
        THEN FromParts(Seen(text, f), Pending(text, f)) ELSE EmptyWindow

DecodedContrib(text, f) ==
    [m \in 1..LastMonth |->
        LET ls == SelectSeq(Of(text, "contrib_day", f), LAMBDA l : l[3] = m)
        IN  IF ls = <<>> \/ Len(Of(text, "cursor", f)) # 1 THEN 0 ELSE ls[1][4]]
-----------------------------------------------------------------------------
TypeOK ==
    /\ month \in 1..LastMonth /\ monthKey \in 0..LastMonth
    /\ pc \in {"down", "up"} /\ subject \in Files
    /\ \A w \in {windows, unbroken, mark} : \A f \in Files :
          /\ w[f].order \in Seq(Keys) /\ w[f].recent \in Seq(Keys)
          /\ DOMAIN w[f].pending \subseteq Range(w[f].recent)
    /\ contrib \in [Files -> [1..LastMonth -> Nat]] /\ nanos \in Nat
    /\ registry \in Checkpoints
    /\ events \in 0..MaxEvents /\ damage \in 0..MaxDamage

Init ==
    /\ month = 1 /\ monthKey = 0
    /\ pc = "down" /\ subject \in Files
    /\ windows = NoWindows /\ unbroken = NoWindows /\ mark = NoWindows
    /\ contrib = NoContrib /\ nanos = 0
    /\ file = None
    /\ registry \in Checkpoints
    /\ events = 0 /\ damage = 0

\* begin_month_rescan: everything is read again from the start.
Rebuild ==
    /\ windows' = NoWindows /\ unbroken' = NoWindows
    /\ contrib' = NoContrib /\ nanos' = 0

\* restore and apply_state.  A state of an older schema, as every one from
\* the registry is, has no contributions: it is rebuilt.  The registry is
\* read only while there is no file; one that is old or incomplete is
\* deleted, and a complete one is not read again.
Restore ==
    /\ pc = "down"
    /\ pc' = "up" /\ monthKey' = month
    /\ IF file # None /\ Accepted(file) /\ Head0(file, "schema") = 7
       THEN /\ windows' = [f \in Files |-> DecodedWindow(file, f)]
            /\ contrib' = [f \in Files |-> DecodedContrib(file, f)]
            /\ nanos' = IF Head0(file, "month") = month THEN Head0(file, "nanos") ELSE 0
            /\ unbroken' = mark
       ELSE Rebuild
    /\ registry' = "none"
    /\ IF file = None /\ CheckpointAccepted
       THEN /\ file' = Encode(NoWindows, NoContrib, 0)
            /\ mark' = NoWindows
       ELSE UNCHANGED <<file, mark>>
    /\ UNCHANGED <<month, events, damage>>

\* The start of a tick in a new month.
Tick ==
    /\ pc = "up" /\ monthKey # month /\ damage = 0
    /\ monthKey' = month
    /\ windows' = [f \in Files |-> RetainMonth(windows[f], month)]
    /\ unbroken' = [f \in Files |-> RetainMonth(unbroken[f], month)]
    /\ contrib' = [f \in Files |-> [m \in 1..LastMonth |->
                       IF m < month THEN 0 ELSE contrib[f][m]]]
    /\ nanos' = 0
    /\ UNCHANGED <<month, pc, file, mark, registry, events, damage>>

\* Does an event of this size count, and what does it take the place of?
Counts(w, f, k, tokens) ==
    Contains(w.order, k) =>
        f \in Claude /\ k \in DOMAIN w.pending /\ (k \in DOMAIN w.pending => tokens > w.pending[k])
Replaced(w, k) == IF k \in DOMAIN w.pending THEN w.pending[k] ELSE 0

After(w, f, k, tokens) ==
    IF Counts(w, f, k, tokens)
        THEN Remember(w, k, IF f \in Claude THEN tokens ELSE None, SeenCap(f))
        ELSE w

\* One event of a file is taken in; its cost is its size.
Take(f, d, tokens) ==
    LET k == [digest |-> d, month |-> month]
        w == windows[f]
        old == Replaced(w, k)
    IN  /\ pc = "up" /\ monthKey = month /\ damage = 0
        /\ events < MaxEvents /\ events' = events + 1
        /\ windows' = [windows EXCEPT ![f] = After(w, f, k, tokens)]
        /\ unbroken' = [unbroken EXCEPT ![f] = After(@, f, k, tokens)]
        /\ IF Counts(w, f, k, tokens)
           THEN /\ nanos' = nanos - old + tokens
                /\ contrib' = [contrib EXCEPT ![f][month] = @ - old + tokens]
           ELSE UNCHANGED <<nanos, contrib>>
        /\ UNCHANGED <<month, monthKey, pc, file, mark, registry, damage>>

\* clear_pending: a file at rest for PENDING_RETENTION_MS, read to its end.
ClearPending(f) ==
    /\ pc = "up" /\ windows[f].pending # <<>> /\ damage = 0
    /\ windows' = [windows EXCEPT ![f].pending = <<>>]
    /\ unbroken' = [unbroken EXCEPT ![f].pending = <<>>]
    /\ UNCHANGED <<month, monthKey, pc, contrib, nanos, file, mark, registry, events, damage>>

\* build_state and encode, when a state is saved.
Save ==
    /\ pc = "up" /\ damage = 0
    /\ file' = Encode(windows, contrib, nanos)
    /\ mark' = unbroken
    /\ UNCHANGED <<month, monthKey, pc, windows, contrib, nanos, unbroken, registry, events, damage>>

Stop ==
    /\ pc = "up"
    /\ pc' = "down"
    /\ UNCHANGED <<month, monthKey, windows, contrib, nanos, unbroken, file, mark,
                   registry, events, damage>>

NextMonth ==
    /\ month < LastMonth /\ damage = 0
    /\ month' = month + 1
    /\ UNCHANGED <<monthKey, pc, windows, contrib, nanos, unbroken, file, mark,
                   registry, events, damage>>

\* What another version, or a hand, may leave in the file.  It is looked at
\* right after a save: the file is the same later.
Damage ==
    /\ pc = "down" /\ file # None /\ damage < MaxDamage
    /\ mark = unbroken /\ month = monthKey
    /\ damage' = damage + 1
    /\ \/ \E i \in DOMAIN file : file' = RemoveAt(file, i)
       \/ \E i \in DOMAIN file : file' = Append(file, file[i])
       \/ \E i \in 2..(Len(file) - 1) :
             file' = [file EXCEPT ![i] = file[i + 1], ![i + 1] = file[i]]
       \/ \E v \in {1, 2, 6, 8} : file' = [file EXCEPT ![2] = <<"schema", v>>]
    /\ UNCHANGED <<month, monthKey, pc, windows, contrib, nanos, unbroken, mark,
                   registry, events>>

Next ==
    /\ UNCHANGED subject
    /\ \/ Restore \/ Tick \/ Save \/ Stop \/ NextMonth \/ Damage
       \/ \E d \in Digests, tokens \in 1..MaxTokens : Take(subject, d, tokens)
       \/ ClearPending(subject)

Spec == Init /\ [][Next]_vars

-----------------------------------------------------------------------------
\* What the collector saves it can load again: no reader of its own text
\* refuses it, whatever was remembered, evicted, replaced or cleared before.
OwnFileAccepted == file # None /\ damage = 0 => Accepted(file)

\* A collector that stopped and started again tells the events of this month
\* apart exactly as one that went on: the same are known, the same may still
\* be replaced, and the same one is forgotten next.
SameAfterRestart ==
    pc = "up" /\ damage = 0 =>
        \A f \in Files \ Odd :
            LET now == RetainMonth(windows[f], month)
                meant == RetainMonth(unbroken[f], month)
            IN  now.order = meant.order /\ now.pending = meant.pending

\* Whatever the text, what it restores is a window the collector could have:
\* every revision is of a key that is known and among the newest, and the
\* caps hold.
RestoredIsWindow ==
    file # None /\ Accepted(file) =>
        \A f \in Files :
            LET w == DecodedWindow(file, f)
            IN  /\ Len(w.order) <= SeenCap(f) /\ IsInjective(w.order)
                /\ DOMAIN Pending(file, f) = {} \/ w.order = <<>> \/ DOMAIN Pending(file, f) = DOMAIN w.pending

=============================================================================
