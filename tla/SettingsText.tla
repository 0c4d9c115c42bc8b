---------------------------- MODULE SettingsText ----------------------------
(***************************************************************************)
(* The values of RunDog's registry key as the texts they are: what four    *)
(* releases wrote, what this one reads of it (core/settings.rs,            *)
(* windows/registry.rs), and what becomes of it when a line of it is lost  *)
(* or a read of the key fails.  SettingsCommit has the order of the        *)
(* writes; here a commit is one step, and Run entry and tombstone are left *)
(* out.                                                                    *)
(*                                                                         *)
(* A text is a sequence of lines <<name, value>>, the first of which says  *)
(* the release.  A line that has no name or no value a decoder would take  *)
(* is Spoilt: the decoders treat them alike.                               *)
(***************************************************************************)
EXTENDS Naturals, FiniteSets, Sequences, SequencesExt

CONSTANTS
    Themes, Rates, Startups, Modes,  \* offered settings; the defaults "system", 40,
                                     \* FALSE and "dog" are among them
    MaxGeneration,                   \* bound: saves
    MaxDamage,                       \* bound: lines that are damaged
    ReadFailsAtStart,                \* may the key not be opened at the start?
    None

VARIABLES
    record,    \* the value SettingsRecord, a text
    journal,   \* the value PendingJournal, a text
    legacy,    \* the values of the first releases: a function of their names
    app,       \* the record the program goes by, None while it is not running
    saved,     \* history: the record that was saved last
    damaged    \* lines damaged so far

vars == <<record, journal, legacy, app, saved, damaged>>
texts == <<record, journal, legacy>>

Offered ==
    [theme : Themes, fps : Rates, startup : Startups, display : Modes, auto_update : BOOLEAN]
Default == [theme |-> "system", fps |-> 40, startup |-> FALSE, display |-> "dog",
            auto_update |-> TRUE]
Record(generation, operation, s) ==
    [generation |-> generation, operation_id |-> operation, theme |-> s.theme, fps |-> s.fps,
     startup |-> s.startup, display |-> s.display, auto_update |-> s.auto_update]
Fresh == Record(0, 0, Default)
Settings(r) == [n \in DOMAIN Default |-> r[n]]
Completed(said, defaults) ==
    [n \in DOMAIN defaults |-> IF n \in DOMAIN said THEN said[n] ELSE defaults[n]]
Records ==
    [generation : Nat, operation_id : Nat, theme : Themes, fps : Rates,
     startup : Startups, display : Modes, auto_update : BOOLEAN]
Journals == [operation_id : Nat, base : Nat, desired : Offered, previous : Offered]

-----------------------------------------------------------------------------
(***************************************************************************)
(* The texts.                                                              *)
(***************************************************************************)
Chosen == <<"theme", "fps", "startup", "display", "auto_update">>

\* The lines after the first of SettingsRecord, by release: each release but
\* the second added the last settings, the second the operation.
Known(v) == IF v = 1 THEN 3 ELSE v + 1
RecordLines(v) ==
    (IF v = 1 THEN <<"generation">> ELSE <<"generation", "operation_id">>)
        \o SubSeq(Chosen, 1, Known(v))

\* The lines of PendingJournal: the settings twice.  Whether the Run entry is
\* to be written and the deadline are left out.
Prefixed(of) ==
    IF of = "desired"
    THEN [theme |-> "desired_theme", fps |-> "desired_fps", startup |-> "desired_startup",
          display |-> "desired_display", auto_update |-> "desired_auto_update"]
    ELSE [theme |-> "previous_theme", fps |-> "previous_fps", startup |-> "previous_startup",
          display |-> "previous_display", auto_update |-> "previous_auto_update"]
Both(names) ==
    [i \in 1..2 * Len(names) |->
        IF i <= Len(names) THEN Prefixed("desired")[names[i]]
                           ELSE Prefixed("previous")[names[i - Len(names)]]]
JournalLines(v) ==
    <<"operation_id", "base_generation">> \o Both(SubSeq(Chosen, 1, v + 2))

Names ==
    {"?", "release", "generation", "operation_id", "base_generation"} \cup DOMAIN Default
        \cup UNION {{Prefixed(of)[n] : n \in DOMAIN Default} : of \in {"desired", "previous"}}
Lines == Names \X (Nat \cup BOOLEAN \cup Themes \cup Rates \cup Modes)
Texts == Seq(Lines)
Spoilt == <<"?", 0>>
Text(v, names, value) ==
    <<<<"release", v>>>> \o [i \in DOMAIN names |-> <<names[i], value[names[i]]>>]

\* What a text says if it is one of release v: exactly its lines, in their order.
Says(text, v, names) ==
    IF text # <<>> /\ text[1] = <<"release", v>> /\ Len(text) = 1 + Len(names)
       /\ \A i \in DOMAIN names : text[i + 1][1] = names[i]
    THEN {[n \in ToSet(names) |-> LET i == CHOOSE i \in DOMAIN text : text[i][1] = n
                                  IN  text[i][2]]}
    ELSE {}

\* Mutant: the decoder takes the lines it knows and does not look behind them.
DecodeFirst(text) ==
    LET front(v) == SubSeq(text, 1, 1 + Len(RecordLines(v)))
        said == UNION {Says(front(v), v, RecordLines(v)) :
                          v \in {v \in 1..4 : Len(text) > Len(RecordLines(v))}}
    IN  IF said = {} THEN None ELSE Completed(CHOOSE s \in said : TRUE, Fresh)

\* SettingsRecord::encode and decode, None if a line is not as it must be.  What
\* a release did not know has its default.
Encode(r) == Text(4, RecordLines(4), r)

Decode(text) ==
    LET said == UNION {Says(text, v, RecordLines(v)) : v \in 1..4}
    IN  IF said = {} THEN None ELSE Completed(CHOOSE s \in said : TRUE, Fresh)

\* PendingJournal::decode.
DecodeJournal(text) ==
    LET said == UNION {Says(text, v, JournalLines(v)) : v \in 1..3}
        of(s, which) == Completed([n \in {n \in DOMAIN Default : Prefixed(which)[n] \in DOMAIN s}
                                       |-> s[Prefixed(which)[n]]], Default)
    IN  IF said = {} THEN None
        ELSE LET s == CHOOSE s \in said : TRUE
             IN  [operation_id |-> s.operation_id, base |-> s.base_generation,
                  desired |-> of(s, "desired"), previous |-> of(s, "previous")]

\* load_settings_record_at: the text, or the values of the first releases.
Loaded ==
    IF record = None THEN Record(0, 0, Completed(legacy, Default))
    ELSE IF Decode(record) = None THEN Fresh ELSE Decode(record)

\* A read of the key that fails gives a fresh record.
Reads == {Loaded, Fresh}

-----------------------------------------------------------------------------
TypeOK ==
    /\ Loaded \in Records
    /\ app = None \/ Settings(app) \in Offered
    /\ damaged \in 0..MaxDamage

\* Settings a release could have: those it did not know had their default.
Of(v) == {s \in Offered : \A i \in Known(v) + 1..5 : s[Chosen[i]] = Default[Chosen[i]]}

\* The pair of texts an update leaves when it ends the program in the middle of
\* a commit: the journal, and the record before or after its write.
Interrupted(v, previous, desired) ==
    /\ journal = Text(v - 1, JournalLines(v - 1),
                      [n \in Names |->
                          IF \E m \in DOMAIN Default : Prefixed("desired")[m] = n
                          THEN desired[CHOOSE m \in DOMAIN Default : Prefixed("desired")[m] = n]
                          ELSE IF \E m \in DOMAIN Default : Prefixed("previous")[m] = n
                          THEN previous[CHOOSE m \in DOMAIN Default : Prefixed("previous")[m] = n]
                          ELSE 1])
    /\ saved \in {Record(1, 0, previous), Record(2, 1, desired)}

\* The key as a release left it: without texts, with a record, or in a commit.
Init ==
    /\ app = None /\ damaged = 0
    /\ \/ /\ record = None /\ journal = None
          /\ \E names \in SUBSET {"theme", "fps", "startup"}, s \in Of(1) :
                /\ legacy = [n \in names |-> s[n]]
                /\ saved = Record(0, 0, Completed(legacy, Default))
       \/ /\ legacy = <<>>
          /\ \E v \in 1..4 :
                /\ \/ journal = None /\ \E s \in Of(v) : saved = Record(1, 0, s)
                   \/ v > 1 /\ \E p, d \in Of(v) : p # d /\ Interrupted(v, p, d)
                /\ record = Text(v, RecordLines(v), saved)

\* write_settings_record_at, after the record it replaces was read: refused if
\* that is not the one expected.  The old values may survive their deletion.
Write(found, expected, r) ==
    IF found.generation = expected
    THEN /\ record' = Encode(r) /\ saved' = r
         /\ \E kept \in SUBSET DOMAIN legacy : legacy' = [n \in kept |-> legacy[n]]
    ELSE UNCHANGED <<record, saved, legacy>>

\* The record is read; a commit that was interrupted is finished, or undone when
\* its time is over (recover_pending).
Start ==
    /\ app = None
    /\ \E undone \in BOOLEAN :
          LET j == IF journal = None THEN None ELSE DecodeJournal(journal)
              r == Loaded
          IN  IF j # None /\ undone /\ r.operation_id = j.operation_id /\ Settings(r) = j.desired
              THEN Write(r, r.generation, Record(r.generation + 1, j.operation_id, j.previous))
              ELSE UNCHANGED <<record, saved, legacy>>
    /\ journal' = IF journal # None /\ DecodeJournal(journal) # None THEN None ELSE journal
    /\ app' \in IF ReadFailsAtStart THEN {Loaded', Fresh} ELSE {Loaded'}
    /\ UNCHANGED damaged

\* What the application keeps of the record that the commit read last.
Adopted(r, settings) ==
    Record(r.generation, IF r.operation_id > app.operation_id THEN r.operation_id
                                                              ELSE app.operation_id, settings)

\* A choice of the user, which changes one of the settings, committed
\* (execute_commit): the record is read before the commit, before its write, and
\* after it.  One of these reads may fail; then the generation found is not the
\* one expected, or the one adopted is wrong and the next choice is refused.  The
\* number a refused choice had is used again here, not in the code.
Commit ==
    /\ app # None /\ saved.generation < MaxGeneration
    /\ \E s \in Offered \ {Settings(app)}, fails \in 0..3 :
          /\ Cardinality({n \in DOMAIN s : s[n] # app[n]}) = 1
          /\ LET read(i) == IF fails = i THEN Fresh ELSE Loaded
                 r == Record(app.generation + 1, app.operation_id + 1, s)
             IN  IF read(1).generation # app.generation
                 THEN /\ app' = Adopted(read(1), Settings(app))
                      /\ UNCHANGED <<texts, saved>>
                 ELSE /\ journal' = None   \* written, and deleted in the end
                      /\ Write(read(2), app.generation, r)
                      /\ app' = IF record' = record THEN Adopted(read(1), Settings(app))
                                ELSE Adopted(IF fails = 3 THEN Fresh ELSE r, s)
    /\ UNCHANGED damaged

\* save_settings at the exit: two reads, of which at most one fails.
Exit ==
    /\ app # None /\ app' = None
    /\ saved.generation < MaxGeneration
    /\ \E first, second \in Reads :
          /\ Loaded \in {first, second}
          /\ Write(second, first.generation,
                   Record(first.generation + 1, first.operation_id, Settings(app)))
    /\ UNCHANGED <<journal, damaged>>

\* A line is lost, repeated, swapped with the next, or spoilt; or the first one
\* says another release.
Damages(t) ==
    {RemoveAt(t, i) : i \in DOMAIN t}
    \cup {InsertAt(t, i, t[i]) : i \in DOMAIN t}
    \cup {[t EXCEPT ![i] = t[i + 1], ![i + 1] = t[i]] : i \in 1..Len(t) - 1}
    \cup {[t EXCEPT ![i] = Spoilt] : i \in DOMAIN t}
    \cup {[t EXCEPT ![1] = <<"release", v>>] : v \in 1..5}

Damage ==
    /\ app = None /\ damaged < MaxDamage /\ damaged' = damaged + 1
    /\ \/ record # None /\ record' \in Damages(record) \ {record} /\ UNCHANGED journal
       \/ journal # None /\ journal' \in Damages(journal) \ {journal} /\ UNCHANGED record
    /\ UNCHANGED <<legacy, app, saved>>

Next == Start \/ Commit \/ Exit \/ Damage

Spec == Init /\ [][Next]_vars
-----------------------------------------------------------------------------
\* What was saved last is what is read: across releases, values that survived
\* their deletion, and reads that fail once (load_settings_record_at,
\* save_settings).  A damaged text is read as a whole or not at all; it is never
\* part of one record and part of another (SettingsRecord::decode).
SavedIsRead ==
    /\ damaged = 0 => Loaded = saved /\ (app # None => Settings(app) = Settings(saved))
    /\ Loaded \in {saved, Fresh}

\* A journal an older release left behind names the settings of its record, so
\* that the recovery after an update knows them again: the two decoders agree
\* on what the old texts did not say (SettingsRecord::decode,
\* PendingJournal::decode).
JournalMatches ==
    journal # None /\ damaged = 0 =>
        LET j == DecodeJournal(journal)
        IN  j # None /\ Settings(saved) = IF saved.operation_id = j.operation_id
                                          THEN j.desired ELSE j.previous
=============================================================================
