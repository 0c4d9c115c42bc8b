---------------------------- MODULE FilesProofs ----------------------------
(***************************************************************************)
(* Proofs about MCFiles: what holds of the directories, of the log of the  *)
(* runs, of the login, of the floor under the costs, of the checkpoint and *)
(* of the registry, for every bound that MCFiles leaves open.  A behaviour *)
(* of MCFiles is one of a component or leaves its variables alone, so each *)
(* proof is about the steps of one component.                              *)
(***************************************************************************)
EXTENDS MCFiles, FoldLemmas, SequenceTheorems

LEMMA OneComponentSteps ==
  ASSUME [FilesNext]_filesVars
  PROVE  /\ [Root!Next]_rootVars /\ [History!Next]_historyVars
         /\ [Login!Next]_limitsVars /\ [Otak!Next]_floorVars
BY DEF FilesNext, filesVars, OfStore, OfRoot, OfHistory, OfLogin, OfOtak, OfRegistry,
       rootVars, historyVars, limitsVars, floorVars

LEMMA Bounds ==
    /\ MaxSaves \in Nat \ {0} /\ MaxStarts \in Nat /\ MaxFailures \in Nat
    /\ MaxLines \in Nat \ {0} /\ MaxRuns \in Nat /\ MaxFaults \in Nat
    /\ MaxToken \in Nat /\ MaxLogins \in Nat /\ MaxLost \in Nat
    /\ None \notin Nat
BY FilesAssumption DEF FilesAssumption

-----------------------------------------------------------------------------
(* StoreRoot.  The newest state lies where the next start looks first: in   *)
(* the current directory, or in the legacy one as long as the current one  *)
(* has none.  A start that was cut short anywhere leaves it there.          *)

Stored(p) == dirs[p] # None /\ dirs[p].state > 0

\* A state is never out of reach, and the one that counts is the newest.
Reachable == \A p \in Root!Places : Stored(p) => p \notin barred
Newest ==
    IF Stored("current") THEN dirs["current"].state = saves
    ELSE IF Stored("legacy") THEN dirs["legacy"].state = saves
    ELSE saves = 0

\* What the steps of a start rely on.
Choosing ==
    /\ rootStep \in {"clear", "empty", "move", "fallback"} => root = "current"
    /\ rootStep = "clear" => Stored("current")
    /\ rootStep \in {"move", "fallback"} => ~Stored("current")
    /\ rootStep = "empty" => Root!IsEmpty("current")

\* The place chosen is the one with the newest state, if there is one.
Chosen ==
    rootStep \in {"load", "up"} =>
        /\ root = "current" => Stored("current") \/ ~Stored("legacy")
        /\ root = "legacy" => ~Stored("current")

RootInv ==
    Root!TypeOK /\ Reachable /\ Newest /\ Choosing /\ Chosen /\ Root!NewestLoaded

LEMMA RootInitial == FilesInit => RootInv
<1> SUFFICES ASSUME Root!Init PROVE RootInv
  BY DEF FilesInit
<1>1. /\ rootStep = "down" /\ root = "current" /\ overCurrent = FALSE /\ began = 0
      /\ starts = 0 /\ failures = 0 /\ barred \subseteq Root!Places
  BY DEF Root!Init
<1>2. dirs \in [Root!Places -> Root!Contents \cup {None}]
  <2>1. {None} \cup [state : 0..1, spoilt : BOOLEAN, other : BOOLEAN]
           \subseteq Root!Contents \cup {None}
    BY DEF Root!Contents
  <2> QED
    BY <2>1 DEF Root!Init
<1>3. saves \in 0..MaxSaves
  <2>1. saves \in {0, 1}
    BY ZenonT(30) DEF Root!Init
  <2> QED
    BY <2>1, Bounds
<1>4. Root!TypeOK
  <2>1. root \in Root!Places
    BY <1>1 DEF Root!Places
  <2>2. began \in Nat /\ starts \in 0..MaxStarts /\ failures \in 0..MaxFailures
    BY <1>1, Bounds
  <2> QED
    BY <1>1, <1>2, <1>3, <2>1, <2>2 DEF Root!TypeOK
<1>5. Reachable /\ Newest
  <2>1. \A p \in Root!Places : Stored(p) <=> dirs[p] # None /\ dirs[p].state = 1
    BY DEF Root!Init, Stored
  <2> DEFINE stored == {p \in Root!Places : dirs[p] # None /\ dirs[p].state = 1}
  <2>2. /\ stored # Root!Places /\ stored \cap barred = {}
        /\ saves = IF stored = {} THEN 0 ELSE 1
    BY Zenon DEF Root!Init
  <2>3. \A p \in Root!Places : Stored(p) <=> p \in stored
    BY <2>1
  <2>4. \A p \in stored : dirs[p].state = 1
    OBVIOUS
  <2> HIDE DEF stored
  <2>5. Reachable
    BY <2>2, <2>3 DEF Reachable
  <2>6. CASE stored = {}
    BY <2>2, <2>3, <2>5, <2>6 DEF Root!Places, Newest
  <2>7. CASE stored # {}
    <3>1. saves = 1
      BY <2>2, <2>7
    <3>2. "current" \in stored \/ "legacy" \in stored
      BY <2>7 DEF stored, Root!Places
    <3>3. \A p \in Root!Places : Stored(p) => dirs[p].state = 1
      BY <2>3, <2>4
    <3>4. Stored("current") \/ Stored("legacy")
      BY <2>3, <3>2 DEF Root!Places
    <3> QED
      BY <2>5, <3>1, <3>3, <3>4 DEF Root!Places, Newest
  <2> QED
    BY <2>6, <2>7
<1> QED
  BY <1>1, <1>4, <1>5 DEF RootInv, Choosing, Chosen, Root!NewestLoaded

LEMMA RootPreserved == RootInv /\ [Root!Next]_rootVars => RootInv'
<1> SUFFICES ASSUME RootInv, [Root!Next]_rootVars PROVE RootInv'
  OBVIOUS
<1> USE Bounds
    DEF RootInv, Root!TypeOK, Root!Places, Reachable, Newest, Choosing, Chosen, Stored,
        Root!NewestLoaded, Root!IsReal, Root!Forbidden, Root!IsEmpty, Root!HasState,
        Root!Fail
<1>1. CASE Root!Start
  BY <1>1 DEF Root!Start
<1>2. CASE Root!Choose
  BY <1>2 DEF Root!Choose, Root!ClearsLegacy
<1>3. CASE Root!ClearLegacy
  <2>1. CASE UNCHANGED dirs
    BY <1>3, <2>1 DEF Root!ClearLegacy
  <2>2. CASE /\ Root!IsReal("legacy")
             /\ \E c \in Root!Contents \cup {None} : dirs' = [dirs EXCEPT !["legacy"] = c]
    <3>1. Stored("current")' /\ dirs'["current"] = dirs["current"]
      BY <1>3, <2>2 DEF Root!ClearLegacy
    <3>2. Stored("legacy")' => "legacy" \notin barred
      BY <2>2
    <3> QED
      BY <1>3, <2>2, <3>1, <3>2 DEF Root!ClearLegacy
  <2>3. Root!IsReal("legacy") => /\ [Root!Empty EXCEPT !.other = TRUE] \in Root!Contents
                                 /\ dirs["legacy"] \in Root!Contents
    BY DEF Root!Contents, Root!Empty
  <2>4. ASSUME NEW c \in Root!Contents
        PROVE  [[c EXCEPT !.spoilt = TRUE] EXCEPT !.state = 0] \in Root!Contents
    BY DEF Root!Contents
  <2>5. ASSUME Root!IsReal("legacy"),
               dirs' = [dirs EXCEPT !["legacy"].spoilt = TRUE, !["legacy"].state = 0]
        PROVE  \E c \in Root!Contents \cup {None} : dirs' = [dirs EXCEPT !["legacy"] = c]
    <3>1. dirs' = [dirs EXCEPT !["legacy"] =
                     [[dirs["legacy"] EXCEPT !.spoilt = TRUE] EXCEPT !.state = 0]]
      BY <2>5
    <3> QED
      BY <2>3, <2>4, <2>5, <3>1
  <2>6. ASSUME Root!IsReal("legacy"),
               dirs' = [dirs EXCEPT !["legacy"] =
                            IF @.other THEN [Root!Empty EXCEPT !.other = TRUE] ELSE None]
        PROVE  \E c \in Root!Contents \cup {None} : dirs' = [dirs EXCEPT !["legacy"] = c]
    BY <2>3, <2>6
  <2> QED
    BY <1>3, <2>1, <2>2, <2>5, <2>6 DEF Root!ClearLegacy
<1>4. CASE Root!RemoveEmpty
  BY <1>4 DEF Root!RemoveEmpty, Root!Contents, Root!Empty
<1>5. CASE Root!Move
  BY <1>5 DEF Root!Move, Root!Moves, Root!Contents
<1>6. CASE Root!MoveFails
  BY <1>6 DEF Root!MoveFails, Root!Contents
<1>7. CASE Root!Fallback
  BY <1>7 DEF Root!Fallback
<1>8. CASE Root!Load
  BY <1>8 DEF Root!Load, Root!Contents
<1>9. CASE Root!Save
  <2>1. root \in Root!Places /\ root \notin barred /\ saves + 1 \in 0..MaxSaves
    BY <1>9 DEF Root!Save
  <2>2. PICK c \in Root!Contents : c.state = saves + 1 /\ dirs' = [dirs EXCEPT ![root] = c]
    <3> DEFINE before == IF dirs[root] = None THEN Root!Empty ELSE dirs[root]
    <3>1. before \in Root!Contents
      BY <2>1 DEF Root!Contents, Root!Empty
    <3>2. dirs' = [dirs EXCEPT ![root] = [before EXCEPT !.state = saves + 1]]
      BY <1>9 DEF Root!Save
    <3> HIDE DEF before
    <3>3. /\ [before EXCEPT !.state = saves + 1] \in Root!Contents
          /\ [before EXCEPT !.state = saves + 1].state = saves + 1
      BY <2>1, <3>1 DEF Root!Contents
    <3> QED
      BY <3>2, <3>3
  <2>3. c # None
    BY FilesAssumption
  <2> QED
    BY <1>9, <2>1, <2>2, <2>3 DEF Root!Save
<1>10. CASE Root!Crash
  BY <1>10 DEF Root!Crash
<1>11. CASE UNCHANGED rootVars
  BY <1>11 DEF rootVars
<1> QED
  BY <1>1, <1>2, <1>3, <1>4, <1>5, <1>6, <1>7, <1>8, <1>9, <1>10, <1>11 DEF Root!Next

\* The instance's Cardinality is the one that the library's theorems are about.
LEMMA SameCardinality ==
  ASSUME NEW S
  PROVE  Root!Cardinality(S) = Cardinality(S)
BY DEF Root!Cardinality, Cardinality

\* What the store did not write stays in its directory, or moves with it.
LEMMA ForeignStays ==
  ASSUME RootInv, [Root!Next]_rootVars
  PROVE  /\ \A p \in barred : dirs'[p] = dirs[p]
         /\ Root!Cardinality(Root!Foreign') = Root!Cardinality(Root!Foreign)
<1> USE DEF Root!Foreign, Root!IsReal, Root!Forbidden, Root!Places
<1>t. /\ dirs \in [Root!Places -> Root!Contents \cup {None}]
      /\ barred \subseteq Root!Places
  BY DEF RootInv, Root!TypeOK
<1>1. CASE Root!Move
  <2>1. /\ "legacy" \notin barred /\ "current" \notin barred
        /\ dirs["current"] = None /\ dirs["legacy"] # None
        /\ dirs'["current"] = dirs["legacy"] /\ dirs'["legacy"] = None
    BY <1>t, <1>1 DEF Root!Move, Root!Moves
  <2>2. CASE dirs["legacy"].other
    <3>1. Root!Foreign = {"legacy"} /\ Root!Foreign' = {"current"}
      BY <2>1, <2>2
    <3> QED
      BY <1>t, <2>1, <3>1, FS_Singleton, SameCardinality
  <2>3. CASE ~dirs["legacy"].other
    <3>1. Root!Foreign = {} /\ Root!Foreign' = {}
      BY <2>1, <2>3
    <3> QED
      BY <1>t, <2>1, <3>1
  <2> QED
    BY <2>2, <2>3
<1>2. CASE Root!ClearLegacy
  <2>1. CASE ~Root!IsReal("legacy")
    BY <1>2, <2>1 DEF Root!ClearLegacy
  <2>2. CASE Root!IsReal("legacy")
    <3>1. dirs'["current"] = dirs["current"]
      BY <1>t, <1>2, <2>2 DEF Root!ClearLegacy, Root!Empty
    <3>2. dirs["legacy"] \in Root!Contents
      BY <1>t, <2>2
    <3>3. dirs'["legacy"] # None /\ dirs'["legacy"].other <=> dirs["legacy"].other
      <4>1. [Root!Empty EXCEPT !.other = TRUE] \in Root!Contents
        BY DEF Root!Empty, Root!Contents
      <4>2. [Root!Empty EXCEPT !.other = TRUE] # None
        BY <4>1, FilesAssumption
      <4>3. CASE dirs' = [dirs EXCEPT !["legacy"] =
                             IF @.other THEN [Root!Empty EXCEPT !.other = TRUE] ELSE None]
        BY <1>t, <2>2, <3>2, <4>2, <4>3 DEF Root!Empty
      <4>4. CASE UNCHANGED dirs
        BY <2>2, <4>4
      <4>5. CASE dirs' = [dirs EXCEPT !["legacy"].spoilt = TRUE, !["legacy"].state = 0]
        <5>1. /\ dirs'["legacy"] = [[dirs["legacy"] EXCEPT !.spoilt = TRUE] EXCEPT !.state = 0]
              /\ dirs'["legacy"] \in Root!Contents
          BY <1>t, <3>2, <4>5 DEF Root!Contents
        <5> QED
          BY <3>2, <5>1, FilesAssumption DEF Root!Contents
      <4> QED
        BY <1>2, <2>2, <4>3, <4>4, <4>5 DEF Root!ClearLegacy
    <3>4. Root!Foreign' = Root!Foreign
      BY <2>2, <3>1, <3>3
    <3> QED
      BY <1>t, <2>2, <3>1, <3>4
  <2> QED
    BY <2>1, <2>2
<1>3. CASE Root!RemoveEmpty
  <2>1. CASE UNCHANGED dirs
    BY <2>1
  <2>2. CASE dirs' = [dirs EXCEPT !["current"] = None]
    <3>1. /\ dirs["current"] = Root!Empty /\ "current" \notin barred
          /\ dirs'["current"] = None /\ dirs'["legacy"] = dirs["legacy"]
      BY <1>t, <1>3, <2>2 DEF RootInv, Choosing, Root!IsEmpty, Root!RemoveEmpty
    <3>2. Root!Foreign' = Root!Foreign
      BY <3>1 DEF Root!Empty
    <3> QED
      BY <1>t, <3>1, <3>2
  <2> QED
    BY <1>3, <2>1, <2>2 DEF Root!RemoveEmpty
<1>4. CASE Root!Save
  <2> DEFINE before == IF dirs[root] = None THEN Root!Empty ELSE dirs[root]
             after == [before EXCEPT !.state = saves + 1]
  <2>1. root \in Root!Places /\ root \notin barred /\ saves + 1 \in Nat
    BY <1>4 DEF Root!Save, RootInv, Root!TypeOK
  <2>2. dirs' = [dirs EXCEPT ![root] = after]
    BY <1>4 DEF Root!Save
  <2>3. before \in Root!Contents
    BY <1>t, <2>1 DEF Root!Contents, Root!Empty
  <2>4. /\ before.other <=> dirs[root] # None /\ dirs[root].other
        /\ after \in Root!Contents /\ after.other = before.other
    <3>1. before.other <=> dirs[root] # None /\ dirs[root].other
      BY <1>t, <2>1 DEF Root!Empty, Root!Contents
    <3> HIDE DEF before
    <3> QED
      BY <2>1, <2>3, <3>1 DEF Root!Contents
  <2> HIDE DEF after, before
  <2>5. after # None
    BY <2>4, FilesAssumption
  <2>6. Root!Foreign' = Root!Foreign
    BY <1>t, <2>1, <2>2, <2>4, <2>5
  <2> QED
    BY <1>t, <2>1, <2>2, <2>6
<1>5. CASE UNCHANGED dirs
  BY <1>5
<1> QED
  BY <1>1, <1>2, <1>3, <1>4, <1>5
  DEF Root!Next, Root!Start, Root!Choose, Root!MoveFails, Root!Fallback, Root!Load,
      Root!Crash, rootVars

\* Whichever directory a start could use, empty, clear or move, and wherever it
\* was cut short, the program goes on with the newest state it saved, and what
\* others put there is kept.
THEOREM DirectoryNeverLost == FilesSpec => DirectoryMoved
<1>1. RootInv /\ [FilesNext]_filesVars => RootInv'
  BY OneComponentSteps, RootPreserved
<1>2. RootInv => Root!TypeOK /\ Root!NewestLoaded
  BY DEF RootInv
<1>3. RootInv /\ [FilesNext]_filesVars =>
        [/\ \A p \in barred : dirs'[p] = dirs[p]
         /\ Root!Cardinality(Root!Foreign') = Root!Cardinality(Root!Foreign)]_(Root!vars)
  BY OneComponentSteps, ForeignStays
<1> QED
  BY <1>1, <1>2, <1>3, RootInitial, PTL DEF FilesSpec, DirectoryMoved, Root!ForeignKept

-----------------------------------------------------------------------------
(* RunHistory.  A line about the end of a run is written when the marker   *)
(* still names the run, or when it has just been removed; never both.       *)

Lines == [event : History!Ends \cup {"unreadable", "start", "usage_diagnostics"},
          run : 0..MaxRuns]

\* The lines of l that tell of the end of a run.
Telling(l) == {i \in DOMAIN l : l[i].event \in History!Ends}

\* l is a part of the log, to which the line may have been added at the end.
Extends(l, line) ==
    \E k \in Nat : \A i \in DOMAIN l :
        \/ i + k \in DOMAIN log /\ l[i] = log[i + k]
        \/ i = Len(l) /\ l[i] = line

LEMMA BoundedPart ==
  ASSUME NEW S, NEW lines \in Seq(S)
  PROVE  /\ History!Bounded(lines) \in Seq(S)
         /\ Len(History!Bounded(lines)) <= MaxLines
         /\ \E k \in Nat : /\ Len(History!Bounded(lines)) + k = Len(lines)
                           /\ \A i \in 1..Len(History!Bounded(lines)) :
                                  History!Bounded(lines)[i] = lines[i + k]
         /\ lines # <<>> => History!Bounded(lines) # <<>>
<1> DEFINE k == IF Len(lines) > MaxLines THEN Len(lines) - MaxLines ELSE 0
           part == History!Bounded(lines)
<1>1. k \in Nat /\ Len(lines) \in Nat /\ Len(lines) - k <= MaxLines
      /\ k <= Len(lines) /\ (Len(lines) # 0 => k < Len(lines))
  BY Bounds
<1>2. part = SubSeq(lines, k + 1, Len(lines))
  <2>1. k + 1 = IF Len(lines) > MaxLines THEN Len(lines) - MaxLines + 1 ELSE 1
    BY Bounds
  <2> HIDE DEF k
  <2> QED
    BY <2>1 DEF History!Bounded
<1> HIDE DEF k, part
<1>3. /\ part \in Seq(S) /\ Len(part) = Len(lines) - k
      /\ \A i \in 1..Len(lines) - k : part[i] = lines[i + k]
  BY <1>1, <1>2
<1>4. Len(part) + k = Len(lines) /\ \A i \in 1..Len(part) : part[i] = lines[i + k]
  BY <1>1, <1>3
<1>5. lines # <<>> => part # <<>>
  BY <1>1, <1>3
<1> QED
  BY <1>1, <1>3, <1>4, <1>5 DEF part

LEMMA AppendExtends ==
  ASSUME log \in Seq(Lines), Len(log) <= MaxLines, faults \in 0..MaxFaults,
         NEW line \in Lines, History!Append1(line)
  PROVE  /\ log' \in Seq(Lines) /\ Len(log') <= MaxLines /\ Extends(log', line)
         /\ faults' \in 0..MaxFaults /\ faults' >= faults
         /\ faults' = faults => \E i \in DOMAIN log' : log'[i] = line
<1>1. CASE log' = History!Bounded(Append(log, line)) /\ faults' = faults
  <2> DEFINE longer == Append(log, line)
  <2>1. longer \in Seq(Lines) /\ Len(longer) = Len(log) + 1 /\ longer # <<>>
        /\ longer[Len(log) + 1] = line
        /\ \A i \in 1..Len(log) : longer[i] = log[i]
    OBVIOUS
  <2> HIDE DEF longer
  <2>2. /\ log' \in Seq(Lines) /\ Len(log') <= MaxLines /\ log' # <<>>
        /\ \E k \in Nat : /\ Len(log') + k = Len(longer)
                          /\ \A i \in 1..Len(log') : log'[i] = longer[i + k]
    <3>1. log' = History!Bounded(longer)
      BY <1>1 DEF longer
    <3> QED
      BY <2>1, <3>1, BoundedPart
  <2>3. PICK k \in Nat : /\ Len(log') + k = Len(log) + 1
                         /\ \A i \in 1..Len(log') : log'[i] = longer[i + k]
    BY <2>1, <2>2
  <2>4. Len(log') \in 1..Len(log) + 1 /\ log'[Len(log')] = line
    BY <2>1, <2>2, <2>3
  <2>5. \A i \in DOMAIN log' :
           \/ i + k \in DOMAIN log /\ log'[i] = log[i + k]
           \/ i = Len(log') /\ log'[i] = line
    <3> SUFFICES ASSUME NEW i \in 1..Len(log')
                 PROVE  \/ i + k \in 1..Len(log) /\ log'[i] = log[i + k]
                        \/ i = Len(log') /\ log'[i] = line
      BY <2>2
    <3>1. i + k \in 1..Len(log) + 1 /\ (i + k = Len(log) + 1 => i = Len(log'))
      BY <2>2, <2>3
    <3> QED
      BY <2>1, <2>3, <2>4, <3>1
  <2>6. Extends(log', line)
    BY <2>5 DEF Extends
  <2>7. \E i \in DOMAIN log' : log'[i] = line
    BY <2>2, <2>4
  <2> QED
    BY <1>1, <2>2, <2>6, <2>7
<1>2. CASE faults < MaxFaults /\ faults' = faults + 1 /\ log' \in {<<line>>, log}
  <2>1. log' \in Seq(Lines) /\ Len(log') <= MaxLines
    <3>1. <<line>> \in Seq(Lines) /\ Len(<<line>>) = 1
      OBVIOUS
    <3>2. Len(<<line>>) <= MaxLines
      BY <3>1, Bounds
    <3> QED
      BY <1>2, <3>1, <3>2
  <2>2. Extends(log', line)
    <3>1. CASE log' = <<line>>
      <4>1. \A i \in DOMAIN log' : i = Len(log') /\ log'[i] = line
        BY <3>1
      <4> QED
        BY <4>1 DEF Extends
    <3>2. CASE log' = log
      <4>1. \A i \in DOMAIN log' : i + 0 \in DOMAIN log /\ log'[i] = log[i + 0]
        BY <3>2
      <4> QED
        BY <4>1 DEF Extends
    <3> QED
      BY <1>2, <3>1, <3>2
  <2> QED
    BY <1>2, <2>1, <2>2, Bounds
<1> QED
  BY <1>1, <1>2 DEF History!Append1

HistoryTyped ==
    /\ History!TypeOK /\ log \in Seq(Lines)
    /\ runStep # "down" => run >= 1
    /\ runStep \in {"report", "mark"} => tracked

\* A line about the end of a run is of a run that is over.
LinesPast ==
    \A i \in Telling(log) :
        /\ log[i].run \in told /\ log[i].run <= run
        /\ log[i].run = run => runStep = "down" /\ log[i].event # "unclean"

\* A run that the marker names has no line of its own about its end.
MarkerOpen ==
    /\ runStep = "end" => marker = None
    /\ marker \notin {None, History!Unreadable} =>
        /\ marker \in 1..run
        /\ runStep \in {"report", "mark"} => marker < run
        /\ \A i \in Telling(log) : log[i].run = marker => log[i].event = "unclean"

Sole(l) == \A i, j \in Telling(l) : l[i].run = l[j].run => i = j

\* Without faults, the one run that is not told of is the one the marker names.
NothingMissed ==
    faults = 0 =>
        /\ runStep = "down" => (1..run) \ silent \subseteq told \cup {marker}
        /\ runStep = "report" => (1..run - 1) \ silent \subseteq told \cup {marker}
        /\ runStep \notin {"down", "report"} => (1..run - 1) \ silent \subseteq told
        /\ runStep \in {"begin", "up", "unmark"} => tracked /\ marker = run

HistoryInv ==
    HistoryTyped /\ LinesPast /\ MarkerOpen /\ Sole(log) /\ NothingMissed

LEMMA HistoryInitial == FilesInit => HistoryInv
<1> SUFFICES ASSUME History!Init PROVE HistoryInv
  BY DEF FilesInit
<1>1. log = <<>> /\ log \in Seq(Lines) /\ Len(log) = 0 /\ Telling(log) = {}
  BY DEF History!Init, Telling
<1>2. HistoryTyped
  <2>1. /\ run \in 0..MaxRuns /\ faults \in 0..MaxFaults /\ Len(log) <= MaxLines
        /\ marker \in History!Markers
    BY <1>1, Bounds DEF History!Init, History!Markers
  <2> QED
    BY <1>1, <2>1 DEF HistoryTyped, History!TypeOK, History!Init
<1>3. LinesPast /\ MarkerOpen /\ Sole(log)
  BY <1>1 DEF LinesPast, MarkerOpen, Sole, History!Init
<1>4. NothingMissed
  BY DEF NothingMissed, History!Init
<1> QED
  BY <1>2, <1>3, <1>4 DEF HistoryInv

\* A line that tells nothing, or of a run not told of, keeps the log sole.
LEMMA LineAdded ==
  ASSUME log \in Seq(Lines), log' \in Seq(Lines), NEW line, Extends(log', line), Sole(log),
         line.event \in History!Ends => \A i \in Telling(log) : log[i].run # line.run
  PROVE  /\ Sole(log')
         /\ \A i \in Telling(log') :
               \/ \E j \in Telling(log) : log'[i] = log[j]
               \/ log'[i] = line /\ line.event \in History!Ends
<1>1. PICK k \in Nat : \A i \in DOMAIN log' :
                          \/ i + k \in DOMAIN log /\ log'[i] = log[i + k]
                          \/ i = Len(log') /\ log'[i] = line
  BY DEF Extends
<1>2. \A i \in Telling(log') :
        \/ i + k \in Telling(log) /\ log'[i] = log[i + k]
        \/ i = Len(log') /\ log'[i] = line /\ line.event \in History!Ends
  BY <1>1 DEF Telling
<1>3. Telling(log') \subseteq Nat
  BY DEF Telling
<1>4. Sole(log')
  <2> SUFFICES ASSUME NEW i \in Telling(log'), NEW j \in Telling(log'),
                      log'[i].run = log'[j].run
               PROVE  i = j
    BY DEF Sole
  <2>1. CASE i + k \in Telling(log) /\ log'[i] = log[i + k]
    <3>1. CASE j + k \in Telling(log) /\ log'[j] = log[j + k]
      <4>1. i + k = j + k
        BY <2>1, <3>1 DEF Sole
      <4> QED
        BY <1>3, <4>1
    <3>2. CASE log'[j] = line /\ line.event \in History!Ends
      BY <2>1, <3>2
    <3> QED
      BY <1>2, <3>1, <3>2
  <2>2. CASE i = Len(log') /\ log'[i] = line /\ line.event \in History!Ends
    BY <1>2, <2>2
  <2> QED
    BY <1>2, <2>1, <2>2
<1> QED
  BY <1>2, <1>4

\* Lines that tell nothing of an end: starts, diagnostics, unreadable markers.
LEMMA QuietLine ==
  ASSUME HistoryInv, NEW line \in Lines, line.event \notin History!Ends,
         History!Append1(line), run' = run, told' = told, runStep' # "end",
         runStep # "down", runStep' \notin {"report", "mark"} \/ marker' \notin 1..run,
         marker' = marker
  PROVE  /\ log' \in Seq(Lines) /\ Len(log') <= MaxLines /\ faults' \in 0..MaxFaults
         /\ faults' >= faults /\ LinesPast' /\ MarkerOpen' /\ Sole(log')
<1>1. log \in Seq(Lines) /\ Len(log) <= MaxLines /\ faults \in 0..MaxFaults /\ Sole(log)
  BY DEF HistoryInv, HistoryTyped, History!TypeOK
<1>2. /\ log' \in Seq(Lines) /\ Len(log') <= MaxLines /\ Extends(log', line)
      /\ faults' \in 0..MaxFaults /\ faults' >= faults
  BY <1>1, AppendExtends
<1>3. Sole(log') /\ \A i \in Telling(log') : \E j \in Telling(log) : log'[i] = log[j]
  BY <1>1, <1>2, LineAdded
<1>4. LinesPast'
  BY <1>3 DEF HistoryInv, LinesPast
<1>5. MarkerOpen'
  BY <1>3 DEF HistoryInv, MarkerOpen
<1> QED
  BY <1>2, <1>3, <1>4, <1>5

\* Steps that leave the log and the marker alone.
LEMMA LogKept ==
  ASSUME HistoryInv, log' = log, told \subseteq told', run' \in Nat, run' >= run,
         run' > run \/ runStep' = "down" \/ runStep # "down"
  PROVE  LinesPast' /\ Sole(log')
<1>1. Telling(log)' = Telling(log)
  BY DEF Telling
<1>2. \A i \in Telling(log) : log[i].run \in Nat
  <2>1. \A line \in Lines : line.run \in Nat
    BY Bounds DEF Lines
  <2>2. \A i \in DOMAIN log : log[i] \in Lines
    BY DEF HistoryInv, HistoryTyped
  <2> QED
    BY <2>1, <2>2 DEF Telling
<1>3. run \in Nat
  BY Bounds DEF HistoryInv, HistoryTyped, History!TypeOK
<1>4. LinesPast'
  <2> SUFFICES ASSUME NEW i \in Telling(log)
               PROVE  /\ log[i].run \in told' /\ log[i].run <= run'
                      /\ log[i].run = run' => runStep' = "down" /\ log[i].event # "unclean"
    BY <1>1 DEF LinesPast
  <2>1. /\ log[i].run \in told /\ log[i].run <= run
        /\ log[i].run = run => runStep = "down" /\ log[i].event # "unclean"
    BY DEF HistoryInv, LinesPast
  <2> QED
    BY <1>2, <1>3, <2>1
<1>5. Sole(log)'
  BY <1>1 DEF HistoryInv, Sole
<1> QED
  BY <1>4, <1>5

LEMMA MarkerKept ==
  ASSUME HistoryInv, log' = log, marker' = marker, run' \in Nat, run' >= run,
         runStep' = "end" => marker = None,
         runStep' \in {"report", "mark"} => run' > run \/ runStep \in {"report", "mark"}
  PROVE  MarkerOpen'
<1>1. Telling(log)' = Telling(log)
  BY DEF Telling
<1> QED
  BY <1>1, Bounds DEF HistoryInv, HistoryTyped, History!TypeOK, MarkerOpen

LEMMA HistoryPreserved == HistoryInv /\ [History!Next]_historyVars => HistoryInv'
<1> SUFFICES ASSUME HistoryInv, [History!Next]_historyVars PROVE HistoryInv'
  OBVIOUS
<1>t. /\ log \in Seq(Lines) /\ Len(log) <= MaxLines /\ Sole(log)
      /\ run \in 0..MaxRuns /\ faults \in 0..MaxFaults
      /\ runStep # "down" => run \in 1..MaxRuns
      /\ marker \in {None, 0} \cup 1..MaxRuns
      /\ None # History!Unreadable /\ None \notin Nat
      /\ tracked \in BOOLEAN
  BY Bounds DEF HistoryInv, HistoryTyped, History!TypeOK, History!Markers, History!Unreadable
<1>l. ASSUME NEW event \in History!Ends \cup {"unreadable", "start", "usage_diagnostics"},
             NEW r \in 0..MaxRuns
      PROVE  /\ History!Line(event, r) \in Lines
             /\ History!Line(event, r).event = event /\ History!Line(event, r).run = r
  BY DEF History!Line, Lines
<1>f. faults < MaxFaults /\ faults' = faults + 1 => faults' \in 0..MaxFaults /\ faults' # 0
  BY <1>t, Bounds
<1> USE DEF HistoryInv, HistoryTyped, History!TypeOK, History!Markers
<1>1. CASE History!Start
  <2>1. /\ runStep = "down" /\ run' = run + 1 /\ run' \in 1..MaxRuns
        /\ UNCHANGED <<marker, log, result, told, silent>>
        /\ faults' \in 0..MaxFaults /\ tracked' \in BOOLEAN
        /\ \/ runStep' = "report" /\ tracked' = TRUE /\ faults' = faults
           \/ runStep' = "up" /\ faults' # 0
    <3>1. /\ runStep = "down" /\ run' = run + 1 /\ run < MaxRuns
          /\ UNCHANGED <<marker, log, result, told, silent>>
      BY <1>1 DEF History!Start, History!files, History!history
    <3>2. run' \in 1..MaxRuns
      BY <1>t, <3>1, Bounds
    <3>3. CASE runStep' = "report" /\ tracked' = TRUE /\ faults' = faults
      BY <1>t, <3>1, <3>2, <3>3
    <3>4. CASE /\ faults < MaxFaults /\ faults' = faults + 1
               /\ runStep' = "up" /\ tracked' = FALSE
      BY <1>f, <3>1, <3>2, <3>4
    <3> QED
      BY <1>1, <3>3, <3>4 DEF History!Start
  <2>2. faults' = 0 => faults = 0
    BY <2>1
  <2>3. LinesPast' /\ Sole(log') /\ MarkerOpen'
    BY <1>t, <2>1, LogKept, MarkerKept
  <2>4. NothingMissed'
    BY <1>t, <2>1, <2>2 DEF NothingMissed
  <2> QED
    BY <1>t, <2>1, <2>3, <2>4
<1>2. CASE History!Report
  <2> DEFINE line == History!Line("unclean", marker)
  <2>0. /\ runStep = "report" /\ runStep' = "mark"
        /\ UNCHANGED <<marker, run, tracked, result, silent>>
    BY <1>2 DEF History!Report
  <2>1. CASE marker = None
    <3>1. UNCHANGED <<log, told, faults>>
      BY <1>2, <1>t, <2>1 DEF History!Report
    <3>2. LinesPast' /\ Sole(log') /\ MarkerOpen'
      BY <1>t, <2>0, <3>1, LogKept, MarkerKept
    <3>3. NothingMissed'
      BY <1>t, <2>0, <2>1, <3>1, Bounds DEF NothingMissed
    <3> QED
      BY <1>t, <2>0, <3>1, <3>2, <3>3
  <2>2. CASE marker = History!Unreadable
    <3>1. History!Append1(History!Line("unreadable", 0)) /\ told' = told
      BY <1>2, <1>t, <2>2 DEF History!Report
    <3>l. /\ History!Line("unreadable", 0) \in Lines
          /\ History!Line("unreadable", 0).event \notin History!Ends
      BY <1>l, Bounds DEF History!Ends
    <3>2. /\ log' \in Seq(Lines) /\ Len(log') <= MaxLines /\ faults' \in 0..MaxFaults
          /\ faults' >= faults /\ LinesPast' /\ MarkerOpen' /\ Sole(log')
      BY <1>t, <2>0, <2>2, <3>1, <3>l, QuietLine DEF History!Unreadable
    <3>3. NothingMissed'
      BY <1>t, <2>0, <2>2, <3>1, <3>2 DEF NothingMissed, History!Unreadable
    <3> QED
      BY <1>t, <2>0, <3>1, <3>2, <3>3
  <2>3. CASE marker \notin {None, History!Unreadable}
    <3>1. History!AppendOnce(line) /\ History!Tell(line)
      BY <1>2, <2>3 DEF History!Report
    <3>2. line \in Lines /\ line.event = "unclean" /\ line.run = marker /\ marker \in 1..run - 1
      BY <1>t, <1>l, <2>0, <2>3 DEF History!Ends, MarkerOpen, History!Unreadable
    <3>3. CASE UNCHANGED <<log, faults>> /\ line \in History!ToSet(log)
      <4>1. marker \in told
        BY <3>2, <3>3 DEF LinesPast, Telling, History!ToSet, History!Ends
      <4>2. told' = told
        BY <3>1, <3>3 DEF History!Tell
      <4>3. LinesPast' /\ Sole(log') /\ MarkerOpen'
        BY <1>t, <2>0, <3>3, <4>2, LogKept, MarkerKept
      <4>4. NothingMissed'
        BY <1>t, <2>0, <3>3, <4>1, <4>2 DEF NothingMissed
      <4> QED
        BY <1>t, <2>0, <3>3, <4>2, <4>3, <4>4
    <3>4. CASE line \notin History!ToSet(log) /\ History!Append1(line)
      <4>1. /\ log' \in Seq(Lines) /\ Len(log') <= MaxLines /\ Extends(log', line)
            /\ faults' \in 0..MaxFaults /\ faults' >= faults
            /\ faults' = faults => \E i \in DOMAIN log' : log'[i] = line
        BY <1>t, <3>2, <3>4, AppendExtends
      <4>2. \A i \in Telling(log) : log[i].run # line.run
        <5> SUFFICES ASSUME NEW i \in Telling(log), log[i].run = marker PROVE FALSE
          BY <3>2
        <5>1. log[i] \in Lines /\ log[i].event = "unclean"
          BY <1>t, <2>3 DEF MarkerOpen, Telling
        <5>2. log[i] = line
          BY <5>1 DEF Lines, History!Line
        <5> QED
          BY <3>4, <5>2 DEF History!ToSet, Telling
      <4>3. /\ Sole(log')
            /\ \A i \in Telling(log') :
                  \/ \E j \in Telling(log) : log'[i] = log[j]
                  \/ log'[i] = line
        BY <1>t, <4>1, <4>2, LineAdded
      <4>4. /\ told' = IF log' # log THEN told \cup {marker} ELSE told
            /\ told' \subseteq 0..MaxRuns
        <5>1. told \subseteq 0..MaxRuns /\ marker \in 0..MaxRuns
          BY <1>t, <3>2
        <5>2. told' = IF log' # log THEN told \cup {marker} ELSE told
          BY <3>1, <3>2 DEF History!Tell
        <5> QED
          BY <5>1, <5>2
      <4>5. log' = log => \A i \in Telling(log') : \E j \in Telling(log) : log'[i] = log[j]
        BY DEF Telling
      <4>6. LinesPast'
        <5> SUFFICES ASSUME NEW i \in Telling(log')
                     PROVE  /\ log'[i].run \in told' /\ log'[i].run <= run
                            /\ log'[i].run # run
          BY <2>0 DEF LinesPast
        <5>1. CASE \E j \in Telling(log) : log'[i] = log[j]
          BY <2>0, <4>4, <5>1 DEF LinesPast
        <5>2. CASE log'[i] = line /\ log' # log
          BY <1>t, <3>2, <4>4, <5>2
        <5> QED
          BY <4>3, <4>5, <5>1, <5>2
      <4>7. MarkerOpen'
        <5>1. \A i \in Telling(log') : log'[i].run = marker => log'[i].event = "unclean"
          BY <2>3, <3>2, <4>3 DEF MarkerOpen
        <5> QED
          BY <2>0, <3>2, <5>1 DEF MarkerOpen
      <4>8. NothingMissed'
        <5>1. faults' = 0 => faults = 0 /\ marker \in told'
          <6> SUFFICES ASSUME faults' = 0 PROVE faults = 0 /\ marker \in told'
            OBVIOUS
          <6>1. faults = 0 /\ \E i \in DOMAIN log' : log'[i] = line
            BY <1>t, <4>1
          <6>2. log' # log
            BY <1>t, <3>4, <6>1 DEF History!ToSet
          <6> QED
            BY <4>4, <6>1, <6>2
        <5> QED
          BY <2>0, <4>4, <5>1 DEF NothingMissed
      <4> QED
        BY <1>t, <2>0, <4>1, <4>3, <4>4, <4>6, <4>7, <4>8
    <3>5. CASE faults < MaxFaults /\ faults' = faults + 1 /\ log' = <<line>>
               /\ line \in History!ToSet(log)
      <4>1. marker \in told /\ told \subseteq told' /\ told' \subseteq told \cup {marker}
        BY <3>1, <3>2, <3>5 DEF LinesPast, Telling, History!ToSet, History!Ends, History!Tell
      <4>2. log' \in Seq(Lines) /\ Len(log') = 1 /\ \A i \in Telling(log') : i = 1 /\ log'[i] = line
        BY <3>2, <3>5 DEF Telling
      <4> QED
        BY <1>t, <2>0, <2>3, <3>2, <3>5, <4>1, <4>2, Bounds
        DEF LinesPast, MarkerOpen, NothingMissed, Sole
    <3> QED
      BY <3>1, <3>3, <3>4, <3>5 DEF History!AppendOnce
  <2> QED
    BY <2>1, <2>2, <2>3
<1>3. CASE History!Mark
  <2>1. /\ runStep = "mark" /\ UNCHANGED <<log, run, result, told, silent>>
        /\ faults' \in 0..MaxFaults /\ tracked' \in BOOLEAN
        /\ \/ marker' = run /\ runStep' = "begin" /\ faults' = faults /\ tracked' = tracked
           \/ marker' = marker /\ runStep' = "up" /\ faults' # 0
    BY <1>3, <1>t, <1>f DEF History!Mark, History!history
  <2>2. LinesPast' /\ Sole(log')
    BY <1>t, <2>1, LogKept
  <2>3. MarkerOpen'
    <3>1. CASE marker' = marker
      <4>1. run' \in Nat /\ run' >= run /\ log' = log
        BY <1>t, <2>1
      <4>2. runStep' \in {"begin", "up"}
        BY <2>1
      <4> QED
        BY <3>1, <4>1, <4>2, MarkerKept
    <3>2. CASE marker' = run /\ runStep' = "begin"
      <4>1. \A i \in Telling(log) : log[i].run # run
        BY <2>1 DEF LinesPast
      <4> QED
        BY <1>t, <2>1, <3>2, <4>1 DEF MarkerOpen, Telling
    <3> QED
      BY <2>1, <3>1, <3>2
  <2>4. NothingMissed'
    <3>1. tracked /\ (faults = 0 => (1..run - 1) \ silent \subseteq told)
      BY <2>1 DEF NothingMissed
    <3>2. CASE faults' # 0
      BY <3>2 DEF NothingMissed
    <3>3. CASE marker' = run /\ runStep' = "begin" /\ faults' = faults /\ tracked' = tracked
      BY <2>1, <3>1, <3>3 DEF NothingMissed
    <3> QED
      BY <2>1, <3>2, <3>3
  <2> QED
    BY <1>3, <1>t, <2>1, <2>2, <2>3, <2>4
<1>4. CASE History!Begin
  <2> DEFINE line == History!Line("start", run)
  <2>1. /\ runStep = "begin" /\ runStep' = "up" /\ History!Append1(line)
        /\ UNCHANGED <<marker, run, tracked, result, told, silent>>
    BY <1>4 DEF History!Begin, History!history
  <2>2. line \in Lines /\ line.event \notin History!Ends
    BY <1>l, <1>t DEF History!Ends
  <2> HIDE DEF line
  <2>3. /\ log' \in Seq(Lines) /\ Len(log') <= MaxLines /\ faults' \in 0..MaxFaults
        /\ faults' >= faults /\ LinesPast' /\ MarkerOpen' /\ Sole(log')
    BY <2>1, <2>2, QuietLine
  <2>4. NothingMissed'
    BY <1>t, <2>1, <2>3 DEF NothingMissed
  <2> QED
    BY <1>t, <2>1, <2>3, <2>4
<1>5. CASE History!Diagnose
  <2> DEFINE line == History!Line("usage_diagnostics", run)
  <2>1. /\ runStep = "up" /\ runStep' = "unmark" /\ result' \in {"clean_exit", "error_exit"}
        /\ History!Append1(line) \/ UNCHANGED <<log, faults>>
        /\ UNCHANGED <<marker, run, tracked, told, silent>>
    BY <1>5 DEF History!Diagnose, History!history
  <2>2. line \in Lines /\ line.event \notin History!Ends
    BY <1>l, <1>t DEF History!Ends
  <2> HIDE DEF line
  <2>3. /\ log' \in Seq(Lines) /\ Len(log') <= MaxLines /\ faults' \in 0..MaxFaults
        /\ faults' >= faults /\ LinesPast' /\ MarkerOpen' /\ Sole(log')
    <3>1. CASE History!Append1(line)
      BY <2>1, <2>2, <3>1, QuietLine
    <3>2. CASE UNCHANGED <<log, faults>>
      BY <1>t, <2>1, <3>2, LogKept, MarkerKept
    <3> QED
      BY <2>1, <3>1, <3>2
  <2>4. NothingMissed'
    BY <1>t, <2>1, <2>3 DEF NothingMissed
  <2> QED
    BY <1>t, <2>1, <2>3, <2>4
<1>6. CASE History!FailEarly
  BY <1>6, <1>t, Bounds
  DEF History!FailEarly, LinesPast, MarkerOpen, NothingMissed, History!history,
      History!files, Telling
<1>7. CASE History!Unmark
  BY <1>7, <1>t, Bounds
  DEF History!Unmark, LinesPast, MarkerOpen, NothingMissed, History!history, Telling
<1>8. CASE History!End
  <2> DEFINE line == History!Line(result, run)
  <2>1. /\ runStep = "end" /\ runStep' = "down" /\ marker = None
        /\ History!Append1(line) /\ History!Tell(line)
        /\ UNCHANGED <<marker, run, tracked, result, silent>>
    BY <1>8 DEF History!End, MarkerOpen
  <2>2. line \in Lines /\ line.event \in {"clean_exit", "error_exit"} /\ line.run = run
    BY <1>l, <1>t DEF History!Ends
  <2> HIDE DEF line
  <2>3. /\ log' \in Seq(Lines) /\ Len(log') <= MaxLines /\ Extends(log', line)
        /\ faults' \in 0..MaxFaults /\ faults' >= faults
        /\ faults' = faults => \E i \in DOMAIN log' : log'[i] = line
    BY <1>t, <2>1, <2>2, AppendExtends
  <2>4. \A i \in Telling(log) : log[i].run # line.run
    BY <2>1, <2>2 DEF LinesPast
  <2>5. /\ Sole(log')
        /\ \A i \in Telling(log') :
              \/ \E j \in Telling(log) : log'[i] = log[j]
              \/ log'[i] = line
    BY <1>t, <2>3, <2>4, LineAdded
  <2>6. /\ told' = IF log' # log THEN told \cup {run} ELSE told
        /\ told' \subseteq 0..MaxRuns
    BY <1>t, <2>1, <2>2 DEF History!Tell
  <2>7. log' = log => \A i \in Telling(log') : \E j \in Telling(log) : log'[i] = log[j]
    BY DEF Telling
  <2>8. LinesPast'
    <3> SUFFICES ASSUME NEW i \in Telling(log')
                 PROVE  /\ log'[i].run \in told' /\ log'[i].run <= run
                        /\ log'[i].run = run => log'[i].event # "unclean"
      BY <2>1 DEF LinesPast
    <3>1. CASE \E j \in Telling(log) : log'[i] = log[j]
      BY <2>1, <2>6, <3>1 DEF LinesPast
    <3>2. CASE log'[i] = line /\ log' # log
      BY <1>t, <2>1, <2>2, <2>6, <3>2
    <3> QED
      BY <2>5, <2>7, <3>1, <3>2
  <2>9. MarkerOpen'
    BY <2>1 DEF MarkerOpen
  <2>10. NothingMissed'
    <3>1. faults' = 0 => faults = 0 /\ run \in told'
      <4> SUFFICES ASSUME faults' = 0 PROVE faults = 0 /\ run \in told'
        OBVIOUS
      <4>1. faults = 0 /\ \E i \in DOMAIN log' : log'[i] = line
        BY <1>t, <2>3
      <4>2. log' # log
        <5> SUFFICES ASSUME log' = log PROVE FALSE
          OBVIOUS
        <5>1. PICK i \in DOMAIN log : log[i] = line
          BY <4>1
        <5>2. i \in Telling(log)
          BY <2>2, <5>1 DEF Telling, History!Ends
        <5> QED
          BY <2>4, <5>1, <5>2
      <4> QED
        BY <2>6, <4>1, <4>2
    <3> QED
      BY <1>t, <2>1, <2>6, <3>1 DEF NothingMissed
  <2> QED
    BY <1>t, <2>1, <2>3, <2>5, <2>6, <2>8, <2>9, <2>10
<1>9. CASE History!Kill
  BY <1>9, <1>t, Bounds
  DEF History!Kill, LinesPast, MarkerOpen, NothingMissed, History!files, Telling
<1>10. CASE History!Damage
  BY <1>10, <1>t, Bounds
  DEF History!Damage, LinesPast, MarkerOpen, NothingMissed, History!history,
      History!Unreadable, Telling
<1>11. CASE UNCHANGED historyVars
  BY <1>11
  DEF historyVars, LinesPast, MarkerOpen, NothingMissed, Sole, Telling
<1> QED
  BY <1>1, <1>2, <1>3, <1>4, <1>5, <1>6, <1>7, <1>8, <1>9, <1>10, <1>11
  DEF History!Next

\* Whatever start, end, kill and failing file operation there is, the log tells
\* at most once how a run ended, and without faults it misses no run.
THEOREM EndsToldOnce == FilesSpec => []ToldOnce
<1>1. HistoryInv /\ [FilesNext]_filesVars => HistoryInv'
  BY OneComponentSteps, HistoryPreserved
<1>2. HistoryInv => ToldOnce
  <2> SUFFICES ASSUME HistoryInv PROVE History!ToldOnce
    BY DEF HistoryInv, HistoryTyped, ToldOnce
  <2>1. \A i, j \in DOMAIN log :
           log[i].event \in History!Ends /\ log[j].event \in History!Ends
               /\ log[i].run = log[j].run => i = j
    BY DEF HistoryInv, Sole, Telling
  <2>2. faults = 0 /\ runStep \notin {"report", "down"} => (1..run - 1) \ silent \subseteq told
    BY DEF HistoryInv, NothingMissed
  <2> QED
    BY <2>1, <2>2 DEF History!ToldOnce
<1> QED
  BY <1>1, <1>2, HistoryInitial, PTL DEF FilesSpec

-----------------------------------------------------------------------------
(* Limits.  A refresh token that the server no longer takes is on disk only *)
(* while someone is about to write the one it gave instead.                 *)

Persisting == fetchStep \in {"persist", "check", "swap"}

\* Who refreshed has a token the server takes.
NewTokens ==
    /\ code # None => code.refresh \in good
    /\ Persisting => creds.refresh \in good

\* Two refreshes are never of one token, and none gives a token again.
Given(l) == l # None => l.refresh \in 1..issued \cup {None}
Apart ==
    /\ Given(login) /\ Given(code) /\ Given(creds)
    /\ code # None /\ login # None => code.refresh # login.refresh
    /\ code # None /\ creds # None => code.refresh # creds.refresh
    /\ Persisting => /\ creds.refresh # None
                     /\ login # None => login.refresh # creds.refresh

\* The login on disk is good, or its successor is on the way: a file that was
\* replaced since it was read for the rewriting is not replaced again.
OnTheWay ==
    login # None =>
        \/ login.refresh \in good \cup {None}
        \/ code # None
        \/ fetchStep \in {"persist", "swap"}
        \/ fetchStep = "check" /\ login.id = identity

FetchTyped ==
    /\ {login, code, creds} \subseteq Login!Logins \cup {None}
    /\ good \subseteq Login!Tokens /\ issued \in 0..MaxToken /\ logins \in 0..MaxLogins
    /\ fetchStep \in {"idle", "request", "refresh", "persist", "check", "swap", "again"}
    /\ why \in {None, "expired", "unauthorized", "failure"}
    /\ host \in Login!Hosts /\ identity \in Nat /\ lost \in 0..MaxLost
    /\ fetchStep # "idle" => creds # None

ShownTyped ==
    /\ provider \in {"claude", "codex"}
    /\ {claudeShown, codexShown} \subseteq Login!Answers /\ fromRemote \in BOOLEAN
    /\ access \in [{"claude", "codex"} -> {None, "login", "api"}]

FetchInv == FetchTyped /\ Apart /\ (lost = 0 => NewTokens /\ OnTheWay)

\* Only an answer of the server says API access of Codex.
HeadingInv ==
    /\ ShownTyped /\ Login!HeadingTrue
    /\ ~fromRemote => codexShown.plan # "api" /\ access["codex"] # "api"

LEMMA LimitsInitial == FilesInit => FetchInv /\ HeadingInv
<1> SUFFICES ASSUME Login!Init PROVE FetchInv /\ HeadingInv
  BY DEF FilesInit
<1>1. /\ login = None /\ code = None /\ creds = None /\ good = {} /\ issued = 0
      /\ logins = 0 /\ fetchStep = "idle" /\ why = None /\ host = 1 /\ identity = 0
      /\ lost = 0 /\ claudeShown = Login!Blank /\ codexShown = Login!Blank
      /\ fromRemote = FALSE /\ access = [p \in {"claude", "codex"} |-> None]
      /\ provider \in {"claude", "codex"}
  BY DEF Login!Init
<1>2. FetchTyped
  BY <1>1, Bounds DEF FetchTyped, Login!Hosts
<1>3. Login!Blank \in Login!Answers /\ Login!Blank.plan = None
  BY DEF Login!Blank, Login!Answers, Login!Window
<1>4. None # "api"
  BY FilesAssumption
<1>5. ShownTyped
  BY <1>1, <1>3 DEF ShownTyped
<1>6. HeadingInv
  BY <1>1, <1>3, <1>4, <1>5 DEF HeadingInv, Login!HeadingTrue
<1> QED
  BY <1>1, <1>2, <1>6 DEF FetchInv, Apart, Given, NewTokens, OnTheWay, Persisting

LEMMA FirstOfIsWindow ==
  ASSUME NEW places \in [1..3 -> Login!Window]
  PROVE  Login!FirstOf(places) \in Login!Window
<1> DEFINE there == {i \in 1..3 : places[i] # None}
<1>1. DOMAIN places = 1..3
  OBVIOUS
<1>2. CASE there = {}
  BY <1>1, <1>2 DEF Login!FirstOf, Login!Window
<1>3. CASE there # {}
  <2>1. \E i \in there : \A j \in there : i <= j
    <3>1. CASE 1 \in there
      <4>1. \A j \in there : 1 <= j
        OBVIOUS
      <4> QED
        BY <3>1, <4>1
    <3>2. CASE 1 \notin there /\ 2 \in there
      <4>1. \A j \in there : j = 2 \/ j = 3
        BY <3>2
      <4> QED
        BY <3>2, <4>1
    <3>3. CASE 1 \notin there /\ 2 \notin there
      <4>1. \A j \in there : j = 3
        BY <3>3
      <4> QED
        BY <1>3, <4>1
    <3> QED
      BY <3>1, <3>2, <3>3
  <2> HIDE DEF there
  <2>2. Login!Min(there) \in there
    BY <2>1 DEF Login!Min
  <2>3. there \subseteq 1..3
    BY DEF there
  <2>4. Login!FirstOf(places) = places[Login!Min(there)]
    BY <1>1, <1>3 DEF Login!FirstOf, there
  <2> QED
    BY <2>2, <2>3, <2>4
<1> QED
  BY <1>2, <1>3

LEMMA TailIsLine ==
  ASSUME NEW lines \in [1..2 -> Login!LogAnswers]
  PROVE  Login!TailLimits(lines) \in Login!LogAnswers
<1> DEFINE subscriptions == {i \in 1..2 : Login!IsSubscription(lines[i])}
           counted == IF subscriptions # {} THEN subscriptions ELSE 1..2
<1>1. DOMAIN lines = 1..2
  OBVIOUS
<1>2. counted # {} /\ counted \subseteq 1..2
  OBVIOUS
<1>3. Login!TailLimits(lines) = lines[Login!Max(counted)]
  BY <1>1 DEF Login!TailLimits
<1> HIDE DEF counted
<1>4. \E i \in counted : \A j \in counted : i >= j
  <2>1. CASE 2 \in counted
    BY <1>2, <2>1
  <2>2. CASE 2 \notin counted
    <3>1. \A j \in counted : j = 1
      BY <1>2, <2>2
    <3>2. PICK i \in counted : TRUE
      BY <1>2
    <3>3. i = 1 /\ 1 >= 1
      BY <3>1
    <3> QED
      BY <3>1, <3>2, <3>3
  <2> QED
    BY <2>1, <2>2
<1>5. Login!Max(counted) \in counted
  BY <1>4 DEF Login!Max
<1> QED
  BY <1>2, <1>3, <1>5

LEMMA AppliedIsAnswer ==
  ASSUME NEW old \in Login!Answers, NEW a \in Login!Answers
  PROVE  /\ Login!Applied(old, a) \in Login!Answers
         /\ Login!Applied(old, a).plan = "api" <=> a.plan = "api"
<1> DEFINE plan == IF a.plan # None THEN a.plan
                   ELSE IF old.plan = "api" THEN None ELSE old.plan
<1>1. plan \in Plans \cup {"api", None} /\ (plan = "api" <=> a.plan = "api")
  BY FilesAssumption DEF Login!Answers
<1>2. Login!Applied(old, a) = [a EXCEPT !.plan = plan]
  BY DEF Login!Applied
<1> HIDE DEF plan
<1> QED
  BY <1>1, <1>2 DEF Login!Answers

\* What an answer or a log line changes of what is shown.
LEMMA HeadingPreserved ==
  FetchTyped /\ HeadingInv /\ [Login!Next]_limitsVars => HeadingInv'
<1> SUFFICES ASSUME FetchTyped, HeadingInv, [Login!Next]_limitsVars PROVE HeadingInv'
  OBVIOUS
<1>t. /\ ShownTyped /\ Login!HeadingTrue
      /\ ~fromRemote => codexShown.plan # "api" /\ access["codex"] # "api"
  BY DEF HeadingInv
<1>1. ASSUME NEW a \in Login!Answers, Login!ShowClaude(a), provider' = provider
      PROVE  HeadingInv'
  <2>1. /\ claudeShown' \in Login!Answers
        /\ claudeShown'.plan = "api" <=> a.plan = "api"
        /\ codexShown' = codexShown /\ fromRemote' = fromRemote
        /\ access' = [access EXCEPT !["claude"] = IF a.plan = "api" THEN "api" ELSE "login"]
    BY <1>t, <1>1, AppliedIsAnswer DEF Login!ShowClaude, ShownTyped
  <2>2. /\ access' \in [{"claude", "codex"} -> {None, "login", "api"}]
        /\ access'["claude"] = "api" <=> a.plan = "api"
        /\ access'["codex"] = access["codex"]
    BY <1>t, <2>1 DEF ShownTyped
  <2>3. ShownTyped'
    BY <1>t, <1>1, <2>1, <2>2 DEF ShownTyped
  <2> QED
    BY <1>t, <2>1, <2>2, <2>3 DEF HeadingInv, Login!HeadingTrue
<1>2. ASSUME NEW a \in Login!Answers, Login!ShowCodex(a), provider' = provider
      PROVE  HeadingInv'
  <2>1. /\ codexShown' \in Login!Answers
        /\ codexShown'.plan = "api" <=> a.plan = "api"
        /\ claudeShown' = claudeShown /\ fromRemote' = TRUE
        /\ access' = [access EXCEPT !["codex"] = IF a.plan = "api" THEN "api" ELSE "login"]
    BY <1>t, <1>2, AppliedIsAnswer DEF Login!ShowCodex, ShownTyped
  <2>2. /\ access' \in [{"claude", "codex"} -> {None, "login", "api"}]
        /\ access'["codex"] = "api" <=> a.plan = "api"
        /\ access'["claude"] = access["claude"]
    BY <1>t, <2>1 DEF ShownTyped
  <2>3. ShownTyped'
    BY <1>t, <1>2, <2>1, <2>2 DEF ShownTyped
  <2> QED
    BY <1>t, <2>1, <2>2, <2>3 DEF HeadingInv, Login!HeadingTrue
<1>3. Login!ApiAnswer \in Login!Answers
  BY DEF Login!ApiAnswer, Login!Blank, Login!Answers, Login!Window
<1>4. \A plan \in Plans \cup {None} : Login!ClaudeAnswers(plan) \subseteq Login!Answers
  <2> SUFFICES ASSUME NEW plan \in Plans \cup {None}, NEW a \in Login!ClaudeAnswers(plan)
               PROVE  a \in Login!Answers
    OBVIOUS
  <2>1. {Login!FirstOf(places) : places \in [1..3 -> Login!Window]} \subseteq Login!Window
    BY FirstOfIsWindow
  <2>2. a \in [session : Login!Window, week : Login!Window,
               fable : {Login!FirstOf(places) : places \in [1..3 -> Login!Window]},
               plan : {plan}]
    BY DEF Login!ClaudeAnswers
  <2> QED
    BY <2>1, <2>2 DEF Login!Answers
<1>5. \A a \in Login!CodexAnswers : a \in Login!Answers /\ a.plan \in Plans \cup {None}
  BY DEF Login!CodexAnswers, Login!Answers, Login!Window
<1>6. CASE UNCHANGED <<provider, Login!shown>>
  BY <1>t, <1>6 DEF Login!shown, ShownTyped, HeadingInv, Login!HeadingTrue
<1>7. CASE UNCHANGED provider /\ Login!FetchWithoutLogin
  BY <1>1, <1>3, <1>7 DEF Login!FetchWithoutLogin
<1>8. CASE UNCHANGED provider /\ Login!Answered
  <2>1. creds.plan \in Plans \cup {None}
    BY <1>8 DEF Login!Answered, FetchTyped, Login!Logins
  <2> QED
    BY <1>1, <1>4, <1>8, <2>1 DEF Login!Answered
<1>9. CASE UNCHANGED provider /\ Login!CodexWithKey
  BY <1>2, <1>3, <1>9 DEF Login!CodexWithKey
<1>10. CASE UNCHANGED provider /\ Login!CodexAnswered
  BY <1>2, <1>5, <1>10 DEF Login!CodexAnswered
<1>11. CASE UNCHANGED provider /\ Login!CodexLog
  <2>1. PICK a \in Login!CodexAnswers :
           codexShown' = [a EXCEPT !.plan = IF a.plan # None THEN a.plan ELSE codexShown.plan]
    BY <1>11, TailIsLine DEF Login!CodexLog, Login!LogAnswers
  <2>2. /\ ~fromRemote /\ UNCHANGED <<provider, claudeShown, fromRemote, access>>
    BY <1>11 DEF Login!CodexLog, Login!LogCounts
  <2> DEFINE plan == IF a.plan # None THEN a.plan ELSE codexShown.plan
  <2>3. plan \in Plans \cup {"api", None} /\ plan # "api"
    BY <1>t, <1>5, <2>2, FilesAssumption DEF ShownTyped, Login!Answers
  <2>4. codexShown' = [a EXCEPT !.plan = plan]
    BY <2>1
  <2> HIDE DEF plan
  <2>5. codexShown' \in Login!Answers /\ codexShown'.plan # "api"
    BY <1>5, <2>3, <2>4 DEF Login!Answers
  <2> QED
    BY <1>t, <2>2, <2>5 DEF ShownTyped, HeadingInv, Login!HeadingTrue
<1> QED
  BY <1>6, <1>7, <1>8, <1>9, <1>10, <1>11
  DEF limitsVars, Login!Next, Login!ClaudeNext, Login!CodexNext, Login!shown,
      Login!Login, Login!Logout, Login!Expire, Login!CodeRefreshes, Login!CodeWrites,
      Login!FetchClaude, Login!Unanswered, Login!UnansweredAgain, Login!CannotRefresh,
      Login!NextHost, Login!Refused, Login!AnswerLost, Login!Refreshed,
      Login!PersistReads, Login!PersistFails, Login!PersistChecks, Login!PersistFinds,
      Login!PersistSwaps

LEMMA LoginRecords ==
  ASSUME NEW l \in Login!Logins
  PROVE  /\ l # None /\ l.id \in Nat /\ l.token \in Login!Tokens
         /\ l.refresh \in Login!Tokens \cup {None}
         /\ [l EXCEPT !.expired = TRUE] \in Login!Logins
         /\ [l EXCEPT !.expired = TRUE].id = l.id
         /\ [l EXCEPT !.expired = TRUE].refresh = l.refresh
<1>1. l # None
  BY FilesAssumption
<1> QED
  BY <1>1 DEF Login!Logins

\* The steps of Claude Code, of the server and of a fetch.
LEMMA FetchPreserved == FetchInv /\ [Login!Next]_limitsVars => FetchInv'
<1> SUFFICES ASSUME FetchInv, [Login!Next]_limitsVars PROVE FetchInv'
  OBVIOUS
<1>t. /\ {login, code, creds} \subseteq Login!Logins \cup {None}
      /\ good \subseteq Login!Tokens /\ issued \in 0..MaxToken
      /\ Login!Tokens = 1..MaxToken /\ None \notin Nat /\ MaxToken \in Nat
      /\ logins \in 0..MaxLogins /\ host \in Login!Hosts /\ lost \in 0..MaxLost
      /\ fetchStep # "idle" => creds # None
  BY Bounds DEF FetchInv, FetchTyped, Login!Tokens
<1>r. \A l \in {login, code, creds} \ {None} :
         /\ l \in Login!Logins /\ l.id \in Nat /\ l.refresh \in 1..issued \cup {None}
  <2> SUFFICES ASSUME NEW l \in {login, code, creds} \ {None}
               PROVE  /\ l \in Login!Logins /\ l.id \in Nat
                      /\ l.refresh \in 1..issued \cup {None}
    OBVIOUS
  <2>1. l \in Login!Logins /\ l.id \in Nat /\ l.refresh \in Login!Tokens \cup {None}
    BY <1>t, LoginRecords
  <2>2. l.refresh # None => l.refresh <= issued
    BY DEF FetchInv, Apart, Given
  <2> QED
    BY <1>t, <2>1, <2>2
<1>n. issued < MaxToken => /\ issued + 1 \in Login!Tokens /\ issued + 1 \in 0..MaxToken
                           /\ issued + 1 \in Nat /\ issued + 1 \notin 1..issued
                           /\ issued + 1 # None
                           /\ 1..issued \subseteq 1..issued + 1
                           /\ issued + 1 \in 1..issued + 1
  BY <1>t
<1>x. lost < MaxLost /\ lost' = lost + 1 => lost' # 0 /\ lost' \in 0..MaxLost
  BY <1>t, Bounds
\* A step of a fetch that asks, or gives up, with what it has.
<1>q. ASSUME UNCHANGED <<login, good, issued, code, logins>>,
             creds' \in {creds, login, None}, fetchStep' \notin {"persist", "check", "swap"},
             fetchStep' \in {"idle", "request", "refresh", "again"},
             fetchStep' # "idle" => creds' # None,
             why' \in {None, "expired", "unauthorized", "failure"},
             host' \in Login!Hosts, identity' \in Nat, lost' \in 0..MaxLost,
             lost' = 0 => /\ lost = 0
                          /\ login # None => \/ login.refresh \in good \cup {None}
                                             \/ code # None
      PROVE  FetchInv'
  <2>1. FetchTyped'
    BY <1>t, <1>q DEF FetchTyped, FetchInv
  <2>2. Apart'
    BY <1>q DEF FetchInv, Apart, Given, Persisting
  <2>3. lost' = 0 => NewTokens' /\ OnTheWay'
    BY <1>q DEF FetchInv, NewTokens, OnTheWay, Persisting
  <2> QED
    BY <2>1, <2>2, <2>3 DEF FetchInv
\* Unless a fetch persists, the login on disk is good or Claude Code has a newer.
<1>o. /\ lost = 0 /\ fetchStep \in {"idle", "request", "refresh", "again"} /\ login # None
            => login.refresh \in good \cup {None} \/ code # None
      /\ lost = 0 /\ fetchStep = "check" /\ login # None /\ login.id # identity
            => login.refresh \in good \cup {None} \/ code # None
  BY DEF FetchInv, OnTheWay
<1>e. ASSUME Login!RefreshFails
      PROVE  /\ fetchStep' \in {"idle", "request"} /\ why' = None /\ host' = 1
             /\ identity' = 0 /\ host' \in Login!Hosts
  BY <1>e DEF Login!RefreshFails, Login!Hosts
<1>1. CASE Login!Login
  <2>1. /\ issued < MaxToken /\ code = None /\ login' \in Login!Logins
        /\ login'.refresh \in {issued + 1, None}
        /\ good' = good \cup {issued + 1} /\ issued' = issued + 1
        /\ logins < MaxLogins /\ logins' = logins + 1
        /\ UNCHANGED <<code, fetchStep, creds, why, host, identity, lost>>
    <3>1. issued < MaxToken
      BY <1>1 DEF Login!Login
    <3>2. PICK refreshable \in BOOLEAN, plan \in Plans \cup {None}, inPlace \in BOOLEAN :
             login' = [id |-> IF inPlace /\ login # None THEN login.id ELSE issued + 1,
                       token |-> issued + 1,
                       refresh |-> IF refreshable THEN issued + 1 ELSE None,
                       expired |-> FALSE, plan |-> plan]
      BY <1>1 DEF Login!Login
    <3>3. login # None => login.id \in Nat
      BY <1>r
    <3>4. login' \in Login!Logins /\ login'.refresh \in {issued + 1, None}
      BY <1>n, <3>1, <3>2, <3>3 DEF Login!Logins
    <3> QED
      BY <1>1, <3>4 DEF Login!Login, Login!fetch
  <2>2. FetchTyped'
    <3>1. logins' \in 0..MaxLogins
      BY <1>t, <2>1, Bounds
    <3>2. good' \subseteq Login!Tokens /\ issued' \in 0..MaxToken
      BY <1>t, <1>n, <2>1
    <3> QED
      BY <1>t, <2>1, <3>1, <3>2 DEF FetchTyped, FetchInv
  <2>3. Apart'
    BY <1>t, <1>r, <1>n, <2>1 DEF FetchInv, Apart, Given, Persisting
  <2>4. lost' = 0 => NewTokens' /\ OnTheWay'
    BY <2>1 DEF FetchInv, NewTokens, OnTheWay, Persisting
  <2> QED
    BY <2>2, <2>3, <2>4 DEF FetchInv
<1>2. CASE Login!Logout
  <2>1. /\ login' = None /\ code = None
        /\ UNCHANGED <<good, issued, code, logins, fetchStep, creds, why, host, identity, lost>>
    BY <1>2 DEF Login!Logout, Login!fetch
  <2> QED
    BY <1>t, <2>1 DEF FetchInv, FetchTyped, Apart, Given, NewTokens, OnTheWay, Persisting
<1>3. CASE Login!Expire
  <2>1. /\ login # None /\ login' = [login EXCEPT !.expired = TRUE]
        /\ UNCHANGED <<good, issued, code, logins, fetchStep, creds, why, host, identity, lost>>
    BY <1>3 DEF Login!Expire, Login!fetch
  <2>2. /\ login' \in Login!Logins /\ login' # None /\ login'.refresh = login.refresh
        /\ login'.id = login.id
    BY <1>t, <2>1, LoginRecords
  <2> QED
    BY <1>t, <2>1, <2>2 DEF FetchInv, FetchTyped, Apart, Given, NewTokens, OnTheWay, Persisting
<1>4. CASE Login!CodeRefreshes
  <2>1. /\ login # None /\ code = None /\ login.refresh \in good /\ issued < MaxToken
        /\ issued' = issued + 1 /\ good' = (good \ {login.refresh}) \cup {issued + 1}
        /\ code' = [login EXCEPT !.id = issued + 1, !.token = issued + 1,
                                 !.refresh = issued + 1, !.expired = FALSE]
        /\ UNCHANGED <<login, logins, fetchStep, creds, why, host, identity, lost>>
    BY <1>4 DEF Login!CodeRefreshes, Login!Rotate, Login!fetch
  <2>2. code' \in Login!Logins /\ code'.refresh = issued + 1 /\ code' # None
    <3>1. login \in Login!Logins /\ issued + 1 \in Login!Tokens /\ issued + 1 \in Nat
      BY <1>t, <1>n, <2>1
    <3>2. code' \in Login!Logins /\ code'.refresh = issued + 1
      BY <2>1, <3>1 DEF Login!Logins
    <3> QED
      BY <3>2, LoginRecords
  <2>3. FetchTyped'
    BY <1>t, <1>n, <2>1, <2>2 DEF FetchTyped, FetchInv
  <2>4. Apart'
    BY <1>t, <1>r, <1>n, <2>1, <2>2 DEF FetchInv, Apart, Given, Persisting
  <2>5. lost' = 0 => NewTokens' /\ OnTheWay'
    BY <2>1, <2>2 DEF FetchInv, Apart, Given, NewTokens, OnTheWay, Persisting
  <2> QED
    BY <2>3, <2>4, <2>5 DEF FetchInv
<1>5. CASE Login!CodeWrites
  <2>1. /\ code # None /\ login' = code /\ code' = None
        /\ UNCHANGED <<good, issued, logins, fetchStep, creds, why, host, identity, lost>>
    BY <1>5 DEF Login!CodeWrites, Login!fetch
  <2> QED
    BY <1>t, <2>1 DEF FetchInv, FetchTyped, Apart, Given, NewTokens, OnTheWay, Persisting
<1>6. CASE Login!FetchWithoutLogin
  BY <1>6 DEF Login!FetchWithoutLogin, Login!login, Login!fetch, FetchInv, FetchTyped,
     Apart, Given, NewTokens, OnTheWay, Persisting
<1>7. CASE Login!FetchClaude
  <2>1. /\ fetchStep = "idle" /\ login # None /\ creds' = login
        /\ fetchStep' \in {"request", "refresh"} /\ why' \in {None, "expired"} /\ host' = 1
        /\ UNCHANGED <<login, good, issued, code, logins, identity, lost>>
    BY <1>7 DEF Login!FetchClaude, Login!login
  <2> QED
    BY <1>t, <1>o, <1>q, <2>1 DEF FetchInv, FetchTyped, Login!Hosts
<1>8. CASE Login!Answered
  BY <1>8, <1>t, <1>o, <1>q DEF Login!Answered, Login!Finish, Login!login, Login!Hosts
<1>9. CASE Login!Unanswered("unauthorized") \/ Login!Unanswered("failure")
  BY <1>9, <1>t, <1>o, <1>q
  DEF Login!Unanswered, Login!login, Login!Hosts, FetchInv, FetchTyped
<1>10. CASE Login!UnansweredAgain
  BY <1>10, <1>t, <1>o, <1>q
  DEF Login!UnansweredAgain, Login!Finish, Login!login, Login!Hosts
<1>11. CASE Login!CannotRefresh
  BY <1>11, <1>t, <1>o, <1>q, <1>e DEF Login!CannotRefresh, Login!login
<1>12. CASE Login!NextHost
  <2>1. CASE host < 2 /\ host' = host + 1 /\ UNCHANGED <<fetchStep, why, identity>>
    <3>1. host' \in Login!Hosts
      BY <1>t, <2>1 DEF Login!Hosts
    <3> QED
      BY <1>12, <1>t, <1>o, <1>q, <2>1, <3>1
      DEF Login!NextHost, Login!login, FetchInv, FetchTyped
  <2>2. CASE Login!RefreshFails
    BY <1>12, <1>t, <1>o, <1>q, <1>e, <2>2 DEF Login!NextHost, Login!login
  <2> QED
    BY <1>12, <2>1, <2>2 DEF Login!NextHost
<1>13. CASE Login!Refused
  BY <1>13, <1>t, <1>o, <1>q, <1>e DEF Login!Refused, Login!login
<1>14. CASE Login!AnswerLost
  <2>1. /\ fetchStep = "refresh" /\ creds.refresh \in good /\ issued < MaxToken
        /\ issued' = issued + 1 /\ good' = (good \ {creds.refresh}) \cup {issued + 1}
        /\ lost' # 0 /\ lost' \in 0..MaxLost
        /\ UNCHANGED <<login, code, logins, creds>>
    BY <1>14, <1>x DEF Login!AnswerLost, Login!Rotate
  <2>2. /\ fetchStep' \in {"idle", "request", "refresh"} /\ host' \in Login!Hosts
        /\ why' \in {None, "expired", "unauthorized", "failure"} /\ identity' \in Nat
    BY <1>14, <1>e DEF Login!AnswerLost, Login!Hosts, FetchInv, FetchTyped
  <2>3. FetchTyped'
    BY <1>t, <1>n, <2>1, <2>2 DEF FetchTyped
  <2>4. Apart'
    BY <1>t, <1>r, <1>n, <2>1, <2>2 DEF FetchInv, Apart, Given, Persisting
  <2> QED
    BY <2>1, <2>3, <2>4 DEF FetchInv
<1>15. CASE Login!Refreshed
  <2>1. /\ fetchStep = "refresh" /\ creds.refresh \in good /\ issued < MaxToken
        /\ issued' = issued + 1 /\ good' = (good \ {creds.refresh}) \cup {issued + 1}
        /\ creds' = [creds EXCEPT !.token = issued + 1, !.refresh = issued + 1,
                                  !.expired = FALSE]
        /\ fetchStep' = "persist"
        /\ UNCHANGED <<login, code, logins, why, host, identity, lost>>
    BY <1>15 DEF Login!Refreshed, Login!Rotate
  <2>2. creds \in Login!Logins
    BY <1>t, <2>1
  <2>3. creds' \in Login!Logins /\ creds'.refresh = issued + 1 /\ creds' # None
    <3>1. issued + 1 \in Login!Tokens
      BY <1>n, <2>1
    <3>2. creds' \in Login!Logins /\ creds'.refresh = issued + 1
      BY <2>1, <2>2, <3>1 DEF Login!Logins
    <3> QED
      BY <3>2, LoginRecords
  <2>4. FetchTyped'
    BY <1>t, <1>n, <2>1, <2>3 DEF FetchTyped, FetchInv
  <2>5. Apart'
    BY <1>t, <1>r, <1>n, <2>1, <2>3 DEF FetchInv, Apart, Given, Persisting
  <2>6. lost' = 0 => NewTokens' /\ OnTheWay'
    BY <1>t, <2>1, <2>2, <2>3 DEF FetchInv, Apart, Given, NewTokens, OnTheWay, Persisting
  <2> QED
    BY <2>4, <2>5, <2>6 DEF FetchInv
<1>16. CASE Login!PersistReads
  <2>1. CASE login = None /\ Login!RefreshFails
    BY <1>16, <1>t, <1>q, <1>e, <2>1 DEF Login!PersistReads, Login!login
  <2>2. CASE /\ login # None /\ fetchStep' = "check" /\ identity' = login.id
             /\ UNCHANGED <<why, host>>
    <3>1. /\ fetchStep = "persist" /\ identity' \in Nat
          /\ UNCHANGED <<login, good, issued, code, logins, creds, lost>>
      BY <1>16, <1>r, <2>2 DEF Login!PersistReads, Login!login
    <3> QED
      BY <1>t, <2>2, <3>1 DEF FetchInv, FetchTyped, Apart, Given, NewTokens, OnTheWay, Persisting
  <2> QED
    BY <1>16, <2>1, <2>2 DEF Login!PersistReads
<1>17. CASE Login!PersistFails
  BY <1>17, <1>t, <1>q, <1>e, <1>x DEF Login!PersistFails, Login!login
<1>18. CASE Login!PersistChecks
  <2>1. CASE login # None /\ login.id = identity /\ fetchStep' = "swap"
             /\ UNCHANGED <<why, host, identity>>
    <3>1. /\ fetchStep = "check"
          /\ UNCHANGED <<login, good, issued, code, logins, creds, lost>>
      BY <1>18 DEF Login!PersistChecks, Login!login
    <3> QED
      BY <1>t, <2>1, <3>1 DEF FetchInv, FetchTyped, Apart, Given, NewTokens, OnTheWay, Persisting
  <2>2. CASE ~(login # None /\ login.id = identity) /\ Login!RefreshFails
    BY <1>18, <1>t, <1>o, <1>q, <1>e, <2>2 DEF Login!PersistChecks, Login!login
  <2> QED
    BY <1>18, <2>1, <2>2 DEF Login!PersistChecks
<1>19. CASE Login!PersistFinds
  BY <1>19, <1>t, <1>q, <1>e DEF Login!PersistFinds, Login!login
<1>20. CASE Login!PersistSwaps
  <2>1. /\ fetchStep = "swap" /\ login # None /\ login' = Login!Rewritten
        /\ fetchStep' \in {"request", "again"} /\ why' = None /\ host' = 1 /\ identity' = 0
        /\ UNCHANGED <<good, issued, code, logins, creds, lost>>
    BY <1>20 DEF Login!PersistSwaps
  <2>2. creds # None /\ creds.token \in Login!Tokens /\ creds.refresh \in Login!Tokens \cup {None}
    BY <1>t, <2>1, LoginRecords
  <2>3. login' \in Login!Logins /\ login'.refresh = creds.refresh /\ login' # None
    <3>1. login \in Login!Logins /\ creds.token \in Nat
      BY <1>t, <2>1, <2>2
    <3>2. login' \in Login!Logins /\ login'.refresh = creds.refresh
      BY <2>1, <2>2, <3>1 DEF Login!Rewritten, Login!Logins
    <3> QED
      BY <3>2, LoginRecords
  <2>4. FetchTyped'
    BY <1>t, <2>1, <2>2, <2>3 DEF FetchTyped, FetchInv, Login!Hosts
  <2>5. Apart'
    BY <1>t, <2>1, <2>2, <2>3 DEF FetchInv, Apart, Given, Persisting
  <2>6. lost' = 0 => NewTokens' /\ OnTheWay'
    BY <2>1, <2>3 DEF FetchInv, NewTokens, OnTheWay, Persisting
  <2> QED
    BY <2>4, <2>5, <2>6 DEF FetchInv
<1>21. CASE UNCHANGED <<login, good, issued, code, logins, fetchStep, creds, why, host,
                        identity, lost>>
  BY <1>21 DEF FetchInv, FetchTyped, Apart, Given, NewTokens, OnTheWay, Persisting
<1> QED
  BY <1>1, <1>2, <1>3, <1>4, <1>5, <1>6, <1>7, <1>8, <1>9, <1>10, <1>11, <1>12, <1>13,
     <1>14, <1>15, <1>16, <1>17, <1>18, <1>19, <1>20, <1>21
  DEF limitsVars, Login!Next, Login!ClaudeNext, Login!CodexNext, Login!CodexWithKey,
      Login!CodexAnswered, Login!CodexLog, Login!ShowCodex, Login!login, Login!fetch

\* A fetch never costs the user the login of Claude Code, whoever else uses and
\* rewrites it meanwhile, and the heading says API access exactly when the last
\* answer did.
THEOREM LimitsStayTrue == FilesSpec => []LimitsTrue
<1>1. FetchInv /\ HeadingInv /\ [FilesNext]_filesVars => FetchInv' /\ HeadingInv'
  <2>1. FetchInv => FetchTyped
    BY DEF FetchInv
  <2> QED
    BY <2>1, OneComponentSteps, FetchPreserved, HeadingPreserved
<1>2. FetchInv /\ HeadingInv => LimitsTrue
  <2> SUFFICES ASSUME FetchInv, HeadingInv PROVE LimitsTrue
    OBVIOUS
  <2>1. Login!TypeOK
    BY DEF FetchInv, HeadingInv, FetchTyped, ShownTyped, Login!TypeOK
  <2>2. Login!LoginKept
    BY DEF FetchInv, OnTheWay, Login!LoginKept
  <2> QED
    BY <2>1, <2>2 DEF LimitsTrue, HeadingInv
<1> QED
  BY <1>1, <1>2, LimitsInitial, PTL DEF FilesSpec

-----------------------------------------------------------------------------
(* OtakFloor.  What is read was published, and what is published of a day  *)
(* is never more than it cost; so the sums are not.                        *)

\* The days of a month.
MonthOf(d) == {e \in Otak!Days : Otak!Month(e) = Otak!Month(d)}

\* What a leader may have published.
Published == [updated : 0..LastTime, available : BOOLEAN,
              days : UNION {[S -> 0..MaxSpent] : S \in SUBSET Otak!Days}]

\* Session files tell of no more than was spent, and snapshots neither.
ToldIsSpent ==
    /\ \A d \in Otak!Days : logged[d] <= spent[d]
    /\ Otak!SumOver(spent, Otak!Days) <= MaxSpent
    /\ DOMAIN artifact = 1..MaxEpoch
    /\ \A e \in 1..MaxEpoch :
          Otak!Readable(artifact[e]) =>
              /\ artifact[e] \in Published
              /\ \A d \in DOMAIN artifact[e].days : artifact[e].days[d] <= spent[d]

\* A pair of sums for the day of the tick is within what was spent.
Within(sums) ==
    /\ dayKey # 0
    /\ sums.today \in Nat /\ sums.month \in Nat
    /\ sums.today <= spent[dayKey]
    /\ sums.month <= Otak!SumOver(spent, MonthOf(dayKey))

\* What the collector holds is of the day of the tick.
HeldIsSpent ==
    /\ tickStep # "idle" => dayKey # 0
    /\ tickStep \in {"artifact", "fence"} => fence \in 1..MaxEpoch
    /\ tickStep = "fence" => Within(snapshot)
    /\ floor # None => Within(floor)
    /\ dayKey # 0 => Within(totals)

FloorInv == Otak!TypeOK /\ ToldIsSpent /\ HeldIsSpent

\* The sum over a set of days is the library's sum.
LEMMA SumIsSum ==
  ASSUME NEW f, NEW S
  PROVE  Otak!SumOver(f, S) = SumFunctionOnSet(f, S)
BY DEF Otak!SumOver, Otak!MapThenSumSet, Otak!MapThenFoldSet, SumFunctionOnSet,
       FoldFunctionOnSet, MapThenFoldSet

\* The clock's day is one of the days.
LEMMA DayOfClock ==
  ASSUME NEW t \in 0..LastTime
  PROVE  Otak!Day(t) \in Otak!Days
<1> DEFINE q == t \div DayLength  r == LastTime \div DayLength
<1>0. DayLength \in Nat \ {0} /\ LastTime \in Nat /\ t \in Nat /\ t <= LastTime
  BY FilesAssumption DEF FilesAssumption
<1>1. q \in Nat /\ r \in Nat /\ q <= r
  BY <1>0
<1> HIDE DEF q, r
<1>2. q + 1 \in 1..(r + 1)
  BY <1>1
<1> QED BY <1>2 DEF Otak!Days, Otak!Day, q, r

\* The days, and those of one month.
LEMMA DaysAre ==
    /\ IsFiniteSet(Otak!Days) /\ Otak!Days \subseteq Nat \ {0} /\ 0 \notin Otak!Days
    /\ \A d \in Otak!Days : /\ MonthOf(d) \subseteq Otak!Days /\ d \in MonthOf(d)
                            /\ Otak!MonthTo(d) \subseteq MonthOf(d)
<1> DEFINE last == LastTime \div DayLength
<1>1. last \in Nat
  BY FilesAssumption DEF FilesAssumption
<1> HIDE DEF last
<1>2. Otak!Days = 1..(last + 1)
  BY DEF Otak!Days, Otak!Day, last
<1>3. IsFiniteSet(Otak!Days) /\ Otak!Days \subseteq Nat \ {0} /\ 0 \notin Otak!Days
  BY <1>1, <1>2, FS_Interval
<1>4. \A d \in Otak!Days : 1..d \subseteq Otak!Days
  BY <1>1, <1>2
<1> QED BY <1>3, <1>4 DEF MonthOf, Otak!MonthTo

\* Sums of what was spent are numbers, of one day at most that of all.
LEMMA SpentSums ==
  ASSUME NEW f \in [Otak!Days -> Nat]
  PROVE  /\ \A S \in SUBSET Otak!Days : Otak!SumOver(f, S) \in Nat
         /\ \A d \in Otak!Days : f[d] <= Otak!SumOver(f, Otak!Days)
<1>1. \A S \in SUBSET Otak!Days : Otak!SumOver(f, S) \in Nat
  BY DaysAre, FS_Subset, SumIs, SumIsSum
<1>2. ASSUME NEW d \in Otak!Days PROVE f[d] <= Otak!SumOver(f, Otak!Days)
  <2>1. Otak!SumOver(f, Otak!Days) = f[d] + Otak!SumOver(f, Otak!Days \ {d})
    <3>1. \A x \in Otak!Days : f[x] \in Int
      OBVIOUS
    <3>2. SumFunctionOnSet(f, Otak!Days) = f[d] + SumFunctionOnSet(f, Otak!Days \ {d})
      <4>1. IsFiniteSet(Otak!Days)
        BY DaysAre
      <4> QED BY <3>1, <4>1, SumWithout
    <3> QED BY <3>2, SumIsSum
  <2>2. Otak!SumOver(f, Otak!Days \ {d}) \in Nat /\ f[d] \in Nat
    BY <1>1
  <2> QED BY <2>1, <2>2
<1> QED BY <1>1, <1>2

\* Less on fewer days is not more.
LEMMA LessSpent ==
  ASSUME NEW S \in SUBSET Otak!Days, NEW R \in SUBSET S, NEW f, NEW g,
         \A d \in S : g[d] \in Nat, \A d \in R : f[d] \in Nat /\ f[d] <= g[d]
  PROVE  Otak!SumOver(f, R) <= Otak!SumOver(g, S)
BY DaysAre, FS_Subset, SumGrows, SumIsSum

\* At first nothing was spent.
LEMMA FloorInitial == FilesInit => FloorInv
<1> SUFFICES ASSUME Otak!Init PROVE FloorInv
  BY DEF FilesInit
<1>1. /\ LastTime \in Nat /\ MaxEpoch \in Nat /\ MaxSpent \in Nat
      /\ 0 \in 0..LastTime /\ 0 \in 0..MaxEpoch /\ 0 \in 0..MaxSpent
  BY FilesAssumption DEF FilesAssumption
<1>2. spent \in [Otak!Days -> 0..MaxSpent] /\ logged = spent /\ \A d \in Otak!Days : spent[d] = 0
  BY <1>1 DEF Otak!Init
<1>3. Otak!SumOver(spent, Otak!Days) = 0
  <2>1. SumFunctionOnSet(spent, Otak!Days) = SumFunctionOnSet(spent, {})
    <3>1. \A d \in Otak!Days : spent[d] \in Int
      BY <1>2
    <3>2. {} \in SUBSET Otak!Days /\ \A d \in Otak!Days \ {} : spent[d] = 0
      BY <1>2
    <3> QED BY <3>1, <3>2, DaysAre, SumOfParts
  <2> QED BY <2>1, SumIsSum, SumOf, FS_EmptySet
<1>4. DOMAIN artifact = 1..MaxEpoch /\ \A e \in 1..MaxEpoch : ~Otak!Readable(artifact[e])
  BY DEF Otak!Init, Otak!Readable
<1>5. ToldIsSpent
  BY <1>1, <1>2, <1>3, <1>4 DEF ToldIsSpent
<1> QED
  BY <1>1, <1>2, <1>5 DEF FloorInv, HeldIsSpent, Otak!Init, Otak!TypeOK, Otak!Fences

\* More was spent: what is held is still within it.
LEMMA StillWithin ==
  ASSUME FloorInv, spent' \in [Otak!Days -> Nat], \A d \in Otak!Days : spent[d] <= spent'[d],
         UNCHANGED dayKey, NEW sums, Within(sums)
  PROVE  Within(sums)'
<1>1. dayKey \in Otak!Days
  BY DEF FloorInv, Otak!TypeOK, Within
<1>2. spent \in [Otak!Days -> Nat]
  BY DEF FloorInv, Otak!TypeOK
<1>3. Otak!SumOver(spent, MonthOf(dayKey)) <= Otak!SumOver(spent', MonthOf(dayKey))
  BY <1>1, <1>2, DaysAre, LessSpent
<1>4. /\ Otak!SumOver(spent, MonthOf(dayKey)) \in Nat
      /\ Otak!SumOver(spent', MonthOf(dayKey)) \in Nat
  BY <1>1, <1>2, DaysAre, SpentSums
<1>5. spent[dayKey] <= spent'[dayKey] /\ spent[dayKey] \in Nat /\ spent'[dayKey] \in Nat
  BY <1>1, <1>2
<1>6. Within(sums)' = (/\ dayKey # 0
                       /\ sums.today \in Nat /\ sums.month \in Nat
                       /\ sums.today <= spent'[dayKey]
                       /\ sums.month <= Otak!SumOver(spent', MonthOf(dayKey)))
  BY DEF Within, MonthOf
<1> QED BY <1>3, <1>4, <1>5, <1>6 DEF Within

\* The bounds are numbers.
LEMMA Sizes ==
    /\ LastTime \in Nat /\ MaxEpoch \in Nat /\ MaxSpent \in Nat
    /\ \A k \in 0..MaxSpent : k \in Nat
BY FilesAssumption DEF FilesAssumption

\* The world: time, sessions and leaders.
LEMMA WorldKeepsFloor ==
  ASSUME FloorInv, Otak!Time \/ Otak!Spend \/ Otak!Lead \/ \E e \in 1..MaxEpoch : Otak!Publish(e)
  PROVE  FloorInv'
<1>t. /\ spent \in [Otak!Days -> 0..MaxSpent] /\ logged \in [Otak!Days -> 0..MaxSpent]
      /\ now \in 0..LastTime
  BY DEF FloorInv, Otak!TypeOK
<1>1. CASE Otak!Time
  <2>1. /\ now' \in 0..LastTime
        /\ UNCHANGED <<spent, logged, lock, artifact, tickStep, fence, snapshot, dayKey, totals, floor>>
    BY <1>1, <1>t, Sizes DEF Otak!Time
  <2> QED
    BY <2>1 DEF FloorInv, Otak!TypeOK, Otak!Snapshots, Otak!Fences, ToldIsSpent, HeldIsSpent,
                Within, MonthOf
<1>2. CASE Otak!Spend
  <2> DEFINE d == Otak!Day(now)
  <2>1. /\ d \in Otak!Days /\ spent' = [spent EXCEPT ![d] = @ + 1]
        /\ logged' \in {logged, [logged EXCEPT ![d] = @ + 1]}
        /\ UNCHANGED <<now, lock, artifact, tickStep, fence, snapshot, dayKey, totals, floor>>
        /\ Otak!SumOver(spent, Otak!Days) < MaxSpent
    BY <1>2, <1>t, DayOfClock DEF Otak!Spend
  <2> HIDE DEF d
  <2>2. spent \in [Otak!Days -> Nat] /\ spent' \in [Otak!Days -> Nat]
    BY <1>t, <2>1
  <2>3. Otak!SumOver(spent', Otak!Days) = Otak!SumOver(spent, Otak!Days) + 1
    <3>1. \A e \in Otak!Days : spent[e] \in Int /\ spent'[e] \in Int
      BY <2>2
    <3>2. \A e \in Otak!Days \ {d} : spent[e] = spent'[e]
      BY <1>t, <2>1
    <3>3. SumFunctionOnSet(spent', Otak!Days)
             = SumFunctionOnSet(spent, Otak!Days) - spent[d] + spent'[d]
      <4> DEFINE v == spent  w == spent'
      <4>1. d \in Otak!Days /\ \A e \in Otak!Days : v[e] \in Int /\ w[e] \in Int
        BY <2>1, <3>1
      <4>2. \A e \in Otak!Days \ {d} : v[e] = w[e]
        BY <3>2
      <4> HIDE DEF v, w
      <4>3. SumFunctionOnSet(w, Otak!Days) = SumFunctionOnSet(v, Otak!Days) - v[d] + w[d]
        <5>1. IsFiniteSet(Otak!Days)
          BY DaysAre
        <5> QED BY <4>1, <4>2, <5>1, SumChanged
      <4> QED BY <4>3 DEF v, w
    <3>4. spent'[d] = spent[d] + 1 /\ spent[d] \in Int
      BY <1>t, <2>1
    <3>5. Otak!SumOver(spent, Otak!Days) \in Nat
      BY <2>2, SpentSums
    <3> QED BY <3>3, <3>4, <3>5, SumIsSum
  <2>4. Otak!SumOver(spent', Otak!Days) <= MaxSpent /\ Otak!SumOver(spent', Otak!Days) \in Nat
    <3>1. Otak!SumOver(spent, Otak!Days) \in Nat
      BY <2>2, SpentSums
    <3> QED BY <2>1, <2>3, <3>1, Sizes
  <2>5. \A e \in Otak!Days : spent'[e] \in 0..MaxSpent
    <3>1. \A e \in Otak!Days : spent'[e] \in Nat /\ spent'[e] <= Otak!SumOver(spent', Otak!Days)
      BY <2>2, SpentSums
    <3> QED BY <2>4, <3>1, Sizes
  <2>6. \A e \in Otak!Days : /\ spent[e] <= spent'[e] /\ spent[e] \in Nat /\ spent'[e] \in Nat
                             /\ logged'[e] \in Nat /\ logged'[e] <= spent'[e]
    <3>1. \A e \in Otak!Days : logged[e] <= spent[e]
      BY DEF FloorInv, ToldIsSpent
    <3>2. \A e \in Otak!Days : spent[e] \in Nat /\ logged[e] \in Nat
      BY <1>t, Sizes
    <3>3. \A e \in Otak!Days : spent'[e] = IF e = d THEN spent[e] + 1 ELSE spent[e]
      BY <1>t, <2>1
    <3>4. \A e \in Otak!Days : logged'[e] \in {logged[e], IF e = d THEN logged[e] + 1 ELSE logged[e]}
      BY <1>t, <2>1
    <3> QED BY <3>1, <3>2, <3>3, <3>4
  <2>7. logged' \in [Otak!Days -> 0..MaxSpent]
    <3>1. \A e \in Otak!Days : logged'[e] \in 0..MaxSpent
      BY <2>5, <2>6, Sizes
    <3>2. logged' = [e \in Otak!Days |-> logged'[e]]
      BY <1>t, <2>1
    <3> QED BY <3>1, <3>2
  <2>8. spent' \in [Otak!Days -> 0..MaxSpent]
    BY <1>t, <2>1, <2>5
  <2>9. Otak!TypeOK'
    BY <2>1, <2>7, <2>8 DEF FloorInv, Otak!TypeOK, Otak!Snapshots, Otak!Fences
  <2>10. ToldIsSpent'
    <3>1. ASSUME NEW e \in 1..MaxEpoch, Otak!Readable(artifact[e])
          PROVE  /\ artifact[e] \in Published
                 /\ \A x \in DOMAIN artifact[e].days : artifact[e].days[x] <= spent'[x]
      <4>1. artifact[e] \in Published /\ \A x \in DOMAIN artifact[e].days : artifact[e].days[x] <= spent[x]
        BY <3>1 DEF FloorInv, ToldIsSpent
      <4>2. \A x \in DOMAIN artifact[e].days : x \in Otak!Days /\ artifact[e].days[x] \in Nat
        BY <4>1, Sizes DEF Published
      <4> QED BY <2>6, <4>1, <4>2
    <3>2. DOMAIN artifact = 1..MaxEpoch
      BY DEF FloorInv, ToldIsSpent
    <3> QED BY <2>1, <2>4, <2>6, <3>1, <3>2 DEF ToldIsSpent, Otak!Readable, Published
  <2>11. \A sums : Within(sums) => Within(sums)'
    BY <2>1, <2>2, <2>6, StillWithin
  <2>12. HeldIsSpent'
    <3>1. /\ Within(snapshot) => Within(snapshot)'
          /\ Within(floor) => Within(floor)'
          /\ Within(totals) => Within(totals)'
      BY <2>1, <2>11 DEF Within, MonthOf
    <3> QED BY <2>1, <3>1 DEF FloorInv, HeldIsSpent
  <2> QED BY <2>9, <2>10, <2>12 DEF FloorInv
<1>3. CASE Otak!Lead
  <2>1. /\ lock' \in Nat /\ lock' <= MaxEpoch
        /\ UNCHANGED <<now, spent, logged, artifact, tickStep, fence, snapshot, dayKey, totals, floor>>
    <3> DEFINE S == {0} \cup {e \in 1..MaxEpoch : e <= lock \/ artifact[e] # None}
    <3>1. S \in SUBSET (0..MaxEpoch) /\ S # {}
      BY Sizes
    <3>2. lock' \in {0, 1 + Otak!Max(S)} /\ lock' <= MaxEpoch
      BY <1>3 DEF Otak!Lead
    <3> HIDE DEF S
    <3>3. Max(S) \in S
      BY <3>1, MaxIs, Sizes
    <3>4. Otak!Max(S) = Max(S)
      BY DEF Otak!Max, Max
    <3>5. Otak!Max(S) \in 0..MaxEpoch
      BY <3>1, <3>3, <3>4
    <3> QED BY <1>3, <3>2, <3>5, Sizes DEF Otak!Lead
  <2>2. lock' \in 0..MaxEpoch
    BY <2>1, Sizes
  <2> QED
    BY <2>1, <2>2 DEF FloorInv, Otak!TypeOK, Otak!Snapshots, Otak!Fences, ToldIsSpent, HeldIsSpent,
                Within, MonthOf
<1>4. ASSUME NEW e \in 1..MaxEpoch, Otak!Publish(e) PROVE FloorInv'
  <2>1. UNCHANGED <<now, spent, logged, lock, tickStep, fence, snapshot, dayKey, totals, floor>>
    BY <1>4 DEF Otak!Publish
  <2>2. PICK raw : /\ artifact' = [artifact EXCEPT ![e] = raw]
                   /\ Otak!Readable(raw) =>
                         raw \in Published /\ \A d \in DOMAIN raw.days : raw.days[d] <= spent[d]
    <3>1. CASE artifact' = [artifact EXCEPT ![e] = Otak!Malformed]
      BY <3>1 DEF Otak!Readable
    <3>2. ASSUME NEW S \in SUBSET Otak!MonthTo(Otak!Day(now)), NEW a \in BOOLEAN,
                 artifact' = [artifact EXCEPT ![e] =
                    [updated |-> now, available |-> a, days |-> [d \in S |-> spent[d]]]]
          PROVE  \E raw : /\ artifact' = [artifact EXCEPT ![e] = raw]
                          /\ raw \in Published
                          /\ \A d \in DOMAIN raw.days : raw.days[d] <= spent[d]
      <4>1. S \in SUBSET Otak!Days
        BY <1>t, DayOfClock, DaysAre
      <4>2. \A d \in S : spent[d] \in 0..MaxSpent /\ spent[d] <= spent[d]
        BY <1>t, <4>1, Sizes
      <4> DEFINE days == [d \in S |-> spent[d]]
      <4>3. /\ days \in [S -> 0..MaxSpent] /\ DOMAIN days = S
            /\ \A d \in S : days[d] <= spent[d]
        BY <4>2
      <4>4. days \in UNION {[R -> 0..MaxSpent] : R \in SUBSET Otak!Days}
        BY <4>1, <4>3
      <4> DEFINE raw == [updated |-> now, available |-> a, days |-> days]
      <4>5. raw.days = days
        OBVIOUS
      <4> HIDE DEF days
      <4>6. raw \in Published
        BY <1>t, <4>4 DEF Published
      <4> QED BY <3>2, <4>3, <4>5, <4>6 DEF days
    <3> QED BY <1>4, <3>1, <3>2 DEF Otak!Publish
  <2>3. /\ DOMAIN artifact = 1..MaxEpoch
        /\ \A x \in 1..MaxEpoch : artifact'[x] = IF x = e THEN raw ELSE artifact[x]
        /\ DOMAIN artifact' = 1..MaxEpoch
    BY <2>2 DEF FloorInv, ToldIsSpent
  <2>4. ToldIsSpent'
    BY <2>1, <2>2, <2>3 DEF FloorInv, ToldIsSpent, Published, Otak!Readable
  <2>5. Otak!TypeOK' /\ HeldIsSpent'
    BY <2>1 DEF FloorInv, Otak!TypeOK, Otak!Snapshots, Otak!Fences, HeldIsSpent, Within, MonthOf
  <2> QED BY <2>4, <2>5 DEF FloorInv
<1> QED
  BY <1>1, <1>2, <1>3, <1>4

\* The snapshot's sums for the day of the tick.
LEMMA ParsedWithin ==
  ASSUME FloorInv, dayKey # 0, NEW e \in 1..MaxEpoch, Otak!Readable(artifact[e]),
         Otak!InMonth(artifact[e])
  PROVE  Otak!Parsed(artifact[e]) \in Otak!Snapshots /\ Within(Otak!Parsed(artifact[e]))
<1> DEFINE raw == artifact[e]  S == DOMAIN raw.days  sums == Otak!Parsed(raw)
<1>1. /\ raw \in Published /\ \A d \in S : raw.days[d] <= spent[d]
      /\ dayKey \in Otak!Days /\ spent \in [Otak!Days -> 0..MaxSpent]
  BY DEF FloorInv, ToldIsSpent, Otak!TypeOK
<1>2. S \subseteq MonthOf(dayKey) /\ MonthOf(dayKey) \subseteq Otak!Days
  BY <1>1, DaysAre DEF Otak!InMonth
<1>3. /\ \A d \in S : raw.days[d] \in 0..MaxSpent /\ raw.days[d] \in Nat
      /\ \A d \in Otak!Days : spent[d] \in Nat /\ spent[d] \in 0..MaxSpent
      /\ raw.updated \in 0..LastTime /\ raw.available \in BOOLEAN
  BY <1>1, Sizes DEF Published
<1> HIDE DEF raw
<1>4. /\ Otak!SumOver(raw.days, S) <= Otak!SumOver(spent, MonthOf(dayKey))
      /\ Otak!SumOver(raw.days, S) \in Nat
      /\ Otak!SumOver(spent, MonthOf(dayKey)) \in Nat
      /\ Otak!SumOver(spent, MonthOf(dayKey)) <= Otak!SumOver(spent, Otak!Days)
      /\ Otak!SumOver(spent, Otak!Days) \in Nat
  <2>1. /\ Otak!SumOver(raw.days, S) <= Otak!SumOver(spent, MonthOf(dayKey))
        /\ Otak!SumOver(spent, MonthOf(dayKey)) <= Otak!SumOver(spent, Otak!Days)
    <3>1. \A d \in Otak!Days : spent[d] <= spent[d]
      BY <1>3
    <3> QED BY <1>1, <1>2, <1>3, <3>1, LessSpent
  <2>2. Otak!SumOver(raw.days, S) \in Nat
    BY <1>2, <1>3, DaysAre, FS_Subset, SumIs, SumIsSum
  <2>3. spent \in [Otak!Days -> Nat]
    BY <1>1, <1>3
  <2> QED BY <1>2, <2>1, <2>2, <2>3, SpentSums
<1>5. Otak!SumOver(spent, Otak!Days) <= MaxSpent
  BY DEF FloorInv, ToldIsSpent
<1>6. sums = [updated |-> raw.updated, available |-> raw.available,
              today |-> IF raw.available /\ dayKey \in S THEN raw.days[dayKey] ELSE 0,
              month |-> IF raw.available THEN Otak!SumOver(raw.days, S) ELSE 0]
  BY DEF Otak!Parsed
<1> HIDE DEF S, sums
<1>7. sums.today \in 0..MaxSpent /\ sums.today \in Nat /\ sums.today <= spent[dayKey]
  BY <1>1, <1>3, <1>6, Sizes
<1>8. /\ sums.month \in 0..MaxSpent /\ sums.month \in Nat
      /\ sums.month <= Otak!SumOver(spent, MonthOf(dayKey))
  BY <1>4, <1>5, <1>6, Sizes
<1>9. sums \in Otak!Snapshots
  BY <1>3, <1>6, <1>7, <1>8 DEF Otak!Snapshots
<1> QED BY <1>7, <1>8, <1>9 DEF Within, sums, raw

\* The collector: a tick, what it reads, and a restart.
LEMMA TickKeepsFloor ==
  ASSUME FloorInv, \/ Otak!BeginTick \/ Otak!ReadLock \/ Otak!ReadArtifact \/ Otak!Reconcile
                   \/ Otak!Restart
  PROVE  FloorInv'
<1>t. /\ spent \in [Otak!Days -> 0..MaxSpent] /\ logged \in [Otak!Days -> 0..MaxSpent]
      /\ now \in 0..LastTime /\ dayKey \in {0} \cup Otak!Days
      /\ Otak!world' = Otak!world
  BY DEF FloorInv, Otak!TypeOK, Otak!BeginTick, Otak!ReadLock, Otak!ReadArtifact,
         Otak!Reconcile, Otak!Restart
<1>u. UNCHANGED <<now, spent, logged, lock, artifact>>
  BY <1>t DEF Otak!world
<1>s. ToldIsSpent'
  BY <1>u DEF FloorInv, ToldIsSpent, Published, Otak!Readable
<1>w. ASSUME UNCHANGED dayKey PROVE \A sums : Within(sums) => Within(sums)'
  BY <1>u, <1>w DEF Within, MonthOf
<1>1. CASE Otak!BeginTick
  <2>1. /\ dayKey' = Otak!Day(now) /\ dayKey' \in Otak!Days /\ dayKey' # 0
        /\ floor' = IF dayKey \in {0, dayKey'} THEN floor ELSE None
        /\ totals' = [today |-> logged[dayKey'],
                      month |-> Otak!SumOver(logged, Otak!MonthTo(dayKey'))]
        /\ tickStep' \in {"idle", "lock"} /\ UNCHANGED <<fence, snapshot>>
    BY <1>1, <1>t, DayOfClock, DaysAre DEF Otak!BeginTick, Otak!Reset
  <2>2. Within(totals)'
    <3>1. /\ \A d \in Otak!Days : /\ logged[d] \in Nat /\ spent[d] \in Nat
                                  /\ logged[d] <= spent[d]
      BY <1>t, Sizes DEF FloorInv, ToldIsSpent
    <3>2. Otak!SumOver(logged, Otak!MonthTo(dayKey')) <= Otak!SumOver(spent, MonthOf(dayKey'))
      BY <2>1, <3>1, DaysAre, LessSpent
    <3>3. Otak!SumOver(logged, Otak!MonthTo(dayKey')) \in Nat
      <4>1. logged \in [Otak!Days -> Nat]
        BY <1>t, <3>1
      <4>2. Otak!MonthTo(dayKey') \in SUBSET Otak!Days
        BY <2>1, DaysAre
      <4> QED BY <4>1, <4>2, SpentSums
    <3>4. /\ totals'.today = logged[dayKey']
          /\ totals'.month = Otak!SumOver(logged, Otak!MonthTo(dayKey'))
      BY <2>1
    <3> QED BY <1>u, <2>1, <3>1, <3>2, <3>3, <3>4 DEF Within, MonthOf
  <2>3. floor' # None => Within(floor)'
    <3> SUFFICES ASSUME floor' # None PROVE Within(floor)'
      OBVIOUS
    <3>1. floor' = floor /\ dayKey \in {0, dayKey'}
      BY <2>1
    <3>2. Within(floor)
      BY <3>1 DEF FloorInv, HeldIsSpent
    <3>3. dayKey' = dayKey
      BY <3>1, <3>2 DEF Within
    <3> QED BY <1>u, <3>1, <3>2, <3>3 DEF Within, MonthOf
  <2>4. Otak!TypeOK'
    BY <1>u, <2>1 DEF FloorInv, Otak!TypeOK, Otak!Snapshots, Otak!Fences
  <2> QED BY <1>s, <2>1, <2>2, <2>3, <2>4 DEF FloorInv, HeldIsSpent
<1>2. CASE Otak!ReadLock
  <2>1. /\ tickStep = "lock" /\ fence' = lock
        /\ tickStep' = IF lock = 0 THEN "idle" ELSE "artifact"
        /\ UNCHANGED <<snapshot, dayKey, totals, floor>>
    BY <1>2 DEF Otak!ReadLock
  <2>2. lock # 0 => fence' \in 1..MaxEpoch
    BY <2>1, Sizes DEF FloorInv, Otak!TypeOK, Otak!Fences
  <2>3. Otak!TypeOK'
    BY <1>u, <2>1 DEF FloorInv, Otak!TypeOK, Otak!Snapshots, Otak!Fences
  <2>4. HeldIsSpent'
    BY <1>u, <2>1, <2>2 DEF FloorInv, HeldIsSpent, Within, MonthOf
  <2> QED BY <1>s, <2>3, <2>4 DEF FloorInv
<1>3. CASE Otak!ReadArtifact
  <2> DEFINE raw == artifact[fence]
             usable == Otak!Readable(raw) /\ (Otak!Readable(raw) => Otak!InMonth(raw))
  <2>1. /\ tickStep = "artifact"
        /\ snapshot' = IF usable THEN Otak!Parsed(raw) ELSE None
        /\ tickStep' = IF usable THEN "fence" ELSE "idle"
        /\ fence' = IF usable THEN fence ELSE 0
        /\ UNCHANGED <<dayKey, totals, floor>>
    BY <1>3 DEF Otak!ReadArtifact
  <2>2. fence \in 1..MaxEpoch /\ dayKey # 0
    BY <2>1 DEF FloorInv, HeldIsSpent
  <2>3. usable => Otak!Parsed(raw) \in Otak!Snapshots /\ Within(Otak!Parsed(raw))
    BY <2>2, ParsedWithin
  <2> HIDE DEF usable
  <2>4. /\ snapshot' \in Otak!Snapshots \cup {None}
        /\ usable => snapshot' \in Otak!Snapshots /\ Within(snapshot)'
    <3>1. usable => /\ snapshot' \in Otak!Snapshots
                  /\ Within(Otak!Parsed(raw)) /\ snapshot' = Otak!Parsed(raw)
      BY <2>1, <2>3
    <3> QED BY <1>u, <2>1, <3>1 DEF Within, MonthOf
  <2>6. Otak!TypeOK'
    <3>1. fence' \in 0..MaxEpoch
      BY <2>1, <2>2, Sizes
    <3> QED
      BY <1>u, <2>1, <2>4, <3>1 DEF FloorInv, Otak!TypeOK, Otak!Snapshots, Otak!Fences
  <2>7. HeldIsSpent'
    BY <1>u, <1>w, <2>1, <2>2, <2>4 DEF FloorInv, HeldIsSpent, Within, MonthOf
  <2> QED BY <1>s, <2>6, <2>7 DEF FloorInv
<1>4. CASE Otak!Reconcile
  <2>1. /\ tickStep = "fence" /\ tickStep' = "idle" /\ snapshot' = None /\ fence' = 0
        /\ floor' \in {snapshot, floor} /\ UNCHANGED <<dayKey, totals>>
    BY <1>4 DEF Otak!Reconcile
  <2>2. Otak!TypeOK'
    BY <1>u, <2>1, Sizes DEF FloorInv, Otak!TypeOK, Otak!Snapshots, Otak!Fences
  <2>3. HeldIsSpent'
    BY <1>u, <2>1 DEF FloorInv, HeldIsSpent, Within, MonthOf
  <2> QED BY <1>s, <2>2, <2>3 DEF FloorInv
<1>5. CASE Otak!Restart
  <2>1. /\ tickStep' = "idle" /\ fence' = 0 /\ snapshot' = None /\ dayKey' = 0 /\ floor' = None
    BY <1>5 DEF Otak!Restart
  <2> QED
    BY <1>u, <1>s, <2>1, Sizes DEF FloorInv, Otak!TypeOK, Otak!Snapshots, Otak!Fences, HeldIsSpent
<1> QED BY <1>1, <1>2, <1>3, <1>4, <1>5

\* Every step keeps the invariant.
LEMMA FloorPreserved == FloorInv /\ [Otak!Next]_floorVars => FloorInv'
<1>1. ASSUME FloorInv, UNCHANGED floorVars PROVE FloorInv'
  BY <1>1 DEF floorVars, FloorInv, Otak!TypeOK, Otak!Snapshots, Otak!Fences, ToldIsSpent,
     HeldIsSpent, Within, MonthOf, Published, Otak!Readable
<1> QED BY <1>1, WorldKeepsFloor, TickKeepsFloor DEF Otak!Next

\* The cost shown of a day or a month is at most what it cost, whatever leaders
\* publish, replace and leave behind while the collector reads.
THEOREM ShownStaysSpent == FilesSpec => []ShownIsSpent
<1>1. FloorInv => ShownIsSpent
  <2> SUFFICES ASSUME FloorInv, dayKey # 0 PROVE ShownIsSpent
    BY DEF ShownIsSpent, Otak!ShownIsSpent, FloorInv
  <2>1. Within(totals) /\ (floor # None => Within(floor))
    BY DEF FloorInv, HeldIsSpent
  <2>2. dayKey \in Otak!Days /\ spent \in [Otak!Days -> Nat]
    BY Sizes DEF FloorInv, Otak!TypeOK
  <2>3. spent[dayKey] \in Nat /\ Otak!SumOver(spent, MonthOf(dayKey)) \in Nat
    BY <2>2, DaysAre, SpentSums
  <2>4. \A part, local, most \in Nat :
           part <= most /\ local <= most =>
             Otak!WithFloor(local, part) <= most /\ Otak!WithFloor(local, part) >= local
    BY DEF Otak!WithFloor
  <2>5. /\ (IF floor = None THEN 0 ELSE floor.today) \in Nat
        /\ (IF floor = None THEN 0 ELSE floor.today) <= spent[dayKey]
        /\ (IF floor = None THEN 0 ELSE floor.month) \in Nat
        /\ (IF floor = None THEN 0 ELSE floor.month) <= Otak!SumOver(spent, MonthOf(dayKey))
    BY <2>1, <2>3 DEF Within
  <2>6. /\ Otak!Shown.today <= spent[dayKey] /\ Otak!Shown.today >= totals.today
        /\ Otak!Shown.month <= Otak!SumOver(spent, MonthOf(dayKey))
        /\ Otak!Shown.month >= totals.month
    BY <2>1, <2>3, <2>4, <2>5 DEF Within, Otak!Shown
  <2> QED BY <2>6 DEF ShownIsSpent, Otak!ShownIsSpent, MonthOf, FloorInv
<1>2. FloorInv /\ [FilesNext]_filesVars => FloorInv'
  BY OneComponentSteps, FloorPreserved
<1> QED BY <1>1, <1>2, FloorInitial, PTL DEF FilesSpec

-----------------------------------------------------------------------------
(* UsageStore, which MCFiles extends: for any number of retained           *)
(* generations, and for writes, deletes and the process failing between    *)
(* any two steps.  The theorems are about the store alone.                 *)

\* A generation is chosen before its blob is published.
Targeted == pc = "publish" => target \in Generations
TInv == TypeOK /\ Targeted

LEMMA TypesInitial == Init => TInv
<1> SUFFICES ASSUME Init PROVE TInv
  OBVIOUS
<1>1. blobs \in [Generations -> Nat \cup {Damaged, None}]
  BY DEF Init
<1> QED
  BY <1>1 DEF Init, TypeOK, TInv, Targeted

\* What a load restores is a generation with a good blob, or nothing.
LEMMA RestoresGood ==
  ASSUME NEW g \in 0..MaxGeneration, Restores(g), g # 0
  PROVE  g \in Generations /\ blobs[g] \in Nat
<1>1. PICK requested \in 0..MaxGeneration :
         IF requested \in Generations /\ Decodable(requested)
            THEN g = requested
            ELSE IsHighest(g, PriorStates(requested))
  BY DEF Restores
<1>2. CASE requested \in Generations /\ Decodable(requested)
  BY <1>1, <1>2 DEF Decodable
<1>3. CASE ~(requested \in Generations /\ Decodable(requested))
  <2>1. g \in PriorStates(requested)
    BY <1>1, <1>3 DEF IsHighest
  <2> QED
    BY <2>1 DEF PriorStates, Decodable
<1> QED
  BY <1>2, <1>3

LEMMA TypesPreserved == TInv /\ [Next]_vars => TInv'
<1> SUFFICES ASSUME TInv, [Next]_vars PROVE TInv'
  OBVIOUS
<1> USE DEF TInv, TypeOK, Targeted
<1>1. CASE WriteBlob
  <2>1. target' \in Generations /\ stamp + 1 \in Nat
    BY <1>1 DEF WriteBlob
  <2>2. blobs' \in [Generations -> Nat \cup {Damaged, None}]
    BY <1>1, <2>1 DEF WriteBlob
  <2> QED
    BY <1>1, <2>1, <2>2 DEF WriteBlob, Generations
<1>2. CASE WriteCurrent
  BY <1>2 DEF WriteCurrent
<1>3. CASE WriteCurrentFails
  BY <1>3 DEF WriteCurrentFails
<1>4. CASE Cleanup
  BY <1>4 DEF Cleanup
<1>5. CASE Crash
  BY <1>5 DEF Crash
<1>6. CASE Load
  <2>1. PICK g \in 0..MaxGeneration :
           /\ Restores(g)
           /\ loaded' = IF g = 0 THEN 0 ELSE blobs[g]
           /\ target' = g
           /\ pc' = IF g = 0 THEN "idle" ELSE "cleanup"
    BY <1>6 DEF Load
  <2>2. loaded' \in Nat
    BY <2>1, RestoresGood
  <2> QED
    BY <1>6, <2>1, <2>2 DEF Load
<1>7. CASE Damage
  BY <1>7 DEF Damage
<1>8. CASE UNCHANGED vars
  BY <1>8 DEF vars
<1> QED
  BY <1>1, <1>2, <1>3, <1>4, <1>5, <1>6, <1>7, <1>8 DEF Next

\* Every variable keeps its type, whatever is damaged and however reads fail.
THEOREM TypeCorrect == Spec => []TypeOK
<1>1. TInv => TypeOK
  BY DEF TInv
<1> QED
  BY <1>1, TypesInitial, TypesPreserved, PTL DEF Spec

-----------------------------------------------------------------------------
(* With readable directories a persist goes past everything that exists.   *)

LEMMA TargetIsNew ==
  ASSUME TypeOK, WriteBlob, ReadsFail = FALSE
  PROVE  /\ blobs[target'] = None
         /\ current # None => target' # current
<1>1. PICK highest \in 0..MaxGeneration :
         IsHighestBlob(highest) /\ target' = NextGeneration(CurrentOr0, highest)
  BY DEF WriteBlob, Seen
<1>2. highest < target' /\ CurrentOr0 < target'
  BY <1>1 DEF TypeOK, CurrentOr0, NextGeneration, Generations
<1>3. target' \in Generations
  BY DEF WriteBlob
<1>4. \A g \in Generations : blobs[g] # None => g <= highest
  BY <1>1 DEF IsHighestBlob, IsHighest, Generations
<1> QED
  BY <1>2, <1>3, <1>4 DEF TypeOK, CurrentOr0, Generations

\* No good blob is ever replaced by another snapshot, whatever crashes, failed
\* writes and damage came before.
THEOREM GenerationsNeverReused ==
  ASSUME ReadsFail = FALSE
  PROVE  Spec => NeverReused
<1>1. ASSUME TInv, Next, NEW g \in Generations, blobs[g] \in Nat, blobs'[g] \in Nat
      PROVE  blobs'[g] = blobs[g]
  <2> USE DEF TInv, TypeOK
  <2>1. CASE WriteBlob
    <3>1. blobs[target'] = None
      BY <1>1, <2>1, TargetIsNew
    <3>2. g # target'
      BY <1>1, <3>1, StoreAssumption
    <3> QED
      BY <1>1, <2>1, <3>2 DEF WriteBlob
  <2>2. CASE Cleanup
    BY <1>1, <2>2, StoreAssumption DEF Cleanup
  <2>3. CASE Damage
    BY <1>1, <2>3, StoreAssumption DEF Damage
  <2>4. CASE WriteCurrent \/ WriteCurrentFails \/ Crash \/ Load
    BY <2>4 DEF WriteCurrent, WriteCurrentFails, Crash, Load
  <2> QED
    BY <1>1, <2>1, <2>2, <2>3, <2>4 DEF Next
<1>2. TInv /\ [Next]_vars =>
        [\A g \in Generations :
            blobs[g] \in Nat /\ blobs'[g] \in Nat => blobs'[g] = blobs[g]]_vars
  BY <1>1
<1> QED
  BY <1>2, TypesInitial, TypesPreserved, PTL DEF Spec, NeverReused

-----------------------------------------------------------------------------
(* A load restores the snapshot that was acknowledged last, but for one    *)
(* snapshot per damaged file.                                              *)

\* A generation that a write, a load or a cleanup may still go by.
Live(g) ==
    blobs[g] # None \/ current = g \/ (pc \in {"publish", "cleanup"} /\ target = g)

\* Stamps from low on that no good blob has.
Missing(low) == {s \in low..stamp : \A g \in Generations : blobs[g] # s}

\* w is the stamp each generation was written with last.  Stamps grow at least
\* as fast as generations; blobs below low may have been cleaned up; of those
\* from low on each that is missing was damaged.
Written(w, low) ==
    /\ w \in [Generations -> Nat] /\ low \in Nat \ {0}
    /\ \A g \in Generations : blobs[g] \in Nat => blobs[g] = w[g]
    /\ \A h \in Generations : Live(h) =>
          w[h] <= stamp /\ h <= w[h] /\ \A g \in Generations : g < h => w[g] + (h - g) <= w[h]
    /\ current # None => w[current] = acked
    /\ pc = "publish" => w[target] = stamp
    /\ low = 1 \/ (low + Prior <= stamp /\ (current # None => low + Prior <= acked))
    /\ Cardinality(Missing(low)) <= damage

Durable ==
    /\ TInv /\ acked <= stamp /\ damage <= MaxDamage
    /\ pc = "cleanup" => target \in Generations /\ (current # None => target <= current)
    /\ \E w, low : Written(w, low)

LEMMA MissingIs ==
  ASSUME TypeOK, NEW low \in Nat
  PROVE  IsFiniteSet(Missing(low)) /\ Cardinality(Missing(low)) \in Nat
<1>1. IsFiniteSet(low..stamp)
  BY FS_Interval DEF TypeOK
<1>2. Missing(low) \subseteq low..stamp
  BY DEF Missing
<1> QED BY <1>1, <1>2, FS_Subset, FS_CardinalityType

\* Of the stamps from low on, as many as there are damages and one more, one is
\* in a good blob.
LEMMA OneIsGood ==
  ASSUME TypeOK, NEW low \in Nat, Cardinality(Missing(low)) <= damage,
         NEW top \in Nat, top <= stamp, low + damage <= top
  PROVE  \E g \in Generations : blobs[g] \in Nat /\ blobs[g] <= top /\ top <= blobs[g] + damage
<1> SUFFICES ASSUME \A g \in Generations :
                       blobs[g] \in Nat => ~(blobs[g] <= top /\ top <= blobs[g] + damage)
             PROVE  FALSE
  OBVIOUS
<1> DEFINE I == (top - damage)..top
<1>1. damage \in Nat /\ stamp \in Nat /\ top - damage \in Nat
  BY DEF TypeOK
<1>2. I \subseteq Missing(low)
  <2> SUFFICES ASSUME NEW s \in I, NEW g \in Generations, blobs[g] = s PROVE FALSE
    BY <1>1 DEF Missing
  <2> QED BY <1>1
<1>3. IsFiniteSet(I) /\ Cardinality(I) = damage + 1
  <2>1. Cardinality(I) = IF top - damage > top THEN 0 ELSE top - (top - damage) + 1
    BY <1>1, FS_Interval
  <2>2. IsFiniteSet(I)
    BY <1>1, FS_Interval
  <2> HIDE DEF I
  <2> QED BY <1>1, <2>1, <2>2
<1>4. Cardinality(I) <= Cardinality(Missing(low))
  BY <1>2, MissingIs, FS_Subset
<1> HIDE DEF I
<1> QED BY <1>1, <1>3, <1>4, MissingIs

\* So a load goes back at most one snapshot for each damaged file.
LEMMA RestoresRecent ==
  ASSUME MaxDamage <= Prior, Durable, NEW g \in 0..MaxGeneration, Restores(g)
  PROVE  acked <= (IF g = 0 THEN 0 ELSE blobs[g]) + damage
<1> PICK w, low : Written(w, low)
  BY DEF Durable
<1>t. /\ TypeOK /\ MaxGeneration \in Nat /\ Prior \in Nat /\ acked \in Nat /\ stamp \in Nat
      /\ damage \in Nat /\ acked <= stamp /\ damage <= Prior
  BY StoreAssumption DEF Durable, TInv, TypeOK
<1>w. /\ w \in [Generations -> Nat] /\ low \in Nat \ {0}
      /\ \A x \in Generations : blobs[x] \in Nat => blobs[x] = w[x]
      /\ \A h \in Generations : Live(h) =>
            w[h] <= stamp /\ h <= w[h] /\ \A x \in Generations : x < h => w[x] + (h - x) <= w[h]
      /\ current # None => w[current] = acked
      /\ low = 1 \/ (low + Prior <= stamp /\ (current # None => low + Prior <= acked))
      /\ Cardinality(Missing(low)) <= damage
  BY DEF Written
<1>1. PICK requested \in 0..MaxGeneration :
         /\ IF current = None THEN IsHighestBlob(requested) ELSE requested = current
         /\ IF requested \in Generations /\ Decodable(requested)
               THEN g = requested
               ELSE IsHighest(g, PriorStates(requested))
  BY DEF Restores
<1> DEFINE top == IF current = None THEN stamp ELSE acked
<1>2. top \in Nat /\ top <= stamp /\ acked <= top /\ (low = 1 \/ low + Prior <= top)
  BY <1>t, <1>w
<1>3. CASE top <= damage
  <2>1. g # 0 => blobs[g] \in Nat
    BY RestoresGood
  <2> HIDE DEF top
  <2>2. acked <= damage
    BY <1>2, <1>3, <1>t
  <2> QED BY <1>t, <2>1, <2>2
<1>4. CASE ~(top <= damage)
  <2>1. low + damage <= top
    <3> HIDE DEF top
    <3> QED BY <1>t, <1>w, <1>2, <1>4
  <2> HIDE DEF top
  <2>2. PICK x \in Generations : blobs[x] \in Nat /\ blobs[x] <= top /\ top <= blobs[x] + damage
    BY <1>t, <1>w, <1>2, <2>1, OneIsGood
  <2>3. blobs[x] = w[x] /\ blobs[x] # None /\ x \in 1..MaxGeneration
    BY <1>w, <2>2, StoreAssumption DEF Generations
  <2>4. /\ requested \in Generations /\ Live(requested) /\ w[requested] <= top
        /\ current # None => w[requested] = top
    <3>1. CASE current = None
      <4>1. IsHighestBlob(requested) /\ top = stamp
        BY <1>1, <3>1 DEF top
      <4>2. requested \in {y \in Generations : blobs[y] # None}
        BY <2>3, <4>1 DEF IsHighestBlob, IsHighest
      <4> QED BY <1>w, <3>1, <4>1, <4>2 DEF Live
    <3>2. CASE current # None
      <4>1. requested = current /\ top = acked /\ current \in Generations
        BY <1>1, <1>t, <3>2 DEF top, TypeOK
      <4>2. Live(requested) /\ w[requested] = top
        BY <1>w, <3>2, <4>1 DEF Live
      <4>3. w[requested] <= top
        BY <1>2, <4>2
      <4> QED BY <4>1, <4>2, <4>3
    <3> QED BY <3>1, <3>2
  <2>5. x <= requested
    <3>1. CASE current = None
      BY <1>1, <2>2, <2>3, <3>1 DEF IsHighestBlob, IsHighest
    <3>2. CASE current # None
      <4> SUFFICES ASSUME requested < x PROVE FALSE
        BY <2>3
      <4>1. Live(x)
        BY <2>3 DEF Live
      <4>2. w[requested] + (x - requested) <= w[x]
        BY <1>w, <2>4, <4>1
      <4> QED BY <1>w, <1>2, <2>2, <2>3, <2>4, <3>2, <4>2
    <3> QED BY <3>1, <3>2
  <2>6. requested <= x + Prior
    <3>1. x < requested => w[x] + (requested - x) <= w[requested]
      BY <1>w, <2>4
    <3> QED BY <1>t, <1>w, <1>2, <2>2, <2>3, <2>4, <2>5, <3>1
  <2>7. g \in Generations /\ blobs[g] \in Nat /\ x <= g
    <3>1. CASE requested \in Generations /\ Decodable(requested)
      BY <1>1, <2>5, <3>1 DEF Decodable
    <3>2. CASE ~(requested \in Generations /\ Decodable(requested))
      <4>1. x # requested
        BY <2>2, <3>2 DEF Decodable
      <4>2. x \in PriorStates(requested)
        BY <2>2, <2>3, <2>4, <2>5, <2>6, <4>1 DEF PriorStates, Decodable, Generations
      <4>3. g \in PriorStates(requested) /\ x <= g
        BY <1>1, <3>2, <4>2 DEF IsHighest
      <4> QED BY <4>3 DEF PriorStates, Decodable
    <3> QED BY <3>1, <3>2
  <2>8. blobs[g] = w[g] /\ Live(g) /\ g # 0 /\ g \in 1..MaxGeneration
    BY <1>w, <2>7, StoreAssumption DEF Live, Generations
  <2>9. w[x] <= w[g]
    <3>1. x < g => w[x] + (g - x) <= w[g]
      BY <1>w, <2>7, <2>8
    <3> QED BY <1>w, <2>3, <2>7, <2>8, <3>1
  <2>10. acked <= blobs[g] + damage
    BY <1>t, <1>w, <1>2, <2>2, <2>3, <2>7, <2>8, <2>9
  <2> QED BY <2>8, <2>10
<1> QED BY <1>3, <1>4

LEMMA DurableInitial == Init => Durable
<1> SUFFICES ASSUME Init PROVE Durable
  OBVIOUS
<1> DEFINE w == [g \in Generations |-> 0]
<1>1. TInv
  BY TypesInitial
<1>2. Missing(1) = {}
  BY DEF Missing, Init
<1>3. Cardinality(Missing(1)) = 0
  BY <1>2, FS_EmptySet
<1>4. \A h \in Generations : ~Live(h)
  BY StoreAssumption DEF Live, Init, Generations
<1>5. \A g \in Generations : blobs[g] \notin Nat
  BY StoreAssumption DEF Init
<1>6. Written(w, 1)
  BY <1>3, <1>4, <1>5, StoreAssumption DEF Written, Init
<1> QED BY <1>1, <1>6, StoreAssumption DEF Durable, Init

\* A new generation is past every live one.
LEMMA NewIsHighest ==
  ASSUME TypeOK, WriteBlob, ReadsFail = FALSE, NEW h \in Generations, Live(h)
  PROVE  h < target'
<1>1. PICK highest \in 0..MaxGeneration :
         IsHighestBlob(highest) /\ target' = NextGeneration(CurrentOr0, highest)
  BY DEF WriteBlob, Seen
<1>2. highest < target' /\ CurrentOr0 < target' /\ CurrentOr0 \in Nat
  BY <1>1, StoreAssumption DEF TypeOK, CurrentOr0, NextGeneration, Generations
<1>3. blobs[h] # None => h <= highest
  BY <1>1 DEF IsHighestBlob, IsHighest
<1>4. current = h => CurrentOr0 = h
  BY StoreAssumption DEF CurrentOr0, Generations
<1>5. blobs[h] # None \/ current = h
  BY DEF Live, WriteBlob
<1> QED BY <1>1, <1>2, <1>3, <1>4, <1>5, StoreAssumption DEF NextGeneration, Generations

\* Blobs do not get lost when no stamp is newly missing.
LEMMA MissingFewer ==
  ASSUME NEW low \in Nat, NEW low2 \in Nat, TypeOK, TypeOK',
         Missing(low2)' \subseteq Missing(low), Cardinality(Missing(low)) <= damage
  PROVE  Cardinality(Missing(low2)') <= damage
<1>1. IsFiniteSet(Missing(low)) /\ Cardinality(Missing(low)) \in Nat
  BY MissingIs
<1>2. IsFiniteSet(Missing(low2)') /\ Cardinality(Missing(low2)') <= Cardinality(Missing(low))
  BY <1>1, FS_Subset
<1>3. Cardinality(Missing(low2)') \in Nat
  BY <1>2, FS_CardinalityType
<1> QED BY <1>1, <1>2, <1>3 DEF TypeOK

LEMMA DurablePreserved ==
  ASSUME ReadsFail = FALSE
  PROVE  Durable /\ [Next]_vars => Durable'
<1> SUFFICES ASSUME Durable, [Next]_vars PROVE Durable'
  OBVIOUS
<1>t. TInv /\ TInv' /\ TypeOK /\ TypeOK'
  BY TypesPreserved DEF Durable, TInv
<1>d. /\ acked \in Nat /\ stamp \in Nat /\ damage \in Nat /\ Prior \in Nat /\ MaxGeneration \in Nat
      /\ Generations = 1..MaxGeneration /\ None \notin Nat /\ Damaged \notin Nat
      /\ blobs \in [Generations -> Nat \cup {Damaged, None}] /\ current \in Generations \cup {None}
      /\ acked <= stamp /\ damage <= MaxDamage
      /\ pc = "publish" => target \in Generations
      /\ pc = "cleanup" => target \in Generations /\ (current # None => target <= current)
  BY <1>t, StoreAssumption DEF Durable, TInv, TypeOK, Targeted, Generations
<1> PICK w, low : Written(w, low)
  BY DEF Durable
<1>w. /\ w \in [Generations -> Nat] /\ low \in Nat \ {0} /\ low \in Nat
      /\ \A x \in Generations : blobs[x] \in Nat => blobs[x] = w[x]
      /\ \A h \in Generations : Live(h) =>
            w[h] <= stamp /\ h <= w[h] /\ \A x \in Generations : x < h => w[x] + (h - x) <= w[h]
      /\ current # None => w[current] = acked
      /\ pc = "publish" => w[target] = stamp
      /\ low = 1 \/ (low + Prior <= stamp /\ (current # None => low + Prior <= acked))
      /\ Cardinality(Missing(low)) <= damage
  BY DEF Written
<1>1. CASE WriteBlob
  <2> DEFINE t == target'  w2 == [w EXCEPT ![t] = stamp + 1]
  <2>1. /\ t \in Generations /\ blobs' = [blobs EXCEPT ![t] = stamp + 1] /\ stamp' = stamp + 1
        /\ pc' = "publish" /\ pc = "idle"
        /\ current' = current /\ acked' = acked /\ damage' = damage
    BY <1>1 DEF WriteBlob
  <2>2. blobs[t] = None /\ (current # None => t # current)
    BY <1>1, <1>t, TargetIsNew
  <2>3. \A h \in Generations : Live(h) => h < t
    BY <1>1, <1>t, NewIsHighest
  <2> HIDE DEF t
  <2>h. /\ t \in Nat /\ 1 <= t /\ w2 \in [Generations -> Nat] /\ w2[t] = stamp + 1
        /\ \A x \in Generations : x # t => w2[x] = w[x]
    BY <1>d, <1>w, <2>1
  <2>e. t = 1 \/ (t - 1 \in Generations /\ Live(t - 1))
    <3>1. PICK highest \in 0..MaxGeneration :
             IsHighestBlob(highest) /\ t = NextGeneration(CurrentOr0, highest)
      BY <1>1 DEF WriteBlob, Seen, t
    <3>2. CASE CurrentOr0 >= highest
      <4>1. t = CurrentOr0 + 1
        BY <3>1, <3>2 DEF NextGeneration
      <4> QED BY <1>d, <4>1 DEF CurrentOr0, Live
    <3>3. CASE ~(CurrentOr0 >= highest)
      <4>1. t = highest + 1
        BY <3>1, <3>3 DEF NextGeneration
      <4>2. highest = 0 \/ (highest \in Generations /\ blobs[highest] # None)
        BY <3>1 DEF IsHighestBlob, IsHighest
      <4> QED BY <1>d, <4>1, <4>2 DEF Live
    <3> QED BY <3>2, <3>3
  <2>4. t <= stamp + 1 /\ \A x \in Generations : x < t => w[x] + (t - x) <= stamp + 1
    <3>1. CASE t = 1
      BY <1>d, <2>h, <3>1
    <3>2. CASE t # 1
      <4>1. /\ t - 1 \in Generations /\ w[t - 1] <= stamp /\ t - 1 <= w[t - 1]
            /\ \A x \in Generations : x < t - 1 => w[x] + (t - 1 - x) <= w[t - 1]
        BY <1>w, <2>e, <3>2
      <4>2. w[t - 1] \in Nat
        BY <1>w, <4>1
      <4>3. ASSUME NEW x \in Generations, x < t PROVE w[x] + (t - x) <= stamp + 1
        <5>1. w[x] \in Nat /\ x \in Nat
          BY <1>d, <1>w
        <5>2. CASE x = t - 1
          BY <1>d, <2>h, <4>1, <4>2, <5>1, <5>2
        <5>3. CASE x < t - 1
          <6>1. w[x] + (t - 1 - x) <= w[t - 1]
            BY <4>1, <5>3
          <6> QED BY <1>d, <2>h, <4>1, <4>2, <5>1, <6>1
        <5> QED BY <2>h, <4>3, <5>1, <5>2, <5>3
      <4> QED BY <1>d, <2>h, <4>1, <4>2, <4>3
    <3> QED BY <3>1, <3>2
  <2>5. Missing(low)' \subseteq Missing(low)
    <3> SUFFICES ASSUME NEW s \in low..stamp', \A x \in Generations : blobs'[x] # s
                 PROVE  s \in Missing(low)
      BY DEF Missing
    <3>1. s # stamp + 1
      BY <1>d, <2>1
    <3>2. s \in low..stamp
      BY <1>d, <1>w, <2>1, <3>1
    <3>3. s \in Nat
      BY <1>w, <3>2
    <3>4. \A x \in Generations : blobs[x] # s
      BY <1>d, <2>1, <2>2, <3>3
    <3> QED BY <3>2, <3>4 DEF Missing
  <2>6. Cardinality(Missing(low)') <= damage'
    BY <1>t, <1>w, <2>1, <2>5, MissingFewer
  <2>7. \A x \in Generations : blobs'[x] \in Nat => blobs'[x] = w2[x]
    BY <1>d, <1>w, <2>1, <2>h
  <2>8. ASSUME NEW h \in Generations, Live(h)'
        PROVE  w2[h] <= stamp' /\ h <= w2[h] /\ \A x \in Generations : x < h => w2[x] + (h - x) <= w2[h]
    <3>1. CASE h = t
      BY <1>d, <2>1, <2>h, <2>4, <3>1
    <3>2. CASE h # t
      <4>1. Live(h)
        BY <2>1, <2>8, <3>2 DEF Live, t
      <4>2. h < t /\ w2[h] = w[h] /\ h \in Nat
        BY <1>d, <2>3, <2>h, <3>2, <4>1
      <4>3. \A x \in Generations : x < h => w2[x] = w[x]
        BY <1>d, <2>h, <4>2
      <4>4. w[h] \in Nat /\ w[h] <= stamp /\ h <= w[h]
            /\ \A x \in Generations : x < h => w[x] + (h - x) <= w[h]
        BY <1>w, <4>1
      <4> QED BY <1>d, <2>1, <4>2, <4>3, <4>4
    <3> QED BY <3>1, <3>2
  <2>9. current' # None => w2[current'] = acked'
    BY <1>d, <1>w, <2>1, <2>2, <2>h
  <2>10. w2[target'] = stamp'
    BY <2>1, <2>h DEF t
  <2>11. low = 1 \/ (low + Prior <= stamp' /\ (current' # None => low + Prior <= acked'))
    BY <1>d, <1>w, <2>1
  <2>12. \E v \in [Generations -> Nat] : Written(v, low)'
    <3> HIDE DEF w2
    <3>1. PICK v \in [Generations -> Nat] : v = w2
      BY <2>h
    <3>2. Written(v, low)'
      BY <1>w, <2>1, <2>6, <2>7, <2>8, <2>9, <2>10, <2>11, <3>1 DEF Written
    <3> QED BY <3>2
  <2> QED BY <1>t, <1>d, <2>1, <2>12 DEF Durable
<1>2. CASE WriteCurrent
  <2>1. /\ \A h \in Generations : Live(h)' => Live(h)
        /\ blobs' = blobs /\ stamp' = stamp /\ acked' = stamp /\ current' = target /\ target' = target
        /\ pc' = "cleanup" /\ pc = "publish" /\ damage' = damage
    BY <1>2 DEF WriteCurrent, Live
  <2>2. Missing(low)' = Missing(low)
    BY <2>1 DEF Missing
  <2>3. Written(w, low)'
    BY <1>d, <1>w, <2>1, <2>2 DEF Written
  <2> QED BY <1>t, <1>d, <2>1, <2>3 DEF Durable
<1>3. CASE WriteCurrentFails \/ Crash
  <2>1. /\ \A h \in Generations : Live(h)' => Live(h)
        /\ blobs' = blobs /\ stamp' = stamp /\ acked' = acked /\ current' = current /\ target' = target
        /\ pc' # "cleanup" /\ pc' # "publish" /\ damage' = damage
    BY <1>3 DEF WriteCurrentFails, Crash, Live
  <2>2. Missing(low)' = Missing(low)
    BY <2>1 DEF Missing
  <2>3. Written(w, low)'
    BY <1>d, <1>w, <2>1, <2>2 DEF Written
  <2> QED BY <1>t, <1>d, <2>1, <2>3 DEF Durable
<1>4. CASE Cleanup
  <2> DEFINE low2 == IF low + Prior <= w[target] THEN w[target] - Prior ELSE low
  <2>1. PICK gone \in SUBSET {g \in Generations : g + Prior < target} :
           blobs' = [g \in Generations |-> IF g \in gone THEN None ELSE blobs[g]]
    BY <1>4 DEF Cleanup
  <2>2. /\ pc = "cleanup" /\ pc' = "idle" /\ stamp' = stamp /\ acked' = acked
        /\ current' = current /\ target' = target /\ damage' = damage
    BY <1>4 DEF Cleanup
  <2>3. /\ target \in Generations /\ target \in Nat /\ w[target] \in Nat /\ w[target] <= stamp
        /\ \A x \in Generations : x < target => w[x] + (target - x) <= w[target]
    BY <1>d, <1>w, <2>2 DEF Live
  <2>4. current # None => w[target] <= acked
    <3> SUFFICES ASSUME current # None PROVE w[target] <= acked
      OBVIOUS
    <3>1. current \in Generations /\ current \in Nat /\ w[current] = acked /\ target <= current
      BY <1>d, <1>w, <2>2
    <3>2. target < current => w[target] + (current - target) <= w[current]
      BY <1>w, <2>3, <3>1 DEF Live
    <3> QED BY <1>d, <2>3, <3>1, <3>2
  <2>5. /\ low2 \in Nat \ {0} /\ low2 \in Nat /\ low <= low2 /\ w[target] <= low2 + Prior
        /\ low2 = 1 \/ (low2 + Prior <= stamp /\ (current # None => low2 + Prior <= acked))
    BY <1>d, <1>w, <2>3, <2>4
  <2>10. PICK l \in Nat \ {0} : l = low2
    BY <2>5
  <2>l. /\ l \in Nat /\ low <= l /\ w[target] <= l + Prior
        /\ l = 1 \/ (l + Prior <= stamp /\ (current # None => l + Prior <= acked))
    BY <2>5, <2>10
  <2> HIDE DEF low2
  <2>6. \A h \in Generations : Live(h)' => Live(h)
    BY <2>1, <2>2 DEF Live
  <2>7. Missing(l)' \subseteq Missing(low)
    <3> SUFFICES ASSUME NEW s \in l..stamp, \A x \in Generations : blobs'[x] # s
                 PROVE  s \in Missing(low)
      BY <2>2 DEF Missing
    <3>1. s \in low..stamp /\ s \in Nat
      BY <1>d, <1>w, <2>l
    <3>2. ASSUME NEW x \in Generations, blobs[x] = s PROVE FALSE
      <4>1. x \in gone
        BY <2>1, <3>2
      <4>2. x \in Nat /\ x + Prior < target /\ w[x] = s /\ x < target
        <5>1. x \in Nat /\ x + Prior < target
          BY <1>d, <2>1, <4>1
        <5>2. w[x] = s
          BY <1>w, <3>1, <3>2
        <5> QED BY <1>d, <2>3, <5>1, <5>2
      <4>3. s + (target - x) <= w[target]
        BY <2>3, <4>2
      <4> QED BY <1>d, <2>3, <2>l, <3>1, <4>2, <4>3
    <3> QED BY <3>1, <3>2 DEF Missing
  <2>8. Cardinality(Missing(l)') <= damage'
    BY <1>t, <1>w, <2>2, <2>l, <2>7, MissingFewer
  <2>9. \A x \in Generations : blobs'[x] \in Nat => blobs'[x] = w[x]
    BY <1>d, <1>w, <2>1
  <2>11. Written(w, l)'
    BY <1>w, <2>2, <2>6, <2>8, <2>9, <2>l DEF Written
  <2> QED BY <1>t, <1>d, <2>2, <2>11 DEF Durable
<1>5. CASE Load
  <2>1. PICK g \in 0..MaxGeneration :
           /\ Restores(g) /\ target' = g
           /\ pc' = IF g = 0 THEN "idle" ELSE "cleanup"
    BY <1>5 DEF Load
  <2>2. /\ blobs' = blobs /\ stamp' = stamp /\ acked' = acked /\ current' = current
        /\ pc = "down" /\ damage' = damage
    BY <1>5 DEF Load
  <2>3. g # 0 => g \in Generations /\ blobs[g] \in Nat
    BY <2>1, RestoresGood
  <2>4. \A h \in Generations : Live(h)' => Live(h)
    BY <1>d, <2>1, <2>2, <2>3 DEF Live
  <2>5. g # 0 /\ current # None => g <= current
    BY <1>d, <2>1 DEF Restores, IsHighest, PriorStates
  <2>6. Missing(low)' = Missing(low)
    BY <2>2 DEF Missing
  <2>7. Written(w, low)'
    BY <1>d, <1>w, <2>1, <2>2, <2>4, <2>6 DEF Written
  <2> QED BY <1>t, <1>d, <2>1, <2>2, <2>3, <2>5, <2>7 DEF Durable
<1>6. CASE Damage
  <2>1. /\ damage' = damage + 1 /\ damage < MaxDamage /\ pc' = pc /\ target' = target
        /\ stamp' = stamp /\ acked' = acked
        /\ current' = current \/ current' = None
    BY <1>6 DEF Damage
  <2>2. PICK unseen \in Nat : Missing(low)' \subseteq Missing(low) \cup {unseen}
    <3>1. CASE blobs' = blobs
      <4>1. 0 \in Nat /\ Missing(low)' \subseteq Missing(low) \cup {0}
        BY <2>1, <3>1 DEF Missing
      <4> QED BY <4>1
    <3>2. CASE blobs' # blobs
      <4>1. PICK g \in Generations, what \in {Damaged, None} :
               blobs[g] \in Nat /\ blobs' = [blobs EXCEPT ![g] = what]
        BY <1>6, <3>2 DEF Damage
      <4>2. Missing(low)' \subseteq Missing(low) \cup {blobs[g]}
        BY <1>d, <2>1, <4>1 DEF Missing
      <4> QED BY <4>1, <4>2
    <3> QED BY <3>1, <3>2
  <2>3. /\ \A x \in Generations : blobs'[x] \in Nat => blobs'[x] = blobs[x]
        /\ \A x \in Generations : blobs'[x] # None => blobs[x] # None
    BY <1>6, <1>d DEF Damage
  <2>4. \A h \in Generations : Live(h)' => Live(h)
    BY <1>d, <2>1, <2>3 DEF Live
  <2>5. Cardinality(Missing(low)') <= damage'
    <3>1. IsFiniteSet(Missing(low)) /\ Cardinality(Missing(low)) \in Nat
      BY <1>t, <1>w, MissingIs
    <3>2. /\ IsFiniteSet(Missing(low) \cup {unseen})
          /\ Cardinality(Missing(low) \cup {unseen}) \in Nat
          /\ Cardinality(Missing(low) \cup {unseen}) <= Cardinality(Missing(low)) + 1
      <4>1. /\ IsFiniteSet(Missing(low) \cup {unseen})
            /\ Cardinality(Missing(low) \cup {unseen})
                  = IF unseen \in Missing(low) THEN Cardinality(Missing(low))
                    ELSE Cardinality(Missing(low)) + 1
        BY <3>1, FS_AddElement
      <4> QED BY <3>1, <4>1
    <3>3. /\ Cardinality(Missing(low)') <= Cardinality(Missing(low) \cup {unseen})
          /\ Cardinality(Missing(low)') \in Nat
      BY <2>2, <3>2, FS_Subset, FS_CardinalityType
    <3> QED BY <1>d, <1>w, <2>1, <3>1, <3>2, <3>3
  <2>6. Written(w, low)'
    BY <1>d, <1>w, <2>1, <2>3, <2>4, <2>5 DEF Written
  <2> QED BY <1>t, <1>d, <2>1, <2>6, StoreAssumption DEF Durable
<1>7. CASE UNCHANGED vars
  <2>1. /\ blobs' = blobs /\ stamp' = stamp /\ acked' = acked /\ current' = current /\ target' = target
        /\ pc' = pc /\ damage' = damage /\ \A h \in Generations : Live(h)' => Live(h)
    BY <1>7 DEF vars, Live
  <2>2. Missing(low)' = Missing(low)
    BY <2>1 DEF Missing
  <2>3. Written(w, low)'
    BY <1>d, <1>w, <2>1, <2>2 DEF Written
  <2> QED BY <1>t, <1>d, <2>1, <2>3 DEF Durable
<1> QED BY <1>1, <1>2, <1>3, <1>4, <1>5, <1>6, <1>7 DEF Next

\* Wherever a persist or a cleanup was interrupted, and with as many files
\* damaged as prior generations are retained, the next process restores what
\* the last acknowledged persist saved, but for one snapshot per damaged file.
THEOREM AcknowledgedAlwaysSurvives ==
  ASSUME ReadsFail = FALSE, MaxDamage <= Prior
  PROVE  Spec => AcknowledgedSurvives
<1>1. ASSUME Durable, Next, pc = "down", pc' # "down" PROVE loaded' + damage >= acked
  <2>1. Load
    BY <1>1
    DEF Next, WriteBlob, WriteCurrent, WriteCurrentFails, Cleanup, Crash, Damage
  <2>2. PICK g \in 0..MaxGeneration :
           Restores(g) /\ loaded' = IF g = 0 THEN 0 ELSE blobs[g]
    BY <2>1 DEF Load
  <2>3. acked <= loaded' + damage
    BY <1>1, <2>2, RestoresRecent
  <2>4. loaded' \in Nat /\ acked \in Nat /\ damage \in Nat
    BY <1>1, <2>2, RestoresGood DEF Durable, TInv, TypeOK
  <2> QED
    BY <2>3, <2>4
<1>2. Durable /\ [Next]_vars =>
        [pc = "down" /\ pc' # "down" => loaded' + damage >= acked]_vars
  BY <1>1
<1> QED
  BY <1>2, DurableInitial, DurablePreserved, PTL DEF Spec, AcknowledgedSurvives

-----------------------------------------------------------------------------
(* SettingsText.  What is read of the registry is what was saved last: a    *)
(* whole text tells its record, by whichever release it was written, and a  *)
(* damaged one tells nothing, since no line comes twice in a text and the   *)
(* texts of two releases are never of one length.                           *)

\* What SettingsText needs to know of a text.
LEMMA TextIs ==
  ASSUME NEW v \in Nat, NEW names \in Seq(Registry!Names), NEW value,
         \A i \in 1..Len(names) : <<names[i], value[names[i]]>> \in Registry!Lines
  PROVE  /\ Registry!Text(v, names, value) \in Registry!Texts
         /\ Len(Registry!Text(v, names, value)) = Len(names) + 1
         /\ Registry!Text(v, names, value)[1] = <<"release", v>>
         /\ \A i \in 1..Len(names) :
               Registry!Text(v, names, value)[i + 1] = <<names[i], value[names[i]]>>
<1> DEFINE S == Registry!Lines
           a == <<<<"release", v>>>>
           b == [i \in DOMAIN names |-> <<names[i], value[names[i]]>>]
<1>1. Len(names) \in Nat /\ DOMAIN names = 1..Len(names)
  BY LenProperties
<1>2. <<"release", v>> \in S
  <2>1. "release" \in Registry!Names
    BY DEF Registry!Names
  <2> QED BY <2>1, Zenon DEF Registry!Lines
<1>3. a \in Seq(S) /\ Len(a) = 1 /\ a[1] = <<"release", v>>
  <2> HIDE DEF S
  <2> QED BY <1>2
<1>4. b \in Seq(S) /\ Len(b) = Len(names)
  <2>1. \A i \in 1..Len(names) : <<names[i], value[names[i]]>> \in S
    OBVIOUS
  <2> HIDE DEF S
  <2>2. b \in [1..Len(names) -> S]
    BY <1>1, <2>1
  <2> HIDE DEF b
  <2> QED BY <1>1, <2>2
<1>5. \A i \in 1..Len(names) : b[i] = <<names[i], value[names[i]]>>
  BY <1>1
<1> HIDE DEF S, a, b
<1>6. /\ a \o b \in Seq(S) /\ Len(a \o b) = Len(names) + 1
      /\ \A i \in 1..Len(names) + 1 : (a \o b)[i] = IF i <= 1 THEN a[i] ELSE b[i - 1]
  <2>1. /\ a \o b \in Seq(S) /\ Len(a \o b) = Len(a) + Len(b)
        /\ \A i \in 1..Len(a) + Len(b) : (a \o b)[i] = IF i <= Len(a) THEN a[i] ELSE b[i - Len(a)]
    BY <1>3, <1>4, ConcatProperties
  <2> QED BY <1>1, <1>3, <1>4, <2>1
<1>7. (a \o b)[1] = <<"release", v>>
  BY <1>1, <1>3, <1>6
<1>8. ASSUME NEW i \in 1..Len(names) PROVE (a \o b)[i + 1] = <<names[i], value[names[i]]>>
  <2>1. i + 1 \in 1..Len(names) + 1 /\ ~(i + 1 <= 1) /\ (i + 1) - 1 = i
    BY <1>1
  <2> QED BY <2>1, <1>5, <1>6
<1> QED BY <1>6, <1>7, <1>8 DEF Registry!Text, Registry!Texts, S, a, b

\* A text of a release: its first line names it, no line comes twice, and none
\* is spoilt.
Whole(t, v) ==
    /\ t \in Registry!Texts /\ Len(t) >= 2 /\ t[1] = <<"release", v>>
    /\ \A i, j \in 1..Len(t) : t[i][1] = t[j][1] => i = j
    /\ \A i \in 1..Len(t) : t[i][1] # "?"

\* What gives a damaged text away.
Differs(u, t, v) ==
    \/ u[1][1] # "release"
    \/ u[1] = t[1] /\ Len(u) # Len(t)
    \/ u[1] = t[1] /\ Len(u) = Len(t) /\ \E i \in 2..Len(t) : u[i][1] # t[i][1]
    \/ Len(u) = Len(t) /\ \E w : u[1] = <<"release", w>> /\ w # v

\* Damage of one line can be seen.
LEMMA DamageSeen ==
  ASSUME NEW v \in Nat, NEW t, Whole(t, v), NEW u \in Registry!Damages(t), u # t
  PROVE  u \in Registry!Texts /\ Len(u) \in Nat \ {0} /\ Differs(u, t, v)
<1> DEFINE S == Registry!Lines  n == Len(t)
<1>1. /\ t \in Seq(S) /\ n \in Nat /\ n >= 2 /\ DOMAIN t = 1..n /\ t[1] = <<"release", v>>
      /\ \A i \in 1..n : t[i] \in S
  <2>1. t \in Seq(S) /\ n >= 2 /\ t[1] = <<"release", v>>
    BY DEF Whole, Registry!Texts
  <2> HIDE DEF S
  <2> QED BY <2>1, LenProperties, ElementOfSeq
<1>2. /\ \A i, j \in 1..n : t[i][1] = t[j][1] => i = j
      /\ \A i \in 1..n : t[i][1] # "?"
  BY DEF Whole
<1>3. t[1][1] = "release" /\ \A i \in 2..n : t[i][1] # "release"
  BY <1>1, <1>2
<1>4. \A w \in Nat : <<"release", w>> \in S
  <2>1. "release" \in Registry!Names
    BY DEF Registry!Names
  <2> QED BY <2>1, Zenon DEF Registry!Lines
<1>5. Registry!Spoilt \in S /\ Registry!Spoilt[1] = "?"
  <2>1. "?" \in Registry!Names /\ 0 \in Nat
    BY DEF Registry!Names
  <2>2. <<"?", 0>> \in S
    BY <2>1, Zenon DEF Registry!Lines
  <2> HIDE DEF S
  <2> QED BY <2>2 DEF Registry!Spoilt
<1> HIDE DEF S, n
<1>s. ASSUME NEW i \in 1..n
      PROVE  /\ SubSeq(t, 1, i - 1) \in Seq(S) /\ Len(SubSeq(t, 1, i - 1)) = i - 1
             /\ \A j \in 1..i - 1 : SubSeq(t, 1, i - 1)[j] = t[j]
             /\ SubSeq(t, i + 1, n) \in Seq(S) /\ Len(SubSeq(t, i + 1, n)) = n - i
             /\ \A j \in 1..n - i : SubSeq(t, i + 1, n)[j] = t[i + j]
             /\ SubSeq(t, i, n) \in Seq(S) /\ Len(SubSeq(t, i, n)) = n - i + 1
  <2>1. 1 \in Int /\ i - 1 \in Int /\ n \in Int /\ i + 1 \in Int /\ i \in Int
    BY <1>1
  <2>2. \A j \in 1..i - 1 : t[j] \in S
    BY <1>1
  <2>3. \A j \in i + 1..n : t[j] \in S
    BY <1>1
  <2>4. \A j \in i..n : t[j] \in S
    BY <1>1
  <2>5. /\ SubSeq(t, 1, i - 1) \in Seq(S)
        /\ Len(SubSeq(t, 1, i - 1)) = IF 1 <= i - 1 THEN (i - 1) - 1 + 1 ELSE 0
        /\ \A j \in 1..(i - 1) - 1 + 1 : SubSeq(t, 1, i - 1)[j] = t[1 + j - 1]
    BY <2>1, <2>2, SubSeqProperties
  <2>6. /\ SubSeq(t, i + 1, n) \in Seq(S)
        /\ Len(SubSeq(t, i + 1, n)) = IF i + 1 <= n THEN n - (i + 1) + 1 ELSE 0
        /\ \A j \in 1..n - (i + 1) + 1 : SubSeq(t, i + 1, n)[j] = t[i + 1 + j - 1]
    BY <2>1, <2>3, SubSeqProperties
  <2>7. /\ SubSeq(t, i, n) \in Seq(S)
        /\ Len(SubSeq(t, i, n)) = IF i <= n THEN n - i + 1 ELSE 0
    BY <2>1, <2>4, SubSeqProperties
  <2>8. \A j \in 1..i - 1 : j \in 1..(i - 1) - 1 + 1 /\ 1 + j - 1 = j
    BY <1>1
  <2>9. \A j \in 1..n - i : j \in 1..n - (i + 1) + 1 /\ i + 1 + j - 1 = i + j
    BY <1>1
  <2>10. \A j \in 1..i - 1 : SubSeq(t, 1, i - 1)[j] = t[j]
    BY <2>5, <2>8
  <2>11. \A j \in 1..n - i : SubSeq(t, i + 1, n)[j] = t[i + j]
    BY <2>6, <2>9
  <2>12. /\ (IF 1 <= i - 1 THEN (i - 1) - 1 + 1 ELSE 0) = i - 1
         /\ (IF i + 1 <= n THEN n - (i + 1) + 1 ELSE 0) = n - i
         /\ (IF i <= n THEN n - i + 1 ELSE 0) = n - i + 1
    BY <1>1
  <2> QED BY <2>5, <2>6, <2>7, <2>10, <2>11, <2>12
<1>6. CASE \E i \in DOMAIN t : u = Registry!RemoveAt(t, i)
  <2> PICK i \in 1..n : u = Registry!RemoveAt(t, i)
    BY <1>1, <1>6
  <2> DEFINE a == SubSeq(t, 1, i - 1)  b == SubSeq(t, i + 1, n)
  <2>1. /\ a \in Seq(S) /\ Len(a) = i - 1 /\ \A j \in 1..i - 1 : a[j] = t[j]
        /\ b \in Seq(S) /\ Len(b) = n - i /\ \A j \in 1..n - i : b[j] = t[i + j]
    BY <1>s
  <2>2. u = a \o b
    BY DEF Registry!RemoveAt, n
  <2> HIDE DEF a, b
  <2>c. /\ a \o b \in Seq(S) /\ Len(a \o b) = Len(a) + Len(b)
        /\ \A j \in 1..Len(a) + Len(b) :
              (a \o b)[j] = IF j <= Len(a) THEN a[j] ELSE b[j - Len(a)]
    BY <2>1, ConcatProperties
  <2>3. /\ u \in Seq(S) /\ Len(u) = Len(a) + Len(b)
        /\ \A j \in 1..Len(a) + Len(b) : u[j] = IF j <= Len(a) THEN a[j] ELSE b[j - Len(a)]
    BY <2>2, <2>c, Zenon
  <2>4. Len(u) = n - 1 /\ 1 \in 1..Len(a) + Len(b)
    BY <1>1, <2>1, <2>3
  <2>5. CASE i = 1
    <3>1. Len(a) = 0 /\ 1 - Len(a) = 1 /\ 1 \in 1..n - i /\ ~(1 <= Len(a))
      BY <1>1, <2>1, <2>5
    <3>2. u[1] = t[2]
      BY <2>1, <2>3, <2>4, <2>5, <3>1
    <3> QED BY <1>1, <1>3, <2>3, <2>4, <3>2 DEF Differs, Registry!Texts, S
  <2>6. CASE i # 1
    <3>1. 1 <= Len(a) /\ 1 \in 1..i - 1
      BY <1>1, <2>1, <2>6
    <3>2. u[1] = t[1]
      BY <2>1, <2>3, <2>4, <3>1
    <3>3. Len(u) # n /\ Len(u) \in Nat \ {0} /\ u \in Seq(S)
      BY <1>1, <2>3, <2>4
    <3> QED BY <3>2, <3>3 DEF Differs, Registry!Texts, S, n
  <2> QED BY <2>5, <2>6
<1>7. CASE \E i \in DOMAIN t : u = Registry!InsertAt(t, i, t[i])
  <2> PICK i \in 1..n : u = Registry!InsertAt(t, i, t[i])
    BY <1>1, <1>7
  <2> DEFINE a == SubSeq(t, 1, i - 1)  e == <<t[i]>>  b == SubSeq(t, i, n)  c == a \o e
  <2>1. /\ a \in Seq(S) /\ Len(a) = i - 1 /\ \A j \in 1..i - 1 : a[j] = t[j]
        /\ b \in Seq(S) /\ Len(b) = n - i + 1
    BY <1>s
  <2>2. e \in Seq(S) /\ Len(e) = 1 /\ e[1] = t[i]
    BY <1>1
  <2>3. u = c \o b
    BY DEF Registry!InsertAt, n
  <2> HIDE DEF a, b, e
  <2>4. /\ c \in Seq(S) /\ Len(c) = Len(a) + Len(e)
        /\ \A j \in 1..Len(a) + Len(e) : c[j] = IF j <= Len(a) THEN a[j] ELSE e[j - Len(a)]
    BY <2>1, <2>2, ConcatProperties
  <2> HIDE DEF c
  <2>c. /\ c \o b \in Seq(S) /\ Len(c \o b) = Len(c) + Len(b)
        /\ \A j \in 1..Len(c) + Len(b) :
              (c \o b)[j] = IF j <= Len(c) THEN c[j] ELSE b[j - Len(c)]
    <3>1. c \in Seq(S) /\ b \in Seq(S)
      BY <2>1, <2>4
    <3> HIDE <2>1, <2>4
    <3> QED BY <3>1, ConcatProperties
  <2>5. /\ u \in Seq(S) /\ Len(u) = Len(c) + Len(b)
        /\ \A j \in 1..Len(c) + Len(b) : u[j] = IF j <= Len(c) THEN c[j] ELSE b[j - Len(c)]
    BY <2>3, <2>c, Zenon
  <2>6. Len(c) = i /\ Len(u) = n + 1
    BY <1>1, <2>1, <2>2, <2>4, <2>5
  <2>7. u[1] = c[1]
    <3>1. 1 \in 1..Len(c) + Len(b) /\ 1 <= Len(c)
      BY <1>1, <2>1, <2>6
    <3> QED BY <2>5, <3>1
  <2>8. c[1] = t[1]
    <3>1. 1 \in 1..Len(a) + Len(e)
      BY <2>1, <2>2
    <3>2. CASE i = 1
      <4>1. Len(a) = 0 /\ ~(1 <= Len(a)) /\ 1 - Len(a) = 1
        BY <2>1, <3>2
      <4> QED BY <2>2, <2>4, <3>1, <3>2, <4>1
    <3>3. CASE i # 1
      <4>1. 1 <= Len(a) /\ 1 \in 1..i - 1
        BY <2>1, <3>3
      <4> QED BY <2>1, <2>4, <3>1, <4>1
    <3> QED BY <3>2, <3>3
  <2>9. Len(u) # n /\ Len(u) \in Nat \ {0} /\ u \in Seq(S) /\ u[1] = t[1]
    BY <1>1, <2>5, <2>6, <2>7, <2>8
  <2> QED BY <2>9 DEF Differs, Registry!Texts, S, n
<1>8. CASE \E i \in 1..Len(t) - 1 : u = [t EXCEPT ![i] = t[i + 1], ![i + 1] = t[i]]
  <2> PICK i \in 1..n - 1 : u = [t EXCEPT ![i] = t[i + 1], ![i + 1] = t[i]]
    BY <1>8 DEF n
  <2> DEFINE s == [t EXCEPT ![i] = t[i + 1]]
  <2>1. i \in 1..n /\ i + 1 \in 1..n
    BY <1>1
  <2>2. s \in Seq(S) /\ Len(s) = n /\ \A j \in 1..n : s[j] = IF j = i THEN t[i + 1] ELSE t[j]
    BY <1>1, <2>1, ExceptSeq DEF n
  <2>3. u = [s EXCEPT ![i + 1] = t[i]]
    OBVIOUS
  <2> HIDE DEF s
  <2>4. u \in Seq(S) /\ Len(u) = n
        /\ \A j \in 1..n : u[j] = IF j = i + 1 THEN t[i] ELSE s[j]
    BY <1>1, <2>1, <2>2, <2>3, ExceptSeq
  <2>5. u[i] = t[i + 1] /\ (i # 1 => u[1] = t[1])
    BY <1>1, <2>1, <2>2, <2>4
  <2>6. CASE i = 1
    <3>1. u[1][1] # "release"
      BY <1>1, <1>3, <2>1, <2>5, <2>6
    <3> QED BY <1>1, <2>4, <3>1 DEF Differs, Registry!Texts, S
  <2>7. CASE i # 1
    <3>1. u[i][1] # t[i][1] /\ i \in 2..n
      <4>1. i # i + 1
        BY <2>1
      <4> QED BY <1>1, <1>2, <2>1, <2>5, <2>7, <4>1
    <3> QED BY <1>1, <2>4, <2>5, <2>7, <3>1 DEF Differs, Registry!Texts, S, n
  <2> QED BY <2>6, <2>7
<1>9. CASE \E i \in DOMAIN t : u = [t EXCEPT ![i] = Registry!Spoilt]
  <2> PICK i \in 1..n : u = [t EXCEPT ![i] = Registry!Spoilt]
    BY <1>1, <1>9
  <2>1. u \in Seq(S) /\ Len(u) = n
        /\ \A j \in 1..n : u[j] = IF j = i THEN Registry!Spoilt ELSE t[j]
    BY <1>1, <1>5, ExceptSeq DEF n
  <2>2. CASE i = 1
    BY <1>1, <1>5, <2>1, <2>2 DEF Differs, Registry!Texts, S
  <2>3. CASE i # 1
    <3>1. u[1] = t[1] /\ i \in 2..n /\ u[i][1] # t[i][1]
      BY <1>1, <1>2, <1>5, <2>1, <2>3
    <3> QED BY <1>1, <2>1, <3>1 DEF Differs, Registry!Texts, S, n
  <2> QED BY <2>2, <2>3
<1>10. CASE \E w \in 1..5 : u = [t EXCEPT ![1] = <<"release", w>>]
  <2> PICK w \in 1..5 : u = [t EXCEPT ![1] = <<"release", w>>]
    BY <1>10
  <2>1. w \in Nat /\ <<"release", w>> \in S
    BY <1>4
  <2>2. 1 \in 1..n
    BY <1>1
  <2>3. u \in Seq(S) /\ Len(u) = n
        /\ \A j \in 1..n : u[j] = IF j = 1 THEN <<"release", w>> ELSE t[j]
    BY <1>1, <2>1, <2>2, ExceptSeq DEF n
  <2>4. u[1] = <<"release", w>>
    BY <2>2, <2>3
  <2>5. w # v
    <3> SUFFICES ASSUME w = v PROVE u = t
      OBVIOUS
    <3>1. Len(u) = Len(t) /\ \A j \in 1..Len(u) : u[j] = t[j]
      BY <1>1, <2>3 DEF n
    <3> QED BY <1>1, <2>3, <3>1, SeqEqual
  <2> QED BY <1>1, <2>3, <2>4, <2>5 DEF Differs, Registry!Texts, S, n
<1> QED BY <1>6, <1>7, <1>8, <1>9, <1>10 DEF Registry!Damages

SettingNames == {"theme", "fps", "startup", "display", "auto_update"}
FieldNames == {"generation", "operation_id"} \cup SettingNames

\* A record is its seven fields, and its settings are five of them.
LEMMA RecordIs ==
  ASSUME NEW g \in Nat, NEW o \in Nat, NEW s \in Registry!Offered
  PROVE  /\ Registry!Record(g, o, s) \in Registry!Records
         /\ Registry!Record(g, o, s).generation = g
         /\ Registry!Record(g, o, s).operation_id = o
         /\ \A n \in SettingNames : Registry!Record(g, o, s)[n] = s[n]
         /\ Registry!Settings(Registry!Record(g, o, s)) = s
<1> DEFINE b == Registry!Record(g, o, s)
<1>1. /\ b \in Registry!Records /\ b.generation = g /\ b.operation_id = o
      /\ \A n \in SettingNames : b[n] = s[n]
  BY DEF Registry!Record, Registry!Records, Registry!Offered, SettingNames
<1> HIDE DEF b
<1>2. s = [n \in SettingNames |-> s[n]]
  BY DEF Registry!Offered, SettingNames
<1>3. Registry!Settings(b) = [n \in SettingNames |-> b[n]]
  BY DEF Registry!Settings, Registry!Default, SettingNames
<1>4. Registry!Settings(b) = s
  BY <1>1, <1>2, <1>3
<1> QED BY <1>1, <1>4 DEF b

\* A record is its numbers and its settings.
LEMMA SettingsAre ==
  ASSUME NEW r \in Registry!Records
  PROVE  /\ Registry!Settings(r) \in Registry!Offered
         /\ \A n \in SettingNames : Registry!Settings(r)[n] = r[n]
         /\ r = Registry!Record(r.generation, r.operation_id, Registry!Settings(r))
<1> DEFINE s == [n \in SettingNames |-> r[n]]
<1>1. Registry!Settings(r) = s
  BY DEF Registry!Settings, Registry!Default, SettingNames
<1>2. s \in Registry!Offered
  BY DEF Registry!Offered, Registry!Records, SettingNames
<1>3. \A n \in SettingNames : s[n] = r[n]
  OBVIOUS
<1> HIDE DEF s
<1>4. r.generation \in Nat /\ r.operation_id \in Nat /\ r = [n \in FieldNames |-> r[n]]
  BY DEF Registry!Records, FieldNames, SettingNames
<1> DEFINE q == Registry!Record(r.generation, r.operation_id, s)
<1>5. /\ q \in Registry!Records /\ q.generation = r.generation
      /\ q.operation_id = r.operation_id /\ \A n \in SettingNames : q[n] = r[n]
  BY <1>2, <1>3, <1>4, RecordIs
<1> HIDE DEF q
<1>6. q = [n \in FieldNames |-> q[n]]
  BY <1>5 DEF Registry!Records, FieldNames, SettingNames
<1>7. \A n \in FieldNames : q[n] = r[n]
  BY <1>5 DEF FieldNames
<1>8. q = r
  BY <1>4, <1>6, <1>7
<1> QED BY <1>1, <1>2, <1>3, <1>8 DEF q

\* The defaults are offered, and a fresh record has them.
LEMMA FreshIs ==
    /\ Registry!Default \in Registry!Offered /\ Registry!Fresh \in Registry!Records
    /\ Registry!Fresh.generation = 0 /\ Registry!Fresh.operation_id = 0
    /\ \A n \in SettingNames : Registry!Fresh[n] = Registry!Default[n]
<1>1. Registry!Default \in Registry!Offered
  BY FilesAssumption DEF FilesAssumption
<1> QED BY <1>1, RecordIs DEF Registry!Fresh

\* Names a text can be made of: none comes twice, none is that of the first
\* line or of a spoilt one.
IsLines(names) ==
    /\ names \in Seq(Registry!Names) /\ Len(names) >= 1
    /\ \A i, j \in 1..Len(names) : names[i] = names[j] => i = j
    /\ \A i \in 1..Len(names) : names[i] # "release" /\ names[i] # "?"

Stating(names, value) ==
    \A i \in 1..Len(names) : <<names[i], value[names[i]]>> \in Registry!Lines

\* A text of a release is whole.
LEMMA WholeText ==
  ASSUME NEW v \in Nat, NEW names, IsLines(names), NEW value, Stating(names, value)
  PROVE  /\ Whole(Registry!Text(v, names, value), v)
         /\ Len(Registry!Text(v, names, value)) = Len(names) + 1
         /\ \A i \in 1..Len(names) : Registry!Text(v, names, value)[i + 1][1] = names[i]
<1> DEFINE t == Registry!Text(v, names, value)
<1>1. /\ t \in Registry!Texts /\ Len(t) = Len(names) + 1 /\ t[1] = <<"release", v>>
      /\ \A i \in 1..Len(names) : t[i + 1] = <<names[i], value[names[i]]>>
  BY TextIs DEF IsLines, Stating
<1>2. Len(names) \in Nat /\ Len(names) >= 1
  BY LenProperties DEF IsLines
<1> HIDE DEF t
<1> DEFINE m == Len(names)
<1>3. \A i \in 1..m : t[i + 1][1] = names[i]
  BY <1>1
<1>4. t[1][1] = "release"
  BY <1>1
<1>5. ASSUME NEW i \in 2..m + 1
      PROVE  i - 1 \in 1..m /\ t[i][1] = names[i - 1]
  <2>1. i - 1 \in 1..m /\ (i - 1) + 1 = i
    BY <1>2
  <2> QED BY <1>3, <2>1
<1>6. \A i \in 2..m + 1 : t[i][1] # "release" /\ t[i][1] # "?"
  BY <1>5 DEF IsLines
<1>7. \A i, j \in 2..m + 1 : t[i][1] = t[j][1] => i = j
  <2> SUFFICES ASSUME NEW i \in 2..m + 1, NEW j \in 2..m + 1, t[i][1] = t[j][1] PROVE i = j
    OBVIOUS
  <2>1. i - 1 \in 1..m /\ j - 1 \in 1..m /\ names[i - 1] = names[j - 1]
    BY <1>5
  <2>2. i - 1 = j - 1
    BY <2>1 DEF IsLines
  <2> QED BY <2>2
<1>8. \A i \in 1..m + 1 : i = 1 \/ i \in 2..m + 1
  BY <1>2
<1>9. \A i, j \in 1..m + 1 : t[i][1] = t[j][1] => i = j
  BY <1>4, <1>6, <1>7, <1>8
<1>10. \A i \in 1..m + 1 : t[i][1] # "?"
  BY <1>4, <1>6, <1>8
<1>11. Whole(t, v)
  BY <1>1, <1>2, <1>9, <1>10 DEF Whole
<1> QED BY <1>1, <1>3, <1>11 DEF t

\* What a text says as one of its release: its lines.
LEMMA SaysOwn ==
  ASSUME NEW v \in Nat, NEW names, IsLines(names), NEW value, Stating(names, value)
  PROVE  Registry!Says(Registry!Text(v, names, value), v, names)
            = {[n \in {names[i] : i \in 1..Len(names)} |-> value[n]]}
<1> DEFINE t == Registry!Text(v, names, value)  m == Len(names)
           at(n) == CHOOSE i \in DOMAIN t : t[i][1] = n
           N == {names[i] : i \in 1..m}
<1>1. /\ t \in Registry!Texts /\ Len(t) = m + 1 /\ t[1] = <<"release", v>>
      /\ \A i \in 1..m : t[i + 1] = <<names[i], value[names[i]]>>
  BY TextIs DEF IsLines, Stating
<1>2. m \in Nat /\ m >= 1 /\ DOMAIN names = 1..m
  BY LenProperties DEF IsLines
<1>3. t # <<>> /\ DOMAIN t = 1..m + 1 /\ Len(t) = 1 + m
  <2>1. t \in Seq(Registry!Lines)
    BY <1>1 DEF Registry!Texts
  <2> HIDE DEF t
  <2> QED BY <1>1, <1>2, <2>1, LenProperties, EmptySeq
<1>4. Whole(t, v)
  BY WholeText
<1> HIDE DEF t
<1>5. ASSUME NEW n \in N PROVE t[at(n)][2] = value[n]
  <2>1. PICK i \in 1..m : n = names[i]
    OBVIOUS
  <2>2. i + 1 \in 1..m + 1 /\ t[i + 1][1] = n /\ t[i + 1][2] = value[n]
    BY <1>1, <1>2, <2>1
  <2>3. \A j \in DOMAIN t : t[j][1] = n => j = i + 1
    BY <1>1, <1>3, <1>4, <2>2 DEF Whole
  <2>4. at(n) = i + 1
    BY <1>3, <2>2, <2>3
  <2> QED BY <2>2, <2>4
<1>6. \A i \in DOMAIN names : t[i + 1][1] = names[i]
  BY <1>1, <1>2
<1>7. Registry!ToSet(names) = N
  BY <1>2 DEF Registry!ToSet
<1>8. Registry!Says(t, v, names) = {[n \in N |-> t[at(n)][2]]}
  <2>1. Registry!Says(t, v, names)
          = {[n \in Registry!ToSet(names) |-> LET i == CHOOSE i \in DOMAIN t : t[i][1] = n
                                              IN  t[i][2]]}
    BY <1>1, <1>3, <1>6 DEF Registry!Says
  <2> QED BY <1>7, <2>1
<1>9. [n \in N |-> t[at(n)][2]] = [n \in N |-> value[n]]
  <2> HIDE DEF at
  <2> QED BY <1>5
<1> QED BY <1>8, <1>9 DEF t

\* A text that differs from that of its release says nothing as one of any
\* release, if no two releases have texts of one length.
LEMMA SaysNothing ==
  ASSUME NEW v \in Nat, NEW t, Whole(t, v), NEW u, Differs(u, t, v) \/ u = t, NEW w \in Nat, NEW names,
         w = v => u # t /\ Len(names) + 1 = Len(t) /\ \A i \in 1..Len(names) : names[i] = t[i + 1][1],
         w # v => Len(names) + 1 # Len(t), names \in Seq(Registry!Names)
  PROVE  Registry!Says(u, w, names) = {}
<1> SUFFICES ASSUME /\ u[1] = <<"release", w>> /\ Len(u) = 1 + Len(names)
                    /\ \A i \in DOMAIN names : u[i + 1][1] = names[i]
             PROVE  FALSE
  BY DEF Registry!Says
<1>1. Len(names) \in Nat /\ DOMAIN names = 1..Len(names)
  BY LenProperties
<1>2. u[1][1] = "release" /\ Len(u) = Len(names) + 1
  BY <1>1
<1>3. t[1] = <<"release", v>>
  BY DEF Whole
<1>4. CASE w = v
  <2>1. Len(u) = Len(t) /\ u # t
    BY <1>2, <1>4
  <2>2. \A i \in 2..Len(t) : u[i][1] = t[i][1]
    <3> SUFFICES ASSUME NEW i \in 2..Len(t) PROVE u[i][1] = t[i][1]
      OBVIOUS
    <3>1. i - 1 \in 1..Len(names) /\ (i - 1) + 1 = i
      BY <1>1, <1>4
    <3> DEFINE k == i - 1
    <3>2. k \in DOMAIN names /\ k \in 1..Len(names) /\ k + 1 = i
      BY <1>1, <3>1
    <3> HIDE DEF k
    <3>3. u[k + 1][1] = names[k] /\ t[k + 1][1] = names[k]
      BY <1>4, <3>2
    <3> QED BY <3>2, <3>3
  <2>3. \A x : u[1] = <<"release", x>> => x = v
    BY <1>4
  <2> QED BY <1>2, <2>1, <2>2, <2>3 DEF Differs
<1>5. CASE w # v
  <2>1. Len(u) # Len(t) /\ u # t
    BY <1>2, <1>5
  <2>2. u[1] # t[1]
    BY <1>3, <1>5
  <2> QED BY <1>2, <2>1, <2>2 DEF Differs
<1> QED BY <1>4, <1>5

\* The settings in their order: five names, each once.
LEMMA ChosenIs ==
    /\ Registry!Chosen \in Seq(SettingNames) /\ Len(Registry!Chosen) = 5
    /\ \A i, j \in 1..5 : Registry!Chosen[i] = Registry!Chosen[j] => i = j
    /\ \A i \in 1..5 : Registry!Chosen[i] \in SettingNames
    /\ \A n \in SettingNames : \E i \in 1..5 : n = Registry!Chosen[i]
BY DEF Registry!Chosen, SettingNames

\* The names a journal has for its two sets of settings are all different.
LEMMA PrefixedIs ==
  LET d == Registry!Prefixed("desired")
      p == Registry!Prefixed("previous")
      others == {"?", "release", "generation", "operation_id", "base_generation"}
  IN  /\ \A n \in SettingNames : {d[n], p[n]} \subseteq Registry!Names \ others
      /\ \A m, n \in SettingNames : d[m] # p[n] /\ (d[m] = d[n] => m = n) /\ (p[m] = p[n] => m = n)
<1> DEFINE d == Registry!Prefixed("desired")  p == Registry!Prefixed("previous")
<1>1. /\ d["theme"] = "desired_theme" /\ d["fps"] = "desired_fps"
      /\ d["startup"] = "desired_startup" /\ d["display"] = "desired_display"
      /\ d["auto_update"] = "desired_auto_update"
  BY DEF Registry!Prefixed
<1>2. /\ p["theme"] = "previous_theme" /\ p["fps"] = "previous_fps"
      /\ p["startup"] = "previous_startup" /\ p["display"] = "previous_display"
      /\ p["auto_update"] = "previous_auto_update"
  BY DEF Registry!Prefixed
<1>3. \A n \in SettingNames : d[n] \in Registry!Names /\ p[n] \in Registry!Names
  <2>1. DOMAIN Registry!Default = SettingNames
    BY DEF Registry!Default, SettingNames
  <2>2. \A n \in SettingNames :
           d[n] \in UNION {{Registry!Prefixed(of)[m] : m \in DOMAIN Registry!Default} : of \in {"desired", "previous"}}
    BY <2>1
  <2>3. \A n \in SettingNames :
           p[n] \in UNION {{Registry!Prefixed(of)[m] : m \in DOMAIN Registry!Default} : of \in {"desired", "previous"}}
    BY <2>1
  <2> HIDE DEF d, p
  <2> QED BY <2>2, <2>3 DEF Registry!Names
<1> HIDE DEF d, p
<1>4. /\ \A n \in SettingNames :
            {d[n], p[n]} \cap {"?", "release", "generation", "operation_id", "base_generation"} = {}
      /\ \A m, n \in SettingNames : d[m] # p[n] /\ (d[m] = d[n] => m = n) /\ (p[m] = p[n] => m = n)
  BY <1>1, <1>2 DEF SettingNames
<1> QED BY <1>3, <1>4 DEF d, p

\* What the names include.
LEMMA NamesAre ==
    /\ {"?", "release", "generation", "operation_id", "base_generation"} \subseteq Registry!Names
    /\ SettingNames \subseteq Registry!Names
<1>1. DOMAIN Registry!Default = SettingNames
  BY DEF Registry!Default, SettingNames
<1> QED BY <1>1 DEF Registry!Names

\* The first settings of a release.
LEMMA FirstChosen ==
  ASSUME NEW m \in 1..5
  PROVE  LET c == SubSeq(Registry!Chosen, 1, m)
         IN  c \in Seq(SettingNames) /\ Len(c) = m /\ \A i \in 1..m : c[i] = Registry!Chosen[i]
<1>1. \A i \in 1..m : Registry!Chosen[i] \in SettingNames
  BY ChosenIs
<1> DEFINE c == SubSeq(Registry!Chosen, 1, m)
<1>2. /\ c \in Seq(SettingNames) /\ Len(c) = IF 1 <= m THEN m - 1 + 1 ELSE 0
      /\ \A i \in 1..m - 1 + 1 : c[i] = Registry!Chosen[1 + i - 1]
  BY <1>1, SubSeqProperties
<1> HIDE DEF c
<1>3. Len(c) = m
  BY <1>2
<1>4. \A i \in 1..m : c[i] = Registry!Chosen[i]
  <2> SUFFICES ASSUME NEW i \in 1..m PROVE c[i] = Registry!Chosen[i]
    OBVIOUS
  <2>1. i \in 1..m - 1 + 1 /\ 1 + i - 1 = i
    OBVIOUS
  <2> QED BY <1>2, <2>1
<1> QED BY <1>2, <1>3, <1>4 DEF c

Versions == 1..4

\* How many settings a release knows.
LEMMA KnownIs ==
  ASSUME NEW v \in Versions
  PROVE  Registry!Known(v) \in 3..5 /\ Registry!Known(v) = IF v = 1 THEN 3 ELSE v + 1
BY DEF Registry!Known, Versions

\* The names of the record of release v: the numbers and the first settings.
LEMMA RecordLinesAre ==
  ASSUME NEW v \in Versions
  PROVE  LET lines == Registry!RecordLines(v)
         IN  /\ IsLines(lines) /\ Len(lines) = v + 3
             /\ {lines[i] : i \in 1..Len(lines)}
                  = {"generation"} \cup (IF v = 1 THEN {} ELSE {"operation_id"})
                      \cup {Registry!Chosen[i] : i \in 1..Registry!Known(v)}
<1> DEFINE k == Registry!Known(v)  c == SubSeq(Registry!Chosen, 1, k)
           h == IF v = 1 THEN <<"generation">> ELSE <<"generation", "operation_id">>
           m == IF v = 1 THEN 1 ELSE 2
           N == Registry!Names
<1>1. k \in 3..5 /\ k = (IF v = 1 THEN 3 ELSE v + 1) /\ m \in 1..2 /\ m + k = v + 3
  BY KnownIs DEF Versions
<1>2. c \in Seq(SettingNames) /\ Len(c) = k /\ \A i \in 1..k : c[i] = Registry!Chosen[i]
  <2> HIDE DEF k
  <2>1. k \in 1..5
    BY <1>1
  <2> QED BY <2>1, FirstChosen
<1>3. SettingNames \subseteq N /\ "generation" \in N /\ "operation_id" \in N
  BY NamesAre
<1>4. /\ h \in Seq(N) /\ Len(h) = m /\ h[1] = "generation"
      /\ m = 2 => v # 1 /\ h[2] = "operation_id"
      /\ m = 1 => v = 1
  <2> HIDE DEF N
  <2>1. CASE v = 1
    BY <1>3, <2>1
  <2>2. CASE v # 1
    BY <1>3, <2>2
  <2> QED BY <2>1, <2>2
<1>5. Registry!RecordLines(v) = h \o c
  BY DEF Registry!RecordLines
<1> HIDE DEF k, c, h, m, N
<1>6. c \in Seq(N)
  BY <1>2, <1>3, SeqMonotonic
<1> DEFINE l == h \o c
<1>7. /\ l \in Seq(N) /\ Len(l) = Len(h) + Len(c)
      /\ \A i \in 1..Len(h) + Len(c) : l[i] = IF i <= Len(h) THEN h[i] ELSE c[i - Len(h)]
  BY <1>4, <1>6, ConcatProperties
<1> HIDE DEF l
<1>8. Len(l) = v + 3 /\ Len(l) = m + k /\ Len(l) >= 1
  BY <1>1, <1>2, <1>4, <1>7
<1>9. l[1] = "generation" /\ (m = 2 => l[2] = "operation_id")
  <2>1. 1 \in 1..Len(h) + Len(c) /\ 1 <= Len(h)
    BY <1>1, <1>2, <1>4
  <2>2. m = 2 => 2 \in 1..Len(h) + Len(c) /\ 2 <= Len(h)
    BY <1>1, <1>2, <1>4
  <2> QED BY <1>4, <1>7, <2>1, <2>2
<1>10. \A i \in 1..k : l[m + i] = Registry!Chosen[i]
  <2> SUFFICES ASSUME NEW i \in 1..k PROVE l[m + i] = Registry!Chosen[i]
    OBVIOUS
  <2>1. m + i \in 1..Len(h) + Len(c) /\ ~(m + i <= Len(h)) /\ (m + i) - Len(h) = i
    BY <1>1, <1>2, <1>4
  <2>2. l[m + i] = c[(m + i) - Len(h)]
    BY <1>7, <2>1
  <2> QED BY <1>2, <2>1, <2>2
<1>11. ASSUME NEW i \in 1..Len(l)
       PROVE  \/ i = 1 /\ l[i] = "generation"
              \/ i = 2 /\ m = 2 /\ l[i] = "operation_id"
              \/ i - m \in 1..k /\ l[i] = Registry!Chosen[i - m]
  <2>1. i = 1 \/ (i = 2 /\ m = 2) \/ (i - m \in 1..k /\ m + (i - m) = i)
    BY <1>1, <1>8
  <2>2. CASE i - m \in 1..k /\ m + (i - m) = i
    <3> DEFINE e == i - m
    <3>1. e \in 1..k /\ m + e = i
      BY <2>2
    <3> HIDE DEF e
    <3>2. l[i] = Registry!Chosen[e]
      BY <1>10, <3>1
    <3> QED BY <3>1, <3>2 DEF e
  <2> QED BY <1>9, <2>1, <2>2
<1>12. \A i \in 1..k : Registry!Chosen[i] \in SettingNames
  BY <1>1, ChosenIs
<1>13. \A i, j \in 1..k : Registry!Chosen[i] = Registry!Chosen[j] => i = j
  BY <1>1, ChosenIs
<1>14. \A n \in SettingNames : n \notin {"generation", "operation_id", "release", "?"}
  BY DEF SettingNames
<1>15. ASSUME NEW i \in 1..Len(l), NEW j \in 1..Len(l), l[i] = l[j] PROVE i = j
  <2> DEFINE x == i - m  y == j - m
  <2>1. /\ (i = 1 /\ l[i] = "generation") \/ (i = 2 /\ l[i] = "operation_id")
           \/ (x \in 1..k /\ l[i] = Registry!Chosen[x])
        /\ (j = 1 /\ l[j] = "generation") \/ (j = 2 /\ l[j] = "operation_id")
           \/ (y \in 1..k /\ l[j] = Registry!Chosen[y])
    BY <1>11
  <2>2. x = y => i = j
    BY <1>1
  <2> HIDE DEF x, y
  <2>3. x \in 1..k => Registry!Chosen[x] \in SettingNames
    BY <1>12
  <2>4. y \in 1..k => Registry!Chosen[y] \in SettingNames
    BY <1>12
  <2> QED BY <1>13, <1>14, <1>15, <2>1, <2>2, <2>3, <2>4
<1>16. \A i \in 1..Len(l) : l[i] # "release" /\ l[i] # "?"
  BY <1>11, <1>12, <1>14
<1>17. IsLines(l)
  BY <1>7, <1>8, <1>15, <1>16 DEF IsLines, N
<1> DEFINE E == {"generation"} \cup (IF v = 1 THEN {} ELSE {"operation_id"})
                  \cup {Registry!Chosen[i] : i \in 1..k}
<1>18. \A i \in 1..Len(l) : l[i] \in E
  BY <1>4, <1>11
<1>19. ASSUME NEW n \in E PROVE \E i \in 1..Len(l) : n = l[i]
  <2>1. 1 \in 1..Len(l) /\ (m = 2 => 2 \in 1..Len(l)) /\ \A i \in 1..k : m + i \in 1..Len(l)
    BY <1>1, <1>8
  <2>2. n = "generation" \/ (m = 2 /\ n = "operation_id")
        \/ \E i \in 1..k : n = Registry!Chosen[i]
    BY <1>1, <1>4
  <2> QED BY <1>9, <1>10, <2>1, <2>2
<1>20. {l[i] : i \in 1..Len(l)} = E
  <2> HIDE DEF E
  <2> QED BY <1>18, <1>19
<1> QED BY <1>5, <1>8, <1>17, <1>20 DEF l, k

\* The names of the journal of release w: the numbers, the settings desired and
\* the settings before.
LEMMA JournalLinesAre ==
  ASSUME NEW w \in 1..3
  PROVE  LET lines == Registry!JournalLines(w)
             d == Registry!Prefixed("desired")
             p == Registry!Prefixed("previous")
         IN  /\ IsLines(lines) /\ Len(lines) = 2 * w + 6
             /\ {lines[i] : i \in 1..Len(lines)}
                  = {"operation_id", "base_generation"}
                      \cup {d[Registry!Chosen[i]] : i \in 1..w + 2}
                      \cup {p[Registry!Chosen[i]] : i \in 1..w + 2}
<1> DEFINE k == w + 2  c == SubSeq(Registry!Chosen, 1, k)
           d == Registry!Prefixed("desired")  p == Registry!Prefixed("previous")
           C == Registry!Chosen
           h == <<"operation_id", "base_generation">>
           b == [i \in 1..2 * Len(c) |-> IF i <= Len(c) THEN d[c[i]] ELSE p[c[i - Len(c)]]]
           N == Registry!Names
<1>1. k \in 3..5 /\ 2 * w + 6 = 2 + 2 * k /\ k \in Nat
  OBVIOUS
<1>2. c \in Seq(SettingNames) /\ Len(c) = k /\ \A i \in 1..k : c[i] = C[i]
  <2> HIDE DEF k
  <2>1. k \in 1..5
    BY <1>1
  <2> QED BY <2>1, FirstChosen
<1>3. "operation_id" \in N /\ "base_generation" \in N
  BY NamesAre
<1>4. h \in Seq(N) /\ Len(h) = 2 /\ h[1] = "operation_id" /\ h[2] = "base_generation"
  <2> HIDE DEF N
  <2> QED BY <1>3
<1>5. Registry!JournalLines(w) = h \o b
  BY DEF Registry!JournalLines, Registry!Both
<1>6. /\ \A n \in SettingNames : /\ d[n] \in N /\ p[n] \in N
                                 /\ d[n] \notin {"?", "release", "operation_id", "base_generation"}
                                 /\ p[n] \notin {"?", "release", "operation_id", "base_generation"}
      /\ \A n, o \in SettingNames : d[n] # p[o] /\ (d[n] = d[o] => n = o) /\ (p[n] = p[o] => n = o)
  <2> HIDE DEF N
  <2> QED BY PrefixedIs DEF N
<1>7. /\ \A i \in 1..k : C[i] \in SettingNames
      /\ \A i, j \in 1..k : C[i] = C[j] => i = j
  BY <1>1, ChosenIs
<1> HIDE DEF k, c, h, d, p, N, C
<1>8. b \in Seq(N) /\ Len(b) = 2 * k
  <2>1. \A i \in 1..2 * k : (IF i <= k THEN d[c[i]] ELSE p[c[i - k]]) \in N
    <3> SUFFICES ASSUME NEW i \in 1..2 * k
                 PROVE  (IF i <= k THEN d[c[i]] ELSE p[c[i - k]]) \in N
      OBVIOUS
    <3>1. CASE i <= k
      <4>1. i \in 1..k
        BY <3>1
      <4> QED BY <1>2, <1>6, <1>7, <3>1, <4>1
    <3>2. CASE ~(i <= k)
      <4> DEFINE e == i - k
      <4>1. e \in 1..k
        BY <1>1, <3>2
      <4> HIDE DEF e
      <4>2. p[c[e]] \in N
        BY <1>2, <1>6, <1>7, <4>1
      <4> QED BY <3>2, <4>2 DEF e
    <3> QED BY <3>1, <3>2
  <2>2. b \in [1..2 * k -> N]
    BY <1>2, <2>1
  <2> HIDE DEF b
  <2>3. 2 * k \in Nat
    BY <1>1
  <2> QED BY <2>2, <2>3
<1>9. \A i \in 1..k : i \in 1..2 * k /\ k + i \in 1..2 * k /\ ~(k + i <= k) /\ (k + i) - k = i
  BY <1>1
<1>10. \A i \in 1..k : b[i] = d[C[i]] /\ b[k + i] = p[C[i]]
  <2>1. \A i \in 1..2 * k : b[i] = IF i <= k THEN d[c[i]] ELSE p[c[i - k]]
    BY <1>2
  <2> HIDE DEF b
  <2> SUFFICES ASSUME NEW i \in 1..k PROVE b[i] = d[C[i]] /\ b[k + i] = p[C[i]]
    OBVIOUS
  <2>2. b[i] = d[c[i]]
    BY <1>1, <1>9, <2>1
  <2>3. b[k + i] = p[c[(k + i) - k]]
    BY <1>9, <2>1
  <2>4. (k + i) - k = i
    BY <1>9
  <2> QED BY <1>2, <2>2, <2>3, <2>4
<1> HIDE DEF b
<1> DEFINE l == h \o b
<1>11. /\ l \in Seq(N) /\ Len(l) = Len(h) + Len(b)
       /\ \A i \in 1..Len(h) + Len(b) : l[i] = IF i <= Len(h) THEN h[i] ELSE b[i - Len(h)]
  BY <1>4, <1>8, ConcatProperties
<1> HIDE DEF l
<1>12. Len(l) = 2 + 2 * k /\ Len(l) >= 1
  BY <1>1, <1>4, <1>8, <1>11
<1>13. l[1] = "operation_id" /\ l[2] = "base_generation"
  <2>1. 1 \in 1..Len(h) + Len(b) /\ 1 <= Len(h) /\ 2 \in 1..Len(h) + Len(b) /\ 2 <= Len(h)
    BY <1>1, <1>4, <1>8
  <2> QED BY <1>4, <1>11, <2>1
<1>14. \A e \in 1..2 * k : l[2 + e] = b[e]
  <2> SUFFICES ASSUME NEW e \in 1..2 * k PROVE l[2 + e] = b[e]
    OBVIOUS
  <2>1. 2 + e \in 1..Len(h) + Len(b) /\ ~(2 + e <= Len(h)) /\ (2 + e) - Len(h) = e
    BY <1>1, <1>4, <1>8
  <2>2. l[2 + e] = b[(2 + e) - Len(h)]
    BY <1>11, <2>1
  <2> QED BY <2>1, <2>2
<1>15. \A i \in 1..k : l[2 + i] = d[C[i]] /\ l[2 + (k + i)] = p[C[i]]
  BY <1>9, <1>10, <1>14
<1>16. ASSUME NEW i \in 1..Len(l)
       PROVE  \/ i = 1 /\ l[i] = "operation_id"
              \/ i = 2 /\ l[i] = "base_generation"
              \/ \E e \in 1..k : i = 2 + e /\ l[i] = d[C[e]]
              \/ \E e \in 1..k : i = 2 + (k + e) /\ l[i] = p[C[e]]
  <2>1. i = 1 \/ i = 2 \/ (\E e \in 1..k : i = 2 + e) \/ (\E e \in 1..k : i = 2 + (k + e))
    <3>1. CASE i > 2 /\ i <= 2 + k
      <4>1. i - 2 \in 1..k /\ i = 2 + (i - 2)
        BY <1>1, <3>1
      <4> QED BY <4>1
    <3>2. CASE i > 2 + k
      <4>1. i - 2 - k \in 1..k /\ i = 2 + (k + (i - 2 - k))
        BY <1>1, <1>12, <3>2
      <4> QED BY <4>1
    <3> QED BY <1>1, <1>12, <3>1, <3>2
  <2> QED BY <1>13, <1>15, <2>1
<1>17. ASSUME NEW i \in 1..Len(l), NEW j \in 1..Len(l), l[i] = l[j] PROVE i = j
  <2>1. CASE \E e \in 1..k : i = 2 + e /\ l[i] = d[C[e]]
    <3> PICK e \in 1..k : i = 2 + e /\ l[i] = d[C[e]]
      BY <2>1
    <3>1. C[e] \in SettingNames
      BY <1>7
    <3>2. /\ d[C[e]] # "operation_id" /\ d[C[e]] # "base_generation"
          /\ \A q \in 1..k : d[C[e]] # p[C[q]]
      BY <1>6, <1>7, <3>1
    <3>3. l[j] = d[C[e]]
      BY <1>17
    <3>4. PICK q \in 1..k : j = 2 + q /\ l[j] = d[C[q]]
      BY <1>16, <3>2, <3>3
    <3>5. C[q] = C[e]
      BY <1>6, <1>7, <3>1, <3>3, <3>4
    <3> QED BY <1>7, <3>4, <3>5
  <2>2. CASE \E e \in 1..k : i = 2 + (k + e) /\ l[i] = p[C[e]]
    <3> PICK e \in 1..k : i = 2 + (k + e) /\ l[i] = p[C[e]]
      BY <2>2
    <3>1. C[e] \in SettingNames
      BY <1>7
    <3>2. /\ p[C[e]] # "operation_id" /\ p[C[e]] # "base_generation"
          /\ \A q \in 1..k : p[C[e]] # d[C[q]]
      BY <1>6, <1>7, <3>1
    <3>3. l[j] = p[C[e]]
      BY <1>17
    <3>4. PICK q \in 1..k : j = 2 + (k + q) /\ l[j] = p[C[q]]
      BY <1>16, <3>2, <3>3
    <3>5. C[q] = C[e]
      BY <1>6, <1>7, <3>1, <3>3, <3>4
    <3> QED BY <1>7, <3>4, <3>5
  <2>3. CASE i = 1 /\ l[i] = "operation_id"
    BY <1>6, <1>7, <1>16, <1>17, <2>3
  <2>4. CASE i = 2 /\ l[i] = "base_generation"
    BY <1>6, <1>7, <1>16, <1>17, <2>4
  <2> QED BY <1>16, <2>1, <2>2, <2>3, <2>4
<1>18. \A i \in 1..Len(l) : l[i] # "release" /\ l[i] # "?"
  BY <1>6, <1>7, <1>16
<1>19. IsLines(l)
  BY <1>11, <1>12, <1>17, <1>18 DEF IsLines, N
<1> DEFINE E == {"operation_id", "base_generation"} \cup {d[C[i]] : i \in 1..k}
                  \cup {p[C[i]] : i \in 1..k}
<1>20. \A i \in 1..Len(l) : l[i] \in E
  BY <1>16
<1>21. ASSUME NEW n \in E PROVE \E i \in 1..Len(l) : n = l[i]
  <2>1. 1 \in 1..Len(l) /\ 2 \in 1..Len(l)
        /\ \A i \in 1..k : 2 + i \in 1..Len(l) /\ 2 + (k + i) \in 1..Len(l)
    BY <1>1, <1>12
  <2> QED BY <1>13, <1>15, <2>1
<1>22. {l[i] : i \in 1..Len(l)} = E
  <2> HIDE DEF E
  <2> QED BY <1>20, <1>21
<1>23. Len(l) = 2 * w + 6
  BY <1>1, <1>12
<1> QED BY <1>5, <1>19, <1>22, <1>23 DEF l, k, d, p, C

\* A record a release could write.
Writes(v, r) ==
    /\ r \in Registry!Records /\ (v = 1 => r.operation_id = 0)
    /\ \A i \in Registry!Known(v) + 1..5 :
          r[Registry!Chosen[i]] = Registry!Default[Registry!Chosen[i]]

\* A number or a setting makes a line.
LEMMA LineIs ==
  ASSUME NEW n \in Registry!Names, NEW x,
         x \in Nat \/ x \in BOOLEAN \/ x \in Themes \/ x \in Rates \/ x \in Modes
  PROVE  <<n, x>> \in Registry!Lines
BY Zenon DEF Registry!Lines

\* A setting is what a line can hold.
LEMMA OfferedIs ==
  ASSUME NEW s \in Registry!Offered, NEW n \in SettingNames
  PROVE  s[n] \in BOOLEAN \/ s[n] \in Themes \/ s[n] \in Rates \/ s[n] \in Modes
<1>1. /\ s["theme"] \in Themes /\ s["fps"] \in Rates /\ s["startup"] \in Startups
      /\ s["display"] \in Modes /\ s["auto_update"] \in BOOLEAN
  BY DEF Registry!Offered
<1>2. Startups \subseteq BOOLEAN
  BY FilesAssumption DEF FilesAssumption
<1>3. s["startup"] \in BOOLEAN
  BY <1>1, <1>2, Zenon
<1>4. CASE n = "theme"
  BY <1>1, <1>4, Zenon
<1>5. CASE n = "fps"
  BY <1>1, <1>5, Zenon
<1>6. CASE n = "startup"
  BY <1>3, <1>6, Zenon
<1>7. CASE n = "display"
  BY <1>1, <1>7, Zenon
<1>8. CASE n = "auto_update"
  BY <1>1, <1>8, Zenon
<1> QED BY <1>4, <1>5, <1>6, <1>7, <1>8, Zenon DEF SettingNames

\* Each line of a record can be written.
LEMMA RecordStated ==
  ASSUME NEW v \in Versions, NEW r \in Registry!Records
  PROVE  Stating(Registry!RecordLines(v), r)
<1> DEFINE l == Registry!RecordLines(v)
<1>1. /\ l \in Seq(Registry!Names)
      /\ {l[i] : i \in 1..Len(l)}
           = {"generation"} \cup (IF v = 1 THEN {} ELSE {"operation_id"})
               \cup {Registry!Chosen[i] : i \in 1..Registry!Known(v)}
  BY RecordLinesAre DEF IsLines
<1>2. \A i \in 1..Registry!Known(v) : Registry!Chosen[i] \in SettingNames
  BY KnownIs, ChosenIs
<1> HIDE DEF l
<1> SUFFICES ASSUME NEW i \in 1..Len(l) PROVE <<l[i], r[l[i]]>> \in Registry!Lines
  BY DEF Stating, l
<1>3. l[i] \in Registry!Names
  BY <1>1, ElementOfSeq
<1>4. l[i] \in FieldNames
  BY <1>1, <1>2 DEF FieldNames
<1>5. CASE l[i] \in SettingNames
  <2>1. Registry!Settings(r) \in Registry!Offered /\ Registry!Settings(r)[l[i]] = r[l[i]]
    BY <1>5, SettingsAre
  <2>2. r[l[i]] \in BOOLEAN \/ r[l[i]] \in Themes \/ r[l[i]] \in Rates \/ r[l[i]] \in Modes
    BY <1>5, <2>1, OfferedIs, Zenon
  <2> QED BY <1>3, <2>2, LineIs, Zenon
<1>6. CASE l[i] \in {"generation", "operation_id"}
  <2>1. r[l[i]] \in Nat
    BY <1>6 DEF Registry!Records
  <2> QED BY <1>3, <2>1, LineIs, Zenon
<1> QED BY <1>4, <1>5, <1>6 DEF FieldNames

\* A text of this release or an older one is read as the record it was written
\* for.
LEMMA DecodeWhole ==
  ASSUME NEW v \in Versions, NEW r, Writes(v, r)
  PROVE  Registry!Decode(Registry!Text(v, Registry!RecordLines(v), r)) = r
<1> DEFINE l == Registry!RecordLines(v)  t == Registry!Text(v, l, r)
           N == {l[i] : i \in 1..Len(l)}  f == [n \in N |-> r[n]]
           k == Registry!Known(v)
<1>1. /\ IsLines(l) /\ Len(l) = v + 3
      /\ N = {"generation"} \cup (IF v = 1 THEN {} ELSE {"operation_id"})
               \cup {Registry!Chosen[i] : i \in 1..k}
  BY RecordLinesAre
<1>2. Stating(l, r) /\ v \in Nat
  BY RecordStated DEF Writes, Versions
<1>3. Registry!Says(t, v, l) = {f}
  BY <1>1, <1>2, SaysOwn
<1>4. Whole(t, v) /\ Len(t) = Len(l) + 1
  <2> HIDE DEF l
  <2>1. IsLines(l) /\ Stating(l, r) /\ v \in Nat
    BY <1>1, <1>2
  <2> QED BY ONLY <2>1, WholeText
<1> HIDE DEF t, f
<1>5. ASSUME NEW w \in 1..4, w # v PROVE Registry!Says(t, w, Registry!RecordLines(w)) = {}
  <2>1. w \in Versions /\ w \in Nat
    BY DEF Versions
  <2>2. IsLines(Registry!RecordLines(w)) /\ Len(Registry!RecordLines(w)) = w + 3
    BY <2>1, RecordLinesAre
  <2>3. Registry!RecordLines(w) \in Seq(Registry!Names)
    BY <2>2 DEF IsLines
  <2>4. Len(Registry!RecordLines(w)) + 1 # Len(t)
    BY <1>1, <1>2, <1>4, <1>5, <2>2
  <2> QED BY <1>2, <1>4, <1>5, <2>1, <2>3, <2>4, SaysNothing
<1> HIDE DEF l
<1>6. UNION {Registry!Says(t, w, Registry!RecordLines(w)) : w \in 1..4} = {f}
  <2>1. v \in 1..4
    BY DEF Versions
  <2> QED BY <1>3, <1>5, <2>1 DEF l
<1>7. Registry!Decode(t) = Registry!Completed(f, Registry!Fresh)
  <2>1. (CHOOSE s \in {f} : TRUE) = f
    OBVIOUS
  <2> QED BY <1>6, <2>1 DEF Registry!Decode
<1> DEFINE c == Registry!Completed(f, Registry!Fresh)
<1>8. DOMAIN f = N /\ \A n \in N : f[n] = r[n]
  BY DEF f
<1>9. DOMAIN Registry!Fresh = FieldNames
  BY FreshIs DEF Registry!Records, FieldNames, SettingNames
<1>10. c = [n \in FieldNames |-> IF n \in N THEN r[n] ELSE Registry!Fresh[n]]
  <2> HIDE DEF N
  <2> QED BY <1>8, <1>9 DEF Registry!Completed
<1>11. ASSUME NEW n \in FieldNames, n \notin N PROVE r[n] = Registry!Fresh[n]
  <2>1. CASE n = "operation_id"
    BY <1>1, <1>11, <2>1, FreshIs DEF Writes
  <2>2. CASE n \in SettingNames
    <3>1. PICK i \in 1..5 : n = Registry!Chosen[i]
      BY <2>2, ChosenIs
    <3>2. i \notin 1..k
      BY <1>1, <1>11, <3>1
    <3>3. i \in k + 1..5
      BY <3>2, KnownIs
    <3>4. r[n] = Registry!Default[n]
      BY <3>1, <3>3 DEF Writes
    <3> QED BY <2>2, <3>4, FreshIs
  <2> QED BY <1>1, <1>11, <2>1, <2>2 DEF FieldNames
<1>12. r = [n \in FieldNames |-> r[n]]
  BY DEF Writes, Registry!Records, FieldNames, SettingNames
<1>13. c = r
  <2> HIDE DEF N, c
  <2> QED BY <1>10, <1>11, <1>12
<1> QED BY <1>7, <1>13 DEF t, l

\* A damaged text is not read at all.
LEMMA DecodeDamaged ==
  ASSUME NEW v \in Versions, NEW r \in Registry!Records,
         NEW u \in Registry!Damages(Registry!Text(v, Registry!RecordLines(v), r)),
         u # Registry!Text(v, Registry!RecordLines(v), r)
  PROVE  u \in Registry!Texts /\ Registry!Decode(u) = None
<1> DEFINE l == Registry!RecordLines(v)  t == Registry!Text(v, l, r)
<1>1. IsLines(l) /\ Len(l) = v + 3 /\ Stating(l, r) /\ v \in Nat
  <2>1. v \in Nat
    BY DEF Versions
  <2> HIDE DEF Versions
  <2> QED BY <2>1, RecordLinesAre, RecordStated
<1>2. Whole(t, v) /\ Len(t) = Len(l) + 1 /\ \A i \in 1..Len(l) : t[i + 1][1] = l[i]
  <2> HIDE DEF l
  <2>1. IsLines(l) /\ Stating(l, r) /\ v \in Nat
    BY <1>1
  <2> QED BY ONLY <2>1, WholeText
<1> HIDE DEF t
<1>3. u \in Registry!Damages(t) /\ u # t
  BY DEF t
<1>4. u \in Registry!Texts /\ Differs(u, t, v)
  BY <1>1, <1>2, <1>3, DamageSeen
<1>5. ASSUME NEW w \in 1..4 PROVE Registry!Says(u, w, Registry!RecordLines(w)) = {}
  <2> DEFINE m == Registry!RecordLines(w)
  <2>1. w \in Versions /\ w \in Nat
    BY DEF Versions
  <2>2. IsLines(m) /\ Len(m) = w + 3 /\ m \in Seq(Registry!Names)
    BY <2>1, RecordLinesAre DEF IsLines
  <2>3. w # v => Len(m) + 1 # Len(t)
    BY <1>1, <1>2, <2>1, <2>2
  <2>4. w = v => Len(m) + 1 = Len(t) /\ \A i \in 1..Len(m) : m[i] = t[i + 1][1]
    BY <1>2
  <2> HIDE DEF m
  <2>5. Registry!Says(u, w, m) = {}
    BY <1>1, <1>2, <1>3, <1>4, <2>1, <2>2, <2>3, <2>4, SaysNothing
  <2> QED BY <2>5 DEF m
<1>6. Registry!Decode(u) = None
  BY <1>5 DEF Registry!Decode
<1> QED BY <1>4, <1>6

\* What the lines of a journal say: the numbers are 1.
Pair(previous, desired) ==
    [n \in Registry!Names |->
        IF \E m \in DOMAIN Registry!Default : Registry!Prefixed("desired")[m] = n
        THEN desired[CHOOSE m \in DOMAIN Registry!Default : Registry!Prefixed("desired")[m] = n]
        ELSE IF \E m \in DOMAIN Registry!Default : Registry!Prefixed("previous")[m] = n
        THEN previous[CHOOSE m \in DOMAIN Registry!Default : Registry!Prefixed("previous")[m] = n]
        ELSE 1]

\* What the lines of a journal say of its settings.
LEMMA PairIs ==
  ASSUME NEW p, NEW d
  PROVE  /\ \A m \in SettingNames : Pair(p, d)[Registry!Prefixed("desired")[m]] = d[m]
         /\ \A m \in SettingNames : Pair(p, d)[Registry!Prefixed("previous")[m]] = p[m]
         /\ Pair(p, d)["operation_id"] = 1 /\ Pair(p, d)["base_generation"] = 1
<1> DEFINE D == Registry!Prefixed("desired")  P == Registry!Prefixed("previous")
           atD(n) == CHOOSE m \in SettingNames : D[m] = n
           atP(n) == CHOOSE m \in SettingNames : P[m] = n
           f == [n \in Registry!Names |-> IF \E m \in SettingNames : D[m] = n THEN d[atD(n)]
                                          ELSE IF \E m \in SettingNames : P[m] = n THEN p[atP(n)]
                                          ELSE 1]
<1>1. DOMAIN Registry!Default = SettingNames
  BY DEF Registry!Default, SettingNames
<1>2. Pair(p, d) = f
  BY <1>1 DEF Pair
<1>3. /\ \A n \in SettingNames : /\ D[n] \in Registry!Names /\ P[n] \in Registry!Names
                                 /\ D[n] \notin {"operation_id", "base_generation"}
                                 /\ P[n] \notin {"operation_id", "base_generation"}
      /\ \A m, n \in SettingNames : D[m] # P[n] /\ (D[m] = D[n] => m = n) /\ (P[m] = P[n] => m = n)
  BY PrefixedIs
<1>4. {"operation_id", "base_generation"} \subseteq Registry!Names
  BY NamesAre
<1> HIDE DEF D, P
<1>5. \A n \in SettingNames : atD(D[n]) = n
  BY <1>3
<1>6. \A n \in SettingNames : atP(P[n]) = n
  BY <1>3
<1> HIDE DEF atD, atP
<1>7. \A n \in SettingNames : f[D[n]] = d[n]
  BY <1>3, <1>5
<1>8. \A n \in SettingNames : f[P[n]] = p[n]
  BY <1>3, <1>6
<1>9. f["operation_id"] = 1 /\ f["base_generation"] = 1
  BY <1>3, <1>4
<1> QED BY <1>2, <1>7, <1>8, <1>9 DEF D, P

JournalText(w, p, d) == Registry!Text(w, Registry!JournalLines(w), Pair(p, d))

\* Each line of a journal can be written.
LEMMA JournalStated ==
  ASSUME NEW w \in 1..3, NEW p \in Registry!Offered, NEW d \in Registry!Offered
  PROVE  Stating(Registry!JournalLines(w), Pair(p, d))
<1> DEFINE l == Registry!JournalLines(w)  f == Pair(p, d)
           D == Registry!Prefixed("desired")  P == Registry!Prefixed("previous")
<1>1. /\ l \in Seq(Registry!Names)
      /\ {l[i] : i \in 1..Len(l)}
           = {"operation_id", "base_generation"} \cup {D[Registry!Chosen[i]] : i \in 1..w + 2}
               \cup {P[Registry!Chosen[i]] : i \in 1..w + 2}
  BY JournalLinesAre DEF IsLines
<1>2. \A i \in 1..w + 2 : Registry!Chosen[i] \in SettingNames
  BY ChosenIs
<1>3. /\ \A m \in SettingNames : f[D[m]] = d[m] /\ f[P[m]] = p[m]
      /\ f["operation_id"] = 1 /\ f["base_generation"] = 1
  BY PairIs
<1> HIDE DEF l, f, D, P
<1> SUFFICES ASSUME NEW i \in 1..Len(l) PROVE <<l[i], f[l[i]]>> \in Registry!Lines
  BY DEF Stating, l, f
<1>4. l[i] \in Registry!Names
  BY <1>1, ElementOfSeq
<1>5. \/ l[i] \in {"operation_id", "base_generation"}
      \/ \E m \in SettingNames : l[i] = D[m]
      \/ \E m \in SettingNames : l[i] = P[m]
  BY <1>1, <1>2
<1>6. CASE l[i] \in {"operation_id", "base_generation"}
  <2>1. f[l[i]] \in Nat
    BY <1>3, <1>6
  <2> QED BY <1>4, <2>1, LineIs, Zenon
<1>7. CASE \E m \in SettingNames : l[i] = D[m]
  <2> PICK m \in SettingNames : l[i] = D[m]
    BY <1>7
  <2>1. f[l[i]] = d[m]
    BY <1>3
  <2>2. d[m] \in BOOLEAN \/ d[m] \in Themes \/ d[m] \in Rates \/ d[m] \in Modes
    BY OfferedIs, Zenon
  <2> QED BY <1>4, <2>1, <2>2, LineIs, Zenon
<1>8. CASE \E m \in SettingNames : l[i] = P[m]
  <2> PICK m \in SettingNames : l[i] = P[m]
    BY <1>8
  <2>1. f[l[i]] = p[m]
    BY <1>3
  <2>2. p[m] \in BOOLEAN \/ p[m] \in Themes \/ p[m] \in Rates \/ p[m] \in Modes
    BY OfferedIs, Zenon
  <2> QED BY <1>4, <2>1, <2>2, LineIs, Zenon
<1> QED BY <1>5, <1>6, <1>7, <1>8

\* A journal a release left is read as it was written.
LEMMA DecodeJournalWhole ==
  ASSUME NEW w \in 1..3, NEW p \in Registry!Offered, NEW d \in Registry!Offered,
         \A i \in w + 3..5 : /\ p[Registry!Chosen[i]] = Registry!Default[Registry!Chosen[i]]
                             /\ d[Registry!Chosen[i]] = Registry!Default[Registry!Chosen[i]]
  PROVE  Registry!DecodeJournal(JournalText(w, p, d))
            = [operation_id |-> 1, base |-> 1, desired |-> d, previous |-> p]
<1> DEFINE l == Registry!JournalLines(w)  v == Pair(p, d)  t == Registry!Text(w, l, v)
           N == {l[i] : i \in 1..Len(l)}  f == [n \in N |-> v[n]]
           D == Registry!Prefixed("desired")  P == Registry!Prefixed("previous")
           K == {Registry!Chosen[i] : i \in 1..w + 2}
<1>1. /\ IsLines(l) /\ Len(l) = 2 * w + 6
      /\ N = {"operation_id", "base_generation"} \cup {D[Registry!Chosen[i]] : i \in 1..w + 2}
               \cup {P[Registry!Chosen[i]] : i \in 1..w + 2}
  BY JournalLinesAre
<1>2. Stating(l, v) /\ w \in Nat
  BY JournalStated
<1>3. Registry!Says(t, w, l) = {f}
  <2> HIDE DEF v, l
  <2>1. IsLines(l) /\ Stating(l, v) /\ w \in Nat
    BY <1>1, <1>2
  <2>2. Registry!Says(Registry!Text(w, l, v), w, l) = {[n \in {l[i] : i \in 1..Len(l)} |-> v[n]]}
    BY ONLY <2>1, SaysOwn
  <2> QED BY <2>2
<1>4. Whole(t, w) /\ Len(t) = Len(l) + 1
  <2> HIDE DEF l, v
  <2>1. IsLines(l) /\ Stating(l, v) /\ w \in Nat
    BY <1>1, <1>2
  <2> QED BY ONLY <2>1, WholeText
<1> HIDE DEF t, f
<1>5. ASSUME NEW x \in 1..3, x # w PROVE Registry!Says(t, x, Registry!JournalLines(x)) = {}
  <2>1. IsLines(Registry!JournalLines(x)) /\ Len(Registry!JournalLines(x)) = 2 * x + 6
    BY JournalLinesAre
  <2>2. Registry!JournalLines(x) \in Seq(Registry!Names) /\ x \in Nat
    BY <2>1 DEF IsLines
  <2>3. Len(Registry!JournalLines(x)) + 1 # Len(t)
    BY <1>1, <1>4, <1>5, <2>1
  <2> QED BY <1>2, <1>4, <1>5, <2>2, <2>3, SaysNothing
<1> HIDE DEF l
<1>6. UNION {Registry!Says(t, x, Registry!JournalLines(x)) : x \in 1..3} = {f}
  BY <1>3, <1>5 DEF l
<1> DEFINE of(g) == Registry!Completed([n \in {n \in DOMAIN Registry!Default : g[n] \in DOMAIN f}
                                          |-> f[g[n]]], Registry!Default)
<1>7. Registry!DecodeJournal(t)
        = [operation_id |-> f["operation_id"], base |-> f["base_generation"],
           desired |-> of(D), previous |-> of(P)]
  <2>1. (CHOOSE s \in {f} : TRUE) = f
    OBVIOUS
  <2> QED BY <1>6, <2>1 DEF Registry!DecodeJournal
<1>8. DOMAIN f = N /\ \A n \in N : f[n] = v[n]
  BY DEF f
<1>9. DOMAIN Registry!Default = SettingNames
  BY DEF Registry!Default, SettingNames
<1>10. K \subseteq SettingNames
  BY ChosenIs
<1>11. /\ \A m \in SettingNames : v[D[m]] = d[m] /\ v[P[m]] = p[m]
       /\ v["operation_id"] = 1 /\ v["base_generation"] = 1
  BY PairIs
<1>12. /\ \A n \in SettingNames : /\ D[n] \notin {"operation_id", "base_generation"}
                                  /\ P[n] \notin {"operation_id", "base_generation"}
       /\ \A m, n \in SettingNames : D[m] # P[n] /\ (D[m] = D[n] => m = n) /\ (P[m] = P[n] => m = n)
  BY PrefixedIs
<1>13. N = {"operation_id", "base_generation"} \cup {D[n] : n \in K} \cup {P[n] : n \in K}
  <2>1. /\ {D[Registry!Chosen[i]] : i \in 1..w + 2} = {D[n] : n \in K}
        /\ {P[Registry!Chosen[i]] : i \in 1..w + 2} = {P[n] : n \in K}
    <3> HIDE DEF D, P
    <3> QED OBVIOUS
  <2> QED BY <1>1, <2>1, Zenon
<1>14. \A n \in SettingNames : /\ n \notin K => d[n] = Registry!Default[n]
                               /\ n \notin K => p[n] = Registry!Default[n]
  <2> SUFFICES ASSUME NEW n \in SettingNames, n \notin K
               PROVE  d[n] = Registry!Default[n] /\ p[n] = Registry!Default[n]
    OBVIOUS
  <2>1. PICK i \in 1..5 : n = Registry!Chosen[i]
    BY ChosenIs
  <2>2. i \in w + 3..5
    BY <2>1
  <2> QED BY <2>1, <2>2
<1> HIDE DEF N, K, D, P, v
<1>15. d = [n \in SettingNames |-> d[n]] /\ p = [n \in SettingNames |-> p[n]]
  BY DEF Registry!Offered, SettingNames
<1>16. /\ \A n \in SettingNames : D[n] \in N <=> n \in K
       /\ \A n \in SettingNames : P[n] \in N <=> n \in K
  BY <1>10, <1>12, <1>13
<1>17. of(D) = d
  <2> DEFINE g == [n \in {n \in SettingNames : D[n] \in DOMAIN f} |-> f[D[n]]]
  <2>1. DOMAIN g = K /\ \A n \in K : g[n] = d[n]
    BY <1>8, <1>10, <1>11, <1>16
  <2>2. of(D) = Registry!Completed(g, Registry!Default)
    BY <1>9
  <2> HIDE DEF g
  <2>3. Registry!Completed(g, Registry!Default)
          = [n \in SettingNames |-> IF n \in K THEN d[n] ELSE Registry!Default[n]]
    BY <1>9, <1>10, <2>1 DEF Registry!Completed
  <2> QED BY <1>14, <1>15, <2>2, <2>3
<1>18. of(P) = p
  <2> DEFINE g == [n \in {n \in SettingNames : P[n] \in DOMAIN f} |-> f[P[n]]]
  <2>1. DOMAIN g = K /\ \A n \in K : g[n] = p[n]
    BY <1>8, <1>10, <1>11, <1>16
  <2>2. of(P) = Registry!Completed(g, Registry!Default)
    BY <1>9
  <2> HIDE DEF g
  <2>3. Registry!Completed(g, Registry!Default)
          = [n \in SettingNames |-> IF n \in K THEN p[n] ELSE Registry!Default[n]]
    BY <1>9, <1>10, <2>1 DEF Registry!Completed
  <2> QED BY <1>14, <1>15, <2>2, <2>3
<1>19. f["operation_id"] = 1 /\ f["base_generation"] = 1
  BY <1>8, <1>11, <1>13
<1> HIDE DEF of
<1> QED BY <1>7, <1>17, <1>18, <1>19 DEF JournalText, t, l, v

\* A damaged journal is not read at all.
LEMMA DecodeJournalDamaged ==
  ASSUME NEW w \in 1..3, NEW p \in Registry!Offered, NEW d \in Registry!Offered,
         NEW u \in Registry!Damages(JournalText(w, p, d)), u # JournalText(w, p, d)
  PROVE  u \in Registry!Texts /\ Registry!DecodeJournal(u) = None
<1> DEFINE l == Registry!JournalLines(w)  v == Pair(p, d)  t == Registry!Text(w, l, v)
<1>1. IsLines(l) /\ Len(l) = 2 * w + 6 /\ Stating(l, v) /\ w \in Nat
  <2>1. IsLines(l) /\ Len(l) = 2 * w + 6
    BY JournalLinesAre
  <2>2. Stating(l, v) /\ w \in Nat
    BY JournalStated
  <2> QED BY <2>1, <2>2
<1> HIDE DEF v, l
<1>2. Whole(t, w) /\ Len(t) = Len(l) + 1 /\ \A i \in 1..Len(l) : t[i + 1][1] = l[i]
  <2>1. IsLines(l) /\ Stating(l, v) /\ w \in Nat
    BY <1>1
  <2> QED BY ONLY <2>1, WholeText
<1>3. u \in Registry!Damages(t) /\ u # t
  BY DEF JournalText, v, l
<1> HIDE DEF t
<1>l. l = Registry!JournalLines(w)
  BY DEF l
<1>4. u \in Registry!Texts /\ Differs(u, t, w)
  BY <1>1, <1>2, <1>3, DamageSeen
<1>5. ASSUME NEW x \in 1..3 PROVE Registry!Says(u, x, Registry!JournalLines(x)) = {}
  <2> DEFINE m == Registry!JournalLines(x)
  <2>1. IsLines(m) /\ Len(m) = 2 * x + 6 /\ m \in Seq(Registry!Names) /\ x \in Nat
    <3>1. IsLines(m) /\ Len(m) = 2 * x + 6
      BY JournalLinesAre
    <3> QED BY <3>1 DEF IsLines
  <2>2. x # w => Len(m) + 1 # Len(t)
    BY <1>1, <1>2, <2>1
  <2>3. x = w => Len(m) + 1 = Len(t) /\ \A i \in 1..Len(m) : m[i] = t[i + 1][1]
    BY <1>2, <1>l
  <2> HIDE DEF m
  <2>4. Registry!Says(u, x, m) = {}
    BY <1>1, <1>2, <1>3, <1>4, <2>1, <2>2, <2>3, SaysNothing
  <2> QED BY <2>4 DEF m
<1>6. Registry!DecodeJournal(u) = None
  BY <1>5 DEF Registry!DecodeJournal
<1> QED BY <1>4, <1>6

\* None is no record, no journal and no text.
LEMMA NoneIs ==
    /\ None \notin Registry!Records /\ None \notin Registry!Journals
    /\ None \notin Registry!Texts
BY FilesAssumption DEF FilesAssumption

\* A step of MCFiles is one of SettingsText or leaves its variables alone.
LEMMA RegistrySteps ==
  ASSUME [FilesNext]_filesVars
  PROVE  [Registry!Next]_textVars
BY DEF FilesNext, filesVars, OfStore, OfRoot, OfHistory, OfLogin, OfOtak, OfRegistry, textVars

\* The record is the text of what was saved last, in the form of some release,
\* or damaged so that it is not read.
RecordTold ==
    /\ record = None =>
          journal = None /\ saved = Registry!Record(0, 0, Registry!Completed(legacy, Registry!Default))
    /\ record # None =>
          \/ \E v \in Versions :
                Writes(v, saved) /\ record = Registry!Text(v, Registry!RecordLines(v), saved)
          \/ spoilt > 0 /\ Registry!Decode(record) = None

\* A journal names two sets of settings, one of which is the record's, or is
\* damaged so that it is not read.
JournalTold ==
    journal # None =>
        \/ \E w \in 1..3, p, d \in Registry!Offered :
              /\ \A i \in w + 3..5 :
                    /\ p[Registry!Chosen[i]] = Registry!Default[Registry!Chosen[i]]
                    /\ d[Registry!Chosen[i]] = Registry!Default[Registry!Chosen[i]]
              /\ journal = JournalText(w, p, d)
              /\ spoilt = 0 => Registry!Settings(saved) = IF saved.operation_id = 1 THEN d ELSE p
        \/ spoilt > 0 /\ Registry!DecodeJournal(journal) = None

\* The invariant: the texts are told, and while the application runs undamaged it
\* goes by the settings that were saved and has no journal left.
KeyInv ==
    /\ saved \in Registry!Records /\ app \in Registry!Records \cup {None}
    /\ spoilt \in 0..MaxSpoilt
    /\ RecordTold /\ JournalTold
    /\ spoilt = 0 /\ app # None =>
          journal = None /\ Registry!Settings(app) = Registry!Settings(saved)

\* What is read is what was saved last, or the defaults if a line is damaged.
LEMMA LoadedIs ==
  ASSUME KeyInv
  PROVE  /\ Registry!Loaded \in Registry!Records
         /\ Registry!Loaded \in {saved, Registry!Fresh}
         /\ spoilt = 0 => Registry!Loaded = saved
<1>1. CASE record = None
  BY <1>1 DEF KeyInv, RecordTold, Registry!Loaded
<1>2. CASE \E v \in Versions :
               /\ record # None /\ Writes(v, saved)
               /\ record = Registry!Text(v, Registry!RecordLines(v), saved)
  <2>1. Registry!Decode(record) = saved
    BY <1>2, DecodeWhole
  <2> QED BY <1>2, <2>1, NoneIs DEF KeyInv, Registry!Loaded
<1>3. CASE record # None /\ spoilt > 0 /\ Registry!Decode(record) = None
  BY <1>3, FreshIs DEF Registry!Loaded
<1> QED BY <1>1, <1>2, <1>3 DEF KeyInv, RecordTold

\* What this release writes it reads.
LEMMA EncodeIs ==
  ASSUME NEW r \in Registry!Records
  PROVE  /\ Writes(4, r) /\ 4 \in Versions /\ Registry!Encode(r) # None
         /\ Registry!Encode(r) = Registry!Text(4, Registry!RecordLines(4), r)
         /\ Registry!Decode(Registry!Encode(r)) = r
<1>1. 4 \in Versions
  BY DEF Versions
<1>2. Writes(4, r)
  <2>1. Registry!Known(4) + 1..5 = {}
    BY <1>1, KnownIs
  <2> QED BY <2>1 DEF Writes
<1>3. Registry!Encode(r) = Registry!Text(4, Registry!RecordLines(4), r)
  BY DEF Registry!Encode
<1>4. Registry!Encode(r) \in Registry!Texts
  <2>1. IsLines(Registry!RecordLines(4)) /\ Stating(Registry!RecordLines(4), r) /\ 4 \in Nat
    BY <1>1, RecordLinesAre, RecordStated
  <2> QED BY <1>3, <2>1, TextIs DEF IsLines, Stating
<1> QED BY <1>1, <1>2, <1>3, <1>4, NoneIs, DecodeWhole

\* A write leaves the key as it was or with the record it was given.
LEMMA WriteIs ==
  ASSUME KeyInv, NEW found, NEW expected, NEW r \in Registry!Records,
         Registry!Write(found, expected, r), spoilt' = spoilt,
         journal' \in {None, journal}
  PROVE  /\ saved' \in Registry!Records /\ RecordTold'
         /\ \/ UNCHANGED <<record, saved, legacy>> /\ found.generation # expected
            \/ /\ found.generation = expected /\ saved' = r /\ record' = Registry!Encode(r)
               /\ Registry!Loaded' = r
<1>1. CASE found.generation = expected
  <2>1. record' = Registry!Encode(r) /\ saved' = r
    BY <1>1 DEF Registry!Write
  <2>2. record' # None /\ Registry!Decode(record') = r
    BY <2>1, EncodeIs
  <2>3. Registry!Loaded' = r
    BY <2>2, NoneIs DEF Registry!Loaded
  <2>4. RecordTold'
    BY <2>1, <2>2, EncodeIs DEF RecordTold
  <2> QED BY <1>1, <2>1, <2>3, <2>4
<1>2. CASE found.generation # expected
  <2>1. UNCHANGED <<record, saved, legacy>>
    BY <1>2 DEF Registry!Write
  <2>2. RecordTold'
    BY <2>1 DEF KeyInv, RecordTold
  <2> QED BY <1>2, <2>1, <2>2 DEF KeyInv
<1> QED BY <1>1, <1>2

\* With at most one damaged line, the line damaged is the first.
LEMMA MostSpoilt ==
  ASSUME MaxSpoilt <= 1
  PROVE  MaxSpoilt \in Nat /\ \A n \in 0..MaxSpoilt : n < MaxSpoilt => n = 0
BY FilesAssumption DEF FilesAssumption

\* Whatever a release left behind, the invariant holds at the start.
LEMMA KeyInitial == FilesInit => KeyInv
<1> SUFFICES ASSUME Registry!Init PROVE KeyInv
  BY DEF FilesInit
<1>1. app = None /\ spoilt = 0 /\ spoilt \in 0..MaxSpoilt
  <2>1. MaxSpoilt \in Nat
    BY FilesAssumption DEF FilesAssumption
  <2> QED BY <2>1 DEF Registry!Init
<1>2. CASE /\ record = None /\ journal = None
           /\ \E names \in SUBSET {"theme", "fps", "startup"}, s \in Registry!Of(1) :
                /\ legacy = [n \in names |-> s[n]]
                /\ saved = Registry!Record(0, 0, Registry!Completed(legacy, Registry!Default))
  <2> PICK names \in SUBSET {"theme", "fps", "startup"}, s \in Registry!Of(1) :
              /\ legacy = [n \in names |-> s[n]]
              /\ saved = Registry!Record(0, 0, Registry!Completed(legacy, Registry!Default))
    BY <1>2
  <2>1. DOMAIN Registry!Default = SettingNames
    BY DEF Registry!Default, SettingNames
  <2>2. Registry!Completed(legacy, Registry!Default)
          = [n \in SettingNames |-> IF n \in names THEN s[n] ELSE Registry!Default[n]]
    BY <2>1 DEF Registry!Completed
  <2>3. s \in Registry!Offered /\ Registry!Default \in Registry!Offered
    BY FreshIs DEF Registry!Of
  <2>4. [n \in SettingNames |-> IF n \in names THEN s[n] ELSE Registry!Default[n]] \in Registry!Offered
    BY <2>3 DEF Registry!Offered, SettingNames
  <2>5. saved \in Registry!Records
    BY <2>2, <2>4, RecordIs
  <2> QED BY <1>1, <1>2, <2>5 DEF KeyInv, RecordTold, JournalTold
<1>3. ASSUME NEW v \in 1..4, NEW s \in Registry!Of(v), NEW g \in Nat, NEW o \in Nat,
             saved = Registry!Record(g, o, s), v = 1 => o = 0,
             record = Registry!Text(v, Registry!RecordLines(v), saved)
      PROVE  saved \in Registry!Records /\ RecordTold
  <2>1. v \in Versions /\ v \in Nat /\ s \in Registry!Offered
    BY DEF Versions, Registry!Of
  <2>2. /\ saved \in Registry!Records /\ saved.operation_id = o
        /\ \A n \in SettingNames : saved[n] = s[n]
    BY <1>3, <2>1, RecordIs
  <2>3. \A i \in Registry!Known(v) + 1..5 :
           saved[Registry!Chosen[i]] = Registry!Default[Registry!Chosen[i]]
    <3> SUFFICES ASSUME NEW i \in Registry!Known(v) + 1..5
                 PROVE  saved[Registry!Chosen[i]] = Registry!Default[Registry!Chosen[i]]
      OBVIOUS
    <3>1. i \in 1..5
      BY <2>1, KnownIs
    <3>2. Registry!Chosen[i] \in SettingNames
      BY <3>1, ChosenIs
    <3> QED BY <2>2, <3>2 DEF Registry!Of
  <2>4. Writes(v, saved)
    BY <1>3, <2>2, <2>3 DEF Writes
  <2>5. IsLines(Registry!RecordLines(v)) /\ Stating(Registry!RecordLines(v), saved)
    BY <2>1, <2>2, RecordLinesAre, RecordStated
  <2>6. record # None
    BY <1>3, <2>1, <2>5, TextIs, NoneIs DEF IsLines, Stating
  <2> QED BY <1>3, <2>1, <2>2, <2>4, <2>6 DEF RecordTold
<1>4. CASE \E v \in 1..4 :
             /\ journal = None /\ \E s \in Registry!Of(v) : saved = Registry!Record(1, 0, s)
             /\ record = Registry!Text(v, Registry!RecordLines(v), saved)
  BY <1>1, <1>3, <1>4 DEF KeyInv, JournalTold
<1>5. CASE \E v \in 1..4 :
             /\ v > 1
             /\ \E p, d \in Registry!Of(v) : p # d /\ Registry!Interrupted(v, p, d)
             /\ record = Registry!Text(v, Registry!RecordLines(v), saved)
  <2> PICK v \in 1..4 :
             /\ v > 1
             /\ \E p, d \in Registry!Of(v) : p # d /\ Registry!Interrupted(v, p, d)
             /\ record = Registry!Text(v, Registry!RecordLines(v), saved)
    BY <1>5
  <2> PICK p \in Registry!Of(v), d \in Registry!Of(v) : Registry!Interrupted(v, p, d)
    OBVIOUS
  <2>1. p \in Registry!Offered /\ d \in Registry!Offered
    BY DEF Registry!Of
  <2>2. journal = JournalText(v - 1, p, d)
    BY DEF Registry!Interrupted, JournalText, Pair
  <2>3. saved \in {Registry!Record(1, 0, p), Registry!Record(2, 1, d)}
    BY DEF Registry!Interrupted
  <2>4. saved \in Registry!Records /\ RecordTold
    BY <1>3, <2>3
  <2>5. Registry!Settings(saved) = IF saved.operation_id = 1 THEN d ELSE p
    BY <2>1, <2>3, RecordIs
  <2> DEFINE w == v - 1
  <2>6. w \in 1..3 /\ w + 3 = Registry!Known(v) + 1
    BY KnownIs DEF Versions
  <2>7. \A i \in w + 3..5 : /\ p[Registry!Chosen[i]] = Registry!Default[Registry!Chosen[i]]
                            /\ d[Registry!Chosen[i]] = Registry!Default[Registry!Chosen[i]]
    BY <2>6 DEF Registry!Of
  <2>8. JournalTold
    <3> HIDE DEF w
    <3> QED BY <2>1, <2>2, <2>5, <2>6, <2>7 DEF JournalTold, w
  <2> QED BY <1>1, <2>4, <2>8 DEF KeyInv
<1>6. record = None \/ record # None
  OBVIOUS
<1> QED BY <1>2, <1>4, <1>5 DEF Registry!Init

\* What is read of a journal: nothing if it is damaged, else its two sets of settings.
LEMMA JournalIs ==
  ASSUME KeyInv, journal # None
  PROVE  \/ Registry!DecodeJournal(journal) = None /\ spoilt > 0
         \/ \E p, d \in Registry!Offered :
               /\ Registry!DecodeJournal(journal)
                    = [operation_id |-> 1, base |-> 1, desired |-> d, previous |-> p]
               /\ Registry!DecodeJournal(journal) # None
               /\ spoilt = 0 => Registry!Settings(saved) = IF saved.operation_id = 1 THEN d ELSE p
<1>1. CASE spoilt > 0 /\ Registry!DecodeJournal(journal) = None
  BY <1>1
<1>2. ASSUME NEW w \in 1..3, NEW p \in Registry!Offered, NEW d \in Registry!Offered,
             \A i \in w + 3..5 : /\ p[Registry!Chosen[i]] = Registry!Default[Registry!Chosen[i]]
                                 /\ d[Registry!Chosen[i]] = Registry!Default[Registry!Chosen[i]],
             journal = JournalText(w, p, d),
             spoilt = 0 => Registry!Settings(saved) = IF saved.operation_id = 1 THEN d ELSE p
      PROVE  \E p_1, d_1 \in Registry!Offered :
               /\ Registry!DecodeJournal(journal)
                    = [operation_id |-> 1, base |-> 1, desired |-> d_1, previous |-> p_1]
               /\ Registry!DecodeJournal(journal) # None
               /\ spoilt = 0 =>
                    Registry!Settings(saved) = IF saved.operation_id = 1 THEN d_1 ELSE p_1
  <2> DEFINE j == [operation_id |-> 1, base |-> 1, desired |-> d, previous |-> p]
  <2>1. Registry!DecodeJournal(journal) = j
    BY <1>2, DecodeJournalWhole
  <2>2. j \in Registry!Journals
    BY DEF Registry!Journals
  <2>3. j # None
    BY <2>2, NoneIs
  <2> QED BY <1>2, <2>1, <2>3
<1> QED BY <1>1, <1>2 DEF KeyInv, JournalTold

\* A start keeps the invariant, whether it finishes a commit or undoes it.
LEMMA StartKeeps == ASSUME KeyInv, Registry!Start PROVE KeyInv'
<1>1. app = None /\ spoilt' = spoilt /\ spoilt' \in 0..MaxSpoilt
  BY DEF Registry!Start, KeyInv
<1> DEFINE j == IF journal = None THEN None ELSE Registry!DecodeJournal(journal)
           r == Registry!Loaded
<1>2. journal' = IF j # None THEN None ELSE journal
  BY DEF Registry!Start
<1>3. app' = Registry!Loaded'
  BY DEF Registry!Start
<1>4. r \in Registry!Records /\ r \in {saved, Registry!Fresh} /\ (spoilt = 0 => r = saved)
  BY LoadedIs
<1>5. spoilt' = 0 => journal' = None
  BY <1>1, <1>2, JournalIs
<1>6. JournalTold'
  <2>1. journal' # None => journal' = journal /\ Registry!DecodeJournal(journal) = None /\ spoilt > 0
    BY <1>2, JournalIs
  <2> QED BY <1>1, <2>1 DEF JournalTold
<1> HIDE DEF r
<1>7. CASE \E undone \in BOOLEAN :
             /\ j # None /\ undone /\ r.operation_id = j.operation_id
             /\ Registry!Settings(r) = j.desired
             /\ Registry!Write(r, r.generation,
                     Registry!Record(r.generation + 1, j.operation_id, j.previous))
  <2> DEFINE q == Registry!Record(r.generation + 1, j.operation_id, j.previous)
  <2>1. PICK p \in Registry!Offered, d \in Registry!Offered :
           j = [operation_id |-> 1, base |-> 1, desired |-> d, previous |-> p]
    BY <1>7, JournalIs
  <2>2. r.generation \in Nat
    BY <1>4 DEF Registry!Records
  <2>3. q \in Registry!Records
    <3>1. j.operation_id = 1 /\ j.previous = p /\ r.generation + 1 \in Nat
      BY <2>1, <2>2
    <3> QED BY <3>1, RecordIs
  <2>4. Registry!Write(r, r.generation, q)
    BY <1>7
  <2> HIDE DEF q
  <2>5. journal' \in {None, journal}
    BY <1>2
  <2>6. saved' = q /\ Registry!Loaded' = q /\ RecordTold'
    BY <1>1, <2>3, <2>4, <2>5, WriteIs
  <2> QED BY <1>1, <1>3, <1>5, <1>6, <2>3, <2>6 DEF KeyInv
<1>8. CASE UNCHANGED <<record, saved, legacy>>
  <2>1. Registry!Loaded' = r
    BY <1>8 DEF Registry!Loaded, r
  <2>2. RecordTold'
    BY <1>1, <1>2, <1>8 DEF KeyInv, RecordTold
  <2> QED BY <1>1, <1>3, <1>4, <1>5, <1>6, <1>8, <2>1, <2>2 DEF KeyInv
<1> QED
  <2>1. \E undone \in BOOLEAN :
          IF j # None /\ undone /\ r.operation_id = j.operation_id /\ Registry!Settings(r) = j.desired
          THEN Registry!Write(r, r.generation,
                     Registry!Record(r.generation + 1, j.operation_id, j.previous))
          ELSE UNCHANGED <<record, saved, legacy>>
    BY DEF Registry!Start, r
  <2> HIDE DEF j
  <2> QED BY <1>7, <1>8, <2>1 DEF j

\* What the application keeps after a commit is a record with the settings asked for.
LEMMA AdoptedIs ==
  ASSUME app \in Registry!Records, NEW r \in Registry!Records, NEW s \in Registry!Offered
  PROVE  Registry!Adopted(r, s) \in Registry!Records
         /\ Registry!Settings(Registry!Adopted(r, s)) = s
<1> DEFINE o == IF r.operation_id > app.operation_id THEN r.operation_id ELSE app.operation_id
<1>1. r.generation \in Nat /\ o \in Nat
  BY DEF Registry!Records
<1>2. Registry!Adopted(r, s) = Registry!Record(r.generation, o, s)
  BY DEF Registry!Adopted
<1> HIDE DEF o
<1> QED BY <1>1, <1>2, RecordIs

\* A commit keeps the invariant, whichever of its reads fails.
LEMMA CommitKeeps == ASSUME KeyInv, Registry!Commit PROVE KeyInv'
<1>1. app # None /\ app \in Registry!Records /\ spoilt' = spoilt /\ spoilt' \in 0..MaxSpoilt
  BY DEF Registry!Commit, KeyInv
<1> DEFINE read(i, fails) == IF fails = i THEN Registry!Fresh ELSE Registry!Loaded
           new(s) == Registry!Record(app.generation + 1, app.operation_id + 1, s)
<1> PICK s \in Registry!Offered \ {Registry!Settings(app)}, fails \in 0..3 :
           IF read(1, fails).generation # app.generation
           THEN /\ app' = Registry!Adopted(read(1, fails), Registry!Settings(app))
                /\ UNCHANGED <<record, journal, legacy, saved>>
           ELSE /\ journal' = None
                /\ Registry!Write(read(2, fails), app.generation, new(s))
                /\ app' = IF record' = record
                          THEN Registry!Adopted(read(1, fails), Registry!Settings(app))
                          ELSE Registry!Adopted(IF fails = 3 THEN Registry!Fresh ELSE new(s), s)
  BY DEF Registry!Commit, Registry!texts
<1> DEFINE r == new(s)
<1>2. \A i \in 1..2 : read(i, fails) \in Registry!Records
  BY LoadedIs, FreshIs
<1>3. s \in Registry!Offered /\ s # Registry!Settings(app) /\ Registry!Settings(app) \in Registry!Offered
  BY <1>1, SettingsAre
<1>4. r \in Registry!Records /\ Registry!Settings(r) = s
  <2>1. app.generation + 1 \in Nat /\ app.operation_id + 1 \in Nat
    BY <1>1 DEF Registry!Records
  <2> QED BY <1>3, <2>1, RecordIs
<1> HIDE DEF read, new
<1>5. CASE read(1, fails).generation # app.generation
  <2>1. app' = Registry!Adopted(read(1, fails), Registry!Settings(app))
        /\ UNCHANGED <<record, journal, legacy, saved>>
    BY <1>5
  <2>2. app' \in Registry!Records /\ Registry!Settings(app') = Registry!Settings(app)
    BY <1>1, <1>2, <1>3, <2>1, AdoptedIs
  <2>3. RecordTold' /\ JournalTold'
    BY <1>1, <2>1 DEF KeyInv, RecordTold, JournalTold
  <2> QED BY <1>1, <2>1, <2>2, <2>3 DEF KeyInv
<1>6. CASE read(1, fails).generation = app.generation
  <2> DEFINE old == Registry!Adopted(read(1, fails), Registry!Settings(app))
             next == Registry!Adopted(IF fails = 3 THEN Registry!Fresh ELSE r, s)
  <2>1. /\ journal' = None /\ Registry!Write(read(2, fails), app.generation, r)
        /\ app' = IF record' = record THEN old ELSE next
    BY <1>6
  <2>2. JournalTold'
    BY <2>1 DEF JournalTold
  <2>3. old \in Registry!Records /\ Registry!Settings(old) = Registry!Settings(app)
    BY <1>1, <1>2, <1>3, AdoptedIs
  <2>4. next \in Registry!Records /\ Registry!Settings(next) = s
    <3>1. (IF fails = 3 THEN Registry!Fresh ELSE r) \in Registry!Records
      BY <1>4, FreshIs
    <3> QED BY <1>1, <1>3, <3>1, AdoptedIs
  <2> HIDE DEF old, next, r
  <2>5. /\ saved' \in Registry!Records /\ RecordTold'
        /\ \/ UNCHANGED <<record, saved, legacy>>
           \/ /\ saved' = r /\ record' = Registry!Encode(r)
              /\ Registry!Loaded' = r
    BY <1>1, <1>4, <2>1, WriteIs
  <2>6. CASE UNCHANGED <<record, saved, legacy>>
    BY <1>1, <2>1, <2>2, <2>3, <2>5, <2>6 DEF KeyInv
  <2>7. CASE saved' = r /\ record' = Registry!Encode(r) /\ Registry!Loaded' = r
    <3>1. ASSUME spoilt = 0, record' = record PROVE FALSE
      <4>1. Registry!Loaded = saved
        BY <3>1, LoadedIs
      <4>2. Registry!Decode(record) = r /\ record # None
        BY <1>4, <2>7, <3>1, EncodeIs
      <4>3. Registry!Loaded = r
        BY <1>4, <4>2, NoneIs DEF Registry!Loaded
      <4> QED BY <1>1, <1>3, <1>4, <3>1, <4>1, <4>3 DEF KeyInv
    <3> QED BY <1>1, <1>4, <2>1, <2>2, <2>3, <2>4, <2>5, <2>7, <3>1 DEF KeyInv
  <2> QED BY <2>5, <2>6, <2>7
<1> QED BY <1>5, <1>6

\* The save at the exit keeps it.
LEMMA ExitKeeps == ASSUME KeyInv, Registry!Exit PROVE KeyInv'
<1>1. /\ app \in Registry!Records /\ app # None /\ app' = None /\ journal' = journal /\ spoilt' = spoilt
      /\ spoilt' \in 0..MaxSpoilt
  BY DEF Registry!Exit, KeyInv
<1> PICK first \in Registry!Reads, second \in Registry!Reads :
           Registry!Write(second, first.generation,
               Registry!Record(first.generation + 1, first.operation_id, Registry!Settings(app)))
  BY DEF Registry!Exit
<1> DEFINE r == Registry!Record(first.generation + 1, first.operation_id, Registry!Settings(app))
<1>2. first \in Registry!Records
  BY LoadedIs, FreshIs DEF Registry!Reads
<1>3. r \in Registry!Records
  <2>1. first.generation + 1 \in Nat /\ first.operation_id \in Nat
    BY <1>2 DEF Registry!Records
  <2>2. Registry!Settings(app) \in Registry!Offered
    BY <1>1, SettingsAre
  <2> QED BY <2>1, <2>2, RecordIs
<1> HIDE DEF r
<1>4. Registry!Write(second, first.generation, r)
  BY DEF r
<1>5. saved' \in Registry!Records /\ RecordTold'
  BY <1>1, <1>3, <1>4, WriteIs
<1>6. JournalTold'
  <2>1. spoilt = 0 => journal = None
    BY <1>1 DEF KeyInv
  <2> QED BY <1>1, <2>1 DEF KeyInv, JournalTold
<1> QED BY <1>1, <1>5, <1>6 DEF KeyInv

\* Damage to one line keeps it: the text is not read any more.
LEMMA DamageKeeps == ASSUME MaxSpoilt <= 1, KeyInv, Registry!Damage PROVE KeyInv'
<1>1. /\ app = None /\ app' = None /\ saved' = saved /\ legacy' = legacy
      /\ spoilt = 0 /\ spoilt' = 1 /\ spoilt' \in 0..MaxSpoilt
  <2>1. spoilt < MaxSpoilt /\ spoilt \in 0..MaxSpoilt /\ spoilt' = spoilt + 1
    BY DEF Registry!Damage, KeyInv
  <2>2. spoilt = 0
    BY <2>1, MostSpoilt
  <2> QED BY <2>1, <2>2, MostSpoilt DEF Registry!Damage
<1>2. CASE /\ record # None /\ record' \in Registry!Damages(record) \ {record} /\ journal' = journal
  <2>1. PICK v \in Versions :
           Writes(v, saved) /\ record = Registry!Text(v, Registry!RecordLines(v), saved)
    BY <1>1, <1>2 DEF KeyInv, RecordTold
  <2>2. record' \in Registry!Texts /\ Registry!Decode(record') = None
    <3>1. saved \in Registry!Records
      BY DEF KeyInv
    <3> QED BY <1>2, <2>1, <3>1, DecodeDamaged
  <2>3. RecordTold'
    BY <1>1, <2>2, NoneIs DEF RecordTold
  <2>4. JournalTold'
    BY <1>1, <1>2 DEF KeyInv, JournalTold
  <2> QED BY <1>1, <2>3, <2>4 DEF KeyInv
<1>3. CASE /\ journal # None /\ journal' \in Registry!Damages(journal) \ {journal} /\ record' = record
  <2>1. PICK w \in 1..3, p \in Registry!Offered, d \in Registry!Offered :
           journal = JournalText(w, p, d)
    BY <1>1, <1>3 DEF KeyInv, JournalTold
  <2>2. Registry!DecodeJournal(journal') = None
    BY <1>3, <2>1, DecodeJournalDamaged
  <2>3. JournalTold'
    BY <1>1, <2>2 DEF JournalTold
  <2>4. RecordTold'
    BY <1>1, <1>3 DEF KeyInv, RecordTold
  <2> QED BY <1>1, <2>3, <2>4 DEF KeyInv
<1> QED BY <1>2, <1>3 DEF Registry!Damage

\* Every step keeps it.
LEMMA KeyKept == ASSUME MaxSpoilt <= 1, KeyInv, [Registry!Next]_textVars PROVE KeyInv'
<1>1. CASE UNCHANGED textVars
  <2>1. RecordTold' /\ JournalTold'
    BY <1>1 DEF KeyInv, RecordTold, JournalTold, textVars
  <2> QED BY <1>1, <2>1 DEF KeyInv, textVars
<1> QED BY <1>1, StartKeeps, CommitKeeps, ExitKeeps, DamageKeeps DEF Registry!Next

\* The settings saved last are those that are read, and a journal names them, if
\* no more than one line is damaged: see SettingsKept.
THEOREM SettingsStayKept ==
  ASSUME MaxSpoilt <= 1
  PROVE  FilesSpec => []SettingsKept
<1>1. KeyInv /\ [FilesNext]_filesVars => KeyInv'
  BY RegistrySteps, KeyKept
<1>2. KeyInv => SettingsKept
  <2> SUFFICES ASSUME KeyInv
               PROVE  Registry!TypeOK /\ Registry!SavedIsRead /\ Registry!JournalMatches
    BY DEF SettingsKept
  <2>1. Registry!TypeOK
    BY LoadedIs, SettingsAre DEF KeyInv, Registry!TypeOK
  <2>2. Registry!SavedIsRead
    BY LoadedIs DEF KeyInv, Registry!SavedIsRead
  <2>3. Registry!JournalMatches
    BY JournalIs DEF KeyInv, Registry!JournalMatches
  <2> QED BY <2>1, <2>2, <2>3
<1> QED BY <1>1, <1>2, KeyInitial, PTL DEF FilesSpec
=============================================================================
