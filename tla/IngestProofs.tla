----------------------------- MODULE IngestProofs -----------------------------
(***************************************************************************)
(* Proofs about UsageIngest, for any files, months and bounds: the totals  *)
(* are the sums of what the files contributed, and a file that was read to *)
(* its end has each of its requests of the month in them once.  The heart  *)
(* is CursorTrue: some history of the file, of which the cursor counts one *)
(* record of each request.  It is true of the live cursors and of the      *)
(* saved ones, so a crash or an exit loses nothing the next start needs.   *)
(***************************************************************************)
EXTENDS UsageIngest, FoldLemmas, SequenceTheorems

-----------------------------------------------------------------------------
(***************************************************************************)
(* What holds all the time.  A cursor has read some records, the history   *)
(* of its file, and counts some of them; no step needs to know which.      *)
(***************************************************************************)
AmountOf == [r \in Records |-> r.amount]

OnDay(s, d) == {q \in s : q.day = d}

\* The records of a history that are of the month of day w.
OfMonth(L, w) == {r \in {L[i] : i \in DOMAIN L} : MonthOf(r.day) = MonthOf(w)}

\* Of the records R, those of s are counted: one of each request.
Tallied(f, R, s, keys, revisable, contrib) ==
    /\ IsFiniteSet(s)
    /\ \A q, r \in s : SameKey(f, q, r) => q = r
    /\ \A r \in R : \E q \in s : SameKey(f, q, r)
    /\ keys \subseteq R
    /\ \A r \in R : \E q \in keys : SameKey(f, q, r)
    /\ revisable \subseteq s
    /\ \A d \in Days : contrib[d] = SumFunctionOnSet(AmountOf, OnDay(s, d))

\* As long as the file is the one that was read, the history is its beginning.
IsRead(c, L, d) ==
    d # None /\ c.identity = d.identity /\ c.offset <= Len(d.lines) =>
        \A i \in 1..c.offset : L[i] = d.lines[i]

\* The cursor c of file f, which is d on disk, up to day w.
CursorTrue(f, c, w, d) ==
    /\ \E L \in [1..c.offset -> Records] :
          /\ \A i \in 1..c.offset : L[i].day <= w
          /\ IsRead(c, L, d)
          /\ \E s \in SUBSET OfMonth(L, w) :
                Tallied(f, OfMonth(L, w), s, c.keys, c.revisable, c.contrib)
    /\ c.active < MonthOf(w) => c.contrib = Nothing

\* What a file has in the month's total, and in that of day w.
Part(c) == IF c = None THEN 0 ELSE SumFunctionOnSet(c.contrib, Days)
PartOn(c, w) == IF c = None THEN 0 ELSE c.contrib[w]
MonthParts(cs) == [f \in Files |-> Part(cs[f])]
DayParts(cs, w) == [f \in Files |-> PartOn(cs[f], w)]

\* Totals are the sums of what the cursors contributed.
AddsUp(cs, mt, dt, w) ==
    \A p \in Providers : /\ mt[p] = SumFunctionOnSet(MonthParts(cs), FilesOf(p))
                         /\ dt[p] = SumFunctionOnSet(DayParts(cs, w), FilesOf(p))

\* Cursors and totals, live or saved, as of day w.
Book(cs, mt, dt, w, onDisk) ==
    /\ \A f \in Files : cs[f] # None => CursorTrue(f, cs[f], w, onDisk[f])
    /\ AddsUp(cs, mt, dt, w)

Blank(cs, mt, dt) == cs = [f \in Files |-> None] /\ mt = NoTotals /\ dt = NoTotals

Stats == [file : Files, size : 0..MaxLines, stamp : Nat, mday : Days]

\* The types, and how the numbers of the files and the days lie to each other.
DiskTyped ==
    /\ today \in Days
    /\ changes \in 0..MaxChanges
    /\ disk \in [Files -> DiskFiles \cup {None}]
    /\ \A f \in Files : disk[f] # None =>
          /\ Len(disk[f].lines) <= MaxLines /\ disk[f].identity <= changes
          /\ \A i \in 1..Len(disk[f].lines) : disk[f].lines[i].day <= today

CursorsTyped(cs) ==
    /\ cs \in [Files -> Cursors \cup {None}]
    /\ \A f \in Files : cs[f] # None => cs[f].offset <= MaxLines /\ cs[f].identity <= changes

StateTyped ==
    /\ pc \in {"down", "idle", "tick", "probe", "read"}
    /\ window \in Days \cup {0}
    /\ seenStat \in IF pc \in {"probe", "read"} THEN Stats ELSE {NoStat}
    /\ CursorsTyped(cursors)
    /\ pc = "read" => cursors[seenStat.file] # None
    /\ month \in [Providers -> Nat] /\ day \in [Providers -> Nat]
    /\ monthKey \in Nat /\ dayKey \in Days \cup {0} /\ dayKey <= today
    /\ retirement \subseteq Files
    /\ dirty \in BOOLEAN
    /\ starts \in 0..MaxStarts

LiveTrue ==
    /\ dayKey = 0 <=> monthKey = 0
    /\ pc = "down" => dayKey = 0
    /\ pc \in {"tick", "probe", "read"} =>
          window = today /\ dayKey = today /\ monthKey = MonthOf(today)
    /\ dayKey = 0 \/ monthKey # MonthOf(dayKey) => Blank(cursors, month, day)
    /\ dayKey # 0 => Book(cursors, month, day, dayKey, disk)

SavedTrue ==
    saved # None =>
        /\ saved \in States
        /\ saved.today \in Days /\ saved.today <= today
        /\ saved.month = MonthOf(saved.today)
        /\ CursorsTyped(saved.cursors)
        /\ Book(saved.cursors, saved.monthTotals, saved.dayTotals, saved.today, disk)

IngestInv == DiskTyped /\ StateTyped /\ LiveTrue /\ SavedTrue

-----------------------------------------------------------------------------
(***************************************************************************)
(* Days, months and requests.                                              *)
(***************************************************************************)
\* The days are finitely many, and so are the files of a provider.
LEMMA DaysAre ==
    /\ IsFiniteSet(Days) /\ Days \subseteq Nat \ {0} /\ 0 \notin Days
    /\ \A p \in Providers : IsFiniteSet(FilesOf(p)) /\ FilesOf(p) \subseteq Files
    /\ \A f \in Files : ProviderOf(f) \in Providers /\ f \in FilesOf(ProviderOf(f))
    /\ \A f \in Files : \A p \in Providers : f \in FilesOf(p) => p = ProviderOf(f)
<1>1. LastDay \in Nat /\ Claude \cap Codex = {} /\ IsFiniteSet(Files)
  BY IngestAssumption DEF Files
<1>2. IsFiniteSet(Days) /\ Days \subseteq Nat \ {0} /\ 0 \notin Days
  <2>1. IsFiniteSet(1..LastDay)
    BY <1>1, FS_Interval
  <2> QED BY <1>1, <2>1 DEF Days
<1>3. ASSUME NEW p \in Providers PROVE IsFiniteSet(FilesOf(p)) /\ FilesOf(p) \subseteq Files
  <2>1. FilesOf(p) \subseteq Files
    BY DEF FilesOf, Files
  <2> QED BY <1>1, <2>1, FS_Subset
<1>4. \A f \in Files : ProviderOf(f) \in Providers /\ f \in FilesOf(ProviderOf(f))
  BY DEF Files, ProviderOf, Providers, FilesOf
<1>5. \A f \in Files : \A p \in Providers : f \in FilesOf(p) => p = ProviderOf(f)
  BY <1>1 DEF Files, ProviderOf, Providers, FilesOf
<1> QED BY <1>2, <1>3, <1>4, <1>5

\* A day is in one month, and later days are not in earlier months.
LEMMA MonthIs ==
    /\ \A d \in Days : MonthOf(d) \in Nat \ {0}
    /\ \A d, e \in Days : d <= e => MonthOf(d) <= MonthOf(e)
<1>1. MonthLength \in Nat \ {0} /\ Days \subseteq Nat \ {0}
  BY IngestAssumption, DaysAre
<1>2. ASSUME NEW a \in Nat, a >= MonthLength PROVE a \div MonthLength \in Nat \ {0}
  BY <1>1, <1>2, SMTT(60)
<1>3. ASSUME NEW a \in Nat, NEW b \in Nat, a <= b PROVE a \div MonthLength <= b \div MonthLength
  <2> DEFINE q == a \div MonthLength  r == b \div MonthLength
  <2>1. q \in Nat /\ r \in Nat
    BY <1>1, SMTT(60)
  <2>2. q * MonthLength <= a /\ b < (r + 1) * MonthLength
    BY <1>1, SMTT(60)
  <2>3. q * MonthLength < (r + 1) * MonthLength
    BY <1>1, <1>3, <2>1, <2>2, SMTT(60)
  <2>4. q < r + 1
    BY <1>1, <2>1, <2>3, SMTT(60)
  <2> QED BY <2>1, <2>4
<1>4. \A d \in Days : d + MonthLength - 1 \in Nat /\ d + MonthLength - 1 >= MonthLength
  BY <1>1
<1>5. \A d, e \in Days : d <= e => d + MonthLength - 1 <= e + MonthLength - 1
  BY <1>1
<1> QED BY <1>2, <1>3, <1>4, <1>5 DEF MonthOf

\* To be of one request is an equivalence, and within one month it is told apart by no month.
LEMMA SameKeyIs ==
  ASSUME NEW f
  PROVE  /\ \A q : SameKey(f, q, q)
         /\ \A q, r : SameKey(f, q, r) => SameKey(f, r, q)
         /\ \A q, r, t : SameKey(f, q, r) /\ SameKey(f, r, t) => SameKey(f, q, t)
BY DEF SameKey

\* Records have amounts and days.
LEMMA RecordIs ==
  ASSUME NEW r \in Records
  PROVE  r.day \in Days /\ r.amount \in Nat \ {0} /\ AmountOf[r] = r.amount
<1>1. r.amount \in 1..MaxAmount /\ r.day \in Days
  BY DEF Records
<1>2. MaxAmount \in Nat
  BY IngestAssumption
<1> QED BY <1>1, <1>2 DEF AmountOf

\* Nothing, and one, as sums.
LEMMA SumOfNone ==
    /\ SumSet({}) = 0
    /\ \A v : SumFunctionOnSet(v, {}) = 0
BY FS_EmptySet, SumOf, SumSetIs

\* The sum of one number.
LEMMA SumOfOne == \A n \in Int : SumSet({n}) = n
<1> SUFFICES ASSUME NEW n \in Int PROVE SumSet({n}) = n
  OBVIOUS
<1> DEFINE v == [x \in {n} |-> x]
<1>1. IsFiniteSet({n})
  BY FS_Singleton
<1>2. SumSet({n}) = SumFunctionOnSet(v, {n})
  BY <1>1, SumSetIs
<1>3. SumFunctionOnSet(v, {n}) = v[n] + SumFunctionOnSet(v, {n} \ {n})
  BY <1>1, SumWithout
<1>4. {n} \ {n} = {} /\ v[n] = n
  OBVIOUS
<1> QED BY <1>2, <1>3, <1>4, SumOfNone

-----------------------------------------------------------------------------
(***************************************************************************)
(* One record is counted.                                                  *)
(***************************************************************************)
\* What a day has of some records, with one more or without one of them.
LEMMA OnDayIs ==
  ASSUME NEW s \in SUBSET Records, IsFiniteSet(s), NEW d
  PROVE  /\ IsFiniteSet(OnDay(s, d)) /\ SumFunctionOnSet(AmountOf, OnDay(s, d)) \in Nat
         /\ \A q \in s : SumFunctionOnSet(AmountOf, OnDay(s, d))
                            = SumFunctionOnSet(AmountOf, OnDay(s \ {q}, d))
                                + (IF d = q.day THEN q.amount ELSE 0)
<1>1. \A r \in Records : AmountOf[r] \in Nat /\ AmountOf[r] \in Int /\ AmountOf[r] = r.amount
  BY RecordIs
<1>2. \A u \in SUBSET s : IsFiniteSet(OnDay(u, d)) /\ OnDay(u, d) \subseteq Records
  BY FS_Subset DEF OnDay
<1>3. \A u \in SUBSET s : SumFunctionOnSet(AmountOf, OnDay(u, d)) \in Nat
  <2> SUFFICES ASSUME NEW u \in SUBSET s PROVE SumFunctionOnSet(AmountOf, OnDay(u, d)) \in Nat
    OBVIOUS
  <2>1. IsFiniteSet(OnDay(u, d)) /\ \A r \in OnDay(u, d) : AmountOf[r] \in Nat
    BY <1>1, <1>2
  <2> QED BY <2>1, SumIs
<1>4. ASSUME NEW q \in s
      PROVE  SumFunctionOnSet(AmountOf, OnDay(s, d))
                = SumFunctionOnSet(AmountOf, OnDay(s \ {q}, d))
                     + (IF d = q.day THEN q.amount ELSE 0)
  <2>1. CASE q.day = d
    <3>1. q \in OnDay(s, d) /\ OnDay(s \ {q}, d) = OnDay(s, d) \ {q}
      BY <2>1 DEF OnDay
    <3>2. IsFiniteSet(OnDay(s, d)) /\ \A r \in OnDay(s, d) : AmountOf[r] \in Int
      BY <1>1, <1>2
    <3>3. SumFunctionOnSet(AmountOf, OnDay(s, d))
             = AmountOf[q] + SumFunctionOnSet(AmountOf, OnDay(s, d) \ {q})
      BY <3>1, <3>2, SumWithout
    <3>4. SumFunctionOnSet(AmountOf, OnDay(s \ {q}, d)) \in Nat /\ q.amount \in Nat
      BY <1>1, <1>3
    <3>5. AmountOf[q] = q.amount
      BY <1>1
    <3>6. SumFunctionOnSet(AmountOf, OnDay(s, d))
             = q.amount + SumFunctionOnSet(AmountOf, OnDay(s \ {q}, d))
      BY <3>1, <3>3, <3>5
    <3>7. \A a, b \in Nat : a + b = b + a
      OBVIOUS
    <3> QED BY <2>1, <3>4, <3>6, <3>7
  <2>2. CASE q.day # d
    <3>1. OnDay(s \ {q}, d) = OnDay(s, d)
      BY <2>2 DEF OnDay
    <3> QED BY <1>3, <2>2, <3>1
  <2> QED BY <2>1, <2>2
<1> QED BY <1>2, <1>3, <1>4

\* What scan_file counts with.
Tallies == [keys : SUBSET Records, revisable : SUBSET Records, contrib : Contributions,
            month : Nat, day : Nat]

\* Contributions are numbers, and so is their sum.
LEMMA ContributionsAre ==
  ASSUME NEW c \in Contributions
  PROVE  /\ SumFunctionOnSet(c, Days) \in Nat /\ SumFunction(c) = SumFunctionOnSet(c, Days)
         /\ \A d \in Days : c[d] \in Nat /\ c[d] <= SumFunctionOnSet(c, Days)
<1>1. IsFiniteSet(Days) /\ \A d \in Days : c[d] \in Nat /\ c[d] \in Int
  BY DaysAre DEF Contributions
<1>2. \A S \in SUBSET Days : SumFunctionOnSet(c, S) \in Nat
  <2> SUFFICES ASSUME NEW S \in SUBSET Days PROVE SumFunctionOnSet(c, S) \in Nat
    OBVIOUS
  <2>1. IsFiniteSet(S) /\ \A d \in S : c[d] \in Nat
    BY <1>1, FS_Subset
  <2> QED BY <2>1, SumIs
<1>3. ASSUME NEW d \in Days PROVE c[d] <= SumFunctionOnSet(c, Days)
  <2>1. SumFunctionOnSet(c, Days) = c[d] + SumFunctionOnSet(c, Days \ {d})
    BY <1>1, SumWithout
  <2> QED BY <1>1, <1>2, <2>1
<1>4. SumFunction(c) = SumFunctionOnSet(c, Days)
  BY DEF SumFunction, Contributions
<1> QED BY <1>1, <1>2, <1>3, <1>4

\* What is undone is a number.
LEMMA BeforeIs ==
  ASSUME NEW S \in SUBSET Records
  PROVE  SumSet({q.amount : q \in S}) \in Nat
<1> DEFINE A == {q.amount : q \in S}
<1>1. MaxAmount \in Nat /\ A \subseteq 1..MaxAmount
  BY IngestAssumption DEF Records
<1> HIDE DEF A
<1>2. IsFiniteSet(A)
  <2>1. IsFiniteSet(1..MaxAmount)
    BY <1>1, FS_Interval
  <2> QED BY <1>1, <2>1, FS_Subset
<1>3. \A x \in A : [y \in A |-> y][x] \in Nat
  BY <1>1
<1>4. SumFunctionOnSet([y \in A |-> y], A) \in Nat
  BY <1>2, <1>3, SumIs
<1>5. SumSet(A) \in Nat
  BY <1>2, <1>4, SumSetIs
<1> QED BY <1>5 DEF A

\* A tally stays a tally.
LEMMA CountTyped ==
  ASSUME NEW f, NEW w \in Days, NEW t \in Tallies, NEW r \in Records
  PROVE  Count(f, w, t, r) \in Tallies
<1> DEFINE seen    == {q \in t.keys : SameKey(f, q, r)}
           revised == {q \in t.revisable : SameKey(f, q, r)}
           before  == SumSet({q.amount : q \in revised})
           undone  == {q.day : q \in revised}
           left(n, d) == IF d \in undone THEN Monus(n, before) ELSE n
           keys2 == (t.keys \ seen) \cup {r}
           rev2 == (t.revisable \ revised) \cup (IF f \in Claude THEN {r} ELSE {})
           contrib2 == [d \in Days |->
                  left(t.contrib[d], d) + (IF d = r.day THEN r.amount ELSE 0)]
           month2 == Monus(t.month, before) + r.amount
           day2 == left(t.day, w) + (IF r.day = w THEN r.amount ELSE 0)
<1>1. /\ t.keys \in SUBSET Records /\ t.revisable \in SUBSET Records
      /\ t.contrib \in Contributions /\ t.month \in Nat /\ t.day \in Nat
  BY DEF Tallies
<1>2. Count(f, w, t, r) = t \/ Count(f, w, t, r) = [keys |-> keys2, revisable |-> rev2,
                   contrib |-> contrib2, month |-> month2, day |-> day2]
  BY DEF Count
<1>3. before \in Nat
  <2>1. revised \in SUBSET Records
    BY <1>1
  <2> HIDE DEF revised
  <2> QED BY <2>1, BeforeIs
<1>4. keys2 \in SUBSET Records /\ rev2 \in SUBSET Records
  BY <1>1
<1> HIDE DEF before, undone
<1>5. \A n \in Nat : Monus(n, before) \in Nat
  BY <1>3 DEF Monus
<1>6. \A n \in Nat : \A d : left(n, d) \in Nat
  BY <1>5
<1> HIDE DEF left
<1>7. r.amount \in Nat
  BY RecordIs
<1>8. month2 \in Nat /\ day2 \in Nat
  BY <1>1, <1>5, <1>6, <1>7
<1>9. contrib2 \in Contributions
  <2>1. \A d \in Days : t.contrib[d] \in Nat
    BY <1>1 DEF Contributions
  <2>2. \A d \in Days : left(t.contrib[d], d) + (IF d = r.day THEN r.amount ELSE 0) \in Nat
    BY <1>6, <1>7, <2>1
  <2> QED BY <2>2 DEF Contributions
<1> HIDE DEF keys2, rev2, contrib2, month2, day2
<1> QED BY <1>2, <1>4, <1>8, <1>9 DEF Tallies

\* A contribution to which an amount is added, and one from which it is taken.
LEMMA ContributionGrows ==
  ASSUME NEW c \in Contributions, NEW e \in Days, NEW n \in Nat,
         NEW b, b = [d \in Days |-> c[d] + (IF d = e THEN n ELSE 0)]
  PROVE  b \in Contributions /\ SumFunctionOnSet(b, Days) = SumFunctionOnSet(c, Days) + n
<1>1. IsFiniteSet(Days) /\ (\A d \in Days : c[d] \in Nat) /\ SumFunctionOnSet(c, Days) \in Nat
  BY DaysAre, ContributionsAre
<1>2. \A d \in Days : b[d] = (IF d = e THEN c[d] + n ELSE c[d])
  BY <1>1
<1>3. b \in Contributions
  BY <1>1 DEF Contributions
<1>4. \A d \in Days : c[d] \in Int /\ b[d] \in Int
  BY <1>1, <1>2
<1>5. SumFunctionOnSet(b, Days) = SumFunctionOnSet(c, Days) - c[e] + b[e]
  <2>1. \A d \in Days \ {e} : c[d] = b[d]
    BY <1>2
  <2> QED BY <1>1, <1>4, <2>1, SumChanged
<1>6. b[e] = c[e] + n /\ c[e] \in Nat
  BY <1>1, <1>2
<1> QED BY <1>1, <1>3, <1>5, <1>6

\* Without a record, its day has that much less.
LEMMA ContributionShrinks ==
  ASSUME NEW c \in Contributions, NEW e \in Days, NEW n \in Nat, n <= c[e],
         NEW b, b = [d \in Days |-> IF d = e THEN Monus(c[d], n) ELSE c[d]]
  PROVE  /\ b \in Contributions /\ b[e] = c[e] - n
         /\ SumFunctionOnSet(b, Days) = SumFunctionOnSet(c, Days) - n
<1>1. IsFiniteSet(Days) /\ (\A d \in Days : c[d] \in Nat) /\ SumFunctionOnSet(c, Days) \in Nat
  BY DaysAre, ContributionsAre
<1>2. \A d \in Days : b[d] = (IF d = e THEN c[d] - n ELSE c[d])
  BY <1>1 DEF Monus
<1>3. \A d \in Days : b[d] \in Nat
  BY <1>1, <1>2
<1>3a. b \in Contributions
  BY <1>3 DEF Contributions
<1>4. \A d \in Days : c[d] \in Int /\ b[d] \in Int
  BY <1>1, <1>3
<1>5. SumFunctionOnSet(b, Days) = SumFunctionOnSet(c, Days) - c[e] + b[e]
  <2>1. \A d \in Days \ {e} : c[d] = b[d]
    BY <1>2
  <2> QED BY <1>1, <1>4, <2>1, SumChanged
<1>6. b[e] = c[e] - n /\ c[e] \in Nat
  BY <1>1, <1>2
<1> QED BY <1>1, <1>3a, <1>5, <1>6

\* The records R of the month of day w, and r if it is one.
Grown(R, r, w) == IF MonthOf(r.day) = MonthOf(w) THEN R \cup {r} ELSE R

\* The tally t has counted the records R of the file; K and N are of other files.
CountsRight(f, w, R, t, K, N) ==
    /\ \E s \in SUBSET R : Tallied(f, R, s, t.keys, t.revisable, t.contrib)
    /\ t.month = K + SumFunctionOnSet(t.contrib, Days)
    /\ t.day = N + t.contrib[w]

\* A record that replaces at most one of its request.
LEMMA TallyGrows ==
  ASSUME NEW f, NEW R \in SUBSET Records, NEW s \in SUBSET R, NEW keys, NEW revisable, NEW c,
         Tallied(f, R, s, keys, revisable, c), NEW r \in Records,
         NEW revised \in SUBSET s, \A q \in s : SameKey(f, q, r) <=> q \in revised,
         NEW keys2, keys2 = (keys \ {q \in keys : SameKey(f, q, r)}) \cup {r},
         NEW rev2, rev2 \subseteq (revisable \ revised) \cup {r},
         NEW b, \A d \in Days : b[d] = SumFunctionOnSet(AmountOf, OnDay(s \ revised, d))
                                          + (IF d = r.day THEN r.amount ELSE 0)
  PROVE  Tallied(f, R \cup {r}, (s \ revised) \cup {r}, keys2, rev2, b)
<1> DEFINE s0 == s \ revised
           s2 == s0 \cup {r}
           R2 == R \cup {r}
<1>k. /\ \A q : SameKey(f, q, q)
      /\ \A q, x : SameKey(f, q, x) => SameKey(f, x, q)
      /\ \A q, x, y : SameKey(f, q, x) /\ SameKey(f, x, y) => SameKey(f, q, y)
  BY SameKeyIs
<1>1. /\ IsFiniteSet(s)
      /\ \A q, x \in s : SameKey(f, q, x) => q = x
      /\ \A x \in R : \E q \in s : SameKey(f, q, x)
      /\ keys \subseteq R /\ (\A x \in R : \E q \in keys : SameKey(f, q, x))
      /\ revisable \subseteq s
  BY DEF Tallied
<1>2. \A q \in s0 : ~SameKey(f, q, r) /\ ~SameKey(f, r, q)
  BY <1>k
<1>3. IsFiniteSet(s0) /\ IsFiniteSet(s2) /\ s0 \in SUBSET Records /\ s2 \in SUBSET Records
  BY <1>1, FS_Subset, FS_AddElement
<1>4. \A q, x \in s2 : SameKey(f, q, x) => q = x
  BY <1>1, <1>2
<1>5. \A x \in R2 : \E q \in s2 : SameKey(f, q, x)
  <2> SUFFICES ASSUME NEW x \in R2 PROVE \E q \in s2 : SameKey(f, q, x)
    OBVIOUS
  <2>1. CASE SameKey(f, r, x)
    BY <2>1
  <2>2. CASE ~SameKey(f, r, x)
    <3>1. x \in R
      BY <1>k, <2>2
    <3>2. PICK q \in s : SameKey(f, q, x)
      BY <1>1, <3>1
    <3>3. q \notin revised
      BY <1>k, <2>2, <3>2
    <3> QED BY <3>2, <3>3
  <2> QED BY <2>1, <2>2
<1>6. keys2 \subseteq R2
  BY <1>1
<1>7. \A x \in R2 : \E q \in keys2 : SameKey(f, q, x)
  <2> SUFFICES ASSUME NEW x \in R2 PROVE \E q \in keys2 : SameKey(f, q, x)
    OBVIOUS
  <2>1. CASE SameKey(f, r, x)
    BY <2>1
  <2>2. CASE ~SameKey(f, r, x)
    <3>1. x \in R
      BY <1>k, <2>2
    <3>2. PICK q \in keys : SameKey(f, q, x)
      BY <1>1, <3>1
    <3>3. ~SameKey(f, q, r)
      BY <1>k, <2>2, <3>2
    <3> QED BY <3>2, <3>3
  <2> QED BY <2>1, <2>2
<1>8. rev2 \subseteq s2
  BY <1>1
<1>9. r \notin s0 /\ s2 \ {r} = s0
  BY <1>2, <1>k
<1>10. \A d \in Days : b[d] = SumFunctionOnSet(AmountOf, OnDay(s2, d))
  <2> HIDE DEF s2
  <2>1. r \in s2
    BY DEF s2
  <2>2. \A d \in Days : SumFunctionOnSet(AmountOf, OnDay(s2, d))
            = SumFunctionOnSet(AmountOf, OnDay(s2 \ {r}, d)) + (IF d = r.day THEN r.amount ELSE 0)
    BY <1>3, <2>1, OnDayIs
  <2> QED BY <1>9, <2>2
<1> HIDE DEF s2, R2
<1>11. Tallied(f, R2, s2, keys2, rev2, b)
  BY <1>3, <1>4, <1>5, <1>6, <1>7, <1>8, <1>10 DEF Tallied
<1> QED BY <1>11 DEF s2, R2

\* A record is counted once, whether it is new, a repetition or a revision.
LEMMA CountKeeps ==
  ASSUME NEW f, NEW w \in Days, NEW R \in SUBSET Records,
         NEW t \in Tallies, NEW r \in Records, NEW K \in Nat, NEW N \in Nat,
         CountsRight(f, w, R, t, K, N)
  PROVE  CountsRight(f, w, Grown(R, r, w), Count(f, w, t, r), K, N)
<1> DEFINE seen    == {q \in t.keys : SameKey(f, q, r)}
           revised == {q \in t.revisable : SameKey(f, q, r)}
           before  == SumSet({q.amount : q \in revised})
           undone  == {q.day : q \in revised}
           left(n, d) == IF d \in undone THEN Monus(n, before) ELSE n
           keys2 == (t.keys \ seen) \cup {r}
           rev2 == (t.revisable \ revised) \cup (IF f \in Claude THEN {r} ELSE {})
           contrib2 == [d \in Days |->
                  left(t.contrib[d], d) + (IF d = r.day THEN r.amount ELSE 0)]
           month2 == Monus(t.month, before) + r.amount
           day2 == left(t.day, w) + (IF r.day = w THEN r.amount ELSE 0)
           u == Count(f, w, t, r)
           skip == MonthOf(r.day) # MonthOf(w)
                      \/ (seen # {} /\ ~\E q \in revised : r.amount > q.amount)
<1>1. /\ t.contrib \in Contributions /\ t.month \in Nat /\ t.day \in Nat
      /\ \A d \in Days : t.contrib[d] \in Nat
  BY DEF Tallies, Contributions
<1>2. skip => u = t
  BY DEF Count
<1>3. ~skip => u = [keys |-> keys2, revisable |-> rev2,
                    contrib |-> contrib2, month |-> month2, day |-> day2]
  BY DEF Count
<1>4. PICK s \in SUBSET R : Tallied(f, R, s, t.keys, t.revisable, t.contrib)
  BY DEF CountsRight
<1>5. t.month = K + SumFunctionOnSet(t.contrib, Days) /\ t.day = N + t.contrib[w]
  BY DEF CountsRight
<1>k. /\ \A q : SameKey(f, q, q)
      /\ \A q, x : SameKey(f, q, x) => SameKey(f, x, q)
      /\ \A q, x, y : SameKey(f, q, x) /\ SameKey(f, x, y) => SameKey(f, q, y)
  BY SameKeyIs
<1>6. /\ IsFiniteSet(s)
      /\ \A q, x \in s : SameKey(f, q, x) => q = x
      /\ \A x \in R : \E q \in s : SameKey(f, q, x)
      /\ t.keys \subseteq R /\ (\A x \in R : \E q \in t.keys : SameKey(f, q, x))
      /\ t.revisable \subseteq s
      /\ \A d \in Days : t.contrib[d] = SumFunctionOnSet(AmountOf, OnDay(s, d))
  BY <1>4 DEF Tallied
<1>7. CASE skip
  <2>1. CASE MonthOf(r.day) # MonthOf(w)
    BY <1>2, <1>7, <2>1 DEF Grown
  <2>2. CASE MonthOf(r.day) = MonthOf(w)
    <3>1. PICK k \in t.keys : SameKey(f, k, r)
      BY <1>7, <2>2
    <3>2. \E q \in s : SameKey(f, q, r)
      BY <1>6, <1>k, <3>1
    <3>3. \A x \in R \cup {r} : \E q \in s : SameKey(f, q, x)
      BY <1>6, <3>2
    <3>4. \A x \in R \cup {r} : \E q \in t.keys : SameKey(f, q, x)
      BY <1>6, <3>1
    <3>5. Tallied(f, R \cup {r}, s, t.keys, t.revisable, t.contrib)
      BY <1>6, <3>3, <3>4 DEF Tallied
    <3>6. s \in SUBSET (R \cup {r})
      OBVIOUS
    <3>7. u = t
      BY <1>2, <1>7
    <3> HIDE DEF u
    <3>8. CountsRight(f, w, R \cup {r}, u, K, N)
      BY <1>5, <3>5, <3>6, <3>7 DEF CountsRight
    <3> QED BY <2>2, <3>8 DEF u, Grown
  <2> QED BY <2>1, <2>2
<1>8. CASE ~skip
  <2>0. MonthOf(r.day) = MonthOf(w) /\ r.day \in Days /\ r.amount \in Nat
    BY <1>8, RecordIs
  <2>1. /\ u.keys = keys2 /\ u.revisable = rev2 /\ u.contrib = contrib2
        /\ u.month = month2 /\ u.day = day2
    <3> HIDE DEF u, skip, keys2, rev2, contrib2, month2, day2
    <3> QED BY <1>3, <1>8
  <2>2. rev2 \subseteq (t.revisable \ revised) \cup {r}
    OBVIOUS
  <2>r. revised \in SUBSET s
    BY <1>6
  <2>3. CASE seen = {}
    <3>1. \A q \in s : ~SameKey(f, q, r)
      <4> SUFFICES ASSUME NEW q \in s, SameKey(f, q, r) PROVE FALSE
        OBVIOUS
      <4>1. PICK k \in t.keys : SameKey(f, k, q)
        BY <1>6
      <4>2. SameKey(f, k, r)
        BY <1>k, <4>1
      <4> QED BY <2>3, <4>2
    <3>2. revised = {}
      BY <1>6, <3>1
    <3>3. undone = {} /\ {q.amount : q \in revised} = {}
      BY <3>2
    <3>4. before = 0
      BY <3>3, SumOfNone
    <3> HIDE DEF undone, before
    <3>5. contrib2 = [d \in Days |-> t.contrib[d] + (IF d = r.day THEN r.amount ELSE 0)]
      BY <3>3
    <3>6. month2 = t.month + r.amount /\ day2 = t.day + (IF r.day = w THEN r.amount ELSE 0)
      BY <1>1, <3>3, <3>4 DEF Monus
    <3>7. SumFunctionOnSet(contrib2, Days) = SumFunctionOnSet(t.contrib, Days) + r.amount
      <4> HIDE DEF contrib2
      <4> QED BY <1>1, <2>0, <3>5, ContributionGrows
    <3>8. contrib2[w] = t.contrib[w] + (IF r.day = w THEN r.amount ELSE 0)
      BY <3>5
    <3>9. s \ revised = s
      BY <3>2
    <3>10. Tallied(f, R \cup {r}, (s \ revised) \cup {r}, keys2, rev2, contrib2)
      <4>1. \A q \in s : SameKey(f, q, r) <=> q \in revised
        BY <3>1, <3>2
      <4>2. \A d \in Days : contrib2[d] = SumFunctionOnSet(AmountOf, OnDay(s \ revised, d))
                                            + (IF d = r.day THEN r.amount ELSE 0)
        BY <1>6, <3>5, <3>9
      <4>3. keys2 = (t.keys \ {q \in t.keys : SameKey(f, q, r)}) \cup {r}
        OBVIOUS
      <4> HIDE DEF revised, rev2, contrib2, keys2
      <4> QED BY <1>4, <2>2, <2>r, <4>1, <4>2, <4>3, TallyGrows
    <3>11. (s \ revised) \cup {r} \in SUBSET (R \cup {r})
      OBVIOUS
    <3>12. SumFunctionOnSet(t.contrib, Days) \in Nat /\ t.contrib[w] \in Nat
      BY <1>1, ContributionsAre
    <3>13. month2 = K + SumFunctionOnSet(contrib2, Days) /\ day2 = N + contrib2[w]
      <4> HIDE DEF month2, day2, contrib2
      <4> QED BY <1>5, <2>0, <3>6, <3>7, <3>8, <3>12
    <3> HIDE DEF u, revised, rev2, contrib2, keys2, month2, day2
    <3>14. CountsRight(f, w, R \cup {r}, u, K, N)
      BY <2>1, <3>10, <3>11, <3>13 DEF CountsRight
    <3> QED BY <2>0, <3>14 DEF u, Grown
  <2>4. CASE seen # {}
    <3>1. PICK q \in revised : r.amount > q.amount
      BY <1>8, <2>4
    <3>2. q \in s /\ SameKey(f, q, r) /\ q \in Records /\ q.day \in Days /\ q.amount \in Nat
      BY <1>6, <3>1, RecordIs
    <3>3. \A x \in s : SameKey(f, x, r) <=> x = q
      BY <1>6, <1>k, <3>2
    <3>4. revised = {q}
      BY <2>r, <3>1, <3>3
    <3>5. undone = {q.day} /\ {x.amount : x \in revised} = {q.amount}
      BY <3>4
    <3>6. before = q.amount
      BY <3>2, <3>5, SumOfOne
    <3> HIDE DEF undone, before
    <3> DEFINE contrib1 == [d \in Days |-> IF d = q.day THEN Monus(t.contrib[d], q.amount)
                                           ELSE t.contrib[d]]
    <3>7. s \in SUBSET Records
      OBVIOUS
    <3>8. \A d \in Days : SumFunctionOnSet(AmountOf, OnDay(s, d))
             = SumFunctionOnSet(AmountOf, OnDay(s \ {q}, d)) + (IF d = q.day THEN q.amount ELSE 0)
      BY <1>6, <3>2, <3>7, OnDayIs
    <3>9. \A d \in Days : SumFunctionOnSet(AmountOf, OnDay(s \ {q}, d)) \in Nat
      <4>1. s \ {q} \in SUBSET Records /\ IsFiniteSet(s \ {q})
        BY <1>6, FS_Subset
      <4> QED BY <4>1, OnDayIs
    <3>10. \A d \in Days : t.contrib[d]
             = SumFunctionOnSet(AmountOf, OnDay(s \ {q}, d)) + (IF d = q.day THEN q.amount ELSE 0)
      BY <1>6, <3>8
    <3>11. q.amount <= t.contrib[q.day]
      <4>1. t.contrib[q.day] = SumFunctionOnSet(AmountOf, OnDay(s \ {q}, q.day)) + q.amount
        BY <3>2, <3>10
      <4> QED BY <3>2, <3>9, <4>1
    <3>12. \A d \in Days : contrib1[d] = SumFunctionOnSet(AmountOf, OnDay(s \ {q}, d))
      <4> SUFFICES ASSUME NEW d \in Days
                   PROVE  contrib1[d] = SumFunctionOnSet(AmountOf, OnDay(s \ {q}, d))
        OBVIOUS
      <4> DEFINE a == SumFunctionOnSet(AmountOf, OnDay(s \ {q}, d))
      <4>1. a \in Nat /\ t.contrib[d] = a + (IF d = q.day THEN q.amount ELSE 0)
        BY <3>9, <3>10
      <4>2. contrib1[d] = IF d = q.day THEN Monus(t.contrib[d], q.amount) ELSE t.contrib[d]
        OBVIOUS
      <4> HIDE DEF contrib1, a
      <4>3. contrib1[d] = a
        BY <3>2, <4>1, <4>2 DEF Monus
      <4> QED BY <4>3 DEF a
    <3>13. /\ contrib1 \in Contributions /\ contrib1[q.day] = t.contrib[q.day] - q.amount
           /\ SumFunctionOnSet(contrib1, Days) = SumFunctionOnSet(t.contrib, Days) - q.amount
      <4>1. contrib1 = [d \in Days |-> IF d = q.day THEN Monus(t.contrib[d], q.amount)
                                       ELSE t.contrib[d]]
        OBVIOUS
      <4> HIDE DEF contrib1
      <4> QED BY <1>1, <3>2, <3>11, <4>1, ContributionShrinks
    <3>14. contrib2 = [d \in Days |-> contrib1[d] + (IF d = r.day THEN r.amount ELSE 0)]
      BY <3>5, <3>6
    <3>15. SumFunctionOnSet(contrib2, Days) = SumFunctionOnSet(contrib1, Days) + r.amount
      <4> HIDE DEF contrib2, contrib1
      <4> QED BY <2>0, <3>13, <3>14, ContributionGrows
    <3>16. contrib2[w] = contrib1[w] + (IF r.day = w THEN r.amount ELSE 0)
      <4> HIDE DEF contrib1
      <4> QED BY <3>14
    <3>17. contrib1[w] = IF w = q.day THEN t.contrib[w] - q.amount ELSE t.contrib[w]
      BY <3>13
    <3>18. /\ SumFunctionOnSet(t.contrib, Days) \in Nat /\ t.contrib[w] \in Nat
           /\ q.amount <= SumFunctionOnSet(t.contrib, Days)
      <4>1. /\ SumFunctionOnSet(t.contrib, Days) \in Nat
            /\ \A d \in Days : t.contrib[d] \in Nat /\ t.contrib[d] <= SumFunctionOnSet(t.contrib, Days)
        BY <1>1, ContributionsAre
      <4> QED BY <3>2, <3>11, <4>1
    <3>19. /\ month2 = (t.month - q.amount) + r.amount
           /\ day2 = (IF w = q.day THEN t.day - q.amount ELSE t.day)
                        + (IF r.day = w THEN r.amount ELSE 0)
      <4>1. Monus(t.month, before) = t.month - q.amount
        BY <1>1, <1>5, <3>2, <3>6, <3>18 DEF Monus
      <4>2. w = q.day => Monus(t.day, before) = t.day - q.amount
        <5> SUFFICES ASSUME w = q.day PROVE Monus(t.day, before) = t.day - q.amount
          OBVIOUS
        <5>1. q.amount <= t.contrib[w]
          BY <3>11
        <5> QED BY <1>1, <1>5, <3>2, <3>6, <3>18, <5>1 DEF Monus
      <4> QED BY <3>5, <4>1, <4>2
    <3>20. month2 = K + SumFunctionOnSet(contrib2, Days) /\ day2 = N + contrib2[w]
      <4> HIDE DEF month2, day2, contrib2, contrib1
      <4>1. month2 = K + SumFunctionOnSet(contrib2, Days)
        BY <1>5, <2>0, <3>2, <3>13, <3>15, <3>18, <3>19
      <4>2. day2 = N + contrib2[w]
        <5>1. PICK a \in Nat : a = t.contrib[w]
          BY <3>18
        <5> QED BY <1>5, <2>0, <3>2, <3>16, <3>17, <3>19, <5>1
      <4> QED BY <4>1, <4>2
    <3>21. Tallied(f, R \cup {r}, (s \ revised) \cup {r}, keys2, rev2, contrib2)
      <4>1. \A x \in s : SameKey(f, x, r) <=> x \in revised
        BY <3>3, <3>4
      <4>2. \A d \in Days : contrib2[d] = SumFunctionOnSet(AmountOf, OnDay(s \ revised, d))
                                            + (IF d = r.day THEN r.amount ELSE 0)
        <5> HIDE DEF contrib1, revised
        <5> QED BY <3>4, <3>12, <3>14
      <4>3. keys2 = (t.keys \ {x \in t.keys : SameKey(f, x, r)}) \cup {r}
        OBVIOUS
      <4> HIDE DEF revised, rev2, contrib2, keys2
      <4> QED BY <1>4, <2>2, <2>r, <4>1, <4>2, <4>3, TallyGrows
    <3>22. (s \ revised) \cup {r} \in SUBSET (R \cup {r})
      OBVIOUS
    <3> HIDE DEF u, revised, rev2, contrib2, keys2, month2, day2
    <3>23. CountsRight(f, w, R \cup {r}, u, K, N)
      BY <2>1, <3>20, <3>21, <3>22 DEF CountsRight
    <3> QED BY <2>0, <3>23 DEF u, Grown
  <2> QED BY <2>3, <2>4
<1> QED BY <1>7, <1>8

-----------------------------------------------------------------------------
(***************************************************************************)
(* Some records are counted.                                               *)
(***************************************************************************)
\* A history of n records, and i more.
Joined(L, n, more, i) == [j \in 1..(n + i) |-> IF j <= n THEN L[j] ELSE more[j - n]]

\* It is a history.
LEMMA JoinedIs ==
  ASSUME NEW n \in Nat, NEW L \in [1..n -> Records], NEW k \in Nat, NEW more \in [1..k -> Records]
  PROVE  /\ Joined(L, n, more, 0) = L
         /\ \A i \in 0..k : Joined(L, n, more, i) \in [1..(n + i) -> Records]
<1>1. Joined(L, n, more, 0) = L
  BY DEF Joined
<1>2. ASSUME NEW i \in 0..k PROVE Joined(L, n, more, i) \in [1..(n + i) -> Records]
  <2>1. ASSUME NEW j \in 1..(n + i)
        PROVE  (IF j <= n THEN L[j] ELSE more[j - n]) \in Records
    <3>1. j <= n => j \in 1..n
      OBVIOUS
    <3>2. ~(j <= n) => j - n \in 1..k
      OBVIOUS
    <3> QED BY <3>1, <3>2
  <2> QED BY <2>1 DEF Joined
<1> QED BY <1>1, <1>2

\* One more record of this month is one more to count.
LEMMA JoinedGrows ==
  ASSUME NEW w, NEW n \in Nat, NEW L, NEW more, NEW i \in Nat, i >= 1, NEW e, e = i - 1
  PROVE  OfMonth(Joined(L, n, more, i), w) = Grown(OfMonth(Joined(L, n, more, e), w), more[i], w)
<1> DEFINE A == Joined(L, n, more, i)  B == Joined(L, n, more, e)
<1>1. DOMAIN A = 1..(n + i) /\ DOMAIN B = 1..(n + (i - 1))
  BY DEF Joined
<1>2. 1..(n + i) = 1..(n + (i - 1)) \cup {n + i} /\ n + i \notin 1..(n + (i - 1))
  OBVIOUS
<1>3. \A j \in 1..(n + (i - 1)) : A[j] = B[j]
  BY <1>2 DEF Joined
<1>4. A[n + i] = more[i]
  <2>1. n + i \in 1..(n + i) /\ ~(n + i <= n) /\ (n + i) - n = i
    OBVIOUS
  <2> QED BY <2>1 DEF Joined
<1> HIDE DEF A, B
<1>5. {A[j] : j \in DOMAIN A} = {B[j] : j \in DOMAIN B} \cup {more[i]}
  BY <1>1, <1>2, <1>3, <1>4
<1>6. OfMonth(A, w) = Grown(OfMonth(B, w), more[i], w)
  BY <1>5 DEF OfMonth, Grown
<1> QED BY <1>6 DEF A, B

\* The loop of scan_file.
CountAll(f, w, start, more) == LET tally(t, r) == Count(f, w, t, r)
                               IN  FoldLeft(tally, start, more)

\* It counts what it was given, one record after the other.
LEMMA FoldCounts ==
  ASSUME NEW f, NEW w \in Days, NEW n \in Nat, NEW L \in [1..n -> Records],
         NEW k \in Nat, NEW more \in [1..k -> Records],
         NEW start \in Tallies, NEW K \in Nat, NEW N \in Nat,
         CountsRight(f, w, OfMonth(L, w), start, K, N)
  PROVE  LET sum == CountAll(f, w, start, more)
         IN  /\ sum \in Tallies /\ CountsRight(f, w, OfMonth(Joined(L, n, more, k), w), sum, K, N)
             /\ k = 0 => sum = start
<1> DEFINE tally(t, r) == Count(f, w, t, r)
           o == [i \in 1..k |-> [t \in Tallies |-> tally(t, more[i])]]
           IsFold(g) == g = [S \in SUBSET (DOMAIN more) |-> IF S = {} THEN start
                               ELSE tally(g[S \ {Max(S)}], more[Max(S)])]
           fold == CHOOSE g : IsFold(g)
<1>1. DOMAIN more = 1..k /\ \A i \in 1..k : more[i] \in Records
  OBVIOUS
<1>2. FoldLeft(tally, start, more) = fold[1..k]
  BY <1>1 DEF FoldLeft, MapThenFoldSet
<1>3. \A t \in Tallies : \A i \in 1..k : tally(t, more[i]) \in Tallies
  BY <1>1, CountTyped
<1>c. \A t \in Tallies : \A i \in 1..k : tally(t, more[i]) = Count(f, w, t, more[i])
  OBVIOUS
<1> HIDE DEF tally
<1>4. o \in [1..k -> [Tallies -> Tallies]]
  BY <1>3
<1>5. \A S \in SUBSET (1..k) : S # {} => Max(S) \in 1..k
  <2>1. \A S \in SUBSET (1..k) : S \in SUBSET (0..k)
    OBVIOUS
  <2> QED BY <2>1, MaxIs
<1>6. \E g : IsFold(g)
  <2> HIDE DEF o
  <2>1. PICK g \in [SUBSET (1..k) -> Tallies] : FoldsLeft(o, start, k, g)
    BY <1>4, FoldExists
  <2>2. ASSUME NEW S \in SUBSET (1..k)
        PROVE  g[S] = IF S = {} THEN start ELSE tally(g[S \ {Max(S)}], more[Max(S)])
    <3>1. g[S] = IF S = {} THEN start ELSE o[Max(S)][g[S \ {Max(S)}]]
      BY <2>1 DEF FoldsLeft
    <3>2. S \ {Max(S)} \in SUBSET (1..k) /\ g[S \ {Max(S)}] \in Tallies
      OBVIOUS
    <3> QED BY <1>5, <3>1, <3>2 DEF o
  <2>3. IsFold(g)
    BY <1>1, <2>2
  <2> QED BY <2>3
<1>7. IsFold(fold)
  <2> HIDE DEF IsFold
  <2> QED BY <1>6
<1>8. \E h \in [0..k -> Tallies] : IsRun(o, start, k, h) /\ h[k] = fold[1..k]
  <2> HIDE DEF fold
  <2>1. fold[{}] = start
    BY <1>7
  <2>2. \A S \in SUBSET (1..k) :
           S # {} /\ fold[S \ {Max(S)}] \in Tallies => fold[S] = o[Max(S)][fold[S \ {Max(S)}]]
    BY <1>1, <1>5, <1>7
  <2>3. FoldsWithin(Tallies, o, start, k, fold)
    BY <2>1, <2>2 DEF FoldsWithin
  <2> DEFINE T == Tallies
  <2>4. k \in Nat /\ o \in [1..k -> [T -> T]] /\ start \in T /\ FoldsWithin(T, o, start, k, fold)
    BY <1>4, <2>3
  <2> HIDE DEF IsFold, o, T
  <2>5. \E h \in [0..k -> T] : IsRun(o, start, k, h) /\ h[k] = fold[1..k]
    BY <2>4, FoldRuns, SMTT(60)
  <2> QED BY <2>5 DEF T
<1>9. PICK h \in [0..k -> Tallies] : /\ h[0] = start /\ h[k] = fold[1..k]
                                     /\ \A i \in 1..k : h[i] = o[i][h[i - 1]]
  BY <1>8 DEF IsRun
<1> HIDE DEF fold, IsFold
<1>10. \A i \in 1..k : h[i - 1] \in Tallies /\ h[i] = Count(f, w, h[i - 1], more[i])
  <2> SUFFICES ASSUME NEW i \in 1..k
               PROVE  h[i - 1] \in Tallies /\ h[i] = Count(f, w, h[i - 1], more[i])
    OBVIOUS
  <2>1. i - 1 \in 0..k
    OBVIOUS
  <2>2. h[i - 1] \in Tallies
    BY <2>1
  <2> QED BY <1>9, <1>c, <2>2
<1> DEFINE R(i) == OfMonth(Joined(L, n, more, i), w)
           G == {i \in 0..k : CountsRight(f, w, R(i), h[i], K, N)}
<1>11. 0 \in G
  BY <1>9, JoinedIs
<1>12. ASSUME NEW i \in 1..k, i - 1 \in G PROVE i \in G
  <2>1. i - 1 \in 0..k /\ i \in 0..k /\ CountsRight(f, w, R(i - 1), h[i - 1], K, N)
    BY <1>12
  <2>2. R(i - 1) \in SUBSET Records
    <3>1. Joined(L, n, more, i - 1) \in [1..(n + (i - 1)) -> Records]
      BY <2>1, JoinedIs
    <3> QED BY <3>1 DEF OfMonth
  <2>3. R(i) = Grown(R(i - 1), more[i], w)
    <3>1. n \in Nat /\ i \in Nat /\ i >= 1
      OBVIOUS
    <3>2. \A e : e = i - 1 => OfMonth(Joined(L, n, more, i), w)
                             = Grown(OfMonth(Joined(L, n, more, e), w), more[i], w)
      <4> HIDE DEF R, o, G
      <4> QED BY ONLY <3>1, JoinedGrows
    <3> QED BY <3>2, Zenon
  <2>4. more[i] \in Records /\ h[i - 1] \in Tallies /\ h[i] = Count(f, w, h[i - 1], more[i])
    BY <1>1, <1>10
  <2> DEFINE before == R(i - 1)  t == h[i - 1]  r == more[i]
  <2>5. before \in SUBSET Records /\ t \in Tallies /\ r \in Records
        /\ CountsRight(f, w, before, t, K, N)
    BY <2>1, <2>2, <2>4
  <2> HIDE DEF R, before, t, r
  <2>6. CountsRight(f, w, Grown(before, r, w), Count(f, w, t, r), K, N)
    BY <2>5, CountKeeps
  <2>7. CountsRight(f, w, R(i), h[i], K, N)
    BY <2>3, <2>4, <2>6 DEF before, t, r
  <2> QED BY <2>1, <2>7 DEF R
<1>13. \A i \in 0..k : i \in G
  <2> HIDE DEF G
  <2> QED BY <1>11, <1>12, UpTo
<1>14. k \in 0..k
  OBVIOUS
<1>15. CountsRight(f, w, R(k), h[k], K, N) /\ h[k] \in Tallies /\ (k = 0 => h[k] = start)
  BY <1>9, <1>13, <1>14
<1> HIDE DEF tally
<1>16. FoldLeft(tally, start, more) = h[k]
  BY <1>2, <1>9
<1>17. CountAll(f, w, start, more) = h[k]
  BY <1>16 DEF tally, CountAll
<1> QED BY <1>15, <1>17

-----------------------------------------------------------------------------
(***************************************************************************)
(* Totals and cursors.                                                     *)
(***************************************************************************)
\* The parts are numbers.
LEMMA PartIs ==
  ASSUME NEW c \in Cursors \cup {None}, NEW w \in Days
  PROVE  Part(c) \in Nat /\ PartOn(c, w) \in Nat /\ PartOn(c, w) <= Part(c)
<1>1. CASE c = None
  BY <1>1 DEF Part, PartOn
<1>2. CASE c # None
  <2>1. c.contrib \in Contributions
    BY <1>2 DEF Cursors
  <2> QED BY <1>2, <2>1, ContributionsAre DEF Part, PartOn
<1> QED BY <1>1, <1>2

\* A total is the part of a file and that of the others, which does not change with it.
LEMMA OthersAre ==
  ASSUME NEW S, IsFiniteSet(S), NEW v, \A x \in S : v[x] \in Nat, NEW f \in S
  PROVE  \E K \in Nat : /\ SumFunctionOnSet(v, S) = K + v[f]
                        /\ \A u : (\A x \in S : u[x] \in Nat) /\ (\A x \in S \ {f} : u[x] = v[x])
                                      => SumFunctionOnSet(u, S) = K + u[f]
<1> DEFINE K == SumFunctionOnSet(v, S \ {f})
<1>1. K \in Nat
  BY FS_Subset, SumIs
<1>2. \A x \in S : v[x] \in Int
  OBVIOUS
<1>3. SumFunctionOnSet(v, S) = v[f] + K
  BY <1>2, SumWithout
<1>4. ASSUME NEW u, \A x \in S : u[x] \in Nat, \A x \in S \ {f} : u[x] = v[x]
      PROVE  SumFunctionOnSet(u, S) = K + u[f]
  <2>1. SumFunctionOnSet(u, S) = u[f] + SumFunctionOnSet(u, S \ {f})
    <3>1. \A x \in S : u[x] \in Int
      BY <1>4
    <3> QED BY <3>1, SumWithout
  <2>2. SumFunctionOnSet(u, S \ {f}) = K
    <3>1. IsFiniteSet(S \ {f})
      BY FS_Subset
    <3> QED BY <1>4, <3>1, SumSame
  <2>3. u[f] \in Nat
    BY <1>4
  <2> QED BY <1>1, <2>1, <2>2, <2>3
<1>5. SumFunctionOnSet(v, S) = K + v[f]
  BY <1>1, <1>3
<1> HIDE DEF K
<1> QED BY <1>1, <1>4, <1>5

\* If one cursor changes, and with it the totals of its provider, they still add up.
LEMMA AddsUpKeeps ==
  ASSUME NEW cs \in [Files -> Cursors \cup {None}], NEW w \in Days,
         NEW mt \in [Providers -> Nat], NEW dt \in [Providers -> Nat], AddsUp(cs, mt, dt, w),
         NEW f \in Files
  PROVE  \E K \in Nat, N \in Nat :
            /\ mt[ProviderOf(f)] = K + Part(cs[f]) /\ dt[ProviderOf(f)] = N + PartOn(cs[f], w)
            /\ \A c \in Cursors \cup {None} :
                  AddsUp([cs EXCEPT ![f] = c], [mt EXCEPT ![ProviderOf(f)] = K + Part(c)],
                         [dt EXCEPT ![ProviderOf(f)] = N + PartOn(c, w)], w)
<1> DEFINE p == ProviderOf(f)  S == FilesOf(p)
           v == MonthParts(cs)  u == DayParts(cs, w)
<1>1. /\ p \in Providers /\ f \in S /\ IsFiniteSet(S) /\ S \subseteq Files
      /\ \A q \in Providers : q # p => f \notin FilesOf(q)
      /\ \A q \in Providers : IsFiniteSet(FilesOf(q)) /\ FilesOf(q) \subseteq Files
  BY DaysAre
<1>2. \A b \in [Files -> Cursors \cup {None}] : \A x \in Files :
         MonthParts(b)[x] \in Nat /\ DayParts(b, w)[x] \in Nat
  BY PartIs DEF MonthParts, DayParts
<1>3. \A x \in S : v[x] \in Nat /\ u[x] \in Nat
  BY <1>1, <1>2
<1>4. mt[p] = SumFunctionOnSet(v, S) /\ dt[p] = SumFunctionOnSet(u, S)
  BY <1>1 DEF AddsUp
<1>5. v[f] = Part(cs[f]) /\ u[f] = PartOn(cs[f], w)
  BY DEF MonthParts, DayParts
<1> HIDE DEF v, u, p, S
<1>6. PICK K \in Nat : /\ SumFunctionOnSet(v, S) = K + v[f]
                       /\ \A b : (\A x \in S : b[x] \in Nat) /\ (\A x \in S \ {f} : b[x] = v[x])
                                      => SumFunctionOnSet(b, S) = K + b[f]
  BY <1>1, <1>3, OthersAre
<1>7. PICK N \in Nat : /\ SumFunctionOnSet(u, S) = N + u[f]
                       /\ \A b : (\A x \in S : b[x] \in Nat) /\ (\A x \in S \ {f} : b[x] = u[x])
                                      => SumFunctionOnSet(b, S) = N + b[f]
  BY <1>1, <1>3, OthersAre
<1>8. ASSUME NEW c \in Cursors \cup {None}
      PROVE  AddsUp([cs EXCEPT ![f] = c], [mt EXCEPT ![p] = K + Part(c)],
                    [dt EXCEPT ![p] = N + PartOn(c, w)], w)
  <2> DEFINE cs2 == [cs EXCEPT ![f] = c]
             mt2 == [mt EXCEPT ![p] = K + Part(c)]
             dt2 == [dt EXCEPT ![p] = N + PartOn(c, w)]
             v2 == MonthParts(cs2)  u2 == DayParts(cs2, w)
  <2>1. cs2 \in [Files -> Cursors \cup {None}]
    OBVIOUS
  <2>2. /\ v2[f] = Part(c) /\ u2[f] = PartOn(c, w)
        /\ \A x \in Files \ {f} : v2[x] = v[x] /\ u2[x] = u[x]
    BY DEF MonthParts, DayParts, v, u
  <2>3. \A x \in Files : v2[x] \in Nat /\ u2[x] \in Nat
    <3> HIDE DEF cs2
    <3> QED BY <1>2, <2>1
  <2>4. /\ mt2[p] = K + Part(c) /\ dt2[p] = N + PartOn(c, w)
        /\ \A q \in Providers : q # p => mt2[q] = mt[q] /\ dt2[q] = dt[q]
    BY <1>1
  <2> HIDE DEF cs2, mt2, dt2, v2, u2
  <2>5. ASSUME NEW q \in Providers
        PROVE  mt2[q] = SumFunctionOnSet(v2, FilesOf(q)) /\ dt2[q] = SumFunctionOnSet(u2, FilesOf(q))
    <3>1. CASE q = p
      <4>1. FilesOf(q) = S
        BY <3>1 DEF S
      <4>2. SumFunctionOnSet(v2, S) = K + v2[f]
        BY <1>1, <1>6, <2>2, <2>3
      <4>3. SumFunctionOnSet(u2, S) = N + u2[f]
        BY <1>1, <1>7, <2>2, <2>3
      <4> QED BY <2>2, <2>4, <3>1, <4>1, <4>2, <4>3
    <3>2. CASE q # p
      <4>1. mt[q] = SumFunctionOnSet(v, FilesOf(q)) /\ dt[q] = SumFunctionOnSet(u, FilesOf(q))
        BY DEF AddsUp, v, u
      <4>2. IsFiniteSet(FilesOf(q)) /\ \A x \in FilesOf(q) : v2[x] = v[x] /\ u2[x] = u[x]
        BY <1>1, <2>2, <3>2
      <4>3. SumFunctionOnSet(v2, FilesOf(q)) = SumFunctionOnSet(v, FilesOf(q))
        BY <4>2, SumSame
      <4>4. SumFunctionOnSet(u2, FilesOf(q)) = SumFunctionOnSet(u, FilesOf(q))
        BY <4>2, SumSame
      <4> QED BY <2>4, <3>2, <4>1, <4>3, <4>4
    <3> QED BY <3>1, <3>2
  <2>6. AddsUp(cs2, mt2, dt2, w)
    BY <2>5 DEF AddsUp, v2, u2
  <2> QED BY <2>6 DEF cs2, mt2, dt2
<1>9. mt[p] = K + Part(cs[f]) /\ dt[p] = N + PartOn(cs[f], w)
  BY <1>4, <1>5, <1>6, <1>7
<1> QED BY <1>8, <1>9 DEF p

\* Cursors that contribute the same add up to the same.
LEMMA AddsUpSame ==
  ASSUME NEW cs \in [Files -> Cursors \cup {None}], NEW b \in [Files -> Cursors \cup {None}],
         NEW mt, NEW dt, NEW w, AddsUp(cs, mt, dt, w),
         \A f \in Files : Part(b[f]) = Part(cs[f]) /\ PartOn(b[f], w) = PartOn(cs[f], w)
  PROVE  AddsUp(b, mt, dt, w)
<1>1. MonthParts(b) = MonthParts(cs) /\ DayParts(b, w) = DayParts(cs, w)
  BY DEF MonthParts, DayParts
<1> QED BY <1>1 DEF AddsUp

\* What is nothing adds up to nothing.
LEMMA NothingAdds ==
  ASSUME NEW cs, NEW p \in Providers, NEW v \in {MonthParts(cs)} \cup {DayParts(cs, w) : w \in Days},
         \A f \in Files : v[f] = 0
  PROVE  SumFunctionOnSet(v, FilesOf(p)) = NoTotals[p]
<1>1. IsFiniteSet(FilesOf(p)) /\ \A f \in FilesOf(p) : v[f] = 0 /\ v[f] \in Int
  BY DaysAre
<1>2. {} \in SUBSET FilesOf(p) /\ \A f \in FilesOf(p) \ {} : v[f] = 0
  BY <1>1
<1>3. SumFunctionOnSet(v, FilesOf(p)) = SumFunctionOnSet(v, {})
  BY <1>1, <1>2, SumOfParts
<1> QED BY <1>3, SumOfNone DEF NoTotals

\* Without cursors there is nothing to add up.
LEMMA BlankIs ==
  ASSUME NEW cs, NEW mt, NEW dt, Blank(cs, mt, dt), NEW w \in Days, NEW onDisk
  PROVE  Book(cs, mt, dt, w, onDisk)
<1>1. \A f \in Files : cs[f] = None
  BY DEF Blank
<1>2. \A f \in Files : MonthParts(cs)[f] = 0 /\ DayParts(cs, w)[f] = 0
  BY <1>1 DEF MonthParts, DayParts, Part, PartOn
<1>3. ASSUME NEW p \in Providers
      PROVE  /\ SumFunctionOnSet(MonthParts(cs), FilesOf(p)) = NoTotals[p]
             /\ SumFunctionOnSet(DayParts(cs, w), FilesOf(p)) = NoTotals[p]
  BY <1>2, NothingAdds
<1>4. AddsUp(cs, mt, dt, w)
  BY <1>3 DEF AddsUp, Blank
<1> QED BY <1>1, <1>4 DEF Book

\* A cursor has contributed nothing to another month, or to a day that is yet to come.
LEMMA NothingElsewhere ==
  ASSUME NEW f, NEW c, NEW w \in Days, NEW d, CursorTrue(f, c, w, d),
         NEW e \in Days, e > w \/ MonthOf(e) # MonthOf(w)
  PROVE  c.contrib[e] = 0
<1>1. PICK L \in [1..c.offset -> Records] :
          /\ \A i \in 1..c.offset : L[i].day <= w
          /\ \E s \in SUBSET OfMonth(L, w) :
                Tallied(f, OfMonth(L, w), s, c.keys, c.revisable, c.contrib)
  BY DEF CursorTrue
<1>2. PICK s \in SUBSET OfMonth(L, w) :
          Tallied(f, OfMonth(L, w), s, c.keys, c.revisable, c.contrib)
  BY <1>1
<1>3. \A q \in s : q.day <= w /\ MonthOf(q.day) = MonthOf(w)
  BY <1>1 DEF OfMonth
<1>4. \A q \in s : q.day \in Days
  BY <1>1, RecordIs DEF OfMonth
<1>5. \A n, m \in Days : n <= m => ~(n > m)
  BY DaysAre
<1>6. OnDay(s, e) = {}
  BY <1>3, <1>4, <1>5 DEF OnDay
<1>7. c.contrib[e] = SumFunctionOnSet(AmountOf, OnDay(s, e))
  BY <1>2 DEF Tallied
<1> QED BY <1>6, <1>7, SumOfNone

\* Another day of the same month: nothing changes but that there is nothing of it yet.
LEMMA DayPasses ==
  ASSUME NEW cs \in [Files -> Cursors \cup {None}], NEW mt, NEW dt, NEW w \in Days, NEW onDisk,
         Book(cs, mt, dt, w, onDisk), NEW e \in Days, w < e, MonthOf(w) = MonthOf(e)
  PROVE  Book(cs, mt, NoTotals, e, onDisk)
<1>1. ASSUME NEW f \in Files, cs[f] # None
      PROVE  CursorTrue(f, cs[f], e, onDisk[f]) /\ cs[f].contrib[e] = 0
  <2> DEFINE c == cs[f]  d == onDisk[f]
  <2>1. CursorTrue(f, c, w, d)
    BY <1>1 DEF Book
  <2> HIDE DEF c, d
  <2>2. PICK L \in [1..c.offset -> Records] :
          /\ \A i \in 1..c.offset : L[i].day <= w
          /\ IsRead(c, L, d)
          /\ \E s \in SUBSET OfMonth(L, w) :
                Tallied(f, OfMonth(L, w), s, c.keys, c.revisable, c.contrib)
    BY <2>1 DEF CursorTrue
  <2>3. OfMonth(L, e) = OfMonth(L, w)
    BY DEF OfMonth
  <2>4. \A i \in 1..c.offset : L[i].day <= e
    <3>1. \A i \in 1..c.offset : L[i].day \in Days
      BY RecordIs
    <3>2. \A x \in Days : x <= w => x <= e
      BY DaysAre
    <3> QED BY <2>2, <3>1, <3>2
  <2>5. c.active < MonthOf(e) => c.contrib = Nothing
    BY <2>1 DEF CursorTrue
  <2>6. CursorTrue(f, c, e, d)
    BY <2>2, <2>3, <2>4, <2>5 DEF CursorTrue
  <2>7. c.contrib[e] = 0
    <3>1. e > w
      BY DaysAre
    <3> QED BY <2>1, <3>1, NothingElsewhere
  <2> QED BY <2>6, <2>7 DEF c, d
<1>2. \A f \in Files : DayParts(cs, e)[f] = 0
  BY <1>1 DEF DayParts, PartOn
<1>3. ASSUME NEW p \in Providers
      PROVE  SumFunctionOnSet(DayParts(cs, e), FilesOf(p)) = NoTotals[p]
  BY <1>2, NothingAdds
<1>4. AddsUp(cs, mt, NoTotals, e)
  BY <1>3 DEF AddsUp, Book
<1> QED BY <1>1, <1>4 DEF Book

\* A cursor whose history is no less that of its file.
LEMMA FileChanges ==
  ASSUME NEW f, NEW c, NEW w, NEW d, NEW e, CursorTrue(f, c, w, d),
         \A L \in [1..c.offset -> Records] : IsRead(c, L, d) => IsRead(c, L, e)
  PROVE  CursorTrue(f, c, w, e)
BY DEF CursorTrue

\* Nothing is counted of nothing.
LEMMA NothingTallied ==
  ASSUME NEW f
  PROVE  Tallied(f, {}, {}, {}, {}, Nothing) /\ Nothing \in Contributions
<1>1. \A d : OnDay({}, d) = {}
  BY DEF OnDay
<1>2. \A d \in Days : Nothing[d] = SumFunctionOnSet(AmountOf, OnDay({}, d))
  BY <1>1, SumOfNone DEF Nothing
<1>3. IsFiniteSet({})
  BY FS_EmptySet
<1> QED BY <1>2, <1>3 DEF Tallied, Nothing, Contributions

\* Nor of a file that is read anew.
LEMMA FreshTrue ==
  ASSUME NEW f, NEW c, NEW w, NEW d,
         c.offset = 0, c.keys = {}, c.revisable = {}, c.contrib = Nothing
  PROVE  CursorTrue(f, c, w, d)
<1> DEFINE L == [i \in 1..c.offset |-> None]
<1>1. 1..c.offset = {}
  OBVIOUS
<1>2. L \in [1..c.offset -> Records] /\ DOMAIN L = {}
  BY <1>1
<1> HIDE DEF L
<1>3. OfMonth(L, w) = {}
  BY <1>2 DEF OfMonth
<1>4. Tallied(f, OfMonth(L, w), {}, c.keys, c.revisable, c.contrib) /\ {} \in SUBSET OfMonth(L, w)
  BY <1>3, NothingTallied
<1>5. IsRead(c, L, d) /\ \A i \in 1..c.offset : L[i].day <= w
  BY <1>1 DEF IsRead
<1> QED BY <1>2, <1>4, <1>5 DEF CursorTrue

\* A cursor that has read and counted the same, and forgotten some revisions at most.
Alike(b, c) ==
    /\ b.offset = c.offset /\ b.identity = c.identity /\ b.active = c.active
    /\ b.keys = c.keys /\ b.revisable \subseteq c.revisable /\ b.contrib = c.contrib

\* So one is as true as the other.
LEMMA AlikeTrue ==
  ASSUME NEW f, NEW b, NEW c, NEW w, NEW d, CursorTrue(f, c, w, d), Alike(b, c)
  PROVE  CursorTrue(f, b, w, d)
<1>1. PICK L \in [1..c.offset -> Records] :
          /\ \A i \in 1..c.offset : L[i].day <= w
          /\ IsRead(c, L, d)
          /\ \E s \in SUBSET OfMonth(L, w) :
                Tallied(f, OfMonth(L, w), s, c.keys, c.revisable, c.contrib)
  BY DEF CursorTrue
<1>2. PICK s \in SUBSET OfMonth(L, w) :
          Tallied(f, OfMonth(L, w), s, c.keys, c.revisable, c.contrib)
  BY <1>1
<1>3. Tallied(f, OfMonth(L, w), s, b.keys, b.revisable, b.contrib)
  BY <1>2 DEF Tallied, Alike
<1>4. IsRead(b, L, d) /\ L \in [1..b.offset -> Records] /\ \A i \in 1..b.offset : L[i].day <= w
  BY <1>1 DEF IsRead, Alike
<1>5. b.active < MonthOf(w) => b.contrib = Nothing
  BY DEF CursorTrue, Alike
<1> QED BY <1>3, <1>4, <1>5 DEF CursorTrue

\* The cursors, each with what belongs to month m.
Retained(cs, m) == [f \in Files |-> IF cs[f] = None THEN None ELSE RetainMonth(cs[f], m)]

\* The month passes: a cursor keeps nothing of what it counted.
LEMMA MonthPasses ==
  ASSUME NEW cs \in [Files -> Cursors \cup {None}], NEW mt, NEW dt, NEW w \in Days, NEW onDisk,
         Book(cs, mt, dt, w, onDisk), NEW e \in Days, MonthOf(w) < MonthOf(e),
         NEW b, b = Retained(cs, MonthOf(e))
  PROVE  /\ Book(b, NoTotals, NoTotals, e, onDisk)
         /\ b \in [Files -> Cursors \cup {None}]
         /\ \A f \in Files : b[f] # None => /\ cs[f] # None /\ b[f].offset = cs[f].offset
                                            /\ b[f].identity = cs[f].identity
<1>m. MonthOf(w) \in Nat /\ MonthOf(e) \in Nat /\ ~(MonthOf(w) >= MonthOf(e))
  BY MonthIs
<1>b. b = [f \in Files |-> IF cs[f] = None THEN None ELSE RetainMonth(cs[f], MonthOf(e))]
  BY DEF Retained
<1>1. ASSUME NEW f \in Files, cs[f] # None
      PROVE  /\ b[f] \in Cursors /\ b[f].offset = cs[f].offset /\ b[f].identity = cs[f].identity
             /\ b[f].contrib = Nothing /\ CursorTrue(f, b[f], e, onDisk[f])
  <2> DEFINE c == cs[f]  r == RetainMonth(c, MonthOf(e))  d == onDisk[f]
  <2>1. b[f] = r /\ c \in Cursors /\ CursorTrue(f, c, w, d)
    BY <1>1, <1>b DEF Book
  <2> HIDE DEF c, d
  <2>2. PICK L \in [1..c.offset -> Records] :
          /\ \A i \in 1..c.offset : L[i].day <= w
          /\ IsRead(c, L, d)
          /\ \E s \in SUBSET OfMonth(L, w) :
                Tallied(f, OfMonth(L, w), s, c.keys, c.revisable, c.contrib)
    BY <2>1 DEF CursorTrue
  <2>3. PICK s \in SUBSET OfMonth(L, w) :
          Tallied(f, OfMonth(L, w), s, c.keys, c.revisable, c.contrib)
    BY <2>2
  <2>4. c.keys \subseteq OfMonth(L, w) /\ c.revisable \subseteq OfMonth(L, w)
    BY <2>3 DEF Tallied
  <2>5. \A x \in OfMonth(L, w) : ~(MonthOf(x.day) >= MonthOf(e))
    BY <1>m DEF OfMonth
  <2>6. \A x \in Days : MonthOf(x) >= MonthOf(e) => c.contrib[x] = 0
    <3> SUFFICES ASSUME NEW x \in Days, MonthOf(x) >= MonthOf(e) PROVE c.contrib[x] = 0
      OBVIOUS
    <3>1. MonthOf(x) # MonthOf(w)
      BY <1>m
    <3> QED BY <2>1, <3>1, NothingElsewhere
  <2>7. /\ r.keys = {} /\ r.revisable = {} /\ r.offset = c.offset /\ r.identity = c.identity
        /\ r.contrib = [x \in Days |-> IF MonthOf(x) >= MonthOf(e) THEN c.contrib[x] ELSE 0]
        /\ r \in [live : BOOLEAN, active : Nat, size : Nat, stamp : Nat, offset : Nat,
                  identity : Nat, prefix : Records \cup {None}, keys : {r.keys},
                  revisable : {r.revisable}, contrib : {r.contrib}]
    <3>1. c \in Cursors
      BY <2>1
    <3> QED BY <3>1, <2>4, <2>5 DEF RetainMonth, Cursors
  <2>8. r.contrib = Nothing
    BY <2>6, <2>7 DEF Nothing
  <2>9. r \in Cursors
    BY <2>7, <2>8, NothingTallied DEF Cursors
  <2> HIDE DEF r
  <2>10. CursorTrue(f, r, e, d)
    <3>1. OfMonth(L, e) = {}
      <4>1. \A i \in 1..c.offset : MonthOf(L[i].day) # MonthOf(e)
        <5>1. \A i \in 1..c.offset : L[i].day \in Days /\ L[i].day <= w
          BY <2>2, RecordIs
        <5> QED BY <1>m, <5>1, MonthIs
      <4> QED BY <4>1 DEF OfMonth
    <3>2. Tallied(f, OfMonth(L, e), {}, r.keys, r.revisable, r.contrib)
          /\ {} \in SUBSET OfMonth(L, e)
      BY <2>7, <2>8, <3>1, NothingTallied
    <3>3. L \in [1..r.offset -> Records] /\ \A i \in 1..r.offset : L[i].day <= e
      <4>1. \A i \in 1..c.offset : L[i].day \in Days
        BY RecordIs
      <4>2. \A x \in Days : x <= w => x <= e
        <5> SUFFICES ASSUME NEW x \in Days, x <= w, ~(x <= e) PROVE FALSE
          OBVIOUS
        <5>1. e <= w
          BY DaysAre
        <5> QED BY <1>m, <5>1, MonthIs
      <4> QED BY <2>2, <2>7, <4>1, <4>2
    <3>4. IsRead(r, L, d)
      BY <2>2, <2>7 DEF IsRead
    <3> QED BY <2>8, <3>2, <3>3, <3>4 DEF CursorTrue
  <2> QED BY <2>1, <2>7, <2>8, <2>9, <2>10 DEF c, d
<1>2. \A f \in Files : cs[f] = None => b[f] = None
  BY <1>b
<1>3. b \in [Files -> Cursors \cup {None}]
  <2>1. \A f \in Files : b[f] \in Cursors \cup {None}
    BY <1>1, <1>2
  <2>2. DOMAIN b = Files /\ b = [f \in Files |-> b[f]]
    BY <1>b
  <2> QED BY <2>1, <2>2
<1>4. \A f \in Files : MonthParts(b)[f] = 0 /\ DayParts(b, e)[f] = 0
  <2>1. SumFunctionOnSet(Nothing, Days) = 0
    <3>1. \A x \in Days : Nothing[x] = 0 /\ Nothing[x] \in Int
      BY DEF Nothing
    <3>2. IsFiniteSet(Days) /\ {} \in SUBSET Days /\ \A x \in Days \ {} : Nothing[x] = 0
      BY <3>1, DaysAre
    <3>3. SumFunctionOnSet(Nothing, Days) = SumFunctionOnSet(Nothing, {})
      BY <3>1, <3>2, SumOfParts
    <3> QED BY <3>3, SumOfNone
  <2>2. Nothing[e] = 0
    BY DEF Nothing
  <2> QED BY <1>1, <1>2, <2>1, <2>2 DEF MonthParts, DayParts, Part, PartOn
<1>5. ASSUME NEW p \in Providers
      PROVE  /\ SumFunctionOnSet(MonthParts(b), FilesOf(p)) = NoTotals[p]
             /\ SumFunctionOnSet(DayParts(b, e), FilesOf(p)) = NoTotals[p]
  BY <1>4, NothingAdds
<1>6. AddsUp(b, NoTotals, NoTotals, e)
  BY <1>5 DEF AddsUp
<1>7. \A f \in Files : b[f] # None => CursorTrue(f, b[f], e, onDisk[f])
  BY <1>1, <1>2
<1> QED BY <1>1, <1>2, <1>3, <1>6, <1>7 DEF Book

\* One cursor changes, not what its file has in the totals.
LEMMA OneChanges ==
  ASSUME NEW cs \in [Files -> Cursors \cup {None}], NEW mt, NEW dt, NEW w, NEW onDisk,
         Book(cs, mt, dt, w, onDisk), NEW f \in Files, NEW c \in Cursors \cup {None},
         c # None => CursorTrue(f, c, w, onDisk[f]),
         Part(c) = Part(cs[f]), PartOn(c, w) = PartOn(cs[f], w)
  PROVE  /\ Book([cs EXCEPT ![f] = c], mt, dt, w, onDisk)
         /\ [cs EXCEPT ![f] = c] \in [Files -> Cursors \cup {None}]
<1> DEFINE b == [cs EXCEPT ![f] = c]
<1>1. b \in [Files -> Cursors \cup {None}] /\ b[f] = c /\ \A x \in Files \ {f} : b[x] = cs[x]
  OBVIOUS
<1> HIDE DEF b
<1>2. \A x \in Files : Part(b[x]) = Part(cs[x]) /\ PartOn(b[x], w) = PartOn(cs[x], w)
  BY <1>1
<1>3. AddsUp(cs, mt, dt, w)
  BY DEF Book
<1>4. AddsUp(b, mt, dt, w)
  BY <1>1, <1>2, <1>3, AddsUpSame
<1>5. \A x \in Files : b[x] # None => CursorTrue(x, b[x], w, onDisk[x])
  BY <1>1 DEF Book
<1>6. Book(b, mt, dt, w, onDisk)
  BY <1>4, <1>5 DEF Book
<1> QED BY <1>1, <1>6 DEF b

\* The totals t, with less for a provider.
Less(t, p, n) == [t EXCEPT ![p] = Monus(@, n)]

\* What a cursor that was emptied had contributed is subtracted (subtract_file_contrib).
LEMMA OneIsSubtracted ==
  ASSUME NEW cs \in [Files -> Cursors \cup {None}], NEW w \in Days, NEW onDisk,
         NEW mt \in [Providers -> Nat], NEW dt \in [Providers -> Nat],
         Book(cs, mt, dt, w, onDisk), NEW f \in Files, cs[f] # None,
         NEW c \in Cursors, CursorTrue(f, c, w, onDisk[f]), c.contrib = Nothing,
         NEW gone, gone = cs[f].contrib
  PROVE  /\ Book([cs EXCEPT ![f] = c], Less(mt, ProviderOf(f), SumFunction(gone)),
                 Less(dt, ProviderOf(f), gone[w]), w, onDisk)
         /\ Less(mt, ProviderOf(f), SumFunction(gone)) \in [Providers -> Nat]
         /\ Less(dt, ProviderOf(f), gone[w]) \in [Providers -> Nat]
<1> DEFINE b == [cs EXCEPT ![f] = c]  p == ProviderOf(f)
           mt2 == Less(mt, p, SumFunction(gone))  dt2 == Less(dt, p, gone[w])
<1>1. b \in [Files -> Cursors \cup {None}] /\ b[f] = c /\ \A x \in Files \ {f} : b[x] = cs[x]
  OBVIOUS
<1>2. AddsUp(cs, mt, dt, w)
  BY DEF Book
<1>3. PICK K \in Nat, N \in Nat :
            /\ mt[p] = K + Part(cs[f]) /\ dt[p] = N + PartOn(cs[f], w)
            /\ \A x \in Cursors \cup {None} :
                  AddsUp([cs EXCEPT ![f] = x], [mt EXCEPT ![p] = K + Part(x)],
                         [dt EXCEPT ![p] = N + PartOn(x, w)], w)
  BY <1>2, AddsUpKeeps
<1>4. c # None /\ Part(c) = 0 /\ PartOn(c, w) = 0
  <2>1. c # None
    BY NoneAssumption
  <2>2. SumFunctionOnSet(Nothing, Days) = 0
    <3>1. \A x \in Days : Nothing[x] = 0 /\ Nothing[x] \in Int
      BY DEF Nothing
    <3>2. IsFiniteSet(Days) /\ {} \in SUBSET Days /\ \A x \in Days \ {} : Nothing[x] = 0
      BY <3>1, DaysAre
    <3>3. SumFunctionOnSet(Nothing, Days) = SumFunctionOnSet(Nothing, {})
      BY <3>1, <3>2, SumOfParts
    <3> QED BY <3>3, SumOfNone
  <2>3. Nothing[w] = 0
    BY DEF Nothing
  <2> QED BY <2>1, <2>2, <2>3 DEF Part, PartOn
<1>5. /\ SumFunction(cs[f].contrib) = Part(cs[f]) /\ cs[f].contrib[w] = PartOn(cs[f], w)
      /\ Part(cs[f]) \in Nat /\ PartOn(cs[f], w) \in Nat
  <2>1. cs[f].contrib \in Contributions
    BY DEF Cursors
  <2>2. cs[f] \in Cursors \cup {None}
    OBVIOUS
  <2> QED BY <2>1, <2>2, ContributionsAre, PartIs DEF Part, PartOn
<1>6. Monus(mt[p], SumFunction(cs[f].contrib)) = K /\ Monus(dt[p], cs[f].contrib[w]) = N
  <2>1. \A a, n \in Nat : Monus(n + a, a) = n
    BY DEF Monus
  <2> QED BY <1>3, <1>5, <2>1
<1>7. p \in Providers
  BY DaysAre
<1> HIDE DEF p
<1>8. mt2 = [mt EXCEPT ![p] = K + Part(c)] /\ dt2 = [dt EXCEPT ![p] = N + PartOn(c, w)]
  <2>1. mt2 = [mt EXCEPT ![p] = K] /\ dt2 = [dt EXCEPT ![p] = N]
    BY <1>6 DEF p, Less
  <2>2. K + Part(c) = K /\ N + PartOn(c, w) = N
    BY <1>4
  <2> QED BY <2>1, <2>2
<1>9. AddsUp(b, mt2, dt2, w)
  BY <1>3, <1>8
<1>10. mt2 \in [Providers -> Nat] /\ dt2 \in [Providers -> Nat]
  <2>1. mt2 = [mt EXCEPT ![p] = K] /\ dt2 = [dt EXCEPT ![p] = N]
    BY <1>6 DEF p, Less
  <2> QED BY <1>7, <2>1
<1> HIDE DEF b, mt2, dt2
<1>11. \A x \in Files : b[x] # None => CursorTrue(x, b[x], w, onDisk[x])
  BY <1>1 DEF Book
<1>12. Book(b, mt2, dt2, w, onDisk)
  BY <1>9, <1>11 DEF Book
<1> QED BY <1>10, <1>12 DEF b, mt2, dt2, p

\* A file changes in a way that a cursor sees, or beyond what it has read.
LEMMA DiskChanges ==
  ASSUME NEW cs \in [Files -> Cursors \cup {None}], NEW mt, NEW dt, NEW w, NEW onDisk \in [Files -> DiskFiles \cup {None}],
         Book(cs, mt, dt, w, onDisk), NEW f \in Files, NEW e,
         cs[f] # None => \A L \in [1..cs[f].offset -> Records] :
                            IsRead(cs[f], L, onDisk[f]) => IsRead(cs[f], L, e)
  PROVE  Book(cs, mt, dt, w, [onDisk EXCEPT ![f] = e])
<1> DEFINE after == [onDisk EXCEPT ![f] = e]
<1>1. after[f] = e /\ \A x \in Files \ {f} : after[x] = onDisk[x]
  OBVIOUS
<1> HIDE DEF after
<1>2. ASSUME NEW x \in Files, cs[x] # None PROVE CursorTrue(x, cs[x], w, after[x])
  <2>1. CursorTrue(x, cs[x], w, onDisk[x])
    BY <1>2 DEF Book
  <2>2. CASE x = f
    <3> DEFINE c == cs[f]  d == onDisk[f]
    <3>1. /\ CursorTrue(f, c, w, d)
          /\ \A L \in [1..c.offset -> Records] : IsRead(c, L, d) => IsRead(c, L, e)
      BY <1>2, <2>1, <2>2
    <3> HIDE DEF c, d
    <3>2. CursorTrue(f, c, w, e)
      BY <3>1, FileChanges
    <3> QED BY <1>1, <2>2, <3>2 DEF c
  <2>3. CASE x # f
    BY <1>1, <2>1, <2>3
  <2> QED BY <2>2, <2>3
<1>3. Book(cs, mt, dt, w, after)
  BY <1>2 DEF Book
<1> QED BY <1>3 DEF after

-----------------------------------------------------------------------------
(***************************************************************************)
(* Other programs, and midnight.                                           *)
(***************************************************************************)
\* What is said of the disk and the cursors, when only the file f changes on the disk.
LEMMA DiskStep ==
  ASSUME IngestInv, NEW f \in Files, NEW e, changes < MaxChanges,
         disk' = [disk EXCEPT ![f] = e], changes' = changes + 1,
         UNCHANGED <<today, pc, window, seenStat, cursors, totals, monthKey,
                     dayKey, retirement, dirty, saved, starts>>,
         e # None => /\ e \in DiskFiles /\ Len(e.lines) <= MaxLines /\ e.identity <= changes + 1
                     /\ \A i \in 1..Len(e.lines) : e.lines[i].day <= today,
         \A c \in Cursors : c = cursors[f] \/ (saved # None /\ c = saved.cursors[f]) =>
            \A L \in [1..c.offset -> Records] : IsRead(c, L, disk[f]) => IsRead(c, L, e)
  PROVE  IngestInv'
<1>0. UNCHANGED <<month, day>>
  BY DEF totals
<1>1. DiskTyped /\ StateTyped /\ LiveTrue /\ SavedTrue
  BY DEF IngestInv
<1>2. changes \in Nat /\ MaxChanges \in Nat /\ changes' \in 0..MaxChanges
  BY <1>1, IngestAssumption DEF DiskTyped
<1>3. DiskTyped'
  <2>1. disk' \in [Files -> DiskFiles \cup {None}]
    BY <1>1 DEF DiskTyped
  <2>2. ASSUME NEW x \in Files, disk'[x] # None
        PROVE  /\ Len(disk'[x].lines) <= MaxLines /\ disk'[x].identity <= changes + 1
               /\ \A i \in 1..Len(disk'[x].lines) : disk'[x].lines[i].day <= today
    <3>1. CASE x = f
      <4>1. disk'[x] = e
        BY <1>1, <3>1 DEF DiskTyped
      <4> QED BY <2>2, <4>1
    <3>2. CASE x # f
      <4>1. disk'[x] = disk[x]
        BY <1>1, <3>2 DEF DiskTyped
      <4>2. disk[x] \in DiskFiles /\ disk[x].identity \in Nat /\ disk[x].identity <= changes
        BY <1>1, <2>2, <4>1 DEF DiskTyped, DiskFiles
      <4>3. disk[x].identity <= changes + 1
        BY <1>2, <4>2
      <4> QED BY <1>1, <2>2, <4>1, <4>3 DEF DiskTyped
    <3> QED BY <3>1, <3>2
  <2> QED BY <1>1, <1>2, <2>1, <2>2 DEF DiskTyped
<1>4. \A cs : CursorsTyped(cs) =>
         /\ cs \in [Files -> Cursors \cup {None}]
         /\ \A x \in Files : cs[x] # None => cs[x].offset <= MaxLines /\ cs[x].identity <= changes'
  <2> SUFFICES ASSUME NEW cs, CursorsTyped(cs), NEW x \in Files, cs[x] # None
               PROVE  cs[x].offset <= MaxLines /\ cs[x].identity <= changes'
    BY DEF CursorsTyped
  <2>1. cs[x] \in Cursors /\ cs[x].identity <= changes /\ cs[x].offset <= MaxLines
    BY DEF CursorsTyped
  <2>2. cs[x].identity \in Nat
    BY <2>1 DEF Cursors
  <2> QED BY <1>2, <2>1, <2>2
<1>5. StateTyped'
  <2>1. CursorsTyped(cursors)'
    BY <1>1, <1>4 DEF StateTyped, CursorsTyped
  <2> QED BY <1>0, <1>1, <2>1 DEF StateTyped
<1>6. ASSUME NEW cs, CursorsTyped(cs), NEW mt, NEW dt, NEW w, Book(cs, mt, dt, w, disk),
             cs[f] = cursors[f] \/ (saved # None /\ cs[f] = saved.cursors[f])
      PROVE  Book(cs, mt, dt, w, disk')
  <2>1. cs \in [Files -> Cursors \cup {None}] /\ disk \in [Files -> DiskFiles \cup {None}]
    BY <1>1, <1>6 DEF CursorsTyped, DiskTyped
  <2>2. cs[f] # None => \A L \in [1..cs[f].offset -> Records] :
                            IsRead(cs[f], L, disk[f]) => IsRead(cs[f], L, e)
    BY <1>6, <2>1
  <2>3. Book(cs, mt, dt, w, [disk EXCEPT ![f] = e])
    BY <1>6, <2>1, <2>2, DiskChanges
  <2> QED BY <2>3
<1>7. LiveTrue'
  <2>1. dayKey # 0 => Book(cursors, month, day, dayKey, disk')
    BY <1>1, <1>6 DEF LiveTrue, StateTyped
  <2> QED BY <1>0, <1>1, <2>1 DEF LiveTrue
<1>8. SavedTrue'
  <2>1. saved # None => Book(saved.cursors, saved.monthTotals, saved.dayTotals, saved.today, disk')
    BY <1>1, <1>6 DEF SavedTrue
  <2>2. saved # None => CursorsTyped(saved.cursors)'
    BY <1>1, <1>4 DEF SavedTrue, CursorsTyped
  <2> QED BY <1>1, <2>1, <2>2 DEF SavedTrue
<1> QED BY <1>3, <1>5, <1>7, <1>8 DEF IngestInv

\* The cursors of a file, live and saved.
LEMMA TheCursors ==
  ASSUME IngestInv, NEW f \in Files, NEW c \in Cursors,
         c = cursors[f] \/ (saved # None /\ c = saved.cursors[f])
  PROVE  /\ c # None /\ c.offset \in Nat /\ c.identity \in Nat /\ c.identity <= changes
         /\ c.offset \in ReadOf(f)
<1>1. c # None /\ c.offset \in Nat /\ c.identity \in Nat
  BY NoneAssumption DEF Cursors
<1>2. c.identity <= changes
  BY <1>1 DEF IngestInv, StateTyped, SavedTrue, CursorsTyped
<1>3. c.offset \in ReadOf(f)
  BY <1>1 DEF ReadOf
<1> QED BY <1>1, <1>2, <1>3

\* A record is appended to a file; what was read of it stays its beginning.
LEMMA AppendKeeps ==
  ASSUME IngestInv, NEW f \in Files, Append1(f)
  PROVE  IngestInv'
<1> DEFINE d == disk[f]
<1>0. d # None /\ d \in DiskFiles /\ Len(d.lines) < MaxLines /\ changes \in Nat /\ today \in Days
      /\ d.identity <= changes /\ \A i \in 1..Len(d.lines) : d.lines[i].day <= today
  BY DEF IngestInv, DiskTyped, Append1
<1>1. /\ d.identity \in Nat /\ d.lines \in Seq(Records)
  BY <1>0 DEF DiskFiles
<1>2. PICK r \in Written : Stamped(f, d.identity, Append(d.lines, r))
  BY DEF Append1
<1> DEFINE e == [identity |-> d.identity, stamp |-> changes', mday |-> today,
                 lines |-> Append(d.lines, r)]
<1>3. /\ changes < MaxChanges /\ changes' = changes + 1 /\ disk' = [disk EXCEPT ![f] = e]
      /\ UNCHANGED <<today, pc, window, seenStat, cursors, totals, monthKey,
                     dayKey, retirement, dirty, saved, starts>>
  BY <1>2 DEF Stamped
<1>4. r \in Records /\ r.day <= today
  BY DEF Written
<1>5. /\ e.identity = d.identity /\ e.lines = Append(d.lines, r)
      /\ Append(d.lines, r) \in Seq(Records) /\ Len(Append(d.lines, r)) = Len(d.lines) + 1
      /\ \A i \in 1..Len(d.lines) : Append(d.lines, r)[i] = d.lines[i]
      /\ Append(d.lines, r)[Len(d.lines) + 1] = r
  BY <1>1, <1>4
<1>6. e \in DiskFiles /\ Len(e.lines) <= MaxLines /\ e.identity <= changes + 1
      /\ \A i \in 1..Len(e.lines) : e.lines[i].day <= today
  <2>1. changes' \in Nat
    BY <1>0, <1>3
  <2>2. e \in DiskFiles
    BY <1>0, <1>1, <1>5, <2>1 DEF DiskFiles
  <2>3. Len(d.lines) \in Nat /\ MaxLines \in Nat
    BY <1>1, IngestAssumption
  <2> HIDE DEF e, d
  <2>4. \A i \in 1..Len(e.lines) : i \in 1..Len(d.lines) \/ i = Len(d.lines) + 1
    BY <1>5, <2>3
  <2>5. \A i \in 1..Len(e.lines) : e.lines[i].day <= today
    BY <1>0, <1>4, <1>5, <2>4
  <2> QED BY <1>0, <1>1, <1>5, <2>2, <2>3, <2>5
<1>7. ASSUME NEW c \in Cursors, c = cursors[f] \/ (saved # None /\ c = saved.cursors[f]),
             NEW L \in [1..c.offset -> Records], IsRead(c, L, d)
      PROVE  IsRead(c, L, e)
  <2>1. c.offset \in Nat /\ c.offset <= Len(d.lines)
    <3>1. c.offset \in ReadOf(f) /\ c.offset \in Nat
      BY <1>7, TheCursors
    <3> QED BY <3>1 DEF Append1
  <2>2. Len(d.lines) \in Nat
    BY <1>1
  <2>3. \A i \in 1..c.offset : i \in 1..Len(d.lines)
    BY <2>1, <2>2
  <2> HIDE DEF e, d
  <2> QED BY <1>0, <1>5, <1>7, <2>1, <2>3 DEF IsRead
<1> HIDE DEF e
<1> QED BY <1>3, <1>6, <1>7, DiskStep DEF d

\* A file is created or replaced; no cursor has seen the new one.
LEMMA ReplaceKeeps ==
  ASSUME IngestInv, NEW f \in Files, Replace(f)
  PROVE  IngestInv'
<1>0. changes \in Nat /\ today \in Days
  BY DEF IngestInv, DiskTyped
<1>1. PICK r \in Written : Stamped(f, changes + 1, <<r>>)
  BY DEF Replace
<1> DEFINE e == [identity |-> changes + 1, stamp |-> changes', mday |-> today, lines |-> <<r>>]
<1>2. /\ changes < MaxChanges /\ changes' = changes + 1 /\ disk' = [disk EXCEPT ![f] = e]
      /\ UNCHANGED <<today, pc, window, seenStat, cursors, totals, monthKey,
                     dayKey, retirement, dirty, saved, starts>>
  BY <1>1 DEF Stamped
<1>3. r \in Records /\ r.day <= today
  BY DEF Written
<1>4. e \in DiskFiles /\ Len(e.lines) <= MaxLines /\ e.identity <= changes + 1
      /\ \A i \in 1..Len(e.lines) : e.lines[i].day <= today
  <2>1. <<r>> \in Seq(Records) /\ Len(<<r>>) = 1 /\ <<r>>[1] = r
    BY <1>3
  <2>2. e \in DiskFiles
    BY <1>0, <1>2, <2>1 DEF DiskFiles
  <2>3. \A i \in 1..Len(e.lines) : e.lines[i].day <= today
    BY <1>3, <2>1
  <2> QED BY <1>0, <2>1, <2>2, <2>3, IngestAssumption
<1>5. ASSUME NEW c \in Cursors, c = cursors[f] \/ (saved # None /\ c = saved.cursors[f]),
             NEW L \in [1..c.offset -> Records], IsRead(c, L, disk[f])
      PROVE  IsRead(c, L, e)
  <2>1. c.identity \in Nat /\ c.identity <= changes
    BY <1>5, TheCursors
  <2>2. c.identity # e.identity
    BY <1>0, <2>1
  <2> QED BY <2>2 DEF IsRead
<1> HIDE DEF e
<1> QED BY <1>2, <1>4, <1>5, DiskStep

\* A file loses its last record; what was read of it is longer, or still its beginning.
LEMMA TruncateKeeps ==
  ASSUME IngestInv, NEW f \in Files, Truncate(f)
  PROVE  IngestInv'
<1> DEFINE d == disk[f]
<1>0. d # None /\ d \in DiskFiles /\ Len(d.lines) > 1 /\ changes \in Nat /\ today \in Days
      /\ d.identity <= changes /\ Len(d.lines) <= MaxLines
      /\ \A i \in 1..Len(d.lines) : d.lines[i].day <= today
  BY DEF IngestInv, DiskTyped, Truncate
<1>1. d.identity \in Nat /\ d.lines \in Seq(Records) /\ Len(d.lines) \in Nat
  BY <1>0 DEF DiskFiles
<1> DEFINE e == [identity |-> d.identity, stamp |-> changes', mday |-> today,
                 lines |-> Front(d.lines)]
<1>2. /\ changes < MaxChanges /\ changes' = changes + 1 /\ disk' = [disk EXCEPT ![f] = e]
      /\ UNCHANGED <<today, pc, window, seenStat, cursors, totals, monthKey,
                     dayKey, retirement, dirty, saved, starts>>
  BY DEF Truncate, Stamped
<1>3. /\ Front(d.lines) \in Seq(Records) /\ Len(Front(d.lines)) = Len(d.lines) - 1
      /\ \A i \in 1..Len(d.lines) - 1 : Front(d.lines)[i] = d.lines[i]
  <2> DEFINE l == d.lines
  <2>1. l \in Seq(Records) /\ Len(l) > 1
    BY <1>0, <1>1
  <2> HIDE DEF l
  <2>2. /\ SubSeq(l, 1, Len(l) - 1) \in Seq(Records) /\ Len(SubSeq(l, 1, Len(l) - 1)) = Len(l) - 1
        /\ \A i \in 1..Len(l) - 1 : SubSeq(l, 1, Len(l) - 1)[i] = l[i]
    BY <2>1, SMTT(30)
  <2> QED BY <2>2 DEF l, Front
<1>4. e \in DiskFiles /\ Len(e.lines) <= MaxLines /\ e.identity <= changes + 1
      /\ \A i \in 1..Len(e.lines) : e.lines[i].day <= today
  <2>1. e \in DiskFiles
    BY <1>0, <1>1, <1>2, <1>3 DEF DiskFiles
  <2>2. e.lines = Front(d.lines) /\ e.identity = d.identity
    OBVIOUS
  <2> HIDE DEF e, d
  <2>3. \A i \in 1..Len(e.lines) : i \in 1..Len(d.lines) - 1 /\ i \in 1..Len(d.lines)
    BY <1>1, <1>3, <2>2
  <2>4. Len(e.lines) <= MaxLines
    BY <1>0, <1>1, <1>3, <2>2, IngestAssumption
  <2>5. \A i \in 1..Len(e.lines) : e.lines[i].day <= today
    <3> SUFFICES ASSUME NEW i \in 1..Len(e.lines) PROVE e.lines[i].day <= today
      OBVIOUS
    <3>1. i \in 1..Len(d.lines) /\ e.lines[i] = d.lines[i]
      BY <1>3, <2>2, <2>3
    <3> QED BY <1>0, <3>1
  <2>6. e.identity <= changes + 1
    BY <1>0, <1>1, <2>2
  <2> QED BY <2>1, <2>4, <2>5, <2>6
<1>5. ASSUME NEW c \in Cursors, c = cursors[f] \/ (saved # None /\ c = saved.cursors[f]),
             NEW L \in [1..c.offset -> Records], IsRead(c, L, d)
      PROVE  IsRead(c, L, e)
  <2>1. c.offset \in Nat
    BY <1>5, TheCursors
  <2>2. e.lines = Front(d.lines) /\ e.identity = d.identity
    OBVIOUS
  <2> HIDE DEF e, d
  <2> SUFFICES ASSUME c.identity = e.identity, c.offset <= Len(e.lines), NEW i \in 1..c.offset
               PROVE  L[i] = e.lines[i]
    BY DEF IsRead
  <2>3. c.offset <= Len(d.lines) /\ i \in 1..Len(d.lines) - 1
    BY <1>1, <1>3, <2>1, <2>2
  <2> QED BY <1>0, <1>3, <1>5, <2>2, <2>3 DEF IsRead
<1> HIDE DEF e
<1> QED BY <1>2, <1>4, <1>5, DiskStep DEF d

\* A file is deleted.
LEMMA DeleteKeeps ==
  ASSUME IngestInv, NEW f \in Files, Delete(f)
  PROVE  IngestInv'
<1>1. \A c, L : IsRead(c, L, None)
  BY DEF IsRead
<1>2. /\ changes < MaxChanges /\ disk' = [disk EXCEPT ![f] = None] /\ changes' = changes + 1
      /\ UNCHANGED <<today, pc, window, seenStat, cursors, totals, monthKey,
                     dayKey, retirement, dirty, saved, starts>>
  BY DEF Delete
<1> QED BY <1>1, <1>2, DiskStep

\* Midnight: the calendar goes on.
LEMMA MidnightKeeps ==
  ASSUME IngestInv, ~MidnightInTick, Midnight
  PROVE  IngestInv'
<1>1. /\ today \in Days /\ today < LastDay /\ today' = today + 1 /\ pc \notin {"tick", "probe", "read"}
      /\ UNCHANGED <<disk, changes, pc, window, seenStat, cursors, month, day,
                     monthKey, dayKey, retirement, dirty, saved, starts>>
  BY DEF IngestInv, DiskTyped, Midnight, totals
<1>2. LastDay \in Nat /\ today \in Nat /\ today' \in Days /\ \A n \in Days \cup {0} : n <= today => n <= today'
  BY <1>1, IngestAssumption DEF Days
<1>3. DiskTyped'
  <2>1. \A x \in Files : disk[x] # None => \A i \in 1..Len(disk[x].lines) : disk[x].lines[i].day \in Days
    <3>1. \A x \in Files : disk[x] # None => disk[x].lines \in Seq(Records)
      BY DEF IngestInv, DiskTyped, DiskFiles
    <3>2. \A x \in Files : disk[x] # None => \A i \in 1..Len(disk[x].lines) : disk[x].lines[i] \in Records
      BY <3>1
    <3> QED BY <3>2, RecordIs
  <2> QED BY <1>1, <1>2, <2>1 DEF IngestInv, DiskTyped
<1>4. StateTyped'
  BY <1>1, <1>2 DEF IngestInv, StateTyped, CursorsTyped
<1>5. LiveTrue'
  BY <1>1 DEF IngestInv, LiveTrue
<1>6. SavedTrue'
  BY <1>1, <1>2 DEF IngestInv, SavedTrue, CursorsTyped
<1> QED BY <1>3, <1>4, <1>5, <1>6 DEF IngestInv

-----------------------------------------------------------------------------
(***************************************************************************)
(* The steps of a tick.                                                    *)
(***************************************************************************)
\* What a tick begins with.
LEMMA InTick ==
  ASSUME IngestInv, pc \in {"tick", "probe", "read"}
  PROVE  /\ window = today /\ dayKey = today /\ monthKey = MonthOf(today)
         /\ today \in Days /\ dayKey # 0 /\ Book(cursors, month, day, today, disk)
         /\ cursors \in [Files -> Cursors \cup {None}] /\ CursorsTyped(cursors)
         /\ month \in [Providers -> Nat] /\ day \in [Providers -> Nat]
         /\ \A f \in Files : cursors[f] # None => cursors[f] \in Cursors
<1>1. 0 \notin Days
  BY DaysAre
<1> QED BY <1>1 DEF IngestInv, DiskTyped, StateTyped, LiveTrue, CursorsTyped

\* A tick changes the cursors and the totals, nothing of the disk, the days and the store.
LEMMA TickStep ==
  ASSUME IngestInv, pc \in {"tick", "probe", "read"}, pc' \in {"tick", "probe", "read"},
         UNCHANGED <<today, disk, changes, window, monthKey, dayKey, saved, starts>>,
         retirement' \subseteq Files, dirty' \in BOOLEAN,
         seenStat' \in IF pc' \in {"probe", "read"} THEN Stats ELSE {NoStat},
         pc' = "read" => cursors'[seenStat'.file] # None,
         CursorsTyped(cursors'), month' \in [Providers -> Nat], day' \in [Providers -> Nat],
         Book(cursors', month', day', today, disk)
  PROVE  IngestInv'
<1>0. /\ window = today /\ dayKey = today /\ monthKey = MonthOf(today) /\ dayKey # 0
  BY InTick
<1>1. DiskTyped'
  BY DEF IngestInv, DiskTyped
<1>2. StateTyped'
  BY DEF IngestInv, StateTyped, CursorsTyped
<1>3. LiveTrue'
  BY <1>0 DEF IngestInv, LiveTrue
<1>4. SavedTrue'
  BY DEF IngestInv, SavedTrue, CursorsTyped
<1> QED BY <1>1, <1>2, <1>3, <1>4 DEF IngestInv

\* One cursor changes.
LEMMA OneTyped ==
  ASSUME NEW cs, CursorsTyped(cs), NEW f \in Files, NEW c \in Cursors \cup {None},
         c # None => c.offset <= MaxLines /\ c.identity <= changes
  PROVE  CursorsTyped([cs EXCEPT ![f] = c])
<1> DEFINE b == [cs EXCEPT ![f] = c]
<1>1. cs \in [Files -> Cursors \cup {None}]
  BY DEF CursorsTyped
<1>2. b \in [Files -> Cursors \cup {None}] /\ b[f] = c /\ \A x \in Files \ {f} : b[x] = cs[x]
  BY <1>1
<1> HIDE DEF b
<1>3. CursorsTyped(b)
  BY <1>2 DEF CursorsTyped
<1> QED BY <1>3 DEF b

\* The tick begins: with nothing, on the same day, on another day or in another month.
LEMMA BeginTickKeeps ==
  ASSUME IngestInv, BeginTick
  PROVE  IngestInv'
<1> DEFINE newMonth == monthKey \notin {0, MonthOf(today)}
           newDay   == dayKey \notin {0, today}
<1>1. /\ pc = "idle" /\ pc' = "tick" /\ window' = today /\ monthKey' = MonthOf(today)
      /\ dayKey' = today
      /\ month' = (IF newMonth THEN NoTotals ELSE month)
      /\ day' = (IF newMonth \/ newDay THEN NoTotals ELSE day)
      /\ cursors' = (IF newMonth
             THEN [f \in Files |-> IF cursors[f] = None THEN None
                                   ELSE RetainMonth(cursors[f], MonthOf(today))]
             ELSE cursors)
      /\ retirement' = (IF newMonth THEN Known(cursors) ELSE retirement)
      /\ dirty' = (dirty \/ newMonth \/ newDay)
      /\ UNCHANGED <<today, disk, changes, seenStat, saved, starts>>
  BY DEF BeginTick, files
<1>2. /\ today \in Days /\ CursorsTyped(cursors) /\ cursors \in [Files -> Cursors \cup {None}]
      /\ month \in [Providers -> Nat] /\ day \in [Providers -> Nat]
      /\ dayKey \in Days \cup {0} /\ dayKey <= today /\ (dayKey = 0 <=> monthKey = 0)
      /\ (dayKey = 0 \/ monthKey # MonthOf(dayKey) => Blank(cursors, month, day))
      /\ (dayKey # 0 => Book(cursors, month, day, dayKey, disk))
  BY DEF IngestInv, DiskTyped, StateTyped, LiveTrue, CursorsTyped
<1>3. MonthOf(today) \in Nat \ {0} /\ today # 0 /\ today \in Nat
  BY <1>2, DaysAre, MonthIs
<1>4. NoTotals \in [Providers -> Nat]
  BY DEF NoTotals
<1> DEFINE Right == /\ CursorsTyped(cursors') /\ Book(cursors', month', day', today, disk)
                    /\ month' \in [Providers -> Nat] /\ day' \in [Providers -> Nat]
<1>5. ASSUME dayKey = 0 \/ monthKey # MonthOf(dayKey) PROVE Right
  <2>1. Blank(cursors, month, day)
    BY <1>2, <1>5
  <2>2. cursors' = cursors
    BY <1>1, <2>1 DEF Blank
  <2>3. month' = NoTotals /\ day' = NoTotals
    BY <1>1, <2>1 DEF Blank
  <2>4. Blank(cursors', month', day')
    BY <2>1, <2>2, <2>3 DEF Blank
  <2>5. Book(cursors', month', day', today, disk)
    BY <1>2, <2>4, BlankIs
  <2> QED BY <1>2, <1>4, <2>2, <2>3, <2>5
<1>6. ASSUME dayKey # 0, monthKey = MonthOf(dayKey) PROVE Right
  <2>1. dayKey \in Days /\ Book(cursors, month, day, dayKey, disk)
    BY <1>2, <1>6
  <2>2. MonthOf(dayKey) \in Nat \ {0} /\ MonthOf(dayKey) <= MonthOf(today) /\ dayKey \in Nat
    BY <1>2, <2>1, MonthIs, DaysAre
  <2>3. CASE newMonth
    <3>1. MonthOf(dayKey) < MonthOf(today)
      BY <1>3, <1>6, <2>2, <2>3
    <3>2. cursors' = Retained(cursors, MonthOf(today)) /\ month' = NoTotals /\ day' = NoTotals
      BY <1>1, <2>3 DEF Retained
    <3>3. /\ Book(cursors', NoTotals, NoTotals, today, disk)
          /\ cursors' \in [Files -> Cursors \cup {None}]
          /\ \A f \in Files : cursors'[f] # None =>
                /\ cursors[f] # None /\ cursors'[f].offset = cursors[f].offset
                /\ cursors'[f].identity = cursors[f].identity
      BY <1>2, <2>1, <3>1, <3>2, MonthPasses
    <3>4. CursorsTyped(cursors')
      BY <1>2, <3>3 DEF CursorsTyped
    <3> QED BY <1>4, <3>2, <3>3, <3>4
  <2>4. CASE ~newMonth /\ newDay
    <3>1. dayKey < today /\ MonthOf(dayKey) = MonthOf(today)
      BY <1>2, <1>3, <1>6, <2>2, <2>4
    <3>2. cursors' = cursors /\ month' = month /\ day' = NoTotals
      BY <1>1, <2>4
    <3>3. Book(cursors, month, NoTotals, today, disk)
      BY <1>2, <2>1, <3>1, DayPasses
    <3> QED BY <1>2, <1>4, <3>2, <3>3
  <2>5. CASE ~newMonth /\ ~newDay
    <3>1. cursors' = cursors /\ month' = month /\ day' = day /\ dayKey = today
      BY <1>1, <1>6, <2>5
    <3> QED BY <1>2, <2>1, <3>1
  <2> QED BY <2>3, <2>4, <2>5
<1>7. Right
  BY <1>5, <1>6
<1>8. retirement' \subseteq Files /\ dirty' \in BOOLEAN
  <2>1. Known(cursors) \subseteq Files
    BY DEF Known
  <2> QED BY <1>1, <2>1 DEF IngestInv, StateTyped
<1> HIDE DEF newMonth, newDay
<1>9. DiskTyped'
  BY <1>1 DEF IngestInv, DiskTyped
<1>10. StateTyped'
  BY <1>1, <1>2, <1>3, <1>7, <1>8 DEF IngestInv, StateTyped, CursorsTyped
<1>11. LiveTrue'
  BY <1>1, <1>3, <1>7 DEF LiveTrue
<1>12. SavedTrue'
  BY <1>1 DEF IngestInv, SavedTrue, CursorsTyped
<1> QED BY <1>9, <1>10, <1>11, <1>12 DEF IngestInv

\* A file is retired when it has nothing in the totals of this month.
LEMMA RetireKeeps ==
  ASSUME IngestInv, NEW f \in Files, Retire(f)
  PROVE  IngestInv'
<1>1. /\ pc = "tick" /\ pc' = "tick" /\ retirement' = retirement \ {f}
      /\ UNCHANGED <<today, disk, changes, window, monthKey, dayKey, saved, starts, month, day,
                     seenStat>>
      /\ \/ /\ cursors[f] # None /\ cursors[f].active < MonthOf(window)
            /\ cursors' = [cursors EXCEPT ![f] = None] /\ dirty' = TRUE
         \/ UNCHANGED <<cursors, dirty>>
  BY DEF Retire, files, totals
<1>2. /\ window = today /\ Book(cursors, month, day, today, disk) /\ today \in Days
      /\ cursors \in [Files -> Cursors \cup {None}] /\ CursorsTyped(cursors)
      /\ month \in [Providers -> Nat] /\ day \in [Providers -> Nat]
  BY <1>1, InTick
<1>3. retirement' \subseteq Files /\ dirty' \in BOOLEAN /\ seenStat' = NoStat
  BY <1>1 DEF IngestInv, StateTyped
<1>4. CursorsTyped(cursors') /\ Book(cursors', month, day, today, disk)
  <2>1. CASE cursors' = cursors
    BY <1>2, <2>1
  <2>2. CASE cursors[f] # None /\ cursors[f].active < MonthOf(window)
             /\ cursors' = [cursors EXCEPT ![f] = None]
    <3>1. CursorTrue(f, cursors[f], today, disk[f])
      BY <1>2, <2>2 DEF Book
    <3>2. cursors[f].contrib = Nothing
      BY <1>2, <2>2, <3>1 DEF CursorTrue
    <3>3. SumFunctionOnSet(Nothing, Days) = 0 /\ Nothing[today] = 0
      <4>1. \A x \in Days : Nothing[x] = 0 /\ Nothing[x] \in Int
        BY DEF Nothing
      <4>2. IsFiniteSet(Days) /\ {} \in SUBSET Days /\ \A x \in Days \ {} : Nothing[x] = 0
        BY <4>1, DaysAre
      <4>3. SumFunctionOnSet(Nothing, Days) = SumFunctionOnSet(Nothing, {})
        BY <4>1, <4>2, SumOfParts
      <4> QED BY <1>2, <4>1, <4>3, SumOfNone
    <3>4. Part(None) = Part(cursors[f]) /\ PartOn(None, today) = PartOn(cursors[f], today)
      BY <2>2, <3>2, <3>3 DEF Part, PartOn
    <3>5. Book([cursors EXCEPT ![f] = None], month, day, today, disk)
      BY <1>2, <3>4, OneChanges
    <3>6. CursorsTyped([cursors EXCEPT ![f] = None])
      BY <1>2, OneTyped
    <3> QED BY <2>2, <3>5, <3>6
  <2> QED BY <1>1, <2>1, <2>2
<1> QED BY <1>1, <1>2, <1>3, <1>4, TickStep

\* The size and the time of a file are asked for.
LEMMA StatKeeps ==
  ASSUME IngestInv, NEW f \in Files, Stat(f)
  PROVE  IngestInv'
<1>1. /\ pc = "tick" /\ pc' = "probe" /\ disk[f] # None
      /\ seenStat' = [file |-> f, size |-> Len(disk[f].lines),
                      stamp |-> disk[f].stamp, mday |-> disk[f].mday]
      /\ UNCHANGED <<today, disk, changes, window, monthKey, dayKey, saved, starts, month, day,
                     cursors, retirement, dirty>>
  BY DEF Stat, files, totals
<1>2. /\ Book(cursors, month, day, today, disk) /\ CursorsTyped(cursors)
      /\ month \in [Providers -> Nat] /\ day \in [Providers -> Nat]
  BY <1>1, InTick
<1>3. disk[f] \in DiskFiles /\ Len(disk[f].lines) <= MaxLines
  BY <1>1 DEF IngestInv, DiskTyped
<1>4. Len(disk[f].lines) \in 0..MaxLines /\ disk[f].stamp \in Nat /\ disk[f].mday \in Days
  BY <1>3, IngestAssumption DEF DiskFiles
<1>5. seenStat' \in Stats
  BY <1>1, <1>4 DEF Stats
<1>6. retirement \subseteq Files /\ dirty \in BOOLEAN
  BY DEF IngestInv, StateTyped
<1> QED BY <1>1, <1>2, <1>5, <1>6, TickStep

\* A probe or a read fails.
LEMMA GiveUpKeeps ==
  ASSUME IngestInv, GiveUp
  PROVE  IngestInv'
<1>1. /\ pc \in {"tick", "probe", "read"} /\ pc' = "tick" /\ seenStat' = NoStat
      /\ UNCHANGED <<today, disk, changes, window, monthKey, dayKey, saved, starts, month, day,
                     cursors, retirement, dirty>>
  BY DEF GiveUp, files, totals
<1>2. /\ Book(cursors, month, day, today, disk) /\ CursorsTyped(cursors)
      /\ month \in [Providers -> Nat] /\ day \in [Providers -> Nat]
  BY <1>1, InTick
<1>3. retirement \subseteq Files /\ dirty \in BOOLEAN
  BY DEF IngestInv, StateTyped
<1> QED BY <1>1, <1>2, <1>3, TickStep

\* A cursor that forgot its revisions, if it did.
LEMMA QuietIs ==
  ASSUME NEW k \in Cursors, NEW new \in MaybeQuiet(k)
  PROVE  /\ new \in Cursors /\ Alike(new, k)
         /\ new.live = k.live /\ new.size = k.size /\ new.stamp = k.stamp /\ new.prefix = k.prefix
         /\ k.revisable = {} => new.revisable = {}
<1>1. new = k \/ new = [k EXCEPT !.revisable = {}]
  BY DEF MaybeQuiet
<1> QED BY <1>1 DEF Cursors, Alike

\* A cursor that has forgotten what it read.
LEMMA ForgottenIs ==
  ASSUME NEW c \in Cursors
  PROVE  /\ Forgotten(c) \in Cursors /\ Forgotten(c).offset = 0 /\ Forgotten(c).keys = {}
         /\ Forgotten(c).revisable = {} /\ Forgotten(c).contrib = Nothing
         /\ Forgotten(c).identity = c.identity
<1>1. Nothing \in Contributions
  BY NothingTallied
<1> HIDE DEF Nothing
<1> QED BY <1>1 DEF Cursors, Forgotten

\* The beginning of a file is a record, if it has one.
LEMMA PrefixIs ==
  ASSUME NEW d \in DiskFiles
  PROVE  Prefix(d.lines) \in Records \cup {None} /\ d.identity \in Nat
<1>1. d.lines \in Seq(Records) /\ d.identity \in Nat
  BY DEF DiskFiles
<1>2. d.lines # <<>> => Head(d.lines) \in Records
  BY <1>1
<1> QED BY <1>1, <1>2 DEF Prefix

\* What is alike has the same in the totals.
LEMMA AlikeParts ==
  ASSUME NEW b \in Cursors, NEW c \in Cursors, Alike(b, c), NEW w
  PROVE  Part(b) = Part(c) /\ PartOn(b, w) = PartOn(c, w)
BY NoneAssumption DEF Alike, Part, PartOn

\* Nothing in the totals.
LEMMA NothingHas ==
  ASSUME NEW c, c = None \/ c.contrib = Nothing, NEW w \in Days
  PROVE  Part(c) = 0 /\ PartOn(c, w) = 0
<1>1. \A x \in Days : Nothing[x] = 0 /\ Nothing[x] \in Int
  BY DEF Nothing
<1>2. IsFiniteSet(Days) /\ {} \in SUBSET Days /\ \A x \in Days \ {} : Nothing[x] = 0
  BY <1>1, DaysAre
<1>3. SumFunctionOnSet(Nothing, Days) = SumFunctionOnSet(Nothing, {})
  BY <1>1, <1>2, SumOfParts
<1> QED BY <1>1, <1>3, SumOfNone DEF Part, PartOn

\* A cursor is kept as it is, or emptied and what it contributed subtracted.
LEMMA Renewed ==
  ASSUME IngestInv, pc \in {"tick", "probe", "read"}, NEW f \in Files, cursors[f] # None,
         NEW new \in Cursors, new.identity <= changes, NEW again \in BOOLEAN,
         again => /\ new.offset = 0 /\ new.keys = {} /\ new.revisable = {} /\ new.contrib = Nothing
                  /\ Subtract(f, window, cursors[f].contrib),
         ~again => Alike(new, cursors[f]) /\ UNCHANGED totals,
         cursors' = [cursors EXCEPT ![f] = new]
  PROVE  /\ CursorsTyped(cursors') /\ Book(cursors', month', day', today, disk)
         /\ month' \in [Providers -> Nat] /\ day' \in [Providers -> Nat]
<1>1. /\ window = today /\ Book(cursors, month, day, today, disk) /\ today \in Days
      /\ cursors \in [Files -> Cursors \cup {None}] /\ CursorsTyped(cursors)
      /\ month \in [Providers -> Nat] /\ day \in [Providers -> Nat] /\ cursors[f] \in Cursors
  BY InTick
<1>2. CursorTrue(f, cursors[f], today, disk[f]) /\ new # None
  BY <1>1, NoneAssumption DEF Book
<1>3. CursorsTyped(cursors')
  <2>1. new.offset <= MaxLines
    <3>1. cursors[f].offset <= MaxLines
      BY <1>1 DEF CursorsTyped
    <3> QED BY <3>1, IngestAssumption DEF Alike
  <2> QED BY <1>1, <2>1, OneTyped
<1>4. CASE again
  <2>1. CursorTrue(f, new, today, disk[f])
    BY <1>4, FreshTrue
  <2>2. /\ month' = Less(month, ProviderOf(f), SumFunction(cursors[f].contrib))
        /\ day' = Less(day, ProviderOf(f), cursors[f].contrib[today])
    BY <1>1, <1>4 DEF Subtract, Less
  <2>3. /\ Book([cursors EXCEPT ![f] = new], month', day', today, disk)
        /\ month' \in [Providers -> Nat] /\ day' \in [Providers -> Nat]
    <3> DEFINE gone == cursors[f].contrib
    <3>1. /\ month' = Less(month, ProviderOf(f), SumFunction(gone))
          /\ day' = Less(day, ProviderOf(f), gone[today])
      BY <2>2
    <3>2. new.contrib = Nothing /\ cursors[f] # None
      BY <1>4
    <3>3. /\ Book(cursors, month, day, today, disk) /\ today \in Days
          /\ cursors \in [Files -> Cursors \cup {None}]
          /\ month \in [Providers -> Nat] /\ day \in [Providers -> Nat]
      BY <1>1
    <3>4. gone = cursors[f].contrib
      OBVIOUS
    <3> HIDE DEF gone
    <3>5. /\ Book([cursors EXCEPT ![f] = new], Less(month, ProviderOf(f), SumFunction(gone)),
                  Less(day, ProviderOf(f), gone[today]), today, disk)
          /\ Less(month, ProviderOf(f), SumFunction(gone)) \in [Providers -> Nat]
          /\ Less(day, ProviderOf(f), gone[today]) \in [Providers -> Nat]
      BY <2>1, <3>2, <3>3, <3>4, OneIsSubtracted
    <3> QED BY <3>1, <3>5
  <2> QED BY <1>3, <2>3
<1>5. CASE ~again
  <2>1. CursorTrue(f, new, today, disk[f])
    BY <1>2, <1>5, AlikeTrue
  <2>2. Part(new) = Part(cursors[f]) /\ PartOn(new, today) = PartOn(cursors[f], today)
    BY <1>1, <1>5, AlikeParts
  <2>3. Book([cursors EXCEPT ![f] = new], month, day, today, disk)
    BY <1>1, <2>1, <2>2, OneChanges
  <2> QED BY <1>1, <1>3, <1>5, <2>3 DEF totals
<1> QED BY <1>4, <1>5

\* What a step after a Stat begins with.
LEMMA Probed ==
  ASSUME IngestInv, pc \in {"probe", "read"}, disk[seenStat.file] # None
  PROVE  /\ seenStat \in Stats /\ seenStat.file \in Files /\ seenStat.size \in Nat
         /\ seenStat.size <= MaxLines /\ seenStat.stamp \in Nat
         /\ disk[seenStat.file] \in DiskFiles /\ disk[seenStat.file].identity <= changes
         /\ Prefix(disk[seenStat.file].lines) \in Records \cup {None}
         /\ disk[seenStat.file].identity \in Nat
<1>1. seenStat \in Stats
  BY DEF IngestInv, StateTyped
<1>2. seenStat.file \in Files /\ seenStat.size \in 0..MaxLines /\ seenStat.stamp \in Nat
  BY <1>1 DEF Stats
<1>3. disk[seenStat.file] \in DiskFiles /\ disk[seenStat.file].identity <= changes
  BY <1>2 DEF IngestInv, DiskTyped
<1> QED BY <1>1, <1>2, <1>3, PrefixIs, IngestAssumption

\* A file is registered: it is new, restored, or to be read anew.
LEMMA RegisterKeeps ==
  ASSUME IngestInv, Register
  PROVE  IngestInv'
<1> DEFINE f == seenStat.file
           d == disk[f]
           c == cursors[f]
           again == c # None /\ MustRebuildStored(c, d, seenStat)
           base == IF again THEN Forgotten(c) ELSE c
           old == [base EXCEPT !.live = TRUE, !.size = seenStat.size, !.stamp = seenStat.stamp,
                               !.identity = d.identity, !.prefix = Prefix(d.lines)]
           kept == IF c = None THEN NewCursor(d, seenStat) ELSE old
<1>1. /\ pc = "probe" /\ pc' = "tick" /\ seenStat' = NoStat /\ d # None
      /\ IF again THEN Subtract(f, window, c.contrib) ELSE UNCHANGED totals
      /\ \E new \in MaybeQuiet(kept) : cursors' = [cursors EXCEPT ![f] = new]
      /\ UNCHANGED <<today, disk, changes, window, monthKey, dayKey, retirement, saved, starts>>
  BY DEF Register, files
<1>2. dirty' \in BOOLEAN /\ retirement' \subseteq Files
  <2>1. \E x : dirty' = (dirty \/ x)
    BY DEF Register
  <2> QED BY <1>1, <2>1 DEF IngestInv, StateTyped
<1>3. /\ window = today /\ Book(cursors, month, day, today, disk) /\ today \in Days
      /\ cursors \in [Files -> Cursors \cup {None}] /\ CursorsTyped(cursors)
      /\ month \in [Providers -> Nat] /\ day \in [Providers -> Nat]
  BY <1>1, InTick
<1>4. /\ f \in Files /\ seenStat.size \in Nat /\ seenStat.stamp \in Nat
      /\ d \in DiskFiles /\ d.identity <= changes /\ d.identity \in Nat
      /\ Prefix(d.lines) \in Records \cup {None}
  BY <1>1, Probed
<1>5. PICK new \in MaybeQuiet(kept) : cursors' = [cursors EXCEPT ![f] = new]
  BY <1>1
<1> DEFINE Right == /\ CursorsTyped(cursors') /\ Book(cursors', month', day', today, disk)
                    /\ month' \in [Providers -> Nat] /\ day' \in [Providers -> Nat]
<1>6. ASSUME c = None PROVE Right
  <2>1. kept = NewCursor(d, seenStat)
    BY <1>6
  <2>2. /\ kept \in Cursors /\ kept.offset = 0 /\ kept.keys = {} /\ kept.revisable = {}
        /\ kept.contrib = Nothing /\ kept.identity = d.identity
    <3>1. MonthOf(window) \in Nat /\ Nothing \in Contributions
      BY <1>3, MonthIs, NothingTallied
    <3> HIDE DEF kept, f, d, Nothing
    <3> QED BY <1>4, <2>1, <3>1 DEF NewCursor, Cursors
  <2> HIDE DEF kept
  <2>3. new \in Cursors /\ Alike(new, kept)
    BY <1>5, <2>2, QuietIs
  <2>4. /\ new.offset = 0 /\ new.keys = {} /\ new.revisable = {} /\ new.contrib = Nothing
        /\ new.identity = d.identity
    BY <2>2, <2>3 DEF Alike
  <2>5. CursorTrue(f, new, today, disk[f])
    BY <2>4, FreshTrue
  <2>6. Part(new) = Part(cursors[f]) /\ PartOn(new, today) = PartOn(cursors[f], today)
    BY <1>3, <1>6, <2>4, NothingHas
  <2>7. Book([cursors EXCEPT ![f] = new], month, day, today, disk)
    BY <1>3, <1>4, <2>3, <2>5, <2>6, OneChanges
  <2>8. CursorsTyped([cursors EXCEPT ![f] = new])
    <3>1. new.offset <= MaxLines
      BY <2>4, IngestAssumption
    <3>2. new.identity <= changes
      BY <1>4, <2>4
    <3> HIDE DEF f, d
    <3> QED BY <1>3, <1>4, <2>3, <3>1, <3>2, OneTyped
  <2>9. UNCHANGED <<month, day>>
    BY <1>1, <1>6 DEF totals
  <2> QED BY <1>3, <1>5, <2>7, <2>8, <2>9
<1>7. ASSUME c # None PROVE Right
  <2>1. c \in Cursors
    BY <1>3, <1>4, <1>7
  <2>2. base \in Cursors
    BY <2>1, ForgottenIs
  <2> HIDE DEF base, f, d
  <2>3. /\ old \in Cursors /\ old.offset = base.offset /\ old.keys = base.keys
        /\ old.revisable = base.revisable /\ old.contrib = base.contrib
        /\ old.active = base.active /\ old.identity = d.identity
    BY <1>4, <2>2 DEF Cursors
  <2> HIDE DEF old
  <2>4. kept = old
    BY <1>7
  <2>5. /\ new \in Cursors /\ Alike(new, old) /\ (old.revisable = {} => new.revisable = {})
        /\ new.identity <= changes
    <3>1. new \in MaybeQuiet(old)
      BY <1>5, <2>4
    <3>2. new \in Cursors /\ Alike(new, old) /\ (old.revisable = {} => new.revisable = {})
      BY <2>3, <3>1, QuietIs
    <3> QED BY <1>4, <2>3, <3>2 DEF Alike
  <2>6. ASSUME again
        PROVE  /\ new.offset = 0 /\ new.keys = {} /\ new.revisable = {} /\ new.contrib = Nothing
               /\ Subtract(f, window, c.contrib)
    <3>1. base = Forgotten(c)
      BY <2>6 DEF base
    <3> QED BY <1>1, <2>1, <2>3, <2>5, <2>6, <3>1, ForgottenIs DEF Alike
  <2>7. ASSUME ~again PROVE Alike(new, c) /\ UNCHANGED totals
    <3>1. base = c /\ d.identity = c.identity
      BY <1>7, <2>7 DEF base, MustRebuildStored
    <3>2. UNCHANGED totals
      BY <1>1, <2>7
    <3> QED BY <2>3, <2>5, <3>1, <3>2 DEF Alike
  <2> DEFINE rebuilt == again
  <2>8. rebuilt \in BOOLEAN
    OBVIOUS
  <2>9. /\ rebuilt => /\ new.offset = 0 /\ new.keys = {} /\ new.revisable = {}
                      /\ new.contrib = Nothing /\ Subtract(f, window, cursors[f].contrib)
        /\ ~rebuilt => Alike(new, cursors[f]) /\ UNCHANGED totals
    BY <2>6, <2>7
  <2>10. pc \in {"tick", "probe", "read"} /\ cursors[f] # None
    BY <1>1, <1>7
  <2> HIDE DEF rebuilt
  <2> QED BY <1>4, <1>5, <2>5, <2>8, <2>9, <2>10, Renewed
<1>8. Right
  BY <1>6, <1>7
<1> QED BY <1>1, <1>2, <1>8, TickStep

\* A file is looked at before it is read: it is at its end, to be read on, or anew.
LEMMA ProbeKeeps ==
  ASSUME IngestInv, Probe
  PROVE  IngestInv'
<1> DEFINE f == seenStat.file
           d == disk[f]
           c == cursors[f]
           again == MustRebuildLive(c, d, seenStat)
           kept == IF again THEN Forgotten(c) ELSE c
           atEnd == kept.offset = seenStat.size
           marked(k) == [k EXCEPT !.identity = d.identity, !.prefix = Prefix(d.lines),
                               !.size = IF atEnd THEN seenStat.size ELSE @,
                               !.stamp = IF atEnd THEN seenStat.stamp ELSE @]
<1>1. /\ pc = "probe" /\ d # None /\ c # None
      /\ IF again THEN Subtract(f, window, c.contrib) ELSE UNCHANGED totals
      /\ \E new \in MaybeQuiet(kept) : cursors' = [cursors EXCEPT ![f] = marked(new)]
      /\ \/ pc' = "tick" /\ seenStat' = NoStat
         \/ pc' = "read" /\ UNCHANGED seenStat
      /\ UNCHANGED <<today, disk, changes, window, monthKey, dayKey, retirement, saved, starts>>
  BY DEF Probe, files
<1>2. dirty' \in BOOLEAN /\ retirement' \subseteq Files
  <2>1. \E x : dirty' = (dirty \/ x)
    BY DEF Probe
  <2> QED BY <1>1, <2>1 DEF IngestInv, StateTyped
<1>3. /\ cursors \in [Files -> Cursors \cup {None}]
      /\ \A x \in Files : cursors[x] # None => cursors[x] \in Cursors
  BY <1>1, InTick
<1>4. /\ f \in Files /\ seenStat.size \in Nat /\ seenStat.stamp \in Nat /\ seenStat \in Stats
      /\ d \in DiskFiles /\ d.identity <= changes /\ d.identity \in Nat
      /\ Prefix(d.lines) \in Records \cup {None}
  BY <1>1, Probed
<1>5. PICK k \in MaybeQuiet(kept) : cursors' = [cursors EXCEPT ![f] = marked(k)]
  BY <1>1
<1> DEFINE new == marked(k)
<1>6. c \in Cursors
  BY <1>1, <1>3, <1>4
<1>7. kept \in Cursors
  BY <1>6, ForgottenIs
<1>8. k \in Cursors /\ Alike(k, kept) /\ (kept.revisable = {} => k.revisable = {})
  <2> HIDE DEF kept
  <2> QED BY <1>5, <1>7, QuietIs
<1>9. /\ new \in Cursors /\ new.offset = k.offset /\ new.keys = k.keys
      /\ new.revisable = k.revisable /\ new.contrib = k.contrib
      /\ new.active = k.active /\ new.identity = d.identity
  <2> HIDE DEF f, d, atEnd
  <2> QED BY <1>4, <1>8 DEF Cursors
<1>10. cursors' = [cursors EXCEPT ![f] = new]
  BY <1>5
<1> HIDE DEF new, marked
<1>11. ASSUME again
       PROVE  /\ new.offset = 0 /\ new.keys = {} /\ new.revisable = {} /\ new.contrib = Nothing
              /\ Subtract(f, window, c.contrib)
  <2>1. kept = Forgotten(c)
    BY <1>11
  <2>2. Subtract(f, window, c.contrib)
    BY <1>1, <1>11
  <2>3. kept.offset = 0 /\ kept.keys = {} /\ kept.revisable = {} /\ kept.contrib = Nothing
    BY <1>6, <2>1, ForgottenIs
  <2> HIDE DEF kept
  <2> QED BY <1>8, <1>9, <2>2, <2>3 DEF Alike
<1>12. ASSUME ~again PROVE Alike(new, c) /\ UNCHANGED totals
  <2>1. kept = c /\ d.identity = c.identity
    BY <1>12 DEF MustRebuildLive
  <2>2. UNCHANGED totals
    BY <1>1, <1>12
  <2> HIDE DEF kept
  <2> QED BY <1>8, <1>9, <2>1, <2>2 DEF Alike
<1>13. /\ CursorsTyped(cursors') /\ Book(cursors', month', day', today, disk)
       /\ month' \in [Providers -> Nat] /\ day' \in [Providers -> Nat]
  <2> DEFINE rebuilt == again
  <2>1. rebuilt \in BOOLEAN
    BY DEF MustRebuildLive
  <2>2. /\ rebuilt => /\ new.offset = 0 /\ new.keys = {} /\ new.revisable = {}
                      /\ new.contrib = Nothing /\ Subtract(f, window, cursors[f].contrib)
        /\ ~rebuilt => Alike(new, cursors[f]) /\ UNCHANGED totals
    BY <1>11, <1>12
  <2>3. pc \in {"tick", "probe", "read"} /\ cursors[f] # None /\ new.identity <= changes
    BY <1>1, <1>4, <1>9
  <2> HIDE DEF rebuilt, f, d
  <2> QED BY <1>4, <1>9, <1>10, <2>1, <2>2, <2>3, Renewed
<1>14. cursors'[f] # None
  BY <1>3, <1>4, <1>9, <1>10, NoneAssumption
<1>15. /\ seenStat' \in (IF pc' \in {"probe", "read"} THEN Stats ELSE {NoStat})
       /\ pc' = "read" => cursors'[seenStat'.file] # None
  BY <1>1, <1>4, <1>14
<1> QED BY <1>1, <1>2, <1>13, <1>15, TickStep

\* The lesser of two numbers.
LEMMA LesserIs ==
  ASSUME NEW a \in Nat, NEW b \in Nat
  PROVE  Min({a, b}) \in Nat /\ Min({a, b}) <= a /\ Min({a, b}) <= b
<1>1. \E x \in {a, b} : \A y \in {a, b} : x <= y
  OBVIOUS
<1>2. Min({a, b}) \in {a, b} /\ \A y \in {a, b} : Min({a, b}) <= y
  BY <1>1 DEF Min
<1> QED BY <1>2

\* A read of k records of the file d, from the end of what c has read.
Gets(c, d, end, more, k) ==
    /\ end = c.offset + k /\ c.offset \in Nat
    /\ k # 0 => end <= Len(d.lines)
    /\ more \in [1..k -> Records]
    /\ \A i \in 1..k : more[i] = d.lines[c.offset + i]

\* The records that a read gets: it ends within the file, or where it began.
LEMMA ReadIs ==
  ASSUME NEW c \in Cursors, NEW d \in DiskFiles, seenStat.size \in Nat, NEW end \in ReadsTo(c, d),
         NEW more, more = SubSeq(d.lines, c.offset + 1, end)
  PROVE  \E k \in Nat : Gets(c, d, end, more, k)
<1> USE DEF Gets
<1>1. c.offset \in Nat /\ d.lines \in Seq(Records)
  BY DEF Cursors, DiskFiles
<1> DEFINE n == c.offset  l == d.lines  most == Min({seenStat.size, Len(l)})
<1>2. n \in Nat /\ l \in Seq(Records) /\ Len(l) \in Nat
  BY <1>1
<1>3. most \in Nat /\ most <= Len(l)
  BY <1>2, LesserIs
<1>4. end \in IF n < most THEN n + 1..most ELSE {n}
  BY DEF ReadsTo
<1> HIDE DEF most
<1>5. end \in Nat /\ (end = n \/ (end > n /\ end <= Len(l)))
  BY <1>2, <1>3, <1>4
<1> HIDE DEF n, l
<1>6. CASE end = n
  <2>1. more = SubSeq(l, n + 1, n)
    BY <1>6 DEF n, l
  <2>2. SubSeq(l, n + 1, n) = <<>>
    BY <1>2
  <2>3. more \in [1..0 -> Records] /\ 1..0 = {}
    <3> DEFINE none == SubSeq(l, n + 1, n)
    <3>1. none \in Seq(Records) /\ Len(none) = 0
      BY <2>2, EmptySeq
    <3> HIDE DEF none
    <3>2. none \in [1..0 -> Records]
      BY <3>1, LenProperties
    <3>3. more \in [1..0 -> Records]
      BY <2>1, <3>2 DEF none
    <3>4. 1..0 = {}
      OBVIOUS
    <3> QED BY <3>3, <3>4
  <2>4. end = n + 0
    BY <1>2, <1>6
  <2> QED BY <1>2, <2>3, <2>4 DEF n, l
<1>7. CASE end > n /\ end <= Len(l)
  <2> DEFINE k == end - n
  <2>1. k \in Nat /\ end = n + k
    BY <1>2, <1>5, <1>7
  <2>2. more = SubSeq(l, n + 1, n + k)
    BY <2>1 DEF n, l
  <2>3. n + k <= Len(l)
    BY <1>7, <2>1
  <2> HIDE DEF k
  <2>4. /\ SubSeq(l, n + 1, n + k) \in Seq(Records) /\ Len(SubSeq(l, n + 1, n + k)) = k
        /\ \A i \in 1..k : SubSeq(l, n + 1, n + k)[i] = l[n + i]
    BY <1>2, <2>1, <2>3, SMTT(60)
  <2>5. more \in [1..k -> Records]
    BY <2>2, <2>4, LenProperties
  <2> QED BY <1>2, <1>7, <2>1, <2>2, <2>4, <2>5 DEF n, l
<1> QED BY <1>5, <1>6, <1>7

\* Records are read and counted: the history of the file grows by them.
LEMMA ReadKeeps ==
  ASSUME IngestInv, Read
  PROVE  IngestInv'
<1> DEFINE f == seenStat.file
           d == disk[f]
           c == cursors[f]
           p == ProviderOf(f)
           start == [keys |-> c.keys, revisable |-> c.revisable,
                     contrib |-> c.contrib, month |-> month[p], day |-> day[p]]
           tally(t, r) == Count(f, window, t, r)
           more(end) == SubSeq(d.lines, c.offset + 1, end)
           sum(end) == FoldLeft(tally, start, more(end))
           read(end) == [c EXCEPT !.offset = end, !.size = seenStat.size,
                           !.stamp = seenStat.stamp,
                           !.active = IF end # c.offset THEN MonthOf(window) ELSE @,
                           !.keys = sum(end).keys, !.revisable = sum(end).revisable,
                           !.contrib = sum(end).contrib]
<1>1. /\ pc = "read" /\ pc' = "tick" /\ seenStat' = NoStat /\ d # None
      /\ \E end \in ReadsTo(c, d) :
            /\ \E new \in MaybeQuiet(read(end)) : cursors' = [cursors EXCEPT ![f] = new]
            /\ month' = [month EXCEPT ![p] = sum(end).month]
            /\ day' = [day EXCEPT ![p] = sum(end).day]
      /\ UNCHANGED <<today, disk, changes, window, monthKey, dayKey, retirement, saved, starts>>
  BY DEF Read, files
<1>2. dirty' \in BOOLEAN /\ retirement' \subseteq Files
  <2>1. \E x : dirty' = (dirty \/ x)
    BY DEF Read
  <2> QED BY <1>1, <2>1 DEF IngestInv, StateTyped
<1>3. /\ window = today /\ Book(cursors, month, day, today, disk) /\ today \in Days
      /\ cursors \in [Files -> Cursors \cup {None}] /\ CursorsTyped(cursors)
      /\ month \in [Providers -> Nat] /\ day \in [Providers -> Nat]
      /\ \A x \in Files : cursors[x] # None => cursors[x] \in Cursors
  BY <1>1, InTick
<1>4. /\ f \in Files /\ seenStat.size \in Nat /\ seenStat.stamp \in Nat
      /\ d \in DiskFiles /\ d.identity <= changes /\ d.identity \in Nat
  BY <1>1, Probed
<1>5. c # None /\ c \in Cursors /\ p \in Providers /\ c.offset <= MaxLines /\ c.identity <= changes
  BY <1>1, <1>3, <1>4, DaysAre DEF IngestInv, StateTyped, CursorsTyped
<1>6. PICK end \in ReadsTo(c, d) :
            /\ \E new \in MaybeQuiet(read(end)) : cursors' = [cursors EXCEPT ![f] = new]
            /\ month' = [month EXCEPT ![p] = sum(end).month]
            /\ day' = [day EXCEPT ![p] = sum(end).day]
  BY <1>1
<1> DEFINE added == more(end)  total == sum(end)  n == c.offset
<1>7. PICK k \in Nat : /\ end = n + k /\ n \in Nat /\ (k # 0 => end <= Len(d.lines))
                       /\ added \in [1..k -> Records]
                       /\ \A i \in 1..k : added[i] = d.lines[n + i]
  <2>1. added = SubSeq(d.lines, c.offset + 1, end)
    OBVIOUS
  <2>2. end \in ReadsTo(c, d) /\ d \in DiskFiles /\ c \in Cursors /\ seenStat.size \in Nat
    BY <1>4, <1>5, <1>6
  <2>0. n = c.offset
    OBVIOUS
  <2> HIDE DEF f, d, c, added, n
  <2>3. \E k \in Nat : Gets(c, d, end, added, k)
    BY <2>1, <2>2, ReadIs
  <2> QED BY <2>0, <2>3 DEF Gets
<1>8. CursorTrue(f, c, today, d)
  BY <1>3, <1>4, <1>5 DEF Book
<1>9. PICK L \in [1..n -> Records] :
          /\ \A i \in 1..n : L[i].day <= today
          /\ IsRead(c, L, d)
          /\ \E s \in SUBSET OfMonth(L, today) :
                Tallied(f, OfMonth(L, today), s, c.keys, c.revisable, c.contrib)
  BY <1>8 DEF CursorTrue
<1>10. PICK K \in Nat, N \in Nat :
            /\ month[p] = K + Part(c) /\ day[p] = N + PartOn(c, today)
            /\ \A x \in Cursors \cup {None} :
                  AddsUp([cursors EXCEPT ![f] = x], [month EXCEPT ![p] = K + Part(x)],
                         [day EXCEPT ![p] = N + PartOn(x, today)], today)
  <2>1. AddsUp(cursors, month, day, today)
    BY <1>3 DEF Book
  <2> HIDE DEF f
  <2> QED BY <1>3, <1>4, <2>1, AddsUpKeeps
<1>11. start \in Tallies
  <2>1. month[p] \in Nat /\ day[p] \in Nat
    BY <1>3, <1>5
  <2> HIDE DEF p, c
  <2> QED BY <1>5, <2>1 DEF Tallies, Cursors
<1>12. CountsRight(f, today, OfMonth(L, today), start, K, N)
  <2>1. start.month = K + SumFunctionOnSet(start.contrib, Days) /\ start.day = N + start.contrib[today]
    BY <1>5, <1>10 DEF Part, PartOn
  <2>2. \E s \in SUBSET OfMonth(L, today) :
           Tallied(f, OfMonth(L, today), s, start.keys, start.revisable, start.contrib)
    BY <1>9
  <2> HIDE DEF start, f
  <2> QED BY <2>1, <2>2 DEF CountsRight
<1> DEFINE J == Joined(L, n, added, k)
<1>13. /\ total \in Tallies /\ CountsRight(f, today, OfMonth(J, today), total, K, N)
       /\ k = 0 => total = start
  <2> DEFINE total2 == CountAll(f, today, start, added)
  <2>1. /\ total2 \in Tallies /\ CountsRight(f, today, OfMonth(J, today), total2, K, N)
        /\ k = 0 => total2 = start
    <3>1. today \in Days /\ n \in Nat /\ added \in [1..k -> Records]
      BY <1>3, <1>7
    <3> HIDE DEF f, start, added, n
    <3> QED BY <3>1, <1>11, <1>12, FoldCounts
  <2>2. CountAll(f, window, start, added) = total
    BY DEF CountAll
  <2>3. total2 = total
    BY <1>3, <2>2
  <2> QED BY <2>1, <2>3
<1> HIDE DEF total, sum
<1>14. J \in [1..end -> Records]
  <2> HIDE DEF n, added
  <2>1. k \in 0..k
    OBVIOUS
  <2> QED BY <1>7, <1>9, <2>1, JoinedIs
<1>15. \A i \in 1..end : IF i <= n THEN i \in 1..n /\ J[i] = L[i]
                                   ELSE i - n \in 1..k /\ J[i] = d.lines[i] /\ k # 0
  <2> HIDE DEF n, added, d
  <2> SUFFICES ASSUME NEW i \in 1..end
               PROVE  IF i <= n THEN i \in 1..n /\ J[i] = L[i]
                                ELSE i - n \in 1..k /\ J[i] = d.lines[i] /\ k # 0
    OBVIOUS
  <2>1. J[i] = IF i <= n THEN L[i] ELSE added[i - n]
    BY <1>7 DEF Joined
  <2>2. CASE i <= n
    BY <1>7, <2>1, <2>2
  <2>3. CASE ~(i <= n)
    <3>1. i - n \in 1..k /\ n + (i - n) = i /\ k # 0
      BY <1>7, <2>3
    <3>2. added[i - n] = d.lines[n + (i - n)]
      BY <1>7, <3>1
    <3> QED BY <2>1, <2>3, <3>1, <3>2
  <2> QED BY <2>2, <2>3
<1> HIDE DEF J, added, more
<1>16. \A i \in 1..end : J[i].day <= today
  <2> SUFFICES ASSUME NEW i \in 1..end PROVE J[i].day <= today
    OBVIOUS
  <2>1. CASE i <= n
    BY <1>9, <1>15, <2>1
  <2>2. CASE ~(i <= n)
    <3>1. J[i] = d.lines[i] /\ k # 0
      BY <1>15, <2>2
    <3>2. Len(d.lines) \in Nat
      BY <1>4 DEF DiskFiles
    <3>3. end <= Len(d.lines) /\ i \in 1..Len(d.lines)
      BY <1>7, <3>1, <3>2
    <3>4. \A j \in 1..Len(d.lines) : d.lines[j].day <= today
      BY <1>1, <1>4 DEF IngestInv, DiskTyped
    <3> QED BY <3>1, <3>3, <3>4
  <2> QED BY <2>1, <2>2
<1> DEFINE r == read(end)
<1>17. /\ r \in Cursors /\ r.offset = end /\ r.identity = c.identity
       /\ r.active = (IF end # n THEN MonthOf(today) ELSE c.active)
       /\ r.keys = total.keys /\ r.revisable = total.revisable /\ r.contrib = total.contrib
  <2>1. total.keys \in SUBSET Records /\ total.revisable \in SUBSET Records
        /\ total.contrib \in Contributions
    BY <1>13 DEF Tallies
  <2>2. end \in Nat /\ MonthOf(today) \in Nat
    BY <1>3, <1>7, MonthIs
  <2>3. r = [c EXCEPT !.offset = end, !.size = seenStat.size,
                           !.stamp = seenStat.stamp,
                           !.active = IF end # c.offset THEN MonthOf(today) ELSE @,
                           !.keys = total.keys, !.revisable = total.revisable,
                           !.contrib = total.contrib]
    BY <1>3 DEF total
  <2> HIDE DEF r, c, f
  <2> QED BY <1>4, <1>5, <2>1, <2>2, <2>3 DEF Cursors, n
<1>18. PICK new \in MaybeQuiet(r) : cursors' = [cursors EXCEPT ![f] = new]
  BY <1>6
<1>19. month' = [month EXCEPT ![p] = total.month] /\ day' = [day EXCEPT ![p] = total.day]
  BY <1>6 DEF total
<1> HIDE DEF r
<1>20. new \in Cursors /\ Alike(new, r)
  BY <1>17, <1>18, QuietIs
<1>21. CursorTrue(f, new, today, d)
  <2>1. IsRead(r, J, d)
    <3> SUFFICES ASSUME c.identity = d.identity, end <= Len(d.lines), NEW i \in 1..end
                 PROVE  J[i] = d.lines[i]
      BY <1>17 DEF IsRead
    <3>1. CASE i <= n
      <4>1. Len(d.lines) \in Nat
        BY <1>4 DEF DiskFiles
      <4>2. n <= Len(d.lines) /\ i \in 1..n
        BY <1>7, <3>1, <4>1
      <4>3. L[i] = d.lines[i]
        BY <1>1, <1>9, <4>2 DEF IsRead
      <4> QED BY <1>15, <3>1, <4>3
    <3>2. CASE ~(i <= n)
      BY <1>15, <3>2
    <3> QED BY <3>1, <3>2
  <2>2. PICK s \in SUBSET OfMonth(J, today) :
          Tallied(f, OfMonth(J, today), s, r.keys, r.revisable, r.contrib)
    BY <1>13, <1>17 DEF CountsRight
  <2>3. r.active < MonthOf(today) => r.contrib = Nothing
    <3>1. CASE end = n
      <4>1. k = 0
        BY <1>7, <3>1
      <4>2. total.contrib = c.contrib
        BY <1>13, <4>1
      <4> QED BY <1>8, <1>17, <3>1, <4>2 DEF CursorTrue
    <3>2. CASE end # n
      <4>1. MonthOf(today) \in Nat
        BY <1>3, MonthIs
      <4> QED BY <1>17, <3>2, <4>1
    <3> QED BY <3>1, <3>2
  <2>4. CursorTrue(f, r, today, d)
    <3> HIDE DEF f, d
    <3> QED BY <1>14, <1>16, <1>17, <2>1, <2>2, <2>3 DEF CursorTrue
  <2> HIDE DEF f, d
  <2> QED BY <1>20, <2>4, AlikeTrue
<1>22. total.month = K + Part(new) /\ total.day = N + PartOn(new, today)
  <2>1. total.month = K + Part(r) /\ total.day = N + PartOn(r, today)
    BY <1>13, <1>17, NoneAssumption DEF CountsRight, Part, PartOn
  <2>2. Part(new) = Part(r) /\ PartOn(new, today) = PartOn(r, today)
    BY <1>17, <1>20, AlikeParts
  <2> QED BY <2>1, <2>2
<1>23. AddsUp(cursors', month', day', today)
  BY <1>10, <1>18, <1>19, <1>20, <1>22
<1>24. Book(cursors', month', day', today, disk)
  <2>1. ASSUME NEW x \in Files, cursors'[x] # None PROVE CursorTrue(x, cursors'[x], today, disk[x])
    <3>1. CASE x = f
      <4>1. cursors'[f] = new
        BY <1>3, <1>4, <1>18
      <4> QED BY <1>21, <3>1, <4>1
    <3>2. CASE x # f
      <4>1. cursors'[x] = cursors[x]
        BY <1>3, <1>18, <3>2
      <4> QED BY <1>3, <2>1, <4>1 DEF Book
    <3> QED BY <3>1, <3>2
  <2> QED BY <1>23, <2>1 DEF Book
<1>25. CursorsTyped(cursors')
  <2>1. end <= MaxLines
    <3>1. Len(d.lines) <= MaxLines /\ Len(d.lines) \in Nat
      BY <1>1, <1>4 DEF IngestInv, DiskTyped, DiskFiles
    <3> QED BY <1>5, <1>7, <3>1, IngestAssumption
  <2>2. new.offset <= MaxLines /\ new.identity <= changes
    BY <1>5, <1>17, <1>20, <2>1 DEF Alike
  <2> HIDE DEF f
  <2> QED BY <1>3, <1>4, <1>18, <1>20, <2>2, OneTyped
<1>26. month' \in [Providers -> Nat] /\ day' \in [Providers -> Nat]
  <2>1. total.month \in Nat /\ total.day \in Nat
    BY <1>13 DEF Tallies
  <2> HIDE DEF p
  <2> QED BY <1>3, <1>5, <1>19, <2>1
<1>27. pc \in {"tick", "probe", "read"} /\ pc' \in {"tick", "probe", "read"}
  BY <1>1
<1> QED BY <1>1, <1>2, <1>24, <1>25, <1>26, <1>27, TickStep

-----------------------------------------------------------------------------
(***************************************************************************)
(* Saving, stopping and starting.                                          *)
(***************************************************************************)
\* What is saved of a cursor is alike.
LEMMA StoredIs ==
  ASSUME NEW c \in Cursors
  PROVE  Stored(c) \in Cursors /\ Alike(Stored(c), c) /\ Stored(None) = None
<1>1. Stored(c) = [c EXCEPT !.live = FALSE, !.stamp = 0] /\ Stored(None) = None
  BY NoneAssumption DEF Stored
<1> DEFINE b == [c EXCEPT !.live = FALSE, !.stamp = 0]
<1>2. b \in Cursors
  BY DEF Cursors
<1>3. /\ b.offset = c.offset /\ b.identity = c.identity /\ b.active = c.active
      /\ b.keys = c.keys /\ b.revisable = c.revisable /\ b.contrib = c.contrib
  BY DEF Cursors
<1> HIDE DEF b
<1>4. Alike(b, c)
  BY <1>3 DEF Alike
<1> QED BY <1>1, <1>2, <1>4 DEF b

\* The state that is saved is true of the day it is of.
LEMMA SavesTrue ==
  ASSUME IngestInv, NEW w \in Days, w <= today, Book(cursors, month, day, w, disk),
         NEW s, s = StateAt(w)
  PROVE  /\ s \in States /\ s.today \in Days /\ s.today <= today
         /\ s.month = MonthOf(s.today) /\ CursorsTyped(s.cursors) /\ s # None
         /\ Book(s.cursors, s.monthTotals, s.dayTotals, s.today, disk)
<1> DEFINE b == [f \in Files |-> Stored(cursors[f])]
<1>1. /\ cursors \in [Files -> Cursors \cup {None}] /\ CursorsTyped(cursors)
      /\ month \in [Providers -> Nat] /\ day \in [Providers -> Nat] /\ MonthOf(w) \in Nat
  BY MonthIs DEF IngestInv, StateTyped, CursorsTyped
<1>2. s = [month |-> MonthOf(w), today |-> w, monthTotals |-> month, dayTotals |-> day,
           cursors |-> b]
  BY DEF StateAt
<1>3. \A f \in Files : b[f] = Stored(cursors[f])
  OBVIOUS
<1>4. DOMAIN b = Files /\ b = [f \in Files |-> b[f]]
  OBVIOUS
<1> HIDE DEF b
<1>5. \A f \in Files : IF cursors[f] = None THEN b[f] = None
                       ELSE b[f] \in Cursors /\ Alike(b[f], cursors[f]) /\ b[f] # None
  <2> SUFFICES ASSUME NEW f \in Files
               PROVE  IF cursors[f] = None THEN b[f] = None
                      ELSE b[f] \in Cursors /\ Alike(b[f], cursors[f]) /\ b[f] # None
    OBVIOUS
  <2>1. CASE cursors[f] = None
    BY <1>3, <2>1 DEF Stored
  <2>2. CASE cursors[f] # None
    <3>1. cursors[f] \in Cursors
      BY <1>1, <2>2
    <3> QED BY <1>3, <2>2, <3>1, StoredIs, NoneAssumption
  <2> QED BY <2>1, <2>2
<1>6. b \in [Files -> Cursors \cup {None}]
  <2>1. \A f \in Files : b[f] \in Cursors \cup {None}
    BY <1>5
  <2> QED BY <1>4, <2>1
<1>7. CursorsTyped(b)
  BY <1>1, <1>5, <1>6 DEF CursorsTyped, Alike
<1>8. Book(b, month, day, w, disk)
  <2>1. \A f \in Files : b[f] # None => CursorTrue(f, b[f], w, disk[f])
    <3> SUFFICES ASSUME NEW f \in Files, b[f] # None PROVE CursorTrue(f, b[f], w, disk[f])
      OBVIOUS
    <3>1. cursors[f] # None /\ Alike(b[f], cursors[f])
      BY <1>5
    <3>2. CursorTrue(f, cursors[f], w, disk[f])
      BY <3>1 DEF Book
    <3> QED BY <3>1, <3>2, AlikeTrue
  <2>2. \A f \in Files : Part(b[f]) = Part(cursors[f]) /\ PartOn(b[f], w) = PartOn(cursors[f], w)
    <3> SUFFICES ASSUME NEW f \in Files
                 PROVE  Part(b[f]) = Part(cursors[f]) /\ PartOn(b[f], w) = PartOn(cursors[f], w)
      OBVIOUS
    <3>1. CASE cursors[f] = None
      BY <1>5, <3>1
    <3>2. CASE cursors[f] # None
      <4>1. cursors[f] \in Cursors /\ b[f] \in Cursors /\ Alike(b[f], cursors[f])
        BY <1>1, <1>5, <3>2
      <4> QED BY <4>1, AlikeParts
    <3> QED BY <3>1, <3>2
  <2>3. AddsUp(cursors, month, day, w)
    BY DEF Book
  <2>4. AddsUp(b, month, day, w)
    BY <1>1, <1>6, <2>2, <2>3, AddsUpSame
  <2> QED BY <2>1, <2>4 DEF Book
<1>9. s \in States
  <2>1. w \in Nat
    BY DaysAre
  <2>2. [month |-> MonthOf(w), today |-> w, monthTotals |-> month, dayTotals |-> day,
         cursors |-> b] \in States
    BY <1>1, <1>6, <2>1 DEF States
  <2> QED BY <1>2, <2>2
<1>10. /\ s.today = w /\ s.month = MonthOf(w) /\ s.cursors = b /\ s.monthTotals = month
       /\ s.dayTotals = day
  BY <1>2
<1> QED BY <1>7, <1>8, <1>9, <1>10, NoneAssumption

\* Nothing is left in memory, and what is saved is true.
LEMMA StopKeeps ==
  ASSUME IngestInv, Stop,
         saved' = saved \/ (saved' = StateAt(today) /\ Book(cursors, month, day, today, disk))
  PROVE  IngestInv'
<1>1. /\ pc' = "down" /\ window' = 0 /\ seenStat' = NoStat
      /\ cursors' = [f \in Files |-> None]
      /\ month' = NoTotals /\ day' = NoTotals
      /\ monthKey' = 0 /\ dayKey' = 0
      /\ retirement' = {} /\ dirty' = FALSE
      /\ UNCHANGED <<today, disk, changes, starts>>
  BY DEF Stop, files
<1>2. DiskTyped'
  BY <1>1 DEF IngestInv, DiskTyped
<1>3. today \in Days /\ today \in Nat /\ starts \in 0..MaxStarts
  BY DaysAre DEF IngestInv, DiskTyped, StateTyped
<1>4. StateTyped'
  <2>1. CursorsTyped(cursors)'
    BY <1>1 DEF CursorsTyped
  <2>2. NoTotals \in [Providers -> Nat]
    BY DEF NoTotals
  <2>3. /\ pc' \in {"down", "idle", "tick", "probe", "read"} /\ pc' \notin {"probe", "read"}
        /\ window' \in Days \cup {0} /\ monthKey' \in Nat /\ dayKey' \in Days \cup {0}
        /\ dayKey' <= today' /\ retirement' \subseteq Files /\ dirty' \in BOOLEAN
        /\ starts' \in 0..MaxStarts
    <3>1. today' = today /\ starts' = starts /\ dayKey' = 0
      BY <1>1
    <3>2. dayKey' <= today' /\ starts' \in 0..MaxStarts
      BY <1>3, <3>1
    <3> QED BY <1>1, <3>2
  <2>4. month' \in [Providers -> Nat] /\ day' \in [Providers -> Nat]
    BY <1>1, <2>2
  <2> HIDE DEF NoTotals
  <2> QED BY <1>1, <2>1, <2>3, <2>4 DEF StateTyped
<1>5. LiveTrue'
  <2>1. Blank(cursors, month, day)'
    BY <1>1 DEF Blank
  <2> QED BY <1>1, <2>1 DEF LiveTrue
<1>6. SavedTrue'
  <2>1. CASE saved' = saved
    BY <1>1, <2>1 DEF IngestInv, SavedTrue, CursorsTyped
  <2>2. CASE saved' = StateAt(today) /\ Book(cursors, month, day, today, disk)
    <3> DEFINE s == saved'
    <3>1. /\ s \in States /\ s.today \in Days /\ s.today <= today
          /\ s.month = MonthOf(s.today) /\ CursorsTyped(s.cursors) /\ s # None
          /\ Book(s.cursors, s.monthTotals, s.dayTotals, s.today, disk)
      BY <1>3, <2>2, SavesTrue
    <3> QED BY <1>1, <3>1 DEF SavedTrue, CursorsTyped
  <2> QED BY <2>1, <2>2
<1> QED BY <1>2, <1>4, <1>5, <1>6 DEF IngestInv

\* The tick ends, and saves what it has.
LEMMA EndTickKeeps ==
  ASSUME IngestInv, EndTick
  PROVE  IngestInv'
<1>1. /\ pc = "tick" /\ pc' = "idle" /\ window' = 0
      /\ \/ saved' = StateAt(window) /\ dirty' = FALSE
         \/ UNCHANGED <<saved, dirty>>
      /\ UNCHANGED <<today, disk, changes, seenStat, cursors, month, day, monthKey, dayKey,
                     retirement, starts>>
  BY DEF EndTick, Persist, files, totals
<1>2. window = today /\ Book(cursors, month, day, today, disk) /\ today \in Days /\ today \in Nat
  BY <1>1, InTick, DaysAre
<1>3. DiskTyped'
  BY <1>1 DEF IngestInv, DiskTyped
<1>4. StateTyped'
  BY <1>1 DEF IngestInv, StateTyped, CursorsTyped
<1>5. LiveTrue'
  BY <1>1 DEF IngestInv, LiveTrue
<1>6. SavedTrue'
  <2>1. CASE saved' = saved
    BY <1>1, <2>1 DEF IngestInv, SavedTrue, CursorsTyped
  <2>2. CASE saved' = StateAt(today)
    <3> DEFINE s == saved'
    <3>1. /\ s \in States /\ s.today \in Days /\ s.today <= today
          /\ s.month = MonthOf(s.today) /\ CursorsTyped(s.cursors) /\ s # None
          /\ Book(s.cursors, s.monthTotals, s.dayTotals, s.today, disk)
      BY <1>2, <2>2, SavesTrue
    <3> QED BY <1>1, <3>1 DEF SavedTrue, CursorsTyped
  <2> QED BY <1>1, <1>2, <2>1, <2>2
<1> QED BY <1>3, <1>4, <1>5, <1>6 DEF IngestInv

\* The program ends, on the day of its last tick, or before the first.
LEMMA ExitKeeps ==
  ASSUME IngestInv, ~ExitAfterMidnight, Exit
  PROVE  IngestInv'
<1>1. dayKey \in {0, today} /\ Stop /\ (saved' = saved \/ saved' = StateAt(today))
  BY DEF Exit
<1>2. today \in Days /\ 0 \notin Days
  BY DaysAre DEF IngestInv, DiskTyped
<1>3. Book(cursors, month, day, today, disk)
  <2>1. CASE dayKey = 0
    <3>1. Blank(cursors, month, day)
      BY <2>1 DEF IngestInv, LiveTrue
    <3> QED BY <1>2, <3>1, BlankIs
  <2>2. CASE dayKey # 0
    BY <1>1, <2>2 DEF IngestInv, LiveTrue
  <2> QED BY <2>1, <2>2
<1> QED BY <1>1, <1>3, StopKeeps

\* The collector starts, with what was saved this day or on another of the month.
LEMMA StartKeeps ==
  ASSUME IngestInv, ~AcrossMonths, Start
  PROVE  IngestInv'
<1>1. /\ pc = "down" /\ starts < MaxStarts /\ starts' = starts + 1 /\ pc' = "idle"
      /\ saved # None => saved.month = MonthOf(today)
      /\ IF saved = None
         THEN UNCHANGED <<cursors, month, day, monthKey, dayKey, retirement>>
         ELSE Restore(saved)
      /\ UNCHANGED <<today, disk, changes, window, seenStat, dirty, saved>>
  BY DEF Start, files, totals
<1>2. DiskTyped'
  BY <1>1 DEF IngestInv, DiskTyped
<1>3. SavedTrue'
  BY <1>1 DEF IngestInv, SavedTrue, CursorsTyped
<1>4. starts' \in 0..MaxStarts
  BY <1>1, IngestAssumption DEF IngestInv, StateTyped
<1>5. CASE saved = None
  <2>1. StateTyped'
    BY <1>1, <1>4, <1>5 DEF IngestInv, StateTyped, CursorsTyped
  <2>2. LiveTrue'
    BY <1>1, <1>5 DEF IngestInv, LiveTrue
  <2> QED BY <1>2, <1>3, <2>1, <2>2 DEF IngestInv
<1>6. CASE saved # None
  <2>1. /\ saved \in States /\ saved.today \in Days /\ saved.today <= today
        /\ saved.month = MonthOf(saved.today) /\ CursorsTyped(saved.cursors)
        /\ Book(saved.cursors, saved.monthTotals, saved.dayTotals, saved.today, disk)
        /\ today \in Days
    BY <1>6 DEF IngestInv, SavedTrue, DiskTyped
  <2>2. /\ saved.monthTotals \in [Providers -> Nat] /\ saved.dayTotals \in [Providers -> Nat]
        /\ saved.cursors \in [Files -> Cursors \cup {None}]
    BY <2>1 DEF States
  <2>3. /\ cursors' = saved.cursors /\ month' = saved.monthTotals
        /\ day' = (IF saved.today = today THEN saved.dayTotals ELSE NoTotals)
        /\ monthKey' = MonthOf(today) /\ dayKey' = today /\ retirement' = Known(saved.cursors)
    BY <1>1, <1>6 DEF Restore
  <2>4. NoTotals \in [Providers -> Nat] /\ Known(saved.cursors) \subseteq Files
    BY DEF NoTotals, Known
  <2>5. MonthOf(today) \in Nat \ {0} /\ today # 0 /\ today \in Nat /\ saved.today \in Nat
    BY <2>1, MonthIs, DaysAre
  <2>6. Book(cursors', month', day', today, disk)
    <3>1. CASE saved.today = today
      BY <2>1, <2>3, <3>1
    <3>2. CASE saved.today # today
      <4>1. saved.today < today /\ MonthOf(saved.today) = MonthOf(today)
        BY <1>1, <1>6, <2>1, <2>5, <3>2
      <4>2. Book(saved.cursors, saved.monthTotals, NoTotals, today, disk)
        BY <2>1, <2>2, <4>1, DayPasses
      <4> QED BY <2>3, <3>2, <4>2
    <3> QED BY <3>1, <3>2
  <2>7. month' \in [Providers -> Nat] /\ day' \in [Providers -> Nat]
    BY <2>2, <2>3, <2>4
  <2> HIDE DEF NoTotals
  <2>8. StateTyped'
    BY <1>1, <1>4, <2>1, <2>3, <2>4, <2>5, <2>7 DEF IngestInv, StateTyped, CursorsTyped
  <2>9. LiveTrue'
    BY <1>1, <2>3, <2>5, <2>6 DEF LiveTrue
  <2> QED BY <1>2, <1>3, <2>8, <2>9 DEF IngestInv
<1> QED BY <1>5, <1>6

\* Everything is forgotten, to be read again.
LEMMA RescanKeeps ==
  ASSUME IngestInv, Rescan
  PROVE  IngestInv'
<1>1. /\ pc = "idle" /\ cursors' = [f \in Files |-> None]
      /\ month' = NoTotals /\ day' = NoTotals
      /\ monthKey' = (IF monthKey = 0 THEN MonthOf(today) ELSE monthKey)
      /\ dayKey' = today /\ retirement' = {} /\ dirty' = TRUE
      /\ UNCHANGED <<today, disk, changes, pc, window, seenStat, saved, starts>>
  BY DEF Rescan, files
<1>2. /\ today \in Days /\ today # 0 /\ today \in Nat /\ MonthOf(today) \in Nat \ {0}
      /\ monthKey \in Nat
  BY MonthIs, DaysAre DEF IngestInv, DiskTyped, StateTyped
<1>3. DiskTyped'
  BY <1>1 DEF IngestInv, DiskTyped
<1>4. StateTyped'
  <2>1. CursorsTyped(cursors)'
    BY <1>1 DEF CursorsTyped
  <2>2. NoTotals \in [Providers -> Nat]
    BY DEF NoTotals
  <2> HIDE DEF NoTotals
  <2> QED BY <1>1, <1>2, <2>1, <2>2 DEF IngestInv, StateTyped
<1>5. LiveTrue'
  <2>1. Blank(cursors', month', day')
    BY <1>1 DEF Blank
  <2>2. Book(cursors', month', day', today, disk)
    BY <1>2, <2>1, BlankIs
  <2> QED BY <1>1, <1>2, <2>1, <2>2 DEF LiveTrue
<1>6. SavedTrue'
  BY <1>1 DEF IngestInv, SavedTrue, CursorsTyped
<1> QED BY <1>3, <1>4, <1>5, <1>6 DEF IngestInv

-----------------------------------------------------------------------------
(***************************************************************************)
(* The invariant.                                                          *)
(***************************************************************************)
\* It holds at the beginning.
LEMMA IngestBegins == Init => IngestInv
<1> SUFFICES ASSUME Init PROVE IngestInv
  OBVIOUS
<1>1. /\ today = FirstDay /\ disk = [f \in Files |-> None] /\ changes = 0
      /\ pc = "down" /\ window = 0 /\ seenStat = NoStat
      /\ cursors = [f \in Files |-> None] /\ month = NoTotals /\ day = NoTotals
      /\ monthKey = 0 /\ dayKey = 0 /\ retirement = {} /\ dirty = FALSE
      /\ saved = None /\ starts = 0
  BY DEF Init
<1>2. today \in Days /\ today \in Nat /\ MaxChanges \in Nat /\ MaxStarts \in Nat
  BY <1>1, IngestAssumption DEF Days
<1>3. DiskTyped
  BY <1>1, <1>2 DEF DiskTyped
<1>4. StateTyped
  <2>1. CursorsTyped(cursors)
    BY <1>1 DEF CursorsTyped
  <2>2. NoTotals \in [Providers -> Nat]
    BY DEF NoTotals
  <2>3. month \in [Providers -> Nat] /\ day \in [Providers -> Nat]
    BY <1>1, <2>2
  <2>4. /\ pc \in {"down", "idle", "tick", "probe", "read"} /\ pc \notin {"probe", "read"}
        /\ pc # "read" /\ dayKey <= today /\ starts \in 0..MaxStarts
    BY <1>1, <1>2
  <2> QED BY <1>1, <2>1, <2>3, <2>4 DEF StateTyped
<1>5. LiveTrue
  BY <1>1 DEF LiveTrue, Blank
<1>6. SavedTrue
  BY <1>1 DEF SavedTrue
<1> QED BY <1>3, <1>4, <1>5, <1>6 DEF IngestInv

\* Every step keeps it, unless midnight passes where the instance says so.
LEMMA IngestStep ==
  ASSUME ~MidnightInTick, ~ExitAfterMidnight, ~AcrossMonths, IngestInv, [Next]_vars
  PROVE  IngestInv'
<1>1. ASSUME NEW f \in Files,
             Append1(f) \/ Replace(f) \/ Truncate(f) \/ Delete(f) \/ Retire(f) \/ Stat(f)
      PROVE  IngestInv'
  BY <1>1, AppendKeeps, ReplaceKeeps, TruncateKeeps, DeleteKeeps, RetireKeeps, StatKeeps
<1>2. ASSUME Midnight \/ BeginTick \/ GiveUp \/ Register \/ Probe \/ Read \/ EndTick
      PROVE  IngestInv'
  BY <1>2, MidnightKeeps, BeginTickKeeps, GiveUpKeeps, RegisterKeeps, ProbeKeeps, ReadKeeps,
     EndTickKeeps
<1>3. ASSUME Exit \/ Start \/ Rescan PROVE IngestInv'
  BY <1>3, ExitKeeps, StartKeeps, RescanKeeps
<1>4. CASE Crash
  BY <1>4, StopKeeps DEF Crash
<1>5. CASE UNCHANGED vars
  BY <1>5 DEF vars, IngestInv, DiskTyped, StateTyped, LiveTrue, SavedTrue, CursorsTyped
<1> QED BY <1>1, <1>2, <1>3, <1>4, <1>5 DEF Next

-----------------------------------------------------------------------------
(***************************************************************************)
(* What follows from it.                                                   *)
(***************************************************************************)
\* The types are right.
LEMMA TypesAre == IngestInv => TypeOK
<1> SUFFICES ASSUME IngestInv PROVE TypeOK
  OBVIOUS
<1>1. DiskTyped /\ StateTyped /\ SavedTrue
  BY DEF IngestInv
<1>2. seenStat = NoStat <=> pc \notin {"probe", "read"}
  <2>1. \A s \in Stats : s.file # None
    BY NoneAssumption DEF Stats
  <2>2. NoStat.file = None
    BY DEF NoStat
  <2>3. NoStat \notin Stats
    BY <2>1, <2>2
  <2> QED BY <1>1, <2>3 DEF StateTyped
<1>3. \A f \in Files : disk[f] # None => disk[f] \in DiskFiles /\ Len(disk[f].lines) <= MaxLines
  BY <1>1 DEF DiskTyped
<1>4. \A f \in Files : cursors[f] # None => cursors[f] \in Cursors /\ cursors[f].offset <= MaxLines
  BY <1>1 DEF StateTyped, CursorsTyped
<1>5. saved # None => saved \in States
  BY <1>1 DEF SavedTrue
<1> QED BY <1>1, <1>2, <1>3, <1>4, <1>5 DEF TypeOK, DiskTyped, StateTyped

\* There is something only of the days of the tick's month.
LEMMA OfOneMonth ==
  ASSUME IngestInv, NEW f \in Files, cursors[f] # None
  PROVE  /\ dayKey \in Days /\ monthKey = MonthOf(dayKey) /\ dayKey # 0
         /\ Book(cursors, month, day, dayKey, disk) /\ CursorTrue(f, cursors[f], dayKey, disk[f])
<1>1. ~Blank(cursors, month, day)
  BY DEF Blank
<1>2. dayKey # 0 /\ monthKey = MonthOf(dayKey) /\ dayKey \in Days
  BY <1>1 DEF IngestInv, LiveTrue, StateTyped
<1> QED BY <1>2 DEF IngestInv, LiveTrue, Book

\* What is shown is the sum of what the files gave.
LEMMA TotalsAre == IngestInv => TotalsAreContributions
<1> SUFFICES ASSUME IngestInv, dayKey # 0, NEW p \in Providers
             PROVE  /\ month[p] = SumFunction([f \in KnownOf(p) |->
                                     InMonth(cursors[f].contrib, monthKey)])
                    /\ day[p] = SumFunction([f \in KnownOf(p) |-> cursors[f].contrib[dayKey]])
  BY DEF TotalsAreContributions
<1> DEFINE S == FilesOf(p)  known == KnownOf(p)
           g == [f \in known |-> InMonth(cursors[f].contrib, monthKey)]
           h == [f \in known |-> cursors[f].contrib[dayKey]]
           v == MonthParts(cursors)  u == DayParts(cursors, dayKey)
<1>1. /\ Book(cursors, month, day, dayKey, disk) /\ dayKey \in Days
      /\ cursors \in [Files -> Cursors \cup {None}]
  BY DEF IngestInv, LiveTrue, StateTyped, CursorsTyped
<1>2. month[p] = SumFunctionOnSet(v, S) /\ day[p] = SumFunctionOnSet(u, S)
  BY <1>1 DEF Book, AddsUp
<1>3. IsFiniteSet(S) /\ S \subseteq Files /\ known \in SUBSET S
  BY DaysAre DEF KnownOf
<1>4. \A f \in Files : v[f] = Part(cursors[f]) /\ u[f] = PartOn(cursors[f], dayKey)
  BY DEF MonthParts, DayParts
<1>5. \A f \in Files : Part(cursors[f]) \in Int /\ PartOn(cursors[f], dayKey) \in Int
  BY <1>1, PartIs
<1>6. \A f \in S \ known : v[f] = 0 /\ u[f] = 0
  BY <1>3, <1>4 DEF KnownOf, Part, PartOn
<1>7. /\ SumFunction(g) = SumFunctionOnSet(g, known)
      /\ SumFunction(h) = SumFunctionOnSet(h, known)
  BY DEF SumFunction
<1>8. ASSUME NEW f \in known PROVE v[f] = g[f] /\ u[f] = h[f]
  <2> DEFINE c == cursors[f]  M == {d \in Days : MonthOf(d) = monthKey}
  <2>1. f \in Files /\ c # None /\ c \in Cursors
    BY <1>1, <1>3, <1>8 DEF KnownOf
  <2>2. /\ monthKey = MonthOf(dayKey) /\ CursorTrue(f, c, dayKey, disk[f])
        /\ c.contrib \in Contributions
    BY <2>1, OfOneMonth DEF Cursors
  <2>3. Part(c) = SumFunctionOnSet(c.contrib, Days) /\ PartOn(c, dayKey) = c.contrib[dayKey]
    BY <2>1 DEF Part, PartOn
  <2>4. M \in SUBSET Days /\ \A d \in Days \ M : c.contrib[d] = 0
    <3> HIDE DEF c
    <3> QED BY <1>1, <2>2, NothingElsewhere
  <2>5. IsFiniteSet(Days) /\ \A d \in Days : c.contrib[d] \in Int
    BY <2>2, DaysAre, ContributionsAre
  <2>6. SumFunctionOnSet(c.contrib, Days) = SumFunctionOnSet(c.contrib, M)
    <3> HIDE DEF c, M
    <3> QED BY <2>4, <2>5, SumOfParts
  <2>7. InMonth(c.contrib, monthKey) = SumFunctionOnSet(c.contrib, M)
    BY DEF InMonth
  <2>8. v[f] = Part(c) /\ u[f] = PartOn(c, dayKey)
    BY <1>4, <2>1
  <2>9. g[f] = InMonth(c.contrib, monthKey) /\ h[f] = c.contrib[dayKey]
    BY <1>8
  <2> HIDE DEF g, h, v, u, c, M
  <2> QED BY <2>3, <2>6, <2>7, <2>8, <2>9
<1> HIDE DEF S, known, g, h, v, u
<1>9. \A f \in S : v[f] \in Int /\ u[f] \in Int
  BY <1>3, <1>4, <1>5
<1>10. SumFunctionOnSet(v, S) = SumFunctionOnSet(v, known)
       /\ SumFunctionOnSet(u, S) = SumFunctionOnSet(u, known)
  BY <1>3, <1>6, <1>9, SumOfParts
<1>11. IsFiniteSet(known)
  BY <1>3, FS_Subset
<1>12. /\ SumFunctionOnSet(v, known) = SumFunctionOnSet(g, known)
       /\ SumFunctionOnSet(u, known) = SumFunctionOnSet(h, known)
  BY <1>8, <1>11, SumSame
<1> QED BY <1>2, <1>7, <1>10, <1>12 DEF g, h, known

\* A file that was read to its end has each of its requests in it once.
LEMMA RequestsAre == IngestInv => EachRequestOnce
<1> SUFFICES ASSUME IngestInv, NEW f \in Files, UpToDate(f)
             PROVE  LET mine  == {r \in ToSet(disk[f].lines) : MonthOf(r.day) = monthKey}
                        picks == {s \in SUBSET mine :
                                    \A r \in mine : Cardinality({q \in s : SameKey(f, q, r)}) = 1}
                    IN  \E s \in picks : \A d \in {e \in Days : MonthOf(e) = monthKey} :
                           cursors[f].contrib[d]
                              = SumFunction([q \in {r \in s : r.day = d} |-> q.amount])
  BY DEF EachRequestOnce
<1> DEFINE c == cursors[f]  l == disk[f].lines
           mine == {r \in ToSet(l) : MonthOf(r.day) = monthKey}
<1>1. /\ disk[f] # None /\ c # None /\ c.identity = disk[f].identity /\ c.offset = Len(l)
  BY DEF UpToDate
<1>2. dayKey \in Days /\ monthKey = MonthOf(dayKey) /\ CursorTrue(f, c, dayKey, disk[f])
  BY <1>1, OfOneMonth
<1>3. l \in Seq(Records) /\ Len(l) \in Nat /\ DOMAIN l = 1..Len(l)
  BY <1>1 DEF IngestInv, DiskTyped, DiskFiles
<1>4. PICK L \in [1..c.offset -> Records] :
          /\ IsRead(c, L, disk[f])
          /\ \E s \in SUBSET OfMonth(L, dayKey) :
                Tallied(f, OfMonth(L, dayKey), s, c.keys, c.revisable, c.contrib)
  BY <1>2 DEF CursorTrue
<1>5. DOMAIN L = DOMAIN l /\ \A i \in DOMAIN l : L[i] = l[i]
  BY <1>1, <1>3, <1>4 DEF IsRead
<1>6. mine = OfMonth(L, dayKey)
  <2>1. ToSet(l) = {L[i] : i \in DOMAIN L}
    BY <1>5 DEF ToSet
  <2> HIDE DEF l
  <2> QED BY <1>2, <2>1 DEF OfMonth
<1>7. PICK s \in SUBSET mine : Tallied(f, mine, s, c.keys, c.revisable, c.contrib)
  BY <1>4, <1>6
<1>8. /\ IsFiniteSet(s) /\ (\A q, r \in s : SameKey(f, q, r) => q = r)
      /\ (\A r \in mine : \E q \in s : SameKey(f, q, r))
      /\ \A d \in Days : c.contrib[d] = SumFunctionOnSet(AmountOf, OnDay(s, d))
  BY <1>7 DEF Tallied
<1>9. s \in SUBSET Records
  BY <1>6 DEF OfMonth
<1> HIDE DEF mine, c
<1>10. ASSUME NEW r \in mine PROVE Cardinality({q \in s : SameKey(f, q, r)}) = 1
  <2>1. PICK q \in s : SameKey(f, q, r)
    BY <1>8
  <2>2. {x \in s : SameKey(f, x, r)} = {q}
    <3>1. \A x \in s : SameKey(f, x, r) => x = q
      BY <1>8, <2>1, SameKeyIs
    <3> QED BY <2>1, <3>1
  <2> QED BY <2>2, FS_Singleton
<1>11. ASSUME NEW d \in Days
       PROVE  c.contrib[d] = SumFunction([q \in {r \in s : r.day = d} |-> q.amount])
  <2> DEFINE T == {r \in s : r.day = d}  g == [q \in T |-> q.amount]
  <2>1. T = OnDay(s, d)
    BY DEF OnDay
  <2>2. IsFiniteSet(T)
    BY <1>8, FS_Subset
  <2>3. \A q \in T : g[q] = AmountOf[q]
    BY <1>9, RecordIs
  <2>4. SumFunction(g) = SumFunctionOnSet(g, T)
    BY DEF SumFunction
  <2> HIDE DEF T, g
  <2>5. SumFunctionOnSet(g, T) = SumFunctionOnSet(AmountOf, T)
    BY <2>2, <2>3, SumSame
  <2>6. c.contrib[d] = SumFunction(g)
    BY <1>8, <2>1, <2>4, <2>5
  <2> QED BY <2>6 DEF g, T
<1>12. /\ s \in {x \in SUBSET mine : \A r \in mine : Cardinality({q \in x : SameKey(f, q, r)}) = 1}
       /\ \A d \in {e \in Days : MonthOf(e) = monthKey} :
             c.contrib[d] = SumFunction([q \in {r \in s : r.day = d} |-> q.amount])
  BY <1>10, <1>11
<1> QED BY <1>12 DEF mine, c
=============================================================================
