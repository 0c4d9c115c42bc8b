--------------------------- MODULE MCAccounting ---------------------------
(***************************************************************************)
(* The accounting for TLC: what the files add to the totals (UsageIngest,  *)
(* with and without a Codex file and the end of a month), the text those   *)
(* totals are saved as (UsageState), the day and month of a record         *)
(* (Calendar), its price (Pricing), and what the counters of Windows add   *)
(* up to (Readings).  A behaviour is of one of them; the others stay where *)
(* they began.                                                             *)
(***************************************************************************)
EXTENDS UsageIngest

CONSTANTS
    Starts, MaxPages, Moments, Offsets,                \* of the calendar
    Capacity, MaxSamples, MaxResets, Uptime, Ticks     \* of the readings

VARIABLES view,       \* the module this behaviour is of
          calendar, key, step, subject, windows, contrib, nanos, unbroken, text, mark,
          registry, events, damage,
          number, pages, turned,
          request, kept, billed, records,
          times, own, sampler, process, curves, memory, samples, resets, spent, ownSpent,
          ownShare, loads, remembered

stateVars == <<calendar, key, step, subject, windows, contrib, nanos, unbroken, text,
               mark, registry, events, damage>>
calendarVars == <<number, pages, turned>>
pricingVars == <<request, kept, billed, records>>
readingsVars == <<times, own, sampler, process, curves, memory, samples, resets, spent,
                  ownSpent, ownShare, loads, remembered>>
accountingVars == <<view, vars, stateVars, calendarVars, pricingVars, readingsVars>>

\* Months of one day, so that they end often, and a file of each provider.
Months == INSTANCE UsageIngest WITH
    Codex <- {"x"}, MonthLength <- 1, MaxAmount <- 1

ASSUME MonthsAssumption ==
    /\ "x" \notin Claude
    /\ None \notin Months!Files /\ None \notin Months!Cursors
    /\ None \notin Months!DiskFiles /\ None \notin Months!States

State == INSTANCE UsageState WITH
    Codex <- {"x"}, Odd <- {}, Digests <- 1..3, MaxTokens <- 2,
    SeenCapClaude <- 2, SeenCapCodex <- 1, PendingCap <- 1, NanosPerCent <- 3,
    LastMonth <- 2, MaxEvents <- 3, MaxDamage <- 1,
    month <- calendar, monthKey <- key, pc <- step, file <- text

Civil == INSTANCE Calendar

\* The days from the first of January 1970 to a date: 365 for each year and one more
\* for each leap year, and the months before.
MonthsBefore == <<0, 31, 59, 90, 120, 151, 181, 212, 243, 273, 304, 334>>
DayNumber(date) ==
    LET y == date[1] - 1
    IN  365 * y + y \div 4 - y \div 100 + y \div 400 - 719162
          + MonthsBefore[date[2]] + (IF Civil!Leap(date[1]) /\ date[2] > 2 THEN 1 ELSE 0)
          + date[3] - 1
IsDate(date) ==
    date \in Int \X (1..12) \X Nat /\ date[3] \in 1..Civil!Length(date[1], date[2])

ASSUME CalendarAssumption ==
    /\ \A s \in Starts : IsDate(s[2]) /\ s[1] = DayNumber(s[2])
    /\ Moments \subseteq 0..1439
    /\ Offsets \subseteq -840..840     \* no zone is more than 14 hours from UTC
    /\ None \notin Int

\* Around 1970, the leap year 2000, the years 2026, 2100 and 2400.
FiveStarts == { <<-2, <<1969, 12, 30>>>>, <<10680, <<1999, 3, 30>>>>,
                <<20570, <<2026, 4, 27>>>>, <<47450, <<2099, 11, 30>>>>,
                <<157000, <<2399, 11, 8>>>> }
FourMoments == {0, 1, 719, 1439}
SixOffsets == {-719, -480, 0, 60, 345, 840}

Prices == INSTANCE Pricing WITH
    Prompt <- 2, ClaudeTier <- 2, CodexTier <- 1, SolDay <- 2, LastDay <- 2, MaxRecords <- 2

Counters == INSTANCE Readings

\* What the machine does in an interval, and what its counters say.
Done == [idle: Nat, system: Nat, user: Nat]
Counted == [idle: Nat, kernel: Nat, user: Nat]

\* What is counted after a start of the counters does not reach the counters
\* that were read before it.
ASSUME ReadingsAssumption ==
    /\ Capacity \in Nat \ {0} /\ MaxSamples \in Nat /\ MaxResets \in {0, 1} /\ Uptime \in Nat
    /\ Ticks \subseteq Done
    /\ \E most \in 0..Uptime :
          /\ MaxSamples * most < Uptime
          /\ \A t \in Ticks : t.idle + t.system <= most /\ t.user <= most
    /\ None \notin Done /\ None \notin Counted /\ None \notin [ticks: Nat, of: Done]

\* An interval without ticks, one with idle time and one without, in the kernel and
\* outside of it.
ThreeTicks == { [idle |-> 0, system |-> 0, user |-> 0], [idle |-> 2, system |-> 1, user |-> 0],
                [idle |-> 1, system |-> 0, user |-> 1] }

AccountingInit ==
    /\ view \in {"ingest", "months", "state", "calendar", "prices", "readings"}
    /\ (IF view = "months" THEN Months!Init ELSE Init)
    /\ State!Init /\ (view # "state" => subject \in Claude /\ registry = "none")
    /\ Civil!Init /\ (view # "calendar" => number = -1)
    /\ Prices!Init
    /\ view # "prices" => request = [base |-> Prices!Opus5, dated |-> FALSE, fast |-> FALSE]
    /\ Counters!Init

OfIngest(A) ==
    view = "ingest" /\ A /\ UNCHANGED <<view, stateVars, calendarVars, pricingVars, readingsVars>>
OfMonths(A) ==
    view = "months" /\ A /\ UNCHANGED <<view, stateVars, calendarVars, pricingVars, readingsVars>>
OfState(A) ==
    view = "state" /\ A /\ UNCHANGED <<view, vars, calendarVars, pricingVars, readingsVars>>
OfCalendar(A) ==
    view = "calendar" /\ A /\ UNCHANGED <<view, vars, stateVars, pricingVars, readingsVars>>
OfPrices(A) ==
    view = "prices" /\ A /\ UNCHANGED <<view, vars, stateVars, calendarVars, readingsVars>>
OfReadings(A) ==
    view = "readings" /\ A /\ UNCHANGED <<view, vars, stateVars, calendarVars, pricingVars>>

AccountingNext ==
    \/ OfIngest(Next) \/ OfMonths(Months!Next) \/ OfState(State!Next)
    \/ OfCalendar(Civil!Next) \/ OfPrices(Prices!Next) \/ OfReadings(Counters!Next)

AccountingSpec == AccountingInit /\ [][AccountingNext]_accountingVars
-----------------------------------------------------------------------------
\* The totals are the sum of what the files contributed to the days of the
\* window (ingest_events, subtract_contribution): see UsageIngest.
TotalsTrue ==
    /\ view = "ingest" => TypeOK /\ TotalsAreContributions
    /\ view = "months" => Months!TypeOK /\ Months!TotalsAreContributions

\* A request is in the totals once, whatever becomes of its file and wherever
\* the collector stops (scan_file, apply_state): see UsageIngest.
RequestsOnce ==
    /\ view = "ingest" => EachRequestOnce
    /\ view = "months" => Months!EachRequestOnce

\* A collector that was stopped tells the records of this month apart as one
\* that went on; it accepts its own text, and whatever text it finds, the window
\* it restores is one the collector could have (encode, decode): see UsageState.
SameAfterRestart ==
    view = "state" =>
        /\ State!TypeOK /\ State!OwnFileAccepted
        /\ State!SameAfterRestart /\ State!RestoredIsWindow

\* A record falls on the day and in the month of its stamp (parse_rfc3339_ms,
\* local_ymd): see Calendar.
StampIsDay == view = "calendar" => Civil!StampIsDay

\* A request costs what the listed row says, by the tier of its prompt, and an
\* earlier revision leaves nothing behind (cost_nanos): see Pricing.
Billed == view = "prices" => Prices!Billed

\* Loads, shares and curves are those of the time in which the ticks were counted,
\* whichever reading fails and although the counters may start again
\* (interval_ticks, WindowsProcessSource::sample, Sparkline::push): see Readings.
ReadingsTrue ==
    view = "readings" =>
        /\ Counters!TypeOK /\ Counters!CurvesTrue /\ Counters!LoadTrue /\ Counters!ShareTrue
=============================================================================
