--------------------------- MODULE UpdateSchedule ---------------------------
(***************************************************************************)
(* When RunDog looks for a new release: the UpdateSchedule of the message  *)
(* loop, the server's rate limit as a worker read it, and a wall clock     *)
(* that the user or a time service may set back at any moment.  Of the     *)
(* UpdateController there is the state that every check and install        *)
(* overwrites; threads, the other messages and the exit are the matter of  *)
(* UpdateProtocol.  The version announced last is left out.                *)
(***************************************************************************)
EXTENDS Integers

CONSTANTS
    Interval,            \* UPDATE_CHECK_INTERVAL_MS
    RetryBase,           \* UPDATE_RETRY_BASE_MS
    MaxJitter,           \* UPDATE_CHECK_MAX_JITTER_MS
    ServerMax,           \* UPDATE_SERVER_RETRY_MAX_MS
    MaxTime,             \* bound: the latest time of the clock and of a reset
    MaxFailures,         \* bound: consecutive failures that lead to another
    MaxReports,          \* bound: failed installs not handled yet
    SetBackWhileAnswered,\* may the clock go back while an answer waits?
    NoCheck

ASSUME ScheduleAssumption ==
    /\ Interval \in Nat \ {0} /\ RetryBase \in Nat \ {0} /\ RetryBase <= Interval
    /\ MaxJitter \in Nat /\ ServerMax \in Nat
    /\ MaxTime \in Nat /\ MaxFailures \in Nat /\ MaxReports \in Nat
    /\ SetBackWhileAnswered \in BOOLEAN
    /\ NoCheck \notin {"Automatic", "Manual"}

VARIABLES
    now,          \* unix_now_ms
    nextDue,      \* next_due_ms
    scheduledAt,  \* scheduled_at_ms
    checking,     \* in_flight
    failedInARow, \* consecutive_failures
    stopped,      \* cancelled
    controller,   \* UpdateController.state, with the retry time of a Failed
    reports,      \* UPDATE_INSTALL_FAILED messages posted and not handled
    asked,        \* history: the retry time of the check completed last
    overruled     \* history: was a failed install handled since?

plan == <<nextDue, scheduledAt, failedInARow>>
promised == <<asked, overruled>>
scheduleVars == <<now, plan, checking, stopped, controller, reports, promised>>

Origins == {"Automatic", "Manual"}

\* A retry time that the response does not carry counts as 0: unwrap_or(0).
NoRetry == 0
Results == {"Current", "Available", "Failed"}
Controllers ==
    [state : Results \cup {"Idle", "Checking", "Downloading", "Launching"}, retry : Nat]

ScheduleTypeOK ==
    /\ now \in Nat /\ nextDue \in Nat /\ scheduledAt \in Nat /\ failedInARow \in Nat
    /\ checking \in Origins \cup {NoCheck}
    /\ stopped \in BOOLEAN /\ overruled \in BOOLEAN
    /\ controller \in Controllers
    /\ reports \in Nat /\ asked \in Nat

Becomes(state, retry) == controller' = [state |-> state, retry |-> retry]

ScheduleInit ==
    /\ now \in 1..MaxTime
    /\ nextDue = 0 /\ scheduledAt = 0 /\ failedInARow = 0
    /\ checking = NoCheck
    /\ stopped = FALSE
    /\ controller = [state |-> "Idle", retry |-> NoRetry]
    /\ reports = 0
    /\ asked = NoRetry /\ overruled = FALSE

-----------------------------------------------------------------------------
Least(a, b) == IF a <= b THEN a ELSE b
Most(a, b) == IF a >= b THEN a ELSE b

\* github_retry_not_before_ms on Retry-After, on a reset time, and on neither.
RetryAfter(wait) == Least(now + wait, now + ServerMax)
RetryReset(reset) == IF reset > now THEN Least(reset, now + ServerMax) ELSE NoRetry

IsDue ==
    ~stopped /\ checking = NoCheck /\ (now >= nextDue \/ now < scheduledAt)

Schedule(due, jitter) ==
    /\ scheduledAt' = now
    /\ nextDue' = due + Least(jitter, MaxJitter)

Succeeded(jitter) ==
    /\ failedInARow' = 0
    /\ Schedule(now + Interval, jitter)

\* RETRY_BASE << n; the code shifts by at most 16, which no backoff reaches.
Powers == <<1, 2, 4, 8, 16, 32, 64, 128, 256, 512, 1024, 2048, 4096, 8192, 16384,
            32768, 65536>>
Doubled(n) == RetryBase * Powers[Least(n, 16) + 1]

\* Mutant: the server's time replaces the backoff, also when it is long past.
FailedAsTold(retry, jitter) ==
    /\ failedInARow' = failedInARow + 1
    /\ Schedule(IF retry = NoRetry THEN now + Least(Doubled(failedInARow), Interval)
                ELSE retry, jitter)

\* The doubling starts with the second failure in a row.
Failed(retry, jitter) ==
    /\ failedInARow' = failedInARow + 1
    /\ Schedule(Most(now + Least(Doubled(failedInARow), Interval), retry), jitter)

-----------------------------------------------------------------------------
Jitters == 0..MaxJitter + 1    \* the caller's jitter is capped by Schedule

\* begin_check: whatever ran before is over, if its messages are handled or not.
BeginsCheck ==
    /\ controller.state \notin {"Checking", "Downloading", "Launching"}
    /\ Becomes("Checking", NoRetry)

BeginAutomatic ==
    /\ IsDue
    /\ BeginsCheck
    /\ checking' = "Automatic"
    /\ UNCHANGED <<now, plan, stopped, reports, promised>>

\* A manual check may replace one whose result was stored but not consumed.
BeginManual ==
    /\ BeginsCheck
    /\ checking' = IF stopped THEN checking ELSE "Manual"
    /\ UNCHANGED <<now, plan, stopped, reports, promised>>

\* The worker reads the clock and stores what the server said.
Answer(result, retry) ==
    /\ controller.state = "Checking"
    /\ Becomes(result, retry)
    /\ UNCHANGED <<now, plan, checking, stopped, reports, promised>>

Succeeds == \E result \in {"Current", "Available"} : Answer(result, NoRetry)

Fails ==
    /\ failedInARow < MaxFailures
    /\ \/ Answer("Failed", NoRetry)
       \/ \E wait \in 0..MaxTime : Answer("Failed", RetryAfter(wait))
       \/ \E reset \in 0..MaxTime : Answer("Failed", RetryReset(reset))

\* awaiting_result and check_outcome: the result is that of whatever ran last.
ResultWaits == checking # NoCheck /\ controller.state \in Results

\* The message loop consumes the result with the clock of its own moment.
Complete(jitter, enabled) ==
    /\ ResultWaits
    /\ IF controller.state = "Failed" THEN Failed(controller.retry, jitter)
                                      ELSE Succeeded(jitter)
    /\ IF controller.state = "Available" /\ checking = "Automatic" /\ enabled
       THEN Becomes("Downloading", NoRetry) ELSE UNCHANGED controller
    /\ asked' = controller.retry /\ overruled' = FALSE
    /\ checking' = NoCheck
    /\ UNCHANGED <<now, stopped, reports>>

\* The user installs what was found, also before the loop consumed that result.
InstallFound ==
    /\ controller.state = "Available"
    /\ Becomes("Downloading", NoRetry)
    /\ UNCHANGED <<now, plan, checking, stopped, reports, promised>>

InstallLaunches ==
    /\ controller.state = "Downloading"
    /\ Becomes("Launching", NoRetry)
    /\ UNCHANGED <<now, plan, checking, stopped, reports, promised>>

\* The worker stores Failed first; its message comes later, or is lost.
InstallEnds ==
    /\ controller.state = "Downloading" /\ failedInARow < MaxFailures
    /\ Becomes("Failed", NoRetry)
    /\ \/ reports < MaxReports /\ reports' = reports + 1
       \/ UNCHANGED reports
    /\ UNCHANGED <<now, plan, checking, stopped, promised>>

InstallFailed(jitter) ==
    /\ reports > 0
    /\ reports' = reports - 1
    /\ IF stopped THEN UNCHANGED <<plan, overruled>>
                  ELSE Failed(NoRetry, jitter) /\ overruled' = TRUE
    /\ UNCHANGED <<now, checking, stopped, controller, asked>>

CancelSchedule ==
    /\ ~stopped
    /\ stopped' = TRUE
    /\ checking' = NoCheck
    /\ UNCHANGED <<now, plan, controller, reports, promised>>

Tick ==
    /\ now < MaxTime
    /\ now' = now + 1
    /\ UNCHANGED <<plan, checking, stopped, controller, reports, promised>>

SetBack(time) ==
    /\ time < now
    /\ SetBackWhileAnswered \/ ~ResultWaits
    /\ now' = time
    /\ UNCHANGED <<plan, checking, stopped, controller, reports, promised>>

ScheduleNext ==
    \/ BeginAutomatic \/ BeginManual \/ Succeeds \/ Fails
    \/ InstallFound \/ InstallLaunches \/ InstallEnds \/ CancelSchedule \/ Tick
    \/ \E jitter \in Jitters :
          InstallFailed(jitter) \/ \E enabled \in BOOLEAN : Complete(jitter, enabled)
    \/ \E time \in 1..MaxTime : SetBack(time)

ScheduleSpec == ScheduleInit /\ [][ScheduleNext]_scheduleVars

-----------------------------------------------------------------------------
(* Properties.                                                             *)

LongestWait == Most(Interval, ServerMax) + MaxJitter

\* However the clock jumps, the next automatic check is at most an interval, or
\* the longest server wait, away from the clock of any moment: "a clock now
\* earlier than this moved backwards, and the check is due instead of waiting".
WaitBounded ==
    ~stopped /\ checking = NoCheck => IsDue \/ nextDue - now <= LongestWait

AutomaticAgain ==
    /\ checking = NoCheck /\ checking' = "Automatic"
    /\ nextDue # 0 /\ now >= scheduledAt

\* "never retries before a server-provided time": an automatic check keeps to
\* the time that the server gave the last check, unless the clock was set back.
RetryHonored == [][ AutomaticAgain => now >= asked ]_scheduleVars

\* What the code does: an automatic check waits for that time unless a failed
\* install was handled after it (install_failed plans without it), and for the
\* first backoff after whatever was planned last, also that install.
RetryKept ==
    [][ AutomaticAgain => /\ overruled \/ now >= asked
                          /\ now >= scheduledAt + RetryBase ]_scheduleVars
=============================================================================
