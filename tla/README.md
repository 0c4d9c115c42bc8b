# A verification project for RunDog

RunDog is a Windows tray application in Rust: a dog that runs with the CPU load,
a card with CPU, memory, GPU and storage readings, the limits and costs of
Claude Code and Codex CLI read from local logs and two web services, settings
kept in the registry, and an updater that installs new releases silently.

These modules model the parts of it whose behaviour depends on the order of
events: crashes between two durable writes, worker threads whose results arrive
late or not at all, files that other programs write, a clock that jumps, a shell
that restarts, calls that fail. They also model the calculations those parts rest
on: the calendar, the price list, the text of the saved state, the layout of the
card. TLC checks them on small instances; TLAPS proves the main safety results for
every value of the constants (section 5). All definitions are translated from the
Rust code. The repository has TLA+ models of its own under `formal/`; they were
not used as a source.

Paths below are relative to the repository's `src/` directory.

## 1. Inventory

The program is one process (a named mutex keeps a second one away), one
message-loop thread that owns all application state, and short-lived worker
threads that store a result in shared memory and post a window message.

| Component | State | Operations | Hard because |
| --- | --- | --- | --- |
| Settings commit (`application/app.rs`, `application/commit_protocol.rs`, `application/ports.rs`, `windows/registry.rs`, `core/settings.rs`) | the `SettingsRecord`, `PendingJournal`, `Lifecycle` and Run-entry registry values; `App` and its cursor (generation, operation IDs); `CommitGate` | menu selections, `execute_commit`, `recover_pending`, the save at exit, the reconciliation at start | crashes between registry writes, compensating writes that fail, a deadline that passes in the middle |
| Update protocol (`windows/update.rs`, `windows/mod.rs`) | `UpdateController.state`, `cancelled`, `launch_gate`; posted messages | timer tick, `UPDATE_CHECK_DONE`, `UPDATE_INSTALL_FAILED`, `UPDATE_REQUEST_EXIT`, Check, Install, Exit, the two kinds of worker | workers race with the message loop and the exit; `PostMessageW` may fail |
| Update schedule (`update.rs`) | due time, time of scheduling, origin in flight, failures | `is_due`, `begin`, `complete`, `install_failed`, `cancel`, the server's retry time | the wall clock jumps; backoff, server and jitter compete |
| Release choice, download, cache (`update.rs`, `windows/update.rs`) | the update directory, the request under way | check, follow redirects, download, hash, rename, launch, clean up | stops, cancels and failures between file operations; an older release as the latest one |
| Usage ingestion (`windows/usage.rs`, `core/usage.rs`, `core/usage_state.rs`, `core/usage_dedupe.rs`) | cursors, contributions per day, dedupe keys, totals | register, scan, rebuild, retire, day and month change, rescan, persist, restore | files that grow, shrink, vanish and return; restarts in the middle; nothing may be lost or counted twice |
| Scan scheduling (`windows/usage.rs`) | queues and their two boundary counters, budgets, retry and cool-down times | discover, register, scan hot and pending files, look again, catch up | fairness between today's files, a backlog and files Windows refuses |
| Usage checkpoint store (`core/usage_durable.rs`, `windows/usage_store.rs`, `windows/usage_store_path.rs`) | numbered blobs and `current`; the legacy and the current directory | persist, load, recovery of a prior generation, cleanup; choosing and moving the directory | crashes and failures between file operations, damaged files, directories of others |
| Remote limit fetches (`core/usage_fetch.rs`, `windows/usage.rs`) | a slot and a `ProviderFetchState` per provider | tick, `USAGE_READY_MESSAGE`, spawn, worker, cancel | late results, failed spawns, exit |
| Credentials and limits (`windows/usage.rs`) | the login file of Claude Code, the limits and plans shown | read, refresh, replace, ask; limits from session logs | two programs rewrite one file whose refresh token is good once |
| otak-usage floor (`windows/otak_snapshot.rs`) | a floor under what is displayed | lock, snapshot, lock again | leaders change while it is read; midnight |
| Run history (`windows/run_history.rs`) | a marker and a bounded log | start, diagnose, end | crashes and failures between the two files |
| Hover card (`windows/flyout.rs`, `windows/tray.rs`) | pinned (twice), hover timer, window, measurement | hover, pin, menu with a nested message loop, poll, place, paint | re-entrancy; sized and painted by two procedures at two times |
| Tray icon (`windows/tray.rs`, `windows/notify_icon.rs`) | registration and its backoff, promotion tries | add, modify, remove, promote | a shell that is slow, restarts and forgets |
| Application behind the icon (`application/app.rs`, `windows/mod.rs`, `core/animation.rs`) | settings, theme, rate, menu, timers, drawn number | samples, menu choices, theme messages, exit | each of five copies of the state must be told |
| Sampler and readings (`core/cpu.rs`, `core/sparkline.rs`, `core/memory.rs`, `windows/process.rs`) | previous counters, smoothed load, rings of the last loads | a sample every two seconds | counters read one after another, reads that fail, counters that start again |
| Storage and GPU readings, texts, icons, status file, diagnostics | none that others depend on | formatting, drawing, reporting | not hard in this sense |

How they interact: the message loop dispatches every event to `App`, whose
effects the platform applies (`ports.rs`); a commit runs to its end inside one
dispatch. The update schedule and the update controller meet in
`windows/mod.rs`. The usage collector calls the store at the end of a tick and
at exit, and starts the remote fetches in every tick. Leaving the program
cancels the schedule, the controller and the fetches, flushes the checkpoint and
saves the settings, in that order.

What makes each component correct:

- settings: a change takes effect at one instant or not at all; what is shown is
  what is in effect; the Run entry follows the flag; `App` never loses its
  cursor;
- updates: one worker at a time, one launch, none after the exit, an install only
  when authorised, every check consumed, server limits honoured (unless a failed
  install is told late, section 4); no unverified file under an installer's name, no
  step back to an older version;
- store: an acknowledged checkpoint survives; no generation is written twice; the
  newest state is found in whichever directory it lies; nothing of others is
  touched;
- fetches: no outcome lost, none out of order, no slot stuck, freshness honest;
  the login of Claude Code stays usable;
- ingestion: each request once, in its day and month, at the larger of its
  revisions, at the listed price, across restarts; totals equal the sum of what
  the files contributed;
- scanning: every file is read to its end in bounded ticks (unless Windows refuses a
  new one three times, section 4); no line lost or taken twice;
- card, icon, application: what is pinned is shown and nothing else stays (unless the
  end of a measurement shows it, section 4); the icon returns; each copy of the state is
  told; the card holds what is drawn in it;
- sampler: loads, shares and curves are of the time in which the ticks were counted.

## 2. Plan

Done, in this order: `SettingsCommit` with `AtomicSettings`; `UpdateProtocol`;
`UpdateSchedule`; `UsageStore`; `RemoteFetch`; their proofs; `UsageIngest`,
`ScanSchedule`, `LogReader`, `UsageState`, `Calendar`, `Pricing`; `StoreRoot`,
`RunHistory`, `Limits`, `OtakFloor`; `InstallerFetch`; `HoverCard`, `TrayIcon`,
`TrayApp`, `CardLayout`; `SettingsText`, `Readings`; and the suites that check them
together.

Next:

1. More theorems: what `Pricing` bills and what `UsageState` restores, along their texts
   and lists of records.
2. `SettingsCommit` with the failing reads of `SettingsText`; a clock for `RemoteFetch`, whose
   `should_start_fetch` waits out a clock that was set back.
3. `UpdateProtocol` as an implementation of an abstract updater that composes
   with `UpdateSchedule`.
4. `UsageIngest` over an abstraction of `UsageStore`.
5. A larger instance of `ScanSchedule`, with two directories per provider.

## 3. Modules

| Module | Models | Checked by | Proved in |
| --- | --- | --- | --- |
| `AtomicSettings` | what the settings promise: one value, a wish that is taken or dropped, what the user is shown | `settings_recoverable`, as a refinement | `SettingsCommitProofs` |
| `SettingsCommit`, `MCSettingsCommit` | application, saga, registry, recovery | `settings_*` | `SettingsCommitProofs` |
| `SettingsText` | the texts of four releases, damage, reads that fail | `files` | `FilesProofs` |
| `UpdateProtocol`, `MCUpdateProtocol` | message loop and update workers | `updates`, `update_failures_counted` | `UpdatesProofs` |
| `UpdateSchedule` | the schedule under a wall clock | `updates`, `update_late` | `UpdatesProofs` |
| `InstallerFetch` | release choice, redirects, download, cache, launch | `updates` | `UpdatesProofs` |
| `ScanSchedule`, `MCScanSchedule` | what a tick of the collector reads, within its budgets | `scanning`, `scan_refused` | `ScanningProofs` |
| `LogReader` | the lines of one growing file | `scanning` | `ScanningProofs` |
| `UsageIngest` | what files add to the totals; days, months, restarts | `accounting`, `usage_ingest_midnight` | `IngestProofs`, `AccountingProofs` |
| `UsageState` | dedupe windows and the text of a saved state | `accounting` | |
| `Calendar` | the day and month of a record | `accounting` | `AccountingProofs` |
| `Pricing` | the price of a request and its revisions | `accounting` | |
| `Readings` | load, share and curves from the counters of Windows | `accounting` | `AccountingProofs` |
| `UsageStore` | blobs, `current`, crashes, damage | `files` | `FilesProofs` |
| `StoreRoot` | the directory of the store and its move | `files` | `FilesProofs` |
| `RunHistory` | marker and log of the runs | `files` | `FilesProofs` |
| `Limits` | the login of Claude Code, limits and plans | `files` | `FilesProofs` |
| `OtakFloor` | the snapshot of otak-usage as a floor | `files` | `FilesProofs` |
| `RemoteFetch` | provider slots and workers | `scanning` | `ScanningProofs` |
| `HoverCard` | the card, its timers and the menu | `desk`, `card_measured` | `DeskProofs` |
| `CardLayout`, `MCCardLayout` | size, place and layout of the card | `desk` | `DeskProofs` |
| `TrayIcon` | registration and promotion of the icon | `desk` | `DeskProofs` |
| `TrayApp` | the application's effects on menu, icon, timers | `desk` | `DeskProofs` |
| `MCUpdates`, `MCScanning`, `MCAccounting`, `MCFiles`, `MCDesk` | the suites | the run of each | |

A suite checks several modules in one run. They model views of the code that
share no state, so a variable `view` says which of them a behaviour is of, and
the others stay where they began: the states of the modules add up instead of
multiplying, and no behaviour of any of them is lost. A suite names the
properties of its modules, with their type invariants as conjuncts; each is
defined and explained in its module. The bounds of a suite are constants that its
`.cfg` gives values to, so that what is proved of a suite holds for all of them.

Definitions whose comment begins with `Mutant:` are not part of any
specification. Each is a changed form of the definition it stands before, as a
plausible bug would change it; put in its place, TLC finds one of the properties
violated, which shows that the property says something about the code.

### SettingsCommit

`record`, `journal`, `runEntry` and `tombstoned` are the registry values. They
survive `Crash`, which may happen at any step. `app` is the application; while no
process runs it stands for what the user saw last. `pc` is the step the thread
takes next: each call that writes the registry is an action of its own
(`WritePending`, `WriteRecord`, `SyncRunEntry`, `RollBack`, `ClearPending`), so a
crash falls between any two of them. `Refusal` has the guards of `execute_commit`
in their order. `RecoverNothing`, `RecoverLate`, `RecoverUnwritten` and
`RecoverWritten` are the four branches of `recover_pending`; they share `RollBack`
and `ClearPending` with the commit, as the code repeats those lines. `Start`, a
recovery and `Reconcile` are `run_single_instance` up to the message loop.

- `Looks` stands for (theme, frame limit, display mode, auto update): the code
  treats them alike. Launch-at-startup is apart because of the Run entry.
- The deadline is the flag `expired`, which may rise between any two steps. At
  recovery both answers are possible: the deadline is a tick count, which starts
  again at 0 with Windows.
- `FaultyOps` names the registry calls that may fail; each failure is a choice of
  its own at that call. Reads succeed.
- A commit runs inside one dispatch, so `CancelCommit` and the gate's `cancelled`
  cannot be reached from the loop and are left out.
- A tombstone exists only as the leftover of an older uninstall, in `Init`: the
  production key is never tombstoned by the program.

`ImplementsAtomic` says that the saga implements `AtomicSettings`. The refinement
mapping makes the journal the commit point: while the journalled content is
visible, the value in effect is still the previous one, and deleting the journal
takes the wish. That mapping is why a rollback, a crash and a recovery are all
invisible in the abstract specification.

### SettingsText

The values of the key as texts: a sequence of lines, of the present release or of
an older one (`Says`, with the lines each release wrote), and the separate values
of the first releases. `Decode` and `DecodeJournal` take a text of exactly these
lines or none of it. A commit, the save at exit and the start with its recovery
are one step each; which of their reads of the key fails is a choice
(`Commit`, `Exit`). Values that should have been deleted may survive. `Damage`
loses, repeats, swaps or spoils a line while the program does not run.
`ReadFailsAtStart` admits a start whose read fails (section 4).

### UpdateProtocol

`worker[w]` is the next step of the thread in slot `w`: fetching, storing,
posting, and for an install downloading, entering the launch gate, launching,
storing. Every read of `cancelled`, every store and every post is a step of its
own. `queue` holds the three posted messages; `Post` may fail (`Lossy`, or a full
queue), since the code ignores its result. `tick_update` is two actions because
workers run between its halves; a timer message is generated only on an empty
queue, which is the code's own argument for consuming results there. `Cancel` waits
for the gate. After the exit began the loop still handles posted messages until
`WM_QUIT`, which comes when the queue is empty. Whether a check is due is left to
`UpdateSchedule`: any tick may find it due. `latest` and the counters are history
variables; the counters also bound the run. `Answered` joins the two liveness
properties: every check's result is consumed, and an exit that began ends.

### UpdateSchedule

Every operation of the schedule under a clock `now` that moves forward one unit at
a time or is set back to any earlier time. `Answer` is the worker's moment, which
reads the clock for the server's retry time, `Complete` the message loop's, which
reads it again. The constants of the code are parameters: interval, first retry,
largest jitter, longest server wait. Whether the clock may be set back between
those two moments is the constant `SetBackWhileAnswered`. `controller` is the state
that checks and installs share and that `Complete` reads, whoever stored it:
`begin_check` refuses only `Checking`, `Downloading` and `Launching`, so that an
install may begin before a check's result is consumed, and a check before the message
of an install that failed is handled. `reports` are these messages, which may be lost,
late, or several at once (`MaxReports`). `asked` and `overruled` are history: the time
that the server gave the check completed last, and whether a failed install was handled
since. `RetryHonored` is what the comments promise, `RetryKept` what the code does
(section 4). A check that is completed without such a time takes the place of one that
had it, also a manual one: the promise is about the last one. Saturating arithmetic is not
modelled: 64-bit milliseconds do not reach their end. `announced` is left out:
it decides a notification only.

### InstallerFetch

One worker at a time, as `UpdateProtocol` has it. A version is its rank, the bytes
of a file are cut, good or bad, a URL is its host. `asked` are the hosts one
request went to: `Redirect` follows or abandons, and drops the headers of the
request when the host changes; the token of a provider goes through the same
procedure (`FetchLimits`). `exe` and `part` are the installers and partial files;
`Hash`, `Swap` and `Launch` are separate steps, each of which may fail, be
cancelled, or be the last one before the process ends (`End`). The installer that
runs keeps its file. Release answers are all releases of `Release`: unpublished,
older, without one of the assets, with two of one, or with one elsewhere.

### ScanSchedule

A tick is `BeginTick`, `Discover`, `Register`, `ScanHot`, `ScanPending`, `Restat`,
`EndTick`; other programs write and Windows refuses files between any two of
them. `registrations` is one queue with two counters, `recent` and `today`, that
cut it in three and are kept by hand over insertions, moves and removals:
`Queued`, `Withdraw`, `InsertRecent` follow the code's index arithmetic. `rest`
is the time a refused path rests, `cool` that of a file that was read. The loop over
the queue has a read budget of its own (`pendingPortions`), which the hot files do not
use up. `GivenUp` is a new path that was refused `MaxRetries` times before it was
registered: no queue has it, and its directory is not listed again before it changes. A size
counts portions of complete lines; `LogReader` has the bytes. `Order` is the order
in which a map returns the files, fixed in an instance.

### LogReader

A file of bytes (newline, carriage return, other) grows while `scan_file` reads
it. `Scan` is one pass over a byte: `pos` runs, `committed` follows complete lines
only, and the offset of the cursor is set from it at the end of a read. A line
that is too long is skipped over several reads (`discard`), which a restart
forgets. `taken` is a history variable: the start offsets of the lines the
parser got.

### UsageIngest

A file is a sequence of records with a request's name, a day and an amount that
stands for cost and tokens. Other programs append, revise, replace, truncate and
delete. `probe` and `read` are the two moments of a scan: what was seen of the
file in the first one (`seenStat`) decides in the second one whether it is read on
from its offset or rebuilt from the start, after its contribution was subtracted
(`Subtract`). `saved` is the state on disk; the process may stop and start
anywhere, and a restored state is advanced to the day and month of the start. A
month is `MonthLength` days. The constants `MidnightInTick`, `ExitAfterMidnight`
and `AcrossMonths` admit three cases in which the code does lose or misplace an
amount (section 4); the passing run has none of them.

### UsageState

`Remember`, `RetainMonth` and `FromParts` are the operations of the dedupe window.
`Encode` is the text as a sequence of lines and `Accepted`, `DecodedWindow` and
`DecodedContrib` are what `decode` makes of one: the line kinds, what may be
there twice, what must agree, the caps. `unbroken` is a second collector that is
never stopped. `Damage` loses, repeats or swaps lines or changes the schema. The
registry's checkpoint of an old version is taken over once.

### Calendar and Pricing

`Calendar` translates the integer arithmetic of `days_to_ymd`,
`ymd_to_epoch_days`, `parse_rfc3339_ms`, `local_ymd` and the day window, with
Rust's division (`DayOfEra`, `YearOfEra`, `DayOfYear` and `MonthOfYear` are the
lines of `days_to_ymd`), and compares it to a calendar that turns its pages day by day. `DayNumber` of `MCAccounting` counts
the days of a date a third way, by whole years and months; the first page of an
instance is held against it.
`Pricing` has the rows of the price list that differ in how they are built or
found, the search by name, date and tier, and revisions of a request of which the
larger replaces the smaller.

### Readings

`Elapse` adds ticks to the counters of Windows, `Reset` lets them start again,
`CpuSample` is the timer message with `CpuSampler`, `WindowsProcessSource`, the
reading of memory and the curves. The history variables hold what the machine
really did between two samples. A percentage is in hundredths. A second reset
within one interval could not be told from none, so there is one.

### UsageStore

Blobs hold the number of the snapshot they were written from, so that "the same
or newer" is a comparison. A temporary file is never read, so a write that fails
leaves no trace and a crash inside a write is a crash before it: `write_atomically`
renames the finished file. `Damage` makes a readable blob
unreadable or lose its file, or `current` invalid, up to `MaxDamage` times. A
failed delete leaves the blob (`Cleanup` deletes any subset of the old ones).
`ReadsFail` lets the reads of a persist fail, which the code takes for 0.

### StoreRoot

`select_production_root` step by step over two directories, each with a newest
state, spoilt files and files of others. `barred` places are links or lie in a
provider's tree. Every move and removal may fail or be the last step of a run.
Opening a directory that exists and is not barred succeeds.

### RunHistory

The marker and the log are two files; each of the steps that `RunSession` takes on
them is an action that may fail, and the process may be killed between any two.
Two sessions of one user, who share the directory, are left out.

### Limits

The login file is rewritten by Claude Code (two steps: it has a new token, it
writes it) and by RunDog (read, refresh, read again, compare the identity,
replace). `good` are the refresh tokens the server would take. `ClaudeAnswers` and
`CodexAnswers` are the limits and plans an answer may hold; the heading of the
card follows the last answer. HTTP and JSON are outcomes.

### OtakFloor

Leaders publish a snapshot each under their epoch, also after they were replaced;
RunDog reads lock, snapshot and lock again while leaders change and days pass.
`spent` is what each day really cost, `logged` the part that is still in session
files. One provider stands for both.

### RemoteFetch

Per provider: the slot (`running`, `latest`), the state machine (`inFlight`,
`generation`, `failed`, `freshness`, `backoff`), and one worker per request. A tick
takes both outcomes and then visits the providers (`visit`); workers run in
between. Messages are left out: every tick takes the outcomes anyway, and
`HandleReady` may happen at any time. So is the clock: a provider may be due or not
at any tick. The module is checked as one view of `MCScanning`. A panic ends the
process (`panic = "abort"`), so a worker that dies without storing takes the program
with it.

### HoverCard

`queue` are the messages of the window, which the loop or the loop of the open menu
takes; `Receive` has one action per message. `pinned` is the menu's and the
registry's copy, `card.pinned` the card's own; the menu restores one from a third
(`restore`). Timer messages come only when the queue is empty. `card.scan` is the
thread that measures the providers' directories; its answer places the window and
so shows it, also when it was hidden meanwhile (`card.again`, a history of
that). A behaviour begins with either pin. A second menu (`OpenSecond`) can be opened only where a quick click is possible, at the constant `QuickClicks`.

### CardLayout

The window is sized and placed by one procedure and painted by another at a later
time; both add up the rows, each with its own rounding at the resolution `dpi`.
`Height` and `PlacedAt` are the first, `Paint` with `StorageTop`, `ClaudeTop` and
the rest the second. Desks are arrangements of taskbar and icon, contents what the
application hands over.

### TrayIcon

Time passes in half seconds. A late call reports a failure whether or not the
shell did what it was asked. The two steps of a promotion, the look at the
registry and the write, are apart, so that the user may act in between (`Races`).
`Backoff` is the table of the code's delays.

### TrayApp

Each event changes the application's state and, in the same step, what menu,
timers and icon are told, as the effects of one dispatch. `Number` is the picture
with a number in it, `DogOf` the dog that stands in where none can be drawn, `cache`
the number drawn last. A commit is applied or refused as a whole: `SettingsCommit` looks
inside. `Updated` and `Limited` are the animation rate with its hysteresis.

## 4. Runs

| Run | Shows | Bounds and states |
| --- | --- | --- |
| `settings_recoverable` | `FailedLeavesPrevious`, `RunEntryAgrees`, `ImplementsAtomic`, `Settles` when journal, record, Run-entry and tombstone writes may fail but compensating writes, journal deletions and the reconciliation succeed | 2 looks, 3 operations, generations to 4; 60,677 |
| `updates` | `LaunchedOnce`, `OneAtATime`, `NoOrphan`, `NoLaunchAfterCancel`, `InstallAuthorised`, `Answered` (workers and messages); `RetryKept` (clock); `FetchedSafely` (files and requests) | 2 worker slots, queue of 2, lossy, 3 commands, 2 faults; times to 8, interval 4, first retry 1, server limit 6, jitter 1, 4 failures, 1 failed install not handled; versions 1 to 5, 2 redirects, 1 cached installer; 1,202,053 |
| `scanning` | `QueuesTrue`, `AllRead` (queues and budgets); `TakenExactly`, `CaughtUp` (lines); `CurrentIsHonest`, `NoOutcomeLost`, `OnlyNewestShown`, `Released` (fetches) | 3 files of up to 2 portions, 2 writes, 3 refusals, budgets of 1 read and 2 looks; 6 bytes, lines of 2, a tick of 3, 1 restart; 2 providers, 3 requests each, backoff 1, 2, 3; 704,719 |
| `accounting` | `TotalsTrue`, `RequestsOnce` (ingestion); `SameAfterRestart` (saved text); `StampIsDay` (calendar); `Billed` (prices); `ReadingsTrue` (counters) | 1 Claude file, 1 name, amounts to 2, 3 days, 2 lines, 2 changes, 2 starts; a second time with a Codex file and months of one day; 3 digests, windows of 2, 1 and 1, 3 events, 1 damage; 450 days from each of 5 dates; 2 revisions; 3 intervals of 3 kinds, rings of 2, 1 reset; 1,022,841 |
| `files` | `AcknowledgedSurvives`, `NeverReused` (store); `DirectoryMoved` (directory); `ToldOnce` (log); `LimitsTrue` (login); `ShownIsSpent` (otak-usage); `SettingsKept` (registry) | 2 prior generations, 6 generations, 2 damages; 3 saves, 3 starts, 2 failures; 4 runs, 3 lines, 2 faults; 4 tokens, 2 logins, 1 lost answer; 2 epochs, days to 2; 2 themes and display modes, generations to 2, 1 damaged line; 1,051,874 |
| `desk` | `CardTrue`, `DeskSettles` (card); `CardFits` (layout); `IconKept` (icon); `AppTrue`, `IconFollows`, `NoWobble` (application) | 5 inputs, with measurements 4; waits to 4, 3 tries to promote, 2 restarts, 2 slow calls, 2 changes of the user; themes system and light, limits 20 and 40, modes dog, cpu and claude_week; loads of 11 and 55, for the rate 7 loads around its thresholds; 111,426 |
| `settings_rollback_fails` | violation of `FailedLeavesPrevious` | one failing call suffices |
| `update_failures_counted` | violation of `FailureCountedOnce` | 2 commands, 1 fault, no lost message |
| `usage_ingest_midnight` | violation of `EachRequestOnce` | one tick over the end of a month |
| `update_late` | violation of `RetryHonored` | jitter 0, times to 6, 2 failures, 1 failed install not handled |
| `scan_refused` | violation of `EverythingRead` | files of 1 portion, no write, 3 refusals |
| `card_measured` | violation of `NoneLeft` | 2 inputs, no quick click, menus open |

Why the bounds are enough.

- Settings: a failure needs one commit, its recovery and a next commit with an
  exit-time save in between, that is two operations and four generations; a third
  operation repeats.
- Updates: one worker at work, one still posting, so two slots; a queue of two is
  easily full. The times are small, but interval, server limit and jitter are all
  crossed, and the backoff reaches its cap. One message of a failed install that is not
  handled yet is enough for it to come after the next check. Five versions are an older, the
  running, a cached, a newer one and one that is newer still.
- Scanning: three files overrun each of the budgets, fill both queues and let one
  be moved, refused and withdrawn while another is in front of it. Three refusals, as
  many as the code takes before a path rests for long, give one path up, before it is
  registered or after, or delay several. Six bytes hold an empty line, a line that is too
  long over two reads, and one after it. Three requests of a provider reach the cap of
  the backoff and let two older workers be late at once.
- Accounting: a record and its revision, in one line order or the other, before
  and after a truncation, over an end of day and one of a month, with a restart in
  between. The windows of the dedupe keys are full with the second key. The pages
  of the calendar cross each kind of year end and the 28th and 29th of February.
  Three intervals wrap a ring of two; a text of three older releases and the first
  one's values are each read, committed over and damaged.
- Files: six generations with two retained let the cleanup delete; damage is at
  most `Prior`, because a third damaged blob may leave nothing to recover (then the
  code rebuilds, as it should). Three starts see a move that is interrupted, its
  repetition and what it left. Four runs overflow a log of three lines.
- Desk: opening the menu, a choice in it and closing it while the pointer comes and
  goes are four inputs. A second restart of the shell falls into the wait after the
  first. The layout has each resolution at which a rounding changes, the taskbar at
  each side and each row of the card present and absent.

The suites and five of the violations turn the deadlock check off: their clocks and
counters are bounded, and the program ends in most of them. `settings_recoverable` and
`settings_rollback_fails` check it.

### Fairness

- `settings_recoverable`: weak fairness of the running saga and of a running
  recovery: the thread runs a dispatch to its end unless the process dies. None for
  the user, the exit or the start.
- `updates`: weak fairness of the timer tick, its second half, the message handlers,
  `Cancel`, `End` and each worker: threads are scheduled, the timer stays armed,
  WinHTTP requests have timeouts. None for menu commands. A worker may always fail
  instead of succeed, within the fault bound. The other two views are safety only.
- `scanning`: weak fairness of the steps within a tick; strong fairness of the tick
  a minute after the last, since the timer is armed again at the end of each tick
  and the program reads no file between ticks. The reader's steps are weakly fair.
  Other programs and the refusals of Windows have no fairness, but a bound. Of the
  fetches: weak fairness of the tick, of some visit and of some worker's step. That is
  weaker than fairness of each thread, and enough, since a request has few steps.
  `scan_refused` has the part of the queues.
- `desk`: weak fairness of the message loop, its timers, the measuring thread, the
  polls, the sample every two seconds that carries the card's content and calls the
  icon, and of the shell: one that went comes back, and makes its registry key. None
  for the user. `card_measured` has the part of the card.
- `accounting` and `files` are safety only.

### Findings

Six runs end in a violation of what a comment or document says, each with a
counterexample of the code's own steps:

1. A compensating write that fails leaves the rejected settings in the registry
   (`commit_protocol.rs` 146 and 161 ignore it) and the journal is deleted all the
   same.
2. An install chosen between a check's result and its message counts one failure
   twice (`windows/update.rs` 189).
3. A record of the new month that is read by a tick of the old month is dropped and
   the cursor moves past it (`windows/usage.rs` 1863; the comment at 1889 says each
   event counts once).
4. A failed install whose message is handled after the next check was completed plans
   from the backoff alone, and so cuts the wait that GitHub asked that check for
   (`update.rs` 146 against `update.rs` 58-59 and `docs/PRIVACY.md` 28). `RetryKept`, which
   the suite checks, excepts this case (`overruled`) and keeps the backoff in it.
5. A new session file that Windows refused three times leaves every queue and is not
   looked at again when it rested, unless its directory changes, a month begins or
   the program starts again (`windows/usage.rs` 1556 against 120-121 and 1446-1447).
   `AllRead` excepts exactly these files (`GivenUp`).
6. A measurement of the providers' directories that ends after the pointer left shows
   the hidden card again, with its timer off, so that it stays until the pointer comes
   to the icon again (`windows/flyout.rs` 181 and 201 against `windows/tray.rs` 486-487).
   `DeskSettles` excepts exactly a card that was shown so (`card.again`) and has no
   timer.

Two more follow from a calculation of their own, without a run:

- At 5 frames per second a load of 54 raises the rate to 15 and a load of 56 does
  not, since only the band of the load is tried (`core/animation.rs` 171 against
  `PLAN.md` 206).
- Every failed request for the limits, a lost connection included, makes the program
  refresh the login (`windows/usage.rs` 3328 against `docs/PRIVACY.md` 39-40).

The models show further cases, at the constants named in brackets. They have no
run of their own; the passing runs leave them out by these constants and would be
violated with them.

- A journal that could not be deleted makes the next start roll back an
  acknowledged commit (`commit_protocol.rs` 178, 197-212) [`FaultyOps`].
- After a crash between journal and record, the next process reuses the journal's
  operation ID, which its own gate holds as timed out, and the user's first
  selection is refused (`commit_protocol.rs` 201).
- A clock set back between answer and handling makes the server's wait longer than
  its limit (`update.rs` 171) [`SetBackWhileAnswered`].
- A start that cannot open the settings key goes on with defaults, and the save at
  its exit, which can, writes them over the user's settings (`registry.rs` 199 and
  253-261) [`ReadFailsAtStart`]. A record that lost its line `operation_id` and
  whose first line became that of the first release is read as one of it
  [`MaxDamage` of `SettingsText`].
- A persist whose reads fail overwrites an existing blob (`usage_durable.rs` 79)
  [`ReadsFail`].
- A state saved at exit after midnight carries the new day with the totals of the
  old one (`windows/usage.rs` 497) [`ExitAfterMidnight`].
- When the program starts in a new month and a file was replaced meanwhile, what it
  contributed to the old month is taken off the new month's total
  (`windows/usage.rs` 1610 and 3931) [`AcrossMonths`].
- A card whose click or menu was quick, or whose menu could not be opened, may stay
  or lose its pin (`windows/flyout.rs` 201, `windows/tray.rs` 241 and 406)
  [`QuickClicks`, `MenusFail`].
- A promotion may overwrite what the user chose between the look and the write
  (`windows/notify_icon.rs` 145) [`Races`]; a change of theme before the window
  hears of it is missed (`windows/mod.rs` 123) [`EarlyChange`].
- A newer snapshot of otak-usage with smaller amounts lowers the floor; a log of
  runs that cannot be read is taken for empty and written anew
  (`windows/run_history.rs` 248); the 31st of February is the 3rd of March for the
  calendar.

## 5. Proofs

Each proof module extends its component, or the suite that its component is checked
in; a theorem about a suite is of the module's part in it, for every value of the
suite's constants. Assumptions on constants are the named `ASSUME`s of the modules,
which say what the bounds are (natural numbers, sets of the code's values) and that
`None` is no value; additional ones are stated in the theorem.

| Theorem | For | Under |
| --- | --- | --- |
| `SettingsCommitProofs`: `TypeCorrect`, `CursorAlwaysAligned`, `JournalNeverOutdated` | any looks, bounds and failing calls | nothing |
| `FailedAlwaysLeavesPrevious` | the same | compensating writes succeed |
| `RunEntryAlwaysAgrees` | the same | compensating writes and the reconciliation succeed |
| `ShownChangesOnlyByRequest`, `CommitIsAtomic` | the same | compensating writes and journal deletions succeed |
| `UpdatesProofs`: `TypeCorrect`, `NeverTwoAtWork`, `AtMostOneLaunch`, `CancelStopsLaunches`, `NeverOrphaned`, `InstallsAuthorised` | any workers, queue, losses, commands, faults | nothing |
| `ScheduleTypeCorrect`, `RetriesKept` | any interval, jitter and clock | nothing |
| `WaitAlwaysBounded` | the same | the clock is not set back while an answer waits |
| `FetchesSafely` | any finite set of versions, any number of redirects and of installers kept | the cache may be exceeded by the launched and the running installer, as the property says |
| `FilesProofs`: `TypeCorrect` | any number of retained generations | nothing |
| `GenerationsNeverReused` | the same | the reads of a persist succeed |
| `AcknowledgedAlwaysSurvives` | the same | reads succeed, and at most `Prior` files are damaged (with more it does not hold, section 4) |
| `DirectoryNeverLost` | any number of saves, starts and failures | what `StoreRoot` says of opening a directory |
| `EndsToldOnce` | any number of runs and faults, a log of any length of at least one line | one session of the user |
| `LimitsStayTrue` | any number of tokens and logins, any plans | no answer lost and no write failed for the login (as the property says); nothing for the heading |
| `ShownStaysSpent` | days and months of any length, any clock, leaders and amounts | nothing |
| `SettingsStayKept` | any themes, rates, display modes and number of saves; texts of every release | at most one line is damaged, and the key can be opened at the start |
| `DeskProofs`: `PinHeld` | any number of inputs | no quick clicks, menus open |
| `TrayTold` | any loads in 0..100, the themes, limits and modes offered, refused commits, numbers that cannot be drawn, any number of shell restarts and slow calls | Windows changes its theme only once there is a window |
| `HiddenKept` | any number of restarts, tries and changes | the user does not act between the look and the write |
| `RateSteady` | any loads and limits | as `TrayTold` |
| `CardPlaced` | any resolutions, desks, contents and times | nothing |
| `ScanningProofs`: `LinesTaken` | any file and its growth, limit of a line, failures and restarts | nothing |
| `QueuesStayTrue` | any files in any order, sizes, growth, budgets, rests and refusals | nothing |
| `FetchTypeCorrect`, `CurrentAlwaysHonest`, `OutcomesNeverLost`, `OnlyNewestEverShown` | any providers, requests and backoffs | nothing |
| `AccountingProofs`: `StampRight` | pages from any dates with their numbers, any moments of a day, offsets of at most 14 hours | nothing |
| `ReadingsRight` | any capacity of the curves, kinds of ticks, number of samples, failing reads | the counters start again at most once, and what they count afterwards stays below what they were when RunDog started (`ReadingsAssumption`) |
| `TotalsStayTrue`, `RequestsStayOnce` | any files, names, amounts, days and lengths of a month, any number of changes and starts; also for months of one day with a Codex file | midnight passes neither in a tick nor between the last tick and the exit, and no month ends while the collector is off (`MidnightInTick`, `ExitAfterMidnight`, `AcrossMonths`) |

`FoldLemmas` has what the folds of the community modules compute: sums over finite
sets, by which element they are split, changed or bounded, and folds over sequences,
as runs of steps. The induction theorems of the library take an operator as a
parameter, which the provers cannot instantiate; so each of these lemmas takes the
smallest set or number of which it fails, which `WFMin` gives.

`IngestProofs` has the lemmas about `UsageIngest`. `AccountingProofs` extends it for the
view `ingest`, and instantiates it (`Monthly`) for the view `months`, which is an instance
of `UsageIngest`; `MonthsSame` says that the two instances speak of the same behaviours.

The arguments:

- Settings. `TypeOK` and cursor alignment are inductive once one adds how `record`
  and `job` relate at each `pc`: before `WriteRecord` the record is still at the
  job's base, after it the record is the job's generation with its operation ID,
  after a rollback it is one generation further. The properties under assumptions
  add what the contents are at each of these points; the refinement follows by one
  case per action, with `ClearPending` as the step that takes effect.
- Updates. `Core` says which worker steps each `state` allows: a worker in
  a check or an install exists only in `Checking` or `Downloading` and is the only
  one; once something was launched, `state` cannot leave `Downloading` or
  `Launching`. For the exit, a worker behind the gate excludes `cancelled`, and
  `Cancel` waits for the gate. `NoOrphan` is not inductive: workers end with the
  process, and only since the exit cancels first (`Leaving`) does no busy state lose
  its worker; `Manned` has both. An automatic install is authorised since the
  controller's origin of a check in flight is that of the latest one (`Credited`): a
  manual check that joins an automatic one made it its own.
- Schedule. When no answer waits, or one waits under an unchanged clock, the retry
  time is at most the clock plus the limit; that is what scheduling needs for
  `WaitBounded`. `RetryKept` needs (`Keeps`) that a plan is never before the backoff
  nor, unless a failed install overruled it, before the time GitHub named, and that only
  a failed answer names one. Nothing is assumed of what runs meanwhile: a late message
  may plan anew at any moment.
- Installers. `Safe`: a partial file gets an installer's name only from `swap`,
  where it is the one that was hashed (`Hashed`); the candidate and the launched
  installer are ahead of the version that runs, which changes only when both are
  dropped (`Ahead`); a request in flight is a sequence of hosts each of which
  followed from the one before (`Requests`).
- Store. `Written`: stamps grow at least as fast as generations, so a load that looks
  `Prior` generations back sees the blobs of the last `Prior` snapshots. Of the
  latest stamps, down to the lowest that a cleanup must spare, those that are
  `Missing` are no more than the damaged files; one more than these cannot all be
  missing (`OneIsGood`), so the load finds a good blob among them (`RestoresRecent`).
- Directory. `RootInv`: the newest state lies in the current directory, or in the
  legacy one while the current one has none (`Newest`); each step of a start keeps
  that wherever it is cut off, since the legacy directory is cleared only when the
  current one has a state (`Choosing`).
- Log. `HistoryInv`: a line about the end of a run is of a run that is over
  (`LinesPast`); the run the marker names has no line of its own yet except one that
  says unclean, which is not written again (`MarkerOpen`); without faults the one run not told of is the marker's
  (`NothingMissed`).
- Login. No two refreshes are of one token (`Apart`); who refreshed holds a token
  the server takes (`NewTokens`); so the login on disk is good or its successor is
  about to be written, by the one program that has it (`OnTheWay`). The heading
  needs that only an answer of the server says API access (`HeadingInv`).
- Floor. Whatever leaders published is what some days of one month had cost by then
  (`ToldIsSpent`), so a snapshot, and the floor that one became, are of the tick's day
  and month and are at most what these cost by now (`Within`). That the sum over the
  days told is at most the sum over the month is a lemma on sums (`SumGrows`).
- Registry. A text of release v is `Whole`: no line comes twice and none is spoilt. So
  one damaged line shows (`DamageSeen`): the first line is not that of a release, or the
  text is too long or too short, or a line has another name, or the release is another.
  Since the texts of two releases are never of one length (`RecordLinesAre`,
  `JournalLinesAre`), such a text says nothing as one of any release, and a whole one
  tells its record (`DecodeWhole`, `DecodeJournalWhole`). `KeyInv`: the record is a
  whole text of what was saved, or is not read; a journal is a whole text one of whose
  two sets of settings is the record's, or is not read; and while the application runs
  undamaged it goes by the settings that were saved and no journal is left.
- Fetches. A worker that has not stored yet is the only one of its provider, finds
  an empty slot, and before the exit its provider is in flight; a waiting outcome
  also keeps its provider in flight.
- Card. The menu's copy of the pin is restored from a third one, which is right
  since no command waits behind one that opens a menu (`OneAtATime`), none waits
  while it is open (`NoneWhileOpen`), and so nothing changed the pin since it opened.
- Layout. Each row is rounded by itself when it is painted and the sum is rounded
  when the window is sized; lemmas on the rounding say that the sum of the rounded
  parts is no larger at any resolution. `LayoutInv` adds that the window was sized
  for the content, and that time only removes rows.
- Icon and application. A shell that does not run has no icon; while no call was
  late the program knows of the icon it has; what the look found absent is absent
  until the write. The rate (`TurnTrue`): after a rise the load was two points above
  its band, after a fall no higher band within the limit was reached, and the bands
  lie further apart than that.
- Lines. `ReaderInv` adds to `TakenExactly`, while a file is read, where the
  position is within its line, that `committed` is the last line end before it, and
  that what was found in this read is exactly the lines between the two (`InRead`).
- Queues. A queue of registrations whose counters cut it where its flags do
  (`Registries`) is one after each insertion and withdrawal, and so after a fold of
  them, whatever the fold queues (`QueueAllKeeps`). `Kept` says of every step what the
  property says between ticks: a file that has unread bytes is in a queue or given up.
  A round of the loop over the queue removes one file, which comes back unless it is
  read to its end or given up; sorting the queue keeps the files in it. That a round
  finds a path needs that the rounds to come are at most as many as the paths
  (`PartOK`), and that a file is at least as long as what was read of it (`CursorOK`).
- Calendar. `PagesTrue`: the three pages are consecutive dates whose `DayNumber` is
  the number of the day before, of this day and of the day after. For
  that, turning a page adds one to `DayNumber` (`PagesTurn`). `days_to_ymd` gives the
  date that has the number it was given, `ymd_to_epoch_days` gives the number of a
  date, and no two dates share a number; so each page is what the code makes of its
  number. The rest is arithmetic with keys.
- Totals. The sum over the files is not inductive: whether a record is a repetition is
  decided by the cursor's keys, and what a rebuild subtracts by its contributions, so both
  have to be those of what was read. The cursor does not say what that was once the file
  changed. `CursorTrue` says that some history of the file exists, as long as the offset
  and equal to the file while that is the same file, and a set of its records of the month
  with one record of each request (`Tallied`), which the contributions sum up, day by day.
  `Count` keeps this record by record (`CountKeeps`), a fold of it along a read
  (`FoldCounts`), and a change of the month drops the same records from the keys, the
  revisions and the contributions (`MonthPasses`). `Book` says it of all cursors together with
  the totals, which are sums over the cursors. It holds of the live cursors as of the
  day of the last tick and of the saved ones as of theirs, so that a start takes over what
  a save left (`SavesTrue`), whatever happened to the files in between. `LiveTrue` has that
  the tick's day is today, which the three excluded cases break: there `EachRequestOnce`
  does fail (section 4).
- Readings. `ReadingsInv`: the reading that the code keeps and the ticks since then add
  up to the counters, unless they started again, and then the reading stands above
  them (`Since`). So the code measures an interval exactly when one can be told, and
  what it measures is what the machine did (`PassedIs`). The smoothed load lies between
  two loads that were measured, and a ring holds the end of its list (`RingOf`), which
  each point that is drawn keeps (`DrawnIs`).

`CursorAligned`, `JournalNotOutdated`, `ShownOnlyByRequest`, `WaitBounded` and
`HiddenStays` by itself are proved and no run lists them (`IconKept` has the last).

Only model-checked:

- liveness (`Settles`, `Answered`, `Released`, `AllRead`, `CaughtUp`, `DeskSettles`,
  `IconKept`, `IconFollows`): the prover does not handle fairness;
- `Billed`, `SameAfterRestart`: what a price and an encoded state of any length decode
  to. Each takes an induction along the text, of its own;
- `SettingsKept` with two damaged lines or more: it does not hold then (section 4).


## 6. Not modelled

- The single instance and its window, Windows itself: that one process runs at a
  time, that a registry value or a renamed file is replaced atomically. Two
  sessions of one user, whose processes share the files.
- Storage and GPU readings, frame counts, balloons, icons, translations,
  diagnostics and the status file: no other component depends on them. A reading of
  storage or of the GPU replaces the last one; which adapter is shown is chosen
  anew from each.
- The text of JSON, of manifests and of the logs' records: an answer or a line is
  its outcome. The repository's tests cover the parsing.
- The horizontal layout of the card: its rows are modelled, texts are cut to the
  width by Windows.
- Failing registry reads in the middle of a commit, step by step: `SettingsText` has
  them for a commit as a whole. A lost request to exit after the installer was launched:
  the state stays `Launching` until the installer closes the program. The clock of
  `RemoteFetch`. An existing checkpoint directory that cannot be opened. Each is a
  hazard of the list or a limit named with its module.
- Model names in a saved state that the decoder would not give back: `UsageState`
  admits them as `Odd`, which the run leaves empty.
- `prune_event_keys_before_month` has no caller.
