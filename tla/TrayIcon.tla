------------------------------ MODULE TrayIcon ------------------------------
(***************************************************************************)
(* The icon in the notification area: its registration with the shell,     *)
(* which may be slow, restart and forget the icon, and its promotion out   *)
(* of the overflow area by a registry value that Explorer creates later    *)
(* and the user may set.                                                   *)
(*                                                                         *)
(* Time passes in half seconds.  A call that is slow reports a failure,    *)
(* whether the shell did what was asked or not.                            *)
(***************************************************************************)
EXTENDS Naturals

CONSTANTS
    MaxWait,        \* longest wait before the icon is added again
    MaxAttempts,    \* tries to promote the icon after it was added
    Races,          \* may the user change the value while it is looked at?
    MaxRestarts, MaxSlow, MaxChanges   \* bounds: restarts of Explorer, slow
                                       \* calls, changes by the user

VARIABLES
    up,         \* does the shell run?
    has,        \* does it have the icon?
    value,      \* the registry: no key, a key without the value, the value
    restarts, slow, changes,
    phase,      \* the icon was not added yet, it was, it is removed
    added,      \* is the icon registered, as far as the program knows?
    failures,   \* in a row, counted to the longest wait
    wait,       \* half seconds until the icon is added again
    attempts,   \* tries left to promote it
    timer,      \* is the timer for the next try set?
    seen        \* what the running try saw in the registry, or that none runs

shell == <<up, has, restarts, slow>>
user == <<value, changes>>
registration == <<added, failures, wait>>
promotion == <<attempts, timer, seen>>
vars == <<shell, user, phase, registration, promotion>>

Values == {"no key", "no value", "hidden", "shown"}
Idle == seen = "idle"
running == phase = "running"

\* The wait after that many failures in a row; it does not grow beyond.
Backoff == <<1, 2, 4, 8, 16>>
MaxFailures == 5

TypeOK ==
    /\ {up, has, added, timer} \subseteq BOOLEAN
    /\ phase \in {"starting", "running", "ended"}
    /\ value \in Values /\ seen \in Values \cup {"idle"}
    /\ restarts \in 0..MaxRestarts /\ slow \in 0..MaxSlow /\ changes \in 0..MaxChanges
    /\ failures \in 0..MaxFailures /\ wait \in 0..MaxWait
    /\ attempts \in 0..MaxAttempts
    /\ failures = 0 => wait = 0

Least(a, b) == IF a < b THEN a ELSE b

-----------------------------------------------------------------------------
(***************************************************************************)
(* Calls of the shell: what it reports, and whether it then has the icon.  *)
(* In a slow moment each of the calls may be late.                         *)
(***************************************************************************)
AddCall(h, late) ==
    IF ~up \/ h THEN {<<FALSE, h>>}
    ELSE IF late THEN {<<FALSE, FALSE>>, <<FALSE, TRUE>>, <<TRUE, TRUE>>}
    ELSE {<<TRUE, TRUE>>}

ModifyCall(h, late) ==
    LET works == up /\ h IN
    {<<works, h>>} \cup IF late THEN {<<FALSE, h>>} ELSE {}

\* NIM_ADD, then NIM_MODIFY for an icon that is there already.
AddOrModify(late) ==
    LET first == AddCall(has, late) IN
    {r \in first : r[1]}
      \cup UNION {ModifyCall(r[2], late) : r \in {q \in first : ~q[1]}}

Late(late) ==
    /\ late => slow < MaxSlow
    /\ slow' = IF late THEN slow + 1 ELSE slow
    /\ UNCHANGED <<up, restarts>>

Succeed == added' = TRUE /\ failures' = 0 /\ wait' = 0

Fail ==
    /\ failures' = Least(failures + 1, MaxFailures)
    /\ wait' = Least(Backoff[failures'], MaxWait)

\* IconRegistration::add; a failure leaves the flag as it is.
Add(late) ==
    \E r \in AddOrModify(late) :
        /\ has' = r[2]
        /\ IF r[1] THEN Succeed ELSE Fail /\ UNCHANGED added

-----------------------------------------------------------------------------
(***************************************************************************)
(* Promotion.                                                              *)
(***************************************************************************)
StopPromote == attempts' = 0 /\ timer' = FALSE /\ UNCHANGED seen

\* promote_once: a look at the registry begins, which EndLook ends.
PromoteWith(tries) ==
    IF tries = 0 \/ ~added' THEN StopPromote
    ELSE /\ attempts' = tries - 1
         /\ seen' = value
         /\ UNCHANGED timer

\* try_promote_executable: a value that was seen to be absent is written.
EndLook ==
    /\ ~Idle /\ seen' = "idle"
    /\ value' = IF seen = "no value" THEN "shown" ELSE value
    /\ IF seen = "no key" /\ attempts > 0
       THEN timer' = TRUE /\ UNCHANGED attempts
       ELSE attempts' = 0 /\ timer' = FALSE
    /\ UNCHANGED <<shell, changes, phase, registration>>

PromoteTimer ==
    /\ running /\ Idle /\ timer
    /\ UNCHANGED <<shell, user, phase, registration>>
    /\ PromoteWith(attempts)

-----------------------------------------------------------------------------
Init ==
    /\ up \in BOOLEAN /\ has \in BOOLEAN /\ (has => up)
    /\ value \in Values
    /\ restarts = 0 /\ slow = 0 /\ changes = 0
    /\ phase = "starting" /\ added = FALSE /\ failures = 0 /\ wait = 0
    /\ attempts = 0 /\ timer = FALSE /\ seen = "idle"

\* AddTray: at the start, and when the taskbar was created again.
AddTray ==
    /\ phase # "ended" /\ phase' = "running" /\ Idle
    /\ \E late \in BOOLEAN : Late(late) /\ Add(late)
    /\ PromoteWith(MaxAttempts)
    /\ UNCHANGED user

\* Mutant: a registered icon that is refused stays registered.
ModifyTrusting ==
    /\ running /\ Idle
    /\ IF added
       THEN \E late \in BOOLEAN : \E r \in ModifyCall(has, late) :
              /\ Late(late) /\ has' = r[2]
              /\ IF r[1] THEN Succeed ELSE Fail /\ UNCHANGED added
       ELSE /\ wait = 0
            /\ \E late \in BOOLEAN : Late(late) /\ Add(late)
    /\ IF ~added /\ added' THEN PromoteWith(MaxAttempts) ELSE UNCHANGED promotion
    /\ UNCHANGED <<user, phase>>

\* ModifyTray, with each frame of the animation and each reading.
ModifyTray ==
    /\ running /\ Idle
    /\ IF added
       THEN \E late \in BOOLEAN : \E r \in ModifyCall(has, late) :
              /\ Late(late) /\ has' = r[2]
              /\ IF r[1] THEN Succeed ELSE added' = FALSE /\ Fail
       ELSE /\ wait = 0
            /\ \E late \in BOOLEAN : Late(late) /\ Add(late)
    /\ IF ~added /\ added' THEN PromoteWith(MaxAttempts) ELSE UNCHANGED promotion
    /\ UNCHANGED <<user, phase>>

\* RemoveTray.  The shell takes an icon away in the end, once it was asked to.
RemoveTray ==
    /\ running /\ Idle
    /\ phase' = "ended"
    /\ StopPromote
    /\ has' = (has /\ ~added)
    /\ added' = FALSE /\ failures' = 0 /\ wait' = 0
    /\ UNCHANGED <<up, restarts, slow, user>>

-----------------------------------------------------------------------------
Time ==
    /\ wait > 0 /\ wait' = wait - 1
    /\ UNCHANGED <<shell, user, phase, added, failures, promotion>>

\* The shell ends and comes back without the icon.
ShellEnds ==
    /\ up /\ restarts < MaxRestarts /\ restarts' = restarts + 1
    /\ up' = FALSE /\ has' = FALSE
    /\ UNCHANGED <<slow, user, phase, registration, promotion>>

ShellStarts ==
    /\ ~up /\ up' = TRUE
    /\ UNCHANGED <<has, restarts, slow, user, phase, registration, promotion>>

\* Explorer creates the key some time after it has the icon.
KeyCreated ==
    /\ has /\ value = "no key" /\ value' = "no value"
    /\ UNCHANGED <<shell, changes, phase, registration, promotion>>

\* The user moves the icon.
Choose ==
    /\ value # "no key" /\ changes < MaxChanges /\ changes' = changes + 1
    /\ ~Races => Idle
    /\ value' \in {"hidden", "shown"}
    /\ UNCHANGED <<shell, phase, registration, promotion>>

Next ==
    \/ AddTray \/ ModifyTray \/ RemoveTray
    \/ PromoteTimer \/ EndLook
    \/ Time \/ ShellEnds \/ ShellStarts \/ KeyCreated \/ Choose

\* Frames come and timers fire, time passes, the shell comes back and creates
\* the key.
Fairness ==
    /\ WF_vars(ModifyTray) /\ WF_vars(PromoteTimer) /\ WF_vars(EndLook)
    /\ WF_vars(Time) /\ WF_vars(ShellStarts) /\ WF_vars(KeyCreated)

Spec == Init /\ [][Next]_vars /\ Fairness

-----------------------------------------------------------------------------
\* While the program runs, its icon is there again after each restart of the
\* shell, each slow call and each icon that survived the last process, whether
\* or not the message about the taskbar came.
Registered == <>[](running => has /\ added)

\* After the exit no icon is left, unless a slow shell took one that it had
\* refused.
NoGhost == phase = "ended" /\ slow = 0 => ~has

\* An icon that the user hid is left alone: only the user shows it.
HiddenStays == [][value = "hidden" /\ value' # "hidden" => Choose]_vars

=============================================================================
