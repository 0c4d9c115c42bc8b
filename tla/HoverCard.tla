------------------------------ MODULE HoverCard ------------------------------
(***************************************************************************)
(* The monitor card: it shows while the pointer rests on the tray icon, or *)
(* all the time when it is pinned.  The shell tells of the pointer by      *)
(* messages, not all of which come on every Windows; a timer polls while   *)
(* the pointer is over the icon.  The menu runs a message loop of its own, *)
(* in which the same window handles further messages.  Opening the card    *)
(* may start a thread that measures the providers' directories, which the  *)
(* card polls by a timer of its own.                                       *)
(***************************************************************************)
EXTENDS Naturals, Sequences

CONSTANTS
    QuickClicks,    \* does the user click the icon while the menu is opening?
    MenusFail,      \* may Windows refuse to create a menu?
    MaxInputs       \* bound: what the user and the shell do

VARIABLES
    pointer,    \* is the pointer over the icon?
    queue,      \* messages posted to the window
    inputs,     \* how many there were of the user and the shell
    running,    \* is there an icon, that is, was there no exit?
    pinned,     \* what the menu and the registry say of the pin
    hover,      \* the hover timer: off, on, on for the delay and longer
    card,       \* the card: is it pinned, its window, its measurement and
                \* whether that is recent; was it hidden, and only the end of a
                \* measurement showed it again?
    menu,       \* none, or the open menu, with what to restore after it
    restore

vars == <<pointer, queue, inputs, running, pinned, hover, card, menu, restore>>

Messages == {"move", "open", "close", "select", "context", "menu", "toggle",
             "created", "exit"}

\* HoverFlyout; what it is handed to show is CardLayout's.
Cards == [pinned : BOOLEAN, window : {"none", "hidden", "shown"},
          scan : {"none", "running", "sent", "lost"}, recent : BOOLEAN,
          again : BOOLEAN]

TypeOK ==
    /\ {pointer, running, pinned, restore} \subseteq BOOLEAN
    /\ queue \in Seq(Messages)
    /\ inputs \in 0..MaxInputs
    /\ hover \in {"off", "on", "long"}
    /\ card \in Cards
    /\ card.window = "none" => card.scan = "none"
    /\ menu \in {"none", "open"}

-----------------------------------------------------------------------------
(***************************************************************************)
(* The card.                                                               *)
(***************************************************************************)
\* start_disk_scan: a thread that does not start is tried again later.
ScanStarted(c) ==
    IF c.scan # "none" \/ c.recent THEN {c}
    ELSE {c, [c EXCEPT !.scan = "running"]}

\* show_near_icon.
Shown(c) == ScanStarted([c EXCEPT !.window = "shown", !.again = FALSE])

Hidden(c) == [c EXCEPT !.window = IF @ = "none" THEN @ ELSE "hidden", !.again = FALSE]

HiddenUnlessPinned(c) == IF c.pinned THEN c ELSE Hidden(c)

\* show_pinned_flyout.
ShownPinned(c) == IF running THEN Shown([c EXCEPT !.pinned = TRUE]) ELSE {c}

Destroyed(c) == [c EXCEPT !.pinned = FALSE, !.window = "none", !.scan = "none",
                          !.again = FALSE]

\* place_near_icon moves a window, and shows it: SWP_SHOWWINDOW.
Placed(c) == [c EXCEPT !.window = IF @ = "none" THEN @ ELSE "shown",
                       !.again = @ \/ c.window = "hidden"]

NewCard == [pinned |-> FALSE, window |-> "none", scan |-> "none", recent |-> FALSE,
            again |-> FALSE]

\* The card may have been pinned when the program ended last.
Init ==
    /\ pointer = FALSE /\ queue = <<>> /\ inputs = 0 /\ running = TRUE
    /\ pinned \in BOOLEAN /\ hover = "off"
    /\ card \in IF pinned THEN Shown([NewCard EXCEPT !.pinned = TRUE]) ELSE {NewCard}
    /\ menu = "none" /\ restore = FALSE

-----------------------------------------------------------------------------
(***************************************************************************)
(* The user and the shell.                                                 *)
(***************************************************************************)
Input ==
    /\ inputs < MaxInputs /\ inputs' = inputs + 1
    /\ UNCHANGED <<running, pinned, hover, card, menu, restore>>

\* Windows 11 22H2 may send only the movement.
Enter ==
    /\ Input /\ ~pointer /\ pointer' = TRUE
    /\ \E told \in {<<"move">>, <<"move", "open">>} : queue' = queue \o told

Leave ==
    /\ Input /\ pointer /\ pointer' = FALSE
    /\ \E told \in {<<>>, <<"close">>} : queue' = queue \o told

MenuComing ==
    menu = "open" \/ \E i \in DOMAIN queue : queue[i] \in {"context", "menu"}

Click ==
    /\ Input /\ pointer /\ UNCHANGED pointer
    /\ ~QuickClicks => ~MenuComing
    /\ \E button \in {"select", "context"} : queue' = Append(queue, button)

\* Explorer starts again, or an installer asks for the exit.
Post ==
    /\ Input /\ UNCHANGED pointer
    /\ \E m \in {"created", "exit"} : queue' = Append(queue, m)

-----------------------------------------------------------------------------
(***************************************************************************)
(* The message loop, or the menu's, takes a message.                       *)
(***************************************************************************)
Take(m) == queue # <<>> /\ Head(queue) = m

Closed ==
    /\ Take("close") /\ queue' = Tail(queue)
    /\ hover' = "off" /\ card' = HiddenUnlessPinned(card)
    /\ UNCHANGED <<pointer, inputs, running, pinned, menu, restore>>

\* handle_hover.
Opened ==
    \E m \in {"open", "move"} :
        /\ Take(m) /\ queue' = Tail(queue)
        /\ card' \in IF m = "open" /\ running THEN Shown(card) ELSE {card}
        /\ hover' = IF running /\ ~card'.pinned /\ hover = "off" THEN "on" ELSE hover
        /\ UNCHANGED <<pointer, inputs, running, pinned, menu, restore>>

\* Mutant: the card itself is not told of its pin.
ToggleUntold ==
    \E m \in {"select", "toggle"} :
        /\ Take(m) /\ queue' = Tail(queue)
        /\ hover' = "off" /\ pinned' = ~pinned
        /\ card' \in IF pinned' /\ running THEN Shown(card) ELSE {Hidden(card)}
        /\ UNCHANGED <<pointer, inputs, running, menu, restore>>

\* toggle_pinned_flyout, by a click or by the menu's command.
Toggle ==
    \E m \in {"select", "toggle"} :
        /\ Take(m) /\ queue' = Tail(queue)
        /\ hover' = "off" /\ pinned' = ~pinned
        /\ card' \in IF pinned' THEN ShownPinned([card EXCEPT !.pinned = TRUE])
                                ELSE {Hidden([card EXCEPT !.pinned = FALSE])}
        /\ UNCHANGED <<pointer, inputs, running, menu, restore>>

\* The menu is opened by a message, after the button is up.
Context ==
    /\ Take("context") /\ queue' = Append(Tail(queue), "menu")
    /\ UNCHANGED <<pointer, inputs, running, pinned, hover, card, menu, restore>>

\* show_menu up to its own message loop.
OpenMenu ==
    /\ Take("menu") /\ menu = "none" /\ queue' = Tail(queue)
    /\ hover' = "off" /\ card' = Hidden(card)
    /\ restore' = pinned
    /\ menu' \in IF MenusFail THEN {"none", "open"} ELSE {"open"}
    /\ UNCHANGED <<pointer, inputs, running, pinned>>

\* Windows tracks one menu at a time: a second one is over at once.
OpenSecond ==
    /\ Take("menu") /\ menu = "open" /\ queue' = Tail(queue)
    /\ hover' = "off"
    /\ card' \in IF pinned THEN ShownPinned(Hidden(card)) ELSE {Hidden(card)}
    /\ UNCHANGED <<pointer, inputs, running, pinned, menu, restore>>

\* The menu closes; its command, if any, is posted.
Dismiss ==
    /\ menu = "open" /\ menu' = "none"
    /\ \E command \in {<<>>, <<"toggle">>, <<"exit">>} : queue' = queue \o command
    /\ card' \in IF restore THEN ShownPinned(card) ELSE {card}
    /\ restore' = FALSE
    /\ UNCHANGED <<pointer, inputs, running, pinned, hover>>

\* Explorer was started again: AddTray, if the program runs.
Recreated ==
    /\ Take("created") /\ queue' = Tail(queue)
    /\ card' \in IF running /\ pinned THEN ShownPinned(card) ELSE {card}
    /\ UNCHANGED <<pointer, inputs, running, pinned, hover, menu, restore>>

\* RemoveTray.
Exit ==
    /\ Take("exit") /\ queue' = Tail(queue)
    /\ running' = FALSE
    /\ card' = IF running THEN Destroyed(card) ELSE card
    /\ hover' = IF running THEN "off" ELSE hover
    /\ UNCHANGED <<pointer, inputs, pinned, menu, restore>>

-----------------------------------------------------------------------------
(***************************************************************************)
(* Timers, whose messages come when no other message waits.                *)
(***************************************************************************)
Delay ==
    /\ hover = "on" /\ hover' = "long"
    /\ UNCHANGED <<pointer, queue, inputs, running, pinned, card, menu, restore>>

\* hover_action.
HoverAction ==
    IF ~pointer \/ card.pinned THEN "stop"
    ELSE IF card.window = "shown" \/ hover = "on" THEN "wait" ELSE "show"

\* Mutant: the timer ends without a look at the card.
HoverTimerStops ==
    /\ queue = <<>> /\ hover # "off"
    /\ hover' = IF HoverAction = "stop" THEN "off" ELSE hover
    /\ card' \in IF HoverAction = "show" THEN Shown(card) ELSE {card}
    /\ UNCHANGED <<pointer, queue, inputs, running, pinned, menu, restore>>

\* on_hover_timer.
HoverTimer ==
    /\ queue = <<>> /\ hover # "off"
    /\ hover' = IF HoverAction = "stop" THEN "off" ELSE hover
    /\ card' \in CASE HoverAction = "stop" -> {HiddenUnlessPinned(card)}
                   [] HoverAction = "wait" -> {card}
                   [] HoverAction = "show" -> Shown(card)
    /\ UNCHANGED <<pointer, queue, inputs, running, pinned, menu, restore>>

\* The thread sends what it measured, or dies.
Measured ==
    /\ card.scan = "running"
    /\ \E end \in {"sent", "lost"} : card' = [card EXCEPT !.scan = end]
    /\ UNCHANGED <<pointer, queue, inputs, running, pinned, hover, menu, restore>>

\* poll_disk_scan.
DiskTimer ==
    /\ queue = <<>> /\ card.scan \in {"sent", "lost"}
    /\ card' = Placed([card EXCEPT !.scan = "none",
                                   !.recent = @ \/ card.scan = "sent"])
    /\ UNCHANGED <<pointer, queue, inputs, running, pinned, hover, menu, restore>>

\* Ten minutes later.
Outdated ==
    /\ card.recent /\ card' = [card EXCEPT !.recent = FALSE]
    /\ UNCHANGED <<pointer, queue, inputs, running, pinned, hover, menu, restore>>

-----------------------------------------------------------------------------
Receive ==
    \/ Closed \/ Opened \/ Toggle \/ Context \/ OpenMenu \/ OpenSecond
    \/ Recreated \/ Exit

Next ==
    \/ Enter \/ Leave \/ Click \/ Post
    \/ Receive \/ Dismiss
    \/ Delay \/ HoverTimer \/ Measured \/ DiskTimer \/ Outdated

\* The loop takes its messages, timers fire, a thread comes to an end.  The user
\* owes nothing.
Fairness == WF_vars(Receive) /\ WF_vars(HoverTimer) /\ WF_vars(DiskTimer) /\ WF_vars(Measured)

Spec == Init /\ [][Next]_vars /\ Fairness

-----------------------------------------------------------------------------
\* Outside the menu, the card is pinned exactly if the menu and the registry
\* say so: the flag is kept twice, and the menu restores one from a copy.
PinAgrees == menu = "none" /\ running => card.pinned = pinned

\* A pinned card is shown, unless the menu is open: clicks, hovering, the menu,
\* the measurement and Explorer leave it there.
PinnedShown == menu = "none" /\ running /\ pinned => card.window = "shown"

\* Messages that were under way at the exit bring back neither the card nor a
\* timer.
NothingAfterExit ==
    ~running => card.window = "none" /\ card.scan = "none" /\ hover = "off"

\* What is left of the card when the pointer is elsewhere: it is shown although it
\* is not pinned, or its timer runs.
Lingers == ~pointer /\ (hover # "off" \/ (card.window = "shown" /\ ~card.pinned))

\* The timer polls so that "a missing NIN_POPUPCLOSE cannot leave the card visible
\* or a timer running forever" (on_hover_timer).
NoneLeft == []<>~Lingers
=============================================================================
