------------------------------ MODULE MCDesk ------------------------------
(***************************************************************************)
(* What the user sees, for TLC: the hover card with its timers and the     *)
(* menu (HoverCard), where the card is placed (CardLayout), the            *)
(* registration of the icon with the shell (TrayIcon), and what the        *)
(* application tells the tray (TrayApp).  A behaviour is of one of them;   *)
(* the others stay where they began.  The card and the application are     *)
(* looked at twice, each time with a part of what they may meet: with and  *)
(* without measurements of the directories, with the choices of the menu   *)
(* and with many loads.                                                    *)
(***************************************************************************)
EXTENDS MCCardLayout

CONSTANTS
    \* bounds: inputs of the user and the shell, fewer of them with measurements
    MaxInputs, MaxScanInputs,
    \* bounds of TrayIcon
    MaxWait, MaxAttempts, MaxRestarts, MaxSlow, MaxChanges,
    \* the choices of the menu, and the loads that are sampled
    Themes, Limits, Modes, Loads,
    \* of them those that are looked at together with the choices
    AppLimits, AppLoads

\* A load is a percentage.  TrayApp's pictures tell the modes of Modes apart.
ASSUME DeskAssumption ==
    /\ {MaxInputs, MaxScanInputs, MaxAttempts, MaxRestarts, MaxSlow, MaxChanges} \subseteq Nat
    /\ MaxWait \in Nat \ {0}
    /\ Loads \subseteq 0..100
    /\ Themes \subseteq {"system", "light", "dark"}
    /\ Limits \subseteq {10, 20, 30, 40}
    /\ Modes \subseteq {"dog", "cpu", "claude_week"}

VARIABLES view,       \* the module this behaviour is of
          pointer, queue, inputs, running, pinned, hover, card, cardMenu, restore,
          up, has, value, restarts, slow, changes, iconPhase, added, failures, wait,
          attempts, timer, seen,
          desktop, told, fresh, appPhase, settings, system, rate, reading, usage,
          appMenu, timers, interval, icon, cache, image, turn

cardVars == <<pointer, queue, inputs, running, pinned, hover, card, cardMenu, restore>>
iconVars == <<up, has, value, restarts, slow, changes, iconPhase, added, failures, wait,
              attempts, timer, seen>>
appVars == <<desktop, told, fresh, appPhase, settings, system, rate, reading, usage,
             appMenu, timers, interval, icon, cache, image, turn>>
deskVars == <<view, vars, cardVars, iconVars, appVars>>

Card == INSTANCE HoverCard WITH
    QuickClicks <- FALSE, MenusFail <- FALSE, menu <- cardMenu

Icon == INSTANCE TrayIcon WITH Races <- FALSE, phase <- iconPhase

App == INSTANCE TrayApp WITH
    Refusals <- TRUE, PaintFails <- TRUE, EarlyChange <- FALSE,
    phase <- appPhase, menu <- appMenu

-----------------------------------------------------------------------------
\* Where each module stays while a behaviour is of another one.
LayoutAtRest ==
    /\ dpi = 96 /\ desk = CHOOSE d \in Desks : d.icon = NoIcon
    /\ state = CHOOSE c \in Contents : ~c.gpu /\ c.scanning = FALSE /\ ~c.of["codex"].month
CardAtRest == ~pinned
IconAtRest == ~up /\ ~has /\ value = CHOOSE v \in Icon!Values : TRUE
AppAtRest ==
    /\ desktop = "dark"
    /\ settings = [theme |-> "system", limit |-> 40, mode |-> "dog",
                   startup |-> FALSE, update |-> FALSE]

\* The part of a module that a behaviour of each view looks at.
Measuring == inputs <= MaxScanInputs
NotMeasuring == ~pinned /\ card.scan = "none"
Choosing ==
    /\ settings.limit \in AppLimits /\ reading \in AppLoads \cup {App!NoLoad}
    /\ ~(settings.startup /\ settings.update)
Loaded == settings.theme = "light" /\ settings.mode = "dog" /\ ~settings.startup /\ ~settings.update

Views == {"card", "scan", "icon", "app", "rate", "layout"}

DeskInit ==
    /\ view \in Views
    /\ Init /\ Card!Init /\ Icon!Init /\ App!Init
    /\ view # "layout" => LayoutAtRest
    /\ view # "scan" => CardAtRest
    /\ view # "icon" => IconAtRest
    /\ CASE view = "app" -> Choosing [] view = "rate" -> Loaded
         [] view \notin {"app", "rate"} -> AppAtRest

OfLayout(A) == view = "layout" /\ A /\ UNCHANGED <<view, cardVars, iconVars, appVars>>
OfCard(A) == view = "card" /\ A /\ card.scan' = "none" /\ UNCHANGED <<view, vars, iconVars, appVars>>
OfScan(A) == view = "scan" /\ A /\ Measuring' /\ UNCHANGED <<view, vars, iconVars, appVars>>
OfIcon(A) == view = "icon" /\ A /\ UNCHANGED <<view, vars, cardVars, appVars>>
OfApp(A) == view = "app" /\ A /\ Choosing' /\ UNCHANGED <<view, vars, cardVars, iconVars>>
OfRate(A) == view = "rate" /\ A /\ Loaded' /\ UNCHANGED <<view, vars, cardVars, iconVars>>

DeskNext ==
    \/ OfLayout(Next) \/ OfCard(Card!Next) \/ OfScan(Card!Next)
    \/ OfIcon(Icon!Next) \/ OfApp(App!Next) \/ OfRate(App!Next)

\* The fairness of the modules.  At most one of the alternatives of each line is
\* ever enabled in a behaviour, that of its view: so the line says of each of
\* them what the fairness of its module does.
Messages == OfCard(Card!Receive) \/ OfScan(Card!Receive) \/ OfIcon(Icon!ModifyTray)
                \/ OfApp(App!CpuSample) \/ OfLayout(\E c \in Contents : SetState(c))
Timers == OfCard(Card!HoverTimer) \/ OfScan(Card!HoverTimer) \/ OfIcon(Icon!PromoteTimer)
                \/ OfApp(App!SystemThemeChanged)
Threads == OfScan(Card!Measured) \/ OfIcon(Icon!EndLook)
Polls == OfScan(Card!DiskTimer) \/ OfIcon(Icon!Time)

Fairness ==
    /\ WF_deskVars(Messages) /\ WF_deskVars(Timers)
    /\ WF_deskVars(Threads) /\ WF_deskVars(Polls)
    /\ WF_deskVars(OfIcon(Icon!ShellStarts)) /\ WF_deskVars(OfIcon(Icon!KeyCreated))

DeskSpec ==
    DeskInit /\ [][DeskNext]_deskVars /\ Fairness
-----------------------------------------------------------------------------
\* The pin is one, although it is kept twice: outside the menu the card is
\* pinned if the menu says so, and then it is shown; after the exit neither it
\* nor a timer comes back (Flyout, UiState): see HoverCard.
CardTrue == Card!TypeOK /\ Card!PinAgrees /\ Card!PinnedShown /\ Card!NothingAfterExit

\* What lasts too long: a card that is not pinned, or its timer, after the
\* pointer left, unless only the end of a measurement showed it again; a
\* measurement; the tries to promote the icon; a place for another desk or
\* another content; a limit on the icon that is over.
Unsettled ==
    \/ view \in {"card", "scan"} /\ Card!Lingers /\ (hover = "off" => ~card.again)
    \/ view = "scan" /\ card.scan # "none"
    \/ view = "icon" /\ timer
    \/ view = "layout" /\ shown /\ window # PlacedAt(window.w, window.h)
    \/ view = "app" /\ App!running /\ ~fresh /\ image[2] = <<"claude_week", usage>>

\* None of it stays (hover_timer, disk_timer, promote_timer, sample_cpu).
DeskSettles == []<>~Unsettled

\* The icon is there again after whatever Explorer did, and one that the user hid
\* is left alone (modify_tray, add_tray, promote): see TrayIcon.
IconKept == (view = "icon" => Icon!Registered) /\ Icon!HiddenStays

\* After each event the menu, the icon, its picture and the timers are those of
\* the settings and the samples in effect, and no icon is left after the exit
\* (dispatch, icon_handle, remove): see TrayApp and TrayIcon.
AppTrue ==
    /\ App!TypeOK /\ App!MenuTrue /\ App!IconTrue /\ App!ImageTrue /\ App!TimerTrue /\ App!Ended
    /\ Icon!TypeOK /\ Icon!NoGhost

\* The theme of Windows reaches the application (theme_message): see TrayApp.
IconFollows == view = "app" => App!ThemeFollows

\* A load that wavers does not turn the rate back and forth (target_fps): see
\* TrayApp.
NoWobble == App!NoWobble

\* The card is large enough for what is drawn into it, in the work area and not
\* over the icon (window_size, position): see CardLayout.
CardFits == []TypeOK /\ []Fits /\ []Apart /\ PlacedWell
=============================================================================
