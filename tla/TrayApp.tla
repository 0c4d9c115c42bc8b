------------------------------ MODULE TrayApp ------------------------------
(***************************************************************************)
(* The application behind the tray icon: events of timers, of the menu and *)
(* of Windows change the application's state and leave it as effects on    *)
(* the menu, the timers and the icon, each of which keeps a copy of what   *)
(* it was told.  A choice in the menu is committed to the registry within  *)
(* the same event (SettingsCommit looks inside); here it is applied or     *)
(* refused.                                                                *)
(*                                                                         *)
(* A sample of the processor is its load, in whole per cent and smoothed   *)
(* already; the other readings, the frames of the dog and the balloons are *)
(* left out.                                                               *)
(***************************************************************************)
EXTENDS Naturals

CONSTANTS
    Loads,          \* loads that are sampled
    Themes, Limits, Modes,  \* the choices of the menu that are made
    Refusals,       \* may the registry refuse a choice?
    PaintFails,     \* may GDI fail to draw a number?
    EarlyChange     \* may Windows change its theme before there is a window?

VARIABLES
    desktop,    \* the theme of Windows, and whether a message about it waits
    told,
    fresh,      \* is the limit window that the usage names not over yet?
    phase,      \* no window yet, running, after the exit
    settings,   \* [theme, limit, mode, startup, update]
    system,     \* the theme of Windows as the application knows it
    rate,       \* of the animation: [limit, fps, load]
    reading,    \* what the tooltip says of the load
    usage,      \* the limit window of the usage snapshot
    menu,       \* the settings that the menu shows
    timers, interval,   \* timers of the window, that of the animation
    icon,       \* what the tray adapter was told last
    cache,      \* the number it drew last, with its theme
    image,      \* what the shell shows
    turn        \* auxiliary: the last change of the rate by a load

windows == <<desktop, told, fresh>>
app == <<phase, settings, system, rate, reading, usage>>
tray == <<icon, cache, image>>
vars == <<windows, app, menu, timers, interval, tray, turn>>

None == "--"
NoLoad == 101     \* before the first sample
Nothing == <<>>   \* no icon, number or picture yet
Periods == {"first", "second"}
running == phase = "running"
Fps == {5, 10, 15, 20, 30, 40}

ThemePreference == {"system", "light", "dark"}
FpsLimit == {10, 20, 30, 40}
TrayDisplayMode == {"dog", "cpu", "memory", "gpu", "claude_5h", "claude_week",
                    "fable_week", "codex_5h", "codex_week"}
Settings == [theme : ThemePreference, limit : FpsLimit, mode : TrayDisplayMode,
             startup : BOOLEAN, update : BOOLEAN]

\* show_menu: what the menu has a line for, as far as the choices are made.
Offered == [theme |-> Themes, limit |-> Limits, mode |-> Modes,
            startup |-> BOOLEAN, update |-> BOOLEAN]

\* The animation's: fps is one of the bands, and the load is 0 before a sample.
Rates == [limit : FpsLimit, fps : Fps, load : Loads \cup {0}]
Timers == {"cpu", "animation", "usage", "update"}
Colours == {"light", "dark"}

\* In milliseconds.
Interval(fps) == 1000 \div fps

Icons == [theme : Colours, mode : TrayDisplayMode, tooltip : Loads \cup {NoLoad},
          usage : Periods \cup {None}]

TypeOK ==
    /\ desktop \in Colours /\ system \in Colours
    /\ {told, fresh} \subseteq BOOLEAN
    /\ phase \in {"starting", "running", "ended"}
    /\ settings \in Settings /\ menu \in Settings
    /\ rate \in Rates
    /\ reading \in Loads \cup {NoLoad} /\ usage \in Periods \cup {None}
    /\ timers \subseteq Timers
    /\ interval \in {Interval(f) : f \in Fps} \cup {0}
    /\ icon \in Icons \cup {Nothing}

-----------------------------------------------------------------------------
(***************************************************************************)
(* The rate of the animation.                                              *)
(***************************************************************************)
Band == [f \in Fps |-> CASE f = 5 -> 0 [] f = 10 -> 10 [] f = 15 -> 30
                         [] f = 20 -> 55 [] f = 30 -> 75 [] f = 40 -> 90]

Desired(load, limit) ==
    CHOOSE f \in Fps : /\ f <= limit /\ Band[f] <= load
                       /\ \A g \in Fps : g <= limit /\ Band[g] <= load => g <= f

\* Mutant: no hysteresis.
ThresholdBare(current, desired) ==
    IF desired > current THEN Band[desired] ELSE Band[current]

Threshold(current, desired) ==
    IF desired > current THEN Band[desired] + 2
    ELSE IF Band[current] > 2 THEN Band[current] - 2 ELSE 0

Updated(r, load) ==
    LET want == Desired(load, r.limit)
        level == Threshold(r.fps, want)
        moves == \/ want > r.fps /\ load >= level
                 \/ want < r.fps /\ load < level
    IN  [r EXCEPT !.load = load, !.fps = IF moves THEN want ELSE @]

\* set_limit: a lower limit counts at once.
Limited(r, limit) ==
    LET want == Desired(r.load, limit) IN
    IF r.limit = limit THEN r
    ELSE IF want >= r.fps THEN Updated([r EXCEPT !.limit = limit], r.load)
    ELSE [r EXCEPT !.limit = limit, !.fps = want]

\* SetTimer is an effect only of another rate.
SetRate(r) ==
    /\ rate' = r
    /\ interval' = IF r.fps # rate.fps THEN Interval(r.fps) ELSE interval

-----------------------------------------------------------------------------
(***************************************************************************)
(* The icon.                                                               *)
(***************************************************************************)
Resolve(theme, sys) == IF theme = "system" THEN sys ELSE theme

IconNow == [theme |-> Resolve(settings.theme, system), mode |-> settings.mode,
            tooltip |-> reading, usage |-> usage]

Dog == <<"dog">>

\* format_tray_glyph
Glyph ==
    IF icon.mode = "cpu" THEN <<"cpu", icon.tooltip>>
    ELSE <<"claude_week", IF icon.usage # None /\ fresh THEN icon.usage ELSE None>>

Number == <<icon.theme, Glyph>>
DogOf(theme) == <<theme, Dog>>
Drawn == {Number} \cup IF PaintFails THEN {DogOf(icon.theme)} ELSE {}

\* icon_handle: a number that was drawn last is not drawn again; one that
\* cannot be drawn is replaced by the dog.
Paint ==
    IF icon'.mode = "dog" THEN image' = DogOf(icon'.theme) /\ UNCHANGED cache
    ELSE IF cache = Number' THEN image' = cache /\ UNCHANGED cache
    ELSE /\ image' \in Drawn'
         /\ cache' = IF image'[2] = Dog THEN cache ELSE image'

ModifyTray == icon' = IconNow' /\ Paint

-----------------------------------------------------------------------------
Init ==
    /\ desktop \in Colours /\ told = FALSE /\ fresh = TRUE
    /\ phase = "starting"
    /\ settings \in [theme : Themes, limit : Limits, mode : Modes,
                     startup : BOOLEAN, update : BOOLEAN]
    /\ system = desktop
    /\ rate = [limit |-> settings.limit, fps |-> 5, load |-> 0]
    /\ reading = NoLoad /\ usage = None
    /\ menu = settings /\ timers = {} /\ interval = 0
    /\ icon = Nothing /\ cache = Nothing /\ image = Nothing
    /\ turn = [way |-> "none", load |-> 0]

\* The window is there: start.
Start ==
    /\ phase = "starting" /\ phase' = "running"
    /\ menu' = settings
    /\ timers' = Timers
    /\ interval' = Interval(rate.fps)
    /\ UNCHANGED <<windows, settings, system, rate, reading, usage, turn>>
    /\ ModifyTray

\* handle_cpu_sample; no load comes of the first times, and of times that are
\* less than the last ones.
CpuSample ==
    /\ running /\ "cpu" \in timers
    /\ \E load \in Loads :
        /\ reading' = load
        /\ SetRate(Updated(rate, load))
        /\ turn' = IF rate'.fps = rate.fps THEN turn
                   ELSE [way |-> IF rate'.fps > rate.fps THEN "up" ELSE "down",
                         load |-> load]
    /\ UNCHANGED <<windows, phase, settings, system, usage, menu, timers>>
    /\ ModifyTray

AnimationTimerElapsed ==
    /\ running /\ "animation" \in timers
    /\ UNCHANGED <<windows, app, menu, timers, interval, turn>>
    /\ IF settings.mode = "dog" THEN ModifyTray ELSE UNCHANGED tray

-----------------------------------------------------------------------------
(***************************************************************************)
(* The menu.                                                               *)
(***************************************************************************)
\* Mutant: after a refusal the menu shows the choice.
FinishedUntold(new, applied) ==
    /\ menu' = new
    /\ settings' = IF applied THEN new ELSE settings

\* The menu is set from the settings in effect, whatever the outcome.
Finished(new, applied) ==
    /\ settings' = IF applied THEN new ELSE settings
    /\ menu' = settings'

Commit(new) ==
    /\ \E applied \in IF Refusals THEN BOOLEAN ELSE {TRUE} : Finished(new, applied)
    /\ SetRate(Limited(rate, settings'.limit))
    /\ turn' = IF rate'.limit = rate.limit THEN turn ELSE [way |-> "none", load |-> 0]
    /\ UNCHANGED <<windows, phase, system, reading, usage, timers>>
    /\ IF \/ Resolve(settings'.theme, system) # Resolve(settings.theme, system)
          \/ settings'.mode # settings.mode
       THEN ModifyTray
       ELSE UNCHANGED tray

\* The choice that is in effect already is no change.
Select(field) ==
    /\ running
    /\ \E v \in Offered[field] \ {settings[field]} : Commit([settings EXCEPT ![field] = v])

SelectTheme == Select("theme")
SelectFpsLimit == Select("limit")
SelectDisplayMode == Select("mode")
ToggleStartup == Select("startup")
ToggleAutoUpdate == Select("update")

-----------------------------------------------------------------------------
(***************************************************************************)
(* Windows and the usage collector.                                        *)
(***************************************************************************)
\* A window that is there gets a message.
ChangeTheme ==
    /\ phase = "starting" => EarlyChange
    /\ phase # "ended"
    /\ desktop' \in Colours \ {desktop}
    /\ told' = (phase = "running")
    /\ UNCHANGED <<fresh, app, menu, timers, interval, tray, turn>>

\* Mutant: the theme of Windows does not matter to one that was chosen.
SystemThemeIfFollowed ==
    /\ running /\ told /\ told' = FALSE
    /\ system' = IF settings.theme = "system" THEN desktop ELSE system
    /\ UNCHANGED <<desktop, fresh, phase, settings, rate, reading, usage, menu,
                   timers, interval, turn>>
    /\ IF IconNow'.theme = IconNow.theme THEN UNCHANGED tray ELSE ModifyTray

SystemThemeChanged ==
    /\ running /\ told /\ told' = FALSE
    /\ system' = desktop
    /\ UNCHANGED <<desktop, fresh, phase, settings, rate, reading, usage, menu,
                   timers, interval, turn>>
    /\ IF IconNow'.theme = IconNow.theme THEN UNCHANGED tray ELSE ModifyTray

\* tick_usage: also arms the timer again, after the exit, too, when the user
\* asked for a rescan right before it.
TickUsage ==
    /\ phase # "starting"
    /\ timers' = timers \cup {"usage"}
    /\ usage' \in IF running THEN Periods ELSE {usage}
    /\ fresh' = (fresh \/ usage' # usage)
    /\ UNCHANGED <<desktop, told, phase, settings, system, rate, reading, menu,
                   interval, turn>>
    /\ IF usage' = usage THEN UNCHANGED tray ELSE ModifyTray

\* The limit window that the snapshot names is over.
Expire ==
    /\ fresh /\ usage # None /\ fresh' = FALSE
    /\ UNCHANGED <<desktop, told, app, menu, timers, interval, tray, turn>>

TaskbarRecreated ==
    /\ running
    /\ UNCHANGED <<windows, app, menu, timers, interval, turn>>
    /\ ModifyTray

\* ExitRequested, by the menu, an installer or the end of the message loop.
Exit ==
    /\ phase # "starting" /\ phase' = "ended"
    /\ timers' = IF running THEN {} ELSE timers \ {"usage", "update"}
    /\ icon' = Nothing /\ cache' = Nothing /\ image' = Nothing
    /\ UNCHANGED <<windows, settings, system, rate, reading, usage, menu, interval, turn>>

Next ==
    \/ Start \/ CpuSample \/ AnimationTimerElapsed
    \/ SelectTheme \/ SelectFpsLimit \/ SelectDisplayMode
    \/ ToggleStartup \/ ToggleAutoUpdate
    \/ ChangeTheme \/ SystemThemeChanged \/ TickUsage \/ Expire
    \/ TaskbarRecreated \/ Exit

\* The timer of the processor fires, and a message comes.
Spec == Init /\ [][Next]_vars /\ WF_vars(CpuSample) /\ WF_vars(SystemThemeChanged)

-----------------------------------------------------------------------------
\* After each event the menu shows the settings in effect, whether the registry
\* took the last choice or refused it.
MenuTrue == running => menu = settings

\* The icon's colour and mode, its tooltip and the card's usage are those of the
\* application after each event: no change of a setting, of Windows or of a
\* sample is left untold.
IconTrue == running => icon = IconNow

\* The picture is of that colour and mode, or the dog where a number could not
\* be drawn; a load that is drawn is the load of the tooltip.
ImageTrue ==
    running => /\ image[1] = icon.theme
               /\ \/ image[2] = Dog
                  \/ image[2] = <<"cpu", reading>> /\ icon.mode = "cpu"
                  \/ image[2] \in {<<"claude_week", usage>>, <<"claude_week", None>>} /\ icon.mode = "claude_week"

\* The timer runs at the rate, and the rate keeps the limit in effect.
TimerTrue ==
    running => /\ {"cpu", "animation", "update"} \subseteq timers
               /\ interval = Interval(rate.fps)
               /\ rate.limit = settings.limit /\ rate.fps <= settings.limit

\* After the exit there is no icon and no timer but the collector's.
Ended == phase = "ended" => icon = Nothing /\ timers \subseteq {"usage"}

\* A load that wavers by two per cent does not turn the rate back and forth.
Steady ==
    \A up \in BOOLEAN :
        LET way == IF up THEN "up" ELSE "down" IN
        turn.way \notin {"none", way} /\ turn'.way = way
            => IF up THEN turn'.load > turn.load + 2 ELSE turn.load > turn'.load + 2
NoWobble == [][Steady]_vars

\* The application follows the theme of Windows.
ThemeFollows == (running /\ system # desktop) ~> (~running \/ system = desktop)
=============================================================================
