----------------------------- MODULE CardLayout -----------------------------
(***************************************************************************)
(* Where the monitor card is placed and what is painted on it              *)
(* (windows/flyout.rs).  The window is sized and placed by one procedure   *)
(* (place_near_icon, from the rows visible at that moment) and painted     *)
(* later by another (paint, from the rows visible then); each of the two   *)
(* adds up the same layout in its own way and its own rounding.            *)
(*                                                                         *)
(* Coordinates are virtual-screen pixels and may be negative.  Colours,    *)
(* fonts and texts are left out: a text fills the line it is given, and    *)
(* Windows cuts it there.                                                  *)
(***************************************************************************)
EXTENDS Integers, FiniteSets

CONSTANTS Dpis,       \* the resolutions a session may run at
          Desks,      \* taskbar arrangements: [icon, area, cursor]
          Contents,   \* what the application may hand to the card
          MaxNow      \* bound: the clock

\* A resolution is positive (window_dpi), and a work area is not empty.
ASSUME DpisAssumption == Dpis \subseteq Nat \ {0}
ASSUME MaxNowAssumption == MaxNow \in Nat

Rect == [left: Int, top: Int, right: Int, bottom: Int]
NoIcon == [left |-> 0, top |-> 0, right |-> -1, bottom |-> -1]

Provider == {"claude", "codex"}

ASSUME DesksAssumption ==
    \A d \in Desks : /\ d.icon \in Rect
                     /\ d.area \in Rect
                     /\ d.cursor \in Int \X Int

\* month: the provider has usage this month; until: the time at which the last
\* of its limit windows with usage ends; fable, banked: lines of its own.
ASSUME ContentsAssumption ==
    Contents \subseteq
        [gpu: BOOLEAN, scanning: BOOLEAN,
         of: [Provider -> [month: BOOLEAN, until: Nat, fable: BOOLEAN, banked: BOOLEAN]]]

VARIABLES dpi, desk, now,
          state,      \* what the card was last given
          shown,      \* IsWindowVisible
          window,     \* where the card was last placed: [x, y, w, h]
          painted     \* what the last WM_PAINT drew: bottoms, from the top

vars == <<dpi, desk, now, state, shown, window, painted>>
-----------------------------------------------------------------------------
\* Layout.

Px(v) == (v * dpi) \div 96
If(b, v) == IF b THEN v ELSE 0

InUse(p) == state.of[p].month \/ now < state.of[p].until
Visible(p) == InUse(p) \/ state.scanning

Extra(p) == If(state.of[p].fable, 24) + If(state.of[p].banked, 15)
BlockUnits(p) == If(Visible(p), 125 + Extra(p))
Width == Px(320)
Height == Px(273 + If(state.gpu, 86) + BlockUnits("claude") + BlockUnits("codex"))

Title == Px(18)
Detail == Px(15)
Bar == Px(6)
Gap == Px(8) + Px(9)
Pad == Px(16)
TextRow == Title + Detail * 3 + Px(6)
StorageRow == Title + Detail + Bar + Px(10)

Metrics(p) == 2 + If(state.of[p].fable, 1)
BlockHeight(p) ==
    Title + (Detail + Bar + Px(3)) * Metrics(p) + If(state.of[p].banked, Detail) + Detail * 2 + Px(2)
\* Where the last line of a block ends: each metric leaves a pixel above its bar.
MetricDrawn == Detail + Px(1) + Bar + Px(3)
BlockDrawn(p) ==
    Title + Px(2) + MetricDrawn * Metrics(p)
        + If(state.of[p].banked, Detail) + Detail * 2

\* Tops of the rows, from the top of the card: a row, its separator, the next row.
StorageTop == Pad + (TextRow + Gap) * (2 + If(state.gpu, 1))
ClaudeTop == StorageTop + StorageRow + Gap
CodexTop == ClaudeTop + If(Visible("claude"), BlockHeight("claude") + Gap)
BlocksEnd == CodexTop + If(Visible("codex"), BlockHeight("codex") + Gap)
\* The separator under the last block has less room below it than the others.
SelfTop == BlocksEnd - If(\E p \in Provider : Visible(p), Px(9) - Px(8))

SelfRow == Detail

BlockTop(p) == IF p = "claude" THEN ClaudeTop ELSE CodexTop
Separator(p) == BlockTop(p) + BlockHeight(p) + Px(8)
-----------------------------------------------------------------------------
\* Placement.

Clamp(v, lo, hi) == IF v < lo THEN lo ELSE IF v > hi THEN hi ELSE v
Margin == 8

\* position_flyout: above the origin, or below the icon where there is no room
\* above; within the work area.
PositionX(origin, w, area) ==
    LET lo == area.left + Margin
        hi == area.right - w - Margin
    IN  IF hi >= lo THEN Clamp(origin[1] - w \div 2, lo, hi) ELSE area.left

\* Mutant: the room above the icon is not looked at.
PositionYAbove(origin, icon, h, area) == Clamp(origin[2] - h - Margin, area.top, area.bottom - h)
PositionY(origin, icon, h, area) ==
    LET above == origin[2] - h - Margin
        below == IF icon # NoIcon THEN icon.bottom + Margin ELSE origin[2] + 16
        y     == IF above < area.top THEN below ELSE above
        hi    == area.bottom - h
    IN  IF hi >= area.top THEN Clamp(y, area.top, hi) ELSE area.top

\* Rust divides toward zero.
Half(n) == IF n >= 0 THEN n \div 2 ELSE -((-n) \div 2)

\* position_near_icon: the middle of the icon's top edge, or the cursor.
Origin ==
    IF desk.icon # NoIcon
    THEN <<Half(desk.icon.left + desk.icon.right), desk.icon.top>>
    ELSE desk.cursor

\* monitor_work_area: of the monitor nearest to the origin.
WorkArea == desk.area

PlacedAt(w, h) ==
    [x |-> PositionX(Origin, w, WorkArea),
     y |-> PositionY(Origin, desk.icon, h, WorkArea), w |-> w, h |-> h]

\* place_near_icon, for the content and the time of the next state.
Place == /\ window' = PlacedAt(Width, Height)'
         /\ shown' = TRUE
-----------------------------------------------------------------------------
NothingPainted == [self |-> 0, drawn |-> [p \in Provider |-> 0], line |-> [p \in Provider |-> 0]]

Init ==
    /\ dpi \in Dpis
    /\ desk \in Desks
    /\ now = 0
    /\ state \in Contents
    /\ shown = FALSE
    /\ window = [x |-> 0, y |-> 0, w |-> 0, h |-> 0]
    /\ painted = NothingPainted

\* The application hands over new readings; a visible card is placed again.
SetState(c) ==
    /\ state' = c
    /\ UNCHANGED <<dpi, desk, now, painted>>
    /\ IF shown THEN Place ELSE UNCHANGED <<shown, window>>

Show ==
    /\ ~shown
    /\ UNCHANGED <<dpi, desk, now, state, painted>>
    /\ Place

Hide ==
    /\ shown
    /\ shown' = FALSE
    /\ UNCHANGED <<dpi, desk, now, state, window, painted>>

\* A measurement of the directories ended: the window is placed, and so shown.
DiskTimer ==
    /\ UNCHANGED <<dpi, desk, now, state, painted>>
    /\ Place

Paint ==
    /\ shown
    /\ painted' = [self |-> SelfTop + SelfRow,
                   drawn |-> [p \in Provider |-> If(Visible(p), BlockTop(p) + BlockDrawn(p))],
                   line |-> [p \in Provider |-> If(Visible(p), Separator(p))]]
    /\ UNCHANGED <<dpi, desk, now, state, shown, window>>

\* Time passes: limit windows end.
Tick ==
    /\ now < MaxNow
    /\ now' = now + 1
    /\ UNCHANGED <<dpi, desk, state, shown, window, painted>>

\* The taskbar or the icon moves; the card learns of it when it is placed next.
MoveTaskbar ==
    /\ \E d \in Desks : d # desk /\ desk' = d
    /\ UNCHANGED <<dpi, now, state, shown, window, painted>>

Next ==
    \/ \E c \in Contents : SetState(c)
    \/ Show \/ Hide \/ DiskTimer \/ Paint \/ Tick \/ MoveTaskbar

\* The application samples every two seconds and Windows repaints what is invalid.
Spec == Init /\ [][Next]_vars /\ WF_vars(\E c \in Contents : SetState(c))
-----------------------------------------------------------------------------
TypeOK ==
    /\ dpi \in Dpis /\ desk \in Desks /\ now \in 0..MaxNow /\ state \in Contents
    /\ shown \in BOOLEAN
    /\ window \in [x: Int, y: Int, w: Int, h: Int]
    /\ painted \in [self: Int, drawn: [Provider -> Int], line: [Provider -> Int]]

\* What WM_PAINT is about to draw fits the window it draws in, whatever was
\* handed over and however much time passed since the window was sized, at
\* every resolution (window_size and extra_usage_block_units against paint
\* and usage_block_height).
Fits == shown => SelfTop + SelfRow <= window.h

\* No line of a provider's block reaches into the separator drawn under the block
\* (both are rows of pixels from the top; a bottom is the row after the last).
Apart == \A p \in Provider : painted.line[p] > 0 => painted.drawn[p] <= painted.line[p]

Overlap(w, r) ==
    /\ w.x < r.right /\ r.left < w.x + w.w
    /\ w.y < r.bottom /\ r.top < w.y + w.h

FitsIn(area) == window.w + 2 * Margin <= area.right - area.left
                /\ window.h <= area.bottom - area.top
Room(icon, area) ==
    \/ icon.top - window.h - Margin >= area.top
    \/ /\ icon.bottom + Margin >= area.top
       /\ icon.bottom + Margin + window.h <= area.bottom

\* Placing the card puts it into the work area it fits in and, where there is
\* room above or below the icon, not over the icon.
WellPlaced ==
    window' # window =>
        /\ FitsIn(desk.area)' =>
               /\ window'.x >= desk.area.left /\ window'.x + window'.w <= desk.area.right
               /\ window'.y >= desk.area.top /\ window'.y + window'.h <= desk.area.bottom
        /\ (desk.icon # NoIcon /\ Room(desk.icon, desk.area)') => ~Overlap(window', desk.icon)
PlacedWell == [][WellPlaced]_vars

=============================================================================
