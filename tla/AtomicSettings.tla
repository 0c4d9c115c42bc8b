--------------------------- MODULE AtomicSettings ---------------------------
(***************************************************************************)
(* What a settings commit promises: a change the user asks for takes       *)
(* effect at one instant or not at all, and the menus show only content    *)
(* that is in effect.  No crash, failing call or late answer is visible.   *)
(***************************************************************************)
CONSTANTS Values, None

VARIABLES
    value,   \* the settings in effect: what a restart would show
    wish,    \* the change that is being decided, or None
    shown    \* the settings the user sees

vars == <<value, wish, shown>>

Init ==
    /\ value \in Values
    /\ wish = None
    /\ shown = value

Ask ==
    /\ wish = None
    /\ shown = value
    /\ wish' \in Values \ {value}
    /\ UNCHANGED <<value, shown>>

Take ==
    /\ wish # None
    /\ value' = wish
    /\ wish' = None
    /\ UNCHANGED shown

Drop ==
    /\ wish # None
    /\ wish' = None
    /\ UNCHANGED <<value, shown>>

Show ==
    /\ wish = None
    /\ shown' = value
    /\ UNCHANGED <<value, wish>>

Next == Ask \/ Take \/ Drop \/ Show

Spec == Init /\ [][Next]_vars
=============================================================================
