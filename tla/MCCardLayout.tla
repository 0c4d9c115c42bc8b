--------------------------- MODULE MCCardLayout ---------------------------
\* Instances of CardLayout.
EXTENDS CardLayout

R(l, t, r, b) == [left |-> l, top |-> t, right |-> r, bottom |-> b]

\* The taskbar below, above (hiding by itself, so that it is part of the work
\* area) and at the left of a monitor left of the primary one, no icon, and a monitor that is smaller than the card.
MCDesks ==
    { [icon |-> R(1600, 1052, 1624, 1076), area |-> R(0, 0, 1920, 1032), cursor |-> <<0, 0>>],
      [icon |-> R(1600, 12, 1624, 36), area |-> R(0, 0, 1920, 1080), cursor |-> <<0, 0>>],
      [icon |-> R(-1910, 900, -1886, 924), area |-> R(-1872, 0, 0, 1080), cursor |-> <<0, 0>>],
      [icon |-> NoIcon, area |-> R(0, 0, 1920, 1032), cursor |-> <<5, 5>>],
      [icon |-> R(200, 270, 216, 286), area |-> R(0, 0, 300, 256), cursor |-> <<0, 0>>] }

P(month, until, fable, banked) ==
    [month |-> month, until |-> until, fable |-> fable, banked |-> banked]
C(gpu, scanning, claude, codex) ==
    [gpu |-> gpu, scanning |-> scanning,
     of |-> [p \in Provider |-> IF p = "claude" THEN claude ELSE codex]]

MCContents ==
    { C(FALSE, FALSE, P(FALSE, 0, FALSE, FALSE), P(FALSE, 0, FALSE, FALSE)),
      C(TRUE, FALSE, P(TRUE, 0, TRUE, FALSE), P(FALSE, 1, FALSE, TRUE)),
      C(FALSE, FALSE, P(FALSE, 2, TRUE, FALSE), P(TRUE, 0, FALSE, TRUE)),
      C(TRUE, TRUE, P(FALSE, 0, FALSE, FALSE), P(FALSE, 2, FALSE, FALSE)) }

MCDpis == {96, 144, 163}
=============================================================================
