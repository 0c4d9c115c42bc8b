--------------------------- MODULE MCScanSchedule ---------------------------
(***************************************************************************)
(* Instances of ScanSchedule: the order of the files and their state at    *)
(* the start.                                                              *)
(***************************************************************************)
EXTENDS ScanSchedule

CONSTANTS c1, x1, x2

\* A session of Claude, and of Codex one of an earlier month and one that is
\* created later in the same directory.
Order3 == <<c1, x2, x1>>
Age3 == [f \in {c1, x1, x2} |-> IF f = x2 THEN 0 ELSE 1]
Size3 == [f \in {c1, x1, x2} |-> IF f = x1 THEN 0 ELSE 1]
=============================================================================
