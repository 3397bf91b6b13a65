--------------------------- MODULE MCCancellation ---------------------------
(* Model checking instances of Cancellation. *)
EXTENDS Cancellation, TLC

CONSTANTS r1, r2, r3

\* r1 and r2 compete for the slots of one list, r3 has another one if there
\* are two.
MCListOf(r) == IF r = r3 THEN ListCount ELSE 1

MCThreshold == -1

=============================================================================
