--------------------------- MODULE MCMobileOutbox ---------------------------
(* Small instances of MobileOutbox for TLC. *)
EXTENDS MobileOutbox, TLC

CONSTANTS c1, c2, e1, e2

OneThread == {c1}
TwoEffects == {e1, e2}
SameThread == [m \in Message |-> c1]

=============================================================================
