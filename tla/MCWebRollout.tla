---------------------------- MODULE MCWebRollout -----------------------------
(* A small instance of WebRollout for TLC. *)
EXTENDS WebRollout

CONSTANTS i1, i2, i3

ThreeImages == {i1, i2, i3}
TwoSound == {i1, i2}

=============================================================================
