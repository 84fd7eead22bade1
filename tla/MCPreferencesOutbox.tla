------------------------ MODULE MCPreferencesOutbox -------------------------
(* Small instances of PreferencesOutbox for TLC. *)
EXTENDS PreferencesOutbox, TLC

CONSTANTS e1, e2

TwoEffects == {e1, e2}

=============================================================================
