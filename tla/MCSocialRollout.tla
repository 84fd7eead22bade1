-------------------------- MODULE MCSocialRollout ---------------------------
(* Small instances of SocialRollout for TLC. *)
EXTENDS SocialRollout, TLC

CONSTANT c1

OneCall == {c1}
Anywhere == BOOLEAN
OnHost == {FALSE}

=============================================================================
