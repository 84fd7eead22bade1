-------------------------- MODULE MCTenantSession ---------------------------
(* Small instances of TenantSession for TLC. *)
EXTENDS TenantSession, TLC

CONSTANTS k1, k2, c1, c2

TwoClients == {k1, k2}
TwoCalls == {c1, c2}

=============================================================================
