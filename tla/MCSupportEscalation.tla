------------------------ MODULE MCSupportEscalation -------------------------
(* Small instances of SupportEscalation for TLC. *)
EXTENDS SupportEscalation, TLC

CONSTANTS t1, r1, r2, x1, x2

OneTicket == {t1}
OneRelay == {r1}
TwoRelays == {r1, r2}
TwoRetries == {x1, x2}

Symmetry == Permutations(Ticket) \cup Permutations(RelayId) \cup Permutations(Retry)

=============================================================================
