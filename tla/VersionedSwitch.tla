-------------------------- MODULE VersionedSwitch ---------------------------
(***************************************************************************)
(* What the outbox of the preference and its endpoint promise together.     *)
(* The preference has versions, each of which switches it.  The outbox      *)
(* keeps what the user asked for until the server stored it, or the user    *)
(* gave it up or signed out.  The server stores a mutation once, at the     *)
(* version the mutation was made for or as the version next to it, and what *)
(* it says of a stored one, the version and its value, is true.             *)
(***************************************************************************)
EXTENDS Naturals

CONSTANT Mutation

VARIABLES
    value,      \* of the preference
    version,
    base,       \* mutation -> the version it was made for, 0 before it is made
    kept,       \* the mutations in the outbox
    closed,     \* those the user gave up, or a sign-out deleted
    stored      \* mutation -> what the server says it stored, version 0 before it did

vars == <<value, version, base, kept, closed, stored>>

\* The value of the preference at a version.
ValueAt(v) == v % 2 = 0

Made == {m \in Mutation : base[m] # 0}
Stored(m) == stored[m].version # 0

Init ==
    /\ value = ValueAt(1)
    /\ version = 1
    /\ base = [m \in Mutation |-> 0]
    /\ kept = {}
    /\ closed = {}
    /\ stored = [m \in Mutation |-> [desired |-> FALSE, version |-> 0]]

\* The user asks for a change of a version the preference has had.
Make(m) ==
    /\ m \notin Made
    /\ \E v \in 1 .. version : base' = [base EXCEPT ![m] = v]
    /\ UNCHANGED <<value, version, kept, closed, stored>>

\* An overlapping core may put back what was removed.
Keep(m) ==
    /\ m \in Made
    /\ kept' = kept \cup {m}
    /\ UNCHANGED <<value, version, base, closed, stored>>

Forget(m) ==
    /\ Stored(m)
    /\ kept' = kept \ {m}
    /\ UNCHANGED <<value, version, base, closed, stored>>

Close(S) ==
    /\ S \subseteq Made
    /\ kept' = kept \ S
    /\ closed' = closed \cup S
    /\ UNCHANGED <<value, version, base, stored>>

\* The preference has not changed since: this mutation, and no other, changes it.
Change(m) ==
    /\ m \in Made /\ ~ Stored(m)
    /\ base[m] = version
    /\ value' = ~ value
    /\ version' = version + 1
    /\ stored' = [stored EXCEPT ![m] = [desired |-> ~ value, version |-> version + 1]]
    /\ UNCHANGED <<base, kept, closed>>

\* What the mutation asks for was so at its version; nothing changes.
Agree(m) ==
    /\ m \in Made /\ ~ Stored(m)
    /\ stored' = [stored EXCEPT ![m] =
           [desired |-> ValueAt(base[m]), version |-> base[m]]]
    /\ UNCHANGED <<value, version, base, kept, closed>>

ElsewhereChanged ==
    /\ value' = ~ value
    /\ version' = version + 1
    /\ UNCHANGED <<base, kept, closed, stored>>

Next ==
    \/ \E m \in Mutation : Make(m) \/ Keep(m) \/ Forget(m) \/ Change(m) \/ Agree(m)
    \/ \E S \in SUBSET Mutation : Close(S)
    \/ ElsewhereChanged

Spec == Init /\ [][Next]_vars

=============================================================================
