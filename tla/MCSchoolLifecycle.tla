------------------------- MODULE MCSchoolLifecycle --------------------------
(* Small instances of SchoolLifecycle for TLC. *)
EXTENDS SchoolLifecycle, TLC

CONSTANTS s1, s2, j1, j2

OneSchool == {s1}
TwoSchools == {s1, s2}
TwoJobs == {j1, j2}
NoRemote == {}
FirstRemote == {s1}

AllRequests == RequestKind
CreateUpdatePurge == {"create", "update", "purge"}
CreateArchiveReprovision == {"create", "archive", "reprovision"}

\* Slots are interchangeable, and so are schools of one placement; used for
\* safety only.
Symmetry == Permutations(Job) \cup Permutations(School)

=============================================================================
