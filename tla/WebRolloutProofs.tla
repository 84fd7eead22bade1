-------------------------- MODULE WebRolloutProofs ---------------------------
(***************************************************************************)
(* Proofs about WebRollout, for any images and any number of troubles.      *)
(*                                                                         *)
(* The properties speak of one moment: what the row says against what the   *)
(* containers are.  That is inductive only with two more facts.  A rollout  *)
(* on record is always in one of three positions from which recovery can    *)
(* go either way (Resumable), and at each place of the code the position    *)
(* is known, the worker's copy of the row being the row (InPlace).  Both    *)
(* hold while one worker at most is at work (Sole), which the lock and the  *)
(* history "overlapped" give.                                               *)
(***************************************************************************)
EXTENDS WebRollout, TLAPS

(* Where the containers can be while a rollout is on record *)

\* The old container is in its place; it was renamed, and the target may stand in
\* its place; the target has been proved and the old one is gone.
OldStays == web.image = row.previous /\ backup = Missing
OldAside == backup.image = row.previous /\ (web = Missing \/ web.image = row.target)
NewAlone ==
    web = [image |-> row.target, up |-> TRUE] /\ row.target \in Sound /\ backup = Missing

\* Either nothing is on record and the web serves, or the record leads back to one
\* of the three positions.
Resumable ==
    \/ /\ row = Closed(row.desired)
       /\ backup = Missing
       /\ \E i \in Sound : Serves(i)
    \/ /\ row.phase # "none"
       /\ row.target \in Image
       /\ row.previous \in Sound
       /\ row.target # row.previous
       /\ OldStays \/ OldAside \/ (NewAlone /\ row.phase \in LatePhase)

\* Routes never lead to a stopped container.
Coherent ==
    /\ routed => web.up
    /\ web.image = NoImage => web = Missing
    /\ backup.image = NoImage => backup = Missing

\* What a worker may count on at each place of the code.
InPlace(j) ==
    /\ j.at \notin {"idle", "boot"} => 
           j.view = row /\ (j.then = "inspect" => j.wanted \in Image)
    /\ j.at \in {"check", "mark", "drop", "adopt", "relapse"} =>
           row.phase \in LatePhase /\ j.from \in LatePhase
    /\ j.at = "check" => web.image = row.target
    /\ j.at \in {"mark", "drop", "adopt"} => Serves(row.target)
    /\ j.at \in {"restore", "rename", "start", "prove", "discard", "clear",
                 "unrecovered"} =>
           row.phase # "none" /\ j.from = row.phase
    /\ j.at \in {"rename", "stop", "create", "unname"} => web = Missing /\ OldAside
    /\ j.at \in {"start", "prove", "purge", "retire", "revive"} => OldStays
    /\ j.at \in {"discard", "clear"} => Serves(row.previous) /\ backup = Missing
    /\ j.at \in {"reconcile", "inspect", "record"} => row.phase = "none"
    /\ j.at = "inspect" => j.wanted \in Image
    /\ j.at \in {"purge", "retire", "stop", "create", "launch", "undo", "unname",
                 "revive", "swapped"} =>
           row.phase = "prepared" /\ j.wanted = row.target
    /\ j.at \in {"launch", "swapped"} => OldAside /\ web.image = row.target
    /\ j.at = "undo" => OldAside
    /\ j.at = "validate" =>
           \/ row.phase = "none" /\ web.image = j.wanted
           \/ /\ row.phase = "swapped" /\ j.wanted = row.target
              /\ OldAside /\ web.image = row.target
    /\ j.at \in {"validated", "finalizing", "settle", "finish"} =>
           j.wanted = row.target /\ Serves(j.wanted)
    /\ j.at = "validated" => row.phase = "swapped"
    /\ j.at = "finalizing" => row.phase = "validated"
    /\ j.at \in {"settle", "finish"} => row.phase = "finalizing"
    /\ j.at \in {"adopt", "finish"} => backup = Missing
    /\ j.at = "record" => Serves(j.wanted)
    /\ j.at = "failed" => (row.phase = "swapped" => backup.image = row.previous)

\* At most one worker is at work.
Sole == At("startup", "idle") \/ At("request", "idle")

\* The inductive invariant.
HeldInv ==
    /\ TypeOK
    /\ ~ alive => \A w \in Worker : At(w, "idle")
    /\ ~ overlapped => /\ Sole /\ Coherent /\ Resumable
                       /\ \A w \in Worker : InPlace(work[w])

\* The body of EndsWithOneOfTwo.
Outcome ==
    /\ (Open(row) /\ ~ Open(row')) =>
           \/ row'.desired = row.target /\ Serves(row.target)
           \/ row'.desired = row.desired /\ Serves(row.previous)
    /\ row'.desired # row.desired => Serves(row'.desired)

-----------------------------------------------------------------------------
(* Types *)

\* The places of a worker that is at work.
Working == Place \ {"idle"}

LEMMA GoTyped ==
    ASSUME TypeOK, NEW w \in Worker, NEW place \in Working, Go(w, place), lock' = lock
    PROVE  /\ work' \in [Worker -> Job]
           /\ lock' # Free => work'[lock'].at # "idle"
BY DEF TypeOK, Go, Job, Working, Worker, Free

LEMMA DockerTyped ==
    ASSUME TypeOK, NEW w \in Worker, NEW newWeb \in Container,
           NEW newBackup \in Container, NEW newRouted \in BOOLEAN,
           NEW next \in Working, NEW failed \in Working,
           Docker(w, newWeb, newBackup, newRouted, next, failed)
    PROVE  TypeOK'
<1>1. lock' = lock  BY DEF Docker
<1>2. Go(w, next) \/ Go(w, failed)  BY DEF Docker
<1>3. /\ work' \in [Worker -> Job]
      /\ lock' # Free => work'[lock'].at # "idle"
  BY <1>1, <1>2, GoTyped
<1>4. web' \in Container /\ backup' \in Container /\ routed' \in BOOLEAN
  BY DEF Docker, TypeOK, dockerVars
<1>5. troubles' \in 0 .. MaxTroubles
  BY MaxTroublesAssumption DEF Docker, TypeOK, Trouble
<1> QED  BY <1>1, <1>3, <1>4, <1>5 DEF Docker, TypeOK

LEMMA RaiseTyped ==
    ASSUME TypeOK, NEW w \in Worker, NEW place \in Working, Raise(w, place)
    PROVE  TypeOK'
BY GoTyped DEF Raise, TypeOK, dockerVars

LEMMA UnansweredTyped ==
    ASSUME TypeOK, NEW w \in Worker, NEW place \in Working, Unanswered(w, place)
    PROVE  TypeOK'
<1>1. troubles' \in 0 .. MaxTroubles
  BY MaxTroublesAssumption DEF Unanswered, TypeOK, Trouble
<1> QED  BY <1>1, GoTyped DEF Unanswered, TypeOK, dockerVars

LEMMA CommitTyped ==
    ASSUME TypeOK, NEW w \in Worker, NEW new \in Row, NEW place \in Working,
           Commit(w, new, place)
    PROVE  TypeOK'
<1>1. Written(work[w].view, new) \in Row  BY DEF TypeOK, Written, Row
<1>2. work' = [work EXCEPT ![w] = [@ EXCEPT !.view = new, !.opened = FALSE, !.at = place]]
  BY DEF Commit
<1> DEFINE j == [work[w] EXCEPT !.view = new, !.opened = FALSE, !.at = place]
<1>3. j \in Job /\ j.at # "idle"  BY DEF TypeOK, Job, Working
<1>4. work' = [work EXCEPT ![w] = j]  BY <1>2
<1> HIDE DEF j
<1>5. /\ work' \in [Worker -> Job]
      /\ lock # Free => work'[lock].at # "idle"
  BY <1>3, <1>4 DEF TypeOK
<1> QED  BY <1>1, <1>5 DEF Commit, TypeOK, dockerVars

LEMMA SetPhaseTyped ==
    ASSUME TypeOK, NEW w \in Worker, NEW phase \in Phase, NEW place \in Working,
           SetPhase(w, phase, place)
    PROVE  TypeOK'
<1>1. [work[w].view EXCEPT !.phase = phase] \in Row  BY DEF TypeOK, Job, Row
<1> QED  BY <1>1, CommitTyped DEF SetPhase

LEMMA SetBackTyped ==
    ASSUME TypeOK, NEW w \in Worker, NEW place \in Working, SetBack(w, place)
    PROVE  TypeOK'
<1>1. work[w].from \in Phase  BY DEF TypeOK, Job
<1>2. CASE work[w].opened
  <2> DEFINE again == [row EXCEPT !.phase = work[w].from]
  <2>1. again \in Row  BY <1>1 DEF TypeOK, Row
  <2>2. /\ row' = again
        /\ work' = [work EXCEPT ![w] = [@ EXCEPT !.view = again,
                                                 !.opened = FALSE, !.at = place]]
        /\ UNCHANGED <<dockerVars, alive, lock, overlapped, troubles>>
    BY <1>2 DEF SetBack
  <2> DEFINE j == [work[w] EXCEPT !.view = again, !.opened = FALSE, !.at = place]
  <2>3. work' = [work EXCEPT ![w] = j]  BY <2>2
  <2> HIDE DEF again
  <2>4. j \in Job /\ j.at # "idle"  BY <2>1 DEF TypeOK, Job, Working
  <2> HIDE DEF j
  <2>5. /\ work' \in [Worker -> Job]
        /\ lock # Free => work'[lock].at # "idle"
    BY <2>3, <2>4 DEF TypeOK
  <2> QED  BY <2>1, <2>2, <2>5 DEF TypeOK, dockerVars
<1>3. CASE ~ work[w].opened
  BY <1>1, <1>3, SetPhaseTyped DEF SetBack
<1> QED  BY <1>2, <1>3

LEMMA ValidateTyped ==
    ASSUME TypeOK, NEW w \in Worker, NEW image, NEW next \in Working,
           NEW failed \in Working, Validate(w, image, next, failed)
    PROVE  TypeOK'
<1>1. lock' = lock  BY DEF Validate
<1>2. Go(w, next) \/ Go(w, failed)  BY DEF Validate
<1>3. /\ work' \in [Worker -> Job]
      /\ lock' # Free => work'[lock'].at # "idle"
  BY <1>1, <1>2, GoTyped
<1>4. routed' \in BOOLEAN  BY DEF Validate, TypeOK, Container
<1>5. troubles' \in 0 .. MaxTroubles
  BY MaxTroublesAssumption DEF Validate, TypeOK, Trouble
<1> QED  BY <1>1, <1>3, <1>4, <1>5 DEF Validate, TypeOK

LEMMA Places ==
        /\ \A place \in {"boot", "recover", "check", "mark", "drop", "adopt", "relapse",
                     "restore", "rename", "start", "prove", "discard", "clear",
                     "unrecovered", "reconcile", "inspect", "purge", "retire", "stop",
                     "create", "launch", "undo", "unname", "revive", "swapped",
                     "validate", "validated", "finalizing", "settle", "finish",
                     "record", "failed", "answer"} : place \in Working
    /\ \A place \in {"reconcile", "inspect", "answer"} : place \in Working
    /\ Missing \in Container
    /\ \A image \in Image \cup {NoImage} : Closed(image) \in Row
    /\ \A phase \in {"prepared", "swapped", "validated", "finalizing"} : phase \in Phase
BY DEF Place, Working, Missing, Container, Closed, Row, Phase

\* Every step of a worker keeps the types.
LEMMA StepTyped ==
    ASSUME TypeOK, NEW w \in Worker, Step(w)
    PROVE  TypeOK'
<1>0. work[w] \in Job /\ web \in Container /\ backup \in Container /\ routed \in BOOLEAN
  BY DEF TypeOK
<1>w. work[w].then \in Working /\ work[w].wanted \in Image \cup {NoImage}
      /\ work[w].view.target \in Image \cup {NoImage}
      /\ work[w].view.desired \in Image \cup {NoImage}
  BY <1>0, Places DEF Job, Row
<1>u. [web EXCEPT !.up = TRUE] \in Container /\ [backup EXCEPT !.up = FALSE] \in Container
  BY <1>0 DEF Container
<1> USE Places
<1>1. CASE Recover(w)
  <2>1. CASE Raise(w, work[w].then) \/ Unanswered(w, "answer")
    BY <2>1, <1>w, RaiseTyped, UnansweredTyped
  <2>2. ASSUME NEW place \in {"check", "restore"},
               work' = [work EXCEPT ![w] =
                            [@ EXCEPT !.at = place, !.from = work[w].view.phase]],
               UNCHANGED <<dockerVars, row, alive, lock, overlapped, troubles>>
        PROVE  TypeOK'
    <3> DEFINE j == [work[w] EXCEPT !.at = place, !.from = work[w].view.phase]
    <3>0. j \in Job /\ j.at # "idle"  BY <2>2, <1>0 DEF Job, Row, Working
    <3>a. work' = [work EXCEPT ![w] = j]  BY <2>2
    <3> HIDE DEF j
    <3>1. /\ work' \in [Worker -> Job]
          /\ lock # Free => work'[lock].at # "idle"
      BY <3>0, <3>a DEF TypeOK
    <3> QED  BY <2>2, <3>1 DEF TypeOK, dockerVars
  <2> QED  BY <1>1, <2>1, <2>2 DEF Recover
<1>2. CASE Check(w)  BY <1>2, <1>0, <1>w, <1>u, ValidateTyped DEF Check
<1>3. CASE Mark(w)  BY <1>3, <1>0, <1>w, <1>u, SetPhaseTyped DEF Mark
<1>4. CASE Drop(w)  BY <1>4, <1>0, <1>w, <1>u, DockerTyped DEF Drop
<1>5. CASE Adopt(w)  BY <1>5, <1>0, <1>w, <1>u, CommitTyped DEF Adopt
<1>6. CASE Relapse(w)  BY <1>6, <1>0, <1>w, <1>u, SetBackTyped DEF Relapse
<1>7. CASE Unrecovered(w)  BY <1>7, <1>0, <1>w, <1>u, SetBackTyped DEF Unrecovered
<1>8. CASE Restore(w)  BY <1>8, <1>0, <1>w, <1>u, DockerTyped, RaiseTyped DEF Restore
<1>9. CASE Rename(w)  BY <1>9, <1>0, <1>w, <1>u, DockerTyped, RaiseTyped DEF Rename
<1>10. CASE Start(w)  BY <1>10, <1>0, <1>w, <1>u, DockerTyped, RaiseTyped DEF Start
<1>11. CASE Prove(w)  BY <1>11, <1>0, <1>w, <1>u, ValidateTyped DEF Prove
<1>12. CASE Discard(w)  BY <1>12, <1>0, <1>w, <1>u, DockerTyped DEF Discard
<1>13. CASE Clear(w)  BY <1>13, <1>0, <1>w, <1>u, CommitTyped DEF Clear
<1>14. CASE Inspect(w)
  <2>1. CASE Raise(w, "failed") \/ Raise(w, "validate") \/ Unanswered(w, "failed")
    BY <2>1, RaiseTyped, UnansweredTyped
  <2> DEFINE new == [phase |-> "prepared", target |-> work[w].wanted,
                     previous |-> web.image, desired |-> work[w].view.desired]
  <2>2. CASE Commit(w, new, "purge")
    <3>1. new \in Row  BY <1>0, <1>w DEF Row, Container
    <3> QED  BY <2>2, <3>1, CommitTyped
  <2> QED  BY <1>14, <2>1, <2>2 DEF Inspect
<1>15. CASE Purge(w)  BY <1>15, <1>0, <1>w, <1>u, DockerTyped DEF Purge
<1>16. CASE Retire(w)  BY <1>16, <1>0, <1>w, <1>u, DockerTyped, RaiseTyped DEF Retire
<1>17. CASE Stop(w)  BY <1>17, <1>0, <1>w, <1>u, DockerTyped, RaiseTyped DEF Stop
<1>18. CASE Create(w)
  <2>1. [image |-> work[w].wanted, up |-> FALSE] \in Container  BY <1>w DEF Container
  <2> QED  BY <1>18, <1>0, <2>1, DockerTyped, RaiseTyped DEF Create
<1>19. CASE Launch(w)  BY <1>19, <1>0, <1>w, <1>u, DockerTyped, RaiseTyped DEF Launch
<1>20. CASE Undo(w)  BY <1>20, <1>0, <1>w, <1>u, DockerTyped DEF Undo
<1>21. CASE Unname(w)  BY <1>21, <1>0, <1>w, <1>u, DockerTyped, RaiseTyped DEF Unname
<1>22. CASE Revive(w)  BY <1>22, <1>0, <1>w, <1>u, DockerTyped, RaiseTyped DEF Revive
<1>23. CASE Swapped(w)  BY <1>23, <1>0, <1>w, <1>u, SetPhaseTyped, UnansweredTyped DEF
   Swapped
<1>24. CASE ValidateTarget(w)  BY <1>24, <1>0, <1>w, <1>u, ValidateTyped DEF
   ValidateTarget
<1>25. CASE Record(w)
  <2>1. [work[w].view EXCEPT !.desired = work[w].wanted] \in Row  BY <1>0, <1>w DEF Job,
     Row
  <2> QED  BY <1>25, <2>1, CommitTyped DEF Record
<1>26. CASE Validated(w)  BY <1>26, <1>0, <1>w, <1>u, SetPhaseTyped DEF Validated
<1>27. CASE Finalizing(w)  BY <1>27, <1>0, <1>w, <1>u, SetPhaseTyped DEF Finalizing
<1>28. CASE Settle(w)  BY <1>28, <1>0, <1>w, <1>u, DockerTyped DEF Settle
<1>29. CASE Finish(w)  BY <1>29, <1>0, <1>w, <1>u, CommitTyped DEF Finish
<1>30. CASE Failed(w)
  <2>1. CASE Raise(w, "answer")  BY <2>1, RaiseTyped
  <2>2. ASSUME NEW phase \in Phase,
               row' = Written(work[w].view, [work[w].view EXCEPT !.phase = phase]),
               work' = [work EXCEPT ![w] =
                   [@ EXCEPT !.view = [work[w].view EXCEPT !.phase = phase],
                             !.at = "recover", !.then = "answer"]],
               UNCHANGED <<dockerVars, alive, lock, overlapped, troubles>>
        PROVE  TypeOK'
    <3>1. [work[w].view EXCEPT !.phase = phase] \in Row  BY <1>0 DEF Job, Row
    <3>2. row' \in Row  BY <2>2, <3>1, <1>0 DEF Written, Row, TypeOK
    <3>3. /\ work' \in [Worker -> Job]
          /\ lock # Free => work'[lock].at # "idle"
      BY <2>2, <3>1, <1>0 DEF TypeOK, Job, Working
    <3> QED  BY <2>2, <3>2, <3>3 DEF TypeOK, dockerVars
  <2>3. work[w].view.phase \in Phase  BY <1>0 DEF Job, Row
  <2> QED  BY <1>30, <2>1, <2>2, <2>3 DEF Failed
<1>31. CASE Answer(w)
  <2>1. work' = [work EXCEPT ![w] = Idle] /\ lock' = IF lock = w THEN Free ELSE lock
    BY <1>31 DEF Answer
  <2>2. Idle \in Job  BY DEF Idle, Job, Place, NoRow, Row, Phase
  <2>3. /\ work' \in [Worker -> Job]
        /\ lock' \in Worker \cup {Free}
        /\ lock' # Free => work'[lock'].at # "idle"
    BY <2>1, <2>2 DEF TypeOK, Free, Worker
  <2> QED  BY <1>31, <2>3 DEF Answer, TypeOK, dockerVars
<1>32. CASE Reconcile(w)
  <2>1. CASE Raise(w, "answer") \/ Unanswered(w, "answer")
    BY <2>1, RaiseTyped, UnansweredTyped
  <2>2. CASE /\ lock' = w
             /\ work' = [work EXCEPT ![w] =
                    [@ EXCEPT !.at = "recover", !.wanted = work[w].view.desired,
                              !.opened = TRUE, !.then = "inspect"]]
             /\ UNCHANGED <<dockerVars, row, alive, overlapped, troubles>>
    <3>1. work' \in [Worker -> Job] /\ work'[w].at # "idle"
      BY <2>2, <1>0, <1>w DEF TypeOK, Job, Working
    <3> QED  BY <2>2, <3>1 DEF TypeOK, dockerVars
  <2> QED  BY <1>32, <2>1, <2>2 DEF Reconcile
<1> QED
  BY <1>1, <1>2, <1>3, <1>4, <1>5, <1>6, <1>7, <1>8, <1>9, <1>10, <1>11, <1>12, <1>13,
     <1>14, <1>15, <1>16, <1>17, <1>18, <1>19, <1>20, <1>21, <1>22, <1>23, <1>24, <1>25,
     <1>26, <1>27, <1>28, <1>29, <1>30, <1>31, <1>32 DEF Step

-----------------------------------------------------------------------------
(* The steps of a worker that is alone *)

\* A worker alone with the row writes exactly what it means to.
LEMMA CommitWrites ==
    ASSUME TypeOK, NEW w \in Worker, work[w].view = row,
           NEW new \in Row, NEW place \in Place, Commit(w, new, place)
    PROVE  /\ row' = new
           /\ work[w]' = [work[w] EXCEPT !.view = new, !.opened = FALSE, !.at = place]
           /\ UNCHANGED <<dockerVars, alive, lock, overlapped, troubles>>
<1>1. Written(row, new) = new  BY DEF Written, Row
<1>2. work' = [work EXCEPT ![w] = [@ EXCEPT !.view = new, !.opened = FALSE, !.at = place]]
  BY DEF Commit
<1>3. work[w]' = [work[w] EXCEPT !.view = new, !.opened = FALSE, !.at = place]
  BY <1>2 DEF TypeOK
<1> QED  BY <1>1, <1>3 DEF Commit

\* So does one that sets the phase back.
LEMMA SetBackWrites ==
    ASSUME TypeOK, NEW w \in Worker, work[w].view = row,
           NEW place \in Place, SetBack(w, place)
    PROVE  /\ row' = [row EXCEPT !.phase = work[w].from]
           /\ work[w]' = [work[w] EXCEPT !.view = [row EXCEPT !.phase = work[w].from],
                                          !.opened = FALSE, !.at = place]
           /\ UNCHANGED <<dockerVars, alive, lock, overlapped, troubles>>
<1> DEFINE again == [row EXCEPT !.phase = work[w].from]
<1>1. again \in Row  BY DEF TypeOK, Row, Job
<1>2. CASE work[w].opened
  BY <1>2 DEF SetBack, TypeOK
<1>3. CASE ~ work[w].opened
  <2>1. Commit(w, again, place)  BY <1>3 DEF SetBack, SetPhase
  <2> HIDE DEF again
  <2>2. /\ row' = again
        /\ work[w]' = [work[w] EXCEPT !.view = again, !.opened = FALSE, !.at = place]
        /\ UNCHANGED <<dockerVars, alive, lock, overlapped, troubles>>
    BY <1>1, <2>1, CommitWrites
  <2> QED  BY <2>2 DEF again
<1> QED  BY <1>2, <1>3

LEMMA RecoverSafe ==
    ASSUME HeldInv, TypeOK', NEW w \in Worker, ~ overlapped, Recover(w)
    PROVE  Coherent' /\ Resumable' /\ InPlace(work[w])' /\ Outcome
<1>0. work[w].at = "recover" /\ work[w].view = row /\ work[w] \in Job
  BY DEF HeldInv, TypeOK, InPlace, Recover, At
<1>1. ASSUME ~ Open(row), Raise(w, work[w].then)
      PROVE  Coherent' /\ Resumable' /\ InPlace(work[w])' /\ Outcome
  BY <1>0, <1>1, ImageAssumption, SMTT(30) DEF Raise, Go, Outcome, Open, HeldInv,
     TypeOK, Coherent, Resumable, InPlace, OldStays, OldAside, NewAlone, Serves, At,
     Closed, LatePhase, Job, dockerVars
<1>2. CASE Unanswered(w, "answer")
  BY <1>0, <1>2, SMTT(30) DEF Unanswered, Go, Outcome, Open, HeldInv, TypeOK, Coherent,
     Resumable, InPlace, OldStays, OldAside, NewAlone, Serves, At, Closed, LatePhase,
     Job, dockerVars
<1>3. ASSUME NEW place \in {"check", "restore"}, Open(row),
             place = "check" => row.phase \in LatePhase /\ web.image = row.target,
             work' = [work EXCEPT ![w] = [@ EXCEPT !.at = place, !.from = row.phase]],
             UNCHANGED <<dockerVars, row, alive, lock, overlapped, troubles>>
      PROVE  Coherent' /\ Resumable' /\ InPlace(work[w])' /\ Outcome
  <2>1. work[w]' = [work[w] EXCEPT !.at = place, !.from = row.phase]
    BY <1>3 DEF HeldInv, TypeOK
  <2> QED
    BY <1>0, <1>3, <2>1, SMTT(30) DEF Outcome, Open, HeldInv, TypeOK, Coherent,
       Resumable, InPlace, OldStays, OldAside, NewAlone, Serves, At, Closed, LatePhase,
       Job, dockerVars
<1> QED  BY <1>0, <1>1, <1>2, <1>3 DEF Recover

LEMMA CheckSafe ==
    ASSUME HeldInv, TypeOK', NEW w \in Worker, ~ overlapped, Check(w)
    PROVE  Coherent' /\ Resumable' /\ InPlace(work[w])' /\ Outcome
BY SMTT(30) DEF Outcome, HeldInv, TypeOK, Coherent, Resumable, InPlace, OldStays,
   OldAside, NewAlone, Serves, Check, At, Go, Validate, Job

LEMMA MarkSafe ==
    ASSUME HeldInv, TypeOK', NEW w \in Worker, ~ overlapped, Mark(w)
    PROVE  Coherent' /\ Resumable' /\ InPlace(work[w])' /\ Outcome
<1> DEFINE new == [work[w].view EXCEPT !.phase = "finalizing"]
<1>1. work[w].view = row  BY DEF HeldInv, InPlace, Mark, At
<1>2. new \in Row /\ "drop" \in Place
  BY <1>1, ImageAssumption
     DEF HeldInv, TypeOK, Row, Phase, Closed, Mark, At, InPlace, Serves, Job, Place
<1>3. /\ row' = new
      /\ work[w]' = [work[w] EXCEPT !.view = new, !.opened = FALSE, !.at = "drop"]
      /\ UNCHANGED <<dockerVars, alive, lock, overlapped, troubles>>
  BY <1>1, <1>2, CommitWrites DEF HeldInv, Mark, SetPhase
<1> QED
  BY <1>1, <1>2, <1>3, SMTT(30)
  DEF Outcome, Open, HeldInv, Coherent, Resumable, InPlace, OldStays, OldAside, NewAlone,
      Serves, Mark, At, Closed, LatePhase, dockerVars

LEMMA DropSafe ==
    ASSUME HeldInv, TypeOK', NEW w \in Worker, ~ overlapped, Drop(w)
    PROVE  Coherent' /\ Resumable' /\ InPlace(work[w])' /\ Outcome
BY SMTT(30) DEF Outcome, HeldInv, TypeOK, Coherent, Resumable, InPlace, OldStays,
   OldAside, NewAlone, Serves, Drop, At, Go, Docker, Job, dockerVars

LEMMA AdoptSafe ==
    ASSUME HeldInv, TypeOK', NEW w \in Worker, ~ overlapped, Adopt(w)
    PROVE  Coherent' /\ Resumable' /\ InPlace(work[w])' /\ Outcome
<1> DEFINE new == Closed(work[w].view.target)
<1>1. work[w].view = row  BY DEF HeldInv, InPlace, Adopt, At
<1>2. new \in Row /\ work[w].then \in Place
  BY <1>1, ImageAssumption
     DEF HeldInv, TypeOK, Row, Phase, Closed, Adopt, At, InPlace, Serves, Job, Place
<1>3. /\ row' = new
      /\ work[w]' = [work[w] EXCEPT !.view = new, !.opened = FALSE, !.at = work[w].then]
      /\ UNCHANGED <<dockerVars, alive, lock, overlapped, troubles>>
  BY <1>1, <1>2, CommitWrites DEF HeldInv, Adopt
<1> QED
  BY <1>1, <1>2, <1>3, SMTT(30)
  DEF Outcome, HeldInv, TypeOK, Coherent, Resumable, InPlace, Serves, Adopt, At, Closed,
      Job, dockerVars

LEMMA RelapseSafe ==
    ASSUME HeldInv, TypeOK', NEW w \in Worker, ~ overlapped, Relapse(w)
    PROVE  Coherent' /\ Resumable' /\ InPlace(work[w])' /\ Outcome
<1>1. work[w].view = row /\ work[w].from \in LatePhase /\ row.phase \in LatePhase
  BY DEF HeldInv, InPlace, Relapse, At
<1> DEFINE new == [row EXCEPT !.phase = work[w].from]
<1>2. /\ row' = new
      /\ work[w]' = [work[w] EXCEPT !.view = new, !.opened = FALSE, !.at = "restore"]
      /\ UNCHANGED <<dockerVars, alive, lock, overlapped, troubles>>
  BY <1>1, SetBackWrites DEF HeldInv, Relapse, Place
<1>3. /\ new.phase = work[w].from /\ new.target = row.target
      /\ new.previous = row.previous /\ new.desired = row.desired
  BY DEF HeldInv, TypeOK, Row
<1>4. work[w]'.at = "restore" /\ work[w]'.view = new /\ work[w]'.from = work[w].from
      /\ work[w]'.then = work[w].then /\ work[w]'.wanted = work[w].wanted
  BY <1>2 DEF HeldInv, TypeOK, Job
<1>5. work[w].then = "inspect" => work[w].wanted \in Image
  BY DEF HeldInv, InPlace, Relapse, At
<1> HIDE DEF new
<1>6. Coherent' /\ Resumable'
  BY <1>1, <1>2, <1>3, SMTT(30) DEF HeldInv, Coherent, Resumable, OldStays, OldAside,
     NewAlone, Serves, Closed, LatePhase, dockerVars
<1>7. InPlace(work[w])'
  BY <1>1, <1>2, <1>3, <1>4, <1>5, SMTT(30) DEF InPlace, LatePhase
<1>8. Outcome
  BY <1>1, <1>2, <1>3, <1>6, SMTT(30) DEF Outcome, Open, LatePhase, Resumable, Closed
<1> QED  BY <1>6, <1>7, <1>8

LEMMA UnrecoveredSafe ==
    ASSUME HeldInv, TypeOK', NEW w \in Worker, ~ overlapped, Unrecovered(w)
    PROVE  Coherent' /\ Resumable' /\ InPlace(work[w])' /\ Outcome
<1>1. work[w].view = row /\ work[w].from = row.phase /\ row.phase # "none"
  BY DEF HeldInv, InPlace, Unrecovered, At
<1> DEFINE new == [row EXCEPT !.phase = work[w].from]
<1>2. /\ row' = new
      /\ work[w]' = [work[w] EXCEPT !.view = new, !.opened = FALSE, !.at = "answer"]
      /\ UNCHANGED <<dockerVars, alive, lock, overlapped, troubles>>
  BY <1>1, SetBackWrites DEF HeldInv, Unrecovered, Place
<1>3. row' = row  BY <1>1, <1>2 DEF HeldInv, TypeOK, Row
<1>4. work[w]'.at = "answer" /\ work[w]'.view = row'
      /\ work[w]'.then = work[w].then /\ work[w]'.wanted = work[w].wanted
  BY <1>2 DEF HeldInv, TypeOK, Job
<1>5. work[w].then = "inspect" => work[w].wanted \in Image
  BY DEF HeldInv, InPlace, Unrecovered, At
<1> HIDE DEF new
<1>6. Coherent' /\ Resumable' /\ Outcome
  BY <1>2, <1>3, SMTT(30) DEF HeldInv, Coherent, Resumable, OldStays, OldAside,
     NewAlone, Serves, Closed, dockerVars, Outcome
<1>7. InPlace(work[w])'
  BY <1>4, <1>5, SMTT(30) DEF InPlace
<1> QED  BY <1>6, <1>7

LEMMA RestoreSafe ==
    ASSUME HeldInv, TypeOK', NEW w \in Worker, ~ overlapped, Restore(w)
    PROVE  Coherent' /\ Resumable' /\ InPlace(work[w])' /\ Outcome
BY SMTT(30) DEF Outcome, HeldInv, TypeOK, Coherent, Resumable, InPlace, OldStays,
   OldAside, NewAlone, Restore, At, Go, Docker, Raise, Closed, Container, Job,
   dockerVars

LEMMA RenameSafe ==
    ASSUME HeldInv, TypeOK', NEW w \in Worker, ~ overlapped, Rename(w)
    PROVE  Coherent' /\ Resumable' /\ InPlace(work[w])' /\ Outcome
BY ImageAssumption, SMTT(30) DEF Outcome, HeldInv, TypeOK, Coherent, Resumable, InPlace,
   OldStays, OldAside, Rename, At, Go, Docker, Closed, Missing, Job, dockerVars

LEMMA StartSafe ==
    ASSUME HeldInv, TypeOK', NEW w \in Worker, ~ overlapped, Start(w)
    PROVE  Coherent' /\ Resumable' /\ InPlace(work[w])' /\ Outcome
BY ImageAssumption, SMTT(30) DEF Outcome, HeldInv, TypeOK, Coherent, Resumable, InPlace,
   OldStays, Start, At, Go, Docker, Closed, Missing, Container, Job, dockerVars

LEMMA ProveSafe ==
    ASSUME HeldInv, TypeOK', NEW w \in Worker, ~ overlapped, Prove(w)
    PROVE  Coherent' /\ Resumable' /\ InPlace(work[w])' /\ Outcome
BY SMTT(30) DEF Outcome, HeldInv, TypeOK, Coherent, Resumable, InPlace, OldStays,
   Serves, Prove, At, Go, Validate, Job

LEMMA DiscardSafe ==
    ASSUME HeldInv, TypeOK', NEW w \in Worker, ~ overlapped, Discard(w)
    PROVE  Coherent' /\ Resumable' /\ InPlace(work[w])' /\ Outcome
BY SMTT(30) DEF Outcome, HeldInv, TypeOK, Coherent, Resumable, InPlace, OldStays,
   Serves, Discard, At, Go, Docker, Job, dockerVars

LEMMA ClearSafe ==
    ASSUME HeldInv, TypeOK', NEW w \in Worker, ~ overlapped, Clear(w)
    PROVE  Coherent' /\ Resumable' /\ InPlace(work[w])' /\ Outcome
<1> DEFINE new == Closed(work[w].view.desired)
<1>1. work[w].view = row  BY DEF HeldInv, InPlace, Clear, At
<1>2. new \in Row /\ work[w].then \in Place
  BY <1>1, ImageAssumption
     DEF HeldInv, TypeOK, Row, Phase, Closed, Clear, At, InPlace, Serves, Job, Place
<1>3. /\ row' = new
      /\ work[w]' = [work[w] EXCEPT !.view = new, !.opened = FALSE, !.at = work[w].then]
      /\ UNCHANGED <<dockerVars, alive, lock, overlapped, troubles>>
  BY <1>1, <1>2, CommitWrites DEF HeldInv, Clear
<1> QED
  BY <1>1, <1>2, <1>3, SMTT(30)
  DEF Outcome, HeldInv, TypeOK, Coherent, Resumable, InPlace, Serves, Clear, At, Closed,
      Job, dockerVars

LEMMA InspectSafe ==
    ASSUME HeldInv, TypeOK', NEW w \in Worker, ~ overlapped, Inspect(w)
    PROVE  Coherent' /\ Resumable' /\ InPlace(work[w])' /\ Outcome
<1> DEFINE new == [phase |-> "prepared", target |-> work[w].wanted,
                   previous |-> web.image, desired |-> work[w].view.desired]
<1>0. /\ work[w].at = "inspect" /\ work[w].view = row /\ row.phase = "none"
      /\ work[w] \in Job /\ work[w].wanted \in Image
  BY DEF HeldInv, TypeOK, InPlace, Inspect, At
<1>1. CASE Raise(w, "failed") \/ Unanswered(w, "failed")
  BY <1>0, <1>1, SMTT(30) DEF Raise, Unanswered, Go, Outcome, Open, HeldInv, TypeOK,
     Coherent, Resumable, InPlace, OldStays, OldAside, NewAlone, Serves, At, Closed,
     LatePhase, Job, dockerVars
<1>2. ASSUME web.image = work[w].wanted, Raise(w, "validate")
      PROVE  Coherent' /\ Resumable' /\ InPlace(work[w])' /\ Outcome
  BY <1>0, <1>2, SMTT(30) DEF Raise, Go, Outcome, Open, HeldInv, TypeOK, Coherent,
     Resumable, InPlace, OldStays, OldAside, NewAlone, Serves, At, Closed, LatePhase,
     Job, dockerVars
<1>3. ASSUME web.image # work[w].wanted, Commit(w, new, "purge")
      PROVE  Coherent' /\ Resumable' /\ InPlace(work[w])' /\ Outcome
  <2>1. PICK i \in Sound : web = [image |-> i, up |-> TRUE] /\ backup = Missing
    BY <1>0 DEF HeldInv, Resumable, Serves
  <2>2. new \in Row /\ new.previous \in Sound /\ new.target \in Image
    BY <1>0, <2>1, ImageAssumption DEF Row, Phase, HeldInv, TypeOK
  <2>3. /\ row' = new
        /\ work[w]' = [work[w] EXCEPT !.view = new, !.opened = FALSE, !.at = "purge"]
        /\ UNCHANGED <<dockerVars, alive, lock, overlapped, troubles>>
    BY <1>0, <1>3, <2>2, CommitWrites DEF HeldInv, Place
  <2> QED
    BY <1>0, <1>3, <2>1, <2>2, <2>3, SMTT(30) DEF Outcome, Open, HeldInv, TypeOK,
       Coherent, Resumable, InPlace, OldStays, OldAside, NewAlone, Serves, At, Closed,
       LatePhase, Job, dockerVars
<1> QED  BY <1>1, <1>2, <1>3 DEF Inspect

LEMMA PurgeSafe ==
    ASSUME HeldInv, TypeOK', NEW w \in Worker, ~ overlapped, Purge(w)
    PROVE  Coherent' /\ Resumable' /\ InPlace(work[w])' /\ Outcome
BY SMTT(30) DEF Outcome, HeldInv, TypeOK, Coherent, Resumable, InPlace, OldStays, Purge,
   At, Go, Docker, Closed, Job, dockerVars

LEMMA RetireSafe ==
    ASSUME HeldInv, TypeOK', NEW w \in Worker, ~ overlapped, Retire(w)
    PROVE  Coherent' /\ Resumable' /\ InPlace(work[w])' /\ Outcome
BY ImageAssumption, SMTT(30) DEF Outcome, HeldInv, TypeOK, Coherent, Resumable, InPlace,
   OldStays, OldAside, Retire, At, Go, Docker, Closed, Missing, Job, dockerVars

LEMMA StopSafe ==
    ASSUME HeldInv, TypeOK', NEW w \in Worker, ~ overlapped, Stop(w)
    PROVE  Coherent' /\ Resumable' /\ InPlace(work[w])' /\ Outcome
BY ImageAssumption, SMTT(30) DEF Outcome, HeldInv, TypeOK, Coherent, Resumable, InPlace,
   OldAside, Stop, At, Go, Docker, Closed, Missing, Container, Job, dockerVars

LEMMA CreateSafe ==
    ASSUME HeldInv, TypeOK', NEW w \in Worker, ~ overlapped, Create(w)
    PROVE  Coherent' /\ Resumable' /\ InPlace(work[w])' /\ Outcome
BY ImageAssumption, SMTT(30) DEF Outcome, HeldInv, TypeOK, Coherent, Resumable, InPlace,
   OldAside, Create, At, Go, Docker, Closed, Job, dockerVars

LEMMA LaunchSafe ==
    ASSUME HeldInv, TypeOK', NEW w \in Worker, ~ overlapped, Launch(w)
    PROVE  Coherent' /\ Resumable' /\ InPlace(work[w])' /\ Outcome
BY ImageAssumption, SMTT(30) DEF Outcome, HeldInv, TypeOK, Coherent, Resumable, InPlace,
   OldAside, Launch, At, Go, Docker, Closed, Missing, Container, Job, dockerVars

LEMMA UndoSafe ==
    ASSUME HeldInv, TypeOK', NEW w \in Worker, ~ overlapped, Undo(w)
    PROVE  Coherent' /\ Resumable' /\ InPlace(work[w])' /\ Outcome
BY SMTT(30) DEF Outcome, HeldInv, TypeOK, Coherent, Resumable, InPlace, OldAside, Undo,
   At, Go, Docker, Closed, Job, dockerVars

LEMMA UnnameSafe ==
    ASSUME HeldInv, TypeOK', NEW w \in Worker, ~ overlapped, Unname(w)
    PROVE  Coherent' /\ Resumable' /\ InPlace(work[w])' /\ Outcome
BY ImageAssumption, SMTT(30) DEF Outcome, HeldInv, TypeOK, Coherent, Resumable, InPlace,
   OldStays, OldAside, Unname, At, Go, Docker, Closed, Missing, Job, dockerVars

LEMMA ReviveSafe ==
    ASSUME HeldInv, TypeOK', NEW w \in Worker, ~ overlapped, Revive(w)
    PROVE  Coherent' /\ Resumable' /\ InPlace(work[w])' /\ Outcome
BY ImageAssumption, SMTT(30) DEF Outcome, HeldInv, TypeOK, Coherent, Resumable, InPlace,
   OldStays, Revive, At, Go, Docker, Closed, Missing, Container, Job, dockerVars

LEMMA SwappedSafe ==
    ASSUME HeldInv, TypeOK', NEW w \in Worker, ~ overlapped, Swapped(w)
    PROVE  Coherent' /\ Resumable' /\ InPlace(work[w])' /\ Outcome
<1> DEFINE new == [work[w].view EXCEPT !.phase = "swapped"]
<1>0. /\ work[w].at = "swapped" /\ work[w].view = row /\ row.phase = "prepared"
      /\ work[w] \in Job
  BY DEF HeldInv, TypeOK, InPlace, Swapped, At
<1>1. CASE Unanswered(w, "failed")
  BY <1>0, <1>1, SMTT(30) DEF Unanswered, Go, Outcome, Open, HeldInv, TypeOK, Coherent,
     Resumable, InPlace, OldStays, OldAside, NewAlone, Serves, At, Closed, LatePhase,
     Job, dockerVars
<1>2. CASE SetPhase(w, "swapped", "validate")
  <2>1. new \in Row  BY <1>0 DEF HeldInv, TypeOK, Row, Phase
  <2>2. /\ row' = new
        /\ work[w]' = [work[w] EXCEPT !.view = new, !.opened = FALSE, !.at = "validate"]
        /\ UNCHANGED <<dockerVars, alive, lock, overlapped, troubles>>
    BY <1>0, <1>2, <2>1, CommitWrites DEF SetPhase, HeldInv, Place
  <2> QED
    BY <1>0, <2>1, <2>2, SMTT(30) DEF Row, Outcome, Open, HeldInv, TypeOK, Coherent,
       Resumable, InPlace, OldStays, OldAside, NewAlone, Serves, At, Closed, LatePhase,
       Job, dockerVars
<1> QED  BY <1>1, <1>2 DEF Swapped

LEMMA ValidateTargetSafe ==
    ASSUME HeldInv, TypeOK', NEW w \in Worker, ~ overlapped, ValidateTarget(w)
    PROVE  Coherent' /\ Resumable' /\ InPlace(work[w])' /\ Outcome
BY SMTT(30) DEF Outcome, HeldInv, TypeOK, Coherent, Resumable, InPlace, OldAside,
   Serves, ValidateTarget, At, Go, Validate, Job

LEMMA RecordSafe ==
    ASSUME HeldInv, TypeOK', NEW w \in Worker, ~ overlapped, Record(w)
    PROVE  Coherent' /\ Resumable' /\ InPlace(work[w])' /\ Outcome
<1> DEFINE new == [work[w].view EXCEPT !.desired = work[w].wanted]
<1>1. work[w].view = row  BY DEF HeldInv, InPlace, Record, At
<1>2. new \in Row /\ "answer" \in Place
  BY <1>1, ImageAssumption
     DEF HeldInv, TypeOK, Row, Phase, Closed, Record, At, InPlace, Serves, Job, Place
<1>3. /\ row' = new
      /\ work[w]' = [work[w] EXCEPT !.view = new, !.opened = FALSE, !.at = "answer"]
      /\ UNCHANGED <<dockerVars, alive, lock, overlapped, troubles>>
  BY <1>1, <1>2, CommitWrites DEF HeldInv, Record
<1> QED
  BY <1>1, <1>2, <1>3, SMTT(30)
  DEF Outcome, Open, HeldInv, Coherent, Resumable, InPlace, Serves, Record, At, Closed,
      dockerVars

LEMMA ValidatedSafe ==
    ASSUME HeldInv, TypeOK', NEW w \in Worker, ~ overlapped, Validated(w)
    PROVE  Coherent' /\ Resumable' /\ InPlace(work[w])' /\ Outcome
<1> DEFINE new == [work[w].view EXCEPT !.phase = "validated"]
<1>1. work[w].view = row  BY DEF HeldInv, InPlace, Validated, At
<1>2. new \in Row /\ "finalizing" \in Place
  BY <1>1, ImageAssumption
     DEF HeldInv, TypeOK, Row, Phase, Closed, Validated, At, InPlace, Serves, Job, Place
<1>3. /\ row' = new
      /\ work[w]' = [work[w] EXCEPT !.view = new, !.opened = FALSE, !.at = "finalizing"]
      /\ UNCHANGED <<dockerVars, alive, lock, overlapped, troubles>>
  BY <1>1, <1>2, CommitWrites DEF HeldInv, Validated, SetPhase
<1> QED
  BY <1>1, <1>2, <1>3, SMTT(30)
  DEF Outcome, Open, HeldInv, Coherent, Resumable, InPlace, OldStays, OldAside, NewAlone,
      Serves, Validated, At, Closed, LatePhase, dockerVars

LEMMA FinalizingSafe ==
    ASSUME HeldInv, TypeOK', NEW w \in Worker, ~ overlapped, Finalizing(w)
    PROVE  Coherent' /\ Resumable' /\ InPlace(work[w])' /\ Outcome
<1> DEFINE new == [work[w].view EXCEPT !.phase = "finalizing"]
<1>1. work[w].view = row  BY DEF HeldInv, InPlace, Finalizing, At
<1>2. new \in Row /\ "settle" \in Place
  BY <1>1, ImageAssumption
     DEF HeldInv, TypeOK, Row, Phase, Closed, Finalizing, At, InPlace, Serves, Job, Place
<1>3. /\ row' = new
      /\ work[w]' = [work[w] EXCEPT !.view = new, !.opened = FALSE, !.at = "settle"]
      /\ UNCHANGED <<dockerVars, alive, lock, overlapped, troubles>>
  BY <1>1, <1>2, CommitWrites DEF HeldInv, Finalizing, SetPhase
<1> QED
  BY <1>1, <1>2, <1>3, SMTT(30)
  DEF Outcome, Open, HeldInv, Coherent, Resumable, InPlace, OldStays, OldAside, NewAlone,
      Serves, Finalizing, At, Closed, LatePhase, dockerVars

LEMMA SettleSafe ==
    ASSUME HeldInv, TypeOK', NEW w \in Worker, ~ overlapped, Settle(w)
    PROVE  Coherent' /\ Resumable' /\ InPlace(work[w])' /\ Outcome
BY SMTT(30) DEF Outcome, HeldInv, TypeOK, Coherent, Resumable, InPlace, OldStays,
   OldAside, NewAlone, Serves, Settle, At, Go, Docker, LatePhase, Job, dockerVars

LEMMA FinishSafe ==
    ASSUME HeldInv, TypeOK', NEW w \in Worker, ~ overlapped, Finish(w)
    PROVE  Coherent' /\ Resumable' /\ InPlace(work[w])' /\ Outcome
<1> DEFINE new == Closed(work[w].wanted)
<1>1. work[w].view = row  BY DEF HeldInv, InPlace, Finish, At
<1>2. new \in Row /\ "answer" \in Place
  BY <1>1, ImageAssumption
     DEF HeldInv, TypeOK, Row, Phase, Closed, Finish, At, InPlace, Serves, Job, Place
<1>3. /\ row' = new
      /\ work[w]' = [work[w] EXCEPT !.view = new, !.opened = FALSE, !.at = "answer"]
      /\ UNCHANGED <<dockerVars, alive, lock, overlapped, troubles>>
  BY <1>1, <1>2, CommitWrites DEF HeldInv, Finish
<1> QED
  BY <1>1, <1>2, <1>3, SMTT(30)
  DEF Outcome, HeldInv, Coherent, Resumable, InPlace, Serves, Finish, At, Closed,
      dockerVars

LEMMA FailedSafe ==
    ASSUME HeldInv, TypeOK', NEW w \in Worker, ~ overlapped, Failed(w)
    PROVE  Coherent' /\ Resumable' /\ InPlace(work[w])' /\ Outcome
<1> DEFINE new == [row EXCEPT !.phase =
                           IF row.phase = "swapped" THEN "prepared" ELSE row.phase]
<1>0. work[w].at = "failed" /\ work[w].view = row /\ work[w] \in Job
  BY DEF HeldInv, TypeOK, InPlace, Failed, At
<1>1. CASE Raise(w, "answer")
  BY <1>0, <1>1, SMTT(30) DEF Raise, Go, Outcome, Open, HeldInv, TypeOK, Coherent,
     Resumable, InPlace, OldStays, OldAside, NewAlone, Serves, At, Closed, LatePhase,
     Job, dockerVars
<1>2. ASSUME row.phase # "none", row' = Written(row, new),
             work' = [work EXCEPT ![w] = [@ EXCEPT !.view = new,
                                     !.at = "recover", !.then = "answer"]],
             UNCHANGED <<dockerVars, alive, lock, overlapped, troubles>>
      PROVE  Coherent' /\ Resumable' /\ InPlace(work[w])' /\ Outcome
  <2>1. new \in Row /\ new.phase # "none"  BY <1>2 DEF HeldInv, TypeOK, Row, Phase
  <2>2. row' = new  BY <1>2, <2>1 DEF Written, Row
  <2>3. work[w]' = [work[w] EXCEPT !.view = new, !.at = "recover", !.then = "answer"]
    BY <1>2 DEF HeldInv, TypeOK
  <2> QED
    BY <1>0, <1>2, <2>1, <2>2, <2>3, SMTT(30) DEF Row, Outcome, Open, HeldInv, TypeOK,
       Coherent, Resumable, InPlace, OldStays, OldAside, NewAlone, Serves, At, Closed,
       LatePhase, Job, dockerVars
<1> QED  BY <1>0, <1>1, <1>2 DEF Failed

LEMMA AnswerSafe ==
    ASSUME HeldInv, TypeOK', NEW w \in Worker, ~ overlapped, Answer(w)
    PROVE  Coherent' /\ Resumable' /\ InPlace(work[w])' /\ Outcome
BY SMTT(30) DEF Outcome, HeldInv, Coherent, Resumable, InPlace, OldStays, OldAside,
   NewAlone, Serves, Answer, Idle, dockerVars

LEMMA ReconcileSafe ==
    ASSUME HeldInv, TypeOK', NEW w \in Worker, ~ overlapped, Reconcile(w)
    PROVE  Coherent' /\ Resumable' /\ InPlace(work[w])' /\ Outcome
<1>0. /\ work[w].at = "reconcile" /\ work[w].view = row /\ row.phase = "none"
      /\ work[w] \in Job
  BY DEF HeldInv, TypeOK, InPlace, Reconcile, At
<1>1. CASE Raise(w, "answer") \/ Unanswered(w, "answer")
  BY <1>0, <1>1, SMTT(30) DEF Raise, Unanswered, Go, Outcome, Open, HeldInv, TypeOK,
     Coherent, Resumable, InPlace, OldStays, OldAside, NewAlone, Serves, At, Closed,
     LatePhase, Job, dockerVars
<1>2. ASSUME row.desired # NoImage,
             work' = [work EXCEPT ![w] =
                   [@ EXCEPT !.at = "recover", !.wanted = row.desired,
                             !.opened = TRUE, !.then = "inspect"]],
             UNCHANGED <<dockerVars, row, alive, overlapped, troubles>>
      PROVE  Coherent' /\ Resumable' /\ InPlace(work[w])' /\ Outcome
  <2>1. work[w]' = [work[w] EXCEPT !.at = "recover", !.wanted = row.desired,
                                   !.opened = TRUE, !.then = "inspect"]
    BY <1>2 DEF HeldInv, TypeOK
  <2>2. row.desired \in Image  BY <1>2 DEF HeldInv, TypeOK, Row
  <2> QED
    BY <1>0, <1>2, <2>1, <2>2, SMTT(30) DEF Outcome, Open, HeldInv, TypeOK, Coherent,
       Resumable, InPlace, OldStays, OldAside, NewAlone, Serves, At, Closed, LatePhase,
       Job, dockerVars
<1> QED  BY <1>0, <1>1, <1>2 DEF Reconcile

-----------------------------------------------------------------------------
(* The invariant is inductive *)

LEMMA InitHeld == Init => HeldInv
<1> SUFFICES ASSUME Init PROVE HeldInv  OBVIOUS
<1>0. PICK i \in Sound, d \in Sound \cup {NoImage} :
          web = [image |-> i, up |-> TRUE] /\ row = Closed(d)
  BY DEF Init
<1>i. i \in Image /\ d \in Image \cup {NoImage} /\ i # NoImage  BY ImageAssumption
<1>1. TypeOK
  <2>1. web \in Container /\ backup \in Container
    BY <1>0, <1>i DEF Init, Container, Missing
  <2>2. row \in Row  BY <1>0, <1>i DEF Row, Phase, Closed
  <2>3. Idle \in Job  BY DEF Idle, Job, Place, NoRow, Row, Phase
  <2>4. troubles \in 0 .. MaxTroubles  BY MaxTroublesAssumption DEF Init
  <2> QED  BY <2>1, <2>2, <2>3, <2>4 DEF Init, TypeOK
<1>2. Sole /\ Coherent /\ Resumable
  <2>1. Sole  BY DEF Init, Sole, At, Worker, Idle
  <2>2. Coherent  BY <1>0, <1>i DEF Init, Coherent, Missing
  <2>3. row = Closed(row.desired)  BY <1>0 DEF Closed
  <2>4. Serves(i)  BY <1>0 DEF Init, Serves
  <2> QED  BY <2>1, <2>2, <2>3, <2>4 DEF Init, Resumable
<1>3. \A w \in Worker : InPlace(work[w])
  BY DEF Init, Idle, InPlace
<1>4. alive  BY DEF Init
<1> QED  BY <1>1, <1>2, <1>3, <1>4 DEF HeldInv

\* A step of a worker is one of its own.
LEMMA StepFrame ==
    ASSUME TypeOK, NEW w \in Worker, Step(w)
    PROVE  /\ ~ At(w, "idle")
           /\ \A v \in Worker \ {w} : work'[v] = work[v]
           /\ UNCHANGED <<alive, overlapped>>
BY DEF TypeOK, Step, Recover, Check, Mark, Drop, Adopt, Relapse, Unrecovered, Restore,
   Rename, Start, Prove, Discard, Clear, Inspect, Purge, Retire, Stop, Create, Launch,
   Undo, Unname, Revive, Swapped, ValidateTarget, Record, Validated, Finalizing, Settle,
   Finish, Failed, Answer, Reconcile, At, Go, Docker, Raise, Unanswered, Commit,
   SetPhase, SetBack, Validate

\* Every step of a worker that is alone keeps the containers where its next place
\* expects them, and ends a rollout as promised.
LEMMA StepSafe ==
    ASSUME HeldInv, TypeOK', NEW w \in Worker, ~ overlapped, Step(w)
    PROVE  Coherent' /\ Resumable' /\ InPlace(work[w])' /\ Outcome
BY RecoverSafe, CheckSafe, MarkSafe, DropSafe, AdoptSafe, RelapseSafe, UnrecoveredSafe,
   RestoreSafe, RenameSafe, StartSafe, ProveSafe, DiscardSafe, ClearSafe, InspectSafe,
   PurgeSafe, RetireSafe, StopSafe, CreateSafe, LaunchSafe, UndoSafe, UnnameSafe,
   ReviveSafe, SwappedSafe, ValidateTargetSafe, RecordSafe, ValidatedSafe,
   FinalizingSafe, SettleSafe, FinishSafe, FailedSafe, AnswerSafe, ReconcileSafe DEF
   Step

LEMMA StepHeld ==
    ASSUME HeldInv, NEW w \in Worker, Step(w)
    PROVE  HeldInv'
<1>1. TypeOK'  BY StepTyped DEF HeldInv
<1>2. /\ ~ At(w, "idle")
      /\ \A v \in Worker \ {w} : work'[v] = work[v]
      /\ UNCHANGED <<alive, overlapped>>
  BY StepFrame DEF HeldInv
<1>3. alive'  BY <1>2 DEF HeldInv
<1>4. ASSUME ~ overlapped
      PROVE  Sole' /\ Coherent' /\ Resumable' /\ \A v \in Worker : InPlace(work[v])'
  <2>1. Coherent' /\ Resumable' /\ InPlace(work[w])'  BY <1>1, <1>4, StepSafe
  <2>2. \A v \in Worker \ {w} : At(v, "idle")
    BY <1>2, <1>4 DEF HeldInv, Sole, Worker
  <2>3. \A v \in Worker \ {w} : work'[v].at = "idle"
    BY <1>2, <2>2 DEF At
  <2>4. Sole'  BY <2>3 DEF Sole, At, Worker
  <2>5. \A v \in Worker \ {w} : InPlace(work[v])'  BY <2>3 DEF InPlace
  <2> QED  BY <2>1, <2>4, <2>5
<1> QED  BY <1>1, <1>2, <1>3, <1>4 DEF HeldInv

LEMMA RequestHeld ==
    ASSUME HeldInv, NEW image \in Image, Request(image)
    PROVE  HeldInv'
<1> DEFINE j == [Idle EXCEPT !.at = "recover", !.wanted = image, !.view = row,
                             !.opened = TRUE, !.then = "inspect"]
<1>1. work' = [work EXCEPT !["request"] = j] /\ lock' = "request"  BY DEF Request
<1>2. /\ j \in Job /\ j.at = "recover" /\ j.view = row /\ j.wanted = image
  BY DEF HeldInv, TypeOK, Idle, NoRow, Job, Place, Phase, Row
<1> HIDE DEF j
<1>3. troubles' \in 0 .. MaxTroubles /\ overlapped' \in BOOLEAN
  <2>1. CASE At("startup", "idle")  BY <2>1 DEF Request, HeldInv, TypeOK
  <2>2. CASE ~ At("startup", "idle")
    BY <2>2, MaxTroublesAssumption DEF Request, Trouble, HeldInv, TypeOK
  <2> QED  BY <2>1, <2>2
<1>4. TypeOK'
  BY <1>1, <1>2, <1>3 DEF Request, HeldInv, TypeOK, Worker, dockerVars
<1>5. alive'  BY DEF Request
<1>6. ASSUME ~ overlapped'
      PROVE  Sole' /\ Coherent' /\ Resumable' /\ \A v \in Worker : InPlace(work[v])'
  <2>1. ~ overlapped /\ At("startup", "idle")  BY <1>6 DEF Request, HeldInv, TypeOK
  <2>2. work'["startup"].at = "idle" /\ work'["request"] = j
    BY <1>1, <2>1 DEF HeldInv, TypeOK, Worker, At
  <2>3. Coherent' /\ Resumable'
    BY <2>1 DEF HeldInv, Request, dockerVars, Coherent, Resumable, OldStays, OldAside,
       NewAlone, Serves
  <2>4. InPlace(work["startup"])'  BY <2>2 DEF InPlace
  <2>5. InPlace(work["request"])'  BY <1>2, <2>2 DEF InPlace, Request
  <2> QED  BY <2>2, <2>3, <2>4, <2>5 DEF Sole, At, Worker
<1> QED  BY <1>4, <1>5, <1>6 DEF HeldInv

LEMMA DieHeld ==
    ASSUME HeldInv, Die
    PROVE  HeldInv'
<1>1. TypeOK'
  <2>1. troubles' \in 0 .. MaxTroubles
    BY MaxTroublesAssumption DEF Die, Trouble, HeldInv, TypeOK
  <2>2. Idle \in Job  BY DEF Idle, Job, Place, NoRow, Row, Phase
  <2> QED  BY <2>1, <2>2 DEF Die, HeldInv, TypeOK, dockerVars, Free, Worker
<1>2. \A w \in Worker : work'[w].at = "idle"  BY DEF Die, Idle
<1>3. overlapped' = overlapped  BY DEF Die
<1>4. ASSUME ~ overlapped
      PROVE  Sole' /\ Coherent' /\ Resumable' /\ \A v \in Worker : InPlace(work[v])'
  <2>1. Coherent' /\ Resumable'
    BY <1>4 DEF HeldInv, Die, dockerVars, Coherent, Resumable, OldStays, OldAside,
       NewAlone, Serves
  <2>2. \A v \in Worker : InPlace(work[v])'  BY <1>2 DEF InPlace
  <2>3. Sole'  BY <1>2 DEF Sole, At, Worker
  <2> QED  BY <2>1, <2>2, <2>3
<1> QED  BY <1>1, <1>2, <1>3, <1>4 DEF HeldInv, At

LEMMA BootHeld ==
    ASSUME HeldInv, Boot
    PROVE  HeldInv'
<1>1. TypeOK'
  BY DEF Boot, HeldInv, TypeOK, Container, Job, Place, Worker
<1>2. alive' /\ overlapped' = overlapped  BY DEF Boot
<1>3. \A w \in Worker : work[w].at = "idle"  BY DEF HeldInv, Boot, At
<1>4. work'["request"].at = "idle" /\ work'["startup"].at = "boot"
  BY <1>3 DEF Boot, HeldInv, TypeOK, Worker
<1>5. ASSUME ~ overlapped
      PROVE  Sole' /\ Coherent' /\ Resumable' /\ \A v \in Worker : InPlace(work[v])'
  <2>1. Coherent'  BY <1>5 DEF HeldInv, Boot, Coherent
  <2>2. Resumable'
    BY <1>5 DEF HeldInv, TypeOK, Boot, Resumable, OldStays, OldAside, NewAlone, Serves,
       Coherent
  <2>3. \A v \in Worker : InPlace(work[v])'  BY <1>4 DEF InPlace, Worker
  <2> QED  BY <1>4, <2>1, <2>2, <2>3 DEF Sole, At
<1> QED  BY <1>1, <1>2, <1>5 DEF HeldInv

LEMMA ReadAtBootHeld ==
    ASSUME HeldInv, ReadAtBoot
    PROVE  HeldInv'
<1> DEFINE j == [Idle EXCEPT !.at = "recover", !.view = row, !.opened = TRUE,
                             !.then = "reconcile"]
<1>1. work' = [work EXCEPT !["startup"] = j]  BY DEF ReadAtBoot
<1>2. j \in Job /\ j.at = "recover" /\ j.view = row /\ j.then = "reconcile"
  BY DEF HeldInv, TypeOK, Idle, NoRow, Job, Place, Phase, Row
<1> HIDE DEF j
<1>3. TypeOK'
  BY <1>1, <1>2 DEF ReadAtBoot, HeldInv, TypeOK, Worker, dockerVars
<1>4. alive' /\ overlapped' = overlapped
  BY DEF ReadAtBoot, HeldInv, At, Worker
<1>5. ASSUME ~ overlapped
      PROVE  Sole' /\ Coherent' /\ Resumable' /\ \A v \in Worker : InPlace(work[v])'
  <2>1. Coherent' /\ Resumable'
    BY <1>5 DEF HeldInv, ReadAtBoot, dockerVars, Coherent, Resumable, OldStays,
       OldAside, NewAlone, Serves
  <2>2. work["request"].at = "idle"  BY <1>5 DEF HeldInv, Sole, ReadAtBoot, At
  <2>3. work'["request"].at = "idle" /\ work'["startup"] = j
    BY <1>1, <2>2 DEF HeldInv, TypeOK, Worker
  <2>4. InPlace(work["request"])'  BY <2>3 DEF InPlace
  <2>5. InPlace(work["startup"])'  BY <1>2, <2>3 DEF InPlace, ReadAtBoot
  <2> QED  BY <2>1, <2>3, <2>4, <2>5 DEF Sole, At, Worker
<1> QED  BY <1>3, <1>4, <1>5 DEF HeldInv

LEMMA NextHeld == HeldInv /\ [Next]_vars => HeldInv'
<1> SUFFICES ASSUME HeldInv, [Next]_vars PROVE HeldInv'  OBVIOUS
<1>1. ASSUME NEW w \in Worker, Step(w) PROVE HeldInv'  BY <1>1, StepHeld
<1>2. ASSUME NEW image \in Image, Request(image) PROVE HeldInv'  BY <1>2, RequestHeld
<1>3. CASE Die  BY <1>3, DieHeld
<1>4. CASE Boot  BY <1>4, BootHeld
<1>5. CASE ReadAtBoot  BY <1>5, ReadAtBootHeld
<1>6. CASE UNCHANGED vars
  BY <1>6 DEF vars, dockerVars, HeldInv, TypeOK, Sole, At, Coherent, Resumable,
     OldStays, OldAside, NewAlone, Serves, InPlace
<1> QED  BY <1>1, <1>2, <1>3, <1>4, <1>5, <1>6 DEF Next

LEMMA Held == Spec => []HeldInv
  BY InitHeld, NextHeld, PTL DEF Spec

-----------------------------------------------------------------------------
(* One exchange that happens or does not *)

\* What a step of a worker that is alone does to the row and the containers: it
\* leaves the row, and without a journal the container too, or it writes one
\* thing to the row and touches no container.
Advance == row.phase # "none" /\ row'.phase # "none"
               /\ row' = [row EXCEPT !.phase = row'.phase]
Opening ==
    /\ row.phase = "none" /\ row'.phase # "none"
    /\ row'.target \in Image \ {web.image} /\ row'.previous = web.image
    /\ row'.desired = row.desired
Success ==
    row.phase # "none" /\ row' = Closed(row.target) /\ Serves(row.target)
Retreat ==
    row.phase # "none" /\ row' = Closed(row.desired) /\ Serves(row.previous)
Recording ==
    row.phase = "none" /\ row' = [row EXCEPT !.desired = web.image]

Moves ==
    \/ row' = row /\ (row.phase = "none" => web' = web)
    \/ UNCHANGED dockerVars /\ (Advance \/ Opening \/ Success \/ Retreat \/ Recording)

\* A worker that writes the phase only, with the row in hand.
LEMMA SetPhaseMoves ==
    ASSUME HeldInv, NEW w \in Worker, NEW phase \in Phase \ {"none"}, NEW place \in Place,
           work[w].view = row, row.phase # "none", SetPhase(w, phase, place)
    PROVE  Moves
<1> DEFINE new == [row EXCEPT !.phase = phase]
<1>1. new \in Row /\ new.phase = phase  BY DEF HeldInv, TypeOK, Row
<1>2. Commit(w, new, place)  BY DEF SetPhase
<1>3. row' = new /\ UNCHANGED dockerVars
  BY <1>1, <1>2, CommitWrites DEF HeldInv
<1> QED  BY <1>1, <1>3 DEF Moves, Advance

LEMMA SetBackMoves ==
    ASSUME HeldInv, NEW w \in Worker, NEW place \in Place,
           work[w].view = row, row.phase # "none", work[w].from # "none",
           SetBack(w, place)
    PROVE  Moves
<1>1. row' = [row EXCEPT !.phase = work[w].from] /\ UNCHANGED dockerVars
  BY SetBackWrites DEF HeldInv
<1>2. row'.phase = work[w].from  BY <1>1 DEF HeldInv, TypeOK, Row
<1> QED  BY <1>1, <1>2 DEF Moves, Advance

\* A worker that clears the row, with the row in hand.
LEMMA CloseMoves ==
    ASSUME HeldInv, NEW w \in Worker, NEW i \in Image \cup {NoImage}, NEW place \in Place,
           work[w].view = row, row.phase # "none", Commit(w, Closed(i), place),
           \/ i = row.target /\ Serves(row.target)
           \/ i = row.desired /\ Serves(row.previous)
    PROVE  Moves
<1>1. Closed(i) \in Row  BY Places
<1>2. row' = Closed(i) /\ UNCHANGED dockerVars
  BY <1>1, CommitWrites DEF HeldInv
<1> QED  BY <1>2 DEF Moves, Success, Retreat

LEMMA StepMoves ==
    ASSUME HeldInv, NEW w \in Worker, ~ overlapped, Step(w)
    PROVE  Moves
<1>0. /\ work[w] \in Job /\ row \in Row /\ InPlace(work[w]) /\ Resumable
  BY DEF HeldInv, TypeOK
<1>w. work[w].then \in Place /\ \A place \in Working : place \in Place
  BY <1>0 DEF Job, Place, Working
<1> USE Places
<1>1. CASE Mark(w) \/ Validated(w) \/ Finalizing(w)
  BY <1>0, <1>w, <1>1, SetPhaseMoves
     DEF Mark, Validated, Finalizing, At, InPlace, LatePhase
<1>2. CASE Relapse(w) \/ Unrecovered(w)
  BY <1>0, <1>w, <1>2, SetBackMoves DEF Relapse, Unrecovered, At, InPlace, LatePhase
<1>3. CASE Adopt(w) \/ Finish(w)
  BY <1>0, <1>w, <1>3, CloseMoves
     DEF Adopt, Finish, At, InPlace, LatePhase, Row
<1>4. CASE Clear(w)
  BY <1>0, <1>w, <1>4, CloseMoves DEF Clear, At, InPlace, Row
<1>5. CASE Inspect(w)
  <2> DEFINE new == [phase |-> "prepared", target |-> work[w].wanted,
                     previous |-> web.image, desired |-> work[w].view.desired]
  <2>1. CASE Raise(w, "failed") \/ Raise(w, "validate") \/ Unanswered(w, "failed")
    BY <2>1 DEF Raise, Unanswered, Moves, dockerVars
  <2>2. CASE web.image # work[w].wanted /\ Commit(w, new, "purge")
    <3>1. work[w].view = row /\ row.phase = "none" /\ work[w].wanted \in Image
      BY <1>0, <1>5 DEF Inspect, At, InPlace
    <3>2. new \in Row
      BY <1>0, <3>1 DEF HeldInv, TypeOK, Row, Phase, Container
    <3>3. row' = new /\ UNCHANGED dockerVars
      BY <1>w, <2>2, <3>1, <3>2, CommitWrites DEF HeldInv
    <3> QED  BY <2>2, <3>1, <3>3 DEF Moves, Opening
  <2> QED  BY <1>5, <2>1, <2>2 DEF Inspect
<1>6. CASE Record(w)
  <2> DEFINE new == [row EXCEPT !.desired = work[w].wanted]
  <2>1. work[w].view = row /\ row.phase = "none" /\ web.image = work[w].wanted
    BY <1>0, <1>6 DEF Record, At, InPlace, Serves
  <2>2. new \in Row  BY <1>0 DEF Row, Job
  <2>3. row' = new /\ UNCHANGED dockerVars
    BY <1>w, <1>6, <2>1, <2>2, CommitWrites DEF HeldInv, Record
  <2> QED  BY <2>1, <2>3 DEF Moves, Recording
<1>7. CASE Swapped(w)
  <2>1. CASE Unanswered(w, "failed")
    BY <2>1 DEF Unanswered, Moves, dockerVars
  <2>2. CASE SetPhase(w, "swapped", "validate")
    BY <1>0, <1>w, <1>7, <2>2, SetPhaseMoves DEF Swapped, At, InPlace
  <2> QED  BY <1>7, <2>1, <2>2 DEF Swapped
<1>8. CASE Failed(w)
  <2>1. work[w].view = row  BY <1>0, <1>8 DEF Failed, At, InPlace
  <2>2. CASE row.phase = "none"
    BY <1>8, <2>1, <2>2 DEF Failed, Raise, Moves, dockerVars
  <2>3. CASE row.phase # "none"
    <3> DEFINE new == [row EXCEPT !.phase =
                           IF row.phase = "swapped" THEN "prepared" ELSE row.phase]
    <3>1. row' = Written(row, new) /\ UNCHANGED dockerVars
      BY <1>8, <2>1, <2>3 DEF Failed
    <3>2. Written(row, new) = new /\ new.phase # "none"
      BY <1>0, <2>3 DEF Written, Row
    <3>3. row' = [row EXCEPT !.phase = row'.phase]  BY <1>0, <3>1, <3>2 DEF Row
    <3> QED  BY <2>3, <3>1, <3>2, <3>3 DEF Moves, Advance
  <2> QED  BY <2>2, <2>3
<1>9. CASE \/ Check(w) \/ Drop(w) \/ Restore(w) \/ Rename(w) \/ Start(w) \/ Prove(w)
           \/ Discard(w) \/ Purge(w) \/ Retire(w) \/ Stop(w) \/ Create(w) \/ Launch(w)
           \/ Undo(w) \/ Unname(w) \/ Revive(w) \/ Settle(w)
  <2>1. row.phase # "none"
    BY <1>0, <1>9 DEF InPlace, LatePhase, Check, Drop, Restore, Rename, Start, Prove,
       Discard, Purge, Retire, Stop, Create, Launch, Undo, Unname, Revive, Settle, At
  <2>2. row' = row
    BY <1>9 DEF Check, Drop, Restore, Rename, Start, Prove, Discard, Purge, Retire,
       Stop, Create, Launch, Undo, Unname, Revive, Settle, Docker, Raise, Validate
  <2> QED  BY <2>1, <2>2 DEF Moves
<1>10. CASE Recover(w) \/ ValidateTarget(w) \/ Answer(w) \/ Reconcile(w)
  BY <1>10 DEF Recover, ValidateTarget, Answer, Reconcile, Raise, Unanswered, Validate,
     Moves, dockerVars
<1> QED
  BY <1>1, <1>2, <1>3, <1>4, <1>5, <1>6, <1>7, <1>8, <1>9, <1>10 DEF Step

\* So does every other step.
LEMMA NextMoves ==
    ASSUME HeldInv, HeldInv', [Next]_vars, ~ overlapped'
    PROVE  Moves /\ ~ overlapped
<1>1. ASSUME NEW w \in Worker, Step(w) PROVE Moves /\ ~ overlapped
  BY <1>1, StepFrame, StepMoves DEF HeldInv
<1>2. CASE \/ \E image \in Image : Request(image)
           \/ Die \/ Boot \/ ReadAtBoot \/ UNCHANGED vars
  BY <1>2 DEF Request, Die, Boot, ReadAtBoot, vars, dockerVars, Moves, HeldInv, TypeOK
<1> QED  BY <1>1, <1>2 DEF Next

\* What NodeWeb sees.
Kept == IF Open(row) THEN row.previous ELSE web.image
Goal == IF Open(row) THEN row.target ELSE NoImage
Serving == {i \in Sound : Serves(i)}

LEMMA SteadyServes ==
    Resumable /\ row.phase = "none" =>
        /\ Kept = web.image /\ Goal = NoImage
        /\ web.image \in Sound /\ Serving = {web.image}
<1> SUFFICES ASSUME Resumable, row.phase = "none"
             PROVE  /\ Kept = web.image /\ Goal = NoImage
                    /\ web.image \in Sound /\ Serving = {web.image}
  OBVIOUS
<1>1. PICK i \in Sound : Serves(i)  BY DEF Resumable
<1>2. web.image = i  BY <1>1 DEF Serves
<1>3. \A j \in Sound : Serves(j) <=> j = i  BY <1>1 DEF Serves
<1>4. Serving = {i}  BY <1>3 DEF Serving
<1> QED  BY <1>2, <1>4 DEF Kept, Goal, Open

LEMMA ExchangeServes ==
    Resumable /\ row.phase # "none" =>
        /\ Kept = row.previous /\ Goal = row.target
        /\ row.target # NoImage /\ row.target # row.previous
        /\ row.target \in Image /\ row.previous \in Sound
        /\ Serving \subseteq {row.previous, row.target}
<1> SUFFICES ASSUME Resumable, row.phase # "none"
             PROVE  /\ Kept = row.previous /\ Goal = row.target
                    /\ row.target # NoImage /\ row.target # row.previous
                    /\ row.target \in Image /\ row.previous \in Sound
                    /\ Serving \subseteq {row.previous, row.target}
  OBVIOUS
<1>1. /\ row.target \in Image /\ row.previous \in Sound /\ row.target # row.previous
      /\ OldStays \/ OldAside \/ NewAlone
  BY DEF Resumable, Closed
<1>2. row.target # NoImage  BY <1>1, ImageAssumption
<1>3. ASSUME NEW i \in Sound, Serves(i) PROVE i \in {row.previous, row.target}
  <2>1. web = [image |-> i, up |-> TRUE] /\ i # NoImage
    BY <1>3, ImageAssumption DEF Serves
  <2> QED  BY <1>1, <2>1 DEF OldStays, OldAside, NewAlone, Missing
<1>4. Serving \subseteq {row.previous, row.target}  BY <1>3 DEF Serving
<1> QED  BY <1>1, <1>2, <1>4 DEF Kept, Goal, Open

\* What serves is one image at most.
LEMMA OneServes ==
    ASSUME NEW i \in Sound, Serves(i)
    PROVE  Serving = {i}
<1>1. \A j \in Sound : Serves(j) <=> j = i  BY DEF Serves
<1> QED  BY <1>1 DEF Serving

LEMMA InitMaps == Init => Node!Init
<1> SUFFICES ASSUME Init PROVE Node!Init  OBVIOUS
<1>1. PICK d \in Sound \cup {NoImage} : row = Closed(d)  BY DEF Init
<1>2. Resumable /\ row.phase = "none"
  BY <1>1, InitHeld DEF HeldInv, Init, Closed
<1>3. /\ Kept = web.image /\ Goal = NoImage
      /\ web.image \in Sound /\ Serving = {web.image}
  BY <1>2, SteadyServes
<1>4. row.desired \in Sound \cup {NoImage}  BY <1>1 DEF Closed
<1> QED  BY <1>3, <1>4 DEF Node!Init, Node!Steady, Kept, Goal, Serving

\* Each of the moves is a step of NodeWeb, or none.
LEMMA MovesMap ==
    ASSUME HeldInv, HeldInv', Moves, ~ overlapped, ~ overlapped'
    PROVE  [Node!Next]_(Node!vars)
<1> DEFINE same == Kept' = Kept /\ Goal' = Goal /\ row'.desired = row.desired
<1>0. /\ Resumable /\ Resumable' /\ row \in Row /\ row' \in Row
      /\ web' \in Container
  BY DEF HeldInv, TypeOK
<1>s. (Resumable /\ row.phase = "none" =>
        /\ Kept = web.image /\ Goal = NoImage
        /\ web.image \in Sound /\ Serving = {web.image})'
  BY SteadyServes, PTL
<1>e. (Resumable /\ row.phase # "none" =>
        /\ Kept = row.previous /\ Goal = row.target
        /\ row.target # NoImage /\ row.target # row.previous
        /\ row.target \in Image /\ row.previous \in Sound
        /\ Serving \subseteq {row.previous, row.target})'
  BY ExchangeServes, PTL
<1>1. CASE row' = row /\ (row.phase = "none" => web' = web)
  <2>1. CASE row.phase = "none"
    <3>1. same /\ Serving' = Serving
      BY <1>0, <1>1, <1>s, <2>1, SteadyServes
    <3> QED  BY <3>1 DEF Node!vars, Kept, Goal, Serving
  <2>2. CASE row.phase # "none"
    <3>1. same /\ Goal # NoImage /\ Serving' \subseteq {Kept, Goal}
      BY <1>0, <1>1, <1>e, <2>2, ExchangeServes
    <3>2. Node!Exchange
      BY <3>1 DEF Node!Exchange, Node!Steady, Kept, Goal, Serving
    <3> QED  BY <3>2 DEF Node!Next
  <2> QED  BY <2>1, <2>2
<1>2. ASSUME UNCHANGED dockerVars, Advance PROVE [Node!Next]_(Node!vars)
  <2>1. row'.target = row.target /\ row'.previous = row.previous
        /\ row'.desired = row.desired /\ row.phase # "none" /\ row'.phase # "none"
    BY <1>0, <1>2 DEF Advance, Row
  <2>2. same /\ Serving' = Serving
    BY <1>0, <1>2, <1>e, <2>1, ExchangeServes DEF Serving, Serves, dockerVars
  <2> QED  BY <2>2 DEF Node!vars, Kept, Goal, Serving
<1>3. ASSUME UNCHANGED dockerVars, Opening PROVE [Node!Next]_(Node!vars)
  <2>1. /\ Goal = NoImage /\ row'.target \in Image /\ row'.target # Kept
        /\ Goal' = row'.target /\ Kept' = Kept /\ row'.desired = row.desired
        /\ Serving' = Serving
    BY <1>0, <1>3, <1>e, SteadyServes DEF Opening, Serving, Serves, dockerVars
  <2>2. Node!Begin(row'.target)
    BY <2>1 DEF Node!Begin, Node!Steady, Kept, Goal, Serving
  <2> QED  BY <2>1, <2>2 DEF Node!Next
<1>4. ASSUME UNCHANGED dockerVars, Success PROVE [Node!Next]_(Node!vars)
  <2>1. row'.phase = "none" /\ row'.desired = row.target /\ web.image = row.target
        /\ row.target \in Sound
    BY <1>0, <1>4 DEF Success, Closed, Serves
  <2>2. Serving = {row.target}  BY <1>4, <2>1, OneServes DEF Success
  <2>3. /\ Goal # NoImage /\ Serving = {Goal} /\ Kept' = Goal /\ row'.desired = Goal
        /\ Goal' = NoImage /\ Serving' = Serving
    BY <1>0, <1>4, <1>s, <2>1, <2>2, ExchangeServes
       DEF Success, Serving, Serves, dockerVars
  <2>4. Node!Succeed
    BY <2>3 DEF Node!Succeed, Node!Steady, Kept, Goal, Serving
  <2> QED  BY <2>4 DEF Node!Next
<1>5. ASSUME UNCHANGED dockerVars, Retreat PROVE [Node!Next]_(Node!vars)
  <2>1. row'.phase = "none" /\ row'.desired = row.desired /\ web.image = row.previous
        /\ row.previous \in Sound
    BY <1>0, <1>5 DEF Retreat, Closed, Serves
  <2>2. Serving = {row.previous}  BY <1>5, <2>1, OneServes DEF Retreat
  <2>3. /\ Goal # NoImage /\ Serving = {Kept} /\ Kept' = Kept /\ Goal' = NoImage
        /\ row'.desired = row.desired /\ Serving' = Serving
    BY <1>0, <1>5, <1>s, <2>1, <2>2, ExchangeServes
       DEF Retreat, Serving, Serves, dockerVars
  <2>4. Node!GiveUp
    BY <2>3 DEF Node!GiveUp, Node!Steady, Kept, Goal, Serving
  <2> QED  BY <2>4 DEF Node!Next
<1>6. ASSUME UNCHANGED dockerVars, Recording PROVE [Node!Next]_(Node!vars)
  <2>1. row.phase = "none" /\ row'.phase = "none" /\ row'.desired = web.image
    BY <1>0, <1>6 DEF Recording, Row
  <2>2. /\ Goal = NoImage /\ Goal' = NoImage /\ Kept' = Kept /\ row'.desired = Kept
        /\ Serving' = Serving
    BY <1>0, <1>6, <1>s, <2>1, SteadyServes DEF Serving, Serves, dockerVars
  <2>3. Node!Confirm
    BY <2>2 DEF Node!Confirm, Node!Steady, Kept, Goal, Serving
  <2> QED  BY <2>3 DEF Node!Next
<1> QED  BY <1>1, <1>2, <1>3, <1>4, <1>5, <1>6 DEF Moves

-----------------------------------------------------------------------------
(* Theorems *)

\* The variables keep their types, and who holds the lock is at work
\* (rollout_web_on_node closes the lock file on every way out).
THEOREM TypeCorrect == Spec => []TypeOK
<1>1. HeldInv => TypeOK  BY DEF HeldInv
<1> QED  BY <1>1, Held, PTL

\* While no request overlapped the task of the start: when no rollout is on
\* record, one container of a proved image serves behind
\* the routes (_recover_web_rollout_transaction and rollout_web_on_node clear
\* the row last).
THEOREM ClearRowsServe == Spec => []ClearRowServes
<1>1. HeldInv => ClearRowServes
  BY ImageAssumption DEF HeldInv, Resumable, ClearRowServes, Open
<1> QED  BY <1>1, Held, PTL

\* While no request overlapped it, a container of a proved image is on the node
\* (replace_web_container, recover_previous_web_container,
\* finalize_web_container).
THEOREM TheWebIsKept == Spec => []WebIsKept
<1>1. HeldInv => WebIsKept
  BY DEF HeldInv, Resumable, WebIsKept, OldStays, OldAside, NewAlone, Serves
<1> QED  BY <1>1, Held, PTL

\* While no request overlapped the task of the start: a rollout ends with its
\* target as the desired image or with what ran before it, and no image that
\* does not serve becomes the desired one.
THEOREM RolloutsEnd == Spec => EndsWithOneOfTwo
<1>1. ASSUME HeldInv, HeldInv', [Next]_vars, ~ overlapped' PROVE Outcome
  <2>1. CASE row' = row
    BY <2>1 DEF Outcome
  <2>2. ASSUME NEW w \in Worker, Step(w) PROVE Outcome
    BY <1>1, <2>2, StepFrame, StepSafe DEF HeldInv
  <2> QED  BY <1>1, <2>1, <2>2 DEF Next, Request, Die, Boot, ReadAtBoot, vars
<1>2. HeldInv /\ HeldInv' /\ [Next]_vars => [~ overlapped' => Outcome]_vars
  BY <1>1
<1> QED  BY <1>2, Held, PTL DEF Spec, EndsWithOneOfTwo, Outcome

\* While no request is served before the task at the start has ended, the journal
\* and the containers implement NodeWeb: an exchange happens whole or not at all
\* (rollout_web_on_node with _recover_web_rollout_transaction).
THEOREM NodeKeepsPromise == Spec => ImplementsNodeWeb
<1>1. ASSUME HeldInv, HeldInv', [Next]_vars, ~ overlapped'
      PROVE  [Node!Next]_(Node!vars)
  <2>1. Moves /\ ~ overlapped  BY <1>1, NextMoves
  <2> QED  BY <1>1, <2>1, MovesMap
<1>2. HeldInv /\ HeldInv' /\ [Next]_vars => [~ overlapped' => Node!Next]_(Node!vars)
  BY <1>1
<1> QED  BY <1>2, InitMaps, Held, PTL DEF Spec, ImplementsNodeWeb

=============================================================================
