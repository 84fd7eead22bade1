----------------------------- MODULE WebRollout ------------------------------
(***************************************************************************)
(* The exchange of the Web container on a node by the agent:                *)
(* perum-core/app/agent/service.py with the container operations of         *)
(* app/core/docker_client.py.                                               *)
(*                                                                         *)
(* A rollout writes each phase to a row of the agent's database before and  *)
(* after it touches Docker: the old container is renamed to                 *)
(* perum_web.rollback and stopped, the new one created, started, proved by  *)
(* its health and by the routes of Caddy, and only then the old one is      *)
(* removed.  The agent may die anywhere and any call of Docker may fail,    *)
(* done or not.  The next rollout, or a task at the start of the agent,     *)
(* finishes or undoes what the row says.                                    *)
(*                                                                         *)
(* Rollouts exclude each other by a lock that is only tried; the task at    *)
(* the start recovers without it.  Each of them reads the row once and      *)
(* works with its copy: a commit writes only the columns it changed.        *)
(***************************************************************************)
EXTENDS Integers

CONSTANTS
    Image,          \* the digests of perum-web that are asked for
    Sound,          \* those whose container becomes healthy
    NoImage,
    MaxTroubles     \* bound on deaths of the agent, failed calls, and requests
                    \* served while the task at the start is at work

ASSUME ImageAssumption == Sound \subseteq Image /\ Sound # {} /\ NoImage \notin Image
ASSUME MaxTroublesAssumption == MaxTroubles \in Nat

VARIABLES
    web,        \* the container perum_web
    backup,     \* the container perum_web.rollback
    routed,     \* the routes of Caddy lead to the running perum_web
    row,        \* AgentState: the journal of the rollout and the desired image
    alive,      \* the agent runs
    lock,       \* /tmp/perum-web-rollout.lock
    work,       \* the task at the start and the request that is served
    overlapped, \* history: a request was served before that task had ended
    troubles

dockerVars == <<web, backup, routed>>
vars == <<dockerVars, row, alive, lock, work, overlapped, troubles>>

Worker == {"startup", "request"}
Free == "free"

Container == [image : Image \cup {NoImage}, up : BOOLEAN]
Missing == [image |-> NoImage, up |-> FALSE]

Phase == {"none", "prepared", "swapped", "validated", "finalizing"}
\* MUTANT of LatePhase: recovery does not go on with a target whose old container
\* may be removed already
LatePhaseUntilFinal == {"swapped", "validated"}

LatePhase == {"swapped", "validated", "finalizing"}
Row == [phase : Phase, target : Image \cup {NoImage},
        previous : Image \cup {NoImage}, desired : Image \cup {NoImage}]

Place == {"idle", "boot", "recover", "check", "mark", "drop", "adopt", "relapse",
          "restore", "rename", "start", "prove", "discard", "clear", "unrecovered",
          "reconcile", "inspect", "purge", "retire", "stop", "create", "launch",
          "undo", "unname", "revive", "swapped", "validate", "validated",
          "finalizing", "settle", "finish", "record", "failed", "answer"}

NoRow == [phase |-> "none", target |-> NoImage, previous |-> NoImage,
          desired |-> NoImage]

\* view: the row as this worker has it; opened: its transaction has read the row
\* and committed nothing yet; from: the phase recovery began with; then: where
\* it goes on after a recovery.
Job == [at : Place, wanted : Image \cup {NoImage}, view : Row, from : Phase,
        opened : BOOLEAN, then : {"reconcile", "inspect", "answer"}]
Idle == [at |-> "idle", wanted |-> NoImage, view |-> NoRow, from |-> "none",
         opened |-> FALSE, then |-> "answer"]

TypeOK ==
    /\ web \in Container
    /\ backup \in Container
    /\ routed \in BOOLEAN
    /\ row \in Row
    /\ alive \in BOOLEAN
    /\ lock \in Worker \cup {Free}
    /\ work \in [Worker -> Job]
    /\ overlapped \in BOOLEAN
    /\ troubles \in 0 .. MaxTroubles
    /\ lock # Free => work[lock].at # "idle"

Open(r) == r.phase # "none" /\ r.target # NoImage
Closed(image) == [phase |-> "none", target |-> NoImage, previous |-> NoImage,
                  desired |-> image]

\* A node that serves, its row clear; the desired image may have been recorded
\* by an agent before a reinstallation of the node.
Init ==
    /\ \E i \in Sound : web = [image |-> i, up |-> TRUE]
    /\ backup = Missing
    /\ routed = TRUE
    /\ \E i \in Sound \cup {NoImage} : row = Closed(i)
    /\ alive = TRUE
    /\ lock = Free
    /\ work = [w \in Worker |-> Idle]
    /\ overlapped = FALSE
    /\ troubles = 0

-----------------------------------------------------------------------------
(* What the steps are made of *)

At(w, place) == work[w].at = place
Go(w, place) == work' = [work EXCEPT ![w].at = place]
Trouble == troubles < MaxTroubles /\ troubles' = troubles + 1

\* db.commit: what the worker changed since it read or wrote the row.
Written(old, new) ==
    [phase |-> IF new.phase = old.phase THEN row.phase ELSE new.phase,
     target |-> IF new.target = old.target THEN row.target ELSE new.target,
     previous |-> IF new.previous = old.previous THEN row.previous ELSE new.previous,
     desired |-> IF new.desired = old.desired THEN row.desired ELSE new.desired]

Commit(w, new, place) ==
    /\ row' = Written(work[w].view, new)
    /\ work' = [work EXCEPT ![w] = [@ EXCEPT !.view = new, !.opened = FALSE, !.at = place]]
    /\ UNCHANGED <<dockerVars, alive, lock, overlapped, troubles>>

SetPhase(w, phase, place) == Commit(w, [work[w].view EXCEPT !.phase = phase], place)

\* A call of Docker that changes containers; it may fail, done or not done.
Docker(w, newWeb, newBackup, newRouted, next, failed) ==
    LET done == web' = newWeb /\ backup' = newBackup /\ routed' = newRouted
    IN  /\ \/ done /\ Go(w, next) /\ UNCHANGED troubles
           \/ (done \/ UNCHANGED dockerVars) /\ Go(w, failed) /\ Trouble
        /\ UNCHANGED <<row, alive, lock, overlapped>>

\* An exception without any effect.
Raise(w, place) ==
    /\ Go(w, place)
    /\ UNCHANGED <<dockerVars, row, alive, lock, overlapped, troubles>>

\* A question to Docker that fails.
Unanswered(w, place) ==
    /\ Trouble
    /\ Go(w, place)
    /\ UNCHANGED <<dockerVars, row, alive, lock, overlapped>>

\* The container runs this image, becomes healthy, and the routes are led to it;
\* a failure may come before the routes or after them.
Validate(w, image, next, failed) ==
    /\ \/ /\ web = [image |-> image, up |-> TRUE] /\ image \in Sound
          /\ routed' = TRUE
          /\ Go(w, next)
          /\ UNCHANGED troubles
       \/ /\ web # [image |-> image, up |-> TRUE] \/ image \notin Sound
          /\ Go(w, failed)
          /\ UNCHANGED <<routed, troubles>>
       \/ /\ routed' \in {routed, web.up}
          /\ Go(w, failed)
          /\ Trouble
    /\ UNCHANGED <<web, backup, row, alive, lock, overlapped>>

-----------------------------------------------------------------------------
(* _recover_web_rollout_transaction *)

\* MUTANT of Recover: a journal left by another rollout is not looked at
RecoverNothing(w) == At(w, "recover") /\ Raise(w, work[w].then)

Recover(w) ==
    LET view == work[w].view
        late == view.phase \in LatePhase
        begin(place) ==
            /\ work' = [work EXCEPT ![w] = [@ EXCEPT !.at = place, !.from = view.phase]]
            /\ UNCHANGED <<dockerVars, row, alive, lock, overlapped, troubles>>
    IN  /\ At(w, "recover")
        /\ \/ ~ Open(view) /\ Raise(w, work[w].then)
           \/ Open(view) /\ late /\ web.image = view.target /\ begin("check")
           \/ Open(view) /\ ~ (late /\ web.image = view.target) /\ begin("restore")
           \/ Open(view) /\ late /\ Unanswered(w, "answer")

Check(w) == At(w, "check") /\ Validate(w, work[w].view.target, "mark", "relapse")
Mark(w) == At(w, "mark") /\ SetPhase(w, "finalizing", "drop")
Drop(w) == At(w, "drop") /\ Docker(w, web, Missing, routed, "adopt", "relapse")
\* MUTANT of Adopt: the image recovery proved is not recorded as the desired one
AdoptKeeps(w) ==
    At(w, "adopt") /\ Commit(w, Closed(work[w].view.desired), work[w].then)

Adopt(w) ==
    At(w, "adopt") /\ Commit(w, Closed(work[w].view.target), work[w].then)

\* The phase is set back to the one recovery began with.  While nothing was
\* committed, the rollback makes the copy be read anew.
SetBack(w, place) ==
    LET again == [row EXCEPT !.phase = work[w].from]
    IN  IF work[w].opened
        THEN /\ row' = again
             /\ work' = [work EXCEPT ![w] = [@ EXCEPT !.view = again,
                                        !.opened = FALSE, !.at = place]]
             /\ UNCHANGED <<dockerVars, alive, lock, overlapped, troubles>>
        ELSE SetPhase(w, work[w].from, place)

Relapse(w) == At(w, "relapse") /\ SetBack(w, "restore")
Unrecovered(w) == At(w, "unrecovered") /\ SetBack(w, "answer")

\* recover_previous_web_container: without the old container under its other
\* name, perum_web must be it.
Restore(w) ==
    LET previous == work[w].view.previous
    IN  /\ At(w, "restore")
        /\ \/ /\ previous = NoImage \/ (backup # Missing /\ backup.image # previous)
                                    \/ (backup = Missing /\ web.image # previous)
              /\ Raise(w, "unrecovered")
           \/ /\ previous # NoImage /\ backup = Missing /\ web.image = previous
              /\ Docker(w, [web EXCEPT !.up = TRUE], backup, routed, "prove", "unrecovered")
           \/ /\ previous # NoImage /\ backup # Missing /\ backup.image = previous
              /\ Docker(w, Missing, backup, FALSE, "rename", "unrecovered")

Rename(w) ==
    /\ At(w, "rename")
    /\ IF web = Missing /\ backup # Missing
       THEN Docker(w, backup, Missing, FALSE, "start", "unrecovered")
       ELSE Raise(w, "unrecovered")

Start(w) ==
    /\ At(w, "start")
    /\ IF web # Missing
       THEN Docker(w, [web EXCEPT !.up = TRUE], backup, routed, "prove", "unrecovered")
       ELSE Raise(w, "unrecovered")

\* MUTANT of Prove: the routes are not led back to the restored container
ProveUnrouted(w) ==
    /\ At(w, "prove")
    /\ Raise(w, IF web.image = work[w].view.previous THEN "discard" ELSE "unrecovered")

Prove(w) == At(w, "prove") /\ Validate(w, work[w].view.previous, "discard", "unrecovered")
Discard(w) == At(w, "discard") /\ Docker(w, web, Missing, routed, "clear", "unrecovered")
Clear(w) ==
    At(w, "clear") /\ Commit(w, Closed(work[w].view.desired), work[w].then)

-----------------------------------------------------------------------------
(* rollout_web_on_node *)

\* A request that finds the lock taken is refused.
Request(image) ==
    /\ alive
    /\ lock = Free
    /\ At("request", "idle")
    /\ lock' = "request"
    /\ work' = [work EXCEPT !["request"] =
           [Idle EXCEPT !.at = "recover", !.wanted = image, !.view = row,
                        !.opened = TRUE, !.then = "inspect"]]
    /\ IF At("startup", "idle") THEN UNCHANGED <<overlapped, troubles>>
       ELSE overlapped' = TRUE /\ Trouble
    /\ UNCHANGED <<dockerVars, row, alive>>

Inspect(w) ==
    /\ At(w, "inspect")
    /\ \/ web = Missing /\ Raise(w, "failed")
       \/ web # Missing /\ web.image = work[w].wanted /\ Raise(w, "validate")
       \/ /\ web # Missing /\ web.image # work[w].wanted
          /\ Commit(w, [phase |-> "prepared", target |-> work[w].wanted,
                        previous |-> web.image, desired |-> work[w].view.desired],
                    "purge")
       \/ Unanswered(w, "failed")

\* replace_web_container: an older backup goes, the image is pulled.
Purge(w) == At(w, "purge") /\ Docker(w, web, Missing, routed, "retire", "failed")

Retire(w) ==
    /\ At(w, "retire")
    /\ IF web # Missing /\ backup = Missing
       THEN Docker(w, Missing, web, FALSE, "stop", "failed")
       ELSE Raise(w, "failed")

Stop(w) ==
    /\ At(w, "stop")
    /\ IF backup # Missing
       THEN Docker(w, web, [backup EXCEPT !.up = FALSE], routed, "create", "failed")
       ELSE Raise(w, "failed")

Create(w) ==
    /\ At(w, "create")
    /\ IF web = Missing
       THEN Docker(w, [image |-> work[w].wanted, up |-> FALSE], backup, FALSE,
                   "launch", "undo")
       ELSE Raise(w, "undo")

Launch(w) ==
    /\ At(w, "launch")
    /\ IF web # Missing
       THEN Docker(w, [web EXCEPT !.up = TRUE], backup, FALSE, "swapped", "undo")
       ELSE Raise(w, "undo")

\* Its own way back, before the exception leaves it.
Undo(w) == At(w, "undo") /\ Docker(w, Missing, backup, FALSE, "unname", "failed")

Unname(w) ==
    /\ At(w, "unname")
    /\ IF web = Missing /\ backup # Missing
       THEN Docker(w, backup, Missing, FALSE, "revive", "failed")
       ELSE Raise(w, "failed")

Revive(w) ==
    /\ At(w, "revive")
    /\ IF web # Missing
       THEN Docker(w, [web EXCEPT !.up = TRUE], backup, routed, "failed", "failed")
       ELSE Raise(w, "failed")

\* MUTANT of Swapped: the target is taken as proved once it is started
SwappedUnproved(w) == At(w, "swapped") /\ SetPhase(w, "validated", "finalizing")

\* Another container of the node may have changed meanwhile.
Swapped(w) ==
    /\ At(w, "swapped")
    /\ SetPhase(w, "swapped", "validate") \/ Unanswered(w, "failed")

\* An image that was running already is validated without a journal.
ValidateTarget(w) ==
    /\ At(w, "validate")
    /\ Validate(w, work[w].wanted,
                IF work[w].view.phase = "none" THEN "record" ELSE "validated", "failed")

Record(w) ==
    /\ At(w, "record")
    /\ Commit(w, [work[w].view EXCEPT !.desired = work[w].wanted], "answer")

Validated(w) == At(w, "validated") /\ SetPhase(w, "validated", "finalizing")
Finalizing(w) == At(w, "finalizing") /\ SetPhase(w, "finalizing", "settle")
Settle(w) == At(w, "settle") /\ Docker(w, web, Missing, routed, "finish", "failed")
Finish(w) ==
    At(w, "finish") /\ Commit(w, Closed(work[w].wanted), "answer")

\* The handler of exceptions: a swap is undone, whatever it had reached.
Failed(w) ==
    LET phase == work[w].view.phase
        again == IF phase = "swapped" THEN "prepared" ELSE phase
        new == [work[w].view EXCEPT !.phase = again]
    IN  /\ At(w, "failed")
        /\ IF phase = "none" THEN Raise(w, "answer")
           ELSE /\ row' = Written(work[w].view, new)
                /\ work' = [work EXCEPT ![w] = [@ EXCEPT !.view = new,
                                     !.at = "recover", !.then = "answer"]]
                /\ UNCHANGED <<dockerVars, alive, lock, overlapped, troubles>>

\* MUTANT of Answer: the lock file stays open
AnswerKeepsLock(w) ==
    /\ At(w, "answer")
    /\ work' = [work EXCEPT ![w] = Idle]
    /\ UNCHANGED <<dockerVars, row, alive, lock, overlapped, troubles>>

Answer(w) ==
    /\ At(w, "answer")
    /\ work' = [work EXCEPT ![w] = Idle]
    /\ lock' = IF lock = w THEN Free ELSE lock
    /\ UNCHANGED <<dockerVars, row, alive, overlapped, troubles>>

-----------------------------------------------------------------------------
(* The life of the agent *)

\* A Docker call in flight is done or not when the agent dies; one that Docker
\* only ends after the agent is back is not modelled.
Die ==
    /\ alive
    /\ Trouble
    /\ alive' = FALSE
    /\ lock' = Free
    /\ work' = [w \in Worker |-> Idle]
    /\ UNCHANGED <<dockerVars, row, overlapped>>

\* enroll_on_boot leads the routes to perum_web where it can, then
\* reconcile_desired_web_on_startup begins beside the requests.
Boot ==
    /\ ~ alive
    /\ alive' = TRUE
    /\ routed' \in {routed, web.up}
    /\ work' = [work EXCEPT !["startup"].at = "boot"]
    /\ UNCHANGED <<web, backup, row, lock, overlapped, troubles>>

ReadAtBoot ==
    /\ At("startup", "boot")
    /\ work' = [work EXCEPT !["startup"] =
           [Idle EXCEPT !.at = "recover", !.view = row, !.opened = TRUE,
                        !.then = "reconcile"]]
    /\ UNCHANGED <<dockerVars, row, alive, lock, overlapped, troubles>>

Reconcile(w) ==
    LET desired == work[w].view.desired
    IN  /\ At(w, "reconcile")
        /\ \/ /\ desired = NoImage \/ web.image = desired \/ lock # Free
              /\ Raise(w, "answer")
           \/ /\ desired # NoImage /\ web.image # desired /\ lock = Free
              /\ lock' = w
              /\ work' = [work EXCEPT ![w] =
                     [@ EXCEPT !.at = "recover", !.wanted = desired,
                               !.opened = TRUE, !.then = "inspect"]]
              /\ UNCHANGED <<dockerVars, row, alive, overlapped, troubles>>
           \/ Unanswered(w, "answer")

Step(w) ==
    \/ Recover(w) \/ Check(w) \/ Mark(w) \/ Drop(w) \/ Adopt(w) \/ Relapse(w)
    \/ Unrecovered(w) \/ Restore(w) \/ Rename(w) \/ Start(w) \/ Prove(w)
    \/ Discard(w) \/ Clear(w)
    \/ Inspect(w) \/ Purge(w) \/ Retire(w) \/ Stop(w) \/ Create(w) \/ Launch(w)
    \/ Undo(w) \/ Unname(w) \/ Revive(w) \/ Swapped(w) \/ ValidateTarget(w)
    \/ Record(w) \/ Validated(w) \/ Finalizing(w) \/ Settle(w) \/ Finish(w)
    \/ Failed(w) \/ Answer(w) \/ Reconcile(w)

Next ==
    \/ \E w \in Worker : Step(w)
    \/ \E image \in Image : Request(image)
    \/ Die \/ Boot \/ ReadAtBoot

Spec == Init /\ [][Next]_vars

\* Docker restarts the agent, and what it has begun goes on.
FairSpec ==
    /\ Spec
    /\ WF_vars(Boot) /\ WF_vars(ReadAtBoot)
    /\ \A w \in Worker : WF_vars(Step(w))

-----------------------------------------------------------------------------
(* What the journal is for.  A request served while the task of the start is *)
(* still at work may break all of it, as that task recovers without the lock; *)
(* the properties speak of the behaviours up to then (~ overlapped).          *)

Serves(image) == web = [image |-> image, up |-> TRUE] /\ image \in Sound /\ routed

\* Without an overlap, whenever no rollout is on record, one container serves, of an image that was
\* proved, behind the routes, with nothing left beside it: nobody would come
\* back to repair it.
ClearRowServes ==
    (~ overlapped /\ ~ Open(row)) => (backup = Missing /\ \E i \in Sound : Serves(i))

\* Without an overlap, wherever the agent dies or a call fails, a container of a
\* proved image is still on the node.
WebIsKept ==
    ~ overlapped => \E c \in {web, backup} : c.image \in Sound

\* Without an overlap, a rollout ends with its target, which becomes the desired
\* image, or with what ran before it, the desired image unchanged; an image that
\* becomes the desired one serves.
EndsWithOneOfTwo ==
    [][~ overlapped' =>
        /\ (Open(row) /\ ~ Open(row')) =>
               \/ row'.desired = row.target /\ Serves(row.target)
               \/ row'.desired = row.desired /\ Serves(row.previous)
        /\ row'.desired # row.desired => Serves(row'.desired)]_vars

\* What users and the next start see of the node, as NodeWeb states it: the old
\* image and the target of the journal, and which of the images serves.
Node == INSTANCE NodeWeb WITH
    image <- IF Open(row) THEN row.previous ELSE web.image,
    goal <- IF Open(row) THEN row.target ELSE NoImage,
    desired <- row.desired,
    serving <- {i \in Sound : Serves(i)}

\* Without an overlap, however deaths of the agent, failed calls and recoveries
\* follow each other, the phases of the journal and the calls of Docker are one
\* exchange that happens or does not.
ImplementsNodeWeb == Node!Init /\ [][~ overlapped' => Node!Next]_(Node!vars)

\* As long as rollouts are asked for, and none of them overlaps the task of the
\* start, a journal is finished or undone.
JournalEnds ==
    []<>(~ At("request", "idle")) /\ []~overlapped => (Open(row) ~> ~ Open(row))

=============================================================================
