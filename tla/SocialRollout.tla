---------------------------- MODULE SocialRollout ----------------------------
(***************************************************************************)
(* The controlled rollout of the social functions of one school             *)
(* (perum-core/app/services/social_rollout.py, routers/social_rollout.py,   *)
(* the rollout part of routers/telemetry.py and of agent/service.py).       *)
(*                                                                         *)
(* The intent (granted, enabled) carries a generation.  A reconcile task    *)
(* restarts the school's app with the pair (generation, on) in its          *)
(* environment, the app reports the pair in its heartbeats, and discovery   *)
(* offers the functions only while a fresh heartbeat matches the intent.    *)
(***************************************************************************)
EXTENDS Naturals, KeyedLocks

CONSTANTS
    Placements,     \* the placements to consider: {TRUE}: on a node
    Call,           \* slots for calls the node's agent handles
    Attempts,       \* attempts of one reconcile task (its delays: 0, 2, 5, 10)
    MaxGeneration,  \* bound on the changes of the intent
    Failures,       \* whether Docker, the network and the node may fail
    Crashes         \* whether the core and the agent may restart

ASSUME PlacementsAssumption == Placements \subseteq BOOLEAN
ASSUME AttemptsAssumption == Attempts \in Nat \ {0}
ASSUME SwitchesAssumption == Failures \in BOOLEAN /\ Crashes \in BOOLEAN

VARIABLES
    remote,         \* whether the school has a node assignment
    granted,        \* platform_granted
    enabled,        \* org_enabled
    generation,     \* counts the changes of the two
    applied,        \* (applied_generation, applied_enabled)
    status,         \* apply_status
    app,            \* environment of the school's last app container
    task,           \* the school's entry in _tasks
    deploy,         \* a bring-up or update of the school, under the same lock
    node,           \* (applied_generation, applied_enabled) in the agent's table
    call,           \* slot -> an apply call in the agent
    beat,           \* the heartbeat under way, at most one
    snapshot        \* the pair of the last accepted heartbeat, while it is fresh

rowVars == <<granted, enabled, generation, applied, status>>
nodeVars == <<node, call>>
coreVars == <<task, deploy, queue>>
viewVars == <<beat, snapshot>>
vars == <<remote, rowVars, app, coreVars, nodeVars, viewVars>>

Env == [gen : Nat, on : BOOLEAN]
ApplyStatus == {"converged", "enforcement_pending", "applying",
                "awaiting_heartbeat", "failed"}
Lock == "school"
Owner == {"reconcile", "deploy"}

TaskPc == {"none", "sleep", "lock", "loaded", "apply", "started", "answer"}
DeployPc == {"none", "lock", "begin", "started"}
CallPc == {"none", "sent", "begin", "started", "ok", "refused"}

Task == [pc : TaskPc, attempt : 0 .. Attempts, env : Env]
Deploy == [pc : DeployPc, bringUp : BOOLEAN, env : Env]
AgentCall == [pc : CallPc, env : Env, old : Env, awaited : BOOLEAN]

Off == [gen |-> 0, on |-> FALSE]
NoTask == [pc |-> "none", attempt |-> 0, env |-> Off]
NoDeploy == [pc |-> "none", bringUp |-> FALSE, env |-> Off]
NoCall == [pc |-> "none", env |-> Off, old |-> Off, awaited |-> FALSE]

TypeOK ==
    /\ remote \in BOOLEAN
    /\ granted \in BOOLEAN /\ enabled \in BOOLEAN /\ generation \in Nat
    /\ applied \in Env /\ app \in Env /\ node \in Env
    /\ status \in ApplyStatus
    /\ task \in Task
    /\ deploy \in Deploy
    /\ queue \in [{Lock} -> Seq(Owner)]
    /\ call \in [Call -> AgentCall]
    /\ beat \in SUBSET Env /\ snapshot \in SUBSET Env

Init ==
    /\ remote \in Placements
    /\ granted = FALSE /\ enabled = FALSE /\ generation = 0
    /\ applied = Off /\ app = Off /\ node = Off
    /\ status = "converged"
    /\ task = NoTask
    /\ deploy = NoDeploy
    /\ queue = [k \in {Lock} |-> <<>>]
    /\ call = [c \in Call |-> NoCall]
    /\ beat = {} /\ snapshot = {}

effective == granted /\ enabled

\* desired_runtime: the pair the app should run with.
desired_runtime == [gen |-> generation, on |-> effective]

-----------------------------------------------------------------------------
(* The intent: both endpoints hold the school's row lock from the read of the *)
(* rollout to the commit                                                      *)

\* A task of the school that is still in _tasks makes this a no-op.
schedule_reconcile ==
    task' = IF task.pc = "none"
            THEN [pc |-> "sleep", attempt |-> 1, env |-> Off]
            ELSE task

\* MUTANT of Change: the generation is not counted up.
ChangeSameGeneration(grant, enable) ==
    /\ generation < MaxGeneration
    /\ granted' = grant
    /\ enabled' = enable
    /\ generation' = generation
    /\ status' = "enforcement_pending"
    /\ schedule_reconcile
    /\ UNCHANGED <<remote, applied, app, deploy, queue, nodeVars, viewVars>>

Change(grant, enable) ==
    /\ generation < MaxGeneration
    /\ granted' = grant
    /\ enabled' = enable
    /\ generation' = generation + 1
    /\ status' = "enforcement_pending"
    /\ schedule_reconcile
    /\ UNCHANGED <<remote, applied, app, deploy, queue, nodeVars, viewVars>>

\* A revoke takes back the organization's choice too.
set_platform_rollout(grant) ==
    /\ granted # grant \/ (~grant /\ enabled)
    /\ Change(grant, grant /\ enabled)

set_org_rollout(enable) ==
    /\ enable => granted
    /\ enabled # enable
    /\ Change(granted, enable)

\* MUTANT of reconcile_pending: the sweep passes over what was never applied.
SweepAppliedOnly ==
    /\ 0 < applied.gen /\ applied.gen < generation
    /\ status = "enforcement_pending"
    /\ task.pc = "none"
    /\ schedule_reconcile
    /\ UNCHANGED <<remote, rowVars, app, deploy, queue, nodeVars, viewVars>>

\* The sweep that runs every 15 seconds.
reconcile_pending ==
    /\ applied.gen < generation
    /\ status = "enforcement_pending"
    /\ task.pc = "none"
    /\ schedule_reconcile
    /\ UNCHANGED <<remote, rowVars, app, deploy, queue, nodeVars, viewVars>>

-----------------------------------------------------------------------------
(* The reconcile task *)

TaskWakes ==
    /\ task.pc = "sleep"
    /\ task' = [task EXCEPT !.pc = "lock"]
    /\ Acquire(Lock, "reconcile")
    /\ UNCHANGED <<remote, rowVars, app, deploy, nodeVars, viewVars>>

\* MUTANT of OwnsTask: reconcile_once outside the school's lock.
OwnsTaskUnlocked == task.pc = "lock"

OwnsTask ==
    /\ task.pc = "lock"
    /\ Holds(Lock, "reconcile")

\* reconcile_once loads the row and keeps what it saw until it has applied it.
TaskLoads ==
    /\ OwnsTask
    /\ IF applied.gen >= generation
       THEN task' = NoTask /\ Release(Lock)
       ELSE /\ task' = [task EXCEPT !.pc = "loaded", !.env = desired_runtime]
            /\ UNCHANGED queue
    /\ UNCHANGED <<remote, rowVars, app, deploy, nodeVars, viewVars>>

\* The commit of "applying", over a change that came after the load.
TaskBegins ==
    /\ task.pc = "loaded"
    /\ task' = [task EXCEPT !.pc = "apply"]
    /\ status' = "applying"
    /\ UNCHANGED <<remote, granted, enabled, generation, applied, app, deploy, queue,
                   nodeVars, viewVars>>

\* The commit after a successful apply writes over what came in between.
TaskSucceeds ==
    /\ applied' = task.env
    /\ status' = "awaiting_heartbeat"
    /\ task' = NoTask
    /\ Release(Lock)

\* MUTANT of TaskFails: one attempt too many.
TaskFailsOnceMore(newStatus) ==
    /\ status' = newStatus
    /\ task' = IF task.attempt <= Attempts
               THEN [pc |-> "sleep", attempt |-> task.attempt + 1, env |-> Off]
               ELSE NoTask
    /\ Release(Lock)
    /\ UNCHANGED applied

\* Only a builtin ConnectionError and an HTTP error of the agent leave the row to
\* the sweep; the backoff has four attempts.
TaskFails(newStatus) ==
    /\ status' = newStatus
    /\ task' = IF task.attempt < Attempts
               THEN [pc |-> "sleep", attempt |-> task.attempt + 1, env |-> Off]
               ELSE NoTask
    /\ Release(Lock)
    /\ UNCHANGED applied

\* apply_local_runtime: the app's container is replaced, then checked, then
\* replaced by one with the old pair if the new one is not healthy.
LocalStart ==
    /\ task.pc = "apply"
    /\ ~remote
    /\ app' = task.env
    /\ task' = [task EXCEPT !.pc = "started"]
    /\ UNCHANGED <<remote, rowVars, deploy, queue, nodeVars, viewVars>>

LocalApplied ==
    /\ task.pc = "started"
    /\ TaskSucceeds
    /\ UNCHANGED <<remote, granted, enabled, generation, app, deploy, nodeVars, viewVars>>

LocalFails ==
    /\ Failures
    /\ task.pc \in {"apply", "started"}
    /\ ~remote
    /\ app' \in {app, applied}
    /\ TaskFails("failed")
    /\ UNCHANGED <<remote, granted, enabled, generation, deploy, nodeVars, viewVars>>

-----------------------------------------------------------------------------
(* The call to the node's agent *)

RemoteSend(c) ==
    /\ task.pc = "apply"
    /\ remote
    /\ call[c].pc = "none"
    /\ call' = [call EXCEPT ![c] = [pc |-> "sent", env |-> task.env, old |-> Off,
                                    awaited |-> TRUE]]
    /\ task' = [task EXCEPT !.pc = "answer"]
    /\ UNCHANGED <<remote, rowVars, app, deploy, queue, node, viewVars>>

\* The node is not active; or its agent, or a proxy that has already passed the call
\* on, answers with an HTTP error.
NodeUnavailable ==
    /\ Failures
    /\ task.pc \in {"apply", "answer"}
    /\ remote
    /\ TaskFails("enforcement_pending")
    /\ call' = [c \in Call |-> [call[c] EXCEPT !.awaited = FALSE]]
    /\ UNCHANGED <<remote, granted, enabled, generation, app, deploy, node, viewVars>>

RemoteAnswer(c) ==
    /\ task.pc = "answer"
    /\ call[c].awaited
    /\ \/ call[c].pc = "ok" /\ TaskSucceeds
       \/ call[c].pc = "refused" /\ TaskFails("failed")
    /\ call' = [call EXCEPT ![c] = NoCall]
    /\ UNCHANGED <<remote, granted, enabled, generation, app, deploy, node, viewVars>>

\* 25 seconds are over or the connection breaks: an httpx error is neither a
\* ConnectionError nor a RemoteNodeError.  The agent may go on.
RemoteLost ==
    /\ task.pc = "answer"
    /\ Failures \/ \A c \in Call : ~call[c].awaited
    /\ TaskFails("failed")
    /\ call' = [c \in Call |-> [call[c] EXCEPT !.awaited = FALSE]]
    /\ UNCHANGED <<remote, granted, enabled, generation, app, deploy, node, viewVars>>

-----------------------------------------------------------------------------
(* apply_social_runtime_on_node: no lock orders two calls for one school *)

SetCall(c, pc) == call' = [call EXCEPT ![c].pc = pc]

\* The agent loads its row once and fences the generation against it.
AgentLoads(c) ==
    /\ call[c].pc = "sent"
    /\ \/ /\ call[c].env.gen < node.gen
          /\ SetCall(c, "refused")
       \/ /\ call[c].env.gen = node.gen
          /\ SetCall(c, "ok")
       \/ /\ call[c].env.gen > node.gen
          /\ call' = [call EXCEPT ![c] = [@ EXCEPT !.pc = "begin", !.old = node]]
    /\ UNCHANGED <<remote, rowVars, app, coreVars, node, viewVars>>

AgentStart(c) ==
    /\ call[c].pc = "begin"
    /\ app' = call[c].env
    /\ SetCall(c, "started")
    /\ UNCHANGED <<remote, rowVars, coreVars, node, viewVars>>

AgentApplied(c) ==
    /\ call[c].pc = "started"
    /\ node' = call[c].env
    /\ SetCall(c, "ok")
    /\ UNCHANGED <<remote, rowVars, app, coreVars, viewVars>>

AgentFails(c) ==
    /\ Failures
    /\ call[c].pc \in {"begin", "started"}
    /\ app' \in {app, call[c].old}
    /\ SetCall(c, "refused")
    /\ UNCHANGED <<remote, rowVars, coreVars, node, viewVars>>

\* The end of a call nobody waits for.
CallForgotten(c) ==
    /\ call[c].pc \in {"sent", "ok", "refused"}
    /\ ~call[c].awaited
    /\ call' = [call EXCEPT ![c] = NoCall]
    /\ UNCHANGED <<remote, rowVars, app, coreVars, node, viewVars>>

-----------------------------------------------------------------------------
(* Bring-ups and updates put the pair into the app they start; only a bring-up *)
(* writes it to the rollout's row                                              *)

DeployRequested ==
    /\ deploy.pc = "none"
    /\ deploy' = [deploy EXCEPT !.pc = "lock"]
    /\ Acquire(Lock, "deploy")
    /\ UNCHANGED <<remote, rowVars, app, task, nodeVars, viewVars>>

\* The pair is read (desired_runtime) long before the app is started with it.
DeployStarts ==
    /\ deploy.pc = "lock"
    /\ Holds(Lock, "deploy")
    /\ \E bringUp \in BOOLEAN :
          deploy' = [pc |-> "begin", bringUp |-> bringUp, env |-> desired_runtime]
    /\ UNCHANGED <<remote, rowVars, app, task, queue, nodeVars, viewVars>>

DeployStartsApp ==
    /\ deploy.pc = "begin"
    /\ deploy' = [deploy EXCEPT !.pc = "started"]
    /\ app' = deploy.env
    /\ UNCHANGED <<remote, rowVars, task, queue, nodeVars, viewVars>>

DeployEnds ==
    /\ \/ /\ deploy.pc = "started" /\ deploy.bringUp
          /\ applied' = deploy.env
          /\ status' = "awaiting_heartbeat"
          /\ node' = IF remote THEN deploy.env ELSE node
       \/ /\ deploy.pc = "started" /\ ~deploy.bringUp
          /\ UNCHANGED <<applied, status, node>>
       \/ /\ Failures /\ deploy.pc \in {"begin", "started"}
          /\ UNCHANGED <<applied, status, node>>
    /\ deploy' = NoDeploy
    /\ Release(Lock)
    /\ UNCHANGED <<remote, granted, enabled, generation, app, task, call, viewVars>>

-----------------------------------------------------------------------------
(* Heartbeats and discovery *)

\* The app reports its environment; a beat overtaken by a later one is lost, the
\* core refuses it by its observed_at.
Heartbeat ==
    /\ beat' = {app}
    /\ UNCHANGED <<remote, rowVars, app, coreVars, nodeVars, snapshot>>

ingest ==
    /\ beat # {}
    /\ snapshot' = beat
    /\ beat' = {}
    /\ status' = IF desired_runtime \in beat THEN "converged" ELSE status
    /\ UNCHANGED <<remote, granted, enabled, generation, applied, app, coreVars, nodeVars>>

\* DEPLOYMENT_SNAPSHOT_FRESHNESS_S is over.
SnapshotExpires ==
    /\ snapshot' = {}
    /\ UNCHANGED <<remote, rowVars, app, coreVars, nodeVars, beat>>

\* resolve_mobile_descriptor: what discovery offers the mobile app.
social_rollout_converged ==
    effective /\ \E e \in snapshot : e.on /\ e.gen = generation

-----------------------------------------------------------------------------
(* Restarts: the task table and the locks are the core's memory *)

CoreRestart ==
    /\ Crashes
    /\ task' = NoTask
    /\ deploy' = NoDeploy
    /\ queue' = [k \in {Lock} |-> <<>>]
    /\ call' = [c \in Call |-> [call[c] EXCEPT !.awaited = FALSE]]
    /\ UNCHANGED <<remote, rowVars, app, node, viewVars>>

AgentRestart ==
    /\ Crashes
    /\ call' = [c \in Call |-> NoCall]
    /\ UNCHANGED <<remote, rowVars, app, coreVars, node, viewVars>>

-----------------------------------------------------------------------------
Intent ==
    \E choice \in BOOLEAN : set_platform_rollout(choice) \/ set_org_rollout(choice)

TaskStep ==
    \/ TaskWakes
    \/ TaskLoads
    \/ TaskBegins
    \/ LocalStart
    \/ LocalApplied
    \/ LocalFails
    \/ NodeUnavailable
    \/ RemoteLost
    \/ \E c \in Call : RemoteSend(c) \/ RemoteAnswer(c)

CallStep(c) ==
    \/ AgentLoads(c)
    \/ AgentStart(c)
    \/ AgentApplied(c)
    \/ AgentFails(c)
    \/ CallForgotten(c)

DeployStep == DeployStarts \/ DeployStartsApp \/ DeployEnds

Observe == Heartbeat \/ ingest \/ SnapshotExpires

Restart == CoreRestart \/ AgentRestart

Next ==
    \/ Intent
    \/ reconcile_pending
    \/ TaskStep
    \/ \E c \in Call : CallStep(c)
    \/ DeployRequested
    \/ DeployStep
    \/ Observe
    \/ Restart

Spec == Init /\ [][Next]_vars

\* The sweep's loop, every task and every call go on by themselves; the admins,
\* the heartbeats and the restarts owe nothing.
FairSpec ==
    /\ Spec
    /\ WF_vars(reconcile_pending)
    /\ WF_vars(TaskStep)
    /\ WF_vars(DeployStep)
    /\ \A c \in Call : WF_vars(CallStep(c))

-----------------------------------------------------------------------------
(* Properties *)

\* Every pair somebody has: in a table, an environment, a request, a heartbeat.
Held ==
    {Off, applied, app, node, task.env, deploy.env}
        \cup {call[c].env : c \in Call} \cup {call[c].old : c \in Call}
Copies == Held \cup beat \cup snapshot

\* Generation fencing: a generation never stands for two intents, so a copy of
\* the present generation, wherever a delay, a retry, a rollback or a restart
\* left it, carries the present intent.
GenerationFencing ==
    \A e \in Copies :
        e.gen <= generation /\ (e.gen = generation => e.on = effective)

\* The rollout as FencedIntent states what it is for.
Fence == INSTANCE FencedIntent WITH
    on <- effective, held <- Held, running <- app,
    reports <- beat \cup snapshot, offered <- social_rollout_converged

\* Whatever is delayed, retried, rolled back or restarted, no pair is made up and
\* a generation stands for one choice; discovery offers the functions on a report of
\* the present choice only, so that a revoke takes the offer back with its commit
\* (social_rollout.py:90-119, telemetry.py:108-135, mobile_descriptor.py:82-104).
ImplementsFence == Fence!Spec

\* On the platform's own host the row never claims more than what was started:
\* the app runs the applied generation or a later one.
AppNotBehind == ~remote => app.gen >= applied.gen

\* Nobody is about to commit what he read before the last change: a task or a deploy
\* that sleeps or waits for the lock has yet to read the row.
Unopposed ==
    /\ status = "enforcement_pending"
    /\ task.pc \in {"none", "sleep", "lock"} /\ deploy.pc \in {"none", "lock"}

\* A generation ends up in the row as applied, or reported by the app, or the attempts
\* are used up, or a restart cut its apply off.
Settled ==
    \/ applied.gen = generation \/ status = "converged"
    \/ status \in {"failed", "applying"} /\ task.pc = "none"

\* A change whose own schedule is a no-op, whose task is lost in a restart or whose node
\* is away is enforced all the same, by the task that is under way or by the sweep: it
\* is applied or shown as failed, unless another change follows
\* (social_rollout.py:126-151; once the core and the node stay up).
ChangeIsEnforced ==
    <>[][~CoreRestart /\ ~NodeUnavailable]_vars =>
        \A g \in 1 .. MaxGeneration :
            generation = g /\ Unopposed ~> generation > g \/ Settled

\* A revoke (or disable) reaches the app: it stops serving the social functions
\* unless they are granted and enabled again ("Platform revoke uses bounded
\* convergence", docs/SESSION_REPORT_2026-07-18.md:21-22).
RevokeReachesApp == ~effective ~> (effective \/ ~app.on)

=============================================================================
