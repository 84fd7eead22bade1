------------------------ MODULE SocialRolloutProofs -------------------------
(***************************************************************************)
(* Proofs about SocialRollout, for any number of calls in the agent, any    *)
(* bound on the generations and the attempts, with failures and restarts.   *)
(***************************************************************************)
EXTENDS SocialRollout, SequenceTheorems, TLAPS

TaskWorks == task.pc \in {"loaded", "apply", "started", "answer"}

DeployWorks == deploy.pc \in {"begin", "started"}

\* The task and the deploy replace the app under the school's lock only.
LockInv ==
    /\ TaskWorks => Holds(Lock, "reconcile")
    /\ DeployWorks => Holds(Lock, "deploy")

\* The intent of generation 0 is "off", which is what every default stands for.
DefaultInv == generation = 0 => ~effective

\* The agent is never asked about a school on the platform's own host.
HostInv == ~remote => \A c \in Call : call[c].pc = "none"

\* What the task is about to apply is newer than the row, and is what it started.
TaskInv ==
    /\ task.pc \in {"loaded", "apply", "started"} => applied.gen < task.env.gen
    /\ task.pc = "started" => ~remote /\ app = task.env

\* What a deploy starts is not older than the row.
DeployInv ==
    /\ DeployWorks => applied.gen <= deploy.env.gen
    /\ deploy.pc = "started" /\ ~remote => app = deploy.env

\* The inductive invariant.  AppNotBehind rests on the lock (a deploy cannot
\* change the row under a task) and on GenerationFencing (a deploy reads a pair
\* that is not older than the row).
IInv ==
    /\ TypeOK
    /\ DefaultInv
    /\ GenerationFencing
    /\ LockInv
    /\ HostInv
    /\ TaskInv
    /\ DeployInv
    /\ AppNotBehind

-----------------------------------------------------------------------------
(* Lemmas about the lock *)

\* Asking for the lock keeps the types and the owner: who waits goes to the end.
LEMMA AcquireKeeps ==
    ASSUME TypeOK, NEW o \in Owner, Acquire(Lock, o)
    PROVE  /\ queue' \in [{Lock} -> Seq(Owner)]
           /\ \A i \in Owner : Holds(Lock, i) => Holds(Lock, i)'
<1>1. queue \in [{Lock} -> Seq(Owner)]
  BY DEF TypeOK
<1>2. queue' = [queue EXCEPT ![Lock] = Append(queue[Lock], o)]
  BY DEF Acquire
<1>3. Append(queue[Lock], o) \in Seq(Owner) /\ Append(queue[Lock], o) # <<>>
  BY <1>1, AppendProperties
<1>4. queue[Lock] # <<>> => Head(Append(queue[Lock], o)) = Head(queue[Lock])
  BY <1>1, HeadTailAppend
<1> QED BY <1>1, <1>2, <1>3, <1>4 DEF Holds

\* The release by one owner is type correct.
LEMMA ReleaseKeeps ==
    ASSUME TypeOK, NEW o \in Owner, Holds(Lock, o), Release(Lock)
    PROVE  queue' \in [{Lock} -> Seq(Owner)]
<1>1. queue[Lock] \in Seq(Owner) /\ queue[Lock] # <<>>
  BY DEF TypeOK, Holds
<1>2. Tail(queue[Lock]) \in Seq(Owner)
  BY <1>1, HeadTailProperties
<1> QED BY <1>2 DEF Release, TypeOK

\* The task and a deploy never work at the same time.
LEMMA Exclusion ==
    ASSUME LockInv
    PROVE  ~(TaskWorks /\ DeployWorks)
BY DEF LockInv, Holds

-----------------------------------------------------------------------------
(* Types *)

\* The values of the idle task, deploy and call are typed.
LEMMA Defaults ==
    Off \in Env /\ NoTask \in Task /\ NoDeploy \in Deploy /\ NoCall \in AgentCall
BY AttemptsAssumption
   DEF Off, Env, NoTask, Task, TaskPc, NoDeploy, Deploy, DeployPc, NoCall,
       AgentCall, CallPc

\* What desired_runtime computes from the row is an environment.
LEMMA DesiredTyped ==
    ASSUME TypeOK
    PROVE  effective \in BOOLEAN /\ desired_runtime \in Env
<1>1. effective \in BOOLEAN
  BY DEF effective
<1>2. generation \in Nat
  BY DEF TypeOK
<1> QED BY <1>1, <1>2 DEF desired_runtime, Env

\* Every step keeps the types.
LEMMA TypeStep ==
    ASSUME TypeOK, LockInv, [Next]_vars
    PROVE  TypeOK'
<1> USE AttemptsAssumption
<1>1. CASE UNCHANGED vars
  BY <1>1, Defaults DEF TypeOK, ApplyStatus, vars, rowVars, coreVars, nodeVars,
         viewVars
<1>2. ASSUME NEW b \in BOOLEAN, set_platform_rollout(b)
      PROVE  TypeOK'
  <2>1. task' \in Task
    BY <1>2, Defaults DEF TypeOK, Task, TaskPc, set_platform_rollout, Change,
         schedule_reconcile
  <2> QED
    BY <1>2, <2>1, Defaults DEF TypeOK, ApplyStatus, set_platform_rollout,
         Change, schedule_reconcile, nodeVars, viewVars
<1>3. ASSUME NEW b \in BOOLEAN, set_org_rollout(b)
      PROVE  TypeOK'
  <2>1. task' \in Task
    BY <1>3, Defaults DEF TypeOK, Task, TaskPc, set_org_rollout, Change,
         schedule_reconcile
  <2> QED
    BY <1>3, <2>1, Defaults DEF TypeOK, ApplyStatus, set_org_rollout, Change,
         schedule_reconcile, nodeVars, viewVars
<1>4. CASE reconcile_pending
  <2>1. task' \in Task
    BY <1>4, Defaults DEF TypeOK, Task, TaskPc, reconcile_pending,
         schedule_reconcile
  <2> QED
    BY <1>4, <2>1, Defaults DEF TypeOK, ApplyStatus, reconcile_pending,
         schedule_reconcile, rowVars, nodeVars, viewVars
<1>5. CASE TaskWakes
  <2>1. queue' \in [{Lock} -> Seq(Owner)]
    BY <1>5, AcquireKeeps DEF TaskWakes, Owner
  <2>2. task' \in Task
    BY <1>5, Defaults DEF TypeOK, Task, TaskPc, TaskWakes
  <2> QED
    BY <1>5, <2>1, <2>2, Defaults DEF TypeOK, ApplyStatus, TaskWakes, rowVars,
         nodeVars, viewVars
<1>6. CASE TaskLoads
  <2>1. queue' \in [{Lock} -> Seq(Owner)]
    BY <1>6, ReleaseKeeps DEF TaskLoads, OwnsTask, Owner, TypeOK
  <2>2. task' \in Task
    BY <1>6, Defaults, DesiredTyped DEF TypeOK, Task, TaskPc, TaskLoads, OwnsTask
  <2> QED
    BY <1>6, <2>1, <2>2, Defaults DEF TypeOK, ApplyStatus, Task, Deploy,
         AgentCall, TaskLoads, OwnsTask, rowVars, nodeVars, viewVars
<1>6b. CASE TaskBegins
  <2>1. task' \in Task
    BY <1>6b, Defaults DEF TypeOK, Task, TaskPc, TaskBegins
  <2> QED
    BY <1>6b, <2>1, Defaults DEF TypeOK, ApplyStatus, TaskBegins, nodeVars, viewVars
<1>7. CASE LocalStart
  <2>1. task' \in Task
    BY <1>7, Defaults DEF TypeOK, Task, TaskPc, LocalStart
  <2> QED
    BY <1>7, <2>1, Defaults DEF TypeOK, ApplyStatus, Task, Deploy, AgentCall,
         LocalStart, rowVars, nodeVars, viewVars
<1>8. CASE LocalApplied
  <2>1. queue' \in [{Lock} -> Seq(Owner)]
    BY <1>8, ReleaseKeeps DEF LocalApplied, TaskSucceeds, LockInv, TaskWorks,
         DeployWorks, Owner
  <2>2. task' \in Task
    BY <1>8, Defaults DEF TypeOK, Task, TaskPc, LocalApplied, TaskSucceeds
  <2> QED
    BY <1>8, <2>1, <2>2, Defaults DEF TypeOK, ApplyStatus, Task, Deploy,
         AgentCall, LocalApplied, TaskSucceeds, nodeVars, viewVars
<1>9. CASE LocalFails
  <2>1. queue' \in [{Lock} -> Seq(Owner)]
    BY <1>9, ReleaseKeeps DEF LocalFails, TaskFails, LockInv, TaskWorks,
         DeployWorks, Owner
  <2>2. task' \in Task
    BY <1>9, Defaults DEF TypeOK, Task, TaskPc, LocalFails, TaskFails
  <2> QED
    BY <1>9, <2>1, <2>2, Defaults DEF TypeOK, ApplyStatus, LocalFails, TaskFails,
         nodeVars, viewVars
<1>10. CASE NodeUnavailable
  <2>1. queue' \in [{Lock} -> Seq(Owner)]
    BY <1>10, ReleaseKeeps DEF NodeUnavailable, TaskFails, LockInv, TaskWorks,
         DeployWorks, Owner
  <2>2. task' \in Task
    BY <1>10, Defaults DEF TypeOK, Task, TaskPc, NodeUnavailable, TaskFails
  <2>3. call' \in [Call -> AgentCall]
    BY <1>10, Defaults DEF TypeOK, AgentCall, CallPc, Task, NodeUnavailable, TaskFails
  <2> QED
    BY <1>10, <2>1, <2>2, <2>3, Defaults DEF TypeOK, ApplyStatus, NodeUnavailable,
         TaskFails, viewVars
<1>11. CASE RemoteLost
  <2>1. queue' \in [{Lock} -> Seq(Owner)]
    BY <1>11, ReleaseKeeps DEF RemoteLost, TaskFails, LockInv, TaskWorks,
         DeployWorks, Owner
  <2>2. task' \in Task
    BY <1>11, Defaults DEF TypeOK, Task, TaskPc, RemoteLost, TaskFails
  <2>3. call' \in [Call -> AgentCall]
    BY <1>11, Defaults DEF TypeOK, AgentCall, CallPc, Task, RemoteLost, TaskFails
  <2> QED
    BY <1>11, <2>1, <2>2, <2>3, Defaults DEF TypeOK, ApplyStatus, RemoteLost,
         TaskFails, viewVars
<1>12. ASSUME NEW c \in Call, RemoteSend(c)
      PROVE  TypeOK'
  <2>1. task' \in Task
    BY <1>12, Defaults DEF TypeOK, Task, TaskPc, RemoteSend
  <2>2. call' \in [Call -> AgentCall]
    BY <1>12, Defaults DEF TypeOK, AgentCall, CallPc, Task, RemoteSend
  <2> QED
    BY <1>12, <2>1, <2>2, Defaults DEF TypeOK, ApplyStatus, RemoteSend, rowVars,
         viewVars
<1>13. ASSUME NEW c \in Call, RemoteAnswer(c)
      PROVE  TypeOK'
  <2>1. queue' \in [{Lock} -> Seq(Owner)]
    BY <1>13, ReleaseKeeps DEF RemoteAnswer, TaskSucceeds, TaskFails, LockInv,
         TaskWorks, DeployWorks, Owner
  <2>2. task' \in Task
    BY <1>13, Defaults DEF TypeOK, Task, TaskPc, RemoteAnswer, TaskSucceeds,
         TaskFails
  <2>3. call' \in [Call -> AgentCall]
    BY <1>13, Defaults DEF TypeOK, AgentCall, CallPc, Task, RemoteAnswer,
         TaskSucceeds, TaskFails
  <2> QED
    BY <1>13, <2>1, <2>2, <2>3, Defaults DEF TypeOK, ApplyStatus, Task, Deploy,
         AgentCall, RemoteAnswer, TaskSucceeds, TaskFails, viewVars
<1>14. ASSUME NEW c \in Call, AgentLoads(c)
      PROVE  TypeOK'
  <2>1. call' \in [Call -> AgentCall]
    <3> DEFINE begun == [call[c] EXCEPT !.pc = "begin", !.old = node]
    <3>1. begun \in AgentCall
      BY DEF TypeOK, AgentCall, CallPc
    <3>2. CASE call' = [call EXCEPT ![c] = begun]
      BY <3>1, <3>2 DEF TypeOK
    <3>3. CASE SetCall(c, "refused") \/ SetCall(c, "ok")
      BY <3>3 DEF TypeOK, AgentCall, CallPc, SetCall
    <3> QED  BY <1>14, <3>2, <3>3 DEF AgentLoads
  <2> QED
    BY <1>14, <2>1, Defaults DEF TypeOK, ApplyStatus, AgentLoads, SetCall,
         rowVars, coreVars, viewVars
<1>15. ASSUME NEW c \in Call, AgentStart(c)
      PROVE  TypeOK'
  <2>1. call' \in [Call -> AgentCall]
    BY <1>15, Defaults DEF TypeOK, AgentCall, CallPc, Task, AgentStart, SetCall
  <2> QED
    BY <1>15, <2>1, Defaults DEF TypeOK, ApplyStatus, Task, Deploy, AgentCall,
         AgentStart, SetCall, rowVars, coreVars, viewVars
<1>16. ASSUME NEW c \in Call, AgentApplied(c)
      PROVE  TypeOK'
  <2>1. call' \in [Call -> AgentCall]
    BY <1>16, Defaults DEF TypeOK, AgentCall, CallPc, Task, AgentApplied, SetCall
  <2> QED
    BY <1>16, <2>1, Defaults DEF TypeOK, ApplyStatus, Task, Deploy, AgentCall,
         AgentApplied, SetCall, rowVars, coreVars, viewVars
<1>17. ASSUME NEW c \in Call, AgentFails(c)
      PROVE  TypeOK'
  <2>1. call' \in [Call -> AgentCall]
    BY <1>17, Defaults DEF TypeOK, AgentCall, CallPc, Task, AgentFails, SetCall
  <2> QED
    BY <1>17, <2>1, Defaults DEF TypeOK, ApplyStatus, Task, Deploy, AgentCall,
         AgentFails, SetCall, rowVars, coreVars, viewVars
<1>18. ASSUME NEW c \in Call, CallForgotten(c)
      PROVE  TypeOK'
  <2>1. call' \in [Call -> AgentCall]
    BY <1>18, Defaults DEF TypeOK, AgentCall, CallPc, Task, CallForgotten
  <2> QED
    BY <1>18, <2>1, Defaults DEF TypeOK, ApplyStatus, CallForgotten, rowVars,
         coreVars, viewVars
<1>19. CASE DeployRequested
  <2>1. queue' \in [{Lock} -> Seq(Owner)]
    BY <1>19, AcquireKeeps DEF DeployRequested, Owner
  <2>2. deploy' \in Deploy
    BY <1>19, Defaults DEF TypeOK, Deploy, DeployPc, DeployRequested
  <2> QED
    BY <1>19, <2>1, <2>2, Defaults DEF TypeOK, ApplyStatus, DeployRequested,
         rowVars, nodeVars, viewVars
<1>20. CASE DeployStarts
  <2>1. deploy' \in Deploy
    BY <1>20, Defaults, DesiredTyped DEF TypeOK, Deploy, DeployPc, DeployStarts
  <2> QED
    BY <1>20, <2>1, Defaults DEF TypeOK, ApplyStatus, Task, Deploy, AgentCall,
         DeployStarts, rowVars, nodeVars, viewVars
<1>21. CASE DeployStartsApp
  <2>1. deploy' \in Deploy
    BY <1>21, Defaults DEF TypeOK, Deploy, DeployPc, DeployStartsApp
  <2> QED
    BY <1>21, <2>1, Defaults DEF TypeOK, ApplyStatus, Task, Deploy, AgentCall,
         DeployStartsApp, rowVars, nodeVars, viewVars
<1>22. CASE DeployEnds
  <2>1. queue' \in [{Lock} -> Seq(Owner)]
    BY <1>22, ReleaseKeeps DEF DeployEnds, LockInv, TaskWorks, DeployWorks, Owner
  <2>2. deploy' \in Deploy
    BY <1>22, Defaults DEF TypeOK, Deploy, DeployPc, DeployEnds
  <2> QED
    BY <1>22, <2>1, <2>2, Defaults DEF TypeOK, ApplyStatus, Task, Deploy,
         AgentCall, DeployEnds, viewVars
<1>23. CASE Heartbeat
  BY <1>23, Defaults DEF TypeOK, ApplyStatus, Heartbeat, rowVars, coreVars,
         nodeVars
<1>24. CASE ingest
  BY <1>24, Defaults DEF TypeOK, ApplyStatus, ingest, coreVars, nodeVars
<1>25. CASE SnapshotExpires
  BY <1>25, Defaults DEF TypeOK, ApplyStatus, SnapshotExpires, rowVars,
         coreVars, nodeVars
<1>26. CASE CoreRestart
  <2>1. task' \in Task
    BY <1>26, Defaults DEF TypeOK, Task, TaskPc, CoreRestart
  <2>2. deploy' \in Deploy
    BY <1>26, Defaults DEF TypeOK, Deploy, DeployPc, CoreRestart
  <2>3. call' \in [Call -> AgentCall]
    BY <1>26, Defaults DEF TypeOK, AgentCall, CallPc, Task, CoreRestart
  <2> QED
    BY <1>26, <2>1, <2>2, <2>3, Defaults DEF TypeOK, ApplyStatus, CoreRestart,
         rowVars, viewVars
<1>27. CASE AgentRestart
  <2>1. call' \in [Call -> AgentCall]
    BY <1>27, Defaults DEF TypeOK, AgentCall, CallPc, Task, AgentRestart
  <2> QED
    BY <1>27, <2>1, Defaults DEF TypeOK, ApplyStatus, AgentRestart, rowVars,
         coreVars, viewVars
<1> QED
  BY <1>1, <1>2, <1>3, <1>4, <1>5, <1>6, <1>7, <1>8, <1>9, <1>10, <1>11,
     <1>12, <1>13, <1>14, <1>15, <1>16, <1>17, <1>18, <1>19, <1>20, <1>21,
     <1>22, <1>23, <1>24, <1>25, <1>26, <1>27, <1>6b
     DEF Next, Intent, TaskStep, CallStep, DeployStep, Observe, Restart

-----------------------------------------------------------------------------
(* No step makes a pair up: it hands one on or reads the row *)

\* The steps of the task, the agent's calls, the deploys and the restarts.
Works ==
    \/ reconcile_pending
    \/ TaskStep
    \/ \E c \in Call : CallStep(c)
    \/ DeployRequested
    \/ DeployStep
    \/ Restart
    \/ UNCHANGED vars

\* What such a step leaves, and where its pairs come from.
HandedOn ==
    /\ UNCHANGED <<granted, enabled, generation, viewVars>>
    /\ Held' \subseteq Held \cup {desired_runtime}
    /\ app' \in Held

LEMMA WorksHandOn ==
    ASSUME TypeOK, Works
    PROVE  HandedOn
<1> USE DEF HandedOn, Held, TypeOK, Task, Deploy, AgentCall, rowVars, coreVars, nodeVars,
            viewVars, NoTask, NoDeploy, NoCall
<1>1. CASE UNCHANGED vars
  BY <1>1 DEF vars
<1>2. CASE reconcile_pending
  BY <1>2 DEF reconcile_pending, schedule_reconcile
<1>3. CASE TaskWakes
  BY <1>3 DEF TaskWakes
<1>4. CASE TaskLoads
  <2>1. task'.env \in {Off, desired_runtime}
    <3>1. CASE task' = NoTask
      BY <3>1
    <3>2. CASE task' = [task EXCEPT !.pc = "loaded", !.env = desired_runtime]
      BY <3>2
    <3> QED BY <1>4, <3>1, <3>2 DEF TaskLoads
  <2> QED
    BY <1>4, <2>1 DEF TaskLoads
<1>4b. CASE TaskBegins
  BY <1>4b DEF TaskBegins
<1>5. CASE LocalStart
  BY <1>5 DEF LocalStart
<1>6. CASE LocalApplied
  BY <1>6 DEF LocalApplied, TaskSucceeds
<1>7. CASE LocalFails
  BY <1>7 DEF LocalFails, TaskFails
<1>8. CASE NodeUnavailable
  BY <1>8 DEF NodeUnavailable, TaskFails
<1>9. CASE RemoteLost
  BY <1>9 DEF RemoteLost, TaskFails
<1>10. ASSUME NEW c \in Call, RemoteSend(c)
      PROVE  HandedOn
  BY <1>10 DEF RemoteSend
<1>11. ASSUME NEW c \in Call, RemoteAnswer(c)
      PROVE  HandedOn
  BY <1>11 DEF RemoteAnswer, TaskSucceeds, TaskFails
<1>12. ASSUME NEW c \in Call, AgentLoads(c)
      PROVE  HandedOn
  <2> DEFINE begun == [call[c] EXCEPT !.pc = "begin", !.old = node]
  <2>1. begun.env = call[c].env /\ begun.old = node
    OBVIOUS
  <2>0. AgentLoads(c) => \/ call' = [call EXCEPT ![c] = begun]
                         \/ SetCall(c, "refused") \/ SetCall(c, "ok")
    BY DEF AgentLoads
  <2> HIDE DEF begun
  <2>2. CASE call' = [call EXCEPT ![c] = begun]
    BY <1>12, <2>1, <2>2 DEF AgentLoads
  <2>3. ASSUME NEW pc, SetCall(c, pc)
        PROVE  HandedOn
    BY <1>12, <2>3 DEF AgentLoads, SetCall
  <2> QED  BY <1>12, <2>0, <2>2, <2>3
<1>13. ASSUME NEW c \in Call, AgentStart(c)
      PROVE  HandedOn
  BY <1>13 DEF AgentStart, SetCall
<1>14. ASSUME NEW c \in Call, AgentApplied(c)
      PROVE  HandedOn
  BY <1>14 DEF AgentApplied, SetCall
<1>15. ASSUME NEW c \in Call, AgentFails(c)
      PROVE  HandedOn
  BY <1>15 DEF AgentFails, SetCall
<1>16. ASSUME NEW c \in Call, CallForgotten(c)
      PROVE  HandedOn
  BY <1>16 DEF CallForgotten
<1>17. CASE DeployRequested
  BY <1>17 DEF DeployRequested
<1>18. CASE DeployStarts
  BY <1>18 DEF DeployStarts
<1>19. CASE DeployStartsApp
  BY <1>19 DEF DeployStartsApp
<1>20. CASE DeployEnds
  BY <1>20 DEF DeployEnds
<1>21. CASE CoreRestart
  BY <1>21 DEF CoreRestart
<1>22. CASE AgentRestart
  BY <1>22 DEF AgentRestart
<1> QED
  BY <1>1, <1>2, <1>3, <1>4, <1>5, <1>6, <1>7, <1>8, <1>9, <1>10, <1>11, <1>12, <1>13, <1>14, <1>15, <1>16, <1>17, <1>18, <1>19, <1>20, <1>21, <1>22, <1>4b
     DEF Works, TaskStep, CallStep, DeployStep, Restart

\* A report is of the app's pair.
LEMMA ReportsAreRun ==
    ASSUME Observe
    PROVE  /\ UNCHANGED <<granted, enabled, generation, Held, app>>
           /\ (beat \cup snapshot)' \subseteq beat \cup snapshot \cup {app}
<1>1. CASE Heartbeat
  BY <1>1 DEF Heartbeat, Held, rowVars, coreVars, nodeVars
<1>2. CASE ingest
  BY <1>2 DEF ingest, Held, coreVars, nodeVars
<1>3. CASE SnapshotExpires
  BY <1>3 DEF SnapshotExpires, Held, rowVars, coreVars, nodeVars
<1> QED BY <1>1, <1>2, <1>3 DEF Observe

LEMMA Steps ==
    ASSUME [Next]_vars
    PROVE  Intent \/ Works \/ Observe
  BY DEF Next, Works

-----------------------------------------------------------------------------
(* Generation fencing *)

Fenced(e) == e.gen <= generation /\ (e.gen = generation => e.on = effective)

\* While the intent stays, pairs that are copied, read from it or the default
\* stay fenced.
LEMMA CopiesFenced ==
    ASSUME TypeOK, DefaultInv, GenerationFencing,
           UNCHANGED <<granted, enabled, generation>>,
           Copies' \subseteq Copies \cup {Off, desired_runtime}
    PROVE  DefaultInv' /\ GenerationFencing'
<1>1. generation' = generation /\ effective' = effective
  BY DEF effective
<1>2. \A e \in Copies : Fenced(e)
  BY DEF GenerationFencing, Fenced
<1>3. Fenced(Off)
  <2>1. Off.gen = 0 /\ Off.on = FALSE
    BY DEF Off
  <2>2. generation = 0 => effective = FALSE
    BY DesiredTyped, Zenon DEF DefaultInv
  <2>3. generation = 0 => Off.on = effective
    BY <2>1, <2>2, Zenon
  <2>4. 0 <= generation
    BY DEF TypeOK
  <2> QED BY <2>1, <2>3, <2>4, Zenon DEF Fenced
<1>4. Fenced(desired_runtime)
  BY DEF Fenced, desired_runtime, TypeOK
<1>5. \A e \in Copies' : Fenced(e)
  BY <1>2, <1>3, <1>4
<1> QED
  BY <1>1, <1>5 DEF GenerationFencing, Fenced, DefaultInv

\* A new generation leaves every copy behind.
LEMMA ChangeFenced ==
    ASSUME TypeOK, GenerationFencing, NEW grant \in BOOLEAN, NEW enable \in BOOLEAN,
           Change(grant, enable)
    PROVE  DefaultInv' /\ GenerationFencing'
<1>1. generation \in Nat /\ generation' = generation + 1
  BY DEF TypeOK, Change
<1>2. Copies' \subseteq Copies \cup {Off}
  BY DEF Copies, Held, Change, schedule_reconcile, nodeVars, viewVars
<1>3. \A e \in Copies : e.gen \in Nat /\ e.gen <= generation
  BY Defaults DEF GenerationFencing, Copies, Held, TypeOK, Env, Task, Deploy, AgentCall
<1>4. \A e \in Copies' : e.gen \in Nat /\ e.gen <= generation
  BY <1>1, <1>2, <1>3 DEF Off
<1> QED
  BY <1>1, <1>4 DEF GenerationFencing, DefaultInv

\* Every step keeps the fencing: a copy of an environment is taken from the
\* row of its time, and the row's generation only grows.
LEMMA FencingStep ==
    ASSUME TypeOK, DefaultInv, GenerationFencing, [Next]_vars
    PROVE  DefaultInv' /\ GenerationFencing'
<1>1. CASE Intent
  BY <1>1, ChangeFenced DEF Intent, set_platform_rollout, set_org_rollout, TypeOK
<1>2. CASE Works
  <2>1. Copies' \subseteq Copies \cup {Off, desired_runtime}
    BY <1>2, WorksHandOn DEF HandedOn, Copies, viewVars
  <2> QED BY <1>2, <2>1, WorksHandOn, CopiesFenced DEF HandedOn
<1>3. CASE Observe
  <2>1. Copies' \subseteq Copies \cup {Off, desired_runtime}
    BY <1>3, ReportsAreRun DEF Copies, Held
  <2> QED BY <1>3, <2>1, ReportsAreRun, CopiesFenced
<1> QED BY <1>1, <1>2, <1>3, Steps

-----------------------------------------------------------------------------
(* The app and the row *)

\* The generations the comparisons of AppStep are made on are numbers.
LEMMA Generations ==
    ASSUME TypeOK, GenerationFencing
    PROVE  /\ applied.gen \in Nat /\ app.gen \in Nat /\ task.env.gen \in Nat
           /\ deploy.env.gen \in Nat /\ generation \in Nat
           /\ applied.gen <= generation
<1>1. applied \in Copies
  BY DEF Copies, Held
<1> QED BY <1>1 DEF TypeOK, Env, Task, Deploy, GenerationFencing

\* Every step keeps the lock's ownership and AppNotBehind: who writes the row
\* behind the app's back holds the lock the app is replaced under.
LEMMA AppStep ==
    ASSUME IInv, [Next]_vars
    PROVE  LockInv' /\ HostInv' /\ TaskInv' /\ DeployInv' /\ AppNotBehind'
<1>1. CASE UNCHANGED vars
  <2>1. LockInv'
    BY <1>1 DEF IInv, LockInv, TaskWorks, DeployWorks, Holds, vars, coreVars
  <2>2. HostInv'
    BY <1>1 DEF IInv, HostInv, vars, nodeVars
  <2>3. TaskInv' /\ DeployInv' /\ AppNotBehind'
    BY <1>1 DEF IInv, TaskInv, DeployInv, AppNotBehind, TaskWorks, DeployWorks,
         vars, rowVars, coreVars
  <2> QED BY <2>1, <2>2, <2>3
<1>2. ASSUME NEW b \in BOOLEAN, set_platform_rollout(b)
      PROVE  LockInv' /\ HostInv' /\ TaskInv' /\ DeployInv' /\ AppNotBehind'
  <2>1. LockInv'
    BY <1>2 DEF IInv, LockInv, TaskWorks, DeployWorks, Holds, NoTask,
         set_platform_rollout, Change, schedule_reconcile
  <2>2. HostInv'
    BY <1>2 DEF IInv, HostInv, set_platform_rollout, Change, schedule_reconcile,
         nodeVars
  <2>3. TaskInv' /\ DeployInv' /\ AppNotBehind'
    BY <1>2 DEF IInv, NoTask, TaskInv, DeployInv, AppNotBehind, TaskWorks,
         DeployWorks, set_platform_rollout, Change, schedule_reconcile
  <2> QED BY <2>1, <2>2, <2>3
<1>3. ASSUME NEW b \in BOOLEAN, set_org_rollout(b)
      PROVE  LockInv' /\ HostInv' /\ TaskInv' /\ DeployInv' /\ AppNotBehind'
  <2>1. LockInv'
    BY <1>3 DEF IInv, LockInv, TaskWorks, DeployWorks, Holds, NoTask,
         set_org_rollout, Change, schedule_reconcile
  <2>2. HostInv'
    BY <1>3 DEF IInv, HostInv, set_org_rollout, Change, schedule_reconcile, nodeVars
  <2>3. TaskInv' /\ DeployInv' /\ AppNotBehind'
    BY <1>3 DEF IInv, NoTask, TaskInv, DeployInv, AppNotBehind, TaskWorks,
         DeployWorks, set_org_rollout, Change, schedule_reconcile
  <2> QED BY <2>1, <2>2, <2>3
<1>4. CASE reconcile_pending
  <2>1. LockInv'
    BY <1>4 DEF IInv, LockInv, TaskWorks, DeployWorks, Holds, NoTask,
         reconcile_pending, schedule_reconcile
  <2>2. HostInv'
    BY <1>4 DEF IInv, HostInv, reconcile_pending, schedule_reconcile, nodeVars
  <2>3. TaskInv' /\ DeployInv' /\ AppNotBehind'
    BY <1>4 DEF IInv, NoTask, TaskInv, DeployInv, AppNotBehind, TaskWorks,
         DeployWorks, reconcile_pending, schedule_reconcile, rowVars
  <2> QED BY <2>1, <2>2, <2>3
<1>5. CASE TaskWakes
  <2>1. \A o \in Owner : Holds(Lock, o) => Holds(Lock, o)'
    BY <1>5, AcquireKeeps DEF TaskWakes, IInv, Owner
  <2>2. LockInv'
    BY <1>5, <2>1 DEF IInv, LockInv, TaskWorks, DeployWorks, Owner, TypeOK, Task,
         TaskWakes
  <2>3. HostInv'
    BY <1>5 DEF IInv, HostInv, TaskWakes, nodeVars
  <2>4. TaskInv' /\ DeployInv' /\ AppNotBehind'
    BY <1>5 DEF IInv, TypeOK, Task, TaskInv, DeployInv, AppNotBehind, TaskWorks,
         DeployWorks, TaskWakes, rowVars
  <2> QED BY <2>2, <2>3, <2>4
<1>6. CASE TaskLoads
  <2>1. HostInv'
    BY <1>6 DEF IInv, HostInv, TaskLoads, nodeVars
  <2>2. CASE task' = NoTask
    <3>1. ~TaskWorks' /\ ~DeployWorks'
      BY <1>6, <2>2 DEF IInv, LockInv, DeployWorks, TaskWorks, NoTask, Holds,
         TaskLoads, OwnsTask
    <3> QED
      BY <1>6, <2>1, <3>1 DEF IInv, LockInv, TaskInv, DeployInv, AppNotBehind,
         TaskWorks, DeployWorks, TaskLoads, rowVars
  <2>3. CASE /\ applied.gen < generation
             /\ task' = [task EXCEPT !.pc = "loaded", !.env = desired_runtime]
             /\ UNCHANGED queue
    <3>1. task'.pc = "loaded" /\ task'.env.gen = generation
      BY <2>3 DEF IInv, TypeOK, Task, desired_runtime
    <3>2. Holds(Lock, "reconcile")' /\ ~DeployWorks'
      BY <1>6, <2>3 DEF IInv, LockInv, DeployWorks, Holds, TaskLoads, OwnsTask
    <3> QED
      BY <1>6, <2>1, <2>3, <3>1, <3>2 DEF IInv, LockInv, TaskInv, DeployInv,
         AppNotBehind, TaskWorks, DeployWorks, TaskLoads, rowVars
  <2> QED
    BY <1>6, <2>2, <2>3, Generations DEF IInv, TaskLoads
<1>6b. CASE TaskBegins
  <2>1. LockInv'
    BY <1>6b DEF IInv, LockInv, TaskWorks, DeployWorks, Holds, TypeOK, Task,
         TaskBegins
  <2>2. HostInv'
    BY <1>6b DEF IInv, HostInv, TaskBegins, nodeVars
  <2>3. TaskInv' /\ DeployInv' /\ AppNotBehind'
    BY <1>6b, Exclusion DEF IInv, TypeOK, Task, TaskInv, DeployInv, AppNotBehind,
         TaskWorks, DeployWorks, TaskBegins
  <2> QED BY <2>1, <2>2, <2>3
<1>7. CASE LocalStart
  <2>1. LockInv'
    BY <1>7 DEF IInv, LockInv, TaskWorks, DeployWorks, Holds, TypeOK, Task,
         LocalStart
  <2>2. HostInv'
    BY <1>7 DEF IInv, HostInv, LocalStart, nodeVars
  <2>3. TaskInv' /\ DeployInv' /\ AppNotBehind'
    BY <1>7, Exclusion, Generations DEF IInv, TypeOK, Task, TaskInv, DeployInv,
         AppNotBehind, TaskWorks, DeployWorks, LocalStart, rowVars
  <2> QED BY <2>1, <2>2, <2>3
<1>8. CASE LocalApplied
  <2>1. LockInv'
    BY <1>8, Exclusion DEF IInv, LockInv, TaskWorks, DeployWorks, NoTask,
         LocalApplied, TaskSucceeds
  <2>2. HostInv'
    BY <1>8 DEF IInv, HostInv, LocalApplied, TaskSucceeds, nodeVars
  <2>3. TaskInv' /\ DeployInv' /\ AppNotBehind'
    BY <1>8, Exclusion, Generations DEF IInv, NoTask, TaskInv, DeployInv,
         AppNotBehind, TaskWorks, DeployWorks, LocalApplied, TaskSucceeds
  <2> QED BY <2>1, <2>2, <2>3
<1>9. CASE LocalFails
  <2>1. LockInv'
    BY <1>9, Exclusion DEF IInv, LockInv, TaskWorks, DeployWorks, NoTask,
         LocalFails, TaskFails
  <2>2. HostInv'
    BY <1>9 DEF IInv, HostInv, LocalFails, TaskFails, nodeVars
  <2>3. TaskInv' /\ DeployInv' /\ AppNotBehind'
    BY <1>9, Exclusion, Generations DEF IInv, NoTask, TaskInv, DeployInv,
         AppNotBehind, TaskWorks, DeployWorks, LocalFails, TaskFails
  <2> QED BY <2>1, <2>2, <2>3
<1>10. CASE NodeUnavailable
  <2>1. LockInv'
    BY <1>10, Exclusion DEF IInv, LockInv, TaskWorks, DeployWorks, NoTask,
         NodeUnavailable, TaskFails
  <2>2. HostInv'
    BY <1>10 DEF IInv, HostInv, TypeOK, AgentCall, NodeUnavailable, TaskFails
  <2>3. TaskInv' /\ DeployInv' /\ AppNotBehind'
    BY <1>10, Exclusion DEF IInv, NoTask, TaskInv, DeployInv, AppNotBehind,
         TaskWorks, DeployWorks, NodeUnavailable, TaskFails
  <2> QED BY <2>1, <2>2, <2>3
<1>11. CASE RemoteLost
  <2>1. LockInv'
    BY <1>11, Exclusion DEF IInv, LockInv, TaskWorks, DeployWorks, NoTask,
         RemoteLost, TaskFails
  <2>2. HostInv'
    BY <1>11 DEF IInv, HostInv, TypeOK, AgentCall, RemoteLost, TaskFails
  <2>3. TaskInv' /\ DeployInv' /\ AppNotBehind'
    BY <1>11, Exclusion DEF IInv, NoTask, TaskInv, DeployInv, AppNotBehind,
         TaskWorks, DeployWorks, RemoteLost, TaskFails
  <2> QED BY <2>1, <2>2, <2>3
<1>12. ASSUME NEW c \in Call, RemoteSend(c)
      PROVE  LockInv' /\ HostInv' /\ TaskInv' /\ DeployInv' /\ AppNotBehind'
  <2>1. LockInv'
    BY <1>12 DEF IInv, LockInv, TaskWorks, DeployWorks, Holds, TypeOK, Task,
         RemoteSend
  <2>2. HostInv'
    BY <1>12 DEF IInv, HostInv, TypeOK, AgentCall, RemoteSend
  <2>3. TaskInv' /\ DeployInv' /\ AppNotBehind'
    BY <1>12 DEF IInv, TypeOK, Task, TaskInv, DeployInv, AppNotBehind, TaskWorks,
         DeployWorks, RemoteSend, rowVars
  <2> QED BY <2>1, <2>2, <2>3
<1>13. ASSUME NEW c \in Call, RemoteAnswer(c)
      PROVE  LockInv' /\ HostInv' /\ TaskInv' /\ DeployInv' /\ AppNotBehind'
  <2>1. LockInv'
    BY <1>13, Exclusion DEF IInv, LockInv, TaskWorks, DeployWorks, NoTask,
         RemoteAnswer, TaskSucceeds, TaskFails
  <2>2. HostInv'
    BY <1>13 DEF IInv, HostInv, TypeOK, AgentCall, NoCall, RemoteAnswer,
         TaskSucceeds, TaskFails
  <2>3. TaskInv' /\ DeployInv' /\ AppNotBehind'
    BY <1>13, Exclusion, Generations DEF IInv, HostInv, NoTask, TaskInv,
         DeployInv, AppNotBehind, TaskWorks, DeployWorks, RemoteAnswer,
         TaskSucceeds, TaskFails
  <2> QED BY <2>1, <2>2, <2>3
<1>14. ASSUME NEW c \in Call, AgentLoads(c)
      PROVE  LockInv' /\ HostInv' /\ TaskInv' /\ DeployInv' /\ AppNotBehind'
  <2>1. LockInv'
    BY <1>14 DEF IInv, LockInv, TaskWorks, DeployWorks, Holds, AgentLoads,
         SetCall, coreVars
  <2>2. HostInv'
    BY <1>14 DEF IInv, HostInv, TypeOK, AgentCall, AgentLoads, SetCall
  <2>3. TaskInv' /\ DeployInv' /\ AppNotBehind'
    BY <1>14 DEF IInv, TaskInv, DeployInv, AppNotBehind, TaskWorks, DeployWorks,
         AgentLoads, SetCall, rowVars, coreVars
  <2> QED BY <2>1, <2>2, <2>3
<1>15. ASSUME NEW c \in Call, AgentStart(c)
      PROVE  LockInv' /\ HostInv' /\ TaskInv' /\ DeployInv' /\ AppNotBehind'
  <2>1. LockInv'
    BY <1>15 DEF IInv, LockInv, TaskWorks, DeployWorks, Holds, AgentStart,
         SetCall, coreVars
  <2>2. HostInv'
    BY <1>15 DEF IInv, HostInv, TypeOK, AgentCall, AgentStart, SetCall
  <2>3. TaskInv' /\ DeployInv' /\ AppNotBehind'
    BY <1>15 DEF IInv, HostInv, TaskInv, DeployInv, AppNotBehind, TaskWorks,
         DeployWorks, AgentStart, SetCall, rowVars, coreVars
  <2> QED BY <2>1, <2>2, <2>3
<1>16. ASSUME NEW c \in Call, AgentApplied(c)
      PROVE  LockInv' /\ HostInv' /\ TaskInv' /\ DeployInv' /\ AppNotBehind'
  <2>1. LockInv'
    BY <1>16 DEF IInv, LockInv, TaskWorks, DeployWorks, Holds, AgentApplied,
         SetCall, coreVars
  <2>2. HostInv'
    BY <1>16 DEF IInv, HostInv, TypeOK, AgentCall, AgentApplied, SetCall
  <2>3. TaskInv' /\ DeployInv' /\ AppNotBehind'
    BY <1>16 DEF IInv, TaskInv, DeployInv, AppNotBehind, TaskWorks, DeployWorks,
         AgentApplied, SetCall, rowVars, coreVars
  <2> QED BY <2>1, <2>2, <2>3
<1>17. ASSUME NEW c \in Call, AgentFails(c)
      PROVE  LockInv' /\ HostInv' /\ TaskInv' /\ DeployInv' /\ AppNotBehind'
  <2>1. LockInv'
    BY <1>17 DEF IInv, LockInv, TaskWorks, DeployWorks, Holds, AgentFails,
         SetCall, coreVars
  <2>2. HostInv'
    BY <1>17 DEF IInv, HostInv, TypeOK, AgentCall, AgentFails, SetCall
  <2>3. TaskInv' /\ DeployInv' /\ AppNotBehind'
    BY <1>17 DEF IInv, HostInv, TaskInv, DeployInv, AppNotBehind, TaskWorks,
         DeployWorks, AgentFails, SetCall, rowVars, coreVars
  <2> QED BY <2>1, <2>2, <2>3
<1>18. ASSUME NEW c \in Call, CallForgotten(c)
      PROVE  LockInv' /\ HostInv' /\ TaskInv' /\ DeployInv' /\ AppNotBehind'
  <2>1. LockInv'
    BY <1>18 DEF IInv, LockInv, TaskWorks, DeployWorks, Holds, CallForgotten,
         coreVars
  <2>2. HostInv'
    BY <1>18 DEF IInv, HostInv, TypeOK, AgentCall, NoCall, CallForgotten
  <2>3. TaskInv' /\ DeployInv' /\ AppNotBehind'
    BY <1>18 DEF IInv, TaskInv, DeployInv, AppNotBehind, TaskWorks, DeployWorks,
         CallForgotten, rowVars, coreVars
  <2> QED BY <2>1, <2>2, <2>3
<1>19. CASE DeployRequested
  <2>1. \A o \in Owner : Holds(Lock, o) => Holds(Lock, o)'
    BY <1>19, AcquireKeeps DEF DeployRequested, IInv, Owner
  <2>2. LockInv'
    BY <1>19, <2>1 DEF IInv, LockInv, TaskWorks, DeployWorks, Owner, TypeOK,
         Deploy, DeployRequested
  <2>3. HostInv'
    BY <1>19 DEF IInv, HostInv, DeployRequested, nodeVars
  <2>4. TaskInv' /\ DeployInv' /\ AppNotBehind'
    BY <1>19 DEF IInv, TypeOK, Deploy, TaskInv, DeployInv, AppNotBehind,
         TaskWorks, DeployWorks, DeployRequested, rowVars
  <2> QED BY <2>2, <2>3, <2>4
<1>20. CASE DeployStarts
  <2>1. deploy'.pc = "begin" /\ deploy'.env.gen = generation
    BY <1>20 DEF DeployStarts, desired_runtime
  <2>2. Holds(Lock, "deploy")' /\ ~TaskWorks'
    BY <1>20 DEF IInv, LockInv, TaskWorks, Holds, DeployStarts
  <2>3. HostInv'
    BY <1>20 DEF IInv, HostInv, DeployStarts, nodeVars
  <2> QED
    BY <1>20, <2>1, <2>2, <2>3, Generations DEF IInv, LockInv, TaskInv, DeployInv,
       AppNotBehind, TaskWorks, DeployWorks, DeployStarts, rowVars
<1>21. CASE DeployStartsApp
  <2>1. LockInv'
    BY <1>21 DEF IInv, LockInv, TaskWorks, DeployWorks, Holds, TypeOK, Deploy,
         DeployStartsApp
  <2>2. HostInv'
    BY <1>21 DEF IInv, HostInv, DeployStartsApp, nodeVars
  <2>3. TaskInv' /\ DeployInv' /\ AppNotBehind'
    BY <1>21, Exclusion, Generations DEF IInv, TypeOK, Deploy, TaskInv,
         DeployInv, AppNotBehind, TaskWorks, DeployWorks, DeployStartsApp,
         rowVars
  <2> QED BY <2>1, <2>2, <2>3
<1>22. CASE DeployEnds
  <2>1. LockInv'
    BY <1>22, Exclusion DEF IInv, LockInv, TaskWorks, DeployWorks, NoDeploy,
         DeployEnds
  <2>2. HostInv'
    BY <1>22 DEF IInv, HostInv, DeployEnds
  <2>3. TaskInv' /\ DeployInv' /\ AppNotBehind'
    BY <1>22, Exclusion, Generations DEF IInv, NoDeploy, TaskInv, DeployInv,
         AppNotBehind, TaskWorks, DeployWorks, DeployEnds
  <2> QED BY <2>1, <2>2, <2>3
<1>23. CASE Heartbeat
  <2>1. LockInv'
    BY <1>23 DEF IInv, LockInv, TaskWorks, DeployWorks, Holds, Heartbeat, coreVars
  <2>2. HostInv'
    BY <1>23 DEF IInv, HostInv, Heartbeat, nodeVars
  <2>3. TaskInv' /\ DeployInv' /\ AppNotBehind'
    BY <1>23 DEF IInv, TaskInv, DeployInv, AppNotBehind, TaskWorks, DeployWorks,
         Heartbeat, rowVars, coreVars
  <2> QED BY <2>1, <2>2, <2>3
<1>24. CASE ingest
  <2>1. LockInv'
    BY <1>24 DEF IInv, LockInv, TaskWorks, DeployWorks, Holds, ingest, coreVars
  <2>2. HostInv'
    BY <1>24 DEF IInv, HostInv, ingest, nodeVars
  <2>3. TaskInv' /\ DeployInv' /\ AppNotBehind'
    BY <1>24 DEF IInv, TaskInv, DeployInv, AppNotBehind, TaskWorks, DeployWorks,
         ingest, coreVars
  <2> QED BY <2>1, <2>2, <2>3
<1>25. CASE SnapshotExpires
  <2>1. LockInv'
    BY <1>25 DEF IInv, LockInv, TaskWorks, DeployWorks, Holds, SnapshotExpires,
         coreVars
  <2>2. HostInv'
    BY <1>25 DEF IInv, HostInv, SnapshotExpires, nodeVars
  <2>3. TaskInv' /\ DeployInv' /\ AppNotBehind'
    BY <1>25 DEF IInv, TaskInv, DeployInv, AppNotBehind, TaskWorks, DeployWorks,
         SnapshotExpires, rowVars, coreVars
  <2> QED BY <2>1, <2>2, <2>3
<1>26. CASE CoreRestart
  <2>1. LockInv'
    BY <1>26 DEF IInv, LockInv, TaskWorks, DeployWorks, Holds, NoTask, NoDeploy,
         CoreRestart
  <2>2. HostInv'
    BY <1>26 DEF IInv, HostInv, TypeOK, AgentCall, CoreRestart
  <2>3. TaskInv' /\ DeployInv' /\ AppNotBehind'
    BY <1>26 DEF IInv, NoTask, NoDeploy, TaskInv, DeployInv, AppNotBehind,
         TaskWorks, DeployWorks, CoreRestart, rowVars
  <2> QED BY <2>1, <2>2, <2>3
<1>27. CASE AgentRestart
  <2>1. LockInv'
    BY <1>27 DEF IInv, LockInv, TaskWorks, DeployWorks, Holds, AgentRestart,
         coreVars
  <2>2. HostInv'
    BY <1>27 DEF IInv, HostInv, NoCall, AgentRestart
  <2>3. TaskInv' /\ DeployInv' /\ AppNotBehind'
    BY <1>27 DEF IInv, TaskInv, DeployInv, AppNotBehind, TaskWorks, DeployWorks,
         AgentRestart, rowVars, coreVars
  <2> QED BY <2>1, <2>2, <2>3
<1> QED
  BY <1>1, <1>2, <1>3, <1>4, <1>5, <1>6, <1>7, <1>8, <1>9, <1>10, <1>11,
     <1>12, <1>13, <1>14, <1>15, <1>16, <1>17, <1>18, <1>19, <1>20, <1>21,
     <1>22, <1>23, <1>24, <1>25, <1>26, <1>27, <1>6b
     DEF Next, Intent, TaskStep, CallStep, DeployStep, Observe, Restart

-----------------------------------------------------------------------------
(* Theorems *)

\* The rollout is off at the start.
LEMMA InitInv == Init => IInv
<1> SUFFICES ASSUME Init
             PROVE  IInv
  OBVIOUS
<1>1. PICK r \in BOOLEAN : remote = r
  BY PlacementsAssumption DEF Init
<1>2. TypeOK
  <2>1. queue \in [{Lock} -> Seq(Owner)]
    BY EmptySeq DEF Init
  <2>2. call \in [Call -> AgentCall] /\ task \in Task /\ deploy \in Deploy
    BY Defaults DEF Init
  <2>3. remote \in BOOLEAN
    BY <1>1
  <2>4. granted \in BOOLEAN /\ enabled \in BOOLEAN /\ generation \in Nat
    BY DEF Init
  <2> QED BY <2>1, <2>2, <2>3, <2>4, Defaults DEF Init, TypeOK, ApplyStatus
<1>3. DefaultInv
  BY DEF Init, DefaultInv, effective
<1>4. GenerationFencing
  <2>1. Copies = {Off}
    BY DEF Init, Copies, Held, NoTask, NoDeploy, NoCall
  <2>2. /\ Off.gen <= generation
        /\ Off.on = FALSE /\ effective = FALSE
    BY DEF Init, Off, effective
  <2>3. Off.gen <= generation /\ Off.on = effective
    BY <2>2, Zenon
  <2> QED BY <2>1, <2>3, Zenon DEF GenerationFencing
<1>5. LockInv /\ HostInv /\ TaskInv /\ DeployInv /\ AppNotBehind
  BY DEF Init, LockInv, HostInv, TaskInv, DeployInv, AppNotBehind, TaskWorks,
     DeployWorks, NoTask, NoDeploy, NoCall, Off
<1> QED BY <1>2, <1>3, <1>4, <1>5 DEF IInv

\* The invariant is inductive.
LEMMA NextInv == IInv /\ [Next]_vars => IInv'
BY TypeStep, FencingStep, AppStep DEF IInv

\* The inductive invariant holds in every reachable state.
THEOREM InvariantHolds == Spec => []IInv
BY InitInv, NextInv, PTL DEF Spec

\* Type correctness of the rollout's state.
THEOREM TypeCorrect == Spec => []TypeOK
<1>1. IInv => TypeOK
  BY DEF IInv
<1> QED BY <1>1, InvariantHolds, PTL

\* A generation stands for one intent: whatever is delayed, retried, rolled back
\* or lost by a restart, a copy of the present generation is the present intent.
THEOREM FencingHolds == Spec => []GenerationFencing
<1>1. IInv => GenerationFencing
  BY DEF IInv
<1> QED BY <1>1, InvariantHolds, PTL

\* On the platform's own host the app never falls behind the row's generation.
THEOREM HostAppNotBehind == Spec => []AppNotBehind
<1>1. IInv => AppNotBehind
  BY DEF IInv
<1> QED BY <1>1, InvariantHolds, PTL

-----------------------------------------------------------------------------
(* The rollout implements FencedIntent *)

LEMMA InitFenced == Init => Fence!Init
<1> SUFFICES ASSUME Init PROVE Fence!Init
  OBVIOUS
<1>1. Held = {Off}
  BY DEF Init, Held, NoTask, NoDeploy, NoCall
<1>2. Off = Fence!Off
  BY DEF Off, Fence!Off
<1>3. effective = FALSE /\ social_rollout_converged = FALSE
  BY DEF Init, effective, social_rollout_converged
<1>4. beat \cup snapshot = {}
  BY DEF Init
<1> QED BY <1>1, <1>2, <1>3, <1>4 DEF Init, Fence!Init

\* Without a task there is no pair of one.
IdleInv == task.pc = "none" => task.env = Off

LEMMA IdleStep ==
    ASSUME TypeOK, IdleInv, [Next]_vars
    PROVE  IdleInv'
<1>1. CASE Intent \/ reconcile_pending
  BY <1>1 DEF IdleInv, Intent, set_platform_rollout, set_org_rollout, Change,
     schedule_reconcile, reconcile_pending
<1>2. ASSUME NEW pc \in TaskPc \ {"none"}, task' = [task EXCEPT !.pc = pc]
      PROVE  IdleInv'
  BY <1>2 DEF IdleInv, TypeOK, Task
<1>3. CASE TaskStep
  <2>1. ASSUME NEW st, TaskFails(st)
        PROVE  IdleInv'
    BY <2>1 DEF TaskFails, IdleInv, NoTask
  <2>2. CASE TaskSucceeds \/ TaskLoads
    <3>1. \/ task' = NoTask
          \/ task' = [task EXCEPT !.pc = "loaded", !.env = desired_runtime]
      BY <2>2 DEF TaskSucceeds, TaskLoads
    <3>2. CASE task' = NoTask
      BY <3>2 DEF IdleInv, NoTask
    <3>3. CASE task' = [task EXCEPT !.pc = "loaded", !.env = desired_runtime]
      <4>1. task'.pc = "loaded"
        BY <3>3 DEF TypeOK, Task
      <4> QED BY <4>1 DEF IdleInv
    <3> QED BY <3>1, <3>2, <3>3
  <2>3. \A pc \in {"lock", "apply", "started", "answer"} : pc \in TaskPc \ {"none"}
    BY DEF TaskPc
  <2> QED
    BY <1>2, <1>3, <2>1, <2>2, <2>3 DEF TaskStep, TaskWakes, TaskBegins, LocalStart, LocalApplied,
       LocalFails, NodeUnavailable, RemoteSend, RemoteAnswer, RemoteLost
<1>4. CASE task' = task \/ task' = NoTask
  BY <1>4 DEF IdleInv, NoTask
<1>5. \/ Intent \/ reconcile_pending \/ TaskStep
      \/ task' = task \/ task' = NoTask
  BY DEF Next, vars, coreVars, CallStep, AgentLoads, AgentStart, AgentApplied, AgentFails,
     CallForgotten, DeployRequested, DeployStep, DeployStarts, DeployStartsApp, DeployEnds,
     Observe, Heartbeat, ingest, SnapshotExpires, Restart, CoreRestart, AgentRestart
<1> QED BY <1>1, <1>3, <1>4, <1>5

\* A change leaves every report behind, so that nothing is offered by one.
LEMMA ChangeMaps ==
    ASSUME TypeOK, GenerationFencing, IdleInv, Intent
    PROVE  Fence!Change
<1>1. /\ generation \in Nat /\ generation' = generation + 1
      /\ UNCHANGED <<applied, app, node, deploy, call, beat, snapshot>>
      /\ task'.env = task.env
  BY DEF Intent, set_platform_rollout, set_org_rollout, Change, schedule_reconcile,
     nodeVars, viewVars, TypeOK, IdleInv
<1>2. effective' \in BOOLEAN
  BY DEF effective
<1>3. social_rollout_converged' = FALSE
  <2>1. \A e \in snapshot : e.gen \in Nat /\ e.gen <= generation
    BY DEF GenerationFencing, Copies, TypeOK, Env
  <2> QED BY <1>1, <2>1 DEF social_rollout_converged
<1>4. Held' = Held
  BY <1>1 DEF Held
<1> QED BY <1>1, <1>2, <1>3, <1>4 DEF Fence!Change

LEMMA StepFenced ==
    ASSUME TypeOK, TypeOK', GenerationFencing, IdleInv, [Next]_vars
    PROVE  [Fence!Next]_Fence!vars
<1>1. desired_runtime = Fence!Present
  BY DEF desired_runtime, Fence!Present
<1>2. CASE Works
  <2>1. HandedOn
    BY <1>2, WorksHandOn
  <2>2. effective' = effective /\ social_rollout_converged' = social_rollout_converged
    BY <2>1, Zenon DEF HandedOn, viewVars, effective, social_rollout_converged
  <2>3. Fence!Work
    BY <1>1, <2>1, <2>2 DEF Fence!Work, HandedOn, viewVars
  <2> QED BY <2>3 DEF Fence!Next
<1>3. CASE Observe
  <2>1. effective' = effective /\ generation' = generation /\ Held' = Held /\ app' = app
    BY <1>3, ReportsAreRun DEF effective
  <2>2. social_rollout_converged' \in BOOLEAN
    BY Zenon DEF social_rollout_converged
  <2>3. social_rollout_converged' => effective /\ desired_runtime \in (beat \cup snapshot)'
    <3>1. \A e \in snapshot' : e = [gen |-> e.gen, on |-> e.on] /\ e.on \in BOOLEAN
      BY DEF TypeOK, Env
    <3> QED BY <2>1, <3>1 DEF social_rollout_converged, desired_runtime
  <2>4. Fence!Report
    BY <1>1, <1>3, <2>1, <2>2, <2>3, ReportsAreRun DEF Fence!Report
  <2> QED BY <2>4 DEF Fence!Next
<1>4. CASE Intent
  BY <1>4, ChangeMaps DEF Fence!Next
<1> QED BY <1>2, <1>3, <1>4, Steps

\* The rollout keeps what FencedIntent states, for any number of changes, calls,
\* retries, failures and restarts: in particular a revoke takes the offer of the
\* social functions back with its commit (social_rollout.py:90-119,
\* telemetry.py:108-135, mobile_descriptor.py:82-104).
THEOREM RolloutKeepsPromise == Spec => ImplementsFence
<1>1. Spec => [](IInv /\ IdleInv)
  <2>1. Init => IdleInv
    BY DEF Init, IdleInv, NoTask
  <2>2. IInv /\ IdleInv /\ [Next]_vars => IdleInv'
    BY IdleStep DEF IInv
  <2> QED BY <2>1, <2>2, InitInv, NextInv, PTL DEF Spec
<1>2. IInv /\ IdleInv /\ [Next]_vars => [Fence!Next]_Fence!vars
  BY StepFenced, NextInv DEF IInv
<1> QED BY <1>1, <1>2, InitFenced, PTL DEF Spec, ImplementsFence, Fence!Spec

=============================================================================
