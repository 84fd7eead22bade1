-------------------------- MODULE SchoolLifecycle ---------------------------
(***************************************************************************)
(* The life of the schools of one organization in the control plane         *)
(* (perum-core/app/routers/schools.py and the orchestration half of         *)
(* services/school_provisioner.py): requests of the organization's admins,  *)
(* the background tasks they schedule, and the stacks of SchoolStack.       *)
(*                                                                         *)
(* A request loads the school's row into its session and keeps that copy    *)
(* (expire_on_commit=False): "view" is the status it saw.  A school is a    *)
(* row id, so a subdomain whose row was purged comes back as another one.   *)
(***************************************************************************)
EXTENDS Integers, KeyedLocks, SchoolStack

CONSTANTS
    Remote,     \* schools assigned to a node, the others run beside the core
    Limit,      \* min(plan limit, organization.max_schools)
    OrgKey,     \* key of the organization's school-create lock
    Menu,       \* the requests the admins send
    Crashes     \* whether the core and the node agents may restart

RequestKind == {"create", "reprovision", "update",
                "suspend", "unsuspend", "archive", "purge"}

ASSUME RemoteAssumption == Remote \subseteq School
ASSUME LimitAssumption == Limit \in Nat
ASSUME OrgKeyAssumption == OrgKey \notin School
ASSUME MenuAssumption == Menu \subseteq RequestKind
ASSUME CrashesAssumption == Crashes \in BOOLEAN

VARIABLES
    status,     \* school -> schools.status, "absent" before the row, "gone" after
    job         \* slot -> the request or background task it carries

vars == <<status, job, queue, stackVars>>

Status == {"absent", "provisioning", "active", "updating", "suspended",
           "failed", "archived", "gone"}
NoRow == {"absent", "gone"}
BLOCKING == {"active", "provisioning", "suspended"}
JobKind == RequestKind \cup {"none", "provision"}
Pc == {"idle", "admitted", "org", "mark", "marked", "refresh", "queued", "await"}
LockKey == School \cup {OrgKey}

Idle == [kind |-> "none", pc |-> "idle", school |-> NoSchool, view |-> "absent"]

TypeOK ==
    /\ status \in [School -> Status]
    /\ job \in [Job -> [kind : JobKind, pc : Pc,
                        school : School \cup {NoSchool}, view : Status]]
    /\ queue \in [LockKey -> Seq(Job)]
    /\ StackTypeOK

Init ==
    /\ status = [s \in School |-> "absent"]
    /\ job = [j \in Job |-> Idle]
    /\ queue = [k \in LockKey |-> <<>>]
    /\ StackInit

-----------------------------------------------------------------------------
\* Commit of a status over the copy the session holds: an unchanged attribute
\* is not written, and a row that is gone raises.
Save(s, view, new) ==
    IF status[s] = "gone" \/ view = new THEN status[s] ELSE new

SetStatus(s, new) == status' = [status EXCEPT ![s] = new]

\* Schools that count against the plan.
Used == Cardinality({s \in School : status[s] \notin NoRow \cup {"archived"}})

Free(j) == job[j] = Idle /\ chain[j] = NoChain

BeIdle(j) == job' = [job EXCEPT ![j] = Idle]

Queued(j) == job' = [job EXCEPT ![j].pc = "queued"]

\* _schedule_lifecycle: the request becomes a background task, which asks for
\* the school's lock and keeps nothing of the request's session.
BackgroundJob(kind, s) ==
    [kind |-> kind, pc |-> "queued", school |-> s, view |-> "absent"]

-----------------------------------------------------------------------------
(* Requests *)

CreateRequest(j, s) ==
    /\ "create" \in Menu
    /\ Free(j)
    /\ status[s] # "gone"
    /\ job' = [job EXCEPT ![j] = [kind |-> "create", pc |-> "org",
                                  school |-> s, view |-> "absent"]]
    /\ Acquire(OrgKey, j)
    /\ UNCHANGED <<status, stackVars>>

Admissible(kind, st) ==
    CASE kind = "reprovision" -> st # "suspended"
      [] kind = "update" -> st = "active"
      [] kind \in {"suspend", "unsuspend"} -> st \in {"active", "suspended"}
      [] OTHER -> TRUE

\* The other requests load the row and check its status before any lock.
Admit(j, s, kind) ==
    /\ kind \in Menu \ {"create"}
    /\ Free(j)
    /\ status[s] \notin NoRow
    /\ Admissible(kind, status[s])
    /\ job' = [job EXCEPT ![j] = [kind |-> kind, pc |-> "admitted",
                                  school |-> s, view |-> status[s]]]
    /\ UNCHANGED <<status, queue, stackVars>>

EnqueueOrg(j) ==
    /\ job[j].pc = "admitted"
    /\ job[j].kind = "reprovision"
    /\ job' = [job EXCEPT ![j].pc = "org"]
    /\ Acquire(OrgKey, j)
    /\ UNCHANGED <<status, stackVars>>

EnqueueSchool(j) ==
    /\ job[j].pc = "admitted"
    /\ job[j].kind \in {"suspend", "unsuspend", "archive", "purge"}
    /\ Queued(j)
    /\ Acquire(job[j].school, j)
    /\ UNCHANGED <<status, stackVars>>

\* update_school_endpoint marks the row under no lock.
UpdateMark(j) ==
    LET s == job[j].school IN
    /\ job[j].pc = "admitted"
    /\ job[j].kind = "update"
    /\ SetStatus(s, Save(s, job[j].view, "updating"))
    /\ job' = [job EXCEPT ![j] = IF status[s] = "gone" THEN Idle
                                 ELSE [@ EXCEPT !.pc = "refresh"]]
    /\ UNCHANGED <<queue, stackVars>>

\* It refreshes its copy, which raises for a row that is gone, and schedules.
ScheduleUpdate(j) ==
    LET s == job[j].school IN
    /\ job[j].pc = "refresh"
    /\ IF status[s] = "gone"
       THEN BeIdle(j) /\ UNCHANGED queue
       ELSE /\ job' = [job EXCEPT ![j] = BackgroundJob("update", s)]
            /\ Acquire(s, j)
    /\ UNCHANGED <<status, stackVars>>

-----------------------------------------------------------------------------
(* Under the organization's lock *)

\* _enforce_school_limit refuses when the plan is used up.
OverLimit == Used >= Limit

OrgRefuse(j) ==
    /\ Release(OrgKey)
    /\ BeIdle(j)
    /\ UNCHANGED <<status, stackVars>>

CreateRefused(st) ==
    \/ st \in BLOCKING \cup {"gone"}
    \/ st \in {"absent", "archived"} /\ OverLimit

CreateCheck(j) ==
    LET s == job[j].school IN
    /\ job[j].kind = "create"
    /\ job[j].pc = "org"
    /\ Holds(OrgKey, j)
    /\ IF CreateRefused(status[s])
       THEN OrgRefuse(j)
       ELSE /\ job' = [job EXCEPT ![j] = [@ EXCEPT !.pc = "mark", !.view = status[s]]]
            /\ UNCHANGED <<status, queue, stackVars>>

\* The status that decides whether the limit applies is the one loaded before
\* the lock.
ReprovisionCheck(j) ==
    /\ job[j].kind = "reprovision"
    /\ job[j].pc = "org"
    /\ Holds(OrgKey, j)
    /\ IF job[j].view = "archived" /\ OverLimit
       THEN OrgRefuse(j)
       ELSE /\ job' = [job EXCEPT ![j].pc = "mark"]
            /\ UNCHANGED <<status, queue, stackVars>>

\* Both endpoints commit "provisioning" under the lock.
MarkProvisioning(j) ==
    LET s == job[j].school IN
    /\ job[j].pc = "mark"
    /\ Holds(OrgKey, j)
    /\ SetStatus(s, Save(s, job[j].view, "provisioning"))
    /\ IF status[s] = "gone"
       THEN Release(OrgKey) /\ BeIdle(j)
       ELSE job' = [job EXCEPT ![j].pc = "marked"] /\ UNCHANGED queue
    /\ UNCHANGED stackVars

\* They refresh their copy, which raises for a row that is gone, leave the lock
\* and schedule.
ScheduleProvision(j) ==
    LET s == job[j].school IN
    /\ job[j].pc = "marked"
    /\ Holds(OrgKey, j)
    /\ IF status[s] = "gone"
       THEN Release(OrgKey) /\ BeIdle(j)
       ELSE /\ job' = [job EXCEPT ![j] = BackgroundJob("provision", s)]
            /\ queue' = [queue EXCEPT ![OrgKey] = Tail(@), ![s] = Append(@, j)]
    /\ UNCHANGED <<status, stackVars>>

-----------------------------------------------------------------------------
(* Under the school's lock *)

\* MUTANT of OwnsSchool: a background task that does not take the lock.
OwnsSchoolUnlocked(j) == job[j].pc = "queued"

OwnsSchool(j) ==
    /\ job[j].pc = "queued"
    /\ Holds(job[j].school, j)

GoAwait(j, view) ==
    job' = [job EXCEPT ![j] = [@ EXCEPT !.pc = "await", !.view = view]]

\* _run_lifecycle loads the row in a session of its own.
BackgroundRowGone(j) ==
    /\ OwnsSchool(j)
    /\ job[j].kind \in {"provision", "update"}
    /\ status[job[j].school] = "gone"
    /\ Release(job[j].school)
    /\ BeIdle(j)
    /\ UNCHANGED <<status, stackVars>>

BeginProvision(j) ==
    LET s == job[j].school IN
    /\ OwnsSchool(j)
    /\ job[j].kind = "provision"
    /\ status[s] # "gone"
    /\ SetStatus(s, "provisioning")
    /\ GoAwait(j, "provisioning")
    /\ StartChain(j, "bringup", s)
    /\ UNCHANGED <<queue, cont, vols, data, dumps>>

\* MUTANT of UpdateEndsEarly: "nothing to update" returns at once and leaves the
\* status the endpoint had set.
UpdateEndsSilently(j) ==
    /\ OwnsSchool(j)
    /\ job[j].kind = "update"
    /\ status[job[j].school] # "gone"
    /\ Release(job[j].school)
    /\ BeIdle(j)
    /\ UNCHANGED <<status, stackVars>>

\* The school already runs the current release: whatever its status, it is
\* "active" again.  Or, for a local school, the scanner relay fails its check
\* before the app is touched, and the status from before the update returns.
UpdateEndsEarly(j) ==
    LET s == job[j].school IN
    /\ OwnsSchool(j)
    /\ job[j].kind = "update"
    /\ status[s] # "gone"
    /\ \/ SetStatus(s, "active")
       \/ /\ s \notin Remote
          /\ SetStatus(s, IF status[s] = "updating" THEN "active" ELSE status[s])
    /\ Release(s)
    /\ BeIdle(j)
    /\ UNCHANGED stackVars

BeginUpdate(j) ==
    LET s == job[j].school IN
    /\ OwnsSchool(j)
    /\ job[j].kind = "update"
    /\ status[s] # "gone"
    /\ SetStatus(s, "updating")
    /\ GoAwait(j, "updating")
    /\ StartChain(j, "swap", s)
    /\ UNCHANGED <<queue, cont, vols, data, dumps>>

\* suspend, unsuspend and delete go on with the status they loaded earlier.
BeginRequested(j) ==
    /\ OwnsSchool(j)
    /\ job[j].kind \in {"suspend", "unsuspend", "archive", "purge"}
    /\ GoAwait(j, job[j].view)
    /\ StartChain(j, job[j].kind, job[j].school)
    /\ UNCHANGED <<status, queue, cont, vols, data, dumps>>

\* MUTANT of Outcome: delete_school does not look whether the purge succeeded.
OutcomeUnchecked(kind, result, remote) ==
    CASE kind = "provision" -> IF result = "ok" THEN "active" ELSE "failed"
      [] kind = "update" -> IF remote \/ result = "ok" THEN "active" ELSE "failed"
      [] kind = "suspend" -> "suspended"
      [] kind = "unsuspend" -> IF remote \/ result = "ok" THEN "active" ELSE "same"
      [] kind = "archive" -> "archived"
      [] kind = "purge" -> "gone"
      [] OTHER -> "same"

\* The status a job commits when the chain it waits for has ended ("gone": the
\* row is deleted; "same": nothing is written).  A node answers 200 whether or
\* not it could do its part, and only provision_school_orchestrated looks.
Outcome(kind, result, remote) ==
    CASE kind = "provision" -> IF result = "ok" THEN "active" ELSE "failed"
      [] kind = "update" -> IF remote \/ result = "ok" THEN "active" ELSE "failed"
      [] kind = "suspend" -> "suspended"
      [] kind = "unsuspend" -> IF remote \/ result = "ok" THEN "active" ELSE "same"
      [] kind = "archive" -> "archived"
      [] kind = "purge" -> IF remote \/ result = "ok" THEN "gone"
                           ELSE IF result = "refused" THEN "archived" ELSE "same"
      [] OTHER -> "same"

\* MUTANT of Commit: the result of the chain is written as the status.
CommitResult(s, view, outcome) ==
    SetStatus(s, IF outcome = "gone" THEN "gone" ELSE Save(s, view, outcome))

Commit(s, view, outcome) ==
    SetStatus(s, CASE outcome = "same" -> status[s]
                   [] outcome = "gone" -> "gone"
                   [] OTHER -> Save(s, view, outcome))

\* MUTANT of LeaveSchool: a path out of the handler that keeps the lock.
LeaveSchoolLocked(j) == BeIdle(j) /\ UNCHANGED queue

LeaveSchool(j) ==
    /\ Release(job[j].school)
    /\ BeIdle(j)

\* A local purge has removed the stack and must write "archived" first.
Unmarked(j) ==
    /\ job[j].kind = "purge"
    /\ job[j].school \notin Remote
    /\ chain[j].result = "ok"
    /\ job[j].view # "archived"

\* deprovision_school commits "archived"; delete_school deletes the row later.
MarkPurged(j) ==
    LET s == job[j].school IN
    /\ job[j].pc = "await"
    /\ chain[j].stage = "done"
    /\ Unmarked(j)
    /\ SetStatus(s, Save(s, job[j].view, "archived"))
    /\ job' = [job EXCEPT ![j].view = "archived"]
    /\ UNCHANGED <<queue, stackVars>>

Finish(j) ==
    LET s == job[j].school IN
    /\ job[j].pc = "await"
    /\ chain[j].stage = "done"
    /\ ~Unmarked(j)
    /\ Commit(s, job[j].view, Outcome(job[j].kind, chain[j].result, s \in Remote))
    /\ LeaveSchool(j)
    /\ chain' = [chain EXCEPT ![j] = NoChain]
    /\ UNCHANGED <<cont, vols, data, dumps>>

-----------------------------------------------------------------------------
(* A node's answers: RemoteNodeClient raises RemoteNodeError for an HTTP      *)
(* error and lets a timeout or a broken connection through as it is.          *)

RemoteOutcome(kind) ==
    CASE kind = "provision" -> "failed"
      [] kind = "update" -> "active"
      [] OTHER -> "same"

NodeRefuses(j) ==
    LET s == job[j].school IN
    /\ job[j].pc = "await"
    /\ s \in Remote
    /\ chain[j].stage = "begin"
    /\ Commit(s, job[j].view, RemoteOutcome(job[j].kind))
    /\ LeaveSchool(j)
    /\ chain' = [chain EXCEPT ![j] = NoChain]
    /\ UNCHANGED <<cont, vols, data, dumps>>

\* The caller gives up: no handler writes the row.  The node never got the
\* request, or goes on with the chain while the school's lock is free again.
AnswerLost(j) ==
    /\ job[j].pc = "await"
    /\ job[j].school \in Remote
    /\ LeaveSchool(j)
    /\ \/ /\ chain[j].stage \in {"begin", "done"}
          /\ chain' = [chain EXCEPT ![j] = NoChain]
       \/ chain[j].stage # "done" /\ UNCHANGED chain
    /\ UNCHANGED <<status, cont, vols, data, dumps>>

\* A chain nobody waits for ends, or its agent restarts in the middle of it.
DetachedChainEnds(j) ==
    /\ job[j] = Idle
    /\ chain[j] # NoChain
    /\ chain[j].stage = "done" \/ Crashes
    /\ chain' = [chain EXCEPT ![j] = NoChain]
    /\ UNCHANGED <<status, job, queue, cont, vols, data, dumps>>

\* The core restarts: its tasks, locks and local chains are lost, the tables
\* and the containers stay, and no start-up step resumes a lifecycle.
CoreRestart ==
    /\ Crashes
    /\ job' = [j \in Job |-> Idle]
    /\ queue' = [k \in LockKey |-> <<>>]
    /\ chain' = [j \in Job |->
                    IF chain[j].school \in Remote THEN chain[j] ELSE NoChain]
    /\ UNCHANGED <<status, cont, vols, data, dumps>>

-----------------------------------------------------------------------------
\* The secrets of a local school, which a dump needs, are deleted with its row;
\* a node keeps its own copy of the row for good.
SecretExists(s) == s \in Remote \/ status[s] # "gone"

StackStep(j) ==
    /\ ChainStep(j)
    /\ chain'[j].stage = "dump" => SecretExists(chain[j].school)
    /\ UNCHANGED <<status, job, queue>>

\* The steps a job takes by itself once it was sent.
JobStep(j) ==
    \/ EnqueueOrg(j)
    \/ EnqueueSchool(j)
    \/ UpdateMark(j)
    \/ ScheduleUpdate(j)
    \/ CreateCheck(j)
    \/ ReprovisionCheck(j)
    \/ MarkProvisioning(j)
    \/ ScheduleProvision(j)
    \/ BackgroundRowGone(j)
    \/ BeginProvision(j)
    \/ UpdateEndsEarly(j)
    \/ BeginUpdate(j)
    \/ BeginRequested(j)
    \/ StackStep(j)
    \/ MarkPurged(j)
    \/ Finish(j)
    \/ NodeRefuses(j)
    \/ AnswerLost(j)
    \/ DetachedChainEnds(j)

Request(j) ==
    \E s \in School :
        \/ CreateRequest(j, s)
        \/ \E kind \in RequestKind : Admit(j, s, kind)

Next ==
    \/ \E j \in Job : Request(j) \/ JobStep(j)
    \/ CoreRestart

Spec == Init /\ [][Next]_vars

\* The event loop runs every task that can run, and a Docker call returns.
FairSpec == Spec /\ \A j \in Job : WF_vars(JobStep(j))

-----------------------------------------------------------------------------
(* Properties *)

Local == School \ Remote

\* The keyed lock of core/locks.py: two chains of Docker calls never work
\* on the stack of one local school at the same time.
OneChainPerStack ==
    \A i, j \in Job :
        /\ i # j
        /\ chain[i].stage # "none"
        /\ chain[j].stage # "none"
        /\ chain[i].school \in Local
        => chain[i].school # chain[j].school

\* The job is inside "async with" of this lock, as its owner or as a waiter.
InBlock(j, key) ==
    IF key = OrgKey THEN job[j].pc \in {"org", "mark", "marked"}
                    ELSE job[j].pc \in {"queued", "await"} /\ job[j].school = key

\* A lock is held and waited for by exactly the jobs inside its block, each
\* once: no path out of a handler keeps it, no waiter is lost, and since a job
\* is in one block at a time no owner waits for another lock, so requests never
\* wait in a circle (core/locks.py, the blocks of schools.py).
LocksMatchJobs ==
    \A key \in LockKey :
        /\ \A j \in Job :
               (\E n \in DOMAIN queue[key] : queue[key][n] = j) <=> InBlock(j, key)
        /\ \A m, n \in DOMAIN queue[key] : queue[key][m] = queue[key][n] => m = n

\* A local school never loses what its users stored: each volume that has held
\* data either exists or has a dump of its last content, however bring-ups,
\* purges, partial cleanups and restarts of the core follow each other.
NoUnbackedLoss ==
    \A s \in Local : data[s] \subseteq vols[s] \cup dumps[s]

\* delete_school deletes the row (and with it the key to the dumps' database)
\* only when everything the school ever stored was dumped.
RowOutlivesData ==
    [][\A s \in Local :
          status[s] # "gone" /\ status'[s] = "gone" => data[s] \subseteq dumps[s]]_vars

InTransit(s) == status[s] \in {"provisioning", "updating"}

\* A local school the panel shows as provisioning or updating leaves that status
\* by itself, whatever requests keep arriving; the panel polls for it
\* (schools.py:114-121).
LocalSettles == \A s \in Local : InTransit(s) ~> ~InTransit(s)

\* Every request and background task ends: no path leaves a lock held or a
\* waiter behind it, also when a node never answers.
JobsEnd == \A j \in Job : job[j] # Idle ~> job[j] = Idle

\* The organization never has more schools than it paid for: the limit is
\* checked by every operation that adds to the active ones (schools.py:185-190)
\* under a lock that makes check and insert one step (locks.py:40-42).
WithinPlan == Used <= Limit

=============================================================================
