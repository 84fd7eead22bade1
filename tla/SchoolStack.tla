---------------------------- MODULE SchoolStack -----------------------------
(***************************************************************************)
(* The Docker stack of each school and the chains of Docker calls that      *)
(* work on it (app/services/school_provisioner.py, the parts between two    *)
(* writes of the school's row).  A chain belongs to the job that started    *)
(* it; it runs in the core process for a school hosted there, in the node   *)
(* agent for a school assigned to a node.  The steps of a chain are the     *)
(* points between which another actor can run or a process can die.         *)
(*                                                                         *)
(* "data" is history: the volumes a stack has ever served users from.       *)
(***************************************************************************)
EXTENDS FiniteSets

CONSTANTS
    Job,        \* slots for requests and background tasks in flight
    School,     \* rows of the schools table, each with its own stack
    NoSchool    \* the school of a slot that does nothing

ASSUME NoSchoolAssumption == NoSchool \notin School

VARIABLES
    cont,       \* school -> what the stack's containers do
    vols,       \* school -> named volumes that exist
    data,       \* school -> volumes that have held what users stored
    dumps,      \* school -> volumes whose present content is in a dump file
    chain       \* job -> the chain of Docker calls it runs

stackVars == <<cont, vols, data, dumps, chain>>

Volume == {"db", "app"}
Containers == {"none", "partial", "running", "stopped"}
ChainOp == {"bringup", "swap", "suspend", "unsuspend", "archive", "purge"}
Stage == {"none", "begin", "up", "dump", "wipe", "done"}
Result == {"none", "ok", "failed", "refused", "raised"}

NoChain == [op |-> "none", school |-> NoSchool, stage |-> "none",
            made |-> {}, result |-> "none"]

StackTypeOK ==
    /\ cont \in [School -> Containers]
    /\ vols \in [School -> SUBSET Volume]
    /\ data \in [School -> SUBSET Volume]
    /\ dumps \in [School -> SUBSET Volume]
    /\ chain \in [Job -> [op : ChainOp \cup {"none"},
                          school : School \cup {NoSchool},
                          stage : Stage, made : SUBSET Volume,
                          result : Result]]

StackInit ==
    /\ cont = [s \in School |-> "none"]
    /\ vols = [s \in School |-> {}]
    /\ data = [s \in School |-> {}]
    /\ dumps = [s \in School |-> {}]
    /\ chain = [j \in Job |-> NoChain]

StartChain(j, op, s) ==
    chain' = [chain EXCEPT ![j] = [op |-> op, school |-> s, stage |-> "begin",
                                   made |-> {}, result |-> "none"]]

At(j, op, stage) ==
    /\ chain[j].op = op
    /\ chain[j].stage = stage
    /\ chain[j].school \in School

Advance(j, stage, made) ==
    chain' = [chain EXCEPT ![j] = [@ EXCEPT !.stage = stage, !.made = made]]

End(j, result) ==
    chain' = [chain EXCEPT ![j] = [@ EXCEPT !.stage = "done", !.made = {},
                                            !.result = result]]

\* Containers that run again may change the volumes they mount, so the dumps
\* of the volumes that exist no longer hold their content.
MakeStale(s) == dumps' = [dumps EXCEPT ![s] = @ \ vols[s]]

-----------------------------------------------------------------------------
(* provision_school: _bring_up and its _safe_cleanup *)

\* Containers of an earlier attempt are removed; the volumes that do not exist
\* are created and remembered.  The database volume comes first, and the chain
\* may fail before it creates the second.
BringUpVolumes(j) ==
    LET s == chain[j].school IN
    /\ At(j, "bringup", "begin")
    /\ \E made \in SUBSET (Volume \ vols[s]) :
          /\ "app" \in made => "db" \in vols[s] \cup made
          /\ vols' = [vols EXCEPT ![s] = @ \cup made]
          /\ Advance(j, "up", made)
    /\ cont' = [cont EXCEPT ![s] = "partial"]
    /\ UNCHANGED <<data, dumps>>

\* Both containers healthy, migrations, seed, bootstrap admin and route done.
BringUpDone(j) ==
    LET s == chain[j].school IN
    /\ At(j, "bringup", "up")
    /\ vols[s] = Volume
    /\ cont[s] \in {"partial", "running"}
    /\ cont' = [cont EXCEPT ![s] = "running"]
    /\ data' = [data EXCEPT ![s] = Volume]
    /\ MakeStale(s)
    /\ End(j, "ok")
    /\ UNCHANGED vols

\* MUTANT of CleanupVolumes: the cleanup of _bring_up without its list of created
\* volumes (remove_stack).
CleanupWholeStack(j) == Volume

\* What a failed bring-up may delete: the volumes this attempt created.
CleanupVolumes(j) == chain[j].made

\* The cleanup stops at its first error, which it only logs.
BringUpFails(j) ==
    LET s == chain[j].school IN
    /\ \/ At(j, "bringup", "begin")
       \/ At(j, "bringup", "up")
    /\ \/ UNCHANGED <<cont, vols>>
       \/ /\ cont' = [cont EXCEPT ![s] = "none"]
          /\ \E removed \in SUBSET CleanupVolumes(j) :
                vols' = [vols EXCEPT ![s] = @ \ removed]
    /\ End(j, "failed")
    /\ UNCHANGED <<data, dumps>>

-----------------------------------------------------------------------------
(* update_school: _swap_app to the new image, else back to the old one *)

\* The new image, or after its failure the old one, is healthy and migrated,
\* which takes the stack's running database.
SwapDone(j) ==
    LET s == chain[j].school IN
    /\ At(j, "swap", "begin")
    /\ cont[s] = "running"
    /\ MakeStale(s)
    /\ End(j, "ok")
    /\ UNCHANGED <<cont, vols, data>>

SwapFails(j) ==
    LET s == chain[j].school IN
    /\ At(j, "swap", "begin")
    /\ cont' = [cont EXCEPT ![s] = "partial"]
    /\ End(j, "failed")
    /\ UNCHANGED <<vols, data, dumps>>

-----------------------------------------------------------------------------
(* suspend_school, unsuspend_school, _archive_only *)

Stopped(c) == IF c = "none" THEN "none" ELSE "stopped"
Started(c) == IF c = "stopped" THEN "running" ELSE c

\* An error of stop_containers is logged and the suspension goes on.
StopStack(j) ==
    LET s == chain[j].school IN
    /\ At(j, "suspend", "begin")
    /\ cont' \in {cont, [cont EXCEPT ![s] = Stopped(@)]}
    /\ End(j, "ok")
    /\ UNCHANGED <<vols, data, dumps>>

\* start_containers starts what there is, be it nothing; a container that does
\* not become healthy is only logged; an error of the start or of the route
\* ends the chain.
StartStack(j) ==
    LET s == chain[j].school IN
    /\ At(j, "unsuspend", "begin")
    /\ \/ cont' = [cont EXCEPT ![s] = Started(@)] /\ End(j, "ok")
       \/ cont' = [cont EXCEPT ![s] = Started(@)] /\ End(j, "failed")
       \/ cont' = cont /\ End(j, "failed")
    /\ MakeStale(s)
    /\ UNCHANGED <<vols, data>>

\* Containers removed (an error is logged), volumes kept.
RemoveContainers(s) == cont' \in {cont, [cont EXCEPT ![s] = "none"]}

ArchiveStack(j) ==
    /\ At(j, "archive", "begin")
    /\ RemoveContainers(chain[j].school)
    /\ End(j, "ok")
    /\ UNCHANGED <<vols, data, dumps>>

-----------------------------------------------------------------------------
(* deprovision_school(purge=True) *)

\* _ensure_school_db_up: a database container is started, or recreated on the
\* volume an archived school kept.
PurgeEnsureDb(j) ==
    LET s == chain[j].school IN
    /\ At(j, "purge", "begin")
    /\ "db" \in vols[s]
    /\ cont' = [cont EXCEPT ![s] = IF @ = "none" THEN "partial" ELSE Started(@)]
    /\ MakeStale(s)
    /\ Advance(j, "dump", {})
    /\ UNCHANGED <<vols, data>>

\* pg_dump and, when there is an attachments volume, its tar archive.
PurgeDump(j) ==
    LET s == chain[j].school IN
    /\ At(j, "purge", "dump")
    /\ "db" \in vols[s]
    /\ dumps' = [dumps EXCEPT ![s] = @ \cup vols[s]]
    /\ Advance(j, "wipe", {})
    /\ UNCHANGED <<cont, vols, data>>

\* No database to dump, or one of the two dumps fails: the school is archived
\* with its volumes and the purge is refused.
PurgeRefused(j) ==
    LET s == chain[j].school IN
    /\ \/ At(j, "purge", "begin") /\ MakeStale(s)
       \/ /\ At(j, "purge", "dump")
          /\ dumps' \in {dumps, [dumps EXCEPT ![s] = @ \cup ({"db"} \cap vols[s])]}
    /\ RemoveContainers(s)
    /\ End(j, "refused")
    /\ UNCHANGED <<vols, data>>

\* An error of Docker when the containers are looked up or started reaches
\* delete_school as it is: nothing was dumped, removed or archived.
PurgeRaises(j) ==
    LET s == chain[j].school IN
    /\ At(j, "purge", "begin")
    /\ cont' \in {cont, [cont EXCEPT ![s] = Started(@)]}
    /\ MakeStale(s)
    /\ End(j, "raised")
    /\ UNCHANGED <<vols, data>>

\* _safe_cleanup without a list removes every labelled volume; it stops at its
\* first error, which it only logs.
PurgeWipe(j) ==
    LET s == chain[j].school IN
    /\ At(j, "purge", "wipe")
    /\ \/ UNCHANGED <<cont, vols>>
       \/ /\ cont' = [cont EXCEPT ![s] = "none"]
          /\ \E removed \in SUBSET vols[s] :
                vols' = [vols EXCEPT ![s] = @ \ removed]
    /\ End(j, "ok")
    /\ UNCHANGED <<data, dumps>>

-----------------------------------------------------------------------------
ChainStep(j) ==
    \/ BringUpVolumes(j)
    \/ BringUpDone(j)
    \/ BringUpFails(j)
    \/ SwapDone(j)
    \/ SwapFails(j)
    \/ StopStack(j)
    \/ StartStack(j)
    \/ ArchiveStack(j)
    \/ PurgeEnsureDb(j)
    \/ PurgeDump(j)
    \/ PurgeRefused(j)
    \/ PurgeRaises(j)
    \/ PurgeWipe(j)

=============================================================================
