----------------------- MODULE SchoolLifecycleProofs ------------------------
(***************************************************************************)
(* Proofs about SchoolLifecycle, for any number of slots, schools and       *)
(* requests, any placement of the schools and any restarts.                 *)
(***************************************************************************)
EXTENDS SchoolLifecycle, SequenceTheorems, TLAPS

\* The chain a job of each kind starts.
OpOf(kind) == CASE kind = "provision" -> "bringup"
                [] kind = "update" -> "swap"
                [] OTHER -> kind

\* A job that works has a school.
JobInv == \A j \in Job : job[j].pc # "idle" => job[j].school \in School

\* A job that waits for its chain owns the school's lock.
LockInv == \A j \in Job : job[j].pc = "await" => Holds(job[j].school, j)

\* The chain it waits for is its own.
AwaitInv == \A j \in Job :
    job[j].pc = "await" => /\ chain[j].stage # "none"
                           /\ chain[j].school = job[j].school
                           /\ chain[j].op = OpOf(job[j].kind)

\* Only a node goes on with a chain nobody waits for.
ChainInv == \A j \in Job :
    chain[j].stage # "none" /\ chain[j].school \in Local => job[j].pc = "await"

\* What a chain may delete: volumes without data that is not in a dump.
Expendable(j) ==
    LET s == chain[j].school IN
    /\ chain[j].op = "bringup" /\ chain[j].stage = "up"
          => chain[j].made \cap data[s] \subseteq dumps[s]
    /\ chain[j].op = "purge" /\ chain[j].stage = "wipe" => data[s] \subseteq dumps[s]
    /\ chain[j].op = "purge" /\ chain[j].stage = "done" /\ chain[j].result = "ok"
          => data[s] \subseteq dumps[s]

DumpInv == \A j \in Job : chain[j].school \in Local => Expendable(j)

\* Only a bring-up that created volumes remembers any.
MadeInv == \A j \in Job : chain[j].stage = "begin" => chain[j].made = {}

\* The inductive invariant: TypeOK alone is not inductive, because the lock a
\* job releases must not be empty, and NoUnbackedLoss rests on the lock.
IInv ==
    /\ TypeOK
    /\ JobInv
    /\ LockInv
    /\ AwaitInv
    /\ ChainInv
    /\ DumpInv
    /\ MadeInv
    /\ NoUnbackedLoss

-----------------------------------------------------------------------------
(* Lemmas about the locks *)

\* Asking for a lock keeps the types and every owner: who waits goes to the end.
LEMMA AcquireKeeps ==
    ASSUME TypeOK, NEW k \in LockKey, NEW j \in Job, Acquire(k, j)
    PROVE  /\ queue' \in [LockKey -> Seq(Job)]
           /\ \A key \in LockKey, i \in Job : Holds(key, i) => Holds(key, i)'
<1>1. \A q \in Seq(Job) : /\ Append(q, j) \in Seq(Job)
                          /\ q # <<>> => Append(q, j) # <<>> /\ Head(Append(q, j)) = Head(q)
  <2> SUFFICES ASSUME NEW q \in Seq(Job)
               PROVE  /\ Append(q, j) \in Seq(Job)
                      /\ q # <<>> => Append(q, j) # <<>> /\ Head(Append(q, j)) = Head(q)
    OBVIOUS
  <2>1. Append(q, j) \in Seq(Job) /\ Append(q, j) # <<>>
    BY AppendProperties
  <2>2. q # <<>> => Head(Append(q, j)) = Head(q)
    BY HeadTailAppend
  <2> QED BY <2>1, <2>2
<1>2. queue \in [LockKey -> Seq(Job)]
  BY DEF TypeOK
<1>3. queue' = [queue EXCEPT ![k] = Append(queue[k], j)]
  BY DEF Acquire
<1> QED BY <1>1, <1>2, <1>3 DEF Holds

\* Only the owner of a lock loses it by its release.
LEMMA ReleaseKeeps ==
    ASSUME TypeOK, NEW k \in LockKey, NEW j \in Job, Holds(k, j), Release(k)
    PROVE  /\ queue' \in [LockKey -> Seq(Job)]
           /\ \A key \in LockKey, i \in Job \ {j} : Holds(key, i) => Holds(key, i)'
<1>1. queue[k] \in Seq(Job) /\ queue[k] # <<>> /\ Head(queue[k]) = j
  BY DEF TypeOK, Holds
<1>2. Tail(queue[k]) \in Seq(Job)
  BY <1>1, HeadTailProperties
<1>3. queue' = [queue EXCEPT ![k] = Tail(queue[k])]
  BY DEF Release
<1> QED BY <1>1, <1>2, <1>3 DEF TypeOK, Holds

\* Two chains on the stack of one local school belong to one job.
LEMMA LockedStack ==
    ASSUME IInv, NEW i \in Job, NEW j \in Job,
           chain[i].stage # "none", chain[j].stage # "none",
           chain[i].school \in Local, chain[i].school = chain[j].school
    PROVE  i = j
<1>1. job[i].pc = "await" /\ job[j].pc = "await"
  BY DEF IInv, ChainInv
<1>2. chain[i].school = job[i].school /\ chain[j].school = job[j].school
  BY <1>1 DEF IInv, AwaitInv
<1>3. Holds(job[i].school, i) /\ Holds(job[j].school, j)
  BY <1>1 DEF IInv, LockInv
<1> QED BY <1>2, <1>3 DEF Holds

-----------------------------------------------------------------------------
(* The steps of a chain *)

ChainRecord == [op : ChainOp \cup {"none"}, school : School \cup {NoSchool},
                stage : Stage, made : SUBSET Volume, result : Result]

\* The chain of job j alone changes, and keeps its operation and school.
OwnChainMoves(j) ==
    /\ chain' \in [Job -> ChainRecord]
    /\ chain'[j].school = chain[j].school
    /\ chain'[j].op = chain[j].op
    /\ chain'[j].stage # "none"
    /\ \A i \in Job \ {j} : chain'[i] = chain[i]

\* What a chain's record is after one of its steps.
LEMMA AdvanceMoves ==
    ASSUME TypeOK, NEW j \in Job, NEW stage \in Stage \ {"none"},
           NEW made \in SUBSET Volume, Advance(j, stage, made)
    PROVE  /\ OwnChainMoves(j)
           /\ chain'[j].stage = stage
           /\ chain'[j].made = made
<1>1. chain \in [Job -> ChainRecord]
  BY DEF TypeOK, StackTypeOK, ChainRecord
<1>2. chain' = [chain EXCEPT ![j] = [chain[j] EXCEPT !.stage = stage, !.made = made]]
  BY <1>1 DEF Advance, ChainRecord
<1>3. [chain[j] EXCEPT !.stage = stage, !.made = made] \in ChainRecord
  BY <1>1 DEF ChainRecord
<1> QED BY <1>1, <1>2, <1>3 DEF OwnChainMoves, ChainRecord

\* What a chain's record is after its last step.
LEMMA EndMoves ==
    ASSUME TypeOK, NEW j \in Job, NEW result \in Result, End(j, result)
    PROVE  /\ OwnChainMoves(j)
           /\ chain'[j].stage = "done"
           /\ chain'[j].result = result
<1> DEFINE new == [chain[j] EXCEPT !.stage = "done", !.made = {}, !.result = result]
<1>1. chain \in [Job -> ChainRecord]
  BY DEF TypeOK, StackTypeOK, ChainRecord
<1>2. chain' = [chain EXCEPT ![j] = new]
  BY <1>1 DEF End, ChainRecord
<1>3. new \in ChainRecord
  BY <1>1 DEF ChainRecord, Stage
<1> QED BY <1>1, <1>2, <1>3 DEF OwnChainMoves, ChainRecord

\* The containers, volumes and dumps of other schools stay as they are.
OwnStackMoves(j) ==
    /\ cont' \in [School -> Containers]
    /\ vols' \in [School -> SUBSET Volume]
    /\ data' \in [School -> SUBSET Volume]
    /\ dumps' \in [School -> SUBSET Volume]
    /\ \A s \in School \ {chain[j].school} :
          vols'[s] = vols[s] /\ data'[s] = data[s] /\ dumps'[s] = dumps[s]

\* A step of a chain touches its own record and the stack of its own school.
LEMMA ChainStepFrame ==
    ASSUME TypeOK, NEW j \in Job, ChainStep(j)
    PROVE  /\ chain[j].school \in School
           /\ chain[j].stage # "none"
           /\ OwnChainMoves(j)
           /\ OwnStackMoves(j)
<1> USE DEF At
<1>0. /\ cont \in [School -> Containers] /\ vols \in [School -> SUBSET Volume]
      /\ data \in [School -> SUBSET Volume] /\ dumps \in [School -> SUBSET Volume]
  BY DEF TypeOK, StackTypeOK
<1>s. /\ {"begin", "up", "dump", "wipe", "done"} \subseteq Stage \ {"none"}
      /\ {"ok", "failed", "refused", "raised"} \subseteq Result
      /\ {} \in SUBSET Volume
  BY DEF Stage, Result
<1>1. CASE BringUpVolumes(j)
  <2>1. PICK made \in SUBSET (Volume \ vols[chain[j].school]) :
          /\ vols' = [vols EXCEPT ![chain[j].school] = @ \cup made]
          /\ Advance(j, "up", made)
    BY <1>1 DEF BringUpVolumes
  <2>2. OwnChainMoves(j)
    BY <2>1, <1>s, AdvanceMoves
  <2>3. OwnStackMoves(j)
    BY <1>0, <1>1, <2>1 DEF BringUpVolumes, OwnStackMoves, Containers
  <2> QED BY <1>1, <2>2, <2>3 DEF BringUpVolumes
<1>2. CASE BringUpDone(j)
  <2>1. OwnChainMoves(j)
    BY <1>2, <1>s, EndMoves DEF BringUpDone
  <2>2. OwnStackMoves(j)
    BY <1>0, <1>2 DEF BringUpDone, MakeStale, OwnStackMoves, Containers
  <2> QED BY <1>2, <2>1, <2>2 DEF BringUpDone
<1>3. CASE BringUpFails(j)
  <2>1. OwnChainMoves(j)
    BY <1>3, <1>s, EndMoves DEF BringUpFails
  <2>2. OwnStackMoves(j)
    BY <1>0, <1>3 DEF BringUpFails, OwnStackMoves, Containers
  <2> QED BY <1>3, <2>1, <2>2 DEF BringUpFails
<1>4. CASE SwapDone(j)
  <2>1. OwnChainMoves(j)
    BY <1>4, <1>s, EndMoves DEF SwapDone
  <2>2. OwnStackMoves(j)
    BY <1>0, <1>4 DEF SwapDone, MakeStale, OwnStackMoves
  <2> QED BY <1>4, <2>1, <2>2 DEF SwapDone
<1>5. CASE SwapFails(j)
  <2>1. OwnChainMoves(j)
    BY <1>5, <1>s, EndMoves DEF SwapFails
  <2>2. OwnStackMoves(j)
    BY <1>0, <1>5 DEF SwapFails, OwnStackMoves, Containers
  <2> QED BY <1>5, <2>1, <2>2 DEF SwapFails
<1>6. CASE StopStack(j)
  <2>1. OwnChainMoves(j)
    BY <1>6, <1>s, EndMoves DEF StopStack
  <2>2. OwnStackMoves(j)
    BY <1>0, <1>6 DEF StopStack, Stopped, OwnStackMoves, Containers
  <2> QED BY <1>6, <2>1, <2>2 DEF StopStack
<1>7. CASE StartStack(j)
  <2>1. OwnChainMoves(j)
    BY <1>7, <1>s, EndMoves DEF StartStack
  <2>2. OwnStackMoves(j)
    BY <1>0, <1>7 DEF StartStack, Started, MakeStale, OwnStackMoves, Containers
  <2> QED BY <1>7, <2>1, <2>2 DEF StartStack
<1>8. CASE ArchiveStack(j)
  <2>1. OwnChainMoves(j)
    BY <1>8, <1>s, EndMoves DEF ArchiveStack
  <2>2. OwnStackMoves(j)
    BY <1>0, <1>8 DEF ArchiveStack, RemoveContainers, OwnStackMoves, Containers
  <2> QED BY <1>8, <2>1, <2>2 DEF ArchiveStack
<1>9. CASE PurgeEnsureDb(j)
  <2>1. OwnChainMoves(j)
    BY <1>9, <1>s, AdvanceMoves DEF PurgeEnsureDb
  <2>2. OwnStackMoves(j)
    BY <1>0, <1>9 DEF PurgeEnsureDb, Started, MakeStale, OwnStackMoves, Containers
  <2> QED BY <1>9, <2>1, <2>2 DEF PurgeEnsureDb
<1>10. CASE PurgeDump(j)
  <2>1. OwnChainMoves(j)
    BY <1>10, <1>s, AdvanceMoves DEF PurgeDump
  <2>2. OwnStackMoves(j)
    BY <1>0, <1>10 DEF PurgeDump, OwnStackMoves
  <2> QED BY <1>10, <2>1, <2>2 DEF PurgeDump
<1>11. CASE PurgeRefused(j)
  <2>1. OwnChainMoves(j)
    BY <1>11, <1>s, EndMoves DEF PurgeRefused
  <2>2. OwnStackMoves(j)
    BY <1>0, <1>11 DEF PurgeRefused, RemoveContainers, MakeStale, OwnStackMoves, Containers
  <2> QED BY <1>11, <2>1, <2>2 DEF PurgeRefused
<1>12. CASE PurgeWipe(j)
  <2>1. OwnChainMoves(j)
    BY <1>12, <1>s, EndMoves DEF PurgeWipe
  <2>2. OwnStackMoves(j)
    BY <1>0, <1>12 DEF PurgeWipe, OwnStackMoves, Containers
  <2> QED BY <1>12, <2>1, <2>2 DEF PurgeWipe
<1>13. CASE PurgeRaises(j)
  <2>1. OwnChainMoves(j)
    BY <1>13, <1>s, EndMoves DEF PurgeRaises
  <2>2. OwnStackMoves(j)
    BY <1>0, <1>13 DEF PurgeRaises, Started, MakeStale, OwnStackMoves, Containers
  <2> QED BY <1>13, <2>1, <2>2 DEF PurgeRaises
<1> QED BY <1>1, <1>2, <1>3, <1>4, <1>5, <1>6, <1>7, <1>8, <1>9, <1>10, <1>11,
           <1>12, <1>13 DEF ChainStep

\* No step leads a chain back to its beginning.
LEMMA NeverBack ==
    ASSUME TypeOK, NEW j \in Job, ChainStep(j)
    PROVE  chain'[j].stage # "begin"
<1>1. /\ {"up", "dump", "wipe"} \subseteq Stage \ {"none"}
      /\ {"ok", "failed", "refused", "raised"} \subseteq Result
      /\ {} \in SUBSET Volume
  BY DEF Stage, Result
<1>2. \A stage \in {"up", "dump", "wipe"}, made \in SUBSET Volume :
        Advance(j, stage, made) => chain'[j].stage # "begin"
  BY <1>1, AdvanceMoves
<1>3. \A result \in {"ok", "failed", "refused", "raised"} :
        End(j, result) => chain'[j].stage # "begin"
  BY <1>1, EndMoves
<1>4. CASE BringUpVolumes(j)
  BY <1>2, <1>4 DEF BringUpVolumes
<1>5. CASE PurgeEnsureDb(j) \/ PurgeDump(j)
  BY <1>1, <1>2, <1>5 DEF PurgeEnsureDb, PurgeDump
<1>6. CASE ~BringUpVolumes(j) /\ ~PurgeEnsureDb(j) /\ ~PurgeDump(j)
  BY <1>3, <1>6 DEF ChainStep, BringUpDone, BringUpFails, SwapDone, SwapFails,
                    StopStack, StartStack, ArchiveStack, PurgeRefused, PurgeRaises,
                    PurgeWipe
<1> QED BY <1>4, <1>5, <1>6

-----------------------------------------------------------------------------
(* A step of a chain preserves the invariant *)

\* On the stack of a local school a chain deletes only what is expendable, and
\* leaves it so.
LEMMA ChainStepSafe ==
    ASSUME IInv, NEW j \in Job, ChainStep(j), chain[j].school \in Local
    PROVE  /\ data'[chain[j].school] \subseteq
                 vols'[chain[j].school] \cup dumps'[chain[j].school]
           /\ Expendable(j)'
<1> DEFINE s == chain[j].school
<1> USE DEF At
<1>0. /\ vols \in [School -> SUBSET Volume] /\ data \in [School -> SUBSET Volume]
      /\ dumps \in [School -> SUBSET Volume] /\ s \in School
  BY DEF IInv, TypeOK, StackTypeOK, Local
<1>a. TypeOK /\ data[s] \subseteq vols[s] \cup dumps[s] /\ Expendable(j)
  BY DEF IInv, NoUnbackedLoss, DumpInv
<1>m. chain'[j].school = s /\ chain'[j].op = chain[j].op
  BY <1>a, ChainStepFrame DEF OwnChainMoves
<1>s. /\ {"begin", "up", "dump", "wipe", "done"} \subseteq Stage \ {"none"}
      /\ {"ok", "failed", "refused", "raised"} \subseteq Result
      /\ {} \in SUBSET Volume
  BY DEF Stage, Result
<1>1. CASE BringUpVolumes(j)
  <2>1. PICK made \in SUBSET (Volume \ vols[s]) :
          /\ vols' = [vols EXCEPT ![s] = @ \cup made]
          /\ Advance(j, "up", made)
    BY <1>1 DEF BringUpVolumes
  <2>2. chain'[j].stage = "up" /\ chain'[j].made = made
    BY <1>a, <1>s, <2>1, AdvanceMoves
  <2>3. data' = data /\ dumps' = dumps /\ chain[j].op = "bringup"
    BY <1>1 DEF BringUpVolumes
  <2> QED BY <1>0, <1>a, <1>m, <2>1, <2>2, <2>3 DEF Expendable
<1>2. CASE BringUpDone(j)
  <2>1. chain'[j].stage = "done" /\ chain[j].op = "bringup"
    BY <1>2, <1>a, <1>s, EndMoves DEF BringUpDone
  <2>2. vols' = vols /\ vols[s] = Volume /\ data'[s] = Volume
    BY <1>0, <1>2 DEF BringUpDone
  <2> QED BY <1>m, <2>1, <2>2 DEF Expendable
<1>3. CASE BringUpFails(j)
  <2>1. chain'[j].stage = "done" /\ chain[j].op = "bringup"
    BY <1>3, <1>a, <1>s, EndMoves DEF BringUpFails
  <2>2. data' = data /\ dumps' = dumps
    BY <1>3 DEF BringUpFails
  <2>3. CASE At(j, "bringup", "up")
    <3>1. vols[s] \ chain[j].made \subseteq vols'[s]
      BY <1>0, <1>3 DEF BringUpFails, CleanupVolumes
    <3>2. chain[j].made \cap data[s] \subseteq dumps[s]
      BY <1>a, <2>3 DEF Expendable
    <3> QED BY <1>a, <1>m, <2>1, <2>2, <3>1, <3>2 DEF Expendable
  <2>4. CASE vols' = vols
    BY <1>a, <1>m, <2>1, <2>2, <2>4 DEF Expendable
  <2>5. CASE At(j, "bringup", "begin") /\ vols' # vols
    <3>1. chain[j].made = {}
      BY <2>5 DEF IInv, MadeInv
    <3>2. vols[s] \subseteq vols'[s]
      BY <1>0, <1>3, <3>1 DEF BringUpFails, CleanupVolumes
    <3> QED BY <1>a, <1>m, <2>1, <2>2, <3>2 DEF Expendable
  <2> QED BY <1>3, <2>3, <2>4, <2>5 DEF BringUpFails
<1>4. CASE SwapDone(j) \/ StartStack(j)
  <2>1. chain'[j].stage = "done" /\ chain[j].op \in {"swap", "unsuspend"}
    BY <1>4, <1>a, <1>s, EndMoves DEF SwapDone, StartStack
  <2>2. vols' = vols /\ data' = data /\ dumps'[s] = dumps[s] \ vols[s]
    BY <1>0, <1>4 DEF SwapDone, StartStack, MakeStale
  <2> QED BY <1>a, <1>m, <2>1, <2>2 DEF Expendable
<1>5. CASE SwapFails(j) \/ StopStack(j) \/ ArchiveStack(j)
  <2>1. chain'[j].stage = "done" /\ chain[j].op \in {"swap", "suspend", "archive"}
    BY <1>5, <1>a, <1>s, EndMoves DEF SwapFails, StopStack, ArchiveStack
  <2>2. vols' = vols /\ data' = data /\ dumps' = dumps
    BY <1>5 DEF SwapFails, StopStack, ArchiveStack
  <2> QED BY <1>a, <1>m, <2>1, <2>2 DEF Expendable
<1>6. CASE PurgeEnsureDb(j)
  <2>1. chain'[j].stage = "dump" /\ chain[j].op = "purge"
    BY <1>6, <1>a, <1>s, AdvanceMoves DEF PurgeEnsureDb
  <2>2. vols' = vols /\ data' = data /\ dumps'[s] = dumps[s] \ vols[s]
    BY <1>0, <1>6 DEF PurgeEnsureDb, MakeStale
  <2> QED BY <1>a, <1>m, <2>1, <2>2 DEF Expendable
<1>7. CASE PurgeDump(j)
  <2>1. chain'[j].stage = "wipe" /\ chain[j].op = "purge"
    BY <1>7, <1>a, <1>s, AdvanceMoves DEF PurgeDump
  <2>2. vols' = vols /\ data' = data /\ dumps'[s] = dumps[s] \cup vols[s]
    BY <1>0, <1>7 DEF PurgeDump
  <2> QED BY <1>a, <1>m, <2>1, <2>2 DEF Expendable
<1>8. CASE PurgeRefused(j) \/ PurgeRaises(j)
  <2>1. /\ chain'[j].stage = "done" /\ chain'[j].result \in {"refused", "raised"}
        /\ chain[j].op = "purge"
    BY <1>8, <1>a, <1>s, EndMoves DEF PurgeRefused, PurgeRaises
  <2>2. vols' = vols /\ data' = data /\ dumps[s] \ vols[s] \subseteq dumps'[s]
    BY <1>0, <1>8 DEF PurgeRefused, PurgeRaises, MakeStale
  <2> QED BY <1>a, <1>m, <2>1, <2>2 DEF Expendable
<1>9. CASE PurgeWipe(j)
  <2>1. chain'[j].stage = "done" /\ chain[j].op = "purge" /\ chain[j].stage = "wipe"
    BY <1>9, <1>a, <1>s, EndMoves DEF PurgeWipe
  <2>2. data' = data /\ dumps' = dumps /\ data[s] \subseteq dumps[s]
    BY <1>9, <1>a DEF PurgeWipe, Expendable
  <2> QED BY <1>m, <2>1, <2>2 DEF Expendable
<1> QED BY <1>1, <1>2, <1>3, <1>4, <1>5, <1>6, <1>7, <1>8, <1>9 DEF ChainStep

\* A Docker call of a chain: only its own stack changes, and NoUnbackedLoss
\* holds because the chain deletes only what it made or what was dumped.
LEMMA StackStepKeeps ==
    ASSUME IInv, NEW j \in Job, StackStep(j)
    PROVE  IInv'
<1>0. TypeOK /\ ChainStep(j) /\ status' = status /\ job' = job /\ queue' = queue
  BY DEF IInv, StackStep
<1>1. /\ chain[j].school \in School /\ chain[j].stage # "none"
      /\ OwnChainMoves(j) /\ OwnStackMoves(j)
  BY <1>0, ChainStepFrame
<1>2. TypeOK'
  BY <1>0, <1>1 DEF TypeOK, StackTypeOK, OwnChainMoves, OwnStackMoves, ChainRecord
<1>3. JobInv' /\ LockInv' /\ AwaitInv' /\ ChainInv'
  BY <1>0, <1>1 DEF IInv, JobInv, LockInv, AwaitInv, ChainInv, OwnChainMoves, Holds
<1>4. ASSUME NEW i \in Job \ {j}, chain'[i].school \in Local
      PROVE  Expendable(i)'
  <2>1. chain'[i] = chain[i] /\ Expendable(i)
    BY <1>1, <1>4 DEF IInv, DumpInv, OwnChainMoves
  <2>2. CASE chain[i].stage = "none"
    BY <2>1, <2>2 DEF Expendable
  <2>3. CASE chain[i].stage # "none"
    <3>1. chain[i].school # chain[j].school
      BY <1>1, <1>4, <2>1, <2>3, LockedStack
    <3>2. /\ data'[chain[i].school] = data[chain[i].school]
          /\ dumps'[chain[i].school] = dumps[chain[i].school]
      BY <1>1, <1>4, <2>1, <3>1 DEF OwnStackMoves, Local
    <3> QED BY <2>1, <3>2 DEF Expendable
  <2> QED BY <2>2, <2>3
<1>5. DumpInv'
  BY <1>0, <1>1, <1>4, ChainStepSafe DEF DumpInv, OwnChainMoves
<1>6. NoUnbackedLoss'
  <2> SUFFICES ASSUME NEW s \in Local
               PROVE  data'[s] \subseteq vols'[s] \cup dumps'[s]
    BY DEF NoUnbackedLoss
  <2>1. CASE s = chain[j].school
    BY <1>0, <2>1, ChainStepSafe
  <2>2. CASE s # chain[j].school
    BY <1>1, <2>2 DEF OwnStackMoves, IInv, NoUnbackedLoss, Local
  <2> QED BY <2>1, <2>2
<1>7. MadeInv'
  BY <1>0, <1>1, NeverBack DEF IInv, MadeInv, OwnChainMoves
<1> QED BY <1>2, <1>3, <1>5, <1>6, <1>7 DEF IInv

-----------------------------------------------------------------------------
(* Steps that leave the stacks alone *)

JobRecord == [kind : JobKind, pc : Pc, school : School \cup {NoSchool}, view : Status]

\* No other job loses a lock.
OthersKeepLocks(j) ==
    /\ queue' \in [LockKey -> Seq(Job)]
    /\ \A key \in LockKey, i \in Job \ {j} : Holds(key, i) => Holds(key, i)'

\* A job that neither waits for a chain nor begins to keeps the invariant when
\* it moves alone and takes nobody's lock.
LEMMA QuietStepKeeps ==
    ASSUME IInv, NEW j \in Job, UNCHANGED stackVars,
           status' \in [School -> Status],
           job[j].pc # "await",
           NEW new \in JobRecord, job' = [job EXCEPT ![j] = new],
           new.pc # "await", new.pc # "idle" => new.school \in School,
           OthersKeepLocks(j)
    PROVE  IInv'
<1>1. /\ job \in [Job -> JobRecord] /\ StackTypeOK
      /\ cont' = cont /\ vols' = vols /\ data' = data /\ dumps' = dumps /\ chain' = chain
  BY DEF IInv, TypeOK, JobRecord, stackVars
<1>2. job' \in [Job -> JobRecord] /\ job'[j] = new /\ \A i \in Job \ {j} : job'[i] = job[i]
  BY <1>1
<1>3. TypeOK'
  BY <1>1, <1>2 DEF TypeOK, StackTypeOK, JobRecord, OthersKeepLocks
<1>4. JobInv' /\ AwaitInv'
  BY <1>1, <1>2 DEF IInv, JobInv, AwaitInv
<1>5. LockInv'
  <2> SUFFICES ASSUME NEW i \in Job \ {j}, job[i].pc = "await"
               PROVE  Holds(job[i].school, i)'
    BY <1>2 DEF LockInv
  <2>1. job[i].school \in LockKey /\ Holds(job[i].school, i)
    BY DEF IInv, JobInv, LockInv, LockKey
  <2> QED BY <1>2, <2>1 DEF OthersKeepLocks, Holds
<1>6. ChainInv'
  BY <1>1, <1>2 DEF IInv, ChainInv
<1>7. DumpInv' /\ MadeInv' /\ NoUnbackedLoss'
  BY <1>1 DEF IInv, DumpInv, Expendable, MadeInv, NoUnbackedLoss
<1> QED BY <1>3, <1>4, <1>5, <1>6, <1>7 DEF IInv

\* A commit writes a status.
LEMMA SaveTyped ==
    ASSUME TypeOK, NEW s \in School, NEW view, NEW new \in Status,
           SetStatus(s, Save(s, view, new))
    PROVE  status' \in [School -> Status]
BY DEF TypeOK, SetStatus, Save

\* An idle slot is a job record.
LEMMA IdleTyped == Idle \in JobRecord
BY DEF Idle, JobRecord, JobKind, Pc, Status

\* A new request: it touches no stack and joins the organization's queue at
\* most.
LEMMA RequestKeeps ==
    ASSUME IInv, NEW j \in Job, Request(j)
    PROVE  IInv'
<1>0. TypeOK /\ OrgKey \in LockKey
  BY DEF IInv, LockKey
<1>1. PICK s \in School :
        CreateRequest(j, s) \/ \E kind \in RequestKind : Admit(j, s, kind)
  BY DEF Request
<1>2. CASE CreateRequest(j, s)
  <2> DEFINE new == [kind |-> "create", pc |-> "org", school |-> s, view |-> "absent"]
  <2>1. new \in JobRecord
    BY DEF JobRecord, JobKind, RequestKind, Pc, Status
  <2>2. job' = [job EXCEPT ![j] = new] /\ UNCHANGED stackVars /\ status' = status
    BY <1>2 DEF CreateRequest
  <2>3. job[j].pc # "await"
    BY <1>2 DEF CreateRequest, Free, Idle
  <2>4. OthersKeepLocks(j)
    BY <1>0, <1>2, AcquireKeeps DEF CreateRequest, OthersKeepLocks
  <2> QED BY <1>0, <2>1, <2>2, <2>3, <2>4, QuietStepKeeps DEF TypeOK
<1>3. ASSUME NEW kind \in RequestKind, Admit(j, s, kind)
      PROVE  IInv'
  <2> DEFINE new == [kind |-> kind, pc |-> "admitted", school |-> s, view |-> status[s]]
  <2>1. new \in JobRecord
    BY <1>0 DEF TypeOK, JobRecord, JobKind, Pc
  <2>2. /\ job' = [job EXCEPT ![j] = new] /\ UNCHANGED stackVars
        /\ status' = status /\ queue' = queue
    BY <1>3 DEF Admit
  <2>3. job[j].pc # "await"
    BY <1>3 DEF Admit, Free, Idle
  <2>4. OthersKeepLocks(j)
    BY <1>0, <2>2 DEF TypeOK, OthersKeepLocks, Holds
  <2> QED BY <1>0, <2>1, <2>2, <2>3, <2>4, QuietStepKeeps DEF TypeOK
<1> QED BY <1>1, <1>2, <1>3

\* The job's record after it was sent on to another lock.
LEMMA PcTyped ==
    ASSUME TypeOK, NEW j \in Job, NEW pc \in Pc, NEW view \in Status
    PROVE  /\ job[j] \in JobRecord
           /\ [job[j] EXCEPT !.pc = pc] \in JobRecord
           /\ [job[j] EXCEPT !.pc = pc, !.view = view] \in JobRecord
BY DEF TypeOK, JobRecord

\* The record of a scheduled background task.
LEMMA BackgroundTyped ==
    ASSUME NEW kind \in {"provision", "update"}, NEW s \in School
    PROVE  BackgroundJob(kind, s) \in JobRecord
BY DEF BackgroundJob, JobRecord, JobKind, RequestKind, Pc, Status

\* A request asks for its lock: it joins the queue behind the owner.
LEMMA EnqueueKeeps ==
    ASSUME IInv, NEW j \in Job, EnqueueOrg(j) \/ EnqueueSchool(j)
    PROVE  IInv'
<1> DEFINE pc == IF EnqueueOrg(j) THEN "org" ELSE "queued"
<1> DEFINE new == [job[j] EXCEPT !.pc = pc]
<1>1. TypeOK /\ job[j].school \in School /\ job[j].pc # "await"
  BY DEF IInv, JobInv, EnqueueOrg, EnqueueSchool
<1>2. new \in JobRecord /\ new.pc = pc /\ new.school = job[j].school
  BY <1>1 DEF TypeOK, JobRecord, Pc
<1>3. job' = [job EXCEPT ![j] = new] /\ status' = status /\ UNCHANGED stackVars
  BY <1>1 DEF EnqueueOrg, EnqueueSchool, Queued, TypeOK
<1>4. OthersKeepLocks(j)
  <2>1. OrgKey \in LockKey /\ job[j].school \in LockKey
    BY <1>1 DEF LockKey
  <2> QED BY <1>1, <2>1, AcquireKeeps DEF EnqueueOrg, EnqueueSchool, OthersKeepLocks
<1> HIDE DEF new
<1>5. new.pc # "await"
  BY <1>2
<1> QED BY <1>1, <1>2, <1>3, <1>4, <1>5, QuietStepKeeps DEF TypeOK

\* The update endpoint marks the row without a lock.
LEMMA UpdateMarkKeeps ==
    ASSUME IInv, NEW j \in Job, UpdateMark(j)
    PROVE  IInv'
<1> DEFINE s == job[j].school
           new == IF status[s] = "gone" THEN Idle ELSE [job[j] EXCEPT !.pc = "refresh"]
<1>1. /\ TypeOK /\ s \in School /\ job[j].pc # "await" /\ job \in [Job -> JobRecord]
  BY DEF IInv, JobInv, TypeOK, JobRecord, UpdateMark
<1>2. status' \in [School -> Status] /\ UNCHANGED stackVars
  BY <1>1, SaveTyped DEF UpdateMark, Status
<1>3. job' = [job EXCEPT ![j] = new] /\ queue' = queue
  BY <1>1 DEF UpdateMark, JobRecord
<1>4. /\ new \in JobRecord /\ new.pc # "await"
      /\ new.pc # "idle" => new.school \in School
  <2>1. [job[j] EXCEPT !.pc = "refresh"] \in JobRecord
    BY <1>1 DEF JobRecord, Pc
  <2> QED BY <1>1, <2>1, IdleTyped DEF Idle, JobRecord
<1>5. OthersKeepLocks(j)
  BY <1>1, <1>3 DEF OthersKeepLocks, TypeOK, Holds
<1> HIDE DEF new
<1> QED BY <1>1, <1>2, <1>3, <1>4, <1>5, QuietStepKeeps

\* The task of an update asks for the school's lock.
LEMMA ScheduleUpdateKeeps ==
    ASSUME IInv, NEW j \in Job, ScheduleUpdate(j)
    PROVE  IInv'
<1> DEFINE s == job[j].school
<1>1. TypeOK /\ s \in School /\ s \in LockKey /\ job[j].pc # "await"
  BY DEF IInv, JobInv, LockKey, ScheduleUpdate
<1>2. status' \in [School -> Status] /\ UNCHANGED stackVars
  BY <1>1 DEF ScheduleUpdate, TypeOK
<1>3. CASE status[s] = "gone"
  <2>1. job' = [job EXCEPT ![j] = Idle] /\ OthersKeepLocks(j)
    BY <1>1, <1>3 DEF ScheduleUpdate, BeIdle, OthersKeepLocks, TypeOK, Holds
  <2> QED BY <1>1, <1>2, <2>1, IdleTyped, QuietStepKeeps DEF Idle
<1>4. CASE status[s] # "gone"
  <2> DEFINE new == BackgroundJob("update", s)
  <2>1. new \in JobRecord /\ new.pc = "queued" /\ new.school = s
    BY <1>1, BackgroundTyped DEF BackgroundJob
  <2>2. job' = [job EXCEPT ![j] = new] /\ Acquire(s, j)
    BY <1>4 DEF ScheduleUpdate
  <2>3. OthersKeepLocks(j)
    BY <1>1, <2>2, AcquireKeeps DEF OthersKeepLocks
  <2> HIDE DEF new
  <2> QED BY <1>1, <1>2, <2>1, <2>2, <2>3, QuietStepKeeps
<1> QED BY <1>3, <1>4

\* A refused request leaves the organization's lock.
LEMMA OrgRefuseKeeps ==
    ASSUME IInv, NEW j \in Job, job[j].pc = "org", Holds(OrgKey, j), OrgRefuse(j)
    PROVE  IInv'
<1>1. TypeOK /\ OrgKey \in LockKey
  BY DEF IInv, LockKey
<1>2. OthersKeepLocks(j)
  BY <1>1, ReleaseKeeps DEF OrgRefuse, OthersKeepLocks
<1>3. job' = [job EXCEPT ![j] = Idle] /\ status' = status /\ UNCHANGED stackVars
  BY DEF OrgRefuse, BeIdle
<1> QED BY <1>1, <1>2, <1>3, IdleTyped, QuietStepKeeps DEF Idle, TypeOK

\* The checks of create and reprovision under the organization's lock.
LEMMA CheckKeeps ==
    ASSUME IInv, NEW j \in Job, CreateCheck(j) \/ ReprovisionCheck(j)
    PROVE  IInv'
<1>1. TypeOK /\ job[j].school \in School /\ job[j].pc = "org" /\ Holds(OrgKey, j)
  BY DEF IInv, JobInv, CreateCheck, ReprovisionCheck
<1>2. CASE OrgRefuse(j)
  BY <1>1, <1>2, OrgRefuseKeeps
<1>3. ASSUME NEW new \in JobRecord, new.pc = "mark", new.school = job[j].school,
             job' = [job EXCEPT ![j] = new], UNCHANGED <<status, queue, stackVars>>
      PROVE  IInv'
  <2>1. OthersKeepLocks(j)
    BY <1>1, <1>3 DEF OthersKeepLocks, TypeOK, Holds
  <2> QED BY <1>1, <1>3, <2>1, QuietStepKeeps DEF TypeOK
<1>4. CASE CreateCheck(j) /\ ~OrgRefuse(j)
  <2> DEFINE new == [job[j] EXCEPT !.pc = "mark", !.view = status[job[j].school]]
  <2>1. new \in JobRecord /\ new.pc = "mark" /\ new.school = job[j].school
    BY <1>1 DEF TypeOK, JobRecord, Pc
  <2>2. job' = [job EXCEPT ![j] = new] /\ UNCHANGED <<status, queue, stackVars>>
    BY <1>1, <1>4 DEF CreateCheck, TypeOK
  <2> QED BY <1>3, <2>1, <2>2
<1>5. CASE ReprovisionCheck(j) /\ ~OrgRefuse(j)
  <2> DEFINE new == [job[j] EXCEPT !.pc = "mark"]
  <2>1. new \in JobRecord /\ new.pc = "mark" /\ new.school = job[j].school
    BY <1>1 DEF TypeOK, JobRecord, Pc
  <2>2. job' = [job EXCEPT ![j] = new] /\ UNCHANGED <<status, queue, stackVars>>
    BY <1>1, <1>5 DEF ReprovisionCheck, TypeOK
  <2> QED BY <1>3, <2>1, <2>2
<1> QED BY <1>2, <1>4, <1>5

\* The endpoint commits "provisioning" and keeps the organization's lock.
LEMMA MarkProvisioningKeeps ==
    ASSUME IInv, NEW j \in Job, MarkProvisioning(j)
    PROVE  IInv'
<1> DEFINE s == job[j].school
<1>1. /\ TypeOK /\ s \in School /\ OrgKey \in LockKey /\ job[j].pc # "await"
      /\ Holds(OrgKey, j) /\ job \in [Job -> JobRecord]
  BY DEF IInv, JobInv, LockKey, TypeOK, JobRecord, MarkProvisioning
<1>2. status' \in [School -> Status] /\ UNCHANGED stackVars
  BY <1>1, SaveTyped DEF MarkProvisioning, Status
<1>3. CASE status[s] = "gone"
  <2>1. job' = [job EXCEPT ![j] = Idle] /\ Release(OrgKey)
    BY <1>3 DEF MarkProvisioning, BeIdle
  <2>2. OthersKeepLocks(j)
    BY <1>1, <2>1, ReleaseKeeps DEF OthersKeepLocks
  <2> QED BY <1>1, <1>2, <2>1, <2>2, IdleTyped, QuietStepKeeps DEF Idle
<1>4. CASE status[s] # "gone"
  <2> DEFINE new == [job[j] EXCEPT !.pc = "marked"]
  <2>1. new \in JobRecord /\ new.pc = "marked" /\ new.school = s
    BY <1>1 DEF JobRecord, Pc
  <2>2. job' = [job EXCEPT ![j] = new] /\ queue' = queue
    BY <1>1, <1>4 DEF MarkProvisioning, JobRecord
  <2>3. OthersKeepLocks(j)
    BY <1>1, <2>2 DEF OthersKeepLocks, TypeOK, Holds
  <2> HIDE DEF new
  <2> QED BY <1>1, <1>2, <2>1, <2>2, <2>3, QuietStepKeeps
<1> QED BY <1>3, <1>4

\* The endpoint leaves the organization's lock and its task asks for the school's.
LEMMA ScheduleProvisionKeeps ==
    ASSUME IInv, NEW j \in Job, ScheduleProvision(j)
    PROVE  IInv'
<1> DEFINE s == job[j].school
<1>1. /\ TypeOK /\ s \in School /\ s \in LockKey /\ OrgKey \in LockKey
      /\ s # OrgKey /\ job[j].pc # "await" /\ Holds(OrgKey, j)
  BY OrgKeyAssumption DEF IInv, JobInv, LockKey, ScheduleProvision
<1>2. status' \in [School -> Status] /\ UNCHANGED stackVars
  BY <1>1 DEF ScheduleProvision, TypeOK
<1>3. CASE status[s] = "gone"
  <2>1. job' = [job EXCEPT ![j] = Idle] /\ Release(OrgKey)
    BY <1>3 DEF ScheduleProvision, BeIdle
  <2>2. OthersKeepLocks(j)
    BY <1>1, <2>1, ReleaseKeeps DEF OthersKeepLocks
  <2> QED BY <1>1, <1>2, <2>1, <2>2, IdleTyped, QuietStepKeeps DEF Idle
<1>4. CASE status[s] # "gone"
  <2> DEFINE new == BackgroundJob("provision", s)
  <2>1. new \in JobRecord /\ new.pc = "queued" /\ new.school = s
    BY <1>1, BackgroundTyped DEF BackgroundJob
  <2>2. /\ job' = [job EXCEPT ![j] = new]
        /\ queue' = [queue EXCEPT ![OrgKey] = Tail(@), ![s] = Append(@, j)]
    BY <1>4 DEF ScheduleProvision
  <2>3. OthersKeepLocks(j)
    <3>1. queue \in [LockKey -> Seq(Job)]
      BY <1>1 DEF TypeOK
    <3>2. queue[OrgKey] # <<>> /\ Head(queue[OrgKey]) = j /\ Tail(queue[OrgKey]) \in Seq(Job)
      BY <1>1, <3>1, HeadTailProperties DEF Holds
    <3>3. /\ Append(queue[s], j) \in Seq(Job)
          /\ queue[s] # <<>> => /\ Append(queue[s], j) # <<>>
                                /\ Head(Append(queue[s], j)) = Head(queue[s])
      BY <1>1, <3>1, AppendProperties, HeadTailAppend
    <3>4. /\ queue'[OrgKey] = Tail(queue[OrgKey]) /\ queue'[s] = Append(queue[s], j)
          /\ \A k \in LockKey \ {OrgKey, s} : queue'[k] = queue[k]
          /\ queue' \in [LockKey -> Seq(Job)]
      BY <1>1, <2>2, <3>1, <3>2, <3>3
    <3> QED BY <3>2, <3>3, <3>4 DEF OthersKeepLocks, Holds
  <2> HIDE DEF new
  <2> QED BY <1>1, <1>2, <2>1, <2>2, <2>3, QuietStepKeeps
<1> QED BY <1>3, <1>4

\* A background task that starts no chain leaves the school's lock.
LEMMA EndsEarlyKeeps ==
    ASSUME IInv, NEW j \in Job, BackgroundRowGone(j) \/ UpdateEndsEarly(j)
    PROVE  IInv'
<1> DEFINE s == job[j].school
<1>1. /\ TypeOK /\ s \in School /\ s \in LockKey
      /\ job[j].pc # "await" /\ Holds(s, j) /\ Release(s)
  BY DEF IInv, JobInv, LockKey, BackgroundRowGone, UpdateEndsEarly, OwnsSchool
<1>2. status' \in [School -> Status]
  BY <1>1 DEF TypeOK, BackgroundRowGone, UpdateEndsEarly, SetStatus, Status
<1>3. OthersKeepLocks(j)
  BY <1>1, ReleaseKeeps DEF OthersKeepLocks
<1>4. job' = [job EXCEPT ![j] = Idle] /\ UNCHANGED stackVars
  BY DEF BackgroundRowGone, UpdateEndsEarly, BeIdle
<1> QED BY <1>1, <1>2, <1>3, <1>4, IdleTyped, QuietStepKeeps DEF Idle

-----------------------------------------------------------------------------
(* Steps that begin or end a chain *)

\* A job that owns its school's lock and starts its own chain keeps the
\* invariant: the new chain has nothing to delete yet.
LEMMA StartKeeps ==
    ASSUME IInv, NEW j \in Job, OwnsSchool(j), NEW view \in Status,
           status' \in [School -> Status],
           OpOf(job[j].kind) \in ChainOp,
           GoAwait(j, view), StartChain(j, OpOf(job[j].kind), job[j].school),
           UNCHANGED <<queue, cont, vols, data, dumps>>
    PROVE  IInv'
<1> DEFINE op == OpOf(job[j].kind)
           new == [job[j] EXCEPT !.pc = "await", !.view = view]
           started == [op |-> op, school |-> job[j].school, stage |-> "begin",
                       made |-> {}, result |-> "none"]
<1>1. /\ TypeOK /\ job[j].school \in School /\ Holds(job[j].school, j)
      /\ job \in [Job -> JobRecord] /\ chain \in [Job -> ChainRecord]
  BY DEF IInv, JobInv, OwnsSchool, TypeOK, StackTypeOK, JobRecord, ChainRecord
<1>2. /\ new \in JobRecord /\ new.pc = "await" /\ new.school = job[j].school
      /\ new.kind = job[j].kind
  BY <1>1 DEF JobRecord, Pc
<1>3. /\ started \in ChainRecord /\ started.op = op /\ started.stage = "begin"
      /\ started.school = job[j].school /\ started.made = {}
  BY <1>1 DEF ChainRecord, Stage, Result
<1>4. /\ job' = [job EXCEPT ![j] = new] /\ chain' = [chain EXCEPT ![j] = started]
      /\ queue' = queue /\ cont' = cont /\ vols' = vols /\ data' = data /\ dumps' = dumps
  BY <1>1 DEF GoAwait, StartChain, JobRecord
<1> HIDE DEF new, started
<1>5. /\ job' \in [Job -> JobRecord] /\ chain' \in [Job -> ChainRecord]
      /\ job'[j] = new /\ chain'[j] = started
      /\ \A i \in Job \ {j} : job'[i] = job[i] /\ chain'[i] = chain[i]
  BY <1>1, <1>2, <1>3, <1>4
<1>6. TypeOK'
  BY <1>1, <1>4, <1>5 DEF TypeOK, StackTypeOK, JobRecord, ChainRecord
<1>7. JobInv' /\ ChainInv'
  BY <1>1, <1>2, <1>5 DEF IInv, JobInv, ChainInv
<1>8. LockInv' /\ AwaitInv'
  BY <1>1, <1>2, <1>3, <1>4, <1>5 DEF IInv, LockInv, AwaitInv, Holds
<1>9. DumpInv' /\ MadeInv' /\ NoUnbackedLoss'
  BY <1>3, <1>4, <1>5 DEF IInv, DumpInv, Expendable, MadeInv, NoUnbackedLoss
<1> QED BY <1>6, <1>7, <1>8, <1>9 DEF IInv

\* The owner of the school's lock starts a chain: by LockInv no other job of
\* the school waits for one.
LEMMA BeginKeeps ==
    ASSUME IInv, NEW j \in Job, BeginProvision(j) \/ BeginUpdate(j) \/ BeginRequested(j)
    PROVE  IInv'
<1>1. TypeOK /\ job[j].school \in School /\ job[j].view \in Status
  BY DEF IInv, TypeOK, JobInv, BeginProvision, BeginUpdate, BeginRequested, OwnsSchool
<1>2. CASE BeginProvision(j)
  <2>1. OpOf(job[j].kind) = "bringup" /\ OpOf(job[j].kind) \in ChainOp
    BY <1>2 DEF BeginProvision, OpOf, ChainOp
  <2>2. status' \in [School -> Status] /\ "provisioning" \in Status
    BY <1>1, <1>2 DEF BeginProvision, SetStatus, TypeOK, Status
  <2> QED BY <1>2, <2>1, <2>2, StartKeeps DEF BeginProvision
<1>3. CASE BeginUpdate(j)
  <2>1. OpOf(job[j].kind) = "swap" /\ OpOf(job[j].kind) \in ChainOp
    BY <1>3 DEF BeginUpdate, OpOf, ChainOp
  <2>2. status' \in [School -> Status] /\ "updating" \in Status
    BY <1>1, <1>3 DEF BeginUpdate, SetStatus, TypeOK, Status
  <2> QED BY <1>3, <2>1, <2>2, StartKeeps DEF BeginUpdate
<1>4. CASE BeginRequested(j)
  <2>1. OpOf(job[j].kind) = job[j].kind /\ OpOf(job[j].kind) \in ChainOp
    BY <1>4 DEF BeginRequested, OpOf, ChainOp
  <2>2. status' \in [School -> Status]
    BY <1>1, <1>4 DEF BeginRequested, TypeOK
  <2> QED BY <1>1, <1>4, <2>1, <2>2, StartKeeps DEF BeginRequested
<1> QED BY <1>2, <1>3, <1>4

\* A job that leaves its school's lock keeps the invariant when its chain is
\* over or is a node's.
LEMMA LeaveKeeps ==
    ASSUME IInv, NEW j \in Job, job[j].pc = "await", LeaveSchool(j),
           status' \in [School -> Status],
           \/ chain' = [chain EXCEPT ![j] = NoChain]
           \/ chain' = chain /\ job[j].school \in Remote,
           UNCHANGED <<cont, vols, data, dumps>>
    PROVE  IInv'
<1>1. /\ TypeOK /\ job[j].school \in School /\ Holds(job[j].school, j)
      /\ job[j].school \in LockKey /\ chain[j].school = job[j].school
      /\ job \in [Job -> JobRecord] /\ chain \in [Job -> ChainRecord]
  BY DEF IInv, JobInv, LockInv, AwaitInv, LockKey, TypeOK, StackTypeOK, JobRecord,
         ChainRecord
<1>2. OthersKeepLocks(j)
  BY <1>1, ReleaseKeeps DEF LeaveSchool, OthersKeepLocks
<1>3. NoChain \in ChainRecord /\ NoChain.stage = "none" /\ NoChain.school = NoSchool
  BY DEF NoChain, ChainRecord, Stage, Result
<1>4. /\ job' \in [Job -> JobRecord] /\ job'[j] = Idle /\ Idle.pc = "idle"
      /\ \A i \in Job \ {j} : job'[i] = job[i]
  BY <1>1, IdleTyped DEF LeaveSchool, BeIdle, Idle
<1>5. /\ chain' \in [Job -> ChainRecord]
      /\ \A i \in Job \ {j} : chain'[i] = chain[i]
      /\ chain'[j] = NoChain \/ (chain'[j] = chain[j] /\ chain[j].school \in Remote)
  BY <1>1, <1>3
<1>6. TypeOK'
  BY <1>1, <1>2, <1>4, <1>5 DEF TypeOK, StackTypeOK, JobRecord, ChainRecord, OthersKeepLocks
<1>7. JobInv' /\ AwaitInv' /\ ChainInv'
  BY <1>3, <1>4, <1>5 DEF IInv, JobInv, AwaitInv, ChainInv, Local
<1>8. LockInv'
  <2> SUFFICES ASSUME NEW i \in Job \ {j}, job[i].pc = "await"
               PROVE  Holds(job[i].school, i)'
    BY <1>4 DEF LockInv
  <2>1. job[i].school \in LockKey /\ Holds(job[i].school, i)
    BY DEF IInv, JobInv, LockInv, LockKey
  <2> QED BY <1>2, <1>4, <2>1 DEF OthersKeepLocks, Holds
<1>9. DumpInv' /\ MadeInv' /\ NoUnbackedLoss'
  <2>1. NoUnbackedLoss'
    BY DEF IInv, NoUnbackedLoss
  <2>2. MadeInv'
    BY <1>3, <1>5 DEF IInv, MadeInv
  <2>3. DumpInv'
    BY <1>3, <1>5 DEF IInv, DumpInv, Expendable, Local
  <2> QED BY <2>1, <2>2, <2>3
<1> QED BY <1>6, <1>7, <1>8, <1>9 DEF IInv

\* What a job commits is a status.
LEMMA CommitTyped ==
    ASSUME TypeOK, NEW s \in School, NEW view \in Status,
           NEW outcome \in Status \cup {"same"}, Commit(s, view, outcome)
    PROVE  status' \in [School -> Status]
BY DEF TypeOK, Commit, SetStatus, Save, Status

\* A job commits its outcome, or gives up, and leaves the school's lock.
LEMMA FinishKeeps ==
    ASSUME IInv, NEW j \in Job, Finish(j) \/ NodeRefuses(j) \/ AnswerLost(j)
    PROVE  IInv'
<1>1. /\ TypeOK /\ job[j].pc = "await" /\ LeaveSchool(j)
      /\ job[j].school \in School /\ job[j].view \in Status
      /\ UNCHANGED <<cont, vols, data, dumps>>
  BY DEF IInv, TypeOK, JobInv, Finish, NodeRefuses, AnswerLost
<1>2. CASE Finish(j)
  <2>1. Outcome(job[j].kind, chain[j].result, job[j].school \in Remote)
          \in Status \cup {"same"}
    BY DEF Outcome, Status
  <2>2. status' \in [School -> Status]
    BY <1>1, <1>2, <2>1, CommitTyped DEF Finish
  <2> QED BY <1>1, <1>2, <2>2, LeaveKeeps DEF Finish
<1>3. CASE NodeRefuses(j)
  <2>1. RemoteOutcome(job[j].kind) \in Status \cup {"same"}
    BY DEF RemoteOutcome, Status
  <2>2. status' \in [School -> Status]
    BY <1>1, <1>3, <2>1, CommitTyped DEF NodeRefuses
  <2> QED BY <1>1, <1>3, <2>2, LeaveKeeps DEF NodeRefuses
<1>4. CASE AnswerLost(j)
  BY <1>1, <1>4, LeaveKeeps DEF AnswerLost, TypeOK
<1> QED BY <1>2, <1>3, <1>4

\* A purge commits "archived" before it deletes the row.
LEMMA MarkPurgedKeeps ==
    ASSUME IInv, NEW j \in Job, MarkPurged(j)
    PROVE  IInv'
<1> DEFINE new == [job[j] EXCEPT !.view = "archived"]
<1>1. /\ TypeOK /\ job[j].school \in School /\ job \in [Job -> JobRecord]
      /\ queue' = queue /\ UNCHANGED stackVars
  BY DEF IInv, TypeOK, JobInv, JobRecord, MarkPurged
<1>2. status' \in [School -> Status]
  BY <1>1, SaveTyped DEF MarkPurged, Status
<1>3. /\ new \in JobRecord /\ new.pc = job[j].pc /\ new.kind = job[j].kind
      /\ new.school = job[j].school
  BY <1>1 DEF JobRecord, Status
<1>4. job' = [job EXCEPT ![j] = new]
  BY <1>1 DEF MarkPurged, JobRecord
<1> HIDE DEF new
<1>5. /\ job' \in [Job -> JobRecord] /\ job'[j] = new
      /\ \A i \in Job \ {j} : job'[i] = job[i]
  BY <1>1, <1>3, <1>4
<1>6. TypeOK'
  BY <1>1, <1>2, <1>5 DEF TypeOK, StackTypeOK, stackVars, JobRecord
<1>7. JobInv' /\ LockInv' /\ AwaitInv' /\ ChainInv'
  BY <1>1, <1>3, <1>5 DEF IInv, JobInv, LockInv, AwaitInv, ChainInv, Holds, stackVars
<1>8. DumpInv' /\ MadeInv' /\ NoUnbackedLoss'
  BY <1>1 DEF IInv, DumpInv, Expendable, MadeInv, NoUnbackedLoss, stackVars
<1> QED BY <1>6, <1>7, <1>8 DEF IInv

\* A chain nobody waits for ends.
LEMMA DetachedKeeps ==
    ASSUME IInv, NEW j \in Job, DetachedChainEnds(j)
    PROVE  IInv'
<1>1. /\ job' = job /\ queue' = queue /\ status' = status /\ cont' = cont
      /\ vols' = vols /\ data' = data /\ dumps' = dumps
      /\ chain' = [chain EXCEPT ![j] = NoChain] /\ job[j].pc # "await"
  BY DEF DetachedChainEnds, Idle
<1>2. NoChain \in ChainRecord /\ NoChain.stage = "none" /\ NoChain.school = NoSchool
  BY DEF NoChain, ChainRecord, Stage, Result
<1>3. /\ chain \in [Job -> ChainRecord] /\ chain' \in [Job -> ChainRecord]
      /\ chain'[j] = NoChain /\ \A i \in Job \ {j} : chain'[i] = chain[i]
  BY <1>1, <1>2 DEF IInv, TypeOK, StackTypeOK, ChainRecord
<1>4. TypeOK' /\ JobInv'
  BY <1>1, <1>3 DEF IInv, TypeOK, StackTypeOK, ChainRecord, JobInv
<1>5. LockInv' /\ AwaitInv' /\ ChainInv'
  BY <1>1, <1>2, <1>3 DEF IInv, LockInv, AwaitInv, ChainInv, Holds
<1>6. DumpInv' /\ MadeInv' /\ NoUnbackedLoss'
  BY <1>1, <1>2, <1>3 DEF IInv, DumpInv, Expendable, MadeInv, NoUnbackedLoss
<1> QED BY <1>4, <1>5, <1>6 DEF IInv

\* A restart of the core drops its jobs, locks and local chains together.
LEMMA RestartKeeps ==
    ASSUME IInv, CoreRestart
    PROVE  IInv'
<1>1. /\ job' = [j \in Job |-> Idle] /\ queue' = [k \in LockKey |-> <<>>]
      /\ status' = status /\ cont' = cont
      /\ vols' = vols /\ data' = data /\ dumps' = dumps
  BY DEF CoreRestart
<1>2. NoChain \in ChainRecord /\ NoChain.stage = "none" /\ NoChain.school = NoSchool
  BY DEF NoChain, ChainRecord, Stage, Result
<1>3. /\ chain \in [Job -> ChainRecord] /\ chain' \in [Job -> ChainRecord]
      /\ \A j \in Job :
            \/ chain'[j] = NoChain
            \/ chain'[j] = chain[j] /\ chain[j].school \in Remote
  <2>1. chain \in [Job -> ChainRecord]
    BY DEF IInv, TypeOK, StackTypeOK, ChainRecord
  <2>2. chain' = [j \in Job |->
                    IF chain[j].school \in Remote THEN chain[j] ELSE NoChain]
    BY DEF CoreRestart
  <2> QED BY <1>2, <2>1, <2>2
<1>4. <<>> \in Seq(Job) /\ \A j \in Job : job'[j].pc = "idle" /\ job'[j] \in JobRecord
  BY <1>1, IdleTyped, EmptySeq DEF Idle
<1>5. TypeOK'
  BY <1>1, <1>3, <1>4, IdleTyped DEF IInv, TypeOK, StackTypeOK, ChainRecord, JobRecord
<1>6. JobInv' /\ LockInv' /\ AwaitInv'
  BY <1>4 DEF JobInv, LockInv, AwaitInv
<1>7. ChainInv' /\ MadeInv'
  BY <1>2, <1>3 DEF IInv, ChainInv, MadeInv, Local
<1>8. DumpInv' /\ NoUnbackedLoss'
  BY <1>1, <1>2, <1>3 DEF IInv, DumpInv, Expendable, NoUnbackedLoss, Local
<1> QED BY <1>5, <1>6, <1>7, <1>8 DEF IInv

-----------------------------------------------------------------------------
(* The theorems *)

\* There is no school at the start.
LEMMA InitHolds == Init => IInv
<1> SUFFICES ASSUME Init PROVE IInv
  OBVIOUS
<1>1. <<>> \in Seq(Job) /\ Idle \in JobRecord /\ NoChain \in ChainRecord
  BY IdleTyped, EmptySeq DEF NoChain, ChainRecord, Stage, Result
<1>2. TypeOK
  BY <1>1 DEF Init, StackInit, TypeOK, StackTypeOK, JobRecord, ChainRecord, Status,
              Containers
<1>3. JobInv /\ LockInv /\ AwaitInv
  BY DEF Init, Idle, JobInv, LockInv, AwaitInv
<1>4. ChainInv /\ MadeInv
  BY DEF Init, StackInit, NoChain, ChainInv, MadeInv
<1>5. DumpInv /\ NoUnbackedLoss
  BY DEF Init, StackInit, NoChain, DumpInv, Expendable, NoUnbackedLoss, Local
<1> QED BY <1>2, <1>3, <1>4, <1>5 DEF IInv

\* The invariant is inductive.
LEMMA NextKeeps == IInv /\ [Next]_vars => IInv'
<1> SUFFICES ASSUME IInv, [Next]_vars PROVE IInv'
  OBVIOUS
<1>1. ASSUME NEW j \in Job, Request(j) PROVE IInv'
  BY <1>1, RequestKeeps
<1>2. ASSUME NEW j \in Job, JobStep(j) PROVE IInv'
  BY <1>2, EnqueueKeeps, UpdateMarkKeeps, ScheduleUpdateKeeps, CheckKeeps,
     MarkProvisioningKeeps, ScheduleProvisionKeeps, EndsEarlyKeeps, BeginKeeps,
     StackStepKeeps, MarkPurgedKeeps, FinishKeeps, DetachedKeeps
     DEF JobStep
<1>3. CASE CoreRestart
  BY <1>3, RestartKeeps
<1>4. CASE UNCHANGED vars
  BY <1>4 DEF vars, stackVars, IInv, TypeOK, StackTypeOK, JobInv, LockInv, Holds,
              AwaitInv, ChainInv, DumpInv, Expendable, MadeInv, NoUnbackedLoss
<1> QED BY <1>1, <1>2, <1>3, <1>4 DEF Next

\* The inductive invariant holds in every reachable state of every instance.
THEOREM InvariantHolds == Spec => []IInv
BY InitHolds, NextKeeps, PTL DEF Spec

\* Every variable keeps its type.
THEOREM TypeCorrect == Spec => []TypeOK
<1>1. IInv => TypeOK
  BY DEF IInv
<1> QED BY <1>1, InvariantHolds, PTL

\* The keyed locks of core/locks.py keep two chains of Docker calls off the
\* stack of one local school, however many requests, schools and restarts.
THEOREM StackExclusion == Spec => []OneChainPerStack
<1>1. IInv => OneChainPerStack
  BY LockedStack DEF OneChainPerStack
<1> QED BY <1>1, InvariantHolds, PTL

\* What the users of a local school stored exists or is in a dump.
THEOREM NothingLost == Spec => []NoUnbackedLoss
<1>1. IInv => NoUnbackedLoss
  BY DEF IInv
<1> QED BY <1>1, InvariantHolds, PTL

\* Only the end of an accepted purge deletes a row.
LEMMA RowDeletedByFinish ==
    ASSUME IInv, [Next]_vars, NEW s \in Local, status[s] # "gone", status'[s] = "gone"
    PROVE  \E j \in Job : /\ job[j].school = s
                          /\ job[j].kind = "purge"
                          /\ Finish(j)
                          /\ chain[j].result = "ok"
<1>1. s \in School /\ s \notin Remote /\ TypeOK
  BY DEF Local, IInv
<1>2. ASSUME NEW t \in School, NEW view, NEW new \in Status \ {"gone"},
             SetStatus(t, Save(t, view, new))
      PROVE  FALSE
  BY <1>1, <1>2 DEF SetStatus, Save, TypeOK
<1>3. ASSUME NEW t \in School, NEW new \in Status \ {"gone"}, SetStatus(t, new)
      PROVE  FALSE
  BY <1>1, <1>3 DEF SetStatus, TypeOK
<1>4. ASSUME NEW t \in School, NEW view, NEW outcome \in (Status \cup {"same"}) \ {"gone"},
             Commit(t, view, outcome)
      PROVE  FALSE
  BY <1>1, <1>4 DEF Commit, SetStatus, Save, TypeOK
<1>5. status' # status
  OBVIOUS
<1>6. PICK j \in Job : JobStep(j)
  BY <1>5 DEF Next, vars, Request, CreateRequest, Admit, CoreRestart
<1>7. job[j].pc # "idle" => job[j].school \in School
  BY DEF IInv, JobInv
<1>8. /\ {"provisioning", "updating", "active", "failed", "archived", "suspended"}
            \subseteq Status \ {"gone"}
      /\ "same" \in (Status \cup {"same"}) \ {"gone"}
      /\ Status \ {"gone"} \subseteq (Status \cup {"same"}) \ {"gone"}
  BY DEF Status
<1>9. ~UpdateMark(j) /\ ~MarkProvisioning(j) /\ ~MarkPurged(j)
  BY <1>2, <1>7, <1>8 DEF UpdateMark, MarkProvisioning, MarkPurged
<1>10. ~BeginProvision(j) /\ ~BeginUpdate(j)
  BY <1>3, <1>7, <1>8 DEF BeginProvision, BeginUpdate, OwnsSchool
<1>11. ~UpdateEndsEarly(j)
  <2> SUFFICES ASSUME UpdateEndsEarly(j) PROVE FALSE
    OBVIOUS
  <2> DEFINE t == job[j].school
  <2>1. /\ t \in School /\ status[t] \in Status \ {"gone"}
        /\ \/ SetStatus(t, "active")
           \/ SetStatus(t, IF status[t] = "updating" THEN "active" ELSE status[t])
    BY <1>1, <1>7 DEF UpdateEndsEarly, OwnsSchool, TypeOK
  <2> QED BY <1>3, <1>8, <2>1
<1>12. ~NodeRefuses(j)
  BY <1>4, <1>7, <1>8 DEF NodeRefuses, RemoteOutcome
<1>13. Finish(j)
  BY <1>5, <1>6, <1>9, <1>10, <1>11, <1>12
     DEF JobStep, EnqueueOrg, EnqueueSchool, ScheduleUpdate, ScheduleProvision, CreateCheck, ReprovisionCheck, OrgRefuse,
         BackgroundRowGone, BeginRequested, StackStep, AnswerLost, DetachedChainEnds
<1>14. job[j].school = s
  BY <1>1, <1>7, <1>13 DEF Finish, Commit, SetStatus, TypeOK
<1>15. Outcome(job[j].kind, chain[j].result, FALSE) = "gone"
  BY <1>1, <1>4, <1>7, <1>8, <1>13, <1>14 DEF Finish, Outcome
<1>16. job[j].kind = "purge" /\ chain[j].result = "ok"
  BY <1>15 DEF Outcome
<1> QED BY <1>13, <1>14, <1>16

\* delete_school deletes the row of a local school only when all of its data
\* was dumped.
THEOREM RowDeletedAfterDump == Spec => RowOutlivesData
<1> DEFINE Backed == \A s \in Local :
               status[s] # "gone" /\ status'[s] = "gone" => data[s] \subseteq dumps[s]
<1>1. IInv /\ [Next]_vars => [Backed]_vars
  <2> SUFFICES ASSUME IInv, [Next]_vars, NEW s \in Local,
                      status[s] # "gone", status'[s] = "gone"
               PROVE  data[s] \subseteq dumps[s]
    OBVIOUS
  <2>1. PICK j \in Job : /\ job[j].school = s /\ job[j].kind = "purge"
                         /\ Finish(j) /\ chain[j].result = "ok"
    BY RowDeletedByFinish
  <2>2. chain[j].op = "purge" /\ chain[j].school = s /\ chain[j].stage = "done"
    BY <2>1 DEF IInv, AwaitInv, Finish, OpOf
  <2> QED BY <2>1, <2>2 DEF IInv, DumpInv, Expendable
<1> QED BY <1>1, InvariantHolds, PTL DEF Spec, RowOutlivesData

-----------------------------------------------------------------------------
(* The locks and the jobs inside their blocks *)

Waiting(q) == {q[n] : n \in DOMAIN q}

NoneTwice(q) == \A m, n \in DOMAIN q : q[m] = q[n] => m = n

\* InBlock, of a job's record.
Inside(record, key) ==
    IF key = OrgKey THEN record.pc \in {"org", "mark", "marked"}
                    ELSE record.pc \in {"queued", "await"} /\ record.school = key

\* Who joins a queue is added at its end.
LEMMA JoinQueue ==
    ASSUME NEW q \in Seq(Job), NEW j \in Job, j \notin Waiting(q), NoneTwice(q)
    PROVE  Waiting(Append(q, j)) = Waiting(q) \cup {j} /\ NoneTwice(Append(q, j))
<1> DEFINE a == Append(q, j)
<1>1. /\ Len(q) \in Nat /\ DOMAIN q = 1 .. Len(q)
      /\ DOMAIN a = 1 .. Len(q) + 1
      /\ \A n \in 1 .. Len(q) : a[n] = q[n]
      /\ a[Len(q) + 1] = j
  BY AppendProperties
<1> HIDE DEF a
<1>2. \A n \in 1 .. Len(q) : q[n] # j
  BY <1>1 DEF Waiting
<1>3. Waiting(a) = Waiting(q) \cup {j}
  <2>1. ASSUME NEW x \in Waiting(a) PROVE x \in Waiting(q) \cup {j}
    BY <1>1, <2>1 DEF Waiting
  <2>2. ASSUME NEW x \in Waiting(q) PROVE x \in Waiting(a)
    BY <1>1, <2>2 DEF Waiting
  <2>3. j \in Waiting(a)
    BY <1>1 DEF Waiting
  <2> QED BY <2>1, <2>2, <2>3
<1>4. NoneTwice(a)
  BY <1>1, <1>2 DEF NoneTwice
<1> QED BY <1>3, <1>4 DEF a

\* Who leaves a queue is its head, and only that.
LEMMA LeaveQueue ==
    ASSUME NEW q \in Seq(Job), q # <<>>, NoneTwice(q)
    PROVE  Waiting(Tail(q)) = Waiting(q) \ {Head(q)} /\ NoneTwice(Tail(q))
<1> DEFINE rest == Tail(q)
<1>1. /\ Len(q) \in Nat \ {0} /\ DOMAIN q = 1 .. Len(q)
      /\ DOMAIN rest = 1 .. Len(q) - 1
      /\ \A n \in 1 .. Len(q) - 1 : rest[n] = q[n + 1]
      /\ Head(q) = q[1]
  BY HeadTailProperties, EmptySeq
<1> HIDE DEF rest
<1>2. NoneTwice(rest)
  BY <1>1 DEF NoneTwice
<1>3. ASSUME NEW x \in Waiting(rest) PROVE x \in Waiting(q) \ {Head(q)}
  <2>1. PICK n \in 1 .. Len(q) - 1 : x = q[n + 1]
    BY <1>1 DEF Waiting
  <2>2. n + 1 \in 1 .. Len(q) /\ n + 1 # 1 /\ 1 \in 1 .. Len(q)
    BY <1>1
  <2> QED BY <1>1, <2>1, <2>2 DEF NoneTwice, Waiting
<1>4. ASSUME NEW x \in Waiting(q), x # Head(q) PROVE x \in Waiting(rest)
  <2>1. PICK n \in 1 .. Len(q) : x = q[n]
    BY <1>1 DEF Waiting
  <2>2. n # 1 /\ n - 1 \in 1 .. Len(q) - 1 /\ (n - 1) + 1 = n
    BY <1>1, <1>4, <2>1
  <2>3. x = rest[n - 1]
    BY <1>1, <2>1, <2>2
  <2> QED BY <1>1, <2>2, <2>3 DEF Waiting
<1> QED BY <1>2, <1>3, <1>4 DEF rest

MatchesJobs(key) ==
    /\ \A i \in Job : i \in Waiting(queue[key]) <=> Inside(job[i], key)
    /\ NoneTwice(queue[key])

\* LocksMatchJobs, in these words.
LEMMA MatchByKey == LocksMatchJobs <=> \A key \in LockKey : MatchesJobs(key)
BY DEF MatchesJobs, LocksMatchJobs, InBlock, Inside, Waiting, NoneTwice

\* A job that moves from the block of one lock, if any, to that of another, if
\* any, and from the queue of the one to the queue of the other.
LEMMA MoveMatches ==
    ASSUME TypeOK, LocksMatchJobs, NEW j \in Job, NEW new,
           job' = [job EXCEPT ![j] = new],
           \A key \in LockKey :
               \/ queue'[key] = queue[key] /\ (Inside(job[j], key) <=> Inside(new, key))
               \/ /\ queue'[key] = Append(queue[key], j)
                  /\ ~Inside(job[j], key) /\ Inside(new, key)
               \/ /\ Holds(key, j) /\ queue'[key] = Tail(queue[key])
                  /\ ~Inside(new, key)
    PROVE  LocksMatchJobs'
<1>1. job'[j] = new /\ \A i \in Job \ {j} : job'[i] = job[i]
  BY DEF TypeOK
<1>2. ASSUME NEW key \in LockKey
      PROVE  MatchesJobs(key)'
  <2>1. /\ queue[key] \in Seq(Job)
        /\ \A i \in Job : i \in Waiting(queue[key]) <=> Inside(job[i], key)
        /\ NoneTwice(queue[key])
    BY MatchByKey DEF TypeOK, MatchesJobs
  <2>2. CASE queue'[key] = queue[key] /\ (Inside(job[j], key) <=> Inside(new, key))
    BY <1>1, <2>1, <2>2 DEF MatchesJobs
  <2>3. CASE /\ queue'[key] = Append(queue[key], j)
             /\ ~Inside(job[j], key) /\ Inside(new, key)
    <3>1. Waiting(queue'[key]) = Waiting(queue[key]) \cup {j} /\ NoneTwice(queue'[key])
      BY <2>1, <2>3, JoinQueue
    <3> QED BY <1>1, <2>1, <2>3, <3>1 DEF MatchesJobs
  <2>4. CASE /\ Holds(key, j) /\ queue'[key] = Tail(queue[key])
             /\ ~Inside(new, key)
    <3>1. Waiting(queue'[key]) = Waiting(queue[key]) \ {j} /\ NoneTwice(queue'[key])
      BY <2>1, <2>4, LeaveQueue DEF Holds
    <3> QED BY <1>1, <2>1, <2>4, <3>1 DEF MatchesJobs
  <2> QED BY <2>2, <2>3, <2>4
<1>3. (LocksMatchJobs <=> \A key \in LockKey : MatchesJobs(key))'
  BY MatchByKey, PTL
<1> QED BY <1>2, <1>3

\* A job without a lock asks for one.
LEMMA EnterMatches ==
    ASSUME TypeOK, LocksMatchJobs, NEW j \in Job, NEW new \in JobRecord,
           NEW k \in LockKey, Acquire(k, j),
           job' = [job EXCEPT ![j] = new], job[j].pc \in {"idle", "admitted", "refresh"},
           \A key \in LockKey : Inside(new, key) <=> key = k
    PROVE  LocksMatchJobs'
<1>1. queue' = [queue EXCEPT ![k] = Append(queue[k], j)] /\ queue \in [LockKey -> Seq(Job)]
  BY DEF Acquire, TypeOK
<1>2. \A key \in LockKey : ~Inside(job[j], key)
  BY DEF Inside
<1> QED BY <1>1, <1>2, MoveMatches

\* The owner of a lock leaves its block and ends.
LEMMA LeaveMatches ==
    ASSUME TypeOK, LocksMatchJobs, NEW j \in Job, NEW k \in LockKey,
           Holds(k, j), Release(k), BeIdle(j),
           \A key \in LockKey : Inside(job[j], key) => key = k
    PROVE  LocksMatchJobs'
<1>1. queue' = [queue EXCEPT ![k] = Tail(queue[k])] /\ queue \in [LockKey -> Seq(Job)]
  BY DEF Release, TypeOK
<1>2. job' = [job EXCEPT ![j] = Idle] /\ \A key \in LockKey : ~Inside(Idle, key)
  BY DEF BeIdle, Idle, Inside
<1> QED BY <1>1, <1>2, MoveMatches

\* The queues stay and the job stays in its block.
LEMMA StayMatches ==
    ASSUME TypeOK, LocksMatchJobs, NEW j \in Job, NEW new, UNCHANGED queue,
           job' = [job EXCEPT ![j] = new],
           \A key \in LockKey : Inside(job[j], key) <=> Inside(new, key)
    PROVE  LocksMatchJobs'
BY MoveMatches

\* Every request and task that waits asks for one lock, that of its block.
LEMMA EnterStep ==
    ASSUME IInv, LocksMatchJobs, NEW j \in Job,
           \/ \E s \in School : CreateRequest(j, s)
           \/ EnqueueOrg(j) \/ EnqueueSchool(j)
           \/ ScheduleUpdate(j) /\ status[job[j].school] # "gone"
    PROVE  LocksMatchJobs'
<1>1. TypeOK /\ OrgKey \in LockKey /\ job \in [Job -> JobRecord]
  BY DEF IInv, TypeOK, LockKey, JobRecord
<1>2. ASSUME NEW s \in School, CreateRequest(j, s)
      PROVE  LocksMatchJobs'
  <2> DEFINE new == [kind |-> "create", pc |-> "org", school |-> s, view |-> "absent"]
  <2>1. new \in JobRecord
    BY DEF JobRecord, JobKind, RequestKind, Pc, Status
  <2>2. \A key \in LockKey : Inside(new, key) <=> key = OrgKey
    BY DEF Inside
  <2>3. job' = [job EXCEPT ![j] = new] /\ Acquire(OrgKey, j) /\ job[j].pc = "idle"
    BY <1>2 DEF CreateRequest, Free, Idle
  <2> HIDE DEF new
  <2> QED BY <1>1, <2>1, <2>2, <2>3, EnterMatches
<1>3. ASSUME job[j].pc # "idle"
      PROVE  job[j].school \in School /\ job[j].school \in LockKey /\ job[j].school # OrgKey
  BY <1>3, OrgKeyAssumption DEF IInv, JobInv, LockKey
<1>4. CASE EnqueueOrg(j)
  <2> DEFINE new == [job[j] EXCEPT !.pc = "org"]
  <2>1. new \in JobRecord /\ new.pc = "org"
    BY <1>1 DEF JobRecord, Pc
  <2>2. \A key \in LockKey : Inside(new, key) <=> key = OrgKey
    BY <2>1 DEF Inside
  <2>3. job' = [job EXCEPT ![j] = new] /\ Acquire(OrgKey, j) /\ job[j].pc = "admitted"
    BY <1>1, <1>4 DEF EnqueueOrg, JobRecord
  <2> HIDE DEF new
  <2> QED BY <1>1, <2>1, <2>2, <2>3, EnterMatches
<1>5. CASE EnqueueSchool(j)
  <2> DEFINE new == [job[j] EXCEPT !.pc = "queued"]
  <2>1. new \in JobRecord /\ new.pc = "queued" /\ new.school = job[j].school
    BY <1>1 DEF JobRecord, Pc
  <2>2. /\ job' = [job EXCEPT ![j] = new] /\ Acquire(job[j].school, j)
        /\ job[j].pc = "admitted"
    BY <1>1, <1>5 DEF EnqueueSchool, Queued, JobRecord
  <2>3. job[j].school \in LockKey /\ job[j].school # OrgKey
    BY <1>3, <2>2
  <2>4. \A key \in LockKey : Inside(new, key) <=> key = job[j].school
    BY <2>1, <2>3 DEF Inside
  <2> HIDE DEF new
  <2> QED BY <1>1, <2>1, <2>2, <2>3, <2>4, EnterMatches
<1>6. CASE ScheduleUpdate(j) /\ status[job[j].school] # "gone"
  <2> DEFINE s == job[j].school
             new == BackgroundJob("update", s)
  <2>1. job[j].pc = "refresh" /\ s \in School /\ s \in LockKey /\ s # OrgKey
    BY <1>3, <1>6 DEF ScheduleUpdate
  <2>2. new \in JobRecord /\ new.pc = "queued" /\ new.school = s
    BY <2>1, BackgroundTyped DEF BackgroundJob
  <2>3. job' = [job EXCEPT ![j] = new] /\ Acquire(s, j)
    BY <1>6 DEF ScheduleUpdate
  <2>4. \A key \in LockKey : Inside(new, key) <=> key = s
    BY <2>1, <2>2 DEF Inside
  <2> HIDE DEF new, s
  <2> QED BY <1>1, <2>1, <2>2, <2>3, <2>4, EnterMatches
<1> QED BY <1>2, <1>4, <1>5, <1>6

\* Every path out of a block releases the lock.
LEMMA LeaveStep ==
    ASSUME IInv, LocksMatchJobs, NEW j \in Job,
           \/ (CreateCheck(j) \/ ReprovisionCheck(j)) /\ OrgRefuse(j)
           \/ (MarkProvisioning(j) \/ ScheduleProvision(j)) /\ status[job[j].school] = "gone"
           \/ BackgroundRowGone(j) \/ UpdateEndsEarly(j)
           \/ Finish(j) \/ NodeRefuses(j) \/ AnswerLost(j)
    PROVE  LocksMatchJobs'
<1>1. TypeOK /\ OrgKey \in LockKey
  BY DEF IInv, LockKey
<1>2. CASE \/ (CreateCheck(j) \/ ReprovisionCheck(j)) /\ OrgRefuse(j)
           \/ (MarkProvisioning(j) \/ ScheduleProvision(j)) /\ status[job[j].school] = "gone"
  <2>1. /\ Holds(OrgKey, j) /\ Release(OrgKey) /\ BeIdle(j)
        /\ job[j].pc \in {"org", "mark", "marked"}
    BY <1>2 DEF CreateCheck, ReprovisionCheck, OrgRefuse, MarkProvisioning,
                ScheduleProvision
  <2>2. \A key \in LockKey : Inside(job[j], key) => key = OrgKey
    BY <2>1 DEF Inside
  <2> QED BY <1>1, <2>1, <2>2, LeaveMatches
<1>3. CASE \/ BackgroundRowGone(j) \/ UpdateEndsEarly(j)
           \/ Finish(j) \/ NodeRefuses(j) \/ AnswerLost(j)
  <2>1. /\ job[j].pc \in {"queued", "await"}
        /\ Release(job[j].school) /\ BeIdle(j)
    BY <1>3 DEF BackgroundRowGone, UpdateEndsEarly, OwnsSchool, Finish,
                NodeRefuses, AnswerLost, LeaveSchool
  <2>2. Holds(job[j].school, j)
    BY <1>3 DEF BackgroundRowGone, UpdateEndsEarly, OwnsSchool, Finish,
                NodeRefuses, AnswerLost, IInv, LockInv
  <2>3. job[j].school \in LockKey
    BY <2>1 DEF IInv, JobInv, LockKey
  <2>4. \A key \in LockKey : Inside(job[j], key) => key = job[j].school
    BY <2>1 DEF Inside
  <2> QED BY <1>1, <2>1, <2>2, <2>3, <2>4, LeaveMatches
<1> QED BY <1>2, <1>3

\* Create and reprovision leave the organization's lock as their background
\* task asks for the school's.
LEMMA ScheduleStep ==
    ASSUME IInv, LocksMatchJobs, NEW j \in Job, ScheduleProvision(j),
           status[job[j].school] # "gone"
    PROVE  LocksMatchJobs'
<1> DEFINE s == job[j].school
           new == BackgroundJob("provision", s)
<1>1. /\ TypeOK /\ queue \in [LockKey -> Seq(Job)] /\ job[j].pc = "marked"
      /\ Holds(OrgKey, j) /\ OrgKey \in LockKey
  BY DEF IInv, TypeOK, LockKey, ScheduleProvision
<1>2. s \in School /\ s \in LockKey /\ s # OrgKey
  BY <1>1, OrgKeyAssumption DEF IInv, JobInv, LockKey
<1>3. new.pc = "queued" /\ new.school = s
  BY DEF BackgroundJob
<1>4. /\ job' = [job EXCEPT ![j] = new]
      /\ queue' = [queue EXCEPT ![OrgKey] = Tail(@), ![s] = Append(@, j)]
  BY DEF ScheduleProvision
<1> HIDE DEF new, s
<1>5. ASSUME NEW key \in LockKey
      PROVE  \/ queue'[key] = queue[key] /\ (Inside(job[j], key) <=> Inside(new, key))
             \/ /\ queue'[key] = Append(queue[key], j)
                /\ ~Inside(job[j], key) /\ Inside(new, key)
             \/ /\ Holds(key, j) /\ queue'[key] = Tail(queue[key])
                /\ ~Inside(new, key)
  <2>1. CASE key = OrgKey
    BY <1>1, <1>2, <1>3, <1>4, <2>1 DEF Inside
  <2>2. CASE key = s
    BY <1>1, <1>2, <1>3, <1>4, <2>2 DEF Inside
  <2>3. CASE key # OrgKey /\ key # s
    BY <1>1, <1>2, <1>3, <1>4, <2>3 DEF Inside
  <2> QED BY <2>1, <2>2, <2>3
<1> QED BY <1>1, <1>4, <1>5, MoveMatches

\* The other steps of a job leave it where it is.
LEMMA StayStep ==
    ASSUME IInv, LocksMatchJobs, NEW j \in Job,
           \/ \E s \in School, kind \in RequestKind : Admit(j, s, kind)
           \/ UpdateMark(j)
           \/ ScheduleUpdate(j) /\ status[job[j].school] = "gone"
           \/ MarkProvisioning(j) /\ status[job[j].school] # "gone"
           \/ (CreateCheck(j) \/ ReprovisionCheck(j)) /\ ~OrgRefuse(j)
           \/ BeginProvision(j) \/ BeginUpdate(j) \/ BeginRequested(j)
           \/ MarkPurged(j)
    PROVE  LocksMatchJobs'
<1>1. TypeOK /\ job[j] \in JobRecord
  BY DEF IInv, TypeOK, JobRecord
<1>2. ASSUME NEW s \in School, NEW kind \in RequestKind, Admit(j, s, kind)
      PROVE  LocksMatchJobs'
  <2> DEFINE new == [kind |-> kind, pc |-> "admitted", school |-> s, view |-> status[s]]
  <2>1. \A key \in LockKey : ~Inside(new, key) /\ ~Inside(job[j], key)
    BY <1>2 DEF Inside, Admit, Free, Idle
  <2>2. job' = [job EXCEPT ![j] = new] /\ UNCHANGED queue
    BY <1>2 DEF Admit
  <2> HIDE DEF new
  <2> QED BY <1>1, <2>1, <2>2, StayMatches
<1>3. CASE (UpdateMark(j) \/ ScheduleUpdate(j)) /\ status[job[j].school] = "gone"
  <2>1. /\ job' = [job EXCEPT ![j] = Idle] /\ UNCHANGED queue
        /\ job[j].pc \in {"admitted", "refresh"}
    BY <1>1, <1>3 DEF UpdateMark, ScheduleUpdate, BeIdle
  <2>2. \A key \in LockKey : ~Inside(Idle, key) /\ ~Inside(job[j], key)
    BY <2>1 DEF Inside, Idle
  <2> QED BY <1>1, <2>1, <2>2, StayMatches
<1>4. ASSUME NEW new \in JobRecord, job' = [job EXCEPT ![j] = new],
             UNCHANGED queue, new.school = job[j].school,
             \/ new.pc = job[j].pc
             \/ job[j].pc = "admitted" /\ new.pc = "refresh"
             \/ job[j].pc = "org" /\ new.pc = "mark"
             \/ job[j].pc = "mark" /\ new.pc = "marked"
             \/ job[j].pc = "queued" /\ new.pc = "await"
      PROVE  LocksMatchJobs'
  <2>1. \A key \in LockKey : Inside(job[j], key) <=> Inside(new, key)
    BY <1>4 DEF Inside
  <2> QED BY <1>1, <1>4, <2>1, StayMatches
<1>5. CASE (CreateCheck(j) \/ ReprovisionCheck(j)) /\ ~OrgRefuse(j)
  <2> DEFINE view == IF CreateCheck(j) THEN status[job[j].school] ELSE job[j].view
             new == [job[j] EXCEPT !.pc = "mark", !.view = view]
  <2>1. job[j].school \in School /\ view \in Status
    BY <1>1, <1>5 DEF IInv, JobInv, TypeOK, JobRecord, CreateCheck, ReprovisionCheck
  <2>2. new \in JobRecord /\ new.pc = "mark" /\ new.school = job[j].school
    BY <1>1, <2>1 DEF JobRecord, Pc
  <2>3. UNCHANGED queue /\ job[j].pc = "org" /\ job' = [job EXCEPT ![j] = new]
    BY <1>1, <1>5 DEF CreateCheck, ReprovisionCheck, JobRecord
  <2> HIDE DEF new
  <2> QED BY <1>4, <2>2, <2>3
<1>6. ASSUME NEW view \in Status, GoAwait(j, view), UNCHANGED queue, job[j].pc = "queued"
      PROVE  LocksMatchJobs'
  <2> DEFINE new == [job[j] EXCEPT !.pc = "await", !.view = view]
  <2>1. new \in JobRecord /\ new.pc = "await" /\ new.school = job[j].school
    BY <1>1 DEF JobRecord, Pc
  <2>2. job' = [job EXCEPT ![j] = new]
    BY <1>1, <1>6 DEF GoAwait, JobRecord
  <2> HIDE DEF new
  <2> QED BY <1>4, <1>6, <2>1, <2>2
<1>7. CASE BeginProvision(j) \/ BeginUpdate(j) \/ BeginRequested(j)
  <2>1. {"provisioning", "updating", job[j].view} \subseteq Status
    BY <1>1 DEF JobRecord, Status
  <2> QED BY <1>6, <1>7, <2>1 DEF BeginProvision, BeginUpdate, BeginRequested, OwnsSchool
<1>8. CASE MarkPurged(j)
  <2> DEFINE new == [job[j] EXCEPT !.view = "archived"]
  <2>1. new \in JobRecord /\ new.pc = job[j].pc /\ new.school = job[j].school
    BY <1>1 DEF JobRecord, Status
  <2>2. job' = [job EXCEPT ![j] = new] /\ UNCHANGED queue
    BY <1>1, <1>8 DEF MarkPurged, JobRecord
  <2> HIDE DEF new
  <2> QED BY <1>4, <2>1, <2>2
<1>9. CASE \/ UpdateMark(j) /\ status[job[j].school] # "gone"
           \/ MarkProvisioning(j) /\ status[job[j].school] # "gone"
  <2> DEFINE pc == IF UpdateMark(j) THEN "refresh" ELSE "marked"
             new == [job[j] EXCEPT !.pc = pc]
  <2>1. new \in JobRecord /\ new.pc = pc /\ new.school = job[j].school
    BY <1>1 DEF JobRecord, Pc
  <2>2. /\ job' = [job EXCEPT ![j] = new] /\ UNCHANGED queue
        /\ \/ job[j].pc = "admitted" /\ pc = "refresh"
           \/ job[j].pc = "mark" /\ pc = "marked"
    BY <1>1, <1>9 DEF UpdateMark, MarkProvisioning, JobRecord
  <2> HIDE DEF new
  <2> QED BY <1>4, <2>1, <2>2
<1> QED BY <1>2, <1>3, <1>5, <1>7, <1>8, <1>9

\* Nobody is in a block at the start or after a restart of the core.
LEMMA EmptyMatches ==
    ASSUME queue = [k \in LockKey |-> <<>>], job = [j \in Job |-> Idle]
    PROVE  LocksMatchJobs
<1>1. ASSUME NEW key \in LockKey
      PROVE  MatchesJobs(key)
  <2>1. DOMAIN queue[key] = {}
    <3>1. queue[key] \in Seq({}) /\ Len(queue[key]) = 0
      OBVIOUS
    <3> QED BY <3>1
  <2>2. \A i \in Job : ~Inside(job[i], key)
    BY DEF Idle, Inside
  <2> QED BY <2>1, <2>2 DEF MatchesJobs, Waiting, NoneTwice
<1> QED BY <1>1, MatchByKey

\* Every step keeps the locks and the blocks together.
LEMMA MatchStep ==
    ASSUME IInv, LocksMatchJobs, [Next]_vars
    PROVE  LocksMatchJobs'
<1>1. CASE UNCHANGED <<job, queue>>
  BY <1>1 DEF LocksMatchJobs, InBlock
<1>2. ASSUME NEW j \in Job, Request(j)
      PROVE  LocksMatchJobs'
  BY <1>2, EnterStep, StayStep DEF Request
<1>3. ASSUME NEW j \in Job, JobStep(j), ~UNCHANGED <<job, queue>>
      PROVE  LocksMatchJobs'
  <2>1. CASE CreateCheck(j) \/ ReprovisionCheck(j)
    BY <2>1, LeaveStep, StayStep
  <2>2. CASE UpdateMark(j)
    BY <2>2, StayStep
  <2>3. CASE MarkProvisioning(j)
    BY <2>3, LeaveStep, StayStep
  <2>4. CASE ScheduleUpdate(j)
    BY <2>4, EnterStep, StayStep
  <2>5. CASE ScheduleProvision(j)
    BY <2>5, LeaveStep, ScheduleStep
  <2>6. CASE EnqueueOrg(j) \/ EnqueueSchool(j)
    BY <2>6, EnterStep
  <2>7. CASE \/ BackgroundRowGone(j) \/ UpdateEndsEarly(j)
             \/ Finish(j) \/ NodeRefuses(j) \/ AnswerLost(j)
    BY <2>7, LeaveStep
  <2>8. CASE BeginProvision(j) \/ BeginUpdate(j) \/ BeginRequested(j) \/ MarkPurged(j)
    BY <2>8, StayStep
  <2>9. ~StackStep(j) /\ ~DetachedChainEnds(j)
    BY <1>3 DEF StackStep, DetachedChainEnds
  <2> QED BY <1>3, <2>1, <2>2, <2>3, <2>4, <2>5, <2>6, <2>7, <2>8, <2>9
     DEF JobStep
<1>4. CASE CoreRestart
  <2>1. queue' = [k \in LockKey |-> <<>>] /\ job' = [j \in Job |-> Idle]
    BY <1>4 DEF CoreRestart
  <2>2. (queue = [k \in LockKey |-> <<>>] /\ job = [j \in Job |-> Idle]
             => LocksMatchJobs)'
    BY EmptyMatches, PTL
  <2> QED BY <2>1, <2>2
<1> QED BY <1>1, <1>2, <1>3, <1>4 DEF Next, vars

\* With any number of schools, requests and restarts, each keyed lock is held
\* and waited for by exactly the jobs inside its block: every return, refusal
\* and exception of the handlers releases it, and no owner waits for another
\* lock (core/locks.py, schools.py).
THEOREM LocksFollowJobs == Spec => []LocksMatchJobs
<1>1. Init => LocksMatchJobs
  BY EmptyMatches DEF Init
<1>2. IInv /\ LocksMatchJobs /\ [Next]_vars => LocksMatchJobs'
  BY MatchStep
<1> QED BY <1>1, <1>2, InvariantHolds, PTL DEF Spec

=============================================================================
