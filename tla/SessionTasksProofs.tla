------------------------- MODULE SessionTasksProofs -------------------------
(* Theorems about SessionTasks, for any agents.toml, any deployment and any  *)
(* number of processes and session tasks.                                    *)
EXTENDS SessionTasks, SequenceTheorems, FiniteSetTheorems, WellFoundedInduction, TLAPS

-----------------------------------------------------------------------------
(***************************************************************************)
(* Types.  A state file, and every copy of one that a caller holds between *)
(* its load and its save, lists tasks of one parent in the order their     *)
(* uuids were drawn; a job is one of a dozen shapes of record.             *)
(***************************************************************************)
FileType == [exists : BOOLEAN, tasks : Seq(TaskType), handoff : SUBSET Ids]
PostType == [posted : SUBSET Ids, superseded : SUBSET Ids]

\* What one file is, n uuids having been drawn.
FileOK(st, p, n) ==
    /\ st \in FileType
    /\ \A i \in DOMAIN st.tasks : ParentOf(st.tasks[i].id) = p /\ st.tasks[i].id[3] <= n
    /\ \A i, j \in DOMAIN st.tasks : i < j => st.tasks[i].id[3] < st.tasks[j].id[3]
    /\ ~st.exists => st.tasks = <<>>

SpawnOps == {"delegate", "schedule"}
CountJobs == [op : SpawnOps, at : {"count"}, parent : Parents, members : Seq(Agents),
              sequential : BOOLEAN, left : SUBSET Parents, live : [Agents -> Nat]]
LoadJobs == [op : SpawnOps, at : {"load"}, parent : Parents, members : Seq(Agents),
             sequential : BOOLEAN]
SpawnSaveJobs == [op : SpawnOps, at : {"save"}, parent : Parents, ids : Seq(Ids), copy : FileType]
ProjectJobs == [op : SpawnOps \cup {"update", "refresh"}, at : {"project"}]
ReleaseJobs == [op : {"release"}, at : {"lease", "project"}, id : Ids]
RollupJobs == [op : SpawnOps \cup {"update", "refresh", "release"}, at : {"rollup"},
               seen : SUBSET Ids]
SyncJobs == [op : {"sync"}, at : {"load"}]
SaveJobs == [op : {"update", "handoff", "advance", "join"}, at : {"save"}, parent : Parents,
             copy : FileType]
ReleaseSaveJobs == [op : {"release"}, at : {"save"}, parent : Parents, id : Ids, copy : FileType]
PostJobs == [op : {"join"}, at : {"loadIndex", "saveIndex"}, parent : Parents, post : PostType]
JoinLoadJobs == [op : {"join"}, at : {"load"}, parent : Parents, live : SUBSET Ids]
Jobs == {Idle} \cup CountJobs \cup LoadJobs \cup SpawnSaveJobs \cup ProjectJobs \cup ReleaseJobs
        \cup RollupJobs \cup SyncJobs \cup SaveJobs \cup ReleaseSaveJobs \cup PostJobs
        \cup JoinLoadJobs

FilesInv ==
    /\ states \in [Parents -> FileType]
    /\ \A p \in Parents : FileOK(states[p], p, drawn)
    /\ doc \in Seq(TaskType) /\ FileOK([exists |-> TRUE, tasks |-> doc, handoff |-> {}], TuiTask, drawn)
SharedInv ==
    /\ index \in [Parents -> PostType]
    /\ leases \subseteq Ids /\ todos \subseteq Ids
    /\ setup \in Setups /\ drawn \in 0 .. setup.tasks
JobsInv ==
    /\ job \in [Procs -> Jobs]
    /\ \A c \in Procs : job[c].at = "save" => FileOK(job[c].copy, job[c].parent, drawn)
    /\ \A c \in Procs : job[c].op \in SpawnOps /\ job[c].at \in {"count", "load"}
                          => drawn + Len(job[c].members) <= setup.tasks
\* Only the caller that holds the delegate lock delegates or schedules.
LockInv ==
    /\ lock \in Delegators \cup {None}
    /\ \A c \in Procs : job[c].op \in SpawnOps <=> lock = c
TypeInv == FilesInv /\ SharedInv /\ JobsInv /\ LockInv

\* The stage of a job tells its shape.
LEMMA JobShapes ==
    ASSUME NEW j \in Jobs
    PROVE  /\ j.at = "count" => j \in CountJobs
           /\ j.at = "load" /\ j.op \in SpawnOps => j \in LoadJobs
           /\ j.at = "load" /\ j.op = "join" => j \in JoinLoadJobs
           /\ j.at = "save" /\ j.op \in SpawnOps => j \in SpawnSaveJobs
           /\ j.at = "save" /\ j.op = "release" => j \in ReleaseSaveJobs
           /\ j.at = "save" /\ j.op \in {"update", "handoff", "advance", "join"} => j \in SaveJobs
           /\ j.at = "project" => j \in ProjectJobs \cup ReleaseJobs
           /\ j.at = "lease" => j \in ReleaseJobs
           /\ j.at = "rollup" => j \in RollupJobs
           /\ j.at \in {"loadIndex", "saveIndex"} => j \in PostJobs
<1>. USE DEF Jobs, Idle, CountJobs, LoadJobs, SpawnSaveJobs, ProjectJobs, ReleaseJobs, RollupJobs,
             SyncJobs, SaveJobs, ReleaseSaveJobs, PostJobs, JoinLoadJobs, SpawnOps
<1>1. j.at = "count" => j \in CountJobs
  OBVIOUS
<1>2. j.at = "load" /\ j.op \in SpawnOps => j \in LoadJobs
  OBVIOUS
<1>3. j.at = "load" /\ j.op = "join" => j \in JoinLoadJobs
  OBVIOUS
<1>4. j.at = "save" /\ j.op \in SpawnOps => j \in SpawnSaveJobs
  OBVIOUS
<1>5. j.at = "save" /\ j.op = "release" => j \in ReleaseSaveJobs
  OBVIOUS
<1>6. j.at = "save" /\ j.op \in {"update", "handoff", "advance", "join"} => j \in SaveJobs
  OBVIOUS
<1>7. j.at = "project" => j \in ProjectJobs \cup ReleaseJobs
  OBVIOUS
<1>8. j.at = "lease" => j \in ReleaseJobs
  OBVIOUS
<1>9. j.at = "rollup" => j \in RollupJobs
  OBVIOUS
<1>10. j.at \in {"loadIndex", "saveIndex"} => j \in PostJobs
  OBVIOUS
<1>. QED  BY <1>1, <1>2, <1>3, <1>4, <1>5, <1>6, <1>7, <1>8, <1>9, <1>10

\* A sequence over 1 .. n is a sequence of length n.
LEMMA MapSeq ==
    ASSUME NEW S, NEW n \in Nat, NEW f \in [1 .. n -> S]
    PROVE  f \in Seq(S) /\ Len(f) = n
<1>1. f \in Seq(S)
  BY SeqDef
<1>2. DOMAIN f = 1 .. n /\ DOMAIN f = 1 .. Len(f) /\ Len(f) \in Nat
  BY <1>1
<1>. QED  BY <1>1, <1>2

\* The deployments and the ids.
LEMMA SetupFacts ==
    ASSUME setup \in Setups
    PROVE  /\ setup.parents \subseteq Parents /\ setup.delegators \subseteq Delegators
           /\ setup.callers \subseteq Callers /\ setup.statuses \subseteq AllStatuses
           /\ setup.tasks \in 0 .. MaxTasks /\ MaxTasks \in Nat /\ setup.tasks \in Nat
           /\ None \notin Procs /\ TuiTask \in Parents
<1>1. /\ setup.parents \subseteq Parents /\ setup.delegators \subseteq Delegators
      /\ setup.callers \subseteq Callers /\ setup.statuses \subseteq AllStatuses
      /\ setup.tasks \in 0 .. MaxTasks
  BY CallerAssumption
<1>2. MaxTasks \in Nat /\ None \notin Procs /\ TuiTask \in Parents
  BY CallerAssumption DEF Procs
<1>. QED  BY <1>1, <1>2

-----------------------------------------------------------------------------
(* Operations on files *)

\* The parts of an id.
LEMMA IdParts ==
    ASSUME NEW id \in Ids
    PROVE  id[1] \in Parents /\ id[2] \in Agents /\ id[3] \in Nat /\ id[3] \in 1 .. MaxTasks
BY CallerAssumption DEF Ids

\* The tasks of a file.
LEMMA FileTasks ==
    ASSUME NEW st, NEW p, NEW n, FileOK(st, p, n)
    PROVE  /\ st.tasks \in Seq(TaskType) /\ Len(st.tasks) \in Nat
           /\ DOMAIN st.tasks = 1 .. Len(st.tasks)
           /\ \A i \in DOMAIN st.tasks : /\ st.tasks[i] \in TaskType /\ st.tasks[i].id \in Ids
                                         /\ st.tasks[i].id[3] \in Nat
           /\ \A t \in TaskSet(st) : t \in TaskType /\ t.id \in Ids
<1>1. st.tasks \in Seq(TaskType)
  BY DEF FileOK, FileType
<1>2. \A i \in DOMAIN st.tasks : st.tasks[i] \in TaskType
  BY <1>1
<1>3. \A t \in TaskType : t.id \in Ids
  BY DEF TaskType
<1>. QED  BY <1>1, <1>2, <1>3, IdParts DEF TaskSet

\* A file stays in order when more uuids are drawn.
LEMMA LaterFile ==
    ASSUME NEW st, NEW p, NEW n \in Nat, NEW m \in Nat, n <= m, FileOK(st, p, n)
    PROVE  FileOK(st, p, m)
<1>1. \A i \in DOMAIN st.tasks : st.tasks[i].id[3] \in Nat
  BY FileTasks
<1>. QED  BY <1>1 DEF FileOK

\* A change of status or summary keeps a file in order.
LEMMA ChangedFile ==
    ASSUME NEW st, NEW p, NEW n, FileOK(st, p, n),
           NEW f \in [DOMAIN st.tasks -> TaskType],
           \A i \in DOMAIN st.tasks : f[i].id = st.tasks[i].id
    PROVE  FileOK([st EXCEPT !.tasks = f], p, n)
<1>1. st \in FileType /\ Len(st.tasks) \in Nat /\ DOMAIN st.tasks = 1 .. Len(st.tasks)
  BY DEF FileOK, FileType
<1>2. f \in Seq(TaskType) /\ Len(f) = Len(st.tasks)
  BY <1>1, MapSeq
<1>3. [st EXCEPT !.tasks = f] \in FileType
  BY <1>1, <1>2 DEF FileType
<1>4. [st EXCEPT !.tasks = f].tasks = f /\ [st EXCEPT !.tasks = f].exists = st.exists
  BY <1>1 DEF FileType
<1>5. st.tasks = <<>> => f = <<>>
  <2>1. \A r \in Seq(TaskType) : r # <<>> => Len(r) # 0
    BY EmptySeq
  <2>. QED  BY <1>2, <2>1
<1>6. DOMAIN f = DOMAIN st.tasks
  OBVIOUS
<1>. HIDE DEF FileType
<1>. QED  BY <1>3, <1>4, <1>5, <1>6 DEF FileOK

\* transition_to and set_handoff_summary.
LEMMA StatusFile ==
    ASSUME NEW st, NEW p, NEW n, FileOK(st, p, n), NEW id, NEW s \in AllStatuses
    PROVE  FileOK(WithStatus(st, id, s), p, n) /\ FileOK(WithSummary(st, id), p, n)
<1>1. st \in FileType /\ \A i \in DOMAIN st.tasks : st.tasks[i] \in TaskType
  BY DEF FileOK, FileType
<1>. DEFINE f == [i \in DOMAIN st.tasks |->
                    IF st.tasks[i].id = id THEN [st.tasks[i] EXCEPT !.status = s] ELSE st.tasks[i]]
            g == [i \in DOMAIN st.tasks |->
                    IF st.tasks[i].id = id THEN [st.tasks[i] EXCEPT !.summary = TRUE]
                    ELSE st.tasks[i]]
<1>2. \A t \in TaskType : /\ [t EXCEPT !.status = s] \in TaskType
                          /\ [t EXCEPT !.status = s].id = t.id
                          /\ [t EXCEPT !.summary = TRUE] \in TaskType
                          /\ [t EXCEPT !.summary = TRUE].id = t.id
  BY DEF TaskType
<1>3. f \in [DOMAIN st.tasks -> TaskType] /\ \A i \in DOMAIN st.tasks : f[i].id = st.tasks[i].id
  BY <1>1, <1>2
<1>4. g \in [DOMAIN st.tasks -> TaskType] /\ \A i \in DOMAIN st.tasks : g[i].id = st.tasks[i].id
  BY <1>1, <1>2
<1>5. WithStatus(st, id, s) = [st EXCEPT !.tasks = f]
  BY DEF WithStatus
<1>6. WithSummary(st, id) = [st EXCEPT !.tasks = g]
  BY DEF WithSummary
<1>. HIDE DEF f, g
<1>. QED  BY <1>3, <1>4, <1>5, <1>6, ChangedFile

\* add_session_task: what the file lists afterwards, in order.
LEMMA AddedFile ==
    ASSUME NEW p \in Parents, NEW n \in Nat, NEW m \in Nat, NEW st, FileOK(st, p, n), st.exists,
           NEW ids \in Seq(Ids), m = n + Len(ids), NEW sequential,
           \A i \in DOMAIN ids : ParentOf(ids[i]) = p /\ ids[i][3] = n + i
    PROVE  /\ FileOK(Added(st, ids, sequential), p, m)
           /\ Len(Added(st, ids, sequential).tasks) = Len(st.tasks) + Len(ids)
           /\ \A i \in 1 .. Len(st.tasks) : Added(st, ids, sequential).tasks[i] = st.tasks[i]
           /\ \A i \in 1 .. Len(ids) :
                 Added(st, ids, sequential).tasks[Len(st.tasks) + i] = NewTask(st, ids[i], sequential)
<1>. DEFINE new == [i \in DOMAIN ids |-> NewTask(st, ids[i], sequential)]
            copy == Added(st, ids, sequential)
<1>1. /\ st \in FileType /\ st.tasks \in Seq(TaskType) /\ Len(st.tasks) \in Nat
      /\ Len(ids) \in Nat /\ DOMAIN ids = 1 .. Len(ids) /\ DOMAIN st.tasks = 1 .. Len(st.tasks)
  BY DEF FileOK, FileType
<1>2. \A i \in DOMAIN ids : NewTask(st, ids[i], sequential) \in TaskType
                            /\ NewTask(st, ids[i], sequential).id = ids[i]
  <2>1. \A t \in TaskSet(st) : t.id \in Ids
    BY FileTasks
  <2>2. ASSUME NEW i \in DOMAIN ids
        PROVE  {t.id : t \in {u \in TaskSet(st) : sequential \/ AgentOf(u.id) = AgentOf(ids[i])}}
                  \in SUBSET Ids
    BY <2>1
  <2>3. \A i \in DOMAIN ids : ids[i] \in Ids
    OBVIOUS
  <2>. QED  BY <2>2, <2>3 DEF NewTask, TaskType, AllStatuses, LiveStatuses
<1>3. new \in Seq(TaskType) /\ Len(new) = Len(ids)
  <2>1. new \in [1 .. Len(ids) -> TaskType]
    BY <1>1, <1>2
  <2>. HIDE DEF new
  <2>. QED  BY <1>1, <2>1, MapSeq
<1>4. \A i \in 1 .. Len(ids) : new[i] = NewTask(st, ids[i], sequential)
  BY <1>1
<1>. HIDE DEF new
<1>5. copy = [st EXCEPT !.tasks = st.tasks \o new]
  BY DEF Added, new
<1>6. /\ copy.tasks = st.tasks \o new /\ copy.exists = st.exists
      /\ copy.tasks \in Seq(TaskType) => copy \in FileType
  BY <1>1, <1>5 DEF FileType
<1>. HIDE DEF copy
<1>. DEFINE all == copy.tasks
<1>7. /\ all \in Seq(TaskType) /\ Len(all) = Len(st.tasks) + Len(ids)
      /\ \A i \in 1 .. Len(st.tasks) : all[i] = st.tasks[i]
      /\ \A i \in 1 .. Len(ids) : all[Len(st.tasks) + i] = new[i]
  <2>1. all = st.tasks \o new /\ st.tasks \in Seq(TaskType) /\ new \in Seq(TaskType)
    BY <1>1, <1>3, <1>6
  <2>. HIDE DEF all
  <2>2. /\ all \in Seq(TaskType) /\ Len(all) = Len(st.tasks) + Len(new)
        /\ \A i \in 1 .. Len(st.tasks) : all[i] = st.tasks[i]
        /\ \A i \in 1 .. Len(new) : all[Len(st.tasks) + i] = new[i]
    BY <2>1
  <2>. QED  BY <1>3, <2>1, <2>2
<1>8. \A i \in 1 .. Len(st.tasks) : copy.tasks[i] = st.tasks[i]
  BY <1>7
<1>9. \A i \in 1 .. Len(ids) : copy.tasks[Len(st.tasks) + i] = NewTask(st, ids[i], sequential)
  BY <1>4, <1>7
<1>10. DOMAIN copy.tasks = 1 .. Len(st.tasks) + Len(ids) /\ Len(copy.tasks) = Len(st.tasks) + Len(ids)
  BY <1>1, <1>7
<1>11. \A k \in DOMAIN copy.tasks :
          \/ k \in 1 .. Len(st.tasks) /\ copy.tasks[k] = st.tasks[k]
          \/ \E i \in 1 .. Len(ids) : k = Len(st.tasks) + i /\ copy.tasks[k].id = ids[i]
  <2>. SUFFICES ASSUME NEW k \in DOMAIN copy.tasks, ~(k \in 1 .. Len(st.tasks))
                PROVE  \E i \in 1 .. Len(ids) : k = Len(st.tasks) + i /\ copy.tasks[k].id = ids[i]
    BY <1>8
  <2>1. k - Len(st.tasks) \in 1 .. Len(ids) /\ k = Len(st.tasks) + (k - Len(st.tasks))
    BY <1>1, <1>10
  <2>. QED  BY <1>1, <1>2, <1>9, <2>1
<1>12. \A i \in 1 .. Len(st.tasks) : /\ st.tasks[i].id[3] \in Nat /\ st.tasks[i].id[3] <= n
                                     /\ ParentOf(st.tasks[i].id) = p
  BY <1>1, FileTasks DEF FileOK
<1>13. \A k \in DOMAIN copy.tasks : ParentOf(copy.tasks[k].id) = p /\ copy.tasks[k].id[3] <= m
  BY <1>1, <1>11, <1>12
<1>14. ASSUME NEW k \in DOMAIN copy.tasks, NEW l \in DOMAIN copy.tasks, k < l
       PROVE  copy.tasks[k].id[3] < copy.tasks[l].id[3]
  <2>1. CASE l \in 1 .. Len(st.tasks)
    <3>1. k \in 1 .. Len(st.tasks)
      BY <1>1, <1>10, <1>14, <2>1
    <3>. QED  BY <1>1, <1>8, <1>14, <2>1, <3>1 DEF FileOK
  <2>2. CASE l \notin 1 .. Len(st.tasks)
    <3>1. PICK i \in 1 .. Len(ids) : l = Len(st.tasks) + i /\ copy.tasks[l].id[3] = n + i
      BY <1>1, <1>11, <2>2
    <3>2. CASE k \in 1 .. Len(st.tasks)
      <4>1. /\ copy.tasks[k].id[3] = st.tasks[k].id[3]
            /\ st.tasks[k].id[3] \in Nat /\ st.tasks[k].id[3] <= n
        BY <1>8, <1>12, <3>2
      <4>. QED  BY <3>1, <4>1
    <3>3. CASE k \notin 1 .. Len(st.tasks)
      <4>1. PICK j \in 1 .. Len(ids) : k = Len(st.tasks) + j /\ copy.tasks[k].id[3] = n + j
        BY <1>1, <1>11, <3>3
      <4>. QED  BY <1>1, <1>14, <3>1, <4>1
    <3>. QED  BY <3>2, <3>3
  <2>. QED  BY <2>1, <2>2
<1>15. FileOK(copy, p, m)
  BY <1>6, <1>7, <1>13, <1>14 DEF FileOK
<1>. QED  BY <1>8, <1>9, <1>10, <1>15 DEF copy

\* The live tasks of a file are finitely many.
LEMMA FiniteTasks ==
    ASSUME NEW st, NEW p, NEW n, FileOK(st, p, n)
    PROVE  IsFiniteSet(TaskSet(st))
<1>1. Len(st.tasks) \in Nat /\ DOMAIN st.tasks = 1 .. Len(st.tasks) /\ st.tasks \in Seq(TaskType)
  BY FileTasks
<1>2. IsFiniteSet(1 .. Len(st.tasks))
  BY <1>1, FS_Interval
<1>3. st.tasks \in Surjection(1 .. Len(st.tasks), TaskSet(st))
  <2>1. st.tasks \in [1 .. Len(st.tasks) -> TaskSet(st)]
    BY <1>1 DEF TaskSet
  <2>2. \A t \in TaskSet(st) : \E i \in 1 .. Len(st.tasks) : st.tasks[i] = t
    BY <1>1 DEF TaskSet
  <2>. QED  BY <2>1, <2>2 DEF Surjection
<1>. QED  BY <1>2, <1>3, FS_Surjection

\* live_session_task_counts_from counts.
LEMMA CountsAreNumbers ==
    ASSUME FilesInv, NEW p \in Parents, NEW a
    PROVE  LiveIn(p, a) \in Nat
<1>1. IsFiniteSet(TaskSet(states[p]))
  BY FiniteTasks DEF FilesInv
<1>2. IsFiniteSet({t \in TaskSet(states[p]) : Live(t) /\ AgentOf(t.id) = a})
  BY <1>1, FS_Subset
<1>. QED  BY <1>2, FS_CardinalityType DEF LiveIn

\* One caller goes on to the job j.
LEMMA JobStep ==
    ASSUME TypeInv, NEW c \in Procs, NEW j \in Jobs, job' = [job EXCEPT ![c] = j],
           setup' = setup, drawn' \in Nat, drawn <= drawn',
           j.at = "save" => FileOK(j.copy, j.parent, drawn'),
           j.op \in SpawnOps /\ j.at \in {"count", "load"}
              => drawn' + Len(j.members) <= setup.tasks,
           \A d \in Procs : d # c /\ job[d].op \in SpawnOps /\ job[d].at \in {"count", "load"}
              => drawn' + Len(job[d].members) <= setup.tasks
    PROVE  JobsInv'
<1>1. job \in [Procs -> Jobs] /\ drawn \in Nat
  BY SetupFacts DEF TypeInv, JobsInv, SharedInv
<1>2. job' \in [Procs -> Jobs] /\ job'[c] = j /\ \A d \in Procs : d # c => job'[d] = job[d]
  BY <1>1
<1>3. ASSUME NEW d \in Procs, job'[d].at = "save"
      PROVE  FileOK(job'[d].copy, job'[d].parent, drawn')
  <2>1. CASE d = c
    BY <1>2, <1>3, <2>1
  <2>2. CASE d # c
    <3>1. FileOK(job[d].copy, job[d].parent, drawn)
      BY <1>2, <1>3, <2>2 DEF TypeInv, JobsInv
    <3>. QED  BY <1>1, <1>2, <2>2, <3>1, LaterFile
  <2>. QED  BY <2>1, <2>2
<1>4. ASSUME NEW d \in Procs, job'[d].op \in SpawnOps, job'[d].at \in {"count", "load"}
      PROVE  drawn' + Len(job'[d].members) <= setup'.tasks
  BY <1>2, <1>4
<1>. QED  BY <1>2, <1>3, <1>4 DEF JobsInv

\* The same while no uuid is drawn.
LEMMA QuietJobStep ==
    ASSUME TypeInv, NEW c \in Procs, NEW j \in Jobs, job' = [job EXCEPT ![c] = j],
           UNCHANGED <<setup, drawn>>,
           j.at = "save" => FileOK(j.copy, j.parent, drawn),
           j.op \in SpawnOps /\ j.at \in {"count", "load"}
              => drawn + Len(j.members) <= setup.tasks
    PROVE  JobsInv'
<1>1. drawn \in Nat
  BY SetupFacts DEF TypeInv, SharedInv
<1>2. \A d \in Procs : d # c /\ job[d].op \in SpawnOps /\ job[d].at \in {"count", "load"}
              => drawn' + Len(job[d].members) <= setup.tasks
  BY DEF TypeInv, JobsInv
<1>3. /\ drawn' \in Nat /\ drawn <= drawn' /\ setup' = setup
      /\ j.at = "save" => FileOK(j.copy, j.parent, drawn')
      /\ j.op \in SpawnOps /\ j.at \in {"count", "load"}
            => drawn' + Len(j.members) <= setup.tasks
  BY <1>1
<1>. QED  BY <1>2, <1>3, JobStep

\* The lock and the jobs go together.
LEMMA LockStep ==
    ASSUME TypeInv, NEW c \in Procs, NEW j, job' = [job EXCEPT ![c] = j],
           lock' \in Delegators \cup {None},
           j.op \in SpawnOps <=> lock' = c,
           \A d \in Procs : d # c => (lock' = d <=> lock = d)
    PROVE  LockInv'
<1>1. job \in [Procs -> Jobs]
  BY DEF TypeInv, JobsInv
<1>2. job'[c] = j /\ \A d \in Procs : d # c => job'[d] = job[d]
  BY <1>1
<1>. QED  BY <1>2 DEF LockInv, TypeInv

\* An operation ends, and gives the lock back if it has it.
LEMMA EndStep ==
    ASSUME TypeInv, NEW c \in Procs, job' = [job EXCEPT ![c] = Idle],
           lock' = IF lock = c THEN None ELSE lock,
           setup' = setup, drawn' \in Nat, drawn <= drawn', drawn' <= setup.tasks,
           drawn' = drawn \/ job[c].op \in SpawnOps
    PROVE  JobsInv' /\ LockInv'
<1>1. Idle \in Jobs /\ Idle.op = "none" /\ Idle.at = "idle" /\ None \notin Procs
  BY SetupFacts DEF Jobs, Idle, TypeInv, SharedInv
<1>2. JobsInv'
  <2>1. \A d \in Procs : d # c /\ job[d].op \in SpawnOps /\ job[d].at \in {"count", "load"}
              => drawn' + Len(job[d].members) <= setup.tasks
    BY DEF TypeInv, JobsInv, LockInv
  <2>. QED  BY <1>1, <2>1, JobStep DEF SpawnOps
<1>3. LockInv'
  <2>1. lock' \in Delegators \cup {None} /\ lock' # c
        /\ \A d \in Procs : d # c => (lock' = d <=> lock = d)
    BY <1>1 DEF TypeInv, LockInv
  <2>. QED  BY <1>1, <2>1, LockStep DEF SpawnOps
<1>. QED  BY <1>2, <1>3

\* A step that writes no file.
LEMMA QuietFiles ==
    ASSUME TypeInv, UNCHANGED <<states, doc>>, drawn' \in Nat, drawn <= drawn'
    PROVE  FilesInv'
<1>1. drawn \in Nat
  BY SetupFacts DEF TypeInv, SharedInv
<1>. QED  BY <1>1, LaterFile DEF TypeInv, FilesInv

\* A save puts a caller's copy in place of its parent's file.
LEMMA WriteFiles ==
    ASSUME TypeInv, NEW c \in Procs, Write(c), job[c].at = "save",
           job[c].op \in SpawnOps \cup {"update", "release", "handoff", "advance", "join"},
           UNCHANGED <<doc, drawn>>
    PROVE  /\ FilesInv' /\ job[c].parent \in Parents
           /\ states' = [states EXCEPT ![job[c].parent] = job[c].copy]
<1>1. job[c].parent \in Parents /\ job[c].copy \in FileType
  <2>1. job[c] \in SpawnSaveJobs \cup ReleaseSaveJobs \cup SaveJobs
    BY JobShapes DEF TypeInv, JobsInv
  <2>. QED  BY <2>1 DEF SpawnSaveJobs, ReleaseSaveJobs, SaveJobs
<1>2. FileOK(job[c].copy, job[c].parent, drawn)
  BY DEF TypeInv, JobsInv
<1>. QED  BY <1>1, <1>2 DEF Write, TypeInv, FilesInv

\* The start.
LEMMA InitTypes == Init => TypeInv
<1>. SUFFICES ASSUME Init PROVE TypeInv
  OBVIOUS
<1>0. setup \in Setups /\ None \notin Procs /\ setup.tasks \in Nat
  BY SetupFacts DEF Init
<1>1. \A p \in Parents : /\ states[p] = [exists |-> FALSE, tasks |-> <<>>, handoff |-> {}]
                         /\ states[p] \in FileType
  <2>1. \A p \in Parents : states[p] = [exists |-> FALSE, tasks |-> <<>>, handoff |-> {}]
    BY DEF Init, NewState
  <2>2. [exists |-> FALSE, tasks |-> <<>>, handoff |-> {}] \in FileType
    BY DEF FileType
  <2>. QED  BY <2>1, <2>2
<1>2. FilesInv
  <2>1. states \in [Parents -> FileType]
    BY <1>1 DEF Init
  <2>2. \A p, n, b : FileOK([exists |-> b, tasks |-> <<>>, handoff |-> {}], p, n)
                       <=> [exists |-> b, tasks |-> <<>>, handoff |-> {}] \in FileType
    BY DEF FileOK
  <2>3. doc = <<>> /\ doc \in Seq(TaskType)
    BY DEF Init
  <2>4. [exists |-> TRUE, tasks |-> <<>>, handoff |-> {}] \in FileType
    BY DEF FileType
  <2>. QED  BY <1>1, <2>1, <2>2, <2>3, <2>4 DEF FilesInv
<1>3. SharedInv
  BY <1>0 DEF Init, SharedInv, PostType
<1>4. \A c \in Procs : job[c] = Idle /\ Idle \in Jobs /\ Idle.op = "none" /\ Idle.at = "idle"
  BY DEF Init, Idle, Jobs
<1>5. JobsInv
  <2>1. job \in [Procs -> Jobs]
    BY <1>4 DEF Init
  <2>. QED  BY <1>4, <2>1 DEF JobsInv, SpawnOps
<1>6. LockInv
  BY <1>0, <1>4 DEF Init, LockInv, SpawnOps
<1>. QED  BY <1>2, <1>3, <1>5, <1>6 DEF TypeInv

-----------------------------------------------------------------------------
(* Every step keeps the types *)

\* with_delegate_lock: the caller takes the lock and begins to count.
LEMMA SpawnTypes ==
    ASSUME TypeInv, NEW c \in Delegators, NEW op \in SpawnOps, NEW p \in Parents,
           NEW members \in Seq(Agents), NEW sequential \in BOOLEAN,
           Spawn(c, op, p, members, sequential)
    PROVE  TypeInv'
<1>0. PICK missed \in Overlooked :
        job' = [job EXCEPT ![c] = [op |-> op, at |-> "count", parent |-> p, members |-> members,
                                   sequential |-> sequential, left |-> setup.parents \ missed,
                                   live |-> [a \in Agents |-> 0]]]
  BY DEF Spawn, Counting, Become
<1>. DEFINE left == setup.parents \ missed
            j == [op |-> op, at |-> "count", parent |-> p, members |-> members,
                  sequential |-> sequential, left |-> left, live |-> [a \in Agents |-> 0]]
<1>1. /\ job[c] = Idle /\ lock = None /\ drawn + Len(members) <= setup.tasks
      /\ lock' = c /\ job' = [job EXCEPT ![c] = j]
      /\ UNCHANGED <<states, leases, index, todos, drawn, doc, setup>>
  BY <1>0 DEF Spawn
<1>2. c \in Procs /\ left \in SUBSET Parents /\ drawn \in Nat /\ None \notin Procs
  BY SetupFacts DEF Procs, TypeInv, SharedInv
<1>3. j \in Jobs /\ j.op = op /\ j.at = "count" /\ j.members = members
  <2>1. [a \in Agents |-> 0] \in [Agents -> Nat]
    OBVIOUS
  <2>2. j \in CountJobs
    BY <1>2, <2>1 DEF CountJobs
  <2>. QED  BY <2>2 DEF Jobs
<1>. HIDE DEF j
<1>4. JobsInv'
  BY <1>1, <1>2, <1>3, QuietJobStep
<1>5. LockInv'
  BY <1>1, <1>2, <1>3, LockStep
<1>6. FilesInv' /\ SharedInv'
  BY <1>1, <1>2, QuietFiles DEF TypeInv, SharedInv
<1>. QED  BY <1>4, <1>5, <1>6 DEF TypeInv

\* A caller goes from one stage of its operation to the next.
LEMMA StageTypes ==
    ASSUME TypeInv, NEW c \in Procs, NEW j \in Jobs, job' = [job EXCEPT ![c] = j],
           job[c].op \in SpawnOps <=> j.op \in SpawnOps,
           UNCHANGED <<states, lock, drawn, doc, setup>>, SharedInv',
           j.at = "save" => FileOK(j.copy, j.parent, drawn),
           j.op \in SpawnOps /\ j.at \in {"count", "load"} => drawn + Len(j.members) <= setup.tasks
    PROVE  TypeInv'
<1>1. drawn \in Nat
  BY SetupFacts DEF TypeInv, SharedInv
<1>2. drawn' \in Nat /\ drawn <= drawn' /\ UNCHANGED <<states, doc>> /\ UNCHANGED <<setup, drawn>>
  BY <1>1
<1>4. JobsInv'
  BY <1>2, QuietJobStep
<1>5. FilesInv'
  BY <1>2, QuietFiles
<1>3. LockInv'
  BY LockStep DEF TypeInv, LockInv
<1>. QED  BY <1>3, <1>4, <1>5 DEF TypeInv

\* Nothing shared changes.
LEMMA QuietShared ==
    ASSUME TypeInv, UNCHANGED <<leases, index, todos, drawn, setup>> PROVE SharedInv'
BY DEF TypeInv, SharedInv

\* An operation ends early, or is over, and changes nothing more.
LEMMA GiveUpTypes ==
    ASSUME TypeInv, NEW c \in Procs, GiveUp(c),
           UNCHANGED <<states, drawn, doc, setup>>, SharedInv'
    PROVE  TypeInv'
<1>1. drawn \in Nat /\ drawn <= setup.tasks
  BY SetupFacts DEF TypeInv, SharedInv
<1>2. /\ job' = [job EXCEPT ![c] = Idle] /\ lock' = IF lock = c THEN None ELSE lock
      /\ setup' = setup /\ drawn' = drawn /\ UNCHANGED <<states, doc>>
  BY DEF GiveUp, Finish, Become, Unlock
<1>3. drawn' \in Nat /\ drawn <= drawn' /\ drawn' <= setup.tasks
  BY <1>1, <1>2
<1>4. JobsInv' /\ LockInv'
  BY <1>2, <1>3, EndStep
<1>5. FilesInv'
  BY <1>2, <1>3, QuietFiles
<1>. QED  BY <1>4, <1>5 DEF TypeInv

\* Counting one file.
LEMMA CountFileTypes ==
    ASSUME TypeInv, NEW c \in Procs, NEW p \in Parents, CountFile(c, p) PROVE TypeInv'
<1>. DEFINE live == [a \in Agents |-> job[c].live[a] + LiveIn(p, a)]
            j == [job[c] EXCEPT !.left = job[c].left \ {p}, !.live = live]
<1>1. /\ job[c].at = "count" /\ job' = [job EXCEPT ![c] = j]
      /\ UNCHANGED <<states, leases, index, todos, lock, drawn, doc, setup>>
  BY DEF CountFile, Become
<1>2. job[c] \in CountJobs
  BY <1>1, JobShapes DEF TypeInv, JobsInv
<1>3. live \in [Agents -> Nat]
  <2>1. \A a \in Agents : LiveIn(p, a) \in Nat
    BY CountsAreNumbers DEF TypeInv
  <2>2. job[c].live \in [Agents -> Nat]
    BY <1>2 DEF CountJobs
  <2>. QED  BY <2>1, <2>2
<1>. HIDE DEF live
<1>4. j \in CountJobs /\ j.op = job[c].op /\ j.at = "count" /\ j.members = job[c].members
  BY <1>2, <1>3 DEF CountJobs
<1>5. j \in Jobs /\ job[c].op \in SpawnOps
  BY <1>2, <1>4 DEF Jobs, CountJobs
<1>6. drawn + Len(j.members) <= setup.tasks
  BY <1>1, <1>4, <1>5 DEF TypeInv, JobsInv
<1>. HIDE DEF j
<1>. QED  BY <1>1, <1>4, <1>5, <1>6, StageTypes, QuietShared

\* The limit is checked: the operation ends or goes on.
LEMMA CheckLimitTypes ==
    ASSUME TypeInv, NEW c \in Procs, CheckLimit(c) PROVE TypeInv'
<1>1. /\ job[c].at = "count" /\ UNCHANGED <<states, leases, index, todos, drawn, doc, setup>>
      /\ drawn \in Nat /\ drawn <= setup.tasks
  BY SetupFacts DEF CheckLimit, TypeInv, SharedInv
<1>2. job[c] \in CountJobs
  BY <1>1, JobShapes DEF TypeInv, JobsInv
<1>. DEFINE j == [op |-> job[c].op, at |-> "load", parent |-> job[c].parent,
                  members |-> job[c].members, sequential |-> job[c].sequential]
<1>3. CASE GiveUp(c)
  BY <1>1, <1>3, GiveUpTypes, QuietShared
<1>4. CASE job' = [job EXCEPT ![c] = j] /\ lock' = lock
  <2>1. j \in LoadJobs /\ j.op = job[c].op /\ j.op \in SpawnOps /\ j.at = "load"
        /\ j.members = job[c].members
    BY <1>2 DEF CountJobs, LoadJobs
  <2>2. drawn + Len(j.members) <= setup.tasks
    BY <1>1, <2>1 DEF TypeInv, JobsInv
  <2>3. j \in Jobs
    BY <2>1 DEF Jobs
  <2>. HIDE DEF j
  <2>. QED  BY <1>1, <1>4, <2>1, <2>2, <2>3, StageTypes, QuietShared
<1>. QED  BY <1>3, <1>4 DEF CheckLimit, Become

\* The ids a delegate or a schedule draws.
LEMMA NewIdsTypes ==
    ASSUME TypeInv, NEW c \in Procs, job[c] \in LoadJobs
    PROVE  /\ NewIds(c) \in Seq(Ids) /\ Len(NewIds(c)) = Len(job[c].members)
           /\ DOMAIN NewIds(c) = 1 .. Len(job[c].members)
           /\ Len(job[c].members) \in Nat /\ drawn + Len(job[c].members) <= setup.tasks
           /\ \A i \in DOMAIN NewIds(c) :
                 /\ NewIds(c)[i] = <<job[c].parent, job[c].members[i], drawn + i>>
                 /\ ParentOf(NewIds(c)[i]) = job[c].parent /\ NewIds(c)[i][3] = drawn + i
<1>1. /\ job[c].parent \in Parents /\ job[c].members \in Seq(Agents) /\ Len(job[c].members) \in Nat
      /\ DOMAIN job[c].members = 1 .. Len(job[c].members)
      /\ job[c].op \in SpawnOps /\ job[c].at = "load"
  BY DEF LoadJobs
<1>2. /\ drawn + Len(job[c].members) <= setup.tasks /\ drawn \in Nat
      /\ setup.tasks <= MaxTasks /\ setup.tasks \in Nat /\ MaxTasks \in Nat
  BY <1>1, SetupFacts DEF TypeInv, JobsInv, SharedInv
<1>3. \A i \in 1 .. Len(job[c].members) :
         <<job[c].parent, job[c].members[i], drawn + i>> \in Ids
  <2>1. \A i \in 1 .. Len(job[c].members) : drawn + i \in 1 .. MaxTasks
    BY <1>1, <1>2
  <2>2. \A i \in 1 .. Len(job[c].members) : job[c].members[i] \in Agents
    BY <1>1
  <2>. QED  BY <1>1, <2>1, <2>2 DEF Ids
<1>4. NewIds(c) \in [1 .. Len(job[c].members) -> Ids]
  BY <1>1, <1>3 DEF NewIds
<1>5. NewIds(c) \in Seq(Ids) /\ Len(NewIds(c)) = Len(job[c].members)
  BY <1>1, <1>4, MapSeq
<1>6. \A i \in DOMAIN NewIds(c) : NewIds(c)[i] = <<job[c].parent, job[c].members[i], drawn + i>>
  BY DEF NewIds
<1>7. \A i \in DOMAIN NewIds(c) : ParentOf(NewIds(c)[i]) = job[c].parent
                                  /\ NewIds(c)[i][3] = drawn + i
  BY <1>6 DEF ParentOf
<1>. QED  BY <1>1, <1>2, <1>4, <1>5, <1>6, <1>7

\* Leases are of the ids they are made for.
LEMMA LeaseIds == ASSUME NEW ids, NEW S, \A i \in DOMAIN ids : ids[i] \in S PROVE NeedsLease(ids) \subseteq S
BY DEF NeedsLease

\* The changed copy, and what is in it.
LEMMA PrepareTypes ==
    ASSUME TypeInv, NEW c \in Procs, job[c] \in LoadJobs, NEW st,
           FileOK(st, job[c].parent, drawn), st.exists, Prepare(c, st)
    PROVE  TypeInv'
<1>. DEFINE ids == NewIds(c)
            copy == Added(st, ids, job[c].sequential)
            j == [op |-> job[c].op, at |-> "save", parent |-> job[c].parent, ids |-> ids, copy |-> copy]
<1>1. /\ drawn' = drawn + Len(ids) /\ leases' = leases \cup NeedsLease(ids)
      /\ job' = [job EXCEPT ![c] = j]
      /\ UNCHANGED <<states, index, todos, lock, doc, setup>>
  BY DEF Prepare, Become
<1>2. /\ ids \in Seq(Ids) /\ Len(ids) \in Nat /\ drawn + Len(ids) <= setup.tasks
      /\ \A i \in DOMAIN ids : ParentOf(ids[i]) = job[c].parent /\ ids[i][3] = drawn + i
  BY NewIdsTypes
<1>3. job[c].op \in SpawnOps /\ job[c].parent \in Parents /\ drawn \in Nat /\ setup.tasks \in Nat
      /\ lock = c
  BY SetupFacts DEF LoadJobs, TypeInv, SharedInv, LockInv
<1>. HIDE DEF ids
<1>4. drawn' \in Nat /\ drawn <= drawn' /\ drawn' <= setup.tasks
  BY <1>1, <1>2, <1>3
<1>5. FileOK(copy, job[c].parent, drawn')
  BY <1>1, <1>2, <1>3, <1>4, AddedFile
<1>6. copy \in FileType
  BY <1>5 DEF FileOK
<1>. HIDE DEF copy
<1>7. j \in SpawnSaveJobs /\ j.op = job[c].op /\ j.at = "save" /\ j.parent = job[c].parent
      /\ j.copy = copy
  BY <1>2, <1>3, <1>6 DEF SpawnSaveJobs
<1>8. j \in Jobs
  BY <1>7 DEF Jobs
<1>. HIDE DEF j
<1>9. JobsInv'
  <2>1. \A d \in Procs : d # c => job[d].op \notin SpawnOps
    BY <1>3 DEF TypeInv, LockInv
  <2>. QED  BY <1>1, <1>4, <1>5, <1>7, <1>8, <2>1, JobStep
<1>10. LockInv'
  <2>1. lock' = c /\ lock' \in Delegators \cup {None}
    BY <1>1, <1>3 DEF TypeInv, LockInv
  <2>. QED  BY <1>1, <1>3, <1>7, <2>1, LockStep
<1>11. FilesInv'
  BY <1>1, <1>4, QuietFiles
<1>12. SharedInv'
  <2>1. leases' \subseteq Ids
    <3>1. NeedsLease(ids) \subseteq Ids
      BY <1>2, LeaseIds
    <3>. QED  BY <1>1, <3>1 DEF TypeInv, SharedInv
  <2>. QED  BY <1>1, <1>3, <1>4, <2>1 DEF TypeInv, SharedInv
<1>. QED  BY <1>9, <1>10, <1>11, <1>12 DEF TypeInv

\* What is loaded is a file that exists; a new one is empty.
LEMMA LoadedFile ==
    ASSUME TypeInv, NEW p \in Parents
    PROVE  /\ FileOK(Loaded(p), p, drawn) /\ Loaded(p).exists
           /\ FileOK(NewState, p, drawn) /\ NewState.exists /\ NewState.tasks = <<>>
           /\ Loaded(p) = states[p] \/ (states[p].tasks = <<>> /\ Loaded(p) = NewState)
<1>1. /\ NewState = [exists |-> TRUE, tasks |-> <<>>, handoff |-> {}]
      /\ NewState.exists /\ NewState.tasks = <<>>
  BY DEF NewState
<1>2. NewState \in FileType
  BY <1>1 DEF FileType
<1>3. FileOK(NewState, p, drawn)
  BY <1>1, <1>2 DEF FileOK
<1>4. FileOK(states[p], p, drawn)
  BY DEF TypeInv, FilesInv
<1>5. ~states[p].exists => states[p].tasks = <<>>
  BY <1>4 DEF FileOK
<1>. QED  BY <1>1, <1>3, <1>4, <1>5 DEF Loaded

\* The loads of delegate and schedule.
LEMMA LoadTypes ==
    ASSUME TypeInv, NEW c \in Procs, DelegateLoad(c) \/ ScheduleLoad(c) PROVE TypeInv'
<1>1. job[c] \in LoadJobs /\ job[c].parent \in Parents
  BY JobShapes DEF DelegateLoad, ScheduleLoad, At, SpawnOps, TypeInv, JobsInv, LoadJobs
<1>2. CASE Prepare(c, Loaded(job[c].parent)) \/ Prepare(c, NewState)
  BY <1>1, <1>2, LoadedFile, PrepareTypes
<1>3. CASE GiveUp(c) /\ UNCHANGED <<states, leases, index, todos, drawn, doc, setup>>
  BY <1>3, GiveUpTypes, QuietShared
<1>. QED  BY <1>2, <1>3 DEF DelegateLoad, ScheduleLoad

\* A lease that cannot be made ends the operation; the uuids are used up.
LEMMA LeaseFailsTypes ==
    ASSUME TypeInv, NEW c \in Procs, LeaseFails(c) PROVE TypeInv'
<1>1. job[c] \in LoadJobs /\ job[c].op \in SpawnOps
  BY JobShapes DEF LeaseFails, SpawnOps, TypeInv, JobsInv
<1>2. PICK k \in DOMAIN job[c].members :
        drawn' = drawn + k /\ leases' = leases \cup NeedsLease(SubSeq(NewIds(c), 1, k - 1))
  BY DEF LeaseFails
<1>3. /\ k \in 1 .. Len(job[c].members) /\ drawn \in Nat /\ setup.tasks \in Nat
      /\ Len(job[c].members) \in Nat /\ drawn + Len(job[c].members) <= setup.tasks
  BY <1>1, <1>2, NewIdsTypes, SetupFacts DEF LoadJobs, TypeInv, SharedInv
<1>4. drawn' \in Nat /\ drawn <= drawn' /\ drawn' <= setup.tasks
  BY <1>2, <1>3
<1>5. JobsInv' /\ LockInv'
  BY <1>1, <1>4, EndStep DEF LeaseFails, GiveUp, Finish, Become, Unlock
<1>6. leases' \subseteq Ids
  <2>1. NewIds(c) \in Seq(Ids) /\ Len(NewIds(c)) = Len(job[c].members)
    BY <1>1, NewIdsTypes
  <2>2. SubSeq(NewIds(c), 1, k - 1) \in Seq(Ids)
    BY <1>3, <2>1
  <2>3. \A i \in DOMAIN SubSeq(NewIds(c), 1, k - 1) : SubSeq(NewIds(c), 1, k - 1)[i] \in Ids
    BY <2>2
  <2>4. NeedsLease(SubSeq(NewIds(c), 1, k - 1)) \subseteq Ids
    BY <2>3, LeaseIds
  <2>. QED  BY <1>2, <2>4 DEF TypeInv, SharedInv
<1>7. FilesInv' /\ SharedInv'
  BY <1>3, <1>4, <1>6, QuietFiles DEF LeaseFails, TypeInv, SharedInv
<1>. QED  BY <1>5, <1>7 DEF TypeInv

\* A save, after which the caller goes on to j.
LEMMA SaveTypes ==
    ASSUME TypeInv, NEW c \in Procs, NEW j \in Jobs, Write(c), job[c].at = "save",
           job[c].op \in SpawnOps \cup {"update", "release", "handoff", "advance", "join"},
           job' = [job EXCEPT ![c] = j], job[c].op \in SpawnOps <=> j.op \in SpawnOps,
           j.at \in {"idle", "project", "lease"},
           UNCHANGED <<leases, index, todos, lock, drawn, doc, setup>>
    PROVE  TypeInv'
<1>1. FilesInv'
  BY WriteFiles
<1>2. JobsInv'
  BY QuietJobStep
<1>3. LockInv'
  BY LockStep DEF TypeInv, LockInv
<1>4. SharedInv'
  BY QuietShared
<1>. QED  BY <1>1, <1>2, <1>3, <1>4 DEF TypeInv

\* The saves, each followed by its own next stage.
LEMMA SavesTypes ==
    ASSUME TypeInv, NEW c \in Procs,
           SpawnSave(c) \/ UpdateSave(c) \/ ReleaseSave(c) \/ HandoffSave(c) \/ AdvanceSave(c)
              \/ JoinSave(c)
    PROVE  TypeInv'
<1>1. CASE SpawnSave(c)
  <2>. DEFINE j == [op |-> job[c].op, at |-> "project"]
  <2>1. /\ job[c].op \in SpawnOps /\ job[c].at = "save" /\ Write(c) /\ job' = [job EXCEPT ![c] = j]
        /\ UNCHANGED <<leases, index, todos, lock, drawn, doc, setup>>
    BY <1>1 DEF SpawnSave, SpawnOps, Become
  <2>2. j \in Jobs /\ j.op = job[c].op /\ j.at = "project"
    BY <2>1 DEF Jobs, ProjectJobs
  <2>. HIDE DEF j
  <2>. QED  BY <2>1, <2>2, SaveTypes
<1>2. CASE UpdateSave(c)
  <2>. DEFINE j == [op |-> "update", at |-> "project"]
  <2>1. /\ job[c].op = "update" /\ job[c].at = "save" /\ Write(c) /\ job' = [job EXCEPT ![c] = j]
        /\ UNCHANGED <<leases, index, todos, lock, drawn, doc, setup>>
    BY <1>2 DEF UpdateSave, At, Become
  <2>2. j \in Jobs /\ j.op = "update" /\ j.at = "project"
    BY DEF Jobs, ProjectJobs
  <2>. HIDE DEF j
  <2>. QED  BY <2>1, <2>2, SaveTypes DEF SpawnOps
<1>3. CASE ReleaseSave(c)
  <2>. DEFINE j == [op |-> "release", at |-> "lease", id |-> job[c].id]
  <2>1. /\ job[c].op = "release" /\ job[c].at = "save" /\ Write(c) /\ job' = [job EXCEPT ![c] = j]
        /\ UNCHANGED <<leases, index, todos, lock, drawn, doc, setup>>
    BY <1>3 DEF ReleaseSave, At, Become
  <2>2. job[c].id \in Ids
    BY <2>1, JobShapes DEF TypeInv, JobsInv, ReleaseSaveJobs
  <2>3. j \in Jobs /\ j.op = "release" /\ j.at = "lease"
    BY <2>2 DEF Jobs, ReleaseJobs
  <2>. HIDE DEF j
  <2>. QED  BY <2>1, <2>3, SaveTypes DEF SpawnOps
<1>4. CASE HandoffSave(c) \/ AdvanceSave(c) \/ JoinSave(c)
  <2>1. /\ job[c].op \in {"handoff", "advance", "join"} /\ job[c].at = "save" /\ Write(c)
        /\ job' = [job EXCEPT ![c] = Idle]
        /\ UNCHANGED <<leases, index, todos, lock, drawn, doc, setup>>
    BY <1>4 DEF HandoffSave, AdvanceSave, JoinSave, At, Finish, Become
  <2>2. Idle \in Jobs /\ Idle.op = "none" /\ Idle.at = "idle"
    BY DEF Jobs, Idle
  <2>. QED  BY <2>1, <2>2, SaveTypes DEF SpawnOps
<1>. QED  BY <1>1, <1>2, <1>3, <1>4

\* A save that fails.
LEMMA SpawnSaveFailsTypes ==
    ASSUME TypeInv, NEW c \in Procs, SpawnSaveFails(c) PROVE TypeInv'
<1>1. SharedInv'
  BY DEF SpawnSaveFails, TypeInv, SharedInv
<1>. QED  BY <1>1, GiveUpTypes DEF SpawnSaveFails

\* A caller that has no lock ends: giving it back changes nothing.
LEMMA FinishTypes ==
    ASSUME TypeInv, NEW c \in Procs, Finish(c), job[c].op \notin SpawnOps, lock' = lock,
           UNCHANGED <<states, drawn, doc, setup>>, SharedInv'
    PROVE  TypeInv'
<1>1. lock # c
  BY DEF TypeInv, LockInv
<1>2. GiveUp(c)
  BY <1>1 DEF GiveUp, Unlock
<1>. QED  BY <1>2, GiveUpTypes

\* The live tasks are tasks.
LEMMA LiveIdsTypes == ASSUME FilesInv, NEW ps \in SUBSET Parents PROVE LiveIdsOf(ps) \subseteq Ids
<1>1. \A p \in Parents : \A t \in TaskSet(states[p]) : t.id \in Ids
  BY FileTasks DEF FilesInv
<1>. QED  BY <1>1 DEF LiveIdsOf

\* A scan that can read every file, and takes them all, leaves out none.
LEMMA FullScan ==
    ASSUME ~setup.crowded, "load" \notin setup.faults, NEW missed \in Overlooked
    PROVE  missed = {} /\ LiveIdsOf(Parents \ missed) = LiveIds
<1>1. missed = {}
  BY DEF Overlooked
<1>. QED  BY <1>1 DEF LiveIds

\* The projection.
LEMMA ProjectTypes ==
    ASSUME TypeInv, NEW c \in Procs, Project(c) \/ WriteRollup(c) PROVE TypeInv'
<1>1. CASE Project(c)
  <2>0. PICK missed \in Overlooked :
          job' = [job EXCEPT ![c] = [op |-> job[c].op, at |-> "rollup",
                                     seen |-> LiveIdsOf(Parents \ missed)]]
    BY <1>1 DEF Project, Become
  <2>. DEFINE seen == LiveIdsOf(Parents \ missed)
              j == [op |-> job[c].op, at |-> "rollup", seen |-> seen]
  <2>1. /\ job[c].at = "project" /\ job' = [job EXCEPT ![c] = j]
        /\ UNCHANGED <<states, leases, index, todos, lock, drawn, doc, setup>>
    BY <1>1, <2>0 DEF Project
  <2>2. job[c] \in ProjectJobs \cup ReleaseJobs
    BY <2>1, JobShapes DEF TypeInv, JobsInv
  <2>3. seen \in SUBSET Ids
    <3>1. Parents \ missed \in SUBSET Parents
      OBVIOUS
    <3>. QED  BY <3>1, LiveIdsTypes DEF TypeInv
  <2>. HIDE DEF seen
  <2>4. j \in RollupJobs /\ j.op = job[c].op /\ j.at = "rollup"
    BY <2>2, <2>3 DEF RollupJobs, ProjectJobs, ReleaseJobs
  <2>5. j \in Jobs
    BY <2>4 DEF Jobs
  <2>. HIDE DEF j
  <2>. QED  BY <2>1, <2>4, <2>5, StageTypes, QuietShared
<1>2. CASE WriteRollup(c)
  <2>1. /\ job[c].at = "rollup" /\ todos' = job[c].seen /\ lock' = IF lock = c THEN None ELSE lock
        /\ UNCHANGED <<states, leases, index, drawn, doc, setup>>
    BY <1>2 DEF WriteRollup, Unlock
  <2>2. job[c].seen \subseteq Ids
    BY <2>1, JobShapes DEF TypeInv, JobsInv, RollupJobs
  <2>3. SharedInv'
    BY <2>1, <2>2 DEF TypeInv, SharedInv
  <2>4. CASE Finish(c)
    BY <2>1, <2>3, <2>4, GiveUpTypes DEF GiveUp, Unlock
  <2>5. CASE job' = [job EXCEPT ![c] = [op |-> "sync", at |-> "load"]]
    <3>. DEFINE j == [op |-> "sync", at |-> "load"]
    <3>1. j \in Jobs /\ j.op = "sync" /\ j.at = "load"
      BY DEF Jobs, SyncJobs
    <3>. HIDE DEF j
    <3>2. job' = [job EXCEPT ![c] = j]
      BY <2>5 DEF j
    <3>3. JobsInv'
      BY <2>1, <3>1, <3>2, QuietJobStep DEF SpawnOps
    <3>4. LockInv'
      <4>1. None \notin Procs
        BY SetupFacts DEF TypeInv, SharedInv
      <4>2. lock' \in Delegators \cup {None} /\ lock' # c
            /\ \A d \in Procs : d # c => (lock' = d <=> lock = d)
        BY <2>1, <4>1 DEF TypeInv, LockInv
      <4>. QED  BY <3>1, <3>2, <4>2, LockStep DEF SpawnOps
    <3>5. FilesInv'
      <4>1. drawn' \in Nat /\ drawn <= drawn'
        BY <2>1, SetupFacts DEF TypeInv, SharedInv
      <4>. QED  BY <2>1, <4>1, QuietFiles
    <3>. QED  BY <2>3, <3>3, <3>4, <3>5 DEF TypeInv
  <2>. QED  BY <1>2, <2>4, <2>5 DEF WriteRollup, Become
<1>. QED  BY <1>1, <1>2

\* An idle caller begins an operation that takes no lock.
LEMMA BeginTypes ==
    ASSUME TypeInv, NEW c \in Procs, NEW j \in Jobs, job[c] = Idle, job' = [job EXCEPT ![c] = j],
           j.op \notin SpawnOps, UNCHANGED <<states, leases, index, todos, lock, drawn, doc, setup>>,
           j.at = "save" => FileOK(j.copy, j.parent, drawn)
    PROVE  TypeInv'
<1>1. job[c].op \notin SpawnOps
  BY DEF Idle, SpawnOps
<1>. QED  BY <1>1, StageTypes, QuietShared

\* A refresh of the projection, and the TUI's own copy.
LEMMA TuiTypes ==
    ASSUME TypeInv,
           \/ \E c \in Procs : RefreshProjection(c) \/ SyncSessionTasks(c)
           \/ PersistTaskDocument
    PROVE  TypeInv'
<1>1. ASSUME NEW c \in Procs, RefreshProjection(c) PROVE TypeInv'
  <2>. DEFINE j == [op |-> "refresh", at |-> "project"]
  <2>1. j \in Jobs /\ j.op = "refresh" /\ j.at = "project"
    BY DEF Jobs, ProjectJobs
  <2>2. /\ job[c] = Idle /\ job' = [job EXCEPT ![c] = j]
        /\ UNCHANGED <<states, leases, index, todos, lock, drawn, doc, setup>>
    BY <1>1 DEF RefreshProjection, Become
  <2>. HIDE DEF j
  <2>. QED  BY <2>1, <2>2, BeginTypes DEF SpawnOps
<1>2. ASSUME NEW c \in Procs, SyncSessionTasks(c) PROVE TypeInv'
  <2>1. /\ job[c].op = "sync" /\ doc' = states[TuiTask].tasks /\ job' = [job EXCEPT ![c] = Idle]
        /\ UNCHANGED <<states, leases, index, todos, lock, drawn, setup>>
    BY <1>2 DEF SyncSessionTasks, At, Finish, Become
  <2>2. Idle \in Jobs /\ Idle.op = "none" /\ Idle.at = "idle"
    BY DEF Jobs, Idle
  <2>3. JobsInv'
    BY <2>1, <2>2, QuietJobStep DEF SpawnOps
  <2>4. LockInv'
    BY <2>1, <2>2, LockStep DEF SpawnOps, TypeInv, LockInv
  <2>5. FilesInv'
    <3>. DEFINE copy == [exists |-> TRUE, tasks |-> states[TuiTask].tasks, handoff |-> {}]
    <3>1. FileOK(states[TuiTask], TuiTask, drawn) /\ states[TuiTask] \in FileType
      BY SetupFacts DEF TypeInv, FilesInv, SharedInv
    <3>2. states[TuiTask].tasks \in Seq(TaskType)
      BY <3>1 DEF FileType
    <3>3. copy \in FileType /\ copy.tasks = states[TuiTask].tasks /\ copy.exists
      BY <3>2 DEF FileType
    <3>. HIDE DEF copy
    <3>4. FileOK(copy, TuiTask, drawn)
      BY <3>1, <3>3 DEF FileOK
    <3>. QED  BY <2>1, <3>2, <3>4 DEF TypeInv, FilesInv, copy
  <2>. QED  BY <2>1, <2>3, <2>4, <2>5, QuietShared DEF TypeInv
<1>3. ASSUME PersistTaskDocument PROVE TypeInv'
  <2>1. /\ states' = [states EXCEPT ![TuiTask] = [exists |-> TRUE, tasks |-> doc, handoff |-> {}]]
        /\ UNCHANGED <<leases, index, todos, lock, job, drawn, doc, setup>>
    BY <1>3 DEF PersistTaskDocument
  <2>2. FilesInv'
    <3>. DEFINE copy == [exists |-> TRUE, tasks |-> doc, handoff |-> {}]
    <3>1. FileOK(copy, TuiTask, drawn) /\ copy \in FileType
      BY DEF TypeInv, FilesInv, FileOK
    <3>2. states' = [states EXCEPT ![TuiTask] = copy]
      BY <2>1
    <3>3. doc' = doc /\ drawn' = drawn
      BY <2>1
    <3>4. doc \in Seq(TaskType)
      BY DEF TypeInv, FilesInv
    <3>5. FileOK([exists |-> TRUE, tasks |-> doc', handoff |-> {}], TuiTask, drawn')
      BY <3>1, <3>3
    <3>. HIDE DEF copy
    <3>6. states' \in [Parents -> FileType] /\ \A p \in Parents : FileOK(states'[p], p, drawn')
      BY <3>1, <3>2, <3>3 DEF TypeInv, FilesInv
    <3>. QED  BY <3>3, <3>4, <3>5, <3>6 DEF FilesInv
  <2>3. JobsInv' /\ LockInv' /\ SharedInv'
    BY <2>1 DEF TypeInv, JobsInv, LockInv, SharedInv
  <2>. QED  BY <2>2, <2>3 DEF TypeInv
<1>. QED  BY <1>1, <1>2, <1>3

\* A copy of a file, changed and about to be saved by an operation without the lock.
LEMMA CopyTypes ==
    ASSUME TypeInv, NEW c \in Procs, NEW op \in {"update", "handoff", "join"}, NEW p \in Parents,
           NEW copy, FileOK(copy, p, drawn), job[c].op \notin SpawnOps,
           job' = [job EXCEPT ![c] = [op |-> op, at |-> "save", parent |-> p, copy |-> copy]],
           UNCHANGED <<states, leases, index, todos, lock, drawn, doc, setup>>
    PROVE  TypeInv'
<1>. DEFINE j == [op |-> op, at |-> "save", parent |-> p, copy |-> copy]
<1>1. copy \in FileType
  BY DEF FileOK
<1>2. j \in SaveJobs /\ j.op = op /\ j.at = "save" /\ j.parent = p /\ j.copy = copy
  BY <1>1 DEF SaveJobs
<1>3. j \in Jobs
  BY <1>2 DEF Jobs
<1>4. job' = [job EXCEPT ![c] = j]
  OBVIOUS
<1>. HIDE DEF j
<1>. QED  BY <1>2, <1>3, <1>4, StageTypes, QuietShared DEF SpawnOps

\* The file of an id that was found.
LEMMA FoundFile ==
    ASSUME TypeInv, NEW id \in Ids, NEW s \in AllStatuses
    PROVE  /\ ParentOf(id) \in Parents
           /\ FileOK(states[ParentOf(id)], ParentOf(id), drawn)
           /\ FileOK(WithStatus(states[ParentOf(id)], id, s), ParentOf(id), drawn)
           /\ FileOK(WithSummary(states[ParentOf(id)], id), ParentOf(id), drawn)
<1>1. ParentOf(id) \in Parents
  BY IdParts DEF ParentOf
<1>2. FileOK(states[ParentOf(id)], ParentOf(id), drawn)
  BY <1>1 DEF TypeInv, FilesInv
<1>. QED  BY <1>1, <1>2, StatusFile

\* Changing a status and recording a summary.
LEMMA UpdateTypes ==
    ASSUME TypeInv, NEW c \in Procs, NEW id \in Ids, NEW s \in AllStatuses,
           UpdateStatus(c, id, s) \/ SetHandoff(c, id)
    PROVE  TypeInv'
<1>1. job[c] = Idle /\ UNCHANGED <<states, leases, index, todos, lock, drawn, doc, setup>>
  BY DEF UpdateStatus, SetHandoff, Find
<1>2. job[c].op \notin SpawnOps
  BY <1>1 DEF Idle, SpawnOps
<1>3. CASE UpdateStatus(c, id, s)
  BY <1>1, <1>2, <1>3, CopyTypes, FoundFile DEF UpdateStatus, Become
<1>4. CASE SetHandoff(c, id)
  BY <1>1, <1>2, <1>4, CopyTypes, FoundFile DEF SetHandoff, Become
<1>. QED  BY <1>3, <1>4

\* Releasing a task, and then its lease.
LEMMA ReleaseTypes ==
    ASSUME TypeInv, NEW c \in Procs, NEW id \in Ids, Release(c, id) PROVE TypeInv'
<1>. DEFINE st == states[ParentOf(id)]
            copy == WithStatus(st, id, "completed")
            j == [op |-> "release", at |-> "save", parent |-> ParentOf(id), id |-> id, copy |-> copy]
            k == [op |-> "release", at |-> "lease", id |-> id]
<1>1. /\ job[c] = Idle /\ UNCHANGED <<states, leases, index, todos, lock, drawn, doc, setup>>
      /\ job' = [job EXCEPT ![c] = j] \/ job' = [job EXCEPT ![c] = k]
  BY DEF Release, Find, Become
<1>2. FileOK(copy, ParentOf(id), drawn) /\ ParentOf(id) \in Parents
  BY FoundFile DEF AllStatuses
<1>3. copy \in FileType
  BY <1>2 DEF FileOK
<1>. HIDE DEF copy
<1>4. j \in ReleaseSaveJobs /\ j.op = "release" /\ j.parent = ParentOf(id) /\ j.copy = copy
  BY <1>2, <1>3 DEF ReleaseSaveJobs
<1>5. k \in ReleaseJobs /\ k.op = "release" /\ k.at = "lease"
  BY DEF ReleaseJobs
<1>6. j \in Jobs /\ k \in Jobs
  BY <1>4, <1>5 DEF Jobs
<1>. HIDE DEF j, k
<1>7. CASE job' = [job EXCEPT ![c] = j]
  BY <1>1, <1>2, <1>4, <1>6, <1>7, BeginTypes DEF SpawnOps
<1>8. CASE job' = [job EXCEPT ![c] = k]
  BY <1>1, <1>5, <1>6, <1>8, BeginTypes DEF SpawnOps
<1>. QED  BY <1>1, <1>7, <1>8

\* The lease of the released task goes, or cannot be removed.
LEMMA ReleaseLeaseTypes ==
    ASSUME TypeInv, NEW c \in Procs, ReleaseLease(c) PROVE TypeInv'
<1>1. /\ job[c].op = "release" /\ job[c].at = "lease" /\ leases' \subseteq leases
      /\ UNCHANGED <<states, index, todos, lock, drawn, doc, setup>>
  BY DEF ReleaseLease, At
<1>2. SharedInv'
  BY <1>1 DEF TypeInv, SharedInv
<1>3. CASE Finish(c)
  BY <1>1, <1>2, <1>3, FinishTypes DEF SpawnOps
<1>4. CASE MoveTo(c, "project")
  <2>. DEFINE j == [job[c] EXCEPT !.at = "project"]
  <2>1. job[c] \in ReleaseJobs /\ job \in [Procs -> Jobs]
    BY <1>1, JobShapes DEF TypeInv, JobsInv
  <2>2. j \in ReleaseJobs /\ j.op = "release" /\ j.at = "project"
    BY <2>1 DEF ReleaseJobs
  <2>3. j \in Jobs
    BY <2>2 DEF Jobs
  <2>4. job' = [job EXCEPT ![c] = j]
    BY <1>4 DEF MoveTo
  <2>. HIDE DEF j
  <2>. QED  BY <1>1, <1>2, <2>2, <2>3, <2>4, StageTypes DEF SpawnOps
<1>. QED  BY <1>3, <1>4 DEF ReleaseLease

\* A save of an operation without the lock fails.
LEMMA SaveFailsTypes ==
    ASSUME TypeInv, NEW c \in Procs, SaveFails(c) PROVE TypeInv'
<1>1. /\ job[c].op \notin SpawnOps /\ Finish(c)
      /\ UNCHANGED <<states, leases, index, todos, lock, drawn, doc, setup>>
  BY DEF SaveFails, SpawnOps
<1>. QED  BY <1>1, FinishTypes, QuietShared

\* advance_sequential adds one task to its copy.
LEMMA AdvanceTypes ==
    ASSUME TypeInv, NEW c \in Procs, NEW p \in Parents, NEW t \in Teams,
           AdvanceSequential(c, p, t)
    PROVE  TypeInv'
<1>1. /\ job[c] = Idle /\ states[p].exists /\ drawn + Reserved < setup.tasks /\ drawn' = drawn + 1
      /\ UNCHANGED <<states, index, todos, lock, doc, setup>>
  BY DEF AdvanceSequential
<1>2. t.members \in Seq(Agents)
  BY ConfigAssumption
<1>3. PICK a \in Agents :
        LET ids == << <<p, a, drawn + 1>> >> IN
        /\ leases' = leases \cup NeedsLease(ids)
        /\ job' = [job EXCEPT ![c] = [op |-> "advance", at |-> "save", parent |-> p,
                                      copy |-> Added(states[p], ids, TRUE)]]
  <2>1. \A k \in DOMAIN t.members : t.members[k] \in Agents
    BY <1>2
  <2>. QED  BY <2>1 DEF AdvanceSequential, Become
<1>. DEFINE id == <<p, a, drawn + 1>>
            ids == <<id>>
            copy == Added(states[p], ids, TRUE)
            j == [op |-> "advance", at |-> "save", parent |-> p, copy |-> copy]
<1>4. /\ drawn \in Nat /\ setup.tasks \in Nat /\ MaxTasks \in Nat /\ setup.tasks <= MaxTasks
      /\ None \notin Procs
  BY SetupFacts DEF TypeInv, SharedInv
<1>5. ASSUME NEW d \in Procs, d # c, job[d].op \in SpawnOps, job[d].at \in {"count", "load"}
      PROVE  drawn' + Len(job[d].members) <= setup.tasks
  <2>1. lock = d
    BY <1>5 DEF TypeInv, LockInv
  <2>2. Reserved = Len(job[d].members)
    BY <1>4, <1>5, <2>1 DEF Reserved
  <2>3. Len(job[d].members) \in Nat
    <3>1. job[d] \in CountJobs \cup LoadJobs
      BY <1>5, JobShapes DEF TypeInv, JobsInv
    <3>2. job[d].members \in Seq(Agents)
      BY <3>1 DEF CountJobs, LoadJobs
    <3>. QED  BY <3>2
  <2>. DEFINE n == Len(job[d].members)
  <2>4. n \in Nat /\ drawn + n < setup.tasks
    BY <1>1, <2>2, <2>3
  <2>. HIDE DEF n
  <2>5. drawn' + n <= setup.tasks
    BY <1>1, <1>4, <2>4
  <2>. QED  BY <2>5 DEF n
<1>6. drawn' \in Nat /\ drawn <= drawn' /\ drawn' <= setup.tasks
  <2>1. Reserved \in Nat
    <3>1. CASE lock # None /\ job[lock].at \in {"count", "load"}
      <4>1. lock \in Procs /\ job[lock].op \in SpawnOps
        BY <3>1 DEF TypeInv, LockInv, Procs
      <4>2. job[lock] \in CountJobs \cup LoadJobs
        BY <3>1, <4>1, JobShapes DEF TypeInv, JobsInv
      <4>3. job[lock].members \in Seq(Agents)
        BY <4>2 DEF CountJobs, LoadJobs
      <4>. QED  BY <3>1, <4>3 DEF Reserved
    <3>2. CASE ~(lock # None /\ job[lock].at \in {"count", "load"})
      BY <3>2 DEF Reserved
    <3>. QED  BY <3>1, <3>2
  <2>. QED  BY <1>1, <1>4, <2>1
<1>7. id \in Ids /\ ids \in Seq(Ids) /\ Len(ids) = 1 /\ DOMAIN ids = 1 .. 1 /\ ids[1] = id
      /\ ParentOf(id) = p /\ id[3] = drawn + 1
  <2>1. drawn + 1 \in 1 .. MaxTasks
    BY <1>1, <1>4, <1>6
  <2>2. id \in Ids
    BY <2>1 DEF Ids
  <2>. QED  BY <2>2 DEF ParentOf
<1>. HIDE DEF id
<1>8. \A i \in DOMAIN ids : i = 1 /\ ids[i] = id /\ ids[i] \in Ids
  BY <1>7
<1>. HIDE DEF ids
<1>9. FileOK(copy, p, drawn')
  <2>1. FileOK(states[p], p, drawn)
    BY DEF TypeInv, FilesInv
  <2>2. \A i \in DOMAIN ids : ParentOf(ids[i]) = p /\ ids[i][3] = drawn + i
    BY <1>7, <1>8
  <2>3. drawn' = drawn + Len(ids) /\ ids \in Seq(Ids)
    BY <1>1, <1>7
  <2>4. states[p].exists /\ drawn \in Nat /\ drawn' \in Nat
    BY <1>1, <1>4, <1>6
  <2>5. ASSUME NEW st, NEW n, NEW m, st = states[p], n = drawn, m = drawn'
        PROVE  FileOK(Added(st, ids, TRUE), p, m)
    <3>1. /\ n \in Nat /\ m \in Nat /\ FileOK(st, p, n) /\ st.exists /\ m = n + Len(ids)
          /\ ids \in Seq(Ids) /\ \A i \in DOMAIN ids : ParentOf(ids[i]) = p /\ ids[i][3] = n + i
      BY <2>1, <2>2, <2>3, <2>4, <2>5
    <3>. HIDE DEF copy, j
    <3>. QED  BY <3>1, AddedFile
  <2>. QED  BY <2>5, Zenon DEF copy
<1>10. copy \in FileType
  BY <1>9 DEF FileOK
<1>. HIDE DEF copy
<1>11. j \in SaveJobs /\ j.op = "advance" /\ j.at = "save" /\ j.parent = p /\ j.copy = copy
  BY <1>10 DEF SaveJobs
<1>12. j \in Jobs
  BY <1>11 DEF Jobs
<1>. HIDE DEF j
<1>13. job' = [job EXCEPT ![c] = j] /\ leases' = leases \cup NeedsLease(ids)
  BY <1>3 DEF j, copy, ids, id
<1>14. JobsInv'
  BY <1>1, <1>5, <1>6, <1>9, <1>11, <1>12, <1>13, JobStep DEF SpawnOps
<1>15. LockInv'
  <2>1. job[c].op \notin SpawnOps
    BY <1>1 DEF Idle, SpawnOps
  <2>. QED  BY <1>1, <1>11, <1>13, <2>1, LockStep DEF SpawnOps, TypeInv, LockInv
<1>16. FilesInv'
  BY <1>1, <1>6, QuietFiles
<1>17. SharedInv'
  <2>1. leases' \subseteq Ids
    <3>1. NeedsLease(ids) \subseteq Ids
      BY <1>8, LeaseIds
    <3>. QED  BY <1>13, <3>1 DEF TypeInv, SharedInv
  <2>. QED  BY <1>1, <1>4, <1>6, <2>1 DEF TypeInv, SharedInv
<1>. QED  BY <1>14, <1>15, <1>16, <1>17 DEF TypeInv

\* What a join posts are ids.
LEMMA PollTypes ==
    ASSUME TypeInv, NEW c \in Procs, NEW p \in Parents, PollJoin(c, p) PROVE TypeInv'
<1>. DEFINE st == states[p]
            post == [posted |-> {t.id : t \in Summaries(st)},
                     superseded |-> UNION {Supersedes(st, t) : t \in Summaries(st)}]
            j == [op |-> "join", at |-> "loadIndex", parent |-> p, post |-> post]
<1>1. /\ job[c] = Idle /\ job' = [job EXCEPT ![c] = j]
      /\ UNCHANGED <<states, leases, index, todos, lock, drawn, doc, setup>>
  BY DEF PollJoin, Become
<1>2. post \in PostType
  <2>1. /\ \A t \in TaskSet(st) : t \in TaskType /\ t.id \in Ids
        /\ \A i \in DOMAIN st.tasks : st.tasks[i].id \in Ids
    BY FileTasks DEF TypeInv, FilesInv
  <2>2. \A t \in TaskType : t.supersedes \in SUBSET Ids
    BY DEF TaskType
  <2>3. {t.id : t \in Summaries(st)} \in SUBSET Ids
    BY <2>1 DEF Summaries
  <2>4. \A t \in Summaries(st) : Supersedes(st, t) \subseteq Ids
    BY <2>1, <2>2 DEF Summaries, Supersedes
  <2>5. UNION {Supersedes(st, t) : t \in Summaries(st)} \in SUBSET Ids
    BY <2>4
  <2>. QED  BY <2>3, <2>5 DEF PostType
<1>. HIDE DEF post
<1>3. j \in PostJobs /\ j.op = "join" /\ j.at = "loadIndex"
  BY <1>2 DEF PostJobs
<1>4. j \in Jobs
  BY <1>3 DEF Jobs
<1>. HIDE DEF j
<1>. QED  BY <1>1, <1>3, <1>4, BeginTypes DEF SpawnOps

\* The steps of a join.
LEMMA JoinTypes ==
    ASSUME TypeInv, NEW c \in Procs, JoinLoadIndex(c) \/ JoinSaveIndex(c) \/ JoinLoad(c)
    PROVE  TypeInv'
<1>1. CASE JoinLoadIndex(c)
  <2>. DEFINE post == Posted(index[job[c].parent], job[c].post)
              j == [op |-> "join", at |-> "saveIndex", parent |-> job[c].parent, post |-> post]
  <2>1. /\ job[c].op = "join" /\ job[c].at = "loadIndex" /\ job' = [job EXCEPT ![c] = j]
        /\ UNCHANGED <<states, leases, index, todos, lock, drawn, doc, setup>>
    BY <1>1 DEF JoinLoadIndex, At, Become
  <2>2. job[c].parent \in Parents /\ job[c].post \in PostType
    BY <2>1, JobShapes DEF TypeInv, JobsInv, PostJobs
  <2>3. post \in PostType
    <3>1. index[job[c].parent] \in PostType
      BY <2>2 DEF TypeInv, SharedInv
    <3>. QED  BY <2>2, <3>1 DEF Posted, PostType
  <2>. HIDE DEF post
  <2>4. j \in PostJobs /\ j.op = "join" /\ j.at = "saveIndex"
    BY <2>2, <2>3 DEF PostJobs
  <2>5. j \in Jobs
    BY <2>4 DEF Jobs
  <2>. HIDE DEF j
  <2>. QED  BY <2>1, <2>4, <2>5, StageTypes, QuietShared DEF SpawnOps
<1>2. CASE JoinSaveIndex(c)
  <2>. DEFINE j == [op |-> "join", at |-> "load", parent |-> job[c].parent,
                    live |-> LiveEntries(job[c].post)]
  <2>1. /\ job[c].op = "join" /\ job[c].at = "saveIndex" /\ job' = [job EXCEPT ![c] = j]
        /\ index' = [index EXCEPT ![job[c].parent] = job[c].post]
        /\ UNCHANGED <<states, leases, todos, lock, drawn, doc, setup>>
    BY <1>2 DEF JoinSaveIndex, At, Become
  <2>2. job[c].parent \in Parents /\ job[c].post \in PostType
    BY <2>1, JobShapes DEF TypeInv, JobsInv, PostJobs
  <2>3. LiveEntries(job[c].post) \in SUBSET Ids
    BY <2>2 DEF LiveEntries, PostType
  <2>4. j \in JoinLoadJobs /\ j.op = "join" /\ j.at = "load"
    BY <2>2, <2>3 DEF JoinLoadJobs
  <2>5. j \in Jobs
    BY <2>4 DEF Jobs
  <2>. HIDE DEF j
  <2>6. SharedInv'
    <3>1. index' \in [Parents -> PostType]
      BY <2>1, <2>2 DEF TypeInv, SharedInv
    <3>. QED  BY <2>1, <3>1 DEF TypeInv, SharedInv
  <2>. QED  BY <2>1, <2>4, <2>5, <2>6, StageTypes DEF SpawnOps
<1>3. CASE JoinLoad(c)
  <2>. DEFINE p == job[c].parent
              copy == [states[p] EXCEPT !.handoff = job[c].live]
  <2>1. /\ job[c].op = "join" /\ job[c].at = "load"
        /\ job' = [job EXCEPT ![c] = [op |-> "join", at |-> "save", parent |-> p, copy |-> copy]]
        /\ UNCHANGED <<states, leases, index, todos, lock, drawn, doc, setup>>
    BY <1>3 DEF JoinLoad, At, Become
  <2>2. p \in Parents /\ job[c].live \in SUBSET Ids
    BY <2>1, JobShapes DEF TypeInv, JobsInv, JoinLoadJobs
  <2>. HIDE DEF p
  <2>3. FileOK(states[p], p, drawn) /\ states[p] \in FileType
    BY <2>2 DEF TypeInv, FilesInv
  <2>4. copy \in FileType /\ copy.tasks = states[p].tasks /\ copy.exists = states[p].exists
    BY <2>2, <2>3 DEF FileType
  <2>. HIDE DEF copy
  <2>5. FileOK(copy, p, drawn)
    BY <2>3, <2>4 DEF FileOK
  <2>. QED  BY <2>1, <2>2, <2>5, CopyTypes DEF SpawnOps
<1>. QED  BY <1>1, <1>2, <1>3

\* The server dies.
LEMMA CrashTypes == ASSUME TypeInv, Crash PROVE TypeInv'
<1>1. /\ job' = [c \in Procs |-> IF c = Tui THEN job[c] ELSE Idle]
      /\ lock' = IF lock \in {Tui, None} THEN lock ELSE None
      /\ UNCHANGED <<states, leases, index, todos, drawn, doc, setup>>
  BY DEF Crash
<1>2. Idle \in Jobs /\ Idle.op = "none" /\ Idle.at = "idle" /\ None \notin Procs
  BY SetupFacts DEF Jobs, Idle, TypeInv, SharedInv
<1>3. JobsInv'
  <2>1. job' \in [Procs -> Jobs] /\ \A c \in Procs : job'[c] = job[c] \/ job'[c] = Idle
    BY <1>1, <1>2 DEF TypeInv, JobsInv
  <2>. QED  BY <1>1, <1>2, <2>1 DEF TypeInv, JobsInv, SpawnOps
<1>4. LockInv'
  BY <1>1, <1>2 DEF TypeInv, LockInv, SpawnOps
<1>5. FilesInv' /\ SharedInv'
  <2>1. drawn' \in Nat /\ drawn <= drawn'
    BY <1>1, SetupFacts DEF TypeInv, SharedInv
  <2>. QED  BY <1>1, <2>1, QuietFiles, QuietShared
<1>. QED  BY <1>3, <1>4, <1>5 DEF TypeInv

\* A delegate, or a team's first members, begins with the lock.
LEMMA OpenTypes ==
    ASSUME TypeInv, NEW c \in setup.delegators, NEW p \in setup.parents,
           \/ \E a \in Agents : Delegate(c, p, a)
           \/ \E t \in Teams : ScheduleTeam(c, p, t)
    PROVE  TypeInv'
<1>1. c \in Delegators /\ p \in Parents
  BY SetupFacts DEF TypeInv, SharedInv
<1>2. ASSUME NEW a \in Agents, Delegate(c, p, a) PROVE TypeInv'
  <2>1. Spawn(c, "delegate", p, <<a>>, FALSE)
    BY <1>2 DEF Delegate
  <2>2. <<a>> \in Seq(Agents) /\ FALSE \in BOOLEAN
    OBVIOUS
  <2>. QED  BY <1>1, <2>1, <2>2, SpawnTypes DEF SpawnOps
<1>3. ASSUME NEW t \in Teams, ScheduleTeam(c, p, t) PROVE TypeInv'
  <2>. DEFINE members == IF t.sequential THEN <<t.members[1]>> ELSE t.members
  <2>1. t.members \in Seq(Agents) /\ t.members # <<>> /\ t.sequential \in BOOLEAN
    BY ConfigAssumption
  <2>2. t.members[1] \in Agents
    BY <2>1
  <2>3. members \in Seq(Agents)
    BY <2>1, <2>2
  <2>4. Spawn(c, "schedule", p, members, t.sequential)
    BY <1>3 DEF ScheduleTeam
  <2>. HIDE DEF members
  <2>. QED  BY <1>1, <2>1, <2>3, <2>4, SpawnTypes DEF SpawnOps
<1>. QED  BY <1>2, <1>3

\* Every step.
LEMMA NextTypes == TypeInv /\ [Next]_vars => TypeInv'
<1>. SUFFICES ASSUME TypeInv, [Next]_vars PROVE TypeInv'
  OBVIOUS
<1>1. /\ setup.parents \subseteq Parents /\ setup.callers \subseteq Procs
      /\ setup.statuses \subseteq AllStatuses
  BY SetupFacts DEF TypeInv, SharedInv, Procs
<1>2. ASSUME NEW c \in Procs, Step(c) PROVE TypeInv'
  BY <1>2, CountFileTypes, CheckLimitTypes, LoadTypes, LeaseFailsTypes, SavesTypes,
     SpawnSaveFailsTypes, ProjectTypes, TuiTypes, ReleaseLeaseTypes, JoinTypes, SaveFailsTypes
     DEF Step
<1>3. CASE UNCHANGED vars
  BY <1>3 DEF vars, TypeInv, FilesInv, SharedInv, JobsInv, LockInv
<1>4. ASSUME NEW c \in setup.callers, NEW p \in setup.parents, NEW t \in Teams,
             AdvanceSequential(c, p, t)
      PROVE  TypeInv'
  BY <1>1, <1>4, AdvanceTypes
<1>5. ASSUME NEW c \in setup.callers, NEW id \in Ids, NEW s \in setup.statuses,
             UpdateStatus(c, id, s)
      PROVE  TypeInv'
  BY <1>1, <1>5, UpdateTypes
<1>6. ASSUME NEW c \in setup.callers, NEW id \in Ids, Release(c, id) \/ SetHandoff(c, id)
      PROVE  TypeInv'
  <2>1. "completed" \in AllStatuses
    BY DEF AllStatuses
  <2>. QED  BY <1>1, <1>6, <2>1, ReleaseTypes, UpdateTypes
<1>7. ASSUME NEW c \in setup.callers, NEW p \in setup.parents, PollJoin(c, p) PROVE TypeInv'
  BY <1>1, <1>7, PollTypes
<1>8. ASSUME NEW c \in setup.callers, RefreshProjection(c) PROVE TypeInv'
  BY <1>1, <1>8, TuiTypes
<1>. QED  BY <1>2, <1>3, <1>4, <1>5, <1>6, <1>7, <1>8, OpenTypes, TuiTypes, CrashTypes DEF Next

\* Files hold well-formed tasks of their own parent and no id twice, whatever the
\* interleaving of delegates, team schedules, status changes, joins, saves of the TUI's
\* copy, failures and crashes: an old copy that overwrites a newer file loses tasks but
\* never mixes two parents or repeats an id.
THEOREM TasksTypeCorrect == Spec => []TypeOK
<1>1. TypeInv => TypeOK
  <2>. SUFFICES ASSUME TypeInv PROVE TypeOK
    OBVIOUS
  <2>1. ASSUME NEW p \in Parents
        PROVE  /\ states[p].exists \in BOOLEAN /\ TaskSet(states[p]) \subseteq TaskType
               /\ \A t \in TaskSet(states[p]) : ParentOf(t.id) = p
               /\ Distinct(states[p].tasks)
               /\ states[p].handoff \subseteq Ids
               /\ index[p].posted \subseteq Ids /\ index[p].superseded \subseteq Ids
    <3>1. FileOK(states[p], p, drawn) /\ states[p] \in FileType /\ index[p] \in PostType
      BY DEF TypeInv, FilesInv, SharedInv
    <3>2. states[p].exists \in BOOLEAN /\ states[p].handoff \subseteq Ids
      BY <3>1 DEF FileType
    <3>3. index[p].posted \subseteq Ids /\ index[p].superseded \subseteq Ids
      BY <3>1 DEF PostType
    <3>4. TaskSet(states[p]) \subseteq TaskType
      BY <3>1, FileTasks
    <3>5. \A t \in TaskSet(states[p]) : ParentOf(t.id) = p
      BY <3>1 DEF FileOK, TaskSet
    <3>6. Distinct(states[p].tasks)
      <4>1. \A i \in DOMAIN states[p].tasks : states[p].tasks[i].id[3] \in Nat /\ i \in Nat
        BY <3>1, FileTasks
      <4>2. \A i, j \in DOMAIN states[p].tasks :
              i < j => states[p].tasks[i].id[3] < states[p].tasks[j].id[3]
        BY <3>1 DEF FileOK
      <4>3. ASSUME NEW i \in DOMAIN states[p].tasks, NEW j \in DOMAIN states[p].tasks, i # j
            PROVE  states[p].tasks[i].id[3] # states[p].tasks[j].id[3]
        <5>1. i < j \/ j < i
          BY <4>1, <4>3
        <5>. QED  BY <4>1, <4>2, <5>1
      <4>. QED  BY <4>3 DEF Distinct
    <3>. QED  BY <3>2, <3>3, <3>4, <3>5, <3>6
  <2>2. leases \subseteq Ids /\ todos \subseteq Ids /\ drawn \in 0 .. MaxTasks
    BY SetupFacts DEF TypeInv, SharedInv
  <2>3. lock \in Delegators \cup {None} /\ DOMAIN job = Procs
    BY DEF TypeInv, LockInv, JobsInv
  <2>. QED  BY <2>1, <2>2, <2>3 DEF TypeOK
<1>. QED  BY <1>1, InitTypes, NextTypes, PTL DEF Spec

-----------------------------------------------------------------------------
(***************************************************************************)
(* The limit.  A delegate counts the live tasks file by file, loads its    *)
(* parent, and saves; a client that changes a status may save at any point *)
(* in between.  The count is still good when the task is saved because a   *)
(* client's save only takes live tasks away: it writes back what it read,  *)
(* nobody but the holder of the delegate lock adds live tasks to a file,   *)
(* and there is one client, so no older copy brings back a task that a     *)
(* second client completed.  The holder's own save may revive a task: its  *)
(* copy then holds every task that the file holds, and was counted so.     *)
(***************************************************************************)
LiveOf(st) == {t.id : t \in {u \in TaskSet(st) : Live(u)}}
ByAgent(S, a) == {id \in S : AgentOf(id) = a}
LiveAmong(P) == UNION {LiveOf(states[p]) : p \in P}
AtMost(S) == \A a \in Agents : Cardinality(ByAgent(S, a)) <= MaxParallel[a]
NoRepeat(s) == \A i, k \in DOMAIN s : s[i] = s[k] => i = k

\* A client's copy has no live task that is not in the file.
CopyShrinks(j) ==
    j.at = "save" /\ j.op \notin SpawnOps => LiveOf(j.copy) \subseteq LiveOf(states[j.parent])
\* Who does what, in a deployment where the limit is promised.
ClientJob(c, j) ==
    /\ j.op \in {"update", "release", "handoff", "join"} => c \in setup.callers
    /\ j.op # "advance"
\* The live tasks of the files counted so far are at most the count ...
CountJob(j) ==
    j.at = "count" =>
        /\ j.parent \in setup.parents /\ NoRepeat(j.members)
        /\ \A a \in Agents : Cardinality(ByAgent(LiveAmong(Parents \ j.left), a)) <= j.live[a]
\* ... so there is room for one more of each member ...
LoadJob(j) ==
    j.op \in SpawnOps /\ j.at = "load" =>
        /\ j.parent \in setup.parents /\ NoRepeat(j.members)
        /\ \A i \in DOMAIN j.members :
              Cardinality(ByAgent(LiveIds, j.members[i])) < MaxParallel[j.members[i]]
\* ... and none is over its limit once the copy is saved.
SaveJob(j) ==
    j.op \in SpawnOps /\ j.at = "save" =>
        /\ j.parent \in setup.parents
        /\ LiveOf(states[j.parent]) \subseteq LiveOf(j.copy)
        /\ AtMost(LiveAmong(Parents \ {j.parent}) \cup LiveOf(j.copy))
JobLimit(c, j) == ClientJob(c, j) /\ CopyShrinks(j) /\ CountJob(j) /\ LoadJob(j) /\ SaveJob(j)
\* ... which is one that also reads every file it counts in.
Promised == SoleClient /\ ~setup.crowded
LimitInv ==
    /\ AtMost(LiveIds)
    /\ \A p \in Parents \ setup.parents : LiveOf(states[p]) = {}
    /\ \A c \in Procs : JobLimit(c, job[c])

\* There are finitely many ids.
LEMMA FiniteIds == IsFiniteSet(Ids)
<1>. DEFINE Nested == (Parents \X Agents) \X (1 .. MaxTasks)
            f == [x \in Nested |-> <<x[1][1], x[1][2], x[2]>>]
<1>1. IsFiniteSet(1 .. MaxTasks)
  BY CallerAssumption, FS_Interval
<1>2. IsFiniteSet(Parents \X Agents)
  BY CallerAssumption, FS_Product
<1>3. IsFiniteSet(Nested)
  BY <1>1, <1>2, FS_Product
<1>4. f \in Surjection(Nested, Ids)
  <2>1. f \in [Nested -> Ids]
    BY DEF Ids
  <2>2. ASSUME NEW id \in Ids PROVE \E x \in Nested : f[x] = id
    <3>1. PICK p \in Parents, a \in Agents, n \in 1 .. MaxTasks : id = <<p, a, n>>
      BY DEF Ids
    <3>2. << <<p, a>>, n>> \in Nested /\ f[<< <<p, a>>, n>>] = id
      BY <3>1
    <3>. QED  BY <3>2
  <2>. QED  BY <2>1, <2>2 DEF Surjection
<1>. HIDE DEF Nested, f
<1>. QED  BY <1>3, <1>4, FS_Surjection

\* Of fewer ids, no more belong to an agent.
LEMMA FewerIds ==
    ASSUME NEW S, NEW T, S \subseteq T, T \subseteq Ids, NEW a
    PROVE  /\ Cardinality(ByAgent(S, a)) <= Cardinality(ByAgent(T, a))
           /\ Cardinality(ByAgent(S, a)) \in Nat /\ Cardinality(ByAgent(T, a)) \in Nat
           /\ IsFiniteSet(ByAgent(S, a)) /\ IsFiniteSet(ByAgent(T, a))
<1>1. IsFiniteSet(ByAgent(T, a))
  <2>1. ByAgent(T, a) \in SUBSET Ids
    BY DEF ByAgent
  <2>. QED  BY <2>1, FiniteIds, FS_Subset
<1>2. ByAgent(S, a) \in SUBSET ByAgent(T, a)
  BY DEF ByAgent
<1>. QED  BY <1>1, <1>2, FS_Subset, FS_CardinalityType

\* An agent within its limit stays within it.
LEMMA FewerAtMost ==
    ASSUME NEW S, NEW T, S \subseteq T, T \subseteq Ids, AtMost(T) PROVE AtMost(S)
<1>. SUFFICES ASSUME NEW a \in Agents PROVE Cardinality(ByAgent(S, a)) <= MaxParallel[a]
  BY DEF AtMost
<1>1. MaxParallel[a] \in Nat
  BY ConfigAssumption
<1>2. Cardinality(ByAgent(T, a)) <= MaxParallel[a]
  BY DEF AtMost
<1>. QED  BY <1>1, <1>2, FewerIds

\* One agent's ids, of two sets.
LEMMA MoreIds ==
    ASSUME NEW S, NEW T, S \subseteq Ids, T \subseteq Ids, NEW a
    PROVE  Cardinality(ByAgent(S \cup T, a))
             <= Cardinality(ByAgent(S, a)) + Cardinality(ByAgent(T, a))
<1>1. /\ IsFiniteSet(ByAgent(S, a)) /\ Cardinality(ByAgent(S, a)) \in Nat
      /\ IsFiniteSet(ByAgent(T, a)) /\ Cardinality(ByAgent(T, a)) \in Nat
  BY FewerIds
<1>. DEFINE A == ByAgent(S, a)
            B == ByAgent(T, a)
            x == Cardinality(A)
            y == Cardinality(B)
            z == Cardinality(A \cap B)
<1>2. ByAgent(S \cup T, a) = A \cup B
  BY DEF ByAgent
<1>. HIDE DEF A, B
<1>3. z \in Nat
  <2>1. A \cap B \in SUBSET A
    OBVIOUS
  <2>2. IsFiniteSet(A)
    BY <1>1 DEF A
  <2>. QED  BY <2>1, <2>2, FS_Subset, FS_CardinalityType
<1>4. Cardinality(A \cup B) = x + y - z
  BY <1>1, FS_Union DEF A, B
<1>5. x \in Nat /\ y \in Nat
  BY <1>1 DEF A, B
<1>. HIDE DEF x, y, z
<1>6. x + y - z <= x + y
  BY <1>3, <1>5
<1>. QED  BY <1>2, <1>4, <1>6 DEF x, y, A, B

\* The live tasks of a file are ids.
LEMMA LiveOfIds ==
    ASSUME NEW st, NEW p, NEW n, FileOK(st, p, n) PROVE LiveOf(st) \subseteq Ids
BY FileTasks DEF LiveOf

\* The live tasks of several files, and of all.
LEMMA LiveAmongIds ==
    ASSUME FilesInv, NEW P \in SUBSET Parents
    PROVE  LiveAmong(P) \subseteq Ids /\ LiveIds = LiveAmong(Parents) /\ LiveIds \subseteq Ids
<1>1. \A p \in Parents : LiveOf(states[p]) \subseteq Ids
  BY LiveOfIds DEF FilesInv
<1>2. LiveIds = LiveAmong(Parents)
  BY DEF LiveIds, LiveIdsOf, LiveAmong, LiveOf
<1>. QED  BY <1>1, <1>2 DEF LiveAmong

\* The one client.
LEMMA OneClient ==
    ASSUME SoleClient, setup \in Setups, NEW c \in setup.callers, NEW d \in setup.callers
    PROVE  c = d
<1>1. IsFiniteSet(setup.callers)
  <2>1. setup.callers \in SUBSET Callers /\ IsFiniteSet(Callers)
    BY CallerAssumption
  <2>. QED  BY <2>1, FS_Subset
<1>2. Cardinality(setup.callers) \in Nat /\ Cardinality(setup.callers) <= 1
  BY <1>1, FS_CardinalityType DEF SoleClient
<1>3. CASE Cardinality(setup.callers) = 0
  <2>1. setup.callers = {}
    BY <1>1, <1>3, FS_EmptySet
  <2>. QED  BY <2>1
<1>4. CASE Cardinality(setup.callers) = 1
  <2>1. \E x : setup.callers = {x}
    BY <1>1, <1>4, FS_Singleton
  <2>. QED  BY <2>1
<1>. QED  BY <1>2, <1>3, <1>4

\* A step that writes no file: one caller goes on to j.
LEMMA LimitStep ==
    ASSUME TypeInv, LimitInv, NEW c \in Procs, NEW j, job' = [job EXCEPT ![c] = j],
           UNCHANGED <<states, setup>>, JobLimit(c, j)
    PROVE  LimitInv'
<1>1. job \in [Procs -> Jobs]
  BY DEF TypeInv, JobsInv
<1>2. job'[c] = j /\ \A d \in Procs : d # c => job'[d] = job[d]
  BY <1>1
<1>3. LiveIds' = LiveIds /\ \A P : LiveAmong(P)' = LiveAmong(P)
  BY DEF LiveIds, LiveIdsOf, LiveAmong
<1>4. \A d \in Procs : JobLimit(d, job'[d])
  BY <1>2 DEF LimitInv
<1>5. \A d \in Procs : JobLimit(d, job[d])'
  BY <1>3, <1>4 DEF JobLimit, ClientJob, CopyShrinks, CountJob, LoadJob, SaveJob, AtMost
<1>6. AtMost(LiveIds)'
  BY <1>3 DEF LimitInv, AtMost
<1>. QED  BY <1>5, <1>6 DEF LimitInv

\* A job that neither counts nor saves promises nothing.
LEMMA PlainJob ==
    ASSUME NEW c, NEW j, ClientJob(c, j), j.at \notin {"count", "save"},
           j.op \in SpawnOps => j.at # "load"
    PROVE  JobLimit(c, j)
BY DEF JobLimit, CopyShrinks, CountJob, LoadJob, SaveJob

\* The holder of the lock: what it has counted stays true while live tasks go away.
LEMMA HolderKeeps ==
    ASSUME TypeInv, TypeInv', LimitInv, setup' = setup,
           \A q \in Parents : LiveOf(states'[q]) \subseteq LiveOf(states[q]),
           NEW d \in Procs, job'[d] = job[d]
    PROVE  CountJob(job[d])' /\ LoadJob(job[d])' /\ SaveJob(job[d])'
<1>. DEFINE j == job[d]
<1>1. JobLimit(d, j) /\ j \in Jobs
  BY DEF LimitInv, TypeInv, JobsInv
<1>2. ASSUME NEW P \in SUBSET Parents
      PROVE  LiveAmong(P)' \subseteq LiveAmong(P) /\ LiveAmong(P) \subseteq Ids
             /\ LiveIds' \subseteq LiveIds /\ LiveIds \subseteq Ids
  <2>1. LiveAmong(P) \subseteq Ids /\ LiveIds \subseteq Ids /\ LiveIds = LiveAmong(Parents)
    BY LiveAmongIds DEF TypeInv
  <2>2. \A Q \in SUBSET Parents : LiveAmong(Q)' \subseteq LiveAmong(Q)
    BY DEF LiveAmong
  <2>3. LiveIds' = LiveAmong(Parents)'
    BY DEF LiveIds, LiveIdsOf, LiveAmong, LiveOf
  <2>. QED  BY <2>1, <2>2, <2>3
<1>3. CountJob(job[d])'
  <2>. SUFFICES ASSUME j.at = "count"
                PROVE  /\ j.parent \in setup.parents /\ NoRepeat(j.members)
                       /\ \A a \in Agents :
                             Cardinality(ByAgent(LiveAmong(Parents \ j.left)', a)) <= j.live[a]
    BY DEF CountJob, ByAgent
  <2>1. /\ j.parent \in setup.parents /\ NoRepeat(j.members)
        /\ \A a \in Agents : Cardinality(ByAgent(LiveAmong(Parents \ j.left), a)) <= j.live[a]
    BY <1>1 DEF JobLimit, CountJob
  <2>2. j.live \in [Agents -> Nat]
    BY <1>1, JobShapes DEF CountJobs
  <2>3. ASSUME NEW a \in Agents
        PROVE  Cardinality(ByAgent(LiveAmong(Parents \ j.left)', a)) <= j.live[a]
    <3>1. /\ Cardinality(ByAgent(LiveAmong(Parents \ j.left)', a))
                <= Cardinality(ByAgent(LiveAmong(Parents \ j.left), a))
          /\ Cardinality(ByAgent(LiveAmong(Parents \ j.left)', a)) \in Nat
          /\ Cardinality(ByAgent(LiveAmong(Parents \ j.left), a)) \in Nat
      BY <1>2, FewerIds
    <3>2. Cardinality(ByAgent(LiveAmong(Parents \ j.left), a)) <= j.live[a] /\ j.live[a] \in Nat
      BY <2>1, <2>2
    <3>. QED  BY <3>1, <3>2
  <2>. QED  BY <2>1, <2>3
<1>4. LoadJob(job[d])'
  <2>. SUFFICES ASSUME j.op \in SpawnOps, j.at = "load"
                PROVE  /\ j.parent \in setup.parents /\ NoRepeat(j.members)
                       /\ \A i \in DOMAIN j.members :
                             Cardinality(ByAgent(LiveIds', j.members[i])) < MaxParallel[j.members[i]]
    BY DEF LoadJob, ByAgent
  <2>1. /\ j.parent \in setup.parents /\ NoRepeat(j.members)
        /\ \A i \in DOMAIN j.members :
              Cardinality(ByAgent(LiveIds, j.members[i])) < MaxParallel[j.members[i]]
    BY <1>1 DEF JobLimit, LoadJob
  <2>2. j.members \in Seq(Agents)
    BY <1>1, JobShapes DEF LoadJobs
  <2>3. ASSUME NEW i \in DOMAIN j.members
        PROVE  Cardinality(ByAgent(LiveIds', j.members[i])) < MaxParallel[j.members[i]]
    <3>1. /\ Cardinality(ByAgent(LiveIds', j.members[i])) <= Cardinality(ByAgent(LiveIds, j.members[i]))
          /\ Cardinality(ByAgent(LiveIds', j.members[i])) \in Nat
          /\ Cardinality(ByAgent(LiveIds, j.members[i])) \in Nat
      BY <1>2, FewerIds
    <3>2. MaxParallel[j.members[i]] \in Nat
      <4>1. j.members[i] \in Agents
        BY <2>2
      <4>. QED  BY <4>1, ConfigAssumption
    <3>3. Cardinality(ByAgent(LiveIds, j.members[i])) < MaxParallel[j.members[i]]
      BY <2>1
    <3>. QED  BY <3>1, <3>2, <3>3
  <2>. QED  BY <2>1, <2>3
<1>5. SaveJob(job[d])'
  <2>. SUFFICES ASSUME j.op \in SpawnOps, j.at = "save"
                PROVE  /\ j.parent \in setup.parents
                       /\ LiveOf(states'[j.parent]) \subseteq LiveOf(j.copy)
                       /\ AtMost(LiveAmong(Parents \ {j.parent})' \cup LiveOf(j.copy))
    BY DEF SaveJob, AtMost, ByAgent, LiveOf
  <2>1. /\ j.parent \in setup.parents
        /\ LiveOf(states[j.parent]) \subseteq LiveOf(j.copy)
        /\ AtMost(LiveAmong(Parents \ {j.parent}) \cup LiveOf(j.copy))
    BY <1>1 DEF JobLimit, SaveJob
  <2>2. j.parent \in Parents
    BY <1>1, JobShapes DEF SpawnSaveJobs
  <2>3. LiveOf(j.copy) \subseteq Ids
    BY LiveOfIds DEF TypeInv, JobsInv
  <2>4. AtMost(LiveAmong(Parents \ {j.parent})' \cup LiveOf(j.copy))
    <3>1. LiveAmong(Parents \ {j.parent})' \cup LiveOf(j.copy)
            \subseteq LiveAmong(Parents \ {j.parent}) \cup LiveOf(j.copy)
          /\ LiveAmong(Parents \ {j.parent}) \cup LiveOf(j.copy) \subseteq Ids
      BY <1>2, <2>3
    <3>. QED  BY <2>1, <3>1, FewerAtMost
  <2>. QED  BY <2>1, <2>2, <2>4
<1>. QED  BY <1>3, <1>4, <1>5

\* The client saves: live tasks only go away, and there is no other client's copy.
LEMMA ClientSaveLimit ==
    ASSUME TypeInv, TypeInv', LimitInv, SoleClient, NEW c \in Procs, Write(c), job[c].at = "save",
           job[c].op \in {"update", "release", "handoff", "join"},
           NEW j, job' = [job EXCEPT ![c] = j], ClientJob(c, j), j.at \in {"idle", "lease", "project"},
           setup' = setup
    PROVE  LimitInv'
<1>1. /\ job[c].parent \in Parents /\ c \in setup.callers
      /\ LiveOf(job[c].copy) \subseteq LiveOf(states[job[c].parent])
  <2>1. JobLimit(c, job[c])
    BY DEF LimitInv
  <2>2. job[c] \in ReleaseSaveJobs \cup SaveJobs
    BY JobShapes DEF TypeInv, JobsInv
  <2>. QED  BY <2>1, <2>2 DEF JobLimit, ClientJob, CopyShrinks, SpawnOps, ReleaseSaveJobs, SaveJobs
<1>2. \A q \in Parents : LiveOf(states'[q]) \subseteq LiveOf(states[q])
  <2>1. states \in [Parents -> FileType] /\ states' = [states EXCEPT ![job[c].parent] = job[c].copy]
    BY DEF TypeInv, FilesInv, Write
  <2>. QED  BY <1>1, <2>1
<1>3. job'[c] = j /\ \A d \in Procs : d # c => job'[d] = job[d]
  BY DEF TypeInv, JobsInv
<1>4. AtMost(LiveIds)'
  <2>1. LiveIds' \subseteq LiveIds
    <3>1. LiveIds = LiveAmong(Parents) /\ LiveIds' = LiveAmong(Parents)'
      BY DEF LiveIds, LiveIdsOf, LiveAmong, LiveOf
    <3>2. LiveAmong(Parents)' \subseteq LiveAmong(Parents)
      BY <1>2 DEF LiveAmong
    <3>. QED  BY <3>1, <3>2
  <2>2. LiveIds \subseteq Ids
    BY LiveAmongIds DEF TypeInv
  <2>3. AtMost(LiveIds')
    BY <2>1, <2>2, FewerAtMost DEF LimitInv
  <2>. QED  BY <2>3 DEF AtMost, ByAgent
<1>5. \A p \in Parents \ setup'.parents : LiveOf(states'[p]) = {}
  BY <1>2 DEF LimitInv
<1>6. ASSUME NEW d \in Procs PROVE JobLimit(d, job[d])'
  <2>1. CASE d = c
    <3>1. job'[d] = j
      BY <1>3, <2>1
    <3>2. ClientJob(d, job[d])'
      BY <2>1, <3>1 DEF ClientJob
    <3>. QED  BY <3>1, <3>2 DEF JobLimit, CopyShrinks, CountJob, LoadJob, SaveJob
  <2>2. CASE d # c
    <3>1. job'[d] = job[d] /\ JobLimit(d, job[d]) /\ job[d] \in Jobs
      BY <1>3, <2>2 DEF LimitInv, TypeInv, JobsInv
    <3>2. CountJob(job[d])' /\ LoadJob(job[d])' /\ SaveJob(job[d])'
      BY <1>2, <3>1, HolderKeeps
    <3>3. ClientJob(d, job[d])'
      BY <3>1 DEF ClientJob, JobLimit
    <3>4. ~(job[d].at = "save" /\ job[d].op \notin SpawnOps)
      <4>. SUFFICES ASSUME job[d].at = "save", job[d].op \notin SpawnOps PROVE FALSE
        OBVIOUS
      <4>1. job[d].op \in {"update", "handoff", "advance", "join", "release"}
        BY <3>1 DEF Jobs, Idle, CountJobs, LoadJobs, SpawnSaveJobs, ProjectJobs, ReleaseJobs,
             RollupJobs, SyncJobs, SaveJobs, ReleaseSaveJobs, PostJobs, JoinLoadJobs, SpawnOps
      <4>2. d \in setup.callers
        BY <3>1, <4>1 DEF JobLimit, ClientJob
      <4>. QED  BY <1>1, <2>2, <4>2, OneClient DEF TypeInv, SharedInv
    <3>5. CopyShrinks(job[d])'
      BY <3>1, <3>4 DEF CopyShrinks
    <3>. QED  BY <3>2, <3>3, <3>5 DEF JobLimit
  <2>. QED  BY <2>1, <2>2
<1>. QED  BY <1>4, <1>5, <1>6 DEF LimitInv

\* The holder saves: what it counted becomes what the files hold.
LEMMA SpawnSaveLimit ==
    ASSUME TypeInv, TypeInv', LimitInv, NEW c \in Procs, SpawnSave(c) PROVE LimitInv'
<1>. DEFINE p == job[c].parent
            copy == job[c].copy
            j == [op |-> job[c].op, at |-> "project"]
<1>1. /\ job[c].op \in SpawnOps /\ job[c].at = "save" /\ setup' = setup /\ lock' = lock
      /\ states' = [states EXCEPT ![p] = copy] /\ job' = [job EXCEPT ![c] = j]
  BY DEF SpawnSave, SpawnOps, Write, Become
<1>2. p \in Parents /\ job[c] \in SpawnSaveJobs
  BY <1>1, JobShapes DEF SpawnSaveJobs, TypeInv, JobsInv
<1>3. /\ p \in setup.parents /\ LiveOf(states[p]) \subseteq LiveOf(copy)
      /\ AtMost(LiveAmong(Parents \ {p}) \cup LiveOf(copy))
  BY <1>1 DEF LimitInv, JobLimit, SaveJob
<1>4. /\ states'[p] = copy /\ \A q \in Parents : q # p => states'[q] = states[q]
      /\ job'[c] = j /\ \A d \in Procs : d # c => job'[d] = job[d]
  BY <1>1, <1>2 DEF TypeInv, FilesInv, JobsInv
<1>. HIDE DEF p, copy
<1>5. AtMost(LiveIds)'
  <2>1. LiveIds' = LiveAmong(Parents)'
    BY DEF LiveIds, LiveIdsOf, LiveAmong, LiveOf
  <2>2. LiveAmong(Parents)' \subseteq LiveAmong(Parents \ {p}) \cup LiveOf(copy)
    BY <1>2, <1>4 DEF LiveAmong
  <2>3. LiveAmong(Parents \ {p}) \cup LiveOf(copy) \subseteq Ids
    <3>1. LiveAmong(Parents \ {p}) \subseteq Ids
      BY LiveAmongIds DEF TypeInv
    <3>2. LiveOf(copy) \subseteq Ids
      BY <1>1, LiveOfIds DEF TypeInv, JobsInv, copy
    <3>. QED  BY <3>1, <3>2
  <2>4. AtMost(LiveIds')
    BY <1>3, <2>1, <2>2, <2>3, FewerAtMost
  <2>. QED  BY <2>4 DEF AtMost, ByAgent
<1>6. \A q \in Parents \ setup'.parents : LiveOf(states'[q]) = {}
  BY <1>1, <1>3, <1>4 DEF LimitInv
<1>7. ASSUME NEW d \in Procs PROVE JobLimit(d, job[d])'
  <2>1. CASE d = c
    <3>1. job'[d] = j /\ j.at = "project" /\ j.op \in SpawnOps
      BY <1>1, <1>4, <2>1
    <3>. QED  BY <3>1 DEF JobLimit, ClientJob, CopyShrinks, CountJob, LoadJob, SaveJob, SpawnOps
  <2>2. CASE d # c
    <3>1. job'[d] = job[d] /\ JobLimit(d, job[d]) /\ job[d] \in Jobs
      BY <1>4, <2>2 DEF LimitInv, TypeInv, JobsInv
    <3>2. job[d].op \notin SpawnOps
      BY <1>1, <2>2 DEF TypeInv, LockInv
    <3>3. ClientJob(d, job[d])'
      BY <1>1, <3>1 DEF ClientJob, JobLimit
    <3>4. job[d].at # "count"
      BY <3>1, <3>2, JobShapes DEF CountJobs
    <3>5. CopyShrinks(job[d])'
      <4>. SUFFICES ASSUME job[d].at = "save"
                    PROVE  LiveOf(job[d].copy) \subseteq LiveOf(states'[job[d].parent])
        BY <3>1 DEF CopyShrinks
      <4>1. LiveOf(job[d].copy) \subseteq LiveOf(states[job[d].parent])
        BY <3>1, <3>2 DEF JobLimit, CopyShrinks
      <4>2. job[d].parent \in Parents
        <5>1. job[d].op \in {"update", "handoff", "advance", "join", "release"}
          BY <3>1, <3>2 DEF Jobs, Idle, CountJobs, LoadJobs, SpawnSaveJobs, ProjectJobs,
             ReleaseJobs, RollupJobs, SyncJobs, SaveJobs, ReleaseSaveJobs, PostJobs, JoinLoadJobs,
             SpawnOps
        <5>2. job[d] \in SaveJobs \cup ReleaseSaveJobs
          BY <3>1, <5>1, JobShapes
        <5>. QED  BY <5>2 DEF SaveJobs, ReleaseSaveJobs
      <4>. QED  BY <1>3, <1>4, <4>1, <4>2
    <3>. QED  BY <3>1, <3>2, <3>3, <3>4, <3>5 DEF JobLimit, CountJob, LoadJob, SaveJob
  <2>. QED  BY <2>1, <2>2
<1>. QED  BY <1>5, <1>6, <1>7 DEF LimitInv

\* The lock is taken: nothing has been counted, and nothing is outside the deployment.
LEMMA SpawnLimit ==
    ASSUME TypeInv, LimitInv, NEW c \in Procs, NEW op \in SpawnOps, NEW p \in setup.parents,
           NEW members \in Seq(Agents), NoRepeat(members), NEW sequential,
           ~setup.crowded, "load" \notin setup.faults, Spawn(c, op, p, members, sequential)
    PROVE  LimitInv'
<1>. DEFINE zero == [a \in Agents |-> 0]
            j == [op |-> op, at |-> "count", parent |-> p, members |-> members,
                  sequential |-> sequential, left |-> setup.parents, live |-> zero]
<1>1. job' = [job EXCEPT ![c] = j] /\ UNCHANGED <<states, setup>>
  <2>1. PICK missed \in Overlooked :
          job' = [job EXCEPT ![c] = [op |-> op, at |-> "count", parent |-> p, members |-> members,
                                     sequential |-> sequential, left |-> setup.parents \ missed,
                                     live |-> zero]]
    BY DEF Spawn, Counting, Become
  <2>2. missed = {}
    BY FullScan
  <2>3. setup.parents \ {} = setup.parents
    OBVIOUS
  <2>4. UNCHANGED <<states, setup>>
    BY DEF Spawn
  <2>. QED  BY <2>1, <2>2, <2>3, <2>4
<1>2. /\ j.op = op /\ j.at = "count" /\ j.parent = p /\ j.members = members
      /\ j.left = setup.parents /\ j.live = zero
  OBVIOUS
<1>3. \A a \in Agents : Cardinality(ByAgent(LiveAmong(Parents \ setup.parents), a)) <= zero[a]
  <2>1. LiveAmong(Parents \ setup.parents) = {}
    BY DEF LiveAmong, LimitInv
  <2>2. \A a : ByAgent({}, a) = {}
    BY DEF ByAgent
  <2>3. Cardinality({}) = 0
    BY FS_EmptySet
  <2>4. \A a : Cardinality(ByAgent(LiveAmong(Parents \ setup.parents), a)) = 0
    BY <2>1, <2>2, <2>3, Zenon
  <2>5. \A a \in Agents : zero[a] = 0
    OBVIOUS
  <2>. HIDE DEF zero
  <2>6. ASSUME NEW a \in Agents
        PROVE  Cardinality(ByAgent(LiveAmong(Parents \ setup.parents), a)) <= zero[a]
    <3>1. Cardinality(ByAgent(LiveAmong(Parents \ setup.parents), a)) = 0 /\ zero[a] = 0
      BY <2>4, <2>5
    <3>2. 0 <= 0
      OBVIOUS
    <3>. QED  BY <3>1, <3>2, Zenon
  <2>. QED  BY <2>6
<1>. HIDE DEF j, zero
<1>4. JobLimit(c, j)
  BY <1>2, <1>3 DEF JobLimit, ClientJob, CopyShrinks, CountJob, LoadJob, SaveJob, SpawnOps
<1>. QED  BY <1>1, <1>4, LimitStep

\* Counting a file counts at least its live ids.
LEMMA CountIds ==
    ASSUME FilesInv, NEW p \in Parents, NEW a
    PROVE  Cardinality(ByAgent(LiveOf(states[p]), a)) <= LiveIn(p, a)
<1>. DEFINE T == {t \in TaskSet(states[p]) : Live(t) /\ AgentOf(t.id) = a}
            f == [t \in T |-> t.id]
<1>1. IsFiniteSet(TaskSet(states[p]))
  BY FiniteTasks DEF FilesInv
<1>2. IsFiniteSet(T)
  BY <1>1, FS_Subset
<1>3. f \in Surjection(T, ByAgent(LiveOf(states[p]), a))
  BY DEF Surjection, ByAgent, LiveOf
<1>. HIDE DEF f
<1>4. Cardinality(ByAgent(LiveOf(states[p]), a)) <= Cardinality(T)
  BY <1>2, <1>3, FS_Surjection
<1>. QED  BY <1>4 DEF LiveIn

\* One more file is counted.
LEMMA CountFileLimit ==
    ASSUME TypeInv, LimitInv, NEW c \in Procs, NEW p \in Parents, CountFile(c, p)
    PROVE  LimitInv'
<1>. DEFINE live == [a \in Agents |-> job[c].live[a] + LiveIn(p, a)]
            left == job[c].left \ {p}
            j == [job[c] EXCEPT !.left = left, !.live = live]
<1>1. /\ job[c].at = "count" /\ job' = [job EXCEPT ![c] = j] /\ UNCHANGED <<states, setup>>
      /\ p \in job[c].left
  BY DEF CountFile, Become
<1>2. job[c] \in CountJobs /\ JobLimit(c, job[c])
  BY <1>1, JobShapes DEF TypeInv, JobsInv, LimitInv
<1>3. ASSUME NEW a \in Agents
      PROVE  Cardinality(ByAgent(LiveAmong(Parents \ left), a)) <= live[a]
  <2>. DEFINE S == LiveAmong(Parents \ job[c].left)
              T == LiveOf(states[p])
              x == Cardinality(ByAgent(S, a))
              y == Cardinality(ByAgent(T, a))
              z == Cardinality(ByAgent(LiveAmong(Parents \ left), a))
              l == job[c].live[a]
              n == LiveIn(p, a)
  <2>1. LiveAmong(Parents \ left) \subseteq S \cup T /\ S \cup T \subseteq Ids
    <3>1. LiveAmong(Parents \ left) \subseteq S \cup T
      BY DEF LiveAmong
    <3>2. S \subseteq Ids
      BY LiveAmongIds DEF TypeInv
    <3>3. T \subseteq Ids
      BY LiveOfIds DEF TypeInv, FilesInv
    <3>. QED  BY <3>1, <3>2, <3>3
  <2>. HIDE DEF S, T
  <2>2. z <= Cardinality(ByAgent(S \cup T, a)) /\ z \in Nat
        /\ Cardinality(ByAgent(S \cup T, a)) \in Nat
    BY <2>1, FewerIds
  <2>3. Cardinality(ByAgent(S \cup T, a)) <= x + y /\ x \in Nat /\ y \in Nat
    <3>1. S \subseteq Ids /\ T \subseteq Ids
      BY <2>1
    <3>. QED  BY <3>1, MoreIds, FewerIds
  <2>4. x <= l /\ l \in Nat
    BY <1>1, <1>2 DEF JobLimit, CountJob, CountJobs, S
  <2>5. y <= n /\ n \in Nat
    BY CountIds, CountsAreNumbers DEF TypeInv, T
  <2>6. live[a] = l + n
    OBVIOUS
  <2>. HIDE DEF x, y, z, l, n, live
  <2>7. z <= l + n
    BY <2>2, <2>3, <2>4, <2>5
  <2>. QED  BY <2>6, <2>7 DEF z
<1>. HIDE DEF live, left
<1>4. /\ j.op = job[c].op /\ j.at = "count" /\ j.parent = job[c].parent /\ j.members = job[c].members
      /\ j.left = left /\ j.live = live
  BY <1>1, <1>2 DEF CountJobs
<1>. HIDE DEF j
<1>5. JobLimit(c, j)
  BY <1>1, <1>2, <1>3, <1>4 DEF JobLimit, ClientJob, CopyShrinks, CountJob, LoadJob, SaveJob
<1>. QED  BY <1>1, <1>5, LimitStep

\* With every file counted and no member at its limit, there is room.
LEMMA CheckLimitLimit ==
    ASSUME TypeInv, LimitInv, NEW c \in Procs, CheckLimit(c) PROVE LimitInv'
<1>1. job[c].at = "count" /\ job[c].left = {} /\ UNCHANGED <<states, setup>>
  BY DEF CheckLimit
<1>2. job[c] \in CountJobs /\ JobLimit(c, job[c])
  BY <1>1, JobShapes DEF TypeInv, JobsInv, LimitInv
<1>3. CASE GiveUp(c)
  <2>1. JobLimit(c, Idle)
    BY PlainJob DEF ClientJob, Idle, SpawnOps
  <2>. QED  BY <1>1, <1>3, <2>1, LimitStep DEF GiveUp, Finish, Become
<1>4. CASE ~GiveUp(c)
  <2>. DEFINE members == job[c].members
              j == [op |-> job[c].op, at |-> "load", parent |-> job[c].parent,
                    members |-> members, sequential |-> job[c].sequential]
  <2>1. /\ job' = [job EXCEPT ![c] = j]
        /\ \A i \in DOMAIN members : ~(job[c].live[members[i]] >= MaxParallel[members[i]])
    BY <1>4 DEF CheckLimit, Become
  <2>2. /\ j.op = job[c].op /\ j.at = "load" /\ j.parent = job[c].parent /\ j.members = members
        /\ j.op \in SpawnOps
    BY <1>2 DEF CountJobs
  <2>3. members \in Seq(Agents) /\ job[c].live \in [Agents -> Nat]
    BY <1>2 DEF CountJobs
  <2>. HIDE DEF members
  <2>4. ASSUME NEW i \in DOMAIN members
        PROVE  Cardinality(ByAgent(LiveIds, members[i])) < MaxParallel[members[i]]
    <3>1. members[i] \in Agents
      BY <2>3
    <3>2. Cardinality(ByAgent(LiveAmong(Parents \ job[c].left), members[i])) <= job[c].live[members[i]]
      BY <1>1, <1>2, <3>1 DEF JobLimit, CountJob
    <3>3. LiveAmong(Parents \ job[c].left) = LiveIds /\ LiveIds \subseteq Ids
      <4>1. Parents \ job[c].left = Parents
        BY <1>1
      <4>. QED  BY <4>1, LiveAmongIds DEF TypeInv
    <3>. DEFINE x == Cardinality(ByAgent(LiveIds, members[i]))
                l == job[c].live[members[i]]
                m == MaxParallel[members[i]]
    <3>4. x \in Nat
      BY <3>3, FewerIds
    <3>5. x <= l
      BY <3>2, <3>3
    <3>6. l \in Nat /\ m \in Nat /\ ~(l >= m)
      BY <2>1, <2>3, <3>1, ConfigAssumption
    <3>. HIDE DEF x, l, m
    <3>7. x < m
      BY <3>4, <3>5, <3>6
    <3>. QED  BY <3>7 DEF x, m
  <2>5. j.parent \in setup.parents /\ NoRepeat(j.members)
    BY <1>1, <1>2, <2>2 DEF JobLimit, CountJob, members
  <2>. HIDE DEF j
  <2>6. JobLimit(c, j)
    <3>1. LoadJob(j)
      BY <2>2, <2>4, <2>5 DEF LoadJob
    <3>. QED  BY <2>2, <3>1 DEF JobLimit, ClientJob, CopyShrinks, CountJob, SaveJob, SpawnOps
  <2>. QED  BY <1>1, <2>1, <2>6, LimitStep
<1>. QED  BY <1>3, <1>4

\* The copy has the live tasks of the file and the new ones.
LEMMA AddedLive ==
    ASSUME NEW p \in Parents, NEW n \in Nat, NEW st, FileOK(st, p, n), st.exists,
           NEW ids \in Seq(Ids), NEW sequential,
           \A i \in DOMAIN ids : ParentOf(ids[i]) = p /\ ids[i][3] = n + i
    PROVE  LiveOf(Added(st, ids, sequential)) = LiveOf(st) \cup {ids[i] : i \in DOMAIN ids}
<1>. DEFINE copy == Added(st, ids, sequential)
            k == Len(st.tasks)
            m == Len(ids)
<1>1. k \in Nat /\ m \in Nat /\ DOMAIN st.tasks = 1 .. k /\ DOMAIN ids = 1 .. m /\ n + m \in Nat
  BY FileTasks
<1>2. /\ FileOK(copy, p, n + m) /\ Len(copy.tasks) = k + m
      /\ \A i \in 1 .. k : copy.tasks[i] = st.tasks[i]
      /\ \A i \in 1 .. m : copy.tasks[k + i] = NewTask(st, ids[i], sequential)
  BY <1>1, AddedFile
<1>3. DOMAIN copy.tasks = 1 .. (k + m)
  BY <1>2, FileTasks
<1>. HIDE DEF copy, k, m
<1>4. \A i \in 1 .. m : copy.tasks[k + i].id = ids[i] /\ Live(copy.tasks[k + i])
  <2>1. \A id : NewTask(st, id, sequential).id = id /\ Live(NewTask(st, id, sequential))
    BY DEF NewTask, Live, LiveStatuses
  <2>. QED  BY <1>2, <2>1, Zenon
<1>5. \A i \in 1 .. (k + m) : i \in 1 .. k \/ \E h \in 1 .. m : i = k + h
  <2>. SUFFICES ASSUME NEW i \in 1 .. (k + m), i \notin 1 .. k PROVE \E h \in 1 .. m : i = k + h
    OBVIOUS
  <2>1. i - k \in 1 .. m /\ i = k + (i - k)
    BY <1>1
  <2>. QED  BY <2>1
<1>6. ASSUME NEW x \in LiveOf(copy) PROVE x \in LiveOf(st) \cup {ids[i] : i \in DOMAIN ids}
  <2>1. PICK i \in 1 .. (k + m) : x = copy.tasks[i].id /\ Live(copy.tasks[i])
    BY <1>3 DEF LiveOf, TaskSet
  <2>2. CASE i \in 1 .. k
    BY <1>1, <1>2, <2>1, <2>2 DEF LiveOf, TaskSet
  <2>3. CASE \E h \in 1 .. m : i = k + h
    BY <1>1, <1>4, <2>1, <2>3
  <2>. QED  BY <1>5, <2>2, <2>3
<1>7. ASSUME NEW x \in LiveOf(st) PROVE x \in LiveOf(copy)
  <2>1. PICK i \in 1 .. k : x = st.tasks[i].id /\ Live(st.tasks[i])
    BY <1>1 DEF LiveOf, TaskSet
  <2>2. i \in 1 .. (k + m) /\ copy.tasks[i] = st.tasks[i]
    BY <1>1, <1>2
  <2>. QED  BY <1>3, <2>1, <2>2 DEF LiveOf, TaskSet
<1>8. ASSUME NEW i \in DOMAIN ids PROVE ids[i] \in LiveOf(copy)
  <2>1. i \in 1 .. m /\ k + i \in 1 .. (k + m)
    BY <1>1
  <2>. QED  BY <1>3, <1>4, <2>1 DEF LiveOf, TaskSet
<1>. QED  BY <1>6, <1>7, <1>8 DEF copy

\* The copy of a delegate or a schedule keeps every agent within its limit.
LEMMA PrepareLimit ==
    ASSUME TypeInv, LimitInv, NEW c \in Procs, job[c] \in LoadJobs,
           Prepare(c, Loaded(job[c].parent))
    PROVE  LimitInv'
<1>. DEFINE p == job[c].parent
            st == Loaded(p)
            ids == NewIds(c)
            copy == Added(st, ids, job[c].sequential)
            members == job[c].members
            j == [op |-> job[c].op, at |-> "save", parent |-> p, ids |-> ids, copy |-> copy]
<1>1. job' = [job EXCEPT ![c] = j] /\ UNCHANGED <<states, setup>>
  BY DEF Prepare, Become
<1>2. /\ p \in Parents /\ members \in Seq(Agents) /\ job[c].op \in SpawnOps /\ job[c].at = "load"
  BY DEF LoadJobs
<1>3. /\ p \in setup.parents /\ NoRepeat(members)
      /\ \A i \in DOMAIN members : Cardinality(ByAgent(LiveIds, members[i])) < MaxParallel[members[i]]
  BY <1>2 DEF LimitInv, JobLimit, LoadJob
<1>4. /\ ids \in Seq(Ids) /\ DOMAIN ids = DOMAIN members
      /\ \A i \in DOMAIN ids : ids[i] = <<p, members[i], drawn + i>>
      /\ \A i \in DOMAIN ids : ParentOf(ids[i]) = p /\ ids[i][3] = drawn + i
  BY <1>2, NewIdsTypes
<1>5. FileOK(st, p, drawn) /\ st.exists /\ LiveOf(st) = LiveOf(states[p]) /\ drawn \in Nat
  <2>1. FileOK(st, p, drawn) /\ st.exists /\ st.tasks = states[p].tasks
    BY <1>2, LoadedFile
  <2>2. LiveOf(st) = LiveOf(states[p])
    BY <2>1 DEF LiveOf, TaskSet
  <2>3. drawn \in Nat
    BY SetupFacts DEF TypeInv, SharedInv
  <2>. QED  BY <2>1, <2>2, <2>3
<1>. HIDE DEF p, st, ids, members
<1>6. LiveOf(copy) = LiveOf(states[p]) \cup {ids[i] : i \in DOMAIN ids}
  <2>1. ids \in Seq(Ids) /\ \A i \in DOMAIN ids : ParentOf(ids[i]) = p /\ ids[i][3] = drawn + i
    BY <1>4
  <2>2. LiveOf(copy) = LiveOf(st) \cup {ids[i] : i \in DOMAIN ids}
    BY <1>2, <1>5, <2>1, AddedLive
  <2>. QED  BY <1>5, <2>2
<1>7. j.op = job[c].op /\ j.at = "save" /\ j.parent = p /\ j.copy = copy
  OBVIOUS
<1>. HIDE DEF copy, j
<1>8. LiveAmong(Parents \ {p}) \cup LiveOf(copy) = LiveIds \cup {ids[i] : i \in DOMAIN ids}
  <2>1. LiveIds = LiveAmong(Parents)
    BY DEF LiveIds, LiveIdsOf, LiveAmong, LiveOf
  <2>2. LiveAmong(Parents) = LiveAmong(Parents \ {p}) \cup LiveOf(states[p])
    BY <1>2 DEF LiveAmong
  <2>. QED  BY <1>6, <2>1, <2>2
<1>9. \A i \in DOMAIN ids : AgentOf(ids[i]) = members[i]
  BY <1>4 DEF AgentOf
<1>10. LiveIds \subseteq Ids
  BY LiveAmongIds DEF TypeInv
<1>11. ASSUME NEW a \in Agents
       PROVE  Cardinality(ByAgent(LiveIds \cup {ids[i] : i \in DOMAIN ids}, a)) <= MaxParallel[a]
  <2>1. MaxParallel[a] \in Nat /\ Cardinality(ByAgent(LiveIds, a)) \in Nat
        /\ IsFiniteSet(ByAgent(LiveIds, a)) /\ Cardinality(ByAgent(LiveIds, a)) <= MaxParallel[a]
    BY <1>10, FewerIds, ConfigAssumption DEF LimitInv, AtMost
  <2>2. CASE \E i \in DOMAIN ids : members[i] = a
    <3>1. PICK i \in DOMAIN ids : members[i] = a
      BY <2>2
    <3>2. \A h \in DOMAIN ids : members[h] = a => h = i
      BY <1>3, <1>4, <3>1 DEF NoRepeat
    <3>3. ByAgent(LiveIds \cup {ids[h] : h \in DOMAIN ids}, a) = ByAgent(LiveIds, a) \cup {ids[i]}
      BY <1>9, <3>1, <3>2 DEF ByAgent
    <3>4. Cardinality(ByAgent(LiveIds, a)) < MaxParallel[a]
      BY <1>3, <1>4, <3>1
    <3>5. Cardinality(ByAgent(LiveIds, a) \cup {ids[i]})
            = IF ids[i] \in ByAgent(LiveIds, a) THEN Cardinality(ByAgent(LiveIds, a))
              ELSE Cardinality(ByAgent(LiveIds, a)) + 1
      BY <2>1, FS_AddElement
    <3>6. Cardinality(ByAgent(LiveIds, a) \cup {ids[i]}) <= MaxParallel[a]
      BY <2>1, <3>4, <3>5
    <3>. QED  BY <3>3, <3>6
  <2>3. CASE ~ \E i \in DOMAIN ids : members[i] = a
    <3>1. ByAgent(LiveIds \cup {ids[h] : h \in DOMAIN ids}, a) = ByAgent(LiveIds, a)
      BY <1>9, <2>3 DEF ByAgent
    <3>. QED  BY <2>1, <3>1
  <2>. QED  BY <2>2, <2>3
<1>12. SaveJob(j)
  <2>1. AtMost(LiveAmong(Parents \ {p}) \cup LiveOf(copy))
    BY <1>8, <1>11 DEF AtMost
  <2>. QED  BY <1>3, <1>6, <1>7, <2>1 DEF SaveJob
<1>13. JobLimit(c, j)
  BY <1>2, <1>7, <1>12 DEF JobLimit, ClientJob, CopyShrinks, CountJob, LoadJob, SpawnOps
<1>. QED  BY <1>1, <1>13, LimitStep

\* A change of status of a live task, or a summary, makes no task live.
LEMMA ChangedLive ==
    ASSUME NEW st, NEW p, NEW n, FileOK(st, p, n), NEW id, NEW s \in AllStatuses
    PROVE  /\ HasTask(st, id) /\ Live(TaskOf(st, id)) => LiveOf(WithStatus(st, id, s)) \subseteq LiveOf(st)
           /\ LiveOf(WithSummary(st, id)) \subseteq LiveOf(st)
<1>1. st \in FileType /\ \A i \in DOMAIN st.tasks : st.tasks[i] \in TaskType
  BY FileTasks DEF FileOK
<1>. DEFINE f == [i \in DOMAIN st.tasks |->
                    IF st.tasks[i].id = id THEN [st.tasks[i] EXCEPT !.status = s] ELSE st.tasks[i]]
            g == [i \in DOMAIN st.tasks |->
                    IF st.tasks[i].id = id THEN [st.tasks[i] EXCEPT !.summary = TRUE]
                    ELSE st.tasks[i]]
<1>2. WithStatus(st, id, s).tasks = f /\ WithSummary(st, id).tasks = g
  BY <1>1 DEF WithStatus, WithSummary, FileType
<1>3. \A t \in TaskType : /\ [t EXCEPT !.status = s].id = t.id
                          /\ [t EXCEPT !.summary = TRUE].id = t.id
                          /\ [t EXCEPT !.summary = TRUE].status = t.status
  BY DEF TaskType
<1>4. LiveOf(WithSummary(st, id)) \subseteq LiveOf(st)
  <2>1. \A i \in DOMAIN g : g[i].id = st.tasks[i].id /\ (Live(g[i]) <=> Live(st.tasks[i]))
    BY <1>1, <1>3 DEF Live
  <2>2. DOMAIN g = DOMAIN st.tasks
    OBVIOUS
  <2>. HIDE DEF g
  <2>. QED  BY <1>2, <2>1, <2>2 DEF LiveOf, TaskSet
<1>5. ASSUME HasTask(st, id), Live(TaskOf(st, id))
      PROVE  LiveOf(WithStatus(st, id, s)) \subseteq LiveOf(st)
  <2>1. id \in LiveOf(st)
    <3>1. TaskOf(st, id) \in TaskSet(st) /\ TaskOf(st, id).id = id
      BY <1>5 DEF HasTask, TaskOf
    <3>. QED  BY <1>5, <3>1 DEF LiveOf
  <2>2. \A i \in DOMAIN f : f[i].id = st.tasks[i].id /\ (f[i].id # id => f[i] = st.tasks[i])
    BY <1>1, <1>3
  <2>3. DOMAIN f = DOMAIN st.tasks
    OBVIOUS
  <2>. HIDE DEF f
  <2>4. ASSUME NEW x \in LiveOf(WithStatus(st, id, s)), x # id PROVE x \in LiveOf(st)
    <3>1. PICK i \in DOMAIN f : x = f[i].id /\ Live(f[i])
      BY <1>2 DEF LiveOf, TaskSet
    <3>2. f[i] = st.tasks[i] /\ i \in DOMAIN st.tasks
      BY <2>2, <2>3, <2>4, <3>1
    <3>. QED  BY <3>1, <3>2 DEF LiveOf, TaskSet
  <2>. QED  BY <2>1, <2>4
<1>. QED  BY <1>4, <1>5

\* A client begins to save a copy that makes no task live.
LEMMA ClientCopy ==
    ASSUME NEW c \in setup.callers, NEW j,
           j.op \in {"update", "release", "handoff", "join"}, j.at = "save",
           CopyShrinks(j)
    PROVE  JobLimit(c, j)
BY DEF JobLimit, ClientJob, CountJob, LoadJob, SaveJob, SpawnOps

\* A caller ends, or goes on to a stage that saves no file.
LEMMA PlainStep ==
    ASSUME TypeInv, LimitInv, NEW c \in Procs, NEW j, job' = [job EXCEPT ![c] = j],
           UNCHANGED <<states, setup>>, j.at \notin {"count", "save"},
           j.op \in SpawnOps => j.at # "load",
           j.op \in {"update", "release", "handoff", "join"} => c \in setup.callers,
           j.op # "advance"
    PROVE  LimitInv'
<1>1. JobLimit(c, j)
  BY PlainJob DEF ClientJob
<1>. QED  BY <1>1, LimitStep

\* Changing a status, recording a summary, releasing.
LEMMA ChangeLimit ==
    ASSUME TypeInv, LimitInv, NEW c \in Procs, c \in setup.callers, NEW id \in Ids,
           \/ \E s \in AllStatuses : UpdateStatus(c, id, s)
           \/ SetHandoff(c, id) \/ Release(c, id)
    PROVE  LimitInv'
<1>. DEFINE p == ParentOf(id)
            st == states[p]
<1>1. HasTask(st, id) /\ UNCHANGED <<states, setup>>
  BY DEF UpdateStatus, SetHandoff, Release, Find
<1>2. "completed" \in AllStatuses /\ FileOK(st, p, drawn)
  BY FoundFile DEF AllStatuses
<1>3. \A s \in AllStatuses : Live(TaskOf(st, id)) => LiveOf(WithStatus(st, id, s)) \subseteq LiveOf(st)
  BY <1>1, <1>2, ChangedLive
<1>4. LiveOf(WithSummary(st, id)) \subseteq LiveOf(st)
  BY <1>2, ChangedLive
<1>5. ASSUME NEW s \in AllStatuses, UpdateStatus(c, id, s) PROVE LimitInv'
  <2>. DEFINE j == [op |-> "update", at |-> "save", parent |-> p, copy |-> WithStatus(st, id, s)]
  <2>1. job' = [job EXCEPT ![c] = j] /\ Live(TaskOf(st, id))
    BY <1>5 DEF UpdateStatus, Become
  <2>2. j.op = "update" /\ j.at = "save" /\ j.parent = p /\ j.copy = WithStatus(st, id, s)
    OBVIOUS
  <2>. HIDE DEF j
  <2>3. CopyShrinks(j)
    BY <1>3, <2>1, <2>2, Zenon DEF CopyShrinks
  <2>4. j.op \in {"update", "release", "handoff", "join"} /\ j.at = "save"
    BY <2>2
  <2>5. JobLimit(c, j)
    BY <2>3, <2>4, ClientCopy
  <2>. QED  BY <1>1, <2>1, <2>5, LimitStep
<1>6. ASSUME SetHandoff(c, id) PROVE LimitInv'
  <2>. DEFINE j == [op |-> "handoff", at |-> "save", parent |-> p, copy |-> WithSummary(st, id)]
  <2>1. job' = [job EXCEPT ![c] = j]
    BY <1>6 DEF SetHandoff, Become
  <2>2. j.op = "handoff" /\ j.at = "save" /\ j.parent = p /\ j.copy = WithSummary(st, id)
    OBVIOUS
  <2>. HIDE DEF j
  <2>3. CopyShrinks(j)
    BY <1>4, <2>2, Zenon DEF CopyShrinks
  <2>4. j.op \in {"update", "release", "handoff", "join"} /\ j.at = "save"
    BY <2>2
  <2>5. JobLimit(c, j)
    BY <2>3, <2>4, ClientCopy
  <2>. QED  BY <1>1, <2>1, <2>5, LimitStep
<1>7. ASSUME Release(c, id) PROVE LimitInv'
  <2>. DEFINE j == [op |-> "release", at |-> "save", parent |-> p, id |-> id,
                    copy |-> WithStatus(st, id, "completed")]
              k == [op |-> "release", at |-> "lease", id |-> id]
  <2>1. \/ job' = [job EXCEPT ![c] = j] /\ Live(TaskOf(st, id))
        \/ job' = [job EXCEPT ![c] = k]
    BY <1>7 DEF Release, Become
  <2>2. /\ j.op = "release" /\ j.at = "save" /\ j.parent = p
        /\ j.copy = WithStatus(st, id, "completed") /\ k.op = "release" /\ k.at = "lease"
    OBVIOUS
  <2>. HIDE DEF j, k
  <2>3. CASE job' = [job EXCEPT ![c] = j] /\ Live(TaskOf(st, id))
    <3>1. CopyShrinks(j)
      BY <1>2, <1>3, <2>2, <2>3, Zenon DEF CopyShrinks
    <3>2. j.op \in {"update", "release", "handoff", "join"} /\ j.at = "save"
      BY <2>2
    <3>3. JobLimit(c, j)
      BY <3>1, <3>2, ClientCopy
    <3>. QED  BY <1>1, <2>3, <3>3, LimitStep
  <2>4. CASE job' = [job EXCEPT ![c] = k]
    BY <1>1, <2>2, <2>4, PlainStep DEF SpawnOps
  <2>. QED  BY <2>1, <2>3, <2>4
<1>. QED  BY <1>5, <1>6, <1>7

\* What a step of an operation that was begun does to the limit.
LEMMA StepLimit ==
    ASSUME TypeInv, TypeInv', LimitInv, SoleClient, NEW c \in Procs, Step(c)
    PROVE  LimitInv'
<1>0. JobLimit(c, job[c]) /\ job[c] \in Jobs /\ Idle.op = "none" /\ Idle.at = "idle"
  BY DEF LimitInv, TypeInv, JobsInv, Idle
<1>1. ClientJob(c, job[c]) /\ ClientJob(c, Idle)
  BY <1>0 DEF JobLimit, ClientJob
<1>2. ASSUME Finish(c), UNCHANGED <<states, setup>> PROVE LimitInv'
  BY <1>0, <1>2, PlainStep DEF Finish, Become, SpawnOps
<1>3. CASE \E p \in Parents : CountFile(c, p)
  BY <1>3, CountFileLimit
<1>4. CASE CheckLimit(c)
  BY <1>4, CheckLimitLimit
<1>5. CASE DelegateLoad(c) \/ ScheduleLoad(c)
  <2>1. job[c] \in LoadJobs
    BY <1>0, <1>5, JobShapes DEF DelegateLoad, ScheduleLoad, At, SpawnOps
  <2>2. Prepare(c, Loaded(job[c].parent))
    BY <1>5 DEF DelegateLoad, ScheduleLoad, SoleClient
  <2>. QED  BY <2>1, <2>2, PrepareLimit
<1>6. CASE LeaseFails(c) \/ SpawnSaveFails(c) \/ SaveFails(c) \/ SyncSessionTasks(c)
  BY <1>2, <1>6 DEF LeaseFails, SpawnSaveFails, SaveFails, SyncSessionTasks, GiveUp
<1>7. CASE SpawnSave(c)
  BY <1>7, SpawnSaveLimit
<1>8. CASE Project(c)
  <2>0. PICK missed \in Overlooked :
          job' = [job EXCEPT ![c] = [op |-> job[c].op, at |-> "rollup",
                                     seen |-> LiveIdsOf(Parents \ missed)]]
    BY <1>8 DEF Project, Become
  <2>. DEFINE j == [op |-> job[c].op, at |-> "rollup", seen |-> LiveIdsOf(Parents \ missed)]
  <2>1. job' = [job EXCEPT ![c] = j] /\ UNCHANGED <<states, setup>> /\ j.at = "rollup"
        /\ j.op = job[c].op
    BY <1>8, <2>0 DEF Project
  <2>. HIDE DEF j
  <2>. QED  BY <1>1, <2>1, PlainStep DEF ClientJob
<1>9. CASE WriteRollup(c)
  <2>. DEFINE j == [op |-> "sync", at |-> "load"]
  <2>1. UNCHANGED <<states, setup>> /\ (Finish(c) \/ job' = [job EXCEPT ![c] = j])
    BY <1>9 DEF WriteRollup, Become
  <2>2. j.op = "sync" /\ j.at = "load"
    OBVIOUS
  <2>. HIDE DEF j
  <2>3. ASSUME job' = [job EXCEPT ![c] = j] PROVE LimitInv'
    BY <2>1, <2>2, <2>3, PlainStep DEF SpawnOps
  <2>. QED  BY <1>2, <2>1, <2>3
<1>10. CASE UpdateSave(c) \/ ReleaseSave(c)
  <2>. DEFINE j == [op |-> "update", at |-> "project"]
              k == [op |-> "release", at |-> "lease", id |-> job[c].id]
  <2>1. /\ Write(c) /\ job[c].at = "save" /\ job[c].op \in {"update", "release"} /\ setup' = setup
        /\ job' = [job EXCEPT ![c] = j] \/ job' = [job EXCEPT ![c] = k]
    BY <1>10 DEF UpdateSave, ReleaseSave, At, Become
  <2>2. j.op = "update" /\ j.at = "project" /\ k.op = "release" /\ k.at = "lease"
    OBVIOUS
  <2>. HIDE DEF j, k
  <2>3. ClientJob(c, j) /\ ClientJob(c, k)
    BY <1>1, <2>1, <2>2 DEF ClientJob
  <2>. QED  BY <2>1, <2>2, <2>3, ClientSaveLimit
<1>11. CASE HandoffSave(c) \/ JoinSave(c)
  <2>1. /\ Write(c) /\ job[c].at = "save" /\ job[c].op \in {"handoff", "join"} /\ setup' = setup
        /\ job' = [job EXCEPT ![c] = Idle]
    BY <1>11 DEF HandoffSave, JoinSave, At, Finish, Become
  <2>. QED  BY <1>0, <1>1, <2>1, ClientSaveLimit
<1>12. CASE AdvanceSave(c)
  BY <1>1, <1>12 DEF AdvanceSave, At, ClientJob
<1>13. CASE ReleaseLease(c)
  <2>. DEFINE j == [job[c] EXCEPT !.at = "project"]
  <2>1. /\ job[c].op = "release" /\ job[c].at = "lease" /\ UNCHANGED <<states, setup>>
        /\ Finish(c) \/ job' = [job EXCEPT ![c] = j]
    BY <1>13 DEF ReleaseLease, At, MoveTo, TypeInv, JobsInv
  <2>2. job[c] \in ReleaseJobs
    BY <1>0, <2>1, JobShapes
  <2>3. j.op = "release" /\ j.at = "project"
    BY <2>1, <2>2 DEF ReleaseJobs
  <2>. HIDE DEF j
  <2>4. ASSUME job' = [job EXCEPT ![c] = j] PROVE LimitInv'
    BY <1>1, <2>1, <2>3, <2>4, PlainStep DEF SpawnOps, ClientJob
  <2>. QED  BY <1>2, <2>1, <2>4
<1>14. CASE JoinLoadIndex(c) \/ JoinSaveIndex(c)
  <2>. DEFINE j == [op |-> "join", at |-> "saveIndex", parent |-> job[c].parent,
                    post |-> Posted(index[job[c].parent], job[c].post)]
              k == [op |-> "join", at |-> "load", parent |-> job[c].parent,
                    live |-> LiveEntries(job[c].post)]
  <2>1. /\ job[c].op = "join" /\ UNCHANGED <<states, setup>>
        /\ job' = [job EXCEPT ![c] = j] \/ job' = [job EXCEPT ![c] = k]
    BY <1>14 DEF JoinLoadIndex, JoinSaveIndex, At, Become
  <2>2. j.op = "join" /\ j.at = "saveIndex" /\ k.op = "join" /\ k.at = "load"
    OBVIOUS
  <2>. HIDE DEF j, k
  <2>. QED  BY <1>1, <2>1, <2>2, PlainStep DEF SpawnOps, ClientJob
<1>15. CASE JoinLoad(c)
  <2>. DEFINE p == job[c].parent
              copy == [states[p] EXCEPT !.handoff = job[c].live]
              j == [op |-> "join", at |-> "save", parent |-> p, copy |-> copy]
  <2>1. /\ job[c].op = "join" /\ job[c].at = "load" /\ UNCHANGED <<states, setup>>
        /\ job' = [job EXCEPT ![c] = j]
    BY <1>15 DEF JoinLoad, At, Become
  <2>2. p \in Parents
    BY <1>0, <2>1, JobShapes DEF JoinLoadJobs
  <2>3. states[p] \in FileType
    BY <2>2 DEF TypeInv, FilesInv
  <2>4. copy.tasks = states[p].tasks
    BY <2>3 DEF FileType
  <2>5. LiveOf(copy) = LiveOf(states[p])
    BY <2>4 DEF LiveOf, TaskSet
  <2>6. j.op = "join" /\ j.at = "save" /\ j.parent = p /\ j.copy = copy
    OBVIOUS
  <2>. HIDE DEF p, copy, j
  <2>7. CopyShrinks(j)
    <3>1. LiveOf(j.copy) = LiveOf(states[j.parent])
      BY <2>5, <2>6, Zenon
    <3>. QED  BY <3>1 DEF CopyShrinks
  <2>8. c \in setup.callers
    BY <1>1, <2>1 DEF ClientJob
  <2>9. j.op \in {"update", "release", "handoff", "join"} /\ j.at = "save"
    BY <2>6
  <2>10. JobLimit(c, j)
    BY <2>7, <2>8, <2>9, ClientCopy
  <2>. QED  BY <2>1, <2>10, LimitStep
<1>. QED  BY <1>3, <1>4, <1>5, <1>6, <1>7, <1>8, <1>9, <1>10, <1>11, <1>12, <1>13, <1>14, <1>15,
             Step(c) DEF Step

\* Every step.
LEMMA NextLimit ==
    TypeInv /\ TypeInv' /\ Promised /\ LimitInv /\ [Next]_vars => LimitInv'
<1>. SUFFICES ASSUME TypeInv, TypeInv', Promised, LimitInv, [Next]_vars PROVE LimitInv'
  OBVIOUS
<1>0. SoleClient /\ ~setup.crowded /\ "load" \notin setup.faults
  BY DEF Promised, SoleClient
<1>1. /\ setup.parents \subseteq Parents /\ setup.callers \subseteq Procs
      /\ setup.delegators \subseteq Procs /\ setup.statuses \subseteq AllStatuses
  BY SetupFacts DEF TypeInv, SharedInv, Procs
<1>2. CASE UNCHANGED vars
  <2>1. UNCHANGED <<states, job, setup>>
    BY <1>2 DEF vars
  <2>2. LiveIds' = LiveIds /\ \A P : LiveAmong(P)' = LiveAmong(P)
    BY <2>1 DEF LiveIds, LiveIdsOf, LiveAmong
  <2>3. \A d \in Procs : JobLimit(d, job[d])'
    <3>1. \A d \in Procs : JobLimit(d, job[d])
      BY DEF LimitInv
    <3>. QED  BY <2>1, <2>2, <3>1
              DEF JobLimit, ClientJob, CopyShrinks, CountJob, LoadJob, SaveJob, AtMost
  <2>. QED  BY <2>1, <2>2, <2>3 DEF LimitInv, AtMost
<1>3. ASSUME NEW c \in setup.delegators, NEW p \in setup.parents, NEW a \in Agents, Delegate(c, p, a)
      PROVE  LimitInv'
  <2>1. Spawn(c, "delegate", p, <<a>>, FALSE)
    BY <1>3 DEF Delegate
  <2>2. <<a>> \in Seq(Agents) /\ NoRepeat(<<a>>)
    BY DEF NoRepeat
  <2>. QED  BY <1>1, <1>0, <2>1, <2>2, SpawnLimit DEF SpawnOps
<1>4. ASSUME NEW c \in setup.delegators, NEW p \in setup.parents, NEW t \in Teams,
             ScheduleTeam(c, p, t)
      PROVE  LimitInv'
  <2>. DEFINE members == IF t.sequential THEN <<t.members[1]>> ELSE t.members
  <2>1. t.members \in Seq(Agents) /\ t.members # <<>> /\ NoRepeat(t.members)
    BY ConfigAssumption DEF NoRepeat
  <2>2. t.members[1] \in Agents
    BY <2>1
  <2>3. members \in Seq(Agents)
    BY <2>1, <2>2
  <2>4. NoRepeat(members)
    BY <2>1 DEF NoRepeat
  <2>5. Spawn(c, "schedule", p, members, t.sequential)
    BY <1>4 DEF ScheduleTeam
  <2>. HIDE DEF members
  <2>. QED  BY <1>0, <1>1, <2>3, <2>4, <2>5, SpawnLimit DEF SpawnOps
<1>5. ASSUME NEW c \in setup.callers, NEW p \in setup.parents, NEW t \in Teams,
             AdvanceSequential(c, p, t)
      PROVE  LimitInv'
  BY <1>0, <1>5 DEF AdvanceSequential, SoleClient
<1>6. ASSUME NEW c \in setup.callers, NEW id \in Ids, NEW s \in setup.statuses,
             UpdateStatus(c, id, s)
      PROVE  LimitInv'
  BY <1>1, <1>6, ChangeLimit
<1>7. ASSUME NEW c \in setup.callers, NEW id \in Ids, Release(c, id) \/ SetHandoff(c, id)
      PROVE  LimitInv'
  BY <1>1, <1>7, ChangeLimit
<1>8. ASSUME NEW c \in setup.callers, NEW p \in setup.parents, PollJoin(c, p) PROVE LimitInv'
  <2>. DEFINE post == [posted |-> {t.id : t \in Summaries(states[p])},
                       superseded |-> UNION {Supersedes(states[p], t) : t \in Summaries(states[p])}]
              j == [op |-> "join", at |-> "loadIndex", parent |-> p, post |-> post]
  <2>1. job' = [job EXCEPT ![c] = j] /\ UNCHANGED <<states, setup>>
    BY <1>8 DEF PollJoin, Become
  <2>2. j.op = "join" /\ j.at = "loadIndex"
    OBVIOUS
  <2>. HIDE DEF post, j
  <2>. QED  BY <1>1, <2>1, <2>2, PlainStep DEF SpawnOps
<1>9. ASSUME NEW c \in setup.callers, RefreshProjection(c) PROVE LimitInv'
  <2>. DEFINE j == [op |-> "refresh", at |-> "project"]
  <2>1. job' = [job EXCEPT ![c] = j] /\ UNCHANGED <<states, setup>>
    BY <1>9 DEF RefreshProjection, Become
  <2>2. j.op = "refresh" /\ j.at = "project"
    OBVIOUS
  <2>. HIDE DEF j
  <2>. QED  BY <1>1, <2>1, <2>2, PlainStep DEF SpawnOps
<1>10. ASSUME PersistTaskDocument PROVE LimitInv'
  BY <1>0, <1>10 DEF PersistTaskDocument, SoleClient
<1>11. ASSUME Crash PROVE LimitInv'
  <2>1. UNCHANGED <<states, setup>> /\ \A d \in Procs : job'[d] = job[d] \/ job'[d] = Idle
    BY <1>11 DEF Crash
  <2>2. LiveIds' = LiveIds /\ \A P : LiveAmong(P)' = LiveAmong(P)
    BY <2>1 DEF LiveIds, LiveIdsOf, LiveAmong
  <2>3. \A d \in Procs : JobLimit(d, job'[d])
    <3>1. \A d \in Procs : JobLimit(d, job[d]) /\ JobLimit(d, Idle)
      <4>1. \A d \in Procs : JobLimit(d, Idle)
        BY PlainJob DEF ClientJob, Idle, SpawnOps
      <4>. QED  BY <4>1 DEF LimitInv
    <3>. QED  BY <2>1, <3>1, Zenon
  <2>4. \A d \in Procs : JobLimit(d, job[d])'
    BY <2>1, <2>2, <2>3 DEF JobLimit, ClientJob, CopyShrinks, CountJob, LoadJob, SaveJob, AtMost
  <2>. QED  BY <2>1, <2>2, <2>4 DEF LimitInv, AtMost
<1>. QED  BY <1>0, <1>2, <1>3, <1>4, <1>5, <1>6, <1>7, <1>8, <1>9, <1>10, <1>11, StepLimit DEF Next

\* No step changes the deployment.
LEMMA FixedSetup == [Next]_vars => setup' = setup
<1>. SUFFICES ASSUME [Next]_vars PROVE setup' = setup
  OBVIOUS
<1>. QED
  BY DEF Next, Step, vars, Delegate, ScheduleTeam, Spawn, Counting, CountFile, CheckLimit, DelegateLoad,
    ScheduleLoad, Prepare, LeaseFails, SpawnSave, SpawnSaveFails, Project, WriteRollup,
    RefreshProjection, SyncSessionTasks, PersistTaskDocument, UpdateStatus, UpdateSave, Release,
    ReleaseSave, ReleaseLease, SetHandoff, HandoffSave, AdvanceSequential, AdvanceSave, SaveFails,
    PollJoin, JoinLoadIndex, JoinSaveIndex, JoinLoad, JoinSave, Crash

\* So a deployment of a single client stays one.
LEMMA SameSetup == [Next]_vars => (SoleClient' <=> SoleClient) /\ (Promised' <=> Promised)
BY FixedSetup DEF SoleClient, Promised

\* The strengthened limit holds throughout.
LEMMA LimitAlways == Spec => [](Promised => LimitInv)
<1>1. Init => (Promised => LimitInv)
  <2>. SUFFICES ASSUME Init PROVE LimitInv
    OBVIOUS
  <2>1. \A p \in Parents : states[p].tasks = <<>>
    BY DEF Init, NewState
  <2>2. \A p \in Parents : LiveOf(states[p]) = {}
    BY <2>1 DEF LiveOf, TaskSet
  <2>3. LiveIds = {}
    <3>1. LiveIds = LiveAmong(Parents)
      BY DEF LiveIds, LiveIdsOf, LiveAmong, LiveOf
    <3>. QED  BY <2>2, <3>1 DEF LiveAmong
  <2>4. AtMost(LiveIds)
    <3>1. \A a : ByAgent({}, a) = {}
      BY DEF ByAgent
    <3>2. Cardinality({}) = 0 /\ \A a \in Agents : MaxParallel[a] \in Nat
      BY FS_EmptySet, ConfigAssumption
    <3>3. \A a \in Agents : 0 <= MaxParallel[a]
      BY <3>2
    <3>. QED  BY <2>3, <3>1, <3>2, <3>3, Zenon DEF AtMost
  <2>5. \A c \in Procs : JobLimit(c, job[c])
    <3>1. \A c \in Procs : job[c] = Idle
      BY DEF Init
    <3>2. \A c \in Procs : JobLimit(c, Idle)
      BY PlainJob DEF ClientJob, Idle, SpawnOps
    <3>. QED  BY <3>1, <3>2
  <2>. QED  BY <2>2, <2>4, <2>5 DEF LimitInv
<1>2. TypeInv /\ TypeInv' /\ (Promised => LimitInv) /\ [Next]_vars
        => (Promised => LimitInv)'
  BY SameSetup, NextLimit
<1>. QED  BY <1>1, <1>2, InitTypes, NextTypes, PTL DEF Spec

\* No agent has more live session tasks than its max_parallel_tasks, over all parents,
\* whatever delegates, team schedules, status changes, releases and joins run at once, and
\* whichever of their steps fail or are cut short, as long as one scan reads every state
\* file (Promised): the count, the load and the save of
\* facade_delegate_session_task and facade_schedule_team are under one lock, and the one
\* client beside them only takes live tasks away.
THEOREM LimitsHold == Spec => []LimitHolds
<1>1. (Promised => LimitInv) => LimitHolds
  BY DEF LimitHolds, Promised, LimitInv, AtMost, ByAgent
<1>. QED  BY <1>1, LimitAlways, PTL

-----------------------------------------------------------------------------
(***************************************************************************)
(* The join.  What a join publishes are the posted entries that no posted  *)
(* entry supersedes.  Every task is stamped, when it is added, with the    *)
(* earlier tasks of its agent that are in the file, and what an entry of   *)
(* the index supersedes includes its stamp; so of two posted tasks of one  *)
(* agent the older is superseded, as long as the two were once in the file *)
(* together.  They are: a posted task stays in the file and in every copy  *)
(* that will overwrite it, because the one client posts nothing while it   *)
(* holds a copy, and the copy of the lock's holder has all the file has.   *)
(***************************************************************************)
Stamps(st) == {<<t.id, t.supersedes>> : t \in TaskSet(st)}
\* ... and those of the tasks added to st
NewStamps(st, ids, sequential) ==
    {<<ids[i], NewTask(st, ids[i], sequential).supersedes>> : i \in DOMAIN ids}

\* A stamp names the earlier tasks of the agent, and only earlier tasks.
Stamped(F) ==
    /\ \A s, u \in F : AgentOf(s[1]) = AgentOf(u[1]) /\ s[1][3] < u[1][3] => s[1] \in u[2]
    /\ \A s \in F : \A z \in s[2] : z[3] < s[1][3]
\* What is posted is in F, what it supersedes is recorded, and nothing else is.
Recorded(ix, F) ==
    /\ \A x \in ix.posted : \E s \in F : s[1] = x /\ s[2] \subseteq ix.superseded
    /\ \A z \in ix.superseded : \E x \in ix.posted : z[3] < x[3]

CopyJoin(j) ==
    j.at = "save" /\ j.op \notin SpawnOps =>
        /\ Stamps(j.copy) \subseteq Stamps(states[j.parent])
        /\ Recorded(index[j.parent], Stamps(j.copy))
HolderJoin(j) ==
    j.at = "save" /\ j.op \in SpawnOps =>
        Stamps(states[j.parent]) \subseteq Stamps(j.copy) /\ Stamped(Stamps(j.copy))
PostJoin(j) ==
    j.at \in {"loadIndex", "saveIndex"} =>
        Recorded(j.post, Stamps(states[j.parent])) /\ j.post.posted # {}
LiveJoin(j) ==
    j.at = "load" /\ j.op = "join" =>
        j.live = LiveEntries(index[j.parent]) /\ index[j.parent].posted # {}
JobJoin(j) == CopyJoin(j) /\ HolderJoin(j) /\ PostJoin(j) /\ LiveJoin(j)
JoinInv ==
    /\ \A p \in Parents : Stamped(Stamps(states[p])) /\ Recorded(index[p], Stamps(states[p]))
    /\ \A c \in Procs : JobJoin(job[c])

\* Who does what, and what a delegate or a schedule was asked for, in a deployment of one
\* client, crowded or not: LimitInv has it too, where the limit is promised.
Roster(c, j) ==
    /\ ClientJob(c, j)
    /\ j.op \in SpawnOps /\ j.at \in {"count", "load"} => NoRepeat(j.members)
RosterInv == \A c \in Procs : Roster(c, job[c])

\* One caller goes on to j.
LEMMA RosterStep ==
    ASSUME TypeInv, RosterInv, NEW c \in Procs, NEW j, job' = [job EXCEPT ![c] = j],
           setup' = setup, Roster(c, j)
    PROVE  RosterInv'
<1>1. job'[c] = j /\ \A d \in Procs : d # c => job'[d] = job[d]
  BY DEF TypeInv, JobsInv
<1>2. \A d \in Procs : Roster(d, job'[d])
  BY <1>1 DEF RosterInv
<1>. QED  BY <1>2 DEF RosterInv, Roster, ClientJob

\* Every stage of an operation is one of the same caller's, for the same members.
LEMMA StepRoster ==
    ASSUME TypeInv, RosterInv, SoleClient, NEW c \in Procs, Step(c)
    PROVE  RosterInv'
<1>0. Roster(c, job[c]) /\ job[c] \in Jobs /\ setup' = setup
  BY FixedSetup DEF RosterInv, TypeInv, JobsInv, Step, CountFile, CheckLimit, DelegateLoad,
    ScheduleLoad, Prepare, LeaseFails, SpawnSave, SpawnSaveFails, Project, WriteRollup,
    SyncSessionTasks, UpdateSave, ReleaseSave, ReleaseLease, HandoffSave, AdvanceSave, SaveFails,
    JoinLoadIndex, JoinSaveIndex, JoinLoad, JoinSave
<1>1. Roster(c, Idle)
  BY DEF Roster, ClientJob, Idle, SpawnOps
<1>2. ASSUME NEW j, job' = [job EXCEPT ![c] = j], j.op = job[c].op \/ j.op = "sync",
             j.at \notin {"count", "load"} \/ j.op \notin SpawnOps
      PROVE  RosterInv'
  <2>1. Roster(c, j)
    BY <1>0, <1>2 DEF Roster, ClientJob, SpawnOps
  <2>. QED  BY <1>0, <1>2, <2>1, RosterStep
<1>3. ASSUME Finish(c) PROVE RosterInv'
  BY <1>0, <1>1, <1>3, RosterStep DEF Finish, Become
<1>4. CASE \E p \in Parents : CountFile(c, p)
  <2>1. PICK p \in Parents : CountFile(c, p)
    BY <1>4
  <2>. DEFINE left == job[c].left \ {p}
              live == [a \in Agents |-> job[c].live[a] + LiveIn(p, a)]
              j == [job[c] EXCEPT !.left = left, !.live = live]
  <2>2. job' = [job EXCEPT ![c] = j] /\ job[c].at = "count"
    BY <2>1 DEF CountFile, Become
  <2>. HIDE DEF left, live
  <2>3. job[c] \in CountJobs
    BY <1>0, <2>2, JobShapes
  <2>4. j.op = job[c].op /\ j.at = "count" /\ j.members = job[c].members
    BY <2>2, <2>3 DEF CountJobs
  <2>. HIDE DEF j
  <2>5. Roster(c, j)
    BY <1>0, <2>2, <2>4 DEF Roster, ClientJob
  <2>. QED  BY <1>0, <2>2, <2>5, RosterStep
<1>5. CASE CheckLimit(c)
  <2>. DEFINE j == [op |-> job[c].op, at |-> "load", parent |-> job[c].parent,
                    members |-> job[c].members, sequential |-> job[c].sequential]
  <2>1. job[c].at = "count" /\ (Finish(c) \/ job' = [job EXCEPT ![c] = j])
    BY <1>5 DEF CheckLimit, GiveUp, Become
  <2>2. j.op = job[c].op /\ j.at = "load" /\ j.members = job[c].members
    OBVIOUS
  <2>. HIDE DEF j
  <2>3. Roster(c, j)
    BY <1>0, <2>1, <2>2 DEF Roster, ClientJob
  <2>. QED  BY <1>0, <1>3, <2>1, <2>3, RosterStep
<1>6. CASE DelegateLoad(c) \/ ScheduleLoad(c)
  <2>. DEFINE ids == NewIds(c)
              copy == Added(Loaded(job[c].parent), ids, job[c].sequential)
              j == [op |-> job[c].op, at |-> "save", parent |-> job[c].parent, ids |-> ids,
                    copy |-> copy]
  <2>1. job' = [job EXCEPT ![c] = j]
    BY <1>6 DEF DelegateLoad, ScheduleLoad, SoleClient, Prepare, Become
  <2>2. j.op = job[c].op /\ j.at = "save"
    OBVIOUS
  <2>. HIDE DEF j
  <2>. QED  BY <1>2, <2>1, <2>2
<1>7. CASE LeaseFails(c) \/ SpawnSaveFails(c) \/ SaveFails(c) \/ SyncSessionTasks(c)
           \/ HandoffSave(c) \/ JoinSave(c)
  BY <1>3, <1>7 DEF LeaseFails, SpawnSaveFails, SaveFails, SyncSessionTasks, GiveUp, HandoffSave,
                    JoinSave
<1>8. CASE SpawnSave(c)
  <2>. DEFINE j == [op |-> job[c].op, at |-> "project"]
  <2>1. job' = [job EXCEPT ![c] = j]
    BY <1>8 DEF SpawnSave, Become
  <2>2. j.op = job[c].op /\ j.at = "project"
    OBVIOUS
  <2>. HIDE DEF j
  <2>. QED  BY <1>2, <2>1, <2>2
<1>9. CASE Project(c)
  <2>1. PICK missed \in Overlooked :
          job' = [job EXCEPT ![c] = [op |-> job[c].op, at |-> "rollup",
                                     seen |-> LiveIdsOf(Parents \ missed)]]
    BY <1>9 DEF Project, Become
  <2>. DEFINE j == [op |-> job[c].op, at |-> "rollup", seen |-> LiveIdsOf(Parents \ missed)]
  <2>2. j.op = job[c].op /\ j.at = "rollup" /\ job' = [job EXCEPT ![c] = j]
    BY <2>1
  <2>. HIDE DEF j
  <2>. QED  BY <1>2, <2>2
<1>10. CASE WriteRollup(c)
  <2>. DEFINE j == [op |-> "sync", at |-> "load"]
  <2>1. Finish(c) \/ job' = [job EXCEPT ![c] = j]
    BY <1>10 DEF WriteRollup, Become
  <2>2. j.op = "sync" /\ j.op \notin SpawnOps
    BY DEF SpawnOps
  <2>. HIDE DEF j
  <2>. QED  BY <1>2, <1>3, <2>1, <2>2
<1>11. CASE UpdateSave(c) \/ ReleaseSave(c)
  <2>. DEFINE j == [op |-> "update", at |-> "project"]
              k == [op |-> "release", at |-> "lease", id |-> job[c].id]
  <2>1. \/ job[c].op = "update" /\ job' = [job EXCEPT ![c] = j]
        \/ job[c].op = "release" /\ job' = [job EXCEPT ![c] = k]
    BY <1>11 DEF UpdateSave, ReleaseSave, At, Become
  <2>2. j.op = "update" /\ j.at = "project" /\ k.op = "release" /\ k.at = "lease"
    OBVIOUS
  <2>. HIDE DEF j, k
  <2>. QED  BY <1>2, <2>1, <2>2
<1>12. CASE AdvanceSave(c)
  BY <1>0, <1>12 DEF AdvanceSave, At, Roster, ClientJob
<1>13. CASE ReleaseLease(c)
  <2>. DEFINE j == [job[c] EXCEPT !.at = "project"]
  <2>1. /\ job[c].op = "release" /\ job[c].at = "lease"
        /\ Finish(c) \/ job' = [job EXCEPT ![c] = j]
    BY <1>13 DEF ReleaseLease, At, MoveTo, TypeInv, JobsInv
  <2>2. job[c] \in ReleaseJobs
    BY <1>0, <2>1, JobShapes
  <2>3. j.op = "release" /\ j.at = "project"
    BY <2>1, <2>2 DEF ReleaseJobs
  <2>. HIDE DEF j
  <2>. QED  BY <1>2, <1>3, <2>1, <2>3
<1>14. CASE JoinLoadIndex(c) \/ JoinSaveIndex(c) \/ JoinLoad(c)
  <2>. DEFINE copy == [states[job[c].parent] EXCEPT !.handoff = job[c].live]
              i == [op |-> "join", at |-> "saveIndex", parent |-> job[c].parent,
                    post |-> Posted(index[job[c].parent], job[c].post)]
              j == [op |-> "join", at |-> "load", parent |-> job[c].parent,
                    live |-> LiveEntries(job[c].post)]
              k == [op |-> "join", at |-> "save", parent |-> job[c].parent, copy |-> copy]
  <2>1. /\ job[c].op = "join"
        /\ \/ job' = [job EXCEPT ![c] = i] \/ job' = [job EXCEPT ![c] = j]
           \/ job' = [job EXCEPT ![c] = k]
    BY <1>14 DEF JoinLoadIndex, JoinSaveIndex, JoinLoad, At, Become
  <2>2. i.op = "join" /\ j.op = "join" /\ k.op = "join" /\ "join" \notin SpawnOps
    BY DEF SpawnOps
  <2>. HIDE DEF i, j, k
  <2>. QED  BY <1>2, <2>1, <2>2
<1>. QED  BY <1>4, <1>5, <1>6, <1>7, <1>8, <1>9, <1>10, <1>11, <1>12, <1>13, <1>14, Step(c)
          DEF Step

\* Every step.
LEMMA NextRoster == TypeInv /\ SoleClient /\ RosterInv /\ [Next]_vars => RosterInv'
<1>. SUFFICES ASSUME TypeInv, SoleClient, RosterInv, [Next]_vars PROVE RosterInv'
  OBVIOUS
<1>1. /\ setup.callers \subseteq Procs /\ setup.delegators \subseteq Procs /\ setup' = setup
  BY SetupFacts, FixedSetup DEF TypeInv, SharedInv, Procs
<1>2. ASSUME NEW c \in Procs, NEW op \in SpawnOps, NEW p, NEW members, NoRepeat(members),
             NEW sequential, Spawn(c, op, p, members, sequential)
      PROVE  RosterInv'
  <2>1. PICK missed \in Overlooked :
          job' = [job EXCEPT ![c] = [op |-> op, at |-> "count", parent |-> p, members |-> members,
                                     sequential |-> sequential, left |-> setup.parents \ missed,
                                     live |-> [a \in Agents |-> 0]]]
    BY <1>2 DEF Spawn, Counting, Become
  <2>. DEFINE j == [op |-> op, at |-> "count", parent |-> p, members |-> members,
                    sequential |-> sequential, left |-> setup.parents \ missed,
                    live |-> [a \in Agents |-> 0]]
  <2>2. j.op = op /\ j.members = members /\ job' = [job EXCEPT ![c] = j]
    BY <2>1
  <2>. HIDE DEF j
  <2>3. Roster(c, j)
    BY <1>2, <2>2 DEF Roster, ClientJob, SpawnOps
  <2>. QED  BY <1>1, <2>2, <2>3, RosterStep
<1>3. ASSUME NEW c \in setup.callers, NEW j, job' = [job EXCEPT ![c] = j],
             j.op \in {"update", "release", "handoff", "join", "refresh"}
      PROVE  RosterInv'
  BY <1>1, <1>3, RosterStep DEF Roster, ClientJob, SpawnOps
<1>4. ASSUME \A d \in Procs : job'[d] = job[d] \/ job'[d] = Idle PROVE RosterInv'
  <2>1. \A d \in Procs : Roster(d, job[d]) /\ Roster(d, Idle)
    BY DEF RosterInv, Roster, ClientJob, Idle, SpawnOps
  <2>2. \A d \in Procs : Roster(d, job'[d])
    BY <1>4, <2>1, Zenon
  <2>. QED  BY <1>1, <2>2 DEF RosterInv, Roster, ClientJob
<1>5. ASSUME NEW c \in setup.delegators, NEW p \in setup.parents, NEW a \in Agents, Delegate(c, p, a)
      PROVE  RosterInv'
  <2>1. Spawn(c, "delegate", p, <<a>>, FALSE)
    BY <1>5 DEF Delegate
  <2>2. NoRepeat(<<a>>)
    BY DEF NoRepeat
  <2>. QED  BY <1>1, <1>2, <2>1, <2>2 DEF SpawnOps
<1>6. ASSUME NEW c \in setup.delegators, NEW p \in setup.parents, NEW t \in Teams,
             ScheduleTeam(c, p, t)
      PROVE  RosterInv'
  <2>. DEFINE members == IF t.sequential THEN <<t.members[1]>> ELSE t.members
  <2>1. NoRepeat(members)
    BY ConfigAssumption DEF NoRepeat
  <2>2. Spawn(c, "schedule", p, members, t.sequential)
    BY <1>6 DEF ScheduleTeam
  <2>. HIDE DEF members
  <2>. QED  BY <1>1, <1>2, <2>1, <2>2 DEF SpawnOps
<1>7. ASSUME NEW c \in setup.callers, NEW p \in setup.parents, NEW t \in Teams,
             AdvanceSequential(c, p, t)
      PROVE  RosterInv'
  BY <1>7 DEF AdvanceSequential, SoleClient
<1>8. ASSUME NEW c \in setup.callers, NEW id \in Ids, NEW s \in setup.statuses,
             UpdateStatus(c, id, s)
      PROVE  RosterInv'
  <2>. DEFINE j == [op |-> "update", at |-> "save", parent |-> ParentOf(id),
                    copy |-> WithStatus(states[ParentOf(id)], id, s)]
  <2>1. job' = [job EXCEPT ![c] = j]
    BY <1>8 DEF UpdateStatus, Become
  <2>2. j.op = "update"
    OBVIOUS
  <2>. HIDE DEF j
  <2>. QED  BY <1>3, <2>1, <2>2
<1>9. ASSUME NEW c \in setup.callers, NEW id \in Ids, Release(c, id) \/ SetHandoff(c, id)
       PROVE  RosterInv'
  <2>. DEFINE p == ParentOf(id)
              j == [op |-> "release", at |-> "save", parent |-> p, id |-> id,
                    copy |-> WithStatus(states[p], id, "completed")]
              k == [op |-> "release", at |-> "lease", id |-> id]
              l == [op |-> "handoff", at |-> "save", parent |-> p,
                    copy |-> WithSummary(states[p], id)]
  <2>1. \/ job' = [job EXCEPT ![c] = j] \/ job' = [job EXCEPT ![c] = k]
        \/ job' = [job EXCEPT ![c] = l]
    BY <1>9 DEF Release, SetHandoff, Become
  <2>2. j.op = "release" /\ k.op = "release" /\ l.op = "handoff"
    OBVIOUS
  <2>. HIDE DEF j, k, l
  <2>. QED  BY <1>3, <2>1, <2>2
<1>10. ASSUME NEW c \in setup.callers, NEW p \in setup.parents, PollJoin(c, p) PROVE RosterInv'
  <2>. DEFINE post == [posted |-> {t.id : t \in Summaries(states[p])},
                       superseded |-> UNION {Supersedes(states[p], t) : t \in Summaries(states[p])}]
              j == [op |-> "join", at |-> "loadIndex", parent |-> p, post |-> post]
  <2>1. job' = [job EXCEPT ![c] = j]
    BY <1>10 DEF PollJoin, Become
  <2>2. j.op = "join"
    OBVIOUS
  <2>. HIDE DEF post, j
  <2>. QED  BY <1>3, <2>1, <2>2
<1>11. ASSUME NEW c \in setup.callers, RefreshProjection(c) PROVE RosterInv'
  <2>. DEFINE j == [op |-> "refresh", at |-> "project"]
  <2>1. job' = [job EXCEPT ![c] = j] /\ j.op = "refresh"
    BY <1>11 DEF RefreshProjection, Become
  <2>. HIDE DEF j
  <2>. QED  BY <1>3, <2>1
<1>12. ASSUME PersistTaskDocument PROVE RosterInv'
  BY <1>12 DEF PersistTaskDocument, SoleClient
<1>13. ASSUME Crash PROVE RosterInv'
  <2>1. job' = [d \in Procs |-> IF d = Tui THEN job[d] ELSE Idle]
    BY <1>13 DEF Crash
  <2>2. \A d \in Procs : job'[d] = job[d] \/ job'[d] = Idle
    BY <2>1
  <2>. QED  BY <1>4, <2>2
<1>14. ASSUME UNCHANGED vars PROVE RosterInv'
  <2>1. job' = job
    BY <1>14 DEF vars
  <2>. QED  BY <1>4, <2>1
<1>. QED  BY <1>5, <1>6, <1>7, <1>8, <1>9, <1>10, <1>11, <1>12, <1>13, <1>14, StepRoster
          DEF Next

\* It holds throughout.
LEMMA RosterAlways == Spec => [](SoleClient => RosterInv)
<1>1. Init => RosterInv
  BY DEF Init, RosterInv, Roster, ClientJob, Idle, SpawnOps
<1>2. TypeInv /\ (SoleClient => RosterInv) /\ [Next]_vars => (SoleClient => RosterInv)'
  BY SameSetup, NextRoster
<1>. QED  BY <1>1, <1>2, InitTypes, NextTypes, PTL DEF Spec

\* The stamps of a file.
LEMMA StampFacts ==
    ASSUME NEW st, NEW p, NEW n, FileOK(st, p, n)
    PROVE  /\ \A s \in Stamps(st) : \E i \in DOMAIN st.tasks :
                 s[1] = st.tasks[i].id /\ s[2] = st.tasks[i].supersedes
           /\ \A i \in DOMAIN st.tasks : <<st.tasks[i].id, st.tasks[i].supersedes>> \in Stamps(st)
           /\ \A s \in Stamps(st) : s[1] \in Ids /\ s[1][3] \in Nat /\ s[1][3] <= n
<1>1. \A s \in Stamps(st) : \E i \in DOMAIN st.tasks :
                 s[1] = st.tasks[i].id /\ s[2] = st.tasks[i].supersedes
  BY DEF Stamps, TaskSet
<1>2. \A i \in DOMAIN st.tasks : <<st.tasks[i].id, st.tasks[i].supersedes>> \in Stamps(st)
  BY DEF Stamps, TaskSet
<1>3. \A i \in DOMAIN st.tasks : /\ st.tasks[i].id \in Ids /\ st.tasks[i].id[3] \in Nat
                                 /\ st.tasks[i].id[3] <= n
  BY FileTasks DEF FileOK
<1>. QED  BY <1>1, <1>2, <1>3

\* A change of status or a summary leaves the stamps alone.
LEMMA SameStamps ==
    ASSUME NEW st, NEW p, NEW n, FileOK(st, p, n), NEW id, NEW s
    PROVE  Stamps(WithStatus(st, id, s)) = Stamps(st) /\ Stamps(WithSummary(st, id)) = Stamps(st)
<1>1. st \in FileType /\ \A i \in DOMAIN st.tasks : st.tasks[i] \in TaskType
  BY FileTasks DEF FileOK
<1>. DEFINE f == [i \in DOMAIN st.tasks |->
                    IF st.tasks[i].id = id THEN [st.tasks[i] EXCEPT !.status = s] ELSE st.tasks[i]]
            g == [i \in DOMAIN st.tasks |->
                    IF st.tasks[i].id = id THEN [st.tasks[i] EXCEPT !.summary = TRUE]
                    ELSE st.tasks[i]]
<1>2. WithStatus(st, id, s).tasks = f /\ WithSummary(st, id).tasks = g
  BY <1>1 DEF WithStatus, WithSummary, FileType
<1>3. \A t \in TaskType : /\ [t EXCEPT !.status = s].id = t.id
                          /\ [t EXCEPT !.status = s].supersedes = t.supersedes
                          /\ [t EXCEPT !.summary = TRUE].id = t.id
                          /\ [t EXCEPT !.summary = TRUE].supersedes = t.supersedes
  BY DEF TaskType
<1>4. /\ DOMAIN f = DOMAIN st.tasks /\ DOMAIN g = DOMAIN st.tasks
      /\ \A i \in DOMAIN st.tasks : /\ f[i].id = st.tasks[i].id
                                    /\ f[i].supersedes = st.tasks[i].supersedes
                                    /\ g[i].id = st.tasks[i].id
                                    /\ g[i].supersedes = st.tasks[i].supersedes
  BY <1>1, <1>3
<1>. HIDE DEF f, g
<1>5. Stamps(WithStatus(st, id, s)) = Stamps(st)
  BY <1>2, <1>4 DEF Stamps, TaskSet
<1>6. Stamps(WithSummary(st, id)) = Stamps(st)
  BY <1>2, <1>4 DEF Stamps, TaskSet
<1>. QED  BY <1>5, <1>6

\* What is in a file stays recorded when the file grows.
LEMMA RecordedMore ==
    ASSUME NEW ix, NEW F, NEW G, Recorded(ix, F), F \subseteq G PROVE Recorded(ix, G)
BY DEF Recorded

\* Fewer tasks are stamped as well.
LEMMA StampedFewer ==
    ASSUME NEW F, NEW G, Stamped(G), F \subseteq G PROVE Stamped(F)
BY DEF Stamped

\* JoinIndex::post keeps the index sound.
LEMMA RecordedBoth ==
    ASSUME NEW ix, NEW post, NEW F, Recorded(ix, F), Recorded(post, F)
    PROVE  Recorded(Posted(ix, post), F)
<1>. DEFINE all == Posted(ix, post)
<1>1. all.posted = ix.posted \cup post.posted /\ all.superseded = ix.superseded \cup post.superseded
  BY DEF Posted
<1>. HIDE DEF all
<1>2. \A x \in all.posted : \E s \in F : s[1] = x /\ s[2] \subseteq all.superseded
  BY <1>1 DEF Recorded
<1>3. \A z \in all.superseded : \E x \in all.posted : z[3] < x[3]
  BY <1>1 DEF Recorded
<1>. QED  BY <1>2, <1>3 DEF Recorded, all

\* A step that writes neither a file nor an index: one caller goes on to j.
LEMMA JoinStep ==
    ASSUME TypeInv, JoinInv, NEW c \in Procs, NEW j, job' = [job EXCEPT ![c] = j],
           UNCHANGED <<states, index>>, JobJoin(j)
    PROVE  JoinInv'
<1>1. job'[c] = j /\ \A d \in Procs : d # c => job'[d] = job[d]
  BY DEF TypeInv, JobsInv
<1>2. \A d \in Procs : JobJoin(job'[d])
  BY <1>1 DEF JoinInv
<1>3. \A d \in Procs : JobJoin(job[d])'
  BY <1>2 DEF JobJoin, CopyJoin, HolderJoin, PostJoin, LiveJoin
<1>. QED  BY <1>3 DEF JoinInv

\* A job that neither saves nor joins promises nothing.
LEMMA PlainJoin ==
    ASSUME NEW j, j.at \notin {"save", "loadIndex", "saveIndex"}, j.op = "join" => j.at # "load"
    PROVE  JobJoin(j)
BY DEF JobJoin, CopyJoin, HolderJoin, PostJoin, LiveJoin

\* The one client is the only one with a copy, a post or live entries.
LEMMA OnlyClient ==
    ASSUME TypeInv, RosterInv, SoleClient, NEW c \in Procs, NEW d \in Procs, c # d,
           job[c].op \in {"update", "release", "handoff", "join"},
           job[d].op \notin SpawnOps
    PROVE  job[d].at \notin {"save", "loadIndex", "saveIndex"} /\ job[d].op # "join"
<1>1. ClientJob(c, job[c]) /\ ClientJob(d, job[d]) /\ job[d] \in Jobs
  BY DEF RosterInv, Roster, TypeInv, JobsInv
<1>2. c \in setup.callers /\ setup \in Setups
  BY <1>1 DEF ClientJob, TypeInv, SharedInv
<1>3. job[d].op \notin {"update", "release", "handoff", "join", "advance"}
  BY <1>1, <1>2, OneClient DEF ClientJob
<1>4. job[d].at \in {"save", "loadIndex", "saveIndex"}
        => job[d].op \in {"update", "release", "handoff", "join", "advance"}
  BY <1>1 DEF Jobs, Idle, CountJobs, LoadJobs, SpawnSaveJobs, ProjectJobs, ReleaseJobs,
             RollupJobs, SyncJobs, SaveJobs, ReleaseSaveJobs, PostJobs, JoinLoadJobs, SpawnOps
<1>. QED  BY <1>3, <1>4

\* The client saves a file.
LEMMA ClientSaveJoin ==
    ASSUME TypeInv, RosterInv, SoleClient, JoinInv, NEW c \in Procs, Write(c), job[c].at = "save",
           job[c].op \in {"update", "release", "handoff", "join"},
           NEW j, job' = [job EXCEPT ![c] = j], j.at \in {"idle", "lease", "project"},
           index' = index
    PROVE  JoinInv'
<1>. DEFINE p == job[c].parent
            K == Stamps(job[c].copy)
<1>1. p \in Parents /\ K \subseteq Stamps(states[p]) /\ Recorded(index[p], K)
  <2>1. job[c] \in ReleaseSaveJobs \cup SaveJobs
    BY JobShapes DEF TypeInv, JobsInv
  <2>2. p \in Parents
    BY <2>1 DEF ReleaseSaveJobs, SaveJobs
  <2>3. CopyJoin(job[c])
    BY DEF JoinInv, JobJoin
  <2>. QED  BY <2>2, <2>3 DEF CopyJoin, SpawnOps
<1>2. /\ Stamps(states'[p]) = K /\ \A q \in Parents : q # p => states'[q] = states[q]
      /\ job'[c] = j /\ \A d \in Procs : d # c => job'[d] = job[d]
  BY <1>1 DEF Write, TypeInv, FilesInv, JobsInv
<1>. HIDE DEF p, K
<1>3. ASSUME NEW q \in Parents PROVE Stamped(Stamps(states'[q])) /\ Recorded(index'[q], Stamps(states'[q]))
  <2>1. Stamped(Stamps(states[q])) /\ Recorded(index[q], Stamps(states[q]))
    BY DEF JoinInv
  <2>2. CASE q = p
    BY <1>1, <1>2, <2>1, <2>2, StampedFewer
  <2>3. CASE q # p
    BY <1>2, <2>1, <2>3
  <2>. QED  BY <2>2, <2>3
<1>4. ASSUME NEW d \in Procs PROVE JobJoin(job[d])'
  <2>1. CASE d = c
    BY <1>2, <2>1 DEF JobJoin, CopyJoin, HolderJoin, PostJoin, LiveJoin
  <2>2. CASE d # c /\ job[d].op \notin SpawnOps
    <3>1. job'[d] = job[d] /\ job[d].at \notin {"save", "loadIndex", "saveIndex"}
          /\ job[d].op # "join"
      BY <1>2, <2>2, OnlyClient
    <3>. QED  BY <3>1 DEF JobJoin, CopyJoin, HolderJoin, PostJoin, LiveJoin
  <2>3. CASE d # c /\ job[d].op \in SpawnOps
    <3>1. job'[d] = job[d] /\ HolderJoin(job[d]) /\ job[d] \in Jobs
      BY <1>2, <2>3 DEF JoinInv, JobJoin, TypeInv, JobsInv
    <3>2. HolderJoin(job[d])'
      <4>. SUFFICES ASSUME job[d].at = "save"
                    PROVE  /\ Stamps(states'[job[d].parent]) \subseteq Stamps(job[d].copy)
                           /\ Stamped(Stamps(job[d].copy))
        BY <3>1 DEF HolderJoin
      <4>1. /\ Stamps(states[job[d].parent]) \subseteq Stamps(job[d].copy)
            /\ Stamped(Stamps(job[d].copy))
        BY <2>3, <3>1 DEF HolderJoin
      <4>2. job[d].parent \in Parents
        BY <2>3, <3>1, JobShapes DEF SpawnSaveJobs
      <4>3. Stamps(states'[job[d].parent]) \subseteq Stamps(states[job[d].parent])
        <5>1. CASE job[d].parent = p
          BY <1>1, <1>2, <5>1
        <5>2. CASE job[d].parent # p
          BY <1>2, <4>2, <5>2
        <5>. QED  BY <5>1, <5>2
      <4>. QED  BY <4>1, <4>3
    <3>3. job[d].at \notin {"loadIndex", "saveIndex"} /\ job[d].op # "join"
      <4>1. job[d].at \in {"loadIndex", "saveIndex"} => job[d].op = "join"
        BY <3>1, JobShapes DEF PostJobs
      <4>. QED  BY <2>3, <4>1 DEF SpawnOps
    <3>. QED  BY <2>3, <3>1, <3>2, <3>3 DEF JobJoin, CopyJoin, PostJoin, LiveJoin
  <2>. QED  BY <2>1, <2>2, <2>3
<1>. QED  BY <1>3, <1>4 DEF JoinInv

\* The holder of the lock saves a file.
LEMMA SpawnSaveJoin ==
    ASSUME TypeInv, JoinInv, NEW c \in Procs, SpawnSave(c) PROVE JoinInv'
<1>. DEFINE p == job[c].parent
            H == Stamps(job[c].copy)
            j == [op |-> job[c].op, at |-> "project"]
<1>1. /\ job[c].op \in SpawnOps /\ job[c].at = "save" /\ index' = index
      /\ states' = [states EXCEPT ![p] = job[c].copy] /\ job' = [job EXCEPT ![c] = j]
  BY DEF SpawnSave, SpawnOps, Write, Become
<1>2. p \in Parents /\ Stamps(states[p]) \subseteq H /\ Stamped(H)
  <2>1. job[c] \in SpawnSaveJobs
    BY <1>1, JobShapes DEF TypeInv, JobsInv
  <2>2. HolderJoin(job[c])
    BY DEF JoinInv, JobJoin
  <2>. QED  BY <1>1, <2>1, <2>2 DEF HolderJoin, SpawnSaveJobs
<1>3. /\ Stamps(states'[p]) = H /\ \A q \in Parents : q # p => states'[q] = states[q]
      /\ job'[c] = j /\ \A d \in Procs : d # c => job'[d] = job[d]
  BY <1>1, <1>2 DEF TypeInv, FilesInv, JobsInv
<1>4. j.at = "project" /\ j.op \in SpawnOps
  BY <1>1
<1>. HIDE DEF p, H, j
<1>5. \A q \in Parents : Stamps(states[q]) \subseteq Stamps(states'[q])
  <2>. SUFFICES ASSUME NEW q \in Parents PROVE Stamps(states[q]) \subseteq Stamps(states'[q])
    OBVIOUS
  <2>1. CASE q = p
    BY <1>2, <1>3, <2>1
  <2>2. CASE q # p
    BY <1>3, <2>2
  <2>. QED  BY <2>1, <2>2
<1>6. ASSUME NEW q \in Parents PROVE Stamped(Stamps(states'[q])) /\ Recorded(index'[q], Stamps(states'[q]))
  <2>1. Stamped(Stamps(states[q])) /\ Recorded(index[q], Stamps(states[q]))
    BY DEF JoinInv
  <2>2. Recorded(index'[q], Stamps(states'[q]))
    BY <1>1, <1>5, <2>1, RecordedMore
  <2>3. CASE q = p
    BY <1>2, <1>3, <2>2, <2>3
  <2>4. CASE q # p
    BY <1>3, <2>1, <2>2, <2>4
  <2>. QED  BY <2>3, <2>4
<1>7. ASSUME NEW d \in Procs PROVE JobJoin(job[d])'
  <2>1. CASE d = c
    <3>1. job'[d] = j
      BY <1>3, <2>1
    <3>. QED  BY <1>4, <3>1 DEF JobJoin, CopyJoin, HolderJoin, PostJoin, LiveJoin
  <2>2. CASE d # c
    <3>1. job'[d] = job[d] /\ JobJoin(job[d]) /\ job[d] \in Jobs /\ job[d].op \notin SpawnOps
      BY <1>1, <1>3, <2>2 DEF JoinInv, TypeInv, JobsInv, LockInv
    <3>2. CopyJoin(job[d])'
      <4>. SUFFICES ASSUME job[d].at = "save"
                    PROVE  /\ Stamps(job[d].copy) \subseteq Stamps(states'[job[d].parent])
                           /\ Recorded(index[job[d].parent], Stamps(job[d].copy))
        BY <1>1, <3>1 DEF CopyJoin
      <4>1. /\ Stamps(job[d].copy) \subseteq Stamps(states[job[d].parent])
            /\ Recorded(index[job[d].parent], Stamps(job[d].copy))
        BY <3>1 DEF JobJoin, CopyJoin
      <4>2. job[d].parent \in Parents
        <5>1. job[d].op \in {"update", "handoff", "advance", "join", "release"}
          BY <3>1 DEF Jobs, Idle, CountJobs, LoadJobs, SpawnSaveJobs, ProjectJobs,
             ReleaseJobs, RollupJobs, SyncJobs, SaveJobs, ReleaseSaveJobs, PostJobs, JoinLoadJobs,
             SpawnOps
        <5>2. job[d] \in SaveJobs \cup ReleaseSaveJobs
          BY <3>1, <5>1, JobShapes
        <5>. QED  BY <5>2 DEF SaveJobs, ReleaseSaveJobs
      <4>. QED  BY <1>5, <4>1, <4>2
    <3>3. PostJoin(job[d])'
      <4>. SUFFICES ASSUME job[d].at \in {"loadIndex", "saveIndex"}
                    PROVE  /\ Recorded(job[d].post, Stamps(states'[job[d].parent]))
                           /\ job[d].post.posted # {}
        BY <3>1 DEF PostJoin
      <4>1. /\ Recorded(job[d].post, Stamps(states[job[d].parent])) /\ job[d].post.posted # {}
        BY <3>1 DEF JobJoin, PostJoin
      <4>2. job[d].parent \in Parents
        BY <3>1, JobShapes DEF PostJobs
      <4>3. Stamps(states[job[d].parent]) \subseteq Stamps(states'[job[d].parent])
        BY <1>5, <4>2
      <4>. QED  BY <4>1, <4>3, RecordedMore
    <3>. QED  BY <1>1, <3>1, <3>2, <3>3 DEF JobJoin, HolderJoin, LiveJoin
  <2>. QED  BY <2>1, <2>2
<1>. QED  BY <1>6, <1>7 DEF JoinInv

\* The index is saved: what was posted is in it, and the entries are its live ones.
LEMMA SaveIndexJoin ==
    ASSUME TypeInv, RosterInv, SoleClient, JoinInv, NEW c \in Procs, JoinSaveIndex(c)
    PROVE  JoinInv'
<1>. DEFINE p == job[c].parent
            post == job[c].post
            j == [op |-> "join", at |-> "load", parent |-> p, live |-> LiveEntries(post)]
<1>1. /\ job[c].op = "join" /\ job[c].at = "saveIndex" /\ states' = states
      /\ index' = [index EXCEPT ![p] = post] /\ job' = [job EXCEPT ![c] = j]
  BY DEF JoinSaveIndex, At, Become
<1>2. p \in Parents /\ Recorded(post, Stamps(states[p])) /\ post.posted # {}
  <2>1. job[c] \in PostJobs
    BY <1>1, JobShapes DEF TypeInv, JobsInv
  <2>2. PostJoin(job[c])
    BY DEF JoinInv, JobJoin
  <2>. QED  BY <1>1, <2>1, <2>2 DEF PostJoin, PostJobs
<1>3. /\ index'[p] = post /\ \A q \in Parents : q # p => index'[q] = index[q]
      /\ job'[c] = j /\ \A d \in Procs : d # c => job'[d] = job[d]
  BY <1>1, <1>2 DEF TypeInv, SharedInv, JobsInv
<1>4. j.at = "load" /\ j.op = "join" /\ j.parent = p /\ j.live = LiveEntries(post)
  OBVIOUS
<1>. HIDE DEF p, post, j
<1>5. ASSUME NEW q \in Parents PROVE Stamped(Stamps(states'[q])) /\ Recorded(index'[q], Stamps(states'[q]))
  <2>1. Stamped(Stamps(states[q])) /\ Recorded(index[q], Stamps(states[q]))
    BY DEF JoinInv
  <2>2. CASE q = p
    BY <1>1, <1>2, <1>3, <2>1, <2>2
  <2>3. CASE q # p
    BY <1>1, <1>3, <2>1, <2>3
  <2>. QED  BY <2>2, <2>3
<1>6. ASSUME NEW d \in Procs PROVE JobJoin(job[d])'
  <2>1. CASE d = c
    <3>1. job'[d] = j
      BY <1>3, <2>1
    <3>2. LiveJoin(job[d])'
      <4>1. job'[d].live = LiveEntries(index'[job'[d].parent]) /\ index'[job'[d].parent].posted # {}
        BY <1>2, <1>3, <1>4, <3>1
      <4>. QED  BY <4>1 DEF LiveJoin, LiveEntries
    <3>. QED  BY <1>4, <3>1, <3>2 DEF JobJoin, CopyJoin, HolderJoin, PostJoin
  <2>2. CASE d # c /\ job[d].op \notin SpawnOps
    <3>1. job'[d] = job[d] /\ job[d].at \notin {"save", "loadIndex", "saveIndex"}
          /\ job[d].op # "join"
      BY <1>1, <1>3, <2>2, OnlyClient
    <3>. QED  BY <3>1 DEF JobJoin, CopyJoin, HolderJoin, PostJoin, LiveJoin
  <2>3. CASE d # c /\ job[d].op \in SpawnOps
    <3>1. job'[d] = job[d] /\ HolderJoin(job[d]) /\ job[d] \in Jobs
      BY <1>3, <2>3 DEF JoinInv, JobJoin, TypeInv, JobsInv
    <3>2. HolderJoin(job[d])'
      BY <1>1, <3>1 DEF HolderJoin
    <3>3. job[d].at \notin {"loadIndex", "saveIndex"} /\ job[d].op # "join"
      <4>1. job[d].at \in {"loadIndex", "saveIndex"} => job[d].op = "join"
        BY <3>1, JobShapes DEF PostJobs
      <4>. QED  BY <2>3, <4>1 DEF SpawnOps
    <3>. QED  BY <2>3, <3>1, <3>2, <3>3 DEF JobJoin, CopyJoin, PostJoin, LiveJoin
  <2>. QED  BY <2>1, <2>2, <2>3
<1>. QED  BY <1>5, <1>6 DEF JoinInv

\* The stamps of the copy: those of the file, and the new tasks' own.
LEMMA AddedStamps ==
    ASSUME NEW p \in Parents, NEW n \in Nat, NEW st, FileOK(st, p, n), st.exists,
           NEW ids \in Seq(Ids), NEW sequential,
           \A i \in DOMAIN ids : ParentOf(ids[i]) = p /\ ids[i][3] = n + i
    PROVE  Stamps(Added(st, ids, sequential))
             = Stamps(st) \cup NewStamps(st, ids, sequential)
<1>. DEFINE copy == Added(st, ids, sequential)
            k == Len(st.tasks)
            m == Len(ids)
<1>1. k \in Nat /\ m \in Nat /\ DOMAIN st.tasks = 1 .. k /\ DOMAIN ids = 1 .. m /\ n + m \in Nat
  BY FileTasks
<1>2. /\ FileOK(copy, p, n + m) /\ Len(copy.tasks) = k + m
      /\ \A i \in 1 .. k : copy.tasks[i] = st.tasks[i]
      /\ \A i \in 1 .. m : copy.tasks[k + i] = NewTask(st, ids[i], sequential)
  BY <1>1, AddedFile
<1>3. DOMAIN copy.tasks = 1 .. (k + m)
  BY <1>2, FileTasks
<1>. HIDE DEF copy, k, m
<1>4. \A i \in 1 .. m : /\ copy.tasks[k + i].id = ids[i]
                        /\ copy.tasks[k + i].supersedes = NewTask(st, ids[i], sequential).supersedes
  <2>1. \A id : NewTask(st, id, sequential).id = id
    BY DEF NewTask
  <2>. QED  BY <1>2, <2>1, Zenon
<1>5. \A i \in 1 .. (k + m) : i \in 1 .. k \/ \E h \in 1 .. m : i = k + h
  <2>. SUFFICES ASSUME NEW i \in 1 .. (k + m), i \notin 1 .. k PROVE \E h \in 1 .. m : i = k + h
    OBVIOUS
  <2>1. i - k \in 1 .. m /\ i = k + (i - k)
    BY <1>1
  <2>. QED  BY <2>1
<1>6. ASSUME NEW x \in Stamps(copy) PROVE x \in Stamps(st) \cup NewStamps(st, ids, sequential)
  <2>1. PICK i \in 1 .. (k + m) : x = <<copy.tasks[i].id, copy.tasks[i].supersedes>>
    BY <1>3 DEF Stamps, TaskSet
  <2>2. CASE i \in 1 .. k
    BY <1>1, <1>2, <2>1, <2>2 DEF Stamps, TaskSet
  <2>3. CASE \E h \in 1 .. m : i = k + h
    <3>1. PICK h \in 1 .. m : i = k + h
      BY <2>3
    <3>2. x = <<ids[h], NewTask(st, ids[h], sequential).supersedes>> /\ h \in DOMAIN ids
      BY <1>1, <1>4, <2>1, <3>1
    <3>. QED  BY <3>2 DEF NewStamps
  <2>. QED  BY <1>5, <2>2, <2>3
<1>7. ASSUME NEW x \in Stamps(st) PROVE x \in Stamps(copy)
  <2>1. PICK i \in 1 .. k : x = <<st.tasks[i].id, st.tasks[i].supersedes>>
    BY <1>1 DEF Stamps, TaskSet
  <2>2. i \in 1 .. (k + m) /\ copy.tasks[i] = st.tasks[i]
    BY <1>1, <1>2
  <2>. QED  BY <1>3, <2>1, <2>2 DEF Stamps, TaskSet
<1>8. ASSUME NEW i \in DOMAIN ids
      PROVE  <<ids[i], NewTask(st, ids[i], sequential).supersedes>> \in Stamps(copy)
  <2>1. i \in 1 .. m /\ k + i \in 1 .. (k + m)
    BY <1>1
  <2>2. <<copy.tasks[k + i].id, copy.tasks[k + i].supersedes>> \in Stamps(copy)
    BY <1>3, <2>1 DEF Stamps, TaskSet
  <2>. QED  BY <1>4, <2>1, <2>2
<1>9. NewStamps(st, ids, sequential) \subseteq Stamps(copy)
  BY <1>8 DEF NewStamps
<1>. QED  BY <1>6, <1>7, <1>9 DEF copy

\* A delegate or a schedule stamps the tasks it adds.
LEMMA PrepareJoin ==
    ASSUME TypeInv, RosterInv, JoinInv, NEW c \in Procs, job[c] \in LoadJobs,
           Prepare(c, Loaded(job[c].parent))
    PROVE  JoinInv'
<1>. DEFINE p == job[c].parent
            st == Loaded(p)
            ids == NewIds(c)
            seq == job[c].sequential
            copy == Added(st, ids, seq)
            members == job[c].members
            j == [op |-> job[c].op, at |-> "save", parent |-> p, ids |-> ids, copy |-> copy]
<1>1. job' = [job EXCEPT ![c] = j] /\ UNCHANGED <<states, index>>
  BY DEF Prepare, Become
<1>2. p \in Parents /\ members \in Seq(Agents) /\ job[c].op \in SpawnOps /\ job[c].at = "load"
  BY DEF LoadJobs
<1>3. NoRepeat(members)
  BY <1>2 DEF RosterInv, Roster
<1>4. /\ ids \in Seq(Ids) /\ DOMAIN ids = DOMAIN members
      /\ \A i \in DOMAIN ids : ids[i] = <<p, members[i], drawn + i>>
      /\ \A i \in DOMAIN ids : ParentOf(ids[i]) = p /\ ids[i][3] = drawn + i
      /\ \A i \in DOMAIN ids : i \in Nat /\ 1 <= i
  <2>1. /\ ids \in Seq(Ids) /\ DOMAIN ids = 1 .. Len(members) /\ Len(members) \in Nat
        /\ \A i \in DOMAIN ids : ids[i] = <<p, members[i], drawn + i>>
        /\ \A i \in DOMAIN ids : ParentOf(ids[i]) = p /\ ids[i][3] = drawn + i
    BY <1>2, NewIdsTypes
  <2>2. DOMAIN members = 1 .. Len(members)
    BY <1>2
  <2>. QED  BY <2>1, <2>2
<1>5. FileOK(st, p, drawn) /\ st.exists /\ Stamps(st) = Stamps(states[p]) /\ drawn \in Nat
  <2>1. FileOK(st, p, drawn) /\ st.exists /\ st.tasks = states[p].tasks
    BY <1>2, LoadedFile
  <2>2. Stamps(st) = Stamps(states[p])
    BY <2>1 DEF Stamps, TaskSet
  <2>3. drawn \in Nat
    BY SetupFacts DEF TypeInv, SharedInv
  <2>. QED  BY <2>1, <2>2, <2>3
<1>6. \A i \in DOMAIN ids : AgentOf(ids[i]) = members[i]
  BY <1>4 DEF AgentOf
<1>. HIDE DEF p, st, ids, members, seq
<1>. DEFINE sup(i) == NewTask(st, ids[i], seq).supersedes
            new == NewStamps(st, ids, seq)
<1>7. Stamps(copy) = Stamps(states[p]) \cup new
  <2>1. ids \in Seq(Ids) /\ \A i \in DOMAIN ids : ParentOf(ids[i]) = p /\ ids[i][3] = drawn + i
    BY <1>4
  <2>2. FileOK(st, p, drawn) /\ st.exists /\ drawn \in Nat
    BY <1>5
  <2>3. Stamps(copy) = Stamps(st) \cup new
    BY <1>2, <2>1, <2>2, AddedStamps
  <2>. QED  BY <1>5, <2>3
<1>8. Stamped(Stamps(states[p]))
  BY <1>2 DEF JoinInv
<1>9. ASSUME NEW i \in DOMAIN ids
      PROVE  /\ \A s \in Stamps(states[p]) : AgentOf(s[1]) = AgentOf(ids[i]) => s[1] \in sup(i)
             /\ \A z \in sup(i) : \E s \in Stamps(states[p]) : s[1] = z
  <2>1. sup(i) = {t.id : t \in {u \in TaskSet(st) : seq \/ AgentOf(u.id) = AgentOf(ids[i])}}
    BY DEF NewTask
  <2>2. /\ \A s \in Stamps(st) : \E t \in TaskSet(st) : s[1] = t.id
        /\ \A t \in TaskSet(st) : \E s \in Stamps(st) : s[1] = t.id
    <3>1. \A s \in Stamps(st) : \E t \in TaskSet(st) : s = <<t.id, t.supersedes>>
      BY DEF Stamps
    <3>2. \A t \in TaskSet(st) : <<t.id, t.supersedes>> \in Stamps(st)
      BY DEF Stamps
    <3>3. ASSUME NEW s \in Stamps(st) PROVE \E t \in TaskSet(st) : s[1] = t.id
      BY <3>1
    <3>4. ASSUME NEW t \in TaskSet(st) PROVE \E s \in Stamps(st) : s[1] = t.id
      <4>1. <<t.id, t.supersedes>> \in Stamps(st) /\ <<t.id, t.supersedes>>[1] = t.id
        BY <3>2
      <4>. QED  BY <4>1
    <3>. QED  BY <3>3, <3>4
  <2>. HIDE DEF sup
  <2>3. \A z \in sup(i) : \E t \in TaskSet(st) : z = t.id
    BY <2>1
  <2>4. \A t \in TaskSet(st) : AgentOf(t.id) = AgentOf(ids[i]) => t.id \in sup(i)
    BY <2>1
  <2>5. /\ \A s \in Stamps(st) : AgentOf(s[1]) = AgentOf(ids[i]) => s[1] \in sup(i)
        /\ \A z \in sup(i) : \E s \in Stamps(st) : s[1] = z
    BY <2>2, <2>3, <2>4, Zenon
  <2>. QED  BY <1>5, <2>5
<1>10. \A s \in Stamps(states[p]) : s[1][3] \in Nat /\ s[1][3] <= drawn
  BY <1>5, StampFacts
<1>11. \A s \in new : \E i \in DOMAIN ids : s[1] = ids[i] /\ s[2] = sup(i)
  BY DEF NewStamps
<1>. HIDE DEF sup, new
<1>12. Stamped(Stamps(copy))
  <2>1. ASSUME NEW s \in Stamps(copy), NEW u \in Stamps(copy), AgentOf(s[1]) = AgentOf(u[1]),
               s[1][3] < u[1][3]
        PROVE  s[1] \in u[2]
    <3>1. CASE s \in Stamps(states[p]) /\ u \in Stamps(states[p])
      BY <1>8, <2>1, <3>1 DEF Stamped
    <3>2. CASE s \in Stamps(states[p]) /\ u \in new
      BY <1>9, <1>11, <2>1, <3>2
    <3>3. CASE s \in new
      <4>1. PICK i \in DOMAIN ids : s[1] = ids[i]
        BY <1>11, <3>3
      <4>2. s[1][3] = drawn + i /\ i \in Nat /\ 1 <= i
        BY <1>4, <4>1
      <4>3. CASE u \in Stamps(states[p])
        BY <1>5, <1>10, <2>1, <4>2, <4>3
      <4>4. CASE u \in new
        <5>1. PICK h \in DOMAIN ids : u[1] = ids[h]
          BY <1>11, <4>4
        <5>2. members[i] = members[h]
          BY <1>6, <2>1, <4>1, <5>1
        <5>3. i = h
          BY <1>3, <1>4, <5>2 DEF NoRepeat
        <5>4. s[1][3] = u[1][3] /\ s[1][3] \in Nat
          BY <1>5, <4>1, <4>2, <5>1, <5>3
        <5>. QED  BY <2>1, <5>4
      <4>. QED  BY <1>7, <4>3, <4>4
    <3>. QED  BY <1>7, <3>1, <3>2, <3>3
  <2>2. ASSUME NEW s \in Stamps(copy), NEW z \in s[2] PROVE z[3] < s[1][3]
    <3>1. CASE s \in Stamps(states[p])
      BY <1>8, <3>1 DEF Stamped
    <3>2. CASE s \in new
      <4>1. PICK i \in DOMAIN ids : s[1] = ids[i] /\ s[2] = sup(i)
        BY <1>11, <3>2
      <4>2. s[1][3] = drawn + i /\ i \in Nat /\ 1 <= i
        BY <1>4, <4>1
      <4>3. PICK u \in Stamps(states[p]) : u[1] = z
        BY <1>9, <4>1
      <4>4. z[3] \in Nat /\ z[3] <= drawn
        BY <1>10, <4>3
      <4>. QED  BY <1>5, <4>2, <4>4
    <3>. QED  BY <1>7, <3>1, <3>2
  <2>. QED  BY <2>1, <2>2 DEF Stamped
<1>13. j.op = job[c].op /\ j.at = "save" /\ j.parent = p /\ j.copy = copy
  OBVIOUS
<1>14. HolderJoin(j)
  <2>1. Stamps(states[p]) \subseteq Stamps(copy)
    BY <1>7
  <2>. HIDE DEF copy, j
  <2>. QED  BY <1>12, <1>13, <2>1, Zenon DEF HolderJoin
<1>. HIDE DEF copy, j
<1>15. JobJoin(j)
  BY <1>2, <1>13, <1>14 DEF JobJoin, CopyJoin, PostJoin, LiveJoin
<1>. QED  BY <1>1, <1>15, JoinStep

\* A poll posts the summaries of the file with all they supersede.
LEMMA PollJoinJoin ==
    ASSUME TypeInv, JoinInv, NEW c \in Procs, NEW p \in Parents, PollJoin(c, p) PROVE JoinInv'
<1>. DEFINE st == states[p]
            post == [posted |-> {t.id : t \in Summaries(st)},
                     superseded |-> UNION {Supersedes(st, t) : t \in Summaries(st)}]
            j == [op |-> "join", at |-> "loadIndex", parent |-> p, post |-> post]
<1>1. /\ job' = [job EXCEPT ![c] = j] /\ UNCHANGED <<states, index>> /\ Summaries(st) # {}
  BY DEF PollJoin, Become
<1>2. FileOK(st, p, drawn) /\ Stamped(Stamps(st))
  BY DEF TypeInv, FilesInv, JoinInv
<1>. HIDE DEF st
<1>3. /\ post.posted = {t.id : t \in Summaries(st)}
      /\ post.superseded = UNION {Supersedes(st, t) : t \in Summaries(st)}
  OBVIOUS
<1>. HIDE DEF post
<1>4. \A t \in Summaries(st) : t \in TaskSet(st) /\ <<t.id, t.supersedes>> \in Stamps(st)
  BY DEF Summaries, Stamps
<1>5. \A x \in post.posted : \E s \in Stamps(st) : s[1] = x /\ s[2] \subseteq post.superseded
  <2>. SUFFICES ASSUME NEW x \in post.posted
                PROVE  \E s \in Stamps(st) : s[1] = x /\ s[2] \subseteq post.superseded
    OBVIOUS
  <2>1. PICK t \in Summaries(st) : x = t.id
    BY <1>3
  <2>2. t.supersedes \subseteq Supersedes(st, t)
    BY DEF Supersedes
  <2>3. t.supersedes \subseteq post.superseded
    BY <1>3, <2>2
  <2>4. <<t.id, t.supersedes>>[1] = x /\ <<t.id, t.supersedes>>[2] \subseteq post.superseded
    BY <2>1, <2>3
  <2>. QED  BY <1>4, <2>4
<1>6. \A z \in post.superseded : \E x \in post.posted : z[3] < x[3]
  <2>. SUFFICES ASSUME NEW z \in post.superseded PROVE \E x \in post.posted : z[3] < x[3]
    OBVIOUS
  <2>1. PICK t \in Summaries(st) : z \in Supersedes(st, t)
    BY <1>3
  <2>2. t.id \in post.posted
    BY <1>3
  <2>3. CASE z \in t.supersedes
    <3>. DEFINE s == <<t.id, t.supersedes>>
    <3>1. s \in Stamps(st) /\ s[1] = t.id /\ s[2] = t.supersedes
      BY <1>4
    <3>. HIDE DEF s
    <3>2. z[3] < s[1][3]
      BY <1>2, <2>3, <3>1 DEF Stamped
    <3>. QED  BY <2>2, <3>1, <3>2
  <2>4. CASE z \notin t.supersedes
    <3>1. PICK i \in DOMAIN st.tasks, k \in DOMAIN st.tasks :
            z = st.tasks[i].id /\ i < k /\ st.tasks[k].id = t.id
      BY <2>1, <2>4 DEF Supersedes
    <3>2. st.tasks[i].id[3] < st.tasks[k].id[3]
      BY <1>2, <3>1 DEF FileOK
    <3>. QED  BY <2>2, <3>1, <3>2
  <2>. QED  BY <2>3, <2>4
<1>7. Recorded(post, Stamps(st)) /\ post.posted # {}
  <2>1. post.posted # {}
    BY <1>1, <1>3
  <2>. QED  BY <1>5, <1>6, <2>1 DEF Recorded
<1>8. j.op = "join" /\ j.at = "loadIndex" /\ j.parent = p /\ j.post = post
  OBVIOUS
<1>. HIDE DEF j
<1>9. PostJoin(j)
  BY <1>7, <1>8, Zenon DEF PostJoin, st
<1>10. JobJoin(j)
  BY <1>8, <1>9 DEF JobJoin, CopyJoin, HolderJoin, LiveJoin
<1>. QED  BY <1>1, <1>10, JoinStep

\* A copy of the file as it is, as far as the stamps go.
LEMMA SameCopy ==
    ASSUME JoinInv, NEW j, j.op \in {"update", "release", "handoff", "join"}, j.at = "save",
           NEW p \in Parents, j.parent = p, Stamps(j.copy) = Stamps(states[p])
    PROVE  JobJoin(j)
<1>1. Recorded(index[p], Stamps(states[p]))
  BY DEF JoinInv
<1>2. CopyJoin(j)
  BY <1>1, Zenon DEF CopyJoin
<1>. QED  BY <1>2 DEF JobJoin, HolderJoin, PostJoin, LiveJoin, SpawnOps

\* Changing a status, recording a summary, releasing.
LEMMA ChangeJoin ==
    ASSUME TypeInv, JoinInv, NEW c \in Procs, NEW id \in Ids,
           \/ \E s \in AllStatuses : UpdateStatus(c, id, s)
           \/ SetHandoff(c, id) \/ Release(c, id)
    PROVE  JoinInv'
<1>. DEFINE p == ParentOf(id)
            st == states[p]
<1>1. UNCHANGED <<states, index>>
  BY DEF UpdateStatus, SetHandoff, Release
<1>2. p \in Parents /\ FileOK(st, p, drawn)
  BY FoundFile DEF AllStatuses
<1>3. /\ \A s : Stamps(WithStatus(st, id, s)) = Stamps(st)
      /\ Stamps(WithSummary(st, id)) = Stamps(st)
  BY <1>2, SameStamps
<1>4. ASSUME NEW s \in AllStatuses, UpdateStatus(c, id, s) PROVE JoinInv'
  <2>. DEFINE j == [op |-> "update", at |-> "save", parent |-> p, copy |-> WithStatus(st, id, s)]
  <2>1. job' = [job EXCEPT ![c] = j]
    BY <1>4 DEF UpdateStatus, Become
  <2>2. /\ j.op \in {"update", "release", "handoff", "join"} /\ j.at = "save" /\ j.parent = p
        /\ Stamps(j.copy) = Stamps(states[p])
    BY <1>3
  <2>. HIDE DEF j
  <2>3. JobJoin(j)
    BY <1>2, <2>2, SameCopy
  <2>. QED  BY <1>1, <2>1, <2>3, JoinStep
<1>5. ASSUME SetHandoff(c, id) PROVE JoinInv'
  <2>. DEFINE j == [op |-> "handoff", at |-> "save", parent |-> p, copy |-> WithSummary(st, id)]
  <2>1. job' = [job EXCEPT ![c] = j]
    BY <1>5 DEF SetHandoff, Become
  <2>2. /\ j.op \in {"update", "release", "handoff", "join"} /\ j.at = "save" /\ j.parent = p
        /\ Stamps(j.copy) = Stamps(states[p])
    BY <1>3
  <2>. HIDE DEF j
  <2>3. JobJoin(j)
    BY <1>2, <2>2, SameCopy
  <2>. QED  BY <1>1, <2>1, <2>3, JoinStep
<1>6. ASSUME Release(c, id) PROVE JoinInv'
  <2>. DEFINE j == [op |-> "release", at |-> "save", parent |-> p, id |-> id,
                    copy |-> WithStatus(st, id, "completed")]
              k == [op |-> "release", at |-> "lease", id |-> id]
  <2>1. job' = [job EXCEPT ![c] = j] \/ job' = [job EXCEPT ![c] = k]
    BY <1>6 DEF Release, Become
  <2>2. /\ j.op \in {"update", "release", "handoff", "join"} /\ j.at = "save" /\ j.parent = p
        /\ Stamps(j.copy) = Stamps(states[p])
    BY <1>3
  <2>3. k.op = "release" /\ k.at = "lease"
    OBVIOUS
  <2>. HIDE DEF j, k
  <2>4. JobJoin(j) /\ JobJoin(k)
    BY <1>2, <2>2, <2>3, SameCopy, PlainJoin
  <2>. QED  BY <1>1, <2>1, <2>4, JoinStep
<1>. QED  BY <1>4, <1>5, <1>6

\* A caller that goes on to a stage without a copy, a post or live entries.
LEMMA PlainJoinStep ==
    ASSUME TypeInv, JoinInv, NEW c \in Procs, NEW j, job' = [job EXCEPT ![c] = j],
           UNCHANGED <<states, index>>, j.at \notin {"save", "loadIndex", "saveIndex"},
           j.op = "join" => j.at # "load"
    PROVE  JoinInv'
<1>1. JobJoin(j)
  BY PlainJoin
<1>. QED  BY <1>1, JoinStep

\* The steps of an operation that was begun.
LEMMA StepJoin ==
    ASSUME TypeInv, RosterInv, SoleClient, JoinInv, NEW c \in Procs, Step(c) PROVE JoinInv'
<1>0. job[c] \in Jobs /\ Idle.op = "none" /\ Idle.at = "idle"
  BY DEF TypeInv, JobsInv, Idle
<1>1. ASSUME Finish(c), UNCHANGED <<states, index>> PROVE JoinInv'
  BY <1>0, <1>1, PlainJoinStep DEF Finish, Become
<1>2. CASE \E p \in Parents : CountFile(c, p)
  <2>1. PICK p \in Parents : CountFile(c, p)
    BY <1>2
  <2>. DEFINE j == [job[c] EXCEPT !.left = @ \ {p}, !.live = [a \in Agents |-> @[a] + LiveIn(p, a)]]
  <2>2. job' = [job EXCEPT ![c] = j] /\ UNCHANGED <<states, index>> /\ job[c].at = "count"
    BY <2>1 DEF CountFile, Become
  <2>3. job[c] \in CountJobs
    BY <1>0, <2>2, JobShapes
  <2>4. j.at = "count"
    BY <2>2, <2>3 DEF CountJobs
  <2>. HIDE DEF j
  <2>. QED  BY <2>2, <2>4, PlainJoinStep
<1>3. CASE CheckLimit(c)
  <2>. DEFINE j == [op |-> job[c].op, at |-> "load", parent |-> job[c].parent,
                    members |-> job[c].members, sequential |-> job[c].sequential]
  <2>1. /\ job[c].at = "count" /\ UNCHANGED <<states, index>>
        /\ Finish(c) \/ job' = [job EXCEPT ![c] = j]
    BY <1>3 DEF CheckLimit, GiveUp, Become
  <2>2. job[c] \in CountJobs
    BY <1>0, <2>1, JobShapes
  <2>3. j.at = "load" /\ j.op # "join"
    BY <2>2 DEF CountJobs, SpawnOps
  <2>. HIDE DEF j
  <2>4. ASSUME job' = [job EXCEPT ![c] = j] PROVE JoinInv'
    BY <2>1, <2>3, <2>4, PlainJoinStep
  <2>. QED  BY <1>1, <2>1, <2>4
<1>4. CASE DelegateLoad(c) \/ ScheduleLoad(c)
  <2>1. job[c] \in LoadJobs
    BY <1>0, <1>4, JobShapes DEF DelegateLoad, ScheduleLoad, At, SpawnOps
  <2>2. Prepare(c, Loaded(job[c].parent))
    BY <1>4 DEF DelegateLoad, ScheduleLoad, SoleClient
  <2>. QED  BY <2>1, <2>2, PrepareJoin
<1>5. CASE LeaseFails(c) \/ SpawnSaveFails(c) \/ SaveFails(c) \/ SyncSessionTasks(c)
  BY <1>1, <1>5 DEF LeaseFails, SpawnSaveFails, SaveFails, SyncSessionTasks, GiveUp
<1>6. CASE SpawnSave(c)
  BY <1>6, SpawnSaveJoin
<1>7. CASE Project(c)
  <2>0. PICK missed \in Overlooked :
          job' = [job EXCEPT ![c] = [op |-> job[c].op, at |-> "rollup",
                                     seen |-> LiveIdsOf(Parents \ missed)]]
    BY <1>7 DEF Project, Become
  <2>. DEFINE j == [op |-> job[c].op, at |-> "rollup", seen |-> LiveIdsOf(Parents \ missed)]
  <2>1. job' = [job EXCEPT ![c] = j] /\ UNCHANGED <<states, index>> /\ j.at = "rollup"
    BY <1>7, <2>0 DEF Project
  <2>. HIDE DEF j
  <2>. QED  BY <2>1, PlainJoinStep
<1>8. CASE WriteRollup(c)
  <2>. DEFINE j == [op |-> "sync", at |-> "load"]
  <2>1. UNCHANGED <<states, index>> /\ (Finish(c) \/ job' = [job EXCEPT ![c] = j])
    BY <1>8 DEF WriteRollup, Become
  <2>2. j.op = "sync" /\ j.at = "load"
    OBVIOUS
  <2>. HIDE DEF j
  <2>3. ASSUME job' = [job EXCEPT ![c] = j] PROVE JoinInv'
    BY <2>1, <2>2, <2>3, PlainJoinStep
  <2>. QED  BY <1>1, <2>1, <2>3
<1>9. CASE UpdateSave(c) \/ ReleaseSave(c)
  <2>. DEFINE j == [op |-> "update", at |-> "project"]
              k == [op |-> "release", at |-> "lease", id |-> job[c].id]
  <2>1. /\ Write(c) /\ job[c].at = "save" /\ job[c].op \in {"update", "release"} /\ index' = index
        /\ job' = [job EXCEPT ![c] = j] \/ job' = [job EXCEPT ![c] = k]
    BY <1>9 DEF UpdateSave, ReleaseSave, At, Become
  <2>2. j.at = "project" /\ k.at = "lease"
    OBVIOUS
  <2>. HIDE DEF j, k
  <2>. QED  BY <2>1, <2>2, ClientSaveJoin
<1>10. CASE HandoffSave(c) \/ JoinSave(c)
  <2>1. /\ Write(c) /\ job[c].at = "save" /\ job[c].op \in {"handoff", "join"} /\ index' = index
        /\ job' = [job EXCEPT ![c] = Idle]
    BY <1>10 DEF HandoffSave, JoinSave, At, Finish, Become
  <2>. QED  BY <1>0, <2>1, ClientSaveJoin
<1>11. CASE AdvanceSave(c)
  BY <1>11 DEF AdvanceSave, At, RosterInv, Roster, ClientJob
<1>12. CASE ReleaseLease(c)
  <2>. DEFINE j == [job[c] EXCEPT !.at = "project"]
  <2>1. /\ job[c].op = "release" /\ job[c].at = "lease" /\ UNCHANGED <<states, index>>
        /\ Finish(c) \/ job' = [job EXCEPT ![c] = j]
    BY <1>12 DEF ReleaseLease, At, MoveTo, TypeInv, JobsInv
  <2>2. job[c] \in ReleaseJobs
    BY <1>0, <2>1, JobShapes
  <2>3. j.at = "project"
    BY <2>1, <2>2 DEF ReleaseJobs
  <2>. HIDE DEF j
  <2>4. ASSUME job' = [job EXCEPT ![c] = j] PROVE JoinInv'
    BY <2>1, <2>3, <2>4, PlainJoinStep
  <2>. QED  BY <1>1, <2>1, <2>4
<1>13. CASE JoinLoadIndex(c)
  <2>. DEFINE p == job[c].parent
              post == Posted(index[p], job[c].post)
              j == [op |-> "join", at |-> "saveIndex", parent |-> p, post |-> post]
  <2>1. /\ job[c].op = "join" /\ job[c].at = "loadIndex" /\ UNCHANGED <<states, index>>
        /\ job' = [job EXCEPT ![c] = j]
    BY <1>13 DEF JoinLoadIndex, At, Become
  <2>2. p \in Parents
    BY <1>0, <2>1, JobShapes DEF PostJobs
  <2>3. Recorded(job[c].post, Stamps(states[p])) /\ job[c].post.posted # {}
    BY <2>1 DEF JoinInv, JobJoin, PostJoin
  <2>4. Recorded(index[p], Stamps(states[p]))
    BY <2>2 DEF JoinInv
  <2>5. Recorded(post, Stamps(states[p]))
    BY <2>3, <2>4, RecordedBoth
  <2>6. post.posted # {}
    BY <2>3 DEF Posted
  <2>7. j.op = "join" /\ j.at = "saveIndex" /\ j.parent = p /\ j.post = post
    OBVIOUS
  <2>. HIDE DEF p, post, j
  <2>8. PostJoin(j)
    BY <2>5, <2>6, <2>7, Zenon DEF PostJoin
  <2>9. JobJoin(j)
    BY <2>7, <2>8 DEF JobJoin, CopyJoin, HolderJoin, LiveJoin
  <2>. QED  BY <2>1, <2>9, JoinStep
<1>14. CASE JoinSaveIndex(c)
  BY <1>14, SaveIndexJoin
<1>15. CASE JoinLoad(c)
  <2>. DEFINE p == job[c].parent
              copy == [states[p] EXCEPT !.handoff = job[c].live]
              j == [op |-> "join", at |-> "save", parent |-> p, copy |-> copy]
  <2>1. /\ job[c].op = "join" /\ job[c].at = "load" /\ UNCHANGED <<states, index>>
        /\ job' = [job EXCEPT ![c] = j]
    BY <1>15 DEF JoinLoad, At, Become
  <2>2. p \in Parents
    BY <1>0, <2>1, JobShapes DEF JoinLoadJobs
  <2>3. states[p] \in FileType
    BY <2>2 DEF TypeInv, FilesInv
  <2>4. copy.tasks = states[p].tasks
    BY <2>3 DEF FileType
  <2>5. Stamps(copy) = Stamps(states[p])
    BY <2>4 DEF Stamps, TaskSet
  <2>6. /\ j.op \in {"update", "release", "handoff", "join"} /\ j.at = "save" /\ j.parent = p
        /\ j.copy = copy
    OBVIOUS
  <2>. HIDE DEF p, copy, j
  <2>7. Stamps(j.copy) = Stamps(states[p])
    BY <2>5, <2>6
  <2>8. JobJoin(j)
    BY <2>2, <2>6, <2>7, SameCopy
  <2>. QED  BY <2>1, <2>8, JoinStep
<1>. QED  BY <1>2, <1>3, <1>4, <1>5, <1>6, <1>7, <1>8, <1>9, <1>10, <1>11, <1>12, <1>13, <1>14,
             <1>15, Step(c) DEF Step

\* A delegate or a team schedule takes the lock.
LEMMA SpawnJoin ==
    ASSUME TypeInv, JoinInv, NEW c \in Procs, NEW op \in SpawnOps, NEW p, NEW members, NEW sequential,
           Spawn(c, op, p, members, sequential)
    PROVE  JoinInv'
<1>0. PICK missed \in Overlooked :
        job' = [job EXCEPT ![c] = [op |-> op, at |-> "count", parent |-> p, members |-> members,
                                   sequential |-> sequential, left |-> setup.parents \ missed,
                                   live |-> [a \in Agents |-> 0]]]
  BY DEF Spawn, Counting, Become
<1>. DEFINE j == [op |-> op, at |-> "count", parent |-> p, members |-> members,
                  sequential |-> sequential, left |-> setup.parents \ missed,
                  live |-> [a \in Agents |-> 0]]
<1>1. job' = [job EXCEPT ![c] = j] /\ UNCHANGED <<states, index>>
  BY <1>0 DEF Spawn
<1>2. j.op = op /\ j.at = "count"
  OBVIOUS
<1>. HIDE DEF j
<1>. QED  BY <1>1, <1>2, PlainJoinStep

\* Every step.
LEMMA NextJoin ==
    TypeInv /\ RosterInv /\ SoleClient /\ JoinInv /\ [Next]_vars => JoinInv'
<1>. SUFFICES ASSUME TypeInv, RosterInv, SoleClient, JoinInv, [Next]_vars PROVE JoinInv'
  OBVIOUS
<1>1. /\ setup.parents \subseteq Parents /\ setup.callers \subseteq Procs
      /\ setup.delegators \subseteq Procs /\ setup.statuses \subseteq AllStatuses
  BY SetupFacts DEF TypeInv, SharedInv, Procs
<1>2. ASSUME UNCHANGED <<states, index>>, \A d \in Procs : job'[d] = job[d] \/ job'[d] = Idle
      PROVE  JoinInv'
  <2>1. \A d \in Procs : JobJoin(job[d]) /\ JobJoin(Idle)
    <3>1. JobJoin(Idle)
      BY PlainJoin DEF Idle
    <3>. QED  BY <3>1 DEF JoinInv
  <2>2. \A d \in Procs : JobJoin(job'[d])
    BY <1>2, <2>1, Zenon
  <2>3. \A d \in Procs : JobJoin(job[d])'
    BY <1>2, <2>2 DEF JobJoin, CopyJoin, HolderJoin, PostJoin, LiveJoin
  <2>. QED  BY <1>2, <2>3 DEF JoinInv
<1>3. ASSUME NEW c \in setup.delegators, NEW p \in setup.parents, NEW a \in Agents, Delegate(c, p, a)
      PROVE  JoinInv'
  BY <1>1, <1>3, SpawnJoin DEF Delegate, SpawnOps
<1>4. ASSUME NEW c \in setup.delegators, NEW p \in setup.parents, NEW t \in Teams,
             ScheduleTeam(c, p, t)
      PROVE  JoinInv'
  BY <1>1, <1>4, SpawnJoin DEF ScheduleTeam, SpawnOps
<1>5. ASSUME NEW c \in setup.callers, NEW p \in setup.parents, NEW t \in Teams,
             AdvanceSequential(c, p, t)
      PROVE  JoinInv'
  BY <1>5 DEF AdvanceSequential, SoleClient
<1>6. ASSUME NEW c \in setup.callers, NEW id \in Ids, NEW s \in setup.statuses,
             UpdateStatus(c, id, s)
      PROVE  JoinInv'
  BY <1>1, <1>6, ChangeJoin
<1>7. ASSUME NEW c \in setup.callers, NEW id \in Ids, Release(c, id) \/ SetHandoff(c, id)
      PROVE  JoinInv'
  BY <1>1, <1>7, ChangeJoin
<1>8. ASSUME NEW c \in setup.callers, NEW p \in setup.parents, PollJoin(c, p) PROVE JoinInv'
  BY <1>1, <1>8, PollJoinJoin
<1>9. ASSUME NEW c \in setup.callers, RefreshProjection(c) PROVE JoinInv'
  <2>. DEFINE j == [op |-> "refresh", at |-> "project"]
  <2>1. job' = [job EXCEPT ![c] = j] /\ UNCHANGED <<states, index>>
    BY <1>9 DEF RefreshProjection, Become
  <2>2. j.op = "refresh" /\ j.at = "project"
    OBVIOUS
  <2>. HIDE DEF j
  <2>. QED  BY <1>1, <2>1, <2>2, PlainJoinStep
<1>10. ASSUME PersistTaskDocument PROVE JoinInv'
  BY <1>10 DEF PersistTaskDocument, SoleClient
<1>11. ASSUME Crash PROVE JoinInv'
  BY <1>2, <1>11 DEF Crash
<1>12. ASSUME UNCHANGED vars PROVE JoinInv'
  BY <1>2, <1>12 DEF vars
<1>. QED  BY <1>3, <1>4, <1>5, <1>6, <1>7, <1>8, <1>9, <1>10, <1>11, <1>12, StepJoin DEF Next

\* Of a set of ids some has the latest uuid.
LEMMA LatestExists ==
    ASSUME NEW S, S # {}, NEW n \in Nat, \A x \in S : x[3] \in 1 .. n
    PROVE  \E x \in S : \A y \in S : y[3] <= x[3]
<1>. DEFINE T == {n - x[3] : x \in S}
            R == OpToRel(<, Nat)
<1>1. T \subseteq Nat /\ T # {}
  OBVIOUS
<1>2. IsWellFoundedOn(R, Nat)
  BY NatLessThanWellFounded, Zenon
<1>3. \A i, j \in Nat : i < j => <<i, j>> \in R
  BY DEF OpToRel
<1>. HIDE DEF R, T
<1>4. PICK m \in T : \A k \in T : <<k, m>> \notin R
  BY <1>1, <1>2, WFMin
<1>5. PICK x \in S : m = n - x[3]
  BY DEF T
<1>6. ASSUME NEW y \in S PROVE y[3] <= x[3]
  <2>1. n - y[3] \in T
    BY DEF T
  <2>2. ~(n - y[3] < n - x[3])
    BY <1>1, <1>3, <1>4, <1>5, <2>1
  <2>. QED  BY <2>2
<1>. QED  BY <1>6

\* What an index publishes, when its posts are recorded and stamped.
LEMMA LiveNewest ==
    ASSUME NEW ix \in PostType, ix.posted # {}, NEW F, Stamped(F), Recorded(ix, F)
    PROVE  /\ LiveEntries(ix) # {}
           /\ \A x \in LiveEntries(ix), y \in ix.posted : AgentOf(x) = AgentOf(y) => y[3] <= x[3]
<1>1. \A x \in ix.posted : x[3] \in 1 .. MaxTasks
  BY IdParts DEF PostType
<1>2. MaxTasks \in Nat
  BY CallerAssumption
<1>3. LiveEntries(ix) # {}
  <2>1. PICK x \in ix.posted : \A y \in ix.posted : y[3] <= x[3]
    <3>. HIDE DEF PostType
    <3>. QED  BY <1>1, <1>2, LatestExists
  <2>2. x \notin ix.superseded
    <3>. SUFFICES ASSUME x \in ix.superseded PROVE FALSE
      OBVIOUS
    <3>1. PICK y \in ix.posted : x[3] < y[3]
      BY DEF Recorded
    <3>2. x[3] \in Nat /\ y[3] \in Nat /\ y[3] <= x[3]
      BY <1>1, <1>2, <2>1
    <3>. QED  BY <3>1, <3>2
  <2>. QED  BY <2>2 DEF LiveEntries
<1>4. ASSUME NEW x \in LiveEntries(ix), NEW y \in ix.posted, AgentOf(x) = AgentOf(y)
      PROVE  y[3] <= x[3]
  <2>1. x \in ix.posted /\ x \notin ix.superseded
    BY DEF LiveEntries
  <2>2. PICK s \in F : s[1] = x
    BY <2>1 DEF Recorded
  <2>3. PICK u \in F : u[1] = y /\ u[2] \subseteq ix.superseded
    BY DEF Recorded
  <2>4. ~(x[3] < y[3])
    BY <1>4, <2>1, <2>2, <2>3 DEF Stamped
  <2>5. x[3] \in Nat /\ y[3] \in Nat
    BY <1>1, <1>2, <2>1
  <2>. QED  BY <2>4, <2>5
<1>. QED  BY <1>3, <1>4

\* A join that has summaries publishes some, and of each agent the newest it ever
\* posted, whatever delegates and team schedules run beside the one client and whichever
\* steps fail or are cut short: poll_fan_out_join, JoinIndex::load_or_new, post and
\* live_entries over the stamps that stamp_join_supersedes left in the file.
THEOREM JoinsKeepNewest == Spec => []JoinKeepsNewest
<1>1. Init => (SoleClient => JoinInv)
  <2>. SUFFICES ASSUME Init PROVE JoinInv
    OBVIOUS
  <2>1. \A p \in Parents : states[p].tasks = <<>> /\ index[p].posted = {} /\ index[p].superseded = {}
    BY DEF Init, NewState
  <2>2. \A p \in Parents : Stamps(states[p]) = {}
    BY <2>1 DEF Stamps, TaskSet
  <2>3. \A p \in Parents : Stamped(Stamps(states[p])) /\ Recorded(index[p], Stamps(states[p]))
    BY <2>1, <2>2 DEF Stamped, Recorded
  <2>4. \A c \in Procs : JobJoin(job[c])
    <3>1. \A c \in Procs : job[c] = Idle
      BY DEF Init
    <3>2. JobJoin(Idle)
      BY PlainJoin DEF Idle
    <3>. QED  BY <3>1, <3>2
  <2>. QED  BY <2>3, <2>4 DEF JoinInv
<1>2. TypeInv /\ (SoleClient => RosterInv) /\ (SoleClient => JoinInv) /\ [Next]_vars
        => (SoleClient => JoinInv)'
  BY SameSetup, NextJoin
<1>3. TypeInv /\ (SoleClient => JoinInv) => JoinKeepsNewest
  <2>. SUFFICES ASSUME TypeInv, JoinInv, NEW c \in Callers, At(c, "join", "load")
                PROVE  /\ job[c].live # {}
                       /\ \A x \in job[c].live, y \in index[job[c].parent].posted :
                             AgentOf(x) = AgentOf(y) => y[3] <= x[3]
    BY DEF JoinKeepsNewest
  <2>. DEFINE p == job[c].parent
  <2>1. c \in Procs /\ job[c] \in Jobs /\ job[c].op = "join" /\ job[c].at = "load"
    BY DEF TypeInv, JobsInv, Procs, At
  <2>2. p \in Parents
    BY <2>1, JobShapes DEF JoinLoadJobs
  <2>3. job[c].live = LiveEntries(index[p]) /\ index[p].posted # {}
    BY <2>1 DEF JoinInv, JobJoin, LiveJoin
  <2>4. /\ index[p] \in PostType
        /\ Stamped(Stamps(states[p])) /\ Recorded(index[p], Stamps(states[p]))
    BY <2>2 DEF TypeInv, SharedInv, JoinInv
  <2>. HIDE DEF p
  <2>5. /\ LiveEntries(index[p]) # {}
        /\ \A x \in LiveEntries(index[p]), y \in index[p].posted :
              AgentOf(x) = AgentOf(y) => y[3] <= x[3]
    BY <2>3, <2>4, LiveNewest
  <2>. QED  BY <2>3, <2>5, Zenon DEF p
<1>. QED  BY <1>1, <1>2, <1>3, RosterAlways, InitTypes, NextTypes, PTL DEF Spec
-----------------------------------------------------------------------------
(***************************************************************************)
(* Tasks, leases and todos of a single client.  One process makes one      *)
(* request at a time, so one job at most is under way, and what the files, *)
(* the leases and the todos owe each other depends on how far it has come. *)
(* Every stage may be the last: a save that fails, a lease that cannot be  *)
(* had, a file that cannot be read, a crash.                               *)
(***************************************************************************)
Actors == setup.delegators \cup setup.callers
\* Every operation is called by the same process, and no TUI saves its own copy.
Serial == (\A c, d \in Actors : c = d) /\ "persist" \notin setup.ops
SavesOnly == setup.faults \subseteq {"save"}

Worktree(S) == {id \in S : AgentOf(id) \in WorktreeAgents}
IdsOf(st) == {t.id : t \in TaskSet(st)}
LiveFiles(F) == UNION {LiveOf(F[p]) : p \in Parents}
KeptFiles(F) == UNION {IdsOf(F[p]) : p \in Parents}
\* The leases that a failed save takes back.
Pending(j) == IF j.op = "delegate" /\ j.at = "save" THEN NeedsLease(j.ids) ELSE {}

\* The job under way is j, the files F, the leases L and the todos T.  Saving the copy
\* leaves no live worktree task without its lease, and drops no task of a readable file.
CopyAcc(j, F, L) ==
    j.at = "save" => /\ Worktree(LiveOf(j.copy)) \subseteq L
                     /\ SavesOnly => IdsOf(F[j.parent]) \subseteq IdsOf(j.copy)
\* Release takes the lease of a task that is over.
ReleaseAcc(j, F) ==
    j.op = "release" => /\ j.at = "lease" => j.id \notin LiveFiles(F)
                        /\ j.at = "save" => ParentOf(j.id) = j.parent /\ j.id \notin LiveOf(j.copy)
\* The leases that delegate takes back belong to tasks that only its copy has.
SpawnAcc(j, F) ==
    /\ j.op \in SpawnOps \cup {"advance"} => j.op \in setup.ops
    /\ j.op \in SpawnOps /\ j.at = "save" => /\ NeedsLease(j.ids) \cap LiveFiles(F) = {}
                                             /\ NeedsLease(j.ids) \subseteq IdsOf(j.copy)
LeaseAcc(j, F, L) ==
    /\ Worktree(LiveFiles(F)) \subseteq L
    /\ SavesOnly /\ setup.ops \cap {"schedule", "advance"} = {}
          => L \subseteq KeptFiles(F) \cup Pending(j)
\* The todos are stale only while the operation that changed a status goes on.
TodoAcc(j, F, T) ==
    SavesOnly /\ "advance" \notin setup.ops /\ ~setup.crowded =>
        /\ j.at \notin {"lease", "project", "rollup"} => T = LiveFiles(F)
        /\ j.at = "rollup" => j.seen = LiveFiles(F)
        /\ j.op \in {"handoff", "join"} /\ j.at = "save" => LiveOf(j.copy) = LiveOf(F[j.parent])
Acc(j, F, L, T) ==
    CopyAcc(j, F, L) /\ ReleaseAcc(j, F) /\ SpawnAcc(j, F) /\ LeaseAcc(j, F, L) /\ TodoAcc(j, F, T)

Busy == {c \in Procs : job[c] # Idle}
\* The job under way.
Current == IF Busy = {} THEN Idle ELSE job[CHOOSE c \in Busy : TRUE]
AccountInv == Busy \subseteq Actors /\ Acc(Current, states, leases, todos)

\* One process at a time: the others are idle, and its job is the one under way.
LEMMA OnlyActor ==
    ASSUME Serial, AccountInv, NEW c \in Procs, c \in Actors
    PROVE  /\ \A d \in Procs : d # c => job[d] = Idle
           /\ Acc(job[c], states, leases, todos)
<1>1. \A d \in Procs : d # c => job[d] = Idle
  BY DEF Serial, AccountInv, Busy
<1>2. Current = job[c]
  <2>1. CASE job[c] = Idle
    <3>1. Busy = {}
      BY <1>1, <2>1 DEF Busy
    <3>. QED  BY <2>1, <3>1 DEF Current
  <2>2. CASE job[c] # Idle
    <3>1. Busy = {c}
      BY <1>1, <2>2 DEF Busy
    <3>. QED  BY <3>1 DEF Current
  <2>. QED  BY <2>1, <2>2
<1>. QED  BY <1>1, <1>2 DEF AccountInv

\* The process goes on to the job j.
LEMMA AccStep ==
    ASSUME TypeInv, Serial, AccountInv, NEW c \in Procs, c \in Actors, NEW j,
           job' = [job EXCEPT ![c] = j], setup' = setup, Acc(j, states', leases', todos')
    PROVE  AccountInv'
<1>1. \A d \in Procs : d # c => job'[d] = Idle
  BY OnlyActor DEF TypeInv, JobsInv
<1>2. job'[c] = j
  BY DEF TypeInv, JobsInv
<1>3. Current' = j /\ (Busy \subseteq Actors)'
  <2>1. CASE j = Idle
    <3>1. Busy' = {}
      BY <1>1, <1>2, <2>1 DEF Busy
    <3>. QED  BY <2>1, <3>1 DEF Current
  <2>2. CASE j # Idle
    <3>1. Busy' = {c}
      BY <1>1, <1>2, <2>2 DEF Busy
    <3>2. Current' = j
      BY <1>2, <3>1 DEF Current
    <3>3. (Busy \subseteq Actors)'
      BY <3>1 DEF Actors
    <3>. QED  BY <3>2, <3>3
  <2>. QED  BY <2>1, <2>2
<1>4. Acc(Current, states, leases, todos)'
  BY <1>3 DEF Acc, CopyAcc, ReleaseAcc, SpawnAcc, LeaseAcc, TodoAcc, SavesOnly
<1>. QED  BY <1>3, <1>4 DEF AccountInv

\* The process that takes a step is the one.
LEMMA StepActor ==
    ASSUME AccountInv, NEW c \in Procs, job[c].at # "idle" PROVE c \in Actors
BY DEF AccountInv, Busy, Idle

\* A stage that saves no file, from one that wrote none.
LEMMA PlainAcc ==
    ASSUME NEW i, NEW j, NEW F, NEW L, NEW T, Acc(i, F, L, T),
           i.at \notin {"lease", "project", "rollup"}, ~(i.op = "delegate" /\ i.at = "save"),
           j.at \notin {"save", "lease", "rollup"},
           j.op \in SpawnOps \cup {"advance"} => j.op \in setup.ops
    PROVE  Acc(j, F, L, T)
<1>1. Pending(i) = {}
  BY DEF Pending
<1>2. CopyAcc(j, F, L) /\ ReleaseAcc(j, F) /\ SpawnAcc(j, F)
  BY DEF CopyAcc, ReleaseAcc, SpawnAcc
<1>3. LeaseAcc(j, F, L)
  BY <1>1 DEF Acc, LeaseAcc
<1>4. TodoAcc(j, F, T)
  BY DEF Acc, TodoAcc
<1>. QED  BY <1>2, <1>3, <1>4 DEF Acc

\* A save: the live tasks and the tasks of the files afterwards.
LEMMA WrittenFiles ==
    ASSUME NEW F, NEW G, NEW p \in Parents, NEW copy, G[p] = copy,
           \A q \in Parents \ {p} : G[q] = F[q]
    PROVE  /\ LiveFiles(G) \subseteq LiveFiles(F) \cup LiveOf(copy)
           /\ LiveOf(copy) = LiveOf(F[p]) => LiveFiles(G) = LiveFiles(F)
           /\ IdsOf(copy) \subseteq KeptFiles(G)
           /\ IdsOf(F[p]) \subseteq IdsOf(copy) => KeptFiles(F) \subseteq KeptFiles(G)
<1>1. G[p] = copy /\ \A q \in Parents : q # p => G[q] = F[q]
  OBVIOUS
<1>2. ASSUME NEW x \in LiveFiles(G)
      PROVE  x \in LiveOf(copy) \/ \E q \in Parents \ {p} : x \in LiveOf(F[q])
  BY <1>1 DEF LiveFiles
<1>3. LiveFiles(G) \subseteq LiveFiles(F) \cup LiveOf(copy)
  BY <1>2 DEF LiveFiles
<1>4. ASSUME LiveOf(copy) = LiveOf(F[p]) PROVE LiveFiles(G) = LiveFiles(F)
  <2>1. \A q \in Parents : LiveOf(G[q]) = LiveOf(F[q])
    BY <1>1, <1>4
  <2>. QED  BY <2>1 DEF LiveFiles
<1>5. IdsOf(copy) \subseteq KeptFiles(G)
  BY <1>1 DEF KeptFiles
<1>6. ASSUME IdsOf(F[p]) \subseteq IdsOf(copy) PROVE KeptFiles(F) \subseteq KeptFiles(G)
  <2>1. \A q \in Parents : IdsOf(F[q]) \subseteq IdsOf(G[q])
    BY <1>1, <1>6
  <2>. QED  BY <2>1 DEF KeptFiles
<1>. QED  BY <1>1, <1>2, <1>3, <1>4, <1>5, <1>6

\* The ids of a file are those of its stamps.
LEMMA StampIds ==
    ASSUME NEW st PROVE IdsOf(st) = {s[1] : s \in Stamps(st)}
<1>1. \A t \in TaskSet(st) : <<t.id, t.supersedes>> \in Stamps(st) /\ <<t.id, t.supersedes>>[1] = t.id
  BY DEF Stamps
<1>2. ASSUME NEW s \in Stamps(st) PROVE \E t \in TaskSet(st) : s[1] = t.id
  BY DEF Stamps
<1>3. \A x : x \in IdsOf(st) <=> \E t \in TaskSet(st) : x = t.id
  BY DEF IdsOf
<1>. QED  BY <1>1, <1>2, <1>3

\* The copy of a delegate lists the tasks of the file and the new ones.
LEMMA AddedIds ==
    ASSUME NEW p \in Parents, NEW n \in Nat, NEW st, FileOK(st, p, n), st.exists,
           NEW ids \in Seq(Ids), NEW sequential,
           \A i \in DOMAIN ids : ParentOf(ids[i]) = p /\ ids[i][3] = n + i
    PROVE  /\ IdsOf(st) \subseteq IdsOf(Added(st, ids, sequential))
           /\ NeedsLease(ids) \subseteq IdsOf(Added(st, ids, sequential))
           /\ Worktree(LiveOf(Added(st, ids, sequential))) = Worktree(LiveOf(st)) \cup NeedsLease(ids)
<1>1. LiveOf(Added(st, ids, sequential)) = LiveOf(st) \cup {ids[i] : i \in DOMAIN ids}
  BY AddedLive
<1>2. Stamps(Added(st, ids, sequential)) = Stamps(st) \cup NewStamps(st, ids, sequential)
  BY AddedStamps
<1>3. IdsOf(st) \subseteq IdsOf(Added(st, ids, sequential))
  BY <1>2, StampIds
<1>4. \A x : x \in LiveOf(Added(st, ids, sequential)) => x \in IdsOf(Added(st, ids, sequential))
  BY DEF LiveOf, IdsOf
<1>5. NeedsLease(ids) \subseteq IdsOf(Added(st, ids, sequential))
  BY <1>1, <1>4 DEF NeedsLease
<1>6. Worktree(LiveOf(Added(st, ids, sequential))) = Worktree(LiveOf(st)) \cup NeedsLease(ids)
  BY <1>1 DEF Worktree, NeedsLease
<1>. QED  BY <1>3, <1>5, <1>6

\* The tasks of the files have uuids drawn before, and are in their parent's file.
LEMMA LiveDrawn ==
    ASSUME FilesInv, NEW q \in Parents, NEW x \in LiveOf(states[q])
    PROVE  x \in Ids /\ ParentOf(x) = q /\ x[3] \in Nat /\ x[3] <= drawn
<1>1. FileOK(states[q], q, drawn)
  BY DEF FilesInv
<1>2. PICK i \in DOMAIN states[q].tasks : x = states[q].tasks[i].id
  BY DEF LiveOf, TaskSet
<1>3. ParentOf(x) = q /\ x[3] <= drawn
  BY <1>1, <1>2 DEF FileOK
<1>4. x \in Ids /\ x[3] \in Nat
  BY <1>1, <1>2, FileTasks
<1>. QED  BY <1>3, <1>4

\* New uuids belong to no task of a file.
LEMMA NewIdsAreNew ==
    ASSUME FilesInv, drawn \in Nat, NEW ids, DOMAIN ids \subseteq Nat \ {0},
           \A i \in DOMAIN ids : ids[i][3] = drawn + i
    PROVE  NeedsLease(ids) \cap LiveFiles(states) = {}
<1>. SUFFICES ASSUME NEW x \in NeedsLease(ids), NEW q \in Parents, x \in LiveOf(states[q])
              PROVE  FALSE
  BY DEF LiveFiles
<1>1. PICK i \in DOMAIN ids : x = ids[i]
  BY DEF NeedsLease
<1>2. x[3] \in Nat /\ x[3] <= drawn
  BY LiveDrawn
<1>3. i \in Nat /\ i # 0 /\ x[3] = drawn + i
  BY <1>1
<1>. QED  BY <1>2, <1>3

\* transition_to: a task that becomes completed is not live, the other tasks stay.
LEMMA EndedTask ==
    ASSUME NEW st, NEW p, NEW n, FileOK(st, p, n), NEW id
    PROVE  id \notin LiveOf(WithStatus(st, id, "completed"))
<1>1. st \in FileType /\ \A i \in DOMAIN st.tasks : st.tasks[i] \in TaskType
  BY FileTasks DEF FileOK
<1>. DEFINE f == [i \in DOMAIN st.tasks |->
                    IF st.tasks[i].id = id THEN [st.tasks[i] EXCEPT !.status = "completed"]
                    ELSE st.tasks[i]]
<1>2. WithStatus(st, id, "completed").tasks = f
  BY <1>1 DEF WithStatus, FileType
<1>3. \A t \in TaskType : [t EXCEPT !.status = "completed"].status = "completed"
  BY DEF TaskType
<1>4. \A i \in DOMAIN f : f[i].id = id => ~Live(f[i])
  BY <1>1, <1>3 DEF Live, LiveStatuses
<1>. HIDE DEF f
<1>. QED  BY <1>2, <1>4 DEF LiveOf, TaskSet

\* set_handoff_summary leaves the live tasks as they are.
LEMMA SummaryLive ==
    ASSUME NEW st, NEW p, NEW n, FileOK(st, p, n), NEW id
    PROVE  LiveOf(WithSummary(st, id)) = LiveOf(st)
<1>1. st \in FileType /\ \A i \in DOMAIN st.tasks : st.tasks[i] \in TaskType
  BY FileTasks DEF FileOK
<1>. DEFINE g == [i \in DOMAIN st.tasks |->
                    IF st.tasks[i].id = id THEN [st.tasks[i] EXCEPT !.summary = TRUE]
                    ELSE st.tasks[i]]
<1>2. WithSummary(st, id).tasks = g
  BY <1>1 DEF WithSummary, FileType
<1>3. \A t \in TaskType : /\ [t EXCEPT !.summary = TRUE].id = t.id
                          /\ [t EXCEPT !.summary = TRUE].status = t.status
  BY DEF TaskType
<1>4. \A i \in DOMAIN st.tasks : g[i].id = st.tasks[i].id /\ (Live(g[i]) <=> Live(st.tasks[i]))
  BY <1>1, <1>3 DEF Live
<1>5. DOMAIN g = DOMAIN st.tasks
  OBVIOUS
<1>. HIDE DEF g
<1>. QED  BY <1>2, <1>4, <1>5 DEF LiveOf, TaskSet

\* A task that is not live is live in no file.
LEMMA OverTask ==
    ASSUME TypeInv, NEW id \in Ids, HasTask(states[ParentOf(id)], id),
           ~Live(TaskOf(states[ParentOf(id)], id))
    PROVE  id \notin LiveFiles(states)
<1>. DEFINE p == ParentOf(id)
            st == states[p]
<1>1. p \in Parents /\ FileOK(st, p, drawn)
  BY IdParts DEF TypeInv, FilesInv, ParentOf
<1>2. PICK k \in DOMAIN st.tasks : st.tasks[k].id = id /\ ~Live(st.tasks[k])
  BY DEF HasTask, TaskOf, TaskSet
<1>3. \A i \in DOMAIN st.tasks : st.tasks[i].id[3] \in Nat /\ i \in Nat
  BY <1>1, FileTasks
<1>4. ASSUME NEW i \in DOMAIN st.tasks, st.tasks[i].id = id PROVE i = k
  <2>1. CASE i < k
    BY <1>1, <1>2, <1>3, <1>4, <2>1 DEF FileOK
  <2>2. CASE k < i
    BY <1>1, <1>2, <1>3, <1>4, <2>2 DEF FileOK
  <2>. QED  BY <1>2, <1>3, <2>1, <2>2
<1>5. id \notin LiveOf(st)
  BY <1>2, <1>4 DEF LiveOf, TaskSet
<1>. HIDE DEF st, p
<1>6. \A q \in Parents : id \in LiveOf(states[q]) => q = p
  BY LiveDrawn DEF TypeInv, p
<1>. QED  BY <1>5, <1>6 DEF LiveFiles, st

\* A save, after which the process goes on to j.
LEMMA SaveAcc ==
    ASSUME NEW i, NEW j, NEW F, NEW G, NEW L, NEW T, Acc(i, F, L, T), i.at = "save",
           i.parent \in Parents, G[i.parent] = i.copy, \A q \in Parents \ {i.parent} : G[q] = F[q],
           j.at \in {"idle", "lease", "project"},
           j.op \in SpawnOps \cup {"advance"} => j.op \in setup.ops,
           j.op = "release" /\ j.at = "lease" => j.id \notin LiveFiles(G),
           j.at = "idle" => i.op \in {"handoff", "join", "advance"}
    PROVE  Acc(j, G, L, T)
<1>1. /\ LiveFiles(G) \subseteq LiveFiles(F) \cup LiveOf(i.copy)
      /\ LiveOf(i.copy) = LiveOf(F[i.parent]) => LiveFiles(G) = LiveFiles(F)
      /\ IdsOf(i.copy) \subseteq KeptFiles(G)
      /\ IdsOf(F[i.parent]) \subseteq IdsOf(i.copy) => KeptFiles(F) \subseteq KeptFiles(G)
  BY WrittenFiles
<1>2. CopyAcc(j, G, L) /\ ReleaseAcc(j, G) /\ SpawnAcc(j, G)
  BY DEF CopyAcc, ReleaseAcc, SpawnAcc
<1>3. LeaseAcc(j, G, L)
  <2>1. Worktree(LiveFiles(F)) \subseteq L /\ Worktree(LiveOf(i.copy)) \subseteq L
    BY DEF Acc, LeaseAcc, CopyAcc
  <2>2. Worktree(LiveFiles(G)) \subseteq L
    BY <1>1, <2>1 DEF Worktree
  <2>3. Pending(i) \subseteq IdsOf(i.copy)
    BY DEF Acc, SpawnAcc, Pending, SpawnOps
  <2>4. SavesOnly => KeptFiles(F) \subseteq KeptFiles(G)
    BY <1>1 DEF Acc, CopyAcc
  <2>. QED  BY <1>1, <2>2, <2>3, <2>4 DEF Acc, LeaseAcc
<1>4. TodoAcc(j, G, T)
  <2>. SUFFICES ASSUME SavesOnly, "advance" \notin setup.ops, ~setup.crowded, j.at = "idle"
                PROVE  T = LiveFiles(G)
    BY DEF TodoAcc
  <2>1. i.op \in {"handoff", "join"}
    BY DEF Acc, SpawnAcc
  <2>2. LiveOf(i.copy) = LiveOf(F[i.parent]) /\ T = LiveFiles(F)
    BY <2>1 DEF Acc, TodoAcc
  <2>. QED  BY <1>1, <2>2
<1>. QED  BY <1>2, <1>3, <1>4 DEF Acc

\* The saves.
LEMMA SavesAccount ==
    ASSUME TypeInv, Serial, AccountInv, NEW c \in Procs,
           SpawnSave(c) \/ UpdateSave(c) \/ ReleaseSave(c) \/ HandoffSave(c) \/ AdvanceSave(c)
              \/ JoinSave(c)
    PROVE  AccountInv'
<1>. DEFINE i == job[c]
<1>1. /\ i.at = "save" /\ Write(c) /\ UNCHANGED <<leases, todos, setup>>
      /\ i.op \in SpawnOps \cup {"update", "release", "handoff", "advance", "join"}
  BY DEF SpawnSave, UpdateSave, ReleaseSave, HandoffSave, AdvanceSave, JoinSave, At, SpawnOps
<1>2. c \in Actors
  BY <1>1, StepActor
<1>3. Acc(i, states, leases, todos)
  BY <1>2, OnlyActor
<1>4. i \in Jobs /\ states \in [Parents -> FileType] /\ FilesInv
  BY DEF TypeInv, JobsInv, FilesInv
<1>5. i \in SpawnSaveJobs \cup SaveJobs \cup ReleaseSaveJobs
  BY <1>1, <1>4, JobShapes
<1>6. i.parent \in Parents /\ i.copy \in FileType
  BY <1>5 DEF SpawnSaveJobs, SaveJobs, ReleaseSaveJobs
<1>7. states'[i.parent] = i.copy /\ \A q \in Parents \ {i.parent} : states'[q] = states[q]
  BY <1>1, <1>4, <1>6 DEF Write
<1>8. ASSUME NEW j, job' = [job EXCEPT ![c] = j], j.at \in {"idle", "lease", "project"},
             j.op \in SpawnOps \cup {"advance"} => j.op \in setup.ops,
             j.op = "release" /\ j.at = "lease" => j.id \notin LiveFiles(states'),
             j.at = "idle" => i.op \in {"handoff", "join", "advance"}
      PROVE  AccountInv'
  <2>. HIDE DEF i
  <2>1. Acc(j, states', leases, todos)
    BY <1>1, <1>3, <1>4, <1>6, <1>7, <1>8, SaveAcc
  <2>2. Acc(j, states', leases', todos') /\ setup' = setup
    BY <1>1, <2>1
  <2>. QED  BY <1>2, <1>8, <2>2, AccStep
<1>9. CASE SpawnSave(c) \/ UpdateSave(c)
  <2>. DEFINE j == [op |-> i.op, at |-> "project"]
  <2>1. job' = [job EXCEPT ![c] = j] /\ i.op \in SpawnOps \cup {"update"}
    BY <1>9 DEF SpawnSave, UpdateSave, At, Become, SpawnOps
  <2>2. j.op = i.op /\ j.at = "project"
    OBVIOUS
  <2>. HIDE DEF j
  <2>3. j.op \in SpawnOps \cup {"advance"} => j.op \in setup.ops
    BY <1>3, <2>2 DEF Acc, SpawnAcc
  <2>. QED  BY <1>8, <2>1, <2>2, <2>3
<1>10. CASE ReleaseSave(c)
  <2>. DEFINE j == [op |-> "release", at |-> "lease", id |-> i.id]
  <2>1. job' = [job EXCEPT ![c] = j] /\ i.op = "release"
    BY <1>10 DEF ReleaseSave, At, Become
  <2>2. j.op = "release" /\ j.at = "lease" /\ j.id = i.id
    OBVIOUS
  <2>3. ParentOf(i.id) = i.parent /\ i.id \notin LiveOf(i.copy)
    BY <1>1, <1>3, <2>1 DEF Acc, ReleaseAcc
  <2>. HIDE DEF j, i
  <2>4. \A x \in LiveFiles(states') :
           x \in LiveOf(i.copy) \/ \E q \in Parents \ {i.parent} : x \in LiveOf(states[q])
    BY <1>7 DEF LiveFiles
  <2>5. \A q \in Parents : i.id \in LiveOf(states[q]) => ParentOf(i.id) = q
    BY <1>4, LiveDrawn
  <2>6. i.id \notin LiveFiles(states')
    BY <2>3, <2>4, <2>5
  <2>. QED  BY <1>8, <2>1, <2>2, <2>6 DEF SpawnOps
<1>11. CASE HandoffSave(c) \/ AdvanceSave(c) \/ JoinSave(c)
  <2>1. job' = [job EXCEPT ![c] = Idle] /\ i.op \in {"handoff", "join", "advance"}
    BY <1>11 DEF HandoffSave, AdvanceSave, JoinSave, At, Finish, Become
  <2>2. Idle.op = "none" /\ Idle.at = "idle"
    BY DEF Idle
  <2>. QED  BY <1>8, <2>1, <2>2 DEF SpawnOps
<1>. QED  BY <1>9, <1>10, <1>11

\* A copy of the file that a client means to save.
LEMMA CopyAccount ==
    ASSUME NEW i, NEW j, NEW F, NEW L, NEW T, Acc(i, F, L, T),
           i.at \notin {"save", "lease", "project", "rollup"},
           j.at = "save", j.op \in {"update", "release", "handoff", "join"}, j.parent \in Parents,
           LiveOf(j.copy) \subseteq LiveOf(F[j.parent]), IdsOf(j.copy) = IdsOf(F[j.parent]),
           j.op = "release" => ParentOf(j.id) = j.parent /\ j.id \notin LiveOf(j.copy),
           j.op \in {"handoff", "join"} => LiveOf(j.copy) = LiveOf(F[j.parent])
    PROVE  Acc(j, F, L, T)
<1>1. LiveOf(F[j.parent]) \subseteq LiveFiles(F) /\ Pending(i) = {}
  BY DEF LiveFiles, Pending
<1>2. Worktree(LiveFiles(F)) \subseteq L
  BY DEF Acc, LeaseAcc
<1>3. CopyAcc(j, F, L)
  BY <1>1, <1>2 DEF CopyAcc, Worktree
<1>4. ReleaseAcc(j, F) /\ SpawnAcc(j, F)
  BY DEF ReleaseAcc, SpawnAcc, SpawnOps
<1>5. LeaseAcc(j, F, L)
  BY <1>1 DEF Acc, LeaseAcc
<1>6. TodoAcc(j, F, T)
  BY DEF Acc, TodoAcc
<1>. QED  BY <1>3, <1>4, <1>5, <1>6 DEF Acc

\* A status, a summary or a release: the copy that will be saved.
LEMMA ChangeAccount ==
    ASSUME TypeInv, Serial, AccountInv, NEW c \in Procs, c \in setup.callers, NEW id \in Ids,
           \/ \E s \in AllStatuses : UpdateStatus(c, id, s)
           \/ SetHandoff(c, id) \/ Release(c, id)
    PROVE  AccountInv'
<1>. DEFINE p == ParentOf(id)
            st == states[p]
<1>1. HasTask(st, id) /\ UNCHANGED <<states, leases, todos, setup>> /\ job[c] = Idle
  BY DEF UpdateStatus, SetHandoff, Release, Find
<1>2. "completed" \in AllStatuses /\ FileOK(st, p, drawn) /\ p \in Parents
  BY FoundFile DEF AllStatuses
<1>3. \A s \in AllStatuses : Live(TaskOf(st, id)) => LiveOf(WithStatus(st, id, s)) \subseteq LiveOf(st)
  BY <1>1, <1>2, ChangedLive
<1>4. LiveOf(WithSummary(st, id)) = LiveOf(st)
  BY <1>2, SummaryLive
<1>5. \A s \in AllStatuses : IdsOf(WithStatus(st, id, s)) = IdsOf(st)
  <2>. SUFFICES ASSUME NEW s \in AllStatuses PROVE IdsOf(WithStatus(st, id, s)) = IdsOf(st)
    OBVIOUS
  <2>1. Stamps(WithStatus(st, id, s)) = Stamps(st)
    BY <1>2, SameStamps
  <2>. QED  BY <2>1, StampIds
<1>6. IdsOf(WithSummary(st, id)) = IdsOf(st)
  <2>1. Stamps(WithSummary(st, id)) = Stamps(st)
    BY <1>2, SameStamps
  <2>. QED  BY <2>1, StampIds
<1>7. c \in Actors /\ Idle.op = "none" /\ Idle.at = "idle"
  BY DEF Actors, Idle
<1>8. Acc(Idle, states, leases, todos)
  BY <1>1, <1>7, OnlyActor
<1>9. ASSUME NEW j, job' = [job EXCEPT ![c] = j], Acc(j, states, leases, todos) PROVE AccountInv'
  BY <1>1, <1>7, <1>9, AccStep
<1>10. ASSUME NEW j, job' = [job EXCEPT ![c] = j], j.at = "save", j.parent = p,
              j.op \in {"update", "release", "handoff", "join"},
              LiveOf(j.copy) \subseteq LiveOf(st), IdsOf(j.copy) = IdsOf(st),
              j.op = "release" => j.id = id /\ id \notin LiveOf(j.copy),
              j.op \in {"handoff", "join"} => LiveOf(j.copy) = LiveOf(st)
       PROVE  AccountInv'
  <2>1. Acc(j, states, leases, todos)
    BY <1>2, <1>7, <1>8, <1>10, CopyAccount
  <2>. QED  BY <1>9, <1>10, <2>1
<1>11. ASSUME NEW s \in AllStatuses, UpdateStatus(c, id, s) PROVE AccountInv'
  <2>. DEFINE copy == WithStatus(st, id, s)
              j == [op |-> "update", at |-> "save", parent |-> p, copy |-> copy]
  <2>1. job' = [job EXCEPT ![c] = j] /\ Live(TaskOf(st, id))
    BY <1>11 DEF UpdateStatus, Become
  <2>2. j.op = "update" /\ j.at = "save" /\ j.parent = p /\ j.copy = copy
    OBVIOUS
  <2>3. LiveOf(copy) \subseteq LiveOf(st) /\ IdsOf(copy) = IdsOf(st)
    BY <1>3, <1>5, <2>1
  <2>. HIDE DEF j, copy, st, p
  <2>. QED  BY <1>10, <2>1, <2>2, <2>3
<1>12. ASSUME SetHandoff(c, id) PROVE AccountInv'
  <2>. DEFINE copy == WithSummary(st, id)
              j == [op |-> "handoff", at |-> "save", parent |-> p, copy |-> copy]
  <2>1. job' = [job EXCEPT ![c] = j]
    BY <1>12 DEF SetHandoff, Become
  <2>2. j.op = "handoff" /\ j.at = "save" /\ j.parent = p /\ j.copy = copy
    OBVIOUS
  <2>3. LiveOf(copy) = LiveOf(st) /\ IdsOf(copy) = IdsOf(st)
    BY <1>4, <1>6
  <2>. HIDE DEF j, copy, st, p
  <2>. QED  BY <1>10, <2>1, <2>2, <2>3
<1>13. ASSUME Release(c, id) PROVE AccountInv'
  <2>. DEFINE copy == WithStatus(st, id, "completed")
              j == [op |-> "release", at |-> "save", parent |-> p, id |-> id, copy |-> copy]
              k == [op |-> "release", at |-> "lease", id |-> id]
  <2>1. \/ job' = [job EXCEPT ![c] = j] /\ Live(TaskOf(st, id))
        \/ job' = [job EXCEPT ![c] = k] /\ ~Live(TaskOf(st, id))
    BY <1>13 DEF Release, Become
  <2>2. /\ j.op = "release" /\ j.at = "save" /\ j.parent = p /\ j.copy = copy /\ j.id = id
        /\ k.op = "release" /\ k.at = "lease" /\ k.id = id
    OBVIOUS
  <2>3. CASE job' = [job EXCEPT ![c] = j] /\ Live(TaskOf(st, id))
    <3>1. LiveOf(copy) \subseteq LiveOf(st) /\ IdsOf(copy) = IdsOf(st) /\ id \notin LiveOf(copy)
      BY <1>2, <1>3, <1>5, <2>3, EndedTask
    <3>. HIDE DEF j, k, copy, st, p
    <3>. QED  BY <1>10, <2>2, <2>3, <3>1
  <2>4. CASE job' = [job EXCEPT ![c] = k] /\ ~Live(TaskOf(st, id))
    <3>1. id \notin LiveFiles(states)
      BY <1>1, <2>4, OverTask
    <3>. HIDE DEF j, k, copy, st, p
    <3>2. Pending(Idle) = {} /\ Pending(k) = {}
      BY <1>7, <2>2 DEF Pending
    <3>3. CopyAcc(k, states, leases) /\ ReleaseAcc(k, states) /\ SpawnAcc(k, states)
      BY <2>2, <3>1 DEF CopyAcc, ReleaseAcc, SpawnAcc, SpawnOps
    <3>4. LeaseAcc(k, states, leases) /\ TodoAcc(k, states, todos)
      BY <1>8, <2>2, <3>2 DEF Acc, LeaseAcc, TodoAcc
    <3>5. Acc(k, states, leases, todos)
      BY <3>3, <3>4 DEF Acc
    <3>. QED  BY <1>9, <2>4, <3>5
  <2>. QED  BY <2>1, <2>3, <2>4
<1>. QED  BY <1>11, <1>12, <1>13

\* A spawned copy: a lease for every new worktree task, none of which a file has.
LEMMA NewCopyAcc ==
    ASSUME NEW i, NEW j, NEW F, NEW L, NEW M, NEW T, Acc(i, F, L, T),
           i.at \notin {"save", "lease", "project", "rollup"},
           NEW st, NEW ids, M = L \cup NeedsLease(ids),
           j.at = "save", j.op \in SpawnOps \cup {"advance"}, j.op \in setup.ops,
           j.parent \in Parents, j.op \in SpawnOps => j.ids = ids,
           LiveOf(st) \subseteq LiveOf(F[j.parent]), SavesOnly => IdsOf(F[j.parent]) \subseteq IdsOf(st),
           Worktree(LiveOf(j.copy)) = Worktree(LiveOf(st)) \cup NeedsLease(ids),
           IdsOf(st) \subseteq IdsOf(j.copy), NeedsLease(ids) \subseteq IdsOf(j.copy),
           NeedsLease(ids) \cap LiveFiles(F) = {}
    PROVE  Acc(j, F, M, T)
<1>1. LiveOf(F[j.parent]) \subseteq LiveFiles(F) /\ Pending(i) = {}
  BY DEF LiveFiles, Pending
<1>2. Worktree(LiveFiles(F)) \subseteq L
  BY DEF Acc, LeaseAcc
<1>3. Worktree(LiveOf(st)) \subseteq L
  BY <1>1, <1>2 DEF Worktree
<1>4. CopyAcc(j, F, M)
  BY <1>3 DEF CopyAcc
<1>5. ReleaseAcc(j, F) /\ SpawnAcc(j, F)
  BY DEF ReleaseAcc, SpawnAcc, SpawnOps
<1>6. LeaseAcc(j, F, M)
  <2>. SUFFICES ASSUME SavesOnly, setup.ops \cap {"schedule", "advance"} = {}
                PROVE  M \subseteq KeptFiles(F) \cup Pending(j)
    BY <1>2 DEF LeaseAcc
  <2>1. j.op = "delegate" /\ Pending(j) = NeedsLease(ids)
    BY DEF SpawnOps, Pending
  <2>. QED  BY <1>1, <2>1 DEF Acc, LeaseAcc
<1>7. TodoAcc(j, F, T)
  BY DEF Acc, TodoAcc, SpawnOps
<1>. QED  BY <1>4, <1>5, <1>6, <1>7 DEF Acc

\* Delegating and scheduling, from the file or from a new one.
LEMMA PrepareAccount ==
    ASSUME TypeInv, Serial, AccountInv, NEW c \in Procs, job[c] \in LoadJobs, NEW st, Prepare(c, st),
           FileOK(st, job[c].parent, drawn), st.exists,
           LiveOf(st) \subseteq LiveOf(states[job[c].parent]),
           SavesOnly => IdsOf(states[job[c].parent]) \subseteq IdsOf(st)
    PROVE  AccountInv'
<1>. DEFINE i == job[c]
            p == i.parent
            ids == NewIds(c)
            copy == Added(st, ids, i.sequential)
            j == [op |-> i.op, at |-> "save", parent |-> p, ids |-> ids, copy |-> copy]
<1>1. /\ job' = [job EXCEPT ![c] = j] /\ UNCHANGED <<states, todos, setup>>
      /\ leases' = leases \cup NeedsLease(ids)
  BY DEF Prepare, Become
<1>2. p \in Parents /\ i.op \in SpawnOps /\ i.at = "load"
  BY DEF LoadJobs
<1>3. /\ ids \in Seq(Ids) /\ DOMAIN ids \subseteq Nat \ {0}
      /\ \A h \in DOMAIN ids : ParentOf(ids[h]) = p /\ ids[h][3] = drawn + h
  BY NewIdsTypes
<1>4. drawn \in Nat /\ FilesInv
  BY SetupFacts DEF TypeInv, SharedInv
<1>5. c \in Actors
  BY <1>2, StepActor
<1>6. Acc(i, states, leases, todos)
  BY <1>5, OnlyActor
<1>7. i.op \in setup.ops
  BY <1>2, <1>6 DEF Acc, SpawnAcc
<1>8. j.op = i.op /\ j.at = "save" /\ j.parent = p /\ j.ids = ids /\ j.copy = copy
  OBVIOUS
<1>. HIDE DEF i, p, ids
<1>9. FileOK(st, p, drawn)
  BY DEF p, i
<1>10. /\ IdsOf(st) \subseteq IdsOf(copy) /\ NeedsLease(ids) \subseteq IdsOf(copy)
       /\ Worktree(LiveOf(copy)) = Worktree(LiveOf(st)) \cup NeedsLease(ids)
  BY <1>2, <1>3, <1>4, <1>9, AddedIds
<1>11. NeedsLease(ids) \cap LiveFiles(states) = {}
  BY <1>3, <1>4, NewIdsAreNew
<1>12. LiveOf(st) \subseteq LiveOf(states[p]) /\ (SavesOnly => IdsOf(states[p]) \subseteq IdsOf(st))
  BY DEF p, i
<1>. HIDE DEF j, copy
<1>13. Acc(j, states, leases', todos)
  BY <1>1, <1>2, <1>6, <1>7, <1>8, <1>10, <1>11, <1>12, NewCopyAcc
<1>14. Acc(j, states', leases', todos') /\ setup' = setup
  BY <1>1, <1>13
<1>. QED  BY <1>1, <1>5, <1>14, AccStep

\* The next member of a sequential team.
LEMMA AdvanceAccount ==
    ASSUME TypeInv, Serial, AccountInv, NEW c \in Procs, c \in setup.callers, NEW p \in Parents,
           NEW t \in Teams, AdvanceSequential(c, p, t), drawn' \in 0 .. setup.tasks
    PROVE  AccountInv'
<1>1. /\ job[c] = Idle /\ states[p].exists /\ "advance" \in setup.ops /\ drawn' = drawn + 1
      /\ UNCHANGED <<states, todos, setup>>
  BY DEF AdvanceSequential
<1>2. t.members \in Seq(Agents)
  BY ConfigAssumption
<1>3. PICK a \in Agents :
        LET ids == << <<p, a, drawn + 1>> >> IN
        /\ leases' = leases \cup NeedsLease(ids)
        /\ job' = [job EXCEPT ![c] = [op |-> "advance", at |-> "save", parent |-> p,
                                      copy |-> Added(states[p], ids, TRUE)]]
  <2>1. \A k \in DOMAIN t.members : t.members[k] \in Agents
    BY <1>2
  <2>. QED  BY <2>1 DEF AdvanceSequential, Become
<1>. DEFINE id == <<p, a, drawn + 1>>
            ids == <<id>>
            copy == Added(states[p], ids, TRUE)
            j == [op |-> "advance", at |-> "save", parent |-> p, copy |-> copy]
<1>4. drawn \in Nat /\ FilesInv /\ drawn + 1 \in 1 .. MaxTasks /\ FileOK(states[p], p, drawn)
  BY <1>1, SetupFacts DEF TypeInv, SharedInv, FilesInv
<1>5. id \in Ids /\ ParentOf(id) = p /\ id[3] = drawn + 1
  BY <1>4 DEF Ids, ParentOf
<1>6. job' = [job EXCEPT ![c] = j] /\ leases' = leases \cup NeedsLease(ids)
  BY <1>3
<1>7. j.op = "advance" /\ j.at = "save" /\ j.parent = p /\ j.copy = copy
  OBVIOUS
<1>. HIDE DEF id
<1>8. /\ ids \in Seq(Ids) /\ DOMAIN ids = {1}
      /\ \A h \in DOMAIN ids : ParentOf(ids[h]) = p /\ ids[h][3] = drawn + h
  BY <1>5
<1>. HIDE DEF ids
<1>. DEFINE st == states[p]
<1>9. FileOK(st, p, drawn) /\ st.exists
  BY <1>1, <1>4
<1>10. copy = Added(st, ids, TRUE)
  OBVIOUS
<1>. HIDE DEF copy, j, st
<1>11. /\ IdsOf(st) \subseteq IdsOf(copy) /\ NeedsLease(ids) \subseteq IdsOf(copy)
       /\ Worktree(LiveOf(copy)) = Worktree(LiveOf(st)) \cup NeedsLease(ids)
  <2>1. ASSUME NEW seq
        PROVE  LET new == Added(st, ids, seq) IN
               /\ IdsOf(st) \subseteq IdsOf(new) /\ NeedsLease(ids) \subseteq IdsOf(new)
               /\ Worktree(LiveOf(new)) = Worktree(LiveOf(st)) \cup NeedsLease(ids)
    BY <1>4, <1>8, <1>9, AddedIds
  <2>. QED  BY <1>10, <2>1, Zenon
<1>12. NeedsLease(ids) \cap LiveFiles(states) = {}
  BY <1>4, <1>8, NewIdsAreNew
<1>13. c \in Actors /\ Idle.at = "idle" /\ Idle.op = "none"
  BY DEF Actors, Idle
<1>14. Acc(Idle, states, leases, todos)
  BY <1>1, <1>13, OnlyActor
<1>15. LiveOf(st) = LiveOf(states[p]) /\ IdsOf(st) = IdsOf(states[p])
  BY DEF st
<1>16. Acc(j, states, leases', todos)
  <2>1. j.op \in SpawnOps \cup {"advance"} /\ j.op \in setup.ops /\ j.op \notin SpawnOps
    BY <1>1, <1>7 DEF SpawnOps
  <2>. QED  BY <1>6, <1>7, <1>11, <1>12, <1>13, <1>14, <1>15, <2>1, NewCopyAcc
<1>17. Acc(j, states', leases', todos') /\ setup' = setup
  BY <1>1, <1>16
<1>. QED  BY <1>6, <1>13, <1>17, AccStep

\* The steps of an operation that was begun.
LEMMA StepAccount ==
    ASSUME TypeInv, Serial, AccountInv, NEW c \in Procs, Step(c) PROVE AccountInv'
<1>. DEFINE i == job[c]
<1>0. i \in Jobs /\ Idle.op = "none" /\ Idle.at = "idle"
  BY DEF TypeInv, JobsInv, Idle
<1>1. ASSUME NEW j, job' = [job EXCEPT ![c] = j], i.at # "idle", setup' = setup,
             Acc(i, states, leases, todos) => Acc(j, states', leases', todos')
      PROVE  AccountInv'
  <2>1. c \in Actors
    BY <1>1, StepActor
  <2>2. Acc(j, states', leases', todos')
    BY <1>1, <2>1, OnlyActor
  <2>. QED  BY <1>1, <2>1, <2>2, AccStep
<1>2. ASSUME NEW j, job' = [job EXCEPT ![c] = j], UNCHANGED <<states, leases, todos, setup>>,
             i.at \notin {"idle", "lease", "project", "rollup"}, ~(i.op = "delegate" /\ i.at = "save"),
             j.at \notin {"save", "lease", "rollup"}, j.op \in SpawnOps \cup {"advance"} => j.op = i.op
      PROVE  AccountInv'
  <2>. HIDE DEF i
  <2>1. ASSUME Acc(i, states, leases, todos) PROVE Acc(j, states', leases', todos')
    <3>1. j.op \in SpawnOps \cup {"advance"} => j.op \in setup.ops
      BY <1>2, <2>1 DEF Acc, SpawnAcc
    <3>2. Acc(j, states, leases, todos)
      BY <1>2, <2>1, <3>1, PlainAcc
    <3>. QED  BY <1>2, <3>2
  <2>. QED  BY <1>1, <1>2, <2>1
<1>3. ASSUME Finish(c), UNCHANGED <<states, leases, todos, setup>>,
             i.at \notin {"idle", "lease", "project", "rollup"}, ~(i.op = "delegate" /\ i.at = "save")
      PROVE  AccountInv'
  BY <1>0, <1>2, <1>3 DEF Finish, Become, SpawnOps
<1>4. CASE \E p \in Parents : CountFile(c, p)
  <2>1. PICK p \in Parents : CountFile(c, p)
    BY <1>4
  <2>. DEFINE j == [job[c] EXCEPT !.left = @ \ {p}, !.live = [a \in Agents |-> @[a] + LiveIn(p, a)]]
  <2>2. job' = [job EXCEPT ![c] = j] /\ UNCHANGED <<states, leases, todos, setup>> /\ i.at = "count"
    BY <2>1 DEF CountFile, Become
  <2>3. i \in CountJobs
    BY <1>0, <2>2, JobShapes
  <2>4. j.at = "count" /\ j.op = i.op
    BY <2>2, <2>3 DEF CountJobs
  <2>. HIDE DEF i, j
  <2>. QED  BY <1>2, <2>2, <2>4
<1>5. CASE CheckLimit(c)
  <2>. DEFINE j == [op |-> job[c].op, at |-> "load", parent |-> job[c].parent,
                    members |-> job[c].members, sequential |-> job[c].sequential]
  <2>1. /\ i.at = "count" /\ UNCHANGED <<states, leases, todos, setup>>
        /\ Finish(c) \/ job' = [job EXCEPT ![c] = j]
    BY <1>5 DEF CheckLimit, GiveUp, Become
  <2>2. j.at = "load" /\ j.op = i.op
    OBVIOUS
  <2>. HIDE DEF i, j
  <2>3. ASSUME job' = [job EXCEPT ![c] = j] PROVE AccountInv'
    BY <1>2, <2>1, <2>2, <2>3
  <2>. QED  BY <1>3, <2>1, <2>3
<1>6. CASE DelegateLoad(c) \/ ScheduleLoad(c)
  <2>1. i \in LoadJobs /\ i.at = "load"
    BY <1>0, <1>6, JobShapes DEF DelegateLoad, ScheduleLoad, At, SpawnOps
  <2>2. i.parent \in Parents
    BY <2>1 DEF LoadJobs
  <2>. DEFINE p == i.parent
  <2>3. /\ FileOK(Loaded(p), p, drawn) /\ Loaded(p).exists
        /\ FileOK(NewState, p, drawn) /\ NewState.exists /\ NewState.tasks = <<>>
        /\ Loaded(p).tasks = states[p].tasks
    BY <2>2, LoadedFile
  <2>4. CASE Prepare(c, Loaded(p))
    <3>1. LiveOf(Loaded(p)) = LiveOf(states[p]) /\ IdsOf(Loaded(p)) = IdsOf(states[p])
      BY <2>3 DEF LiveOf, IdsOf, TaskSet
    <3>. QED  BY <2>1, <2>3, <2>4, <3>1, PrepareAccount
  <2>5. CASE "load" \in setup.faults /\ Prepare(c, NewState)
    <3>1. LiveOf(NewState) = {}
      BY <2>3 DEF LiveOf, TaskSet
    <3>2. ~SavesOnly
      BY <2>5 DEF SavesOnly
    <3>. QED  BY <2>1, <2>3, <2>5, <3>1, <3>2, PrepareAccount
  <2>6. CASE GiveUp(c) /\ UNCHANGED <<states, leases, todos, setup>>
    BY <1>3, <2>1, <2>6 DEF GiveUp
  <2>. QED  BY <1>6, <2>4, <2>5, <2>6 DEF DelegateLoad, ScheduleLoad
<1>7. CASE LeaseFails(c)
  <2>1. /\ job' = [job EXCEPT ![c] = Idle] /\ i.at = "load" /\ "lease" \in setup.faults
        /\ UNCHANGED <<states, todos, setup>> /\ leases \subseteq leases'
    BY <1>7 DEF LeaseFails, GiveUp, Finish, Become
  <2>. HIDE DEF i
  <2>2. ASSUME Acc(i, states, leases, todos) PROVE Acc(Idle, states', leases', todos')
    <3>1. ~SavesOnly
      BY <2>1 DEF SavesOnly
    <3>2. Worktree(LiveFiles(states)) \subseteq leases'
      BY <2>1, <2>2 DEF Acc, LeaseAcc
    <3>3. Acc(Idle, states, leases', todos)
      BY <1>0, <3>1, <3>2 DEF Acc, CopyAcc, ReleaseAcc, SpawnAcc, SpawnOps, LeaseAcc, TodoAcc
    <3>. QED  BY <2>1, <3>3
  <2>. QED  BY <1>1, <2>1, <2>2
<1>8. CASE SpawnSave(c) \/ UpdateSave(c) \/ ReleaseSave(c) \/ HandoffSave(c) \/ AdvanceSave(c)
             \/ JoinSave(c)
  BY <1>8, SavesAccount
<1>9. CASE SpawnSaveFails(c)
  <2>1. /\ job' = [job EXCEPT ![c] = Idle] /\ i.at = "save" /\ i.op \in SpawnOps
        /\ UNCHANGED <<states, todos, setup>>
        /\ \/ i.op = "delegate" /\ leases' = leases \ NeedsLease(i.ids)
           \/ (i.op = "schedule" \/ "lease" \in setup.faults) /\ leases' = leases
    BY <1>9 DEF SpawnSaveFails, GiveUp, Finish, Become, SpawnOps
  <2>. HIDE DEF i
  <2>2. ASSUME Acc(i, states, leases, todos) PROVE Acc(Idle, states', leases', todos')
    <3>1. /\ NeedsLease(i.ids) \cap LiveFiles(states) = {} /\ i.op \in setup.ops
          /\ Worktree(LiveFiles(states)) \subseteq leases
      BY <2>1, <2>2 DEF Acc, SpawnAcc, LeaseAcc
    <3>2. Worktree(LiveFiles(states)) \subseteq leases'
      BY <2>1, <3>1 DEF Worktree
    <3>3. LeaseAcc(Idle, states, leases')
      <4>. SUFFICES ASSUME SavesOnly, setup.ops \cap {"schedule", "advance"} = {}
                    PROVE  leases' \subseteq KeptFiles(states)
        BY <3>2 DEF LeaseAcc
      <4>1. i.op = "delegate" /\ leases' = leases \ NeedsLease(i.ids)
        BY <2>1, <3>1 DEF SavesOnly
      <4>2. leases \subseteq KeptFiles(states) \cup NeedsLease(i.ids)
        BY <2>1, <2>2, <4>1 DEF Acc, LeaseAcc, Pending
      <4>. QED  BY <4>1, <4>2
    <3>4. TodoAcc(Idle, states, todos)
      BY <1>0, <2>1, <2>2 DEF Acc, TodoAcc
    <3>5. CopyAcc(Idle, states, leases') /\ ReleaseAcc(Idle, states) /\ SpawnAcc(Idle, states)
      BY <1>0 DEF CopyAcc, ReleaseAcc, SpawnAcc, SpawnOps
    <3>6. Acc(Idle, states, leases', todos)
      BY <3>3, <3>4, <3>5 DEF Acc
    <3>. QED  BY <2>1, <3>6
  <2>. QED  BY <1>1, <2>1, <2>2
<1>10. CASE Project(c)
  <2>0. PICK missed \in Overlooked :
          job' = [job EXCEPT ![c] = [op |-> job[c].op, at |-> "rollup",
                                     seen |-> LiveIdsOf(Parents \ missed)]]
    BY <1>10 DEF Project, Become
  <2>. DEFINE seen == LiveIdsOf(Parents \ missed)
              j == [op |-> job[c].op, at |-> "rollup", seen |-> seen]
  <2>1. /\ job' = [job EXCEPT ![c] = j] /\ UNCHANGED <<states, leases, todos, setup>>
        /\ i.at = "project" /\ j.at = "rollup" /\ j.op = i.op /\ j.seen = seen
    BY <1>10, <2>0 DEF Project
  <2>2. SavesOnly /\ ~setup.crowded => seen = LiveFiles(states)
    BY FullScan DEF SavesOnly, LiveIds, LiveIdsOf, LiveFiles, LiveOf
  <2>. HIDE DEF seen
  <2>. HIDE DEF i, j
  <2>3. ASSUME Acc(i, states, leases, todos) PROVE Acc(j, states', leases', todos')
    <3>1. Pending(i) = {} /\ Pending(j) = {}
      BY <2>1 DEF Pending
    <3>2. CopyAcc(j, states, leases) /\ ReleaseAcc(j, states) /\ SpawnAcc(j, states)
      BY <2>1, <2>3 DEF Acc, CopyAcc, ReleaseAcc, SpawnAcc
    <3>3. LeaseAcc(j, states, leases) /\ TodoAcc(j, states, todos)
      BY <2>1, <2>2, <2>3, <3>1 DEF Acc, LeaseAcc, TodoAcc
    <3>4. Acc(j, states, leases, todos)
      BY <3>2, <3>3 DEF Acc
    <3>. QED  BY <2>1, <3>4
  <2>. QED  BY <1>1, <2>1, <2>3
<1>11. CASE WriteRollup(c)
  <2>. DEFINE j == [op |-> "sync", at |-> "load"]
  <2>1. /\ UNCHANGED <<states, leases, setup>> /\ todos' = i.seen /\ i.at = "rollup"
        /\ job' = [job EXCEPT ![c] = Idle] \/ job' = [job EXCEPT ![c] = j]
    BY <1>11 DEF WriteRollup, Finish, Become
  <2>2. j.op = "sync" /\ j.at = "load"
    OBVIOUS
  <2>. HIDE DEF i, j
  <2>3. ASSUME Acc(i, states, leases, todos), NEW k, k.at \in {"idle", "load"}, k.op \in {"none", "sync"}
        PROVE  Acc(k, states', leases', todos')
    <3>1. Pending(i) = {}
      BY <2>1 DEF Pending
    <3>2. CopyAcc(k, states, leases) /\ ReleaseAcc(k, states) /\ SpawnAcc(k, states)
      BY <2>3 DEF CopyAcc, ReleaseAcc, SpawnAcc, SpawnOps
    <3>3. LeaseAcc(k, states, leases) /\ TodoAcc(k, states, todos')
      BY <2>1, <2>3, <3>1 DEF Acc, LeaseAcc, TodoAcc
    <3>4. Acc(k, states, leases, todos')
      BY <3>2, <3>3 DEF Acc
    <3>. QED  BY <2>1, <3>4
  <2>4. CASE job' = [job EXCEPT ![c] = Idle]
    <3>1. Acc(i, states, leases, todos) => Acc(Idle, states', leases', todos')
      BY <1>0, <2>3
    <3>. QED  BY <1>1, <2>1, <2>4, <3>1
  <2>5. CASE job' = [job EXCEPT ![c] = j]
    <3>1. Acc(i, states, leases, todos) => Acc(j, states', leases', todos')
      BY <2>2, <2>3
    <3>. QED  BY <1>1, <2>1, <2>5, <3>1
  <2>. QED  BY <2>1, <2>4, <2>5
<1>12. CASE SyncSessionTasks(c) \/ SaveFails(c)
  BY <1>3, <1>12 DEF SyncSessionTasks, SaveFails, At
<1>13. CASE ReleaseLease(c)
  <2>. DEFINE j == [job[c] EXCEPT !.at = "project"]
  <2>1. /\ i.op = "release" /\ i.at = "lease" /\ UNCHANGED <<states, todos, setup>>
        /\ \/ job' = [job EXCEPT ![c] = Idle] /\ leases' = leases /\ "lease" \in setup.faults
           \/ job' = [job EXCEPT ![c] = j] /\ leases' = leases \ {i.id}
    BY <1>13 DEF ReleaseLease, At, MoveTo, Finish, Become, TypeInv, JobsInv
  <2>2. i \in ReleaseJobs
    BY <1>0, <2>1, JobShapes
  <2>3. j.at = "project" /\ j.op = "release"
    BY <2>1, <2>2 DEF ReleaseJobs
  <2>. HIDE DEF i, j
  <2>4. ASSUME Acc(i, states, leases, todos), NEW k, k.op \in {"none", "release"},
               k.at \in {"idle", "project"}, k.at = "idle" => ~SavesOnly,
               leases' = leases \/ leases' = leases \ {i.id}
        PROVE  Acc(k, states', leases', todos')
    <3>1. Pending(i) = {} /\ i.id \notin LiveFiles(states)
      BY <2>1, <2>4 DEF Pending, Acc, ReleaseAcc
    <3>2. CopyAcc(k, states, leases') /\ ReleaseAcc(k, states) /\ SpawnAcc(k, states)
      BY <2>4 DEF CopyAcc, ReleaseAcc, SpawnAcc, SpawnOps
    <3>3. Worktree(LiveFiles(states)) \subseteq leases'
      BY <2>4, <3>1 DEF Acc, LeaseAcc, Worktree
    <3>4. LeaseAcc(k, states, leases')
      BY <2>4, <3>1, <3>3 DEF Acc, LeaseAcc
    <3>5. TodoAcc(k, states, todos)
      BY <2>4 DEF TodoAcc
    <3>6. Acc(k, states, leases', todos)
      BY <3>2, <3>4, <3>5 DEF Acc
    <3>. QED  BY <2>1, <3>6
  <2>5. CASE job' = [job EXCEPT ![c] = Idle] /\ leases' = leases /\ "lease" \in setup.faults
    <3>1. ~SavesOnly
      BY <2>5 DEF SavesOnly
    <3>2. Acc(i, states, leases, todos) => Acc(Idle, states', leases', todos')
      BY <1>0, <2>4, <2>5, <3>1
    <3>. QED  BY <1>1, <2>1, <2>5, <3>2
  <2>6. CASE job' = [job EXCEPT ![c] = j] /\ leases' = leases \ {i.id}
    <3>1. Acc(i, states, leases, todos) => Acc(j, states', leases', todos')
      BY <2>3, <2>4, <2>6
    <3>. QED  BY <1>1, <2>1, <2>6, <3>1
  <2>. QED  BY <2>1, <2>5, <2>6
<1>14. CASE JoinLoadIndex(c) \/ JoinSaveIndex(c)
  <2>. DEFINE j == [op |-> "join", at |-> "saveIndex", parent |-> job[c].parent,
                    post |-> Posted(index[job[c].parent], job[c].post)]
              k == [op |-> "join", at |-> "load", parent |-> job[c].parent,
                    live |-> LiveEntries(job[c].post)]
  <2>1. /\ i.op = "join" /\ i.at \in {"loadIndex", "saveIndex"}
        /\ UNCHANGED <<states, leases, todos, setup>>
        /\ job' = [job EXCEPT ![c] = j] \/ job' = [job EXCEPT ![c] = k]
    BY <1>14 DEF JoinLoadIndex, JoinSaveIndex, At, Become
  <2>2. j.op = "join" /\ j.at = "saveIndex" /\ k.op = "join" /\ k.at = "load"
    OBVIOUS
  <2>. HIDE DEF i, j, k
  <2>3. CASE job' = [job EXCEPT ![c] = j]
    BY <1>2, <2>1, <2>2, <2>3 DEF SpawnOps
  <2>4. CASE job' = [job EXCEPT ![c] = k]
    BY <1>2, <2>1, <2>2, <2>4 DEF SpawnOps
  <2>. QED  BY <2>1, <2>3, <2>4
<1>15. CASE JoinLoad(c)
  <2>. DEFINE p == job[c].parent
              copy == [states[p] EXCEPT !.handoff = job[c].live]
              j == [op |-> "join", at |-> "save", parent |-> p, copy |-> copy]
  <2>1. /\ i.op = "join" /\ i.at = "load" /\ UNCHANGED <<states, leases, todos, setup>>
        /\ job' = [job EXCEPT ![c] = j]
    BY <1>15 DEF JoinLoad, At, Become
  <2>2. p \in Parents
    BY <1>0, <2>1, JobShapes DEF JoinLoadJobs
  <2>3. states[p] \in FileType
    BY <2>2 DEF TypeInv, FilesInv
  <2>4. copy.tasks = states[p].tasks
    BY <2>3 DEF FileType
  <2>5. LiveOf(copy) = LiveOf(states[p]) /\ IdsOf(copy) = IdsOf(states[p])
    BY <2>4 DEF LiveOf, IdsOf, TaskSet
  <2>6. j.op = "join" /\ j.at = "save" /\ j.parent = p /\ j.copy = copy
    OBVIOUS
  <2>. HIDE DEF i, p, copy, j
  <2>7. ASSUME Acc(i, states, leases, todos) PROVE Acc(j, states', leases', todos')
    <3>1. Acc(j, states, leases, todos)
      BY <2>1, <2>2, <2>5, <2>6, <2>7, CopyAccount
    <3>. QED  BY <2>1, <3>1
  <2>. QED  BY <1>1, <2>1, <2>7
<1>. QED  BY <1>4, <1>5, <1>6, <1>7, <1>8, <1>9, <1>10, <1>11, <1>12, <1>13, <1>14, <1>15, Step(c)
          DEF Step

\* An operation begins without touching the files, the leases and the todos.
LEMMA BeginAccount ==
    ASSUME TypeInv, Serial, AccountInv, NEW c \in Procs, c \in Actors, job[c] = Idle, NEW j,
           job' = [job EXCEPT ![c] = j], UNCHANGED <<states, leases, todos, setup>>,
           j.at \notin {"save", "lease", "rollup"},
           j.op \in SpawnOps \cup {"advance"} => j.op \in setup.ops
    PROVE  AccountInv'
<1>1. Idle.op = "none" /\ Idle.at = "idle"
  BY DEF Idle
<1>2. Acc(Idle, states, leases, todos)
  BY OnlyActor
<1>3. Acc(j, states, leases, todos)
  BY <1>1, <1>2, PlainAcc
<1>. QED  BY <1>3, AccStep

\* A delegate or a team schedule takes the lock.
LEMMA SpawnAccount ==
    ASSUME TypeInv, Serial, AccountInv, NEW c \in Procs, c \in Actors, NEW op \in SpawnOps, NEW p,
           NEW members, NEW sequential, Spawn(c, op, p, members, sequential)
    PROVE  AccountInv'
<1>0. PICK missed \in Overlooked :
        job' = [job EXCEPT ![c] = [op |-> op, at |-> "count", parent |-> p, members |-> members,
                                   sequential |-> sequential, left |-> setup.parents \ missed,
                                   live |-> [a \in Agents |-> 0]]]
  BY DEF Spawn, Counting, Become
<1>. DEFINE j == [op |-> op, at |-> "count", parent |-> p, members |-> members,
                  sequential |-> sequential, left |-> setup.parents \ missed,
                  live |-> [a \in Agents |-> 0]]
<1>1. /\ job' = [job EXCEPT ![c] = j] /\ UNCHANGED <<states, leases, todos, setup>>
      /\ job[c] = Idle /\ op \in setup.ops
  BY <1>0 DEF Spawn
<1>2. j.op = op /\ j.at = "count"
  OBVIOUS
<1>. HIDE DEF j
<1>. QED  BY <1>1, <1>2, BeginAccount

\* Every step.
LEMMA NextAccount ==
    TypeInv /\ TypeInv' /\ Serial /\ AccountInv /\ [Next]_vars => AccountInv'
<1>. SUFFICES ASSUME TypeInv, TypeInv', Serial, AccountInv, [Next]_vars PROVE AccountInv'
  OBVIOUS
<1>1. /\ setup.parents \subseteq Parents /\ setup.callers \subseteq Procs
      /\ setup.delegators \subseteq Procs /\ setup.statuses \subseteq AllStatuses
      /\ setup.callers \subseteq Actors /\ setup.delegators \subseteq Actors
  BY SetupFacts DEF TypeInv, SharedInv, Procs, Actors
<1>2. ASSUME NEW c \in setup.delegators, NEW p \in setup.parents, NEW a \in Agents, Delegate(c, p, a)
      PROVE  AccountInv'
  BY <1>1, <1>2, SpawnAccount DEF Delegate, SpawnOps
<1>3. ASSUME NEW c \in setup.delegators, NEW p \in setup.parents, NEW t \in Teams,
             ScheduleTeam(c, p, t)
      PROVE  AccountInv'
  BY <1>1, <1>3, SpawnAccount DEF ScheduleTeam, SpawnOps
<1>4. ASSUME NEW c \in setup.callers, NEW p \in setup.parents, NEW t \in Teams,
             AdvanceSequential(c, p, t)
      PROVE  AccountInv'
  <2>1. drawn' \in 0 .. setup.tasks
    BY <1>4 DEF TypeInv, SharedInv, AdvanceSequential
  <2>. QED  BY <1>1, <1>4, <2>1, AdvanceAccount
<1>5. ASSUME NEW c \in setup.callers, NEW id \in Ids, NEW s \in setup.statuses,
             UpdateStatus(c, id, s)
      PROVE  AccountInv'
  BY <1>1, <1>5, ChangeAccount
<1>6. ASSUME NEW c \in setup.callers, NEW id \in Ids, Release(c, id) \/ SetHandoff(c, id)
      PROVE  AccountInv'
  BY <1>1, <1>6, ChangeAccount
<1>7. ASSUME NEW c \in setup.callers, NEW p \in setup.parents, PollJoin(c, p) PROVE AccountInv'
  <2>. DEFINE j == [op |-> "join", at |-> "loadIndex", parent |-> p,
                    post |-> [posted |-> {t.id : t \in Summaries(states[p])},
                              superseded |-> UNION {Supersedes(states[p], t) :
                                                      t \in Summaries(states[p])}]]
  <2>1. job' = [job EXCEPT ![c] = j] /\ UNCHANGED <<states, leases, todos, setup>> /\ job[c] = Idle
    BY <1>7 DEF PollJoin, Become
  <2>2. j.op = "join" /\ j.at = "loadIndex"
    OBVIOUS
  <2>. HIDE DEF j
  <2>. QED  BY <1>1, <2>1, <2>2, BeginAccount DEF SpawnOps
<1>8. ASSUME NEW c \in setup.callers, RefreshProjection(c) PROVE AccountInv'
  <2>. DEFINE j == [op |-> "refresh", at |-> "project"]
  <2>1. job' = [job EXCEPT ![c] = j] /\ UNCHANGED <<states, leases, todos, setup>> /\ job[c] = Idle
    BY <1>8 DEF RefreshProjection, Become
  <2>2. j.op = "refresh" /\ j.at = "project"
    OBVIOUS
  <2>. HIDE DEF j
  <2>. QED  BY <1>1, <2>1, <2>2, BeginAccount DEF SpawnOps
<1>9. ASSUME PersistTaskDocument PROVE AccountInv'
  BY <1>9 DEF PersistTaskDocument, Serial
<1>10. ASSUME Crash PROVE AccountInv'
  <2>1. /\ UNCHANGED <<states, leases, todos, setup>> /\ job' # job /\ "crash" \in setup.faults
        /\ job' = [c \in Procs |-> IF c = Tui THEN job[c] ELSE Idle]
    BY <1>10 DEF Crash
  <2>2. job \in [Procs -> Jobs]
    BY DEF TypeInv, JobsInv
  <2>3. PICK d \in Procs : job[d] # Idle /\ d # Tui
    BY <2>1, <2>2
  <2>4. \A c \in Procs : c # d => job[c] = Idle
    BY <2>3, OnlyActor DEF AccountInv, Busy
  <2>5. Busy' = {}
    BY <2>1, <2>3, <2>4 DEF Busy
  <2>6. Current' = Idle
    BY <2>5 DEF Current
  <2>7. Idle.op = "none" /\ Idle.at = "idle" /\ ~SavesOnly
    BY <2>1 DEF Idle, SavesOnly
  <2>8. Worktree(LiveFiles(states)) \subseteq leases
    BY DEF AccountInv, Acc, LeaseAcc
  <2>9. Acc(Current, states, leases, todos)'
    <3>1. Worktree(LiveFiles(states')) \subseteq leases' /\ ~SavesOnly'
      BY <2>1, <2>7, <2>8 DEF SavesOnly
    <3>. QED  BY <2>6, <2>7, <3>1 DEF Acc, CopyAcc, ReleaseAcc, SpawnAcc, SpawnOps, LeaseAcc, TodoAcc
  <2>. QED  BY <2>5, <2>9 DEF AccountInv
<1>11. ASSUME UNCHANGED vars PROVE AccountInv'
  BY <1>11 DEF vars, AccountInv, Busy, Actors, Current, Acc, CopyAcc, ReleaseAcc, SpawnAcc, LeaseAcc,
               TodoAcc, SavesOnly
<1>. QED  BY <1>2, <1>3, <1>4, <1>5, <1>6, <1>7, <1>8, <1>9, <1>10, <1>11, StepAccount DEF Next

\* A task of the files is a task of its parent's file.
LEMMA KeptTask ==
    ASSUME FilesInv, NEW id \in KeptFiles(states) PROVE HasTask(states[ParentOf(id)], id)
<1>1. PICK p \in Parents : id \in IdsOf(states[p])
  BY DEF KeptFiles
<1>2. PICK i \in DOMAIN states[p].tasks : id = states[p].tasks[i].id
  BY <1>1 DEF IdsOf, TaskSet
<1>3. ParentOf(id) = p
  BY <1>2 DEF FilesInv, FileOK
<1>. QED  BY <1>2, <1>3 DEF HasTask, TaskSet

\* Tasks, worktree leases and todos agree after every fault of a single client, whatever
\* agents.toml, the number of parents and tasks and the operations it uses: no lease without
\* its task, no live worktree task without its lease, no stale todo (facade_delegate_session_task,
\* facade_release_session_task, write_projection_rollup and their error paths).
THEOREM TasksAreAccounted == Spec => [](Serial => TasksAccounted)
<1>1. Init => AccountInv
  <2>. SUFFICES ASSUME Init PROVE AccountInv
    OBVIOUS
  <2>1. Busy = {} /\ Current = Idle /\ Idle.op = "none" /\ Idle.at = "idle"
    <3>1. Busy = {}
      BY DEF Init, Busy
    <3>. QED  BY <3>1 DEF Current, Idle
  <2>2. \A p \in Parents : states[p].tasks = <<>>
    BY DEF Init, NewState
  <2>3. \A p \in Parents : LiveOf(states[p]) = {}
    BY <2>2 DEF LiveOf, TaskSet
  <2>4. LiveFiles(states) = {} /\ Worktree(LiveFiles(states)) = {} /\ leases = {} /\ todos = {}
    BY <2>3 DEF LiveFiles, Worktree, Init
  <2>5. Acc(Idle, states, leases, todos)
    BY <2>1, <2>4 DEF Acc, CopyAcc, ReleaseAcc, SpawnAcc, SpawnOps, LeaseAcc, TodoAcc
  <2>. QED  BY <2>1, <2>5 DEF AccountInv
<1>2. [Next]_vars => (Serial' <=> Serial)
  BY FixedSetup DEF Serial, Actors
<1>3. TypeInv /\ TypeInv' /\ (Serial => AccountInv) /\ [Next]_vars => (Serial => AccountInv)'
  BY <1>2, NextAccount
<1>4. TypeInv /\ TypeOK /\ (Serial => AccountInv) => (Serial => TasksAccounted)
  <2>. SUFFICES ASSUME TypeInv, TypeOK, Serial, AccountInv PROVE TasksAccounted
    OBVIOUS
  <2>1. LiveIds = LiveFiles(states)
    BY DEF LiveIds, LiveIdsOf, LiveFiles, LiveOf
  <2>2. LiveHaveLease
    BY <2>1 DEF LiveHaveLease, AccountInv, Acc, LeaseAcc, Worktree
  <2>3. TodosFresh
    <3>. SUFFICES ASSUME setup.faults \subseteq {"save"}, "advance" \notin setup.ops, ~setup.crowded,
                         \A c \in Procs : job[c] = Idle
                  PROVE  todos = LiveIds
      BY DEF TodosFresh
    <3>1. Current = Idle /\ Idle.at = "idle"
      BY DEF Current, Busy, Idle
    <3>. QED  BY <2>1, <3>1 DEF AccountInv, Acc, TodoAcc, SavesOnly
  <2>4. LeaseAccounted
    <3>. SUFFICES ASSUME setup.faults \subseteq {"save"}, setup.ops \cap {"schedule", "advance"} = {},
                         NEW id \in leases, ~HasTask(states[ParentOf(id)], id)
                  PROVE  InFlight(id)
      BY DEF LeaseAccounted
    <3>1. id \notin KeptFiles(states)
      BY KeptTask DEF TypeInv
    <3>2. id \in Pending(Current)
      BY <3>1 DEF AccountInv, Acc, LeaseAcc, SavesOnly
    <3>3. /\ Current.op = "delegate" /\ Current.at = "save" /\ id \in NeedsLease(Current.ids)
      BY <3>2 DEF Pending
    <3>4. PICK c \in Procs : job[c] = Current
      <4>1. Busy # {}
        BY <3>3 DEF Current, Idle
      <4>. QED  BY <4>1 DEF Current, Busy
    <3>5. id \in IdsOf(job[c].copy)
      BY <3>3, <3>4 DEF AccountInv, Acc, SpawnAcc, SpawnOps
    <3>6. job[c] \in SpawnSaveJobs
      BY <3>3, <3>4, JobShapes DEF TypeInv, JobsInv, SpawnOps
    <3>7. "copy" \in DOMAIN job[c]
      BY <3>6 DEF SpawnSaveJobs
    <3>. QED  BY <3>5, <3>7 DEF InFlight, HasTask, IdsOf
  <2>. QED  BY <2>2, <2>3, <2>4 DEF TasksAccounted
<1>. QED  BY <1>1, <1>3, <1>4, InitTypes, NextTypes, TasksTypeCorrect, PTL DEF Spec
=============================================================================
