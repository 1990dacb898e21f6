---------------------------- MODULE SessionTasks ----------------------------
(***************************************************************************)
(* Session tasks: work a parent task hands to agents.  They live in the    *)
(* parent's state file {parent}.json, next to the worktree leases, the     *)
(* join index {parent}.join.json and the todos projection.  The HTTP       *)
(* handlers, the slash commands and other vex processes all go through the *)
(* task facade, and every operation of it reads a whole file, changes its  *)
(* copy and writes the whole file back.  Delegating and scheduling a team  *)
(* do so under the delegate lock; changing a status, releasing, joining    *)
(* and the TUI's own save take no lock.                                    *)
(*                                                                         *)
(* Abstractions.  One save replaces a file in one step (write to a temp    *)
(* file, rename).  A session-task id is <<parent, agent, uuid>>, the parts *)
(* the code formats into it; uuids are numbered in the order they are      *)
(* drawn.  Prompts, timestamps, heartbeats and the text of summaries are   *)
(* left out: a summary is there or not, a handoff is the set of the ids it *)
(* was built from (empty: none).  Of the two projection files the todos    *)
(* are kept.  The working-set sidecar that a join updates last is left out *)
(* (record_join_evidence); nothing here reads it.  Live counts read the    *)
(* headers of module HeaderCache, which are never older than the call.     *)
(***************************************************************************)
EXTENDS Integers, Sequences, FiniteSets

CONSTANTS
    Parents,        \* parent task ids
    Agents,         \* agents.toml: agent names
    MaxParallel,    \* agents.toml: max_parallel_tasks of each agent
    WorktreeAgents, \* agents.toml: agents with isolation = "worktree"
    Teams,          \* agents.toml: [members, sequential]
    Delegators,     \* callers of delegate / schedule_team
    Callers,        \* callers of the operations that take no lock
    Tui,            \* the delegator that is a TUI process, or None
    TuiTask,        \* the parent task that TUI has open
    Setups,         \* the deployments to explore: who is there and does what
    MaxTasks,       \* bound: session tasks ever created in any setup
    None

FaultKinds == {"load", "save", "lease", "crash"}
OpKinds == {"delegate", "schedule", "advance", "update", "release", "handoff", "join", "refresh",
            "persist"}
LiveStatuses == {"pending", "running", "blocked"}
AllStatuses == LiveStatuses \cup {"failed", "cancelled", "completed"}

\* What validate() enforces of agents.toml: known agents, teams that are not
\* empty and name no member twice.
ASSUME ConfigAssumption ==
    /\ MaxParallel \in [Agents -> Nat]
    /\ WorktreeAgents \subseteq Agents
    /\ \A t \in Teams : /\ t.members \in Seq(Agents) /\ t.members # <<>>
                        /\ \A i, j \in DOMAIN t.members :
                              t.members[i] = t.members[j] => i = j
                        /\ t.sequential \in BOOLEAN

\* A setup says which parents, delegators and callers there are, which operations they
\* use, the statuses clients send to PATCH status, which steps may fail, whether the
\* state directory holds more files than one scan reads, and how many session tasks are
\* created at most.
ASSUME CallerAssumption ==
    /\ \A s \in Setups :
          /\ s.parents \subseteq Parents /\ s.delegators \subseteq Delegators
          /\ s.callers \subseteq Callers
          /\ s.ops \subseteq OpKinds /\ s.statuses \subseteq AllStatuses
          /\ s.faults \subseteq FaultKinds /\ s.crowded \in BOOLEAN /\ s.tasks \in 0 .. MaxTasks
    /\ MaxTasks \in Nat
    /\ IsFiniteSet(Parents) /\ IsFiniteSet(Agents) /\ IsFiniteSet(Callers)
    /\ None \notin Delegators \cup Callers /\ Tui \in Delegators \cup {None}
    /\ TuiTask \in Parents

Procs == Delegators \cup Callers
Ids == Parents \X Agents \X (1 .. MaxTasks)
ParentOf(id) == id[1]
AgentOf(id) == id[2]

VARIABLES
    states,     \* {parent}.json: [exists, tasks, handoff]
    leases,     \* worktree-leases/{id}.json and the worktree it names
    index,      \* {parent}.join.json: [posted, superseded]
    todos,      \* projections/todos.json: ids of live session tasks
    lock,       \* holder of the delegate lock (mutex and flock), or None
    job,        \* what each caller is in the middle of
    drawn,      \* uuids drawn so far
    doc,        \* task_doc.session_tasks, the TUI's copy in memory
    setup       \* the deployment, fixed at the start

vars == <<states, leases, index, todos, lock, job, drawn, doc, setup>>

----------------------------------------------------------------------------
(* Session tasks and state files *)

NewState == [exists |-> TRUE, tasks |-> <<>>, handoff |-> {}]
Live(t) == t.status \in LiveStatuses
TaskSet(st) == {st.tasks[i] : i \in DOMAIN st.tasks}

\* TaskState::session_task
HasTask(st, id) == \E t \in TaskSet(st) : t.id = id
TaskOf(st, id) == CHOOSE t \in TaskSet(st) : t.id = id

\* SessionTask::new and stamp_join_supersedes: a sequential continuation
\* replaces every earlier task, any other one the earlier tasks of its agent.
NewTask(st, id, sequential) ==
    [id |-> id, status |-> "pending", summary |-> FALSE,
     supersedes |-> {t.id : t \in {u \in TaskSet(st) : sequential \/ AgentOf(u.id) = AgentOf(id)}}]

\* add_session_task for each id.  Members of a fan-out team are distinct agents
\* and a sequential team adds one, so none of the new tasks replaces another.
Added(st, ids, sequential) ==
    [st EXCEPT !.tasks = @ \o [i \in DOMAIN ids |-> NewTask(st, ids[i], sequential)]]

\* transition_to on the task with that id
WithStatus(st, id, s) ==
    [st EXCEPT !.tasks = [i \in DOMAIN @ |-> IF @[i].id = id THEN [@[i] EXCEPT !.status = s] ELSE @[i]]]

\* set_handoff_summary
WithSummary(st, id) ==
    [st EXCEPT !.tasks = [i \in DOMAIN @ |-> IF @[i].id = id THEN [@[i] EXCEPT !.summary = TRUE] ELSE @[i]]]

\* TaskState::load of a file that may not be there yet
Loaded(p) == IF states[p].exists THEN states[p] ELSE NewState

\* One file's contribution to live_session_task_counts_from
LiveIn(p, a) == Cardinality({t \in TaskSet(states[p]) : Live(t) /\ AgentOf(t.id) = a})
LiveIdsOf(ps) == UNION {{t.id : t \in {u \in TaskSet(states[p]) : Live(u)}} : p \in ps}
LiveIds == LiveIdsOf(Parents)

\* The parents whose files a scan of the state directory leaves out.  It takes the
\* newest max_scans files (200, or VEX_MAX_STARTUP_TASK_SCANS), {parent}.join.json and
\* the files of other tasks among them, and skips what it cannot read.  Any task's save
\* moves its file to the front, so in a directory with more files than that it may be
\* any of them.
Overlooked == IF setup.crowded \/ "load" \in setup.faults THEN SUBSET setup.parents ELSE {{}}

NeedsLease(ids) == {ids[i] : i \in {j \in DOMAIN ids : AgentOf(ids[j]) \in WorktreeAgents}}

----------------------------------------------------------------------------
(* Callers *)

Idle == [op |-> "none", at |-> "idle"]
At(c, op, at) == job[c].op = op /\ job[c].at = at
Become(c, j) == job' = [job EXCEPT ![c] = j]
MoveTo(c, at) == job' = [job EXCEPT ![c].at = at]
Finish(c) == Become(c, Idle)
\* Leaving with_delegate_lock drops the guards.
Unlock(c) == lock' = IF lock = c THEN None ELSE lock
\* An early return of an operation
GiveUp(c) == Finish(c) /\ Unlock(c)

Init ==
    /\ states = [p \in Parents |-> [NewState EXCEPT !.exists = FALSE]]
    /\ leases = {} /\ todos = {} /\ lock = None /\ drawn = 0 /\ doc = <<>>
    /\ index = [p \in Parents |-> [posted |-> {}, superseded |-> {}]]
    /\ job = [c \in Procs |-> Idle]
    /\ setup \in Setups

----------------------------------------------------------------------------
(* Delegating: with_delegate_lock, then count, load, lease, save, project *)

\* The work under the lock begins with the list of the files to count in.
Counting(c, op, p, members, sequential) ==
    \E missed \in Overlooked :
        Become(c, [op |-> op, at |-> "count", parent |-> p, members |-> members,
                   sequential |-> sequential, left |-> setup.parents \ missed,
                   live |-> [a \in Agents |-> 0]])

\* Mutant: the caller does not wait for the delegate lock.
Spawn_NoLock(c, op, p, members, sequential) ==
    /\ op \in setup.ops /\ job[c] = Idle
    /\ drawn + Len(members) <= setup.tasks
    /\ lock' = c
    /\ Counting(c, op, p, members, sequential)
    /\ UNCHANGED <<states, leases, index, todos, drawn, doc, setup>>

Spawn(c, op, p, members, sequential) ==
    /\ op \in setup.ops /\ job[c] = Idle /\ lock = None
    /\ drawn + Len(members) <= setup.tasks
    /\ lock' = c
    /\ Counting(c, op, p, members, sequential)
    /\ UNCHANGED <<states, leases, index, todos, drawn, doc, setup>>

\* Ids the holder of the lock has yet to draw (keeps the bound from blocking it)
Reserved == IF lock # None /\ job[lock].at \in {"count", "load"} THEN Len(job[lock].members) ELSE 0

\* A TUI delegates for the task it has open.
MayOpen(c, p) == c = Tui => p = TuiTask

\* facade_delegate_session_task: the parent id, the prompt and the agent are checked
\* before the lock is taken.
Delegate(c, p, a) == MayOpen(c, p) /\ Spawn(c, "delegate", p, <<a>>, FALSE)

\* facade_schedule_team: a sequential team starts with its first member.
ScheduleTeam(c, p, t) ==
    /\ MayOpen(c, p)
    /\ Spawn(c, "schedule", p,
             IF t.sequential THEN <<t.members[1]>> ELSE t.members, t.sequential)

\* live_session_task_counts_from reads the files of its list one by one.
CountFile(c, p) ==
    /\ job[c].at = "count" /\ p \in job[c].left
    /\ Become(c, [job[c] EXCEPT !.left = @ \ {p},
                                !.live = [a \in Agents |-> @[a] + LiveIn(p, a)]])
    /\ UNCHANGED <<states, leases, index, todos, lock, drawn, doc, setup>>

\* live >= max_parallel_tasks of a member is ConcurrencyLimitReached.
CheckLimit(c) ==
    /\ job[c].at = "count" /\ job[c].left = {}
    /\ LET members == job[c].members
           full == \E i \in DOMAIN members : job[c].live[members[i]] >= MaxParallel[members[i]]
       IN  IF full THEN GiveUp(c)
           ELSE /\ Become(c, [op |-> job[c].op, at |-> "load", parent |-> job[c].parent,
                              members |-> members, sequential |-> job[c].sequential])
                /\ UNCHANGED lock
    /\ UNCHANGED <<states, leases, index, todos, drawn, doc, setup>>

NewIds(c) ==
    [i \in DOMAIN job[c].members |-> <<job[c].parent, job[c].members[i], drawn + i>>]

\* The changed copy, with a lease for every worktree agent in it
Prepare(c, st) ==
    LET ids == NewIds(c) IN
    /\ drawn' = drawn + Len(ids)
    /\ leases' = leases \cup NeedsLease(ids)
    /\ Become(c, [op |-> job[c].op, at |-> "save", parent |-> job[c].parent,
                  ids |-> ids, copy |-> Added(st, ids, job[c].sequential)])
    /\ UNCHANGED <<states, index, todos, lock, doc, setup>>

\* A parent that cannot be loaded is replaced by a new one.
DelegateLoad(c) ==
    /\ At(c, "delegate", "load")
    /\ \/ Prepare(c, Loaded(job[c].parent))
       \/ "load" \in setup.faults /\ Prepare(c, NewState)

\* SubtaskOrchestrator::schedule_team passes the error on.
ScheduleLoad(c) ==
    /\ At(c, "schedule", "load")
    /\ \/ Prepare(c, Loaded(job[c].parent))
       \/ "load" \in setup.faults /\ GiveUp(c) /\ UNCHANGED <<states, leases, index, todos, drawn, doc, setup>>

\* lease_for_task fails for the k-th member: the leases before it stay.
LeaseFails(c) ==
    /\ "lease" \in setup.faults /\ job[c].at = "load" /\ job[c].op \in {"delegate", "schedule"}
    /\ \E k \in DOMAIN job[c].members :
          /\ job[c].members[k] \in WorktreeAgents
          /\ drawn' = drawn + k
          /\ leases' = leases \cup NeedsLease(SubSeq(NewIds(c), 1, k - 1))
    /\ GiveUp(c)
    /\ UNCHANGED <<states, index, todos, doc, setup>>

Write(c) == states' = [states EXCEPT ![job[c].parent] = job[c].copy]

SpawnSave(c) ==
    /\ job[c].op \in {"delegate", "schedule"} /\ job[c].at = "save"
    /\ Write(c)
    /\ Become(c, [op |-> job[c].op, at |-> "project"])
    /\ UNCHANGED <<leases, index, todos, lock, drawn, doc, setup>>

\* Mutant: a failed save leaves the lease behind.
SpawnSaveFails_KeepsLease(c) ==
    /\ "save" \in setup.faults
    /\ job[c].op \in {"delegate", "schedule"} /\ job[c].at = "save"
    /\ GiveUp(c)
    /\ UNCHANGED <<states, leases, index, todos, drawn, doc, setup>>

\* Mutant: the error path does not give the lock back.
SpawnSaveFails_KeepsLock(c) ==
    /\ "save" \in setup.faults
    /\ job[c].op \in {"delegate", "schedule"} /\ job[c].at = "save"
    /\ \/ job[c].op = "delegate" /\ leases' = leases \ NeedsLease(job[c].ids)
       \/ (job[c].op = "schedule" \/ "lease" \in setup.faults) /\ UNCHANGED leases
    /\ Finish(c)
    /\ UNCHANGED <<states, index, todos, lock, drawn, doc, setup>>

\* A failed save: delegate takes its lease back, which may fail in turn and is then only
\* logged; schedule_team does not try.
SpawnSaveFails(c) ==
    /\ "save" \in setup.faults
    /\ job[c].op \in {"delegate", "schedule"} /\ job[c].at = "save"
    /\ \/ job[c].op = "delegate" /\ leases' = leases \ NeedsLease(job[c].ids)
       \/ (job[c].op = "schedule" \/ "lease" \in setup.faults) /\ UNCHANGED leases
    /\ GiveUp(c)
    /\ UNCHANGED <<states, index, todos, drawn, doc, setup>>

----------------------------------------------------------------------------
(* write_projection_rollup, the last thing delegate, schedule, status and     *)
(* release do; a failure of it is only logged.                                *)

Project(c) ==
    /\ job[c].at = "project"
    /\ \E missed \in Overlooked :
          Become(c, [op |-> job[c].op, at |-> "rollup", seen |-> LiveIdsOf(Parents \ missed)])
    /\ UNCHANGED <<states, leases, index, todos, lock, drawn, doc, setup>>

WriteRollup(c) ==
    /\ job[c].at = "rollup"
    /\ todos' = job[c].seen
    /\ Unlock(c)
    /\ IF c = Tui /\ job[c].op \in {"delegate", "schedule"}
       THEN Become(c, [op |-> "sync", at |-> "load"]) ELSE Finish(c)
    /\ UNCHANGED <<states, leases, index, drawn, doc, setup>>

\* GET /v1/projection and vex tasks export write it as well.
RefreshProjection(c) ==
    /\ "refresh" \in setup.ops /\ job[c] = Idle
    /\ Become(c, [op |-> "refresh", at |-> "project"])
    /\ UNCHANGED <<states, leases, index, todos, lock, drawn, doc, setup>>

----------------------------------------------------------------------------
(* The TUI keeps the session tasks of its own task in memory: it reads them   *)
(* back after its own /delegate and writes them with every save of the task.  *)

SyncSessionTasks(c) ==
    /\ At(c, "sync", "load")
    /\ doc' = states[TuiTask].tasks
    /\ Finish(c)
    /\ UNCHANGED <<states, leases, index, todos, lock, drawn, setup>>

\* persist_task_document: the snapshot's handoff_summary is always None.
PersistTaskDocument ==
    /\ "persist" \in setup.ops /\ Tui \in setup.delegators /\ job[Tui] = Idle
    /\ states' = [states EXCEPT ![TuiTask] = [exists |-> TRUE, tasks |-> doc, handoff |-> {}]]
    /\ UNCHANGED <<leases, index, todos, lock, job, drawn, doc, setup>>

----------------------------------------------------------------------------
(* Operations without the lock *)

\* find_session_task_in_saved_states; a task in a file its scan leaves out is "not found",
\* and nothing happens.
Find(c, op, id) ==
    /\ op \in setup.ops /\ job[c] = Idle
    /\ HasTask(states[ParentOf(id)], id)

\* facade_update_session_task_status: only a live task may change.
UpdateStatus(c, id, s) ==
    /\ Find(c, "update", id)
    /\ Live(TaskOf(states[ParentOf(id)], id))
    /\ Become(c, [op |-> "update", at |-> "save", parent |-> ParentOf(id),
                  copy |-> WithStatus(states[ParentOf(id)], id, s)])
    /\ UNCHANGED <<states, leases, index, todos, lock, drawn, doc, setup>>

UpdateSave(c) ==
    /\ At(c, "update", "save")
    /\ Write(c)
    /\ Become(c, [op |-> "update", at |-> "project"])
    /\ UNCHANGED <<leases, index, todos, lock, drawn, doc, setup>>

\* facade_release_session_task: a live task becomes completed, then the lease goes.
Release(c, id) ==
    LET st == states[ParentOf(id)] IN
    /\ Find(c, "release", id)
    /\ IF Live(TaskOf(st, id))
       THEN Become(c, [op |-> "release", at |-> "save", parent |-> ParentOf(id), id |-> id,
                       copy |-> WithStatus(st, id, "completed")])
       ELSE Become(c, [op |-> "release", at |-> "lease", id |-> id])
    /\ UNCHANGED <<states, leases, index, todos, lock, drawn, doc, setup>>

ReleaseSave(c) ==
    /\ At(c, "release", "save")
    /\ Write(c)
    /\ Become(c, [op |-> "release", at |-> "lease", id |-> job[c].id])
    /\ UNCHANGED <<leases, index, todos, lock, drawn, doc, setup>>

ReleaseLease(c) ==
    /\ At(c, "release", "lease")
    /\ \/ leases' = leases \ {job[c].id} /\ MoveTo(c, "project")
       \/ "lease" \in setup.faults /\ job[c].id \in leases /\ UNCHANGED leases /\ Finish(c)
    /\ UNCHANGED <<states, index, todos, lock, drawn, doc, setup>>

\* A worker records its summary: SessionTask::set_handoff_summary between a load and a
\* save.  The library offers it; in the repository itself only tests call it.
SetHandoff(c, id) ==
    /\ Find(c, "handoff", id)
    /\ Become(c, [op |-> "handoff", at |-> "save", parent |-> ParentOf(id),
                  copy |-> WithSummary(states[ParentOf(id)], id)])
    /\ UNCHANGED <<states, leases, index, todos, lock, drawn, doc, setup>>

HandoffSave(c) ==
    /\ At(c, "handoff", "save")
    /\ Write(c) /\ Finish(c)
    /\ UNCHANGED <<leases, index, todos, lock, drawn, doc, setup>>

\* SubtaskOrchestrator::advance_sequential: the first member without a task, unless
\* the task of a member before it is live.  It checks no limit and takes no lock.
FirstOf(st, a) ==
    LET own == {i \in DOMAIN st.tasks : AgentOf(st.tasks[i].id) = a}
    IN  st.tasks[CHOOSE i \in own : \A j \in own : i <= j]
Started(st, a) == \E t \in TaskSet(st) : AgentOf(t.id) = a

AdvanceSequential(c, p, t) ==
    LET st == states[p] IN
    /\ "advance" \in setup.ops /\ job[c] = Idle /\ t.sequential /\ st.exists
    /\ drawn + Reserved < setup.tasks
    /\ \E k \in DOMAIN t.members :
          /\ ~Started(st, t.members[k])
          /\ \A i \in 1 .. k - 1 : Started(st, t.members[i]) /\ ~Live(FirstOf(st, t.members[i]))
          /\ LET ids == << <<p, t.members[k], drawn + 1>> >> IN
             /\ leases' = leases \cup NeedsLease(ids)
             /\ Become(c, [op |-> "advance", at |-> "save", parent |-> p,
                           copy |-> Added(st, ids, TRUE)])
    /\ drawn' = drawn + 1
    /\ UNCHANGED <<states, index, todos, lock, doc, setup>>

AdvanceSave(c) ==
    /\ At(c, "advance", "save")
    /\ Write(c) /\ Finish(c)
    /\ UNCHANGED <<leases, index, todos, lock, drawn, doc, setup>>

\* A save of one of these operations fails: the error is returned, nothing is undone.
SaveFails(c) ==
    /\ "save" \in setup.faults
    /\ job[c].op \in {"update", "release", "handoff", "advance", "join"}
    /\ job[c].at \in {"save", "saveIndex"}
    /\ Finish(c)
    /\ UNCHANGED <<states, leases, index, todos, lock, drawn, doc, setup>>

----------------------------------------------------------------------------
(* Join: poll_fan_out_join, then apply_join_outcome *)

\* The completed tasks with a summary, each with the ids it replaces: those of its
\* stamp and every earlier completed task of its agent that has a summary.
Summaries(st) ==
    {t \in TaskSet(st) : t.status = "completed" /\ t.summary}
Supersedes(st, t) ==
    t.supersedes \cup
    {u.id : u \in {st.tasks[i] : i \in {j \in DOMAIN st.tasks :
                      /\ st.tasks[j] \in Summaries(st)
                      /\ AgentOf(st.tasks[j].id) = AgentOf(t.id)
                      /\ \E k \in DOMAIN st.tasks : j < k /\ st.tasks[k].id = t.id}}}

\* poll_fan_out_join answers only when there are tasks and none of them is live;
\* with no summary apply_join_outcome has nothing to do.
PollJoin(c, p) ==
    LET st == states[p] IN
    /\ "join" \in setup.ops /\ job[c] = Idle
    /\ st.exists /\ \A t \in TaskSet(st) : ~Live(t)
    /\ Summaries(st) # {}
    /\ Become(c, [op |-> "join", at |-> "loadIndex", parent |-> p,
                  post |-> [posted |-> {t.id : t \in Summaries(st)},
                            superseded |-> UNION {Supersedes(st, t) : t \in Summaries(st)}]])
    /\ UNCHANGED <<states, leases, index, todos, lock, drawn, doc, setup>>

\* JoinIndex::load_or_new, and post for every summary: an entry is never removed and
\* its supersedes list only grows.
Posted(ix, post) == [posted |-> ix.posted \cup post.posted,
                     superseded |-> ix.superseded \cup post.superseded]
\* Mutant: superseded entries stay live.
LiveEntries_All(ix) == ix.posted
LiveEntries(ix) == ix.posted \ ix.superseded

JoinLoadIndex(c) ==
    /\ At(c, "join", "loadIndex")
    /\ Become(c, [op |-> "join", at |-> "saveIndex", parent |-> job[c].parent,
                  post |-> Posted(index[job[c].parent], job[c].post)])
    /\ UNCHANGED <<states, leases, index, todos, lock, drawn, doc, setup>>

JoinSaveIndex(c) ==
    /\ At(c, "join", "saveIndex")
    /\ index' = [index EXCEPT ![job[c].parent] = job[c].post]
    /\ Become(c, [op |-> "join", at |-> "load", parent |-> job[c].parent,
                  live |-> LiveEntries(job[c].post)])
    /\ UNCHANGED <<states, leases, todos, lock, drawn, doc, setup>>

JoinLoad(c) ==
    /\ At(c, "join", "load")
    /\ Become(c, [op |-> "join", at |-> "save", parent |-> job[c].parent,
                  copy |-> [states[job[c].parent] EXCEPT !.handoff = job[c].live]])
    /\ UNCHANGED <<states, leases, index, todos, lock, drawn, doc, setup>>

JoinSave(c) ==
    /\ At(c, "join", "save")
    /\ Write(c) /\ Finish(c)
    /\ UNCHANGED <<leases, index, todos, lock, drawn, doc, setup>>

----------------------------------------------------------------------------
\* The server process dies: every request it was serving ends where it is, and the
\* lock goes with the process.
Crash ==
    /\ "crash" \in setup.faults
    /\ job' = [c \in Procs |-> IF c = Tui THEN job[c] ELSE Idle]
    /\ lock' = IF lock \in {Tui, None} THEN lock ELSE None
    /\ job' # job
    /\ UNCHANGED <<states, leases, index, todos, drawn, doc, setup>>

\* The steps a caller takes once its operation has begun
Step(c) ==
    \/ \E p \in Parents : CountFile(c, p)
    \/ CheckLimit(c) \/ DelegateLoad(c) \/ ScheduleLoad(c) \/ LeaseFails(c)
    \/ SpawnSave(c) \/ SpawnSaveFails(c) \/ Project(c) \/ WriteRollup(c) \/ SyncSessionTasks(c)
    \/ UpdateSave(c) \/ ReleaseSave(c) \/ ReleaseLease(c) \/ HandoffSave(c) \/ AdvanceSave(c)
    \/ JoinLoadIndex(c) \/ JoinSaveIndex(c) \/ JoinLoad(c) \/ JoinSave(c) \/ SaveFails(c)

Next ==
    \/ \E c \in setup.delegators, p \in setup.parents, a \in Agents : Delegate(c, p, a)
    \/ \E c \in setup.delegators, p \in setup.parents, t \in Teams : ScheduleTeam(c, p, t)
    \/ \E c \in setup.callers, p \in setup.parents, t \in Teams : AdvanceSequential(c, p, t)
    \/ \E c \in setup.callers, id \in Ids, s \in setup.statuses : UpdateStatus(c, id, s)
    \/ \E c \in setup.callers, id \in Ids : Release(c, id) \/ SetHandoff(c, id)
    \/ \E c \in setup.callers, p \in setup.parents : PollJoin(c, p)
    \/ \E c \in setup.callers : RefreshProjection(c)
    \/ \E c \in Procs : Step(c)
    \/ PersistTaskDocument \/ Crash

\* An operation that has begun runs on: it is synchronous code on a thread.
Fairness == \A c \in Procs : WF_vars(Step(c))

Spec == Init /\ [][Next]_vars /\ Fairness
----------------------------------------------------------------------------
(* Properties *)

TaskType == [id : Ids, status : AllStatuses, summary : BOOLEAN, supersedes : SUBSET Ids]
Distinct(tasks) == \A i, j \in DOMAIN tasks : tasks[i].id = tasks[j].id => i = j

\* Files hold well-formed tasks of their own parent, no id twice (find_session_task
\* and session_task_mut act on the first match), and only a delegator holds the lock.
TypeOK ==
    /\ \A p \in Parents :
          /\ states[p].exists \in BOOLEAN
          /\ TaskSet(states[p]) \subseteq TaskType
          /\ \A t \in TaskSet(states[p]) : ParentOf(t.id) = p
          /\ Distinct(states[p].tasks)
          /\ states[p].handoff \subseteq Ids
          /\ index[p].posted \subseteq Ids /\ index[p].superseded \subseteq Ids
    /\ leases \subseteq Ids /\ todos \subseteq Ids
    /\ lock \in Delegators \cup {None}
    /\ drawn \in 0 .. MaxTasks
    /\ DOMAIN job = Procs

\* One client beside the delegators: the only writer that takes no lock is one caller,
\* which does not use advance_sequential (it checks no limit); no TUI saves its own copy
\* of the tasks, and no file that cannot be read is replaced by a new one.
SoleClient ==
    /\ Cardinality(setup.callers) <= 1 /\ setup.ops \cap {"advance", "persist"} = {}
    /\ "load" \notin setup.faults

\* No agent has more live session tasks than its max_parallel_tasks, over all parents,
\* whatever delegates and team schedules run at once: the count, the load and the save
\* of facade_delegate_session_task and facade_schedule_team are under one lock.  The
\* limit needs a state directory one scan can read: in a crowded one the tasks of an
\* older file are not counted, and delegates one after the other exceed it.
LimitHolds ==
    SoleClient /\ ~setup.crowded =>
        \A a \in Agents : Cardinality({id \in LiveIds : AgentOf(id) = a}) <= MaxParallel[a]

\* A live task of a worktree agent has its lease, so no agent works in a tree that
\* was taken away (facade_release_session_task drops the lease of a task it completes).
LiveHaveLease ==
    \A id \in LiveIds : AgentOf(id) \in WorktreeAgents => id \in leases

InFlight(id) ==
    \E c \in Procs : "copy" \in DOMAIN job[c] /\ HasTask(job[c].copy, id)

\* Every lease belongs to a task of its parent's file, or to one about to be saved:
\* release finds its task only there, a lease without one stays for ever.  A save that
\* fails is undone by delegate; schedule_team and advance_sequential undo nothing.
LeaseAccounted ==
    setup.faults \subseteq {"save"} /\ setup.ops \cap {"schedule", "advance"} = {} =>
        \A id \in leases : HasTask(states[ParentOf(id)], id) \/ InFlight(id)

\* When no operation is running, the todos projection lists exactly the live tasks,
\* unless an operation was cut short or never writes it (advance_sequential), or the state
\* directory holds more files than the rollup's scan reads.
TodosFresh ==
    /\ setup.faults \subseteq {"save"} /\ "advance" \notin setup.ops /\ ~setup.crowded
    /\ \A c \in Procs : job[c] = Idle
    => todos = LiveIds

\* Tasks, worktree leases and todos agree after every fault of a single client: no lease
\* without its task, no live worktree task without its lease, no stale todo.
TasksAccounted == TypeOK /\ LeaseAccounted /\ LiveHaveLease /\ TodosFresh

\* A join that has summaries publishes some, and of each agent the newest it ever
\* posted: a retry's summary replaces the one it retried (stamp_join_supersedes,
\* production_supersedes and JoinIndex::live_entries together).  It needs the earlier
\* tasks to be in the file: not when an unreadable file is replaced by a new one, when a
\* TUI saves an older copy, or when two clients or an advance_sequential interleave.
JoinKeepsNewest ==
    SoleClient =>
        \A c \in Callers : At(c, "join", "load") =>
            /\ job[c].live # {}
            /\ \A x \in job[c].live, y \in index[job[c].parent].posted :
                  AgentOf(x) = AgentOf(y) => y[3] <= x[3]

\* The delegate lock is always given back, on every error path and after a crash.
LockReleased == lock # None ~> lock = None
=============================================================================
