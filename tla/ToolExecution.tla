---------------------------- MODULE ToolExecution ----------------------------
(* The tool half of a turn: how one call the model proposes is guarded,       *)
(* approved, snapshotted, executed on a blocking thread under a timeout and   *)
(* accounted for (state/conversation/send_message.rs, tools/mod.rs,           *)
(* tools/routing.rs, tools/operator/file_ops.rs), with the three structures   *)
(* that must keep in step with the workspace: the undo stack, the ledger of   *)
(* what was read this turn, and the codebase index.                           *)
(*                                                                            *)
(* A file is its content and its modification time.  Every write makes a      *)
(* content never seen before, so equality of contents is equality of writes.  *)
(* Whether an edit's old_str occurs once, several times or not at all, and    *)
(* how many of the occurrences lie near the last read, is left to choice.     *)
EXTENDS Integers, FiniteSets, Sequences

CONSTANTS Paths,        \* workspace files
          TestPaths,    \* those is_test_target_path accepts
          InitFiles,    \* those that exist at the start
          Asked,        \* requests the model makes
          RequireToolApproval, \* every tool asks, not only the mutating ones
          MaxUndo,      \* max_undo_checkpoints
          MaxCalls,     \* bound: tool calls
          MaxTurns,     \* bound: turns
          MaxExternal   \* bound: writes by programs other than the tools

VARIABLES disk,     \* the workspace: path -> [c, m], c = 0 when there is no file
          clock,    \* last content and modification time handed out
          turn,     \* the turn that holds the conversation
          call,     \* the call being executed
          jobs,     \* blocking tasks, those of abandoned calls included
          cmd,      \* the process of a run_command call
          undo,     \* undo_stack; each checkpoint carries the contents it should bring back
          ledger,   \* pulse ledger: path -> its last located read
          index,    \* codebase index
          foreign,  \* paths changed by something no checkpoint stands for
          stale,    \* paths whose index entry nothing will refresh
          anchor,   \* the last edit placed with the help of the ledger
          spent     \* calls and outside writes so far, for the bounds

books == <<undo, ledger, index, foreign, stale, anchor>>
toolVars == <<disk, clock, turn, call, jobs, cmd, books, spent>>

NoFile == [c |-> 0, m |-> 0]
NoPath == "none"
Contents(d) == [p \in Paths |-> d[p].c]

Mutating == {"write_file", "apply_patch", "edit_file", "rename_file"}
Tools == Mutating \cup {"read_file", "run_command", "codebase_search"}

\* A request: the tool, the path(s) it names and under which key.  "std" is a key every
\* reader of the input knows; "alt" is `filename` (or `target_path` for the destination of
\* a rename), which some readers know; "none" is no path at all.
Requests ==
    [tool : {"read_file", "write_file", "apply_patch", "edit_file"}, path : Paths,
     to : {NoPath}, key : {"std", "alt"}]
    \cup [tool : {"edit_file"}, path : {NoPath}, to : {NoPath}, key : {"none"}]
    \cup [tool : {"rename_file"}, path : Paths, to : Paths, key : {"std", "alt"}]
    \cup [tool : {"run_command", "codebase_search"}, path : {NoPath}, to : {NoPath}, key : {"std"}]

ASSUME ToolAssumption ==
    /\ NoPath \notin Paths /\ TestPaths \subseteq Paths /\ InitFiles \subseteq Paths /\ Asked \subseteq Requests
    /\ RequireToolApproval \in BOOLEAN
    /\ {MaxUndo, MaxCalls, MaxTurns, MaxExternal} \subseteq Nat

\* What kind of turn it is: a request is_read_only_user_request recognises, one of
\* /generate-tests (PulseToolPolicy::TestsOnlyMutations), one in chat or plan mode
\* (ToolPolicy), or any other.
TurnKinds == {"default", "read_only", "tests_only", "chat", "plan"}

NoRequest == [tool |-> "none", path |-> NoPath, to |-> NoPath, key |-> "none"]
NoSnap == [path |-> NoPath, cleanup |-> NoPath, previous |-> 0, mark |-> <<>>]
NoCall == [st |-> "idle", req |-> NoRequest, snap |-> NoSnap, wrote |-> {}, asked |-> FALSE]
NoTurn == [on |-> FALSE, n |-> 0, kind |-> "default", mutated |-> FALSE, wrote |-> FALSE, proposed |-> FALSE]
NoCmd == [proc |-> "none", held |-> FALSE, eof |-> FALSE, waiter |-> "none", cancel |-> FALSE]
NoRead == [m |-> 0, seen |-> 0, turn |-> 0, raced |-> FALSE, late |-> FALSE]
NoAnchor == [seen |-> 0, base |-> 0, raced |-> FALSE, readIn |-> 0, editIn |-> 0, late |-> FALSE]

\* tool_requires_confirmation
Requires(t) == t \in Mutating \cup {"run_command"}

(****************************************************************************)
(* Guards of a proposed call (send_message.rs, tools/validation.rs)         *)
(****************************************************************************)
\* missing_read_only_location_prompt and missing_mutating_location_prompt: every spelling
\* of the key passes.
MissingLocation(r) == r.key = "none"

\* mutating_tool_read_only_conflict_prompt
ReadOnlyConflict(r) == turn.kind = "read_only" /\ Requires(r.tool)

TargetPaths(r) == IF r.tool \in Mutating THEN {r.path, r.to} \ {NoPath} ELSE {}

\* tests_only_mutation_conflict_prompt
TestsOnlyConflict(r) == turn.kind = "tests_only" /\ ~(TargetPaths(r) \subseteq TestPaths)

\* The policy check opens execute_tool_with_timeout_with_updates, after the approval.
PolicyForbids(r) ==
    \/ turn.kind = "chat"
    \/ turn.kind = "plan" /\ r.tool \notin {"read_file", "codebase_search"}

(****************************************************************************)
(* The undo stack (state.rs)                                                *)
(****************************************************************************)
\* capture_undo_snapshot: `filename` is not among the keys it knows, nor `target_path`.
CaptureUndoSnapshot(r) ==
    IF r.tool \notin Mutating \/ (r.tool # "rename_file" /\ r.key = "alt") THEN NoSnap
    ELSE [path |-> r.path,
          cleanup |-> IF r.tool = "rename_file" /\ r.key = "std" THEN r.to ELSE NoPath,
          previous |-> disk[r.path].c, mark |-> Contents(disk)]

\* Mutant: a full stack keeps what it has and refuses the new checkpoint.
PushUndoCheckpoint_KeepOldest(cp) == IF Len(undo) >= MaxUndo THEN undo ELSE Append(undo, cp)

\* A full stack loses its oldest checkpoint.
PushUndoCheckpoint(cp) ==
    IF MaxUndo = 0 THEN undo ELSE Append(IF Len(undo) >= MaxUndo THEN Tail(undo) ELSE undo, cp)

\* handle_undo_command: the destination of a rename goes first, then the file is put back,
\* or removed if it did not exist.
Undone(d, cp, now) ==
    [p \in Paths |->
        IF p = cp.path THEN IF cp.previous = 0 THEN NoFile ELSE [c |-> cp.previous, m |-> now]
        ELSE IF p = cp.cleanup THEN NoFile ELSE d[p]]

(****************************************************************************)
(* The workspace                                                            *)
(****************************************************************************)
\* A write to ps is a race for every job that has read one of them and is not done with it.
Raced(js, ps) ==
    {IF j.req.path \in ps /\ j.st \in {"finger", "edit"} THEN [j EXCEPT !.raced = TRUE] ELSE j :
        j \in js}

(****************************************************************************)
(* One call                                                                 *)
(****************************************************************************)
\* send_message: the ledger is emptied first.
StartTurn(kind) ==
    /\ ~turn.on /\ turn.n < MaxTurns
    /\ turn' = [NoTurn EXCEPT !.on = TRUE, !.n = turn.n + 1, !.kind = kind]
    /\ ledger' = [p \in Paths |-> NoRead]
    /\ anchor' = NoAnchor
    /\ UNCHANGED <<disk, clock, call, jobs, cmd, undo, index, foreign, stale, spent>>

EndTurn ==
    /\ turn.on /\ call.st = "idle"
    /\ turn' = [turn EXCEPT !.on = FALSE, !.kind = "default"]
    /\ UNCHANGED <<disk, clock, call, jobs, cmd, books, spent>>

\* The turn's task is aborted at an await: the call is gone with its snapshot, a running
\* blocking task goes on, a command's dropped handle cancels it.  The scan of the index
\* awaits nothing and cannot be interrupted; the request for the embeddings can.
CancelTurn ==
    /\ turn.on /\ ~(call.req.tool = "codebase_search" /\ index.st = "building")
    /\ turn' = [turn EXCEPT !.on = FALSE, !.kind = "default"]
    /\ call' = NoCall /\ cmd' = NoCmd
    /\ jobs' = {[j EXCEPT !.late = TRUE] : j \in jobs}
    /\ foreign' = foreign \cup call.wrote
    /\ UNCHANGED <<disk, clock, undo, ledger, index, stale, anchor, spent>>

Rejected(r) == MissingLocation(r) \/ ReadOnlyConflict(r) \/ TestsOnlyConflict(r)

Propose(r) ==
    /\ turn.on /\ call.st = "idle" /\ spent.calls < MaxCalls
    /\ spent' = [spent EXCEPT !.calls = @ + 1]
    /\ call' = IF Rejected(r) THEN NoCall
               ELSE IF RequireToolApproval \/ Requires(r.tool) THEN [NoCall EXCEPT !.st = "ask", !.req = r]
               ELSE [NoCall EXCEPT !.st = "pre", !.req = r]
    /\ UNCHANGED <<disk, clock, turn, jobs, cmd, books>>

\* request_tool_approval (a closed channel answers no), then the snapshot.
Answer(yes) ==
    /\ call.st = "ask"
    /\ call' = IF yes THEN [call EXCEPT !.st = "pre", !.asked = TRUE,
                                        !.snap = CaptureUndoSnapshot(call.req)]
               ELSE NoCall
    /\ UNCHANGED <<disk, clock, turn, jobs, cmd, books, spent>>

\* The result is recorded: a checkpoint only for an Ok; a mutating tool's Ok makes
\* current_turn_has_successful_mutation true.
Settle(ok) ==
    /\ call' = NoCall /\ cmd' = NoCmd
    /\ turn' = [turn EXCEPT !.mutated = @ \/ (ok /\ call.req.tool \in Mutating)]
    /\ IF ok /\ call.snap # NoSnap
       THEN /\ undo' = PushUndoCheckpoint(call.snap)
            /\ foreign' = foreign \cup (call.wrote \ {call.snap.path, call.snap.cleanup})
       ELSE undo' = undo /\ foreign' = foreign \cup call.wrote

\* The body of the call is over.  PostTool hooks follow an Ok only.
Return(ok) ==
    IF ok THEN call' = [call EXCEPT !.st = "post"] /\ cmd' = NoCmd /\ UNCHANGED <<turn, undo, foreign>>
    ELSE Settle(FALSE)

NewJob == [req |-> call.req, st |-> "start", base |-> 0, late |-> FALSE, raced |-> FALSE,
           turn |-> turn.n, id |-> spent.calls]

\* The policy check and the PreTool hooks, then dispatch by tool.  `lets` is FALSE when a
\* failing hook with on_fail = abort ends the call, or when the search is disabled or has
\* no query, which it says before it looks at the index.
Begin(lets) ==
    /\ call.st = "pre"
    /\ IF PolicyForbids(call.req) \/ ~lets
       THEN Settle(FALSE) /\ UNCHANGED <<jobs, index, stale>>
       ELSE /\ call' = [call EXCEPT !.st = "exec"]
            /\ UNCHANGED <<turn, undo, foreign>>
            /\ CASE call.req.tool = "run_command" ->
                      /\ cmd' = [NoCmd EXCEPT !.proc = "running", !.waiter = "select"]
                      /\ UNCHANGED <<jobs, index, stale>>
                 [] call.req.tool = "codebase_search" ->
                      \* CODEBASE_INDEX.get_or_init
                      /\ IF index.st = "none"
                         THEN index' = [index EXCEPT !.st = "building", !.todo = Paths]
                         ELSE index' = index
                      /\ UNCHANGED <<jobs, cmd, stale>>
                 [] OTHER -> jobs' = jobs \cup {NewJob} /\ UNCHANGED <<cmd, index, stale>>
    /\ UNCHANGED <<disk, clock, ledger, anchor, spent>>

\* PostTool hooks: an abort turns the Ok of a finished mutation into an error.
PostTool(hookOk) ==
    /\ call.st = "post"
    /\ Settle(hookOk)
    /\ UNCHANGED <<disk, clock, jobs, ledger, index, stale, anchor, spent>>

(****************************************************************************)
(* Blocking tasks (routing.rs, file_ops.rs).  A task whose call timed out   *)
(* goes on as a late one.                                                   *)
(****************************************************************************)
\* The task goes on as k.
Becomes(j, k) == jobs' = (jobs \ {j}) \cup {k}

\* The task ends; the call that waits for it gets the result, a late one's goes nowhere.
JobReturns(j, ok) ==
    /\ jobs' = jobs \ {j}
    /\ IF j.late THEN UNCHANGED <<call, cmd, turn, undo, foreign>> ELSE Return(ok)

\* The task writes d, which differs from disk on ps, and goes on to refresh the index.
JobWrites(j, d, ps, gone, a) ==
    /\ disk' = d /\ clock' = clock + 1
    /\ jobs' = Raced(jobs \ {j}, ps) \cup {[j EXCEPT !.st = "refresh"]}
    /\ IF j.late
       THEN foreign' = foreign \cup ps /\ UNCHANGED <<call, turn>>
       ELSE /\ call' = [call EXCEPT !.wrote = @ \cup ps]
            /\ turn' = [turn EXCEPT !.wrote = TRUE]
            /\ foreign' = foreign \cup gone
    \* a refresh finds no index while one is being built
    /\ stale' = IF index.st = "building" THEN stale \cup ps ELSE stale
    /\ anchor' = a
    /\ UNCHANGED <<cmd, undo, ledger, index>>

\* read_file: the content is read first, its fingerprint taken afterwards.
JobRead(j) ==
    /\ j.req.tool = "read_file"
    /\ IF j.req.key = "alt" \/ disk[j.req.path].c = 0
       THEN JobReturns(j, FALSE) /\ UNCHANGED <<disk, clock, ledger, index, stale, anchor>>
       ELSE /\ Becomes(j, [j EXCEPT !.st = "finger", !.base = disk[j.req.path].c])
            /\ UNCHANGED <<disk, clock, call, turn, cmd, books>>

\* record_pulse_read: one entry per path.  What the cap of 64 entries forgets is as good as a
\* read that is not near any occurrence.
RecordPulseRead(p, e) == [ledger EXCEPT ![p] = e]

\* The fingerprint is that of the file as it is now; a file that has gone records nothing.
JobFinger(j) ==
    /\ j.st = "finger"
    /\ LET p == j.req.path IN
       ledger' = IF disk[p].c = 0 THEN ledger
                 ELSE RecordPulseRead(p, [m |-> disk[p].m, seen |-> j.base, turn |-> j.turn,
                                          raced |-> j.raced, late |-> j.late])
    /\ JobReturns(j, TRUE)
    /\ UNCHANGED <<disk, clock, index, stale, anchor>>

\* write_file and apply_patch: the first only proposes a patch for a file that exists.
JobOverwrite(j) ==
    /\ j.req.tool \in {"write_file", "apply_patch"}
    /\ LET p == j.req.path IN
       IF j.req.key = "alt"
       THEN JobReturns(j, FALSE) /\ UNCHANGED <<disk, clock, ledger, index, stale, anchor>>
       ELSE IF j.req.tool = "write_file" /\ disk[p].c # 0
       THEN /\ Becomes(j, [j EXCEPT !.st = "refresh"])
            /\ turn' = IF j.late THEN turn ELSE [turn EXCEPT !.proposed = TRUE]
            /\ UNCHANGED <<disk, clock, call, cmd, books>>
       ELSE JobWrites(j, [disk EXCEPT ![p] = [c |-> clock + 1, m |-> clock + 1]], {p}, {}, anchor)

\* edit_file reads the file, then decides and writes.
JobEditRead(j) ==
    /\ j.req.tool = "edit_file"
    /\ IF disk[j.req.path].c = 0
       THEN JobReturns(j, FALSE) /\ UNCHANGED <<disk, clock, ledger, index, stale, anchor>>
       ELSE /\ Becomes(j, [j EXCEPT !.st = "edit", !.base = disk[j.req.path].c])
            /\ UNCHANGED <<disk, clock, call, turn, cmd, books>>

\* Mutant: an entry for the path is enough, whatever the file's fingerprint says.
FindPulseRead_AnyAge(p) == ledger[p] # NoRead

\* find_pulse_read: an entry whose fingerprint is the file's own.
FindPulseRead(p) == ledger[p] # NoRead /\ disk[p].c # 0 /\ ledger[p].m = disk[p].m

\* anchored_unique_replacement: exactly one of the occurrences lies near the located read.
AnchoredUnique(occ, near, found) == occ > 1 /\ near = 1 /\ found

\* occ: occurrences of old_str; near: those within the window around the located read.
JobEdit(j, occ, near) ==
    /\ j.st = "edit"
    /\ LET p == j.req.path
           e == ledger[p]
           new == [disk EXCEPT ![p] = [c |-> clock + 1, m |-> clock + 1]]
       IN IF occ = 1
          THEN JobWrites(j, new, {p}, {}, anchor)
          ELSE IF AnchoredUnique(occ, near, FindPulseRead(p))
          THEN JobWrites(j, new, {p}, {},
                   [seen |-> e.seen, base |-> j.base, raced |-> j.raced \/ e.raced,
                    readIn |-> e.turn, editIn |-> j.turn, late |-> j.late \/ e.late])
          ELSE JobReturns(j, FALSE) /\ UNCHANGED <<disk, clock, ledger, index, stale, anchor>>

\* rename_file: rename(2) moves content and modification time and replaces what was there,
\* which no checkpoint remembers.
JobRename(j) ==
    /\ j.req.tool = "rename_file"
    /\ LET p == j.req.path
           q == j.req.to
       IN IF disk[p].c = 0
          THEN JobReturns(j, FALSE) /\ UNCHANGED <<disk, clock, ledger, index, stale, anchor>>
          ELSE IF p = q
          THEN /\ Becomes(j, [j EXCEPT !.st = "refresh"])
               /\ turn' = IF j.late THEN turn ELSE [turn EXCEPT !.proposed = TRUE]
               /\ UNCHANGED <<disk, clock, call, cmd, books>>
          ELSE JobWrites(j, [disk EXCEPT ![q] = disk[p], ![p] = NoFile], {p, q},
                         IF disk[q].c # 0 THEN {q} ELSE {}, anchor)

JobStart(j) == j.st = "start" /\ (JobRead(j) \/ JobOverwrite(j) \/ JobEditRead(j) \/ JobRename(j))

RefreshedPaths(r) == {r.path, r.to} \ {NoPath}

\* update_index_filtered: the chunks of a path are replaced by those of the file as it is.
UpdateIndex(ps) == [p \in Paths |-> IF p \in ps THEN disk[p].c ELSE index.of[p]]

\* refresh_codebase_index, a no-op until the index exists.
JobRefresh(j) ==
    /\ j.st = "refresh"
    /\ LET ps == RefreshedPaths(j.req) IN
       IF index.st # "built" THEN UNCHANGED <<index, stale>>
       ELSE /\ index' = [index EXCEPT !.of = UpdateIndex(ps)]
            /\ stale' = stale \ ps
    /\ JobReturns(j, TRUE)
    /\ UNCHANGED <<disk, clock, ledger, anchor>>

JobStep(j) ==
    /\ spent' = spent
    /\ \/ JobStart(j) \/ JobFinger(j) \/ JobRefresh(j)
       \/ \E occ \in {0, 1, 2}, near \in {0, 1} : JobEdit(j, occ, near)

\* The timeout of a blocking call: abort() takes a task that no thread has picked up, and
\* has no effect on one that is running.
JobTimeout(j, queued) ==
    /\ call.st = "exec" /\ ~j.late
    /\ queued => j.st = "start"
    /\ jobs' = (jobs \ {j}) \cup (IF queued THEN {} ELSE {[j EXCEPT !.late = TRUE]})
    /\ Settle(FALSE)
    /\ UNCHANGED <<disk, clock, ledger, index, stale, anchor, spent>>

(****************************************************************************)
(* codebase_search: the index is built file by file on first use            *)
(****************************************************************************)
ScanFile(p) ==
    /\ index.st = "building" /\ p \in index.todo
    /\ index' = [index EXCEPT !.todo = @ \ {p}, !.of[p] = disk[p].c]
    /\ UNCHANGED <<disk, clock, turn, call, jobs, cmd, undo, ledger, foreign, stale, anchor, spent>>

\* The index is there and a copy of it has been searched.  Where no embedding provider is
\* configured that is the result, where the configuration is broken (or the index's lock
\* poisoned) the call fails; otherwise the provider is asked to embed query and chunks.
Search ==
    /\ call.st = "exec" /\ call.req.tool = "codebase_search" /\ index.todo = {}
    /\ index' = [index EXCEPT !.st = "built"]
    /\ \/ \E ok \in BOOLEAN : Return(ok)
       \/ call' = [call EXCEPT !.st = "embed"] /\ UNCHANGED <<cmd, turn, undo, foreign>>
    /\ UNCHANGED <<disk, clock, jobs, ledger, stale, anchor, spent>>

\* semantic_search: the provider's answer, or an error of the request.  Neither the client
\* nor the call has a timeout, so it may never come.
EmbeddingAnswers(ok) ==
    /\ call.st = "embed"
    /\ Return(ok)
    /\ UNCHANGED <<disk, clock, jobs, ledger, index, stale, anchor, spent>>

(****************************************************************************)
(* run_command (tools/mod.rs, runtime/command.rs)                           *)
(****************************************************************************)
CommandOn == call.st = "exec" /\ call.req.tool = "run_command"

\* The process ends; a background descendant may keep its output pipes open.
CommandExits(held) ==
    /\ CommandOn /\ cmd.proc = "running"
    /\ cmd' = [cmd EXCEPT !.proc = "exited", !.held = held]
    /\ UNCHANGED <<disk, clock, turn, call, jobs, books, spent>>

\* A process may also close its outputs and go on: the output loop ends with the channel.
CommandClosesOutput ==
    /\ CommandOn /\ cmd.proc = "running" /\ ~cmd.eof
    /\ cmd' = [cmd EXCEPT !.eof = TRUE]
    /\ UNCHANGED <<disk, clock, turn, call, jobs, books, spent>>

\* The sleep of the output loop, which cancels once; handle.wait() after the loop has none.
CommandTimeout ==
    /\ CommandOn /\ ~cmd.cancel /\ ~cmd.eof
    /\ cmd' = [cmd EXCEPT !.cancel = TRUE]
    /\ UNCHANGED <<disk, clock, turn, call, jobs, books, spent>>

\* Mutant: a cancellation is noticed but the process group is left alone.
Cancelled_NoKill == cmd.cancel /\ cmd' = [cmd EXCEPT !.waiter = "drain"]

\* The waiter's select takes the cancellation: the group is killed, the readers aborted.
Cancelled == cmd.cancel /\ cmd' = [cmd EXCEPT !.waiter = "ended", !.proc = "exited", !.held = FALSE]

\* The waiter leaves its select for good on whichever is first; after an exit it awaits
\* the readers.
CommandWaiter ==
    /\ CommandOn
    /\ \/ cmd.waiter = "select" /\ Cancelled
       \/ cmd.waiter = "select" /\ cmd.proc = "exited" /\ cmd' = [cmd EXCEPT !.waiter = "drain"]
       \/ cmd.waiter = "drain" /\ cmd.proc = "exited" /\ ~cmd.held /\ cmd' = [cmd EXCEPT !.waiter = "ended"]
    /\ UNCHANGED <<disk, clock, turn, call, jobs, books, spent>>

\* The output channel has closed and the completion arrived.
CommandReturns ==
    /\ CommandOn /\ cmd.waiter = "ended"
    /\ Return(~cmd.cancel)
    /\ UNCHANGED <<disk, clock, jobs, ledger, index, stale, anchor, spent>>

(****************************************************************************)
(* The user, and the rest of the machine                                    *)
(****************************************************************************)
\* /undo pops a checkpoint when no turn holds the conversation; it does not refresh the
\* index.
Undo ==
    /\ ~turn.on /\ undo # <<>>
    /\ LET cp == undo[Len(undo)] IN
       /\ disk' = Undone(disk, cp, clock + 1)
       /\ clock' = clock + 1
       /\ stale' = stale \cup ({cp.path, cp.cleanup} \ {NoPath})
       /\ jobs' = Raced(jobs, {cp.path, cp.cleanup})
    /\ undo' = SubSeq(undo, 1, Len(undo) - 1)
    /\ UNCHANGED <<turn, call, cmd, ledger, index, foreign, anchor, spent>>

\* An editor, or a command of the agent's own, writes a file.
OutsideEdit(p) ==
    /\ spent.outside < MaxExternal
    /\ spent' = [spent EXCEPT !.outside = @ + 1]
    /\ disk' = [disk EXCEPT ![p] = [c |-> clock + 1, m |-> clock + 1]]
    /\ clock' = clock + 1
    /\ foreign' = foreign \cup {p}
    /\ stale' = stale \cup {p}
    /\ jobs' = Raced(jobs, {p})
    /\ UNCHANGED <<turn, call, cmd, undo, ledger, index, anchor>>

ToolInit ==
    /\ disk = [p \in Paths |-> IF p \in InitFiles THEN [c |-> 1, m |-> 1] ELSE NoFile]
    /\ clock = 1
    /\ turn = NoTurn /\ call = NoCall /\ jobs = {} /\ cmd = NoCmd
    /\ undo = <<>> /\ ledger = [p \in Paths |-> NoRead]
    /\ index = [st |-> "none", todo |-> {}, of |-> [p \in Paths |-> 0]]
    /\ foreign = {} /\ stale = {} /\ anchor = NoAnchor
    /\ spent = [calls |-> 0, outside |-> 0]

ToolNext ==
    \/ \E r \in Asked : Propose(r)
    \/ \E b \in BOOLEAN :
          Answer(b) \/ Begin(b) \/ PostTool(b) \/ CommandExits(b) \/ EmbeddingAnswers(b)
    \/ \E j \in jobs : JobStep(j) \/ \E q \in BOOLEAN : JobTimeout(j, q)
    \/ \E p \in Paths : ScanFile(p) \/ OutsideEdit(p)
    \/ Search \/ CommandClosesOutput \/ CommandTimeout \/ CommandWaiter \/ CommandReturns
    \/ Undo

\* Timers fire, the scan goes on, the waiter task is scheduled; nothing makes a hook, a
\* process or an embedding provider answer.
ToolFairness ==
    /\ WF_toolVars(\E j \in jobs : JobTimeout(j, FALSE))
    /\ WF_toolVars(\E p \in Paths : ScanFile(p))
    /\ WF_toolVars(Search) /\ WF_toolVars(CommandTimeout)
    /\ WF_toolVars(CommandWaiter) /\ WF_toolVars(CommandReturns)

=============================================================================
