------------------------------ MODULE EditLoop ------------------------------
(* The deterministic edit loop (runtime/edit_loop.rs) on top of the tool      *)
(* machinery: a bounded number of pulses, each a whole turn of the            *)
(* conversation, a validation run after a pulse that changed something.  The  *)
(* user's own turns and /undo run when the loop does not.                     *)
EXTENDS ToolExecution

CONSTANT MaxPulses      \* max_turns of the loop, after clamp_turns

ASSUME PulsesAssumption == MaxPulses \in Nat \ {0}

VARIABLE loop

vars == <<toolVars, loop>>

NoLoop == [st |-> "off", pulse |-> 0, stop |-> TRUE, last |-> "none",
           outcome |-> "none"]

\* A turn of the user's.
UserTurn(kind) ==
    /\ loop.st = "off"
    /\ StartTurn(kind)
    /\ loop' = loop

UserTurnEnds == loop.st = "off" /\ (EndTurn \/ CancelTurn) /\ loop' = loop

\* EditLoop::run
LoopStarts(stop) ==
    /\ loop.st = "off" /\ ~turn.on /\ loop.outcome = "none"
    /\ loop' = [loop EXCEPT !.st = "pulse", !.pulse = 0, !.stop = stop]
    /\ UNCHANGED toolVars

Ends(outcome) == loop' = [loop EXCEPT !.st = "off", !.stop = TRUE, !.outcome = outcome]

\* The head of the for loop: the limit, the cancellation, then drive_edit_turn.  The token
\* is only ever read here and after a turn, so a cancellation is a choice made there.
LoopPulse(cancelled) ==
    /\ loop.st = "pulse"
    /\ IF loop.pulse = MaxPulses THEN Ends("max_turns") /\ UNCHANGED toolVars
       ELSE IF cancelled THEN Ends("cancelled") /\ UNCHANGED toolVars
       ELSE /\ StartTurn("default")
            /\ loop' = [loop EXCEPT !.st = "driving", !.pulse = @ + 1]

\* A failed turn is retried before the cancellation is looked at; a turn that changed
\* nothing is retried without validation.
AfterTurn(ok, cancelled) ==
    IF ~ok THEN loop' = [loop EXCEPT !.st = "pulse"]
    ELSE IF cancelled THEN Ends("cancelled")
    ELSE loop' = [loop EXCEPT !.st = IF turn.mutated THEN "validate" ELSE "pulse"]

LoopTurnEnds(ok, cancelled) ==
    /\ loop.st = "driving"
    /\ EndTurn
    /\ AfterTurn(ok, cancelled)

\* A validation command's exit code; one that cannot be wrapped or started, or that times
\* out, has code -1.
ExitCodes == {-1, 0, 1}

\* run_in_dir_with_sandbox: no command at all, or only exit codes 0, is a pass.
Passed(codes) == codes \subseteq {0}

Validate(codes) ==
    /\ loop.st = "validate"
    /\ LET passed == Passed(codes) IN
       loop' = [loop EXCEPT !.last = IF passed THEN "pass" ELSE "fail",
                            !.st = IF passed /\ loop.stop THEN "off" ELSE "pulse",
                            !.outcome = IF passed /\ loop.stop THEN "success" ELSE @]
    /\ UNCHANGED toolVars

Init == ToolInit /\ loop = NoLoop

Next ==
    \/ ToolNext /\ (Undo => loop.st = "off") /\ loop' = loop
    \/ \E kind \in TurnKinds : UserTurn(kind)
    \/ UserTurnEnds
    \/ \E b, c \in BOOLEAN : LoopTurnEnds(b, c)
    \/ \E b \in BOOLEAN : LoopStarts(b) \/ LoopPulse(b)
    \/ \E codes \in SUBSET ExitCodes : Validate(codes)

Spec == Init /\ [][Next]_vars /\ ToolFairness

(****************************************************************************)
(* Properties                                                               *)
(****************************************************************************)
Job == [req : Requests, st : {"start", "finger", "edit", "refresh"}, base : Nat, late : BOOLEAN,
        raced : BOOLEAN, turn : Nat, id : Nat]

\* The state is well formed and at most one running task belongs to the call in progress.
TypeOK ==
    /\ disk \in [Paths -> [c : Nat, m : Nat]]
    /\ \A j \in jobs : j \in Job
    /\ call.st \in {"idle", "ask", "pre", "exec", "embed", "post"}
    /\ index.st \in {"none", "building", "built"} /\ index.todo \subseteq Paths
    /\ loop.pulse \in 0..MaxPulses /\ loop.st \in {"off", "pulse", "driving", "validate"}
    /\ Cardinality({j \in jobs : ~j.late}) <= 1

\* /undo brings back what the last successful change replaced: between calls, undoing the
\* newest checkpoint gives every file the content it had when that call began, except the
\* files something without a checkpoint has changed (handle_undo_command,
\* capture_undo_snapshot, push_undo_checkpoint).
UndoRestores ==
    undo # <<>> /\ call.st = "idle" =>
        LET cp == undo[Len(undo)] IN
        \A p \in Paths \ foreign : Undone(disk, cp, clock)[p].c = cp.mark[p]

\* The codebase index agrees with the workspace for every file whose change a task has
\* finished with, except those changed by /undo, from outside, or while the index was being
\* built (refresh_codebase_index, CODEBASE_INDEX.get_or_init).
IndexFollows ==
    index.st = "built" =>
        \A p \in Paths :
            \/ index.of[p] = disk[p].c
            \/ p \in stale
            \/ \E j \in jobs : j.st = "refresh" /\ p \in {j.req.path, j.req.to}

\* An ambiguous edit is placed by a located read only if the model saw, in the same turn,
\* exactly the content being edited, unless the file changed between a read and its
\* fingerprint or a timed-out call's task is involved (anchored_unique_replacement,
\* find_pulse_read, clear_pulse_ledger).
AnchoredEditSawIt ==
    ~anchor.raced /\ ~anchor.late =>
        anchor.seen = anchor.base /\ anchor.readIn = anchor.editIn

\* A tool changes a file only for an approved call, in a turn that is neither read-only nor
\* chat nor plan, and outside a tests-only turn's ban, unless it is the task of a call that
\* timed out: such a task writes whenever it gets there (tools/mod.rs).
WritesAreSanctioned ==
    [][disk' # disk =>
          \A j \in jobs : ([j EXCEPT !.st = "refresh"] \in jobs' \ jobs /\ ~j.late) =>
             /\ turn.on /\ call.asked /\ turn.kind \in {"default", "tests_only"}
             /\ turn.kind = "tests_only" =>
                    \A p \in Paths : disk'[p] # disk[p] => p \in TestPaths]_vars

\* The edit loop validates, and so succeeds, only after a turn that ended well and really
\* changed a file, a turn whose only mutation was write_file's proposal for an existing file
\* (or a rename onto itself) being counted as well (current_turn_has_successful_mutation).
ValidatesAChange ==
    loop.st = "validate" => (turn.wrote \/ turn.proposed) /\ ~turn.on

\* A call that is being executed comes back: its timeout, or the scan's end, sees to it.
\* Three calls escape: a command whose process exited while a descendant holds its pipes, one
\* whose process closed its outputs and runs on (tools/mod.rs, runtime/command.rs), and a
\* search that waits for the embedding provider, which has no timeout (tools/embed.rs).
CallReturns ==
    (call.st = "exec") ~> (call.st \in {"idle", "post", "embed"} \/ cmd.held \/ cmd.eof)

\* The workspace as the tools know it: the index follows the files, an anchored edit was seen
\* by the model, and the edit loop validates a change.
WorkspaceKnown == TypeOK /\ IndexFollows /\ AnchoredEditSawIt /\ ValidatesAChange

\* A call keeps within its bounds: it writes only what its turn sanctions, and it returns.
CallsKeepBounds == WritesAreSanctioned /\ CallReturns
=============================================================================
