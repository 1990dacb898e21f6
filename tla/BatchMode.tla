------------------------------- MODULE BatchMode -------------------------------
(***************************************************************************)
(* One unattended task: `vex exec` (src/exec.rs) around run_batch and      *)
(* BatchMode (src/batch_mode.rs).  The turn sends its updates through a    *)
(* channel; BatchMode folds them into the record it prints.  The same      *)
(* updates are given to the normalizer, as the local API does, so that     *)
(* the two reports of one turn can be compared.                            *)
(*                                                                         *)
(* A changed file is named by the tool that changed it.                    *)
(***************************************************************************)
EXTENDS Integers, Sequences, FiniteSets, EnvelopeNormalizer, TurnUpdates

CONSTANTS Tools,        \* tools the model may call
          GuardedTools, \* the ones that ask for approval
          MaxEvents     \* bound: texts and tool calls of one turn

VARIABLES exec,     \* the command line: opts of the run and its input
          batch,    \* BatchMode
          queue,    \* update_tx -> update_rx
          pulse,    \* the spawned turn: phase, call in hand, answer, events so far
          report,   \* the normalizer fed with the same updates
          ran,      \* calls the turn executed
          exit      \* the process's exit code

batchVars == <<exec, batch, queue, pulse, report, ran, exit>>

(***************************************************************************)
(* parse_exec_command and run_exec: the options.  A bad --auto-approve or  *)
(* --format, or no task at all, ends the process before anything starts.   *)
(***************************************************************************)
ParseExecCommand(args) ==
    IF args.task = "none" \/ args.approve = "other" \/ args.format = "other" THEN "refused"
    ELSE "runs"

RunOpts(args) ==
    [maxTurns |-> args.maxTurns, format |-> args.format, input |-> args.task,
     approve |-> args.approve # "none" \/ args.force]

Args == [task : {"none", "text", "memory_clear"}, approve : {"none", "once", "other"},
         force : BOOLEAN, format : {"jsonl", "text", "other"}, maxTurns : {-1, 0, 1}]
NoLimit == -1

NewBatch(opts) ==
    [status |-> "ready", inTurn |-> FALSE, done |-> FALSE, opts |-> opts, said |-> <<>>,
     turns |-> 0, files |-> {}, open |-> {}, taskFiles |-> {}, evidence |-> <<>>,
     pending |-> EmptyMap, lines |-> <<>>]

NoPulse == [phase |-> "none", call |-> 0, answer |-> "none", events |-> 0]

BatchInit ==
    /\ exec \in Args
    /\ batch = NewBatch(RunOpts(exec)) /\ queue = <<>> /\ pulse = NoPulse
    /\ report = NewNormalizer(EmptyMap) /\ ran = <<>> /\ exit = "none"

(***************************************************************************)
(* BatchMode                                                               *)
(***************************************************************************)
ResetTurnState(b) ==
    [b EXCEPT !.said = <<>>, !.files = {}, !.open = {}, !.evidence = <<>>, !.pending = EmptyMap]

TurnLine(b) == [summary |-> FALSE, said |-> b.said, files |-> b.files, evidence |-> b.evidence,
                turns |-> b.turns, status |-> ""]
SummaryLine(b) == [summary |-> TRUE, said |-> <<>>, files |-> b.taskFiles, evidence |-> <<>>,
                   turns |-> b.turns, status |-> b.status]

BatchFinishTurn(b) ==
    LET c == [b EXCEPT !.turns = @ + 1, !.taskFiles = @ \cup b.files]
    IN  [c EXCEPT !.lines = Append(@, TurnLine(c)), !.said = <<>>, !.evidence = <<>>,
                  !.inTurn = FALSE, !.open = {}, !.pending = EmptyMap]

\* Mutant: the summary is appended before the status is set.
EndWith_BeforeStatus(b, status) ==
    [b EXCEPT !.lines = IF b.opts.format = "jsonl" THEN Append(@, SummaryLine(b)) ELSE @,
              !.status = status, !.done = TRUE, !.inTurn = FALSE]

\* The status is set, then append_summary, then done.
EndWith(b, status) ==
    LET c == [b EXCEPT !.status = status]
    IN  [c EXCEPT !.lines = IF c.opts.format = "jsonl" THEN Append(@, SummaryLine(c)) ELSE @,
                  !.done = TRUE, !.inTurn = FALSE]

\* complete_without_model and fail_without_model
WithoutModel(b, status) ==
    EndWith(BatchFinishTurn([ResetTurnState(b) EXCEPT !.said = <<"memory">>]), status)

\* try_handle_batch_memory_clear; clearing the file may fail.
MemoryClear(b, cleared) ==
    WithoutModel(b, IF b.opts.approve /\ cleared THEN "completed" ELSE "failed")

LimitReached(b) == b.opts.maxTurns # NoLimit /\ b.turns >= b.opts.maxTurns

BatchOnUserInput(b, cleared) ==
    IF LimitReached(b) THEN EndWith(b, "max_turns")
    ELSE IF b.opts.input = "memory_clear" THEN MemoryClear(b, cleared)
    ELSE [ResetTurnState(b) EXCEPT !.status = "running", !.inTurn = TRUE]

NoteResult(b, id, err) ==
    IF id \notin DOMAIN b.pending THEN b
    ELSE [b EXCEPT !.files = IF err THEN @ ELSE @ \cup ({b.pending[id]} \cap FileTools),
                   !.evidence = IF b.pending[id] \in EvidenceTools
                                THEN Append(@, [tool |-> b.pending[id], err |-> err]) ELSE @,
                   !.pending = Drop(@, id)]

ErrorStatus == "failed"

BatchOnModelUpdate(b, u) ==
    CASE u.k = "delta" -> [b EXCEPT !.said = @ \o u.v]
      [] u.k = "complete" -> EndWith(BatchFinishTurn(b), "completed")
      [] u.k = "error" ->
           EndWith(BatchFinishTurn([b EXCEPT !.said = Append(@, "error")]), ErrorStatus)
      [] u.k = "block" /\ u.v.k \in {"thinking", "final"} ->
           [b EXCEPT !.open = @ \cup {u.i}, !.said = @ \o u.v.text]
      [] u.k = "block" /\ u.v.k = "call" -> [b EXCEPT !.pending = Put(@, u.v.id, u.v.name)]
      [] u.k = "block" /\ u.v.k = "result" -> NoteResult(b, u.v.id, u.v.err)
      [] u.k = "block_delta" -> IF u.i \in b.open THEN [b EXCEPT !.said = @ \o u.v] ELSE b
      [] u.k = "block_complete" -> [b EXCEPT !.open = @ \ {u.i}]
      [] OTHER -> b

ApprovalDecision(b) == IF b.opts.approve THEN "yes" ELSE "no"

\* The local API's view of the same update.
Normalized(n, u) ==
    CASE u.k = "delta" -> StreamDelta(n, u.v)
      [] u.k = "complete" -> FinishTurn(n, "completed", {})
      [] u.k = "error" -> EmitError(n, FALSE, {})
      [] u.k = "block" -> StreamBlockStart(n, u.i, u.v)
      [] u.k = "block_delta" -> StreamBlockDelta(n, u.i, u.v)
      [] u.k = "block_complete" -> StreamBlockComplete(n, u.i)
      [] u.k = "ask" -> ApprovalAsked(n, u.v)
      [] OTHER -> n

(***************************************************************************)
(* run_batch                                                               *)
(***************************************************************************)
ExitCode(status) == IF status = "completed" THEN "success" ELSE "failure"

Refused ==
    /\ exit = "none" /\ ParseExecCommand(exec) = "refused"
    /\ exit' = "failure"
    /\ UNCHANGED <<exec, batch, queue, pulse, report, ran>>

GivesTask ==
    /\ exit = "none" /\ ParseExecCommand(exec) = "runs" /\ batch.status = "ready"
    /\ \E cleared \in BOOLEAN : batch' = BatchOnUserInput(batch, cleared)
    /\ pulse' = IF batch'.inTurn THEN [pulse EXCEPT !.phase = "running"] ELSE pulse
    /\ report' = IF batch'.inTurn THEN StartPulse(report, 1, EmptyMap) ELSE report
    /\ UNCHANGED <<exec, queue, ran, exit>>

TakesUpdate ==
    /\ batch.inTurn /\ queue # <<>>
    /\ LET u == Head(queue)
       IN  /\ batch' = BatchOnModelUpdate(batch, u)
           /\ report' = Normalized(report, u)
           /\ pulse' = IF u.k = "ask" THEN [pulse EXCEPT !.answer = ApprovalDecision(batch)]
                       ELSE pulse
    /\ queue' = Tail(queue)
    /\ UNCHANGED <<exec, ran, exit>>

\* shutdown_resources, the output and the exit code; a failing write of --output is an error.
BatchReturns ==
    /\ exit = "none" /\ batch.done
    /\ exit' \in {ExitCode(batch.status), "failure"}
    /\ UNCHANGED <<exec, batch, queue, pulse, report, ran>>

Exited == exit # "none" /\ UNCHANGED batchVars

(***************************************************************************)
(* The turn, up to its updates.                                            *)
(***************************************************************************)
BatchSends(updates) == queue' = queue \o updates

Talks ==
    /\ pulse.phase = "running" /\ pulse.events < MaxEvents
    /\ \/ BatchSends(TextUpdate(<<"text">>)) \/ BatchSends(ThinkingBlock(<<"thought">>))
       \/ BatchSends(StreamError)
    /\ pulse' = [pulse EXCEPT !.events = @ + 1]
    /\ UNCHANGED <<exec, batch, report, ran, exit>>

BatchCall == [id |-> pulse.events, name |-> pulse.call]

BatchCallsTool ==
    /\ pulse.phase = "running" /\ pulse.events < MaxEvents
    /\ \E tool \in Tools :
         LET call == [id |-> pulse.events + 1, name |-> tool]
         IN  /\ BatchSends(CallStreamed(call) \o SetToolCallStatus(call)
                        \o IF tool \in GuardedTools THEN ApprovalAsk(tool) ELSE <<>>)
             /\ pulse' = [phase |-> IF tool \in GuardedTools THEN "asking" ELSE "calling",
                          call |-> tool, answer |-> "none", events |-> pulse.events + 1]
    /\ UNCHANGED <<exec, batch, report, ran, exit>>

BatchAnswered ==
    /\ pulse.phase = "asking" /\ pulse.answer # "none"
    /\ IF pulse.answer = "yes"
       THEN pulse' = [pulse EXCEPT !.phase = "calling"] /\ UNCHANGED queue
       ELSE /\ BatchSends(SetToolCallStatus(BatchCall) \o PushToolResultBlock(BatchCall, TRUE))
            /\ pulse' = [pulse EXCEPT !.phase = "running"]
    /\ UNCHANGED <<exec, batch, report, ran, exit>>

BatchExecutes ==
    /\ pulse.phase = "calling"
    /\ \E err \in BOOLEAN :
         /\ BatchSends(SetToolCallStatus(BatchCall) \o PushToolResultBlock(BatchCall, err))
         /\ ran' = Append(ran, [tool |-> pulse.call, err |-> err])
    /\ pulse' = [pulse EXCEPT !.phase = "running"]
    /\ UNCHANGED <<exec, batch, report, exit>>

EndsPulse ==
    /\ pulse.phase = "running"
    /\ BatchSends(PulseComplete) \/ BatchSends(PromoteThinkingBlock \o PulseComplete) \/ BatchSends(PulseError)
    /\ pulse' = [pulse EXCEPT !.phase = "ended"]
    /\ UNCHANGED <<exec, batch, report, ran, exit>>

TurnMoves == Talks \/ BatchCallsTool \/ BatchAnswered \/ BatchExecutes \/ EndsPulse
BatchMoves == Refused \/ GivesTask \/ TakesUpdate \/ BatchReturns
BatchNext == TurnMoves \/ BatchMoves \/ Exited
BatchFairness == WF_batchVars(BatchMoves) /\ WF_batchVars(TurnMoves)

(***************************************************************************)
(* Properties.                                                             *)
(***************************************************************************)
BatchTypeOK ==
    /\ exec \in Args /\ exit \in {"none", "success", "failure"}
    /\ batch.status \in {"ready", "running", "completed", "failed", "max_turns"}
    /\ batch.turns \in 0..1 /\ batch.files \subseteq FileTools
    /\ pulse.phase \in {"none", "running", "asking", "calling", "ended"}
    /\ pulse.events \in 0..MaxEvents /\ pulse.answer \in {"none", "yes", "no"}

Summaries == SelectSeq(batch.lines, LAMBDA l : l.summary)

\* What the machine-readable output says of the run (append_summary, finish_turn,
\* exit_code_for_status): one summary, the last line, which counts the turn records before
\* it, unites their files and names the status the exit code is computed from.
SummaryTells ==
    batch.done /\ batch.opts.format = "jsonl" =>
        LET last == batch.lines[Len(batch.lines)]
        IN  /\ Len(Summaries) = 1 /\ last.summary
            /\ last.turns = Len(batch.lines) - 1
            /\ last.files = UNION {batch.lines[k].files : k \in 1 .. Len(batch.lines) - 1}
            /\ exit = "success" => last.status = "completed"

\* A mutating tool runs unattended only under --auto-approve or the force setting
\* (approval_decision), a limit of zero turns runs nothing, and the process succeeds only
\* if its turn reached its end or the notes were cleared with that consent.
ConsentedOnly ==
    /\ (\E k \in 1..Len(ran) : ran[k].tool \in GuardedTools)
          => exec.approve = "once" \/ exec.force
    /\ exec.maxTurns = 0 => ran = <<>> /\ pulse.phase = "none"
    /\ exit = "success" /\ exec.task = "memory_clear" => exec.approve = "once" \/ exec.force

Unfailed(tools) == {ran[k].tool : k \in {j \in 1..Len(ran) : ~ran[j].err}} \cap tools

\* The record of a turn names the files its successful calls changed, all of them if the
\* turn's updates were read to the last (after an error inside the stream they are not), and
\* has one entry of evidence per git command it ran or was refused, and derive_batch_records
\* reads the same back from the envelopes the local API would have sent for these updates.
RecordsAgree ==
    batch.done /\ pulse.phase # "none" =>
        LET line == batch.lines[1]
            derived == DeriveBatchRecords(report.out)
        IN  /\ line.files \subseteq Unfailed(FileTools)
            /\ queue = <<>> => line.files = Unfailed(FileTools)
            /\ Len(derived.records) = batch.turns
            /\ derived.files = batch.taskFiles
            /\ derived.records[1].files = line.files
            /\ derived.records[1].evidence = Len(line.evidence)
            /\ (derived.status = "completed") = (batch.status = "completed")

\* An unattended run ends: every request for approval is answered by on_model_update itself
\* (there is nobody to ask), so that a turn that goes on always reaches its end.
BatchEnds == batch.inTurn ~> exit # "none"
=============================================================================
