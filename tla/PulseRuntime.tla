---------------------------- MODULE PulseRuntime ----------------------------
(***************************************************************************)
(* The interactive runtime around the conversation: TuiMode (what the user *)
(* sees: one active pulse, its command sessions, the approval overlay),    *)
(* RuntimeContext (the unbounded update channel, the root cancellation     *)
(* token, the mutex around ConversationManager) and the tasks it spawns:   *)
(* per turn a driver and the send task it watches, per inline !command one *)
(* command task.                                                           *)
(*                                                                         *)
(* Updates carry no turn identity: PulseComplete and Error act on whatever *)
(* pulse is open when they are handled.  The model keeps the identity as   *)
(* a ghost (pulse.owner, the id of an update) that no action reads except  *)
(* to route an approval answer through its one-shot channel.               *)
(*                                                                         *)
(* Abstractions.  Text, blocks and usage updates change no state modelled  *)
(* here and are left out.  send_message_with_policy is the sequence of its *)
(* effects on this layer (it asks for approval, runs a tool or a command   *)
(* session, reports an error event of the stream, ends); ConversationTurn  *)
(* has its inside.  Waiters of the tokio mutex are served in any order,    *)
(* which includes its FIFO order.                                          *)
(***************************************************************************)
EXTENDS Integers, Sequences, FiniteSets

CONSTANTS
    MaxTurns,       \* bound: turns the user starts
    MaxCommands,    \* bound: inline !commands that are started
    MaxCancels,     \* bound: interrupts of an open pulse
    MaxAsks,        \* bound: approval requests of one turn
    MaxErrors,      \* bound: error events the endpoint sends inside one turn
    ToolCommands,   \* do turns run the run_command tool?
    Kinds,          \* how turns are started: subset of TurnKinds
    Grants          \* grants of the (resumed) task at the start

\* Free text (start_pulse), /fix and its like (start_single_turn), and the read-only
\* /explain, /review, /plan (start_single_turn with read_only).
TurnKinds == {"plain", "slash", "readOnly"}
GrantScopes == {"none", "once", "session"}

ASSUME RuntimeAssumption ==
    /\ MaxTurns \in Nat /\ MaxCommands \in Nat
    /\ MaxCancels \in Nat /\ MaxAsks \in Nat /\ MaxErrors \in Nat
    /\ ToolCommands \in BOOLEAN /\ Kinds \subseteq TurnKinds /\ Grants \subseteq GrantScopes

Turns == 1 .. MaxTurns
Commands == 1 .. MaxCommands

\* Session ids: next_step_id for an inline command, a counter that starts at
\* 2^63 for the run_command tool.  They never meet.
InlineId(c) == <<0, c>>
SessionIds == (0 .. MaxTurns) \X Nat

VARIABLES
    pulse,          \* task_doc.active_pulse: [open, owner, cancelling, sessions]
    pendingDone,    \* turn_completion_pending
    readOnly,       \* read_only_turn_active
    overlay,        \* overlay_state.pending_approval
    autoApprove,    \* overlay_state.auto_approve_session
    grant,          \* task_doc.info.active_grants, one capability
    status,         \* task_doc.info.status, persisted on every change
    quit,           \* pending_quit / quit_requested
    phase,          \* Runtime::run: polling for input or draining updates
    updates,        \* the UiUpdate channel
    epoch,          \* how often the root cancellation token was replaced
    lock,           \* the turn whose send task holds the conversation, or 0
    prompt,         \* the turn whose supplementary prompt is set, or 0
    kind,           \* ghost: how a turn was started
    token,          \* the root token a turn's child token belongs to
    drv,            \* state of a turn's driver task
    send,           \* state of a turn's send task
    deltas,         \* a turn's ConversationStreamUpdate channel
    reply,          \* the one-shot answer to a turn's approval request
    asks,           \* approval requests a turn made
    errs,           \* error events a turn's streams carried
    cmd,            \* state of a command task
    cmdToken        \* the root token of a command task

tui == <<pulse, pendingDone, readOnly, overlay, autoApprove, grant, status, quit>>
started == <<kind, token>>
tasks == <<started, drv, send, deltas, asks, errs>>
commands == <<cmd, cmdToken>>
background == <<lock, prompt, tasks>>           \* what no handler of the UI changes
screen == <<tui, phase, epoch, commands, started>>  \* what no task of a turn changes
vars == <<tui, phase, updates, epoch, lock, prompt, tasks, reply, commands>>

NoPulse == [open |-> FALSE, owner |-> 0, cancelling |-> FALSE, sessions |-> {}]
OpenPulse(t, ids) == [open |-> TRUE, owner |-> t, cancelling |-> FALSE, sessions |-> ids]

NoOverlay == [kind |-> "none", id |-> 0]
Update(k, x) == [kind |-> k, id |-> x]
Updates ==
    [kind: {"ask", "complete", "error"}, id: Turns]
        \cup [kind: {"started", "finished"}, id: SessionIds]
        \cup [kind: {"cmdComplete"}, id: Commands]

Holding == {"run", "ask", "tool", "cmd"}    \* states inside send_message
Ended == {"ok", "err", "dropped"}

\* Types; a closed pulse keeps nothing of the turn it showed (reset_turn_capture
\* clears the whole capture: no cancel mark and no session outlive their pulse).
TypeOK ==
    /\ pulse \in [open: BOOLEAN, owner: 0 .. MaxTurns, cancelling: BOOLEAN,
                  sessions: SUBSET SessionIds]
    /\ ~pulse.open => pulse = NoPulse
    /\ pendingDone \in BOOLEAN /\ readOnly \in BOOLEAN /\ autoApprove \in BOOLEAN
    /\ overlay \in {NoOverlay} \cup [kind: {"tool"}, id: Turns]
                               \cup [kind: {"inline"}, id: Commands]
    /\ grant \in GrantScopes
    /\ status \in {"Ready", "Running", "AwaitingApproval", "Cancelling",
                   "Completed", "Failed"}
    /\ quit \in {"no", "armed", "yes"}
    /\ phase \in {"poll", "drain"}
    /\ updates \in Seq(Updates)
    /\ epoch \in 0 .. MaxCancels
    /\ lock \in 0 .. MaxTurns /\ prompt \in 0 .. MaxTurns
    /\ kind \in [Turns -> TurnKinds]
    /\ token \in [Turns -> 0 .. MaxCancels]
    /\ drv \in [Turns -> {"new", "prompt", "forward", "unwind", "restore", "done"}]
    /\ send \in [Turns -> {"new", "lock"} \cup Holding \cup Ended]
    /\ deltas \in [Turns -> Seq(Updates)]
    /\ reply \in [Turns -> {"none", "yes", "no"}]
    /\ asks \in [Turns -> 0 .. MaxAsks] /\ errs \in [Turns -> 0 .. MaxErrors]
    /\ cmd \in [Commands -> {"new", "run", "held", "tail", "done"}]
    /\ cmdToken \in [Commands -> 0 .. MaxCancels]

\* A session may begin with the grants of a resumed task.
Init ==
    /\ pulse = NoPulse /\ pendingDone = FALSE /\ readOnly = FALSE
    /\ overlay = NoOverlay /\ autoApprove = FALSE
    /\ grant \in Grants
    /\ status = "Ready" /\ quit = "no" /\ phase = "poll"
    /\ updates = <<>> /\ epoch = 0 /\ lock = 0 /\ prompt = 0
    /\ kind = [t \in Turns |-> "plain"]
    /\ token = [t \in Turns |-> 0]
    /\ drv = [t \in Turns |-> "new"]
    /\ send = [t \in Turns |-> "new"]
    /\ deltas = [t \in Turns |-> <<>>]
    /\ reply = [t \in Turns |-> "none"]
    /\ asks = [t \in Turns |-> 0] /\ errs = [t \in Turns |-> 0]
    /\ cmd = [c \in Commands |-> "new"]
    /\ cmdToken = [c \in Commands |-> 0]

-----------------------------------------------------------------------------
(* What the user does.  Runtime::run polls one input, then drains the      *)
(* channel until it is empty; it stops when the frontend quits.            *)

Input == quit # "yes" /\ phase = "poll" /\ phase' = "drain"

\* begin_turn_capture and the spawn of start_pulse_with_system_prompt_and_policy.
\* Plain text leaves read_only_turn_active alone; start_single_turn sets it.
StartTurn(t, k) ==
    /\ Input
    /\ overlay = NoOverlay /\ ~pulse.open
    /\ drv[t] = "new" /\ \A u \in Turns : u < t => drv[u] # "new"
    /\ pulse' = OpenPulse(t, {})
    /\ pendingDone' = FALSE
    /\ readOnly' = IF k = "plain" THEN readOnly ELSE k = "readOnly"
    /\ status' = "Running" /\ quit' = "no"
    /\ kind' = [kind EXCEPT ![t] = k]
    /\ token' = [token EXCEPT ![t] = epoch]
    /\ drv' = [drv EXCEPT ![t] = "prompt"]
    /\ UNCHANGED <<overlay, autoApprove, grant, updates, epoch, lock, prompt, send, deltas,
                   asks, errs, reply, commands>>

\* start_command_session: joins the running batch, or opens a pulse of its
\* own in place of whatever pulse is there.
StartCommand(c) ==
    LET joins == pulse.open /\ pulse.sessions # {}
    IN  /\ pulse' = IF joins
                    THEN [pulse EXCEPT !.sessions = @ \cup {InlineId(c)}]
                    ELSE OpenPulse(0, {InlineId(c)})
        /\ pendingDone' = (joins /\ pendingDone)
        /\ status' = "Running"
        /\ cmd' = [cmd EXCEPT ![c] = "run"]
        /\ cmdToken' = [cmdToken EXCEPT ![c] = epoch]

\* handle_bang_command, from on_user_input's two call sites.
Bang(c) ==
    /\ Input
    /\ overlay = NoOverlay
    /\ ~pulse.open \/ (~pulse.cancelling /\ pulse.sessions # {})
    /\ cmd[c] = "new" /\ \A d \in Commands : d < c => cmd[d] # "new"
    /\ quit' = IF pulse.open THEN quit ELSE "no"
    /\ IF autoApprove \/ grant # "none"
       THEN /\ StartCommand(c)
            /\ grant' = IF ~autoApprove /\ grant = "once" THEN "none" ELSE grant
            /\ UNCHANGED overlay
       ELSE /\ overlay' = [kind |-> "inline", id |-> c]
            /\ status' = "AwaitingApproval"
            /\ UNCHANGED <<pulse, pendingDone, grant, commands>>
    /\ UNCHANGED <<background, readOnly, autoApprove, updates, epoch, reply>>

\* resolve_pending_approval(false): the answer a pending tool request gets.
DeniedReplies ==
    IF overlay.kind = "tool" THEN [reply EXCEPT ![overlay.id] = "no"] ELSE reply

\* handle_approval_input: 1 once, 2 for the session, 3 deny.
Answer(choice) ==
    /\ Input
    /\ overlay # NoOverlay
    /\ overlay' = NoOverlay
    /\ autoApprove' = (autoApprove \/ choice = "session")
    /\ \/ /\ choice = "deny"
          /\ reply' = DeniedReplies
          /\ UNCHANGED <<pulse, pendingDone, status, commands>>
       \/ /\ choice # "deny" /\ overlay.kind = "tool"
          /\ reply' = [reply EXCEPT ![overlay.id] = "yes"]
          /\ status' = "Running"
          /\ UNCHANGED <<pulse, pendingDone, commands>>
       \/ /\ choice # "deny" /\ overlay.kind = "inline"
          /\ StartCommand(overlay.id)
          /\ UNCHANGED reply
    /\ UNCHANGED <<background, readOnly, grant, quit, updates, epoch>>

\* Mutant: the approval overlay survives the interrupt.
Interrupt_KeepsOverlay ==
    /\ Input
    /\ pulse.open /\ ~pulse.cancelling /\ epoch < MaxCancels
    /\ epoch' = epoch + 1
    /\ pulse' = [pulse EXCEPT !.cancelling = TRUE]
    /\ status' = IF pulse.sessions # {} THEN "Cancelling" ELSE status
    /\ quit' = "no"
    /\ UNCHANGED <<background, overlay, reply, pendingDone, readOnly, autoApprove, grant,
                   updates, commands>>

\* on_interrupt with an open pulse: cancel_pulse cancels every child of the
\* root token and replaces the root.  A second interrupt changes nothing.
Interrupt ==
    /\ Input
    /\ pulse.open /\ ~pulse.cancelling /\ epoch < MaxCancels
    /\ epoch' = epoch + 1
    /\ overlay' = NoOverlay /\ reply' = DeniedReplies
    /\ pulse' = [pulse EXCEPT !.cancelling = TRUE]
    /\ status' = IF pulse.sessions # {} THEN "Cancelling" ELSE status
    /\ quit' = "no"
    /\ UNCHANGED <<background, pendingDone, readOnly, autoApprove, grant, updates, commands>>

\* on_interrupt when idle: the first one arms, the second one quits.
InterruptIdle ==
    /\ Input
    /\ ~pulse.open
    /\ quit' = IF quit = "armed" THEN "yes" ELSE "armed"
    /\ UNCHANGED <<background, pulse, pendingDone, readOnly, overlay, autoApprove, grant,
                   status, updates, epoch, reply, commands>>

-----------------------------------------------------------------------------
(* on_model_update, one update after the other.                            *)

Receive(k) ==
    /\ quit # "yes"
    /\ updates # <<>> /\ Head(updates).kind = k
    /\ updates' = Tail(updates)
    /\ phase' = "drain"

\* The channel is empty: the loop polls for input again.
Drained ==
    /\ quit # "yes" /\ phase = "drain" /\ updates = <<>>
    /\ phase' = "poll"
    /\ UNCHANGED <<background, tui, updates, epoch, reply, commands>>

\* Mutant: requests of a cancelled pulse are treated like any other.
AskVerdict_NoCancelCheck(covered) ==
    IF readOnly THEN "deny" ELSE IF autoApprove \/ covered THEN "allow" ELSE "prompt"

\* The order of the checks on ToolApprovalRequest; covered: a grant exists for
\* the tool's capability.
AskVerdict(covered) ==
    IF pulse.cancelling \/ readOnly THEN "deny"
    ELSE IF autoApprove \/ covered THEN "allow" ELSE "prompt"

HandleAsk ==
    /\ Receive("ask")
    /\ \E covered \in {FALSE, grant # "none"} :
         LET t == Head(updates).id
             verdict == AskVerdict(covered)
             before == IF pulse.cancelling THEN reply ELSE DeniedReplies
         IN  /\ reply' = CASE verdict = "deny"  -> [before EXCEPT ![t] = "no"]
                           [] verdict = "allow" -> [before EXCEPT ![t] = "yes"]
                           [] OTHER             -> before
             /\ overlay' = CASE verdict = "prompt" -> [kind |-> "tool", id |-> t]
                             [] pulse.cancelling   -> overlay
                             [] OTHER              -> NoOverlay
             /\ status' = CASE verdict = "prompt" -> "AwaitingApproval"
                            [] verdict = "allow"  -> "Running"
                            [] OTHER              -> status
             /\ grant' = IF verdict = "allow" /\ ~autoApprove /\ grant = "once"
                         THEN "none" ELSE grant
    /\ UNCHANGED <<background, pulse, pendingDone, readOnly, autoApprove, quit, epoch,
                   commands>>

\* Mutant: the last session closes the pulse without its PulseComplete.
CompleteIfIdle_NotAwaited(p, done) ==
    IF p.sessions = {}
    THEN /\ pulse' = NoPulse /\ pendingDone' = FALSE /\ readOnly' = FALSE
         /\ overlay' = NoOverlay /\ reply' = DeniedReplies
         /\ status' = IF p.open THEN "Ready" ELSE "Completed"
    ELSE /\ pulse' = p /\ pendingDone' = done
         /\ UNCHANGED <<readOnly, overlay, reply, status>>

\* complete_turn_if_idle and commit_completed_turn, for the pulse p.
CompleteIfIdle(p, done) ==
    IF done /\ p.sessions = {}
    THEN /\ pulse' = NoPulse /\ pendingDone' = FALSE /\ readOnly' = FALSE
         /\ overlay' = NoOverlay /\ reply' = DeniedReplies
         /\ status' = IF p.open THEN "Ready" ELSE "Completed"
    ELSE /\ pulse' = p /\ pendingDone' = done
         /\ UNCHANGED <<readOnly, overlay, reply, status>>

HandleComplete ==
    /\ Receive("complete") \/ Receive("cmdComplete")
    /\ CompleteIfIdle(pulse, TRUE)
    /\ UNCHANGED <<background, autoApprove, grant, quit, epoch, commands>>

HandleFinished ==
    /\ Receive("finished")
    /\ CompleteIfIdle([pulse EXCEPT !.sessions = @ \ {Head(updates).id}], pendingDone)
    /\ UNCHANGED <<background, autoApprove, grant, quit, epoch, commands>>

HandleStarted ==
    /\ Receive("started")
    /\ pulse' = IF pulse.open
                THEN [pulse EXCEPT !.sessions = @ \cup {Head(updates).id}]
                ELSE pulse
    /\ status' = "Running"
    /\ UNCHANGED <<background, pendingDone, readOnly, overlay, autoApprove, grant, quit,
                   epoch, reply, commands>>

HandleError ==
    /\ Receive("error")
    /\ pulse' = NoPulse /\ pendingDone' = FALSE /\ readOnly' = FALSE
    /\ overlay' = NoOverlay /\ reply' = DeniedReplies
    /\ status' = "Failed"
    /\ UNCHANGED <<background, autoApprove, grant, quit, epoch, commands>>

-----------------------------------------------------------------------------
(* A turn's driver: the task spawned by start_pulse...                     *)

Cancelled(t) == token[t] < epoch
\* send_handle.abort() was called, or the driver is gone.
Aborted(t) == drv[t] \in {"unwind", "done"}

\* set_runtime_prompt holds the mutex for this one step.
DriverPrompt(t) ==
    /\ drv[t] = "prompt" /\ lock = 0
    /\ prompt' = IF kind[t] = "plain" THEN 0 ELSE t
    /\ drv' = [drv EXCEPT ![t] = "forward"]
    /\ send' = [send EXCEPT ![t] = "lock"]
    /\ UNCHANGED <<screen, updates, lock, deltas, asks, errs, reply>>

\* forward_conversation_update.
DriverForward(t) ==
    /\ drv[t] = "forward" /\ deltas[t] # <<>>
    /\ updates' = Append(updates, Head(deltas[t]))
    /\ deltas' = [deltas EXCEPT ![t] = Tail(@)]
    /\ UNCHANGED <<screen, lock, prompt, drv, send, asks, errs, reply>>

\* select! saw the token: abort the send task, forward nothing more.
DriverCancelled(t) ==
    /\ drv[t] = "forward" /\ Cancelled(t)
    /\ drv' = [drv EXCEPT ![t] = "unwind"]
    /\ UNCHANGED <<screen, updates, lock, prompt, send, deltas, asks, errs, reply>>

\* Mutant: the end is reported before the prompt is restored.
DriverEnd_ReportsFirst(t) ==
    /\ drv[t] = "forward" /\ deltas[t] = <<>> /\ send[t] \in {"ok", "err"}
    /\ drv' = [drv EXCEPT ![t] = "restore"]
    /\ updates' = Append(updates, Update("complete", t))
    /\ UNCHANGED <<screen, lock, prompt, send, deltas, asks, errs, reply>>

\* recv() returned None: the send task is done and everything is forwarded.
DriverEnd(t) ==
    /\ drv[t] = "forward" /\ deltas[t] = <<>> /\ send[t] \in {"ok", "err"}
    /\ drv' = [drv EXCEPT ![t] = "restore"]
    /\ UNCHANGED <<screen, updates, lock, prompt, send, deltas, asks, errs, reply>>

\* Mutant: try_lock instead of lock when the prompt is restored.
DriverRestore_NoLock(t) ==
    /\ drv[t] \in {"unwind", "restore"}
    /\ prompt' = IF lock = 0 THEN 0 ELSE prompt
    /\ drv' = [drv EXCEPT ![t] = "done"]
    /\ updates' = Append(updates,
         Update(IF drv[t] = "restore" /\ send[t] = "err" THEN "error" ELSE "complete", t))
    /\ UNCHANGED <<screen, lock, send, deltas, asks, errs, reply>>

\* Mutant: a cancelled turn does not report PulseComplete.
DriverRestore_SilentCancel(t) ==
    /\ drv[t] \in {"unwind", "restore"} /\ lock = 0
    /\ prompt' = 0
    /\ drv' = [drv EXCEPT ![t] = "done"]
    /\ updates' = IF drv[t] = "unwind" THEN updates
                  ELSE Append(updates,
                         Update(IF send[t] = "err" THEN "error" ELSE "complete", t))
    /\ UNCHANGED <<screen, lock, send, deltas, asks, errs, reply>>

\* Takes the mutex to clear the supplementary prompt, then reports the turn.
DriverRestore(t) ==
    /\ drv[t] \in {"unwind", "restore"} /\ lock = 0
    /\ prompt' = 0
    /\ drv' = [drv EXCEPT ![t] = "done"]
    /\ updates' = Append(updates,
         Update(IF drv[t] = "restore" /\ send[t] = "err" THEN "error" ELSE "complete", t))
    /\ UNCHANGED <<screen, lock, send, deltas, asks, errs, reply>>

Drive(t) ==
    \/ DriverPrompt(t) \/ DriverForward(t) \/ DriverCancelled(t)
    \/ DriverEnd(t) \/ DriverRestore(t)

-----------------------------------------------------------------------------
(* The send task, which holds the mutex while send_message_with_policy     *)
(* runs.                                                                   *)

Sending(t, from) == send[t] = from /\ ~Aborted(t)

SendLock(t) ==
    /\ Sending(t, "lock") /\ lock = 0
    /\ lock' = t
    /\ send' = [send EXCEPT ![t] = "run"]
    /\ UNCHANGED <<screen, updates, prompt, drv, deltas, asks, errs, reply>>

\* request_tool_approval.
SendAsk(t) ==
    /\ Sending(t, "run") /\ asks[t] < MaxAsks
    /\ send' = [send EXCEPT ![t] = "ask"]
    /\ asks' = [asks EXCEPT ![t] = @ + 1]
    /\ reply' = [reply EXCEPT ![t] = "none"]
    /\ deltas' = [deltas EXCEPT ![t] = Append(@, Update("ask", t))]
    /\ UNCHANGED <<screen, updates, lock, prompt, drv, errs>>

\* The answer arrives: the tool runs, or its denial is recorded.
SendReply(t) ==
    /\ Sending(t, "ask") /\ reply[t] # "none"
    /\ send' = [send EXCEPT ![t] = IF reply[t] = "yes" THEN "tool" ELSE "run"]
    /\ UNCHANGED <<screen, updates, lock, prompt, drv, deltas, asks, errs, reply>>

\* execute_run_command_tool announces its session; if the sandbox refuses the
\* command the tool fails there and then.
SendCommandStarted(t) ==
    /\ ToolCommands /\ Sending(t, "tool")
    /\ deltas' = [deltas EXCEPT ![t] = Append(@, Update("started", <<t, asks[t]>>))]
    /\ \E wrapped \in BOOLEAN :
         send' = [send EXCEPT ![t] = IF wrapped THEN "cmd" ELSE "run"]
    /\ UNCHANGED <<screen, updates, lock, prompt, drv, asks, errs, reply>>

SendCommandFinished(t) ==
    /\ Sending(t, "cmd")
    /\ deltas' = [deltas EXCEPT ![t] = Append(@, Update("finished", <<t, asks[t]>>))]
    /\ send' = [send EXCEPT ![t] = "run"]
    /\ UNCHANGED <<screen, updates, lock, prompt, drv, asks, errs, reply>>

\* Any other tool returns.
SendToolDone(t) ==
    /\ Sending(t, "tool")
    /\ send' = [send EXCEPT ![t] = "run"]
    /\ UNCHANGED <<screen, updates, lock, prompt, drv, deltas, asks, errs, reply>>

\* RuntimeSignal::Error inside a stream: reported to the user, and the turn
\* goes on.
SendStreamError(t) ==
    /\ Sending(t, "run") /\ errs[t] < MaxErrors
    /\ errs' = [errs EXCEPT ![t] = @ + 1]
    /\ deltas' = [deltas EXCEPT ![t] = Append(@, Update("error", t))]
    /\ UNCHANGED <<screen, updates, lock, prompt, drv, send, asks, reply>>

\* send_message_with_policy returns (or panics): the guard is dropped.
SendEnd(t, result) ==
    /\ Sending(t, "run")
    /\ send' = [send EXCEPT ![t] = result]
    /\ lock' = 0
    /\ UNCHANGED <<screen, updates, prompt, drv, deltas, asks, errs, reply>>

\* The aborted task reaches an await and is dropped, with the guard it holds.
SendDropped(t) ==
    /\ Aborted(t) /\ send[t] \in {"lock"} \cup Holding
    /\ send' = [send EXCEPT ![t] = "dropped"]
    /\ lock' = IF lock = t THEN 0 ELSE lock
    /\ UNCHANGED <<screen, updates, prompt, drv, deltas, asks, errs, reply>>

-----------------------------------------------------------------------------
(* A command task: CommandSessionFinished, then PulseComplete.  run_streaming *)
(* watches the token only until its child exits, the session only until its   *)
(* output ends; both then wait for the other, whatever the token says.        *)

\* The child is gone while a process it started holds its pipes, or it runs on
\* after closing them: from here on Ctrl+C kills nothing.
CommandHeld(c) ==
    /\ cmd[c] = "run"
    /\ cmd' = [cmd EXCEPT ![c] = "held"]
    /\ UNCHANGED <<background, tui, phase, updates, epoch, reply, cmdToken>>

\* Child and output have ended: by themselves or, while the token is watched, by
\* the kill of the process group.
CommandExits(c) ==
    /\ cmd[c] \in {"run", "held"}
    /\ cmd' = [cmd EXCEPT ![c] = "tail"]
    /\ updates' = Append(updates, Update("finished", InlineId(c)))
    /\ UNCHANGED <<background, tui, phase, epoch, reply, cmdToken>>

CommandReports(c) ==
    /\ cmd[c] = "tail"
    /\ cmd' = [cmd EXCEPT ![c] = "done"]
    /\ updates' = Append(updates, Update("cmdComplete", c))
    /\ UNCHANGED <<background, tui, phase, epoch, reply, cmdToken>>

CommandStep(c) == CommandHeld(c) \/ CommandExits(c) \/ CommandReports(c)

-----------------------------------------------------------------------------

User ==
    \/ \E t \in Turns, k \in Kinds : StartTurn(t, k)
    \/ \E c \in Commands : Bang(c)
    \/ \E choice \in {"once", "session", "deny"} : Answer(choice)
    \/ Interrupt
    \/ InterruptIdle

Handle == HandleAsk \/ HandleComplete \/ HandleFinished \/ HandleStarted \/ HandleError

SendStep(t) ==
    \/ SendLock(t) \/ SendAsk(t) \/ SendReply(t)
    \/ SendCommandStarted(t) \/ SendCommandFinished(t) \/ SendToolDone(t)
    \/ SendStreamError(t)
    \/ \E result \in {"ok", "err"} : SendEnd(t, result)
    \/ SendDropped(t)

Next ==
    \/ User
    \/ Handle
    \/ Drained
    \/ \E t \in Turns : Drive(t) \/ SendStep(t)
    \/ \E c \in Commands : CommandStep(c)

Spec == Init /\ [][Next]_vars

\* The UI loop, the drivers and dropped tasks are scheduled by tokio; a command whose
\* child still runs and writes is killed when its token is cancelled.  Nothing is
\* assumed of the user, the model, a running tool or a held command.
Fairness ==
    /\ WF_vars(Handle \/ Drained)
    /\ \A t \in Turns : WF_vars(Drive(t)) /\ WF_vars(SendDropped(t))
    /\ \A c \in Commands : /\ WF_vars(cmd[c] = "run" /\ cmdToken[c] < epoch /\ CommandExits(c))
                           /\ WF_vars(CommandReports(c))

FairSpec == Spec /\ Fairness

-----------------------------------------------------------------------------
(* Properties.                                                             *)

LiveTurn(t) ==
    \/ drv[t] \notin {"new", "done"}
    \/ \E i \in DOMAIN updates : /\ updates[i].kind \in {"ask", "complete", "error"}
                                 /\ updates[i].id = t
LiveCommand(c) ==
    \/ cmd[c] \in {"run", "held", "tail"}
    \/ \E i \in DOMAIN updates : updates[i] = Update("cmdComplete", c)

\* While a turn's tasks run, or an update of it is on its way, the pulse on
\* screen is that turn's: no update ever acts on another turn's pulse and the
\* user cannot start a second turn (on_user_input's busy check).  The same for an
\* inline command.
OnePulseAtATime ==
    /\ \A t \in Turns : LiveTurn(t) => pulse.open /\ pulse.owner = t
    /\ \A c \in Commands : LiveCommand(c) => pulse.open /\ pulse.owner = 0

\* "Patch requests are silently denied during the pulse": no approval request of a
\* /review, /plan or /explain turn is ever answered with yes, whatever grants exist.
ReadOnlyTurnsDenied ==
    \A t \in Turns : kind[t] = "readOnly" => reply[t] # "yes"

\* The requests of a turn are sent under that turn's supplementary prompt and
\* under no other's (set_runtime_prompt before, and the reset after, each turn).
OwnPrompt ==
    \A t \in Turns : lock = t => prompt = IF kind[t] = "plain" THEN 0 ELSE t

\* The task state on disk never says that work is running when no pulse is open
\* and no update is on its way (a reload would report an interrupted task).
IdleStatus ==
    ~pulse.open /\ updates = <<>> => status \notin {"Running", "Cancelling"}

\* Turns do not leak into one another: each sends under its own prompt, a read-only turn
\* is never granted a patch, and an idle session is not saved as a running one.
TurnsIsolated == TypeOK /\ OwnPrompt /\ ReadOnlyTurnsDenied /\ IdleStatus

\* After Ctrl+C, until the pulse closes, nothing is left that the interrupt did not
\* reach: every running task holds a cancelled token and no approval can be given
\* that would start another.
CancelReachesAll ==
    pulse.cancelling =>
        /\ overlay = NoOverlay
        /\ \A t \in Turns : drv[t] \notin {"new", "done"} => Cancelled(t)
        /\ \A c \in Commands : cmd[c] \in {"run", "held"} => cmdToken[c] < epoch

\* When a turn reports its end, cancelled or not, its send task has stopped using
\* the conversation.
ReportedTurnsStopped ==
    \A t \in Turns : drv[t] = "done" => send[t] \notin Holding /\ lock # t

\* A request of a cancelled turn is never approved.
NoGrantAfterCancel ==
    [][\A t \in Turns : reply[t] # "yes" /\ reply'[t] = "yes" => ~Cancelled(t)]_vars

\* A session of a turn that is over, whose CommandSessionFinished will never come: the
\* driver aborted the send task that ran the command, or the sandbox refused it after
\* it was announced.
SessionLost ==
    \E s \in pulse.sessions :
        /\ s[1] # 0 /\ drv[s[1]] = "done"
        /\ \A i \in DOMAIN updates : updates[i] # Update("finished", s)

\* A pulse whose cancellation was requested is closed in the end, so that the composer
\* accepts input again.  Two things keep it open, and nothing else: a command task
\* that is held for ever by a process Ctrl+C does not reach, and a lost session of a
\* turn's run_command.
CancelledPulseCloses ==
    (\A c \in Commands : []<>(cmd[c] # "held"))
        => (pulse.cancelling ~> ~pulse.open \/ SessionLost)
=============================================================================
