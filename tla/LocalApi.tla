------------------------------- MODULE LocalApi -------------------------------
(***************************************************************************)
(* The pulses of the local API server (src/local_api.rs and                *)
(* src/server/handlers/mod.rs): POST /v1/pulses starts a task whose        *)
(* envelopes are streamed back, POST /v1/interrupt and /v1/approve steer   *)
(* it from other connections.                                              *)
(*                                                                         *)
(* Three parties share one task id: the HTTP handlers, the runtime loop    *)
(* that owns the task (the worker) and the turn it started, whose updates  *)
(* come through a channel.  LocalApiTaskShared is the record shared,       *)
(* protected by a mutex that every handler and callback holds throughout.  *)
(* Other task ids only share the lock of the map, so there is one id.      *)
(***************************************************************************)
EXTENDS Integers, Sequences, FiniteSets, EnvelopeNormalizer, TurnUpdates

CONSTANTS Capabilities,       \* what a tool call may need approval for
          MaxRuns,            \* bound: tasks started under the id
          MaxContent,         \* bound: content updates, approvals and commands of one turn
          MaxRequests         \* bound: interrupt and approve requests per task

ASSUME ApiAssumption == MaxRequests \in Nat

VARIABLES registered, \* the id is a key of LocalApiState.tasks
          worker,     \* where spawn_local_api_task's future is
          initial,    \* LocalApiFrontend.initial_input is still there
          inbox,      \* interrupts in command_rx
          shared,     \* LocalApiTaskShared
          updates,    \* the channel update_tx -> update_rx
          turn,       \* the spawned turn: phase, capability asked for, ask number
          cancelled,  \* the cancellation token of the turn
          answers,    \* what response_tx of ask i received
          spent       \* bounds: runs, content and requests so far; errors inside the stream

apiVars == <<registered, worker, initial, inbox, shared, updates, turn, cancelled, answers, spent>>

NoAsk == [capability |-> "none", ask |-> 0]
Idle == [phase |-> "none", capability |-> "none", ask |-> 0]

NewShared ==
    [n |-> NewNormalizer(EmptyMap), pending |-> NoAsk, inProgress |-> FALSE,
     interrupted |-> FALSE, sessions |-> {}, completionPending |-> FALSE, quit |-> FALSE]

ApiInit ==
    /\ registered = FALSE /\ worker = "none" /\ initial = FALSE /\ inbox = 0
    /\ shared = NewShared /\ updates = <<>> /\ turn = Idle /\ cancelled = FALSE
    /\ answers = <<>> /\ spent = [runs |-> 0, content |-> 0, requests |-> 0, errors |-> 0]

(***************************************************************************)
(* The handlers.                                                           *)
(***************************************************************************)
Turns ==
    /\ ~registered /\ worker = "none" /\ spent.runs < MaxRuns
    /\ registered' = TRUE /\ worker' = "building" /\ initial' = TRUE /\ inbox' = 0
    /\ shared' = NewShared /\ updates' = <<>> /\ turn' = Idle /\ cancelled' = FALSE
    /\ answers' = <<>>
    /\ spent' = [runs |-> spent.runs + 1, content |-> 0, requests |-> 0, errors |-> 0]

Request == /\ registered /\ spent.requests < MaxRequests
           /\ spent' = [spent EXCEPT !.requests = @ + 1]

Interrupt ==
    /\ Request
    /\ inbox' = inbox + 1
    /\ UNCHANGED <<registered, worker, initial, shared, updates, turn, cancelled, answers>>

Matches(pending, capability) == pending.ask # 0 /\ pending.capability = capability

Take(s) == [s EXCEPT !.pending = NoAsk]

\* A request that does not match puts the pending approval back (409): no change.
Approve(capability, approved) ==
    /\ Request
    /\ Matches(shared.pending, capability)
    /\ answers' = [answers EXCEPT ![shared.pending.ask] =
                     IF turn.phase = "asking" /\ turn.ask = shared.pending.ask /\ @ = "none"
                     THEN IF approved THEN "yes" ELSE "no"
                     ELSE @]
    /\ shared' = Take([shared EXCEPT !.n = ApprovalAnswered(@, [capability |-> capability,
                                                                approved |-> approved])])
    /\ UNCHANGED <<registered, worker, initial, inbox, updates, turn, cancelled>>

(***************************************************************************)
(* LocalApiMode, the callbacks of the runtime loop.                        *)
(***************************************************************************)
CompleteTurnIfIdle(s) ==
    IF ~s.completionPending \/ s.sessions # {} THEN s
    ELSE [s EXCEPT !.n = FinishTurn(@, IF s.interrupted THEN "cancelled" ELSE "completed", {}),
                   !.completionPending = FALSE, !.inProgress = FALSE, !.quit = TRUE]

OnUserInput ==
    /\ shared' = [shared EXCEPT !.n = StartPulse(@, 1, EmptyMap), !.inProgress = TRUE,
                                !.interrupted = FALSE, !.sessions = {},
                                !.completionPending = FALSE, !.quit = FALSE]
    /\ turn' = [Idle EXCEPT !.phase = "running"] /\ cancelled' = FALSE

\* Mutant: the flag is set but the turn's token is not cancelled.
OnInterrupt_FlagOnly ==
    /\ shared' = IF shared.inProgress THEN [shared EXCEPT !.interrupted = TRUE] ELSE shared
    /\ UNCHANGED <<cancelled, turn>>

OnInterrupt ==
    /\ shared' = IF shared.inProgress THEN [shared EXCEPT !.interrupted = TRUE] ELSE shared
    /\ cancelled' = (cancelled \/ shared.inProgress)
    /\ UNCHANGED turn

OnError(s) ==
    [s EXCEPT !.n = EmitError(@, FALSE, {}), !.sessions = {}, !.completionPending = FALSE,
              !.inProgress = FALSE, !.quit = TRUE]

OnModelUpdate(s, u) ==
    CASE u.k = "line" -> [s EXCEPT !.n = TranscriptLine(@, "line")]
      [] u.k = "delta" -> [s EXCEPT !.n = StreamDelta(@, u.v)]
      [] u.k = "block" -> [s EXCEPT !.n = StreamBlockStart(@, u.i, u.v)]
      [] u.k = "block_complete" -> [s EXCEPT !.n = StreamBlockComplete(@, u.i)]
      [] u.k = "ask" -> [s EXCEPT !.pending = u.v, !.n = Emit(@, "approval_request", NoIndex, u.v.capability)]
      [] u.k = "complete" -> CompleteTurnIfIdle([s EXCEPT !.completionPending = TRUE])
      [] u.k = "error" -> OnError(s)
      [] u.k = "session" -> [s EXCEPT !.sessions = @ \cup {u.v}]
      [] u.k = "session_end" -> CompleteTurnIfIdle([s EXCEPT !.sessions = @ \ {u.v}])

(***************************************************************************)
(* The worker: run_local_api_task around Runtime::run.                     *)
(***************************************************************************)
Built ==
    /\ worker = "building" /\ worker' = "poll"
    /\ UNCHANGED <<registered, initial, inbox, shared, updates, turn, cancelled, answers, spent>>

BuildFails ==
    /\ worker = "building" /\ worker' = "remove"
    /\ shared' = [shared EXCEPT !.n = EmitError(@, FALSE, {}), !.quit = TRUE]
    /\ UNCHANGED <<registered, initial, inbox, updates, turn, cancelled, answers, spent>>

PollCommand ==
    /\ worker = "poll" /\ ~shared.quit /\ inbox > 0
    /\ inbox' = inbox - 1 /\ worker' = "drain"
    /\ OnInterrupt
    /\ UNCHANGED <<registered, initial, updates, answers, spent>>

PollInput ==
    /\ worker = "poll" /\ ~shared.quit /\ inbox = 0 /\ initial /\ ~shared.inProgress
    /\ initial' = FALSE /\ worker' = "drain"
    /\ OnUserInput
    /\ UNCHANGED <<registered, inbox, updates, answers, spent>>

PollNothing ==
    /\ worker = "poll" /\ ~shared.quit /\ inbox = 0 /\ ~(initial /\ ~shared.inProgress)
    /\ updates # <<>>
    /\ worker' = "drain"
    /\ UNCHANGED <<registered, initial, inbox, shared, updates, turn, cancelled, answers, spent>>

DrainUpdate ==
    /\ worker = "drain" /\ updates # <<>>
    /\ shared' = OnModelUpdate(shared, Head(updates)) /\ updates' = Tail(updates)
    /\ UNCHANGED <<registered, worker, initial, inbox, turn, cancelled, answers, spent>>

Drained ==
    /\ worker = "drain" /\ updates = <<>> /\ worker' = "poll"
    /\ UNCHANGED <<registered, initial, inbox, shared, updates, turn, cancelled, answers, spent>>

\* should_quit, then shutdown_resources: the token is cancelled and the manager locked,
\* which waits until the turn has released it.
Quit ==
    /\ worker = "poll" /\ shared.quit
    /\ worker' = "shutdown" /\ cancelled' = TRUE
    /\ UNCHANGED <<registered, initial, inbox, shared, updates, turn, answers, spent>>

ShutDown ==
    /\ worker = "shutdown" /\ turn.phase \in {"none", "done"} /\ worker' = "remove"
    /\ UNCHANGED <<registered, initial, inbox, shared, updates, turn, cancelled, answers, spent>>

Unregister ==
    /\ worker = "remove" /\ worker' = "none" /\ registered' = FALSE
    /\ UNCHANGED <<initial, inbox, shared, updates, turn, cancelled, answers, spent>>

(***************************************************************************)
(* The turn (RuntimeContext::start_pulse_...): what it sends is up to the  *)
(* model; after the cancellation only the completion is sent.              *)
(***************************************************************************)
Send(us) == updates' = updates \o us

TurnOnly == UNCHANGED <<registered, worker, initial, inbox, shared, cancelled, answers>>

Work(errors) ==
    /\ turn.phase = "running" /\ spent.content < MaxContent
    /\ spent' = [spent EXCEPT !.content = @ + 1, !.errors = @ + errors]

Say(us) == Work(0) /\ Send(us) /\ UNCHANGED turn /\ TurnOnly

\* An error event of the stream is reported, and the turn reads on.
StreamFails == Work(1) /\ Send(StreamError) /\ UNCHANGED turn /\ TurnOnly

TheCall(capability, ask) ==
    [id |-> ask, name |-> IF capability = "run" THEN "run_command" ELSE "write_file"]

\* The model calls a tool that needs approval; the stream may fail behind the call.
CallTool(capability, fails) ==
    /\ Work(IF fails THEN 1 ELSE 0)
    /\ LET ask == [capability |-> capability, ask |-> Len(answers) + 1]
           call == TheCall(capability, ask.ask)
       IN  /\ turn' = [phase |-> "asking", capability |-> capability, ask |-> ask.ask]
           /\ Send(CallStreamed(call) \o (IF fails THEN StreamError ELSE <<>>)
                   \o SetToolCallStatus(call) \o ApprovalAsk(ask))
    /\ answers' = Append(answers, "none")
    /\ UNCHANGED <<registered, worker, initial, inbox, shared, cancelled>>

Denied ==
    /\ turn.phase = "asking" /\ answers[turn.ask] = "no"
    /\ turn' = [turn EXCEPT !.phase = "running"]
    /\ LET call == TheCall(turn.capability, turn.ask)
       IN  Send(SetToolCallStatus(call) \o PushToolResultBlock(call, TRUE))
    /\ UNCHANGED spent /\ TurnOnly

\* A command session is announced by run_command, in front of its process.
Executes ==
    /\ turn.phase = "asking" /\ answers[turn.ask] = "yes"
    /\ turn' = [turn EXCEPT !.phase = "tool"]
    /\ Send(SetToolCallStatus(TheCall(turn.capability, turn.ask))
            \o IF turn.capability = "run" THEN <<Update("session", 0, turn.ask)>> ELSE <<>>)
    /\ UNCHANGED spent /\ TurnOnly

ToolReturns(err) ==
    /\ turn.phase = "tool"
    /\ turn' = [turn EXCEPT !.phase = "running"]
    /\ LET call == TheCall(turn.capability, turn.ask)
       IN  Send((IF turn.capability = "run" THEN <<Update("session_end", 0, turn.ask)>> ELSE <<>>)
                \o SetToolCallStatus(call) \o PushToolResultBlock(call, err))
    /\ UNCHANGED spent /\ TurnOnly

Finish(us) ==
    /\ turn.phase = "running"
    /\ turn' = [turn EXCEPT !.phase = "done"] /\ Send(us)
    /\ UNCHANGED spent /\ TurnOnly

Cancelled ==
    /\ cancelled /\ turn.phase \in {"running", "asking", "tool"}
    /\ turn' = [turn EXCEPT !.phase = "done"] /\ Send(PulseComplete)
    /\ UNCHANGED spent /\ TurnOnly

TurnStep ==
    \/ Say(<<Update("line", 0, 0)>>)
    \/ Say(TextUpdate(<<"x">>))
    \/ StreamFails
    \/ \E c \in Capabilities, fails \in BOOLEAN : CallTool(c, fails)
    \/ Denied \/ Executes
    \/ \E err \in BOOLEAN : ToolReturns(err)
    \/ Finish(PulseComplete)
    \/ Finish(PulseError)

Worker == Built \/ PollCommand \/ PollInput \/ PollNothing \/ DrainUpdate \/ Drained
          \/ Quit \/ ShutDown \/ Unregister

ApiNext ==
    \/ Turns \/ Interrupt
    \/ \E c \in Capabilities, approved \in BOOLEAN : Approve(c, approved)
    \/ BuildFails \/ Worker \/ Cancelled \/ TurnStep

\* The worker polls for ever and the turn's select sees the token; nothing is assumed of
\* the model, the command or the clients.
ApiFairness == /\ WF_apiVars(Worker) /\ WF_apiVars(Cancelled)

ApiTypeOK ==
    /\ registered \in BOOLEAN /\ initial \in BOOLEAN /\ cancelled \in BOOLEAN
    /\ worker \in {"none", "building", "poll", "drain", "shutdown", "remove"}
    /\ inbox \in 0..MaxRequests
    /\ turn.phase \in {"none", "running", "asking", "tool", "done"}
    /\ turn.capability \in Capabilities \cup {"none"}
    /\ turn.ask \in 0..Len(answers)
    /\ \A i \in DOMAIN answers : answers[i] \in {"none", "yes", "no"}
    /\ shared.sessions \subseteq 1..Len(answers)
    /\ shared.pending.ask \in 0..Len(answers)
    /\ (registered = (worker # "none"))

(***************************************************************************)
(* What the clients may rely on.                                           *)
(***************************************************************************)
Ends(out) == {i \in DOMAIN out : out[i].t = "pulse_end"}

\* The stream of a task that is over (complete_turn_if_idle, the error arm of
\* on_model_update, spawn_local_api_task) has a pulse_end, and nothing but the answer to an
\* approval comes after one, a second one neither.  The exception is the "failed" end of an
\* error inside the stream: the turn goes on, and what it had sent is still drained, its own
\* end included.
OneEnd ==
    LET out == shared.n.out
    IN  /\ worker \in {"shutdown", "remove"} => Ends(out) # {}
        /\ \A i \in Ends(out), j \in DOMAIN out :
              j > i /\ out[j].t # "approval_resolved" =>
                 spent.errors > 0 /\ out[i].v.status = "failed"

\* A reader that folds blocks by index never sees the synthetic text block of
\* ensure_open_final_text_block left open at an end of the pulse: it is completed in front of
\* that end.  (Text behind the end of an error inside the stream may stay open.)
TextClosedAtEnd ==
    LET out == shared.n.out
    IN  \A e \in Ends(out), i \in DOMAIN out :
           i < e /\ out[i].t = "block_start" /\ out[i].i >= SyntheticStart =>
              \E j \in (i + 1) .. (e - 1) : out[j].t = "block_complete" /\ out[j].i = out[i].i

\* Every approval_resolved answers a request of its own: approve_handler takes the
\* pending approval, so that a repeated POST cannot answer twice.
AnsweredOnce ==
    LET out == shared.n.out
        Count(t, i) == Cardinality({j \in 1..i : out[j].t = t})
    IN  \A i \in DOMAIN out : Count("approval_resolved", i) <= Count("approval_request", i)

\* Every result names the call in the form the stream announced it last, and no call has
\* two results, although set_tool_call_status announces a call anew, under a fresh id, each
\* time its status changes (record_tool_call, record_tool_result).
ResultsNameTheirCall ==
    LET out == shared.n.out
        IsResult(i) == out[i].t \in {"tool_completed", "tool_failed"}
        IsStart(i) == out[i].t = "tool_started"
    IN  \A i \in DOMAIN out : IsResult(i) =>
           /\ \E j \in 1..(i - 1) : /\ IsStart(j) /\ out[j].i = out[i].i
                                   /\ \A k \in (j + 1)..(i - 1) : ~IsStart(k)
           /\ \A j \in 1..(i - 1) : IsResult(j) => out[j].i # out[i].i

\* A command only runs after a client approved the capability "run": an approval meant
\* for another capability is put back (approve_handler).
CommandApproved ==
    turn.phase = "tool" /\ turn.capability = "run" =>
       \E i \in DOMAIN shared.n.out :
          /\ shared.n.out[i].t = "approval_resolved"
          /\ shared.n.out[i].v = [capability |-> "run", approved |-> TRUE]

\* The orphan: a turn aborted while its command ran leaves its session in the set,
\* because CommandSessionFinished is sent by the aborted future.
Orphaned == turn.phase = "done" /\ shared.sessions # {} /\ updates = <<>>

\* An interrupt taken by on_interrupt frees the task id in the end, whatever the model
\* and the command do, unless the abort orphaned a command session.
InterruptFreesId == shared.interrupted /\ registered ~> ~registered \/ Orphaned
=============================================================================
