-------------------------- MODULE ConversationTurn --------------------------
(***************************************************************************)
(* ConversationManager::send_message_with_policy: one user turn as a loop  *)
(* of model requests and tool rounds, over the message list of             *)
(* MessageHistory, together with the turn of its TaskDocument              *)
(* (begin_turn / finish_turn) and the abort of the task that runs it.      *)
(*                                                                         *)
(* The steps end where the code awaits: a request (create_stream), the     *)
(* response (stream.next) and the tools.  These are the points at which    *)
(* RuntimeContext's send_handle.abort() can drop the future.               *)
(*                                                                         *)
(* Abstractions.  A response is a text or one tool round named by its      *)
(* signature (tool_round_signature); a round's class (all read-only, some  *)
(* tool needs confirmation, a read without a path) is a property of the    *)
(* signature.  The single calls of a round are abstracted.  *)
(* Whether a request needs tool evidence, is one of the built-in git       *)
(* questions, or exceeds the token threshold, is an arbitrary Boolean.     *)
(***************************************************************************)
EXTENDS MessageHistory

CONSTANTS
    MaxApi,             \* HistoryLimits::max_api_messages
    MaxRounds,          \* resolve_max_tool_rounds
    Local,              \* client.is_local_endpoint()
    Sigs,               \* signatures of tool rounds
    NoSig,              \* previous_round_signature: None
    ReadOnlySigs,       \* is_read_only_tool_round
    MutatingSigs,       \* is_mutating_tool_round
    EmptyPathSigs,      \* has_empty_path_call
    CompactionEnabled,  \* compaction_config.enabled
    KeepRecent,         \* compaction_config.keep_recent_turns
    MaxTurns            \* bound of the model: how many turns are started

\* The clamps of resolve_history_limits, resolve_max_tool_rounds and of the
\* configuration's keep_recent_turns; a tool needing confirmation is never
\* read-only, and only read_file / list_files rounds miss a path.
ASSUME ConstantsAssumption ==
    /\ MaxApi \in Nat /\ MaxApi >= 4
    /\ MaxRounds \in Nat /\ MaxRounds >= 2
    /\ Local \in BOOLEAN
    /\ CompactionEnabled \in BOOLEAN
    /\ KeepRecent \in Nat /\ KeepRecent >= 1
    /\ MaxTurns \in Nat
    /\ ReadOnlySigs \subseteq Sigs
    /\ MutatingSigs \subseteq Sigs
    /\ EmptyPathSigs \subseteq Sigs
    /\ ReadOnlySigs \cap MutatingSigs = {}
    /\ NoSig \notin Sigs

VARIABLES
    pc,          \* where the turn awaits: "idle" when none runs
    turn,        \* how many turns were started; names the current request
    history,     \* api_messages
    docOpen,     \* task_doc.active_pulse.is_some()
    outcome,     \* how the last turn ended
    anchor,      \* turn_user_anchor_index
    preserve,    \* preserve_current_user_on_overflow
    evidence,    \* requires_tool_evidence
    rounds, overflow, finalAsked, nudged, roRepeat, prevSig, seenSigs,
    retries, sawTool,
    executed     \* history variable: the rounds whose tools ran this turn

loop == <<anchor, rounds, overflow>>
guards == <<finalAsked, nudged, roRepeat, prevSig, seenSigs, retries, sawTool>>
request == <<turn, preserve, evidence>>
vars == <<pc, history, docOpen, outcome, loop, guards, request, executed>>

Message == [kind : Kinds, turn : Nat]
Msg(k) == [kind |-> k, turn |-> turn]
Request(t) == [kind |-> "req", turn |-> t]

Outcomes == {"none", "running", "answered", "stopped", "max_turns", "failed",
             "cancelled", "panicked"}

ControlTypeOK ==
    /\ pc \in {"idle", "top", "connect", "stream", "tools"}
    /\ outcome \in Outcomes

FlagsTypeOK ==
    /\ docOpen \in BOOLEAN
    /\ preserve \in BOOLEAN
    /\ evidence \in BOOLEAN
    /\ finalAsked \in BOOLEAN
    /\ nudged \in BOOLEAN
    /\ sawTool \in BOOLEAN

CountersTypeOK ==
    /\ turn \in Nat
    /\ anchor \in Nat
    /\ rounds \in 0 .. (MaxRounds + 2)
    /\ overflow \in 0 .. 3
    /\ roRepeat \in Nat
    /\ retries \in 0 .. 2

ListsTypeOK ==
    /\ history \in Seq(Message)
    /\ executed \in Seq(Sigs)

SigsTypeOK ==
    /\ prevSig \in Sigs \cup {NoSig}
    /\ seenSigs \subseteq ReadOnlySigs

\* The variables keep their types; the round and retry counters stay within
\* the loop's limits.
TypeOK ==
    ControlTypeOK /\ FlagsTypeOK /\ CountersTypeOK /\ ListsTypeOK /\ SigsTypeOK

Init ==
    /\ pc = "idle"
    /\ turn = 0
    /\ history = <<>>
    /\ docOpen = FALSE
    /\ outcome = "none"
    /\ anchor = 0 /\ preserve = FALSE /\ evidence = FALSE
    /\ rounds = 0 /\ overflow = 0
    /\ finalAsked = FALSE /\ nudged = FALSE
    /\ roRepeat = 0 /\ prevSig = NoSig /\ seenSigs = {}
    /\ retries = 0 /\ sawTool = FALSE
    /\ executed = <<>>

-----------------------------------------------------------------------------
(* Starting a turn *)

\* effective_proactive_compaction_config: a local endpoint that has not
\* enabled compaction still hands over with keep 1 for evidence requests.
CompactionOn(ev) == CompactionEnabled \/ (Local /\ ev)
CompactionKeep(ev) == IF CompactionEnabled \/ ~Local \/ ~ev THEN KeepRecent ELSE 1

\* should_force_local_handoff_compaction
ForcesHandoff(ev, h) == ~CompactionEnabled /\ Local /\ ev /\ Len(h) >= 2

\* run_proactive_compaction: how many leading messages it removes.
ProactivelyRemoved(ev, large, h) ==
    IF ForcesHandoff(ev, h) \/ (CompactionOn(ev) /\ large)
    THEN SummaryBoundary(h, CompactionKeep(ev))
    ELSE 0

\* begin_turn's assert!(doc.active_pulse.is_none()) fails: the task panics
\* before the request is recorded.
BeginPanics ==
    /\ pc = "idle" /\ turn < MaxTurns
    /\ docOpen
    /\ turn' = turn + 1
    /\ outcome' = "panicked"
    /\ UNCHANGED <<pc, history, docOpen, preserve, evidence, loop, guards, executed>>

\* builtin_supported_git_tools_response answers without a request.
BuiltinReply ==
    /\ pc = "idle" /\ turn < MaxTurns
    /\ ~docOpen
    /\ turn' = turn + 1
    /\ history' = history \o <<Request(turn + 1), [kind |-> "say", turn |-> turn + 1]>>
    /\ outcome' = "answered"
    /\ UNCHANGED <<pc, docOpen, preserve, evidence, loop, guards, executed>>

\* The prologue of send_message_with_policy up to the loop.  The anchor is
\* taken before the proactive compaction and not adjusted by it.
Begin(ev, large) ==
    LET asked   == Append(history, Request(turn + 1))
        removed == ProactivelyRemoved(ev, large, asked)
    IN  /\ pc = "idle" /\ turn < MaxTurns
        /\ ~docOpen
        /\ pc' = "top"
        /\ turn' = turn + 1
        /\ docOpen' = TRUE
        /\ outcome' = "running"
        /\ history' = DropFirst(asked, removed)
        /\ anchor' = Len(asked) - 1
        /\ preserve' = (removed > 0)
        /\ evidence' = ev
        /\ rounds' = 0 /\ overflow' = 0
        /\ finalAsked' = FALSE /\ nudged' = FALSE
        /\ roRepeat' = 0 /\ prevSig' = NoSig /\ seenSigs' = {}
        /\ retries' = 0 /\ sawTool' = FALSE
        /\ executed' = <<>>

-----------------------------------------------------------------------------
(* Leaving the turn: every return statement runs finish_turn_doc first. *)

\* Mutant: a return that forgets finish_turn_doc.
Finish_DocLeftOpen(result) ==
    /\ pc' = "idle"
    /\ outcome' = result
    /\ UNCHANGED docOpen

Finish(result) ==
    /\ pc' = "idle"
    /\ docOpen' = FALSE
    /\ outcome' = result

\* The top of the loop: prune, count the round; past the budget ask once for
\* a final answer, then stop.
LoopTop ==
    LET pruned == PruneHistory(history, MaxApi, anchor)
    IN  /\ pc = "top"
        /\ anchor' = PruneAnchor(history, MaxApi, anchor)
        /\ rounds' = rounds + 1
        /\ \/ /\ rounds + 1 <= MaxRounds
              /\ pc' = "connect"
              /\ history' = pruned
              /\ UNCHANGED <<docOpen, outcome, finalAsked>>
           \/ /\ rounds + 1 > MaxRounds /\ ~finalAsked
              /\ pc' = "connect"
              /\ finalAsked' = TRUE
              /\ history' = Append(pruned, Msg("note"))
              /\ UNCHANGED <<docOpen, outcome>>
           \/ /\ rounds + 1 > MaxRounds /\ finalAsked
              /\ Finish("max_turns")
              /\ history' = pruned
              /\ UNCHANGED finalAsked
        /\ UNCHANGED <<request, overflow, nudged, roRepeat, prevSig, seenSigs,
                       retries, sawTool, executed>>

-----------------------------------------------------------------------------
(* create_stream *)

Connected ==
    /\ pc = "connect"
    /\ pc' = "stream"
    /\ overflow' = 0
    /\ UNCHANGED <<history, docOpen, outcome, anchor, rounds, guards, request, executed>>

OverflowKeep(n) == CASE n = 0 -> 4 [] n = 1 -> 2 [] OTHER -> 1

\* Mutant: the retry starts the round count over.
RoundsAfterOverflow_Reset == 0

\* Mutant: the retry is not counted.
OverflowCount_Stuck == overflow

\* overflow_retry_count += 1; rounds -= 1: the retry repeats the round.
OverflowCount == overflow + 1
RoundsAfterOverflow == rounds - 1

\* is_context_overflow: compact and retry the same round.  Without preserve
\* the compaction anchors on Len(history), that is on the last message.
ContextOverflow ==
    LET keep == OverflowKeep(overflow)
        p    == IF preserve THEN anchor ELSE Len(history)
    IN  /\ pc = "connect"
        /\ overflow < 3
        /\ pc' = "top"
        /\ history' = CompactHistory(history, keep, p)
        /\ anchor' = IF preserve THEN CompactAnchor(history, keep, p) ELSE anchor
        /\ overflow' = OverflowCount
        /\ rounds' = RoundsAfterOverflow
        /\ UNCHANGED <<docOpen, outcome, guards, request, executed>>

\* Any other error, or a fourth overflow in a row.
ConnectFails ==
    /\ pc = "connect"
    /\ Finish("failed")
    /\ UNCHANGED <<history, loop, guards, request, executed>>

-----------------------------------------------------------------------------
(* The response *)

StreamFails ==
    /\ pc = "stream"
    /\ Finish("failed")
    /\ UNCHANGED <<history, loop, guards, request, executed>>

NeedsEvidence == Local /\ evidence /\ ~sawTool

\* A response without (open) tool calls.
StreamText ==
    /\ pc = "stream"
    /\ prevSig' = NoSig
    /\ roRepeat' = 0
    /\ \/ /\ NeedsEvidence /\ retries < 2 /\ rounds < MaxRounds
          /\ retries' = retries + 1
          /\ history' = history \o <<Msg("say"), Msg("note")>>
          /\ pc' = "top"
          /\ UNCHANGED <<docOpen, outcome>>
       \/ /\ NeedsEvidence /\ ~(retries < 2 /\ rounds < MaxRounds)
          /\ history' = Append(history, Msg("say"))
          /\ Finish("stopped")
          /\ UNCHANGED retries
       \/ /\ ~NeedsEvidence
          /\ history' = Append(history, Msg("say"))
          /\ Finish("answered")
          /\ UNCHANGED retries
    /\ UNCHANGED <<loop, request, finalAsked, nudged, seenSigs, sawTool, executed>>

\* Mutant: only an immediate repetition counts (before ADR-023's amendment).
RepeatCount_Consecutive(sig) ==
    IF sig \in ReadOnlySigs /\ sig = prevSig THEN roRepeat + 1 ELSE 0

\* repeated_read_only_rounds: any earlier occurrence in the turn counts.
RepeatCount(sig) ==
    IF sig \in ReadOnlySigs /\ sig \in seenSigs THEN roRepeat + 1 ELSE 0

RepeatThreshold(sig) == IF sig \in EmptyPathSigs \/ Local THEN 1 ELSE 2

\* What the repeat guards make of a tool round.
MutationRepeated(sig) == sig \in MutatingSigs /\ prevSig = sig
ReadRepeated(sig) == RepeatCount(sig) >= RepeatThreshold(sig)
MayNudge(sig) == ~nudged /\ rounds < MaxRounds /\ sig \notin EmptyPathSigs

NoteRound(sig) ==
    /\ sawTool' = TRUE
    /\ prevSig' = sig
    /\ roRepeat' = RepeatCount(sig)
    /\ seenSigs' = seenSigs \cup ({sig} \cap ReadOnlySigs)

\* A guard ends the turn; the response is not recorded in the history.
GuardStops(sig) ==
    /\ pc = "stream"
    /\ \/ MutationRepeated(sig)
       \/ ReadRepeated(sig) /\ ~MayNudge(sig)
    /\ NoteRound(sig)
    /\ Finish("stopped")
    /\ UNCHANGED <<history, loop, request, finalAsked, nudged, retries, executed>>

\* Mutant: the loop continues before the note is pushed.
NudgeMessages_NoNote == <<Msg("call")>>

\* The recorded call message and repeated_tool_round_instruction.
NudgeMessages == <<Msg("call"), Msg("note")>>

\* The repeated round is recorded but not run; a note asks for another way.
Nudge(sig) ==
    /\ pc = "stream"
    /\ ~MutationRepeated(sig) /\ ReadRepeated(sig) /\ MayNudge(sig)
    /\ NoteRound(sig)
    /\ nudged' = TRUE
    /\ history' = history \o NudgeMessages
    /\ pc' = "top"
    /\ UNCHANGED <<docOpen, outcome, loop, request, finalAsked, retries, executed>>

\* The round is recorded and its tools start.
RunTools(sig) ==
    /\ pc = "stream"
    /\ ~MutationRepeated(sig) /\ ~ReadRepeated(sig)
    /\ NoteRound(sig)
    /\ history' = Append(history, Msg("call"))
    /\ executed' = Append(executed, sig)
    /\ pc' = "tools"
    /\ UNCHANGED <<docOpen, outcome, loop, request, finalAsked, nudged, retries>>

\* Every call of the round has a result (output, error, denial or
\* clarification); they form one message.
ToolsDone ==
    /\ pc = "tools"
    /\ history' = Append(history, Msg("res"))
    /\ pc' = "top"
    /\ UNCHANGED <<docOpen, outcome, loop, guards, request, executed>>

-----------------------------------------------------------------------------
(* The rest of the program *)

\* send_handle.abort(): the future is dropped at an await; nothing runs
\* finish_turn_doc.
Abort ==
    /\ pc \in {"connect", "stream", "tools"}
    /\ pc' = "idle"
    /\ outcome' = "cancelled"
    /\ UNCHANGED <<history, docOpen, loop, guards, request, executed>>

\* clear_messages; it waits for the conversation's lock.
ClearMessages ==
    /\ pc = "idle"
    /\ history' = <<>>
    /\ docOpen' = FALSE
    /\ UNCHANGED <<pc, outcome, loop, guards, request, executed>>

Respond == StreamText \/ \E sig \in Sigs : GuardStops(sig) \/ Nudge(sig) \/ RunTools(sig)

Progress ==
    \/ LoopTop
    \/ Connected \/ ContextOverflow \/ ConnectFails
    \/ StreamFails \/ Respond
    \/ ToolsDone

Next ==
    \/ BeginPanics
    \/ BuiltinReply
    \/ \E ev, large \in BOOLEAN : Begin(ev, large)
    \/ Progress
    \/ Abort
    \/ ClearMessages

Spec == Init /\ [][Next]_vars

\* The server answers or fails, and tools end or time out.
FairSpec == Spec /\ WF_vars(Progress)

-----------------------------------------------------------------------------
(* Properties *)

\* A request never carries more than max_api_messages messages, except for
\* the one final-answer instruction pushed after the pruning.
RequestFits ==
    pc = "connect" => Len(history) <= MaxApi + (IF finalAsked THEN 1 ELSE 0)

\* However the list is pruned, compacted, interrupted or continued by another
\* turn: past its first message a tool result directly follows the message
\* with its calls, and an assistant message is followed by a user message.
WellFormedHistory ==
    \A i \in 1 .. (Len(history) - 1) :
        /\ history[i + 1].kind = "res" => history[i].kind = "call"
        /\ history[i].kind \in {"say", "call"} =>
              history[i + 1].kind \in {"req", "note", "res"}

\* Every way a turn ends closes the turn of the task document, except the
\* abort of its task (and the panics that follow from it).
ExitsCloseDoc ==
    /\ pc # "idle" => docOpen
    /\ pc = "idle" /\ docOpen => outcome \in {"cancelled", "panicked"}

\* The loop's budget: at most one tool round more than max_tool_rounds runs
\* in a turn, however many overflows, nudges and retries it sees.
RoundBudget == Len(executed) <= MaxRounds + 1

RepeatsRead(i) ==
    executed[i] \in ReadOnlySigs /\ \E j \in 1 .. (i - 1) : executed[j] = executed[i]

\* The repeat guard cuts read loops: on a local endpoint no read-only round
\* runs twice in a turn, on a remote one no two successive rounds are repeats.
ReadLoopsAreCut ==
    \A i \in DOMAIN executed :
        RepeatsRead(i) => ~Local /\ (i = 1 \/ ~RepeatsRead(i - 1))

InHistory(m) == \E i \in DOMAIN history : history[i] = m

\* After a proactive handoff the overflow retry condenses the history around
\* the current request and never drops it.
RetryKeepsRequest ==
    [][ContextOverflow /\ preserve /\ InHistory(Request(turn)) =>
         InHistory(Request(turn))']_vars

\* A started turn ends, whatever the server and the tools answer.
TurnEnds == (pc # "idle") ~> (pc = "idle")
=============================================================================

