-------------------------- MODULE EnvelopeNormalizer --------------------------
(***************************************************************************)
(* RuntimeEnvelopeNormalizer (src/runtime/json_handoff.rs and              *)
(* json_handoff/tool_calls.rs, derived.rs): the writer of the envelope     *)
(* sequence that every consumer (TUI, batch, server) reads.  Each          *)
(* operation takes the normalizer n and returns it with the envelopes it   *)
(* emitted appended to n.out.                                              *)
(*                                                                         *)
(* An envelope keeps its type t, the block index or tool call id i it      *)
(* names, a value v and its sequence number.  Times, sources and wording   *)
(* are left out.                                                           *)
(***************************************************************************)
EXTENDS Integers, Sequences, SequencesExt, FiniteSetsExt

NoIndex == -1
EmptyMap == [x \in {} |-> x]

Put(f, k, v) == [x \in DOMAIN f \cup {k} |-> IF x = k THEN v ELSE f[x]]
Drop(f, k) == [x \in DOMAIN f \ {k} |-> f[x]]

SyntheticStart == 100          \* SYNTHETIC_FINAL_TEXT_BLOCK_START

NewNormalizer(ingress) ==
    [pulse |-> 0, seq |-> 1, calls |-> EmptyMap, streaming |-> EmptyMap,
     files |-> {}, ids |-> 0, openFinal |-> NoIndex, nextFinal |-> SyntheticStart,
     ingress |-> ingress, out |-> <<>>]

Emit(n, t, i, v) ==
    [n EXCEPT !.out = Append(@, [t |-> t, i |-> i, v |-> v, pulse |-> n.pulse, seq |-> n.seq]),
              !.seq = @ + 1]

Taken(n) == [n EXCEPT !.out = <<>>]

StartPulse(n, k, ingress) ==
    Emit([n EXCEPT !.pulse = k, !.calls = EmptyMap, !.streaming = EmptyMap,
                   !.files = {}, !.openFinal = NoIndex, !.nextFinal = SyntheticStart,
                   !.ingress = ingress],
         "pulse_start", NoIndex, "")

(***************************************************************************)
(* Tool calls: a fresh runtime id per call, keyed by the source's id.      *)
(***************************************************************************)
RecordToolCall(n, source, name, args) ==
    LET id == n.ids + 1
    IN  Emit([n EXCEPT !.ids = id,
                       !.calls = Put(@, source, [id |-> id, name |-> name, raw |-> args])],
             "tool_started", id, args)

FileTools == {"write_file", "apply_patch", "edit_file", "git_add", "rename_file"}
EvidenceTools == {"git_status", "git_diff", "git_log", "git_show", "git_add", "git_commit"}

RecordToolResult(n, source, isError) ==
    LET t == IF isError THEN "tool_failed" ELSE "tool_completed"
    IN  IF source \in DOMAIN n.calls
        THEN Emit([n EXCEPT !.calls = Drop(@, source),
                            !.files = IF ~isError /\ n.calls[source].name \in FileTools
                                      THEN @ \cup {n.calls[source].name} ELSE @],
                  t, n.calls[source].id, n.calls[source].name)
        ELSE Emit(n, t, NoIndex, "")

\* append_pending_tool_delta finds the pending call by its runtime id.
ArgumentsDelta(n, id, delta) ==
    LET owners == {s \in DOMAIN n.calls : n.calls[s].id = id}
        appended == [s \in DOMAIN n.calls |->
                        IF s \in owners THEN [n.calls[s] EXCEPT !.raw = @ \o delta]
                        ELSE n.calls[s]]
    IN  Emit([n EXCEPT !.calls = appended], "tool_arguments", id, delta)

(***************************************************************************)
(* normalize_ui_update, one operation per kind of update.                  *)
(***************************************************************************)
CloseFinalText(n) ==
    IF n.openFinal = NoIndex THEN n
    ELSE Emit([n EXCEPT !.openFinal = NoIndex], "block_complete", n.openFinal, "")

EnsureFinalText(n) ==
    IF n.openFinal # NoIndex THEN n
    ELSE Emit([n EXCEPT !.openFinal = n.nextFinal, !.nextFinal = @ + 1],
              "block_start", n.nextFinal, "final")

StreamDelta(n, text) ==
    LET m == EnsureFinalText(n) IN Emit(m, "block_delta", m.openFinal, text)

TranscriptLine(n, line) == Emit(CloseFinalText(n), "line", NoIndex, line)

\* block: [k |-> "thinking"] or [k |-> "call", id, name, args] or [k |-> "result", id, err]
StreamBlockStart(n, index, block) ==
    LET m == Emit(CloseFinalText(n), "block_start", index, block.k)
    IN  CASE block.k = "call" ->
               LET c == RecordToolCall(m, block.id, block.name, block.args)
               IN  [c EXCEPT !.streaming = Put(@, index, c.calls[block.id].id)]
          [] block.k = "result" -> RecordToolResult(m, block.id, block.err)
          [] OTHER -> m

StreamBlockDelta(n, index, delta) ==
    LET m == Emit(n, "block_delta", index, delta)
    IN  IF index \in DOMAIN n.streaming THEN ArgumentsDelta(m, n.streaming[index], delta) ELSE m

StreamBlockComplete(n, index) ==
    Emit([n EXCEPT !.streaming = Drop(@, index)], "block_complete", index, "")

ResolveChangedFiles(n, files) == IF files = {} THEN n.files ELSE files

ForgetCalls(n) == [n EXCEPT !.calls = EmptyMap, !.streaming = EmptyMap]

PulseEnd(n, status, files) == Emit(n, "pulse_end", NoIndex, [status |-> status, files |-> files])

FinishTurn(n, status, files) ==
    LET resolved == ResolveChangedFiles(n, files)
    IN  PulseEnd(ForgetCalls(CloseFinalText(n)), status, resolved)

EmitError(n, recoverable, files) ==
    LET resolved == ResolveChangedFiles(n, files)
        m == Emit(CloseFinalText(n), "error", NoIndex, "")
    IN  IF recoverable THEN m ELSE PulseEnd(ForgetCalls(m), "failed", resolved)

ApprovalAsked(n, tool) == Emit(CloseFinalText(n), "approval_request", NoIndex, tool)

ApprovalAnswered(n, approved) == Emit(n, "approval_resolved", NoIndex, approved)

(***************************************************************************)
(* derive_batch_records: the per-pulse records read back from envelopes.   *)
(***************************************************************************)
NoTurn == [pulse |-> 0, text |-> EmptyMap, said |-> <<>>, evidence |-> 0, files |-> {}]

Closed(turn) ==      \* into_record flushes the text blocks still open
    LET order == SetToSortSeq(DOMAIN turn.text, LAMBDA a, b : a < b)
    IN  [turn EXCEPT !.text = EmptyMap,
                     !.said = @ \o FlattenSeq([k \in 1..Len(order) |-> turn.text[order[k]]])]

DeriveStep(d, e) ==
    LET turn == d.turn
        live == turn.pulse # 0
        Became(t) == [d EXCEPT !.turn = t]
    IN  CASE e.t = "pulse_start" ->
               [d EXCEPT !.records = IF live THEN Append(@, Closed(turn)) ELSE @,
                         !.turn = [NoTurn EXCEPT !.pulse = e.pulse]]
          [] live /\ e.t = "block_start" /\ e.v = "final" ->
               Became([turn EXCEPT !.text = Put(@, e.i, <<>>)])
          [] live /\ e.t = "block_delta" /\ e.i \in DOMAIN turn.text ->
               Became([turn EXCEPT !.text = Put(@, e.i, @[e.i] \o e.v)])
          [] live /\ e.t = "block_complete" /\ e.i \in DOMAIN turn.text ->
               Became([turn EXCEPT !.said = @ \o turn.text[e.i], !.text = Drop(@, e.i)])
          [] live /\ e.t \in {"tool_completed", "tool_failed"} /\ e.v \in EvidenceTools ->
               Became([turn EXCEPT !.evidence = @ + 1])
          [] live /\ e.t = "pulse_end" ->
               [d EXCEPT !.records = Append(@, Closed([turn EXCEPT !.files = e.v.files])),
                         !.turn = NoTurn, !.status = e.v.status, !.files = @ \cup e.v.files]
          [] e.t = "max_turns" -> [d EXCEPT !.maxTurns = TRUE]
          [] OTHER -> d

DeriveBatchRecords(envelopes) ==
    LET d == FoldLeft(DeriveStep,
                      [records |-> <<>>, turn |-> NoTurn, status |-> "none",
                       files |-> {}, maxTurns |-> FALSE], envelopes)
    IN  IF d.turn.pulse = 0 THEN d
        ELSE [d EXCEPT !.records = Append(@, Closed(d.turn)), !.turn = NoTurn]
=============================================================================
