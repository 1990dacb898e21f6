---------------------------- MODULE TaskTranscript ----------------------------
(***************************************************************************)
(* The two documents of a turn: the conversation's, changed as the         *)
(* response arrives (src/state/conversation/streaming.rs,                  *)
(* src/runtime/task_document/condenser.rs), and the screen's, which        *)
(* on_model_update rebuilds from the updates sent to it                    *)
(* (src/app/model_update.rs), with the rows and the scroll position        *)
(* derived from it (transcript_projection.rs, scroll.rs).                  *)
(*                                                                         *)
(* A piece of text is one line; "args" and "advice" are the lines that the *)
(* model did not write as text.  Block indices start anew in every round.  *)
(***************************************************************************)
EXTENDS Integers, Sequences, SequencesExt, FiniteSets

CONSTANTS Lines,      \* lines the model may write
          MaxIndex,   \* bound: block indices of a round
          MaxCalls,   \* bound: tool calls of a turn
          MaxPieces,  \* bound: steps of the model in a turn
          MaxLag,     \* bound: updates waiting while the conversation goes on
          MaxTurns    \* bound: turns

VARIABLES conv,   \* the conversation's side of the turn
          wire,   \* updates on their way to the screen
          ui      \* TuiMode

transcriptVars == <<conv, wire, ui>>

(***************************************************************************)
(* Entries and updates.                                                    *)
(***************************************************************************)
Entry(k) == [k |-> k, i |-> 0, phase |-> "none", text |-> <<>>, collapsed |-> FALSE,
             streaming |-> FALSE, call |-> 0, status |-> "none"]
UserInput == Entry("user")
Notice == Entry("notice")
Block(i, phase, text, collapsed) ==
    [Entry("block") EXCEPT !.i = i, !.phase = phase, !.text = text,
                           !.collapsed = collapsed, !.streaming = TRUE]
ToolCall(c, status) == [Entry("call") EXCEPT !.call = c, !.status = status]
ToolResult(c, status) == [Entry("result") EXCEPT !.call = c, !.status = status]

Unset == MaxIndex + 10      \* block_index: usize::MAX
To(k, i, e) == <<[k |-> k, i |-> i, e |-> e]>>

\* The last entry that satisfies P, the first one, or 0.
LastThat(entries, P(_)) ==
    LET at == {n \in 1..Len(entries) : P(entries[n])}
    IN  IF at = {} THEN 0 ELSE CHOOSE n \in at : \A k \in at : k <= n
FirstThat(entries, P(_)) ==
    LET at == {n \in 1..Len(entries) : P(entries[n])}
    IN  IF at = {} THEN 0 ELSE CHOOSE n \in at : \A k \in at : n <= k
BlockAt(entries, i) == LastThat(entries, LAMBDA e : e.k = "block" /\ e.i = i)
CallAt(entries, c) == FirstThat(entries, LAMBDA e : e.k = "call" /\ e.call = c)

\* heard, mistaken, failed: what the stream said, whether a piece of it was taken for a
\* repetition, and the entries when an error event came inside it.
NewConv == [open |-> FALSE, entries |-> <<>>, base |-> 0, count |-> 0, next |-> 0,
            cur |-> -1, tool |-> 0, ran |-> {}, steps |-> 0, turns |-> 0,
            heard |-> <<>>, mistaken |-> FALSE, failed |-> <<>>]
NewUi == [open |-> FALSE, entries |-> <<>>, structured |-> FALSE,
          done |-> <<>>, notices |-> 0, scroll |-> 0, follow |-> TRUE]

TranscriptInit == conv = NewConv /\ wire = <<>> /\ ui = NewUi

(***************************************************************************)
(* The conversation.                                                       *)
(***************************************************************************)
\* bounded_incremental_suffix: a delta that repeats the whole text brings its rest, one
\* that is a beginning of the text is dropped.
IncrementalSuffix(existing, incoming) ==
    CASE Len(incoming) > Len(existing) /\ IsPrefix(existing, incoming) ->
           SubSeq(incoming, Len(existing) + 1, Len(incoming))
      [] Len(incoming) <= Len(existing) /\ IsPrefix(incoming, existing) -> <<>>
      [] OTHER -> incoming

\* emit_stream_block_start_update pads the indices that were skipped.
Pads(c, i) == [n \in 1..(IF i > c.count THEN i - c.count ELSE 0) |->
                 Block(c.count + n - 1, "thinking", <<>>, TRUE)]
PadStarts(c, i) == FoldLeft(LAMBDA o, e : o \o To("start", e.i, e), <<>>, Pads(c, i))

Busy == conv.open /\ conv.steps < MaxPieces
Step(c) == [c EXCEPT !.steps = @ + 1]

\* start_single_turn on the screen, then begin_turn_doc in the conversation.  (PulseRuntime
\* has the turn that is begun while the last one still runs behind an error.)
BeginTurn ==
    /\ ~conv.open /\ ~ui.open /\ wire = <<>> /\ conv.turns < MaxTurns
    /\ conv' = [NewConv EXCEPT !.open = TRUE, !.entries = <<UserInput>>, !.base = 1,
                               !.turns = conv.turns + 1]
    /\ ui' = [NewUi EXCEPT !.open = TRUE, !.entries = <<UserInput>>,
                           !.done = ui.done, !.notices = ui.notices]
    /\ UNCHANGED wire

\* upsert_turn_block: the block first, then its padding; the screen gets them in order.
BlockStart(i, reasoning) ==
    /\ Busy /\ conv.tool = 0 /\ i \in conv.next..MaxIndex
    /\ LET e == Block(i, "thinking", <<>>, reasoning)
       IN  /\ conv' = Step([conv EXCEPT !.entries = Append(@, e) \o Pads(conv, i),
                                        !.count = i + 1, !.next = i + 1, !.cur = i])
           /\ wire' = wire \o PadStarts(conv, i) \o To("start", i, e)
    /\ UNCHANGED ui

\* append_text_delta: the piece is the next line, or the block's whole text with it.
BlockDelta(line, repeats) ==
    /\ Busy /\ conv.cur >= 0
    /\ LET n == BlockAt(conv.entries, conv.cur)
           existing == conv.entries[n].text
           delta == IncrementalSuffix(existing, IF repeats THEN Append(existing, line) ELSE <<line>>)
       IN  /\ conv' = Step([conv EXCEPT !.entries[n].text = @ \o delta, !.heard = Append(@, line),
                                        !.mistaken = @ \/ delta # <<line>>])
           /\ wire' = IF delta = <<>> THEN wire
                      ELSE wire \o To("delta", conv.cur, [Entry("text") EXCEPT !.text = delta])
    /\ UNCHANGED ui

BlockComplete ==
    /\ conv.open /\ conv.cur >= 0
    /\ conv' = [conv EXCEPT !.entries[BlockAt(conv.entries, conv.cur)].streaming = FALSE,
                            !.cur = -1]
    /\ wire' = wire \o To("complete", conv.cur, Entry("none"))
    /\ UNCHANGED ui

\* ToolCallStarted, its arguments, the end of its block.
Calls == {conv.entries[n].call : n \in {n \in 1..Len(conv.entries) : conv.entries[n].k = "call"}}
ToolStart ==
    /\ Busy /\ conv.cur = -1 /\ conv.tool = 0 /\ conv.next <= MaxIndex
    /\ Cardinality(Calls) < MaxCalls
    /\ LET c == Cardinality(Calls) + 1
           i == conv.next
       IN  /\ conv' = Step([conv EXCEPT !.entries = (@ \o Pads(conv, i)) \o <<ToolCall(c, "pending")>>,
                                        !.count = i + 1, !.next = i + 1, !.tool = c])
           /\ wire' = wire \o PadStarts(conv, i) \o To("start", i, ToolCall(c, "pending"))
                           \o To("delta", i, [Entry("text") EXCEPT !.text = <<"args">>])
                           \o To("arguments", i, ToolCall(c, "none"))
                           \o To("complete", i, Entry("none"))
    /\ UNCHANGED ui

\* set_tool_call_status
WithStatus(entries, c, status) == [entries EXCEPT ![CallAt(entries, c)].status = status]

\* A call runs once the response is complete.
ToolRun(c) ==
    /\ conv.open /\ conv.cur = -1 /\ c \in Calls \ conv.ran
    /\ conv.entries[CallAt(conv.entries, c)].status = "pending"
    /\ conv' = [conv EXCEPT !.entries = WithStatus(@, c, "executing"), !.tool = 0]
    /\ wire' = wire \o To("start", CallAt(conv.entries, c) - 1, ToolCall(c, "executing"))
    /\ UNCHANGED ui

\* The final status and push_tool_result_block; a refused call is not run, and its
\* clarification is sent as text too (emit_tool_error).
ToolDone(c, status) ==
    /\ conv.open /\ conv.cur = -1 /\ c \in Calls \ conv.ran
    /\ conv.entries[CallAt(conv.entries, c)].status
         = IF status = "cancelled" THEN "pending" ELSE "executing"
    /\ LET final == IF status = "complete" THEN "complete" ELSE "error"
           after == Append(WithStatus(conv.entries, c, final), ToolResult(c, final))
       IN  /\ conv' = [conv EXCEPT !.entries = after, !.ran = @ \cup {c}, !.tool = 0]
           /\ wire' = wire \o To("start", CallAt(conv.entries, c) - 1, ToolCall(c, status))
                           \o To("start", Len(after) - 1, ToolResult(c, final))
                           \o To("complete", Len(after) - 1, Entry("none"))
                           \o IF status = "cancelled"
                              THEN To("text", 0, [Entry("text") EXCEPT !.text = <<"advice">>])
                              ELSE <<>>
    /\ UNCHANGED ui

RoundOver == conv.open /\ conv.cur = -1 /\ Calls = conv.ran
RoundCalls == \E n \in (conv.base + 1)..Len(conv.entries) : conv.entries[n].k = "call"

\* advance_round_start; the loop guard may send a line first.
NextRound(guarded) ==
    /\ RoundOver /\ Busy /\ conv.next > 0
    /\ conv' = Step([conv EXCEPT !.base = Len(conv.entries), !.count = 0, !.next = 0, !.tool = 0])
    /\ wire' = IF guarded THEN wire \o To("line", 0, Notice) ELSE wire
    /\ UNCHANGED ui

\* promote_thinking_blocks_to_final_text, finish_turn_doc.
Promoted(entries, base) ==
    {n \in (base + 1)..Len(entries) : entries[n].k = "block" /\ entries[n].phase = "thinking"
                                      /\ ~entries[n].collapsed}
EndTurn ==
    /\ RoundOver /\ ~RoundCalls
    /\ LET ns == Promoted(conv.entries, conv.base)
           at == SetToSortSeq(ns, <)
       IN  /\ conv' = [conv EXCEPT !.open = FALSE,
                         !.entries = [n \in 1..Len(@) |->
                                        [@[n] EXCEPT !.phase = IF n \in ns THEN "final" ELSE @,
                                                     !.streaming = FALSE]]]
           /\ wire' = wire \o FoldLeft(LAMBDA o, n :
                                 o \o To("start", conv.entries[n].i,
                                         Block(conv.entries[n].i, "final", <<>>, FALSE)), <<>>, at)
                           \o To("end", 0, Entry("none"))
    /\ UNCHANGED ui

\* The turn gives up: the error is the last the screen hears of it.
FailTurn ==
    /\ conv.open
    /\ conv' = [conv EXCEPT !.open = FALSE,
                            !.entries = [n \in 1..Len(@) |-> [@[n] EXCEPT !.streaming = FALSE]]]
    /\ wire' = wire \o To("error", 0, Entry("none"))
    /\ UNCHANGED ui

\* An error event in the stream goes to the screen alone: the conversation reads on.
StreamFails ==
    /\ Busy /\ \A c \in Calls \ conv.ran : conv.entries[CallAt(conv.entries, c)].status = "pending"
    /\ conv' = Step([conv EXCEPT !.failed = IF @ = <<>> THEN conv.entries ELSE @])
    /\ wire' = wire \o To("error", 0, Entry("none"))
    /\ UNCHANGED ui

(***************************************************************************)
(* The rows of the screen.  All calls look alike, so that repetitions are  *)
(* folded; a finished call has one row more than a pending one.            *)
(***************************************************************************)
ResultOf(entries, c) == LastThat(entries, LAMBDA e : e.k = "result" /\ e.call = c)
Header(entries, e) ==
    IF ResultOf(entries, e.call) = 0 THEN "pending" ELSE entries[ResultOf(entries, e.call)].status
Row(k, n) == [k |-> k, n |-> n]

\* The header, the input and, of a finished call, the result.
Paragraph(header) ==
    <<Row("head", 1), Row("detail", 0)>> \o IF header = "pending" THEN <<>> ELSE <<Row("detail", 0)>>

FoldCall(a, header) ==
    IF a.last = header
    THEN [a EXCEPT !.n = @ + 1,
                   !.rows = IF @ # <<>> /\ @[Len(@)].k = "fold"
                            THEN [@ EXCEPT ![Len(@)].n = a.n + 2]
                            ELSE Append(@, Row("fold", a.n + 2))]
    ELSE [last |-> header, n |-> 0, rows |-> a.rows \o Paragraph(header)]

Plain(a, k, lines) ==
    [a EXCEPT !.rows = @ \o [n \in 1..lines |-> Row(k, 0)],
              !.last = IF lines > 0 THEN "none" ELSE @, !.n = IF lines > 0 THEN 0 ELSE @]

AppendTurnRows(entries) ==
    FoldLeft(LAMBDA a, e :
        CASE e.k = "block" /\ ~(e.phase = "thinking" /\ e.collapsed) -> Plain(a, "text", Len(e.text))
          [] e.k \in {"user", "notice"} -> Plain(a, e.k, 1)
          [] e.k = "call" -> FoldCall(a, Header(entries, e))
          [] OTHER -> a,
        [rows |-> <<>>, last |-> "none", n |-> 0], entries).rows

\* append_active_turn_rows: a line says that the answer is awaited.
ActiveRows(entries) ==
    AppendTurnRows(entries)
    \o IF \E n \in 1..Len(entries) : entries[n].k \in {"block", "call", "result"} THEN <<>>
       ELSE <<Row("waiting", 0)>>

RowCount(u) ==
    u.notices + FoldLeft(LAMBDA n, t : n + Len(AppendTurnRows(t)), 0, u.done)
              + IF u.open THEN Len(ActiveRows(u.entries)) ELSE 0

(***************************************************************************)
(* Scrolling: the offset counts rows from the bottom.                      *)
(***************************************************************************)
AtMost(n, limit) == IF n > limit THEN limit ELSE n
LastRow(u) == IF RowCount(u) = 0 THEN 0 ELSE RowCount(u) - 1

\* clamp_transcript_after_mutation
Clamped(u) == [u EXCEPT !.scroll = AtMost(@, LastRow(u))]

\* preserve_transcript_scroll_on_growth
PreserveScroll(before, u) ==
    LET growth == RowCount(u) - RowCount(before)
    IN  IF u.scroll = 0 THEN u
        ELSE Clamped([u EXCEPT !.scroll = @ + IF growth > 0 THEN growth ELSE 0])

(***************************************************************************)
(* on_model_update.                                                        *)
(***************************************************************************)
Push(u, e) == [u EXCEPT !.entries = Append(@, e)]

\* push_document_notice: without a pulse the notice goes before the transcript.
PushNotice(u) == IF u.open THEN Push(u, Notice) ELSE [u EXCEPT !.notices = @ + 1]

LastBlock(u, i) ==
    LET n == Len(u.entries)
    IN  n > 0 /\ u.entries[n].k = "block" /\ u.entries[n].i = i

\* Mutant: a block that is announced again replaces the text it has.
OnBlock_Replaced(u, e) ==
    LET n == Len(u.entries)
        same == LastBlock(u, e.i) \/ (e.phase = "final" /\ LastBlock(u, Unset))
    IN  IF u.open /\ same
        THEN [u EXCEPT !.entries[n].phase = e.phase, !.entries[n].i = e.i, !.entries[n].text = e.text,
                       !.entries[n].collapsed = e.collapsed, !.entries[n].streaming = TRUE]
        ELSE IF u.open THEN Push(u, e) ELSE u

\* StreamBlockStart of a thinking or final block; Unset marks the block of plain text.
OnBlock(u, e) ==
    LET n == Len(u.entries)
        same == LastBlock(u, e.i) \/ (e.phase = "final" /\ LastBlock(u, Unset))
    IN  IF u.open /\ same
        THEN [u EXCEPT !.entries[n].phase = e.phase, !.entries[n].i = e.i,
                       !.entries[n].collapsed = e.collapsed, !.entries[n].streaming = TRUE,
                       !.entries[n].text = IF e.text = <<>> THEN @ ELSE e.text]
        ELSE IF u.open THEN Push(u, e) ELSE u

\* StreamBlockStart of a tool call: a known call changes its status only.
OnCall(u, e) ==
    LET n == CallAt(u.entries, e.call)
    IN  IF ~u.open THEN u
        ELSE IF n # 0 THEN [u EXCEPT !.entries[n].status = e.status]
        ELSE Push(u, ToolCall(e.call, "pending"))

OnResult(u, e) ==
    LET n == CallAt(u.entries, e.call)
    IN  IF ~u.open THEN u
        ELSE Push(IF n = 0 THEN u ELSE [u EXCEPT !.entries[n].status = e.status], e)

OnStart(u, x) ==
    CASE x.e.k = "block" ->
           OnBlock(IF x.e.phase = "final" THEN [u EXCEPT !.structured = TRUE] ELSE u, x.e)
      [] x.e.k = "call" -> OnCall(u, x.e)
      [] x.e.k = "result" -> OnResult(u, x.e)

\* StreamBlockDelta goes to the newest block with the index, of whichever round.
OnDelta(u, x) ==
    LET n == BlockAt(u.entries, x.i)
    IN  IF ~u.open \/ n = 0 THEN u
        ELSE [u EXCEPT !.entries[n].text = @ \o x.e.text, !.structured = TRUE]

OnComplete(u, x) ==
    LET n == BlockAt(u.entries, x.i)
    IN  IF ~u.open \/ n = 0 THEN u ELSE [u EXCEPT !.entries[n].streaming = FALSE]

\* StreamDelta: text outside of any block (PulseRuntime has the cancelled turn).
OnText(u, x) ==
    LET n == LastThat(u.entries, LAMBDA e : e.k = "block" /\ e.streaming /\ e.phase = "final")
    IN  IF ~u.open \/ u.structured THEN u
        ELSE IF n # 0 THEN [u EXCEPT !.entries[n].text = @ \o x.e.text]
        ELSE Push(u, Block(Unset, "final", x.e.text, FALSE))

\* PulseComplete without command sessions, Error: the turn is closed, reset_turn_capture.
\* The timing line comes after the turn was closed.  Behind an error inside the stream there
\* is nothing to close.
Closed(u) ==
    [u EXCEPT !.open = FALSE, !.entries = <<>>, !.structured = FALSE,
              !.scroll = 0, !.follow = TRUE,
              !.done = Append(@, [n \in 1..Len(u.entries) |->
                                    [u.entries[n] EXCEPT !.streaming = FALSE]])]
Reset(u) == [u EXCEPT !.structured = FALSE, !.scroll = 0, !.follow = TRUE]
OnEnd(u) == PushNotice(IF u.open THEN Closed(u) ELSE Reset(u))
OnError(u) == IF u.open THEN Closed(PushNotice(u)) ELSE Reset(PushNotice(u))

OnModelUpdate(u, x) ==
    CASE x.k = "line" -> PreserveScroll(u, PushNotice(u))
      [] x.k = "start" -> PreserveScroll(u, Clamped(OnStart(u, x)))
      [] x.k = "delta" -> Clamped(OnDelta(u, x))
      [] x.k = "complete" -> OnComplete(u, x)
      [] x.k = "text" -> PreserveScroll(u, Clamped(OnText(u, x)))
      [] x.k = "arguments" -> PreserveScroll(u, Clamped(u))
      [] x.k = "end" -> OnEnd(u)
      [] x.k = "error" -> OnError(u)

Receive ==
    /\ wire # <<>>
    /\ ui' = OnModelUpdate(ui, Head(wire)) /\ wire' = Tail(wire)
    /\ UNCHANGED conv

\* apply_output_scroll_action on the transcript.
ScrollUp == ui.scroll = 0 /\ LastRow(ui) > 0 /\ ui' = Clamped([ui EXCEPT !.scroll = 1])
            /\ UNCHANGED <<conv, wire>>
ScrollEnd == ui.scroll > 0 /\ ui' = [ui EXCEPT !.scroll = 0] /\ UNCHANGED <<conv, wire>>

Converse ==
    \/ BlockComplete \/ ToolStart \/ EndTurn \/ FailTurn \/ StreamFails
    \/ \E i \in 0..MaxIndex, r \in BOOLEAN : BlockStart(i, r)
    \/ \E l \in Lines, r \in BOOLEAN : BlockDelta(l, r)
    \/ \E c \in 1..MaxCalls : ToolRun(c) \/ \E s \in {"complete", "cancelled"} : ToolDone(c, s)
    \/ \E g \in BOOLEAN : NextRound(g)

TranscriptNext ==
    \/ BeginTurn \/ (Len(wire) <= MaxLag /\ Converse)
    \/ Receive \/ ScrollUp \/ ScrollEnd

(***************************************************************************)
(* What must hold.                                                         *)
(***************************************************************************)
TranscriptTypeOK ==
    /\ conv.open \in BOOLEAN /\ ui.open \in BOOLEAN /\ ui.scroll \in Nat
    /\ \A n \in 1..Len(wire) : wire[n].k \in {"line", "start", "delta", "complete", "text",
                                              "arguments", "end", "error"}

Said(entries) ==
    FoldLeft(LAMBDA o, e : IF e.k = "block" THEN o \o SelectSeq(e.text, LAMBDA l : l \in Lines) ELSE o,
             <<>>, entries)
Shown == IF ui.open THEN ui.entries ELSE IF ui.done = <<>> THEN <<>> ELSE ui.done[Len(ui.done)]
Statuses(entries) ==
    [c \in {entries[n].call : n \in {n \in 1..Len(entries) : entries[n].k = "call"}} |->
       entries[CallAt(entries, c)].status]

\* What the screen can know of the turn: an error event inside the stream closes its
\* document, and what the conversation records behind it does not reach the screen.
Forwarded == IF conv.failed = <<>> THEN conv.entries ELSE conv.failed

\* Once the updates are read, the screen shows what the stream said until then: every line
\* exactly once and in order, although blocks are announced again, merged, padded and
\* promoted on the way, and a piece may repeat the text before it.  The exception is a line
\* that happens to be how its block begins: it is taken for a repetition, and is lost.
TextShownOnce ==
    wire = <<>> /\ conv.turns > 0 =>
      /\ Said(Shown) = Said(Forwarded)
      /\ ~conv.mistaken => Said(conv.entries) = conv.heard /\ IsPrefix(Said(Forwarded), conv.heard)

\* ... and every call with the outcome the conversation had for it then.
OutcomesAgree == wire = <<>> /\ conv.turns > 0 => Statuses(Shown) = Statuses(Forwarded)

\* Folding repeated calls hides none: the folded rows account for every call of a turn.
CallsAccounted ==
    \A entries \in {ui.entries} \cup {ui.done[n] : n \in 1..Len(ui.done)} :
       FoldLeft(LAMBDA n, r : CASE r.k = "head" -> n + 1 [] r.k = "fold" -> n + r.n - 1
                                [] OTHER -> n, 0, AppendTurnRows(entries))
         = Cardinality({n \in 1..Len(entries) : entries[n].k = "call"})

\* A reader who scrolled up keeps the rows in front of him while the turn grows below
\* (text arriving in a block that is there already moves them: it only clamps).
RowsKept ==
    /\ ui.scroll > 0 /\ ui'.open /\ ui.open /\ wire' # wire /\ wire # <<>>
    /\ wire' = Tail(wire) /\ Head(wire).k # "delta" /\ RowCount(ui') > RowCount(ui)
    => RowCount(ui') - ui'.scroll = RowCount(ui) - ui.scroll
=============================================================================
