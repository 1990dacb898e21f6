----------------------------- MODULE TurnUpdates -----------------------------
(***************************************************************************)
(* The UiUpdates a turn sends for its text, its tool calls and its end     *)
(* (src/state/conversation/streaming.rs, forwarded by                      *)
(* src/runtime/context.rs), as both the server and batch mode receive      *)
(* them.  An update has a kind k, a block index i and a value v.           *)
(***************************************************************************)
EXTENDS Integers, Sequences

Update(k, i, v) == [k |-> k, i |-> i, v |-> v]

\* A tool call of the model: its source id and the tool.
CallBlock(c) == [k |-> "call", id |-> c.id, name |-> c.name, args |-> <<>>]
ResultBlock(c, err) == [k |-> "result", id |-> c.id, err |-> err]

\* The block of the call while the response streams (upsert_turn_block, then its end).
CallStreamed(c) == <<Update("block", 1, CallBlock(c)), Update("block_complete", 1, 0)>>

\* set_tool_call_status announces the block again, under the index of its entry, and
\* never completes that one.
SetToolCallStatus(c) == <<Update("block", 2, CallBlock(c))>>

\* push_tool_result_block
PushToolResultBlock(c, err) ==
    <<Update("block", 3, ResultBlock(c, err)), Update("block_complete", 3, 0)>>

\* emit_text_update; a block of thinking is forwarded empty, then its text, then its end.
TextUpdate(text) == <<Update("delta", 0, text)>>
ThinkingBlock(text) ==
    <<Update("block", 4, [k |-> "thinking", text |-> <<>>]), Update("block_delta", 4, text),
      Update("block_complete", 4, 0)>>

\* promote_thinking_blocks_to_final_text reopens the block without its text; the block is
\* completed when the turn drains its normalisers.
PromoteThinkingBlock ==
    <<Update("block", 4, [k |-> "final", text |-> <<>>]), Update("block_complete", 4, 0)>>

ApprovalAsk(v) == <<Update("ask", 0, v)>>
PulseComplete == <<Update("complete", 0, 0)>>
PulseError == <<Update("error", 0, 0)>>

\* An error event inside the stream (send_message) is sent on like the last one, while the
\* turn goes on.  The value only marks it: no consumer looks at it.
StreamError == <<Update("error", 0, 1)>>
=============================================================================
