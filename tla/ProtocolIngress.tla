---------------------------- MODULE ProtocolIngress ----------------------------
(***************************************************************************)
(* Protocol ingress (src/runtime/json_handoff/protocol_ingress.rs): turns  *)
(* decoded provider items (messages-v1) and chat-compatible chunks into    *)
(* envelopes.                                                              *)
(*                                                                         *)
(* A payload is one of                                                     *)
(*   [k |-> "message_start" / "message_delta", meta, usage]                *)
(*   [k |-> "block_start", i, b]  with b.k "text", "call", "result", "bad" *)
(*   [k |-> "block_delta", i, text, json]   [k |-> "block_stop", i]        *)
(*   [k |-> "ping"]  (also message_stop, unknown)   [k |-> "error"]        *)
(*   [k |-> "done"]  [k |-> "chunk", ident, meta, role, usage, choices]    *)
(* text is a token sequence of TextNormaliser; arguments are sequences.    *)
(***************************************************************************)
EXTENDS EnvelopeNormalizer, TextNormaliser

NewIngress ==
    [started |-> FALSE, open |-> {}, tokens |-> 0, msgStarted |-> FALSE,
     norms |-> EmptyMap, nextTag |-> 1, life |-> EmptyMap,
     native |-> FALSE, terminated |-> FALSE]

Discovered == [id |-> "", name |-> "", args |-> <<>>, json |-> <<>>, lc |-> "discovered"]

MaxToolCallIndex == 4          \* MAX_TOOL_CALL_INDEX

SetIngress(n, g) == [n EXCEPT !.ingress = g]

EnsureStarted(n) ==
    IF n.ingress.started THEN n
    ELSE LET m == StartPulse(n, 1, NewIngress)
         IN  [m EXCEPT !.ingress.started = TRUE]

Metadata(n) == Emit(EnsureStarted(n), "metadata", NoIndex, "")

\* The tokens are added before the turn is started, and starting it resets them.
Usage(n, u) ==
    LET m == EnsureStarted([n EXCEPT !.ingress.tokens = @ + u])
    IN  IF u > 0 THEN Emit(m, "usage", NoIndex, u) ELSE m

\* What a normaliser flushes is text, never a call.
OnlyText(n, index, chunks) ==
    FoldLeft(LAMBDA m, c : StreamBlockDelta(m, index, c.s), n, chunks)

StopProviderBlock(n, index) ==
    LET g == n.ingress
        left == IF index \in DOMAIN g.norms THEN FinishNormaliser(g.norms[index]) ELSE <<>>
        m == SetIngress(n, [g EXCEPT !.open = @ \ {index}, !.norms = Drop(@, index)])
    IN  IF index \notin g.open THEN n
        ELSE StreamBlockComplete(OnlyText(m, index, left), index)

OpenToolBlock(n, index, b) ==
    LET m == EnsureStarted(n)
    IN  StreamBlockStart([m EXCEPT !.ingress.open = @ \cup {index}], index, b)

TaggedToolCall(n, input) ==
    LET index == n.ingress.nextTag
        call == [k |-> "call", id |-> <<"tagged", index>>, name |-> "tagged", args |-> <<input>>]
        m == [n EXCEPT !.ingress.nextTag = @ + 1]
    IN  IF n.ingress.native THEN n
        ELSE StopProviderBlock(OpenToolBlock(m, index, call), index)

EmitNormalisedChunks(n, index, chunks) ==
    FoldLeft(LAMBDA m, c : IF c.k = "text" THEN StreamBlockDelta(m, index, c.s)
                           ELSE TaggedToolCall(m, c.s), n, chunks)

ApplyText(n, index, text) ==
    LET norms == n.ingress.norms
        Apply(r) == EmitNormalisedChunks([n EXCEPT !.ingress.norms = Put(@, index, r.pending)],
                                         index, r.chunks)
    IN  Apply(Normalise(IF index \in DOMAIN norms THEN norms[index] ELSE <<>>, text))

OpenProviderBlock(n, index, b) ==
    LET m == EnsureStarted(n)
        norms == IF index \in DOMAIN m.ingress.norms THEN m.ingress.norms
                 ELSE Put(m.ingress.norms, index, <<>>)
        opened == StreamBlockStart([m EXCEPT !.ingress.open = @ \cup {index},
                                             !.ingress.norms = norms],
                                   index, [k |-> "thinking"])
    IN  CASE b.k = "text" -> IF b.text = <<>> THEN opened ELSE ApplyText(opened, index, b.text)
          [] b.k = "call" -> OpenToolBlock(n, index, b)
          [] OTHER -> n                           \* tool results open nothing

ApplyTextDelta(n, index, text) ==
    LET m == EnsureStarted(n)
        opened == IF index \in m.ingress.open THEN m
                  ELSE StreamBlockStart([m EXCEPT !.ingress.open = @ \cup {index}],
                                        index, [k |-> "thinking"])
    IN  IF text = <<>> THEN n ELSE ApplyText(opened, index, text)

ApplyArgumentsDelta(n, index, json) ==
    IF json = <<>> THEN n ELSE StreamBlockDelta(EnsureStarted(n), index, json)

ProviderItem(n, p) ==
    CASE p.k \in {"message_start", "message_delta"} ->
           LET m == IF p.meta THEN Metadata(n) ELSE n
           IN  IF p.usage = NoIndex THEN m ELSE Usage(m, p.usage)
      [] p.k = "block_start" ->
           IF p.b.k = "bad" THEN Emit(n, "error", NoIndex, "") ELSE OpenProviderBlock(n, p.i, p.b)
      [] p.k = "block_delta" ->
           IF p.text # <<>> THEN ApplyTextDelta(n, p.i, p.text)
           ELSE ApplyArgumentsDelta(n, p.i, p.json)
      [] p.k = "block_stop" -> StopProviderBlock(n, p.i)
      [] p.k = "error" -> Emit(n, "error", NoIndex, "")
      [] OTHER -> n

(***************************************************************************)
(* Chat-compatible chunks.                                                 *)
(***************************************************************************)
\* Mutant: arguments that arrived as JSON are forgotten when a string follows.
ToolArguments_JsonLost(s, tc) ==
    CASE tc.args = <<>> -> s
      [] ~tc.json -> [s EXCEPT !.args = @ \o tc.args, !.json = <<>>]
      [] OTHER -> [s EXCEPT !.json = tc.args]

ToolArguments(s, tc) ==      \* the arguments state after one tool delta
    CASE tc.args = <<>> -> s
      [] ~tc.json -> [s EXCEPT !.args = @ \o s.json \o tc.args, !.json = <<>>]
      [] s.lc = "discovered" /\ s.args = <<>> -> [s EXCEPT !.json = tc.args]
      [] OTHER -> [s EXCEPT !.args = @ \o s.json \o tc.args, !.json = <<>>]

NameCall(s, tc) == [s EXCEPT !.id = IF tc.id = "" THEN @ ELSE tc.id,
                             !.name = IF tc.name = "" THEN @ ELSE tc.name]

\* The call's state s after a delta: open its block once it has a name, then
\* send the arguments that wait.
AdvanceCall(n, index, s, opens) ==
    LET call == [k |-> "call", id |-> IF s.id = "" THEN <<"chat", index>> ELSE s.id,
                 name |-> s.name, args |-> s.json]
        flows == opens \/ s.lc = "opened"
        after == [s EXCEPT !.lc = IF opens THEN "opened" ELSE @,
                           !.json = IF opens THEN <<>> ELSE @,
                           !.args = IF flows THEN <<>> ELSE @]
        kept == [n EXCEPT !.ingress.life = Put(@, index, after), !.ingress.native = @ \/ opens]
    IN  ApplyArgumentsDelta(IF opens THEN OpenToolBlock(kept, index, call) ELSE kept,
                            index, IF flows THEN s.args ELSE <<>>)

ApplyToolDelta(n, tc) ==
    LET life == n.ingress.life
        index == 1 + IF tc.i > MaxToolCallIndex THEN MaxToolCallIndex ELSE tc.i
        old == IF index \in DOMAIN life THEN life[index] ELSE Discovered
        Advance(s) == AdvanceCall(n, index, s, s.lc = "discovered" /\ s.name # "")
    IN  IF n.ingress.terminated \/ old.lc = "closed" THEN n
        ELSE Advance(ToolArguments(NameCall(old, tc), tc))

CloseToolBlocks(n) ==
    LET life == n.ingress.life
        opened == {i \in DOMAIN life : life[i].lc = "opened"}
        closed == [n EXCEPT !.ingress.life =
                       [i \in DOMAIN life |-> [life[i] EXCEPT !.lc = "closed"]]]
    IN  FoldLeft(StopProviderBlock, closed, SetToSortSeq(opened, LAMBDA a, b : a < b))

MessageStart(n, c) ==
    LET m == [n EXCEPT !.ingress.msgStarted = TRUE,
                       !.ingress.terminated = IF c.role THEN FALSE ELSE @]
    IN  IF n.ingress.msgStarted \/ ~(c.ident \/ c.role \/ c.meta) THEN n
        ELSE IF c.meta THEN Metadata(m) ELSE m

FinishChoice(n, c, choice) ==
    IF ~choice.fin THEN n
    ELSE CloseToolBlocks(IF c.meta \/ choice.indexed THEN Metadata(n) ELSE n)

ApplyChoice(n, c, choice) ==
    FinishChoice(FoldLeft(ApplyToolDelta, ApplyTextDelta(n, 0, choice.text), choice.tools),
                 c, choice)

ChatChunk(n, c) ==
    LET begun == MessageStart(n, c)
        metered == IF c.usage = NoIndex THEN begun
                   ELSE Usage(IF c.meta THEN Metadata(begun) ELSE begun, c.usage)
    IN  FoldLeft(LAMBDA m, choice : ApplyChoice(m, c, choice), metered, c.choices)

ChatDone(n) ==
    LET m == CloseToolBlocks(n)
    IN  SetIngress(m, [m.ingress EXCEPT !.msgStarted = FALSE, !.terminated = TRUE,
                                        !.life = EmptyMap])

AdaptPayload(n, p) ==
    CASE p.k = "done" -> ChatDone(n)
      [] p.k = "chunk" -> ChatChunk(n, p)
      [] OTHER -> ProviderItem(n, p)

(***************************************************************************)
(* The end of the stream: flush the normalisers, close the blocks, end     *)
(* the pulse.                                                              *)
(***************************************************************************)
Ascending(S) == SetToSortSeq(S, LAMBDA a, b : a < b)

FinishIngressTurn(n) ==
    LET g == n.ingress
        flushed == FoldLeft(LAMBDA m, i : OnlyText(m, i, FinishNormaliser(g.norms[i])),
                            [n EXCEPT !.ingress.norms = EmptyMap], Ascending(DOMAIN g.norms))
        open == flushed.ingress.open
        closed == FoldLeft(StreamBlockComplete, [flushed EXCEPT !.ingress.open = {}],
                           Ascending(open))
    IN  IF ~g.started THEN n
        ELSE SetIngress(FinishTurn(closed, "completed", {}), NewIngress)

\* The pulse_start this may create is discarded by the caller.
IngressError(n) ==
    LET m == EnsureStarted(n)
    IN  Emit([m EXCEPT !.out = n.out], "error", NoIndex, "")
=============================================================================
