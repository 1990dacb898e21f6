------------------------------ MODULE ModelStream ------------------------------
(***************************************************************************)
(* One streaming model request: connecting with retries, the SSE byte      *)
(* stream cut into arbitrary chunks, StreamParser, and the pull loop that  *)
(* hands envelopes to the conversation (src/api/stream_ingress.rs,         *)
(* stream_ingress/non_stream.rs, api/stream.rs, stream/sse_framing.rs,     *)
(* stream/ingress_adapter.rs, on top of ProtocolIngress).                  *)
(*                                                                         *)
(* A byte is a record: f is "LF", "CR", a part of the byte order mark      *)
(* ("B1".."B3"), or a whole line: "data" with its payload p, "event"       *)
(* (event: ping; other names change nothing), "id", "comment", "raw" (JSON *)
(* without a field name) or "bad" (not UTF-8).  Cutting inside a line is   *)
(* no different from cutting beside it.                                    *)
(***************************************************************************)
EXTENDS ProtocolIngress

CONSTANTS Responses,      \* [bytes, local, sse, whole] a server may answer with
          MaxSseBuffer,   \* MAX_SSE_BUFFER_BYTES, in tokens
          MaxAttempts     \* connection attempts within LOCAL_CONNECT_RETRY_MAX_ELAPSED

ASSUME StreamAssumption == MaxSseBuffer \in Nat \ {0} /\ MaxAttempts \in Nat \ {0, 1}

VARIABLES resp,        \* the response of this run, never changes
          promise,     \* its complete readings, never changes
          phase,       \* "connecting", "streaming", "fallback", "ended", "failed"
          attempts,    \* connection attempts made
          pos,         \* bytes read
          parser,      \* StreamParser
          pending,     \* envelopes decoded and not yet pulled
          delivered,   \* envelopes pulled by the conversation
          outcome      \* terminal_outcome

streamVars == <<resp, promise, phase, attempts, pos, parser, pending, delivered, outcome>>

(***************************************************************************)
(* StreamParser.                                                           *)
(***************************************************************************)
NewParser == [buf |-> <<>>, bom |-> FALSE, over |-> FALSE, mode |-> "undecided",
              lastId |-> 0, n |-> NewNormalizer(NewIngress), bad |-> FALSE]

TerminatorLength(b, i) ==
    IF i > Len(b) THEN 0
    ELSE CASE b[i].f = "LF" -> 1
           [] b[i].f = "CR" -> IF i < Len(b) /\ b[i + 1].f = "LF" THEN 2 ELSE 1
           [] OTHER -> 0

RECURSIVE DelimiterFrom(_, _)
\* [at, len] of the first blank line at or after i; at = 0 when there is none.
DelimiterFrom(b, i) ==
    LET Blank(first, second) ==
            CASE i > Len(b) -> [at |-> 0, len |-> 0]
              [] i <= Len(b) /\ first = 0 -> DelimiterFrom(b, i + 1)
              [] first # 0 /\ second # 0 -> [at |-> i, len |-> first + second]
              [] OTHER -> DelimiterFrom(b, i + first)
    IN  Blank(TerminatorLength(b, i), TerminatorLength(b, i + TerminatorLength(b, i)))

Bom == <<"B1", "B2", "B3">>

StripBom(p) ==
    LET k == IF Len(p.buf) < 3 THEN Len(p.buf) ELSE 3
        matches == \A i \in 1..k : p.buf[i].f = Bom[i]
    IN  CASE p.bom -> p
          [] ~p.bom /\ k = 3 /\ matches -> [p EXCEPT !.buf = From(@, 4), !.bom = TRUE]
          [] OTHER -> [p EXCEPT !.bom = @ \/ (k # 0 /\ (k = 3 \/ ~matches))]

StreamError(p) ==
    IF p.mode = "envelope"
    THEN [p EXCEPT !.n = Emit(@, "error", NoIndex, "")]
    ELSE [p EXCEPT !.mode = "adapter", !.n = IngressError(@)]

EnterEnvelopeMode(p) ==
    IF p.mode = "adapter" THEN StreamError(p)
    ELSE [p EXCEPT !.mode = "envelope", !.n = Emit(@, "passed", NoIndex, "")]

AdaptProtocolPayload(p, payload) ==
    IF p.mode = "envelope" THEN StreamError(p)
    ELSE [p EXCEPT !.mode = "adapter", !.n = AdaptPayload(@, payload)]

DecodePayload(p, payload) ==
    CASE payload.k = "empty" -> p
      [] payload.k = "envelope" -> EnterEnvelopeMode(p)
      [] OTHER -> AdaptProtocolPayload(p, IF payload.k = "garbage" THEN [k |-> "error"] ELSE payload)

\* Two data lines joined by a line feed are not one JSON document; a ping
\* needs none, but an envelope or nothing at all is read before its name.
FramePayload(data, pinged) ==
    LET joined == IF Len(data) = 1 THEN data[1].p ELSE [k |-> "garbage"]
    IN  IF pinged /\ joined.k \notin {"envelope", "empty"} THEN [k |-> "ping"] ELSE joined

DecodeFrame(p, frame) ==
    LET Lines(f) == SelectSeq(frame, LAMBDA x : x.f = f)
        q == IF Lines("id") = <<>> THEN p ELSE [p EXCEPT !.lastId = Last(Lines("id")).v]
    IN  CASE Lines("bad") # <<>> -> [p EXCEPT !.bad = TRUE]
          [] Lines("bad") = <<>> /\ Lines("data") = <<>> ->
               IF Lines("raw") = <<>> THEN q ELSE StreamError(q)
          [] OTHER -> DecodePayload(q, FramePayload(Lines("data"), Lines("event") # <<>>))

RECURSIVE ParseFrames(_)
ParseFrames(p) ==
    LET NextFrame(d) ==
            IF d.at = 0 THEN p
            ELSE ParseFrames(DecodeFrame([p EXCEPT !.buf = From(@, d.at + d.len)],
                                         SubSeq(p.buf, 1, d.at - 1)))
    IN  IF p.bad THEN p ELSE NextFrame(DelimiterFrom(p.buf, 1))

\* Mutant: a partial frame left in the buffer is overwritten by the next chunk.
Process_FreshBuffer(p, chunk) == ParseFrames(StripBom([p EXCEPT !.buf = chunk]))

Process(p, chunk) ==
    IF p.over \/ Len(p.buf) + Len(chunk) > MaxSseBuffer
    THEN StreamError([p EXCEPT !.over = TRUE])
    ELSE ParseFrames(StripBom([p EXCEPT !.buf = @ \o chunk]))

Terminated(p) == p.n.ingress.terminated

FinishParser(p) ==
    IF p.mode # "adapter" THEN p ELSE [p EXCEPT !.n = FinishIngressTurn(@)]

(***************************************************************************)
(* The complete readings of a response: everything it says, or everything  *)
(* up to a frame that ends the protocol stream.                            *)
(***************************************************************************)
ReadWhole(bytes) == ParseFrames(StripBom([NewParser EXCEPT !.buf = bytes]))

Readings(bytes) ==
    LET Complete(prefix) ==
            {FinishParser(p).n.out :
                p \in {prefix[j] : j \in {i \in 0..Len(bytes) :
                                            i = Len(bytes) \/ Terminated(prefix[i])}}}
    IN  Complete([j \in 0..Len(bytes) |-> ReadWhole(SubSeq(bytes, 1, j))])

(***************************************************************************)
(* The non-streaming fallback: the whole message as synthetic frames.      *)
(***************************************************************************)
FallbackEnvelopes(whole) ==
    FinishParser(FoldLeft(DecodePayload, NewParser, whole)).n.out

StreamInit ==
    /\ resp \in Responses
    /\ promise = Readings(resp.bytes) \cup
                 (IF resp.local THEN {FallbackEnvelopes(resp.whole)} ELSE {})
    /\ phase = "connecting" /\ attempts = 1
    /\ pos = 0 /\ parser = NewParser
    /\ pending = <<>> /\ delivered = <<>> /\ outcome = "none"

(***************************************************************************)
(* Connecting.  Only a local endpoint is retried, and at least once.       *)
(***************************************************************************)
Connected ==
    /\ phase = "connecting"
    /\ phase' = IF resp.local /\ ~resp.sse THEN "fallback" ELSE "streaming"
    /\ UNCHANGED <<resp, promise, attempts, pos, parser, pending, delivered, outcome>>

\* Mutant: the attempt is not counted, the retry never gives up.
ConnectRefused_Uncounted ==
    /\ phase \in {"connecting", "fallback"} /\ resp.local
    /\ attempts' = IF attempts < MaxAttempts THEN attempts + 1 ELSE 1
    /\ UNCHANGED <<resp, promise, phase, pos, parser, pending, delivered, outcome>>

ConnectRefused ==
    /\ phase \in {"connecting", "fallback"}
    /\ IF resp.local /\ attempts < MaxAttempts
       THEN attempts' = attempts + 1 /\ UNCHANGED phase
       ELSE phase' = "failed" /\ UNCHANGED attempts
    /\ UNCHANGED <<resp, promise, pos, parser, pending, delivered, outcome>>

StatusError ==
    /\ phase \in {"connecting", "fallback"}
    /\ phase' = "failed"
    /\ UNCHANGED <<resp, promise, attempts, pos, parser, pending, delivered, outcome>>

FallbackAnswered ==
    /\ phase = "fallback"
    /\ phase' = "streaming" /\ outcome' = "fallback"
    /\ pending' = FallbackEnvelopes(resp.whole)
    /\ UNCHANGED <<resp, promise, attempts, pos, parser, delivered>>

(***************************************************************************)
(* next_stream_item: deliver what is pending, else read one chunk.         *)
(***************************************************************************)
Reading == phase = "streaming" /\ pending = <<>> /\ outcome = "none"

Deliver ==
    /\ phase = "streaming" /\ pending # <<>>
    /\ delivered' = Append(delivered, Head(pending))
    /\ pending' = Tail(pending)
    /\ UNCHANGED <<resp, promise, phase, attempts, pos, parser, outcome>>

ReadChunk ==
    /\ Reading
    /\ \E k \in 1..(Len(resp.bytes) - pos) :
         \E p \in {Process(parser, SubSeq(resp.bytes, pos + 1, pos + k))} :
         \E q \in {IF Terminated(p) THEN FinishParser(p) ELSE p} :
             /\ pos' = pos + k
             /\ parser' = [q EXCEPT !.n = Taken(@)]
             /\ IF p.bad        \* the frames of this chunk are lost with the error
                THEN phase' = "failed" /\ UNCHANGED <<pending, outcome>>
                ELSE /\ pending' = q.n.out
                     /\ outcome' = IF Terminated(p) THEN "protocol_done" ELSE outcome
                     /\ UNCHANGED phase
    /\ UNCHANGED <<resp, promise, attempts, delivered>>

UpstreamClosed ==
    /\ Reading /\ pos = Len(resp.bytes)
    /\ LET q == FinishParser(parser)
       IN  /\ parser' = [q EXCEPT !.n = Taken(@)]
           /\ pending' = q.n.out
    /\ outcome' = "stream_closed"
    /\ UNCHANGED <<resp, promise, phase, attempts, pos, delivered>>

TransportError ==
    /\ Reading
    /\ phase' = "failed"
    /\ UNCHANGED <<resp, promise, attempts, pos, parser, pending, delivered, outcome>>

\* A local stream that ends before its first envelope is asked again.
EndOfStream ==
    /\ phase = "streaming" /\ pending = <<>> /\ outcome # "none"
    /\ IF resp.local /\ delivered = <<>> /\ outcome # "fallback"
       THEN phase' = "fallback" /\ attempts' = 1 /\ outcome' = "none"
       ELSE phase' = "ended" /\ UNCHANGED <<attempts, outcome>>
    /\ UNCHANGED <<resp, promise, pos, parser, pending, delivered>>

StreamNext ==
    \/ Connected \/ ConnectRefused \/ StatusError \/ FallbackAnswered
    \/ Deliver \/ ReadChunk \/ UpstreamClosed \/ TransportError \/ EndOfStream

\* The server owes nothing.  The executor polls what is pending, and silence
\* becomes an error: connect_timeout ends an attempt to connect, read_timeout
\* a stream that says nothing (net/http_client.rs).
StreamFairness ==
    /\ WF_streamVars(Deliver) /\ WF_streamVars(EndOfStream)
    /\ WF_streamVars(ConnectRefused) /\ WF_streamVars(TransportError)

StreamSpec == StreamInit /\ [][StreamNext]_streamVars /\ StreamFairness

(***************************************************************************)
(* Properties.  A response carries what its author meant: means.text, the  *)
(* text without tool markup, and means.calls, the argument sequences of    *)
(* its tool calls in order.                                                *)
(***************************************************************************)
StreamTypeOK ==
    /\ phase \in {"connecting", "streaming", "fallback", "ended", "failed"}
    /\ attempts \in 1..MaxAttempts
    /\ pos \in 0..Len(resp.bytes)
    /\ outcome \in {"none", "fallback", "stream_closed", "protocol_done"}
    /\ parser.mode \in {"undecided", "envelope", "adapter"}

StatusOf == CASE parser.over -> "broken"
              [] ~parser.over /\ phase = "ended" -> "complete"
              [] ~parser.over /\ phase = "failed" -> "failed"
              [] OTHER -> "open"

C == INSTANCE StreamContract WITH received <- delivered, status <- StatusOf

\* However the transport cuts the bytes into chunks (inside a CR LF pair, a
\* byte order mark, a tag or an argument string), the consumer receives the
\* envelopes of one complete reading of the response, in order: chunk
\* boundaries are invisible above StreamParser::process.
ChunkingInvisible == C!Contract

Types(t) == {i \in 1..Len(delivered) : delivered[i].t = t}

\* When a stream ends, every block it started has been completed after its
\* last start: finish_protocol_ingress_turn leaves no block spinning.
StartedBlocksComplete ==
    phase = "ended" =>
        \A i \in Types("block_start") :
            \E j \in Types("block_complete") : j > i /\ delivered[j].i = delivered[i].i

\* Content travels inside a pulse: each block or tool envelope comes after a
\* pulse_start, and once the pulse has ended nothing but errors follows.
ContentInsidePulse ==
    \A i \in 1..Len(delivered) :
        delivered[i].t \in {"block_start", "block_delta", "block_complete", "tool_started",
                           "tool_arguments", "metadata", "usage"} =>
            /\ (~parser.over /\ ~resp.noisy) => \E j \in Types("pulse_start") : j < i
            /\ \A j \in Types("pulse_end") : j > i

BlockKindAt(i) ==      \* the kind of the block that envelope i names
    LET starts == {j \in Types("block_start") : j < i /\ delivered[j].i = delivered[i].i}
    IN  IF starts = {} THEN "none" ELSE delivered[Max(starts)].v

DeliveredText ==
    FlattenSeq([i \in 1..Len(delivered) |->
        IF delivered[i].t = "block_delta" /\ BlockKindAt(i) = "thinking"
        THEN delivered[i].v ELSE <<>>])

ArgumentsOf(id) ==
    FlattenSeq([i \in 1..Len(delivered) |->
        IF delivered[i].t \in {"tool_started", "tool_arguments"} /\ delivered[i].i = id
        THEN delivered[i].v ELSE <<>>])

DeliveredCalls ==
    LET starts == SelectSeq(delivered, LAMBDA e : e.t = "tool_started")
    IN  [k \in 1..Len(starts) |-> ArgumentsOf(starts[k].i)]

\* The deltas of text of a response, in order: the text block and what it adds.
TextsOf(p) ==
    CASE p.k = "block_start" -> IF p.b.k = "text" THEN <<[i |-> p.i, s |-> p.b.text]>> ELSE <<>>
      [] p.k = "block_delta" -> <<[i |-> p.i, s |-> p.text]>>
      [] p.k = "chunk" -> [j \in 1..Len(p.choices) |-> [i |-> 0, s |-> p.choices[j].text]]
      [] OTHER -> <<>>
Texts ==
    FlattenSeq([j \in 1..Len(resp.bytes) |->
                    IF resp.bytes[j].f = "data" THEN TextsOf(resp.bytes[j].p) ELSE <<>>])
    \o FlattenSeq([j \in 1..Len(resp.whole) |-> TextsOf(resp.whole[j])])

\* The text of delta k's block up to and with that delta
UpTo(k) == FlattenSeq([j \in 1..k |-> IF Texts[j].i = Texts[k].i THEN Texts[j].s ELSE <<>>])

\* A Hermes call is recognised by the brace behind its tag (find_hermes_json_tool_call).
\* When a delta ends in the white space between the two, the tag is stripped as a stray
\* one, and the call is shown as text.
CutHermes ==
    \E k \in 1..Len(Texts) : \E j \in Pairs(UpTo(k), {ToolCallOpen}) :
        From(UpTo(k), j + 2) # <<>> /\ SkipWs(From(UpTo(k), j + 2)) = <<>>

\* Tagged calls take the block indices from TAGGED_TOOL_BLOCK_START_INDEX = 1 on, also
\* that of the text block they are found in: what follows such a call in its delta is sent
\* to the block of the call, which is closed.
ClosesOf(s) ==
    {j \in Pairs(s, {FunctionClose, ToolCallClose}) : j - 2 \notin Pairs(s, {FunctionClose})}
LaterMarkup ==
    \E k \in 1..Len(Texts) :
        LET s == FlattenSeq([j \in 1..k |-> Texts[j].s])
        IN  \E j \in ClosesOf(s) :
                /\ Texts[k].i = Cardinality({h \in ClosesOf(s) : h <= j})
                /\ j + 1 < Len(s) /\ j + 1 > Len(s) - Len(Texts[k].s)

\* The piece of a tag that a block's text ends with: finish drops it.
TrailingPiece(s) == IF s # <<>> /\ <<Last(s)>> \in PartialTags THEN <<Last(s)>> ELSE <<>>
TrailingPieces ==
    FlattenSeq([j \in 1..Len(Texts) |->
                    IF \A k \in j + 1..Len(Texts) : Texts[k].i # Texts[j].i
                    THEN TrailingPiece(UpTo(j)) ELSE <<>>])

\* A response that ended cleanly says to the conversation what its author meant: no text
\* duplicated or shown as raw markup, every tool call once and with all of its arguments in
\* order, in either protocol, with interleaved tool deltas, and through the non-streaming
\* fallback alike; and of the text it loses at most the piece of a tag it ends with, a lone
\* '<' for one.  Not when a Hermes call is cut before its brace: it is never made.  Nor when
\* a call that took its text block's index is followed by text in its delta.  The author's
\* markup is well formed, and no tag is mentioned in the text: <tool_call> and </tool_call>
\* are stripped wherever they stand, and a Hermes body that is no call is dropped.
SaysWhatWasMeant ==
    phase = "ended" /\ ~parser.over /\ ~resp.noisy =>
        /\ ~CutHermes /\ ~LaterMarkup =>
              DeliveredText \o TrailingPieces = resp.means.text /\ DeliveredCalls = resp.means.calls
        /\ CutHermes => DeliveredCalls # resp.means.calls
        /\ LaterMarkup => DeliveredText # resp.means.text

\* An opened stream ends or fails: retries are bounded, the pull loop drains
\* what is pending, and a silent upstream runs into the read timeout.
StreamEnds == <>(phase \in {"ended", "failed"})

\* What a stream delivers is sound at every moment: content inside its pulse, at the end no
\* block left open, and the meaning of the response.
StreamSound == StreamTypeOK /\ ContentInsidePulse /\ StartedBlocksComplete /\ SaysWhatWasMeant
=============================================================================
