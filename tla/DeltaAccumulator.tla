-------------------------- MODULE DeltaAccumulator --------------------------
(***************************************************************************)
(* DeltaAccumulator (src/runtime/delta_accumulator.rs): the arguments of   *)
(* streaming tool calls, kept within a memory watermark, and the peer      *)
(* updates it publishes on a bounded channel that                          *)
(* LocalApiTaskShared::drain_peer_updates empties around every batch of    *)
(* envelopes.  The callers are those of json_handoff/tool_calls.rs.        *)
(*                                                                         *)
(* A piece of JSON is a sequence of characters: braces, a quote q, a       *)
(* backslash b and other text a.  Sizes are in characters; the fixed cost  *)
(* of an entry is Overhead.  last_activity is the order in which the       *)
(* entries were touched.                                                   *)
(***************************************************************************)
EXTENDS Integers, Sequences, FiniteSets, SequencesExt

CONSTANTS CallIds,        \* runtime ids of the tool calls, used once each
          Pieces,         \* the deltas a provider may send
          Seeds,          \* serialised arguments known when a call starts; <<>> for "{}"
          Watermark,      \* memory_watermark_bytes
          MaxStored,      \* MAX_STORED_PARTIAL_BYTES
          QueueDepth,     \* MAX_TOOL_DELTA_QUEUE_DEPTH
          PeerBuffer,     \* PEER_EVENT_BUFFER
          RecentLimit,    \* RECENT_PEER_EVENT_LIMIT
          Overhead,       \* id, task id and name of an entry, and the 128 bytes
          MaxDeltas       \* bound: deltas of one history

VARIABLES acc,       \* the map, a function on the ids it holds
          order,     \* its ids, least recently touched first
          channel,   \* peer_update_rx
          recent,    \* recent_peer_updates
          pending,   \* the normalizer's pending_tool_calls
          published, \* the last RecentLimit updates the accumulator tried to publish
          fed,       \* per call: all its deltas, and whether one was rejected
          deltas     \* bound

accVars == <<acc, order, channel, recent, pending, published, fed, deltas>>

NoEntries == [i \in {} |-> 0]

AccInit ==
    /\ acc = NoEntries /\ order = <<>> /\ channel = <<>> /\ recent = <<>> /\ pending = {}
    /\ published = <<>> /\ deltas = 0
    /\ fed = [i \in CallIds |-> [text |-> <<>>, rejected |-> FALSE, flag |-> FALSE, started |-> FALSE]]

(***************************************************************************)
(* is_valid_json_prefix: no closing brace too many outside strings.        *)
(***************************************************************************)
ScanChar(st, ch) ==
    CASE st.bad -> st
      [] ~st.bad /\ st.quoted /\ st.escaped -> [st EXCEPT !.escaped = FALSE]
      [] ~st.bad /\ st.quoted /\ ~st.escaped ->
           [st EXCEPT !.escaped = (ch = "b"), !.quoted = (ch # "q")]
      [] ~st.bad /\ ~st.quoted ->
           [st EXCEPT !.quoted = (ch = "q"),
                      !.depth = CASE ch = "{" -> @ + 1 [] ch = "}" -> @ - 1 [] OTHER -> @,
                      !.bad = (ch = "}" /\ st.depth = 0)]

IsValidJsonPrefix(existing, incoming) ==
    ~FoldLeft(ScanChar, [depth |-> 0, quoted |-> FALSE, escaped |-> FALSE, bad |-> FALSE],
              existing \o incoming).bad

(***************************************************************************)
(* The map under its lock.  m is [acc, order, out]: out are the updates    *)
(* an operation publishes after the lock is released.                      *)
(***************************************************************************)
QueueSize(e) == FoldLeft(LAMBDA n, d : n + Len(d), 0, e.queue)
EntrySize(e) == Overhead + Len(e.args) + QueueSize(e)
Usage(m) == FoldLeft(LAMBDA n, i : n + EntrySize(m.acc[i]), 0, m.order)

Touch(m, i) == [m EXCEPT !.order = Append(SelectSeq(@, LAMBDA j : j # i), i)]

Without(m, i) == [m EXCEPT !.acc = [j \in DOMAIN m.acc \ {i} |-> m.acc[j]],
                           !.order = SelectSeq(@, LAMBDA j : j # i)]

DropOldestPending(m) ==
    LET open == SelectSeq(m.order, LAMBDA i : ~m.acc[i].finished)
    IN  IF open = <<>> THEN m ELSE Without(m, Head(open))

Relieve(m) == IF Usage(m) > Watermark THEN DropOldestPending(m) ELSE m

NewEntry == [args |-> <<>>, truncated |-> FALSE, finished |-> FALSE, queue |-> <<>>]

\* DuplicateId cannot happen: ids are generated.  MemoryPressure leaves the call out.
StartTool(m, i) ==
    LET r == Relieve(m)
    IN  IF Usage(r) > Watermark THEN r
        ELSE [acc |-> [j \in DOMAIN r.acc \cup {i} |-> IF j = i THEN NewEntry ELSE r.acc[j]],
              order |-> Append(r.order, i),
              out |-> Append(r.out, [t |-> "start", id |-> i])]

Malformed(m, i, piece) == i \in DOMAIN m.acc /\ ~IsValidJsonPrefix(m.acc[i].args, piece)

Stored(args, piece) ==
    LET all == args \o piece IN SubSeq(all, 1, IF Len(all) > MaxStored THEN MaxStored ELSE Len(all))

Accumulate(m, i, piece) ==
    IF i \notin DOMAIN m.acc \/ Malformed(m, i, piece) THEN m
    ELSE LET e == m.acc[i]
             over == Len(e.args) + Len(piece) > MaxStored
             queue == IF Len(e.queue) = QueueDepth THEN Tail(e.queue) ELSE e.queue
             grown == Touch([m EXCEPT !.acc[i] = [e EXCEPT
                               !.args = Stored(e.args, piece), !.truncated = @ \/ over,
                               !.queue = Append(queue, piece)]], i)
         IN  [Relieve(grown) EXCEPT
                !.out = @ \o <<[t |-> "delta", id |-> i]>>
                          \o (IF over /\ ~e.truncated THEN <<[t |-> "truncated", id |-> i]>> ELSE <<>>)]

FinishTool(m, i) ==
    IF i \notin DOMAIN m.acc THEN m
    ELSE LET f == Touch([m EXCEPT !.acc[i].finished = TRUE], i)
         IN  [f EXCEPT !.out = Append(@, [t |-> "finish", id |-> i])]

(***************************************************************************)
(* Publishing (try_send on the bounded channel) and draining.              *)
(***************************************************************************)
TrySend(ch, us) ==
    FoldLeft(LAMBDA c, u : IF Len(c) < PeerBuffer THEN Append(c, u) ELSE c, ch, us)

Push(r, u) == Append(IF Len(r) = RecentLimit THEN Tail(r) ELSE r, u)


\* The updates are published while the envelopes are made; emit_envelopes then drains the
\* channel before and after it sends them.
EmitEnvelopes(ch, out) ==
    [channel |-> <<>>, recent |-> FoldLeft(Push, recent, TrySend(ch, out))]

LastOnes(us) ==
    SubSeq(us, IF Len(us) > RecentLimit THEN Len(us) - RecentLimit + 1 ELSE 1, Len(us))

Apply(m) ==
    /\ acc' = m.acc /\ order' = m.order
    /\ published' = LastOnes(published \o m.out)
    /\ LET e == EmitEnvelopes(channel, m.out) IN channel' = e.channel /\ recent' = e.recent

Now == [acc |-> acc, order |-> order, out |-> <<>>]

\* record_tool_call: start_tool_accumulator, seed_tool_accumulator ("{}" seeds nothing).
RecordCall(i, seed) ==
    /\ ~fed[i].started /\ \A j \in CallIds : j < i => fed[j].started
    /\ LET s == StartTool(Now, i)
       IN  Apply(IF seed = <<>> THEN s ELSE Accumulate(s, i, seed))
    /\ pending' = pending \cup {i}
    /\ fed' = [fed EXCEPT ![i].started = TRUE, ![i].text = seed]
    /\ UNCHANGED deltas

\* record_tool_call_arguments_delta; the envelope carries the flag invalid_json.
RecordDelta(i, piece) ==
    /\ i \in pending /\ i \notin {j \in DOMAIN acc : acc[j].finished} /\ deltas < MaxDeltas
    /\ Apply(Accumulate(Now, i, piece))
    /\ fed' = [fed EXCEPT ![i].text = @ \o piece, ![i].flag = Malformed(Now, i, piece),
                          ![i].rejected = @ \/ fed[i].flag]
    /\ deltas' = deltas + 1 /\ UNCHANGED pending

\* The block of the call completes (normalize_ui_update).
BlockComplete(i) ==
    /\ i \in pending /\ i \in DOMAIN acc /\ ~acc[i].finished
    /\ Apply(FinishTool(Now, i)) /\ UNCHANGED <<pending, fed, deltas>>

\* record_tool_result forgets the call.
RecordResult(i) ==
    /\ i \in pending
    /\ Apply(FinishTool(Now, i)) /\ pending' = pending \ {i} /\ UNCHANGED <<fed, deltas>>

\* finish_pending_tool_accumulations at the end of the pulse.
PulseEnds ==
    /\ pending # {}
    /\ Apply(FoldLeft(FinishTool, Now, SetToSeq(pending)))
    /\ pending' = {} /\ UNCHANGED <<fed, deltas>>

AccNext ==
    \/ \E i \in CallIds, seed \in Seeds : RecordCall(i, seed)
    \/ \E i \in CallIds, piece \in Pieces : RecordDelta(i, piece)
    \/ \E i \in CallIds : BlockComplete(i) \/ RecordResult(i)
    \/ PulseEnds

AccTypeOK ==
    /\ DOMAIN acc \subseteq CallIds /\ ToSet(order) = DOMAIN acc /\ Len(order) = Cardinality(DOMAIN acc)
    /\ pending \subseteq CallIds
    /\ \A i \in DOMAIN acc : Len(acc[i].queue) <= QueueDepth
    /\ Len(channel) <= PeerBuffer /\ Len(recent) <= RecentLimit

(***************************************************************************)
(* The watermark is no bound: over it, start_tool and accumulate give up   *)
(* one unfinished call per delta, however small that one and however large *)
(* the delta is, and never a finished one.                                 *)
(***************************************************************************)
Dropped == DOMAIN acc \ DOMAIN acc'
Older(j, i) == \E p, q \in 1 .. Len(order) : p < q /\ order[p] = j /\ order[q] = i
Grown(i) == Len(fed'[i].text) - Len(fed[i].text)

\* At the watermark the least recently touched calls pay for a delta, whatever order the
\* deltas of several calls come in: a call that is dropped was unfinished, the unfinished
\* ones touched before it go too (but the one just touched), and with all of them the memory
\* would exceed the watermark; above the watermark no delta is stored for nothing, unless
\* only finished calls are left, and a call that went is never stored again.
OldestPay ==
    [][ /\ \A i \in Dropped :
             /\ ~acc[i].finished
             /\ \A j \in DOMAIN acc \cap DOMAIN acc' :
                  ~acc[j].finished /\ Older(j, i) => j = Last(order')
        /\ Dropped # {} =>
             \E i \in CallIds : Usage(Now) + 2 * Grown(i) + Overhead > Watermark
        /\ deltas' > deltas /\ Usage(Now)' > Watermark =>
             Dropped # {} \/ acc' = acc \/ \A i \in DOMAIN acc' : acc'[i].finished
        /\ \A i \in DOMAIN acc' \ DOMAIN acc : ~fed[i].started ]_accVars

\* What is stored of an accepted argument text is its beginning, cut at the limit.
StoredIsPrefix ==
    \A i \in DOMAIN acc :
       ~fed[i].flag /\ ~fed[i].rejected =>
          acc[i].args = SubSeq(fed[i].text, 1, IF Len(fed[i].text) > MaxStored THEN MaxStored
                                               ELSE Len(fed[i].text))

\* The peers see every update, in order: the channel cannot overflow because it is
\* emptied around every batch (emit_envelopes), and only the oldest are forgotten.
PeersSeeAll == recent = published
=============================================================================
