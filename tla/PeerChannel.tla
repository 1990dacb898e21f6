----------------------------- MODULE PeerChannel ------------------------------
(***************************************************************************)
(* The channel session tasks of one parent exchange messages over: an      *)
(* append-only file of lines that any process may extend and read, bounded *)
(* in lines, and the cursor (a time stamp) with which a reader asks for    *)
(* the next page.  Appending holds a file lock from the count of the lines *)
(* to the last write; reading holds it shared.  The stamp of a message is  *)
(* taken before the lock.  A writer that dies between the two writes of a  *)
(* line (the text, the newline) leaves an open line, which the next append *)
(* goes on with.                                                           *)
(*                                                                         *)
(* Abstractions.  A message is its number; whom it is for and whether its  *)
(* line is longer than a reader takes are chosen when it is composed.      *)
(* The limit in bytes is left out: it only makes the channel full earlier. *)
(* The reader is a client of the server; it asks after the latest stamp it *)
(* was given.                                                              *)
(***************************************************************************)
EXTENDS Integers, Sequences, FiniteSets

CONSTANTS
    Writers,          \* threads and processes that post
    MaxChannelDepth,  \* MAX_CHANNEL_DEPTH
    ReadBatch,        \* MAX_CHANNEL_READ_BATCH
    MaxMessages,      \* bound: messages composed
    MaxClock,         \* bound: milliseconds that pass
    MaxDeaths         \* bound: writers that die while they hold the lock

ASSUME ChannelAssumption ==
    /\ MaxChannelDepth \in Nat \ {0} /\ ReadBatch \in Nat \ {0}
    /\ MaxMessages \in Nat /\ MaxClock \in Nat \ {0} /\ MaxDeaths \in Nat
    /\ "nobody" \notin Writers

MessageIds == 1 .. MaxMessages

VARIABLES
    lines,      \* the channel file: each line the messages written into it, and its end
    locked,     \* the writer that holds the lock
    writer,     \* [at, msg] of each writer
    sentAt,     \* message -> its stamp (0: not composed)
    forMe,      \* message -> addressed to the reader or to all
    wide,       \* message -> its line is longer than MAX_LINE_BYTES
    acked,      \* messages whose post succeeded
    clock,
    cursor,     \* the stamp the reader asks after
    got,        \* message -> how often the reader was given it
    deaths

channelVars == <<lines, locked, writer, sentAt, forMe, wide, acked, clock, cursor, got, deaths>>
Nobody == "nobody"
Resting == [at |-> "idle", msg |-> 0]

ChannelInit ==
    /\ lines = <<>> /\ locked = Nobody /\ writer = [w \in Writers |-> Resting]
    /\ sentAt = [m \in MessageIds |-> 0]
    /\ forMe = [m \in MessageIds |-> FALSE] /\ wide = [m \in MessageIds |-> FALSE]
    /\ acked = {} /\ clock = 1 /\ cursor = 0 /\ deaths = 0
    /\ got = [m \in MessageIds |-> 0]

Composed == {m \in MessageIds : sentAt[m] # 0}

Millisecond ==
    /\ clock < MaxClock /\ clock' = clock + 1
    /\ UNCHANGED <<lines, locked, writer, sentAt, forMe, wide, acked, cursor, got, deaths>>

\* facade_post_peer_message up to PeerMessage::new: the parent knows the sender,
\* the kind and the length of the content are good, the stamp is now.
Compose(w, mine, long) ==
    /\ writer[w].at = "idle" /\ Cardinality(Composed) < MaxMessages
    /\ LET m == Cardinality(Composed) + 1
       IN  /\ sentAt' = [sentAt EXCEPT ![m] = clock]
           /\ forMe' = [forMe EXCEPT ![m] = mine] /\ wide' = [wide EXCEPT ![m] = long]
           /\ writer' = [writer EXCEPT ![w] = [at |-> "lock", msg |-> m]]
    /\ UNCHANGED <<lines, locked, acked, clock, cursor, got, deaths>>

\* Mutant: the lock is not waited for.
WithChannelLock_Busy(w) ==
    /\ writer[w].at = "lock"
    /\ locked' = w
    /\ writer' = [writer EXCEPT ![w].at = "count"]
    /\ UNCHANGED <<lines, sentAt, forMe, wide, acked, clock, cursor, got, deaths>>

\* with_channel_lock
WithChannelLock(w) ==
    /\ writer[w].at = "lock" /\ locked = Nobody
    /\ locked' = w
    /\ writer' = [writer EXCEPT ![w].at = "count"]
    /\ UNCHANGED <<lines, sentAt, forMe, wide, acked, clock, cursor, got, deaths>>

\* append_message_inner: every line counts, malformed ones too.
CountLines(w) ==
    /\ writer[w].at = "count"
    /\ \/ /\ Len(lines) >= MaxChannelDepth
          /\ writer' = [writer EXCEPT ![w] = Resting] /\ locked' = Nobody
       \/ /\ Len(lines) < MaxChannelDepth
          /\ writer' = [writer EXCEPT ![w].at = "text"] /\ UNCHANGED locked
    /\ UNCHANGED <<lines, sentAt, forMe, wide, acked, clock, cursor, got, deaths>>

OpenLine == lines # <<>> /\ ~lines[Len(lines)].ended

\* writeln!: the text, at the end of the file, ...
AppendText(w) ==
    /\ writer[w].at = "text"
    /\ lines' = IF OpenLine
                THEN [lines EXCEPT ![Len(lines)].msgs = Append(@, writer[w].msg)]
                ELSE Append(lines, [msgs |-> <<writer[w].msg>>, ended |-> FALSE])
    /\ writer' = [writer EXCEPT ![w].at = "newline"]
    /\ UNCHANGED <<locked, sentAt, forMe, wide, acked, clock, cursor, got, deaths>>

\* ... then the newline; the lock goes with the file handle.
AppendNewline(w) ==
    /\ writer[w].at = "newline"
    /\ lines' = [lines EXCEPT ![Len(lines)].ended = TRUE]
    /\ acked' = acked \cup {writer[w].msg}
    /\ writer' = [writer EXCEPT ![w] = Resting] /\ locked' = Nobody
    /\ UNCHANGED <<sentAt, forMe, wide, clock, cursor, got, deaths>>

\* The process ends: the system drops its lock.
WriterDies(w) ==
    /\ writer[w].at \in {"text", "newline"} /\ deaths < MaxDeaths
    /\ deaths' = deaths + 1
    /\ writer' = [writer EXCEPT ![w] = Resting] /\ locked' = Nobody
    /\ UNCHANGED <<lines, sentAt, forMe, wide, acked, clock, cursor, got>>

\* A line a reader takes: one message, not too long.
First(i) == lines[i].msgs[1]
Readable(i) == Len(lines[i].msgs) = 1 /\ ~wide[First(i)]

\* read_messages: the lines that are newer than the stamp and for the reader; of
\* these, in the order of the file, at most a batch.  The last line is taken without
\* its newline.
Fitting(after) == {i \in DOMAIN lines : Readable(i) /\ forMe[First(i)] /\ sentAt[First(i)] > after}
Page(after) ==
    {i \in Fitting(after) : Cardinality({j \in Fitting(after) : j <= i}) <= ReadBatch}

\* read_peer_messages_handler, and the client that goes on from the latest stamp.
ReadPage ==
    /\ locked = Nobody
    /\ LET page == Page(cursor)
       IN  /\ page # {}
           /\ got' = [m \in MessageIds |-> got[m] + Cardinality({i \in page : First(i) = m})]
           /\ \E i \in page : /\ \A j \in page : sentAt[First(j)] <= sentAt[First(i)]
                              /\ cursor' = sentAt[First(i)]
    /\ UNCHANGED <<lines, locked, writer, sentAt, forMe, wide, acked, clock, deaths>>

ChannelNext ==
    \/ Millisecond \/ ReadPage
    \/ \E w \in Writers :
          \/ \E mine, long \in BOOLEAN : (long => mine) /\ Compose(w, mine, long)
          \/ WithChannelLock(w) \/ CountLines(w) \/ AppendText(w) \/ AppendNewline(w)
          \/ WriterDies(w)

ChannelSpec == ChannelInit /\ [][ChannelNext]_channelVars

-----------------------------------------------------------------------------
ChannelTypeOK ==
    /\ locked \in Writers \cup {Nobody} /\ clock \in 1 .. MaxClock /\ cursor \in 0 .. MaxClock
    /\ \A w \in Writers : writer[w].at \in {"idle", "lock", "count", "text", "newline"}
    /\ \A i \in DOMAIN lines : lines[i].msgs # <<>>

\* Posts of many processes never take the channel past its depth.
ChannelBounded == Len(lines) <= MaxChannelDepth

\* A post that was answered with success is a line of its own that every reader
\* takes, unless its line is too long for them, or it follows, in one line, the text of
\* writers that died before their newline.
PostedReadable ==
    \A m \in acked :
        \/ wide[m]
        \/ \E i \in DOMAIN lines : lines[i].msgs = <<m>>
        \/ \E i \in DOMAIN lines :
              LET msgs == lines[i].msgs
              IN  /\ deaths > 0 /\ Len(msgs) > 1 /\ msgs[Len(msgs)] = m
                  /\ \A k \in 1 .. Len(msgs) - 1 : msgs[k] \notin acked

\* A reader that pages by the latest stamp gets no message twice, although the file
\* is not in the order of the stamps.
NoMessageTwice == \A m \in MessageIds : got[m] <= 1

\* ... and passes over a message only when one with a stamp as late stands before
\* it in the file: stamps are taken before the lock and are no finer than a
\* millisecond.
PassedOnlyOnTies ==
    \A i \in DOMAIN lines :
        Readable(i) /\ forMe[First(i)] /\ got[First(i)] = 0 /\ sentAt[First(i)] <= cursor
        => \E j \in 1 .. i - 1 : forMe[First(j)] /\ sentAt[First(j)] >= sentAt[First(i)]

\* The peer channel between processes, any of which may die: an acknowledged message can be
\* read, the channel keeps its depth, and a reader that pages by time meets no message twice
\* and passes one over only if one with a stamp as late stands before it.
ChannelSound ==
    ChannelTypeOK /\ PostedReadable /\ ChannelBounded /\ NoMessageTwice /\ PassedOnlyOnTies
=============================================================================
