-------------------------- MODULE SessionFileProofs --------------------------
(* Theorems about the files a session reads and writes: the channel between  *)
(* peers (PeerChannel), the state file (SafeWrite) and the configuration     *)
(* (ConfigLoad), for every value of their constants.                         *)
EXTENDS PeerChannel, SafeWrite, ConfigLoad, SequenceTheorems, FiniteSetTheorems, TLAPS

-----------------------------------------------------------------------------
(***************************************************************************)
(* Writers.  Every message is composed once and is either still with its   *)
(* writer or at one place of the file; only the holder of the lock writes. *)
(***************************************************************************)
LineType == [msgs : Seq(MessageIds), ended : BOOLEAN]
Stages == {"idle", "lock", "count", "text", "newline"}
FileTypes ==
    /\ lines \in Seq(LineType) /\ locked \in Writers \cup {Nobody}
    /\ writer \in [Writers -> [at : Stages, msg : 0 .. MaxMessages]]
    /\ acked \subseteq MessageIds /\ deaths \in Nat
MessageTypes ==
    /\ sentAt \in [MessageIds -> 0 .. MaxClock] /\ clock \in 1 .. MaxClock
    /\ forMe \in [MessageIds -> BOOLEAN] /\ wide \in [MessageIds -> BOOLEAN]
ReaderTypes == cursor \in 0 .. MaxClock /\ got \in [MessageIds -> Nat]

\* Messages are numbered in the order they are composed.
Numbered == \E k \in 0 .. MaxMessages : Composed = 1 .. k

Written(m) == \E i \in DOMAIN lines : \E k \in DOMAIN lines[i].msgs : lines[i].msgs[k] = m
Busy(w) == writer[w].at # "idle"

WritersInv ==
    /\ \A w \in Writers : writer[w].at \in {"count", "text", "newline"} <=> locked = w
    /\ \A w \in Writers : Busy(w) => writer[w].msg \in Composed
    /\ \A v, w \in Writers : Busy(v) /\ Busy(w) /\ writer[v].msg = writer[w].msg => v = w
    /\ \A w \in Writers : writer[w].at \in {"lock", "count", "text"} => ~Written(writer[w].msg)
    /\ \A w \in Writers : writer[w].at = "text" => Len(lines) < MaxChannelDepth

\* The end of the file belongs to the writer that has written its text; an open
\* line without one was left by a death.
EndInv ==
    /\ \A w \in Writers : writer[w].at = "newline" =>
          LET last == lines[Len(lines)]
          IN  lines # <<>> /\ ~last.ended /\ last.msgs[Len(last.msgs)] = writer[w].msg
    /\ OpenLine /\ (\A w \in Writers : writer[w].at # "newline") => deaths > 0

LinesInv ==
    /\ Len(lines) <= MaxChannelDepth
    /\ \A i \in DOMAIN lines : lines[i].msgs # <<>> /\ (i < Len(lines) => lines[i].ended)
    /\ \A i \in DOMAIN lines : Len(lines[i].msgs) > 1 => deaths > 0
    /\ \A i \in DOMAIN lines : \A k \in DOMAIN lines[i].msgs : lines[i].msgs[k] \in Composed
    /\ \A i, j \in DOMAIN lines : \A k \in DOMAIN lines[i].msgs : \A l \in DOMAIN lines[j].msgs :
          lines[i].msgs[k] = lines[j].msgs[l] => i = j /\ k = l

\* Exactly messages that end a line were answered with success.
AckedInv ==
    /\ \A m \in acked : \E i \in DOMAIN lines :
          lines[i].ended /\ lines[i].msgs[Len(lines[i].msgs)] = m
    /\ \A i \in DOMAIN lines : \A k \in DOMAIN lines[i].msgs :
          lines[i].msgs[k] \in acked => lines[i].ended /\ k = Len(lines[i].msgs)

\* What was given is no newer than the cursor, and the cursor is the stamp of a
\* message for the reader that begins a line.
ReaderInv ==
    /\ \A m \in MessageIds : got[m] <= 1 /\ (got[m] > 0 => sentAt[m] # 0 /\ sentAt[m] <= cursor)
    /\ cursor > 0 => \E i \in DOMAIN lines : forMe[First(i)] /\ sentAt[First(i)] = cursor
    /\ PassedOnlyOnTies

ChannelInv ==
    /\ FileTypes /\ MessageTypes /\ ReaderTypes /\ Numbered
    /\ WritersInv /\ EndInv /\ LinesInv /\ AckedInv /\ ReaderInv

-----------------------------------------------------------------------------
(* Facts about the state *)

\* What the types say of lines and messages.
LEMMA LineFacts ==
    ASSUME FileTypes
    PROVE  /\ Len(lines) \in Nat /\ DOMAIN lines = 1 .. Len(lines)
           /\ \A i \in DOMAIN lines :
                 /\ lines[i] \in LineType /\ lines[i].msgs \in Seq(MessageIds)
                 /\ Len(lines[i].msgs) \in Nat /\ DOMAIN lines[i].msgs = 1 .. Len(lines[i].msgs)
                 /\ lines[i].ended \in BOOLEAN
<1>1. lines \in Seq(LineType)
  BY DEF FileTypes
<1>2. \A i \in DOMAIN lines : lines[i] \in LineType
  BY <1>1
<1>3. \A l \in LineType : l.msgs \in Seq(MessageIds) /\ l.ended \in BOOLEAN
  BY DEF LineType
<1>. QED  BY <1>1, <1>2, <1>3

\* What a writer is doing.
LEMMA WriterFacts ==
    ASSUME FileTypes, NEW w \in Writers
    PROVE  /\ writer[w] \in [at : Stages, msg : 0 .. MaxMessages]
           /\ writer[w].at \in Stages /\ writer[w].msg \in 0 .. MaxMessages
<1>1. writer[w] \in [at : Stages, msg : 0 .. MaxMessages]
  BY DEF FileTypes
<1>. QED  BY <1>1

\* The first message of a line.
LEMMA FirstFacts ==
    ASSUME ChannelInv, NEW i \in DOMAIN lines
    PROVE  /\ First(i) \in MessageIds /\ First(i) \in Composed /\ 1 \in DOMAIN lines[i].msgs
           /\ sentAt[First(i)] \in Nat /\ sentAt[First(i)] > 0 /\ sentAt[First(i)] <= MaxClock
<1>1. lines[i].msgs \in Seq(MessageIds) /\ lines[i].msgs # <<>>
  BY LineFacts DEF ChannelInv, LinesInv
<1>2. 1 \in DOMAIN lines[i].msgs
  BY <1>1
<1>3. First(i) \in Composed
  BY <1>2 DEF ChannelInv, LinesInv, First
<1>4. First(i) \in MessageIds /\ sentAt[First(i)] # 0
  BY <1>3 DEF Composed
<1>5. sentAt[First(i)] \in 0 .. MaxClock /\ MaxClock \in Nat
  BY <1>4, ChannelAssumption DEF ChannelInv, MessageTypes
<1>. QED  BY <1>2, <1>3, <1>4, <1>5

\* The state at the start.
LEMMA InitInv == ChannelInit => ChannelInv
<1>. SUFFICES ASSUME ChannelInit PROVE ChannelInv
  OBVIOUS
<1>1. lines = <<>> /\ Len(lines) = 0 /\ DOMAIN lines = {}
  BY DEF ChannelInit
<1>2. \A w \in Writers : writer[w].at = "idle"
  BY DEF ChannelInit, Resting
<1>3. Composed = {}
  BY DEF ChannelInit, Composed
<1>4. FileTypes
  <2>1. Resting \in [at : Stages, msg : 0 .. MaxMessages]
    BY ChannelAssumption DEF Resting, Stages
  <2>. QED  BY <2>1 DEF ChannelInit, FileTypes
<1>5. MessageTypes /\ ReaderTypes
  BY ChannelAssumption DEF ChannelInit, MessageTypes, ReaderTypes
<1>6. Numbered
  BY <1>3, ChannelAssumption DEF Numbered
<1>7. WritersInv
  BY <1>1, <1>2, ChannelAssumption DEF WritersInv, Busy, ChannelInit, Nobody
<1>8. EndInv
  BY <1>1, <1>2 DEF EndInv, OpenLine
<1>9. LinesInv
  BY <1>1, ChannelAssumption DEF LinesInv
<1>10. AckedInv
  BY <1>1 DEF AckedInv, ChannelInit
<1>11. ReaderInv
  <2>1. cursor = 0 /\ \A m \in MessageIds : got[m] = 0
    BY DEF ChannelInit
  <2>. QED  BY <1>1, <2>1 DEF ReaderInv, PassedOnlyOnTies
<1>. QED  BY <1>4, <1>5, <1>6, <1>7, <1>8, <1>9, <1>10, <1>11 DEF ChannelInv

-----------------------------------------------------------------------------
(* Steps that leave the file alone *)

\* The lines, what was acknowledged and what readers look at stay.
LEMMA SameFile ==
    ASSUME ChannelInv, UNCHANGED <<lines, acked, sentAt, deaths>>
    PROVE  LinesInv' /\ AckedInv' /\ Numbered'
BY DEF ChannelInv, LinesInv, AckedInv, Numbered, Composed

\* ... and so does the reader.
LEMMA SameReader ==
    ASSUME ChannelInv, UNCHANGED <<lines, sentAt, forMe, wide, cursor, got>>
    PROVE  ReaderInv' /\ ReaderTypes'
BY DEF ChannelInv, ReaderInv, ReaderTypes, PassedOnlyOnTies, Readable, First

\* Time passes.
LEMMA ClockStep == ASSUME ChannelInv, Millisecond PROVE ChannelInv'
<1>1. /\ UNCHANGED <<lines, locked, writer, sentAt, forMe, wide, acked, cursor, got, deaths>>
      /\ clock' = clock + 1 /\ clock < MaxClock
  BY DEF Millisecond
<1>2. FileTypes' /\ MessageTypes'
  BY <1>1, ChannelAssumption DEF ChannelInv, FileTypes, MessageTypes
<1>3. WritersInv' /\ EndInv'
  BY <1>1 DEF ChannelInv, WritersInv, EndInv, Busy, Written, Composed, OpenLine
<1>. QED  BY <1>1, <1>2, <1>3, SameFile, SameReader DEF ChannelInv

\* with_channel_lock: the next holder has written nothing.
LEMMA LockStep == ASSUME ChannelInv, NEW w \in Writers, WithChannelLock(w) PROVE ChannelInv'
<1>1. /\ UNCHANGED <<lines, sentAt, forMe, wide, acked, clock, cursor, got, deaths>>
      /\ writer[w].at = "lock" /\ locked = Nobody /\ locked' = w
      /\ writer' = [writer EXCEPT ![w].at = "count"]
  BY DEF WithChannelLock
<1>2. /\ writer'[w].at = "count" /\ writer'[w].msg = writer[w].msg
      /\ \A v \in Writers : v # w => writer'[v] = writer[v]
      /\ writer' \in [Writers -> [at : Stages, msg : 0 .. MaxMessages]]
  BY <1>1, WriterFacts DEF ChannelInv, FileTypes, Stages
<1>3. FileTypes' /\ MessageTypes'
  BY <1>1, <1>2 DEF ChannelInv, FileTypes, MessageTypes
<1>4. \A v \in Writers : writer[v].at \notin {"count", "text", "newline"}
  BY <1>1, ChannelAssumption DEF ChannelInv, WritersInv, Nobody
<1>5. WritersInv'
  BY <1>1, <1>2, <1>4 DEF ChannelInv, WritersInv, Busy, Written, Composed
<1>6. EndInv'
  BY <1>1, <1>2, <1>4 DEF ChannelInv, EndInv, OpenLine
<1>. QED  BY <1>1, <1>3, <1>5, <1>6, SameFile, SameReader DEF ChannelInv

\* count_lines: the channel is full, or there is room for the text.
LEMMA CountStep == ASSUME ChannelInv, NEW w \in Writers, CountLines(w) PROVE ChannelInv'
<1>1. /\ UNCHANGED <<lines, sentAt, forMe, wide, acked, clock, cursor, got, deaths>>
      /\ writer[w].at = "count"
      /\ \/ writer' = [writer EXCEPT ![w] = Resting] /\ locked' = Nobody
         \/ /\ writer' = [writer EXCEPT ![w].at = "text"] /\ locked' = locked
            /\ Len(lines) < MaxChannelDepth
  BY DEF CountLines
<1>2. locked = w /\ \A v \in Writers : v # w => writer[v].at \notin {"count", "text", "newline"}
  BY <1>1 DEF ChannelInv, WritersInv
<1>3. /\ \A v \in Writers : v # w => writer'[v] = writer[v]
      /\ writer' \in [Writers -> [at : Stages, msg : 0 .. MaxMessages]]
      /\ \/ writer'[w].at = "idle" /\ locked' = Nobody
         \/ /\ writer'[w].at = "text" /\ writer'[w].msg = writer[w].msg /\ locked' = locked
            /\ Len(lines) < MaxChannelDepth
  BY <1>1, WriterFacts, ChannelAssumption DEF ChannelInv, FileTypes, Stages, Resting
<1>4. FileTypes' /\ MessageTypes'
  BY <1>1, <1>3 DEF ChannelInv, FileTypes, MessageTypes
<1>5. WritersInv'
  BY <1>1, <1>2, <1>3, ChannelAssumption DEF ChannelInv, WritersInv, Busy, Written, Composed, Nobody
<1>6. EndInv'
  BY <1>1, <1>2, <1>3 DEF ChannelInv, EndInv, OpenLine
<1>. QED  BY <1>1, <1>4, <1>5, <1>6, SameFile, SameReader DEF ChannelInv

\* A writer dies: the line it may have begun stays open.
LEMMA DeathStep == ASSUME ChannelInv, NEW w \in Writers, WriterDies(w) PROVE ChannelInv'
<1>1. /\ UNCHANGED <<lines, sentAt, forMe, wide, acked, clock, cursor, got>>
      /\ writer[w].at \in {"text", "newline"} /\ deaths' = deaths + 1
      /\ writer' = [writer EXCEPT ![w] = Resting] /\ locked' = Nobody
  BY DEF WriterDies
<1>2. locked = w /\ \A v \in Writers : v # w => writer[v].at \notin {"count", "text", "newline"}
  BY <1>1 DEF ChannelInv, WritersInv
<1>3. /\ \A v \in Writers : v # w => writer'[v] = writer[v]
      /\ writer' \in [Writers -> [at : Stages, msg : 0 .. MaxMessages]] /\ writer'[w].at = "idle"
  BY <1>1, WriterFacts, ChannelAssumption DEF ChannelInv, FileTypes, Stages, Resting
<1>4. deaths' \in Nat /\ deaths' > 0
  BY <1>1 DEF ChannelInv, FileTypes
<1>5. FileTypes' /\ MessageTypes'
  BY <1>1, <1>3, <1>4 DEF ChannelInv, FileTypes, MessageTypes
<1>6. WritersInv'
  BY <1>1, <1>2, <1>3, ChannelAssumption DEF ChannelInv, WritersInv, Busy, Written, Composed, Nobody
<1>7. EndInv'
  BY <1>1, <1>2, <1>3, <1>4 DEF ChannelInv, EndInv, OpenLine
<1>8. LinesInv' /\ AckedInv' /\ Numbered'
  BY <1>1, <1>4 DEF ChannelInv, LinesInv, AckedInv, Numbered, Composed
<1>. QED  BY <1>1, <1>5, <1>6, <1>7, <1>8, SameReader DEF ChannelInv

\* A new message is not composed, written or given before.
LEMMA ComposeStep ==
    ASSUME ChannelInv, NEW w \in Writers, NEW mine \in BOOLEAN, NEW long \in BOOLEAN,
           Compose(w, mine, long)
    PROVE  ChannelInv'
<1>. DEFINE m == Cardinality(Composed) + 1
<1>1. /\ UNCHANGED <<lines, locked, acked, clock, cursor, got, deaths>>
      /\ writer[w].at = "idle" /\ Cardinality(Composed) < MaxMessages
      /\ sentAt' = [sentAt EXCEPT ![m] = clock]
      /\ forMe' = [forMe EXCEPT ![m] = mine] /\ wide' = [wide EXCEPT ![m] = long]
      /\ writer' = [writer EXCEPT ![w] = [at |-> "lock", msg |-> m]]
  BY DEF Compose
<1>2. PICK k \in 0 .. MaxMessages : Composed = 1 .. k
  BY DEF ChannelInv, Numbered
<1>3. m = k + 1 /\ m \in MessageIds /\ m \notin Composed
  <2>1. Cardinality(1 .. k) = k
    BY <1>2, FS_Interval, ChannelAssumption
  <2>. QED  BY <1>1, <1>2, <2>1, ChannelAssumption DEF MessageIds
<1>. HIDE DEF m
<1>4. /\ \A x \in MessageIds : x # m => /\ sentAt'[x] = sentAt[x] /\ forMe'[x] = forMe[x]
                                        /\ wide'[x] = wide[x]
      /\ sentAt'[m] = clock /\ clock # 0 /\ clock \in 0 .. MaxClock
  BY <1>1, <1>3, ChannelAssumption DEF ChannelInv, MessageTypes
<1>5. Composed' = Composed \cup {m}
  BY <1>3, <1>4 DEF Composed
<1>6. /\ writer'[w].at = "lock" /\ writer'[w].msg = m
      /\ \A v \in Writers : v # w => writer'[v] = writer[v]
      /\ writer' \in [Writers -> [at : Stages, msg : 0 .. MaxMessages]]
  <2>1. [at |-> "lock", msg |-> m] \in [at : Stages, msg : 0 .. MaxMessages]
    BY <1>3, ChannelAssumption DEF Stages, MessageIds
  <2>. QED  BY <1>1, <2>1 DEF ChannelInv, FileTypes
<1>7. FileTypes' /\ MessageTypes'
  BY <1>1, <1>3, <1>4, <1>6 DEF ChannelInv, FileTypes, MessageTypes
<1>8. Numbered'
  <2>1. k + 1 \in 0 .. MaxMessages /\ Composed' = 1 .. (k + 1)
    BY <1>2, <1>3, <1>5, ChannelAssumption DEF MessageIds
  <2>. QED  BY <2>1 DEF Numbered
<1>9. ~Written(m)
  BY <1>3 DEF ChannelInv, LinesInv, Written
<1>10. locked # w
  BY <1>1 DEF ChannelInv, WritersInv
<1>11. WritersInv'
  <2>1. \A x : Written(x)' <=> Written(x)
    BY <1>1 DEF Written
  <2>2. \A v \in Writers : v # w /\ Busy(v) => writer[v].msg # m
    BY <1>3 DEF ChannelInv, WritersInv
  <2>3. \A v, u \in Writers : Busy(v)' /\ Busy(u)' /\ writer'[v].msg = writer'[u].msg => v = u
    BY <1>6, <2>2 DEF ChannelInv, WritersInv, Busy
  <2>4. \A v \in Writers : writer'[v].at \in {"count", "text", "newline"} <=> locked' = v
    BY <1>1, <1>6, <1>10 DEF ChannelInv, WritersInv
  <2>5. \A v \in Writers : Busy(v)' => writer'[v].msg \in Composed'
    BY <1>5, <1>6 DEF ChannelInv, WritersInv, Busy
  <2>6. \A v \in Writers : writer'[v].at \in {"lock", "count", "text"} => ~Written(writer[v].msg)'
    BY <1>6, <1>9, <2>1 DEF ChannelInv, WritersInv
  <2>7. \A v \in Writers : writer'[v].at = "text" => Len(lines') < MaxChannelDepth
    BY <1>1, <1>6 DEF ChannelInv, WritersInv
  <2>. QED  BY <2>3, <2>4, <2>5, <2>6, <2>7 DEF WritersInv
<1>12. EndInv'
  BY <1>1, <1>6 DEF ChannelInv, EndInv, OpenLine
<1>13. LinesInv' /\ AckedInv'
  BY <1>1, <1>5 DEF ChannelInv, LinesInv, AckedInv
<1>14. ReaderInv' /\ ReaderTypes'
  <2>1. \A i \in DOMAIN lines : /\ First(i)' = First(i) /\ First(i) # m
                                /\ sentAt'[First(i)] = sentAt[First(i)]
                                /\ forMe'[First(i)] = forMe[First(i)]
                                /\ wide'[First(i)] = wide[First(i)]
    BY <1>1, <1>3, <1>4, FirstFacts DEF First
  <2>2. \A i \in DOMAIN lines : Readable(i)' <=> Readable(i)
    BY <1>1, <2>1 DEF Readable
  <2>3. PassedOnlyOnTies'
    <3>1. \A i \in DOMAIN lines : \A j \in 1 .. i - 1 : j \in DOMAIN lines
      BY LineFacts DEF ChannelInv
    <3>. QED  BY <1>1, <2>1, <2>2, <3>1 DEF ChannelInv, ReaderInv, PassedOnlyOnTies
  <2>4. got[m] = 0
    BY <1>3 DEF ChannelInv, ReaderInv, ReaderTypes, Composed
  <2>5. \A x \in MessageIds : got'[x] <= 1 /\ (got'[x] > 0 => sentAt'[x] # 0 /\ sentAt'[x] <= cursor')
    BY <1>1, <1>4, <2>4 DEF ChannelInv, ReaderInv
  <2>6. cursor' > 0 => \E i \in DOMAIN lines' : forMe'[First(i)'] /\ sentAt'[First(i)'] = cursor'
    BY <1>1, <2>1 DEF ChannelInv, ReaderInv
  <2>7. ReaderTypes'
    BY <1>1 DEF ChannelInv, ReaderTypes
  <2>. QED  BY <2>3, <2>5, <2>6, <2>7 DEF ReaderInv
<1>. QED  BY <1>7, <1>8, <1>11, <1>12, <1>13, <1>14 DEF ChannelInv

-----------------------------------------------------------------------------
(* Steps that write *)

\* The newline ends the line and the post: the message is acknowledged where it stands.
LEMMA NewlineStep == ASSUME ChannelInv, NEW w \in Writers, AppendNewline(w) PROVE ChannelInv'
<1>. DEFINE n == Len(lines)
            m == writer[w].msg
<1>1. /\ UNCHANGED <<sentAt, forMe, wide, clock, cursor, got, deaths>>
      /\ writer[w].at = "newline" /\ lines' = [lines EXCEPT ![n].ended = TRUE]
      /\ acked' = acked \cup {m}
      /\ writer' = [writer EXCEPT ![w] = Resting] /\ locked' = Nobody
  BY DEF AppendNewline
<1>2. locked = w /\ \A v \in Writers : v # w => writer[v].at \notin {"count", "text", "newline"}
  BY <1>1 DEF ChannelInv, WritersInv
<1>3. /\ lines # <<>> /\ ~lines[n].ended /\ lines[n].msgs[Len(lines[n].msgs)] = m
      /\ m \in Composed
  BY <1>1 DEF ChannelInv, WritersInv, EndInv, Busy
<1>4. /\ lines \in Seq(LineType) /\ n \in Nat /\ DOMAIN lines = 1 .. n /\ n \in DOMAIN lines
      /\ lines[n] \in LineType
  BY <1>3, LineFacts DEF ChannelInv, FileTypes
<1>5. /\ lines' \in Seq(LineType) /\ Len(lines') = n /\ DOMAIN lines' = DOMAIN lines
      /\ \A i \in DOMAIN lines : lines'[i].msgs = lines[i].msgs
      /\ \A i \in DOMAIN lines : lines'[i].ended = (i = n \/ lines[i].ended)
  <2>1. [lines[n] EXCEPT !.ended = TRUE] \in LineType
    BY <1>4 DEF LineType
  <2>2. lines' = [lines EXCEPT ![n] = [lines[n] EXCEPT !.ended = TRUE]]
    BY <1>1
  <2>3. lines' \in Seq(LineType) /\ Len(lines') = n /\ DOMAIN lines' = DOMAIN lines
    BY <1>4, <2>1, <2>2
  <2>4. lines'[n].msgs = lines[n].msgs /\ lines'[n].ended = TRUE
    BY <1>4, <2>2 DEF LineType
  <2>5. \A i \in DOMAIN lines : i # n => lines'[i] = lines[i]
    BY <1>4, <2>2
  <2>6. \A i \in DOMAIN lines : lines[i].ended \in BOOLEAN
    BY LineFacts DEF ChannelInv
  <2>. QED  BY <2>3, <2>4, <2>5, <2>6
<1>6. /\ \A v \in Writers : v # w => writer'[v] = writer[v]
      /\ writer' \in [Writers -> [at : Stages, msg : 0 .. MaxMessages]] /\ writer'[w].at = "idle"
  BY <1>1, WriterFacts, ChannelAssumption DEF ChannelInv, FileTypes, Stages, Resting
<1>7. m \in MessageIds /\ Composed' = Composed
  BY <1>1, <1>3 DEF Composed
<1>. HIDE DEF n, m
<1>8. FileTypes' /\ MessageTypes' /\ Numbered'
  BY <1>1, <1>5, <1>6, <1>7 DEF ChannelInv, FileTypes, MessageTypes, Numbered
<1>9. WritersInv'
  <2>1. \A x : Written(x)' <=> Written(x)
    BY <1>5 DEF Written
  <2>. QED  BY <1>1, <1>2, <1>5, <1>6, <1>7, <2>1, ChannelAssumption
            DEF ChannelInv, WritersInv, Busy, Nobody, n
<1>10. EndInv'
  BY <1>2, <1>4, <1>5, <1>6 DEF EndInv, OpenLine
<1>11. LinesInv'
  <2>1. Len(lines') <= MaxChannelDepth
    BY <1>5 DEF ChannelInv, LinesInv, n
  <2>2. \A i \in DOMAIN lines' : lines'[i].msgs # <<>> /\ (i < Len(lines') => lines'[i].ended)
    BY <1>5 DEF ChannelInv, LinesInv, n
  <2>. QED  BY <1>1, <1>5, <1>7, <2>1, <2>2 DEF ChannelInv, LinesInv
<1>12. AckedInv'
  <2>1. ASSUME NEW x \in acked'
        PROVE  \E i \in DOMAIN lines' : lines'[i].ended /\ lines'[i].msgs[Len(lines'[i].msgs)] = x
    BY <1>1, <1>3, <1>4, <1>5 DEF ChannelInv, AckedInv
  <2>2. ASSUME NEW i \in DOMAIN lines', NEW k \in DOMAIN lines'[i].msgs, lines'[i].msgs[k] \in acked'
        PROVE  lines'[i].ended /\ k = Len(lines'[i].msgs)
    <3>1. CASE lines[i].msgs[k] \in acked
      BY <1>5, <3>1 DEF ChannelInv, AckedInv
    <3>2. CASE lines[i].msgs[k] = m
      <4>1. Len(lines[n].msgs) \in DOMAIN lines[n].msgs
        <5>1. lines[n].msgs \in Seq(MessageIds) /\ lines[n].msgs # <<>>
          BY <1>4, LineFacts DEF ChannelInv, LinesInv
        <5>. QED  BY <5>1
      <4>2. i = n /\ k = Len(lines[n].msgs)
        BY <1>3, <1>4, <1>5, <2>2, <3>2, <4>1 DEF ChannelInv, LinesInv
      <4>. QED  BY <1>5, <4>2
    <3>. QED  BY <1>1, <1>5, <2>2, <3>1, <3>2
  <2>. QED  BY <2>1, <2>2 DEF AckedInv
<1>13. ReaderInv' /\ ReaderTypes'
  <2>1. \A i \in DOMAIN lines : First(i)' = First(i) /\ (Readable(i)' <=> Readable(i))
    BY <1>1, <1>5 DEF First, Readable
  <2>2. \A i \in DOMAIN lines : \A j \in 1 .. i - 1 : j \in DOMAIN lines
    BY <1>4
  <2>3. PassedOnlyOnTies'
    BY <1>1, <1>5, <2>1, <2>2 DEF ChannelInv, ReaderInv, PassedOnlyOnTies
  <2>. QED  BY <1>1, <1>5, <2>1, <2>3 DEF ChannelInv, ReaderInv, ReaderTypes
<1>. QED  BY <1>8, <1>9, <1>10, <1>11, <1>12, <1>13 DEF ChannelInv

\* What appending message m does to the file: one place more, the last of an open last
\* line, the rest as it was.
Extended(m) ==
    LET n == Len(lines')
        last == lines'[n].msgs
    IN  /\ lines' \in Seq(LineType) /\ n \in Nat /\ n > 0 /\ DOMAIN lines' = 1 .. n
        /\ last \in Seq(MessageIds) /\ Len(last) \in Nat /\ Len(last) > 0
        /\ last[Len(last)] = m /\ ~lines'[n].ended
        /\ \A i \in 1 .. n - 1 : i \in DOMAIN lines /\ lines'[i] = lines[i] /\ lines[i].ended
        /\ \A i \in DOMAIN lines : i \in DOMAIN lines'
        /\ n \notin DOMAIN lines => Len(last) = 1
        /\ n \in DOMAIN lines => /\ OpenLine /\ n = Len(lines)
                                 /\ Len(last) = Len(lines[n].msgs) + 1
                                 /\ \A k \in DOMAIN lines[n].msgs :
                                       k \in DOMAIN last /\ last[k] = lines[n].msgs[k]

\* The text goes on with an open line, or begins a line.
LEMMA TextExtends ==
    ASSUME ChannelInv, NEW w \in Writers, AppendText(w)
    PROVE  Extended(writer[w].msg)
<1>. DEFINE m == writer[w].msg
            n == Len(lines)
<1>1. /\ lines' = IF OpenLine THEN [lines EXCEPT ![n].msgs = Append(@, m)]
                  ELSE Append(lines, [msgs |-> <<m>>, ended |-> FALSE])
      /\ writer[w].at = "text"
  BY DEF AppendText
<1>2. m \in MessageIds
  BY <1>1 DEF ChannelInv, WritersInv, Busy, Composed
<1>3. lines \in Seq(LineType) /\ n \in Nat /\ DOMAIN lines = 1 .. n
  BY LineFacts DEF ChannelInv, FileTypes
<1>4. \A i \in DOMAIN lines : i < n => lines[i].ended
  BY DEF ChannelInv, LinesInv
<1>. HIDE DEF m
<1>5. CASE OpenLine
  <2>. DEFINE msgs == lines[n].msgs
              line == [lines[n] EXCEPT !.msgs = Append(msgs, m)]
  <2>1. n \in DOMAIN lines /\ n > 0 /\ ~lines[n].ended
    BY <1>3, <1>5 DEF OpenLine
  <2>2. lines[n] \in LineType /\ msgs \in Seq(MessageIds) /\ Len(msgs) \in Nat
        /\ DOMAIN msgs = 1 .. Len(msgs)
    BY <2>1, LineFacts DEF ChannelInv
  <2>3. /\ Append(msgs, m) \in Seq(MessageIds) /\ Len(Append(msgs, m)) = Len(msgs) + 1
        /\ Append(msgs, m)[Len(msgs) + 1] = m
        /\ \A k \in 1 .. Len(msgs) : k \in DOMAIN Append(msgs, m) /\ Append(msgs, m)[k] = msgs[k]
    <3>. HIDE DEF msgs
    <3>. QED  BY <1>2, <2>2
  <2>4. line \in LineType /\ line.msgs = Append(msgs, m) /\ line.ended = lines[n].ended
    <3>1. Append(msgs, m) \in Seq(MessageIds)
      BY <2>3
    <3>. QED  BY <2>2, <3>1 DEF LineType
  <2>5. lines' = [lines EXCEPT ![n] = line]
    BY <1>1, <1>5
  <2>. HIDE DEF line
  <2>6. /\ lines' \in Seq(LineType) /\ Len(lines') = n /\ DOMAIN lines' = 1 .. n /\ lines'[n] = line
        /\ \A i \in 1 .. n - 1 : lines'[i] = lines[i]
    <3>1. line \in LineType
      BY <2>4
    <3>2. lines' \in Seq(LineType) /\ Len(lines') = n /\ DOMAIN lines' = DOMAIN lines
      BY <1>3, <2>1, <2>5, <3>1
    <3>3. lines'[n] = line /\ \A i \in DOMAIN lines : i # n => lines'[i] = lines[i]
      BY <1>3, <2>1, <2>5
    <3>. HIDE DEF n
    <3>. QED  BY <1>3, <3>2, <3>3
  <2>7. \A i \in 1 .. n - 1 : i \in DOMAIN lines /\ lines[i].ended
    BY <1>3, <1>4
  <2>8. Len(line.msgs) = Len(msgs) + 1 /\ line.msgs[Len(line.msgs)] = m
    BY <2>3, <2>4
  <2>. HIDE DEF n, msgs
  <2>9. /\ \A k \in DOMAIN msgs : k \in DOMAIN line.msgs /\ line.msgs[k] = msgs[k]
        /\ Len(line.msgs) \in Nat /\ Len(line.msgs) > 0 /\ line.msgs \in Seq(MessageIds)
    BY <2>2, <2>3, <2>4, <2>8
  <2>. QED  BY <1>3, <1>5, <2>1, <2>4, <2>6, <2>7, <2>8, <2>9 DEF Extended, m, n, msgs
<1>6. CASE ~OpenLine
  <2>. DEFINE line == [msgs |-> <<m>>, ended |-> FALSE]
  <2>1. /\ line \in LineType /\ line.msgs = <<m>> /\ line.ended = FALSE
    BY <1>2 DEF LineType
  <2>2. lines' = Append(lines, line)
    BY <1>1, <1>6
  <2>. HIDE DEF line
  <2>3. /\ lines' \in Seq(LineType) /\ Len(lines') = n + 1 /\ DOMAIN lines' = 1 .. n + 1
        /\ lines'[n + 1] = line /\ \A i \in 1 .. n : lines'[i] = lines[i]
    BY <1>3, <2>1, <2>2
  <2>4. \A i \in 1 .. n : i \in DOMAIN lines /\ lines[i].ended
    <3>1. n > 0 => lines # <<>>
      BY <1>3
    <3>2. n > 0 => lines[n].ended
      BY <1>6, <3>1 DEF OpenLine
    <3>. QED  BY <1>3, <1>4, <3>2
  <2>5. /\ Len(line.msgs) = 1 /\ line.msgs[1] = m /\ line.msgs \in Seq(MessageIds)
    BY <1>2, <2>1
  <2>. HIDE DEF n
  <2>6. n + 1 \notin DOMAIN lines /\ (n + 1) - 1 = n /\ n + 1 \in Nat /\ n + 1 > 0
    BY <1>3
  <2>7. \A i \in 1 .. n : i \in DOMAIN lines' /\ lines'[i] = lines[i]
    BY <1>3, <2>3
  <2>. DEFINE e == n + 1
  <2>8. Len(lines') = e /\ DOMAIN lines' = 1 .. e /\ lines'[e] = line
    BY <2>3
  <2>. HIDE DEF e
  <2>9. e \notin DOMAIN lines /\ e - 1 = n /\ e \in Nat /\ e > 0
    BY <2>6 DEF e
  <2>10. lines'[e].msgs = line.msgs /\ ~lines'[e].ended
    BY <2>1, <2>8
  <2>. QED  BY <1>3, <2>3, <2>4, <2>5, <2>7, <2>8, <2>9, <2>10 DEF Extended, m
<1>. QED  BY <1>5, <1>6

\* The places of the extended file.
LEMMA ExtendedPlaces ==
    ASSUME ChannelInv, NEW m, Extended(m)
    PROVE  /\ \A i \in DOMAIN lines' : \A k \in DOMAIN lines'[i].msgs :
                 \/ i = Len(lines') /\ k = Len(lines'[i].msgs) /\ lines'[i].msgs[k] = m
                 \/ /\ i \in DOMAIN lines /\ k \in DOMAIN lines[i].msgs
                    /\ lines'[i].msgs[k] = lines[i].msgs[k]
           /\ \A i \in DOMAIN lines : \A k \in DOMAIN lines[i].msgs :
                 /\ i \in DOMAIN lines' /\ k \in DOMAIN lines'[i].msgs
                 /\ lines'[i].msgs[k] = lines[i].msgs[k]
                 /\ i = Len(lines') => k < Len(lines'[i].msgs)
<1>. DEFINE n == Len(lines')
            last == lines'[n].msgs
<1>1. /\ n \in Nat /\ n > 0 /\ DOMAIN lines' = 1 .. n
      /\ last \in Seq(MessageIds) /\ Len(last) \in Nat /\ Len(last) > 0 /\ last[Len(last)] = m
      /\ \A i \in 1 .. n - 1 : i \in DOMAIN lines /\ lines'[i] = lines[i]
      /\ \A i \in DOMAIN lines : i \in DOMAIN lines'
      /\ n \notin DOMAIN lines => Len(last) = 1
      /\ n \in DOMAIN lines => /\ Len(last) = Len(lines[n].msgs) + 1
                               /\ \A k \in DOMAIN lines[n].msgs :
                                     k \in DOMAIN last /\ last[k] = lines[n].msgs[k]
  BY DEF Extended
<1>2. DOMAIN last = 1 .. Len(last)
  BY <1>1
<1>3. n \in DOMAIN lines => /\ Len(lines[n].msgs) \in Nat
                            /\ DOMAIN lines[n].msgs = 1 .. Len(lines[n].msgs)
  BY LineFacts DEF ChannelInv
<1>. HIDE DEF n
<1>4. ASSUME NEW i \in DOMAIN lines', NEW k \in DOMAIN lines'[i].msgs
      PROVE  \/ i = n /\ k = Len(lines'[i].msgs) /\ lines'[i].msgs[k] = m
             \/ /\ i \in DOMAIN lines /\ k \in DOMAIN lines[i].msgs
                /\ lines'[i].msgs[k] = lines[i].msgs[k]
  <2>1. CASE i # n
    <3>1. i \in 1 .. n - 1
      BY <1>1, <2>1
    <3>. QED  BY <1>1, <1>4, <3>1
  <2>2. CASE i = n
    <3>1. CASE k = Len(last)
      BY <1>1, <2>2, <3>1
    <3>2. CASE k # Len(last)
      <4>1. k \in 1 .. Len(last) /\ k < Len(last)
        BY <1>1, <1>2, <1>4, <2>2, <3>2
      <4>2. n \in DOMAIN lines
        BY <1>1, <4>1
      <4>3. k \in DOMAIN lines[n].msgs
        BY <1>1, <1>3, <4>1, <4>2
      <4>. QED  BY <1>1, <2>2, <4>2, <4>3
    <3>. QED  BY <3>1, <3>2
  <2>. QED  BY <2>1, <2>2
<1>5. ASSUME NEW i \in DOMAIN lines, NEW k \in DOMAIN lines[i].msgs
      PROVE  /\ i \in DOMAIN lines' /\ k \in DOMAIN lines'[i].msgs
             /\ lines'[i].msgs[k] = lines[i].msgs[k] /\ (i = n => k < Len(lines'[i].msgs))
  <2>1. CASE i # n
    <3>1. i \in 1 .. n - 1
      BY <1>1, <2>1
    <3>. QED  BY <1>1, <2>1, <3>1
  <2>2. CASE i = n
    BY <1>1, <1>3, <2>2
  <2>. QED  BY <2>1, <2>2
<1>. QED  BY <1>4, <1>5 DEF n

\* The text: the message, which was nowhere, is now the last of the open line.
LEMMA TextStep == ASSUME ChannelInv, NEW w \in Writers, AppendText(w) PROVE ChannelInv'
<1>. DEFINE m == writer[w].msg
            n == Len(lines')
<1>1. /\ UNCHANGED <<locked, sentAt, forMe, wide, acked, clock, cursor, got, deaths>>
      /\ writer[w].at = "text" /\ writer' = [writer EXCEPT ![w].at = "newline"]
  BY DEF AppendText
<1>2. Extended(m)
  BY TextExtends
<1>3. /\ locked = w /\ \A v \in Writers : v # w => writer[v].at \notin {"count", "text", "newline"}
      /\ m \in Composed /\ ~Written(m) /\ Len(lines) < MaxChannelDepth
      /\ \A v \in Writers : v # w /\ Busy(v) => writer[v].msg # m
  BY <1>1 DEF ChannelInv, WritersInv, Busy
<1>4. /\ writer'[w].at = "newline" /\ writer'[w].msg = m
      /\ \A v \in Writers : v # w => writer'[v] = writer[v]
      /\ writer' \in [Writers -> [at : Stages, msg : 0 .. MaxMessages]]
  BY <1>1, WriterFacts DEF ChannelInv, FileTypes, Stages
<1>5. Composed' = Composed
  BY <1>1 DEF Composed
<1>. HIDE DEF m
<1>6. /\ \A i \in DOMAIN lines' : \A k \in DOMAIN lines'[i].msgs :
            \/ i = n /\ k = Len(lines'[i].msgs) /\ lines'[i].msgs[k] = m
            \/ /\ i \in DOMAIN lines /\ k \in DOMAIN lines[i].msgs
               /\ lines'[i].msgs[k] = lines[i].msgs[k]
      /\ \A i \in DOMAIN lines : \A k \in DOMAIN lines[i].msgs :
            /\ i \in DOMAIN lines' /\ k \in DOMAIN lines'[i].msgs
            /\ lines'[i].msgs[k] = lines[i].msgs[k] /\ (i = n => k < Len(lines'[i].msgs))
  BY <1>2, ExtendedPlaces
<1>7. /\ lines' \in Seq(LineType) /\ n \in Nat /\ n > 0 /\ DOMAIN lines' = 1 .. n
      /\ lines'[n].msgs[Len(lines'[n].msgs)] = m /\ ~lines'[n].ended
      /\ Len(lines'[n].msgs) \in Nat /\ Len(lines'[n].msgs) > 0
      /\ \A i \in 1 .. n - 1 : i \in DOMAIN lines /\ lines'[i] = lines[i] /\ lines[i].ended
      /\ n \notin DOMAIN lines => Len(lines'[n].msgs) = 1
      /\ n \in DOMAIN lines => OpenLine /\ n = Len(lines)
      /\ n \in DOMAIN lines => Len(lines'[n].msgs) = Len(lines[n].msgs) + 1
      /\ \A i \in DOMAIN lines : i \in DOMAIN lines'
  BY <1>2 DEF Extended
<1>8. Len(lines) \in Nat /\ DOMAIN lines = 1 .. Len(lines)
  BY LineFacts DEF ChannelInv
<1>. HIDE DEF n
<1>9. n <= Len(lines) + 1
  <2>1. n \in Nat /\ n > 0 /\ (n - 1 \in 1 .. n - 1 => n - 1 \in DOMAIN lines)
    BY <1>7
  <2>. QED  BY <2>1, <1>8
<1>10. FileTypes' /\ MessageTypes' /\ Numbered'
  BY <1>1, <1>4, <1>5, <1>7 DEF ChannelInv, FileTypes, MessageTypes, Numbered
<1>11. \A x : Written(x)' => x = m \/ Written(x)
  BY <1>6 DEF Written
<1>12. WritersInv'
  <2>1. \A v \in Writers : writer'[v].at \in {"count", "text", "newline"} <=> locked' = v
    BY <1>1, <1>3, <1>4
  <2>2. \A v \in Writers : Busy(v)' => writer'[v].msg \in Composed'
    BY <1>3, <1>4, <1>5 DEF ChannelInv, WritersInv, Busy
  <2>3. \A v, u \in Writers : Busy(v)' /\ Busy(u)' /\ writer'[v].msg = writer'[u].msg => v = u
    BY <1>3, <1>4 DEF ChannelInv, WritersInv, Busy
  <2>4. \A v \in Writers : writer'[v].at \in {"lock", "count", "text"} => ~Written(writer[v].msg)'
    <3>. SUFFICES ASSUME NEW v \in Writers, writer'[v].at \in {"lock", "count", "text"},
                         Written(writer[v].msg)'
                  PROVE  FALSE
      OBVIOUS
    <3>1. v # w /\ writer'[v] = writer[v] /\ Busy(v)
      BY <1>4 DEF Busy
    <3>2. writer[v].msg = m \/ Written(writer[v].msg)
      BY <1>11, <3>1 DEF Written
    <3>. QED  BY <1>3, <3>1, <3>2 DEF ChannelInv, WritersInv
  <2>5. \A v \in Writers : writer'[v].at # "text"
    BY <1>3, <1>4
  <2>. QED  BY <2>1, <2>2, <2>3, <2>4, <2>5 DEF WritersInv
<1>13. EndInv'
  <2>1. lines' # <<>>
    BY <1>7
  <2>2. \A v \in Writers : writer'[v].at = "newline" => v = w
    BY <1>3, <1>4
  <2>. QED  BY <1>4, <1>7, <2>1, <2>2 DEF EndInv, n
<1>14. n \in DOMAIN lines => deaths > 0
  BY <1>1, <1>3, <1>7 DEF ChannelInv, EndInv
<1>15. LinesInv'
  <2>1. n <= MaxChannelDepth
    <3>1. n \in Nat /\ Len(lines) \in Nat /\ MaxChannelDepth \in Nat /\ Len(lines) < MaxChannelDepth
      BY <1>3, <1>7, <1>8, ChannelAssumption
    <3>. QED  BY <1>9, <3>1
  <2>2. \A i \in DOMAIN lines' : i # n => i \in 1 .. n - 1
    BY <1>7
  <2>3. \A i \in DOMAIN lines' : lines'[i].msgs # <<>> /\ (i < n => lines'[i].ended)
    <3>1. lines'[n].msgs # <<>>
      BY <1>7
    <3>. QED  BY <1>7, <2>2, <3>1 DEF ChannelInv, LinesInv
  <2>4. \A i \in DOMAIN lines' : Len(lines'[i].msgs) > 1 => deaths' > 0
    BY <1>1, <1>7, <1>14, <2>2 DEF ChannelInv, LinesInv
  <2>5. \A i \in DOMAIN lines' : \A k \in DOMAIN lines'[i].msgs : lines'[i].msgs[k] \in Composed'
    BY <1>3, <1>5, <1>6 DEF ChannelInv, LinesInv
  <2>6. ASSUME NEW i \in DOMAIN lines', NEW j \in DOMAIN lines', NEW k \in DOMAIN lines'[i].msgs,
               NEW l \in DOMAIN lines'[j].msgs, lines'[i].msgs[k] = lines'[j].msgs[l]
        PROVE  i = j /\ k = l
    <3>1. \A a \in DOMAIN lines : \A b \in DOMAIN lines[a].msgs : lines[a].msgs[b] # m
      BY <1>3 DEF Written
    <3>. QED  BY <1>6, <2>6, <3>1 DEF ChannelInv, LinesInv
  <2>. QED  BY <2>1, <2>3, <2>4, <2>5, <2>6 DEF LinesInv, n
<1>16. AckedInv'
  <2>1. m \notin acked
    <3>1. ASSUME m \in acked PROVE Written(m)
      <4>1. PICK i \in DOMAIN lines : lines[i].msgs[Len(lines[i].msgs)] = m
        BY <3>1 DEF ChannelInv, AckedInv
      <4>2. lines[i].msgs \in Seq(MessageIds) /\ lines[i].msgs # <<>>
        BY LineFacts DEF ChannelInv, LinesInv
      <4>3. Len(lines[i].msgs) \in DOMAIN lines[i].msgs
        BY <4>2
      <4>. QED  BY <4>1, <4>3 DEF Written
    <3>. QED  BY <1>3, <3>1
  <2>2. \A i \in DOMAIN lines : lines[i].ended => i \in DOMAIN lines' /\ lines'[i] = lines[i]
    <3>1. \A i \in DOMAIN lines : lines[i].ended => i # n
      BY <1>7 DEF OpenLine
    <3>2. \A i \in DOMAIN lines : i # n => i \in 1 .. n - 1
      BY <1>7
    <3>. QED  BY <1>7, <3>1, <3>2
  <2>3. \A x \in acked' : \E i \in DOMAIN lines' :
           lines'[i].ended /\ lines'[i].msgs[Len(lines'[i].msgs)] = x
    BY <1>1, <2>2 DEF ChannelInv, AckedInv
  <2>4. ASSUME NEW i \in DOMAIN lines', NEW k \in DOMAIN lines'[i].msgs, lines'[i].msgs[k] \in acked'
        PROVE  lines'[i].ended /\ k = Len(lines'[i].msgs)
    <3>1. /\ i \in DOMAIN lines /\ k \in DOMAIN lines[i].msgs
          /\ lines'[i].msgs[k] = lines[i].msgs[k] /\ lines[i].msgs[k] \in acked
      BY <1>1, <1>6, <2>1, <2>4
    <3>2. lines[i].ended /\ k = Len(lines[i].msgs)
      BY <3>1 DEF ChannelInv, AckedInv
    <3>. QED  BY <2>2, <3>1, <3>2
  <2>. QED  BY <2>3, <2>4 DEF AckedInv
<1>17. \A i \in DOMAIN lines : i \in DOMAIN lines' /\ First(i)' = First(i)
  BY <1>6, FirstFacts DEF First
<1>18. PassedOnlyOnTies'
  <2>. SUFFICES ASSUME NEW i \in DOMAIN lines', Readable(i)', forMe'[First(i)'],
                       got'[First(i)'] = 0, sentAt'[First(i)'] <= cursor'
                PROVE  \E j \in 1 .. i - 1 : /\ forMe'[First(j)']
                                             /\ sentAt'[First(j)'] >= sentAt'[First(i)']
    BY DEF PassedOnlyOnTies
  <2>1. CASE i # n
    <3>1. i \in 1 .. n - 1 /\ lines'[i] = lines[i] /\ i \in DOMAIN lines
      BY <1>7, <2>1
    <3>2. First(i)' = First(i) /\ Readable(i)
      BY <1>1, <3>1 DEF First, Readable
    <3>3. PICK j \in 1 .. i - 1 : forMe[First(j)] /\ sentAt[First(j)] >= sentAt[First(i)]
      BY <1>1, <3>1, <3>2 DEF ChannelInv, ReaderInv, PassedOnlyOnTies
    <3>4. j \in DOMAIN lines
      BY <1>8, <3>1, <3>3
    <3>. QED  BY <1>1, <1>17, <3>2, <3>3, <3>4
  <2>2. CASE i = n
    <3>1. n \notin DOMAIN lines
      <4>. SUFFICES ASSUME n \in DOMAIN lines PROVE FALSE
        OBVIOUS
      <4>1. lines[n].msgs \in Seq(MessageIds) /\ lines[n].msgs # <<>>
        BY LineFacts DEF ChannelInv, LinesInv
      <4>2. Len(lines[n].msgs) \in Nat /\ Len(lines[n].msgs) > 0
        BY <4>1
      <4>3. Len(lines'[n].msgs) = 1
        BY <2>2 DEF Readable
      <4>. QED  BY <1>7, <4>2, <4>3
    <3>2. First(i)' = m /\ m \in MessageIds /\ sentAt[m] # 0
      BY <1>3, <1>7, <2>2, <3>1 DEF First, Composed
    <3>3. cursor > 0
      BY <1>1, <3>2 DEF ChannelInv, ReaderTypes, MessageTypes
    <3>4. PICK j \in DOMAIN lines : forMe[First(j)] /\ sentAt[First(j)] = cursor
      BY <3>3 DEF ChannelInv, ReaderInv
    <3>5. j \in 1 .. i - 1
      <4>1. j \in 1 .. n /\ n \in Nat /\ j # n
        BY <1>7, <3>1, <3>4
      <4>. QED  BY <2>2, <4>1
    <3>6. sentAt[First(j)] >= sentAt[m]
      BY <1>1, <3>2, <3>4 DEF ChannelInv, ReaderTypes, MessageTypes
    <3>. QED  BY <1>1, <1>17, <3>2, <3>4, <3>5, <3>6
  <2>. QED  BY <2>1, <2>2
<1>19. ReaderInv' /\ ReaderTypes'
  BY <1>1, <1>17, <1>18 DEF ChannelInv, ReaderInv, ReaderTypes
<1>. QED  BY <1>10, <1>12, <1>13, <1>15, <1>16, <1>19 DEF ChannelInv

-----------------------------------------------------------------------------
(* Reading a page *)

\* A page is a beginning of the lines that fit: what is left out stands after all
\* that is taken.
LEMMA PageIsPrefix ==
    ASSUME ChannelInv, NEW after
    PROVE  /\ Page(after) \subseteq Fitting(after) /\ Fitting(after) \subseteq DOMAIN lines
           /\ IsFiniteSet(Page(after))
           /\ \A i \in Fitting(after) \ Page(after) : \A j \in Page(after) : j < i
<1>. DEFINE F == Fitting(after)
            UpTo(i) == {k \in F : k <= i}
<1>1. Len(lines) \in Nat /\ DOMAIN lines = 1 .. Len(lines)
  BY LineFacts DEF ChannelInv
<1>2. Page(after) \subseteq F /\ F \subseteq DOMAIN lines
  BY DEF Page, Fitting
<1>3. IsFiniteSet(DOMAIN lines)
  BY <1>1, FS_Interval
<1>4. IsFiniteSet(F) /\ IsFiniteSet(Page(after))
  BY <1>2, <1>3, FS_Subset
<1>5. ASSUME NEW i \in F, NEW j \in Page(after), i <= j PROVE i \in Page(after)
  <2>1. i \in Int /\ j \in Int /\ \A k \in F : k \in Int
    BY <1>1, <1>2
  <2>2. UpTo(i) \subseteq UpTo(j)
    <3>1. \A k \in F : k <= i => k <= j
      <4>. HIDE DEF F
      <4>. QED  BY <1>5, <2>1
    <3>. QED  BY <3>1, Zenon
  <2>3. IsFiniteSet(UpTo(j))
    BY <1>4, FS_Subset
  <2>4. IsFiniteSet(UpTo(i)) /\ Cardinality(UpTo(i)) <= Cardinality(UpTo(j))
    BY <2>2, <2>3, FS_Subset
  <2>5. Cardinality(UpTo(i)) \in Nat /\ Cardinality(UpTo(j)) \in Nat /\ ReadBatch \in Nat
    BY <2>3, <2>4, FS_CardinalityType, ChannelAssumption
  <2>6. Cardinality(UpTo(j)) <= ReadBatch
    BY DEF Page
  <2>7. Cardinality(UpTo(i)) <= ReadBatch
    <3>. HIDE DEF UpTo
    <3>. QED  BY <2>4, <2>5, <2>6
  <2>. QED  BY <2>7 DEF Page
<1>6. \A i \in F \ Page(after) : \A j \in Page(after) : j < i
  BY <1>1, <1>2, <1>5
<1>. QED  BY <1>2, <1>4, <1>6

\* A page gives a message at most once, and none that is no newer than the cursor.
LEMMA PageGives ==
    ASSUME ChannelInv, NEW m \in MessageIds
    PROVE  LET places == {i \in Page(cursor) : First(i) = m}
           IN  /\ Cardinality(places) \in {0, 1}
               /\ Cardinality(places) = 0 <=> places = {}
               /\ sentAt[m] <= cursor => places = {}
<1>. DEFINE places == {i \in Page(cursor) : First(i) = m}
<1>1. /\ Page(cursor) \subseteq Fitting(cursor) /\ Fitting(cursor) \subseteq DOMAIN lines
      /\ IsFiniteSet(Page(cursor))
  BY PageIsPrefix
<1>2. IsFiniteSet(places)
  BY <1>1, FS_Subset
<1>3. Cardinality(places) = 0 <=> places = {}
  BY <1>2, FS_EmptySet
<1>4. ASSUME NEW i \in places, NEW j \in places PROVE i = j
  <2>1. i \in DOMAIN lines /\ j \in DOMAIN lines /\ First(i) = First(j)
    BY <1>1, <1>4
  <2>2. 1 \in DOMAIN lines[i].msgs /\ 1 \in DOMAIN lines[j].msgs
    BY <2>1, FirstFacts
  <2>. QED  BY <2>1, <2>2 DEF ChannelInv, LinesInv, First
<1>5. ASSUME places # {} PROVE Cardinality(places) = 1
  <2>1. PICK i : i \in places
    BY <1>5
  <2>2. places = {i}
    BY <1>4, <2>1
  <2>. QED  BY <2>2, FS_Singleton
<1>6. ASSUME sentAt[m] <= cursor, NEW i \in places PROVE FALSE
  <2>1. sentAt[m] > cursor
    BY <1>1, <1>6 DEF Fitting
  <2>2. sentAt[m] \in Int /\ cursor \in Int
    BY DEF ChannelInv, MessageTypes, ReaderTypes
  <2>. QED  BY <1>6, <2>1, <2>2
<1>. QED  BY <1>3, <1>5, <1>6

\* read_messages: what is given is new, and what is passed over stands behind it.
LEMMA ReadStep == ASSUME ChannelInv, ReadPage PROVE ChannelInv'
<1>. DEFINE page == Page(cursor)
            Times(m) == Cardinality({i \in page : First(i) = m})
<1>1. /\ UNCHANGED <<lines, locked, writer, sentAt, forMe, wide, acked, clock, deaths>>
      /\ got' = [m \in MessageIds |-> got[m] + Times(m)]
  BY DEF ReadPage
<1>2. PICK p \in page : /\ \A j \in page : sentAt[First(j)] <= sentAt[First(p)]
                        /\ cursor' = sentAt[First(p)]
  BY DEF ReadPage
<1>3. /\ page \subseteq Fitting(cursor) /\ Fitting(cursor) \subseteq DOMAIN lines
      /\ \A i \in Fitting(cursor) \ page : \A j \in page : j < i
  BY PageIsPrefix
<1>4. \A m \in MessageIds : /\ Times(m) \in {0, 1}
                            /\ Times(m) = 0 <=> \A i \in page : First(i) # m
                            /\ sentAt[m] <= cursor => Times(m) = 0
  <2>. SUFFICES ASSUME NEW m \in MessageIds
                PROVE  /\ Times(m) \in {0, 1} /\ (Times(m) = 0 <=> \A i \in page : First(i) # m)
                       /\ sentAt[m] <= cursor => Times(m) = 0
    OBVIOUS
  <2>. DEFINE places == {i \in page : First(i) = m}
  <2>1. /\ Times(m) \in {0, 1} /\ (Times(m) = 0 <=> places = {})
        /\ sentAt[m] <= cursor => places = {}
    BY PageGives
  <2>2. places = {} <=> \A i \in page : First(i) # m
    <3>. HIDE DEF page
    <3>. QED  OBVIOUS
  <2>. HIDE DEF places, Times
  <2>. QED  BY <2>1, <2>2
<1>. HIDE DEF page, Times
<1>5. p \in DOMAIN lines /\ forMe[First(p)] /\ sentAt[First(p)] > cursor
  BY <1>2, <1>3 DEF Fitting
<1>6. cursor' \in 0 .. MaxClock /\ cursor' > cursor /\ cursor \in Nat /\ cursor' \in Nat
  BY <1>2, <1>5, FirstFacts, ChannelAssumption DEF ChannelInv, ReaderTypes
<1>7. \A m \in MessageIds : got[m] \in Nat /\ sentAt[m] \in Nat /\ got'[m] = got[m] + Times(m)
  BY <1>1 DEF ChannelInv, ReaderTypes, MessageTypes
<1>8. ReaderTypes'
  BY <1>1, <1>4, <1>6, <1>7 DEF ReaderTypes
<1>9. ASSUME NEW m \in MessageIds
      PROVE  got'[m] <= 1 /\ (got'[m] > 0 => sentAt'[m] # 0 /\ sentAt'[m] <= cursor')
  <2>1. CASE got[m] > 0
    <3>1. got[m] <= 1 /\ sentAt[m] # 0 /\ sentAt[m] <= cursor
      BY <2>1 DEF ChannelInv, ReaderInv
    <3>. QED  BY <1>1, <1>4, <1>6, <1>7, <3>1
  <2>2. CASE ~(got[m] > 0) /\ Times(m) # 0
    <3>1. PICK i \in page : First(i) = m
      BY <1>4, <2>2
    <3>2. sentAt[m] <= cursor' /\ sentAt[m] > 0
      BY <1>2, <1>3, <3>1, FirstFacts
    <3>. QED  BY <1>1, <1>4, <1>7, <2>2, <3>2
  <2>3. CASE ~(got[m] > 0) /\ Times(m) = 0
    BY <1>7, <2>3
  <2>. QED  BY <2>1, <2>2, <2>3
<1>10. \A i : First(i)' = First(i) /\ (Readable(i)' <=> Readable(i))
  BY <1>1 DEF First, Readable
<1>11. ASSUME NEW i \in DOMAIN lines, Readable(i), forMe[First(i)], got'[First(i)] = 0,
              sentAt[First(i)] <= cursor'
       PROVE  \E j \in 1 .. i - 1 : forMe[First(j)] /\ sentAt[First(j)] >= sentAt[First(i)]
  <2>1. First(i) \in MessageIds /\ sentAt[First(i)] \in Nat
    BY FirstFacts
  <2>2. got[First(i)] = 0 /\ Times(First(i)) = 0
    BY <1>4, <1>7, <1>11, <2>1
  <2>3. CASE sentAt[First(i)] <= cursor
    BY <1>11, <2>2, <2>3 DEF ChannelInv, ReaderInv, PassedOnlyOnTies
  <2>4. CASE ~(sentAt[First(i)] <= cursor)
    <3>1. i \in Fitting(cursor)
      BY <1>6, <1>11, <2>1, <2>4 DEF Fitting
    <3>2. i \notin page
      BY <1>4, <2>1, <2>2
    <3>3. p < i
      BY <1>2, <1>3, <3>1, <3>2
    <3>4. p \in 1 .. i - 1
      <4>1. DOMAIN lines = 1 .. Len(lines) /\ Len(lines) \in Nat
        BY LineFacts DEF ChannelInv
      <4>. QED  BY <1>5, <1>11, <3>3, <4>1
    <3>5. sentAt[First(p)] >= sentAt[First(i)]
      BY <1>2, <1>6, <1>11, <2>1
    <3>. QED  BY <1>5, <3>4, <3>5
  <2>. QED  BY <2>3, <2>4
<1>12. PassedOnlyOnTies'
  BY <1>1, <1>10, <1>11 DEF PassedOnlyOnTies
<1>13. ReaderInv'
  BY <1>1, <1>2, <1>5, <1>9, <1>10, <1>12 DEF ReaderInv
<1>14. FileTypes' /\ MessageTypes'
  BY <1>1 DEF ChannelInv, FileTypes, MessageTypes
<1>15. WritersInv' /\ EndInv'
  BY <1>1 DEF ChannelInv, WritersInv, EndInv, Busy, Written, Composed, OpenLine
<1>. QED  BY <1>1, <1>8, <1>13, <1>14, <1>15, SameFile DEF ChannelInv

-----------------------------------------------------------------------------
(* The theorem *)

\* Every step keeps the invariant.
LEMMA NextInv == ASSUME ChannelInv, [ChannelNext]_channelVars PROVE ChannelInv'
<1>1. CASE ChannelNext
  <2>1. CASE Millisecond \/ ReadPage
    BY <2>1, ClockStep, ReadStep
  <2>2. ASSUME NEW w \in Writers,
               \/ \E mine, long \in BOOLEAN : (long => mine) /\ Compose(w, mine, long)
               \/ WithChannelLock(w) \/ CountLines(w) \/ AppendText(w) \/ AppendNewline(w)
               \/ WriterDies(w)
        PROVE  ChannelInv'
    <3>1. ASSUME NEW mine \in BOOLEAN, NEW long \in BOOLEAN, Compose(w, mine, long)
          PROVE  ChannelInv'
      BY <3>1, ComposeStep
    <3>. QED  BY <2>2, <3>1, LockStep, CountStep, TextStep, NewlineStep, DeathStep
  <2>. QED  BY <1>1, <2>1, <2>2 DEF ChannelNext
<1>2. CASE UNCHANGED channelVars
  <2>1. UNCHANGED <<lines, locked, writer, sentAt, forMe, wide, acked, clock, cursor, got, deaths>>
    BY <1>2 DEF channelVars
  <2>2. FileTypes' /\ MessageTypes'
    BY <2>1 DEF ChannelInv, FileTypes, MessageTypes
  <2>3. WritersInv' /\ EndInv'
    BY <2>1 DEF ChannelInv, WritersInv, EndInv, Busy, Written, Composed, OpenLine
  <2>. QED  BY <2>1, <2>2, <2>3, SameFile, SameReader DEF ChannelInv
<1>. QED  BY <1>1, <1>2

\* What the invariant says of posts and readers.
LEMMA InvIsSound == ChannelInv => ChannelSound
<1>. SUFFICES ASSUME ChannelInv PROVE ChannelSound
  OBVIOUS
<1>1. ChannelTypeOK
  <2>1. \A w \in Writers : writer[w].at \in Stages
    BY WriterFacts DEF ChannelInv
  <2>. QED  BY <2>1 DEF ChannelInv, FileTypes, MessageTypes, ReaderTypes, LinesInv, ChannelTypeOK, Stages
<1>2. ChannelBounded
  BY DEF ChannelInv, LinesInv, ChannelBounded
<1>3. NoMessageTwice /\ PassedOnlyOnTies
  BY DEF ChannelInv, ReaderInv, NoMessageTwice
<1>4. ASSUME NEW m \in acked
      PROVE  \/ \E i \in DOMAIN lines : lines[i].msgs = <<m>>
             \/ \E i \in DOMAIN lines :
                   LET msgs == lines[i].msgs
                   IN  /\ deaths > 0 /\ Len(msgs) > 1 /\ msgs[Len(msgs)] = m
                       /\ \A k \in 1 .. Len(msgs) - 1 : msgs[k] \notin acked
  <2>1. PICK i \in DOMAIN lines : lines[i].msgs[Len(lines[i].msgs)] = m
    BY DEF ChannelInv, AckedInv
  <2>. DEFINE msgs == lines[i].msgs
  <2>2. msgs \in Seq(MessageIds) /\ msgs # <<>> /\ (Len(msgs) > 1 => deaths > 0)
    BY LineFacts DEF ChannelInv, LinesInv
  <2>3. Len(msgs) \in Nat /\ Len(msgs) > 0 /\ DOMAIN msgs = 1 .. Len(msgs)
    BY <2>2
  <2>4. \A k \in DOMAIN msgs : msgs[k] \in acked => k = Len(msgs)
    BY DEF ChannelInv, AckedInv
  <2>. HIDE DEF msgs
  <2>5. CASE Len(msgs) = 1
    <3>1. msgs = <<m>>
      BY <2>1, <2>2, <2>5 DEF msgs
    <3>. QED  BY <3>1 DEF msgs
  <2>6. CASE Len(msgs) # 1
    <3>1. Len(msgs) > 1
      BY <2>3, <2>6
    <3>2. \A k \in 1 .. Len(msgs) - 1 : msgs[k] \notin acked
      BY <2>3, <2>4
    <3>. QED  BY <2>1, <2>2, <3>1, <3>2 DEF msgs
  <2>. QED  BY <2>5, <2>6
<1>5. PostedReadable
  BY <1>4 DEF PostedReadable
<1>. QED  BY <1>1, <1>2, <1>3, <1>5 DEF ChannelSound

\* Whoever posts, dies and reads: the channel keeps its depth, what was acknowledged can be
\* read, a reader meets no message twice and passes one over only for a stamp as late before it
\* (peer_channel.rs).
THEOREM ChannelIsSound == ChannelSpec => []ChannelSound
<1>1. ChannelInit => ChannelInv
  BY InitInv
<1>2. ChannelInv /\ [ChannelNext]_channelVars => ChannelInv'
  BY NextInv
<1>3. ChannelInv => ChannelSound
  BY InvIsSound
<1>. QED  BY <1>1, <1>2, <1>3, PTL DEF ChannelSpec

-----------------------------------------------------------------------------
(***************************************************************************)
(* State files.  The replacement of a state file is safe for any number of *)
(* savers, saves and deaths, as long as no two savers are at work at once. *)
(***************************************************************************)
SaverStates == [at : {"idle", "write", "rename"}, write : Inodes, file : Inodes \cup {Missing}]

\* The two names never lead to one inode, and neither leads to one not yet made.
NamesApart ==
    /\ begun \in Inodes
    /\ inode \in [Inodes -> [of : Inodes, whole : BOOLEAN]]
    /\ saver \in [Savers -> SaverStates]
    /\ final \in 0 .. begun /\ temp \in (0 .. begun) \cup {Missing}
    /\ final # temp
    /\ \A s \in Savers : saver[s].at # "idle" => saver[s].file \in Inodes

\* The one saver at work owns the temporary name and the bytes under it.
OwnsTemp ==
    ~shared =>
        /\ inode[final].whole
        /\ \A s, t \in Savers : saver[s].at # "idle" /\ saver[t].at # "idle" => s = t
        /\ \A s \in Savers : saver[s].at # "idle" => temp # Missing /\ saver[s].file = temp
        /\ \A s \in Savers : saver[s].at = "write" => inode[temp].of = saver[s].write
        /\ \A s \in Savers : saver[s].at = "rename" => inode[temp].whole

SafeInv == NamesApart /\ OwnsTemp

\* At the start the file is whole and nobody is at work.
LEMMA SafeInitHolds == SafeInit => SafeInv
<1> SUFFICES ASSUME SafeInit PROVE SafeInv
  OBVIOUS
<1> USE SafeWriteAssumption DEF SafeInit, Inodes, Missing, Ended
<1>1. inode \in [Inodes -> [of : Inodes, whole : BOOLEAN]]
  <2>1. \A i \in Inodes : [of |-> 0, whole |-> i = 0] \in [of : Inodes, whole : BOOLEAN]
    <3> SUFFICES ASSUME NEW i \in Inodes
                 PROVE  [of |-> 0, whole |-> i = 0] \in [of : Inodes, whole : BOOLEAN]
      OBVIOUS
    <3>1. 0 \in Inodes
      OBVIOUS
    <3>2. (i = 0) \in BOOLEAN
      BY Zenon
    <3> QED BY <3>1, <3>2, Zenon
  <2> QED BY <2>1
<1>2. inode[final].whole
  <2>1. final \in Inodes /\ inode[final] = [of |-> 0, whole |-> final = 0] /\ final = 0
    OBVIOUS
  <2> QED BY <2>1, Zenon
<1>3. \A s \in Savers : saver[s].at = "idle"
  OBVIOUS
<1>4. NamesApart
  <2>1. saver \in [Savers -> SaverStates]
    BY DEF SaverStates
  <2> QED BY <1>1, <1>3, <2>1 DEF NamesApart
<1>5. OwnsTemp
  BY <1>2, <1>3 DEF OwnsTemp
<1> QED BY <1>4, <1>5 DEF SafeInv

\* A temporary file is made or emptied; the file itself is another inode.
LEMMA CreateTempSafe ==
  ASSUME SafeInv, NEW s \in Savers, CreateTemp(s)
  PROVE  SafeInv'
<1> USE SafeWriteAssumption DEF SafeInv, Inodes, Missing, Fresh
<1>1. /\ begun' \in Inodes /\ begun' > begun
      /\ temp' \in 0 .. begun' /\ temp' # final /\ final' = final
      /\ temp' = temp \/ temp = Missing
  BY DEF CreateTemp, NamesApart
<1>2. /\ inode' = [inode EXCEPT ![temp'] = [of |-> begun', whole |-> FALSE]]
      /\ saver' = [saver EXCEPT ![s] = [at |-> "write", write |-> begun', file |-> temp']]
      /\ saver[s].at = "idle"
      /\ shared' = (shared \/ \E t \in Savers \ {s} : saver[t].at # "idle")
  BY DEF CreateTemp
<1>3. NamesApart'
  <2>1. saver' \in [Savers -> SaverStates]
    BY <1>1, <1>2 DEF NamesApart, SaverStates
  <2>2. inode' \in [Inodes -> [of : Inodes, whole : BOOLEAN]]
    BY <1>1, <1>2 DEF NamesApart
  <2>3. \A t \in Savers : saver'[t].at # "idle" => saver'[t].file \in Inodes
    BY <1>1, <1>2 DEF NamesApart
  <2>4. final' \in 0 .. begun' /\ temp' \in (0 .. begun') \cup {-1} /\ final' # temp'
    BY <1>1 DEF NamesApart
  <2> QED BY <1>1, <2>1, <2>2, <2>3, <2>4 DEF NamesApart
<1>4. OwnsTemp'
  <2>1. SUFFICES ASSUME ~shared' PROVE OwnsTemp'
    BY DEF OwnsTemp
  <2>2. ~shared /\ \A t \in Savers \ {s} : saver[t].at = "idle"
    BY <2>1, <1>2
  <2>3. inode'[final'].whole
    BY <2>2, <1>1, <1>2 DEF OwnsTemp, NamesApart
  <2>4. \A t \in Savers : saver'[t].at # "idle" => t = s
    BY <2>2, <1>2 DEF NamesApart
  <2>5. /\ saver'[s].at = "write" /\ saver'[s].file = temp' /\ saver'[s].write = begun'
        /\ inode'[temp'].of = begun'
    BY <1>1, <1>2 DEF NamesApart
  <2> QED
    BY <2>3, <2>4, <2>5, <1>1 DEF OwnsTemp
<1> QED BY <1>3, <1>4

\* Writing completes the temporary file that its saver owns.
LEMMA WriteAndSyncSafe ==
  ASSUME SafeInv, NEW s \in Savers, WriteAndSync(s)
  PROVE  SafeInv'
<1> USE SafeWriteAssumption DEF SafeInv, Inodes, Missing
<1>1. /\ saver[s].at = "write"
      /\ inode' = [inode EXCEPT ![saver[s].file] =
                      [of |-> saver[s].write, whole |-> @.of = saver[s].write]]
      /\ saver' = [saver EXCEPT ![s].at = "rename"]
      /\ UNCHANGED <<final, temp, begun, shared>>
  BY DEF WriteAndSync
<1>2. saver[s].file \in Inodes /\ saver[s].write \in Inodes
  BY <1>1 DEF NamesApart, SaverStates
<1>3. NamesApart'
  BY <1>1, <1>2 DEF NamesApart, SaverStates
<1>4. OwnsTemp'
  <2>1. SUFFICES ASSUME ~shared' PROVE OwnsTemp'
    BY DEF OwnsTemp
  <2>2. /\ inode[final].whole /\ saver[s].file = temp /\ inode[temp].of = saver[s].write
        /\ \A t \in Savers : saver[t].at # "idle" => t = s
    BY <2>1, <1>1 DEF OwnsTemp
  <2>3. inode'[final].whole /\ inode'[temp].whole
    BY <2>2, <1>1, <1>2 DEF NamesApart
  <2>4. \A t \in Savers : saver'[t].at # "idle" => t = s
    BY <2>2, <1>1 DEF NamesApart
  <2>5. saver'[s].at = "rename" /\ saver'[s].file = temp
    BY <2>2, <1>1 DEF NamesApart, SaverStates
  <2> QED
    BY <2>3, <2>4, <2>5, <1>1, <1>2, <2>2 DEF OwnsTemp
<1> QED BY <1>3, <1>4

\* The renamed file is the whole one its saver wrote.
LEMMA RenameTempSafe ==
  ASSUME SafeInv, NEW s \in Savers, RenameTemp(s)
  PROVE  SafeInv'
<1> USE SafeWriteAssumption DEF SafeInv, Inodes, Missing, Ended
<1>1. /\ saver[s].at = "rename"
      /\ saver' = [saver EXCEPT ![s] = [at |-> "idle", write |-> 0, file |-> -1]]
      /\ UNCHANGED <<inode, begun, shared>>
      /\ \/ temp = -1 /\ UNCHANGED <<final, temp>>
         \/ temp # -1 /\ final' = temp /\ temp' = -1
  BY DEF RenameTemp
<1>2. NamesApart'
  <2>1. saver' \in [Savers -> SaverStates]
    BY <1>1 DEF NamesApart, SaverStates
  <2>2. \A t \in Savers : saver'[t].at # "idle" => saver'[t].file \in Inodes
    BY <1>1 DEF NamesApart
  <2>3. final' \in 0 .. begun' /\ temp' \in (0 .. begun') \cup {-1} /\ final' # temp'
    BY <1>1 DEF NamesApart
  <2> QED BY <1>1, <2>1, <2>2, <2>3 DEF NamesApart
<1>3. OwnsTemp'
  <2>1. SUFFICES ASSUME ~shared' PROVE OwnsTemp'
    BY DEF OwnsTemp
  <2>2. /\ temp # -1 /\ inode[temp].whole
        /\ \A t \in Savers : saver[t].at # "idle" => t = s
    BY <2>1, <1>1 DEF OwnsTemp
  <2>3. \A t \in Savers : saver'[t].at = "idle"
    BY <2>2, <1>1 DEF NamesApart
  <2> QED
    BY <2>2, <2>3, <1>1 DEF OwnsTemp
<1> QED BY <1>2, <1>3

\* A death leaves the names and the bytes alone.
LEMMA SaverDiesSafe ==
  ASSUME SafeInv, NEW s \in Savers, SaverDies(s)
  PROVE  SafeInv'
<1> USE SafeWriteAssumption DEF SafeInv, Inodes, Missing, Ended
<1>1. /\ saver' = [saver EXCEPT ![s] = [at |-> "idle", write |-> 0, file |-> -1]]
      /\ UNCHANGED <<inode, final, temp, begun, shared>>
  BY DEF SaverDies
<1>2. NamesApart'
  BY <1>1 DEF NamesApart, SaverStates
<1>3. \A t \in Savers : saver'[t] = saver[t] \/ saver'[t].at = "idle"
  BY <1>1 DEF NamesApart
<1>4. OwnsTemp'
  BY <1>1, <1>3 DEF OwnsTemp
<1> QED BY <1>2, <1>4

\* However many savers replace the file and wherever they die, the file has the whole
\* contents of one save, as long as no two of them were at work at once
\* (write_bytes_safe).
THEOREM FileStaysWhole == SafeSpec => []FileIsWhole
<1>1. SafeInit => SafeInv
  BY SafeInitHolds
<1>2. SafeInv /\ [SafeNext]_fileVars => SafeInv'
  <2> SUFFICES ASSUME SafeInv, [SafeNext]_fileVars PROVE SafeInv'
    OBVIOUS
  <2>1. CASE SafeNext
    <3>1. PICK s \in Savers : CreateTemp(s) \/ WriteAndSync(s) \/ RenameTemp(s) \/ SaverDies(s)
      BY <2>1 DEF SafeNext
    <3> QED
      BY <3>1, CreateTempSafe, WriteAndSyncSafe, RenameTempSafe, SaverDiesSafe
  <2>2. CASE UNCHANGED fileVars
    BY <2>2 DEF fileVars, SafeInv, NamesApart, OwnsTemp
  <2> QED BY <2>1, <2>2
<1>3. SafeInv => FileIsWhole
  BY SafeWriteAssumption DEF SafeInv, NamesApart, OwnsTemp, FileIsWhole, Missing, Inodes
<1> QED BY <1>1, <1>2, <1>3, PTL DEF SafeSpec

-----------------------------------------------------------------------------
(***************************************************************************)
(* Configuration.  What was loaded and what doctor said are functions of   *)
(* the four layers, which do not change once either has been read.         *)
(***************************************************************************)
IsLayer(l) == DOMAIN l = Keys
NamesList(l) == l["mcp"] \in DOMAIN McpLists \cup {NotSet}

LayersFound ==
    /\ IsLayer(system) /\ IsLayer(user) /\ IsLayer(repo) /\ IsLayer(env)
    /\ NamesList(system) /\ NamesList(user) /\ NamesList(repo) /\ NamesList(env)

ConfigInv ==
    /\ LayersFound
    /\ loaded = Failed \/ (loaded = Load /\ loaded.ok)
    /\ doctor = Failed \/ (doctor = DoctorRollup /\ doctor.ok)

\* A missing file is a layer that sets nothing.
LEMMA EmptyLayer == IsLayer(Empty) /\ NamesList(Empty) /\ \A k \in Keys : Empty[k] = NotSet
  BY DEF Empty, IsLayer, NamesList, Keys, NotSet

\* Nothing is loaded at the start.
LEMMA ConfigInitHolds == ConfigInit => ConfigInv
<1> SUFFICES ASSUME ConfigInit PROVE ConfigInv
  OBVIOUS
<1>1. LayersFound
  BY EmptyLayer, ConfigAssumption DEF ConfigInit, LayersFound, IsLayer, NamesList
<1>2. QED  BY <1>1 DEF ConfigInit, ConfigInv

\* The layers are found once, before anything is read from them.
LEMMA ConfigStep == ConfigInv /\ [ConfigNext]_configVars => ConfigInv'
<1> SUFFICES ASSUME ConfigInv, [ConfigNext]_configVars PROVE ConfigInv'
  OBVIOUS
<1>1. CASE FindLayers
  <2>1. loaded = Failed /\ doctor = Failed /\ loaded' = loaded /\ doctor' = doctor
    BY <1>1 DEF FindLayers, ConfigInv
  <2>2. LayersFound'
    BY <1>1, ConfigAssumption DEF FindLayers, ConfigInv, LayersFound, IsLayer, NamesList
  <2>. QED  BY <2>1, <2>2 DEF ConfigInv, Failed, Empty
<1>2. CASE LoadConfig
  <2>1. LayersFound' /\ Load' = Load /\ DoctorRollup' = DoctorRollup
    BY <1>2 DEF LoadConfig, ConfigInv, LayersFound, IsLayer, NamesList, Load, Merged, DoctorRollup,
                DoctorSays, DoctorEnv
  <2>. QED  BY <1>2, <2>1 DEF ConfigInv, LoadConfig, Failed, Empty
<1>3. CASE RunDoctor
  <2>1. LayersFound' /\ Load' = Load /\ DoctorRollup' = DoctorRollup
    BY <1>3 DEF RunDoctor, ConfigInv, LayersFound, IsLayer, NamesList, Load, Merged, DoctorRollup,
                DoctorSays, DoctorEnv
  <2>2. DoctorRollup = Failed \/ DoctorRollup.ok
    BY DEF DoctorRollup
  <2>. QED  BY <1>3, <2>1, <2>2 DEF ConfigInv, RunDoctor, Failed, Empty
<1>4. CASE UNCHANGED configVars
  <2>1. LayersFound' /\ Load' = Load /\ DoctorRollup' = DoctorRollup /\ loaded' = loaded
        /\ doctor' = doctor
    BY <1>4 DEF configVars, ConfigInv, LayersFound, IsLayer, NamesList, Load, Merged, DoctorRollup,
                DoctorSays, DoctorEnv
  <2>. QED  BY <2>1 DEF ConfigInv, Failed, Empty
<1>. QED  BY <1>1, <1>2, <1>3, <1>4 DEF ConfigNext

\* What merging gives for a key: the nearest layer that sets it.
LEMMA MergedKey ==
    ASSUME LayersFound, NEW k \in Keys
    PROVE  Merged[k] = OrElse(EnvLayer(env)[k], OrElse(repo[k], OrElse(user[k], system[k])))
<1>1. \A a, b : ApplyOver(a, b)[k] = OrElse(b[k], a[k])
  BY DEF ApplyOver, OrElse
<1>2. Empty[k] = NotSet
  BY EmptyLayer
<1>. QED  BY <1>1, <1>2 DEF Merged, OrElse

\* The environment as a layer.
LEMMA EnvKey ==
    ASSUME NEW k \in Keys, k # "skipverify"
    PROVE  EnvLayer(env)[k] = IF env[k] = "blank" \/ k \in {"mcp", "notes", "hooks", "enabled", "percent"}
                              THEN NotSet ELSE IF k = "url" THEN Trim(env[k]) ELSE env[k]
  BY DEF EnvLayer

\* ... which always says whether verification is skipped.
LEMMA EnvSkips ==
    /\ EnvLayer(env)["skipverify"] # NotSet
    /\ EnvLayer(env)["skipverify"] = "true" => env["skipverify"] = "true"
<1>1. EnvLayer(env)["skipverify"] =
         IF env["skipverify"] \in {NotSet, "blank"} THEN "false" ELSE env["skipverify"]
  BY DEF EnvLayer, Keys
<1>. QED  BY <1>1 DEF NotSet

\* Merging gives a layer.
LEMMA MergedIsLayer == IsLayer(Merged)
  BY DEF Merged, ApplyOver, IsLayer

\* What resolving makes of a key.
LEMMA ResolvedKey ==
    ASSUME NEW m, IsLayer(m)
    PROVE  /\ IsLayer(Resolve(m))
           /\ \A k \in {"notes", "hooks", "mcp", "apikey", "dir"} : Resolve(m)[k] = m[k]
           /\ Resolve(m)["skipverify"] = OrElse(m["skipverify"], "false")
           /\ Resolve(m)["tls"] = OrElse(m["tls"], "false")
           /\ Resolve(m)["require"] = OrElse(m["require"], "false")
           /\ Resolve(m)["url"] = OrElse(m["url"], "")
           /\ Resolve(m)["enabled"] = OrElse(m["enabled"], "false")
           /\ Resolve(m)["percent"] = Clamp10to99(m["percent"])
           /\ Resolve(m)["sandbox"] = IF m["sandbox"] = NotSet \/ ~Parses(m["sandbox"])
                                      THEN "passthrough" ELSE m["sandbox"]
<1> DEFINE sec == ResolveSections(m)
           api == ResolveApi(sec)
<1>1. /\ IsLayer(sec)
      /\ \A k \in Keys \ {"enabled", "percent"} : sec[k] = m[k]
      /\ sec["enabled"] = OrElse(m["enabled"], "false")
      /\ sec["percent"] = Clamp10to99(m["percent"])
  BY DEF ResolveSections, Keys, OrElse, IsLayer
<1>2. /\ IsLayer(api)
      /\ \A k \in Keys \ {"skipverify"} : api[k] = sec[k]
      /\ api["skipverify"] = OrElse(sec["skipverify"], "false")
  <2> HIDE DEF sec
  <2>. QED  BY <1>1 DEF ResolveApi, Keys, IsLayer, OrElse
<1> HIDE DEF sec, api
<1>3. Resolve(m) =
    [api EXCEPT
        !["url"] = IF @ = NotSet THEN "" ELSE @,
        !["sandbox"] = IF @ = NotSet \/ ~Parses(@) THEN "passthrough" ELSE @,
        !["require"] = IF @ = NotSet THEN "false" ELSE @,
        !["tls"] = IF @ = NotSet THEN "false" ELSE @,
        !["backend"] = IF @ # NotSet THEN @
                       ELSE IF Trim(m["url"]) \in {NotSet, "local"} THEN "local" ELSE "server"]
  BY DEF Resolve, api, sec
<1>4. IsLayer(Resolve(m))
  BY <1>2, <1>3 DEF IsLayer, Keys
<1>5. \A k \in {"notes", "hooks", "mcp", "apikey", "dir", "enabled", "percent", "skipverify"} :
         Resolve(m)[k] = api[k]
  BY <1>2, <1>3 DEF IsLayer, Keys
<1>6. /\ Resolve(m)["tls"] = OrElse(api["tls"], "false")
      /\ Resolve(m)["require"] = OrElse(api["require"], "false")
      /\ Resolve(m)["url"] = OrElse(api["url"], "")
  BY <1>2, <1>3 DEF IsLayer, Keys, OrElse
<1>7. Resolve(m)["sandbox"] = IF api["sandbox"] = NotSet \/ ~Parses(api["sandbox"])
                              THEN "passthrough" ELSE api["sandbox"]
  BY <1>2, <1>3 DEF IsLayer, Keys
<1>. QED  BY <1>1, <1>2, <1>4, <1>5, <1>6, <1>7 DEF Keys

\* What a successful load has checked, and what it gives.
LEMMA LoadFacts ==
    ASSUME ConfigInv, loaded.ok
    PROVE  /\ loaded.conf = Resolve(Merged) /\ loaded.servers = ServersOf(Merged["mcp"])
           /\ FileIsGood(system) /\ FileIsGood(user) /\ FileIsGood(repo)
           /\ RepoIsModest(repo) /\ SystemIsModest(system) /\ EnvIsGood(env)
           /\ GoodServers(ServersOf(Merged["mcp"]))
<1>1. loaded = Load /\ Load.ok
  BY DEF ConfigInv, Failed
<1>. QED  BY <1>1 DEF Load, Failed

\* The keys of a configuration that was loaded.
LEMMA LoadedKey ==
    ASSUME ConfigInv, loaded.ok
    PROVE  /\ \A k \in {"notes", "hooks", "mcp", "apikey", "dir"} : loaded.conf[k] = Merged[k]
           /\ loaded.conf["skipverify"] = OrElse(Merged["skipverify"], "false")
           /\ loaded.conf["tls"] = OrElse(Merged["tls"], "false")
           /\ loaded.conf["require"] = OrElse(Merged["require"], "false")
           /\ loaded.conf["url"] = OrElse(Merged["url"], "")
           /\ loaded.conf["enabled"] = OrElse(Merged["enabled"], "false")
           /\ loaded.conf["percent"] = Clamp10to99(Merged["percent"])
           /\ loaded.conf["sandbox"] = IF Merged["sandbox"] = NotSet \/ ~Parses(Merged["sandbox"])
                                       THEN "passthrough" ELSE Merged["sandbox"]
<1>1. loaded.conf = Resolve(Merged)
  BY LoadFacts
<1> DEFINE m == Merged
<1>2. IsLayer(m) /\ loaded.conf = Resolve(m)
  BY <1>1, MergedIsLayer
<1> HIDE DEF m
<1>3. /\ \A k \in {"notes", "hooks", "mcp", "apikey", "dir"} : loaded.conf[k] = m[k]
      /\ loaded.conf["skipverify"] = OrElse(m["skipverify"], "false")
      /\ loaded.conf["tls"] = OrElse(m["tls"], "false")
      /\ loaded.conf["require"] = OrElse(m["require"], "false")
      /\ loaded.conf["url"] = OrElse(m["url"], "")
      /\ loaded.conf["enabled"] = OrElse(m["enabled"], "false")
      /\ loaded.conf["percent"] = Clamp10to99(m["percent"])
      /\ loaded.conf["sandbox"] = IF m["sandbox"] = NotSet \/ ~Parses(m["sandbox"])
                                  THEN "passthrough" ELSE m["sandbox"]
  <2> DEFINE r == Resolve(m)
  <2>1. IsLayer(m)
    BY <1>2
  <2>2. /\ \A k \in {"notes", "hooks", "mcp", "apikey", "dir"} : r[k] = m[k]
        /\ r["skipverify"] = OrElse(m["skipverify"], "false")
        /\ r["tls"] = OrElse(m["tls"], "false")
        /\ r["require"] = OrElse(m["require"], "false")
        /\ r["url"] = OrElse(m["url"], "")
        /\ r["enabled"] = OrElse(m["enabled"], "false")
        /\ r["percent"] = Clamp10to99(m["percent"])
        /\ r["sandbox"] = IF m["sandbox"] = NotSet \/ ~Parses(m["sandbox"])
                                    THEN "passthrough" ELSE m["sandbox"]
    BY <2>1, ResolvedKey, Zenon
  <2> HIDE DEF r
  <2>3. loaded.conf = r
    BY <1>2 DEF r
  <2>. QED  BY <2>2, <2>3
<1>. QED  BY <1>3 DEF m

\* What the repository's file may not say it does not decide.
LEMMA ModestHolds == ConfigInv => RepoStaysModest
<1> SUFFICES ASSUME ConfigInv, loaded.ok
             PROVE  /\ loaded.conf["skipverify"] = "true" => env["skipverify"] = "true"
                    /\ \A k \in {"notes", "hooks", "mcp", "apikey"} :
                          loaded.conf[k] \in {system[k], user[k], EnvLayer(env)[k], NotSet}
                    /\ loaded.conf["tls"] = "true" => "true" \in {system["tls"], user["tls"], env["tls"]}
  BY DEF RepoStaysModest
<1>1. LayersFound /\ IsLayer(Merged)
  BY MergedIsLayer DEF ConfigInv
<1>2. loaded.conf = Resolve(Merged) /\ RepoIsModest(repo)
  BY LoadFacts
<1>3. \A k \in {"notes", "hooks", "mcp", "apikey"} :
         loaded.conf[k] \in {system[k], user[k], EnvLayer(env)[k], NotSet}
  <2> SUFFICES ASSUME NEW k \in {"notes", "hooks", "mcp", "apikey"}
               PROVE  loaded.conf[k] \in {system[k], user[k], EnvLayer(env)[k], NotSet}
    OBVIOUS
  <2>1. k \in Keys
    BY DEF Keys
  <2>2. repo[k] = NotSet
    BY <1>2 DEF RepoIsModest
  <2>3. loaded.conf[k] = OrElse(EnvLayer(env)[k], OrElse(repo[k], OrElse(user[k], system[k])))
    BY <1>1, <2>1, MergedKey, LoadedKey
  <2>. QED  BY <2>2, <2>3 DEF OrElse
<1>4. ASSUME loaded.conf["tls"] = "true" PROVE "true" \in {system["tls"], user["tls"], env["tls"]}
  <2>1. "tls" \in Keys /\ "tls" # "skipverify"
    BY DEF Keys
  <2>2. repo["tls"] # "true"
    BY <1>2 DEF RepoIsModest
  <2>3. Merged["tls"] = "true"
    BY <1>4, LoadedKey DEF OrElse
  <2>4. Merged["tls"] = OrElse(EnvLayer(env)["tls"], OrElse(repo["tls"], OrElse(user["tls"], system["tls"])))
    BY <1>1, <2>1, MergedKey
  <2>5. EnvLayer(env)["tls"] \in {NotSet, env["tls"]}
    BY <2>1, EnvKey
  <2>. QED  BY <2>2, <2>3, <2>4, <2>5 DEF OrElse
<1>5. ASSUME loaded.conf["skipverify"] = "true" PROVE env["skipverify"] = "true"
  <2>1. Merged["skipverify"] = EnvLayer(env)["skipverify"] /\ "skipverify" \in Keys
    BY <1>1, MergedKey, EnvSkips DEF Keys, OrElse
  <2>2. loaded.conf["skipverify"] = EnvLayer(env)["skipverify"]
    BY <2>1, LoadedKey, EnvSkips DEF OrElse
  <2>. QED  BY <1>5, <2>2, EnvSkips
<1>. QED  BY <1>3, <1>4, <1>5

\* The nearest layer that sets a key decides it.
LEMMA NearestHolds == ConfigInv => NearestDecides
<1> SUFFICES ASSUME ConfigInv, loaded.ok, NEW k \in {"enabled", "percent", "dir", "tls"}
             PROVE  LET said == <<EnvLayer(env)[k], repo[k], user[k], system[k]>>
                        Nearest(i) == said[i] # NotSet /\ \A j \in 1 .. i - 1 : said[j] = NotSet
                    IN  \A i \in 1 .. 4 : Nearest(i) => loaded.conf[k] \in {said[i], Clamp10to99(said[i])}
  BY DEF NearestDecides
<1> DEFINE said == <<EnvLayer(env)[k], repo[k], user[k], system[k]>>
<1>1. LayersFound /\ IsLayer(Merged) /\ k \in Keys
  BY MergedIsLayer DEF ConfigInv, Keys
<1>2. loaded.conf = Resolve(Merged)
  BY LoadFacts
<1>3. Merged[k] = OrElse(EnvLayer(env)[k], OrElse(repo[k], OrElse(user[k], system[k])))
  BY <1>1, MergedKey
<1>4. Merged[k] # NotSet => loaded.conf[k] \in {Merged[k], Clamp10to99(Merged[k])}
  BY LoadedKey DEF OrElse
<1>5. \A i \in 1 .. 4 : said[i] # NotSet /\ (\A j \in 1 .. i - 1 : said[j] = NotSet) => Merged[k] = said[i]
  <2>1. /\ said[1] = EnvLayer(env)[k] /\ said[2] = repo[k] /\ said[3] = user[k] /\ said[4] = system[k]
    OBVIOUS
  <2> HIDE DEF said
  <2> SUFFICES ASSUME NEW i \in 1 .. 4, said[i] # NotSet, \A j \in 1 .. i - 1 : said[j] = NotSet
               PROVE  Merged[k] = said[i]
    OBVIOUS
  <2>2. i = 1 \/ i = 2 \/ i = 3 \/ i = 4
    OBVIOUS
  <2>3. (i > 1 => said[1] = NotSet) /\ (i > 2 => said[2] = NotSet) /\ (i > 3 => said[3] = NotSet)
    OBVIOUS
  <2>. QED  BY <1>3, <2>1, <2>2, <2>3 DEF OrElse
<1>. QED  BY <1>4, <1>5

\* Files with a slip in the sandbox are refused, so only the environment's can be lost.
LEMMA SandboxHolds == ConfigInv => SandboxKept
<1> SUFFICES ASSUME ConfigInv, loaded.ok, loaded.conf["sandbox"] = "passthrough"
             PROVE  \/ Reported("sandbox") = {}
                    \/ \E l \in Reported("sandbox") : l["sandbox"] = "passthrough"
                    \/ env["sandbox"] = "bad"
  BY DEF SandboxKept
<1>1. LayersFound /\ IsLayer(Merged) /\ "sandbox" \in Keys
  BY MergedIsLayer DEF ConfigInv, Keys
<1>2. loaded.conf = Resolve(Merged) /\ FileIsGood(system) /\ FileIsGood(user) /\ FileIsGood(repo)
  BY LoadFacts
<1>3. Merged["sandbox"] = OrElse(EnvLayer(env)["sandbox"],
                             OrElse(repo["sandbox"], OrElse(user["sandbox"], system["sandbox"])))
  BY <1>1, MergedKey
<1>4. EnvLayer(env)["sandbox"] = IF env["sandbox"] = "blank" THEN NotSet ELSE env["sandbox"]
  BY <1>1, EnvKey
<1>5. Parses(system["sandbox"]) /\ Parses(user["sandbox"]) /\ Parses(repo["sandbox"])
  BY <1>1, <1>2 DEF FileIsGood, ParsedKeys
<1>6. Merged["sandbox"] = NotSet \/ ~Parses(Merged["sandbox"]) \/ Merged["sandbox"] = "passthrough"
  BY LoadedKey
<1>7. CASE Merged["sandbox"] = NotSet
  BY <1>3, <1>7 DEF Reported, OrElse
<1>8. CASE Merged["sandbox"] # NotSet /\ ~Parses(Merged["sandbox"])
  <2>1. Merged["sandbox"] = EnvLayer(env)["sandbox"]
    BY <1>3, <1>5, <1>8 DEF OrElse
  <2>. QED  BY <1>4, <1>8, <2>1 DEF Parses, NotSet
<1>9. CASE Merged["sandbox"] = "passthrough"
  <2>1. \E l \in {system, user, repo, EnvLayer(env)} : l["sandbox"] = "passthrough"
    BY <1>3, <1>9 DEF OrElse
  <2>. QED  BY <2>1 DEF Reported, NotSet
<1>. QED  BY <1>6, <1>7, <1>8, <1>9

\* The servers loaded were validated.
LEMMA ServersHold == ConfigInv => ServersUsable
<1> SUFFICES ASSUME ConfigInv PROVE ServersUsable
  OBVIOUS
<1>1. CASE loaded = Failed
  BY <1>1 DEF ServersUsable, Failed
<1>2. CASE loaded.ok
  <2>1. LayersFound /\ "mcp" \in Keys
    BY DEF ConfigInv, Keys
  <2>2. GoodServers(loaded.servers) /\ loaded.servers = ServersOf(Merged["mcp"])
    BY <1>2, LoadFacts
  <2>3. Merged["mcp"] \in DOMAIN McpLists \cup {NotSet}
    <3>1. Merged["mcp"] = OrElse(EnvLayer(env)["mcp"], OrElse(repo["mcp"], OrElse(user["mcp"], system["mcp"])))
      BY <2>1, MergedKey
    <3>2. EnvLayer(env)["mcp"] = NotSet
      BY <2>1, EnvKey
    <3>. QED  BY <2>1, <3>1, <3>2 DEF OrElse, LayersFound, NamesList
  <2>4. loaded.servers \in Seq(McpServers)
    <3>1. <<>> \in Seq(McpServers)
      OBVIOUS
    <3>. QED  BY <2>2, <2>3, <3>1, ConfigAssumption DEF ServersOf
  <2>5. \A i \in DOMAIN loaded.servers : loaded.servers[i] \in McpServers
    BY <2>4
  <2>. QED  BY <2>2, <2>5 DEF GoodServers, GoodServer, ServersUsable, McpServers
<1>. QED  BY <1>1, <1>2 DEF ConfigInv

\* What is inside a padded value is not padded, and what is not padded is kept.
LEMMA TrimTwice ==
    /\ Trim(NotSet) = NotSet /\ \A v : Trim(Trim(v)) = Trim(v)
    /\ \A v : v # "blank" => (Trim(v) = NotSet <=> v = NotSet)
  BY ConfigAssumption DEF Trim, NotSet

\* Doctor reads of good files what the program reads, but for a blank URL and for padding.
LEMMA DoctorHolds == ConfigInv => DoctorAgrees
<1> SUFFICES ASSUME ConfigInv, loaded.ok, doctor.ok
             PROVE  /\ doctor.conf["dir"] = loaded.conf["dir"]
                       \/ (loaded.conf["dir"] = env["dir"] /\ doctor.conf["dir"] = Trim(env["dir"]))
                    /\ doctor.conf["require"] = loaded.conf["require"]
                    /\ doctor.servers = loaded.servers
                    /\ "blank" \notin {repo["url"], user["url"], system["url"]} =>
                          OrElse(doctor.conf["url"], "") = Trim(loaded.conf["url"])
  BY DEF DoctorAgrees
<1>1. LayersFound /\ IsLayer(Merged)
  BY MergedIsLayer DEF ConfigInv
<1>2. /\ loaded.conf = Resolve(Merged) /\ loaded.servers = ServersOf(Merged["mcp"])
      /\ FileIsGood(system) /\ FileIsGood(user) /\ FileIsGood(repo)
  BY LoadFacts
<1>3. /\ doctor.servers = ServersOf(DoctorSays("mcp"))
      /\ doctor.conf = [Empty EXCEPT !["url"] = DoctorSays("url"), !["dir"] = DoctorSays("dir"),
                                     !["require"] = OrElse(DoctorSays("require"), "false"),
                                     !["mcp"] = DoctorSays("mcp")]
  BY DEF ConfigInv, DoctorRollup, Failed
<1>4. /\ doctor.conf["url"] = DoctorSays("url") /\ doctor.conf["dir"] = DoctorSays("dir")
      /\ doctor.conf["require"] = OrElse(DoctorSays("require"), "false")
  BY <1>3, EmptyLayer DEF IsLayer, Keys
<1>5. \A k \in Keys : Merged[k] = OrElse(EnvLayer(env)[k], OrElse(repo[k], OrElse(user[k], system[k])))
  BY <1>1, MergedKey
<1>6. ASSUME NEW l, IsLayer(l), FileIsGood(l)
      PROVE  /\ DoctorLayer(l)["mcp"] = l["mcp"] /\ DoctorLayer(l)["require"] = l["require"]
             /\ DoctorLayer(l)["dir"] = l["dir"]
             /\ DoctorLayer(l)["url"] = Trim(l["url"])
  BY <1>6 DEF IsLayer, Keys, FileIsGood, DoctorLayer, ParsedKeys, Parses
<1>7. DoctorSays("mcp") = Merged["mcp"] /\ DoctorSays("require") = Merged["require"]
  BY <1>1, <1>2, <1>5, <1>6 DEF DoctorSays, DoctorEnv, LayersFound, Keys
<1>8. DoctorSays("dir") = Merged["dir"]
      \/ (Merged["dir"] = env["dir"] /\ DoctorSays("dir") = Trim(env["dir"]))
  <2> DEFINE files == OrElse(repo["dir"], OrElse(user["dir"], system["dir"]))
  <2>1. "dir" \in Keys /\ "dir" \notin {"mcp", "notes", "hooks", "enabled", "percent", "url", "skipverify"}
    BY DEF Keys
  <2>2. EnvLayer(env)["dir"] = IF env["dir"] = "blank" THEN NotSet ELSE env["dir"]
    BY <2>1, EnvKey
  <2>3. Merged["dir"] = OrElse(EnvLayer(env)["dir"], files)
    BY <1>5, <2>1
  <2>4. DoctorSays("dir") = OrElse(Trim(EnvLayer(env)["dir"]), files)
    BY <1>1, <1>2, <1>6 DEF DoctorSays, DoctorEnv, LayersFound
  <2> HIDE DEF files
  <2>. QED  BY <2>2, <2>3, <2>4, TrimTwice DEF OrElse
<1>9. ASSUME "blank" \notin {repo["url"], user["url"], system["url"]}
      PROVE  DoctorSays("url") = Trim(Merged["url"])
  <2>1. "url" \in Keys /\ "url" \notin {"mcp", "notes", "hooks", "enabled", "percent", "dir", "skipverify"}
    BY DEF Keys
  <2>2. EnvLayer(env)["url"] = IF env["url"] = "blank" THEN NotSet ELSE Trim(env["url"])
    BY <2>1, EnvKey
  <2>3. Merged["url"] = OrElse(EnvLayer(env)["url"], OrElse(repo["url"], OrElse(user["url"], system["url"])))
    BY <1>5, <2>1
  <2>4. DoctorSays("url") = OrElse(EnvLayer(env)["url"],
           OrElse(Trim(repo["url"]), OrElse(Trim(user["url"]), Trim(system["url"]))))
    BY <1>1, <1>2, <1>6 DEF DoctorSays, DoctorEnv, LayersFound
  <2>5. Trim(EnvLayer(env)["url"]) = EnvLayer(env)["url"]
    BY <2>2, TrimTwice
  <2>. QED  BY <1>9, <2>3, <2>4, <2>5, TrimTwice DEF OrElse
<1>10. "blank" \notin {repo["url"], user["url"], system["url"]} =>
          OrElse(doctor.conf["url"], "") = Trim(loaded.conf["url"])
  <2>1. loaded.conf["url"] = OrElse(Merged["url"], "")
    BY LoadedKey
  <2>2. Trim("") = ""
    BY ConfigAssumption DEF Trim
  <2>3. "blank" \notin {repo["url"], user["url"], system["url"]} => Merged["url"] # "blank"
    <3>1. "url" \in Keys /\ "url" \notin {"mcp", "notes", "hooks", "enabled", "percent", "dir", "skipverify"}
      BY DEF Keys
    <3>2. EnvLayer(env)["url"] = IF env["url"] = "blank" THEN NotSet ELSE Trim(env["url"])
      BY <3>1, EnvKey
    <3>3. Trim(env["url"]) # "blank"
      BY ConfigAssumption DEF Trim, NotSet
    <3>4. Merged["url"] = OrElse(EnvLayer(env)["url"], OrElse(repo["url"], OrElse(user["url"], system["url"])))
      BY <1>5, <3>1
    <3>. QED  BY <3>2, <3>3, <3>4 DEF OrElse, NotSet
  <2>. QED  BY <1>4, <1>9, <2>1, <2>2, <2>3, TrimTwice DEF OrElse
<1>. QED  BY <1>2, <1>4, <1>3, <1>7, <1>8, <1>10, LoadedKey

-----------------------------------------------------------------------------
\* Whatever the four layers say, a configuration that loads is sound: the files of a
\* cloned repository stay modest (load_layers), the nearest layer decides each key
\* (apply_over), a sandbox is not dropped, servers can be started, and `vex doctor`
\* says what the program uses, but for white space that only one of them takes off.
THEOREM ConfigIsSound == ConfigSpec => []ConfigSound
<1>1. ConfigInit => ConfigInv
  BY ConfigInitHolds
<1>2. ConfigInv /\ [ConfigNext]_configVars => ConfigInv'
  BY ConfigStep
<1>3. ConfigInv => ConfigSound
  <2>1. ConfigInv => ConfigTypeOK
    <3> SUFFICES ASSUME ConfigInv PROVE ConfigTypeOK
      OBVIOUS
    <3>1. DOMAIN Failed.conf = Keys /\ Failed.ok \in BOOLEAN
      BY EmptyLayer DEF Failed, IsLayer
    <3>2. loaded.ok \in BOOLEAN /\ doctor.ok \in BOOLEAN
      <4>1. Load.ok \in BOOLEAN
        BY <3>1 DEF Load
      <4>2. DoctorRollup.ok \in BOOLEAN
        BY <3>1 DEF DoctorRollup
      <4>. QED  BY <3>1, <4>1, <4>2 DEF ConfigInv
    <3>3. loaded.ok => DOMAIN loaded.conf = Keys
      BY LoadFacts, MergedIsLayer, ResolvedKey DEF IsLayer
    <3>. QED  BY <3>1, <3>2, <3>3 DEF ConfigInv, ConfigTypeOK
  <2>. QED  BY <2>1, ModestHolds, NearestHolds, SandboxHolds, ServersHold, DoctorHolds DEF ConfigSound
<1>. QED  BY <1>1, <1>2, <1>3, PTL DEF ConfigSpec
=============================================================================
