----------------------- MODULE ConversationTurnProofs -----------------------
(* Theorems about ConversationTurn, for every value of its constants.      *)
EXTENDS ConversationTurn, SequenceTheorems, FiniteSetTheorems, WellFoundedInduction, TLAPS

(***************************************************************************)
(* What pruning and compaction return, for every message list.             *)
(***************************************************************************)
\* A nonempty set of natural numbers has a least element.
LEMMA LeastElement ==
    ASSUME NEW T, T \subseteq Nat, T # {}
    PROVE  \E n \in T : \A m \in T : n <= m
<1>1. PICK x \in T : \A y \in T : ~(<<y, x>> \in OpToRel(<, Nat))
  BY NatLessThanWellFounded, WFMin
<1>2. \A m \in T : ~(m < x)
  BY <1>1 DEF OpToRel
<1>. QED  BY <1>2

\* The scan for a user text ends at a user text or at the end of the list.
LEMMA SeekUserTextType ==
    ASSUME NEW h, Len(h) \in Nat, NEW s \in Nat, s <= Len(h)
    PROVE  /\ SeekUserText(h, s) \in s .. Len(h)
           /\ SeekUserText(h, s) < Len(h) => IsUserText(h, SeekUserText(h, s))
<1>1. CASE \E i \in s .. (Len(h) - 1) : IsUserText(h, i)
  <2>. DEFINE T == {i \in s .. (Len(h) - 1) : IsUserText(h, i)}
  <2>1. T \subseteq Nat /\ T # {}
    BY <1>1
  <2>2. PICK n \in T : \A m \in T : n <= m
    BY <2>1, LeastElement
  <2>3. \E i \in s .. (Len(h) - 1) :
            /\ IsUserText(h, i)
            /\ \A j \in s .. (i - 1) : ~IsUserText(h, j)
    <3>1. n \in s .. (Len(h) - 1) /\ IsUserText(h, n)
      OBVIOUS
    <3>2. ASSUME NEW j \in s .. (n - 1), IsUserText(h, j) PROVE FALSE
      <4>1. j \in T
        BY <3>1, <3>2
      <4>. QED  BY <4>1, <3>1, <3>2, <2>2
    <3>. QED  BY <3>1, <3>2
  <2>4. /\ SeekUserText(h, s) \in s .. (Len(h) - 1)
        /\ IsUserText(h, SeekUserText(h, s))
    BY <1>1, <2>3 DEF SeekUserText
  <2>. QED  BY <2>4
<1>2. CASE ~\E i \in s .. (Len(h) - 1) : IsUserText(h, i)
  BY <1>2 DEF SeekUserText
<1>. QED  BY <1>1, <1>2

\* Pruning a list that is too long cuts within the list and leaves at most
\* max messages.
LEMMA PruneStartRange ==
    ASSUME NEW h, Len(h) \in Nat, NEW max \in Nat \ {0}, NEW p \in Nat,
           Len(h) > max
    PROVE  PruneStart(h, max, p) \in (Len(h) - max) .. (Len(h) - 1)
<1>1. Monus(Len(h), max) = Len(h) - max
  BY DEF Monus
<1>2. SeekUserText(h, Len(h) - max) \in (Len(h) - max) .. Len(h)
  BY SeekUserTextType
<1>. QED  BY <1>1, <1>2 DEF PruneStart, AtLeast, AtMost, Monus

\* Overflow compaction cuts within the list.
LEMMA CompactStartRange ==
    ASSUME NEW h, Len(h) \in Nat, NEW keep \in Nat \ {0}, NEW p \in Nat,
           Len(h) > keep
    PROVE  CompactStart(h, keep, p) \in 0 .. (Len(h) - 1)
<1>1. Monus(Len(h), keep) = Len(h) - keep
  BY DEF Monus
<1>2. SeekUserText(h, Len(h) - keep) \in (Len(h) - keep) .. Len(h)
  BY SeekUserTextType
<1>. QED  BY <1>1, <1>2 DEF CompactStart, AtMost

\* An anchor that lies in the list is never cut off by overflow compaction,
\* and the new anchor names the same message.
LEMMA CompactKeepsAnchor ==
    ASSUME NEW h, Len(h) \in Nat, NEW keep \in Nat \ {0}, NEW p \in Nat,
           Len(h) > keep, p < Len(h), IsUserText(h, p)
    PROVE  /\ CompactStart(h, keep, p) <= p
           /\ CompactAnchor(h, keep, p) = p - CompactStart(h, keep, p)
<1>1. Monus(Len(h), keep) = Len(h) - keep
  BY DEF Monus
<1>2. CASE p < Len(h) - keep
  BY <1>1, <1>2 DEF CompactStart, CompactAnchor, AtMost, Monus
<1>3. CASE p >= Len(h) - keep
  <2>. DEFINE s == Len(h) - keep
  <2>1. SeekUserText(h, s) \in s .. Len(h)
    BY SeekUserTextType
  <2>2. SeekUserText(h, s) <= p
    <3>. DEFINE T == {i \in s .. (Len(h) - 1) : IsUserText(h, i)}
    <3>1. p \in T /\ T \subseteq Nat
      BY <1>3
    <3>2. PICK n \in T : \A m \in T : n <= m
      BY <3>1, LeastElement
    <3>3. /\ n \in s .. (Len(h) - 1) /\ IsUserText(h, n)
          /\ \A j \in s .. (n - 1) : ~IsUserText(h, j)
      <4>1. ASSUME NEW j \in s .. (n - 1), IsUserText(h, j) PROVE FALSE
        <5>1. n \in s .. (Len(h) - 1)
          OBVIOUS
        <5>2. j \in T
          BY <4>1, <5>1
        <5>. QED  BY <5>1, <5>2, <4>1, <3>2
      <4>. QED  BY <4>1
    <3>4. /\ SeekUserText(h, s) \in s .. (Len(h) - 1)
          /\ \A j \in s .. (SeekUserText(h, s) - 1) : ~IsUserText(h, j)
      BY <3>3 DEF SeekUserText
    <3>. QED  BY <3>4, <1>3
  <2>. QED  BY <1>1, <1>3, <2>1, <2>2 DEF CompactStart, CompactAnchor, AtMost, Monus
<1>. QED  BY <1>2, <1>3

\* drain(0..k) leaves the messages from k on, in order.
LEMMA DropFirstProperties ==
    ASSUME NEW S, NEW h \in Seq(S), NEW k \in 0 .. Len(h)
    PROVE  /\ DropFirst(h, k) \in Seq(S)
           /\ Len(DropFirst(h, k)) = Len(h) - k
           /\ \A i \in 1 .. (Len(h) - k) : DropFirst(h, k)[i] = h[i + k]
<1>. DEFINE m == k + 1
            n == Len(h)
<1>1. m \in Int /\ n \in Int /\ \A i \in m .. n : h[i] \in S
  OBVIOUS
<1>2. /\ SubSeq(h, m, n) \in Seq(S)
      /\ Len(SubSeq(h, m, n)) = IF m <= n THEN n - m + 1 ELSE 0
      /\ \A i \in 1 .. (n - m + 1) : SubSeq(h, m, n)[i] = h[m + i - 1]
  BY <1>1, SubSeqProperties
<1>. QED  BY <1>2 DEF DropFirst

(***************************************************************************)
(* The inductive invariant.  RequestFits and RoundBudget need to know how  *)
(* the round counter relates to the place in the loop; WellFormedHistory   *)
(* needs to know who spoke last.                                           *)
(***************************************************************************)
Budget == MaxRounds + (IF finalAsked THEN 1 ELSE 0)

RoundsInStep ==
    /\ pc = "top" => rounds <= Budget /\ Len(executed) <= rounds
    /\ pc \in {"connect", "stream"} =>
          1 <= rounds /\ rounds <= Budget /\ Len(executed) <= rounds - 1
    /\ pc = "tools" =>
          1 <= rounds /\ rounds <= Budget /\ Len(executed) <= rounds

LastKind(h, kinds) == Len(h) > 0 /\ h[Len(h)].kind \in kinds

LastSpeaker ==
    /\ pc \in {"top", "connect", "stream"} =>
          LastKind(history, {"req", "note", "res"})
    /\ pc = "tools" => LastKind(history, {"call"})

\* WellFormedHistory as a predicate of a list.
Paired(h) ==
    \A i \in 1 .. (Len(h) - 1) :
        /\ h[i + 1].kind = "res" => h[i].kind = "call"
        /\ h[i].kind \in {"say", "call"} => h[i + 1].kind \in {"req", "note", "res"}

IInv ==
    /\ TypeOK
    /\ RoundsInStep
    /\ LastSpeaker
    /\ WellFormedHistory
    /\ RequestFits
    /\ ExitsCloseDoc
    /\ RoundBudget

-----------------------------------------------------------------------------
(* Lemmas about the message list *)

\* A nonempty suffix keeps the last message and the pairing.
LEMMA SuffixKeepsShape ==
    ASSUME NEW h \in Seq(Message), NEW k \in 0 .. (Len(h) - 1)
    PROVE  /\ DropFirst(h, k) \in Seq(Message)
           /\ Len(DropFirst(h, k)) = Len(h) - k
           /\ DropFirst(h, k)[Len(DropFirst(h, k))] = h[Len(h)]
           /\ Paired(h) => Paired(DropFirst(h, k))
<1>. DEFINE d == DropFirst(h, k)
<1>0. Len(h) \in Nat /\ k \in 0 .. Len(h)
  OBVIOUS
<1>1. /\ d \in Seq(Message)
      /\ Len(d) = Len(h) - k
      /\ \A i \in 1 .. (Len(h) - k) : d[i] = h[i + k]
  BY <1>0, DropFirstProperties
<1>2. d[Len(d)] = h[Len(h)]
  BY <1>1
<1>3. ASSUME Paired(h) PROVE Paired(d)
  <2>. SUFFICES ASSUME NEW i \in 1 .. (Len(d) - 1)
                PROVE  /\ d[i + 1].kind = "res" => d[i].kind = "call"
                       /\ d[i].kind \in {"say", "call"} =>
                             d[i + 1].kind \in {"req", "note", "res"}
    BY DEF Paired
  <2>1. d[i] = h[i + k] /\ d[i + 1] = h[i + k + 1]
    BY <1>1
  <2>2. i + k \in 1 .. (Len(h) - 1)
    BY <1>1
  <2>. QED  BY <2>1, <2>2, <1>3 DEF Paired
<1>. QED  BY <1>1, <1>2, <1>3

\* Pruning leaves a nonempty suffix of at most max messages.
LEMMA PruneShape ==
    ASSUME NEW h \in Seq(Message), Len(h) > 0, NEW max \in Nat \ {0}, NEW p \in Nat
    PROVE  /\ PruneHistory(h, max, p) \in Seq(Message)
           /\ Len(PruneHistory(h, max, p)) \in 1 .. max
           /\ PruneHistory(h, max, p)[Len(PruneHistory(h, max, p))] = h[Len(h)]
           /\ Paired(h) => Paired(PruneHistory(h, max, p))
           /\ PruneAnchor(h, max, p) \in Nat
<1>1. CASE Len(h) <= max
  BY <1>1 DEF PruneHistory, PruneAnchor, AtMost
<1>2. CASE Len(h) > max
  <2>0. Len(h) \in Nat
    OBVIOUS
  <2>1. PruneStart(h, max, p) \in (Len(h) - max) .. (Len(h) - 1)
    BY <1>2, <2>0, PruneStartRange
  <2>2. PruneHistory(h, max, p) = DropFirst(h, PruneStart(h, max, p))
    BY <1>2 DEF PruneHistory
  <2>3. PruneAnchor(h, max, p) \in Nat
    BY <1>2, <2>1 DEF PruneAnchor, Monus
  <2>4. PruneStart(h, max, p) \in 0 .. (Len(h) - 1)
    BY <1>2, <2>1
  <2>. QED  BY <2>1, <2>2, <2>3, <2>4, SuffixKeepsShape
<1>. QED  BY <1>1, <1>2

\* Overflow compaction leaves a nonempty suffix.
LEMMA CompactShape ==
    ASSUME NEW h \in Seq(Message), Len(h) > 0, NEW keep \in Nat \ {0}, NEW p \in Nat
    PROVE  /\ CompactHistory(h, keep, p) \in Seq(Message)
           /\ Len(CompactHistory(h, keep, p)) > 0
           /\ CompactHistory(h, keep, p)[Len(CompactHistory(h, keep, p))] = h[Len(h)]
           /\ Paired(h) => Paired(CompactHistory(h, keep, p))
           /\ CompactAnchor(h, keep, p) \in Nat
<1>1. CASE Len(h) <= keep
  BY <1>1 DEF CompactHistory, CompactAnchor, AtMost
<1>2. CASE Len(h) > keep
  <2>0. Len(h) \in Nat
    OBVIOUS
  <2>1. CompactStart(h, keep, p) \in 0 .. (Len(h) - 1)
    BY <1>2, <2>0, CompactStartRange
  <2>2. CompactHistory(h, keep, p) = DropFirst(h, CompactStart(h, keep, p))
    BY <1>2 DEF CompactHistory
  <2>3. CompactAnchor(h, keep, p) \in Nat
    BY <1>2, <2>1 DEF CompactAnchor, Monus, AtMost
  <2>. QED  BY <2>1, <2>2, <2>3, SuffixKeepsShape
<1>. QED  BY <1>1, <1>2

\* Appending a message keeps the pairing when it may follow the last one.
LEMMA AppendKeepsPaired ==
    ASSUME NEW h \in Seq(Message), Paired(h), NEW m \in Message,
           \/ m.kind \in {"req", "note"}
           \/ m.kind = "res" /\ LastKind(h, {"call"})
           \/ m.kind \in {"say", "call"} /\ LastKind(h, {"req", "note", "res"})
    PROVE  /\ Append(h, m) \in Seq(Message)
           /\ Len(Append(h, m)) = Len(h) + 1
           /\ Append(h, m)[Len(h) + 1] = m
           /\ Paired(Append(h, m))
<1>. DEFINE a == Append(h, m)
<1>1. /\ a \in Seq(Message) /\ Len(a) = Len(h) + 1 /\ a[Len(h) + 1] = m
      /\ \A i \in 1 .. Len(h) : a[i] = h[i]
  OBVIOUS
<1>2. Paired(a)
  <2>. SUFFICES ASSUME NEW i \in 1 .. (Len(a) - 1)
                PROVE  /\ a[i + 1].kind = "res" => a[i].kind = "call"
                       /\ a[i].kind \in {"say", "call"} =>
                             a[i + 1].kind \in {"req", "note", "res"}
    BY DEF Paired
  <2>1. CASE i < Len(h)
    BY <1>1, <2>1 DEF Paired
  <2>2. CASE i = Len(h)
    BY <1>1, <2>2 DEF LastKind
  <2>. QED  BY <1>1, <2>1, <2>2
<1>. QED  BY <1>1, <1>2

\* compact_with_summary removes fewer messages than there are.
LEMMA SummaryBoundaryRange ==
    ASSUME NEW h \in Seq(Message), Len(h) > 0, NEW keep
    PROVE  SummaryBoundary(h, keep) \in 0 .. (Len(h) - 1)
BY DEF SummaryBoundary

\* The message constructors build messages.
LEMMA MessageType ==
    ASSUME turn \in Nat
    PROVE  /\ \A k \in Kinds : Msg(k) \in Message /\ Msg(k).kind = k
           /\ Request(turn + 1) \in Message /\ Request(turn + 1).kind = "req"
BY DEF Msg, Message, Request, Kinds

\* Two messages appended at once.
LEMMA AppendTwo ==
    ASSUME NEW h \in Seq(Message), NEW a \in Message, NEW b \in Message
    PROVE  h \o <<a, b>> = Append(Append(h, a), b)
<1>1. h \o <<a, b>> \in Seq(Message) /\ Append(Append(h, a), b) \in Seq(Message)
  OBVIOUS
<1>2. Len(h \o <<a, b>>) = Len(h) + 2 /\ Len(Append(Append(h, a), b)) = Len(h) + 2
  OBVIOUS
<1>3. \A i \in 1 .. (Len(h) + 2) : (h \o <<a, b>>)[i] = Append(Append(h, a), b)[i]
  OBVIOUS
<1>. QED  BY <1>1, <1>2, <1>3, SeqEqual

\* What every step may use of the invariant.
LEMMA IInvFacts ==
    ASSUME IInv
    PROVE  /\ history \in Seq(Message) /\ Paired(history) /\ turn \in Nat
           /\ \A k \in Kinds : Msg(k) \in Message /\ Msg(k).kind = k
           /\ pc \in {"top", "connect", "stream"} =>
                 LastKind(history, {"req", "note", "res"})
           /\ pc = "tools" => LastKind(history, {"call"})
<1>1. Paired(history)
  BY DEF IInv, WellFormedHistory, Paired
<1>2. history \in Seq(Message) /\ turn \in Nat
  BY DEF IInv, TypeOK, CountersTypeOK, ListsTypeOK
<1>3. \A k \in Kinds : Msg(k) \in Message /\ Msg(k).kind = k
  BY <1>2, MessageType
<1>. QED  BY <1>1, <1>2, <1>3 DEF IInv, LastSpeaker

-----------------------------------------------------------------------------
(* The invariant is inductive *)

\* The initial state satisfies the invariant.
LEMMA InitIInv == Init => IInv
<1>. SUFFICES ASSUME Init PROVE IInv
  OBVIOUS
<1>1. TypeOK
  <2>1. ControlTypeOK  BY DEF Init, ControlTypeOK, Outcomes
  <2>2. FlagsTypeOK  BY DEF Init, FlagsTypeOK
  <2>3. CountersTypeOK  BY ConstantsAssumption DEF Init, CountersTypeOK
  <2>4. ListsTypeOK  BY DEF Init, ListsTypeOK
  <2>5. SigsTypeOK  BY DEF Init, SigsTypeOK
  <2>. QED  BY <2>1, <2>2, <2>3, <2>4, <2>5 DEF TypeOK
<1>2. RoundsInStep /\ LastSpeaker /\ WellFormedHistory /\ RequestFits
  BY DEF Init, RoundsInStep, LastSpeaker, WellFormedHistory, RequestFits
<1>3. ExitsCloseDoc
  BY DEF Init, ExitsCloseDoc
<1>4. RoundBudget
  BY ConstantsAssumption DEF Init, RoundBudget
<1>. QED  BY <1>1, <1>2, <1>3, <1>4 DEF IInv

\* Starting a turn: the request may follow any message, and the proactive
\* compaction leaves it last.
LEMMA BeginIInv ==
    ASSUME IInv, NEW ev \in BOOLEAN, NEW large \in BOOLEAN, Begin(ev, large)
    PROVE  IInv'
<1>. DEFINE asked == Append(history, Request(turn + 1))
            removed == ProactivelyRemoved(ev, large, asked)
<1>1. history \in Seq(Message) /\ turn \in Nat /\ Paired(history)
  BY DEF IInv, TypeOK, CountersTypeOK, ListsTypeOK, WellFormedHistory, Paired
<1>2. Request(turn + 1) \in Message /\ Request(turn + 1).kind = "req"
  BY <1>1, MessageType
<1>3. /\ asked \in Seq(Message) /\ Len(asked) = Len(history) + 1
      /\ asked[Len(asked)] = Request(turn + 1) /\ Paired(asked)
  BY <1>1, <1>2, AppendKeepsPaired
<1>4. removed \in 0 .. (Len(asked) - 1)
  <2>1. Len(asked) \in Nat /\ Len(asked) > 0
    BY <1>1, <1>3
  <2>2. SummaryBoundary(asked, CompactionKeep(ev)) \in 0 .. (Len(asked) - 1)
    BY <1>3, <2>1, SummaryBoundaryRange
  <2>. HIDE DEF asked
  <2>. QED  BY <2>1, <2>2 DEF ProactivelyRemoved
<1>5. /\ history' = DropFirst(asked, removed)
      /\ turn' = turn + 1 /\ pc' = "top" /\ docOpen' = TRUE /\ outcome' = "running"
      /\ anchor' = Len(asked) - 1 /\ preserve' = (removed > 0) /\ evidence' = ev
      /\ rounds' = 0 /\ overflow' = 0 /\ finalAsked' = FALSE /\ nudged' = FALSE
      /\ roRepeat' = 0 /\ prevSig' = NoSig /\ seenSigs' = {}
      /\ retries' = 0 /\ sawTool' = FALSE /\ executed' = <<>>
  BY DEF Begin
<1>. HIDE DEF asked, removed
<1>6. /\ history' \in Seq(Message) /\ Len(history') > 0
      /\ history'[Len(history')].kind = "req" /\ Paired(history')
  BY <1>2, <1>3, <1>4, <1>5, SuffixKeepsShape
<1>7. TypeOK'
  <2>1. ControlTypeOK'  BY <1>5 DEF ControlTypeOK, Outcomes
  <2>2. FlagsTypeOK'
    <3>1. preserve' \in BOOLEAN
      <4>1. preserve' = TRUE \/ preserve' = FALSE  BY <1>5
      <4>. QED  BY <4>1
    <3>. QED  BY <1>5, <3>1 DEF FlagsTypeOK
  <2>3. CountersTypeOK'  BY <1>1, <1>3, <1>5, ConstantsAssumption DEF CountersTypeOK
  <2>4. ListsTypeOK'  BY <1>5, <1>6 DEF ListsTypeOK
  <2>5. SigsTypeOK'  BY <1>5 DEF SigsTypeOK
  <2>. QED  BY <2>1, <2>2, <2>3, <2>4, <2>5 DEF TypeOK
<1>8. WellFormedHistory'
  BY <1>6 DEF WellFormedHistory, Paired
<1>9. RoundsInStep' /\ LastSpeaker' /\ RequestFits' /\ ExitsCloseDoc' /\ RoundBudget'
  BY <1>5, <1>6, ConstantsAssumption
     DEF RoundsInStep, Budget, LastSpeaker, LastKind, RequestFits, ExitsCloseDoc, RoundBudget
<1>. QED  BY <1>7, <1>8, <1>9 DEF IInv

\* The top of the loop prunes before it may append the final instruction.
LEMMA LoopTopIInv == ASSUME IInv, LoopTop PROVE IInv'
<1>. DEFINE pruned == PruneHistory(history, MaxApi, anchor)
<1>0. pc = "top"
  BY DEF LoopTop
<1>1. /\ history \in Seq(Message) /\ Len(history) > 0 /\ turn \in Nat
      /\ Paired(history) /\ LastKind(history, {"req", "note", "res"})
      /\ anchor \in Nat /\ MaxApi \in Nat \ {0}
  <2>1. Paired(history)
    BY DEF IInv, WellFormedHistory, Paired
  <2>. QED  BY <1>0, <2>1, ConstantsAssumption
               DEF IInv, TypeOK, CountersTypeOK, ListsTypeOK, LastSpeaker, LastKind
<1>2. /\ pruned \in Seq(Message) /\ Len(pruned) \in 1 .. MaxApi
      /\ pruned[Len(pruned)] = history[Len(history)] /\ Paired(pruned)
      /\ PruneAnchor(history, MaxApi, anchor) \in Nat
  BY <1>1, PruneShape
<1>3. Msg("note") \in Message /\ Msg("note").kind = "note"
  BY <1>1, MessageType DEF Kinds
<1>4. /\ Append(pruned, Msg("note")) \in Seq(Message)
      /\ Len(Append(pruned, Msg("note"))) = Len(pruned) + 1
      /\ Append(pruned, Msg("note"))[Len(pruned) + 1] = Msg("note")
      /\ Paired(Append(pruned, Msg("note")))
  BY <1>2, <1>3, AppendKeepsPaired
<1>5. pc = "top" /\ rounds' = rounds + 1 /\ anchor' = PruneAnchor(history, MaxApi, anchor)
  BY DEF LoopTop
<1>6. \/ /\ rounds + 1 <= MaxRounds /\ pc' = "connect" /\ history' = pruned
         /\ UNCHANGED <<docOpen, outcome, finalAsked>>
      \/ /\ rounds + 1 > MaxRounds /\ ~finalAsked /\ pc' = "connect" /\ finalAsked' = TRUE
         /\ history' = Append(pruned, Msg("note")) /\ UNCHANGED <<docOpen, outcome>>
      \/ /\ rounds + 1 > MaxRounds /\ finalAsked
         /\ pc' = "idle" /\ docOpen' = FALSE /\ outcome' = "max_turns"
         /\ history' = pruned /\ UNCHANGED finalAsked
  BY DEF LoopTop, Finish
<1>7. UNCHANGED <<request, overflow, nudged, roRepeat, prevSig, seenSigs, retries,
                  sawTool, executed>>
  BY DEF LoopTop
<1>. HIDE DEF pruned
<1>8. TypeOK'
  <2>1. ControlTypeOK'
    BY <1>6 DEF IInv, TypeOK, ControlTypeOK, Outcomes
  <2>2. FlagsTypeOK'
    BY <1>6, <1>7 DEF IInv, TypeOK, FlagsTypeOK, request
  <2>3. CountersTypeOK'
    BY <1>2, <1>5, <1>7, ConstantsAssumption
       DEF IInv, TypeOK, FlagsTypeOK, CountersTypeOK, RoundsInStep, Budget, request
  <2>4. ListsTypeOK'
    BY <1>2, <1>4, <1>6, <1>7 DEF IInv, TypeOK, ListsTypeOK
  <2>5. SigsTypeOK'
    BY <1>7 DEF IInv, TypeOK, SigsTypeOK
  <2>. QED  BY <2>1, <2>2, <2>3, <2>4, <2>5 DEF TypeOK
<1>9. WellFormedHistory'
  <2>1. Paired(history')
    BY <1>2, <1>4, <1>6
  <2>. QED  BY <2>1 DEF WellFormedHistory, Paired
<1>10. LastSpeaker'
  BY <1>1, <1>2, <1>3, <1>4, <1>6 DEF LastSpeaker, LastKind
<1>11. RequestFits'
  BY <1>2, <1>4, <1>6, ConstantsAssumption DEF RequestFits
<1>12. ExitsCloseDoc'
  BY <1>5, <1>6 DEF IInv, ExitsCloseDoc
<1>13. RoundsInStep' /\ RoundBudget'
  BY <1>5, <1>6, <1>7, ConstantsAssumption
     DEF IInv, TypeOK, FlagsTypeOK, CountersTypeOK, ListsTypeOK, RoundsInStep, Budget, RoundBudget
<1>. QED  BY <1>8, <1>9, <1>10, <1>11, <1>12, <1>13 DEF IInv

\* Starting a turn on an open document only records the panic.
LEMMA BeginPanicsIInv == ASSUME IInv, BeginPanics PROVE IInv'
<1>1. /\ pc = "idle" /\ docOpen /\ turn' = turn + 1 /\ outcome' = "panicked"
      /\ UNCHANGED <<pc, history, docOpen, preserve, evidence, loop, guards, executed>>
  BY DEF BeginPanics
<1>2. TypeOK'
  <2>1. ControlTypeOK' /\ FlagsTypeOK' /\ ListsTypeOK' /\ SigsTypeOK'
    BY <1>1 DEF IInv, TypeOK, ControlTypeOK, FlagsTypeOK, ListsTypeOK, SigsTypeOK,
                Outcomes, loop, guards
  <2>2. CountersTypeOK'
    BY <1>1 DEF IInv, TypeOK, CountersTypeOK, loop, guards
  <2>. QED  BY <2>1, <2>2 DEF TypeOK
<1>3. RoundsInStep' /\ LastSpeaker' /\ WellFormedHistory' /\ RequestFits' /\ RoundBudget'
  BY <1>1 DEF IInv, RoundsInStep, LastSpeaker, WellFormedHistory, RequestFits, RoundBudget
<1>4. ExitsCloseDoc'
  BY <1>1 DEF ExitsCloseDoc
<1>. QED  BY <1>2, <1>3, <1>4 DEF IInv

\* A built-in reply appends the request and its answer.
LEMMA BuiltinReplyIInv == ASSUME IInv, BuiltinReply PROVE IInv'
<1>. DEFINE req == Request(turn + 1)
            say == [kind |-> "say", turn |-> turn + 1]
<1>1. /\ pc = "idle" /\ ~docOpen /\ turn' = turn + 1 /\ outcome' = "answered"
      /\ history' = history \o <<req, say>>
      /\ UNCHANGED <<pc, docOpen, preserve, evidence, loop, guards, executed>>
  BY DEF BuiltinReply
<1>2. history \in Seq(Message) /\ Paired(history) /\ turn \in Nat
  BY IInvFacts
<1>3. req \in Message /\ req.kind = "req" /\ say \in Message /\ say.kind = "say"
  BY <1>2, MessageType DEF Message, Kinds
<1>. HIDE DEF req, say
<1>4. /\ Append(history, req) \in Seq(Message) /\ Paired(Append(history, req))
      /\ LastKind(Append(history, req), {"req", "note", "res"})
  BY <1>2, <1>3, AppendKeepsPaired DEF LastKind
<1>5. history' \in Seq(Message) /\ Paired(history')
  <2>1. history' = Append(Append(history, req), say)
    BY <1>1, <1>2, <1>3, AppendTwo
  <2>. QED  BY <1>3, <1>4, <2>1, AppendKeepsPaired
<1>6. TypeOK'
  <2>1. ControlTypeOK' /\ FlagsTypeOK' /\ SigsTypeOK'
    BY <1>1 DEF IInv, TypeOK, ControlTypeOK, FlagsTypeOK, SigsTypeOK, Outcomes, loop, guards
  <2>2. CountersTypeOK'
    BY <1>1 DEF IInv, TypeOK, CountersTypeOK, loop, guards
  <2>3. ListsTypeOK'
    BY <1>1, <1>5 DEF IInv, TypeOK, ListsTypeOK
  <2>. QED  BY <2>1, <2>2, <2>3 DEF TypeOK
<1>7. RoundsInStep' /\ LastSpeaker' /\ RequestFits' /\ RoundBudget' /\ ExitsCloseDoc'
  BY <1>1 DEF IInv, RoundsInStep, LastSpeaker, RequestFits, RoundBudget, ExitsCloseDoc
<1>8. WellFormedHistory'
  BY <1>5 DEF WellFormedHistory, Paired
<1>. QED  BY <1>6, <1>7, <1>8 DEF IInv

\* Steps that leave the list of messages alone and end the turn or move it on.
LEMMA QuietIInv ==
    ASSUME IInv,
           Connected \/ ConnectFails \/ StreamFails \/ Abort
    PROVE  IInv'
<1>1. /\ UNCHANGED <<history, anchor, rounds, finalAsked, nudged, roRepeat, prevSig, seenSigs,
                     retries, sawTool, turn, preserve, evidence, executed>>
      /\ overflow' \in {0, overflow}
  BY DEF Connected, ConnectFails, StreamFails, Abort, loop, guards, request
<1>2. \/ /\ pc = "connect" /\ pc' = "stream" /\ UNCHANGED <<docOpen, outcome>>
      \/ /\ pc \in {"connect", "stream"} /\ pc' = "idle" /\ docOpen' = FALSE
         /\ outcome' = "failed"
      \/ /\ pc \in {"connect", "stream", "tools"} /\ pc' = "idle" /\ outcome' = "cancelled"
         /\ UNCHANGED docOpen
  BY DEF Connected, ConnectFails, StreamFails, Abort, Finish
<1>3. TypeOK'
  <2>1. ControlTypeOK' /\ FlagsTypeOK' /\ SigsTypeOK' /\ ListsTypeOK'
    BY <1>1, <1>2 DEF IInv, TypeOK, ControlTypeOK, FlagsTypeOK, SigsTypeOK, ListsTypeOK, Outcomes
  <2>2. CountersTypeOK'
    BY <1>1 DEF IInv, TypeOK, CountersTypeOK
  <2>. QED  BY <2>1, <2>2 DEF TypeOK
<1>4. RoundsInStep' /\ RoundBudget'
  BY <1>1, <1>2, ConstantsAssumption
     DEF IInv, TypeOK, FlagsTypeOK, CountersTypeOK, ListsTypeOK, RoundsInStep, Budget, RoundBudget
<1>5. LastSpeaker' /\ WellFormedHistory' /\ RequestFits' /\ ExitsCloseDoc'
  BY <1>1, <1>2 DEF IInv, LastSpeaker, LastKind, WellFormedHistory, RequestFits, ExitsCloseDoc
<1>. QED  BY <1>3, <1>4, <1>5 DEF IInv

\* The overflow retry leaves a nonempty suffix and gives the round back.
LEMMA ContextOverflowIInv == ASSUME IInv, ContextOverflow PROVE IInv'
<1>. DEFINE keep == OverflowKeep(overflow)
            p == IF preserve THEN anchor ELSE Len(history)
<1>1. /\ pc = "connect" /\ overflow < 3 /\ pc' = "top"
      /\ history' = CompactHistory(history, keep, p)
      /\ anchor' = (IF preserve THEN CompactAnchor(history, keep, p) ELSE anchor)
      /\ overflow' = overflow + 1 /\ rounds' = rounds - 1
      /\ UNCHANGED <<docOpen, outcome, guards, request, executed>>
  BY DEF ContextOverflow, OverflowCount, RoundsAfterOverflow
<1>2. /\ history \in Seq(Message) /\ Paired(history)
      /\ LastKind(history, {"req", "note", "res"})
  BY <1>1, IInvFacts
<1>3. keep \in Nat \ {0} /\ p \in Nat /\ Len(history) > 0 /\ anchor \in Nat
  BY <1>2 DEF IInv, TypeOK, CountersTypeOK, OverflowKeep, LastKind
<1>. HIDE DEF keep, p
<1>4. /\ history' \in Seq(Message) /\ Len(history') > 0
      /\ history'[Len(history')] = history[Len(history)] /\ Paired(history')
      /\ CompactAnchor(history, keep, p) \in Nat
  BY <1>1, <1>2, <1>3, CompactShape
<1>5. TypeOK'
  <2>1. ControlTypeOK' /\ FlagsTypeOK' /\ SigsTypeOK'
    BY <1>1 DEF IInv, TypeOK, ControlTypeOK, FlagsTypeOK, SigsTypeOK, guards, request
  <2>2. anchor' \in Nat
    BY <1>1, <1>3, <1>4
  <2>3. CountersTypeOK'
    BY <1>1, <2>2, ConstantsAssumption
       DEF IInv, TypeOK, CountersTypeOK, RoundsInStep, guards, request
  <2>4. ListsTypeOK'
    BY <1>1, <1>4 DEF IInv, TypeOK, ListsTypeOK
  <2>. QED  BY <2>1, <2>3, <2>4 DEF TypeOK
<1>6. RoundsInStep' /\ RoundBudget'
  BY <1>1, ConstantsAssumption
     DEF IInv, TypeOK, FlagsTypeOK, CountersTypeOK, ListsTypeOK, RoundsInStep, Budget,
         RoundBudget, guards
<1>7. LastSpeaker' /\ RequestFits' /\ ExitsCloseDoc'
  BY <1>1, <1>2, <1>4 DEF IInv, LastSpeaker, LastKind, RequestFits, ExitsCloseDoc
<1>8. WellFormedHistory'
  BY <1>4 DEF WellFormedHistory, Paired
<1>. QED  BY <1>5, <1>6, <1>7, <1>8 DEF IInv

\* A text response ends the turn, or is followed by the retry instruction.
LEMMA StreamTextIInv == ASSUME IInv, StreamText PROVE IInv'
<1>1. /\ pc = "stream" /\ prevSig' = NoSig /\ roRepeat' = 0
      /\ UNCHANGED <<loop, request, finalAsked, nudged, seenSigs, sawTool, executed>>
  BY DEF StreamText
<1>2. \/ /\ retries < 2 /\ retries' = retries + 1
         /\ history' = history \o <<Msg("say"), Msg("note")>>
         /\ pc' = "top" /\ UNCHANGED <<docOpen, outcome>>
      \/ /\ history' = Append(history, Msg("say"))
         /\ pc' = "idle" /\ docOpen' = FALSE /\ outcome' \in {"stopped", "answered"}
         /\ UNCHANGED retries
  BY DEF StreamText, Finish
<1>3. /\ history \in Seq(Message) /\ Paired(history)
      /\ LastKind(history, {"req", "note", "res"})
      /\ Msg("say") \in Message /\ Msg("say").kind = "say"
      /\ Msg("note") \in Message /\ Msg("note").kind = "note"
  BY <1>1, IInvFacts DEF Kinds
<1>4. Append(history, Msg("say")) \in Seq(Message) /\ Paired(Append(history, Msg("say")))
  BY <1>3, AppendKeepsPaired
<1>5. /\ history' \in Seq(Message) /\ Paired(history')
      /\ pc' = "top" => LastKind(history', {"req", "note", "res"})
  <2>1. CASE history' = Append(history, Msg("say")) /\ pc' = "idle"
    BY <1>4, <2>1
  <2>2. CASE history' = history \o <<Msg("say"), Msg("note")>>
    <3>. DEFINE a == Append(history, Msg("say"))
    <3>1. history' = Append(a, Msg("note"))
      BY <1>3, <2>2, AppendTwo
    <3>2. /\ Append(a, Msg("note")) \in Seq(Message) /\ Len(Append(a, Msg("note"))) = Len(a) + 1
          /\ Append(a, Msg("note"))[Len(a) + 1] = Msg("note") /\ Paired(Append(a, Msg("note")))
      BY <1>3, <1>4, AppendKeepsPaired
    <3>3. Len(a) \in Nat
      BY <1>4
    <3>. HIDE DEF a
    <3>. QED  BY <1>3, <3>1, <3>2, <3>3 DEF LastKind
  <2>. QED  BY <1>2, <2>1, <2>2
<1>6. TypeOK'
  <2>1. ControlTypeOK' /\ FlagsTypeOK'
    BY <1>1, <1>2 DEF IInv, TypeOK, ControlTypeOK, FlagsTypeOK, Outcomes, request
  <2>2. CountersTypeOK'
    BY <1>1, <1>2 DEF IInv, TypeOK, CountersTypeOK, loop, request
  <2>3. ListsTypeOK' /\ SigsTypeOK'
    BY <1>1, <1>5 DEF IInv, TypeOK, ListsTypeOK, SigsTypeOK
  <2>. QED  BY <2>1, <2>2, <2>3 DEF TypeOK
<1>7. RoundsInStep' /\ RoundBudget'
  BY <1>1, <1>2, ConstantsAssumption
     DEF IInv, TypeOK, FlagsTypeOK, CountersTypeOK, ListsTypeOK, RoundsInStep, Budget,
         RoundBudget, loop
<1>8. LastSpeaker' /\ RequestFits' /\ ExitsCloseDoc'
  BY <1>1, <1>2, <1>5 DEF IInv, LastSpeaker, RequestFits, ExitsCloseDoc
<1>9. WellFormedHistory'
  BY <1>5 DEF WellFormedHistory, Paired
<1>. QED  BY <1>6, <1>7, <1>8, <1>9 DEF IInv

\* NoteRound keeps the types of the guards' variables.
LEMMA NoteRoundTypes ==
    ASSUME IInv, NEW sig \in Sigs, NoteRound(sig)
    PROVE  sawTool' \in BOOLEAN /\ roRepeat' \in Nat /\ SigsTypeOK'
<1>1. roRepeat' \in Nat
  BY DEF IInv, TypeOK, CountersTypeOK, NoteRound, RepeatCount
<1>2. SigsTypeOK'
  BY DEF IInv, TypeOK, SigsTypeOK, NoteRound
<1>. QED  BY <1>1, <1>2 DEF NoteRound

\* A guard that stops the turn records nothing.
LEMMA GuardStopsIInv == ASSUME IInv, NEW sig \in Sigs, GuardStops(sig) PROVE IInv'
<1>1. /\ pc = "stream" /\ pc' = "idle" /\ docOpen' = FALSE /\ outcome' = "stopped"
      /\ UNCHANGED <<history, loop, request, finalAsked, nudged, retries, executed>>
  BY DEF GuardStops, Finish
<1>2. sawTool' \in BOOLEAN /\ roRepeat' \in Nat /\ SigsTypeOK'
  BY NoteRoundTypes DEF GuardStops
<1>3. TypeOK'
  <2>1. ControlTypeOK' /\ FlagsTypeOK' /\ ListsTypeOK'
    BY <1>1, <1>2 DEF IInv, TypeOK, ControlTypeOK, FlagsTypeOK, ListsTypeOK, Outcomes, request
  <2>2. CountersTypeOK'
    BY <1>1, <1>2 DEF IInv, TypeOK, CountersTypeOK, loop, request
  <2>. QED  BY <1>2, <2>1, <2>2 DEF TypeOK
<1>4. RoundsInStep' /\ LastSpeaker' /\ WellFormedHistory' /\ RequestFits' /\ ExitsCloseDoc'
      /\ RoundBudget'
  BY <1>1 DEF IInv, RoundsInStep, LastSpeaker, WellFormedHistory, RequestFits, ExitsCloseDoc,
              RoundBudget
<1>. QED  BY <1>3, <1>4 DEF IInv

\* The nudge appends the unanswered call and the note after it.
LEMMA NudgeIInv == ASSUME IInv, NEW sig \in Sigs, Nudge(sig) PROVE IInv'
<1>1. /\ pc = "stream" /\ pc' = "top" /\ nudged' = TRUE
      /\ history' = history \o <<Msg("call"), Msg("note")>>
      /\ UNCHANGED <<docOpen, outcome, loop, request, finalAsked, retries, executed>>
  BY DEF Nudge, NudgeMessages
<1>2. sawTool' \in BOOLEAN /\ roRepeat' \in Nat /\ SigsTypeOK'
  BY NoteRoundTypes DEF Nudge
<1>3. /\ history \in Seq(Message) /\ Paired(history)
      /\ LastKind(history, {"req", "note", "res"})
      /\ Msg("call") \in Message /\ Msg("call").kind = "call"
      /\ Msg("note") \in Message /\ Msg("note").kind = "note"
  BY <1>1, IInvFacts DEF Kinds
<1>4. Append(history, Msg("call")) \in Seq(Message) /\ Paired(Append(history, Msg("call")))
  BY <1>3, AppendKeepsPaired
<1>5. /\ history' \in Seq(Message) /\ Paired(history')
      /\ LastKind(history', {"req", "note", "res"})
  <2>. DEFINE a == Append(history, Msg("call"))
  <2>1. history' = Append(a, Msg("note"))
    BY <1>1, <1>3, AppendTwo
  <2>2. /\ Append(a, Msg("note")) \in Seq(Message) /\ Len(Append(a, Msg("note"))) = Len(a) + 1
        /\ Append(a, Msg("note"))[Len(a) + 1] = Msg("note") /\ Paired(Append(a, Msg("note")))
    BY <1>3, <1>4, AppendKeepsPaired
  <2>3. Len(a) \in Nat
    BY <1>4
  <2>. HIDE DEF a
  <2>. QED  BY <1>3, <2>1, <2>2, <2>3 DEF LastKind
<1>6. TypeOK'
  <2>1. ControlTypeOK' /\ FlagsTypeOK'
    BY <1>1, <1>2 DEF IInv, TypeOK, ControlTypeOK, FlagsTypeOK, request
  <2>2. CountersTypeOK'
    BY <1>1, <1>2 DEF IInv, TypeOK, CountersTypeOK, loop, request
  <2>3. ListsTypeOK'
    BY <1>1, <1>5 DEF IInv, TypeOK, ListsTypeOK
  <2>. QED  BY <1>2, <2>1, <2>2, <2>3 DEF TypeOK
<1>7. RoundsInStep' /\ RoundBudget'
  BY <1>1, ConstantsAssumption
     DEF IInv, TypeOK, FlagsTypeOK, CountersTypeOK, ListsTypeOK, RoundsInStep, Budget,
         RoundBudget, loop
<1>8. LastSpeaker' /\ RequestFits' /\ ExitsCloseDoc'
  BY <1>1, <1>5 DEF IInv, LastSpeaker, RequestFits, ExitsCloseDoc
<1>9. WellFormedHistory'
  BY <1>5 DEF WellFormedHistory, Paired
<1>. QED  BY <1>6, <1>7, <1>8, <1>9 DEF IInv

\* Starting the tools records the call and spends the round.
LEMMA RunToolsIInv == ASSUME IInv, NEW sig \in Sigs, RunTools(sig) PROVE IInv'
<1>1. /\ pc = "stream" /\ pc' = "tools" /\ history' = Append(history, Msg("call"))
      /\ executed' = Append(executed, sig)
      /\ UNCHANGED <<docOpen, outcome, loop, request, finalAsked, nudged, retries>>
  BY DEF RunTools
<1>2. sawTool' \in BOOLEAN /\ roRepeat' \in Nat /\ SigsTypeOK'
  BY NoteRoundTypes DEF RunTools
<1>3. /\ history \in Seq(Message) /\ Paired(history)
      /\ LastKind(history, {"req", "note", "res"})
      /\ Msg("call") \in Message /\ Msg("call").kind = "call"
  BY <1>1, IInvFacts DEF Kinds
<1>4. history' \in Seq(Message) /\ Paired(history') /\ LastKind(history', {"call"})
  BY <1>1, <1>3, AppendKeepsPaired DEF LastKind
<1>5. executed \in Seq(Sigs) /\ executed' \in Seq(Sigs) /\ Len(executed') = Len(executed) + 1
  BY <1>1 DEF IInv, TypeOK, ListsTypeOK
<1>6. TypeOK'
  <2>1. ControlTypeOK' /\ FlagsTypeOK'
    BY <1>1, <1>2 DEF IInv, TypeOK, ControlTypeOK, FlagsTypeOK, request
  <2>2. CountersTypeOK'
    BY <1>1, <1>2 DEF IInv, TypeOK, CountersTypeOK, loop, request
  <2>3. ListsTypeOK'
    BY <1>4, <1>5 DEF ListsTypeOK
  <2>. QED  BY <1>2, <2>1, <2>2, <2>3 DEF TypeOK
<1>7. RoundsInStep' /\ RoundBudget'
  BY <1>1, <1>5, ConstantsAssumption
     DEF IInv, TypeOK, FlagsTypeOK, CountersTypeOK, RoundsInStep, Budget, RoundBudget, loop
<1>8. LastSpeaker' /\ RequestFits' /\ ExitsCloseDoc'
  BY <1>1, <1>4 DEF IInv, LastSpeaker, RequestFits, ExitsCloseDoc
<1>9. WellFormedHistory'
  BY <1>4 DEF WellFormedHistory, Paired
<1>. QED  BY <1>6, <1>7, <1>8, <1>9 DEF IInv

\* The results answer the call that was recorded last.
LEMMA ToolsDoneIInv == ASSUME IInv, ToolsDone PROVE IInv'
<1>1. /\ pc = "tools" /\ pc' = "top" /\ history' = Append(history, Msg("res"))
      /\ UNCHANGED <<docOpen, outcome, loop, guards, request, executed>>
  BY DEF ToolsDone
<1>2. /\ history \in Seq(Message) /\ Paired(history) /\ LastKind(history, {"call"})
      /\ Msg("res") \in Message /\ Msg("res").kind = "res"
  BY <1>1, IInvFacts DEF Kinds
<1>3. /\ history' \in Seq(Message) /\ Paired(history')
      /\ LastKind(history', {"req", "note", "res"})
  BY <1>1, <1>2, AppendKeepsPaired DEF LastKind
<1>4. TypeOK'
  <2>1. ControlTypeOK' /\ FlagsTypeOK' /\ SigsTypeOK'
    BY <1>1 DEF IInv, TypeOK, ControlTypeOK, FlagsTypeOK, SigsTypeOK, guards, request
  <2>2. CountersTypeOK'
    BY <1>1 DEF IInv, TypeOK, CountersTypeOK, loop, guards, request
  <2>3. ListsTypeOK'
    BY <1>1, <1>3 DEF IInv, TypeOK, ListsTypeOK
  <2>. QED  BY <2>1, <2>2, <2>3 DEF TypeOK
<1>5. RoundsInStep' /\ RoundBudget'
  BY <1>1, ConstantsAssumption
     DEF IInv, TypeOK, FlagsTypeOK, CountersTypeOK, ListsTypeOK, RoundsInStep, Budget,
         RoundBudget, loop, guards
<1>6. LastSpeaker' /\ RequestFits' /\ ExitsCloseDoc'
  BY <1>1, <1>3 DEF IInv, LastSpeaker, RequestFits, ExitsCloseDoc
<1>7. WellFormedHistory'
  BY <1>3 DEF WellFormedHistory, Paired
<1>. QED  BY <1>4, <1>5, <1>6, <1>7 DEF IInv

\* Clearing empties the list and drops the document.
LEMMA ClearMessagesIInv == ASSUME IInv, ClearMessages PROVE IInv'
<1>1. /\ pc = "idle" /\ history' = <<>> /\ docOpen' = FALSE
      /\ UNCHANGED <<pc, outcome, loop, guards, request, executed>>
  BY DEF ClearMessages
<1>2. TypeOK'
  <2>1. ControlTypeOK' /\ FlagsTypeOK' /\ SigsTypeOK'
    BY <1>1 DEF IInv, TypeOK, ControlTypeOK, FlagsTypeOK, SigsTypeOK, guards, request
  <2>2. CountersTypeOK'
    BY <1>1 DEF IInv, TypeOK, CountersTypeOK, loop, guards, request
  <2>3. ListsTypeOK'
    BY <1>1 DEF IInv, TypeOK, ListsTypeOK
  <2>. QED  BY <2>1, <2>2, <2>3 DEF TypeOK
<1>3. RoundsInStep' /\ LastSpeaker' /\ RequestFits' /\ ExitsCloseDoc' /\ RoundBudget'
  BY <1>1 DEF IInv, RoundsInStep, LastSpeaker, RequestFits, ExitsCloseDoc, RoundBudget
<1>4. WellFormedHistory'
  BY <1>1 DEF WellFormedHistory
<1>. QED  BY <1>2, <1>3, <1>4 DEF IInv

\* Every step of the loop, of the user and of the abort preserves the invariant.
LEMMA NextIInv == IInv /\ [Next]_vars => IInv'
<1>. SUFFICES ASSUME IInv, [Next]_vars PROVE IInv'
  OBVIOUS
<1>1. CASE Progress
  <2>1. CASE \E sig \in Sigs : GuardStops(sig) \/ Nudge(sig) \/ RunTools(sig)
    BY <2>1, GuardStopsIInv, NudgeIInv, RunToolsIInv
  <2>2. CASE Connected \/ ConnectFails \/ StreamFails
    BY <2>2, QuietIInv
  <2>. QED  BY <1>1, <2>1, <2>2, LoopTopIInv, ContextOverflowIInv, StreamTextIInv, ToolsDoneIInv
               DEF Progress, Respond
<1>2. CASE \E ev, large \in BOOLEAN : Begin(ev, large)
  BY <1>2, BeginIInv
<1>3. CASE Abort
  BY <1>3, QuietIInv
<1>4. CASE UNCHANGED vars
  <2>1. UNCHANGED <<pc, turn, history, docOpen, outcome, anchor, preserve, evidence, rounds,
                    overflow, finalAsked, nudged, roRepeat, prevSig, seenSigs, retries, sawTool,
                    executed>>
    BY <1>4 DEF vars, loop, guards, request
  <2>2. TypeOK'
    BY <2>1 DEF IInv, TypeOK, ControlTypeOK, FlagsTypeOK, CountersTypeOK, ListsTypeOK, SigsTypeOK
  <2>3. RoundsInStep' /\ LastSpeaker' /\ WellFormedHistory' /\ RequestFits' /\ ExitsCloseDoc'
        /\ RoundBudget'
    BY <2>1 DEF IInv, RoundsInStep, Budget, LastSpeaker, LastKind, WellFormedHistory,
                RequestFits, ExitsCloseDoc, RoundBudget
  <2>. QED  BY <2>2, <2>3 DEF IInv
<1>. QED  BY <1>1, <1>2, <1>3, <1>4, BeginPanicsIInv, BuiltinReplyIInv, ClearMessagesIInv DEF Next

\* The invariant holds in every reachable state.
LEMMA Invariance == Spec => []IInv
BY InitIInv, NextIInv, PTL DEF Spec

-----------------------------------------------------------------------------
(***************************************************************************)
(* Read loops.  ReadLoopsAreCut speaks of the rounds that ran; the guard   *)
(* decides from seenSigs and roRepeat.  RepeatsNoted relates them: what    *)
(* ran and is read-only was seen, and while the turn goes on a repeat that *)
(* ran last is still counted.  A text resets the count, but then the turn  *)
(* goes on only when no tool ran.                                          *)
(***************************************************************************)
RepeatsNoted ==
    /\ \A i \in DOMAIN executed : executed[i] \in ReadOnlySigs => executed[i] \in seenSigs
    /\ executed # <<>> => sawTool
    /\ pc # "idle" /\ executed # <<>> /\ RepeatsRead(Len(executed)) => roRepeat >= 1

LoopInv == ReadLoopsAreCut /\ RepeatsNoted

\* A step that leaves what the guard and the property look at alone.
LEMMA QuietLoopInv ==
    ASSUME LoopInv, UNCHANGED <<executed, seenSigs, sawTool, roRepeat>>,
           pc' # "idle" => pc # "idle"
    PROVE  LoopInv'
BY DEF LoopInv, ReadLoopsAreCut, RepeatsNoted, RepeatsRead

\* A turn starts with nothing run.
LEMMA BeginLoopInv ==
    ASSUME NEW ev, NEW large, Begin(ev, large)
    PROVE  LoopInv'
<1>1. executed' = <<>>
  BY DEF Begin
<1>. QED  BY <1>1 DEF LoopInv, ReadLoopsAreCut, RepeatsNoted

\* A text keeps the turn going only when no tool ran.
LEMMA StreamTextLoopInv == ASSUME LoopInv, StreamText PROVE LoopInv'
<1>1. UNCHANGED <<executed, seenSigs, sawTool>>
  BY DEF StreamText
<1>2. pc' # "idle" => ~sawTool
  BY DEF StreamText, NeedsEvidence, Finish
<1>3. pc' # "idle" => executed = <<>>
  BY <1>2 DEF LoopInv, RepeatsNoted
<1>. QED  BY <1>1, <1>3 DEF LoopInv, ReadLoopsAreCut, RepeatsNoted, RepeatsRead

\* A guard that stops the turn, and the nudge, run nothing; the nudge counts.
LEMMA UnrunLoopInv ==
    ASSUME TypeOK, LoopInv, NEW sig \in Sigs, GuardStops(sig) \/ Nudge(sig)
    PROVE  LoopInv'
<1>1. /\ executed' = executed /\ seenSigs \subseteq seenSigs' /\ sawTool' = TRUE
      /\ roRepeat' = RepeatCount(sig)
  BY DEF GuardStops, Nudge, NoteRound
<1>2. pc' # "idle" => roRepeat' >= 1
  <2>1. CASE GuardStops(sig)
    BY <2>1 DEF GuardStops, Finish
  <2>2. CASE Nudge(sig)
    <3>1. RepeatCount(sig) \in Nat
      BY DEF TypeOK, CountersTypeOK, RepeatCount
    <3>2. RepeatCount(sig) >= RepeatThreshold(sig)
      BY <2>2 DEF Nudge, ReadRepeated
    <3>3. RepeatThreshold(sig) = 1 \/ RepeatThreshold(sig) = 2
      BY DEF RepeatThreshold
    <3>. QED  BY <1>1, <3>1, <3>2, <3>3
  <2>. QED  BY <2>1, <2>2
<1>. QED  BY <1>1, <1>2 DEF LoopInv, ReadLoopsAreCut, RepeatsNoted, RepeatsRead

\* A round that runs is no repeat, or it is the first after one that is none.
LEMMA RunToolsLoopInv ==
    ASSUME TypeOK, LoopInv, NEW sig \in Sigs, RunTools(sig)
    PROVE  LoopInv'
<1>1. executed \in Seq(Sigs) /\ roRepeat \in Nat
  BY DEF TypeOK, ListsTypeOK, CountersTypeOK
<1>2. PICK n \in Nat : n = Len(executed)
  BY <1>1
<1>3. /\ pc = "stream" /\ executed' = Append(executed, sig) /\ sawTool' = TRUE
      /\ roRepeat' = RepeatCount(sig)
      /\ seenSigs' = seenSigs \cup ({sig} \cap ReadOnlySigs)
  BY DEF RunTools, NoteRound
<1>4. /\ Len(executed') = n + 1 /\ DOMAIN executed' = 1 .. (n + 1)
      /\ executed'[n + 1] = sig /\ \A i \in 1 .. n : executed'[i] = executed[i]
      /\ DOMAIN executed = 1 .. n /\ executed' # <<>>
      /\ executed = <<>> => n = 0
  BY <1>1, <1>2, <1>3
<1>5. \A i \in 1 .. n : RepeatsRead(i)' <=> RepeatsRead(i)
  <2>. SUFFICES ASSUME NEW i \in 1 .. n PROVE RepeatsRead(i)' <=> RepeatsRead(i)
    OBVIOUS
  <2>1. \A j \in 1 .. (i - 1) : j \in 1 .. n
    BY <1>2
  <2>. QED  BY <1>4, <2>1 DEF RepeatsRead
<1>6. DOMAIN executed = 1 .. n /\ RepeatsNoted /\ ReadLoopsAreCut
  BY <1>4 DEF LoopInv
<1>7. \A i \in 1 .. n : executed[i] \in ReadOnlySigs => executed[i] \in seenSigs
  BY <1>6, Zenon DEF RepeatsNoted
<1>8. \A i \in 1 .. n : RepeatsRead(i) => ~Local /\ (i = 1 \/ ~RepeatsRead(i - 1))
  BY <1>6, Zenon DEF ReadLoopsAreCut
<1>9. ASSUME RepeatsRead(n + 1)'
      PROVE  sig \in ReadOnlySigs /\ sig \in seenSigs
  <2>1. PICK j \in 1 .. n : executed[j] = sig
    <3>1. \E j \in 1 .. ((n + 1) - 1) : executed'[j] = executed'[n + 1]
      BY <1>9 DEF RepeatsRead
    <3>2. (n + 1) - 1 = n
      BY <1>2
    <3>. QED  BY <1>4, <3>1, <3>2
  <2>2. sig \in ReadOnlySigs
    BY <1>4, <1>9 DEF RepeatsRead
  <2>. QED  BY <1>7, <2>1, <2>2
<1>10. RepeatCount(sig) < RepeatThreshold(sig)
  <2>1. RepeatCount(sig) \in Nat
    BY <1>1 DEF RepeatCount
  <2>2. RepeatThreshold(sig) \in {1, 2}
    BY DEF RepeatThreshold
  <2>. QED  BY <2>1, <2>2 DEF RunTools, ReadRepeated
<1>11. ASSUME RepeatsRead(n + 1)'
      PROVE  ~Local /\ roRepeat = 0 /\ roRepeat' = 1
  <2>1. RepeatCount(sig) = roRepeat + 1
    BY <1>9, <1>11 DEF RepeatCount
  <2>2. ~Local /\ RepeatThreshold(sig) = 2
    BY <1>1, <1>10, <2>1 DEF RepeatThreshold
  <2>. QED  BY <1>1, <1>3, <1>10, <2>1, <2>2
<1>12. ReadLoopsAreCut'
  <2>. SUFFICES ASSUME NEW i \in 1 .. (n + 1), RepeatsRead(i)'
                PROVE  ~Local /\ (i = 1 \/ ~RepeatsRead(i - 1)')
    BY <1>4 DEF ReadLoopsAreCut
  <2>1. CASE i \in 1 .. n
    <3>1. ~Local /\ (i = 1 \/ ~RepeatsRead(i - 1))
      BY <1>5, <1>8, <2>1
    <3>2. i = 1 \/ i - 1 \in 1 .. n
      BY <1>2, <2>1
    <3>. QED  BY <1>5, <3>1, <3>2
  <2>2. CASE i = n + 1
    <3>1. ~Local /\ roRepeat = 0
      BY <1>11, <2>2
    <3>2. n = 0 \/ ~RepeatsRead(n)
      BY <1>2, <1>3, <1>4, <3>1 DEF LoopInv, RepeatsNoted
    <3>3. i - 1 = n
      BY <1>2, <2>2
    <3>4. n = 0 \/ n \in 1 .. n
      BY <1>2
    <3>. QED  BY <1>5, <2>2, <3>1, <3>2, <3>3, <3>4
  <2>. QED  BY <1>2, <2>1, <2>2
<1>13. RepeatsNoted'
  <2>1. \A i \in 1 .. (n + 1) : executed'[i] \in ReadOnlySigs => executed'[i] \in seenSigs'
    <3>. SUFFICES ASSUME NEW i \in 1 .. (n + 1), executed'[i] \in ReadOnlySigs
                  PROVE  executed'[i] \in seenSigs'
      OBVIOUS
    <3>1. CASE i \in 1 .. n
      BY <1>3, <1>4, <3>1 DEF LoopInv, RepeatsNoted
    <3>2. CASE i = n + 1
      BY <1>3, <1>4, <3>2
    <3>. QED  BY <1>2, <3>1, <3>2
  <2>2. RepeatsRead(Len(executed))' => roRepeat' >= 1
    BY <1>4, <1>11
  <2>. QED  BY <1>3, <1>4, <2>1, <2>2 DEF RepeatsNoted
<1>. QED  BY <1>12, <1>13 DEF LoopInv

\* Every step preserves the relation between the rounds and the guard.
LEMMA NextLoopInv == TypeOK /\ LoopInv /\ [Next]_vars => LoopInv'
<1>. SUFFICES ASSUME TypeOK, LoopInv, [Next]_vars PROVE LoopInv'
  OBVIOUS
<1>1. CASE \E sig \in Sigs : GuardStops(sig) \/ Nudge(sig) \/ RunTools(sig)
  BY <1>1, UnrunLoopInv, RunToolsLoopInv
<1>2. CASE StreamText
  BY <1>2, StreamTextLoopInv
<1>3. CASE \E ev, large \in BOOLEAN : Begin(ev, large)
  BY <1>3, BeginLoopInv
<1>4. CASE LoopTop \/ Connected \/ ContextOverflow \/ ConnectFails \/ StreamFails \/ ToolsDone
  <2>1. UNCHANGED <<executed, seenSigs, sawTool, roRepeat>> /\ pc # "idle"
    BY <1>4 DEF LoopTop, Connected, ContextOverflow, ConnectFails, StreamFails, ToolsDone,
                guards, request
  <2>. QED  BY <2>1, QuietLoopInv
<1>5. CASE BeginPanics \/ BuiltinReply \/ Abort \/ ClearMessages \/ UNCHANGED vars
  <2>1. UNCHANGED <<executed, seenSigs, sawTool, roRepeat>> /\ (pc' = "idle" \/ pc' = pc)
    BY <1>5 DEF BeginPanics, BuiltinReply, Abort, ClearMessages, vars, guards
  <2>. QED  BY <2>1, QuietLoopInv
<1>. QED  BY <1>1, <1>2, <1>3, <1>4, <1>5 DEF Next, Progress, Respond

-----------------------------------------------------------------------------
(***************************************************************************)
(* The handoff.  With a handoff that keeps one turn the request is all     *)
(* that is left when the loop starts, so the anchor, which the handoff     *)
(* does not adjust, is put right by the first pruning and stays 0.         *)
(***************************************************************************)
KeepsOneTurn == ~CompactionEnabled \/ KeepRecent = 1

AnchorInv ==
    preserve /\ pc # "idle" =>
        \/ anchor = 0
        \/ pc = "top" /\ Len(history) = 1

\* The keep-th user text from the end is the last one when keep is 1.
LEMMA LastUserText ==
    ASSUME NEW h \in Seq(Message), Len(h) > 0, h[Len(h)].kind = "req"
    PROVE  SummaryBoundary(h, 1) = Len(h) - 1
<1>. DEFINE last == Len(h) - 1
            texts == {i \in 0 .. (Len(h) - 1) : IsUserText(h, i)}
            kept(i) == {j \in texts : j >= i}
            at == {i \in texts : Cardinality(kept(i)) = 1}
<1>1. Len(h) \in Nat /\ last \in texts
  BY DEF IsUserText
<1>2. kept(last) = {last}
  BY <1>1
<1>3. last \in at
  BY <1>1, <1>2, FS_Singleton
<1>4. ASSUME NEW i \in at PROVE i = last
  <2>1. kept(i) \subseteq texts /\ texts \subseteq 0 .. (Len(h) - 1)
    OBVIOUS
  <2>2. IsFiniteSet(kept(i)) /\ Cardinality(kept(i)) = 1
    <3>1. 0 \in Int /\ Len(h) - 1 \in Int
      BY <1>1
    <3>2. IsFiniteSet(0 .. (Len(h) - 1))
      BY <3>1, FS_Interval
    <3>3. kept(i) \in SUBSET (0 .. (Len(h) - 1))
      BY <2>1
    <3>. QED  BY <3>2, <3>3, FS_Subset
  <2>3. PICK x : kept(i) = {x}
    BY <2>2, FS_Singleton
  <2>4. i \in kept(i) /\ last \in kept(i)
    BY <1>1
  <2>. QED  BY <2>3, <2>4
<1>5. SummaryBoundary(h, 1) = IF at = {} THEN 0 ELSE CHOOSE i \in at : TRUE
  BY DEF SummaryBoundary
<1>. HIDE DEF at
<1>6. (CHOOSE i \in at : TRUE) \in at
  BY <1>3
<1>. QED  BY <1>3, <1>4, <1>5, <1>6

\* When the handoff removes anything, only the request stays.
LEMMA HandoffLeavesRequest ==
    ASSUME KeepsOneTurn, NEW ev \in BOOLEAN, NEW large \in BOOLEAN,
           NEW h \in Seq(Message), Len(h) > 0, h[Len(h)].kind = "req",
           ProactivelyRemoved(ev, large, h) > 0
    PROVE  ProactivelyRemoved(ev, large, h) = Len(h) - 1
<1>1. CASE ForcesHandoff(ev, h) \/ (CompactionOn(ev) /\ large)
  <2>1. CompactionKeep(ev) = 1
    BY <1>1 DEF ForcesHandoff, CompactionOn, CompactionKeep, KeepsOneTurn
  <2>2. SummaryBoundary(h, 1) = Len(h) - 1
    BY LastUserText
  <2>. QED  BY <1>1, <2>1, <2>2 DEF ProactivelyRemoved
<1>2. CASE ~(ForcesHandoff(ev, h) \/ (CompactionOn(ev) /\ large))
  <2>1. ProactivelyRemoved(ev, large, h) = 0
    BY <1>2 DEF ProactivelyRemoved
  <2>. QED  BY <2>1
<1>. QED  BY <1>1, <1>2

\* Anchored on the first message, the overflow compaction removes nothing.
LEMMA CompactFromFirst ==
    ASSUME NEW h \in Seq(Message), Len(h) > 0, NEW keep \in Nat \ {0}
    PROVE  CompactHistory(h, keep, 0) = h /\ CompactAnchor(h, keep, 0) = 0
<1>0. Len(h) \in Nat
  OBVIOUS
<1>1. CASE Len(h) <= keep
  BY <1>0, <1>1 DEF CompactHistory, CompactAnchor, AtMost
<1>2. CASE Len(h) > keep
  <2>1. CompactStart(h, keep, 0) = 0
    BY <1>2 DEF CompactStart, Monus, AtMost
  <2>2. CompactAnchor(h, keep, 0) = 0
    BY <1>2, <2>1 DEF CompactAnchor, Monus, AtMost
  <2>3. /\ DropFirst(h, 0) \in Seq(Message) /\ Len(DropFirst(h, 0)) = Len(h) - 0
        /\ \A i \in 1 .. (Len(h) - 0) : DropFirst(h, 0)[i] = h[i + 0]
    <3>1. 0 \in 0 .. Len(h)
      BY <1>2
    <3>. QED  BY <3>1, DropFirstProperties
  <2>4. DropFirst(h, 0) = h
    BY <2>3, SeqEqual
  <2>. QED  BY <1>2, <2>1, <2>2, <2>4 DEF CompactHistory
<1>. QED  BY <1>1, <1>2

\* The anchor names the first message from the first pruning on.
LEMMA NextAnchorInv == KeepsOneTurn /\ IInv /\ AnchorInv /\ [Next]_vars => AnchorInv'
<1>. SUFFICES ASSUME KeepsOneTurn, IInv, AnchorInv, [Next]_vars PROVE AnchorInv'
  OBVIOUS
<1>1. history \in Seq(Message) /\ turn \in Nat /\ anchor \in Nat /\ MaxApi \in Nat /\ MaxApi >= 4
  BY IInvFacts, ConstantsAssumption DEF IInv, TypeOK, CountersTypeOK
<1>2. ASSUME NEW ev \in BOOLEAN, NEW large \in BOOLEAN, Begin(ev, large) PROVE AnchorInv'
  <2>. DEFINE asked == Append(history, Request(turn + 1))
              removed == ProactivelyRemoved(ev, large, asked)
  <2>1. history' = DropFirst(asked, removed) /\ preserve' = (removed > 0) /\ pc' = "top"
    BY <1>2 DEF Begin
  <2>2. Request(turn + 1) \in Message /\ Request(turn + 1).kind = "req"
    BY <1>1, MessageType
  <2>3. /\ asked \in Seq(Message) /\ Len(asked) = Len(history) + 1 /\ Len(asked) > 0
        /\ asked[Len(asked)] = Request(turn + 1)
    BY <1>1, <2>2
  <2>. HIDE DEF asked
  <2>4. ASSUME removed > 0 PROVE Len(history') = 1
    <3>1. removed = Len(asked) - 1
      BY <2>2, <2>3, <2>4, HandoffLeavesRequest
    <3>2. removed \in 0 .. Len(asked)
      BY <1>1, <2>3, <3>1
    <3>3. Len(DropFirst(asked, removed)) = Len(asked) - removed
      BY <2>3, <3>2, DropFirstProperties
    <3>. QED  BY <1>1, <2>1, <2>3, <3>1, <3>3
  <2>. HIDE DEF removed
  <2>. QED  BY <2>1, <2>4 DEF AnchorInv
<1>3. CASE LoopTop
  <2>1. /\ pc = "top" /\ anchor' = PruneAnchor(history, MaxApi, anchor)
        /\ preserve' = preserve
    BY <1>3 DEF LoopTop, request
  <2>2. Len(history) > 0
    BY <2>1, IInvFacts DEF LastKind
  <2>3. CASE anchor = 0
    <3>1. PruneStart(history, MaxApi, 0) \in Nat \/ Len(history) <= MaxApi
      BY <1>1, PruneStartRange
    <3>2. Len(history) \in Nat
      BY <1>1
    <3>3. PruneAnchor(history, MaxApi, 0) = 0
      <4>1. CASE Len(history) <= MaxApi
        <5>1. AtMost(0, Len(history) - 1) = 0
          BY <2>2, <3>2 DEF AtMost
        <5>. QED  BY <2>2, <4>1, <5>1 DEF PruneAnchor
      <4>2. CASE ~(Len(history) <= MaxApi)
        <5>1. Monus(0, PruneStart(history, MaxApi, 0)) = 0
          BY <3>1, <4>2 DEF Monus
        <5>. QED  BY <2>2, <3>2, <4>2, <5>1 DEF PruneAnchor
      <4>. QED  BY <4>1, <4>2
    <3>. QED  BY <2>1, <2>3, <3>3 DEF AnchorInv
  <2>4. CASE Len(history) = 1
    BY <1>1, <2>1, <2>4 DEF AnchorInv, PruneAnchor, AtMost
  <2>. QED  BY <2>1, <2>3, <2>4 DEF AnchorInv
<1>4. CASE ContextOverflow
  <2>1. /\ pc = "connect" /\ preserve' = preserve
        /\ preserve => anchor' = CompactAnchor(history, OverflowKeep(overflow), anchor)
    BY <1>4 DEF ContextOverflow, request
  <2>2. Len(history) > 0
    BY <2>1, IInvFacts DEF LastKind
  <2>3. OverflowKeep(overflow) \in Nat \ {0}
    BY DEF IInv, TypeOK, CountersTypeOK, OverflowKeep
  <2>. QED  BY <1>1, <2>1, <2>2, <2>3, CompactFromFirst DEF AnchorInv
<1>5. CASE Connected \/ ConnectFails \/ StreamFails \/ ToolsDone \/ Abort \/ StreamText
           \/ \E sig \in Sigs : GuardStops(sig) \/ Nudge(sig) \/ RunTools(sig)
  <2>1. UNCHANGED <<anchor, preserve>> /\ pc \in {"connect", "stream", "tools"}
    BY <1>5 DEF Connected, ConnectFails, StreamFails, ToolsDone, Abort, StreamText, GuardStops,
                Nudge, RunTools, request, loop
  <2>. QED  BY <2>1 DEF AnchorInv
<1>6. CASE BeginPanics \/ BuiltinReply \/ ClearMessages
  <2>1. pc' = "idle"
    BY <1>6 DEF BeginPanics, BuiltinReply, ClearMessages
  <2>. QED  BY <2>1 DEF AnchorInv
<1>7. CASE UNCHANGED vars
  BY <1>7 DEF vars, loop, request, AnchorInv
<1>. QED  BY <1>2, <1>3, <1>4, <1>5, <1>6, <1>7 DEF Next, Progress, Respond

\* So an overflow retry after such a handoff removes nothing.
LEMMA RetryStep ==
    IInv /\ AnchorInv /\ [Next]_vars =>
        [ContextOverflow /\ preserve /\ InHistory(Request(turn)) => InHistory(Request(turn))']_vars
<1>. SUFFICES ASSUME IInv, AnchorInv, ContextOverflow, preserve, InHistory(Request(turn))
              PROVE  InHistory(Request(turn))'
  OBVIOUS
<1>1. /\ pc = "connect" /\ turn' = turn
      /\ history' = CompactHistory(history, OverflowKeep(overflow), anchor)
  BY DEF ContextOverflow, request
<1>2. history \in Seq(Message) /\ Len(history) > 0
  BY <1>1, IInvFacts DEF LastKind
<1>3. OverflowKeep(overflow) \in Nat \ {0}
  BY DEF IInv, TypeOK, CountersTypeOK, OverflowKeep
<1>4. anchor = 0
  BY <1>1 DEF AnchorInv
<1>5. history' = history
  BY <1>1, <1>2, <1>3, <1>4, CompactFromFirst
<1>. QED  BY <1>1, <1>5 DEF InHistory, Request

-----------------------------------------------------------------------------
(* Theorems *)

\* The variables keep their types: in particular the round counter never
\* exceeds max_tool_rounds + 2 and at most three overflow retries follow each
\* other.
THEOREM TypeCorrect == Spec => []TypeOK
<1>1. IInv => TypeOK
  BY DEF IInv
<1>. QED  BY <1>1, Invariance, PTL

\* No request exceeds max_api_messages by more than the final instruction.
THEOREM RequestsFit == Spec => []RequestFits
<1>1. IInv => RequestFits
  BY DEF IInv
<1>. QED  BY <1>1, Invariance, PTL

\* Tool results stay with their calls and speakers alternate, for every
\* window size, however turns are pruned, compacted, aborted and continued.
THEOREM HistoryWellFormed == Spec => []WellFormedHistory
<1>1. IInv => WellFormedHistory
  BY DEF IInv
<1>. QED  BY <1>1, Invariance, PTL

\* Only an aborted turn leaves the task document open.
THEOREM DocumentClosed == Spec => []ExitsCloseDoc
<1>1. IInv => ExitsCloseDoc
  BY DEF IInv
<1>. QED  BY <1>1, Invariance, PTL

\* A turn runs at most max_tool_rounds + 1 tool rounds.
THEOREM RoundsBounded == Spec => []RoundBudget
<1>1. IInv => RoundBudget
  BY DEF IInv
<1>. QED  BY <1>1, Invariance, PTL

\* The repeat guard cuts read loops in every turn, whatever the endpoint and
\* the limits: a local turn runs no read-only round twice, a remote one never
\* runs two repeats in a row.
THEOREM ReadLoopsCut == Spec => []ReadLoopsAreCut
<1>1. Init => LoopInv
  BY DEF Init, LoopInv, ReadLoopsAreCut, RepeatsNoted
<1>2. IInv => TypeOK
  BY DEF IInv
<1>3. LoopInv => ReadLoopsAreCut
  BY DEF LoopInv
<1>. QED  BY <1>1, <1>2, <1>3, NextLoopInv, Invariance, PTL DEF Spec

\* After a handoff that keeps one turn (the forced local one always does) no
\* overflow retry drops the current request.  KeepsOneTurn is needed: when the
\* configured compaction keeps more turns than fit the window, the anchor is
\* left behind the request and a retry can drop it.
THEOREM RetryKeeps == KeepsOneTurn /\ Spec => RetryKeepsRequest
<1>1. Init => AnchorInv
  BY DEF Init, AnchorInv
<1>2. SUFFICES ASSUME KeepsOneTurn PROVE Spec => RetryKeepsRequest
  OBVIOUS
<1>3. IInv /\ AnchorInv /\ [Next]_vars => AnchorInv'
  BY <1>2, NextAnchorInv
<1>. QED  BY <1>1, <1>3, RetryStep, Invariance, PTL DEF Spec, RetryKeepsRequest

=============================================================================
