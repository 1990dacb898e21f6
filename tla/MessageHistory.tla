--------------------------- MODULE MessageHistory ---------------------------
(***************************************************************************)
(* The list algorithms of src/state/conversation/history.rs: how the list  *)
(* of API messages (`api_messages`) is shortened before a request and      *)
(* after the server reports a context overflow.                            *)
(*                                                                         *)
(* A message is a record; its `kind` is all that the algorithms look at:   *)
(*   "req"   a user request            "note"  an instruction the loop     *)
(*   "say"   an assistant text                 injects with role user      *)
(*   "call"  an assistant message      "res"   the user message with the   *)
(*           with tool calls                   results of a tool round     *)
(* Message texts, and the passes that only shorten texts                   *)
(* (condense_old_tool_results, truncate_for_history), are abstracted.      *)
(* Indices are the code's: zero-based, so message i is h[i + 1].           *)
(***************************************************************************)
EXTENDS Integers, Sequences, FiniteSets

Kinds == {"req", "note", "say", "call", "res"}

\* usize::saturating_sub, min and max.
Monus(a, b) == IF a > b THEN a - b ELSE 0
AtMost(a, b) == IF a < b THEN a ELSE b
AtLeast(a, b) == IF a > b THEN a ELSE b

\* role == "user" && !message_contains_tool_result(message)
IsUserText(h, i) == h[i + 1].kind \in {"req", "note"}

\* The `while keep_start < len` scan: the first user text at or after `start`,
\* Len(h) when there is none.
SeekUserText(h, start) ==
    IF \E i \in start .. (Len(h) - 1) : IsUserText(h, i)
    THEN CHOOSE i \in start .. (Len(h) - 1) :
            /\ IsUserText(h, i)
            /\ \A j \in start .. (i - 1) : ~IsUserText(h, j)
    ELSE Len(h)

\* Vec::drain(0..k): the messages from index k on remain.
DropFirst(h, k) == SubSeq(h, k + 1, Len(h))

-----------------------------------------------------------------------------
(* prune_message_history_preserving(max, p): at most max messages remain.   *)
(* An anchor p that lies one or two messages outside the window skips the   *)
(* scan for a user text, and the clamp then cuts at the window's edge.      *)

\* Mutant: the clamp to the window's edge is missing (the defect of PR #432).
PruneStart_NoClamp(h, max, p) ==
    LET target == Monus(Len(h), max)
    IN  IF p < target /\ Monus(target, p) <= 2 THEN p
        ELSE AtMost(SeekUserText(h, target), Len(h) - 1)

PruneStart(h, max, p) ==
    LET n          == Len(h)
        target     == Monus(n, max)
        keepAnchor == p < target /\ Monus(target, p) <= 2
        fallback   == IF keepAnchor THEN p ELSE target
        sought     == IF keepAnchor THEN p ELSE SeekUserText(h, target)
        clamped    == AtLeast(sought, target)
    IN  IF clamped >= n THEN AtMost(fallback, n - 1) ELSE clamped

PruneHistory(h, max, p) ==
    IF Len(h) <= max THEN h ELSE DropFirst(h, PruneStart(h, max, p))

PruneAnchor(h, max, p) ==
    IF Len(h) = 0 THEN 0
    ELSE IF Len(h) <= max THEN AtMost(p, Len(h) - 1)
    ELSE Monus(p, PruneStart(h, max, p))

-----------------------------------------------------------------------------
(* compact_for_context_overflow_preserving(keep, p): keep the last `keep`   *)
(* messages, or everything from the anchor p on when p is older than that.  *)

\* Mutant: the scan starts at the window and ignores the anchor.
CompactStart_NoAnchor(h, keep, p) ==
    AtMost(SeekUserText(h, Monus(Len(h), keep)), Len(h) - 1)

CompactStart(h, keep, p) ==
    LET n          == Len(h)
        target     == Monus(n, keep)
        q          == AtMost(p, n - 1)
        keepAnchor == q < target
        fallback   == IF keepAnchor THEN q ELSE target
        sought     == IF keepAnchor THEN q ELSE SeekUserText(h, target)
    IN  IF sought >= n THEN AtMost(fallback, n - 1) ELSE sought

CompactHistory(h, keep, p) ==
    IF Len(h) <= keep THEN h ELSE DropFirst(h, CompactStart(h, keep, p))

CompactAnchor(h, keep, p) ==
    IF Len(h) = 0 THEN 0
    ELSE IF Len(h) <= keep THEN AtMost(p, Len(h) - 1)
    ELSE Monus(AtMost(p, Len(h) - 1), CompactStart(h, keep, p))

-----------------------------------------------------------------------------
(* compact_with_summary(keep): the index of the keep-th user text counted   *)
(* from the end, 0 when there are fewer; what precedes it is removed.       *)

SummaryBoundary(h, keep) ==
    LET userTexts == {i \in 0 .. (Len(h) - 1) : IsUserText(h, i)}
        kept(i)   == {j \in userTexts : j >= i}
        at        == {i \in userTexts : Cardinality(kept(i)) = keep}
    IN  IF at = {} THEN 0 ELSE CHOOSE i \in at : TRUE
=============================================================================
