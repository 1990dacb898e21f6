------------------------------ MODULE FilePicker ------------------------------
(***************************************************************************)
(* What the composer's two pickers offer: the workspace entries that match *)
(* the `@` mention under the cursor and the commands that match a `/` word,*)
(* and the window of them that is drawn.  Pure functions of the text.      *)
(*                                                                         *)
(* Abstractions.  Text is a sequence of characters; letters have no case.  *)
(* The workspace is a set of files; the entry cache is its listing.        *)
(***************************************************************************)
EXTENDS Integers, Sequences, FiniteSets, SequencesExt

CONSTANTS
    WorkspaceFiles,     \* set of paths, each a sequence of characters
    Alphabet,           \* the characters in sorting order
    ExcludedDirs,       \* .git/, target/, node_modules/
    MaxCandidates,      \* MAX_FILE_PROMPT_MATCH_CANDIDATES
    OverlayVisible,     \* MAX_PICKER_OVERLAY_VISIBLE
    TableWords,         \* the words of SLASH_COMMANDS, in order
    CustomWords,        \* the custom commands, in order
    TableRows,          \* rows offered from the table (6)
    CustomRows          \* rows offered from the custom commands (3)

ASSUME PickerAssumption ==
    /\ MaxCandidates \in Nat \ {0}
    /\ OverlayVisible \in Nat \ {0}
    /\ TableRows \in Nat /\ CustomRows \in Nat

Least(a, b) == IF a < b THEN a ELSE b
Most(a, b) == IF a > b THEN a ELSE b
Less0(a, b) == Most(a - b, 0)                   \* saturating_sub
Take(s, n) == SubSeq(s, 1, Least(n, Len(s)))
Holds(s, part) ==
    \E i \in 0 .. Len(s) - Len(part) : SubSeq(s, i + 1, i + Len(part)) = part

CharOrder(c) == CHOOSE i \in 1 .. Len(Alphabet) : Alphabet[i] = c
PathLess(p, q) ==
    \/ IsStrictPrefix(p, q)
    \/ \E i \in 1 .. Least(Len(p), Len(q)) :
        /\ Take(p, i - 1) = Take(q, i - 1)
        /\ CharOrder(p[i]) < CharOrder(q[i])

Sorted(S, Before(_, _)) ==
    LET placed == {<<Cardinality({q \in S : Before(q, p)}), p>> : p \in S}
    IN  SubSeq([i \in 1 .. Cardinality(S) |-> (CHOOSE t \in placed : t[1] = i - 1)[2]],
               1, Cardinality(S))

\* The positions of the slashes of a path, and the path cut after one of them.
Slashes(p) == {i \in 1 .. Len(p) : p[i] = "/"}

\* cached_file_prompt_entries: the files that are not excluded and every
\* directory above one of them, written with a trailing slash.
FilePromptEntries ==
    LET kept == {f \in WorkspaceFiles : ~\E d \in ExcludedDirs : IsPrefix(d, f)}
    IN  kept \cup UNION {{Take(f, i) : i \in Slashes(f)} : f \in kept}

\* The segments of a path; `file_name` is the last one that is not empty.
Segments(p) ==
    LET cuts == {0, Len(p) + 1} \cup Slashes(p)
    IN  {SubSeq(p, a + 1, b - 1) : <<a, b>> \in
            {ab \in cuts \X cuts : ab[1] < ab[2] /\ ~\E c \in cuts : ab[1] < c /\ c < ab[2]}}
Basename(p) ==
    LET body == IF p[Len(p)] = "/" THEN Front(p) ELSE p
        cut == CHOOSE i \in {0} \cup Slashes(body) : \A j \in Slashes(body) : j <= i
    IN  SubSeq(body, cut + 1, Len(body))

\* score_file_prompt_entry: <<rank, length>>, or <<>> when the entry does not
\* match.
ScoreFilePromptEntry(p, needle) ==
    LET base == Basename(p)
        starts == {s \in Segments(p) : IsPrefix(needle, s)}
    IN  CASE needle = <<>> -> <<0, 0>>
          [] needle # <<>> /\ base = needle -> <<0, Len(base)>>
          [] needle # <<>> /\ base # needle /\ p = needle -> <<1, Len(p)>>
          [] needle # <<>> /\ base # needle /\ p # needle ->
                IF IsPrefix(needle, base) THEN <<2, Len(base)>>
                ELSE IF starts # {}
                     THEN <<3, CHOOSE n \in {Len(s) : s \in starts} :
                                    \A s \in starts : n <= Len(s)>>
                ELSE IF IsPrefix(needle, p) THEN <<4, Len(p)>>
                ELSE IF Holds(base, needle) THEN <<5, Len(base)>>
                ELSE IF Holds(p, needle) THEN <<6, Len(p)>>
                ELSE <<>>

\* The bounded heap keeps the MaxCandidates best; they are listed by rank,
\* then length, then path.
RankedMatches(needle) ==
    LET scored == {<<ScoreFilePromptEntry(p, needle), p>> : p \in FilePromptEntries}
        better(x, y) ==
            \/ x[1][1] < y[1][1]
            \/ x[1][1] = y[1][1] /\ x[1][2] < y[1][2]
            \/ x[1] = y[1] /\ PathLess(x[2], y[2])
        ranked == Take(Sorted({x \in scored : x[1] # <<>>}, better), MaxCandidates)
    IN  [i \in DOMAIN ranked |-> ranked[i][2]]

\* directory_filtered_children: what lies directly below `dir`.
DirectoryChildren(dir, filter) ==
    LET child(p) ==
            LET cuts == {i \in Slashes(p) : i > Len(dir)}
            IN  IF cuts = {} THEN p ELSE Take(p, CHOOSE i \in cuts : \A j \in cuts : i <= j)
        name(p) == SubSeq(child(p), Len(dir) + 1, Len(child(p)))
    IN  Sorted({child(p) : p \in {q \in FilePromptEntries :
                        IsStrictPrefix(dir, q) /\ Holds(name(q), filter)}}, PathLess)

\* file_prompt_matches_with_total: with a slash in the needle the children of
\* that directory, otherwise the ranked entries of the whole workspace.
FilePromptMatches(needle) ==
    LET cuts == Slashes(needle)
        cut == CHOOSE i \in cuts : \A j \in cuts : j <= i
    IN  IF cuts = {}
        THEN RankedMatches(needle)
        ELSE DirectoryChildren(Take(needle, cut), SubSeq(needle, cut + 1, Len(needle)))

\* slash_picker_matches: what Enter puts into the composer for each row.
SlashPickerMatches(token) ==
    LET offered(words, rows) ==
            LET found == Take(SelectSeq(words, LAMBDA w : IsPrefix(token, w)), rows)
            IN  [i \in DOMAIN found |-> Append(found[i], " ")]
    IN  offered(TableWords, TableRows) \o offered(CustomWords, CustomRows)

\* build_file_overlay and build_slash_overlay: the first and the last of the
\* rows that are drawn, the rows counted from 0.
OverlayWindow(count, selected) ==
    LET window == Least(OverlayVisible, count)
        start == Least(Less0(Least(selected, count - 1), window \div 2), count - window)
    IN  <<start, Least(start + window, count) - 1>>

\* The row drawn with the marker.
OverlayMarked(count, selected) == Least(selected, Less0(count, 1))
=============================================================================
