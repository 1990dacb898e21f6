---------------------------- MODULE InputComposer -----------------------------
(***************************************************************************)
(* The composer of the managed TUI: the line editor with its undo stack    *)
(* and input history, the `@` and `/` pickers laid over it, and the        *)
(* frontend's mapping of keys and pastes to them, which depends on what    *)
(* the screen shows (an overlay, a command session, the composer).         *)
(*                                                                         *)
(* Abstractions.  A character takes one byte and one column, a wide one    *)
(* two of each; the cursor is an offset in bytes, as in the code.  "#"     *)
(* stands for text that looks like the transcript of a session, "^" for an *)
(* escape character.  The caches of the pickers, keyed by text and cursor, *)
(* only save work and are left out, and so is the frame that is drawn.     *)
(***************************************************************************)
EXTENDS Integers, Sequences, FiniteSets, SequencesExt, FilePicker

CONSTANTS
    TypedChars,     \* characters that can be typed
    Pastes,         \* texts that can be pasted
    WideChars,      \* characters of two bytes and two columns
    MaxInputBytes,  \* MAX_INPUT_BYTES
    Columns,        \* the width of the composer
    MaxKeys         \* bound: keys and pastes

ASSUME ComposerAssumption ==
    /\ MaxInputBytes \in Nat \ {0} /\ Columns \in Nat \ {0} /\ MaxKeys \in Nat

VARIABLES
    composer,   \* the editor and the pickers
    screen,     \* "composer", "overlay" or "command"
    young,      \* within STARTUP_NOISE_GUARD
    occurrence, \* what the last poll returned
    keys,       \* keys and pastes so far
    draft       \* ghost: the text the user had when going through the history

composerVars == <<composer, screen, young, occurrence, keys, draft>>

-----------------------------------------------------------------------------
(* Text and offsets. *)

Spaces == {" ", "\n"}
Size(ch) == IF ch \in WideChars THEN 2 ELSE 1
Bytes(s) == Len(s) + Cardinality({i \in DOMAIN s : s[i] \in WideChars})
Boundaries(s) == {Bytes(Take(s, i)) : i \in 0 .. Len(s)}

\* clamp_cursor_to_boundary_left, prev_char_boundary, next_char_boundary
ClampLeft(s, o) == CHOOSE b \in Boundaries(s) : b <= o /\ \A d \in Boundaries(s) : d <= o => d <= b
PrevBoundary(s, o) ==
    LET below == {b \in Boundaries(s) : b < ClampLeft(s, o)}
    IN  IF below = {} THEN 0 ELSE CHOOSE b \in below : \A d \in below : d <= b

NextBoundary(s, o) ==
    LET above == {b \in Boundaries(s) : b > ClampLeft(s, o)}
    IN  IF above = {} THEN Bytes(s) ELSE CHOOSE b \in above : \A d \in above : b <= d

\* The number of characters before an offset, and the text with a part replaced.
CharsBefore(s, o) == Cardinality({b \in Boundaries(s) : b < o})
Replaced(s, a, b, value) == Take(s, CharsBefore(s, a)) \o value \o SubSeq(s, CharsBefore(s, b) + 1, Len(s))

\* file_mention_range: the word at the cursor, or just before it, when it is a
\* mention, as <<start, end>>; <<>> otherwise.
FileMentionRange(s, o) ==
    LET Word(i, j) == \A k \in i .. j : s[k] \notin Spaces
        First(at) == CHOOSE i \in 1 .. at : Word(i, at) /\ (i = 1 \/ s[i - 1] \in Spaces)
        Final(at) == CHOOSE j \in at .. Len(s) : Word(at, j) /\ (j = Len(s) \/ s[j + 1] \in Spaces)
        Span(first, last) ==
            IF s[first] # "@" THEN <<>> ELSE <<Bytes(Take(s, first - 1)), Bytes(Take(s, last))>>
        WordAt(at) == IF at = 0 \/ ~Word(at, at) THEN <<>> ELSE Span(First(at), Final(at))
        Near(here) ==
            WordAt(IF here > Len(s) \/ s[here] \in Spaces THEN here - 1 ELSE here)
    IN  IF s = <<>> THEN <<>> ELSE Near(CharsBefore(s, ClampLeft(s, o)) + 1)

\* slash_prefix_token: the first word of the text when it begins with a slash.
SlashPrefixToken(s) ==
    LET starts == {i \in 1 .. Len(s) : \A j \in 1 .. i - 1 : s[j] \in Spaces}
        first == CHOOSE i \in starts : \A j \in starts : j <= i
        last == CHOOSE j \in first .. Len(s) :
            (\A k \in first .. j : s[k] \notin Spaces) /\ (j = Len(s) \/ s[j + 1] \in Spaces)
    IN  IF s = <<>> \/ s[first] # "/" THEN <<>> ELSE SubSeq(s, first, last)

-----------------------------------------------------------------------------
(* The wrapped rows of the text. *)

RowsStart == [spans |-> <<>>, start |-> 0, at |-> 0, row |-> 0, col |-> 0,
              crow |-> 0, ccol |-> 0, set |-> FALSE]

\* One character of visual_layout: the row it goes to, and the cursor's place
\* when the cursor is before it.
LayChar(r, ch, cursor) ==
    LET wraps == ch # "\n" /\ r.col + Size(ch) > Columns /\ r.col > 0
        seen == ~r.set /\ r.at >= cursor
        below == wraps /\ r.at = cursor
        q == IF seen
             THEN [r EXCEPT !.set = TRUE, !.crow = IF below THEN r.row + 1 ELSE r.row,
                            !.ccol = IF below THEN 0 ELSE r.col]
             ELSE r
        next == [q EXCEPT !.at = @ + Size(ch)]
    IN  IF ch = "\n"
        THEN [next EXCEPT !.spans = Append(@, <<r.start, r.at>>), !.start = next.at,
                          !.row = @ + 1, !.col = 0]
        ELSE IF wraps
             THEN [next EXCEPT !.spans = Append(@, <<r.start, r.at>>), !.start = r.at,
                               !.row = @ + 1, !.col = Size(ch)]
             ELSE [next EXCEPT !.col = @ + Size(ch)]

\* visual_layout: the rows as spans of bytes, and the row and column of the
\* cursor; a full last row is followed by an empty one for the cursor.
VisualLayout(s, o) ==
    LET Spans(r) == Append(r.spans, <<Least(r.start, Bytes(s)), Bytes(s)>>)
        Row(r) == IF r.set THEN r.crow ELSE r.row
        Layout(r, full, tail) ==
            [spans |-> Spans(r) \o (IF full THEN <<<<Bytes(s), Bytes(s)>>>> ELSE <<>>),
             row |-> IF tail THEN Row(r) + 1 ELSE Row(r),
             col |-> IF tail THEN 0 ELSE IF r.set THEN r.ccol ELSE r.col]
        Laid(r, cursor) == Layout(r, r.col >= Columns, r.col >= Columns /\ cursor = Bytes(s))
        For(cursor) ==
            Laid(FoldLeft(LAMBDA acc, ch : LayChar(acc, ch, cursor), RowsStart, s), cursor)
    IN  For(ClampLeft(s, o))

\* byte_for_row_col: the character of the row that covers the column.
ByteForRowCol(s, span, col) ==
    LET offsets == {b \in Boundaries(s) : span[1] <= b /\ b < span[2]}
        width(b) == Bytes(SubSeq(s, CharsBefore(s, span[1]) + 1, CharsBefore(s, b)))
        hit == {b \in offsets : col < width(NextBoundary(s, b)) \/ col <= width(b)}
    IN  IF hit = {} THEN Most(span[1], span[2]) ELSE CHOOSE b \in hit : \A d \in hit : b <= d

-----------------------------------------------------------------------------
(* The editor. *)

Rollup(c) == [buf |-> c.buf, cur |-> c.cur]
Restore(c, snap) == [c EXCEPT !.buf = snap.buf, !.cur = ClampLeft(snap.buf, snap.cur)]
LeaveHistory(c) == [c EXCEPT !.at = 0, !.stash = <<>>]
PushUndo(c) == [c EXCEPT !.undo = Append(@, Rollup(c)), !.redo = <<>>]

\* insert_str: too long an insertion is dropped, the place in the history too.
InsertStr(c, value) ==
    LET here == ClampLeft(c.buf, c.cur)
    IN  IF Bytes(c.buf) + Bytes(value) > MaxInputBytes
        THEN LeaveHistory(c)
        ELSE [PushUndo(LeaveHistory(c)) EXCEPT
                !.buf = Replaced(c.buf, here, here, value), !.cur = here + Bytes(value)]

\* replace_range
ReplaceRange(c, a, b, value) ==
    LET start == ClampLeft(c.buf, Least(a, b))
        end == ClampLeft(c.buf, Most(b, start))
    IN  [PushUndo(LeaveHistory(c)) EXCEPT
            !.buf = Replaced(c.buf, start, end, value), !.cur = start + Bytes(value)]

Backspace(c) ==
    LET end == ClampLeft(c.buf, c.cur)
    IN  IF end = 0 THEN c ELSE ReplaceRange(c, PrevBoundary(c.buf, end), end, <<>>)
Delete(c) ==
    LET start == ClampLeft(c.buf, c.cur)
    IN  IF start >= Bytes(c.buf) THEN c
        ELSE ReplaceRange(c, start, NextBoundary(c.buf, start), <<>>)

\* What submit sends: the text without the newlines at its end.
Trimmed(s) ==
    LET ends == {i \in 0 .. Len(s) : \A j \in i + 1 .. Len(s) : s[j] = "\n"}
    IN  Take(s, CHOOSE i \in ends : \A j \in ends : i <= j)

Submit(c) ==
    IF Trimmed(c.buf) = <<>> THEN c
    ELSE [PushUndo(LeaveHistory(c)) EXCEPT
            !.hist = Append(@, Trimmed(c.buf)), !.buf = <<>>, !.cur = 0]

\* Mutant: every step up stores the text it leaves.
HistoryUp_Restash(c) ==
    LET next == IF c.at = 0 THEN Len(c.hist) ELSE Most(c.at - 1, 1)
    IN  IF c.hist = <<>> THEN c
        ELSE [c EXCEPT !.stash = <<Rollup(c)>>, !.at = next,
                       !.buf = c.hist[next], !.cur = Bytes(c.hist[next])]

\* history_up: leaving the draft, it is stored; `at` is the entry shown, 0 for
\* none.
HistoryUp(c) ==
    LET next == IF c.at = 0 THEN Len(c.hist) ELSE Most(c.at - 1, 1)
    IN  IF c.hist = <<>> THEN c
        ELSE [c EXCEPT !.stash = IF c.at = 0 THEN <<Rollup(c)>> ELSE @, !.at = next,
                       !.buf = c.hist[next], !.cur = Bytes(c.hist[next])]

HistoryDown(c) ==
    IF c.at = 0 THEN c
    ELSE IF c.at >= Len(c.hist)
         THEN IF c.stash # <<>> THEN LeaveHistory(Restore(c, c.stash[1]))
              ELSE [c EXCEPT !.at = 0, !.buf = <<>>, !.cur = 0]
         ELSE [c EXCEPT !.at = @ + 1, !.buf = c.hist[c.at + 1], !.cur = Bytes(c.hist[c.at + 1])]

Undo(c) ==
    IF c.undo = <<>> THEN c
    ELSE [Restore(c, Last(c.undo)) EXCEPT !.undo = Front(@), !.redo = Append(@, Rollup(c))]
Redo(c) ==
    IF c.redo = <<>> THEN c
    ELSE [Restore(c, Last(c.redo)) EXCEPT !.redo = Front(@), !.undo = Append(@, Rollup(c))]

\* move_cursor_visual_up and _down; the cursor stays where there is no row.
VisualMove(c, by) ==
    LET Move(layout, row) ==
            IF row \notin DOMAIN layout.spans THEN c
            ELSE [c EXCEPT !.cur = ByteForRowCol(c.buf, layout.spans[row], layout.col)]
        In(layout) == Move(layout, layout.row + by + 1)
    IN  In(VisualLayout(c.buf, c.cur))
CanMove(c, by) ==
    LET In(layout) == layout.row + by + 1 \in DOMAIN layout.spans
    IN  In(VisualLayout(c.buf, c.cur))
\* move_cursor_visual_home and _end: the ends of the row the cursor is on.
VisualEdge(c, side) ==
    LET Edge(row, rows) == [c EXCEPT !.cur = rows[Least(row + 1, Len(rows))][side]]
    IN  Edge(VisualLayout(c.buf, c.cur).row, VisualLayout(c.buf, Bytes(c.buf)).spans)

-----------------------------------------------------------------------------
(* The pickers. *)

\* current_slash_picker, current_file_picker: the rows offered; <<>> for none.
SlashRows(c) ==
    LET Rows(token) == IF token = <<>> \/ c.slashOff THEN <<>> ELSE SlashPickerMatches(token)
    IN  Rows(SlashPrefixToken(c.buf))
FileShown(c) ==
    LET Shown(range) == range # <<>> /\ c.fileOff # <<c.buf, range>>
    IN  Shown(FileMentionRange(c.buf, c.cur))
FileRows(c) ==
    LET Needle(range) ==
            SubSeq(c.buf, CharsBefore(c.buf, range[1]) + 2, CharsBefore(c.buf, range[2]))
    IN  IF FileShown(c) THEN FilePromptMatches(Needle(FileMentionRange(c.buf, c.cur))) ELSE <<>>

SelectAbove(n) == Less0(n, 1)

DismissSlash(c) == [c EXCEPT !.slashOff = TRUE, !.slashSel = 0]
DismissFile(c) ==
    LET Off(range) == [c EXCEPT !.fileOff = IF range = <<>> THEN <<>> ELSE <<c.buf, range>>,
                                !.fileSel = 0]
    IN  Off(FileMentionRange(c.buf, c.cur))

\* apply_slash_picker_selection: the whole text becomes the command.
ApplySlash(c, command) ==
    [ReplaceRange(c, 0, Bytes(c.buf), command) EXCEPT !.slashOff = FALSE, !.slashSel = 0]

\* apply_file_picker_selection: the mention becomes the path, with a space
\* after it unless it is a directory or a space follows.
ApplyFile(c, path) ==
    LET Spaced(rest) == path[Len(path)] # "/" /\ (rest = <<>> \/ rest[1] \notin Spaces)
        Mention(rest) == <<"@">> \o path \o (IF Spaced(rest) THEN <<" ">> ELSE <<>>)
        Put(range) ==
            ReplaceRange(c, range[1], range[2],
                         Mention(SubSeq(c.buf, CharsBefore(c.buf, range[2]) + 1, Len(c.buf))))
    IN  [Put(FileMentionRange(c.buf, c.cur)) EXCEPT !.fileOff = <<>>, !.fileSel = 0]

-----------------------------------------------------------------------------
(* Keys.  A key is [code, ch, plain]: `plain` when no modifier is held.  A *)
(* step of the frontend gives <<composer, occurrence>>.                    *)

NoText == [kind |-> "none", text |-> <<>>]
Text(s) == [kind |-> "text", text |-> s]
Event(kind) == [kind |-> kind, text |-> <<>>]
Noise(s) == Holds(s, <<"#">>)               \* looks_like_session_output
EscText == <<"e", "s", "c">>
ForkText == <<"/", "f", "o", "r", "k">>

\* apply_key and map_editor_action
ApplyKey(c, key) ==
    CASE key.code = "char" -> <<InsertStr(c, <<key.ch>>), NoText>>
      [] key.code = "newline" -> <<InsertStr(c, <<"\n">>), NoText>>
      [] key.code = "ctrl-d" -> IF c.buf = <<>> THEN <<c, Event("quit")>> ELSE <<Delete(c), NoText>>
      [] key.code = "ctrl-c" -> <<c, Event("interrupt")>>
      [] key.code = "ctrl-z" -> <<Undo(c), NoText>>
      [] key.code = "ctrl-y" -> <<Redo(c), NoText>>
      [] key.code = "enter" ->
            <<Submit(c), IF Trimmed(c.buf) = <<>> \/ (young /\ Noise(Trimmed(c.buf)))
                         THEN NoText ELSE Text(Trimmed(c.buf))>>
      [] key.code = "backspace" -> <<Backspace(c), NoText>>
      [] key.code = "delete" -> <<Delete(c), NoText>>
      [] key.code = "left" -> <<[c EXCEPT !.cur = PrevBoundary(c.buf, @)], NoText>>
      [] key.code = "right" -> <<[c EXCEPT !.cur = NextBoundary(c.buf, @)], NoText>>
      [] key.code = "up" -> <<HistoryUp(c), NoText>>
      [] key.code = "down" -> <<HistoryDown(c), NoText>>
      [] key.code = "esc" -> <<c, IF c.buf = <<>> THEN Text(EscText) ELSE NoText>>

\* The end of map_regular_key: what a key does when no picker takes it.
EditorKey(c, key) ==
    LET by == CASE key.code = "up" -> -1 [] key.code = "down" -> 1 [] OTHER -> 0
    IN  CASE key.code = "alt-f" -> <<c, Text(ForkText)>>
          [] key.code = "scroll" -> <<c, Event("scroll")>>
          [] key.code \in {"home", "end"} ->
               <<VisualEdge(c, IF key.code = "home" THEN 1 ELSE 2), NoText>>
          [] by # 0 /\ CanMove(c, by) -> <<VisualMove(c, by), NoText>>
          [] OTHER -> ApplyKey(c, key)

\* The file picker's share: it takes the arrows, Enter and Esc.
FileKey(c, key) ==
    LET Offer(d, rows, last) ==
            CASE rows # <<>> /\ key.code = "up" -> <<[d EXCEPT !.fileSel = SelectAbove(@)], NoText>>
              [] rows # <<>> /\ key.code = "down" ->
                   <<[d EXCEPT !.fileSel = Least(@ + 1, last)], NoText>>
              [] rows # <<>> /\ key.code = "enter" -> <<ApplyFile(d, rows[d.fileSel + 1]), NoText>>
              [] key.code = "esc" -> <<DismissFile(d), NoText>>
        Within(rows, last) == Offer([c EXCEPT !.fileSel = Least(@, last)], rows, last)
        Rows(rows) == Within(rows, Less0(Len(rows), 1))
    IN  Rows(FileRows(c))

\* The keys the file picker takes, and the composer it leaves to the editor.
FileTakes(c, key) ==
    /\ key.plain /\ FileShown(c)
    /\ key.code = "esc" \/ (key.code \in {"up", "down", "enter"} /\ FileRows(c) # <<>>)
FilePassed(c, key) ==
    IF key.plain /\ FileShown(c)
    THEN [c EXCEPT !.fileSel = Least(@, Less0(Len(FileRows(c)), 1))] ELSE c

\* The command picker's share, and what it leaves when it takes nothing.
SlashKey(c, key) ==
    LET Offer(d, rows, last) ==
            CASE key.code = "up" -> <<[d EXCEPT !.slashSel = SelectAbove(@)], NoText>>
              [] key.code = "down" -> <<[d EXCEPT !.slashSel = Least(@ + 1, last)], NoText>>
              [] key.code = "enter" -> <<ApplySlash(d, rows[d.slashSel + 1]), NoText>>
              [] key.code = "esc" -> <<DismissSlash(d), NoText>>
        Rows(rows, last) == Offer([c EXCEPT !.slashSel = Least(@, last)], rows, last)
    IN  Rows(SlashRows(c), Len(SlashRows(c)) - 1)
SlashTakes(c, key) ==
    key.plain /\ key.code \in {"up", "down", "enter", "esc"} /\ SlashRows(c) # <<>>
SlashPassed(c, key) ==
    LET Rows(rows) ==
            IF rows = <<>> THEN [c EXCEPT !.slashOff = @ /\ SlashPrefixToken(c.buf) # <<>>]
            ELSE [c EXCEPT !.slashSel = Least(@, Len(rows) - 1)]
    IN  IF key.plain THEN Rows(SlashRows(c)) ELSE c

\* map_regular_key: the command picker comes before the file picker, and the
\* editor has the rest.
MapRegularKey(c, key) ==
    LET File(d) == IF FileTakes(d, key) THEN FileKey(d, key)
                   ELSE EditorKey(FilePassed(d, key), key)
    IN  IF SlashTakes(c, key) THEN SlashKey(c, key) ELSE File(SlashPassed(c, key))

\* map_overlay_key, map_command_session_key: neither touches the composer.
MapOverlayKey(key) ==
    CASE key.code = "ctrl-c" -> Event("interrupt")
      [] key.code = "esc" -> Text(EscText)
      [] key.code = "char" -> Text(<<key.ch>>)
      [] key.code \in {"up", "down", "home", "end"} -> Event("scroll")
      [] key.code \notin {"ctrl-c", "esc", "char", "up", "down", "home", "end"} -> NoText
MapCommandSessionKey(key) ==
    CASE key.code = "ctrl-c" -> Event("interrupt")
      [] key.code = "scroll" -> Event("scroll")
      [] key.code \notin {"ctrl-c", "scroll"} -> NoText

-----------------------------------------------------------------------------
(* The frontend. *)

PlainKey(code) == [code |-> code, ch |-> "", plain |-> TRUE]
HeldKey(code) == [code |-> code, ch |-> "", plain |-> FALSE]
AllKeys ==
    {[code |-> "char", ch |-> ch, plain |-> TRUE] : ch \in TypedChars}
    \cup {PlainKey(k) : k \in {"enter", "backspace", "delete", "left", "right", "up", "down",
                               "home", "end", "esc"}}
    \cup {HeldKey(k) : k \in {"newline", "ctrl-c", "ctrl-d", "ctrl-z", "ctrl-y", "alt-f", "scroll"}}

EmptyComposer ==
    [buf |-> <<>>, cur |-> 0, hist |-> <<>>, at |-> 0, stash |-> <<>>, undo |-> <<>>, redo |-> <<>>,
     fileSel |-> 0, fileOff |-> <<>>, slashSel |-> 0, slashOff |-> FALSE]

ComposerInit ==
    /\ composer = EmptyComposer
    /\ screen = "composer" /\ young = TRUE
    /\ occurrence = NoText /\ keys = 0
    /\ draft = Rollup(EmptyComposer)

\* The draft that going up in the history leaves behind.
Drafted(c, d) == IF c.at = 0 /\ d.at # 0 THEN Rollup(c) ELSE draft

\* poll_user_input: a key goes where the screen says.
PressKey(key) ==
    /\ keys < MaxKeys /\ occurrence.kind # "quit"
    /\ keys' = keys + 1
    /\ \E result \in {CASE screen = "overlay" -> <<composer, MapOverlayKey(key)>>
                         [] screen = "command" -> <<composer, MapCommandSessionKey(key)>>
                         [] screen = "composer" -> MapRegularKey(composer, key)} :
           /\ composer' = result[1]
           /\ occurrence' = result[2]
           /\ draft' = Drafted(composer, result[1])
    /\ UNCHANGED <<screen, young>>

\* A paste answers an overlay, is dropped by a command session, and is
\* inserted by the composer unless it looks like terminal noise.
Paste(text) ==
    /\ keys < MaxKeys /\ occurrence.kind # "quit"
    /\ keys' = keys + 1
    /\ composer' = IF screen = "composer" /\ ~Holds(text, <<"^">>) /\ ~(young /\ Noise(text))
                   THEN InsertStr(composer, text) ELSE composer
    /\ occurrence' = IF screen = "overlay" THEN Text(text) ELSE NoText
    /\ UNCHANGED <<screen, young, draft>>

\* Mode changes between two polls: an overlay opens or a command session runs.
Show(next) ==
    /\ screen # next /\ (screen = "composer" \/ next = "composer")
    /\ keys < MaxKeys /\ occurrence.kind # "quit"
    /\ screen' = next /\ keys' = keys + 1
    /\ UNCHANGED <<composer, young, occurrence, draft>>

\* Fifteen seconds have passed.
Age == young /\ keys < MaxKeys /\ young' = FALSE /\ keys' = keys + 1
       /\ UNCHANGED <<composer, screen, occurrence, draft>>

ComposerNext ==
    \/ \E key \in AllKeys : PressKey(key)
    \/ \E text \in Pastes : Paste(text)
    \/ \E next \in {"composer", "overlay", "command"} : Show(next)
    \/ Age

-----------------------------------------------------------------------------
(* Properties. *)

ComposerTypeOK ==
    /\ composer.cur \in Nat /\ composer.at \in 0 .. Len(composer.hist)
    /\ composer.fileSel \in Nat /\ composer.slashSel \in Nat /\ composer.slashOff \in BOOLEAN
    /\ screen \in {"composer", "overlay", "command"} /\ young \in BOOLEAN
    /\ occurrence.kind \in {"none", "text", "interrupt", "quit", "scroll"}
    /\ keys \in 0 .. MaxKeys

\* The cursor, and every cursor kept for undo, redo and the draft, is between
\* two characters of its text: slicing the text there cannot panic.
CursorOnBoundary ==
    \A snap \in {Rollup(composer)} \cup Range(composer.undo) \cup Range(composer.redo)
                \cup Range(composer.stash) :
        snap.cur \in Boundaries(snap.buf)

\* As long as the history is shown, the stash holds the text and the cursor the
\* user left, so that going down past the newest entry brings them back.
DraftKept == composer.at # 0 => composer.stash = <<draft>>

\* Undo followed by redo, and redo followed by undo, change nothing.
UndoRedoExact ==
    /\ composer.undo # <<>> => Redo(Undo(composer)) = composer
    /\ composer.redo # <<>> => Undo(Redo(composer)) = composer

\* Whatever the pickers offer, Esc for each of them and then Enter sends the
\* text as it was typed.
RawSubmittable ==
    LET esc(c) == IF SlashRows(c) # <<>> \/ FileShown(c) THEN MapRegularKey(c, PlainKey("esc"))[1] ELSE c
        sent == MapRegularKey(esc(esc(composer)), PlainKey("enter"))
    IN  (Trimmed(composer.buf) # <<>> /\ ~young) => sent[2] = Text(Trimmed(composer.buf))

\* The row the overlay marks is one of the rows it draws, and the one Enter
\* takes, although the selection is a number kept from an earlier list.
MarkedIsTaken ==
    \A slash \in {SlashRows(composer)} : \A file \in {FileRows(composer)} :
        LET rows == IF slash # <<>> THEN slash ELSE file
            selected == IF slash # <<>> THEN composer.slashSel ELSE composer.fileSel
            mark == OverlayMarked(Len(rows), selected)
            Shows(window) == /\ window[1] <= mark /\ mark <= window[2]
                             /\ 0 <= window[1] /\ window[2] < Len(rows)
            Takes(taken) == IF slash # <<>> THEN taken.buf = rows[mark + 1]
                            ELSE taken = ApplyFile(SlashPassed(composer, PlainKey("enter")), rows[mark + 1])
        IN  rows # <<>> => /\ Shows(OverlayWindow(Len(rows), selected))
                           /\ Takes(MapRegularKey(composer, PlainKey("enter"))[1])

\* Taking a directory leaves the picker open on what is directly below it.
DrillsDown ==
    \A rows \in {IF SlashRows(composer) = <<>> THEN FileRows(composer) ELSE <<>>} :
        \A i \in DOMAIN rows :
            (rows[i][Len(rows[i])] = "/" /\ ~\E j \in DOMAIN rows[i] : rows[i][j] \in Spaces) =>
                \A below \in {FileRows(ApplyFile(composer, rows[i]))} :
                    /\ below # <<>>
                    /\ \A j \in DOMAIN below :
                        /\ IsStrictPrefix(rows[i], below[j])
                        /\ Slashes(below[j]) \subseteq (Slashes(rows[i]) \cup {Len(below[j])})

\* Up and Down between wrapped rows always move the cursor: pressed often
\* enough they come to the history, whatever the widths of the characters.
ArrowsProgress ==
    /\ CanMove(composer, -1) => VisualMove(composer, -1).cur < composer.cur
    /\ CanMove(composer, 1) => VisualMove(composer, 1).cur > composer.cur
=============================================================================
