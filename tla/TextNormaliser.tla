---------------------------- MODULE TextNormaliser ----------------------------
(***************************************************************************)
(* StreamTextNormaliser (src/api/stream/text_normaliser.rs): assistant     *)
(* text arrives in deltas cut anywhere; tool calls written as markup in    *)
(* that text are taken out of it.  Two surface forms exist:                *)
(*   <function=NAME> parameters or JSON </function>                        *)
(*   <tool_call> { JSON } </tool_call>            (Hermes)                 *)
(*                                                                         *)
(* A text is a sequence of tokens.  A tag is two tokens, so a delta can    *)
(* end inside it; "t" is text, "ws" white space, "{" a JSON object,        *)
(* "{bad" one that does not parse, "<" a lone angle bracket, "<p1"/"<p2"   *)
(* and "</p" parameter tags.                                               *)
(***************************************************************************)
EXTENDS Integers, Sequences, SequencesExt, FiniteSetsExt

FunctionOpen == {<<"<fu", "nc=">>, <<"<fu", "nc0">>}   \* nc0: empty name
FunctionClose == <<"</fu", "nc>">>
ToolCallOpen == <<"<to", "ol>">>
ToolCallClose == <<"</to", "ol/>">>

StartsTag == {"<", "<fu", "</fu", "<to", "</to", "<p1", "<p2", "</p"}

\* A suffix that could still grow into (or is) a tag without attributes.
PartialTags == {<<"<">>, <<"<fu">>, <<"</fu">>, FunctionClose, <<"<to">>,
                ToolCallOpen, <<"</to">>, ToolCallClose, <<"</p">>}

(***************************************************************************)
(* Text and call items.                                                    *)
(***************************************************************************)
TextChunk(s) == [k |-> "text", s |-> s]
CallChunk(input) == [k |-> "call", s |-> input]
PushText(chunks, s) == IF s = <<>> THEN chunks ELSE Append(chunks, TextChunk(s))

Pairs(s, tags) == {i \in 1..(Len(s) - 1) : <<s[i], s[i + 1]>> \in tags}
First(S) == IF S = {} THEN 0 ELSE Min(S)
From(s, i) == SubSeq(s, i, Len(s))

Without(s, tag) ==
    LET inside == {i \in 1..Len(s) : i \in Pairs(s, {tag}) \/ i - 1 \in Pairs(s, {tag})}
        kept == [i \in 1..Len(s) |-> IF i \in inside THEN <<>> ELSE <<s[i]>>]
    IN  FlattenSeq(kept)

StripToolCallWrappers(s) == Without(Without(s, ToolCallOpen), ToolCallClose)

LastOpen(s) == SelectLastInSeq(s, LAMBDA x : x \in StartsTag)

\* The number of leading tokens that are not an incomplete tag.
SettledLength(s) ==
    LET open == LastOpen(s)
    IN  IF open # 0 /\ From(s, open) \in PartialTags THEN open - 1 ELSE Len(s)

SkipWs(s) == LET i == SelectInSeq(s, LAMBDA x : x # "ws")
             IN  IF i = 0 THEN <<>> ELSE From(s, i)

StartsWithJson(s) == SkipWs(s) # <<>> /\ Head(SkipWs(s)) \in {"{", "{bad"}

FindHermesJsonToolCall(s) ==
    First({i \in Pairs(s, {ToolCallOpen}) : StartsWithJson(From(s, i + 2))})

ParsesAsJson(s) == SelectSeq(s, LAMBDA x : x # "ws") = <<"{">>

RECURSIVE TaggedParameters(_, _)
\* Values by key; a value ends at its closing tag or at the next parameter.
TaggedParameters(body, input) ==
    LET ValueEnd(rest) == SelectInSeq(rest, LAMBDA x : x \in {"<p1", "<p2", "</p"})
        Value(rest, end) == IF end = 0 THEN rest ELSE SubSeq(rest, 1, end - 1)
        Beyond(rest, end) == IF end = 0 THEN <<>>
                             ELSE From(rest, IF rest[end] = "</p" THEN end + 1 ELSE end)
        Take(key, rest, end) ==
            TaggedParameters(Beyond(rest, end), [input EXCEPT ![key] = Value(rest, end)])
        Scan(start) ==
            IF start = 0 THEN input
            ELSE Take(body[start], From(body, start + 1), ValueEnd(From(body, start + 1)))
    IN  Scan(SelectInSeq(body, LAMBDA x : x \in {"<p1", "<p2"}))

NoParameters == [k \in {"<p1", "<p2"} |-> <<"unset">>]

TaggedCallInput(body) ==
    LET Input(params) == IF params # NoParameters THEN params
                         ELSE IF ParsesAsJson(body) THEN "json" ELSE "empty"
    IN  Input(TaggedParameters(body, NoParameters))

RECURSIVE SkipToolCallClosers(_)
SkipToolCallClosers(s) ==
    IF Len(s) >= 2 /\ SubSeq(s, 1, 2) = ToolCallClose
    THEN SkipToolCallClosers(From(s, 3)) ELSE s

\* What a closed call adds to the items: a Hermes body or a function body.
CallItems(chunks, hermes, rest, close) ==
    LET inside == SubSeq(rest, 3, close - 1)
    IN  CASE hermes -> IF ParsesAsJson(inside) THEN Append(chunks, CallChunk("json")) ELSE chunks
          [] ~hermes /\ rest[2] = "nc0" ->
               PushText(chunks, StripToolCallWrappers(SubSeq(rest, 1, close + 1)))
          [] OTHER -> Append(chunks, CallChunk(TaggedCallInput(inside)))

\* No call opens in p: all but an incomplete tag is text.
SettleText(p, chunks, n) ==
    [pending |-> From(p, n + 1),
     chunks |-> PushText(chunks, StripToolCallWrappers(SubSeq(p, 1, n)))]

RECURSIVE NormaliseLoop(_, _)
\* The loop of normalise: [pending, chunks] after the buffered text p.
NormaliseLoop(p, chunks) ==
    LET CloseOf(rest, hermes) ==
            First(Pairs(rest, IF hermes THEN {ToolCallClose} ELSE {FunctionClose}))
        Close(before, rest, hermes, close) ==
            IF close = 0 THEN [pending |-> rest, chunks |-> before]
            ELSE NormaliseLoop(IF hermes THEN From(rest, close + 2)
                               ELSE SkipToolCallClosers(From(rest, close + 2)),
                               CallItems(before, hermes, rest, close))
        Open(at, hermes) ==
            Close(PushText(chunks, StripToolCallWrappers(SubSeq(p, 1, at - 1))),
                  From(p, at), hermes, CloseOf(From(p, at), hermes))
        Earliest(function, hermes) ==
            CASE function = 0 /\ hermes = 0 -> SettleText(p, chunks, SettledLength(p))
              [] hermes # 0 /\ (function = 0 \/ hermes < function) -> Open(hermes, TRUE)
              [] OTHER -> Open(function, FALSE)
    IN  Earliest(First(Pairs(p, FunctionOpen)), FindHermesJsonToolCall(p))

Normalise(pending, text) ==
    IF text = <<>> THEN [pending |-> pending, chunks |-> <<>>]
    ELSE NormaliseLoop(pending \o text, <<>>)

FinishNormaliser(pending) ==
    PushText(<<>>, StripToolCallWrappers(SubSeq(pending, 1, SettledLength(pending))))
=============================================================================
