----------------------------- MODULE MCModelStream -----------------------------
(* Responses for ModelStream: one message encoded for both protocols, for   *)
(* the fallback, and with the noise real servers add.                       *)
EXTENDS ModelStream

Byte(f) == [f |-> f]
Line(p) == [f |-> "data", p |-> p]
LF == <<Byte("LF"), Byte("LF")>>
CRLF == <<Byte("CR"), Byte("LF"), Byte("CR"), Byte("LF")>>
Frames(payloads, eol) == FlattenSeq([i \in 1..Len(payloads) |-> <<Line(payloads[i])>> \o eol])

(* messages-v1 *)
MsgStart == [k |-> "message_start", meta |-> FALSE, usage |-> 3]
MsgDelta == [k |-> "message_delta", meta |-> FALSE, usage |-> 2]
Ping == [k |-> "ping"]
OpenText(i, t) == [k |-> "block_start", i |-> i, b |-> [k |-> "text", text |-> t]]
OpenCall(i, id, a) ==
    [k |-> "block_start", i |-> i, b |-> [k |-> "call", id |-> id, name |-> "read", args |-> a]]
OpenOther(i, k) == [k |-> "block_start", i |-> i, b |-> [k |-> k]]
Text(i, t) == [k |-> "block_delta", i |-> i, text |-> t, json |-> <<>>]
Json(i, a) == [k |-> "block_delta", i |-> i, text |-> <<>>, json |-> a]
Stop(i) == [k |-> "block_stop", i |-> i]

(* chat-compatible *)
Chunk(role, choices, usage) ==
    [k |-> "chunk", ident |-> TRUE, meta |-> TRUE, role |-> role, usage |-> usage, choices |-> choices]
Choice(text, tools, fin) == [text |-> text, tools |-> tools, fin |-> fin, indexed |-> TRUE]
Tool(i, id, name, args, json) == [i |-> i, id |-> id, name |-> name, args |-> args, json |-> json]
Role == Chunk(TRUE, <<Choice(<<>>, <<>>, FALSE)>>, NoIndex)
Say(t) == Chunk(FALSE, <<Choice(t, <<>>, FALSE)>>, NoIndex)
Call(tools) == Chunk(FALSE, <<Choice(<<>>, tools, FALSE)>>, NoIndex)
Fin == Chunk(FALSE, <<Choice(<<>>, <<>>, TRUE)>>, 4)
Done == [k |-> "done"]

Tagged == <<"<fu", "nc=", "</fu", "nc>">>
Response(bytes, local, sse, whole, text, calls, noisy) ==
    [bytes |-> bytes, local |-> local, sse |-> sse, whole |-> whole,
     means |-> [text |-> text, calls |-> calls], noisy |-> noisy]
Remote(bytes, text, calls) == Response(bytes, FALSE, TRUE, <<>>, text, calls, FALSE)
Noisy(bytes) == Response(bytes, FALSE, TRUE, <<>>, <<>>, <<>>, TRUE)

ProviderMessage(eol) ==     \* thinking, text, a call whose arguments come in two pieces
    Remote(Frames(<<MsgStart, OpenText(0, <<"t">>), Ping, Stop(0), OpenCall(1, "a", <<>>),
                    Json(1, <<1>>), Json(1, <<2>>), Stop(1), MsgDelta>>, eol),
           <<"t">>, <<(<<1, 2>>)>>)
TaggedInText ==             \* a call written as markup, cut inside its tags
    Remote(Frames(<<OpenText(0, <<"t", "<fu">>), Text(0, <<"nc=", "</fu">>),
                    Text(0, <<"nc>", "ws", "<to">>), Text(0, <<"ol>">>), Stop(0)>>, LF),
           <<"t", "ws">>, <<(<<"empty">>)>>)
ChatCalls(eol) ==           \* two calls, their deltas interleaved, JSON before a string
    Remote(<<Byte("B1"), Byte("B2"), Byte("B3")>> \o
           Frames(<<Role, Say(<<"t">>), Call(<<Tool(0, "a", "", <<1>>, TRUE)>>),
                    Call(<<Tool(1, "b", "read", <<7>>, FALSE), Tool(0, "", "read", <<2>>, FALSE)>>),
                    Call(<<Tool(1, "", "", <<8>>, TRUE)>>), Fin, Done>>, eol),
           <<"t">>, <<(<<7, 8>>), (<<1, 2>>)>>)
NativeThenTagged ==         \* markup after a native call is not a second call
    Remote(Frames(<<Role, Call(<<Tool(0, "a", "read", <<1>>, FALSE)>>), Say(<<"t">> \o Tagged),
                    Fin, Done>>, LF), <<"t">>, <<(<<1>>)>>)
TaggedThenNative ==         \* two calls, the first of them as markup
    Remote(Frames(<<Role, Say(<<"t">> \o Tagged), Call(<<Tool(0, "", "read", <<1>>, FALSE)>>),
                    Fin, Done>>, LF), <<"t">>, <<(<<"empty">>), (<<1>>)>>)
Hermes == <<"{", "</to", "ol/>">>
HermesInText ==             \* a Hermes call: in one delta, and cut right after its tag
    {Remote(Frames(<<OpenText(0, <<"t", "<to", "ol>", "ws">> \o Hermes \o <<"ws">>), Stop(0)>>, LF),
            <<"t", "ws">>, <<(<<"json">>)>>),
     Remote(Frames(<<Role, Say(<<"t", "<to">>), Say(<<"ol>">>), Say(Hermes), Fin, Done>>, LF),
            <<"t">>, <<(<<"json">>)>>)}
HermesCut ==                \* ... and cut in the white space after it
    Remote(Frames(<<Role, Say(<<"t", "<to", "ol>", "ws">>), Say(Hermes), Fin, Done>>, LF),
           <<"t">>, <<(<<"json">>)>>)
MarkupLater(same) ==        \* markup in a later text block, and text in the same or the next delta
    Remote(Frames(<<OpenText(0, <<"t">>), Stop(0), OpenText(1, <<"t">>)>> \o
                  (IF same THEN <<Text(1, Append(Tagged, "t"))>>
                           ELSE <<Text(1, Tagged), Text(1, <<"t">>)>>) \o <<Stop(1)>>, LF),
           <<"t", "t", "t">>, <<(<<"empty">>)>>)
AngleAtEnd ==               \* text that ends as a tag begins
    {Remote(Frames(<<OpenText(0, <<"t", "<">>), Stop(0)>>, LF), <<"t", "<">>, <<>>),
     Remote(Frames(<<Role, Say(<<"t", "<fu">>), Fin, Done>>, LF), <<"t", "<fu">>, <<>>)}
LocalFallback(sse) ==       \* a local server that does not stream, or says only [DONE]
    Response(IF sse THEN Frames(<<Done>>, LF) ELSE <<>>, TRUE, sse,
             <<MsgStart, OpenText(0, <<"t">>), OpenCall(1, "a", <<1, 2>>), MsgDelta>>,
             <<"t">>, <<(<<1, 2>>)>>, FALSE)
LocalChatFallback ==        \* one that says nothing
    Response(<<>>, TRUE, TRUE,
             <<Chunk(TRUE, <<Choice(<<"t">>, <<Tool(0, "a", "read", <<1, 2>>, FALSE)>>, TRUE)>>, 4)>>,
             <<"t">>, <<(<<1, 2>>)>>, FALSE)
Noise ==                    \* comments, raw JSON, errors, bad UTF-8, late data, mixed protocols
    {Noisy(<<[f |-> "id", v |-> 7], Byte("LF"), Byte("comment"), Byte("CR"), Byte("CR"),
             Byte("raw"), Byte("LF"), Byte("CR"), Byte("LF")>> \o Frames(<<OpenOther(0, "bad")>>, LF)),
     Noisy(Frames(<<OpenText(0, <<"t">>), OpenOther(2, "result"), [k |-> "garbage"], [k |-> "envelope"]>>, LF)),
     Noisy(Frames(<<[k |-> "envelope"], [k |-> "empty"], Ping>>, CRLF)),
     Noisy(Frames(<<Role, Say(<<"t">>)>>, LF) \o <<Byte("bad")>> \o LF \o Frames(<<Done>>, LF)),
     Noisy(<<Byte("event"), Byte("LF"), Line([k |-> "garbage"])>> \o LF \o
           Frames(<<Call(<<Tool(9, "a", "read", <<1>>, FALSE)>>), Done, Say(<<"t">>), Call(<<Tool(0, "b", "read", <<1>>, FALSE)>>)>>, LF)),
     Noisy(<<Byte("B1"), Byte("comment"), Byte("comment"), Byte("comment"), Byte("comment"), Byte("comment"),
             Byte("comment"), Byte("comment"), Byte("comment"), Byte("comment"), Byte("comment"), Byte("comment"),
             Byte("comment"), Byte("comment"), Byte("comment"), Byte("comment"), Byte("comment"), Byte("comment")>>
           \o Frames(<<MsgStart>>, LF))}

MCResponses ==
    {ProviderMessage(LF), ProviderMessage(CRLF), TaggedInText, ChatCalls(LF), ChatCalls(CRLF),
     NativeThenTagged, TaggedThenNative, HermesCut, MarkupLater(TRUE), MarkupLater(FALSE),
     LocalFallback(TRUE), LocalFallback(FALSE), LocalChatFallback}
    \cup HermesInText \cup AngleAtEnd \cup Noise
=============================================================================
