------------------------------- MODULE ApiClient -------------------------------
(***************************************************************************)
(* ApiClient (src/api/client/mod.rs, protocol_discovery.rs, tools.rs): how *)
(* the client learns what a local server speaks, and what it puts into a   *)
(* request.  A URL is the sequence of its path segments below the host.    *)
(***************************************************************************)
EXTENDS Integers, Sequences, SequencesExt, FiniteSets

CONSTANTS Clients,     \* configurations of the client
          Servers,     \* what the server answers to the probes
          Histories,   \* api_messages at the time of a request
          Answers      \* status and body of a failed request

VARIABLES client, server, info, request, failure

clientVars == <<client, server, info, request, failure>>

NoInfo == [known |-> FALSE, nctx |-> 0, native |-> "none"]
NoRequest == [made |-> FALSE, path |-> <<>>, protocol |-> "none", headers |-> {},
              tokens |-> 0, tools |-> {}, wire |-> <<>>, history |-> <<>>]
NoFailure == [answer |-> [status |-> 0, rate |-> FALSE, overflow |-> "no"], mentions |-> {}]

ClientInit ==
    /\ client \in Clients /\ server \in Servers
    /\ info = NoInfo /\ request = NoRequest /\ failure = NoFailure

(***************************************************************************)
(* URLs.                                                                   *)
(***************************************************************************)
Chat == "chat/completions"
EndsWith(path, tail) == IsSuffix(tail, path)
Without(path, n) == SubSeq(path, 1, Len(path) - n)

AdaptToChatCompat(path) ==
    CASE EndsWith(path, <<Chat>>) -> path
      [] EndsWith(path, <<"messages", "v1">>) -> Without(path, 2) \o <<"v1", Chat>>
      [] EndsWith(path, <<"messages">>) -> Without(path, 1) \o <<Chat>>
      [] EndsWith(path, <<"v1">>) /\ ~EndsWith(path, <<"messages", "v1">>) -> path \o <<Chat>>
      [] OTHER -> path \o <<"v1", Chat>>

AdaptToMessagesV1(path) ==
    CASE EndsWith(path, <<"messages">>) -> path
      [] EndsWith(path, <<"messages", "v1">>) -> Without(path, 2) \o <<"v1", "messages">>
      [] EndsWith(path, <<Chat>>) -> Without(path, 1) \o <<"messages">>
      [] EndsWith(path, <<"v1">>) /\ ~EndsWith(path, <<"messages", "v1">>) -> path \o <<"messages">>
      [] OTHER -> path \o <<"v1", "messages">>

\* local_endpoint_base_url trims one segment after the other, in this order.
TrimEnd(path, segment) ==
    SubSeq(path, 1, CHOOSE n \in 0..Len(path) :
                       /\ \A k \in (n + 1)..Len(path) : path[k] = segment
                       /\ n = 0 \/ path[n] # segment)
LocalBase(path) == TrimEnd(TrimEnd(TrimEnd(path, Chat), "messages"), "v1")

ConfiguredProtocol(path) ==
    CASE Contains(path, Chat) -> "chat"
      [] Contains(path, "messages") /\ ~Contains(path, Chat) -> "messages"
      [] OTHER -> "none"

(***************************************************************************)
(* populate_server_info: probes, /props, /v1/models.                       *)
(***************************************************************************)
\* A server answers below its own root only.
Reached == LocalBase(client.path) = client.root

DiscoverNative ==
    CASE client.explicit # "none" -> client.explicit
      [] client.explicit = "none" /\ Reached -> server.sse    \* messages first, then chat
      [] OTHER -> "none"

\* poll_server_info: /v1/models is asked only if /props told nothing.
InferNative(r) == IF r.header \/ r.template \/ r.owner THEN "chat" ELSE "none"
PropsInfo ==
    LET p == server.props
        native == InferNative(p)
    IN  IF p.ok /\ (p.nctx > 0 \/ p.model \/ native # "none")
        THEN [known |-> TRUE, nctx |-> p.nctx, native |-> native] ELSE NoInfo
ModelsInfo ==
    LET p == server.models
        native == InferNative(p)
    IN  IF p.ok /\ (p.model \/ native # "none")
        THEN [known |-> TRUE, nctx |-> 0, native |-> native] ELSE NoInfo
PollServerInfo ==
    IF ~Reached THEN NoInfo ELSE IF PropsInfo.known THEN PropsInfo ELSE ModelsInfo

Or(a, b) == IF a # "none" THEN a ELSE b

Populate ==
    /\ client.local /\ info = NoInfo /\ ~request.made
    /\ LET native == DiscoverNative
           polled == PollServerInfo
       IN  info' = IF polled.known THEN [polled EXCEPT !.native = Or(native, @)]
                   ELSE IF native # "none" THEN [known |-> TRUE, nctx |-> 0, native |-> native]
                   ELSE NoInfo
    /\ UNCHANGED <<client, server, request, failure>>

(***************************************************************************)
(* create_stream: protocol, limits, tools, messages, headers.              *)
(***************************************************************************)
ApiProtocol ==
    Or(client.explicit, Or(ConfiguredProtocol(client.path), Or(info.native, client.protocol)))

RequestUrl(protocol) ==
    IF protocol = "chat" THEN AdaptToChatCompat(client.path) ELSE AdaptToMessagesV1(client.path)

LeastTokens == 128
DefaultCeiling == 16384
Clamp(n, lo, hi) == IF n < lo THEN lo ELSE IF n > hi THEN hi ELSE n

ResolveMaxTokens(base, nctx) ==
    LET ceiling == IF nctx > 0 THEN (nctx * 3) \div 4 ELSE DefaultCeiling
    IN  IF ceiling < LeastTokens THEN (IF base < ceiling THEN base ELSE ceiling)
        ELSE Clamp(base, LeastTokens, ceiling)

\* The definitions by what they allow; "mcp" stands for the extra ones.
BuiltinTools == {"read", "write"}
ReadonlyTools == {"read"}

\* tool_definitions_for_policy
ToolDefinitions(policy) ==
    CASE policy = "full" -> BuiltinTools \cup {"mcp"}
      [] policy = "plan" -> ReadonlyTools \cup {"mcp"}
      [] policy = "chat" -> {}
StructuredTools == client.structured /\ client.policy # "chat"

\* append_chat_compat_message; a block is <<kind, id>>.
Blocks(m, kind) == SelectSeq(m.blocks, LAMBDA b : b[1] = kind)
Ids(blocks) == [k \in 1..Len(blocks) |-> blocks[k][2]]
ToWire(role, calls, answers, text) ==
    [role |-> role, calls |-> calls, answers |-> answers, text |-> text]

\* Mutant: the answers of one round are sent as one message.
AppendUser_Joined(m) ==
    <<ToWire("tool", <<>>, Ids(Blocks(m, "result")), Ids(Blocks(m, "text")))>>

AppendUser(m) ==
    LET out == FoldLeft(LAMBDA o, b :
                   CASE b[1] = "result" -> Append(o, ToWire("tool", <<>>, <<b[2]>>, <<>>))
                     [] b[1] = "text" -> Append(o, ToWire(m.role, <<>>, <<>>, <<b[2]>>))
                     [] OTHER -> o, <<>>, m.blocks)
    IN  IF out = <<>> THEN <<ToWire(m.role, <<>>, <<>>, <<>>)>> ELSE out

AppendChatCompat(out, m) ==
    out \o IF m.role = "assistant"
           THEN <<ToWire("assistant", Ids(Blocks(m, "call")), <<>>, Ids(Blocks(m, "text")))>>
           ELSE AppendUser(m)

ChatCompatMessages(h) == FoldLeft(AppendChatCompat, <<ToWire("system", <<>>, <<>>, <<>>)>>, h)

ReservedHeaders == {"authorization", "x-api-key", "content-type", "host"}

Headers(protocol) ==
    {[name |-> h, from |-> "config"] : h \in client.headers \ ReservedHeaders}
    \cup IF client.key THEN {[name |-> IF protocol = "chat" THEN "authorization" ELSE "x-api-key",
                              from |-> "key"]} ELSE {}

CreateStream ==
    /\ ~request.made
    /\ \E h \in Histories :
         request' = [made |-> TRUE, protocol |-> ApiProtocol, path |-> RequestUrl(ApiProtocol),
                     headers |-> Headers(ApiProtocol),
                     tokens |-> ResolveMaxTokens(client.tokens, info.nctx),
                     tools |-> IF StructuredTools THEN ToolDefinitions(client.policy) ELSE {},
                     wire |-> IF ApiProtocol = "chat" THEN ChatCompatMessages(h) ELSE <<>>,
                     history |-> h]
    /\ UNCHANGED <<client, server, info, failure>>

(***************************************************************************)
(* map_api_status_error: the text of the error, as the phrases it holds.   *)
(* A body mentions the overflow early, after the 300 characters that are   *)
(* kept ("late"), or not at all.                                           *)
(***************************************************************************)
RateLimited(a) == a.status = 429 \/ (a.status \in 400..499 /\ a.rate)
Excerpt(a) == IF a.overflow = "early" THEN {"context window"} ELSE {}

Mentions(a) ==
    CASE RateLimited(a) -> {"rate limited"} \cup Excerpt(a)
      [] ~RateLimited(a) /\ a.overflow # "no" -> Excerpt(a) \cup {"context window"}
      [] OTHER -> {}

Refuse ==
    /\ request.made /\ failure = NoFailure
    /\ \E a \in Answers : failure' = [answer |-> a, mentions |-> Mentions(a)]
    /\ UNCHANGED <<client, server, info, request>>

ClientNext == Populate \/ CreateStream \/ Refuse

ClientTypeOK ==
    /\ client \in Clients /\ server \in Servers /\ info.nctx \in Nat
    /\ {info.native, request.protocol} \subseteq {"none", "chat", "messages"}

\* The three things that say which protocol a request speaks agree: the endpoint
\* (request_url), the body (create_stream) and the header that carries the key; and a
\* header from the configuration never takes the place of the client's own.
OneProtocol ==
    request.made =>
       /\ request.path[Len(request.path)] = IF request.protocol = "chat" THEN Chat ELSE "messages"
       /\ ~(Contains(request.path, Chat) /\ Contains(request.path, "messages"))
       /\ client.key => [name |-> IF request.protocol = "chat" THEN "authorization" ELSE "x-api-key",
                         from |-> "key"] \in request.headers
       /\ \A h \in request.headers : h.name \in ReservedHeaders => h.from = "key"

\* Discovery never sends a request to another endpoint than the configuration names.
EndpointKept ==
    request.made /\ client.explicit = "none" /\ ConfiguredProtocol(client.path) # "none"
        => request.protocol = ConfiguredProtocol(client.path)

\* What the server said of its window bounds what is asked for, however small it is.
TokensFit == request.made /\ info.nctx > 0 => request.tokens <= (info.nctx * 3) \div 4

\* A history in which every tool call is answered in the next message stays so on the wire
\* of the other protocol: the answers follow their calls one by one, nothing in between.
WirePaired ==
    request.made /\ request.protocol = "chat" =>
       \A k \in 1..Len(request.wire) :
          LET m == request.wire[k] IN
          /\ \A c \in 1..Len(m.calls) :
               /\ k + c <= Len(request.wire)
               /\ request.wire[k + c].role = "tool" /\ request.wire[k + c].answers = <<m.calls[c]>>
          /\ m.role = "tool" => Len(m.answers) = 1

\* is_context_overflow reads the text of the mapped error: an overflow is recognised
\* however long the server's answer is, so that the turn compacts and retries, and no other
\* failure is taken for one (a rate limit that mentions the window within the excerpt is).
OverflowRecognised ==
    failure # NoFailure /\ ~RateLimited(failure.answer) =>
       ("context window" \in failure.mentions) = (failure.answer.overflow # "no")
=============================================================================
