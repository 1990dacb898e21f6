------------------------------ MODULE MCSession -------------------------------
(* What a session is built from, one part per behaviour: the parts share no  *)
(* state, so a behaviour picks one and leaves the others as they start.      *)
EXTENDS ApiClient, TaskTranscript, SessionLedger, SlashCommands, TaskBridge, PeerChannel,
        SafeWrite, ConfigLoad, InputComposer

VARIABLE scene

(* ApiClient *)
MCClients ==
    [path : {<<>>, <<"v1">>, <<"v1", "messages">>, <<"messages", "v1">>, <<"v1", Chat>>},
     root : {<<>>}, local : BOOLEAN, explicit : {"none", "chat"}, protocol : {"chat", "messages"},
     key : {TRUE}, headers : {{"x-other", "authorization"}}, tokens : {64, 4096},
     structured : {TRUE}, policy : {"plan"}]
Quiet == [ok |-> FALSE, nctx |-> 0, model |-> FALSE, header |-> FALSE, template |-> FALSE,
          owner |-> FALSE]
MCServers ==
    [sse : {"none", "messages", "chat"},
     props : {Quiet, [Quiet EXCEPT !.ok = TRUE, !.nctx = 100],
              [Quiet EXCEPT !.ok = TRUE, !.nctx = 4096, !.template = TRUE]},
     models : {Quiet, [Quiet EXCEPT !.ok = TRUE, !.owner = TRUE]}]
Msg(role, blocks) == [role |-> role, blocks |-> blocks]
Ask == Msg("user", <<<<"text", 0>>>>)
MCHistories ==
    {<<Ask,
       Msg("assistant", <<<<"thinking", 0>>, <<"text", 1>>, <<"call", 1>>, <<"call", 2>>>>),
       Msg("user", <<<<"result", 1>>, <<"result", 2>>, <<"text", 2>>>>),
       Msg("assistant", <<<<"text", 3>>>>)>>,
     <<Ask, Msg("assistant", <<<<"call", 1>>>>), Msg("user", <<<<"result", 1>>>>),
       Msg("assistant", <<<<"call", 2>>>>), Msg("user", <<<<"result", 2>>>>)>>}
MCAnswers == [status : {400, 429}, rate : BOOLEAN, overflow : {"no", "early", "late"}]

(* SlashCommands *)
MCContent(m) == IF m = "@a" THEN <<"[a]", "@b">> ELSE <<"[b]", "deep">>
MCLines ==
    {w \o a : w \in {SlashTable[i].words : i \in DOMAIN SlashTable}
                        \cup {<<"/mine">>, <<"!x">>, <<"hi">>, <<"/other">>, <<"/test", "y">>},
              a \in {<<>>, <<"@a">>, <<"--base", "r">>, <<"--files", "g", "@a">>,
                     <<"--base", "r", "--files", "g">>, <<"x", "--framework", "f">>}}
MCWorlds ==
    [git : {"clean", "dirty"}, matches : {TRUE}, assembled : BOOLEAN, failing : {TRUE},
     pulse : {"idle", "busy", "session"}, loop : BOOLEAN]

(* ConfigLoad *)
McpServer(name, transport) ==
    [name |-> name, transport |-> transport, command |-> transport = "stdio", args |-> FALSE,
     url |-> transport = "http", headers |-> FALSE]
MCMcpLists ==
    [two  |-> <<McpServer("a", "stdio"), McpServer("b", "http")>>,
     same |-> <<McpServer("a", "stdio"), McpServer("a", "http")>>,
     odd  |-> <<[McpServer("a", "stdio") EXCEPT !.url = TRUE]>>]
MCUnpadded == [v \in {" remote", " e"} |-> IF v = " e" THEN "e" ELSE "remote"]
MCSystem == {Empty, [With("sandbox", "bwrap") EXCEPT !["percent"] = "50", !["dir"] = "s"]}
MCUser ==
    {Empty, With("mcp", "two"), With("mcp", "same"), With("mcp", "odd"), With("url", "local"),
     With("token", "t"), With("sandbox", "bad"),
     [With("enabled", "true") EXCEPT !["hooks"] = "h", !["apikey"] = "k", !["dir"] = "u"],
     [With("tls", "true") EXCEPT !["require"] = "true"]}
MCRepo ==
    {Empty, With("notes", "n"), With("hooks", "h"), With("tls", "true"), With("dir", "r"),
     With("dir", "blank"), With("url", "blank"), With("url", " remote"), With("percent", "200"),
     With("require", "bad"), With("sandbox", "passthrough"), With("sandbox", "blank"),
     With("skipverify", "true")}
MCEnv ==
    {Empty, With("url", " remote"), With("dir", "blank"), With("dir", " e"), With("skipverify", "true"), With("sandbox", "bad"),
     With("require", "bad"), With("backend", "bad"), With("tls", "true")}

(* FilePicker and InputComposer *)
MCFiles == {<<"a", "/", "b">>, <<"a", "/", "c", "/", "b">>, <<"b">>, <<"b", "a">>, <<"t", "/", "b">>}
MCAlphabet == <<" ", "/", "a", "b", "c", "w", "t">>
MCExcluded == {<<"t", "/">>}
MCTable == <<<<"/", "a">>, <<"/", "a", "b">>, <<"/", "b">>>>
MCCustom == <<<<"/", "a", "c">>>>
MCPastes == {<<"w", "a", "w">>, <<"#">>, <<"/", "a", " ", "@">>, <<"^">>}

-----------------------------------------------------------------------------

Client == scene = "client" /\ ClientNext
    /\ UNCHANGED <<scene, transcriptVars, ledgerVars, slashVars, bridgeVars,
                   channelVars, fileVars, configVars, composerVars>>
Transcript == scene = "transcript" /\ TranscriptNext
    /\ UNCHANGED <<scene, clientVars, ledgerVars, slashVars, bridgeVars,
                   channelVars, fileVars, configVars, composerVars>>
Ledger == scene = "ledger" /\ LedgerNext
    /\ UNCHANGED <<scene, clientVars, transcriptVars, slashVars, bridgeVars,
                   channelVars, fileVars, configVars, composerVars>>
Slash == scene = "slash" /\ SlashNext
    /\ UNCHANGED <<scene, clientVars, transcriptVars, ledgerVars, bridgeVars,
                   channelVars, fileVars, configVars, composerVars>>
Bridge == scene = "bridge" /\ BridgeNext
    /\ UNCHANGED <<scene, clientVars, transcriptVars, ledgerVars, slashVars,
                   channelVars, fileVars, configVars, composerVars>>
Channel == scene = "channel" /\ ChannelNext
    /\ UNCHANGED <<scene, clientVars, transcriptVars, ledgerVars, slashVars,
                   bridgeVars, fileVars, configVars, composerVars>>
File == scene = "file" /\ SafeNext
    /\ UNCHANGED <<scene, clientVars, transcriptVars, ledgerVars, slashVars,
                   bridgeVars, channelVars, configVars, composerVars>>
Configuration == scene = "config" /\ ConfigNext
    /\ UNCHANGED <<scene, clientVars, transcriptVars, ledgerVars, slashVars,
                   bridgeVars, channelVars, fileVars, composerVars>>
Composer == scene = "composer" /\ ComposerNext
    /\ UNCHANGED <<scene, clientVars, transcriptVars, ledgerVars, slashVars,
                   bridgeVars, channelVars, fileVars, configVars>>

vars == <<scene, clientVars, transcriptVars, ledgerVars, slashVars, bridgeVars, channelVars,
          fileVars, configVars, composerVars>>

Init ==
    /\ scene \in {"client", "transcript", "ledger", "slash", "bridge", "channel", "file", "config",
                  "composer"}
    /\ ClientInit
    /\ scene # "client" => client = (CHOOSE c \in Clients : TRUE) /\ server = (CHOOSE s \in Servers : TRUE)
    /\ ConfigInit
    /\ scene # "config" => system = Empty
    /\ TranscriptInit /\ LedgerInit /\ SlashInit /\ BridgeInit /\ ChannelInit /\ SafeInit
    /\ ComposerInit

Next == Client \/ Transcript \/ Ledger \/ Slash \/ Bridge \/ Channel \/ File \/ Configuration \/ Composer

Spec == Init /\ [][Next]_vars

\* The API client: credentials and format belong to one protocol, a configured endpoint is
\* kept whatever discovery finds, the token budget fits the server's window, every tool
\* result on the wire answers a call before it, and an overflow is recognised as one.
ClientSound ==
    ClientTypeOK /\ OneProtocol /\ EndpointKept /\ TokensFit /\ WirePaired /\ OverflowRecognised

\* The transcript: text delivered by deltas, blocks and the end of the turn is shown once, up
\* to an error event that closes the screen's document, and but for a piece taken for a
\* repetition; a call has the outcome it had by then; and folding loses no call.
TranscriptSound == TranscriptTypeOK /\ TextShownOnce /\ OutcomesAgree /\ CallsAccounted

\* The task's record over saving, resuming, forking and crashing: the conversation is the
\* task's own, a grant for one command is used once, delegated tasks
\* stay in the file, and what is restored from it is what was said, under fresh step ids.
TaskRecordSound ==
    /\ LedgerTypeOK /\ ConversationFollowsTask /\ OnceGrantUsedOnce
    /\ ListingStaysGood /\ DelegatedTasksKept /\ OnePrompt
    /\ BridgeTypeOK /\ HistorySurvivesResume /\ StepIdsFresh

\* A typed line: nothing starts while something runs, a command does what its kind may do,
\* each line has at most one command that accepts it, and mentions are expanded once.
CommandsSound ==
    /\ SlashTypeOK /\ BusyStartsNothing /\ CommandsKeepTheirWord /\ CommandsReachable
    /\ MentionsExpandOnce

\* The composer: the cursor stays on a character boundary, a draft survives while the
\* history is shown, undo and redo are exact, raw input can be submitted, the marked candidate is the
\* one taken, directories can be entered, and the arrows move over wrapped lines.
ComposerSound ==
    /\ ComposerTypeOK /\ CursorOnBoundary /\ DraftKept /\ UndoRedoExact /\ RawSubmittable
    /\ MarkedIsTaken /\ DrillsDown /\ ArrowsProgress

\* Steps that must keep what a user relies on: a working-set record keeps its objective and
\* the evidence of joins, and a reader who scrolled up keeps the rows in front of him.
NothingLost == [][RecordKept /\ RowsKept]_vars
=============================================================================
