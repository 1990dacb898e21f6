---------------------------- MODULE SlashCommands ----------------------------
(***************************************************************************)
(* What one line typed into the composer does: mentions are expanded, the  *)
(* line is matched against the registry of slash commands in its order,    *)
(* then against the custom commands, and its handler starts a turn (of     *)
(* some kind), a command session, or only prints and changes the session.  *)
(*                                                                         *)
(* A line is the sequence of its words.  A mention is one of MentionWords;*)
(* Content gives the words of the block it expands to.  The world is what  *)
(* the handlers find: git's answer, the matches of a glob, whether context *)
(* could be assembled, the last validation, and whether a pulse is open.   *)
(* The changes of the session itself are SessionLedger's and PulseRuntime's*)
(***************************************************************************)
EXTENDS Integers, Sequences, SequencesExt

CONSTANTS
    TypedLines,     \* the lines that may be typed
    Worlds,         \* [git, matches, assembled, failing, pulse, loop]
    MentionWords,   \* words that name an existing file or directory with @
    Content(_),     \* mention -> the words of its block
    CustomFiles     \* names of the command files found, as written

VARIABLES line, world, outcome
slashVars == <<line, world, outcome>>

Takes(id, words) == [id |-> id, words |-> words, args |-> TRUE]
Only(id, words) == [id |-> id, words |-> words, args |-> FALSE]

\* SLASH_COMMANDS, in its order: what works on code and looks at the workspace,
WorkCommands ==
    << Takes("Edit", <<"/edit">>), Takes("Fix", <<"/fix">>), Takes("Explain", <<"/explain">>),
       Takes("Review", <<"/review">>), Takes("Plan", <<"/plan">>), Takes("Init", <<"/init">>),
       Takes("Run", <<"/run">>), Only("Test", <<"/test">>), Only("Context", <<"/context">>),
       Takes("Mcp", <<"/mcp">>), Takes("Tools", <<"/tools">>), Only("Usage", <<"/usage">>),
       Takes("GenerateTests", <<"/generate-tests">>), Takes("Model", <<"/model">>) >>

\* what manages grants, tasks and notes,
TaskCommands ==
    << Only("Permissions", <<"/permissions">>), Takes("Allow", <<"/allow">>),
       Takes("Deny", <<"/deny">>), Only("New", <<"/new">>), Takes("Resume", <<"/resume">>),
       Only("Compact", <<"/compact">>), Takes("Fork", <<"/fork">>),
       Only("MemoryShow", <<"/memory">>), Takes("MemoryAdd", <<"/memory", "add">>),
       Takes("MemoryAccept", <<"/memory", "accept">>), Only("MemoryClear", <<"/memory", "clear">>),
       Only("MemoryAutoOn", <<"/memory", "auto", "on">>),
       Only("MemoryAutoOff", <<"/memory", "auto", "off">>),
       Only("MemoryAutoClear", <<"/memory", "auto", "clear">>) >>

\* and the rest.
OtherCommands ==
    << Only("Agents", <<"/agents">>),
       Takes("Delegate", <<"/delegate">>), Takes("Watch", <<"/watch">>), Only("Undo", <<"/undo">>),
       Only("Commands", <<"/commands">>), Only("Help", <<"/help">>),
       Only("Reindex", <<"/reindex">>), Only("Quit", <<"/quit">>), Only("Exit", <<"/exit">>),
       Only("About", <<"/about">>), Only("Copy", <<"/copy">>), Takes("Diff", <<"/diff">>) >>

SlashTable == WorkCommands \o TaskCommands \o OtherCommands

\* The words that begin with a slash; "/other" names no command.
SlashWords == {SlashTable[i].words[1] : i \in DOMAIN SlashTable} \cup CustomFiles \cup {"/other"}

Unknown == [id |-> "none", args |-> <<>>]

\* SlashCommandPattern::parse
Accepts(spec, words) == words = spec.words \/ (spec.args /\ IsStrictPrefix(spec.words, words))

\* registered_slash_command: the first specification that accepts the line.
Registered(words) ==
    LET hits == SelectSeq(SlashTable, LAMBDA s : Accepts(s, words))
    IN  IF hits = <<>> THEN Unknown
        ELSE [id |-> hits[1].id,
              args |-> SubSeq(words, Len(hits[1].words) + 1, Len(words))]

\* load_custom_commands with builtin_slash_command_names: files that name a
\* built-in or a reserved name are skipped.
CustomCommands ==
    {c \in CustomFiles : \A i \in DOMAIN SlashTable : SlashTable[i].words[1] # c} \ {"/vex-x"}

-----------------------------------------------------------------------------
(* Mentions.                                                               *)

\* expand_inline_tokens_in_text: every mention among the words is replaced by a
\* block; a large file and a missing one by a line that says so.
Expand(words) ==
    FlattenSeq([i \in DOMAIN words |->
        IF words[i] \in MentionWords THEN Content(words[i]) ELSE <<words[i]>>])

\* expand_inline_file_tokens: free text always; of the slash commands only /plan
\* and /init, whose arguments are expanded.
ExpandLine(words) ==
    LET r == Registered(words)
    IN  IF Head(words) \notin SlashWords THEN Expand(words)
        ELSE IF r.id \in {"Plan", "Init"} THEN <<Head(words)>> \o Expand(r.args) ELSE words

-----------------------------------------------------------------------------
(* Arguments.                                                              *)

BadArgs == [ok |-> FALSE, base |-> "", files |-> "", rest |-> <<>>]

RECURSIVE ReviewFlags(_, _)
ReviewFlags(words, got) ==
    IF words = <<>> \/ Head(words) \notin {"--base", "--files"}
    THEN [got EXCEPT !.rest = words]
    ELSE IF Len(words) = 1 THEN BadArgs
    ELSE IF Head(words) = "--base"
         THEN IF got.base # "" THEN BadArgs
              ELSE ReviewFlags(Tail(Tail(words)), [got EXCEPT !.base = words[2]])
         ELSE IF got.files # "" THEN BadArgs
              ELSE ReviewFlags(Tail(Tail(words)), [got EXCEPT !.files = words[2]])

\* parse_review_args
ReviewArgs(words) ==
    LET got == ReviewFlags(words, [ok |-> TRUE, base |-> "", files |-> "", rest |-> <<>>])
    IN  IF got.base # "" /\ got.files # "" THEN BadArgs ELSE got

\* parse_generate_tests_args: at most one path, --framework with its name.
RECURSIVE TestArgs(_, _)
TestArgs(words, path) ==
    IF words = <<>> THEN [ok |-> TRUE, path |-> path]
    ELSE IF Head(words) = "--framework"
         THEN IF Len(words) = 1 THEN [ok |-> FALSE, path |-> path]
              ELSE TestArgs(Tail(Tail(words)), path)
         ELSE IF path # "" THEN [ok |-> FALSE, path |-> path]
              ELSE TestArgs(Tail(words), Head(words))

-----------------------------------------------------------------------------
(* Handlers.  A handler's outcome: the turn it starts, the policy of its    *)
(* tools, the words of the prompt, the grants it leaves.                    *)

Says == [turn |-> "none", policy |-> "default", prompt |-> <<>>, grants |-> FALSE]
Starts(kind, policy, words) == [turn |-> kind, policy |-> policy, prompt |-> words,
                                grants |-> kind = "edit"]

OpenLoop == world.loop /\ world.pulse # "idle"

\* Mutant: /edit is started although a loop runs.
EditCommand_Reentrant(args) == IF args = <<>> THEN Says ELSE Starts("edit", "default", Expand(args))

EditCommand(args) ==
    IF OpenLoop \/ args = <<>> THEN Says ELSE Starts("edit", "default", Expand(args))

FixCommand == IF OpenLoop \/ ~world.failing THEN Says ELSE Starts("edit", "default", <<"fix">>)

\* A path of the arguments, of the files changed last, or the workspace.
ExplainCommand(args) == Starts("readOnly", "default", IF args = <<>> THEN <<"workspace">> ELSE args)

\* start_review_diff_turn: the base is verified, then the diff taken.
ReviewDiff(words) ==
    IF world.git = "dirty" THEN Starts("readOnly", "default", words) ELSE Says

\* start_review_files_turn
ReviewFiles(words) ==
    IF world.matches /\ world.assembled THEN Starts("readOnly", "default", words) ELSE Says

ReviewCommand(args) ==
    LET got == ReviewArgs(args)
    IN  IF ~got.ok THEN Says
        ELSE IF got.files # "" THEN ReviewFiles(Expand(got.rest))
        ELSE ReviewDiff(Expand(got.rest))

\* The arguments were expanded with the line and are expanded again here.
PlanCommand(args) ==
    IF args = <<>> \/ ~world.assembled THEN Says ELSE Starts("readOnly", "default", Expand(args))

\* A path of the arguments, of the last context, or of the last changed file.
GenerateTests(args) ==
    LET got == TestArgs(args, "")
    IN  IF ~got.ok \/ (got.path = "" /\ ~world.assembled) THEN Says
        ELSE Starts("plain", "testsOnly", args)

CustomCommand(args) == Starts("plain", "default", args)

\* try_handle_slash_command.  The remaining commands only print or change the
\* session; /reindex opens a pulse for a session of its own.
Dispatch(words) ==
    LET r == Registered(words)
    IN  CASE r.id = "Edit"    -> EditCommand(r.args)
          [] r.id = "Fix"     -> FixCommand
          [] r.id = "Explain" -> ExplainCommand(r.args)
          [] r.id = "Review"  -> ReviewCommand(r.args)
          [] r.id = "Plan"    -> PlanCommand(r.args)
          [] r.id = "GenerateTests" -> GenerateTests(r.args)
          [] r.id = "Reindex" -> Starts("session", "default", <<>>)
          [] r.id = "none" /\ Head(words) \in CustomCommands -> CustomCommand(Tail(words))
          [] r.id = "none" /\ Head(words) \notin CustomCommands ->
                 Starts("plain", "default", words)
          [] OTHER -> Says

IsBang(words) == Head(words) = "!x"

\* on_user_input while a pulse is open.
WhileBusy(words) ==
    IF world.loop /\ Registered(words).id \in {"Edit", "Fix"} THEN Dispatch(words)
    ELSE IF world.pulse = "session" /\ IsBang(words) THEN Starts("session", "default", words)
    ELSE Says

\* on_user_input with no prompt pending.
OnInput(words) ==
    IF world.pulse # "idle" THEN WhileBusy(words)
    ELSE LET expanded == ExpandLine(words)
         IN  IF IsBang(expanded) THEN Starts("session", "default", expanded)
             ELSE Dispatch(expanded)

SlashInit == line = <<>> /\ world = (CHOOSE w \in Worlds : TRUE) /\ outcome = Says

TypeLine ==
    /\ line = <<>>
    /\ line' \in TypedLines /\ world' \in Worlds
    /\ UNCHANGED outcome

SubmitLine ==
    /\ line # <<>> /\ outcome = Says
    /\ outcome' = OnInput(line)
    /\ UNCHANGED <<line, world>>

SlashNext == TypeLine \/ SubmitLine

-----------------------------------------------------------------------------
SlashTypeOK == outcome.turn \in {"none", "plain", "readOnly", "edit", "session"}

\* While a pulse is open no line starts a turn: the one thing that may start is a
\* command beside a running command session.
BusyStartsNothing ==
    world.pulse # "idle" => outcome.turn \in {"none", "session"}

\* A command does no more than its description says: what is described as "no
\* patch" only ever starts a read-only turn, "no model pulse" none, "test files
\* only" has the policy for it, and only the edit loop leaves grants.
CommandsKeepTheirWord ==
    LET id == Registered(line).id
    IN  /\ id \in {"Explain", "Review", "Plan"} => outcome.turn \in {"none", "readOnly"}
        /\ id \in {"Run", "Test", "Context", "Mcp", "Tools", "Usage", "Diff", "MemoryAdd",
                   "MemoryShow", "New", "Resume", "Compact"} => outcome.turn = "none"
        /\ id = "GenerateTests" /\ outcome.turn # "none" => outcome.policy = "testsOnly"
        /\ outcome.grants => id \in {"Edit", "Fix"}

\* No command hides behind another: a line is accepted by at most one entry of the
\* registry, so that its order does not matter, and never names both a command
\* and a file of custom commands.
CommandsReachable ==
    \A i \in DOMAIN SlashTable : Accepts(SlashTable[i], line) =>
        /\ \A j \in DOMAIN SlashTable : Accepts(SlashTable[j], line) => i = j
        /\ line[1] \notin CustomCommands

\* What a file says is not read as a mention of another file: only the words the
\* user typed are expanded.  (/plan expands twice and is left out.)
MentionsExpandOnce ==
    Registered(line).id # "Plan" =>
        \A i \in DOMAIN outcome.prompt :
            outcome.prompt[i] # "deep" \/ \E j \in DOMAIN line : line[j] = "@b"
=============================================================================
