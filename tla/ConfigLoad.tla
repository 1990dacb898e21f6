------------------------------ MODULE ConfigLoad ------------------------------
(***************************************************************************)
(* How the configuration of a process comes about: the system, user and    *)
(* repo files and the environment are read and validated one by one, laid  *)
(* over each other key by key, and resolved with their defaults.  `vex     *)
(* doctor` reads the same places on its own, without validating them, to   *)
(* say what the configuration is.                                          *)
(*                                                                         *)
(* Abstractions.  A layer is a function of keys; NotSet is a key it does   *)
(* not have.  The keys of sections ([api], [compaction], ...) are keys     *)
(* like the others, since sections are merged key by key.  One key stands  *)
(* for each kind of treatment: "dir" for the plain ones (model_name, token *)
(* budgets, profile ...), "backend" for those validated in files and       *)
(* environment alike (protocol, tool-call mode, api transport).  "bad" is  *)
(* a value that does not parse, "blank" one of white space; a padded value *)
(* has white space around it, which only some of the readers take off.     *)
(* Padding is offered where that is told apart, in URLs and directories:   *)
(* the values that are parsed are trimmed by their parsers.                *)
(***************************************************************************)
EXTENDS Integers, Sequences

CONSTANTS
    SystemLayers, UserLayers, RepoLayers, EnvLayers,    \* what may be found there
    McpLists,                                            \* lists of MCP servers, by name
    Unpadded                                             \* what is inside a padded value

McpServers == [name : STRING, transport : {"stdio", "http"}, command : BOOLEAN, args : BOOLEAN,
               url : BOOLEAN, headers : BOOLEAN]

NotSet == "unset"
Keys == {"url", "dir", "tls", "notes", "hooks", "mcp", "apikey", "skipverify", "sandbox", "require",
         "backend", "enabled", "percent", "token"}
Empty == [k \in Keys |-> NotSet]
With(k, v) == [Empty EXCEPT ![k] = v]

ASSUME ConfigAssumption ==
    /\ SystemLayers \cup UserLayers \cup RepoLayers \cup EnvLayers \subseteq [Keys -> STRING]
    /\ \A v \in DOMAIN McpLists : McpLists[v] \in Seq(McpServers)
    /\ \A v \in DOMAIN Unpadded :
          v \notin {NotSet, "", "blank"} /\ Unpadded[v] \notin DOMAIN Unpadded \cup {NotSet, "blank"}
    /\ \A l \in SystemLayers \cup UserLayers \cup RepoLayers \cup EnvLayers :
          /\ l["mcp"] \in DOMAIN McpLists \cup {NotSet}
          /\ \A k \in Keys \ {"url", "dir"} : l[k] \notin DOMAIN Unpadded

VARIABLES system, user, repo, env, loaded, doctor
configVars == <<system, user, repo, env, loaded, doctor>>

Failed == [ok |-> FALSE, conf |-> Empty, servers |-> <<>>]

ConfigInit ==
    /\ system \in SystemLayers /\ user = Empty /\ repo = Empty /\ env = Empty
    /\ loaded = Failed /\ doctor = Failed

-----------------------------------------------------------------------------
(* MCP servers.                                                            *)

\* validate_mcp_servers_with_mode: names are good and different, and a server has
\* what its transport needs and nothing of the other.
GoodServer(s) ==
    /\ s.name # "bad"
    /\ s.transport = "stdio" => s.command /\ ~s.url /\ ~s.headers
    /\ s.transport = "http"  => s.url /\ ~s.command /\ ~s.args

GoodServers(list) ==
    /\ \A i \in DOMAIN list : GoodServer(list[i])
    /\ \A i, j \in DOMAIN list : list[i].name = list[j].name => i = j

\* trim, and a value of white space alone is none.
Trim(v) == CASE v = "blank" -> NotSet [] v \in DOMAIN Unpadded -> Unpadded[v] [] OTHER -> v

ServersOf(v) == IF v = NotSet THEN <<>> ELSE McpLists[v]

-----------------------------------------------------------------------------
(* Layers.                                                                 *)

\* parse_model_backend, parse_sandbox_kind, parse_api_transport and the like, and
\* the types of the keys that are no text.
Parses(v) == v \notin {"bad", "blank"}
ParsedKeys == {"backend", "sandbox", "require", "tls", "skipverify", "enabled", "percent"}

\* load_config_layer: no token in a file, every value parses, no verification is
\* skipped, the servers are good.
FileIsGood(l) ==
    /\ l["token"] = NotSet
    /\ \A k \in Keys : l[k] # "bad" /\ (k \in ParsedKeys => Parses(l[k]))
    /\ l["skipverify"] # "true"
    /\ GoodServers(ServersOf(l["mcp"]))

\* load_layers: what a repo file must not say.
RepoIsModest(r) ==
    r["tls"] # "true" /\ {r["notes"], r["hooks"], r["mcp"], r["apikey"]} = {NotSet}

SystemIsModest(s) == s["mcp"] = NotSet

\* read_env_layer: blank variables are unset and the URL is trimmed; what does not parse is
\* refused, but for the sandbox, which is not looked at here.  Skipping verification is always
\* set, to false when the variable is not there; for some keys there is none.
EnvIsGood(e) ==
    \A k \in {"backend", "require", "tls", "skipverify"} : e[k] = "blank" \/ Parses(e[k])
EnvLayer(e) ==
    [k \in Keys |-> IF k = "skipverify" /\ e[k] \in {NotSet, "blank"} THEN "false"
                    ELSE IF e[k] = "blank" \/ k \in {"mcp", "notes", "hooks", "enabled", "percent"}
                    THEN NotSet ELSE IF k = "url" THEN Trim(e[k]) ELSE e[k]]

\* Mutant: a section of the upper layer replaces that of the lower one.
ApplyOver_Sections(base, over) ==
    LET whole == \E k \in {"enabled", "percent"} : over[k] # NotSet
    IN  [k \in Keys |-> IF over[k] # NotSet \/ (whole /\ k \in {"enabled", "percent"})
                        THEN over[k] ELSE base[k]]

\* apply_over
ApplyOver(base, over) == [k \in Keys |-> IF over[k] # NotSet THEN over[k] ELSE base[k]]

\* load_layers
Merged == ApplyOver(ApplyOver(ApplyOver(ApplyOver(Empty, system), user), repo), EnvLayer(env))

-----------------------------------------------------------------------------
(* Resolving.                                                              *)

Clamp10to99(v) == CASE v = NotSet -> "80" [] v = "0" -> "10" [] v = "200" -> "99" [] OTHER -> v

\* resolve_compaction_config, resolve_undo_config: defaults and limits.
ResolveSections(m) == [m EXCEPT !["enabled"] = IF @ = NotSet THEN "false" ELSE @,
                                !["percent"] = Clamp10to99(@)]

\* resolve_api_config
ResolveApi(m) == [m EXCEPT !["skipverify"] = IF @ = NotSet THEN "false" ELSE @]

\* resolve_config: defaults, and what does not parse is as if it were not there.
Resolve(m) ==
    [ResolveApi(ResolveSections(m)) EXCEPT
        !["url"] = IF @ = NotSet THEN "" ELSE @,
        !["sandbox"] = IF @ = NotSet \/ ~Parses(@) THEN "passthrough" ELSE @,
        !["require"] = IF @ = NotSet THEN "false" ELSE @,
        !["tls"] = IF @ = NotSet THEN "false" ELSE @,
        !["backend"] = IF @ # NotSet THEN @
                       ELSE IF Trim(m["url"]) \in {NotSet, "local"} THEN "local" ELSE "server"]

\* load_layers
Load ==
    IF /\ FileIsGood(system) /\ FileIsGood(user) /\ FileIsGood(repo)
       /\ RepoIsModest(repo) /\ SystemIsModest(system) /\ EnvIsGood(env)
       /\ GoodServers(ServersOf(Merged["mcp"]))
    THEN [ok |-> TRUE, conf |-> Resolve(Merged), servers |-> ServersOf(Merged["mcp"])]
    ELSE Failed

\* load_doctor_layer: what is of another type is as if it were not there; the URL is trimmed.
DoctorLayer(l) ==
    [l EXCEPT !["url"] = IF @ = "bad" THEN NotSet ELSE Trim(@),
              !["dir"] = IF @ = "bad" THEN NotSet ELSE @,
              !["require"] = IF Parses(@) THEN @ ELSE NotSet]

\* doctor_rollup: the first place that says something.  Of the environment the directory is
\* trimmed too.
OrElse(first, second) == IF first # NotSet THEN first ELSE second
DoctorEnv(k) == IF k = "dir" THEN Trim(EnvLayer(env)[k]) ELSE EnvLayer(env)[k]
DoctorSays(k) ==
    OrElse(DoctorEnv(k),
           OrElse(DoctorLayer(repo)[k], OrElse(DoctorLayer(user)[k], DoctorLayer(system)[k])))

DoctorRollup ==
    IF env["require"] = "bad" THEN Failed
    ELSE [ok |-> TRUE,
          conf |-> [Empty EXCEPT !["url"] = DoctorSays("url"), !["dir"] = DoctorSays("dir"),
                                 !["require"] = OrElse(DoctorSays("require"), "false"),
                                 !["mcp"] = DoctorSays("mcp")],
          servers |-> ServersOf(DoctorSays("mcp"))]

-----------------------------------------------------------------------------
\* The user's file, the repo's and the environment are what they are; then the
\* program and doctor read them.
FindLayers ==
    /\ user = Empty /\ repo = Empty /\ env = Empty /\ ~doctor.ok /\ ~loaded.ok
    /\ user' \in UserLayers /\ repo' \in RepoLayers /\ env' \in EnvLayers
    /\ UNCHANGED <<system, loaded, doctor>>

LoadConfig ==
    /\ ~loaded.ok
    /\ loaded' = Load /\ loaded'.ok
    /\ UNCHANGED <<system, user, repo, env, doctor>>

RunDoctor ==
    /\ ~doctor.ok
    /\ doctor' = DoctorRollup
    /\ UNCHANGED <<system, user, repo, env, loaded>>

ConfigNext == FindLayers \/ LoadConfig \/ RunDoctor

ConfigSpec == ConfigInit /\ [][ConfigNext]_configVars

-----------------------------------------------------------------------------
ConfigTypeOK == loaded.ok \in BOOLEAN /\ DOMAIN loaded.conf = Keys /\ doctor.ok \in BOOLEAN

Reported(k) == {l \in {system, user, repo, EnvLayer(env)} : l[k] # NotSet}

\* Five keys are not a cloned repository's to set: in what was loaded the notes path, the
\* hooks, the MCP servers and the API key come from the user, the system or the environment,
\* and so does leaving the model's certificate unchecked.  Of the other keys it may decide
\* any, the model URL and the sandbox among them.  No file turns api.tls_skip_verify on.
RepoStaysModest ==
    loaded.ok =>
        /\ loaded.conf["skipverify"] = "true" => env["skipverify"] = "true"
        /\ \A k \in {"notes", "hooks", "mcp", "apikey"} :
              loaded.conf[k] \in {system[k], user[k], EnvLayer(env)[k], NotSet}
        /\ loaded.conf["tls"] = "true" => "true" \in {system["tls"], user["tls"], env["tls"]}

\* The key that is nearest decides, for sections too: what one file says of a
\* section does not hide what another says of the rest of it.
NearestDecides ==
    loaded.ok => \A k \in {"enabled", "percent", "dir", "tls"} :
        LET said == <<EnvLayer(env)[k], repo[k], user[k], system[k]>>
            Nearest(i) == said[i] # NotSet /\ \A j \in 1 .. i - 1 : said[j] = NotSet
        IN  \A i \in 1 .. 4 : Nearest(i) => loaded.conf[k] \in {said[i], Clamp10to99(said[i])}

\* A sandbox that some layer asks for is not dropped by a slip elsewhere: commands
\* run unconfined only if no layer sets it or one of them asks for that.  A slip in
\* the environment variable is not caught.
SandboxKept ==
    loaded.ok /\ loaded.conf["sandbox"] = "passthrough" =>
        \/ Reported("sandbox") = {}
        \/ \E l \in Reported("sandbox") : l["sandbox"] = "passthrough"
        \/ env["sandbox"] = "bad"

\* Every server that will be started can be: it has a name of its own and what its
\* transport needs.
ServersUsable ==
    \A i \in DOMAIN loaded.servers :
        /\ \A j \in DOMAIN loaded.servers : loaded.servers[i].name = loaded.servers[j].name => i = j
        /\ (loaded.servers[i].transport = "stdio") = loaded.servers[i].command
        /\ (loaded.servers[i].transport = "http") = loaded.servers[i].url

\* Doctor tells what the program would use, with two exceptions: white space around a model
\* URL of a file or a directory of the environment, which the program keeps and doctor takes
\* off, and a file whose model URL is nothing but that, which for the program hides the URLs
\* of the files behind it.
DoctorAgrees ==
    loaded.ok /\ doctor.ok =>
        /\ doctor.conf["dir"] = loaded.conf["dir"]
           \/ (loaded.conf["dir"] = env["dir"] /\ doctor.conf["dir"] = Trim(env["dir"]))
        /\ doctor.conf["require"] = loaded.conf["require"]
        /\ doctor.servers = loaded.servers
        /\ "blank" \notin {repo["url"], user["url"], system["url"]} =>
              OrElse(doctor.conf["url"], "") = Trim(loaded.conf["url"])

\* Configuration over four layers: the repository's file stays modest, the nearest layer
\* decides each key, the sandbox of the files is kept, MCP servers are usable and the doctor
\* reports what the program uses.
ConfigSound ==
    /\ ConfigTypeOK /\ RepoStaysModest /\ NearestDecides /\ SandboxKept /\ ServersUsable
    /\ DoctorAgrees
=============================================================================
