------------------------------- MODULE MCStores -------------------------------
(* The stores, what is read and asked of them, and the applications around them, as parts   *)
(* of the system.  They share no state: a behaviour exercises one, chosen at the start.      *)
EXTENDS JsonStores, Telemetry, SettingsStore, AuditTail, WikiPages, PluginInstall,
        KnowledgeGraph, Applications, Launching

VARIABLE part

partVars == <<part, storeVars, telemetryVars, settingsVars, auditVars, wikiVars, pluginVars, queryVars,
              graphVars, desktopVars, voiceVars, launchVars>>

\* The parts that are not exercised wait in one of their initial states.
Idling ==
  /\ part # "stores" => store = "projects"
  /\ part # "telemetry" => measuring = "tools"
  /\ part # "settings" => user = NoFile /\ project = NoFile /\ environment = None
  /\ part # "plugins" => trusted = {}
  /\ part # "queries" => edges = {} /\ links = {} /\ query = Query("clusters", 0, 0, 0)
  /\ part # "graph" => graphStage = "reading"
  /\ part # "desktop" => darwin = TRUE
  /\ part # "voice" => voice = [stt |-> "unknown", tts |-> "elevenlabs", keys |-> {}]
  /\ part # "template" => /\ options = [overwrite |-> FALSE, dryRun |-> FALSE, postInstall |-> FALSE]
                          /\ template = CHOOSE t \in Templates : TRUE
                          /\ dest = [p \in FilePaths |-> "none"]
  /\ part # "servers" => servers = CHOOSE s \in ServerLists : TRUE
  /\ part \notin {"template", "servers"} => allowlist = {}

Init ==
  /\ part \in {"stores", "telemetry", "settings", "audit", "wiki", "plugins", "queries", "graph",
               "desktop", "voice", "template", "servers"}
  /\ Idling
  /\ StoreInit /\ TelemetryInit /\ SettingsInit /\ AuditInit /\ WikiInit /\ PluginInit /\ QueryInit
  /\ GraphInit /\ DesktopInit /\ VoiceInit /\ LaunchInit

Is(p) ==
  /\ part = p /\ part' = part
  /\ p # "stores" => UNCHANGED storeVars
  /\ p # "telemetry" => UNCHANGED telemetryVars
  /\ p # "settings" => UNCHANGED settingsVars
  /\ p # "audit" => UNCHANGED auditVars
  /\ p # "wiki" => UNCHANGED wikiVars
  /\ p # "plugins" => UNCHANGED pluginVars
  /\ p # "queries" => UNCHANGED queryVars
  /\ p # "graph" => UNCHANGED graphVars
  /\ p # "desktop" => UNCHANGED desktopVars
  /\ p # "voice" => UNCHANGED voiceVars
  /\ p \notin {"template", "servers"} => UNCHANGED launchVars

Next ==
  \/ Is("stores") /\ StoreNext
  \/ Is("telemetry") /\ TelemetryNext
  \/ Is("settings") /\ SettingsNext
  \/ Is("audit") /\ AuditNext
  \/ Is("wiki") /\ WikiNext
  \/ Is("plugins") /\ PluginNext
  \/ Is("queries") /\ QueryNext
  \/ Is("graph") /\ GraphNext
  \/ Is("desktop") /\ DesktopNext
  \/ Is("voice") /\ VoiceNext
  \/ Is("template") /\ ScaffoldNext
  \/ Is("servers") /\ RegistryNext

Spec == Init /\ [][Next]_partVars

\* Files keep what was put into them, whatever operations follow one another and wherever they
\* stop: registries, queues, records and ledgers, the settings, the pages of the wiki, and the
\* files of a template.
FilesKept ==
  /\ part = "stores" => StoresKeep
  /\ part = "settings" => SettingsSound
  /\ part = "wiki" => WikiSound
  /\ part = "template" => ScaffoldSound

\* What runs is what was signed, the desktop's window is the one it refers to, the history of a
\* spoken conversation stays in order, and tools are registered of servers consented to.
ApplicationsSound ==
  /\ part = "plugins" => PluginsSound
  /\ part = "desktop" => DesktopSound
  /\ part = "voice" => VoiceSound
  /\ part = "servers" => RegistrySound

\* What is read back, measured, divided and walked is what was logged, done and built, as the
\* definitions over the whole of it have it.
DataSound ==
  /\ part = "audit" => AuditSound
  /\ part = "telemetry" => TelemetrySound
  /\ part = "graph" => GraphSound
  /\ part = "queries" => QueriesSound

SomeNames == ("/a/x" :> "x" @@ "/b/x" :> "x")
SomePriorities == <<5, 9, 5>>

MoreTools == ("Read" :> {} @@ "mcp" :> {"mcp_x"} @@ "mcp_x" :> {})
SomeSessions ==
  LET S(id, recent, readable, counts) ==
        [id |-> id, recent |-> recent, readable |-> readable,
         calls |-> ("Read" :> counts[1] @@ "mcp" :> counts[2] @@ "mcp_x" :> counts[3])]
  IN SUBSET {S(1, TRUE, TRUE, <<2, 1, 0>>), S(2, TRUE, TRUE, <<0, 3, 1>>),
             S(3, FALSE, TRUE, <<9, 0, 0>>), S(4, TRUE, FALSE, <<0, 0, 9>>)}

Object(keys) == [kind |-> "object", keys |-> keys]
SomeUserFiles ==
  {NoFile, [kind |-> "torn", keys |-> None],
   Object("apiKey" :> 1 @@ "maxTurns" :> 9 @@ "mcpServers" :> 1)}
SomeProjectFiles ==
  {NoFile, [kind |-> "torn", keys |-> None],
   Object("provider" :> 2 @@ "apiKey" :> 7 @@ "maxTurns" :> 0 @@ "mcpServers" :> 2 @@ "embedderModel" :> 2)}
SoughtSlugs == ("Plain" :> "plain" @@ "Why?" :> "why-" @@ "Why" :> "why")
StoredSlugs == ("Plain" :> "plain" @@ "Why?" :> "why" @@ "Why" :> "why")

SomePatches == {"maxTurns" :> 9, "provider" :> 2, "provider" :> 0, "apiKey" :> 3}

SomeEntries ==
  LET E(version, integrity, key, signed, bundle) ==
        [version |-> version, integrity |-> integrity,
         signature |-> [key |-> key, version |-> signed, code |-> bundle]]
  IN {E(1, "c1", "ours", 1, "c1"), E(2, "none", "ours", 1, "c1"), E(1, "c2", "theirs", 1, "c2")}

SomeSources == <<"a.py", "d/b.py">>
SomeDirs == ("a.py" :> <<".">> @@ "d/b.py" :> <<".", "d">>)
SomeExtractions ==
  [symbols : {{}, {"K"}}, bases : {{}, {"B"}}, imports : {<<>>, <<"a.py">>, <<"d/b.py", "os.py", "d/b.py">>}]

SomeTargets ==
  {[kind |-> "url", at |-> "https"], [kind |-> "url", at |-> "file"],
   [kind |-> "path", at |-> "project"], [kind |-> "path", at |-> "elsewhere"]}
SomeTemplates ==
  LET Run(given, path, name, string) ==
        [given |-> given, path |-> path, name |-> name, plain |-> TRUE,
         shell |-> name = "bash", commandString |-> string]
      commands == <<Run("bun", "/opt/bun", "bun", "none"), Run("sh", "/bin/bash", "bash", "-c"),
                    Run("sh", "/bin/bash", "bash", "-lc")>>
  IN {[files |-> fs, commands |-> commands, fits |-> TRUE] :
        fs \in {<<"a", "b">>, <<"a", "a">>, <<"a", "up">>, <<>>}}
     \cup {[files |-> <<"a">>, commands |-> <<>>, fits |-> FALSE]}
SomeLists == {{}, {[path |-> "", name |-> "bun"]}, {[path |-> "/bin/bash", name |-> "bash"], [path |-> "", name |-> "sh"]}}
SomeServers ==
  LET S(name, consented, tools) ==
        [name |-> name, consented |-> consented, stdio |-> TRUE, tools |-> tools,
         command |-> [given |-> "bun", path |-> "/opt/bun", name |-> "bun", plain |-> TRUE,
                      shell |-> FALSE, commandString |-> "none"]]
  IN {<<S("s", TRUE, a), S("t", c, <<"bad", "x", "y", "z">>), S("s__x", TRUE, b)>> :
        a \in {<<"x__y", "x">>, <<>>}, b \in {<<"y", "w">>}, c \in BOOLEAN}
RegisteredAs(server, tool) == IF server = "s__x" /\ tool = "y" THEN <<"s", "x__y">> ELSE <<server, tool>>
Registrable(name) == name[2] # "bad"
=============================================================================
