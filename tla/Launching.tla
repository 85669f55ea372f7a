------------------------------- MODULE Launching -------------------------------
(***************************************************************************)
(* What configuration and templates make the program write and start.        *)
(* templates/src/Scaffolder.ts copies a template's files into a directory    *)
(* that others write to, too, and then runs its commands one by one;         *)
(* core/src/mcp/buildMcpTools.ts connects the configured servers in turn and *)
(* collects their tools.  Both ask security/src/utils/allowedCommand.ts.     *)
(***************************************************************************)
EXTENDS Integers, Sequences, SequencesExt, FiniteSets

CONSTANTS
  FilePaths,          \* paths of a template's files, its variables replaced
  Denied,         \* those that resolveScaffoldPath refuses
  Templates,      \* [files, commands, fits]: fits says that the caps of sizes hold
  Lists,          \* allowlists: sets of [path, name], path "" for an entry without a slash
  ServerLists,    \* configured servers: [name, consented, stdio, command, tools]
  ToolName(_, _), \* the name a tool of a server is registered under
  ValidName(_),   \* makeMcpToolDefinition accepts it with its schema
  PerServer, MaxTotal  \* mcpMaxToolsPerServer, mcpMaxToolsTotal

ASSUME LaunchAssumption ==
  /\ Denied \subseteq FilePaths /\ PerServer \in Nat /\ MaxTotal \in Nat
  /\ \A t \in Templates : t.files \in Seq(FilePaths) /\ Len(t.commands) \in Nat
  /\ \A list \in ServerLists : Len(list) \in Nat /\ \A i \in 1 .. Len(list) : Len(list[i].tools) \in Nat

VARIABLES
  options,        \* of the scaffold: [overwrite, dryRun, postInstall]
  template,
  allowlist,      \* executables that the operator allows
  scaffold,       \* "new", "looking", "opening", "writing", "commands", "running", "done", "thrown"
  at,             \* the file or command that is worked on
  dest,           \* by path: "none", "theirs", "torn" or "template"
  before,         \* history: dest when the scaffold began
  written, skipped,       \* files, by their place in the template
  ran, failed,            \* commands, by their place in the template
  servers, nextServer, clients,   \* the configured servers, the next one and those connected
  mcpTools        \* what is registered: [name, server, tool], tool its place in the server's list

scaffoldVars == <<options, template, scaffold, at, dest, before, written, skipped, ran, failed>>
registryVars == <<servers, nextServer, mcpTools, clients>>
launchVars == <<scaffoldVars, allowlist, registryVars>>

-----------------------------------------------------------------------------
\* A string for a shell to run, as the check recognises one: after -c, -e, /C or /c as an
\* argument of its own.  Another way of asking for it (bash -lc, pwsh -Command) is not refused.
StringForShell(c) == c.shell /\ c.commandString = "-c"

\* resolveAllowedCommand: no shell with a command string; an entry with a slash allows its
\* path and its last component, one without the given or the resolved name
Allowed(c, list) ==
  /\ c.plain /\ list # {} /\ c.path # ""
  /\ ~StringForShell(c)
  /\ \E e \in list : IF e.path # "" THEN e.path = c.path \/ e.name = c.name
                                    ELSE e.name \in {c.name, c.given}

LaunchInit ==
  /\ options \in [overwrite : BOOLEAN, dryRun : BOOLEAN, postInstall : BOOLEAN]
  /\ template \in Templates /\ allowlist \in Lists
  /\ scaffold = "new" /\ at = 1
  /\ dest \in [FilePaths -> {"none", "theirs"}] /\ before = dest
  /\ written = {} /\ skipped = {} /\ ran = {} /\ failed = {}
  /\ servers \in ServerLists /\ nextServer = 1 /\ mcpTools = {} /\ clients = {}

Reaches(s) == scaffold' = s /\ UNCHANGED <<options, template, before>>

\* after a file or a command: the next one, of files the last of which is followed by commands
NextFile ==
  /\ at' = IF at < Len(template.files) THEN at + 1 ELSE 1
  /\ Reaches(IF at < Len(template.files) THEN "looking" ELSE "commands")

\* the caps are checked before anything is written
BeginScaffold ==
  /\ scaffold = "new"
  /\ Reaches(IF ~template.fits THEN "thrown" ELSE IF template.files = <<>> THEN "commands" ELSE "looking")
  /\ UNCHANGED <<at, dest, written, skipped, ran, failed>>

File == template.files[at]

\* resolveScaffoldPath: a path out of the directory, of a sensitive name or through a link
Refused == File \in Denied

\* Mutant: overwriting is the default.
KeepsOnlyDry == options.dryRun /\ dest[File] # "none"

Keeps == ~options.overwrite /\ dest[File] # "none"

\* a refused path ends the scaffold, with the files before it in place
LookAtFile ==
  /\ scaffold = "looking"
  /\ IF Refused
       THEN Reaches("thrown") /\ UNCHANGED <<at, written, skipped>>
     ELSE IF Keeps
       THEN skipped' = skipped \cup {at} /\ NextFile /\ UNCHANGED written
     ELSE IF options.dryRun
       THEN written' = written \cup {at} /\ NextFile /\ UNCHANGED skipped
       ELSE Reaches("opening") /\ UNCHANGED <<at, written, skipped>>
  /\ UNCHANGED <<dest, ran, failed>>

OpenForWriting ==
  /\ scaffold = "opening"
  /\ dest' = [dest EXCEPT ![File] = "torn"]
  /\ Reaches("writing")
  /\ UNCHANGED <<at, written, skipped, ran, failed>>

WriteContent ==
  /\ scaffold = "writing"
  /\ dest' = [dest EXCEPT ![File] = "template"]
  /\ written' = written \cup {at}
  /\ NextFile
  /\ UNCHANGED <<skipped, ran, failed>>

\* the file is a link by now, a directory, or the disk is full
FileFails ==
  /\ scaffold \in {"opening", "writing"}
  /\ Reaches("thrown")
  /\ UNCHANGED <<at, dest, written, skipped, ran, failed>>

Command == template.commands[at]
NextCommand == at' = at + 1 /\ Reaches("commands")

\* Mutant: the preview of a template runs its commands.
MayRunDry == options.postInstall

MayRun == options.postInstall /\ ~options.dryRun

\* skipped when it is not opted in, no plain command, or not allowed; or when it is declined
SkipCommand ==
  /\ scaffold = "commands" /\ at <= Len(template.commands)
  /\ NextCommand
  /\ UNCHANGED <<dest, written, skipped, ran, failed>>

StartCommand ==
  /\ scaffold = "commands" /\ at <= Len(template.commands)
  /\ MayRun /\ Allowed(Command, allowlist)
  /\ Reaches("running")
  /\ UNCHANGED <<at, dest, written, skipped, ran, failed>>

\* it exits, cannot be started, is stopped by its timeout or has written too much
CommandEnds ==
  /\ scaffold = "running"
  /\ \/ ran' = ran \cup {at} /\ UNCHANGED failed
     \/ failed' = failed \cup {at} /\ UNCHANGED ran
  /\ NextCommand
  /\ UNCHANGED <<dest, written, skipped>>

ReportScaffold ==
  /\ scaffold = "commands" /\ at > Len(template.commands)
  /\ Reaches("done")
  /\ UNCHANGED <<at, dest, written, skipped, ran, failed>>

SomebodyWrites(p) ==
  /\ dest[p] = "none" /\ scaffold \notin {"done", "thrown"}
  /\ dest' = [dest EXCEPT ![p] = "theirs"]
  /\ UNCHANGED <<options, template, scaffold, at, before, written, skipped, ran, failed>>

ScaffoldNext ==
  /\ \/ BeginScaffold \/ LookAtFile \/ OpenForWriting \/ WriteContent \/ FileFails
     \/ SkipCommand \/ StartCommand \/ CommandEnds \/ ReportScaffold
     \/ \E p \in FilePaths : SomebodyWrites(p)
  /\ UNCHANGED <<allowlist, registryVars>>

-----------------------------------------------------------------------------
Server == servers[nextServer]

Registered(s, i) == [name |-> ToolName(s.name, s.tools[i]), server |-> nextServer, tool |-> i]

\* Mutant: the loop over a server's tools ends at the first that is rejected.
CollectedToFirst(tools, s) ==
  tools \cup {Registered(s, i) : i \in {j \in 1 .. Len(s.tools) : \A k \in 1 .. j : ValidName(ToolName(s.name, s.tools[k]))}}

\* makeMcpToolDefinition: a name of no more than 256 word characters, and a schema that compiles
Acceptable(s, t) == ValidName(ToolName(s.name, t))

\* those of a server's tools, its first ones, that are acceptable and whose name is not taken
NewTools(tools, s) ==
  LET first == {i \in 1 .. Len(s.tools) : i <= PerServer /\ Acceptable(s, s.tools[i])}
      Name(i) == ToolName(s.name, s.tools[i])
  IN {i \in first : /\ \A t \in tools : t.name # Name(i)
                    /\ \A j \in first : j < i => Name(j) # Name(i)}

\* they are registered in turn, as long as there is room
Collected(tools, s) ==
  LET fresh == NewTools(tools, s)
  IN tools \cup {Registered(s, i) : i \in
                   {i \in fresh : Cardinality({j \in fresh : j < i}) < MaxTotal - Cardinality(tools)}}

\* Mutant: a full registry does not keep a server from being started.
WantedAnyway(s) == s.consented /\ s.stdio /\ allowlist # {}

Wanted(s) == s.consented /\ s.stdio /\ allowlist # {} /\ Cardinality(mcpTools) < MaxTotal

\* a server that is not wanted, not allowed or does not connect is left out, and the rest goes on
LeaveOut ==
  /\ nextServer <= Len(servers)
  /\ nextServer' = nextServer + 1
  /\ UNCHANGED <<servers, mcpTools, clients>>

ConnectServer ==
  /\ nextServer <= Len(servers)
  /\ Wanted(Server) /\ Allowed(Server.command, allowlist)
  /\ clients' = clients \cup {nextServer}
  /\ mcpTools' = Collected(mcpTools, Server)
  /\ nextServer' = nextServer + 1
  /\ UNCHANGED servers

RegistryNext == (LeaveOut \/ ConnectServer) /\ UNCHANGED <<scaffoldVars, allowlist>>

-----------------------------------------------------------------------------
\* Without leave to overwrite, what was there stays; a preview changes nothing and runs nothing;
\* a scaffold that ends has dealt with each file, and what it says it wrote is there; and a
\* command runs when every file has been dealt with.
ScaffoldSound ==
  /\ ~options.overwrite => \A p \in FilePaths : before[p] = "theirs" => dest[p] = "theirs"
  /\ options.dryRun => /\ \A p \in FilePaths : dest[p] \in {"none", "theirs"}
                       /\ ran \cup failed = {} /\ scaffold # "running"
  /\ scaffold \in {"running", "done"} =>
       /\ written \cup skipped = DOMAIN template.files /\ written \cap skipped = {}
       /\ ~options.dryRun => \A i \in written : dest[template.files[i]] = "template"

\* No name is registered twice, no tool by a server that is not connected, and no more than the
\* cap; a server is started only by consent and while there is room; and as long as room is
\* left, an earlier server or tool that is left out takes nothing from the ones behind it.
RegistrySound ==
  /\ \A t, u \in mcpTools : t.name = u.name => t = u
  /\ \A t \in mcpTools : t.server \in clients
  /\ Cardinality(mcpTools) <= MaxTotal
  /\ \A c \in clients :
       /\ servers[c].consented
       /\ Cardinality({t \in mcpTools : t.server < c}) < MaxTotal
  /\ Cardinality(mcpTools) < MaxTotal =>
       \A c \in clients : \A i \in 1 .. Len(servers[c].tools) :
         i <= PerServer /\ Acceptable(servers[c], servers[c].tools[i]) =>
           \E t \in mcpTools : t.name = ToolName(servers[c].name, servers[c].tools[i])
=============================================================================
