----------------------------- MODULE SettingsStore -----------------------------
(***************************************************************************)
(* core/src/state/Settings.ts and the dashboard that reads and writes the    *)
(* settings, apps/dashboard/src/DashboardRouter.ts.  Settings come in layers *)
(* of which the project's own file is the untrusted one.  The dashboard's    *)
(* POST reads the user's file, truncates it and writes it, a step each, and  *)
(* nothing keeps two POSTs apart.  A value is a number: 0 is one that does   *)
(* not validate.                                                             *)
(***************************************************************************)
EXTENDS Naturals, FiniteSets, Functions, TLC

CONSTANTS
  Posts,          \* POSTs to /api/settings
  Patches,        \* bodies: functions from keys to values
  UserFiles,      \* what the user's file may hold at first
  ProjectFiles,   \* what a clone may bring along
  MaxTurnsValue   \* upper end of a clamped setting

ASSUME SettingsAssumption == MaxTurnsValue \in Nat \ {0}

VARIABLES
  user,           \* ~/.cowork/settings.json: [kind, keys], kind "missing", "torn" or "object"
  project,        \* the project's file, the same
  environment,    \* the layer of environment variables
  posts,          \* by POST: [stage, patch, read, alone]
  settled,        \* history: keys that saved POSTs, none overlapping, left behind
  reply           \* the last reply: [status, shows]

settingsVars == <<user, project, environment, posts, settled, reply>>

PatchKeys == {"provider", "maxTurns"}
Untrusted == {"provider", "maxTurns", "apiKey", "mcpServers"}
Credentials == {"apiKey", "mcpServers"}
Keys == Untrusted \cup {"embedderModel"}

None == [k \in {} |-> 0]
NoFile == [kind |-> "missing", keys |-> None]
Defaults == [k \in Keys |-> IF k \in PatchKeys THEN 1 ELSE 0]

\* One layer over another.
Over(f, g) == [k \in DOMAIN f \cup DOMAIN g |-> IF k \in DOMAIN f THEN f[k] ELSE g[k]]

-----------------------------------------------------------------------------
Clamped(v) == IF v > MaxTurnsValue THEN MaxTurnsValue ELSE v

\* Mutant: numbers are checked, names are not.
ValidNumbers(s) == s["maxTurns"] # 0

Valid(s) == s["maxTurns"] # 0 /\ s["provider"] # 0

Validated(s) == [s EXCEPT !["maxTurns"] = Clamped(@)]

\* validateSettingsPatch: known keys, valid over the defaults, clamped
PatchOk(patch) == DOMAIN patch \subseteq PatchKeys /\ Valid(Over(patch, Defaults))
PatchOut(patch) == Restrict(Validated(Over(patch, Defaults)), DOMAIN patch)

\* tryLoadJson: JSON that does not parse is thrown, and every other trouble is an empty layer
Loads(file) == file.kind # "torn"
Held(file) == IF file.kind = "object" THEN file.keys ELSE None

\* Mutant: a key is untrusted only when the user's file has it, too.
TrustedOverUser(keys, file) == Restrict(keys, DOMAIN keys \ (Untrusted \cap DOMAIN file))

Trusted(keys, file) == Restrict(keys, DOMAIN keys \ Untrusted)

Merged(file, layer) == Over(environment, Over(Trusted(layer, file), Over(file, Defaults)))

\* resolveSettings: of the user's file and the one in the project
Resolves(file, clone) == Loads(file) /\ Loads(clone) /\ Valid(Merged(Held(file), Held(clone)))
Resolved(file, clone) == Validated(Merged(Held(file), Held(clone)))

-----------------------------------------------------------------------------
SettingsInit ==
  /\ user \in UserFiles /\ project \in ProjectFiles
  /\ environment \in {None, "maxTurns" :> 2}
  /\ posts = [p \in Posts |-> [stage |-> "new", patch |-> None, read |-> None, alone |-> TRUE]]
  /\ settled = Held(user)
  /\ reply = [status |-> 0, shows |-> {}]

Underway == {p \in Posts : posts[p].stage \in {"reading", "read", "writing"}}

Reply(status, shows) == reply' = [status |-> status, shows |-> shows]

\* /health and the page are served to anybody; of the rest, /api/ needs the token
Page(path, token) ==
  /\ Reply(CASE path \in {"/health", "/"} -> 200
                   [] path = "/elsewhere" -> 404
                   [] path = "/api/unknown" -> IF token THEN 404 ELSE 401, {})
  /\ UNCHANGED <<user, project, environment, posts, settled>>

\* the feeds of the project's stores, each read from its file when asked for; a feed whose
\* file does not load is answered with 500, the graph with an empty one
Feed(path, token) ==
  /\ \E loads \in BOOLEAN :
       Reply(IF ~token THEN 401 ELSE IF loads \/ path = "/api/graph" THEN 200 ELSE 500,
             IF token /\ loads THEN {"feed"} ELSE {})
  /\ UNCHANGED <<user, project, environment, posts, settled>>

Action(action, token) ==
  /\ Reply(IF ~token THEN 401
                           ELSE IF action \in {"build-graph", "export-logs"} THEN 200 ELSE 403,
           IF token /\ action = "export-logs" THEN {"audit"} ELSE {})
  /\ UNCHANGED <<user, project, environment, posts, settled>>

\* Mutant: servers that run as child processes are shown.
ShownServers(s) == DOMAIN s \ {"apiKey"}

Shown(s) == DOMAIN s \ Credentials

GetSettings(token) ==
  /\ IF token /\ Resolves(user, project)
       THEN Reply(200, Shown(Resolved(user, project)))
       ELSE Reply(IF token THEN 500 ELSE 401, {})
  /\ UNCHANGED <<user, project, environment, posts, settled>>

\* a body too long, or no JSON, or not a patch
PostRefused(token, body) ==
  /\ body \in {"long", "garbage"} \cup {"patch"}
  /\ Reply(CASE ~token -> 401 [] body = "long" -> 413 [] OTHER -> 400, {})
  /\ body = "patch" /\ token => \E patch \in Patches : ~PatchOk(patch)
  /\ UNCHANGED <<user, project, environment, posts, settled>>

PostBegin(p, patch) ==
  /\ posts[p].stage = "new" /\ PatchOk(patch)
  /\ posts' = [q \in Posts |->
       IF q = p THEN [stage |-> "reading", patch |-> PatchOut(patch), read |-> None, alone |-> Underway = {}]
       ELSE IF q \in Underway THEN [posts[q] EXCEPT !.alone = FALSE] ELSE posts[q]]
  /\ UNCHANGED <<user, project, environment, settled, reply>>

\* an unreadable file counts as a new one
PostRead(p) ==
  /\ posts[p].stage = "reading"
  /\ posts' = [posts EXCEPT ![p].stage = "read", ![p].read = Held(user)]
  /\ UNCHANGED <<user, project, environment, settled, reply>>

PostTruncate(p) ==
  /\ posts[p].stage = "read"
  /\ user' = [kind |-> "torn", keys |-> None]
  /\ posts' = [posts EXCEPT ![p].stage = "writing"]
  /\ UNCHANGED <<project, environment, settled, reply>>

\* Mutant: the patch replaces the file.
WrittenAlone(p) == posts[p].patch

Written(p) == Over(posts[p].patch, posts[p].read)

PostWrite(p) ==
  /\ posts[p].stage = "writing"
  /\ user' = [kind |-> "object", keys |-> Written(p)]
  /\ posts' = [posts EXCEPT ![p].stage = "saved"]
  /\ settled' = IF posts[p].alone THEN Over(posts[p].patch, settled) ELSE None
  /\ Reply(200, DOMAIN posts[p].patch)
  /\ UNCHANGED <<project, environment>>

\* the process dies, and its requests with it
DashboardStops ==
  /\ Underway # {}
  /\ posts' = [p \in Posts |-> IF p \in Underway THEN [posts[p] EXCEPT !.stage = "lost"] ELSE posts[p]]
  /\ settled' = IF user.kind = "torn" THEN None ELSE settled
  /\ UNCHANGED <<user, project, environment, reply>>

SettingsNext ==
  \/ \E token \in BOOLEAN :
       \/ \E path \in {"/health", "/", "/elsewhere", "/api/unknown"} : Page(path, token)
       \/ \E path \in {"/api/feed", "/api/graph"} : Feed(path, token)
       \/ \E action \in {"build-graph", "export-logs", "trigger-agent"} : Action(action, token)
       \/ GetSettings(token)
       \/ \E body \in {"long", "garbage", "patch"} : PostRefused(token, body)
  \/ \E p \in Posts :
       \/ \E patch \in Patches : PostBegin(p, patch)
       \/ PostRead(p) \/ PostTruncate(p) \/ PostWrite(p)
  \/ DashboardStops

-----------------------------------------------------------------------------
\* A clone chooses no setting that a project is not trusted with, and keeps the others from
\* resolving by a file that is no JSON only; what the dashboard saves resolves again, and POSTs
\* that did not overlap lose no key of the file, their own or the user's.  No reply shows a
\* credential.
SettingsSound ==
  /\ \A clone \in ProjectFiles :
       /\ Resolves(user, clone) <=> Loads(clone) /\ Resolves(user, NoFile)
       /\ Resolves(user, clone) => \A k \in Untrusted : Resolved(user, clone)[k] = Resolved(user, NoFile)[k]
  /\ \A p \in Posts : posts[p].stage = "saved" =>
       /\ \A k \in DOMAIN posts[p].patch : posts[p].patch[k] # 0
       /\ Validated(Over(posts[p].patch, Defaults)) = Over(posts[p].patch, Defaults)
  /\ user.kind = "torn" \/ \A k \in DOMAIN settled : k \in DOMAIN user.keys /\ user.keys[k] = settled[k]
  /\ reply.shows \cap Credentials = {}
=============================================================================
