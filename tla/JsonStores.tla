------------------------------ MODULE JsonStores ------------------------------
(***************************************************************************)
(* Files that are read, changed in memory and written back as a whole:       *)
(* the registry of projects (projects/ProjectManager.ts), the research queue *)
(* and its jobs (research/AutoResearch.ts), the record of a session          *)
(* (core/session/SessionManager.ts) and the cost ledger                      *)
(* (telemetry/CostTracker.ts).  Nothing locks them: tools, commands, the     *)
(* dashboard and the daemon are processes of their own.                      *)
(***************************************************************************)
EXTENDS Integers, Sequences, SequencesExt, FiniteSets

CONSTANTS
  Clients,
  Paths,          \* directories of projects
  NameOf,         \* the name of each, its last component
  Priority,       \* of each question, by its number
  MaxOps          \* bound: operations

ASSUME StoresAssumption == DOMAIN NameOf = Paths /\ MaxOps \in Nat /\ Priority \in [1 .. MaxOps -> Int]

VARIABLES
  store,          \* the store that is used
  files,          \* the content of each file
  torn,           \* files that cannot be read: truncated to be written, or damaged
  doing,          \* by client: its operation, between load and write
  begun,          \* operations begun
  kept,           \* history: by file, what the operations put there, see Finish
  gone            \* history: by file, what they took away

storeVars == <<store, files, torn, doing, begun, kept, gone>>

FileOf == [register |-> "registry", setActive |-> "registry", setStatus |-> "registry", remove |-> "registry",
           enqueue |-> "queue", pop |-> "queue", persist |-> "jobs",
           create |-> "session", update |-> "session", record |-> "ledger"]

\* what a missing or unreadable file stands for
Blank(f) ==
  CASE f = "registry" -> [projects |-> <<>>, active |-> 0]
    [] f = "session" -> {}
    [] OTHER -> <<>>

Idle == [step |-> "idle"]

StoreInit ==
  /\ store \in {"projects", "research", "session", "ledger"}
  /\ files = [f \in {FileOf[op] : op \in DOMAIN FileOf} |-> Blank(f)]
  /\ torn = {}
  /\ doing = [c \in Clients |-> Idle]
  /\ begun = 0
  /\ kept = [f \in DOMAIN files |-> {}] /\ gone = [f \in DOMAIN files |-> {}]

Request(op, of) == [op |-> op, of |-> of]

\* What a client may ask for: a project by its path or its name, a question or a call by its number.
ProjectRequests ==
  {Request("register", p) : p \in Paths} \cup {Request("setStatus", p) : p \in Paths} \cup
  {Request(op, k) : op \in {"setActive", "remove"}, k \in Paths \cup {NameOf[p] : p \in Paths}}
ResearchRequests == {Request("enqueue", e) : e \in 1 .. MaxOps} \cup {Request("pop", "")}
SessionRequests == {Request("create", "start"), Request("update", "summary"), Request("update", "complete")}
LedgerRequests == {Request("record", e) : e \in 1 .. MaxOps}

Requests ==
  CASE store = "projects" -> ProjectRequests
    [] store = "research" -> ResearchRequests
    [] store = "session" -> SessionRequests
    [] OTHER -> LedgerRequests

-----------------------------------------------------------------------------
\* ProjectManager.ts: a key is a path or a name, and the first match counts
Matches(p, key) == key \in {p.path, p.name}
FirstMatch(data, key) == SelectInSeq(data.projects, LAMBDA p : Matches(p, key))
AllMatches(data, key) == {p \in ToSet(data.projects) : Matches(p, key)}

\* Mutant: register() does not look for the path.
RegisterAgain(data, path, id) ==
  [projects |-> Append(data.projects, [path |-> path, name |-> NameOf[path], id |-> id, status |-> "active"]),
   active |-> id]

Register(data, path, id) ==
  IF \E p \in ToSet(data.projects) : p.path = path THEN data
  ELSE [projects |-> Append(data.projects, [path |-> path, name |-> NameOf[path], id |-> id, status |-> "active"]),
        active |-> id]

SetActive(data, key) == [data EXCEPT !.active = data.projects[FirstMatch(data, key)].id]
SetStatus(data, key) ==
  {[data EXCEPT !.projects[FirstMatch(data, key)].status = status] : status \in {"active", "archived"}}

\* the elements at these places of a list, in their order
Place(places, i) == CHOOSE k \in places : Cardinality({j \in places : j <= k}) = i
ElementsAt(list, places) == [i \in 1 .. Cardinality(places) |-> list[Place(places, i)]]

\* every match goes, and active may be left behind
RemoveProject(data, key) ==
  LET rest == {i \in DOMAIN data.projects : ~Matches(data.projects[i], key)}
  IN [data EXCEPT !.projects = ElementsAt(data.projects, rest)]

\* AutoResearch.ts.  Mutant: an entry is queued last.
EnqueueLast(queue, entry) == Append(queue, entry)

\* push, and a stable sort by descending priority: into the queue, which is in this order,
\* before the first of lower priority
Enqueue(queue, entry) ==
  LET below == SelectInSeq(queue, LAMBDA q : Priority[q] < Priority[entry])
  IN IF below = 0 THEN Append(queue, entry) ELSE InsertAt(queue, below, entry)

\* persistJob: a job replaces the one with its id
Persist(jobs, job) ==
  LET at == SelectInSeq(jobs, LAMBDA j : j.entry = job.entry)
  IN IF at = 0 THEN Append(jobs, job) ELSE [jobs EXCEPT ![at] = job]

\* SessionManager.ts: update() sets fields of the record it has read
Update(record, field) == record \cup {field}

\* Whether the operation writes at all.
Writes(r, data) ==
  CASE r.op \in {"setActive", "setStatus", "remove"} -> AllMatches(data, r.of) # {}
    [] r.op = "pop" -> data # <<>>
    [] r.op = "update" -> data # {}
    [] OTHER -> TRUE

\* The contents an operation may write, id being that of a new project.
After(r, data, id) ==
  CASE r.op = "register" -> {Register(data, r.of, id)}
    [] r.op = "setActive" -> {SetActive(data, r.of)}
    [] r.op = "setStatus" -> SetStatus(data, r.of)
    [] r.op = "remove" -> {RemoveProject(data, r.of)}
    [] r.op = "enqueue" -> {Enqueue(data, r.of)}
    [] r.op = "pop" -> {Tail(data)}
    [] r.op = "persist" -> {Persist(data, r.of)}
    [] r.op = "create" -> {{r.of}}
    [] r.op = "update" -> {Update(data, r.of)}
    [] r.op = "record" -> {Append(data, r.of)}

\* What an operation puts into the file, and what it takes out.
Puts(r) == IF r.op \in {"setActive", "setStatus", "remove", "pop"} THEN {} ELSE {r.of}
Takes(r, data) ==
  CASE r.op = "remove" -> {p.path : p \in AllMatches(data, r.of)}
    [] r.op = "pop" -> {Head(data)}
    [] r.op = "persist" -> {j \in ToSet(data) : j.entry = r.of.entry /\ j # r.of}
    [] OTHER -> {}

\* what a file tells with this data in it
Told(f, data) ==
  CASE f = "registry" -> {p.path : p \in ToSet(data.projects)}
    [] f = "session" -> data
    [] OTHER -> ToSet(data)
Content(f) == Told(f, files[f])

-----------------------------------------------------------------------------
\* The file is read; an operation that finds nothing to change returns.
Load(c, r) ==
  LET f == FileOf[r.op]
      data == IF f \in torn THEN Blank(f) ELSE files[f]
  IN /\ doing' = [doing EXCEPT ![c] =
          IF Writes(r, data)
          THEN [step |-> "loaded", request |-> r, seen |-> data, id |-> begun + 1,
                changed |-> IF f \in torn THEN kept[f] ELSE {}]
          ELSE Idle]
     /\ UNCHANGED <<store, files, torn, kept, gone>>

\* questions and calls get a new id each, and a session is created first
Fresh1(r) ==
  /\ r.op \in {"enqueue", "record"} => r.of = begun + 1
  /\ store = "session" => (r.op = "create") = (begun = 0)

Begin(c) ==
  /\ doing[c] = Idle /\ begun < MaxOps
  /\ \E r \in Requests : Fresh1(r) /\ Load(c, r)
  /\ begun' = begun + 1

\* open(O_TRUNC)
Truncate(c) ==
  /\ doing[c].step = "loaded"
  /\ torn' = torn \cup {FileOf[doing[c].request.op]}
  /\ doing' = [doing EXCEPT ![c].step = "writing"]
  /\ UNCHANGED <<store, files, begun, kept, gone>>

\* runBackgroundPass goes on with the entry it took: a job that is persisted as running,
\* and as done or failed when it was researched
Follow(c) ==
  LET r == doing[c].request
      Job(entry, status) == [step |-> "job", request |-> Request("persist", [entry |-> entry, status |-> status])]
  IN CASE r.op = "pop" -> {Job(Head(doing[c].seen), "running")}
       [] r.op = "persist" /\ r.of.status = "running" -> {Job(r.of.entry, "done"), Job(r.of.entry, "failed")}
       [] OTHER -> {Idle}

\* Another client's operation is in progress: it has not seen this one, and writes over it.
Overlapped(d, f, items) ==
  IF doing[d].step \in {"loaded", "writing", "overwriting"} /\ FileOf[doing[d].request.op] = f
  THEN [doing[d] EXCEPT !.changed = @ \cup items, !.step = IF @ = "writing" THEN "overwriting" ELSE @]
  ELSE doing[d]

\* the content is written from the start of the file: when another client has opened and
\* written it since it was truncated, a rest of that may stay behind
Finish(c) ==
  /\ doing[c].step \in {"writing", "overwriting"}
  /\ LET me == doing[c]
         f == FileOf[me.request.op]
         puts == Puts(me.request)
         takes == Takes(me.request, me.seen)
     IN /\ \E data \in After(me.request, me.seen, me.id) : files' = [files EXCEPT ![f] = data]
        /\ torn' \in {torn \ {f}} \cup (IF me.step = "overwriting" THEN {torn \cup {f}} ELSE {})
        /\ \E next \in Follow(c) :
             doing' = [d \in Clients |-> IF d = c THEN next ELSE Overlapped(d, f, puts \cup takes)]
        /\ kept' = [kept EXCEPT ![f] = (@ \ (me.changed \cup takes)) \cup puts]
        /\ gone' = [gone EXCEPT ![f] = (@ \ (me.changed \cup puts)) \cup takes]
  /\ UNCHANGED <<store, begun>>

Continue(c) ==
  /\ doing[c].step = "job"
  /\ Load(c, doing[c].request)
  /\ UNCHANGED begun

\* the process of a client ends; a pass loses the entry it took
Crash(c) ==
  /\ doing[c] # Idle
  /\ doing' = [doing EXCEPT ![c] = Idle]
  /\ UNCHANGED <<store, files, torn, begun, kept, gone>>

StoreNext == \E c \in Clients : Begin(c) \/ Continue(c) \/ Truncate(c) \/ Finish(c) \/ Crash(c)

-----------------------------------------------------------------------------
Readable(f) == f \notin torn

\* What an operation put into a file is lost, and what it took away is back, only when
\* another one overlapped it or found the file torn.  However they overlap, no path is
\* registered twice, a job has one record, and the queue is in the order of priority.
StoresKeep ==
  /\ \A f \in DOMAIN files : Readable(f) => kept[f] \subseteq Content(f) /\ gone[f] \cap Content(f) = {}
  /\ Readable("registry") => IsInjective([i \in DOMAIN files["registry"].projects |-> files["registry"].projects[i].path])
  /\ Readable("jobs") => IsInjective([i \in DOMAIN files["jobs"] |-> files["jobs"][i].entry])
  /\ Readable("queue") => \A i, j \in DOMAIN files["queue"] :
       i < j => Priority[files["queue"][i]] >= Priority[files["queue"][j]]
=============================================================================
