--------------------------- MODULE KnowledgeGraph ----------------------------
(***************************************************************************)
(* packages/graphify: a project is read into a graph of its directories,     *)
(* files, symbols and imports (build/KnowledgeGraphBuilder.ts, Graph.ts),    *)
(* and a graph is divided into communities by Louvain's algorithm            *)
(* (cluster/Louvain.ts), a node visited at a time.                           *)
(***************************************************************************)
EXTENDS Integers, Sequences, SequencesExt, FiniteSets, Functions, TLC

CONSTANTS
  SourceFiles,    \* the project's paths, sorted
  DirsOf,         \* by file: the directories from the root down to it
  Extractions,    \* what is found in a file: [symbols, imports, bases], imports a sequence
  Vertices,       \* nodes of a graph to be divided: 1 .. n
  Weights,        \* of its edges, 0 for none
  MaxPasses       \* 8

ASSUME GraphAssumption ==
  /\ DOMAIN DirsOf = ToSet(SourceFiles) /\ Vertices = 1 .. Cardinality(Vertices)
  /\ Weights \subseteq Nat /\ MaxPasses \in Nat \ {0}

VARIABLES
  graphStage,     \* "reading", "linking", "built", "dividing" or "divided"
  unread,         \* files still to be read
  nodes,          \* nodesById, in order of insertion
  weight,         \* of the edges <<kind, source, target>> that there are
  pendingEdges,   \* what was extracted, to be added when all files were read
  held,           \* history: what the extractor found in each file it was given
  ties,           \* the graph to be divided: weights of its pairs
  community,      \* by vertex
  degree,         \* communityDegree
  visit,          \* [pass, at, improved]
  quality         \* history: the modularity, times four squares of the total weight

buildVars == <<unread, nodes, weight, pendingEdges, held>>
divideVars == <<community, degree, visit, quality>>
graphVars == <<graphStage, buildVars, ties, divideVars>>

Pairs == {p \in Vertices \X Vertices : p[1] < p[2]}

-----------------------------------------------------------------------------
Symbol(f, s) == f \o ":" \o s
\* extractors name a base class without knowing where it is
Unknown(base) == "class:?:" \o base

Upsert(ns, n) == IF n \in ToSet(ns) THEN ns ELSE Append(ns, n)

\* Mutant: an edge that is there already is left as it is.
MergedEdgeOnce(edges, e) == edges @@ (e :> 1)

MergedEdge(edges, e) == IF e \in DOMAIN edges THEN [edges EXCEPT ![e] = @ + 1] ELSE edges @@ (e :> 1)

\* an edge needs both of its ends, and two of them
AddEdge(edges, ns, e) ==
  IF {e[2], e[3]} \subseteq ToSet(ns) /\ e[2] # e[3] THEN MergedEdge(edges, e) ELSE edges

\* linkDirectories: every directory on the way contains the next, and the last the file
PathEdges(f) ==
  LET path == Append(DirsOf[f], f)
  IN [i \in 1 .. Len(path) - 1 |-> <<"contains", path[i], path[i + 1]>>]

Extracted(f, x) ==
  LET symbols == SetToSeq(x.symbols)
      bases == SetToSeq(x.symbols \X x.bases)
  IN [i \in DOMAIN symbols |-> <<"contains", f, Symbol(f, symbols[i])>>]
       \o [i \in DOMAIN bases |-> <<"extends", Symbol(f, bases[i][1]), Unknown(bases[i][2])>>]
       \o [i \in DOMAIN x.imports |-> <<"imports", f, x.imports[i]>>]

Skip(f) ==
  /\ graphStage = "reading" /\ unread # <<>> /\ f = Head(unread)
  /\ unread' = Tail(unread)
  /\ graphStage' = IF unread' = <<>> THEN "linking" ELSE graphStage
  /\ UNCHANGED <<nodes, weight, pendingEdges, held, ties, divideVars>>

\* the file and its directories are in the graph before its extractor runs: one that throws is
\* one that finds nothing
Extract(f, x) ==
  /\ graphStage = "reading" /\ unread # <<>> /\ f = Head(unread)
  /\ unread' = Tail(unread)
  /\ LET withFile == FoldLeft(Upsert, Upsert(nodes, f), DirsOf[f])
         edges == FoldLeft(LAMBDA es, e : AddEdge(es, withFile, e), weight, PathEdges(f))
     IN /\ nodes' = FoldLeft(Upsert, withFile, SetToSeq({Symbol(f, s) : s \in x.symbols}))
        /\ weight' = edges
  /\ pendingEdges' = pendingEdges \o Extracted(f, x)
  /\ held' = held @@ (f :> x)
  /\ graphStage' = IF unread' = <<>> THEN "linking" ELSE graphStage
  /\ UNCHANGED <<ties, divideVars>>

\* imports that are no file of the project become modules, and the edges are added
Link ==
  /\ graphStage = "linking"
  /\ LET imported == SelectSeq(pendingEdges, LAMBDA e : e[1] = "imports")
     IN nodes' = FoldLeft(LAMBDA ns, e : Upsert(ns, e[3]), nodes, imported)
  /\ weight' = FoldLeft(LAMBDA es, e : AddEdge(es, nodes', e), weight, pendingEdges)
  /\ pendingEdges' = <<>>
  /\ graphStage' = "built"
  /\ UNCHANGED <<unread, held, ties, divideVars>>

-----------------------------------------------------------------------------
Tie(n, m) == IF n = m THEN 0 ELSE ties[IF n < m THEN <<n, m>> ELSE <<m, n>>]
NodeDegree(n) == SumFunction([m \in Vertices |-> Tie(n, m)])
Total == SumFunction(ties)

\* the weight between a node and the members of a community
TieTo(n, c) == SumFunction([m \in {m \in Vertices : community[m] = c} |-> Tie(n, m)])

\* Mutant: the node still counts for the community that it would leave.
StayingAsBefore(n) == degree[community[n]]

Staying(n) == degree[community[n]] - NodeDegree(n)

\* delta, times twice the square of the total weight
Delta(n, c) ==
  2 * Total * (TieTo(n, c) - TieTo(n, community[n])) - NodeDegree(n) * (degree[c] - Staying(n))

Candidates(n) == {community[m] : m \in {m \in Vertices : Tie(n, m) > 0}} \ {community[n]}

\* the best candidates that are better than staying; of equals, the order of the map decides
Best(n) ==
  LET delta == [c \in Candidates(n) |-> Delta(n, c)]
  IN {c \in DOMAIN delta : delta[c] > 0 /\ \A d \in DOMAIN delta : delta[d] <= delta[c]}

Modularity(of) ==
  LET members(c) == {n \in Vertices : of[n] = c}
      inside(c) == SumFunction([p \in {p \in Pairs : {p[1], p[2]} \subseteq members(c)} |-> ties[p]])
      total(c) == SumFunction([n \in members(c) |-> NodeDegree(n)])
      all == Total
  IN SumFunction([c \in Vertices |-> 4 * all * inside(c) - total(c) * total(c)])

VisitNode ==
  /\ graphStage = "dividing"
  /\ LET n == visit.at
         best == Best(n)
         last == n = Cardinality(Vertices)
         Goes(improved) ==
           /\ visit' = [pass |-> IF last THEN visit.pass + 1 ELSE visit.pass, at |-> IF last THEN 1 ELSE n + 1,
                        improved |-> improved /\ ~last]
           /\ graphStage' = IF last /\ (~improved \/ visit.pass = MaxPasses) THEN "divided" ELSE graphStage
     IN IF best = {} THEN Goes(visit.improved) /\ UNCHANGED <<community, degree, quality>>
        ELSE \E c \in best :
               /\ community' = [community EXCEPT ![n] = c]
               /\ degree' = [degree EXCEPT ![community[n]] = Staying(n), ![c] = @ + NodeDegree(n)]
               /\ quality' = Append(quality, Modularity(community'))
               /\ Goes(TRUE)
  /\ UNCHANGED <<buildVars, ties>>

\* a project to be read, or a graph with some edge to be divided
GraphInit ==
  /\ \/ graphStage = "reading" /\ unread = SourceFiles /\ ties = [p \in Pairs |-> 0]
     \/ /\ graphStage = "dividing" /\ unread = <<>>
        /\ ties \in {w \in [Pairs -> Weights] : \E p \in Pairs : w[p] > 0}
  /\ nodes = <<>> /\ weight = [e \in {} |-> 0] /\ pendingEdges = <<>>
  /\ held = [f \in {} |-> {}]
  /\ community = [n \in Vertices |-> n]
  /\ degree = [n \in Vertices |-> NodeDegree(n)]
  /\ visit = [pass |-> 1, at |-> 1, improved |-> FALSE]
  /\ quality = <<>>

GraphNext ==
  \/ \E f \in ToSet(SourceFiles) : Skip(f) \/ (\E x \in Extractions : Extract(f, x))
  \/ Link \/ VisitNode

-----------------------------------------------------------------------------
Occurrences(s, x) == Cardinality({i \in DOMAIN s : s[i] = x})
Below(d) == {f \in DOMAIN held : d \in ToSet(DirsOf[f])}

\* A graph that is built has its edges between nodes it has: a directory's edge counts the
\* files below that were given to an extractor, an import's edge the times it was written, whichever of the two
\* files was read first, and a file does not import itself.
BuildSound ==
  /\ \A e \in DOMAIN weight : {e[2], e[3]} \subseteq ToSet(nodes)
  /\ graphStage = "built" => \A f \in DOMAIN held :
       /\ \A d \in ToSet(DirsOf[f]) : d # "." => \E p \in ToSet(DirsOf[f]) :
            <<"contains", p, d>> \in DOMAIN weight /\ weight[<<"contains", p, d>>] = Cardinality(Below(d))
       /\ \A target \in ToSet(held[f].imports) \ {f} :
            /\ <<"imports", f, target>> \in DOMAIN weight
            /\ weight[<<"imports", f, target>>] = Occurrences(held[f].imports, target)
       /\ \A s \in held[f].symbols : <<"contains", f, Symbol(f, s)>> \in DOMAIN weight

\* The degrees that are kept as nodes move are those of the communities; each move improves
\* the modularity, and when no pass is left to stop it, none could improve it further.
DivisionSound ==
  graphStage \in {"dividing", "divided"} =>
    /\ \A c \in Vertices :
         degree[c] = SumFunction([n \in {n \in Vertices : community[n] = c} |-> NodeDegree(n)])
    /\ \A i \in 1 .. Len(quality) - 1 : quality[i] < quality[i + 1]
    /\ graphStage = "divided" /\ visit.pass <= MaxPasses =>
         LET reached == Modularity(community)
         IN \A n, m \in Vertices : community[n] # community[m] /\ Tie(n, m) > 0 =>
              Modularity([community EXCEPT ![n] = community[m]]) <= reached

GraphSound == BuildSound /\ DivisionSound

-----------------------------------------------------------------------------
(***************************************************************************)
(* What is asked of the graph of memories (memory-v2/MemoryGraph.ts), of the *)
(* episodes that refer to one another (EpisodicMemory.ts) and of the graph   *)
(* of the code (graphify/Graph.ts, by query/GraphQuery.ts).  Each query is a *)
(* walk, taken a step at a time: a queue, a stack, or a recursion, whose     *)
(* pending calls are a stack here.  Sets are walked in the order of          *)
(* insertion, which is any order.                                            *)
(***************************************************************************)

CONSTANTS
  Nodes,          \* entries of the memory, or nodes of the code's graph
  Episodes,       \* episodes, numbered in the order of their time
  MaxDepth,       \* the deepest neighbors() asked for
  MaxEdges        \* bound: pairs of nodes with an edge

ASSUME QueryAssumption == Nodes \subseteq Nat \ {0} /\ Episodes \subseteq Nat \ {0} /\ MaxDepth \in Nat

VARIABLES
  edges,          \* pairs of entries that share a tag, or of code with an edge of any kind
  links,          \* relatedEpisodeIds; 0 is an id that no file has
  query,          \* [kind, from, to, depth]
  pending,        \* paths, nodes, or calls [id, depth], by the query's kind
  seen,           \* visited
  found,          \* the result so far
  answered

queryVars == <<edges, links, query, pending, seen, found, answered>>

Adjacent(n) == {m \in Nodes : {n, m} \in edges}
Related(e) == {r \in Episodes \cup {0} : <<e, r>> \in links}

Query(kind, from, to, depth) == [kind |-> kind, from |-> from, to |-> to, depth |-> depth]

Queries ==
  {Query("path", n, m, 0) : n, m \in Nodes} \cup {Query("neighbors", n, 0, d) : n \in Nodes, d \in 0 .. MaxDepth}
    \cup {Query("clusters", 0, 0, 0)}

\* GraphifyQuery asks for neighbors at a depth of its input, and for paths
CodeQueries ==
  {Query("code path", n, m, 0) : n, m \in Nodes} \cup {Query("code neighbors", n, 0, d) : n \in Nodes, d \in 0 .. MaxDepth}

\* MemoryGraphQuery builds the graph and calls one of its methods
QueryInit ==
  /\ \/ /\ edges \in {s \in SUBSET {e \in SUBSET Nodes : Cardinality(e) = 2} : Cardinality(s) <= MaxEdges}
        /\ links = {} /\ query \in Queries \cup CodeQueries
     \/ /\ edges = {} /\ links \in SUBSET {l \in Episodes \X (Episodes \cup {0}) : l[1] # l[2]}
        /\ query \in {Query("chain", e, 0, 0) : e \in Episodes \cup {0}}
  /\ pending = CASE query.kind \in {"path", "code path"} -> << <<query.from>> >>
                 [] query.kind = "clusters" -> <<>>
                 [] OTHER -> <<[id |-> query.from, depth |-> 0]>>
  /\ seen = IF query.kind \in {"code path", "code neighbors"} THEN {query.from} ELSE {}
  /\ found = <<>> /\ answered = FALSE

Answer(result) == found' = result /\ answered' = TRUE

-----------------------------------------------------------------------------
\* Mutant: the newest path is taken first.
TakenLast(queue) == Last(queue)

Taken(queue) == Head(queue)

\* shortestPath: the first path in the queue, whose last node is visited unless it was; the
\* target is recognised among its neighbors
PathStep ==
  /\ query.kind = "path" /\ ~answered
  /\ UNCHANGED <<edges, links, query>>
  /\ IF query.from = query.to THEN Answer(<<query.from>>) /\ UNCHANGED <<pending, seen>>
     ELSE IF pending = <<>> THEN Answer(<<>>) /\ UNCHANGED <<pending, seen>>
     ELSE LET path == Taken(pending)
              rest == RemoveAt(pending, SelectInSeq(pending, LAMBDA p : p = path))
              id == Last(path)
          IN IF id \in seen THEN pending' = rest /\ UNCHANGED <<seen, found, answered>>
             ELSE /\ seen' = seen \cup {id}
                  /\ IF query.to \in Adjacent(id)
                       THEN Answer(Append(path, query.to)) /\ UNCHANGED pending
                       ELSE /\ \E order \in SetToSeqs(Adjacent(id) \ seen') :
                                 pending' = rest \o [i \in DOMAIN order |-> Append(path, order[i])]
                            /\ UNCHANGED <<found, answered>>

\* the pending calls, when one is made for every next node, one after the other
CallsFor(next, depth) ==
  {[i \in DOMAIN order |-> [id |-> order[i], depth |-> depth]] \o Tail(pending) : order \in SetToSeqs(next)}

\* neighbors: a call returns when its node was visited or is too deep
WalkStep ==
  /\ query.kind = "neighbors" /\ ~answered
  /\ UNCHANGED <<edges, links, query>>
  /\ IF pending = <<>> THEN Answer(found) /\ UNCHANGED <<pending, seen>>
     ELSE LET id == Head(pending).id
              depth == Head(pending).depth
          IN /\ IF depth > query.depth \/ id \in seen
                  THEN pending' = Tail(pending) /\ UNCHANGED <<seen, found>>
                  ELSE /\ seen' = seen \cup {id}
                       /\ found' = IF id = query.from THEN found ELSE Append(found, id)
                       /\ pending' \in CallsFor(Adjacent(id), depth + 1)
             /\ UNCHANGED answered

\* getChain: no limit of depth, and an id that no file has ends its branch
ChainStep ==
  /\ query.kind = "chain" /\ ~answered
  /\ UNCHANGED <<edges, links, query>>
  /\ IF pending = <<>> THEN Answer(found) /\ UNCHANGED <<pending, seen>>
     ELSE LET id == Head(pending).id
          IN /\ IF id \in seen THEN pending' = Tail(pending) /\ UNCHANGED <<seen, found>>
                ELSE /\ seen' = seen \cup {id}
                     /\ found' = IF id \in Episodes THEN Append(found, id) ELSE found
                     /\ pending' \in CallsFor(Related(id), 0)
             /\ UNCHANGED answered

\* Graph.neighbors: a node is seen when it is put into the frontier
SpreadStep ==
  /\ query.kind = "code neighbors" /\ ~answered
  /\ UNCHANGED <<edges, links, query>>
  /\ IF pending = <<>> \/ query.depth = 0 THEN Answer(found) /\ UNCHANGED <<pending, seen>>
     ELSE LET id == Head(pending).id
              depth == Head(pending).depth + 1
              fresh == Adjacent(id) \ seen
          IN /\ seen' = seen \cup fresh
             /\ \E order \in SetToSeqs(fresh) :
                  /\ found' = found \o order
                  /\ pending' = Tail(pending) \o (IF depth = query.depth THEN <<>>
                                   ELSE [i \in DOMAIN order |-> [id |-> order[i], depth |-> depth]])
             /\ UNCHANGED answered

\* Graph.shortestPath: parents lead back to the start, and so a node in the queue stands for
\* the path of its parents; a node is seen when it gets its parent
ParentStep ==
  /\ query.kind = "code path" /\ ~answered
  /\ UNCHANGED <<edges, links, query>>
  /\ IF query.from = query.to THEN Answer(<<query.from>>) /\ UNCHANGED <<pending, seen>>
     ELSE IF pending = <<>> THEN Answer(<<>>) /\ UNCHANGED <<pending, seen>>
     ELSE LET path == Head(pending)
              fresh == Adjacent(Last(path)) \ seen
          IN IF query.to \in fresh THEN Answer(Append(path, query.to)) /\ UNCHANGED <<pending, seen>>
             ELSE /\ seen' = seen \cup fresh
                  /\ \E order \in SetToSeqs(fresh) :
                       pending' = Tail(pending) \o [i \in DOMAIN order |-> Append(path, order[i])]
                  /\ UNCHANGED <<found, answered>>

\* countClusters: a node not visited yet begins a cluster, and a stack visits the rest of it
ClusterStep ==
  /\ query.kind = "clusters" /\ ~answered
  /\ UNCHANGED <<edges, links, query>>
  /\ IF pending # <<>>
       THEN LET id == Last(pending)
                next == IF id \in seen THEN {} ELSE Adjacent(id) \ seen
            IN /\ seen' = seen \cup {id}
               /\ \E order \in SetToSeqs(next) : pending' = Front(pending) \o order
               /\ UNCHANGED <<found, answered>>
       ELSE IF seen = Nodes THEN Answer(found) /\ UNCHANGED <<pending, seen>>
       ELSE \E id \in Nodes \ seen :
              /\ pending' = <<id>> /\ found' = Append(found, id)
              /\ UNCHANGED <<seen, answered>>

QueryNext == PathStep \/ WalkStep \/ ChainStep \/ ClusterStep \/ SpreadStep \/ ParentStep

-----------------------------------------------------------------------------
\* Nodes at most n steps away, and what is reached by links.
Ball(n) ==
  LET within[k \in Nat] == IF k = 0 THEN {query.from}
                           ELSE within[k - 1] \cup UNION {Adjacent(m) : m \in within[k - 1]}
  IN within[n]
Chain ==
  LET reached[k \in Nat] == IF k = 0 THEN {query.from}
                            ELSE reached[k - 1] \cup UNION {Related(e) : e \in reached[k - 1]}
  IN reached[Cardinality(Episodes)]
Separated(n, m) ==
  \E s \in SUBSET Nodes : /\ n \in s /\ m \notin s
                          /\ \A i \in s : Adjacent(i) \subseteq s

\* In whatever order neighbors come, a path is one of the shortest and there is none only
\* between clusters, neighbors are no farther than asked and those at one step complete, in
\* the code's graph those at any depth, a chain is all that is linked, however cyclic, and
\* each cluster is counted once.
QueriesSound ==
  answered =>
    CASE query.kind \in {"path", "code path"} ->
           IF found = <<>> THEN query.to \notin Ball(Cardinality(Nodes))
           ELSE /\ found[1] = query.from /\ Last(found) = query.to
                /\ \A i \in 1 .. Len(found) - 1 : {found[i], found[i + 1]} \in edges
                /\ Len(found) > 1 => query.to \notin Ball(Len(found) - 2)
      [] query.kind = "neighbors" ->
           /\ IsInjective(found) /\ ToSet(found) \subseteq Ball(query.depth) \ {query.from}
           /\ query.depth = 1 => ToSet(found) = Adjacent(query.from)
      [] query.kind = "code neighbors" ->
           IsInjective(found) /\ ToSet(found) = Ball(query.depth) \ {query.from}
      [] query.kind = "chain" -> IsInjective(found) /\ ToSet(found) = Chain \cap Episodes
      [] query.kind = "clusters" ->
           /\ \A n \in Nodes : \E m \in ToSet(found) : ~Separated(m, n)
           /\ \A m, n \in ToSet(found) : m # n => Separated(m, n)
==============================================================================
