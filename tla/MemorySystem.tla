----------------------------- MODULE MemorySystem -----------------------------
(***************************************************************************)
(* The memory of a project (packages/core/src/memdir): one file per entry   *)
(* and MEMORY.md, an index rebuilt from a listing after every save and      *)
(* delete.  Processes share the directory without locks: sessions and       *)
(* background jobs save and delete, and one session consolidates, with      *)
(* AutoDream (mechanically, then with a model) or with ConsolidationV2      *)
(* (packages/memory-v2).                                                    *)
(*                                                                          *)
(* A client works through an agenda of file operations; between two of them *)
(* the others run.  A consolidation decides from the entries it listed      *)
(* before.  A client that has crashed is one that takes no further step.    *)
(* All entries are of one type: AutoDream never compares across types.      *)
(***************************************************************************)
EXTENDS Integers, Sequences, FiniteSets, SequencesExt

CONSTANTS
  Clients,      \* processes with a MemorySystem on the project
  Dreamer,      \* the one that consolidates
  Facts,        \* bodies that are saved
  Dated,        \* those with a relative date in them
  Drafts,       \* what is saved: a body and its confidence, see Entry
  MinCluster,   \* minClusterSize of ConsolidationV2
  MaxEntries,   \* bound: entries ever created
  MaxStamps     \* bound: dates put into one body

ASSUME ClientsAssumption ==
  Dreamer \in Clients /\ Dated \subseteq Facts /\ Drafts \subseteq Facts \X (0 .. 2)
ASSUME BoundsAssumption == {MaxEntries, MaxStamps} \subseteq Nat /\ MinCluster \in Nat \ {0}

VARIABLES
  file,     \* file[id]: the entry's file, with the clients that hold it open
  index,    \* ids listed in MEMORY.md
  issued,   \* ids used so far are 1 .. issued
  agenda,   \* agenda[c]: file operations client c has still to do
  kept,     \* history: facts that were saved and, as far as anybody knows, still are
  alone     \* history: no two clients were ever at work at the same time

vars == <<file, index, issued, agenda, kept, alone>>

Ids == 1 .. MaxEntries
Blank == [tells |-> {}, relative |-> FALSE, stamps |-> 0]
Unstamped(f) == [tells |-> {f}, relative |-> f \in Dated, stamps |-> 0]

\* confidence: 0 stands for at most 0.05, 1 for less than 0.3, 2 for the rest
Entry(text, sure) == [text |-> text, sure |-> sure]
Absent == [there |-> FALSE, entry |-> Entry(Blank, 2), writers |-> {}]
Present == {id \in Ids : file[id].there}

Init ==
  /\ file = [id \in Ids |-> Absent]
  /\ index = {} /\ issued = 0
  /\ agenda = [c \in Clients |-> <<>>]
  /\ kept = {} /\ alone = TRUE

-----------------------------------------------------------------------------
(* Agendas.                                                                 *)

Open(id, entry) == [do |-> "open", id |-> id, entry |-> entry]
Write(id, entry) == [do |-> "write", id |-> id, entry |-> entry]
Unlink(id, asked) == [do |-> "unlink", id |-> id, asked |-> asked]
List(purpose) == [do |-> "list", purpose |-> purpose]
Load(purpose, left, all) == [do |-> "load", purpose |-> purpose, left |-> left, all |-> all]
Summarize(order, cluster) == [do |-> "summarize", order |-> order, cluster |-> cluster]

Rebuild == <<List("index")>>

\* delete() for these ids in turn
DeleteAll(gone, asked) == [i \in DOMAIN gone |-> Unlink(gone[i], asked)]

\* list() sorts by the last save, which stamping repeats: every order of the ids occurs,
\* and what is done to some of the listed entries is done in the order of the listing
Orders(ids) == {s \in [1 .. Cardinality(ids) -> ids] : ToSet(s) = ids}
InOrder(order, ids) ==
  {s \in Orders(ids) :
     \A i, j \in DOMAIN s :
       i < j => \E k, l \in DOMAIN order : k < l /\ order[k] = s[i] /\ order[l] = s[j]}

Busy(c) == agenda[c] # <<>>
Doing(c, what) == Busy(c) /\ Head(agenda[c]).do = what
Job(c) == Head(agenda[c])
\* the job is done; jobs come next, before the rest of the agenda
Continue(c, jobs) == agenda' = [agenda EXCEPT ![c] = jobs \o Tail(@)]
Start(c, jobs) ==
  /\ ~Busy(c)
  /\ agenda' = [agenda EXCEPT ![c] = jobs]
  /\ alone' = (alone /\ \A d \in Clients : ~Busy(d))

-----------------------------------------------------------------------------
(* What clients start.                                                      *)

\* generateId: an id no other entry has
Save(c, draft) ==
  /\ issued < MaxEntries
  /\ issued' = issued + 1
  /\ Start(c, <<Open(issued + 1, Entry(Unstamped(draft[1]), draft[2]))>>)
  /\ UNCHANGED <<file, index, kept>>

\* of an entry a listing shows; it may be gone when its turn comes
Delete(c, id) ==
  /\ id \in Present
  /\ Start(c, <<Unlink(id, TRUE)>>)
  /\ UNCHANGED <<file, index, issued, kept>>

\* consolidate() and consolidateWithModel(); the guard is the bound on stamps
Dream(withModel) ==
  /\ \A id \in Ids : file[id].entry.text.stamps < MaxStamps
  /\ Start(Dreamer, IF withModel THEN <<List("dream"), List("model")>> ELSE <<List("dream")>>)
  /\ UNCHANGED <<file, index, issued, kept>>

ConsolidateV2 ==
  /\ Start(Dreamer, <<List("clusters")>>)
  /\ UNCHANGED <<file, index, issued, kept>>

-----------------------------------------------------------------------------
(* File operations.                                                         *)

\* open(O_CREAT | O_TRUNC); save() writes the entry next and rebuilds the index
OpenFile(c) ==
  /\ Doing(c, "open")
  /\ file' = [file EXCEPT ![Job(c).id] =
       [there |-> TRUE, entry |-> Entry(Blank, 2), writers |-> @.writers \cup {c}]]
  /\ Continue(c, <<Write(Job(c).id, Job(c).entry)>> \o Rebuild)
  /\ UNCHANGED <<index, issued, kept, alone>>

\* what the file tells, or will when its writers have written
Written(id) ==
  file[id].entry.text.tells \cup
    UNION {agenda[c][1].entry.text.tells : c \in {d \in file[id].writers : Doing(d, "write")}}

\* a consolidation has decided to delete the file: a fact that is only written to it now is
\* not kept
Doomed(id) == \E n \in DOMAIN agenda[Dreamer] : agenda[Dreamer][n] = Unlink(id, FALSE)

\* into the open file; it is lost when the file was unlinked in between
WriteFile(c) ==
  LET id == Job(c).id
  IN /\ Doing(c, "write")
     /\ IF c \in file[id].writers
        THEN /\ file' = [file EXCEPT ![id].entry = Job(c).entry, ![id].writers = @ \ {c}]
             /\ kept' = kept \cup (IF Doomed(id) THEN {} ELSE Job(c).entry.text.tells)
        ELSE UNCHANGED <<file, kept>>
     /\ Continue(c, <<>>)
     /\ UNCHANGED <<index, issued, alone>>

\* Mutant: the index is left alone.
UnlinkedQuietly == <<>>

Unlinked == Rebuild

\* memory.delete(): rebuilds the index if there was a file
UnlinkFile(c) ==
  LET id == Job(c).id
  IN /\ Doing(c, "unlink")
     /\ IF file[id].there
        THEN /\ file' = [file EXCEPT ![id] = Absent]
             /\ kept' = IF Job(c).asked THEN kept \ Written(id) ELSE kept
             /\ Continue(c, Unlinked)
        ELSE Continue(c, <<>>) /\ UNCHANGED <<file, kept>>
     /\ UNCHANGED <<index, issued, alone>>

Held(ids) == {[id |-> id, entry |-> file[id].entry] : id \in {i \in ids : file[i].there}}

\* readdir; nothing is decided from the index, so a listing for it is read in one step
ListFiles(c) ==
  /\ Doing(c, "list")
  /\ Continue(c, <<IF Job(c).purpose = "index" THEN Load("index", {}, Held(Present))
                   ELSE Load(Job(c).purpose, Present, {})>>)
  /\ UNCHANGED <<file, index, issued, kept, alone>>

\* tryLoad of the next file: an empty file is an entry with an empty body, a file that
\* is gone is skipped
LoadEntry(c) ==
  /\ Doing(c, "load") /\ Job(c).left # {}
  /\ \E id \in Job(c).left :
       Continue(c, <<Load(Job(c).purpose, Job(c).left \ {id}, Job(c).all \cup Held({id}))>>)
  /\ UNCHANGED <<file, index, issued, kept, alone>>

Listed(c, purpose) == Doing(c, "load") /\ Job(c).left = {} /\ Job(c).purpose = purpose
IdsOf(entries) == {e.id : e \in entries}
ToldBy(entries) == UNION {e.entry.text.tells : e \in entries}
WrittenIn(entries) == UNION {Written(e.id) : e \in entries}

\* MEMORY.md is written in one step: nobody decides anything from it
RebuildIndex(c) ==
  /\ Listed(c, "index")
  /\ index' = IdsOf(Job(c).all)
  /\ Continue(c, <<>>)
  /\ UNCHANGED <<file, issued, kept, alone>>

-----------------------------------------------------------------------------
(* AutoDream.                                                               *)

\* Mutant: the duplicate key is the type alone.
SameType(d, e) == d.id \in Ids

\* the duplicate key: type and normalised body
SameBody(d, e) == d.entry.text = e.entry.text

\* seen.values(): of each body one entry of the highest confidence, the newer of two;
\* which of them is the newer is left open
Winners(all, won) ==
  /\ \A e \in all : \E w \in won : SameBody(w, e) /\ w.entry.sure >= e.entry.sure
  /\ \A v, w \in won : SameBody(v, w) => v = w

\* Mutant: stale entries are looked for, not removed.
StaleMissed(won) == {}

Stale(won) == {w \in won : w.entry.sure = 0}

\* what the files of the losers tell and no winner does: it was not in them when they were
\* read, or a winner that told it has been deleted since
Overlooked(losers, won) ==
  LET here == {w \in won : file[w.id].there}
  IN {f \in WrittenIn(losers) : f \notin ToldBy(losers) \/ f \in ToldBy(won \ here)}
       \ ToldBy(here)

Relative(won) == {w \in won : w.entry.text.relative}
Stamped(entry) == [entry EXCEPT !.text.stamps = @ + 1]
StampAll(dated, won) ==
  LET Read(id) == (CHOOSE w \in won : w.id = id).entry
  IN [i \in DOMAIN dated |-> Open(dated[i], Stamped(Read(dated[i])))]

\* duplicates first, then relative dates, then stale entries; the last listing is counted
DreamJobs(losers, dated, stale, won) ==
  DeleteAll(losers, FALSE) \o StampAll(dated, won) \o DeleteAll(stale, TRUE)
    \o Rebuild \o <<List("count")>>

DecideDream ==
  /\ Listed(Dreamer, "dream")
  /\ LET all == Job(Dreamer).all
     IN \E won \in SUBSET all, order \in Orders(IdsOf(all)) :
          /\ Winners(all, won)
          /\ kept' = kept \ Overlooked(all \ won, won)
          /\ \E losers \in InOrder(order, IdsOf(all \ won)),
                dated \in InOrder(order, IdsOf(Relative(won))),
                stale \in InOrder(order, IdsOf(Stale(won))) :
               Continue(Dreamer, DreamJobs(losers, dated, stale, won))
  /\ UNCHANGED <<file, index, issued, alone>>

Count ==
  /\ Listed(Dreamer, "count")
  /\ Continue(Dreamer, <<>>)
  /\ UNCHANGED <<file, index, issued, kept, alone>>

\* the model names entries to delete, or its call fails; fewer than two are not sent
ModelVerdicts ==
  /\ Listed(Dreamer, "model")
  /\ \/ Continue(Dreamer, <<>>)
     \/ /\ Cardinality(Job(Dreamer).all) >= 2
        /\ \E ids \in SUBSET IdsOf(Job(Dreamer).all) :
             \E gone \in Orders(ids) : Continue(Dreamer, DeleteAll(gone, TRUE) \o Rebuild)
  /\ UNCHANGED <<file, index, issued, kept, alone>>

-----------------------------------------------------------------------------
(* ConsolidationV2.                                                         *)

\* extractClusters: an entry and its neighbours, if they are enough
ClusterAt(id, active, linked) == {e \in active : e.id = id \/ {e.id, id} \in linked}

\* in the order of the listing, around each entry that no earlier cluster holds
Seeds(order, active, linked) ==
  {ids \in SUBSET IdsOf(active) :
     \A n \in DOMAIN order :
       order[n] \in ids <=>
         /\ Cardinality(ClusterAt(order[n], active, linked)) >= MinCluster
         /\ \A m \in 1 .. n - 1 :
              order[m] \in ids => order[n] \notin IdsOf(ClusterAt(order[m], active, linked))}

\* entries share a tag or not; an empty file has no tags
TagLinks(active) ==
  LET tagged == {e \in active : e.entry.text # Blank}
  IN SUBSET kSubset(2, IdsOf(tagged))

\* an entry of confidence exactly 0 is pruned and clustered all the same (!e.confidence)
DecideClusters ==
  /\ Listed(Dreamer, "clusters")
  /\ LET all == Job(Dreamer).all
         weak == {e \in all : e.entry.sure < 2}
     IN \E zero \in SUBSET Stale(all), order \in Orders(IdsOf(all)) :
          LET active == (all \ weak) \cup zero
          IN \E gone \in InOrder(order, IdsOf(weak)), linked \in TagLinks(active) :
               \E ids \in Seeds(order, active, linked) :
                 \E seeds \in InOrder(order, ids) :
                   Continue(Dreamer,
                     DeleteAll(gone, TRUE)
                       \o [i \in DOMAIN seeds |->
                             Summarize(order, ClusterAt(seeds[i], active, linked))])
  /\ UNCHANGED <<file, index, issued, kept, alone>>

\* save the summary, then delete the originals
Merged(id, told, gone) ==
  <<Open(id, Entry([tells |-> told, relative |-> FALSE, stamps |-> 0], 2))>>
    \o DeleteAll(gone, FALSE)

\* the summary tells what the model makes of the first lines of each entry
SummarizeCluster ==
  /\ Doing(Dreamer, "summarize")
  /\ issued < MaxEntries
  /\ issued' = issued + 1
  /\ LET cluster == Job(Dreamer).cluster
     IN \E told \in SUBSET ToldBy(cluster), gone \in InOrder(Job(Dreamer).order, IdsOf(cluster)) :
          /\ Continue(Dreamer, Merged(issued + 1, told, gone))
          /\ kept' = kept \ (WrittenIn(cluster) \ told)
  /\ UNCHANGED <<file, index, alone>>

\* no usable answer; one that parses and has no body ends the run
SummaryFails ==
  /\ Doing(Dreamer, "summarize")
  /\ Continue(Dreamer, <<>>) \/ agenda' = [agenda EXCEPT ![Dreamer] = <<>>]
  /\ UNCHANGED <<file, index, issued, kept, alone>>

ClientStep(c) ==
  \/ OpenFile(c) \/ WriteFile(c) \/ UnlinkFile(c) \/ ListFiles(c) \/ LoadEntry(c)
  \/ RebuildIndex(c)

Next ==
  \/ \E c \in Clients, draft \in Drafts : Save(c, draft)
  \/ \E c \in Clients, id \in Ids : Delete(c, id)
  \/ \E withModel \in BOOLEAN : Dream(withModel)
  \/ ConsolidateV2
  \/ \E c \in Clients : ClientStep(c)
  \/ DecideDream \/ Count \/ ModelVerdicts
  \/ DecideClusters \/ SummarizeCluster \/ SummaryFails

Spec == Init /\ [][Next]_vars

-----------------------------------------------------------------------------
\* What was saved is lost in three ways only: somebody asked for its removal, the summary
\* of a cluster left it out, or the consolidation did not know of it when it decided to
\* delete the file (the file was open and empty, or the better copy of the entry has been
\* deleted since it was read).  Any other fact is told by some file, or is about to be
\* written to one that is open, while entries are merged, stamped and summarised next to
\* the saves and deletes of others.
SavedIsKept == kept \subseteq UNION {Written(id) : id \in Ids}

Idle == \A c \in Clients : ~Busy(c)

\* Clients that never work at the same time leave an index of exactly the entries.
IndexAgrees == alone /\ Idle => index = Present

\* A consolidation that nobody disturbs leaves one entry of each body and no stale one.
DreamCleans ==
  alone /\ Listed(Dreamer, "count") =>
    \A d, e \in Job(Dreamer).all : e.entry.sure > 0 /\ (SameBody(d, e) => d = e)

\* The mechanical pass is "always safe to run": it deletes no fact that nobody else tells.
AlwaysSafe == [][Listed(Dreamer, "dream") => kept \subseteq kept']_vars

\* "datestamps anything still relative": a date that was made absolute is not stamped
\* again.
StampedOnce == \A id \in Ids : file[id].entry.text.stamps <= 1
=============================================================================
