------------------------------- MODULE WikiPages -------------------------------
(***************************************************************************)
(* packages/wiki: pages in a file each (store/WikiStore.ts), written to and  *)
(* read by the tools (tools/WikiTools.ts) and compiled from their sources    *)
(* (compiler/WikiCompiler.ts).  Every change is a lookup, a scan for the     *)
(* page's id, a truncation and a write, a step each; calls of tools overlap. *)
(* A tool looks a title up under a slug of its own making.                   *)
(***************************************************************************)
EXTENDS Naturals, FiniteSets

CONSTANTS
  WikiCalls,          \* calls of tools
  Titles,
  StoredAs,       \* title to the slug that create() gives a page, edges trimmed
  SoughtAs        \* title to the slug that the tools look for

ASSUME WikiAssumption == "" \notin WikiCalls

VARIABLES
  page,           \* by slug: "none", "torn" or "page", with what the page holds
  call,           \* by call: [stage, kind, title, slug, patch, base]
  keptSources            \* history: sources that finished calls, none overlapping, left behind

wikiVars == <<page, call, keptSources>>

Slugs == {StoredAs[t] : t \in Titles} \cup {SoughtAs[t] : t \in Titles}
NoPage == [id |-> "", sources |-> {}, compiled |-> FALSE, reads |-> 0]
NewPage(c) == [id |-> c, sources |-> {c}, compiled |-> FALSE, reads |-> 0]
NoPatch == [sources |-> {}, compiled |-> FALSE, reads |-> 0]

WikiInit ==
  /\ page = [s \in Slugs |-> [kind |-> "none", holds |-> NoPage]]
  /\ call = [c \in WikiCalls |-> [stage |-> "new", kind |-> "", title |-> "", slug |-> "", alone |-> TRUE,
                              patch |-> NoPatch, base |-> NoPage]]
  /\ keptSources = [t \in Titles |-> {}]

CallsUnderway == {c \in WikiCalls : call[c].stage \notin {"new", "over", "lost"}}

BeginCall(c, kind, t) ==
  /\ call[c].stage = "new"
  /\ call' = [d \in WikiCalls |->
       IF d = c THEN [call[d] EXCEPT !.stage = "asked", !.kind = kind, !.title = t, !.alone = CallsUnderway = {}]
       ELSE IF d \in CallsUnderway THEN [call[d] EXCEPT !.alone = FALSE] ELSE call[d]]
  /\ UNCHANGED <<page, keptSources>>

Moves(c, to) == call' = [call EXCEPT ![c] = to]

\* getBySlug: a file that cannot be parsed is no page
BySlug(s) == IF page[s].kind = "page" THEN page[s].holds ELSE NoPage

\* wiki_write: create the page, or give update() the sources of the page as it is now
LookUpToWrite(c) ==
  /\ call[c].stage = "asked" /\ call[c].kind = "write"
  /\ LET found == BySlug(SoughtAs[call[c].title])
     IN Moves(c, IF found.id = ""
          THEN [call[c] EXCEPT !.stage = "saving", !.slug = StoredAs[call[c].title],
                               !.base = NewPage(c)]
          ELSE [call[c] EXCEPT !.stage = "updating", !.base = found,
                               !.patch = [NoPatch EXCEPT !.sources = found.sources \cup {c}]])
  /\ UNCHANGED <<page, keptSources>>

\* wiki_read and wiki_compile: a page that is not there is searched for, or an error
LookUp(c) ==
  /\ call[c].stage = "asked" /\ call[c].kind \in {"read", "compile"}
  /\ LET found == BySlug(SoughtAs[call[c].title])
     IN Moves(c, [call[c] EXCEPT !.stage = IF found.id = "" THEN "over" ELSE "fetching", !.base = found])
  /\ UNCHANGED <<page, keptSources>>

\* getById reads the directory's files, in no order the code chooses, until it has the page:
\* one that cannot be parsed and comes first hides it
ById(id) ==
  LET holding == {s \in Slugs : page[s].kind = "page" /\ page[s].holds.id = id}
  IN {page[s].holds : s \in holding}
       \cup (IF holding = {} \/ \E s \in Slugs : page[s].kind = "torn" THEN {NoPage} ELSE {})

\* incrementReadCount and compilePage fetch the page to make their patch of
Fetch(c) ==
  /\ call[c].stage = "fetching"
  /\ \E found \in ById(call[c].base.id) :
       Moves(c, IF found.id = "" THEN [call[c] EXCEPT !.stage = "over"]
                ELSE IF call[c].kind = "read"
                  THEN [call[c] EXCEPT !.stage = "updating", !.patch = [NoPatch EXCEPT !.reads = found.reads + 1]]
                ELSE [call[c] EXCEPT !.stage = IF found.sources = {} THEN "over" ELSE "updating",
                                     !.patch = [NoPatch EXCEPT !.compiled = TRUE]])
  /\ UNCHANGED <<page, keptSources>>

\* the model's answer fails: the page stays as it was
CompileFails(c) ==
  /\ call[c].stage = "updating" /\ call[c].kind = "compile"
  /\ Moves(c, [call[c] EXCEPT !.stage = "over"])
  /\ UNCHANGED <<page, keptSources>>

\* Mutant: update() saves the page that the caller had looked up.
PatchedStale(c, found) == [call[c].base EXCEPT !.reads = found.reads]

\* update: the page as it is now, under the keys of the patch
Patched(c, found) ==
  CASE call[c].kind = "write" -> [found EXCEPT !.sources = call[c].patch.sources]
    [] call[c].kind = "read" -> [found EXCEPT !.reads = call[c].patch.reads]
    [] call[c].kind = "compile" -> [found EXCEPT !.compiled = TRUE]

\* What a finished call leaves to be kept: its own source, when it writes.
Finished(c) == [keptSources EXCEPT ![call[c].title] = @ \cup (IF call[c].kind = "write" THEN {c} ELSE {})]
AllReadable == \A s \in Slugs : page[s].kind # "torn"

\* not found any more, or behind a page that cannot be parsed: the tool reports success,
\* with nothing saved
UpdatePage(c) ==
  /\ call[c].stage = "updating"
  /\ \E found \in ById(call[c].base.id) :
       IF found.id = ""
       THEN /\ Moves(c, [call[c] EXCEPT !.stage = "over"])
            /\ keptSources' = IF call[c].alone /\ AllReadable THEN Finished(c) ELSE keptSources
       ELSE /\ Moves(c, [call[c] EXCEPT !.stage = "saving", !.base = Patched(c, found),
                                        !.slug = CHOOSE s \in Slugs : page[s].holds = found])
            /\ UNCHANGED keptSources
  /\ UNCHANGED page

TruncatePage(c) ==
  /\ call[c].stage = "saving"
  /\ page' = [page EXCEPT ![call[c].slug] = [kind |-> "torn", holds |-> NoPage]]
  /\ Moves(c, [call[c] EXCEPT !.stage = "writing"])
  /\ UNCHANGED keptSources

Save(c) ==
  /\ call[c].stage = "writing"
  /\ page' = [page EXCEPT ![call[c].slug] = [kind |-> "page", holds |-> call[c].base]]
  /\ Moves(c, [call[c] EXCEPT !.stage = "over"])
  /\ keptSources' = IF call[c].alone THEN Finished(c) ELSE [t \in Titles |-> {}]

ToolsStop ==
  /\ CallsUnderway # {}
  /\ call' = [c \in WikiCalls |-> IF c \in CallsUnderway THEN [call[c] EXCEPT !.stage = "lost"] ELSE call[c]]
  /\ keptSources' = IF \E c \in WikiCalls : call[c].stage = "writing" THEN [t \in Titles |-> {}] ELSE keptSources
  /\ UNCHANGED page

WikiNext ==
  \/ \E c \in WikiCalls, kind \in {"write", "read", "compile"}, t \in Titles : BeginCall(c, kind, t)
  \/ \E c \in WikiCalls :
       \/ LookUpToWrite(c) \/ LookUp(c) \/ Fetch(c) \/ CompileFails(c) \/ UpdatePage(c)
       \/ TruncatePage(c) \/ Save(c)
  \/ ToolsStop

WikiSpec == WikiInit /\ [][WikiNext]_wikiVars

-----------------------------------------------------------------------------
Lost(t) ==
  /\ \A c \in WikiCalls : call[c].stage # "writing"
  /\ page[StoredAs[t]].kind = "page"
  /\ ~(keptSources[t] \subseteq page[StoredAs[t]].holds.sources)

\* whatever title leads to this title's page is also looked for there
FoundAgain(t) == \A u \in Titles : StoredAs[u] = StoredAs[t] => SoughtAs[u] = StoredAs[u]

\* Sources of a page that is found again accumulate: a call that no other overlaps has added
\* its own when it reports success, unless a page that cannot be parsed hid the one it was
\* for, and loses none that was there, whatever was read or compiled in between; and no two
\* files ever hold the same page.
WikiSound ==
  /\ \A t \in Titles : FoundAgain(t) => ~Lost(t)
  /\ \A s, u \in Slugs : s # u /\ page[s].kind = "page" /\ page[u].kind = "page" =>
       page[s].holds.id # page[u].holds.id

\* The tool adds a source to the page, as its description says, whatever the title.
SourcesAdded == \A t \in Titles : ~Lost(t)
=============================================================================
