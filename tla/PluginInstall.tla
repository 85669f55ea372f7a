----------------------------- MODULE PluginInstall -----------------------------
(***************************************************************************)
(* packages/marketplace: MarketplaceClient.ts fetches an index that it keeps *)
(* for a while, downloads a plugin, verifies it and writes its code and then *)
(* its manifest; pluginSignature.ts verifies, also what is already installed *)
(* before it is loaded.  Installers are processes of their own: installations   *)
(* overlap one another and removals, and stop anywhere.                      *)
(***************************************************************************)
EXTENDS Naturals, FiniteSets

CONSTANTS
  Installers,
  Entries,        \* what an index may say of the plugin: [version, integrity, signature]
  Codes,          \* bundles
  SigningKeys,           \* signing keys
  Ttl,            \* CACHE_TTL_MS
  MaxNow          \* bound: the clock

ASSUME PluginAssumption ==
  /\ Ttl \in Nat \ {0} /\ MaxNow \in Nat
  /\ \A e \in Entries : e = [version |-> e.version, integrity |-> e.integrity, signature |-> e.signature]

VARIABLES
  trusted,        \* keys of the operator: options, environment and file
  now,
  cache,          \* by client: [entry, at] of the last index, at 0 for none
  client,         \* by client: [stage, entry, code, alone, age]: age is that of the index it used
  code,           \* the entry file: a bundle, "none" or "torn"
  manifest,       \* manifest.json: an entry, or NoPlugin or Torn
  loaded,         \* history: what was loaded, with its manifest's version
  intact          \* history: the last installation that finished met no other writer

pluginVars == <<trusted, now, cache, client, code, manifest, loaded, intact>>

NoSignature == [key |-> "none", version |-> 0, code |-> "none"]
NoPlugin == [version |-> 0, integrity |-> "none", signature |-> NoSignature]
Torn == [NoPlugin EXCEPT !.integrity = "torn"]

PluginInit ==
  /\ trusted \in SUBSET SigningKeys
  /\ now = 1
  /\ cache = [c \in Installers |-> [entry |-> NoPlugin, at |-> 0]]
  /\ client = [c \in Installers |-> [stage |-> "idle", entry |-> NoPlugin, code |-> "none", alone |-> TRUE, age |-> 0]]
  /\ code = "none" /\ manifest = NoPlugin
  /\ loaded = {} /\ intact = FALSE

Writers == {c \in Installers : client[c].stage \notin {"idle", "done", "failed"}}

Goes(c, r) == client' = [client EXCEPT ![c] = r]

PluginTick ==
  /\ now < MaxNow
  /\ now' = now + 1
  /\ UNCHANGED <<trusted, cache, client, code, manifest, loaded, intact>>

-----------------------------------------------------------------------------
\* Mutant: the cached index is never too old.
FreshAlways(c) == cache[c].at > 0

Fresh(c) == cache[c].at > 0 /\ now - cache[c].at < Ttl

Begins(c, entry, age) ==
  client' = [d \in Installers |->
    IF d = c THEN [stage |-> "indexed", entry |-> entry, code |-> "none", alone |-> Writers = {}, age |-> age]
    ELSE [client[d] EXCEPT !.alone = FALSE]]

\* install: an index that cannot be fetched is an empty one, without the plugin
GetEntry(c) ==
  /\ client[c].stage \in {"idle", "failed"}
  /\ IF Fresh(c) THEN Begins(c, cache[c].entry, now - cache[c].at) /\ UNCHANGED cache
     ELSE \/ \E entry \in Entries :
               /\ Begins(c, entry, 0)
               /\ cache' = [cache EXCEPT ![c] = [entry |-> entry, at |-> now]]
          \/ client[c].stage = "idle" /\ Goes(c, [client[c] EXCEPT !.stage = "failed"]) /\ UNCHANGED cache
  /\ UNCHANGED <<trusted, now, code, manifest, loaded, intact>>

\* Mutant: the version is not part of what is signed.
SignedAnyVersion(s, entry, bundle) == s.key \in trusted /\ s.code = bundle

\* the canonical payload: id, version, entry point, URL and the bundle's hash
Signed(s, entry, bundle) == s.key \in trusted /\ s.code = bundle /\ s.version = entry.version

\* verifyPluginBundle: a key, a signature, the index's hash if it has one, and a match
Verified(entry, bundle) ==
  /\ trusted # {} /\ entry.signature # NoSignature
  /\ entry.integrity \in {"none", bundle}
  /\ Signed(entry.signature, entry, bundle)

\* the download may bring anything, and nothing is written before it is verified
Download(c) ==
  /\ client[c].stage = "indexed"
  /\ \E bundle \in Codes :
       Goes(c, [client[c] EXCEPT !.code = bundle,
                                 !.stage = IF Verified(client[c].entry, bundle) THEN "verified" ELSE "failed"])
  /\ UNCHANGED <<trusted, now, cache, code, manifest, loaded, intact>>

\* writePrivateFile twice: truncated, then written, into a file that may be removed by then
WriteCode(c) ==
  /\ \/ client[c].stage = "verified" /\ code' = "torn" /\ Goes(c, [client[c] EXCEPT !.stage = "code"])
     \/ /\ client[c].stage = "code"
        /\ code' \in {client[c].code} \cup (IF client[c].alone THEN {} ELSE {code})
        /\ Goes(c, [client[c] EXCEPT !.stage = "written"])
  /\ UNCHANGED <<trusted, now, cache, manifest, loaded, intact>>

WriteManifest(c) ==
  /\ \/ /\ client[c].stage = "written" /\ manifest' = Torn
        /\ Goes(c, [client[c] EXCEPT !.stage = "manifest"]) /\ UNCHANGED intact
     \/ /\ client[c].stage = "manifest"
        /\ manifest' \in {[client[c].entry EXCEPT !.integrity = client[c].code]}
                            \cup (IF client[c].alone THEN {} ELSE {manifest})
        /\ intact' = client[c].alone
        /\ Goes(c, [client[c] EXCEPT !.stage = "done"])
  /\ UNCHANGED <<trusted, now, cache, code, loaded>>

\* a download or a write fails, or the process ends
InstallStops(c) ==
  /\ c \in Writers
  /\ Goes(c, [client[c] EXCEPT !.stage = "failed"])
  /\ intact' = (intact /\ client[c].stage \in {"indexed", "verified"})
  /\ UNCHANGED <<trusted, now, cache, code, manifest, loaded>>

Uninstall ==
  /\ code' = "none" /\ manifest' = NoPlugin /\ intact' = FALSE
  /\ client' = [c \in Installers |-> [client[c] EXCEPT !.alone = FALSE]]
  /\ UNCHANGED <<trusted, now, cache, loaded>>

\* the file is edited after it was installed
Tamper ==
  /\ code # "none"
  /\ \E bundle \in Codes : code' = bundle
  /\ intact' = FALSE
  /\ client' = [c \in Installers |-> [client[c] EXCEPT !.alone = FALSE]]
  /\ UNCHANGED <<trusted, now, cache, manifest, loaded>>

\* verifyInstalledPlugin: a complete manifest, and the bundle verified against it
Loadable == manifest \notin {NoPlugin, Torn} /\ Verified(manifest, code)

LoadPlugin ==
  /\ Loadable
  /\ loaded' = loaded \cup {<<manifest.version, code>>}
  /\ UNCHANGED <<trusted, now, cache, client, code, manifest, intact>>

PluginNext ==
  \/ PluginTick \/ Uninstall \/ Tamper \/ LoadPlugin
  \/ \E c \in Installers : GetEntry(c) \/ Download(c) \/ WriteCode(c) \/ WriteManifest(c) \/ InstallStops(c)

-----------------------------------------------------------------------------
\* However installations overlap, stop or are edited, only a bundle is loaded that a trusted
\* key signed for the version of its manifest; one that met no other writer loads; and an
\* installation works from an index that is not older than its time to live.
PluginsSound ==
  /\ \A l \in loaded : \E e \in Entries :
       e.signature.key \in trusted /\ e.signature.version = l[1] /\ e.signature.code = l[2]
  /\ intact /\ Writers = {} => Loadable
  /\ \A c \in Installers : client[c].age < Ttl
=============================================================================
