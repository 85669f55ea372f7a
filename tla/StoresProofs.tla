----------------------------- MODULE StoresProofs -----------------------------
(***************************************************************************)
(* What TLAPS proves of the parts that MCStores puts side by side: the       *)
(* settings, the wiki's pages, the files of a template, the installed        *)
(* plugins, the desktop's windows, the spoken conversation, the files that   *)
(* are read, changed and written as a whole, and the registered tools.       *)
(***************************************************************************)
EXTENDS MCStores, SequenceTheorems, FiniteSetTheorems, WellFoundedInduction, TLAPS

-----------------------------------------------------------------------------
(* Settings. *)

LEMMA DefaultsAre ==
  /\ DOMAIN Defaults = Keys /\ Defaults["maxTurns"] = 1 /\ Defaults["provider"] = 1
  /\ Untrusted \subseteq Keys /\ DOMAIN None = {}
BY DEF Defaults, Keys, Untrusted, PatchKeys, None

\* A layer that is not trusted changes no untrusted key.
LEMMA LayerTrusted ==
  ASSUME NEW layer, NEW file
  PROVE  /\ Untrusted \subseteq DOMAIN Merged(file, layer)
         /\ \A k \in Untrusted : Merged(file, layer)[k] = Merged(file, None)[k]
<1> DEFINE F == Over(file, Defaults)
           T(l) == Trusted(l, file)
           G(l) == Over(T(l), F)
<1>1. \A l : DOMAIN T(l) = DOMAIN l \ Untrusted
  BY DEF Trusted, Restrict
<1> HIDE DEF T
<1>2. Untrusted \subseteq DOMAIN F
  BY DefaultsAre DEF Over
<1> HIDE DEF F
<1>3. \A l : Untrusted \subseteq DOMAIN G(l) /\ \A k \in Untrusted : G(l)[k] = F[k]
  BY <1>1, <1>2 DEF Over
<1> HIDE DEF G
<1>4. \A l : Merged(file, l) = Over(environment, G(l))
  BY DEF Merged, G, T, F
<1>5. ASSUME NEW l, NEW k \in Untrusted
      PROVE  /\ k \in DOMAIN Over(environment, G(l))
             /\ Over(environment, G(l))[k] = IF k \in DOMAIN environment THEN environment[k] ELSE F[k]
  BY <1>3 DEF Over
<1> QED BY <1>4, <1>5

LEMMA LayersAgree ==
  ASSUME NEW clone
  PROVE  /\ Resolves(user, clone) <=> Loads(clone) /\ Resolves(user, NoFile)
         /\ \A k \in Untrusted : Resolved(user, clone)[k] = Resolved(user, NoFile)[k]
<1> DEFINE M(l) == Merged(Held(user), l)
<1>1. \A l : Untrusted \subseteq DOMAIN M(l) /\ \A k \in Untrusted : M(l)[k] = M(None)[k]
  BY LayerTrusted
<1>2. /\ Resolves(user, clone) <=> Loads(user) /\ Loads(clone) /\ Valid(M(Held(clone)))
      /\ Resolves(user, NoFile) <=> Loads(user) /\ Loads(NoFile) /\ Valid(M(Held(NoFile)))
      /\ Resolved(user, clone) = Validated(M(Held(clone))) /\ Resolved(user, NoFile) = Validated(M(Held(NoFile)))
  BY DEF Resolves, Resolved
<1>3. Loads(NoFile) /\ Held(NoFile) = None
  BY DEF Loads, Held, NoFile
<1> HIDE DEF M
<1>4. "maxTurns" \in Untrusted /\ "provider" \in Untrusted
  BY DEF Untrusted
<1>5. \A l : Valid(M(l)) <=> Valid(M(None))
  BY <1>1, <1>4 DEF Valid
<1>6. \A l, k : k \in Untrusted => Validated(M(l))[k] = IF k = "maxTurns" THEN Clamped(M(l)[k]) ELSE M(l)[k]
  BY <1>1 DEF Validated
<1>7. \A k \in Untrusted : Validated(M(Held(clone)))[k] = Validated(M(None))[k]
  BY <1>1, <1>6
<1> QED BY <1>2, <1>3, <1>5, <1>7

\* What a patch may be that is written.
Fit(patch) ==
  /\ DOMAIN patch \subseteq PatchKeys
  /\ \A k \in DOMAIN patch : patch[k] # 0
  /\ Validated(Over(patch, Defaults)) = Over(patch, Defaults)

LEMMA ClampedTwice == /\ \A v : Clamped(Clamped(v)) = Clamped(v)
                      /\ \A v : v # 0 => Clamped(v) # 0
                      /\ Clamped(1) = 1
<1>1. ~(MaxTurnsValue > MaxTurnsValue) /\ ~(1 > MaxTurnsValue) /\ MaxTurnsValue # 0
  BY SettingsAssumption
<1>2. ASSUME NEW v PROVE Clamped(v) = v \/ Clamped(v) = MaxTurnsValue
  BY DEF Clamped
<1>3. Clamped(MaxTurnsValue) = MaxTurnsValue /\ Clamped(1) = 1
  BY <1>1, Zenon DEF Clamped
<1>4. ASSUME NEW v PROVE Clamped(Clamped(v)) = Clamped(v)
  <2>1. CASE Clamped(v) = v
    BY <2>1
  <2>2. CASE Clamped(v) = MaxTurnsValue
    BY <1>3, <2>2
  <2> QED BY <1>2, <2>1, <2>2
<1>5. ASSUME NEW v, v # 0 PROVE Clamped(v) # 0
  BY <1>1, <1>2, <1>5
<1> QED BY <1>3, <1>4, <1>5

LEMMA PatchFits ==
  ASSUME NEW patch, PatchOk(patch)
  PROVE  Fit(PatchOut(patch))
<1> DEFINE s == Over(patch, Defaults)
           v == Validated(s)
           out == PatchOut(patch)
           t == Over(out, Defaults)
<1>1. /\ DOMAIN patch \subseteq PatchKeys /\ s["maxTurns"] # 0 /\ s["provider"] # 0
      /\ DOMAIN s = DOMAIN patch \cup Keys
      /\ \A k \in DOMAIN s \ DOMAIN patch : s[k] = Defaults[k]
  <2>1. DOMAIN s = DOMAIN patch \cup Keys /\ \A k \in DOMAIN s \ DOMAIN patch : s[k] = Defaults[k]
    BY DefaultsAre DEF Over
  <2> QED BY <2>1 DEF PatchOk, Valid
<1>2. DOMAIN v = DOMAIN s /\ \A k \in DOMAIN s : v[k] = IF k = "maxTurns" THEN Clamped(s[k]) ELSE s[k]
  BY DEF Validated
<1>3. DOMAIN out = DOMAIN patch /\ \A k \in DOMAIN patch : out[k] = v[k]
  BY DEF PatchOut, Restrict
<1>4. DOMAIN t = DOMAIN out \cup Keys /\ (\A k \in DOMAIN out : t[k] = out[k])
      /\ \A k \in DOMAIN t \ DOMAIN out : t[k] = Defaults[k]
  <2> HIDE DEF s, v, out
  <2> QED BY DefaultsAre DEF Over
<1>5. t = [k \in DOMAIN t |-> t[k]]
  BY DEF Over
<1> HIDE DEF s, v, out, t
<1>6. PatchKeys = {"provider", "maxTurns"} /\ "maxTurns" \in Keys
  BY DEF PatchKeys, Keys, Untrusted
<1>7. \A k \in DOMAIN out : out[k] # 0
  BY <1>1, <1>2, <1>3, <1>6, ClampedTwice
<1>8. Clamped(t["maxTurns"]) = t["maxTurns"]
  <2>1. CASE "maxTurns" \in DOMAIN patch
    <3>1. t["maxTurns"] = Clamped(s["maxTurns"])
      BY <1>1, <1>2, <1>3, <1>4, <2>1
    <3> QED BY <3>1, ClampedTwice
  <2>2. CASE "maxTurns" \notin DOMAIN patch
    <3>1. t["maxTurns"] = 1
      BY <1>3, <1>4, <1>6, <2>2, DefaultsAre
    <3> QED BY <3>1, ClampedTwice
  <2> QED BY <2>1, <2>2
<1>9. [t EXCEPT !["maxTurns"] = Clamped(@)] = t
  BY <1>5, <1>8
<1> QED BY <1>1, <1>3, <1>7, <1>9 DEF Fit, t, Validated, out

PostStages == {"new", "reading", "read", "writing", "saved", "lost"}

LayerKeeps(g, f) == \A k \in DOMAIN f : k \in DOMAIN g /\ g[k] = f[k]

\* A POST that is alone is the only one under way, and knows all that is to be kept.
PostIs(p) ==
  /\ posts[p] = [stage |-> posts[p].stage, patch |-> posts[p].patch, read |-> posts[p].read, alone |-> posts[p].alone]
  /\ posts[p].stage \in PostStages
  /\ posts[p].stage \in {"reading", "read", "writing", "saved"} => Fit(posts[p].patch)
  /\ posts[p].alone /\ p \in Underway => Underway = {p}
  /\ posts[p].alone /\ posts[p].stage \in {"read", "writing"} => LayerKeeps(posts[p].read, settled)

Opened == \E p \in Posts : posts[p].stage = "writing"

SettingsInv ==
  /\ posts = [p \in Posts |-> posts[p]]
  /\ \A p \in Posts : PostIs(p)
  /\ user.kind = "object" => LayerKeeps(user.keys, settled)
  /\ user.kind # "object" /\ ~Opened => DOMAIN settled = {}
  /\ Opened => user.kind \in {"object", "torn"}
  /\ reply.shows \cap Credentials = {}

\* A POST that goes on changes nothing that another one alone rests on.
LEMMA PostKeeps ==
  ASSUME SettingsInv, NEW p \in Posts, p \in Underway, NEW s \in PostStages, NEW read,
         posts' = [posts EXCEPT ![p] = [stage |-> s, patch |-> posts[p].patch, read |-> read, alone |-> posts[p].alone]],
         posts[p].alone /\ s \in {"read", "writing"} => LayerKeeps(read, settled'),
         settled' = settled \/ s = "saved"
  PROVE  /\ posts' = [q \in Posts |-> posts'[q]] /\ \A q \in Posts : PostIs(q)'
         /\ posts'[p].stage = s /\ \A q \in Posts \ {p} : posts'[q] = posts[q]
<1> DEFINE r == [stage |-> s, patch |-> posts[p].patch, read |-> read, alone |-> posts[p].alone]
<1>1. posts' = [q \in Posts |-> IF q = p THEN r ELSE posts[q]]
  BY DEF SettingsInv
<1>2. posts'[p] = r /\ \A q \in Posts \ {p} : posts'[q] = posts[q]
  BY <1>1
<1>3. /\ r.stage = s /\ r.patch = posts[p].patch /\ r.read = read /\ r.alone = posts[p].alone
      /\ r = [stage |-> r.stage, patch |-> r.patch, read |-> r.read, alone |-> r.alone]
  OBVIOUS
<1> HIDE DEF r
<1>4. PostIs(p) /\ posts[p].stage \in {"reading", "read", "writing"} /\ (posts[p].alone => Underway = {p})
  BY DEF SettingsInv, PostIs, Underway
<1>5. Underway' \subseteq Underway
  BY <1>2, <1>3, <1>4 DEF Underway
<1>6. ASSUME NEW q \in Posts PROVE PostIs(q)'
  <2>1. CASE q = p
    <3>1. posts'[p].alone /\ p \in Underway' => Underway' = {p}
      BY <1>2, <1>3, <1>4, <1>5
    <3> QED BY <1>2, <1>3, <1>4, <2>1, <3>1 DEF PostIs
  <2>2. CASE q # p
    <3>1. posts'[q] = posts[q] /\ PostIs(q)
      BY <1>2, <2>2 DEF SettingsInv
    <3>2. ~(posts[q].alone /\ q \in Underway)
      BY <2>2, <3>1 DEF PostIs
    <3>3. q \in Underway' => q \in Underway
      BY <3>1 DEF Underway
    <3>4. ~(posts[q].alone /\ posts[q].stage \in {"read", "writing"})
      BY <3>2 DEF Underway
    <3> QED BY <3>1, <3>2, <3>3, <3>4 DEF PostIs
  <2> QED BY <2>1, <2>2
<1> QED BY <1>1, <1>2, <1>3, <1>6

LEMMA PostReadKeeps ==
  ASSUME SettingsInv, NEW p \in Posts, PostRead(p)
  PROVE  SettingsInv'
<1>1. /\ posts[p].stage = "reading" /\ p \in Underway /\ PostIs(p)
      /\ UNCHANGED <<user, project, environment, settled, reply>>
  BY DEF PostRead, Underway, SettingsInv
<1> DEFINE r == posts[p]
<1>2. posts' = [posts EXCEPT ![p] = [stage |-> "read", patch |-> r.patch, read |-> Held(user), alone |-> r.alone]]
  <2>1. posts' = [posts EXCEPT ![p] = [r EXCEPT !.stage = "read", !.read = Held(user)]]
    BY DEF PostRead, SettingsInv
  <2>2. r = [stage |-> r.stage, patch |-> r.patch, read |-> r.read, alone |-> r.alone]
    BY <1>1 DEF PostIs
  <2> DEFINE q == [r EXCEPT !.stage = "read"]
  <2> HIDE DEF r
  <2>3. q = [stage |-> "read", patch |-> r.patch, read |-> r.read, alone |-> r.alone]
    BY <2>2
  <2>4. [r EXCEPT !.stage = "read", !.read = Held(user)] = [q EXCEPT !.read = Held(user)]
    OBVIOUS
  <2> HIDE DEF q
  <2>5. [q EXCEPT !.read = Held(user)] = [stage |-> "read", patch |-> r.patch, read |-> Held(user), alone |-> r.alone]
    BY <2>3
  <2> QED BY <2>1, <2>4, <2>5
<1>3. r.alone => LayerKeeps(Held(user), settled)
  <2>1. r.alone => ~Opened
    <3>1. ASSUME r.alone, NEW q \in Posts, posts[q].stage = "writing" PROVE FALSE
      <4>1. q \in Underway /\ q # p
        BY <1>1, <3>1 DEF Underway
      <4> QED BY <1>1, <3>1, <4>1 DEF PostIs
    <3> QED BY <3>1 DEF Opened
  <2> QED BY <2>1 DEF SettingsInv, Held, LayerKeeps
<1>4. /\ posts' = [q \in Posts |-> posts'[q]] /\ \A q \in Posts : PostIs(q)'
      /\ posts'[p].stage = "read" /\ \A q \in Posts \ {p} : posts'[q] = posts[q]
  BY <1>1, <1>2, <1>3, PostKeeps DEF PostStages
<1>5. Opened' <=> Opened
  BY <1>1, <1>4 DEF Opened
<1> QED BY <1>1, <1>4, <1>5 DEF SettingsInv

LEMMA PostTruncateKeeps ==
  ASSUME SettingsInv, NEW p \in Posts, PostTruncate(p)
  PROVE  SettingsInv'
<1>1. /\ posts[p].stage = "read" /\ p \in Underway /\ PostIs(p) /\ user'.kind = "torn"
      /\ UNCHANGED <<project, environment, settled, reply>>
  BY DEF PostTruncate, Underway, SettingsInv
<1> DEFINE r == posts[p]
<1>2. posts' = [posts EXCEPT ![p] = [stage |-> "writing", patch |-> r.patch, read |-> r.read, alone |-> r.alone]]
  <2>1. posts' = [posts EXCEPT ![p] = [r EXCEPT !.stage = "writing"]]
    BY DEF PostTruncate, SettingsInv
  <2>2. r = [stage |-> r.stage, patch |-> r.patch, read |-> r.read, alone |-> r.alone]
    BY <1>1 DEF PostIs
  <2> HIDE DEF r
  <2>3. [r EXCEPT !.stage = "writing"] = [stage |-> "writing", patch |-> r.patch, read |-> r.read, alone |-> r.alone]
    BY <2>2
  <2> QED BY <2>1, <2>3
<1>3. r.alone => LayerKeeps(r.read, settled)
  BY <1>1 DEF PostIs
<1>4. /\ posts' = [q \in Posts |-> posts'[q]] /\ \A q \in Posts : PostIs(q)'
      /\ posts'[p].stage = "writing"
  BY <1>1, <1>2, <1>3, PostKeeps DEF PostStages
<1>5. Opened'
  BY <1>4 DEF Opened
<1> QED BY <1>1, <1>4, <1>5 DEF SettingsInv

LEMMA PostWriteKeeps ==
  ASSUME SettingsInv, NEW p \in Posts, PostWrite(p)
  PROVE  SettingsInv'
<1>1. /\ posts[p].stage = "writing" /\ p \in Underway /\ PostIs(p)
      /\ user'.kind = "object" /\ user'.keys = Over(posts[p].patch, posts[p].read)
      /\ settled' = IF posts[p].alone THEN Over(posts[p].patch, settled) ELSE None
      /\ reply'.shows = DOMAIN posts[p].patch
  BY DEF PostWrite, Written, Reply, Underway, SettingsInv
<1> DEFINE r == posts[p]
<1>2. posts' = [posts EXCEPT ![p] = [stage |-> "saved", patch |-> r.patch, read |-> r.read, alone |-> r.alone]]
  <2>1. posts' = [posts EXCEPT ![p] = [r EXCEPT !.stage = "saved"]]
    BY DEF PostWrite, SettingsInv
  <2>2. r = [stage |-> r.stage, patch |-> r.patch, read |-> r.read, alone |-> r.alone]
    BY <1>1 DEF PostIs
  <2> HIDE DEF r
  <2>3. [r EXCEPT !.stage = "saved"] = [stage |-> "saved", patch |-> r.patch, read |-> r.read, alone |-> r.alone]
    BY <2>2
  <2> QED BY <2>1, <2>3
<1>3. /\ posts' = [q \in Posts |-> posts'[q]] /\ \A q \in Posts : PostIs(q)'
  BY <1>1, <1>2, PostKeeps DEF PostStages
<1>4. LayerKeeps(user'.keys, settled')
  <2>1. CASE r.alone
    <3>1. LayerKeeps(r.read, settled) /\ settled' = Over(r.patch, settled)
      BY <1>1, <2>1 DEF PostIs
    <3> QED BY <1>1, <3>1 DEF LayerKeeps, Over
  <2>2. CASE ~r.alone
    BY <1>1, <2>2, DefaultsAre DEF LayerKeeps
  <2> QED BY <2>1, <2>2
<1>5. reply'.shows \cap Credentials = {}
  BY <1>1 DEF PostIs, Fit, PatchKeys, Credentials
<1> QED BY <1>1, <1>3, <1>4, <1>5 DEF SettingsInv

LEMMA PostBeginKeeps ==
  ASSUME SettingsInv, NEW p \in Posts, NEW patch, PostBegin(p, patch)
  PROVE  SettingsInv'
<1>1. /\ posts[p].stage = "new" /\ p \notin Underway /\ Fit(PatchOut(patch))
      /\ UNCHANGED <<user, project, environment, settled, reply>>
  BY PatchFits DEF PostBegin, Underway
<1> DEFINE nobody == Underway = {}
           r == [stage |-> "reading", patch |-> PatchOut(patch), read |-> None, alone |-> nobody]
<1>2. posts' = [q \in Posts |-> IF q = p THEN r
                                ELSE IF q \in Underway THEN [posts[q] EXCEPT !.alone = FALSE] ELSE posts[q]]
  BY DEF PostBegin
<1>3. posts'[p] = r /\ posts' = [q \in Posts |-> posts'[q]]
      /\ (\A q \in Underway : posts'[q] = [posts[q] EXCEPT !.alone = FALSE])
      /\ \A q \in Posts \ (Underway \cup {p}) : posts'[q] = posts[q]
  BY <1>1, <1>2 DEF Underway
<1> HIDE DEF nobody
<1>4. /\ r.stage = "reading" /\ r.patch = PatchOut(patch) /\ r.alone = nobody
      /\ r = [stage |-> r.stage, patch |-> r.patch, read |-> r.read, alone |-> r.alone]
  OBVIOUS
<1> HIDE DEF r
<1>5. ASSUME NEW q \in Underway
      PROVE  /\ posts'[q] = [stage |-> posts'[q].stage, patch |-> posts'[q].patch, read |-> posts'[q].read,
                             alone |-> posts'[q].alone]
             /\ posts'[q].stage = posts[q].stage /\ posts'[q].patch = posts[q].patch
             /\ posts'[q].read = posts[q].read /\ ~posts'[q].alone
  <2>1. posts[q] = [stage |-> posts[q].stage, patch |-> posts[q].patch, read |-> posts[q].read, alone |-> posts[q].alone]
    BY DEF SettingsInv, PostIs, Underway
  <2>2. posts'[q] = [stage |-> posts[q].stage, patch |-> posts[q].patch, read |-> posts[q].read, alone |-> FALSE]
    BY <1>3, <2>1
  <2> QED BY <2>2
<1>6. \A q \in Posts \ {p} : posts'[q].stage = posts[q].stage
  BY <1>3, <1>5
<1>7. Underway' = Underway \cup {p}
  BY <1>1, <1>3, <1>4, <1>6 DEF Underway
<1>8. ASSUME NEW q \in Posts PROVE PostIs(q)'
  <2>1. CASE q = p
    <3>1. r.alone => Underway' = {p}
      BY <1>4, <1>7 DEF nobody
    <3> QED BY <1>1, <1>3, <1>4, <2>1, <3>1 DEF PostIs, PostStages
  <2>2. CASE q \in Underway
    <3>1. PostIs(q) /\ posts[q].stage \in PostStages
      BY <2>2 DEF SettingsInv, PostIs, Underway
    <3> QED BY <1>5, <2>2, <3>1 DEF PostIs
  <2>3. CASE q \notin Underway \cup {p}
    <3>1. posts'[q] = posts[q] /\ PostIs(q) /\ q \notin Underway'
      BY <1>3, <1>7, <2>3 DEF SettingsInv
    <3>2. posts[q].stage \notin {"read", "writing"}
      BY <2>3 DEF Underway
    <3> QED BY <3>1, <3>2 DEF PostIs
  <2> QED BY <2>1, <2>2, <2>3
<1>9. Opened' <=> Opened
  BY <1>1, <1>3, <1>4, <1>6 DEF Opened
<1> QED BY <1>1, <1>3, <1>8, <1>9 DEF SettingsInv

LEMMA DashboardStopsKeeps ==
  ASSUME SettingsInv, DashboardStops
  PROVE  SettingsInv'
<1>1. /\ UNCHANGED <<user, project, environment, reply>>
      /\ settled' = IF user.kind = "torn" THEN None ELSE settled
      /\ posts' = [q \in Posts |-> posts'[q]]
      /\ \A q \in Underway : posts'[q] = [posts[q] EXCEPT !.stage = "lost"]
      /\ \A q \in Posts \ Underway : posts'[q] = posts[q]
  BY DEF DashboardStops, Underway
<1>2. ASSUME NEW q \in Underway
      PROVE  /\ posts'[q] = [stage |-> posts'[q].stage, patch |-> posts'[q].patch, read |-> posts'[q].read,
                             alone |-> posts'[q].alone]
             /\ posts'[q].stage = "lost"
  <2>1. posts[q] = [stage |-> posts[q].stage, patch |-> posts[q].patch, read |-> posts[q].read, alone |-> posts[q].alone]
    BY DEF SettingsInv, PostIs, Underway
  <2>2. posts'[q] = [stage |-> "lost", patch |-> posts[q].patch, read |-> posts[q].read, alone |-> posts[q].alone]
    BY <1>1, <2>1
  <2> QED BY <2>2
<1>3. \A q \in Posts : posts'[q].stage \notin {"reading", "read", "writing"}
  BY <1>1, <1>2 DEF Underway
<1>4. Underway' = {} /\ ~Opened'
  BY <1>3 DEF Underway, Opened
<1>5. ASSUME NEW q \in Posts PROVE PostIs(q)'
  <2>1. CASE q \in Underway
    BY <1>2, <1>4, <2>1 DEF PostIs, PostStages
  <2>2. CASE q \notin Underway
    BY <1>1, <1>3, <1>4, <2>2 DEF SettingsInv, PostIs
  <2> QED BY <2>1, <2>2
<1>6. user'.kind = "object" => LayerKeeps(user'.keys, settled')
  BY <1>1 DEF SettingsInv
<1>7. user'.kind # "object" => DOMAIN settled' = {}
  <2>1. CASE user.kind = "torn"
    BY <1>1, <2>1, DefaultsAre
  <2>2. CASE user.kind # "torn"
    BY <1>1, <2>2 DEF SettingsInv
  <2> QED BY <2>1, <2>2
<1> QED BY <1>1, <1>4, <1>5, <1>6, <1>7 DEF SettingsInv

LEMMA SettingsKeep == SettingsInv /\ SettingsNext => SettingsInv'
<1> SUFFICES ASSUME SettingsInv, SettingsNext PROVE SettingsInv'
  OBVIOUS
<1>1. ASSUME UNCHANGED <<user, project, environment, posts, settled>>, reply'.shows \cap Credentials = {}
      PROVE  SettingsInv'
  BY <1>1 DEF SettingsInv, PostIs, Underway, Opened
<1>2. ASSUME NEW token \in BOOLEAN, NEW path, Page(path, token) \/ Feed(path, token) \/ Action(path, token)
      PROVE  SettingsInv'
  <2>1. reply'.shows \in {{}, {"feed"}, {"audit"}}
    BY <1>2 DEF Page, Feed, Action, Reply
  <2> QED BY <1>1, <1>2, <2>1 DEF Page, Feed, Action, Credentials
<1>3. ASSUME NEW token \in BOOLEAN, GetSettings(token) PROVE SettingsInv'
  <2>1. reply'.shows = {} \/ \E s : reply'.shows = DOMAIN s \ Credentials
    BY <1>3 DEF GetSettings, Reply, Shown
  <2> QED BY <1>1, <1>3, <2>1 DEF GetSettings
<1>4. ASSUME NEW token \in BOOLEAN, NEW body, PostRefused(token, body) PROVE SettingsInv'
  <2>1. reply'.shows = {}
    BY <1>4 DEF PostRefused, Reply
  <2> QED BY <1>1, <1>4, <2>1 DEF PostRefused
<1> QED BY <1>2, <1>3, <1>4, PostBeginKeeps, PostReadKeeps, PostTruncateKeeps, PostWriteKeeps, DashboardStopsKeeps
        DEF SettingsNext

LEMMA SettingsStay == SettingsInv /\ UNCHANGED settingsVars => SettingsInv'
BY DEF SettingsInv, settingsVars, PostIs, Underway, Opened

LEMMA SettingsBegin == SettingsInit => SettingsInv
<1> SUFFICES ASSUME SettingsInit PROVE SettingsInv
  OBVIOUS
<1>1. \A p \in Posts : posts[p] = [stage |-> "new", patch |-> None, read |-> None, alone |-> TRUE]
  BY DEF SettingsInit
<1>2. \A p \in Posts : posts[p].stage = "new"
  BY <1>1
<1>3. Underway = {} /\ ~Opened
  BY <1>2 DEF Underway, Opened
<1>4. \A p \in Posts : PostIs(p)
  BY <1>1, <1>2, <1>3 DEF PostIs, PostStages
<1> QED BY <1>3, <1>4, DefaultsAre DEF SettingsInit, SettingsInv, Held, LayerKeeps

LEMMA SettingsHold == SettingsInv => SettingsSound
<1> SUFFICES ASSUME SettingsInv PROVE SettingsSound
  OBVIOUS
<1>1. ASSUME NEW p \in Posts, posts[p].stage = "saved" PROVE Fit(posts[p].patch)
  BY <1>1 DEF SettingsInv, PostIs
<1>2. user.kind = "torn" \/ LayerKeeps(user.keys, settled)
  BY DEF SettingsInv, LayerKeeps
<1> QED BY <1>1, <1>2, LayersAgree DEF SettingsInv, SettingsSound, Fit, LayerKeeps

-----------------------------------------------------------------------------
(* The pages. *)

Saving == {"saving", "writing"}

\* What is called id is the page of the slug s, among these calls.
Owns(calls, id, s) == id \in WikiCalls /\ calls[id].stage # "new" /\ StoredAs[calls[id].title] = s

PagesOwned ==
  \A s \in Slugs : IF page[s].kind = "page" THEN Owns(call, page[s].holds.id, s) ELSE page[s].holds = NoPage

\* A call, it, knows the page it is about.
Owned(calls, it) ==
  /\ it.stage # "new" => it.title \in Titles /\ it.kind \in {"write", "read", "compile"}
  /\ it.stage = "fetching" => it.kind # "write"
  /\ it.stage \in Saving => it.slug \in Slugs /\ Owns(calls, it.base.id, it.slug)
  /\ it.stage \in {"fetching", "updating"} => Owns(calls, it.base.id, StoredAs[calls[it.base.id].title])

AloneCalls == {c \in CallsUnderway : call[c].alone}

\* Nothing of what has to be kept of the page at s is missing from these sources.
Covers(keeps, sources, s) == \A t \in Titles : FoundAgain(t) /\ StoredAs[t] = s => keeps[t] \subseteq sources

\* Without another since its start, it is about the page it looked for, and knows its sources.
Undisturbed(calls, keeps, c, it) ==
  /\ it.stage \in {"fetching", "updating"} => StoredAs[calls[it.base.id].title] = SoughtAs[it.title]
  /\ it.stage = "updating" /\ it.kind = "write" =>
       c \in it.patch.sources /\ Covers(keeps, it.patch.sources, SoughtAs[it.title])
  /\ it.stage \in Saving =>
       /\ FoundAgain(it.title) => it.slug = StoredAs[it.title]
       /\ Covers(keeps, it.base.sources, it.slug)
       /\ it.kind = "write" => c \in it.base.sources

\* The page that the call found is there.
Present(pages, it) ==
  it.stage \in {"fetching", "updating"} =>
    \E s \in Slugs : pages[s].kind = "page" /\ pages[s].holds.id = it.base.id

BeingWritten(s) == \E c \in WikiCalls : call[c].stage = "writing" /\ call[c].slug = s
SourcesAt(s) == IF page[s].kind = "page" THEN page[s].holds.sources ELSE {}

PageIs(p) == p = [id |-> p.id, sources |-> p.sources, compiled |-> p.compiled, reads |-> p.reads]
CallIs(it) == it = [stage |-> it.stage, kind |-> it.kind, title |-> it.title, slug |-> it.slug, alone |-> it.alone,
                  patch |-> it.patch, base |-> it.base]

WikiShapes ==
  /\ page = [s \in Slugs |-> page[s]] /\ call = [c \in WikiCalls |-> call[c]]
  /\ keptSources = [t \in Titles |-> keptSources[t]]
  /\ \A s \in Slugs : PageIs(page[s].holds)
  /\ \A c \in WikiCalls : CallIs(call[c]) /\ PageIs(call[c].base)

WikiInv ==
  /\ WikiShapes /\ PagesOwned
  /\ \A c \in WikiCalls : Owned(call, call[c])
  /\ \A c \in AloneCalls :
       CallsUnderway = {c} /\ Undisturbed(call, keptSources, c, call[c]) /\ Present(page, call[c])
  /\ \A s \in Slugs : ~BeingWritten(s) => Covers(keptSources, SourcesAt(s), s)

\* The call it, further on.
CallAt(it, stage, slug, patch, base) ==
  [stage |-> stage, kind |-> it.kind, title |-> it.title, slug |-> slug, alone |-> it.alone,
   patch |-> patch, base |-> base]

LEMMA CallAtHas ==
  ASSUME NEW it, NEW stage, NEW slug, NEW patch, NEW base, NEW to, to = CallAt(it, stage, slug, patch, base)
  PROVE  /\ to.stage = stage /\ to.kind = it.kind /\ to.title = it.title /\ to.slug = slug
         /\ to.alone = it.alone /\ to.patch = patch /\ to.base = base /\ CallIs(to)
BY DEF CallAt, CallIs

\* Who calls, of what and how, never changes once it does.
SameCalls ==
  \A d \in WikiCalls : call[d].stage # "new" =>
    call'[d].stage # "new" /\ call'[d].title = call[d].title /\ call'[d].kind = call[d].kind

LEMMA OwnsStays ==
  ASSUME SameCalls, NEW id, NEW s, Owns(call, id, s)
  PROVE  Owns(call', id, s) /\ call'[id].title = call[id].title
BY DEF SameCalls, Owns

LEMMA OwnedStays ==
  ASSUME SameCalls, NEW it, Owned(call, it)
  PROVE  Owned(call', it)
BY OwnsStays DEF Owned

\* A step of one call: what it now is has to be shown, and what becomes of the pages.
LEMMA OneCallMoves ==
  ASSUME WikiInv, NEW c \in WikiCalls, NEW to, Moves(c, to), c \in CallsUnderway,
         to.stage # "new", to.title = call[c].title, to.kind = call[c].kind, to.alone = call[c].alone
  PROVE  /\ SameCalls
         /\ call' = [d \in WikiCalls |-> call'[d]] /\ call'[c] = to
         /\ \A d \in WikiCalls : d # c => call'[d] = call[d]
         /\ \A d \in AloneCalls' : d = c /\ c \in AloneCalls /\ CallsUnderway' = {c}
         /\ \A d \in WikiCalls : d # c => Owned(call', call'[d])
<1>1. /\ call' = [d \in WikiCalls |-> call'[d]] /\ call'[c] = to
      /\ \A d \in WikiCalls : d # c => call'[d] = call[d]
  BY DEF WikiInv, WikiShapes, Moves
<1>2. SameCalls
  BY <1>1 DEF SameCalls
<1>3. CallsUnderway' \subseteq CallsUnderway
  BY <1>1 DEF CallsUnderway
<1>4. ASSUME NEW d \in AloneCalls' PROVE d = c /\ c \in AloneCalls /\ CallsUnderway' = {c}
  <2>1. d \in CallsUnderway' /\ d \in WikiCalls /\ call'[d].alone
    BY <1>4 DEF AloneCalls, CallsUnderway
  <2>2. call[d].alone
    BY <1>1, <2>1
  <2>3. d \in AloneCalls
    BY <1>3, <2>1, <2>2 DEF AloneCalls
  <2>4. CallsUnderway = {d}
    BY <2>3 DEF WikiInv
  <2> QED BY <1>3, <2>1, <2>3, <2>4
<1>5. \A d \in WikiCalls : d # c => Owned(call', call'[d])
  BY <1>1, <1>2, OwnedStays DEF WikiInv
<1> QED BY <1>1, <1>2, <1>4, <1>5

LEMMA CallMoves ==
  ASSUME WikiInv, NEW c \in WikiCalls, NEW to, Moves(c, to), UNCHANGED <<page, keptSources>>,
         c \in CallsUnderway, call[c].stage # "writing",
         to.stage # "new", to.title = call[c].title, to.kind = call[c].kind, to.alone = call[c].alone,
         CallIs(to), PageIs(to.base), Owned(call, to),
         c \in AloneCalls => Undisturbed(call, keptSources, c, to) /\ Present(page, to)
  PROVE  WikiInv'
<1>1. /\ SameCalls
      /\ call' = [d \in WikiCalls |-> call'[d]] /\ call'[c] = to
      /\ \A d \in WikiCalls : d # c => call'[d] = call[d]
      /\ \A d \in AloneCalls' : d = c /\ c \in AloneCalls /\ CallsUnderway' = {c}
      /\ \A d \in WikiCalls : d # c => Owned(call', call'[d])
  BY OneCallMoves
<1>2. WikiShapes'
  BY <1>1 DEF WikiInv, WikiShapes, CallIs, PageIs
<1>3. PagesOwned'
  BY <1>1, OwnsStays DEF WikiInv, PagesOwned
<1>4. \A d \in WikiCalls : Owned(call', call'[d])
  BY <1>1, OwnedStays
<1>5. ASSUME NEW d \in AloneCalls'
      PROVE  CallsUnderway' = {d} /\ Undisturbed(call', keptSources', d, call'[d]) /\ Present(page', call'[d])
  <2>1. d = c /\ Undisturbed(call, keptSources, c, to) /\ Present(page, to) /\ CallsUnderway' = {c}
    BY <1>1
  <2>2. to.stage \in {"fetching", "updating"} => call'[to.base.id].title = call[to.base.id].title
    BY <1>1, OwnsStays DEF Owned
  <2>3. Undisturbed(call', keptSources', c, to)
    BY <2>1, <2>2 DEF Undisturbed
  <2> QED BY <1>1, <2>1, <2>3
<1>6. ASSUME NEW s \in Slugs, ~BeingWritten(s)' PROVE Covers(keptSources', SourcesAt(s)', s)
  <2>1. ~BeingWritten(s)
    BY <1>1, <1>6 DEF BeingWritten
  <2>2. SourcesAt(s)' = SourcesAt(s)
    BY DEF SourcesAt
  <2> QED BY <2>1, <2>2 DEF WikiInv
<1> QED BY <1>2, <1>3, <1>4, <1>5, <1>6 DEF WikiInv
LEMMA NoPageIs == PageIs(NoPage) /\ NoPage.id = "" /\ NoPage.sources = {}
<1> DEFINE no == FALSE
<1>1. NoPage = [id |-> "", sources |-> {}, compiled |-> no, reads |-> 0]
  BY DEF NoPage
<1> HIDE DEF no
<1> QED BY <1>1 DEF PageIs

LEMMA NewPageIs ==
  ASSUME NEW c
  PROVE  NewPage(c).id = c /\ NewPage(c).sources = {c} /\ PageIs(NewPage(c))
<1> DEFINE no == FALSE
           base == NewPage(c)
<1>1. base = [id |-> c, sources |-> {c}, compiled |-> no, reads |-> 0]
  BY DEF NewPage
<1> HIDE DEF no, base
<1>2. base.id = c /\ base.sources = {c} /\ PageIs(base)
  BY <1>1 DEF PageIs
<1> QED BY <1>2 DEF base

LEMMA QuietPages ==
  ASSUME WikiInv, NEW c \in AloneCalls, call[c].stage # "writing"
  PROVE  \A s \in Slugs : Covers(keptSources, SourcesAt(s), s)
<1>1. CallsUnderway = {c}
  BY DEF WikiInv
<1>2. \A s : ~BeingWritten(s)
  BY <1>1 DEF BeingWritten, CallsUnderway
<1> QED BY <1>2 DEF WikiInv

\* a call that ends with nothing to do
LEMMA OverKeeps ==
  ASSUME WikiInv, NEW c \in WikiCalls, c \in CallsUnderway, call[c].stage # "writing",
         Moves(c, [call[c] EXCEPT !.stage = "over"]), UNCHANGED <<page, keptSources>>
  PROVE  WikiInv'
<1> DEFINE it == call[c]
           to == [it EXCEPT !.stage = "over"]
<1>1. CallIs(it) /\ PageIs(it.base) /\ Owned(call, it) /\ it.stage # "new"
  BY DEF WikiInv, WikiShapes, CallsUnderway
<1>2. to.stage = "over" /\ to.title = it.title /\ to.kind = it.kind /\ to.alone = it.alone /\ to.base = it.base
      /\ CallIs(to)
  <2>1. to = CallAt(it, "over", it.slug, it.patch, it.base)
    <3> HIDE DEF it
    <3> QED BY <1>1 DEF CallIs, CallAt
  <2> HIDE DEF to
  <2> QED BY <2>1, CallAtHas
<1>3. Moves(c, to)
  OBVIOUS
<1> HIDE DEF to
<1>4. Owned(call, to) /\ Undisturbed(call, keptSources, c, to) /\ Present(page, to)
  BY <1>1, <1>2 DEF Owned, Undisturbed, Saving, Present
<1> QED BY <1>1, <1>2, <1>3, <1>4, CallMoves

LEMMA FoundBySlug ==
  ASSUME WikiInv, NEW s \in Slugs
  PROVE  /\ PageIs(BySlug(s))
         /\ IF BySlug(s).id = "" THEN SourcesAt(s) = {} ELSE BySlug(s).sources = SourcesAt(s) /\ Owns(call, BySlug(s).id, s)
         /\ BySlug(s).id # "" => page[s].kind = "page" /\ page[s].holds.id = BySlug(s).id
<1>1. CASE page[s].kind = "page"
  <2>1. BySlug(s) = page[s].holds /\ Owns(call, page[s].holds.id, s) /\ SourcesAt(s) = page[s].holds.sources
    BY <1>1 DEF BySlug, WikiInv, PagesOwned, SourcesAt
  <2>2. BySlug(s).id # ""
    BY <2>1, WikiAssumption DEF Owns
  <2>3. PageIs(page[s].holds)
    BY DEF WikiInv, WikiShapes
  <2> DEFINE there == page[s].holds
  <2>4. BySlug(s) = there /\ Owns(call, there.id, s) /\ SourcesAt(s) = there.sources /\ there.id # "" /\ PageIs(there)
    BY <2>1, <2>2, <2>3
  <2>5. page[s].holds.id = there.id
    OBVIOUS
  <2> HIDE DEF there
  <2> QED BY <1>1, <2>4, <2>5
<1>2. CASE page[s].kind # "page"
  <2>1. BySlug(s) = NoPage /\ SourcesAt(s) = {}
    BY <1>2 DEF BySlug, SourcesAt
  <2> QED BY <2>1, NoPageIs
<1> QED BY <1>1, <1>2

LEMMA LookUpToWriteKeeps ==
  ASSUME WikiInv, NEW c \in WikiCalls, LookUpToWrite(c)
  PROVE  WikiInv'
<1> DEFINE it == call[c]
           s == SoughtAs[it.title]
           fetched == BySlug(s)
<1>1. /\ it.stage = "asked" /\ it.kind = "write" /\ UNCHANGED <<page, keptSources>>
      /\ c \in CallsUnderway /\ Owned(call, it) /\ CallIs(it) /\ PageIs(it.base)
  BY DEF LookUpToWrite, CallsUnderway, WikiInv, WikiShapes
<1>2. it.title \in Titles /\ s \in Slugs /\ StoredAs[it.title] \in Slugs
  BY <1>1 DEF Owned, Slugs
<1>3. /\ PageIs(fetched)
      /\ IF fetched.id = "" THEN SourcesAt(s) = {} ELSE fetched.sources = SourcesAt(s) /\ Owns(call, fetched.id, s)
      /\ fetched.id # "" => page[s].kind = "page" /\ page[s].holds.id = fetched.id
  BY <1>2, FoundBySlug
<1>4. c \in AloneCalls => Covers(keptSources, SourcesAt(s), s)
  BY <1>1, <1>2, QuietPages
<1>5. CASE fetched.id = ""
  <2> DEFINE base == NewPage(c)
             to == [it EXCEPT !.stage = "saving", !.slug = StoredAs[it.title], !.base = base]
  <2>1. Moves(c, to)
    BY <1>5 DEF LookUpToWrite
  <2>2. base.id = c /\ base.sources = {c} /\ PageIs(base)
    BY NewPageIs
  <2> HIDE DEF base
  <2>3. /\ to.stage = "saving" /\ to.slug = StoredAs[it.title] /\ to.base = base /\ to.title = it.title
        /\ to.kind = it.kind /\ to.alone = it.alone /\ CallIs(to)
    <3> DEFINE q == [it EXCEPT !.stage = "saving"]
               p == [q EXCEPT !.slug = StoredAs[it.title]]
    <3>0. to = [p EXCEPT !.base = base]
      OBVIOUS
    <3> HIDE DEF it
    <3>1. q = CallAt(it, "saving", it.slug, it.patch, it.base)
      BY <1>1 DEF CallIs, CallAt
    <3> HIDE DEF q
    <3>2. p = CallAt(it, "saving", StoredAs[it.title], it.patch, it.base)
      BY <3>1 DEF CallAt
    <3> HIDE DEF p
    <3>3. to = CallAt(it, "saving", StoredAs[it.title], it.patch, base)
      BY <3>0, <3>2 DEF CallAt
    <3> HIDE DEF to
    <3> QED BY <3>3, CallAtHas
  <2> HIDE DEF to
  <2>4. Owns(call, c, StoredAs[it.title])
    BY <1>1 DEF Owns
  <2>5. Owned(call, to)
    BY <1>1, <1>2, <2>2, <2>3, <2>4 DEF Owned, Saving
  <2>6. ASSUME c \in AloneCalls PROVE Covers(keptSources, {c}, StoredAs[it.title])
    <3> SUFFICES ASSUME NEW t \in Titles, FoundAgain(t), StoredAs[t] = StoredAs[it.title]
                 PROVE  keptSources[t] \subseteq {c}
      BY DEF Covers
    <3>1. s = StoredAs[t]
      BY <1>2 DEF FoundAgain
    <3> QED BY <1>3, <1>4, <1>5, <2>6, <3>1 DEF Covers
  <2>7. c \in AloneCalls => Undisturbed(call, keptSources, c, to) /\ Present(page, to)
    BY <2>2, <2>3, <2>6 DEF Undisturbed, Present
  <2> QED BY <1>1, <2>1, <2>2, <2>3, <2>5, <2>7, CallMoves
<1>6. CASE fetched.id # ""
  <2> DEFINE patch == [NoPatch EXCEPT !.sources = fetched.sources \cup {c}]
             to == [it EXCEPT !.stage = "updating", !.base = fetched, !.patch = patch]
  <2>1. Moves(c, to)
    BY <1>6 DEF LookUpToWrite
  <2>2. patch.sources = fetched.sources \cup {c}
    BY DEF NoPatch
  <2> HIDE DEF patch, fetched
  <2>3. /\ to.stage = "updating" /\ to.base = fetched /\ to.patch = patch /\ to.title = it.title
        /\ to.kind = it.kind /\ to.alone = it.alone /\ CallIs(to)
    <3> DEFINE q == [it EXCEPT !.stage = "updating"]
               p == [q EXCEPT !.base = fetched]
    <3>0. to = [p EXCEPT !.patch = patch]
      OBVIOUS
    <3> HIDE DEF it
    <3>1. q = CallAt(it, "updating", it.slug, it.patch, it.base)
      BY <1>1 DEF CallIs, CallAt
    <3> HIDE DEF q
    <3>2. p = CallAt(it, "updating", it.slug, it.patch, fetched)
      BY <3>1 DEF CallAt
    <3> HIDE DEF p
    <3>3. to = CallAt(it, "updating", it.slug, patch, fetched)
      BY <3>0, <3>2 DEF CallAt
    <3> HIDE DEF to
    <3> QED BY <3>3, CallAtHas
  <2> HIDE DEF to
  <2>4. Owns(call, fetched.id, s) /\ StoredAs[call[fetched.id].title] = s /\ fetched.sources = SourcesAt(s)
    BY <1>3, <1>6 DEF Owns
  <2>5. Owned(call, to)
    BY <1>1, <1>2, <2>3, <2>4 DEF Owned, Saving
  <2>6. c \in AloneCalls => Undisturbed(call, keptSources, c, to)
    BY <1>4, <2>2, <2>3, <2>4 DEF Undisturbed, Covers, Saving
  <2>7. Present(page, to)
    BY <1>2, <1>3, <1>6, <2>3 DEF Present
  <2> QED BY <1>1, <1>3, <2>1, <2>3, <2>5, <2>6, <2>7, CallMoves
<1> QED BY <1>5, <1>6

LEMMA LookUpKeeps ==
  ASSUME WikiInv, NEW c \in WikiCalls, LookUp(c)
  PROVE  WikiInv'
<1> DEFINE it == call[c]
           s == SoughtAs[it.title]
           fetched == BySlug(s)
           stage == IF fetched.id = "" THEN "over" ELSE "fetching"
           to == [it EXCEPT !.stage = stage, !.base = fetched]
<1>1. /\ it.stage = "asked" /\ it.kind \in {"read", "compile"} /\ UNCHANGED <<page, keptSources>>
      /\ c \in CallsUnderway /\ Owned(call, it) /\ CallIs(it) /\ Moves(c, to)
  BY DEF LookUp, CallsUnderway, WikiInv, WikiShapes
<1>2. it.title \in Titles /\ s \in Slugs
  BY <1>1 DEF Owned, Slugs
<1>3. /\ PageIs(fetched)
      /\ fetched.id # "" =>
           Owns(call, fetched.id, s) /\ page[s].kind = "page" /\ page[s].holds.id = fetched.id
  BY <1>2, FoundBySlug
<1> HIDE DEF fetched
<1>4. stage \in {"over", "fetching"} /\ (stage = "fetching" => fetched.id # "")
  OBVIOUS
<1> HIDE DEF stage
<1>5. /\ to.stage = stage /\ to.base = fetched /\ to.title = it.title
      /\ to.kind = it.kind /\ to.alone = it.alone /\ CallIs(to)
  <2> DEFINE q == [it EXCEPT !.stage = stage]
  <2>0. to = [q EXCEPT !.base = fetched]
    OBVIOUS
  <2> HIDE DEF it
  <2>1. q = CallAt(it, stage, it.slug, it.patch, it.base)
    BY <1>1 DEF CallIs, CallAt
  <2> HIDE DEF q
  <2>2. to = CallAt(it, stage, it.slug, it.patch, fetched)
    BY <2>0, <2>1 DEF CallAt
  <2> HIDE DEF to
  <2> QED BY <2>2, CallAtHas
<1> HIDE DEF to
<1>6. stage = "fetching" => Owns(call, fetched.id, s) /\ StoredAs[call[fetched.id].title] = s
  BY <1>3, <1>4 DEF Owns
<1>7. Owned(call, to)
  BY <1>1, <1>2, <1>4, <1>5, <1>6 DEF Owned, Saving
<1>8. Undisturbed(call, keptSources, c, to)
  BY <1>1, <1>4, <1>5, <1>6 DEF Undisturbed, Saving
<1>9. Present(page, to)
  BY <1>2, <1>3, <1>4, <1>5 DEF Present
<1> QED BY <1>1, <1>3, <1>4, <1>5, <1>7, <1>8, <1>9, CallMoves
LEMMA FoundById ==
  ASSUME WikiInv, NEW id, NEW fetched \in ById(id), fetched.id # ""
  PROVE  /\ PageIs(fetched) /\ fetched.id = id
         /\ \E s \in Slugs : page[s].holds = fetched
         /\ \A s \in Slugs : page[s].holds = fetched => Owns(call, id, s) /\ fetched.sources = SourcesAt(s)
<1>1. fetched # NoPage
  BY NoPageIs
<1>2. PICK s \in Slugs : page[s].kind = "page" /\ page[s].holds.id = id /\ fetched = page[s].holds
  BY <1>1 DEF ById
<1>3. PageIs(page[s].holds)
  BY DEF WikiInv, WikiShapes
<1>4. \A u \in Slugs : page[u].holds = fetched => page[u].kind = "page"
  BY <1>1 DEF WikiInv, PagesOwned
<1>5. \A u \in Slugs : page[u].holds = fetched => Owns(call, id, u) /\ fetched.sources = SourcesAt(u)
  BY <1>2, <1>4 DEF WikiInv, PagesOwned, SourcesAt
<1> QED BY <1>2, <1>3, <1>5

LEMMA FetchKeeps ==
  ASSUME WikiInv, NEW c \in WikiCalls, Fetch(c)
  PROVE  WikiInv'
<1> DEFINE it == call[c]
<1>1. /\ it.stage = "fetching" /\ UNCHANGED <<page, keptSources>> /\ c \in CallsUnderway
      /\ Owned(call, it) /\ CallIs(it) /\ PageIs(it.base)
      /\ c \in AloneCalls => Undisturbed(call, keptSources, c, it) /\ Present(page, it)
  BY DEF Fetch, CallsUnderway, WikiInv, WikiShapes
<1>2. PICK fetched \in ById(it.base.id) :
       Moves(c, IF fetched.id = "" THEN [it EXCEPT !.stage = "over"]
                ELSE IF it.kind = "read"
                  THEN [it EXCEPT !.stage = "updating", !.patch = [NoPatch EXCEPT !.reads = fetched.reads + 1]]
                ELSE [it EXCEPT !.stage = IF fetched.sources = {} THEN "over" ELSE "updating",
                                !.patch = [NoPatch EXCEPT !.compiled = TRUE]])
  BY DEF Fetch
<1>3. CASE fetched.id = ""
  BY <1>1, <1>2, <1>3, OverKeeps
<1>4. ASSUME NEW stage \in {"over", "updating"}, NEW patch, Moves(c, [it EXCEPT !.stage = stage, !.patch = patch])
      PROVE  WikiInv'
  <2> DEFINE to == [it EXCEPT !.stage = stage, !.patch = patch]
  <2>1. Moves(c, to)
    BY <1>4
  <2>2. /\ to.stage = stage /\ to.base = it.base /\ to.patch = patch /\ to.title = it.title
        /\ to.kind = it.kind /\ to.alone = it.alone /\ CallIs(to)
    <3> DEFINE q == [it EXCEPT !.stage = stage]
    <3>0. to = [q EXCEPT !.patch = patch]
      OBVIOUS
    <3> HIDE DEF it
    <3>1. q = CallAt(it, stage, it.slug, it.patch, it.base)
      BY <1>1 DEF CallIs, CallAt
    <3> HIDE DEF q
    <3>2. to = CallAt(it, stage, it.slug, patch, it.base)
      BY <3>0, <3>1 DEF CallAt
    <3> HIDE DEF to
    <3> QED BY <3>2, CallAtHas
  <2> HIDE DEF to
  <2>3. Owned(call, to)
    BY <1>1, <2>2 DEF Owned, Saving
  <2>4. c \in AloneCalls => Undisturbed(call, keptSources, c, to) /\ Present(page, to)
    BY <1>1, <2>2 DEF Undisturbed, Saving, Owned, Present
  <2> QED BY <1>1, <2>1, <2>2, <2>3, <2>4, CallMoves
<1>5. CASE fetched.id # ""
  <2>1. CASE it.kind = "read"
    <3> DEFINE patch == [NoPatch EXCEPT !.reads = fetched.reads + 1]
    <3>1. Moves(c, [it EXCEPT !.stage = "updating", !.patch = patch])
      BY <1>2, <1>5, <2>1
    <3> HIDE DEF patch
    <3> QED BY <1>4, <3>1
  <2>2. CASE it.kind # "read"
    <3> DEFINE stage == IF fetched.sources = {} THEN "over" ELSE "updating"
               patch == [NoPatch EXCEPT !.compiled = TRUE]
    <3>1. Moves(c, [it EXCEPT !.stage = stage, !.patch = patch]) /\ stage \in {"over", "updating"}
      BY <1>2, <1>5, <2>2
    <3> HIDE DEF patch, stage
    <3> QED BY <1>4, <3>1
  <2> QED BY <2>1, <2>2
<1> QED BY <1>3, <1>5

\* A call that no other overlaps finds its page where every file can be read.
LEMMA AloneFinds ==
  ASSUME WikiInv, NEW c \in AloneCalls, call[c].stage = "updating", AllReadable,
         NEW fetched \in ById(call[c].base.id)
  PROVE  fetched.id # ""
<1> DEFINE id == call[c].base.id
<1>1. c \in WikiCalls /\ Owns(call, id, StoredAs[call[id].title])
  BY DEF AloneCalls, CallsUnderway, WikiInv, Owned
<1>2. id # ""
  BY <1>1, WikiAssumption DEF Owns
<1>3. PICK s \in Slugs : page[s].kind = "page" /\ page[s].holds.id = id
  BY DEF WikiInv, Present
<1> DEFINE holding == {u \in Slugs : page[u].kind = "page" /\ page[u].holds.id = id}
<1>4. holding # {} /\ ~ \E u \in Slugs : page[u].kind = "torn"
  BY <1>3 DEF AllReadable
<1>5. ById(id) = {page[u].holds : u \in holding}
  BY <1>4 DEF ById
<1>6. fetched.id = id
  BY <1>5
<1> QED BY <1>2, <1>6

LEMMA UpdatePageKeeps ==
  ASSUME WikiInv, NEW c \in WikiCalls, UpdatePage(c)
  PROVE  WikiInv'
<1> DEFINE it == call[c]
<1>0. /\ it.stage = "updating" /\ page' = page /\ c \in CallsUnderway
      /\ Owned(call, it) /\ CallIs(it) /\ PageIs(it.base)
      /\ c \in AloneCalls => Undisturbed(call, keptSources, c, it)
  BY DEF UpdatePage, CallsUnderway, WikiInv, WikiShapes
<1>2. PICK fetched \in ById(it.base.id) :
       IF fetched.id = ""
       THEN /\ Moves(c, [it EXCEPT !.stage = "over"])
            /\ keptSources' = IF it.alone /\ AllReadable THEN Finished(c) ELSE keptSources
       ELSE /\ Moves(c, [it EXCEPT !.stage = "saving", !.base = Patched(c, fetched),
                                   !.slug = CHOOSE s \in Slugs : page[s].holds = fetched])
            /\ UNCHANGED keptSources
  BY DEF UpdatePage
<1>1. /\ it.stage = "updating" /\ UNCHANGED <<page, keptSources>> /\ c \in CallsUnderway
      /\ Owned(call, it) /\ CallIs(it) /\ PageIs(it.base)
      /\ c \in AloneCalls => Undisturbed(call, keptSources, c, it)
  <2>1. fetched.id = "" => ~(it.alone /\ AllReadable)
    BY <1>0, <1>2, AloneFinds DEF AloneCalls
  <2> QED BY <1>0, <1>2, <2>1
<1>3. CASE fetched.id = ""
  BY <1>1, <1>2, <1>3, OverKeeps
<1>4. CASE fetched.id # ""
  <2> DEFINE base == Patched(c, fetched)
             s == CHOOSE u \in Slugs : page[u].holds = fetched
             to == [it EXCEPT !.stage = "saving", !.base = base, !.slug = s]
  <2>1. Moves(c, to)
    BY <1>2, <1>4
  <2>2. PageIs(fetched) /\ fetched.id = it.base.id /\ s \in Slugs /\ Owns(call, it.base.id, s) /\ fetched.sources = SourcesAt(s)
    <3> DEFINE id == it.base.id
    <3>0. fetched \in ById(id)
      BY <1>2
    <3> HIDE DEF id
    <3>1. /\ PageIs(fetched) /\ fetched.id = id /\ \E u \in Slugs : page[u].holds = fetched
          /\ \A u \in Slugs : page[u].holds = fetched => Owns(call, id, u) /\ fetched.sources = SourcesAt(u)
      BY <1>4, <3>0, FoundById
    <3>2. s \in Slugs /\ page[s].holds = fetched
      BY <3>1
    <3> HIDE DEF s
    <3> QED BY <3>1, <3>2 DEF id
  <2> HIDE DEF s
  <2>3. /\ PageIs(base) /\ base.id = fetched.id
        /\ base.sources = IF it.kind = "write" THEN it.patch.sources ELSE fetched.sources
    <3> DEFINE sources == it.patch.sources
               reads == it.patch.reads
               yes == TRUE
    <3>1. fetched = [id |-> fetched.id, sources |-> fetched.sources, compiled |-> fetched.compiled, reads |-> fetched.reads]
      BY <2>2 DEF PageIs
    <3>2. it.kind \in {"write", "read", "compile"}
      BY <1>1 DEF Owned
    <3>3. /\ it.kind = "write" => base = [fetched EXCEPT !.sources = sources]
          /\ it.kind = "read" => base = [fetched EXCEPT !.reads = reads]
          /\ it.kind = "compile" => base = [fetched EXCEPT !.compiled = yes]
      BY DEF Patched
    <3> HIDE DEF base, sources, reads, yes
    <3>4. CASE it.kind = "write"
      <4>1. base = [id |-> fetched.id, sources |-> sources, compiled |-> fetched.compiled, reads |-> fetched.reads]
        BY <3>1, <3>3, <3>4
      <4> QED BY <3>4, <4>1 DEF PageIs, sources
    <3>5. CASE it.kind = "read"
      <4>1. base = [id |-> fetched.id, sources |-> fetched.sources, compiled |-> fetched.compiled, reads |-> reads]
        BY <3>1, <3>3, <3>5
      <4> QED BY <3>5, <4>1 DEF PageIs
    <3>6. CASE it.kind = "compile"
      <4>1. base = [id |-> fetched.id, sources |-> fetched.sources, compiled |-> yes, reads |-> fetched.reads]
        BY <3>1, <3>3, <3>6
      <4> QED BY <3>6, <4>1 DEF PageIs
    <3> QED BY <3>2, <3>4, <3>5, <3>6
  <2> HIDE DEF base
  <2>4. /\ to.stage = "saving" /\ to.slug = s /\ to.base = base /\ to.title = it.title
        /\ to.kind = it.kind /\ to.alone = it.alone /\ CallIs(to)
    <3> DEFINE q == [it EXCEPT !.stage = "saving"]
               p == [q EXCEPT !.base = base]
    <3>0. to = [p EXCEPT !.slug = s]
      OBVIOUS
    <3> HIDE DEF it
    <3>1. q = CallAt(it, "saving", it.slug, it.patch, it.base)
      BY <1>1 DEF CallIs, CallAt
    <3> HIDE DEF q
    <3>2. p = CallAt(it, "saving", it.slug, it.patch, base)
      BY <3>1 DEF CallAt
    <3> HIDE DEF p
    <3>3. to = CallAt(it, "saving", s, it.patch, base)
      BY <3>0, <3>2 DEF CallAt
    <3> HIDE DEF to
    <3> QED BY <3>3, CallAtHas
  <2> HIDE DEF to
  <2>5. Owned(call, to)
    BY <1>1, <2>2, <2>3, <2>4 DEF Owned, Saving
  <2>6. ASSUME c \in AloneCalls PROVE Undisturbed(call, keptSources, c, to)
    <3>1. s = SoughtAs[it.title]
      BY <1>1, <2>2, <2>6 DEF Undisturbed, Owns
    <3>2. Covers(keptSources, SourcesAt(s), s)
      BY <1>1, <2>2, <2>6, QuietPages
    <3>3. Covers(keptSources, base.sources, s) /\ (it.kind = "write" => c \in base.sources)
      BY <1>1, <2>2, <2>3, <2>6, <3>1, <3>2 DEF Undisturbed
    <3>4. it.title \in Titles
      BY <1>1 DEF Owned
    <3>5. FoundAgain(it.title) => s = StoredAs[it.title]
      BY <3>1, <3>4 DEF FoundAgain
    <3> QED BY <2>4, <3>3, <3>5 DEF Undisturbed
  <2>7. Present(page, to)
    BY <2>4 DEF Present
  <2> QED BY <1>1, <2>1, <2>3, <2>4, <2>5, <2>6, <2>7, CallMoves
<1> QED BY <1>3, <1>4
LEMMA TruncatePageKeeps ==
  ASSUME WikiInv, NEW c \in WikiCalls, TruncatePage(c)
  PROVE  WikiInv'
<1> DEFINE it == call[c]
           to == [it EXCEPT !.stage = "writing"]
           emptied == [kind |-> "torn", holds |-> NoPage]
<1>1. /\ it.stage = "saving" /\ keptSources' = keptSources /\ page' = [page EXCEPT ![it.slug] = emptied]
      /\ c \in CallsUnderway /\ Owned(call, it) /\ CallIs(it) /\ PageIs(it.base) /\ Moves(c, to)
      /\ c \in AloneCalls => Undisturbed(call, keptSources, c, it)
  BY DEF TruncatePage, CallsUnderway, WikiInv, WikiShapes
<1>2. /\ to.stage = "writing" /\ to.slug = it.slug /\ to.base = it.base /\ to.title = it.title
      /\ to.kind = it.kind /\ to.alone = it.alone /\ CallIs(to)
  <2>1. to = CallAt(it, "writing", it.slug, it.patch, it.base)
    <3> HIDE DEF it
    <3> QED BY <1>1 DEF CallIs, CallAt
  <2> HIDE DEF to
  <2> QED BY <2>1, CallAtHas
<1> HIDE DEF to
<1>3. /\ SameCalls
      /\ call' = [d \in WikiCalls |-> call'[d]] /\ call'[c] = to
      /\ \A d \in WikiCalls : d # c => call'[d] = call[d]
      /\ \A d \in AloneCalls' : d = c /\ c \in AloneCalls /\ CallsUnderway' = {c}
      /\ \A d \in WikiCalls : d # c => Owned(call', call'[d])
  BY <1>1, <1>2, OneCallMoves
<1>4. it.slug \in Slugs
  BY <1>1 DEF Owned, Saving
<1>5. /\ page' = [s \in Slugs |-> page'[s]] /\ page'[it.slug] = emptied
      /\ \A s \in Slugs : s # it.slug => page'[s] = page[s]
  BY <1>1, <1>4 DEF WikiInv, WikiShapes
<1>6. emptied.kind = "torn" /\ emptied.holds = NoPage
  OBVIOUS
<1> HIDE DEF emptied
<1>7. WikiShapes'
  <2>1. ASSUME NEW s \in Slugs PROVE PageIs(page'[s].holds)
    BY <1>5, <1>6, NoPageIs DEF WikiInv, WikiShapes
  <2>2. ASSUME NEW d \in WikiCalls PROVE CallIs(call'[d]) /\ PageIs(call'[d].base)
    BY <1>1, <1>2, <1>3 DEF WikiInv, WikiShapes
  <2>3. keptSources' = [t \in Titles |-> keptSources'[t]]
    BY <1>1 DEF WikiInv, WikiShapes
  <2> QED BY <1>3, <1>5, <2>1, <2>2, <2>3 DEF WikiShapes
<1>8. PagesOwned'
  <2> SUFFICES ASSUME NEW s \in Slugs
               PROVE  IF page'[s].kind = "page" THEN Owns(call', page'[s].holds.id, s) ELSE page'[s].holds = NoPage
    BY DEF PagesOwned
  <2>1. CASE s = it.slug
    BY <1>5, <1>6, <2>1
  <2>2. CASE s # it.slug
    BY <1>3, <1>5, <2>2, OwnsStays DEF WikiInv, PagesOwned
  <2> QED BY <2>1, <2>2
<1>9. Owned(call, to)
  BY <1>1, <1>2 DEF Owned, Saving
<1>10. \A d \in WikiCalls : Owned(call', call'[d])
  BY <1>3, <1>9, OwnedStays
<1>11. ASSUME NEW d \in AloneCalls'
       PROVE  CallsUnderway' = {d} /\ Undisturbed(call', keptSources', d, call'[d]) /\ Present(page', call'[d])
  <2>1. d = c /\ Undisturbed(call, keptSources, c, it) /\ CallsUnderway' = {c}
    BY <1>1, <1>3
  <2>2. Undisturbed(call', keptSources', c, to) /\ Present(page', to)
    BY <1>1, <1>2, <2>1 DEF Undisturbed, Saving, Present
  <2> QED BY <1>3, <2>1, <2>2
<1>12. ASSUME NEW s \in Slugs, ~BeingWritten(s)' PROVE Covers(keptSources', SourcesAt(s)', s)
  <2>1. s # it.slug
    BY <1>2, <1>3, <1>12 DEF BeingWritten
  <2>2. ~BeingWritten(s)
    BY <1>1, <1>3, <1>12 DEF BeingWritten
  <2>3. SourcesAt(s)' = SourcesAt(s)
    BY <1>5, <2>1 DEF SourcesAt
  <2> QED BY <1>1, <2>2, <2>3 DEF WikiInv
<1> QED BY <1>7, <1>8, <1>10, <1>11, <1>12 DEF WikiInv

LEMMA SaveKeeps ==
  ASSUME WikiInv, NEW c \in WikiCalls, Save(c)
  PROVE  WikiInv'
<1> DEFINE it == call[c]
           to == [it EXCEPT !.stage = "over"]
           saved == [kind |-> "page", holds |-> it.base]
           own == IF it.kind = "write" THEN {c} ELSE {}
<1>1. /\ it.stage = "writing" /\ page' = [page EXCEPT ![it.slug] = saved]
      /\ c \in CallsUnderway /\ Owned(call, it) /\ CallIs(it) /\ PageIs(it.base) /\ Moves(c, to)
      /\ c \in AloneCalls => CallsUnderway = {c} /\ Undisturbed(call, keptSources, c, it)
      /\ keptSources = [t \in Titles |-> keptSources[t]]
  BY DEF Save, CallsUnderway, WikiInv, WikiShapes
<1>2. /\ to.stage = "over" /\ to.slug = it.slug /\ to.base = it.base /\ to.title = it.title
      /\ to.kind = it.kind /\ to.alone = it.alone /\ CallIs(to)
  <2>1. to = CallAt(it, "over", it.slug, it.patch, it.base)
    <3> HIDE DEF it
    <3> QED BY <1>1 DEF CallIs, CallAt
  <2> HIDE DEF to
  <2> QED BY <2>1, CallAtHas
<1> HIDE DEF to
<1>3. /\ SameCalls
      /\ call' = [d \in WikiCalls |-> call'[d]] /\ call'[c] = to
      /\ \A d \in WikiCalls : d # c => call'[d] = call[d]
      /\ \A d \in AloneCalls' : d = c /\ c \in AloneCalls /\ CallsUnderway' = {c}
      /\ \A d \in WikiCalls : d # c => Owned(call', call'[d])
  BY <1>1, <1>2, OneCallMoves
<1>4. it.slug \in Slugs /\ Owns(call, it.base.id, it.slug) /\ it.title \in Titles
  BY <1>1 DEF Owned, Saving
<1>5. /\ page' = [s \in Slugs |-> page'[s]] /\ page'[it.slug] = saved
      /\ \A s \in Slugs : s # it.slug => page'[s] = page[s]
  BY <1>1, <1>4 DEF WikiInv, WikiShapes
<1>6. saved.kind = "page" /\ saved.holds = it.base
  OBVIOUS
<1> HIDE DEF saved
<1>7. \/ /\ c \in AloneCalls /\ keptSources' = [keptSources EXCEPT ![it.title] = @ \cup own]
      \/ keptSources' = [t \in Titles |-> {}]
  <2>1. it.alone => c \in AloneCalls
    BY <1>1 DEF AloneCalls
  <2>2. keptSources' = IF it.alone THEN [keptSources EXCEPT ![it.title] = @ \cup own] ELSE [t \in Titles |-> {}]
    BY DEF Save, Finished
  <2> HIDE DEF own
  <2> QED BY <2>1, <2>2
<1> HIDE DEF own
<1>8. WikiShapes'
  <2>1. ASSUME NEW s \in Slugs PROVE PageIs(page'[s].holds)
    BY <1>1, <1>5, <1>6 DEF WikiInv, WikiShapes
  <2>2. ASSUME NEW d \in WikiCalls PROVE CallIs(call'[d]) /\ PageIs(call'[d].base)
    BY <1>1, <1>2, <1>3 DEF WikiInv, WikiShapes
  <2>3. keptSources' = [t \in Titles |-> keptSources'[t]]
    BY <1>1, <1>7
  <2> QED BY <1>3, <1>5, <2>1, <2>2, <2>3 DEF WikiShapes
<1>9. PagesOwned'
  <2> SUFFICES ASSUME NEW s \in Slugs
               PROVE  IF page'[s].kind = "page" THEN Owns(call', page'[s].holds.id, s) ELSE page'[s].holds = NoPage
    BY DEF PagesOwned
  <2>1. CASE s = it.slug
    BY <1>3, <1>4, <1>5, <1>6, <2>1, OwnsStays
  <2>2. CASE s # it.slug
    BY <1>3, <1>5, <2>2, OwnsStays DEF WikiInv, PagesOwned
  <2> QED BY <2>1, <2>2
<1>10. Owned(call, to)
  BY <1>1, <1>2 DEF Owned, Saving
<1>11. \A d \in WikiCalls : Owned(call', call'[d])
  BY <1>3, <1>10, OwnedStays
<1>12. AloneCalls' = {}
  BY <1>2, <1>3 DEF CallsUnderway
<1>13. ASSUME NEW s \in Slugs, ~BeingWritten(s)' PROVE Covers(keptSources', SourcesAt(s)', s)
  <2>1. CASE c \in AloneCalls /\ keptSources' = [keptSources EXCEPT ![it.title] = @ \cup own]
    <3>0. /\ FoundAgain(it.title) => it.slug = StoredAs[it.title]
          /\ Covers(keptSources, it.base.sources, it.slug) /\ own \subseteq it.base.sources
      BY <1>1, <2>1 DEF Undisturbed, Saving, own
    <3> SUFFICES ASSUME NEW t \in Titles, FoundAgain(t), StoredAs[t] = s
                 PROVE  keptSources'[t] \subseteq SourcesAt(s)'
      BY DEF Covers
    <3>1. keptSources'[t] = IF t = it.title THEN keptSources[t] \cup own ELSE keptSources[t]
      BY <1>1, <2>1
    <3>2. CASE s = it.slug
      <4>1. SourcesAt(s)' = it.base.sources
        BY <1>5, <1>6, <3>2 DEF SourcesAt
      <4>2. keptSources[t] \subseteq it.base.sources
        BY <3>0, <3>2 DEF Covers
      <4> QED BY <3>0, <3>1, <4>1, <4>2
    <3>3. CASE s # it.slug
      <4>1. t # it.title
        BY <3>0, <3>3
      <4>2. ~BeingWritten(s)
        BY <1>1, <2>1, <3>3 DEF BeingWritten, CallsUnderway
      <4>3. SourcesAt(s)' = SourcesAt(s)
        BY <1>5, <3>3 DEF SourcesAt
      <4>4. keptSources[t] \subseteq SourcesAt(s)
        BY <4>2 DEF WikiInv, Covers
      <4> QED BY <3>1, <4>1, <4>3, <4>4
    <3> QED BY <3>2, <3>3
  <2>2. CASE keptSources' = [t \in Titles |-> {}]
    BY <2>2 DEF Covers
  <2> QED BY <1>7, <2>1, <2>2
<1> QED BY <1>8, <1>9, <1>11, <1>12, <1>13 DEF WikiInv
LEMMA ToolsStopKeeps == WikiInv /\ ToolsStop => WikiInv'
<1> SUFFICES ASSUME WikiInv, ToolsStop PROVE WikiInv'
  OBVIOUS
<1>1. /\ call' = [d \in WikiCalls |-> IF d \in CallsUnderway THEN [call[d] EXCEPT !.stage = "lost"] ELSE call[d]]
      /\ keptSources' = IF \E c \in WikiCalls : call[c].stage = "writing" THEN [t \in Titles |-> {}] ELSE keptSources
      /\ page' = page
  BY DEF ToolsStop
<1>2. ASSUME NEW d \in WikiCalls
      PROVE  /\ call'[d].stage = IF d \in CallsUnderway THEN "lost" ELSE call[d].stage
             /\ call'[d].kind = call[d].kind /\ call'[d].title = call[d].title /\ call'[d].base = call[d].base
             /\ call'[d].slug = call[d].slug /\ CallIs(call'[d])
  <2> DEFINE it == call[d]
             next == call'[d]
  <2>1. next = IF d \in CallsUnderway THEN [it EXCEPT !.stage = "lost"] ELSE it
    BY <1>1
  <2>2. CallIs(it)
    BY DEF WikiInv, WikiShapes
  <2> HIDE DEF it, next
  <2>3. CASE d \in CallsUnderway
    <3>1. next = CallAt(it, "lost", it.slug, it.patch, it.base)
      BY <2>1, <2>2, <2>3 DEF CallIs, CallAt
    <3>2. /\ next.stage = "lost" /\ next.kind = it.kind /\ next.title = it.title /\ next.base = it.base
          /\ next.slug = it.slug /\ CallIs(next)
      BY <3>1, CallAtHas
    <3> QED BY <2>3, <3>2 DEF it, next
  <2>4. CASE d \notin CallsUnderway
    <3>1. next = it
      BY <2>1, <2>4
    <3> QED BY <2>2, <2>4, <3>1 DEF it, next
  <2> QED BY <2>3, <2>4
<1>3. call' = [d \in WikiCalls |-> call'[d]]
  BY <1>1
<1>4. SameCalls
  BY <1>2 DEF SameCalls
<1>5. CallsUnderway' = {}
  BY <1>2 DEF CallsUnderway
<1>6. WikiShapes'
  <2>1. keptSources' = [t \in Titles |-> keptSources'[t]]
    BY <1>1 DEF WikiInv, WikiShapes
  <2> QED BY <1>1, <1>2, <1>3, <2>1 DEF WikiInv, WikiShapes
<1>7. PagesOwned'
  BY <1>1, <1>4, OwnsStays DEF WikiInv, PagesOwned
<1>8. ASSUME NEW d \in WikiCalls PROVE Owned(call', call'[d])
  <2>1. call'[d].stage \in {"new", "over", "lost"}
    BY <1>2 DEF CallsUnderway
  <2>2. call[d].stage # "new" => call[d].title \in Titles /\ call[d].kind \in {"write", "read", "compile"}
    BY DEF WikiInv, Owned
  <2>3. call'[d].stage # "new" => call[d].stage # "new"
    BY <1>2 DEF CallsUnderway
  <2> QED BY <1>2, <2>1, <2>2, <2>3 DEF Owned, Saving
<1>9. ASSUME NEW s \in Slugs PROVE Covers(keptSources', SourcesAt(s)', s)
  <2>1. CASE \E c \in WikiCalls : call[c].stage = "writing"
    BY <1>1, <2>1 DEF Covers
  <2>2. CASE ~ \E c \in WikiCalls : call[c].stage = "writing"
    <3>1. keptSources' = keptSources /\ ~BeingWritten(s) /\ SourcesAt(s)' = SourcesAt(s)
      BY <1>1, <2>2 DEF BeingWritten, SourcesAt
    <3> QED BY <3>1 DEF WikiInv
  <2> QED BY <2>1, <2>2
<1> QED BY <1>5, <1>6, <1>7, <1>8, <1>9 DEF WikiInv, AloneCalls

LEMMA BeginCallKeeps ==
  ASSUME WikiInv, NEW c \in WikiCalls, NEW kind \in {"write", "read", "compile"}, NEW t \in Titles,
         BeginCall(c, kind, t)
  PROVE  WikiInv'
<1> DEFINE nobody == CallsUnderway = {}
           asked == [call[c] EXCEPT !.stage = "asked", !.kind = kind, !.title = t, !.alone = nobody]
<1>1. /\ call[c].stage = "new" /\ page' = page /\ keptSources' = keptSources
      /\ call' = [d \in WikiCalls |-> IF d = c THEN asked
                                     ELSE IF d \in CallsUnderway THEN [call[d] EXCEPT !.alone = FALSE] ELSE call[d]]
  BY DEF BeginCall
<1>2. CallIs(call[c]) /\ PageIs(call[c].base)
  BY DEF WikiInv, WikiShapes
<1>3. /\ asked.stage = "asked" /\ asked.kind = kind /\ asked.title = t /\ asked.base = call[c].base
      /\ asked.alone = nobody /\ CallIs(asked)
  <2> DEFINE it == call[c]
             q == [it EXCEPT !.stage = "asked"]
             p == [q EXCEPT !.kind = kind]
             o == [p EXCEPT !.title = t]
  <2>0. asked = [o EXCEPT !.alone = nobody] /\ CallIs(it)
    BY <1>2
  <2> HIDE DEF it, nobody
  <2>1. q = CallAt(it, "asked", it.slug, it.patch, it.base)
    BY <2>0 DEF CallIs, CallAt
  <2> HIDE DEF q
  <2>2. p = [stage |-> "asked", kind |-> kind, title |-> it.title, slug |-> it.slug, alone |-> it.alone,
             patch |-> it.patch, base |-> it.base]
    BY <2>1 DEF CallAt
  <2> HIDE DEF p
  <2>3. o = [stage |-> "asked", kind |-> kind, title |-> t, slug |-> it.slug, alone |-> it.alone,
             patch |-> it.patch, base |-> it.base]
    BY <2>2
  <2> HIDE DEF o, asked
  <2>4. asked = [stage |-> "asked", kind |-> kind, title |-> t, slug |-> it.slug, alone |-> nobody,
                 patch |-> it.patch, base |-> it.base]
    BY <2>0, <2>3
  <2> QED BY <2>4 DEF CallIs, it
<1> HIDE DEF asked
<1>4. /\ call' = [d \in WikiCalls |-> call'[d]] /\ call'[c] = asked
      /\ \A d \in WikiCalls \ CallsUnderway : d # c => call'[d] = call[d]
  BY <1>1
<1>5. ASSUME NEW d \in CallsUnderway, d # c
      PROVE  /\ call'[d].stage = call[d].stage /\ call'[d].kind = call[d].kind /\ call'[d].title = call[d].title
             /\ call'[d].base = call[d].base /\ call'[d].slug = call[d].slug /\ ~call'[d].alone /\ CallIs(call'[d])
  <2> DEFINE it == call[d]
             next == call'[d]
             no == FALSE
  <2>1. next = [it EXCEPT !.alone = no] /\ CallIs(it)
    BY <1>1, <1>5 DEF WikiInv, WikiShapes, CallsUnderway
  <2> HIDE DEF it, next, no
  <2>2. next = [stage |-> it.stage, kind |-> it.kind, title |-> it.title, slug |-> it.slug, alone |-> no,
               patch |-> it.patch, base |-> it.base]
    BY <2>1 DEF CallIs
  <2>3. /\ next.stage = it.stage /\ next.kind = it.kind /\ next.title = it.title /\ next.base = it.base
        /\ next.slug = it.slug /\ next.alone = no /\ CallIs(next)
    BY <2>2 DEF CallIs
  <2> QED BY <2>3 DEF it, next, no
<1>6. ASSUME NEW d \in WikiCalls, d # c
      PROVE  /\ call'[d].stage = call[d].stage /\ call'[d].kind = call[d].kind /\ call'[d].title = call[d].title
             /\ call'[d].base = call[d].base /\ call'[d].slug = call[d].slug /\ CallIs(call'[d])
  BY <1>4, <1>5, <1>6 DEF WikiInv, WikiShapes
<1>7. SameCalls
  BY <1>1, <1>6 DEF SameCalls
<1>8. WikiShapes'
  BY <1>1, <1>2, <1>3, <1>4, <1>6 DEF WikiInv, WikiShapes
<1>9. PagesOwned'
  BY <1>1, <1>7, OwnsStays DEF WikiInv, PagesOwned
<1>10. ASSUME NEW d \in WikiCalls PROVE Owned(call', call'[d])
  <2>1. CASE d = c
    BY <1>3, <1>4, <2>1 DEF Owned, Saving
  <2>2. CASE d # c
    <3>1. Owned(call', call[d])
      BY <1>7, OwnedStays DEF WikiInv
    <3> QED BY <1>6, <2>2, <3>1 DEF Owned
  <2> QED BY <2>1, <2>2
<1>11. CallsUnderway' = CallsUnderway \cup {c}
  <2>1. \A d \in WikiCalls : d # c => (d \in CallsUnderway' <=> d \in CallsUnderway)
    BY <1>6 DEF CallsUnderway
  <2>2. c \in CallsUnderway' /\ CallsUnderway \subseteq WikiCalls /\ CallsUnderway' \subseteq WikiCalls
    BY <1>3, <1>4 DEF CallsUnderway
  <2> QED BY <2>1, <2>2
<1>12. ASSUME NEW d \in AloneCalls'
       PROVE  CallsUnderway' = {d} /\ Undisturbed(call', keptSources', d, call'[d]) /\ Present(page', call'[d])
  <2>1. d \in CallsUnderway' /\ call'[d].alone
    BY DEF AloneCalls
  <2>2. d = c
    BY <1>5, <1>11, <2>1
  <2>3. CallsUnderway = {}
    BY <1>3, <1>4, <2>1, <2>2
  <2> QED BY <1>3, <1>4, <1>11, <2>2, <2>3 DEF Undisturbed, Saving, Present
<1>13. ASSUME NEW s \in Slugs, ~BeingWritten(s)' PROVE Covers(keptSources', SourcesAt(s)', s)
  <2>1. ~BeingWritten(s)
    BY <1>1, <1>6, <1>13 DEF BeingWritten
  <2>2. SourcesAt(s)' = SourcesAt(s)
    BY <1>1 DEF SourcesAt
  <2> QED BY <1>1, <2>1, <2>2 DEF WikiInv
<1> QED BY <1>8, <1>9, <1>10, <1>12, <1>13 DEF WikiInv

LEMMA WikiKeeps == WikiInv /\ WikiNext => WikiInv'
<1> SUFFICES ASSUME WikiInv, WikiNext PROVE WikiInv'
  OBVIOUS
<1>1. ASSUME NEW c \in WikiCalls, CompileFails(c) PROVE WikiInv'
  <2>1. c \in CallsUnderway /\ call[c].stage # "writing"
    BY <1>1 DEF CompileFails, CallsUnderway
  <2> QED BY <1>1, <2>1, OverKeeps DEF CompileFails
<1> QED BY <1>1, BeginCallKeeps, LookUpToWriteKeeps, LookUpKeeps, FetchKeeps, UpdatePageKeeps, TruncatePageKeeps,
           SaveKeeps, ToolsStopKeeps DEF WikiNext

LEMMA WikiStays == WikiInv /\ UNCHANGED wikiVars => WikiInv'
BY DEF wikiVars, WikiInv, WikiShapes, PagesOwned, AloneCalls, CallsUnderway, BeingWritten, SourcesAt

LEMMA WikiBegins == WikiInit => WikiInv
<1> SUFFICES ASSUME WikiInit PROVE WikiInv
  OBVIOUS
<1> DEFINE empty == [kind |-> "none", holds |-> NoPage]
           yes == TRUE
           new == [stage |-> "new", kind |-> "", title |-> "", slug |-> "", alone |-> yes,
                   patch |-> NoPatch, base |-> NoPage]
<1>1. /\ page = [s \in Slugs |-> empty] /\ call = [c \in WikiCalls |-> new]
      /\ keptSources = [t \in Titles |-> {}]
  BY DEF WikiInit
<1> HIDE DEF yes
<1>2. empty.kind = "none" /\ empty.holds = NoPage /\ new.stage = "new" /\ new.base = NoPage /\ CallIs(new)
  BY DEF CallIs
<1> HIDE DEF empty, new
<1>3. WikiShapes
  BY <1>1, <1>2, NoPageIs DEF WikiShapes
<1>4. PagesOwned
  BY <1>1, <1>2 DEF PagesOwned
<1>5. \A c \in WikiCalls : Owned(call, call[c])
  BY <1>1, <1>2 DEF Owned, Saving
<1>6. CallsUnderway = {}
  BY <1>1, <1>2 DEF CallsUnderway
<1>7. \A s \in Slugs : Covers(keptSources, SourcesAt(s), s)
  BY <1>1 DEF Covers
<1> QED BY <1>3, <1>4, <1>5, <1>6, <1>7 DEF WikiInv, AloneCalls

LEMMA WikiHolds == WikiInv => WikiSound
<1> SUFFICES ASSUME WikiInv PROVE WikiSound
  OBVIOUS
<1>1. ASSUME NEW t \in Titles, FoundAgain(t), Lost(t) PROVE FALSE
  <2> DEFINE s == StoredAs[t]
  <2>1. s \in Slugs /\ ~BeingWritten(s)
    BY <1>1 DEF Slugs, BeingWritten, Lost
  <2>2. keptSources[t] \subseteq SourcesAt(s)
    BY <1>1, <2>1 DEF WikiInv, Covers
  <2> QED BY <1>1, <2>2 DEF Lost, SourcesAt
<1>2. ASSUME NEW s \in Slugs, NEW u \in Slugs, page[s].kind = "page", page[u].kind = "page",
             page[s].holds.id = page[u].holds.id
      PROVE  s = u
  BY <1>2 DEF WikiInv, PagesOwned, Owns
<1> QED BY <1>1, <1>2 DEF WikiSound

-----------------------------------------------------------------------------
(* Templates. *)

AtFile == scaffold \in {"looking", "opening", "writing"}
Dealt == scaffold \in {"commands", "running", "done"}
PutThere(i) == dest[template.files[i]] = "template"

\* Files are dealt with one after the other; one that is opened was not there when the
\* scaffold began, or may be overwritten; and what was written stays, unless the file that is
\* open has the same path.
ScaffoldInv ==
  /\ template.files \in Seq(FilePaths)
  /\ options = [overwrite |-> options.overwrite, dryRun |-> options.dryRun, postInstall |-> options.postInstall]
  /\ dest = [p \in FilePaths |-> dest[p]]
  /\ \A p \in FilePaths : dest[p] \in {"none", "theirs", "torn", "template"}
  /\ \A p \in FilePaths : dest[p] = "none" => before[p] = "none"
  /\ at \in Nat \ {0}
  /\ scaffold \in {"new", "looking", "opening", "writing", "commands", "running", "done", "thrown"}
  /\ scaffold = "new" => at = 1 /\ written = {} /\ skipped = {} /\ ran = {} /\ failed = {}
  /\ AtFile => at <= Len(template.files) /\ written \cup skipped = 1 .. at - 1
  /\ Dealt => written \cup skipped = DOMAIN template.files
  /\ written \cap skipped = {} /\ written \subseteq DOMAIN template.files
  /\ scaffold \in {"opening", "writing"} => ~options.dryRun /\ (options.overwrite \/ before[File] = "none")
  /\ ~options.dryRun => \A i \in written : PutThere(i) \/ (scaffold = "writing" /\ template.files[i] = File)
                                           \/ scaffold = "thrown"
  /\ ~options.overwrite => \A p \in FilePaths : before[p] = "theirs" => dest[p] = "theirs"
  /\ options.dryRun => /\ \A p \in FilePaths : dest[p] \in {"none", "theirs"}
                       /\ ran \cup failed = {} /\ scaffold # "running"

LEMMA NextFileIs ==
  ASSUME ScaffoldInv, AtFile, NextFile, NEW wrote, NEW left,
         written' = written \cup wrote, skipped' = skipped \cup left, wrote \cup left = {at}, wrote \cap left = {}
  PROVE  /\ at' \in Nat \ {0} /\ scaffold' \in {"looking", "commands"}
         /\ scaffold' = "looking" => at' <= Len(template.files) /\ written' \cup skipped' = 1 .. at' - 1
         /\ scaffold' = "commands" => written' \cup skipped' = DOMAIN template.files
         /\ written' \cap skipped' = {} /\ written' \subseteq DOMAIN template.files
<1>1. /\ at \in Nat \ {0} /\ at <= Len(template.files) /\ written \cup skipped = 1 .. at - 1
      /\ Len(template.files) \in Nat /\ DOMAIN template.files = 1 .. Len(template.files)
  BY DEF ScaffoldInv
<1>2. written' \cup skipped' = (1 .. at - 1) \cup {at}
  BY <1>1
<1>3. (1 .. at - 1) \cup {at} = 1 .. at
  BY <1>1
<1>4. written' \cap skipped' = {}
  <2>1. at \notin written \cup skipped
    BY <1>1
  <2> QED BY <2>1 DEF ScaffoldInv
<1>5. CASE at < Len(template.files)
  BY <1>1, <1>2, <1>3, <1>4, <1>5 DEF NextFile, Reaches
<1>6. CASE ~(at < Len(template.files))
  BY <1>1, <1>2, <1>3, <1>4, <1>6 DEF NextFile, Reaches
<1> QED BY <1>5, <1>6

LEMMA FileIs == ScaffoldInv /\ AtFile => File \in FilePaths /\ at \in DOMAIN template.files
BY DEF ScaffoldInv, File

LEMMA LookKeeps ==
  ASSUME ScaffoldInv, LookAtFile
  PROVE  ScaffoldInv'
<1>1. scaffold = "looking" /\ AtFile /\ UNCHANGED <<dest, ran, failed, options, template, before>>
  BY DEF LookAtFile, AtFile, Reaches, NextFile
<1>2. File \in FilePaths /\ at \in DOMAIN template.files
  BY <1>1, FileIs
<1>3. CASE Reaches("thrown") /\ UNCHANGED <<at, written, skipped>>
  BY <1>1, <1>3 DEF Reaches, ScaffoldInv, AtFile, Dealt, PutThere
<1>4. ASSUME NEW wrote, NEW left, NextFile, written' = written \cup wrote, skipped' = skipped \cup left,
             wrote \cup left = {at}, wrote \cap left = {}, wrote = {} \/ options.dryRun
      PROVE  ScaffoldInv'
  <2>1. /\ at' \in Nat \ {0} /\ scaffold' \in {"looking", "commands"}
        /\ scaffold' = "looking" => at' <= Len(template.files) /\ written' \cup skipped' = 1 .. at' - 1
        /\ scaffold' = "commands" => written' \cup skipped' = DOMAIN template.files
        /\ written' \cap skipped' = {} /\ written' \subseteq DOMAIN template.files
    BY <1>1, <1>4, NextFileIs
  <2>2. ~options.dryRun => written' = written
    BY <1>4
  <2> QED BY <1>1, <2>1, <2>2 DEF ScaffoldInv, AtFile, Dealt, PutThere
<1>5. CASE Reaches("opening") /\ ~Keeps /\ ~options.dryRun /\ UNCHANGED <<at, written, skipped>>
  <2>1. options.overwrite \/ before[File] = "none"
    BY <1>2, <1>5 DEF Keeps, ScaffoldInv
  <2>2. File' = File
    BY <1>1, <1>5 DEF File
  <2> QED BY <1>1, <1>5, <2>1, <2>2 DEF Reaches, ScaffoldInv, AtFile, Dealt, PutThere
<1>6. CASE Keeps /\ skipped' = skipped \cup {at} /\ NextFile /\ UNCHANGED written
  <2>1. written' = written \cup {} /\ {} \cup {at} = {at} /\ {} \cap {at} = {}
    BY <1>6
  <2> QED BY <1>4, <1>6, <2>1
<1>7. CASE options.dryRun /\ written' = written \cup {at} /\ NextFile /\ UNCHANGED skipped
  <2>1. skipped' = skipped \cup {} /\ {at} \cup {} = {at} /\ {at} \cap {} = {}
    BY <1>7
  <2> QED BY <1>4, <1>7, <2>1
<1> QED BY <1>3, <1>5, <1>6, <1>7 DEF LookAtFile

LEMMA OpenKeeps ==
  ASSUME ScaffoldInv, OpenForWriting
  PROVE  ScaffoldInv'
<1>1. scaffold = "opening" /\ AtFile /\ scaffold' = "writing"
      /\ UNCHANGED <<at, written, skipped, ran, failed, options, template, before>>
  BY DEF OpenForWriting, AtFile, Reaches
<1>2. File \in FilePaths /\ File' = File
  BY <1>1, FileIs DEF File
<1>3. dest' = [p \in FilePaths |-> IF p = File THEN "torn" ELSE dest[p]]
  BY <1>2 DEF OpenForWriting, ScaffoldInv
<1>4. \A i \in written : PutThere(i)' \/ template.files[i] = File
  <2>1. \A i \in written : template.files[i] \in FilePaths /\ PutThere(i)
    BY <1>1 DEF ScaffoldInv
  <2> QED BY <1>1, <1>3, <2>1 DEF PutThere
<1> QED BY <1>1, <1>2, <1>3, <1>4 DEF ScaffoldInv, AtFile, Dealt

LEMMA WriteKeeps ==
  ASSUME ScaffoldInv, WriteContent
  PROVE  ScaffoldInv'
<1>1. scaffold = "writing" /\ AtFile /\ ~options.dryRun
      /\ UNCHANGED <<skipped, ran, failed, options, template, before>>
      /\ written' = written \cup {at} /\ NextFile
  BY DEF WriteContent, AtFile, Reaches, NextFile, ScaffoldInv
<1>2. File \in FilePaths /\ at \in DOMAIN template.files
  BY <1>1, FileIs
<1>3. dest' = [p \in FilePaths |-> IF p = File THEN "template" ELSE dest[p]]
  BY <1>2 DEF WriteContent, ScaffoldInv
<1>4. /\ at' \in Nat \ {0} /\ scaffold' \in {"looking", "commands"}
      /\ scaffold' = "looking" => at' <= Len(template.files) /\ written' \cup skipped' = 1 .. at' - 1
      /\ scaffold' = "commands" => written' \cup skipped' = DOMAIN template.files
      /\ written' \cap skipped' = {} /\ written' \subseteq DOMAIN template.files
  <2>1. skipped' = skipped \cup {} /\ {at} \cup {} = {at} /\ {at} \cap {} = {}
    BY <1>1
  <2> QED BY <1>1, <2>1, NextFileIs
<1>5. \A i \in written' : PutThere(i)'
  <2>1. \A i \in written : template.files[i] \in FilePaths /\ (PutThere(i) \/ template.files[i] = File)
    BY <1>1 DEF ScaffoldInv
  <2>2. \A i \in written' : template.files[i] \in FilePaths /\ (PutThere(i) \/ template.files[i] = File)
    BY <1>1, <1>2, <2>1 DEF File
  <2> QED BY <1>1, <1>3, <2>2 DEF PutThere
<1>6. ~options.overwrite => \A p \in FilePaths : before[p] = "theirs" => dest'[p] = "theirs"
  BY <1>1, <1>3 DEF ScaffoldInv
<1>7. \A p \in FilePaths : /\ dest'[p] \in {"none", "theirs", "torn", "template"}
                           /\ dest'[p] = "none" => before[p] = "none"
  BY <1>3 DEF ScaffoldInv
<1> QED BY <1>1, <1>3, <1>4, <1>5, <1>6, <1>7 DEF ScaffoldInv, AtFile, Dealt

LEMMA CommandsKeep ==
  ASSUME ScaffoldInv, SkipCommand \/ StartCommand \/ CommandEnds \/ ReportScaffold
  PROVE  ScaffoldInv'
<1>1. UNCHANGED <<dest, written, skipped, options, template, before>> /\ Dealt
  BY DEF SkipCommand, StartCommand, CommandEnds, ReportScaffold, Reaches, NextCommand, Dealt
<1>2. at' \in Nat \ {0}
  BY DEF SkipCommand, StartCommand, CommandEnds, ReportScaffold, NextCommand, ScaffoldInv
<1>3. \A i : PutThere(i)' <=> PutThere(i)
  BY <1>1 DEF PutThere
<1>4. scaffold # "writing" /\ scaffold # "thrown" /\ scaffold' \in {"commands", "running", "done"}
  BY DEF SkipCommand, StartCommand, CommandEnds, ReportScaffold, Reaches, NextCommand
<1>5. CASE SkipCommand \/ ReportScaffold
  <2>1. UNCHANGED <<ran, failed>> /\ scaffold' # "running"
    BY <1>5 DEF SkipCommand, ReportScaffold, NextCommand, Reaches
  <2> QED BY <1>1, <1>2, <1>3, <1>4, <2>1 DEF ScaffoldInv, AtFile, Dealt
<1>6. CASE StartCommand
  <2>1. UNCHANGED <<ran, failed, at>> /\ ~options.dryRun
    BY <1>1, <1>6 DEF StartCommand, MayRun
  <2> QED BY <1>1, <1>2, <1>3, <1>4, <2>1 DEF ScaffoldInv, AtFile, Dealt
<1>7. CASE CommandEnds
  <2>1. scaffold' # "running" /\ ~options.dryRun
    BY <1>7 DEF CommandEnds, ScaffoldInv, NextCommand, Reaches
  <2> QED BY <1>1, <1>2, <1>3, <1>4, <2>1 DEF ScaffoldInv, AtFile, Dealt
<1> QED BY <1>5, <1>6, <1>7

LEMMA ScaffoldKeeps == ScaffoldInv /\ ScaffoldNext => ScaffoldInv'
<1> SUFFICES ASSUME ScaffoldInv, ScaffoldNext PROVE ScaffoldInv'
  OBVIOUS
<1>1. CASE BeginScaffold
  <2>1. UNCHANGED <<at, dest, written, skipped, ran, failed, options, template, before>> /\ scaffold = "new"
        /\ scaffold' \in {"thrown", "commands", "looking"}
        /\ (scaffold' = "commands" => template.files = <<>>) /\ (scaffold' = "looking" => template.files # <<>>)
    BY <1>1 DEF BeginScaffold, Reaches
  <2>2. scaffold' = "commands" => DOMAIN template.files = {}
    BY <2>1
  <2>3. scaffold' = "looking" => 1 <= Len(template.files)
    BY <2>1 DEF ScaffoldInv
  <2>4. 1 .. 1 - 1 = {}
    OBVIOUS
  <2> QED BY <2>1, <2>2, <2>3, <2>4 DEF ScaffoldInv, AtFile, Dealt, PutThere
<1>2. CASE FileFails
  BY <1>2 DEF FileFails, Reaches, ScaffoldInv, AtFile, Dealt, PutThere
<1>3. ASSUME NEW p \in FilePaths, SomebodyWrites(p) PROVE ScaffoldInv'
  <2>1. dest[p] = "none" /\ dest' = [q \in FilePaths |-> IF q = p THEN "theirs" ELSE dest[q]]
        /\ UNCHANGED <<options, template, scaffold, at, before, written, skipped, ran, failed>>
    BY <1>3 DEF SomebodyWrites, ScaffoldInv
  <2>2. \A i \in written : PutThere(i) => PutThere(i)'
    <3>1. \A i \in written : template.files[i] \in FilePaths
      BY DEF ScaffoldInv
    <3> QED BY <2>1, <3>1 DEF PutThere
  <2>3. File' = File
    BY <2>1 DEF File
  <2>4. \A q \in FilePaths : /\ dest'[q] \in {"none", "theirs", "torn", "template"}
                             /\ dest'[q] = "none" => before[q] = "none"
                             /\ dest[q] \in {"none", "theirs"} => dest'[q] \in {"none", "theirs"}
                             /\ dest[q] = "theirs" => dest'[q] = "theirs"
    BY <2>1 DEF ScaffoldInv
  <2> QED BY <2>1, <2>2, <2>3, <2>4 DEF ScaffoldInv, AtFile, Dealt
<1> QED BY <1>1, <1>2, <1>3, LookKeeps, OpenKeeps, WriteKeeps, CommandsKeep DEF ScaffoldNext

LEMMA ScaffoldStays == ScaffoldInv /\ UNCHANGED scaffoldVars => ScaffoldInv'
BY DEF ScaffoldInv, scaffoldVars, AtFile, Dealt, PutThere, File

LEMMA ScaffoldBegins == LaunchInit => ScaffoldInv
BY LaunchAssumption DEF LaunchInit, ScaffoldInv, AtFile, Dealt, PutThere

LEMMA ScaffoldHolds == ScaffoldInv => ScaffoldSound
BY DEF ScaffoldInv, ScaffoldSound, PutThere, Dealt

-----------------------------------------------------------------------------
(* Plugins. *)

Ended == {"idle", "done", "failed"}
Touching == {"code", "written", "manifest"}
InstallStages == Ended \cup Touching \cup {"indexed", "verified"}

\* What an installation may rest on, by its stage: a verified bundle, and the files it has
\* written when nobody else could write.
InstallIs(c) ==
  /\ client[c] = [stage |-> client[c].stage, entry |-> client[c].entry, code |-> client[c].code,
                  alone |-> client[c].alone, age |-> client[c].age]
  /\ client[c].stage \in InstallStages
  /\ client[c].stage \notin Ended => client[c].entry \in Entries
  /\ client[c].stage \in Touching \cup {"verified"} => Verified(client[c].entry, client[c].code)
  /\ client[c].stage \in {"written", "manifest"} /\ client[c].alone => code = client[c].code
  /\ client[c].stage \notin Ended /\ client[c].alone => Writers = {c}

CacheIs(c) ==
  /\ cache[c] = [entry |-> cache[c].entry, at |-> cache[c].at]
  /\ cache[c].at \in Nat /\ cache[c].at <= now
  /\ cache[c].at > 0 => cache[c].entry \in Entries

PluginsInv ==
  /\ now \in Nat \ {0}
  /\ client = [c \in Installers |-> client[c]] /\ cache = [c \in Installers |-> cache[c]]
  /\ \A c \in Installers : InstallIs(c) /\ CacheIs(c)
  /\ \A c \in Installers : client[c].age < Ttl
  /\ manifest \in {NoPlugin, Torn} \/ \E e \in Entries :
       /\ manifest = [version |-> e.version, integrity |-> manifest.integrity, signature |-> e.signature]
  /\ intact /\ (\A c \in Installers : client[c].stage \notin Touching) => Loadable
  /\ \A l \in loaded : \E e \in Entries :
       e.signature.key \in trusted /\ e.signature.version = l[1] /\ e.signature.code = l[2]

InstallAt(c, s, bundle) ==
  [stage |-> s, entry |-> client[c].entry, code |-> bundle, alone |-> client[c].alone, age |-> client[c].age]

LEMMA InstallFields ==
  ASSUME NEW c \in Installers, InstallIs(c), NEW s, NEW bundle
  PROVE  /\ [client[c] EXCEPT !.stage = s] = InstallAt(c, s, client[c].code)
         /\ [client[c] EXCEPT !.code = bundle, !.stage = s] = InstallAt(c, s, bundle)
<1> DEFINE r == client[c]
<1>1. r = [stage |-> r.stage, entry |-> r.entry, code |-> r.code, alone |-> r.alone, age |-> r.age]
  BY DEF InstallIs
<1> HIDE DEF r
<1>2. [r EXCEPT !.stage = s] = [stage |-> s, entry |-> r.entry, code |-> r.code, alone |-> r.alone, age |-> r.age]
  BY <1>1
<1>3. [r EXCEPT !.code = bundle, !.stage = s] =
        [stage |-> s, entry |-> r.entry, code |-> bundle, alone |-> r.alone, age |-> r.age]
  <2> DEFINE q == [r EXCEPT !.code = bundle]
  <2>1. q = [stage |-> r.stage, entry |-> r.entry, code |-> bundle, alone |-> r.alone, age |-> r.age]
    BY <1>1
  <2>2. [r EXCEPT !.code = bundle, !.stage = s] = [q EXCEPT !.stage = s]
    OBVIOUS
  <2> HIDE DEF q
  <2> QED BY <2>1, <2>2
<1> QED BY <1>2, <1>3 DEF InstallAt, r

\* A step of one installer that has begun changes what concerns it alone: were another one
\* alone, this one would not be writing.
LEMMA InstallerKeeps ==
  ASSUME PluginsInv, NEW c \in Installers, c \in Writers, NEW s \in InstallStages, NEW bundle,
         Goes(c, InstallAt(c, s, bundle)),
         s \in Touching \cup {"verified"} => Verified(client[c].entry, bundle),
         s \in {"written", "manifest"} /\ client[c].alone => code' = bundle,
         UNCHANGED <<trusted, now, cache>>
  PROVE  /\ client' = [d \in Installers |-> client'[d]] /\ cache' = [d \in Installers |-> cache'[d]]
         /\ \A d \in Installers : InstallIs(d)' /\ CacheIs(d)' /\ client'[d].age < Ttl
         /\ \A d \in Installers \ {c} : client'[d] = client[d]
         /\ client'[c].stage = s
<1>1. client[c] = [stage |-> client[c].stage, entry |-> client[c].entry, code |-> client[c].code,
                   alone |-> client[c].alone, age |-> client[c].age]
  BY DEF PluginsInv, InstallIs
<1>2. /\ client' = [d \in Installers |-> client'[d]]
      /\ client'[c] = [stage |-> s, entry |-> client[c].entry, code |-> bundle,
                       alone |-> client[c].alone, age |-> client[c].age]
      /\ \A d \in Installers \ {c} : client'[d] = client[d]
  <2>1. client' = [d \in Installers |-> IF d = c THEN InstallAt(c, s, bundle) ELSE client[d]]
    BY DEF PluginsInv, Goes
  <2> QED BY <2>1 DEF InstallAt
<1>3. client[c].stage \notin Ended
  BY DEF Writers, Ended
<1>4. Writers' \subseteq Writers
  BY <1>2, <1>3 DEF Writers, Ended
<1>5. \A e, b : Verified(e, b)' <=> Verified(e, b)
  BY DEF Verified, Signed
<1>6. ASSUME NEW d \in Installers PROVE InstallIs(d)' /\ CacheIs(d)' /\ client'[d].age < Ttl
  <2>1. CacheIs(d)'
    BY DEF PluginsInv, CacheIs
  <2>2. CASE d = c
    <3>1. client[c].entry \in Entries /\ client[c].age < Ttl
      BY <1>3 DEF PluginsInv, InstallIs
    <3>2. s \notin Ended /\ client[c].alone => Writers' = {c}
      <4>1. client[c].alone => Writers = {c}
        BY <1>3 DEF PluginsInv, InstallIs
      <4>2. s \notin Ended => c \in Writers'
        BY <1>2 DEF Writers, Ended
      <4> QED BY <1>4, <4>1, <4>2
    <3> QED BY <1>2, <1>5, <2>1, <2>2, <3>1, <3>2 DEF InstallIs
  <2>3. CASE d # c
    <3>1. client'[d] = client[d] /\ InstallIs(d) /\ client[d].age < Ttl
      BY <1>2, <2>3 DEF PluginsInv
    <3>2. ~(client[d].stage \notin Ended /\ client[d].alone)
      BY <2>3, <3>1 DEF InstallIs
    <3>3. client[d].stage \in Touching => client[d].stage \notin Ended
      BY DEF Touching, Ended
    <3>4. ~(client[d].stage \in {"written", "manifest"} /\ client[d].alone)
      BY <3>2, <3>3 DEF Touching
    <3> QED BY <1>5, <2>1, <3>1, <3>2, <3>4 DEF InstallIs
  <2> QED BY <2>2, <2>3
<1>7. cache' = [d \in Installers |-> cache'[d]]
  BY DEF PluginsInv
<1> QED BY <1>2, <1>6, <1>7

LEMMA LoadableStays == UNCHANGED <<trusted, code, manifest>> => (Loadable' <=> Loadable)
BY DEF Loadable, Verified, Signed

LEMMA DownloadKeeps ==
  ASSUME PluginsInv, NEW c \in Installers, Download(c)
  PROVE  PluginsInv'
<1>1. client[c].stage = "indexed" /\ c \in Writers /\ InstallIs(c)
  BY DEF Download, Writers, PluginsInv
<1>2. UNCHANGED <<trusted, now, cache, code, manifest, loaded, intact>>
  BY DEF Download
<1>3. PICK bundle \in Codes :
        Goes(c, [client[c] EXCEPT !.code = bundle,
                                  !.stage = IF Verified(client[c].entry, bundle) THEN "verified" ELSE "failed"])
  BY DEF Download
<1> DEFINE s == IF Verified(client[c].entry, bundle) THEN "verified" ELSE "failed"
<1>4. s \in InstallStages /\ s \notin Touching /\ (s = "verified" => Verified(client[c].entry, bundle))
  BY DEF InstallStages, Touching, Ended
<1>5. Goes(c, InstallAt(c, s, bundle))
  BY <1>1, <1>3, InstallFields
<1> HIDE DEF s
<1>6. /\ client' = [d \in Installers |-> client'[d]] /\ cache' = [d \in Installers |-> cache'[d]]
      /\ \A d \in Installers : InstallIs(d)' /\ CacheIs(d)' /\ client'[d].age < Ttl
      /\ \A d \in Installers \ {c} : client'[d] = client[d]
      /\ client'[c].stage = s
  BY <1>1, <1>2, <1>4, <1>5, InstallerKeeps DEF Touching
<1>7. (\A d \in Installers : client'[d].stage \notin Touching) => \A d \in Installers : client[d].stage \notin Touching
  BY <1>1, <1>6 DEF Touching
<1> QED BY <1>2, <1>6, <1>7, LoadableStays DEF PluginsInv

LEMMA WriteCodeKeeps ==
  ASSUME PluginsInv, NEW c \in Installers, WriteCode(c)
  PROVE  PluginsInv'
<1>1. client[c].stage \in {"verified", "code"} /\ InstallIs(c)
  BY DEF WriteCode, PluginsInv
<1>2. c \in Writers /\ Verified(client[c].entry, client[c].code)
  BY <1>1 DEF Writers, InstallIs, Touching
<1>3. UNCHANGED <<trusted, now, cache, manifest, loaded, intact>>
  BY DEF WriteCode
<1>4. PICK s \in {"code", "written"} :
        /\ Goes(c, InstallAt(c, s, client[c].code))
        /\ s = "written" /\ client[c].alone => code' = client[c].code
  BY <1>1, InstallFields DEF WriteCode
<1>5. s \in InstallStages /\ s \in Touching
  BY DEF InstallStages, Touching
<1>6. /\ client' = [d \in Installers |-> client'[d]] /\ cache' = [d \in Installers |-> cache'[d]]
      /\ \A d \in Installers : InstallIs(d)' /\ CacheIs(d)' /\ client'[d].age < Ttl
      /\ client'[c].stage = s
  BY <1>2, <1>3, <1>4, <1>5, InstallerKeeps
<1> QED BY <1>3, <1>5, <1>6 DEF PluginsInv

LEMMA WriteManifestKeeps ==
  ASSUME PluginsInv, NEW c \in Installers, WriteManifest(c)
  PROVE  PluginsInv'
<1>1. client[c].stage \in {"written", "manifest"} /\ InstallIs(c)
  BY DEF WriteManifest, PluginsInv
<1>2. /\ c \in Writers /\ Verified(client[c].entry, client[c].code) /\ client[c].entry \in Entries
      /\ client[c].alone => code = client[c].code
  BY <1>1 DEF Writers, InstallIs, Touching, Ended
<1>3. UNCHANGED <<trusted, now, cache, code, loaded>>
  BY DEF WriteManifest
<1>4. PICK s \in {"manifest", "done"} :
        /\ Goes(c, InstallAt(c, s, client[c].code))
        /\ s = "manifest" => manifest' = Torn
        /\ s = "done" => /\ intact' = client[c].alone
                         /\ \/ manifest' = [client[c].entry EXCEPT !.integrity = client[c].code]
                            \/ manifest' = manifest /\ ~client[c].alone
  BY <1>1, InstallFields DEF WriteManifest
<1>5. /\ client' = [d \in Installers |-> client'[d]] /\ cache' = [d \in Installers |-> cache'[d]]
      /\ \A d \in Installers : InstallIs(d)' /\ CacheIs(d)' /\ client'[d].age < Ttl
      /\ client'[c].stage = s
  <2>1. s \in InstallStages /\ (s \in Touching \cup {"verified"} => Verified(client[c].entry, client[c].code))
    BY <1>2 DEF InstallStages, Ended, Touching
  <2> QED BY <1>2, <1>3, <1>4, <2>1, InstallerKeeps
<1>6. CASE s = "manifest"
  BY <1>3, <1>4, <1>5, <1>6 DEF PluginsInv, Touching
<1>7. CASE s = "done"
  <2> DEFINE e == client[c].entry
             m == [e EXCEPT !.integrity = client[c].code]
  <2>1. m = [version |-> e.version, integrity |-> client[c].code, signature |-> e.signature]
    BY <1>2, PluginAssumption
  <2>2. e \in Entries
    BY <1>2
  <2>3. Verified(e, client[c].code)
    BY <1>2
  <2>4. manifest' = m \/ (manifest' = manifest /\ ~client[c].alone)
    BY <1>4, <1>7
  <2> HIDE DEF e, m
  <2>5. m.version = e.version /\ m.integrity = client[c].code /\ m.signature = e.signature
    BY <2>1
  <2>6. m \notin {NoPlugin, Torn} /\ Verified(m, client[c].code)
    <3>1. e.signature # NoSignature
      BY <2>3 DEF Verified
    <3>2. NoPlugin.signature = NoSignature /\ Torn.signature = NoSignature
      BY DEF NoPlugin, Torn
    <3>3. m \notin {NoPlugin, Torn}
      BY <2>5, <3>1, <3>2
    <3>4. Verified(m, client[c].code)
      BY <2>3, <2>5 DEF Verified, Signed
    <3> QED BY <3>3, <3>4
  <2>7. intact' => Loadable'
    <3>1. ASSUME intact' PROVE manifest' = m /\ code' = client[c].code
      BY <1>2, <1>3, <1>4, <1>7, <2>4, <3>1
    <3>2. ASSUME intact' PROVE Verified(manifest, code)'
      <4>1. manifest' = m /\ code' = client[c].code /\ trusted' = trusted
        BY <1>3, <3>1, <3>2
      <4> QED BY <2>6, <4>1 DEF Verified, Signed
    <3> QED BY <2>6, <3>1, <3>2 DEF Loadable, NoPlugin, Torn
  <2>8. \/ manifest' \in {NoPlugin, Torn}
        \/ \E d \in Entries :
             manifest' = [version |-> d.version, integrity |-> manifest'.integrity, signature |-> d.signature]
    <3>1. CASE manifest' = m
      BY <2>1, <2>2, <3>1
    <3>2. CASE manifest' = manifest
      BY <3>2 DEF PluginsInv, NoPlugin, Torn
    <3> QED BY <2>4, <3>1, <3>2
  <2> QED BY <1>3, <1>5, <2>7, <2>8 DEF PluginsInv, NoPlugin, Torn
<1> QED BY <1>4, <1>6, <1>7

LEMMA StopsKeeps ==
  ASSUME PluginsInv, NEW c \in Installers, InstallStops(c)
  PROVE  PluginsInv'
<1>1. c \in Writers /\ InstallIs(c)
  BY DEF InstallStops, PluginsInv
<1>2. /\ Goes(c, InstallAt(c, "failed", client[c].code))
      /\ intact' = (intact /\ client[c].stage \in {"indexed", "verified"})
      /\ UNCHANGED <<trusted, now, cache, code, manifest, loaded>>
  BY <1>1, InstallFields DEF InstallStops
<1>3. "failed" \in InstallStages /\ "failed" \notin Touching /\ {"indexed", "verified"} \cap Touching = {}
  BY DEF InstallStages, Ended, Touching
<1>4. /\ client' = [d \in Installers |-> client'[d]] /\ cache' = [d \in Installers |-> cache'[d]]
      /\ \A d \in Installers : InstallIs(d)' /\ CacheIs(d)' /\ client'[d].age < Ttl
      /\ \A d \in Installers \ {c} : client'[d] = client[d]
  BY <1>1, <1>2, <1>3, InstallerKeeps
<1>5. intact' /\ (\A d \in Installers : client'[d].stage \notin Touching)
        => intact /\ \A d \in Installers : client[d].stage \notin Touching
  BY <1>2, <1>3, <1>4
<1> QED BY <1>2, <1>4, <1>5, LoadableStays DEF PluginsInv

\* Nobody is alone any more, and the rest stays.
LEMMA AloneEnds ==
  ASSUME PluginsInv, client' = [c \in Installers |-> [client[c] EXCEPT !.alone = FALSE]],
         UNCHANGED <<trusted, now, cache>>
  PROVE  /\ client' = [d \in Installers |-> client'[d]] /\ cache' = [d \in Installers |-> cache'[d]]
         /\ \A d \in Installers : InstallIs(d)' /\ CacheIs(d)' /\ client'[d].age < Ttl
<1>1. \A e, b : Verified(e, b)' <=> Verified(e, b)
  BY DEF Verified, Signed
<1>2. ASSUME NEW d \in Installers PROVE InstallIs(d)' /\ CacheIs(d)' /\ client'[d].age < Ttl
  <2>1. InstallIs(d) /\ CacheIs(d) /\ client[d].age < Ttl
    BY DEF PluginsInv
  <2>2. client'[d] = [stage |-> client[d].stage, entry |-> client[d].entry, code |-> client[d].code,
                      alone |-> FALSE, age |-> client[d].age]
    BY <2>1 DEF InstallIs
  <2> QED BY <1>1, <2>1, <2>2 DEF InstallIs, CacheIs
<1> QED BY <1>2 DEF PluginsInv

LEMMA GetEntryKeeps ==
  ASSUME PluginsInv, NEW c \in Installers, GetEntry(c)
  PROVE  PluginsInv'
<1>1. client[c].stage \in {"idle", "failed"} /\ InstallIs(c) /\ CacheIs(c) /\ c \notin Writers
  BY DEF GetEntry, PluginsInv, Writers
<1>2. UNCHANGED <<trusted, now, code, manifest, loaded, intact>>
  BY DEF GetEntry
<1>3. \A e, b : Verified(e, b)' <=> Verified(e, b)
  BY <1>2 DEF Verified, Signed
<1>4. ASSUME NEW entry \in Entries, NEW age, age < Ttl, Begins(c, entry, age)
      PROVE  /\ client' = [d \in Installers |-> client'[d]]
             /\ \A d \in Installers : InstallIs(d)' /\ client'[d].age < Ttl
             /\ \A d \in Installers : client'[d].stage \in Touching => client[d].stage \in Touching
             /\ \A d \in Installers : client[d].stage \in Touching => client'[d].stage \in Touching
  <2>1. /\ client' = [d \in Installers |-> client'[d]]
        /\ client'[c] = [stage |-> "indexed", entry |-> entry, code |-> "none", alone |-> Writers = {}, age |-> age]
        /\ \A d \in Installers \ {c} : client'[d] = [client[d] EXCEPT !.alone = FALSE]
    BY <1>4 DEF Begins
  <2>2. ASSUME NEW d \in Installers \ {c}
        PROVE  /\ client'[d] = [stage |-> client'[d].stage, entry |-> client'[d].entry, code |-> client'[d].code,
                                alone |-> client'[d].alone, age |-> client'[d].age]
               /\ client'[d].stage = client[d].stage /\ client'[d].entry = client[d].entry
               /\ client'[d].code = client[d].code /\ ~client'[d].alone /\ client'[d].age = client[d].age
    <3>1. client'[d] = [stage |-> client[d].stage, entry |-> client[d].entry, code |-> client[d].code,
                        alone |-> FALSE, age |-> client[d].age]
      BY <2>1 DEF PluginsInv, InstallIs
    <3> QED BY <3>1
  <2>3. ASSUME NEW d \in Installers \ {c} PROVE InstallIs(d)' /\ client'[d].age < Ttl
    <3>1. InstallIs(d) /\ client[d].age < Ttl
      BY DEF PluginsInv
    <3> QED BY <1>3, <2>2, <3>1 DEF InstallIs
  <2>4. "indexed" \in InstallStages /\ "indexed" \notin Touching \cup Ended \cup {"verified", "written", "manifest"}
    BY DEF InstallStages, Touching, Ended
  <2>9. /\ client'[c].stage = "indexed" /\ client'[c].entry = entry /\ client'[c].age = age
        /\ client'[c].alone <=> Writers = {}
        /\ client'[c] = [stage |-> client'[c].stage, entry |-> client'[c].entry, code |-> client'[c].code,
                         alone |-> client'[c].alone, age |-> client'[c].age]
    <3> DEFINE nobody == Writers = {}
               r == [stage |-> "indexed", entry |-> entry, code |-> "none", alone |-> nobody, age |-> age]
    <3>1. client'[c] = r
      BY <2>1
    <3> HIDE DEF nobody
    <3>2. /\ r.stage = "indexed" /\ r.entry = entry /\ r.age = age /\ r.alone = nobody
          /\ r = [stage |-> r.stage, entry |-> r.entry, code |-> r.code, alone |-> r.alone, age |-> r.age]
      OBVIOUS
    <3> HIDE DEF r
    <3> QED BY <3>1, <3>2 DEF nobody
  <2>5. Writers = {} => Writers' = {c}
    <3>1. Writers' \subseteq Writers \cup {c} /\ c \in Writers'
      BY <2>1, <2>2 DEF Writers
    <3> QED BY <3>1
  <2>6. InstallIs(c)' /\ client'[c].age < Ttl
    BY <1>4, <2>4, <2>5, <2>9 DEF InstallIs
  <2>7. \A d \in Installers \ {c} : client'[d].stage = client[d].stage
    BY <2>2
  <2>8. client[c].stage \notin Touching /\ client'[c].stage \notin Touching
    BY <1>1, <2>1, <2>4 DEF Touching
  <2> QED BY <2>1, <2>3, <2>6, <2>7, <2>8
<1>5. CASE Fresh(c)
  <2>1. Begins(c, cache[c].entry, now - cache[c].at) /\ UNCHANGED cache
    BY <1>5 DEF GetEntry
  <2>2. cache[c].entry \in Entries /\ now - cache[c].at < Ttl
    BY <1>1, <1>5 DEF Fresh, CacheIs
  <2>3. \A d \in Installers : CacheIs(d)'
    BY <1>2, <2>1 DEF PluginsInv, CacheIs
  <2> QED BY <1>2, <1>4, <2>1, <2>2, <2>3, LoadableStays DEF PluginsInv
<1>6. ASSUME NEW entry \in Entries, Begins(c, entry, 0),
             cache' = [cache EXCEPT ![c] = [entry |-> entry, at |-> now]]
      PROVE  PluginsInv'
  <2>1. 0 < Ttl
    BY PluginAssumption
  <2>2. cache' = [d \in Installers |-> IF d = c THEN [entry |-> entry, at |-> now] ELSE cache[d]]
    BY <1>6 DEF PluginsInv
  <2>3. \A d \in Installers : CacheIs(d)'
    BY <1>2, <2>2 DEF PluginsInv, CacheIs
  <2>4. cache' = [d \in Installers |-> cache'[d]]
    BY <2>2
  <2> QED BY <1>2, <1>4, <1>6, <2>1, <2>3, <2>4, LoadableStays DEF PluginsInv
<1>7. CASE client[c].stage = "idle" /\ Goes(c, [client[c] EXCEPT !.stage = "failed"]) /\ UNCHANGED cache
  <2>1. client' = [d \in Installers |-> IF d = c THEN InstallAt(c, "failed", client[c].code) ELSE client[d]]
    BY <1>1, <1>7, InstallFields DEF Goes, PluginsInv
  <2>2. client'[c] = InstallAt(c, "failed", client[c].code) /\ \A d \in Installers \ {c} : client'[d] = client[d]
    BY <2>1
  <2>3. Writers' = Writers
    BY <1>1, <2>2 DEF Writers, InstallAt
  <2>4. ASSUME NEW d \in Installers PROVE InstallIs(d)' /\ client'[d].age < Ttl /\ CacheIs(d)'
    <3>1. InstallIs(d) /\ client[d].age < Ttl /\ CacheIs(d)
      BY DEF PluginsInv
    <3>2. CacheIs(d)'
      BY <1>2, <1>7, <3>1 DEF CacheIs
    <3>3. CASE d # c
      BY <1>2, <1>3, <2>2, <2>3, <3>1, <3>2, <3>3 DEF InstallIs
    <3>4. CASE d = c
      BY <2>2, <3>1, <3>2, <3>4 DEF InstallIs, InstallAt, InstallStages, Touching, Ended
    <3> QED BY <3>3, <3>4
  <2>5. \A d \in Installers : client[d].stage \in Touching => client'[d].stage \in Touching
    BY <1>1, <2>2 DEF Touching
  <2>6. client' = [d \in Installers |-> client'[d]] /\ cache' = [d \in Installers |-> cache'[d]]
    BY <1>7, <2>1 DEF PluginsInv
  <2> QED BY <1>2, <2>4, <2>5, <2>6, LoadableStays DEF PluginsInv
<1> QED BY <1>5, <1>6, <1>7 DEF GetEntry

LEMMA PluginsKeep == PluginsInv /\ PluginNext => PluginsInv'
<1> SUFFICES ASSUME PluginsInv, PluginNext PROVE PluginsInv'
  OBVIOUS
<1>1. CASE PluginTick
  <2>1. ASSUME NEW c \in Installers PROVE InstallIs(c)' /\ CacheIs(c)'
    <3>1. InstallIs(c) /\ CacheIs(c) /\ now \in Nat /\ now' = now + 1
      BY <1>1 DEF PluginTick, PluginsInv
    <3>2. CacheIs(c)'
      BY <1>1, <3>1 DEF PluginTick, CacheIs
    <3> QED BY <1>1, <3>1, <3>2 DEF PluginTick, InstallIs, Verified, Signed, Writers
  <2> QED BY <1>1, <2>1, LoadableStays DEF PluginTick, PluginsInv
<1>2. CASE Uninstall
  BY <1>2, AloneEnds DEF Uninstall, PluginsInv
<1>3. CASE Tamper
  BY <1>3, AloneEnds DEF Tamper, PluginsInv
<1>4. CASE LoadPlugin
  <2>1. UNCHANGED <<trusted, now, cache, client, code, manifest, intact>>
    BY <1>4 DEF LoadPlugin
  <2>2. \A c \in Installers : InstallIs(c)' /\ CacheIs(c)'
    BY <2>1 DEF PluginsInv, InstallIs, CacheIs, Verified, Signed, Writers
  <2>3. \E e \in Entries : e.signature.key \in trusted /\ e.signature.version = manifest.version /\ e.signature.code = code
    <3>1. manifest \notin {NoPlugin, Torn} /\ Verified(manifest, code)
      BY <1>4 DEF LoadPlugin, Loadable
    <3>2. PICK e \in Entries :
            manifest = [version |-> e.version, integrity |-> manifest.integrity, signature |-> e.signature]
      BY <3>1 DEF PluginsInv
    <3>3. manifest.signature = e.signature
      BY <3>2
    <3> QED BY <3>1, <3>3 DEF Verified, Signed
  <2>4. \A l \in loaded' : \E e \in Entries :
          e.signature.key \in trusted /\ e.signature.version = l[1] /\ e.signature.code = l[2]
    BY <1>4, <2>3 DEF LoadPlugin, PluginsInv
  <2> QED BY <2>1, <2>2, <2>4, LoadableStays DEF PluginsInv
<1> QED BY <1>1, <1>2, <1>3, <1>4, GetEntryKeeps, DownloadKeeps, WriteCodeKeeps, WriteManifestKeeps, StopsKeeps
        DEF PluginNext

LEMMA PluginsStay == PluginsInv /\ UNCHANGED pluginVars => PluginsInv'
<1> SUFFICES ASSUME PluginsInv, UNCHANGED pluginVars PROVE PluginsInv'
  OBVIOUS
<1>1. \A c \in Installers : InstallIs(c)' /\ CacheIs(c)'
  BY DEF PluginsInv, pluginVars, InstallIs, CacheIs, Verified, Signed, Writers
<1> QED BY <1>1, LoadableStays DEF PluginsInv, pluginVars

LEMMA PluginsBegin == PluginInit => PluginsInv
<1> SUFFICES ASSUME PluginInit PROVE PluginsInv
  OBVIOUS
<1>1. \A c \in Installers : InstallIs(c) /\ CacheIs(c) /\ client[c].age < Ttl
  BY PluginAssumption DEF PluginInit, InstallIs, CacheIs, InstallStages, Ended, Touching
<1> QED BY <1>1 DEF PluginInit, PluginsInv

LEMMA PluginsHold == PluginsInv => PluginsSound
<1> SUFFICES ASSUME PluginsInv PROVE PluginsSound
  OBVIOUS
<1>1. Writers = {} => \A c \in Installers : client[c].stage \notin Touching
  BY DEF Writers, Touching
<1> QED BY <1>1 DEF PluginsInv, PluginsSound

-----------------------------------------------------------------------------
(* The desktop. *)

DesktopInv ==
  /\ app \in {"starting", "ready", "quit"}
  /\ created \in Nat /\ early \in BOOLEAN
  /\ windows = [w \in DOMAIN windows |-> windows[w]]
  /\ DOMAIN windows \subseteq 1 .. created /\ unshown \subseteq DOMAIN windows
  /\ app = "starting" /\ ~early => DOMAIN windows = {}
  /\ DesktopSound

LEMMA CreateKeeps ==
  ASSUME DesktopInv, CreateWindow, app # "quit", app' # "quit",
         app' \in {"starting", "ready"}, DOMAIN windows = {} \/ early,
         \/ early' = early /\ app' = "ready"
         \/ early' = (early \/ app = "starting") /\ app' = app
  PROVE  DesktopInv'
<1>1. created' = created + 1 /\ mainWindow' = created + 1 /\ created' \in Nat
  BY DEF CreateWindow, DesktopInv
<1>2. /\ windows' = [w \in DOMAIN windows \cup {created + 1} |-> IF w \in DOMAIN windows THEN windows[w] ELSE FALSE]
      /\ DOMAIN windows' = DOMAIN windows \cup {created + 1}
  BY DEF CreateWindow
<1>3. unshown' \subseteq DOMAIN windows' /\ windows' = [w \in DOMAIN windows' |-> windows'[w]]
  BY <1>2 DEF CreateWindow, DesktopInv
<1>4. DOMAIN windows' \subseteq 1 .. created'
  BY <1>1, <1>2 DEF DesktopInv
<1>5. ~early' => DOMAIN windows' = {mainWindow'} \ {0} /\ app' # "starting"
  <2>1. ~early' => ~early /\ app' # "starting"
    BY DEF DesktopInv
  <2> QED BY <1>1, <1>2, <2>1
<1>7. early' \in BOOLEAN
  BY DEF DesktopInv
<1>6. mainWindow' \in DOMAIN windows' \cup {0}
  BY <1>1, <1>2
<1> QED BY <1>1, <1>2, <1>3, <1>4, <1>5, <1>6, <1>7 DEF DesktopInv, DesktopSound

LEMMA ShownKeeps ==
  ASSUME DesktopInv, NEW b, mainWindow # 0, windows' = [windows EXCEPT ![mainWindow] = b],
         unshown' \subseteq unshown,
         UNCHANGED <<app, dashboard, mainWindow, created, early>>
  PROVE  DesktopInv'
<1>1. DOMAIN windows' = DOMAIN windows /\ windows' = [w \in DOMAIN windows' |-> windows'[w]]
  BY DEF DesktopInv
<1> QED BY <1>1 DEF DesktopInv, DesktopSound

LEMMA CloseKeeps ==
  ASSUME DesktopInv, NEW w, Close(w)
  PROVE  DesktopInv'
<1>1. /\ w \in DOMAIN windows /\ app # "quit"
      /\ windows' = [v \in DOMAIN windows \ {w} |-> windows[v]] /\ DOMAIN windows' = DOMAIN windows \ {w}
      /\ unshown' = unshown \ {w} /\ mainWindow' = 0 /\ created' = created /\ early' = early
  BY DEF Close, Without
<1>2. /\ app' \in {app, "quit"}
      /\ app' = "quit" => dashboard' \notin {"starting", "listening"}
  BY <1>1 DEF Close, QuitNow
<1>3. ~early => DOMAIN windows' = {}
  BY <1>1 DEF DesktopInv, DesktopSound
<1>4. windows' = [v \in DOMAIN windows' |-> windows'[v]]
  BY <1>1
<1> QED BY <1>1, <1>2, <1>3, <1>4 DEF DesktopInv, DesktopSound

LEMMA DesktopKeeps == DesktopInv /\ DesktopNext => DesktopInv'
<1> SUFFICES ASSUME DesktopInv, DesktopNext PROVE DesktopInv'
  OBVIOUS
<1>1. CASE Listening \/ DashboardFails
  BY <1>1 DEF Listening, DashboardFails, DesktopInv, DesktopSound
<1>2. CASE Ready
  <2>1. DOMAIN windows = {} \/ early
    BY <1>2 DEF Ready, DesktopInv
  <2> QED BY <1>2, <2>1, CreateKeeps DEF Ready
<1>3. CASE Activate
  BY <1>3, CreateKeeps DEF Activate, NoWindows, DesktopInv
<1>4. CASE Toggle \/ OpenCoWork
  <2>1. CASE mainWindow = 0
    <3>1. early \/ DOMAIN windows = {}
      BY <2>1 DEF DesktopInv, DesktopSound
    <3> QED BY <1>4, <2>1, <3>1, CreateKeeps DEF Toggle, OpenCoWork
  <2>2. CASE mainWindow # 0
    BY <1>4, <2>2, ShownKeeps DEF Toggle, OpenCoWork
  <2> QED BY <2>1, <2>2
<1>5. CASE Quit
  <2>1. DOMAIN windows' = {} /\ windows' = [w \in DOMAIN windows' |-> windows'[w]]
    BY <1>5 DEF Quit
  <2> QED BY <1>5, <2>1 DEF Quit, QuitNow, DesktopInv, DesktopSound
<1>6. ASSUME NEW w \in 1 .. MaxWindows, ReadyToShow(w) PROVE DesktopInv'
  <2>1. CASE mainWindow = 0
    BY <1>6, <2>1 DEF ReadyToShow, DesktopInv, DesktopSound
  <2>2. CASE mainWindow # 0
    BY <1>6, <2>2, ShownKeeps DEF ReadyToShow
  <2> QED BY <2>1, <2>2
<1>7. ASSUME NEW target \in Targets, OpenOutside(target) PROVE DesktopInv'
  BY <1>7 DEF OpenOutside, DesktopInv, DesktopSound
<1> QED BY <1>1, <1>2, <1>3, <1>4, <1>5, <1>6, <1>7, CloseKeeps DEF DesktopNext

LEMMA DesktopStays == DesktopInv /\ UNCHANGED desktopVars => DesktopInv'
BY DEF DesktopInv, DesktopSound, desktopVars

LEMMA DesktopBegins == DesktopInit => DesktopInv
<1> SUFFICES ASSUME DesktopInit PROVE DesktopInv
  OBVIOUS
<1>1. DOMAIN windows = {} /\ windows = [w \in DOMAIN windows |-> windows[w]]
  BY DEF DesktopInit
<1> QED BY <1>1 DEF DesktopInit, DesktopInv, DesktopSound

-----------------------------------------------------------------------------
(* The spoken conversation. *)

Messages == [role : {"user", "assistant"}, of : SpokenTurns]
Asks(t) == [role |-> "user", of |-> t]
Answers(t) == [role |-> "assistant", of |-> t]

Answered == {"speaking", "playing", "done", "failed"}

\* The history is the last k exchanges of those there were.
Latest(k) ==
  /\ k <= Len(answers) /\ Len(spoken) = 2 * k /\ 2 * k <= MaxHistory
  /\ 2 * k < MaxHistory - 1 => k = Len(answers)
  /\ \A j \in 1 .. k : /\ spoken[2 * j - 1] = Asks(answers[Len(answers) - k + j])
                       /\ spoken[2 * j] = Answers(answers[Len(answers) - k + j])

\* What t was asked over is m exchanges of others, and its own text.
Asked(t, context, m) ==
  /\ Len(context) = 2 * m + 1 /\ context[2 * m + 1] = Asks(t)
  /\ \A j \in 1 .. m : context[2 * j - 1].role = "user" /\ context[2 * j] = Answers(context[2 * j - 1].of)
  /\ \A i \in 1 .. 2 * m : context[i].of # t

VoiceInv ==
  /\ turn = [t \in SpokenTurns |-> turn[t]]
  /\ \A t \in SpokenTurns : turn[t] = [stage |-> turn[t].stage, context |-> turn[t].context]
  /\ spoken \in Seq(Messages) /\ answers \in Seq(SpokenTurns)
  /\ \E k \in Nat : Latest(k)
  /\ \A i \in 1 .. Len(answers) : turn[answers[i]].stage \in Answered
  /\ \A t \in SpokenTurns : /\ turn[t].context \in Seq(Messages)
                            /\ turn[t].context # <<>> => \E m \in Nat : Asked(t, turn[t].context, m)

LEMMA TurnGoes ==
  ASSUME VoiceInv, NEW t \in SpokenTurns, NEW stage, Goto(t, stage)
  PROVE  /\ turn' = [u \in SpokenTurns |-> turn'[u]]
         /\ \A u \in SpokenTurns : /\ turn'[u] = [stage |-> turn'[u].stage, context |-> turn'[u].context]
                                   /\ turn'[u].context = turn[u].context
                                   /\ turn'[u].stage = IF u = t THEN stage ELSE turn[u].stage
<1>1. /\ turn = [u \in SpokenTurns |-> turn[u]] /\ turn' = [turn EXCEPT ![t].stage = stage]
      /\ \A u \in SpokenTurns : turn[u] = [stage |-> turn[u].stage, context |-> turn[u].context]
  BY DEF VoiceInv, Goto
<1>2. turn' = [u \in SpokenTurns |-> turn'[u]] /\ \A u \in SpokenTurns : u # t => turn'[u] = turn[u]
  BY <1>1
<1> DEFINE next == turn'[t]
           was == turn[t]
<1>3. next = [was EXCEPT !.stage = stage] /\ was = [stage |-> was.stage, context |-> was.context]
  BY <1>1
<1> HIDE DEF next, was
<1>4. next.stage = stage /\ next.context = was.context /\ next = [stage |-> next.stage, context |-> next.context]
  BY <1>3
<1>5. ASSUME NEW u \in SpokenTurns
      PROVE  /\ turn'[u] = [stage |-> turn'[u].stage, context |-> turn'[u].context]
             /\ turn'[u].context = turn[u].context
             /\ turn'[u].stage = IF u = t THEN stage ELSE turn[u].stage
  <2>1. CASE u = t
    BY <1>4, <2>1 DEF next, was
  <2>2. CASE u # t
    BY <1>1, <1>2, <2>2
  <2> QED BY <2>1, <2>2
<1> QED BY <1>2, <1>5

LEMMA TurnsMove ==
  ASSUME VoiceInv, NEW t \in SpokenTurns, NEW stage, Goto(t, stage), UNCHANGED <<spoken, answers>>,
         stage \in Answered \/ turn[t].stage \notin Answered
  PROVE  VoiceInv'
<1>1. /\ turn' = [u \in SpokenTurns |-> turn'[u]]
      /\ \A u \in SpokenTurns : /\ turn'[u] = [stage |-> turn'[u].stage, context |-> turn'[u].context]
                                /\ turn'[u].context = turn[u].context
                                /\ turn'[u].stage = IF u = t THEN stage ELSE turn[u].stage
  BY TurnGoes
<1>2. \A i \in 1 .. Len(answers) : answers[i] \in SpokenTurns
  BY ElementOfSeq DEF VoiceInv
<1>3. \A i \in 1 .. Len(answers) : turn'[answers[i]].stage \in Answered
  BY <1>1, <1>2 DEF VoiceInv
<1>4. ASSUME NEW k PROVE Latest(k) => Latest(k)'
  BY DEF Latest
<1> QED BY <1>1, <1>3, <1>4 DEF VoiceInv

LEMMA TextAppended ==
  ASSUME VoiceInv, NEW t \in SpokenTurns, turn[t].stage \notin Answered,
         turn' = [turn EXCEPT ![t] = [stage |-> "asking", context |-> Append(spoken, Asks(t))]],
         UNCHANGED <<spoken, answers>>
  PROVE  VoiceInv'
<1> DEFINE text == Append(spoken, Asks(t))
<1>1. /\ turn' = [u \in SpokenTurns |-> turn'[u]]
      /\ turn'[t] = [stage |-> "asking", context |-> text]
      /\ \A u \in SpokenTurns : u # t => turn'[u] = turn[u]
  BY DEF VoiceInv
<1>2. /\ Asks(t) \in Messages
      /\ text \in Seq(Messages) /\ Len(text) = Len(spoken) + 1 /\ text[Len(spoken) + 1] = Asks(t)
      /\ \A i \in 1 .. Len(spoken) : text[i] = spoken[i]
  <2>1. Asks(t) \in Messages
    BY DEF Asks, Messages
  <2> QED BY <2>1, AppendProperties DEF VoiceInv
<1> HIDE DEF text
<1>3. \A i \in 1 .. Len(answers) : answers[i] \in SpokenTurns /\ answers[i] # t
  BY ElementOfSeq DEF VoiceInv
<1>4. PICK k \in Nat : Latest(k)
  BY DEF VoiceInv
<1>5. Latest(k)'
  BY <1>4 DEF Latest
<1>6. Asked(t, text, k)
  <2>1. Len(text) = 2 * k + 1 /\ text[2 * k + 1] = Asks(t)
    BY <1>2, <1>4 DEF Latest
  <2>2. ASSUME NEW j \in 1 .. k
        PROVE  /\ text[2 * j - 1].role = "user" /\ text[2 * j] = Answers(text[2 * j - 1].of)
               /\ text[2 * j - 1].of # t /\ text[2 * j].of # t
    <3>1. Len(answers) \in Nat /\ k <= Len(answers) /\ Len(spoken) = 2 * k
      BY <1>4, LenProperties DEF Latest, VoiceInv
    <3>2. Len(answers) - k + j \in 1 .. Len(answers) /\ 2 * j - 1 \in 1 .. Len(spoken) /\ 2 * j \in 1 .. Len(spoken)
      BY <3>1
    <3> DEFINE u == answers[Len(answers) - k + j]
    <3>3. u # t
      BY <1>3, <3>2
    <3>4. text[2 * j - 1] = Asks(u) /\ text[2 * j] = Answers(u)
      BY <1>2, <1>4, <3>2 DEF Latest
    <3> HIDE DEF u
    <3> QED BY <3>3, <3>4 DEF Asks, Answers
  <2>3. ASSUME NEW i \in 1 .. 2 * k PROVE text[i].of # t
    <3>1. \E j \in 1 .. k : i = 2 * j - 1 \/ i = 2 * j
      <4>1. (i + 1) \div 2 \in 1 .. k /\ (i = 2 * ((i + 1) \div 2) - 1 \/ i = 2 * ((i + 1) \div 2))
        OBVIOUS
      <4> QED BY <4>1
    <3> QED BY <2>2, <3>1
  <2> QED BY <2>1, <2>2, <2>3 DEF Asked
<1>7. \A i \in 1 .. Len(answers) : turn'[answers[i]].stage \in Answered
  BY <1>1, <1>3 DEF VoiceInv
<1>8. ASSUME NEW u \in SpokenTurns
      PROVE  /\ turn'[u] = [stage |-> turn'[u].stage, context |-> turn'[u].context]
             /\ turn'[u].context \in Seq(Messages)
             /\ turn'[u].context # <<>> => \E m \in Nat : Asked(u, turn'[u].context, m)
  <2>1. CASE u = t
    BY <1>1, <1>2, <1>6, <2>1
  <2>2. CASE u # t
    BY <1>1, <2>2 DEF VoiceInv
  <2> QED BY <2>1, <2>2
<1> QED BY <1>1, <1>5, <1>7, <1>8 DEF VoiceInv

LEMMA AnswerKeeps ==
  ASSUME VoiceInv, NEW t \in SpokenTurns, AnswerSpoken(t)
  PROVE  VoiceInv'
<1> USE VoiceAssumption
<1> DEFINE pair == <<Asks(t), Answers(t)>>
           all == spoken \o pair
<1>1. /\ turn' = [u \in SpokenTurns |-> turn'[u]]
      /\ \A u \in SpokenTurns : /\ turn'[u] = [stage |-> turn'[u].stage, context |-> turn'[u].context]
                                /\ turn'[u].context = turn[u].context
                                /\ turn'[u].stage = IF u = t THEN "speaking" ELSE turn[u].stage
  BY TurnGoes DEF AnswerSpoken
<1>2. /\ answers' \in Seq(SpokenTurns) /\ Len(answers') = Len(answers) + 1 /\ Len(answers) \in Nat
      /\ answers'[Len(answers) + 1] = t /\ \A i \in 1 .. Len(answers) : answers'[i] = answers[i]
  <2>1. answers' = Append(answers, t)
    BY DEF AnswerSpoken
  <2> QED BY <2>1, AppendProperties, LenProperties DEF VoiceInv
<1>3. \A i \in 1 .. Len(answers') : turn'[answers'[i]].stage \in Answered
  <2>1. \A i \in 1 .. Len(answers) : answers[i] \in SpokenTurns
    BY ElementOfSeq DEF VoiceInv
  <2>2. ASSUME NEW i \in 1 .. Len(answers') PROVE answers'[i] = t \/ i \in 1 .. Len(answers)
    BY <1>2
  <2>3. t \in SpokenTurns /\ turn'[t].stage \in Answered
    BY <1>1 DEF Answered
  <2>4. \A i \in 1 .. Len(answers) : turn'[answers[i]].stage \in Answered
    BY <1>1, <2>1 DEF VoiceInv, Answered
  <2> QED BY <1>2, <2>2, <2>3, <2>4
<1>4. /\ pair \in Seq(Messages) /\ Len(pair) = 2 /\ pair[1] = Asks(t) /\ pair[2] = Answers(t)
      /\ Len(spoken) \in Nat
  BY LenProperties DEF Asks, Answers, Messages, VoiceInv
<1> HIDE DEF pair
<1>5. /\ all \in Seq(Messages) /\ Len(all) = Len(spoken) + 2
      /\ all[Len(spoken) + 1] = Asks(t) /\ all[Len(spoken) + 2] = Answers(t)
      /\ \A i \in 1 .. Len(spoken) : all[i] = spoken[i]
  <2>1. spoken \in Seq(Messages)
    BY DEF VoiceInv
  <2>2. /\ all \in Seq(Messages) /\ Len(all) = Len(spoken) + Len(pair)
        /\ \A i \in 1 .. Len(spoken) + Len(pair) :
             all[i] = IF i <= Len(spoken) THEN spoken[i] ELSE pair[i - Len(spoken)]
    BY <1>4, <2>1, ConcatProperties
  <2> HIDE DEF all
  <2>3. all[Len(spoken) + 1] = pair[1] /\ all[Len(spoken) + 2] = pair[2] /\ \A i \in 1 .. Len(spoken) : all[i] = spoken[i]
    BY <1>4, <2>2
  <2> QED BY <1>4, <2>2, <2>3
<1>6. spoken' = Kept(all)
  BY DEF AnswerSpoken, pair, Asks, Answers
<1> HIDE DEF all
<1>7. PICK k \in Nat : Latest(k)
  BY DEF VoiceInv
<1> DEFINE n == Len(answers)
<1>8. /\ n \in Nat /\ k <= n /\ Len(spoken) = 2 * k /\ 2 * k <= MaxHistory
      /\ 2 * k < MaxHistory - 1 => k = n
  BY <1>2, <1>7 DEF Latest
<1>9. ASSUME NEW j \in 1 .. k + 1
      PROVE  all[2 * j - 1] = Asks(answers'[n - k + j]) /\ all[2 * j] = Answers(answers'[n - k + j])
  <2>1. CASE j = k + 1
    BY <1>2, <1>5, <1>8, <2>1
  <2>2. CASE j # k + 1
    <3>1. j \in 1 .. k /\ n - k + j \in 1 .. n /\ 2 * j - 1 \in 1 .. Len(spoken) /\ 2 * j \in 1 .. Len(spoken)
      BY <1>8, <2>2
    <3> QED BY <1>2, <1>5, <1>7, <3>1 DEF Latest
  <2> QED BY <2>1, <2>2
<1>10. spoken' \in Seq(Messages) /\ \E l \in Nat : Latest(l)'
  <2>1. CASE Len(all) > MaxHistory
    <3>1. spoken' = SubSeq(all, 3, Len(all)) /\ Len(all) = 2 * k + 2
      BY <1>5, <1>6, <1>8, <2>1 DEF Kept
    <3>2. \A i \in 3 .. Len(all) : all[i] \in Messages
      BY <1>5, <3>1, ElementOfSeq
    <3>3. /\ spoken' \in Seq(Messages) /\ Len(spoken') = 2 * k
          /\ \A i \in 1 .. 2 * k : spoken'[i] = all[i + 2]
      <4>1. /\ SubSeq(all, 3, 2 * k + 2) \in Seq(Messages)
            /\ Len(SubSeq(all, 3, 2 * k + 2)) = IF 3 <= 2 * k + 2 THEN 2 * k + 2 - 3 + 1 ELSE 0
            /\ \A i \in 1 .. 2 * k + 2 - 3 + 1 : SubSeq(all, 3, 2 * k + 2)[i] = all[3 + i - 1]
        BY <3>1, <3>2, SubSeqProperties
      <4>2. 2 * k + 2 - 3 + 1 = 2 * k /\ (3 <= 2 * k + 2 \/ 2 * k = 0)
        OBVIOUS
      <4>3. \A i \in 1 .. 2 * k : 3 + i - 1 = i + 2
        OBVIOUS
      <4> QED BY <3>1, <4>1, <4>2, <4>3
    <3>4. ~(2 * k < MaxHistory - 1)
      BY <2>1, <3>1
    <3>5. ASSUME NEW j \in 1 .. k
          PROVE  /\ spoken'[2 * j - 1] = Asks(answers'[n + 1 - k + j])
                 /\ spoken'[2 * j] = Answers(answers'[n + 1 - k + j])
      <4>1. /\ j + 1 \in 1 .. k + 1 /\ 2 * (j + 1) - 1 = (2 * j - 1) + 2 /\ 2 * (j + 1) = 2 * j + 2
            /\ n - k + (j + 1) = n + 1 - k + j /\ 2 * j - 1 \in 1 .. 2 * k /\ 2 * j \in 1 .. 2 * k
        BY <1>8
      <4> QED BY <1>9, <3>3, <4>1
    <3>6. k <= Len(answers')
      BY <1>2, <1>8
    <3>7. Len(answers') = n + 1 /\ 2 * k <= MaxHistory /\ \A j \in 1 .. k : Len(answers') - k + j = n + 1 - k + j
      BY <1>2, <1>8
    <3> HIDE DEF n
    <3>8. Latest(k)'
      <4>1. \A j \in 1 .. k : /\ spoken'[2 * j - 1] = Asks(answers'[Len(answers') - k + j])
                              /\ spoken'[2 * j] = Answers(answers'[Len(answers') - k + j])
        BY <3>5, <3>7
      <4> QED BY <3>3, <3>4, <3>6, <3>7, <4>1 DEF Latest
    <3> QED BY <3>3, <3>8
  <2>2. CASE ~(Len(all) > MaxHistory)
    <3>1. spoken' = all /\ Len(all) = 2 * k + 2 /\ 2 * (k + 1) = 2 * k + 2 /\ k + 1 \in Nat
      BY <1>5, <1>6, <1>8, <2>2 DEF Kept
    <3>2. 2 * (k + 1) <= MaxHistory /\ k + 1 <= Len(answers')
          /\ (2 * (k + 1) < MaxHistory - 1 => k + 1 = Len(answers'))
      BY <1>2, <1>8, <2>2, <3>1
    <3>3. ASSUME NEW j \in 1 .. k + 1
          PROVE  Len(answers') - (k + 1) + j = n - k + j
      BY <1>2, <1>8
    <3>4. Latest(k + 1)'
      BY <1>9, <3>1, <3>2, <3>3 DEF Latest
    <3> QED BY <1>5, <3>1, <3>4
  <2> QED BY <2>1, <2>2
<1> QED BY <1>1, <1>2, <1>3, <1>10 DEF VoiceInv

LEMMA VoiceKeeps == VoiceInv /\ VoiceNext => VoiceInv'
<1> SUFFICES ASSUME VoiceInv, NEW t \in SpokenTurns,
                    \/ Speak(t) \/ Transcribed(t) \/ AnswerSpoken(t) \/ Synthesized(t) \/ Played(t) \/ VoiceFails(t)
             PROVE  VoiceInv'
  BY DEF VoiceNext
<1>1. CASE Speak(t)
  BY <1>1, TurnsMove DEF Speak, Answered
<1>2. CASE Transcribed(t)
  <2>1. PICK heard \in {"asking", "repeating"} :
          IF heard = "repeating" THEN Goto(t, heard)
          ELSE turn' = [turn EXCEPT ![t] = [stage |-> heard, context |-> Append(spoken, [role |-> "user", of |-> t])]]
    BY <1>2 DEF Transcribed
  <2>2. turn[t].stage \notin Answered /\ UNCHANGED <<spoken, answers>>
    BY <1>2 DEF Transcribed, Answered
  <2>3. CASE heard = "repeating"
    BY <2>1, <2>2, <2>3, TurnsMove
  <2>4. CASE heard = "asking"
    BY <2>1, <2>2, <2>4, TextAppended DEF Asks
  <2> QED BY <2>3, <2>4
<1>3. CASE Synthesized(t)
  BY <1>3, TurnsMove DEF Synthesized, Answered
<1>4. CASE Played(t)
  BY <1>4, TurnsMove DEF Played, Answered
<1>5. CASE VoiceFails(t)
  BY <1>5, TurnsMove DEF VoiceFails, Answered
<1> QED BY <1>1, <1>2, <1>3, <1>4, <1>5, AnswerKeeps

LEMMA VoiceStays == VoiceInv /\ UNCHANGED voiceVars => VoiceInv'
BY DEF VoiceInv, Latest, voiceVars

LEMMA VoiceBegins == VoiceInit => VoiceInv
<1> SUFFICES ASSUME VoiceInit PROVE VoiceInv
  OBVIOUS
<1>1. spoken = <<>> /\ answers = <<>> /\ turn = [t \in SpokenTurns |-> [stage |-> "new", context |-> <<>>]]
  BY DEF VoiceInit
<1>2. spoken \in Seq(Messages) /\ answers \in Seq(SpokenTurns) /\ Len(spoken) = 0 /\ Len(answers) = 0
  BY <1>1, EmptySeq
<1>3. Latest(0)
  BY <1>2, VoiceAssumption DEF Latest
<1>4. /\ turn = [t \in SpokenTurns |-> turn[t]]
      /\ \A t \in SpokenTurns : turn[t] = [stage |-> "new", context |-> <<>>]
  BY <1>1
<1>5. \E k \in Nat : Latest(k)
  BY <1>3
<1>6. \A t \in SpokenTurns : /\ turn[t] = [stage |-> turn[t].stage, context |-> turn[t].context]
                             /\ turn[t].context = <<>> /\ turn[t].context \in Seq(Messages)
  <2> SUFFICES ASSUME NEW t \in SpokenTurns
               PROVE  /\ turn[t] = [stage |-> turn[t].stage, context |-> turn[t].context]
                      /\ turn[t].context = <<>> /\ turn[t].context \in Seq(Messages)
    OBVIOUS
  <2> DEFINE it == turn[t]
  <2>1. it = [stage |-> "new", context |-> <<>>]
    BY <1>4
  <2> HIDE DEF it
  <2>2. it = [stage |-> it.stage, context |-> it.context] /\ it.context = <<>>
    BY <2>1
  <2>3. it.context \in Seq(Messages)
    BY <2>2, EmptySeq
  <2> QED BY <2>2, <2>3 DEF it
<1> QED BY <1>2, <1>4, <1>5, <1>6 DEF VoiceInv

LEMMA VoiceHolds == VoiceInv => VoiceSound
<1> SUFFICES ASSUME VoiceInv PROVE VoiceSound
  OBVIOUS
<1> USE VoiceAssumption
<1>1. PICK k \in Nat : Latest(k)
  BY DEF VoiceInv
<1> DEFINE n == Len(answers)
<1>2. n \in Nat /\ k <= n /\ Len(spoken) = 2 * k /\ 2 * k <= MaxHistory /\ (2 * k < MaxHistory - 1 => k = n)
  BY <1>1, LenProperties DEF Latest, VoiceInv
<1>3. \A j \in 1 .. k : spoken[2 * j - 1] = Asks(answers[n - k + j]) /\ spoken[2 * j] = Answers(answers[n - k + j])
  BY <1>1 DEF Latest
<1>4. DOMAIN spoken = 1 .. 2 * k
  BY <1>2, LenProperties DEF VoiceInv
<1> HIDE DEF n
<1>5. ASSUME NEW i \in Exchanges(spoken)
      PROVE  /\ (i + 1) \div 2 \in 1 .. k
             /\ spoken[i] = Asks(answers[n - k + (i + 1) \div 2])
             /\ spoken[i + 1] = Answers(answers[n - k + (i + 1) \div 2])
  <2> DEFINE j == (i + 1) \div 2
  <2>1. i \in 1 .. 2 * k /\ i % 2 = 1
    BY <1>4 DEF Exchanges
  <2>2. j \in 1 .. k /\ 2 * j - 1 = i /\ 2 * j = i + 1
    BY <2>1
  <2> HIDE DEF j
  <2>3. spoken[i] = Asks(answers[n - k + j]) /\ spoken[i + 1] = Answers(answers[n - k + j])
    BY <1>3, <2>2
  <2> QED BY <2>2, <2>3 DEF j
<1>6. WellFormed(spoken)
  <2>1. Len(spoken) % 2 = 0
    BY <1>2
  <2>2. \A i \in Exchanges(spoken) : spoken[i].role = "user" /\ spoken[i + 1] = [role |-> "assistant", of |-> spoken[i].of]
    <3> SUFFICES ASSUME NEW i \in Exchanges(spoken)
                 PROVE  spoken[i].role = "user" /\ spoken[i + 1] = [role |-> "assistant", of |-> spoken[i].of]
      OBVIOUS
    <3> DEFINE u == answers[n - k + (i + 1) \div 2]
    <3>1. spoken[i] = Asks(u) /\ spoken[i + 1] = Answers(u)
      BY <1>5
    <3> HIDE DEF u
    <3> QED BY <3>1 DEF Asks, Answers
  <2> QED BY <2>1, <2>2 DEF WellFormed
<1> DEFINE last == SubSeq(answers, n - Len(spoken) \div 2 + 1, n)
<1>7. last = SubSeq(answers, n - k + 1, n)
  <2>1. Len(spoken) \div 2 = k
    BY <1>2
  <2> QED BY <2>1
<1>8. ASSUME NEW j \in 1 .. k PROVE last[j] = answers[n - k + j]
  <2>1. \A i \in n - k + 1 .. n : answers[i] \in SpokenTurns
    BY <1>2, ElementOfSeq DEF VoiceInv, n
  <2>2. \A i \in 1 .. n - (n - k + 1) + 1 : SubSeq(answers, n - k + 1, n)[i] = answers[(n - k + 1) + i - 1]
    BY <1>2, <2>1, SubSeqProperties
  <2>3. j \in 1 .. n - (n - k + 1) + 1 /\ (n - k + 1) + j - 1 = n - k + j
    BY <1>2
  <2> QED BY <1>7, <2>2, <2>3
<1>9. Len(spoken) < MaxHistory - 1 => last = answers
  <2>1. SUFFICES ASSUME Len(spoken) < MaxHistory - 1 PROVE last = answers
    OBVIOUS
  <2>2. n - k + 1 = 1
    BY <1>2, <2>1
  <2> QED BY <1>7, <2>2, SubSeqFull DEF VoiceInv, n
<1> HIDE DEF last
<1>10. \A i \in Exchanges(spoken) : spoken[i].of = last[(i + 1) \div 2]
  <2> SUFFICES ASSUME NEW i \in Exchanges(spoken) PROVE spoken[i].of = last[(i + 1) \div 2]
    OBVIOUS
  <2> DEFINE j == (i + 1) \div 2
             u == answers[n - k + j]
  <2>1. spoken[i] = Asks(u) /\ j \in 1 .. k
    BY <1>5
  <2> HIDE DEF j
  <2>2. last[j] = u
    BY <1>8, <2>1
  <2> HIDE DEF u
  <2>3. spoken[i].of = last[j]
    BY <2>1, <2>2 DEF Asks
  <2> QED BY <2>3 DEF j
<1>11. ASSUME NEW t \in SpokenTurns, turn[t].context # <<>>
       PROVE  /\ WellFormed(Front(turn[t].context))
              /\ Last(turn[t].context).of = t
              /\ \A i \in 1 .. Len(turn[t].context) - 1 : turn[t].context[i].of # t
  <2> DEFINE context == turn[t].context
             front == Front(context)
  <2>1. context \in Seq(Messages)
    BY DEF VoiceInv
  <2>2. PICK m \in Nat : Asked(t, context, m)
    BY <1>11 DEF VoiceInv
  <2> HIDE DEF context
  <2>3. /\ Len(context) = 2 * m + 1 /\ context[2 * m + 1] = Asks(t)
        /\ \A i \in 1 .. 2 * m : context[i].of # t
    BY <2>2 DEF Asked
  <2>4. Last(context).of = t /\ \A i \in 1 .. Len(context) - 1 : context[i].of # t
    BY <2>3 DEF Last, Asks
  <2>5. Len(front) = 2 * m /\ DOMAIN front = 1 .. 2 * m /\ \A i \in 1 .. 2 * m : front[i] = context[i]
    <3>1. front = SubSeq(context, 1, 2 * m)
      BY <2>3 DEF Front
    <3>2. \A i \in 1 .. 2 * m : context[i] \in Messages
      BY <2>1, <2>3, ElementOfSeq
    <3>3. /\ SubSeq(context, 1, 2 * m) \in Seq(Messages)
          /\ Len(SubSeq(context, 1, 2 * m)) = IF 1 <= 2 * m THEN 2 * m - 1 + 1 ELSE 0
          /\ \A i \in 1 .. 2 * m - 1 + 1 : SubSeq(context, 1, 2 * m)[i] = context[1 + i - 1]
      BY <3>2, SubSeqProperties
    <3>4. 2 * m - 1 + 1 = 2 * m /\ (1 <= 2 * m \/ 2 * m = 0) /\ \A i \in 1 .. 2 * m : 1 + i - 1 = i
      OBVIOUS
    <3>5. Len(front) = 2 * m /\ \A i \in 1 .. 2 * m : front[i] = context[i]
      BY <3>1, <3>3, <3>4
    <3> QED BY <3>1, <3>3, <3>5, LenProperties
  <2> HIDE DEF front
  <2>6. ASSUME NEW i \in Exchanges(front)
        PROVE  front[i].role = "user" /\ front[i + 1] = [role |-> "assistant", of |-> front[i].of]
    <3> DEFINE j == (i + 1) \div 2
    <3>1. i \in 1 .. 2 * m /\ i % 2 = 1
      BY <2>5 DEF Exchanges
    <3>2. j \in 1 .. m /\ 2 * j - 1 = i /\ 2 * j = i + 1 /\ i + 1 \in 1 .. 2 * m
      BY <3>1
    <3> HIDE DEF j
    <3>3. context[i].role = "user" /\ context[i + 1] = Answers(context[i].of)
      BY <2>2, <3>2 DEF Asked
    <3> QED BY <2>5, <3>1, <3>2, <3>3 DEF Answers
  <2>7. WellFormed(front)
    BY <2>5, <2>6 DEF WellFormed
  <2> QED BY <2>4, <2>7 DEF context, front
<1> QED BY <1>2, <1>6, <1>9, <1>10, <1>11 DEF VoiceSound, last, n

-----------------------------------------------------------------------------
(* Numbers: the least of a set, induction over an interval, and the places of a list. *)

LEMMA LeastExists ==
  ASSUME NEW S \in SUBSET Nat, S # {}
  PROVE  \E n \in S : \A m \in S : n <= m
<1> DEFINE R == OpToRel(<, Nat)
<1>1. \A x, y \in Nat : x < y => <<x, y>> \in R
  BY DEF OpToRel
<1>2. IsWellFoundedOn(R, Nat)
  BY NatLessThanWellFounded
<1> HIDE DEF R
<1>3. PICK n \in S : \A m \in S : ~(<<m, n>> \in R)
  BY <1>2, WFMin
<1>4. ASSUME NEW m \in S PROVE n <= m
  <2>1. m \in Nat /\ n \in Nat
    OBVIOUS
  <2>2. ~(m < n)
    BY <2>1, <1>1, <1>3
  <2> QED BY <2>1, <2>2
<1> QED BY <1>4

LEMMA IntervalInduction ==
  ASSUME NEW N \in Nat, NEW S, 0 \in S, \A n \in 1 .. N : n - 1 \in S => n \in S
  PROVE  0 .. N \subseteq S
<1> DEFINE Bad == (0 .. N) \ S
<1>1. SUFFICES ASSUME Bad # {} PROVE FALSE
  OBVIOUS
<1>2. PICK n \in Bad : \A m \in Bad : n <= m
  <2>1. Bad \in SUBSET Nat
    OBVIOUS
  <2> QED BY <1>1, <2>1, LeastExists
<1>3. n \in 1 .. N /\ n - 1 \in 0 .. N /\ ~(n <= n - 1)
  BY <1>2
<1>4. n - 1 \in S
  BY <1>2, <1>3
<1> QED BY <1>2, <1>3, <1>4
(* The members of a set of numbers that have fewer than k smaller ones: k, when there are k. *)

Lower(S, p) == {q \in S : q < p}
First(S, k) == {p \in S : Cardinality(Lower(S, p)) < k}

LEMMA LowerIs ==
  ASSUME NEW S \in SUBSET Nat, IsFiniteSet(S), NEW p \in S
  PROVE  IsFiniteSet(Lower(S, p)) /\ Cardinality(Lower(S, p)) \in Nat
<1>1. Lower(S, p) \subseteq S
  BY DEF Lower
<1>2. IsFiniteSet(Lower(S, p))
  BY <1>1, FS_Subset
<1> QED BY <1>2, FS_CardinalityType

LEMMA FirstGrows ==
  ASSUME NEW S \in SUBSET Nat, IsFiniteSet(S), NEW k \in 1 .. Cardinality(S),
         Cardinality(First(S, k - 1)) = k - 1
  PROVE  Cardinality(First(S, k)) = k
<1> DEFINE F == First(S, k - 1)
<1>0. Cardinality(S) \in Nat /\ k \in Nat /\ k - 1 \in Nat /\ k - 1 < Cardinality(S)
  BY FS_CardinalityType
<1>1. F \subseteq S
  BY DEF First
<1>2. IsFiniteSet(F) /\ F # S
  BY <1>0, <1>1, FS_Subset
<1>3. PICK m \in S \ F : \A p \in S \ F : m <= p
  <2>1. S \ F \in SUBSET Nat /\ S \ F # {}
    BY <1>1, <1>2
  <2> HIDE DEF F
  <2> QED BY <2>1, LeastExists
<1>4. Cardinality(Lower(S, m)) = k - 1
  <2>1. Lower(S, m) \subseteq F
    <3> SUFFICES ASSUME NEW q \in S, q < m PROVE q \in F
      BY DEF Lower
    <3>1. ~(m <= q)
      OBVIOUS
    <3> QED BY <1>3, <3>1
  <2>2. Cardinality(Lower(S, m)) <= k - 1
    BY <1>2, <2>1, FS_Subset
  <2>3. ~(Cardinality(Lower(S, m)) < k - 1)
    BY <1>3 DEF First
  <2>4. Cardinality(Lower(S, m)) \in Nat
    BY <1>3, LowerIs
  <2> QED BY <1>0, <2>2, <2>3, <2>4
<1>5. First(S, k) = F \cup {m}
  <2>1. F \cup {m} \subseteq First(S, k)
    <3>1. ASSUME NEW p \in F PROVE p \in First(S, k)
      <4>1. p \in S /\ Cardinality(Lower(S, p)) < k - 1
        BY DEF First
      <4>2. Cardinality(Lower(S, p)) \in Nat
        BY <4>1, LowerIs
      <4>3. Cardinality(Lower(S, p)) < k
        BY <1>0, <4>1, <4>2
      <4> QED BY <4>1, <4>3 DEF First
    <3>2. m \in First(S, k)
      <4>1. Cardinality(Lower(S, m)) < k
        BY <1>0, <1>4
      <4> QED BY <1>3, <4>1 DEF First
    <3> QED BY <3>1, <3>2
  <2>2. ASSUME NEW p \in First(S, k), p \notin F PROVE p = m
    <3>1. p \in S /\ m <= p /\ Cardinality(Lower(S, p)) < k
      BY <1>3, <2>2 DEF First
    <3>2. ASSUME m < p PROVE FALSE
      <4> DEFINE A == Lower(S, m)
      <4>1. A \cup {m} \subseteq Lower(S, p) /\ m \notin A
        <5>1. m \in S /\ m \in Nat /\ p \in Nat /\ ~(m < m)
          BY <1>3, <3>1
        <5>2. ASSUME NEW q \in S, q < m PROVE q < p
          <6>1. q \in Nat
            OBVIOUS
          <6> QED BY <3>2, <5>1, <5>2, <6>1
        <5> QED BY <3>2, <5>1, <5>2 DEF Lower
      <4>2. IsFiniteSet(A) /\ IsFiniteSet(Lower(S, p)) /\ Cardinality(Lower(S, p)) \in Nat
        BY <1>3, <3>1, LowerIs
      <4>3. Cardinality(A) = k - 1
        BY <1>4
      <4> HIDE DEF A
      <4>4. Cardinality(A \cup {m}) = k
        <5>1. Cardinality(A \cup {m}) = Cardinality(A) + 1
          BY <4>1, <4>2, FS_AddElement
        <5> QED BY <1>0, <4>3, <5>1
      <4>5. k <= Cardinality(Lower(S, p))
        BY <4>1, <4>2, <4>4, FS_Subset
      <4> QED BY <1>0, <3>1, <4>2, <4>5
    <3>3. m \in Nat /\ p \in Nat
      BY <1>3, <3>1
    <3> QED BY <3>1, <3>2, <3>3
  <2> QED BY <2>1, <2>2
<1>6. m \notin F
  BY <1>3
<1> HIDE DEF F
<1>7. Cardinality(F \cup {m}) = Cardinality(F) + 1
  BY <1>2, <1>6, FS_AddElement
<1> QED BY <1>0, <1>5, <1>7 DEF F

LEMMA FirstCounts ==
  ASSUME NEW S \in SUBSET Nat, IsFiniteSet(S), NEW k \in 0 .. Cardinality(S)
  PROVE  Cardinality(First(S, k)) = k
<1> DEFINE N == Cardinality(S)
           K == {j \in 0 .. N : Cardinality(First(S, j)) = j}
<1>1. N \in Nat
  BY FS_CardinalityType
<1>2. 0 \in K
  <2>1. First(S, 0) = {}
    <3> SUFFICES ASSUME NEW p \in S PROVE ~(Cardinality(Lower(S, p)) < 0)
      BY DEF First
    <3>1. Cardinality(Lower(S, p)) \in Nat
      BY LowerIs
    <3> QED BY <3>1
  <2>2. Cardinality(First(S, 0)) = 0
    BY <2>1, FS_EmptySet
  <2> QED BY <1>1, <2>2
<1>3. ASSUME NEW j \in 1 .. N, j - 1 \in K PROVE j \in K
  <2>1. Cardinality(First(S, j - 1)) = j - 1
    BY <1>3
  <2>2. Cardinality(First(S, j)) = j
    BY <2>1, FirstGrows
  <2> QED BY <1>1, <2>2
<1>4. 0 .. N \subseteq K
  <2> HIDE DEF K, N
  <2> QED BY <1>1, <1>2, <1>3, IntervalInduction
<1> QED BY <1>4
LEMMA PlaceIs ==
  ASSUME NEW S \in SUBSET Nat, IsFiniteSet(S), NEW i \in 1 .. Cardinality(S)
  PROVE  Place(S, i) \in S /\ Cardinality({j \in S : j <= Place(S, i)}) = i
<1>0. Cardinality(S) \in Nat
  BY FS_CardinalityType
<1>1. Cardinality(First(S, i)) = i /\ Cardinality(First(S, i - 1)) = i - 1
  <2>1. i \in 0 .. Cardinality(S) /\ i - 1 \in 0 .. Cardinality(S)
    BY <1>0
  <2>2. Cardinality(First(S, i)) = i
    BY <2>1, FirstCounts
  <2>3. Cardinality(First(S, i - 1)) = i - 1
    BY <2>1, FirstCounts
  <2> QED BY <2>2, <2>3
<1>2. PICK m \in First(S, i) : m \notin First(S, i - 1)
  <2>1. First(S, i) \subseteq S /\ First(S, i - 1) \subseteq S
    BY DEF First
  <2>2. IsFiniteSet(First(S, i)) /\ IsFiniteSet(First(S, i - 1))
    BY <2>1, FS_Subset
  <2>3. ASSUME First(S, i) \subseteq First(S, i - 1) PROVE FALSE
    <3>1. Cardinality(First(S, i)) <= Cardinality(First(S, i - 1))
      BY <2>2, <2>3, FS_Subset
    <3> QED BY <1>0, <1>1, <3>1
  <2> QED BY <2>3
<1>3. m \in S /\ Cardinality(Lower(S, m)) < i /\ ~(Cardinality(Lower(S, m)) < i - 1)
  BY <1>2 DEF First
<1>4. IsFiniteSet(Lower(S, m)) /\ Cardinality(Lower(S, m)) \in Nat
  BY <1>3, LowerIs
<1>5. {j \in S : j <= m} = Lower(S, m) \cup {m} /\ m \notin Lower(S, m)
  <2>1. m \in Nat
    BY <1>3
  <2>2. ASSUME NEW j \in S PROVE j <= m <=> j < m \/ j = m
    <3>1. j \in Nat
      OBVIOUS
    <3> QED BY <2>1, <3>1
  <2>3. ~(m < m)
    BY <2>1
  <2> QED BY <1>3, <2>2, <2>3, Zenon DEF Lower
<1>6. Cardinality(Lower(S, m) \cup {m}) = Cardinality(Lower(S, m)) + 1
  BY <1>4, <1>5, FS_AddElement
<1>7. Cardinality({j \in S : j <= m}) = i
  <2>1. Cardinality(Lower(S, m)) + 1 = i
    BY <1>0, <1>3, <1>4
  <2> QED BY <1>5, <1>6, <2>1
<1> QED BY <1>3, <1>7 DEF Place

LEMMA PlacesDiffer ==
  ASSUME NEW S \in SUBSET Nat, IsFiniteSet(S), NEW p \in S, NEW q \in S, p < q
  PROVE  Cardinality({j \in S : j <= p}) # Cardinality({j \in S : j <= q})
<1> DEFINE P == {j \in S : j <= p}
           Q == {j \in S : j <= q}
<1>1. p \in Nat /\ q \in Nat /\ ~(q <= p)
  OBVIOUS
<1>2. P \cup {q} \subseteq Q /\ q \notin P
  <2>1. ASSUME NEW j \in S, j <= p PROVE j <= q
    <3>1. j \in Nat
      OBVIOUS
    <3> QED BY <1>1, <2>1, <3>1
  <2>2. q <= q
    BY <1>1
  <2> QED BY <1>1, <2>1, <2>2, Zenon
<1>3. P \subseteq S /\ Q \subseteq S
  OBVIOUS
<1> HIDE DEF P, Q
<1>4. IsFiniteSet(P) /\ IsFiniteSet(Q)
  BY <1>3, FS_Subset
<1>5. Cardinality(P) \in Nat /\ Cardinality(Q) \in Nat
  BY <1>4, FS_CardinalityType
<1>6. Cardinality(P \cup {q}) = Cardinality(P) + 1
  BY <1>2, <1>4, FS_AddElement
<1>7. Cardinality(P \cup {q}) <= Cardinality(Q)
  BY <1>2, <1>4, FS_Subset
<1>8. Cardinality(P) # Cardinality(Q)
  BY <1>5, <1>6, <1>7
<1> QED BY <1>8 DEF P, Q

LEMMA ElementsAre ==
  ASSUME NEW V, NEW s \in Seq(V), NEW S \in SUBSET DOMAIN s
  PROVE  /\ ElementsAt(s, S) \in Seq(V)
         /\ \A i \in DOMAIN ElementsAt(s, S) : Place(S, i) \in S /\ ElementsAt(s, S)[i] = s[Place(S, i)]
         /\ \A i, j \in DOMAIN ElementsAt(s, S) : Place(S, i) = Place(S, j) => i = j
         /\ \A p \in S : \E i \in DOMAIN ElementsAt(s, S) : Place(S, i) = p
<1> DEFINE N == Cardinality(S)
           e == ElementsAt(s, S)
           UpTo(p) == {j \in S : j <= p}
<1>1. Len(s) \in Nat /\ DOMAIN s = 1 .. Len(s)
  BY LenProperties
<1>2. S \in SUBSET Nat /\ IsFiniteSet(S) /\ N \in Nat
  <2>1. 1 \in Int /\ Len(s) \in Int
    BY <1>1
  <2>2. IsFiniteSet(1 .. Len(s))
    BY <2>1, FS_Interval
  <2>3. S \subseteq 1 .. Len(s)
    BY <1>1
  <2>4. IsFiniteSet(S)
    BY <2>2, <2>3, FS_Subset
  <2> QED BY <1>1, <2>4, FS_CardinalityType
<1>3. e = [i \in 1 .. N |-> s[Place(S, i)]]
  BY DEF ElementsAt
<1> HIDE DEF N, e
<1>4. ASSUME NEW i \in 1 .. N PROVE Place(S, i) \in S /\ Cardinality(UpTo(Place(S, i))) = i
  BY <1>2, <1>4, PlaceIs DEF N
<1> HIDE DEF UpTo
<1>5. e \in [1 .. N -> V]
  <2>1. \A p \in S : s[p] \in V
    OBVIOUS
  <2> QED BY <1>3, <1>4, <2>1
<1>6. e \in Seq(V) /\ DOMAIN e = 1 .. N
  BY <1>2, <1>5
<1>7. ASSUME NEW i \in 1 .. N, NEW j \in 1 .. N, Place(S, i) = Place(S, j) PROVE i = j
  BY <1>4, <1>7
<1>8. ASSUME NEW p \in S PROVE \E i \in 1 .. N : Place(S, i) = p
  <2> DEFINE i == Cardinality(UpTo(p))
  <2>1. p \in UpTo(p) /\ UpTo(p) \subseteq S
    <3>1. p \in Nat
      BY <1>2
    <3>2. p <= p
      BY <3>1
    <3> QED BY <3>2 DEF UpTo
  <2>2. IsFiniteSet(UpTo(p)) /\ i \in Nat /\ i <= N
    BY <1>2, <2>1, FS_Subset, FS_CardinalityType DEF N
  <2>3. i # 0
    BY <2>1, <2>2, FS_EmptySet
  <2>4. i \in 1 .. N
    BY <1>2, <2>2, <2>3
  <2>5. Place(S, i) \in S /\ Cardinality(UpTo(Place(S, i))) = Cardinality(UpTo(p))
    BY <1>4, <2>4
  <2> DEFINE q == Place(S, i)
  <2> HIDE DEF i
  <2>6. q \in S /\ Cardinality(UpTo(q)) = Cardinality(UpTo(p))
    BY <2>5
  <2> HIDE DEF q
  <2>7. ~(q < p) /\ ~(p < q)
    BY <1>2, <2>6, PlacesDiffer DEF UpTo
  <2>8. q \in Nat /\ p \in Nat
    BY <1>2, <2>6
  <2>9. q = p
    BY <2>7, <2>8
  <2> QED BY <2>4, <2>9 DEF q
<1>9. \A i \in 1 .. N : e[i] = s[Place(S, i)]
  BY <1>3
<1> QED BY <1>4, <1>6, <1>7, <1>8, <1>9 DEF e

-----------------------------------------------------------------------------
(* What the operations make of a file. *)

LEMMA FirstSelected ==
  ASSUME NEW n \in Nat, NEW I \in SUBSET (1 .. n)
  PROVE  /\ I # {} => Min(I) \in I /\ \A i \in I : Min(I) <= i
         /\ I # {} => Min(I) # 0
<1>1. I \in SUBSET Nat
  OBVIOUS
<1>2. ASSUME I # {} PROVE Min(I) \in I /\ \A i \in I : Min(I) <= i
  <2>1. PICK k \in I : \A i \in I : k <= i
    BY <1>1, <1>2, LeastExists
  <2> QED BY <2>1 DEF Min
<1>3. ASSUME I # {} PROVE Min(I) # 0
  <2>1. Min(I) \in 1 .. n
    BY <1>2, <1>3
  <2> QED BY <2>1
<1> QED BY <1>2, <1>3

FileNames == {FileOf[op] : op \in DOMAIN FileOf}
Statuses == {"running", "done", "failed"}
Projects == [path : Paths, name : {NameOf[p] : p \in Paths}, id : Nat, status : {"active", "archived"}]
Jobs == [entry : 1 .. MaxOps, status : Statuses]
Registries == [projects : Seq(Projects), active : Nat]

PathsApart(ps) == \A i, j \in DOMAIN ps : ps[i].path = ps[j].path => i = j
EntriesApart(js) == \A i, j \in DOMAIN js : js[i].entry = js[j].entry => i = j
Descending(q) == \A i, j \in DOMAIN q : i < j => Priority[q[i]] >= Priority[q[j]]

\* What a file may hold when n operations have begun.
Wellmade(f, data, n) ==
  /\ f = "registry" => data \in Registries /\ PathsApart(data.projects)
  /\ f = "jobs" => data \in Seq(Jobs) /\ EntriesApart(data)
  /\ f = "queue" => data \in Seq(1 .. n) /\ IsInjective(data) /\ Descending(data)
  /\ f = "ledger" => data \in Seq(1 .. n)
  /\ f = "session" /\ n = 0 => data = {}

RequestIs(r, n) ==
  /\ r = [op |-> r.op, of |-> r.of] /\ r.op \in DOMAIN FileOf
  /\ r.op \in {"register", "setStatus"} => r.of \in Paths
  /\ r.op \in {"enqueue", "record"} => r.of \in 1 .. n
  /\ r.op = "persist" => r.of \in Jobs

SeenIs(r, was, n) ==
  /\ Wellmade(FileOf[r.op], was, n) /\ Writes(r, was)
  /\ r.op = "enqueue" => r.of \notin ToSet(was)
  /\ r.op = "create" => was = {}

\* data is what was seen with what the operation puts there and without what it takes away
Follows(f, data, was, puts, takes, n) ==
  /\ Wellmade(f, data, n)
  /\ Told(f, was) \ takes \subseteq Told(f, data)
  /\ Told(f, data) \subseteq (Told(f, was) \cup puts) \ takes
  /\ puts \subseteq Told(f, data)

LEMMA FilesAre ==
  /\ FileNames = {"registry", "queue", "jobs", "session", "ledger"}
  /\ DOMAIN FileOf = {"register", "setActive", "setStatus", "remove", "enqueue", "pop", "persist",
                      "create", "update", "record"}
  /\ FileOf["register"] = "registry" /\ FileOf["setActive"] = "registry"
  /\ FileOf["setStatus"] = "registry" /\ FileOf["remove"] = "registry"
  /\ FileOf["enqueue"] = "queue" /\ FileOf["pop"] = "queue" /\ FileOf["persist"] = "jobs"
  /\ FileOf["create"] = "session" /\ FileOf["update"] = "session" /\ FileOf["record"] = "ledger"
BY DEF FileNames, FileOf

LEMMA RegisterFollows ==
  ASSUME NEW n, NEW was, NEW path \in Paths, NEW id \in Nat, Wellmade("registry", was, n)
  PROVE  Follows("registry", Register(was, path, id), was, {path}, {}, n)
<1> DEFINE old == was.projects
           new == [path |-> path, name |-> NameOf[path], id |-> id, status |-> "active"]
           data == Register(was, path, id)
           ps == Append(old, new)
<1>1. was \in Registries /\ old \in Seq(Projects) /\ PathsApart(old)
  BY DEF Wellmade, Registries
<1>2. \A d : Told("registry", d) = {p.path : p \in ToSet(d.projects)}
  BY DEF Told
<1>3. CASE \E p \in ToSet(old) : p.path = path
  <2>1. data = was
    BY <1>3 DEF Register
  <2> HIDE DEF data, new
  <2>2. path \in Told("registry", was)
    BY <1>2, <1>3
  <2> QED BY <2>1, <2>2 DEF Follows, data
<1>4. CASE ~\E p \in ToSet(old) : p.path = path
  <2>1. data = [projects |-> ps, active |-> id]
    BY <1>4 DEF Register
  <2> HIDE DEF data
  <2>2. new \in Projects /\ new.path = path
    BY DEF Projects
  <2> HIDE DEF new
  <2>3. /\ ps \in Seq(Projects) /\ DOMAIN ps = 1 .. Len(old) + 1 /\ DOMAIN old = 1 .. Len(old)
        /\ Len(old) \in Nat /\ ps[Len(old) + 1] = new /\ \A i \in 1 .. Len(old) : ps[i] = old[i]
    BY <1>1, <2>2
  <2> HIDE DEF ps
  <2> DEFINE N == Len(old)
  <2> HIDE DEF N, old
  <2>4. N \in Nat /\ DOMAIN ps = 1 .. N + 1 /\ DOMAIN old = 1 .. N /\ ps[N + 1] = new
        /\ \A i \in 1 .. N : ps[i] = old[i]
    BY <2>3 DEF N
  <2>5. \A i \in 1 .. N : old[i].path # path
    BY <1>4, <2>4 DEF ToSet
  <2>6. PathsApart(ps)
    <3> SUFFICES ASSUME NEW i \in 1 .. N + 1, NEW j \in 1 .. N + 1, ps[i].path = ps[j].path PROVE i = j
      BY <2>4 DEF PathsApart
    <3>1. CASE i = N + 1 /\ j = N + 1
      BY <3>1
    <3>2. CASE i = N + 1 /\ j # N + 1
      <4>1. j \in 1 .. N
        BY <2>4, <3>2
      <4> QED BY <2>2, <2>4, <2>5, <3>2, <4>1
    <3>3. CASE i # N + 1 /\ j = N + 1
      <4>1. i \in 1 .. N
        BY <2>4, <3>3
      <4> QED BY <2>2, <2>4, <2>5, <3>3, <4>1
    <3>4. CASE i # N + 1 /\ j # N + 1
      <4>1. i \in 1 .. N /\ j \in 1 .. N
        BY <2>4, <3>4
      <4> QED BY <1>1, <2>4, <4>1 DEF PathsApart
    <3> QED BY <3>1, <3>2, <3>3, <3>4
  <2>7. data \in Registries /\ data.projects = ps
    BY <2>1, <2>3 DEF Registries
  <2>8. ToSet(ps) = ToSet(old) \cup {new}
    <3>1. \A i \in 1 .. N + 1 : i = N + 1 \/ i \in 1 .. N
      BY <2>4
    <3>2. N + 1 \in 1 .. N + 1 /\ \A i \in 1 .. N : i \in 1 .. N + 1
      BY <2>4
    <3> QED BY <2>4, <3>1, <3>2 DEF ToSet
  <2>9. Told("registry", data) = Told("registry", was) \cup {path}
    BY <1>2, <2>2, <2>7, <2>8 DEF old
  <2> QED BY <2>6, <2>7, <2>9 DEF Follows, Wellmade, data
<1> QED BY <1>3, <1>4

LEMMA FirstMatchIs ==
  ASSUME NEW was \in Registries, NEW key, AllMatches(was, key) # {}
  PROVE  FirstMatch(was, key) \in DOMAIN was.projects
<1> DEFINE ps == was.projects
           I == {i \in 1 .. Len(ps) : Matches(ps[i], key)}
<1>1. ps \in Seq(Projects) /\ Len(ps) \in Nat /\ DOMAIN ps = 1 .. Len(ps)
  BY LenProperties DEF Registries
<1>2. FirstMatch(was, key) = IF I # {} THEN Min(I) ELSE 0
  BY DEF FirstMatch, SelectInSeq
<1>3. I # {}
  BY <1>1 DEF AllMatches, ToSet
<1>4. I \in SUBSET (1 .. Len(ps))
  OBVIOUS
<1> HIDE DEF I
<1>5. Min(I) \in I
  BY <1>1, <1>3, <1>4, FirstSelected
<1> QED BY <1>1, <1>2, <1>3, <1>4, <1>5

LEMMA SetActiveFollows ==
  ASSUME NEW n, NEW was, NEW key, Wellmade("registry", was, n), AllMatches(was, key) # {}
  PROVE  Follows("registry", SetActive(was, key), was, {}, {}, n)
<1> DEFINE data == SetActive(was, key)
           k == FirstMatch(was, key)
<1>1. was \in Registries /\ PathsApart(was.projects)
  BY DEF Wellmade
<1>2. k \in DOMAIN was.projects
  BY <1>1, FirstMatchIs
<1>3. data = [was EXCEPT !.active = was.projects[k].id]
  BY DEF SetActive
<1> HIDE DEF k, data
<1>4. was.projects \in Seq(Projects)
  BY <1>1 DEF Registries
<1>5. was.projects[k] \in Projects
  BY <1>2, <1>4
<1>6. was.projects[k].id \in Nat
  BY <1>5 DEF Projects
<1>7. data \in Registries /\ data.projects = was.projects
  BY <1>1, <1>3, <1>6 DEF Registries
<1>8. Told("registry", data) = Told("registry", was)
  BY <1>7 DEF Told
<1> QED BY <1>1, <1>7, <1>8 DEF Follows, Wellmade, data

LEMMA SetStatusFollows ==
  ASSUME NEW n, NEW was, NEW key, Wellmade("registry", was, n), AllMatches(was, key) # {},
         NEW data \in SetStatus(was, key)
  PROVE  Follows("registry", data, was, {}, {}, n)
<1> DEFINE k == FirstMatch(was, key)
           ps == was.projects
<1>1. was \in Registries /\ PathsApart(was.projects)
  BY DEF Wellmade
<1>2. k \in DOMAIN was.projects
  BY <1>1, FirstMatchIs
<1>3. PICK status \in {"active", "archived"} : data = [was EXCEPT !.projects[k].status = status]
  BY DEF SetStatus
<1> HIDE DEF k
<1> DEFINE q == [ps[k] EXCEPT !.status = status]
           qs == [ps EXCEPT ![k] = q]
<1>4. ps \in Seq(Projects) /\ was = [projects |-> ps, active |-> was.active] /\ was.active \in Nat
  BY <1>1 DEF Registries
<1>5. data = [projects |-> qs, active |-> was.active]
  BY <1>3, <1>4
<1> HIDE DEF ps
<1>6. q \in Projects /\ q.path = ps[k].path
  <2>1. ps[k] \in Projects
    BY <1>2, <1>4 DEF ps
  <2> QED BY <2>1 DEF Projects
<1> HIDE DEF q
<1>7. qs \in Seq(Projects) /\ DOMAIN qs = DOMAIN ps /\ \A i \in DOMAIN ps : qs[i] = IF i = k THEN q ELSE ps[i]
  BY <1>2, <1>4, <1>6 DEF ps
<1> HIDE DEF qs
<1>8. \A i \in DOMAIN ps : qs[i].path = ps[i].path
  BY <1>6, <1>7
<1>9. PathsApart(qs)
  BY <1>1, <1>7, <1>8 DEF PathsApart, ps
<1>10. data \in Registries /\ data.projects = qs
  BY <1>4, <1>5, <1>7 DEF Registries
<1>11. Told("registry", data) = Told("registry", was)
  <2>1. \A d : Told("registry", d) = {p.path : p \in ToSet(d.projects)}
    BY DEF Told
  <2>2. {p.path : p \in ToSet(qs)} = {p.path : p \in ToSet(ps)}
    BY <1>7, <1>8 DEF ToSet
  <2> QED BY <1>10, <2>1, <2>2 DEF ps
<1> QED BY <1>9, <1>10, <1>11 DEF Follows, Wellmade

LEMMA RemoveFollows ==
  ASSUME NEW n, NEW was, NEW key, Wellmade("registry", was, n)
  PROVE  Follows("registry", RemoveProject(was, key), was, {}, {p.path : p \in AllMatches(was, key)}, n)
<1> DEFINE ps == was.projects
           S == {i \in DOMAIN ps : ~Matches(ps[i], key)}
           qs == ElementsAt(ps, S)
           data == RemoveProject(was, key)
           takes == {p.path : p \in AllMatches(was, key)}
<1>1. was \in Registries /\ PathsApart(ps) /\ ps \in Seq(Projects)
  BY DEF Wellmade, Registries
<1>2. was = [projects |-> ps, active |-> was.active] /\ was.active \in Nat
  BY <1>1 DEF Registries
<1>3. data = [projects |-> qs, active |-> was.active]
  BY <1>2 DEF RemoveProject
<1>4. S \in SUBSET DOMAIN ps
  OBVIOUS
<1>5. takes = {p.path : p \in {p \in ToSet(ps) : Matches(p, key)}}
  BY DEF AllMatches
<1>6. \A i \in DOMAIN ps : i \in S <=> ~Matches(ps[i], key)
  OBVIOUS
<1> HIDE DEF ps, S, data, takes
<1>7. /\ qs \in Seq(Projects)
      /\ \A i \in DOMAIN qs : Place(S, i) \in S /\ qs[i] = ps[Place(S, i)]
      /\ \A i, j \in DOMAIN qs : Place(S, i) = Place(S, j) => i = j
      /\ \A p \in S : \E i \in DOMAIN qs : Place(S, i) = p
  BY <1>1, <1>4, ElementsAre
<1> HIDE DEF qs
<1>8. PathsApart(qs)
  BY <1>1, <1>4, <1>7 DEF PathsApart
<1>9. data \in Registries /\ data.projects = qs
  BY <1>2, <1>3, <1>7 DEF Registries
<1> DEFINE old == Told("registry", was)
           new == Told("registry", data)
<1>10. \A d : Told("registry", d) = {p.path : p \in ToSet(d.projects)}
  BY DEF Told
<1>11. /\ \A x : x \in old <=> \E i \in DOMAIN ps : ps[i].path = x
       /\ \A x : x \in new <=> \E i \in DOMAIN qs : qs[i].path = x
       /\ \A x : x \in takes <=> \E i \in DOMAIN ps : i \notin S /\ ps[i].path = x
  <2>1. old = {p.path : p \in ToSet(ps)} /\ new = {p.path : p \in ToSet(qs)}
    BY <1>9, <1>10 DEF ps
  <2>2. \A x : x \in takes <=> \E i \in DOMAIN ps : i \notin S /\ ps[i].path = x
    BY <1>5, <1>6 DEF ToSet
  <2> HIDE DEF old, new
  <2> QED BY <2>1, <2>2 DEF ToSet
<1> HIDE DEF old, new
<1>12. \A x : x \in new <=> \E i \in S : ps[i].path = x
  BY <1>7, <1>11
<1>13. \A x : x \in new => x \in old /\ x \notin takes
  BY <1>1, <1>4, <1>11, <1>12 DEF PathsApart
<1>14. \A x : x \in old /\ x \notin takes => x \in new
  BY <1>11, <1>12
<1> QED BY <1>8, <1>9, <1>13, <1>14 DEF Follows, Wellmade, data, takes, old, new

LEMMA InsertIs ==
  ASSUME NEW V, NEW s \in Seq(V), NEW e \in V, NEW k \in 1 .. Len(s) + 1
  PROVE  /\ InsertAt(s, k, e) \in Seq(V) /\ Len(InsertAt(s, k, e)) = Len(s) + 1
         /\ InsertAt(s, k, e)[k] = e
         /\ \A i \in 1 .. k - 1 : InsertAt(s, k, e)[i] = s[i]
         /\ \A i \in k + 1 .. Len(s) + 1 : InsertAt(s, k, e)[i] = s[i - 1]
<1> DEFINE N == Len(s)
           a == SubSeq(s, 1, k - 1)
           c == SubSeq(s, k, N)
           b == a \o <<e>>
           t == b \o c
<1>1. N \in Nat /\ k \in 1 .. N + 1
  BY LenProperties
<1>2. a \in Seq(V) /\ Len(a) = k - 1 /\ \A i \in 1 .. k - 1 : a[i] = s[i]
  BY <1>1
<1>3. c \in Seq(V) /\ Len(c) = N - k + 1 /\ \A i \in 1 .. N - k + 1 : c[i] = s[k + i - 1]
  BY <1>1
<1> HIDE DEF a, c
<1>4. b \in Seq(V) /\ Len(b) = k /\ b[k] = e /\ \A i \in 1 .. k - 1 : b[i] = s[i]
  BY <1>1, <1>2
<1> HIDE DEF b
<1>5. /\ t \in Seq(V) /\ Len(t) = N + 1 /\ \A i \in 1 .. k : t[i] = b[i]
      /\ \A i \in k + 1 .. N + 1 : t[i] = c[i - k]
  BY <1>1, <1>3, <1>4
<1>6. InsertAt(s, k, e) = t
  BY DEF InsertAt, t, b, a, c
<1> HIDE DEF t, N
<1>7. t[k] = e /\ \A i \in 1 .. k - 1 : t[i] = s[i]
  BY <1>1, <1>4, <1>5
<1>8. ASSUME NEW i \in k + 1 .. N + 1 PROVE t[i] = s[i - 1]
  <2>1. i - k \in 1 .. N - k + 1 /\ k + (i - k) - 1 = i - 1
    BY <1>1
  <2> QED BY <1>3, <1>5, <2>1
<1> QED BY <1>5, <1>6, <1>7, <1>8 DEF N

LEMMA EnqueueFollows ==
  ASSUME NEW n \in 1 .. MaxOps, NEW was, NEW entry \in 1 .. n, Wellmade("queue", was, n),
         entry \notin ToSet(was)
  PROVE  Follows("queue", Enqueue(was, entry), was, {entry}, {}, n)
<1> DEFINE N == Len(was)
           I == {i \in 1 .. N : Priority[was[i]] < Priority[entry]}
           below == IF I # {} THEN Min(I) ELSE 0
           k == IF I # {} THEN Min(I) ELSE N + 1
           data == Enqueue(was, entry)
<1>1. was \in Seq(1 .. n) /\ IsInjective(was) /\ Descending(was)
  BY DEF Wellmade
<1>2. N \in Nat /\ DOMAIN was = 1 .. N /\ \A i \in 1 .. N : was[i] \in 1 .. n
  BY <1>1, LenProperties
<1>3. \A i \in 1 .. n : Priority[i] \in Int
  <2>1. MaxOps \in Nat /\ Priority \in [1 .. MaxOps -> Int]
    BY StoresAssumption
  <2> QED BY <2>1
<1>4. SelectInSeq(was, LAMBDA q : Priority[q] < Priority[entry]) = below
  BY DEF SelectInSeq
<1>5. data = IF below = 0 THEN Append(was, entry) ELSE InsertAt(was, below, entry)
  BY <1>4 DEF Enqueue
<1>6. /\ k \in 1 .. N + 1
      /\ \A i \in 1 .. N : i < k => Priority[was[i]] >= Priority[entry]
      /\ k <= N => Priority[was[k]] < Priority[entry]
      /\ below = IF k = N + 1 THEN 0 ELSE k
  <2>1. I \in SUBSET (1 .. N)
    OBVIOUS
  <2>2. \A i \in 1 .. N : i \in I <=> Priority[was[i]] < Priority[entry]
    OBVIOUS
  <2>3. \A i \in 1 .. N : Priority[was[i]] \in Int /\ Priority[entry] \in Int
    BY <1>2, <1>3
  <2> HIDE DEF I
  <2>4. CASE I = {}
    <3>1. k = N + 1 /\ below = 0
      BY <2>4
    <3>2. \A i \in 1 .. N : Priority[was[i]] >= Priority[entry]
      BY <2>2, <2>3, <2>4
    <3> QED BY <1>2, <3>1, <3>2
  <2>5. CASE I # {}
    <3>1. Min(I) \in I /\ \A i \in I : Min(I) <= i
      BY <1>2, <2>1, <2>5, FirstSelected
    <3>2. k = Min(I) /\ below = k
      BY <2>5
    <3>3. k \in I /\ \A i \in I : k <= i
      BY <3>1, <3>2
    <3> HIDE DEF k, below
    <3>4. ASSUME NEW i \in 1 .. N, i < k PROVE Priority[was[i]] >= Priority[entry]
      <4>1. i \notin I
        BY <2>1, <3>3, <3>4
      <4> QED BY <2>2, <2>3, <4>1
    <3>5. k \in 1 .. N
      BY <2>1, <3>3
    <3> QED BY <1>2, <2>2, <3>2, <3>3, <3>4, <3>5
  <2> QED BY <2>4, <2>5
<1> HIDE DEF I, k, below
<1>7. /\ data \in Seq(1 .. n) /\ Len(data) = N + 1 /\ data[k] = entry
      /\ \A i \in 1 .. k - 1 : data[i] = was[i]
      /\ \A i \in k + 1 .. N + 1 : data[i] = was[i - 1]
  <2>1. CASE k = N + 1
    <3>1. data = Append(was, entry)
      BY <1>5, <1>6, <2>1
    <3> QED BY <1>1, <1>2, <2>1, <3>1
  <2>2. CASE k # N + 1
    <3>1. k # 0
      BY <1>2, <1>6
    <3>2. data = InsertAt(was, k, entry)
      BY <1>5, <1>6, <2>2, <3>1
    <3>3. k \in 1 .. Len(was) + 1
      BY <1>6
    <3> DEFINE t == InsertAt(was, k, entry)
    <3>4. /\ t \in Seq(1 .. n) /\ Len(t) = Len(was) + 1 /\ t[k] = entry
          /\ \A i \in 1 .. k - 1 : t[i] = was[i]
          /\ \A i \in k + 1 .. Len(was) + 1 : t[i] = was[i - 1]
      <4> DEFINE V == 1 .. n
      <4>1. was \in Seq(V) /\ entry \in V
        BY <1>1
      <4> HIDE DEF N, V
      <4>2. /\ t \in Seq(V) /\ Len(t) = Len(was) + 1 /\ t[k] = entry
            /\ \A i \in 1 .. k - 1 : t[i] = was[i]
            /\ \A i \in k + 1 .. Len(was) + 1 : t[i] = was[i - 1]
        BY <3>3, <4>1, InsertIs
      <4> QED BY <4>2 DEF V
    <3> HIDE DEF data, t
    <3>5. data = t
      BY <3>2 DEF t
    <3> QED BY <3>4, <3>5
  <2> QED BY <2>1, <2>2
<1> HIDE DEF data, N
<1> DEFINE old(i) == IF i < k THEN i ELSE i - 1
<1>8. DOMAIN data = 1 .. N + 1
  BY <1>2, <1>7
<1>9. ASSUME NEW i \in 1 .. N + 1, i # k
      PROVE  old(i) \in 1 .. N /\ data[i] = was[old(i)] /\ (i < k <=> old(i) < k)
  BY <1>2, <1>6, <1>7, <1>9
<1>10. \A i \in 1 .. N : was[i] # entry
  BY <1>2 DEF ToSet
<1>11. IsInjective(data)
  <2> SUFFICES ASSUME NEW i \in 1 .. N + 1, NEW j \in 1 .. N + 1, data[i] = data[j] PROVE i = j
    BY <1>8 DEF IsInjective
  <2>1. CASE i = k \/ j = k
    <3>1. ASSUME NEW m \in 1 .. N + 1, m # k PROVE data[m] # entry
      <4>1. old(m) \in 1 .. N /\ data[m] = was[old(m)]
        BY <1>9, <3>1
      <4> HIDE DEF old
      <4> QED BY <1>10, <4>1
    <3> QED BY <1>7, <2>1, <3>1
  <2>2. CASE i # k /\ j # k
    <3>1. old(i) \in 1 .. N /\ old(j) \in 1 .. N /\ was[old(i)] = was[old(j)]
          /\ (i < k <=> old(i) < k) /\ (j < k <=> old(j) < k)
      BY <1>9, <2>2
    <3>2. old(i) = old(j)
      <4> HIDE DEF old
      <4> QED BY <1>1, <1>2, <3>1 DEF IsInjective
    <3> QED BY <1>2, <1>6, <2>2, <3>1, <3>2
  <2> QED BY <2>1, <2>2
<1>12. Descending(data)
  <2> SUFFICES ASSUME NEW i \in 1 .. N + 1, NEW j \in 1 .. N + 1, i < j
               PROVE  Priority[data[i]] >= Priority[data[j]]
    BY <1>8 DEF Descending
  <2>0. \A m \in 1 .. N : Priority[was[m]] \in Int /\ Priority[entry] \in Int
    BY <1>2, <1>3
  <2>1. \A l, m \in 1 .. N : l <= m => Priority[was[l]] >= Priority[was[m]]
    <3> SUFFICES ASSUME NEW l \in 1 .. N, NEW m \in 1 .. N, l <= m
                 PROVE  Priority[was[l]] >= Priority[was[m]]
      OBVIOUS
    <3>1. CASE l = m
      BY <2>0, <3>1
    <3>2. CASE l < m
      BY <1>1, <1>2, <3>2 DEF Descending
    <3> QED BY <3>1, <3>2
  <2>2. CASE i = k
    <3>1. old(j) \in 1 .. N /\ data[j] = was[old(j)] /\ k <= old(j) /\ k <= N
      BY <1>2, <1>6, <1>9, <2>2
    <3>2. k \in 1 .. N
      BY <1>6, <3>1
    <3>3. Priority[was[k]] >= Priority[was[old(j)]]
      <4> HIDE DEF old
      <4> QED BY <2>1, <3>1, <3>2
    <3> QED BY <1>6, <1>7, <2>0, <2>2, <3>1, <3>2, <3>3
  <2>3. CASE j = k
    <3>1. old(i) = i /\ i \in 1 .. N /\ data[i] = was[i] /\ i < k
      BY <1>2, <1>6, <1>9, <2>3
    <3> QED BY <1>6, <1>7, <2>3, <3>1
  <2>4. CASE i # k /\ j # k
    <3>1. old(i) \in 1 .. N /\ old(j) \in 1 .. N /\ data[i] = was[old(i)] /\ data[j] = was[old(j)]
      BY <1>9, <2>4
    <3>2. old(i) <= old(j)
      BY <1>2, <1>6, <2>4
    <3> HIDE DEF old
    <3> QED BY <2>1, <3>1, <3>2
  <2> QED BY <2>2, <2>3, <2>4
<1>13. ToSet(data) = ToSet(was) \cup {entry}
  <2>1. ASSUME NEW i \in 1 .. N + 1 PROVE data[i] \in ToSet(was) \cup {entry}
    <3>1. CASE i = k
      BY <1>7, <3>1
    <3>2. CASE i # k
      <4>1. old(i) \in 1 .. N /\ data[i] = was[old(i)]
        BY <1>9, <3>2
      <4> HIDE DEF old
      <4> QED BY <1>2, <4>1 DEF ToSet
    <3> QED BY <3>1, <3>2
  <2>2. ASSUME NEW i \in 1 .. N PROVE \E j \in 1 .. N + 1 : data[j] = was[i]
    <3>1. CASE i < k
      <4>1. i \in 1 .. k - 1 /\ i \in 1 .. N + 1
        BY <1>2, <1>6, <3>1
      <4> QED BY <1>7, <4>1
    <3>2. CASE ~(i < k)
      <4>1. i + 1 \in k + 1 .. N + 1 /\ i + 1 \in 1 .. N + 1 /\ (i + 1) - 1 = i
        BY <1>2, <1>6, <3>2
      <4>2. data[i + 1] = was[i]
        BY <1>7, <4>1
      <4> QED BY <4>1, <4>2
    <3> QED BY <3>1, <3>2
  <2> HIDE DEF old
  <2>3. \A x \in ToSet(data) : x \in ToSet(was) \cup {entry}
    <3>1. \A x \in ToSet(data) : \E i \in 1 .. N + 1 : x = data[i]
      BY <1>8 DEF ToSet
    <3> QED BY <2>1, <3>1
  <2>4. \A x \in ToSet(was) : x \in ToSet(data)
    <3>1. \A x \in ToSet(was) : \E i \in 1 .. N : x = was[i]
      BY <1>2 DEF ToSet
    <3>2. \A j \in 1 .. N + 1 : data[j] \in ToSet(data)
      BY <1>8 DEF ToSet
    <3> QED BY <2>2, <3>1, <3>2
  <2>5. entry \in ToSet(data)
    BY <1>6, <1>7, <1>8 DEF ToSet
  <2> QED BY <2>3, <2>4, <2>5
<1>14. \A d : Told("queue", d) = ToSet(d)
  BY DEF Told
<1> QED BY <1>7, <1>11, <1>12, <1>13, <1>14 DEF Follows, Wellmade, data

LEMMA PopFollows ==
  ASSUME NEW n \in 1 .. MaxOps, NEW was, Wellmade("queue", was, n), was # <<>>
  PROVE  Follows("queue", Tail(was), was, {}, {Head(was)}, n)
<1> DEFINE N == Len(was)
           data == Tail(was)
<1>1. was \in Seq(1 .. n) /\ IsInjective(was) /\ Descending(was)
  BY DEF Wellmade
<1>2. N \in Nat /\ N >= 1 /\ DOMAIN was = 1 .. N /\ Head(was) = was[1]
  BY <1>1, LenProperties
<1>3. /\ data \in Seq(1 .. n) /\ Len(data) = N - 1 /\ DOMAIN data = 1 .. N - 1
      /\ \A i \in 1 .. N - 1 : data[i] = was[i + 1] /\ i + 1 \in 1 .. N
  BY <1>1, <1>2
<1> HIDE DEF N, data
<1>4. \A i, j \in 1 .. N - 1 : i + 1 = j + 1 => i = j
  BY <1>2
<1>5. IsInjective(data)
  <2> SUFFICES ASSUME NEW i \in 1 .. N - 1, NEW j \in 1 .. N - 1, data[i] = data[j] PROVE i = j
    BY <1>3 DEF IsInjective
  <2>1. i + 1 \in 1 .. N /\ j + 1 \in 1 .. N /\ was[i + 1] = was[j + 1]
    BY <1>3
  <2>2. i + 1 = j + 1
    BY <1>1, <1>2, <2>1 DEF IsInjective
  <2> QED BY <1>4, <2>2
<1>6. Descending(data)
  <2> SUFFICES ASSUME NEW i \in 1 .. N - 1, NEW j \in 1 .. N - 1, i < j
               PROVE  Priority[data[i]] >= Priority[data[j]]
    BY <1>3 DEF Descending
  <2>1. i + 1 < j + 1 /\ i + 1 \in 1 .. N /\ j + 1 \in 1 .. N
    BY <1>2
  <2> QED BY <1>1, <1>2, <1>3, <2>1 DEF Descending
<1>7. ToSet(data) = ToSet(was) \ {Head(was)}
  <2>1. ASSUME NEW i \in 1 .. N - 1 PROVE data[i] \in ToSet(was) /\ data[i] # Head(was)
    <3>1. data[i] = was[i + 1] /\ i + 1 \in 1 .. N /\ 1 \in 1 .. N /\ i + 1 # 1
      BY <1>2, <1>3
    <3> QED BY <1>1, <1>2, <3>1 DEF ToSet, IsInjective
  <2>2. ASSUME NEW i \in 1 .. N, was[i] # Head(was) PROVE was[i] \in ToSet(data)
    <3>1. i # 1
      BY <1>2, <2>2
    <3>2. i - 1 \in 1 .. N - 1 /\ (i - 1) + 1 = i
      BY <1>2, <3>1
    <3>3. data[i - 1] = was[i]
      BY <1>3, <3>2
    <3> QED BY <1>3, <3>2, <3>3 DEF ToSet
  <2>3. \A x : x \in ToSet(data) <=> \E i \in 1 .. N - 1 : x = data[i]
    BY <1>3 DEF ToSet
  <2>4. \A x : x \in ToSet(was) <=> \E i \in 1 .. N : x = was[i]
    BY <1>2 DEF ToSet
  <2> QED BY <2>1, <2>2, <2>3, <2>4
<1>8. \A d : Told("queue", d) = ToSet(d)
  BY DEF Told
<1> QED BY <1>3, <1>5, <1>6, <1>7, <1>8 DEF Follows, Wellmade, data

LEMMA PersistFollows ==
  ASSUME NEW n, NEW was, NEW job \in Jobs, Wellmade("jobs", was, n)
  PROVE  Follows("jobs", Persist(was, job), was, {job}, {j \in ToSet(was) : j.entry = job.entry /\ j # job}, n)
<1> DEFINE N == Len(was)
           I == {i \in 1 .. N : was[i].entry = job.entry}
           hit == IF I # {} THEN Min(I) ELSE 0
           data == Persist(was, job)
           takes == {j \in ToSet(was) : j.entry = job.entry /\ j # job}
<1>1. was \in Seq(Jobs) /\ EntriesApart(was)
  BY DEF Wellmade
<1>2. N \in Nat /\ DOMAIN was = 1 .. N /\ \A i \in 1 .. N : was[i] \in Jobs
  BY <1>1, LenProperties
<1>3. SelectInSeq(was, LAMBDA j : j.entry = job.entry) = hit
  BY DEF SelectInSeq
<1>4. data = IF hit = 0 THEN Append(was, job) ELSE [was EXCEPT ![hit] = job]
  BY <1>3 DEF Persist
<1>5. \A d : Told("jobs", d) = ToSet(d)
  BY DEF Told
<1>6. \A i \in 1 .. N : i \in I <=> was[i].entry = job.entry
  OBVIOUS
<1>7. I \in SUBSET (1 .. N)
  OBVIOUS
<1>8. \A x : x \in takes <=> \E i \in 1 .. N : x = was[i] /\ x.entry = job.entry /\ x # job
  BY <1>2 DEF ToSet
<1>9. \A x : x \in ToSet(was) <=> \E i \in 1 .. N : x = was[i]
  BY <1>2 DEF ToSet
<1> HIDE DEF I, data, takes
<1>10. CASE I = {}
  <2>1. data = Append(was, job)
    BY <1>4, <1>10
  <2>2. /\ data \in Seq(Jobs) /\ DOMAIN data = 1 .. N + 1 /\ data[N + 1] = job
        /\ \A i \in 1 .. N : data[i] = was[i]
    BY <1>1, <1>2, <2>1
  <2>3. \A i \in 1 .. N : was[i].entry # job.entry
    BY <1>6, <1>10
  <2> HIDE DEF N
  <2>4. EntriesApart(data)
    <3> SUFFICES ASSUME NEW i \in 1 .. N + 1, NEW j \in 1 .. N + 1, data[i].entry = data[j].entry PROVE i = j
      BY <2>2 DEF EntriesApart
    <3>1. \A m \in 1 .. N + 1 : m = N + 1 \/ m \in 1 .. N
      BY <1>2
    <3>2. CASE i \in 1 .. N /\ j \in 1 .. N
      BY <1>1, <1>2, <2>2, <3>2 DEF EntriesApart
    <3>3. CASE i = N + 1 /\ j \in 1 .. N
      BY <2>2, <2>3, <3>3
    <3>4. CASE i \in 1 .. N /\ j = N + 1
      BY <2>2, <2>3, <3>4
    <3> QED BY <3>1, <3>2, <3>3, <3>4
  <2>5. \A x : x \in ToSet(data) <=> x \in ToSet(was) \/ x = job
    <3>1. \A m \in 1 .. N + 1 : m = N + 1 \/ m \in 1 .. N
      BY <1>2
    <3>2. N + 1 \in 1 .. N + 1 /\ \A i \in 1 .. N : i \in 1 .. N + 1
      BY <1>2
    <3>3. \A x : x \in ToSet(data) <=> \E i \in 1 .. N + 1 : x = data[i]
      BY <2>2 DEF ToSet
    <3> QED BY <1>9, <2>2, <3>1, <3>2, <3>3
  <2>6. takes = {}
    BY <1>8, <2>3
  <2> QED BY <1>5, <2>2, <2>4, <2>5, <2>6 DEF Follows, Wellmade, data, takes
<1>11. CASE I # {}
  <2>1. Min(I) \in I /\ Min(I) # 0
    BY <1>2, <1>7, <1>11, FirstSelected
  <2> DEFINE k == Min(I)
  <2>2. data = [was EXCEPT ![k] = job]
    BY <1>4, <1>11, <2>1
  <2>3. k \in 1 .. N /\ was[k].entry = job.entry
    BY <1>6, <1>7, <2>1
  <2> HIDE DEF k, hit, N
  <2>4. /\ data \in Seq(Jobs) /\ DOMAIN data = 1 .. N /\ data[k] = job
        /\ \A i \in 1 .. N : i # k => data[i] = was[i]
    BY <1>1, <1>2, <2>2, <2>3
  <2>5. \A i \in 1 .. N : data[i].entry = was[i].entry
    BY <2>3, <2>4
  <2>6. EntriesApart(data)
    BY <1>1, <1>2, <2>4, <2>5 DEF EntriesApart
  <2>7. \A i \in 1 .. N : was[i].entry = job.entry => i = k
    BY <1>1, <1>2, <2>3 DEF EntriesApart
  <2>8. \A x : x \in ToSet(data) <=> \E i \in 1 .. N : x = data[i]
    BY <2>4 DEF ToSet
  <2>9. job \in ToSet(data)
    BY <2>3, <2>4, <2>8
  <2>10. ASSUME NEW x \in ToSet(was), x \notin takes PROVE x \in ToSet(data)
    <3>1. PICK i \in 1 .. N : x = was[i]
      BY <1>9, <2>10
    <3>2. CASE i = k
      BY <1>8, <2>3, <2>9, <2>10, <3>1, <3>2
    <3>3. CASE i # k
      BY <2>4, <2>8, <3>1, <3>3
    <3> QED BY <3>2, <3>3
  <2>11. ASSUME NEW x \in ToSet(data) PROVE (x \in ToSet(was) \/ x = job) /\ x \notin takes
    <3>1. PICK i \in 1 .. N : x = data[i]
      BY <2>8, <2>11
    <3>2. CASE i = k
      BY <1>8, <2>4, <3>1, <3>2
    <3>3. CASE i # k
      BY <1>8, <1>9, <2>4, <2>7, <3>1, <3>3
    <3> QED BY <3>2, <3>3
  <2> QED BY <1>5, <2>4, <2>6, <2>9, <2>10, <2>11 DEF Follows, Wellmade, data, takes
<1> QED BY <1>10, <1>11

LEMMA RecordFollows ==
  ASSUME NEW n, NEW was, NEW entry \in 1 .. n, Wellmade("ledger", was, n)
  PROVE  Follows("ledger", Append(was, entry), was, {entry}, {}, n)
<1> DEFINE N == Len(was)
           data == Append(was, entry)
<1>1. was \in Seq(1 .. n)
  BY DEF Wellmade
<1>2. /\ N \in Nat /\ DOMAIN was = 1 .. N /\ data \in Seq(1 .. n) /\ DOMAIN data = 1 .. N + 1
      /\ data[N + 1] = entry /\ \A i \in 1 .. N : data[i] = was[i]
  BY <1>1
<1> HIDE DEF data, N
<1>3. \A x : x \in ToSet(data) <=> x \in ToSet(was) \/ x = entry
  <2>1. \A m \in 1 .. N + 1 : m = N + 1 \/ m \in 1 .. N
    BY <1>2
  <2>2. N + 1 \in 1 .. N + 1 /\ \A i \in 1 .. N : i \in 1 .. N + 1
    BY <1>2
  <2>3. \A x : x \in ToSet(data) <=> \E i \in 1 .. N + 1 : x = data[i]
    BY <1>2 DEF ToSet
  <2>4. \A x : x \in ToSet(was) <=> \E i \in 1 .. N : x = was[i]
    BY <1>2 DEF ToSet
  <2> QED BY <1>2, <2>1, <2>2, <2>3, <2>4
<1>4. \A d : Told("ledger", d) = ToSet(d)
  BY DEF Told
<1> QED BY <1>2, <1>3, <1>4 DEF Follows, Wellmade, data

\* What an operation writes tells what was seen, with what it puts there and without what it
\* takes away, and is what such a file may hold.
LEMMA AfterFollows ==
  ASSUME NEW n \in 1 .. MaxOps, NEW r, RequestIs(r, n), NEW was, SeenIs(r, was, n),
         NEW id \in Nat, NEW data \in After(r, was, id)
  PROVE  Follows(FileOf[r.op], data, was, Puts(r), Takes(r, was), n)
<1>0. /\ r.op \in DOMAIN FileOf /\ Wellmade(FileOf[r.op], was, n) /\ Writes(r, was)
      /\ r.op \in {"register", "setStatus"} => r.of \in Paths
      /\ r.op \in {"enqueue", "record"} => r.of \in 1 .. n
      /\ r.op = "persist" => r.of \in Jobs
      /\ r.op = "enqueue" => r.of \notin ToSet(was)
      /\ r.op = "create" => was = {}
  BY DEF RequestIs, SeenIs
<1>1. CASE r.op = "register"
  <2>1. data = Register(was, r.of, id) /\ Puts(r) = {r.of} /\ Takes(r, was) = {}
    BY <1>1 DEF After, Puts, Takes
  <2> QED BY <1>0, <1>1, <2>1, FilesAre, RegisterFollows
<1>2. CASE r.op = "setActive"
  <2>1. data = SetActive(was, r.of) /\ Puts(r) = {} /\ Takes(r, was) = {} /\ AllMatches(was, r.of) # {}
    BY <1>0, <1>2 DEF After, Puts, Takes, Writes
  <2> QED BY <1>0, <1>2, <2>1, FilesAre, SetActiveFollows
<1>3. CASE r.op = "setStatus"
  <2>1. data \in SetStatus(was, r.of) /\ Puts(r) = {} /\ Takes(r, was) = {} /\ AllMatches(was, r.of) # {}
    BY <1>0, <1>3 DEF After, Puts, Takes, Writes
  <2> QED BY <1>0, <1>3, <2>1, FilesAre, SetStatusFollows
<1>4. CASE r.op = "remove"
  <2>1. /\ data = RemoveProject(was, r.of) /\ Puts(r) = {}
        /\ Takes(r, was) = {p.path : p \in AllMatches(was, r.of)}
    BY <1>4 DEF After, Puts, Takes
  <2> QED BY <1>0, <1>4, <2>1, FilesAre, RemoveFollows
<1>5. CASE r.op = "enqueue"
  <2>1. data = Enqueue(was, r.of) /\ Puts(r) = {r.of} /\ Takes(r, was) = {}
    BY <1>5 DEF After, Puts, Takes
  <2> QED BY <1>0, <1>5, <2>1, FilesAre, EnqueueFollows
<1>6. CASE r.op = "pop"
  <2>1. data = Tail(was) /\ Puts(r) = {} /\ Takes(r, was) = {Head(was)} /\ was # <<>>
    BY <1>0, <1>6 DEF After, Puts, Takes, Writes
  <2> QED BY <1>0, <1>6, <2>1, FilesAre, PopFollows
<1>7. CASE r.op = "persist"
  <2>1. /\ data = Persist(was, r.of) /\ Puts(r) = {r.of}
        /\ Takes(r, was) = {j \in ToSet(was) : j.entry = r.of.entry /\ j # r.of}
    BY <1>7 DEF After, Puts, Takes
  <2> QED BY <1>0, <1>7, <2>1, FilesAre, PersistFollows
<1>8. CASE r.op \in {"create", "update"}
  <2>1. Puts(r) = {r.of} /\ Takes(r, was) = {} /\ data = was \cup {r.of}
    BY <1>0, <1>8 DEF After, Puts, Takes, Update
  <2>2. FileOf[r.op] = "session"
    BY <1>8, FilesAre
  <2>3. \A d : Told("session", d) = d
    BY DEF Told
  <2>4. n # 0
    OBVIOUS
  <2> QED BY <2>1, <2>2, <2>3, <2>4 DEF Follows, Wellmade
<1>9. CASE r.op = "record"
  <2>1. data = Append(was, r.of) /\ Puts(r) = {r.of} /\ Takes(r, was) = {}
    BY <1>9 DEF After, Puts, Takes
  <2> QED BY <1>0, <1>9, <2>1, FilesAre, RecordFollows
<1> QED BY <1>0, <1>1, <1>2, <1>3, <1>4, <1>5, <1>6, <1>7, <1>8, <1>9, FilesAre

-----------------------------------------------------------------------------
(* The stores. *)

Steps == {"loaded", "writing", "overwriting"}

\* Of what the operations put into f and took from it, data tells nothing else than changed.
Knows(puts, takes, changed, f, data) ==
  puts[f] \ changed \subseteq Told(f, data) /\ (takes[f] \ changed) \cap Told(f, data) = {}

\* An operation under way knows all of the file but what others have changed since.
UnderWay(d, n, puts, takes) ==
  /\ d = [step |-> d.step, request |-> d.request, seen |-> d.seen, id |-> d.id, changed |-> d.changed]
  /\ d.step \in Steps /\ d.id \in Nat
  /\ RequestIs(d.request, n) /\ SeenIs(d.request, d.seen, n)
  /\ Knows(puts, takes, d.changed, FileOf[d.request.op], d.seen)

DoingIs(d, n, puts, takes) ==
  \/ d = Idle
  \/ /\ n > 0 /\ d = [step |-> "job", request |-> d.request]
     /\ RequestIs(d.request, n) /\ d.request.op = "persist"
  \/ n > 0 /\ UnderWay(d, n, puts, takes)

FilesWell(fs, unreadable, n, puts, takes) ==
  \A f \in FileNames : Wellmade(f, fs[f], n) /\ (f \notin unreadable => Knows(puts, takes, {}, f, fs[f]))

KeepInv ==
  /\ begun \in 0 .. MaxOps
  /\ files = [f \in FileNames |-> files[f]]
  /\ kept = [f \in FileNames |-> kept[f]] /\ gone = [f \in FileNames |-> gone[f]]
  /\ doing = [c \in Clients |-> doing[c]]
  /\ FilesWell(files, torn, begun, kept, gone)
  /\ \A c \in Clients : DoingIs(doing[c], begun, kept, gone)

LEMMA WellStays ==
  ASSUME NEW f, NEW data, NEW n \in Nat, NEW m \in Nat, n <= m, Wellmade(f, data, n)
  PROVE  Wellmade(f, data, m)
<1>1. \A s : s \in Seq(1 .. n) => s \in Seq(1 .. m)
  <2> SUFFICES ASSUME NEW s \in Seq(1 .. n) PROVE s \in Seq(1 .. m)
    OBVIOUS
  <2>1. s \in [1 .. Len(s) -> 1 .. n] /\ Len(s) \in Nat
    BY LenProperties
  <2>2. s \in [1 .. Len(s) -> 1 .. m]
    BY <2>1
  <2> QED BY <2>1, <2>2
<1>2. m = 0 => n = 0
  OBVIOUS
<1> QED BY <1>1, <1>2 DEF Wellmade

LEMMA DoingStays ==
  ASSUME NEW d, NEW n \in Nat, NEW puts, NEW takes, DoingIs(d, n, puts, takes)
  PROVE  DoingIs(d, n + 1, puts, takes)
<1>1. n + 1 \in Nat /\ n <= n + 1 /\ n + 1 > 0
  OBVIOUS
<1>2. \A r : RequestIs(r, n) => RequestIs(r, n + 1)
  BY DEF RequestIs
<1>3. \A r, was : SeenIs(r, was, n) => SeenIs(r, was, n + 1)
  BY <1>1, WellStays DEF SeenIs
<1> QED BY <1>1, <1>2, <1>3 DEF DoingIs, UnderWay

\* A file that is missing or unreadable tells nothing.
LEMMA BlankIs ==
  ASSUME NEW f \in FileNames, NEW n
  PROVE  Wellmade(f, Blank(f), n) /\ Told(f, Blank(f)) = {}
<1>1. <<>> \in Seq(Projects) /\ <<>> \in Seq(Jobs) /\ <<>> \in Seq(1 .. n) /\ DOMAIN <<>> = {}
  OBVIOUS
<1>2. ToSet(<<>>) = {}
  BY <1>1 DEF ToSet
<1>3. CASE f = "registry"
  <2> DEFINE none == [projects |-> <<>>, active |-> 0]
  <2>1. Blank(f) = none
    BY <1>3 DEF Blank
  <2>2. none.projects = <<>> /\ none \in Registries
    BY <1>1 DEF Registries
  <2> HIDE DEF none
  <2>3. PathsApart(none.projects)
    BY <1>1, <2>2 DEF PathsApart
  <2>4. Told(f, none) = {p.path : p \in ToSet(none.projects)}
    BY <1>3 DEF Told
  <2>5. Told(f, none) = {}
    BY <1>2, <2>2, <2>4
  <2> QED BY <1>3, <2>1, <2>2, <2>3, <2>5 DEF Wellmade
<1>4. CASE f = "session"
  <2>1. Blank(f) = {}
    BY <1>4 DEF Blank
  <2> QED BY <1>4, <2>1 DEF Wellmade, Told
<1>5. CASE f \in {"jobs", "queue", "ledger"}
  <2>1. Blank(f) = <<>>
    BY <1>5 DEF Blank
  <2>2. Told(f, <<>>) = {}
    BY <1>2, <1>5 DEF Told
  <2>3. EntriesApart(<<>>) /\ IsInjective(<<>>) /\ Descending(<<>>)
    BY <1>1 DEF EntriesApart, IsInjective, Descending
  <2> QED BY <1>1, <1>5, <2>1, <2>2, <2>3 DEF Wellmade
<1> QED BY <1>3, <1>4, <1>5, FilesAre

\* A load, for a request that is in order, of the file as it is or as it counts when it is torn.
LEMMA LoadKnows ==
  ASSUME KeepInv, NEW n \in Nat, n > 0, begun <= n, NEW c \in Clients, NEW r, RequestIs(r, n), Load(c, r),
         r.op = "enqueue" => r.of > begun,
         r.op = "create" => begun = 0
  PROVE  /\ doing' = [doing EXCEPT ![c] = doing'[c]] /\ DoingIs(doing'[c], n, kept, gone)
         /\ UNCHANGED <<files, torn, kept, gone>>
<1> DEFINE f == FileOf[r.op]
           data == IF f \in torn THEN Blank(f) ELSE files[f]
           changed == IF f \in torn THEN kept[f] ELSE {}
           d == [step |-> "loaded", request |-> r, seen |-> data, id |-> begun + 1, changed |-> changed]
<1>1. /\ doing' = [doing EXCEPT ![c] = IF Writes(r, data) THEN d ELSE Idle]
      /\ UNCHANGED <<files, torn, kept, gone>>
  BY DEF Load
<1>2. f \in FileNames /\ r.op \in DOMAIN FileOf
  BY DEF RequestIs, FileNames
<1>3. Wellmade(f, data, begun) /\ Knows(kept, gone, changed, f, data)
  <2>1. CASE f \in torn
    <3>1. data = Blank(f) /\ changed = kept[f]
      BY <2>1
    <3>2. Wellmade(f, Blank(f), begun) /\ Told(f, Blank(f)) = {}
      BY <1>2, BlankIs
    <3> HIDE DEF data, changed, f
    <3> QED BY <3>1, <3>2 DEF Knows
  <2>2. CASE f \notin torn
    BY <1>2, <2>2 DEF KeepInv, FilesWell
  <2> QED BY <2>1, <2>2
<1>4. begun \in Nat /\ begun + 1 \in Nat
  BY StoresAssumption DEF KeepInv
<1>5. Wellmade(f, data, n)
  <2> HIDE DEF data, f
  <2> QED BY <1>3, <1>4, WellStays
<1>6. r.op = "create" => data = {}
  <2> SUFFICES ASSUME r.op = "create" PROVE data = {}
    OBVIOUS
  <2>1. f = "session" /\ begun = 0
    BY FilesAre
  <2> QED BY <1>3, <2>1 DEF Wellmade
<1>7. r.op = "enqueue" => r.of \notin ToSet(data)
  <2> SUFFICES ASSUME r.op = "enqueue" PROVE r.of \notin ToSet(data)
    OBVIOUS
  <2>1. f = "queue"
    BY FilesAre
  <2>2. data \in Seq(1 .. begun) /\ r.of > begun /\ r.of \in 1 .. n
    BY <1>3, <2>1 DEF Wellmade, RequestIs
  <2> HIDE DEF data
  <2>3. \A i \in DOMAIN data : data[i] \in 1 .. begun
    <3> DEFINE V == 1 .. begun
    <3>1. data \in Seq(V)
      BY <2>2
    <3> HIDE DEF V
    <3>2. \A i \in DOMAIN data : data[i] \in V
      BY <3>1, LenProperties
    <3> QED BY <3>2 DEF V
  <2>4. r.of \notin 1 .. begun
    BY <1>4, <2>2
  <2> QED BY <2>3, <2>4 DEF ToSet
<1> HIDE DEF data, changed, f
<1>8. CASE Writes(r, data)
  <2>1. doing' = [doing EXCEPT ![c] = d]
    BY <1>1, <1>8
  <2>2. SeenIs(r, data, n)
    BY <1>5, <1>6, <1>7, <1>8 DEF SeenIs, f
  <2>3. UnderWay(d, n, kept, gone)
    BY <1>3, <1>4, <2>2 DEF UnderWay, Steps, f
  <2> HIDE DEF d
  <2>4. doing'[c] = d
    BY <2>1 DEF KeepInv
  <2> QED BY <1>1, <2>1, <2>3, <2>4 DEF DoingIs
<1>9. CASE ~Writes(r, data)
  <2>1. doing' = [doing EXCEPT ![c] = Idle]
    BY <1>1, <1>9
  <2>2. doing'[c] = Idle
    BY <2>1 DEF KeepInv
  <2> QED BY <1>1, <2>1, <2>2 DEF DoingIs
<1> QED BY <1>8, <1>9

LEMMA RequestsAre ==
  ASSUME NEW r \in Requests
  PROVE  /\ r = [op |-> r.op, of |-> r.of] /\ r.op \in DOMAIN FileOf
         /\ r.op \in {"register", "setStatus"} => r.of \in Paths
         /\ r.op # "persist"
         /\ r.op = "create" => store = "session"
<1>1. ASSUME NEW op \in DOMAIN FileOf, NEW of, r = Request(op, of) PROVE r = [op |-> r.op, of |-> r.of] /\ r.op = op /\ r.of = of
  BY <1>1 DEF Request
<1>2. CASE store = "projects"
  <2>1. r \in ProjectRequests
    BY <1>2 DEF Requests
  <2>2. PICK op \in {"register", "setActive", "remove", "setStatus"} : \E of :
          r = Request(op, of) /\ (op \in {"register", "setStatus"} => of \in Paths)
    BY <2>1 DEF ProjectRequests
  <2> QED BY <1>1, <2>2, FilesAre
<1>3. CASE store = "research"
  <2>1. r \in ResearchRequests
    BY <1>3 DEF Requests
  <2>2. PICK op \in {"enqueue", "pop"} : \E of : r = Request(op, of)
    BY <2>1 DEF ResearchRequests
  <2> QED BY <1>1, <2>2, FilesAre
<1>4. CASE store = "session"
  <2>1. r \in SessionRequests
    BY <1>4 DEF Requests
  <2>2. PICK op \in {"create", "update"} : \E of : r = Request(op, of)
    BY <2>1 DEF SessionRequests
  <2> QED BY <1>1, <1>4, <2>2, FilesAre
<1>5. CASE store \notin {"projects", "research", "session"}
  <2>1. r \in LedgerRequests
    BY <1>5 DEF Requests
  <2>2. PICK of : r = Request("record", of)
    BY <2>1 DEF LedgerRequests
  <2> QED BY <1>1, <2>2, FilesAre
<1> QED BY <1>2, <1>3, <1>4, <1>5

LEMMA BeginKeeps ==
  ASSUME KeepInv, NEW c \in Clients, Begin(c)
  PROVE  KeepInv'
<1>1. PICK r \in Requests : Fresh1(r) /\ Load(c, r)
  BY DEF Begin
<1>2. begun < MaxOps /\ begun' = begun + 1
  BY DEF Begin
<1>3. begun \in Nat /\ MaxOps \in Nat /\ begun + 1 \in 1 .. MaxOps /\ begun + 1 > 0
  BY <1>2, StoresAssumption DEF KeepInv
<1>4. RequestIs(r, begun + 1) /\ (r.op = "enqueue" => r.of > begun) /\ (r.op = "create" => begun = 0)
  <2>1. r.op \in {"enqueue", "record"} => r.of = begun + 1
    BY <1>1 DEF Fresh1
  <2>2. /\ r = [op |-> r.op, of |-> r.of] /\ r.op \in DOMAIN FileOf
        /\ r.op \in {"register", "setStatus"} => r.of \in Paths
        /\ r.op # "persist"
        /\ r.op = "create" => store = "session"
    BY RequestsAre
  <2>3. r.op = "create" => begun = 0
    BY <1>1, <2>2 DEF Fresh1
  <2> QED BY <1>3, <2>1, <2>2, <2>3 DEF RequestIs
<1>5. /\ doing' = [doing EXCEPT ![c] = doing'[c]] /\ DoingIs(doing'[c], begun + 1, kept, gone)
      /\ UNCHANGED <<files, torn, kept, gone>>
  <2>1. begun + 1 \in Nat /\ begun <= begun + 1
    BY <1>3
  <2> QED BY <1>1, <1>3, <1>4, <2>1, LoadKnows
<1>6. \A d \in Clients : DoingIs(doing'[d], begun + 1, kept, gone)
  <2> SUFFICES ASSUME NEW d \in Clients PROVE DoingIs(doing'[d], begun + 1, kept, gone)
    OBVIOUS
  <2>1. CASE d = c
    BY <1>5, <2>1
  <2>2. CASE d # c
    <3>1. doing'[d] = doing[d]
      BY <1>5, <2>2 DEF KeepInv
    <3>2. DoingIs(doing[d], begun, kept, gone)
      BY DEF KeepInv
    <3> QED BY <1>3, <3>1, <3>2, DoingStays
  <2> QED BY <2>1, <2>2
<1>7. FilesWell(files, torn, begun + 1, kept, gone)
  <2>1. \A f \in FileNames : Wellmade(f, files[f], begun)
    BY DEF KeepInv, FilesWell
  <2>2. \A f \in FileNames : Wellmade(f, files[f], begun + 1)
    BY <1>3, <2>1, WellStays
  <2> QED BY <2>2 DEF KeepInv, FilesWell
<1>8. doing' = [d \in Clients |-> doing'[d]]
  BY <1>5 DEF KeepInv
<1> QED BY <1>2, <1>3, <1>5, <1>6, <1>7, <1>8 DEF KeepInv

LEMMA ContinueKeeps ==
  ASSUME KeepInv, NEW c \in Clients, Continue(c)
  PROVE  KeepInv'
<1> DEFINE r == doing[c].request
<1>1. doing[c].step = "job" /\ Load(c, r) /\ begun' = begun
  BY DEF Continue
<1>2. begun > 0 /\ RequestIs(r, begun) /\ r.op = "persist" /\ begun \in Nat
  <2>1. DoingIs(doing[c], begun, kept, gone)
    BY DEF KeepInv
  <2>2. doing[c] # Idle
    BY <1>1 DEF Idle
  <2>3. ~UnderWay(doing[c], begun, kept, gone)
    BY <1>1 DEF UnderWay, Steps
  <2> QED BY <2>1, <2>2, <2>3, StoresAssumption DEF DoingIs, KeepInv
<1> HIDE DEF r
<1>3. /\ doing' = [doing EXCEPT ![c] = doing'[c]] /\ DoingIs(doing'[c], begun, kept, gone)
      /\ UNCHANGED <<files, torn, kept, gone>>
  <2>1. begun <= begun
    BY <1>2
  <2> QED BY <1>1, <1>2, <2>1, LoadKnows
<1>4. /\ doing' = [d \in Clients |-> doing'[d]]
      /\ \A d \in Clients : DoingIs(doing'[d], begun, kept, gone)
  BY <1>3 DEF KeepInv
<1> QED BY <1>1, <1>3, <1>4 DEF KeepInv

LEMMA TruncateKeeps ==
  ASSUME KeepInv, NEW c \in Clients, Truncate(c)
  PROVE  KeepInv'
<1> DEFINE me == doing[c]
           next == [me EXCEPT !.step = "writing"]
<1>1. me.step = "loaded" /\ doing' = [doing EXCEPT ![c] = next] /\ torn \subseteq torn'
      /\ UNCHANGED <<files, begun, kept, gone>>
  BY DEF Truncate
<1>2. DoingIs(me, begun, kept, gone)
  BY DEF KeepInv
<1> HIDE DEF me
<1>3. begun > 0 /\ UnderWay(me, begun, kept, gone)
  BY <1>1, <1>2 DEF DoingIs, Idle
<1>4. UnderWay(next, begun, kept, gone)
  <2>1. me = [step |-> me.step, request |-> me.request, seen |-> me.seen, id |-> me.id, changed |-> me.changed]
    BY <1>3 DEF UnderWay
  <2>2. next = [step |-> "writing", request |-> me.request, seen |-> me.seen, id |-> me.id, changed |-> me.changed]
    BY <2>1
  <2> HIDE DEF next
  <2> QED BY <1>3, <2>2 DEF UnderWay, Steps
<1> HIDE DEF next
<1>5. /\ doing' = [d \in Clients |-> doing'[d]]
      /\ \A d \in Clients : DoingIs(doing'[d], begun, kept, gone)
  <2>1. DoingIs(next, begun, kept, gone)
    BY <1>3, <1>4 DEF DoingIs
  <2> QED BY <1>1, <2>1 DEF KeepInv
<1>6. FilesWell(files, torn', begun, kept, gone)
  BY <1>1 DEF KeepInv, FilesWell
<1> QED BY <1>1, <1>5, <1>6 DEF KeepInv

\* The pass goes on with a job whose entry was queued.
LEMMA FollowIs ==
  ASSUME NEW c \in Clients, begun \in 1 .. MaxOps, UnderWay(doing[c], begun, kept, gone), NEW next \in Follow(c)
  PROVE  DoingIs(next, begun, kept, gone)
<1> DEFINE r == doing[c].request
           was == doing[c].seen
           Job(entry, status) == [step |-> "job", request |-> Request("persist", [entry |-> entry, status |-> status])]
<1>1. RequestIs(r, begun) /\ SeenIs(r, was, begun)
  BY DEF UnderWay
<1>2. begun \in Nat /\ begun > 0 /\ \A e \in 1 .. begun : e \in 1 .. MaxOps
  BY StoresAssumption
<1>3. /\ r.op = "pop" => next = Job(Head(was), "running")
      /\ r.op = "persist" => \/ next \in {Job(r.of.entry, "done"), Job(r.of.entry, "failed")}
                             \/ next = Idle
      /\ r.op \notin {"pop", "persist"} => next = Idle
  BY DEF Follow
<1>4. ASSUME NEW entry \in 1 .. MaxOps, NEW status \in Statuses, next = Job(entry, status)
      PROVE  DoingIs(next, begun, kept, gone)
  <2> DEFINE job == [entry |-> entry, status |-> status]
             q == Request("persist", job)
  <2>1. job \in Jobs
    BY DEF Jobs
  <2> HIDE DEF job
  <2>2. q = [op |-> q.op, of |-> q.of] /\ q.op = "persist" /\ q.of = job
    BY DEF Request
  <2>3. next = [step |-> "job", request |-> q]
    BY <1>4 DEF job
  <2> HIDE DEF q, Job
  <2>4. RequestIs(q, begun)
    BY <2>1, <2>2, FilesAre DEF RequestIs
  <2>5. next.request = q
    BY <2>3
  <2> QED BY <1>2, <2>2, <2>3, <2>4, <2>5 DEF DoingIs
<1> HIDE DEF Job, r, was
<1>5. CASE r.op = "pop"
  <2>1. was \in Seq(1 .. begun) /\ was # <<>>
    BY <1>1, <1>5, FilesAre DEF SeenIs, Wellmade, Writes
  <2>2. Head(was) \in 1 .. begun
    BY <2>1
  <2> QED BY <1>2, <1>3, <1>4, <1>5, <2>2 DEF Statuses
<1>6. CASE r.op = "persist"
  <2>1. r.of.entry \in 1 .. MaxOps
    BY <1>1, <1>6 DEF RequestIs, Jobs
  <2>2. "done" \in Statuses /\ "failed" \in Statuses
    BY DEF Statuses
  <2> QED BY <1>3, <1>4, <1>6, <2>1, <2>2 DEF DoingIs
<1>7. CASE r.op \notin {"pop", "persist"}
  BY <1>3, <1>7 DEF DoingIs
<1> QED BY <1>5, <1>6, <1>7

Informed(d, f, items) ==
  IF d.step \in Steps /\ FileOf[d.request.op] = f
  THEN [d EXCEPT !.changed = @ \cup items, !.step = IF @ = "writing" THEN "overwriting" ELSE @]
  ELSE d

\* What is told of f changes by items only, and an operation under way on f is told of them.
LEMMA OverlappedKnows ==
  ASSUME NEW d, NEW n, NEW f, NEW items, NEW puts, NEW takes, NEW puts2, NEW takes2,
         DoingIs(d, n, puts, takes),
         \A g \in FileNames \ {f} : puts2[g] = puts[g] /\ takes2[g] = takes[g],
         puts2[f] \subseteq puts[f] \cup items, takes2[f] \subseteq takes[f] \cup items
  PROVE  DoingIs(Informed(d, f, items), n, puts2, takes2)
<1> DEFINE e == Informed(d, f, items)
<1>0. e = IF d.step \in Steps /\ FileOf[d.request.op] = f
          THEN [d EXCEPT !.changed = @ \cup items, !.step = IF @ = "writing" THEN "overwriting" ELSE @]
          ELSE d
  BY DEF Informed
<1> HIDE DEF e
<1> SUFFICES DoingIs(e, n, puts2, takes2)
  BY DEF e
<1>1. CASE UnderWay(d, n, puts, takes) /\ n > 0
  <2> DEFINE r == d.request
  <2>1. /\ d = [step |-> d.step, request |-> r, seen |-> d.seen, id |-> d.id, changed |-> d.changed]
        /\ d.step \in Steps /\ d.id \in Nat
        /\ RequestIs(r, n) /\ SeenIs(r, d.seen, n)
        /\ Knows(puts, takes, d.changed, FileOf[r.op], d.seen)
    BY <1>1 DEF UnderWay
  <2>2. FileOf[r.op] \in FileNames
    BY <2>1 DEF RequestIs, FileNames
  <2>3. CASE FileOf[r.op] = f
    <3> DEFINE step == IF d.step = "writing" THEN "overwriting" ELSE d.step
               changed == d.changed \cup items
    <3>1. e = [step |-> step, request |-> r, seen |-> d.seen, id |-> d.id, changed |-> changed]
      BY <1>0, <2>1, <2>3
    <3>2. step \in Steps
      BY <2>1 DEF Steps
    <3>3. Knows(puts2, takes2, changed, f, d.seen)
      BY <2>1, <2>3 DEF Knows
    <3> DEFINE rec == [step |-> step, request |-> r, seen |-> d.seen, id |-> d.id, changed |-> changed]
    <3> HIDE DEF step, changed, r
    <3>4. rec.step = step /\ rec.request = r /\ rec.seen = d.seen /\ rec.id = d.id /\ rec.changed = changed
      OBVIOUS
    <3>5. e = rec
      BY <3>1
    <3> HIDE DEF rec
    <3>6. UnderWay(rec, n, puts2, takes2)
      BY <2>1, <2>3, <3>2, <3>3, <3>4 DEF UnderWay, rec
    <3> QED BY <1>1, <3>5, <3>6 DEF DoingIs
  <2>4. CASE FileOf[r.op] # f
    <3>1. Knows(puts2, takes2, d.changed, FileOf[r.op], d.seen)
      BY <2>1, <2>2, <2>4 DEF Knows
    <3>2. e = d
      BY <1>0, <2>4
    <3> QED BY <1>1, <2>1, <3>1, <3>2 DEF DoingIs, UnderWay
  <2> QED BY <2>3, <2>4
<1>2. CASE d = Idle
  BY <1>0, <1>2 DEF DoingIs, Idle, Steps
<1>3. CASE /\ n > 0 /\ d = [step |-> "job", request |-> d.request]
           /\ RequestIs(d.request, n) /\ d.request.op = "persist"
  <2>1. d.step = "job"
    BY <1>3
  <2>2. e = d
    BY <1>0, <2>1 DEF Steps
  <2> QED BY <1>3, <2>2 DEF DoingIs
<1> QED BY <1>1, <1>2, <1>3 DEF DoingIs

LEMMA FinishKeeps ==
  ASSUME KeepInv, NEW c \in Clients, Finish(c)
  PROVE  KeepInv'
<1> DEFINE me == doing[c]
           r == me.request
           f == FileOf[r.op]
           puts == Puts(r)
           takes == Takes(r, me.seen)
           items == puts \cup takes
<1>1. /\ me.step \in {"writing", "overwriting"} /\ UNCHANGED begun
      /\ \A g : g \notin torn' => g \notin torn \/ g = f
      /\ kept' = [kept EXCEPT ![f] = (@ \ (me.changed \cup takes)) \cup puts]
      /\ gone' = [gone EXCEPT ![f] = (@ \ (me.changed \cup puts)) \cup takes]
  BY DEF Finish
<1>2. PICK data \in After(r, me.seen, me.id) : files' = [files EXCEPT ![f] = data]
  BY DEF Finish
<1>3. PICK next \in Follow(c) : doing' = [d \in Clients |-> IF d = c THEN next ELSE Overlapped(d, f, items)]
  BY DEF Finish
<1>4. begun \in 1 .. MaxOps /\ UnderWay(me, begun, kept, gone)
  <2>1. DoingIs(me, begun, kept, gone)
    BY DEF KeepInv
  <2>2. me # Idle /\ me.step # "job"
    BY <1>1 DEF Idle
  <2> HIDE DEF me
  <2>3. begun > 0 /\ UnderWay(me, begun, kept, gone)
    BY <2>1, <2>2 DEF DoingIs
  <2> QED BY <2>3, StoresAssumption DEF KeepInv
<1>5. f \in FileNames /\ Follows(f, data, me.seen, puts, takes, begun) /\ Knows(kept, gone, me.changed, f, me.seen)
  <2>1. /\ RequestIs(r, begun) /\ SeenIs(r, me.seen, begun) /\ me.id \in Nat
        /\ Knows(kept, gone, me.changed, f, me.seen)
    BY <1>4 DEF UnderWay
  <2>2. f \in FileNames
    BY <2>1 DEF RequestIs, FileNames
  <2> HIDE DEF me
  <2> QED BY <1>2, <1>4, <2>1, <2>2, AfterFollows
<1>6. DoingIs(next, begun, kept', gone')
  <2>1. DoingIs(next, begun, kept, gone)
    BY <1>3, <1>4, FollowIs
  <2>2. ~UnderWay(next, begun, kept, gone)
    <3>1. next = Idle \/ next.step = "job"
      BY <1>3 DEF Follow
    <3> QED BY <3>1 DEF UnderWay, Steps, Idle
  <2> QED BY <2>1, <2>2 DEF DoingIs
<1>7. /\ kept'[f] = (kept[f] \ (me.changed \cup takes)) \cup puts
      /\ gone'[f] = (gone[f] \ (me.changed \cup puts)) \cup takes
      /\ files'[f] = data
      /\ \A g \in FileNames \ {f} : kept'[g] = kept[g] /\ gone'[g] = gone[g] /\ files'[g] = files[g]
      /\ files' = [g \in FileNames |-> files'[g]]
      /\ kept' = [g \in FileNames |-> kept'[g]] /\ gone' = [g \in FileNames |-> gone'[g]]
  <2> HIDE DEF f, puts, takes, me
  <2>1. /\ files = [g \in FileNames |-> files[g]]
        /\ kept = [g \in FileNames |-> kept[g]] /\ gone = [g \in FileNames |-> gone[g]]
    BY DEF KeepInv
  <2> QED BY <1>1, <1>2, <1>5, <2>1
<1>8. \A d \in Clients : DoingIs(doing'[d], begun, kept', gone')
  <2> SUFFICES ASSUME NEW d \in Clients PROVE DoingIs(doing'[d], begun, kept', gone')
    OBVIOUS
  <2>1. CASE d = c
    <3>1. doing'[d] = next
      BY <1>3, <2>1
    <3> QED BY <1>6, <3>1
  <2>2. CASE d # c
    <3> DEFINE old == doing[d]
               e == doing'[d]
    <3>1. e = Informed(old, f, items)
      BY <1>3, <2>2 DEF Overlapped, Informed, Steps
    <3>2. DoingIs(old, begun, kept, gone)
      BY DEF KeepInv
    <3>3. kept'[f] \subseteq kept[f] \cup items /\ gone'[f] \subseteq gone[f] \cup items
      BY <1>7
    <3> DEFINE k2 == kept'
               g2 == gone'
    <3>4. \A g \in FileNames \ {f} : k2[g] = kept[g] /\ g2[g] = gone[g]
      BY <1>7
    <3>5. k2[f] \subseteq kept[f] \cup items /\ g2[f] \subseteq gone[f] \cup items
      BY <3>3
    <3> HIDE DEF f, old, e, items, puts, takes, me, k2, g2
    <3>6. DoingIs(e, begun, k2, g2)
      BY <3>1, <3>2, <3>4, <3>5, OverlappedKnows
    <3> QED BY <3>6 DEF e, k2, g2
  <2> QED BY <2>1, <2>2
<1>9. FilesWell(files', torn', begun, kept', gone')
  <2> SUFFICES ASSUME NEW g \in FileNames
               PROVE  Wellmade(g, files'[g], begun) /\ (g \notin torn' => Knows(kept', gone', {}, g, files'[g]))
    BY DEF FilesWell
  <2>1. CASE g = f
    <3> HIDE DEF f, puts, takes, me
    <3>1. /\ Wellmade(f, data, begun)
          /\ Told(f, me.seen) \ takes \subseteq Told(f, data)
          /\ Told(f, data) \subseteq (Told(f, me.seen) \cup puts) \ takes
          /\ puts \subseteq Told(f, data)
      BY <1>5 DEF Follows
    <3>2. kept[f] \ me.changed \subseteq Told(f, me.seen) /\ (gone[f] \ me.changed) \cap Told(f, me.seen) = {}
      BY <1>5 DEF Knows
    <3>3. kept'[f] \subseteq Told(f, data)
      BY <1>7, <3>1, <3>2
    <3>4. gone'[f] \cap Told(f, data) = {}
      BY <1>7, <3>1, <3>2
    <3> QED BY <1>7, <2>1, <3>1, <3>3, <3>4 DEF Knows
  <2>2. CASE g # f
    <3>1. /\ kept'[g] = kept[g] /\ gone'[g] = gone[g] /\ files'[g] = files[g] /\ (g \notin torn' => g \notin torn)
      BY <1>1, <1>7, <2>2
    <3>2. Wellmade(g, files[g], begun) /\ (g \notin torn => Knows(kept, gone, {}, g, files[g]))
      BY DEF KeepInv, FilesWell
    <3> QED BY <3>1, <3>2 DEF Knows
  <2> QED BY <2>1, <2>2
<1>10. doing' = [d \in Clients |-> doing'[d]]
  BY <1>3
<1> QED BY <1>1, <1>7, <1>8, <1>9, <1>10 DEF KeepInv

LEMMA CrashKeeps ==
  ASSUME KeepInv, NEW c \in Clients, Crash(c)
  PROVE  KeepInv'
BY DEF KeepInv, Crash, DoingIs

LEMMA KeepStays ==
  ASSUME KeepInv, UNCHANGED storeVars
  PROVE  KeepInv'
BY DEF KeepInv, storeVars

LEMMA KeepNext ==
  ASSUME KeepInv, [StoreNext]_storeVars
  PROVE  KeepInv'
BY BeginKeeps, ContinueKeeps, TruncateKeeps, FinishKeeps, CrashKeeps, KeepStays DEF StoreNext

LEMMA KeepBegins ==
  ASSUME StoreInit
  PROVE  KeepInv
<1>1. /\ files = [f \in FileNames |-> Blank(f)] /\ begun = 0 /\ doing = [c \in Clients |-> Idle]
      /\ kept = [f \in FileNames |-> {}] /\ gone = [f \in FileNames |-> {}]
  BY DEF StoreInit, FileNames
<1>2. begun \in 0 .. MaxOps
  BY <1>1, StoresAssumption
<1>3. \A c \in Clients : DoingIs(doing[c], begun, kept, gone)
  BY <1>1 DEF DoingIs
<1>4. FilesWell(files, torn, begun, kept, gone)
  <2> SUFFICES ASSUME NEW f \in FileNames
               PROVE  Wellmade(f, files[f], begun) /\ Knows(kept, gone, {}, f, files[f])
    BY DEF FilesWell
  <2>1. files[f] = Blank(f) /\ kept[f] = {} /\ gone[f] = {}
    BY <1>1
  <2> QED BY <2>1, BlankIs DEF Knows
<1> QED BY <1>1, <1>2, <1>3, <1>4 DEF KeepInv

LEMMA KeepHolds ==
  ASSUME KeepInv
  PROVE  StoresKeep
<1>1. DOMAIN files = FileNames
  BY DEF KeepInv
<1>2. \A f \in FileNames : Wellmade(f, files[f], begun) /\ (f \notin torn => Knows(kept, gone, {}, f, files[f]))
  BY DEF KeepInv, FilesWell
<1>3. \A f \in DOMAIN files : Readable(f) => kept[f] \subseteq Content(f) /\ gone[f] \cap Content(f) = {}
  BY <1>1, <1>2 DEF Readable, Content, Knows
<1>4. PathsApart(files["registry"].projects) /\ EntriesApart(files["jobs"]) /\ Descending(files["queue"])
  BY <1>2, FilesAre DEF Wellmade
<1>5. IsInjective([i \in DOMAIN files["registry"].projects |-> files["registry"].projects[i].path])
  <2> DEFINE ps == files["registry"].projects
  <2>1. PathsApart(ps)
    BY <1>4
  <2> HIDE DEF ps
  <2>2. IsInjective([i \in DOMAIN ps |-> ps[i].path])
    BY <2>1 DEF IsInjective, PathsApart
  <2> QED BY <2>2 DEF ps
<1>6. IsInjective([i \in DOMAIN files["jobs"] |-> files["jobs"][i].entry])
  <2> DEFINE js == files["jobs"]
  <2>1. EntriesApart(js)
    BY <1>4
  <2> HIDE DEF js
  <2>2. IsInjective([i \in DOMAIN js |-> js[i].entry])
    BY <2>1 DEF IsInjective, EntriesApart
  <2> QED BY <2>2 DEF js
<1> QED BY <1>3, <1>4, <1>5, <1>6 DEF StoresKeep, Descending

-----------------------------------------------------------------------------
(* The registered tools. *)

\* Servers that are connected come before the next one.
RegistryInv ==
  /\ servers \in ServerLists /\ nextServer \in Nat /\ nextServer >= 1
  /\ IsFiniteSet(mcpTools)
  /\ \A c \in clients : c \in 1 .. Len(servers) /\ c < nextServer
  /\ RegistrySound

\* Of the tools that may be registered, those for which there is room are, which is all of
\* them or as many as fill it.
LEMMA RoomIsFilled ==
  ASSUME NEW S \in SUBSET Nat, IsFiniteSet(S), NEW room \in Nat
  PROVE  /\ First(S, room) \subseteq S /\ IsFiniteSet(First(S, room))
         /\ (First(S, room) = S /\ Cardinality(S) <= room) \/ Cardinality(First(S, room)) = room
<1>1. First(S, room) \subseteq S
  BY DEF First
<1>2. Cardinality(S) \in Nat
  BY FS_CardinalityType
<1>3. CASE Cardinality(S) <= room
  <2>1. ASSUME NEW p \in S PROVE Cardinality(Lower(S, p)) < room
    <3>1. Lower(S, p) \subseteq S /\ p \notin Lower(S, p)
      BY DEF Lower
    <3>2. IsFiniteSet(Lower(S, p)) /\ Cardinality(Lower(S, p)) \in Nat
      BY LowerIs
    <3>3. Cardinality(Lower(S, p)) <= Cardinality(S) /\ Cardinality(Lower(S, p)) # Cardinality(S)
      BY <3>1, <3>2, FS_Subset
    <3> QED BY <1>2, <1>3, <3>2, <3>3
  <2>2. First(S, room) = S
    BY <2>1 DEF First
  <2> QED BY <1>3, <2>2
<1>4. CASE ~(Cardinality(S) <= room)
  <2>1. room \in 0 .. Cardinality(S)
    BY <1>2, <1>4
  <2>2. Cardinality(First(S, room)) = room
    BY <2>1, FirstCounts
  <2> QED BY <1>1, <2>2, FS_Subset
<1> QED BY <1>3, <1>4

\* What is added for a set of places of a server's list.
LEMMA RegisteredAre ==
  ASSUME NEW s, NEW P, IsFiniteSet(P)
  PROVE  LET new == {Registered(s, i) : i \in P}
         IN IsFiniteSet(new) /\ Cardinality(new) = Cardinality(P)
<1> DEFINE new == {Registered(s, i) : i \in P}
           f == [i \in P |-> Registered(s, i)]
<1>1. \A i : Registered(s, i).tool = i
  BY DEF Registered
<1>2. f \in Bijection(P, new)
  <2>1. f \in [P -> new] /\ \A x \in new : \E i \in P : f[i] = x
    OBVIOUS
  <2>2. \A i, j \in P : f[i] = f[j] => i = j
    BY <1>1
  <2> HIDE DEF f, new
  <2> QED BY <2>1, <2>2 DEF Bijection, Injection, Surjection, IsInjective
<1>3. ExistsBijection(P, new)
  <2> HIDE DEF f, new
  <2> QED BY <1>2 DEF ExistsBijection
<1> HIDE DEF new
<1>4. IsFiniteSet(new) /\ Cardinality(new) = Cardinality(P)
  BY <1>3, FS_Bijection
<1> QED BY <1>4 DEF new

\* An acceptable tool of the list has a name that is registered, or one like it is new.
LEMMA NamesAreNew ==
  ASSUME NEW tools, NEW s, Len(s.tools) \in Nat, NEW i \in 1 .. Len(s.tools),
         i <= PerServer, Acceptable(s, s.tools[i])
  PROVE  \/ \E t \in tools : t.name = ToolName(s.name, s.tools[i])
         \/ \E j \in NewTools(tools, s) : ToolName(s.name, s.tools[j]) = ToolName(s.name, s.tools[i])
<1> DEFINE first == {j \in 1 .. Len(s.tools) : j <= PerServer /\ Acceptable(s, s.tools[j])}
           Name(j) == ToolName(s.name, s.tools[j])
           same == {j \in first : Name(j) = Name(i)}
<1>1. same \in SUBSET Nat /\ same # {}
  OBVIOUS
<1>2. PICK j \in same : \A k \in same : j <= k
  <2> HIDE DEF same
  <2> QED BY <1>1, LeastExists
<1>3. ASSUME \A t \in tools : t.name # Name(i) PROVE j \in NewTools(tools, s)
  <2>1. j \in first /\ Name(j) = Name(i)
    BY <1>2
  <2>2. \A k \in first : k < j => Name(k) # Name(j)
    <3> SUFFICES ASSUME NEW k \in first, k < j, Name(k) = Name(j) PROVE FALSE
      OBVIOUS
    <3>1. k \in same
      BY <2>1
    <3>2. j <= k /\ j \in Nat /\ k \in Nat
      BY <1>2, <3>1
    <3> QED BY <3>2
  <2>3. \A t \in tools : t.name # Name(j)
    BY <1>3, <2>1
  <2> QED BY <2>1, <2>2, <2>3 DEF NewTools
<1> QED BY <1>2, <1>3

LEMMA RegistryBegins ==
  ASSUME LaunchInit
  PROVE  RegistryInv
<1>1. servers \in ServerLists /\ nextServer = 1 /\ mcpTools = {} /\ clients = {}
  BY DEF LaunchInit
<1>2. Cardinality(mcpTools) = 0 /\ IsFiniteSet(mcpTools) /\ 0 <= MaxTotal
  BY <1>1, FS_EmptySet, LaunchAssumption
<1> QED BY <1>1, <1>2 DEF RegistryInv, RegistrySound

LEMMA ConnectKeeps ==
  ASSUME RegistryInv, ConnectServer
  PROVE  RegistryInv'
<1> DEFINE n == nextServer
           s == Server
           fresh == NewTools(mcpTools, s)
           room == MaxTotal - Cardinality(mcpTools)
           taken == First(fresh, room)
           new == {Registered(s, i) : i \in taken}
           Name(i) == ToolName(s.name, s.tools[i])
<1>1. /\ n \in Nat /\ n >= 1 /\ n \in 1 .. Len(servers) /\ servers \in ServerLists /\ s = servers[n]
      /\ Len(s.tools) \in Nat /\ PerServer \in Nat /\ MaxTotal \in Nat /\ Len(servers) \in Nat
  BY LaunchAssumption DEF RegistryInv, ConnectServer, Server
<1>2. /\ IsFiniteSet(mcpTools) /\ Cardinality(mcpTools) \in Nat /\ Cardinality(mcpTools) < MaxTotal
      /\ room \in Nat
  <2>1. IsFiniteSet(mcpTools) /\ Cardinality(mcpTools) < MaxTotal
    BY DEF RegistryInv, ConnectServer, Wanted
  <2>2. Cardinality(mcpTools) \in Nat
    BY <2>1, FS_CardinalityType
  <2> QED BY <1>1, <2>1, <2>2
<1>3. /\ s.consented
      /\ clients' = clients \cup {n} /\ nextServer' = n + 1 /\ servers' = servers
  BY DEF ConnectServer, Wanted
<1>4. mcpTools' = mcpTools \cup new
  BY DEF ConnectServer, Collected, First, Lower
<1>5. /\ fresh \in SUBSET Nat /\ IsFiniteSet(fresh)
      /\ \A i \in fresh : /\ i \in 1 .. Len(s.tools)
                         /\ \A t \in mcpTools : t.name # Name(i)
      /\ \A i, j \in fresh : i < j => Name(i) # Name(j)
  <2>1. \A i \in fresh : /\ i \in 1 .. Len(s.tools)
                        /\ \A t \in mcpTools : t.name # Name(i)
    BY DEF NewTools
  <2>2. \A i, j \in fresh : i < j => Name(i) # Name(j)
    BY DEF NewTools
  <2>3. IsFiniteSet(1 .. Len(s.tools))
    <3> DEFINE m == Len(s.tools)
    <3>1. m \in Int /\ 1 \in Int
      BY <1>1
    <3> HIDE DEF m
    <3>2. IsFiniteSet(1 .. m)
      BY <3>1, FS_Interval
    <3> QED BY <3>2 DEF m
  <2>4. fresh \subseteq 1 .. Len(s.tools)
    BY <2>1
  <2>5. IsFiniteSet(fresh)
    <3> HIDE DEF fresh, s
    <3> QED BY <2>3, <2>4, FS_Subset
  <2> QED BY <1>1, <2>1, <2>2, <2>4, <2>5
<1> HIDE DEF fresh, room, n
<1>6. /\ taken \subseteq fresh /\ IsFiniteSet(taken)
      /\ (taken = fresh /\ Cardinality(fresh) <= room) \/ Cardinality(taken) = room
  BY <1>2, <1>5, RoomIsFilled
<1> HIDE DEF taken, s
<1>7. IsFiniteSet(new) /\ Cardinality(new) = Cardinality(taken)
  BY <1>6, RegisteredAre
<1>8. ASSUME NEW i \in taken
      PROVE  /\ Registered(s, i).name = Name(i) /\ Registered(s, i).server = n /\ Registered(s, i).tool = i
  BY DEF Registered, n
<1>9. ASSUME NEW t \in new PROVE \E i \in taken : t = Registered(s, i) /\ t.name = Name(i) /\ t.server = n
  BY <1>8
<1> HIDE DEF new
<1>10. \A t \in mcpTools : t.server \in clients
  BY DEF RegistryInv, RegistrySound
<1>11. \A c \in clients : c \in 1 .. Len(servers) /\ c < n
  BY DEF RegistryInv, n
<1>12. mcpTools \cap new = {}
  <2> SUFFICES ASSUME NEW t \in mcpTools, t \in new PROVE FALSE
    OBVIOUS
  <2>1. t.server = n /\ t.server \in clients
    BY <1>9, <1>10
  <2>2. n < n
    BY <1>11, <2>1
  <2> QED BY <1>1, <2>2
<1>13. IsFiniteSet(mcpTools') /\ Cardinality(mcpTools') = Cardinality(mcpTools) + Cardinality(taken)
  <2>1. /\ IsFiniteSet(mcpTools \cup new)
        /\ Cardinality(mcpTools \cup new) = Cardinality(mcpTools) + Cardinality(new) - Cardinality(mcpTools \cap new)
    BY <1>2, <1>7, FS_Union
  <2>2. Cardinality(mcpTools \cap new) = 0
    BY <1>12, FS_EmptySet
  <2>3. Cardinality(taken) \in Nat
    BY <1>6, FS_CardinalityType
  <2> QED BY <1>2, <1>4, <1>7, <2>1, <2>2, <2>3
<1>14. /\ Cardinality(mcpTools') <= MaxTotal
       /\ Cardinality(mcpTools') < MaxTotal => taken = fresh
  <2>1. Cardinality(taken) \in Nat /\ Cardinality(fresh) \in Nat
    BY <1>5, <1>6, FS_CardinalityType
  <2> QED BY <1>1, <1>2, <1>6, <1>13, <2>1 DEF room
<1>15. ASSUME NEW t \in mcpTools', NEW u \in mcpTools', t.name = u.name PROVE t = u
  <2>1. CASE t \in mcpTools /\ u \in mcpTools
    BY <1>15, <2>1 DEF RegistryInv, RegistrySound
  <2>2. ASSUME NEW x \in mcpTools, NEW y \in new PROVE x.name # y.name
    BY <1>5, <1>6, <1>9
  <2>3. CASE t \in new /\ u \in new
    <3>1. PICK i \in taken : t = Registered(s, i) /\ t.name = Name(i)
      BY <1>9, <2>3
    <3>2. PICK j \in taken : u = Registered(s, j) /\ u.name = Name(j)
      BY <1>9, <2>3
    <3>3. ~(i < j) /\ ~(j < i)
      BY <1>5, <1>6, <1>15, <3>1, <3>2
    <3>4. i \in Nat /\ j \in Nat
      BY <1>5, <1>6
    <3>5. i = j
      BY <3>3, <3>4
    <3> QED BY <3>1, <3>2, <3>5
  <2> QED BY <1>4, <1>15, <2>1, <2>2, <2>3
<1>16. \A t \in mcpTools' : t.server \in clients'
  BY <1>3, <1>4, <1>9, <1>10
<1>17. ASSUME NEW c \in clients'
       PROVE  /\ servers'[c].consented
              /\ Cardinality({t \in mcpTools' : t.server < c}) < MaxTotal
  <2>1. CASE c = n
    <3>1. \A t \in mcpTools : t.server < n
      BY <1>10, <1>11
    <3>2. \A t \in new : ~(t.server < n)
      BY <1>1, <1>9
    <3>3. {t \in mcpTools' : t.server < c} = mcpTools
      BY <1>4, <2>1, <3>1, <3>2
    <3> QED BY <1>1, <1>2, <1>3, <2>1, <3>3
  <2>2. CASE c \in clients
    <3>1. c < n /\ c \in Nat
      BY <1>1, <1>11, <2>2
    <3>2. ~(n < c)
      BY <1>1, <3>1
    <3>3. \A t \in new : ~(t.server < c)
      BY <1>9, <3>2
    <3>4. {t \in mcpTools' : t.server < c} = {t \in mcpTools : t.server < c}
      BY <1>4, <3>3
    <3> QED BY <1>3, <2>2, <3>4 DEF RegistryInv, RegistrySound
  <2> QED BY <1>3, <2>1, <2>2
<1>18. ASSUME Cardinality(mcpTools') < MaxTotal, NEW c \in clients', NEW i \in 1 .. Len(servers'[c].tools),
              i <= PerServer, Acceptable(servers'[c], servers'[c].tools[i])
       PROVE  \E t \in mcpTools' : t.name = ToolName(servers'[c].name, servers'[c].tools[i])
  <2>1. CASE c = n
    <3>1. servers'[c] = s
      BY <1>1, <1>3, <2>1
    <3>2. i \in 1 .. Len(s.tools) /\ Acceptable(s, s.tools[i])
      BY <1>18, <3>1
    <3>3. \/ \E t \in mcpTools : t.name = Name(i)
          \/ \E j \in fresh : Name(j) = Name(i)
      BY <1>1, <1>18, <3>2, NamesAreNew DEF fresh
    <3>4. ASSUME NEW j \in fresh, Name(j) = Name(i) PROVE \E t \in mcpTools' : t.name = Name(i)
      <4>1. j \in taken
        BY <1>14, <1>18, <3>4
      <4>2. Registered(s, j) \in mcpTools' /\ Registered(s, j).name = Name(j)
        BY <1>4, <1>8, <4>1 DEF new
      <4> QED BY <3>4, <4>2
    <3> QED BY <1>4, <3>1, <3>3, <3>4
  <2>2. CASE c \in clients
    <3>1. \E t \in mcpTools : t.name = ToolName(servers[c].name, servers[c].tools[i])
      BY <1>2, <1>3, <1>18, <2>2 DEF RegistryInv, RegistrySound
    <3> QED BY <1>3, <1>4, <3>1
  <2> QED BY <1>3, <2>1, <2>2
<1>19. \A c \in clients' : c \in 1 .. Len(servers') /\ c < nextServer'
  BY <1>1, <1>3, <1>11
<1>20. RegistrySound'
  BY <1>14, <1>15, <1>16, <1>17, <1>18 DEF RegistrySound
<1> QED BY <1>1, <1>3, <1>13, <1>19, <1>20 DEF RegistryInv

LEMMA LeaveOutKeeps ==
  ASSUME RegistryInv, LeaveOut
  PROVE  RegistryInv'
<1>1. nextServer' = nextServer + 1 /\ UNCHANGED <<servers, mcpTools, clients>>
  BY DEF LeaveOut
<1>2. RegistrySound'
  BY <1>1 DEF RegistryInv, RegistrySound
<1>3. \A list \in ServerLists : Len(list) \in Nat
  BY LaunchAssumption
<1> QED BY <1>1, <1>2, <1>3 DEF RegistryInv

LEMMA RegistryKeeps ==
  ASSUME RegistryInv, RegistryNext
  PROVE  RegistryInv'
BY LeaveOutKeeps, ConnectKeeps DEF RegistryNext

LEMMA RegistryStays ==
  ASSUME RegistryInv, UNCHANGED registryVars
  PROVE  RegistryInv'
BY DEF RegistryInv, RegistrySound, registryVars

-----------------------------------------------------------------------------
(* The parts together. *)

StoresInv == KeepInv /\ SettingsInv /\ WikiInv /\ ScaffoldInv /\ PluginsInv /\ DesktopInv /\ VoiceInv /\ RegistryInv

LEMMA StoresBegin == Init => StoresInv
BY KeepBegins, SettingsBegin, WikiBegins, ScaffoldBegins, PluginsBegin, DesktopBegins, VoiceBegins, RegistryBegins DEF Init, StoresInv

\* A step is one of one part, and the others keep what they have.
LEMMA StoresStep == StoresInv /\ [Next]_partVars => StoresInv'
<1> SUFFICES ASSUME StoresInv, [Next]_partVars PROVE StoresInv'
  OBVIOUS
<1>1. SettingsInv'
  <2>1. CASE Is("settings") /\ SettingsNext
    BY <2>1, SettingsKeep DEF StoresInv
  <2>2. CASE ~(Is("settings") /\ SettingsNext)
    <3>1. UNCHANGED settingsVars
      BY <2>2 DEF Next, Is, partVars
    <3> QED BY <3>1, SettingsStay DEF StoresInv
  <2> QED BY <2>1, <2>2
<1>2. WikiInv'
  <2>1. CASE Is("wiki") /\ WikiNext
    BY <2>1, WikiKeeps DEF StoresInv
  <2>2. CASE ~(Is("wiki") /\ WikiNext)
    <3>1. UNCHANGED wikiVars
      BY <2>2 DEF Next, Is, partVars
    <3> QED BY <3>1, WikiStays DEF StoresInv
  <2> QED BY <2>1, <2>2
<1>3. ScaffoldInv'
  <2>1. CASE Is("template") /\ ScaffoldNext
    BY <2>1, ScaffoldKeeps DEF StoresInv
  <2>2. CASE ~(Is("template") /\ ScaffoldNext)
    <3>1. UNCHANGED scaffoldVars
      BY <2>2 DEF Next, Is, partVars, launchVars, RegistryNext
    <3> QED BY <3>1, ScaffoldStays DEF StoresInv
  <2> QED BY <2>1, <2>2
<1>4. PluginsInv'
  <2>1. CASE Is("plugins") /\ PluginNext
    BY <2>1, PluginsKeep DEF StoresInv
  <2>2. CASE ~(Is("plugins") /\ PluginNext)
    <3>1. UNCHANGED pluginVars
      BY <2>2 DEF Next, Is, partVars
    <3> QED BY <3>1, PluginsStay DEF StoresInv
  <2> QED BY <2>1, <2>2
<1>5. DesktopInv'
  <2>1. CASE Is("desktop") /\ DesktopNext
    BY <2>1, DesktopKeeps DEF StoresInv
  <2>2. CASE ~(Is("desktop") /\ DesktopNext)
    <3>1. UNCHANGED desktopVars
      BY <2>2 DEF Next, Is, partVars
    <3> QED BY <3>1, DesktopStays DEF StoresInv
  <2> QED BY <2>1, <2>2
<1>6. VoiceInv'
  <2>1. CASE Is("voice") /\ VoiceNext
    BY <2>1, VoiceKeeps DEF StoresInv
  <2>2. CASE ~(Is("voice") /\ VoiceNext)
    <3>1. UNCHANGED voiceVars
      BY <2>2 DEF Next, Is, partVars
    <3> QED BY <3>1, VoiceStays DEF StoresInv
  <2> QED BY <2>1, <2>2
<1>7. KeepInv'
  <2>1. CASE Is("stores") /\ StoreNext
    BY <2>1, KeepNext DEF StoresInv
  <2>2. CASE ~(Is("stores") /\ StoreNext)
    <3>1. UNCHANGED storeVars
      BY <2>2 DEF Next, Is, partVars
    <3> QED BY <3>1, KeepStays DEF StoresInv
  <2> QED BY <2>1, <2>2
<1>8. RegistryInv'
  <2>1. CASE Is("servers") /\ RegistryNext
    BY <2>1, RegistryKeeps DEF StoresInv
  <2>2. CASE ~(Is("servers") /\ RegistryNext)
    <3>1. UNCHANGED registryVars
      BY <2>2 DEF Next, Is, partVars, launchVars, ScaffoldNext
    <3> QED BY <3>1, RegistryStays DEF StoresInv
  <2> QED BY <2>1, <2>2
<1> QED BY <1>1, <1>2, <1>3, <1>4, <1>5, <1>6, <1>7, <1>8 DEF StoresInv

LEMMA StoresAlways == Spec => []StoresInv
BY StoresBegin, StoresStep, PTL DEF Spec

\* Files keep what was put into them, for any clients, projects, questions, settings, patches,
\* titles, calls and templates: what an operation put into a registry, queue, ledger or session
\* is there, and what it took away is gone, unless another overlapped it, no path is registered
\* twice, no job has two records and the queue is in order (ProjectManager.ts, AutoResearch.ts);
\* what the dashboard saves resolves again, over any clone whose file is JSON, and loses no key
\* unless POSTs overlap, and a clone's file chooses nothing that only the user may (Settings.ts,
\* DashboardRouter.ts); a page that is found
\* again loses no source unless calls overlap or a file that cannot be parsed hides it, and no
\* two files hold one page (WikiStore.ts);
\* a template overwrites only with leave to, and what it says it wrote is there (Scaffolder.ts).
THEOREM FilesSound == Spec => []FilesKept
<1>1. StoresInv => FilesKept
  BY KeepHolds, SettingsHold, WikiHolds, ScaffoldHolds DEF StoresInv, FilesKept
<1> QED BY <1>1, StoresAlways, PTL

\* The applications around them, for any number of installers, entries, windows, turns, servers
\* and tools: no name is registered twice and no more than the cap, nobody is connected without
\* consent, and while room is left nothing acceptable is left out (buildMcpTools.ts); code
\* that is loaded is what a trusted key signed (MarketplaceClient.ts); the desktop's reference
\* is to a window that is there, and to the only one (desktop/src/main.ts); and the history of
\* a spoken conversation is its latest exchanges, whole and in order (VoiceSession.ts).
THEOREM ApplicationsHold == Spec => []ApplicationsSound
<1>1. StoresInv => ApplicationsSound
  BY PluginsHold, VoiceHolds DEF StoresInv, ApplicationsSound, DesktopInv, RegistryInv
<1> QED BY <1>1, StoresAlways, PTL
=============================================================================
