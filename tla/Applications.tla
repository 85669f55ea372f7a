---------------------------- MODULE Applications -----------------------------
(***************************************************************************)
(* packages/voice: a spoken turn is transcribed (STTClient.ts), answered by  *)
(* the agent over the history of the session (VoiceSession.ts), and spoken   *)
(* (TTSClient.ts).  Each of the three may fail, and turns may overlap, as    *)
(* nothing in processTurn keeps them apart.                                  *)
(***************************************************************************)
EXTENDS Naturals, Sequences, SequencesExt, FiniteSets

CONSTANTS
  SpokenTurns,    \* calls of processTurn
  MaxHistory,     \* 40 messages
  SttProviders, TtsProviders,   \* what COWORK_STT_PROVIDER and the like may name
  Services        \* those that want a key

ASSUME VoiceAssumption == MaxHistory \in Nat /\ MaxHistory >= 2

VARIABLES
  voice,          \* [stt, tts, keys]: the providers, and the services there is a key for
  turn,           \* by turn: [stage, context]
  spoken,         \* history of the session: messages [role, of]
  answers         \* history: turns in the order of their answers

voiceVars == <<voice, turn, spoken, answers>>

VoiceInit ==
  /\ voice \in [stt : SttProviders, tts : TtsProviders, keys : SUBSET Services]
  /\ turn = [t \in SpokenTurns |-> [stage |-> "new", context |-> <<>>]]
  /\ spoken = <<>> /\ answers = <<>>

Goto(t, stage) == turn' = [turn EXCEPT ![t].stage = stage]

\* whether a provider is known and has what it needs; the local ones need no key
CanTranscribe == voice.stt = "local-whisper" \/ voice.stt \in voice.keys
CanSynthesize == voice.tts = "local-espeak" \/ voice.tts \in voice.keys

Speak(t) ==
  /\ turn[t].stage = "new"
  /\ Goto(t, "transcribing")
  /\ UNCHANGED <<voice, spoken, answers>>

\* a text, or none but silence
Transcribed(t) ==
  /\ turn[t].stage = "transcribing" /\ CanTranscribe
  /\ \E heard \in {"asking", "repeating"} :
       IF heard = "repeating" THEN Goto(t, heard)
       ELSE turn' = [turn EXCEPT ![t] = [stage |-> heard, context |-> Append(spoken, [role |-> "user", of |-> t])]]
  /\ UNCHANGED <<voice, spoken, answers>>

\* Mutant: a message goes at a time.
KeptByOne(messages) == IF Len(messages) > MaxHistory THEN Tail(messages) ELSE messages

Kept(messages) == IF Len(messages) > MaxHistory THEN SubSeq(messages, 3, Len(messages)) ELSE messages

\* the agent's answer, or an apology when it has none
AnswerSpoken(t) ==
  /\ turn[t].stage = "asking"
  /\ spoken' = Kept(spoken \o <<[role |-> "user", of |-> t], [role |-> "assistant", of |-> t]>>)
  /\ answers' = Append(answers, t)
  /\ Goto(t, "speaking")
  /\ UNCHANGED voice

Synthesized(t) ==
  /\ turn[t].stage \in {"speaking", "repeating"} /\ CanSynthesize
  /\ Goto(t, IF turn[t].stage = "speaking" THEN "playing" ELSE "done")
  /\ UNCHANGED <<voice, spoken, answers>>

\* saved and played, as configured
Played(t) ==
  /\ turn[t].stage = "playing"
  /\ Goto(t, "done")
  /\ UNCHANGED <<voice, spoken, answers>>

\* a key is missing, a service or the network fails, the settings do not resolve, or there is
\* no player: the turn rejects, but an answer that was given stays in the history
VoiceFails(t) ==
  /\ turn[t].stage \in {"transcribing", "asking", "speaking", "repeating", "playing"}
  /\ Goto(t, "failed")
  /\ UNCHANGED <<voice, spoken, answers>>

VoiceNext ==
  \E t \in SpokenTurns :
    \/ Speak(t) \/ Transcribed(t) \/ AnswerSpoken(t) \/ Synthesized(t) \/ Played(t) \/ VoiceFails(t)

-----------------------------------------------------------------------------
Exchanges(s) == {i \in DOMAIN s : i % 2 = 1}

\* A conversation is whole exchanges, each of one turn.
WellFormed(s) ==
  /\ Len(s) % 2 = 0
  /\ \A i \in Exchanges(s) : s[i].role = "user" /\ s[i + 1] = [role |-> "assistant", of |-> s[i].of]

\* However turns overlap and fail, the history is the latest exchanges in the order of their
\* answers, never half of one, and a turn is asked over whole exchanges with its own text last.
VoiceSound ==
  /\ WellFormed(spoken) /\ Len(spoken) <= MaxHistory
  /\ LET last == SubSeq(answers, Len(answers) - Len(spoken) \div 2 + 1, Len(answers))
     IN /\ \A i \in Exchanges(spoken) : spoken[i].of = last[(i + 1) \div 2]
        /\ Len(spoken) < MaxHistory - 1 => last = answers
  /\ \A t \in SpokenTurns : turn[t].context # <<>> =>
       /\ WellFormed(Front(turn[t].context))
       /\ Last(turn[t].context).of = t /\ \A i \in 1 .. Len(turn[t].context) - 1 : turn[t].context[i].of # t

-----------------------------------------------------------------------------
(***************************************************************************)
(* apps/desktop/src/main.ts: the Electron main process.  It starts the       *)
(* dashboard as a child, waits for it for two seconds at most, and then      *)
(* opens a window that the tray, a shortcut and the system show, hide,       *)
(* close and open again.  mainWindow is the only reference to a window.      *)
(***************************************************************************)

CONSTANTS
  MaxWindows,     \* bound: windows ever created
  Targets         \* what the page asks to open: [kind, at]

ASSUME DesktopAssumption == MaxWindows \in Nat \ {0}

VARIABLES
  darwin,         \* the platform keeps the application alive without windows
  app,            \* "starting", "ready" or "quit"
  dashboard,      \* the child process: "starting", "listening", "failed" or "killed"
  windows,        \* by window that is there: whether it is visible
  unshown,        \* windows whose page was not ready yet
  mainWindow,     \* a window, or 0 for null
  created,        \* windows created
  early,          \* history: one was created while the dashboard was waited for
  opened          \* history: what was opened outside

desktopVars == <<darwin, app, dashboard, windows, unshown, mainWindow, created, early, opened>>

DesktopInit ==
  /\ darwin \in BOOLEAN
  /\ app = "starting" /\ dashboard = "starting"
  /\ windows = [w \in {} |-> FALSE] /\ unshown = {} /\ mainWindow = 0 /\ created = 0
  /\ early = FALSE /\ opened = {}

CreateWindow ==
  /\ created < MaxWindows
  /\ created' = created + 1 /\ mainWindow' = created + 1
  /\ windows' = [w \in DOMAIN windows \cup {created + 1} |-> IF w \in DOMAIN windows THEN windows[w] ELSE FALSE]
  /\ unshown' = unshown \cup {created + 1}

\* "Running at" on the child's standard error
Listening ==
  /\ dashboard = "starting" /\ app # "quit"
  /\ dashboard' = "listening"
  /\ UNCHANGED <<darwin, app, windows, unshown, mainWindow, created, early, opened>>

\* it cannot be spawned, or ends; nothing is told of it
DashboardFails ==
  /\ dashboard \in {"starting", "listening"}
  /\ dashboard' = "failed"
  /\ UNCHANGED <<darwin, app, windows, unshown, mainWindow, created, early, opened>>

\* the dashboard listens, or two seconds are over: a window, the tray and the shortcut
Ready ==
  /\ app = "starting"
  /\ app' = "ready"
  /\ CreateWindow
  /\ UNCHANGED <<darwin, dashboard, early, opened>>

\* Mutant: the application's own list of windows is not asked.
NoWindowsMain == mainWindow = 0 \/ app = "ready"

NoWindows == DOMAIN windows = {}

\* the system's "activate", which comes also while the dashboard is waited for
Activate ==
  /\ app # "quit" /\ NoWindows
  /\ CreateWindow
  /\ early' = (early \/ app = "starting")
  /\ UNCHANGED <<darwin, app, dashboard, opened>>

\* tray and shortcut: hide or show the window, or open one
Toggle ==
  /\ app = "ready"
  /\ IF mainWindow = 0 THEN CreateWindow
     ELSE windows' = [windows EXCEPT ![mainWindow] = ~@] /\ UNCHANGED <<unshown, mainWindow, created>>
  /\ UNCHANGED <<darwin, app, dashboard, early, opened>>

OpenCoWork ==
  /\ app = "ready"
  /\ IF mainWindow = 0 THEN CreateWindow
     ELSE windows' = [windows EXCEPT ![mainWindow] = TRUE] /\ UNCHANGED <<unshown, mainWindow, created>>
  /\ UNCHANGED <<darwin, app, dashboard, early, opened>>

\* once per window; what is shown is the main window
ReadyToShow(w) ==
  /\ w \in unshown /\ app # "quit"
  /\ unshown' = unshown \ {w}
  /\ windows' = IF mainWindow = 0 THEN windows ELSE [windows EXCEPT ![mainWindow] = TRUE]
  /\ UNCHANGED <<darwin, app, dashboard, mainWindow, created, early, opened>>

\* Mutant: a window that is closed stays referred to.
WithoutNever(w) == mainWindow

\* any window that closes takes the reference with it
Without(w) == 0

QuitNow(child) == app' = "quit" /\ dashboard' = IF child = "failed" THEN child ELSE "killed"

Close(w) ==
  /\ w \in DOMAIN windows /\ app # "quit"
  /\ windows' = [v \in DOMAIN windows \ {w} |-> windows[v]]
  /\ unshown' = unshown \ {w} /\ mainWindow' = Without(w)
  /\ IF DOMAIN windows = {w} /\ ~darwin THEN QuitNow(dashboard) ELSE UNCHANGED <<app, dashboard>>
  /\ UNCHANGED <<darwin, created, early, opened>>

\* the tray's menu and the system: windows close, and "quit" kills the child
Quit ==
  /\ app # "quit"
  /\ QuitNow(dashboard)
  /\ windows' = [w \in {} |-> FALSE] /\ unshown' = {} /\ mainWindow' = 0
  /\ UNCHANGED <<darwin, created, early, opened>>

\* isAllowedExternalUrl and isAllowedOpenPath
MayOpen(target) ==
  \/ target.kind = "url" /\ target.at \in {"https", "http loopback"}
  \/ target.kind = "path" /\ target.at \in {"project", "state"}

\* a link of the page, or its messages to the main process
OpenOutside(target) ==
  /\ app # "quit" /\ windows # [w \in {} |-> FALSE]
  /\ MayOpen(target)
  /\ opened' = opened \cup {target}
  /\ UNCHANGED <<darwin, app, dashboard, windows, unshown, mainWindow, created, early>>

DesktopNext ==
  \/ Listening \/ DashboardFails \/ Ready \/ Activate \/ Toggle \/ OpenCoWork \/ Quit
  \/ \E w \in 1 .. MaxWindows : ReadyToShow(w) \/ Close(w)
  \/ \E target \in Targets : OpenOutside(target)

-----------------------------------------------------------------------------
\* The reference is to a window that is there, and unless one was opened before the dashboard
\* was waited for, it is the only one: none is left that neither tray nor shortcut reaches.
\* No dashboard survives the application.
DesktopSound ==
  /\ mainWindow \in DOMAIN windows \cup {0}
  /\ ~early => DOMAIN windows = {mainWindow} \ {0}
  /\ app = "quit" => dashboard \notin {"starting", "listening"}
==============================================================================
