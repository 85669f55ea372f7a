------------------------------ MODULE MCServers ------------------------------
(* The guard, the servers, the daemons and the calls of models, as surfaces of the system.  *)
(* They share no state: a behaviour exercises one of them, chosen at the start.              *)
EXTENDS HttpGuard, HermesServer, ResourceLimits, MCStreamingLoop, ModelCalls, KairosDaemons,
        TelegramPolling, TLC

VARIABLE surface

serverVars == <<surface, guardVars, hermesVars, limitVars, streamVars, callVars, tickVars, ipcVars,
                telegramVars>>

Init ==
  /\ surface \in {"guard", "webhook", "sse", "stdio", "limits", "stream", "model", "ticks", "ipc", "telegram"}
  /\ GuardInit /\ HermesInit /\ LimitsInit /\ StreamInit /\ CallsInit /\ TickInit /\ IpcInit /\ TelegramInit
  /\ surface # "limits" => limit = "maxRequestBytes"
  /\ surface # "stream" => provider = "other"
  /\ surface # "model" => config = [setting |-> "unset", env |-> "unset", key |-> FALSE, envKey |-> FALSE]

\* Steps of one surface leave the others alone.
OnlyGuard == UNCHANGED <<surface, hermesVars, limitVars, streamVars, callVars, tickVars, ipcVars, telegramVars>>
OnlyHermes == UNCHANGED <<surface, guardVars, limitVars, streamVars, callVars, tickVars, ipcVars, telegramVars>>
OnlyLimits == UNCHANGED <<surface, guardVars, hermesVars, streamVars, callVars, tickVars, ipcVars, telegramVars>>
OnlyStream == UNCHANGED <<surface, guardVars, hermesVars, limitVars, callVars, tickVars, ipcVars, telegramVars>>
OnlyCalls == UNCHANGED <<surface, guardVars, hermesVars, limitVars, streamVars, tickVars, ipcVars, telegramVars>>
OnlyTicks == UNCHANGED <<surface, guardVars, hermesVars, limitVars, streamVars, callVars, ipcVars, telegramVars>>
OnlyIpc == UNCHANGED <<surface, guardVars, hermesVars, limitVars, streamVars, callVars, tickVars, telegramVars>>
OnlyTelegram == UNCHANGED <<surface, guardVars, hermesVars, limitVars, streamVars, callVars, tickVars, ipcVars>>

Guarding ==
  /\ surface \in {"guard", "webhook"} /\ GuardNext
  /\ surface = "guard" => UNCHANGED webhookVars
  /\ surface = "webhook" => UNCHANGED credentialVars
  /\ OnlyGuard
Serving ==
  /\ surface \in {"sse", "stdio"} /\ HermesNext
  /\ surface = "sse" => UNCHANGED stdioVars
  /\ surface = "stdio" => UNCHANGED sseVars
  /\ OnlyHermes
Limiting ==
  /\ surface = "limits" /\ LimitsNext
  /\ OnlyLimits
Streaming ==
  /\ surface = "stream" /\ StreamNext
  /\ OnlyStream
CallingModels ==
  /\ surface = "model" /\ CallsNext
  /\ OnlyCalls
Ticking ==
  /\ surface = "ticks" /\ TickNext
  /\ OnlyTicks
Messaging ==
  /\ surface = "ipc" /\ IpcNext
  /\ OnlyIpc
Polling ==
  /\ surface = "telegram" /\ TelegramNext
  /\ OnlyTelegram

Next == Guarding \/ Serving \/ Limiting \/ Streaming \/ CallingModels \/ Ticking \/ Messaging \/ Polling

Spec == Init /\ [][Next]_serverVars

\* Timers fire and promises settle: of a queued line, of a call, of a poll's handler.  Clients
\* and models owe nothing.
FairSpec ==
  /\ Spec
  /\ \A s \in Streams : WF_serverVars(surface = "sse" /\ LifetimeOver(s) /\ OnlyHermes)
  /\ WF_serverVars(surface = "stdio" /\ HandleLine /\ OnlyHermes)
  /\ WF_serverVars(surface = "model" /\ CallProgress /\ OnlyCalls)
  /\ WF_serverVars(surface = "ticks" /\ Tick /\ OnlyTicks)
  /\ \A r \in RequestIds : WF_serverVars(surface = "ipc" /\ RequestTimeout(r) /\ OnlyIpc)
  /\ \A p \in Polls : WF_serverVars(surface = "telegram" /\ PollProgress(p) /\ OnlyTelegram)

\* The servers' doors: a login is not locked out by others' failures in flight, a message is
\* delivered once, slots are given back once, replies keep the order of the lines, and limits
\* hold whatever the environment says of them.
AdmissionSound == GuardFair /\ DeliveredOnce /\ SlotsCounted /\ StdioOrdered /\ LimitsHold

\* The conversations with models: a tool is given the pieces of its own call, no tool of an
\* answer that was cut off runs, an assembled response holds what was streamed as far as its
\* provider tells calls apart, and a call of the model is retried, refused and translated as
\* the text of its failure has it.
ConversationsSound == StreamingSound /\ CallsSound

\* The daemons: a tick starts each due task once, replies reach the request they answer, and
\* no update is confirmed that nobody handles, nor one handled twice unless polls overlap.
DaemonsSound == TicksSound /\ IpcMatched /\ NoUpdateLost

\* What was begun ends: streams and queued lines, calls of models, requests to the daemon, be
\* it dead or alive, and polls; and a tick comes to every task that is due.
ServersSettle == HermesSettles /\ CallsEnd /\ IpcSettles /\ PollsEnd /\ TasksAreStarted

SomeConversations ==
  LET text == [type |-> "text", of |-> "t"]
      use(i) == [type |-> "tool_use", of |-> i]
      result(i) == [type |-> "tool_result", of |-> i]
      M(role, blocks) == [role |-> role, blocks |-> blocks]
      asked == M("assistant", <<text, use("a"), use("b")>>)
  IN {<<M("user", <<text>>), asked, M("user", <<result("a"), result("b")>>)>>,
      <<M("system", <<text>>), M("user", <<text>>), asked, M("user", <<result("a"), result("b"), text>>)>>,
      <<M("user", <<text>>), M("assistant", <<use("a")>>), M("user", <<text, result("a"), text>>)>>}

\* texts that tell nothing, an overflow, a refused key, one at a gateway, and one in a text
\* that holds "rate"
SomeTexts == {{}, {"context", "length"}, {"denied"}, {"gateway", "denied"}, {"rate", "denied"}}

TaskPrefixes == ("sweep" :> "gc" @@ "odd" :> "custom")
TaskIntervals == ("sweep" :> 1 @@ "odd" :> 2)
=============================================================================
