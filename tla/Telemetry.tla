------------------------------ MODULE Telemetry ------------------------------
(***************************************************************************)
(* What is measured of a session: the times of its tools                     *)
(* (analytics/SessionAnalyticsCollector.ts), summed up over sessions         *)
(* (AggregateReporter.ts), and its trace (telemetry/Tracer.ts), which is     *)
(* flushed to a collector that may fail while spans are added.               *)
(***************************************************************************)
EXTENDS Integers, Sequences, FiniteSets, Functions, SequencesExt

CONSTANTS
  Tools,          \* names of tools
  Extends,        \* Extends[t]: tools whose name is t's, an underscore and more
  MaxCalls,       \* bound: calls of tools
  MaxMs,          \* bound: the clock
  Spans,          \* bound: spans
  MaxFlushes,     \* bound: flushes
  MaxTop,         \* tools a report lists: 10
  PastSessions    \* persisted analytics: sets of [id, recent, readable, calls]

ASSUME TelemetryAssumption ==
  /\ Extends \in [Tools -> SUBSET Tools] /\ \A t \in Tools : t \notin Extends[t]
  /\ {MaxCalls, MaxMs, MaxFlushes, MaxTop} \subseteq Nat

VARIABLES
  measuring,      \* "tools", "trace" or "report"
  ms,
  timers,         \* toolTimers: tool and start, one of a tool per millisecond
  usage,          \* toolUsage: calls and total duration of a tool
  open,           \* history: starts of the calls under way, in order
  real,           \* history: what the finished calls took
  collided,       \* history: tools with two starts in one millisecond
  spans,          \* Tracer.spans
  flights,        \* flushes under way: the spans they send
  flushes,
  sentSpans,      \* history: spans that reached the collector
  startedSpans,   \* history: all spans
  between,        \* history: spans that were started during a flush
  report          \* the last report

toolVars == <<ms, timers, usage, open, real, collided>>
traceVars == <<spans, flights, flushes, sentSpans, startedSpans, between>>
telemetryVars == <<measuring, toolVars, traceVars, report>>

NoUsage == [calls |-> 0, total |-> 0]

TelemetryInit ==
  /\ measuring \in {"tools", "trace", "report"}
  /\ ms = 0 /\ timers = {}
  /\ usage = [t \in Tools |-> NoUsage]
  /\ open = <<>> /\ real = [t \in Tools |-> 0] /\ collided = {}
  /\ spans = {} /\ flights = <<>> /\ flushes = 0 /\ sentSpans = {} /\ startedSpans = {} /\ between = {}
  /\ report = [made |-> FALSE]

Calls == Len(open) + SumFunction([t \in Tools |-> usage[t].calls])

-----------------------------------------------------------------------------
ClockTick ==
  /\ ms < MaxMs
  /\ ms' = ms + 1
  /\ UNCHANGED <<timers, usage, open, real, collided>>

\* recordToolStart: the key is the tool and the time
ToolStart(t) ==
  /\ Calls < MaxCalls
  /\ collided' = IF [tool |-> t, at |-> ms] \in timers THEN collided \cup {t} ELSE collided
  /\ timers' = timers \cup {[tool |-> t, at |-> ms]}
  /\ open' = Append(open, [tool |-> t, at |-> ms])
  /\ UNCHANGED <<ms, usage, real>>

\* Mutant: the timer stays in the map.
UnmatchedKept(timer) == timers

Unmatched(timer) == timers \ {timer}

\* the first key in the order of strings that begins with the name and an underscore: the
\* oldest of the tool's own, or else one of a tool whose name extends it
Timer(t) ==
  LET own == {r \in timers : r.tool = t}
      others == {r \in timers : r.tool \in Extends[t]}
  IN IF own # {} THEN {r \in own : \A q \in own : r.at <= q.at}
     ELSE {r \in others : \A q \in others : q.tool = r.tool => r.at <= q.at}

\* recordToolEnd of one of the calls under way
ToolEnd(i) ==
  LET t == open[i].tool
      Count(duration) == [usage EXCEPT ![t] = [calls |-> @.calls + 1, total |-> @.total + duration]]
  IN /\ IF Timer(t) = {} THEN usage' = Count(0) /\ UNCHANGED timers
        ELSE \E r \in Timer(t) : usage' = Count(ms - r.at) /\ timers' = Unmatched(r)
     /\ real' = [real EXCEPT ![t] = @ + ms - open[i].at]
     /\ open' = RemoveAt(open, i)
     /\ UNCHANGED <<ms, collided>>

-----------------------------------------------------------------------------
StartSpan(s) ==
  /\ s \notin startedSpans
  /\ spans' = spans \cup {s} /\ startedSpans' = startedSpans \cup {s}
  /\ between' = IF flights = <<>> THEN between ELSE between \cup {s}
  /\ UNCHANGED <<flights, flushes, sentSpans>>

Flush ==
  /\ spans # {} /\ flushes < MaxFlushes
  /\ flights' = Append(flights, spans)
  /\ flushes' = flushes + 1
  /\ UNCHANGED <<spans, sentSpans, startedSpans, between>>

\* Mutant: a failed flush drops the spans as well.
RemainingNone(ok) == {}

Remaining(ok) == IF ok THEN {} ELSE spans

\* the collector answers, or the request or the reading of its answer fails
FlushEnds(i, ok) ==
  /\ flights' = RemoveAt(flights, i)
  /\ spans' = Remaining(ok)
  /\ sentSpans' \in IF ok THEN {sentSpans \cup flights[i]} ELSE {sentSpans, sentSpans \cup flights[i]}
  /\ UNCHANGED <<flushes, startedSpans, between>>

-----------------------------------------------------------------------------
\* Mutant: sessions before the cutoff are counted.
CountedAll(sessions) == {s \in sessions : s.readable}

Counted1(sessions) == {s \in sessions : s.readable /\ s.recent}

CallsOf(sessions, t) == SumFunction([s \in sessions |-> s.calls[t]])

\* the tools that were used, by calls, the first MaxTop of them
Report ==
  /\ ~report.made
  /\ \E sessions \in PastSessions :
       LET of == Counted1(sessions)
           used == {t \in Tools : \E s \in of : s.calls[t] > 0}
           sorted == SetToSortSeq(used, LAMBDA t, u : CallsOf(of, t) > CallsOf(of, u))
       IN report' = [made |-> TRUE, of |-> sessions, sessions |-> Cardinality(of),
                     calls |-> [t \in Tools |-> CallsOf(of, t)],
                     top |-> SubSeq(sorted, 1, IF Len(sorted) < MaxTop THEN Len(sorted) ELSE MaxTop)]

TelemetryNext ==
  \/ /\ measuring = "tools"
     /\ ClockTick \/ (\E t \in Tools : ToolStart(t)) \/ (\E i \in DOMAIN open : ToolEnd(i))
     /\ UNCHANGED <<measuring, traceVars, report>>
  \/ /\ measuring = "trace"
     /\ (\E s \in Spans : StartSpan(s)) \/ Flush \/ (\E i \in DOMAIN flights, ok \in BOOLEAN : FlushEnds(i, ok))
     /\ UNCHANGED <<measuring, toolVars, report>>
  \/ measuring = "report" /\ Report /\ UNCHANGED <<measuring, toolVars, traceVars>>

-----------------------------------------------------------------------------
\* In whatever order overlapping calls of a tool end, its total is what they took, unless two
\* began in one millisecond or another tool's name extends it; a span that is neither kept
\* nor sent was started during a flush; and what a report leaves out was not used more than
\* what it lists.
TelemetrySound ==
  /\ \A t \in Tools :
       (\A i \in DOMAIN open : open[i].tool # t) /\ t \notin collided
         /\ Extends[t] = {} /\ (\A u \in Tools : t \notin Extends[u])
       => usage[t].total = real[t]
  /\ startedSpans \subseteq spans \cup sentSpans \cup between
  /\ report.made =>
       /\ report.sessions = Cardinality({s \in report.of : s.recent /\ s.readable})
       /\ \A t \in ToSet(report.top), u \in Tools \ ToSet(report.top) : report.calls[t] >= report.calls[u]
       /\ \A i \in 1 .. Len(report.top) - 1 : report.calls[report.top[i]] >= report.calls[report.top[i + 1]]
=============================================================================
