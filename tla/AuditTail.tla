------------------------------- MODULE AuditTail -------------------------------
(***************************************************************************)
(* security/src/audit/AuditLog.ts over security/src/utils/tailFile.ts: one   *)
(* line per event is appended to the file of the day on which its session    *)
(* started, and readers read back from the end of the newest files within a  *)
(* budget of bytes, rows and files.  Sizes are counted in units of which an  *)
(* ordinary line has two, its newline the last of them.                      *)
(***************************************************************************)
EXTENDS Naturals, Sequences, SequencesExt, FiniteSets

CONSTANTS
  Sessions,       \* processes with an AuditLog
  Days,           \* bound: 1 .. Days
  MaxEvents,      \* bound: events logged
  Sizes,          \* of lines
  MaxLineSize,    \* maxAuditLineBytes
  MaxFiles,       \* maxAuditFiles
  MaxRows,        \* maxAuditRows
  Budgets         \* values of maxAuditScanBytes to read with

ASSUME AuditAssumption == /\ MaxRows \in Nat \ {0} /\ MaxFiles \in Nat \ {0}
                          /\ Sizes \subseteq Nat \ {0} /\ Budgets \subseteq Nat \ {0}

VARIABLES
  day,            \* the calendar
  logOf,          \* the day in the session's path, 0 before it starts
  log,            \* by day: the lines [event, size, whole]; event 0 is no event
  logged          \* events logged so far

auditVars == <<day, logOf, log, logged>>

AuditInit ==
  /\ day = 1 /\ logOf = [s \in Sessions |-> 0]
  /\ log = [d \in 1 .. Days |-> <<>>]
  /\ logged = 0

\* the path is fixed when the log is constructed
StartLog(s) ==
  /\ logOf[s] = 0
  /\ logOf' = [logOf EXCEPT ![s] = day]
  /\ UNCHANGED <<day, log, logged>>

Midnight == day < Days /\ day' = day + 1 /\ UNCHANGED <<logOf, log, logged>>

\* what is appended after a torn line becomes part of it
Appended(lines, line) ==
  IF lines # <<>> /\ ~Last(lines).whole
    THEN Append(Front(lines), [event |-> 0, size |-> Last(lines).size + line.size, whole |-> line.whole])
    ELSE Append(lines, line)

Log(s, size, event) ==
  /\ logOf[s] # 0 /\ logged < MaxEvents
  /\ event \in {0, logged + 1}
  /\ log' = [log EXCEPT ![logOf[s]] = Appended(@, [event |-> event, size |-> size, whole |-> TRUE])]
  /\ logged' = logged + 1
  /\ UNCHANGED <<day, logOf>>

\* the disk is full: log() never throws
LogFails(s) ==
  /\ logOf[s] # 0 /\ logged < MaxEvents
  /\ logged' = logged + 1
  /\ UNCHANGED <<day, logOf, log>>

\* the process dies in the middle of a line
LogTorn(s) ==
  /\ logOf[s] # 0 /\ logged < MaxEvents
  /\ log' = [log EXCEPT ![logOf[s]] = Appended(@, [event |-> 0, size |-> 1, whole |-> FALSE])]
  /\ logOf' = [logOf EXCEPT ![s] = 0]
  /\ logged' = logged + 1
  /\ UNCHANGED day

AuditNext ==
  \/ Midnight
  \/ \E s \in Sessions :
       \/ StartLog(s) \/ LogFails(s) \/ LogTorn(s)
       \/ \E size \in Sizes, event \in 0 .. MaxEvents : Log(s, size, event)

-----------------------------------------------------------------------------
Bytes(lines) == FoldLeft(LAMBDA n, line : n + line.size, 0, lines)
Least(m, n) == IF m < n THEN m ELSE n

\* readFileTail: the piece before the first newline is dropped unless the read began at the
\* start of the file, a whole line too that happens to begin there
FileTail(lines, budget) ==
  LET skipped == IF Bytes(lines) > budget THEN Bytes(lines) - budget ELSE 0
      from == {i \in DOMAIN lines : skipped = 0 \/ Bytes(SubSeq(lines, 1, i - 1)) > skipped}
      kept == SubSeq(lines, Len(lines) - Cardinality(from) + 1, Len(lines))
  IN SelectSeq(kept, LAMBDA line : line.size <= MaxLineSize)

FirstOf(n, s) == SubSeq(s, 1, Least(n, Len(s)))

\* parseAuditEvent: an object with an event's fields, and no other line
Accepted(lines) == SelectSeq(lines, LAMBDA line : line.event # 0 /\ line.whole)

\* newest first: the last days that have a file at all
Files == FirstOf(MaxFiles, Reverse(SelectSeq([d \in 1 .. Days |-> d], LAMBDA d : log[d] # <<>>)))

\* Mutant: every file has the whole budget.
LeftOfEach(left, read) == left

Left(left, read) == left - read

\* scanNdjsonTail, over readFileTail
Scan(limit, budget) ==
  FoldLeft(LAMBDA scan, d :
      IF scan.left = 0 \/ Len(scan.rows) >= limit THEN scan
      ELSE LET read == Least(Bytes(log[d]), scan.left)
               found == Reverse(Accepted(FileTail(log[d], scan.left)))
           IN [rows |-> scan.rows \o FirstOf(limit - Len(scan.rows), found),
               left |-> Left(scan.left, read),
               read |-> scan.read + read,
               cut |-> scan.cut \/ Bytes(log[d]) > scan.left],
    [rows |-> <<>>, left |-> budget, read |-> 0, cut |-> FALSE], Files)

\* read(): newest last; 0 is for all, which is MaxRows
Rows(limit, budget) ==
  LET wanted == IF limit > 0 THEN Least(limit, MaxRows) ELSE MaxRows
  IN Reverse(Scan(wanted, budget).rows)

\* readNdjsonFileTail, of a feed in one file
FeedRows(d, limit, budget) ==
  Reverse(FirstOf(IF limit = 0 THEN 1 ELSE limit, Reverse(Accepted(FileTail(log[d], budget)))))

-----------------------------------------------------------------------------
ReadableLines(d) == SelectSeq(Accepted(log[d]), LAMBDA line : line.size <= MaxLineSize)

\* every readable line, by file and then in the file's order
History == FoldLeft(LAMBDA rows, d : rows \o ReadableLines(d), <<>>, Reverse(Files))

\* A read returns the end of the history, without holes, never more rows or bytes than it may,
\* and all the rows it was asked for unless its budget ran out.
AuditSound ==
  \A limit \in 0 .. MaxRows + 1, budget \in Budgets :
    LET rows == Rows(limit, budget)
        wanted == IF limit = 0 THEN MaxRows ELSE Least(limit, MaxRows)
        scan == Scan(wanted, budget)
    IN /\ IsSuffix(rows, History) /\ Len(rows) <= wanted
       /\ scan.read <= budget
       /\ Len(rows) < wanted /\ rows # History => scan.left = 0
       /\ \A d \in 1 .. Days : IsSuffix(FeedRows(d, limit, budget), ReadableLines(d))
=============================================================================
