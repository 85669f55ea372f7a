----------------------------- MODULE BoundedMap -----------------------------
(***************************************************************************)
(* packages/security/src/utils/BoundedMap.ts: a map bounded in entries and  *)
(* bytes, whose entries expire.  A map is a record of its entries, least    *)
(* recently used first, and of the running byte total; the operators return *)
(* the map after the call.  The methods are synchronous, and what a caller  *)
(* stores is a reference: its size is the estimate taken by the last set(). *)
(* The options of a map are a record of maxEntries, maxBytes and ttl.       *)
(*                                                                          *)
(* Sums and filters are recursive functions over the positions of a         *)
(* sequence, so that GatewayProofs can reason about them.                   *)
(***************************************************************************)
EXTENDS Integers, Sequences, FiniteSetsExt

\* the sum of a sequence of numbers
SumOf(s) ==
  LET upTo[n \in 0 .. Len(s)] == IF n = 0 THEN 0 ELSE upTo[n - 1] + s[n]
  IN upTo[Len(s)]

\* what s has at some of its positions, in order
At(s, positions) ==
  LET upTo[n \in 0 .. Len(s)] ==
        IF n = 0 THEN <<>> ELSE IF n \in positions THEN Append(upTo[n - 1], s[n]) ELSE upTo[n - 1]
  IN upTo[Len(s)]

Empty == [data |-> <<>>, total |-> 0]

Bytes(s) == SumOf([i \in DOMAIN s |-> s[i].bytes])
Has(m, k, now) == \E i \in DOMAIN m.data : m.data[i].key = k /\ m.data[i].expires > now
EntryOf(m, k) == m.data[CHOOSE i \in DOMAIN m.data : m.data[i].key = k]

\* the other entries are removed, and their bytes taken from the total
Keep(m, positions) ==
  LET kept == At(m.data, positions)
  IN [data |-> kept, total |-> m.total - (Bytes(m.data) - Bytes(kept))]

Remove(m, k) == Keep(m, {i \in DOMAIN m.data : m.data[i].key # k})

PruneExpired(m, now) == Keep(m, {i \in DOMAIN m.data : m.data[i].expires > now})

\* get(): an expired entry is removed, a live one becomes the most recently used
Get(m, k, now) ==
  IF Has(m, k, now)
  THEN [m EXCEPT !.data = Append(Remove(m, k).data, EntryOf(m, k))]
  ELSE Remove(m, k)

\* Mutant: makes room from the end.
EnforceFromEnd(m, o) ==
  LET fits == {n \in 0 .. Len(m.data) :
                 n <= o.maxEntries /\ Bytes(SubSeq(m.data, 1, n)) <= o.maxBytes}
  IN [data |-> SubSeq(m.data, 1, Max(fits)), total |-> Bytes(SubSeq(m.data, 1, Max(fits)))]

\* enforce(): drops as few of the least recently used entries as the limits ask for
Enforce(m, o) ==
  LET Rest(n) == SubSeq(m.data, n + 1, Len(m.data))
      Left(n) == m.total - Bytes(SubSeq(m.data, 1, n))
      enough == {n \in 0 .. Len(m.data) : Len(m.data) - n <= o.maxEntries /\ Left(n) <= o.maxBytes}
  IN [data |-> Rest(Min(enough)), total |-> Left(Min(enough))]

\* Mutant: the bytes of a replaced entry stay in the total.
ReplacedCounted(m, k) == [Remove(m, k) EXCEPT !.total = m.total]

Replaced(m, k) == Remove(m, k)

\* set() after its maybePrune(); refused when the value alone is over the byte limit
Set(m, k, v, size, now, o) ==
  IF size > o.maxBytes THEN m
  ELSE Enforce([data |-> Append(Replaced(m, k).data,
                           [key |-> k, value |-> v, bytes |-> size, expires |-> now + o.ttl]),
                total |-> Replaced(m, k).total + size], o)

WithinBounds(m, o) ==
  /\ m.total = Bytes(m.data)
  /\ m.total <= o.maxBytes /\ Len(m.data) <= o.maxEntries
  /\ \A i, j \in DOMAIN m.data : m.data[i].key = m.data[j].key => i = j
=============================================================================
