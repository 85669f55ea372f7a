------------------------------ MODULE GuardedFetch ------------------------------
(***************************************************************************)
(* security: every outbound request.  sandbox/NetworkSandbox.ts says which   *)
(* hosts and addresses may be reached, network/guardedFetch.ts resolves a    *)
(* host once, pins the connection to the answers it has checked, follows     *)
(* redirects hop by hop, and gives up after a time without data or too many  *)
(* bytes.  The name service may answer differently each time it is asked.    *)
(***************************************************************************)
EXTENDS Integers, Sequences, FiniteSets

CONSTANTS
  Hosts,          \* names that occur in URLs
  Reserved,       \* those that isBlockedHost knows for local ones
  PublicIps, PrivateIps,   \* what a name may resolve to: quadruples of octets
  MaxHops,        \* maxRedirects of a caller that has it
  MaxBytes,       \* maxResponseBytes, in chunks
  Octets,         \* second and third octets to compare the ranges at
  ProbeStep       \* bound: every so manieth first octet is compared

ASSUME FetchAssumption ==
  /\ Reserved \subseteq Hosts /\ MaxHops \in Nat /\ MaxBytes \in Nat \ {0} /\ ProbeStep \in Nat \ {0}
  /\ Octets \subseteq 0 .. 255

VARIABLES
  policy,         \* [enabled, block, allow]: the sandbox
  fetch,          \* "new", "checking", "resolving", "connecting", "reading", "returned" or "failed";
                  \* "comparing" when no fetch is made and ranges are compared
  target,         \* the host of the current hop
  hops,           \* redirects followed
  allowedHops,    \* maxRedirects, 0 by default and for methods that change something
  pinned,         \* addresses the connection may use
  received,       \* chunks of the current response
  visited,        \* history: (host, address) of every connection
  probe           \* the first octet that ranges are compared at

fetchVars == <<policy, fetch, target, hops, allowedHops, pinned, received, visited, probe>>

-----------------------------------------------------------------------------
\* Mutant: carrier-grade NAT is taken for one sixteenth of its range.
BlockedIpv4Narrow(a, b, c) == a \in {0, 10, 127} \/ a >= 224 \/ (a = 100 /\ b \in 64 .. 95)

BlockedIpv4(a, b, c) ==
  \/ a \in {0, 10, 127} \/ a >= 224
  \/ a = 100 /\ b \in 64 .. 127
  \/ a = 169 /\ b = 254
  \/ a = 172 /\ b \in 16 .. 31
  \/ a = 192 /\ b = 168
  \/ a = 192 /\ b = 0 /\ c \in {0, 2}
  \/ a = 192 /\ b = 88 /\ c = 99
  \/ a = 198 /\ b \in {18, 19}
  \/ a = 198 /\ b = 51 /\ c = 100
  \/ a = 203 /\ b = 0 /\ c = 113

\* eight groups of 16 bits; some prefixes carry an IPv4 address in the last two
BlockedIpv6(g) ==
  LET zero(from, to) == \A i \in from .. to : g[i] = 0
      embedded == BlockedIpv4(g[7] \div 256, g[7] % 256, g[8] \div 256)
      mapped == \/ zero(1, 5) /\ g[6] = 65535            \* ::ffff:0:0/96
                \/ zero(1, 4) /\ g[5] = 65535 /\ g[6] = 0
                \/ zero(1, 6)
                \/ g[1] = 100 /\ g[2] = 65435 /\ zero(3, 5)   \* 64:ff9b::/96
  IN \/ zero(1, 7) /\ g[8] \in {0, 1}
     \/ mapped /\ embedded
     \/ ~mapped /\ \/ g[1] = 100 /\ g[2] = 65435 /\ g[3] = 1
                   \/ g[1] = 8194                             \* 2002::/16
                   \/ g[1] = 8193 /\ g[2] \in {0, 2, 3512} \cup 16 .. 47
                   \/ g[1] = 256 /\ zero(2, 4)
                   \/ g[1] = 16383 /\ g[2] < 4096             \* 3fff::/20
                   \/ g[1] \div 512 = 126                     \* fc00::/7
                   \/ g[1] \div 64 \in {1018, 1019}           \* fe80::/10, fec0::/10
                   \/ g[1] \div 256 = 255

BlockedIp(ip) == IF Len(ip) = 4 THEN BlockedIpv4(ip[1], ip[2], ip[3]) ELSE BlockedIpv6(ip)

IsAllowed(host) ==
  /\ policy.block => host \notin Reserved
  /\ ~policy.enabled \/ policy.allow = {} \/ host \in policy.allow

-----------------------------------------------------------------------------
\* a caller's own sandbox, the escape hatch for local endpoints, or the environment's
FetchInit ==
  /\ policy \in [enabled : {TRUE}, block : {TRUE}, allow : SUBSET Hosts]
       \cup {[enabled |-> FALSE, block |-> b, allow |-> {}] : b \in BOOLEAN}
  /\ fetch \in {"new", "comparing"} /\ target \in Hosts /\ hops = 0
  /\ fetch = "comparing" => ~policy.block /\ target \in Reserved
  /\ allowedHops \in {0, MaxHops}
  /\ pinned = {} /\ received = 0 /\ visited = {}
  /\ probe = 0

Call ==
  /\ fetch = "new"
  /\ fetch' = "checking"
  /\ UNCHANGED <<policy, target, hops, allowedHops, pinned, received, visited, probe>>

Fails ==
  /\ fetch' = "failed"
  /\ UNCHANGED <<policy, target, hops, allowedHops, pinned, received, visited, probe>>

Check ==
  /\ fetch = "checking"
  /\ IF IsAllowed(target)
       THEN /\ fetch' = "resolving"
            /\ UNCHANGED <<policy, target, hops, allowedHops, pinned, received, visited, probe>>
       ELSE Fails

\* Mutant: one answer that may be reached is enough.
AnswerOkOnce(answers) == \E ip \in answers : ~(policy.block /\ BlockedIp(ip))

AnswerOk(answers) == \A ip \in answers : ~(policy.block /\ BlockedIp(ip))

\* every answer is checked, and one that is blocked, none or an error ends the fetch
Resolve ==
  /\ fetch = "resolving"
  /\ \E answers \in SUBSET (PublicIps \cup PrivateIps) :
       IF answers # {} /\ AnswerOk(answers)
         THEN /\ fetch' = "connecting" /\ pinned' = answers
              /\ UNCHANGED <<policy, target, hops, allowedHops, received, visited, probe>>
         ELSE Fails

Connect ==
  /\ fetch = "connecting"
  /\ \E ip \in pinned : visited' = visited \cup {<<target, ip>>}
  /\ fetch' = "reading" /\ received' = 0
  /\ UNCHANGED <<policy, target, hops, allowedHops, pinned, probe>>

\* Mutant: the cap is looked at when the response has ended.
WithinAtEnd == TRUE

Within == received < MaxBytes

Chunk ==
  /\ fetch = "reading"
  /\ IF Within
       THEN /\ received' = received + 1
            /\ UNCHANGED <<policy, fetch, target, hops, allowedHops, pinned, visited, probe>>
       ELSE Fails

\* no data for timeoutMs, the connection is refused or breaks, or the caller aborts; a timer
\* starts again with every chunk
TimedOut == fetch \in {"connecting", "reading"} /\ Fails

\* the response is complete
Returned ==
  /\ fetch' = "returned"
  /\ UNCHANGED <<policy, target, hops, allowedHops, pinned, received, visited, probe>>

\* a redirect that may be followed is the next hop, when its host is allowed
End ==
  /\ fetch = "reading"
  /\ \E next \in Hosts \cup {""} :
       IF next = "" \/ hops = allowedHops
         THEN Returned
         ELSE IF IsAllowed(next)
           THEN /\ fetch' = "checking" /\ target' = next /\ hops' = hops + 1
                /\ UNCHANGED <<policy, allowedHops, pinned, received, visited, probe>>
           ELSE Fails

Probe ==
  /\ fetch = "comparing" /\ probe + ProbeStep <= 255
  /\ probe' = probe + ProbeStep
  /\ UNCHANGED <<policy, fetch, target, hops, allowedHops, pinned, received, visited>>

FetchNext == Call \/ Check \/ Resolve \/ Connect \/ Chunk \/ TimedOut \/ End \/ Probe

FetchProgress == Check \/ Resolve \/ Connect \/ TimedOut

-----------------------------------------------------------------------------
\* The special-use ranges of RFC 6890 and its successors: first address and prefix length.
SpecialUse ==
  {<<0, 0, 0, 8>>, <<10, 0, 0, 8>>, <<100, 64, 0, 10>>, <<127, 0, 0, 8>>, <<169, 254, 0, 16>>,
   <<172, 16, 0, 12>>, <<192, 0, 0, 24>>, <<192, 0, 2, 24>>, <<192, 88, 99, 24>>, <<192, 168, 0, 16>>,
   <<198, 18, 0, 15>>, <<198, 51, 100, 24>>, <<203, 0, 113, 24>>, <<224, 0, 0, 3>>}

InRange(a, b, c, r) ==
  LET bits(x, y, z) == x * 65536 + y * 256 + z
      unit == 2 ^ (24 - r[4])
  IN bits(a, b, c) \div unit = bits(r[1], r[2], r[3]) \div unit

\* prefixes that carry an IPv4 address: ::ffff:0:0/96 and 64:ff9b::/96
Mapped == <<0, 0, 0, 0, 0, 65535>>
Nat64 == <<100, 65435, 0, 0, 0, 0>>

\* The sandbox blocks the addresses of the registry's ranges, and an address that an IPv6
\* address carries like itself.
BlocksTheRegistry(a, b, c) ==
  LET inside == \E r \in SpecialUse : InRange(a, b, c, r)
  IN /\ BlockedIpv4(a, b, c) <=> inside
     /\ \A prefix \in {Mapped, Nat64} : BlockedIpv6(prefix \o <<a * 256 + b, c * 256>>) <=> inside

\* However names are resolved and redirected, a connection is made only to an allowed host at
\* an address that may be reached, with no more redirects and bytes than the caller allows;
\* the ranges are those of the registry, and an embedded address is judged like its own.
FetchSound ==
  /\ \A v \in visited : (policy.block => v[1] \notin Reserved /\ ~BlockedIp(v[2]))
                        /\ (policy.enabled /\ policy.allow # {} => v[1] \in policy.allow)
  /\ hops <= allowedHops /\ received <= MaxBytes
  /\ fetch = "comparing" => \A b, c \in Octets : BlocksTheRegistry(probe, b, c)
=============================================================================
