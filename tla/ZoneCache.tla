------------------------------ MODULE ZoneCache ------------------------------
(***************************************************************************)
(* The node-side answer cache (internal/zonecache): a size-bounded LRU map *)
(* whose key includes the asking workload's zone.                          *)
(*                                                                         *)
(* entries is the map; recency lists its keys, least recently used first   *)
(* (the order hashicorp/golang-lru keeps).  Each operation of the code     *)
(* that takes the cache's mutex is one action fragment over both.          *)
(*                                                                         *)
(* A message is a reply of central plus two fields the code does not have, *)
(* kept only for the properties: `at', the time central decided it, and    *)
(* `snap', the registry snapshot it decided from.  Its ttl stands for the  *)
(* least TTL of the answer section.                                        *)
(*                                                                         *)
(* Time is counted in ticks, TicksPerSecond to the second, so that a       *)
(* remaining lifetime need not be a whole number of seconds.               *)
(***************************************************************************)
EXTENDS Central, Functions

CONSTANTS
    MaxEntries,      \* cache_size
    MaxTTL,          \* maxTTL, in seconds
    TicksPerSecond,
    NoEntry          \* absence of a key

ASSUME CacheConstants ==
    /\ MaxEntries \in Nat \ {0}
    /\ MaxTTL \in Nat \ {0}
    /\ TicksPerSecond \in Nat \ {0}

VARIABLES entries, recency

Keys == [qname : Names, qtype : Qtypes, zone : Zones \cup {NoZone}]

Messages ==
    [q : Questions, rcode : Rcodes, data : VIPs \cup {"ordinary", NoData},
     ttl : Nat \cup {NoTTL}, at : Nat, snap : Snapshots]

Entries == [msg : Messages, expiry : Nat]

ASSUME NoEntryIsNoEntry == NoEntry \notin Entries

makeKeyWithoutZone(q, zone) ==
    [qname |-> Lower[q.name], qtype |-> q.qtype, zone |-> NoZone]

makeKey(q, zone) == [qname |-> Lower[q.name], qtype |-> q.qtype, zone |-> zone]

\* New
CacheInit ==
    /\ entries = [k \in Keys |-> NoEntry]
    /\ recency = <<>>

Held(k) == entries[k] # NoEntry

EvictedNothing(k) == {}

\* The key lru.Add pushes out to make room for a key it does not hold.
Evicted(k) == IF Len(recency) = MaxEntries /\ ~Held(k) THEN {Head(recency)} ELSE {}

Position(k) == CHOOSE i \in DOMAIN recency : recency[i] = k

\* k becomes the most recently used key.
Refreshed(k) ==
    LET i == Position(k)
    IN  Append(SubSeq(recency, 1, i - 1) \o SubSeq(recency, i + 1, Len(recency)), k)

Added(k) ==
    IF Held(k) THEN Refreshed(k)
    ELSE Append(IF Len(recency) = MaxEntries THEN Tail(recency) ELSE recency, k)

Lifetime(ttl) == (IF ttl > MaxTTL THEN MaxTTL ELSE ttl) * TicksPerSecond

\* No answer section, or a zero TTL: nothing is stored.
Cacheable(m) == m.data # NoData /\ m.ttl # 0

Put(k, m, now) ==
    IF Cacheable(m)
    THEN /\ entries' = [x \in Keys |->
                IF x = k THEN [msg |-> m, expiry |-> now + Lifetime(m.ttl)]
                ELSE IF x \in Evicted(k) THEN NoEntry ELSE entries[x]]
         /\ recency' = Added(k)
    ELSE UNCHANGED <<entries, recency>>

\* Get finds an unexpired entry; the boundary expiry = now is a miss.
HitsExpired(k, now) == Held(k)

Hits(k, now) == Held(k) /\ entries[k].expiry > now

\* Looking a key up makes it the most recently used, expired or not.
Touch(k) ==
    /\ recency' = IF Held(k) THEN Refreshed(k) ELSE recency
    /\ UNCHANGED entries

\* The copy Get hands out: every TTL becomes the whole seconds left.
CopyOf(k, now) == entries[k].msg

CopySwapped(k, now) ==
    [entries[k].msg EXCEPT !.ttl = (now - entries[k].expiry) \div TicksPerSecond]

Copy(k, now) ==
    [entries[k].msg EXCEPT !.ttl = (entries[k].expiry - now) \div TicksPerSecond]
=============================================================================
