----------------------------- MODULE AgentProofs -----------------------------
(***************************************************************************)
(* Zone isolation, the propagation bound and the coherence of the cache,   *)
(* for any number of concurrent queries, zones, names, registries and      *)
(* cache sizes.                                                            *)
(*                                                                         *)
(* ZoneIsolation speaks of answers given to clients.  It is not inductive: *)
(* what a client is given depends on what the cache holds and on what      *)
(* other queries in flight are about to put there.  IInv extends the claim *)
(* to both.                                                                *)
(***************************************************************************)
EXTENDS Agent, DataLemmas

\* The OPT record of a query that left the agent declares z and nothing else.
Declares(o, z) ==
    IF z = NoZone THEN o = NoOpt \/ o[Code] = <<>>
    ELSE o # NoOpt /\ o[Code] = <<z>>

\* m may be given to a workload of zone z that asks for the name.
Fits(m, name, qtype, z) == m.data \in Permitted(name, qtype, SeenZone(z), m.snap)

HasTTL(m) == m.ttl = NoTTL <=> m.data = NoData

MaxAge == MaxTTL * TicksPerSecond

\* Every entry fits its key's zone and expires within maxTTL of the decision.
CacheInv ==
    \A k \in Keys : Held(k) =>
        /\ Fits(entries[k].msg, k.qname, k.qtype, k.zone)
        /\ entries[k].expiry <= entries[k].msg.at + MaxAge

\* A query's clock reading is past; what it declared is its zone; the reply it
\* waits for fits that zone and is not older than the query; so is the reply
\* it gave, unless it came from the cache.
QueryInv(t) ==
    /\ now[t] <= clock
    /\ pc[t] \in {"exchange", "decided"} => Declares(opt[t], zone[t])
    /\ pc[t] = "decided" =>
          /\ answer[t] \in Messages /\ HasTTL(answer[t])
          /\ Fits(answer[t], Lower[answer[t].q.name], answer[t].q.qtype, zone[t])
          /\ now[t] <= answer[t].at
    /\ pc[t] \in Answered =>
          /\ answer[t] \in Messages
          /\ Fits(answer[t], Lower[req[t].name], req[t].qtype, zone[t])
          /\ now[t] < answer[t].at + MaxAge
    /\ pc[t] = "hit" => now[t] + answer[t].ttl * TicksPerSecond <= answer[t].at + MaxAge

IInv == TypeOK /\ LRUCoherent /\ CacheInv /\ \A t \in Threads : QueryInv(t)

\* Every key a query looks up is a key of the cache.
LEMMA KeyType == ASSUME TypeOK, NEW t \in Threads PROVE Key(t) \in Keys
BY CentralConstants DEF TypeOK, Key, makeKey, Keys, Questions

\* maxTTL is a positive number of ticks.
LEMMA MaxAgeType == MaxAge \in Nat /\ MaxAge > 0
BY CacheConstants DEF MaxAge

-----------------------------------------------------------------------------
(***************************************************************************)
(* The declaration, and central's answer to it.                            *)
(***************************************************************************)
\* stripZoneOption followed by Set: whatever the client attached, the query
\* that leaves the agent declares the agent's zone or nothing.
LEMMA DeclareDeclares ==
    ASSUME NEW o \in Opts, NEW z \in Zones \cup {NoZone}
    PROVE  Declare(o, z) \in Opts /\ Declares(Declare(o, z), z)
<1> USE CentralConstants, ZoneNames, NoOptIsNoRecord
<1> DEFINE s == stripZoneOption(o, Code)
           F == [Codes -> Seq(Zones \cup BadZones)]
<1>1. s = NoOpt \/ (s \in F /\ s[Code] = <<>>)
  BY DEF stripZoneOption, Opts
<1>2. CASE z = NoZone
  BY <1>1, <1>2 DEF Declare, Declares, Opts
<1>3. CASE z # NoZone
  <2>1. (IF s = NoOpt THEN EmptyOpt ELSE s) \in F
    BY <1>1 DEF EmptyOpt
  <2>2. Set(s, Code, z) \in F /\ Set(s, Code, z)[Code] = <<z>>
    BY <1>3, <2>1 DEF Set
  <2> QED
    BY <1>3, <2>2 DEF Declare, Declares, Opts
<1> QED
  BY <1>2, <1>3

\* SPIFFEIDFromCert on the leaf: exactly the certificates with one identity,
\* an authorized one, pass.
LEMMA TrustedIsAuthorized ==
    ASSUME NEW conn \in Connections, NoID \notin Authorized
    PROVE  Trusted(conn) <=> /\ PeerCertificates(conn) # <<>>
                             /\ SPIFFEIDFromCert(PeerCertificates(conn)[1]) \in Authorized
<1>1. ASSUME conn.chain # <<>>
      PROVE  (\E a \in Authorized : conn.chain[1] = <<[scheme |-> "spiffe", id |-> a]>>)
                <=> SPIFFEIDFromCert(conn.chain[1]) \in Authorized
  <2> DEFINE cert == conn.chain[1]
  <2>1. cert \in Seq([scheme : STRING, id : STRING])
    BY <1>1 DEF Connections, Certificates
  <2>2. ASSUME NEW a \in Authorized, cert = <<[scheme |-> "spiffe", id |-> a]>>
        PROVE  SPIFFEIDFromCert(cert) \in Authorized
    BY <2>2 DEF SPIFFEIDFromCert
  <2>3. ASSUME SPIFFEIDFromCert(cert) \in Authorized
        PROVE  \E a \in Authorized : cert = <<[scheme |-> "spiffe", id |-> a]>>
    <3>1. Len(cert) = 1 /\ cert[1].scheme = "spiffe" /\ cert[1].id \in Authorized
      BY <2>3 DEF SPIFFEIDFromCert
    <3>2. cert[1] \in [scheme : STRING, id : STRING]
      <4>1. \A S : \A s \in Seq(S) : Len(s) = 1 => s[1] \in S
        OBVIOUS
      <4> HIDE DEF cert
      <4> QED
        BY <2>1, <3>1, <4>1, Zenon
    <3>3. cert[1] = [scheme |-> "spiffe", id |-> cert[1].id]
      BY <3>1, <3>2
    <3>4. cert = <<[scheme |-> "spiffe", id |-> cert[1].id]>>
      BY <2>1, <3>1, <3>3
    <3> QED
      BY <3>1, <3>4
  <2> QED
    BY <2>2, <2>3, Zenon
<1> QED
  BY <1>1, Zenon DEF Trusted, PeerCertificates

\* identity.SourceZone reads back the declared zone, from an authorized agent.
LEMMA SourceIsSeen ==
    ASSUME peer \in Peers, NEW o, NEW z \in Zones \cup {NoZone}, Declares(o, z)
    PROVE  SourceZone(peer, o) = SeenZone(z)
<1>1. Get(o, Code) = z
  <2>1. CASE z = NoZone
    BY <2>1 DEF Declares, Get
  <2>2. CASE z # NoZone
    BY <2>2 DEF Declares, Get, Valid
  <2> QED
    BY <2>1, <2>2
<1>2. Trusted(peer) <=> /\ PeerCertificates(peer) # <<>>
                        /\ SPIFFEIDFromCert(PeerCertificates(peer)[1]) \in Authorized
  BY TrustedIsAuthorized, CentralConstants
<1> QED
  BY <1>1, <1>2 DEF SourceZone, Reason, SeenZone

\* Central's ServeDNS: the answer to a query that declares z is permitted for
\* z under the snapshot it was decided from.
LEMMA CentralPermits ==
    ASSUME peer \in Peers, NEW q \in Questions, NEW o,
           NEW z \in Zones \cup {NoZone}, Declares(o, z),
           NEW snap \in Snapshots, NEW r \in ServeDNS(q, o, peer, snap)
    PROVE  /\ r \in Replies /\ HasTTL(r)
           /\ r.data \in Permitted(Lower[q.name], q.qtype, SeenZone(z), snap)
<1> DEFINE dest == Lookup(snap, q.name)
           source == SeenZone(z)
           cross == CrossZone(Lower[q.name], q.qtype, source, snap)
<1> USE CentralConstants, ZoneNames
<1>1. SourceZone(peer, o) = source /\ source \in Zones \cup {NoZone}
  BY SourceIsSeen DEF SeenZone
<1>2. Lower[q.name] \in Names
  BY DEF Questions
<1>3. dest \in Zones \cup {NoZone} /\ (snap # NotReady => dest = snap[Lower[q.name]])
  BY <1>2 DEF Lookup, Snapshots
<1>4. ASSUME r \in Downstream, ~cross
      PROVE  /\ r \in Replies /\ HasTTL(r)
             /\ r.data \in Permitted(Lower[q.name], q.qtype, source, snap)
  <2>1. r \in Replies /\ HasTTL(r) /\ r.data \in {"ordinary", NoData}
    BY <1>4 DEF Replies, HasTTL
  <2> QED
    BY <1>4, <2>1 DEF Permitted
<1>5. CASE q.qtype \notin {"A", "AAAA"}
  BY <1>4, <1>5 DEF ServeDNS, CrossZone
<1>6. CASE q.qtype \in {"A", "AAAA"} /\ (source = NoZone \/ dest = NoZone \/ source = dest)
  <2>1. Decide(source, dest) = "passthrough"
    BY <1>6 DEF Decide
  <2>2. r \in Downstream
    BY <1>1, <1>6, <2>1 DEF ServeDNS
  <2>3. ~cross
    BY <1>3, <1>6 DEF CrossZone
  <2> QED
    BY <1>4, <2>2, <2>3
<1>7. CASE /\ q.qtype \in {"A", "AAAA"}
           /\ source # NoZone /\ dest \notin {NoZone, source}
  <2>1. cross /\ dest = snap[Lower[q.name]]
    BY <1>3, <1>7 DEF CrossZone, Lookup
  <2>2. CASE ~HasGateway(dest)
    <3>1. Decide(source, dest) = "servfail"
      BY <1>7, <2>2 DEF Decide
    <3>2. r = Servfail
      BY <1>1, <1>7, <3>1 DEF ServeDNS
    <3> QED
      BY <2>1, <3>2 DEF Servfail, Replies, Rcodes, HasTTL, Permitted
  <2>3. CASE HasGateway(dest)
    <3>1. Decide(source, dest) = "gateway"
      BY <1>7, <2>3 DEF Decide
    <3>2. r = answerGateway(q, Gateways[dest])
      BY <1>1, <1>7, <3>1 DEF ServeDNS
    <3>3. Gateways[dest] \in VIPs
      BY <2>3 DEF HasGateway, VIPs
    <3> QED
      BY <2>1, <2>3, <3>2, <3>3
      DEF answerGateway, Replies, Rcodes, HasTTL, Permitted, HasGateway
  <2> QED
    BY <2>2, <2>3
<1> QED
  BY <1>3, <1>5, <1>6, <1>7
-----------------------------------------------------------------------------
(***************************************************************************)
(* The cache.                                                              *)
(***************************************************************************)
\* A key that is held has a position, and refreshing it keeps the list.
LEMMA RefreshKeeps ==
    ASSUME TypeOK, LRUCoherent, NEW k \in Keys, Held(k)
    PROVE  /\ Refreshed(k) \in Seq(Keys) /\ Len(Refreshed(k)) = Len(recency)
           /\ IsInjective(Refreshed(k)) /\ Range(Refreshed(k)) = Range(recency)
<1>1. Position(k) \in DOMAIN recency /\ recency[Position(k)] = k
  BY DEF LRUCoherent, Position, Held, Range
<1>2. recency \in Seq(Keys) /\ IsInjective(recency)
  BY DEF TypeOK, LRUCoherent
<1>3. Position(k) \in 1 .. Len(recency)
  BY <1>1, <1>2
<1>4. LET i == Position(k)
      IN  Refreshed(k) = Append(SubSeq(recency, 1, i - 1) \o SubSeq(recency, i + 1, Len(recency)),
                                recency[i])
  BY <1>1 DEF Refreshed
<1> QED
  BY <1>2, <1>3, <1>4, RefreshedSeq, Zenon

\* Cache.Get's effect on the LRU, hit or miss.
LEMMA TouchKeeps ==
    ASSUME TypeOK, LRUCoherent, NEW k \in Keys, Touch(k)
    PROVE  recency' \in Seq(Keys) /\ LRUCoherent' /\ entries' = entries
<1>1. CASE Held(k)
  BY <1>1, RefreshKeeps DEF Touch, LRUCoherent
<1>2. CASE ~Held(k)
  BY <1>2 DEF Touch, LRUCoherent, TypeOK
<1> QED
  BY <1>1, <1>2

\* The list after Cache.Put: what was held, less the evicted key, and k.
LEMMA AddedKeeps ==
    ASSUME TypeOK, LRUCoherent, NEW k \in Keys
    PROVE  /\ Added(k) \in Seq(Keys) /\ Len(Added(k)) <= MaxEntries /\ IsInjective(Added(k))
           /\ Range(Added(k)) = (Range(recency) \ Evicted(k)) \cup {k}
<1> USE CacheConstants
<1>1. recency \in Seq(Keys) /\ IsInjective(recency) /\ Len(recency) <= MaxEntries
  BY DEF TypeOK, LRUCoherent
<1>2. Held(k) <=> k \in Range(recency)
  BY DEF LRUCoherent, Held
<1>3. CASE Held(k)
  <2>1. Added(k) = Refreshed(k) /\ Evicted(k) = {}
    BY <1>3 DEF Added, Evicted
  <2> QED
    BY <1>1, <1>2, <1>3, <2>1, RefreshKeeps
<1>4. CASE ~Held(k) /\ Len(recency) = MaxEntries
  <2> DEFINE s == Tail(recency)
  <2>1. Added(k) = Append(s, k) /\ Evicted(k) = {Head(recency)}
    BY <1>4 DEF Added, Evicted
  <2>2. recency # <<>>
    BY <1>1, <1>4
  <2>3. /\ s \in Seq(Keys) /\ Len(s) = Len(recency) - 1 /\ IsInjective(s)
        /\ Range(s) = Range(recency) \ {Head(recency)}
    BY <1>1, <2>2, TailSeq
  <2> HIDE DEF s
  <2>4. /\ Added(k) \in Seq(Keys) /\ Len(Added(k)) = Len(s) + 1 /\ IsInjective(Added(k))
        /\ Range(Added(k)) = Range(s) \cup {k}
    <3>1. k \notin Range(s)
      BY <1>2, <1>4, <2>3
    <3> QED
      BY <2>1, <2>3, <3>1, AppendedSeq
  <2>5. Len(Added(k)) <= MaxEntries
    BY <1>1, <2>3, <2>4
  <2> QED
    BY <2>1, <2>3, <2>4, <2>5
<1>5. CASE ~Held(k) /\ Len(recency) # MaxEntries
  <2>1. Added(k) = Append(recency, k) /\ Evicted(k) = {}
    BY <1>5 DEF Added, Evicted
  <2>2. /\ Added(k) \in Seq(Keys) /\ Len(Added(k)) = Len(recency) + 1 /\ IsInjective(Added(k))
        /\ Range(Added(k)) = Range(recency) \cup {k}
    BY <1>1, <1>2, <1>5, <2>1, AppendedSeq
  <2>3. Len(Added(k)) <= MaxEntries
    BY <1>1, <1>5, <2>2
  <2> QED
    BY <2>1, <2>2, <2>3
<1> QED
  BY <1>3, <1>4, <1>5

\* Cache.Put of a reply that fits the key and is not older than the query.
LEMMA PutKeeps ==
    ASSUME TypeOK, CacheInv, LRUCoherent, peer' = peer,
           NEW k \in Keys, NEW m \in Messages, NEW n \in Nat, Put(k, m, n),
           HasTTL(m), Fits(m, k.qname, k.qtype, k.zone), n <= m.at
    PROVE  /\ entries' \in [Keys -> Entries \cup {NoEntry}] /\ recency' \in Seq(Keys)
           /\ CacheInv' /\ LRUCoherent'
<1> USE CacheConstants, CentralConstants, NoEntryIsNoEntry
<1>1. CASE ~Cacheable(m)
  BY <1>1 DEF Put, TypeOK, CacheInv, LRUCoherent, Held, Fits, SeenZone
<1>2. CASE Cacheable(m)
  <2> DEFINE e == [msg |-> m, expiry |-> n + Lifetime(m.ttl)]
  <2>1. m.ttl \in Nat /\ m.at \in Nat
    BY <1>2 DEF Cacheable, HasTTL, Messages
  <2>2. Lifetime(m.ttl) \in Nat /\ Lifetime(m.ttl) <= MaxAge
    BY <2>1, Scaling DEF Lifetime, MaxAge
  <2>3. e \in Entries /\ e.msg = m /\ e.expiry <= m.at + MaxAge
    BY <2>1, <2>2, MaxAgeType DEF Entries
  <2>4. /\ entries' = [x \in Keys |-> IF x = k THEN e
                          ELSE IF x \in Evicted(k) THEN NoEntry ELSE entries[x]]
        /\ recency' = Added(k)
    BY <1>2 DEF Put
  <2> HIDE DEF e
  <2>5. entries' \in [Keys -> Entries \cup {NoEntry}]
    BY <2>3, <2>4 DEF TypeOK
  <2>6. \A x \in Keys : Held(x)' <=> x = k \/ (Held(x) /\ x \notin Evicted(k))
    BY <2>3, <2>4 DEF Held
  <2>7. recency' \in Seq(Keys) /\ LRUCoherent'
    BY <2>4, <2>6, AddedKeeps DEF LRUCoherent, Held
  <2>8. ASSUME NEW x \in Keys, Held(x)'
        PROVE  /\ Fits(entries[x].msg, x.qname, x.qtype, x.zone)'
               /\ (entries[x].expiry <= entries[x].msg.at + MaxAge)'
    <3>1. CASE x = k
      BY <2>3, <2>4, <3>1 DEF Fits, SeenZone
    <3>2. CASE x # k
      BY <2>4, <2>6, <2>8, <3>2 DEF CacheInv, Fits, SeenZone, Held
    <3> QED
      BY <3>1, <3>2
  <2> QED
    BY <2>5, <2>7, <2>8 DEF CacheInv
<1> QED
  BY <1>1, <1>2
-----------------------------------------------------------------------------
(***************************************************************************)
(* The steps.                                                              *)
(***************************************************************************)
\* A query none of whose locals a step changes keeps its invariant.
LEMMA Bystander ==
    ASSUME TypeOK, NEW u \in Threads, QueryInv(u),
           peer' = peer, clock' \in Nat, clock <= clock',
           pc'[u] = pc[u], req'[u] = req[u], opt'[u] = opt[u], zone'[u] = zone[u],
           now'[u] = now[u], answer'[u] = answer[u]
    PROVE  QueryInv(u)'
<1>1. now[u] \in Nat /\ clock \in Nat
  BY DEF TypeOK
<1>2. (now[u] <= clock)'
  BY <1>1 DEF QueryInv
<1> QED
  BY <1>2, Zenon DEF QueryInv, Fits, SeenZone

\* The same for all queries but one, in a step of thread t.
LEMMA Bystanders ==
    ASSUME IInv, NEW t \in Threads, envVars' = envVars,
           \A u \in Threads \ {t} :
              /\ pc'[u] = pc[u] /\ req'[u] = req[u] /\ opt'[u] = opt[u]
              /\ zone'[u] = zone[u] /\ now'[u] = now[u] /\ answer'[u] = answer[u]
    PROVE  \A u \in Threads \ {t} : QueryInv(u)'
<1> SUFFICES ASSUME NEW u \in Threads \ {t} PROVE QueryInv(u)'
  OBVIOUS
<1>1. clock' = clock /\ peer' = peer /\ clock \in Nat /\ clock <= clock'
  BY DEF envVars, IInv, TypeOK
<1> QED
  BY <1>1, Bystander DEF IInv

\* A step that leaves the map alone keeps what is true of its entries.
LEMMA CacheUntouched ==
    ASSUME CacheInv, entries' = entries, peer' = peer
    PROVE  CacheInv'
BY DEF CacheInv, Held, Fits, SeenZone

\* Time passing, and central's registry changing under the queries.
LEMMA Environment ==
    ASSUME IInv, Tick \/ Replace
    PROVE  IInv'
<1> USE AgentConstants
<1>1. /\ threadVars' = threadVars /\ cacheVars' = cacheVars /\ peer' = peer
      /\ clock' \in Nat /\ clock <= clock' /\ store' \in Snapshots
  BY DEF Tick, Replace, IInv, TypeOK
<1>2. TypeOK' /\ LRUCoherent'
  BY <1>1 DEF IInv, TypeOK, LRUCoherent, threadVars, cacheVars
<1>3. CacheInv'
  BY <1>1, CacheUntouched DEF IInv, cacheVars
<1>4. ASSUME NEW u \in Threads PROVE QueryInv(u)'
  BY <1>1, Bystander DEF IInv, threadVars
<1> QED
  BY <1>2, <1>3, <1>4 DEF IInv

\* A query arrives and reads the clock.
LEMMA ReceiveStep ==
    ASSUME IInv, NEW t \in Threads, Receive(t)
    PROVE  IInv'
<1> USE AgentConstants
<1>1. PICK q \in Questions, o \in ClientOpts, z \in Zones \cup {NoZone} :
          /\ req' = [req EXCEPT ![t] = q] /\ opt' = [opt EXCEPT ![t] = o]
          /\ zone' = [zone EXCEPT ![t] = z]
  BY Zenon DEF Receive, resolveZone
<1>2. /\ now' = [now EXCEPT ![t] = clock] /\ answer' = [answer EXCEPT ![t] = NoMessage]
      /\ pc' = [pc EXCEPT ![t] = "lookup"] /\ UNCHANGED <<cacheVars, envVars>>
  BY DEF Receive
<1>3. TypeOK'
  BY <1>1, <1>2 DEF IInv, TypeOK, Waiting, Finished, Answered, cacheVars, envVars
<1>4. LRUCoherent' /\ CacheInv'
  BY <1>2, CacheUntouched DEF IInv, LRUCoherent, cacheVars, envVars
<1>5. QueryInv(t)'
  <2>1. pc'[t] = "lookup" /\ now'[t] = clock /\ clock' = clock /\ clock \in Nat
    BY <1>2 DEF IInv, TypeOK, envVars
  <2> QED
    BY <2>1 DEF QueryInv, Answered
<1>6. \A u \in Threads \ {t} : QueryInv(u)'
  BY <1>1, <1>2, Bystanders, Zenon DEF IInv, TypeOK
<1> QED
  BY <1>3, <1>4, <1>5, <1>6 DEF IInv
\* The answer of a cache hit: Get's copy of an unexpired entry.
LEMMA HitStep ==
    ASSUME IInv, NEW t \in Threads, Hit(t)
    PROVE  IInv'
<1> DEFINE k == Key(t)
           e == entries[k]
           m == [Copy(k, now[t]) EXCEPT !.q = req[t]]
           left == e.expiry - now[t]
<1> USE CacheConstants, MaxAgeType
<1>1. k \in Keys /\ k = makeKey(req[t], zone[t])
  BY KeyType DEF IInv, Key
<1>2. Held(k) /\ e.expiry > now[t] /\ Touch(k)
  BY DEF Hit, Hits
<1>3. e \in Entries /\ e.msg \in Messages /\ e.expiry \in Nat /\ now[t] \in Nat
  BY <1>1, <1>2 DEF IInv, TypeOK, Held, Entries
<1>4. Fits(e.msg, k.qname, k.qtype, k.zone) /\ e.expiry <= e.msg.at + MaxAge
  BY <1>1, <1>2 DEF IInv, CacheInv
<1>5. left \in Nat /\ left \div TicksPerSecond \in Nat
      /\ (left \div TicksPerSecond) * TicksPerSecond <= left
  BY <1>2, <1>3, Flooring
<1>6. /\ m \in Messages /\ m.data = e.msg.data /\ m.snap = e.msg.snap
      /\ m.at = e.msg.at /\ m.at \in Nat /\ m.ttl = left \div TicksPerSecond
  BY <1>3, <1>5, Zenon DEF Copy, Messages, IInv, TypeOK
<1> HIDE DEF m, left, e
<1>7. now[t] < m.at + MaxAge /\ now[t] + m.ttl * TicksPerSecond <= m.at + MaxAge
  BY <1>2, <1>3, <1>4, <1>5, <1>6 DEF left
<1>8. Fits(m, Lower[req[t].name], req[t].qtype, zone[t])
  BY <1>1, <1>4, <1>6 DEF Fits, makeKey
<1>9. /\ pc' = [pc EXCEPT ![t] = "hit"] /\ answer' = [answer EXCEPT ![t] = m]
      /\ opt' = [opt EXCEPT ![t] = NoOpt] /\ UNCHANGED <<req, zone, now, envVars>>
  BY DEF Hit, Finish, m
<1> HIDE DEF k
<1>10. recency' \in Seq(Keys) /\ LRUCoherent' /\ entries' = entries
  BY <1>1, <1>2, TouchKeeps DEF IInv
<1>11. TypeOK'
  BY <1>6, <1>9, <1>10, Zenon DEF IInv, TypeOK, Finished, Answered, Opts, envVars
<1>12. CacheInv'
  BY <1>9, <1>10, CacheUntouched DEF IInv, envVars
<1>13. QueryInv(t)'
  <2>1. /\ pc'[t] = "hit" /\ answer'[t] = m /\ now'[t] = now[t] /\ req' = req
        /\ zone' = zone /\ clock' = clock /\ peer' = peer
    BY <1>9 DEF IInv, TypeOK, envVars
  <2>2. now[t] <= clock
    BY DEF IInv, QueryInv
  <2> QED
    BY <1>6, <1>7, <1>8, <2>1, <2>2 DEF QueryInv, Fits, SeenZone
<1>14. \A u \in Threads \ {t} : QueryInv(u)'
  BY <1>9, Bystanders DEF IInv, TypeOK
<1> QED
  BY <1>10, <1>11, <1>12, <1>13, <1>14 DEF IInv

\* A miss: the query goes out with the agent's own declaration.
LEMMA MissStep ==
    ASSUME IInv, NEW t \in Threads, Miss(t)
    PROVE  IInv'
<1> DEFINE o == Declare(opt[t], zone[t])
<1>1. Key(t) \in Keys /\ Touch(Key(t))
  BY KeyType DEF IInv, Miss
<1>2. o \in Opts /\ Declares(o, zone[t])
  BY DeclareDeclares DEF IInv, TypeOK
<1>3. /\ opt' = [opt EXCEPT ![t] = o] /\ pc' = [pc EXCEPT ![t] = "exchange"]
      /\ UNCHANGED <<req, zone, now, answer, envVars>>
  BY DEF Miss
<1> HIDE DEF o
<1>4. recency' \in Seq(Keys) /\ LRUCoherent' /\ entries' = entries
  BY <1>1, TouchKeeps DEF IInv
<1>5. TypeOK'
  BY <1>2, <1>3, <1>4 DEF IInv, TypeOK, Waiting, envVars
<1>6. CacheInv'
  BY <1>3, <1>4, CacheUntouched DEF IInv, envVars
<1>7. QueryInv(t)'
  <2>1. /\ pc'[t] = "exchange" /\ opt'[t] = o
        /\ now' = now /\ zone' = zone /\ clock' = clock
    BY <1>3 DEF IInv, TypeOK, envVars
  <2>2. now[t] <= clock
    BY DEF IInv, QueryInv
  <2> QED
    BY <1>2, <2>1, <2>2 DEF QueryInv, Answered
<1>8. \A u \in Threads \ {t} : QueryInv(u)'
  BY <1>3, Bystanders DEF IInv, TypeOK
<1> QED
  BY <1>4, <1>5, <1>6, <1>7, <1>8 DEF IInv

\* Central decides, from its registry as it stands now.
LEMMA ServeStep ==
    ASSUME IInv, NEW t \in Threads, Serve(t)
    PROVE  IInv'
<1>0. PICK q \in Questions : \E r \in ServeDNS(q, opt[t], peer, store) :
          answer' = [answer EXCEPT ![t] =
              [q |-> q, rcode |-> r.rcode, data |-> r.data, ttl |-> r.ttl,
               at |-> clock, snap |-> store]]
  BY Zenon DEF Serve
<1>1. PICK r \in ServeDNS(q, opt[t], peer, store) :
          answer' = [answer EXCEPT ![t] =
              [q |-> q, rcode |-> r.rcode, data |-> r.data, ttl |-> r.ttl,
               at |-> clock, snap |-> store]]
  BY <1>0, Zenon
<1>2. pc[t] = "exchange" /\ pc' = [pc EXCEPT ![t] = "decided"]
      /\ UNCHANGED <<req, opt, zone, now, cacheVars, envVars>>
  BY DEF Serve
<1> DEFINE m == [q |-> q, rcode |-> r.rcode, data |-> r.data, ttl |-> r.ttl,
                 at |-> clock, snap |-> store]
<1>3. /\ r \in Replies /\ HasTTL(r)
      /\ r.data \in Permitted(Lower[q.name], q.qtype, SeenZone(zone[t]), store)
  BY <1>2, CentralPermits, Zenon DEF IInv, TypeOK, QueryInv
<1>4. m \in Messages /\ HasTTL(m) /\ Fits(m, Lower[m.q.name], m.q.qtype, zone[t])
  BY <1>3, Zenon DEF IInv, TypeOK, Messages, Replies, HasTTL, Fits
<1>5. answer' = [answer EXCEPT ![t] = m] /\ m.at = clock
  BY <1>1
<1> HIDE DEF m
<1>6. TypeOK'
  BY <1>2, <1>4, <1>5, Zenon DEF IInv, TypeOK, Waiting, cacheVars, envVars
<1>7. LRUCoherent' /\ CacheInv'
  BY <1>2, CacheUntouched DEF IInv, LRUCoherent, cacheVars, envVars
<1>8. QueryInv(t)'
  <2>1. /\ pc'[t] = "decided" /\ answer'[t] = m /\ now' = now /\ opt' = opt
        /\ zone' = zone /\ clock' = clock /\ peer' = peer
    BY <1>2, <1>5 DEF IInv, TypeOK, envVars
  <2> QED
    BY <1>2, <1>4, <1>5, <2>1, Zenon DEF IInv, QueryInv, Answered, Fits, SeenZone
<1>9. \A u \in Threads \ {t} : QueryInv(u)'
  BY <1>2, <1>5, Bystanders DEF IInv, TypeOK
<1> QED
  BY <1>6, <1>7, <1>8, <1>9 DEF IInv

\* A reply to the question asked is cached and given to the client.
LEMMA ReplyStep ==
    ASSUME IInv, NEW t \in Threads, Reply(t)
    PROVE  IInv'
<1> DEFINE m == answer[t]
           k == Key(t)
           given == [m EXCEPT !.q = req[t]]
<1> USE MaxAgeType
<1>1. pc[t] = "decided" /\ Put(k, m, now[t]) /\ answersQuestion(req[t], m)
  BY DEF Reply
<1>2. /\ m \in Messages /\ HasTTL(m) /\ now[t] <= m.at /\ now[t] \in Nat
      /\ Fits(m, Lower[m.q.name], m.q.qtype, zone[t])
  BY <1>1, Zenon DEF IInv, QueryInv, TypeOK
<1>3. k \in Keys /\ Fits(m, k.qname, k.qtype, k.zone)
  BY <1>1, <1>2, KeyType, Zenon DEF IInv, Key, makeKey, answersQuestion
<1>4. /\ given \in Messages /\ given.at = m.at /\ given.at \in Nat
      /\ given.data = m.data /\ given.snap = m.snap
  BY <1>2, Zenon DEF Messages, IInv, TypeOK
<1>5. Fits(given, Lower[req[t].name], req[t].qtype, zone[t])
  BY <1>1, <1>2, <1>4 DEF Fits, answersQuestion
<1>6. /\ pc' = [pc EXCEPT ![t] = "replied"] /\ answer' = [answer EXCEPT ![t] = given]
      /\ opt' = [opt EXCEPT ![t] = NoOpt] /\ UNCHANGED <<req, zone, now, envVars>>
  BY DEF Reply, Finish
<1> HIDE DEF m, k, given
<1>7. /\ entries' \in [Keys -> Entries \cup {NoEntry}] /\ recency' \in Seq(Keys)
      /\ CacheInv' /\ LRUCoherent'
  BY <1>1, <1>2, <1>3, <1>6, PutKeeps, Zenon DEF IInv, envVars
<1>8. TypeOK'
  BY <1>4, <1>6, <1>7, Zenon DEF IInv, TypeOK, Finished, Answered, Opts, envVars
<1>9. QueryInv(t)'
  <2>1. /\ pc'[t] = "replied" /\ answer'[t] = given /\ now' = now /\ req' = req
        /\ zone' = zone /\ clock' = clock /\ peer' = peer
    BY <1>6 DEF IInv, TypeOK, envVars
  <2>2. now[t] <= clock
    BY Zenon DEF IInv, QueryInv
  <2>3. now[t] <= given.at /\ now[t] \in Nat /\ given.at \in Nat
    BY <1>2, <1>4, Zenon
  <2>4. now[t] < given.at + MaxAge
    BY <2>3, MaxAgeType
  <2> QED
    BY <1>4, <1>5, <2>1, <2>2, <2>4, Zenon DEF QueryInv, Fits, SeenZone
<1>10. \A u \in Threads \ {t} : QueryInv(u)'
  BY <1>6, Bystanders DEF IInv, TypeOK
<1> QED
  BY <1>7, <1>8, <1>9, <1>10 DEF IInv

\* Every failure of the exchange ends the query and leaves the cache alone.
LEMMA FailureStep ==
    ASSUME IInv, NEW t \in Threads, Reject(t) \/ ExchangeFails(t)
    PROVE  IInv'
<1>1. /\ pc' = [pc EXCEPT ![t] = "servfail"] /\ answer' = [answer EXCEPT ![t] = NoMessage]
      /\ opt' = [opt EXCEPT ![t] = NoOpt]
      /\ UNCHANGED <<req, zone, now, envVars, cacheVars>>
  BY DEF Reject, ExchangeFails, Finish
<1>2. TypeOK'
  BY <1>1 DEF IInv, TypeOK, Finished, Opts, envVars, cacheVars
<1>3. LRUCoherent' /\ CacheInv'
  BY <1>1, CacheUntouched DEF IInv, LRUCoherent, cacheVars, envVars
<1>4. QueryInv(t)'
  <2>1. pc'[t] = "servfail" /\ now' = now /\ clock' = clock
    BY <1>1 DEF IInv, TypeOK, envVars
  <2>2. now[t] <= clock
    BY DEF IInv, QueryInv
  <2> QED
    BY <2>1, <2>2 DEF QueryInv, Answered
<1>5. \A u \in Threads \ {t} : QueryInv(u)'
  BY <1>1, Bystanders DEF IInv, TypeOK
<1> QED
  BY <1>2, <1>3, <1>4, <1>5 DEF IInv
-----------------------------------------------------------------------------
(***************************************************************************)
(* The theorems.                                                           *)
(***************************************************************************)
\* The inductive invariant, for every value of the constants.
THEOREM Invariance == Spec => []IInv
<1>1. Init => IInv
  <2> SUFFICES ASSUME Init PROVE IInv
    OBVIOUS
  <2> USE CentralConstants, CacheConstants, AgentConstants DEF Init, CacheInit
  <2>1. (CHOOSE q \in Questions : TRUE) \in Questions
    OBVIOUS
  <2>2. TypeOK
    BY <2>1 DEF TypeOK, Snapshots, Opts
  <2>3. LRUCoherent
    BY DEF LRUCoherent, Range, IsInjective
  <2>4. CacheInv
    BY DEF CacheInv, Held
  <2>5. ASSUME NEW t \in Threads PROVE QueryInv(t)
    <3>1. pc[t] = "idle" /\ now[t] = 0 /\ clock = 0
      OBVIOUS
    <3> HIDE DEF Init, CacheInit
    <3>2. now[t] <= clock
      BY <3>1
    <3>3. pc[t] \notin Answered
      BY <3>1 DEF Answered
    <3>4. pc[t] # "decided" /\ pc[t] # "hit" /\ pc[t] \notin {"exchange", "decided"}
      BY <3>1
    <3> QED
      BY ONLY <3>2, <3>3, <3>4, Zenon DEF QueryInv
  <2> QED
    BY <2>2, <2>3, <2>4, <2>5 DEF IInv
<1>2. IInv /\ [Next]_vars => IInv'
  <2> SUFFICES ASSUME IInv, [Next]_vars PROVE IInv'
    OBVIOUS
  <2>1. CASE Next
    BY <2>1, Environment, ReceiveStep, HitStep, MissStep, ServeStep, ReplyStep, FailureStep
    DEF Next
  <2>2. CASE UNCHANGED vars
    <3> USE <2>2 DEF vars, threadVars, cacheVars, envVars
    <3>1. TypeOK' /\ LRUCoherent'
      BY DEF IInv, TypeOK, LRUCoherent
    <3>2. CacheInv'
      BY CacheUntouched DEF IInv
    <3>3. ASSUME NEW u \in Threads PROVE QueryInv(u)'
      BY DEF IInv, QueryInv, Fits, SeenZone
    <3> QED
      BY <3>1, <3>2, <3>3 DEF IInv
  <2> QED
    BY <2>1, <2>2
<1> QED
  BY <1>1, <1>2, PTL DEF Spec

\* Type correctness of the query path.
THEOREM TypeCorrect == Spec => []TypeOK
BY Invariance, PTL DEF IInv

\* No workload is ever given an answer that its own zone does not permit,
\* whatever the cache, the other queries and the registry did meanwhile.
THEOREM ZonesAreIsolated == Spec => []ZoneIsolation
<1>1. IInv => ZoneIsolation
  BY Zenon DEF IInv, QueryInv, Fits, ZoneIsolation
<1> QED
  BY <1>1, Invariance, PTL

\* No answer is older than maxTTL when its query arrives.
THEOREM PropagationIsBounded == Spec => []PropagationBound
<1>1. IInv => PropagationBound
  <2> SUFFICES ASSUME IInv, NEW t \in Threads, pc[t] \in Answered
               PROVE  answer[t].at + MaxTTL * TicksPerSecond > now[t]
    BY DEF PropagationBound
  <2>1. answer[t].at \in Nat /\ now[t] \in Nat /\ now[t] < answer[t].at + MaxAge
    BY Zenon DEF IInv, QueryInv, TypeOK, Messages
  <2> QED
    BY <2>1, MaxAgeType DEF MaxAge
<1> QED
  BY <1>1, Invariance, PTL

\* A cached answer expires at its client within maxTTL of central's decision.
THEOREM CachedAnswersExpire == Spec => []CachedTTLExpires
<1>1. IInv => CachedTTLExpires
  BY Zenon DEF IInv, QueryInv, CachedTTLExpires, MaxAge
<1> QED
  BY <1>1, Invariance, PTL

\* The LRU's map and list agree and respect the size limit.
THEOREM CacheIsCoherent == Spec => []LRUCoherent
BY Invariance, PTL DEF IInv
=============================================================================
