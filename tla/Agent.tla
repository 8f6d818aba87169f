-------------------------------- MODULE Agent --------------------------------
(***************************************************************************)
(* The query path: the node agent's handler (plugin/zonedns_agent), its    *)
(* cache, the DoH exchange with central (internal/dohupstream) and         *)
(* central's handler, under a clock and a registry that change while       *)
(* queries are in flight.  Which zone the resolver reports for a client is *)
(* PodZone's subject; here it may be any, and another one for every query. *)
(*                                                                         *)
(* Every query is a goroutine; CoreDNS runs any number of them at once.    *)
(* Threads are those goroutines, reused for query after query.  A thread's *)
(* steps are the stretches of ServeDNS between the points where another    *)
(* goroutine can observe or change shared state: the resolver's lock, the  *)
(* cache's lock (twice) and the exchange with central.                     *)
(***************************************************************************)
EXTENDS ZoneCache, FiniteSets

CONSTANTS
    Threads,
    Sources,      \* where queries come from
    NodeIP,       \* the node's own address
    BadSource,    \* a source that is not an address
    ClientOpts,   \* OPT records clients attach to their queries
    NoMessage,
    Registries,   \* bound: the snapshots the poller installs
    MaxClock      \* bound: the time at which a behaviour's clock stops

ASSUME AgentConstants ==
    /\ ClientOpts \subseteq Opts
    /\ NoMessage \notin Messages
    /\ NoMessage \notin [name : Names, qtype : Qtypes, zone : Zones \cup {NoZone}, since : Nat]
    /\ Registries \subseteq Snapshots \ {NotReady}
    /\ MaxClock \in Nat

VARIABLES
    clock,      \* wall-clock time in ticks
    store,      \* central's registry.Store
    peer,       \* the agent's connection, as central sees it
    pc,         \* where each thread is in ServeDNS
    req,        \* the question of r
    opt,        \* the OPT record of r, then of outbound, its copy
    zone,       \* zone, haveZone (NoZone when haveZone is false)
    now,        \* now
    answer      \* answer or cached: the message the thread holds

threadVars == <<pc, req, opt, zone, now, answer>>
cacheVars == <<entries, recency>>
envVars == <<clock, store, peer>>
vars == <<threadVars, cacheVars, envVars>>

\* Where a query can be, and how it can have ended.
Answered == {"hit", "replied"}
Finished == Answered \cup {"servfail"}
Waiting == {"lookup", "exchange", "decided"}

Init ==
    /\ CacheInit
    /\ clock = 0
    /\ store = NotReady
    /\ peer \in Peers
    /\ pc = [t \in Threads |-> "idle"]
    /\ req \in [Threads -> {CHOOSE q \in Questions : TRUE}]
    /\ opt = [t \in Threads |-> NoOpt]
    /\ zone = [t \in Threads |-> NoZone]
    /\ now = [t \in Threads |-> 0]
    /\ answer = [t \in Threads |-> NoMessage]

(***************************************************************************)
(* The environment: time, and the poller installing a snapshot.            *)
(***************************************************************************)
Tick ==
    /\ clock < MaxClock
    /\ clock' = clock + 1
    /\ UNCHANGED <<threadVars, cacheVars, store, peer>>

\* Store.Replace; a snapshot is never taken away again.
Replace ==
    /\ store' \in Registries \ {store}
    /\ UNCHANGED <<threadVars, cacheVars, clock, peer>>

(***************************************************************************)
(* ServeDNS.                                                               *)
(***************************************************************************)
\* The results the resolver may give; a query that seems to come from the
\* node itself, or from no address at all, has an unknown sender.
resolveZone(src) ==
    IF src \in {BadSource, NodeIP} THEN {NoZone} ELSE Zones \cup {NoZone}

Receive(t) ==
    /\ pc[t] \in {"idle"} \cup Finished
    /\ \E q \in Questions : req' = [req EXCEPT ![t] = q]
    /\ \E o \in ClientOpts : opt' = [opt EXCEPT ![t] = o]
    /\ \E src \in Sources : \E z \in resolveZone(src) : zone' = [zone EXCEPT ![t] = z]
    /\ now' = [now EXCEPT ![t] = clock]
    /\ answer' = [answer EXCEPT ![t] = NoMessage]
    /\ pc' = [pc EXCEPT ![t] = "lookup"]
    /\ UNCHANGED <<cacheVars, envVars>>

Key(t) == makeKey(req[t], zone[t])

\* What WriteMsg sends after SetReply(r): m, under the client's question.
Finish(t, how, m) ==
    /\ pc' = [pc EXCEPT ![t] = how]
    /\ answer' = [answer EXCEPT ![t] = m]
    /\ opt' = [opt EXCEPT ![t] = NoOpt]
    /\ UNCHANGED <<req, zone, now, envVars>>

Hit(t) ==
    /\ pc[t] = "lookup"
    /\ Hits(Key(t), now[t])
    /\ Touch(Key(t))
    /\ Finish(t, "hit", [Copy(Key(t), now[t]) EXCEPT !.q = req[t]])

DeclareUnstripped(o, z) == IF z = NoZone THEN o ELSE Set(o, Code, z)

\* The client's own declaration goes first, then the agent's is written.
Declare(o, z) ==
    LET stripped == stripZoneOption(o, Code)
    IN  IF z = NoZone THEN stripped ELSE Set(stripped, Code, z)

Miss(t) ==
    /\ pc[t] = "lookup"
    /\ ~Hits(Key(t), now[t])
    /\ Touch(Key(t))
    /\ opt' = [opt EXCEPT ![t] = Declare(opt[t], zone[t])]
    /\ pc' = [pc EXCEPT ![t] = "exchange"]
    /\ UNCHANGED <<req, zone, now, answer, envVars>>

\* Central's ServeDNS runs at some moment of the exchange, for the question
\* asked or, if central mixes replies up, for another one.  A reply to the same
\* question under another query's declaration is left out: it bears no mark of
\* the zone it was decided for, so nothing the agent does could tell it apart.
Serve(t) ==
    /\ pc[t] = "exchange"
    /\ \E q \in Questions : \E r \in ServeDNS(q, opt[t], peer, store) :
          answer' = [answer EXCEPT ![t] =
              [q |-> q, rcode |-> r.rcode, data |-> r.data, ttl |-> r.ttl,
               at |-> clock, snap |-> store]]
    /\ pc' = [pc EXCEPT ![t] = "decided"]
    /\ UNCHANGED <<req, opt, zone, now, cacheVars, envVars>>

answersQuestion(q, m) == Lower[m.q.name] = Lower[q.name] /\ m.q.qtype = q.qtype

ReplyStampsLate(t) ==
    /\ pc[t] = "decided"
    /\ answersQuestion(req[t], answer[t])
    /\ Put(Key(t), answer[t], clock)
    /\ Finish(t, "replied", [answer[t] EXCEPT !.q = req[t]])

\* Exchange returned a reply to the question: cache it, then answer.
Reply(t) ==
    /\ pc[t] = "decided"
    /\ answersQuestion(req[t], answer[t])
    /\ Put(Key(t), answer[t], now[t])
    /\ Finish(t, "replied", [answer[t] EXCEPT !.q = req[t]])

Reject(t) ==
    /\ pc[t] = "decided"
    /\ ~answersQuestion(req[t], answer[t])
    /\ Finish(t, "servfail", NoMessage)
    /\ UNCHANGED cacheVars

ExchangeWithoutTimeout(t) ==
    /\ pc[t] = "decided"
    /\ Finish(t, "servfail", NoMessage)
    /\ UNCHANGED cacheVars

\* Exchange returned an error: refused, unreachable, or the query timeout.
ExchangeFails(t) ==
    /\ pc[t] \in {"exchange", "decided"}
    /\ Finish(t, "servfail", NoMessage)
    /\ UNCHANGED cacheVars

Next ==
    \/ Tick
    \/ Replace
    \/ \E t \in Threads :
          \/ Receive(t) \/ Hit(t) \/ Miss(t) \/ Serve(t)
          \/ Reply(t) \/ Reject(t) \/ ExchangeFails(t)

Spec == Init /\ [][Next]_vars

(***************************************************************************)
(* Fairness: a runnable goroutine runs, and Exchange returns because the   *)
(* HTTP client has a query timeout.  Clients, time, the registry and       *)
(* central owe nothing.                                                    *)
(***************************************************************************)
Progress(t) == Hit(t) \/ Miss(t) \/ Reply(t) \/ Reject(t) \/ ExchangeFails(t)

FairSpec == Spec /\ \A t \in Threads : WF_vars(Progress(t))

-----------------------------------------------------------------------------

\* Every variable holds a value of its type.
TypeOK ==
    /\ entries \in [Keys -> Entries \cup {NoEntry}]
    /\ recency \in Seq(Keys)
    /\ clock \in Nat
    /\ store \in Snapshots
    /\ peer \in Peers
    /\ pc \in [Threads -> {"idle"} \cup Waiting \cup Finished]
    /\ req \in [Threads -> Questions]
    /\ opt \in [Threads -> Opts]
    /\ zone \in [Threads -> Zones \cup {NoZone}]
    /\ now \in [Threads -> Nat]
    /\ answer \in [Threads -> Messages \cup {NoMessage}]

\* The client authenticated with a certificate that names one identity, an
\* agent the operator authorized, and names it as the caller's own.
Trusted(conn) ==
    /\ conn.transport = "doh" \/ (conn.transport = "dot" /\ ~conn.wrapped)
    /\ conn.chain # <<>>
    /\ \E a \in Authorized : conn.chain[1] = <<[scheme |-> "spiffe", id |-> a]>>

\* What central may conclude about a query of a workload in zone z.
SeenZone(z) == IF Trusted(peer) THEN z ELSE NoZone

CrossZone(name, qtype, z, snap) ==
    /\ qtype \in {"A", "AAAA"}
    /\ z # NoZone
    /\ snap # NotReady
    /\ snap[name] \notin {NoZone, z}

\* The answer sections a workload in zone z may be given for a name when the
\* registry is snap: across zones the destination's gateway or nothing, and
\* in every other case no gateway at all.
Permitted(name, qtype, z, snap) ==
    IF CrossZone(name, qtype, z, snap)
    THEN {NoData} \cup {Gateways[d] : d \in {snap[name]} \cap DOMAIN Gateways}
    ELSE {"ordinary", NoData}

\* ServeDNS of agent and central, with the cache in between: whatever other
\* workloads asked, however they spelled the name, and whatever declaration
\* the client attached, a workload is only given an answer that central's
\* registry, as it stood when central decided, permits for the workload's
\* own zone.  A cross-zone workload never gets a direct address, a same-zone
\* or unknown one never a gateway.
ZoneIsolation ==
    \A t \in Threads : pc[t] \in Answered =>
        answer[t].data \in Permitted(Lower[req[t].name], req[t].qtype,
                                     SeenZone(zone[t]), answer[t].snap)

(***************************************************************************)
(* The service of ZoneService: a cache entry, and a decision under way to  *)
(* the agent, are decisions held.                                          *)
(***************************************************************************)
Decision(name, qtype, z, m) ==
    [name |-> name, qtype |-> qtype, zone |-> z, rcode |-> m.rcode, data |-> m.data,
     ttl |-> m.ttl, at |-> m.at]

HeldDecisions ==
    {Decision(k.qname, k.qtype, k.zone, entries[k].msg) : k \in {x \in Keys : Held(x)}}
        \cup {Decision(Lower[answer[t].q.name], answer[t].q.qtype, zone[t], answer[t]) :
                 t \in {u \in Threads : pc[u] = "decided"}}

\* The question a thread works on.
Pending ==
    [t \in Threads |->
        IF pc[t] \in Waiting
        THEN [name |-> Lower[req[t].name], qtype |-> req[t].qtype, zone |-> zone[t], since |-> now[t]]
        ELSE NoMessage]

\* What its client was last sent.
Given ==
    [t \in Threads |->
        IF pc[t] \in Answered
        THEN [answered |-> TRUE, rcode |-> answer[t].rcode, data |-> answer[t].data,
              ttl |-> answer[t].ttl]
        ELSE IF pc[t] = "servfail" THEN [answered |-> FALSE] ELSE NoMessage]

Service == INSTANCE ZoneService WITH
    Queries    <- Threads,
    Registries <- Registries \cup {NotReady},
    MaxAge     <- MaxTTL * TicksPerSecond,
    None       <- NoMessage,
    registry   <- store,
    trusted    <- Trusted(peer),
    held       <- HeldDecisions,
    pending    <- Pending,
    given      <- Given

\* Agent, cache and central implement the service: whatever the interleaving
\* of queries, slow exchanges, evictions and registry changes, every answer is
\* one decision of central for the same name, type and zone, young enough,
\* with a TTL that does not prolong it.
ImplementsZoneService == Service!Spec

\* maxTTL with the time stamp ServeDNS takes before the exchange: an answer
\* was decided by central less than maxTTL before the query arrived, however
\* slow the exchange that filled the cache was and whatever TTL it carried.
PropagationBound ==
    \A t \in Threads : pc[t] \in Answered =>
        answer[t].at + MaxTTL * TicksPerSecond > now[t]

\* Get's TTL rewriting: a client that keeps a cached answer for the TTL it was
\* handed drops it no later than maxTTL after central decided it.
CachedTTLExpires ==
    \A t \in Threads : pc[t] = "hit" =>
        now[t] + answer[t].ttl * TicksPerSecond
            <= answer[t].at + MaxTTL * TicksPerSecond

\* lru.Cache under Put and Get: the recency list and the map hold the same
\* keys, each once, and never more than maxEntries of them.
LRUCoherent ==
    /\ Range(recency) = {k \in Keys : entries[k] # NoEntry}
    /\ IsInjective(recency)
    /\ Len(recency) <= MaxEntries

\* Every path of the agent's ServeDNS ends in a reply or a SERVFAIL, also when
\* central never answers.
EveryQueryEnds ==
    \A t \in Threads : pc[t] \in Waiting ~> pc[t] \in Finished
=============================================================================
