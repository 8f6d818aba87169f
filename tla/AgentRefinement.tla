--------------------------- MODULE AgentRefinement ---------------------------
(***************************************************************************)
(* The agent, its cache and central implement ZoneService.                 *)
(*                                                                         *)
(* Every step of a query is a step of the service or one it does not see:  *)
(* Receive asks, Serve decides, Hit and Reply answer, Reject and           *)
(* ExchangeFails fail, and Miss only concerns the agent.  The decision     *)
(* that an answer gives is the cache entry's or the one that has just      *)
(* arrived; the inductive invariant of AgentProofs says that it was made   *)
(* for this zone and is young enough.                                      *)
(***************************************************************************)
EXTENDS AgentProofs

EntryDecision(k) == Decision(k.qname, k.qtype, k.zone, entries[k].msg)

ReplyDecision(t) == Decision(Lower[answer[t].q.name], answer[t].q.qtype, zone[t], answer[t])

-----------------------------------------------------------------------------
(***************************************************************************)
(* The state of the service.                                               *)
(***************************************************************************)
\* The decisions held, before and after a step: the cache's and those on
\* their way.
LEMMA HeldMembers ==
    ASSUME NEW d
    PROVE  /\ d \in HeldDecisions <=>
                 \/ \E k \in Keys : Held(k) /\ d = EntryDecision(k)
                 \/ \E t \in Threads : pc[t] = "decided" /\ d = ReplyDecision(t)
           /\ d \in HeldDecisions' <=>
                 \/ \E k \in Keys : Held(k)' /\ d = EntryDecision(k)'
                 \/ \E t \in Threads : pc'[t] = "decided" /\ d = ReplyDecision(t)'
BY DEF HeldDecisions, EntryDecision, ReplyDecision

\* A step of one thread is a step of one query.
LEMMA OneQuery ==
    ASSUME NEW t \in Threads,
           \A u \in Threads \ {t} :
              /\ pc'[u] = pc[u] /\ req'[u] = req[u]
              /\ zone'[u] = zone[u] /\ now'[u] = now[u] /\ answer'[u] = answer[u]
    PROVE  /\ Pending' = [Pending EXCEPT ![t] = Pending'[t]]
           /\ Given' = [Given EXCEPT ![t] = Given'[t]]
<1>1. \A u \in Threads \ {t} : Pending'[u] = Pending[u] /\ Given'[u] = Given[u]
  BY Zenon DEF Pending, Given
<1>2. DOMAIN Pending = Threads /\ DOMAIN Pending' = Threads
      /\ Pending' = [u \in Threads |-> Pending'[u]]
  BY DEF Pending
<1>3. DOMAIN Given = Threads /\ DOMAIN Given' = Threads
      /\ Given' = [u \in Threads |-> Given'[u]]
  BY DEF Given
<1> QED
  BY <1>1, <1>2, <1>3

\* The replies under way of the other threads are what they were.
LEMMA OtherReplies ==
    ASSUME NEW t \in Threads, NEW u \in Threads \ {t},
           zone'[u] = zone[u] /\ answer'[u] = answer[u]
    PROVE  ReplyDecision(u)' = ReplyDecision(u)
BY DEF ReplyDecision, Decision

\* A query being worked on is pending.
LEMMA WaitingIsPending ==
    ASSUME TypeOK, NEW t \in Threads, pc[t] \in Waiting
    PROVE  /\ Pending[t] = [name |-> Lower[req[t].name], qtype |-> req[t].qtype,
                            zone |-> zone[t], since |-> now[t]]
           /\ Pending[t] # NoMessage
<1>1. Pending[t] = [name |-> Lower[req[t].name], qtype |-> req[t].qtype,
                    zone |-> zone[t], since |-> now[t]]
  BY DEF Pending
<1>2. Lower[req[t].name] \in Names /\ req[t].qtype \in Qtypes
      /\ zone[t] \in Zones \cup {NoZone} /\ now[t] \in Nat
  BY CentralConstants DEF TypeOK, Questions
<1> QED
  BY <1>1, <1>2, AgentConstants

-----------------------------------------------------------------------------
(***************************************************************************)
(* The steps.                                                              *)
(***************************************************************************)
\* Time and the registry are the service's own.
LEMMA EnvironmentRefines ==
    ASSUME Tick \/ Replace
    PROVE  Service!Tick \/ Service!Replace
<1>1. threadVars' = threadVars /\ cacheVars' = cacheVars /\ peer' = peer
  BY DEF Tick, Replace
<1>2. HeldDecisions' = HeldDecisions /\ Pending' = Pending /\ Given' = Given
  BY <1>1 DEF HeldDecisions, Held, Pending, Given, threadVars, cacheVars
<1>3. Trusted(peer)' = Trusted(peer)
  BY <1>1 DEF Trusted
<1>4. CASE Tick
  BY <1>2, <1>3, <1>4 DEF Tick, Service!Tick
<1>5. CASE Replace
  BY <1>2, <1>3, <1>5 DEF Replace, Service!Replace
<1> QED
  BY <1>4, <1>5

\* What a step of a thread leaves alone.
LEMMA EnvironmentKept ==
    ASSUME envVars' = envVars
    PROVE  clock' = clock /\ store' = store /\ Trusted(peer)' = Trusted(peer)
BY DEF envVars, Trusted

\* A query arrives: its question is asked in the zone the resolver gave.
LEMMA ReceiveRefines ==
    ASSUME IInv, NEW t \in Threads, Receive(t)
    PROVE  Service!Ask(t)
<1>1. PICK q \in Questions, z \in Zones \cup {NoZone} :
          req' = [req EXCEPT ![t] = q] /\ zone' = [zone EXCEPT ![t] = z]
  BY Zenon DEF Receive, resolveZone
<1>2. /\ now' = [now EXCEPT ![t] = clock] /\ answer' = [answer EXCEPT ![t] = NoMessage]
      /\ pc' = [pc EXCEPT ![t] = "lookup"] /\ entries' = entries /\ envVars' = envVars
      /\ pc[t] \in {"idle"} \cup Finished
  BY DEF Receive, cacheVars
<1>3. pc[t] \notin Waiting /\ pc[t] # "decided"
  BY <1>2 DEF Waiting, Finished, Answered
<1>4. /\ pc'[t] = "lookup" /\ req'[t] = q /\ zone'[t] = z /\ now'[t] = clock
      /\ \A u \in Threads \ {t} : /\ pc'[u] = pc[u] /\ req'[u] = req[u] /\ zone'[u] = zone[u]
                                  /\ now'[u] = now[u] /\ answer'[u] = answer[u]
  BY <1>1, <1>2 DEF IInv, TypeOK
<1>5. Pending[t] = NoMessage
  BY <1>3 DEF Pending
<1>6. /\ Pending'[t] = [name |-> Lower[q.name], qtype |-> q.qtype, zone |-> z, since |-> clock]
      /\ Given'[t] = NoMessage
  BY <1>4 DEF Pending, Given, Waiting, Answered
<1>7. Lower[q.name] \in Names /\ q.qtype \in Qtypes
  BY CentralConstants DEF Questions
<1>8. HeldDecisions' = HeldDecisions
  <2>1. ASSUME NEW d PROVE d \in HeldDecisions' <=> d \in HeldDecisions
    <3>1. \A k \in Keys : (Held(k)' <=> Held(k)) /\ EntryDecision(k)' = EntryDecision(k)
      BY <1>2 DEF Held, EntryDecision
    <3>2. \A u \in Threads : /\ pc'[u] = "decided" <=> pc[u] = "decided"
                             /\ pc[u] = "decided" => ReplyDecision(u)' = ReplyDecision(u)
      BY <1>3, <1>4, OtherReplies
    <3> QED
      BY <3>1, <3>2, HeldMembers
  <2> QED
    BY <2>1, Zenon
<1>9. Pending' = [Pending EXCEPT ![t] = Pending'[t]] /\ Given' = [Given EXCEPT ![t] = Given'[t]]
  BY <1>4, OneQuery
<1> QED
  BY <1>2, <1>5, <1>6, <1>7, <1>8, <1>9, EnvironmentKept DEF Service!Ask

\* A step of t that ends its query and brings no decision: what is held after
\* it was held before.
LEMMA NothingNew ==
    ASSUME IInv, NEW t \in Threads, pc'[t] # "decided",
           \A u \in Threads \ {t} :
              pc'[u] = pc[u] /\ zone'[u] = zone[u] /\ answer'[u] = answer[u],
           \A k \in Keys : Held(k)' => \/ Held(k) /\ entries'[k] = entries[k]
                                      \/ EntryDecision(k)' \in HeldDecisions
    PROVE  HeldDecisions' \subseteq HeldDecisions
<1> SUFFICES ASSUME NEW d \in HeldDecisions' PROVE d \in HeldDecisions
  OBVIOUS
<1>1. CASE \E k \in Keys : Held(k)' /\ d = EntryDecision(k)'
  <2>1. PICK k \in Keys : Held(k)' /\ d = EntryDecision(k)'
    BY <1>1
  <2>2. CASE Held(k) /\ entries'[k] = entries[k]
    <3>1. d = EntryDecision(k)
      BY <2>1, <2>2 DEF EntryDecision
    <3> QED
      BY <2>2, <3>1, HeldMembers
  <2> QED
    BY <2>1, <2>2
<1>2. CASE \E u \in Threads : pc'[u] = "decided" /\ d = ReplyDecision(u)'
  <2>1. PICK u \in Threads : pc'[u] = "decided" /\ d = ReplyDecision(u)'
    BY <1>2
  <2>2. pc[u] = "decided" /\ d = ReplyDecision(u)
    BY <2>1, OtherReplies
  <2> QED
    BY <2>2, HeldMembers
<1> QED
  BY <1>1, <1>2, HeldMembers

\* Every failure of the exchange fails the query.
LEMMA FailureRefines ==
    ASSUME IInv, NEW t \in Threads, Reject(t) \/ ExchangeFails(t)
    PROVE  Service!Fail(t)
<1>1. /\ pc[t] \in {"exchange", "decided"}
      /\ pc' = [pc EXCEPT ![t] = "servfail"] /\ answer' = [answer EXCEPT ![t] = NoMessage]
      /\ UNCHANGED <<req, zone, now, entries>> /\ envVars' = envVars
  BY DEF Reject, ExchangeFails, Finish, cacheVars
<1>2. /\ pc'[t] = "servfail"
      /\ \A u \in Threads \ {t} : /\ pc'[u] = pc[u] /\ req'[u] = req[u] /\ zone'[u] = zone[u]
                                  /\ now'[u] = now[u] /\ answer'[u] = answer[u]
  BY <1>1 DEF IInv, TypeOK
<1>3. Pending[t] # NoMessage
  BY <1>1, WaitingIsPending, Zenon DEF IInv, Waiting
<1>4. Pending'[t] = NoMessage /\ Given'[t] = [answered |-> FALSE]
  BY <1>2 DEF Pending, Given, Waiting, Answered
<1>5. HeldDecisions' \subseteq HeldDecisions
  <2>1. \A k \in Keys : Held(k)' => Held(k) /\ entries'[k] = entries[k]
    BY <1>1 DEF Held
  <2> QED
    BY <1>2, <2>1, NothingNew
<1>6. Pending' = [Pending EXCEPT ![t] = Pending'[t]] /\ Given' = [Given EXCEPT ![t] = Given'[t]]
  BY <1>2, OneQuery
<1> QED
  BY <1>1, <1>3, <1>4, <1>5, <1>6, EnvironmentKept DEF Service!Fail, Service!End

\* A hit gives the decision the entry holds, with what is left of its time.
LEMMA HitRefines ==
    ASSUME IInv, IInv', NEW t \in Threads, Hit(t)
    PROVE  Service!Answer(t)
<1> DEFINE k == Key(t)
           m == entries[k].msg
<1>1. /\ pc[t] = "lookup" /\ Held(k) /\ entries[k].expiry > now[t]
      /\ k \in Keys /\ entries' = entries
  BY KeyType DEF IInv, Hit, Hits, Touch
<1>2. /\ pc' = [pc EXCEPT ![t] = "hit"]
      /\ answer' = [answer EXCEPT ![t] = [Copy(k, now[t]) EXCEPT !.q = req[t]]]
      /\ UNCHANGED <<req, zone, now>> /\ envVars' = envVars
  BY DEF Hit, Finish
<1>3. /\ pc'[t] = "hit" /\ answer'[t] = [Copy(k, now[t]) EXCEPT !.q = req[t]]
      /\ \A u \in Threads \ {t} : /\ pc'[u] = pc[u] /\ req'[u] = req[u] /\ zone'[u] = zone[u]
                                  /\ now'[u] = now[u] /\ answer'[u] = answer[u]
  BY <1>2 DEF IInv, TypeOK
<1>4. m \in Messages /\ entries[k].expiry \in Nat /\ now[t] \in Nat
  BY <1>1 DEF IInv, TypeOK, Held, Entries
<1>5. /\ answer'[t].rcode = m.rcode /\ answer'[t].data = m.data /\ answer'[t].at = m.at
      /\ answer'[t].ttl = (entries[k].expiry - now[t]) \div TicksPerSecond
  BY <1>3, <1>4 DEF Copy, Messages
<1>6. (entries[k].expiry - now[t]) \div TicksPerSecond \in Nat
  BY <1>1, <1>4, Flooring, CacheConstants
<1>7. answer'[t].ttl \in Nat /\ answer'[t].ttl # NoTTL
  BY <1>5, <1>6, CentralConstants
<1>8. /\ now[t] < m.at + MaxAge
      /\ now[t] + answer'[t].ttl * TicksPerSecond <= m.at + MaxAge
  BY <1>2, <1>3, <1>5 DEF IInv, QueryInv, Answered
<1>9. /\ Pending[t] = [name |-> Lower[req[t].name], qtype |-> req[t].qtype,
                       zone |-> zone[t], since |-> now[t]]
      /\ Pending[t] # NoMessage
  BY <1>1, WaitingIsPending DEF IInv, Waiting
<1>10. /\ Pending'[t] = NoMessage
       /\ Given'[t] = [answered |-> TRUE, rcode |-> m.rcode, data |-> m.data,
                       ttl |-> answer'[t].ttl]
  BY <1>3, <1>5, Zenon DEF Pending, Given, Waiting, Answered
<1>11. EntryDecision(k) \in HeldDecisions
  BY <1>1, HeldMembers
<1>12. EntryDecision(k) = [name |-> Lower[req[t].name], qtype |-> req[t].qtype, zone |-> zone[t],
                           rcode |-> m.rcode, data |-> m.data, ttl |-> m.ttl, at |-> m.at]
  BY DEF EntryDecision, Decision, Key, makeKey
<1>13. HeldDecisions' \subseteq HeldDecisions
  <2>1. \A x \in Keys : Held(x)' => Held(x) /\ entries'[x] = entries[x]
    BY <1>1 DEF Held
  <2> QED
    BY <1>3, <2>1, NothingNew
<1>14. Pending' = [Pending EXCEPT ![t] = Pending'[t]] /\ Given' = [Given EXCEPT ![t] = Given'[t]]
  BY <1>3, OneQuery
<1> HIDE DEF k, m
<1>15. m.at + MaxAge > now[t]
  BY <1>4, <1>8, MaxAgeType DEF Messages
<1>16. Service!Gives(Pending[t], EntryDecision(k), Given'[t])
  BY <1>7, <1>8, <1>9, <1>10, <1>12, <1>15 DEF Service!Gives, MaxAge
<1> QED
  BY <1>2, <1>9, <1>10, <1>11, <1>13, <1>14, <1>16, EnvironmentKept
  DEF Service!Answer, Service!End

\* A miss is the agent's own affair.
LEMMA MissStutters ==
    ASSUME IInv, NEW t \in Threads, Miss(t)
    PROVE  UNCHANGED Service!vars
<1>1. /\ pc[t] = "lookup" /\ pc' = [pc EXCEPT ![t] = "exchange"]
      /\ UNCHANGED <<req, zone, now, answer, entries>> /\ envVars' = envVars
  BY DEF Miss, Touch
<1>2. /\ pc'[t] = "exchange"
      /\ \A u \in Threads \ {t} : pc'[u] = pc[u]
  BY <1>1 DEF IInv, TypeOK
<1>3. ASSUME NEW u \in Threads
      PROVE  /\ pc'[u] \in Waiting <=> pc[u] \in Waiting
             /\ pc'[u] \in Answered <=> pc[u] \in Answered
             /\ pc'[u] = "servfail" <=> pc[u] = "servfail"
             /\ pc'[u] = "decided" <=> pc[u] = "decided"
  BY <1>1, <1>2 DEF Waiting, Answered
<1>4. Pending' = Pending /\ Given' = Given
  BY <1>1, <1>3 DEF Pending, Given
<1>5. HeldDecisions' = HeldDecisions
  <2>1. ASSUME NEW d PROVE d \in HeldDecisions' <=> d \in HeldDecisions
    <3>1. \A k \in Keys : (Held(k)' <=> Held(k)) /\ EntryDecision(k)' = EntryDecision(k)
      BY <1>1 DEF Held, EntryDecision
    <3>2. \A u \in Threads : ReplyDecision(u)' = ReplyDecision(u)
      BY <1>1 DEF ReplyDecision
    <3> QED
      BY <1>3, <3>1, <3>2, HeldMembers
  <2> QED
    BY <2>1
<1> QED
  BY <1>1, <1>4, <1>5, EnvironmentKept DEF Service!vars

\* Central decides, for the zone the query declares.
LEMMA ServeRefines ==
    ASSUME IInv, IInv', NEW t \in Threads, Serve(t)
    PROVE  Service!Decide(t)
<1> DEFINE m == answer'[t]
           d == ReplyDecision(t)'
<1>1. /\ pc[t] = "exchange" /\ pc' = [pc EXCEPT ![t] = "decided"]
      /\ UNCHANGED <<req, zone, now, entries>> /\ envVars' = envVars
  BY DEF Serve, cacheVars
<1>2. /\ m.at = clock /\ m.snap = store
      /\ \A u \in Threads \ {t} : answer'[u] = answer[u]
  BY DEF Serve, IInv, TypeOK
<1>3. pc'[t] = "decided" /\ \A u \in Threads \ {t} : pc'[u] = pc[u]
  BY <1>1 DEF IInv, TypeOK
<1>4. m.data \in Permitted(Lower[m.q.name], m.q.qtype, SeenZone(zone[t])', m.snap)
  BY <1>1, <1>3 DEF IInv, QueryInv, Fits
<1>5. d = [name |-> Lower[m.q.name], qtype |-> m.q.qtype, zone |-> zone[t],
           rcode |-> m.rcode, data |-> m.data, ttl |-> m.ttl, at |-> clock]
  BY <1>1, <1>2 DEF ReplyDecision, Decision
<1>6. SeenZone(zone[t])' = IF Trusted(peer) THEN zone[t] ELSE NoZone
  BY <1>1, EnvironmentKept DEF SeenZone
<1>7. Pending[t].zone = zone[t] /\ Pending[t] # NoMessage
  <2>1. pc[t] \in Waiting /\ TypeOK
    BY <1>1 DEF IInv, Waiting
  <2>2. /\ Pending[t] = [name |-> Lower[req[t].name], qtype |-> req[t].qtype,
                         zone |-> zone[t], since |-> now[t]]
        /\ Pending[t] # NoMessage
    BY <2>1, WaitingIsPending
  <2> QED
    BY <2>2
<1>8. Service!Decides(t, d)
  <2> HIDE DEF d, m
  <2> QED
    BY <1>2, <1>4, <1>5, <1>6, <1>7 DEF Service!Decides
<1>9. Pending' = Pending /\ Given' = Given
  <2>1. ASSUME NEW u \in Threads
        PROVE  /\ pc'[u] \in Waiting <=> pc[u] \in Waiting
               /\ pc'[u] \in Answered <=> pc[u] \in Answered
               /\ pc'[u] = "servfail" <=> pc[u] = "servfail"
               /\ pc[u] \in Answered => answer'[u] = answer[u]
    BY <1>1, <1>2, <1>3 DEF Waiting, Answered
  <2> QED
    BY <1>1, <2>1, Zenon DEF Pending, Given
<1>10. HeldDecisions' = HeldDecisions \cup {d}
  <2>1. ASSUME NEW x PROVE x \in HeldDecisions' <=> x \in HeldDecisions \/ x = d
    <3>1. \A k \in Keys : (Held(k)' <=> Held(k)) /\ EntryDecision(k)' = EntryDecision(k)
      BY <1>1 DEF Held, EntryDecision
    <3>2. \A u \in Threads \ {t} : /\ pc'[u] = "decided" <=> pc[u] = "decided"
                                   /\ ReplyDecision(u)' = ReplyDecision(u)
      BY <1>1, <1>2, <1>3, OtherReplies
    <3> HIDE DEF d
    <3>3. (\E u \in Threads : pc'[u] = "decided" /\ x = ReplyDecision(u)') <=>
             \/ \E u \in Threads : pc[u] = "decided" /\ x = ReplyDecision(u)
             \/ x = d
      BY <1>1, <1>3, <3>2 DEF d
    <3> QED
      BY <3>1, <3>3, HeldMembers
  <2> QED
    BY <2>1
<1> HIDE DEF d
<1>11. d \in HeldDecisions'
  BY <1>10
<1> QED
  BY <1>1, <1>7, <1>8, <1>9, <1>10, <1>11, EnvironmentKept DEF Service!Decide

\* A reply gives the decision that has just arrived; caching it holds the
\* same decision on, and may only forget others.
LEMMA ReplyRefines ==
    ASSUME IInv, NEW t \in Threads, Reply(t)
    PROVE  Service!Answer(t)
<1> DEFINE k == Key(t)
           m == answer[t]
           d == ReplyDecision(t)
<1>1. /\ pc[t] = "decided" /\ Put(k, m, now[t])
      /\ Lower[m.q.name] = Lower[req[t].name] /\ m.q.qtype = req[t].qtype
      /\ pc' = [pc EXCEPT ![t] = "replied"] /\ answer' = [answer EXCEPT ![t] = [m EXCEPT !.q = req[t]]]
      /\ UNCHANGED <<req, zone, now>> /\ envVars' = envVars
  BY DEF Reply, Finish, answersQuestion
<1>2. m \in Messages /\ now[t] <= m.at /\ now[t] \in Nat /\ m.at \in Nat
  BY <1>1 DEF IInv, QueryInv, TypeOK, Messages
<1>3. /\ pc'[t] = "replied" /\ answer'[t].rcode = m.rcode /\ answer'[t].data = m.data
      /\ answer'[t].ttl = m.ttl
      /\ \A u \in Threads \ {t} : /\ pc'[u] = pc[u] /\ req'[u] = req[u] /\ zone'[u] = zone[u]
                                  /\ now'[u] = now[u] /\ answer'[u] = answer[u]
  BY <1>1, <1>2 DEF IInv, TypeOK, Messages
<1>4. d = [name |-> Lower[req[t].name], qtype |-> req[t].qtype, zone |-> zone[t],
           rcode |-> m.rcode, data |-> m.data, ttl |-> m.ttl, at |-> m.at]
  BY <1>1 DEF ReplyDecision, Decision
<1>5. d \in HeldDecisions
  BY <1>1, HeldMembers
<1>6. /\ Pending[t] = [name |-> Lower[req[t].name], qtype |-> req[t].qtype,
                       zone |-> zone[t], since |-> now[t]]
      /\ Pending[t] # NoMessage
  BY <1>1, WaitingIsPending DEF IInv, Waiting
<1>7. /\ Pending'[t] = NoMessage
      /\ Given'[t] = [answered |-> TRUE, rcode |-> m.rcode, data |-> m.data, ttl |-> m.ttl]
  BY <1>3, Zenon DEF Pending, Given, Waiting, Answered
<1>8. k \in Keys /\ k = [qname |-> Lower[req[t].name], qtype |-> req[t].qtype, zone |-> zone[t]]
  BY KeyType DEF IInv, Key, makeKey
<1> HIDE DEF d, m, k
<1>9. \A x \in Keys : Held(x)' => \/ Held(x) /\ entries'[x] = entries[x]
                                 \/ EntryDecision(x)' \in HeldDecisions
  <2>1. CASE ~Cacheable(m)
    BY <1>1, <2>1 DEF Put, Held
  <2>2. CASE Cacheable(m)
    <3>1. \A x \in Keys : entries'[x] = IF x = k THEN [msg |-> m, expiry |-> now[t] + Lifetime(m.ttl)]
                                        ELSE IF x \in Evicted(k) THEN NoEntry ELSE entries[x]
      BY <1>1, <2>2 DEF Put
    <3>2. \A x \in Keys : x = k => EntryDecision(x)' = d
      BY <1>4, <1>8, <3>1 DEF EntryDecision, Decision
    <3>3. \A x \in Keys : x # k /\ Held(x)' => Held(x) /\ entries'[x] = entries[x]
      BY <3>1 DEF Held
    <3> QED
      BY <1>5, <3>2, <3>3
  <2> QED
    BY <2>1, <2>2
<1>10. HeldDecisions' \subseteq HeldDecisions
  BY <1>3, <1>9, NothingNew
<1>11. Pending' = [Pending EXCEPT ![t] = Pending'[t]] /\ Given' = [Given EXCEPT ![t] = Given'[t]]
  BY <1>3, OneQuery
<1>12. m.at + MaxAge > now[t] /\ m.at >= now[t]
  BY <1>2, MaxAgeType
<1>13. Service!Gives(Pending[t], d, Given'[t])
  <2>1. /\ d.name = Pending[t].name /\ d.qtype = Pending[t].qtype /\ d.zone = Pending[t].zone
        /\ d.at = m.at /\ Pending[t].since = now[t]
    BY ONLY <1>4, <1>6
  <2>2. /\ Given'[t].answered /\ Given'[t].rcode = d.rcode /\ Given'[t].data = d.data
        /\ Given'[t].ttl = d.ttl
    BY ONLY <1>4, <1>7
  <2> QED
    BY <1>12, <2>1, <2>2, Zenon DEF Service!Gives, MaxAge
<1> QED
  BY <1>1, <1>5, <1>6, <1>7, <1>10, <1>11, <1>13, EnvironmentKept
  DEF Service!Answer, Service!End

-----------------------------------------------------------------------------

\* Agent, cache and central implement the service, for any number of queries
\* at once, any zones and registries and any cache size: every answer a client
\* is sent is one decision of central for the name, the type and the zone of
\* that client, with a TTL that does not prolong it.
THEOREM AgentImplementsZoneService == Spec => ImplementsZoneService
<1>1. Init => Service!Init
  <2> SUFFICES ASSUME Init PROVE Service!Init
    OBVIOUS
  <2>1. \A t \in Threads : pc[t] = "idle"
    BY DEF Init
  <2>2. Pending = [t \in Threads |-> NoMessage] /\ Given = [t \in Threads |-> NoMessage]
    BY <2>1 DEF Pending, Given, Waiting, Answered
  <2>3. HeldDecisions = {}
    <3>1. \A k \in Keys : ~Held(k)
      BY DEF Init, CacheInit, Held
    <3> QED
      BY <2>1, <3>1, HeldMembers
  <2>4. Trusted(peer) \in BOOLEAN
    BY DEF Trusted
  <2> QED
    BY <2>2, <2>3, <2>4 DEF Init, Service!Init
<1>2. IInv /\ IInv' /\ [Next]_vars => [Service!Next]_(Service!vars)
  <2> SUFFICES ASSUME IInv, IInv', [Next]_vars PROVE [Service!Next]_(Service!vars)
    OBVIOUS
  <2>1. CASE Tick \/ Replace
    BY <2>1, EnvironmentRefines DEF Service!Next
  <2>2. ASSUME NEW t \in Threads,
               \/ Receive(t) \/ Hit(t) \/ Miss(t) \/ Serve(t)
               \/ Reply(t) \/ Reject(t) \/ ExchangeFails(t)
        PROVE  [Service!Next]_(Service!vars)
    BY <2>2, ReceiveRefines, HitRefines, MissStutters, ServeRefines, ReplyRefines, FailureRefines
    DEF Service!Next
  <2>3. CASE UNCHANGED vars
    BY <2>3, Zenon DEF vars, threadVars, cacheVars, envVars, Service!vars, HeldDecisions, Held,
                Pending, Given, Trusted
  <2> QED
    BY <2>1, <2>2, <2>3 DEF Next
<1> QED
  BY <1>1, <1>2, Invariance, PTL DEF Spec, ImplementsZoneService, Service!Spec
=============================================================================
