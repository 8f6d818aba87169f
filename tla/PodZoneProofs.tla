---------------------------- MODULE PodZoneProofs ----------------------------
(***************************************************************************)
(* The Watcher's table for any number of pods, addresses and zones, under  *)
(* any sequence of pod changes, broken watches, relists and resyncs.       *)
(*                                                                         *)
(* How far the table may lag behind the informer (MappingIsKnown), and     *)
(* that it agrees with the cluster once every event is handled             *)
(* (MappingIsReal), rest on the queue: FeedInv says that the last          *)
(* notification queued for a pod carries the object the informer knows,    *)
(* or that the pod was last handled as that object and none is queued.     *)
(***************************************************************************)
EXTENDS PodZone, FiniteSetTheorems, TLAPS

IInv == TypeOK /\ MappingHasTenant

\* The n-th notification of the queue is the last one for p, and up to date.
LastWord(queue, n, p, obj) ==
    /\ queue[n].pod = p /\ queue[n].obj = obj
    /\ \A m \in DOMAIN queue : m > n => queue[m].pod # p

\* p will be handled as obj last, or was and is not queued.
Fed(queue, done, p, obj) ==
    \/ \E n \in DOMAIN queue : LastWord(queue, n, p, obj)
    \/ done = obj /\ \A m \in DOMAIN queue : queue[m].pod # p

FeedInv ==
    /\ watching => known = api
    /\ \A p \in Pods : Fed(pend, handled[p], p, known[p])

\* An informer notification is an event.
LEMMA EventType ==
    ASSUME NEW p \in Pods, NEW o \in Objects \cup {Absent}
    PROVE  Event(p, o) \in Events
BY DEF Event, Events

\* What a list, a relist or a resync queues is a sequence of events.
LEMMA NotificationsType ==
    ASSUME NEW P \in SUBSET Pods, NEW objs \in [Pods -> Objects \cup {Absent}],
           NEW n \in Notifications(P, objs)
    PROVE  n \in Seq(Events)
<1>1. IsFiniteSet(P)
  BY PodZoneConstants, FS_Subset
<1>2. Cardinality(P) \in Nat
  BY <1>1, FS_CardinalityType
<1>3. PICK s \in Bijection(1 .. Cardinality(P), P) :
          n = [k \in 1 .. Cardinality(P) |-> Event(s[k], objs[s[k]])]
  BY DEF Notifications
<1>4. s \in [1 .. Cardinality(P) -> P]
  BY DEF Bijection, Injection
<1>5. \A k \in 1 .. Cardinality(P) : Event(s[k], objs[s[k]]) \in Events
  BY <1>4, EventType
<1> QED
  BY <1>2, <1>3, <1>5

\* Publishing a well-typed object keeps every type.
LEMMA PublishType ==
    ASSUME TypeOK, NEW p \in Pods, NEW o \in Objects \cup {Absent}, Publish(p, o)
    PROVE  TypeOK' /\ tableVars' = tableVars
<1>1. Event(p, o) \in Events
  BY EventType
<1>2. pend' \in Seq(Events) /\ known' \in [Pods -> Objects \cup {Absent}]
  <2>1. api' \in [Pods -> Objects \cup {Absent}]
    BY DEF TypeOK, Publish
  <2>2. CASE watching
    <3>1. known' = api' /\ pend' = Append(pend, Event(p, o))
      BY <2>2 DEF Publish
    <3> QED
      BY <1>1, <2>1, <3>1 DEF TypeOK
  <2>3. CASE ~watching
    BY <2>3 DEF TypeOK, Publish
  <2> QED
    BY <2>2, <2>3
<1>3. api' \in [Pods -> Objects \cup {Absent}] /\ changes' \in Nat
  BY DEF TypeOK, Publish
<1>4. UNCHANGED <<watching, synced, tableVars, run>>
  BY DEF Publish
<1> QED
  BY <1>2, <1>3, <1>4, Zenon DEF TypeOK, tableVars

\* Every change of a pod publishes one object.
LEMMA ChurnPublishes ==
    ASSUME TypeOK, NEW p \in Pods, Churn(p) \/ \E i \in IPs : AssignIP(p, i)
    PROVE  \E o \in Objects \cup {Absent} : Publish(p, o)
<1> USE PodZoneConstants
<1>1. api[p] \in Objects \cup {Absent}
  BY DEF TypeOK
<1>2. CASE Create(p)
  <2>1. PICK z \in Labels, h \in BOOLEAN :
            Publish(p, [ip |-> NoIP, zone |-> z, host |-> h, live |-> TRUE])
    BY <1>2, Zenon DEF Create
  <2>2. [ip |-> NoIP, zone |-> z, host |-> h, live |-> TRUE] \in Objects
    BY DEF Objects
  <2> QED
    BY <2>1, <2>2, Zenon
<1>3. CASE Relabel(p)
  BY <1>1, <1>3 DEF Relabel, Objects
<1>4. CASE Terminate(p)
  BY <1>1, <1>4, Zenon DEF Terminate, Objects
<1>5. CASE Delete(p)
  BY <1>5 DEF Delete
<1>6. ASSUME NEW i \in IPs, AssignIP(p, i) PROVE \E o \in Objects \cup {Absent} : Publish(p, o)
  BY <1>1, <1>6 DEF AssignIP, Objects
<1> QED
  BY <1>2, <1>3, <1>4, <1>5, <1>6 DEF Churn

\* A step that leaves the table alone leaves MappingHasTenant alone.
LEMMA TableUntouched ==
    ASSUME MappingHasTenant, tableVars' = tableVars
    PROVE  MappingHasTenant'
BY DEF MappingHasTenant, Holds, tableVars

\* The informer only queues notifications.
LEMMA InformerStep ==
    ASSUME TypeOK, Informer
    PROVE  TypeOK' /\ tableVars' = tableVars
<1>1. CASE WatchBreaks
  <2>1. changes' \in Nat
    BY <1>1 DEF WatchBreaks, TypeOK
  <2>2. watching' \in BOOLEAN
    BY <1>1, Zenon DEF WatchBreaks
  <2> QED
    BY <1>1, <2>1, <2>2, Zenon DEF WatchBreaks, TypeOK, tableVars
<1>2. CASE List
  <2>1. PICK n \in Notifications(Present(known) \cup Present(api), api) : pend' = pend \o n
    BY <1>2 DEF List
  <2>2. n \in Seq(Events)
    BY NotificationsType DEF TypeOK, Present
  <2>3. pend' \in Seq(Events)
    BY <2>1, <2>2 DEF TypeOK
  <2> QED
    BY <1>2, <2>3 DEF List, TypeOK, tableVars
<1>3. CASE Resync
  <2>1. PICK n \in Notifications(Present(known), known) : pend' = pend \o n
    BY <1>3 DEF Resync
  <2>2. n \in Seq(Events)
    BY NotificationsType DEF TypeOK, Present
  <2>3. pend' \in Seq(Events)
    BY <2>1, <2>2 DEF TypeOK
  <2> QED
    BY <1>3, <2>3 DEF Resync, TypeOK, tableVars
<1> QED
  BY <1>1, <1>2, <1>3 DEF Informer

\* podzone.upsert: the new mapping is the pod's, and no other mapping was
\* resting on the pod alone.
LEMMA UpsertStep ==
    ASSUME IInv, NEW p \in Pods, NEW o \in Objects, upsert(p, o),
           handled' = [handled EXCEPT ![p] = o]
    PROVE  /\ byPod' \in [Pods -> IPs \cup {NoIP}] /\ byIP' \in [IPs -> Zones \cup {NoZone}]
           /\ MappingHasTenant'
<1> USE PodZoneConstants, AbsentIsNoObject
<1>1. byPod' \in [Pods -> IPs \cup {NoIP}] /\ byIP' \in [IPs -> Zones \cup {NoZone}]
  BY DEF IInv, TypeOK, upsert, qualifies, Objects
<1>2. handled'[p] = o /\ \A q \in Pods \ {p} : handled'[q] = handled[q] /\ byPod'[q] = byPod[q]
  BY DEF IInv, TypeOK, upsert
<1>3. ASSUME NEW q \in Pods, NEW i \in IPs PROVE (byPod[q] = i <=> Holds(handled, q, i))'
  <2>1. CASE q = p
    <3>1. byPod'[p] = IF qualifies(o) THEN o.ip ELSE NoIP
      BY DEF IInv, TypeOK, upsert
    <3> QED
      BY <1>2, <2>1, <3>1 DEF Holds, qualifies, Objects
  <2>2. CASE q # p
    BY <1>2, <2>2 DEF IInv, MappingHasTenant, Holds
  <2> QED
    BY <2>1, <2>2
<1>4. ASSUME NEW i \in IPs, byIP'[i] # NoZone
      PROVE  \E q \in Pods : Holds(handled', q, i) /\ handled'[q].zone = byIP'[i]
  <2>1. CASE qualifies(o) /\ i = o.ip
    <3>1. byIP'[i] = o.zone /\ o # Absent
      BY <2>1 DEF upsert
    <3> QED
      BY <1>2, <2>1, <3>1, Zenon DEF Holds
  <2>2. CASE ~(qualifies(o) /\ i = o.ip)
    <3>1. byIP'[i] = byIP[i] /\ i # byPod[p]
      BY <1>4, <2>2 DEF upsert
    <3>2. PICK q \in Pods : Holds(handled, q, i) /\ handled[q].zone = byIP[i]
      BY <1>4, <3>1 DEF IInv, MappingHasTenant
    <3>3. q # p
      BY <3>1, <3>2 DEF IInv, MappingHasTenant
    <3> QED
      BY <1>2, <3>1, <3>2, <3>3 DEF Holds
  <2> QED
    BY <2>1, <2>2, Zenon
<1> QED
  BY <1>1, <1>3, <1>4 DEF MappingHasTenant, Holds

\* podzone.remove: the pod's mapping goes, nobody else's rested on it alone.
LEMMA RemoveStep ==
    ASSUME IInv, NEW p \in Pods, remove(p), handled' = [handled EXCEPT ![p] = Absent]
    PROVE  /\ byPod' \in [Pods -> IPs \cup {NoIP}] /\ byIP' \in [IPs -> Zones \cup {NoZone}]
           /\ MappingHasTenant'
<1> USE PodZoneConstants
<1>1. byPod' \in [Pods -> IPs \cup {NoIP}] /\ byIP' \in [IPs -> Zones \cup {NoZone}]
  BY DEF IInv, TypeOK, remove
<1>2. /\ handled'[p] = Absent /\ byPod'[p] = NoIP
      /\ \A q \in Pods \ {p} : handled'[q] = handled[q] /\ byPod'[q] = byPod[q]
  BY DEF IInv, TypeOK, remove
<1>3. ASSUME NEW q \in Pods, NEW i \in IPs PROVE (byPod[q] = i <=> Holds(handled, q, i))'
  BY <1>2 DEF IInv, MappingHasTenant, Holds
<1>4. ASSUME NEW i \in IPs, byIP'[i] # NoZone
      PROVE  \E q \in Pods : Holds(handled', q, i) /\ handled'[q].zone = byIP'[i]
  <2>1. byIP'[i] = byIP[i] /\ i # byPod[p]
    BY <1>4 DEF remove
  <2>2. PICK q \in Pods : Holds(handled, q, i) /\ handled[q].zone = byIP[i]
    BY <1>4, <2>1 DEF IInv, MappingHasTenant
  <2>3. q # p
    BY <2>1, <2>2 DEF IInv, MappingHasTenant
  <2> QED
    BY <1>2, <2>1, <2>2, <2>3 DEF Holds
<1> QED
  BY <1>1, <1>3, <1>4 DEF MappingHasTenant, Holds

\* One notification handled.
LEMMA HandleStep ==
    ASSUME IInv, Handle
    PROVE  IInv'
<1> DEFINE e == Head(pend)
<1>1. e \in Events /\ Tail(pend) \in Seq(Events)
  BY DEF IInv, TypeOK, Handle
<1>2. /\ IF e.op = "upsert" THEN upsert(e.pod, e.obj) ELSE remove(e.pod)
      /\ handled' = [handled EXCEPT ![e.pod] = e.obj]
      /\ pend' = Tail(pend)
      /\ UNCHANGED <<api, known, watching, synced, changes, run>>
  BY DEF Handle
<1> HIDE DEF e
<1>3. /\ byPod' \in [Pods -> IPs \cup {NoIP}] /\ byIP' \in [IPs -> Zones \cup {NoZone}]
      /\ MappingHasTenant'
  <2>1. CASE e.op = "upsert"
    <3>1. e.pod \in Pods /\ e.obj \in Objects
      BY <1>1, <2>1 DEF Events
    <3> QED
      BY <1>2, <2>1, <3>1, UpsertStep, Zenon
  <2>2. CASE e.op # "upsert"
    <3>1. e.pod \in Pods /\ e.obj = Absent
      BY <1>1, <2>2 DEF Events
    <3> QED
      BY <1>2, <2>2, <3>1, RemoveStep, Zenon
  <2> QED
    BY <2>1, <2>2
<1>4. handled' \in [Pods -> Objects \cup {Absent}]
  BY <1>1, <1>2 DEF IInv, TypeOK, Events
<1> QED
  BY <1>1, <1>2, <1>3, <1>4 DEF IInv, TypeOK

\* The inductive invariant, for every value of the constants.
THEOREM Invariance == Spec => []IInv
<1>1. Init => IInv
  <2> SUFFICES ASSUME Init PROVE IInv
    OBVIOUS
  <2>1. TypeOK
    <3>1. /\ pend \in Seq(Events) /\ changes \in Nat
          /\ byPod \in [Pods -> IPs \cup {NoIP}] /\ byIP \in [IPs -> Zones \cup {NoZone}]
          /\ known \in [Pods -> Objects \cup {Absent}]
          /\ handled \in [Pods -> Objects \cup {Absent}]
      BY DEF Init
    <3>2. api \in [Pods -> Objects \cup {Absent}]
      BY Zenon DEF Init, Clusters
    <3>3. /\ watching \in BOOLEAN /\ synced \in BOOLEAN
          /\ run \in {"syncing", "ready", "ended"}
      BY Zenon DEF Init
    <3> QED
      BY <3>1, <3>2, <3>3 DEF TypeOK
  <2>2. MappingHasTenant
    BY PodZoneConstants DEF Init, MappingHasTenant, Holds
  <2> QED
    BY <2>1, <2>2 DEF IInv
<1>2. IInv /\ [Next]_vars => IInv'
  <2> SUFFICES ASSUME IInv, [Next]_vars PROVE IInv'
    OBVIOUS
  <2>1. ASSUME NEW p \in Pods, Churn(p) \/ \E i \in IPs : AssignIP(p, i) PROVE IInv'
    BY <2>1, ChurnPublishes, PublishType, TableUntouched DEF IInv
  <2>2. CASE Informer
    BY <2>2, InformerStep, TableUntouched DEF IInv
  <2>3. CASE Handle
    BY <2>3, HandleStep
  <2>4. CASE BecomeReady \/ End \/ UNCHANGED vars
    <3>1. TypeOK' /\ tableVars' = tableVars
      BY <2>4 DEF BecomeReady, End, vars, clusterVars, tableVars, IInv, TypeOK
    <3> QED
      BY <3>1, TableUntouched DEF IInv
  <2> QED
    BY <2>1, <2>2, <2>3, <2>4 DEF Next, Watcher
<1> QED
  BY <1>1, <1>2, PTL DEF Spec

\* Type correctness of cluster, informer and table.
THEOREM TypeCorrect == Spec => []TypeOK
BY Invariance, PTL DEF IInv

\* No mapping outlives its pod, its label or its address.
THEOREM MappingsHaveTenants == Spec => []MappingHasTenant
BY Invariance, PTL DEF IInv

-----------------------------------------------------------------------------
(***************************************************************************)
(* The queue.                                                              *)
(***************************************************************************)
\* A list or a resync notifies of every pod of P once, with its object.
LEMMA NotificationsOnce ==
    ASSUME NEW P \in SUBSET Pods, NEW objs \in [Pods -> Objects \cup {Absent}],
           NEW n \in Notifications(P, objs)
    PROVE  /\ \A k \in DOMAIN n : n[k].pod \in P
           /\ \A p \in P : \E k \in DOMAIN n : LastWord(n, k, p, objs[p])
<1>1. IsFiniteSet(P) /\ Cardinality(P) \in Nat
  BY PodZoneConstants, FS_Subset, FS_CardinalityType
<1> DEFINE D == 1 .. Cardinality(P)
<1>2. PICK s \in Bijection(D, P) : n = [k \in D |-> Event(s[k], objs[s[k]])]
  BY DEF Notifications
<1>3. s \in [D -> P] /\ \A i, j \in D : i # j => s[i] # s[j]
  BY DEF Bijection, Injection, IsInjective
<1>4. \A k \in D : n[k].pod = s[k] /\ n[k].obj = objs[s[k]]
  BY <1>2 DEF Event
<1>5. s \in Surjection(D, P)
  BY DEF Bijection
<1>6. DOMAIN n = D
  BY <1>2
<1>7. ASSUME NEW p \in P PROVE \E k \in D : LastWord(n, k, p, objs[p])
  <2>1. PICK k \in D : s[k] = p
    BY <1>5 DEF Surjection
  <2>2. \A m \in D : m > k => s[m] # p
    BY <1>3, <2>1
  <2> QED
    BY <1>4, <1>6, <2>1, <2>2 DEF LastWord
<1> QED
  BY <1>3, <1>4, <1>6, <1>7

\* The last word of the second of two queues is that of both.
LEMMA LastWordAfter ==
    ASSUME NEW E, NEW a \in Seq(E), NEW b \in Seq(E), NEW p, NEW obj,
           NEW k \in DOMAIN b, LastWord(b, k, p, obj)
    PROVE  \E n \in DOMAIN (a \o b) : LastWord(a \o b, n, p, obj)
<1> DEFINE c == a \o b
<1>1. /\ c \in Seq(E) /\ Len(c) = Len(a) + Len(b)
      /\ \A j \in 1 .. Len(b) : c[Len(a) + j] = b[j]
  OBVIOUS
<1>2. k \in 1 .. Len(b) /\ Len(a) \in Nat /\ Len(b) \in Nat
  OBVIOUS
<1>3. Len(a) + k \in DOMAIN c /\ c[Len(a) + k] = b[k]
  BY <1>1, <1>2
<1>4. ASSUME NEW m \in DOMAIN c, m > Len(a) + k PROVE c[m].pod # p
  <2>1. m - Len(a) \in 1 .. Len(b) /\ m - Len(a) > k /\ c[m] = b[m - Len(a)]
    BY <1>1, <1>2, <1>4
  <2> QED
    BY <2>1 DEF LastWord
<1> HIDE DEF c
<1>5. LastWord(c, Len(a) + k, p, obj)
  BY <1>3, <1>4 DEF LastWord
<1> QED
  BY <1>3, <1>5 DEF c

\* A queue that does not speak of p changes nothing for p.
LEMMA FedBefore ==
    ASSUME NEW E, NEW a \in Seq(E), NEW b \in Seq(E), NEW p, NEW done, NEW obj,
           Fed(a, done, p, obj), \A k \in DOMAIN b : b[k].pod # p
    PROVE  Fed(a \o b, done, p, obj)
<1> DEFINE c == a \o b
<1>1. /\ c \in Seq(E) /\ Len(c) = Len(a) + Len(b) /\ Len(a) \in Nat /\ Len(b) \in Nat
      /\ \A j \in 1 .. Len(a) : c[j] = a[j]
      /\ \A j \in 1 .. Len(b) : c[Len(a) + j] = b[j]
      /\ DOMAIN a = 1 .. Len(a) /\ DOMAIN b = 1 .. Len(b)
  OBVIOUS
<1> HIDE DEF c
<1>2. ASSUME NEW m \in DOMAIN c, m \notin DOMAIN a PROVE c[m].pod # p
  <2>1. m - Len(a) \in 1 .. Len(b) /\ c[m] = b[m - Len(a)]
    BY <1>1, <1>2
  <2> QED
    BY <1>1, <2>1
<1>3. CASE \E n \in DOMAIN a : LastWord(a, n, p, obj)
  <2>1. PICK n \in DOMAIN a : LastWord(a, n, p, obj)
    BY <1>3
  <2>2. n \in DOMAIN c /\ c[n] = a[n]
    BY <1>1
  <2>3. ASSUME NEW m \in DOMAIN c, m > n PROVE c[m].pod # p
    BY <1>1, <1>2, <2>1, <2>3 DEF LastWord
  <2> QED
    BY <2>1, <2>2, <2>3 DEF LastWord, Fed, c
<1>4. CASE done = obj /\ \A m \in DOMAIN a : a[m].pod # p
  <2>1. \A m \in DOMAIN c : c[m].pod # p
    BY <1>1, <1>2, <1>4
  <2> QED
    BY <1>4, <2>1 DEF Fed, c
<1> QED
  BY <1>3, <1>4 DEF Fed

\* A change the informer sees is the last word about its pod.
LEMMA PublishFeeds ==
    ASSUME TypeOK, FeedInv, NEW p \in Pods, NEW o \in Objects \cup {Absent}, Publish(p, o)
    PROVE  FeedInv'
<1>1. CASE watching
  <2> DEFINE e == Event(p, o)
  <2>1. /\ known' = [known EXCEPT ![p] = o] /\ known' = api' /\ handled' = handled
        /\ pend' = pend \o <<e>> /\ <<e>> \in Seq(Events) /\ pend \in Seq(Events)
    <3>1. /\ api' = [api EXCEPT ![p] = o] /\ known' = api' /\ pend' = Append(pend, e)
          /\ handled' = handled
      BY <1>1 DEF Publish, tableVars
    <3>2. known = api
      BY <1>1 DEF FeedInv
    <3>3. e \in Events /\ pend \in Seq(Events)
      BY EventType DEF TypeOK
    <3> HIDE DEF e
    <3>4. <<e>> \in Seq(Events) /\ Append(pend, e) = pend \o <<e>>
      BY <3>3
    <3> QED
      BY <3>1, <3>2, <3>3, <3>4
  <2>2. e.pod = p /\ e.obj = o
    BY DEF Event
  <2> HIDE DEF e
  <2>3. ASSUME NEW q \in Pods PROVE Fed(pend', handled'[q], q, known'[q])
    <3>1. CASE q = p
      <4>1. 1 \in DOMAIN <<e>> /\ LastWord(<<e>>, 1, q, known'[q])
        BY <2>1, <2>2, <3>1 DEF LastWord, TypeOK
      <4> QED
        BY <2>1, <4>1, LastWordAfter, Zenon DEF Fed
    <3>2. CASE q # p
      <4>1. known'[q] = known[q] /\ \A k \in DOMAIN <<e>> : <<e>>[k].pod # q
        BY <2>1, <2>2, <3>2 DEF TypeOK
      <4>2. Fed(pend, handled[q], q, known[q])
        BY DEF FeedInv
      <4> QED
        BY <2>1, <4>1, <4>2, FedBefore, Zenon
    <3> QED
      BY <3>1, <3>2
  <2> QED
    BY <2>1, <2>3 DEF FeedInv
<1>2. CASE ~watching
  BY <1>2 DEF Publish, FeedInv, tableVars
<1> QED
  BY <1>1, <1>2

\* A list, a relist or a resync, in whatever order it notifies: it gives the
\* last word on the pods it speaks of, and the others are as they were known.
LEMMA NotifyFeeds ==
    ASSUME TypeOK, FeedInv, NEW P \in SUBSET Pods, NEW objs \in [Pods -> Objects \cup {Absent}],
           \A p \in Pods \ P : objs[p] = known[p],
           NEW n \in Notifications(P, objs)
    PROVE  \A p \in Pods : Fed(pend \o n, handled[p], p, objs[p])
<1>1. n \in Seq(Events) /\ pend \in Seq(Events)
  BY NotificationsType DEF TypeOK
<1>2. /\ \A k \in DOMAIN n : n[k].pod \in P
      /\ \A p \in P : \E k \in DOMAIN n : LastWord(n, k, p, objs[p])
  BY NotificationsOnce, Zenon
<1>3. ASSUME NEW p \in P PROVE Fed(pend \o n, handled[p], p, objs[p])
  BY <1>1, <1>2, LastWordAfter, Zenon DEF Fed
<1>4. ASSUME NEW p \in Pods \ P PROVE Fed(pend \o n, handled[p], p, objs[p])
  <2>1. Fed(pend, handled[p], p, objs[p])
    BY DEF FeedInv
  <2>2. \A k \in DOMAIN n : n[k].pod # p
    BY <1>2
  <2> QED
    BY <1>1, <2>1, <2>2, FedBefore, Zenon
<1> QED
  BY <1>3, <1>4

\* The pods a list does not speak of are absent, as they were.
LEMMA ListFeeds ==
    ASSUME TypeOK, FeedInv, List
    PROVE  FeedInv'
<1> DEFINE told == Present(known) \cup Present(api)
<1>1. PICK n \in Notifications(told, api) : pend' = pend \o n
  BY DEF List
<1>2. known' = api /\ api' = api /\ handled' = handled
  BY DEF List, tableVars
<1>3. /\ told \in SUBSET Pods /\ api \in [Pods -> Objects \cup {Absent}]
      /\ \A p \in Pods \ told : api[p] = known[p]
  BY DEF TypeOK, Present
<1> HIDE DEF told
<1>4. \A p \in Pods : Fed(pend', handled[p], p, api[p])
  BY <1>1, <1>3, NotifyFeeds
<1> QED
  BY <1>2, <1>4 DEF FeedInv

\* A resync repeats what is known.
LEMMA ResyncFeeds ==
    ASSUME TypeOK, FeedInv, Resync
    PROVE  FeedInv'
<1>1. PICK n \in Notifications(Present(known), known) : pend' = pend \o n
  BY DEF Resync
<1>2. known' = known /\ api' = api /\ watching' = watching /\ handled' = handled
  BY DEF Resync, tableVars
<1>3. Present(known) \in SUBSET Pods /\ known \in [Pods -> Objects \cup {Absent}]
  BY DEF Present, TypeOK
<1>4. \A p \in Pods : Fed(pend', handled[p], p, known[p])
  BY <1>1, <1>3, NotifyFeeds
<1> QED
  BY <1>2, <1>4 DEF FeedInv

\* Handling a notification: the pod it is about was told its last word, or
\* another one follows.
LEMMA HandleFeeds ==
    ASSUME TypeOK, FeedInv, Handle
    PROVE  FeedInv'
<1>1. /\ pend \in Seq(Events) /\ pend # <<>> /\ pend' = Tail(pend)
      /\ handled' = [handled EXCEPT ![Head(pend).pod] = Head(pend).obj]
      /\ UNCHANGED <<api, known, watching>>
  BY DEF Handle, TypeOK
<1>2. /\ Len(pend) \in Nat \ {0} /\ DOMAIN pend = 1 .. Len(pend)
      /\ DOMAIN pend' = 1 .. Len(pend) - 1 /\ Head(pend) = pend[1]
      /\ \A j \in 1 .. Len(pend) - 1 : pend'[j] = pend[j + 1]
  BY <1>1
<1>3. ASSUME NEW p \in Pods PROVE Fed(pend', handled'[p], p, known[p])
  <2>1. handled'[p] = IF pend[1].pod = p THEN pend[1].obj ELSE handled[p]
    BY <1>1, <1>2 DEF TypeOK
  <2>2. CASE \E n \in DOMAIN pend : n # 1 /\ LastWord(pend, n, p, known[p])
    <3>1. PICK n \in DOMAIN pend : n # 1 /\ LastWord(pend, n, p, known[p])
      BY <2>2
    <3>2. n - 1 \in DOMAIN pend' /\ pend'[n - 1] = pend[n]
      BY <1>2, <3>1
    <3>3. ASSUME NEW m \in DOMAIN pend', m > n - 1 PROVE pend'[m].pod # p
      <4>1. m + 1 \in DOMAIN pend /\ m + 1 > n /\ pend'[m] = pend[m + 1]
        BY <1>2, <3>3
      <4> QED
        BY <3>1, <4>1 DEF LastWord
    <3>4. LastWord(pend', n - 1, p, known[p])
      BY <3>1, <3>2, <3>3 DEF LastWord
    <3> QED
      BY <3>2, <3>4 DEF Fed
  <2>3. ASSUME \A m \in DOMAIN pend : m > 1 => pend[m].pod # p
        PROVE  \A m \in DOMAIN pend' : pend'[m].pod # p
    BY <1>2, <2>3
  <2>4. CASE LastWord(pend, 1, p, known[p])
    BY <2>1, <2>3, <2>4 DEF LastWord, Fed
  <2>5. CASE handled[p] = known[p] /\ \A m \in DOMAIN pend : pend[m].pod # p
    <3>1. handled'[p] = handled[p]
      BY <1>2, <2>1, <2>5
    <3> QED
      BY <2>3, <2>5, <3>1 DEF Fed
  <2>6. Fed(pend, handled[p], p, known[p])
    BY DEF FeedInv
  <2> QED
    BY <2>2, <2>4, <2>5, <2>6 DEF Fed
<1> QED
  BY <1>1, <1>3 DEF FeedInv

\* Whatever the cluster and the watch do, every pod's last notification is
\* the informer's latest knowledge of it.
LEMMA FeedInvariance == Spec => []FeedInv
<1>1. Init => FeedInv
  BY DEF Init, FeedInv, Fed
<1>2. IInv /\ FeedInv /\ [Next]_vars => FeedInv'
  <2> SUFFICES ASSUME IInv, FeedInv, [Next]_vars PROVE FeedInv'
    OBVIOUS
  <2>1. ASSUME NEW p \in Pods, Churn(p) \/ \E i \in IPs : AssignIP(p, i) PROVE FeedInv'
    BY <2>1, ChurnPublishes, PublishFeeds DEF IInv
  <2>2. CASE WatchBreaks
    BY <2>2 DEF WatchBreaks, FeedInv, tableVars
  <2>3. CASE List \/ Resync
    BY <2>3, ListFeeds, ResyncFeeds DEF IInv
  <2>4. CASE Handle
    BY <2>4, HandleFeeds DEF IInv
  <2>5. CASE BecomeReady \/ End \/ UNCHANGED vars
    BY <2>5 DEF BecomeReady, End, vars, clusterVars, tableVars, FeedInv
  <2> QED
    BY <2>1, <2>2, <2>3, <2>4, <2>5 DEF Next, Informer, Watcher
<1> QED
  BY <1>1, <1>2, Invariance, PTL DEF Spec

\* Watcher and informer together, at every moment, with the watch up or
\* broken and any number of notifications queued: a mapping is that of a pod
\* as the informer last knew it, or of a pod with a notification on its way.
THEOREM MappingsAreKnown == Spec => []MappingIsKnown
<1>1. IInv /\ FeedInv => MappingIsKnown
  <2> SUFFICES ASSUME IInv, FeedInv, NEW i \in IPs, byIP[i] # NoZone
               PROVE  \E p \in Pods : \/ Holds(known, p, i) /\ known[p].zone = byIP[i]
                                      \/ Awaited(p) /\ byPod[p] = i
    BY DEF MappingIsKnown
  <2>1. PICK p \in Pods : Holds(handled, p, i) /\ handled[p].zone = byIP[i] /\ byPod[p] = i
    BY DEF IInv, MappingHasTenant
  <2>2. Awaited(p) \/ handled[p] = known[p]
    BY DEF FeedInv, Fed, LastWord, Awaited
  <2> QED
    BY <2>1, <2>2 DEF Holds
<1> QED
  BY <1>1, Invariance, FeedInvariance, PTL

\* The same against the cluster: once every event is handled, after any
\* broken watches and relists, a mapping names a pod that exists with that
\* address and that zone.
THEOREM MappingsAreReal == Spec => []MappingIsReal
<1>1. FeedInv /\ MappingIsKnown => MappingIsReal
  BY DEF MappingIsReal, MappingIsKnown, FeedInv, CaughtUp, Awaited
<1> QED
  BY <1>1, FeedInvariance, MappingsAreKnown, PTL
=============================================================================
