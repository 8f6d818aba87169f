------------------------------- MODULE PodZone -------------------------------
(***************************************************************************)
(* The pod-IP-to-zone table of a Kubernetes node (internal/podzone): the   *)
(* Watcher, the client-go informer feeding it and the cluster the informer *)
(* watches.                                                                *)
(*                                                                         *)
(* Informer and cluster are external and modelled from the way Run uses    *)
(* them.  The API server's objects are api; the informer's store is known; *)
(* the notifications it has queued for the Watcher's handlers are pend.    *)
(* While the watch is up every change of api enters both at once; while it *)
(* is broken changes go unseen until a relist, which delivers the listed   *)
(* pods and the pods that disappeared.  client-go's queues differ in which *)
(* of the two come first, so here they come in any order.  A resync        *)
(* delivers every known pod again.  HasSynced holds as soon as the first   *)
(* list has been queued, whether or not the handlers ran.                  *)
(***************************************************************************)
EXTENDS Naturals, Sequences, FiniteSets, Functions

CONSTANTS
    Pods,         \* namespace/name keys of pods of this node
    IPs,
    NodeIP,       \* the node's own address, which its hostNetwork pods share
    Zones,        \* label values Valid accepts
    BadZones,     \* label values it rejects
    NoZone,       \* the zone label is missing or empty; no mapping
    NoIP,         \* status.podIP is empty; pod not indexed
    Absent,       \* no such object
    MaxChanges,   \* bound: API changes and watch failures in a behaviour
    MaxPending    \* bound: notifications in the queue

ASSUME PodZoneConstants ==
    /\ IsFiniteSet(Pods)
    /\ (BadZones \cup {NoZone}) \cap Zones = {}
    /\ NodeIP \in IPs /\ NoIP \notin IPs
    /\ MaxChanges \in Nat /\ MaxPending \in Nat

Labels == Zones \cup BadZones \cup {NoZone}

\* live: the pod's sandbox exists, so its IP cannot be given to another pod.
Objects ==
    [ip : IPs \cup {NoIP}, zone : Labels, host : BOOLEAN, live : BOOLEAN]

ASSUME AbsentIsNoObject == Absent \notin Objects

Events ==
    {e \in [op : {"upsert", "remove"}, pod : Pods, obj : Objects \cup {Absent}] :
        e.op = "remove" <=> e.obj = Absent}

VARIABLES
    api, known, watching, synced, pend,   \* cluster and informer
    byPod, byIP,                          \* the Watcher's two maps
    run,      \* where Run is: "syncing", "ready" (w.ready) or "ended"
    handled,  \* for the properties: the object each pod was last handled as
    changes   \* API changes and watch failures so far

clusterVars == <<api, known, watching, synced, pend, changes>>
tableVars == <<byPod, byIP, handled>>
vars == <<clusterVars, tableVars, run>>

Present(objs) == {p \in Pods : objs[p] # Absent}

\* The pods running when the watcher starts.
Clusters ==
    {a \in [Pods -> Objects \cup {Absent}] : \A p \in Present(a) :
        /\ a[p].live
        /\ a[p].ip = NodeIP <=> a[p].host
        /\ \A q \in Present(a) \ {p} : a[p].ip = a[q].ip => a[p].ip \in {NodeIP, NoIP}}

Init ==
    /\ api \in Clusters
    /\ known = [p \in Pods |-> Absent]
    /\ watching = FALSE
    /\ synced = FALSE
    /\ pend = <<>>
    /\ byPod = [p \in Pods |-> NoIP]
    /\ byIP = [i \in IPs |-> NoZone]
    /\ run = "syncing"
    /\ handled = [p \in Pods |-> Absent]
    /\ changes = 0

Event(p, o) == [op |-> IF o = Absent THEN "remove" ELSE "upsert", pod |-> p, obj |-> o]

(***************************************************************************)
(* The cluster.                                                            *)
(***************************************************************************)
\* The object of p becomes o (Absent: it is deleted).
Publish(p, o) ==
    /\ run # "ended"
    /\ changes < MaxChanges
    /\ changes' = changes + 1
    /\ api' = [api EXCEPT ![p] = o]
    /\ IF watching
       THEN /\ Len(pend) < MaxPending
            /\ known' = api'
            /\ pend' = Append(pend, Event(p, o))
       ELSE UNCHANGED <<known, pend>>
    /\ UNCHANGED <<watching, synced, tableVars, run>>

Create(p) ==
    /\ api[p] = Absent
    /\ \E z \in Labels, h \in BOOLEAN :
          Publish(p, [ip |-> NoIP, zone |-> z, host |-> h, live |-> TRUE])

\* The sandbox gets an address, or another one.
AssignIP(p, i) ==
    /\ api[p] # Absent /\ api[p].live /\ api[p].ip # i
    /\ i = NodeIP <=> api[p].host
    /\ ~api[p].host => \A q \in Present(api) : api[q].live => api[q].ip # i
    /\ Publish(p, [api[p] EXCEPT !.ip = i])

Relabel(p) ==
    /\ api[p] # Absent
    /\ \E z \in Labels \ {api[p].zone} :
          Publish(p, [api[p] EXCEPT !.zone = z])

\* The pod completes or is being deleted: its sandbox is gone, its object and
\* the status in it are not.
Terminate(p) ==
    /\ api[p] # Absent /\ api[p].live
    /\ Publish(p, [api[p] EXCEPT !.live = FALSE])

Delete(p) ==
    /\ api[p] # Absent /\ ~api[p].live
    /\ Publish(p, Absent)

Churn(p) == Create(p) \/ Relabel(p) \/ Terminate(p) \/ Delete(p)

(***************************************************************************)
(* The informer.                                                           *)
(***************************************************************************)
Notifications(P, objs) ==
    { [n \in 1 .. Cardinality(P) |-> Event(s[n], objs[s[n]])] : s \in Bijection(1 .. Cardinality(P), P) }

WatchBreaks ==
    /\ run # "ended"
    /\ watching
    /\ changes < MaxChanges
    /\ changes' = changes + 1
    /\ watching' = FALSE
    /\ UNCHANGED <<api, known, synced, pend, tableVars, run>>

\* The first list and every relist, with the pods listed and those vanished.
List ==
    LET told == Present(known) \cup Present(api)
    IN  /\ run # "ended"
        /\ ~watching
        /\ Len(pend) + Cardinality(told) <= MaxPending
        /\ \E n \in Notifications(told, api) : pend' = pend \o n
        /\ known' = api
        /\ watching' = TRUE
        /\ synced' = TRUE
        /\ UNCHANGED <<api, changes, tableVars, run>>

NoResync == FALSE /\ UNCHANGED vars

\* resyncPeriod elapsed, whether or not the handlers keep up; the resync timer
\* runs only beside a live watch.
Resync ==
    /\ run # "ended"
    /\ watching
    /\ Present(known) # {}
    /\ Len(pend) + Cardinality(Present(known)) <= MaxPending
    /\ \E n \in Notifications(Present(known), known) : pend' = pend \o n
    /\ UNCHANGED <<api, known, watching, synced, changes, tableVars, run>>

(***************************************************************************)
(* The Watcher's handlers.                                                 *)
(***************************************************************************)
qualifiesAnyLabel(o) == ~o.host /\ o.ip # NoIP /\ o.zone # NoZone

qualifies(o) == ~o.host /\ o.ip # NoIP /\ o.zone \in Zones

upsertKeepsOld(p, o) ==
    /\ byPod' = [byPod EXCEPT ![p] = IF qualifies(o) THEN o.ip ELSE NoIP]
    /\ byIP' = [i \in IPs |-> IF qualifies(o) /\ i = o.ip THEN o.zone ELSE byIP[i]]

upsertIgnoresUnfit(p, o) ==
    IF qualifies(o)
    THEN /\ byPod' = [byPod EXCEPT ![p] = o.ip]
         /\ byIP' = [i \in IPs |-> IF i = o.ip THEN o.zone
                                   ELSE IF i = byPod[p] THEN NoZone ELSE byIP[i]]
    ELSE UNCHANGED <<byPod, byIP>>

\* A pod that left its address, or no longer qualifies, gives the mapping up.
upsert(p, o) ==
    /\ byPod' = [byPod EXCEPT ![p] = IF qualifies(o) THEN o.ip ELSE NoIP]
    /\ byIP' = [i \in IPs |->
          IF qualifies(o) /\ i = o.ip THEN o.zone
          ELSE IF i = byPod[p] THEN NoZone ELSE byIP[i]]

removeKeepsMapping(p) ==
    /\ byPod' = [byPod EXCEPT ![p] = NoIP]
    /\ UNCHANGED byIP

remove(p) ==
    /\ byIP' = [i \in IPs |-> IF i = byPod[p] THEN NoZone ELSE byIP[i]]
    /\ byPod' = [byPod EXCEPT ![p] = NoIP]

Handle ==
    /\ run # "ended"
    /\ pend # <<>>
    /\ LET e == Head(pend)
       IN  /\ IF e.op = "upsert" THEN upsert(e.pod, e.obj) ELSE remove(e.pod)
           /\ handled' = [handled EXCEPT ![e.pod] = e.obj]
    /\ pend' = Tail(pend)
    /\ UNCHANGED <<api, known, watching, synced, changes, run>>

(***************************************************************************)
(* Run: w.ready after HasSynced, not before; false again when ctx ends.    *)
(***************************************************************************)
BecomeReady ==
    /\ run = "syncing"
    /\ synced
    /\ run' = "ready"
    /\ UNCHANGED <<clusterVars, tableVars>>

End ==
    /\ run # "ended"
    /\ run' = "ended"
    /\ UNCHANGED <<clusterVars, tableVars>>

Zone(i) == IF run = "ready" THEN byIP[i] ELSE NoZone

Watcher == Handle \/ BecomeReady \/ End

Informer == WatchBreaks \/ List \/ Resync

Next ==
    \/ \E p \in Pods : Churn(p) \/ \E i \in IPs : AssignIP(p, i)
    \/ Informer
    \/ Watcher

Spec == Init /\ [][Next]_vars

(***************************************************************************)
(* Fairness: the handler goroutine runs, the informer relists after a      *)
(* broken watch and resyncs every resyncPeriod.  The cluster owes nothing. *)
(***************************************************************************)
FairSpec == Spec /\ WF_vars(Handle) /\ WF_vars(List) /\ WF_vars(Resync)

-----------------------------------------------------------------------------

\* Every variable holds a value of its type.
TypeOK ==
    /\ api \in [Pods -> Objects \cup {Absent}]
    /\ known \in [Pods -> Objects \cup {Absent}]
    /\ watching \in BOOLEAN /\ synced \in BOOLEAN
    /\ pend \in Seq(Events)
    /\ byPod \in [Pods -> IPs \cup {NoIP}]
    /\ byIP \in [IPs -> Zones \cup {NoZone}]
    /\ run \in {"syncing", "ready", "ended"}
    /\ handled \in [Pods -> Objects \cup {Absent}]
    /\ changes \in Nat

\* A pod in objs that is to be found under address i.
Holds(objs, p, i) == objs[p] # Absent /\ qualifies(objs[p]) /\ objs[p].ip = i

\* upsert and remove reclaim precisely: byPod is the address of the object the
\* pod was last handled as, and every mapping belongs to a pod last handled
\* with that address and that zone.  No mapping outlives its pod's deletion,
\* relabelling or change of address, whatever other pods share the address.
MappingHasTenant ==
    /\ \A p \in Pods, i \in IPs : byPod[p] = i <=> Holds(handled, p, i)
    /\ \A i \in IPs : byIP[i] # NoZone =>
          \E p \in Pods : Holds(handled, p, i) /\ handled[p].zone = byIP[i]

\* A notification about p has not been handled yet.
Awaited(p) == \E n \in DOMAIN pend : pend[n].pod = p

\* How stale a table can be that keeps answering while the watch is broken and
\* while handlers lag: at any moment a mapping is that of a pod as the informer
\* last knew it, or that of a pod with a notification on its way.  So with the
\* queue empty a broken watch freezes the table at the moment it broke; it
\* never shows what had been taken back by then.
MappingIsKnown ==
    \A i \in IPs : byIP[i] # NoZone =>
        \E p \in Pods :
            \/ Holds(known, p, i) /\ known[p].zone = byIP[i]
            \/ Awaited(p) /\ byPod[p] = i

CaughtUp == watching /\ pend = <<>>

\* The same against the cluster: once every event is handled, broken watches
\* and relists included, a mapping names a pod that exists with that address
\* and that zone.
MappingIsReal ==
    CaughtUp => \A i \in IPs : byIP[i] # NoZone =>
        \E p \in Pods : Holds(api, p, i) /\ api[p].zone = byIP[i]

\* "An old value is never reused" (design document, 7.6): once every event is
\* handled, a query from a running pod's address resolves to that pod's zone
\* or to none, never to the zone of an earlier tenant of the address.
NoPreviousTenant ==
    CaughtUp => \A p \in Present(api) : api[p].live /\ api[p].ip # NoIP =>
        Zone(api[p].ip) \in {NoZone, api[p].zone}

\* "1 when the zone resolver has loaded its data": a ready Watcher has handled
\* every pod of the first list at least once.
ReadyMeansLoaded ==
    run = "ready" /\ changes = 0 => handled = known

\* Every pod that is the only one to claim its address is found under it.
Complete ==
    \A p \in Pods, i \in IPs :
        (Holds(api, p, i) /\ \A q \in Pods \ {p} : ~Holds(api, q, i)) => byIP[i] = api[p].zone

\* resyncPeriod's promise: a mapping wiped by the late deletion of an earlier
\* tenant comes back.  When the cluster stops changing the table becomes and
\* stays complete, unless the watcher is stopped.
Heals == <>[](Complete \/ run = "ended")
=============================================================================
