-------------------------------- MODULE Drift --------------------------------
(***************************************************************************)
(* zonedns-drift (cmd/zonedns-drift with internal/drift): one comparison   *)
(* of the names VirtualServices declare with the names pods claim by       *)
(* label, and the exit code a CronJob acts on.                             *)
(*                                                                         *)
(* The cluster is external: VirtualServices, pods and the API versions     *)
(* served may change between the tool's calls.  A VirtualService is        *)
(* [gateways, hosts], each a set of texts or Malformed when the field is   *)
(* not a list of strings; an absent list is the empty set.  A pod is the   *)
(* value of its host label.                                                *)
(***************************************************************************)
EXTENDS Naturals, Sequences

CONSTANTS
    Objects,           \* names of VirtualServices and of pods that the lists
                       \* cover: the cluster's, or those of -namespace
    VirtualServices,   \* bound: what a VirtualService may be
    Labels,            \* bound: values of the host label, "" among them
    Absent,            \* no such VirtualService; no such pod, or none labelled
    Malformed,
    Wildcards,         \* texts that start with *
    ShortNames,        \* texts without a dot
    ClusterNames,      \* texts under -cluster-domain, none if it is ""
    MaxChanges         \* bound: changes of the cluster during one run

\* The error is no list of hosts.
ASSUME MalformedIsNoList ==
    \A list \in SUBSET UNION {v.hosts : v \in {w \in VirtualServices : w.hosts # Malformed}} :
        list # Malformed

VARIABLES
    vs, pods,          \* the cluster's objects
    served,            \* the VirtualService versions its API server serves
    changes,
    pc,                \* the tool's next call: "start", a version, "pods", "exit"
    vsHosts,           \* what CollectVirtualServiceHosts returned
    code,              \* the exit code
    refused,           \* for the properties: a call failed for another reason
                       \* than a version not served
    seen               \* and what some (any) or every (all) moment of the run
                       \* held: declared hosts, claimed names, malformed
                       \* VirtualServices, served versions

cluster == <<vs, pods, served, changes>>
vars == <<cluster, pc, vsHosts, code, refused, seen>>

-----------------------------------------------------------------------------

exitClean == 0
exitDrift == 1
exitFailed == 2

ShouldSkipHost(host) ==
    CASE host \in Wildcards    -> "wildcard host"
      [] host \notin Wildcards /\ host \in ShortNames -> "short name, not an FQDN"
      [] host \notin Wildcards \cup ShortNames /\ host \in ClusterNames -> "cluster-internal name"
      [] OTHER -> ""

SkipUnlessDefault(gateways) ==
    IF gateways = {} THEN "" ELSE "bound to a gateway rather than the mesh"

ShouldSkipVirtualService(gateways) ==
    IF gateways = {} \/ "mesh" \in gateways THEN ""
    ELSE "bound to a gateway rather than the mesh"

Listed(objects) == {objects[o] : o \in Objects} \ {Absent}

\* stringSlice fails on either field, of a skipped VirtualService too.
Readable(v) == v.gateways # Malformed /\ v.hosts # Malformed

CollectSkipsMalformed(list) ==
    UNION {{h \in v.hosts : ShouldSkipHost(h) = ""} :
              v \in {w \in list : Readable(w) /\ ShouldSkipVirtualService(w.gateways) = ""}}

CollectVirtualServiceHosts(list) ==
    IF \E v \in list : ~Readable(v) THEN Malformed
    ELSE UNION {{h \in v.hosts : ShouldSkipHost(h) = ""} :
                   v \in {w \in list : ShouldSkipVirtualService(w.gateways) = ""}}

\* Compare; toSet drops the empty label.
Compare(hosts, labels) ==
    [UnclaimedHosts |-> (hosts \ {""}) \ labels, UnroutedLabels |-> (labels \ {""}) \ hosts]

OK(report) == report.UnclaimedHosts = {} /\ report.UnroutedLabels = {}

printReport(report) == IF OK(report) THEN exitClean ELSE exitDrift

-----------------------------------------------------------------------------
(***************************************************************************)
(* What the cluster says, independently of the tool.                       *)
(***************************************************************************)
\* Hosts that mesh clients resolve and that a pod could claim.
Declared ==
    {h \in UNION {v.hosts : v \in {w \in Listed(vs) : Readable(w)
                                     /\ (w.gateways # {} => "mesh" \in w.gateways)}} :
        h # "" /\ h \notin Wildcards \cup ShortNames \cup ClusterNames}

Claimed == Listed(pods) \ {""}

Now == [declared |-> Declared, claimed |-> Claimed, served |-> served,
        broken |-> {o \in Objects : vs[o] # Absent /\ ~Readable(vs[o])}]

Moment == [any |-> Now, all |-> Now]

\* The run has seen one more moment.
Noted(now) ==
    [any |-> [f \in DOMAIN now |-> seen.any[f] \cup now[f]],
     all |-> [f \in DOMAIN now |-> seen.all[f] \cap now[f]]]

-----------------------------------------------------------------------------

Init ==
    /\ vs \in [Objects -> VirtualServices \cup {Absent}]
    /\ pods \in [Objects -> Labels \cup {Absent}]
    /\ served \in SUBSET {"v1", "v1beta1"}
    /\ changes = 0
    /\ pc = "start"
    /\ vsHosts = {}
    /\ code = exitClean
    /\ refused = FALSE
    /\ seen = Moment

\* Someone edits the cluster, or upgrades Istio, while the tool runs.
Change ==
    /\ pc # "exit"
    /\ changes < MaxChanges
    /\ changes' = changes + 1
    /\ \/ /\ \E o \in Objects, v \in VirtualServices \cup {Absent} : vs' = [vs EXCEPT ![o] = v]
          /\ UNCHANGED <<pods, served>>
       \/ /\ \E o \in Objects, l \in Labels \cup {Absent} : pods' = [pods EXCEPT ![o] = l]
          /\ UNCHANGED <<vs, served>>
       \/ /\ served' \in SUBSET {"v1", "v1beta1"}
          /\ UNCHANGED <<vs, pods>>
    /\ seen' = Noted(Now')
    /\ UNCHANGED <<pc, vsHosts, code, refused>>

Exit(c) == pc' = "exit" /\ code' = c

\* loadConfig and the two clients.
LoadConfig ==
    /\ pc = "start"
    /\ pc' = "v1"
    /\ UNCHANGED <<cluster, vsHosts, code, refused, seen>>

LoadConfigFails ==
    /\ pc = "start"
    /\ Exit(exitFailed)
    /\ refused' = TRUE
    /\ UNCHANGED <<cluster, vsHosts, seen>>

ListFirstVersionOnly(version) ==
    /\ pc = version
    /\ version \notin served
    /\ Exit(exitFailed)
    /\ UNCHANGED <<cluster, vsHosts, refused, seen>>

\* listVirtualServices: NotFound sends it to the next version, if there is one.
ListNotFound(version) ==
    /\ pc = version
    /\ version \notin served
    /\ IF version = "v1" THEN pc' = "v1beta1" /\ UNCHANGED code ELSE Exit(exitFailed)
    /\ UNCHANGED <<cluster, vsHosts, refused, seen>>

ListVirtualServices(version) ==
    /\ pc = version
    /\ version \in served
    /\ vsHosts' = CollectVirtualServiceHosts(Listed(vs))
    /\ IF vsHosts' = Malformed THEN Exit(exitFailed) ELSE pc' = "pods" /\ UNCHANGED code
    /\ UNCHANGED <<cluster, refused, seen>>

\* Any other error of a list call ends the run.
CallFails ==
    /\ pc \in {"v1", "v1beta1", "pods"}
    /\ Exit(exitFailed)
    /\ refused' = TRUE
    /\ UNCHANGED <<cluster, vsHosts, seen>>

ListPods ==
    /\ pc = "pods"
    /\ Exit(printReport(Compare(vsHosts, Listed(pods))))
    /\ UNCHANGED <<cluster, vsHosts, refused, seen>>

Next ==
    \/ Change
    \/ LoadConfig \/ LoadConfigFails
    \/ \E version \in {"v1", "v1beta1"} : ListNotFound(version) \/ ListVirtualServices(version)
    \/ CallFails
    \/ ListPods

Spec == Init /\ [][Next]_vars

-----------------------------------------------------------------------------

\* "No drift" is earned, in a cluster that changes under the tool as well:
\* nothing failed, every host declared throughout the run was claimed at some
\* moment of it, every name claimed throughout was declared at some moment,
\* and no VirtualService was unreadable all the time.
CleanIsEarned ==
    pc = "exit" /\ code = exitClean =>
        /\ ~refused
        /\ seen.all.declared \subseteq seen.any.claimed
        /\ seen.all.claimed \subseteq seen.any.declared
        /\ seen.all.broken = {}

\* Reported drift is drift: at some moment a host was declared or a name was
\* claimed that the other side did not have all the time.
DriftIsReal ==
    pc = "exit" /\ code = exitDrift =>
        /\ ~refused
        /\ \/ ~(seen.any.declared \subseteq seen.all.claimed)
           \/ ~(seen.any.claimed \subseteq seen.all.declared)

\* The tool fails only for a reason: a call failed, a VirtualService could not
\* be read, or no version was served all the time.
FailureHasCause ==
    pc = "exit" /\ code = exitFailed =>
        refused \/ seen.any.broken # {} \/ seen.all.served = {}
=============================================================================
