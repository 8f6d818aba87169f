----------------------------- MODULE DriftProofs -----------------------------
(***************************************************************************)
(* The three exit codes of zonedns-drift, for clusters of any size that    *)
(* change any number of times under the tool.                              *)
(*                                                                         *)
(* The properties speak of the end of a run.  IInv says what the tool      *)
(* knows on the way there: until it exits, what the cluster holds now lies *)
(* between what every and what some moment of the run held; and what the   *)
(* calls made so far returned lies there too, however old it is.           *)
(***************************************************************************)
EXTENDS Drift, TLAPS

Fields == {"declared", "claimed", "served", "broken"}

\* The cluster is among the moments seen.
Witnessed == \A f \in Fields : seen.all[f] \subseteq Now[f] /\ Now[f] \subseteq seen.any[f]

\* The VirtualServices collected were all readable, and are those of some
\* moment of the run.
Collected ==
    /\ seen.all.declared \subseteq vsHosts \ {""} /\ vsHosts \ {""} \subseteq seen.any.declared
    /\ seen.all.broken = {}

Typed ==
    /\ vs \in [Objects -> VirtualServices \cup {Absent}]
    /\ served \subseteq {"v1", "v1beta1"}
    /\ pc \in {"start", "v1", "v1beta1", "pods", "exit"}
    /\ refused \in BOOLEAN
    /\ DOMAIN seen.any = Fields /\ DOMAIN seen.all = Fields
    /\ seen.all.served \subseteq {"v1", "v1beta1"}

IInv ==
    /\ Typed
    /\ pc # "exit" => ~refused /\ Witnessed
    /\ pc = "v1beta1" => "v1" \notin seen.all.served
    /\ pc = "pods" => Collected
    /\ CleanIsEarned /\ DriftIsReal /\ FailureHasCause

-----------------------------------------------------------------------------

\* ShouldSkipHost keeps the names a pod could claim.
LEMMA KeptHosts ==
    ASSUME NEW h
    PROVE  ShouldSkipHost(h) = "" <=> h \notin Wildcards \cup ShortNames \cup ClusterNames
<1>1. CASE h \in Wildcards
  BY <1>1 DEF ShouldSkipHost
<1>2. CASE h \notin Wildcards /\ h \in ShortNames
  BY <1>2 DEF ShouldSkipHost
<1>3. CASE h \notin Wildcards \cup ShortNames /\ h \in ClusterNames
  BY <1>3 DEF ShouldSkipHost
<1>4. CASE h \notin Wildcards \cup ShortNames \cup ClusterNames
  BY <1>4 DEF ShouldSkipHost
<1> QED
  BY <1>1, <1>2, <1>3, <1>4, Zenon

\* CollectVirtualServiceHosts on the cluster as it is: an error exactly when
\* some VirtualService cannot be read, and otherwise the declared hosts.
LEMMA CollectIsDeclared ==
    ASSUME vs \in [Objects -> VirtualServices \cup {Absent}],
           NEW hosts, hosts = CollectVirtualServiceHosts(Listed(vs))
    PROVE  /\ hosts = Malformed => Now.broken # {}
           /\ hosts # Malformed => Now.broken = {} /\ hosts \ {""} = Declared
<1>1. CASE \E v \in Listed(vs) : ~Readable(v)
  <2>1. hosts = Malformed
    BY <1>1, Zenon DEF CollectVirtualServiceHosts
  <2>2. PICK o \in Objects : vs[o] # Absent /\ ~Readable(vs[o])
    BY <1>1 DEF Listed
  <2> QED
    BY <2>1, <2>2 DEF Now
<1>2. CASE \A v \in Listed(vs) : Readable(v)
  <2> DEFINE taken == {w \in Listed(vs) : ShouldSkipVirtualService(w.gateways) = ""}
  <2>1. hosts = UNION {{h \in v.hosts : ShouldSkipHost(h) = ""} : v \in taken}
    BY <1>2, Zenon DEF CollectVirtualServiceHosts
  <2>2. \A h : h \in hosts <=> \E v \in taken : h \in v.hosts /\ ShouldSkipHost(h) = ""
    <3> HIDE DEF taken
    <3> DEFINE kept(v) == {g \in v.hosts : ShouldSkipHost(g) = ""}
    <3>1. \A h, v : h \in kept(v) <=> h \in v.hosts /\ ShouldSkipHost(h) = ""
      OBVIOUS
    <3>2. hosts = UNION {kept(v) : v \in taken}
      BY <2>1, Zenon
    <3> HIDE DEF kept
    <3>3. \A h : h \in hosts <=> \E v \in taken : h \in kept(v)
      BY <3>2
    <3> QED
      BY <3>1, <3>3, Zenon
  <2>3. hosts # Malformed
    <3> DEFINE proper == {w \in VirtualServices : w.hosts # Malformed}
    <3>1. \A v \in taken : v \in proper
      BY <1>2, Zenon DEF Listed, Readable
    <3>2. \A v \in proper : v.hosts \subseteq UNION {w.hosts : w \in proper}
      <4> HIDE DEF proper
      <4> QED
        BY Zenon
    <3>3. hosts \subseteq UNION {w.hosts : w \in proper}
      <4> HIDE DEF proper, taken
      <4> QED
        BY <2>2, <3>1, <3>2, Zenon
    <3> QED
      BY <3>3, MalformedIsNoList
  <2>4. Now.broken = {}
    <3>1. \A o \in Objects : vs[o] # Absent => Readable(vs[o])
      BY <1>2 DEF Listed
    <3> QED
      BY <3>1 DEF Now
  <2>5. ASSUME NEW h PROVE h \in hosts \ {""} <=> h \in Declared
    <3>1. \A w \in Listed(vs) :
              w \in taken <=> Readable(w) /\ (w.gateways # {} => "mesh" \in w.gateways)
      BY <1>2 DEF ShouldSkipVirtualService
    <3>2. \A v \in taken : v \in Listed(vs)
      BY Zenon
    <3> HIDE DEF taken
    <3>3. h \in Declared <=>
             /\ \E v \in Listed(vs) : /\ Readable(v) /\ (v.gateways # {} => "mesh" \in v.gateways)
                                      /\ h \in v.hosts
             /\ h # "" /\ h \notin Wildcards \cup ShortNames \cup ClusterNames
      BY Zenon DEF Declared
    <3> QED
      BY <2>2, <3>1, <3>2, <3>3, KeptHosts, Zenon
  <2> QED
    BY <2>3, <2>4, <2>5, Zenon
<1> QED
  BY <1>1, <1>2, Zenon

\* One more moment was noted, in all four respects.
LEMMA NotedFields ==
    ASSUME NEW f \in Fields, seen' = Noted(Now')
    PROVE  seen'.any[f] = seen.any[f] \cup Now'[f] /\ seen'.all[f] = seen.all[f] \cap Now'[f]
BY DEF Noted, Now, Fields

\* The four respects, spelled out for the provers.
LEMMA NowFields ==
    /\ Now.declared = Declared /\ Now.claimed = Claimed /\ Now.served = served
    /\ DOMAIN Now = Fields
BY DEF Now, Fields

-----------------------------------------------------------------------------

\* The first moment of a run.
LEMMA InitIInv == Init => IInv
<1> SUFFICES ASSUME Init PROVE IInv
  OBVIOUS
<1>1. seen.any = Now /\ seen.all = Now /\ served \subseteq {"v1", "v1beta1"}
  BY DEF Init, Moment
<1>2. Typed
  BY <1>1, NowFields, Zenon DEF Init, Typed
<1>3. Witnessed
  BY <1>1 DEF Witnessed
<1> QED
  BY <1>2, <1>3 DEF Init, IInv, CleanIsEarned, DriftIsReal, FailureHasCause

\* Every call of the tool, and every change of the cluster between two calls,
\* keeps what the tool knows true.
LEMMA StepIInv == IInv /\ [Next]_vars => IInv'
<1> SUFFICES ASSUME IInv, [Next]_vars PROVE IInv'
  OBVIOUS
<1> USE DEF exitClean, exitDrift, exitFailed
<1>1. CASE Change
  <2>1. pc # "exit" /\ pc' = pc /\ vsHosts' = vsHosts /\ code' = code /\ refused' = refused
    BY <1>1 DEF Change
  <2>2. seen' = Noted(Now')
    BY <1>1 DEF Change
  <2>3. vs' \in [Objects -> VirtualServices \cup {Absent}] /\ served' \subseteq {"v1", "v1beta1"}
    BY <1>1, Zenon DEF Change, IInv, Typed
  <2>4. DOMAIN Now' = Fields
    BY DEF Now, Fields
  <2>5. DOMAIN seen'.any = Fields /\ DOMAIN seen'.all = Fields
    BY <2>2, <2>4 DEF Noted
  <2>6. \A f \in Fields : /\ seen'.any[f] = seen.any[f] \cup Now'[f]
                          /\ seen'.all[f] = seen.all[f] \cap Now'[f]
    BY <2>2, NotedFields
  <2>7. /\ seen.any.declared \subseteq seen'.any.declared
        /\ seen'.all.declared \subseteq seen.all.declared
        /\ seen'.all.broken \subseteq seen.all.broken
        /\ seen'.all.served \subseteq seen.all.served
    BY <2>6 DEF Fields
  <2>8. Typed'
    BY <2>1, <2>3, <2>5, <2>7 DEF IInv, Typed
  <2>9. Witnessed'
    BY <2>6 DEF Witnessed
  <2>10. Collected => Collected'
    BY <2>1, <2>7, Zenon DEF Collected
  <2> QED
    BY <2>1, <2>7, <2>8, <2>9, <2>10 DEF IInv, CleanIsEarned, DriftIsReal, FailureHasCause
<1>2. ASSUME UNCHANGED <<cluster, seen>>
      PROVE  /\ (/\ Typed /\ refused' \in BOOLEAN
                 /\ pc' \in {"start", "v1", "v1beta1", "pods", "exit"}) => Typed'
             /\ (Witnessed => Witnessed')
  BY <1>2, Zenon DEF cluster, Typed, Witnessed, Now, Declared, Claimed, Listed, Readable
<1>3. CASE LoadConfig
  BY <1>2, <1>3 DEF LoadConfig, IInv, Typed, CleanIsEarned, DriftIsReal, FailureHasCause
<1>4. CASE LoadConfigFails \/ CallFails
  <2>1. pc' = "exit" /\ code' = exitFailed /\ refused' = TRUE /\ UNCHANGED <<cluster, seen>>
    BY <1>4 DEF LoadConfigFails, CallFails, Exit
  <2>2. Typed'
    BY <1>2, <2>1 DEF IInv
  <2> QED
    BY <2>1, <2>2 DEF IInv, CleanIsEarned, DriftIsReal, FailureHasCause
<1>5. ASSUME NEW version \in {"v1", "v1beta1"}, ListNotFound(version) PROVE IInv'
  <2>1. version \notin seen.all.served /\ ~refused
    BY <1>5, NowFields DEF ListNotFound, IInv, Witnessed, Fields
  <2>2. CASE version = "v1"
    BY <1>2, <1>5, <2>1, <2>2 DEF ListNotFound, IInv, CleanIsEarned, DriftIsReal, FailureHasCause, Typed
  <2>3. CASE version = "v1beta1"
    <3>1. seen.all.served = {}
      BY <1>5, <2>1, <2>3 DEF ListNotFound, IInv, Typed
    <3> QED
      BY <1>2, <1>5, <2>3, <3>1 DEF ListNotFound, Exit, IInv, CleanIsEarned, DriftIsReal, FailureHasCause, Typed
  <2> QED
    BY <2>2, <2>3
<1>6. ASSUME NEW version \in {"v1", "v1beta1"}, ListVirtualServices(version) PROVE IInv'
  <2>1. vsHosts' = CollectVirtualServiceHosts(Listed(vs)) /\ UNCHANGED <<cluster, refused, seen>>
    BY <1>6 DEF ListVirtualServices
  <2>2. /\ vsHosts' = Malformed => Now.broken # {}
        /\ vsHosts' # Malformed => Now.broken = {} /\ vsHosts' \ {""} = Declared
    BY <2>1, CollectIsDeclared, Zenon DEF IInv, Typed
  <2>3. Witnessed /\ ~refused
    BY <1>6 DEF ListVirtualServices, IInv
  <2>4. CASE vsHosts' = Malformed
    <3>1. seen.any.broken # {}
      BY <2>2, <2>3, <2>4 DEF Witnessed, Fields
    <3> QED
      BY <1>2, <1>6, <2>1, <2>4, <3>1
      DEF ListVirtualServices, Exit, IInv, CleanIsEarned, DriftIsReal, FailureHasCause, Typed
  <2>5. CASE vsHosts' # Malformed
    <3>1. Collected'
      BY <2>1, <2>2, <2>3, <2>5, NowFields, Zenon DEF Witnessed, Collected, Fields
    <3> QED
      BY <1>2, <1>6, <2>1, <2>5, <3>1
      DEF ListVirtualServices, IInv, CleanIsEarned, DriftIsReal, FailureHasCause, Typed
  <2> QED
    BY <2>4, <2>5
<1>7. CASE ListPods
  <2> DEFINE report == Compare(vsHosts, Listed(pods))
  <2>1. /\ pc' = "exit" /\ code' = printReport(report)
        /\ UNCHANGED <<cluster, vsHosts, refused, seen>>
    BY <1>7 DEF ListPods, Exit
  <2>2. Witnessed /\ ~refused /\ Collected
    BY <1>7 DEF ListPods, IInv
  <2>3. seen.all.claimed \subseteq Listed(pods) \ {""} /\ Listed(pods) \ {""} \subseteq seen.any.claimed
    BY <2>2, NowFields, Zenon DEF Witnessed, Fields, Claimed
  <2>4. /\ report.UnclaimedHosts = (vsHosts \ {""}) \ Listed(pods)
        /\ report.UnroutedLabels = (Listed(pods) \ {""}) \ vsHosts
    BY DEF Compare
  <2>5. CASE OK(report)
    <3>1. code' = exitClean
      BY <2>1, <2>5 DEF printReport
    <3>2. /\ seen.all.declared \subseteq seen.any.claimed
          /\ seen.all.claimed \subseteq seen.any.declared
          /\ seen.all.broken = {}
      BY <2>2, <2>3, <2>4, <2>5, Zenon DEF OK, Collected
    <3> QED
      BY <1>2, <2>1, <2>2, <3>1, <3>2 DEF IInv, CleanIsEarned, DriftIsReal, FailureHasCause, Typed
  <2>6. CASE ~OK(report)
    <3>1. code' = exitDrift
      BY <2>1, <2>6 DEF printReport
    <3>2. \/ ~(seen.any.declared \subseteq seen.all.claimed)
          \/ ~(seen.any.claimed \subseteq seen.all.declared)
      BY <2>2, <2>3, <2>4, <2>6, Zenon DEF OK, Collected
    <3> QED
      BY <1>2, <2>1, <2>2, <3>1, <3>2 DEF IInv, CleanIsEarned, DriftIsReal, FailureHasCause, Typed
  <2> QED
    BY <2>5, <2>6
<1>8. CASE UNCHANGED vars
  BY <1>2, <1>8, Zenon DEF vars, IInv, Collected, CleanIsEarned, DriftIsReal, FailureHasCause, Typed
<1> QED
  BY <1>1, <1>3, <1>4, <1>5, <1>6, <1>7, <1>8 DEF Next

LEMMA Invariance == Spec => []IInv
BY InitIInv, StepIInv, PTL DEF Spec

\* Exit code 0 (printReport in cmd/zonedns-drift): whatever was edited between
\* the two list calls, each side's lasting names were on the other side at some
\* moment of the run, and nothing unreadable was passed over.
THEOREM CleanIsAlwaysEarned == Spec => []CleanIsEarned
BY Invariance, PTL DEF IInv

\* Exit code 1: a report of drift never comes from the tool alone.
THEOREM DriftIsAlwaysReal == Spec => []DriftIsReal
BY Invariance, PTL DEF IInv

\* Exit code 2: the tool gives up only on a refused call, an unreadable
\* VirtualService, or a cluster that served no version throughout.
THEOREM FailureAlwaysHasCause == Spec => []FailureHasCause
BY Invariance, PTL DEF IInv
=============================================================================
