------------------------- MODULE ResolverReadyProofs -------------------------
(***************************************************************************)
(* What resolver_ready guarantees for any number of generations, in every  *)
(* order of reloads, failed reloads and goroutine steps.                   *)
(***************************************************************************)
EXTENDS ResolverReady, DataLemmas

\* Only an instance that is being brought up is incoming, and only a generation
\* that was handed out has a watcher.
LifeCycle ==
    /\ incoming # 0 => phase[incoming] \in {"configured", "started"}
    /\ \A g \in Gens : watcher[g] # "none" => g <= resolverGeneration

IInv == TypeOK /\ LifeCycle /\ ZeroMeansStopped

\* A reload step (setup.go's setup, OnStartup and OnShutdown) keeps IInv.
LEMMA InstanceSteps ==
    ASSUME IInv,
           \/ \E cfg \in Configs : Setup(cfg)
           \/ Startup \/ Takeover \/ Abandon \/ Shutdown
    PROVE  IInv'
<1> USE MaxGenAssumption DEF IInv, TypeOK, LifeCycle, ZeroMeansStopped, Cancelled, Gens
<1>1. ASSUME NEW cfg \in Configs, Setup(cfg) PROVE IInv'
  <2> DEFINE g == resolverGeneration + 1
  <2>1. g \in Gens /\ resolverGeneration' = g
    BY <1>1 DEF Setup
  <2>2. CASE cfg.mode = "vm"
    <3>1. TypeOK'
      <4>1. orderly' \in BOOLEAN
        BY <1>1, Zenon DEF Setup
      <4>2. /\ resolverReadyGeneration' = g /\ resolverReady' = 1
            /\ incoming' = g /\ serving' = serving
        BY <1>1, <2>1, <2>2 DEF Setup, markResolverReady
      <4>3. /\ phase' \in [Gens -> {"none", "configured", "started", "serving", "stopped",
                                   "abandoned"}]
            /\ config' \in [Gens -> Configs \cup {Defaults}]
        BY <1>1, <2>1 DEF Setup
      <4>4. /\ watcher' \in [Gens -> {"none", "syncing", "synced", "reported", "ended"}]
            /\ stopper' \in [Gens -> {"none", "waiting", "done"}]
        BY <1>1, <2>1, <2>2, Zenon DEF Setup
      <4> QED
        BY <2>1, <4>1, <4>2, <4>3, <4>4
    <3>2. (LifeCycle /\ ZeroMeansStopped)'
      BY <1>1, <2>1, <2>2 DEF Setup, markResolverReady
    <3> QED
      BY <3>1, <3>2
  <2>3. CASE cfg.mode # "vm"
    BY <1>1, <2>1, <2>3 DEF Setup
  <2> QED
    BY <2>2, <2>3
<1>2. CASE Startup
  <2>1. TypeOK'
    BY <1>2 DEF Startup
  <2>2. (LifeCycle /\ ZeroMeansStopped)'
    BY <1>2 DEF Startup
  <2> QED
    BY <2>1, <2>2
<1>3. CASE Takeover
  BY <1>3 DEF Takeover
<1>4. CASE Abandon
  <2>1. TypeOK'
    <3>1. orderly' \in BOOLEAN
      BY <1>4, Zenon DEF Abandon
    <3> QED
      BY <1>4, <3>1 DEF Abandon
  <2>2. (LifeCycle /\ ZeroMeansStopped)'
    BY <1>4 DEF Abandon
  <2> QED
    BY <2>1, <2>2
<1>5. CASE Shutdown
  BY <1>5 DEF Shutdown
<1> QED
  BY <1>1, <1>2, <1>3, <1>4, <1>5

\* A step of a goroutine (podzone's Run, the stop watcher) keeps IInv.
LEMMA GoroutineSteps ==
    ASSUME IInv, NEW g \in Gens, Goroutine(g)
    PROVE  IInv'
<1> USE MaxGenAssumption DEF IInv, TypeOK, LifeCycle, ZeroMeansStopped, Cancelled, mode, Gens
<1>1. CASE WatcherSyncs(g)
  BY <1>1 DEF WatcherSyncs
<1>2. CASE WatcherGivesUp(g)
  BY <1>2 DEF WatcherGivesUp
<1>3. CASE WatcherReports(g)
  BY <1>3 DEF WatcherReports, markResolverReady
<1>4. CASE WatcherEnds(g)
  BY <1>4 DEF WatcherEnds
<1>5. CASE StopperRuns(g)
  BY <1>5 DEF StopperRuns, markResolverStopped
<1> QED
  BY <1>1, <1>2, <1>3, <1>4, <1>5 DEF Goroutine

\* The inductive invariant, for every bound on the number of generations.
THEOREM Invariance == Spec => []IInv
<1>1. Init => IInv
  BY MaxGenAssumption
  DEF Init, IInv, TypeOK, LifeCycle, ZeroMeansStopped, Gens
<1>2. IInv /\ [Next]_vars => IInv'
  <2> SUFFICES ASSUME IInv, [Next]_vars PROVE IInv'
    OBVIOUS
  <2>1. CASE Next
    BY <2>1, InstanceSteps, GoroutineSteps DEF Next
  <2>2. CASE UNCHANGED vars
    BY <2>2 DEF vars, IInv, TypeOK, LifeCycle, ZeroMeansStopped, Cancelled
  <2> QED
    BY <2>1, <2>2
<1> QED
  BY <1>1, <1>2, PTL DEF Spec

\* Type correctness of the gauge's state and of Caddy's instances.
THEOREM TypeCorrect == Spec => []TypeOK
BY Invariance, PTL DEF IInv

\* markResolverStopped never zeroes the gauge of a generation still running.
THEOREM ZeroIsTrue == Spec => []ZeroMeansStopped
BY Invariance, PTL DEF IInv

-----------------------------------------------------------------------------
(***************************************************************************)
(* While reloads are orderly, instances are replaced only after they       *)
(* reported.  Generations then report in the order of their numbers, so    *)
(* the generation that reported last is the newest that did, and the gauge *)
(* is exactly the state of that generation's stop watcher.                 *)
(***************************************************************************)
Announced(g) ==
    IF mode(g) = "k8s" THEN watcher[g] \in {"reported", "ended"} ELSE phase[g] # "none"

\* Who is incoming, who serves, and what everyone else is.
Succession ==
    /\ \A g \in Gens : phase[g] = "none" <=> g > resolverGeneration
    /\ incoming # 0 => /\ incoming = resolverGeneration
                       /\ serving # incoming
                       /\ phase[incoming] \in {"configured", "started"}
                       /\ serving # 0 => Announced(serving)
    /\ serving # 0 => phase[serving] = "serving"
    /\ incoming = 0 /\ serving # 0 => serving = resolverGeneration
    /\ \A g \in Gens : g <= resolverGeneration /\ g # incoming /\ g # serving =>
          phase[g] = "stopped" /\ Announced(g)

\* How far a generation's goroutines can be.
Goroutines ==
    \A g \in Gens :
        /\ stopper[g] = "done" => Cancelled(g)
        /\ stopper[g] # "none" => phase[g] # "none"
        /\ Announced(g) => stopper[g] # "none"
        /\ watcher[g] = "ended" => Cancelled(g)
        /\ mode(g) # "k8s" => watcher[g] = "none"
        /\ watcher[g] # "none" => phase[g] # "none" /\ phase[g] # "configured" /\ stopper[g] # "none"

LastReport ==
    /\ \A g \in Gens : Announced(g) => g <= resolverReadyGeneration
    /\ resolverReadyGeneration # 0 => Announced(resolverReadyGeneration)
    /\ resolverReady = 1 <=> /\ resolverReadyGeneration # 0
                             /\ stopper[resolverReadyGeneration] # "done"

OrderlyInv == TypeOK /\ Succession /\ Goroutines /\ LastReport

\* parseConfig accepts no third mode.
LEMMA AcceptedMode == \A cfg \in Configs : cfg.mode \in {"vm", "k8s"}
BY DEF Configs, parseConfig, modeFits

\* An orderly reload step keeps OrderlyInv.
LEMMA OrderlyInstanceSteps ==
    ASSUME OrderlyInv,
           \/ \E cfg \in Configs : Setup(cfg) /\ (serving # 0 => Reported(serving))
           \/ Startup \/ Takeover
           \/ Shutdown /\ Reported(serving)
    PROVE  OrderlyInv'
<1> USE MaxGenAssumption DEF OrderlyInv, TypeOK, Succession, Goroutines, LastReport,
                             Announced, Reported, Cancelled, mode, Gens
<1>1. ASSUME NEW cfg \in Configs, Setup(cfg), serving # 0 => Reported(serving)
      PROVE  OrderlyInv'
  <2> DEFINE g == resolverGeneration + 1
  <2>1. g \in Gens /\ resolverGeneration' = g
    BY <1>1 DEF Setup
  <2>2. CASE cfg.mode = "vm"
    BY <1>1, <2>1, <2>2 DEF Setup, markResolverReady
  <2>3. CASE cfg.mode # "vm"
    BY <1>1, <2>1, <2>3, AcceptedMode DEF Setup
  <2> QED
    BY <2>2, <2>3
<1>2. CASE Startup
  <2>1. incoming \in Gens /\ watcher[incoming] = "none" /\ stopper[incoming] # "done"
    BY <1>2 DEF Startup
  <2>2. CASE mode(incoming) = "k8s"
    <3>1. \A g \in Gens : Announced(g)' <=> Announced(g)
      BY <1>2, <2>1, <2>2 DEF Startup
    <3>2. TypeOK'
      <4> HIDE DEF Succession, Goroutines, LastReport, Gens
      <4> QED
        BY <1>2, <2>1, <2>2 DEF Startup
    <3>3. Succession'
      <4> HIDE DEF Announced
      <4> QED
        BY <1>2, <2>1, <2>2, <3>1 DEF Startup
    <3>4. Goroutines'
      BY <1>2, <2>1, <2>2, <3>1 DEF Startup
    <3>5. LastReport'
      BY <1>2, <2>1, <2>2, <3>1 DEF Startup
    <3> QED
      BY <3>2, <3>3, <3>4, <3>5
  <2>3. CASE mode(incoming) # "k8s"
    BY <1>2, <2>1, <2>3 DEF Startup
  <2> QED
    BY <2>2, <2>3
<1>3. CASE Takeover
  BY <1>3 DEF Takeover
<1>4. CASE Shutdown /\ Reported(serving)
  BY <1>4 DEF Shutdown
<1> QED
  BY <1>1, <1>2, <1>3, <1>4

\* A goroutine step keeps OrderlyInv, whatever generation it belongs to.
LEMMA OrderlyGoroutineSteps ==
    ASSUME OrderlyInv, NEW g \in Gens, Goroutine(g)
    PROVE  OrderlyInv'
<1> USE MaxGenAssumption DEF OrderlyInv, TypeOK, Succession, Goroutines, LastReport,
                             Announced, Reported, Cancelled, mode, Gens
<1>1. CASE WatcherSyncs(g)
  BY <1>1 DEF WatcherSyncs
<1>2. CASE WatcherGivesUp(g)
  BY <1>2 DEF WatcherGivesUp
<1>3. CASE WatcherReports(g)
  <2>1. (TypeOK /\ Succession)'
    BY <1>3 DEF WatcherReports, markResolverReady
  <2>2. Goroutines'
    BY <1>3, <2>1 DEF WatcherReports, markResolverReady
  <2>3. mode(g) = "k8s" /\ \A h \in Gens : Announced(h) => h <= g
    BY <1>3 DEF WatcherReports
  <2>4. Announced(g)' /\ \A h \in Gens : Announced(h)' => h = g \/ Announced(h)
    BY <1>3, <2>3 DEF WatcherReports
  <2>5. resolverReadyGeneration' = g /\ resolverReady' = 1 /\ stopper[g] # "done" /\ stopper' = stopper
    BY <1>3, <2>3 DEF WatcherReports, markResolverReady
  <2>6. LastReport'
    <3> HIDE DEF Announced, mode, TypeOK, Succession, Goroutines
    <3> QED
      BY <2>3, <2>4, <2>5 DEF LastReport
  <2> QED
    BY <2>1, <2>2, <2>6
<1>4. CASE WatcherEnds(g)
  BY <1>4 DEF WatcherEnds
<1>5. CASE StopperRuns(g)
  BY <1>5 DEF StopperRuns, markResolverStopped
<1> QED
  BY <1>1, <1>2, <1>3, <1>4, <1>5 DEF Goroutine

\* A step after which reloads are still orderly is an orderly step.
LEMMA OrderlySteps ==
    ASSUME Next, orderly'
    PROVE  /\ orderly
           /\ \/ \E cfg \in Configs : Setup(cfg) /\ (serving # 0 => Reported(serving))
              \/ Startup \/ Takeover
              \/ Shutdown /\ Reported(serving)
              \/ \E g \in Gens : Goroutine(g)
BY Zenon DEF Next, Setup, Startup, Takeover, Abandon, Shutdown, Goroutine, WatcherSyncs,
       WatcherGivesUp, WatcherReports, WatcherEnds, StopperRuns

\* The inductive invariant: OrderlyInv as long as reloads are orderly.
THEOREM OrderlyInvariance == Spec => [](orderly => OrderlyInv)
<1>1. Init => OrderlyInv
  BY MaxGenAssumption
  DEF Init, OrderlyInv, TypeOK, Succession, Goroutines, LastReport, Announced, mode,
      Defaults, Cancelled, Gens
<1>2. (orderly => OrderlyInv) /\ [Next]_vars => (orderly => OrderlyInv)'
  <2> SUFFICES ASSUME orderly => OrderlyInv, [Next]_vars, orderly' PROVE OrderlyInv'
    OBVIOUS
  <2>1. CASE Next
    BY <2>1, OrderlySteps, OrderlyInstanceSteps, OrderlyGoroutineSteps
  <2>2. CASE UNCHANGED vars
    BY <2>2
    DEF vars, OrderlyInv, TypeOK, Succession, Goroutines, LastReport, Announced, mode, Cancelled
  <2> QED
    BY <2>1, <2>2
<1> QED
  BY <1>1, <1>2, PTL DEF Spec

\* With every update made, resolver_ready is 1 exactly when the generation in
\* service has a resolver that answers, after any number of orderly reloads.
THEOREM GaugeIsTrue == Spec => []GaugeTruthInOrder
<1>1. (orderly => OrderlyInv) => GaugeTruthInOrder
  BY MaxGenAssumption
  DEF OrderlyInv, TypeOK, Succession, Goroutines, LastReport, Announced, Cancelled, mode,
      GaugeTruthInOrder, GaugeTruth, Settled, Ready, Gens
<1> QED
  BY <1>1, OrderlyInvariance, PTL

\* markResolverStopped "zeroes the gauge only when no newer generation has
\* become ready", as long as reloads are orderly.
THEOREM StopsSpareNewer == Spec => StopSparesNewerInOrder
<1>1. (orderly => OrderlyInv) /\ [Next]_vars => [orderly => SparesNewer]_vars
  <2> SUFFICES ASSUME OrderlyInv,
                      NEW g \in Gens, StopperRuns(g), resolverReady = 1, resolverReady' = 0,
                      NEW h \in Gens, h > g, HasReported(h)
               PROVE  FALSE
    BY DEF SparesNewer
  <2>1. resolverReadyGeneration = g
    BY DEF StopperRuns, markResolverStopped
  <2>2. Announced(h)
    BY DEF OrderlyInv, TypeOK, Goroutines, Announced, HasReported
  <2> QED
    BY <2>1, <2>2 DEF OrderlyInv, LastReport, TypeOK, Gens
<1> QED
  BY <1>1, OrderlyInvariance, PTL DEF Spec, StopSparesNewerInOrder

-----------------------------------------------------------------------------
(***************************************************************************)
(* What setup accepts: the loop of parseConfig, and the order of the       *)
(* plugins in dnsserver.Directives.                                        *)
(***************************************************************************)
\* What parseConfig may have read out of lines with the arguments V.
Read(V) ==
    [mode : V, zone : V, node_name : V, zone_label : V, upstream : V, central_spiffe_id : V,
     workload_api : V, cache_size : Nat \ {0}, node_ip : V \ {Junk}, edns0_code : LocalCodes]

\* A number parses or does not.
Number(line) ==
    line.key = "cache_size" => line.arg \in {NoArg, Junk} \/ line.arg \in Int

\* A turn of the loop (ReadLine) keeps it, or ends in the error.
LEMMA ReadLineKeeps ==
    ASSUME NEW V, NEW cfg \in Read(V), NEW line, line.arg \in V, Number(line)
    PROVE  ReadLine(cfg, line) \in Read(V) \cup {Invalid}
<1> SUFFICES ASSUME cfg # Invalid, Accepts(line)
             PROVE  ReadLine(cfg, line) \in Read(V)
  BY DEF ReadLine
<1>1. ReadLine(cfg, line) = [cfg EXCEPT ![line.key] = line.arg]
  BY DEF ReadLine
<1>2. CASE line.key = "mode"
  BY <1>1, <1>2 DEF Read
<1>3. CASE line.key = "zone"
  BY <1>1, <1>3 DEF Read
<1>4. CASE line.key = "node_name"
  BY <1>1, <1>4 DEF Read
<1>5. CASE line.key = "zone_label"
  BY <1>1, <1>5 DEF Read
<1>6. CASE line.key = "upstream"
  BY <1>1, <1>6 DEF Read
<1>7. CASE line.key = "central_spiffe_id"
  BY <1>1, <1>7 DEF Read
<1>8. CASE line.key = "workload_api"
  BY <1>1, <1>8 DEF Read
<1>9. CASE line.key = "cache_size"
  <2>1. line.arg \in Nat \ {0}
    BY <1>9 DEF Accepts, Number, Texts
  <2> QED
    BY <1>1, <1>9, <2>1 DEF Read
<1>10. CASE line.key = "node_ip"
  <2>1. line.arg # Junk
    BY <1>10 DEF Accepts, Texts
  <2> QED
    BY <1>1, <1>10, <2>1 DEF Read
<1>11. CASE line.key = "edns0_code"
  <2>1. line.arg \in LocalCodes
    BY <1>11 DEF Accepts, Texts
  <2> QED
    BY <1>1, <1>11, <2>1 DEF Read
<1>12. line.key \in {"mode", "zone", "node_name", "zone_label", "upstream", "central_spiffe_id",
                     "workload_api", "cache_size", "node_ip", "edns0_code"}
  BY DEF Accepts, Texts
<1> QED
  BY <1>2, <1>3, <1>4, <1>5, <1>6, <1>7, <1>8, <1>9, <1>10, <1>11, <1>12

\* The loop runs to its end inside a set its turns do not leave.
LEMMA LoopStays ==
    ASSUME NEW file, Len(file) \in Nat, DOMAIN file = 1 .. Len(file),
           NEW A, Defaults \in A,
           \A a \in A : \A k \in 1 .. Len(file) : ReadLine(a, file[k]) \in A
    PROVE  Loop(ReadLine, Defaults, file) \in A
<1> DEFINE n == Len(file)
           step == [p \in (1 .. n) \X A |-> ReadLine(p[2], file[p[1]])]
           Solves(h) == h = [S \in SUBSET (1 .. n) |->
                                IF S = {} THEN Defaults
                                ELSE ReadLine(h[S \ {Max(S)}], file[Max(S)])]
           iter == CHOOSE h : Solves(h)
<1>1. Loop(ReadLine, Defaults, file) = iter[1 .. n]
  BY DEF Loop, MapThenFoldSet
<1>2. n \in Nat /\ step \in [(1 .. n) \X A -> A]
  OBVIOUS
<1>3. PICK f \in [SUBSET (1 .. n) -> A] : FoldsSets(f, n, Defaults, step)
  <2> HIDE DEF n, step, iter
  <2> QED
    BY <1>2, FoldExists, Zenon
<1>4. Solves(f)
  <2>1. ASSUME NEW S \in SUBSET (1 .. n), S # {}
        PROVE  f[S] = ReadLine(f[S \ {Max(S)}], file[Max(S)])
    <3>1. Max(S) \in 1 .. n /\ f[S \ {Max(S)}] \in A
      BY <1>3, <2>1, Zenon DEF FoldsSets
    <3> QED
      BY <1>3, <2>1, <3>1, Zenon DEF FoldsSets
  <2> HIDE DEF step
  <2> QED
    BY <1>3, <2>1, Zenon DEF FoldsSets
<1>5. PICK it : Solves(it) /\ Loop(ReadLine, Defaults, file) = it[1 .. n]
  <2> HIDE DEF Solves
  <2> QED
    BY <1>1, <1>4, Zenon
<1>6. it[{}] = Defaults
  BY <1>5
<1>7. ASSUME NEW S \in SUBSET (1 .. n), S # {}, it[S \ {Max(S)}] \in A
      PROVE  it[S] = step[<<Max(S), it[S \ {Max(S)}]>>]
  <2>1. Max(S) \in 1 .. n
    BY <1>3, <1>7, Zenon DEF FoldsSets
  <2>2. it[S] = ReadLine(it[S \ {Max(S)}], file[Max(S)])
    BY <1>5, <1>7, Zenon
  <2> QED
    BY <1>7, <2>1, <2>2, Zenon
<1> HIDE DEF n, step, iter, Solves
<1>8. FoldsWithin(it, n, A, Defaults, step)
  BY <1>6, <1>7, Zenon DEF FoldsWithin
<1>9. FoldsTo(n, A, Defaults, step, it[1 .. n])
  <2>1. Defaults \in A
    OBVIOUS
  <2> QED
    BY ONLY <1>2, <1>8, <2>1, FoldSteps, Zenon
<1> QED
  BY <1>2, <1>5, <1>9 DEF FoldsTo


\* What parseConfig returns, and NewMTLS takes, is what ConfigIsSound says of
\* the fields.
LEMMA ConfigsAreRead ==
    ASSUME NEW cfg \in Configs
    PROVE  /\ cfg.cache_size \in Nat \ {0} /\ cfg.edns0_code \in LocalCodes
           /\ cfg.node_ip # Junk /\ pinned(cfg) /\ modeFits(cfg) /\ NewMTLS(cfg)
           /\ CheckDirectiveOrder(Directives)
<1>1. PICK file \in Corefiles : cfg = parseConfig(file) /\ cfg # Invalid
  BY DEF Configs
<1>2. NewMTLS(cfg) /\ CheckDirectiveOrder(Directives)
  BY DEF Configs
<1>3. NODE_IP # Junk /\ pinned(cfg) /\ modeFits(cfg) /\ cfg = Loop(ReadLine, Defaults, file)
  BY <1>1 DEF parseConfig
<1> DEFINE V == {file[k].arg : k \in 1 .. Len(file)} \cup {Unset, "zone", NODE_IP}
           A == Read(V) \cup {Invalid}
<1>4. Defaults \in A
  <2>1. DefaultCode \in LocalCodes
    BY DEF DefaultCode, LocalCodes
  <2>2. Unset \in V /\ "zone" \in V /\ NODE_IP \in V \ {Junk}
    BY <1>3
  <2>3. 4096 \in Nat \ {0}
    OBVIOUS
  <2> HIDE DEF V
  <2> QED
    BY <2>1, <2>2, <2>3 DEF Defaults, Read
<1>5. ASSUME NEW a \in A, NEW k \in 1 .. Len(file) PROVE ReadLine(a, file[k]) \in A
  <2>1. file[k].arg \in V
    OBVIOUS
  <2>2. Number(file[k])
    BY CorefileForm DEF Number
  <2>3. CASE a = Invalid
    BY <2>3 DEF ReadLine
  <2>4. CASE a \in Read(V)
    <3> HIDE DEF V
    <3> QED
      BY <2>1, <2>2, <2>4, ReadLineKeeps
  <2> QED
    BY <2>3, <2>4
<1>6. Loop(ReadLine, Defaults, file) \in A
  <2>1. Len(file) \in Nat /\ DOMAIN file = 1 .. Len(file)
    BY CorefileForm
  <2> HIDE DEF A
  <2> QED
    BY <1>4, <1>5, <2>1, LoopStays, Zenon
<1>7. cfg \in Read(V)
  BY <1>1, <1>3, <1>6
<1> HIDE DEF V
<1> QED
  BY <1>2, <1>3, <1>7 DEF Read

\* What At finds: the last place of a name that is listed.
LEMMA AtIsLast ==
    ASSUME NEW name, NEW directives, Len(directives) \in Nat,
           DOMAIN directives = 1 .. Len(directives)
    PROVE  /\ At(name, directives) \in 0 .. Len(directives)
           /\ At(name, directives) # 0 => directives[At(name, directives)] = name
           /\ \A j \in 1 .. Len(directives) : directives[j] = name => j <= At(name, directives)
<1> DEFINE n == Len(directives)
           A == 0 .. n
           turn(at, k) == IF directives[k] = name THEN k ELSE at
           step == [p \in (1 .. n) \X A |-> turn(p[2], p[1])]
           ks == [k \in DOMAIN directives |-> k]
           Solves(h) == h = [S \in SUBSET (1 .. n) |->
                                IF S = {} THEN 0 ELSE turn(h[S \ {Max(S)}], ks[Max(S)])]
           iter == CHOOSE h : Solves(h)
<1>1. At(name, directives) = iter[1 .. n]
  BY DEF At, Loop, MapThenFoldSet
<1>2. n \in Nat /\ 0 \in A /\ step \in [(1 .. n) \X A -> A]
  OBVIOUS
<1>3. PICK f \in [SUBSET (1 .. n) -> A] : FoldsSets(f, n, 0, step)
  <2> HIDE DEF n, A, step, iter
  <2> QED
    BY <1>2, FoldExists, Zenon
<1>4. ASSUME NEW S \in SUBSET (1 .. n), S # {}
      PROVE  Max(S) \in 1 .. n /\ ks[Max(S)] = Max(S)
  BY <1>3, <1>4, Zenon DEF FoldsSets
<1> HIDE DEF ks, turn
<1>5. Solves(f)
  <2>1. ASSUME NEW S \in SUBSET (1 .. n), S # {}
        PROVE  f[S] = turn(f[S \ {Max(S)}], ks[Max(S)])
    <3>1. Max(S) \in 1 .. n /\ ks[Max(S)] = Max(S) /\ f[S \ {Max(S)}] \in A
      BY <1>3, <1>4, <2>1, Zenon
    <3> HIDE DEF A
    <3> QED
      BY <1>3, <2>1, <3>1, Zenon DEF FoldsSets
  <2> HIDE DEF step
  <2> QED
    BY <1>3, <2>1, Zenon DEF FoldsSets
<1>6. PICK it : Solves(it) /\ At(name, directives) = it[1 .. n]
  <2> HIDE DEF Solves
  <2> QED
    BY <1>1, <1>5, Zenon
<1>7. it[{}] = 0
  BY <1>6
<1>8. ASSUME NEW S \in SUBSET (1 .. n), S # {}, it[S \ {Max(S)}] \in A
      PROVE  it[S] = step[<<Max(S), it[S \ {Max(S)}]>>]
  <2>1. Max(S) \in 1 .. n /\ ks[Max(S)] = Max(S)
    BY <1>4, <1>8
  <2>2. it[S] = turn(it[S \ {Max(S)}], ks[Max(S)])
    BY <1>6, <1>8, Zenon
  <2> HIDE DEF A
  <2> QED
    BY <1>8, <2>1, <2>2, Zenon
<1> HIDE DEF n, A, step, iter, Solves
<1>9. FoldsWithin(it, n, A, 0, step)
  BY <1>7, <1>8, Zenon DEF FoldsWithin
<1>10. FoldsTo(n, A, 0, step, it[1 .. n])
  BY ONLY <1>2, <1>9, FoldSteps, Zenon
<1>11. PICK g \in [0 .. n -> A] : Course(g, n, 0, step) /\ At(name, directives) = g[n]
  BY <1>6, <1>10, Zenon DEF FoldsTo
<1>12. ASSUME NEW k \in 1 .. n PROVE g[k] = IF directives[k] = name THEN k ELSE g[k - 1]
  <2>1. k - 1 \in 0 .. n
    BY <1>2
  <2>2. g[k - 1] \in A /\ g[k] = step[<<k, g[k - 1]>>]
    BY <1>11, <2>1 DEF Course
  <2> QED
    BY <2>2 DEF step, turn
<1> DEFINE LastUpTo(m) == /\ g[m] \in 0 .. m
                          /\ g[m] # 0 => directives[g[m]] = name
                          /\ \A j \in 1 .. m : directives[j] = name => j <= g[m]
           G == {m \in 0 .. n : LastUpTo(m)}
<1>13. 0 \in G
  BY <1>2, <1>11 DEF Course
<1>14. ASSUME NEW m \in 0 .. n, m < n, m \in G PROVE m + 1 \in G
  <2>1. m + 1 \in 1 .. n /\ (m + 1) - 1 = m /\ m \in Nat
    BY <1>2, <1>14
  <2>2. g[m + 1] = IF directives[m + 1] = name THEN m + 1 ELSE g[m]
    BY <1>12, <2>1
  <2>3. LastUpTo(m)
    BY <1>14
  <2>4. LastUpTo(m + 1)
    BY <2>1, <2>2, <2>3
  <2> HIDE DEF LastUpTo
  <2> QED
    BY <1>2, <2>1, <2>4
<1>15. G = 0 .. n
  <2>1. G \in SUBSET (0 .. n)
    OBVIOUS
  <2> HIDE DEF G
  <2> QED
    BY <1>2, <1>13, <1>14, <2>1, Ascent
<1>16. LastUpTo(n)
  <2> HIDE DEF LastUpTo
  <2> QED
    BY <1>2, <1>15
<1> QED
  BY <1>11, <1>16 DEF n

\* The plugin sits directly in front of every cache.
Guarded(out) ==
    \A j \in 1 .. Len(out) : out[j] = "cache" => j > 1 /\ out[j - 1] = "zonedns_agent"

\* A turn of insertBeforeCache's loop.
Insert(out, d) == out \o (IF d = "cache" THEN <<"zonedns_agent", d>> ELSE <<d>>)

\* A turn of the loop keeps every cache guarded.
LEMMA InsertKeeps ==
    ASSUME NEW D, "zonedns_agent" \in D, NEW out \in Seq(D), Guarded(out), NEW d \in D
    PROVE  Insert(out, d) \in Seq(D) /\ Guarded(Insert(out, d))
<1> DEFINE n == Len(out)
<1>1. n \in Nat
  OBVIOUS
<1>2. CASE d = "cache"
  <2> DEFINE r == out \o <<"zonedns_agent", d>>
  <2>1. <<"zonedns_agent", d>> \in Seq(D)
    OBVIOUS
  <2>2. /\ r \in Seq(D) /\ Len(r) = n + 2
        /\ \A j \in 1 .. n : r[j] = out[j]
        /\ r[n + 1] = "zonedns_agent" /\ r[n + 2] = "cache"
    BY <1>2, <2>1
  <2>3. Insert(out, d) = r
    BY <1>2 DEF Insert
  <2> HIDE DEF r
  <2>4. ASSUME NEW j \in 1 .. n + 2, r[j] = "cache" PROVE j > 1 /\ r[j - 1] = "zonedns_agent"
    <3>1. CASE j \in 1 .. n
      <4>1. j > 1 /\ out[j - 1] = "zonedns_agent"
        BY <2>2, <2>4, <3>1 DEF Guarded
      <4>2. j - 1 \in 1 .. n
        BY <1>1, <3>1, <4>1
      <4> QED
        BY <2>2, <4>1, <4>2
    <3>2. CASE j = n + 1
      BY <2>2, <2>4, <3>2
    <3>3. CASE j = n + 2
      BY <1>1, <2>2, <3>3
    <3> QED
      BY <1>1, <3>1, <3>2, <3>3
  <2> QED
    BY <2>2, <2>3, <2>4 DEF Guarded
<1>3. CASE d # "cache"
  <2> DEFINE r == out \o <<d>>
  <2>1. /\ r \in Seq(D) /\ Len(r) = n + 1
        /\ \A j \in 1 .. n : r[j] = out[j]
        /\ r[n + 1] = d
    OBVIOUS
  <2>2. Insert(out, d) = r
    BY <1>3 DEF Insert
  <2> HIDE DEF r
  <2>3. ASSUME NEW j \in 1 .. n + 1, r[j] = "cache" PROVE j > 1 /\ r[j - 1] = "zonedns_agent"
    <3>1. j \in 1 .. n
      BY <1>1, <1>3, <2>1, <2>3
    <3>2. j > 1 /\ out[j - 1] = "zonedns_agent"
      BY <2>1, <2>3, <3>1 DEF Guarded
    <3>3. j - 1 \in 1 .. n
      BY <1>1, <3>1, <3>2
    <3> QED
      BY <2>1, <3>2, <3>3
  <2> QED
    BY <2>1, <2>2, <2>3 DEF Guarded
<1> QED
  BY <1>2, <1>3

\* What zonedns_register.go's init leaves in dnsserver.Directives when the
\* plugin was not listed.
LEMMA InsertGuards ==
    ASSUME NEW directives, Len(directives) \in Nat, DOMAIN directives = 1 .. Len(directives),
           "zonedns_agent" \notin Range(directives)
    PROVE  \E D : /\ insertBeforeCache("zonedns_agent", directives) \in Seq(D)
                  /\ Guarded(insertBeforeCache("zonedns_agent", directives))
<1> DEFINE n == Len(directives)
           D == {directives[k] : k \in 1 .. n} \cup {"zonedns_agent"}
           A == {out \in Seq(D) : Guarded(out)}
           step == [p \in (1 .. n) \X A |-> Insert(p[2], directives[p[1]])]
           Solves(h) == h = [S \in SUBSET (1 .. n) |->
                                IF S = {} THEN <<>>
                                ELSE Insert(h[S \ {Max(S)}], directives[Max(S)])]
           iter == CHOOSE h : Solves(h)
           result == insertBeforeCache("zonedns_agent", directives)
<1>1. result = iter[1 .. n]
  BY DEF insertBeforeCache, Loop, MapThenFoldSet, Insert
<1>2. ASSUME NEW a \in A, NEW k \in 1 .. n PROVE Insert(a, directives[k]) \in A
  <2>1. a \in Seq(D) /\ Guarded(a) /\ directives[k] \in D /\ "zonedns_agent" \in D
    OBVIOUS
  <2>2. Insert(a, directives[k]) \in Seq(D) /\ Guarded(Insert(a, directives[k]))
    <3> HIDE DEF D, A, n
    <3> QED
      BY <2>1, InsertKeeps, Zenon
  <2> HIDE DEF D
  <2> QED
    BY <2>2
<1>3. <<>> \in A
  <2> HIDE DEF D
  <2> QED
    BY DEF Guarded
<1> HIDE DEF D, A, result
<1>4. n \in Nat /\ step \in [(1 .. n) \X A -> A]
  BY <1>2
<1>5. PICK f \in [SUBSET (1 .. n) -> A] : FoldsSets(f, n, <<>>, step)
  <2> HIDE DEF n, step, iter
  <2> QED
    BY <1>3, <1>4, FoldExists, Zenon
<1>6. Solves(f)
  <2>1. ASSUME NEW S \in SUBSET (1 .. n), S # {}
        PROVE  f[S] = Insert(f[S \ {Max(S)}], directives[Max(S)])
    <3>1. Max(S) \in 1 .. n /\ f[S \ {Max(S)}] \in A
      BY <1>5, <2>1, Zenon DEF FoldsSets
    <3> QED
      BY <1>5, <2>1, <3>1, Zenon DEF FoldsSets
  <2> HIDE DEF step
  <2> QED
    BY <1>5, <2>1, Zenon DEF FoldsSets
<1>7. PICK it : Solves(it) /\ result = it[1 .. n]
  <2> HIDE DEF Solves
  <2> QED
    BY <1>1, <1>6, Zenon
<1>8. it[{}] = <<>>
  BY <1>7
<1>9. ASSUME NEW S \in SUBSET (1 .. n), S # {}, it[S \ {Max(S)}] \in A
      PROVE  it[S] = step[<<Max(S), it[S \ {Max(S)}]>>]
  <2>1. Max(S) \in 1 .. n
    BY <1>5, <1>9, Zenon DEF FoldsSets
  <2>2. it[S] = Insert(it[S \ {Max(S)}], directives[Max(S)])
    BY <1>7, <1>9, Zenon
  <2> QED
    BY <1>9, <2>1, <2>2, Zenon
<1> HIDE DEF n, step, iter, Solves
<1>10. FoldsWithin(it, n, A, <<>>, step)
  BY <1>8, <1>9 DEF FoldsWithin
<1>11. FoldsTo(n, A, <<>>, step, it[1 .. n])
  BY ONLY <1>3, <1>4, <1>10, FoldSteps, Zenon
<1>12. result \in A
  BY <1>4, <1>7, <1>11 DEF FoldsTo
<1> QED
  BY <1>12 DEF A, result

\* Whatever the build's list was: once CheckDirectiveOrder accepts the list
\* init leaves, a zone-blind cache never sits in front of the plugin.
LEMMA PluginComesFirst ==
    ASSUME CheckDirectiveOrder(Directives)
    PROVE  \E i \in DOMAIN Directives :
              /\ Directives[i] = "zonedns_agent"
              /\ \A j \in DOMAIN Directives : Directives[j] = "cache" => i < j
<1> DEFINE agentAt == At("zonedns_agent", Directives)
           cacheAt == At("cache", Directives)
<1>1. agentAt # 0 /\ (cacheAt # 0 => agentAt < cacheAt)
  BY DEF CheckDirectiveOrder
<1>2. CASE "zonedns_agent" \in Range(UpstreamDirectives)
  <2>1. Directives = UpstreamDirectives
    BY <1>2, Zenon DEF Directives, insertBeforeCache
  <2>2. Len(Directives) \in Nat /\ DOMAIN Directives = 1 .. Len(Directives)
    BY <2>1, DirectivesForm
  <2>3. agentAt \in DOMAIN Directives /\ Directives[agentAt] = "zonedns_agent"
    BY <1>1, <2>2, AtIsLast
  <2>4. ASSUME NEW j \in DOMAIN Directives, Directives[j] = "cache" PROVE agentAt < j
    <3>1. cacheAt \in 0 .. Len(Directives) /\ j <= cacheAt
      BY <2>2, <2>4, AtIsLast
    <3>2. cacheAt # 0 /\ cacheAt \in DOMAIN Directives
      BY <2>2, <3>1
    <3>3. Directives[cacheAt] = "cache"
      BY <2>2, <3>2, AtIsLast
    <3>4. j = cacheAt
      BY <2>1, <2>4, <3>2, <3>3, DirectivesForm
    <3> QED
      BY <1>1, <3>2, <3>4
  <2> QED
    BY <2>3, <2>4
<1>3. CASE "zonedns_agent" \notin Range(UpstreamDirectives)
  <2>1. PICK D : Directives \in Seq(D) /\ Guarded(Directives)
    BY <1>3, DirectivesForm, InsertGuards DEF Directives
  <2>2. Len(Directives) \in Nat /\ DOMAIN Directives = 1 .. Len(Directives)
    BY <2>1
  <2> DEFINE caches == {j \in 1 .. Len(Directives) : Directives[j] = "cache"}
  <2>3. CASE caches = {}
    <3>1. agentAt \in DOMAIN Directives /\ Directives[agentAt] = "zonedns_agent"
      BY <1>1, <2>2, AtIsLast
    <3> QED
      BY <2>2, <2>3, <3>1
  <2>4. CASE caches # {}
    <3>1. PICK m \in caches : \A j \in caches : m <= j
      <4>1. caches \in SUBSET Nat
        BY <2>2
      <4> HIDE DEF caches
      <4> QED
        BY <2>4, <4>1, LeastNat
    <3>2. m > 1 /\ Directives[m - 1] = "zonedns_agent"
      BY <2>1 DEF Guarded
    <3>3. m - 1 \in DOMAIN Directives
      BY <2>2, <3>2
    <3>4. \A j \in DOMAIN Directives : Directives[j] = "cache" => m - 1 < j
      BY <2>2, <3>1
    <3> QED
      BY <3>2, <3>3, <3>4
  <2> QED
    BY <2>3, <2>4
<1> QED
  BY <1>2, <1>3

\* A generation that left setup has what setup accepted.
Configured ==
    /\ \A g \in Gens : phase[g] # "none" => config[g] \in Configs
    /\ serving # 0 => phase[serving] # "none"

\* Reloads and goroutine steps keep every generation's configuration.
LEMMA ConfiguredSteps ==
    ASSUME IInv, Configured, [Next]_vars
    PROVE  Configured'
<1> USE MaxGenAssumption DEF IInv, TypeOK, LifeCycle, Configured, Gens
<1>1. ASSUME NEW cfg \in Configs, Setup(cfg) PROVE Configured'
  BY <1>1 DEF Setup
<1>2. CASE Startup
  BY <1>2 DEF Startup
<1>3. CASE Takeover
  BY <1>3 DEF Takeover
<1>4. CASE Abandon
  BY <1>4 DEF Abandon
<1>5. CASE Shutdown
  BY <1>5 DEF Shutdown
<1>6. CASE \E g \in Gens : Goroutine(g)
  BY <1>6 DEF Goroutine, WatcherSyncs, WatcherGivesUp, WatcherReports, WatcherEnds, StopperRuns
<1>7. CASE UNCHANGED vars
  BY <1>7 DEF vars
<1> QED
  BY <1>1, <1>2, <1>3, <1>4, <1>5, <1>6, <1>7 DEF Next

\* Every generation runs on a configuration setup may accept, whatever the
\* Corefiles say, however the build lists its plugins, and in every order of
\* reloads.
THEOREM ConfigsAreSound == Spec => []ConfigIsSound
<1>1. Init => Configured
  BY DEF Init, Configured
<1>2. IInv /\ Configured => ConfigIsSound
  <2> SUFFICES ASSUME Configured, NEW g \in Gens, phase[g] # "none"
               PROVE  /\ config[g].cache_size \in Nat \ {0}
                      /\ config[g].edns0_code \in LocalCodes
                      /\ config[g].upstream.scheme = "https"
                      /\ config[g].central_spiffe_id \in SPIFFEIDs
                      /\ config[g].zone \in (IF mode(g) = "vm" THEN Zones ELSE {Unset})
                      /\ config[g].node_name = Unset <=> mode(g) = "vm"
                      /\ config[g].node_ip # Junk
                      /\ \E i \in DOMAIN Directives :
                            /\ Directives[i] = "zonedns_agent"
                            /\ \A j \in DOMAIN Directives : Directives[j] = "cache" => i < j
    BY Zenon DEF ConfigIsSound
  <2>1. config[g] \in Configs
    BY DEF Configured
  <2>2. /\ config[g].cache_size \in Nat \ {0} /\ config[g].edns0_code \in LocalCodes
        /\ config[g].node_ip # Junk /\ pinned(config[g]) /\ modeFits(config[g])
        /\ NewMTLS(config[g]) /\ CheckDirectiveOrder(Directives)
    BY <2>1, ConfigsAreRead
  <2>3. /\ config[g].upstream.scheme = "https" /\ config[g].central_spiffe_id \in SPIFFEIDs
        /\ config[g].zone \in (IF mode(g) = "vm" THEN Zones ELSE {Unset})
        /\ config[g].node_name = Unset <=> mode(g) = "vm"
    BY <2>2, Zenon DEF pinned, modeFits, NewMTLS, mode
  <2>4. \E i \in DOMAIN Directives :
           /\ Directives[i] = "zonedns_agent"
           /\ \A j \in DOMAIN Directives : Directives[j] = "cache" => i < j
    BY <2>2, PluginComesFirst
  <2> QED
    BY <2>2, <2>3, <2>4, Zenon
<1>3. IInv /\ Configured /\ [Next]_vars => Configured'
  BY ConfiguredSteps
<1> QED
  BY <1>1, <1>2, <1>3, Invariance, PTL DEF Spec
=============================================================================
