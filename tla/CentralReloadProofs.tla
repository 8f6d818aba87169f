------------------------- MODULE CentralReloadProofs -------------------------
(***************************************************************************)
(* What a reload of central may start, for every set of Corefiles, any     *)
(* number of generations and every order of reloads, failed reloads and    *)
(* poller steps.                                                           *)
(***************************************************************************)
EXTENDS CentralReload, DataLemmas

(***************************************************************************)
(* The loop of parseConfig.                                                *)
(***************************************************************************)
\* One gateway per zone, for zones ednszone.Valid accepts, at addresses.
OneEach(gateway) ==
    \A gw, other \in gateway :
        gw[1] \in Zones /\ gw[2] # Junk /\ (gw[1] = other[1] => gw = other)

\* What parseConfig may have read out of lines with the argument lists W, the
\* first ones V.
Shape(V, W) ==
    [spire_server : V, poll_interval : Nat \ {0}, authorized_agent : SUBSET V,
     edns0_code : LocalCodes, ttl : Nat, workload_api : V, spire_server_id : V,
     gateway : SUBSET W]

Read(V, W) == {cfg \in Shape(V, W) : OneEach(cfg.gateway)}

\* A duration parses or does not.
Duration(line) == line.key = "poll_interval" /\ Len(line.args) > 0 =>
                      line.args[1] = Junk \/ line.args[1] \in Int

\* A turn of the loop (ReadLine) keeps it, or ends in the error.
LEMMA ReadLineKeeps ==
    ASSUME NEW V, NEW W, NEW cfg \in Read(V, W), NEW line,
           line.args[1] \in V, line.args \in W, Duration(line)
    PROVE  ReadLine(cfg, line) \in Read(V, W) \cup {Invalid}
<1> SUFFICES ASSUME cfg # Invalid, Accepts(cfg, line)
             PROVE  ReadLine(cfg, line) \in Read(V, W)
  BY DEF ReadLine
<1>1. cfg \in Shape(V, W) /\ OneEach(cfg.gateway)
  BY DEF Read
<1>2. CASE line.key = "gateway"
  <2>1. ReadLine(cfg, line) = [cfg EXCEPT !.gateway = @ \cup {line.args}]
    BY <1>2 DEF ReadLine
  <2>2. line.args[1] \in Zones /\ line.args[2] # Junk /\ \A gw \in cfg.gateway : gw[1] # line.args[1]
    BY <1>2 DEF Accepts, acceptsGateway
  <2>3. OneEach(cfg.gateway \cup {line.args})
    BY <1>1, <2>2 DEF OneEach
  <2>4. /\ ReadLine(cfg, line) \in Shape(V, W)
        /\ ReadLine(cfg, line).gateway = cfg.gateway \cup {line.args}
    BY <1>1, <2>1 DEF Shape
  <2> QED
    BY <2>3, <2>4 DEF Read
<1>3. CASE line.key = "authorized_agent"
  <2>1. ReadLine(cfg, line) = [cfg EXCEPT !.authorized_agent = @ \cup {line.args[1]}]
    BY <1>3 DEF ReadLine
  <2>2. ReadLine(cfg, line) \in Shape(V, W) /\ ReadLine(cfg, line).gateway = cfg.gateway
    BY <1>1, <2>1 DEF Shape
  <2> QED
    BY <1>1, <2>2 DEF Read
<1>4. CASE line.key = "spire_server"
  <2>1. ReadLine(cfg, line) = [cfg EXCEPT !.spire_server = line.args[1]]
    BY <1>4 DEF ReadLine
  <2>2. ReadLine(cfg, line) \in Shape(V, W) /\ ReadLine(cfg, line).gateway = cfg.gateway
    BY <1>1, <2>1 DEF Shape
  <2> QED
    BY <1>1, <2>2 DEF Read
<1>5. CASE line.key = "workload_api"
  <2>1. ReadLine(cfg, line) = [cfg EXCEPT !.workload_api = line.args[1]]
    BY <1>5 DEF ReadLine
  <2>2. ReadLine(cfg, line) \in Shape(V, W) /\ ReadLine(cfg, line).gateway = cfg.gateway
    BY <1>1, <2>1 DEF Shape
  <2> QED
    BY <1>1, <2>2 DEF Read
<1>6. CASE line.key = "spire_server_id"
  <2>1. ReadLine(cfg, line) = [cfg EXCEPT !.spire_server_id = line.args[1]]
    BY <1>6 DEF ReadLine
  <2>2. ReadLine(cfg, line) \in Shape(V, W) /\ ReadLine(cfg, line).gateway = cfg.gateway
    BY <1>1, <2>1 DEF Shape
  <2> QED
    BY <1>1, <2>2 DEF Read
<1>7. CASE line.key = "poll_interval"
  <2>1. ReadLine(cfg, line) = [cfg EXCEPT !.poll_interval = line.args[1]]
    BY <1>7 DEF ReadLine
  <2>2. line.args[1] \in Nat \ {0}
    BY <1>7 DEF Accepts, Duration
  <2>3. ReadLine(cfg, line) \in Shape(V, W) /\ ReadLine(cfg, line).gateway = cfg.gateway
    BY <1>1, <2>1, <2>2 DEF Shape
  <2> QED
    BY <1>1, <2>3 DEF Read
<1>8. CASE line.key = "edns0_code"
  <2>1. ReadLine(cfg, line) = [cfg EXCEPT !.edns0_code = line.args[1]]
    BY <1>8 DEF ReadLine
  <2>2. line.args[1] \in LocalCodes
    BY <1>8 DEF Accepts
  <2>3. ReadLine(cfg, line) \in Shape(V, W) /\ ReadLine(cfg, line).gateway = cfg.gateway
    BY <1>1, <2>1, <2>2 DEF Shape
  <2> QED
    BY <1>1, <2>3 DEF Read
<1>9. CASE line.key = "ttl"
  <2>1. ReadLine(cfg, line) = [cfg EXCEPT !.ttl = line.args[1]]
    BY <1>9 DEF ReadLine
  <2>2. line.args[1] \in Nat
    BY <1>9 DEF Accepts
  <2>3. ReadLine(cfg, line) \in Shape(V, W) /\ ReadLine(cfg, line).gateway = cfg.gateway
    BY <1>1, <2>1, <2>2 DEF Shape
  <2> QED
    BY <1>1, <2>3 DEF Read
<1>10. line.key \in {"gateway", "authorized_agent", "spire_server", "workload_api",
                     "spire_server_id", "poll_interval", "edns0_code", "ttl"}
  BY DEF Accepts
<1> QED
  BY <1>2, <1>3, <1>4, <1>5, <1>6, <1>7, <1>8, <1>9, <1>10

\* The loop runs to its end inside a set its turns do not leave.
LEMMA LoopStays ==
    ASSUME NEW file, Len(file) \in Nat, DOMAIN file = 1 .. Len(file),
           NEW A, Defaults \in A,
           \A a \in A : \A k \in 1 .. Len(file) : ReadLine(a, file[k]) \in A
    PROVE  Loop(ReadLine, Defaults, file) \in A
<1> DEFINE n == Len(file)
           step == [p \in (1 .. n) \X A |-> ReadLine(p[2], file[p[1]])]
           Solves(h) == h = [S \in SUBSET (1 .. n) |->
                                IF S = {} THEN Defaults
                                ELSE ReadLine(h[S \ {Max(S)}], file[Max(S)])]
           iter == CHOOSE h : Solves(h)
<1>1. Loop(ReadLine, Defaults, file) = iter[1 .. n]
  BY DEF Loop, MapThenFoldSet
<1>2. n \in Nat /\ step \in [(1 .. n) \X A -> A]
  OBVIOUS
<1>3. PICK f \in [SUBSET (1 .. n) -> A] : FoldsSets(f, n, Defaults, step)
  <2> HIDE DEF n, step, iter
  <2> QED
    BY <1>2, FoldExists, Zenon
<1>4. Solves(f)
  <2>1. ASSUME NEW S \in SUBSET (1 .. n), S # {}
        PROVE  f[S] = ReadLine(f[S \ {Max(S)}], file[Max(S)])
    <3>1. Max(S) \in 1 .. n /\ f[S \ {Max(S)}] \in A
      BY <1>3, <2>1, Zenon DEF FoldsSets
    <3> QED
      BY <1>3, <2>1, <3>1, Zenon DEF FoldsSets
  <2> HIDE DEF step
  <2> QED
    BY <1>3, <2>1, Zenon DEF FoldsSets
<1>5. PICK it : Solves(it) /\ Loop(ReadLine, Defaults, file) = it[1 .. n]
  <2> HIDE DEF Solves
  <2> QED
    BY <1>1, <1>4, Zenon
<1>6. it[{}] = Defaults
  BY <1>5
<1>7. ASSUME NEW S \in SUBSET (1 .. n), S # {}, it[S \ {Max(S)}] \in A
      PROVE  it[S] = step[<<Max(S), it[S \ {Max(S)}]>>]
  <2>1. Max(S) \in 1 .. n
    BY <1>3, <1>7, Zenon DEF FoldsSets
  <2>2. it[S] = ReadLine(it[S \ {Max(S)}], file[Max(S)])
    BY <1>5, <1>7, Zenon
  <2> QED
    BY <1>7, <2>1, <2>2, Zenon
<1> HIDE DEF n, step, iter, Solves
<1>8. FoldsWithin(it, n, A, Defaults, step)
  BY <1>6, <1>7, Zenon DEF FoldsWithin
<1>9. FoldsTo(n, A, Defaults, step, it[1 .. n])
  <2>1. Defaults \in A
    OBVIOUS
  <2> QED
    BY ONLY <1>2, <1>8, <2>1, FoldSteps, Zenon
<1> QED
  BY <1>2, <1>5, <1>9 DEF FoldsTo

\* What parseConfig returns has a positive interval, an option code of the
\* local range, one gateway per zone and at least one authorized agent.
LEMMA ConfigsAreRead ==
    ASSUME NEW cfg \in Configs
    PROVE  /\ cfg.poll_interval \in Nat \ {0} /\ cfg.edns0_code \in LocalCodes
           /\ cfg.ttl \in Nat /\ OneEach(cfg.gateway) /\ cfg.authorized_agent # {}
<1>1. PICK file \in Corefiles : cfg = parseConfig(file) /\ cfg # Invalid
  BY DEF Configs
<1> DEFINE V == {file[k].args[1] : k \in 1 .. Len(file)} \cup {Unset}
           W == {file[k].args : k \in 1 .. Len(file)}
           A == Read(V, W) \cup {Invalid}
<1>2. Defaults \in A
  <2>1. DefaultCode \in LocalCodes
    BY DEF DefaultCode, LocalCodes
  <2> QED
    BY <2>1 DEF Defaults, Read, Shape, OneEach
<1>3. ASSUME NEW a \in A, NEW k \in 1 .. Len(file) PROVE ReadLine(a, file[k]) \in A
  <2>1. file[k].args[1] \in V /\ file[k].args \in W
    OBVIOUS
  <2>2. Duration(file[k])
    BY CorefileForm DEF Duration
  <2>3. CASE a = Invalid
    BY <2>3 DEF ReadLine
  <2>4. CASE a \in Read(V, W)
    <3> HIDE DEF V, W
    <3> QED
      BY <2>1, <2>2, <2>4, ReadLineKeeps
  <2> QED
    BY <2>3, <2>4
<1>4. Loop(ReadLine, Defaults, file) \in A
  <2>1. Len(file) \in Nat /\ DOMAIN file = 1 .. Len(file)
    BY CorefileForm
  <2> HIDE DEF A
  <2> QED
    BY <1>2, <1>3, <2>1, LoopStays, Zenon
<1>5. cfg \in Read(V, W) /\ complete(cfg)
  BY <1>1, <1>4 DEF parseConfig
<1> HIDE DEF V, W
<1> QED
  BY <1>5 DEF Read, Shape, complete

(***************************************************************************)
(* The life of a generation.                                               *)
(***************************************************************************)
\* A generation has a poller only after dialSPIRE accepted what setup parsed
\* for it, and none before; a poller that publishes has a snapshot.
LifeCycle ==
    /\ \A g \in Gens : poller[g] # "none" => g <= generation
    /\ incoming # 0 => phase[incoming] \in {"dialling", "configured", "started"}
    /\ incoming # 0 /\ phase[incoming] = "dialling" =>
          config[incoming] \in Configs /\ poller[incoming] = "none"
    /\ incoming # 0 /\ phase[incoming] \in {"configured", "started"} =>
          config[incoming] \in Configs /\ dialSPIRE(config[incoming])
    /\ \A g \in Gens : poller[g] # "none" => config[g] \in Configs /\ dialSPIRE(config[g])
    /\ \A g \in Gens : poller[g] \in {"names", "conflicts"} => store[g] \in Stats

IInv == TypeOK /\ LifeCycle

\* A step of a reload (setup, OnStartup, OnShutdown) keeps IInv.
LEMMA InstanceSteps ==
    ASSUME IInv,
           \/ \E cfg \in Configs : Setup(cfg)
           \/ Dialled \/ DialFails \/ Startup \/ Takeover \/ Abandon
    PROVE  IInv'
<1> USE ReloadAssumption DEF IInv, Gens
<1>0. incoming # 0 => incoming \in Gens
  BY DEF TypeOK
<1>1. ASSUME NEW cfg \in Configs, Setup(cfg) PROVE IInv'
  <2>1. generation + 1 \in Gens /\ poller[generation + 1] = "none"
    BY <1>1 DEF Setup, TypeOK, LifeCycle
  <2>2. TypeOK'
    BY <1>1, <2>1 DEF Setup, TypeOK, polling
  <2>3. LifeCycle'
    BY <1>1, <2>1 DEF Setup, TypeOK, LifeCycle, polling
  <2> QED
    BY <2>2, <2>3
<1>2. CASE Dialled
  <2>1. TypeOK'
    BY <1>2, <1>0 DEF Dialled, TypeOK, gauges, polling
  <2>2. LifeCycle'
    BY <1>2, <1>0 DEF Dialled, TypeOK, LifeCycle, gauges, polling
  <2> QED
    BY <2>1, <2>2
<1>3. CASE DialFails
  <2>1. TypeOK'
    BY <1>3, <1>0 DEF DialFails, TypeOK, gauges, polling
  <2>2. LifeCycle'
    BY <1>3, <1>0 DEF DialFails, TypeOK, LifeCycle, gauges, polling
  <2> QED
    BY <2>1, <2>2
<1>4. CASE Startup
  <2>1. TypeOK'
    BY <1>4, <1>0 DEF Startup, TypeOK, gauges
  <2>2. LifeCycle'
    BY <1>4, <1>0 DEF Startup, TypeOK, LifeCycle, gauges
  <2> QED
    BY <2>1, <2>2
<1>5. CASE Takeover
  <2>1. TypeOK'
    BY <1>5, <1>0 DEF Takeover, TypeOK, gauges, polling
  <2>2. LifeCycle'
    BY <1>5, <1>0 DEF Takeover, TypeOK, LifeCycle, gauges, polling
  <2> QED
    BY <2>1, <2>2
<1>6. CASE Abandon
  <2>1. TypeOK'
    BY <1>6, <1>0 DEF Abandon, TypeOK, gauges, polling
  <2>2. LifeCycle'
    BY <1>6, <1>0 DEF Abandon, TypeOK, LifeCycle, gauges, polling
  <2> QED
    BY <2>1, <2>2
<1> QED
  BY <1>1, <1>2, <1>3, <1>4, <1>5, <1>6

\* A step of a poller (Run and its callbacks) keeps IInv.
LEMMA PollerSteps ==
    ASSUME IInv, NEW g \in Gens, Run(g)
    PROVE  IInv'
<1> USE ReloadAssumption DEF IInv, Gens, GoTo, Cancelled, gauges, instances
<1>1. CASE Poll(g)
  <2>1. TypeOK'
    BY <1>1 DEF Poll, TypeOK
  <2>2. LifeCycle'
    BY <1>1 DEF Poll, TypeOK, LifeCycle
  <2> QED
    BY <2>1, <2>2
<1>2. CASE PollSucceeds(g)
  <2>1. PICK s \in Stats : store' = [store EXCEPT ![g] = s]
    BY <1>2, Zenon DEF PollSucceeds
  <2>2. TypeOK'
    BY <1>2, <2>1 DEF PollSucceeds, TypeOK
  <2>3. LifeCycle'
    BY <1>2, <2>1 DEF PollSucceeds, TypeOK, LifeCycle
  <2> QED
    BY <2>2, <2>3
<1>3. CASE PollFails(g)
  <2>1. TypeOK'
    BY <1>3 DEF PollFails, TypeOK
  <2>2. LifeCycle'
    BY <1>3 DEF PollFails, TypeOK, LifeCycle
  <2> QED
    BY <2>1, <2>2
<1>4. CASE SetNames(g)
  <2>1. store[g].Names \in Nat
    BY <1>4 DEF SetNames, LifeCycle
  <2>2. TypeOK'
    BY <1>4, <2>1 DEF SetNames, TypeOK
  <2>3. LifeCycle'
    BY <1>4 DEF SetNames, TypeOK, LifeCycle
  <2> QED
    BY <2>2, <2>3
<1>5. CASE SetConflicts(g)
  <2>1. store[g].Conflicts \in Nat
    BY <1>5 DEF SetConflicts, LifeCycle
  <2>2. TypeOK'
    BY <1>5, <2>1 DEF SetConflicts, TypeOK
  <2>3. LifeCycle'
    BY <1>5 DEF SetConflicts, TypeOK, LifeCycle
  <2> QED
    BY <2>2, <2>3
<1>6. CASE SetReady(g)
  <2>1. TypeOK'
    BY <1>6 DEF SetReady, TypeOK
  <2>2. LifeCycle'
    BY <1>6 DEF SetReady, TypeOK, LifeCycle
  <2> QED
    BY <2>1, <2>2
<1>7. CASE PublishErrors(g)
  <2>1. TypeOK'
    BY <1>7 DEF PublishErrors, TypeOK
  <2>2. LifeCycle'
    BY <1>7 DEF PublishErrors, TypeOK, LifeCycle
  <2> QED
    BY <2>1, <2>2
<1>8. CASE End(g)
  <2>1. TypeOK'
    BY <1>8 DEF End, TypeOK
  <2>2. LifeCycle'
    BY <1>8 DEF End, TypeOK, LifeCycle
  <2> QED
    BY <2>1, <2>2
<1> QED
  BY <1>1, <1>2, <1>3, <1>4, <1>5, <1>6, <1>7, <1>8 DEF Run

\* The life cycle of generations and pollers holds whatever reloads, dials and
\* polls do.
THEOREM Invariance == Spec => []IInv
<1>1. Init => IInv
  BY ReloadAssumption DEF Init, IInv, TypeOK, LifeCycle, Gens
<1>2. IInv /\ [Next]_vars => IInv'
  <2> SUFFICES ASSUME IInv, [Next]_vars PROVE IInv'
    OBVIOUS
  <2>1. CASE (\E cfg \in Configs : Setup(cfg)) \/ Dialled \/ DialFails \/ Startup \/ Takeover \/ Abandon
    BY <2>1, InstanceSteps
  <2>2. CASE \E g \in Gens : Run(g)
    BY <2>2, PollerSteps
  <2>3. CASE UNCHANGED vars
    BY <2>3 DEF vars, gauges, instances, polling, IInv, TypeOK, LifeCycle
  <2> QED
    BY <2>1, <2>2, <2>3 DEF Next
<1> QED
  BY <1>1, <1>2, PTL DEF Spec

\* Every gauge, store and counter of central's reloads holds a value of its
\* type: what OnSnapshot publishes is always a poll's own Stats.
THEOREM TypeCorrect == Spec => []TypeOK
BY Invariance, PTL DEF IInv

\* No Corefile, and no order of reloads, starts a poller on a configuration
\* parseConfig or dialSPIRE should have refused.
THEOREM PollersRunSoundConfigs == Spec => []ConfigIsSound
<1>1. IInv => ConfigIsSound
  <2> SUFFICES ASSUME IInv, NEW g \in Gens, poller[g] # "none"
               PROVE  /\ config[g].poll_interval \in Nat \ {0}
                      /\ config[g].authorized_agent # {}
                      /\ config[g].edns0_code \in LocalCodes
                      /\ config[g].ttl \in Nat
                      /\ \A gw, other \in config[g].gateway :
                            gw[1] \in Zones /\ gw[2] # Junk /\ (gw[1] = other[1] => gw = other)
                      /\ \/ config[g].spire_server \in LocalServers
                         \/ config[g].spire_server_id \in SPIFFEIDs
    BY DEF ConfigIsSound
  <2>1. config[g] \in Configs /\ dialSPIRE(config[g])
    BY DEF IInv, LifeCycle
  <2>2. /\ config[g].poll_interval \in Nat \ {0} /\ config[g].edns0_code \in LocalCodes
        /\ config[g].ttl \in Nat /\ OneEach(config[g].gateway) /\ config[g].authorized_agent # {}
    BY <2>1, ConfigsAreRead
  <2>3. config[g].spire_server \in LocalServers \/ config[g].spire_server_id \in SPIFFEIDs
    BY <2>1 DEF dialSPIRE
  <2> QED
    BY <2>2, <2>3 DEF OneEach
<1> QED
  BY <1>1, Invariance, PTL
=============================================================================
