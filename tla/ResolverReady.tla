---------------------------- MODULE ResolverReady ----------------------------
(***************************************************************************)
(* The agent's resolver_ready gauge across Corefile reloads                *)
(* (plugin/zonedns_agent/setup.go, with podzone.Watcher.Run).              *)
(*                                                                         *)
(* Every setup() that gets as far as building a resolver is one generation *)
(* of the plugin.  The gauge, the generation counter and the generation    *)
(* that last reported ready are package-level and outlive them all.        *)
(* Caddy brings a new instance up completely and only then stops the old   *)
(* one; a reload that fails leaves the old one in place and drops the new  *)
(* one without running its OnShutdown (external, modelled from the use     *)
(* setup.go makes of OnStartup and OnShutdown).                            *)
(*                                                                         *)
(* Each critical section under resolverReadyMu is one step.                *)
(***************************************************************************)
EXTENDS AgentConfig

CONSTANT MaxGen   \* bound: how many generations a process goes through

ASSUME MaxGenAssumption == MaxGen \in Nat \ {0}

Gens == 1 .. MaxGen

VARIABLES
    resolverGeneration,       \* generations handed out so far
    resolverReadyGeneration,  \* the generation that last reported ready
    resolverReady,            \* the gauge
    phase,      \* Caddy's view of each generation's instance
    config,     \* what setup parsed for each generation, Defaults before
    watcher,    \* where each generation's Watcher.Run is
    stopper,    \* the goroutine waiting for ctx.Done to mark the stop
    incoming,   \* the generation being brought up, or 0
    serving,    \* the generation in service, or 0
    orderly     \* for the properties: so far no reload failed half-way, and
                \* no instance was replaced or stopped before it reported

vars == <<resolverGeneration, resolverReadyGeneration, resolverReady, phase, config,
          watcher, stopper, incoming, serving, orderly>>

mode(g) == config[g].mode

Init ==
    /\ resolverGeneration = 0
    /\ resolverReadyGeneration = 0
    /\ resolverReady = 0
    /\ phase = [g \in Gens |-> "none"]
    /\ config = [g \in Gens |-> Defaults]
    /\ watcher = [g \in Gens |-> "none"]
    /\ stopper = [g \in Gens |-> "none"]
    /\ incoming = 0
    /\ serving = 0
    /\ orderly = TRUE

\* Generation g told the gauge that it is ready, if it ever has to.
Reported(g) == IF mode(g) = "k8s" THEN watcher[g] = "reported" ELSE TRUE

(***************************************************************************)
(* The two critical sections.                                              *)
(***************************************************************************)
markReadyNextGeneration(g) ==
    /\ resolverReadyGeneration' = g + 1
    /\ resolverReady' = 1

markReadyFirstOnly(g) ==
    /\ resolverReadyGeneration' = IF resolverReady = 1 THEN resolverReadyGeneration ELSE g
    /\ resolverReady' = 1

markResolverReady(g) ==
    /\ resolverReadyGeneration' = g
    /\ resolverReady' = 1

markStoppedUnguarded(g) ==
    /\ resolverReady' = 0
    /\ UNCHANGED resolverReadyGeneration

markResolverStopped(g) ==
    /\ resolverReady' = IF resolverReadyGeneration = g THEN 0 ELSE resolverReady
    /\ UNCHANGED resolverReadyGeneration

(***************************************************************************)
(* Instance life cycle.                                                    *)
(***************************************************************************)
\* setup() with a Corefile that parses to cfg, which also is a reload's first
\* half; error returns happen before a generation number is drawn and leave no
\* trace.
Setup(cfg) ==
    LET g == resolverGeneration + 1
    IN  /\ incoming = 0
        /\ resolverGeneration < MaxGen
        /\ serving = 0 => resolverGeneration = 0
        /\ resolverGeneration' = g
        /\ phase' = [phase EXCEPT ![g] = "configured"]
        /\ config' = [config EXCEPT ![g] = cfg]
        /\ incoming' = g
        /\ IF cfg.mode = "vm"
           THEN /\ markResolverReady(g)    \* wireResolverReadyLifecycle
                /\ stopper' = [stopper EXCEPT ![g] = "waiting"]
           ELSE UNCHANGED <<resolverReadyGeneration, resolverReady, stopper>>
        /\ orderly' = (orderly /\ (serving # 0 => Reported(serving)))
        /\ UNCHANGED <<watcher, serving>>

\* c.OnStartup
Startup ==
    /\ incoming # 0
    /\ phase[incoming] = "configured"
    /\ phase' = [phase EXCEPT ![incoming] = "started"]
    /\ IF mode(incoming) = "k8s"
       THEN /\ watcher' = [watcher EXCEPT ![incoming] = "syncing"]
            /\ stopper' = [stopper EXCEPT ![incoming] = "waiting"]
       ELSE UNCHANGED <<watcher, stopper>>
    /\ UNCHANGED <<resolverGeneration, resolverReadyGeneration, resolverReady, config,
                   incoming, serving, orderly>>

\* The new instance serves; OnShutdown of the old one cancels its ctx.
Takeover ==
    /\ incoming # 0
    /\ phase[incoming] = "started"
    /\ phase' = [g \in Gens |-> IF g = incoming THEN "serving"
                                ELSE IF g = serving THEN "stopped" ELSE phase[g]]
    /\ serving' = incoming
    /\ incoming' = 0
    /\ UNCHANGED <<resolverGeneration, resolverReadyGeneration, resolverReady, config,
                   watcher, stopper, orderly>>

\* A reload that fails after this plugin's setup: nothing cancels its ctx.
Abandon ==
    /\ incoming # 0
    /\ serving # 0
    /\ phase' = [phase EXCEPT ![incoming] = "abandoned"]
    /\ incoming' = 0
    /\ orderly' = FALSE
    /\ UNCHANGED <<resolverGeneration, resolverReadyGeneration, resolverReady, config,
                   watcher, stopper, serving>>

\* The process is told to stop: OnShutdown without a successor.
Shutdown ==
    /\ incoming = 0
    /\ serving # 0
    /\ phase' = [phase EXCEPT ![serving] = "stopped"]
    /\ serving' = 0
    /\ orderly' = (orderly /\ Reported(serving))
    /\ UNCHANGED <<resolverGeneration, resolverReadyGeneration, resolverReady, config,
                   watcher, stopper, incoming>>

(***************************************************************************)
(* The goroutines a generation starts.                                     *)
(***************************************************************************)
Cancelled(g) == phase[g] = "stopped"

\* WaitForCacheSync succeeds and w.ready becomes true.
WatcherSyncs(g) ==
    /\ watcher[g] = "syncing"
    /\ watcher' = [watcher EXCEPT ![g] = "synced"]
    /\ UNCHANGED <<resolverGeneration, resolverReadyGeneration, resolverReady, phase,
                   config, stopper, incoming, serving, orderly>>

\* WaitForCacheSync gives up because ctx ended: Run returns, OnReady never runs.
WatcherGivesUp(g) ==
    /\ watcher[g] = "syncing"
    /\ Cancelled(g)
    /\ watcher' = [watcher EXCEPT ![g] = "ended"]
    /\ UNCHANGED <<resolverGeneration, resolverReadyGeneration, resolverReady, phase,
                   config, stopper, incoming, serving, orderly>>

\* w.OnReady()
WatcherReports(g) ==
    /\ watcher[g] = "synced"
    /\ markResolverReady(g)
    /\ watcher' = [watcher EXCEPT ![g] = "reported"]
    /\ UNCHANGED <<resolverGeneration, phase, config, stopper, incoming, serving, orderly>>

\* <-ctx.Done() in Run: w.ready becomes false.
WatcherEnds(g) ==
    /\ watcher[g] = "reported"
    /\ Cancelled(g)
    /\ watcher' = [watcher EXCEPT ![g] = "ended"]
    /\ UNCHANGED <<resolverGeneration, resolverReadyGeneration, resolverReady, phase,
                   config, stopper, incoming, serving, orderly>>

StopperRuns(g) ==
    /\ stopper[g] = "waiting"
    /\ Cancelled(g)
    /\ markResolverStopped(g)
    /\ stopper' = [stopper EXCEPT ![g] = "done"]
    /\ UNCHANGED <<resolverGeneration, phase, config, watcher, incoming, serving, orderly>>

Goroutine(g) ==
    WatcherSyncs(g) \/ WatcherGivesUp(g) \/ WatcherReports(g) \/ WatcherEnds(g) \/ StopperRuns(g)

Next ==
    \/ \E cfg \in Configs : Setup(cfg)
    \/ Startup \/ Takeover \/ Abandon \/ Shutdown
    \/ \E g \in Gens : Goroutine(g)

Spec == Init /\ [][Next]_vars

-----------------------------------------------------------------------------

\* The resolver of generation g answers: a pod watcher from its first sync to
\* the end of its ctx, a static resolver from the start.
Ready(g) ==
    IF mode(g) = "k8s" THEN watcher[g] \in {"synced", "reported"} ELSE ~Cancelled(g)

(***************************************************************************)
(* Fairness: goroutines run, the API server eventually serves the first    *)
(* list, and Caddy completes the reload it is in the middle of.            *)
(***************************************************************************)
FairSpec ==
    /\ Spec
    /\ WF_vars(Startup) /\ WF_vars(Takeover)
    /\ \A g \in Gens : WF_vars(Goroutine(g)) /\ WF_vars(StopperRuns(g))

-----------------------------------------------------------------------------

\* Every variable holds a value of its type.
TypeOK ==
    /\ resolverGeneration \in 0 .. MaxGen
    /\ resolverReadyGeneration \in 0 .. resolverGeneration
    /\ resolverReady \in {0, 1}
    /\ phase \in [Gens -> {"none", "configured", "started", "serving", "stopped", "abandoned"}]
    /\ config \in [Gens -> Configs \cup {Defaults}]
    /\ watcher \in [Gens -> {"none", "syncing", "synced", "reported", "ended"}]
    /\ stopper \in [Gens -> {"none", "waiting", "done"}]
    /\ incoming \in 0 .. resolverGeneration
    /\ serving \in 0 .. resolverGeneration
    /\ orderly \in BOOLEAN

\* markResolverStopped's comparison, in every regime: the gauge is never left
\* at 0 while the generation that reported last is still running.
ZeroMeansStopped ==
    resolverReady = 0 /\ resolverReadyGeneration # 0 => Cancelled(resolverReadyGeneration)

\* No reload in progress and no goroutine with a gauge update still to make.
Settled ==
    /\ incoming = 0
    /\ \A g \in Gens :
          /\ watcher[g] # "synced"
          /\ Cancelled(g) => stopper[g] = "done" /\ watcher[g] \in {"none", "ended"}

\* The gauge's help text ("1 when the zone resolver has loaded its data, 0
\* otherwise"): with all updates made, resolver_ready is 1 exactly when the
\* generation in service has a resolver that answers.
GaugeTruth ==
    Settled => (resolverReady = 1 <=> serving # 0 /\ Ready(serving))

\* The same as long as every instance was left to report before its successor
\* was set up and no reload failed after setup.
GaugeTruthInOrder == orderly => GaugeTruth

HasReported(g) == watcher[g] = "reported" \/ (mode(g) = "vm" /\ stopper[g] # "none")

SparesNewer ==
    \A g \in Gens : StopperRuns(g) /\ resolverReady = 1 /\ resolverReady' = 0 =>
        \A h \in Gens : h > g /\ ~Cancelled(h) => ~HasReported(h)

\* markResolverStopped's comment: "It zeroes the gauge only when no newer
\* generation has become ready".
StopSparesNewer == [][SparesNewer]_vars

\* The same while reloads are orderly.
StopSparesNewerInOrder == [][orderly => SparesNewer]_vars

\* The whole mechanism: a generation in service whose resolver answers is
\* shown as ready, unless it goes out of service first or reloads stop being
\* orderly.
ReadyIsShown ==
    \A g \in Gens :
        serving = g /\ Ready(g) ~> resolverReady = 1 \/ serving # g \/ ~orderly

\* What the other components take for granted, every generation has from its
\* setup, whatever the Corefile said: a cache of at least one entry, an option
\* code of the local range, a pinned https upstream, in VM mode a zone central
\* can read and no pod watcher, in k8s mode the reverse, and no zone-blind
\* cache in front of the plugin.
ConfigIsSound ==
    \A g \in Gens : phase[g] # "none" =>
        /\ config[g].cache_size \in Nat \ {0}
        /\ config[g].edns0_code \in LocalCodes
        /\ config[g].upstream.scheme = "https" /\ config[g].central_spiffe_id \in SPIFFEIDs
        /\ config[g].zone \in (IF mode(g) = "vm" THEN Zones ELSE {Unset})
        /\ config[g].node_name = Unset <=> mode(g) = "vm"
        /\ config[g].node_ip # Junk
        /\ \E i \in DOMAIN Directives :
              /\ Directives[i] = "zonedns_agent"
              /\ \A j \in DOMAIN Directives : Directives[j] = "cache" => i < j
=============================================================================
