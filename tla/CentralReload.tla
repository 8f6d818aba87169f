---------------------------- MODULE CentralReload ----------------------------
(***************************************************************************)
(* Central's registry gauges across Corefile reloads                       *)
(* (plugin/zonedns/setup.go and metrics.go, with Run of                    *)
(* internal/registry/spire.go).                                            *)
(*                                                                         *)
(* Every setup() that gets past parseConfig is one generation of the       *)
(* plugin, with a Store, a connection and a Poller of its own; the four    *)
(* gauges are package-level and shared by them all.  Caddy brings a new    *)
(* instance up completely and only then stops the old one, whose poller    *)
(* keeps running meanwhile; a reload that fails drops the new one without  *)
(* running its OnShutdown (external, as in ResolverReady).                 *)
(*                                                                         *)
(* A poll is one call: PollOnce page by page is Poller's subject.  Each    *)
(* Set of a gauge is a step, so two pollers' callbacks interleave.         *)
(***************************************************************************)
EXTENDS CentralConfig

CONSTANTS
    MaxGen,     \* bound: how many generations a process goes through
    Stats,      \* bound: what a poll may find, [Names, Conflicts]
    MaxErrors,  \* bound: failures are counted up to MaxErrors, "many"
    NotReady    \* Store.cur = nil

ASSUME ReloadAssumption ==
    /\ MaxGen \in Nat \ {0} /\ MaxErrors \in Nat \ {0}
    /\ Stats \subseteq [Names : Nat, Conflicts : Nat]
    /\ NotReady \notin Stats

Gens == 1 .. MaxGen

VARIABLES
    registryReady, registryNames, registryConflicts, registryPollErrors,   \* the gauges
    generation,  \* setups that got past parseConfig so far
    phase,       \* Caddy's view of each generation's instance
    config,      \* what setup parsed for it, Defaults before
    poller,      \* where its poller is
    store,       \* the Stats of its snapshot, NotReady before the first
    pollErrors,  \* its consecutive failures
    incoming,    \* the generation being brought up, or 0
    serving      \* the generation in service, or 0

gauges == <<registryReady, registryNames, registryConflicts, registryPollErrors>>
instances == <<generation, phase, config, incoming, serving>>
polling == <<poller, store, pollErrors>>
vars == <<gauges, instances, polling>>

Init ==
    /\ registryReady = 0 /\ registryNames = 0 /\ registryConflicts = 0 /\ registryPollErrors = 0
    /\ generation = 0 /\ incoming = 0 /\ serving = 0
    /\ phase = [g \in Gens |-> "none"]
    /\ config = [g \in Gens |-> Defaults]
    /\ poller = [g \in Gens |-> "none"]
    /\ store = [g \in Gens |-> NotReady]
    /\ pollErrors = [g \in Gens |-> 0]

(***************************************************************************)
(* Instance life cycle.                                                    *)
(***************************************************************************)
\* setup() up to dialSPIRE: a new Store, and the reset of two gauges.  They are
\* one step: a callback that sets either of them in between might as well have
\* come before or after both.
Setup(cfg) ==
    /\ incoming = 0
    /\ generation < MaxGen
    /\ serving = 0 => generation = 0
    /\ generation' = generation + 1
    /\ incoming' = generation + 1
    /\ phase' = [phase EXCEPT ![generation + 1] = "dialling"]
    /\ config' = [config EXCEPT ![generation + 1] = cfg]
    /\ registryReady' = 0
    /\ registryPollErrors' = 0
    /\ UNCHANGED <<registryNames, registryConflicts, serving, polling>>

\* dialSPIRE returns a connection and setup registers its callbacks.
Dialled ==
    /\ incoming # 0 /\ phase[incoming] = "dialling"
    /\ dialSPIRE(config[incoming])
    /\ phase' = [phase EXCEPT ![incoming] = "configured"]
    /\ UNCHANGED <<gauges, generation, config, incoming, serving, polling>>

\* dialSPIRE returns an error, after its timeout at the latest.  At start-up
\* the process then exits, which is not modelled.  Nothing keeps what setup
\* built.
DialFails ==
    /\ incoming # 0 /\ phase[incoming] = "dialling"
    /\ serving # 0
    /\ phase' = [phase EXCEPT ![incoming] = "failed"]
    /\ config' = [config EXCEPT ![incoming] = Defaults]
    /\ incoming' = 0
    /\ UNCHANGED <<gauges, generation, serving, polling>>

\* c.OnStartup: go poller.Run(ctx)
Startup ==
    /\ incoming # 0 /\ phase[incoming] = "configured"
    /\ phase' = [phase EXCEPT ![incoming] = "started"]
    /\ poller' = [poller EXCEPT ![incoming] = "starting"]
    /\ UNCHANGED <<gauges, generation, config, incoming, serving, store, pollErrors>>

TakeoverNoCancel ==
    /\ incoming # 0 /\ phase[incoming] = "started"
    /\ phase' = [phase EXCEPT ![incoming] = "serving"]
    /\ serving' = incoming
    /\ incoming' = 0
    /\ UNCHANGED <<gauges, generation, config, polling>>

\* The new instance serves; OnShutdown of the old one ends its ctx and closes
\* its connection.
Takeover ==
    /\ incoming # 0 /\ phase[incoming] = "started"
    /\ phase' = [g \in Gens |-> IF g = incoming THEN "serving"
                                ELSE IF g = serving THEN "stopped" ELSE phase[g]]
    /\ serving' = incoming
    /\ incoming' = 0
    /\ UNCHANGED <<gauges, generation, config, polling>>

\* A reload that fails after this plugin's setup: nothing ends its ctx.
Abandon ==
    /\ incoming # 0 /\ phase[incoming] \in {"configured", "started"}
    /\ serving # 0
    /\ phase' = [phase EXCEPT ![incoming] = "abandoned"]
    /\ incoming' = 0
    /\ UNCHANGED <<gauges, generation, config, serving, polling>>

(***************************************************************************)
(* Run, for the poller of generation g.                                    *)
(***************************************************************************)
Cancelled(g) == phase[g] = "stopped"

GoTo(g, pc) == poller' = [poller EXCEPT ![g] = pc]

\* The first turn of the loop, or the ticker fired.  A call made with a ctx
\* that has ended is refused at once.
Poll(g) ==
    /\ poller[g] \in {"starting", "waiting"}
    /\ GoTo(g, IF Cancelled(g) THEN "refused" ELSE "calling")
    /\ UNCHANGED <<gauges, instances, store, pollErrors>>

\* PollOnce returns a snapshot it stored; a reply may still win the race
\* against the end of ctx.
PollSucceeds(g) ==
    /\ poller[g] = "calling"
    /\ \E s \in Stats : store' = [store EXCEPT ![g] = s]
    /\ pollErrors' = [pollErrors EXCEPT ![g] = 0]
    /\ GoTo(g, "names")
    /\ UNCHANGED <<gauges, instances>>

PollHangs(g) ==
    /\ poller[g] = "calling"
    /\ ~Cancelled(g)
    /\ pollErrors' = [pollErrors EXCEPT ![g] = IF @ < MaxErrors THEN @ + 1 ELSE @]
    /\ GoTo(g, "errors")
    /\ UNCHANGED <<gauges, instances, store>>

PollFails(g) ==
    /\ poller[g] \in {"calling", "refused"}
    /\ pollErrors' = [pollErrors EXCEPT ![g] = IF @ < MaxErrors THEN @ + 1 ELSE @]
    /\ GoTo(g, "errors")
    /\ UNCHANGED <<gauges, instances, store>>

\* OnSnapshot, one gauge at a time.
SetNames(g) ==
    /\ poller[g] = "names"
    /\ registryNames' = store[g].Names
    /\ GoTo(g, "conflicts")
    /\ UNCHANGED <<registryReady, registryConflicts, registryPollErrors, instances, store, pollErrors>>

SetConflicts(g) ==
    /\ poller[g] = "conflicts"
    /\ registryConflicts' = store[g].Conflicts
    /\ GoTo(g, "ready")
    /\ UNCHANGED <<registryReady, registryNames, registryPollErrors, instances, store, pollErrors>>

SetReady(g) ==
    /\ poller[g] = "ready"
    /\ registryReady' = 1
    /\ GoTo(g, "errors")
    /\ UNCHANGED <<registryNames, registryConflicts, registryPollErrors, instances, store, pollErrors>>

PublishFailures(g) ==
    /\ poller[g] = "errors"
    /\ registryPollErrors' = IF pollErrors[g] > 0 THEN pollErrors[g] ELSE registryPollErrors
    /\ GoTo(g, "waiting")
    /\ UNCHANGED <<registryReady, registryNames, registryConflicts, instances, store, pollErrors>>

PublishNext(g) ==
    /\ poller[g] = "errors"
    /\ registryPollErrors' = pollErrors[g] + 1
    /\ GoTo(g, "waiting")
    /\ UNCHANGED <<registryReady, registryNames, registryConflicts, instances, store, pollErrors>>

\* OnPollErrors, after success and failure alike.
PublishErrors(g) ==
    /\ poller[g] = "errors"
    /\ registryPollErrors' = pollErrors[g]
    /\ GoTo(g, "waiting")
    /\ UNCHANGED <<registryReady, registryNames, registryConflicts, instances, store, pollErrors>>

\* case <-ctx.Done()
End(g) ==
    /\ poller[g] = "waiting"
    /\ Cancelled(g)
    /\ GoTo(g, "ended")
    /\ UNCHANGED <<gauges, instances, store, pollErrors>>

Run(g) ==
    \/ Poll(g) \/ PollSucceeds(g) \/ PollFails(g)
    \/ SetNames(g) \/ SetConflicts(g) \/ SetReady(g) \/ PublishErrors(g) \/ End(g)

Next ==
    \/ \E cfg \in Configs : Setup(cfg)
    \/ Dialled \/ DialFails \/ Startup \/ Takeover \/ Abandon
    \/ \E g \in Gens : Run(g)

Spec == Init /\ [][Next]_vars

(***************************************************************************)
(* Fairness: goroutines run, tickers fire and calls return, with an error  *)
(* if need be (the transport gives up a dead connection, and the end of    *)
(* ctx ends the call); select chooses at random between a ticker and a     *)
(* ctx that are both due, so the end is not passed over for ever.          *)
(***************************************************************************)
FairSpec == Spec /\ \A g \in Gens : WF_vars(Run(g)) /\ SF_vars(End(g))

-----------------------------------------------------------------------------

\* Every variable holds a value of its type.
TypeOK ==
    /\ registryReady \in {0, 1}
    /\ registryNames \in Nat /\ registryConflicts \in Nat
    /\ registryPollErrors \in 0 .. MaxErrors
    /\ generation \in 0 .. MaxGen /\ incoming \in 0 .. generation /\ serving \in 0 .. generation
    /\ phase \in [Gens -> {"none", "dialling", "configured", "failed", "started", "serving",
                           "stopped", "abandoned"}]
    /\ config \in [Gens -> Configs \cup {Defaults}]
    /\ poller \in [Gens -> {"none", "starting", "waiting", "calling", "refused", "names",
                            "conflicts", "ready", "errors", "ended"}]
    /\ store \in [Gens -> Stats \cup {NotReady}]
    /\ pollErrors \in [Gens -> 0 .. MaxErrors]

\* No instance was dropped with its poller running.
NoOrphan == \A g \in Gens : phase[g] = "abandoned" => poller[g] = "none"

\* Generation g ends up, and stays, the one in service.
Stays(g) == <>[](serving = g /\ incoming = 0)

\* registry_poll_errors is "consecutive SPIRE Entry API poll failures": unless
\* a failed reload left a second poller behind, however many reloads there
\* were and whatever the pollers they replaced still had to report, between
\* its polls the gauge finally is the count of the instance in service.
ErrorsAreShown ==
    \A g \in Gens : Stays(g) /\ []NoOrphan =>
        <>[](poller[g] = "waiting" => registryPollErrors = pollErrors[g])

\* registry_ready, registry_names and registry_conflicts: under the same
\* conditions, and if the instance in service goes on reaching SPIRE, they
\* finally are those of its snapshot, all three of the same one.
SnapshotIsShown ==
    \A g \in Gens :
        Stays(g) /\ []NoOrphan /\ []<>(poller[g] = "names") =>
            <>[](poller[g] = "waiting" =>
                    /\ registryReady = 1 /\ store[g] # NotReady
                    /\ registryNames = store[g].Names
                    /\ registryConflicts = store[g].Conflicts)

\* OnShutdown: the poller of an instance that was replaced ends, even out of a
\* call to SPIRE that hangs.
PollersEnd == \A g \in Gens : phase[g] = "stopped" ~> poller[g] = "ended"

\* setup.go:129: the reset keeps registry_ready from showing "the *previous*
\* instance's readiness (1)" after a reload, "while the new (empty) Store
\* silently takes the non-zone-aware path on every query".
ReadyMeansOwnStore ==
    NoOrphan /\ incoming = 0 /\ registryReady = 1 => serving # 0 /\ store[serving] # NotReady

\* What runs is what setup may start: a ticker with a positive interval, at
\* least one agent whose declarations count, an option code of the local
\* range, one gateway per zone and only for zones agents can declare, and over
\* the network only the SPIRE Server the operator named.
ConfigIsSound ==
    \A g \in Gens : poller[g] # "none" =>
        LET cfg == config[g]
        IN  /\ cfg.poll_interval \in Nat \ {0}
            /\ cfg.authorized_agent # {}
            /\ cfg.edns0_code \in LocalCodes
            /\ cfg.ttl \in Nat
            /\ \A gw, other \in cfg.gateway :
                  gw[1] \in Zones /\ gw[2] # Junk /\ (gw[1] = other[1] => gw = other)
            /\ cfg.spire_server \in LocalServers \/ cfg.spire_server_id \in SPIFFEIDs
=============================================================================
