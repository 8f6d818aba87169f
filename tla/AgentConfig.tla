----------------------------- MODULE AgentConfig -----------------------------
(***************************************************************************)
(* What the agent's plugin accepts as its configuration                    *)
(* (plugin/zonedns_agent/setup.go, build/zonedns_register.go and the       *)
(* checks of dohupstream.NewMTLS).                                         *)
(*                                                                         *)
(* A Corefile block is a sequence of lines [key, arg].  Arguments are      *)
(* modelled by what the parser tells apart: numbers and addresses that     *)
(* parse, Junk for text that does not, NoArg for a line without argument,  *)
(* Unset for the empty string, and an upstream URL as [scheme, path].      *)
(***************************************************************************)
EXTENDS Integers, Sequences, Loops

CONSTANTS
    Unset, Junk, NoArg,
    Invalid,              \* parseConfig returned an error
    Zones,                \* zone names ednszone.Valid accepts
    SPIFFEIDs,            \* texts spiffeid.FromString accepts
    NODE_IP,              \* the environment variable: Unset, Junk or an address
    UpstreamDirectives,   \* dnsserver.Directives before this plugin's init
    Corefiles             \* bound: the blocks an operator may write

\* A block is a sequence, and a number either parses or does not.
ASSUME CorefileForm ==
    \A file \in Corefiles :
        /\ Len(file) \in Nat /\ DOMAIN file = 1 .. Len(file)
        /\ \A k \in DOMAIN file :
              file[k].key = "cache_size" => file[k].arg \in {NoArg, Junk} \/ file[k].arg \in Int

\* dnsserver.Directives lists the cache plugin once.
ASSUME DirectivesForm ==
    /\ Len(UpstreamDirectives) \in Nat
    /\ DOMAIN UpstreamDirectives = 1 .. Len(UpstreamDirectives)
    /\ \A i, j \in DOMAIN UpstreamDirectives :
          UpstreamDirectives[i] = "cache" /\ UpstreamDirectives[j] = "cache" => i = j

DefaultCode == 65001

\* The local/experimental range of EDNS0 option codes.
LocalCodes == 65001 .. 65534

Defaults ==
    [mode |-> Unset, zone |-> Unset, node_name |-> Unset, zone_label |-> "zone",
     upstream |-> Unset, central_spiffe_id |-> Unset, workload_api |-> Unset,
     cache_size |-> 4096, node_ip |-> NODE_IP, edns0_code |-> DefaultCode]

Texts == {"zone", "node_name", "zone_label", "upstream", "central_spiffe_id", "workload_api"}

\* The arguments with which a line is accepted.
Accepts(line) ==
    CASE line.key = "mode"       -> line.arg \in {"k8s", "vm"}
      [] line.key \in Texts      -> line.arg # NoArg
      [] line.key = "cache_size" -> line.arg \notin {NoArg, Junk} /\ line.arg > 0
      [] line.key = "node_ip"    -> line.arg \notin {NoArg, Junk, Unset}
      [] line.key = "edns0_code" -> line.arg \in LocalCodes
      [] OTHER                   -> FALSE

\* One turn of the loop over the block; the last line of a key wins.
ReadLine(cfg, line) ==
    IF cfg # Invalid /\ Accepts(line)
    THEN [cfg EXCEPT ![line.key] = line.arg]
    ELSE Invalid

\* The checks after the loop.
pinned(cfg) ==
    /\ cfg.upstream \notin {Unset, Junk}
    /\ cfg.upstream.scheme = "https"
    /\ cfg.upstream.path \in {"", "/"}
    /\ cfg.central_spiffe_id # Unset
    /\ cfg.workload_api # Unset

modeAnyZone(cfg) ==
    \/ cfg.mode = "vm" /\ cfg.zone # Unset /\ cfg.node_name = Unset
    \/ cfg.mode = "k8s" /\ cfg.node_name # Unset /\ cfg.zone = Unset

modeFits(cfg) ==
    \/ cfg.mode = "vm" /\ cfg.zone \in Zones /\ cfg.node_name = Unset
    \/ cfg.mode = "k8s" /\ cfg.node_name # Unset /\ cfg.zone = Unset

parseConfig(file) ==
    LET cfg == Loop(ReadLine, Defaults, file)
    IN  IF NODE_IP # Junk /\ cfg # Invalid /\ pinned(cfg) /\ modeFits(cfg)
        THEN cfg ELSE Invalid

\* zonedns_register.go: the plugin is inserted before every "cache", unless it
\* is listed already.
insertBeforeCache(name, directives) ==
    IF name \in Range(directives) THEN directives
    ELSE Loop(LAMBDA out, d : out \o (IF d = "cache" THEN <<name, d>> ELSE <<d>>),
              <<>>, directives)

\* Where a directive comes last in the list, 0 if nowhere.
At(name, directives) ==
    Loop(LAMBDA at, k : IF directives[k] = name THEN k ELSE at,
         0, [k \in DOMAIN directives |-> k])

CheckDirectiveOrder(directives) ==
    LET agentAt == At("zonedns_agent", directives)
        cacheAt == At("cache", directives)
    IN  agentAt # 0 /\ (cacheAt # 0 => agentAt < cacheAt)

Directives == insertBeforeCache("zonedns_agent", UpstreamDirectives)

\* NewMTLS refuses an identity it cannot parse; it also fails when no SVID
\* arrives within its timeout.
NewMTLS(cfg) == cfg.central_spiffe_id \in SPIFFEIDs

\* The configurations with which setup can get as far as building a resolver.
Configs ==
    {cfg \in {parseConfig(file) : file \in Corefiles} :
        CheckDirectiveOrder(Directives) /\ cfg # Invalid /\ NewMTLS(cfg)}
=============================================================================
