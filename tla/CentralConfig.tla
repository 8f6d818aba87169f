---------------------------- MODULE CentralConfig ----------------------------
(***************************************************************************)
(* What central's plugin accepts as its configuration                      *)
(* (plugin/zonedns/setup.go: parseConfig, CheckDirectiveOrder and the      *)
(* checks of dialSPIRE).                                                   *)
(*                                                                         *)
(* A Corefile block is a sequence of lines [key, args].  Arguments are     *)
(* modelled by what the parser tells apart: numbers and addresses that     *)
(* parse, Junk for text that does not, Unset for the empty string.         *)
(***************************************************************************)
EXTENDS Integers, Sequences, Loops

CONSTANTS
    Unset, Junk,
    Invalid,          \* parseConfig returned an error
    Zones,            \* zone names ednszone.Valid accepts
    SPIFFEIDs,        \* texts spiffeid.FromString accepts
    LocalServers,     \* spire_server texts that start with unix://
    CentralDirectives,  \* dnsserver.Directives of central's build
    Corefiles         \* bound: the blocks an operator may write

\* A block is a sequence, and a duration either parses or does not.
ASSUME CorefileForm ==
    \A file \in Corefiles :
        /\ Len(file) \in Nat /\ DOMAIN file = 1 .. Len(file)
        /\ \A k \in DOMAIN file :
              file[k].key = "poll_interval" /\ Len(file[k].args) > 0 =>
                  file[k].args[1] = Junk \/ file[k].args[1] \in Int

DefaultCode == 65001

\* The local/experimental range of EDNS0 option codes.
LocalCodes == 65001 .. 65534

Defaults ==
    [spire_server |-> Unset, poll_interval |-> 30, authorized_agent |-> {},
     edns0_code |-> DefaultCode, ttl |-> 30, workload_api |-> Unset, spire_server_id |-> Unset,
     gateway |-> {}]

gatewayReplaces(cfg, args) == Len(args) = 2 /\ args[1] \in Zones /\ args[2] # Junk

\* A gateway line: a zone every component can read, named once, and an address.
acceptsGateway(cfg, args) ==
    /\ Len(args) = 2
    /\ args[1] \in Zones
    /\ \A gw \in cfg.gateway : gw[1] # args[1]
    /\ args[2] # Junk

\* Other lines use their first argument and ignore the rest.
Accepts(cfg, line) ==
    IF line.key = "gateway" THEN acceptsGateway(cfg, line.args)
    ELSE /\ Len(line.args) > 0
         /\ CASE line.key = "poll_interval" -> line.args[1] # Junk /\ line.args[1] > 0
              [] line.key = "edns0_code"    -> line.args[1] # Junk /\ line.args[1] \in LocalCodes
              [] line.key = "ttl"           -> line.args[1] # Junk /\ line.args[1] \in Nat
              [] OTHER -> line.key \in {"spire_server", "authorized_agent", "workload_api",
                                        "spire_server_id"}

\* One turn of the loop over the block.
ReadLine(cfg, line) ==
    IF cfg = Invalid \/ ~Accepts(cfg, line) THEN Invalid
    ELSE CASE line.key = "gateway"          -> [cfg EXCEPT !.gateway = @ \cup {line.args}]
           [] line.key = "authorized_agent" -> [cfg EXCEPT ![line.key] = @ \cup {line.args[1]}]
           [] OTHER                         -> [cfg EXCEPT ![line.key] = line.args[1]]

\* The checks after the loop.
complete(cfg) ==
    /\ cfg.spire_server # Unset
    /\ cfg.authorized_agent # {}
    /\ cfg.spire_server \notin LocalServers => cfg.spire_server_id # Unset

parseConfig(file) ==
    LET cfg == Loop(ReadLine, Defaults, file)
    IN  IF cfg # Invalid /\ complete(cfg) THEN cfg ELSE Invalid

\* Where a directive comes last in the list, 0 if nowhere.
At(name, directives) ==
    Loop(LAMBDA at, k : IF directives[k] = name THEN k ELSE at,
         0, [k \in DOMAIN directives |-> k])

CheckDirectiveOrder(directives) ==
    LET zonednsAt == At("zonedns", directives)
        cacheAt   == At("cache", directives)
    IN  zonednsAt # 0 /\ (cacheAt # 0 => zonednsAt < cacheAt)

\* What setup has when it resets the gauges; errors before that leave no trace.
Configs ==
    {cfg \in {parseConfig(file) : file \in Corefiles} :
        CheckDirectiveOrder(CentralDirectives) /\ cfg # Invalid}

\* A connection over the network needs an SVID and the server's identity.
dialSPIRE(cfg) ==
    \/ cfg.spire_server \in LocalServers
    \/ cfg.workload_api # Unset /\ cfg.spire_server_id \in SPIFFEIDs
=============================================================================
