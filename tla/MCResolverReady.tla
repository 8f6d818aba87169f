--------------------------- MODULE MCResolverReady ---------------------------
(* ResolverReady with a handful of generations and Corefiles, for TLC. *)
EXTENDS ResolverReady

CONSTANTS addr, za, dotted

Line(key, arg) == [key |-> key, arg |-> arg]
URL(scheme, path) == [scheme |-> scheme, path |-> path]

\* Enough to start in either mode, and one line that may add to it, repeat a
\* key or spoil the block.
Upstream == <<Line("upstream", URL("https", "/")), Line("workload_api", "sock"),
              Line("central_spiffe_id", "id")>>
Modes == {<<Line("mode", "vm"), Line("zone", za)>>, <<Line("mode", "k8s"), Line("node_name", "n")>>}
Extras ==
    {Line("mode", "bare"), Line("mode", NoArg), Line("zone", za), Line("zone", dotted),
     Line("zone", Unset), Line("node_name", "n"), Line("node_name", NoArg),
     Line("zone_label", "zone"), Line("upstream", URL("http", "")),
     Line("upstream", URL("https", "/dns-query")), Line("upstream", Junk),
     Line("central_spiffe_id", Unset), Line("central_spiffe_id", "no id"),
     Line("workload_api", Unset), Line("cache_size", 0), Line("cache_size", -1),
     Line("cache_size", Junk), Line("cache_size", 4096), Line("edns0_code", 65000),
     Line("edns0_code", 65535), Line("edns0_code", Junk), Line("edns0_code", 65001),
     Line("node_ip", Junk), Line("node_ip", Unset), Line("node_ip", addr), Line("ttl", 30)}
MCCorefiles ==
    {m \o u \o x : m \in Modes, u \in {<<>>, Upstream}, x \in {<<>>} \cup {<<l>> : l \in Extras}}

MCDirectives == <<"errors", "cache", "forward">>
=============================================================================
