--------------------------- MODULE MCCentralReload ---------------------------
(* CentralReload with a few generations and Corefiles, for TLC. *)
EXTENDS CentralReload

CONSTANTS za, dotted, vip, other

Line(key, args) == [key |-> key, args |-> args]

\* A local and a remote server, and one line that repeats, completes or spoils
\* the block; what is accepted beyond the two blocks differs from them only in
\* what dialSPIRE looks at, which is all the pollers can tell apart.
Agent == Line("authorized_agent", <<"agent">>)
Local == <<Line("spire_server", <<"unix">>), Line("edns0_code", <<65534>>), Line("ttl", <<0>>),
           Line("gateway", <<za, vip>>)>>
Remote == <<Line("spire_server", <<"host">>), Agent>>
Pinned == <<Line("spire_server_id", <<"id">>), Line("workload_api", <<"sock">>)>>
Extras ==
    {Agent, Line("spire_server", <<Unset>>), Line("spire_server_id", <<"no id">>),
     Line("poll_interval", <<0>>), Line("poll_interval", <<-1>>), Line("poll_interval", <<Junk>>),
     Line("poll_interval", <<>>), Line("poll_interval", <<30, 2>>), Line("edns0_code", <<65000>>),
     Line("edns0_code", <<65535>>), Line("edns0_code", <<Junk>>), Line("ttl", <<Junk>>),
     Line("upstream", <<"x">>), Line("gateway", <<za>>), Line("gateway", <<dotted, vip>>),
     Line("gateway", <<za, Junk>>)}
MCCorefiles ==
    {Local \o <<x>> : x \in Extras} \cup {Local \o <<Agent, x>> : x \in Extras}
        \cup {Local \o <<Agent, Line("gateway", <<za, other>>)>>}
        \cup {Remote \o p \o <<x>> : p \in {<<>>, Pinned}, x \in Extras}

MCStats == {[Names |-> 1, Conflicts |-> 1], [Names |-> 2, Conflicts |-> 0]}

MCDirectives == <<"errors", "zonedns", "cache", "forward">>
=============================================================================
