------------------------------- MODULE MCAgent -------------------------------
(* Small instances of Agent for TLC. *)
EXTENDS Agent, TLC

CONSTANTS za, zb, dotted, n1, vipB, ipA, ipX, t1, t2

MCLower == [s \in Spellings |-> n1]

\* zb is reached through an IPv4 gateway; za has none configured.
MCGateways == [z \in {zb} |-> vipB]
MCFamily == [v \in {vipB} |-> "A"]

Ordinary(ttl) == [rcode |-> "noerror", data |-> "ordinary", ttl |-> ttl]

\* An overlong TTL; one that is not cached, and a name that does not exist.
MCLong == {Ordinary(3)}
MCMixed == {Ordinary(0), Ordinary(1), [rcode |-> "nxdomain", data |-> NoData, ttl |-> NoTTL]}

\* Without an OPT record; with a declaration of the client's own; with two.
MCClientOpts == {NoOpt, Set(NoOpt, Code, za), [EmptyOpt EXCEPT ![Code] = <<za, zb>>]}

\* The registry is loaded, or the name moves, while queries are under way.
MCLoaded == {[n \in Names |-> zb]}
MCMoves == {[n \in Names |-> za], [n \in Names |-> zb]}

\* The agent's connection: as an authorized agent, with a chain in which only
\* the intermediate is authorized, with a leaf of two identities, and without
\* a certificate.
Cert(ids) == [k \in DOMAIN ids |-> [scheme |-> "spiffe", id |-> ids[k]]]
DoH(chain) == [transport |-> "doh", wrapped |-> TRUE, chain |-> chain]
MCAgentOnly == {DoH(<<Cert(<<"agent">>)>>)}
MCPeers ==
    MCAgentOnly \cup {DoH(<<Cert(<<"other">>), Cert(<<"agent">>)>>),
                      DoH(<<Cert(<<"agent", "other">>)>>), DoH(<<>>)}

Symmetric == Permutations(Threads)
=============================================================================
