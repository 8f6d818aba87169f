------------------------------- MODULE Central -------------------------------
(***************************************************************************)
(* Central's answer to one query (plugin/zonedns with internal/identity,   *)
(* internal/decision, internal/zonetable and the lookup of                 *)
(* internal/registry).  The handler reads the registry pointer once and    *)
(* writes nothing but counters, so it is an operator: ServeDNS is the set  *)
(* of replies central may give to a query under one registry snapshot.     *)
(***************************************************************************)
EXTENDS EdnsZone

CONSTANTS
    Spellings,    \* names as queries spell them (case, trailing dot)
    Names,        \* normalised names
    Lower,        \* normalize: [Spellings -> Names]
    Qtypes,       \* query types; "A" and "AAAA" are the address types
    NotReady,     \* Store.cur = nil
    Peers,        \* the connections queries may come in on
    NoID,         \* SPIFFEIDFromCert's ok = false
    Authorized,   \* authorized_agent
    Code,         \* edns0_code, the same value in both Corefiles
    Gateways,     \* the gateway table, a function on a subset of Zones
    Family,       \* the qtype a gateway address answers, "A" or "AAAA"
    GatewayTTL,   \* ttl: the TTL of a gateway answer
    Downstream,   \* replies the next plugin may give: [rcode, data, ttl]
    NoData,       \* an empty answer section
    NoTTL         \* the TTL of an empty answer section

Questions == [name : Spellings, qtype : Qtypes]

Snapshots == {NotReady} \cup [Names -> Zones \cup {NoZone}]

VIPs == {Gateways[z] : z \in DOMAIN Gateways}

Rcodes == {"noerror", "nxdomain", "servfail"}

\* A connection is its transport, whether a plugin wrapped the ResponseWriter,
\* and the client's certificate chain, leaf first, empty if it presented none.
\* Of a certificate only its URI SANs matter.
Certificates == Seq([scheme : STRING, id : STRING])
Connections ==
    [transport : {"doh", "dot", "udp"}, wrapped : BOOLEAN, chain : Seq(Certificates)]

\* An answer section is empty exactly when it has no TTL to follow.
Replies ==
    [rcode : Rcodes, data : VIPs \cup {"ordinary", NoData}, ttl : Nat \cup {NoTTL}]

ASSUME CentralConstants ==
    /\ Lower \in [Spellings -> Names]
    /\ Questions # {}
    /\ Code \in Codes
    /\ Peers \subseteq Connections
    /\ NoID \notin Authorized
    /\ DOMAIN Gateways \subseteq Zones
    /\ Family \in [VIPs -> {"A", "AAAA"}]
    /\ NoData \notin VIPs /\ "ordinary" \notin VIPs /\ NoData # "ordinary"
    /\ NoTTL \notin Nat
    /\ GatewayTTL \in Nat
    /\ Downstream \subseteq Replies
    /\ \A d \in Downstream : d.data \notin VIPs
    /\ \A d \in Downstream : d.ttl = NoTTL <=> d.data = NoData

(***************************************************************************)
(* internal/registry: Store.Lookup through Snapshot.Lookup.                *)
(***************************************************************************)
Lookup(snap, name) == IF snap = NotReady THEN NoZone ELSE snap[Lower[name]]

(***************************************************************************)
(* internal/identity.  The declaration is read only for an authorized      *)
(* agent; reasons other than ok leave no source zone.                      *)
(***************************************************************************)
\* The chain, <<>> when there is none to be had: over DoH from the request,
\* over DoT from the writer unless it is wrapped.
PeerCertificates(conn) ==
    IF conn.transport = "doh" \/ (conn.transport = "dot" /\ ~conn.wrapped)
    THEN conn.chain ELSE <<>>

FirstSPIFFEID(cert) ==
    IF Len(cert) > 0 /\ cert[1].scheme = "spiffe" THEN cert[1].id ELSE NoID

SPIFFEIDFromCert(cert) ==
    IF Len(cert) = 1 /\ cert[1].scheme = "spiffe" THEN cert[1].id ELSE NoID

Reason(conn, opt) ==
    LET certs == PeerCertificates(conn)
    IN  IF certs = <<>> THEN "no_tls"
        ELSE IF SPIFFEIDFromCert(certs[1]) \notin Authorized THEN "unauthorized_agent"
        ELSE IF Get(opt, Code) = NoZone THEN "no_declaration"
        ELSE "ok"

SourceZone(conn, opt) ==
    IF Reason(conn, opt) = "ok" THEN Get(opt, Code) ELSE NoZone

(***************************************************************************)
(* internal/decision and internal/zonetable.                               *)
(***************************************************************************)
HasGateway(zone) == zone \in DOMAIN Gateways

Decide(source, dest) ==
    CASE source = NoZone \/ dest = NoZone \/ source = dest -> "passthrough"
      [] source # NoZone /\ dest \notin {NoZone, source} /\ ~HasGateway(dest) -> "servfail"
      [] OTHER -> "gateway"

(***************************************************************************)
(* plugin/zonedns: answerGateway and ServeDNS.                             *)
(***************************************************************************)
answerGateway(q, gw) ==
    IF Family[gw] = q.qtype
    THEN [rcode |-> "noerror", data |-> gw, ttl |-> GatewayTTL]
    ELSE [rcode |-> "noerror", data |-> NoData, ttl |-> NoTTL]

Servfail == [rcode |-> "servfail", data |-> NoData, ttl |-> NoTTL]

ServeDNS(q, opt, conn, snap) ==
    LET dest   == Lookup(snap, q.name)
        action == Decide(SourceZone(conn, opt), dest)
    IN  IF q.qtype \notin {"A", "AAAA"}
        THEN Downstream
        ELSE CASE action = "passthrough" -> Downstream
               [] action = "servfail"    -> {Servfail}
               [] action = "gateway"     -> {answerGateway(q, Gateways[dest])}
=============================================================================
