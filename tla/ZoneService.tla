----------------------------- MODULE ZoneService -----------------------------
(***************************************************************************)
(* What the agent, its cache and central promise together, without a cache *)
(* or a message in sight.                                                  *)
(*                                                                         *)
(* Central decides answers: for a name, a query type and the zone of the   *)
(* asker, from the registry as it stands.  Decisions are held for a while  *)
(* and may be forgotten at any time.  A query is answered with a decision  *)
(* made for exactly what it asks and for its own zone, or it fails.  The   *)
(* decision is younger than maxTTL; and if it was made before the query    *)
(* came, the answer's TTL does not carry it past that age.                 *)
(***************************************************************************)
EXTENDS Naturals

CONSTANTS
    Queries,                 \* those who ask, one question at a time
    Names, Qtypes, Zones,
    NoZone,
    Registries,              \* what the registry may be, before it is loaded too
    Permitted(_, _, _, _),   \* the data an asker may be given: name, qtype,
                             \* zone, registry
    NoTTL,                   \* the TTL of an answer without data
    MaxAge,                  \* maxTTL, in ticks
    TicksPerSecond,
    None

VARIABLES
    clock,
    registry,
    trusted,    \* central believes the zones this agent declares
    held,       \* decisions that can still be given out
    pending,    \* what each query asks: [name, qtype, zone, since], or None
    given       \* what it was given: a reply, a refusal, or None

vars == <<clock, registry, trusted, held, pending, given>>

Init ==
    /\ clock = 0
    /\ registry \in Registries
    /\ trusted \in BOOLEAN
    /\ held = {}
    /\ pending = [c \in Queries |-> None]
    /\ given = [c \in Queries |-> None]

Tick ==
    /\ clock' = clock + 1
    /\ UNCHANGED <<registry, trusted, held, pending, given>>

Replace ==
    /\ registry' \in Registries \ {registry}
    /\ UNCHANGED <<clock, trusted, held, pending, given>>

Ask(c) ==
    /\ pending[c] = None
    /\ \E n \in Names, qt \in Qtypes, z \in Zones \cup {NoZone} :
          pending' = [pending EXCEPT ![c] = [name |-> n, qtype |-> qt, zone |-> z, since |-> clock]]
    /\ given' = [given EXCEPT ![c] = None]
    /\ UNCHANGED <<clock, registry, trusted, held>>

\* Central decides for the asker's zone; mixed-up replies make it decide a
\* question that nobody of that zone asked, which does no harm.
Decides(c, d) ==
    /\ d.zone = pending[c].zone
    /\ d.data \in Permitted(d.name, d.qtype, IF trusted THEN d.zone ELSE NoZone, registry)
    /\ d.at = clock

Decide(c) ==
    /\ pending[c] # None
    /\ UNCHANGED <<clock, registry, trusted, pending, given>>
    /\ \E d \in held' : Decides(c, d) /\ held' = held \cup {d}

\* Reply r gives the decision d to query p.
Gives(p, d, r) ==
    /\ r.answered
    /\ d.name = p.name /\ d.qtype = p.qtype /\ d.zone = p.zone
    /\ r.rcode = d.rcode /\ r.data = d.data
    /\ d.at + MaxAge > p.since
    /\ \/ d.at >= p.since /\ r.ttl = d.ttl
       \/ r.ttl # NoTTL /\ p.since + r.ttl * TicksPerSecond <= d.at + MaxAge

End(c) ==
    /\ pending[c] # None
    /\ pending' = [pending EXCEPT ![c] = None]
    /\ held' \subseteq held
    /\ UNCHANGED <<clock, registry, trusted>>

Answer(c) ==
    /\ End(c)
    /\ \E d \in held : Gives(pending[c], d, given'[c])
    /\ given' = [given EXCEPT ![c] = given'[c]]

Fail(c) ==
    /\ End(c)
    /\ given' = [given EXCEPT ![c] = [answered |-> FALSE]]

Next ==
    \/ Tick \/ Replace
    \/ \E c \in Queries : Ask(c) \/ Decide(c) \/ Answer(c) \/ Fail(c)

Spec == Init /\ [][Next]_vars
=============================================================================
