------------------------------ MODULE Registry ------------------------------
(***************************************************************************)
(* Building a registry snapshot from SPIRE registration entries            *)
(* (internal/registry/registry.go with internal/spiffezone).               *)
(*                                                                         *)
(* An entry is [path, names]: the SPIFFE ID's path as its sequence of      *)
(* segments (NoId when the reply carries no SPIFFE ID) and the DNS names   *)
(* as SPIRE spells them.  A snapshot maps every normalised name to its     *)
(* zone, or to NoZone when it is not resolvable.                           *)
(***************************************************************************)
EXTENDS Naturals, Sequences, FiniteSets, Loops

CONSTANTS
    Zones,       \* zone names ednszone.Valid accepts
    NoZone,
    NoId,
    Spellings,   \* DNS names as entries spell them
    Names,       \* normalised names, of bounded length, the empty one excluded
    normalize,   \* [Spellings -> Names \cup {Empty}]
    Entries      \* the entries that can be registered

\* The empty string.
Empty == ""

ASSUME RegistryConstants ==
    /\ NoZone \notin Zones
    /\ Empty \notin Names /\ IsFiniteSet(Names)
    /\ normalize \in [Spellings -> Names \cup {Empty}]
    /\ \A e \in Entries : e.names \in Seq(Spellings)

\* The second segment of a path that starts with "zone".
FromPath(path) ==
    IF Len(path) >= 2 /\ path[1] = "zone" /\ path[2] # Empty THEN path[2] ELSE NoZone

ZoneOf(e) == IF FromPath(e.path) \in Zones THEN FromPath(e.path) ELSE NoZone

DeclareFirstWins(acc, name, zone) ==
    IF name = Empty \/ acc.zoneOf[name] # NoZone THEN acc
    ELSE [acc EXCEPT !.zoneOf[name] = zone]

DeclareDropsAtOnce(acc, name, zone) ==
    IF name = Empty THEN acc
    ELSE [acc EXCEPT !.zoneOf[name] = IF @ \in {NoZone, zone} THEN zone ELSE NoZone]

\* One DNS name of one entry; the first zone stays until the conflicts go.
DeclareName(acc, name, zone) ==
    IF name = Empty THEN acc
    ELSE IF acc.zoneOf[name] \notin {NoZone, zone}
    THEN [acc EXCEPT !.conflicting = @ \cup {name}]
    ELSE [acc EXCEPT !.zoneOf[name] = zone]

AddEntry(acc, e) ==
    IF ZoneOf(e) = NoZone
    THEN [acc EXCEPT !.skipped = @ + 1]
    ELSE Loop(LAMBDA a, raw : DeclareName(a, normalize[raw], ZoneOf(e)), acc, e.names)

\* BuildSnapshot's loop over the entries.
Declarations(entries) ==
    Loop(AddEntry,
         [zoneOf |-> [n \in Names |-> NoZone], conflicting |-> {}, skipped |-> 0], entries)

\* What it returns after the loop acc: zoneOf, and the Stats (how many names
\* resolve, conflict, and how many entries were skipped).
BuildSnapshot(acc) ==
    LET zoneOf == [n \in Names |-> IF n \in acc.conflicting THEN NoZone ELSE acc.zoneOf[n]]
    IN  [zoneOf    |-> zoneOf,
         Names     |-> Cardinality({n \in Names : zoneOf[n] # NoZone}),
         Conflicts |-> Cardinality(acc.conflicting),
         Skipped   |-> acc.skipped]

-----------------------------------------------------------------------------
(***************************************************************************)
(* What a set of entries says, independently of any order.                 *)
(***************************************************************************)
Declaring(E, n) ==
    {e \in E : e.path # NoId /\ \E k \in DOMAIN e.names : normalize[e.names[k]] = n}

DeclaredZones(E, n) == {ZoneOf(e) : e \in Declaring(E, n)} \ {NoZone}
=============================================================================
