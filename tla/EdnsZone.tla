------------------------------ MODULE EdnsZone ------------------------------
(***************************************************************************)
(* The zone declaration an agent attaches to a query and central reads     *)
(* back (internal/ednszone, and stripZoneOption of the agent).             *)
(*                                                                         *)
(* Of a DNS message only its OPT record matters here, and of that only the *)
(* option data, grouped by option code: opt[c] is the sequence of values   *)
(* the message carries under code c.  A message without an OPT record is   *)
(* NoOpt.  A zone string is a member of Zones (the strings Valid accepts)  *)
(* or of BadZones (empty, longer than 63 bytes, or a foreign character).   *)
(***************************************************************************)
EXTENDS Naturals, Sequences

CONSTANTS
    Zones,      \* well-formed zone names
    BadZones,   \* strings Valid rejects
    NoZone,     \* "no zone": the ok = false results of the code
    Codes,      \* EDNS0 option codes a message may carry
    NoOpt       \* IsEdns0() = nil

ASSUME ZoneNames ==
    /\ NoZone \notin Zones
    /\ Zones \cap BadZones = {}

EmptyOpt == [c \in Codes |-> <<>>]

Opts == {NoOpt} \cup [Codes -> Seq(Zones \cup BadZones)]

ASSUME NoOptIsNoRecord == NoOpt \notin [Codes -> Seq(Zones \cup BadZones)]

Valid(zone) == zone \in Zones

\* A same-code option already present is replaced, never joined.
Set(opt, code, zone) ==
    [(IF opt = NoOpt THEN EmptyOpt ELSE opt) EXCEPT ![code] = <<zone>>]

\* None, several or a malformed declaration all read as no declaration.
Get(opt, code) ==
    IF opt # NoOpt /\ Len(opt[code]) = 1 /\ Valid(opt[code][1])
    THEN opt[code][1]
    ELSE NoZone

stripZoneOption(opt, code) ==
    IF opt = NoOpt THEN NoOpt ELSE [opt EXCEPT ![code] = <<>>]
=============================================================================
