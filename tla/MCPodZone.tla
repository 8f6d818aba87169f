------------------------------ MODULE MCPodZone ------------------------------
(* Small instances of PodZone for TLC. *)
EXTENDS PodZone, TLC

CONSTANTS p1, p2, i1, node, za, zb, dotted

Symmetric == Permutations(Zones) \cup Permutations(Pods)
=============================================================================
