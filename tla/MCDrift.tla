------------------------------- MODULE MCDrift -------------------------------
(* A cluster of two VirtualServices and two pods, for TLC. *)
EXTENDS Drift, TLC

VS(gateways, hosts) == [gateways |-> gateways, hosts |-> hosts]

MCVirtualServices ==
    {VS({}, {"a.com"}), VS({"mesh", "ingress"}, {"b.com", "*.a.com"}), VS({"ingress"}, {"b.com"}),
     VS({"mesh"}, {"a", "a.cluster.local"}), VS(Malformed, {"a.com"}), VS({"ingress"}, Malformed)}

Interchangeable == Permutations(Objects)
=============================================================================
