------------------------------ MODULE MCPoller ------------------------------
(* Small instances of Poller for TLC. *)
EXTENDS Poller

CONSTANTS za, zb, n1, n2

\* The empty name, and two spellings of n1.
MCnormalize == [s \in Spellings |-> CASE s = "" -> "" [] s = "n2" -> n2 [] OTHER -> n1]

Entry(zone, names) == [path |-> <<"zone", zone, "sa">>, names |-> names]

\* n1 in either zone, beside other names and twice over; an entry whose zone
\* is malformed and one without a SPIFFE ID.
MCEntries ==
    {Entry(za, <<"n1", "", "n2">>), Entry(zb, <<"N1.", "n1">>), Entry("z.b", <<"n2">>),
     [path |-> NoId, names |-> <<"n2">>]}
=============================================================================
