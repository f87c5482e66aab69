--------------------------- MODULE MCFtdiContext ----------------------------
(***************************************************************************)
(* Three devices of two products, between which the configuration chooses: *)
(* the second of a product that has only one, then the second of the other.*)
(***************************************************************************)
EXTENDS FtdiContext

ThreeDevices == <<"d1", "d2", "d3">>
TwoProducts == [d1 |-> "p", d2 |-> "q", d3 |-> "p"]
TwoEntries == <<[product |-> "q", index |-> 1], [product |-> "p", index |-> 1]>>
PortA == [w \in Wrappers |-> 0]
=============================================================================
