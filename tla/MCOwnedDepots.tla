---------------------------- MODULE MCOwnedDepots ----------------------------
(* Small instances of OwnedDepots.                                          *)
EXTENDS OwnedDepots

CONSTANTS p1, p2, d1, d2, d3, t1, t2

\* Two packages that share a depot.
Overlapping == [p \in Packages |-> IF p = p1 THEN {d1, d2} ELSE {d2, d3}]
=============================================================================
