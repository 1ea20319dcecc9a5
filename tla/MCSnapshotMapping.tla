------------------------- MODULE MCSnapshotMapping -------------------------
(* Clients as model values, and minors as small numbers.                  *)
EXTENDS SnapshotMapping

CONSTANTS c1, c2

MCMinors == 0..3
=============================================================================
