--------------------------- MODULE MCDistCollective ---------------------------
(* DistCollective on small instances.                                      *)
EXTENDS DistCollective

CONSTANTS p0, p1, p2

MCTwo    == {p1, p2}
MCLimits == {0, 1}
=============================================================================
