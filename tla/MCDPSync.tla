------------------------------ MODULE MCDPSync -------------------------------
(* DPSync on a few ranks.                                                  *)
EXTENDS DPSync, TLC

CONSTANTS d1, d2, d3

MCTwo   == {d1, d2}
MCThree == {d1, d2, d3}
MCCosts == {0, 1, 2}
=============================================================================
