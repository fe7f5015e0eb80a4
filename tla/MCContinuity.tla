---------------------------- MODULE MCContinuity ----------------------------
(* Four keys against a window of two, so that keys leave the window and      *)
(* come back, and three restarts.                                            *)
EXTENDS ReplayContinuity

CONSTANTS k1, k2, k3, k4

MCKey == {k1, k2, k3, k4}
=============================================================================
