------------------------------ MODULE MCReplay ------------------------------
(* Five keys against a window of three: the ring wraps, and an evicted key  *)
(* can come back.                                                           *)
EXTENDS ReplayLanes

CONSTANTS k1, k2, k3, k4, k5

MCKey == {k1, k2, k3, k4, k5}
=============================================================================
