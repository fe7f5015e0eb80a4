---------------------------- MODULE MCServerDup -----------------------------
(* Both threads can be handed the packets of any session: the same packet   *)
(* sent over UDP and over TCP.  One enrolled device, two handshakes.         *)
EXTENDS CServer

CONSTANTS u, c, d1, d2, k1, k2

MCWorker == {u, c}
MCDev == {d1, d2}
MCKey == {k1, k2}
MCDisk0 == <<d1>>

MCOpening == {[t |-> "AUTH_1", sid |-> 1, dev |-> d1, key |-> k1],
              [t |-> "AUTH_1", sid |-> 2, dev |-> d2, key |-> k2],
              [t |-> "SETUP_1", sid |-> 3, dev |-> d1, key |-> k1]}

MCRoute == [s \in {1, 2, 3} |-> MCWorker]
=============================================================================
