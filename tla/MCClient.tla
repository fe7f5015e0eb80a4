------------------------------ MODULE MCClient ------------------------------
(* The UDP thread and one client with two runs over UDP: the first may enrol  *)
(* a device, the second authenticate it or enrol again.  Device 3 is enrolled *)
(* from the start.                                                            *)
EXTENDS CClient

CONSTANTS u

MCWorker == {u}
MCDev == 1..3
MCKey == 1..2
MCOpening == [t : {"SETUP_1"}, sid : 1..2, dev : 1..2, key : {NoKey}] \cup
             UNION {[t : {"AUTH_1"}, sid : {r}, dev : 1..2, key : {r}] : r \in 1..2}
MCRoute == [s \in 1..2 |-> MCWorker]
MCDisk0 == <<3>>
MCPaired == MCDev
MCPermitted == MCDev
=============================================================================
