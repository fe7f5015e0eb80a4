------------------------------ MODULE MCServer ------------------------------
(* The UDP thread u and one TCP thread c.  d1 is enrolled and may enrol      *)
(* again, d2 and d4 enrol during the run and compete for the last registry   *)
(* entry, d3 is enrolled with a role the server does not permit and has no   *)
(* pairing token.  Key k1 travels under two outer session ids.               *)
EXTENDS CServer, TLC

CONSTANTS u, c, d1, d2, d3, d4, k1, k2, k3

MCWorker == {u, c}
MCDev == {d1, d2, d3, d4}
MCPaired == {d1, d2, d4}
MCPermitted == {d1, d2, d4}
MCKey == {k1, k2, k3}
MCDisk0 == <<d3, d1>>

Open(t, s, d) == [t |-> t, sid |-> s, dev |-> d, key |-> NoKey]
Auth(s, d, k) == [t |-> "AUTH_1", sid |-> s, dev |-> d, key |-> k]

MCOpening == {Open("SETUP_1", 1, d2), Open("SETUP_1", 7, d4), Open("SETUP_1", 2, d3),
              Open("SETUP_1", 8, d1), Open("OTHER", 2, NoDev),
              Auth(3, d1, k1), Auth(4, d1, k1), Auth(5, d2, k2), Auth(6, d3, k3),
              Auth(6, NoDev, k3)}

MCRoute == [s \in {1, 2, 3, 6} |-> {u}] @@ [s \in {4, 5, 7, 8} |-> {c}]
=============================================================================
