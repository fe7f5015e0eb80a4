------------------------------- MODULE MCRust -------------------------------
(* s1 enrols d1, u1 tries to enrol d2 without the pairing token, a1 and a2   *)
(* authenticate d1 and d2.  The configurations choose among these runs.      *)
(* With one retry a request is sent for one tick; the TTL must cover that    *)
(* and the delay of a datagram, as it does in the build: 12 s of sending and *)
(* 15 s of TTL leave a slack of 3 s.                                         *)
EXTENDS RustSystem

CONSTANTS s1, u1, a1, a2, d1, d2

MCKind == [f \in Flow |-> IF f \in {s1, u1} THEN "SETUP" ELSE "AUTH"]
MCDevOf == [f \in Flow |-> IF f \in {s1, a1} THEN d1 ELSE d2]
MCPaired == Flow \ {u1}

\* SendSpan from its defining equations.
MCSendSpan[a \in 0..MaxRetries] == IF a = 0 THEN 0 ELSE MCSendSpan[a-1] + Timeout(a-1)

ASSUME SlackAssumption == Slack
=============================================================================
