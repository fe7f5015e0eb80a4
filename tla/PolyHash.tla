------------------------------ MODULE PolyHash -------------------------------
(* The hash of the instances that TLC checks: a polynomial over the hashed   *)
(* integers modulo a prime.  It is deterministic, and different inputs give  *)
(* different values where the instances hash them; HashMod differs from the  *)
(* group order, so that a scalar and its unreduced encoding hash             *)
(* differently, and products stay within 31 bits.                            *)
EXTENDS Integers, Sequences

HashBase == 4099
HashMod == 46337
Polynomial(t) ==
    LET h[i \in 0..Len(t)] == IF i = 0 THEN 1 ELSE (h[i - 1] * HashBase + t[i] + 2) % HashMod
    IN  h[Len(t)]
===============================================================================
