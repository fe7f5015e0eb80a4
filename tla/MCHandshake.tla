----------------------------- MODULE MCHandshake ------------------------------
(* The instance of Handshake for TLC.  Q is a prime whose square stays       *)
(* within 31 bits.                                                           *)
EXTENDS Handshake, PolyHash

Draws == <<"root", "role_blind", "client_nonce", "r_setup", "eph_c", "nonce_c", "delta", "r_auth",
    "r_rerand", "w", "sim_c", "sim_s", "server", "server_nonce", "setup_challenge", "r_setup_s",
    "eph_s", "nonce_s", "r_auth_s">>
MCRandom == [k \in {Draws[i] : i \in DOMAIN Draws} |->
                LET i == CHOOSE j \in DOMAIN Draws : Draws[j] = k IN 1009 * i + 7 * i * i + 3]
MCRoles == {0, 2, 3}
MCAllowedLists == {<<1, 2>>, <<2, 1>>, <<2>>, <<0, 1>>}
MCServerRoles == <<1, 2>>
MCOthers == << [id |-> 5, pub |-> <<77, 0>>, commitment |-> <<2, 991>>] >>
MCToken == << <<7>>, <<9>> >>
===============================================================================
