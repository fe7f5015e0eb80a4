----------------------------- MODULE Handshake ------------------------------
(***************************************************************************)
(* One C client that enrols and then authenticates with a C server, down   *)
(* to the proofs, keys and fields of every packet: the handlers of         *)
(* c/src/proto/proto.c.  Sessions, retries, restarts and the replay cache  *)
(* are the subject of CServer and CClient; here the packets go one by one, *)
(* and up to MaxDamage times a field of the packet in flight is altered,   *)
(* its last field lost or a field added.                                   *)
(***************************************************************************)
EXTENDS Packets

CONSTANTS
    Random,       \* the random scalar, nonce or id behind every draw, by name
    Roles,        \* role codes a device may have
    AllowedLists, \* role lists a client may be started with
    ServerRoles,  \* the server's allowed_roles
    Others,       \* registry entries of other devices
    Token,        \* the pairing token, a sequence of cells
    MaxDamage     \* bound on altered fields

VARIABLES
    client,   \* auth_client_ctx_t, the saved credentials and the step of the run
    server,   \* pending sessions by id, registry; history: sessions issued and accepted
    wire,     \* the packet in flight
    damage,   \* fields and packets altered so far
    forged,   \* history: an acknowledgement was put in the place of a packet
    weak      \* the draw that comes out as zero, or "none"

vars == <<client, server, wire, damage, forged, weak>>

DrawNames == {"root", "role_blind", "client_nonce", "r_setup", "eph_c", "nonce_c", "delta",
    "r_auth", "r_rerand", "w", "sim_c", "sim_s", "server", "server_nonce", "setup_challenge",
    "r_setup_s", "eph_s", "nonce_s", "r_auth_s"}

ASSUME HandshakeAssumption ==
    /\ Q \in Nat \ {0} /\ MaxDamage \in Nat
    /\ Random \in [DrawNames -> Int] /\ Roles \subseteq Int /\ AllowedLists \subseteq Seq(Int)
    /\ Token \in Seq(Seq(Int)) /\ \A i \in DOMAIN Token : Len(Token[i]) \in {1, 2}

Draw(k) == IF weak = k THEN 0 ELSE Random[k]
ServerSk == Random["server"]
ServerPub == auth_scalarmult_base(ServerSk)
Quiet == [to |-> "nobody", pkt |-> <<>>]
None == [err |-> "NONE"]

Init ==
    /\ \E role \in Roles, list \in AllowedLists :
          client = [stage |-> "start", err |-> "OK", sid |-> 1, seq |-> 0, role |-> role,
                    allowed |-> list, id |-> auth_derive_device_id(Random["root"]),
                    sk |-> auth_derive_device_scalar(Random["root"]), commitment |-> Bad,
                    blind |-> 0, pinned |-> Bad, st |-> None, ac |-> None, a1 |-> None,
                    key |-> 0, kc |-> None, th |-> 0]
    /\ server = [setup |-> <<>>, auth |-> <<>>, registry |-> Others, issued |-> {}, accepted |-> {}]
    /\ wire = Quiet /\ damage = 0 /\ forged = FALSE
    /\ weak \in DrawNames \cup {"none"}

DevicePub == auth_scalarmult_base(client.sk)
ClientSends(c, type, payload) ==
    /\ client' = [c EXCEPT !.stage = type, !.seq = c.seq + 1]
    /\ wire' = [to |-> "server", pkt |-> auth_packet_build(type, c.sid, c.seq + 1, payload)]
ClientEnds(stage, e) == client' = [client EXCEPT !.stage = stage, !.err = e] /\ wire' = Quiet

-----------------------------------------------------------------------------
\* Client: SETUP.
auth_client_build_setup1 ==
    LET role == IF client.role = 0 THEN 1 ELSE client.role
        com == auth_make_role_commitment(role, Draw("role_blind"))
        c == [client EXCEPT !.role = role, !.commitment = com, !.blind = Draw("role_blind"),
                            !.st = [client_nonce |-> Draw("client_nonce")]]
    IN  /\ client.stage = "start"
        /\ IF com = Bad THEN ClientEnds("failed", "INVALID_POINT")
           ELSE ClientSends(c, "SETUP_1", auth_setup1_encode([pairing_token |-> Token,
                    device_id |-> client.id, device_pub |-> DevicePub,
                    client_nonce |-> Draw("client_nonce"), role_commitment |-> com]))
        /\ UNCHANGED <<server, damage, forged, weak>>

\* What every response handler does first.
ResponseError(h, type) ==
    CASE h.err # "OK" -> h.err
      [] h.err = "OK" /\ h.pkt_type = "ERROR" -> auth_packet_parse_error(h.payload)
      [] OTHER -> IF h.pkt_type # type THEN "UNKNOWN_PKT_TYPE" ELSE "OK"

\* The verdict on SETUP_2; c.pinned is Bad on first contact, which is allowed.
SetupTwoError(h, m, st) ==
    IF ResponseError(h, "SETUP_2") # "OK" THEN ResponseError(h, "SETUP_2")
    ELSE IF h.session_id # client.sid THEN "UNKNOWN_SESSION"
    ELSE IF m.err # "OK" THEN m.err
    ELSE IF auth_check_point(m.server_pub) # "OK" THEN auth_check_point(m.server_pub)
    ELSE IF client.pinned \notin {Bad, m.server_pub} THEN "PEER_KEY_MISMATCH"
    ELSE IF ~auth_verify_setup_server(m.server_proof, st) THEN "PROOF_VERIFY" ELSE "OK"

auth_client_handle_setup2 ==
    LET h == auth_header_decode(wire.pkt)
        m == auth_setup2_decode(h.payload)
        st == [device_id |-> client.id, device_pub |-> DevicePub, server_pub |-> m.server_pub,
               client_nonce |-> client.st.client_nonce, server_nonce |-> m.server_nonce,
               setup_challenge |-> m.setup_challenge]
        p == auth_prove_setup_client(Draw("r_setup"), client.sk, st)
    IN  /\ client.stage = "SETUP_1" /\ wire.to = "client"
        /\ IF SetupTwoError(h, m, st) # "OK" THEN ClientEnds("failed", SetupTwoError(h, m, st))
           ELSE IF p.err # "OK" THEN ClientEnds("failed", p.err)
           ELSE ClientSends([client EXCEPT !.pinned = m.server_pub, !.st = st], "SETUP_3",
                            auth_setup3_encode([client_proof |-> p]))
        /\ UNCHANGED <<server, damage, forged, weak>>

\* SETUP_ACK ends the first run and saves the credentials; the second run has
\* a new session id.
auth_client_handle_setup_ack ==
    LET h == auth_header_decode(wire.pkt)
        e == ResponseError(h, "SETUP_ACK")
    IN  /\ client.stage = "SETUP_3" /\ wire.to = "client"
        /\ IF e # "OK" THEN ClientEnds("failed", e)
           ELSE IF auth_ack_decode(h.payload) # "OK" THEN ClientEnds("failed", "MALFORMED_PACKET")
           ELSE /\ client' = [client EXCEPT !.stage = "enrolled", !.sid = 2, !.seq = 0]
                /\ wire' = Quiet
        /\ UNCHANGED <<server, damage, forged, weak>>

-----------------------------------------------------------------------------
\* Client: AUTH.
auth_client_build_auth1 ==
    LET eph_c == auth_scalarmult_base(Draw("eph_c"))
        ac == [pid |-> auth_compute_pid(DevicePub, Draw("nonce_c"), eph_c, client.pinned),
               nonce_c |-> Draw("nonce_c"), eph_c |-> eph_c]
        re == auth_rerandomize_commitment(client.commitment, client.blind, Draw("delta"))
        cp == auth_prove_auth_client(Draw("r_auth"), client.sk, ac)
        rr == auth_prove_rerandomization(Draw("r_rerand"), client.commitment, re.c_prime,
                                         Draw("delta"), ac)
        w == [i \in 1..Len(client.allowed) |->
                 IF client.allowed[i] = client.role THEN <<Draw("w"), 0>>
                 ELSE <<(Draw("sim_c") * i) % Q, (Draw("sim_s") * i) % Q>>]
        rs == auth_prove_role_set_membership(w, client.allowed, re.c_prime, client.role, re.blind, ac)
        a1 == [pid |-> ac.pid, client_proof |-> cp, nonce_c |-> ac.nonce_c, eph_c |-> ac.eph_c,
               c_prime |-> re.c_prime, rerand_proof |-> rr, branches |-> rs.branches]
    IN  /\ client.stage = "enrolled"
        /\ IF Bad \in {eph_c, re.c_prime} THEN ClientEnds("failed", "INVALID_POINT")
           ELSE IF cp.err # "OK" THEN ClientEnds("failed", cp.err)
           ELSE IF rr.err # "OK" THEN ClientEnds("failed", rr.err)
           ELSE IF rs.err # "OK" THEN ClientEnds("failed", rs.err)
           ELSE ClientSends([client EXCEPT !.ac = ac, !.a1 = a1], "AUTH_1", auth_auth1_encode(a1))
        /\ UNCHANGED <<server, damage, forged, weak>>

\* The verdict on AUTH_2 before the key is derived.
AuthTwoError(h, m) ==
    IF ResponseError(h, "AUTH_2") # "OK" THEN ResponseError(h, "AUTH_2")
    ELSE IF h.session_id # client.sid THEN "UNKNOWN_SESSION"
    ELSE IF m.err # "OK" THEN m.err
    ELSE IF auth_check_point(m.server_pub) # "OK" THEN auth_check_point(m.server_pub)
    ELSE IF auth_check_point(m.eph_s) # "OK" THEN auth_check_point(m.eph_s)
    ELSE IF m.server_pub # client.pinned THEN "PEER_KEY_MISMATCH"
    ELSE IF ~auth_verify_auth_server(m.server_proof, m.server_pub, m.nonce_s, m.eph_s)
    THEN "PROOF_VERIFY" ELSE "OK"

\* Mutant: the server's tag is not compared.
TagMatchesAlways(m, kc, th) == TRUE
TagMatches(m, kc, th) == m.tag_s = auth_hmac_tag(kc.s2c, "server finished", th)

auth_client_handle_auth2 ==
    LET h == auth_header_decode(wire.pkt)
        m == auth_auth2_decode(h.payload)
        key == auth_derive_session_key(Draw("eph_c"), m.eph_s, client.ac, m.nonce_s, m.eph_s)
        th == auth_kc_transcript_hash(client.ac, client.a1.client_proof, m.server_pub,
                                      m.server_proof, m.nonce_s, m.eph_s)
        kc == auth_derive_kc_keys(key, th)
    IN  /\ client.stage = "AUTH_1" /\ wire.to = "client"
        /\ IF AuthTwoError(h, m) # "OK" THEN ClientEnds("failed", AuthTwoError(h, m))
           ELSE IF key = -1 THEN ClientEnds("failed", "INVALID_POINT")
           ELSE IF ~TagMatches(m, kc, th) THEN ClientEnds("failed", "KEY_CONFIRM")
           ELSE ClientSends([client EXCEPT !.key = key, !.kc = kc, !.th = th], "AUTH_3",
                    auth_auth3_encode([tag_c |-> auth_hmac_tag(kc.c2s, "client finished", th)]))
        /\ UNCHANGED <<server, damage, forged, weak>>

auth_client_handle_auth_ack ==
    LET h == auth_header_decode(wire.pkt)
        e == ResponseError(h, "AUTH_ACK")
    IN  /\ client.stage = "AUTH_3" /\ wire.to = "client"
        /\ IF e # "OK" THEN ClientEnds("failed", e)
           ELSE IF auth_ack_decode(h.payload) # "OK" THEN ClientEnds("failed", "MALFORMED_PACKET")
           ELSE ClientEnds("done", "OK")
        /\ UNCHANGED <<server, damage, forged, weak>>

\* send_then_recv gives up when the server sent nothing.
GiveUp ==
    /\ client.stage \in {"SETUP_1", "SETUP_3", "AUTH_1", "AUTH_3"} /\ wire = Quiet
    /\ ClientEnds("failed", "TIMEOUT")
    /\ UNCHANGED <<server, damage, forged, weak>>

-----------------------------------------------------------------------------
\* Server: the handlers, each with the branch of dispatch that calls it.  What
\* the server holds for a session is found by its id.
Store(f, k, v) == [x \in DOMAIN f \cup {k} |-> IF x = k THEN v ELSE f[x]]
Release(f, k) == [x \in DOMAIN f \ {k} |-> f[x]]
auth_registry_put(reg, e) ==
    IF \E i \in DOMAIN reg : reg[i].id = e.id
    THEN [reg EXCEPT ![CHOOSE i \in DOMAIN reg : reg[i].id = e.id] = e] ELSE Append(reg, e)

Request == auth_header_decode(wire.pkt)
Arrives(type) == wire.to = "server" /\ Request.err = "OK" /\ Request.pkt_type = type
Answers(type, payload) ==
    wire' = [to |-> "client", pkt |-> auth_packet_build(type, Request.session_id, Request.seq, payload)]
Refuses(e) ==
    wire' = [to |-> "client", pkt |-> auth_packet_build_error(Request.session_id, Request.seq, e)]

SetupOneError(m) ==
    IF m.err # "OK" THEN m.err
    ELSE IF m.pairing_token # Token THEN "PAIRING_TOKEN_BAD"
    ELSE IF auth_check_point(m.device_pub) # "OK" THEN auth_check_point(m.device_pub)
    ELSE IF auth_check_point(m.role_commitment) = "INVALID_POINT" THEN "INVALID_POINT" ELSE "OK"
auth_server_handle_setup1 ==
    LET m == auth_setup1_decode(Request.payload)
        st == [device_id |-> m.device_id, device_pub |-> m.device_pub, server_pub |-> ServerPub,
               client_nonce |-> m.client_nonce, server_nonce |-> Draw("server_nonce"),
               setup_challenge |-> Draw("setup_challenge")]
        p == auth_prove_setup_server(Draw("r_setup_s"), ServerSk, st)
    IN  /\ Arrives("SETUP_1")
        /\ IF SetupOneError(m) # "OK" THEN Refuses(SetupOneError(m)) /\ UNCHANGED server
           ELSE IF p.err # "OK" THEN Refuses(p.err) /\ UNCHANGED server
           ELSE /\ server' = [server EXCEPT !.setup = Store(@, Request.session_id,
                                  [st |-> st, role_commitment |-> m.role_commitment])]
                /\ Answers("SETUP_2", auth_setup2_encode([server_nonce |-> st.server_nonce,
                       setup_challenge |-> st.setup_challenge, server_pub |-> ServerPub,
                       server_proof |-> p]))
        /\ UNCHANGED <<client, damage, forged, weak>>

\* A proof that fails leaves the session where it is.
auth_server_handle_setup3 ==
    LET m == auth_setup3_decode(Request.payload)
        sid == Request.session_id
        pending == server.setup[sid]
    IN  /\ Arrives("SETUP_3")
        /\ IF sid \notin DOMAIN server.setup THEN Refuses("UNKNOWN_SESSION") /\ UNCHANGED server
           ELSE IF m.err # "OK" THEN Refuses(m.err) /\ UNCHANGED server
           ELSE IF ~auth_verify_setup_client(m.client_proof, pending.st)
           THEN Refuses("PROOF_VERIFY") /\ UNCHANGED server
           ELSE /\ server' = [server EXCEPT !.setup = Release(@, sid),
                       !.registry = auth_registry_put(@, [id |-> pending.st.device_id,
                            pub |-> pending.st.device_pub, commitment |-> pending.role_commitment])]
                /\ Answers("SETUP_ACK", auth_ack_encode)
        /\ UNCHANGED <<client, damage, forged, weak>>

\* Mutant: the proof that c_prime rerandomizes the stored commitment is not verified.
CandidateErrorNoRerand(m, e) ==
    IF auth_check_point(m.eph_c) # "OK" THEN auth_check_point(m.eph_c)
    ELSE IF auth_check_point(m.c_prime) = "INVALID_POINT" THEN "INVALID_POINT"
    ELSE IF \/ ~auth_verify_auth_client(m.client_proof, e.pub, m)
            \/ m.pid # auth_compute_pid(e.pub, m.nonce_c, m.eph_c, ServerPub)
         THEN "PROOF_VERIFY"
    ELSE IF ~auth_verify_role_set_membership(m.branches, ServerRoles, m.c_prime, m)
         THEN "ROLE_NOT_PERMITTED" ELSE "OK"
\* The verdict on AUTH_1 against one registry entry.
CandidateError(m, e) ==
    IF auth_check_point(m.eph_c) # "OK" THEN auth_check_point(m.eph_c)
    ELSE IF auth_check_point(m.c_prime) = "INVALID_POINT" THEN "INVALID_POINT"
    ELSE IF \/ ~auth_verify_auth_client(m.client_proof, e.pub, m)
            \/ m.pid # auth_compute_pid(e.pub, m.nonce_c, m.eph_c, ServerPub)
            \/ ~auth_verify_rerandomization(m.rerand_proof, e.commitment, m.c_prime, m)
         THEN "PROOF_VERIFY"
    ELSE IF ~auth_verify_role_set_membership(m.branches, ServerRoles, m.c_prime, m)
         THEN "ROLE_NOT_PERMITTED" ELSE "OK"

\* try_handle_auth1 stops at the first entry that is not a mismatch; otherwise
\* the last mismatch is the answer.
try_handle_auth1(m) ==
    LET reg == server.registry
        err == [i \in DOMAIN reg |-> CandidateError(m, reg[i])]
        stops == {i \in DOMAIN reg : err[i] \notin {"PROOF_VERIFY", "ROLE_NOT_PERMITTED"}}
    IN  IF m.err # "OK" THEN [err |-> IF reg = <<>> THEN "UNKNOWN_DEVICE" ELSE m.err]
        ELSE IF stops # {} THEN [err |-> err[Min(stops)], entry |-> reg[Min(stops)]]
        ELSE [err |-> IF reg = <<>> THEN "UNKNOWN_DEVICE" ELSE err[Len(reg)]]

auth_server_handle_auth1 ==
    LET m == auth_auth1_decode(Request.payload)
        r == try_handle_auth1(m)
        eph_s == auth_scalarmult_base(Draw("eph_s"))
        nonce_s == Draw("nonce_s")
        p == auth_prove_auth_server(Draw("r_auth_s"), ServerSk, nonce_s, eph_s)
        key == auth_derive_session_key(Draw("eph_s"), m.eph_c, m, nonce_s, eph_s)
        th == auth_kc_transcript_hash(m, m.client_proof, ServerPub, p, nonce_s, eph_s)
        kc == auth_derive_kc_keys(key, th)
        s == [sid |-> Request.session_id, device |-> r.entry, a1 |-> m, key |-> key, kc |-> kc,
              th |-> th]
    IN  /\ Arrives("AUTH_1")
        /\ IF r.err # "OK" THEN Refuses(r.err) /\ UNCHANGED server
           ELSE IF eph_s = Bad \/ p.err # "OK" \/ key = -1
           THEN Refuses("INVALID_POINT") /\ UNCHANGED server
           ELSE /\ server' = [server EXCEPT !.auth = Store(@, s.sid, s), !.issued = @ \cup {s}]
                /\ Answers("AUTH_2", auth_auth2_encode([server_pub |-> ServerPub,
                       server_proof |-> p, nonce_s |-> nonce_s, eph_s |-> eph_s,
                       tag_s |-> auth_hmac_tag(kc.s2c, "server finished", th)]))
        /\ UNCHANGED <<client, damage, forged, weak>>

\* Whatever the verdict, the session is released.
auth_server_handle_auth3 ==
    LET m == auth_auth3_decode(Request.payload)
        sid == Request.session_id
        s == server.auth[sid]
        e == IF m.err # "OK" THEN m.err
             ELSE IF m.tag_c # auth_hmac_tag(s.kc.c2s, "client finished", s.th)
             THEN "KEY_CONFIRM" ELSE "OK"
    IN  /\ Arrives("AUTH_3")
        /\ IF sid \notin DOMAIN server.auth THEN Refuses("UNKNOWN_SESSION") /\ UNCHANGED server
           ELSE /\ server' = [server EXCEPT !.auth = Release(@, sid),
                                 !.accepted = IF e = "OK" THEN @ \cup {s} ELSE @]
                /\ IF e = "OK" THEN Answers("AUTH_ACK", auth_ack_encode) ELSE Refuses(e)
        /\ UNCHANGED <<client, damage, forged, weak>>

\* A header that does not decode gets no answer, another type an error.
ServerDiscards ==
    /\ wire.to = "server"
    /\ \/ Request.err # "OK" /\ wire' = Quiet
       \/ /\ Request.err = "OK"
          /\ Request.pkt_type \notin {"SETUP_1", "SETUP_3", "AUTH_1", "AUTH_3"}
          /\ Refuses("UNKNOWN_PKT_TYPE")
    /\ UNCHANGED <<client, server, damage, forged, weak>>

-----------------------------------------------------------------------------
\* The wrong values cell i of a packet may arrive with: for a scalar also the
\* encoding that is not reduced, for an error another code.  (The type of an
\* ERROR stays: with any other the client fails before it reads the payload.)
Altered(pkt, i) ==
    LET cell == pkt[i]
        error == pkt[2] = <<"ERROR">>
    IN  CASE i = 1 -> {<<VERSION - 1>>, <<VERSION + 1>>}
          [] i = 2 -> IF error THEN {} ELSE {<<t>> : t \in {"HELLO", "AUTH_1"}}
          [] i = 3 -> {<<1>>}
          [] i \in {4, 5} -> {<<cell[1] + 1>>}
          [] OTHER -> IF error THEN {<<"UNSPECIFIED">>, <<"KEY_CONFIRM">>}
                      ELSE IF Len(cell) = 2 THEN {Identity, Bad, G}
                      ELSE {<<0>>, <<cell[1] + 1>>, <<cell[1] + Q>>}
Trailing(pkt) == IF pkt[2] = <<"ERROR">> THEN <<"UNSPECIFIED">> ELSE <<0>>
Damage ==
    /\ weak = "none" /\ damage < MaxDamage /\ Len(wire.pkt) >= HEADER_LEN
    /\ damage' = damage + 1
    /\ \E p \in (UNION {{[wire.pkt EXCEPT ![i] = c] : c \in Altered(wire.pkt, i)} :
                           i \in DOMAIN wire.pkt})
                \cup {SubSeq(wire.pkt, 1, n) : n \in 0..(Len(wire.pkt) - 1)}
                \cup {Append(wire.pkt, Trailing(wire.pkt))} :
          p # wire.pkt /\ wire' = [wire EXCEPT !.pkt = p]
    /\ UNCHANGED <<client, server, forged, weak>>

\* An acknowledgement arrives in the place of the server's packet.  Nothing in
\* it is authenticated, and its handlers look at the type and one byte only.
ForgeAck(type) ==
    LET p == auth_packet_build(type, client.sid, client.seq, auth_ack_encode)
    IN  /\ weak = "none" /\ damage < MaxDamage /\ wire.to = "client" /\ wire.pkt # p
        /\ damage' = damage + 1 /\ forged' = TRUE
        /\ wire' = [wire EXCEPT !.pkt = p]
        /\ UNCHANGED <<client, server, weak>>

ClientStep ==
    \/ auth_client_build_setup1 \/ auth_client_handle_setup2 \/ auth_client_handle_setup_ack
    \/ auth_client_build_auth1 \/ auth_client_handle_auth2 \/ auth_client_handle_auth_ack
    \/ GiveUp
ServerStep ==
    \/ auth_server_handle_setup1 \/ auth_server_handle_setup3
    \/ auth_server_handle_auth1 \/ auth_server_handle_auth3 \/ ServerDiscards
Next == ClientStep \/ ServerStep \/ Damage \/ \E t \in {"SETUP_ACK", "AUTH_ACK"} : ForgeAck(t)
Spec == Init /\ [][Next]_vars

-----------------------------------------------------------------------------
\* Whatever the draws, an undamaged run of a client whose list is the server's
\* and holds its role ends with both sides done: every proof the library makes
\* it also verifies.  It fails only for a draw that is zero, or a list with
\* role 0 (libsodium refuses the identity), and with ROLE_NOT_PERMITTED exactly
\* when the role is not in the list or the two lists differ.
HonestRunsVerify ==
    damage = 0 =>
        LET ok == client.allowed = ServerRoles /\ client.role \in {ServerRoles[i] : i \in DOMAIN ServerRoles}
        IN  /\ client.stage = "failed" =>
                  \/ client.err = "INVALID_POINT"
                        /\ (weak # "none" \/ \E i \in DOMAIN client.allowed : client.allowed[i] = 0)
                  \/ client.err = "ROLE_NOT_PERMITTED" /\ ~ok
            /\ client.stage = "done" => ok /\ \E s \in server.accepted : s.key = client.key

\* Key confirmation covers the context of AUTH_1 and the client's proof: a
\* session is accepted only with the pid, nonce, ephemeral key and proof that
\* the client sent, its response in the encoding it was sent in.
ConfirmedAsSent ==
    \A s \in server.accepted :
        /\ s.a1.client_proof.a = client.a1.client_proof.a
        /\ s.a1.client_proof.s = client.a1.client_proof.s
        /\ s.a1.pid = client.a1.pid /\ s.a1.nonce_c = client.a1.nonce_c
        /\ s.a1.eph_c = client.a1.eph_c

\* The role proofs of an accepted AUTH_1 are those the client made, though
\* their scalars may be encoded unreduced.  It is the enrolled device's, and its
\* role and list are the server's.  The identity in the registry is the one the
\* client enrolled with (its role commitment is not covered by the SETUP proofs).
AcceptedAsSent ==
    /\ \A s \in server.accepted :
          /\ s.a1.c_prime = client.a1.c_prime
          /\ s.a1.rerand_proof.a = client.a1.rerand_proof.a
          /\ s.a1.rerand_proof.s % Q = client.a1.rerand_proof.s
          /\ [i \in DOMAIN s.a1.branches |-> [s.a1.branches[i] EXCEPT !.c = @ % Q, !.s = @ % Q]]
                = client.a1.branches
          /\ s.device = [id |-> client.id, pub |-> DevicePub, commitment |-> client.commitment]
          /\ client.allowed = ServerRoles
    /\ \A i \in DOMAIN server.registry :
          \/ server.registry[i].id = client.id /\ server.registry[i].pub = DevicePub
          \/ \E j \in DOMAIN Others : server.registry[i] = Others[j]

\* A client that has accepted AUTH_2 holds the session key and the confirmation
\* keys of a session the server issued for its AUTH_1, whatever was altered or
\* forged.  One that is done was accepted, unless an acknowledgement was forged:
\* auth_client_handle_auth_ack (proto.c:342) authenticates nothing, so to be done
\* says no more than that an acknowledgement arrived.
KeysAgree ==
    /\ client.stage \in {"AUTH_3", "done"} =>
          \E s \in server.issued : /\ s.key = client.key /\ s.kc = client.kc /\ s.th = client.th
                                   /\ s.a1.pid = client.a1.pid
    /\ client.stage = "done" => forged \/ \E s \in server.accepted : s.key = client.key
=============================================================================
