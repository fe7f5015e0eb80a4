------------------------------ MODULE Packets -------------------------------
(***************************************************************************)
(* The packets of the C library: c/src/wire/wire.c and payloads.c.  A      *)
(* packet is a sequence of cells, one for every header field, nonce,       *)
(* scalar, point, tag or count: a header is HEADER_LEN cells, and a buffer *)
(* that ends within a field is one that lacks the whole field.  A cell is  *)
(* a tuple, <<x, y>> for a point of Sigma and <<v>> for anything else.     *)
(***************************************************************************)
EXTENDS Sigma

CONSTANT MAX_TOKEN  \* AUTH_MAX_PAIRING_TOKEN

HEADER_LEN == 5
VERSION == 2        \* AUTH_PROTOCOL_VERSION and AUTH_MIN_SUPPORTED_VERSION

PktType == {"HELLO", "HELLO_REPLY", "SETUP_1", "SETUP_2", "SETUP_3", "SETUP_ACK",
            "AUTH_1", "AUTH_2", "AUTH_3", "AUTH_ACK", "ERROR"}

\* The codes an ERROR packet may carry; any other is read as UNSPECIFIED.
WireCode == {"UNSUPPORTED_VERSION", "UNSUPPORTED_SUITE", "CAP_MISMATCH", "MALFORMED_PACKET",
    "UNKNOWN_PKT_TYPE", "PAYLOAD_TOO_LARGE", "PAYLOAD_TOO_SHORT", "INVALID_ENCODING",
    "INVALID_POINT", "NONCANONICAL_SCALAR", "IDENTITY_POINT", "PROOF_VERIFY", "KEY_CONFIRM",
    "PEER_KEY_MISMATCH", "UNKNOWN_SESSION", "SESSION_EXPIRED", "REPLAY_DETECTED",
    "SEQ_OUT_OF_ORDER", "UNKNOWN_DEVICE", "DEVICE_NOT_ENROLLED", "ROLE_NOT_PERMITTED",
    "PAIRING_TOKEN_BAD", "RATE_LIMITED", "SERVER_BUSY", "TOO_MANY_ACTIVE", "STORAGE_FAILURE",
    "CREDENTIAL_MISSING", "REGISTRY_CORRUPT", "UNSPECIFIED"}
normalize_wire_error_code(c) == IF c \in WireCode THEN c ELSE "UNSPECIFIED"

auth_header_encode(h) == << <<h.version>>, <<h.pkt_type>>, <<h.flags>>, <<h.session_id>>, <<h.seq>> >>
auth_header_decode(buf) ==
    CASE Len(buf) < HEADER_LEN -> [err |-> "PAYLOAD_TOO_SHORT"]
      [] Len(buf) >= HEADER_LEN /\ buf[1][1] < VERSION -> [err |-> "UNSUPPORTED_VERSION"]
      [] OTHER -> [err |-> "OK", pkt_type |-> buf[2][1], session_id |-> buf[4][1],
                   seq |-> buf[5][1], payload |-> SubSeq(buf, HEADER_LEN + 1, Len(buf))]
auth_packet_build(type, sid, seq, payload) ==
    auth_header_encode([version |-> VERSION, pkt_type |-> type, flags |-> 0,
                        session_id |-> sid, seq |-> seq]) \o payload
auth_packet_build_error(sid, seq, code) == auth_packet_build("ERROR", sid, seq, << <<code>> >>)
\* A payload without a code leaves the caller's UNSPECIFIED.
auth_packet_parse_error(buf) ==
    IF buf = <<>> THEN "UNSPECIFIED" ELSE normalize_wire_error_code(buf[1][1])

-----------------------------------------------------------------------------
\* take_fixed for n fields and then reject_trailing.
TakeFixed(buf, n) ==
    IF Len(buf) < n THEN "PAYLOAD_TOO_SHORT" ELSE IF Len(buf) > n THEN "MALFORMED_PACKET" ELSE "OK"

\* Bytes of another field where a point is expected are no encoding of a point.
AsPoint(cell) == IF Len(cell) = 2 THEN cell ELSE Bad

auth_setup1_encode(m) ==
    << <<Len(m.pairing_token)>> >> \o m.pairing_token \o
    << <<m.device_id>>, m.device_pub, <<m.client_nonce>>, m.role_commitment>>
auth_setup1_decode(buf) ==
    IF buf = <<>> THEN [err |-> "PAYLOAD_TOO_SHORT"]
    ELSE LET t == buf[1][1]
             e == TakeFixed(buf, t + 5)
         IN  CASE t > MAX_TOKEN -> [err |-> "MALFORMED_PACKET"]
               [] t <= MAX_TOKEN /\ e # "OK" -> [err |-> e]
               [] OTHER -> [err |-> "OK", pairing_token |-> SubSeq(buf, 2, t + 1),
                            device_id |-> buf[t + 2][1], device_pub |-> AsPoint(buf[t + 3]),
                            client_nonce |-> buf[t + 4][1], role_commitment |-> AsPoint(buf[t + 5])]

auth_setup2_encode(m) == << <<m.server_nonce>>, <<m.setup_challenge>>, m.server_pub,
                            m.server_proof.a, <<m.server_proof.s>> >>
auth_setup2_decode(buf) ==
    LET e == TakeFixed(buf, 5)
    IN  IF e # "OK" THEN [err |-> e]
        ELSE [err |-> "OK", server_nonce |-> buf[1][1], setup_challenge |-> buf[2][1],
              server_pub |-> AsPoint(buf[3]), server_proof |-> [a |-> AsPoint(buf[4]), s |-> buf[5][1]]]

auth_setup3_encode(m) == << m.client_proof.a, <<m.client_proof.s>> >>
auth_setup3_decode(buf) ==
    LET e == TakeFixed(buf, 2)
    IN  IF e # "OK" THEN [err |-> e]
        ELSE [err |-> "OK", client_proof |-> [a |-> AsPoint(buf[1]), s |-> buf[2][1]]]

auth_auth1_encode(m) ==
    LET n == Len(m.branches)
        B(j) == m.branches[((j - 1) \div 3) + 1]
    IN  << <<m.pid>>, m.client_proof.a, <<m.client_proof.s>>, <<m.nonce_c>>, m.eph_c, m.c_prime,
           m.rerand_proof.a, <<m.rerand_proof.s>>, <<n>> >>
        \o [j \in 1..(3 * n) |-> CASE j % 3 = 1 -> B(j).a [] j % 3 = 2 -> <<B(j).c>>
                                   [] j % 3 = 0 -> <<B(j).s>>]
auth_auth1_decode(buf) ==
    IF Len(buf) < 9 THEN [err |-> "PAYLOAD_TOO_SHORT"]
    ELSE LET n == buf[9][1]
             e == TakeFixed(buf, 9 + 3 * n)
         IN  CASE n > MAX_ROLES -> [err |-> "MALFORMED_PACKET"]
               [] n <= MAX_ROLES /\ e # "OK" -> [err |-> e]
               [] OTHER ->
                  [err |-> "OK", pid |-> buf[1][1], client_proof |-> [a |-> AsPoint(buf[2]), s |-> buf[3][1]],
                   nonce_c |-> buf[4][1], eph_c |-> AsPoint(buf[5]), c_prime |-> AsPoint(buf[6]),
                   rerand_proof |-> [a |-> AsPoint(buf[7]), s |-> buf[8][1]],
                   branches |-> [i \in 1..n |-> [a |-> AsPoint(buf[7 + 3 * i]), c |-> buf[8 + 3 * i][1],
                                                 s |-> buf[9 + 3 * i][1]]]]

auth_auth2_encode(m) == << m.server_pub, m.server_proof.a, <<m.server_proof.s>>, <<m.nonce_s>>,
                           m.eph_s, <<m.tag_s>> >>
auth_auth2_decode(buf) ==
    LET e == TakeFixed(buf, 6)
    IN  IF e # "OK" THEN [err |-> e]
        ELSE [err |-> "OK", server_pub |-> AsPoint(buf[1]), server_proof |-> [a |-> AsPoint(buf[2]), s |-> buf[3][1]],
              nonce_s |-> buf[4][1], eph_s |-> AsPoint(buf[5]), tag_s |-> buf[6][1]]

auth_auth3_encode(m) == << <<m.tag_c>> >>
auth_auth3_decode(buf) ==
    LET e == TakeFixed(buf, 1) IN IF e # "OK" THEN [err |-> e] ELSE [err |-> "OK", tag_c |-> buf[1][1]]

ACK_BYTE == 1
auth_ack_encode == << <<ACK_BYTE>> >>
auth_ack_decode(buf) == IF buf = << <<ACK_BYTE>> >> THEN "OK" ELSE "MALFORMED_PACKET"
=============================================================================
