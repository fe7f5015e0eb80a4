------------------------------- MODULE Sigma --------------------------------
(***************************************************************************)
(* The proofs of the C library: c/src/crypto/crypto.c, transcript.c and    *)
(* proofs.c.  A scalar is an integer, taken modulo the group order Q where *)
(* the code calculates with it; a point is the pair of its exponents to    *)
(* the base point g and to h = hash_to_point, of which nobody knows a      *)
(* relation.  A hash is a parameter, a number for every sequence of        *)
(* integers.  The names of domains and labels count by their position in a *)
(* table.  Buffers large enough by BuffersSuffice never overflow, so that  *)
(* error path is left out.                                                 *)
(***************************************************************************)
EXTENDS Integers, Sequences, FiniteSetsExt

CONSTANTS
    Q,          \* order of the group, a prime with Q * Q within TLC's integers
    HashOf(_),  \* SHA-256 and HMAC-SHA-256 of a sequence of integers
    MAX_ROLES   \* AUTH_MAX_ROLES

\* Bytes of the longest transcript (role_set_master_challenge) and of the
\* longest payload (AUTH_1) against AUTH_TRANSCRIPT_CAP and AUTH_MAX_DATAGRAM.
ASSUME BuffersSuffice ==
    /\ 19 + 40 + 44 + 42 + 44 + MAX_ROLES * (17 + 41) <= 4096
    /\ 24 + 258 + MAX_ROLES * 96 <= 2048

Bad == <<-1, -1>>     \* no valid encoding of a point; also a failed operation
Identity == <<0, 0>>
G == <<1, 0>>
auth_attr_h == <<0, 1>>

auth_check_point(p) ==
    IF p = Identity THEN "IDENTITY_POINT" ELSE IF p = Bad THEN "INVALID_POINT" ELSE "OK"

\* libsodium refuses invalid points, and products that are the identity.
auth_scalarmult(s, p) ==
    LET r == <<((s % Q) * p[1]) % Q, ((s % Q) * p[2]) % Q>>
    IN  IF p = Bad \/ r = Identity THEN Bad ELSE r
auth_scalarmult_base(s) == auth_scalarmult(s, G)
auth_point_add(p, r) ==
    IF Bad \in {p, r} THEN Bad ELSE <<(p[1] + r[1]) % Q, (p[2] + r[2]) % Q>>
auth_point_sub(p, r) ==
    IF Bad \in {p, r} THEN Bad ELSE <<(p[1] - r[1]) % Q, (p[2] - r[2]) % Q>>
auth_scalar_add(s, u) == ((s % Q) + (u % Q)) % Q
auth_scalar_sub(s, u) == ((s % Q) - (u % Q)) % Q
auth_scalar_mul(s, u) == ((s % Q) * (u % Q)) % Q

-----------------------------------------------------------------------------
Names == <<"setup", "setup_server", "server", "pid", "client_v2", "kc_v2", "role_set",
    "role_rerand", "role", "client", "device_id", "device_pub", "server_pub", "a",
    "client_nonce", "server_nonce", "setup_challenge", "pubkey", "nonce_c", "eph_c", "nonce_s",
    "eph_s", "stored_c", "c_prime", "a_c", "s_c", "a_s", "s_s", "session key v2", "kc s2c",
    "kc c2s", "server finished", "client finished", "device-id", "device-auth-v1",
    "kc_v3", "complete_v3", "kc s2c v3", "kc c2s v3", "kc complete s2c v3", "server complete v3",
    "protocol_version", "suite_id", "profile_id", "selected_capabilities", "session_id",
    "authz_context_hash", "critical_extensions_hash", "channel_binding_hash">>
Code == [n \in {Names[i] : i \in DOMAIN Names} |-> CHOOSE i \in DOMAIN Names : Names[i] = n]

auth_transcript_init(domain) == <<Code[domain]>>
auth_transcript_append(t, label, val) == t \o <<Code[label], Len(val)>> \o val

\* A transcript with one append for every pair <<label, value>> of fields.
Transcript(domain, fields) ==
    LET t[i \in 0..Len(fields)] ==
            IF i = 0 THEN auth_transcript_init(domain)
            ELSE auth_transcript_append(t[i - 1], fields[i][1], fields[i][2])
    IN  t[Len(fields)]
auth_transcript_challenge(t) == HashOf(t) % Q
auth_transcript_hash_sha256(t) == HashOf(t)

auth_hkdf_sha256(salt, ikm, info) == HashOf(salt \o <<-2>> \o ikm \o <<-2>> \o info)
auth_hmac_tag(key, label, th) == HashOf(<<key, Code[label], th>>)
auth_derive_device_id(root) == HashOf(<<Code["device-id"], root>>)
auth_derive_device_scalar(root) == HashOf(<<Code["device-auth-v1"], root>>) % Q
auth_compute_pid(device_pub, nonce_c, eph_c, server_pub) ==
    HashOf(<<Code["pid"]>> \o device_pub \o <<nonce_c>> \o eph_c \o server_pub)

-----------------------------------------------------------------------------
\* The shape all provers share: a = base * r, s = r + c * x, where the
\* challenge c hashes a.
Prove(a, r, x, c) ==
    IF a = Bad THEN [err |-> "INVALID_POINT"]
    ELSE [err |-> "OK", a |-> a, s |-> auth_scalar_add(r, auth_scalar_mul(c, x))]

\* base * s = a + pub * c, where no product may be the identity.
EquationHolds(base, p, pub, c) ==
    LET bs == auth_scalarmult(p.s, base)
        pc == auth_scalarmult(c, pub)
        rhs == auth_point_add(p.a, pc)
    IN  Bad \notin {bs, pc, rhs} /\ bs = rhs

\* st holds what both sides of SETUP know.
SetupFields(st, a) ==
    << <<"device_id", <<st.device_id>> >>, <<"device_pub", st.device_pub>>,
       <<"server_pub", st.server_pub>>, <<"a", a>>, <<"client_nonce", <<st.client_nonce>> >>,
       <<"server_nonce", <<st.server_nonce>> >>, <<"setup_challenge", <<st.setup_challenge>> >> >>
setup_client_challenge(st, a) ==
    auth_transcript_challenge(Transcript("setup",
        << <<"role", <<Code["client"]>> >> >> \o SetupFields(st, a)))
auth_prove_setup_client(r, x, st) ==
    LET a == auth_scalarmult_base(r) IN Prove(a, r, x, setup_client_challenge(st, a))
auth_verify_setup_client(p, st) ==
    EquationHolds(G, p, st.device_pub, setup_client_challenge(st, p.a))

setup_server_challenge(st, a) ==
    auth_transcript_challenge(Transcript("setup_server",
        << <<"role", <<Code["server"]>> >> >> \o SetupFields(st, a)))
auth_prove_setup_server(r, x, st) ==
    LET a == auth_scalarmult_base(r) IN Prove(a, r, x, setup_server_challenge(st, a))
auth_verify_setup_server(p, st) ==
    EquationHolds(G, p, st.server_pub, setup_server_challenge(st, p.a))

\* ac holds the context of AUTH_1: pid, nonce_c and eph_c.
auth_client_challenge(pubkey, a, ac) ==
    auth_transcript_challenge(Transcript("client_v2",
        << <<"pid", <<ac.pid>> >>, <<"pubkey", pubkey>>, <<"a", a>>,
           <<"nonce_c", <<ac.nonce_c>> >>, <<"eph_c", ac.eph_c>> >>))
auth_prove_auth_client(r, x, ac) ==
    LET pub == auth_scalarmult_base(x)
        a == auth_scalarmult_base(r)
    IN  IF pub = Bad THEN [err |-> "INVALID_POINT"]
        ELSE Prove(a, r, x, auth_client_challenge(pub, a, ac))
auth_verify_auth_client(p, device_pub, ac) ==
    EquationHolds(G, p, device_pub, auth_client_challenge(device_pub, p.a, ac))

auth_server_challenge(server_pub, a, nonce_s, eph_s) ==
    auth_transcript_challenge(Transcript("server",
        << <<"pubkey", server_pub>>, <<"a", a>>, <<"nonce_s", <<nonce_s>> >>, <<"eph_s", eph_s>> >>))
auth_prove_auth_server(r, x, nonce_s, eph_s) ==
    LET pub == auth_scalarmult_base(x)
        a == auth_scalarmult_base(r)
    IN  IF pub = Bad THEN [err |-> "INVALID_POINT"]
        ELSE Prove(a, r, x, auth_server_challenge(pub, a, nonce_s, eph_s))
auth_verify_auth_server(p, server_pub, nonce_s, eph_s) ==
    EquationHolds(G, p, server_pub, auth_server_challenge(server_pub, p.a, nonce_s, eph_s))

-----------------------------------------------------------------------------
auth_make_role_commitment(role, blind) ==
    auth_point_add(auth_scalarmult_base(role), auth_scalarmult(blind, auth_attr_h))
\* Mutant: the blinding of the new commitment is not updated.
RerandomizeOldBlind(stored_c, blind, delta) ==
    [c_prime |-> auth_point_add(stored_c, auth_scalarmult(delta, auth_attr_h)), blind |-> blind]
auth_rerandomize_commitment(stored_c, blind, delta) ==
    [c_prime |-> auth_point_add(stored_c, auth_scalarmult(delta, auth_attr_h)),
     blind |-> auth_scalar_add(blind, delta)]

rerand_challenge(ac, stored_c, c_prime, a) ==
    auth_transcript_challenge(Transcript("role_rerand",
        << <<"pid", <<ac.pid>> >>, <<"nonce_c", <<ac.nonce_c>> >>, <<"eph_c", ac.eph_c>>,
           <<"stored_c", stored_c>>, <<"c_prime", c_prime>>, <<"a", a>> >>))
auth_prove_rerandomization(r, stored_c, c_prime, delta, ac) ==
    LET a == auth_scalarmult(r, auth_attr_h)
    IN  Prove(a, r, delta, rerand_challenge(ac, stored_c, c_prime, a))
auth_verify_rerandomization(p, stored_c, c_prime, ac) ==
    EquationHolds(auth_attr_h, p, auth_point_sub(c_prime, stored_c),
                  rerand_challenge(ac, stored_c, c_prime, p.a))

\* The labels r_i and A_i follow the order of the list.
role_set_master_challenge(roles, c_prime, A, ac) ==
    LET i == 1..Len(roles)
        head == Transcript("role_set",
            << <<"pid", <<ac.pid>> >>, <<"nonce_c", <<ac.nonce_c>> >>, <<"eph_c", ac.eph_c>>,
               <<"c_prime", c_prime>> >>)
    IN  auth_transcript_challenge(head \o roles \o <<-2>> \o [j \in i |-> A[j][1]]
                                       \o <<-2>> \o [j \in i |-> A[j][2]])
SumOf(c, S) == FoldSet(LAMBDA i, acc : auth_scalar_add(c[i], acc), 0, S)

\* w[i] is the randomness of branch i: the first half is the nonce of the true
\* branch, both halves are the simulated challenge and response of another one.
auth_prove_role_set_membership(w, roles, c_prime, role, blind, ac) ==
    LET Br == 1..Len(roles)
        hits == {i \in Br : roles[i] = role}
        k == Min(hits)
        Y == [i \in Br |-> auth_point_sub(c_prime, auth_scalarmult_base(roles[i]))]
        A == [i \in Br |->
                 IF i = k THEN auth_scalarmult(w[i][1], auth_attr_h)
                 ELSE auth_point_sub(auth_scalarmult(w[i][2], auth_attr_h),
                                     auth_scalarmult(w[i][1], Y[i]))]
        ck == auth_scalar_sub(role_set_master_challenge(roles, c_prime, A, ac),
                              SumOf([i \in Br |-> w[i][1]], Br \ {k}))
    IN  CASE Len(roles) = 0 \/ Len(roles) > MAX_ROLES -> [err |-> "INVALID_ARGUMENT"]
          [] Len(roles) \in 1..MAX_ROLES /\ hits = {} -> [err |-> "ROLE_NOT_PERMITTED"]
          [] OTHER ->
             IF \E i \in Br : Bad \in {Y[i], A[i]} THEN [err |-> "INVALID_POINT"]
             ELSE [err |-> "OK", branches |-> [i \in Br |->
                      IF i = k THEN [a |-> A[i], c |-> ck,
                                     s |-> auth_scalar_add(w[i][1], auth_scalar_mul(ck, blind))]
                      ELSE [a |-> A[i], c |-> w[i][1], s |-> w[i][2]]]]

auth_verify_role_set_membership(br, roles, c_prime, ac) ==
    /\ Len(br) = Len(roles) /\ Len(roles) \in 1..MAX_ROLES
    /\ LET Y == [i \in DOMAIN roles |-> auth_point_sub(c_prime, auth_scalarmult_base(roles[i]))]
       IN  /\ \A i \in DOMAIN roles : Y[i] # Bad
           /\ SumOf([i \in DOMAIN br |-> br[i].c], DOMAIN br)
                = role_set_master_challenge(roles, c_prime, [i \in DOMAIN br |-> br[i].a], ac)
           /\ \A i \in DOMAIN roles : EquationHolds(auth_attr_h, br[i], Y[i], br[i].c)

-----------------------------------------------------------------------------
\* -1 when the shared point is refused.
auth_derive_session_key(eph_secret, peer_eph, ac, nonce_s, eph_s) ==
    LET shared == auth_scalarmult(eph_secret, peer_eph)
    IN  IF shared = Bad THEN -1
        ELSE auth_hkdf_sha256(<<ac.nonce_c, nonce_s>>, shared,
                              <<Code["session key v2"], ac.pid>> \o ac.eph_c \o eph_s)
\* Mutant: the responses of the proofs are left out.
KcTranscriptHashNoResponse(ac, cp, server_pub, sp, nonce_s, eph_s) ==
    auth_transcript_hash_sha256(Transcript("kc_v2",
        << <<"pid", <<ac.pid>> >>, <<"a_c", cp.a>>, <<"eph_c", ac.eph_c>>, <<"a_s", sp.a>>,
           <<"nonce_s", <<nonce_s>> >>, <<"eph_s", eph_s>> >>))
auth_kc_transcript_hash(ac, cp, server_pub, sp, nonce_s, eph_s) ==
    auth_transcript_hash_sha256(Transcript("kc_v2",
        << <<"pid", <<ac.pid>> >>, <<"a_c", cp.a>>, <<"s_c", <<cp.s>> >>,
           <<"nonce_c", <<ac.nonce_c>> >>, <<"eph_c", ac.eph_c>>, <<"server_pub", server_pub>>,
           <<"a_s", sp.a>>, <<"s_s", <<sp.s>> >>, <<"nonce_s", <<nonce_s>> >>, <<"eph_s", eph_s>> >>))
auth_derive_kc_keys(key, th) ==
    [s2c |-> auth_hkdf_sha256(<<th>>, <<key>>, <<Code["kc s2c"]>>),
     c2s |-> auth_hkdf_sha256(<<th>>, <<key>>, <<Code["kc c2s"]>>)]
=============================================================================
