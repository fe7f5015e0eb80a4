------------------------------ MODULE MCStream -------------------------------
(* The instance of Stream for TLC: single frames that are a valid context or   *)
(* authorization context with one cell changed, dropped or added, and pairs of *)
(* frames.                                                                     *)
EXTENDS Stream, PolyHash

E(id, v) == [id |-> id, value |-> v]
MCSamples ==
    {[kind |-> 1, entries |-> <<>>], [kind |-> 3, entries |-> <<E(1, <<>>), E(2, <<7, 8>>)>>],
     [kind |-> 2, entries |-> <<E(32769, <<1>>), E(32770, <<>>)>>]}
Ctx(g) == << <<4, 0>>, <<0, 6>>, <<2>>, <<1>>, <<g>>, <<5>>, <<6>> >>
MCRecords == << [credential_reference |-> 1, peer_identity |-> 2, context |-> Ctx(3)],
                [credential_reference |-> 4, peer_identity |-> 2, context |-> Ctx(3)] >>
MCSession == [context |-> [protocol_version |-> 3, suite_id |-> 1, profile_id |-> 1,
                  selected_capabilities |-> 519, session_id |-> 8, authz_context_hash |-> 0,
                  critical_extensions_hash |-> 11, channel_binding_hash |-> 12],
              parts |-> [pid |-> 21, a_c |-> <<22, 0>>, s_c |-> 23, nonce_c |-> 24, eph_c |-> <<25, 0>>,
                  server_pub |-> <<26, 0>>, a_s |-> <<27, 0>>, s_s |-> 28, nonce_s |-> 29,
                  eph_s |-> <<30, 0>>],
              key |-> 31]

Authz(g) == auth_v3_iot_core_authz_encode(Ctx(g), CANONICAL_LEN).out
Valid == {Authz(3)} \cup {auth_v3_context_encode(s.kind, s.entries, 100).out : s \in MCSamples}
Changed(f) ==
    UNION {{[f EXCEPT ![i] = v] : v \in {0, 1, f[i] + 1, 32768}} : i \in DOMAIN f}
    \cup {RemoveAt(f, i) : i \in DOMAIN f} \cup {Append(f, 0)}
Hello(v, m, s, c, vendor) ==
    auth_hello_encode([version |-> v, min_version |-> m, suites |-> s, caps |-> c, mtu_hint |-> <<>>,
                       vendor_id |-> vendor, device_model |-> <<>>]).out
Some == {Authz(3), Authz(9), <<>>, Hello(2, 2, <<1, 2>>, 519, <<5>>), Hello(3, 2, <<2, 1>>, 527, <<>>),
         Hello(3, 3, <<1>>, 519, <<>>), Hello(2, 2, <<4>>, 7, <<5, 5, 5>>)}
Large == [i \in 1..(MAX_DATAGRAM + 1) |-> i]
MCFrameLists ==
    {[frames |-> <<f>>, checked |-> TRUE] : f \in Valid \cup UNION {Changed(f) : f \in Valid}}
    \cup {[frames |-> <<f, g>>, checked |-> TRUE] : f, g \in Some}
    \cup {[frames |-> <<f, Large>>, checked |-> b] : f \in {<<>>, Authz(9)}, b \in BOOLEAN}
===============================================================================
