------------------------------ MODULE Contexts -------------------------------
(***************************************************************************)
(* The strict codecs of the C library that no binary uses yet: ZKCTX       *)
(* contexts (auth_v3_context.c, auth_v3_context_parser.c), the IoT core    *)
(* authorization context (auth_v3_iot_core_authz.c), the AUTH v3 key       *)
(* confirmation (auth_v3.c), and HELLO with its negotiation (wire.c).      *)
(* A byte string is a sequence of integers, one for each field: the magic, *)
(* a 16-bit number and a 64-bit number are one cell each, a 32-byte value  *)
(* is WIDE cells.  Arguments that are NULL are left out.                   *)
(***************************************************************************)
EXTENDS Sigma, FiniteSets

WIDE == 2
MAGIC == 90
CONTEXT_VERSION == 1
Kinds == 1..3       \* AUTHORIZATION, CRITICAL_EXTENSIONS, CHANNEL_BINDING
CRITICAL == 2
HEAD == 4           \* magic, version, kind, count
ENTRY_HEAD == 3     \* id, flags, length

CriticalId(id) == id >= 32768 /\ id # 32768

\* What is wrong with id after previous (0 before the first entry).
IdError(kind, id, previous) ==
    CASE id = 0 -> "INVALID_ID"
      [] id > 0 /\ id <= previous -> "NON_CANONICAL_ORDER"
      [] OTHER -> IF kind = CRITICAL /\ ~CriticalId(id) THEN "INVALID_CRITICAL_ID" ELSE "OK"

\* The first entry in error decides.
validate_entries(kind, entries) ==
    LET err == [i \in DOMAIN entries |->
                   IdError(kind, entries[i].id, IF i = 1 THEN 0 ELSE entries[i - 1].id)]
        bad == {i \in DOMAIN entries : err[i] # "OK"}
    IN  IF kind \notin Kinds THEN "INVALID_ARGUMENT"
        ELSE IF bad = {} THEN "OK" ELSE err[Min(bad)]

EncodedEntries(entries) ==
    LET b[i \in 0..Len(entries)] ==
            IF i = 0 THEN <<>>
            ELSE b[i - 1] \o <<entries[i].id, 0, Len(entries[i].value)>> \o entries[i].value
    IN  b[Len(entries)]
auth_v3_context_encode(kind, entries, out_capacity) ==
    LET out == <<MAGIC, CONTEXT_VERSION, kind, Len(entries)>> \o EncodedEntries(entries)
        e == validate_entries(kind, entries)
    IN  IF e # "OK" THEN [err |-> e]
        ELSE IF out_capacity < Len(out) THEN [err |-> "BUFFER_TOO_SMALL"]
        ELSE [err |-> "OK", out |-> out]
\* The streamed hash of header and entries; no buffer is needed.
auth_v3_context_hash(kind, entries) ==
    LET e == validate_entries(kind, entries)
    IN  IF e # "OK" THEN [err |-> e]
        ELSE [err |-> "OK", hash |-> HashOf(<<MAGIC, CONTEXT_VERSION, kind, Len(entries)>>
                                            \o EncodedEntries(entries))]

-----------------------------------------------------------------------------
\* Mutant: an id may be repeated.
ParseEntryRepeats(input, kind, s) ==
    LET o == s.offset
        id == input[o + 1]
        n == input[o + 3]
    IN  IF Len(input) - o < ENTRY_HEAD \/ n > Len(input) - o - ENTRY_HEAD
        THEN [s EXCEPT !.err = "TRUNCATED"]
        ELSE IF IdError(kind, id, s.previous) \notin {"OK", "NON_CANONICAL_ORDER"} \/ id < s.previous
        THEN [s EXCEPT !.err = "INVALID_ID"]
        ELSE [err |-> "OK", offset |-> o + ENTRY_HEAD + n, previous |-> id,
              entries |-> Append(s.entries, [id |-> id, value |-> SubSeq(input, o + 4, o + 3 + n)])]

\* One turn of parse_impl's loop: s has the offset, the previous id and the
\* entries so far.
ParseEntry(input, kind, s) ==
    LET o == s.offset
        id == input[o + 1]
        n == input[o + 3]
        e == IdError(kind, id, s.previous)
    IN  IF Len(input) - o < ENTRY_HEAD THEN [s EXCEPT !.err = "TRUNCATED"]
        ELSE IF e # "OK" THEN [s EXCEPT !.err = e]
        ELSE IF input[o + 2] # 0 THEN [s EXCEPT !.err = "NONZERO_FLAGS"]
        ELSE IF n > Len(input) - o - ENTRY_HEAD THEN [s EXCEPT !.err = "TRUNCATED"]
        ELSE [err |-> "OK", offset |-> o + ENTRY_HEAD + n, previous |-> id,
              entries |-> Append(s.entries, [id |-> id, value |-> SubSeq(input, o + 4, o + 3 + n)])]

parse_impl(input, entries_capacity) ==
    LET count == input[4]
        loop[i \in 0..count] ==
            IF i = 0 THEN [err |-> "OK", offset |-> HEAD, previous |-> 0, entries |-> <<>>]
            ELSE IF loop[i - 1].err # "OK" THEN loop[i - 1]
            ELSE ParseEntry(input, input[3], loop[i - 1])
        end == loop[count]
    IN  IF Len(input) < HEAD THEN [err |-> "TRUNCATED"]
        ELSE IF input[1] # MAGIC THEN [err |-> "INVALID_MAGIC"]
        ELSE IF input[2] # CONTEXT_VERSION THEN [err |-> "UNSUPPORTED_VERSION"]
        ELSE IF input[3] \notin Kinds THEN [err |-> "UNKNOWN_KIND"]
        ELSE IF count > (Len(input) - HEAD) \div ENTRY_HEAD THEN [err |-> "TRUNCATED"]
        ELSE IF count > entries_capacity THEN [err |-> "ENTRY_BUFFER_TOO_SMALL"]
        ELSE IF end.err # "OK" THEN [err |-> end.err]
        ELSE IF end.offset # Len(input) THEN [err |-> "TRAILING_BYTES"]
        ELSE [err |-> "OK", kind |-> input[3], entries |-> end.entries]
auth_v3_context_parse_bytes(input, entries_capacity) == parse_impl(input, entries_capacity)
\* capture_entries = 0: the capacity does not count.
auth_v3_context_hash_bytes(input) ==
    LET p == parse_impl(input, Len(input))
    IN  IF p.err # "OK" THEN [err |-> p.err] ELSE [err |-> "OK", hash |-> HashOf(input)]

-----------------------------------------------------------------------------
\* auth_v3_iot_core_authorization_context_v1 as <<holder_binding, audience_id,
\* role_policy_id, scope_bits, authorization_generation, policy_epoch,
\* revocation_epoch>>, each a sequence of cells; entry i has the id i.
AuthzWidths == <<WIDE, WIDE, 1, 1, 1, 1, 1>>
ENTRY_COUNT == 7
SECURE_ASSOCIATION == 1
AuthzErrors == <<"INVALID_HOLDER", "INVALID_AUDIENCE", "INVALID_ROLE_POLICY", "INVALID_SCOPE",
    "INVALID_GENERATION", "INVALID_POLICY_EPOCH", "INVALID_REVOCATION_EPOCH">>
CANONICAL_LEN == HEAD + ENTRY_COUNT * ENTRY_HEAD + 2 * WIDE + 5   \* 148 bytes

all_zero(v) == \A i \in DOMAIN v : v[i] = 0
auth_v3_iot_core_authz_validate(context) ==
    LET bad == {i \in 1..ENTRY_COUNT : IF i = 4 THEN context[4] # <<SECURE_ASSOCIATION>>
                                       ELSE all_zero(context[i])}
    IN  IF bad = {} THEN "OK" ELSE AuthzErrors[Min(bad)]
build_entries(context) == [i \in 1..ENTRY_COUNT |-> [id |-> i, value |-> context[i]]]
auth_v3_iot_core_authz_encode(context, out_capacity) ==
    LET e == auth_v3_iot_core_authz_validate(context)
        r == auth_v3_context_encode(1, build_entries(context), out_capacity)
    IN  IF e # "OK" THEN [err |-> e]
        ELSE IF r.err = "OK" /\ Len(r.out) # CANONICAL_LEN THEN [err |-> "INVALID_ARGUMENT"] ELSE r
auth_v3_iot_core_authz_hash(context) ==
    LET e == auth_v3_iot_core_authz_validate(context)
    IN  IF e # "OK" THEN [err |-> e] ELSE auth_v3_context_hash(1, build_entries(context))

auth_v3_iot_core_authz_decode_bytes(input) ==
    LET p == auth_v3_context_parse_bytes(input, ENTRY_COUNT)
        context == [i \in 1..ENTRY_COUNT |-> p.entries[i].value]
        e == auth_v3_iot_core_authz_validate(context)
    IN  IF Len(input) # CANONICAL_LEN THEN [err |-> "INVALID_ENCODING_LENGTH"]
        ELSE IF p.err = "ENTRY_BUFFER_TOO_SMALL" THEN [err |-> "ENTRY_LIMIT_EXCEEDED"]
        ELSE IF p.err # "OK" THEN [err |-> "INVALID_ENCODING"]
        ELSE IF p.kind # 1 THEN [err |-> "INVALID_CONTEXT_KIND"]
        ELSE IF Len(p.entries) # ENTRY_COUNT THEN [err |-> "INVALID_ENTRY_SCHEMA"]
        ELSE IF \E i \in 1..ENTRY_COUNT :
                   p.entries[i].id # i \/ Len(p.entries[i].value) # AuthzWidths[i]
        THEN [err |-> "INVALID_ENTRY_SCHEMA"]
        ELSE IF e # "OK" THEN [err |-> e] ELSE [err |-> "OK", context |-> context]
auth_v3_iot_core_authz_hash_bytes(input) ==
    LET d == auth_v3_iot_core_authz_decode_bytes(input)
    IN  IF d.err # "OK" THEN [err |-> d.err] ELSE [err |-> "OK", hash |-> HashOf(input)]

\* The one record of a credential, if it is for the expected peer and context.
auth_v3_iot_core_attribution_resolve(records, credential, peer, context) ==
    LET hits == {i \in DOMAIN records : records[i].credential_reference = credential}
        m == records[CHOOSE i \in hits : TRUE]
    IN  IF Cardinality(hits) > 1 THEN [err |-> "AMBIGUOUS_REFERENCE"]
        ELSE IF hits = {} THEN [err |-> "MISSING_REFERENCE"]
        ELSE IF m.peer_identity # peer THEN [err |-> "IDENTITY_MISMATCH"]
        ELSE IF m.context # context THEN [err |-> "AUTHORIZATION_MISMATCH"]
        ELSE [err |-> "OK", record |-> m]

-----------------------------------------------------------------------------
\* AUTH v3: c is auth_v3_context_t, p the transcript parts of AUTH v2.
auth_v3_build_kc_transcript(c, p) ==
    Transcript("kc_v3",
        << <<"protocol_version", <<c.protocol_version>> >>, <<"suite_id", <<c.suite_id>> >>,
           <<"profile_id", <<c.profile_id>> >>,
           <<"selected_capabilities", <<c.selected_capabilities>> >>,
           <<"session_id", <<c.session_id>> >>, <<"authz_context_hash", <<c.authz_context_hash>> >>,
           <<"critical_extensions_hash", <<c.critical_extensions_hash>> >>,
           <<"channel_binding_hash", <<c.channel_binding_hash>> >>,
           <<"pid", <<p.pid>> >>, <<"a_c", p.a_c>>, <<"s_c", <<p.s_c>> >>,
           <<"nonce_c", <<p.nonce_c>> >>, <<"eph_c", p.eph_c>>, <<"server_pub", p.server_pub>>,
           <<"a_s", p.a_s>>, <<"s_s", <<p.s_s>> >>, <<"nonce_s", <<p.nonce_s>> >>,
           <<"eph_s", p.eph_s>> >>)
auth_v3_kc_transcript_hash(c, p) == auth_transcript_hash_sha256(auth_v3_build_kc_transcript(c, p))
auth_v3_derive_kc_keys(key, th) ==
    [s2c |-> auth_hkdf_sha256(<<th>>, <<key>>, <<Code["kc s2c v3"]>>),
     c2s |-> auth_hkdf_sha256(<<th>>, <<key>>, <<Code["kc c2s v3"]>>),
     complete |-> auth_hkdf_sha256(<<th>>, <<key>>, <<Code["kc complete s2c v3"]>>)]
auth_v3_finished_tag(key, label, th) == auth_hmac_tag(key, label, th)
auth_v3_completion_hash(th, tag_c) == HashOf(<<Code["complete_v3"], th, tag_c>>)
auth_v3_completion_tag(k_complete, completion_hash) ==
    auth_hmac_tag(k_complete, "server complete v3", completion_hash)

-----------------------------------------------------------------------------
\* HELLO.  An absent option is <<>>; MaxSuites, MaxVendor and MaxModel are the
\* sizes of auth_hello_t's arrays.
MaxSuites == 8
MaxVendor == 2
MaxModel == 3
TLV_MIN_VERSION == 1
TLV_MTU_HINT == 4
TLV_VENDOR_ID == 256
TLV_DEVICE_MODEL == 257

auth_tlv_write(buf, tag, value) == buf \o <<tag, Len(value)>> \o value
\* Called with cells left after off.
auth_tlv_read(buf, off) ==
    IF Len(buf) - off < 2 \/ buf[off + 2] > Len(buf) - off - 2 THEN [err |-> "MALFORMED_PACKET"]
    ELSE [err |-> "OK", tag |-> buf[off + 1], value |-> SubSeq(buf, off + 3, off + 2 + buf[off + 2])]

auth_hello_encode(h) ==
    LET Option(buf, tag, v) == IF v = <<>> THEN buf ELSE auth_tlv_write(buf, tag, v)
        fixed == <<h.version, Len(h.suites)>> \o h.suites \o <<h.caps>>
    IN  IF Len(h.suites) > MaxSuites THEN [err |-> "INVALID_ARGUMENT"]
        ELSE [err |-> "OK", out |->
                 Option(Option(Option(auth_tlv_write(fixed, TLV_MIN_VERSION, <<h.min_version>>),
                     TLV_MTU_HINT, h.mtu_hint), TLV_VENDOR_ID, h.vendor_id),
                     TLV_DEVICE_MODEL, h.device_model)]

\* One TLV taken into h: a wrong size of a known number is an error, a name
\* that is too long and an unknown tag are ignored.
TakeTlv(h, t) ==
    CASE t.tag \in {TLV_MIN_VERSION, TLV_MTU_HINT} /\ Len(t.value) # 1 ->
            [h EXCEPT !.err = "MALFORMED_PACKET"]
      [] t.tag = TLV_MIN_VERSION /\ Len(t.value) = 1 -> [h EXCEPT !.min_version = t.value[1]]
      [] t.tag = TLV_MTU_HINT /\ Len(t.value) = 1 -> [h EXCEPT !.mtu_hint = t.value]
      [] t.tag = TLV_VENDOR_ID /\ Len(t.value) <= MaxVendor -> [h EXCEPT !.vendor_id = t.value]
      [] t.tag = TLV_DEVICE_MODEL /\ Len(t.value) <= MaxModel -> [h EXCEPT !.device_model = t.value]
      [] OTHER -> h
auth_hello_decode(buf) ==
    LET n == buf[2]
        start == [err |-> "OK", version |-> buf[1], min_version |-> buf[1],
                  suites |-> SubSeq(buf, 3, n + 2), caps |-> buf[n + 3],
                  mtu_hint |-> <<>>, vendor_id |-> <<>>, device_model |-> <<>>]
        \* walk[i] is [at, h] after i TLVs; no more than Len(buf) fit.
        walk[i \in 0..Len(buf)] ==
            IF i = 0 THEN [at |-> n + 3, h |-> start]
            ELSE LET s == walk[i - 1]
                     t == auth_tlv_read(buf, s.at)
                 IN  IF s.h.err # "OK" \/ s.at >= Len(buf) THEN s
                     ELSE IF t.err # "OK" THEN [s EXCEPT !.h.err = t.err]
                     ELSE [at |-> s.at + 2 + Len(t.value), h |-> TakeTlv(s.h, t)]
    IN  IF Len(buf) < 2 THEN [err |-> "PAYLOAD_TOO_SHORT"]
        ELSE IF n > MaxSuites THEN [err |-> "MALFORMED_PACKET"]
        ELSE IF Len(buf) - 2 < n + 1 THEN [err |-> "PAYLOAD_TOO_SHORT"]
        ELSE walk[Len(buf)].h

\* The bits of a capability word, up to TLC's integers; 16 is the highest that
\* has a name.
Bits(word) == {i \in 0..30 : (word \div 2^i) % 2 = 1}
BASELINE == {0, 1, 2, 9}   \* AUTH_V2, ROLE_RERAND, ROLE_SET_MEMBERSHIP, PROFILE_STANDARD
auth_negotiate(me, peer) ==
    LET v == IF me.version < peer.version THEN me.version ELSE peer.version
        floor == IF me.min_version > peer.min_version THEN me.min_version ELSE peer.min_version
        common == {i \in DOMAIN me.suites : \E j \in DOMAIN peer.suites : me.suites[i] = peer.suites[j]}
        caps == Bits(me.caps) \cap Bits(peer.caps)
    IN  IF v < floor THEN [err |-> "UNSUPPORTED_VERSION"]
        ELSE IF common = {} THEN [err |-> "UNSUPPORTED_SUITE"]
        ELSE IF ~(BASELINE \subseteq caps) THEN [err |-> "CAP_MISMATCH"]
        ELSE [err |-> "OK", version |-> v, suite |-> me.suites[Min(common)], caps |-> caps]
=============================================================================
