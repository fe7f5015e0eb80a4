------------------------------- MODULE Stream --------------------------------
(***************************************************************************)
(* The framing of c/src/transport/transport_tcp.c: a sender writes frames  *)
(* with a length prefix into a TCP connection, which delivers the bytes in *)
(* order, in pieces of any size, and the receiver puts the frames together *)
(* and reads each with the strict decoders of Contexts.  The sender may    *)
(* close, die or have a send fail anywhere in a frame; the receiver's poll *)
(* may time out, and its poll or recv may fail (a reset connection).       *)
(***************************************************************************)
EXTENDS Contexts, SequencesExt

CONSTANTS
    MAX_DATAGRAM,   \* AUTH_MAX_DATAGRAM, in cells
    Chunks,         \* sizes of the pieces the kernel takes and gives
    FrameLists,     \* [frames, checked]: what a sender sends; checked: by auth_tcp_send
    Samples,        \* valid contexts, [kind, entries]
    Records, Credential, Peer,   \* for auth_v3_iot_core_attribution_resolve
    Session         \* [context, parts, key] of an AUTH v3 session

PREFIX == 2
Base == 16

\* The length of a frame fits the prefix.
ASSUME FrameAssumption ==
    /\ MAX_DATAGRAM \in Nat /\ Chunks \subseteq Nat \ {0}
    /\ FrameLists \subseteq [frames : Seq(Seq(Nat)), checked : BOOLEAN]
    /\ \A l \in FrameLists : \A i \in DOMAIN l.frames : Len(l.frames[i]) < Base * Base

\* The contexts fit the receiver's array, and the records are a finite array.
ASSUME ContextAssumption ==
    /\ Samples \subseteq [kind : Nat, entries : Seq([id : Nat, value : Seq(Nat)])]
    /\ \A s \in Samples : Len(s.entries) <= ENTRY_COUNT + 1
    /\ IsFiniteSet(DOMAIN Records)

ASSUME SessionAssumption ==
    Session \in
        [context : [protocol_version : Int, suite_id : Int, profile_id : Int,
                    selected_capabilities : Int, session_id : Int, authz_context_hash : Int,
                    critical_extensions_hash : Int, channel_binding_hash : Int],
         parts : [pid : Int, a_c : Seq(Int), s_c : Int, nonce_c : Int, eph_c : Seq(Int),
                  server_pub : Seq(Int), a_s : Seq(Int), s_s : Int, nonce_s : Int, eph_s : Seq(Int)],
         key : Int]

VARIABLES
    todo,     \* frames the sender has not begun
    handed,   \* history: frames given to the connection
    out,      \* cells of the current frame not yet taken by the kernel
    net,      \* cells in the connection
    tx,       \* the sender's end: "open", "closed" or "failed"
    cut,      \* history: the sender stopped within a frame
    rx,       \* auth_tcp_recv: [phase, need, buf], the phase and its bytes
    got,      \* frames received
    broken,   \* history: a poll or recv of the receiver failed
    err       \* what ended the receiver, or "OK"

vars == <<todo, handed, out, net, tx, cut, rx, got, broken, err>>

Prefix(n) == <<n % Base, (n \div Base) % Base>>
LengthOf(p) == p[1] + p[2] * Base
Await(phase, n) == [phase |-> phase, need |-> n, buf |-> <<>>]

Init ==
    /\ todo \in FrameLists
    /\ handed = <<>> /\ out = <<>> /\ net = <<>> /\ tx = "open" /\ cut = FALSE
    /\ rx = Await("prefix", PREFIX) /\ got = <<>> /\ broken = FALSE /\ err = "OK"

-----------------------------------------------------------------------------
auth_tcp_send ==
    /\ tx = "open" /\ out = <<>> /\ todo.frames # <<>>
    /\ todo' = [todo EXCEPT !.frames = Tail(@)]
    /\ LET f == Head(todo.frames)
       IN  IF todo.checked /\ Len(f) > MAX_DATAGRAM
           THEN tx' = "closed" /\ UNCHANGED <<handed, out>>
           ELSE out' = Prefix(Len(f)) \o f /\ handed' = Append(handed, f) /\ UNCHANGED tx
    /\ UNCHANGED <<net, cut, rx, got, broken, err>>

\* One send call of write_all: the kernel takes some cells, or the call fails
\* and the connection is given up.
write_all(n) ==
    /\ tx = "open" /\ out # <<>>
    /\ \/ tx' = "failed" /\ out' = <<>> /\ cut' = TRUE /\ UNCHANGED net
       \/ LET k == IF n < Len(out) THEN n ELSE Len(out)
          IN  /\ net' = net \o SubSeq(out, 1, k) /\ out' = SubSeq(out, k + 1, Len(out))
              /\ UNCHANGED <<tx, cut>>
    /\ UNCHANGED <<todo, handed, rx, got, broken, err>>

\* auth_tcp_conn_close, or the end of the sending process.
Close ==
    /\ tx = "open"
    /\ tx' = "closed" /\ cut' = (out # <<>>) /\ out' = <<>>
    /\ UNCHANGED <<todo, handed, net, rx, got, broken, err>>

-----------------------------------------------------------------------------
\* Mutant: the body is what the first recv call returned.
FrameDoneEarly(buf, need) == Len(buf) = need \/ (need > PREFIX /\ buf # <<>>)

\* The loop of read_all ends when the buffer is full.
FrameDone(buf, need) == Len(buf) = need

\* One recv call of read_all, and what auth_tcp_recv does when that was the
\* last one.  The caller's buffer holds AUTH_MAX_DATAGRAM bytes, so the length
\* check against buf_cap refuses nothing more.
read_all(n) ==
    LET k == Min({n, rx.need - Len(rx.buf), Len(net)})
        buf == rx.buf \o SubSeq(net, 1, k)
        len == LengthOf(buf)
    IN  /\ err = "OK" /\ net # <<>>
        /\ net' = SubSeq(net, k + 1, Len(net))
        /\ \/ ~FrameDone(buf, rx.need) /\ rx' = [rx EXCEPT !.buf = buf] /\ UNCHANGED <<got, err>>
           \/ /\ FrameDone(buf, rx.need) /\ rx.phase = "prefix" /\ len \in 1..MAX_DATAGRAM
              /\ rx' = Await("body", len) /\ UNCHANGED <<got, err>>
           \/ /\ FrameDone(buf, rx.need) /\ rx.phase = "prefix" /\ len = 0
              /\ rx' = Await("prefix", PREFIX) /\ got' = Append(got, <<>>) /\ UNCHANGED err
           \/ /\ FrameDone(buf, rx.need) /\ rx.phase = "prefix" /\ len > MAX_DATAGRAM
              /\ err' = "PAYLOAD_TOO_LARGE" /\ UNCHANGED <<rx, got>>
           \/ /\ FrameDone(buf, rx.need) /\ rx.phase = "body"
              /\ rx' = Await("prefix", PREFIX) /\ got' = Append(got, buf) /\ UNCHANGED err
        /\ UNCHANGED <<todo, handed, out, tx, cut, broken>>

\* poll or recv returns an error, which is AUTH_ERR_IO too, wherever in the
\* frame the receiver is and whatever the sender has done.
RecvFails ==
    /\ err = "OK"
    /\ err' = "IO" /\ broken' = TRUE
    /\ UNCHANGED <<todo, handed, out, net, tx, cut, rx, got>>

\* recv returns 0: got_any tells the end of the stream from a torn field, but
\* it starts anew for the body.
EndOfStream ==
    /\ err = "OK" /\ net = <<>> /\ tx # "open"
    /\ err' = IF rx.buf # <<>> THEN "MALFORMED_PACKET" ELSE "IO"
    /\ UNCHANGED <<todo, handed, out, net, tx, cut, rx, got, broken>>

\* poll returns 0: what is in the connection may still be on its way.
Timeout ==
    /\ err = "OK"
    /\ err' = "TIMEOUT"
    /\ UNCHANGED <<todo, handed, out, net, tx, cut, rx, got, broken>>

Next ==
    \/ auth_tcp_send \/ Close \/ RecvFails \/ EndOfStream \/ Timeout
    \/ \E n \in Chunks : write_all(n) \/ read_all(n)
Spec == Init /\ [][Next]_vars

-----------------------------------------------------------------------------
\* However the bytes were split, the frames received are those sent, in order
\* and unchanged.  AUTH_ERR_IO with no failed call of the receiver's own and no
\* sender stopped within a frame is a stream that has delivered all of them (the
\* code alone does not tell the three apart); a torn field is reported only when
\* the sender stopped within a frame, an oversize frame only where there was one.
FramesInOrder ==
    /\ IsPrefix(got, handed)
    /\ err = "IO" /\ ~cut /\ ~broken => got = handed
    /\ err = "MALFORMED_PACKET" => cut
    /\ err = "PAYLOAD_TOO_LARGE" => ~todo.checked /\ Len(handed[Len(got) + 1]) > MAX_DATAGRAM

\* A context that parses is the encoding of the entries it parses to, and
\* hashing the bytes or the entries is the same; every valid context parses.
ContextCanonical(f) ==
    LET p == auth_v3_context_parse_bytes(f, ENTRY_COUNT + 1)
    IN  /\ p.err = "OK" =>
              /\ auth_v3_context_encode(p.kind, p.entries, Len(f)) = [err |-> "OK", out |-> f]
              /\ auth_v3_context_encode(p.kind, p.entries, Len(f) - 1).err = "BUFFER_TOO_SMALL"
              /\ auth_v3_context_hash(p.kind, p.entries) = auth_v3_context_hash_bytes(f)
        /\ \A s \in Samples :
              auth_v3_context_encode(s.kind, s.entries, Len(f)) = [err |-> "OK", out |-> f]
                  => p = [err |-> "OK", kind |-> s.kind, entries |-> s.entries]

\* An authorization context has one encoding, and attribution finds for it
\* only the single record of the credential that states exactly this context.
AuthzCanonical(f) ==
    LET d == auth_v3_iot_core_authz_decode_bytes(f)
        r == auth_v3_iot_core_attribution_resolve(Records, Credential, Peer, d.context)
    IN  d.err = "OK" =>
            /\ auth_v3_iot_core_authz_encode(d.context, Len(f)) = [err |-> "OK", out |-> f]
            /\ auth_v3_iot_core_authz_hash(d.context) = auth_v3_iot_core_authz_hash_bytes(f)
            /\ r.err = "OK" =>
                  \A i \in DOMAIN Records : Records[i].credential_reference = Credential =>
                      Records[i] = r.record /\ Records[i].peer_identity = Peer
                      /\ auth_v3_iot_core_authz_encode(Records[i].context, Len(f)).out = f

\* The tags of an AUTH v3 session whose authorization context is f.
Tags(f) ==
    LET c == [Session.context EXCEPT !.authz_context_hash = auth_v3_iot_core_authz_hash_bytes(f).hash]
        th == auth_v3_kc_transcript_hash(c, Session.parts)
        k == auth_v3_derive_kc_keys(Session.key, th)
        tag_c == auth_v3_finished_tag(k.c2s, "client finished", th)
    IN  <<auth_v3_finished_tag(k.s2c, "server finished", th), tag_c,
          auth_v3_completion_tag(k.complete, auth_v3_completion_hash(th, tag_c))>>

\* Two peers that hold different authorization contexts agree on no tag, and
\* two that exchange their HELLOs come to the same verdict, version and
\* capabilities (each takes the first common suite of its own list).
PeersAgree(f, g) ==
    LET a == auth_hello_decode(f)
        b == auth_hello_decode(g)
        x == auth_negotiate(a, b)
        y == auth_negotiate(b, a)
    IN  /\ /\ auth_v3_iot_core_authz_hash_bytes(f).err = "OK"
           /\ auth_v3_iot_core_authz_hash_bytes(g).err = "OK"
           /\ f # g
           => \A i \in 1..3 : Tags(f)[i] # Tags(g)[i]
        /\ a.err = "OK" /\ b.err = "OK" =>
              /\ x.err = y.err
              /\ x.err = "OK" => /\ x.version = y.version /\ x.caps = y.caps
                                 /\ x.version >= a.min_version /\ x.version >= b.min_version
              /\ auth_hello_decode(auth_hello_encode(a).out) = a

\* Every frame received passes both.
CanonicalDecoding == \A i \in DOMAIN got : ContextCanonical(got[i]) /\ AuthzCanonical(got[i])

\* What the strict decoders accept, they accept in one form only, and two
\* peers draw the same conclusions from it.
StrictDecoding ==
    /\ CanonicalDecoding
    /\ \A i, j \in DOMAIN got : PeersAgree(got[i], got[j])
=============================================================================
