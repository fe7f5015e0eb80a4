----------------------------- MODULE RustServer -----------------------------
(***************************************************************************)
(* The Rust server (rust/crates/server/src/main.rs).  One mutex is held    *)
(* from the arrival of a packet to its response, so a dispatched packet is *)
(* one action: garbage collection if it is due, then the lookup in the     *)
(* response cache, then the handler, whose response is cached, errors too. *)
(*                                                                         *)
(* A flow is one run of a client: it draws the session id, and for AUTH    *)
(* the nonce and ephemeral key whose hash is the replay key, so the flow   *)
(* stands for all of them.  The packet with seq 0 is SETUP_1 or AUTH_1,    *)
(* the one with seq 1 is SETUP_3 or AUTH_3, computed from the server nonce *)
(* of the answer to the first.  Time is discrete: requests, cached         *)
(* responses and the last collection have ages, that stop counting where   *)
(* nothing distinguishes them any more.                                    *)
(***************************************************************************)
EXTENDS ReplayDeque

CONSTANTS
    Flow,         \* client runs
    Kind,         \* Kind[f]: "SETUP" or "AUTH"
    Dev,          \* device identities
    DevOf,        \* DevOf[f]: the device that runs f
    Peer,         \* client socket addresses
    Paired,       \* flows whose SETUP_1 carries the pairing token
    Permitted,    \* devices whose role is one of DEFAULT_ALLOWED_ROLES
    Disk0,        \* devices in registry.bin when the server is first started
    ReplayCap,    \* capacity of the replay cache, 4096 in the build
    MaxSessions,  \* profile.max_active_sessions
    TTL,          \* profile.session_ttl, in ticks
    GcPeriod,     \* the 5 s between two collections, in ticks
    Delay,        \* a request on the way for longer is late
    MaxNonce,     \* bound on the sessions one flow can open
    MaxRestarts   \* bound on the restarts of the server

ASSUME FlowAssumption ==
    /\ Kind \in [Flow -> {"SETUP", "AUTH"}]
    /\ DevOf \in [Flow -> Dev]
    /\ Paired \subseteq Flow /\ Permitted \subseteq Dev /\ Disk0 \subseteq Dev
ASSUME LimitAssumption ==
    /\ ReplayCap \in Nat \ {0} /\ MaxSessions \in Nat
    /\ TTL \in Nat /\ GcPeriod \in Nat /\ Delay \in Nat
    /\ MaxNonce \in Nat \ {0} /\ MaxRestarts \in Nat

VARIABLES
    registry,   \* FsRegistryStore.cache: the enrolled devices
    dirty,      \* FsRegistryStore.dirty
    disk,       \* registry.bin
    setup,      \* setup_sessions: the server nonce of each flow's session, 0 for none
    auth,       \* auth_sessions, likewise
    cache,      \* response_cache
    replay,     \* MemoryReplayCache
    gcAge,      \* age of last_gc
    opened,     \* opened[f]: sessions opened for f; the last one is the freshest nonce
    reqs,       \* requests sent by clients, with the age of the last copy
    resps,      \* responses sent by the server
    restarts,
    accepted,   \* history: replay keys accepted since the last start
    finished,   \* history: AUTH sessions the server confirmed, <<flow, nonce>>
    disturbed   \* history: flows that met a fault (see NoSpuriousFailure)

storeVars == <<registry, dirty, disk>>
srvVars == <<registry, dirty, disk, setup, auth, cache, replay, gcAge, opened,
             restarts, accepted, finished>>

Error == {"PAIRING_TOKEN", "UNKNOWN_SESSION", "PROOF_VERIFY", "STORAGE",
          "REPLAY_DETECTED", "UNKNOWN_DEVICE", "ROLE_NOT_PERMITTED", "KEY_CONFIRM"}
Code == Error \cup {"SETUP_2", "SETUP_ACK", "AUTH_2", "AUTH_ACK"}
Seqno == {0, 1}
Resp == [f : Flow, seq : Seqno, code : Code, nonce : 0..MaxNonce]

\* response_cache: at most one response per session id and sequence number.
NoEntry == [age |-> 0, peer |-> {}, code |-> "NONE", nonce |-> 0]
Entry == [age : 0..TTL+1, peer : Peer, code : Code, nonce : 0..MaxNonce] \cup {NoEntry}

Init ==
    /\ registry = Disk0 /\ dirty = FALSE /\ disk = Disk0
    /\ setup = [f \in Flow |-> 0] /\ auth = [f \in Flow |-> 0]
    /\ cache = [x \in Flow \X Seqno |-> NoEntry]
    /\ replay = DequeNew(ReplayCap)
    /\ gcAge = 0
    /\ opened = [f \in Flow |-> 0]
    /\ reqs = {} /\ resps = {} /\ restarts = 0
    /\ accepted = <<>> /\ finished = {} /\ disturbed = {}

-----------------------------------------------------------------------------
Active(s) == {f \in Flow : s[f] # 0}

\* The sessions a collection can leave: all, or max_active_sessions of them
\* in whatever order the HashMap enumerates its keys.
Survivors(s) ==
    IF Cardinality(Active(s)) <= MaxSessions THEN {Active(s)}
    ELSE {K \in SUBSET Active(s) : Cardinality(K) = MaxSessions}

\* Mutant: a response is dropped when it is as old as the TTL.
ExpiredEarly(e) == e.code # "NONE" /\ e.age >= TTL

\* retain keeps what is no older than the TTL.
Expired(e) == e.code # "NONE" /\ e.age > TTL

\* The three maps after a collection that leaves the setup sessions S and the
\* auth sessions A.
Retained(S, A) ==
    [cache |-> [x \in Flow \X Seqno |-> IF Expired(cache[x]) THEN NoEntry ELSE cache[x]],
     setup |-> [f \in Flow |-> IF f \in S THEN setup[f] ELSE 0],
     auth |-> [f \in Flow |-> IF f \in A THEN auth[f] ELSE 0],
     evicted |-> (Active(setup) \ S) \cup (Active(auth) \ A)]

\* gc_if_due: the possible contents of the three maps afterwards.
Collected ==
    IF gcAge < GcPeriod
    THEN {[cache |-> cache, setup |-> setup, auth |-> auth, evicted |-> {}]}
    ELSE {Retained(S, A) : S \in Survivors(setup), A \in Survivors(auth)}

GcAge == IF gcAge < GcPeriod THEN gcAge ELSE 0

\* A request arrives; a copy that was on its way for too long is a fault.
Late(m) == IF m.age > Delay THEN {m.f} ELSE {}
Hit(g, m) == g.cache[<<m.f, m.seq>>].code # "NONE" /\ g.cache[<<m.f, m.seq>>].peer = m.peer

\* The response to m goes out.
Respond(m, code, nonce) ==
    resps' = resps \cup {[f |-> m.f, seq |-> m.seq, code |-> code, nonce |-> nonce]}

\* The response is cached under the session id and the sequence number.
Remember(g, m, code, nonce) ==
    cache' = [g.cache EXCEPT ![<<m.f, m.seq>>] =
                 [age |-> 0, peer |-> m.peer, code |-> code, nonce |-> nonce]]

\* What every packet does besides its handler.
Arrive(g, m, faults) ==
    /\ gcAge' = GcAge
    /\ disturbed' = disturbed \cup Late(m) \cup g.evicted \cup faults
    /\ UNCHANGED <<reqs, restarts>>

\* A retransmitted request is answered from the cache.
ServeCached(g, m) ==
    /\ Hit(g, m)
    /\ Arrive(g, m, {})
    /\ Respond(m, g.cache[<<m.f, m.seq>>].code, g.cache[<<m.f, m.seq>>].nonce)
    /\ cache' = g.cache /\ setup' = g.setup /\ auth' = g.auth
    /\ UNCHANGED <<storeVars, replay, opened, accepted, finished>>

\* A handler runs and its response, or its error, is cached.
Execute(g, m, code, nonce, faults) ==
    /\ ~Hit(g, m)
    /\ Arrive(g, m, faults)
    /\ Respond(m, code, nonce)
    /\ Remember(g, m, code, nonce)

Opening(m, kind) == m.seq = 0 /\ Kind[m.f] = kind
Closing(m, kind) == m.seq = 1 /\ Kind[m.f] = kind

\* handle_setup_1 refuses the pairing token.
Setup1Refuse(g, m) ==
    /\ Opening(m, "SETUP") /\ m.f \notin Paired
    /\ Execute(g, m, "PAIRING_TOKEN", 0, {})
    /\ setup' = g.setup /\ auth' = g.auth
    /\ UNCHANGED <<storeVars, replay, opened, accepted, finished>>

\* handle_setup_1 draws a challenge; the session replaces the one the flow had.
Setup1(g, m) ==
    /\ Opening(m, "SETUP") /\ m.f \in Paired
    /\ opened[m.f] < MaxNonce
    /\ opened' = [opened EXCEPT ![m.f] = @ + 1]
    /\ Execute(g, m, "SETUP_2", opened'[m.f], {})
    /\ setup' = [g.setup EXCEPT ![m.f] = opened'[m.f]] /\ auth' = g.auth
    /\ UNCHANGED <<storeVars, replay, accepted, finished>>

\* handle_setup_3 without a session, or with a proof for another challenge:
\* the session stays.
Setup3Refuse(g, m) ==
    /\ Closing(m, "SETUP") /\ g.setup[m.f] # m.nonce
    /\ Execute(g, m, IF g.setup[m.f] = 0 THEN "UNKNOWN_SESSION" ELSE "PROOF_VERIFY", 0, {})
    /\ setup' = g.setup /\ auth' = g.auth
    /\ UNCHANGED <<storeVars, replay, opened, accepted, finished>>

\* FsRegistryStore::save puts the record into the map, then flush writes a new
\* registry.bin and renames it, which may fail.
SaveRecord(d) == registry' = registry \cup {d}
Flush == dirty' = FALSE /\ disk' = registry'
FlushFails == dirty' = TRUE /\ UNCHANGED disk

\* Mutant: the acknowledgement does not wait for the flush.
Setup3NoFlush(g, m) ==
    /\ Closing(m, "SETUP") /\ m.nonce # 0 /\ g.setup[m.f] = m.nonce
    /\ SaveRecord(DevOf[m.f])
    /\ Flush \/ FlushFails
    /\ Execute(g, m, "SETUP_ACK", 0, {})
    /\ setup' = [g.setup EXCEPT ![m.f] = 0] /\ auth' = g.auth
    /\ UNCHANGED <<replay, opened, accepted, finished>>

\* handle_setup_3: the device goes into the map, which is flushed to disk; a
\* failed flush leaves the device in memory, the map dirty and the session open.
Setup3(g, m) ==
    /\ Closing(m, "SETUP") /\ m.nonce # 0 /\ g.setup[m.f] = m.nonce
    /\ SaveRecord(DevOf[m.f])
    /\ \/ /\ Flush
          /\ Execute(g, m, "SETUP_ACK", 0, {})
          /\ setup' = [g.setup EXCEPT ![m.f] = 0]
       \/ /\ FlushFails
          /\ Execute(g, m, "STORAGE", 0, {m.f})
          /\ setup' = g.setup
    /\ auth' = g.auth
    /\ UNCHANGED <<replay, opened, accepted, finished>>

\* handle_auth_1, in the order of its checks.
Auth1Check(m) ==
    CASE DequeContains(replay, m.f) -> "REPLAY_DETECTED"
      [] ~DequeContains(replay, m.f) /\ DevOf[m.f] \notin registry -> "UNKNOWN_DEVICE"
      [] ~DequeContains(replay, m.f) /\ DevOf[m.f] \in registry /\ DevOf[m.f] \notin Permitted ->
            "ROLE_NOT_PERMITTED"
      [] ~DequeContains(replay, m.f) /\ DevOf[m.f] \in registry /\ DevOf[m.f] \in Permitted -> "OK"

Auth1Refuse(g, m) ==
    /\ Opening(m, "AUTH") /\ Auth1Check(m) # "OK"
    /\ Execute(g, m, Auth1Check(m), 0, {})
    /\ setup' = g.setup /\ auth' = g.auth
    /\ UNCHANGED <<storeVars, replay, opened, accepted, finished>>

\* Mutant: the replay key is not inserted.
Auth1NoInsert(g, m) ==
    /\ Opening(m, "AUTH") /\ Auth1Check(m) = "OK"
    /\ opened[m.f] < MaxNonce
    /\ opened' = [opened EXCEPT ![m.f] = @ + 1]
    /\ accepted' = Append(accepted, m.f)
    /\ Execute(g, m, "AUTH_2", opened'[m.f], {})
    /\ setup' = g.setup /\ auth' = [g.auth EXCEPT ![m.f] = opened'[m.f]]
    /\ UNCHANGED <<storeVars, replay, finished>>

\* handle_auth_1 accepts: a fresh ephemeral key, and the replay key last.
Auth1(g, m) ==
    /\ Opening(m, "AUTH") /\ Auth1Check(m) = "OK"
    /\ opened[m.f] < MaxNonce
    /\ opened' = [opened EXCEPT ![m.f] = @ + 1]
    /\ replay' = DequeInsert(replay, m.f)
    /\ accepted' = Append(accepted, m.f)
    /\ Execute(g, m, "AUTH_2", opened'[m.f], {})
    /\ setup' = g.setup /\ auth' = [g.auth EXCEPT ![m.f] = opened'[m.f]]
    /\ UNCHANGED <<storeVars, finished>>

\* handle_auth_3 without a session, or with a tag for another one: the session
\* stays.
Auth3Refuse(g, m) ==
    /\ Closing(m, "AUTH") /\ g.auth[m.f] # m.nonce
    /\ Execute(g, m, IF g.auth[m.f] = 0 THEN "UNKNOWN_SESSION" ELSE "KEY_CONFIRM", 0, {})
    /\ setup' = g.setup /\ auth' = g.auth
    /\ UNCHANGED <<storeVars, replay, opened, accepted, finished>>

\* Mutant: any tag confirms the session.
Auth3AnyTag(g, m) ==
    /\ Closing(m, "AUTH") /\ g.auth[m.f] # 0
    /\ finished' = finished \cup {<<m.f, g.auth[m.f]>>}
    /\ Execute(g, m, "AUTH_ACK", 0, {})
    /\ setup' = g.setup /\ auth' = [g.auth EXCEPT ![m.f] = 0]
    /\ UNCHANGED <<storeVars, replay, opened, accepted>>

\* handle_auth_3 confirms the key and the session is removed.
Auth3(g, m) ==
    /\ Closing(m, "AUTH") /\ m.nonce # 0 /\ g.auth[m.f] = m.nonce
    /\ finished' = finished \cup {<<m.f, m.nonce>>}
    /\ Execute(g, m, "AUTH_ACK", 0, {})
    /\ setup' = g.setup /\ auth' = [g.auth EXCEPT ![m.f] = 0]
    /\ UNCHANGED <<storeVars, replay, opened, accepted>>

\* dispatch_packet, in the critical section that gc_if_due opens.
Dispatch(m) ==
    \E g \in Collected :
        \/ ServeCached(g, m)
        \/ Setup1Refuse(g, m) \/ Setup1(g, m)
        \/ Setup3Refuse(g, m) \/ Setup3(g, m)
        \/ Auth1Refuse(g, m) \/ Auth1(g, m)
        \/ Auth3Refuse(g, m) \/ Auth3(g, m)

\* run_udp collects when a receive times out, too.
IdleGc ==
    /\ gcAge >= GcPeriod
    /\ \E g \in Collected : /\ cache' = g.cache /\ setup' = g.setup /\ auth' = g.auth
                            /\ disturbed' = disturbed \cup g.evicted
    /\ gcAge' = 0
    /\ UNCHANGED <<storeVars, replay, opened, reqs, resps, restarts, accepted, finished>>

\* A new process: the registry is read back, everything else is empty.
Boot(d) ==
    /\ restarts < MaxRestarts
    /\ restarts' = restarts + 1
    /\ registry' = d /\ dirty' = FALSE /\ disk' = d
    /\ setup' = [f \in Flow |-> 0] /\ auth' = [f \in Flow |-> 0]
    /\ cache' = [x \in Flow \X Seqno |-> NoEntry]
    /\ replay' = DequeNew(ReplayCap) /\ accepted' = <<>>
    /\ gcAge' = 0
    /\ disturbed' = Flow
    /\ UNCHANGED <<opened, reqs, resps, finished>>

Restart == Boot(disk)

\* The process dies between the rename of registry.bin and the response.
CrashAfterSave(m) ==
    /\ Closing(m, "SETUP") /\ m.nonce # 0 /\ setup[m.f] = m.nonce
    /\ Boot(registry \cup {DevOf[m.f]})

\* One tick, seen by the server and by the network.
Older(a, limit) == IF a < limit THEN a + 1 ELSE a
AgeServer ==
    /\ cache' = [x \in Flow \X Seqno |->
                    IF cache[x].code = "NONE" THEN NoEntry
                    ELSE [age |-> Older(cache[x].age, TTL + 1), peer |-> cache[x].peer,
                          code |-> cache[x].code, nonce |-> cache[x].nonce]]
    /\ gcAge' = Older(gcAge, GcPeriod)
    /\ reqs' = {[f |-> m.f, seq |-> m.seq, nonce |-> m.nonce, peer |-> m.peer,
                 age |-> Older(m.age, Delay + 1)] : m \in reqs}
    /\ UNCHANGED <<storeVars, setup, auth, replay, opened, resps, restarts, accepted,
                   finished, disturbed>>
=============================================================================
