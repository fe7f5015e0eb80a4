------------------------------ MODULE CServer -------------------------------
(***************************************************************************)
(* The C server (c/bin/server.c): worker threads (the UDP thread and one   *)
(* thread per TCP connection) that dispatch packets against shared state.  *)
(* mu guards the session table and the registry, replay_mu the replay      *)
(* cache, and a worker releases both between the steps of one handler, so  *)
(* every action below is one critical section with the local work next to  *)
(* it, and workers interleave between actions.                             *)
(*                                                                         *)
(* Packets.  An opening packet o is a SETUP_1 or AUTH_1 a client built;    *)
(* o.dev is the device whose secrets it was built from (NoDev: the payload *)
(* does not decode) and o.key the replay key of an AUTH_1.  A device is one*)
(* identity: its device_id, device_pub and role commitment never change    *)
(* once it has credentials.  A third packet (SETUP_3, AUTH_3) is what an   *)
(* honest client computes from its opening packet and the server's answer, *)
(* so it names both: its proof (tag) verifies exactly against the pending  *)
(* session with the same opening packet and server nonce.  The network     *)
(* delivers any packet any number of times in any order, and may lose any  *)
(* packet or reply.                                                        *)
(***************************************************************************)
EXTENDS ReplayRing, SessionTable

CONSTANTS
    Worker,
    Dev,            \* device identities
    NoDev,          \* owner of a packet whose payload does not decode
    Paired,         \* devices whose SETUP_1 carries the pairing token
    Permitted,      \* devices whose role is one of allowed_roles
    Route,          \* Route[sid]: the workers a session's packets can reach
    RegCap,         \* AUTH_REGISTRY_MAX_ENTRIES, 256 in the build
    Disk0,          \* registry.bin when the server is first started
    MaxDeliveries,  \* bound on the packets delivered
    MaxRestarts     \* bound on the process restarts

Sid == {o.sid : o \in Opening}

ASSUME OpeningAssumption ==
    \A o \in Opening : /\ o.t \in {"SETUP_1", "AUTH_1", "OTHER"}
                       /\ o.dev \in Dev \cup {NoDev}
                       /\ o.t = "AUTH_1" => o.key \in Key
ASSUME DevAssumption == NoDev \notin Dev /\ Paired \subseteq Dev /\ Permitted \subseteq Dev
ASSUME RouteAssumption == Route \in [Sid -> SUBSET Worker]
ASSUME Disk0Assumption ==
    /\ Disk0 \in Seq(Dev)
    /\ \A i, j \in 1..Len(Disk0) : Disk0[i] = Disk0[j] => i = j
ASSUME BoundsAssumption ==
    RegCap \in Nat /\ MaxDeliveries \in Nat /\ MaxRestarts \in Nat

VARIABLES
    sessions,   \* server_state_t.sessions
    ring,       \* server_state_t.replay_cache
    registry,   \* server_state_t.registry: the devices, in entry order
    disk,       \* registry.bin
    pc,         \* where each worker is in dispatch
    job,        \* the packet a worker handles, its slot, its copy of a session
    scan,       \* the locals of try_handle_auth1
    replies,    \* every answer sent (error replies change nobody's state)
    delivered,  \* number of packets delivered
    restarts,   \* number of restarts
    accepted    \* history: keys the replay guard accepted since the last start

netVars == <<replies, delivered, restarts>>
vars == <<sessions, ring, registry, disk, pc, job, scan, replies, delivered,
          restarts, accepted>>

Third == [t : {"SETUP_3", "AUTH_3"}, open : Opening, nonce : Nat]
Packet == Opening \cup Third
SidOf(p) == IF p.t \in {"SETUP_3", "AUTH_3"} THEN p.open.sid ELSE p.sid

Error == {"TOO_MANY_ACTIVE", "PAIRING_TOKEN_BAD", "WIRE", "INVALID_ARGUMENT",
          "UNKNOWN_SESSION", "PROOF_VERIFY", "STORAGE_FAILURE", "UNKNOWN_DEVICE",
          "REPLAY_DETECTED", "ROLE_NOT_PERMITTED", "KEY_CONFIRM", "UNKNOWN_PKT_TYPE"}
Answer == {"SETUP_2", "SETUP_ACK", "AUTH_2", "AUTH_ACK"}
Reply == [to : Packet, code : Answer, nonce : Nat]

NoPend == [open |-> NoOpen, nonce |-> 0]
Pend == [open : Opening \cup {NoOpen}, nonce : Nat]
NoJob == [pkt |-> NoOpen, id |-> 0, slot |-> 0, pend |-> NoPend]
Job == [pkt : Packet \cup {NoOpen}, id : Nat, slot : SlotIndex, pend : Pend]

NoScan == [i |-> 0, n |-> 0, cand |-> NoDev, last |-> "UNKNOWN_DEVICE"]
Scan == [i : Nat, n : Nat, cand : Dev \cup {NoDev}, last : Error]

PC == {"idle", "setup1", "setup3", "auth1_n", "auth1_cand", "auth1_guard",
       "auth1_act", "auth1_fail", "auth3"}

\* Packets that can be on the network: opening packets, and the third packet
\* of every client that was answered (client side: handle_setup2/build_setup3,
\* handle_auth2/build_auth3).
Setup3Packet(r) == [t |-> "SETUP_3", open |-> r.to, nonce |-> r.nonce]
Auth3Packet(r) == [t |-> "AUTH_3", open |-> r.to, nonce |-> r.nonce]
InFlight == Opening \cup {Setup3Packet(r) : r \in {q \in replies : q.code = "SETUP_2"}}
                    \cup {Auth3Packet(r) : r \in {q \in replies : q.code = "AUTH_2"}}

\* main, up to the start of the transport threads.
Init ==
    /\ sessions = TableInit
    /\ ring = RingInit
    /\ registry = Disk0 /\ disk = Disk0
    /\ pc = [w \in Worker |-> "idle"]
    /\ job = [w \in Worker |-> NoJob]
    /\ scan = [w \in Worker |-> NoScan]
    /\ replies = {} /\ delivered = 0 /\ restarts = 0
    /\ accepted = <<>>

-----------------------------------------------------------------------------
\* Mutant of the registration: no search for an existing entry.
RegistryPutAppend(reg, d) == IF Len(reg) >= RegCap THEN reg ELSE Append(reg, d)

\* auth_registry_put: an existing entry is rewritten with the same values.
Enrolled(reg) == {reg[i] : i \in 1..Len(reg)}
PutFails(reg, d) == d \notin Enrolled(reg) /\ Len(reg) >= RegCap
RegistryPut(reg, d) ==
    IF d \in Enrolled(reg) \/ Len(reg) >= RegCap THEN reg ELSE Append(reg, d)

\* auth_registry_save over atomic_write: registry.bin is replaced as a whole,
\* or an I/O error leaves it as it was.
RegistrySave(reg) == disk' = reg
RegistrySaveFails == UNCHANGED disk

\* A packet reaches an idle worker (run_udp, handle_tcp_conn).
Deliver(w, p) ==
    /\ pc[w] = "idle"
    /\ delivered < MaxDeliveries
    /\ w \in Route[SidOf(p)]
    /\ delivered' = delivered + 1
    /\ UNCHANGED restarts

\* dispatch returns: the reply goes out, the worker waits for a packet.  An
\* answer is tagged with the number of its request; for SETUP_2 and AUTH_2
\* that is the fresh server nonce.  An error reply goes out at once or after
\* the handler's work, and is not recorded.
Sent(p, code, id) == [to |-> p, code |-> code, nonce |-> id]
ErrorNow(code) == code \in Error /\ UNCHANGED <<pc, job, scan, replies>>
Return(w, code) ==
    /\ replies' = IF code \in Error THEN replies
                  ELSE replies \cup {Sent(job[w].pkt, code, job[w].id)}
    /\ pc' = [pc EXCEPT ![w] = "idle"]
    /\ job' = [job EXCEPT ![w] = NoJob]
    /\ scan' = [scan EXCEPT ![w] = NoScan]
    /\ UNCHANGED <<delivered, restarts>>

Goto(w, l) == pc' = [pc EXCEPT ![w] = l]
Begin(w, p, s, pend, l) ==
    /\ job' = [job EXCEPT ![w] = [pkt |-> p, id |-> delivered', slot |-> s, pend |-> pend]]
    /\ Goto(w, l)
    /\ UNCHANGED <<scan, replies>>

\* A packet type the server does not dispatch on.
OtherPacket(w, p) ==
    /\ p.t = "OTHER"
    /\ Deliver(w, p)
    /\ ErrorNow("UNKNOWN_PKT_TYPE")
    /\ UNCHANGED <<sessions, ring, registry, disk, accepted>>

\* SETUP_1 or AUTH_1 with no free slot.
TooManyActive(w, p) ==
    /\ p.t \in {"SETUP_1", "AUTH_1"}
    /\ Deliver(w, p)
    /\ TableFull(sessions)
    /\ ErrorNow("TOO_MANY_ACTIVE")
    /\ UNCHANGED <<sessions, ring, registry, disk, accepted>>

\* SETUP_1 or AUTH_1: reserve a slot before the expensive verification.
Reserve(w, p) ==
    /\ p.t \in {"SETUP_1", "AUTH_1"}
    /\ Deliver(w, p)
    /\ \E s \in SlotIndex :
          /\ ReserveReturns(sessions, s)
          /\ sessions' = TableReserve(sessions, s)
          /\ Begin(w, p, s, NoPend, IF p.t = "SETUP_1" THEN "setup1" ELSE "auth1_n")
    /\ UNCHANGED <<ring, registry, disk, accepted>>

-----------------------------------------------------------------------------
\* auth_server_handle_setup1: decode, pairing token, points.
SetupCheck(p) == IF p.dev = NoDev THEN "WIRE"
                 ELSE IF p.dev \notin Paired THEN "PAIRING_TOKEN_BAD" ELSE "OK"

\* Mutant: an early return that keeps the reservation.
Setup1RefuseLeak(w) ==
    /\ pc[w] = "setup1"
    /\ SetupCheck(job[w].pkt) # "OK"
    /\ Return(w, SetupCheck(job[w].pkt))
    /\ UNCHANGED <<sessions, ring, registry, disk, accepted>>

\* auth_server_handle_setup1 refuses: the slot is given back.
Setup1Refuse(w) ==
    /\ pc[w] = "setup1"
    /\ SetupCheck(job[w].pkt) # "OK"
    /\ sessions' = TableRelease(sessions, job[w].slot)
    /\ Return(w, SetupCheck(job[w].pkt))
    /\ UNCHANGED <<ring, registry, disk, accepted>>

\* A worker that has verified an opening packet turns its reservation into a
\* session, and answers; a slot that is no longer reserved is given back.
Activate(w, st, code) ==
    IF ActivateOK(sessions, job[w].slot)
    THEN /\ sessions' = TableActivate(sessions, job[w].slot, st, job[w].pkt, job[w].id)
         /\ Return(w, code)
    ELSE /\ sessions' = TableRelease(sessions, job[w].slot)
         /\ Return(w, "INVALID_ARGUMENT")

Setup1Activate(w) ==
    /\ pc[w] = "setup1"
    /\ SetupCheck(job[w].pkt) = "OK"
    /\ Activate(w, "SETUP", "SETUP_2")
    /\ UNCHANGED <<ring, registry, disk, accepted>>

\* SETUP_3 or AUTH_3 of no active session.
UnknownSession(w, p) ==
    /\ p.t \in {"SETUP_3", "AUTH_3"}
    /\ Deliver(w, p)
    /\ FindFails(sessions, IF p.t = "SETUP_3" THEN "SETUP" ELSE "AUTH", SidOf(p))
    /\ ErrorNow("UNKNOWN_SESSION")
    /\ UNCHANGED <<sessions, ring, registry, disk, accepted>>

\* SETUP_3 or AUTH_3: copy the pending session out of the table.
Find(w, p) ==
    /\ p.t \in {"SETUP_3", "AUTH_3"}
    /\ Deliver(w, p)
    /\ \E s \in SlotIndex :
          /\ FindReturns(sessions, s, IF p.t = "SETUP_3" THEN "SETUP" ELSE "AUTH", SidOf(p))
          /\ Begin(w, p, s, [open |-> sessions[s].open, nonce |-> sessions[s].nonce],
                   IF p.t = "SETUP_3" THEN "setup3" ELSE "auth3")
    /\ UNCHANGED <<sessions, ring, registry, disk, accepted>>

\* auth_server_handle_setup3: the client's proof is over the nonces and the
\* challenge of the session the worker copied.
ProofVerifies(w) == /\ job[w].pend.open = job[w].pkt.open
                    /\ job[w].pend.nonce = job[w].pkt.nonce

\* auth_server_handle_setup3 refuses: the session stays where it is.
Setup3Refuse(w) ==
    /\ pc[w] = "setup3"
    /\ ~ProofVerifies(w)
    /\ Return(w, "PROOF_VERIFY")
    /\ UNCHANGED <<sessions, ring, registry, disk, accepted>>

\* Mutant: the registry is saved before the device is put into it.
Setup3PutSaveFirst(w) ==
    /\ pc[w] = "setup3"
    /\ ProofVerifies(w)
    /\ disk' = registry
    /\ registry' = RegistryPut(registry, job[w].pend.open.dev)
    /\ sessions' = TableRelease(sessions, job[w].slot)
    /\ Return(w, IF PutFails(registry, job[w].pend.open.dev)
                 THEN "TOO_MANY_ACTIVE" ELSE "SETUP_ACK")
    /\ UNCHANGED <<ring, accepted>>

\* A verified SETUP_3: put, save, release in one critical section.  A
\* failed put is not saved.
Setup3Put(w) ==
    /\ pc[w] = "setup3"
    /\ ProofVerifies(w)
    /\ registry' = RegistryPut(registry, job[w].pend.open.dev)
    /\ sessions' = TableRelease(sessions, job[w].slot)
    /\ \/ /\ PutFails(registry, job[w].pend.open.dev)
          /\ UNCHANGED disk
          /\ Return(w, "TOO_MANY_ACTIVE")
       \/ /\ ~PutFails(registry, job[w].pend.open.dev)
          /\ RegistrySave(registry')
          /\ Return(w, "SETUP_ACK")
       \/ /\ ~PutFails(registry, job[w].pend.open.dev)
          /\ RegistrySaveFails
          /\ Return(w, "STORAGE_FAILURE")
    /\ UNCHANGED <<ring, accepted>>

-----------------------------------------------------------------------------
\* try_handle_auth1 reads the number of entries once, before the scan.
Auth1ReadN(w) ==
    /\ pc[w] = "auth1_n"
    /\ scan' = [scan EXCEPT ![w] = [i |-> 0, n |-> Len(registry), cand |-> NoDev,
                                    last |-> "UNKNOWN_DEVICE"]]
    /\ Goto(w, IF Len(registry) = 0 THEN "auth1_fail" ELSE "auth1_cand")
    /\ UNCHANGED <<sessions, ring, registry, disk, job, accepted, netVars>>

\* Copy entry i (entries are numbered from 0 in the code).
Auth1Candidate(w) ==
    /\ pc[w] = "auth1_cand"
    /\ scan' = [scan EXCEPT ![w] = [i |-> scan[w].i, n |-> scan[w].n,
                                    cand |-> registry[scan[w].i + 1],
                                    last |-> scan[w].last]]
    /\ Goto(w, "auth1_guard")
    /\ UNCHANGED <<sessions, ring, registry, disk, job, accepted, netVars>>

\* Mutant: the proof is not checked against the candidate.
AuthCheckAnyone(p, cand) == IF p.dev \notin Permitted THEN "ROLE_NOT_PERMITTED" ELSE "OK"

\* auth_server_handle_auth1 against one registry entry: the Schnorr proof, the
\* pid and the rerandomization proof match the device's entry only; then the
\* role.
AuthCheck(p, cand) == IF p.dev # cand THEN "PROOF_VERIFY"
                      ELSE IF p.dev \notin Permitted THEN "ROLE_NOT_PERMITTED" ELSE "OK"

\* Mutant: the cache is consulted for the first candidate only.
GuardResultFirst(w) ==
    LET p == job[w].pkt
    IN  CASE p.dev = NoDev -> "WIRE"
          [] p.dev # NoDev /\ scan[w].i = 0 /\ RingContains(ring, p.key) -> "REPLAY_DETECTED"
          [] p.dev # NoDev /\ ~(scan[w].i = 0 /\ RingContains(ring, p.key)) ->
                AuthCheck(p, scan[w].cand)

\* auth_server_handle_auth1_guarded with the copied candidate.
GuardResult(w) ==
    LET p == job[w].pkt
    IN  CASE p.dev = NoDev -> "WIRE"
          [] p.dev # NoDev /\ RingContains(ring, p.key) -> "REPLAY_DETECTED"
          [] p.dev # NoDev /\ ~RingContains(ring, p.key) ->
                AuthCheck(p, scan[w].cand)

\* The whole check-verify-insert transaction, under replay_mu.
Auth1Accept(w) ==
    /\ pc[w] = "auth1_guard"
    /\ GuardResult(w) = "OK"
    /\ ring' = RingInsert(ring, job[w].pkt.key)
    /\ accepted' = Append(accepted, job[w].pkt.key)
    /\ Goto(w, "auth1_act")
    /\ UNCHANGED <<sessions, registry, disk, job, scan, netVars>>

\* Mutants: the scan stops one entry early; it never moves on.
Auth1RefuseShort(w) ==
    /\ pc[w] = "auth1_guard"
    /\ GuardResult(w) # "OK"
    /\ scan' = [scan EXCEPT ![w] = [i |-> scan[w].i + 1, n |-> scan[w].n,
                                    cand |-> scan[w].cand, last |-> GuardResult(w)]]
    /\ Goto(w, IF /\ GuardResult(w) \in {"PROOF_VERIFY", "ROLE_NOT_PERMITTED"}
                  /\ scan[w].i + 2 < scan[w].n
               THEN "auth1_cand" ELSE "auth1_fail")
    /\ UNCHANGED <<sessions, ring, registry, disk, job, accepted, netVars>>

Auth1RefuseStuck(w) ==
    /\ pc[w] = "auth1_guard"
    /\ GuardResult(w) # "OK"
    /\ scan' = [scan EXCEPT ![w].last = GuardResult(w)]
    /\ Goto(w, IF /\ GuardResult(w) \in {"PROOF_VERIFY", "ROLE_NOT_PERMITTED"}
                  /\ scan[w].i < scan[w].n
               THEN "auth1_cand" ELSE "auth1_fail")
    /\ UNCHANGED <<sessions, ring, registry, disk, job, accepted, netVars>>

\* The candidate is refused: scan on after PROOF_VERIFY or ROLE_NOT_PERMITTED
\* while entries are left, stop otherwise.
Auth1Refuse(w) ==
    /\ pc[w] = "auth1_guard"
    /\ GuardResult(w) # "OK"
    /\ scan' = [scan EXCEPT ![w] = [i |-> scan[w].i + 1, n |-> scan[w].n,
                                    cand |-> scan[w].cand, last |-> GuardResult(w)]]
    /\ Goto(w, IF /\ GuardResult(w) \in {"PROOF_VERIFY", "ROLE_NOT_PERMITTED"}
                  /\ scan[w].i + 1 < scan[w].n
               THEN "auth1_cand" ELSE "auth1_fail")
    /\ UNCHANGED <<sessions, ring, registry, disk, job, accepted, netVars>>

Auth1Activate(w) ==
    /\ pc[w] = "auth1_act"
    /\ Activate(w, "AUTH", "AUTH_2")
    /\ UNCHANGED <<ring, registry, disk, accepted>>

\* The scan ended without a match: the slot is given back, the last error
\* is the answer.
Auth1Fail(w) ==
    /\ pc[w] = "auth1_fail"
    /\ sessions' = TableRelease(sessions, job[w].slot)
    /\ Return(w, scan[w].last)
    /\ UNCHANGED <<ring, registry, disk, accepted>>

\* auth_server_handle_auth3: the tag is over the transcript of the session
\* the worker copied.
TagVerifies(w) == /\ job[w].pend.open = job[w].pkt.open
                  /\ job[w].pend.nonce = job[w].pkt.nonce

\* Mutant: the slot is released on failure only.
Auth3FinishKeep(w) ==
    /\ pc[w] = "auth3"
    /\ sessions' = IF TagVerifies(w) THEN sessions ELSE TableRelease(sessions, job[w].slot)
    /\ Return(w, IF TagVerifies(w) THEN "AUTH_ACK" ELSE "KEY_CONFIRM")
    /\ UNCHANGED <<ring, registry, disk, accepted>>

\* AUTH_3: the slot is released whether or not the tag verifies.
Auth3Finish(w) ==
    /\ pc[w] = "auth3"
    /\ sessions' = TableRelease(sessions, job[w].slot)
    /\ Return(w, IF TagVerifies(w) THEN "AUTH_ACK" ELSE "KEY_CONFIRM")
    /\ UNCHANGED <<ring, registry, disk, accepted>>

-----------------------------------------------------------------------------
\* A new process: empty table and replay cache, registry read from disk.
Boot(d) ==
    /\ restarts < MaxRestarts
    /\ restarts' = restarts + 1
    /\ sessions' = TableInit /\ ring' = RingInit
    /\ disk' = d /\ registry' = d
    /\ pc' = [w \in Worker |-> "idle"]
    /\ job' = [w \in Worker |-> NoJob]
    /\ scan' = [w \in Worker |-> NoScan]
    /\ accepted' = <<>>
    /\ UNCHANGED <<replies, delivered>>

Restart == Boot(disk)

\* The process dies after the rename of registry.bin, before the reply.
CrashAfterSave(w) ==
    /\ pc[w] = "setup3"
    /\ ProofVerifies(w)
    /\ ~PutFails(registry, job[w].pend.open.dev)
    /\ Boot(RegistryPut(registry, job[w].pend.open.dev))

\* The bounded environment has no more packets.
Drained ==
    /\ delivered = MaxDeliveries
    /\ \A w \in Worker : pc[w] = "idle"
    /\ UNCHANGED vars

Receive(w) ==
    \E p \in InFlight : \/ OtherPacket(w, p)
                        \/ TooManyActive(w, p)
                        \/ Reserve(w, p)
                        \/ UnknownSession(w, p)
                        \/ Find(w, p)

\* What a worker does on its own once it has a packet.
Step(w) ==
    \/ Setup1Refuse(w) \/ Setup1Activate(w)
    \/ Setup3Refuse(w) \/ Setup3Put(w)
    \/ Auth1ReadN(w) \/ Auth1Candidate(w) \/ Auth1Accept(w) \/ Auth1Refuse(w)
    \/ Auth1Activate(w) \/ Auth1Fail(w)
    \/ Auth3Finish(w)

Next ==
    \/ \E w \in Worker : Receive(w) \/ Step(w) \/ CrashAfterSave(w)
    \/ Restart
    \/ Drained

Spec == Init /\ [][Next]_vars

-----------------------------------------------------------------------------
\* Each session's packets reach one worker: what an honest client does, that
\* runs a handshake over one socket or one connection with a fresh random
\* session id.
SingleRoute == \A s \in Sid : \A v, w \in Route[s] : v = w

Reserving(w) == pc[w] \in {"setup1", "auth1_n", "auth1_cand", "auth1_guard",
                           "auth1_act", "auth1_fail"}

\* Shape of the state.
TypeOK ==
    /\ sessions \in [SlotIndex -> Slot]
    /\ ring \in RingType
    /\ registry \in Seq(Dev) /\ disk \in Seq(Dev)
    /\ pc \in [Worker -> PC] /\ job \in [Worker -> Job] /\ scan \in [Worker -> Scan]
    /\ replies \subseteq Reply
    /\ delivered \in 0..MaxDeliveries /\ restarts \in 0..MaxRestarts
    /\ accepted \in Seq(Key)

\* The comment at server.c:85: reserving before verifying keeps concurrent
\* UDP and TCP workers from claiming the same slot.
SlotHeldByOne ==
    \A v, w \in Worker : Reserving(v) /\ Reserving(w) /\ job[v].slot = job[w].slot => v = w

\* The comment at server.c:85: the slot a worker reserved stays reserved until
\* that worker gives it up, no two workers hold the same slot, and no slot is
\* reserved for nobody (a leak that nothing would ever undo).
ReservationsOwned ==
    /\ \A w \in Worker : Reserving(w) => sessions[job[w].slot].state = "RESERVED"
    /\ SlotHeldByOne
    /\ \A i \in SlotIndex : sessions[i].state = "RESERVED" =>
          \E w \in Worker : Reserving(w) /\ job[w].slot = i

\* The comment at server.c:114: however the deliveries of an AUTH_1 interleave,
\* on any workers and under any outer session ids, the guard accepts it again
\* only after Cap other acceptances have pushed it out of the cache.
AcceptOncePerWindow ==
    \A i, j \in 1..Len(accepted) :
        (i < j /\ accepted[i] = accepted[j]) => j - i > Cap

\* A pending session leaves the table only because a worker finished a third
\* packet with that session's id, or because the process restarted: nobody
\* else's release or activation takes the slot (server.c:274, 302).
NoSessionLost ==
    [][\A i \in SlotIndex :
          sessions[i].state \in {"SETUP", "AUTH"} /\ sessions'[i] # sessions[i] =>
              \/ restarts' # restarts
              \/ \E w \in Worker : /\ pc[w] \in {"setup3", "auth3"}
                                   /\ pc'[w] = "idle"
                                   /\ SidOf(job[w].pkt) = sessions[i].open.sid]_vars

\* A third packet is acknowledged once, however often it is retransmitted:
\* find, verify and release (server.c:288-305) act as one step per session.
OneAckPerSession ==
    \A q, r \in replies :
        q.code \in {"SETUP_ACK", "AUTH_ACK"} /\ q.code = r.code /\ q.to = r.to => q = r

\* A device that was sent SETUP_ACK is in registry.bin, through every failed
\* save, crash and restart, and memory never knows less than the disk
\* (server.c:271-273).
AckedIsDurable ==
    /\ \A r \in replies : r.code = "SETUP_ACK" => r.to.open.dev \in Enrolled(disk)
    /\ Len(disk) <= Len(registry)
    /\ \A i \in 1..Len(disk) : disk[i] = registry[i]

\* The registry never holds a device twice (two SETUP_3 of a retransmitted
\* handshake, or an enrolment repeated after a failed save).
NoDuplicateEntry ==
    \A i, j \in 1..Len(registry) : registry[i] = registry[j] => i = j

\* The scan misses nobody: an AUTH_1 that fails for want of a matching entry
\* was sent by a device that was not among the reg_n entries read at its
\* start, though entries were added and refused in between (server.c:157-198).
ScanFindsEnrolled ==
    \A w \in Worker :
        /\ pc[w] = "auth1_fail"
        /\ scan[w].last \in {"UNKNOWN_DEVICE", "PROOF_VERIFY"}
        /\ job[w].pkt.dev \in Permitted
        => \A i \in 1..scan[w].n : registry[i] # job[w].pkt.dev

\* A pending AUTH session belongs to an enrolled, permitted device and to a
\* key the guard accepted since the process started.
SessionsWereAccepted ==
    \A i \in SlotIndex : sessions[i].state = "AUTH" =>
        /\ sessions[i].open.dev \in Permitted
        /\ sessions[i].open.dev \in Enrolled(registry)
        /\ \E k \in 1..Len(accepted) : accepted[k] = sessions[i].open.key

\* Every packet a worker has taken is dealt with: the scan terminates and no
\* worker waits for another.
RequestAnswered == \A w \in Worker : pc[w] # "idle" ~> pc[w] = "idle"

\* c/wire-spec.md:530: the response to a retransmitted packet is the response
\* to the first one, verbatim.
RetransmitIdempotent ==
    \A q, r \in replies :
        q.to = r.to /\ r.code \in {"SETUP_2", "AUTH_2"} => q = r

-----------------------------------------------------------------------------
(* Parts of the inductive invariant.                                       *)

InAuth1(w) == pc[w] \in {"auth1_n", "auth1_cand", "auth1_guard", "auth1_act", "auth1_fail"}

\* What a worker's job is at each place in dispatch.
JobOK(w) ==
    /\ pc[w] = "setup1" => job[w].pkt \in Opening
    /\ InAuth1(w) => job[w].pkt \in Opening /\ job[w].pkt.t = "AUTH_1"
    /\ pc[w] \in {"setup3", "auth3"} => job[w].pkt \in Third
    /\ pc[w] = "setup3" => /\ job[w].pend.open \in Opening
                           /\ job[w].pend.open.dev \in Paired
    /\ pc[w] = "auth1_act" =>
          /\ job[w].pkt.dev \in Permitted
          /\ job[w].pkt.dev \in Enrolled(registry)
          /\ \E k \in 1..Len(accepted) : accepted[k] = job[w].pkt.key
JobInv == \A w \in Worker : JobOK(w)

\* The scan: entries before i did not match a permitted device.
ScanOK(w) ==
    /\ pc[w] \in {"auth1_cand", "auth1_guard"} =>
          /\ scan[w].i < scan[w].n
          /\ scan[w].n <= Len(registry)
          /\ job[w].pkt.dev \in Permitted =>
                \A k \in 1..scan[w].i : registry[k] # job[w].pkt.dev
    /\ pc[w] = "auth1_guard" => scan[w].cand = registry[scan[w].i + 1]
    /\ pc[w] = "auth1_fail" =>
          /\ scan[w].n <= Len(registry)
          /\ scan[w].last = "UNKNOWN_DEVICE" => scan[w].n = 0
          /\ scan[w].last = "PROOF_VERIFY" /\ job[w].pkt.dev \in Permitted =>
                \A k \in 1..scan[w].n : registry[k] # job[w].pkt.dev
ScanInv == \A w \in Worker : ScanOK(w)

\* What the table's sessions are.
SlotInv ==
    \A i \in SlotIndex :
        /\ sessions[i].state \in {"SETUP", "AUTH"} => sessions[i].open \in Opening
        /\ sessions[i].state = "SETUP" => sessions[i].open.dev \in Paired

ReplyInv ==
    \A r \in replies : /\ r.code \in {"SETUP_2", "AUTH_2"} => r.to \in Opening
                       /\ r.code \in {"SETUP_ACK", "AUTH_ACK"} => r.to \in Third

\* A worker's packets are its own, and a worker between the find and the end
\* of a third packet has the session still in its slot.
RouteInv ==
    \A w \in Worker :
        /\ pc[w] # "idle" => w \in Route[SidOf(job[w].pkt)]
        /\ pc[w] = "setup3" => Holds(sessions, job[w].slot, "SETUP", SidOf(job[w].pkt))
        /\ pc[w] = "auth3" => Holds(sessions, job[w].slot, "AUTH", SidOf(job[w].pkt))

\* The invariant whatever the routes are, and what single routes add.
IInv ==
    /\ TypeOK /\ JobInv /\ ScanInv /\ SlotInv /\ ReplyInv
    /\ RingTracks(ring, accepted) /\ AcceptOncePerWindow
    /\ AckedIsDurable /\ NoDuplicateEntry /\ SessionsWereAccepted

RouteIInv == IInv /\ RouteInv /\ ReservationsOwned

\* Server nonces, with single routes.  A worker's copy of a session is still
\* what the slot holds; a nonce is with one reservation or in one session or
\* in one acknowledged packet; and all of them are older than the next one.
Pending(i) == sessions[i].state \in {"SETUP", "AUTH"}
Acked == {r \in replies : r.code \in {"SETUP_ACK", "AUTH_ACK"}}
CopyInv ==
    \A w \in Worker : pc[w] \in {"setup3", "auth3"} =>
        /\ job[w].pend.open = sessions[job[w].slot].open
        /\ job[w].pend.nonce = sessions[job[w].slot].nonce
ReservedNonces ==
    \A w \in Worker : Reserving(w) =>
        /\ job[w].id <= delivered
        /\ \A v \in Worker : Reserving(v) /\ job[v].id = job[w].id => v = w
PendingNonces ==
    \A i \in SlotIndex : Pending(i) =>
        /\ sessions[i].nonce <= delivered
        /\ \A w \in Worker : Reserving(w) => job[w].id # sessions[i].nonce
        /\ \A j \in SlotIndex : Pending(j) /\ sessions[j].nonce = sessions[i].nonce => j = i
AckedNonces ==
    \A r \in Acked :
        /\ r.to \in Third /\ r.to.nonce <= delivered
        /\ \A w \in Worker : Reserving(w) => job[w].id # r.to.nonce
        /\ \A i \in SlotIndex : Pending(i) => sessions[i].nonce # r.to.nonce
        /\ \A q \in Acked : q.to.nonce = r.to.nonce => q = r
NonceInv == CopyInv /\ ReservedNonces /\ PendingNonces /\ AckedNonces
=============================================================================
