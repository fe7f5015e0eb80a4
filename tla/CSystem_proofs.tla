--------------------------- MODULE CSystem_proofs ---------------------------
(***************************************************************************)
(* The C server, for every number of workers, devices, keys, sessions and  *)
(* every capacity, and then the C client against it, for every number of   *)
(* runs and attempts.  The server's packets come from the client, so the   *)
(* server inside the composition is CServer (ClientImplementsServer) and   *)
(* keeps its invariants; ClientInv ties what a run holds to what the       *)
(* server did.                                                             *)
(***************************************************************************)
EXTENDS CClient, ReplayCaches_proofs

USE TabCapAssumption, DevAssumption

\* What the server can receive is well formed.
LEMMA InFlightPackets ==
    ASSUME TypeOK, ReplyInv
    PROVE  /\ InFlight \subseteq Packet
           /\ \A p \in InFlight : /\ p.t \in {"SETUP_1", "AUTH_1", "OTHER"} => p \in Opening
                                  /\ p.t \in {"SETUP_3", "AUTH_3"} => p \in Third
<1>1. ASSUME NEW r \in replies, r.code \in {"SETUP_2", "AUTH_2"}
      PROVE  Setup3Packet(r) \in Third /\ Auth3Packet(r) \in Third
  <2>1. r.to \in Opening /\ r.nonce \in Nat
      BY <1>1 DEF ReplyInv, TypeOK, Reply
  <2> QED BY <2>1 DEF Setup3Packet, Auth3Packet, Third
<1>2. \A p \in Third : p.t \in {"SETUP_3", "AUTH_3"}
    BY DEF Third
<1>3. \A p \in Opening : p.t \in {"SETUP_1", "AUTH_1", "OTHER"}
    BY OpeningAssumption
<1> QED BY <1>1, <1>2, <1>3 DEF InFlight, Packet

\* A released, reserved or activated slot is a slot.
LEMMA TableTypes ==
    ASSUME NEW t \in [SlotIndex -> Slot], NEW i \in SlotIndex
    PROVE  /\ TableRelease(t, i) \in [SlotIndex -> Slot]
           /\ TableReserve(t, i) \in [SlotIndex -> Slot]
           /\ \A st \in SlotState, o \in Opening, n \in Nat :
                 TableActivate(t, i, st, o, n) \in [SlotIndex -> Slot]
<1>1. FreeSlot \in Slot /\ ReservedSlot \in Slot
    BY DEF FreeSlot, ReservedSlot, Slot, SlotState
<1>2. \A st \in SlotState, o \in Opening, n \in Nat :
         [state |-> st, open |-> o, nonce |-> n] \in Slot
    BY DEF Slot
<1> QED BY <1>1, <1>2 DEF TableRelease, TableReserve, TableActivate

LEMMA RegistryPutType ==
    ASSUME NEW reg \in Seq(Dev), NEW d \in Dev
    PROVE  /\ RegistryPut(reg, d) \in Seq(Dev)
           /\ Len(reg) <= Len(RegistryPut(reg, d))
           /\ \A i \in 1..Len(reg) : RegistryPut(reg, d)[i] = reg[i]
BY DEF RegistryPut

\* dispatch returns.
LEMMA ReturnTypes ==
    ASSUME TypeOK, NEW w \in Worker, pc[w] # "idle", NEW code \in Error \cup Answer,
           job[w].pkt \in Packet, Return(w, code)
    PROVE  /\ pc' \in [Worker -> PC] /\ job' \in [Worker -> Job] /\ scan' \in [Worker -> Scan]
           /\ replies' \subseteq Reply
           /\ delivered' \in 0..MaxDeliveries /\ restarts' \in 0..MaxRestarts
<1>1. pc' \in [Worker -> PC]
    BY DEF Return, TypeOK, PC
<1>2. NoJob \in Job
    BY DEF NoJob, Job, NoPend, Pend, SlotIndex
<1>3. job' \in [Worker -> Job]
    BY <1>2 DEF Return, TypeOK
<1>4. NoScan \in Scan
    BY DEF NoScan, Scan, Error
<1>5. scan' \in [Worker -> Scan]
    BY <1>4 DEF Return, TypeOK
<1>6. replies' \subseteq Reply
  <2>1. CASE code \in Error
      BY <2>1 DEF Return, TypeOK
  <2>2. CASE code \notin Error
    <3>1. job[w].id \in Nat
        BY DEF TypeOK, Job
    <3>2. Sent(job[w].pkt, code, job[w].id) \in Reply
        BY <2>2, <3>1 DEF Sent, Reply
    <3> QED BY <2>2, <3>2 DEF Return, TypeOK
  <2> QED BY <2>1, <2>2
<1> QED BY <1>1, <1>3, <1>5, <1>6 DEF Return, TypeOK

\* A worker begins to handle a packet.
LEMMA BeginTypes ==
    ASSUME TypeOK, NEW w \in Worker, NEW p \in Packet, NEW s \in SlotIndex,
           NEW pend \in Pend, NEW l \in PC, Deliver(w, p), Begin(w, p, s, pend, l)
    PROVE  /\ pc' \in [Worker -> PC] /\ job' \in [Worker -> Job] /\ scan' \in [Worker -> Scan]
           /\ replies' \subseteq Reply
           /\ delivered' \in 0..MaxDeliveries /\ restarts' \in 0..MaxRestarts
<1>1. delivered' \in 0..MaxDeliveries /\ delivered' \in Nat
    BY BoundsAssumption DEF Deliver, TypeOK
<1>2. [pkt |-> p, id |-> delivered', slot |-> s, pend |-> pend] \in Job
    BY <1>1 DEF Job
<1>3. job' \in [Worker -> Job]
    BY <1>2 DEF Begin, TypeOK
<1>4. pc' \in [Worker -> PC]
    BY DEF Begin, Goto, TypeOK
<1> QED BY <1>1, <1>3, <1>4 DEF Begin, Deliver, TypeOK

\* A restarted process is in a well-formed state.
LEMMA BootTypes ==
    ASSUME TypeOK, NEW d \in Seq(Dev), Boot(d)
    PROVE  TypeOK'
<1>1. NoJob \in Job /\ NoScan \in Scan /\ "idle" \in PC
    BY DEF NoJob, Job, NoPend, Pend, SlotIndex, NoScan, Scan, Error, PC
<1>2. FreeSlot \in Slot
    BY DEF FreeSlot, Slot, SlotState
<1>3. TableInit \in [SlotIndex -> Slot]
    BY <1>2 DEF TableInit
<1>4. RingInit \in RingType
    BY RingInitTracks DEF RingTracks
<1>5. restarts' \in 0..MaxRestarts
    BY BoundsAssumption DEF Boot, TypeOK
<1> QED BY <1>1, <1>3, <1>4, <1>5 DEF Boot, TypeOK

\* The worker's own steps keep the shape of the state.
LEMMA StepTypes ==
    ASSUME IInv, NEW w \in Worker, Step(w)
    PROVE  TypeOK'
<1> DEFINE s == job[w].slot
<1>1. /\ TypeOK /\ sessions \in [SlotIndex -> Slot] /\ s \in SlotIndex
      /\ job[w].id \in Nat /\ job[w].pkt \in Packet \cup {NoOpen}
    BY DEF IInv, TypeOK, Job
<1>2. pc[w] # "idle" => job[w].pkt \in Packet
  <2>1. pc[w] \in PC
      BY <1>1 DEF TypeOK
  <2> QED BY <2>1 DEF IInv, JobInv, JobOK, InAuth1, Packet, PC
<1>3. CASE Setup1Refuse(w)
    BY <1>1, <1>2, <1>3, TableTypes, ReturnTypes DEF Setup1Refuse, SetupCheck, TypeOK, Error
<1>4. ASSUME NEW st \in {"SETUP", "AUTH"}, NEW code \in {"SETUP_2", "AUTH_2"},
             pc[w] \in {"setup1", "auth1_act"}, Activate(w, st, code),
             UNCHANGED <<ring, registry, disk, accepted>>
      PROVE  TypeOK'
  <2>1. job[w].pkt \in Opening
      BY <1>4 DEF IInv, JobInv, JobOK, InAuth1
  <2>2. sessions' \in [SlotIndex -> Slot]
      BY <1>1, <1>4, <2>1, TableTypes DEF Activate, SlotState
  <2>3. \E c \in {code, "INVALID_ARGUMENT"} : Return(w, c)
      BY <1>4 DEF Activate
  <2> QED BY <1>1, <1>2, <1>4, <2>2, <2>3, ReturnTypes DEF TypeOK, Error, Answer
<1>5. CASE Setup1Activate(w)
    BY <1>4, <1>5 DEF Setup1Activate
<1>6. CASE Setup3Refuse(w)
    BY <1>1, <1>2, <1>6, ReturnTypes DEF Setup3Refuse, TypeOK, Error
<1>7. CASE Setup3Put(w)
  <2>1. job[w].pend.open.dev \in Dev /\ registry \in Seq(Dev) /\ disk \in Seq(Dev)
      BY <1>7 DEF Setup3Put, IInv, JobInv, JobOK, TypeOK
  <2>2. registry' \in Seq(Dev) /\ disk' \in Seq(Dev)
      BY <1>7, <2>1, RegistryPutType DEF Setup3Put, RegistrySave, RegistrySaveFails
  <2>3. \E c \in {"TOO_MANY_ACTIVE", "SETUP_ACK", "STORAGE_FAILURE"} : Return(w, c)
      BY <1>7 DEF Setup3Put
  <2>4. sessions' \in [SlotIndex -> Slot] /\ UNCHANGED <<ring, accepted>> /\ pc[w] # "idle"
      BY <1>1, <1>7, TableTypes DEF Setup3Put
  <2> QED BY <1>1, <1>2, <2>2, <2>3, <2>4, ReturnTypes DEF TypeOK, Error, Answer
<1>8. CASE Auth1ReadN(w)
  <2>1. [i |-> 0, n |-> Len(registry), cand |-> NoDev, last |-> "UNKNOWN_DEVICE"] \in Scan
      BY <1>1 DEF Scan, Error, TypeOK
  <2>2. scan' \in [Worker -> Scan] /\ pc' \in [Worker -> PC]
      BY <1>1, <1>8, <2>1 DEF Auth1ReadN, Goto, TypeOK, PC
  <2> QED BY <1>1, <1>8, <2>2 DEF Auth1ReadN, TypeOK, netVars
<1>9. CASE Auth1Candidate(w)
  <2>1. /\ scan[w].i \in Nat /\ scan[w].n \in Nat /\ scan[w].last \in Error
        /\ registry \in Seq(Dev)
      BY <1>1 DEF TypeOK, Scan
  <2>2. scan[w].i < scan[w].n /\ scan[w].n <= Len(registry)
      BY <1>9 DEF Auth1Candidate, IInv, ScanInv, ScanOK
  <2>3. registry[scan[w].i + 1] \in Dev
      BY <2>1, <2>2
  <2>4. [i |-> scan[w].i, n |-> scan[w].n, cand |-> registry[scan[w].i + 1],
         last |-> scan[w].last] \in Scan
      BY <2>1, <2>3 DEF Scan
  <2>5. scan' \in [Worker -> Scan] /\ pc' \in [Worker -> PC]
      BY <1>1, <1>9, <2>4 DEF Auth1Candidate, Goto, TypeOK, PC
  <2> QED BY <1>1, <1>9, <2>5 DEF Auth1Candidate, TypeOK, netVars
<1>10. CASE Auth1Accept(w)
  <2>1. job[w].pkt.key \in Key
      BY <1>10, OpeningAssumption DEF Auth1Accept, IInv, JobInv, JobOK, InAuth1
  <2>2. ring' \in RingType /\ accepted' \in Seq(Key)
    <3>1. CASE RingContains(ring, job[w].pkt.key)
        BY <1>1, <1>10, <2>1, <3>1 DEF Auth1Accept, RingInsert, TypeOK
    <3>2. CASE ~RingContains(ring, job[w].pkt.key)
        BY <1>10, <2>1, <3>2, RingInsertTracks DEF Auth1Accept, IInv, RingTracks
    <3> QED BY <3>1, <3>2
  <2>3. pc' \in [Worker -> PC]
      BY <1>1, <1>10 DEF Auth1Accept, Goto, TypeOK, PC
  <2> QED BY <1>1, <1>10, <2>2, <2>3 DEF Auth1Accept, TypeOK, netVars
<1>11. CASE Auth1Refuse(w)
  <2>1. GuardResult(w) \in Error
    <3>1. GuardResult(w) # "OK"
        BY <1>11 DEF Auth1Refuse
    <3>2. GuardResult(w) \in {"WIRE", "REPLAY_DETECTED", "PROOF_VERIFY",
                              "ROLE_NOT_PERMITTED", "OK"}
        BY DEF GuardResult, AuthCheck
    <3> QED BY <3>1, <3>2 DEF Error
  <2>2. [i |-> scan[w].i + 1, n |-> scan[w].n, cand |-> scan[w].cand,
         last |-> GuardResult(w)] \in Scan
    <3>1. scan[w].i + 1 \in Nat /\ scan[w].n \in Nat /\ scan[w].cand \in Dev \cup {NoDev}
        BY <1>1 DEF TypeOK, Scan
    <3> QED BY <2>1, <3>1 DEF Scan
  <2>3. scan' \in [Worker -> Scan] /\ pc' \in [Worker -> PC]
      BY <1>1, <1>11, <2>2 DEF Auth1Refuse, Goto, TypeOK, PC
  <2> QED BY <1>1, <1>11, <2>3 DEF Auth1Refuse, TypeOK, netVars
<1>12. CASE Auth1Activate(w)
    BY <1>4, <1>12 DEF Auth1Activate
<1>13. CASE Auth1Fail(w)
  <2>1. scan[w].last \in Error
      BY <1>1 DEF TypeOK, Scan
  <2> QED BY <1>1, <1>2, <1>13, <2>1, TableTypes, ReturnTypes DEF Auth1Fail, TypeOK
<1>14. CASE Auth3Finish(w)
  <2>1. \E c \in {"AUTH_ACK", "KEY_CONFIRM"} : Return(w, c)
      BY <1>14 DEF Auth3Finish
  <2> QED BY <1>1, <1>2, <1>14, <2>1, TableTypes, ReturnTypes
          DEF Auth3Finish, TypeOK, Error, Answer
<1> QED BY <1>3, <1>5, <1>6, <1>7, <1>8, <1>9, <1>10, <1>11, <1>12, <1>13, <1>14 DEF Step

\* So does taking a packet.
LEMMA ReceiveTypes ==
    ASSUME IInv, NEW w \in Worker, Receive(w)
    PROVE  TypeOK'
<1>1. PICK p \in InFlight : \/ OtherPacket(w, p) \/ TooManyActive(w, p) \/ Reserve(w, p)
                            \/ UnknownSession(w, p) \/ Find(w, p)
    BY DEF Receive
<1>2. p \in Packet /\ TypeOK /\ sessions \in [SlotIndex -> Slot]
    BY InFlightPackets DEF IInv, TypeOK
<1>3. ASSUME NEW code, ErrorNow(code), Deliver(w, p),
             UNCHANGED <<sessions, ring, registry, disk, accepted>>
      PROVE  TypeOK'
  <2>1. delivered' \in 0..MaxDeliveries
      BY <1>2, <1>3, BoundsAssumption DEF Deliver, TypeOK
  <2> QED BY <1>2, <1>3, <2>1 DEF ErrorNow, Deliver, TypeOK
<1>4. CASE Reserve(w, p)
  <2>1. PICK s \in SlotIndex :
          /\ sessions' = TableReserve(sessions, s)
          /\ Begin(w, p, s, NoPend, IF p.t = "SETUP_1" THEN "setup1" ELSE "auth1_n")
      BY <1>4 DEF Reserve
  <2>2. NoPend \in Pend
      BY DEF NoPend, Pend
  <2>3. Deliver(w, p) /\ UNCHANGED <<ring, registry, disk, accepted>>
      BY <1>4 DEF Reserve
  <2> QED BY <1>2, <2>1, <2>2, <2>3, TableTypes, BeginTypes DEF TypeOK, PC
<1>5. CASE Find(w, p)
  <2>1. PICK s \in SlotIndex :
          Begin(w, p, s, [open |-> sessions[s].open, nonce |-> sessions[s].nonce],
                IF p.t = "SETUP_3" THEN "setup3" ELSE "auth3")
      BY <1>5 DEF Find
  <2>2. [open |-> sessions[s].open, nonce |-> sessions[s].nonce] \in Pend
      BY <1>2 DEF Pend, Slot
  <2>3. Deliver(w, p) /\ UNCHANGED <<sessions, ring, registry, disk, accepted>>
      BY <1>5 DEF Find
  <2> QED BY <1>2, <2>1, <2>2, <2>3, BeginTypes DEF TypeOK, PC
<1> QED BY <1>1, <1>3, <1>4, <1>5 DEF OtherPacket, TooManyActive, UnknownSession

-----------------------------------------------------------------------------
\* A worker's step leaves the other workers where they are.
LEMMA OthersUnchanged ==
    ASSUME TypeOK, NEW w \in Worker, Step(w) \/ Receive(w), NEW v \in Worker, v # w
    PROVE  pc'[v] = pc[v] /\ job'[v] = job[v] /\ scan'[v] = scan[v]
<1>1. pc \in [Worker -> PC] /\ job \in [Worker -> Job] /\ scan \in [Worker -> Scan]
    BY DEF TypeOK
<1>2. ASSUME NEW code, Return(w, code)
      PROVE  pc'[v] = pc[v] /\ job'[v] = job[v] /\ scan'[v] = scan[v]
    BY <1>1, <1>2 DEF Return
<1>3. CASE Receive(w)
    BY <1>1, <1>3 DEF Receive, OtherPacket, TooManyActive, Reserve, UnknownSession, Find,
                      ErrorNow, Begin, Goto
<1>4. CASE Auth1ReadN(w) \/ Auth1Candidate(w) \/ Auth1Accept(w) \/ Auth1Refuse(w)
    BY <1>1, <1>4 DEF Auth1ReadN, Auth1Candidate, Auth1Accept, Auth1Refuse, Goto
<1>5. CASE \/ Setup1Refuse(w) \/ Setup1Activate(w) \/ Setup3Refuse(w) \/ Setup3Put(w)
           \/ Auth1Activate(w) \/ Auth1Fail(w) \/ Auth3Finish(w)
  <2>1. \E code \in Error \cup Answer \cup {scan[w].last} : Return(w, code)
      BY <1>5 DEF SetupCheck, Setup1Refuse, Setup1Activate, Setup3Refuse, Setup3Put, Auth1Activate,
                  Auth1Fail, Auth3Finish, Activate, Error, Answer
  <2> QED BY <1>2, <2>1
<1> QED BY <1>3, <1>4, <1>5 DEF Step

\* Between restarts the registry and the history of accepted keys only grow.
LEMMA HistoryGrows ==
    ASSUME IInv, NEW w \in Worker, Step(w) \/ Receive(w)
    PROVE  /\ Len(registry) <= Len(registry')
           /\ \A i \in 1..Len(registry) : registry'[i] = registry[i]
           /\ Len(accepted) <= Len(accepted')
           /\ \A i \in 1..Len(accepted) : accepted'[i] = accepted[i]
<1>1. registry \in Seq(Dev) /\ accepted \in Seq(Key)
    BY DEF IInv, TypeOK
<1>2. CASE Auth1Accept(w)
  <2>1. job[w].pkt.key \in Key
      BY <1>2, OpeningAssumption DEF Auth1Accept, IInv, JobInv, JobOK, InAuth1
  <2> QED BY <1>1, <1>2, <2>1 DEF Auth1Accept
<1>3. CASE Setup3Put(w)
  <2>1. job[w].pend.open.dev \in Dev
      BY <1>3 DEF Setup3Put, IInv, JobInv, JobOK
  <2>2. registry' = RegistryPut(registry, job[w].pend.open.dev) /\ accepted' = accepted
      BY <1>3 DEF Setup3Put
  <2>3. /\ Len(registry) <= Len(registry')
        /\ \A i \in 1..Len(registry) : registry'[i] = registry[i]
      BY <1>1, <2>1, <2>2, RegistryPutType
  <2> QED BY <1>1, <2>2, <2>3
<1>4. CASE UNCHANGED <<registry, accepted>>
    BY <1>1, <1>4
<1>5. CASE Receive(w)
    BY <1>4, <1>5 DEF Receive, OtherPacket, TooManyActive, Reserve, UnknownSession, Find
<1> QED BY <1>2, <1>3, <1>4, <1>5
        DEF Step, Setup1Refuse, Setup1Activate, Setup3Refuse, Auth1ReadN, Auth1Candidate,
            Auth1Refuse, Auth1Activate, Auth1Fail, Auth3Finish

\* What was enrolled or accepted stays so.
LEMMA EnrolledGrows ==
    ASSUME IInv, NEW w \in Worker, Step(w) \/ Receive(w)
    PROVE  /\ \A d : d \in Enrolled(registry) => d \in Enrolled(registry')
           /\ \A x : (\E k \in 1..Len(accepted) : accepted[k] = x)
                         => \E k \in 1..Len(accepted') : accepted'[k] = x
<1>1. /\ Len(registry) \in Nat /\ Len(registry') \in Nat
      /\ Len(accepted) \in Nat /\ Len(accepted') \in Nat
    BY StepTypes, ReceiveTypes DEF IInv, TypeOK
<1> QED BY <1>1, HistoryGrows DEF Enrolled

\* auth_replay_cache and the guard: only an accepted AUTH_1 moves the ring,
\* and only with a key that is not in the window.
LEMMA RingStep ==
    ASSUME IInv, NEW w \in Worker, Step(w) \/ Receive(w)
    PROVE  RingTracks(ring, accepted)' /\ AcceptOncePerWindow'
<1>1. RingTracks(ring, accepted) /\ AcceptOncePerWindow /\ accepted \in Seq(Key)
    BY DEF IInv, TypeOK
<1>2. CASE Auth1Accept(w)
  <2> DEFINE k == job[w].pkt.key
  <2>1. k \in Key
      BY <1>2, OpeningAssumption DEF Auth1Accept, IInv, JobInv, JobOK, InAuth1
  <2>2. ~RingContains(ring, k)
      BY <1>2 DEF Auth1Accept, GuardResult, AuthCheck
  <2>3. RingTracks(ring', accepted')
      BY <1>1, <1>2, <2>1, <2>2, RingInsertTracks DEF Auth1Accept
  <2>4. k \notin LastKeys(accepted)
      BY <1>1, <2>1, <2>2, RingContainsLastKeys
  <2>5. accepted' = Append(accepted, k)
      BY <1>2 DEF Auth1Accept
  <2> HIDE DEF k
  <2>6. /\ Len(accepted') = Len(accepted) + 1 /\ accepted'[Len(accepted) + 1] = k
        /\ \A i \in 1..Len(accepted) : accepted'[i] = accepted[i]
        /\ Len(accepted) \in Nat
      BY <1>1, <2>1, <2>5
  <2>7. ASSUME NEW i \in 1..Len(accepted'), NEW j \in 1..Len(accepted'),
               i < j, accepted'[i] = accepted'[j]
        PROVE  j - i > Cap
    <3>1. CASE j = Len(accepted) + 1
      <4>1. i \in 1..Len(accepted) /\ accepted[i] = k
          BY <2>6, <2>7, <3>1
      <4>2. ~(i + Cap > Len(accepted))
          BY <2>4, <4>1 DEF LastKeys
      <4>3. i \in Nat /\ Cap \in Nat /\ Len(accepted) \in Nat
          BY <2>6, CapAssumption
      <4> QED BY <3>1, <4>2, <4>3
    <3>2. CASE j # Len(accepted) + 1
      <4>1. i \in 1..Len(accepted) /\ j \in 1..Len(accepted)
          BY <2>6, <2>7, <3>2
      <4> QED BY <1>1, <2>6, <2>7, <4>1 DEF AcceptOncePerWindow
    <3> QED BY <3>1, <3>2
  <2> QED BY <2>3, <2>7 DEF AcceptOncePerWindow
<1>3. CASE UNCHANGED <<ring, accepted>>
    BY <1>1, <1>3 DEF AcceptOncePerWindow
<1>4. CASE Receive(w)
    BY <1>3, <1>4 DEF Receive, OtherPacket, TooManyActive, Reserve, UnknownSession, Find
<1> QED BY <1>2, <1>3, <1>4
        DEF Step, Setup1Refuse, Setup1Activate, Setup3Refuse, Setup3Put, Auth1ReadN,
            Auth1Candidate, Auth1Refuse, Auth1Activate, Auth1Fail, Auth3Finish

\* auth_registry_put never enters a device twice.
LEMMA PutNoDuplicate ==
    ASSUME NEW reg \in Seq(Dev), NEW d \in Dev,
           \A i, j \in 1..Len(reg) : reg[i] = reg[j] => i = j
    PROVE  /\ \A i, j \in 1..Len(RegistryPut(reg, d)) :
                 RegistryPut(reg, d)[i] = RegistryPut(reg, d)[j] => i = j
           /\ ~PutFails(reg, d) => d \in Enrolled(RegistryPut(reg, d))
<1>1. CASE d \in Enrolled(reg) \/ Len(reg) >= RegCap
    BY <1>1 DEF RegistryPut, PutFails
<1>2. CASE ~(d \in Enrolled(reg) \/ Len(reg) >= RegCap)
  <2> DEFINE r == Append(reg, d)
  <2>1. RegistryPut(reg, d) = r
      BY <1>2 DEF RegistryPut
  <2>2. /\ Len(r) = Len(reg) + 1 /\ r[Len(reg) + 1] = d /\ Len(reg) \in Nat
        /\ \A i \in 1..Len(reg) : r[i] = reg[i]
      OBVIOUS
  <2>3. \A i \in 1..Len(reg) : reg[i] # d
      BY <1>2 DEF Enrolled
  <2> HIDE DEF r
  <2>4. ASSUME NEW i \in 1..Len(r), NEW j \in 1..Len(r), r[i] = r[j]
        PROVE  i = j
      BY <2>2, <2>3, <2>4
  <2>5. d \in Enrolled(r)
      BY <2>2 DEF Enrolled
  <2> QED BY <2>1, <2>4, <2>5
<1> QED BY <1>1, <1>2

\* The registry and its file.
LEMMA RegistryStep ==
    ASSUME IInv, NEW w \in Worker, Step(w) \/ Receive(w)
    PROVE  AckedIsDurable' /\ NoDuplicateEntry'
<1>1. /\ registry \in Seq(Dev) /\ disk \in Seq(Dev) /\ AckedIsDurable /\ NoDuplicateEntry
      /\ JobOK(w) /\ TypeOK
    BY DEF IInv, TypeOK, JobInv
<1>2. ASSUME UNCHANGED <<registry, disk>>,
             \A r \in replies' : r.code = "SETUP_ACK" => r \in replies
      PROVE  AckedIsDurable' /\ NoDuplicateEntry'
  <2>1. NoDuplicateEntry'
      BY <1>1, <1>2 DEF NoDuplicateEntry
  <2>2. Enrolled(disk') = Enrolled(disk)
      BY <1>2
  <2>3. \A r \in replies' : r.code = "SETUP_ACK" => r.to.open.dev \in Enrolled(disk')
      BY <1>1, <1>2, <2>2 DEF AckedIsDurable
  <2>4. Len(disk') <= Len(registry') /\ \A i \in 1..Len(disk') : disk'[i] = registry'[i]
      BY <1>1, <1>2 DEF AckedIsDurable
  <2> QED BY <2>1, <2>3, <2>4 DEF AckedIsDurable
<1>3. ASSUME NEW code, Return(w, code), code # "SETUP_ACK"
      PROVE  \A r \in replies' : r.code = "SETUP_ACK" => r \in replies
    BY <1>3 DEF Return, Sent
<1>4. CASE Setup3Put(w)
  <2> DEFINE d == job[w].pend.open.dev
  <2>1. /\ d \in Dev /\ registry' = RegistryPut(registry, d)
        /\ job[w].pkt.open.dev = d
      BY <1>1, <1>4 DEF Setup3Put, JobOK, ProofVerifies
  <2>2. /\ Len(registry) <= Len(registry') /\ registry' \in Seq(Dev)
        /\ \A i \in 1..Len(registry) : registry'[i] = registry[i]
      BY <1>1, <2>1, RegistryPutType
  <2>3. NoDuplicateEntry' /\ (~PutFails(registry, d) => d \in Enrolled(registry'))
      BY <1>1, <2>1, PutNoDuplicate DEF NoDuplicateEntry
  <2>4. /\ Len(disk) \in Nat /\ Len(registry) \in Nat /\ Len(registry') \in Nat
        /\ Len(disk) <= Len(registry) /\ \A i \in 1..Len(disk) : disk[i] = registry[i]
        /\ \A r \in replies : r.code = "SETUP_ACK" => r.to.open.dev \in Enrolled(disk)
      BY <1>1, <2>2 DEF AckedIsDurable
  <2>5. ASSUME disk' = disk, NEW code \in {"TOO_MANY_ACTIVE", "STORAGE_FAILURE"}, Return(w, code)
        PROVE  AckedIsDurable' /\ NoDuplicateEntry'
    <3>1. \A r \in replies' : r.code = "SETUP_ACK" => r \in replies
        BY <1>3, <2>5
    <3>2. /\ Len(disk') <= Len(registry')
          /\ \A i \in 1..Len(disk') : disk'[i] = registry'[i]
        BY <2>2, <2>4, <2>5
    <3>3. Enrolled(disk') = Enrolled(disk)
        BY <2>5
    <3>4. \A r \in replies' : r.code = "SETUP_ACK" => r.to.open.dev \in Enrolled(disk')
        BY <2>4, <3>1, <3>3
    <3> QED BY <2>3, <3>2, <3>4 DEF AckedIsDurable
  <2>6. ASSUME Return(w, "SETUP_ACK"), disk' = registry', ~PutFails(registry, d)
        PROVE  AckedIsDurable' /\ NoDuplicateEntry'
    <3>1. \A x \in Enrolled(disk) : x \in Enrolled(disk')
        BY <2>2, <2>4, <2>6 DEF Enrolled
    <3>2. d \in Enrolled(disk')
        BY <2>3, <2>6
    <3>3. replies' = replies \cup {Sent(job[w].pkt, "SETUP_ACK", job[w].id)}
        BY <2>6 DEF Return, Error
    <3>4. \A r \in replies' : r.code = "SETUP_ACK" => r.to.open.dev \in Enrolled(disk')
        BY <2>1, <2>4, <3>1, <3>2, <3>3 DEF Sent
    <3> QED BY <2>2, <2>3, <2>6, <3>4 DEF AckedIsDurable
  <2> HIDE DEF d
  <2> QED BY <1>4, <2>5, <2>6 DEF Setup3Put, RegistrySave, RegistrySaveFails, d
<1>5. CASE Receive(w)
    BY <1>2, <1>5 DEF Receive, OtherPacket, TooManyActive, Reserve, UnknownSession, Find,
                      ErrorNow, Begin
<1>6. CASE Auth1ReadN(w) \/ Auth1Candidate(w) \/ Auth1Accept(w) \/ Auth1Refuse(w)
    BY <1>2, <1>6 DEF Auth1ReadN, Auth1Candidate, Auth1Accept, Auth1Refuse, netVars
<1>7. CASE \/ Setup1Refuse(w) \/ Setup1Activate(w) \/ Setup3Refuse(w)
           \/ Auth1Activate(w) \/ Auth1Fail(w) \/ Auth3Finish(w)
  <2>1. scan[w].last # "SETUP_ACK"
      BY <1>1 DEF TypeOK, Scan, Error
  <2>2. \E code : Return(w, code) /\ code # "SETUP_ACK"
      BY <1>7, <2>1 DEF SetupCheck, Setup1Refuse, Setup1Activate, Setup3Refuse, Auth1Activate,
                        Auth1Fail, Auth3Finish, Activate
  <2>3. UNCHANGED <<registry, disk>>
      BY <1>7 DEF Setup1Refuse, Setup1Activate, Setup3Refuse, Auth1Activate,
                  Auth1Fail, Auth3Finish
  <2> QED BY <1>2, <1>3, <2>2, <2>3
<1> QED BY <1>4, <1>5, <1>6, <1>7 DEF Step

\* How one step of a worker can change a slot.
SlotChange(w, i) ==
    \/ sessions'[i] = sessions[i]
    \/ sessions'[i] \in {FreeSlot, ReservedSlot}
    \/ /\ pc[w] = "setup1" /\ job[w].pkt.dev \in Paired
       /\ sessions'[i] = [state |-> "SETUP", open |-> job[w].pkt, nonce |-> job[w].id]
    \/ /\ pc[w] = "auth1_act"
       /\ sessions'[i] = [state |-> "AUTH", open |-> job[w].pkt, nonce |-> job[w].id]

\* The table changes by reservation, release or activation of one slot.
LEMMA TableStep ==
    ASSUME TypeOK, NEW w \in Worker, Step(w) \/ Receive(w), NEW i \in SlotIndex
    PROVE  SlotChange(w, i)
<1>1. sessions \in [SlotIndex -> Slot]
    BY DEF TypeOK
<1>2. CASE Receive(w)
    BY <1>1, <1>2 DEF SlotChange, Receive, OtherPacket, TooManyActive, Reserve, UnknownSession,
                      Find, TableReserve
<1>3. CASE \/ Setup1Refuse(w) \/ Setup3Refuse(w) \/ Setup3Put(w) \/ Auth1ReadN(w)
           \/ Auth1Candidate(w) \/ Auth1Accept(w) \/ Auth1Refuse(w) \/ Auth1Fail(w)
           \/ Auth3Finish(w)
    BY <1>1, <1>3 DEF SlotChange, Setup1Refuse, Setup3Refuse, Setup3Put, Auth1ReadN,
                      Auth1Candidate, Auth1Accept, Auth1Refuse, Auth1Fail, Auth3Finish,
                      TableRelease
<1>4. CASE Setup1Activate(w)
    BY <1>1, <1>4 DEF SlotChange, SetupCheck, Setup1Activate, Activate, TableActivate, TableRelease
<1>5. CASE Auth1Activate(w)
    BY <1>1, <1>5 DEF SlotChange, Auth1Activate, Activate, TableActivate, TableRelease
<1> QED BY <1>2, <1>3, <1>4, <1>5 DEF Step

\* The sessions in the table.
LEMMA SessionsStep ==
    ASSUME IInv, NEW w \in Worker, Step(w) \/ Receive(w)
    PROVE  SlotInv' /\ SessionsWereAccepted'
<1> SUFFICES ASSUME NEW i \in SlotIndex
             PROVE  /\ /\ sessions'[i].state \in {"SETUP", "AUTH"} => sessions'[i].open \in Opening
                       /\ sessions'[i].state = "SETUP" => sessions'[i].open.dev \in Paired
                    /\ sessions'[i].state = "AUTH" =>
                          /\ sessions'[i].open.dev \in Permitted
                          /\ sessions'[i].open.dev \in Enrolled(registry')
                          /\ \E k \in 1..Len(accepted') : accepted'[k] = sessions'[i].open.key
    BY DEF SlotInv, SessionsWereAccepted
<1>1. SlotChange(w, i)
    BY TableStep DEF IInv
<1>2. CASE sessions'[i] = sessions[i]
    BY <1>2, EnrolledGrows DEF IInv, SlotInv, SessionsWereAccepted
<1>3. CASE sessions'[i] \in {FreeSlot, ReservedSlot}
    BY <1>3 DEF FreeSlot, ReservedSlot
<1>4. CASE /\ pc[w] = "setup1" /\ job[w].pkt.dev \in Paired
           /\ sessions'[i] = [state |-> "SETUP", open |-> job[w].pkt, nonce |-> job[w].id]
    BY <1>4 DEF IInv, JobInv, JobOK
<1>5. CASE /\ pc[w] = "auth1_act"
           /\ sessions'[i] = [state |-> "AUTH", open |-> job[w].pkt, nonce |-> job[w].id]
  <2>1. /\ job[w].pkt \in Opening /\ job[w].pkt.dev \in Permitted
        /\ job[w].pkt.dev \in Enrolled(registry)
        /\ \E k \in 1..Len(accepted) : accepted[k] = job[w].pkt.key
      BY <1>5 DEF IInv, JobInv, JobOK, InAuth1
  <2>2. /\ job[w].pkt.dev \in Enrolled(registry')
        /\ \E k \in 1..Len(accepted') : accepted'[k] = job[w].pkt.key
      BY <2>1, EnrolledGrows
  <2> QED BY <1>5, <2>1, <2>2
<1> QED BY <1>1, <1>2, <1>3, <1>4, <1>5 DEF SlotChange

\* SETUP_2 and AUTH_2 answer opening packets, acknowledgements third packets.
LEMMA RepliesStep ==
    ASSUME IInv, NEW w \in Worker, Step(w) \/ Receive(w)
    PROVE  ReplyInv'
<1>1. ReplyInv /\ JobOK(w) /\ TypeOK
    BY DEF IInv, JobInv
<1>2. CASE replies' = replies
    BY <1>1, <1>2 DEF ReplyInv
<1>3. ASSUME NEW code, Return(w, code),
             code \in {"SETUP_2", "AUTH_2"} => job[w].pkt \in Opening,
             code \in {"SETUP_ACK", "AUTH_ACK"} => job[w].pkt \in Third
      PROVE  ReplyInv'
    BY <1>1, <1>3 DEF ReplyInv, Return, Sent
<1>4. CASE Receive(w)
    BY <1>2, <1>4 DEF Receive, OtherPacket, TooManyActive, Reserve, UnknownSession, Find,
                      ErrorNow, Begin
<1>5. CASE Auth1ReadN(w) \/ Auth1Candidate(w) \/ Auth1Accept(w) \/ Auth1Refuse(w)
    BY <1>2, <1>5 DEF Auth1ReadN, Auth1Candidate, Auth1Accept, Auth1Refuse, netVars
<1>6. CASE Setup1Refuse(w) \/ Setup3Refuse(w)
    BY <1>3, <1>6 DEF SetupCheck, Setup1Refuse, Setup3Refuse
<1>7. CASE Auth1Fail(w)
  <2>1. scan[w].last \in Error
      BY <1>1 DEF TypeOK, Scan
  <2>2. replies' = replies
      BY <1>7, <2>1 DEF Auth1Fail, Return
  <2> QED BY <1>2, <2>2
<1>8. CASE Setup1Activate(w) \/ Auth1Activate(w)
  <2>1. job[w].pkt \in Opening
      BY <1>1, <1>8 DEF Setup1Activate, Auth1Activate, JobOK, InAuth1
  <2> QED BY <1>3, <1>8, <2>1 DEF Setup1Activate, Auth1Activate, Activate
<1>9. CASE Setup3Put(w) \/ Auth3Finish(w)
  <2>1. job[w].pkt \in Third
      BY <1>1, <1>9 DEF Setup3Put, Auth3Finish, JobOK
  <2> QED BY <1>3, <1>9, <2>1 DEF Setup3Put, Auth3Finish
<1> QED BY <1>4, <1>5, <1>6, <1>7, <1>8, <1>9 DEF Step

\* Where a worker's own step leaves it: idle, or further in the same handler.
LEMMA JobStep ==
    ASSUME IInv, NEW w \in Worker, Step(w) \/ Receive(w), NEW v \in Worker
    PROVE  JobOK(v)'
<1>1. TypeOK /\ JobOK(v) /\ JobOK(w) /\ ScanOK(w) /\ SlotInv
    BY DEF IInv, JobInv, ScanInv
<1>2. pc \in [Worker -> PC] /\ job \in [Worker -> Job] /\ scan \in [Worker -> Scan]
    BY <1>1 DEF TypeOK
<1>3. CASE v # w
  <2>1. pc'[v] = pc[v] /\ job'[v] = job[v] /\ scan'[v] = scan[v]
      BY <1>1, <1>3, OthersUnchanged
  <2> QED BY <1>1, <2>1, EnrolledGrows DEF JobOK, InAuth1
<1>4. CASE v = w /\ pc'[w] = "idle"
    BY <1>4 DEF JobOK, InAuth1
<1>5. ASSUME v = w, Receive(w) PROVE JobOK(v)'
  <2>1. PICK p \in InFlight : \/ OtherPacket(w, p) \/ TooManyActive(w, p) \/ Reserve(w, p)
                              \/ UnknownSession(w, p) \/ Find(w, p)
      BY <1>5 DEF Receive
  <2>2. CASE OtherPacket(w, p) \/ TooManyActive(w, p) \/ UnknownSession(w, p)
    <3>1. pc'[w] = "idle"
        BY <2>2 DEF OtherPacket, TooManyActive, UnknownSession, ErrorNow, Deliver
    <3> QED BY <1>4, <1>5, <3>1
  <2>3. CASE Reserve(w, p)
    <3>1. p \in Opening /\ p.t \in {"SETUP_1", "AUTH_1"}
        BY <1>1, <2>3, InFlightPackets DEF Reserve, IInv
    <3>2. /\ job'[w].pkt = p
          /\ pc'[w] = IF p.t = "SETUP_1" THEN "setup1" ELSE "auth1_n"
        BY <1>2, <2>3 DEF Reserve, Begin, Goto
    <3> QED BY <1>5, <3>1, <3>2 DEF JobOK, InAuth1
  <2>4. CASE Find(w, p)
    <3>1. p \in Third
        BY <1>1, <2>4, InFlightPackets DEF Find, IInv
    <3>2. PICK s \in SlotIndex :
            /\ FindReturns(sessions, s, IF p.t = "SETUP_3" THEN "SETUP" ELSE "AUTH", SidOf(p))
            /\ Begin(w, p, s, [open |-> sessions[s].open, nonce |-> sessions[s].nonce],
                     IF p.t = "SETUP_3" THEN "setup3" ELSE "auth3")
        BY <2>4 DEF Find
    <3>3. /\ job'[w].pkt = p /\ job'[w].pend.open = sessions[s].open
          /\ pc'[w] = IF p.t = "SETUP_3" THEN "setup3" ELSE "auth3"
        BY <1>2, <3>2 DEF Begin, Goto
    <3>4. p.t = "SETUP_3" => sessions[s].open \in Opening /\ sessions[s].open.dev \in Paired
        BY <1>1, <3>2 DEF FindReturns, Holds, SlotInv
    <3> QED BY <1>5, <3>1, <3>3, <3>4 DEF JobOK, InAuth1
  <2> QED BY <2>1, <2>2, <2>3, <2>4
<1>6. ASSUME v = w, Auth1Accept(w) PROVE JobOK(v)'
  <2>1. /\ job'[w] = job[w] /\ pc'[w] = "auth1_act" /\ registry' = registry
        /\ accepted' = Append(accepted, job[w].pkt.key)
      BY <1>2, <1>6 DEF Auth1Accept, Goto
  <2>2. job[w].pkt \in Opening /\ job[w].pkt.t = "AUTH_1"
      BY <1>1, <1>6 DEF Auth1Accept, JobOK, InAuth1
  <2>3. job[w].pkt.dev \in Permitted /\ job[w].pkt.dev = scan[w].cand
      BY <1>6 DEF Auth1Accept, GuardResult, AuthCheck
  <2>4. scan[w].cand \in Enrolled(registry)
    <3>1. /\ scan[w].cand = registry[scan[w].i + 1]
          /\ scan[w].i < scan[w].n /\ scan[w].n <= Len(registry)
        BY <1>1, <1>6 DEF Auth1Accept, ScanOK
    <3>2. scan[w].i \in Nat /\ scan[w].n \in Nat /\ registry \in Seq(Dev)
        BY <1>1 DEF TypeOK, Scan
    <3>3. scan[w].i + 1 \in 1..Len(registry)
        BY <3>1, <3>2
    <3> QED BY <3>1, <3>3 DEF Enrolled
  <2>5. \E k \in 1..Len(accepted') : accepted'[k] = job[w].pkt.key
    <3>1. accepted \in Seq(Key) /\ job[w].pkt.key \in Key
        BY <1>1, <2>2, OpeningAssumption DEF TypeOK
    <3>2. /\ Len(accepted) + 1 \in 1..Len(accepted')
          /\ accepted'[Len(accepted) + 1] = job[w].pkt.key
        BY <2>1, <3>1
    <3> QED BY <3>2
  <2> QED BY <1>6, <2>1, <2>2, <2>3, <2>4, <2>5 DEF JobOK, InAuth1
<1>7. ASSUME v = w, Auth1ReadN(w) \/ Auth1Candidate(w) \/ Auth1Refuse(w) PROVE JobOK(v)'
  <2>1. /\ job'[w] = job[w]
        /\ pc'[w] \in {"auth1_cand", "auth1_guard", "auth1_fail"}
      BY <1>2, <1>7 DEF Auth1ReadN, Auth1Candidate, Auth1Refuse, Goto
  <2>2. job[w].pkt \in Opening /\ job[w].pkt.t = "AUTH_1"
      BY <1>1, <1>7 DEF Auth1ReadN, Auth1Candidate, Auth1Refuse, JobOK, InAuth1
  <2> QED BY <1>7, <2>1, <2>2 DEF JobOK, InAuth1
<1>8. ASSUME v = w, \/ Setup1Refuse(w) \/ Setup1Activate(w) \/ Setup3Refuse(w) \/ Setup3Put(w)
                    \/ Auth1Activate(w) \/ Auth1Fail(w) \/ Auth3Finish(w)
      PROVE  JobOK(v)'
  <2>1. pc'[w] = "idle"
      BY <1>2, <1>8 DEF Setup1Refuse, Setup1Activate, Setup3Refuse, Setup3Put, Auth1Activate,
                        Auth1Fail, Auth3Finish, Activate, Return
  <2> QED BY <1>4, <1>8, <2>1
<1> QED BY <1>3, <1>5, <1>6, <1>7, <1>8 DEF Step

\* The scan of the registry, while the registry grows.
LEMMA ScanStep ==
    ASSUME IInv, NEW w \in Worker, Step(w) \/ Receive(w), NEW v \in Worker
    PROVE  ScanOK(v)'
<1>1. TypeOK /\ ScanOK(v) /\ ScanOK(w) /\ JobOK(w)
    BY DEF IInv, JobInv, ScanInv
<1>2. /\ pc \in [Worker -> PC] /\ job \in [Worker -> Job] /\ scan \in [Worker -> Scan]
      /\ registry \in Seq(Dev) /\ Len(registry) \in Nat /\ Len(registry') \in Nat
    BY <1>1, StepTypes, ReceiveTypes DEF TypeOK
<1>3. /\ scan[v].i \in Nat /\ scan[v].n \in Nat /\ scan[w].i \in Nat /\ scan[w].n \in Nat
    BY <1>2 DEF Scan
<1>4. CASE v # w
  <2>1. pc'[v] = pc[v] /\ job'[v] = job[v] /\ scan'[v] = scan[v]
      BY <1>1, <1>4, OthersUnchanged
  <2>2. /\ Len(registry) <= Len(registry')
        /\ \A i \in 1..Len(registry) : registry'[i] = registry[i]
      BY HistoryGrows
  <2>3. CASE pc[v] \in {"auth1_cand", "auth1_guard"}
    <3>1. /\ scan[v].i < scan[v].n /\ scan[v].n <= Len(registry)
          /\ job[v].pkt.dev \in Permitted => \A k \in 1..scan[v].i : registry[k] # job[v].pkt.dev
          /\ pc[v] = "auth1_guard" => scan[v].cand = registry[scan[v].i + 1]
        BY <1>1, <2>3 DEF ScanOK
    <3>2. scan[v].i + 1 \in 1..Len(registry) /\ 1..scan[v].i \subseteq 1..Len(registry)
          /\ scan[v].n <= Len(registry')
        BY <1>2, <1>3, <2>2, <3>1
    <3> QED BY <2>1, <2>2, <2>3, <3>1, <3>2 DEF ScanOK
  <2>4. CASE pc[v] = "auth1_fail"
    <3>1. /\ scan[v].n <= Len(registry)
          /\ scan[v].last = "UNKNOWN_DEVICE" => scan[v].n = 0
          /\ scan[v].last = "PROOF_VERIFY" /\ job[v].pkt.dev \in Permitted =>
                \A k \in 1..scan[v].n : registry[k] # job[v].pkt.dev
        BY <1>1, <2>4 DEF ScanOK
    <3>2. 1..scan[v].n \subseteq 1..Len(registry) /\ scan[v].n <= Len(registry')
        BY <1>2, <1>3, <2>2, <3>1
    <3> QED BY <2>1, <2>2, <2>4, <3>1, <3>2 DEF ScanOK
  <2>5. CASE pc[v] \notin {"auth1_cand", "auth1_guard", "auth1_fail"}
      BY <2>1, <2>5 DEF ScanOK
  <2> QED BY <2>3, <2>4, <2>5
<1>5. CASE v = w /\ pc'[w] \notin {"auth1_cand", "auth1_guard", "auth1_fail"}
    BY <1>5 DEF ScanOK
<1>6. ASSUME v = w, Auth1ReadN(w) PROVE ScanOK(v)'
  <2>1. /\ scan'[w] = [i |-> 0, n |-> Len(registry), cand |-> NoDev, last |-> "UNKNOWN_DEVICE"]
        /\ pc'[w] = IF Len(registry) = 0 THEN "auth1_fail" ELSE "auth1_cand"
        /\ registry' = registry /\ job'[w] = job[w]
      BY <1>2, <1>6 DEF Auth1ReadN, Goto
  <2> QED BY <1>2, <1>6, <2>1 DEF ScanOK
<1>7. ASSUME v = w, Auth1Candidate(w) PROVE ScanOK(v)'
  <2>1. /\ scan'[w] = [i |-> scan[w].i, n |-> scan[w].n, cand |-> registry[scan[w].i + 1],
                       last |-> scan[w].last]
        /\ pc[w] = "auth1_cand" /\ pc'[w] = "auth1_guard"
        /\ registry' = registry /\ job'[w] = job[w]
      BY <1>2, <1>7 DEF Auth1Candidate, Goto
  <2> QED BY <1>1, <1>7, <2>1 DEF ScanOK
<1>8. ASSUME v = w, Auth1Refuse(w) PROVE ScanOK(v)'
  <2> DEFINE g == GuardResult(w)
  <2>1. /\ scan'[w] = [i |-> scan[w].i + 1, n |-> scan[w].n, cand |-> scan[w].cand, last |-> g]
        /\ pc[w] = "auth1_guard" /\ registry' = registry /\ job'[w] = job[w]
        /\ pc'[w] = IF g \in {"PROOF_VERIFY", "ROLE_NOT_PERMITTED"} /\ scan[w].i + 1 < scan[w].n
                    THEN "auth1_cand" ELSE "auth1_fail"
      BY <1>2, <1>8 DEF Auth1Refuse, Goto
  <2>2. /\ g # "UNKNOWN_DEVICE"
        /\ g = "PROOF_VERIFY" => job[w].pkt.dev # scan[w].cand
        /\ g = "ROLE_NOT_PERMITTED" => job[w].pkt.dev \notin Permitted
      BY DEF GuardResult, AuthCheck
  <2> HIDE DEF g
  <2>3. /\ scan[w].i < scan[w].n /\ scan[w].n <= Len(registry)
        /\ job[w].pkt.dev \in Permitted => \A k \in 1..scan[w].i : registry[k] # job[w].pkt.dev
        /\ scan[w].cand = registry[scan[w].i + 1]
      BY <1>1, <2>1 DEF ScanOK
  <2>4. ASSUME g \in {"PROOF_VERIFY", "ROLE_NOT_PERMITTED"}, job[w].pkt.dev \in Permitted,
               NEW k \in 1..(scan[w].i + 1)
        PROVE  registry[k] # job[w].pkt.dev
    <3>1. CASE k = scan[w].i + 1
        BY <2>2, <2>3, <2>4, <3>1
    <3>2. CASE k # scan[w].i + 1
      <4>1. k \in 1..scan[w].i
          BY <1>3, <3>2
      <4> QED BY <2>3, <2>4, <4>1
    <3> QED BY <3>1, <3>2
  <2>5. CASE pc'[w] = "auth1_cand"
    <3>1. g \in {"PROOF_VERIFY", "ROLE_NOT_PERMITTED"} /\ scan[w].i + 1 < scan[w].n
        BY <2>1, <2>5
    <3> QED BY <1>8, <2>1, <2>3, <2>4, <2>5, <3>1 DEF ScanOK
  <2>6. CASE pc'[w] = "auth1_fail"
    <3>1. g = "PROOF_VERIFY" => scan[w].i + 1 = scan[w].n
      <4>1. g = "PROOF_VERIFY" => ~(scan[w].i + 1 < scan[w].n)
          BY <2>1, <2>6
      <4>2. scan[w].i < scan[w].n
          BY <2>3
      <4> QED BY <1>3, <4>1, <4>2
    <3>2. ASSUME g = "PROOF_VERIFY", job[w].pkt.dev \in Permitted, NEW k \in 1..scan[w].n
          PROVE  registry[k] # job[w].pkt.dev
        BY <2>4, <3>1, <3>2
    <3> QED BY <1>8, <2>1, <2>2, <2>3, <2>6, <3>2 DEF ScanOK
  <2> QED BY <2>1, <2>5, <2>6
<1>9. ASSUME v = w, \/ Receive(w) \/ Auth1Accept(w)
                    \/ Setup1Refuse(w) \/ Setup1Activate(w) \/ Setup3Refuse(w) \/ Setup3Put(w)
                    \/ Auth1Activate(w) \/ Auth1Fail(w) \/ Auth3Finish(w)
      PROVE  ScanOK(v)'
  <2>1. CASE Receive(w)
    <3>1. pc'[w] \in {"idle", "setup1", "auth1_n", "setup3", "auth3"}
        BY <1>2, <2>1 DEF Receive, OtherPacket, TooManyActive, Reserve, UnknownSession, Find,
                          ErrorNow, Begin, Goto, Deliver
    <3> QED BY <1>5, <1>9, <3>1
  <2>2. CASE ~Receive(w)
    <3>1. pc'[w] \in {"idle", "auth1_act"}
        BY <1>2, <1>9, <2>2
           DEF Auth1Accept, Setup1Refuse, Setup1Activate, Setup3Refuse, Setup3Put,
               Auth1Activate, Auth1Fail, Auth3Finish, Activate, Return, Goto
    <3> QED BY <1>5, <1>9, <3>1
  <2> QED BY <2>1, <2>2
<1> QED BY <1>4, <1>6, <1>7, <1>8, <1>9 DEF Step

-----------------------------------------------------------------------------
\* The state main builds before it starts the transport threads.
LEMMA InitIInv == Init => IInv
<1> SUFFICES ASSUME Init PROVE IInv
    OBVIOUS
<1>1. NoJob \in Job /\ NoScan \in Scan /\ "idle" \in PC
    BY DEF NoJob, Job, NoPend, Pend, SlotIndex, NoScan, Scan, Error, PC
<1>2. FreeSlot \in Slot
    BY DEF FreeSlot, Slot, SlotState
<1>3. RingTracks(ring, accepted) /\ ring \in RingType /\ accepted \in Seq(Key)
    BY RingInitTracks DEF Init, RingTracks
<1>4. TypeOK
    BY <1>1, <1>2, <1>3, BoundsAssumption, Disk0Assumption DEF Init, TypeOK, TableInit
<1>5. JobInv /\ ScanInv /\ ReplyInv
    BY DEF Init, JobInv, JobOK, ScanInv, ScanOK, ReplyInv, InAuth1
<1>6. SlotInv /\ SessionsWereAccepted
    BY DEF Init, SlotInv, SessionsWereAccepted, TableInit, FreeSlot
<1>7. AcceptOncePerWindow
    BY DEF Init, AcceptOncePerWindow
<1>8. AckedIsDurable /\ NoDuplicateEntry
    BY Disk0Assumption DEF Init, AckedIsDurable, NoDuplicateEntry
<1> QED BY <1>3, <1>4, <1>5, <1>6, <1>7, <1>8 DEF IInv

\* A restart from a registry file that holds at least what was acknowledged.
LEMMA BootIInv ==
    ASSUME IInv, NEW d \in Seq(Dev), Boot(d),
           \A x \in Enrolled(disk) : x \in Enrolled(d),
           \A i, j \in 1..Len(d) : d[i] = d[j] => i = j
    PROVE  IInv'
<1>1. TypeOK'
    BY BootTypes DEF IInv
<1>2. /\ pc' = [w \in Worker |-> "idle"] /\ sessions' = TableInit /\ replies' = replies
      /\ accepted' = <<>> /\ ring' = RingInit /\ registry' = d /\ disk' = d
    BY DEF Boot
<1>3. JobInv' /\ ScanInv'
    BY <1>2 DEF JobInv, JobOK, ScanInv, ScanOK, InAuth1
<1>4. SlotInv' /\ SessionsWereAccepted'
    BY <1>2 DEF SlotInv, SessionsWereAccepted, TableInit, FreeSlot
<1>5. ReplyInv'
    BY <1>2 DEF IInv, ReplyInv
<1>6. RingTracks(ring, accepted)'
    BY <1>2, RingInitTracks
<1>7. AcceptOncePerWindow'
    BY <1>2 DEF AcceptOncePerWindow
<1>8. NoDuplicateEntry'
    BY <1>2 DEF NoDuplicateEntry
<1>9. AckedIsDurable'
  <2>1. \A r \in replies' : r.code = "SETUP_ACK" => r.to.open.dev \in Enrolled(disk')
      BY <1>2 DEF IInv, AckedIsDurable
  <2>2. Len(disk') <= Len(registry') /\ \A i \in 1..Len(disk') : disk'[i] = registry'[i]
      BY <1>2
  <2> QED BY <2>1, <2>2 DEF AckedIsDurable
<1> QED BY <1>1, <1>3, <1>4, <1>5, <1>6, <1>7, <1>8, <1>9 DEF IInv

\* Both ways to restart satisfy its hypothesis.
LEMMA RestartIInv ==
    ASSUME IInv, Restart \/ \E w \in Worker : CrashAfterSave(w)
    PROVE  IInv'
<1>1. /\ disk \in Seq(Dev) /\ registry \in Seq(Dev) /\ Len(disk) \in Nat /\ Len(registry) \in Nat
      /\ Len(disk) <= Len(registry) /\ \A i \in 1..Len(disk) : disk[i] = registry[i]
      /\ \A i, j \in 1..Len(registry) : registry[i] = registry[j] => i = j
    BY DEF IInv, TypeOK, AckedIsDurable, NoDuplicateEntry
<1>2. CASE Restart
  <2>1. ASSUME NEW i \in 1..Len(disk), NEW j \in 1..Len(disk), disk[i] = disk[j]
        PROVE  i = j
    <3>1. i \in 1..Len(registry) /\ j \in 1..Len(registry) /\ registry[i] = registry[j]
        BY <1>1, <2>1
    <3> QED BY <1>1, <3>1
  <2> QED BY <1>1, <1>2, <2>1, BootIInv DEF Restart
<1>3. ASSUME NEW w \in Worker, CrashAfterSave(w) PROVE IInv'
  <2> DEFINE d == job[w].pend.open.dev
             r == RegistryPut(registry, d)
  <2>1. d \in Dev
      BY <1>3 DEF CrashAfterSave, IInv, JobInv, JobOK
  <2>2. /\ r \in Seq(Dev) /\ Len(registry) <= Len(r) /\ Len(r) \in Nat
        /\ \A i \in 1..Len(registry) : r[i] = registry[i]
    <3>1. registry \in Seq(Dev)
        BY <1>1
    <3> HIDE DEF d
    <3>2. /\ r \in Seq(Dev) /\ Len(registry) <= Len(r)
          /\ \A i \in 1..Len(registry) : r[i] = registry[i]
        BY <2>1, <3>1, RegistryPutType
    <3> HIDE DEF r
    <3>3. Len(r) \in Nat
        BY <3>2
    <3> QED BY <3>2, <3>3
  <2>3. \A i, j \in 1..Len(r) : r[i] = r[j] => i = j
      BY <1>1, <2>1, PutNoDuplicate
  <2>4. Boot(r)
      BY <1>3 DEF CrashAfterSave
  <2> HIDE DEF r
  <2>5. \A x \in Enrolled(disk) : x \in Enrolled(r)
      BY <1>1, <2>2 DEF Enrolled
  <2> QED BY <2>2, <2>3, <2>4, <2>5, BootIInv
<1> QED BY <1>2, <1>3

\* Nothing changes.
LEMMA StutterIInv ==
    ASSUME IInv, UNCHANGED vars
    PROVE  IInv'
BY DEF IInv, vars, TypeOK, JobInv, JobOK, InAuth1, ScanInv, ScanOK, SlotInv, ReplyInv,
       AcceptOncePerWindow, AckedIsDurable, NoDuplicateEntry, SessionsWereAccepted

\* The invariant is inductive, whatever workers the packets reach.
LEMMA NextIInv ==
    ASSUME IInv, [Next]_vars
    PROVE  IInv'
<1>1. ASSUME NEW w \in Worker, Step(w) \/ Receive(w) PROVE IInv'
  <2>1. TypeOK'
      BY <1>1, StepTypes, ReceiveTypes
  <2>2. JobInv' /\ ScanInv'
      BY <1>1, JobStep, ScanStep DEF JobInv, ScanInv
  <2>3. SlotInv' /\ SessionsWereAccepted' /\ ReplyInv'
      BY <1>1, SessionsStep, RepliesStep
  <2>4. RingTracks(ring, accepted)' /\ AcceptOncePerWindow'
      BY <1>1, RingStep
  <2>5. AckedIsDurable' /\ NoDuplicateEntry'
      BY <1>1, RegistryStep
  <2> QED BY <2>1, <2>2, <2>3, <2>4, <2>5 DEF IInv
<1>2. CASE Restart \/ \E w \in Worker : CrashAfterSave(w)
    BY <1>2, RestartIInv
<1>3. CASE Drained \/ UNCHANGED vars
    BY <1>3, StutterIInv DEF Drained
<1> QED BY <1>1, <1>2, <1>3 DEF Next

\* So it holds in every state.
THEOREM InvariantIInv == Spec => []IInv
BY InitIInv, NextIInv, PTL DEF Spec

\* Type correctness of the server's state.
THEOREM TypeCorrect == Spec => []TypeOK
<1>1. IInv => TypeOK
    BY DEF IInv
<1> QED BY <1>1, InvariantIInv, PTL

\* The comment at server.c:114, for any number of workers and any cache size:
\* an AUTH_1 is accepted once per replay window.
THEOREM ReplayGuardCorrect == Spec => []AcceptOncePerWindow
<1>1. IInv => AcceptOncePerWindow
    BY DEF IInv
<1> QED BY <1>1, InvariantIInv, PTL

\* An acknowledged enrolment survives failed saves, crashes and restarts.
THEOREM EnrolmentDurable == Spec => []AckedIsDurable
<1>1. IInv => AckedIsDurable
    BY DEF IInv
<1> QED BY <1>1, InvariantIInv, PTL

\* The registry holds no device twice.
THEOREM RegistryUnique == Spec => []NoDuplicateEntry
<1>1. IInv => NoDuplicateEntry
    BY DEF IInv
<1> QED BY <1>1, InvariantIInv, PTL

\* Pending AUTH sessions belong to enrolled, permitted devices and to keys the
\* guard accepted.
THEOREM SessionsSound == Spec => []SessionsWereAccepted
<1>1. IInv => SessionsWereAccepted
    BY DEF IInv
<1> QED BY <1>1, InvariantIInv, PTL

\* The candidate scan misses no device that was enrolled when it started.
THEOREM ScanComplete == Spec => []ScanFindsEnrolled
<1>1. ASSUME IInv PROVE ScanFindsEnrolled
  <2> SUFFICES ASSUME NEW w \in Worker, pc[w] = "auth1_fail",
                      scan[w].last \in {"UNKNOWN_DEVICE", "PROOF_VERIFY"},
                      job[w].pkt.dev \in Permitted, NEW i \in 1..scan[w].n
               PROVE  registry[i] # job[w].pkt.dev
      BY DEF ScanFindsEnrolled
  <2>1. /\ scan[w].last = "UNKNOWN_DEVICE" => scan[w].n = 0
        /\ scan[w].last = "PROOF_VERIFY" => \A k \in 1..scan[w].n : registry[k] # job[w].pkt.dev
      BY <1>1 DEF IInv, ScanInv, ScanOK
  <2> QED BY <2>1
<1> QED BY <1>1, InvariantIInv, PTL

-----------------------------------------------------------------------------
(* What holds when each session's packets reach one worker.                *)

\* The slot a worker's step may touch is its own: one it reserved, or one
\* that holds the session its third packet belongs to.
LEMMA TouchesOwnSlot ==
    ASSUME IInv, NEW w \in Worker, Step(w), NEW i \in SlotIndex, sessions'[i] # sessions[i]
    PROVE  /\ i = job[w].slot
           /\ Reserving(w) \/ pc[w] \in {"setup3", "auth3"}
           /\ pc'[w] = "idle"
           /\ sessions'[i].state # "RESERVED"
<1>1. /\ sessions \in [SlotIndex -> Slot] /\ pc \in [Worker -> PC] /\ job[w].slot \in SlotIndex
    BY DEF IInv, TypeOK, Job
<1>2. CASE Setup1Refuse(w) \/ Setup3Put(w) \/ Auth1Fail(w) \/ Auth3Finish(w)
  <2>1. sessions' = TableRelease(sessions, job[w].slot) /\ pc'[w] = "idle"
      BY <1>1, <1>2 DEF Setup1Refuse, Setup3Put, Auth1Fail, Auth3Finish, Return
  <2>2. i = job[w].slot /\ sessions'[i].state # "RESERVED"
      BY <1>1, <2>1 DEF TableRelease, FreeSlot
  <2> QED BY <1>2, <2>1, <2>2 DEF Setup1Refuse, Setup3Put, Auth1Fail, Auth3Finish, Reserving
<1>3. CASE Setup1Activate(w) \/ Auth1Activate(w)
  <2>1. /\ \/ sessions' = TableRelease(sessions, job[w].slot)
           \/ \E st \in {"SETUP", "AUTH"} :
                sessions' = TableActivate(sessions, job[w].slot, st, job[w].pkt, job[w].id)
        /\ pc'[w] = "idle" /\ Reserving(w)
      BY <1>1, <1>3 DEF Setup1Activate, Auth1Activate, Activate, Return, Reserving
  <2>2. i = job[w].slot /\ sessions'[i].state # "RESERVED"
      BY <1>1, <2>1 DEF TableRelease, TableActivate, FreeSlot
  <2> QED BY <2>1, <2>2
<1>4. CASE \/ Setup3Refuse(w) \/ Auth1ReadN(w) \/ Auth1Candidate(w) \/ Auth1Accept(w)
           \/ Auth1Refuse(w)
    BY <1>4 DEF Setup3Refuse, Auth1ReadN, Auth1Candidate, Auth1Accept, Auth1Refuse
<1> QED BY <1>2, <1>3, <1>4 DEF Step

\* No other worker that is busy with a slot has the slot a worker gives up.
LEMMA OwnSlotsDisjoint ==
    ASSUME SingleRoute, RouteIInv, NEW w \in Worker, NEW v \in Worker, v # w,
           Reserving(w) \/ pc[w] \in {"setup3", "auth3"},
           Reserving(v) \/ pc[v] \in {"setup3", "auth3"}
    PROVE  job[v].slot # job[w].slot
<1> SUFFICES ASSUME job[v].slot = job[w].slot PROVE FALSE
    OBVIOUS
<1> DEFINE slot == sessions[job[w].slot]
<1>1. ASSUME NEW x \in {v, w}, Reserving(x) PROVE slot.state = "RESERVED"
    BY <1>1 DEF RouteIInv, ReservationsOwned
<1>2. ASSUME NEW x \in {v, w}, pc[x] \in {"setup3", "auth3"}
      PROVE  /\ slot.state \in {"SETUP", "AUTH"}
             /\ x \in Route[slot.open.sid]
             /\ slot.open.sid \in Sid
  <2>1. slot.state \in {"SETUP", "AUTH"} /\ slot.open.sid = SidOf(job[x].pkt)
        /\ x \in Route[SidOf(job[x].pkt)]
      BY <1>2 DEF RouteIInv, RouteInv, Holds
  <2>2. job[w].slot \in SlotIndex
      BY DEF RouteIInv, IInv, TypeOK, Job
  <2>3. slot.open \in Opening
      BY <2>1, <2>2 DEF RouteIInv, IInv, SlotInv
  <2> QED BY <2>1, <2>3 DEF Sid
<1>3. CASE Reserving(v) /\ Reserving(w)
    BY <1>3 DEF RouteIInv, ReservationsOwned, SlotHeldByOne
<1>4. CASE pc[v] \in {"setup3", "auth3"} /\ pc[w] \in {"setup3", "auth3"}
  <2>1. v \in Route[slot.open.sid] /\ w \in Route[slot.open.sid] /\ slot.open.sid \in Sid
      BY <1>2, <1>4
  <2> QED BY <2>1 DEF SingleRoute
<1>5. CASE \/ Reserving(v) /\ pc[w] \in {"setup3", "auth3"}
           \/ pc[v] \in {"setup3", "auth3"} /\ Reserving(w)
    BY <1>1, <1>2, <1>5
<1> QED BY <1>3, <1>4, <1>5

\* Packets, sessions and reservations stay with their workers.
LEMMA StepRoute ==
    ASSUME SingleRoute, RouteIInv, NEW w \in Worker, Step(w)
    PROVE  RouteInv' /\ ReservationsOwned'
<1>1. /\ IInv /\ TypeOK /\ RouteInv /\ ReservationsOwned
      /\ pc \in [Worker -> PC] /\ job \in [Worker -> Job]
      /\ \A v \in Worker : job[v].slot \in SlotIndex
    BY DEF RouteIInv, IInv, TypeOK, Job
<1>2. ASSUME NEW v \in Worker, v # w
      PROVE  pc'[v] = pc[v] /\ job'[v] = job[v]
    BY <1>1, <1>2, OthersUnchanged
<1>3. \/ pc'[w] = "idle"
      \/ job'[w] = job[w] /\ InAuth1(w) /\ InAuth1(w)' /\ sessions' = sessions
  <2>1. CASE Auth1ReadN(w) \/ Auth1Candidate(w) \/ Auth1Accept(w) \/ Auth1Refuse(w)
      BY <1>1, <2>1 DEF Auth1ReadN, Auth1Candidate, Auth1Accept, Auth1Refuse, Goto, InAuth1
  <2>2. CASE ~(Auth1ReadN(w) \/ Auth1Candidate(w) \/ Auth1Accept(w) \/ Auth1Refuse(w))
      BY <1>1, <2>2 DEF Step, Setup1Refuse, Setup1Activate, Setup3Refuse, Setup3Put,
                        Auth1Activate, Auth1Fail, Auth3Finish, Activate, Return
  <2> QED BY <2>1, <2>2
<1>4. ASSUME NEW v \in Worker, v # w, Reserving(v) \/ pc[v] \in {"setup3", "auth3"}
      PROVE  sessions'[job[v].slot] = sessions[job[v].slot]
  <2> SUFFICES ASSUME sessions'[job[v].slot] # sessions[job[v].slot] PROVE FALSE
      OBVIOUS
  <2>1. job[v].slot = job[w].slot /\ (Reserving(w) \/ pc[w] \in {"setup3", "auth3"})
      BY <1>1, TouchesOwnSlot
  <2> QED BY <1>4, <2>1, OwnSlotsDisjoint
<1>5. RouteInv'
  <2> SUFFICES ASSUME NEW v \in Worker
               PROVE  /\ pc'[v] # "idle" => v \in Route[SidOf(job'[v].pkt)]
                      /\ pc'[v] = "setup3" => Holds(sessions', job'[v].slot, "SETUP", SidOf(job'[v].pkt))
                      /\ pc'[v] = "auth3" => Holds(sessions', job'[v].slot, "AUTH", SidOf(job'[v].pkt))
      BY DEF RouteInv
  <2>1. CASE v = w
      BY <1>1, <1>3, <2>1 DEF RouteInv, InAuth1
  <2>2. CASE v # w
    <3>1. pc'[v] = pc[v] /\ job'[v] = job[v]
        BY <1>2, <2>2
    <3>2. pc[v] \in {"setup3", "auth3"} => sessions'[job[v].slot] = sessions[job[v].slot]
        BY <1>4, <2>2
    <3> QED BY <1>1, <3>1, <3>2 DEF RouteInv, Holds
  <2> QED BY <2>1, <2>2
<1>6. \A v \in Worker : Reserving(v)' => Reserving(v) /\ job'[v] = job[v]
    BY <1>2, <1>3 DEF Reserving, InAuth1
<1>7. \A v \in Worker : Reserving(v)' => sessions'[job'[v].slot].state = "RESERVED"
  <2> SUFFICES ASSUME NEW v \in Worker, Reserving(v)'
               PROVE  sessions'[job'[v].slot].state = "RESERVED"
      OBVIOUS
  <2>1. Reserving(v) /\ job'[v] = job[v] /\ sessions[job[v].slot].state = "RESERVED"
      BY <1>1, <1>6 DEF ReservationsOwned
  <2>2. CASE v # w
      BY <1>4, <2>1, <2>2
  <2>3. CASE v = w
    <3>1. sessions' = sessions
        BY <1>3, <2>3 DEF Reserving
    <3> QED BY <2>1, <3>1
  <2> QED BY <2>2, <2>3
<1>8. SlotHeldByOne'
    BY <1>1, <1>6 DEF ReservationsOwned, SlotHeldByOne
<1>9. ASSUME NEW i \in SlotIndex, sessions'[i].state = "RESERVED"
      PROVE  \E v \in Worker : Reserving(v)' /\ job'[v].slot = i
  <2>1. sessions'[i] = sessions[i]
      BY <1>1, <1>9, TouchesOwnSlot
  <2>2. PICK v \in Worker : Reserving(v) /\ job[v].slot = i
      BY <1>1, <1>9, <2>1 DEF ReservationsOwned
  <2>3. CASE v # w
      BY <1>2, <2>2, <2>3 DEF Reserving
  <2>4. CASE v = w /\ pc'[w] # "idle"
      BY <1>3, <2>2, <2>4 DEF Reserving, InAuth1
  <2>5. CASE v = w /\ pc'[w] = "idle"
    <3>1. sessions'[job[w].slot].state # "RESERVED"
      <4>1. /\ sessions \in [SlotIndex -> Slot] /\ job[w].slot \in SlotIndex
          BY <1>1 DEF TypeOK
      <4>2. CASE Setup1Refuse(w) \/ Auth1Fail(w)
          BY <4>1, <4>2 DEF Setup1Refuse, Auth1Fail, TableRelease, FreeSlot
      <4>3. CASE Setup1Activate(w) \/ Auth1Activate(w)
          BY <4>1, <4>3 DEF Setup1Activate, Auth1Activate, Activate, TableActivate,
                            TableRelease, FreeSlot
      <4>4. CASE Setup3Refuse(w) \/ Setup3Put(w) \/ Auth3Finish(w)
          BY <2>2, <2>5, <4>4 DEF Setup3Refuse, Setup3Put, Auth3Finish, Reserving
      <4>5. CASE Auth1ReadN(w) \/ Auth1Candidate(w) \/ Auth1Accept(w) \/ Auth1Refuse(w)
          BY <1>1, <2>5, <4>5 DEF Auth1ReadN, Auth1Candidate, Auth1Accept, Auth1Refuse, Goto
      <4> QED BY <4>2, <4>3, <4>4, <4>5 DEF Step
    <3> QED BY <1>9, <2>2, <2>5, <3>1
  <2> QED BY <2>3, <2>4, <2>5
<1> QED BY <1>5, <1>7, <1>8, <1>9 DEF ReservationsOwned

\* Taking a packet: a fresh reservation, or the slot its session is in.
LEMMA ReceiveRoute ==
    ASSUME SingleRoute, RouteIInv, NEW w \in Worker, Receive(w)
    PROVE  RouteInv' /\ ReservationsOwned'
<1>1. /\ IInv /\ TypeOK /\ RouteInv /\ ReservationsOwned
      /\ pc \in [Worker -> PC] /\ job \in [Worker -> Job] /\ sessions \in [SlotIndex -> Slot]
      /\ \A v \in Worker : job[v].slot \in SlotIndex
    BY DEF RouteIInv, IInv, TypeOK, Job
<1>2. PICK p \in InFlight : \/ OtherPacket(w, p) \/ TooManyActive(w, p) \/ Reserve(w, p)
                            \/ UnknownSession(w, p) \/ Find(w, p)
    BY DEF Receive
<1>3. ASSUME NEW v \in Worker, v # w
      PROVE  pc'[v] = pc[v] /\ job'[v] = job[v]
    BY <1>1, <1>3, OthersUnchanged
<1>4. pc[w] = "idle" /\ w \in Route[SidOf(p)]
    BY <1>2 DEF OtherPacket, TooManyActive, Reserve, UnknownSession, Find, Deliver
<1>5. CASE OtherPacket(w, p) \/ TooManyActive(w, p) \/ UnknownSession(w, p)
  <2>1. UNCHANGED <<sessions, pc, job>>
      BY <1>5 DEF OtherPacket, TooManyActive, UnknownSession, ErrorNow
  <2>2. RouteInv'
      BY <1>1, <2>1 DEF RouteInv, Holds
  <2>3. ReservationsOwned'
      BY <1>1, <2>1 DEF ReservationsOwned, SlotHeldByOne, Reserving
  <2> QED BY <2>2, <2>3
<1>6. CASE Find(w, p)
  <2>1. PICK s \in SlotIndex :
          /\ FindReturns(sessions, s, IF p.t = "SETUP_3" THEN "SETUP" ELSE "AUTH", SidOf(p))
          /\ Begin(w, p, s, [open |-> sessions[s].open, nonce |-> sessions[s].nonce],
                   IF p.t = "SETUP_3" THEN "setup3" ELSE "auth3")
      BY <1>6 DEF Find
  <2>2. /\ sessions' = sessions /\ job'[w].pkt = p /\ job'[w].slot = s
        /\ pc'[w] = IF p.t = "SETUP_3" THEN "setup3" ELSE "auth3"
      BY <1>1, <1>6, <2>1 DEF Find, Begin, Goto
  <2>3. Holds(sessions, s, IF p.t = "SETUP_3" THEN "SETUP" ELSE "AUTH", SidOf(p))
      BY <2>1 DEF FindReturns
  <2>4. RouteInv'
    <3> SUFFICES ASSUME NEW v \in Worker
                 PROVE  /\ pc'[v] # "idle" => v \in Route[SidOf(job'[v].pkt)]
                        /\ pc'[v] = "setup3" => Holds(sessions', job'[v].slot, "SETUP", SidOf(job'[v].pkt))
                        /\ pc'[v] = "auth3" => Holds(sessions', job'[v].slot, "AUTH", SidOf(job'[v].pkt))
        BY DEF RouteInv
    <3>1. CASE v = w
        BY <1>4, <2>2, <2>3, <3>1
    <3>2. CASE v # w
        BY <1>1, <1>3, <2>2, <3>2 DEF RouteInv
    <3> QED BY <3>1, <3>2
  <2>5. \A v \in Worker : Reserving(v)' <=> Reserving(v)
      BY <1>3, <1>4, <2>2 DEF Reserving
  <2>6. \A v \in Worker : Reserving(v) => job'[v] = job[v]
      BY <1>3, <1>4 DEF Reserving
  <2>7. ReservationsOwned'
      BY <1>1, <2>2, <2>5, <2>6 DEF ReservationsOwned, SlotHeldByOne
  <2> QED BY <2>4, <2>7
<1>7. CASE Reserve(w, p)
  <2>1. PICK s \in SlotIndex :
          /\ ReserveReturns(sessions, s)
          /\ sessions' = TableReserve(sessions, s)
          /\ Begin(w, p, s, NoPend, IF p.t = "SETUP_1" THEN "setup1" ELSE "auth1_n")
      BY <1>7 DEF Reserve
  <2>2. /\ job'[w].pkt = p /\ job'[w].slot = s
        /\ pc'[w] = IF p.t = "SETUP_1" THEN "setup1" ELSE "auth1_n"
      BY <1>1, <2>1 DEF Begin, Goto
  <2>3. /\ sessions[s].state = "FREE" /\ sessions'[s].state = "RESERVED"
        /\ \A i \in SlotIndex : i # s => sessions'[i] = sessions[i]
      BY <1>1, <2>1 DEF ReserveReturns, TableReserve, ReservedSlot
  <2>4. Reserving(w)' /\ ~Reserving(w)
      BY <1>4, <2>2 DEF Reserving
  <2>5. \A v \in Worker : v # w => /\ Reserving(v)' <=> Reserving(v)
                                   /\ job'[v] = job[v] /\ pc'[v] = pc[v]
      BY <1>3 DEF Reserving
  <2>6. \A v \in Worker : (Reserving(v) \/ pc[v] \in {"setup3", "auth3"}) => job[v].slot # s
      BY <1>1, <2>3 DEF RouteInv, Holds, ReservationsOwned
  <2>7. RouteInv'
    <3> SUFFICES ASSUME NEW v \in Worker
                 PROVE  /\ pc'[v] # "idle" => v \in Route[SidOf(job'[v].pkt)]
                        /\ pc'[v] = "setup3" => Holds(sessions', job'[v].slot, "SETUP", SidOf(job'[v].pkt))
                        /\ pc'[v] = "auth3" => Holds(sessions', job'[v].slot, "AUTH", SidOf(job'[v].pkt))
        BY DEF RouteInv
    <3>1. CASE v = w
        BY <1>4, <2>2, <3>1
    <3>2. CASE v # w
        BY <1>1, <2>3, <2>5, <2>6, <3>2 DEF RouteInv, Holds
    <3> QED BY <3>1, <3>2
  <2>8. \A v \in Worker : Reserving(v)' => sessions'[job'[v].slot].state = "RESERVED"
      BY <1>1, <2>2, <2>3, <2>5, <2>6 DEF ReservationsOwned
  <2>9. SlotHeldByOne'
      BY <1>1, <2>2, <2>5, <2>6 DEF ReservationsOwned, SlotHeldByOne
  <2>10. \A i \in SlotIndex : sessions'[i].state = "RESERVED" =>
            \E v \in Worker : Reserving(v)' /\ job'[v].slot = i
    <3> SUFFICES ASSUME NEW i \in SlotIndex, sessions'[i].state = "RESERVED"
                 PROVE  \E v \in Worker : Reserving(v)' /\ job'[v].slot = i
        OBVIOUS
    <3>1. CASE i = s
        BY <2>2, <2>4, <3>1
    <3>2. CASE i # s
      <4>1. PICK v \in Worker : Reserving(v) /\ job[v].slot = i
          BY <1>1, <2>3, <3>2 DEF ReservationsOwned
      <4> QED BY <2>4, <2>5, <4>1
    <3> QED BY <3>1, <3>2
  <2> QED BY <2>7, <2>8, <2>9, <2>10 DEF ReservationsOwned
<1> QED BY <1>2, <1>5, <1>6, <1>7

\* With single routes the stronger invariant holds at the start,
LEMMA InitRouteIInv == Init => RouteIInv
<1> SUFFICES ASSUME Init PROVE RouteIInv
    OBVIOUS
<1>1. RouteInv /\ ReservationsOwned
    BY DEF Init, RouteInv, ReservationsOwned, SlotHeldByOne, Reserving, TableInit, FreeSlot
<1> QED BY <1>1, InitIInv DEF RouteIInv

\* and is inductive too.
LEMMA NextRouteIInv ==
    ASSUME SingleRoute, RouteIInv, [Next]_vars
    PROVE  RouteIInv'
<1> SUFFICES RouteInv' /\ ReservationsOwned'
    BY NextIInv DEF RouteIInv
<1>1. ASSUME NEW w \in Worker, Step(w) \/ Receive(w) PROVE RouteInv' /\ ReservationsOwned'
    BY <1>1, StepRoute, ReceiveRoute
<1>2. ASSUME NEW d, Boot(d) PROVE RouteInv' /\ ReservationsOwned'
    BY <1>2 DEF Boot, RouteInv, ReservationsOwned, SlotHeldByOne, Reserving, TableInit, FreeSlot
<1>3. CASE Restart \/ \E w \in Worker : CrashAfterSave(w)
    BY <1>2, <1>3 DEF Restart, CrashAfterSave
<1>4. CASE Drained \/ UNCHANGED vars
  <2>1. UNCHANGED <<sessions, pc, job>>
      BY <1>4 DEF Drained, vars
  <2>2. RouteInv'
      BY <2>1 DEF RouteIInv, RouteInv, Holds
  <2>3. ReservationsOwned'
      BY <2>1 DEF RouteIInv, ReservationsOwned, SlotHeldByOne, Reserving
  <2> QED BY <2>2, <2>3
<1> QED BY <1>1, <1>3, <1>4 DEF Next

\* So it holds in every state.
THEOREM InvariantRouteIInv ==
    ASSUME SingleRoute
    PROVE  Spec => []RouteIInv
BY InitRouteIInv, NextRouteIInv, PTL DEF Spec

\* The comment at server.c:85, as far as it is true: when every session's
\* packets reach one worker, a reservation is never shared, lost or leaked.
THEOREM ReservationsSafe ==
    ASSUME SingleRoute
    PROVE  Spec => []ReservationsOwned
<1>1. RouteIInv => ReservationsOwned
    BY DEF RouteIInv
<1> QED BY <1>1, InvariantRouteIInv, PTL

\* Under the same condition no session is taken out of the table except by
\* its own third packet or a restart.
THEOREM SessionsKept ==
    ASSUME SingleRoute
    PROVE  Spec => NoSessionLost
<1> DEFINE Kept(i) ==
      sessions[i].state \in {"SETUP", "AUTH"} /\ sessions'[i] # sessions[i] =>
          \/ restarts' # restarts
          \/ \E w \in Worker : /\ pc[w] \in {"setup3", "auth3"}
                               /\ pc'[w] = "idle"
                               /\ SidOf(job[w].pkt) = sessions[i].open.sid
<1>1. ASSUME RouteIInv, [Next]_vars, NEW i \in SlotIndex PROVE Kept(i)
  <2>1. CASE UNCHANGED sessions
      BY <2>1
  <2>2. ASSUME NEW d, Boot(d) PROVE Kept(i)
    <3>1. restarts' # restarts
        BY <1>1, <2>2 DEF Boot, RouteIInv, IInv, TypeOK
    <3> QED BY <3>1
  <2>3. ASSUME NEW w \in Worker, Step(w) PROVE Kept(i)
    <3> SUFFICES ASSUME sessions[i].state \in {"SETUP", "AUTH"}, sessions'[i] # sessions[i]
                 PROVE  /\ pc[w] \in {"setup3", "auth3"} /\ pc'[w] = "idle"
                        /\ SidOf(job[w].pkt) = sessions[i].open.sid
        BY <2>3
    <3>1. i = job[w].slot /\ (Reserving(w) \/ pc[w] \in {"setup3", "auth3"}) /\ pc'[w] = "idle"
        BY <1>1, <2>3, TouchesOwnSlot DEF RouteIInv
    <3>2. ~Reserving(w)
        BY <1>1, <3>1 DEF RouteIInv, ReservationsOwned
    <3> QED BY <1>1, <3>1, <3>2 DEF RouteIInv, RouteInv, Holds
  <2>4. ASSUME NEW w \in Worker, Receive(w) PROVE Kept(i)
    <3>1. CASE \E p \in InFlight : Reserve(w, p)
      <4>1. PICK s \in SlotIndex : sessions[s].state = "FREE" /\ sessions' = TableReserve(sessions, s)
          BY <3>1 DEF Reserve, ReserveReturns
      <4>2. sessions \in [SlotIndex -> Slot]
          BY <1>1 DEF RouteIInv, IInv, TypeOK
      <4>3. i # s => sessions'[i] = sessions[i]
          BY <4>1, <4>2 DEF TableReserve
      <4> QED BY <4>1, <4>3
    <3>2. CASE ~\E p \in InFlight : Reserve(w, p)
        BY <2>1, <2>4, <3>2 DEF Receive, OtherPacket, TooManyActive, UnknownSession, Find
    <3> QED BY <3>1, <3>2
  <2> HIDE DEF Kept
  <2>5. CASE Restart \/ \E w \in Worker : CrashAfterSave(w)
      BY <2>2, <2>5 DEF Restart, CrashAfterSave
  <2>6. CASE Drained \/ UNCHANGED vars
      BY <2>1, <2>6 DEF Drained, vars
  <2> QED BY <1>1, <2>3, <2>4, <2>5, <2>6 DEF Next
<1>2. ASSUME RouteIInv, [Next]_vars PROVE [\A i \in SlotIndex : Kept(i)]_vars
    BY <1>1, <1>2
<1> QED BY <1>2, InvariantRouteIInv, PTL DEF Spec, NoSessionLost

-----------------------------------------------------------------------------
(* Server nonces are used once.                                            *)

\* A step that takes no nonce into use keeps the nonces apart.
LEMMA NoncesShrink ==
    ASSUME TypeOK, TypeOK', ReservedNonces, PendingNonces, AckedNonces,
           delivered <= delivered', Acked' = Acked,
           \A v \in Worker : Reserving(v)' => Reserving(v) /\ job'[v].id = job[v].id,
           \A i \in SlotIndex : Pending(i)' => Pending(i) /\ sessions'[i].nonce = sessions[i].nonce
    PROVE  ReservedNonces' /\ PendingNonces' /\ AckedNonces'
<1>1. /\ delivered \in Nat /\ delivered' \in Nat
      /\ \A v \in Worker : job[v].id \in Nat
      /\ \A i \in SlotIndex : sessions[i].nonce \in Nat
    BY DEF TypeOK, Job, Slot
<1>2. ReservedNonces'
    BY <1>1 DEF ReservedNonces
<1>3. PendingNonces'
    BY <1>1 DEF PendingNonces
<1>4. AckedNonces'
  <2>1. \A r \in Acked : r.to \in Third /\ r.to.nonce \in Nat /\ r.to.nonce <= delivered'
      BY <1>1 DEF AckedNonces, Third
  <2> QED BY <2>1 DEF AckedNonces
<1> QED BY <1>2, <1>3, <1>4

\* The types the nonces need.
LEMMA NonceTypes ==
    ASSUME TypeOK
    PROVE  /\ pc \in [Worker -> PC] /\ job \in [Worker -> Job] /\ sessions \in [SlotIndex -> Slot]
           /\ delivered \in Nat /\ (\A v \in Worker : job[v].id \in Nat /\ job[v].slot \in SlotIndex)
           /\ (\A i \in SlotIndex : sessions[i].nonce \in Nat)
<1>1. pc \in [Worker -> PC] /\ job \in [Worker -> Job] /\ sessions \in [SlotIndex -> Slot]
    BY DEF TypeOK
<1>2. delivered \in Nat
    BY BoundsAssumption DEF TypeOK
<1>3. \A v \in Worker : job[v].id \in Nat /\ job[v].slot \in SlotIndex
    BY <1>1 DEF Job
<1>4. \A i \in SlotIndex : sessions[i].nonce \in Nat
    BY <1>1 DEF Slot
<1> QED BY <1>1, <1>2, <1>3, <1>4

\* An answer that is no acknowledgement adds nothing to the acknowledged.
LEMMA NotAcked ==
    ASSUME NEW w \in Worker, NEW code, Return(w, code), code \notin {"SETUP_ACK", "AUTH_ACK"}
    PROVE  Acked' = Acked
BY DEF Return, Sent, Acked

\* What the packets a worker takes do to the nonces: an opening packet brings
\* the next one, every other packet none.
LEMMA ReceiveNonces ==
    ASSUME RouteIInv, NonceInv, NEW w \in Worker, Receive(w)
    PROVE  NonceInv'
<1>1. /\ TypeOK /\ TypeOK' /\ IInv /\ CopyInv /\ ReservedNonces /\ PendingNonces /\ AckedNonces
    BY ReceiveTypes DEF RouteIInv, IInv, NonceInv
<1>2. /\ pc \in [Worker -> PC] /\ job \in [Worker -> Job] /\ sessions \in [SlotIndex -> Slot]
      /\ delivered \in Nat /\ (\A v \in Worker : job[v].id \in Nat /\ job[v].slot \in SlotIndex)
      /\ (\A i \in SlotIndex : sessions[i].nonce \in Nat)
    BY <1>1, NonceTypes
<1>3. PICK p \in InFlight : \/ OtherPacket(w, p) \/ TooManyActive(w, p) \/ Reserve(w, p)
                            \/ UnknownSession(w, p) \/ Find(w, p)
    BY DEF Receive
<1>4. /\ delivered' = delivered + 1 /\ replies' = replies /\ pc[w] = "idle"
      /\ \A v \in Worker : v # w => pc'[v] = pc[v] /\ job'[v] = job[v]
  <2>1. delivered' = delivered + 1 /\ replies' = replies /\ pc[w] = "idle"
      BY <1>3 DEF OtherPacket, TooManyActive, Reserve, UnknownSession, Find, Deliver, ErrorNow,
                  Begin
  <2> QED BY <1>1, <2>1, OthersUnchanged
<1>5. Acked' = Acked /\ delivered <= delivered'
    BY <1>2, <1>4 DEF Acked
<1>6. CASE OtherPacket(w, p) \/ TooManyActive(w, p) \/ UnknownSession(w, p)
  <2>1. <<sessions, pc, job>>' = <<sessions, pc, job>>
      BY <1>6 DEF OtherPacket, TooManyActive, UnknownSession, ErrorNow
  <2>2. ReservedNonces' /\ PendingNonces' /\ AckedNonces'
      BY <1>1, <1>5, <2>1, NoncesShrink DEF Reserving, Pending
  <2>3. CopyInv'
      BY <1>1, <2>1 DEF CopyInv
  <2> QED BY <2>2, <2>3 DEF NonceInv
<1>7. CASE Find(w, p)
  <2>1. PICK s \in SlotIndex :
            Begin(w, p, s, [open |-> sessions[s].open, nonce |-> sessions[s].nonce],
                  IF p.t = "SETUP_3" THEN "setup3" ELSE "auth3")
      BY <1>7 DEF Find
  <2>2. /\ sessions' = sessions /\ pc'[w] \in {"setup3", "auth3"} /\ job'[w].slot = s
        /\ job'[w].pend.open = sessions[s].open /\ job'[w].pend.nonce = sessions[s].nonce
      BY <1>2, <1>7, <2>1 DEF Find, Begin, Goto
  <2>3. ReservedNonces' /\ PendingNonces' /\ AckedNonces'
      BY <1>1, <1>4, <1>5, <2>2, NoncesShrink DEF Reserving, Pending
  <2>4. CopyInv'
      BY <1>1, <1>4, <2>2 DEF CopyInv
  <2> QED BY <2>3, <2>4 DEF NonceInv
<1>8. CASE Reserve(w, p)
  <2>1. PICK s \in SlotIndex :
            /\ sessions[s].state = "FREE" /\ sessions' = TableReserve(sessions, s)
            /\ Begin(w, p, s, NoPend, IF p.t = "SETUP_1" THEN "setup1" ELSE "auth1_n")
      BY <1>8 DEF Reserve, ReserveReturns
  <2>2. /\ pc'[w] \in {"setup1", "auth1_n"} /\ job'[w].id = delivered + 1
        /\ sessions'[s].state = "RESERVED"
        /\ \A i \in SlotIndex : i # s => sessions'[i] = sessions[i]
      BY <1>2, <1>4, <2>1 DEF Begin, Goto, TableReserve, ReservedSlot
  <2>3. \A i \in SlotIndex : Pending(i)' => Pending(i) /\ sessions'[i] = sessions[i]
      BY <2>2 DEF Pending
  <2>4. \A v \in Worker : Reserving(v)' => \/ v = w /\ job'[v].id = delivered + 1
                                           \/ v # w /\ Reserving(v) /\ job'[v] = job[v]
      BY <1>4, <2>2 DEF Reserving
  <2>5. ReservedNonces'
      BY <1>1, <1>2, <1>4, <2>4 DEF ReservedNonces
  <2>6. PendingNonces'
      BY <1>1, <1>2, <1>4, <2>3, <2>4 DEF PendingNonces
  <2>7. AckedNonces'
    <3>1. \A r \in Acked : r.to \in Third /\ r.to.nonce \in Nat /\ r.to.nonce <= delivered
        BY <1>1 DEF AckedNonces, Third
    <3> QED BY <1>1, <1>2, <1>4, <1>5, <2>3, <2>4, <3>1 DEF AckedNonces
  <2>8. CopyInv'
    <3> SUFFICES ASSUME NEW v \in Worker, pc'[v] \in {"setup3", "auth3"}
                 PROVE  /\ job'[v].pend.open = sessions'[job'[v].slot].open
                        /\ job'[v].pend.nonce = sessions'[job'[v].slot].nonce
        BY DEF CopyInv
    <3>1. v # w /\ pc[v] \in {"setup3", "auth3"} /\ job'[v] = job[v]
        BY <1>4, <2>2
    <3>2. sessions[job[v].slot].state \in {"SETUP", "AUTH"}
        BY <3>1 DEF RouteIInv, RouteInv, Holds
    <3>3. job[v].slot # s /\ job[v].slot \in SlotIndex
        BY <1>2, <2>1, <3>2
    <3> QED BY <1>1, <2>2, <3>1, <3>3 DEF CopyInv
  <2> QED BY <2>5, <2>6, <2>7, <2>8 DEF NonceInv
<1> QED BY <1>3, <1>6, <1>7, <1>8

\* A worker's copy of a session stays good while the other workers step.
LEMMA CopyStep ==
    ASSUME SingleRoute, RouteIInv, CopyInv, NEW w \in Worker, Step(w)
    PROVE  CopyInv'
<1> SUFFICES ASSUME NEW v \in Worker, pc'[v] \in {"setup3", "auth3"}
             PROVE  /\ job'[v].pend.open = sessions'[job'[v].slot].open
                    /\ job'[v].pend.nonce = sessions'[job'[v].slot].nonce
    BY DEF CopyInv
<1>1. IInv /\ TypeOK /\ pc \in [Worker -> PC] /\ job \in [Worker -> Job]
      /\ job[v].slot \in SlotIndex
    BY DEF RouteIInv, IInv, TypeOK, Job
<1>2. v # w
  <2>1. pc'[w] \notin {"setup3", "auth3"}
    <3>1. CASE Auth1ReadN(w) \/ Auth1Candidate(w) \/ Auth1Accept(w) \/ Auth1Refuse(w)
        BY <1>1, <3>1 DEF Auth1ReadN, Auth1Candidate, Auth1Accept, Auth1Refuse, Goto
    <3>2. CASE \/ Setup1Refuse(w) \/ Setup1Activate(w) \/ Setup3Refuse(w) \/ Setup3Put(w)
               \/ Auth1Activate(w) \/ Auth1Fail(w) \/ Auth3Finish(w)
        BY <1>1, <3>2 DEF Setup1Refuse, Setup1Activate, Setup3Refuse, Setup3Put, Auth1Activate,
                          Auth1Fail, Auth3Finish, Activate, Return
    <3> QED BY <3>1, <3>2 DEF Step
  <2> QED BY <2>1
<1>3. pc'[v] = pc[v] /\ job'[v] = job[v]
    BY <1>1, <1>2, OthersUnchanged
<1>4. sessions'[job[v].slot] = sessions[job[v].slot]
    BY <1>1, <1>2, <1>3, TouchesOwnSlot, OwnSlotsDisjoint
<1> QED BY <1>3, <1>4 DEF CopyInv

\* A nonce goes from its reservation to its session, and from its session to
\* the acknowledgement, and leaves the place it was in.
LEMMA StepNonces ==
    ASSUME SingleRoute, RouteIInv, NonceInv, NEW w \in Worker, Step(w)
    PROVE  NonceInv'
<1>1. /\ TypeOK /\ TypeOK' /\ IInv /\ CopyInv /\ ReservedNonces /\ PendingNonces /\ AckedNonces
      /\ ReservationsOwned /\ RouteInv
    BY StepTypes DEF RouteIInv, IInv, NonceInv
<1> DEFINE s == job[w].slot
<1>2. /\ pc \in [Worker -> PC] /\ job \in [Worker -> Job] /\ sessions \in [SlotIndex -> Slot]
      /\ delivered \in Nat /\ (\A v \in Worker : job[v].id \in Nat /\ job[v].slot \in SlotIndex)
      /\ (\A i \in SlotIndex : sessions[i].nonce \in Nat)
    BY <1>1, NonceTypes
<1>3. \A v \in Worker : v # w => pc'[v] = pc[v] /\ job'[v] = job[v]
    BY <1>1, OthersUnchanged
<1>4. CopyInv'
    BY <1>1, CopyStep
<1>5. delivered' = delivered
  <2>1. CASE Auth1ReadN(w) \/ Auth1Candidate(w) \/ Auth1Accept(w) \/ Auth1Refuse(w)
      BY <2>1 DEF Auth1ReadN, Auth1Candidate, Auth1Accept, Auth1Refuse, netVars
  <2>2. CASE \/ Setup1Refuse(w) \/ Setup1Activate(w) \/ Setup3Refuse(w) \/ Setup3Put(w)
             \/ Auth1Activate(w) \/ Auth1Fail(w) \/ Auth3Finish(w)
      BY <2>2 DEF Setup1Refuse, Setup1Activate, Setup3Refuse, Setup3Put, Auth1Activate,
                  Auth1Fail, Auth3Finish, Activate, Return
  <2> QED BY <2>1, <2>2 DEF Step
<1>6. delivered <= delivered'
    BY <1>2, <1>5
<1>7. CASE Auth1ReadN(w) \/ Auth1Candidate(w) \/ Auth1Accept(w) \/ Auth1Refuse(w)
  <2>1. /\ sessions' = sessions /\ job' = job /\ replies' = replies /\ Reserving(w)
      BY <1>7 DEF Auth1ReadN, Auth1Candidate, Auth1Accept, Auth1Refuse, netVars, Reserving
  <2>2. Acked' = Acked
      BY <2>1 DEF Acked
  <2>3. \A v \in Worker : Reserving(v)' => Reserving(v)
      BY <1>3, <2>1 DEF Reserving
  <2>4. ReservedNonces' /\ PendingNonces' /\ AckedNonces'
      BY <1>1, <1>6, <2>1, <2>2, <2>3, NoncesShrink DEF Pending
  <2> QED BY <1>4, <2>4 DEF NonceInv
\* The worker has an answer, which is no acknowledgement, and no new session.
<1>8. ASSUME NEW code, Return(w, code), code \notin {"SETUP_ACK", "AUTH_ACK"},
             sessions' = sessions \/ sessions' = TableRelease(sessions, s)
      PROVE  NonceInv'
  <2>1. Acked' = Acked
      BY <1>8, NotAcked
  <2>2. pc'[w] = "idle"
      BY <1>2, <1>8 DEF Return
  <2>3. \A v \in Worker : Reserving(v)' => Reserving(v) /\ job'[v].id = job[v].id
      BY <1>3, <2>2 DEF Reserving
  <2>4. \A i \in SlotIndex : Pending(i)' => Pending(i) /\ sessions'[i].nonce = sessions[i].nonce
      BY <1>2, <1>8 DEF Pending, TableRelease, FreeSlot
  <2>5. ReservedNonces' /\ PendingNonces' /\ AckedNonces'
      BY <1>1, <1>6, <2>1, <2>3, <2>4, NoncesShrink
  <2> QED BY <1>4, <2>5 DEF NonceInv
<1>9. CASE Setup1Refuse(w) \/ Setup3Refuse(w)
    BY <1>8, <1>9 DEF Setup1Refuse, Setup3Refuse, SetupCheck
<1>10. CASE Auth1Fail(w)
  <2>1. scan[w].last \notin {"SETUP_ACK", "AUTH_ACK"}
      BY <1>1 DEF TypeOK, Scan, Error
  <2> QED BY <1>8, <1>10, <2>1 DEF Auth1Fail
\* A reservation becomes a session.
<1>11. CASE Setup1Activate(w) \/ Auth1Activate(w)
  <2>1. Reserving(w) /\ ActivateOK(sessions, s)
      BY <1>1, <1>11 DEF Setup1Activate, Auth1Activate, Reserving, ReservationsOwned, ActivateOK
  <2>2. PICK st \in {"SETUP", "AUTH"}, code \in {"SETUP_2", "AUTH_2"} :
            sessions' = TableActivate(sessions, s, st, job[w].pkt, job[w].id) /\ Return(w, code)
      BY <1>11, <2>1 DEF Setup1Activate, Auth1Activate, Activate
  <2>3. Acked' = Acked
      BY <2>2, NotAcked
  <2>4. pc'[w] = "idle"
      BY <1>2, <2>2 DEF Return
  <2>5. \A v \in Worker : Reserving(v)' => v # w /\ Reserving(v) /\ job'[v].id = job[v].id
      BY <1>3, <2>4 DEF Reserving
  <2>6. /\ sessions'[s].nonce = job[w].id
        /\ \A i \in SlotIndex : i # s => sessions'[i] = sessions[i]
      BY <1>2, <2>2 DEF TableActivate
  <2>7. ReservedNonces'
      BY <1>1, <1>5, <2>5 DEF ReservedNonces
  <2>8. PendingNonces'
    <3>1. job[w].id <= delivered
          /\ \A v \in Worker : Reserving(v) /\ v # w => job[v].id # job[w].id
        BY <1>1, <2>1 DEF ReservedNonces
    <3>2. \A i \in SlotIndex : i # s /\ Pending(i)' =>
              /\ Pending(i) /\ sessions'[i].nonce = sessions[i].nonce
              /\ sessions'[i].nonce # job[w].id
        BY <1>1, <2>1, <2>6 DEF PendingNonces, Pending
    <3> QED BY <1>1, <1>5, <2>5, <2>6, <3>1, <3>2 DEF PendingNonces
  <2>9. AckedNonces'
    <3>1. \A r \in Acked : job[w].id # r.to.nonce
        BY <1>1, <2>1 DEF AckedNonces
    <3>2. \A i \in SlotIndex : i # s /\ Pending(i)' => Pending(i) /\ sessions'[i] = sessions[i]
        BY <2>6 DEF Pending
    <3> QED BY <1>1, <1>5, <2>3, <2>5, <2>6, <3>1, <3>2 DEF AckedNonces
  <2> QED BY <1>4, <2>7, <2>8, <2>9 DEF NonceInv
\* A session is acknowledged and leaves the table.
<1>12. ASSUME NEW code \in {"SETUP_ACK", "AUTH_ACK"}, Return(w, code),
              sessions' = TableRelease(sessions, s), pc[w] \in {"setup3", "auth3"},
              job[w].pend.nonce = job[w].pkt.nonce
       PROVE  NonceInv'
  <2> DEFINE a == Sent(job[w].pkt, code, job[w].id)
             n == job[w].pkt.nonce
  <2>1. s \in SlotIndex /\ Pending(s) /\ sessions[s].nonce = n /\ job[w].pkt \in Third
    <3>1. Pending(s)
        BY <1>1, <1>12 DEF RouteInv, Holds, Pending
    <3>2. job[w].pkt \in Third
        BY <1>1, <1>12 DEF IInv, JobInv, JobOK
    <3> QED BY <1>1, <1>2, <1>12, <3>1, <3>2 DEF CopyInv
  <2>2. Acked' = Acked \cup {a}
      BY <1>12 DEF Return, Acked, Sent, Error
  <2>3. pc'[w] = "idle"
      BY <1>2, <1>12 DEF Return
  <2>4. \A v \in Worker : Reserving(v)' => Reserving(v) /\ job'[v].id = job[v].id
      BY <1>3, <2>3 DEF Reserving
  <2>5. \A i \in SlotIndex : Pending(i)' => i # s /\ Pending(i) /\ sessions'[i] = sessions[i]
      BY <1>2, <1>12 DEF Pending, TableRelease, FreeSlot
  <2>6. /\ n <= delivered
        /\ \A v \in Worker : Reserving(v) => job[v].id # n
        /\ \A i \in SlotIndex : Pending(i) /\ i # s => sessions[i].nonce # n
      BY <1>1, <2>1 DEF PendingNonces
  <2>7. \A r \in Acked : r.to.nonce # n
      BY <1>1, <2>1 DEF AckedNonces
  <2>8. a.to = job[w].pkt
      BY DEF Sent
  <2>9. ReservedNonces' /\ PendingNonces'
    <3>1. ReservedNonces'
        BY <1>1, <1>5, <2>4 DEF ReservedNonces
    <3>2. PendingNonces'
        BY <1>1, <1>5, <2>4, <2>5 DEF PendingNonces
    <3> QED BY <3>1, <3>2
  <2> HIDE DEF a
  <2>10. AckedNonces'
    <3>1. ASSUME NEW r \in Acked'
          PROVE  /\ r.to \in Third /\ r.to.nonce <= delivered
                 /\ \A v \in Worker : Reserving(v) => job[v].id # r.to.nonce
                 /\ \A i \in SlotIndex : Pending(i) /\ i # s => sessions[i].nonce # r.to.nonce
      <4>1. CASE r \in Acked
          BY <1>1, <4>1 DEF AckedNonces
      <4>2. CASE r = a
          BY <2>1, <2>6, <2>8, <4>2
      <4> QED BY <2>2, <4>1, <4>2
    <3>2. ASSUME NEW r \in Acked', NEW q \in Acked', q.to.nonce = r.to.nonce
          PROVE  q = r
      <4>1. CASE r \in Acked /\ q \in Acked
          BY <1>1, <3>2, <4>1 DEF AckedNonces
      <4>2. CASE r \notin Acked \/ q \notin Acked
          BY <2>2, <2>7, <2>8, <3>2, <4>2
      <4> QED BY <4>1, <4>2
    <3> QED BY <1>5, <2>4, <2>5, <3>1, <3>2 DEF AckedNonces
  <2> QED BY <1>4, <2>9, <2>10 DEF NonceInv
<1>13. CASE Setup3Put(w)
    BY <1>8, <1>12, <1>13 DEF Setup3Put, ProofVerifies
<1>14. CASE Auth3Finish(w)
  <2>1. CASE TagVerifies(w)
      BY <1>12, <1>14, <2>1 DEF Auth3Finish, TagVerifies
  <2>2. CASE ~TagVerifies(w)
      BY <1>8, <1>14, <2>2 DEF Auth3Finish
  <2> QED BY <2>1, <2>2
<1> QED BY <1>7, <1>9, <1>10, <1>11, <1>13, <1>14 DEF Step

\* A restart empties the table and the workers; the nonces go on.
LEMMA BootNonces ==
    ASSUME NonceInv, NEW d, Boot(d)
    PROVE  NonceInv'
<1>1. /\ \A w \in Worker : pc'[w] = "idle"
      /\ \A i \in SlotIndex : sessions'[i].state = "FREE"
      /\ replies' = replies /\ delivered' = delivered
    BY DEF Boot, TableInit, FreeSlot
<1>2. /\ \A w \in Worker : ~Reserving(w)'
      /\ \A i \in SlotIndex : ~Pending(i)'
      /\ Acked' = Acked
    BY <1>1 DEF Reserving, Pending, Acked
<1>3. CopyInv' /\ ReservedNonces' /\ PendingNonces'
    BY <1>1, <1>2 DEF CopyInv, ReservedNonces, PendingNonces
<1>4. AckedNonces'
    BY <1>1, <1>2 DEF NonceInv, AckedNonces
<1> QED BY <1>3, <1>4 DEF NonceInv

\* The nonces are apart at the start,
LEMMA InitNonceInv == Init => NonceInv
<1> SUFFICES ASSUME Init PROVE NonceInv
    OBVIOUS
<1>1. /\ \A w \in Worker : ~Reserving(w) /\ pc[w] = "idle"
      /\ \A i \in SlotIndex : ~Pending(i)
      /\ Acked = {}
    BY DEF Init, Reserving, Pending, Acked, TableInit, FreeSlot
<1> QED BY <1>1 DEF NonceInv, CopyInv, ReservedNonces, PendingNonces, AckedNonces

\* and with single routes every step keeps them apart.
LEMMA NextNonceInv ==
    ASSUME SingleRoute, RouteIInv, NonceInv, [Next]_vars
    PROVE  NonceInv'
<1>1. ASSUME NEW w \in Worker, Step(w) \/ Receive(w) PROVE NonceInv'
    BY <1>1, StepNonces, ReceiveNonces
<1>2. CASE Restart \/ \E w \in Worker : CrashAfterSave(w)
    BY <1>2, BootNonces DEF Restart, CrashAfterSave
<1>3. CASE Drained \/ UNCHANGED vars
  <2>1. <<sessions, pc, job, replies, delivered>>' = <<sessions, pc, job, replies, delivered>>
      BY <1>3 DEF Drained, vars
  <2> QED BY <2>1 DEF NonceInv, CopyInv, ReservedNonces, PendingNonces, AckedNonces,
                            Reserving, Pending, Acked
<1> QED BY <1>1, <1>2, <1>3 DEF Next

\* So they are in every state.
THEOREM InvariantNonceInv ==
    ASSUME SingleRoute
    PROVE  Spec => []NonceInv
BY InitNonceInv, NextNonceInv, InvariantRouteIInv, PTL DEF Spec

\* When every session's packets reach one worker, a third packet is
\* acknowledged once, however often it is delivered, for any number of workers
\* and over any number of restarts (server.c:288-305).
THEOREM AcknowledgedOnce ==
    ASSUME SingleRoute
    PROVE  Spec => []OneAckPerSession
<1>1. NonceInv => OneAckPerSession
    BY DEF NonceInv, AckedNonces, Acked, OneAckPerSession
<1> QED BY <1>1, InvariantNonceInv, PTL

-----------------------------------------------------------------------------
(* The client's packets.                                                   *)

\* The opening packet of a run is one of the run's packets.
LEMMA OpeningOf ==
    ASSUME NEW r \in 1..MaxRuns, NEW d \in 1..MaxRuns
    PROVE  /\ [t |-> "SETUP_1", sid |-> r, dev |-> d, key |-> NoKey] \in Opening
           /\ [t |-> "AUTH_1", sid |-> r, dev |-> d, key |-> r] \in Opening
<1>1. [t |-> "SETUP_1", sid |-> r, dev |-> d, key |-> NoKey] \in
          [t : {"SETUP_1"}, sid : 1..MaxRuns, dev : 1..MaxRuns, key : {NoKey}]
    OBVIOUS
<1>2. [t |-> "AUTH_1", sid |-> r, dev |-> d, key |-> r] \in
          [t : {"AUTH_1"}, sid : {r}, dev : 1..MaxRuns, key : {r}]
    OBVIOUS
<1> QED BY <1>1, <1>2, RunAssumption

\* Openings and thirds are told apart by their type.
LEMMA OpeningShape ==
    ASSUME NEW o \in Opening
    PROVE  /\ o.t \in {"SETUP_1", "AUTH_1"} /\ o.sid \in 1..MaxRuns /\ o.dev \in 1..MaxRuns
           /\ SidOf(o) = o.sid
<1>1. CASE o \in [t : {"SETUP_1"}, sid : 1..MaxRuns, dev : 1..MaxRuns, key : {NoKey}]
    BY <1>1 DEF SidOf
<1>2. ASSUME NEW r \in 1..MaxRuns, o \in [t : {"AUTH_1"}, sid : {r}, dev : 1..MaxRuns, key : {r}]
      PROVE  /\ o.t \in {"SETUP_1", "AUTH_1"} /\ o.sid \in 1..MaxRuns /\ o.dev \in 1..MaxRuns
             /\ SidOf(o) = o.sid
    BY <1>2 DEF SidOf
<1> QED BY <1>1, <1>2, RunAssumption

LEMMA ThirdShape ==
    ASSUME NEW p \in Third
    PROVE  /\ p.t \in {"SETUP_3", "AUTH_3"} /\ SidOf(p) = p.open.sid /\ p.open \in Opening
           /\ p \notin Opening
<1>1. p.t \in {"SETUP_3", "AUTH_3"} /\ p.open \in Opening
    BY DEF Third
<1> QED BY <1>1, OpeningShape DEF SidOf

\* What is on its way to the server in two states with the same replies, or
\* more of them.
LEMMA InFlightGrows ==
    ASSUME replies \subseteq replies'
    PROVE  InFlight \subseteq InFlight'
BY DEF InFlight

-----------------------------------------------------------------------------
(* The server's side of a step.                                            *)

\* A worker that is done answers its own packet, and no reply is taken back.
LEMMA StepReplies ==
    ASSUME TypeOK, NEW w \in Worker, Step(w)
    PROVE  /\ pc[w] # "idle"
           /\ replies \subseteq replies'
           /\ \A r \in replies' : r \in replies \/ r.to = job[w].pkt
           /\ pc'[w] # "idle" => job'[w] = job[w]
           /\ pc'[w] = "idle" \/ replies' = replies
<1>1. CASE Auth1ReadN(w) \/ Auth1Candidate(w) \/ Auth1Accept(w) \/ Auth1Refuse(w)
    BY <1>1 DEF Auth1ReadN, Auth1Candidate, Auth1Accept, Auth1Refuse, netVars
<1>2. ASSUME NEW code, Return(w, code)
      PROVE  /\ pc'[w] = "idle" /\ replies \subseteq replies'
             /\ \A r \in replies' : r \in replies \/ r.to = job[w].pkt
    BY <1>2 DEF Return, Sent, TypeOK
<1>3. CASE \/ Setup1Refuse(w) \/ Setup1Activate(w) \/ Setup3Refuse(w) \/ Setup3Put(w)
           \/ Auth1Activate(w) \/ Auth1Fail(w) \/ Auth3Finish(w)
  <2>1. pc[w] # "idle" /\ \E code : Return(w, code)
      BY <1>3 DEF Setup1Refuse, Setup1Activate, Setup3Refuse, Setup3Put, Auth1Activate,
                  Auth1Fail, Auth3Finish, Activate
  <2> QED BY <1>2, <2>1
<1> QED BY <1>1, <1>3 DEF Step

\* The packets the server takes are the ones the client sent, which are among
\* those CServer can receive: every step of the composition is one of CServer.
LEMMA ClientStepIsServerStep ==
    ASSUME SentInv, [ClientNext]_allVars
    PROVE  [Next]_vars
<1>1. ASSUME NEW w \in Worker, ServerReceive(w)
      PROVE  Next
  <2>1. \E p \in InFlight : \/ TooManyActive(w, p) \/ UnknownSession(w, p)
                            \/ Reserve(w, p) \/ Find(w, p)
      BY <1>1 DEF ServerReceive, SentInv
  <2>2. Receive(w)
      BY <2>1 DEF Receive
  <2> QED BY <2>2 DEF Next
<1>2. ASSUME NEW w \in Worker, ServerStep(w)
      PROVE  Next
    BY <1>2 DEF ServerStep, Next
<1>3. CASE Restart \/ \E w \in Worker : CrashAfterSave(w)
    BY <1>3 DEF Next
<1>4. CASE Drained
    BY <1>4 DEF Next
<1>5. CASE UNCHANGED vars
    BY <1>5
<1>6. CASE UNCHANGED allVars
    BY <1>6 DEF allVars
<1> QED BY <1>1, <1>2, <1>3, <1>4, <1>5, <1>6 DEF ClientNext

-----------------------------------------------------------------------------
(* What a run knows from an answer.                                        *)

\* The second packet of a handshake that is on its way to the run's socket
\* answers the run's opening packet.
LEMMA SecondAnswersOpen ==
    ASSUME IInv, ClientInv, NEW m \in inbox, m.code \in {"SETUP_2", "AUTH_2"}
    PROVE  \E r \in replies : r.code = m.code /\ r.nonce = m.nonce /\ r.to = open
<1>1. PICK r \in replies : r.code = m.code /\ r.nonce = m.nonce /\ SidOf(r.to) = run
    BY DEF ClientInv, AnswerInv
<1>2. r.to \in Opening /\ r.to \in sent
    BY <1>1 DEF IInv, ReplyInv, ClientInv, AnswerInv
<1>3. r.to \in sent \ Thirds /\ r.to.sid = run
    BY <1>1, <1>2, OpeningShape DEF Thirds
<1>4. r.to = open
    BY <1>3 DEF ClientInv, SentInv
<1> QED BY <1>1, <1>4

\* An acknowledgement that is on its way to the run's socket acknowledges the
\* run's third packet, although the client checks neither id nor tag.
LEMMA AckAnswersThird ==
    ASSUME IInv, ClientInv, NEW m \in inbox, m.code \in {"SETUP_ACK", "AUTH_ACK"}
    PROVE  \E r \in replies : r.code = m.code /\ r.to.open = open /\ r.to.nonce = nonce
<1>1. PICK r \in replies : r.code = m.code /\ r.nonce = m.nonce /\ SidOf(r.to) = run
    BY DEF ClientInv, AnswerInv
<1>2. r.to \in Third /\ r.to \in sent
    BY <1>1 DEF IInv, ReplyInv, ClientInv, AnswerInv
<1>3. r.to \in Thirds
    BY <1>2, ThirdShape DEF Thirds
<1>4. r.to.open = open /\ r.to.nonce = nonce
    BY <1>1, <1>3 DEF ClientInv, SentInv
<1> QED BY <1>1, <1>4

-----------------------------------------------------------------------------
(* The client's steps.                                                     *)

\* A new run: nothing of it has been sent, and what is on its way belongs to
\* earlier runs.
LEMMA StartInv ==
    ASSUME IInv, ClientInv, StartSetup \/ StartAuth, UNCHANGED vars
    PROVE  ClientInv'
<1>1. /\ ClientTypeOK /\ StageInv /\ SentInv /\ WorkInv /\ AnswerInv /\ CredsInv
      /\ run \in 0..MaxRuns /\ run < MaxRuns /\ MaxRuns \in Nat /\ Attempts \in Nat \ {0}
    BY RunAssumption DEF ClientInv, ClientTypeOK, StartSetup, StartAuth
<1>2. /\ run' = run + 1 /\ nonce' = 0 /\ inbox' = {} /\ tries' = 1
      /\ sent' = sent \cup {open'} /\ creds' = creds /\ done' = done
      /\ stage' \in {"SETUP_1", "AUTH_1"} /\ replies' = replies /\ pc' = pc /\ job' = job
    BY DEF StartSetup, StartAuth, Send, vars
<1>3. open' \in Opening /\ open'.sid = run + 1 /\ open'.t = stage'
  <2>1. run + 1 \in 1..MaxRuns
      BY <1>1
  <2>2. CASE StartSetup
    <3>1. (IF creds = NoDev THEN run + 1 ELSE creds) \in 1..MaxRuns
        BY <1>1, <2>1 DEF StageInv
    <3> DEFINE d == IF creds = NoDev THEN run + 1 ELSE creds
    <3>2. open' = [t |-> "SETUP_1", sid |-> run + 1, dev |-> d, key |-> NoKey]
          /\ stage' = "SETUP_1"
        BY <2>2 DEF StartSetup, Send
    <3> HIDE DEF d
    <3> QED BY <2>1, <3>1, <3>2, OpeningOf DEF d
  <2>3. CASE StartAuth
    <3>1. creds \in 1..MaxRuns
        BY <1>1, <2>3 DEF StartAuth, StageInv
    <3>2. open' = [t |-> "AUTH_1", sid |-> run + 1, dev |-> creds, key |-> run + 1]
          /\ stage' = "AUTH_1"
        BY <2>3 DEF StartAuth, Send
    <3> QED BY <2>1, <3>1, <3>2, OpeningOf
  <2> QED BY <2>2, <2>3
<1>4. open'.t \notin {"SETUP_3", "AUTH_3"} /\ SidOf(open') = run + 1
    BY <1>3, OpeningShape
<1>5. Thirds' = Thirds
    BY <1>2, <1>4 DEF Thirds
<1>6. ClientTypeOK'
  <2>1. run' \in 0..MaxRuns /\ tries' \in 0..Attempts /\ nonce' \in Nat
      BY <1>1, <1>2
  <2> QED BY <1>1, <1>2, <1>3, <2>1 DEF ClientTypeOK, Packet
<1>7. StageInv'
  <2>1. run + 1 \notin done /\ done \subseteq 1..(run + 1)
      BY <1>1 DEF StageInv
  <2> QED BY <1>1, <1>2, <1>3, <2>1 DEF StageInv
<1>8. SentInv'
  <2>1. InFlight' = InFlight /\ open' \in InFlight
      BY <1>2, <1>3 DEF InFlight
  <2>2. \A p \in sent' : SidOf(p) \in 1..run'
      BY <1>1, <1>2, <1>4 DEF SentInv
  <2>3. \A p \in sent : SidOf(p) # run + 1
      BY <1>1 DEF SentInv
  <2>4. \A p \in sent \ Thirds : SidOf(p) = p.sid
      BY DEF Thirds, SidOf
  <2>5. \A p \in sent' \ Thirds' : p.sid = run' => p = open'
      BY <1>2, <1>5, <2>3, <2>4
  <2>6. \A p \in Thirds : SidOf(p) # run + 1
      BY <2>3 DEF Thirds
  <2> QED BY <1>1, <1>2, <1>5, <2>1, <2>2, <2>5, <2>6 DEF SentInv
<1>9. WorkInv' /\ AnswerInv' /\ CredsInv'
    BY <1>1, <1>2 DEF WorkInv, AnswerInv, CredsInv
<1>10. DoneIsAcknowledged'
    BY <1>2, <1>3, <1>7 DEF DoneIsAcknowledged, StageInv
<1> QED BY <1>6, <1>7, <1>8, <1>9, <1>10 DEF ClientInv

\* A run ends; what it reports and saves is known to be acknowledged.
LEMMA EndInv ==
    ASSUME IInv, ClientInv, stage # "idle", End, UNCHANGED vars,
           done' = done \/ done' = done \cup {run},
           run \in done' => \E r \in replies : /\ r.code \in {"SETUP_ACK", "AUTH_ACK"}
                                               /\ r.to.open = open /\ r.to.nonce = nonce,
           creds' = creds \/ (creds' = open.dev /\
               \E r \in replies : r.code = "SETUP_ACK" /\ r.to.open.dev = creds')
    PROVE  ClientInv'
<1>1. /\ ClientTypeOK /\ StageInv /\ SentInv /\ WorkInv /\ AnswerInv /\ CredsInv
      /\ run \in 0..MaxRuns /\ MaxRuns \in Nat /\ Attempts \in Nat
    BY RunAssumption DEF ClientInv, ClientTypeOK
<1>2. /\ stage' = "idle" /\ tries' = 0 /\ inbox' = {} /\ run' = run /\ open' = open
      /\ nonce' = nonce /\ sent' = sent /\ replies' = replies /\ pc' = pc /\ job' = job
    BY DEF End, vars
<1>3. open \in Opening /\ run \in 1..MaxRuns /\ open.dev \in 1..MaxRuns /\ open.dev \in Dev
    BY <1>1, OpeningShape, RunAssumption DEF StageInv
<1>4. creds' \in Dev \cup {NoDev} /\ creds' \in 1..MaxRuns \cup {NoDev}
    BY <1>1, <1>3 DEF ClientTypeOK, StageInv
<1>5. done' \subseteq 1..run /\ done' \subseteq 1..MaxRuns
  <2>1. run \in 1..run /\ done \subseteq 1..run /\ done \subseteq 1..MaxRuns
      BY <1>1, <1>3 DEF ClientTypeOK, StageInv
  <2> QED BY <1>3, <2>1
<1>6. ClientTypeOK' /\ StageInv'
    BY <1>1, <1>2, <1>4, <1>5 DEF ClientTypeOK, StageInv
<1>7. SentInv'
    BY <1>1, <1>2 DEF SentInv, Thirds, InFlight
<1>8. WorkInv' /\ AnswerInv' /\ CredsInv'
    BY <1>1, <1>2 DEF WorkInv, AnswerInv, CredsInv
<1>9. DoneIsAcknowledged'
    BY <1>2 DEF DoneIsAcknowledged
<1> QED BY <1>6, <1>7, <1>8, <1>9 DEF ClientInv

\* The second packet of the handshake: the run ends, or sends its one third
\* packet, over the nonce the server answered its opening packet with.
LEMMA HandleSecondInv ==
    ASSUME IInv, ClientInv, NEW m \in inbox, NEW tofu \in BOOLEAN, HandleSecond(m, tofu),
           UNCHANGED vars
    PROVE  ClientInv'
<1>1. /\ ClientTypeOK /\ StageInv /\ SentInv /\ WorkInv /\ AnswerInv /\ CredsInv
      /\ stage \in {"SETUP_1", "AUTH_1"} /\ run \notin done /\ open \in Opening /\ open.sid = run
    BY DEF ClientInv, HandleSecond, StageInv
<1>2. CASE End /\ UNCHANGED <<creds, done>>
    BY <1>1, <1>2, EndInv
<1>3. CASE ~(End /\ UNCHANGED <<creds, done>>)
  <2> DEFINE t3 == IF stage = "SETUP_1" THEN "SETUP_3" ELSE "AUTH_3"
             p3 == [t |-> t3, open |-> open, nonce |-> m.nonce]
  <2>1. /\ m.code = (IF stage = "SETUP_1" THEN "SETUP_2" ELSE "AUTH_2")
        /\ nonce' = m.nonce /\ inbox' = inbox \ {m} /\ stage' = t3 /\ tries' = 1
        /\ sent' = sent \cup {p3} /\ run' = run /\ open' = open /\ creds' = creds /\ done' = done
      BY <1>3 DEF HandleSecond, Send
  <2>2. replies' = replies /\ pc' = pc /\ job' = job
      BY DEF vars
  <2>3. PICK r \in replies : r.code = m.code /\ r.nonce = m.nonce /\ r.to = open
      BY <2>1, SecondAnswersOpen
  <2>4. m.nonce \in Nat
      BY <1>1 DEF ClientTypeOK
  <2>5. p3 \in Third /\ p3.open = open /\ p3.nonce = m.nonce /\ p3.t \in {"SETUP_3", "AUTH_3"}
      BY <1>1, <2>4 DEF Third
  <2>6. p3 \in InFlight
    <3>1. CASE stage = "SETUP_1"
      <4>1. p3 = Setup3Packet(r) /\ r.code = "SETUP_2"
          BY <2>1, <2>3, <3>1 DEF Setup3Packet
      <4> QED BY <4>1 DEF InFlight
    <3>2. CASE stage = "AUTH_1"
      <4>1. p3 = Auth3Packet(r) /\ r.code = "AUTH_2"
          BY <2>1, <2>3, <3>2 DEF Auth3Packet
      <4> QED BY <4>1 DEF InFlight
    <3> QED BY <1>1, <3>1, <3>2
  <2>7. SidOf(p3) = run /\ run \in 1..run
    <3>1. run \in 1..MaxRuns
        BY <1>1, OpeningShape
    <3> QED BY <1>1, <2>5, <3>1, RunAssumption DEF SidOf
  <2>8. stage' \in {"SETUP_3", "AUTH_3"}
      BY <2>1
  <2>9. ClientTypeOK'
    <3>1. tries' \in 0..Attempts
        BY <2>1, RunAssumption
    <3> QED BY <1>1, <2>1, <2>4, <2>5, <2>8, <3>1 DEF ClientTypeOK, Packet
  <2>10. StageInv'
      BY <1>1, <2>1 DEF StageInv
  <2> HIDE DEF p3
  <2>11. Thirds' = Thirds \cup {p3}
      BY <2>1, <2>5 DEF Thirds
  <2>12. \A p \in Thirds : SidOf(p) # run
      BY <1>1 DEF SentInv
  <2>13. SentInv'
    <3>1. sent' \subseteq InFlight' /\ \A p \in sent' : SidOf(p) \in 1..run'
        BY <1>1, <2>1, <2>2, <2>6, <2>7 DEF SentInv, InFlight
    <3>2. \A p \in sent' \ Thirds' : p.sid = run' => p = open'
        BY <1>1, <2>1, <2>11 DEF SentInv
    <3>3. \A p \in Thirds' : SidOf(p) = run' =>
              stage' \notin {"SETUP_1", "AUTH_1"} /\ p.open = open' /\ p.nonce = nonce'
        BY <2>1, <2>5, <2>8, <2>11, <2>12
    <3>4. \A p, q \in Thirds' : SidOf(p) = SidOf(q) => p = q
        BY <1>1, <2>7, <2>11, <2>12 DEF SentInv
    <3> QED BY <3>1, <3>2, <3>3, <3>4 DEF SentInv
  <2>14. WorkInv' /\ CredsInv'
      BY <1>1, <2>1, <2>2 DEF WorkInv, CredsInv
  <2>15. AnswerInv'
      BY <1>1, <2>1, <2>2, <2>8 DEF AnswerInv
  <2>16. DoneIsAcknowledged'
      BY <1>1, <2>1 DEF DoneIsAcknowledged
  <2> QED BY <2>9, <2>10, <2>13, <2>14, <2>15, <2>16 DEF ClientInv
<1> QED BY <1>2, <1>3

\* The last packet of the handshake.
LEMMA HandleAckInv ==
    ASSUME IInv, ClientInv, NEW m \in inbox, HandleSetupAck(m) \/ HandleAuthAck(m), UNCHANGED vars
    PROVE  ClientInv'
<1>1. stage # "idle" /\ End /\ run \notin done
    BY DEF HandleSetupAck, HandleAuthAck, ClientInv, StageInv
<1>2. CASE UNCHANGED <<creds, done>>
    BY <1>1, <1>2, EndInv
<1>3. CASE m.code = "SETUP_ACK" /\ creds' = open.dev /\ done' = done \cup {run}
  <2>1. PICK r \in replies : r.code = m.code /\ r.to.open = open /\ r.to.nonce = nonce
      BY <1>3, AckAnswersThird
  <2>2. \E q \in replies : q.code = "SETUP_ACK" /\ q.to.open.dev = creds'
      BY <1>3, <2>1
  <2>3. \E q \in replies : /\ q.code \in {"SETUP_ACK", "AUTH_ACK"}
                           /\ q.to.open = open /\ q.to.nonce = nonce
      BY <1>3, <2>1
  <2> QED BY <1>1, <1>3, <2>2, <2>3, EndInv
<1>4. CASE m.code = "AUTH_ACK" /\ creds' = creds /\ done' = done \cup {run}
  <2>1. \E q \in replies : /\ q.code \in {"SETUP_ACK", "AUTH_ACK"}
                           /\ q.to.open = open /\ q.to.nonce = nonce
      BY <1>4, AckAnswersThird
  <2> QED BY <1>1, <1>4, <2>1, EndInv
<1> QED BY <1>2, <1>3, <1>4 DEF HandleSetupAck, HandleAuthAck

\* The socket's timeout, and the end of the process.
LEMMA TimeoutInv ==
    ASSUME IInv, ClientInv, Timeout \/ ClientCrash, UNCHANGED vars
    PROVE  ClientInv'
<1>1. stage # "idle" /\ run \notin done
    BY DEF Timeout, ClientCrash, ClientInv, StageInv
<1>2. CASE End /\ UNCHANGED <<creds, done>>
    BY <1>1, <1>2, EndInv
<1>3. CASE /\ tries < Attempts /\ tries' = tries + 1
           /\ UNCHANGED <<run, stage, open, nonce, sent, inbox, creds, done>>
  <2>1. tries' \in 0..Attempts
      BY <1>3, RunAssumption DEF ClientInv, ClientTypeOK
  <2>2. replies' = replies /\ pc' = pc /\ job' = job
      BY DEF vars
  <2>3. ClientTypeOK' /\ StageInv' /\ DoneIsAcknowledged'
      BY <1>3, <2>1, <2>2 DEF ClientInv, ClientTypeOK, StageInv, DoneIsAcknowledged
  <2>4. SentInv'
      BY <1>3, <2>2 DEF ClientInv, SentInv, Thirds, InFlight
  <2>5. WorkInv' /\ AnswerInv' /\ CredsInv'
      BY <1>3, <2>2 DEF ClientInv, WorkInv, AnswerInv, CredsInv
  <2> QED BY <2>3, <2>4, <2>5 DEF ClientInv
<1> QED BY <1>2, <1>3 DEF Timeout, ClientCrash

-----------------------------------------------------------------------------
(* The server's steps.                                                     *)

\* A step of the server that leaves the client alone and answers only what
\* was sent keeps the client's invariant.
LEMMA ServerSideInv ==
    ASSUME ClientInv, UNCHANGED <<run, stage, tries, open, nonce, creds, sent, done>>,
           replies \subseteq replies', \A r \in replies' : r \in replies \/ r.to \in sent,
           \A w \in Worker : pc'[w] # "idle" => job'[w].pkt \in sent,
           \A m \in inbox' :
              \/ m \in inbox
              \/ m = Failure
              \/ /\ m \in [code : Answer \cup {"ERROR"}, nonce : Nat] /\ stage # "idle"
                 /\ \E r \in replies' : r.code = m.code /\ r.nonce = m.nonce /\ SidOf(r.to) = run
    PROVE  ClientInv'
<1>1. Failure \in [code : Answer \cup {"ERROR"}, nonce : Nat] /\ Failure.code = "ERROR"
    BY DEF Failure
<1>2. ClientTypeOK'
  <2>1. inbox' \subseteq [code : Answer \cup {"ERROR"}, nonce : Nat]
      BY <1>1 DEF ClientInv, ClientTypeOK
  <2> QED BY <2>1 DEF ClientInv, ClientTypeOK
<1>3. StageInv'
    BY DEF ClientInv, StageInv
<1>4. SentInv'
  <2>1. InFlight \subseteq InFlight' /\ Thirds' = Thirds
      BY InFlightGrows DEF Thirds
  <2> QED BY <2>1 DEF ClientInv, SentInv
<1>5. WorkInv'
    BY DEF WorkInv
<1>6. AnswerInv'
  <2>1. \A r \in replies' : r.to \in sent'
      BY DEF ClientInv, AnswerInv
  <2>2. ASSUME NEW m \in inbox', m.code # "ERROR"
        PROVE  /\ stage' # "idle"
               /\ \E r \in replies' : r.code = m.code /\ r.nonce = m.nonce /\ SidOf(r.to) = run'
      BY <1>1, <2>2 DEF ClientInv, AnswerInv
  <2> QED BY <2>1, <2>2 DEF AnswerInv
<1>7. CredsInv' /\ DoneIsAcknowledged'
    BY DEF ClientInv, CredsInv, DoneIsAcknowledged
<1> QED BY <1>2, <1>3, <1>4, <1>5, <1>6, <1>7 DEF ClientInv

\* A packet reaches the server.
LEMMA ServerReceiveInv ==
    ASSUME IInv, ClientInv, NEW w \in Worker, ServerReceive(w),
           UNCHANGED <<run, stage, tries, open, nonce, creds, sent, done>>
    PROVE  ClientInv'
<1>1. PICK p \in sent :
         \/ (TooManyActive(w, p) \/ UnknownSession(w, p)) /\ Emit(p, {Failure})
         \/ (Reserve(w, p) \/ Find(w, p)) /\ UNCHANGED inbox
    BY DEF ServerReceive
<1>2. \A m \in inbox' : m \in inbox \/ m = Failure
    BY <1>1 DEF Emit
<1>3. replies' = replies
    BY <1>1 DEF TooManyActive, UnknownSession, ErrorNow, Reserve, Find, Begin
<1>4. \A v \in Worker : pc'[v] # "idle" => job'[v].pkt \in sent
  <2>1. pc \in [Worker -> PC] /\ job \in [Worker -> Job] /\ WorkInv
      BY DEF IInv, TypeOK, ClientInv
  <2>2. CASE TooManyActive(w, p) \/ UnknownSession(w, p)
      BY <2>1, <2>2 DEF TooManyActive, UnknownSession, ErrorNow, WorkInv
  <2>3. CASE Reserve(w, p) \/ Find(w, p)
    <3>1. PICK s, pend, l : Begin(w, p, s, pend, l)
        BY <2>3 DEF Reserve, Find
    <3>2. job'[w].pkt = p /\ \A v \in Worker : v # w => pc'[v] = pc[v] /\ job'[v] = job[v]
        BY <2>1, <3>1 DEF Begin, Goto
    <3> QED BY <2>1, <3>2 DEF WorkInv
  <2> QED BY <1>1, <2>2, <2>3
<1> QED BY <1>2, <1>3, <1>4, ServerSideInv

\* A worker goes on with its packet, and answers the run that sent it.
LEMMA ServerStepInv ==
    ASSUME IInv, ClientInv, NEW w \in Worker, ServerStep(w),
           UNCHANGED <<run, stage, tries, open, nonce, creds, sent, done>>
    PROVE  ClientInv'
<1>1. Step(w) /\ TypeOK /\ TypeOK' /\ WorkInv
    BY StepTypes DEF ServerStep, IInv, ClientInv
<1> DEFINE p == job[w].pkt
<1>2. /\ p \in sent /\ replies \subseteq replies'
      /\ \A r \in replies' : r \in replies \/ r.to = p
      /\ pc'[w] # "idle" => job'[w] = job[w]
    BY <1>1, StepReplies DEF WorkInv
<1>3. \A v \in Worker : pc'[v] # "idle" => job'[v].pkt \in sent
    BY <1>1, <1>2, OthersUnchanged DEF WorkInv
<1>4. ASSUME NEW m \in inbox', m \notin inbox
      PROVE  \/ m = Failure
             \/ /\ m \in [code : Answer \cup {"ERROR"}, nonce : Nat] /\ stage # "idle"
                /\ \E r \in replies' : r.code = m.code /\ r.nonce = m.nonce /\ SidOf(r.to) = run
  <2>1. CASE Emit(p, {Failure})
      BY <1>4, <2>1 DEF Emit
  <2>2. CASE Emit(p, {[code |-> r.code, nonce |-> r.nonce] : r \in replies' \ replies})
    <3>1. /\ stage # "idle" /\ SidOf(p) = run
          /\ m \in {[code |-> r.code, nonce |-> r.nonce] : r \in replies' \ replies}
        BY <1>4, <2>2 DEF Emit
    <3>2. PICK r \in replies' \ replies : m = [code |-> r.code, nonce |-> r.nonce]
        BY <3>1
    <3>3. r \in Reply /\ r.to = p
        BY <1>1, <1>2, <3>2 DEF TypeOK
    <3>4. r.code \in Answer /\ r.nonce \in Nat
        BY <3>3 DEF Reply
    <3> QED BY <3>1, <3>2, <3>3, <3>4
  <2>3. CASE UNCHANGED inbox
      BY <1>4, <2>3
  <2> QED BY <2>1, <2>2, <2>3 DEF ServerStep
<1> QED BY <1>2, <1>3, <1>4, ServerSideInv

\* The server's process restarts.
LEMMA BootClientInv ==
    ASSUME ClientInv, NEW d, Boot(d), UNCHANGED clientVars
    PROVE  ClientInv'
<1>1. replies' = replies /\ \A w \in Worker : pc'[w] = "idle"
    BY DEF Boot
<1>2. UNCHANGED <<run, stage, tries, open, nonce, creds, sent, done>> /\ inbox' = inbox
    BY DEF clientVars
<1> QED BY <1>1, <1>2, ServerSideInv

-----------------------------------------------------------------------------
(* The composition.                                                        *)

LEMMA ClientInitInv == ClientInit => IInv /\ ClientInv
<1> SUFFICES ASSUME ClientInit PROVE IInv /\ ClientInv
    OBVIOUS
<1>1. IInv
    BY InitIInv DEF ClientInit
<1>2. /\ run = 0 /\ stage = "idle" /\ tries = 0 /\ open = NoOpen /\ nonce = 0 /\ creds = NoDev
      /\ sent = {} /\ inbox = {} /\ done = {} /\ replies = {} /\ \A w \in Worker : pc[w] = "idle"
    BY DEF ClientInit, Init
<1>3. ClientTypeOK
    BY <1>2, RunAssumption DEF ClientTypeOK
<1>4. StageInv /\ SentInv /\ WorkInv /\ AnswerInv /\ CredsInv /\ DoneIsAcknowledged
    BY <1>2 DEF StageInv, SentInv, Thirds, WorkInv, AnswerInv, CredsInv, DoneIsAcknowledged
<1> QED BY <1>1, <1>3, <1>4 DEF ClientInv

LEMMA ClientNextInv ==
    ASSUME IInv, ClientInv, [ClientNext]_allVars
    PROVE  ClientInv'
<1>1. CASE (StartSetup \/ StartAuth) /\ UNCHANGED vars
    BY <1>1, StartInv
<1>2. CASE ClientStep /\ UNCHANGED vars
    BY <1>2, HandleSecondInv, HandleAckInv, TimeoutInv DEF ClientStep
<1>3. CASE ClientCrash /\ UNCHANGED vars
    BY <1>3, TimeoutInv
<1>4. ASSUME NEW w \in Worker, ServerReceive(w) \/ ServerStep(w),
             UNCHANGED <<run, stage, tries, open, nonce, creds, sent, done>>
      PROVE  ClientInv'
    BY <1>4, ServerReceiveInv, ServerStepInv
<1>5. CASE (Restart \/ \E w \in Worker : CrashAfterSave(w)) /\ UNCHANGED clientVars
    BY <1>5, BootClientInv DEF Restart, CrashAfterSave
<1>6. CASE (Drained /\ UNCHANGED clientVars) \/ UNCHANGED allVars
  <2>1. /\ UNCHANGED <<run, stage, tries, open, nonce, creds, sent, done>> /\ inbox' = inbox
        /\ replies' = replies /\ pc' = pc /\ job' = job
      BY <1>6 DEF Drained, allVars, clientVars, vars
  <2> QED BY <2>1, ServerSideInv DEF ClientInv, WorkInv
<1> QED BY <1>1, <1>2, <1>3, <1>4, <1>5, <1>6 DEF ClientNext

\* The inductive invariant of the composition: the server's, and the client's.
THEOREM InvariantClientInv == ClientSpec => [](IInv /\ ClientInv)
<1>1. IInv /\ ClientInv /\ [ClientNext]_allVars => (IInv /\ ClientInv)'
  <2> SUFFICES ASSUME IInv, ClientInv, [ClientNext]_allVars PROVE (IInv /\ ClientInv)'
      OBVIOUS
  <2>1. [Next]_vars
      BY ClientStepIsServerStep DEF ClientInv
  <2>2. IInv'
      BY <2>1, NextIInv
  <2> QED BY <2>2, ClientNextInv
<1> QED BY <1>1, ClientInitInv, PTL DEF ClientSpec

\* The server that the client talks to is a server of CServer: the packets
\* that reach it are among those CServer lets reach it, so that whatever holds
\* of CServer with any senders holds with this client.
THEOREM ClientImplementsServer == ClientSpec => Spec
<1>1. ClientInit => Init
    BY DEF ClientInit
<1>2. ClientInv /\ [ClientNext]_allVars => [Next]_vars
    BY ClientStepIsServerStep DEF ClientInv
<1> QED BY <1>1, <1>2, InvariantClientInv, PTL DEF ClientSpec, Spec

\* The state of the client is well formed.
THEOREM ClientTypeCorrect == ClientSpec => []ClientTypeOK
BY InvariantClientInv, PTL DEF ClientInv

\* Whatever is lost, repeated, late or cut off on either side, a run that
\* reports success was acknowledged by the server for exactly its opening
\* packet and the nonce it had verified (auth_client_handle_setup_ack and
\* auth_client_handle_auth_ack check neither session id nor tag).
THEOREM SuccessIsAcknowledged == ClientSpec => []DoneIsAcknowledged
BY InvariantClientInv, PTL DEF ClientInv

\* The device in credentials.bin is in registry.bin and in the registry,
\* through failed saves, crashes and restarts (do_setup, server.c:271-273).
THEOREM SavedIsKnown == ClientSpec => []SavedIsEnrolled
<1>1. IInv /\ ClientInv => SavedIsEnrolled
  <2> SUFFICES ASSUME IInv, ClientInv, creds # NoDev
               PROVE  creds \in Enrolled(disk) /\ creds \in Enrolled(registry)
      BY DEF SavedIsEnrolled
  <2>1. PICK r \in replies : r.code = "SETUP_ACK" /\ r.to.open.dev = creds
      BY DEF ClientInv, CredsInv
  <2>2. creds \in Enrolled(disk)
      BY <2>1 DEF IInv, AckedIsDurable
  <2>3. /\ Len(disk) \in Nat /\ Len(registry) \in Nat /\ Len(disk) <= Len(registry)
        /\ \A i \in 1..Len(disk) : disk[i] = registry[i]
      BY DEF IInv, TypeOK, AckedIsDurable
  <2>4. PICK i \in 1..Len(disk) : disk[i] = creds
      BY <2>2 DEF Enrolled
  <2>5. i \in 1..Len(registry) /\ registry[i] = creds
      BY <2>3, <2>4
  <2> QED BY <2>2, <2>5 DEF Enrolled
<1> QED BY <1>1, InvariantClientInv, PTL

\* When a run's packets reach one worker (a run has one socket or connection),
\* the server acknowledges a run at most once: a run has sent one third packet
\* at most, and a third packet is acknowledged once.
THEOREM RunAcknowledgedOnce ==
    ASSUME SingleRoute
    PROVE  ClientSpec => []OneAckPerRun
<1>1. IInv /\ ClientInv /\ OneAckPerSession => OneAckPerRun
  <2> SUFFICES ASSUME IInv, ClientInv, OneAckPerSession, NEW r \in replies, NEW s \in replies,
                      r.code = "AUTH_ACK", s.code = "AUTH_ACK", r.to.open.sid = s.to.open.sid
               PROVE  r = s
      BY DEF OneAckPerRun
  <2>1. r.to \in Third /\ s.to \in Third /\ r.to \in sent /\ s.to \in sent
      BY DEF IInv, ReplyInv, ClientInv, AnswerInv
  <2>2. r.to \in Thirds /\ s.to \in Thirds /\ SidOf(r.to) = SidOf(s.to)
      BY <2>1, ThirdShape DEF Thirds
  <2>3. r.to = s.to
      BY <2>2 DEF ClientInv, SentInv
  <2> QED BY <2>3 DEF OneAckPerSession
<1> QED BY <1>1, InvariantClientInv, ClientImplementsServer, AcknowledgedOnce, PTL
=============================================================================
