------------------------- MODULE RustSystem_proofs --------------------------
(***************************************************************************)
(* The Rust clients and the Rust server, for every number of runs, devices *)
(* and addresses, every capacity and every timing.                         *)
(***************************************************************************)
EXTENDS RustSystem, ReplayCaches_proofs

USE FlowAssumption, LimitAssumption, RetryAssumption

-----------------------------------------------------------------------------
(* The parts of a dispatched packet.                                       *)

\* A cached response is an entry or nothing.
LEMMA EntryShape ==
    ASSUME TypeOK, NEW f \in Flow, NEW s \in Seqno
    PROVE  /\ <<f, s>> \in Flow \X Seqno /\ cache[<<f, s>>] \in Entry /\ cache[<<f, s>>].age \in Nat
           /\ NoEntry \in Entry /\ NoEntry.code = "NONE"
           /\ cache[<<f, s>>].code # "NONE" =>
                 /\ cache[<<f, s>>].code \in Code /\ cache[<<f, s>>].nonce \in 0..MaxNonce
                 /\ cache[<<f, s>>].peer \in Peer
<1>1. <<f, s>> \in Flow \X Seqno /\ cache[<<f, s>>] \in Entry
    BY DEF TypeOK
<1>2. \A e \in Entry : /\ e.age \in Nat
                       /\ e.code # "NONE" => /\ e.code \in Code /\ e.nonce \in 0..MaxNonce
                                             /\ e.peer \in Peer
    BY DEF Entry, NoEntry
<1> QED BY <1>1, <1>2 DEF Entry, NoEntry

\* gc_if_due drops only expired responses, and a session it drops is evicted.
LEMMA CollectedFacts ==
    ASSUME TypeOK, NEW g \in Collected
    PROVE  /\ g.cache \in [Flow \X Seqno -> Entry]
           /\ g.setup \in [Flow -> 0..MaxNonce] /\ g.auth \in [Flow -> 0..MaxNonce]
           /\ g.evicted \subseteq Flow
           /\ \A f \in Flow, s \in Seqno :
                 \/ g.cache[<<f, s>>] = cache[<<f, s>>]
                 \/ g.cache[<<f, s>>] = NoEntry /\ cache[<<f, s>>].age > TTL
           /\ \A f \in Flow \ g.evicted : g.setup[f] = setup[f] /\ g.auth[f] = auth[f]
           /\ GcAge \in 0..GcPeriod
<1>1. /\ cache \in [Flow \X Seqno -> Entry] /\ setup \in [Flow -> 0..MaxNonce]
      /\ auth \in [Flow -> 0..MaxNonce] /\ gcAge \in 0..GcPeriod /\ NoEntry \in Entry
    BY DEF TypeOK, Entry
<1>2. GcAge \in 0..GcPeriod
    BY <1>1 DEF GcAge
<1>3. CASE gcAge < GcPeriod
  <2>1. g = [cache |-> cache, setup |-> setup, auth |-> auth, evicted |-> {}]
      BY <1>3 DEF Collected
  <2> QED BY <1>1, <1>2, <2>1
<1>4. CASE ~(gcAge < GcPeriod)
  <2>1. PICK S \in Survivors(setup), A \in Survivors(auth) : g = Retained(S, A)
      BY <1>4 DEF Collected
  <2>2. /\ g.cache = [x \in Flow \X Seqno |-> IF Expired(cache[x]) THEN NoEntry ELSE cache[x]]
        /\ g.setup = [f \in Flow |-> IF f \in S THEN setup[f] ELSE 0]
        /\ g.auth = [f \in Flow |-> IF f \in A THEN auth[f] ELSE 0]
        /\ g.evicted = (Active(setup) \ S) \cup (Active(auth) \ A)
      BY <2>1 DEF Retained
  <2>3. g.cache \in [Flow \X Seqno -> Entry]
      BY <1>1, <2>2
  <2>4. g.setup \in [Flow -> 0..MaxNonce] /\ g.auth \in [Flow -> 0..MaxNonce]
      BY <1>1, <2>2
  <2>5. g.evicted \subseteq Flow
      BY <2>2 DEF Active
  <2>6. ASSUME NEW f \in Flow, NEW s \in Seqno
        PROVE  \/ g.cache[<<f, s>>] = cache[<<f, s>>]
               \/ g.cache[<<f, s>>] = NoEntry /\ cache[<<f, s>>].age > TTL
    <3>1. <<f, s>> \in Flow \X Seqno
        OBVIOUS
    <3> QED BY <2>2, <3>1 DEF Expired
  <2>7. ASSUME NEW f \in Flow \ g.evicted
        PROVE  g.setup[f] = setup[f] /\ g.auth[f] = auth[f]
      BY <2>2 DEF Active
  <2> QED BY <1>2, <2>3, <2>4, <2>5, <2>6, <2>7
<1> QED BY <1>3, <1>4

\* What a handler that ran did besides its own state.
Executed(g, m, code, n, faults) ==
    /\ cache' \in [Flow \X Seqno -> Entry] /\ resps' \subseteq Resp
    /\ gcAge' \in 0..GcPeriod /\ disturbed' \subseteq Flow
    /\ reqs' = reqs /\ restarts' = restarts
    /\ ~Hit(g, m)
    /\ cache'[<<m.f, m.seq>>] = [age |-> 0, peer |-> m.peer, code |-> code, nonce |-> n]
    /\ \A f \in Flow, s \in Seqno :
          ~(f = m.f /\ s = m.seq) => cache'[<<f, s>>] = g.cache[<<f, s>>]
    /\ resps' = resps \cup {[f |-> m.f, seq |-> m.seq, code |-> code, nonce |-> n]}
    /\ disturbed' = disturbed \cup Late(m) \cup g.evicted \cup faults

\* A handler that ran.
LEMMA ExecuteFacts ==
    ASSUME TypeOK, NEW m \in reqs, NEW g \in Collected, NEW code \in Code, NEW n \in 0..MaxNonce,
           NEW faults \in SUBSET Flow, Execute(g, m, code, n, faults)
    PROVE  Executed(g, m, code, n, faults)
<1>1. /\ m.f \in Flow /\ m.seq \in Seqno /\ m.peer \in Peer
      /\ resps \subseteq Resp /\ disturbed \subseteq Flow
    BY DEF TypeOK
<1>2. <<m.f, m.seq>> \in Flow \X Seqno
    BY <1>1
<1>3. g.cache \in [Flow \X Seqno -> Entry] /\ g.evicted \subseteq Flow /\ GcAge \in 0..GcPeriod
    BY CollectedFacts
<1> DEFINE e == [age |-> 0, peer |-> m.peer, code |-> code, nonce |-> n]
<1>4. e \in Entry
    BY <1>1 DEF Entry
<1>5. cache' = [g.cache EXCEPT ![<<m.f, m.seq>>] = e]
    BY DEF Execute, Remember
<1> HIDE DEF e
<1>6. cache' \in [Flow \X Seqno -> Entry] /\ cache'[<<m.f, m.seq>>] = e
    BY <1>2, <1>3, <1>4, <1>5
<1>7. ASSUME NEW f \in Flow, NEW s \in Seqno, ~(f = m.f /\ s = m.seq)
      PROVE  cache'[<<f, s>>] = g.cache[<<f, s>>]
  <2>1. <<f, s>> \in Flow \X Seqno /\ <<f, s>> # <<m.f, m.seq>>
      BY <1>7
  <2> QED BY <1>3, <1>5, <2>1
<1>8. resps' = resps \cup {[f |-> m.f, seq |-> m.seq, code |-> code, nonce |-> n]}
    BY DEF Execute, Respond
<1>9. resps' \subseteq Resp
    BY <1>1, <1>8 DEF Resp
<1>10. /\ disturbed' = disturbed \cup Late(m) \cup g.evicted \cup faults
       /\ reqs' = reqs /\ restarts' = restarts /\ gcAge' = GcAge /\ ~Hit(g, m)
    BY DEF Execute, Arrive
<1>11. disturbed' \subseteq Flow
    BY <1>1, <1>3, <1>10 DEF Late
<1> QED BY <1>3, <1>6, <1>7, <1>8, <1>9, <1>10, <1>11 DEF e, Executed

\* A response from the cache.
LEMMA ServeFacts ==
    ASSUME TypeOK, NEW m \in reqs, NEW g \in Collected, ServeCached(g, m)
    PROVE  /\ cache' = g.cache /\ resps' \subseteq Resp
           /\ gcAge' \in 0..GcPeriod /\ disturbed' \subseteq Flow
           /\ reqs' = reqs /\ restarts' = restarts
           /\ cache[<<m.f, m.seq>>].code # "NONE" /\ cache[<<m.f, m.seq>>].peer = m.peer
           /\ resps' = resps \cup {[f |-> m.f, seq |-> m.seq, code |-> cache[<<m.f, m.seq>>].code,
                                    nonce |-> cache[<<m.f, m.seq>>].nonce]}
           /\ disturbed' = disturbed \cup Late(m) \cup g.evicted
<1>1. m.f \in Flow /\ m.seq \in Seqno /\ resps \subseteq Resp /\ disturbed \subseteq Flow
    BY DEF TypeOK
<1>2. /\ GcAge \in 0..GcPeriod /\ g.evicted \subseteq Flow
      /\ g.cache[<<m.f, m.seq>>] = cache[<<m.f, m.seq>>] \/ g.cache[<<m.f, m.seq>>] = NoEntry
    BY <1>1, CollectedFacts
<1>3. g.cache[<<m.f, m.seq>>].code # "NONE" /\ g.cache[<<m.f, m.seq>>].peer = m.peer
    BY DEF ServeCached, Hit
<1>4. g.cache[<<m.f, m.seq>>] = cache[<<m.f, m.seq>>]
    BY <1>2, <1>3 DEF NoEntry
<1>5. cache[<<m.f, m.seq>>].code \in Code /\ cache[<<m.f, m.seq>>].nonce \in 0..MaxNonce
    BY <1>1, <1>3, <1>4, EntryShape
<1>6. resps' = resps \cup {[f |-> m.f, seq |-> m.seq, code |-> cache[<<m.f, m.seq>>].code,
                            nonce |-> cache[<<m.f, m.seq>>].nonce]}
    BY <1>4 DEF ServeCached, Respond
<1>7. resps' \subseteq Resp
    BY <1>1, <1>5, <1>6 DEF Resp
<1>8. /\ disturbed' = disturbed \cup Late(m) \cup g.evicted
      /\ reqs' = reqs /\ restarts' = restarts /\ gcAge' = GcAge /\ cache' = g.cache
    BY DEF ServeCached, Arrive
<1>9. disturbed' \subseteq Flow
    BY <1>1, <1>2, <1>8 DEF Late
<1> QED BY <1>2, <1>3, <1>4, <1>6, <1>7, <1>8, <1>9

\* handle_auth_1's checks.
LEMMA Auth1CheckFacts ==
    ASSUME NEW m
    PROVE  /\ Auth1Check(m) = "OK" <=> /\ ~DequeContains(replay, m.f)
                                       /\ DevOf[m.f] \in registry /\ DevOf[m.f] \in Permitted
           /\ Auth1Check(m) # "OK" => Auth1Check(m) \in Error
<1>1. CASE DequeContains(replay, m.f)
    BY <1>1 DEF Auth1Check, Error
<1>2. CASE ~DequeContains(replay, m.f) /\ DevOf[m.f] \notin registry
    BY <1>2 DEF Auth1Check, Error
<1>3. CASE ~DequeContains(replay, m.f) /\ DevOf[m.f] \in registry /\ DevOf[m.f] \notin Permitted
    BY <1>3 DEF Auth1Check, Error
<1>4. CASE ~DequeContains(replay, m.f) /\ DevOf[m.f] \in registry /\ DevOf[m.f] \in Permitted
    BY <1>4 DEF Auth1Check
<1> QED BY <1>1, <1>2, <1>3, <1>4

Handler(g, m) ==
    \/ Setup1Refuse(g, m) \/ Setup1(g, m) \/ Setup3Refuse(g, m) \/ Setup3(g, m)
    \/ Auth1Refuse(g, m) \/ Auth1(g, m) \/ Auth3Refuse(g, m) \/ Auth3(g, m)

\* What a step may do to the stores: the file only grows, and a clean map is
\* the file.
StoreGrows ==
    /\ registry' \subseteq Dev
    /\ disk \subseteq disk' /\ disk' \subseteq registry'
    /\ dirty' \in BOOLEAN /\ (~dirty' => disk' = registry')

LEMMA StoreUnchanged ==
    ASSUME SysInv, UNCHANGED storeVars
    PROVE  StoreGrows
BY DEF SysInv, TypeOK, EnrolledIsDurable, StoreGrows, storeVars

LEMMA HandlerStore ==
    ASSUME SysInv, NEW m \in reqs, NEW g \in Collected, Handler(g, m)
    PROVE  StoreGrows
<1>1. CASE Setup3(g, m)
  <2>1. /\ registry \subseteq Dev /\ disk \subseteq registry /\ m.f \in Flow /\ DevOf[m.f] \in Dev
      BY DEF SysInv, TypeOK, EnrolledIsDurable
  <2>2. registry' = registry \cup {DevOf[m.f]}
      BY <1>1 DEF Setup3, SaveRecord
  <2>3. \/ dirty' = FALSE /\ disk' = registry'
        \/ dirty' = TRUE /\ disk' = disk
      BY <1>1 DEF Setup3, Flush, FlushFails
  <2> QED BY <2>1, <2>2, <2>3 DEF StoreGrows
<1>2. CASE UNCHANGED storeVars
    BY <1>2, StoreUnchanged
<1> QED BY <1>1, <1>2 DEF Handler, Setup1Refuse, Setup1, Setup3Refuse, Auth1Refuse, Auth1,
                          Auth3Refuse, Auth3

\* The history of confirmed keys: auth.rs:324 compares the tag with the one of
\* the session, so the client of a confirmed session went on with its nonce.
LEMMA HandlerFinished ==
    ASSUME SysInv, NEW m \in reqs, NEW g \in Collected, Handler(g, m), UNCHANGED clVars
    PROVE  /\ finished \subseteq finished' /\ finished' \subseteq Flow \X (0..MaxNonce)
           /\ KeyAgreement'
<1>1. /\ finished \subseteq Flow \X (0..MaxNonce) /\ m.f \in Flow /\ m.nonce \in 0..MaxNonce
      /\ nonce' = nonce /\ st' = st
    BY DEF SysInv, TypeOK, clVars
<1>2. CASE Auth3(g, m)
  <2>1. finished' = finished \cup {<<m.f, m.nonce>>}
      BY <1>2 DEF Auth3
  <2>2. nonce[m.f] = m.nonce /\ st[m.f] \in {"third", "ok", "failed"}
    <3>1. m.seq = 1
        BY <1>2 DEF Auth3, Closing
    <3>2. RequestsInv
        BY DEF SysInv
    <3> QED BY <3>1, <3>2 DEF RequestsInv
  <2>3. \A x \in finished' : nonce[x[1]] = x[2] /\ st[x[1]] \in {"third", "ok", "failed"}
      BY <2>1, <2>2 DEF SysInv, KeyAgreement
  <2> QED BY <1>1, <2>1, <2>3 DEF SysInv, KeyAgreement
<1>3. CASE finished' = finished
    BY <1>1, <1>3 DEF SysInv, KeyAgreement
<1> QED BY <1>2, <1>3 DEF Handler, Setup1Refuse, Setup1, Setup3Refuse, Setup3, Auth1Refuse, Auth1,
                          Auth3Refuse

\* The replay cache: handle_auth_1 inserts a key that is not contained.
LEMMA HandlerReplay ==
    ASSUME SysInv, NEW m \in reqs, NEW g \in Collected, Handler(g, m)
    PROVE  DequeTracks(replay, accepted, Flow, ReplayCap)' /\ AcceptOncePerWindow'
<1>1. DequeTracks(replay, accepted, Flow, ReplayCap) /\ AcceptOncePerWindow /\ m.f \in Flow
    BY DEF SysInv, TypeOK
<1>2. CASE Auth1(g, m)
  <2>1. replay' = DequeInsert(replay, m.f) /\ accepted' = Append(accepted, m.f)
      BY <1>2 DEF Auth1
  <2>2. ~DequeContains(replay, m.f)
      BY <1>2, Auth1CheckFacts DEF Auth1
  <2>3. DequeTracks(replay', accepted', Flow, ReplayCap)
      BY <1>1, <2>1, <2>2, DequeInsertTracks
  <2>4. AcceptOncePerWindow'
      BY <1>1, <2>1, <2>2, DequeAcceptsOnce DEF AcceptOncePerWindow
  <2> QED BY <2>3, <2>4
<1>3. CASE replay' = replay /\ accepted' = accepted
    BY <1>1, <1>3 DEF AcceptOncePerWindow
<1> QED BY <1>2, <1>3 DEF Handler, Setup1Refuse, Setup1, Setup3Refuse, Setup3, Auth1Refuse,
                          Auth3Refuse, Auth3

\* The tables of sessions: a handler changes its own flow's entries only.
LEMMA HandlerSessions ==
    ASSUME SysInv, NEW m \in reqs, NEW g \in Collected, Handler(g, m)
    PROVE  /\ setup' \in [Flow -> 0..MaxNonce] /\ auth' \in [Flow -> 0..MaxNonce]
           /\ opened' \in [Flow -> 0..MaxNonce]
           /\ \A f \in Flow \ {m.f} : /\ setup'[f] = g.setup[f] /\ auth'[f] = g.auth[f]
                                      /\ opened'[f] = opened[f]
<1>1. /\ g.setup \in [Flow -> 0..MaxNonce] /\ g.auth \in [Flow -> 0..MaxNonce]
      /\ opened \in [Flow -> 0..MaxNonce] /\ m.f \in Flow /\ 0 \in 0..MaxNonce
  <2>1. TypeOK
      BY DEF SysInv
  <2>2. opened \in [Flow -> 0..MaxNonce] /\ m.f \in Flow /\ 0 \in 0..MaxNonce
      BY <2>1 DEF TypeOK
  <2> QED BY <2>1, <2>2, CollectedFacts
<1>2. CASE Setup1(g, m) \/ Auth1(g, m)
  <2>1. opened[m.f] < MaxNonce /\ opened' = [opened EXCEPT ![m.f] = opened[m.f] + 1]
      BY <1>2 DEF Setup1, Auth1
  <2>2. opened' \in [Flow -> 0..MaxNonce] /\ opened'[m.f] \in 0..MaxNonce
      BY <1>1, <2>1
  <2>3. /\ setup' = g.setup \/ setup' = [g.setup EXCEPT ![m.f] = opened'[m.f]]
        /\ auth' = g.auth \/ auth' = [g.auth EXCEPT ![m.f] = opened'[m.f]]
      BY <1>2 DEF Setup1, Auth1
  <2> QED BY <1>1, <2>1, <2>2, <2>3
<1>3. CASE Setup3(g, m) \/ Auth3(g, m)
  <2>1. /\ setup' = g.setup \/ setup' = [g.setup EXCEPT ![m.f] = 0]
        /\ auth' = g.auth \/ auth' = [g.auth EXCEPT ![m.f] = 0]
        /\ opened' = opened
      BY <1>3 DEF Setup3, Auth3
  <2> QED BY <1>1, <2>1
<1>4. CASE setup' = g.setup /\ auth' = g.auth /\ opened' = opened
    BY <1>1, <1>4
<1> QED BY <1>2, <1>3, <1>4 DEF Handler, Setup1Refuse, Setup3Refuse, Auth1Refuse, Auth3Refuse

\* The response of a handler says what is true of the server.
LEMMA HandlerAnswer ==
    ASSUME SysInv, NEW m \in reqs, NEW g \in Collected, Handler(g, m)
    PROVE  \E code \in Code, n \in 0..MaxNonce, faults \in SUBSET Flow :
              Execute(g, m, code, n, faults) /\ AnswerOK(disk', finished', m.f, m.seq, code)
<1>1. /\ opened \in [Flow -> 0..MaxNonce] /\ m.f \in Flow /\ m.nonce \in 0..MaxNonce
      /\ 0 \in 0..MaxNonce /\ {m.f} \in SUBSET Flow /\ {} \in SUBSET Flow
      /\ opened' \in [Flow -> 0..MaxNonce] /\ Error \subseteq Code
  <2>1. opened' \in [Flow -> 0..MaxNonce]
      BY HandlerSessions
  <2> QED BY <2>1 DEF SysInv, TypeOK, Code
<1>2. ASSUME NEW code \in Error PROVE AnswerOK(disk', finished', m.f, m.seq, code)
    BY <1>2 DEF AnswerOK, Error
<1>3. CASE Setup1Refuse(g, m) \/ Setup3Refuse(g, m) \/ Auth1Refuse(g, m) \/ Auth3Refuse(g, m)
  <2>1. \E code \in Error : Execute(g, m, code, 0, {})
      BY <1>3, Auth1CheckFacts
         DEF Setup1Refuse, Setup3Refuse, Auth1Refuse, Auth3Refuse, Error
  <2> QED BY <1>1, <1>2, <2>1
<1>4. CASE Setup1(g, m) \/ Auth1(g, m)
  <2>1. PICK code \in {"SETUP_2", "AUTH_2"} : Execute(g, m, code, opened'[m.f], {}) /\ m.seq = 0
      BY <1>4 DEF Setup1, Auth1, Opening
  <2>2. AnswerOK(disk', finished', m.f, m.seq, code)
      BY <2>1 DEF AnswerOK
  <2> QED BY <1>1, <2>1, <2>2 DEF Code
<1>5. CASE Setup3(g, m)
  <2>1. CASE Execute(g, m, "STORAGE", 0, {m.f})
      BY <1>1, <1>2, <2>1 DEF Error
  <2>2. CASE Execute(g, m, "SETUP_ACK", 0, {}) /\ Flush
    <3>1. DevOf[m.f] \in disk' /\ Kind[m.f] = "SETUP"
        BY <1>5, <2>2 DEF Setup3, SaveRecord, Flush, Closing
    <3>2. AnswerOK(disk', finished', m.f, m.seq, "SETUP_ACK")
        BY <3>1 DEF AnswerOK
    <3> QED BY <1>1, <2>2, <3>2 DEF Code
  <2> QED BY <1>5, <2>1, <2>2 DEF Setup3
<1>6. CASE Auth3(g, m)
  <2>1. /\ Execute(g, m, "AUTH_ACK", 0, {}) /\ <<m.f, m.nonce>> \in finished'
        /\ Kind[m.f] = "AUTH"
      BY <1>6 DEF Auth3, Closing
  <2>2. AnswerOK(disk', finished', m.f, m.seq, "AUTH_ACK")
      BY <1>1, <2>1 DEF AnswerOK
  <2> QED BY <1>1, <2>1, <2>2 DEF Code
<1> QED BY <1>3, <1>4, <1>5, <1>6 DEF Handler

\* What was true of a response stays true.
LEMMA AnswerStays ==
    ASSUME NEW f, NEW s, NEW code, AnswerOK(disk, finished, f, s, code), disk \subseteq disk',
           finished \subseteq finished'
    PROVE  AnswerOK(disk', finished', f, s, code)
BY DEF AnswerOK

-----------------------------------------------------------------------------
(* The server's steps.                                                     *)

\* A step of the server that keeps its parts of the invariant keeps it all.
LEMMA ServerSide ==
    ASSUME SysInv, UNCHANGED clVars, StoreGrows,
           setup' \in [Flow -> 0..MaxNonce], auth' \in [Flow -> 0..MaxNonce],
           opened' \in [Flow -> 0..MaxNonce], cache' \in [Flow \X Seqno -> Entry],
           gcAge' \in 0..GcPeriod, restarts' \in 0..MaxRestarts, disturbed' \subseteq Flow,
           resps' \subseteq Resp, finished \subseteq finished',
           finished' \subseteq Flow \X (0..MaxNonce), KeyAgreement', AnswersInv', RequestsInv',
           DequeTracks(replay, accepted, Flow, ReplayCap)', AcceptOncePerWindow',
           \A m \in reqs' : /\ m.f \in Flow /\ m.seq \in Seqno /\ m.nonce \in 0..MaxNonce
                             /\ m.peer \in Peer /\ m.age \in 0..Delay+1
    PROVE  SysInv'
<1>1. TypeOK'
  <2>1. /\ registry' \subseteq Dev /\ disk' \subseteq Dev /\ dirty' \in BOOLEAN
      BY DEF StoreGrows
  <2>2. /\ replay'.set \subseteq Flow /\ replay'.order \in Seq(Flow) /\ replay'.cap = ReplayCap
        /\ accepted' \in Seq(Flow)
    <3>1. /\ replay'.cap = ReplayCap /\ accepted' \in Seq(Flow) /\ replay'.order \in Seq(Flow)
          /\ replay'.set = {replay'.order[i] : i \in 1..Len(replay'.order)}
        BY DEF DequeTracks, SameKeys
    <3> DEFINE o == replay'.order
    <3>2. \A i \in 1..Len(o) : o[i] \in Flow
      <4>1. o \in Seq(Flow)
          BY <3>1
      <4> HIDE DEF o
      <4> QED BY <4>1
    <3>3. replay'.set \subseteq Flow
      <4>1. replay'.set = {o[i] : i \in 1..Len(o)}
          BY <3>1
      <4> HIDE DEF o
      <4> QED BY <3>2, <4>1
    <3> QED BY <3>1, <3>3
  <2>3. /\ st' \in [Flow -> Status] /\ attempt' \in [Flow -> 0..MaxRetries]
        /\ timer' \in [Flow -> Nat]
        /\ peer' \in [Flow -> Peer] /\ nonce' \in [Flow -> 0..MaxNonce] /\ err' \in [Flow -> Outcome]
        /\ creds' \in [Dev -> [root : BOOLEAN, pin : BOOLEAN]] /\ rebinds' \in 0..MaxRebinds
      BY DEF SysInv, TypeOK, clVars
  <2>4. \A f \in Flow : timer'[f] <= IF Waiting(f)' THEN Timeout(attempt'[f]) ELSE 0
      BY DEF SysInv, TypeOK, clVars, Waiting
  <2> QED BY <2>1, <2>2, <2>3, <2>4 DEF TypeOK
<1>2. EnrolledIsDurable'
  <2>1. \A f \in Flow : Kind[f] = "SETUP" /\ st'[f] = "ok" => DevOf[f] \in disk'
      BY DEF SysInv, EnrolledIsDurable, StoreGrows, clVars
  <2>2. \A r \in resps' : r.code = "SETUP_ACK" => DevOf[r.f] \in disk'
      BY DEF AnswersInv, AnswerOK
  <2>3. \A f \in Flow : cache'[<<f, 1>>].code = "SETUP_ACK" => DevOf[f] \in disk'
      BY DEF AnswersInv, AnswerOK, Seqno
  <2>4. disk' \subseteq registry' /\ (~dirty' => disk' = registry')
      BY DEF StoreGrows
  <2> QED BY <2>1, <2>2, <2>3, <2>4 DEF EnrolledIsDurable
<1> QED BY <1>1, <1>2 DEF SysInv

\* gc_if_due leaves true what the cache said.
LEMMA CollectedAnswers ==
    ASSUME SysInv, NEW g \in Collected, NEW f \in Flow, NEW s \in Seqno
    PROVE  AnswerOK(disk, finished, f, s, g.cache[<<f, s>>].code)
<1>1. TypeOK /\ AnswersInv
    BY DEF SysInv
<1>2. g.cache[<<f, s>>] = cache[<<f, s>>] \/ g.cache[<<f, s>>] = NoEntry
    BY <1>1, CollectedFacts
<1>3. AnswerOK(disk, finished, f, s, "NONE")
    BY DEF AnswerOK
<1> QED BY <1>1, <1>2, <1>3 DEF AnswersInv, NoEntry

\* A packet is dispatched.
LEMMA DispatchInv ==
    ASSUME SysInv, NEW m \in reqs, Dispatch(m), UNCHANGED clVars
    PROVE  SysInv'
<1>1. TypeOK /\ AnswersInv /\ RequestsInv /\ m.f \in Flow /\ m.seq \in Seqno
    BY DEF SysInv, TypeOK
<1>2. PICK g \in Collected : ServeCached(g, m) \/ Handler(g, m)
    BY DEF Dispatch, Handler
<1>3. /\ \A x \in reqs : /\ x.f \in Flow /\ x.seq \in Seqno /\ x.nonce \in 0..MaxNonce
                          /\ x.peer \in Peer /\ x.age \in 0..Delay+1
      /\ restarts \in 0..MaxRestarts
    BY <1>1 DEF TypeOK
<1>4. CASE ServeCached(g, m)
  <2>1. /\ UNCHANGED storeVars /\ UNCHANGED <<replay, opened, accepted, finished>>
        /\ setup' = g.setup /\ auth' = g.auth
      BY <1>4 DEF ServeCached
  <2>2. /\ cache' = g.cache /\ resps' \subseteq Resp
        /\ gcAge' \in 0..GcPeriod /\ disturbed' \subseteq Flow
        /\ reqs' = reqs /\ restarts' = restarts
        /\ resps' = resps \cup {[f |-> m.f, seq |-> m.seq, code |-> cache[<<m.f, m.seq>>].code,
                                 nonce |-> cache[<<m.f, m.seq>>].nonce]}
      BY <1>1, <1>4, ServeFacts
  <2>3. StoreGrows
      BY <2>1, StoreUnchanged
  <2>4. g.cache \in [Flow \X Seqno -> Entry] /\ g.setup \in [Flow -> 0..MaxNonce]
        /\ g.auth \in [Flow -> 0..MaxNonce]
      BY <1>1, CollectedFacts
  <2>5. AnswersInv'
    <3>1. \A f, s, code : AnswerOK(disk, finished, f, s, code) => AnswerOK(disk', finished', f, s, code)
        BY <2>1, AnswerStays DEF storeVars
    <3>2. AnswerOK(disk, finished, m.f, m.seq, cache[<<m.f, m.seq>>].code)
        BY <1>1 DEF AnswersInv
    <3>3. \A r \in resps' : AnswerOK(disk, finished, r.f, r.seq, r.code)
        BY <1>1, <2>2, <3>2 DEF AnswersInv
    <3>4. \A f \in Flow, s \in Seqno : AnswerOK(disk, finished, f, s, cache'[<<f, s>>].code)
        BY <2>2, CollectedAnswers
    <3> QED BY <3>1, <3>3, <3>4 DEF AnswersInv
  <2>6. KeyAgreement' /\ RequestsInv' /\ AcceptOncePerWindow' /\ finished \subseteq finished'
        /\ finished' \subseteq Flow \X (0..MaxNonce) /\ opened' \in [Flow -> 0..MaxNonce]
        /\ DequeTracks(replay, accepted, Flow, ReplayCap)'
    <3>1. KeyAgreement'
        BY <2>1 DEF SysInv, KeyAgreement, clVars
    <3>2. RequestsInv'
        BY <1>1, <2>2 DEF RequestsInv, clVars
    <3>3. AcceptOncePerWindow' /\ DequeTracks(replay, accepted, Flow, ReplayCap)'
        BY <2>1 DEF SysInv, AcceptOncePerWindow
    <3> QED BY <1>1, <2>1, <3>1, <3>2, <3>3 DEF TypeOK
  <2> QED BY <1>3, <2>1, <2>2, <2>3, <2>4, <2>5, <2>6, ServerSide
<1>5. CASE Handler(g, m)
  <2>1. PICK code \in Code, n \in 0..MaxNonce, faults \in SUBSET Flow :
          Execute(g, m, code, n, faults) /\ AnswerOK(disk', finished', m.f, m.seq, code)
      BY <1>5, HandlerAnswer
  <2>2. /\ cache' \in [Flow \X Seqno -> Entry] /\ resps' \subseteq Resp
        /\ gcAge' \in 0..GcPeriod /\ disturbed' \subseteq Flow
        /\ reqs' = reqs /\ restarts' = restarts
        /\ cache'[<<m.f, m.seq>>] = [age |-> 0, peer |-> m.peer, code |-> code, nonce |-> n]
        /\ \A f \in Flow, s \in Seqno :
              ~(f = m.f /\ s = m.seq) => cache'[<<f, s>>] = g.cache[<<f, s>>]
        /\ resps' = resps \cup {[f |-> m.f, seq |-> m.seq, code |-> code, nonce |-> n]}
    <3>1. Executed(g, m, code, n, faults)
        BY <1>1, <2>1, ExecuteFacts
    <3> QED BY <3>1 DEF Executed
  <2>3. StoreGrows
      BY <1>5, HandlerStore
  <2>4. /\ finished \subseteq finished' /\ finished' \subseteq Flow \X (0..MaxNonce)
        /\ KeyAgreement'
      BY <1>5, HandlerFinished
  <2>5. DequeTracks(replay, accepted, Flow, ReplayCap)' /\ AcceptOncePerWindow'
      BY <1>5, HandlerReplay
  <2>6. /\ setup' \in [Flow -> 0..MaxNonce] /\ auth' \in [Flow -> 0..MaxNonce]
        /\ opened' \in [Flow -> 0..MaxNonce]
      BY <1>5, HandlerSessions
  <2>7. AnswersInv'
    <3>1. \A f, s, c : AnswerOK(disk, finished, f, s, c) => AnswerOK(disk', finished', f, s, c)
        BY <2>3, <2>4, AnswerStays DEF StoreGrows
    <3>2. ASSUME NEW r \in resps' PROVE AnswerOK(disk', finished', r.f, r.seq, r.code)
      <4>1. CASE r \in resps
          BY <1>1, <3>1, <4>1 DEF AnswersInv
      <4>2. CASE r = [f |-> m.f, seq |-> m.seq, code |-> code, nonce |-> n]
          BY <2>1, <4>2
      <4> QED BY <2>2, <4>1, <4>2
    <3>3. ASSUME NEW f \in Flow, NEW s \in Seqno PROVE AnswerOK(disk', finished', f, s, cache'[<<f, s>>].code)
      <4>1. CASE f = m.f /\ s = m.seq
        <5>1. cache'[<<f, s>>].code = code
            BY <2>2, <4>1
        <5> QED BY <2>1, <4>1, <5>1
      <4>2. CASE ~(f = m.f /\ s = m.seq)
        <5>1. cache'[<<f, s>>] = g.cache[<<f, s>>]
            BY <2>2, <4>2
        <5>2. AnswerOK(disk, finished, f, s, g.cache[<<f, s>>].code)
            BY CollectedAnswers
        <5> QED BY <3>1, <5>1, <5>2
      <4> QED BY <4>1, <4>2
    <3> QED BY <3>2, <3>3 DEF AnswersInv
  <2>8. RequestsInv'
      BY <1>1, <2>2 DEF RequestsInv, clVars
  <2> QED BY <1>3, <2>2, <2>3, <2>4, <2>5, <2>6, <2>7, <2>8, ServerSide
<1> QED BY <1>2, <1>4, <1>5

\* run_udp collects.
LEMMA IdleGcInv ==
    ASSUME SysInv, IdleGc, UNCHANGED clVars
    PROVE  SysInv'
<1>1. TypeOK /\ AnswersInv /\ RequestsInv
    BY DEF SysInv
<1>2. PICK g \in Collected : /\ cache' = g.cache /\ setup' = g.setup /\ auth' = g.auth
                              /\ disturbed' = disturbed \cup g.evicted
    BY DEF IdleGc
<1>3. gcAge' = 0 /\ UNCHANGED storeVars
      /\ UNCHANGED <<replay, opened, reqs, resps, restarts, accepted, finished>>
    BY DEF IdleGc
<1>4. /\ g.cache \in [Flow \X Seqno -> Entry] /\ g.evicted \subseteq Flow
      /\ g.setup \in [Flow -> 0..MaxNonce] /\ g.auth \in [Flow -> 0..MaxNonce]
    BY <1>1, CollectedFacts
<1>5. /\ \A x \in reqs : /\ x.f \in Flow /\ x.seq \in Seqno /\ x.nonce \in 0..MaxNonce
                          /\ x.peer \in Peer /\ x.age \in 0..Delay+1
      /\ restarts \in 0..MaxRestarts /\ opened \in [Flow -> 0..MaxNonce] /\ resps \subseteq Resp
      /\ finished \subseteq Flow \X (0..MaxNonce) /\ disturbed \subseteq Flow
    BY <1>1 DEF TypeOK
<1>6. StoreGrows
    BY <1>3, StoreUnchanged
<1>7. AnswersInv'
  <2>1. \A f \in Flow, s \in Seqno : AnswerOK(disk, finished, f, s, cache'[<<f, s>>].code)
      BY <1>2, CollectedAnswers
  <2> QED BY <1>1, <1>3, <2>1 DEF AnswersInv, storeVars
<1>8. KeyAgreement'
    BY <1>3 DEF SysInv, KeyAgreement, clVars
<1>9. RequestsInv'
    BY <1>1, <1>3 DEF RequestsInv, clVars
<1>10. AcceptOncePerWindow' /\ DequeTracks(replay, accepted, Flow, ReplayCap)'
    BY <1>3 DEF SysInv, AcceptOncePerWindow
<1> QED BY <1>2, <1>3, <1>4, <1>5, <1>6, <1>7, <1>8, <1>9, <1>10, ServerSide

\* The server starts again from a registry file that has lost nothing.
LEMMA BootInv ==
    ASSUME SysInv, NEW d, Boot(d), d \subseteq Dev, disk \subseteq d, UNCHANGED clVars
    PROVE  SysInv'
<1>1. TypeOK /\ AnswersInv /\ RequestsInv
    BY DEF SysInv
<1>2. /\ restarts < MaxRestarts /\ restarts' = restarts + 1
      /\ registry' = d /\ dirty' = FALSE /\ disk' = d
      /\ setup' = [f \in Flow |-> 0] /\ auth' = [f \in Flow |-> 0]
      /\ cache' = [x \in Flow \X Seqno |-> NoEntry]
      /\ replay' = DequeNew(ReplayCap) /\ accepted' = <<>>
      /\ gcAge' = 0 /\ disturbed' = Flow
      /\ UNCHANGED <<opened, reqs, resps, finished>>
    BY DEF Boot
<1>3. /\ \A x \in reqs : /\ x.f \in Flow /\ x.seq \in Seqno /\ x.nonce \in 0..MaxNonce
                          /\ x.peer \in Peer /\ x.age \in 0..Delay+1
      /\ restarts \in 0..MaxRestarts /\ opened \in [Flow -> 0..MaxNonce] /\ resps \subseteq Resp
      /\ finished \subseteq Flow \X (0..MaxNonce)
    BY <1>1 DEF TypeOK
<1>4. StoreGrows
    BY <1>2 DEF StoreGrows
<1>5. cache' \in [Flow \X Seqno -> Entry]
    BY <1>2 DEF Entry
<1>6. AnswersInv'
  <2>1. ASSUME NEW r \in resps' PROVE AnswerOK(disk', finished', r.f, r.seq, r.code)
    <3>1. AnswerOK(disk, finished, r.f, r.seq, r.code)
        BY <1>1, <1>2, <2>1 DEF AnswersInv
    <3> QED BY <1>2, <3>1 DEF AnswerOK
  <2>2. ASSUME NEW f \in Flow, NEW s \in Seqno
        PROVE  AnswerOK(disk', finished', f, s, cache'[<<f, s>>].code)
    <3>1. <<f, s>> \in Flow \X Seqno
        OBVIOUS
    <3>2. cache'[<<f, s>>].code = "NONE"
        BY <1>2, <3>1 DEF NoEntry
    <3> QED BY <3>2 DEF AnswerOK
  <2> QED BY <2>1, <2>2 DEF AnswersInv
<1>7. KeyAgreement'
    BY <1>2 DEF SysInv, KeyAgreement, clVars
<1>8. RequestsInv'
    BY <1>1, <1>2 DEF RequestsInv, clVars
<1>9. DequeTracks(replay', accepted', Flow, ReplayCap)
    BY <1>2, DequeNewTracks
<1>10. AcceptOncePerWindow'
    BY <1>2 DEF AcceptOncePerWindow
<1>11. /\ setup' \in [Flow -> 0..MaxNonce] /\ auth' \in [Flow -> 0..MaxNonce]
       /\ gcAge' \in 0..GcPeriod /\ restarts' \in 0..MaxRestarts
    BY <1>2, <1>3
<1> QED BY <1>2, <1>3, <1>4, <1>5, <1>6, <1>7, <1>8, <1>9, <1>10, <1>11, ServerSide

\* Every step of the server.
LEMMA ServerInv ==
    ASSUME SysInv, Server
    PROVE  SysInv'
<1>1. UNCHANGED clVars
    BY DEF Server
<1>2. CASE \E m \in reqs : Dispatch(m)
    BY <1>1, <1>2, DispatchInv
<1>3. CASE \E m \in reqs : CrashAfterSave(m)
  <2>1. PICK m \in reqs : CrashAfterSave(m)
      BY <1>3
  <2>2. Boot(registry \cup {DevOf[m.f]})
      BY <2>1 DEF CrashAfterSave
  <2>3. registry \cup {DevOf[m.f]} \subseteq Dev /\ disk \subseteq registry \cup {DevOf[m.f]}
      BY DEF SysInv, TypeOK, EnrolledIsDurable
  <2> QED BY <1>1, <2>2, <2>3, BootInv
<1>4. CASE IdleGc
    BY <1>1, <1>4, IdleGcInv
<1>5. CASE Restart
  <2>1. Boot(disk) /\ disk \subseteq Dev
      BY <1>5 DEF Restart, SysInv, TypeOK
  <2> QED BY <1>1, <2>1, BootInv
<1> QED BY <1>2, <1>3, <1>4, <1>5 DEF Server

-----------------------------------------------------------------------------
(* The clients' steps.                                                     *)

\* A step of a client that keeps its parts of the invariant keeps it all.
LEMMA ClientSide ==
    ASSUME SysInv, UNCHANGED <<srvVars, resps>>, disturbed' \subseteq Flow,
           \A m \in reqs' : /\ m.f \in Flow /\ m.seq \in Seqno /\ m.nonce \in 0..MaxNonce
                             /\ m.peer \in Peer /\ m.age \in 0..Delay+1,
           st' \in [Flow -> Status], attempt' \in [Flow -> 0..MaxRetries],
           timer' \in [Flow -> Nat],
           \A f \in Flow : timer'[f] <= IF Waiting(f)' THEN Timeout(attempt'[f]) ELSE 0,
           peer' \in [Flow -> Peer], nonce' \in [Flow -> 0..MaxNonce], err' \in [Flow -> Outcome],
           creds' \in [Dev -> [root : BOOLEAN, pin : BOOLEAN]], rebinds' \in 0..MaxRebinds,
           \A f \in Flow : Kind[f] = "SETUP" /\ st'[f] = "ok" => DevOf[f] \in disk,
           KeyAgreement', RequestsInv'
    PROVE  SysInv'
<1>1. /\ UNCHANGED <<registry, dirty, disk, setup, auth, cache, replay, gcAge, opened>>
      /\ UNCHANGED <<restarts, accepted, finished, resps>>
    BY DEF srvVars
<1>2. TypeOK'
  <2>1. /\ registry' \subseteq Dev /\ disk' \subseteq Dev /\ dirty' \in BOOLEAN
        /\ setup' \in [Flow -> 0..MaxNonce] /\ auth' \in [Flow -> 0..MaxNonce]
        /\ cache' \in [Flow \X Seqno -> Entry]
        /\ replay'.set \subseteq Flow /\ replay'.order \in Seq(Flow) /\ replay'.cap = ReplayCap
        /\ gcAge' \in 0..GcPeriod
        /\ opened' \in [Flow -> 0..MaxNonce]
        /\ resps' \subseteq Resp
        /\ restarts' \in 0..MaxRestarts
        /\ accepted' \in Seq(Flow) /\ finished' \subseteq Flow \X (0..MaxNonce)
      BY <1>1 DEF SysInv, TypeOK
  <2> QED BY <2>1 DEF TypeOK
<1>3. EnrolledIsDurable'
    BY <1>1 DEF SysInv, EnrolledIsDurable
<1>4. AnswersInv'
    BY <1>1 DEF SysInv, AnswersInv
<1>5. DequeTracks(replay, accepted, Flow, ReplayCap)' /\ AcceptOncePerWindow'
    BY <1>1 DEF SysInv, AcceptOncePerWindow
<1> QED BY <1>2, <1>3, <1>4, <1>5 DEF SysInv

\* What the invariant says of the state of the clients.
ClientTypes ==
    /\ \A m \in reqs : /\ m.f \in Flow /\ m.seq \in Seqno /\ m.nonce \in 0..MaxNonce
                       /\ m.peer \in Peer /\ m.age \in 0..Delay+1
    /\ disturbed \subseteq Flow
    /\ st \in [Flow -> Status] /\ attempt \in [Flow -> 0..MaxRetries]
    /\ timer \in [Flow -> Nat]
    /\ \A f \in Flow : timer[f] <= IF Waiting(f) THEN Timeout(attempt[f]) ELSE 0
    /\ peer \in [Flow -> Peer] /\ nonce \in [Flow -> 0..MaxNonce] /\ err \in [Flow -> Outcome]
    /\ creds \in [Dev -> [root : BOOLEAN, pin : BOOLEAN]] /\ rebinds \in 0..MaxRebinds
    /\ \A f \in Flow : Kind[f] = "SETUP" /\ st[f] = "ok" => DevOf[f] \in disk
    /\ KeyAgreement /\ RequestsInv

LEMMA ClientFacts ==
    ASSUME SysInv
    PROVE  ClientTypes
BY DEF SysInv, TypeOK, EnrolledIsDurable, ClientTypes

LEMMA ClientStep ==
    ASSUME SysInv, UNCHANGED <<srvVars, resps>>, ClientTypes'
    PROVE  SysInv'
<1>1. disk' = disk
    BY DEF srvVars
<1> QED BY <1>1, ClientSide DEF ClientTypes

\* A step that changes only the credentials.
LEMMA CredsInv ==
    ASSUME SysInv, creds' \in [Dev -> [root : BOOLEAN, pin : BOOLEAN]],
           UNCHANGED <<srvVars, reqs, resps, disturbed, st, attempt, timer, peer, nonce, err, rebinds>>
    PROVE  SysInv'
<1>1. ClientTypes
    BY ClientFacts
<1>2. /\ UNCHANGED <<finished, disk>>
      /\ UNCHANGED <<reqs, disturbed, st, attempt, timer, peer, nonce, err, rebinds>>
    BY DEF srvVars
<1>3. ClientTypes'
    BY <1>1, <1>2 DEF ClientTypes, KeyAgreement, RequestsInv, Waiting
<1> QED BY <1>3, ClientStep

\* transport.send of a packet that is what its run has to send.
LEMMA AttemptInv ==
    ASSUME SysInv, NEW f \in Flow, NEW s \in Seqno, NEW n \in 0..MaxNonce, NEW a \in 0..MaxRetries,
           Attempt(f, s, n, a), UNCHANGED <<srvVars, resps, peer, err, rebinds>>,
           disturbed' \subseteq Flow, creds' \in [Dev -> [root : BOOLEAN, pin : BOOLEAN]],
           NEW z \in {"first", "third"}, st' = [st EXCEPT ![f] = z],
           s = 1 => z = "third" /\ nonce'[f] = n,
           nonce' = nonce \/ (st[f] = "first" /\ nonce' = [nonce EXCEPT ![f] = n]),
           st[f] \in {"idle", "first", z}
    PROVE  SysInv'
<1>1. ClientTypes
    BY ClientFacts
<1>2. UNCHANGED <<finished, disk>>
    BY DEF srvVars
<1>3. /\ reqs' = {m \in reqs : ~(m.f = f /\ m.seq = s /\ m.nonce = n /\ m.peer = peer[f])}
                   \cup {[f |-> f, seq |-> s, nonce |-> n, peer |-> peer[f], age |-> 0]}
      /\ attempt' = [attempt EXCEPT ![f] = a]
      /\ timer' = [timer EXCEPT ![f] = Timeout(a)]
    BY DEF Attempt, Send
<1>4. Timeout(a) \in Nat
    BY SpanAssumption
<1>5. \A m \in reqs' : /\ m.f \in Flow /\ m.seq \in Seqno /\ m.nonce \in 0..MaxNonce
                        /\ m.peer \in Peer /\ m.age \in 0..Delay+1
    BY <1>1, <1>3 DEF ClientTypes
<1>6. /\ st' \in [Flow -> Status] /\ attempt' \in [Flow -> 0..MaxRetries]
      /\ timer' \in [Flow -> Nat] /\ nonce' \in [Flow -> 0..MaxNonce]
    BY <1>1, <1>3, <1>4 DEF ClientTypes, Status
<1>7. ASSUME NEW x \in Flow
      PROVE  timer'[x] <= IF Waiting(x)' THEN Timeout(attempt'[x]) ELSE 0
    BY <1>1, <1>3, <1>4 DEF ClientTypes, Waiting
<1>8. \A x \in Flow : Kind[x] = "SETUP" /\ st'[x] = "ok" => DevOf[x] \in disk'
    BY <1>1, <1>2 DEF ClientTypes
<1>9. KeyAgreement'
  <2>1. \A x \in finished' : nonce'[x[1]] = x[2] /\ st'[x[1]] \in {"third", "ok", "failed"}
    <3>1. \A x \in finished : /\ x[1] \in Flow /\ nonce[x[1]] = x[2]
                               /\ st[x[1]] \in {"third", "ok", "failed"}
        BY <1>1 DEF ClientTypes, KeyAgreement, SysInv, TypeOK
    <3> QED BY <1>1, <1>2, <3>1 DEF ClientTypes
  <2>2. \A x \in Flow : Kind[x] = "AUTH" /\ st'[x] = "ok" => <<x, nonce'[x]>> \in finished'
      BY <1>1, <1>2 DEF ClientTypes, KeyAgreement
  <2> QED BY <2>1, <2>2 DEF KeyAgreement
<1>10. RequestsInv'
  <2> SUFFICES ASSUME NEW m \in reqs'
               PROVE  /\ st'[m.f] # "idle"
                      /\ m.seq = 1 => /\ nonce'[m.f] = m.nonce
                                      /\ st'[m.f] \in {"third", "ok", "failed"}
      BY DEF RequestsInv
  <2>1. CASE m \in reqs
    <3>1. /\ st[m.f] # "idle" /\ m.f \in Flow
          /\ m.seq = 1 => nonce[m.f] = m.nonce /\ st[m.f] \in {"third", "ok", "failed"}
        BY <1>1, <2>1 DEF ClientTypes, RequestsInv
    <3> QED BY <1>1, <3>1 DEF ClientTypes
  <2>2. CASE m = [f |-> f, seq |-> s, nonce |-> n, peer |-> peer[f], age |-> 0]
      BY <1>1, <2>2 DEF ClientTypes
  <2> QED BY <1>3, <2>1, <2>2
<1>11. peer' \in [Flow -> Peer] /\ rebinds' \in 0..MaxRebinds /\ err' \in [Flow -> Outcome]
    BY <1>1 DEF ClientTypes
<1>12. ClientTypes'
    BY <1>5, <1>6, <1>7, <1>8, <1>9, <1>10, <1>11 DEF ClientTypes
<1> QED BY <1>12, ClientStep

\* A run ends, well only if what it was told is true.
LEMMA EndInv ==
    ASSUME SysInv, NEW f \in Flow, NEW z \in {"ok", "failed"}, st' = [st EXCEPT ![f] = z],
           timer' = [timer EXCEPT ![f] = 0], attempt' = [attempt EXCEPT ![f] = 0],
           UNCHANGED <<srvVars, reqs, resps, disturbed, peer, nonce, rebinds>>,
           err' \in [Flow -> Outcome], creds' \in [Dev -> [root : BOOLEAN, pin : BOOLEAN]],
           z = "ok" /\ Kind[f] = "SETUP" => DevOf[f] \in disk,
           z = "ok" /\ Kind[f] = "AUTH" => <<f, nonce[f]>> \in finished
    PROVE  SysInv'
<1>1. ClientTypes
    BY ClientFacts
<1>2. /\ UNCHANGED <<finished, disk>>
      /\ UNCHANGED <<reqs, disturbed, peer, nonce, rebinds>>
    BY DEF srvVars
<1>3. /\ st' \in [Flow -> Status] /\ attempt' \in [Flow -> 0..MaxRetries]
      /\ timer' \in [Flow -> Nat]
    BY <1>1 DEF ClientTypes, Status
<1>4. \A x \in Flow : timer'[x] <= IF Waiting(x)' THEN Timeout(attempt'[x]) ELSE 0
    BY <1>1 DEF ClientTypes, Waiting
<1>5. \A x \in Flow : Kind[x] = "SETUP" /\ st'[x] = "ok" => DevOf[x] \in disk'
    BY <1>1, <1>2 DEF ClientTypes
<1>6. KeyAgreement'
  <2>1. \A x \in finished' : nonce'[x[1]] = x[2] /\ st'[x[1]] \in {"third", "ok", "failed"}
    <3>1. \A x \in finished : /\ x[1] \in Flow /\ nonce[x[1]] = x[2]
                               /\ st[x[1]] \in {"third", "ok", "failed"}
        BY <1>1 DEF ClientTypes, KeyAgreement, SysInv, TypeOK
    <3> QED BY <1>1, <1>2, <3>1 DEF ClientTypes
  <2>2. \A x \in Flow : Kind[x] = "AUTH" /\ st'[x] = "ok" => <<x, nonce'[x]>> \in finished'
      BY <1>1, <1>2 DEF ClientTypes, KeyAgreement
  <2> QED BY <2>1, <2>2 DEF KeyAgreement
<1>7. RequestsInv'
    BY <1>1, <1>2 DEF ClientTypes, RequestsInv
<1>8. ClientTypes'
    BY <1>1, <1>2, <1>3, <1>4, <1>5, <1>6, <1>7 DEF ClientTypes
<1> QED BY <1>8, ClientStep

\* The run fails.
LEMMA FailInv ==
    ASSUME SysInv, NEW f \in Flow, NEW e \in Outcome, Fail(f, e)
    PROVE  SysInv'
<1>1. /\ st' = [st EXCEPT ![f] = "failed"]
      /\ timer' = [timer EXCEPT ![f] = 0] /\ attempt' = [attempt EXCEPT ![f] = 0]
      /\ UNCHANGED <<srvVars, reqs, resps, disturbed, peer, nonce, rebinds>> /\ creds' = creds
    BY DEF Fail
<1>2. creds' \in [Dev -> [root : BOOLEAN, pin : BOOLEAN]]
    BY <1>1 DEF SysInv, TypeOK
<1>3. err' \in [Flow -> Outcome]
    BY DEF Fail, SysInv, TypeOK
<1> QED BY <1>1, <1>2, <1>3, EndInv

\* send_expect: the next attempt sends the same packet.
LEMMA RetryInv ==
    ASSUME SysInv, NEW f \in Flow, Waiting(f), Retry(f)
    PROVE  SysInv'
<1>1. CASE attempt[f] < MaxRetries
  <2>1. ClientTypes
      BY ClientFacts
  <2>2. /\ Attempt(f, SeqOf(f), nonce[f], attempt[f] + 1)
        /\ UNCHANGED <<srvVars, resps, peer, err, rebinds>>
        /\ UNCHANGED <<disturbed, st, nonce, creds>>
      BY <1>1 DEF Retry
  <2>3. /\ SeqOf(f) \in Seqno /\ nonce[f] \in 0..MaxNonce /\ attempt[f] + 1 \in 0..MaxRetries
        /\ disturbed' \subseteq Flow /\ creds' \in [Dev -> [root : BOOLEAN, pin : BOOLEAN]]
      BY <1>1, <2>1, <2>2 DEF ClientTypes, SeqOf, Seqno
  <2>4. /\ st[f] \in {"first", "third"} /\ st' = [st EXCEPT ![f] = st[f]]
        /\ nonce' = [nonce EXCEPT ![f] = nonce[f]] /\ nonce'[f] = nonce[f]
        /\ SeqOf(f) = 1 => st[f] = "third"
      BY <2>1, <2>2 DEF ClientTypes, Waiting, SeqOf
  <2> QED BY <2>2, <2>3, <2>4, AttemptInv
<1>2. CASE ~(attempt[f] < MaxRetries)
    BY <1>2, FailInv DEF Retry, Outcome
<1> QED BY <1>1, <1>2

\* The first packet of a run.
LEMMA StartInv ==
    ASSUME SysInv, NEW f \in Flow, st[f] = "idle", st' = [st EXCEPT ![f] = "first"],
           Attempt(f, 0, 0, 0), UNCHANGED <<srvVars, resps, peer, nonce, err, rebinds>>,
           disturbed' \subseteq Flow, creds' \in [Dev -> [root : BOOLEAN, pin : BOOLEAN]]
    PROVE  SysInv'
<1>1. /\ 0 \in Seqno /\ 0 \in 0..MaxNonce /\ 0 \in 0..MaxRetries /\ nonce' = nonce
      /\ UNCHANGED <<srvVars, resps, peer, err, rebinds>>
    BY DEF Seqno
<1>2. "first" \in {"first", "third"} /\ st[f] \in {"idle", "first", "first"} /\ ~(0 = 1)
    OBVIOUS
<1> QED BY <1>1, <1>2, AttemptInv

\* What a client makes of a response.
LEMMA ReplyInv ==
    ASSUME SysInv, NEW f \in Flow, NEW r \in resps,
           \/ Stray(f, r) \/ ErrorReply(f, r)
           \/ Setup2(f, r) \/ SetupAck(f, r)
           \/ Auth2(f, r) \/ AuthAck(f, r)
    PROVE  SysInv'
<1>1. ClientTypes /\ r \in Resp
    BY ClientFacts DEF SysInv, TypeOK
<1>2. AnswerOK(disk, finished, r.f, r.seq, r.code)
    BY DEF SysInv, AnswersInv
<1>3. CASE Stray(f, r)
    BY <1>3, RetryInv DEF Stray
<1>4. CASE ErrorReply(f, r)
    BY <1>4, FailInv DEF ErrorReply, Outcome
<1>5. CASE Setup2(f, r) \/ Auth2(f, r)
  <2>1. Matches(f, r) /\ r.code \in {"SETUP_2", "AUTH_2"} /\ Proceed(f, r)
      BY <1>5 DEF Setup2, Auth2
  <2>2. r.seq = 0 /\ st[f] = "first"
      BY <1>2, <2>1 DEF AnswerOK, Matches, Waiting, SeqOf
  <2>3. /\ st' = [st EXCEPT ![f] = "third"] /\ nonce' = [nonce EXCEPT ![f] = r.nonce]
        /\ Attempt(f, 1, r.nonce, 0)
        /\ UNCHANGED <<srvVars, resps, peer, err, rebinds>> /\ disturbed' = disturbed /\ creds' = creds
      BY <2>1 DEF Proceed
  <2>4. /\ 1 \in Seqno /\ r.nonce \in 0..MaxNonce /\ 0 \in 0..MaxRetries
        /\ disturbed' \subseteq Flow /\ creds' \in [Dev -> [root : BOOLEAN, pin : BOOLEAN]]
        /\ nonce'[f] = r.nonce
      BY <1>1, <2>3 DEF ClientTypes, Seqno, Resp
  <2>5. "third" \in {"first", "third"} /\ st[f] \in {"idle", "first", "third"}
      BY <2>2
  <2> QED BY <2>2, <2>3, <2>4, <2>5, AttemptInv
<1>6. CASE SetupAck(f, r)
  <2>1. r.f = f /\ r.code = "SETUP_ACK"
      BY <1>6 DEF SetupAck, Matches
  <2>2. Kind[f] = "SETUP" /\ DevOf[f] \in disk
      BY <1>2, <2>1 DEF AnswerOK
  <2>3. CASE Done(f) /\ creds' = [creds EXCEPT ![DevOf[f]] = [root |-> TRUE, pin |-> TRUE]]
    <3>1. /\ st' = [st EXCEPT ![f] = "ok"]
          /\ timer' = [timer EXCEPT ![f] = 0] /\ attempt' = [attempt EXCEPT ![f] = 0]
          /\ UNCHANGED <<srvVars, reqs, resps, disturbed, peer, nonce, rebinds>> /\ err' = err
        BY <2>3 DEF Done
    <3>2. creds' \in [Dev -> [root : BOOLEAN, pin : BOOLEAN]]
        BY <1>1, <2>3 DEF ClientTypes
    <3>3. "ok" \in {"ok", "failed"} /\ ~(Kind[f] = "AUTH") /\ err' \in [Flow -> Outcome]
        BY <1>1, <2>2, <3>1 DEF ClientTypes
    <3> QED BY <2>2, <3>1, <3>2, <3>3, EndInv
  <2> QED BY <1>6, <2>3, FailInv DEF SetupAck, Outcome
<1>7. CASE AuthAck(f, r)
  <2>1. r.f = f /\ r.code = "AUTH_ACK" /\ Done(f) /\ creds' = creds
      BY <1>7 DEF AuthAck, Matches
  <2>2. PICK n \in 0..MaxNonce : Kind[f] = "AUTH" /\ <<f, n>> \in finished
      BY <1>2, <2>1 DEF AnswerOK
  <2>3. <<f, nonce[f]>> \in finished /\ ~(Kind[f] = "SETUP")
    <3>1. nonce[<<f, n>>[1]] = <<f, n>>[2]
        BY <1>1, <2>2 DEF ClientTypes, KeyAgreement
    <3> QED BY <2>2, <3>1
  <2>4. /\ st' = [st EXCEPT ![f] = "ok"]
        /\ timer' = [timer EXCEPT ![f] = 0] /\ attempt' = [attempt EXCEPT ![f] = 0]
        /\ UNCHANGED <<srvVars, reqs, resps, disturbed, peer, nonce, rebinds>> /\ err' = err
      BY <2>1 DEF Done
  <2>5. creds' \in [Dev -> [root : BOOLEAN, pin : BOOLEAN]] /\ "ok" \in {"ok", "failed"}
        /\ err' \in [Flow -> Outcome]
      BY <1>1, <2>1, <2>4 DEF ClientTypes
  <2> QED BY <2>3, <2>4, <2>5, EndInv
<1> QED BY <1>3, <1>4, <1>5, <1>6, <1>7

\* Every step of a client.
LEMMA ClientActionInv ==
    ASSUME SysInv, NEW f \in Flow, Client(f)
    PROVE  SysInv'
<1>1. ClientTypes
    BY ClientFacts
<1>2. ASSUME CreateRoot(f)
      PROVE  st[f] = "idle" /\ creds' \in [Dev -> [root : BOOLEAN, pin : BOOLEAN]]
  <2>1. creds \in [Dev -> [root : BOOLEAN, pin : BOOLEAN]] /\ DevOf[f] \in Dev
      BY <1>1 DEF ClientTypes
  <2>2. creds[DevOf[f]].pin \in BOOLEAN
      BY <2>1
  <2>3. creds' = [creds EXCEPT ![DevOf[f]] = [root |-> TRUE, pin |-> creds[DevOf[f]].pin]]
      BY <1>2 DEF CreateRoot
  <2>4. [root |-> TRUE, pin |-> creds[DevOf[f]].pin] \in [root : BOOLEAN, pin : BOOLEAN]
      BY <2>2
  <2> QED BY <1>2, <2>1, <2>3, <2>4 DEF CreateRoot
<1>3. CASE SetupNeedsPin(f)
    BY <1>2, <1>3, CredsInv DEF SetupNeedsPin
<1>4. CASE StartSetup(f)
  <2>1. /\ CreateRoot(f) /\ st' = [st EXCEPT ![f] = "first"] /\ Attempt(f, 0, 0, 0)
        /\ UNCHANGED <<srvVars, resps, peer, nonce, err, rebinds>> /\ disturbed' = disturbed
      BY <1>4 DEF StartSetup
  <2>2. disturbed' \subseteq Flow
      BY <1>1, <2>1 DEF ClientTypes
  <2> QED BY <1>2, <2>1, <2>2, StartInv
<1>5. CASE StartAuth(f)
  <2>1. /\ st[f] = "idle" /\ st' = [st EXCEPT ![f] = "first"] /\ Attempt(f, 0, 0, 0)
        /\ UNCHANGED <<srvVars, resps, peer, nonce, err, rebinds>> /\ creds' = creds
        /\ disturbed' = disturbed \/ disturbed' = disturbed \cup {f}
      BY <1>5 DEF StartAuth
  <2>2. disturbed' \subseteq Flow /\ creds' \in [Dev -> [root : BOOLEAN, pin : BOOLEAN]]
      BY <1>1, <2>1 DEF ClientTypes
  <2> QED BY <2>1, <2>2, StartInv
<1>6. CASE TimedOut(f)
    BY <1>6, RetryInv DEF TimedOut
<1>7. CASE Rebind(f)
  <2>1. /\ Waiting(f) /\ rebinds < MaxRebinds /\ rebinds' = rebinds + 1
        /\ disturbed' = disturbed \cup {f}
        /\ UNCHANGED <<srvVars, resps>> /\ UNCHANGED <<reqs, st, attempt, timer, nonce, err, creds>>
      BY <1>7 DEF Rebind
  <2>2. peer' \in [Flow -> Peer]
      BY <1>1, <1>7 DEF Rebind, ClientTypes
  <2>3. UNCHANGED <<disk, finished>>
      BY <2>1 DEF srvVars
  <2>4. ClientTypes'
      BY <1>1, <2>1, <2>2, <2>3 DEF ClientTypes, KeyAgreement, RequestsInv, Waiting
  <2> QED BY <2>1, <2>4, ClientStep
<1>8. CASE ClientCrash(f)
    BY <1>8, FailInv DEF ClientCrash, Outcome
<1>9. CASE \E r \in resps : \/ Stray(f, r) \/ ErrorReply(f, r)
                             \/ Setup2(f, r) \/ SetupAck(f, r)
                             \/ Auth2(f, r) \/ AuthAck(f, r)
    BY <1>9, ReplyInv
<1> QED BY <1>3, <1>4, <1>5, <1>6, <1>7, <1>8, <1>9 DEF Client

\* --pin-server-pub.
LEMMA PinInv ==
    ASSUME SysInv, NEW d \in Dev, Pin(d)
    PROVE  SysInv'
<1>1. creds \in [Dev -> [root : BOOLEAN, pin : BOOLEAN]]
    BY DEF SysInv, TypeOK
<1>2. creds' = [creds EXCEPT ![d] = [root |-> creds[d].root, pin |-> TRUE]]
    BY DEF Pin
<1>3. creds[d].root \in BOOLEAN
    BY <1>1
<1>4. [root |-> creds[d].root, pin |-> TRUE] \in [root : BOOLEAN, pin : BOOLEAN]
    BY <1>3
<1>5. creds' \in [Dev -> [root : BOOLEAN, pin : BOOLEAN]]
    BY <1>1, <1>2, <1>4
<1> QED BY <1>5, CredsInv DEF Pin

\* What a tick does to the cached responses and the datagrams.
LEMMA TickFacts ==
    ASSUME TypeOK, Tick
    PROVE  /\ cache' \in [Flow \X Seqno -> Entry] /\ gcAge' \in 0..GcPeriod
           /\ \A f \in Flow, s \in Seqno :
                 /\ cache'[<<f, s>>].code = cache[<<f, s>>].code
                 /\ cache[<<f, s>>].code # "NONE" =>
                       /\ cache'[<<f, s>>].age \in 0..cache[<<f, s>>].age + 1
                       /\ cache'[<<f, s>>].peer = cache[<<f, s>>].peer
                       /\ cache'[<<f, s>>].nonce = cache[<<f, s>>].nonce
           /\ \A x \in reqs' : \E m \in reqs :
                 /\ x.f = m.f /\ x.seq = m.seq /\ x.nonce = m.nonce /\ x.peer = m.peer
                 /\ x.age \in 0..Delay+1
                 /\ x.age <= Delay => m.age <= Delay /\ x.age = m.age + 1
           /\ timer' \in [Flow -> Nat]
           /\ \A f \in Flow : Waiting(f) => timer'[f] = timer[f] - 1
           /\ \A f \in Flow : ~Waiting(f) => timer'[f] = 0
<1>1. /\ cache \in [Flow \X Seqno -> Entry] /\ gcAge \in 0..GcPeriod /\ timer \in [Flow -> Nat]
      /\ \A m \in reqs : m.age \in 0..Delay+1
    BY DEF TypeOK
<1>2. /\ cache' = [x \in Flow \X Seqno |->
                      IF cache[x].code = "NONE" THEN NoEntry
                      ELSE [age |-> Older(cache[x].age, TTL + 1), peer |-> cache[x].peer,
                            code |-> cache[x].code, nonce |-> cache[x].nonce]]
      /\ gcAge' = Older(gcAge, GcPeriod)
      /\ reqs' = {[f |-> m.f, seq |-> m.seq, nonce |-> m.nonce, peer |-> m.peer,
                   age |-> Older(m.age, Delay + 1)] : m \in reqs}
      /\ timer' = [f \in Flow |-> IF Waiting(f) THEN timer[f] - 1 ELSE 0]
      /\ \A f \in Flow : Waiting(f) => timer[f] > 0
    BY DEF Tick, AgeServer
<1>3. ASSUME NEW e \in Entry, e.code # "NONE"
      PROVE  /\ [age |-> Older(e.age, TTL + 1), peer |-> e.peer, code |-> e.code, nonce |-> e.nonce]
                   \in Entry
             /\ Older(e.age, TTL + 1) \in 0..e.age + 1
  <2>1. e \in [age : 0..TTL+1, peer : Peer, code : Code, nonce : 0..MaxNonce]
      BY <1>3 DEF Entry, NoEntry
  <2>2. Older(e.age, TTL + 1) \in 0..TTL+1 /\ Older(e.age, TTL + 1) \in 0..e.age + 1
      BY <2>1 DEF Older
  <2> QED BY <2>1, <2>2 DEF Entry
<1>4. ASSUME NEW x \in Flow \X Seqno
      PROVE  /\ cache'[x] \in Entry /\ cache'[x].code = cache[x].code
             /\ cache[x].code # "NONE" =>
                   /\ cache'[x].age \in 0..cache[x].age + 1
                   /\ cache'[x].peer = cache[x].peer /\ cache'[x].nonce = cache[x].nonce
  <2>1. cache[x] \in Entry
      BY <1>1
  <2>2. CASE cache[x].code = "NONE"
      BY <1>2, <2>2 DEF Entry, NoEntry
  <2>3. CASE cache[x].code # "NONE"
    <3>1. cache'[x] = [age |-> Older(cache[x].age, TTL + 1), peer |-> cache[x].peer,
                       code |-> cache[x].code, nonce |-> cache[x].nonce]
        BY <1>2, <2>3
    <3> QED BY <1>3, <2>1, <2>3, <3>1
  <2> QED BY <2>2, <2>3
<1>5. cache' \in [Flow \X Seqno -> Entry]
  <2>1. DOMAIN cache' = Flow \X Seqno /\ cache' = [x \in Flow \X Seqno |-> cache'[x]]
      BY <1>2
  <2> QED BY <1>4, <2>1
<1>6. gcAge' \in 0..GcPeriod
    BY <1>1, <1>2 DEF Older
<1>7. ASSUME NEW x \in reqs'
      PROVE  \E m \in reqs :
                 /\ x.f = m.f /\ x.seq = m.seq /\ x.nonce = m.nonce /\ x.peer = m.peer
                 /\ x.age \in 0..Delay+1
                 /\ x.age <= Delay => m.age <= Delay /\ x.age = m.age + 1
  <2>1. PICK m \in reqs : x = [f |-> m.f, seq |-> m.seq, nonce |-> m.nonce, peer |-> m.peer,
                               age |-> Older(m.age, Delay + 1)]
      BY <1>2
  <2>2. x.f = m.f /\ x.seq = m.seq /\ x.nonce = m.nonce /\ x.peer = m.peer
        /\ x.age = Older(m.age, Delay + 1) /\ m.age \in 0..Delay+1
      BY <1>1, <2>1
  <2>3. x.age \in 0..Delay+1 /\ (x.age <= Delay => m.age <= Delay /\ x.age = m.age + 1)
      BY <2>2 DEF Older
  <2> QED BY <2>2, <2>3
<1>8. /\ timer' \in [Flow -> Nat]
      /\ \A f \in Flow : Waiting(f) => timer'[f] = timer[f] - 1
      /\ \A f \in Flow : ~Waiting(f) => timer'[f] = 0
    BY <1>1, <1>2
<1>9. \A f \in Flow, s \in Seqno : <<f, s>> \in Flow \X Seqno
    OBVIOUS
<1> QED BY <1>4, <1>5, <1>6, <1>7, <1>8, <1>9

\* Time passes.
LEMMA TickInv ==
    ASSUME SysInv, Tick
    PROVE  SysInv'
<1>1. ClientTypes /\ TypeOK /\ AnswersInv
    BY ClientFacts DEF SysInv
<1>2. /\ UNCHANGED <<registry, dirty, disk, setup, auth, replay, opened>>
      /\ UNCHANGED <<resps, restarts, accepted, finished, disturbed>>
      /\ UNCHANGED <<st, attempt, peer, nonce, err, creds, rebinds>>
    BY DEF Tick, AgeServer, storeVars
<1>3. \A m \in reqs' : /\ m.f \in Flow /\ m.seq \in Seqno /\ m.nonce \in 0..MaxNonce
                        /\ m.peer \in Peer /\ m.age \in 0..Delay+1
  <2> SUFFICES ASSUME NEW m \in reqs'
               PROVE  /\ m.f \in Flow /\ m.seq \in Seqno /\ m.nonce \in 0..MaxNonce
                      /\ m.peer \in Peer /\ m.age \in 0..Delay+1
      OBVIOUS
  <2>1. PICK x \in reqs : /\ m.f = x.f /\ m.seq = x.seq /\ m.nonce = x.nonce /\ m.peer = x.peer
                          /\ m.age \in 0..Delay+1
      BY <1>1, TickFacts
  <2> QED BY <1>1, <2>1 DEF ClientTypes
<1>4. RequestsInv'
  <2> SUFFICES ASSUME NEW m \in reqs'
               PROVE  /\ st'[m.f] # "idle"
                      /\ m.seq = 1 => /\ nonce'[m.f] = m.nonce
                                      /\ st'[m.f] \in {"third", "ok", "failed"}
      BY DEF RequestsInv
  <2>1. PICK x \in reqs : m.f = x.f /\ m.seq = x.seq /\ m.nonce = x.nonce
      BY <1>1, TickFacts
  <2> QED BY <1>1, <1>2, <2>1 DEF ClientTypes, RequestsInv
<1>5. cache' \in [Flow \X Seqno -> Entry] /\ gcAge' \in 0..GcPeriod /\ timer' \in [Flow -> Nat]
    BY <1>1, TickFacts
<1>6. \A f \in Flow, s \in Seqno : cache'[<<f, s>>].code = cache[<<f, s>>].code
    BY <1>1, TickFacts
<1>7. \A f \in Flow : timer'[f] <= IF Waiting(f)' THEN Timeout(attempt'[f]) ELSE 0
  <2> SUFFICES ASSUME NEW f \in Flow
               PROVE  timer'[f] <= IF Waiting(f)' THEN Timeout(attempt'[f]) ELSE 0
      OBVIOUS
  <2>1. /\ Waiting(f) => timer'[f] = timer[f] - 1
        /\ ~Waiting(f) => timer'[f] = 0
      BY <1>1, TickFacts
  <2>2. timer[f] <= (IF Waiting(f) THEN Timeout(attempt[f]) ELSE 0) /\ timer[f] \in Nat
      BY <1>1 DEF ClientTypes
  <2>3. Timeout(attempt[f]) \in Nat
      BY <1>1, SpanAssumption DEF ClientTypes
  <2> QED BY <1>2, <2>1, <2>2, <2>3 DEF Waiting
<1>8. TypeOK'
  <2>1. /\ registry' \subseteq Dev /\ disk' \subseteq Dev /\ dirty' \in BOOLEAN
        /\ setup' \in [Flow -> 0..MaxNonce] /\ auth' \in [Flow -> 0..MaxNonce]
        /\ replay'.set \subseteq Flow /\ replay'.order \in Seq(Flow) /\ replay'.cap = ReplayCap
        /\ opened' \in [Flow -> 0..MaxNonce]
        /\ resps' \subseteq Resp
        /\ restarts' \in 0..MaxRestarts
        /\ accepted' \in Seq(Flow) /\ finished' \subseteq Flow \X (0..MaxNonce)
        /\ disturbed' \subseteq Flow
        /\ st' \in [Flow -> Status] /\ attempt' \in [Flow -> 0..MaxRetries]
        /\ peer' \in [Flow -> Peer] /\ nonce' \in [Flow -> 0..MaxNonce] /\ err' \in [Flow -> Outcome]
        /\ creds' \in [Dev -> [root : BOOLEAN, pin : BOOLEAN]] /\ rebinds' \in 0..MaxRebinds
      BY <1>1, <1>2 DEF TypeOK
  <2> QED BY <1>3, <1>5, <1>7, <2>1 DEF TypeOK
<1>9. EnrolledIsDurable'
  <2>1. \A f \in Flow : cache'[<<f, 1>>].code = cache[<<f, 1>>].code
      BY <1>6 DEF Seqno
  <2> QED BY <1>2, <2>1 DEF SysInv, EnrolledIsDurable
<1>10. KeyAgreement'
    BY <1>1, <1>2 DEF ClientTypes, KeyAgreement
<1>11. AnswersInv'
    BY <1>1, <1>2, <1>6 DEF AnswersInv
<1>12. DequeTracks(replay, accepted, Flow, ReplayCap)' /\ AcceptOncePerWindow'
    BY <1>2 DEF SysInv, AcceptOncePerWindow
<1> QED BY <1>4, <1>8, <1>9, <1>10, <1>11, <1>12 DEF SysInv

-----------------------------------------------------------------------------
(* The invariant and what follows from it.                                 *)

\* The server has just been started, and no client has run.
LEMMA InitInv ==
    ASSUME SysInit
    PROVE  SysInv
<1>1. /\ registry = Disk0 /\ dirty = FALSE /\ disk = Disk0
      /\ setup = [f \in Flow |-> 0] /\ auth = [f \in Flow |-> 0]
      /\ cache = [x \in Flow \X Seqno |-> NoEntry]
      /\ replay = DequeNew(ReplayCap) /\ gcAge = 0 /\ opened = [f \in Flow |-> 0]
      /\ reqs = {} /\ resps = {} /\ restarts = 0
      /\ accepted = <<>> /\ finished = {} /\ disturbed = {}
    BY DEF SysInit, Init
<1>2. /\ st = [f \in Flow |-> "idle"]
      /\ attempt = [f \in Flow |-> 0] /\ timer = [f \in Flow |-> 0]
      /\ peer = [f \in Flow |-> Home]
      /\ nonce = [f \in Flow |-> 0] /\ err = [f \in Flow |-> "none"] /\ rebinds = 0
      /\ creds = [d \in Dev |-> [root |-> d \in Disk0, pin |-> d \in Disk0]]
    BY DEF SysInit
<1>3. TypeOK
  <2>1. Home \in Peer
      BY PeerAssumption DEF Home
  <2>2. cache \in [Flow \X Seqno -> Entry]
      BY <1>1 DEF Entry
  <2>3. replay.set \subseteq Flow /\ replay.order \in Seq(Flow) /\ replay.cap = ReplayCap
      BY <1>1 DEF DequeNew
  <2>4. creds \in [Dev -> [root : BOOLEAN, pin : BOOLEAN]]
    <3>1. \A d \in Dev : [root |-> d \in Disk0, pin |-> d \in Disk0] \in [root : BOOLEAN, pin : BOOLEAN]
        OBVIOUS
    <3> QED BY <1>2, <3>1
  <2>5. /\ st \in [Flow -> Status] /\ attempt \in [Flow -> 0..MaxRetries]
        /\ timer \in [Flow -> Nat] /\ peer \in [Flow -> Peer]
        /\ nonce \in [Flow -> 0..MaxNonce] /\ err \in [Flow -> Outcome] /\ rebinds \in 0..MaxRebinds
        /\ \A f \in Flow : timer[f] <= IF Waiting(f) THEN Timeout(attempt[f]) ELSE 0
      BY <1>2, <2>1 DEF Status, Waiting, Outcome
  <2>6. registry \subseteq Dev /\ disk \subseteq Dev /\ dirty \in BOOLEAN
      BY <1>1
  <2>7. /\ setup \in [Flow -> 0..MaxNonce] /\ auth \in [Flow -> 0..MaxNonce]
        /\ gcAge \in 0..GcPeriod /\ opened \in [Flow -> 0..MaxNonce]
        /\ restarts \in 0..MaxRestarts
      BY <1>1
  <2>8. /\ resps \subseteq Resp /\ finished \subseteq Flow \X (0..MaxNonce)
        /\ disturbed \subseteq Flow /\ accepted \in Seq(Flow)
      BY <1>1
  <2> QED BY <1>1, <2>2, <2>3, <2>4, <2>5, <2>6, <2>7, <2>8 DEF TypeOK
<1>4. \A f \in Flow, s \in Seqno : cache[<<f, s>>].code = "NONE"
  <2>1. \A f \in Flow, s \in Seqno : <<f, s>> \in Flow \X Seqno
      OBVIOUS
  <2> QED BY <1>1, <2>1 DEF NoEntry
<1>5. EnrolledIsDurable
    BY <1>1, <1>2, <1>4 DEF EnrolledIsDurable, Seqno
<1>6. KeyAgreement
    BY <1>1, <1>2 DEF KeyAgreement
<1>7. AnswersInv
    BY <1>1, <1>4 DEF AnswersInv, AnswerOK
<1>8. RequestsInv
    BY <1>1 DEF RequestsInv
<1>9. DequeTracks(replay, accepted, Flow, ReplayCap)
    BY <1>1, DequeNewTracks
<1>10. AcceptOncePerWindow
    BY <1>1 DEF AcceptOncePerWindow
<1> QED BY <1>3, <1>5, <1>6, <1>7, <1>8, <1>9, <1>10 DEF SysInv

\* A step that changes nothing.
LEMMA StutterInv ==
    ASSUME SysInv, UNCHANGED vars
    PROVE  SysInv'
<1>1. UNCHANGED clVars /\ UNCHANGED <<srvVars, resps>> /\ UNCHANGED <<reqs, disturbed, disk, finished>>
    BY DEF vars, clVars, srvVars
<1>2. ClientTypes
    BY ClientFacts
<1>3. UNCHANGED <<st, attempt, timer, peer, nonce, err, creds, rebinds>>
    BY DEF vars
<1>4. ClientTypes'
    BY <1>1, <1>2, <1>3 DEF ClientTypes, KeyAgreement, RequestsInv, Waiting
<1> QED BY <1>1, <1>4, ClientStep

\* SysInv is preserved by every step of the server, of the clients and of
\* time.
THEOREM InvariantSysInv == Spec => []SysInv
<1>1. SysInit => SysInv
    BY InitInv
<1>2. SysInv /\ [Next]_vars => SysInv'
  <2> SUFFICES ASSUME SysInv, [Next]_vars
               PROVE  SysInv'
      OBVIOUS
  <2>1. CASE Server
      BY <2>1, ServerInv
  <2>2. CASE Tick
      BY <2>2, TickInv
  <2>3. CASE \E f \in Flow : Client(f)
      BY <2>3, ClientActionInv
  <2>4. CASE \E d \in Dev : Pin(d)
      BY <2>4, PinInv
  <2>5. CASE UNCHANGED vars
      BY <2>5, StutterInv
  <2> QED BY <2>1, <2>2, <2>3, <2>4, <2>5 DEF Next
<1> QED BY <1>1, <1>2, PTL DEF Spec

\* The shape of the state of the Rust server, its clients and the network.
THEOREM SystemTypeCorrect == Spec => []TypeOK
<1>1. SysInv => TypeOK
    BY DEF SysInv
<1> QED BY <1>1, InvariantSysInv, PTL

\* An enrolment that was acknowledged, or may still be from the response
\* cache, is in registry.bin, through crashes and failed flushes (fs.rs:322).
THEOREM EnrolmentIsDurable == Spec => []EnrolledIsDurable
<1>1. SysInv => EnrolledIsDurable
    BY DEF SysInv
<1> QED BY <1>1, InvariantSysInv, PTL

\* The server confirms a session only with the client that derived its key,
\* and a run that ends well shares a confirmed key (auth.rs:324).
THEOREM ConfirmedKeysAgree == Spec => []KeyAgreement
<1>1. SysInv => KeyAgreement
    BY DEF SysInv
<1> QED BY <1>1, InvariantSysInv, PTL

\* An AUTH_1 is accepted again only after as many other acceptances as the
\* replay cache holds (auth.rs:200, 312).
THEOREM AcceptedOncePerWindow == Spec => []AcceptOncePerWindow
<1>1. SysInv => AcceptOncePerWindow
    BY DEF SysInv
<1> QED BY <1>1, InvariantSysInv, PTL

-----------------------------------------------------------------------------
(* Runs that meet no fault.  Slack is what makes the retries of such a run *)
(* safe: as long as a copy of a request can arrive in time, the response   *)
(* to it has not expired.                                                  *)

\* A timeout brings the sum of the timeouts from one attempt to the next.
LEMMA SpanFacts ==
    ASSUME Slack
    PROVE  /\ \A a \in 0..MaxRetries : /\ SendSpan[a] \in Nat /\ SendSpan[a] + Delay <= TTL
                                        /\ Timeout(a) \in Nat
           /\ \A a \in 0..MaxRetries : a < MaxRetries =>
                 a + 1 \in 0..MaxRetries /\ SendSpan[a + 1] = SendSpan[a] + Timeout(a)
           /\ SendSpan[0] = 0
<1>1. \A a \in 0..MaxRetries : a < MaxRetries => a \in 0..MaxRetries-1 /\ a + 1 \in 0..MaxRetries
    OBVIOUS
<1> QED BY <1>1, SpanAssumption DEF Slack

\* gc_if_due keeps a response that may still be asked for.
LEMMA CollectedKeeps ==
    ASSUME Slack, SysInv, NEW f \in Flow, NEW s \in Seqno, NEW g \in Collected, Answered(f, s),
           WillRetry(f, s) \/ (\E m \in reqs : m.f = f /\ m.seq = s /\ m.age <= Delay)
    PROVE  g.cache[<<f, s>>] = cache[<<f, s>>] /\ cache[<<f, s>>].code # "NONE"
<1>1. TypeOK
    BY DEF SysInv
<1>2. cache[<<f, s>>].age \in Nat
    BY <1>1, EntryShape
<1>3. cache[<<f, s>>].age <= TTL /\ cache[<<f, s>>].code # "NONE"
  <2>1. CASE WillRetry(f, s)
    <3>1. /\ cache[<<f, s>>].code # "NONE"
          /\ cache[<<f, s>>].age + timer[f] <= SendSpan[attempt[f] + 1]
        BY <2>1 DEF Answered
    <3>2. attempt[f] \in 0..MaxRetries /\ attempt[f] < MaxRetries /\ timer[f] \in Nat
        BY <1>1, <2>1 DEF TypeOK, WillRetry
    <3>3. SendSpan[attempt[f] + 1] \in Nat /\ SendSpan[attempt[f] + 1] + Delay <= TTL
        BY <3>2, SpanFacts
    <3> QED BY <1>2, <3>1, <3>2, <3>3
  <2>2. ASSUME NEW m \in reqs, m.f = f, m.seq = s, m.age <= Delay
        PROVE  cache[<<f, s>>].age <= TTL /\ cache[<<f, s>>].code # "NONE"
    <3>1. PICK a \in 0..MaxRetries : cache[<<f, s>>].age <= SendSpan[a] + m.age
        BY <2>2 DEF Answered
    <3>2. cache[<<f, s>>].code # "NONE"
        BY <2>2 DEF Answered
    <3>3. m.age \in Nat
        BY <1>1 DEF TypeOK
    <3>4. SendSpan[a] \in Nat /\ SendSpan[a] + Delay <= TTL
        BY SpanFacts
    <3> QED BY <1>2, <2>2, <3>1, <3>2, <3>3, <3>4
  <2> QED BY <2>1, <2>2
<1>4. \/ g.cache[<<f, s>>] = cache[<<f, s>>]
      \/ g.cache[<<f, s>>] = NoEntry /\ cache[<<f, s>>].age > TTL
    BY <1>1, CollectedFacts
<1> QED BY <1>2, <1>3, <1>4

\* So a response that was there for its request is there after a collection.
LEMMA AnsweredStays ==
    ASSUME Slack, SysInv, NEW f \in Flow, NEW s \in Seqno, NEW g \in Collected, Answered(f, s),
           cache'[<<f, s>>] = g.cache[<<f, s>>], reqs' = reqs, UNCHANGED clVars
    PROVE  Answered(f, s)'
<1>1. UNCHANGED <<st, attempt, timer>>
    BY DEF clVars
<1>2. WillRetry(f, s)' <=> WillRetry(f, s)
    BY <1>1 DEF WillRetry, Waiting, SeqOf
<1>3. ASSUME WillRetry(f, s)
      PROVE  /\ cache'[<<f, s>>].code # "NONE"
             /\ cache'[<<f, s>>].age + timer'[f] <= SendSpan[attempt'[f] + 1]
  <2>1. cache'[<<f, s>>] = cache[<<f, s>>]
      BY <1>3, CollectedKeeps
  <2> QED BY <1>1, <1>3, <2>1 DEF Answered
<1>4. ASSUME NEW m \in reqs, m.f = f, m.seq = s, m.age <= Delay
      PROVE  /\ cache'[<<f, s>>].code # "NONE"
             /\ \E a \in 0..MaxRetries : cache'[<<f, s>>].age <= SendSpan[a] + m.age
  <2>1. cache'[<<f, s>>] = cache[<<f, s>>]
      BY <1>4, CollectedKeeps
  <2> QED BY <1>4, <2>1 DEF Answered
<1> QED BY <1>2, <1>3, <1>4 DEF Answered

\* A response that was just cached is young enough.
LEMMA AnsweredNow ==
    ASSUME Slack, SysInv, NEW f \in Flow, NEW s \in Seqno, cache'[<<f, s>>].code # "NONE",
           cache'[<<f, s>>].age = 0, reqs' = reqs, UNCHANGED clVars
    PROVE  Answered(f, s)'
<1>1. UNCHANGED <<st, attempt, timer>>
    BY DEF clVars
<1>2. TypeOK
    BY DEF SysInv
<1>3. ASSUME WillRetry(f, s)'
      PROVE  cache'[<<f, s>>].age + timer'[f] <= SendSpan[attempt'[f] + 1]
  <2>1. Waiting(f) /\ attempt[f] < MaxRetries
      BY <1>1, <1>3 DEF WillRetry, Waiting
  <2>2. timer[f] \in Nat /\ attempt[f] \in 0..MaxRetries /\ timer[f] <= Timeout(attempt[f])
      BY <1>2, <2>1 DEF TypeOK
  <2>3. /\ SendSpan[attempt[f]] \in Nat /\ Timeout(attempt[f]) \in Nat
        /\ SendSpan[attempt[f] + 1] = SendSpan[attempt[f]] + Timeout(attempt[f])
      BY <2>1, <2>2, SpanFacts
  <2> QED BY <1>1, <2>2, <2>3
<1>4. ASSUME NEW m \in reqs
      PROVE  \E a \in 0..MaxRetries : cache'[<<f, s>>].age <= SendSpan[a] + m.age
  <2>1. m.age \in Nat /\ 0 \in 0..MaxRetries
      BY <1>2 DEF TypeOK
  <2>2. SendSpan[0] = 0
      BY SpanFacts
  <2> QED BY <2>1, <2>2
<1> QED BY <1>3, <1>4 DEF Answered

\* A response that a run on its course may be sent.
Harmless(r) == r.code \notin Error /\ (r.seq = 0 => r.nonce = 1)

\* A step of the server that only collects, as far as the run is concerned.
LEMMA CollectKeepsCourse ==
    ASSUME Slack, SysInv, NEW f \in Flow, OnCourse(f), NEW g \in Collected, f \notin g.evicted,
           reqs' = reqs, UNCHANGED clVars,
           \A s \in Seqno : cache'[<<f, s>>] = g.cache[<<f, s>>],
           setup'[f] = g.setup[f], auth'[f] = g.auth[f], opened'[f] = opened[f],
           registry \subseteq registry', f \in replay'.set => f \in replay.set,
           \A r \in resps' : r.f = f => r \in resps \/ (Seen(f) /\ Harmless(r))
    PROVE  OnCourse(f)'
<1>1. TypeOK /\ Unharmed(f)
    BY DEF SysInv, OnCourse
<1>2. UNCHANGED <<st, attempt, timer, peer, nonce, err>>
    BY DEF clVars
<1>3. setup'[f] = setup[f] /\ auth'[f] = auth[f]
    BY <1>1, CollectedFacts
<1>4. \A s \in Seqno : cache'[<<f, s>>] = cache[<<f, s>>] \/ cache'[<<f, s>>] = NoEntry
    BY <1>1, CollectedFacts
<1>5. NoEntry.code = "NONE" /\ "NONE" \notin Error
    BY DEF NoEntry, Error
<1>6. Unharmed(f)'
  <2>1. \A r \in resps' : r.f = f => r.code \notin Error /\ (r.seq = 0 => r.nonce = 1)
      BY <1>1 DEF Unharmed, Harmless
  <2>2. ASSUME NEW s \in Seqno
        PROVE  /\ cache'[<<f, s>>].code \notin Error
               /\ cache'[<<f, s>>].code # "NONE" =>
                     cache'[<<f, s>>].peer = peer'[f] /\ (s = 0 => cache'[<<f, s>>].nonce = 1)
    <3>1. CASE cache'[<<f, s>>] = cache[<<f, s>>]
        BY <1>1, <1>2, <3>1 DEF Unharmed
    <3>2. CASE cache'[<<f, s>>] = NoEntry
        BY <1>5, <3>2
    <3> QED BY <1>4, <3>1, <3>2
  <2>3. \A m \in reqs' : m.f = f => m.peer = peer'[f] /\ (m.seq = 1 => m.nonce = 1)
      BY <1>1, <1>2 DEF Unharmed
  <2>4. /\ err'[f] \notin Error /\ (st'[f] = "third" => nonce'[f] = 1)
        /\ Kind[f] = "AUTH" /\ st'[f] # "idle" => DevOf[f] \in registry'
      BY <1>1, <1>2 DEF Unharmed
  <2> QED BY <2>1, <2>2, <2>3, <2>4 DEF Unharmed
<1>7. CASE Unseen(f) /\ ~Seen(f)
  <2>1. /\ opened'[f] = 0 /\ f \notin replay'.set /\ st'[f] \notin {"third", "ok"}
        /\ \A r \in resps' : r.f # f
        /\ \A m \in reqs' : m.f = f => m.seq = 0
      BY <1>2, <1>7 DEF Unseen
  <2>2. \A s \in Seqno : cache'[<<f, s>>].code = "NONE"
      BY <1>4, <1>5, <1>7 DEF Unseen
  <2>3. Unseen(f)'
      BY <2>1, <2>2 DEF Unseen
  <2> QED BY <1>6, <2>3 DEF OnCourse
<1>8. CASE Seen(f)
  <2>1. 0 \in Seqno /\ 1 \in Seqno
      BY DEF Seqno
  <2>2. Answered(f, 0)'
      BY <1>8, <2>1, AnsweredStays DEF Seen
  <2>3. Answered(f, 1) => Answered(f, 1)'
      BY <2>1, AnsweredStays
  <2>4. Session(f)' = Session(f)
      BY <1>3 DEF Session
  <2>5. Seen(f)'
      BY <1>2, <1>8, <2>2, <2>3, <2>4 DEF Seen
  <2> QED BY <1>6, <2>5 DEF OnCourse
<1> QED BY <1>7, <1>8 DEF OnCourse

\* The registry map only grows while the server runs, and the replay cache
\* gains only the key of the packet.
LEMMA HandlerKeys ==
    ASSUME SysInv, NEW m \in reqs, NEW g \in Collected, Handler(g, m)
    PROVE  registry \subseteq registry' /\ \A f \in replay'.set : f \in replay.set \/ f = m.f
<1>1. registry \subseteq registry'
    BY DEF Handler, Setup1Refuse, Setup1, Setup3Refuse, Setup3, Auth1Refuse, Auth1, Auth3Refuse, Auth3,
           SaveRecord, storeVars
<1>2. CASE Auth1(g, m)
  <2>1. replay' = DequeInsert(replay, m.f)
      BY <1>2 DEF Auth1
  <2>2. ASSUME NEW d, NEW k PROVE DequeInsert(d, k).set \subseteq d.set \cup {k}
    <3>1. DequeEvict(d).set \subseteq d.set
        BY DEF DequeEvict
    <3> QED BY <3>1 DEF DequeInsert
  <2> QED BY <1>1, <2>1, <2>2
<1>3. CASE replay' = replay
    BY <1>1, <1>3
<1> QED BY <1>2, <1>3 DEF Handler, Setup1Refuse, Setup1, Setup3Refuse, Setup3, Auth1Refuse,
                          Auth3Refuse, Auth3

\* A handler runs for another client.
LEMMA OtherPacketCourse ==
    ASSUME Slack, SysInv, NEW f \in Flow, OnCourse(f), NEW m \in reqs, m.f # f,
           NEW g \in Collected, Handler(g, m), UNCHANGED clVars, f \notin disturbed'
    PROVE  OnCourse(f)'
<1>1. TypeOK /\ m.f \in Flow
    BY DEF SysInv, TypeOK
<1>2. PICK code \in Code, n \in 0..MaxNonce, faults \in SUBSET Flow :
          Execute(g, m, code, n, faults) /\ AnswerOK(disk', finished', m.f, m.seq, code)
    BY HandlerAnswer
<1>3. Executed(g, m, code, n, faults)
    BY <1>1, <1>2, ExecuteFacts
<1>4. /\ f \notin g.evicted /\ reqs' = reqs
      /\ \A s \in Seqno : cache'[<<f, s>>] = g.cache[<<f, s>>]
      /\ \A r \in resps' : r.f = f => r \in resps
    BY <1>3 DEF Executed
<1>5. setup'[f] = g.setup[f] /\ auth'[f] = g.auth[f] /\ opened'[f] = opened[f]
    BY HandlerSessions
<1>6. registry \subseteq registry' /\ (f \in replay'.set => f \in replay.set)
    BY HandlerKeys
<1> QED BY <1>4, <1>5, <1>6, CollectKeepsCourse

\* What a run's own packet finds when it is not late.
LEMMA OwnPacket ==
    ASSUME Slack, SysInv, NEW f \in Flow, OnCourse(f), NEW m \in reqs, m.f = f, m.age <= Delay,
           NEW g \in Collected
    PROVE  /\ m.peer = peer[f] /\ (m.seq = 1 => m.nonce = 1) /\ m.seq \in Seqno
           /\ st[f] # "idle" /\ (m.seq = 1 => st[f] \in {"third", "ok", "failed"})
           /\ Kind[f] = "AUTH" => DevOf[f] \in registry
           /\ Unseen(f) => m.seq = 0 /\ ~Hit(g, m)
           /\ Seen(f) /\ Answered(f, m.seq) => Hit(g, m)
<1>1. TypeOK /\ RequestsInv /\ Unharmed(f)
    BY DEF SysInv, OnCourse
<1>2. m.seq \in Seqno /\ m.peer = peer[f] /\ (m.seq = 1 => m.nonce = 1)
    BY <1>1 DEF TypeOK, Unharmed
<1>3. st[f] # "idle" /\ (m.seq = 1 => st[f] \in {"third", "ok", "failed"})
    BY <1>1 DEF RequestsInv
<1>4. Kind[f] = "AUTH" => DevOf[f] \in registry
    BY <1>1, <1>3 DEF Unharmed
<1>5. ASSUME Unseen(f) PROVE m.seq = 0 /\ ~Hit(g, m)
  <2>1. m.seq = 0 /\ cache[<<f, m.seq>>].code = "NONE"
      BY <1>2, <1>5 DEF Unseen
  <2>2. g.cache[<<f, m.seq>>] = cache[<<f, m.seq>>] \/ g.cache[<<f, m.seq>>] = NoEntry
      BY <1>1, <1>2, CollectedFacts
  <2> QED BY <2>1, <2>2 DEF Hit, NoEntry
<1>6. ASSUME Answered(f, m.seq) PROVE Hit(g, m)
  <2>1. g.cache[<<f, m.seq>>] = cache[<<f, m.seq>>] /\ cache[<<f, m.seq>>].code # "NONE"
      BY <1>2, <1>6, CollectedKeeps
  <2>2. cache[<<f, m.seq>>].peer = peer[f]
      BY <1>1, <1>2, <2>1 DEF Unharmed
  <2> QED BY <1>2, <2>1, <2>2 DEF Hit
<1> QED BY <1>2, <1>3, <1>4, <1>5, <1>6

\* A run on its course is answered from the cache.
LEMMA CachedCourse ==
    ASSUME Slack, SysInv, NEW f \in Flow, OnCourse(f), NEW m \in reqs,
           NEW g \in Collected, ServeCached(g, m), UNCHANGED clVars, f \notin disturbed'
    PROVE  OnCourse(f)'
<1>1. TypeOK /\ m.f \in Flow /\ m.seq \in Seqno /\ m.age \in Nat
  <2>1. TypeOK /\ m.f \in Flow /\ m.seq \in Seqno /\ m.age \in 0..Delay+1
      BY DEF SysInv, TypeOK
  <2> QED BY <2>1
<1>2. /\ cache' = g.cache /\ reqs' = reqs
      /\ cache[<<m.f, m.seq>>].code # "NONE" /\ cache[<<m.f, m.seq>>].peer = m.peer
      /\ resps' = resps \cup {[f |-> m.f, seq |-> m.seq, code |-> cache[<<m.f, m.seq>>].code,
                               nonce |-> cache[<<m.f, m.seq>>].nonce]}
      /\ disturbed' = disturbed \cup Late(m) \cup g.evicted
    BY <1>1, ServeFacts
<1>3. /\ UNCHANGED storeVars /\ UNCHANGED <<replay, opened>>
      /\ setup' = g.setup /\ auth' = g.auth
    BY DEF ServeCached
<1>4. f \notin g.evicted /\ registry \subseteq registry' /\ (f \in replay'.set => f \in replay.set)
    BY <1>2, <1>3 DEF storeVars
<1>5. ASSUME NEW r \in resps', r.f = f PROVE r \in resps \/ (Seen(f) /\ Harmless(r))
  <2>1. CASE r = [f |-> m.f, seq |-> m.seq, code |-> cache[<<m.f, m.seq>>].code,
                  nonce |-> cache[<<m.f, m.seq>>].nonce]
    <3>1. m.f = f /\ r.seq = m.seq /\ r.code = cache[<<f, m.seq>>].code
          /\ r.nonce = cache[<<f, m.seq>>].nonce
        BY <1>5, <2>1
    <3>2. m.age <= Delay
        BY <1>1, <1>2, <3>1 DEF Late
    <3>3. ~Unseen(f)
      <4>1. Hit(g, m)
          BY DEF ServeCached
      <4> QED BY <3>1, <3>2, <4>1, OwnPacket
    <3>4. cache[<<f, m.seq>>].code \notin Error /\ (m.seq = 0 => cache[<<f, m.seq>>].nonce = 1)
        BY <1>1, <1>2, <3>1 DEF OnCourse, Unharmed
    <3> QED BY <3>1, <3>3, <3>4 DEF OnCourse, Harmless
  <2> QED BY <1>2, <2>1
<1>6. /\ \A s \in Seqno : cache'[<<f, s>>] = g.cache[<<f, s>>]
      /\ setup'[f] = g.setup[f] /\ auth'[f] = g.auth[f] /\ opened'[f] = opened[f]
    BY <1>2, <1>3
<1> QED BY <1>2, <1>4, <1>5, <1>6, CollectKeepsCourse

\* After a handler of the run's own packet, once it has answered with no error.
LEMMA AnsweredCourse ==
    ASSUME Slack, SysInv, NEW f \in Flow, OnCourse(f), NEW m \in reqs, m.f = f, m.age <= Delay,
           NEW g \in Collected, NEW code \in Code \ Error, NEW n, NEW faults,
           Executed(g, m, code, n, faults), m.seq = 0 => n = 1, UNCHANGED clVars,
           registry \subseteq registry', opened'[f] = 1,
           \/ m.seq = 0 /\ Session(f)' = 1
           \/ m.seq = 1 /\ Seen(f)
    PROVE  OnCourse(f)'
<1>1. TypeOK /\ Unharmed(f)
    BY DEF SysInv, OnCourse
<1>2. UNCHANGED <<st, attempt, timer, peer, nonce, err>>
    BY DEF clVars
<1>3. /\ m.peer = peer[f] /\ m.seq \in Seqno
      /\ st[f] # "idle" /\ (m.seq = 1 => st[f] \in {"third", "ok", "failed"})
    BY OwnPacket
<1>4. /\ reqs' = reqs
      /\ cache'[<<f, m.seq>>] = [age |-> 0, peer |-> m.peer, code |-> code, nonce |-> n]
      /\ \A s \in Seqno : s # m.seq => cache'[<<f, s>>] = g.cache[<<f, s>>]
      /\ resps' = resps \cup {[f |-> m.f, seq |-> m.seq, code |-> code, nonce |-> n]}
    BY DEF Executed
<1>5. \A s \in Seqno : s # m.seq =>
          cache'[<<f, s>>] = cache[<<f, s>>] \/ cache'[<<f, s>>] = NoEntry
    BY <1>1, <1>4, CollectedFacts
<1>6. NoEntry.code = "NONE" /\ "NONE" \notin Error /\ "NONE" \notin Code
    BY DEF NoEntry, Error, Code
<1>7. Unharmed(f)'
  <2>1. \A r \in resps' : r.f = f => r.code \notin Error /\ (r.seq = 0 => r.nonce = 1)
      BY <1>1, <1>4 DEF Unharmed
  <2>2. ASSUME NEW s \in Seqno
        PROVE  /\ cache'[<<f, s>>].code \notin Error
               /\ cache'[<<f, s>>].code # "NONE" =>
                     cache'[<<f, s>>].peer = peer'[f] /\ (s = 0 => cache'[<<f, s>>].nonce = 1)
    <3>1. CASE s # m.seq /\ cache'[<<f, s>>] = cache[<<f, s>>]
        BY <1>1, <1>2, <3>1 DEF Unharmed
    <3>2. CASE s # m.seq /\ cache'[<<f, s>>] = NoEntry
        BY <1>6, <3>2
    <3>3. CASE s = m.seq
        BY <1>2, <1>3, <1>4, <3>3
    <3> QED BY <1>5, <3>1, <3>2, <3>3
  <2>3. \A x \in reqs' : x.f = f => x.peer = peer'[f] /\ (x.seq = 1 => x.nonce = 1)
      BY <1>1, <1>2, <1>4 DEF Unharmed
  <2>4. /\ err'[f] \notin Error /\ (st'[f] = "third" => nonce'[f] = 1)
        /\ Kind[f] = "AUTH" /\ st'[f] # "idle" => DevOf[f] \in registry'
      BY <1>1, <1>2 DEF Unharmed
  <2> QED BY <2>1, <2>2, <2>3, <2>4 DEF Unharmed
<1>8. Answered(f, m.seq)'
  <2>1. cache'[<<f, m.seq>>].code # "NONE" /\ cache'[<<f, m.seq>>].age = 0
      BY <1>4, <1>6
  <2> QED BY <1>3, <1>4, <2>1, AnsweredNow
<1>9. CASE m.seq = 0 /\ Session(f)' = 1
  <2>1. Seen(f)'
      BY <1>2, <1>3, <1>8, <1>9 DEF Seen
  <2> QED BY <1>7, <2>1 DEF OnCourse
<1>10. CASE m.seq = 1 /\ Seen(f)
  <2>1. Answered(f, 0)'
    <3>1. cache'[<<f, 0>>] = g.cache[<<f, 0>>] /\ 0 \in Seqno
        BY <1>4, <1>10 DEF Seqno
    <3> QED BY <1>4, <1>10, <3>1, AnsweredStays DEF Seen
  <2>2. Seen(f)'
      BY <1>2, <1>3, <1>8, <1>10, <2>1 DEF Seen
  <2> QED BY <1>7, <2>2 DEF OnCourse
<1> QED BY <1>9, <1>10

\* A handler runs for the run itself.
LEMMA OwnPacketCourse ==
    ASSUME Slack, SysInv, NEW f \in Flow, Calm(f), OnCourse(f), NEW m \in reqs, m.f = f,
           NEW g \in Collected, Handler(g, m), UNCHANGED clVars, f \notin disturbed'
    PROVE  OnCourse(f)'
<1>1. TypeOK /\ m.age \in Nat /\ m.seq \in Seqno
  <2>1. TypeOK /\ m.f \in Flow /\ m.seq \in Seqno /\ m.age \in 0..Delay+1
      BY DEF SysInv, TypeOK
  <2> QED BY <2>1
<1>2. PICK code \in Code, n \in 0..MaxNonce, faults \in SUBSET Flow :
          Execute(g, m, code, n, faults) /\ AnswerOK(disk', finished', m.f, m.seq, code)
    BY HandlerAnswer
<1>3. Executed(g, m, code, n, faults)
    BY <1>1, <1>2, ExecuteFacts
<1>4. f \notin g.evicted /\ f \notin faults /\ m.age <= Delay /\ ~Hit(g, m)
    BY <1>1, <1>3 DEF Executed, Late
<1>5. registry \subseteq registry'
    BY HandlerKeys
<1>6. /\ (m.seq = 1 => m.nonce = 1) /\ (Kind[f] = "AUTH" => DevOf[f] \in registry)
      /\ Unseen(f) => m.seq = 0
      /\ Seen(f) => ~Answered(f, m.seq)
    BY <1>4, OwnPacket
<1>7. g.setup[f] = setup[f] /\ g.auth[f] = auth[f] /\ g.setup \in [Flow -> 0..MaxNonce]
      /\ g.auth \in [Flow -> 0..MaxNonce] /\ opened \in [Flow -> 0..MaxNonce]
    BY <1>1, <1>4, CollectedFacts DEF TypeOK
<1>8. (Kind[f] = "SETUP" => f \in Paired) /\ DevOf[f] \in Permitted
      /\ Kind[f] \in {"SETUP", "AUTH"}
    BY DEF Calm
<1>9. CASE Unseen(f)
  <2>1. m.seq = 0 /\ opened[f] = 0 /\ f \notin replay.set
      BY <1>6, <1>9 DEF Unseen
  <2>2. CASE Kind[f] = "SETUP"
    <3>1. Setup1(g, m)
        BY <1>8, <2>1, <2>2 DEF Handler, Setup1Refuse, Setup3Refuse, Setup3, Auth1Refuse, Auth1,
                                Auth3Refuse, Auth3, Opening, Closing
    <3>2. opened' = [opened EXCEPT ![f] = opened[f] + 1]
        BY <3>1 DEF Setup1
    <3>3. opened'[f] = 1
        BY <1>7, <2>1, <3>2
    <3>4. Execute(g, m, "SETUP_2", 1, {}) /\ setup' = [g.setup EXCEPT ![f] = 1]
        BY <3>1, <3>3 DEF Setup1
    <3>5. Session(f)' = 1
        BY <1>7, <2>2, <3>4 DEF Session
    <3>6. "SETUP_2" \in Code \ Error /\ 1 \in 0..MaxNonce /\ {} \in SUBSET Flow
        BY DEF Code, Error
    <3>7. Executed(g, m, "SETUP_2", 1, {})
        BY <1>1, <3>4, <3>6, ExecuteFacts
    <3> QED BY <1>4, <1>5, <2>1, <3>3, <3>5, <3>6, <3>7, AnsweredCourse
  <2>3. CASE Kind[f] = "AUTH"
    <3>1. Auth1Check(m) = "OK"
        BY <1>6, <1>8, <2>1, <2>3, Auth1CheckFacts DEF DequeContains
    <3>2. Auth1(g, m)
        BY <2>1, <2>3, <3>1 DEF Handler, Setup1Refuse, Setup1, Setup3Refuse, Setup3, Auth1Refuse,
                                Auth3Refuse, Auth3, Opening, Closing
    <3>3. opened' = [opened EXCEPT ![f] = opened[f] + 1]
        BY <3>2 DEF Auth1
    <3>4. opened'[f] = 1
        BY <1>7, <2>1, <3>3
    <3>5. Execute(g, m, "AUTH_2", 1, {}) /\ auth' = [g.auth EXCEPT ![f] = 1]
        BY <3>2, <3>4 DEF Auth1
    <3>6. Session(f)' = 1
        BY <1>7, <2>3, <3>5 DEF Session
    <3>7. "AUTH_2" \in Code \ Error /\ 1 \in 0..MaxNonce /\ {} \in SUBSET Flow
        BY DEF Code, Error
    <3>8. Executed(g, m, "AUTH_2", 1, {})
        BY <1>1, <3>5, <3>7, ExecuteFacts
    <3> QED BY <1>4, <1>5, <2>1, <3>4, <3>6, <3>7, <3>8, AnsweredCourse
  <2> QED BY <1>8, <2>2, <2>3
<1>10. CASE Seen(f)
  <2>1. m.seq = 1 /\ Session(f) = 1 /\ opened[f] = 1 /\ m.nonce = 1
      BY <1>1, <1>6, <1>10 DEF Seen, Seqno
  <2>2. CASE Kind[f] = "SETUP"
    <3>1. g.setup[f] = 1
        BY <1>7, <2>1, <2>2 DEF Session
    <3>2. Setup3(g, m)
        BY <2>1, <2>2, <3>1 DEF Handler, Setup1Refuse, Setup1, Setup3Refuse, Auth1Refuse, Auth1,
                                Auth3Refuse, Auth3, Opening, Closing
    <3>3. ~Execute(g, m, "STORAGE", 0, {m.f})
        BY <1>2 DEF Execute, Arrive
    <3>4. Execute(g, m, "SETUP_ACK", 0, {}) /\ opened' = opened
        BY <3>2, <3>3 DEF Setup3
    <3>5. "SETUP_ACK" \in Code \ Error /\ 0 \in 0..MaxNonce /\ {} \in SUBSET Flow
        BY DEF Code, Error
    <3>6. Executed(g, m, "SETUP_ACK", 0, {})
        BY <1>1, <3>4, <3>5, ExecuteFacts
    <3>7. opened'[f] = 1 /\ ~(m.seq = 0)
        BY <2>1, <3>4
    <3> QED BY <1>4, <1>5, <1>10, <2>1, <3>5, <3>6, <3>7, AnsweredCourse
  <2>3. CASE Kind[f] = "AUTH"
    <3>1. g.auth[f] = 1
        BY <1>7, <2>1, <2>3 DEF Session
    <3>2. Auth3(g, m)
        BY <2>1, <2>3, <3>1 DEF Handler, Setup1Refuse, Setup1, Setup3Refuse, Setup3, Auth1Refuse,
                                Auth1, Auth3Refuse, Opening, Closing
    <3>3. Execute(g, m, "AUTH_ACK", 0, {}) /\ opened' = opened
        BY <3>2 DEF Auth3
    <3>4. "AUTH_ACK" \in Code \ Error /\ 0 \in 0..MaxNonce /\ {} \in SUBSET Flow
        BY DEF Code, Error
    <3>5. Executed(g, m, "AUTH_ACK", 0, {})
        BY <1>1, <3>3, <3>4, ExecuteFacts
    <3>6. opened'[f] = 1 /\ ~(m.seq = 0)
        BY <2>1, <3>3
    <3> QED BY <1>4, <1>5, <1>10, <2>1, <3>4, <3>5, <3>6, AnsweredCourse
  <2> QED BY <1>8, <2>2, <2>3
<1> QED BY <1>9, <1>10 DEF OnCourse

\* Every step of the server leaves an undisturbed run on its course.
LEMMA ServerCourse ==
    ASSUME Slack, SysInv, CalmInv, Server, NEW f \in Flow, Calm(f)'
    PROVE  OnCourse(f)'
<1>1. UNCHANGED clVars /\ f \notin disturbed'
    BY DEF Server, Calm
<1>2. TypeOK
    BY DEF SysInv
<1>3. ASSUME disturbed \subseteq disturbed' PROVE Calm(f) /\ OnCourse(f)
    BY <1>3 DEF CalmInv, Calm
<1>4. CASE \E m \in reqs : Dispatch(m)
  <2>1. PICK m \in reqs, g \in Collected : ServeCached(g, m) \/ Handler(g, m)
      BY <1>4 DEF Dispatch, Handler
  <2>2. CASE ServeCached(g, m)
    <3>1. disturbed' = disturbed \cup Late(m) \cup g.evicted
        BY <1>2, <2>2, ServeFacts
    <3>2. OnCourse(f)
        BY <1>3, <3>1
    <3> QED BY <1>1, <2>2, <3>2, CachedCourse
  <2>3. CASE Handler(g, m)
    <3>1. PICK code \in Code, n \in 0..MaxNonce, faults \in SUBSET Flow :
              Execute(g, m, code, n, faults) /\ AnswerOK(disk', finished', m.f, m.seq, code)
        BY <2>3, HandlerAnswer
    <3>2. disturbed \subseteq disturbed'
        BY <3>1 DEF Execute, Arrive
    <3>3. Calm(f) /\ OnCourse(f)
        BY <1>3, <3>2
    <3>4. CASE m.f = f
        BY <1>1, <2>3, <3>3, <3>4, OwnPacketCourse
    <3>5. CASE m.f # f
        BY <1>1, <2>3, <3>3, <3>5, OtherPacketCourse
    <3> QED BY <3>4, <3>5
  <2> QED BY <2>1, <2>2, <2>3
<1>5. CASE IdleGc
  <2>1. PICK g \in Collected : /\ cache' = g.cache /\ setup' = g.setup /\ auth' = g.auth
                                /\ disturbed' = disturbed \cup g.evicted
      BY <1>5 DEF IdleGc
  <2>2. UNCHANGED storeVars /\ UNCHANGED <<replay, opened, reqs, resps>>
      BY <1>5 DEF IdleGc
  <2>3. OnCourse(f) /\ f \notin g.evicted
      BY <1>1, <1>3, <2>1
  <2>4. /\ \A s \in Seqno : cache'[<<f, s>>] = g.cache[<<f, s>>]
        /\ setup'[f] = g.setup[f] /\ auth'[f] = g.auth[f] /\ opened'[f] = opened[f]
        /\ registry \subseteq registry' /\ (f \in replay'.set => f \in replay.set)
        /\ \A r \in resps' : r \in resps
        /\ reqs' = reqs
      BY <2>1, <2>2 DEF storeVars
  <2> QED BY <1>1, <2>3, <2>4, CollectKeepsCourse
<1>6. CASE \E d : Boot(d)
    BY <1>1, <1>6 DEF Boot
<1> QED BY <1>4, <1>5, <1>6 DEF Server, Restart, CrashAfterSave

\* A tick makes the response older and the timer shorter.
LEMMA TickCourse ==
    ASSUME Slack, SysInv, CalmInv, Tick, NEW f \in Flow, Calm(f)'
    PROVE  OnCourse(f)'
<1>1. TypeOK
    BY DEF SysInv
<1>2. /\ UNCHANGED <<registry, setup, auth, replay, opened, resps, disturbed>>
      /\ UNCHANGED <<st, attempt, peer, nonce, err>>
    BY DEF Tick, AgeServer, storeVars
<1>3. Unharmed(f) /\ (Unseen(f) \/ Seen(f))
    BY <1>2 DEF CalmInv, Calm, OnCourse
<1>4. \A s \in Seqno :
          /\ cache'[<<f, s>>].code = cache[<<f, s>>].code
          /\ cache[<<f, s>>].code # "NONE" =>
                /\ cache'[<<f, s>>].age \in 0..cache[<<f, s>>].age + 1
                /\ cache'[<<f, s>>].peer = cache[<<f, s>>].peer
                /\ cache'[<<f, s>>].nonce = cache[<<f, s>>].nonce
    BY <1>1, TickFacts
<1>5. \A x \in reqs' : \E m \in reqs :
          /\ x.f = m.f /\ x.seq = m.seq /\ x.nonce = m.nonce /\ x.peer = m.peer
          /\ x.age \in 0..Delay+1
          /\ x.age <= Delay => m.age <= Delay /\ x.age = m.age + 1
    BY <1>1, TickFacts
<1>6. timer' \in [Flow -> Nat] /\ (Waiting(f) => timer'[f] = timer[f] - 1)
    BY <1>1, TickFacts
<1>7. ASSUME NEW s \in Seqno, Answered(f, s) PROVE Answered(f, s)'
  <2>1. cache[<<f, s>>].age \in Nat
      BY <1>1, EntryShape
  <2>2. WillRetry(f, s)' <=> WillRetry(f, s)
      BY <1>2 DEF WillRetry, Waiting, SeqOf
  <2>3. ASSUME WillRetry(f, s)
        PROVE  /\ cache'[<<f, s>>].code # "NONE"
               /\ cache'[<<f, s>>].age + timer'[f] <= SendSpan[attempt'[f] + 1]
    <3>1. /\ cache[<<f, s>>].code # "NONE" /\ attempt'[f] = attempt[f]
          /\ cache[<<f, s>>].age + timer[f] <= SendSpan[attempt[f] + 1]
        BY <1>2, <1>7, <2>3 DEF Answered
    <3>2. timer'[f] = timer[f] - 1 /\ timer[f] \in Nat
        BY <1>1, <1>6, <2>3 DEF WillRetry, TypeOK
    <3>3. cache'[<<f, s>>].age \in 0..cache[<<f, s>>].age + 1 /\ cache'[<<f, s>>].code # "NONE"
        BY <1>4, <3>1
    <3>4. attempt[f] + 1 \in 0..MaxRetries
        BY <1>1, <2>3 DEF WillRetry, TypeOK
    <3>5. SendSpan[attempt[f] + 1] \in Nat
        BY <3>4, SpanFacts
    <3> QED BY <2>1, <3>1, <3>2, <3>3, <3>5
  <2>4. ASSUME NEW x \in reqs', x.f = f, x.seq = s, x.age <= Delay
        PROVE  /\ cache'[<<f, s>>].code # "NONE"
               /\ \E a \in 0..MaxRetries : cache'[<<f, s>>].age <= SendSpan[a] + x.age
    <3>1. PICK m \in reqs : m.f = f /\ m.seq = s /\ m.age <= Delay /\ x.age = m.age + 1
        BY <1>5, <2>4
    <3>2. PICK a \in 0..MaxRetries : cache[<<f, s>>].age <= SendSpan[a] + m.age
        BY <1>7, <3>1 DEF Answered
    <3>3. cache[<<f, s>>].code # "NONE"
        BY <1>7, <3>1 DEF Answered
    <3>4. cache'[<<f, s>>].age \in 0..cache[<<f, s>>].age + 1 /\ cache'[<<f, s>>].code # "NONE"
        BY <1>4, <3>3
    <3>5. SendSpan[a] \in Nat
        BY SpanFacts
    <3>6. m.age \in 0..Delay+1
        BY <1>1 DEF TypeOK
    <3>7. cache'[<<f, s>>].age <= SendSpan[a] + x.age
        BY <2>1, <3>1, <3>2, <3>4, <3>5, <3>6
    <3> QED BY <3>4, <3>7
  <2> QED BY <2>2, <2>3, <2>4 DEF Answered
<1>8. Unharmed(f)'
  <2>1. /\ err'[f] \notin Error /\ (st'[f] = "third" => nonce'[f] = 1)
        /\ Kind[f] = "AUTH" /\ st'[f] # "idle" => DevOf[f] \in registry'
        /\ \A r \in resps' : r.f = f => r.code \notin Error /\ (r.seq = 0 => r.nonce = 1)
      BY <1>2, <1>3 DEF Unharmed
  <2>2. \A s \in Seqno :
            /\ cache'[<<f, s>>].code \notin Error
            /\ cache'[<<f, s>>].code # "NONE" =>
                  cache'[<<f, s>>].peer = peer'[f] /\ (s = 0 => cache'[<<f, s>>].nonce = 1)
      BY <1>2, <1>3, <1>4 DEF Unharmed
  <2>3. \A x \in reqs' : x.f = f => x.peer = peer'[f] /\ (x.seq = 1 => x.nonce = 1)
      BY <1>2, <1>3, <1>5 DEF Unharmed
  <2> QED BY <2>1, <2>2, <2>3 DEF Unharmed
<1>9. ASSUME Unseen(f) PROVE Unseen(f)'
  <2>1. /\ opened'[f] = 0 /\ f \notin replay'.set /\ st'[f] \notin {"third", "ok"}
        /\ \A r \in resps' : r.f # f
        /\ \A s \in Seqno : cache'[<<f, s>>].code = "NONE"
      BY <1>2, <1>4, <1>9 DEF Unseen
  <2>2. \A x \in reqs' : x.f = f => x.seq = 0
      BY <1>5, <1>9 DEF Unseen
  <2> QED BY <2>1, <2>2 DEF Unseen
<1>10. ASSUME Seen(f) PROVE Seen(f)'
  <2>1. Answered(f, 0)' /\ (Answered(f, 1) => Answered(f, 1)')
      BY <1>7, <1>10 DEF Seen, Seqno
  <2>2. Session(f)' = Session(f)
      BY <1>2 DEF Session
  <2> QED BY <1>2, <1>10, <2>1, <2>2 DEF Seen
<1> QED BY <1>3, <1>8, <1>9, <1>10 DEF OnCourse

\* A step of a client that only concerns other runs, or the credentials.
LEMMA OtherClientCourse ==
    ASSUME NEW f \in Flow, OnCourse(f), UNCHANGED <<srvVars, resps>>,
           st'[f] = st[f], attempt'[f] = attempt[f], timer'[f] = timer[f], peer'[f] = peer[f],
           nonce'[f] = nonce[f], err'[f] = err[f],
           \A x \in reqs' : x.f = f => x \in reqs
    PROVE  OnCourse(f)'
<1>1. UNCHANGED <<registry, setup, auth, cache, replay, opened, resps>>
    BY DEF srvVars
<1>2. Unharmed(f)'
    BY <1>1 DEF OnCourse, Unharmed
<1>3. Unseen(f) => Unseen(f)'
    BY <1>1 DEF Unseen
<1>4. ASSUME NEW s \in Seqno, Answered(f, s) PROVE Answered(f, s)'
  <2>1. WillRetry(f, s)' <=> WillRetry(f, s)
      BY DEF WillRetry, Waiting, SeqOf
  <2> QED BY <1>1, <1>4, <2>1 DEF Answered
<1>5. ASSUME Seen(f) PROVE Seen(f)'
  <2>1. Answered(f, 0)' /\ (Answered(f, 1) => Answered(f, 1)')
      BY <1>4, <1>5 DEF Seen, Seqno
  <2>2. Session(f)' = Session(f)
      BY <1>1 DEF Session
  <2> QED BY <1>1, <1>5, <2>1, <2>2 DEF Seen
<1> QED BY <1>2, <1>3, <1>5 DEF OnCourse

\* A run starts.
LEMMA StartCourse ==
    ASSUME Slack, SysInv, NEW f \in Flow, OnCourse(f), st[f] = "idle",
           st' = [st EXCEPT ![f] = "first"], Attempt(f, 0, 0, 0),
           UNCHANGED <<srvVars, resps, peer, nonce, err>>,
           Kind[f] = "AUTH" => DevOf[f] \in registry
    PROVE  OnCourse(f)'
<1>1. /\ UNCHANGED <<registry, setup, auth, cache, replay, opened>>
      /\ UNCHANGED <<resps, peer, nonce, err>>
    BY DEF srvVars
<1>2. Unharmed(f) /\ Unseen(f)
    BY DEF OnCourse, Seen
<1>3. st'[f] = "first"
    BY DEF SysInv, TypeOK
<1>4. \A x \in reqs' : x.f = f =>
          x = [f |-> f, seq |-> 0, nonce |-> 0, peer |-> peer[f], age |-> 0]
    BY DEF Attempt, Send, SysInv, RequestsInv
<1>5. Unharmed(f)'
    BY <1>1, <1>2, <1>3, <1>4 DEF Unharmed
<1>6. Unseen(f)'
    BY <1>1, <1>2, <1>3, <1>4 DEF Unseen
<1> QED BY <1>5, <1>6 DEF OnCourse

\* send_expect sends the request again: the response to it is no older than
\* the time that the client has been sending.
LEMMA ResendCourse ==
    ASSUME Slack, SysInv, NEW f \in Flow, OnCourse(f), Waiting(f), attempt[f] < MaxRetries,
           Attempt(f, SeqOf(f), nonce[f], attempt[f] + 1),
           UNCHANGED <<srvVars, resps, st, peer, nonce, err>>
    PROVE  OnCourse(f)'
<1>1. /\ UNCHANGED <<registry, setup, auth, cache, replay, opened>>
      /\ UNCHANGED <<resps, st, peer, nonce, err>>
    BY DEF srvVars
<1>2. TypeOK /\ Unharmed(f)
    BY DEF SysInv, OnCourse
<1>3. attempt[f] \in 0..MaxRetries /\ attempt[f] + 1 \in 0..MaxRetries /\ timer[f] \in Nat
    BY <1>2 DEF TypeOK
<1>4. attempt'[f] = attempt[f] + 1 /\ timer'[f] = Timeout(attempt[f] + 1)
    BY <1>2 DEF Attempt, TypeOK
<1>5. /\ SendSpan[attempt[f] + 1] \in Nat /\ Timeout(attempt[f] + 1) \in Nat
      /\ attempt[f] + 1 < MaxRetries =>
            SendSpan[attempt[f] + 1 + 1] = SendSpan[attempt[f] + 1] + Timeout(attempt[f] + 1)
    BY <1>3, SpanFacts
<1>6. \A x \in reqs' : x \in reqs \/ x = [f |-> f, seq |-> SeqOf(f), nonce |-> nonce[f],
                                          peer |-> peer[f], age |-> 0]
    BY DEF Attempt, Send
<1>7. ASSUME NEW s \in Seqno, Answered(f, s) PROVE Answered(f, s)'
  <2>1. cache[<<f, s>>].age \in Nat
      BY <1>2, EntryShape
  <2>2. ASSUME SeqOf(f) = s
        PROVE  /\ cache[<<f, s>>].code # "NONE"
               /\ cache[<<f, s>>].age <= SendSpan[attempt[f] + 1]
    <3>1. /\ cache[<<f, s>>].code # "NONE"
          /\ cache[<<f, s>>].age + timer[f] <= SendSpan[attempt[f] + 1]
        BY <1>7, <2>2 DEF Answered, WillRetry
    <3> QED BY <1>3, <1>5, <2>1, <3>1
  <2>3. ASSUME WillRetry(f, s)'
        PROVE  /\ cache'[<<f, s>>].code # "NONE"
               /\ cache'[<<f, s>>].age + timer'[f] <= SendSpan[attempt'[f] + 1]
    <3>1. SeqOf(f) = s /\ attempt[f] + 1 < MaxRetries
        BY <1>1, <1>4, <2>3 DEF WillRetry, SeqOf
    <3>2. cache[<<f, s>>].code # "NONE" /\ cache[<<f, s>>].age <= SendSpan[attempt[f] + 1]
        BY <2>2, <3>1
    <3>3. cache[<<f, s>>].age + Timeout(attempt[f] + 1) <= SendSpan[attempt[f] + 1 + 1]
        BY <1>5, <2>1, <3>1, <3>2
    <3> QED BY <1>1, <1>4, <3>2, <3>3
  <2>4. ASSUME NEW x \in reqs', x.f = f, x.seq = s, x.age <= Delay
        PROVE  /\ cache'[<<f, s>>].code # "NONE"
               /\ \E a \in 0..MaxRetries : cache'[<<f, s>>].age <= SendSpan[a] + x.age
    <3>1. CASE x \in reqs
        BY <1>1, <1>7, <2>4, <3>1 DEF Answered
    <3>2. CASE x = [f |-> f, seq |-> SeqOf(f), nonce |-> nonce[f], peer |-> peer[f], age |-> 0]
      <4>1. SeqOf(f) = s /\ x.age = 0
          BY <2>4, <3>2
      <4>2. cache[<<f, s>>].code # "NONE" /\ cache[<<f, s>>].age <= SendSpan[attempt[f] + 1]
          BY <2>2, <4>1
      <4>3. cache[<<f, s>>].age <= SendSpan[attempt[f] + 1] + x.age
          BY <1>5, <2>1, <4>1, <4>2
      <4> QED BY <1>1, <1>3, <4>2, <4>3
    <3> QED BY <1>6, <3>1, <3>2
  <2> QED BY <2>3, <2>4 DEF Answered
<1>8. SeqOf(f) = 1 => st[f] = "third"
    BY DEF SeqOf
<1>9. Unharmed(f)'
  <2>1. \A x \in reqs' : x.f = f => x.peer = peer'[f] /\ (x.seq = 1 => x.nonce = 1)
      BY <1>1, <1>2, <1>6, <1>8 DEF Unharmed
  <2>2. /\ err'[f] \notin Error /\ (st'[f] = "third" => nonce'[f] = 1)
        /\ Kind[f] = "AUTH" /\ st'[f] # "idle" => DevOf[f] \in registry'
        /\ \A r \in resps' : r.f = f => r.code \notin Error /\ (r.seq = 0 => r.nonce = 1)
      BY <1>1, <1>2 DEF Unharmed
  <2>3. \A s \in Seqno :
            /\ cache'[<<f, s>>].code \notin Error
            /\ cache'[<<f, s>>].code # "NONE" =>
                  cache'[<<f, s>>].peer = peer'[f] /\ (s = 0 => cache'[<<f, s>>].nonce = 1)
      BY <1>1, <1>2 DEF Unharmed
  <2> QED BY <2>1, <2>2, <2>3 DEF Unharmed
<1>10. ASSUME Unseen(f) PROVE Unseen(f)'
  <2>1. SeqOf(f) = 0
      BY <1>10 DEF Unseen, SeqOf
  <2>2. \A x \in reqs' : x.f = f => x.seq = 0
      BY <1>6, <1>10, <2>1 DEF Unseen
  <2> QED BY <1>1, <1>10, <2>2 DEF Unseen
<1>11. ASSUME Seen(f) PROVE Seen(f)'
  <2>1. Answered(f, 0)' /\ (Answered(f, 1) => Answered(f, 1)')
      BY <1>7, <1>11 DEF Seen, Seqno
  <2>2. Session(f)' = Session(f)
      BY <1>1 DEF Session
  <2> QED BY <1>1, <1>11, <2>1, <2>2 DEF Seen
<1> QED BY <1>9, <1>10, <1>11 DEF OnCourse

\* The run ends, and not with an error response.
LEMMA EndCourse ==
    ASSUME SysInv, NEW f \in Flow, OnCourse(f), Waiting(f), NEW z \in {"ok", "failed"},
           st' = [st EXCEPT ![f] = z], UNCHANGED <<srvVars, reqs, resps, peer, nonce>>,
           err'[f] \notin Error, z = "ok" => Seen(f)
    PROVE  OnCourse(f)'
<1>1. /\ UNCHANGED <<registry, setup, auth, cache, replay, opened>>
      /\ UNCHANGED <<reqs, resps, peer, nonce>>
    BY DEF srvVars
<1>2. Unharmed(f) /\ st[f] # "idle" /\ st'[f] = z
    BY DEF SysInv, TypeOK, OnCourse, Waiting
<1>3. Unharmed(f)'
    BY <1>1, <1>2 DEF Unharmed
<1>4. ASSUME Unseen(f), ~Seen(f) PROVE Unseen(f)'
    BY <1>1, <1>2, <1>4 DEF Unseen
<1>5. ASSUME NEW s \in Seqno, Answered(f, s) PROVE Answered(f, s)'
  <2>1. ~WillRetry(f, s)'
      BY <1>2 DEF WillRetry, Waiting
  <2> QED BY <1>1, <1>5, <2>1 DEF Answered
<1>6. ASSUME Seen(f) PROVE Seen(f)'
  <2>1. Answered(f, 0)' /\ (Answered(f, 1) => Answered(f, 1)')
      BY <1>5, <1>6 DEF Seen, Seqno
  <2>2. Session(f)' = Session(f)
      BY <1>1 DEF Session
  <2> QED BY <1>1, <1>2, <1>6, <2>1, <2>2 DEF Seen
<1> QED BY <1>3, <1>4, <1>6 DEF OnCourse

\* The run goes on to its third packet.
LEMMA ProceedCourse ==
    ASSUME Slack, SysInv, NEW f \in Flow, OnCourse(f), NEW r \in resps, r.f = f, r.seq = 0,
           st[f] = "first", Proceed(f, r)
    PROVE  OnCourse(f)'
<1>1. /\ UNCHANGED <<registry, setup, auth, cache, replay, opened>>
      /\ UNCHANGED <<resps, peer, err>>
    BY DEF Proceed, srvVars
<1>2. Unharmed(f) /\ Seen(f) /\ r.nonce = 1
    BY DEF OnCourse, Unseen, Unharmed
<1>3. st'[f] = "third" /\ nonce'[f] = 1
    BY <1>2 DEF Proceed, SysInv, TypeOK
<1>4. \A x \in reqs' : x \in reqs \/ x = [f |-> f, seq |-> 1, nonce |-> 1,
                                          peer |-> peer[f], age |-> 0]
    BY <1>2 DEF Proceed, Attempt, Send
<1>5. Unharmed(f)'
  <2>1. \A x \in reqs' : x.f = f => x.peer = peer'[f] /\ (x.seq = 1 => x.nonce = 1)
      BY <1>1, <1>2, <1>4 DEF Unharmed
  <2> QED BY <1>1, <1>2, <1>3, <2>1 DEF Unharmed
<1>6. Answered(f, 0)'
  <2>1. ~WillRetry(f, 0)'
      BY <1>3 DEF WillRetry, SeqOf
  <2>2. \A x \in reqs' : x.seq = 0 => x \in reqs
      BY <1>4
  <2> QED BY <1>1, <1>2, <2>1, <2>2 DEF Seen, Answered
<1>7. Session(f)' = 1
    BY <1>1, <1>2 DEF Seen, Session
<1>8. Seen(f)'
    BY <1>1, <1>2, <1>3, <1>6, <1>7 DEF Seen
<1> QED BY <1>5, <1>8 DEF OnCourse

\* Every step of a client leaves every undisturbed run on its course.
LEMMA ClientCourse ==
    ASSUME Slack, SysInv, CalmInv, NEW h \in Flow, Client(h), NEW f \in Flow, Calm(f)'
    PROVE  OnCourse(f)'
<1>1. TypeOK /\ f \notin disturbed'
    BY DEF SysInv, Calm
<1>2. /\ st \in [Flow -> Status] /\ attempt \in [Flow -> 0..MaxRetries] /\ timer \in [Flow -> Nat]
      /\ peer \in [Flow -> Peer] /\ nonce \in [Flow -> 0..MaxNonce] /\ err \in [Flow -> Outcome]
    BY <1>1 DEF TypeOK
<1>3. ASSUME disturbed \subseteq disturbed' PROVE OnCourse(f)
    BY <1>3 DEF CalmInv, Calm
<1>4. ASSUME NEW e, Fail(h, e), Waiting(h), h = f => e \notin Error PROVE OnCourse(f)'
  <2>1. /\ st' = [st EXCEPT ![h] = "failed"] /\ err' = [err EXCEPT ![h] = e]
        /\ timer' = [timer EXCEPT ![h] = 0] /\ attempt' = [attempt EXCEPT ![h] = 0]
        /\ UNCHANGED <<srvVars, reqs, resps, peer, nonce>> /\ disturbed' = disturbed
      BY <1>4 DEF Fail
  <2>2. OnCourse(f)
      BY <1>3, <2>1
  <2>3. CASE h = f
    <3>1. err'[f] \notin Error /\ "failed" \in {"ok", "failed"} /\ ~("failed" = "ok")
        BY <1>2, <1>4, <2>1, <2>3
    <3> QED BY <1>4, <2>1, <2>2, <2>3, <3>1, EndCourse
  <2>4. CASE h # f
    <3>1. /\ st'[f] = st[f] /\ attempt'[f] = attempt[f] /\ timer'[f] = timer[f]
          /\ peer'[f] = peer[f] /\ nonce'[f] = nonce[f] /\ err'[f] = err[f]
          /\ \A x \in reqs' : x.f = f => x \in reqs
          /\ UNCHANGED <<srvVars, resps>>
        BY <1>2, <2>1, <2>4
    <3> QED BY <2>2, <3>1, OtherClientCourse
  <2> QED BY <2>3, <2>4
<1>5. ASSUME UNCHANGED <<srvVars, resps>>, NEW q, NEW n, NEW a, Attempt(h, q, n, a), h # f,
             disturbed \subseteq disturbed', err' = err, peer' = peer,
             st'[f] = st[f], nonce'[f] = nonce[f]
      PROVE  OnCourse(f)'
  <2>1. attempt'[f] = attempt[f] /\ timer'[f] = timer[f]
      BY <1>2, <1>5 DEF Attempt
  <2>2. \A x \in reqs' : x.f = f => x \in reqs
      BY <1>5 DEF Attempt, Send
  <2>3. peer'[f] = peer[f] /\ err'[f] = err[f] /\ UNCHANGED <<srvVars, resps>> /\ OnCourse(f)
      BY <1>3, <1>5
  <2> QED BY <1>5, <2>1, <2>2, <2>3, OtherClientCourse
<1>6. ASSUME Waiting(h), Retry(h) PROVE OnCourse(f)'
  <2>1. CASE attempt[h] < MaxRetries
    <3>1. /\ Attempt(h, SeqOf(h), nonce[h], attempt[h] + 1)
          /\ UNCHANGED <<srvVars, resps, st, peer, nonce, err>> /\ disturbed' = disturbed
        BY <1>6, <2>1 DEF Retry
    <3>2. OnCourse(f)
        BY <1>3, <3>1
    <3>3. CASE h = f
        BY <1>6, <2>1, <3>1, <3>2, <3>3, ResendCourse
    <3>4. CASE h # f
      <4>1. UNCHANGED <<srvVars, resps>> /\ err' = err /\ peer' = peer /\ st'[f] = st[f]
            /\ nonce'[f] = nonce[f] /\ disturbed \subseteq disturbed'
          BY <3>1
      <4> QED BY <1>5, <3>1, <3>4, <4>1
    <3> QED BY <3>3, <3>4
  <2>2. CASE ~(attempt[h] < MaxRetries)
    <3>1. Fail(h, "NO_ANSWER") /\ "NO_ANSWER" \notin Error
        BY <1>6, <2>2 DEF Retry, Error
    <3> QED BY <1>4, <1>6, <3>1
  <2> QED BY <2>1, <2>2
<1>7. ASSUME st[h] = "idle", st' = [st EXCEPT ![h] = "first"], Attempt(h, 0, 0, 0),
             UNCHANGED <<srvVars, resps, peer, nonce, err>>, disturbed \subseteq disturbed',
             h = f /\ Kind[f] = "AUTH" => DevOf[f] \in registry
      PROVE  OnCourse(f)'
  <2>1. OnCourse(f)
      BY <1>3, <1>7
  <2>2. CASE h = f
      BY <1>7, <2>1, <2>2, StartCourse
  <2>3. CASE h # f
    <3>1. UNCHANGED <<srvVars, resps>> /\ err' = err /\ peer' = peer /\ st'[f] = st[f]
          /\ nonce'[f] = nonce[f]
        BY <1>2, <1>7, <2>3
    <3> QED BY <1>5, <1>7, <2>3, <3>1
  <2> QED BY <2>2, <2>3
<1>8. CASE SetupNeedsPin(h)
  <2>1. /\ UNCHANGED <<srvVars, resps>>
        /\ UNCHANGED <<disturbed, reqs, st, attempt, timer, peer, nonce, err>>
      BY <1>8 DEF SetupNeedsPin
  <2>2. OnCourse(f)
      BY <1>3, <2>1
  <2> QED BY <2>1, <2>2, OtherClientCourse
<1>9. CASE StartSetup(h)
  <2>1. /\ st[h] = "idle" /\ Kind[h] = "SETUP" /\ st' = [st EXCEPT ![h] = "first"]
        /\ Attempt(h, 0, 0, 0) /\ UNCHANGED <<srvVars, resps, peer, nonce, err>>
        /\ disturbed \subseteq disturbed'
      BY <1>9 DEF StartSetup, CreateRoot
  <2>2. ~(h = f /\ Kind[f] = "AUTH")
      BY <2>1
  <2> QED BY <1>7, <2>1, <2>2
<1>10. CASE StartAuth(h)
  <2>1. /\ st[h] = "idle" /\ st' = [st EXCEPT ![h] = "first"]
        /\ Attempt(h, 0, 0, 0) /\ UNCHANGED <<srvVars, resps, peer, nonce, err>>
        /\ disturbed' = IF DevOf[h] \in registry THEN disturbed ELSE disturbed \cup {h}
      BY <1>10 DEF StartAuth
  <2>2. disturbed \subseteq disturbed' /\ (h = f => DevOf[f] \in registry)
      BY <1>1, <2>1
  <2> QED BY <1>7, <2>1, <2>2
<1>11. CASE TimedOut(h)
    BY <1>6, <1>11 DEF TimedOut
<1>12. CASE Rebind(h)
  <2>1. /\ UNCHANGED <<srvVars, resps>> /\ disturbed' = disturbed \cup {h}
        /\ UNCHANGED <<reqs, st, attempt, timer, nonce, err>>
        /\ \E p \in Peer : peer' = [peer EXCEPT ![h] = p]
      BY <1>12 DEF Rebind
  <2>2. OnCourse(f) /\ h # f
      BY <1>1, <1>3, <2>1
  <2>3. peer'[f] = peer[f]
      BY <1>2, <2>1, <2>2
  <2> QED BY <2>1, <2>2, <2>3, OtherClientCourse
<1>13. CASE ClientCrash(h)
  <2>1. Waiting(h) /\ Fail(h, "NO_ANSWER") /\ "NO_ANSWER" \notin Error
      BY <1>13 DEF ClientCrash, Error
  <2> QED BY <1>4, <2>1
<1>14. ASSUME NEW r \in resps, Stray(h, r) PROVE OnCourse(f)'
    BY <1>6, <1>14 DEF Stray
<1>15. ASSUME NEW r \in resps, ErrorReply(h, r) PROVE OnCourse(f)'
  <2>1. Waiting(h) /\ r.f = h /\ r.code \in Error /\ Fail(h, r.code)
      BY <1>15 DEF ErrorReply, Matches
  <2>2. OnCourse(f)
      BY <1>3, <2>1 DEF Fail
  <2>3. h # f
      BY <1>15, <2>1, <2>2 DEF OnCourse, Unharmed
  <2> QED BY <1>4, <2>1, <2>3
<1>16. ASSUME NEW r \in resps, Setup2(h, r) \/ Auth2(h, r) PROVE OnCourse(f)'
  <2>1. Waiting(h) /\ r.f = h /\ r.seq = SeqOf(h) /\ r.code \in {"SETUP_2", "AUTH_2"} /\ Proceed(h, r)
      BY <1>16 DEF Setup2, Auth2, Matches
  <2>2. AnswerOK(disk, finished, r.f, r.seq, r.code)
      BY <1>16 DEF SysInv, AnswersInv
  <2>3. r.seq = 0 /\ st[h] = "first"
      BY <2>1, <2>2 DEF AnswerOK, Waiting, SeqOf
  <2>4. /\ st' = [st EXCEPT ![h] = "third"] /\ nonce' = [nonce EXCEPT ![h] = r.nonce]
        /\ Attempt(h, 1, r.nonce, 0)
        /\ UNCHANGED <<srvVars, resps>> /\ peer' = peer /\ err' = err /\ disturbed' = disturbed
      BY <2>1 DEF Proceed
  <2>5. OnCourse(f)
      BY <1>3, <2>4
  <2>6. CASE h = f
      BY <1>16, <2>1, <2>3, <2>5, <2>6, ProceedCourse
  <2>7. CASE h # f
    <3>1. st'[f] = st[f] /\ nonce'[f] = nonce[f] /\ disturbed \subseteq disturbed'
        BY <1>2, <2>4, <2>7
    <3> QED BY <1>5, <2>4, <2>7, <3>1
  <2> QED BY <2>6, <2>7
<1>17. ASSUME NEW r \in resps, Waiting(h), r.f = h, Done(h) PROVE OnCourse(f)'
  <2>1. /\ st' = [st EXCEPT ![h] = "ok"]
        /\ timer' = [timer EXCEPT ![h] = 0] /\ attempt' = [attempt EXCEPT ![h] = 0]
        /\ UNCHANGED <<srvVars, reqs, resps, peer, nonce>> /\ err' = err /\ disturbed' = disturbed
      BY <1>17 DEF Done
  <2>2. OnCourse(f)
      BY <1>3, <2>1
  <2>3. CASE h = f
    <3>1. Seen(f) /\ err'[f] \notin Error /\ "ok" \in {"ok", "failed"}
        BY <1>17, <2>1, <2>2, <2>3 DEF OnCourse, Unseen, Unharmed
    <3> QED BY <1>17, <2>1, <2>2, <2>3, <3>1, EndCourse
  <2>4. CASE h # f
    <3>1. /\ st'[f] = st[f] /\ attempt'[f] = attempt[f] /\ timer'[f] = timer[f]
          /\ peer'[f] = peer[f] /\ nonce'[f] = nonce[f] /\ err'[f] = err[f]
          /\ \A x \in reqs' : x.f = f => x \in reqs
          /\ UNCHANGED <<srvVars, resps>>
        BY <1>2, <2>1, <2>4
    <3> QED BY <2>2, <3>1, OtherClientCourse
  <2> QED BY <2>3, <2>4
<1>18. ASSUME NEW r \in resps, SetupAck(h, r) \/ AuthAck(h, r) PROVE OnCourse(f)'
  <2>1. Waiting(h) /\ r.f = h /\ (Done(h) \/ Fail(h, "CLIENT_STORAGE"))
      BY <1>18 DEF SetupAck, AuthAck, Matches
  <2>2. "CLIENT_STORAGE" \notin Error
      BY DEF Error
  <2> QED BY <1>4, <1>17, <2>1, <2>2
<1> QED BY <1>8, <1>9, <1>10, <1>11, <1>12, <1>13, <1>14, <1>15, <1>16, <1>18 DEF Client

\* --pin-server-pub and stuttering change nothing that a run depends on.
LEMMA QuietCourse ==
    ASSUME CalmInv, UNCHANGED <<srvVars, reqs, resps, disturbed, st, attempt, timer, peer, nonce, err>>,
           NEW f \in Flow, Calm(f)'
    PROVE  OnCourse(f)'
<1>1. /\ UNCHANGED <<srvVars, resps>>
      /\ UNCHANGED <<disturbed, reqs, st, attempt, timer, peer, nonce, err>>
    OBVIOUS
<1>2. OnCourse(f)
    BY <1>1 DEF CalmInv, Calm
<1> QED BY <1>1, <1>2, OtherClientCourse

\* CalmInv is preserved, given the invariant of the whole system.
THEOREM InvariantCalmInv ==
    ASSUME Slack
    PROVE  Spec => []CalmInv
<1>1. SysInit => CalmInv
  <2> SUFFICES ASSUME SysInit, NEW f \in Flow PROVE OnCourse(f)
      BY DEF CalmInv
  <2>1. /\ opened[f] = 0 /\ replay.set = {} /\ st[f] = "idle" /\ err[f] = "none"
        /\ reqs = {} /\ resps = {}
      BY DEF SysInit, Init, DequeNew
  <2>2. \A s \in Seqno : cache[<<f, s>>].code = "NONE"
    <3>1. \A s \in Seqno : <<f, s>> \in Flow \X Seqno
        OBVIOUS
    <3> QED BY <3>1 DEF SysInit, Init, NoEntry
  <2>3. "NONE" \notin Error /\ "none" \notin Error
      BY DEF Error
  <2>4. Unharmed(f)
      BY <2>1, <2>2, <2>3 DEF Unharmed
  <2>5. Unseen(f)
      BY <2>1, <2>2 DEF Unseen
  <2> QED BY <2>4, <2>5 DEF OnCourse
<1>2. SysInv /\ CalmInv /\ [Next]_vars => CalmInv'
  <2> SUFFICES ASSUME SysInv, CalmInv, [Next]_vars, NEW f \in Flow, Calm(f)'
               PROVE  OnCourse(f)'
      BY DEF CalmInv
  <2>1. CASE Server
      BY <2>1, ServerCourse
  <2>2. CASE Tick
      BY <2>2, TickCourse
  <2>3. CASE \E h \in Flow : Client(h)
      BY <2>3, ClientCourse
  <2>4. CASE \E d \in Dev : Pin(d)
      BY <2>4, QuietCourse DEF Pin
  <2>5. CASE UNCHANGED vars
    <3>1. UNCHANGED <<srvVars, reqs, resps, disturbed, st, attempt, timer, peer, nonce, err>>
        BY <2>5 DEF vars, srvVars
    <3> QED BY <3>1, QuietCourse
  <2> QED BY <2>1, <2>2, <2>3, <2>4, <2>5 DEF Next
<1> QED BY <1>1, <1>2, InvariantSysInv, PTL DEF Spec

\* The response cache makes retries safe (wire-spec.md, 9.4), for every number
\* of runs and every timing in which the session TTL covers the sending of a
\* request and the delay of its last copy: a paired and permitted run that
\* met no fault is not refused.
THEOREM RetriesAreSafe ==
    ASSUME Slack
    PROVE  Spec => []NoSpuriousFailure
<1>1. CalmInv => NoSpuriousFailure
    BY DEF CalmInv, Calm, OnCourse, Unharmed, NoSpuriousFailure
<1> QED BY <1>1, InvariantCalmInv, PTL
=============================================================================
