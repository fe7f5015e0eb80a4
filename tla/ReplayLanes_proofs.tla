------------------------- MODULE ReplayLanes_proofs -------------------------
(***************************************************************************)
(* For every capacity and every set of keys: the C ring and the Rust deque *)
(* both implement the replay window, and take the same decisions.          *)
(***************************************************************************)
EXTENDS ReplayLanes, ReplayCaches_proofs

\* ReplayCache::contains is membership in the last Cap accepted keys.
LEMMA DequeContainsLastKeys ==
    ASSUME NEW d, NEW a, NEW k \in Key, DequeTracks(d, a, Key, Cap)
    PROVE  DequeContains(d, k) <=> k \in LastKeys(a)
<1>1. DequeContains(d, k) <=> k \in LastOf(a, Cap)
    BY CapAssumption, DequeContainsLast
<1> QED BY <1>1 DEF LastKeys, LastOf

\* Both servers start with the lanes in step.
LEMMA InitIInv == Init => IInv
BY RingInitTracks, DequeNewTracks, CapAssumption DEF Init, IInv, NoVerdict, Verdict

\* The two verdicts on a key coincide, and both structures move to the same
\* new sequence of accepted keys, or neither moves.
LEMMA SubmitIInv ==
    ASSUME IInv, NEW k \in Key, Submit(k)
    PROVE  /\ IInv'
           /\ RingContains(ring, k) <=> k \in LastKeys(cAccepted)
           /\ DequeContains(deque, k) <=> k \in LastKeys(rAccepted)
<1>1. RingTracks(ring, cAccepted) /\ DequeTracks(deque, rAccepted, Key, Cap) /\ cAccepted = rAccepted
    BY DEF IInv
<1>2. /\ RingContains(ring, k) <=> k \in LastKeys(cAccepted)
      /\ DequeContains(deque, k) <=> k \in LastKeys(rAccepted)
    BY <1>1, RingContainsLastKeys, DequeContainsLastKeys
<1>3. CASE RingContains(ring, k)
  <2>1. DequeContains(deque, k)
      BY <1>1, <1>2, <1>3
  <2>2. /\ ring' = ring /\ cAccepted' = cAccepted /\ cVerdict' = [key |-> k, fresh |-> FALSE]
        /\ deque' = deque /\ rAccepted' = rAccepted /\ rVerdict' = [key |-> k, fresh |-> FALSE]
      BY <1>3, <2>1 DEF Submit, CSubmit, RSubmit, RingInsert, DequeInsert
  <2> QED BY <1>1, <1>2, <2>2 DEF IInv, Verdict
<1>4. CASE ~RingContains(ring, k)
  <2>1. ~DequeContains(deque, k)
      BY <1>1, <1>2, <1>4
  <2>2. /\ ring' = RingInsert(ring, k) /\ cAccepted' = Append(cAccepted, k) /\ cVerdict' = [key |-> k, fresh |-> TRUE]
        /\ deque' = DequeInsert(deque, k) /\ rAccepted' = Append(rAccepted, k) /\ rVerdict' = [key |-> k, fresh |-> TRUE]
      BY <1>4, <2>1 DEF Submit, CSubmit, RSubmit
  <2>3. RingTracks(ring', cAccepted')
      BY <1>1, <1>4, <2>2, RingInsertTracks
  <2>4. DequeTracks(deque', rAccepted', Key, Cap)
      BY <1>1, <2>1, <2>2, DequeInsertTracks, CapAssumption
  <2> QED BY <1>1, <1>2, <2>2, <2>3, <2>4 DEF IInv, Verdict
<1> QED BY <1>3, <1>4

\* A restart empties both lanes.
LEMMA RestartIInv ==
    ASSUME IInv, Restart
    PROVE  IInv'
BY RingInitTracks, DequeNewTracks, CapAssumption DEF IInv, Restart

\* The lanes stay in step through every insertion and every restart.
THEOREM InvariantIInv == Spec => []IInv
<1>1. ASSUME IInv, [Next]_vars PROVE IInv'
  <2>1. CASE Restart
      BY <1>1, <2>1, RestartIInv
  <2>2. ASSUME NEW k \in Key, Submit(k) PROVE IInv'
      BY <1>1, <2>2, SubmitIInv
  <2>3. CASE UNCHANGED vars
      BY <1>1, <2>3 DEF IInv, vars
  <2> QED BY <1>1, <2>1, <2>2, <2>3 DEF Next
<1> QED BY <1>1, InitIInv, PTL DEF Spec

\* The array indices of the C cache stay in range and both structures hold
\* keys only.
THEOREM TypeCorrect == Spec => []TypeOK
<1>1. IInv => TypeOK
  <2> SUFFICES ASSUME IInv PROVE TypeOK
      OBVIOUS
  <2>1. deque.order \in Seq(Key) /\ deque.set = {deque.order[i] : i \in 1..Len(deque.order)}
      BY DEF IInv, DequeTracks, SameKeys
  <2>2. deque.set \subseteq Key
      BY <2>1
  <2>3. Len(rAccepted) \in Nat
      BY DEF IInv, DequeTracks
  <2>4. Len(deque.order) <= Cap
      BY <2>3, CapAssumption DEF IInv, DequeTracks
  <2> QED BY <2>1, <2>2, <2>4 DEF IInv, TypeOK, RingTracks, DequeTracks
<1> QED BY <1>1, InvariantIInv, PTL

\* The keys the C ring answers for are the last Cap accepted keys.
LEMMA RingRetainedLastKeys ==
    ASSUME NEW c, NEW a, RingTracks(c, a)
    PROVE  RingRetained(c) = LastKeys(a)
<1>1. c \in RingType /\ a \in Seq(Key) /\ c.n \in 0..Cap
    BY DEF RingTracks, RingType
<1>2. \A k \in Key : k \in RingRetained(c) <=> RingContains(c, k)
    BY DEF RingRetained, RingContains
<1>3. LastKeys(a) \subseteq Key
    BY <1>1 DEF LastKeys
<1>4. RingRetained(c) \subseteq Key
  <2> SUFFICES ASSUME NEW i \in 0..c.n-1 PROVE c.keys[i] \in Key
      BY DEF RingRetained
  <2>1. CASE c.n < Cap
    <3>1. c.keys[i] = a[i+1] /\ Len(a) = c.n
        BY <2>1 DEF RingTracks
    <3>2. i+1 \in 1..Len(a)
        BY <1>1, <3>1
    <3> QED BY <1>1, <3>1, <3>2
  <2>2. CASE c.n = Cap
    <3>1. /\ Len(a) >= Cap /\ c.next_evict \in 0..Cap-1 /\ i \in 0..Cap-1
          /\ c.keys[i] = IF i < c.next_evict THEN a[Len(a) - c.next_evict + i + 1]
                                            ELSE a[Len(a) - Cap - c.next_evict + i + 1]
        BY <2>2 DEF RingTracks, RingType
    <3>2. CASE i < c.next_evict
      <4>1. Len(a) - c.next_evict + i + 1 \in 1..Len(a)
          BY <1>1, <3>1, <3>2, CapAssumption
      <4> QED BY <1>1, <3>1, <3>2, <4>1
    <3>3. CASE ~(i < c.next_evict)
      <4>1. Len(a) - Cap - c.next_evict + i + 1 \in 1..Len(a)
          BY <1>1, <3>1, <3>3, CapAssumption
      <4> QED BY <1>1, <3>1, <3>3, <4>1
    <3> QED BY <3>2, <3>3
  <2> QED BY <1>1, <2>1, <2>2, CapAssumption
<1>5. \A k \in Key : RingContains(c, k) <=> k \in LastKeys(a)
    BY RingContainsLastKeys
<1> QED BY <1>2, <1>3, <1>4, <1>5

\* At an equal capacity, whatever it is, the two lanes refuse the same keys
\* and retain the same keys (the comment at fs.rs:400).
THEOREM LanesAlwaysAgree == Spec => []LanesAgree
<1>1. IInv => LanesAgree
  <2> SUFFICES ASSUME IInv PROVE LanesAgree
      OBVIOUS
  <2>1. /\ RingTracks(ring, cAccepted) /\ DequeTracks(deque, cAccepted, Key, Cap) /\ cVerdict = rVerdict
        /\ SameKeys(deque.set, deque.order, Key)
      BY DEF IInv, DequeTracks
  <2>2. RingRetained(ring) = LastKeys(cAccepted)
      BY <2>1, RingRetainedLastKeys
  <2>3. deque.set = LastKeys(cAccepted)
    <3>1. deque.set \subseteq Key /\ LastKeys(cAccepted) \subseteq Key
        BY <2>1 DEF SameKeys, LastKeys, RingTracks
    <3>2. \A k \in Key : k \in deque.set <=> k \in LastKeys(cAccepted)
        BY <2>1, DequeContainsLastKeys DEF DequeContains
    <3> QED BY <3>1, <3>2
  <2>4. Len(deque.order) = ring.n
    <3>1. Len(deque.order) = IF Len(cAccepted) < Cap THEN Len(cAccepted) ELSE Cap
        BY <2>1 DEF DequeTracks
    <3>2. /\ ring.n \in 0..Cap
          /\ ring.n < Cap => Len(cAccepted) = ring.n
          /\ ring.n = Cap => Len(cAccepted) >= Cap
        BY <2>1 DEF RingTracks, RingType
    <3> QED BY <3>1, <3>2, CapAssumption
  <2> QED BY <2>1, <2>2, <2>3, <2>4 DEF LanesAgree, SameKeys
<1> QED BY <1>1, InvariantIInv, PTL

\* Every step of the C ring is a step of the abstract window, so a replayed
\* key is refused for exactly Cap further acceptances.
THEOREM CRefinesWindow == Spec => CImplementsWindow
<1>1. Init => CWindow!Init
    BY DEF Init, NoVerdict, CWindow!Init
<1>2. ASSUME IInv, [Next]_vars PROVE [CWindow!Next]_(CWindow!vars)
  <2>1. CASE Restart
      BY <2>1 DEF Restart, CWindow!Next, CWindow!Restart
  <2>2. ASSUME NEW k \in Key, Submit(k) PROVE CWindow!Next
    <3>1. RingContains(ring, k) <=> k \in CWindow!Window
        BY <1>2, <2>2, SubmitIInv DEF LastKeys, CWindow!Window
    <3>2. CWindow!Submit(k)
        BY <2>2, <3>1 DEF Submit, CSubmit, CWindow!Submit
    <3> QED BY <3>2 DEF CWindow!Next
  <2>3. CASE UNCHANGED vars
      BY <2>3 DEF vars, CWindow!vars
  <2> QED BY <1>2, <2>1, <2>2, <2>3 DEF Next
<1> QED BY <1>1, <1>2, InvariantIInv, PTL DEF Spec, CImplementsWindow, CWindow!Spec

\* The same for the Rust deque.
THEOREM RRefinesWindow == Spec => RImplementsWindow
<1>1. Init => RWindow!Init
    BY DEF Init, NoVerdict, RWindow!Init
<1>2. ASSUME IInv, [Next]_vars PROVE [RWindow!Next]_(RWindow!vars)
  <2>1. CASE Restart
      BY <2>1 DEF Restart, RWindow!Next, RWindow!Restart
  <2>2. ASSUME NEW k \in Key, Submit(k) PROVE RWindow!Next
    <3>1. DequeContains(deque, k) <=> k \in RWindow!Window
        BY <1>2, <2>2, SubmitIInv DEF LastKeys, RWindow!Window
    <3>2. RWindow!Submit(k)
        BY <2>2, <3>1 DEF Submit, RSubmit, RWindow!Submit
    <3> QED BY <3>2 DEF RWindow!Next
  <2>3. CASE UNCHANGED vars
      BY <2>3 DEF vars, RWindow!vars
  <2> QED BY <1>2, <2>1, <2>2, <2>3 DEF Next
<1> QED BY <1>1, <1>2, InvariantIInv, PTL DEF Spec, RImplementsWindow, RWindow!Spec
=============================================================================
