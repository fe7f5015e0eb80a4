----------------------- MODULE ReplayContinuity_proofs -----------------------
(***************************************************************************)
(* The continuity gate keeps the replay window whole over restarts, for    *)
(* every set of keys, capacity and number of restarts.                     *)
(***************************************************************************)
EXTENDS ReplayContinuity, ReplayCaches_proofs

\* An accepted AUTH input moves cache and history together, and its key is
\* not one of the last Cap accepted (auth_replay_cache_insert).
LEMMA AcceptKeepsWindow ==
    ASSUME ContinuityInv, NEW k \in Key, Submit(k),
           AuthAllowed(continuity), ~RingContains(ring, k)
    PROVE  RingTracks(ring, accepted)' /\ OncePerWindowOverRestarts'
<1>1. /\ RingTracks(ring, accepted) /\ OncePerWindowOverRestarts
      /\ accepted \in Seq(Key)
    BY DEF ContinuityInv, ContinuityTypeOK
<1>2. ring' = RingInsert(ring, k) /\ accepted' = Append(accepted, k)
    BY DEF Submit
<1>3. RingTracks(ring', accepted')
    BY <1>1, <1>2, RingInsertTracks
<1>4. k \notin LastKeys(accepted)
    BY <1>1, RingContainsLastKeys
<1>5. /\ Len(accepted') = Len(accepted) + 1 /\ accepted'[Len(accepted) + 1] = k
      /\ \A i \in 1..Len(accepted) : accepted'[i] = accepted[i]
      /\ Len(accepted) \in Nat
    BY <1>1, <1>2
<1>6. ASSUME NEW i \in 1..Len(accepted'), NEW j \in 1..Len(accepted'),
             i < j, accepted'[i] = accepted'[j]
      PROVE  ~(j - i <= Cap)
  <2>1. CASE j = Len(accepted) + 1
    <3>1. i \in 1..Len(accepted) /\ accepted[i] = k
        BY <1>5, <1>6, <2>1
    <3>2. ~(i + Cap > Len(accepted))
        BY <1>4, <3>1 DEF LastKeys
    <3>3. i \in Nat /\ Cap \in Nat /\ Len(accepted) \in Nat
        BY <1>5, CapAssumption
    <3> QED BY <2>1, <3>2, <3>3
  <2>2. CASE j # Len(accepted) + 1
    <3>1. i \in 1..Len(accepted) /\ j \in 1..Len(accepted)
        BY <1>5, <1>6, <2>2
    <3> QED BY <1>1, <1>5, <1>6, <3>1 DEF OncePerWindowOverRestarts
  <2> QED BY <2>1, <2>2
<1> QED BY <1>3, <1>6 DEF OncePerWindowOverRestarts

\* A history that is not extended keeps its property.
LEMMA SameHistory ==
    ASSUME OncePerWindowOverRestarts, accepted' = accepted
    PROVE  OncePerWindowOverRestarts'
BY DEF OncePerWindowOverRestarts

\* The gate opens only from RESTORING, on a trusted window, and every other
\* event leaves an open gate open or closes it (auth_replay_continuity_apply).
LEMMA ApplyFacts ==
    ASSUME NEW s \in ContinuityState, NEW e \in Event
    PROVE  /\ Apply(s, e) \in ContinuityState
           /\ s = "CONTINUITY_BROKEN" => Apply(s, e) = "CONTINUITY_BROKEN"
           /\ AuthAllowed(Apply(s, e)) =>
                 \/ s = "TRUSTED" /\ e # "RESTART"
                 \/ s = "RESTORING" /\ e = "RESTORED_TRUSTED_WINDOW"
BY DEF Apply, AuthAllowed, ContinuityState, Event

\* What the owner reports of the window it finds is an event of the gate, and
\* it reports a trusted window only of a current one.
LEMMA FoundFacts ==
    ASSUME ContinuityInv
    PROVE  Found \in Event /\ (Found = "RESTORED_TRUSTED_WINDOW" => current)
BY DEF Found, Event, ContinuityInv, ContinuityTypeOK

\* An AUTH input preserves the invariant.
LEMMA SubmitStep ==
    ASSUME ContinuityInv, NEW k \in Key, Submit(k)
    PROVE  ContinuityInv'
<1> USE DEF ContinuityInv
<1>1. CASE AuthAllowed(continuity) /\ ~RingContains(ring, k)
  <2>1. /\ continuity' = continuity /\ current' = FALSE
        /\ UNCHANGED <<saved, intact, restarts>>
      BY <1>1 DEF Submit
  <2>2. RingTracks(ring', accepted') /\ OncePerWindowOverRestarts'
      BY <1>1, AcceptKeepsWindow
  <2>3. ContinuityTypeOK'
      BY <2>1, <2>2 DEF ContinuityTypeOK, RingTracks
  <2> QED BY <2>1, <2>2, <2>3
<1>2. CASE ~(AuthAllowed(continuity) /\ ~RingContains(ring, k))
  <2>1. /\ continuity' = Apply(continuity, "FAILED_AUTH")
        /\ UNCHANGED <<ring, accepted, current, saved, intact, restarts>>
      BY <1>2 DEF Submit
  <2>2. continuity \in ContinuityState /\ "FAILED_AUTH" \in Event
      BY DEF ContinuityTypeOK, Event
  <2>3. /\ continuity' \in ContinuityState
        /\ AuthAllowed(continuity') => AuthAllowed(continuity)
      BY <2>1, <2>2, ApplyFacts DEF AuthAllowed
  <2>4. ContinuityTypeOK'
      BY <2>1, <2>3 DEF ContinuityTypeOK
  <2>5. OncePerWindowOverRestarts'
      BY <2>1, SameHistory
  <2> QED BY <2>1, <2>3, <2>4, <2>5
<1> QED BY <1>1, <1>2

\* Saving copies a cache that answers for the whole history.
LEMMA SaveStep ==
    ASSUME ContinuityInv, Save
    PROVE  ContinuityInv'
<1>1. ContinuityTypeOK'
    BY DEF Save, ContinuityInv, ContinuityTypeOK
<1>2. OncePerWindowOverRestarts'
    BY SameHistory DEF Save, ContinuityInv
<1> QED BY <1>1, <1>2 DEF Save, ContinuityInv

\* A restart empties the cache and closes the gate.
LEMMA RestartStep ==
    ASSUME ContinuityInv, NEW d \in {"none", "missing", "corrupt", "stale"}, Restart(d)
    PROVE  ContinuityInv'
<1>1. continuity \in ContinuityState /\ "RESTART" \in Event
    BY DEF ContinuityInv, ContinuityTypeOK, Event
<1>2. continuity' \in ContinuityState /\ ~AuthAllowed(continuity')
    BY <1>1, ApplyFacts DEF Restart
<1>3. RingInit \in RingType
    BY RingInitTracks DEF RingTracks
<1>4. ContinuityTypeOK'
    BY <1>2, <1>3 DEF Restart, ContinuityInv, ContinuityTypeOK
<1>5. OncePerWindowOverRestarts'
    BY SameHistory DEF Restart, ContinuityInv
<1> QED BY <1>2, <1>4, <1>5 DEF Restart, ContinuityInv

\* A window that opens the gate answers for the whole history.
LEMMA RestoreStep ==
    ASSUME ContinuityInv, Restore
    PROVE  ContinuityInv'
<1>1. continuity = "RESTORING" /\ continuity \in ContinuityState
    BY DEF Restore, ContinuityState
<1>2. /\ continuity' \in ContinuityState
      /\ AuthAllowed(continuity') => Found = "RESTORED_TRUSTED_WINDOW"
    BY <1>1, FoundFacts, ApplyFacts DEF Restore
<1>3. AuthAllowed(continuity') => RingTracks(saved, accepted)
    BY <1>2, FoundFacts DEF ContinuityInv
<1>4. ContinuityTypeOK'
    BY <1>2 DEF Restore, ContinuityInv, ContinuityTypeOK
<1>5. OncePerWindowOverRestarts'
    BY SameHistory DEF Restore, ContinuityInv
<1> QED BY <1>3, <1>4, <1>5 DEF Restore, ContinuityInv

\* The gate grants a reset or a new outer session only when it is broken, and
\* stays closed.
LEMMA OwnerEventStep ==
    ASSUME ContinuityInv, NEW e \in {"EMPTY_CACHE_RESET", "FRESH_OUTER_SESSION"},
           OwnerEvent(e)
    PROVE  ContinuityInv'
<1>1. continuity \in ContinuityState
    BY DEF ContinuityInv, ContinuityTypeOK
<1>2. continuity = "CONTINUITY_BROKEN" /\ continuity' = "CONTINUITY_BROKEN"
    BY <1>1 DEF OwnerEvent, ApplyOK, Apply, ContinuityState
<1>3. RingInit \in RingType
    BY RingInitTracks DEF RingTracks
<1>4. ContinuityTypeOK'
    BY <1>1, <1>2, <1>3 DEF OwnerEvent, ContinuityInv, ContinuityTypeOK
<1>5. OncePerWindowOverRestarts'
    BY SameHistory DEF OwnerEvent, ContinuityInv
<1> QED BY <1>2, <1>4, <1>5 DEF OwnerEvent, ContinuityInv, AuthAllowed

\* The inductive invariant of the gate, its cache and the stored window.
THEOREM ContinuityInvariant == Spec => []ContinuityInv
<1>1. Init => ContinuityInv
  <2> SUFFICES ASSUME Init PROVE ContinuityInv
      OBVIOUS
  <2>1. RingTracks(ring, accepted) /\ RingTracks(saved, accepted)
      BY RingInitTracks DEF Init
  <2>2. ContinuityTypeOK
      BY <2>1 DEF Init, ContinuityInit, ContinuityTypeOK, ContinuityState, RingTracks
  <2>3. OncePerWindowOverRestarts
      BY DEF Init, OncePerWindowOverRestarts
  <2> QED BY <2>1, <2>2, <2>3 DEF ContinuityInv
<1>2. ContinuityInv /\ [Next]_vars => ContinuityInv'
  <2> SUFFICES ASSUME ContinuityInv, [Next]_vars PROVE ContinuityInv'
      OBVIOUS
  <2>1. CASE UNCHANGED vars
      BY <2>1 DEF vars, ContinuityInv, ContinuityTypeOK, OncePerWindowOverRestarts
  <2>2. CASE Next
      BY <2>2, SubmitStep, SaveStep, RestartStep, RestoreStep, OwnerEventStep DEF Next
  <2> QED BY <2>1, <2>2
<1> QED BY <1>1, <1>2, PTL DEF Spec

\* The window guarantee over any number of restarts, whatever happened to
\* storage (auth_replay_continuity_apply in front of the replay cache).
THEOREM WindowSurvivesRestarts == Spec => []OncePerWindowOverRestarts
<1>1. ContinuityInv => OncePerWindowOverRestarts
    BY DEF ContinuityInv
<1> QED BY <1>1, ContinuityInvariant, PTL

\* A broken continuity is never repaired: no step of the owner or the process
\* opens the gate or accepts an input after it.
THEOREM BrokenStaysBroken == Spec => BrokenIsFinal
<1>1. ASSUME ContinuityInv, [Next]_vars
      PROVE  [continuity = "CONTINUITY_BROKEN" =>
                continuity' = "CONTINUITY_BROKEN" /\ accepted' = accepted]_vars
  <2> SUFFICES ASSUME Next, continuity = "CONTINUITY_BROKEN"
               PROVE  continuity' = "CONTINUITY_BROKEN" /\ accepted' = accepted
      BY <1>1
  <2>1. continuity \in ContinuityState /\ ~AuthAllowed(continuity)
      BY DEF ContinuityState, AuthAllowed
  <2>2. \A e \in Event : Apply(continuity, e) = "CONTINUITY_BROKEN"
      BY <2>1, ApplyFacts
  <2>3. ASSUME NEW k \in Key, Submit(k)
        PROVE  continuity' = "CONTINUITY_BROKEN" /\ accepted' = accepted
      BY <2>1, <2>2, <2>3 DEF Submit, Event
  <2>4. ~Save /\ ~Restore
      BY <2>1 DEF Save, Restore
  <2>5. ASSUME NEW d, Restart(d)
        PROVE  continuity' = "CONTINUITY_BROKEN" /\ accepted' = accepted
      BY <2>2, <2>5 DEF Restart, Event
  <2>6. ASSUME NEW e \in {"EMPTY_CACHE_RESET", "FRESH_OUTER_SESSION"}, OwnerEvent(e)
        PROVE  continuity' = "CONTINUITY_BROKEN" /\ accepted' = accepted
      BY <2>2, <2>6 DEF OwnerEvent, Event
  <2> QED BY <2>3, <2>4, <2>5, <2>6 DEF Next
<1> QED BY <1>1, ContinuityInvariant, PTL DEF Spec, BrokenIsFinal
=============================================================================
