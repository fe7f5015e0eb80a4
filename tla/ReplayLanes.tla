---------------------------- MODULE ReplayLanes -----------------------------
(***************************************************************************)
(* The two replay caches of the repository fed with the same keys.  Each   *)
(* lane keeps its data structure, its last insertion with the result and,  *)
(* as a history variable, the keys it has accepted since the last restart. *)
(***************************************************************************)
EXTENDS ReplayRing, ReplayDeque

CONSTANT MaxAccepted  \* bound on the keys accepted between two restarts

ASSUME MaxAcceptedAssumption == MaxAccepted \in Nat

VARIABLES
    ring,       \* C: auth_replay_cache_t
    cAccepted,  \* history: keys the C cache accepted
    cVerdict,   \* C: key and result of the last auth_replay_cache_insert
    deque,      \* Rust: MemoryReplayCache
    rAccepted,  \* history: keys the Rust cache accepted
    rVerdict    \* Rust: key and result of the last ReplayCache::insert

cVars == <<ring, cAccepted, cVerdict>>
rVars == <<deque, rAccepted, rVerdict>>
vars == <<ring, cAccepted, cVerdict, deque, rAccepted, rVerdict>>

NoVerdict == [key |-> NoKey, fresh |-> FALSE]
Verdict == [key : Key \cup {NoKey}, fresh : BOOLEAN]

Init ==
    /\ ring = RingInit /\ cAccepted = <<>> /\ cVerdict = NoVerdict
    /\ deque = DequeNew(Cap) /\ rAccepted = <<>> /\ rVerdict = NoVerdict

\* One auth_replay_cache_insert.
CSubmit(k) ==
    /\ cVerdict' = [key |-> k, fresh |-> ~RingContains(ring, k)]
    /\ cAccepted' = IF RingContains(ring, k) THEN cAccepted ELSE Append(cAccepted, k)
    /\ ring' = RingInsert(ring, k)

\* One ReplayCache::insert.
RSubmit(k) ==
    /\ rVerdict' = [key |-> k, fresh |-> ~DequeContains(deque, k)]
    /\ rAccepted' = IF DequeContains(deque, k) THEN rAccepted ELSE Append(rAccepted, k)
    /\ deque' = DequeInsert(deque, k)

Submit(k) ==
    /\ Len(cAccepted) < MaxAccepted
    /\ CSubmit(k)
    /\ RSubmit(k)

\* Both servers build an empty cache when they start.
Restart ==
    /\ ring' = RingInit /\ cAccepted' = <<>> /\ UNCHANGED cVerdict
    /\ deque' = DequeNew(Cap) /\ rAccepted' = <<>> /\ UNCHANGED rVerdict

Next == Restart \/ \E k \in Key : Submit(k)

Spec == Init /\ [][Next]_vars

-----------------------------------------------------------------------------
\* The inductive invariant: each lane's structure is a function of the keys
\* it accepted, and the lanes accepted the same keys.
IInv ==
    /\ RingTracks(ring, cAccepted) /\ cVerdict \in Verdict
    /\ DequeTracks(deque, rAccepted, Key, Cap) /\ rVerdict \in Verdict
    /\ cAccepted = rAccepted
    /\ cVerdict = rVerdict

CWindow == INSTANCE ReplayWindow WITH accepted <- cAccepted, verdict <- cVerdict
RWindow == INSTANCE ReplayWindow WITH accepted <- rAccepted, verdict <- rVerdict

\* Shape of both lanes' state: the C array and its two indices stay in range,
\* the Rust deque never outgrows the capacity (fs.rs:399).
TypeOK ==
    /\ ring \in RingType
    /\ cAccepted \in Seq(Key) /\ cVerdict \in Verdict
    /\ deque.set \subseteq Key /\ deque.order \in Seq(Key) /\ Len(deque.order) <= Cap
    /\ rAccepted \in Seq(Key) /\ rVerdict \in Verdict

\* auth_replay_cache_insert refuses exactly the Cap keys accepted last, through
\* any number of overwrites and wrap-arounds of next_evict: the ring implements
\* the window.
CImplementsWindow == CWindow!Spec

\* MemoryReplayCache::insert implements the same window.
RImplementsWindow == RWindow!Spec

\* The comment at fs.rs:400: at an equal capacity the two lanes take the same
\* decision on every key, so they hold the same keys at every moment, and the
\* set and the deque of the Rust cache describe the same keys, once each.
LanesAgree ==
    /\ cVerdict = rVerdict
    /\ RingRetained(ring) = deque.set
    /\ deque.set = {deque.order[i] : i \in 1..Len(deque.order)}
    /\ Cardinality(deque.set) = Len(deque.order)
    /\ Cardinality(deque.set) = ring.n
=============================================================================
