---------------------------- MODULE ReplayDeque -----------------------------
(***************************************************************************)
(* The Rust lane's MemoryReplayCache (rust/crates/proto/src/store/fs.rs):  *)
(* a HashSet for membership and a VecDeque that remembers insertion order. *)
(***************************************************************************)
EXTENDS Naturals, Sequences, FiniteSets

\* MemoryReplayCache::new
DequeNew(cap) == [set |-> {}, order |-> <<>>, cap |-> cap]

\* ReplayCache::contains
DequeContains(d, k) == k \in d.set

\* Mutant: the popped key stays a member of the set.
DequeEvictOrderOnly(d) ==
    IF d.order = <<>> THEN d
    ELSE [set |-> d.set, order |-> Tail(d.order), cap |-> d.cap]

\* The full cache gives up its oldest key: pop_front and set.remove.
DequeEvict(d) ==
    IF d.order = <<>> THEN d
    ELSE [set |-> d.set \ {Head(d.order)}, order |-> Tail(d.order), cap |-> d.cap]

\* Mutant: the deque is only trimmed once it has outgrown the capacity.
DequeInsertLate(d, k) ==
    IF DequeContains(d, k) \/ d.cap = 0 THEN d
    ELSE LET room == IF Cardinality(d.set) > d.cap THEN DequeEvict(d) ELSE d
         IN  [set |-> room.set \cup {k}, order |-> Append(room.order, k), cap |-> d.cap]

\* ReplayCache::insert: the cache after the call.  It returns true exactly
\* when the key was not contained; a zero-capacity cache retains nothing.
DequeInsert(d, k) ==
    IF DequeContains(d, k) \/ d.cap = 0 THEN d
    ELSE LET room == IF Cardinality(d.set) >= d.cap THEN DequeEvict(d) ELSE d
         IN  [set |-> room.set \cup {k}, order |-> Append(room.order, k), cap |-> d.cap]

-----------------------------------------------------------------------------
(* What the proofs say of a deque.                                         *)

\* A set and a sequence of keys from K describe the same keys, once each.
SameKeys(S, o, K) ==
    /\ o \in Seq(K)
    /\ \A i, j \in 1..Len(o) : o[i] = o[j] => i = j
    /\ S = {o[i] : i \in 1..Len(o)}
    /\ IsFiniteSet(S)
    /\ Cardinality(S) = Len(o)

\* What the deque holds when a is the sequence of keys it accepted: the last
\* cap of them, oldest first, in both of its structures.
DequeTracks(d, a, K, cap) ==
    /\ d.cap = cap
    /\ a \in Seq(K)
    /\ SameKeys(d.set, d.order, K)
    /\ Len(d.order) = IF Len(a) < cap THEN Len(a) ELSE cap
    /\ \A i \in 1..Len(d.order) : d.order[i] = a[Len(a) - Len(d.order) + i]

\* The last cap elements of a sequence.
LastOf(a, cap) == {a[i] : i \in {j \in 1..Len(a) : j + cap > Len(a)}}
=============================================================================
