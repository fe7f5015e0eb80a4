------------------------ MODULE ReplayCaches_proofs -------------------------
(***************************************************************************)
(* Facts about the two replay caches, for every capacity and key set: the  *)
(* C ring and the Rust deque each answer for exactly the keys they         *)
(* accepted last.                                                          *)
(***************************************************************************)
EXTENDS ReplayRing, ReplayDeque, FiniteSetTheorems, TLAPS

-----------------------------------------------------------------------------
(* The C ring.                                                             *)

\* The cursor arithmetic of auth_replay_cache_insert, without the modulo.
LEMMA NextEvictStep ==
    ASSUME NEW x \in 0..Cap-1
    PROVE  (x + 1) % Cap = IF x + 1 = Cap THEN 0 ELSE x + 1
BY CapAssumption

\* When the cursor moves from x and the history grows to length + 1, every slot
\* but x keeps its place in the history.
LEMMA PlacesKept ==
    ASSUME NEW x \in 0..Cap-1, NEW i \in 0..Cap-1, i # x, NEW length \in Nat, length >= Cap
    PROVE  LET e == IF x + 1 = Cap THEN 0 ELSE x + 1
               old == IF i < x THEN length - x + i + 1 ELSE length - Cap - x + i + 1
               new == IF i < e THEN (length+1) - e + i + 1 ELSE (length+1) - Cap - e + i + 1
           IN  new = old /\ old \in 1..length
BY CapAssumption

\* A cache that auth_replay_cache_init has cleared has accepted nothing.
LEMMA RingInitTracks == RingTracks(RingInit, <<>>)
BY CapAssumption DEF RingTracks, RingInit, RingType

\* auth_replay_cache_contains, over a ring that tracks a, is membership in
\* the last Cap keys of a.
THEOREM RingContainsLastKeys ==
    ASSUME NEW c, NEW a, NEW k \in Key, RingTracks(c, a)
    PROVE  RingContains(c, k) <=> k \in LastKeys(a)
<1> USE CapAssumption
<1> DEFINE L == Len(a)
<1>1. /\ c.n \in 0..Cap /\ c.next_evict \in 0..Cap-1 /\ L \in Nat
    BY DEF RingTracks, RingType
<1>2. CASE c.n < Cap
  <2>1. L = c.n /\ \A i \in 0..c.n-1 : c.keys[i] = a[i+1]
      BY <1>2 DEF RingTracks
  <2>2. ASSUME NEW i \in 0..c.n-1, c.keys[i] = k
        PROVE  k \in LastKeys(a)
    <3>1. i+1 \in {j \in 1..L : j + Cap > L}
        BY <1>1, <1>2, <2>1
    <3> QED BY <2>1, <2>2, <3>1 DEF LastKeys
  <2>3. ASSUME NEW j \in 1..L, k = a[j]
        PROVE  RingContains(c, k)
    <3>1. j-1 \in 0..c.n-1 /\ (j-1)+1 = j
        BY <1>1, <2>1
    <3>2. c.keys[j-1] = k
        BY <2>1, <2>3, <3>1
    <3> QED BY <3>1, <3>2 DEF RingContains
  <2> QED BY <2>2, <2>3 DEF RingContains, LastKeys
<1>3. CASE c.n = Cap
  <2> DEFINE At(i) == IF i < c.next_evict THEN L - c.next_evict + i + 1
                                          ELSE L - Cap - c.next_evict + i + 1
  <2>1. L >= Cap /\ \A i \in 0..Cap-1 : c.keys[i] = a[At(i)]
      BY <1>3 DEF RingTracks
  <2>2. ASSUME NEW i \in 0..Cap-1, c.keys[i] = k
        PROVE  k \in LastKeys(a)
    <3>1. At(i) \in {j \in 1..L : j + Cap > L}
      <4>1. CASE i < c.next_evict
          BY <1>1, <2>1, <4>1
      <4>2. CASE ~(i < c.next_evict)
          BY <1>1, <2>1, <4>2
      <4> QED BY <4>1, <4>2
    <3> HIDE DEF At
    <3> QED BY <2>1, <2>2, <3>1 DEF LastKeys
  <2>3. ASSUME NEW j \in 1..L, j + Cap > L, k = a[j]
        PROVE  \E i \in 0..Cap-1 : c.keys[i] = k
    <3> DEFINE i0 == IF j > L - c.next_evict THEN j - 1 + c.next_evict - L
                                             ELSE j - 1 + c.next_evict + Cap - L
    <3>1. i0 \in 0..Cap-1 /\ At(i0) = j
      <4>1. CASE j > L - c.next_evict
        <5>1. i0 = j - 1 + c.next_evict - L
            BY <4>1
        <5>2. i0 \in 0..Cap-1 /\ i0 < c.next_evict
          <6> HIDE DEF i0
          <6> QED BY <1>1, <2>3, <4>1, <5>1
        <5> QED BY <1>1, <2>3, <5>1, <5>2
      <4>2. CASE ~(j > L - c.next_evict)
        <5>1. i0 = j - 1 + c.next_evict + Cap - L
            BY <4>2
        <5>2. i0 \in 0..Cap-1 /\ ~(i0 < c.next_evict)
          <6> HIDE DEF i0
          <6> QED BY <1>1, <2>3, <4>2, <5>1
        <5> QED BY <1>1, <2>3, <5>1, <5>2
      <4> QED BY <4>1, <4>2
    <3> HIDE DEF i0, At
    <3> QED BY <2>1, <2>3, <3>1
  <2> QED BY <1>3, <2>2, <2>3 DEF RingContains, LastKeys
<1> QED BY <1>1, <1>2, <1>3

\* auth_replay_cache_insert of a key that is not contained keeps the ring in
\* step with the accepted keys: while it fills, when it becomes full, and
\* when it overwrites the oldest element.
THEOREM RingInsertTracks ==
    ASSUME NEW c, NEW a, NEW k \in Key, RingTracks(c, a), ~RingContains(c, k)
    PROVE  RingTracks(RingInsert(c, k), Append(a, k))
<1> USE CapAssumption
<1> DEFINE L == Len(a)
           b == Append(a, k)
           d == RingInsert(c, k)
<1>1. /\ c \in RingType /\ a \in Seq(Key) /\ L \in Nat
      /\ c.n \in 0..Cap /\ c.next_evict \in 0..Cap-1
      /\ c.keys \in [0..Cap-1 -> Key \cup {NoKey}]
    BY DEF RingTracks, RingType
<1>2. /\ b \in Seq(Key) /\ Len(b) = L + 1 /\ b[L+1] = k
      /\ \A i \in 1..L : b[i] = a[i]
    BY <1>1
<1>3. CASE c.n < Cap
  <2>1. /\ L = c.n /\ c.next_evict = 0
        /\ \A i \in 0..c.n-1 : c.keys[i] = a[i+1]
      BY <1>3 DEF RingTracks
  <2>2. d = [keys |-> [c.keys EXCEPT ![c.n] = k], n |-> c.n + 1,
             next_evict |-> c.next_evict]
      BY <1>3 DEF RingInsert
  <2>3. /\ d \in RingType /\ d.n = c.n + 1 /\ d.next_evict = 0
        /\ d.keys = [c.keys EXCEPT ![c.n] = k]
      BY <1>1, <1>3, <2>1, <2>2 DEF RingType
  <2>4. ASSUME NEW i \in 0..c.n
        PROVE  d.keys[i] = b[i+1]
    <3> HIDE DEF b, d
    <3>1. CASE i = c.n
        BY <1>1, <1>2, <1>3, <2>1, <2>3, <3>1
    <3>2. CASE i # c.n
      <4>1. i \in 0..c.n-1 /\ i+1 \in 1..L
          BY <1>1, <2>1, <3>2
      <4> QED BY <1>1, <1>2, <1>3, <2>1, <2>3, <3>2, <4>1
    <3> QED BY <3>1, <3>2
  <2> HIDE DEF b, d
  <2>5. CASE c.n + 1 < Cap
    <3>1. \A i \in 0..d.n-1 : d.keys[i] = b[i+1]
        BY <1>1, <2>3, <2>4
    <3>2. RingTracks(d, b)
        BY <1>1, <1>2, <2>1, <2>3, <2>5, <3>1 DEF RingTracks
    <3> QED BY <3>2 DEF b, d
  <2>6. CASE c.n + 1 = Cap
    <3>1. /\ Len(b) = Cap /\ d.n = Cap
          /\ \A i \in 0..Cap-1 : /\ ~(i < d.next_evict)
                                /\ Len(b) - Cap - d.next_evict + i + 1 = i + 1
                                /\ d.keys[i] = b[i+1]
        BY <1>1, <1>2, <2>1, <2>3, <2>4, <2>6
    <3>2. RingTracks(d, b)
        BY <1>2, <2>3, <3>1 DEF RingTracks
    <3> QED BY <3>2 DEF b, d
  <2> QED BY <1>1, <1>3, <2>5, <2>6 DEF b, d
<1>4. CASE c.n = Cap
  <2>1. L >= Cap
      BY <1>4 DEF RingTracks
  <2>2. \A i \in 0..Cap-1 :
          c.keys[i] = IF i < c.next_evict THEN a[L - c.next_evict + i + 1]
                                          ELSE a[L - Cap - c.next_evict + i + 1]
      BY <1>4 DEF RingTracks
  <2>3. d = [keys |-> [c.keys EXCEPT ![c.next_evict] = k], n |-> c.n,
             next_evict |-> (c.next_evict + 1) % Cap]
      BY <1>1, <1>4 DEF RingInsert
  <2> DEFINE e == IF c.next_evict + 1 = Cap THEN 0 ELSE c.next_evict + 1
  <2>4. (c.next_evict + 1) % Cap = e /\ e \in 0..Cap-1
      BY <1>1, NextEvictStep
  <2>5. /\ d \in RingType /\ d.n = Cap /\ d.next_evict = e
        /\ d.keys = [c.keys EXCEPT ![c.next_evict] = k]
      BY <1>1, <1>4, <2>3, <2>4 DEF RingType
  <2>6. ASSUME NEW i \in 0..Cap-1
        PROVE  d.keys[i] = IF i < e THEN b[(L+1) - e + i + 1]
                                    ELSE b[(L+1) - Cap - e + i + 1]
    <3> DEFINE old == IF i < c.next_evict THEN L - c.next_evict + i + 1
                                          ELSE L - Cap - c.next_evict + i + 1
               new == IF i < e THEN (L+1) - e + i + 1
                               ELSE (L+1) - Cap - e + i + 1
    <3>1. CASE i = c.next_evict
      <4>1. new = L + 1
        <5>1. CASE i + 1 = Cap
            BY <1>1, <2>1, <3>1, <5>1
        <5>2. CASE i + 1 # Cap
            BY <1>1, <2>1, <3>1, <5>2
        <5> QED BY <5>1, <5>2
      <4>2. d.keys[i] = k
          BY <1>1, <2>5, <3>1
      <4> QED BY <1>2, <4>1, <4>2
    <3>2. CASE i # c.next_evict
      <4>1. new = old /\ old \in 1..L
        <5>1. c.next_evict \in 0..Cap-1 /\ L \in Nat
            BY <1>1 DEF RingType
        <5> QED BY <5>1, <2>1, <3>2, PlacesKept
      <4>2. d.keys[i] = c.keys[i] /\ c.keys[i] = a[old]
          BY <1>1, <2>2, <2>5, <3>2
      <4>3. d.keys[i] = b[new]
        <5> HIDE DEF b, d, old, new
        <5> QED BY <1>2, <4>1, <4>2
      <4> QED BY <4>3
    <3> QED BY <3>1, <3>2
  <2>7. \A i \in 0..Cap-1 :
          d.keys[i] = IF i < d.next_evict
                      THEN b[Len(b) - d.next_evict + i + 1]
                      ELSE b[Len(b) - Cap - d.next_evict + i + 1]
    <3> HIDE DEF b, d, e
    <3> QED BY <1>2, <2>5, <2>6
  <2>8. Len(b) >= Cap
      BY <1>1, <1>2, <2>1
  <2> HIDE DEF b, d, e
  <2>9. RingTracks(d, b)
      BY <1>2, <2>5, <2>7, <2>8 DEF RingTracks
  <2> QED BY <2>9 DEF b, d
<1> QED BY <1>1, <1>3, <1>4

-----------------------------------------------------------------------------
(* The Rust deque.                                                         *)

\* push_back of a new key, with the insertion into the set.
LEMMA PushSameKeys ==
    ASSUME NEW K, NEW S, NEW o, NEW k \in K, SameKeys(S, o, K), k \notin S
    PROVE  /\ SameKeys(S \cup {k}, Append(o, k), K)
           /\ Len(Append(o, k)) = Len(o) + 1
           /\ \A i \in 1..Len(o) : Append(o, k)[i] = o[i]
           /\ Append(o, k)[Len(o) + 1] = k
<1> DEFINE p == Append(o, k)
<1>1. /\ o \in Seq(K) /\ Len(o) \in Nat
      /\ IsFiniteSet(S) /\ Cardinality(S) = Len(o)
      /\ S = {o[i] : i \in 1..Len(o)}
      /\ \A i, j \in 1..Len(o) : o[i] = o[j] => i = j
    BY DEF SameKeys
<1>2. /\ p \in Seq(K) /\ Len(p) = Len(o) + 1 /\ p[Len(o) + 1] = k
      /\ \A i \in 1..Len(o) : p[i] = o[i]
    BY <1>1
<1>3. IsFiniteSet(S \cup {k}) /\ Cardinality(S \cup {k}) = Len(o) + 1
    BY <1>1, FS_AddElement
<1> HIDE DEF p
<1>4. ASSUME NEW i \in 1..Len(p), NEW j \in 1..Len(p), p[i] = p[j]
      PROVE  i = j
  <2>1. \A m \in 1..Len(o) : o[m] # k
      BY <1>1
  <2> QED BY <1>1, <1>2, <1>4, <2>1
<1>5. S \cup {k} = {p[i] : i \in 1..Len(p)}
  <2>1. ASSUME NEW x \in S PROVE x \in {p[i] : i \in 1..Len(p)}
      BY <1>1, <1>2
  <2>2. k \in {p[i] : i \in 1..Len(p)}
      BY <1>1, <1>2
  <2>3. ASSUME NEW i \in 1..Len(p) PROVE p[i] \in S \cup {k}
      BY <1>1, <1>2
  <2> QED BY <2>1, <2>2, <2>3
<1>6. SameKeys(S \cup {k}, p, K)
    BY <1>2, <1>3, <1>4, <1>5 DEF SameKeys
<1> QED BY <1>2, <1>6 DEF p

\* pop_front of the oldest key, with its removal from the set.
LEMMA PopSameKeys ==
    ASSUME NEW K, NEW S, NEW o, SameKeys(S, o, K), Len(o) > 0
    PROVE  /\ SameKeys(S \ {Head(o)}, Tail(o), K)
           /\ Len(Tail(o)) = Len(o) - 1
           /\ \A i \in 1..Len(o)-1 : Tail(o)[i] = o[i+1]
<1> DEFINE p == Tail(o)
<1>1. /\ o \in Seq(K) /\ Len(o) \in Nat
      /\ IsFiniteSet(S) /\ Cardinality(S) = Len(o)
      /\ S = {o[i] : i \in 1..Len(o)}
      /\ \A i, j \in 1..Len(o) : o[i] = o[j] => i = j
    BY DEF SameKeys
<1>2. o # <<>> /\ Head(o) = o[1]
    BY <1>1
<1>3. /\ p \in Seq(K) /\ Len(p) = Len(o) - 1
      /\ \A i \in 1..Len(o)-1 : p[i] = o[i+1]
    BY <1>1, <1>2
<1>4. Head(o) \in S
    BY <1>1, <1>2
<1>5. IsFiniteSet(S \ {Head(o)}) /\ Cardinality(S \ {Head(o)}) = Len(o) - 1
    BY <1>1, <1>4, FS_RemoveElement
<1> HIDE DEF p
<1>6. ASSUME NEW i \in 1..Len(p), NEW j \in 1..Len(p), p[i] = p[j]
      PROVE  i = j
    BY <1>1, <1>3, <1>6
<1>7. S \ {Head(o)} = {p[i] : i \in 1..Len(p)}
  <2>1. ASSUME NEW x \in S \ {Head(o)} PROVE x \in {p[i] : i \in 1..Len(p)}
    <3>1. PICK m \in 1..Len(o) : x = o[m]
        BY <1>1
    <3>2. m # 1
        BY <1>2, <3>1
    <3>3. m-1 \in 1..Len(p) /\ p[m-1] = o[m]
        BY <1>1, <1>3, <3>2
    <3> QED BY <3>1, <3>3
  <2>2. ASSUME NEW i \in 1..Len(p) PROVE p[i] \in S \ {Head(o)}
    <3>1. i+1 \in 1..Len(o) /\ i+1 # 1 /\ 1 \in 1..Len(o) /\ p[i] = o[i+1]
        BY <1>1, <1>3
    <3> QED BY <1>1, <1>2, <3>1
  <2> QED BY <2>1, <2>2
<1>8. SameKeys(S \ {Head(o)}, p, K)
    BY <1>3, <1>5, <1>6, <1>7 DEF SameKeys
<1> QED BY <1>3, <1>8 DEF p

\* ReplayCache::contains is membership in the last cap accepted keys.
LEMMA DequeContainsLast ==
    ASSUME NEW K, NEW cap \in Nat \ {0}, NEW d, NEW a, NEW k \in K, DequeTracks(d, a, K, cap)
    PROVE  DequeContains(d, k) <=> k \in LastOf(a, cap)
<1> DEFINE o == d.order
<1>1. /\ a \in Seq(K) /\ Len(a) \in Nat
      /\ o \in Seq(K) /\ Len(o) \in Nat
      /\ Len(o) = IF Len(a) < cap THEN Len(a) ELSE cap
      /\ d.set = {o[i] : i \in 1..Len(o)}
    BY DEF DequeTracks, SameKeys
<1>2. \A i \in 1..Len(o) : o[i] = a[Len(a) - Len(o) + i]
    BY DEF DequeTracks
<1> HIDE DEF o
<1>3. ASSUME NEW i \in 1..Len(o)
      PROVE  o[i] \in LastOf(a, cap)
  <2>1. CASE Len(a) < cap
    <3>1. Len(o) = Len(a) /\ Len(a) - Len(o) + i = i
        BY <1>1, <2>1
    <3>2. i \in 1..Len(a) /\ i + cap > Len(a)
        BY <1>1, <2>1, <3>1
    <3> QED BY <1>2, <3>1, <3>2 DEF LastOf
  <2>2. CASE ~(Len(a) < cap)
    <3>1. Len(o) = cap
        BY <1>1, <2>2
    <3> DEFINE m == Len(a) - Len(o) + i
    <3>2. m \in 1..Len(a) /\ m + cap > Len(a)
      <4>1. Len(a) \in Nat /\ i \in 1..cap /\ ~(Len(a) < cap) /\ m = Len(a) - cap + i
          BY <1>1, <2>2, <3>1
      <4> HIDE DEF m
      <4> QED BY <4>1
    <3>3. o[i] = a[m]
        BY <1>2
    <3> HIDE DEF m
    <3> QED BY <3>2, <3>3 DEF LastOf
  <2> QED BY <2>1, <2>2
<1>4. ASSUME NEW j \in 1..Len(a), j + cap > Len(a)
      PROVE  a[j] \in d.set
  <2>1. /\ j - (Len(a) - Len(o)) \in 1..Len(o)
        /\ Len(a) - Len(o) + (j - (Len(a) - Len(o))) = j
    <3>1. CASE Len(a) < cap
        BY <1>1, <1>4, <3>1
    <3>2. CASE ~(Len(a) < cap)
      <4>1. Len(o) = cap /\ Len(a) >= cap
          BY <1>1, <3>2
      <4>2. \A n \in Nat : n >= cap /\ j <= n /\ j + cap > n =>
                j - (n - cap) \in 1..cap /\ n - cap + (j - (n - cap)) = j
          OBVIOUS
      <4>3. j <= Len(a)
          BY <1>1
      <4> QED BY <1>1, <1>4, <4>1, <4>2, <4>3
    <3> QED BY <3>1, <3>2
  <2> QED BY <1>1, <1>2, <2>1
<1> QED BY <1>1, <1>3, <1>4 DEF LastOf, DequeContains

\* ReplayCache::insert of a new key drops the oldest one exactly when the
\* cache is full.
LEMMA DequeInsertTracks ==
    ASSUME NEW K, NEW cap \in Nat \ {0}, NEW d, NEW a, NEW k \in K, DequeTracks(d, a, K, cap),
           ~DequeContains(d, k)
    PROVE  DequeTracks(DequeInsert(d, k), Append(a, k), K, cap)
<1> DEFINE b == Append(a, k)
           o == d.order
<1>1. /\ a \in Seq(K) /\ Len(a) \in Nat /\ d.cap = cap
      /\ o \in Seq(K) /\ Len(o) \in Nat
      /\ Len(o) = IF Len(a) < cap THEN Len(a) ELSE cap
      /\ SameKeys(d.set, o, K) /\ Cardinality(d.set) = Len(o)
      /\ k \notin d.set
    BY DEF DequeTracks, SameKeys, DequeContains
<1>2. \A i \in 1..Len(o) : o[i] = a[Len(a) - Len(o) + i]
    BY DEF DequeTracks
<1>3. /\ b \in Seq(K) /\ Len(b) = Len(a) + 1 /\ b[Len(a) + 1] = k
      /\ \A i \in 1..Len(a) : b[i] = a[i]
    BY <1>1
<1>4. CASE Len(a) < cap
  <2> DEFINE p == Append(o, k)
  <2>1. DequeInsert(d, k) = [set |-> d.set \cup {k}, order |-> p, cap |-> d.cap]
    <3>1. ~(DequeContains(d, k) \/ d.cap = 0)
        BY <1>1
    <3>2. ~(Cardinality(d.set) >= d.cap)
      <4>1. Len(o) = Len(a)
          BY <1>1, <1>4
      <4> QED BY <1>1, <1>4, <4>1
    <3> QED BY <3>1, <3>2, Zenon DEF DequeInsert
  <2>2. /\ SameKeys(d.set \cup {k}, p, K) /\ Len(p) = Len(o) + 1
        /\ p[Len(o) + 1] = k
        /\ \A i \in 1..Len(o) : p[i] = o[i]
      BY <1>1, PushSameKeys
  <2> HIDE DEF p, b, o
  <2>3. Len(p) = IF Len(b) < cap THEN Len(b) ELSE cap
      BY <1>1, <1>3, <1>4, <2>2
  <2>4. ASSUME NEW i \in 1..Len(p)
        PROVE  p[i] = b[Len(b) - Len(p) + i]
    <3>1. Len(b) - Len(p) + i = i /\ Len(a) - Len(o) + i = i /\ Len(o) = Len(a)
        BY <1>1, <1>3, <1>4, <2>2
    <3>2. CASE i = Len(o) + 1
        BY <1>1, <1>3, <2>2, <3>1, <3>2
    <3>3. CASE i # Len(o) + 1
      <4>1. i \in 1..Len(o) /\ i \in 1..Len(a)
          BY <1>1, <2>2, <3>1, <3>3
      <4>2. p[i] = o[i] /\ o[i] = a[i] /\ b[i] = a[i]
          BY <1>2, <1>3, <2>2, <3>1, <4>1
      <4> QED BY <3>1, <4>2
    <3> QED BY <3>2, <3>3
  <2>5. DequeTracks([set |-> d.set \cup {k}, order |-> p, cap |-> d.cap], b, K, cap)
      BY <1>1, <1>3, <2>2, <2>3, <2>4 DEF DequeTracks
  <2> QED BY <2>1, <2>5 DEF b
<1>5. CASE ~(Len(a) < cap)
  <2> DEFINE t == Tail(o)
             S == d.set \ {Head(o)}
             p == Append(t, k)
  <2>1. Len(o) = cap /\ Len(o) > 0 /\ o # <<>>
      BY <1>1, <1>5
  <2>2. /\ SameKeys(S, t, K) /\ Len(t) = Len(o) - 1
        /\ \A i \in 1..Len(o)-1 : t[i] = o[i+1]
      BY <1>1, <2>1, PopSameKeys
  <2>3. k \notin S
      BY <1>1
  <2>4. DequeInsert(d, k) = [set |-> S \cup {k}, order |-> p, cap |-> d.cap]
    <3>1. ~(DequeContains(d, k) \/ d.cap = 0)
        BY <1>1
    <3>2. Cardinality(d.set) >= d.cap
        BY <1>1, <2>1
    <3> DEFINE r == [set |-> S, order |-> t, cap |-> d.cap]
    <3>3. DequeEvict(d) = r
        BY <2>1, Zenon DEF DequeEvict
    <3>4. DequeInsert(d, k) = [set |-> r.set \cup {k}, order |-> Append(r.order, k), cap |-> d.cap]
      <4> HIDE DEF r
      <4> QED BY <3>1, <3>2, <3>3, Zenon DEF DequeInsert
    <3> QED BY <3>4
  <2> HIDE DEF t, S
  <2>5. /\ SameKeys(S \cup {k}, p, K) /\ Len(p) = Len(t) + 1
        /\ p[Len(t) + 1] = k
        /\ \A i \in 1..Len(t) : p[i] = t[i]
      BY <2>2, <2>3, PushSameKeys
  <2> HIDE DEF p, b, o
  <2>6. Len(p) = cap /\ Len(p) = IF Len(b) < cap THEN Len(b) ELSE cap
    <3>1. Len(p) = cap
        BY <1>1, <2>1, <2>2, <2>5
    <3>2. ~(Len(b) < cap)
        BY <1>1, <1>3, <1>5
    <3> QED BY <3>1, <3>2
  <2>7. ASSUME NEW i \in 1..Len(p)
        PROVE  p[i] = b[Len(b) - Len(p) + i]
    <3>1. CASE i = cap
      <4>1. Len(t) + 1 = cap /\ Len(b) - Len(p) + i = Len(a) + 1
        <5>1. Len(t) + 1 = cap
            BY <1>1, <2>1, <2>2
        <5>2. Len(b) = Len(a) + 1 /\ Len(p) = cap /\ i = cap
            BY <1>3, <2>6, <3>1
        <5> QED BY <1>1, <5>1, <5>2
      <4> QED BY <1>3, <2>5, <3>1, <4>1
    <3>2. CASE i # cap
      <4>1. i \in 1..Len(t) /\ i \in 1..Len(o)-1 /\ i+1 \in 1..Len(o)
          BY <1>1, <2>1, <2>2, <2>6, <3>2
      <4>2. p[i] = o[i+1]
          BY <2>2, <2>5, <4>1
      <4>3. /\ Len(a) - Len(o) + (i+1) \in 1..Len(a)
            /\ Len(a) - Len(o) + (i+1) = Len(b) - Len(p) + i
        <5>1. Len(b) = Len(a) + 1 /\ Len(p) = cap /\ Len(o) = cap
            BY <1>3, <2>1, <2>6
        <5>2. i \in Nat /\ 1 <= i /\ i+1 <= cap /\ ~(Len(a) < cap) /\ Len(a) \in Nat
            BY <1>1, <1>5, <2>1, <4>1
        <5> QED BY <5>1, <5>2
      <4>4. o[i+1] = a[Len(a) - Len(o) + (i+1)]
          BY <1>2, <4>1
      <4> QED BY <1>3, <4>2, <4>3, <4>4
    <3> QED BY <3>1, <3>2
  <2>8. DequeTracks([set |-> S \cup {k}, order |-> p, cap |-> d.cap], b, K, cap)
      BY <1>1, <1>3, <2>5, <2>6, <2>7 DEF DequeTracks
  <2> QED BY <2>4, <2>8 DEF b
<1> QED BY <1>4, <1>5

\* A new MemoryReplayCache has accepted nothing.
LEMMA DequeNewTracks ==
    ASSUME NEW K, NEW cap \in Nat \ {0}
    PROVE  DequeTracks(DequeNew(cap), <<>>, K, cap)
<1>1. SameKeys({}, <<>>, K)
    BY FS_EmptySet DEF SameKeys
<1> QED BY <1>1 DEF DequeTracks, DequeNew

\* So a key that is not contained was not among the last cap accepted ones,
\* and accepting it keeps equal keys more than cap acceptances apart.
LEMMA DequeAcceptsOnce ==
    ASSUME NEW K, NEW cap \in Nat \ {0}, NEW d, NEW a, NEW k \in K, DequeTracks(d, a, K, cap),
           ~DequeContains(d, k),
           \A i, j \in 1..Len(a) : (i < j /\ a[i] = a[j]) => j - i > cap
    PROVE  \A i, j \in 1..Len(Append(a, k)) :
               (i < j /\ Append(a, k)[i] = Append(a, k)[j]) => j - i > cap
<1> DEFINE b == Append(a, k)
<1>1. a \in Seq(K) /\ Len(a) \in Nat
    BY DEF DequeTracks
<1>2. Len(b) = Len(a) + 1 /\ b[Len(a) + 1] = k /\ \A i \in 1..Len(a) : b[i] = a[i]
    BY <1>1
<1>3. \A i \in 1..Len(a) : a[i] = k => i + cap <= Len(a)
  <2>1. k \notin LastOf(a, cap)
      BY DequeContainsLast
  <2>2. \A i \in 1..Len(a) : a[i] = k => ~(i + cap > Len(a))
      BY <2>1 DEF LastOf
  <2> QED BY <1>1, <2>2
<1> HIDE DEF b
<1>4. ASSUME NEW i \in 1..Len(b), NEW j \in 1..Len(b), i < j, b[i] = b[j]
      PROVE  j - i > cap
  <2>1. i \in 1..Len(a)
      BY <1>1, <1>2, <1>4
  <2>2. CASE j = Len(a) + 1
      BY <1>1, <1>2, <1>3, <1>4, <2>1, <2>2
  <2>3. CASE j # Len(a) + 1
      BY <1>1, <1>2, <1>4, <2>1, <2>3
  <2> QED BY <2>2, <2>3
<1> QED BY <1>4 DEF b
=============================================================================
