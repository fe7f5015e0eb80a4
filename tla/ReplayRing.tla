----------------------------- MODULE ReplayRing -----------------------------
(***************************************************************************)
(* The C lane's replay cache (c/src/store/replay.c): a fixed array of Cap  *)
(* keys, the number n of keys in use and the index next_evict of the next  *)
(* key to overwrite.  Operators on a cache record; the modules that use    *)
(* the cache hold the record in a variable.                                *)
(*                                                                         *)
(* A key stands for SHA256(domain, pid, nonce_c, eph_c), which is injective*)
(* for honest clients (every AUTH_1 draws a fresh nonce and ephemeral).    *)
(***************************************************************************)
EXTENDS Naturals, Sequences

CONSTANTS
    Key,    \* replay keys
    NoKey,  \* content of an array element that was never written (zero bytes)
    Cap     \* AUTH_REPLAY_CACHE_CAPACITY, 64 in the build

ASSUME CapAssumption == Cap \in Nat \ {0}
ASSUME NoKeyAssumption == NoKey \notin Key

RingType == [keys : [0..Cap-1 -> Key \cup {NoKey}], n : 0..Cap, next_evict : 0..Cap-1]

\* auth_replay_cache_init: zero the whole structure.
RingInit == [keys |-> [i \in 0..Cap-1 |-> NoKey], n |-> 0, next_evict |-> 0]

\* auth_replay_cache_contains: linear scan of the elements in use.
RingContains(c, k) == \E i \in 0..c.n-1 : c.keys[i] = k

\* Mutants of the insertion: the eviction cursor stays where it is; it starts
\* at the newest key; it does not wrap.
RingInsertStuck(c, k) ==
    IF RingContains(c, k) THEN c
    ELSE IF c.n < Cap
         THEN [keys |-> [c.keys EXCEPT ![c.n] = k], n |-> c.n + 1,
               next_evict |-> c.next_evict]
         ELSE [c EXCEPT !.keys[c.next_evict] = k]

RingInsertNewest(c, k) ==
    IF RingContains(c, k) THEN c
    ELSE IF c.n < Cap
         THEN [keys |-> [c.keys EXCEPT ![c.n] = k], n |-> c.n + 1,
               next_evict |-> c.n]
         ELSE [keys |-> [c.keys EXCEPT ![c.next_evict] = k], n |-> c.n,
               next_evict |-> (c.next_evict + 1) % Cap]

RingInsertNoWrap(c, k) ==
    IF RingContains(c, k) THEN c
    ELSE IF c.n < Cap
         THEN [keys |-> [c.keys EXCEPT ![c.n] = k], n |-> c.n + 1,
               next_evict |-> c.next_evict]
         ELSE [keys |-> [c.keys EXCEPT ![c.next_evict] = k], n |-> c.n,
               next_evict |-> c.next_evict + 1]

\* auth_replay_cache_insert: the cache after the call.  The call returns 1
\* exactly when the key was not contained.
RingInsert(c, k) ==
    IF RingContains(c, k) THEN c
    ELSE IF c.n < Cap
         THEN [keys |-> [c.keys EXCEPT ![c.n] = k], n |-> c.n + 1,
               next_evict |-> c.next_evict]
         ELSE [keys |-> [c.keys EXCEPT ![c.next_evict] = k], n |-> c.n,
               next_evict |-> (c.next_evict + 1) % Cap]

\* The keys the cache answers for.
RingRetained(c) == {c.keys[i] : i \in 0..c.n-1}

-----------------------------------------------------------------------------
\* The Cap most recent elements of a sequence of accepted keys.
LastKeys(a) == {a[i] : i \in {j \in 1..Len(a) : j + Cap > Len(a)}}

\* Where the keys of a cache sit when a is the sequence of keys it accepted:
\* in order from element 0 until the array is full, and from then on rotated
\* so that next_evict is the oldest.
RingTracks(c, a) ==
    /\ c \in RingType
    /\ a \in Seq(Key)
    /\ c.n < Cap => /\ c.next_evict = 0
                    /\ Len(a) = c.n
                    /\ \A i \in 0..c.n-1 : c.keys[i] = a[i+1]
    /\ c.n = Cap => /\ Len(a) >= Cap
                    /\ \A i \in 0..Cap-1 :
                          c.keys[i] = IF i < c.next_evict
                                      THEN a[Len(a) - c.next_evict + i + 1]
                                      ELSE a[Len(a) - Cap - c.next_evict + i + 1]
=============================================================================
