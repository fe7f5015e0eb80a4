# Formal models of ZK-ARCHE

ZK-ARCHE authenticates IoT devices: a device enrols with SETUP_1..SETUP_ACK and
later authenticates, without naming itself, with AUTH_1..AUTH_ACK. The
repository holds two implementations ("lanes"), one in C and one in Rust, and a
set of decision functions for replacing the lineage of a device. This directory
holds TLA+ models of it, configurations for TLC and proofs for TLAPS.
`PROJECT.json` is the index: components, runs, mutants, the map from
definitions to source lines, findings, hazards and theorems.

## Inventory

| Component | State | Operations | Hard behaviour |
|---|---|---|---|
| C replay cache, `c/src/store/replay.c` | array of keys, count, eviction cursor | init, contains, insert | wrap-around at capacity |
| Rust replay cache, `store/fs.rs` | set and deque of keys | contains, insert with eviction | the two structures must move together |
| C session table, `c/src/store/session_table.c` | 64 slots: free, reserved, pending SETUP or AUTH | reserve, activate, find, release | a slot index outlives the lock |
| C server, `c/bin/server.c`, `proto.c`, `replay_guard.c`, `store_fs.c` | table, replay cache, registry in memory and on disk | one handler per packet type, save, load | a UDP thread and a thread per TCP connection, two mutexes, both released while proofs are verified |
| Rust server, `rust/crates/server/src/main.rs`, `proto/{setup,auth}.rs`, `store/fs.rs` | sessions, response cache, replay cache, registry and its dirty flag | dispatch, garbage collection, flush, start | retransmissions against TTL, eviction, failed flush, restart |
| Rust client, `proto/common.rs`, `setup.rs`, `auth.rs`, `client/src/main.rs` | credential files, attempt and timeout of the request | setup, auth, pin | lost, late and stray datagrams |
| C client, `c/bin/client.c` | credential file, attempt of the request | setup, auth | identity saved only after SETUP_ACK; an answer of an earlier attempt |
| C handshake, `proto.c`, `proofs.c`, `crypto.c`, `transcript.c` | secrets and keys of one run | the prover and verifier of every packet | a proof that verifies for a packet nobody made; identity points and zero draws |
| Wire format, `wire.c`, `payloads.c` | none | encode and strict decode of header, payloads, TLVs, HELLO | cut, padded and altered fields |
| AUTH v3 contexts and authorization, `c/src/proto/auth_v3*.c` | none | encode, parse, hash, attribute, derive tags | two encodings of one meaning |
| Capabilities, profiles, `wire.c`, `caps.rs`, `profile.rs` | none | negotiate | the two ends computing different results |
| Transports, `transport_tcp.c`, `transport_udp.c` | bytes of the frame being read | send, receive | partial reads and writes, end of stream inside a frame |
| Replay continuity, both lanes | TRUSTED, RESTORING, BROKEN | apply event, allowed | sequences of events after a restart |
| LINEAGE_REPLACE, both lanes, about 20 files each | phase of a replacement, durable record, views of two peers | decide, plan, commit in five writes, recover, reconcile | a crash between two writes, peers that commit at different moments |

Interaction. Clients and servers only exchange packets. In the C server workers
share the table and the registry under `mu` and the replay cache under
`replay_mu`; in the Rust server one mutex covers a whole packet. The registry
file is the only state of a server, besides its key, that survives a restart.

What makes it correct, component by component: a replay cache refuses exactly
the keys of its window; a reserved slot belongs to one worker and a pending
session is only taken out by its own third packet; a device that was
acknowledged is on disk; the AUTH scan does not miss an enrolled device though
the registry changes under it; retries do no harm; both ends agree on the key;
every request comes to an end; what a client saved is enrolled; only what the
enrolled client made is accepted; what a decoder accepts it accepts in one form;
after a restart nothing in the replay window is accepted again; a replacement
cut at any write is never recovered as if nothing, or everything, had happened,
and a pair of peers uses a lineage only when both have it.

## Modules

| Module | Models |
|---|---|
| `ReplayRing` | C replay cache; slots, cursor and count |
| `ReplayDeque` | Rust replay cache; set and deque |
| `ReplayWindow` | abstract specification: the Cap keys accepted last are refused |
| `ReplayLanes` | both caches fed with the same keys; refinement mappings to `ReplayWindow` |
| `SessionTable` | operators of the C session table |
| `CServer` | C server over any number of workers; EXTENDS `ReplayRing`, `SessionTable` |
| `RustServer` | Rust server; EXTENDS `ReplayDeque` |
| `RustSystem` | Rust clients and the network around `RustServer` |
| `CClient` | C client composed with the C server over a faulty network; EXTENDS `CServer` |
| `Sigma` | groups, hashes, proofs, transcripts and key derivations of the C library |
| `Packets` | packets and payloads as sequences of cells; EXTENDS `Sigma` |
| `Handshake` | the handlers of `proto.c` on concrete proofs and packets that may be damaged; EXTENDS `Packets` |
| `Contexts` | ZKCTX contexts, IoT core authorization, AUTH v3 tags, HELLO; EXTENDS `Sigma` |
| `Stream` | TCP framing, with the decoders of `Contexts` behind it |
| `ReplayContinuity` | the continuity gate in front of the replay cache; EXTENDS `ReplayRing` |
| `LineageReplace` | the LINEAGE_REPLACE classifiers as tables and operators |
| `LineagePair` | two peers with durable records, and the pair's owner; EXTENDS `LineageReplace` |
| `PolyHash` | the hash TLC's instances use |
| `MCReplay`, `MCServer`, `MCServerDup`, `MCClient`, `MCRust`, `MCHandshake`, `MCStream`, `MCContinuity`, `MCLineage` | instances for TLC |
| `ReplayCaches_proofs` | lemmas on the two replay caches |
| `ReplayLanes_proofs`, `CSystem_proofs` (`CServer` and `CClient`), `ReplayContinuity_proofs`, `RustSystem_proofs`, `LineagePair_proofs`, `Stream_proofs`, `Handshake_proofs` | theorems |

**C server.** An action is one critical section with the local work next to it;
`pc`, `job` and `scan` are the program counter and the locals of a worker, so
everything the code reads before an unlock and uses after the next lock is
explicit. `Begin`, `Reserve`, `Find` open a packet; `Setup1*`, `Setup3*`,
`Auth1*`, `Auth3Finish` finish it. A SETUP_1 or AUTH_1 is a record naming the
device whose secrets it was built from and its replay key; a third packet names
the opening packet and the server nonce it answers. A proof or tag verifies
exactly when these agree: that is what the cryptography promises, and the only
place where it enters. The network delivers any packet any number of times in
any order. `RegistrySaveFails`, `Restart` and `CrashAfterSave` (the process
dies between the rename and the reply) are steps.

**Rust server and clients.** A flow is one client run: its session id, its
nonce and its ephemeral key are drawn once, so the flow stands for them.
`Dispatch(m)` is the critical section of one packet: collection if due, response
cache, handler, caching of the response. Messages stay in `reqs` and `resps`,
so that each may be lost, repeated, reordered and delayed; a request carries
the age of its last copy. Time is discrete; ages stop counting where nothing
distinguishes them. A flow that met a fault is recorded in `disturbed`, a
history variable: a restart, an eviction, a failed flush, a change of address, a
datagram later than `Delay`, or an AUTH of a device that is pinned but not
enrolled. `creds` keeps the order in which the client saves its files, the pin
last.

**C client.** A run of the client is a process: it starts with the credential
file of earlier runs, sends two packets, each at most `Attempts` times, and
takes the first datagram on its socket as the answer. The server is `CServer`
unchanged, fed with what the client sent, any number of times and at any later
time. The file may fail to be saved after SETUP_ACK, and the process may be
killed anywhere.

**Handshake.** The cryptography is calculated, not assumed: a point is its pair
of exponents, a scalar an integer that is reduced where the code reduces it. The
hash is a parameter, `HashOf`: a polynomial over what is hashed for TLC, and an
ideal hash in the proofs. Every check of the handlers, what
libsodium refuses, and every field of every packet are there; `Damage` alters,
cuts or adds fields, also of error packets, `ForgeAck` puts an acknowledgement in
the place of the server's packet, and `weak` makes one random draw zero. The C
client authenticates no acknowledgement (`proto.c:342`): `forged` records that one
was forged, and only then may a client be done that the server never accepted
(`KeysAgree`). `CServer` and
`CClient` then take "a proof verifies exactly for the packet it was made for"
as given.

**Codecs.** `Stream` sends frames through a connection that takes and gives
pieces of any size and may end anywhere: the sender closes, a send fails
(`write_all`), the receiver times out, or one of its own polls or receives fails
(`RecvFails`, recorded in `broken`). The receiver reads what arrives with the
decoders of `Contexts`. The check against `buf_cap` is left out: every caller
passes a buffer of AUTH_MAX_DATAGRAM. Frames are valid encodings and every change of one
of their cells.

**Replay continuity.** The gate's state outlives the process; the cache does
not, and is restored from a window that was saved at some point. The owner is
not in the repository: it saves, reports what it found of the window, and asks
the gate. The theorem is about the two together.

**LINEAGE_REPLACE.** `LineageReplace` has one table per classifier, in the order
of the early returns. `LineagePair` calls them: a peer learns of an attempt,
confirms it, commits through the verified commit, writes five steps with a
failure, a crash or a torn record at each, and recovers against a freshness
anchor that a rolled-back record does not meet. The owner of the pair, who is
not in the repository, evaluates the two recoveries (`Reconcile`) and passes on
the previous decision as `prior` (`NextPrior`). With `LatchLost` FALSE that is
the pair decision it has just made, which is how the transition contract (`:13`)
defines `prior`; with TRUE it is the loss that the classifier reported, where it
reported one. `Reenrol` enrols peers again after a divergence, as an authorized
clean retry or without one. That the pair is not in use while a peer commits or
is down (`PairUse`) assumes that `Begin` and `Crash` end the use at once.

## Runs

| Run | Instance | Shows |
|---|---|---|
| `replay_lanes` | 5 keys, capacity 3, 8 acceptances | both caches implement the window and never disagree; more than two turns of the ring |
| `c_server` | two workers, two slots, capacity 1, three registry entries, five deliveries, one restart | reservations, replay guard, one acknowledgement per session, durability, uniqueness, scan, sessions |
| `c_slot_dup` | a packet that reaches both workers | **violated**: one slot is held by two workers (finding) |
| `c_retransmit` | the same | **violated**: a repeated SETUP_1 gets a second challenge (finding) |
| `c_client` | two runs, two attempts, six deliveries, one restart, one worker | saved credentials are enrolled; success was acknowledged; one acknowledgement per run; runs end; packets are dealt with |
| `handshake` | up to two packets damaged or replaced by an acknowledgement, or one zero draw, three roles, four lists | honest runs verify; only what the client made is accepted, and what is confirmed is bit for bit what it sent; keys agree |
| `codecs` | one frame with any one cell changed, or two frames, in pieces of several sizes | frames arrive whole and in order; what parses is canonical; both ends agree |
| `replay_continuity` | 4 keys, capacity 2, 5 acceptances, 3 restarts | the window survives restarts; a break is final |
| `lineage` | two peers, two successors, three attempts, a right request and one wrong in each part, `LatchLost` | recovery, entitlement, use of the pair; a lost pair stays unused |
| `rust_enrol` | one enrolment, then an authentication; one retry, TTL 2, delay 1, one restart | acknowledged means durable; no spurious refusal |
| `rust_auth` | two authentications, replay capacity 1, session limit 1, one change of address | keys agree; one acceptance per window |
| `rust_live` | an unpaired enrolment and an authentication, one change of address | every client run ends |

Bounds. Capacities are 1 to 3 so that eviction, a full table and a full
registry happen within a few packets. Five deliveries are enough for two
complete interleaved handshakes' openings and third packets and one duplicate,
which is what the counterexamples of the findings need. `MaxNonce` = 2 lets a
request be executed again once. Two client runs let the second meet what the
first left behind: no file, a file, an enrolment whose acknowledgement was
lost, late datagrams. In `handshake` the group order is 40009 and the hash of
`PolyHash` is taken modulo 46337: products stay within TLC's integers, and the honest values
and the damaged ones (a field one larger, a scalar larger by the group order)
do not collide. Two damages reach the altered packet and the answer to it. In
`lineage` one crash and one new enrolment let a pair that diverged start again and
then be cut; a failed write needs no crash, and a broken peer may crash at will.

The retry constants keep the relation they have in the build. `SendSpan[a]` is
the time until attempt `a`, the sum of the timeouts before it
(`SpanAssumption`); a Rust client sends a request for 12.0 s (0.8 + 1.6 + 3.2 +
6.4), the TTL is 15 s, and `Slack`, which `MCRust` assumes, says that the TTL
covers the sending and the delay of a datagram. `NoSpuriousFailure` fails as soon as the TTL is one tick shorter
(its mutant in `rust_enrol`). Deadlock checking is off where every client run,
stream or handshake may be over.

Symmetry is used in `lineage` only, between the two peers, and no liveness is
checked there. `MaxDeliveries`, `MaxRestarts` and `MaxAccepted` only bound
counters; the theorems hold for every value of them.

Fairness. `c_client` assumes weak fairness of the client's steps (poll returns
after five seconds, whatever the network does) and of each worker's steps
(nothing in dispatch blocks except on mutexes held for one bounded section, and
files are written synchronously). `rust_live` assumes that time passes and that
a client whose receive timed out goes on; it assumes nothing of the network or
the server.

## Findings

* `server.c:302`: dispatch releases the slot index it found before it unlocked.
  When the third packet of a session reaches two workers, the second release
  hits a slot that may have been reserved since, and the next reservation hands
  it out again, against the comment at `server.c:85`. With one route per session,
  which is what an honest client does, this cannot happen: that is the theorem
  `ReservationsSafe`.
* The C server never replays a stored response, against section 11.4 of
  `c/wire-spec.md`.

Smaller disagreements between documents and code, met while modelling and not
given a run of their own:

* `wire-spec.md:420` lists UnknownDevice; the C server sends it only when the
  registry is empty, and PROOF_VERIFY to a device it does not know.
* `wire-spec.md:518` says non-canonical scalars are rejected; no handler calls
  `auth_check_scalar`. `ConfirmedAsSent` and `AcceptedAsSent` state what is left:
  the client proof is bound byte by byte by the key confirmation, the role proofs
  modulo the order.
* `wire-spec.md:517` says the identity is rejected in every point; the announced
  A of a proof and C' may be the identity.
* `transport_tcp.c:47` says an end of stream within a frame is
  MALFORMED_PACKET; right after the prefix it is IO. It lists IO for a clean end
  only; a poll or recv that fails (lines 67 and 75) is IO too, anywhere in the
  stream, so a caller cannot tell the two apart.
* `client.c:9` gives the default roles as 1,2,3; line 75 sets 1,2.
* A list with role 0 makes every role-set proof fail, since libsodium refuses
  the identity (`HonestRunsVerify`).
* `auth_negotiate` takes the first common suite of the caller's list, so the two
  ends may choose different suites; version and capabilities agree
  (`StrictDecoding`).
* `lineage_replace_reconciliation_transition.c:8` and `:15` look at `prior` only,
  and `spec/lineage-replace-reconciliation-transition-contract.md:13` defines it
  as the "previous pair reconciliation decision". Kept that way, a loss is
  forgotten after one evaluation, and two more that find a ready pair use it again
  (lines 19 and 30), against rules 1 (a broken pair is fail-closed) and 3 (a
  divergence stays rejected until a clean retry) of the same contract. The owner
  has to pass the verdict of loss on as the next `prior`: that obligation is
  `LatchLost`, and `LostPair` is checked and proved from it. With `LatchLost =
  FALSE` in `MCLineage.cfg` TLC finds either rule violated, and every other
  property of the run still holds.
* The convergence classifiers do not compare the successor of the converged
  attempt with the durable one; the pair is still safe, because the transition
  compares the durable successors (`PairUse`).

## Theorems

All for every value of the constants, under the named assumptions of the
modules.

* `ReplayCaches_proofs`: lemmas. `RingTracks(ring,
  accepted)` says that the slots hold the last `Cap` accepted keys and that the
  cursor is on the oldest one; `DequeTracks` says the same of the set and the
  deque, in order. A fresh insertion keeps either, and a key that is not
  contained was not accepted within the window.
* `ReplayLanes_proofs`: type correctness, agreement of the lanes, and both
  refinements of `ReplayWindow`. Type correctness includes that the Rust deque
  never outgrows the capacity. The inductive invariant says that the ring and
  the deque each track the history of accepted keys.
* `CSystem_proofs`, the server: `IInv` holds whatever the routes are. It adds to the
  properties what a worker knows between two critical sections: what its packet
  and copied session are (`JobInv`), that the entries before the scan's index
  did not match (`ScanInv`; it is inductive because the registry only ever grows
  at its end), what slots and replies can hold, and that the ring tracks the
  history (which makes `AcceptOncePerWindow` inductive). From it follow
  `TypeCorrect`, `ReplayGuardCorrect`, `EnrolmentDurable`, `RegistryUnique`,
  `SessionsSound` and `ScanComplete`. `RouteIInv` adds, under `SingleRoute`, that
  a worker between find and release still has its session in the slot; from it
  follow `ReservationsSafe` and the action property `SessionsKept`. `NonceInv`
  follows the server nonces from the reservation over the session into the
  acknowledgement: a nonce is in one of these places only, once, and the copy a
  worker verifies is still what the slot holds. From it follows
  `AcknowledgedOnce`. Without `SingleRoute` these are false (`c_slot_dup`).
* `CSystem_proofs`, the client: `ClientImplementsServer` shows that the server the client
  talks to takes only steps of `CServer`, so that every theorem above holds of
  the composition. `ClientInv` says that a run has sent one opening packet and
  at most one third packet, over the nonce it keeps, that the server works on
  and answers only what was sent, and that what is in the run's socket answers
  the run. That is what `SuccessIsAcknowledged` needs, since the client checks
  neither session id nor tag of an acknowledgement. `SavedIsKnown` and, under
  `SingleRoute`, `RunAcknowledgedOnce` combine it with the server's theorems.
* `RustSystem_proofs`: `SysInv` adds to `TypeOK`, `EnrolledIsDurable`,
  `KeyAgreement` and `AcceptOncePerWindow` what every response that was sent or
  is cached says (`AnswersInv`: SETUP_ACK only for a device on disk, AUTH_ACK
  only for a confirmed session; without it nothing is known of a response that
  the cache repeats), that a third packet carries the nonce its run went on with
  (`RequestsInv`), and that the deque tracks the history.
  `RetriesAreSafe` proves `NoSpuriousFailure` from `Slack` by a second invariant,
  `CalmInv`: the server either has not seen a run that met no fault, or has
  answered its first request once and has its session until it has answered the
  third. A response is at most as old as the sum of the timeouts until the next
  attempt, less what is left of the timer, and than the sending time plus the
  age of any copy that is not late (`Answered`), so a collection cannot drop it
  while it may be asked for. `Slack` is where the TTL enters; with a smaller TTL
  the statement is false, as the mutant shows.
* `ReplayContinuity_proofs`: `ContinuityInv` says that the cache tracks the
  whole history while the gate is open, and the saved window does while no key
  was accepted since. It is what makes `OncePerWindowOverRestarts` inductive:
  the cache is empty after a restart, so the history alone says nothing about
  what will be refused; that the gate is closed until a current window is back
  does. `BrokenStaysBroken` is the action property `BrokenIsFinal`.
* `LineagePair_proofs`: lemmas say what each classifier accepts; `PairInv` says
  that every record, in storage or in a snapshot, is at a write cut its peer was
  entitled to (`RecordInv`), how far the record and the anchor of a transaction
  in progress have got (`TxInv`, which is what recovery sees after a crash), and
  how the pair's use and last decision relate to the peers' states (`UseInv`,
  `ConvergedInv`). From it follow the other invariants of the run and the action
  property `EarnedUse`, whatever the owner passes on as `prior`, and from
  `LatchLost` also `LostPair`.
* `Stream_proofs`, the framing: `StreamInv` says that what the reader holds of a
  frame, what is in the connection and what the sender still has of the current
  frame, in this order, are the frames handed over and not yet received, each
  behind its prefix (`Placed`). `FramesInOrder` alone is not inductive: it says
  nothing of the cells under way. `FramesArriveInOrder` holds for frames of any
  number and length, for pieces of any size and wherever a send, poll or recv
  fails: what arrives is whole and in order, and IO means that all has arrived
  unless a call of the receiver failed or the sender stopped inside a frame.
* `Stream_proofs`, the decoders: `DecodingIsCanonical` needs no hypothesis on the
  hash. The parser's loop is a recursive function; `ParseInv` relates the cells
  before the cursor to the encoding of the entries found so far, for every number
  of rounds (`UpTo`). `ParseSound` concludes that an accepted context is the
  encoding of what it parses to, `ParseComplete` that the encoding of valid
  entries is parsed back. The authorization context is a context with fixed
  entries, and attribution compares all of it. `DecodingIsStrict` adds the peers:
  a HELLO survives its own encoding (`HelloRoundTrip`), negotiation gives both
  ends one verdict, version and capability set (`NegotiationAgrees`), and under
  an ideal hash two transcripts that differ in one field have different tags
  (`TranscriptApart`, `TagsApart`).
* `Handshake_proofs`: for any group order, roles, lists, draws, tokens and any
  number of damaged packets and forged acknowledgements, under an ideal hash. `HandshakeInv` says of either
  side that its session key, transcript hash and confirmation keys were derived
  from the values it keeps (`ClientState`, `ServerState`), that the keys of a client
  past AUTH_2 are those of a session the server issued and an accepted session
  has the client's context and proof (`Agree`), and that a tag on the wire is the
  tag a side made plus at most as much as the damage done so far can add
  (`Carried`). Transcripts are injective in their fields, so an accepted tag means
  the same key, transcript and context. From it follow `KeysAreAgreed`
  (`KeysAgree`) and `ConfirmedIsSent` (`ConfirmedAsSent`). Neither is inductive:
  both speak of the moment of acceptance, and what decides it is the tag in
  flight. `HonestProofsVerify` is completeness: a SETUP, AUTH or rerandomization
  proof made for the right secret verifies exactly when neither its response nor
  challenge times secret is zero modulo the order. That is the exception
  `HonestRunsVerify` meets with zero draws.

Assumptions. The capacities and counters are naturals, capacities not zero
where the code never makes one of zero (`LimitAssumption` and its like); `Kind`,
`DevOf` and the other parameters of a run are functions and sets of the right
type; a Rust client has an address, and a lineage pair has two peers
(`PeerAssumption`); the facts and contexts of a request have the members of
their structs (`RequestAssumption`); `SendSpan` is the sum of the timeouts
(`SpanAssumption`); the length of a
frame fits its prefix (`FrameAssumption`); the sample contexts have the
types of their structs and fit the receiver's array, and the records are finitely
many (`ContextAssumption`); a session has the members of its structs
(`SessionAssumption`); the order is not zero, draws and roles are integers, and a
token is a list of fields of one or two cells (`HandshakeAssumption`).

Hypotheses of the theorems that need them, not assumptions of the modules:
`SingleRoute`, `Slack`, `LatchLost` and `IdealHash`. The last says that a hash is an integer,
that different inputs have different hashes and, for the handshake, that a hash
altered as often as packets are damaged is not the hash of something else. It
idealises SHA-256 and HMAC the way symbolic models do. It can be met: the inputs
are countable, so any numbering of them with wide enough gaps will do. The
polynomial of the instances, being bounded, is not ideal; TLC shows that nothing
the instances hash collides where the properties look.

Only model-checked:

* `HonestRunsVerify` and `AcceptedAsSent`. Neither is true for every value of the
  constants: two draws may add up to zero modulo the order, and a damaged role
  proof may verify by luck, with the probability that soundness allows. The
  instance fixes draws for which that does not happen. Completeness of the
  OR-proof over a role set needs induction over the sum of its challenges
  (`FoldSet`), which is outside the prover.
* The liveness properties `RunEnds` and `RequestAnswered`: fairness and ENABLED
  are outside the prover.

## Not modelled

* Secrecy, and soundness against an adversary who calculates: the repository
  keeps ProVerif models (`c/models/proverif`). Bytes within a field, sockets,
  argument parsing, logs.
* The Rust lane of the codecs, cryptography, capabilities, profiles, continuity
  gate and LINEAGE_REPLACE: the functions parallel the C ones, whose models are
  translated from C.
* UDP sockets (`transport_udp.c`): the network of `CServer`, `CClient` and
  `RustSystem` stands for them. The alias headers, which only rename.
* The storage capability of a lineage (`lineage_replace_storage_capability.c`): a
  mapping of flags to a verdict that nothing in the repository calls.
* Owners of the continuity gate and of a lineage pair are not in the repository;
  they are modelled from the events and facts the library takes.
* Server key files, file permissions, a corrupt registry file, which stops a
  server at start; `registry.bak`, which is written and never read.
* TCP in the Rust lane: the dispatch is the same with an address that never
  changes, and the client neither retries nor counts strays. Malformed payloads
  and unknown packet types sent to the Rust server: an error is answered, and
  cached, and no session changes.
* Two devices with one identity, and a SETUP that changes the role commitment.

## Plan

1. The Rust continuity gate and LINEAGE_REPLACE functions against the C ones,
   over all facts, as `ReplayLanes` does for the caches.
2. Malformed packets and TCP in the Rust lane.
