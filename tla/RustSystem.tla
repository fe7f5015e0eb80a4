----------------------------- MODULE RustSystem -----------------------------
(***************************************************************************)
(* Rust clients against the Rust server over UDP.  A client (run_setup_    *)
(* client, run_auth_client) sends each of its two requests with send_      *)
(* expect: up to max_retries retransmissions with exponential backoff, and *)
(* a datagram of another sequence number uses up an attempt.  The network  *)
(* may lose, duplicate, reorder and delay every datagram for ever, and may *)
(* give the client a new source address (NAT).                             *)
(***************************************************************************)
EXTENDS RustServer

CONSTANTS
    MaxRetries,   \* profile.max_retries
    MaxShift,     \* profile.max_backoff_shift
    Tofu,         \* runs with --allow-tofu-setup
    SendSpan,     \* SendSpan[a]: ticks until attempt a of a request, see SpanAssumption
    OobPin,       \* devices whose operator pins the server key out of band
    MaxRebinds    \* bound on the changes of a client's address

ASSUME RetryAssumption == MaxRetries \in Nat /\ MaxShift \in Nat /\ MaxRebinds \in Nat
ASSUME PinAssumption == Tofu \subseteq Flow /\ OobPin \subseteq Dev
ASSUME PeerAssumption == Peer # {}

VARIABLES
    st,       \* st[f]: what the client run f is doing
    attempt,  \* send_expect: the attempt it is in
    timer,    \* ticks left of that attempt's timeout
    peer,     \* the source address the server sees
    nonce,    \* the server nonce of the answer the client went on with
    err,      \* how a run failed
    creds,    \* creds[d]: which files the state directory of d has, the root
              \* and role, and the pinned server key
    rebinds

clVars == <<st, attempt, timer, peer, nonce, err, creds, rebinds>>
vars == <<registry, dirty, disk, setup, auth, cache, replay, gcAge, opened, reqs, resps,
          restarts, accepted, finished, disturbed, st, attempt, timer, peer, nonce, err,
          creds, rebinds>>

Status == {"idle", "first", "third", "ok", "failed"}
Outcome == Error \cup {"none", "NO_ANSWER", "CLIENT_STORAGE"}
Waiting(f) == st[f] \in {"first", "third"}
SeqOf(f) == IF st[f] = "third" THEN 1 ELSE 0

\* Ticks of an attempt: retransmit_timeout << min(attempt, max_backoff_shift).
Timeout(a) == 2 ^ (IF a < MaxShift THEN a ELSE MaxShift)

\* A client goes on sending one request for the timeouts of all attempts but
\* the last.
ASSUME SpanAssumption ==
    /\ \A a \in 0..MaxRetries : Timeout(a) \in Nat /\ SendSpan[a] \in Nat
    /\ SendSpan[0] = 0
    /\ \A a \in 0..MaxRetries-1 : SendSpan[a+1] = SendSpan[a] + Timeout(a)

\* The TTL of a cached response covers the sending of a request and the delay
\* of its last copy.
Slack == \A a \in 0..MaxRetries : SendSpan[a] + Delay <= TTL

\* Only whether an address is the one a response was cached for matters, so
\* every run starts at the same one.
Home == CHOOSE p \in Peer : TRUE

SysInit ==
    /\ Init
    /\ st = [f \in Flow |-> "idle"]
    /\ attempt = [f \in Flow |-> 0] /\ timer = [f \in Flow |-> 0]
    /\ peer = [f \in Flow |-> Home]
    /\ nonce = [f \in Flow |-> 0] /\ err = [f \in Flow |-> "none"]
    /\ creds = [d \in Dev |-> [root |-> d \in Disk0, pin |-> d \in Disk0]]
    /\ rebinds = 0

\* transport.send: the datagram is on its way, from the current address.
Send(f, s, n, p) ==
    reqs' = {m \in reqs : ~(m.f = f /\ m.seq = s /\ m.nonce = n /\ m.peer = p)}
              \cup {[f |-> f, seq |-> s, nonce |-> n, peer |-> p, age |-> 0]}

\* send_expect enters attempt a of the request with sequence number s.
Attempt(f, s, n, a) ==
    /\ Send(f, s, n, peer[f])
    /\ attempt' = [attempt EXCEPT ![f] = a]
    /\ timer' = [timer EXCEPT ![f] = Timeout(a)]

\* --pin-server-pub.
Pin(d) ==
    /\ d \in OobPin /\ ~creds[d].pin
    /\ creds' = [creds EXCEPT ![d] = [root |-> @.root, pin |-> TRUE]]
    /\ UNCHANGED <<srvVars, reqs, resps, disturbed, st, attempt, timer, peer, nonce, err, rebinds>>

\* load_or_create_device_root and the role credential come before the check of
\* the pin.
CreateRoot(f) ==
    /\ st[f] = "idle" /\ Kind[f] = "SETUP"
    /\ creds' = [creds EXCEPT ![DevOf[f]] = [root |-> TRUE, pin |-> @.pin]]

\* Without a pin or TOFU, nothing is sent; the operator may run it again.
SetupNeedsPin(f) ==
    /\ CreateRoot(f)
    /\ ~creds[DevOf[f]].pin /\ f \notin Tofu
    /\ UNCHANGED <<srvVars, reqs, resps, disturbed, st, attempt, timer, peer, nonce, err, rebinds>>

StartSetup(f) ==
    /\ CreateRoot(f)
    /\ creds[DevOf[f]].pin \/ f \in Tofu
    /\ st' = [st EXCEPT ![f] = "first"]
    /\ Attempt(f, 0, 0, 0)
    /\ UNCHANGED <<srvVars, resps, disturbed, peer, nonce, err, rebinds>>

\* AUTH needs all the files.  A pin does not mean that the device is enrolled.
StartAuth(f) ==
    /\ st[f] = "idle" /\ Kind[f] = "AUTH"
    /\ creds[DevOf[f]].root /\ creds[DevOf[f]].pin
    /\ st' = [st EXCEPT ![f] = "first"]
    /\ Attempt(f, 0, 0, 0)
    /\ disturbed' = IF DevOf[f] \in registry THEN disturbed ELSE disturbed \cup {f}
    /\ UNCHANGED <<srvVars, resps, peer, nonce, err, creds, rebinds>>

Fail(f, e) ==
    /\ st' = [st EXCEPT ![f] = "failed"]
    /\ err' = [err EXCEPT ![f] = e]
    /\ timer' = [timer EXCEPT ![f] = 0] /\ attempt' = [attempt EXCEPT ![f] = 0]
    /\ UNCHANGED <<srvVars, reqs, resps, disturbed, peer, nonce, creds, rebinds>>

\* Mutant: a datagram that does not match is not counted as an attempt.
RetryFree(f) ==
    /\ Attempt(f, SeqOf(f), nonce[f], attempt[f])
    /\ UNCHANGED <<srvVars, resps, disturbed, st, peer, nonce, err, creds, rebinds>>

\* Mutant: one attempt too many.
RetryOneMore(f) ==
    IF attempt[f] <= MaxRetries
    THEN /\ Attempt(f, SeqOf(f), nonce[f], attempt[f] + 1)
         /\ UNCHANGED <<srvVars, resps, disturbed, st, peer, nonce, err, creds, rebinds>>
    ELSE Fail(f, "NO_ANSWER")

\* The next attempt, or the end of the budget.
Retry(f) ==
    IF attempt[f] < MaxRetries
    THEN /\ Attempt(f, SeqOf(f), nonce[f], attempt[f] + 1)
         /\ UNCHANGED <<srvVars, resps, disturbed, st, peer, nonce, err, creds, rebinds>>
    ELSE Fail(f, "NO_ANSWER")

\* recv times out.
TimedOut(f) == Waiting(f) /\ timer[f] = 0 /\ Retry(f)

\* A datagram of the other request.
Stray(f, r) == Waiting(f) /\ r.f = f /\ r.seq # SeqOf(f) /\ Retry(f)

Matches(f, r) == Waiting(f) /\ r.f = f /\ r.seq = SeqOf(f)

\* PKT_ERROR ends the run.
ErrorReply(f, r) == Matches(f, r) /\ r.code \in Error /\ Fail(f, r.code)

\* The first answer is verified, and the third packet built from its nonce.
Proceed(f, r) ==
    /\ st' = [st EXCEPT ![f] = "third"]
    /\ nonce' = [nonce EXCEPT ![f] = r.nonce]
    /\ Attempt(f, 1, r.nonce, 0)
    /\ UNCHANGED <<srvVars, resps, disturbed, peer, err, creds, rebinds>>

Setup2(f, r) == Matches(f, r) /\ r.code = "SETUP_2" /\ Proceed(f, r)
Auth2(f, r) == Matches(f, r) /\ r.code = "AUTH_2" /\ Proceed(f, r)

Done(f) ==
    /\ st' = [st EXCEPT ![f] = "ok"]
    /\ timer' = [timer EXCEPT ![f] = 0] /\ attempt' = [attempt EXCEPT ![f] = 0]
    /\ UNCHANGED <<srvVars, reqs, resps, disturbed, peer, nonce, err, rebinds>>

\* The server key is pinned at the very end, which may fail.
SetupAck(f, r) ==
    /\ Matches(f, r) /\ r.code = "SETUP_ACK"
    /\ \/ Done(f) /\ creds' = [creds EXCEPT ![DevOf[f]] = [root |-> TRUE, pin |-> TRUE]]
       \/ Fail(f, "CLIENT_STORAGE")

AuthAck(f, r) == Matches(f, r) /\ r.code = "AUTH_ACK" /\ Done(f) /\ UNCHANGED creds

\* The client's address changes while it waits.
Rebind(f) ==
    /\ Waiting(f) /\ rebinds < MaxRebinds
    /\ rebinds' = rebinds + 1
    /\ \E p \in Peer \ {peer[f]} : peer' = [peer EXCEPT ![f] = p]
    /\ disturbed' = disturbed \cup {f}
    /\ UNCHANGED <<srvVars, reqs, resps, st, attempt, timer, nonce, err, creds>>

\* The client process is killed: for the server, it stops answering.
ClientCrash(f) == Waiting(f) /\ Fail(f, "NO_ANSWER")

\* Time passes, but not past the end of a timeout.
Tick ==
    /\ \E f \in Flow : Waiting(f)
    /\ \A f \in Flow : Waiting(f) => timer[f] > 0
    /\ timer' = [f \in Flow |-> IF Waiting(f) THEN timer[f] - 1 ELSE 0]
    /\ AgeServer
    /\ UNCHANGED <<st, attempt, peer, nonce, err, creds, rebinds>>

Client(f) ==
    \/ SetupNeedsPin(f) \/ StartSetup(f) \/ StartAuth(f) \/ TimedOut(f) \/ Rebind(f) \/ ClientCrash(f)
    \/ \E r \in resps : \/ Stray(f, r) \/ ErrorReply(f, r)
                         \/ Setup2(f, r) \/ SetupAck(f, r)
                         \/ Auth2(f, r) \/ AuthAck(f, r)

Server ==
    /\ \/ \E m \in reqs : Dispatch(m) \/ CrashAfterSave(m)
       \/ IdleGc
       \/ Restart
    /\ UNCHANGED clVars

Next == Server \/ Tick \/ (\E f \in Flow : Client(f)) \/ (\E d \in Dev : Pin(d))

Spec == SysInit /\ [][Next]_vars

\* A client that waits is woken at the end of its timeout, and time passes.
FairSpec == Spec /\ WF_vars(Tick) /\ \A f \in Flow : WF_vars(TimedOut(f))

-----------------------------------------------------------------------------
\* Shape of the state.
TypeOK ==
    /\ registry \subseteq Dev /\ disk \subseteq Dev /\ dirty \in BOOLEAN
    /\ setup \in [Flow -> 0..MaxNonce] /\ auth \in [Flow -> 0..MaxNonce]
    /\ cache \in [Flow \X Seqno -> Entry]
    /\ replay.set \subseteq Flow /\ replay.order \in Seq(Flow) /\ replay.cap = ReplayCap
    /\ gcAge \in 0..GcPeriod
    /\ opened \in [Flow -> 0..MaxNonce]
    /\ \A m \in reqs : /\ m.f \in Flow /\ m.seq \in Seqno /\ m.nonce \in 0..MaxNonce
                       /\ m.peer \in Peer /\ m.age \in 0..Delay+1
    /\ resps \subseteq Resp
    /\ restarts \in 0..MaxRestarts
    /\ accepted \in Seq(Flow) /\ finished \subseteq Flow \X (0..MaxNonce)
    /\ disturbed \subseteq Flow
    /\ st \in [Flow -> Status] /\ attempt \in [Flow -> 0..MaxRetries]
    /\ timer \in [Flow -> Nat]
    /\ \A f \in Flow : timer[f] <= IF Waiting(f) THEN Timeout(attempt[f]) ELSE 0
    /\ peer \in [Flow -> Peer] /\ nonce \in [Flow -> 0..MaxNonce] /\ err \in [Flow -> Outcome]
    /\ creds \in [Dev -> [root : BOOLEAN, pin : BOOLEAN]] /\ rebinds \in 0..MaxRebinds

\* When an enrolment run ends well its device is in registry.bin, and so is
\* every device that was, or may still be, sent SETUP_ACK, from a handler or
\* from the response cache; a map that is not dirty is the map on disk
\* (fs.rs:322).
EnrolledIsDurable ==
    /\ \A f \in Flow : Kind[f] = "SETUP" /\ st[f] = "ok" => DevOf[f] \in disk
    /\ \A r \in resps : r.code = "SETUP_ACK" => DevOf[r.f] \in disk
    /\ \A f \in Flow : cache[<<f, 1>>].code = "SETUP_ACK" => DevOf[f] \in disk
    /\ disk \subseteq registry
    /\ ~dirty => disk = registry

\* Key confirmation binds the two ends: the server confirms a session only
\* with the client that derived its key, a client that ends well shares the
\* key of a session the server confirmed, and no run confirms two keys
\* (auth.rs:324).
KeyAgreement ==
    /\ \A x \in finished : nonce[x[1]] = x[2] /\ st[x[1]] \in {"third", "ok", "failed"}
    /\ \A f \in Flow : Kind[f] = "AUTH" /\ st[f] = "ok" => <<f, nonce[f]>> \in finished

\* The same AUTH_1 is accepted again only after ReplayCap other acceptances, though
\* it arrives from several addresses, and after its response has left the
\* cache (auth.rs:200, 312).
AcceptOncePerWindow ==
    \A i, j \in 1..Len(accepted) : (i < j /\ accepted[i] = accepted[j]) => j - i > ReplayCap

\* wire-spec.md, 9.4: the response cache makes retries safe.  A run of a
\* paired and permitted device, enrolled by the time it authenticates, is
\* refused only if it met a fault: a server restart, an eviction, a failed
\* save, a change of address, or a copy of a request that was under way for
\* longer than Delay, the slack that the session TTL leaves over the client's
\* retries.
NoSpuriousFailure ==
    \A f \in Flow \ disturbed :
        /\ Kind[f] = "SETUP" => f \in Paired
        /\ DevOf[f] \in Permitted
        => err[f] \notin Error

\* Every client run ends: timeouts and stray datagrams use up the attempts.
RunEnds == \A f \in Flow : Waiting(f) ~> ~Waiting(f)

-----------------------------------------------------------------------------
(* Parts of the inductive invariant.                                       *)

\* What a response that was sent or is cached says of the disk D and the
\* confirmed sessions F.
AnswerOK(D, F, f, seq, code) ==
    /\ code = "SETUP_ACK" => Kind[f] = "SETUP" /\ DevOf[f] \in D
    /\ code = "AUTH_ACK" => Kind[f] = "AUTH" /\ \E n \in 0..MaxNonce : <<f, n>> \in F
    /\ code \in {"SETUP_2", "AUTH_2"} => seq = 0
AnswersInv ==
    /\ \A r \in resps : AnswerOK(disk, finished, r.f, r.seq, r.code)
    /\ \A f \in Flow, s \in Seqno : AnswerOK(disk, finished, f, s, cache[<<f, s>>].code)

\* A third packet was built from the answer its run went on with.
RequestsInv ==
    \A m \in reqs :
        /\ st[m.f] # "idle"
        /\ m.seq = 1 => nonce[m.f] = m.nonce /\ st[m.f] \in {"third", "ok", "failed"}

SysInv ==
    /\ TypeOK /\ EnrolledIsDurable /\ KeyAgreement /\ AnswersInv /\ RequestsInv
    /\ DequeTracks(replay, accepted, Flow, ReplayCap) /\ AcceptOncePerWindow

\* A run that NoSpuriousFailure speaks of.
Calm(f) == f \notin disturbed /\ (Kind[f] = "SETUP" => f \in Paired) /\ DevOf[f] \in Permitted

\* The server has not seen the run's first request.
Unseen(f) ==
    /\ opened[f] = 0 /\ f \notin replay.set /\ st[f] \notin {"third", "ok"}
    /\ \A s \in Seqno : cache[<<f, s>>].code = "NONE"
    /\ \A r \in resps : r.f # f
    /\ \A m \in reqs : m.f = f => m.seq = 0

\* The response to request s is in the cache, and young enough to stay there
\* until the last copy of the request that is not late has arrived.
WillRetry(f, s) == Waiting(f) /\ SeqOf(f) = s /\ attempt[f] < MaxRetries
Answered(f, s) ==
    /\ WillRetry(f, s) => /\ cache[<<f, s>>].code # "NONE"
                          /\ cache[<<f, s>>].age + timer[f] <= SendSpan[attempt[f] + 1]
    /\ \A m \in reqs : m.f = f /\ m.seq = s /\ m.age <= Delay =>
          /\ cache[<<f, s>>].code # "NONE"
          /\ \E a \in 0..MaxRetries : cache[<<f, s>>].age <= SendSpan[a] + m.age

\* The server has answered the first request, once, and has the session until
\* it has answered the third.
Session(f) == IF Kind[f] = "SETUP" THEN setup[f] ELSE auth[f]
Seen(f) ==
    /\ opened[f] = 1 /\ st[f] # "idle" /\ Answered(f, 0)
    /\ Session(f) = 1 \/ (st[f] \in {"third", "ok", "failed"} /\ Answered(f, 1))

\* No response to the run is an error, all of them are for its address, and
\* they are about one session.
Unharmed(f) ==
    /\ err[f] \notin Error
    /\ \A r \in resps : r.f = f => r.code \notin Error /\ (r.seq = 0 => r.nonce = 1)
    /\ \A s \in Seqno : /\ cache[<<f, s>>].code \notin Error
                        /\ cache[<<f, s>>].code # "NONE" =>
                              cache[<<f, s>>].peer = peer[f] /\ (s = 0 => cache[<<f, s>>].nonce = 1)
    /\ \A m \in reqs : m.f = f => m.peer = peer[f] /\ (m.seq = 1 => m.nonce = 1)
    /\ st[f] = "third" => nonce[f] = 1
    /\ Kind[f] = "AUTH" /\ st[f] # "idle" => DevOf[f] \in registry

OnCourse(f) == Unharmed(f) /\ (Unseen(f) \/ Seen(f))
CalmInv == \A f \in Flow : Calm(f) => OnCourse(f)
=============================================================================
