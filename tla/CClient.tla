------------------------------ MODULE CClient -------------------------------
(***************************************************************************)
(* The C client (c/bin/client.c over the client half of c/src/proto/       *)
(* proto.c) and the C server.  Every run of the client is a process with   *)
(* its own socket and random session id, the run's number here; it sends   *)
(* two packets, each at most twice, and takes the first datagram that      *)
(* arrives on its socket as the answer.  UDP delivers what the client sent *)
(* any number of times, at any later time; an answer reaches the socket of *)
(* its own run, in any order, or not before the 5 seconds are over.        *)
(***************************************************************************)
EXTENDS CServer

CONSTANTS
    MaxRuns,   \* bound on the runs of the client
    Attempts   \* N_ATTEMPTS: 2 on UDP, 1 on TCP

\* A run that finds no credentials.bin creates a device, named after the run.
ASSUME RunAssumption ==
    /\ MaxRuns \in Nat /\ Attempts \in Nat \ {0}
    /\ 1..MaxRuns \subseteq Dev \ Enrolled(Disk0) /\ Key = 1..MaxRuns
    /\ Opening = [t : {"SETUP_1"}, sid : 1..MaxRuns, dev : 1..MaxRuns, key : {NoKey}] \cup
                 UNION {[t : {"AUTH_1"}, sid : {r}, dev : 1..MaxRuns, key : {r}] : r \in 1..MaxRuns}

VARIABLES
    run,     \* number of the current or last run
    stage,   \* "idle", or the packet whose answer the run awaits
    tries,   \* attempts of send_then_recv so far
    open,    \* the run's opening packet
    nonce,   \* the server nonce taken from SETUP_2 or AUTH_2
    creds,   \* credentials.bin: its device, or NoDev when there is no file
    sent,    \* packets on their way to the server
    inbox,   \* datagrams on their way to the run's socket
    done     \* history: the runs that reported success

clientVars == <<run, stage, tries, open, nonce, creds, sent, inbox, done>>
allVars == <<vars, clientVars>>

Failure == [code |-> "ERROR", nonce |-> 0]
ThirdPacket == [t |-> stage, open |-> open, nonce |-> nonce]

ClientInit ==
    /\ Init
    /\ run = 0 /\ stage = "idle" /\ tries = 0 /\ open = NoOpen /\ nonce = 0
    /\ creds = NoDev /\ sent = {} /\ inbox = {} /\ done = {}

-----------------------------------------------------------------------------
\* send_then_recv: the first attempt sends the packet.
Send(pkt, st) == stage' = st /\ tries' = 1 /\ sent' = sent \cup {pkt}

\* do_setup and do_auth up to their first packet.
StartSetup ==
    /\ stage = "idle" /\ run < MaxRuns
    /\ run' = run + 1 /\ nonce' = 0 /\ inbox' = {}
    /\ open' = [t |-> "SETUP_1", sid |-> run + 1,
                dev |-> IF creds = NoDev THEN run + 1 ELSE creds, key |-> NoKey]
    /\ Send(open', "SETUP_1")
    /\ UNCHANGED <<creds, done>>
StartAuth ==
    /\ stage = "idle" /\ run < MaxRuns /\ creds # NoDev
    /\ run' = run + 1 /\ nonce' = 0 /\ inbox' = {}
    /\ open' = [t |-> "AUTH_1", sid |-> run + 1, dev |-> creds, key |-> run + 1]
    /\ Send(open', "AUTH_1")
    /\ UNCHANGED <<creds, done>>

\* The run ends; its socket is closed.
End == stage' = "idle" /\ tries' = 0 /\ inbox' = {} /\ UNCHANGED <<run, open, nonce, sent>>

\* auth_client_handle_setup2 and auth_client_handle_auth2 on the first
\* datagram: the answer is for this client nonce, so its proof and its tag
\* verify.  A first contact without --allow-tofu-setup is a mismatch.
HandleSecond(m, tofu) ==
    /\ stage \in {"SETUP_1", "AUTH_1"} /\ m \in inbox
    /\ IF \/ m.code # (IF stage = "SETUP_1" THEN "SETUP_2" ELSE "AUTH_2")
          \/ stage = "SETUP_1" /\ creds = NoDev /\ ~tofu
       THEN End /\ UNCHANGED <<creds, done>>
       ELSE /\ nonce' = m.nonce /\ inbox' = inbox \ {m}
            /\ LET st == IF stage = "SETUP_1" THEN "SETUP_3" ELSE "AUTH_3"
               IN  Send([t |-> st, open |-> open, nonce |-> m.nonce], st)
            /\ UNCHANGED <<run, open, creds, done>>

\* auth_client_handle_setup_ack, then auth_creds_save, which may fail; the
\* acknowledgement carries nothing that is checked.
HandleSetupAck(m) ==
    /\ stage = "SETUP_3" /\ m \in inbox
    /\ End
    /\ \/ m.code = "SETUP_ACK" /\ creds' = open.dev /\ done' = done \cup {run}
       \/ UNCHANGED <<creds, done>>

\* Mutant: any answer counts as the acknowledgement.
HandleAuthAckAny(m) ==
    /\ stage = "AUTH_3" /\ m \in inbox
    /\ End
    /\ done' = done \cup {run}
    /\ UNCHANGED creds

\* auth_client_handle_auth_ack.
HandleAuthAck(m) ==
    /\ stage = "AUTH_3" /\ m \in inbox
    /\ End
    /\ done' = IF m.code = "AUTH_ACK" THEN done \cup {run} ELSE done
    /\ UNCHANGED creds

\* Mutant: the attempts are not counted.
TimeoutForever ==
    /\ stage # "idle"
    /\ UNCHANGED clientVars

\* Nothing arrived in time: send again, or give up.
Timeout ==
    /\ stage # "idle"
    /\ IF tries < Attempts
       THEN /\ tries' = tries + 1
            /\ UNCHANGED <<run, stage, open, nonce, sent, inbox>>
       ELSE End
    /\ UNCHANGED <<creds, done>>

\* The client process is killed.
ClientCrash == stage # "idle" /\ End /\ UNCHANGED <<creds, done>>

ClientStep ==
    \/ \E m \in inbox : \/ \E tofu \in BOOLEAN : HandleSecond(m, tofu)
                        \/ HandleSetupAck(m) \/ HandleAuthAck(m)
    \/ Timeout

-----------------------------------------------------------------------------
\* The answer to packet p goes to the socket of its run, if that is still open.
Emit(p, ms) == inbox' = IF stage # "idle" /\ SidOf(p) = run THEN inbox \cup ms ELSE inbox

ServerReceive(w) ==
    \E p \in sent :
        \/ (TooManyActive(w, p) \/ UnknownSession(w, p)) /\ Emit(p, {Failure})
        \/ (Reserve(w, p) \/ Find(w, p)) /\ UNCHANGED inbox
ServerStep(w) ==
    /\ Step(w)
    /\ IF pc'[w] # "idle" THEN UNCHANGED inbox
       ELSE IF replies' = replies THEN Emit(job[w].pkt, {Failure})
       ELSE Emit(job[w].pkt, {[code |-> r.code, nonce |-> r.nonce] : r \in replies' \ replies})

ClientNext ==
    \/ /\ StartSetup \/ StartAuth \/ ClientStep \/ ClientCrash
       /\ UNCHANGED vars
    \/ \E w \in Worker : /\ ServerReceive(w) \/ ServerStep(w)
                         /\ UNCHANGED <<run, stage, tries, open, nonce, creds, sent, done>>
    \/ /\ Restart \/ \E w \in Worker : CrashAfterSave(w)
       /\ UNCHANGED clientVars
    \/ stage = "idle" /\ run = MaxRuns /\ Drained /\ UNCHANGED clientVars

ClientSpec == ClientInit /\ [][ClientNext]_allVars

\* poll returns after 5 seconds at the latest, and nothing else in a run waits.
\* A server thread that has a packet keeps running: nothing in dispatch blocks
\* except on the two mutexes, which are held for one bounded section at a time.
ClientFairSpec ==
    /\ ClientSpec
    /\ WF_allVars(ClientStep /\ UNCHANGED vars)
    /\ \A w \in Worker :
          WF_allVars(ServerStep(w) /\ UNCHANGED <<run, stage, tries, open, nonce, creds, sent, done>>)

-----------------------------------------------------------------------------
\* Types of the client's state.
ClientTypeOK ==
    /\ run \in 0..MaxRuns /\ tries \in 0..Attempts /\ nonce \in Nat
    /\ stage \in {"idle", "SETUP_1", "SETUP_3", "AUTH_1", "AUTH_3"}
    /\ open \in Opening \cup {NoOpen} /\ creds \in Dev \cup {NoDev}
    /\ sent \subseteq Packet /\ done \subseteq 1..MaxRuns
    /\ inbox \subseteq [code : Answer \cup {"ERROR"}, nonce : Nat]

\* The device in credentials.bin is in the server's registry.bin, whatever was
\* lost, repeated, late or cut off on either side: do_setup saves only after a
\* SETUP_ACK, and the server sends that after auth_registry_save.
SavedIsEnrolled == creds # NoDev => creds \in Enrolled(disk) /\ creds \in Enrolled(registry)

\* A run that reported success was acknowledged by the server for exactly its
\* opening packet and the server nonce it had verified, although neither
\* handle_setup_ack nor handle_auth_ack checks the session id or a tag.
DoneIsAcknowledged ==
    run \in done =>
        \E r \in replies : /\ r.code \in {"SETUP_ACK", "AUTH_ACK"}
                           /\ r.to.open = open /\ r.to.nonce = nonce

\* The server acknowledges a run at most once, so that repeated, late and
\* reordered packets, and a restart that empties the replay cache, never give
\* one run two sessions.
OneAckPerRun ==
    \A r, s \in replies :
        r.code = "AUTH_ACK" /\ s.code = "AUTH_ACK" /\ r.to.open.sid = s.to.open.sid => r = s

\* Every run of the client ends (do_setup, do_auth).
RunEnds == stage # "idle" ~> stage = "idle"

-----------------------------------------------------------------------------
(* Parts of the inductive invariant.                                       *)

\* The run's opening packet and the place in do_setup or do_auth agree.
StageInv ==
    /\ stage # "idle" => open \in Opening /\ open.sid = run /\ run \notin done
    /\ stage \in {"SETUP_1", "SETUP_3"} => open.t = "SETUP_1"
    /\ stage \in {"AUTH_1", "AUTH_3"} => open.t = "AUTH_1"
    /\ done \subseteq 1..run /\ creds \in 1..MaxRuns \cup {NoDev}

\* A run has sent one opening packet and at most one third packet, which is
\* over the server nonce it keeps; nothing of a later run is on its way.
Thirds == {p \in sent : p.t \in {"SETUP_3", "AUTH_3"}}
SentInv ==
    /\ sent \subseteq InFlight
    /\ \A p \in sent : SidOf(p) \in 1..run
    /\ \A p \in sent \ Thirds : p.sid = run => p = open
    /\ \A p \in Thirds : SidOf(p) = run =>
          stage \notin {"SETUP_1", "AUTH_1"} /\ p.open = open /\ p.nonce = nonce
    /\ \A p, q \in Thirds : SidOf(p) = SidOf(q) => p = q

\* The server works on and answers only what was sent, and what is on its way
\* to the run's socket answers the run.
WorkInv == \A w \in Worker : pc[w] # "idle" => job[w].pkt \in sent
AnswerInv ==
    /\ \A r \in replies : r.to \in sent
    /\ \A m \in inbox : m.code # "ERROR" =>
          /\ stage # "idle"
          /\ \E r \in replies : r.code = m.code /\ r.nonce = m.nonce /\ SidOf(r.to) = run

\* A saved device was acknowledged.
CredsInv == creds # NoDev =>
    \E r \in replies : r.code = "SETUP_ACK" /\ r.to.open.dev = creds

ClientInv ==
    /\ ClientTypeOK /\ StageInv /\ SentInv /\ WorkInv /\ AnswerInv /\ CredsInv
    /\ DoneIsAcknowledged
=============================================================================
