----------------------------- MODULE LineagePair ----------------------------
(***************************************************************************)
(* Two peers that replace their shared lineage with the LINEAGE_REPLACE    *)
(* decisions.  Each peer has a durable record, written by the five steps   *)
(* of the storage transaction through the adapter's apply callback, and an *)
(* external freshness anchor with the highest record generation.  What the *)
(* peer knows of the current attempt (the attempt, who confirmed it, the   *)
(* last classification) is volatile.  A peer may crash between any two     *)
(* writes, tear one, and come back to an older authenticated record.  The  *)
(* owner of the pair keeps a prior decision and asks the transition        *)
(* classifier whether the pair may use a lineage.                          *)
(*                                                                         *)
(* The adapter and the owner are not in c/src: they are modelled from the  *)
(* storage_apply callback, the facts the classifiers take and the event    *)
(* handlers of c/tests/test_lineage_replace_*.c.                           *)
(***************************************************************************)
EXTENDS LineageReplace

CONSTANTS
    Peer,         \* the two ends of the association
    Attempt,      \* attempts as a peer may be told of them
    Request,      \* the evidence a peer may be asked to commit on
    MaxCrashes,   \* bound on the crashes of working peers
    MaxRetries,   \* bound on the enrolments of peers after a divergence
    LatchLost     \* TRUE: the owner keeps a verdict of loss as prior; FALSE: prior
                  \* is the previous pair decision, as the transition contract has it

Other(p) == CHOOSE q \in Peer : q # p
NoAttempt == [id |-> 0, generation |-> 0, successor |-> 0, context |-> 0]
AttemptFields == [id : Nat, generation : Nat, successor : Nat, context : Nat]

ASSUME AttemptAssumption ==
    Attempt \subseteq {a \in AttemptFields : a.id # 0 /\ a.successor # 0}
\* The facts and the two session contexts are structs of their own members.
ASSUME RequestAssumption ==
    \A req \in Request : /\ {req.session, req.expected} \subseteq [SessionFields -> Nat]
                         /\ req.facts \subseteq FactFlags
ASSUME PeerAssumption == \E p, q \in Peer : p # q /\ Peer = {p, q}
ASSUME BoundsAssumption == MaxCrashes \in Nat /\ MaxRetries \in Nat
ASSUME LatchAssumption == LatchLost \in BOOLEAN

VARIABLES
    rec,        \* per peer: the durable record
    old,        \* per peer: the authenticated record before the last replacement
    anchor,     \* per peer: trusted_high_water_generation
    state,      \* per peer: lineage_replace_state_t, or DOWN
    tx,         \* per peer: the next transaction step (0: none) and its successor
    attempt,    \* per peer: the current attempt
    confirmed,  \* per peer: the attempt its confirmation is bound to
    converged,  \* the peers whose last attempt classification was CONVERGED
    entitled,   \* history: the peers whose last commit request was Entitled
    prior,      \* the decision the owner keeps for the next evaluation
    use,        \* the lineage the pair may use
    retry,      \* an explicit clean retry was authorized
    lost,       \* history: "broken" once an evaluation found a broken peer,
                \* "diverged" from two different successors to the next retry
    faults      \* [crashes, retries] so far

durable == <<rec, old, anchor>>
volatile == <<attempt, confirmed, converged>>
pair == <<prior, use, retry, lost>>
vars == <<durable, state, tx, volatile, entitled, pair, faults>>

\* lineage_replace_attempt_facts_t as peer p sees it; authorized are the peers
\* whose request the authorization classifier accepts at that moment.
AttemptFacts(p, authorized) ==
    LET q == Other(p)
        Same(f) == attempt[p][f] = attempt[q][f]
    IN  {f \in {"local_authorized"} : p \in authorized} \cup
        {f \in {"peer_authorized"} : q \in authorized} \cup
        {f \in {"same_attempt"} : Same("id") /\ attempt[p].id # 0} \cup
        {f \in {"same_predecessor_generation"} : Same("generation")} \cup
        {f \in {"same_successor"} : Same("successor")} \cup
        {f \in {"same_context"} : Same("context")} \cup
        {f \in {"local_confirmation_bound"} : confirmed[p] = attempt[p].id} \cup
        {f \in {"peer_confirmation_bound"} : confirmed[q] = attempt[q].id}

Local == CHOOSE p \in Peer : TRUE
Evidence == ClassifyAttemptEvidence(attempt[Local].id, attempt[Other(Local)].id,
                                    confirmed[Local], confirmed[Other(Local)])
SameSuccessor == \A p, q \in Peer : rec[p].successor = rec[q].successor
PairDecision == ClassifyReconciliation({state[p] : p \in Peer},
                    IF converged = {} THEN "none" ELSE IF converged = Peer THEN "both" ELSE "one",
                    SameSuccessor)

PristineRecord(gen) ==
    [flags |-> FactsAtWriteCut(0), successor |-> 0, generation |-> gen, integrity |-> TRUE]

Init ==
    /\ rec = [p \in Peer |-> PristineRecord(0)] /\ old = rec
    /\ anchor = [p \in Peer |-> 0]
    /\ state = [p \in Peer |-> "ACTIVE_PREDECESSOR"]
    /\ tx = [p \in Peer |-> [step |-> 0, successor |-> 0]]
    /\ attempt = [p \in Peer |-> NoAttempt]
    /\ confirmed = [p \in Peer |-> 0]
    /\ converged = {}
    /\ entitled = {}
    /\ prior = "PAIR_PREDECESSOR_READY" /\ use = "predecessor" /\ retry = FALSE /\ lost = "no"
    /\ faults = [crashes |-> 0, retries |-> 0]

Up(p) == state[p] # "DOWN"
NoTx == [step |-> 0, successor |-> 0]

-----------------------------------------------------------------------------
\* Volatile attempt state (the L, P, LC, PC, X events of the tests).

\* A different attempt clears the confirmation of the last one.
Observe(p, a) ==
    /\ Up(p) /\ attempt[p].id # a.id
    /\ attempt' = [attempt EXCEPT ![p] = a]
    /\ confirmed' = [confirmed EXCEPT ![p] = 0]
    /\ converged' = converged \ {p}
    /\ UNCHANGED <<durable, state, tx, entitled, pair, faults>>

\* A confirmation of any other attempt is ignored.
Confirm(p, id) ==
    /\ Up(p) /\ id # 0 /\ attempt[p].id = id
    /\ confirmed' = [confirmed EXCEPT ![p] = id]
    /\ UNCHANGED <<durable, state, tx, attempt, converged, entitled, pair, faults>>

Classify(p, authorized) ==
    /\ Up(p) /\ \A q \in Peer : attempt[q].id # 0
    /\ converged' = IF ClassifyAttempt(AttemptFacts(p, authorized)) = "ATTEMPT_CONVERGED"
                    THEN converged \cup {p} ELSE converged \ {p}
    /\ UNCHANGED <<durable, state, tx, attempt, confirmed, entitled, pair, faults>>

-----------------------------------------------------------------------------
\* The commit of one peer and the writes of its transaction.

\* What a request must say: stated here once as a whole, and decided in the
\* code by five functions, each on its own part.
Entitled(req) ==
    /\ req.trigger = "LIFECYCLE"
    /\ FactFlags \ {"authority_valid"} \subseteq req.facts
    /\ req.completed /\ req.session = req.expected
    /\ \A pr \in {req.evidence.current_proof, req.evidence.successor_proof} :
            pr.valid /\ pr.session_id = req.session["session_id"]
    /\ req.evidence.current_proof.subject = req.attribution["credential_reference"]
    /\ req.evidence.successor_proof.subject = req.evidence.successor_key_reference
    /\ \A f \in ContextFields : req.attribution[f] = req.authz[f]
    /\ \A f \in ContextFields \ {"scope_bits"} : req.authz[f] # 0
    /\ req.attribution["peer_identity"] = req.evidence.expected_peer_identity
    /\ {"SECURE_ASSOCIATION"} = req.evidence.requested_successor_scope_bits
    /\ {"SECURE_ASSOCIATION"} = req.authz["scope_bits"]

\* A request that does not reach the storage transaction changes nothing.
Executed == {req \in Request : VerifiedCommit(req) = "EXECUTE_STORAGE"}
Begin(p, req) ==
    /\ state[p] = "ACTIVE_PREDECESSOR" /\ tx[p] = NoTx /\ attempt[p].id # 0
    /\ state' = [state EXCEPT ![p] = Advance(state[p], "BEGIN", PlanFlags)]
    /\ tx' = [tx EXCEPT ![p] = [step |-> 1, successor |-> attempt[p].successor]]
    /\ old' = [old EXCEPT ![p] = rec[p]]
    /\ entitled' = IF Entitled(req) THEN entitled \cup {p} ELSE entitled \ {p}
    /\ use' = "none"
    /\ UNCHANGED <<rec, anchor, volatile, prior, retry, lost, faults>>

Written(p) ==
    LET step == TransactionSteps[tx[p].step]
    IN  [rec[p] EXCEPT !.flags = AfterStep(step, @),
                       !.generation = IF step = "PERSIST_PENDING" THEN @ + 1 ELSE @,
                       !.successor = IF step = "ACTIVATE_SUCCESSOR" THEN tx[p].successor ELSE @]

\* PERSIST_PENDING is two writes of the adapter, in either order: the record
\* with its new generation, and the anchor.
RecordPending(p) == rec[p].generation = old[p].generation
AnchorPending(p) == anchor[p] = old[p].generation
PersistRecord(p) ==
    /\ tx[p].step = 1 /\ RecordPending(p)
    /\ rec' = [rec EXCEPT ![p] = Written(p)]
    /\ tx' = [tx EXCEPT ![p].step = IF AnchorPending(p) THEN 1 ELSE 2]
    /\ UNCHANGED <<old, anchor, state, volatile, entitled, pair, faults>>
AdvanceAnchor(p) ==
    /\ tx[p].step = 1 /\ AnchorPending(p)
    /\ anchor' = [anchor EXCEPT ![p] = @ + 1]
    /\ tx' = [tx EXCEPT ![p].step = IF RecordPending(p) THEN 1 ELSE 2]
    /\ UNCHANGED <<rec, old, state, volatile, entitled, pair, faults>>

\* Mutant: the last step does not end the transaction.
ApplyStepEndless(p) ==
    /\ tx[p].step \in 2..5
    /\ rec' = [rec EXCEPT ![p] = Written(p)]
    /\ tx' = [tx EXCEPT ![p].step = @ + 1]
    /\ UNCHANGED <<old, anchor, state, volatile, entitled, pair, faults>>

\* The later steps; the commit returns after the last one.
ApplyStep(p) ==
    /\ tx[p].step \in 2..5
    /\ rec' = [rec EXCEPT ![p] = Written(p)]
    /\ IF tx[p].step = 5
       THEN /\ tx' = [tx EXCEPT ![p] = NoTx]
            /\ state' = [state EXCEPT ![p] = Advance(state[p], "COMMIT", PlanFlags)]
       ELSE /\ tx' = [tx EXCEPT ![p].step = @ + 1]
            /\ UNCHANGED state
    /\ UNCHANGED <<old, anchor, volatile, entitled, pair, faults>>

\* apply returns false, with or without its write: the transaction stops where
\* it is (FAIL_PENDING .. FAIL_CLEAR, STORAGE_FAILED).
ApplyFails(p) ==
    /\ tx[p].step # 0
    /\ \/ UNCHANGED rec
       \/ tx[p].step > 1 /\ rec' = [rec EXCEPT ![p] = Written(p)]
    /\ state' = [state EXCEPT ![p] = Advance(state[p], "INTERRUPT", PlanFlags)]
    /\ tx' = [tx EXCEPT ![p] = NoTx]
    /\ UNCHANGED <<old, anchor, volatile, entitled, pair, faults>>

-----------------------------------------------------------------------------
\* Faults and restarts.

Forget(p) ==
    /\ attempt' = [attempt EXCEPT ![p] = NoAttempt]
    /\ confirmed' = [confirmed EXCEPT ![p] = 0]
    /\ converged' = converged \ {p}

\* A crash in the middle of a write may tear the record.
Crash(p) ==
    /\ Up(p) /\ (faults.crashes < MaxCrashes \/ state[p] = "CONTINUITY_BROKEN")
    /\ \/ UNCHANGED rec
       \/ tx[p].step # 0 /\ rec' = [rec EXCEPT ![p].integrity = FALSE]
    /\ state' = [state EXCEPT ![p] = "DOWN"]
    /\ tx' = [tx EXCEPT ![p] = NoTx]
    /\ Forget(p)
    /\ use' = "none"
    /\ faults' = [faults EXCEPT !.crashes = IF @ < MaxCrashes THEN @ + 1 ELSE @]
    /\ UNCHANGED <<old, anchor, entitled, prior, retry, lost>>

\* While the peer is down its store is restored from an older snapshot; the
\* anchor is out of reach.
Rollback(p) ==
    /\ ~Up(p) /\ rec[p] # old[p]
    /\ rec' = [rec EXCEPT ![p] = old[p]]
    /\ UNCHANGED <<old, anchor, state, tx, volatile, entitled, pair, faults>>

Restart(p, anchorFacts) ==
    /\ ~Up(p)
    /\ state' = [state EXCEPT ![p] = RecoverWithFreshness(rec[p].integrity, rec[p].flags,
                                         anchorFacts, rec[p].generation, anchor[p])]
    /\ UNCHANGED <<durable, tx, volatile, entitled, pair, faults>>

-----------------------------------------------------------------------------
\* The pair.

\* What the owner hands to the next evaluation after t: the pair decision it
\* has just made, and with LatchLost the loss the classifier reported.
NextPrior(t) ==
    IF LatchLost /\ t = "REJECT_DIVERGENCE" THEN "SUCCESSOR_DIVERGENCE"
    ELSE IF LatchLost /\ t = "RECONCILIATION_CONTINUITY_BROKEN" THEN "PAIR_CONTINUITY_BROKEN"
    ELSE PairDecision

\* One evaluation by the owner.
Reconcile ==
    /\ (\A p \in Peer : Up(p))
    /\ LET t == ClassifyTransition(prior, PairDecision, Evidence, retry)
       IN  /\ use' = CASE t = "ACTIVATE_SUCCESSOR" -> "successor"
                       [] t = "RESUME_PREDECESSOR" -> "predecessor"
                       [] OTHER -> "none"
           /\ prior' = NextPrior(t)
    /\ retry' = FALSE
    /\ lost' = CASE lost = "broken" \/ PairDecision = "PAIR_CONTINUITY_BROKEN" -> "broken"
                 [] lost # "broken" /\ PairDecision = "SUCCESSOR_DIVERGENCE" -> "diverged"
                 [] OTHER -> lost
    /\ UNCHANGED <<durable, state, tx, volatile, entitled, faults>>

\* After a divergence some peers are enrolled again, out of band.  Only when that
\* is an explicitly authorized clean retry (event X) is all attempt evidence
\* dropped and the next evaluation told.
Reenrol(again, authorized) ==
    LET cleared == IF authorized THEN Peer ELSE again
    IN  /\ again # {} \/ authorized
        /\ \A p \in Peer : state[p] = "ACTIVE_SUCCESSOR_PREDECESSOR_RETIRED"
        /\ prior = "SUCCESSOR_DIVERGENCE" /\ faults.retries < MaxRetries
        /\ attempt' = [p \in Peer |-> IF p \in cleared THEN NoAttempt ELSE attempt[p]]
        /\ confirmed' = [p \in Peer |-> IF p \in cleared THEN 0 ELSE confirmed[p]]
        /\ converged' = converged \ cleared
        /\ rec' = [p \in Peer |-> IF p \in again THEN PristineRecord(anchor[p] + 1) ELSE rec[p]]
        /\ old' = [p \in Peer |-> IF p \in again THEN rec[p] ELSE old[p]]
        /\ anchor' = [p \in Peer |-> IF p \in again THEN anchor[p] + 1 ELSE anchor[p]]
        /\ state' = [p \in Peer |-> IF p \in again THEN "ACTIVE_PREDECESSOR" ELSE state[p]]
        /\ retry' = (retry \/ authorized) /\ faults' = [faults EXCEPT !.retries = @ + 1]
        /\ lost' = IF authorized /\ lost = "diverged" THEN "no" ELSE lost
        /\ UNCHANGED <<tx, entitled, prior, use>>

Next ==
    \/ \E p \in Peer :
        \/ \E a \in Attempt : Observe(p, a) \/ Confirm(p, a.id)
        \/ \E req \in Executed : Begin(p, req)
        \/ \E s \in {Peer, {p}} : Classify(p, s)
        \/ PersistRecord(p) \/ AdvanceAnchor(p) \/ ApplyStep(p) \/ ApplyFails(p)
        \/ Crash(p) \/ Rollback(p)
        \/ \E f \in Flags(AnchorChecks) : Restart(p, Flags(AnchorChecks) \ {f})
        \/ Restart(p, Flags(AnchorChecks))
    \/ Reconcile
    \/ \E again \in SUBSET Peer, authorized \in BOOLEAN : Reenrol(again, authorized)

Spec == Init /\ [][Next]_vars
-----------------------------------------------------------------------------
\* Types of the pair's state.
TypeOK ==
    /\ \A r \in {rec, old} :
        r \in [Peer -> [flags : SUBSET RecoveryFlags, successor : Nat,
                        generation : Nat, integrity : BOOLEAN]]
    /\ anchor \in [Peer -> Nat]
    /\ state \in [Peer -> States \cup {"DOWN"}]
    /\ tx \in [Peer -> [step : 0..5, successor : Nat]]
    /\ attempt \in [Peer -> Attempt \cup {NoAttempt}]
    /\ confirmed \in [Peer -> Nat]
    /\ converged \subseteq Peer
    /\ entitled \subseteq Peer
    /\ prior \in PairDecisions
    /\ use \in {"none", "predecessor", "successor"} /\ retry \in BOOLEAN
    /\ lost \in {"no", "broken", "diverged"}
    /\ faults \in [crashes : Nat, retries : Nat]

\* The record and its generation agree with one of the two stable endpoints.
Pristine(p) ==
    rec[p].integrity /\ rec[p].flags = FactsAtWriteCut(0) /\ rec[p].generation = anchor[p]
Committed(p) ==
    rec[p].integrity /\ rec[p].flags = FactsAtWriteCut(5) /\ rec[p].generation = anchor[p]

\* A peer is on a lineage only when its storage says so, currently: a peer cut
\* between two of the five writes, with a torn record, with a record and an
\* anchor of different generations or with a restored old record is never
\* taken for one that has the predecessor or the successor
\* (lineage_replace_recover_with_freshness after any
\* lineage_replace_execute_storage_transaction).
StableRecovery ==
    \A p \in Peer :
        /\ state[p] = "ACTIVE_PREDECESSOR" => Pristine(p)
        /\ state[p] = "ACTIVE_SUCCESSOR_PREDECESSOR_RETIRED" => Committed(p)

\* The storage transaction leaves the record at one of the write cuts the
\* fault model of lineage_replace_facts_at_write_cut declares, whatever step
\* fails or is interrupted, and a peer on the successor has the successor of
\* an attempt it was told of.
DeclaredCuts ==
    \A p \in Peer :
        /\ \E n \in 0..5 : rec[p].flags = FactsAtWriteCut(n)
        /\ Committed(p) => \E a \in Attempt : a.successor = rec[p].successor

\* Nothing of a replacement is durable unless the request that began it was
\* right in every part: trigger, facts, session, possession proofs,
\* attribution and scope (lineage_replace_execute_verified_bound_iot_core_commit).
EntitledWrites ==
    \A p \in Peer : rec[p].flags # FactsAtWriteCut(0) => p \in entitled

\* While the pair uses the successor both peers durably have it, the same one;
\* while it uses the predecessor neither peer has given it up
\* (lineage_replace_classify_reconciliation and ..._transition).
PairUse ==
    /\ use = "successor" =>
        /\ \A p \in Peer : Committed(p)
        /\ SameSuccessor
    /\ use = "predecessor" => \A p \in Peer : Pristine(p)

\* When both peers say CONVERGED the attempt evidence is fresh and the
\* convergence classifier agrees: neither peer has changed its attempt or lost
\* its confirmation since (lineage_replace_classify_attempt,
\* ..._attempt_evidence and ..._convergence).
ConvergenceFacts ==
    {"local_authorized", "peer_authorized"} \cup
    {f \in {"same_successor"} : \A p, q \in Peer : attempt[p].successor = attempt[q].successor} \cup
    {f \in {"local_confirmed", "peer_confirmed"} : \A p \in Peer : confirmed[p] = attempt[p].id}
ConvergedIsCurrent ==
    converged = Peer =>
        Evidence = "FRESH_CURRENT_ATTEMPT" /\ ClassifyConvergence(ConvergenceFacts) = "CONVERGED"

\* Rule 1 of the transition contract over a run of evaluations: a pair that one
\* evaluation found broken is never used again, whatever its peers recover to
\* later (lineage_replace_classify_reconciliation_transition, prior BROKEN).
BrokenStaysUnused == lost = "broken" => use = "none"

\* Rule 3 of the transition contract over a run of evaluations: a pair found on
\* two successors is not used before an explicit clean retry
\* (lineage_replace_classify_reconciliation_transition, prior DIVERGENCE).
DivergedStaysUnused == lost = "diverged" => use = "none"

\* Both rules.  The classifier looks one evaluation back, so this is what an
\* owner that keeps the reported loss as prior gets from it; an owner that hands
\* over the previous pair decision does not.
LostPair == BrokenStaysUnused /\ DivergedStaysUnused

\* The pair starts to use the successor only with both peers committed to the
\* same one and both holding a confirmation of the same current attempt
\* (lineage_replace_classify_reconciliation_transition).
EarnedUse ==
    [][use' = "successor" /\ use # "successor" =>
            /\ \A p \in Peer : Committed(p) /\ confirmed[p] = attempt[p].id /\ confirmed[p] # 0
            /\ SameSuccessor /\ \A p, q \in Peer : attempt[p] = attempt[q]]_vars

-----------------------------------------------------------------------------
(* Parts of the inductive invariant.                                       *)

\* A record of peer p, in storage or in a snapshot, is at a write cut; beyond
\* the first one p was entitled to write it, and it names a known successor.
RecordOK(r, p) ==
    /\ \E n \in 0..5 : r.flags = FactsAtWriteCut(n)
    /\ r.flags # FactsAtWriteCut(0) => p \in entitled
    /\ "successor_active" \in r.flags => \E a \in Attempt : a.successor = r.successor
RecordInv == \A p \in Peer : RecordOK(rec[p], p) /\ RecordOK(old[p], p)

\* Where a transaction has got to: the record and the anchor in every step.
TxOK(p) ==
    /\ tx[p].step # 0 <=> state[p] = "REPLACEMENT_PENDING"
    /\ tx[p].step # 0 => /\ p \in entitled /\ rec[p].integrity
                         /\ \E a \in Attempt : a.successor = tx[p].successor
    /\ tx[p].step = 1 =>
          /\ RecordPending(p) \/ rec[p].generation = old[p].generation + 1
          /\ AnchorPending(p) \/ anchor[p] = old[p].generation + 1
          /\ RecordPending(p) \/ AnchorPending(p)
          /\ rec[p].flags = FactsAtWriteCut(IF RecordPending(p) THEN 0 ELSE 1)
    /\ tx[p].step \in 2..5 =>
          rec[p].flags = FactsAtWriteCut(tx[p].step - 1) /\ rec[p].generation = anchor[p]
TxInv == \A p \in Peer : TxOK(p)

\* What the pair uses, against the peers' states and the last decision.
UseInv ==
    /\ use = "successor" =>
          SameSuccessor /\ \A p \in Peer : state[p] = "ACTIVE_SUCCESSOR_PREDECESSOR_RETIRED"
    /\ use = "predecessor" => \A p \in Peer : state[p] = "ACTIVE_PREDECESSOR"
    /\ prior = "SUCCESSOR_DIVERGENCE" => use = "none"
    /\ LatchLost => (lost = "broken" <=> prior = "PAIR_CONTINUITY_BROKEN")
    /\ LatchLost => (lost = "diverged" => prior = "SUCCESSOR_DIVERGENCE" /\ ~retry)

\* With an owner that keeps a loss, the pair's use respects it.
LatchedPair == LatchLost => LostPair

\* Both peers say CONVERGED only of one attempt that both hold confirmed.
ConvergedInv ==
    converged = Peer =>
        \A p, q \in Peer : /\ attempt[p] = attempt[q] /\ attempt[p].id # 0
                           /\ confirmed[p] = attempt[p].id

PairInv ==
    /\ TypeOK /\ StableRecovery /\ RecordInv /\ TxInv
    /\ UseInv /\ LatchedPair /\ ConvergedInv
=============================================================================
