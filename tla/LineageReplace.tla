--------------------------- MODULE LineageReplace ---------------------------
(***************************************************************************)
(* The LINEAGE_REPLACE decisions (c/src/proto/lineage_replace*.c): pure    *)
(* classifiers of normalized facts.  A struct of bools is the set of the   *)
(* members that are true, and a classifier that walks its members in order *)
(* and returns at the first false one is a table of <<member, rejection>>  *)
(* pairs: the order of the table is the order of the early returns.  A     *)
(* byte string that is only compared is a number, 0 being all zero bytes;  *)
(* scope_bits is a set of bits.  Enumerators keep their names without the  *)
(* LINEAGE_REPLACE_ prefix.  A NULL argument is the empty set of facts.    *)
(***************************************************************************)
EXTENDS Naturals, Sequences

\* The rejection of the first check whose member is not set.
FirstReject(checks, facts, accept) ==
    LET missing == {i \in DOMAIN checks : checks[i][1] \notin facts}
    IN  IF missing = {} THEN accept
        ELSE checks[CHOOSE i \in missing : \A j \in missing : i <= j][2]

Flags(checks) == {checks[i][1] : i \in DOMAIN checks}

-----------------------------------------------------------------------------
\* Who may replace: possession, session, authorization context.

AuthorizationChecks == <<
    <<"current_credential_control_valid", "REJECT_CURRENT_CREDENTIAL_CONTROL">>,
    <<"successor_key_control_valid", "REJECT_SUCCESSOR_KEY_CONTROL">>,
    <<"current_session_authenticated", "REJECT_SESSION_AUTHENTICATION">>,
    <<"current_session_authorized", "REJECT_SESSION_AUTHORIZATION">>,
    <<"current_context_bound", "REJECT_CONTEXT_BINDING">>,
    <<"predecessor_binding_current", "REJECT_PREDECESSOR_BINDING">>,
    <<"successor_scope_within_authorized_scope", "REJECT_PRIVILEGE_EXPANSION">> >>

ClassifyAuthorization(facts) ==
    FirstReject(AuthorizationChecks, facts, "AUTHORIZED_REPLACEMENT")

SessionChecks == <<
    <<"auth_completion_verified", "SESSION_REJECT_COMPLETION">>,
    <<"protocol_version", "SESSION_REJECT_VERSION">>,
    <<"suite_id", "SESSION_REJECT_SUITE">>,
    <<"profile_id", "SESSION_REJECT_PROFILE">>,
    <<"session_id", "SESSION_REJECT_SESSION_ID">>,
    <<"authz_context_hash", "SESSION_REJECT_AUTHZ_CONTEXT">>,
    <<"channel_binding_hash", "SESSION_REJECT_CHANNEL_BINDING">> >>

\* The AUTH v3 context of the session against what the caller expects of it.
SessionFields == Flags(SessionChecks) \ {"auth_completion_verified"}
ClassifySessionBinding(context, expected, completed) ==
    FirstReject(SessionChecks,
                {f \in SessionFields : context[f] = expected[f]} \cup
                {f \in {"auth_completion_verified"} : completed}, "SESSION_BOUND")

\* A verified lifecycle proof counts for one session and one subject only.
Proof == [valid : BOOLEAN, session_id : Nat, subject : Nat]
ProofBound(proof, sid, subject) ==
    proof.valid /\ proof.session_id = sid /\ proof.subject = subject

\* Mutant: the successor proof is not tied to the session.
ClassifyPossessionAnySession(current, successor, sid, credential, key) ==
    IF ~ProofBound(current, sid, credential) THEN "REJECT_CURRENT_CREDENTIAL_CONTROL"
    ELSE IF ~ProofBound(successor, successor.session_id, key) THEN "REJECT_SUCCESSOR_KEY_CONTROL"
    ELSE "POSSESSION_VERIFIED"

ClassifyPossession(current, successor, sid, credential, key) ==
    IF ~ProofBound(current, sid, credential) THEN "REJECT_CURRENT_CREDENTIAL_CONTROL"
    ELSE IF ~ProofBound(successor, sid, key) THEN "REJECT_SUCCESSOR_KEY_CONTROL"
    ELSE "POSSESSION_VERIFIED"

\* The members an attribution record repeats from its authorization context.
ContextFields == {"holder_binding", "audience_id", "role_policy_id", "scope_bits",
                  "authorization_generation", "policy_epoch", "revocation_epoch"}

\* context_shape_valid: every member set, and the one scope of this profile.
ContextShapeValid(ctx) ==
    /\ ctx["scope_bits"] = {"SECURE_ASSOCIATION"}
    /\ \A f \in ContextFields \ {"scope_bits"} : ctx[f] # 0

\* facts: the members established by the caller's evidence.
AuthorizationFromIotCore(ctx, attribution, evidence, facts) ==
    LET contextMatch == \A f \in ContextFields : attribution[f] = ctx[f]
        scope == evidence.requested_successor_scope_bits
        derived ==
            {f \in {"current_session_authorized"} : contextMatch} \cup
            {f \in {"current_context_bound"} :
                contextMatch /\ attribution["peer_identity"] = evidence.expected_peer_identity} \cup
            {f \in {"predecessor_binding_current"} :
                /\ attribution["credential_reference"] = evidence.predecessor_credential_reference
                /\ attribution["authorization_generation"] = ctx["authorization_generation"]} \cup
            {f \in {"successor_scope_within_authorized_scope"} :
                scope # {} /\ scope \subseteq ctx["scope_bits"]}
    IN  ClassifyAuthorization(IF ContextShapeValid(ctx) THEN facts \cup derived ELSE facts)

\* The session counts as authenticated when the AUTH v3 context is the expected one.
AuthorizationFromBoundIotCore(req, control) ==
    AuthorizationFromIotCore(req.authz, req.attribution, req.evidence,
        control \cup {f \in {"current_session_authenticated"} :
            ClassifySessionBinding(req.session, req.expected, req.completed) = "SESSION_BOUND"})

AuthorizationFromVerifiedBoundIotCore(req) ==
    LET possession == ClassifyPossession(req.evidence.current_proof, req.evidence.successor_proof,
                          req.expected["session_id"],
                          req.evidence.predecessor_credential_reference,
                          req.evidence.successor_key_reference)
    IN  IF possession # "POSSESSION_VERIFIED" THEN possession
        ELSE AuthorizationFromBoundIotCore(req,
                 {"current_credential_control_valid", "successor_key_control_valid"})

-----------------------------------------------------------------------------
\* Whether to replace: the facts of the moment, and the storage adapter's.

Triggers == {"LIFECYCLE", "RESTART", "TRANSPORT_CHANGE", "AUTH"}

DecisionChecks == <<
    <<"trigger_lifecycle", "REJECT_AUTHORITY">>,
    <<"authority_valid", "REJECT_AUTHORITY">>,
    <<"predecessor_valid", "REJECT_PREDECESSOR">>,
    <<"successor_valid", "REJECT_SUCCESSOR">>,
    <<"context_valid", "REJECT_CONTEXT">>,
    <<"dependent_state_safe", "REJECT_CONTEXT">>,
    <<"freshness_valid", "REJECT_FRESHNESS">>,
    <<"replay_free", "REJECT_REPLAY">>,
    <<"concurrent_free", "REJECT_CONCURRENT">>,
    <<"rollback_clear", "REJECT_ROLLBACK">>,
    <<"storage_safe", "REJECT_STORAGE">> >>

FactFlags == Flags(DecisionChecks) \ {"trigger_lifecycle"}

Evaluate(trigger, facts) ==
    FirstReject(DecisionChecks,
                facts \cup {f \in {"trigger_lifecycle"} : trigger = "LIFECYCLE"},
                "ACCEPT_SUCCESSOR")

\* What the caller says of its authority is replaced by the decision above.
EvaluateAuthorized(authorization, trigger, facts) ==
    Evaluate(trigger, (facts \ {"authority_valid"}) \cup
        {f \in {"authority_valid"} : authorization = "AUTHORIZED_REPLACEMENT"})

PlanFlags == {"retire_predecessor", "activate_successor", "invalidate_session_keys",
              "invalidate_resumption", "invalidate_authorization_cache",
              "invalidate_attribution_cache", "invalidate_channel_binding",
              "invalidate_replay_state"}

\* lineage_replace_plan: the empty plan goes with a false result.
Plan(decision) == IF decision = "ACCEPT_SUCCESSOR" THEN PlanFlags ELSE {}
PlanComplete(plan) == PlanFlags \subseteq plan

\* lineage_replace_execute_verified_bound_iot_core_commit up to the storage
\* transaction; what the transaction returns decides the rest (LineagePair).
VerifiedCommit(req) ==
    LET authorization == AuthorizationFromVerifiedBoundIotCore(req)
        decision == EvaluateAuthorized(authorization, req.trigger, req.facts)
    IN  IF authorization # "AUTHORIZED_REPLACEMENT" THEN "REJECT_AUTHORIZATION"
        ELSE IF decision # "ACCEPT_SUCCESSOR" THEN "REJECT_DECISION"
        ELSE IF ~PlanComplete(Plan(decision)) THEN "REJECT_PLAN"
        ELSE "EXECUTE_STORAGE"

-----------------------------------------------------------------------------
\* The state of one peer, and how a restart finds it in storage.

States == {"ACTIVE_PREDECESSOR", "REPLACEMENT_PENDING",
           "ACTIVE_SUCCESSOR_PREDECESSOR_RETIRED", "CONTINUITY_BROKEN"}

\* lineage_replace_advance; a refused event leaves the state as it is.
Advance(state, event, plan) ==
    CASE state = "ACTIVE_PREDECESSOR" /\ event = "BEGIN" /\ PlanComplete(plan)
            -> "REPLACEMENT_PENDING"
      [] state = "REPLACEMENT_PENDING" /\ event = "COMMIT" /\ PlanComplete(plan)
            -> "ACTIVE_SUCCESSOR_PREDECESSOR_RETIRED"
      [] state = "REPLACEMENT_PENDING" /\ event = "INTERRUPT"
            -> "CONTINUITY_BROKEN"
      [] OTHER -> state

\* The five writes of the storage transaction and what each makes durable.
TransactionSteps == <<"PERSIST_PENDING", "ACTIVATE_SUCCESSOR", "RETIRE_PREDECESSOR",
                      "INVALIDATE_DEPENDENT_STATE", "CLEAR_PENDING">>
AfterStep(step, flags) ==
    CASE step = "PERSIST_PENDING" -> flags \cup {"replacement_pending"}
      [] step = "ACTIVATE_SUCCESSOR" -> flags \cup {"successor_active"}
      [] step = "RETIRE_PREDECESSOR" ->
            (flags \ {"predecessor_active"}) \cup {"predecessor_retired"}
      [] step = "INVALIDATE_DEPENDENT_STATE" -> flags \cup {"invalidations_complete"}
      [] step = "CLEAR_PENDING" -> flags \ {"replacement_pending"}

\* Mutant: the predecessor is retired before the successor is active.
FactsAtWriteCutRetireFirst(n) ==
    CASE n = 0 -> {"predecessor_active"}
      [] n = 1 -> {"predecessor_active", "replacement_pending"}
      [] n = 2 -> {"predecessor_retired", "replacement_pending"}
      [] n = 3 -> {"replacement_pending", "successor_active", "predecessor_retired"}
      [] n = 4 -> {"replacement_pending", "successor_active", "predecessor_retired",
                   "invalidations_complete"}
      [] n = 5 -> {"successor_active", "predecessor_retired", "invalidations_complete"}

\* lineage_replace_facts_at_write_cut: the record as a cut after n writes leaves it.
FactsAtWriteCut(n) ==
    CASE n = 0 -> {"predecessor_active"}
      [] n = 1 -> {"predecessor_active", "replacement_pending"}
      [] n = 2 -> {"predecessor_active", "replacement_pending", "successor_active"}
      [] n = 3 -> {"replacement_pending", "successor_active", "predecessor_retired"}
      [] n = 4 -> {"replacement_pending", "successor_active", "predecessor_retired",
                   "invalidations_complete"}
      [] n = 5 -> {"successor_active", "predecessor_retired", "invalidations_complete"}

RecoveryFlags == {"predecessor_active", "replacement_pending", "successor_active",
                  "predecessor_retired", "invalidations_complete"}

Recover(integrity, flags) ==
    CASE integrity /\ flags = {"predecessor_active"} -> "ACTIVE_PREDECESSOR"
      [] integrity /\ flags = {"successor_active", "predecessor_retired",
                               "invalidations_complete"}
            -> "ACTIVE_SUCCESSOR_PREDECESSOR_RETIRED"
      [] OTHER -> "CONTINUITY_BROKEN"

AnchorChecks == <<
    <<"anchor_integrity_valid", "ANCHOR_INVALID">>,
    <<"anchor_available", "ANCHOR_UNAVAILABLE">>,
    <<"anchor_binding_valid", "BINDING_MISMATCH">> >>

ClassifyFreshness(anchorFacts, generation, highWater) ==
    FirstReject(AnchorChecks, anchorFacts,
                CASE generation < highWater -> "ROLLBACK_DETECTED"
                  [] generation > highWater -> "GENERATION_AHEAD"
                  [] OTHER -> "CURRENT")

\* Mutant: a record ahead of its anchor or behind it is recovered as it stands.
RecoverStale(integrity, flags, anchorFacts, generation, highWater) ==
    IF ClassifyFreshness(anchorFacts, generation, highWater) \notin
           {"CURRENT", "ROLLBACK_DETECTED"}
    THEN "CONTINUITY_BROKEN" ELSE Recover(integrity, flags)

RecoverWithFreshness(integrity, flags, anchorFacts, generation, highWater) ==
    IF ClassifyFreshness(anchorFacts, generation, highWater) # "CURRENT"
    THEN "CONTINUITY_BROKEN" ELSE Recover(integrity, flags)

-----------------------------------------------------------------------------
\* The two peers of an association.

AttemptChecks == <<
    <<"local_authorized", "ATTEMPT_UNAUTHORIZED">>,
    <<"peer_authorized", "ATTEMPT_UNAUTHORIZED">>,
    <<"same_attempt", "ATTEMPT_ID_MISMATCH">>,
    <<"same_predecessor_generation", "ATTEMPT_PREDECESSOR_MISMATCH">>,
    <<"same_successor", "ATTEMPT_SUCCESSOR_MISMATCH">>,
    <<"same_context", "ATTEMPT_CONTEXT_MISMATCH">>,
    <<"local_confirmation_bound", "ATTEMPT_AWAITING_CONFIRMATION">>,
    <<"peer_confirmation_bound", "ATTEMPT_AWAITING_CONFIRMATION">> >>

\* Mutant: the confirmations are not awaited.
ClassifyAttemptUnconfirmed(facts) ==
    FirstReject(SubSeq(AttemptChecks, 1, 6), facts, "ATTEMPT_CONVERGED")

ClassifyAttempt(facts) == FirstReject(AttemptChecks, facts, "ATTEMPT_CONVERGED")

ConvergenceChecks == <<
    <<"local_authorized", "UNAUTHORIZED">>, <<"peer_authorized", "UNAUTHORIZED">>,
    <<"same_successor", "SUCCESSOR_CONFLICT">>,
    <<"local_confirmed", "AWAITING_CONFIRMATION">>,
    <<"peer_confirmed", "AWAITING_CONFIRMATION">> >>

ClassifyConvergence(facts) == FirstReject(ConvergenceChecks, facts, "CONVERGED")

\* Attempt identifiers as the two sides know them; 0 is the unset one.
ClassifyAttemptEvidence(local, peer, localConfirmed, peerConfirmed) ==
    IF local = 0 \/ peer = 0 THEN "MISSING_CURRENT_ATTEMPT"
    ELSE IF local # peer THEN "ATTEMPT_MISMATCH"
    ELSE IF localConfirmed # local THEN "LOCAL_CONFIRMATION_MISSING"
    ELSE IF peerConfirmed # peer THEN "PEER_CONFIRMATION_MISSING"
    ELSE "FRESH_CURRENT_ATTEMPT"

PairDecisions == {"PAIR_SUCCESSOR_READY", "PAIR_PREDECESSOR_READY", "RECONCILIATION_REQUIRED",
                  "SUCCESSOR_DIVERGENCE", "PAIR_CONTINUITY_BROKEN"}

\* Mutant: two different successors are not compared.
ClassifyReconciliationAnyWinner(states, converged, sameSuccessor) ==
    CASE "CONTINUITY_BROKEN" \in states -> "PAIR_CONTINUITY_BROKEN"
      [] states = {"ACTIVE_SUCCESSOR_PREDECESSOR_RETIRED"} /\ converged = "both"
            -> "PAIR_SUCCESSOR_READY"
      [] states = {"ACTIVE_PREDECESSOR"} /\ converged = "none" -> "PAIR_PREDECESSOR_READY"
      [] OTHER -> "RECONCILIATION_REQUIRED"
\* Mutant: one side's classification is enough.
ClassifyReconciliationOneSided(states, converged, sameSuccessor) ==
    CASE "CONTINUITY_BROKEN" \in states -> "PAIR_CONTINUITY_BROKEN"
      [] states = {"ACTIVE_SUCCESSOR_PREDECESSOR_RETIRED"} ->
            IF ~sameSuccessor THEN "SUCCESSOR_DIVERGENCE"
            ELSE IF converged # "none" THEN "PAIR_SUCCESSOR_READY"
            ELSE "RECONCILIATION_REQUIRED"
      [] states = {"ACTIVE_PREDECESSOR"} /\ converged = "none" -> "PAIR_PREDECESSOR_READY"
      [] OTHER -> "RECONCILIATION_REQUIRED"

\* states: the states of the two sides; converged: whether no, one or both
\* sides classify the attempt as CONVERGED.  Both are symmetric in the sides.
ClassifyReconciliation(states, converged, sameSuccessor) ==
    CASE "CONTINUITY_BROKEN" \in states -> "PAIR_CONTINUITY_BROKEN"
      [] states = {"ACTIVE_SUCCESSOR_PREDECESSOR_RETIRED"} ->
            IF ~sameSuccessor THEN "SUCCESSOR_DIVERGENCE"
            ELSE IF converged = "both" THEN "PAIR_SUCCESSOR_READY"
            ELSE "RECONCILIATION_REQUIRED"
      [] states = {"ACTIVE_PREDECESSOR"} /\ converged = "none" -> "PAIR_PREDECESSOR_READY"
      [] OTHER -> "RECONCILIATION_REQUIRED"

Transitions == {"HOLD", "ACTIVATE_SUCCESSOR", "RESUME_PREDECESSOR", "REJECT_DIVERGENCE",
                "RECONCILIATION_CONTINUITY_BROKEN"}

\* Mutant: only the current decision counts as broken.
ClassifyTransitionForgets(prior, current, evidence, cleanRetry) ==
    LET unresolved == prior \in {"RECONCILIATION_REQUIRED", "PAIR_CONTINUITY_BROKEN"}
                      \/ (prior = "SUCCESSOR_DIVERGENCE" /\ cleanRetry)
    IN  IF current = "PAIR_CONTINUITY_BROKEN" THEN "RECONCILIATION_CONTINUITY_BROKEN"
        ELSE IF current = "SUCCESSOR_DIVERGENCE" THEN "REJECT_DIVERGENCE"
        ELSE IF current = "PAIR_PREDECESSOR_READY" /\ unresolved THEN "RESUME_PREDECESSOR"
        ELSE "HOLD"

ClassifyTransition(prior, current, evidence, cleanRetry) ==
    LET unresolved == prior = "RECONCILIATION_REQUIRED"
                      \/ (prior = "SUCCESSOR_DIVERGENCE" /\ cleanRetry)
    IN  IF "PAIR_CONTINUITY_BROKEN" \in {prior, current} THEN "RECONCILIATION_CONTINUITY_BROKEN"
        ELSE IF current = "SUCCESSOR_DIVERGENCE"
                \/ (prior = "SUCCESSOR_DIVERGENCE" /\ ~cleanRetry) THEN "REJECT_DIVERGENCE"
        ELSE IF current = "PAIR_SUCCESSOR_READY"
                /\ (prior = current \/ (evidence = "FRESH_CURRENT_ATTEMPT" /\ unresolved))
             THEN "ACTIVATE_SUCCESSOR"
        ELSE IF current = "PAIR_PREDECESSOR_READY" /\ (prior = current \/ unresolved)
             THEN "RESUME_PREDECESSOR"
        ELSE "HOLD"
=============================================================================
