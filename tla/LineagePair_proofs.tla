-------------------------- MODULE LineagePair_proofs -------------------------
(***************************************************************************)
(* The replacement of a lineage by two peers, for every set of attempts    *)
(* and of requests and every number of crashes and retries.                *)
(***************************************************************************)
EXTENDS LineagePair, TLAPS, WellFoundedInduction

-----------------------------------------------------------------------------
(* The tables of checks.                                                   *)

\* A set of naturals that is not empty has a least member.
LEMMA LeastMember ==
    ASSUME NEW S, S \subseteq Nat, S # {}
    PROVE  \E i \in S : \A j \in S : i <= j
<1>1. PICK x \in S : \A y \in S : ~(<<y, x>> \in OpToRel(<, Nat))
    BY WFMin, NatLessThanWellFounded
<1>2. \A y \in S : ~(y < x)
    BY <1>1 DEF OpToRel
<1> QED BY <1>2

\* A table of checks accepts exactly the facts that set every member of it
\* (the early returns of the classifiers in c/src/proto/lineage_replace*.c).
LEMMA FirstRejectAccepts ==
    ASSUME NEW checks, NEW facts, NEW accept,
           DOMAIN checks \subseteq Nat,
           \A i \in DOMAIN checks : checks[i][2] # accept
    PROVE  FirstReject(checks, facts, accept) = accept <=> Flags(checks) \subseteq facts
<1> DEFINE missing == {i \in DOMAIN checks : checks[i][1] \notin facts}
           first == CHOOSE i \in missing : \A j \in missing : i <= j
<1>1. CASE missing = {}
    BY <1>1 DEF FirstReject, Flags
<1>2. CASE missing # {}
  <2>1. first \in missing
      BY <1>2, LeastMember
  <2>2. FirstReject(checks, facts, accept) = checks[first][2]
      BY <1>2 DEF FirstReject
  <2>3. checks[first][2] # accept
      BY <2>1
  <2>4. ~(Flags(checks) \subseteq facts)
      BY <2>1 DEF Flags
  <2> QED BY <2>2, <2>3, <2>4
<1> QED BY <1>1, <1>2

\* lineage_replace_evaluate accepts on all its facts only.
LEMMA DecisionAccepts ==
    ASSUME NEW facts
    PROVE  FirstReject(DecisionChecks, facts, "ACCEPT_SUCCESSOR") = "ACCEPT_SUCCESSOR"
              <=> Flags(DecisionChecks) \subseteq facts
<1>1. DOMAIN DecisionChecks = 1..11
    BY DEF DecisionChecks
<1>2. \A i \in 1..11 : DecisionChecks[i][2] # "ACCEPT_SUCCESSOR"
    BY DEF DecisionChecks
<1> QED BY <1>1, <1>2, FirstRejectAccepts

\* lineage_replace_classify_authorization accepts on all its facts only.
LEMMA AuthorizationAccepts ==
    ASSUME NEW facts
    PROVE  ClassifyAuthorization(facts) = "AUTHORIZED_REPLACEMENT"
              <=> Flags(AuthorizationChecks) \subseteq facts
<1>1. DOMAIN AuthorizationChecks = 1..7
    BY DEF AuthorizationChecks
<1>2. \A i \in 1..7 : AuthorizationChecks[i][2] # "AUTHORIZED_REPLACEMENT"
    BY DEF AuthorizationChecks
<1> QED BY <1>1, <1>2, FirstRejectAccepts DEF ClassifyAuthorization

\* lineage_replace_classify_session_binding accepts on all its facts only.
LEMMA SessionAccepts ==
    ASSUME NEW facts
    PROVE  FirstReject(SessionChecks, facts, "SESSION_BOUND") = "SESSION_BOUND"
              <=> Flags(SessionChecks) \subseteq facts
<1>1. DOMAIN SessionChecks = 1..7
    BY DEF SessionChecks
<1>2. \A i \in 1..7 : SessionChecks[i][2] # "SESSION_BOUND"
    BY DEF SessionChecks
<1> QED BY <1>1, <1>2, FirstRejectAccepts

\* lineage_replace_classify_attempt accepts on all its facts only.
LEMMA AttemptAccepts ==
    ASSUME NEW facts
    PROVE  ClassifyAttempt(facts) = "ATTEMPT_CONVERGED" <=> Flags(AttemptChecks) \subseteq facts
<1>1. DOMAIN AttemptChecks = 1..8
    BY DEF AttemptChecks
<1>2. \A i \in 1..8 : AttemptChecks[i][2] # "ATTEMPT_CONVERGED"
    BY DEF AttemptChecks
<1> QED BY <1>1, <1>2, FirstRejectAccepts DEF ClassifyAttempt

\* lineage_replace_classify_convergence accepts on all its facts only.
LEMMA ConvergenceAccepts ==
    ASSUME NEW facts
    PROVE  ClassifyConvergence(facts) = "CONVERGED" <=> Flags(ConvergenceChecks) \subseteq facts
<1>1. DOMAIN ConvergenceChecks = 1..5
    BY DEF ConvergenceChecks
<1>2. \A i \in 1..5 : ConvergenceChecks[i][2] # "CONVERGED"
    BY DEF ConvergenceChecks
<1> QED BY <1>1, <1>2, FirstRejectAccepts DEF ClassifyConvergence

\* The members of the tables.
LEMMA TableFlags ==
    /\ Flags(AuthorizationChecks) =
         {"current_credential_control_valid", "successor_key_control_valid",
          "current_session_authenticated", "current_session_authorized",
          "current_context_bound", "predecessor_binding_current",
          "successor_scope_within_authorized_scope"}
    /\ Flags(SessionChecks) =
         {"auth_completion_verified", "protocol_version", "suite_id", "profile_id",
          "session_id", "authz_context_hash", "channel_binding_hash"}
    /\ Flags(AttemptChecks) =
         {"local_authorized", "peer_authorized", "same_attempt", "same_predecessor_generation",
          "same_successor", "same_context", "local_confirmation_bound",
          "peer_confirmation_bound"}
    /\ Flags(ConvergenceChecks) =
         {"local_authorized", "peer_authorized", "same_successor", "local_confirmed",
          "peer_confirmed"}
    /\ {"trigger_lifecycle", "authority_valid"} \subseteq Flags(DecisionChecks)
<1>1. DOMAIN AuthorizationChecks = 1..7 /\ DOMAIN SessionChecks = 1..7
      /\ DOMAIN AttemptChecks = 1..8 /\ DOMAIN ConvergenceChecks = 1..5
      /\ DOMAIN DecisionChecks = 1..11
    BY DEF AuthorizationChecks, SessionChecks, AttemptChecks, ConvergenceChecks, DecisionChecks
<1>2. /\ 1..5 = {1,2,3,4,5} /\ 1..7 = {1,2,3,4,5,6,7} /\ 1..8 = {1,2,3,4,5,6,7,8}
    OBVIOUS
<1>3. Flags(AuthorizationChecks) = {AuthorizationChecks[i][1] : i \in {1,2,3,4,5,6,7}}
    BY <1>1, <1>2 DEF Flags
<1>4. Flags(SessionChecks) = {SessionChecks[i][1] : i \in {1,2,3,4,5,6,7}}
    BY <1>1, <1>2 DEF Flags
<1>5. Flags(AttemptChecks) = {AttemptChecks[i][1] : i \in {1,2,3,4,5,6,7,8}}
    BY <1>1, <1>2 DEF Flags
<1>6. Flags(ConvergenceChecks) = {ConvergenceChecks[i][1] : i \in {1,2,3,4,5}}
    BY <1>1, <1>2 DEF Flags
<1>7. {"trigger_lifecycle", "authority_valid"} \subseteq Flags(DecisionChecks)
  <2>1. DecisionChecks[1][1] = "trigger_lifecycle" /\ DecisionChecks[2][1] = "authority_valid"
      BY DEF DecisionChecks
  <2>2. 1 \in DOMAIN DecisionChecks /\ 2 \in DOMAIN DecisionChecks
      BY <1>1
  <2> QED BY <2>1, <2>2 DEF Flags
<1>8. Flags(AuthorizationChecks) =
         {"current_credential_control_valid", "successor_key_control_valid",
          "current_session_authenticated", "current_session_authorized",
          "current_context_bound", "predecessor_binding_current",
          "successor_scope_within_authorized_scope"}
    BY <1>3 DEF AuthorizationChecks
<1>9. Flags(SessionChecks) =
         {"auth_completion_verified", "protocol_version", "suite_id", "profile_id",
          "session_id", "authz_context_hash", "channel_binding_hash"}
    BY <1>4 DEF SessionChecks
<1>10. Flags(AttemptChecks) =
         {"local_authorized", "peer_authorized", "same_attempt", "same_predecessor_generation",
          "same_successor", "same_context", "local_confirmation_bound",
          "peer_confirmation_bound"}
    BY <1>5 DEF AttemptChecks
<1>11. Flags(ConvergenceChecks) =
         {"local_authorized", "peer_authorized", "same_successor", "local_confirmed",
          "peer_confirmed"}
    BY <1>6 DEF ConvergenceChecks
<1> QED BY <1>7, <1>8, <1>9, <1>10, <1>11

-----------------------------------------------------------------------------
(* The request.                                                            *)

\* A session context that the binding accepts is the expected one, of a
\* verified completion (lineage_replace_classify_session_binding).
LEMMA SessionIsExpected ==
    ASSUME NEW context \in [SessionFields -> Nat], NEW expected \in [SessionFields -> Nat],
           NEW completed,
           ClassifySessionBinding(context, expected, completed) = "SESSION_BOUND"
    PROVE  completed /\ context = expected
<1> DEFINE facts == {f \in SessionFields : context[f] = expected[f]} \cup
                    {f \in {"auth_completion_verified"} : completed}
<1>1. Flags(SessionChecks) \subseteq facts
    BY SessionAccepts DEF ClassifySessionBinding
<1>2. "auth_completion_verified" \in facts /\ SessionFields \subseteq facts
    BY <1>1, TableFlags DEF SessionFields
<1>3. completed
    BY <1>2 DEF SessionFields
<1>4. \A f \in SessionFields : context[f] = expected[f]
    BY <1>2 DEF SessionFields
<1> QED BY <1>3, <1>4

\* An accepted authorization has everything the context must say
\* (lineage_replace_authorization_from_iot_core).
LEMMA AuthorizedContext ==
    ASSUME NEW ctx, NEW attribution, NEW evidence, NEW facts,
           facts \subseteq {"current_credential_control_valid", "successor_key_control_valid",
                            "current_session_authenticated"},
           AuthorizationFromIotCore(ctx, attribution, evidence, facts) = "AUTHORIZED_REPLACEMENT"
    PROVE  /\ ContextShapeValid(ctx)
           /\ \A f \in ContextFields : attribution[f] = ctx[f]
           /\ attribution["peer_identity"] = evidence.expected_peer_identity
           /\ attribution["credential_reference"] = evidence.predecessor_credential_reference
           /\ evidence.requested_successor_scope_bits # {}
           /\ evidence.requested_successor_scope_bits \subseteq ctx["scope_bits"]
           /\ "current_session_authenticated" \in facts
<1> DEFINE contextMatch == \A f \in ContextFields : attribution[f] = ctx[f]
           scope == evidence.requested_successor_scope_bits
           bound == contextMatch /\ attribution["peer_identity"] = evidence.expected_peer_identity
           predecessor ==
               /\ attribution["credential_reference"] = evidence.predecessor_credential_reference
               /\ attribution["authorization_generation"] = ctx["authorization_generation"]
           within == scope # {} /\ scope \subseteq ctx["scope_bits"]
           derived == {f \in {"current_session_authorized"} : contextMatch} \cup
                      {f \in {"current_context_bound"} : bound} \cup
                      {f \in {"predecessor_binding_current"} : predecessor} \cup
                      {f \in {"successor_scope_within_authorized_scope"} : within}
<1>1. Flags(AuthorizationChecks)
        \subseteq (IF ContextShapeValid(ctx) THEN facts \cup derived ELSE facts)
    BY AuthorizationAccepts DEF AuthorizationFromIotCore
<1>2. {"current_session_authenticated", "current_session_authorized", "current_context_bound",
       "predecessor_binding_current", "successor_scope_within_authorized_scope"}
        \subseteq (IF ContextShapeValid(ctx) THEN facts \cup derived ELSE facts)
    BY <1>1, TableFlags
<1> HIDE DEF contextMatch, bound, predecessor, within
<1>3. ContextShapeValid(ctx)
    BY <1>2
<1>4. contextMatch /\ bound /\ predecessor /\ within /\ "current_session_authenticated" \in facts
    BY <1>2, <1>3
<1> QED BY <1>3, <1>4 DEF contextMatch, bound, predecessor, within

\* Only a request that is right in every part reaches the storage transaction
\* (lineage_replace_execute_verified_bound_iot_core_commit).
LEMMA ExecutedIsEntitled ==
    ASSUME NEW req \in Executed
    PROVE  Entitled(req)
<1> DEFINE authorization == AuthorizationFromVerifiedBoundIotCore(req)
           decision == EvaluateAuthorized(authorization, req.trigger, req.facts)
           control == {"current_credential_control_valid", "successor_key_control_valid"}
           current == req.evidence.current_proof
           successor == req.evidence.successor_proof
           credential == req.evidence.predecessor_credential_reference
           key == req.evidence.successor_key_reference
           sid == req.expected["session_id"]
           bound == ClassifySessionBinding(req.session, req.expected, req.completed)
           facts == control \cup {f \in {"current_session_authenticated"} :
                                     bound = "SESSION_BOUND"}
<1>1. authorization = "AUTHORIZED_REPLACEMENT" /\ decision = "ACCEPT_SUCCESSOR"
    BY DEF Executed, VerifiedCommit
<1>2. req \in Request
    BY DEF Executed
<1>3. req.session \in [SessionFields -> Nat] /\ req.expected \in [SessionFields -> Nat]
    BY <1>2, RequestAssumption
<1>4. ProofBound(current, sid, credential) /\ ProofBound(successor, sid, key)
    BY <1>1 DEF AuthorizationFromVerifiedBoundIotCore, ClassifyPossession
<1>5. ClassifyPossession(current, successor, sid, credential, key) = "POSSESSION_VERIFIED"
    BY <1>4 DEF ClassifyPossession
<1>6. AuthorizationFromIotCore(req.authz, req.attribution, req.evidence, facts)
        = "AUTHORIZED_REPLACEMENT"
    BY <1>1, <1>5 DEF AuthorizationFromVerifiedBoundIotCore, AuthorizationFromBoundIotCore
<1> HIDE DEF bound
<1>7. /\ ContextShapeValid(req.authz)
      /\ \A f \in ContextFields : req.attribution[f] = req.authz[f]
      /\ req.attribution["peer_identity"] = req.evidence.expected_peer_identity
      /\ req.attribution["credential_reference"] = credential
      /\ req.evidence.requested_successor_scope_bits # {}
      /\ req.evidence.requested_successor_scope_bits \subseteq req.authz["scope_bits"]
      /\ "current_session_authenticated" \in facts
    BY <1>6, AuthorizedContext
<1>8. bound = "SESSION_BOUND"
    BY <1>7
<1>9. req.completed /\ req.session = req.expected
    BY <1>3, <1>8, SessionIsExpected DEF bound
<1>10. req.trigger = "LIFECYCLE" /\ FactFlags \ {"authority_valid"} \subseteq req.facts
  <2> DEFINE all == ((req.facts \ {"authority_valid"}) \cup
                     {f \in {"authority_valid"} : authorization = "AUTHORIZED_REPLACEMENT"}) \cup
                    {f \in {"trigger_lifecycle"} : req.trigger = "LIFECYCLE"}
  <2>1. Flags(DecisionChecks) \subseteq all
      BY <1>1, DecisionAccepts DEF EvaluateAuthorized, Evaluate
  <2>2. FactFlags \ {"authority_valid"} \subseteq req.facts
      BY <2>1 DEF FactFlags
  <2>3. "trigger_lifecycle" \in all
      BY <2>1, TableFlags
  <2>4. "trigger_lifecycle" \notin req.facts
      BY <1>2, RequestAssumption DEF FactFlags
  <2> QED BY <2>2, <2>3, <2>4
<1>11. /\ \A pr \in {current, successor} : pr.valid /\ pr.session_id = sid
       /\ current.subject = credential /\ successor.subject = key
    BY <1>4 DEF ProofBound
<1>12. /\ {"SECURE_ASSOCIATION"} = req.authz["scope_bits"]
       /\ \A f \in ContextFields \ {"scope_bits"} : req.authz[f] # 0
    BY <1>7 DEF ContextShapeValid
<1>13. {"SECURE_ASSOCIATION"} = req.evidence.requested_successor_scope_bits
    BY <1>7, <1>12
<1> QED BY <1>7, <1>9, <1>10, <1>11, <1>12, <1>13 DEF Entitled

-----------------------------------------------------------------------------
(* Peers, records and states.                                              *)

\* There are two peers.
LEMMA TwoPeers ==
    /\ Local \in Peer /\ Peer # {}
    /\ \A p \in Peer : /\ Other(p) \in Peer /\ Other(p) # p
                       /\ \A q \in Peer : q = p \/ q = Other(p)
<1>1. PICK a, b \in Peer : a # b /\ Peer = {a, b}
    BY PeerAssumption
<1>2. ASSUME NEW p \in Peer PROVE Other(p) \in Peer /\ Other(p) # p
    BY <1>1 DEF Other
<1> QED BY <1>1, <1>2 DEF Local

DurableRecord == [flags : SUBSET RecoveryFlags, successor : Nat,
                  generation : Nat, integrity : BOOLEAN]

\* The six write cuts, and the step from each to the next: the transaction
\* passes through the cuts of the fault model, in their order
\* (lineage_replace_execute_storage_transaction, ..._facts_at_write_cut).
LEMMA CutSteps ==
    /\ \A n \in 0..5 : FactsAtWriteCut(n) \subseteq RecoveryFlags
    /\ \A n \in 1..5 : /\ AfterStep(TransactionSteps[n], FactsAtWriteCut(n - 1)) = FactsAtWriteCut(n)
                       /\ FactsAtWriteCut(n) # FactsAtWriteCut(0)
                       /\ "successor_active" \in FactsAtWriteCut(n) <=> n # 1
    /\ "successor_active" \notin FactsAtWriteCut(0)
    /\ \A n \in 1..5 : /\ TransactionSteps[n] = "PERSIST_PENDING" <=> n = 1
                       /\ TransactionSteps[n] = "ACTIVATE_SUCCESSOR" <=> n = 2
<1>1. /\ FactsAtWriteCut(0) = {"predecessor_active"}
      /\ FactsAtWriteCut(1) = {"predecessor_active", "replacement_pending"}
      /\ FactsAtWriteCut(2) = {"predecessor_active", "replacement_pending", "successor_active"}
      /\ FactsAtWriteCut(3) = {"replacement_pending", "successor_active", "predecessor_retired"}
      /\ FactsAtWriteCut(4) = {"replacement_pending", "successor_active", "predecessor_retired",
                               "invalidations_complete"}
      /\ FactsAtWriteCut(5) = {"successor_active", "predecessor_retired",
                               "invalidations_complete"}
    BY DEF FactsAtWriteCut
<1>2. /\ TransactionSteps[1] = "PERSIST_PENDING" /\ TransactionSteps[2] = "ACTIVATE_SUCCESSOR"
      /\ TransactionSteps[3] = "RETIRE_PREDECESSOR"
      /\ TransactionSteps[4] = "INVALIDATE_DEPENDENT_STATE"
      /\ TransactionSteps[5] = "CLEAR_PENDING"
    BY DEF TransactionSteps
<1>3. /\ \A n \in 0..5 : n = 0 \/ n = 1 \/ n = 2 \/ n = 3 \/ n = 4 \/ n = 5
      /\ \A n \in 1..5 : n = 1 \/ n = 2 \/ n = 3 \/ n = 4 \/ n = 5
    OBVIOUS
<1>4. ASSUME NEW n \in 1..5
      PROVE  AfterStep(TransactionSteps[n], FactsAtWriteCut(n - 1)) = FactsAtWriteCut(n)
  <2>1. CASE n = 1 BY <1>1, <1>2, <2>1 DEF AfterStep
  <2>2. CASE n = 2 BY <1>1, <1>2, <2>2 DEF AfterStep
  <2>3. CASE n = 3 BY <1>1, <1>2, <2>3 DEF AfterStep
  <2>4. CASE n = 4 BY <1>1, <1>2, <2>4 DEF AfterStep
  <2>5. CASE n = 5 BY <1>1, <1>2, <2>5 DEF AfterStep
  <2> QED BY <1>3, <2>1, <2>2, <2>3, <2>4, <2>5
<1>5. \A n \in 0..5 : FactsAtWriteCut(n) \subseteq RecoveryFlags
    BY <1>1, <1>3 DEF RecoveryFlags
<1>6. \A n \in 1..5 : /\ FactsAtWriteCut(n) # FactsAtWriteCut(0)
                      /\ "successor_active" \in FactsAtWriteCut(n) <=> n # 1
    BY <1>1, <1>3
<1>7. "successor_active" \notin FactsAtWriteCut(0)
    BY <1>1
<1>8. \A n \in 1..5 : /\ TransactionSteps[n] = "PERSIST_PENDING" <=> n = 1
                      /\ TransactionSteps[n] = "ACTIVATE_SUCCESSOR" <=> n = 2
    BY <1>2, <1>3
<1> QED BY <1>4, <1>5, <1>6, <1>7, <1>8

\* What one write of the transaction leaves (storage_apply).
LEMMA WrittenRecord ==
    ASSUME TypeOK, NEW p \in Peer, NEW n \in 1..5, tx[p].step = n,
           rec[p].flags = FactsAtWriteCut(n - 1)
    PROVE  /\ Written(p) \in DurableRecord
           /\ Written(p).flags = FactsAtWriteCut(n)
           /\ Written(p).integrity = rec[p].integrity
           /\ Written(p).generation = IF n = 1 THEN rec[p].generation + 1 ELSE rec[p].generation
           /\ Written(p).successor = IF n = 2 THEN tx[p].successor ELSE rec[p].successor
<1>1. rec[p] \in DurableRecord /\ tx[p].successor \in Nat
    BY DEF TypeOK, DurableRecord
<1>2. Written(p) = [rec[p] EXCEPT !.flags = FactsAtWriteCut(n),
                        !.generation = IF n = 1 THEN @ + 1 ELSE @,
                        !.successor = IF n = 2 THEN tx[p].successor ELSE @]
    BY CutSteps DEF Written
<1>3. FactsAtWriteCut(n) \in SUBSET RecoveryFlags
    BY CutSteps
<1> DEFINE g == IF n = 1 THEN rec[p].generation + 1 ELSE rec[p].generation
           s == IF n = 2 THEN tx[p].successor ELSE rec[p].successor
<1>4. g \in Nat /\ s \in Nat
    BY <1>1 DEF DurableRecord
<1>5. Written(p) = [flags |-> FactsAtWriteCut(n), successor |-> s, generation |-> g,
                    integrity |-> rec[p].integrity]
    BY <1>1, <1>2 DEF DurableRecord
<1>6. rec[p].integrity \in BOOLEAN
    BY <1>1 DEF DurableRecord
<1> HIDE DEF g, s
<1>7. Written(p) \in DurableRecord
    BY <1>3, <1>4, <1>5, <1>6 DEF DurableRecord
<1> QED BY <1>5, <1>7 DEF g, s

\* The events of the peer's state machine that the transaction sends
\* (lineage_replace_advance, lineage_replace_transition).
LEMMA Advances ==
    /\ Advance("ACTIVE_PREDECESSOR", "BEGIN", PlanFlags) = "REPLACEMENT_PENDING"
    /\ Advance("REPLACEMENT_PENDING", "COMMIT", PlanFlags)
          = "ACTIVE_SUCCESSOR_PREDECESSOR_RETIRED"
    /\ Advance("REPLACEMENT_PENDING", "INTERRUPT", PlanFlags) = "CONTINUITY_BROKEN"
BY DEF Advance, PlanComplete

\* A restart answers with a lineage only on a whole, current record
\* (lineage_replace_recover_with_freshness).
LEMMA Recovers ==
    ASSUME NEW integrity \in BOOLEAN, NEW flags, NEW facts, NEW gen \in Nat, NEW high \in Nat,
           NEW s, s = RecoverWithFreshness(integrity, flags, facts, gen, high)
    PROVE  /\ s \in {"ACTIVE_PREDECESSOR", "ACTIVE_SUCCESSOR_PREDECESSOR_RETIRED",
                     "CONTINUITY_BROKEN"}
           /\ s # "CONTINUITY_BROKEN" => integrity /\ gen = high
           /\ s = "ACTIVE_PREDECESSOR" => flags = FactsAtWriteCut(0)
           /\ s = "ACTIVE_SUCCESSOR_PREDECESSOR_RETIRED" => flags = FactsAtWriteCut(5)
<1> DEFINE age == CASE gen < high -> "ROLLBACK_DETECTED"
                    [] gen > high -> "GENERATION_AHEAD"
                    [] OTHER -> "CURRENT"
<1>1. ClassifyFreshness(facts, gen, high) = "CURRENT" => gen = high
  <2>1. ClassifyFreshness(facts, gen, high) = age \/
        \E i \in DOMAIN AnchorChecks :
            ClassifyFreshness(facts, gen, high) = AnchorChecks[i][2]
    <3> DEFINE missing == {i \in DOMAIN AnchorChecks : AnchorChecks[i][1] \notin facts}
               first == CHOOSE i \in missing : \A j \in missing : i <= j
    <3>1. DOMAIN AnchorChecks \subseteq Nat
        BY DEF AnchorChecks
    <3>2. CASE missing = {} BY <3>2 DEF ClassifyFreshness, FirstReject
    <3>3. CASE missing # {}
      <4>1. first \in missing
          BY <3>1, <3>3, LeastMember
      <4> QED BY <3>3, <4>1 DEF ClassifyFreshness, FirstReject
    <3> QED BY <3>2, <3>3
  <2>2. \A i \in DOMAIN AnchorChecks : AnchorChecks[i][2] # "CURRENT"
      BY DEF AnchorChecks
  <2> QED BY <2>1, <2>2
<1>2. s # "CONTINUITY_BROKEN" => /\ s = Recover(integrity, flags)
                                 /\ ClassifyFreshness(facts, gen, high) = "CURRENT"
    BY DEF RecoverWithFreshness
<1>3. /\ FactsAtWriteCut(0) = {"predecessor_active"}
      /\ FactsAtWriteCut(5) = {"successor_active", "predecessor_retired",
                               "invalidations_complete"}
    BY DEF FactsAtWriteCut
<1>4. /\ Recover(integrity, flags) \in {"ACTIVE_PREDECESSOR", "CONTINUITY_BROKEN",
                                        "ACTIVE_SUCCESSOR_PREDECESSOR_RETIRED"}
      /\ Recover(integrity, flags) # "CONTINUITY_BROKEN" => integrity
      /\ Recover(integrity, flags) = "ACTIVE_PREDECESSOR" => flags = FactsAtWriteCut(0)
      /\ Recover(integrity, flags) = "ACTIVE_SUCCESSOR_PREDECESSOR_RETIRED"
            => flags = FactsAtWriteCut(5)
    BY <1>3 DEF Recover
<1> QED BY <1>1, <1>2, <1>4

-----------------------------------------------------------------------------
(* What a step of one peer leaves alone.                                   *)

\* The durable part of the invariant, of one peer.
PeerOK(q) ==
    /\ state[q] = "ACTIVE_PREDECESSOR" => Pristine(q)
    /\ state[q] = "ACTIVE_SUCCESSOR_PREDECESSOR_RETIRED" => Committed(q)
    /\ RecordOK(rec[q], q) /\ RecordOK(old[q], q)
    /\ TxOK(q)

\* The invariant, peer by peer.
LEMMA PeerParts ==
    StableRecovery /\ RecordInv /\ TxInv <=> \A q \in Peer : PeerOK(q)
BY DEF StableRecovery, RecordInv, TxInv, PeerOK

\* A peer whose state and storage stay the same keeps its part.
LEMMA PeerKept ==
    ASSUME NEW q \in Peer, PeerOK(q), entitled \subseteq entitled',
           rec'[q] = rec[q], old'[q] = old[q], anchor'[q] = anchor[q],
           state'[q] = state[q], tx'[q] = tx[q]
    PROVE  PeerOK(q)'
<1>1. RecordOK(rec[q], q)' /\ RecordOK(old[q], q)'
    BY DEF PeerOK, RecordOK
<1>2. TxOK(q)'
    BY DEF PeerOK, TxOK, RecordPending, AnchorPending
<1>3. /\ state'[q] = "ACTIVE_PREDECESSOR" => Pristine(q)'
      /\ state'[q] = "ACTIVE_SUCCESSOR_PREDECESSOR_RETIRED" => Committed(q)'
    BY DEF PeerOK, Pristine, Committed
<1> QED BY <1>1, <1>2, <1>3 DEF PeerOK

\* A step of peer p is about the storage of p only.
LEMMA PeerStep ==
    ASSUME PairInv, NEW p \in Peer, entitled \subseteq entitled', PeerOK(p)',
           \A q \in Peer : q # p => /\ rec'[q] = rec[q] /\ old'[q] = old[q]
                                    /\ anchor'[q] = anchor[q]
                                    /\ state'[q] = state[q] /\ tx'[q] = tx[q]
    PROVE  StableRecovery' /\ RecordInv' /\ TxInv'
<1>1. \A q \in Peer : PeerOK(q)
    BY PeerParts DEF PairInv
<1>2. \A q \in Peer : PeerOK(q)'
    BY <1>1, PeerKept
<1> QED BY <1>2 DEF StableRecovery, RecordInv, TxInv, PeerOK

\* The pair's part, in a step that is not an evaluation.
LEMMA UseKept ==
    ASSUME UseInv, LatchedPair, <<prior, retry, lost>>' = <<prior, retry, lost>>,
           \/ use' = "none"
           \/ /\ use' = use /\ state' = state
              /\ \A p \in Peer : rec'[p].successor = rec[p].successor
    PROVE  UseInv' /\ LatchedPair'
<1>1. CASE use' = "none"
    BY <1>1 DEF UseInv, LatchedPair, LostPair, BrokenStaysUnused, DivergedStaysUnused
<1>2. CASE use' # "none"
    BY <1>2 DEF UseInv, SameSuccessor, LatchedPair, LostPair, BrokenStaysUnused,
            DivergedStaysUnused
<1> QED BY <1>1, <1>2

\* A pair with a peer in neither stable state is not used.
LEMMA UnstableUnused ==
    ASSUME TypeOK, UseInv, NEW p \in Peer,
           state[p] \notin {"ACTIVE_PREDECESSOR", "ACTIVE_SUCCESSOR_PREDECESSOR_RETIRED"}
    PROVE  use = "none"
BY DEF UseInv, TypeOK

\* The types, with the record's under its name.
PairTypes ==
    /\ rec \in [Peer -> DurableRecord] /\ old \in [Peer -> DurableRecord]
    /\ anchor \in [Peer -> Nat]
    /\ state \in [Peer -> States \cup {"DOWN"}]
    /\ tx \in [Peer -> [step : 0..5, successor : Nat]]
    /\ attempt \in [Peer -> Attempt \cup {NoAttempt}]
    /\ confirmed \in [Peer -> Nat]
    /\ converged \subseteq Peer
    /\ entitled \subseteq Peer
    /\ prior \in PairDecisions
    /\ use \in {"none", "predecessor", "successor"} /\ retry \in BOOLEAN
    /\ lost \in {"no", "broken", "diverged"}
    /\ faults \in [crashes : Nat, retries : Nat]

\* The two forms are the same, before a step and after it.
LEMMA Types == (TypeOK <=> PairTypes) /\ (TypeOK' <=> PairTypes')
<1>1. TypeOK <=> PairTypes
    BY Zenon DEF TypeOK, PairTypes, DurableRecord
<1>2. TypeOK' <=> PairTypes'
    BY Zenon DEF TypeOK, PairTypes, DurableRecord
<1> QED BY <1>1, <1>2

\* An attempt is one that was observed, or none.
LEMMA AttemptTypes ==
    ASSUME NEW a \in Attempt \cup {NoAttempt}
    PROVE  /\ a \in AttemptFields
           /\ a.id # 0 => a \in Attempt
           /\ a \in Attempt => a.id # 0 /\ a.successor # 0
BY AttemptAssumption DEF NoAttempt, AttemptFields

-----------------------------------------------------------------------------
(* One lemma for each action.                                              *)

\* A step on volatile state leaves storage and its part alone.
LEMMA StorageKept ==
    ASSUME PairInv,
           <<rec, old, anchor, state, tx, entitled>>' = <<rec, old, anchor, state, tx, entitled>>
    PROVE  StableRecovery' /\ RecordInv' /\ TxInv'
<1>1. \A q \in Peer : PeerOK(q)
    BY PeerParts DEF PairInv
<1>2. \A q \in Peer : PeerOK(q)'
    BY <1>1, PeerKept
<1> QED BY <1>2 DEF StableRecovery, RecordInv, TxInv, PeerOK

\* A new attempt takes the peer out of convergence (event L or P).
LEMMA ObserveStep ==
    ASSUME PairInv, NEW p \in Peer, NEW a \in Attempt, Observe(p, a)
    PROVE  PairInv'
<1> USE DEF PairInv
<1>1. TypeOK'
    BY Types DEF PairTypes, Observe, durable, pair
<1>2. StableRecovery' /\ RecordInv' /\ TxInv'
    BY StorageKept DEF Observe, durable
<1>3. UseInv' /\ LatchedPair'
    BY UseKept DEF Observe, durable, pair
<1>4. ConvergedInv'
    BY DEF Observe, ConvergedInv
<1> QED BY <1>1, <1>2, <1>3, <1>4

\* A confirmation is of the current attempt (event LC or PC).
LEMMA ConfirmStep ==
    ASSUME PairInv, NEW p \in Peer, NEW a \in Attempt, Confirm(p, a.id)
    PROVE  PairInv'
<1> USE DEF PairInv
<1>1. a.id \in Nat
    BY AttemptTypes DEF AttemptFields
<1>2. TypeOK'
    BY <1>1, Types DEF PairTypes, Confirm, durable, pair
<1>3. StableRecovery' /\ RecordInv' /\ TxInv'
    BY StorageKept DEF Confirm, durable
<1>4. UseInv' /\ LatchedPair'
    BY UseKept DEF Confirm, durable, pair
<1>5. ConvergedInv'
    BY DEF Confirm, ConvergedInv, TypeOK
<1> QED BY <1>2, <1>3, <1>4, <1>5

\* The peers are equally informed when one of them classifies the attempt as
\* converged (lineage_replace_classify_attempt).
LEMMA ConvergedFacts ==
    ASSUME TypeOK, NEW p \in Peer, NEW authorized,
           ClassifyAttempt(AttemptFacts(p, authorized)) = "ATTEMPT_CONVERGED"
    PROVE  /\ attempt[p] = attempt[Other(p)] /\ attempt[p].id # 0
           /\ confirmed[p] = attempt[p].id /\ confirmed[Other(p)] = attempt[Other(p)].id
<1> DEFINE q == Other(p)
           facts == AttemptFacts(p, authorized)
<1>1. Flags(AttemptChecks) \subseteq facts
    BY AttemptAccepts
<1>2. {"same_attempt", "same_predecessor_generation", "same_successor", "same_context",
       "local_confirmation_bound", "peer_confirmation_bound"} \subseteq facts
    BY <1>1, TableFlags
<1>3. /\ attempt[p].id = attempt[q].id /\ attempt[p].id # 0
      /\ attempt[p].generation = attempt[q].generation
      /\ attempt[p].successor = attempt[q].successor
      /\ attempt[p].context = attempt[q].context
      /\ confirmed[p] = attempt[p].id /\ confirmed[q] = attempt[q].id
    BY <1>2 DEF AttemptFacts
<1>4. attempt[p] \in AttemptFields /\ attempt[q] \in AttemptFields
  <2>1. attempt[p] \in Attempt \cup {NoAttempt} /\ attempt[q] \in Attempt \cup {NoAttempt}
      BY TwoPeers DEF TypeOK
  <2> QED BY <2>1, AttemptTypes
<1>5. attempt[p] = attempt[q]
    BY <1>3, <1>4 DEF AttemptFields
<1> QED BY <1>3, <1>5

\* A peer that classifies the attempt as converged holds, with the other peer,
\* one attempt that both confirmed (lineage_replace_classify_attempt).
LEMMA ClassifyStep ==
    ASSUME PairInv, NEW p \in Peer, NEW s, Classify(p, s)
    PROVE  PairInv'
<1> USE DEF PairInv
<1>1. TypeOK'
    BY Types DEF PairTypes, Classify, durable, pair
<1>2. StableRecovery' /\ RecordInv' /\ TxInv'
    BY StorageKept DEF Classify, durable
<1>3. UseInv' /\ LatchedPair'
    BY UseKept DEF Classify, durable, pair
<1>4. ConvergedInv'
  <2> SUFFICES ASSUME converged' = Peer
               PROVE  \A r, q \in Peer : /\ attempt[r] = attempt[q] /\ attempt[r].id # 0
                                         /\ confirmed[r] = attempt[r].id
      BY DEF ConvergedInv, Classify
  <2>1. ClassifyAttempt(AttemptFacts(p, s)) = "ATTEMPT_CONVERGED"
      BY DEF Classify
  <2>2. /\ attempt[p] = attempt[Other(p)] /\ attempt[p].id # 0
        /\ confirmed[p] = attempt[p].id /\ confirmed[Other(p)] = attempt[Other(p)].id
      BY <2>1, ConvergedFacts
  <2> QED BY <2>2, TwoPeers
<1> QED BY <1>1, <1>2, <1>3, <1>4

\* A transaction begins on a pristine record, by an entitled request, for an
\* attempt the peer knows (lineage_replace_execute_verified_bound_iot_core_commit).
LEMMA BeginStep ==
    ASSUME PairInv, NEW p \in Peer, NEW req \in Executed, Begin(p, req)
    PROVE  PairInv'
<1> USE DEF PairInv
<1>1. /\ state' = [state EXCEPT ![p] = "REPLACEMENT_PENDING"]
      /\ tx' = [tx EXCEPT ![p] = [step |-> 1, successor |-> attempt[p].successor]]
      /\ old' = [old EXCEPT ![p] = rec[p]] /\ rec' = rec /\ anchor' = anchor
      /\ entitled' = entitled \cup {p}
      /\ use' = "none" /\ <<prior, retry, lost>>' = <<prior, retry, lost>>
      /\ <<attempt, confirmed, converged, faults>>' = <<attempt, confirmed, converged, faults>>
      /\ state[p] = "ACTIVE_PREDECESSOR"
    BY Advances, ExecutedIsEntitled DEF Begin, volatile
<1>2. attempt[p] \in Attempt
    BY AttemptTypes DEF Begin, TypeOK
<1>3. attempt[p].successor \in Nat
    BY <1>2, AttemptTypes DEF AttemptFields
<1>4. TypeOK'
    BY <1>1, <1>3, Types DEF PairTypes, States
<1>5. PeerOK(p)'
  <2>1. Pristine(p) /\ RecordOK(rec[p], p)
      BY <1>1 DEF StableRecovery, RecordInv
  <2>2. rec'[p] = rec[p] /\ old'[p] = rec[p] /\ anchor'[p] = anchor[p]
        /\ state'[p] = "REPLACEMENT_PENDING"
        /\ tx'[p] = [step |-> 1, successor |-> attempt[p].successor]
      BY <1>1 DEF TypeOK
  <2>3. RecordOK(rec[p], p)' /\ RecordOK(old[p], p)'
      BY <1>1, <2>1, <2>2 DEF RecordOK
  <2>4. TxOK(p)'
      BY <1>1, <1>2, <2>1, <2>2 DEF TxOK, Pristine, RecordPending, AnchorPending
  <2> QED BY <2>2, <2>3, <2>4 DEF PeerOK
<1>6. StableRecovery' /\ RecordInv' /\ TxInv'
    BY <1>1, <1>5, PeerStep DEF TypeOK
<1>7. UseInv' /\ LatchedPair'
    BY <1>1, UseKept
<1>8. ConvergedInv'
    BY <1>1 DEF ConvergedInv
<1> QED BY <1>4, <1>6, <1>7, <1>8

\* A working peer is pending, entitled, and its pair is not used.
LEMMA Working ==
    ASSUME PairInv, NEW p \in Peer, tx[p].step # 0
    PROVE  /\ state[p] = "REPLACEMENT_PENDING" /\ p \in entitled /\ rec[p].integrity
           /\ use = "none"
           /\ \E a \in Attempt : a.successor = tx[p].successor
           /\ rec[p] \in DurableRecord /\ old[p] \in DurableRecord
           /\ anchor[p] \in Nat /\ tx[p] \in [step : 0..5, successor : Nat]
           /\ PeerOK(p)
<1>1. TxOK(p) /\ PeerOK(p)
    BY PeerParts DEF PairInv, TxInv
<1>2. state[p] = "REPLACEMENT_PENDING" /\ p \in entitled /\ rec[p].integrity
      /\ \E a \in Attempt : a.successor = tx[p].successor
    BY <1>1 DEF TxOK
<1>3. use = "none"
    BY <1>2, UnstableUnused DEF PairInv
<1> QED BY <1>1, <1>2, <1>3, Types DEF PairInv, PairTypes

\* The record half of PERSIST_PENDING (storage_apply).
LEMMA PersistRecordStep ==
    ASSUME PairInv, NEW p \in Peer, PersistRecord(p)
    PROVE  PairInv'
<1> USE DEF PairInv
<1> DEFINE step == IF AnchorPending(p) THEN 1 ELSE 2
<1>1. /\ tx[p].step = 1 /\ RecordPending(p)
      /\ rec' = [rec EXCEPT ![p] = Written(p)] /\ tx' = [tx EXCEPT ![p].step = step]
      /\ <<old, anchor, state, attempt, confirmed, converged, entitled, prior, use, retry, lost,
           faults>>' = <<old, anchor, state, attempt, confirmed, converged, entitled, prior, use,
           retry, lost, faults>>
    BY DEF PersistRecord, volatile, pair
<1>2. /\ state[p] = "REPLACEMENT_PENDING" /\ p \in entitled /\ rec[p].integrity
      /\ use = "none" /\ (\E a \in Attempt : a.successor = tx[p].successor)
      /\ rec[p] \in DurableRecord /\ old[p] \in DurableRecord
      /\ anchor[p] \in Nat /\ tx[p] \in [step : 0..5, successor : Nat]
      /\ PeerOK(p)
    BY <1>1, Working
<1>3. rec[p].flags = FactsAtWriteCut(0)
    BY <1>1, <1>2 DEF PeerOK, TxOK
<1>4. /\ Written(p) \in DurableRecord /\ Written(p).flags = FactsAtWriteCut(1)
      /\ Written(p).integrity = rec[p].integrity
      /\ Written(p).generation = rec[p].generation + 1
      /\ Written(p).successor = rec[p].successor
    BY <1>1, <1>3, WrittenRecord
<1>5. /\ rec'[p] = Written(p) /\ tx'[p] = [step |-> step, successor |-> tx[p].successor]
      /\ old'[p] = old[p] /\ anchor'[p] = anchor[p] /\ state'[p] = "REPLACEMENT_PENDING"
    BY <1>1, <1>2, Types DEF PairTypes
<1>6. TypeOK'
    BY <1>1, <1>4, Types DEF PairTypes
<1>7. PeerOK(p)'
  <2>1. RecordOK(old[p], p)'
      BY <1>1, <1>2, <1>5 DEF PeerOK, RecordOK
  <2>2. RecordOK(rec[p], p)'
    <3>1. \E n \in 0..5 : rec'[p].flags = FactsAtWriteCut(n)
        BY <1>4, <1>5
    <3>2. "successor_active" \notin rec'[p].flags
        BY <1>4, <1>5, CutSteps
    <3> QED BY <1>1, <1>2, <3>1, <3>2 DEF RecordOK
  <2>3. TxOK(p)'
    <3>1. rec[p].generation = old[p].generation /\ rec[p].generation \in Nat
        BY <1>1, <1>2 DEF RecordPending, DurableRecord
    <3>2. /\ rec'[p].generation = old[p].generation + 1 /\ rec'[p].integrity
          /\ rec'[p].flags = FactsAtWriteCut(1)
          /\ old'[p].generation = old[p].generation /\ p \in entitled'
          /\ \E a \in Attempt : a.successor = tx'[p].successor
      <4>1. rec'[p].generation = old[p].generation + 1
          BY <1>4, <1>5, <3>1
      <4>2. rec'[p].integrity
          BY <1>2, <1>4, <1>5, Zenon
      <4>3. rec'[p].flags = FactsAtWriteCut(1) /\ old'[p].generation = old[p].generation
          BY <1>4, <1>5, Zenon
      <4>4. p \in entitled' /\ tx'[p].successor = tx[p].successor
          BY <1>1, <1>2, <1>5
      <4> QED BY <1>2, <4>1, <4>2, <4>3, <4>4
    <3>3. CASE AnchorPending(p)
      <4>1. tx'[p].step = 1 /\ anchor'[p] = old'[p].generation
          BY <1>5, <3>3 DEF AnchorPending
      <4> QED BY <1>5, <3>1, <3>2, <4>1 DEF TxOK, RecordPending, AnchorPending
    <3>4. CASE ~AnchorPending(p)
      <4>1. tx'[p].step = 2 /\ anchor'[p] = old[p].generation + 1
          BY <1>1, <1>2, <1>5, <3>4 DEF PeerOK, TxOK
      <4> QED BY <1>5, <3>1, <3>2, <4>1 DEF TxOK
    <3> QED BY <3>3, <3>4
  <2> QED BY <1>5, <2>1, <2>2, <2>3 DEF PeerOK
<1>8. StableRecovery' /\ RecordInv' /\ TxInv'
    BY <1>1, <1>7, PeerStep DEF TypeOK
<1>9. UseInv' /\ LatchedPair'
    BY <1>1, <1>2, UseKept
<1>10. ConvergedInv'
    BY <1>1 DEF ConvergedInv
<1> QED BY <1>6, <1>8, <1>9, <1>10

\* The anchor half of PERSIST_PENDING (storage_apply).
LEMMA AdvanceAnchorStep ==
    ASSUME PairInv, NEW p \in Peer, AdvanceAnchor(p)
    PROVE  PairInv'
<1> USE DEF PairInv
<1> DEFINE step == IF RecordPending(p) THEN 1 ELSE 2
<1>1. /\ tx[p].step = 1 /\ AnchorPending(p)
      /\ anchor' = [anchor EXCEPT ![p] = @ + 1] /\ tx' = [tx EXCEPT ![p].step = step]
      /\ <<rec, old, state, attempt, confirmed, converged, entitled, prior, use, retry, lost,
           faults>>' = <<rec, old, state, attempt, confirmed, converged, entitled, prior, use,
           retry, lost, faults>>
    BY DEF AdvanceAnchor, volatile, pair
<1>2. /\ state[p] = "REPLACEMENT_PENDING" /\ p \in entitled /\ rec[p].integrity
      /\ use = "none" /\ (\E a \in Attempt : a.successor = tx[p].successor)
      /\ rec[p] \in DurableRecord /\ old[p] \in DurableRecord
      /\ anchor[p] \in Nat /\ tx[p] \in [step : 0..5, successor : Nat]
      /\ PeerOK(p)
    BY <1>1, Working
<1>3. /\ anchor'[p] = anchor[p] + 1 /\ tx'[p] = [step |-> step, successor |-> tx[p].successor]
      /\ rec'[p] = rec[p] /\ old'[p] = old[p] /\ state'[p] = "REPLACEMENT_PENDING"
    BY <1>1, <1>2, Types DEF PairTypes
<1>4. TypeOK'
    BY <1>1, Types DEF PairTypes
<1>5. PeerOK(p)'
  <2>1. RecordOK(old[p], p)' /\ RecordOK(rec[p], p)'
      BY <1>1, <1>2, <1>3 DEF PeerOK, RecordOK
  <2>2. TxOK(p)'
    <3>1. anchor[p] = old[p].generation /\ rec[p].generation \in Nat /\ old[p].generation \in Nat
        BY <1>1, <1>2 DEF AnchorPending, DurableRecord
    <3>2. CASE RecordPending(p)
      <4>1. rec[p].flags = FactsAtWriteCut(0)
          BY <1>1, <1>2, <3>2 DEF PeerOK, TxOK
      <4> QED BY <1>1, <1>2, <1>3, <3>1, <3>2, <4>1 DEF TxOK, RecordPending, AnchorPending
    <3>3. CASE ~RecordPending(p)
      <4>1. rec[p].generation = old[p].generation + 1 /\ rec[p].flags = FactsAtWriteCut(1)
          BY <1>1, <1>2, <3>3 DEF PeerOK, TxOK
      <4> QED BY <1>1, <1>2, <1>3, <3>1, <3>3, <4>1 DEF TxOK
    <3> QED BY <3>2, <3>3
  <2> QED BY <1>3, <2>1, <2>2 DEF PeerOK
<1>6. StableRecovery' /\ RecordInv' /\ TxInv'
    BY <1>1, <1>5, PeerStep DEF TypeOK
<1>7. UseInv' /\ LatchedPair'
    BY <1>1, <1>2, UseKept
<1>8. ConvergedInv'
    BY <1>1 DEF ConvergedInv
<1> QED BY <1>4, <1>6, <1>7, <1>8

\* A later write of the transaction goes on to the next cut, with the anchor's
\* generation and a known successor (storage_apply).
LEMMA LaterWrite ==
    ASSUME PairInv, NEW p \in Peer, NEW n \in 2..5, tx[p].step = n
    PROVE  /\ Written(p) \in DurableRecord
           /\ Written(p).flags = FactsAtWriteCut(n)
           /\ Written(p).integrity /\ Written(p).generation = anchor[p]
           /\ RecordOK(Written(p), p)
<1>1. /\ p \in entitled /\ rec[p].integrity /\ PeerOK(p)
      /\ \E a \in Attempt : a.successor = tx[p].successor
    BY Working
<1>2. rec[p].flags = FactsAtWriteCut(n - 1) /\ rec[p].generation = anchor[p]
    BY <1>1 DEF PeerOK, TxOK
<1>3. n \in 1..5
    OBVIOUS
<1>4. /\ Written(p) \in DurableRecord /\ Written(p).flags = FactsAtWriteCut(n)
      /\ Written(p).integrity = rec[p].integrity
      /\ Written(p).generation = IF n = 1 THEN rec[p].generation + 1 ELSE rec[p].generation
      /\ Written(p).successor = IF n = 2 THEN tx[p].successor ELSE rec[p].successor
    BY <1>2, <1>3, WrittenRecord DEF PairInv
<1>5. \E a \in Attempt : a.successor = Written(p).successor
  <2>1. CASE n = 2 BY <1>1, <1>4, <2>1
  <2>2. CASE n # 2
    <3>1. n - 1 \in 1..5 /\ n - 1 # 1
        BY <2>2
    <3>2. "successor_active" \in rec[p].flags
        BY <1>2, <3>1, CutSteps
    <3>3. \E a \in Attempt : a.successor = rec[p].successor
        BY <1>1, <3>2 DEF PeerOK, RecordOK
    <3>4. Written(p).successor = rec[p].successor
        BY <1>4, <2>2
    <3> QED BY <3>3, <3>4
  <2> QED BY <2>1, <2>2
<1>6. RecordOK(Written(p), p)
  <2>1. n \in 0..5
      OBVIOUS
  <2> QED BY <1>1, <1>4, <1>5, <2>1 DEF RecordOK
<1>7. Written(p).integrity
    BY <1>1, <1>4, Zenon
<1>8. Written(p).generation = anchor[p]
    BY <1>2, <1>4
<1> QED BY <1>4, <1>6, <1>7, <1>8

\* A later step of the transaction; after the last one the peer has the
\* successor (lineage_replace_execute_storage_transaction, COMMIT).
LEMMA ApplyStepStep ==
    ASSUME PairInv, NEW p \in Peer, ApplyStep(p)
    PROVE  PairInv'
<1> USE DEF PairInv
<1> DEFINE n == tx[p].step
<1>1. /\ n \in 2..5 /\ rec' = [rec EXCEPT ![p] = Written(p)]
      /\ <<old, anchor, attempt, confirmed, converged, entitled, prior, use, retry, lost,
           faults>>' = <<old, anchor, attempt, confirmed, converged, entitled, prior, use,
           retry, lost, faults>>
    BY DEF ApplyStep, volatile, pair
<1>2. /\ state[p] = "REPLACEMENT_PENDING" /\ p \in entitled /\ use = "none"
      /\ (\E a \in Attempt : a.successor = tx[p].successor)
      /\ tx[p] \in [step : 0..5, successor : Nat] /\ PeerOK(p)
    BY <1>1, Working
<1>3. /\ Written(p) \in DurableRecord /\ Written(p).flags = FactsAtWriteCut(n)
      /\ Written(p).integrity /\ Written(p).generation = anchor[p]
      /\ RecordOK(Written(p), p)
    BY <1>1, LaterWrite
<1>4. /\ rec'[p] = Written(p) /\ old'[p] = old[p] /\ anchor'[p] = anchor[p]
      /\ rec' \in [Peer -> DurableRecord] /\ \A q \in Peer : q # p => rec'[q] = rec[q]
    BY <1>1, <1>3, Types DEF PairTypes
<1>5. RecordOK(rec[p], p)' /\ RecordOK(old[p], p)'
  <2>1. RecordOK(old[p], p) /\ entitled' = entitled
      BY <1>1, <1>2 DEF PeerOK
  <2> QED BY <1>3, <1>4, <2>1 DEF RecordOK
<1>6. TypeOK' /\ PeerOK(p)' /\ \A q \in Peer : q # p => state'[q] = state[q] /\ tx'[q] = tx[q]
  <2>1. CASE n = 5
    <3>1. /\ state' = [state EXCEPT ![p] = "ACTIVE_SUCCESSOR_PREDECESSOR_RETIRED"]
          /\ tx' = [tx EXCEPT ![p] = NoTx]
        BY <1>2, <2>1, Advances DEF ApplyStep
    <3>2. TypeOK'
        BY <1>1, <1>4, <3>1, Types DEF PairTypes, States, NoTx
    <3>3. state'[p] = "ACTIVE_SUCCESSOR_PREDECESSOR_RETIRED" /\ tx'[p].step = 0
        BY <3>1, Types DEF PairTypes, NoTx
    <3>4. Committed(p)'
        BY <1>3, <1>4, <2>1 DEF Committed
    <3>5. TxOK(p)'
        BY <3>3 DEF TxOK
    <3>6. PeerOK(p)'
        BY <1>5, <3>3, <3>4, <3>5 DEF PeerOK
    <3> QED BY <3>1, <3>2, <3>6, Types DEF PairTypes
  <2>2. CASE n # 5
    <3>1. state' = state /\ tx' = [tx EXCEPT ![p].step = n + 1]
        BY <2>2 DEF ApplyStep
    <3>2. n + 1 \in 3..5
        BY <1>1, <2>2
    <3>3. TypeOK'
        BY <1>1, <1>4, <3>1, <3>2, Types DEF PairTypes
    <3>4. /\ tx'[p].step = n + 1 /\ tx'[p].successor = tx[p].successor
          /\ state'[p] = "REPLACEMENT_PENDING"
        BY <1>2, <3>1, Types DEF PairTypes
    <3>5. rec'[p].integrity /\ p \in entitled'
        BY <1>1, <1>2, <1>3, <1>4
    <3>6. rec'[p].flags = FactsAtWriteCut(tx'[p].step - 1) /\ rec'[p].generation = anchor'[p]
        BY <1>1, <1>3, <1>4, <3>4
    <3>7. TxOK(p)'
        BY <1>2, <3>2, <3>4, <3>5, <3>6 DEF TxOK
    <3>8. PeerOK(p)'
        BY <1>5, <3>4, <3>7 DEF PeerOK
    <3> QED BY <3>1, <3>3, <3>8, Types DEF PairTypes
  <2> QED BY <2>1, <2>2
<1>7. StableRecovery' /\ RecordInv' /\ TxInv'
    BY <1>1, <1>4, <1>6, PeerStep
<1>8. UseInv' /\ LatchedPair'
    BY <1>1, <1>2, UseKept
<1>9. ConvergedInv'
    BY <1>1 DEF ConvergedInv
<1> QED BY <1>6, <1>7, <1>8, <1>9

\* A peer that stopped is taken for no lineage, whatever its record says.
LEMMA Stopped ==
    ASSUME NEW p \in Peer, RecordOK(rec[p], p)', RecordOK(old[p], p)', tx'[p].step = 0,
           state'[p] \in {"CONTINUITY_BROKEN", "DOWN"}
    PROVE  PeerOK(p)'
<1>1. TxOK(p)'
    BY DEF TxOK
<1> QED BY <1>1 DEF PeerOK

\* A failed apply stops the transaction at a cut (INTERRUPT).
LEMMA ApplyFailsStep ==
    ASSUME PairInv, NEW p \in Peer, ApplyFails(p)
    PROVE  PairInv'
<1> USE DEF PairInv
<1>1. /\ tx[p].step # 0 /\ tx' = [tx EXCEPT ![p] = NoTx]
      /\ rec' = rec \/ (tx[p].step > 1 /\ rec' = [rec EXCEPT ![p] = Written(p)])
      /\ <<old, anchor, attempt, confirmed, converged, entitled, prior, use, retry, lost,
           faults>>' = <<old, anchor, attempt, confirmed, converged, entitled, prior, use,
           retry, lost, faults>>
    BY DEF ApplyFails, volatile, pair
<1>2. /\ state[p] = "REPLACEMENT_PENDING" /\ use = "none"
      /\ tx[p] \in [step : 0..5, successor : Nat] /\ PeerOK(p)
    BY <1>1, Working
<1>3. state' = [state EXCEPT ![p] = "CONTINUITY_BROKEN"]
    BY <1>2, Advances DEF ApplyFails
<1>4. /\ rec' \in [Peer -> DurableRecord] /\ (\A q \in Peer : q # p => rec'[q] = rec[q])
      /\ RecordOK(rec'[p], p)
  <2>1. CASE rec' = rec
      BY <1>2, <2>1, Types DEF PairTypes, PeerOK
  <2>2. CASE tx[p].step > 1 /\ rec' = [rec EXCEPT ![p] = Written(p)]
    <3>1. tx[p].step \in 2..5
        BY <1>2, <2>2
    <3>2. Written(p) \in DurableRecord /\ RecordOK(Written(p), p)
        BY <3>1, LaterWrite
    <3> QED BY <2>2, <3>2, Types DEF PairTypes
  <2> QED BY <1>1, <2>1, <2>2
<1>5. TypeOK'
    BY <1>1, <1>3, <1>4, Types DEF PairTypes, States, NoTx
<1>6. RecordOK(rec[p], p)' /\ RecordOK(old[p], p)'
  <2>1. RecordOK(old[p], p) /\ old'[p] = old[p] /\ entitled' = entitled
      BY <1>1, <1>2 DEF PeerOK
  <2> QED BY <1>4, <2>1 DEF RecordOK
<1>7. PeerOK(p)'
  <2>1. tx'[p].step = 0 /\ state'[p] = "CONTINUITY_BROKEN"
      BY <1>1, <1>3, Types DEF PairTypes, NoTx
  <2> QED BY <1>6, <2>1, Stopped
<1>8. StableRecovery' /\ RecordInv' /\ TxInv'
    BY <1>1, <1>3, <1>4, <1>7, PeerStep
<1>9. UseInv' /\ LatchedPair'
    BY <1>1, <1>2, UseKept
<1>10. ConvergedInv'
    BY <1>1 DEF ConvergedInv
<1> QED BY <1>5, <1>8, <1>9, <1>10

\* A crash takes the peer down and the pair out of use.
LEMMA CrashStep ==
    ASSUME PairInv, NEW p \in Peer, Crash(p)
    PROVE  PairInv'
<1> USE DEF PairInv
<1>1. /\ rec' = rec \/ rec' = [rec EXCEPT ![p].integrity = FALSE]
      /\ state' = [state EXCEPT ![p] = "DOWN"] /\ tx' = [tx EXCEPT ![p] = NoTx]
      /\ attempt' = [attempt EXCEPT ![p] = NoAttempt]
      /\ confirmed' = [confirmed EXCEPT ![p] = 0] /\ converged' = converged \ {p}
      /\ use' = "none"
      /\ faults' = [faults EXCEPT !.crashes = IF @ < MaxCrashes THEN @ + 1 ELSE @]
      /\ <<old, anchor, entitled, prior, retry, lost>>'
            = <<old, anchor, entitled, prior, retry, lost>>
    BY DEF Crash, Forget
<1>2. PeerOK(p)
    BY PeerParts
<1>3. /\ rec' \in [Peer -> DurableRecord] /\ (\A q \in Peer : q # p => rec'[q] = rec[q])
      /\ rec'[p].flags = rec[p].flags /\ rec'[p].successor = rec[p].successor
  <2>1. CASE rec' = rec
      BY <2>1, Types DEF PairTypes
  <2>2. CASE rec' = [rec EXCEPT ![p].integrity = FALSE]
    <3>1. rec[p] \in DurableRecord
        BY Types DEF PairTypes
    <3>2. [rec[p] EXCEPT !.integrity = FALSE] \in DurableRecord
        BY <3>1 DEF DurableRecord
    <3>3. rec'[p] = [rec[p] EXCEPT !.integrity = FALSE] /\ rec' \in [Peer -> DurableRecord]
        BY <2>2, <3>2, Types DEF PairTypes
    <3>4. rec'[p].flags = rec[p].flags /\ rec'[p].successor = rec[p].successor
        BY <3>1, <3>3 DEF DurableRecord
    <3> QED BY <2>2, <3>3, <3>4, Types DEF PairTypes
  <2> QED BY <1>1, <2>1, <2>2
<1>4. faults' \in [crashes : Nat, retries : Nat]
    BY <1>1, BoundsAssumption, Types DEF PairTypes
<1>5. TypeOK'
    BY <1>1, <1>3, <1>4, Types DEF PairTypes, NoTx
<1>6. RecordOK(rec[p], p)' /\ RecordOK(old[p], p)'
    BY <1>1, <1>2, <1>3 DEF PeerOK, RecordOK
<1>7. PeerOK(p)'
  <2>1. tx'[p].step = 0 /\ state'[p] = "DOWN"
      BY <1>1, Types DEF PairTypes, NoTx
  <2> QED BY <1>6, <2>1, Stopped
<1>8. StableRecovery' /\ RecordInv' /\ TxInv'
    BY <1>1, <1>3, <1>7, PeerStep
<1>9. UseInv' /\ LatchedPair'
    BY <1>1, UseKept
<1>10. ConvergedInv'
    BY <1>1 DEF ConvergedInv
<1> QED BY <1>5, <1>8, <1>9, <1>10

\* A restored snapshot is an older record of the same peer.
LEMMA RollbackStep ==
    ASSUME PairInv, NEW p \in Peer, Rollback(p)
    PROVE  PairInv'
<1> USE DEF PairInv
<1>1. /\ state[p] = "DOWN" /\ rec' = [rec EXCEPT ![p] = old[p]]
      /\ <<old, anchor, state, tx, attempt, confirmed, converged, entitled, prior, use, retry,
           lost, faults>>' = <<old, anchor, state, tx, attempt, confirmed, converged, entitled,
           prior, use, retry, lost, faults>>
    BY DEF Rollback, Up, volatile, pair
<1>2. PeerOK(p) /\ use = "none"
    BY <1>1, PeerParts, UnstableUnused
<1>3. TypeOK'
    BY <1>1, Types DEF PairTypes
<1>4. PeerOK(p)'
  <2>1. rec'[p] = old[p] /\ state'[p] = "DOWN" /\ old'[p] = old[p]
      BY <1>1, Types DEF PairTypes
  <2>2. RecordOK(rec[p], p)' /\ RecordOK(old[p], p)'
      BY <1>1, <1>2, <2>1 DEF PeerOK, RecordOK
  <2>3. tx'[p].step = 0
    <3>1. tx[p].step = 0
        BY <1>1, <1>2 DEF PeerOK, TxOK
    <3> QED BY <1>1, <3>1
  <2> QED BY <2>1, <2>2, <2>3, Stopped
<1>5. StableRecovery' /\ RecordInv' /\ TxInv'
    BY <1>1, <1>4, PeerStep DEF TypeOK
<1>6. UseInv' /\ LatchedPair'
    BY <1>1, <1>2, UseKept
<1>7. ConvergedInv'
    BY <1>1 DEF ConvergedInv
<1> QED BY <1>3, <1>5, <1>6, <1>7

\* A restart answers from the record and the anchor
\* (lineage_replace_recover_with_freshness).
LEMMA RestartStep ==
    ASSUME PairInv, NEW p \in Peer, NEW facts, Restart(p, facts)
    PROVE  PairInv'
<1> USE DEF PairInv
<1> DEFINE s == RecoverWithFreshness(rec[p].integrity, rec[p].flags, facts,
                                     rec[p].generation, anchor[p])
<1>1. /\ state[p] = "DOWN" /\ state' = [state EXCEPT ![p] = s]
      /\ <<rec, old, anchor, tx, attempt, confirmed, converged, entitled, prior, use, retry,
           lost, faults>>' = <<rec, old, anchor, tx, attempt, confirmed, converged, entitled,
           prior, use, retry, lost, faults>>
    BY DEF Restart, Up, durable, volatile, pair
<1>2. PeerOK(p) /\ use = "none"
    BY <1>1, PeerParts, UnstableUnused
<1>3. rec[p].integrity \in BOOLEAN /\ rec[p].generation \in Nat /\ anchor[p] \in Nat
    BY Types DEF PairTypes, DurableRecord
<1>4. /\ s \in {"ACTIVE_PREDECESSOR", "ACTIVE_SUCCESSOR_PREDECESSOR_RETIRED",
                "CONTINUITY_BROKEN"}
      /\ s # "CONTINUITY_BROKEN" => rec[p].integrity /\ rec[p].generation = anchor[p]
      /\ s = "ACTIVE_PREDECESSOR" => rec[p].flags = FactsAtWriteCut(0)
      /\ s = "ACTIVE_SUCCESSOR_PREDECESSOR_RETIRED" => rec[p].flags = FactsAtWriteCut(5)
    BY <1>3, Recovers
<1> HIDE DEF s
<1>5. TypeOK'
    BY <1>1, <1>4, Types DEF PairTypes, States
<1>6. PeerOK(p)'
  <2>1. /\ rec'[p] = rec[p] /\ state'[p] = s /\ old'[p] = old[p] /\ anchor'[p] = anchor[p]
        /\ tx'[p] = tx[p]
      BY <1>1, Types DEF PairTypes
  <2>2. RecordOK(rec[p], p)' /\ RecordOK(old[p], p)'
      BY <1>1, <1>2, <2>1 DEF PeerOK, RecordOK
  <2>3. tx[p].step = 0
      BY <1>1, <1>2 DEF PeerOK, TxOK
  <2>4. TxOK(p)'
      BY <1>4, <2>1, <2>3 DEF TxOK
  <2>5. /\ s = "ACTIVE_PREDECESSOR" => Pristine(p)'
        /\ s = "ACTIVE_SUCCESSOR_PREDECESSOR_RETIRED" => Committed(p)'
      BY <1>4, <2>1 DEF Pristine, Committed
  <2> QED BY <2>1, <2>2, <2>4, <2>5 DEF PeerOK
<1>7. StableRecovery' /\ RecordInv' /\ TxInv'
    BY <1>1, <1>6, PeerStep DEF TypeOK
<1>8. UseInv' /\ LatchedPair'
    BY <1>1, <1>2, UseKept
<1>9. ConvergedInv'
    BY <1>1 DEF ConvergedInv
<1> QED BY <1>5, <1>7, <1>8, <1>9

\* What a ready pair is (lineage_replace_classify_reconciliation).
LEMMA PairDecisionFacts ==
    ASSUME TypeOK
    PROVE  /\ PairDecision \in PairDecisions
           /\ PairDecision = "PAIR_SUCCESSOR_READY" =>
                 /\ \A p \in Peer : state[p] = "ACTIVE_SUCCESSOR_PREDECESSOR_RETIRED"
                 /\ SameSuccessor /\ converged = Peer
           /\ PairDecision = "PAIR_PREDECESSOR_READY" =>
                 \A p \in Peer : state[p] = "ACTIVE_PREDECESSOR"
<1> DEFINE states == {state[p] : p \in Peer}
           both == IF converged = {} THEN "none" ELSE IF converged = Peer THEN "both" ELSE "one"
           same == SameSuccessor
<1>1. PairDecision = ClassifyReconciliation(states, both, same)
    BY DEF PairDecision
<1>2. both = "both" => converged = Peer
    OBVIOUS
<1>3. \A s : states = {s} => \A p \in Peer : state[p] = s
    OBVIOUS
<1> HIDE DEF states, both, same
<1>4. /\ ClassifyReconciliation(states, both, same) \in PairDecisions
      /\ ClassifyReconciliation(states, both, same) = "PAIR_SUCCESSOR_READY" =>
            /\ states = {"ACTIVE_SUCCESSOR_PREDECESSOR_RETIRED"}
            /\ same /\ both = "both"
      /\ ClassifyReconciliation(states, both, same) = "PAIR_PREDECESSOR_READY" =>
            states = {"ACTIVE_PREDECESSOR"}
    BY DEF ClassifyReconciliation, PairDecisions
<1> QED BY <1>1, <1>2, <1>3, <1>4 DEF same

\* What a transition stands for (lineage_replace_classify_reconciliation_transition).
LEMMA TransitionFacts ==
    ASSUME NEW last \in PairDecisions, NEW now \in PairDecisions, NEW e, NEW again \in BOOLEAN,
           NEW t, t = ClassifyTransition(last, now, e, again)
    PROVE  /\ t = "RECONCILIATION_CONTINUITY_BROKEN"
                 <=> (last = "PAIR_CONTINUITY_BROKEN" \/ now = "PAIR_CONTINUITY_BROKEN")
           /\ t # "RECONCILIATION_CONTINUITY_BROKEN" =>
                 (t = "REJECT_DIVERGENCE" <=>
                     \/ now = "SUCCESSOR_DIVERGENCE"
                     \/ last = "SUCCESSOR_DIVERGENCE" /\ ~again)
           /\ t = "ACTIVATE_SUCCESSOR" => now = "PAIR_SUCCESSOR_READY"
           /\ t = "RESUME_PREDECESSOR" => now = "PAIR_PREDECESSOR_READY"
BY DEF ClassifyTransition, PairDecisions

\* One evaluation puts the pair on a lineage that both peers have, and with
\* LatchLost keeps what was found broken or diverged.
LEMMA ReconcileStep ==
    ASSUME PairInv, Reconcile
    PROVE  PairInv'
<1> USE DEF PairInv
<1> DEFINE t == ClassifyTransition(prior, PairDecision, Evidence, retry)
           d == PairDecision
<1>1. /\ use' = CASE t = "ACTIVATE_SUCCESSOR" -> "successor"
                  [] t = "RESUME_PREDECESSOR" -> "predecessor"
                  [] OTHER -> "none"
      /\ prior' = IF LatchLost /\ t = "REJECT_DIVERGENCE" THEN "SUCCESSOR_DIVERGENCE"
                  ELSE IF LatchLost /\ t = "RECONCILIATION_CONTINUITY_BROKEN"
                       THEN "PAIR_CONTINUITY_BROKEN"
                  ELSE d
      /\ retry' = FALSE
      /\ lost' = CASE lost = "broken" \/ d = "PAIR_CONTINUITY_BROKEN" -> "broken"
                   [] lost # "broken" /\ d = "SUCCESSOR_DIVERGENCE" -> "diverged"
                   [] OTHER -> lost
      /\ <<rec, old, anchor, state, tx, attempt, confirmed, converged, entitled, faults>>'
            = <<rec, old, anchor, state, tx, attempt, confirmed, converged, entitled, faults>>
    BY DEF Reconcile, NextPrior, durable, volatile
<1>2. /\ d \in PairDecisions
      /\ d = "PAIR_SUCCESSOR_READY" =>
            /\ \A p \in Peer : state[p] = "ACTIVE_SUCCESSOR_PREDECESSOR_RETIRED"
            /\ SameSuccessor
      /\ d = "PAIR_PREDECESSOR_READY" => \A p \in Peer : state[p] = "ACTIVE_PREDECESSOR"
    BY PairDecisionFacts
<1>3. prior \in PairDecisions /\ retry \in BOOLEAN /\ lost \in {"no", "broken", "diverged"}
    BY Types DEF PairTypes
<1>4. /\ t = "RECONCILIATION_CONTINUITY_BROKEN"
            <=> (prior = "PAIR_CONTINUITY_BROKEN" \/ d = "PAIR_CONTINUITY_BROKEN")
      /\ t # "RECONCILIATION_CONTINUITY_BROKEN" =>
            (t = "REJECT_DIVERGENCE" <=>
                \/ d = "SUCCESSOR_DIVERGENCE"
                \/ prior = "SUCCESSOR_DIVERGENCE" /\ ~retry)
      /\ t = "ACTIVATE_SUCCESSOR" => d = "PAIR_SUCCESSOR_READY"
      /\ t = "RESUME_PREDECESSOR" => d = "PAIR_PREDECESSOR_READY"
    BY <1>2, <1>3, TransitionFacts
<1> HIDE DEF t, d
<1>5. /\ prior' \in PairDecisions /\ use' \in {"none", "predecessor", "successor"}
      /\ lost' \in {"no", "broken", "diverged"}
    BY <1>1, <1>2, <1>3 DEF PairDecisions
<1>6. TypeOK'
    BY <1>1, <1>5, Types DEF PairTypes
<1>7. StableRecovery' /\ RecordInv' /\ TxInv'
    BY <1>1, StorageKept
<1>8. prior' \in {"SUCCESSOR_DIVERGENCE", "PAIR_CONTINUITY_BROKEN"} => use' = "none"
  <2>1. CASE t \in {"RECONCILIATION_CONTINUITY_BROKEN", "REJECT_DIVERGENCE"}
      BY <1>1, <2>1
  <2>2. CASE t \notin {"RECONCILIATION_CONTINUITY_BROKEN", "REJECT_DIVERGENCE"}
      BY <1>1, <1>4, <2>2
  <2> QED BY <2>1, <2>2
<1>12. ASSUME LatchLost
       PROVE  /\ lost' = "broken" <=> prior' = "PAIR_CONTINUITY_BROKEN"
              /\ lost' = "diverged" => prior' = "SUCCESSOR_DIVERGENCE" /\ ~retry'
  <2>1. lost = "broken" <=> prior = "PAIR_CONTINUITY_BROKEN"
      BY <1>12 DEF UseInv
  <2>2. lost = "diverged" => prior = "SUCCESSOR_DIVERGENCE" /\ ~retry
      BY <1>12 DEF UseInv
  <2>3. CASE t = "RECONCILIATION_CONTINUITY_BROKEN"
      BY <1>1, <1>3, <1>4, <1>12, <2>1, <2>2, <2>3
  <2>4. CASE t = "REJECT_DIVERGENCE"
      BY <1>1, <1>3, <1>4, <1>12, <2>1, <2>2, <2>4
  <2>5. CASE t \notin {"RECONCILIATION_CONTINUITY_BROKEN", "REJECT_DIVERGENCE"}
    <3>1. d \notin {"PAIR_CONTINUITY_BROKEN", "SUCCESSOR_DIVERGENCE"} /\ prior' = d /\ lost' = lost
        BY <1>1, <1>3, <1>4, <2>1, <2>5
    <3> QED BY <1>4, <2>1, <2>2, <2>5, <3>1
  <2> QED BY <2>3, <2>4, <2>5
<1>9. /\ use' = "successor" =>
            SameSuccessor' /\ \A p \in Peer : state'[p] = "ACTIVE_SUCCESSOR_PREDECESSOR_RETIRED"
      /\ use' = "predecessor" => \A p \in Peer : state'[p] = "ACTIVE_PREDECESSOR"
    BY <1>1, <1>2, <1>4 DEF SameSuccessor
<1>10. UseInv' /\ LatchedPair'
    BY <1>5, <1>8, <1>9, <1>12 DEF UseInv, LatchedPair, LostPair, BrokenStaysUnused,
            DivergedStaysUnused
<1>11. ConvergedInv'
    BY <1>1 DEF ConvergedInv
<1> QED BY <1>6, <1>7, <1>10, <1>11

\* Enrolment again starts from a divergence, with the pair out of use.
LEMMA ReenrolStep ==
    ASSUME PairInv, NEW again \in SUBSET Peer, NEW authorized \in BOOLEAN,
           Reenrol(again, authorized)
    PROVE  PairInv'
<1> USE DEF PairInv
<1>1. /\ prior = "SUCCESSOR_DIVERGENCE"
      /\ \A p \in Peer : state[p] = "ACTIVE_SUCCESSOR_PREDECESSOR_RETIRED"
      /\ <<tx, entitled, prior, use>>' = <<tx, entitled, prior, use>>
    BY DEF Reenrol
<1>2. use = "none"
    BY <1>1 DEF UseInv
<1>3. ASSUME NEW p \in Peer
      PROVE  PristineRecord(anchor[p] + 1) \in DurableRecord /\ anchor[p] + 1 \in Nat
  <2>1. anchor[p] + 1 \in Nat /\ FactsAtWriteCut(0) \subseteq RecoveryFlags
      BY Types, CutSteps DEF PairTypes
  <2> QED BY <2>1 DEF PristineRecord, DurableRecord
<1>4. TypeOK'
  <2>1. rec' \in [Peer -> DurableRecord] /\ old' \in [Peer -> DurableRecord]
      BY <1>3, Types DEF PairTypes, Reenrol
  <2>2. anchor' \in [Peer -> Nat] /\ state' \in [Peer -> States \cup {"DOWN"}]
      BY <1>3, Types DEF PairTypes, Reenrol, States
  <2>3. /\ attempt' \in [Peer -> Attempt \cup {NoAttempt}] /\ confirmed' \in [Peer -> Nat]
        /\ converged' \subseteq Peer
        /\ retry' \in BOOLEAN /\ faults' \in [crashes : Nat, retries : Nat]
      BY Types DEF PairTypes, Reenrol
  <2>4. lost' \in {"no", "broken", "diverged"}
      BY Types DEF PairTypes, Reenrol
  <2> QED BY <1>1, <2>1, <2>2, <2>3, <2>4, Types DEF PairTypes
<1>5. ASSUME NEW p \in Peer PROVE PeerOK(p)'
  <2>1. PeerOK(p) /\ tx[p].step = 0
    <3>1. PeerOK(p)
        BY PeerParts
    <3> QED BY <1>1, <3>1 DEF PeerOK, TxOK
  <2>2. CASE p \notin again
    <3>1. /\ rec'[p] = rec[p] /\ old'[p] = old[p] /\ anchor'[p] = anchor[p]
          /\ state'[p] = state[p] /\ tx'[p] = tx[p] /\ entitled' = entitled
        BY <1>1, <2>2 DEF Reenrol
    <3> QED BY <2>1, <3>1, PeerKept
  <2>3. CASE p \in again
    <3>1. /\ rec'[p] = PristineRecord(anchor[p] + 1) /\ old'[p] = rec[p]
          /\ anchor'[p] = anchor[p] + 1 /\ state'[p] = "ACTIVE_PREDECESSOR"
          /\ tx'[p] = tx[p] /\ entitled' = entitled
        BY <1>1, <2>3 DEF Reenrol
    <3>2. Pristine(p)'
        BY <3>1 DEF Pristine, PristineRecord
    <3>3. rec'[p].flags = FactsAtWriteCut(0)
        BY <3>1 DEF PristineRecord
    <3>4. RecordOK(rec[p], p)'
        BY <3>3, CutSteps DEF RecordOK
    <3>5. RecordOK(old[p], p)'
        BY <2>1, <3>1 DEF PeerOK, RecordOK
    <3>6. TxOK(p)'
        BY <2>1, <3>1 DEF TxOK
    <3> QED BY <3>1, <3>2, <3>4, <3>5, <3>6 DEF PeerOK
  <2> QED BY <2>2, <2>3
<1>6. StableRecovery' /\ RecordInv' /\ TxInv'
    BY <1>5 DEF StableRecovery, RecordInv, TxInv, PeerOK
<1>7. UseInv' /\ LatchedPair'
  <2>1. use' = "none" /\ prior' = "SUCCESSOR_DIVERGENCE"
      BY <1>1, <1>2
  <2>2. ASSUME LatchLost
        PROVE  lost' # "broken" /\ (lost' = "diverged" => ~retry')
    <3>1. lost # "broken" /\ (lost = "diverged" => ~retry)
        BY <1>1, <2>2 DEF UseInv
    <3>2. /\ retry' = (retry \/ authorized)
          /\ lost' = IF authorized /\ lost = "diverged" THEN "no" ELSE lost
        BY DEF Reenrol
    <3> QED BY <3>1, <3>2
  <2> QED BY <2>1, <2>2 DEF UseInv, LatchedPair, LostPair, BrokenStaysUnused, DivergedStaysUnused
<1>8. ConvergedInv'
  <2>1. \E p \in Peer : p \notin converged'
      BY TwoPeers DEF Reenrol
  <2> QED BY <2>1 DEF ConvergedInv
<1> QED BY <1>4, <1>6, <1>7, <1>8

-----------------------------------------------------------------------------
(* The theorems.                                                           *)

\* The pair starts in the invariant.
LEMMA PairInitial == Init => PairInv
<1> SUFFICES ASSUME Init PROVE PairInv
    OBVIOUS
<1>1. PristineRecord(0) \in DurableRecord
    BY CutSteps DEF PristineRecord, DurableRecord
<1>2. TypeOK
  <2>1. rec \in [Peer -> DurableRecord] /\ old \in [Peer -> DurableRecord]
      BY <1>1 DEF Init
  <2>2. /\ anchor \in [Peer -> Nat] /\ confirmed \in [Peer -> Nat]
        /\ tx \in [Peer -> [step : 0..5, successor : Nat]]
      BY DEF Init
  <2>3. /\ state \in [Peer -> States \cup {"DOWN"}] /\ prior \in PairDecisions
        /\ attempt \in [Peer -> Attempt \cup {NoAttempt}]
      BY DEF Init, States, PairDecisions
  <2>4. /\ converged \subseteq Peer /\ entitled \subseteq Peer
        /\ use \in {"none", "predecessor", "successor"} /\ retry \in BOOLEAN
        /\ lost \in {"no", "broken", "diverged"}
        /\ faults \in [crashes : Nat, retries : Nat]
      BY DEF Init
  <2> QED BY <2>1, <2>2, <2>3, <2>4, Types DEF PairTypes
<1>3. ASSUME NEW p \in Peer PROVE PeerOK(p)
  <2>1. /\ rec[p] = PristineRecord(0) /\ old[p] = PristineRecord(0) /\ anchor[p] = 0
        /\ state[p] = "ACTIVE_PREDECESSOR" /\ tx[p].step = 0
      BY DEF Init
  <2>2. RecordOK(PristineRecord(0), p)
      BY CutSteps DEF RecordOK, PristineRecord
  <2>3. Pristine(p) /\ TxOK(p)
      BY <2>1 DEF Pristine, PristineRecord, TxOK
  <2> QED BY <2>1, <2>2, <2>3 DEF PeerOK
<1>4. UseInv /\ LatchedPair
  <2>1. /\ prior = "PAIR_PREDECESSOR_READY" /\ use = "predecessor" /\ lost = "no"
        /\ \A p \in Peer : state[p] = "ACTIVE_PREDECESSOR"
      BY DEF Init
  <2> QED BY <2>1 DEF UseInv, LatchedPair, LostPair, BrokenStaysUnused, DivergedStaysUnused
<1>5. ConvergedInv
    BY TwoPeers DEF Init, ConvergedInv
<1> QED BY <1>2, <1>3, <1>4, <1>5, PeerParts DEF PairInv

\* Every step keeps the invariant.
LEMMA PairStep == PairInv /\ [Next]_vars => PairInv'
<1> SUFFICES ASSUME PairInv, [Next]_vars PROVE PairInv'
    OBVIOUS
<1>1. CASE UNCHANGED vars
  <2>1. TypeOK'
      BY <1>1, Types DEF PairInv, PairTypes, vars, durable, volatile, pair
  <2>2. StableRecovery' /\ RecordInv' /\ TxInv'
      BY <1>1, StorageKept DEF vars, durable
  <2>3. UseInv' /\ LatchedPair'
      BY <1>1, UseKept DEF PairInv, vars, durable, pair
  <2>4. ConvergedInv'
      BY <1>1 DEF PairInv, ConvergedInv, vars, volatile
  <2> QED BY <2>1, <2>2, <2>3, <2>4 DEF PairInv
<1>2. CASE \E p \in Peer : \E a \in Attempt : Observe(p, a) \/ Confirm(p, a.id)
    BY <1>2, ObserveStep, ConfirmStep
<1>3. CASE \E p \in Peer : \E req \in Executed : Begin(p, req)
    BY <1>3, BeginStep
<1>4. CASE \E p \in Peer : \E s \in {Peer, {p}} : Classify(p, s)
    BY <1>4, ClassifyStep
<1>5. CASE \E p \in Peer : PersistRecord(p) \/ AdvanceAnchor(p) \/ ApplyStep(p) \/ ApplyFails(p)
    BY <1>5, PersistRecordStep, AdvanceAnchorStep, ApplyStepStep, ApplyFailsStep
<1>6. CASE \E p \in Peer : Crash(p) \/ Rollback(p)
    BY <1>6, CrashStep, RollbackStep
<1>7. CASE \E p \in Peer : \/ \E f \in Flags(AnchorChecks) : Restart(p, Flags(AnchorChecks) \ {f})
                           \/ Restart(p, Flags(AnchorChecks))
    BY <1>7, RestartStep
<1>8. CASE Reconcile
    BY <1>8, ReconcileStep
<1>9. CASE \E again \in SUBSET Peer, authorized \in BOOLEAN : Reenrol(again, authorized)
    BY <1>9, ReenrolStep
<1> QED BY <1>1, <1>2, <1>3, <1>4, <1>5, <1>6, <1>7, <1>8, <1>9 DEF Next

\* The inductive invariant holds in every state.
THEOREM PairInvariant == Spec => []PairInv
BY PairInitial, PairStep, PTL DEF Spec

\* The types of the pair's state hold in every state.
THEOREM PairTypeCorrect == Spec => []TypeOK
<1>1. PairInv => TypeOK
    BY DEF PairInv
<1> QED BY <1>1, PairInvariant, PTL

\* A peer is on a lineage only when its storage says so, currently, for any
\* number of crashes, torn writes and restored snapshots
\* (lineage_replace_recover_with_freshness).
THEOREM RecoveryIsStable == Spec => []StableRecovery
<1>1. PairInv => StableRecovery
    BY DEF PairInv
<1> QED BY <1>1, PairInvariant, PTL

\* Every record is at a declared write cut, and a committed one names the
\* successor of an attempt (lineage_replace_facts_at_write_cut).
THEOREM CutsAreDeclared == Spec => []DeclaredCuts
<1>1. ASSUME PairInv PROVE DeclaredCuts
  <2> SUFFICES ASSUME NEW p \in Peer
               PROVE  /\ \E n \in 0..5 : rec[p].flags = FactsAtWriteCut(n)
                      /\ Committed(p) => \E a \in Attempt : a.successor = rec[p].successor
      BY DEF DeclaredCuts
  <2>1. RecordOK(rec[p], p)
      BY <1>1 DEF PairInv, RecordInv
  <2>2. Committed(p) => "successor_active" \in rec[p].flags
      BY CutSteps DEF Committed
  <2> QED BY <2>1, <2>2 DEF RecordOK
<1> QED BY <1>1, PairInvariant, PTL

\* Nothing of a replacement is durable unless its request was right in every
\* part (lineage_replace_execute_verified_bound_iot_core_commit).
THEOREM WritesAreEntitled == Spec => []EntitledWrites
<1>1. PairInv => EntitledWrites
    BY DEF PairInv, RecordInv, RecordOK, EntitledWrites
<1> QED BY <1>1, PairInvariant, PTL

\* A used successor is durably the same on both peers, and a used predecessor
\* is given up by neither (lineage_replace_classify_reconciliation_transition).
THEOREM PairUseIsSafe == Spec => []PairUse
<1>1. PairInv => PairUse
    BY DEF PairInv, UseInv, StableRecovery, PairUse
<1> QED BY <1>1, PairInvariant, PTL

\* An obligation on the owner, and what it buys: if the owner hands a reported
\* loss back as prior, a broken pair is never used again and a diverged one not
\* before a clean retry (lineage_replace_classify_reconciliation_transition).
\* With the previous pair decision as prior this is false.
THEOREM LostStaysLost == LatchLost => (Spec => []LostPair)
<1> SUFFICES ASSUME LatchLost PROVE Spec => []LostPair
    OBVIOUS
<1>1. PairInv => LostPair
    BY DEF PairInv, LatchedPair
<1> QED BY <1>1, PairInvariant, PTL

\* When both peers have said CONVERGED, the evidence and convergence
\* classifiers say so too (lineage_replace_classify_attempt_evidence,
\* lineage_replace_classify_convergence).
THEOREM ConvergenceIsCurrent == Spec => []ConvergedIsCurrent
<1>1. ASSUME PairInv PROVE ConvergedIsCurrent
  <2> SUFFICES ASSUME converged = Peer
               PROVE  /\ Evidence = "FRESH_CURRENT_ATTEMPT"
                      /\ ClassifyConvergence(ConvergenceFacts) = "CONVERGED"
      BY DEF ConvergedIsCurrent
  <2>1. \A p, q \in Peer : /\ attempt[p] = attempt[q] /\ attempt[p].id # 0
                           /\ confirmed[p] = attempt[p].id
      BY <1>1 DEF PairInv, ConvergedInv
  <2>2. Local \in Peer /\ Other(Local) \in Peer
      BY TwoPeers
  <2>3. Evidence = "FRESH_CURRENT_ATTEMPT"
    <3>1. /\ attempt[Local].id = attempt[Other(Local)].id /\ attempt[Local].id # 0
          /\ confirmed[Local] = attempt[Local].id
          /\ confirmed[Other(Local)] = attempt[Other(Local)].id
        BY <2>1, <2>2
    <3> QED BY <3>1 DEF Evidence, ClassifyAttemptEvidence
  <2>4. /\ \A p, q \in Peer : attempt[p].successor = attempt[q].successor
        /\ \A p \in Peer : confirmed[p] = attempt[p].id
      BY <2>1
  <2>5. {"local_authorized", "peer_authorized", "same_successor", "local_confirmed",
         "peer_confirmed"} \subseteq ConvergenceFacts
      BY <2>4 DEF ConvergenceFacts
  <2>6. Flags(ConvergenceChecks) \subseteq ConvergenceFacts
      BY <2>5, TableFlags
  <2> QED BY <2>3, <2>6, ConvergenceAccepts
<1> QED BY <1>1, PairInvariant, PTL

\* Use of the successor begins only with both peers committed to the same one
\* and both holding the confirmation of one current attempt
\* (lineage_replace_classify_reconciliation_transition).
THEOREM UseIsEarned == Spec => EarnedUse
<1> DEFINE Earned ==
        use' = "successor" /\ use # "successor" =>
            /\ \A p \in Peer : Committed(p) /\ confirmed[p] = attempt[p].id /\ confirmed[p] # 0
            /\ SameSuccessor /\ \A p, q \in Peer : attempt[p] = attempt[q]
<1>1. ASSUME PairInv, [Next]_vars PROVE [Earned]_vars
  <2> SUFFICES ASSUME Next, use' = "successor", use # "successor"
               PROVE  /\ \A p \in Peer : /\ Committed(p)
                                         /\ confirmed[p] = attempt[p].id /\ confirmed[p] # 0
                      /\ SameSuccessor /\ \A p, q \in Peer : attempt[p] = attempt[q]
      BY <1>1
  <2>1. Reconcile
      BY DEF Next, Observe, Confirm, Begin, Classify, PersistRecord, AdvanceAnchor, ApplyStep,
             ApplyFails, Crash, Rollback, Restart, Reenrol, pair
  <2>2. PairDecision \in PairDecisions /\ prior \in PairDecisions /\ retry \in BOOLEAN
      BY <1>1, PairDecisionFacts, Types DEF PairInv, PairTypes
  <2>3. PairDecision = "PAIR_SUCCESSOR_READY"
    <3> DEFINE t == ClassifyTransition(prior, PairDecision, Evidence, retry)
    <3>1. use' = CASE t = "ACTIVATE_SUCCESSOR" -> "successor"
                   [] t = "RESUME_PREDECESSOR" -> "predecessor"
                   [] OTHER -> "none"
        BY <2>1 DEF Reconcile
    <3>2. t = "ACTIVATE_SUCCESSOR"
        BY <3>1
    <3> QED BY <2>2, <3>2, TransitionFacts
  <2>4. /\ \A p \in Peer : state[p] = "ACTIVE_SUCCESSOR_PREDECESSOR_RETIRED"
        /\ SameSuccessor /\ converged = Peer
      BY <1>1, <2>3, PairDecisionFacts DEF PairInv
  <2>5. \A p \in Peer : Committed(p)
      BY <1>1, <2>4 DEF PairInv, StableRecovery
  <2>6. \A p, q \in Peer : /\ attempt[p] = attempt[q] /\ attempt[p].id # 0
                           /\ confirmed[p] = attempt[p].id
      BY <1>1, <2>4 DEF PairInv, ConvergedInv
  <2> QED BY <2>4, <2>5, <2>6
<1>2. PairInv /\ [Next]_vars => [Earned]_vars
    BY <1>1
<1> QED BY <1>2, PairInvariant, PTL DEF Spec, EarnedUse
=============================================================================
