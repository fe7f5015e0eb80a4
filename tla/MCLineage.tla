----------------------------- MODULE MCLineage ------------------------------
(* Attempts 1 and 2 name different successors of the same predecessor, and  *)
(* one peer may be told of attempt 1 with another successor.  Requests: one *)
(* that is right, and for every member one that is wrong in that member.    *)
EXTENDS LineagePair, TLC

CONSTANTS p1, p2
MCPeer == {p1, p2}
Sides == Permutations(MCPeer)

MCAttempt == {[id |-> 1, generation |-> 10, successor |-> 20, context |-> 30],
              [id |-> 1, generation |-> 10, successor |-> 21, context |-> 30],
              [id |-> 2, generation |-> 10, successor |-> 21, context |-> 30]}

Session == [f \in SessionFields |-> 1]
Context == [f \in ContextFields |-> IF f = "scope_bits" THEN {"SECURE_ASSOCIATION"} ELSE 1]
Valid(subject) == [valid |-> TRUE, session_id |-> 1, subject |-> subject]
Good ==
    [trigger |-> "LIFECYCLE", facts |-> FactFlags \ {"authority_valid"},
     session |-> Session, expected |-> Session, completed |-> TRUE, authz |-> Context,
     attribution |-> [f \in ContextFields \cup {"peer_identity", "credential_reference"} |->
                        IF f \in ContextFields THEN Context[f]
                        ELSE IF f = "peer_identity" THEN 5 ELSE 6],
     evidence |-> [current_proof |-> Valid(6), successor_proof |-> Valid(7),
                   predecessor_credential_reference |-> 6, successor_key_reference |-> 7,
                   expected_peer_identity |-> 5,
                   requested_successor_scope_bits |-> {"SECURE_ASSOCIATION"}]]

BadProof(pr) == {[pr EXCEPT !.valid = FALSE], [pr EXCEPT !.session_id = 2],
                 [pr EXCEPT !.subject = 9]}
Wrong(f) == IF f = "scope_bits" THEN {"SECURE_ASSOCIATION", "OTHER"} ELSE 2
Unset(f) == IF f = "scope_bits" THEN {} ELSE 0
MCRequest ==
    {Good} \cup
    {[Good EXCEPT !.trigger = t] : t \in Triggers} \cup
    {[Good EXCEPT !.facts = FactFlags \ {f}] : f \in Good.facts} \cup
    {[Good EXCEPT !.session[f] = 2] : f \in SessionFields} \cup
    {[Good EXCEPT !.completed = FALSE]} \cup
    {[Good EXCEPT !.authz[f] = Wrong(f)] : f \in ContextFields} \cup
    {[Good EXCEPT !.attribution[f] = Wrong(f)] : f \in DOMAIN Good.attribution} \cup
    {[Good EXCEPT !.authz[f] = Unset(f), !.attribution[f] = Unset(f)] : f \in ContextFields} \cup
    {[Good EXCEPT !.evidence.current_proof = pr] : pr \in BadProof(Valid(6))} \cup
    {[Good EXCEPT !.evidence.successor_proof = pr] : pr \in BadProof(Valid(7))} \cup
    {[Good EXCEPT !.evidence.requested_successor_scope_bits = s] :
        s \in {{}, {"OTHER"}, {"SECURE_ASSOCIATION", "OTHER"}}} \cup
    {[Good EXCEPT !.evidence.predecessor_credential_reference = 9,
                  !.evidence.current_proof.subject = 9]}
=============================================================================
