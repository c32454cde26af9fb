------------------------------ MODULE Protocol ------------------------------
(***************************************************************************)
(* Requests, receipts and their verification against public trust anchors  *)
(* (protocol.py).  A verification is the chain of checks the source makes, *)
(* in its order; its value is OK or the code of the first check that fails.*)
(*                                                                         *)
(* Identities are strings.  The source sorts the verifier identities by    *)
(* code point; VerifierOrder lists every verifier label in that order.     *)
(* The subjects of a policy are a set, context is the pair of environment  *)
(* and project; fields with one legal value (action_type, the version of   *)
(* an intent) are left out.                                                *)
(***************************************************************************)
EXTENDS Policy, FiniteSets, Functions

CONSTANT VerifierOrder

ASSUME VerifierOrderAssumption ==
    /\ VerifierOrder \in Seq(STRING)
    /\ \A i, j \in DOMAIN VerifierOrder :
           i # j => VerifierOrder[i] # VerifierOrder[j]

smaller(a, b) == IF a <= b THEN a ELSE b

(* Bytes that do not parse as the expected model: not canonical, or with a *)
(* field missing, of another type or out of its range.                     *)
Malformed == [malformed |-> TRUE]

(* canonical.parse: strict parsing into a model.                           *)
parse(data) == require(data # Malformed, "SCHEMA_INVALID")

-----------------------------------------------------------------------------
(* A renamed shared signing key must never stand for two identities: the   *)
(* public keys of every verifier, requester and the executor are disjoint. *)
owned_keys(trust) ==
      {<<"verifier", i, trust.verifiers[i]>> : i \in DOMAIN trust.verifiers}
    \cup
      {<<"requester", i, trust.requesters[i]>> : i \in DOMAIN trust.requesters}
    \cup
      {<<"executor", trust.executor_id, trust.executor_keys>>}

distinct_keys(trust) ==
    \A a, b \in owned_keys(trust) :
        a # b => \A algorithm \in DOMAIN a[3] \cap DOMAIN b[3] :
                     a[3][algorithm] # b[3][algorithm]

(* protocol.trust_snapshot.  The source looks at the owners one by one and *)
(* may report a duplicate before a wrong component set further on.         *)
trust_snapshot(trust) ==
    LET policy == trust.policy
        ids    == policy.verifier_ids
    IN     require(ids = SelectSeq(VerifierOrder,
                                   LAMBDA i : i \in Range(ids)),
                   "TRUST_VERIFIER_IDENTITIES")
        ?? require(policy.quorum <= Len(ids), "TRUST_QUORUM")
        ?? require(DOMAIN trust.verifiers = Range(ids),
                   "TRUST_VERIFIER_IDENTITIES")
        ?? require(DOMAIN trust.requesters = policy.subjects,
                   "TRUST_REQUESTERS")
        ?? require(policy.human_above_shots <= policy.max_shots,
                   "TRUST_LIMITS")
        ?? require(policy.receipt_ttl <= policy.max_intent_ttl, "TRUST_LIMITS")
        ?? require(\A owner \in owned_keys(trust) :
                       check_public(policy.suite, owner[3]) = OK,
                   "KEY_COMPONENTS")
        ?? require(distinct_keys(trust), "TRUST_DUPLICATE_KEY")

-----------------------------------------------------------------------------
(* protocol.validate_request                                               *)
validate_request(request, trust, time) ==
    LET intent == request.intent
        policy == trust.policy
        ttl    == intent.expires_at - intent.created_at
    IN     require(intent.required_suite = policy.suite, "SUITE_MISMATCH")
        ?? require(intent.policy = policy.reference, "POLICY_MISMATCH")
        ?? require(intent.audience = policy.audience, "AUDIENCE_MISMATCH")
        ?? require(intent.created_at <= time, "INTENT_FUTURE")
        ?? require(time < intent.expires_at, "INTENT_EXPIRED")
        ?? require(0 < ttl /\ ttl <= policy.max_intent_ttl, "INTENT_TTL")
        ?? require(intent.subject \in DOMAIN trust.requesters,
                   "REQUESTER_UNKNOWN")
        ?? verify(policy.suite, trust.requesters[intent.subject],
                  request.signatures,
                  message("intent", policy.suite, intent.subject, intent))

(* protocol.new_header: a header the coordinator issues at time, for a     *)
(* request that validate_request accepts at time.                          *)
new_header(request, trust, time, receipt_id) ==
    [action_digest |-> digest("intent", request.intent),
     policy        |-> trust.policy.reference,
     policy_digest |-> digest("policy", trust.policy),
     suite         |-> trust.policy.suite,
     audience      |-> trust.policy.audience,
     verifier_set  |-> trust.policy.verifier_ids,
     quorum        |-> trust.policy.quorum,
     issued_at     |-> time,
     expires_at    |-> smaller(request.intent.expires_at,
                               time + trust.policy.receipt_ttl),
     receipt_id    |-> receipt_id]

(* Mutant: the policy is compared by its reference alone.                  *)
validate_header_by_reference(header, request, trust, time) ==
    LET intent == request.intent
        policy == trust.policy
        ttl    == header.expires_at - header.issued_at
    IN     validate_request(request, trust, time)
        ?? require(header.policy = policy.reference, "POLICY_MISMATCH")
        ?? require(header.action_digest = digest("intent", intent),
                   "ACTION_MISMATCH")
        ?? require(header.quorum = policy.quorum, "QUORUM_MISMATCH")
        ?? require(time < header.expires_at
                       /\ header.expires_at <= intent.expires_at,
                   "RECEIPT_EXPIRED")
        ?? require(0 < ttl /\ ttl <= policy.receipt_ttl, "RECEIPT_TTL")

(* Mutant: the header is not compared with the action of the request.      *)
validate_header_of_any_action(header, request, trust, time) ==
    LET intent == request.intent
        policy == trust.policy
        ttl    == header.expires_at - header.issued_at
    IN     validate_request(request, trust, time)
        ?? require(header.policy_digest = digest("policy", policy),
                   "POLICY_DIGEST_MISMATCH")
        ?? require(header.quorum = policy.quorum, "QUORUM_MISMATCH")
        ?? require(intent.created_at <= header.issued_at
                       /\ header.issued_at <= time, "RECEIPT_FUTURE")
        ?? require(time < header.expires_at, "RECEIPT_EXPIRED")
        ?? require(0 < ttl /\ ttl <= policy.receipt_ttl, "RECEIPT_TTL")

(* protocol.validate_header                                                *)
validate_header(header, request, trust, time) ==
    LET intent == request.intent
        policy == trust.policy
        ttl    == header.expires_at - header.issued_at
    IN     validate_request(request, trust, time)
        ?? require(header.suite = policy.suite, "SUITE_MISMATCH")
        ?? require(header.policy = policy.reference, "POLICY_MISMATCH")
        ?? require(header.policy_digest = digest("policy", policy),
                   "POLICY_DIGEST_MISMATCH")
        ?? require(header.action_digest = digest("intent", intent),
                   "ACTION_MISMATCH")
        ?? require(header.audience = policy.audience, "AUDIENCE_MISMATCH")
        ?? require(header.verifier_set = policy.verifier_ids,
                   "VERIFIER_SET_MISMATCH")
        ?? require(header.quorum = policy.quorum, "QUORUM_MISMATCH")
        ?? require(intent.created_at <= header.issued_at
                       /\ header.issued_at <= time, "RECEIPT_FUTURE")
        ?? require(time < header.expires_at
                       /\ header.expires_at <= intent.expires_at,
                   "RECEIPT_EXPIRED")
        ?? require(0 < ttl /\ ttl <= policy.receipt_ttl, "RECEIPT_TTL")

-----------------------------------------------------------------------------
attestation_body(request, header, trust, identity) ==
    LET verdict == evaluate(request.intent, trust.policy)
    IN  [header      |-> header,
         verifier_id |-> identity,
         disposition |-> verdict.disposition,
         predicates  |-> verdict.predicates]

attestation_signatures(body, key, draw) ==
    sign(key.suite, key.private_keys,
         message("attestation", key.suite, key.identity, body), draw)

(* protocol.attest: the checks a node makes, and the attestation it emits  *)
(* when they pass.  The last check detects a misprovisioned private key,   *)
(* for whatever the signature drew.                                        *)
attest_check(request, header, trust, key, time) ==
    LET body == attestation_body(request, header, trust, key.identity)
    IN     validate_header(header, request, trust, time)
        ?? require(key.suite = trust.policy.suite, "SUITE_MISMATCH")
        ?? require(key.identity \in DOMAIN trust.verifiers, "VERIFIER_UNKNOWN")
        ?? check_private(key.suite, key.private_keys)
        ?? verify(key.suite, trust.verifiers[key.identity],
                  attestation_signatures(body, key, any_draw("attestation")),
                  message("attestation", key.suite, key.identity, body))

attest(request, header, trust, key, draw) ==
    LET body == attestation_body(request, header, trust, key.identity)
    IN  [body |-> body, signatures |-> attestation_signatures(body, key, draw)]

-----------------------------------------------------------------------------
(* The attestations of a receipt with a given disposition.                 *)
deciding(attestations, decision) ==
    {i \in DOMAIN attestations :
        attestations[i].body.disposition = decision}

(* Mutant: one vote more than the quorum is asked for.                     *)
summarize_off_by_one(attestations, quorum) ==
    IF Cardinality(deciding(attestations, "ALLOW")) > quorum THEN "ALLOW"
    ELSE IF deciding(attestations, "DENY") # {} THEN "DENY"
    ELSE IF deciding(attestations, "HUMAN_VERIFY") # {} THEN "HUMAN_VERIFY"
    ELSE "UNKNOWN"

(* protocol.summarize: the quorum of ALLOWs, or else the first of the      *)
(* other decisions in the order of precedence of the source.               *)
summarize(attestations, quorum) ==
    IF Cardinality(deciding(attestations, "ALLOW")) >= quorum THEN "ALLOW"
    ELSE IF deciding(attestations, "DENY") # {} THEN "DENY"
    ELSE IF deciding(attestations, "HUMAN_VERIFY") # {} THEN "HUMAN_VERIFY"
    ELSE IF deciding(attestations, "ERROR") # {} THEN "ERROR"
    ELSE "UNKNOWN"

(* Mutant: nobody remembers which verifiers were seen.                     *)
inspect_without_seen(i, request, receipt, trust) ==
    LET attestation == receipt.attestations[i]
        body        == attestation.body
    IN     require(body.verifier_id \in DOMAIN trust.verifiers,
                   "VERIFIER_UNKNOWN")
        ?? require(body.header = receipt.header, "ATTESTATION_HEADER_MISMATCH")
        ?? verify(trust.policy.suite, trust.verifiers[body.verifier_id],
                  attestation.signatures,
                  message("attestation", trust.policy.suite,
                          body.verifier_id, body))

(* The body of the loop of inspect_receipt, for attestation i.             *)
inspect_attestation(i, request, receipt, trust) ==
    LET attestation == receipt.attestations[i]
        body        == attestation.body
        seen        == {receipt.attestations[j].body.verifier_id :
                            j \in 1 .. i - 1}
        expected    == evaluate(request.intent, trust.policy)
    IN     require(body.verifier_id \notin seen, "VERIFIER_DUPLICATE")
        ?? require(body.verifier_id \in DOMAIN trust.verifiers,
                   "VERIFIER_UNKNOWN")
        ?? require(body.header = receipt.header, "ATTESTATION_HEADER_MISMATCH")
        ?? verify(trust.policy.suite, trust.verifiers[body.verifier_id],
                  attestation.signatures,
                  message("attestation", trust.policy.suite,
                          body.verifier_id, body))
        ?? require(body.predicates = expected.predicates, "EVIDENCE_MISMATCH")
        ?? require(body.disposition = expected.disposition,
                   "DECISION_MISMATCH")

(* The loop: the first attestation that fails decides the code.            *)
inspect_attestations(request, receipt, trust) ==
    LET failing == {i \in DOMAIN receipt.attestations :
                       inspect_attestation(i, request, receipt, trust) # OK}
        first   == CHOOSE i \in failing : \A j \in failing : i <= j
    IN  IF failing = {} THEN OK
        ELSE inspect_attestation(first, request, receipt, trust)

(* Mutant: every eligible verifier must have voted.                        *)
inspect_complete_receipt(request, receipt, trust, time) ==
       validate_header(receipt.header, request, trust, time)
    ?? require(Len(receipt.attestations) = Len(trust.policy.verifier_ids),
               "VERIFIER_MISSING")
    ?? inspect_attestations(request, receipt, trust)
    ?? require(receipt.disposition
                   = summarize(receipt.attestations, trust.policy.quorum),
               "DISPOSITION_MISMATCH")

(* protocol.inspect_receipt, which returns summarize(...) when it succeeds *)
inspect_receipt(request, receipt, trust, time) ==
       validate_header(receipt.header, request, trust, time)
    ?? inspect_attestations(request, receipt, trust)
    ?? require(receipt.disposition
                   = summarize(receipt.attestations, trust.policy.quorum),
               "DISPOSITION_MISMATCH")

(* protocol.verify_receipt: the public authorization boundary.             *)
verify_receipt(request, receipt, trust, time) ==
       trust_snapshot(trust)
    ?? parse(request)
    ?? parse(receipt)
    ?? inspect_receipt(request, receipt, trust, time)
    ?? require(summarize(receipt.attestations, trust.policy.quorum) = "ALLOW",
               "NOT_ALLOW")
    ?? require(evaluate(request.intent, trust.policy).disposition = "ALLOW",
               "POLICY_NOT_ALLOW")

(* Attestations sorted by verifier; those of one verifier stay in order.   *)
by_verifier(attestations) ==
    LET rank(i) == CHOOSE n \in DOMAIN VerifierOrder :
                       VerifierOrder[n] = attestations[i].body.verifier_id
        upto(i) == {j \in DOMAIN attestations :
                       \/ rank(j) < rank(i)
                       \/ rank(j) = rank(i) /\ j <= i}
    IN  [n \in DOMAIN attestations |->
            attestations[CHOOSE i \in DOMAIN attestations :
                             Cardinality(upto(i)) = n]]

(* protocol.assemble: the receipt the coordinator returns when             *)
(* inspect_receipt accepts it.                                             *)
assemble(header, attestations, trust) ==
    [header       |-> header,
     disposition  |-> summarize(attestations, trust.policy.quorum),
     attestations |-> by_verifier(attestations)]

=============================================================================
