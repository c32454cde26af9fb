------------------------------- MODULE Results -------------------------------
(***************************************************************************)
(* The parts of the protected executor that keep no state (executor.py):   *)
(* the checks of its constructor and of execute(), the permit execute()    *)
(* reserves, the record it signs, and verify_result.                       *)
(***************************************************************************)
EXTENDS Protocol

(* The checks of ProtectedExecutor.__init__; the last one signs a probe    *)
(* with the result key and verifies it.                                    *)
construct_check(trust, key) ==
    LET probe == message("result", key.suite, key.identity, [probe |-> TRUE])
    IN     trust_snapshot(trust)
        ?? require(/\ key.identity = trust.executor_id
                   /\ key.suite = trust.policy.suite, "EXECUTOR_KEY_MISMATCH")
        ?? check_private(key.suite, key.private_keys)
        ?? verify(key.suite, trust.executor_keys,
                  sign(key.suite, key.private_keys, probe,
                       any_draw("result")), probe)

(* The adapter of an executor whose caller passes none.                    *)
default_adapter(policy) ==
    IF policy.schema_version = 2
    THEN IF policy.backend = AER_GPU THEN AER_GPU ELSE AER_CPU
    ELSE BUILTIN

(* What execute() checks before it reserves.                               *)
execute_checks(request, receipt, trust, revision, time) ==
       verify_receipt(request, receipt, trust, time)
    ?? require(revision = request.intent.parameters.experiment.backend,
               "BACKEND_MISMATCH")

(* digest("replay", {audience, subject, nonce})                            *)
intent_key(request) ==
    digest("replay", [audience |-> request.intent.audience,
                      subject  |-> request.intent.subject,
                      nonce    |-> request.intent.nonce])

(* The row that execute() reserves: reserve(receipt_id, intent_key,        *)
(* expires_at).                                                            *)
permit(request, receipt) ==
    [receipt_id |-> receipt.header.receipt_id,
     intent_key |-> intent_key(request),
     expires_at |-> receipt.header.expires_at]

(* executor._check_counts                                                  *)
check_counts(found, experiment) ==
    require(/\ DOMAIN found # {}
            /\ \A k \in DOMAIN found :
                  /\ Len(k) = experiment.qubits
                  /\ Range(k) \subseteq {0, 1}
                  /\ found[k] > 0
            /\ FoldFunction(+, 0, found) = experiment.shots,
            "RESULT_COUNTS_INVALID")

result_body(request, receipt, trust, time, found) ==
    [executor_id    |-> trust.executor_id,
     suite          |-> trust.policy.suite,
     audience       |-> request.intent.audience,
     action_digest  |-> digest("intent", request.intent),
     frozen_digest  |-> request.intent.parameters.frozen_digest,
     receipt_digest |-> digest("receipt", receipt),
     receipt_id     |-> receipt.header.receipt_id,
     backend        |-> request.intent.parameters.experiment.backend,
     executed_at    |-> time,
     counts         |-> found]

(* The record execute() signs with the result key and returns.             *)
record(request, receipt, trust, key, time, found, draw) ==
    LET body == result_body(request, receipt, trust, time, found)
    IN  [body       |-> body,
         signatures |-> sign(key.suite, key.private_keys,
                             message("result", key.suite, key.identity,
                                     body), draw)]

(* Mutant: the receipt may be another one for the same intent.             *)
verify_result_for_intent(result, request, receipt, trust) ==
    LET body == result.body
    IN     trust_snapshot(trust)
        ?? require(body.executor_id = trust.executor_id, "EXECUTOR_UNKNOWN")
        ?? verify(body.suite, trust.executor_keys, result.signatures,
                  message("result", body.suite, body.executor_id, body))
        ?? verify_receipt(request, receipt, trust, body.executed_at)
        ?? require(body.action_digest = digest("intent", request.intent),
                   "RESULT_ACTION_MISMATCH")

(* executor.verify_result: provenance at the claimed execution time.       *)
verify_result(result, request, receipt, trust) ==
    LET body == result.body
    IN     trust_snapshot(trust)
        ?? require(body.executor_id = trust.executor_id, "EXECUTOR_UNKNOWN")
        ?? require(body.suite = trust.policy.suite, "SUITE_MISMATCH")
        ?? verify(body.suite, trust.executor_keys, result.signatures,
                  message("result", body.suite, body.executor_id, body))
        ?? verify_receipt(request, receipt, trust, body.executed_at)
        ?? check_counts(body.counts, request.intent.parameters.experiment)
        ?? require(body.action_digest = digest("intent", request.intent),
                   "RESULT_ACTION_MISMATCH")
        ?? require(body.frozen_digest
                       = request.intent.parameters.frozen_digest,
                   "RESULT_SPEC_MISMATCH")
        ?? require(/\ body.receipt_digest = digest("receipt", receipt)
                   /\ body.receipt_id = receipt.header.receipt_id,
                   "RESULT_RECEIPT_MISMATCH")
        ?? require(body.backend
                       = request.intent.parameters.experiment.backend,
                   "BACKEND_MISMATCH")
        ?? require(body.audience = trust.policy.audience, "AUDIENCE_MISMATCH")

=============================================================================
