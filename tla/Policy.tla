------------------------------- MODULE Policy -------------------------------
(***************************************************************************)
(* The predicate evaluator that verifier nodes and executors share         *)
(* (policy.evaluate).  Policies with schema_version 1 run the built-in     *)
(* state-vector simulator, those with schema_version 2 (AerPolicy) name    *)
(* their own backend.                                                      *)
(***************************************************************************)
EXTENDS Crypto, Integers, Sequences

BUILTIN == "builtin-statevector-v1"
AER_CPU == "aer-statevector-cpu-v1"
AER_GPU == "aer-statevector-gpu-v1"

(* A gate acts on distinct qubits of the register, two of them for CX.     *)
gate_valid(gate, qubits) ==
    /\ Len(gate.qubits) = IF gate.op = "CX" THEN 2 ELSE 1
    /\ \A i, j \in DOMAIN gate.qubits :
           i # j => gate.qubits[i] # gate.qubits[j]
    /\ \A i \in DOMAIN gate.qubits : gate.qubits[i] \in 0 .. qubits - 1

policy_backend(policy) ==
    IF policy.schema_version = 2 THEN policy.backend ELSE BUILTIN

(* Mutant: the frozen digest is whatever the requester says it is.         *)
predicates_unfrozen(intent, policy) ==
    LET spec == intent.parameters.experiment IN
    [requester_allowed      |-> intent.subject \in policy.subjects,
     target_allowed         |-> intent.target = policy.target,
     audience_matches       |-> intent.audience = policy.audience,
     context_allowed        |-> intent.context = policy.context,
     frozen_spec_matches    |->
         intent.parameters.frozen_digest.domain = "experiment",
     resources_within_limits |-> /\ spec.qubits <= policy.max_qubits
                                 /\ spec.shots <= policy.max_shots,
     circuit_well_formed    |-> \A i \in DOMAIN spec.gates :
                                    gate_valid(spec.gates[i], spec.qubits),
     backend_supported      |-> /\ spec.schema_version = policy.schema_version
                                /\ spec.backend = policy_backend(policy),
     automatic_review_limit |-> spec.shots <= policy.human_above_shots]

predicates(intent, policy) ==
    LET spec == intent.parameters.experiment IN
    [requester_allowed      |-> intent.subject \in policy.subjects,
     target_allowed         |-> intent.target = policy.target,
     audience_matches       |-> intent.audience = policy.audience,
     context_allowed        |-> intent.context = policy.context,
     frozen_spec_matches    |->
         intent.parameters.frozen_digest = digest("experiment", spec),
     resources_within_limits |-> /\ spec.qubits <= policy.max_qubits
                                 /\ spec.shots <= policy.max_shots,
     circuit_well_formed    |-> \A i \in DOMAIN spec.gates :
                                    gate_valid(spec.gates[i], spec.qubits),
     backend_supported      |-> /\ spec.schema_version = policy.schema_version
                                /\ spec.backend = policy_backend(policy),
     automatic_review_limit |-> spec.shots <= policy.human_above_shots]

disposition(found) ==
    IF \E name \in DOMAIN found \ {"automatic_review_limit"} : ~ found[name]
    THEN "DENY"
    ELSE IF ~ found.automatic_review_limit THEN "HUMAN_VERIFY" ELSE "ALLOW"

(* policy.evaluate                                                         *)
evaluate(intent, policy) ==
    LET found == predicates(intent, policy)
    IN  [disposition |-> disposition(found), predicates |-> found]

=============================================================================
