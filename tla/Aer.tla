--------------------------------- MODULE Aer ---------------------------------
(***************************************************************************)
(* The Aer backend (aer.py) and the workload and policy made for it        *)
(* (accelerated.py).  Qiskit Aer is outside the repository: it is known by *)
(* the devices it offers and by what it answers to a job, a record of      *)
(* success, the number of results, the device and the method it reports    *)
(* and the counts.                                                         *)
(***************************************************************************)
EXTENDS Results

AerRevision(device) == IF device = "GPU" THEN AER_GPU ELSE AER_CPU

DeviceOf(revision) == IF revision = AER_GPU THEN "GPU" ELSE "CPU"

(* aer.make_backend: the device must be there; there is no other choice.   *)
make_backend(device, available) ==
    require(device \in available, "GPU_UNAVAILABLE")

(* Mutant: the provider is trusted to have used the device it was given.   *)
run_on_any_device(revision, spec, answer) ==
       require(spec.schema_version = 2, "BACKEND_MISMATCH")
    ?? require(spec.backend = revision, "BACKEND_MISMATCH")
    ?? require(answer.success /\ answer.results = 1, "SIMULATOR_FAILED")
    ?? require(answer.method = "statevector", "SIMULATOR_METHOD_MISMATCH")

(* AerAdapter.run of an adapter for revision, when the provider answers    *)
(* the job with answer; the counts it returns are those of the answer.     *)
run_aer(revision, spec, answer) ==
       require(spec.schema_version = 2, "BACKEND_MISMATCH")
    ?? require(spec.backend = revision, "BACKEND_MISMATCH")
    ?? require(answer.success /\ answer.results = 1, "SIMULATOR_FAILED")
    ?? require(answer.device = DeviceOf(revision), "SIMULATOR_DEVICE_MISMATCH")
    ?? require(answer.method = "statevector", "SIMULATOR_METHOD_MISMATCH")

-----------------------------------------------------------------------------
gate(op, qubits) == [op |-> op, qubits |-> qubits]

(* The n-th gate of a layer of accelerated.workload: H and T on every      *)
(* qubit, then a chain of CX along a random order of the qubits.           *)
layer_gate(qubits, order, n) ==
    IF n <= 2 * qubits
    THEN gate(IF n % 2 = 1 THEN "H" ELSE "T", <<(n - 1) \div 2>>)
    ELSE gate("CX", <<order[n - 2 * qubits], order[n - 2 * qubits + 1]>>)

(* Mutant: more layers than the documents have room for.                   *)
workload_limit_30(qubits, layers) ==
    require(qubits \in 2 .. 26 /\ layers \in 1 .. 30, "WORKLOAD_LIMIT")

workload_limit(qubits, layers) ==
    require(qubits \in 2 .. 26 /\ layers \in 1 .. 20, "WORKLOAD_LIMIT")

(* accelerated.workload, with the order each layer drew.                   *)
workload(qubits, device, orders) ==
    LET size == 3 * qubits - 1 IN
    [schema_version |-> 2, backend |-> AerRevision(device), qubits |-> qubits,
     gates |-> [i \in 1 .. Len(orders) * size |->
                   layer_gate(qubits, orders[1 + ((i - 1) \div size)],
                              1 + ((i - 1) % size))],
     shots |-> 1024, seed |-> 7]

(* Mutant: another limit is lowered, and not the one that depends on it.   *)
accelerated_policy_few_shots(policy, device) ==
    [f \in DOMAIN policy \cup {"backend"} |->
        CASE f = "schema_version" -> 2
          [] f = "reference"      -> [id |-> "quantum-aer", version |-> 2]
          [] f = "backend"        -> AerRevision(device)
          [] f = "max_qubits"     -> 26
          [] f = "max_shots"      -> 1024
          [] OTHER                -> policy[f]]

(* The policy provision_accelerated derives from the built-in one.         *)
accelerated_policy(policy, device) ==
    [f \in DOMAIN policy \cup {"backend"} |->
        CASE f = "schema_version" -> 2
          [] f = "reference"      -> [id |-> "quantum-aer", version |-> 2]
          [] f = "backend"        -> AerRevision(device)
          [] f = "max_qubits"     -> 26
          [] OTHER                -> policy[f]]

=============================================================================
