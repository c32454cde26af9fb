---------------------------- MODULE MCSimulator ----------------------------
(* All circuits of three gates on one qubit, of one and of three gates on  *)
(* two qubits and of two gates on three qubits, each drawn from twice.     *)
EXTENDS Simulator

MCVerifiers == <<"verifier-1", "verifier-2", "verifier-3">>

(* Nothing is signed here.                                                 *)
MCDraws == [intent |-> {0}, attestation |-> {0}, result |-> {0}]

gates(qubits) ==
    {[op |-> op, qubits |-> <<q>>] : op \in {"H", "X", "Z"}, q \in 0 .. qubits - 1}
    \cup {[op |-> "CX", qubits |-> <<c, t>>] :
             <<c, t>> \in {p \in (0 .. qubits - 1) \X (0 .. qubits - 1) : p[1] # p[2]}}

circuits(qubits, depth) ==
    {[qubits |-> qubits, gates |-> g, shots |-> 2] : g \in [1 .. depth -> gates(qubits)]}

MCCircuit == circuits(1, 3) \cup circuits(2, 1) \cup circuits(2, 3) \cup circuits(3, 2)

=============================================================================
