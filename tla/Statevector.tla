---------------------------- MODULE Statevector ----------------------------
(***************************************************************************)
(* What a circuit means: the state of a register assigns an amplitude to   *)
(* every assignment of bits to qubits, and a gate maps the whole state at  *)
(* once.  Every H divides all amplitudes by the square root of two, so the *)
(* amplitudes are integers over the square root of a common scale.         *)
(***************************************************************************)
EXTENDS Integers, Sequences, Functions

CONSTANT Circuit        \* a circuit: its qubits and its gates

VARIABLES
    circuit,
    applied,            \* how many gates have been applied
    amplitude, scale

Basis(qubits) == [0 .. qubits - 1 -> {0, 1}]

flip(b, q) == [b EXCEPT ![q] = 1 - @]

(* The amplitude of an assignment after a gate.                            *)
gated(gate, old, b) ==
    LET q == gate.qubits[1] IN
    CASE gate.op = "H"  -> old[[b EXCEPT ![q] = 0]]
                           + (1 - 2 * b[q]) * old[[b EXCEPT ![q] = 1]]
      [] gate.op = "X"  -> old[flip(b, q)]
      [] gate.op = "Z"  -> (1 - 2 * b[q]) * old[b]
      [] gate.op = "CX" -> old[IF b[q] = 1 THEN flip(b, gate.qubits[2])
                               ELSE b]

(* The state after a gate.                                                 *)
after(gate, old) == [b \in DOMAIN old |-> gated(gate, old, b)]

Init ==
    /\ circuit \in Circuit
    /\ applied = 0
    /\ scale = 1
    /\ amplitude = [b \in Basis(circuit.qubits) |->
                       IF Range(b) = {0} THEN 1 ELSE 0]

Apply ==
    /\ applied < Len(circuit.gates)
    /\ amplitude' = after(circuit.gates[applied + 1], amplitude)
    /\ scale' = IF circuit.gates[applied + 1].op = "H" THEN 2 * scale
                ELSE scale
    /\ applied' = applied + 1
    /\ UNCHANGED circuit

Spec == Init /\ [][Apply]_<<circuit, applied, amplitude, scale>>

=============================================================================
