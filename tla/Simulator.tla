----------------------------- MODULE Simulator -----------------------------
(***************************************************************************)
(* The built-in simulator (simulator.StatevectorSimulator.run): the state  *)
(* is a list of 2^n amplitudes that every gate changes in place, one index *)
(* after the other, and the counts are drawn from the squares of the       *)
(* amplitudes.                                                             *)
(*                                                                         *)
(* Bit q of an index is qubit q.  Arithmetic is exact: amplitudes are      *)
(* integers, to be divided by the square root of a power of two.           *)
(***************************************************************************)
EXTENDS Results

CONSTANT Circuit        \* circuits: qubits, gates and shots

(* What an Experiment may say, and what policy_checks has found of its     *)
(* gates before an executor runs it.                                       *)
ASSUME CircuitAssumption ==
    \A c \in Circuit :
       /\ c.qubits \in 1 .. 8
       /\ c.shots \in Nat \ {0}
       /\ c.gates \in Seq([op : {"H", "X", "Z", "CX"}, qubits : Seq(Int)])
       /\ \A i \in DOMAIN c.gates : gate_valid(c.gates[i], c.qubits)

VARIABLES
    circuit,
    applied,            \* gates done; the loop is about the next one
    index,              \* the index the inner loop has come to
    state,
    scale,              \* of the amplitudes: doubled by every H
    before,             \* history: the state before the gate
    counts              \* what was drawn: the key of an outcome, how often

vars == <<circuit, applied, index, state, scale, before, counts>>

(* 1 << q                                                                  *)
shift[q \in 0 .. 8] == IF q = 0 THEN 1 ELSE 2 * shift[q - 1]

size == shift[circuit.qubits]

bit_set(i, q) == (i \div shift[q]) % 2 = 1

Init ==
    /\ circuit \in Circuit
    /\ applied = 0
    /\ index = 0
    /\ state = [i \in 0 .. size - 1 |-> IF i = 0 THEN 1 ELSE 0]
    /\ before = state
    /\ scale = 1
    /\ counts = [k \in {} |-> 0]

current == circuit.gates[applied + 1]

(* The body of the inner loop of CX.                                       *)
controlled(i, gate) ==
    LET other == i + shift[gate.qubits[2]] IN
    IF bit_set(i, gate.qubits[1]) /\ ~ bit_set(i, gate.qubits[2])
    THEN [state EXCEPT ![i] = state[other], ![other] = state[i]]
    ELSE state

(* Mutant: X is taken for the indices of both halves.                      *)
single_everywhere(i, gate) ==
    LET bit   == shift[gate.qubits[1]]
        other == IF bit_set(i, gate.qubits[1]) THEN i - bit ELSE i + bit
    IN  IF gate.op = "X"
        THEN [state EXCEPT ![i] = state[other], ![other] = state[i]]
        ELSE state

(* Mutant: two assignments, one after the other, where there is one.       *)
single_sequential(i, gate) ==
    LET other == i + shift[gate.qubits[1]] IN
    IF bit_set(i, gate.qubits[1]) THEN state
    ELSE CASE gate.op = "H" -> [state EXCEPT ![i] = @ + state[other],
                                             ![other] = state[i]]
           [] gate.op = "X" -> [state EXCEPT ![i] = state[other]]
           [] gate.op = "Z" -> [state EXCEPT ![other] = - @]

(* The body of the inner loop of the other gates: continue, or H, X, Z.    *)
single(i, gate) ==
    LET other == i + shift[gate.qubits[1]] IN
    IF bit_set(i, gate.qubits[1]) THEN state
    ELSE CASE gate.op = "H" -> [state EXCEPT ![i] = @ + state[other],
                                             ![other] = state[i] - @]
           [] gate.op = "X" -> [state EXCEPT ![i] = state[other],
                                             ![other] = state[i]]
           [] gate.op = "Z" -> [state EXCEPT ![other] = - @]

Pair ==
    /\ applied < Len(circuit.gates)
    /\ index < size
    /\ state' = IF current.op = "CX" THEN controlled(index, current)
                ELSE single(index, current)
    /\ index' = index + 1
    /\ UNCHANGED <<circuit, applied, scale, before, counts>>

(* The inner loop has ended.                                               *)
NextGate ==
    /\ applied < Len(circuit.gates)
    /\ index = size
    /\ applied' = applied + 1
    /\ index' = 0
    /\ scale' = IF current.op = "H" THEN 2 * scale ELSE scale
    /\ before' = state
    /\ UNCHANGED <<circuit, state, counts>>

(* The weights that rng.choices draws by.                                  *)
weights == [i \in DOMAIN state |-> state[i] * state[i]]

drawn == FoldFunction(+, 0, counts)

(* Mutant: format(i, "b").                                                 *)
key_unpadded(i) ==
    LET width == CHOOSE w \in 1 .. circuit.qubits :
                     shift[w] > i /\ (w > 1 => shift[w - 1] <= i)
    IN  [n \in 1 .. width |-> IF bit_set(i, width - n) THEN 1 ELSE 0]

(* Mutant: the key starts with the bit of the first qubit.                 *)
key_reversed(i) == [n \in 1 .. circuit.qubits |->
                       IF bit_set(i, n - 1) THEN 1 ELSE 0]

(* format(i, "0nb"): the bits of i, the one of the last qubit first.       *)
key(i) == [n \in 1 .. circuit.qubits |->
              IF bit_set(i, circuit.qubits - n) THEN 1 ELSE 0]

(* Mutant: one shot more.                                                  *)
SampleOnceMore ==
    /\ applied = Len(circuit.gates)
    /\ drawn <= circuit.shots
    /\ counts' = [k \in DOMAIN counts \cup {key(0)} |->
                     (IF k \in DOMAIN counts THEN counts[k] ELSE 0) + 1]
    /\ UNCHANGED <<circuit, applied, index, state, scale, before>>

(* One of the choices of rng.choices, and the Counter.                     *)
Sample ==
    /\ applied = Len(circuit.gates)
    /\ drawn < circuit.shots
    /\ \E i \in DOMAIN state :
          /\ weights[i] > 0
          /\ counts' = [k \in DOMAIN counts \cup {key(i)} |->
                           (IF k \in DOMAIN counts THEN counts[k] ELSE 0)
                           + (IF k = key(i) THEN 1 ELSE 0)]
    /\ UNCHANGED <<circuit, applied, index, state, scale, before>>

(* run() has returned its counts.                                          *)
Finished ==
    /\ applied = Len(circuit.gates)
    /\ drawn = circuit.shots
    /\ UNCHANGED vars

Next == Pair \/ NextGate \/ Sample \/ Finished

Spec == Init /\ [][Next]_vars

-----------------------------------------------------------------------------
TypeOK ==
    /\ circuit \in Circuit
    /\ applied \in 0 .. Len(circuit.gates)
    /\ index \in 0 .. size
    /\ DOMAIN state = 0 .. size - 1 /\ Range(state) \subseteq Int
    /\ drawn \in 0 .. circuit.shots

(* Gates that change the list in place, index by index, keep it a state:   *)
(* the weights that rng.choices draws from always sum up to one.           *)
Normalised ==
    index = 0 => FoldFunction(+, 0, weights) = scale

(* The counts of a finished run pass the executor's _check_counts.         *)
CountsAccepted ==
    applied = Len(circuit.gates) /\ drawn = circuit.shots =>
        check_counts(counts, circuit) = OK

(* The bits of the qubits, read from an index or from a key.               *)
assignment(i) == [q \in 0 .. circuit.qubits - 1 |->
                     IF bit_set(i, q) THEN 1 ELSE 0]

index_of(b) == CHOOSE i \in 0 .. size - 1 : assignment(i) = b

(* The amplitude of an assignment, as it was when the gate began.          *)
amplitude ==
    [b \in [0 .. circuit.qubits - 1 -> {0, 1}] |-> before[index_of(b)]]

(* The loops over the list do what the gates mean, though the list is      *)
(* changed while it is read: Statevector, with a gate applied at the end   *)
(* of its loop.                                                            *)
Meaning == INSTANCE Statevector

ImplementsStatevector == Meaning!Spec

(* Every key that is counted is an outcome the circuit can give, with the  *)
(* last qubit leftmost.                                                    *)
CountsPossible ==
    \A k \in DOMAIN counts :
        amplitude[[q \in 0 .. circuit.qubits - 1 |->
                      k[circuit.qubits - q]]] # 0

=============================================================================
