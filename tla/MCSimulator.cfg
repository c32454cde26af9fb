SPECIFICATION Spec
CONSTANTS
    VerifierOrder <- MCVerifiers
    Draws <- MCDraws
    Circuit <- MCCircuit
INVARIANTS
    TypeOK
    Normalised
    CountsAccepted
    CountsPossible
PROPERTIES
    ImplementsStatevector
