SPECIFICATION Spec
CONSTANTS
    p1 = p1
    p2 = p2
    d1 = d1
    d2 = d2
    VerifierOrder <- MCVerifiers
    Draws <- MCTwoDraws
    MAX_INTEGER = 2147483647
    MAX_SEED = 2147483647
    Process = {p1, p2}
    Command <- MCShell
    Available = {}
    Answer <- MCAnswer
    EditedExperiment <- MCNoEdits
    EditedIntent <- MCReseeded
    Qubits = 2
    Layers = 1
    Orders <- MCOrders
    Size <- MCNoSize
    Rounds = 0
    Instants = {0}
    MaxSecrets = 3
    Idle = Idle
    Torn = Torn
    Nothing = Nothing
SYMMETRY MCSymmetry
INVARIANTS
    OneRunPerIntent
    PermitCoversRun
    RunIsFrozen
    ClaimsTrue
