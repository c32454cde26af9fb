SPECIFICATION Spec
CONSTANTS
    p1 = p1
    p2 = p2
    d1 = d1
    d2 = d2
    VerifierOrder <- MCVerifiers
    Draws <- MCOneDraw
    MAX_INTEGER = 2147483647
    MAX_SEED = 2147483647
    Process = {p1, p2}
    Command <- MCSessions
    Available = {"CPU", "GPU"}
    Answer <- MCAerAnswer
    EditedExperiment <- MCBell
    EditedIntent <- MCNoEdits
    Qubits = 2
    Layers = 1
    Orders <- MCOrders
    Size <- MCSize
    Rounds = 2
    Instants = {0, 180, 300}
    MaxSecrets = 4
    Idle = Idle
    Torn = Torn
    Nothing = Nothing
INVARIANTS
    TypeOK
    TrustHasKeys
    PermitCoversRun
    DemosRefuse
    WritesReadable
    SignedDevice
    MeasurementsAreFresh
    WorkloadsAllowed
