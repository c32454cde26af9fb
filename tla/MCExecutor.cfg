SPECIFICATION Spec
CONSTANTS
    Process = {e1, e2}
    Row <- MCRow
    NoProcess = NoProcess
    NoRow = NoRow
    MaxTime = 3
    VerifierOrder <- MCVerifiers
    Draws <- MCDraws
    Call <- MCRacing
    request_data <- MCRequest
    receipt_data <- MCReceipt
    TrustFile <- MCOneTrust
    trust <- MCTrust
    executor_key <- MCExecutorKey
    NoCall = NoCall
    NoTrust = NoTrust
    NoAdapter = NoAdapter
    InjectedAdapter = {}
    Output <- MCOutput
    NoOutput = NoOutput
INVARIANTS
    TypeOK
    AtMostOneRun
    RunImpliesReserved
    ProvenanceVerifies
PROPERTIES
    ImplementsAdmission
