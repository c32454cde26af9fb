SPECIFICATION Spec
CONSTANTS
    Process = {e1, e2}
    Row <- MCRow
    NoProcess = NoProcess
    NoRow = NoRow
    MaxTime = 2
    VerifierOrder <- MCVerifiers
    Draws <- MCDraws
    Call <- MCEvidence
    request_data <- MCRequest
    receipt_data <- MCReceipt
    TrustFile <- MCTrustFile
    trust <- MCTrust
    executor_key <- MCExecutorKey
    NoCall = NoCall
    NoTrust = NoTrust
    NoAdapter = NoAdapter
    InjectedAdapter = {"aer-statevector-cpu-v1"}
    Output <- MCGoodOutput
    NoOutput = NoOutput
INVARIANTS
    AuthorizedWhenRun
    QuorumBehindRun
PROPERTIES
    SpentOnlyByAuthorized
