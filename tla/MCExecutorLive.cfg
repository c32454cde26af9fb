SPECIFICATION FairSpec
CONSTANTS
    Process = {e1, e2}
    Row <- MCRow
    NoProcess = NoProcess
    NoRow = NoRow
    MaxTime = 2
    VerifierOrder <- MCVerifiers
    Draws <- MCDraws
    Call <- MCReissues
    request_data <- MCRequest
    receipt_data <- MCReceipt
    TrustFile <- MCOneTrust
    trust <- MCTrust
    executor_key <- MCExecutorKey
    NoCall = NoCall
    NoTrust = NoTrust
    NoAdapter = NoAdapter
    InjectedAdapter = {}
    Output <- MCGoodOutput
    NoOutput = NoOutput
PROPERTIES
    CallsReturn
