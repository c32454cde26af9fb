SPECIFICATION Spec
CONSTANTS
    VerifierOrder <- MCVerifiers
    Draws <- MCDraws
    Request <- MCRequestName
    request_data <- MCRequest
    TrustFile <- MCPolicies
    trust <- MCTrust
    Torn = Torn
    KeyFile <- MCKeyFile
    key <- MCKey
    provisioned <- MCProvisioned
    KeyChange <- MCNoChange
    ReceiptId = {r1}
    Workers = 2
    NoRequest = NoRequest
    NoTrust = NoTrust
    NoHeader = NoHeader
    NoAnswer = NoAnswer
    MaxTime = 1
INVARIANTS
    VerdictIsPolicy
    NoMixedPolicy
    SurplusRemovable
