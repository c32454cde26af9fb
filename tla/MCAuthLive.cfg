SPECIFICATION FairSpec
CONSTANTS
    VerifierOrder <- MCVerifiers
    Draws <- MCDraws
    Request <- MCAllowed
    request_data <- MCRequest
    TrustFile <- MCOneTrust
    trust <- MCTrust
    Torn = Torn
    KeyFile <- MCKeyFile
    key <- MCKey
    provisioned <- MCProvisioned
    KeyChange <- MCNoChange
    ReceiptId = {r1}
    Workers = 2
    NoRequest = NoRequest
    NoTrust = NoTrust
    NoHeader = NoHeader
    NoAnswer = NoAnswer
    MaxTime = 1
PROPERTIES
    AuthorizeReturns
