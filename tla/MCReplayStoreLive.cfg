SPECIFICATION FairStoreSpec
CONSTANTS
    Process = {p1, p2}
    Row <- MCRow
    NoProcess = NoProcess
    NoRow = NoRow
    MaxTime = 2
PROPERTIES
    ReserveReturns
