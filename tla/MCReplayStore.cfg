SPECIFICATION StoreSpec
CONSTANTS
    Process = {p1, p2, p3}
    Row <- MCRow
    NoProcess = NoProcess
    NoRow = NoRow
    MaxTime = 2
SYMMETRY MCSymmetry
INVARIANTS
    StoreTypeOK
    LockMatchesTransaction
    UniqueReservations
    ReplyTruthful
PROPERTIES
    ReservationsDurable
