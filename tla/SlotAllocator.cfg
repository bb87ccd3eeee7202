CONSTANTS
    NoUtxo = NoUtxo
    Data = Data
    Occupied = Occupied
    NoAnswer = NoAnswer
    Idle = Idle
    ConfirmedStart = 3
    LastSlot = 6
SPECIFICATION Spec
INVARIANT TypeOK
PROPERTIES Implements AllocationReturns
