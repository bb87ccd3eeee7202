CONSTANTS
    alice = alice
    bob = bob
    toAlice = toAlice
    swap = swap
    wallet = wallet
    d1 = d1
    d2 = d2
    d3 = d3
    t1 = t1
    t2 = t2
    t3 = t3
    NoUtxo = NoUtxo
    NoTx = NoTx
    ChangeAddress = ChangeAddress
    EmptyTag = EmptyTag
    Accounts = {alice, bob}
    Router = bob
    Instructions = {toAlice, swap}
    Kind <- MCKind
    Recipient <- MCRecipient
    External = {wallet}
    OutputSize <- MCOutputSize
    Deposits = {d1, d2}
    DepositOuts <- SpendOutsOfOne
    SpendIds = {t1}
    ConfirmedStart = 2
    LastSlot = 5
    TaggedScript = 111
    UntaggedScript = 78
    MaxInt64 = 1000000
    MapInputs <- MCMapInputs
    UnmapAmounts = {5280}
    TransferAmounts = {}
    FeeRates = {4}
SPECIFICATION Spec
INVARIANT OutputsPositive
