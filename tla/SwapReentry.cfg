CONSTANTS
    alice = alice
    router = router
    toAlice = toAlice
    swap = swap
    wallet = wallet
    d1 = d1
    d2 = d2
    t1 = t1
    NoUtxo = NoUtxo
    NoTx = NoTx
    ChangeAddress = ChangeAddress
    EmptyTag = EmptyTag
    Accounts = {alice, router}
    Router = router
    Instructions = {toAlice, swap}
    Kind <- MCKind
    Recipient <- MCRecipient
    External = {wallet}
    OutputSize <- MCOutputSize
    Deposits = {d1, d2}
    DepositOuts <- MCDepositOuts
    SpendIds = {t1}
    ConfirmedStart = 2
    LastSlot = 5
    TaggedScript = 111
    UntaggedScript = 78
    MaxInt64 = 1000000000
    MapInputs <- MCMapInputs
    UnmapAmounts = {2000}
    TransferAmounts = {3000}
    FeeRates = {1}
    MaxDepth = 2
SPECIFICATION SwapSpec
INVARIANTS BalancesCreditedOnce AgreeAtRest
PROPERTY OutputsNeverLost
CHECK_DEADLOCK FALSE
