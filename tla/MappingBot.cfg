CONSTANTS
    alice = alice
    toAlice = toAlice
    swap = swap
    bare = bare
    wallet = wallet
    d1 = d1
    d2 = d2
    t1 = t1
    t2 = t2
    NoUtxo = NoUtxo
    NoTx = NoTx
    ChangeAddress = ChangeAddress
    EmptyTag = EmptyTag
    Accounts = {alice}
    Bot = alice
    AssetNamed = {swap}
    Router = alice
    Instructions = {toAlice, swap, bare}
    Kind <- MCKind
    Recipient <- MCRecipient
    External = {wallet}
    OutputSize <- MCOutputSize
    Deposits = {d1, d2}
    DepositOuts <- MCDepositOuts
    SpendIds = {t1, t2}
    ConfirmedStart = 2
    LastSlot = 3
    TaggedScript = 111
    UntaggedScript = 78
    MaxInt64 = 1000000000
    MapInputs <- MCMapInputs
    UnmapAmounts = {5000, 8000}
    TransferAmounts = {}
    FeeRates = {}
SPECIFICATION BotSpec
PROPERTIES SpendsForgotten DepositsMapped
