CONSTANTS
    alice = alice
    bob = bob
    toAlice = toAlice
    swap = swap
    wallet = wallet
    d1 = d1
    d2 = d2
    d3 = d3
    t1 = t1
    t2 = t2
    t3 = t3
    NoUtxo = NoUtxo
    NoTx = NoTx
    ChangeAddress = ChangeAddress
    EmptyTag = EmptyTag
    Accounts = {alice}
    Router = alice
    Instructions = {toAlice, swap}
    Kind <- MCKind
    Recipient <- MCRecipient
    External = {wallet}
    OutputSize <- MCOutputSize
    Deposits = {d1, d2, d3}
    DepositOuts <- CustodyOuts
    SpendIds = {t1, t2}
    ConfirmedStart = 2
    LastSlot = 3
    TaggedScript = 111
    UntaggedScript = 78
    MaxInt64 = 1000000000
    MapInputs <- MCMapInputs
    UnmapAmounts = {2000, 2110000}
    TransferAmounts = {}
    FeeRates = {1}
SPECIFICATION Spec
SYMMETRY MCSymmetry
INVARIANTS TypeOK RegistryMatchesStore TrackedOnce NoDoubleSpend SpendsListed PromotableKeepsSpend
PROPERTIES OutputsNeverLost KeepsPromises
