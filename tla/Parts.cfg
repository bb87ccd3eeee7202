CONSTANTS
    NetworkModes = {"mainnet", "testnet3"}
    Owner = Owner
    Others = {other}
    CompressedKeys = {k1, k2}
    OtherFields = {Garbage}
    Routers = {r1, r2}
    Outpoints = {o1, o2}
    Nothing = Nothing
    idle = idle
    Users = {alice, bob}
    Contracts = {dex}
    Unreachable = {nobody}
    Bridge = Bridge
    Limited = {token}
    IntentLists <- MCIntentLists
    Amounts = {1, 3}
    Opening <- MCOpening
    MaxInt64 = 6
    MaxCalls = 2
    Unnamed = Unnamed
    NoTx = NoTx
    alice = alice
    bob = bob
    dex = dex
    nobody = nobody
    token = token
    Mainnet = TRUE
    Hashes = {hash}
    NilTag = NilTag
    Ages = {0, 4319, 4320}
    MaxWitness = 3
    Primary = Primary
    Backup = Backup
    BySignerOf <- MCBySignerOf
    Delay = Delay
    NoBytes = NoBytes
    One = One
    primarySig = primarySig
    backupSig = backupSig
    noSig = noSig
    Order <- MCOrder
    Foreign = Foreign
    MaxProof = 3
    Indices = {0, 5, 6, 9}
    a = a
    b = b
    c = c
    d = d
    e = e
    f = f
    Queries <- MCQueries
    BadQuery = BadQuery
    Absent = Absent
    Prefixed = {Hive, Did, OtherDid}
    BtcAddresses = {Bitcoin}
    ToLower <- MCToLower
    MaxInstructions = 3
    Hive = Hive
    Did = Did
    OtherDid = OtherDid
    Bitcoin = Bitcoin
    Hbd = Hbd
    Rune = Rune
    Base = 4
    Int64Len = 3
    Uint32Len = 2
    IdLen = 2
    ConfirmedStart = 1
    ContractStates <- SavedStates
    FeeRates = {0, 31}
    Ids = {1}
    Utxos <- SavedUtxos
    Balances = {0, 1, 3, 4, 15, 16, 20, 31}
    Error = Error
SPECIFICATION MCSpec
INVARIANTS TypeOK OutputsStaySpendable
INVARIANTS PartsTypeOK Conserved
INVARIANTS OnlyKeysSpend KeysSpend
INVARIANTS Sound Complete
INVARIANT SavedComesBack
INVARIANTS LastMembersDecide StructsComeBack
INVARIANTS OutputsFollowTheirInstruction LandsOnItsNetwork
PROPERTIES RegistrationPermanent LossesCovered
CHECK_DEADLOCK FALSE
