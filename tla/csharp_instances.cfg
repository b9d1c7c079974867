CONSTANTS
    Block <- MCBlock
    Genesis = "g"
    Tx <- MCTx
    OutPoint <- MCOutPoint
    Script <- MCScript
    Address <- MCAddress
    NoBlock = NoBlock
    NoTx = NoTx
    HeightOf <- MCHeightOf
    TxsOf <- MCTxsOf
    Coinbase <- MCCoinbase
    Vin <- MCVin
    Creator <- MCCreator
    ScriptOf <- MCScriptOf
    AddressOf <- MCAddressOf
    SortKey <- MCSortKey
    Chains <- ShortForked
    SpendBatch = 2
    Instance = {hosted, request}
    Hosted = hosted
    Watched = {"s3"}
    MaxFaults = 1
SPECIFICATION Spec
INVARIANTS
    BlockInfoMatches
    ProgressBacked
    SpentByStoredSpender
PROPERTIES
    SavedStays
    ImplementsArchive
CHECK_DEADLOCK FALSE
