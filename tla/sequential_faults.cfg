CONSTANTS
    Block <- MCBlock
    Genesis = "g"
    Tx <- MCTx
    OutPoint <- MCOutPoint
    Script <- MCScript
    Address <- MCAddress
    NoBlock = NoBlock
    NoTx = NoTx
    HeightOf <- MCHeightOf
    TxsOf <- MCTxsOf
    Coinbase <- MCCoinbase
    Vin <- MCVin
    Creator <- MCCreator
    ScriptOf <- MCScriptOf
    AddressOf <- MCAddressOf
    SortKey <- MCSortKey
    Chains <- MCForked
    SpendBatch = 2
    ChunkSize = 2
    InitialScripts = {"s1"}
    MaxFaults = 2
SPECIFICATION FairSpec
INVARIANTS
    BlockAtomic
    HeightIndexedOnce
    ProgressIsTruthful
    SpentOnEvidence
    InitialScriptsFollowed
    NoGap
    IInv
PROPERTIES
    ImplementsLedger
    CatchesUp
