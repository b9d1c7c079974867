CONSTANTS
    Block <- MCBlock
    Genesis = "g"
    Tx <- MCTx
    OutPoint <- MCOutPoint
    Script <- MCScript
    Address <- MCAddress
    NoBlock = NoBlock
    NoTx = NoTx
    HeightOf <- MCHeightOf
    TxsOf <- TwoSpendersTxsOf
    Coinbase <- MCCoinbase
    Vin <- TwoSpendersVin
    Creator <- MCCreator
    ScriptOf <- MCScriptOf
    AddressOf <- MCAddressOf
    SortKey <- MCSortKey
    Chains <- MCLinear
    SpendBatch = 2
    Worker = {w1, w2}
    Chain <- MCChain
    StartHeight = 1
    RangeInterval = 2
    Watched = {"s3"}
    MaxFaults = 2
SPECIFICATION FairSpec
INVARIANTS
    ProgressNamesComplete
    RowsExplained
    
    MetricsComplete
PROPERTIES
    
    ImplementsArchive
CHECK_DEADLOCK FALSE
