CONSTANTS
    Block <- MCBlock
    Genesis = "g"
    Tx <- MCTx
    OutPoint <- MCOutPoint
    Script <- MCScript
    Address <- MCAddress
    NoBlock = NoBlock
    NoTx = NoTx
    HeightOf <- MCHeightOf
    TxsOf <- MCTxsOf
    Coinbase <- MCCoinbase
    Vin <- MCVin
    Creator <- MCCreator
    ScriptOf <- MCScriptOf
    AddressOf <- MCAddressOf
    SortKey <- MCSortKey
    Chains <- MCLinear
    SpendBatch = 2
    ChunkSize = 2
    InitialScripts = {"s1"}
    MaxFaults = 1
SPECIFICATION Spec
INVARIANT ProgressIsLastGoodBlock
