CONSTANTS
    Block <- MCBlock
    Genesis = "g"
    Tx <- MCTx
    OutPoint <- MCOutPoint
    Script <- MCScript
    Address <- MCAddress
    NoBlock = NoBlock
    NoTx = NoTx
    HeightOf <- MCHeightOf
    TxsOf <- SameBlockTxsOf
    Coinbase <- MCCoinbase
    Vin <- SameBlockVin
    Creator <- MCCreator
    ScriptOf <- MCScriptOf
    AddressOf <- MCAddressOf
    SortKey <- MCSortKey
    Chains <- MCLinear
    SpendBatch = 2
    ChunkSize = 2
    InitialScripts = {"s1"}
    MaxFaults = 0
SPECIFICATION Spec
INVARIANT AllSpendsMarked
