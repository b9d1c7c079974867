CONSTANTS
    Block <- MCBlock
    Genesis = "g"
    Tx <- MCTx
    OutPoint <- MCOutPoint
    Script <- MCScript
    Address <- MCAddress
    NoBlock = NoBlock
    NoTx = NoTx
    HeightOf <- MCHeightOf
    TxsOf <- MCTxsOf
    Coinbase <- MCCoinbase
    Vin <- MCVin
    Creator <- MCCreator
    ScriptOf <- MCScriptOf
    AddressOf <- MCAddressOf
    SortKey <- MCSortKey
    Chains <- MCLinear
    SpendBatch = 2
    RPCWorkers = {r1, r2}
    DBWorkers = {d1}
    QueueSize = 1
    Chain <- ShortChain
    MaxFaults = 0
SPECIFICATION FairSpec
PROPERTY BackfillReturns
