CONSTANTS
    Block <- MCBlock
    Genesis = "g"
    Tx <- MCTx
    OutPoint <- MCOutPoint
    Script <- MCScript
    Address <- MCAddress
    NoBlock = NoBlock
    NoTx = NoTx
    HeightOf <- MCHeightOf
    TxsOf <- MCTxsOf
    Coinbase <- MCCoinbase
    Vin <- MCVin
    Creator <- MCCreator
    ScriptOf <- ChangeScriptOf
    AddressOf <- MCAddressOf
    SortKey <- MCSortKey
    Chains <- MCLinear
    SpendBatch = 2
    ChunkSize = 2
    InitialScripts = {"s1"}
    MaxFaults = 2
    ConfirmationsRequired = 2
    HistoryLimits = {1, 3}
    ValueOf <- MCValueOf
SPECIFICATION ApiSpec
INVARIANTS
    EarlierOutputsSpent
    ConfirmationsPositive
    ConfirmedIsDeep
    NoDoubleCount
    BalanceNearlyExact
    HistoryCoversRows
