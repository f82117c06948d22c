SPECIFICATION FairSpec
CONSTANTS
    Block <- MCBlock
    Genesis = "g"
    NoBlock = "none"
    pprev <- MCpprev
    nHeight <- MCnHeight
    nChainTrust <- MCnChainTrust
    ContextOK <- MCBlock
    Tx <- MCTx
    NoTx = "none"
    vtx <- MCvtx
    vin <- MCvin
    vout <- MCvout
    Coinbase <- MCCoinbase
    Coinstake = {"S"}
    CoinbaseHeight <- MCCoinbaseHeight
    ScriptsOK <- MCTx
    nCoinbaseMaturity = 2
    MIN_TX_FEE = 1
    Subsidy <- MCSubsidy
    StakeLimit <- MCStakeLimit
    MaxOut = 2
    MaxCrash = 1
    Checkpoints = {"a1", "a2", "b3", "b4"}
INVARIANTS
    ChainConsistent
    IndexConsistent
    MoneySupplyIsUnspent
    PoolConsistent
    BestIsHeaviestSound
    TemplatesConnect
PROPERTIES
    CheckpointOnlyAdvances
    BlocksOnlyRaiseTrust
    ImplementsLedger
    SetBestChainReturns
CHECK_DEADLOCK FALSE
