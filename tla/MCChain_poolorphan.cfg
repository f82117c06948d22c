SPECIFICATION Spec
CONSTANTS
    Block <- MCBlock
    Genesis = "g"
    NoBlock = "none"
    pprev <- MCpprev
    nHeight <- MCnHeight
    nChainTrust <- MCnChainTrust
    ContextOK <- MCBlock
    Tx <- MCTx
    NoTx = "none"
    vtx <- MCvtxNoC
    vin <- MCvin
    vout <- MCvout
    Coinbase <- MCCoinbase
    Coinstake = {"S"}
    CoinbaseHeight <- MCCoinbaseHeight
    ScriptsOK <- MCTx
    nCoinbaseMaturity = 2
    MIN_TX_FEE = 1
    Subsidy <- MCSubsidy
    StakeLimit <- MCStakeLimit
    MaxOut = 2
    MaxCrash = 0
    Checkpoints = {}
INVARIANTS
    PoolConnects
CHECK_DEADLOCK FALSE
