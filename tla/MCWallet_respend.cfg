SPECIFICATION UnrepairedSpec
CONSTANTS
    Block <- MCBlock
    Genesis = "g"
    NoBlock = "none"
    pprev <- MCpprev
    nHeight <- MCnHeight
    nChainTrust <- MCnChainTrust
    ContextOK <- MCBlock
    Tx <- MCTx
    NoTx = "nil"
    vtx <- MCvtx
    vin <- MCvin
    vout <- MCvout
    Coinbase <- MCCoinbase
    Coinstake = {"K"}
    CoinbaseHeight <- MCCoinbaseHeight
    ScriptsOK <- MCScriptsOK
    nCoinbaseMaturity = 1
    MIN_TX_FEE = 1
    Subsidy <- MCSubsidy
    StakeLimit <- MCStakeLimit
    MaxOut = 2
    MaxCrash = 0
    Checkpoints = {}
    Mine <- MCMine
    prevouts <- MCprevouts
    Sent = {"T", "S", "U"}
    Received = {"R"}
    MaturityMargin = 1
    COPY_DEPTH = 3
    HashOrder <- MCHashOrder
PROPERTIES
    CommitMustNotFail
CHECK_DEADLOCK FALSE
