SPECIFICATION Spec
CONSTANTS
    Block <- MCBlock
    Genesis = "g"
    NoBlock = "none"
    pprev <- MCpprev
    nHeight <- MCnHeight
    nChainTrust <- MCnHeight
    ContextOK <- MCBlock
    Tx <- MCTx
    NoTx = "none"
    vtx <- MCvtx
    vin <- MCvin
    vout <- MCvout
    Coinbase <- MCCoinbase
    Coinstake = {}
    CoinbaseHeight <- MCCoinbaseHeight
    ScriptsOK <- MCScriptsOK
    nCoinbaseMaturity = 1
    MIN_TX_FEE = 1
    Subsidy <- MCSubsidy
    StakeLimit = 0
    MaxOut = 2
    LargeTx = {"X"}
    LocalTx = {"E"}
    MAX_ORPHAN_TRANSACTIONS = 3
INVARIANTS
    OrphansConsistent
    NoOrphanLeftBehind
PROPERTIES
    HandlerEnds
CHECK_DEADLOCK FALSE
