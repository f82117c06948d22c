SPECIFICATION FairSpec
CONSTANTS
    Block <- MCBlock
    Genesis = "g"
    NoBlock = "none"
    pprev <- MCpprev
    nHeight <- MCnHeight
    nChainTrust <- MCnChainTrust
    Node <- MCNode
    Worlds <- MCWorlds
    ProofOfStake = {"2"}
    nTime <- MCnHeight
    nStakeMinAge = 2
    Limit = 2
    Retry = 1
    BlockEstimate = 0
    StartWindow = 144
    RelayWindow = 2000
INVARIANTS
    AnnouncedNotForgotten
PROPERTIES
    ComesToRest
    Converges
    AnnouncedArrives
CHECK_DEADLOCK FALSE
