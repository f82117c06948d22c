SPECIFICATION Spec
CONSTANTS
    Block <- MCBlock
    Genesis = "g"
    NoBlock = "none"
    pprev <- MCpprev
    nHeight <- MCnHeight
    nChainTrust <- MCnHeight
    Stake = {"s", "t"}
    NoStake = "pow"
    ProofOfStake <- MCProofOfStake
    Rejected = {"f"}
    Unconnectable = {"d"}
    Checkpoints <- MCBlock
INVARIANTS
    OrphansConsistent
    ArrivalOrderIrrelevant
