SPECIFICATION Spec
CONSTANTS
  MAX_OPS = 5
  MAX_STACK = 9
  MAX_NUM = 9
  SizeOf <- MCSizeOf
  CENT = 3
  MIN_TX_FEE = 2
  KB = 4
  MaxSize = 6
  nModifierInterval = 2
  nStakeMinAge = 11
  Sections <- MCSections
  Keys = {"k1", "k2", "k3"}
  ScriptLength = 6
  Parties = 3
  CoinCount = 3
  TrunkLength = 7
  Conditions <- MCConditions
  Equivalents <- MCEquivalents
  Signatures <- MCSignatures
  Signings <- MCSignings
  Spendings <- MCSpendings
  Stakes <- MCStakes
INVARIANTS
  ConditionalsNest
  StackOpsAgree
  MultisigFindsKeys
  SigningsCombine
  CoinsSelected
  StakeKernelsDetermined
CHECK_DEADLOCK FALSE
