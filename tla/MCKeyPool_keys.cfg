SPECIFICATION FairSpec
CONSTANTS
  Pass = {"p", "q"}
  Timeout = {1}
  KEYPOOL = 1
  MaxKey = 4
INVARIANTS
  KeysRecoverable
  KeysHandedOutOnce
  PoolReadable
PROPERTIES
  TimedUnlockEnds
