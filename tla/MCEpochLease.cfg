SPECIFICATION FairSpec
CONSTANTS
  Gens = {e1, e2}
  TTL = 2
  RPCTimeout = 1
  None = None
INVARIANTS
  ValidOwnsEpoch
  OneValidGeneration
  EpochInv
PROPERTIES
  ObservedIsFinal
  EndedEpochExpires
CHECK_DEADLOCK FALSE
