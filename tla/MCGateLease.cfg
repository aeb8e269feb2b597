SPECIFICATION LeaseSpec
CONSTANTS
  Conns = {c1, c2, c3}
  TTL = 2
  None = None
SYMMETRY MCSymmetry
INVARIANTS
  OwnerUnlessReplaced
  OneCurrentSession
  ReplacedIsBounded
  LeaseInv
CHECK_DEADLOCK FALSE
