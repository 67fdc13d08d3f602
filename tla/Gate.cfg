SPECIFICATION FairSpec
CONSTANTS
  Operations = {"i1", "i2", "g1", "g2", "m"}
  KindOf <- MCKindOf
  None = None
INVARIANTS
  OneHolder
  NoneForgotten

  
