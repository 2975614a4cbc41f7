CONSTANTS
  Codecs <- MCCodecs
  Seeds <- MCSeeds
SPECIFICATION Spec
INVARIANTS
  
  ReadsItsBits
