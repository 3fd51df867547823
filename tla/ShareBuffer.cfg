CONSTANTS
  Slot = {1, 2}
  Blocks <- AllBlocks
  Cuts <- AllCuts
  HashSize = 2
  TagSize = 1
  AnchorSize = 2
  VarintSize = 10
SPECIFICATION Spec
INVARIANTS
  UsableLoaded
  NothingElse
