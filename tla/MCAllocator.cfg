SPECIFICATION Spec
CONSTANTS
  MAX = 6
  Ids <- MCIds
  Sizes <- MCSizes
  Types <- MCTypes
INVARIANTS
  TypeOK
  Tiling
  Coalesced
PROPERTY IsMemoryRegions
