SPECIFICATION Spec
CONSTANTS
  MAX = 6
  Ids <- MCIds
  Sizes <- MCSizes
  Types <- MCTypes
INVARIANT FindsMinSuitable
