SPECIFICATION Spec
CONSTANTS
  THRESHOLD = 3
  Values = {1, 2, 3}
  RandomArrays <- MCRandomArrays
  TypedArrays <- MCTypedArrays
INVARIANTS
  TypeOK
  NoOverlap
PROPERTY Sorts
