SPECIFICATION FairSpec
CONSTANTS
  p1 = p1
  p2 = p2
  c1 = c1
  c2 = c2
  Producers <- MCProducers
  Consumers <- MCConsumers
  Items <- MCItems
  BufferSize = 2
  Vacant = Vacant
INVARIANTS
  TypeOK
  SlotAccounting
  NoFailedOperation
  MutualExclusion
  NoStall
PROPERTIES
  IsBoundedBuffer
  Progress
