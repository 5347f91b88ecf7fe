SPECIFICATION Spec
CONSTANTS
  SIZE_OF_PAGE = 2
  NUM_OF_PAGE = 4
  SIZE_OF_TLB = 2
  NUM_OF_FRAME = 3
  Addresses <- MCAddresses
  MaxTime = 7
INVARIANTS
  TypeOK
  TlbCoherent
  PageTableCoherent
  ReadsBackingStore
PROPERTY IsLru
