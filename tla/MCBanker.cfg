SPECIFICATION FairSpec
CONSTANTS
  NUMBER_OF_CUSTOMERS = 3
  NUMBER_OF_RESOURCES = 2
  Amounts <- MCAmounts
  Endowments <- MCEndowments
  Maxima <- MCMaxima
INVARIANTS
  TypeOK
  Ledger
  StaysSafe
  PrintedOrderWorks
PROPERTIES
  NothingLost
  IsSafeBanker
  Answers
