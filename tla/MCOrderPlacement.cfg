SPECIFICATION FairSpec
CONSTANTS
  r1 = r1
  r2 = r2
  r3 = r3
  Requests = {r1, r2, r3}
  UserIds = {1, 9}
  Users = {1}
  ProductIds = {1, 2}
  Inventoried = {1}
  Quantities <- SomeQuantities
  InitialStock <- ThreeUnits
INVARIANTS
  TypeOK
  StockConserved
  SoldCountsOrders
  OrderEventPairing
  AnswersTruthful
  NoSpuriousConflict
PROPERTIES
  ImplementsFlashSale
  EveryRequestAnswered
