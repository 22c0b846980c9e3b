SPECIFICATION Spec
CONSTANTS
  Char = {imm, ann, bob}
  Obj = {o1, o2}
  Immortals = {imm}
  MinReserve = 1
  MaxReserve = 2
  AuctionPulse = 2
  Word = 32
  Wealth = 3
  Purges = FALSE
  Perishes = FALSE
  Nil = Nil
INVARIANTS
  PartiesAreHere
  HeldIsOnSale
PROPERTIES
  BidsRise
  ImplementsSale
  SalesEnd
CHECK_DEADLOCK FALSE
