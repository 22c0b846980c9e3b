SPECIFICATION AreasSpec
CONSTANTS
  Player = {"ann"}
  Mobile = {"m1"}
  Object = {"o1", "o2", "o3"}
  Kind <- MCKind
  Area = {"keep", "moor"}
  Room = {"hall", "heath"}
  AreaOf <- MCAreaOf
  Rooms <- MCRooms
  Order <- MCOrder
  School = "moor"
  Dir = {"n", "e", "s", "w"}
  Rev <- MCRev
  Exit = {"out", "in"}
  To <- MCTo
  Way <- MCWay
  Door = {"out", "in"}
  Chest = {"chest"}
  Key <- MCKey
  Shut = {"out", "in", "chest"}
  Locked = {"out", "in"}
  Reset <- MCReset
  Keeper = {}
  Sentinel = {}
  StayArea = {}
  Young = 0
  Busy = 2
  Old = 3
  Twins = {}
  Nil = "nil"
INVARIANTS
  Counted
  DoorsAgree
PROPERTIES
  ResetsStayOut
  Repopulated
