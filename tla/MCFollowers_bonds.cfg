SPECIFICATION Spec
CONSTANTS
  Pc = {s1, s2}
  Mob = {m1}
  Name = {ann, bob}
  Packs = {}
  Saves = {"pet"}
  Commands = {"follow", "charm", "fight", "tell", "remember"}
  Nil = Nil
SYMMETRY Interchangeable
INVARIANTS
  LeaderIsFollowed
  PetIsKept
  BondsAreHere
  CharmedHaveMaster
