SPECIFICATION Spec
CONSTANTS
  Char = {ann, imp, rat}
  Mob = {rat}
  Immortal = {imp}
  Room = {hall, yard}
  Temple = hall
  Obj = {bag, box, chair, lamp, corpse}
  Bag = {bag, box}
  Corpse = {corpse}
  Lamp = {lamp}
  Seat = {chair}
  Rootbound = {corpse}
  Wearable = {bag, lamp}
  DeathDrop = {lamp}
  Stock = {bag}
  Melting = {box}
  Trash = {chair}
  Edible = {}
  NoPurge = {chair}
  Twin <- MCTwin
  Own <- MCOwn
  Mult <- MCMult
  MaxNumber = 2
  AtHome = FALSE
  Lanterns = {}
  Luggage = 2
  Crowd = 4
  Nesting = FALSE
  Nil = Nil
INVARIANTS
  CarryExact
  SeatsAreHere
  LightsCounted
  Anchored
