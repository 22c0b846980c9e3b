SPECIFICATION Spec
CONSTANTS
  ann = ann
  bob = bob
  rat = rat
  Player = {ann, bob}
  Mob = {rat}
  Room = {road, wood, temple}
  Temple = temple
  Safe = {temple}
  Default <- mc_Default
  Wimpy = {bob, rat}
  Basher = {ann, rat}
  Tempered = {rat}
  Harsh = {}
  Helps <- mc_Helps
  Nil = Nil
INVARIANTS Opponents
