SPECIFICATION Spec
CONSTANTS
  Desc = {d1, d2, d3}
  Slot = {s1, s2, s3}
  Mob = {m1}
  Name = {ann, bob}
  Immortals = {ann, bob}
  Commands = {"disconnect", "snoop", "switch"}
  Pipelined = FALSE
  FilterAll = {FALSE}
  Nil = Nil
SYMMETRY Interchangeable
INVARIANTS
  OneBodyPerName
  OneLoginPerName
  NoUseAfterFree
  LinkdeadIsCut
  OneDriver
  NoSnoopLoops
PROPERTIES
  EntersUnderItsName
