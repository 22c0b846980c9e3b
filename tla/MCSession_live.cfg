SPECIFICATION Spec
CONSTANTS
  Desc = {d1, d2}
  Slot = {s1, s2}
  Mob = {}
  Name = {ann, bob}
  Immortals = {ann}
  Commands = {"purge"}
  Pipelined = FALSE
  FilterAll = {FALSE}
  Nil = Nil
PROPERTIES
  FlaggedIsFreed
  EveryoneServed
  ImplementsPresence
