SPECIFICATION ProgramsSpec
CONSTANTS
  ann = ann
  imp = imp
  orc = orc
  hall = hall
  yard = yard
  Mob = {imp, orc}
  Player = {ann}
  Room = {hall, yard}
  MAX_NESTED_LEVEL = 4
  MAX_CALL_LEVEL = 2
  MaxDelay = 3
  Scripted = {imp}
  Commands = {"echo", "goto", "transfer", "force", "kill", "flee", "mload", "purge", "delay", "cancel", "call"}
  Home <- mc_Home
  NoOne = NoOne
INVARIANTS RunsInsideTrueBlocks
