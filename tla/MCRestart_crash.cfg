SPECIFICATION Spec
CONSTANTS
  ann = ann
  bob = bob
  Name = {ann, bob}
  Staff = {bob}
  Rank <- Implementor
  Gift = 2
  Cap = 1
  Transfers = {"give"}
  Exits = {"quit"}
  StaleBreaks = FALSE
  DiskFull = FALSE
  Refuses = FALSE
  StaleNames = FALSE
  MaxMinted = 4
  Nil = Nil
INVARIANTS
  NoCoinTwice
  GainsAreSaved
  CopyoverKeepsAll
  RebootKeepsAll
PROPERTIES
  EntersAsSaved
