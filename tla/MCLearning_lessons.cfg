SPECIFICATION Spec
CONSTANTS
  dagger = dagger
  sword = sword
  calm = calm
  brew = brew
  basics = basics
  SkillList <- MCSkillList
  Group = {basics}
  Of <- MCOf
  LevelOf <- MCLevelOf
  Difficulty <- MCDifficulty
  Spell = {calm}
  Race <- MCRace
  Adept = 2
  Top = 3
  Rate = 2
  Trains = 2
  Practices = 1
  MaxStat = 1
  TrainsUp = {1, 2}
  PracticesUp = {1}
  Unlucky = FALSE
  MaxLevel = 2
  MaxSessions = 2
  None = None
INVARIANTS
  ListOrdered
  SpentIsEarned
