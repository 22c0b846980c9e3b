SPECIFICATION AffectsSpec
CONSTANTS
  Known = {"weaken", "giant_strength", "haste", "slow", "invis", "ice_shield", "detect_invis", "faerie_fire", "chill_touch", "sleep", "fire_breath", "blindness", "cure_blindness"}
  Level = 30
  Item = {"gauntlet", "hammer", "cloak"}
  Weapon = {"hammer"}
  Gear <- MCGear
  Need <- MCNeed
  Perm = 13
  Most = 25
  Innate <- MCInnate
  Negative = {"sleep", "blindness", "fire breath", "weaken", "poison", "slow", "chill touch", "faerie fire"}
  Dispellable = {"haste", "invisibility", "weaken", "slow"}
  Deadly = {}
  MaxSpells = 2
  MaxMalus = 8
  None = None
INVARIANTS
  StatsExact
  BitsExact
  WieldedIsLight
