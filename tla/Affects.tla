------------------------------ MODULE Affects ------------------------------
(***************************************************************************)
(* What magic and gear do to a player (affects.c, spells.c, magic.c, the   *)
(* wearing of handler.c and the saving of save.c).  An affect in ch's list *)
(* or on a worn item changes a number and may set a flag; whoever adds or  *)
(* takes one away keeps numbers and flags in step with list and gear, and  *)
(* a wielder who becomes too weak drops the weapon in the middle of it.    *)
(*                                                                         *)
(* The player is one record; the functions of affects.c are operators from *)
(* players to players, a spell is a row of the table Spell.                *)
(***************************************************************************)
EXTENDS Integers, FiniteSets, FiniteSetsExt, SequencesExt, Loops

CONSTANTS
  Known,       \* the spells cast, rows of Spell
  Level,       \* level of those who cast them
  Item, Weapon,
  Gear,        \* item |-> affects of the object and of its template
  Need,        \* weapon |-> least strength whose get_wield_weight carries it
  Perm, Most,  \* perm_stat[STAT_STR], the most the race can have
  Innate,      \* flags of the race
  Negative,    \* skills with SPELL_AFFSTRIP
  Dispellable, \* skills with SPELL_DISPELLABLE or SPELL_CANCELABLE
  Deadly,      \* bound: skills whose hurt may kill in char_update
  MaxSpells,   \* bound: skills one is affected by
  MaxMalus,    \* bound: strength lost
  None

Loc == {"NONE", "STR", "DEX", "HITROLL", "DAMROLL", "AC", "SAVES"}

\* The AFF_ and the IMM_ words, the second ones of RES_ and VULN_ too.
AffectWord ==
  {"pollen", "invisible", "detect_invis", "detect_magic", "druid_call", "sanctuary", "faerie_fire",
   "infrared", "curse", "blind", "poison", "sneak", "hide", "sleep", "charm", "flying", "pass_door",
   "haste", "calm", "weaken", "dark_vision", "berserk", "calloused", "slow", "burning"}
ImmunityWord ==
  {"summon", "charm", "magic", "weapon", "bash", "pierce", "slash", "fire", "cold", "lightning", "acid",
   "poison", "negative", "holy", "energy", "mental", "drowning", "light", "sound", "wood", "silver",
   "iron", "illusion"}
Flag == ({"affected"} \X AffectWord) \cup ({"imm", "res", "vuln"} \X ImmunityWord)

\* Skills and spells that leave affects.
SkillWord ==
  {"acidic shield", "armor", "blindness", "burning flames", "calm", "charm person", "chill touch",
   "darkness", "detect invis", "detect magic", "druid call", "faerie fire", "farsight", "fire breath",
   "fire shield", "fireproof", "fly", "frenzy", "giant strength", "haste", "holy shield", "ice shield",
   "infravision", "invisibility", "mass invisibility", "negative shield", "pass door", "poison",
   "pollen burst", "sanctuary", "shield", "sleep", "slow", "sneak", "stone skin", "super speed",
   "water shield", "weaken", "web"}

\* An affect of an item: apply location, modifier, and bitvector with the word
\* it is a bit of; one of a spell has the skill besides.
ItemAffect == [loc : Loc, mod : Int, flag : Flag \cup {None}]
SpellAffect == [skill : SkillWord, loc : Loc, mod : Int, flag : Flag \cup {None}]

ASSUME AffectsConstants ==
  /\ Level \in Nat /\ Perm \in Nat /\ Most \in Nat /\ MaxSpells \in Nat /\ MaxMalus \in Nat
  /\ IsFiniteSet(Item) /\ Weapon \subseteq Item /\ Need \in [Weapon -> Nat]
  /\ Gear \in [Item -> Seq(ItemAffect)]
  /\ Innate \subseteq Flag /\ None \notin Flag

\* A hypothesis of the proofs: weapons have no affects on the strength that
\* carries them.
SteadyWeapons == \A i \in Weapon : \A k \in DOMAIN Gear[i] : Gear[i][k].loc # "STR"

VARIABLE ch

AffectsVars == <<ch>>

\* What is in the list of affects but deft and dash, which have neither number
\* nor flag and end whenever the player is saved.
Player ==
  [affected : Seq(SpellAffect), mod : [Loc -> Int], flags : SUBSET Flag,
   worn : SUBSET Item, has : Seq(Item), playing : BOOLEAN]

AffectsTypeOK ==
  /\ ch \in Player
  /\ ch.worn \subseteq ToSet(ch.has) /\ IsInjective(ch.has)

Affect(skill, loc, mod, flag) == [skill |-> skill, loc |-> loc, mod |-> mod, flag |-> flag]

\* AFF_ flags, and the mark of a skill that is_affected looks for.
Aff(name) == <<"affected", name>>
Skill(name) == <<"skill", name>>

Skills(w) == {w.affected[k].skill : k \in DOMAIN w.affected}
Latest(w, skill) == w.affected[SelectInSeq(w.affected, LAMBDA a : a.skill = skill)]

\* is_affected or IS_AFFECTED.
On(w, marks) == \E m \in marks : m \in w.flags \cup {Skill(s) : s \in Skills(w)}

\* get_curr_stat(ch, STAT_STR) of a mortal.
Strength(w) ==
  LET val == IF Perm + w.mod["STR"] > Most THEN Most ELSE Perm + w.mod["STR"]
  IN  IF val < 3 THEN 3 ELSE val

TooHeavy(w, i) == Need[i] > Strength(w)

----------------------------------------------------------------------------
\* affects.c and the wearing of handler.c.

Flagged(w, flag) == IF flag = None THEN w ELSE [w EXCEPT !.flags = @ \cup {flag}]

\* The number and the flag of one affect, and the flags of the race again.
Modified(w, a, add) ==
  [w EXCEPT !.mod[a.loc] = IF add THEN @ + a.mod ELSE @ - a.mod,
            !.flags = Innate \cup IF add THEN @ \cup ({a.flag} \ {None}) ELSE @ \ {a.flag}]

\* Mutant of affect_check: forgets the gear.
affect_check_list(w, flag) ==
  IF \E k \in DOMAIN w.affected : w.affected[k].flag = flag THEN Flagged(w, flag) ELSE w

\* A flag taken away stays if another affect or worn item gives it.
affect_check(w, flag) ==
  IF flag # None /\ \/ \E k \in DOMAIN w.affected : w.affected[k].flag = flag
                    \/ \E i \in w.worn : \E k \in DOMAIN Gear[i] : Gear[i][k].flag = flag
  THEN Flagged(w, flag) ELSE w

\* The weapon in hand falls to the ground.  Its own affects go with it; the
\* static depth keeps that from dropping anything else.
Dropped(w, i) ==
  LET Undo == [a \in ItemAffect |->
                 [v \in Player |-> affect_check(Modified(v, a, FALSE), a.flag)]]
  IN  [Through(Gear[i], [w EXCEPT !.worn = @ \ {i}], Undo) EXCEPT !.has = RemoveFirst(@, i)]

Weakened(w) ==
  LET heavy == {i \in w.worn \cap Weapon : TooHeavy(w, i)}
  IN  IF heavy = {} THEN w ELSE Dropped(w, CHOOSE i \in heavy : TRUE)

\* Mutant of affect_modify: the weapon stays in the hand.
affect_modify_kindly(w, a, add) == Modified(w, a, add)

affect_modify(w, a, add) ==
  LET v == Modified(w, a, add)
      z == Weakened(v)
  IN  [z EXCEPT !.flags = @ \cup Innate]

equip_char(w, i) ==
  LET Put == [a \in ItemAffect |-> [v \in Player |-> affect_modify(v, a, TRUE)]]
  IN  Through(Gear[i], [w EXCEPT !.worn = @ \cup {i}], Put)

unequip_char(w, i) ==
  LET Undo == [a \in ItemAffect |->
                 [v \in Player |-> affect_check(affect_modify(v, a, FALSE), a.flag)]]
  IN  Through(Gear[i], [w EXCEPT !.worn = @ \ {i}], Undo)

affect_to_char(w, a) == affect_modify([w EXCEPT !.affected = <<a>> \o @], a, TRUE)

affect_remove(w, a) ==
  LET v == affect_modify(w, a, FALSE)
  IN  affect_check([v EXCEPT !.affected = RemoveFirst(@, a)], a.flag)

affect_strip(w, skill) ==
  Through(w.affected, w,
          [a \in SpellAffect |->
             [v \in Player |-> IF a.skill = skill THEN affect_remove(v, a) ELSE v]])

\* Mutant of affect_join: unlinks the affect it sums up without undoing it.
affect_join_unlink(w, a) ==
  IF a.skill \notin Skills(w) THEN affect_to_char(w, a)
  ELSE LET old == Latest(w, a.skill)
       IN  affect_to_char([w EXCEPT !.affected = RemoveFirst(@, old)], [a EXCEPT !.mod = @ + old.mod])

affect_join(w, a) ==
  IF a.skill \notin Skills(w) THEN affect_to_char(w, a)
  ELSE LET old == Latest(w, a.skill)
       IN  affect_to_char(affect_remove(w, old), [a EXCEPT !.mod = @ + old.mod])

StripAll(w, skills) ==
  Over(skills \cap Skills(w), w, [s \in SkillWord |-> [v \in Player |-> affect_strip(v, s)]])

\* The numbers as list and gear have them.
Amount(list, loc) == SumFunction([k \in DOMAIN list |-> IF list[k].loc = loc THEN list[k].mod ELSE 0])
Totals(w) ==
  [loc \in Loc |-> Amount(w.affected, loc) + SumFunction([i \in w.worn |-> Amount(Gear[i], loc)])]

reset_char(w) == [w EXCEPT !.mod = Totals(w)]

strip_negative_affects(w) == reset_char(StripAll(w, Negative))

----------------------------------------------------------------------------
\* spells.c: what a spell asks and does, one row per spell.
\*   bars     marks that keep the victim from gives and joins;
\*   foe      whoever is under one of these is at most cured of cures;
\*   strips   skills that end for certain;
\*   gives    affects that affect_to_char adds;
\*   joins    affects of which affect_join adds one;
\*   again    affects in place of those the spell gave before;
\*   harms    it calls damage(), and the victim may die.

Row == [bars |-> {}, foe |-> {}, cures |-> {}, strips |-> {}, gives |-> <<>>,
        joins |-> {}, again |-> <<>>, harms |-> FALSE]

Harm == [Row EXCEPT !.harms = TRUE]
Unless(bars, gives) == [Row EXCEPT !.bars = bars, !.gives = gives]
Once(skill, loc, mod, flag) == Unless({Skill(skill)}, <<Affect(skill, loc, mod, flag)>>)
Mark(skill, flag) == <<Affect(skill, "NONE", 0, flag)>>
OnceMark(skill) == Once(skill, "NONE", 0, None)
Sense(skill, name) == Unless({Aff(name)}, Mark(skill, Aff(name)))
Cure(skill) == [Row EXCEPT !.foe = {Skill(skill)}, !.cures = {skill}]
Join(affects) == [Row EXCEPT !.joins = affects]

spell_armor == Once("armor", "AC", -((2 * Level) \div 3), None)
spell_shield == Once("shield", "AC", -100, None)
spell_stone_skin == Once("stone skin", "AC", -((4 * Level) \div 3), None)
spell_giant_strength == Once("giant strength", "STR", Level \div 15, None)
spell_weaken == Once("weaken", "STR", -(Level \div 5), Aff("weaken"))
spell_web == OnceMark("web")
spell_darkness == OnceMark("darkness")
spell_super_speed == OnceMark("super speed")
spell_farsight == [OnceMark("farsight") EXCEPT !.bars = @ \cup {Aff("blind")}]
spell_detect_invis == Sense("detect invis", "detect_invis")
spell_detect_magic == Sense("detect magic", "detect_magic")
spell_fly == Sense("fly", "flying")
spell_infravision == Sense("infravision", "infrared")
spell_pass_door == Sense("pass door", "pass_door")
spell_sanctuary == Sense("sanctuary", "sanctuary")
spell_druid_call == Sense("druid call", "druid_call")
spell_invis == Sense("invisibility", "invisible")
spell_mass_invis == Sense("mass invisibility", "invisible")
spell_charm_person == Sense("charm person", "charm")
spell_blindness ==
  Unless({Skill("blindness"), Aff("blind")}, <<Affect("blindness", "HITROLL", -Level, Aff("blind"))>>)
spell_pollenburst ==
  Unless({Skill("pollen burst")}, <<Affect("pollen burst", "DEX", -5, Aff("pollen")),
                                    Affect("pollen burst", "HITROLL", -2, Aff("blind"))>>)
spell_frenzy ==
  Unless({Skill("frenzy"), Skill("calm"), Aff("berserk")},
         <<Affect("frenzy", "HITROLL", Level \div 6, None), Affect("frenzy", "DAMROLL", Level \div 6, None),
           Affect("frenzy", "AC", 10 * (Level \div 12), None)>>)
spell_calm ==
  Unless({Skill("frenzy"), Aff("calm"), Aff("berserk")},
         <<Affect("calm", "HITROLL", -5, Aff("calm")), Affect("calm", "DAMROLL", -5, Aff("calm"))>>)

\* Haste and slow undo each other.
Pace == 1 + Cardinality({n \in {18, 25, 32} : Level >= n})
Paced(skill, mod, other) ==
  [Unless({Skill(skill), Aff(skill)}, <<Affect(skill, "DEX", mod, Aff(skill))>>)
    EXCEPT !.foe = {Aff(other)}, !.cures = {other}]

spell_haste == Paced("haste", Pace, "slow")
spell_slow == Paced("slow", -Pace, "haste")

\* A shield is a mark, a resistance and a vulnerability, and has one foe.
Shield(skill, foe, res, vuln) ==
  [Unless({Skill(skill)}, Mark(skill, None) \o Mark(skill, <<"res", res>>) \o Mark(skill, <<"vuln", vuln>>))
    EXCEPT !.foe = {Skill(f) : f \in foe}, !.cures = foe]

spell_ice_shield == Shield("ice shield", {"fire shield"}, "fire", "cold")
spell_fire_shield == Shield("fire shield", {}, "cold", "fire")  \* it looks up "ice_shield"
spell_acidic_shield == Shield("acidic shield", {"water shield"}, "drowning", "acid")
spell_water_shield == Shield("water shield", {"acidic shield"}, "acid", "drowning")
spell_holy_shield == Shield("holy shield", {"negative shield"}, "negative", "holy")
spell_negative_shield == Shield("negative shield", {"holy shield"}, "holy", "negative")

spell_fireproof == [Row EXCEPT !.strips = {"fireproof"}, !.gives = Mark("fireproof", <<"imm", "fire">>)]
spell_faerie_fire ==
  [Unless({Aff("faerie_fire")}, <<Affect("faerie fire", "AC", 2 * Level, Aff("faerie_fire")),
                                  Affect("faerie fire", "SAVES", 50, None)>>)
    EXCEPT !.again = <<Affect("faerie fire", "SAVES", 100, None),
                       Affect("faerie fire", "AC", 4 * Level, Aff("faerie_fire"))>>]

Poison(loc, mod) == Affect("poison", loc, mod, Aff("poison"))
Chill(mod) == Affect("chill touch", "STR", mod, None)
Burning(mod) == Affect("burning flames", "STR", mod, Aff("burning"))

spell_sleep == [Join(ToSet(Mark("sleep", Aff("sleep")))) EXCEPT !.bars = {Aff("sleep")}]
spell_poison == Join({Poison("STR", -2)})
spell_burning_flames == [Join({Burning(-2)}) EXCEPT !.bars = {<<"imm", "fire">>}]
spell_chill_touch == [Join({Chill(-1)}) EXCEPT !.harms = TRUE]
spell_fireball == [Join({Burning(-n) : n \in 1..25}) EXCEPT !.harms = TRUE]
spell_colour_spray == [spell_blindness EXCEPT !.harms = TRUE]
spell_frost_breath == [Join({Chill(-n) : n \in 1..(Level \div 30)}) EXCEPT !.harms = TRUE]
spell_gas_breath == [Join({Poison("STR", -1)}) EXCEPT !.harms = TRUE]
spell_fire_breath ==
  [Unless({Aff("blind")}, <<Affect("fire breath", "HITROLL", -4, Aff("blind"))>>) EXCEPT !.harms = TRUE]

spell_cure_blindness == Cure("blindness")
spell_cure_poison == Cure("poison")
spell_extinguish_flames == Cure("burning flames")
spell_revive == [Row EXCEPT !.strips = {"poison", "blindness", "sleep"}]

\* Spells that only hurt.
spell_acid_blast == Harm
spell_acid_breath == Harm
spell_acidic_rain == Harm
spell_burning_hands == Harm
spell_call_lightning == Harm
spell_cause_critical == Harm
spell_cause_light == Harm
spell_cause_serious == Harm
spell_chain_lightning == Harm
spell_demonfire == Harm
spell_earthquake == Harm
spell_energy_drain == Harm
spell_flamestrike == Harm
spell_freeze_bolt == Harm
spell_freeze_storm == Harm
spell_frost_hands == Harm
spell_general_purpose == Harm
spell_harm == Harm
spell_high_explosive == Harm
spell_lightning_bolt == Harm
spell_lightning_breath == Harm
spell_magic_missile == Harm
spell_meteor_storm == Harm
spell_monsoon == Harm
spell_ring_of_fire == Harm
spell_shocking_grasp == Harm
spell_thorns == Harm

Spell == [
  acid_blast |-> spell_acid_blast, acid_breath |-> spell_acid_breath,
  acidic_rain |-> spell_acidic_rain, acidic_shield |-> spell_acidic_shield, armor |-> spell_armor,
  blindness |-> spell_blindness, burning_flames |-> spell_burning_flames,
  burning_hands |-> spell_burning_hands, call_lightning |-> spell_call_lightning, calm |-> spell_calm,
  cause_critical |-> spell_cause_critical, cause_light |-> spell_cause_light,
  cause_serious |-> spell_cause_serious, chain_lightning |-> spell_chain_lightning,
  charm_person |-> spell_charm_person, chill_touch |-> spell_chill_touch,
  colour_spray |-> spell_colour_spray, cure_blindness |-> spell_cure_blindness,
  cure_poison |-> spell_cure_poison, darkness |-> spell_darkness, demonfire |-> spell_demonfire,
  detect_invis |-> spell_detect_invis, detect_magic |-> spell_detect_magic,
  druid_call |-> spell_druid_call, earthquake |-> spell_earthquake, energy_drain |-> spell_energy_drain,
  extinguish_flames |-> spell_extinguish_flames, faerie_fire |-> spell_faerie_fire,
  farsight |-> spell_farsight, fire_breath |-> spell_fire_breath, fire_shield |-> spell_fire_shield,
  fireball |-> spell_fireball, fireproof |-> spell_fireproof, flamestrike |-> spell_flamestrike,
  fly |-> spell_fly, freeze_bolt |-> spell_freeze_bolt, freeze_storm |-> spell_freeze_storm,
  frenzy |-> spell_frenzy, frost_breath |-> spell_frost_breath, frost_hands |-> spell_frost_hands,
  gas_breath |-> spell_gas_breath, general_purpose |-> spell_general_purpose,
  giant_strength |-> spell_giant_strength, harm |-> spell_harm, haste |-> spell_haste,
  high_explosive |-> spell_high_explosive, holy_shield |-> spell_holy_shield,
  ice_shield |-> spell_ice_shield, infravision |-> spell_infravision, invis |-> spell_invis,
  lightning_bolt |-> spell_lightning_bolt, lightning_breath |-> spell_lightning_breath,
  magic_missile |-> spell_magic_missile, mass_invis |-> spell_mass_invis,
  meteor_storm |-> spell_meteor_storm, monsoon |-> spell_monsoon,
  negative_shield |-> spell_negative_shield, pass_door |-> spell_pass_door, poison |-> spell_poison,
  pollenburst |-> spell_pollenburst, revive |-> spell_revive, ring_of_fire |-> spell_ring_of_fire,
  sanctuary |-> spell_sanctuary, shield |-> spell_shield, shocking_grasp |-> spell_shocking_grasp,
  sleep |-> spell_sleep, slow |-> spell_slow, stone_skin |-> spell_stone_skin,
  super_speed |-> spell_super_speed, thorns |-> spell_thorns, water_shield |-> spell_water_shield,
  weaken |-> spell_weaken, web |-> spell_web]

ASSUME KnownSpells == Known \subseteq DOMAIN Spell

----------------------------------------------------------------------------
\* What happens to the player.

GiveAll(w, affects) ==
  Through(affects, w, [a \in SpellAffect |-> [v \in Player |-> affect_to_char(v, a)]])

Bearable(w) == Cardinality(Skills(w)) <= MaxSpells /\ w.mod["STR"] >= -MaxMalus

\* The players a spell may leave behind, those it kills aside.  A saving
\* throw or a failed dispel leaves everything as it was.
Enchanted(w, r) ==
  IF \E k \in DOMAIN r.again : r.again[k].skill \in Skills(w)
    THEN IF ToSet(w.affected) \cap ToSet(r.again) # {} THEN {w}
         ELSE {w, GiveAll(affect_strip(w, r.again[1].skill), r.again)}
  ELSE IF On(w, r.bars) THEN {w}
  ELSE IF On(w, r.foe) THEN {w, StripAll(w, r.cures)}
  ELSE {w, GiveAll(StripAll(w, r.strips), r.gives)} \cup {affect_join(w, a) : a \in r.joins}

\* Someone's spell, potion or wand, or a breath.
Cast(s) ==
  /\ ch.playing
  /\ \E w \in Enchanted(ch, Spell[s]) :
       /\ Bearable(w)
       /\ ch' \in {w} \cup IF Spell[s].harms THEN {strip_negative_affects(w)} ELSE {}

\* Poisoned food or drink, a poisoned weapon.
Poisoned ==
  /\ ch.playing
  /\ \E a \in {Poison("NONE", 0), Poison("STR", -1)} :
       LET w == affect_join(ch, a) IN Bearable(w) /\ ch' = w

\* check_dispel may end any of the skills that dispel_magic or cancellation
\* go through; an immortal's strip ends any one, or all.
Dispel ==
  /\ ch.playing
  /\ \E skills \in SUBSET (Skills(ch) \cap Dispellable) \cup {{s} : s \in Skills(ch)} \cup {Skills(ch)} :
       ch' = StripAll(ch, skills)

\* The affects of a skill run out together in char_update.  The hurt of a
\* deadly one kills before: the walk goes on with the freed affect.
Expire(s) ==
  /\ ch.playing /\ s \in Skills(ch)
  /\ LET dead == strip_negative_affects(ch)
         late == IF dead.affected = <<>> THEN dead
                 ELSE affect_modify(dead, Latest(ch, s), FALSE)
     IN  ch' \in {affect_strip(ch, s)} \cup IF s \in Deadly THEN {late} ELSE {}

\* raw_kill of a player, who keeps what is worn, or restore_char.
Relieved == ch.playing /\ ch' = strip_negative_affects(ch)

Concealed == {Aff("hide"), Aff("invisible"), Aff("sneak")}
Concealing == {"invisibility", "mass invisibility", "sneak"}

\* Faerie fog, met or cast, and do_visible, which also ends darkness.
Reveal ==
  /\ ch.playing
  /\ \E also \in {{}, {"darkness"}} :
       ch' = [StripAll(ch, Concealing \cup also) EXCEPT !.flags = @ \ Concealed]

\* damage() shows who strikes; set_fighting wakes.
Strike ==
  /\ ch.playing
  /\ LET seen == IF On(ch, {Aff("invisible")})
                 THEN [StripAll(ch, {"invisibility", "mass invisibility"})
                        EXCEPT !.flags = @ \ {Aff("invisible")}]
                 ELSE ch
         awake == IF On(ch, {Aff("sleep")}) THEN StripAll(seen, {"sleep"}) ELSE seen
     IN  ch' = StripAll(awake, {"darkness"})

\* interpret: whoever gives a command comes out of hiding; a thief may not.
Revealed(w) == {w, [w EXCEPT !.flags = @ \ {Aff("hide")}]}

do_sneak ==
  /\ ch.playing
  /\ \E w \in Revealed(ch) :
       LET loud == IF On(w, {Aff("sneak")}) THEN affect_strip(w, "sneak") ELSE w
           quiet == affect_to_char(loud, Affect("sneak", "NONE", 0, Aff("sneak")))
       IN  ch' \in {loud, quiet} /\ Bearable(ch')

do_hide ==
  /\ ch.playing
  /\ \E w \in Revealed(ch) : ch' \in {[w EXCEPT !.flags = @ \ {Aff("hide")}], Flagged(w, Aff("hide"))}

\* wear_obj: what is wielded comes off before the new weapon is weighed.
Wear(i) ==
  /\ ch.playing /\ Contains(ch.has, i) /\ i \notin ch.worn
  /\ \E w \in Revealed(ch) :
       LET off == [j \in Weapon |-> [v \in Player |-> unequip_char(v, j)]]
           bare == IF i \in Weapon THEN Over(w.worn \cap Weapon, w, off) ELSE w
       IN  ch' = IF i \in Weapon /\ TooHeavy(bare, i) THEN bare ELSE equip_char(bare, i)

do_remove(i) ==
  /\ ch.playing /\ i \in ch.worn
  /\ \E w \in Revealed(ch) : ch' = unequip_char(w, i)

do_get(i) ==
  /\ ch.playing /\ ~Contains(ch.has, i)
  /\ \E w \in Revealed(ch) : ch' = [w EXCEPT !.has = <<i>> \o @]

do_drop(i) ==
  /\ ch.playing /\ Contains(ch.has, i) /\ i \notin ch.worn
  /\ \E w \in Revealed(ch) : ch' = [w EXCEPT !.has = RemoveFirst(@, i)]

\* do_quit saves: the file keeps the list, the numbers, the gear, and of the
\* flags the AFF_ ones.
do_quit ==
  /\ ch.playing
  /\ \E w \in Revealed(ch) :
       ch' = [w EXCEPT !.playing = FALSE, !.flags = {f \in @ : f[1] = "affected"}]

\* fread_char and fread_obj: the list comes back in reverse; each worn item is
\* taken off and put on again as it is read, with the numbers of the file.
fread_obj(w, i, worn) ==
  LET held == [w EXCEPT !.has = <<i>> \o @]
  IN  IF i \notin worn THEN held
      ELSE equip_char(unequip_char([held EXCEPT !.worn = @ \cup {i}], i), i)

Login ==
  /\ ~ch.playing
  /\ LET body == [ch EXCEPT !.affected = Reverse(@), !.flags = @ \cup Innate, !.has = <<>>, !.worn = {}]
         Read == [i \in Item |-> [v \in Player |-> fread_obj(v, i, ch.worn)]]
     IN  ch' = [reset_char(Through(Reverse(ch.has), body, Read)) EXCEPT !.playing = TRUE]

----------------------------------------------------------------------------
AffectsInit ==
  ch = [affected |-> <<>>, mod |-> [loc \in Loc |-> 0], flags |-> Innate,
        worn |-> {}, has |-> <<>>, playing |-> TRUE]

AffectsNext ==
  \/ \E s \in Known : Cast(s)
  \/ \E s \in Skills(ch) : Expire(s)
  \/ Poisoned \/ Dispel \/ Relieved \/ Reveal \/ Strike \/ do_sneak \/ do_hide \/ do_quit \/ Login
  \/ \E i \in Item : Wear(i) \/ do_remove(i) \/ do_get(i) \/ do_drop(i)

AffectsSpec == AffectsInit /\ [][AffectsNext]_AffectsVars

----------------------------------------------------------------------------
\* Every number is the sum of what list and gear give: nothing that spells,
\* deaths, gear dropped in the middle of a spell, or the player file have put
\* on stays behind when its cause is gone, or is counted twice.
StatsExact == ch.playing => ch.mod = Totals(ch)

\* Flags of what a character is under or wears.
Given(w) == {w.affected[k].flag : k \in DOMAIN w.affected}
            \cup UNION {{Gear[i][k].flag : k \in DOMAIN Gear[i]} : i \in w.worn}

\* A flag is set only while race, list, gear or hiding explain it, and every
\* AFF_ flag of list and gear is set, the concealing ones aside, which others
\* may wipe: a flag shared by a spell and an item outlives either.
BitsExact ==
  ch.playing =>
    /\ ch.flags \subseteq Innate \cup Given(ch) \cup {Aff("hide")}
    /\ {f \in Given(ch) \ {None} : f[1] = "affected" /\ f \notin Concealed} \subseteq ch.flags

\* Nobody wields a weapon too heavy for the strength they have left, however
\* strength was lost: a spell, an item taken off, a dispel, a login.
WieldedIsLight ==
  /\ AffectsTypeOK
  /\ ch.playing => \A i \in ch.worn \cap Weapon : ~TooHeavy(ch, i)
=============================================================================
