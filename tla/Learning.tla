------------------------------ MODULE Learning ------------------------------
(***************************************************************************)
(* What a player knows and how it is paid for (skills.c; update.c, set.c,  *)
(* act_wiz.c, nanny.c and save.c where they touch it).  The skills and     *)
(* groups of a character are one linked list, pcdata->skills: skills are   *)
(* put in by the level the class gets them at, groups at the end, and the  *)
(* player file is the list written out and added again entry by entry.     *)
(*                                                                         *)
(* Nothing takes a node out of the list (drop is only offered by the group *)
(* menu of the creation, which no state leads to any more), so that prev   *)
(* is where a sequence says it is and the list is what head and next say.  *)
(***************************************************************************)
EXTENDS Integers, Sequences, FiniteSets, FiniteSetsExt, SequencesExt, Functions, Loops

CONSTANTS
  SkillList,    \* the game's skills, in the order of skill_list
  Group,        \* the game's groups
  Of,           \* group->skills
  LevelOf,      \* level at which the class gets a skill, None if never
  Difficulty,   \* level->difficulty of skills and groups, 0 if not for gain
  Spell,        \* skills with spells, which come with their group only
  Race,         \* bonus skills and groups of pc_race_table
  Adept, Top,   \* percents: class_table skill_adept (75), 90 and above
  Rate,         \* practices in a training session (10)
  Trains, Practices,     \* sessions of a newcomer (3 and 5)
  TrainsUp,     \* what a level brings at one luck or another (1 to 3)
  PracticesUp,  \* and at one wisdom or another (1 to 8)
  Unlucky,      \* bound: may a level be taken away at less luck or wisdom
  MaxStat,      \* get_max_train, above what the race starts with
  MaxLevel,     \* bound
  MaxSessions,  \* bound on the sessions of one train, and on those owed
  None

Skill == Range(SkillList)

ASSUME LearningConstants ==
  /\ SkillList \in Seq(Skill) /\ Skill \cap Group = {}
  /\ Of \in [Group -> Seq(Skill)] /\ LevelOf \in [Skill -> Nat \cup {None}]
  /\ Difficulty \in [Skill \cup Group -> Nat] /\ Spell \subseteq Skill
  /\ Race \in Seq(Skill \cup Group)
  /\ {Adept, Top, Rate, Trains, Practices, MaxStat} \subseteq Nat
  /\ \A up \in {TrainsUp, PracticesUp} :
       up \subseteq Nat /\ \E most \in up : \A n \in up : n <= most
  /\ Unlucky \in BOOLEAN
  /\ 1 < Adept /\ Adept < Top /\ Rate > 0
  /\ {MaxLevel, MaxSessions} \subseteq Nat /\ MaxLevel > 0
  /\ None \notin Nat

VARIABLES
  learned,    \* pcdata->skills, from head along next
  level, train, practice,
  stat,       \* trained points of perm_stat
  paid,       \* history: what was gained at a trainer
  given       \* history: what came from the race or an immortal

vars == <<learned, level, train, practice, stat, paid, given>>

Entry == [what : Skill \cup Group, percent : 0..Top]
List == Seq(Entry)

TypeOK ==
  /\ learned \in List
  /\ level \in 1..MaxLevel /\ {train, practice} \subseteq Int /\ stat \in 0..MaxStat
  /\ paid \subseteq Skill \cup Group /\ given \subseteq Skill \cup Group

----------------------------------------------------------------------------
\* The list.

Places(L, x) == {i \in DOMAIN L : L[i].what = x}
Knows(L, x) == Places(L, x) # {}
SkillPlaces(L) == {i \in DOMAIN L : L[i].what \in Skill}

\* Mutant of Above: a skill goes in front of those below it.
AboveReversed(L, s) == {i \in SkillPlaces(L) : LevelOf[L[i].what] # None
                                            /\ LevelOf[L[i].what] <= LevelOf[s]}

\* The skills that s is put in front of.
Above(L, s) == {i \in SkillPlaces(L) : LevelOf[L[i].what] # None
                                    /\ LevelOf[L[i].what] >= LevelOf[s]}

\* A skill that is the whole list or the first entry is no longer reached once
\* one is added behind it: the head moves on.  Without any skill to be put
\* next to, the new one is not linked at all.
add_learned_skill(L, s, percent) ==
  LET e == [what |-> s, percent |-> percent]
      last == Max(SkillPlaces(L))
  IN  IF L = <<>> THEN <<e>>
      ELSE IF Knows(L, s) THEN [i \in DOMAIN L |-> IF i \in Places(L, s) THEN e ELSE L[i]]
      ELSE IF LevelOf[s] = None \/ SkillPlaces(L) = {} THEN L
      ELSE IF Above(L, s) # {} THEN InsertAt(L, Min(Above(L, s)), e)
      ELSE IF last = 1 THEN <<e>> \o Tail(L)
      ELSE InsertAt(L, last + 1, e)

\* A group and those of its skills that are not known yet.
add_learned_group(L, g) ==
  Through(Of[g], Append(L, [what |-> g, percent |-> 1]),
          [s \in Skill |-> [K \in List |-> IF Knows(K, s) THEN K ELSE add_learned_skill(K, s, 1)]])

add_learned(L, x, percent) ==
  IF x \in Group THEN add_learned_group(L, x) ELSE add_learned_skill(L, x, percent)

add_new(L, x, percent) == IF Knows(L, x) THEN L ELSE add_learned(L, x, percent)

\* The bonus skills of the race, those of them that are not known.
BornWith(L, percent) ==
  Through(Race, L, [x \in Skill \cup Group |-> [K \in List |-> add_new(K, x, percent)]])

----------------------------------------------------------------------------
\* A newcomer: newrace_answered, readmotd_answered.
Init ==
  /\ learned = BornWith(<<>>, Adept)
  /\ level = 1 /\ train = Trains /\ practice = Practices /\ stat = 0
  /\ paid = {} /\ given = Range(Race)

sessions == <<train, practice>>
rest == <<level, stat, paid, given>>

\* The list written out, and read back.
Written(L) ==
  Through(L, <<>>, [e \in Entry |-> [K \in List |->
                      IF e.what \in Group \/ e.percent > 0 THEN Append(K, e) ELSE K]])

Loaded(f) ==
  BornWith(Through(f, <<>>, [e \in Entry |-> [K \in List |-> add_new(K, e.what, e.percent)]]), 1)

\* Leaving the game and coming back.
Relog ==
  /\ learned' = Loaded(Written(learned))
  /\ UNCHANGED <<sessions, rest>>

\* A level more, by gain_exp, or by do_advance, which also takes levels away:
\* what luck and wisdom are worth at that moment, whatever gear, spells,
\* training or an immortal have made of them since the last one.
advance_level(sign, luck, wisdom) ==
  /\ level' = level + sign
  /\ practice' = practice + sign * wisdom
  /\ train' = train + sign * luck

gain_exp ==
  \/ UNCHANGED <<level, sessions>>
  \/ /\ level < MaxLevel
     /\ \E luck \in TrainsUp, wisdom \in PracticesUp : advance_level(1, luck, wisdom)

Fight == gain_exp /\ UNCHANGED <<learned, stat, paid, given>>

Best(up) == {n \in up : \A m \in up : m <= n}
Taken(up) == IF Unlucky THEN up ELSE Best(up)

do_advance ==
  /\ level > 1
  /\ \E luck \in Taken(TrainsUp), wisdom \in Taken(PracticesUp) :
       /\ train - luck >= -MaxSessions /\ practice - wisdom >= -MaxSessions
       /\ advance_level(-1, luck, wisdom)
  /\ UNCHANGED <<learned, stat, paid, given>>

----------------------------------------------------------------------------
\* The trainer: do_gain, do_train; the guildmaster: do_practice.

\* Mutant of Pay: a session too few is taken for what costs several.
PayOne(x) ==
  /\ Difficulty[x] > 0 /\ train >= Difficulty[x]
  /\ train' = train - 1
  /\ paid' = paid \cup {x}

Pay(x) ==
  /\ Difficulty[x] > 0 /\ train >= Difficulty[x]
  /\ train' = train - Difficulty[x]
  /\ paid' = paid \cup {x}

gain_group == \E g \in Group :
  /\ ~Knows(learned, g) /\ Pay(g)
  /\ learned' = add_learned_group(learned, g)
  /\ UNCHANGED <<level, practice, stat, given>>

gain_skill == \E s \in Skill \ Spell :
  /\ ~Knows(learned, s) /\ LevelOf[s] # None /\ Pay(s)
  /\ learned' = add_learned_skill(learned, s, 1)
  /\ UNCHANGED <<level, practice, stat, given>>

gain_convert ==
  /\ practice >= Rate
  /\ practice' = practice - Rate /\ train' = train + 1
  /\ UNCHANGED <<learned, rest>>

gain_study ==
  /\ train >= 1
  /\ train' = train - 1 /\ practice' = practice + Rate
  /\ UNCHANGED <<learned, rest>>

\* train n hp, train n mana.
TrainBody == \E n \in 1..MaxSessions :
  /\ train >= n
  /\ train' = train - n
  /\ UNCHANGED <<learned, practice, rest>>

\* train n <stat>: no further than the race's maximum, and no session more.
TrainStat == \E n \in 1..MaxSessions :
  LET count == IF stat + n > MaxStat THEN MaxStat - stat ELSE n
  IN  /\ stat < MaxStat /\ count <= train
      /\ train' = train - count /\ stat' = stat + count
      /\ UNCHANGED <<learned, level, practice, paid, given>>

PercentOf(s) == learned[Min(Places(learned, s))].percent

Percent(s, percent) ==
  [i \in DOMAIN learned |->
     IF i \in Places(learned, s) THEN [learned[i] EXCEPT !.percent = percent] ELSE learned[i]]

\* The skills a player knows and may use at its level.
Usable == {s \in Skill : Knows(learned, s) /\ LevelOf[s] # None /\ LevelOf[s] <= level}

do_practice == \E s \in Usable, percent \in 1..Adept :
  /\ practice > 0 /\ PercentOf(s) < Adept /\ percent > PercentOf(s)
  /\ practice' = practice - 1
  /\ learned' = Percent(s, percent)
  /\ UNCHANGED <<train, rest>>

check_improve == \E s \in Usable :
  /\ PercentOf(s) \in 1..(Top - 1)
  /\ learned' = Percent(s, PercentOf(s) + 1)
  /\ gain_exp /\ UNCHANGED <<stat, paid, given>>

----------------------------------------------------------------------------
\* Immortals: set skill, grant.  (set train and set practice, which make
\* sessions of nothing, are left out.)

Give(S) ==
  /\ given' = given \cup S
  /\ UNCHANGED <<level, sessions, stat, paid>>

SetSkill == \E s \in Skill, percent \in {0, Top} :
  Give({s}) /\ learned' = add_learned_skill(learned, s, percent)

SetAll ==
  /\ Give(Skill)
  /\ learned' = Through(SkillList, learned,
                        [s \in Skill |-> [K \in List |-> add_learned_skill(K, s, Top)]])

do_grant == \E s \in Skill :
  /\ Knows(learned, s) => PercentOf(s) < Adept
  /\ Give({s}) /\ learned' = add_learned_skill(learned, s, Adept)

Gain == gain_group \/ gain_skill \/ gain_convert \/ gain_study
Train == TrainBody \/ TrainStat \/ do_practice \/ check_improve
Next == Relog \/ Fight \/ do_advance \/ Gain \/ Train \/ SetSkill \/ SetAll \/ do_grant

Spec == Init /\ [][Next]_vars

----------------------------------------------------------------------------
Entitled ==
  LET own == paid \cup given
  IN  own \cup UNION {Range(Of[g]) : g \in own \cap Group}

\* Whatever is gained, given and read back, and in which order: skills stand
\* by rising level, in front of every group, each once, and one outside the
\* class only without another.  That skills come first is what lets the file
\* keep their percents: a group read before its skills would bring them at 1.
ListOrdered ==
  \A i, j \in DOMAIN learned : i < j =>
    /\ learned[i].what # learned[j].what
    /\ learned[j].what \in Skill =>
         /\ learned[i].what \in Skill
         /\ None \notin {LevelOf[learned[i].what], LevelOf[learned[j].what]}
         /\ LevelOf[learned[i].what] <= LevelOf[learned[j].what]

\* Nobody knows what was not paid for or given, and the sessions in hand and
\* those spent are never more than the levels bring who was at his best at
\* each, through conversions back and forth, changes of luck, the file, and
\* demotions unless one is suffered with less luck or wisdom than that: the
\* levels gained again then bring more than was taken.
SpentIsEarned ==
  /\ TypeOK
  /\ {e.what : e \in Range(learned)} \subseteq Entitled
  /\ Rate * (train + stat + SumFunctionOnSet(Difficulty, paid)) + practice
       <= Rate * (Trains + (level - 1) * Max(TrainsUp)) + Practices + (level - 1) * Max(PracticesUp)
=============================================================================
