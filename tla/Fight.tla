------------------------------- MODULE Fight -------------------------------
(***************************************************************************)
(* Who fights whom (fight.c, act_combat.c).  A fight is one pointer per    *)
(* character, ch->fighting, and a position; violence_update gives          *)
(* everybody who fights a round every PULSE_VIOLENCE, and blows, deaths,   *)
(* flights, rescues, spells, programs of mobiles and immortals start and   *)
(* stop fights between the rounds.  Position and pointer are set apart,    *)
(* and an opponent may leave the room, or the game, in the middle of a     *)
(* round.                                                                  *)
(*                                                                         *)
(* At this commit a blow hurts nobody: multi_hit calls one_attack, which   *)
(* rolls both sides' dice and prints them on the server's terminal.  The   *)
(* older one_hit, which did damage, has no caller any more.  Fights start  *)
(* and go on with spells, magical things and bashes.                       *)
(*                                                                         *)
(* A helper takes a game, a record of all that, and yields the games it    *)
(* may leave behind: dice, dodges, hit points and spell saves are the      *)
(* choice between them.                                                    *)
(***************************************************************************)
EXTENDS FiniteSetsExt

CONSTANTS
  Player, Mob, Room,
  Temple,    \* get_death_room, and where players enter
  Safe,      \* rooms with ROOM_SAFE or under haven
  Default,   \* mobile |-> default_pos
  Wimpy,     \* those who may flee of themselves when hurt
  Basher,    \* mobiles with OFF_BASH, players who have learned to bash
  Tempered,  \* mobiles with a program on TRIG_KILL
  Harsh,     \* bound: those among them whose program strikes or purges
  Helps,     \* pairs <<rch, ch>>: rch assists ch
  Nil

\* game.where     ch->in_room, Nil while not in the game;
\* game.fighting  ch->fighting;
\* game.pos       ch->position; "down" is stunned, incapacitated or mortally
\*                wounded, just when hit is below 1; sitting counts as resting.
VARIABLE game

vars == <<game>>

Char == Player \cup Mob
Position == {"down", "sleeping", "resting", "fighting", "standing"}

ASSUME FightConstants ==
  /\ Temple \in Room /\ Safe \subseteq Room
  /\ Player \cap Mob = {} /\ IsFiniteSet(Player) /\ IsFiniteSet(Mob)
  /\ Default \in [Mob -> {"sleeping", "resting", "standing"}]
  /\ Wimpy \subseteq Char /\ Basher \subseteq Char /\ Tempered \subseteq Mob /\ Harsh \subseteq Tempered
  /\ Helps \subseteq Char \X Char /\ Nil \notin Char \cup Room

Game ==
  [where : [Char -> Room \cup {Nil}], fighting : [Char -> Char \cup {Nil}], pos : [Char -> Position]]

TypeOK == game \in Game

----------------------------------------------------------------------------
Here(g, c) == g.where[c] # Nil
Together(g, c, v) == Here(g, c) /\ g.where[c] = g.where[v]
Alert(g, c) == g.pos[c] # "down"                                \* > POS_STUNNED
Awake(g, c) == g.pos[c] \in {"resting", "fighting", "standing"} \* IS_AWAKE
Ready(g, c) == g.pos[c] \in {"fighting", "standing"}            \* >= POS_FIGHTING
Foes(g, c) == {f \in Char : g.fighting[f] = c}
People(g, c) == {r \in Char : Together(g, r, c)}

Posed(g, c, p) == [g EXCEPT !.pos[c] = p]
Moved(g, c, r) == [g EXCEPT !.where[c] = r]
Calmed(c) == IF c \in Mob THEN Default[c] ELSE "standing"

\* The hurt stay down: update_pos.
stop_fighting(g, c, both) ==
  LET all == {c} \cup IF both THEN Foes(g, c) ELSE {}
  IN  [g EXCEPT !.fighting = [f \in Char |-> IF f \in all THEN Nil ELSE @[f]],
                !.pos = [f \in Char |-> IF f \in all /\ @[f] # "down" THEN Calmed(f) ELSE @[f]]]

\* "Set_fighting: already fighting" for those who do.
set_fighting(g, c, v) ==
  IF g.fighting[c] # Nil THEN g
  ELSE [g EXCEPT !.fighting[c] = v, !.pos[c] = "fighting"]

is_safe(g, c, v) == g.fighting[v] # c /\ v # c /\ {g.where[c], g.where[v]} \cap Safe # {}

\* Mutant of extract_char: leaves those alone who fight whoever leaves.
extract_quietly(g, c, r) == Moved(stop_fighting(g, c, FALSE), c, r)

\* r is Nil for those who leave the game, the temple for a dead player.
extract_char(g, c, r) == Moved(stop_fighting(g, c, TRUE), c, r)

raw_kill(g, v) ==
  IF v \in Mob THEN extract_char(g, v, Nil)
  ELSE Posed(extract_char(g, v, Temple), v, "sleeping")

\* do_flee: out of the door, then both sides stop.  One who fights nobody
\* rises; a mobile that ran from a mobile goes on through the doors of the
\* room it left, and may be back.
do_flee(g, c) ==
  IF g.fighting[c] = Nil
    THEN {IF g.pos[c] = "fighting" THEN Posed(g, c, "standing") ELSE g}
  ELSE {g} \cup
    {Moved(stop_fighting(g, c, TRUE), c, r) :
       r \in IF {c, g.fighting[c]} \subseteq Mob THEN Room ELSE Room \ {g.where[c]}}

----------------------------------------------------------------------------
\* Blows.

\* What the loss of hit points does: nothing, a sleeper who gets up, a fall,
\* death, or a flight.
hurt(g, c, v) ==
  {g, raw_kill(g, v)}
  \cup (IF g.pos[v] = "sleeping" THEN {stop_fighting(g, v, FALSE)} ELSE {})
  \cup (IF v \in Player THEN {stop_fighting(Posed(g, v, "down"), v, FALSE)} ELSE {})
  \cup (IF v \in Wimpy /\ v # c /\ Alert(g, v) THEN do_flee(g, v) ELSE {})

\* A program that answers an attack does what does not matter here, or takes
\* the mobile away (do_mpgoto, do_mpflee); a harsh one hurts who is there
\* (do_mpdamage) or purges a mobile, itself even (do_mppurge).
Tempers(g, m) ==
  {g} \cup (IF m \in Tempered THEN {Moved(stop_fighting(g, m, TRUE), m, r) : r \in Room} ELSE {})
      \cup (IF m \in Harsh
            THEN UNION {hurt(g, x, x) : x \in People(g, m)}
                 \cup {extract_char(g, x, Nil) : x \in Mob \cap People(g, m)}
            ELSE {})

\* Who is struck fights back, at once if that is possible at all, and so does
\* who strikes: whatever the program has done to the two, who may be gone.  The
\* position of an idle player (timer above 4) stays.
engage(g, c, v) ==
  IF c = v \/ ~Alert(g, v) THEN {g}
  ELSE LET met == IF g.fighting[v] = Nil THEN Tempers(set_fighting(g, v, c), v) ELSE {g}
           up == {Posed(m, v, "fighting") : m \in met} \cup IF v \in Player THEN met ELSE {}
       IN  {set_fighting(u, c, v) : u \in up}

\* There is no look at the room.
damage(g, c, v) ==
  IF is_safe(g, c, v) THEN {g} ELSE UNION {hurt(e, c, v) : e \in engage(g, c, v)}

\* What one spell on one target may do: nothing, sleep, damage.
Spell(g, c, v) ==
  {g} \cup damage(g, c, v)
  \cup IF Together(g, c, v) /\ Awake(g, v) THEN {Posed(g, v, "sleeping")} ELSE {}

\* Whom an area spell passes over.
is_safe_spell(g, c, v) == v = c \/ (g.fighting[v] # c /\ g.where[v] \in Safe)

\* A loop over characters, one after the other, whatever becomes of the others:
\* Effect[t][h] are the games that t's turn makes of h.
Each(g, T, Effect) ==
  FoldSet(LAMBDA t, G : UNION {Effect[t][h] : h \in G}, {g}, T)

Storm(g, c) ==
  Each(g, People(g, c),
       [t \in Char |-> [h \in Game |->
          {h} \cup IF Together(h, c, t) /\ ~is_safe_spell(h, c, t) THEN damage(h, c, t) ELSE {}]])

\* A staff of an offensive spell meets everybody of the other kind.
Brandished(g, c) ==
  Each(g, {t \in People(g, c) : (t \in Mob) # (c \in Mob)},
       [t \in Char |-> [h \in Game |-> Spell(h, c, t)]])

\* A blow that fails still starts the fight; the basher lies there.
do_bash(g, c, v) ==
  IF ~Ready(g, v) \/ v = c \/ is_safe(g, c, v) THEN {g}
  ELSE damage(Posed(g, v, "resting"), c, v) \cup {Posed(e, c, "resting") : e \in engage(g, c, v)}

\* A scroll, wand or staff of the mobile; a scroll is read at its opponent or
\* at all, a wand points at the opponent.
use_magical_item(g, c) ==
  Brandished(g, c) \cup Storm(g, c) \cup Spell(g, c, g.fighting[c])

\* Dice for both sides, and a line on the terminal of the server.
one_attack(g, c, v) == {g}

\* A mobile that does not fight the victim yet goes no further.
mob_hit(g, c, v) ==
  LET struck == UNION {one_attack(h, c, v) : h \in one_attack(g, c, v)}
      Used(h) == {h} \cup IF v \in Player THEN use_magical_item(h, c) ELSE {}
      Bashed(h) == {h} \cup IF c \in Basher /\ h.fighting[c] # Nil
                            THEN do_bash(h, c, h.fighting[c]) ELSE {}
  IN  IF g.fighting[c] # v THEN struck
      ELSE UNION {UNION {Bashed(h) : h \in Used(m)} : m \in struck}

\* A player with banzai also strikes the others who fight it.
multi_hit(g, c, v) ==
  IF g.pos[c] \in {"down", "sleeping"} THEN {g}
  ELSE IF c \in Mob THEN mob_hit(g, c, v)
  ELSE Each(g, {v} \cup Foes(g, c), [t \in Char |-> [h \in Game |-> one_attack(h, c, t)]])

\* Each helper in the room who is free may strike; those of a mobile look for
\* the party of the victim.
check_assist(g, c, v) ==
  LET Victims == {v} \cup IF c \in Mob THEN Player ELSE {}
  IN  Each(g, People(g, c),
           [r \in Char |-> [h \in Game |->
              {h} \cup IF <<r, c>> \in Helps /\ Awake(h, r) /\ h.fighting[r] = Nil
                      THEN UNION {multi_hit(h, r, t) : t \in Victims} ELSE {}]])

----------------------------------------------------------------------------
\* Actions.

\* The round of one character in violence_update.
Round(c) ==
  /\ Awake(game, c) /\ game.fighting[c] # Nil /\ Together(game, c, game.fighting[c])
  /\ LET On(g) == Here(g, c) /\ g.fighting[c] # Nil
         Helped(g) == IF On(g) THEN check_assist(g, c, g.fighting[c]) ELSE {g}
         Program(g) == IF On(g) THEN Tempers(g, c) ELSE {g}
     IN  game' \in UNION {UNION {Program(h) : h \in Helped(g)} :
                          g \in multi_hit(game, c, game.fighting[c])}

\* The round of one who sleeps, or whose opponent is elsewhere.
Lapse(c) ==
  /\ game.fighting[c] # Nil
  /\ ~(Awake(game, c) /\ Together(game, c, game.fighting[c]))
  /\ game' = stop_fighting(game, c, FALSE)

\* do_murder, and charmed mobiles under orders.
do_murder(c, v) == c # v /\ game.pos[c] # "fighting" /\ ~is_safe(game, c, v)

\* Whoever says "kill self" strikes itself.
do_kill(c, v) == Ready(game, c) /\ (do_murder(c, v) \/ c = v)

\* Aggressive mobiles, and those told to by do_mpkill, strike a player.
aggr_update(c, v) ==
  /\ c \in Mob /\ v \in Player /\ Awake(game, c)
  /\ game.fighting[c] = Nil /\ game.where[c] \notin Safe

Attack(c, v) ==
  /\ Together(game, c, v)
  /\ do_murder(c, v) \/ do_kill(c, v) \/ aggr_update(c, v)
  /\ game' \in multi_hit(game, c, v)

\* do_cast: an offensive spell.  Whoever fights nobody after it is told to
\* strike back, which multi_hit does not do for who fights nobody.
do_cast(c, v) == Together(game, c, v) /\ c # v /\ Ready(game, c)

\* With no argument a wand points at the opponent, wherever it is.
do_zap(c, v) ==
  /\ Here(game, c) /\ Awake(game, c)
  /\ Together(game, c, v) \/ game.fighting[c] = v

\* What a program of a mobile casts asks neither for position nor for mana.
do_mpcast(c, v) == c \in Mob /\ Together(game, c, v) /\ c # v

Cast(c, v) ==
  /\ do_cast(c, v) \/ do_zap(c, v) \/ do_mpcast(c, v)
  /\ game' \in Spell(game, c, v)

\* A spell on all who are there.
CastStorm(c) == Here(game, c) /\ Ready(game, c) /\ game' \in Storm(game, c)

do_brandish(c) == Here(game, c) /\ Awake(game, c) /\ game' \in Brandished(game, c)

\* Damage that comes from the victim itself, to one or to all others.
do_mpdamage(m, V) ==
  /\ Here(game, m) /\ V \subseteq People(game, m)
  /\ game' \in Each(game, V, [v \in Char |-> [h \in Game |-> hurt(h, v, v)]])

Bash(c, v) ==
  /\ c \in Basher /\ Ready(game, c) /\ (Together(game, c, v) \/ game.fighting[c] = v)
  /\ game' \in do_bash(game, c, v)

Flee(c) == Here(game, c) /\ Ready(game, c) /\ game' \in do_flee(game, c)

\* The old fight ends for victim and foe, and a new one starts; if the foe is
\* ch, ch fights itself.
do_rescue(c, v) ==
  /\ Together(game, c, v) /\ c # v /\ Ready(game, c)
  /\ c \in Player => v \in Player
  /\ game.fighting[c] # v /\ game.fighting[v] # Nil
  /\ LET foe == game.fighting[v]
         apart == stop_fighting(stop_fighting(game, foe, FALSE), v, FALSE)
     IN  game' = set_fighting(set_fighting(apart, c, foe), foe, c)

do_surrender(c) ==
  /\ Ready(game, c) /\ game.fighting[c] # Nil
  /\ LET foe == game.fighting[c]
         Spurned(g) == IF c \in Player /\ foe \in Mob THEN multi_hit(g, foe, c) ELSE {g}
     IN  game' \in Spurned(stop_fighting(game, c, TRUE))

\* spell_calm goes through the room and may stop anywhere.
Calm(r) ==
  game' \in Each(game, {c \in Char : game.where[c] = r},
                 [c \in Char |-> [g \in Game |->
                    {g} \cup IF g.fighting[c] # Nil \/ g.pos[c] = "fighting"
                            THEN {stop_fighting(g, c, FALSE)} ELSE {}]])

\* do_peace of a room, do_wpeace of all players.
Peace(C) ==
  game' \in Each(game, C,
                 [c \in Char |-> [g \in Game |->
                    {IF g.fighting[c] # Nil THEN stop_fighting(g, c, TRUE) ELSE g}]])

\* Poison, flames, bleeding and drowning: nobody strikes.
Suffer(c) ==
  /\ Here(game, c)
  /\ game' \in hurt(game, c, c) \cup IF c \in Player /\ Alert(game, c) THEN {Posed(game, c, "resting")} ELSE {}

\* A cure, or a tick that brings the stunned back.
Recover(c) == Here(game, c) /\ game.pos[c] = "down" /\ game' = Posed(game, c, "standing")

\* do_slay, do_purge and mppurge, a mobile that goes home.
Slay(v) == Here(game, v) /\ game' \in {raw_kill(game, v), extract_char(game, v, Nil)}

\* Position alone forbids it: who was bashed or put to sleep may rise while
\* it still fights.
do_stand(g, c) == IF g.pos[c] = "fighting" THEN g ELSE Posed(g, c, "standing")

do_rest(c) ==
  /\ Here(game, c) /\ game.pos[c] \in {"sleeping", "resting", "standing"}
  /\ game' = Posed(game, c, "resting")

do_sleep(c) ==
  /\ Here(game, c) /\ game.pos[c] \in {"resting", "standing"}
  /\ game' = Posed(game, c, "sleeping")

Stand(c) == Here(game, c) /\ Alert(game, c) /\ game' = do_stand(game, c)

\* The stunned and the dying are not awake either.
do_wake(c, v) ==
  /\ Together(game, c, v) /\ Awake(game, c) /\ ~Awake(game, v)
  /\ game' = do_stand(game, v)

\* Walking and following; the spells gate and teleport, which fighters may
\* cast.  None of them ends a fight.
Walk(c, r) ==
  /\ Here(game, c)
  /\ \/ game.pos[c] # "fighting"
     \/ c \in Player
  /\ game' = Moved(game, c, r)

\* A mobile remembers whom it ran from: it strikes, runs, or just wanders.
mobile_update(m) ==
  /\ Here(game, m) /\ game.pos[m] = "standing"
  /\ LET Runs(g) == {g} \cup IF Here(g, m) THEN {Moved(g, m, r) : r \in Room} ELSE {}
     IN  game' \in UNION {Runs(g) : g \in {game} \cup
                            UNION {multi_hit(game, m, v) : v \in Player \cap People(game, m)}}

\* Those who follow v and stand come along; the charmed get up for it.
Followed(g, from, v, r) ==
  Each(g, {f \in Char \ {v} : g.where[f] = from /\ g.pos[f] # "fighting"},
       [f \in Char |-> [h \in Game |-> {h, Moved(do_stand(h, f), f, r)}]])

push_char(g, v, r) == Followed(Moved(g, v, r), g.where[v], v, r)
drag_char(g, c, v, r) == Followed(Moved(Moved(g, c, r), v, r), g.where[c], c, r)

\* Both look at positions, not at who fights whom: a victim that was bashed
\* down or put to sleep is taken away from a fight that goes on.
do_push(c, v, r) ==
  /\ Together(game, c, v) /\ c # v /\ game.pos[c] = "standing"
  /\ game.pos[v] \in {"resting", "standing"}
  /\ game' \in push_char(game, v, r)

do_drag(c, v, r) ==
  /\ Together(game, c, v) /\ game.pos[c] = "standing"
  /\ game.pos[v] \in {"down", "sleeping", "resting"}
  /\ game' \in drag_char(game, c, v, r)

\* do_transfer, do_goto, do_mpgoto, do_mptransfer, the void of the idle.
Transfer(c, r) ==
  /\ Here(game, c)
  /\ game' = Moved(IF game.fighting[c] # Nil THEN stop_fighting(game, c, TRUE) ELSE game, c, r)

\* do_at and do_mpat strike elsewhere and come back, from the temple even.
At(c, v) ==
  /\ Here(game, c) /\ Here(game, v) /\ c # v /\ game.pos[c] # "fighting"
  /\ LET Back(g) == IF Here(g, c) THEN Moved(g, c, game.where[c]) ELSE g
     IN  game' \in {Back(g) : g \in multi_hit(Moved(game, c, game.where[v]), c, v)}

Quit(c) == Here(game, c) /\ game.pos[c] # "fighting" /\ game' = extract_char(game, c, Nil)

\* The player file says "standing" of those who fought.
Login(c) ==
  /\ ~Here(game, c)
  /\ game' \in {Posed(Moved(game, c, Temple), c, p) : p \in Position \ {"fighting"}}

\* reset_room.
Repop(m) ==
  /\ ~Here(game, m)
  /\ game' \in {Posed(Moved(game, m, r), m, Default[m]) : r \in Room}

----------------------------------------------------------------------------
Init ==
  game = [where |-> [c \in Char |-> Nil], fighting |-> [c \in Char |-> Nil],
          pos |-> [c \in Char |-> "standing"]]

Meet(c, v) ==
  Attack(c, v) \/ Cast(c, v) \/ Bash(c, v)
  \/ do_rescue(c, v) \/ At(c, v) \/ do_wake(c, v)

Alone(c) ==
  Round(c) \/ Lapse(c) \/ Flee(c) \/ do_surrender(c) \/ Suffer(c) \/ Slay(c)
  \/ do_rest(c) \/ do_sleep(c) \/ Stand(c) \/ CastStorm(c) \/ do_brandish(c)

Mobile(m) ==
  \/ Repop(m) \/ mobile_update(m)
  \/ \E v \in Char : do_mpdamage(m, {v})
  \/ do_mpdamage(m, People(game, m) \ {m})

Next ==
  \/ \E c \in Char : Alone(c)
  \/ \E c \in Char, v \in Char : Meet(c, v)
  \/ \E c \in Char, r \in Room : Walk(c, r) \/ Transfer(c, r)
  \/ \E c \in Char, v \in Char, r \in Room : do_push(c, v, r) \/ do_drag(c, v, r)
  \/ \E r \in Room : Calm(r) \/ Peace({c \in Char : game.where[c] = r})
  \/ Peace(Player)
  \/ \E c \in Player : Recover(c) \/ Quit(c) \/ Login(c)
  \/ \E m \in Mob : Mobile(m)

Spec == Init /\ [][Next]_vars

----------------------------------------------------------------------------
\* Whoever fights is in the game and so is the opponent, and whoever is in
\* the fighting position has one, whatever deaths, flights, rescues, purges
\* and logins came between; those aside whose own program on TRIG_KILL took
\* them out of the fight, which damage() does not notice.
Opponents ==
  /\ TypeOK
  /\ \A c \in Char :
       /\ game.fighting[c] # Nil => game.where[c] # Nil /\ game.where[game.fighting[c]] # Nil
       /\ game.pos[c] = "fighting" /\ c \notin Tempered => game.fighting[c] # Nil
=============================================================================
