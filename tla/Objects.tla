------------------------------ MODULE Objects ------------------------------
(***************************************************************************)
(* Objects on the move (handler.c, act_obj.c, object.c): from a room into  *)
(* a hand, from a hand into a bag, from a body into its corpse, out of the *)
(* game.  Each move keeps by hand what others read: how much a character   *)
(* carries, how many lamps light a room, which seat a character is on.     *)
(*                                                                         *)
(* The world is one record; the handlers of handler.c are operators from   *)
(* worlds to worlds, and a command is their composition.                   *)
(***************************************************************************)
EXTENDS Integers, FiniteSets, FiniteSetsExt, Functions, Loops

CONSTANTS
  Char, Mob,     \* characters; those that are NPCs
  Immortal,      \* those of LEVEL_IMMORTAL
  Room, Temple,  \* rooms; where the dead wake up
  Obj,           \* objects
  Bag, Corpse, Lamp, Seat,  \* containers, NPC corpses, lights, furniture
  Rootbound,     \* objects without ITEM_TAKE
  Wearable,      \* objects that can be worn, wielded or held
  DeathDrop,     \* ITEM_DEATH_DROP
  Stock,         \* ITEM_INVENTORY
  Melting,       \* ITEM_MELT_DROP
  Trash,         \* ITEM_TRASH or ITEM_SELL_EXTRACT
  Edible,        \* food and pills
  NoPurge,       \* ITEM_NOPURGE
  Twin,          \* object |-> those that may be made from its template
  Own, Mult,     \* obj->weight and WEIGHT_MULT
  MaxNumber,     \* can_carry_n
  AtHome,        \* bound: may at be used on the room one is in?
  Lanterns,      \* bound: players who log in with a lit lamp in hand, by file or by body
  Luggage,       \* bound: how many objects a player's file has
  Nesting,       \* bound: do immortals put bags that lighten into others?
  Crowd,         \* bound: the objects that exist at once
  Nil

ASSUME ObjectsConstants ==
  /\ Mob \subseteq Char /\ Immortal \subseteq Char /\ Lanterns \subseteq Char \ Mob /\ Temple \in Room
  /\ Bag \cup Corpse \cup Lamp \cup Seat \subseteq Obj
  /\ Own \in [Obj -> Nat] /\ Mult \in [Obj -> Nat] /\ MaxNumber \in Nat
  /\ Twin \in [Obj -> SUBSET Obj] /\ AtHome \in BOOLEAN /\ Luggage \in Nat /\ Nesting \in BOOLEAN
  /\ Crowd \in Nat
  /\ IsFiniteSet(Char) /\ IsFiniteSet(Obj)
  /\ Room \cap Char = {} /\ Obj \cap (Room \cup Char) = {}
  /\ Nil \notin Room \cup Char \cup Obj

\* Weights come out even (a hypothesis of CarryExact): what weighs part of
\* itself in some container weighs a whole number there, no bag that lightens is
\* put into another with something in it, and nobody takes a corpse along.
Exactly ==
  /\ \A o, b \in Obj : (Own[o] * Mult[b]) % 100 = 0
  /\ ~Nesting /\ Corpse \subseteq Rootbound

VARIABLE world

vars == <<world>>

World ==
  [at : [Obj -> Room \cup Char \cup Obj \cup {Nil}],  \* in_room, carried_by, in_obj
   worn : SUBSET Obj,                  \* wear_loc # WEAR_NONE
   lit : SUBSET Lamp,                  \* value[2] # 0
   where : [Char -> Room \cup {Nil}],  \* ch->in_room
   on : [Char -> Seat \cup {Nil}],     \* ch->on
   number : [Char -> Int],             \* carry_number
   weight : [Char -> Int],             \* carry_weight
   light : [Room -> Int],              \* room->light
   login : [Char -> Room \cup Char \cup {Nil}]]  \* dialogues of Lanterns: see GetName

TypeOK == world \in World

Init ==
  world = [at |-> [o \in Obj |-> Nil], worn |-> {}, lit |-> {},
           where |-> [c \in Char |-> Nil], on |-> [c \in Char |-> Nil],
           number |-> [c \in Char |-> 0], weight |-> [c \in Char |-> 0],
           light |-> [r \in Room |-> 0], login |-> [c \in Char |-> Nil]]

----------------------------------------------------------------------------
\* What hangs on what.

Inside(w, x) == {o \in Obj : w.at[o] = x}

\* An object and what it is in, outwards.
Holders(w) ==
  LET path[o \in Obj] == {o} \cup IF w.at[o] \in Obj THEN path[w.at[o]] ELSE {}
  IN  path

Within(w, o) == {p \in Obj : o \in Holders(w)[p]}

\* The holder that is in no other object, the only one anybody can carry.
Outermost(w, o) == CHOOSE p \in Holders(w)[o] : w.at[p] \notin Obj

\* Containers count for what is in them.
get_obj_number(w, o) == Cardinality(Within(w, o) \ Bag)

Heft(w) ==
  LET heft[p \in Obj] ==
        Own[p] + SumFunction([q \in Inside(w, p) |-> (heft[q] * Mult[p]) \div 100])
  IN  heft

get_obj_weight(w, o) == Heft(w)[o]

\* The lit lamp in ch's hand, get_eq_char(ch, WEAR_LIGHT).
Shining(w, c) == w.worn \cap w.lit \cap Inside(w, c)

Users(w, o) == {c \in Char : w.on[c] = o}

----------------------------------------------------------------------------
\* handler.c.

char_from_room(w, c) ==
  LET r == w.where[c]
      less == IF Shining(w, c) # {} /\ w.light[r] > 0 THEN 1 ELSE 0
  IN  [w EXCEPT !.light[r] = @ - less, !.where[c] = Nil, !.on[c] = Nil]

char_to_room(w, c, r) ==
  [w EXCEPT !.where[c] = r,
            !.light[r] = @ + IF Shining(w, c) # {} THEN 1 ELSE 0]

equip_char(w, c, o) ==
  [w EXCEPT !.worn = @ \cup {o},
            !.light = [r \in Room |-> @[r] + IF o \in w.lit /\ r = w.where[c] THEN 1 ELSE 0]]

unequip_char(w, c, o) ==
  [w EXCEPT !.worn = @ \ {o},
            !.light = [r \in Room |->
               @[r] - IF o \in w.lit /\ r = w.where[c] /\ @[r] > 0 THEN 1 ELSE 0]]

obj_to_char(w, o, c) ==
  [w EXCEPT !.at[o] = c,
            !.number[c] = @ + get_obj_number(w, o),
            !.weight[c] = @ + get_obj_weight(w, o)]

obj_from_char(w, o) ==
  LET c == w.at[o]
      bare == IF o \in w.worn THEN unequip_char(w, c, o) ELSE w
  IN  [bare EXCEPT !.at[o] = Nil,
                   !.number[c] = @ - get_obj_number(w, o),
                   !.weight[c] = @ - get_obj_weight(w, o)]

obj_to_room(w, o, r) == [w EXCEPT !.at[o] = r]

\* Mutant of obj_from_room: nobody is told.
obj_from_under(w, o) == [w EXCEPT !.at[o] = Nil]

\* Whoever is on it, and in its room, is on it no more.
obj_from_room(w, o) ==
  [w EXCEPT !.at[o] = Nil,
            !.on = [c \in Char |->
               IF @[c] = o /\ w.where[c] = w.at[o] THEN Nil ELSE @[c]]]

\* What a carrier gains by an object in the bag b: the weight is multiplied
\* as the bag he has in hand does, whatever lies between.
Share(w, o, b) == (get_obj_weight(w, o) * Mult[Outermost(w, b)]) \div 100

obj_to_obj(w, o, b) ==
  LET c == w.at[Outermost(w, b)]
      in == [w EXCEPT !.at[o] = b]
  IN  IF c \in Char
      THEN [in EXCEPT !.number[c] = @ + get_obj_number(w, o),
                      !.weight[c] = @ + Share(w, o, b)]
      ELSE in

\* Mutant of obj_from_obj: all of the weight is taken off.
obj_out_of_obj(w, o) ==
  LET c == w.at[Outermost(w, o)]
      out == [w EXCEPT !.at[o] = Nil]
  IN  IF c \in Char
      THEN [out EXCEPT !.number[c] = @ - get_obj_number(w, o),
                       !.weight[c] = @ - get_obj_weight(w, o)]
      ELSE out

obj_from_obj(w, o) ==
  LET b == w.at[o]
      c == w.at[Outermost(w, b)]
      out == [w EXCEPT !.at[o] = Nil]
  IN  IF c \in Char
      THEN [out EXCEPT !.number[c] = @ - get_obj_number(w, o),
                       !.weight[c] = @ - Share(w, o, b)]
      ELSE out

Detach(w, o) ==
  CASE w.at[o] \in Room -> obj_from_room(w, o)
    [] w.at[o] \in Char -> obj_from_char(w, o)
    [] w.at[o] \in Obj  -> obj_from_obj(w, o)
    [] OTHER            -> w

\* With all that is in it: once o hangs on nothing, no carrier is found.
extract_obj(w, o) ==
  LET gone == Within(w, o)
      out == Detach(w, o)
  IN  [out EXCEPT !.at = [p \in Obj |-> IF p \in gone THEN Nil ELSE @[p]],
                  !.lit = @ \ gone]

extract_all(w, S) == Over(S, w, [o \in Obj |-> [v \in World |-> extract_obj(v, o)]])

\* Mutant of extract_char: the inventory is not extracted.
extract_body(w, c) == char_from_room(w, c)

\* extract_char(ch, TRUE), with free_char: the room is left first.
extract_char(w, c) == extract_all(char_from_room(w, c), Inside(w, c))

Here(c) == world.where[c] # Nil
SameRoom(c, v) == Here(c) /\ c # v /\ world.where[c] = world.where[v]
CarriedBy(w, c) == Inside(w, c) \ w.worn
Fits(w, c, o) == w.number[c] + get_obj_number(w, o) <= MaxNumber

----------------------------------------------------------------------------
\* Coming, going, and what comes out of nothing.

\* fread_obj: a bag is read before what is in it, and what was worn is put on
\* (what that does to a room's light is below).
Read(w, c, bag, in, worn, S) ==
  LET hands == Over(S \ in, w, [o \in Obj |-> [v \in World |-> obj_to_char(v, o, c)]])
      filled == Over(in, hands, [o \in Obj |-> [v \in World |-> obj_to_obj(v, o, bag)]])
  IN  Over(worn, filled, [o \in Obj |-> [v \in World |-> equip_char(v, c, o)]])

\* How many objects may still be made, and which.
Spare(w) == Crowd - Cardinality({o \in Obj : w.at[o] # Nil})
Unmade(w) == {o \in Obj \ Corpse : w.at[o] = Nil /\ Spare(w) > 0}

\* The room is light already, or unequip_char finds nothing to take off before
\* equip_char adds one.
Brightened(w, r) == [w EXCEPT !.light[r] = IF @ > 0 THEN @ ELSE @ + 1]

Dimmed(w, r) ==
  [w EXCEPT !.light = [x \in Room |-> @[x] - IF x = r /\ @[x] > 0 THEN 1 ELSE 0]]

\* load_char_obj sets in_room before it reads the objects: a lamp in hand lights
\* the room in the dialogue.  login[c] is that room, or c where there is no lamp.
GetName(c, r) ==
  world' \in {[Brightened(world, r) EXCEPT !.login[c] = r], [world EXCEPT !.login[c] = c]}

\* A player brings what its file says, and its lamp is counted again; a mobile
\* is given its things by resets.
ReadMotd(c, r) ==
  /\ ~Here(c) /\ world.login[c] \in {Nil, c, r}
  /\ \E S \in {T \in SUBSET Unmade(world) :
                Cardinality(T) <= IF c \in Mob THEN 0 ELSE Min({Luggage, Spare(world)})} :
     \E bag \in (S \cap Bag) \cup {Nil} :
     \E in \in IF bag = Nil THEN {{}} ELSE SUBSET {o \in S \ {bag} : Mult[o] = 100} :
     \E worn \in SUBSET ((S \ in) \cap Wearable) :
       /\ \A o, p \in worn : o # p => ~({o, p} \subseteq Lamp \/ {o, p} \cap Lamp = {})
       /\ worn \cap Lamp # {} <=> world.login[c] = r
       /\ LET new == [world EXCEPT !.lit = @ \cup (S \cap Lamp), !.login[c] = Nil]
          IN  world' = char_to_room(Read(new, c, bag, in, worn, S), c, r)

\* Without a lit lamp, the dialogue changes nothing here.
Enter(c, r) ==
  IF c \in Lanterns /\ world.login[c] = Nil THEN GetName(c, r) ELSE ReadMotd(c, r)

Walk(c, r) ==
  /\ Here(c) /\ r # world.where[c]
  /\ world' = char_to_room(char_from_room(world, c), c, r)

\* The character of a dialogue is freed, and its lamp with it.
Freed(w, c) == [Dimmed(w, world.login[c]) EXCEPT !.login[c] = Nil]

\* check_reconnect takes the light of the body off as well.
check_reconnect(w, c) == IF Shining(w, c) # {} THEN Dimmed(w, w.where[c]) ELSE w

\* The dialogue is given up; or it gets the body that is still there; or do_quit
\* of that body extracts the dialogue's character, too.
HangUp(c) ==
  world' \in {Freed(world, c)} \cup
             IF Here(c) THEN {check_reconnect(Freed(world, c), c), Freed(extract_char(world, c), c)} ELSE {}

\* do_quit of a player, the purge of a mobile.
Leave(c) ==
  IF c \in Lanterns /\ world.login[c] # Nil THEN HangUp(c)
  ELSE Here(c) /\ world' = extract_char(world, c)

\* A new lamp burns.
create_object(w, o) == [w EXCEPT !.lit = @ \cup ({o} \cap Lamp)]

\* Resets, spells, do_oload and its like of mobiles: into a hand if it can be
\* taken, or to the ground, or where the reset says.
Create(o) ==
  /\ o \in Unmade(world)
  /\ LET new == create_object(world, o)
     IN  \/ \E r \in Room : world' = obj_to_room(new, o, r)
         \/ \E c \in Char : Here(c) /\ world' = obj_to_char(new, o, c)
         \/ \E b \in Bag : world.at[b] \in Room /\ world' = obj_to_obj(new, o, b)

----------------------------------------------------------------------------
\* Hand to hand.

\* get_obj, of an object in the room.
get_obj(w, c, o) ==
  IF o \notin Rootbound /\ Users(w, o) = {} /\ (Fits(w, c, o) \/ c \in Immortal)
  THEN obj_to_char(obj_from_room(w, o), o, c) ELSE w

Get(c, o) == Here(c) /\ world.at[o] = world.where[c] /\ world' = get_obj(world, c, o)

Reach(c) == Inside(world, world.where[c]) \cup Inside(world, c)

GetFrom(c, o, b) ==
  /\ Here(c) /\ b \in (Bag \cup Corpse) \cap Reach(c) /\ world.at[o] = b
  /\ o \notin Rootbound /\ (Fits(world, c, o) \/ c \in Immortal)
  /\ world' = obj_to_char(obj_from_obj(world, o), o, c)

Put(c, o, b) ==
  /\ Here(c) /\ b \in Bag \cap Reach(c)
  /\ o \in CarriedBy(world, c) \ DeathDrop /\ o # b
  /\ Mult[o] = 100 \/ (c \in Immortal /\ Nesting)
  /\ world' = obj_to_obj(obj_from_char(world, o), o, b)

Drop(c, o) ==
  /\ Here(c) /\ o \in CarriedBy(world, c)
  /\ LET down == obj_to_room(obj_from_char(world, o), o, world.where[c])
     IN  world' = IF o \in Melting THEN extract_obj(down, o) ELSE down

Give(c, o, v) ==
  /\ SameRoom(c, v) /\ o \in CarriedBy(world, c) /\ Fits(world, v, o)
  /\ world' = obj_to_char(obj_from_char(world, o), o, v)

\* Only from mobiles, and only what they do not wear.
do_steal(c, o, v) ==
  /\ SameRoom(c, v) /\ v \in Mob /\ o \in CarriedBy(world, v) \ Stock /\ Fits(world, c, o)
  /\ world' = obj_to_char(obj_from_char(world, o), o, c)

\* Even what is worn.
do_chown(c, o, v) ==
  /\ SameRoom(c, v) /\ o \in Inside(world, v) /\ c \in Immortal
  /\ world' = obj_to_char(obj_from_char(world, o), o, c)

\* do_buy: what is kept in stock is made anew, the rest changes hands.
Buy(c, o, keeper) ==
  /\ c \notin Mob /\ keeper \in Mob /\ SameRoom(c, keeper)
  /\ o \in CarriedBy(world, keeper) /\ Fits(world, c, o)
  /\ IF o \in Stock
     THEN \E new \in Unmade(world) \cap Twin[o] :
            world' = obj_to_char(create_object(world, new), new, c)
     ELSE world' = obj_to_char(obj_from_char(world, o), o, c)

\* The keeper takes what he has in stock anyway only to destroy it; his own
\* hands are never full.
obj_to_keeper(w, o, keeper) ==
  IF Twin[o] \cap Stock \cap Inside(w, keeper) # {} THEN extract_obj(w, o)
  ELSE obj_to_char(w, o, keeper)

Sell(c, o, keeper) ==
  /\ keeper \in Mob /\ SameRoom(c, keeper) /\ o \in CarriedBy(world, c)
  /\ world' = IF o \in Trash THEN extract_obj(world, o)
              ELSE obj_to_keeper(obj_from_char(world, o), o, keeper)

\* Lamps are worn in one place, all else in another.
Place(o) == IF o \in Lamp THEN Lamp ELSE Obj \ Lamp

Wear(c, o) ==
  /\ Here(c) /\ o \in CarriedBy(world, c) \cap Wearable
  /\ LET old == world.worn \cap Inside(world, c) \cap Place(o)
         bare == Over(old, world, [p \in Obj |-> [v \in World |-> unequip_char(v, c, p)]])
     IN  world' = equip_char(bare, c, o)

do_remove(c, o) ==
  Here(c) /\ o \in world.worn \cap Inside(world, c) /\ world' = unequip_char(world, c, o)

\* A mobile that sees its weapon picks it up again.
Disarm(v, o) ==
  /\ Here(v) /\ o \in (world.worn \cap Inside(world, v)) \ Lamp
  /\ LET free == obj_from_char(world, o)
         down == obj_to_room(free, o, world.where[v])
     IN  world' \in IF o \in Stock THEN {obj_to_char(free, o, v)}
                    ELSE {down} \cup IF v \in Mob THEN {get_obj(down, v, o)} ELSE {}

----------------------------------------------------------------------------
\* Seats.

\* One in hand is put down first (do_sit, do_rest, do_sleep).
Sit(c, o) ==
  /\ Here(c) /\ o \in Seat /\ world.on[c] # o
  /\ \/ world.at[o] = world.where[c] /\ world' = [world EXCEPT !.on[c] = o]
     \/ /\ world.at[o] = c
        /\ LET on == [world EXCEPT !.on[c] = o]
           IN  world' = obj_to_room(obj_from_char(on, o), o, world.where[c])

\* stand on another seat: the old one comes along.
Stand(c, o) ==
  /\ Here(c) /\ o \in Seat /\ world.on[c] # o /\ world.at[o] = world.where[c]
  /\ LET up == [world EXCEPT !.on[c] = o]
     IN  world' \in {up} \cup IF world.on[c] # Nil THEN {get_obj(up, c, world.on[c])} ELSE {}

\* at <place> <command>: the commands are get, drop and sit.
There(w, c) ==
  {w} \cup {get_obj(w, c, o) : o \in Inside(w, w.where[c])}
      \cup {obj_to_room(obj_from_char(w, o), o, w.where[c]) : o \in CarriedBy(w, c)}
      \cup {[w EXCEPT !.on[c] = o] : o \in Seat \cap Inside(w, w.where[c])}

At(c, r) ==
  /\ Here(c) /\ c \in Immortal /\ (r # world.where[c] \/ AtHome)
  /\ LET away == char_to_room(char_from_room(world, c), c, r)
     IN  \E w \in There(away, c) :
            world' = [char_to_room(char_from_room(w, c), c, world.where[c])
                        EXCEPT !.on[c] = world.on[c]]

----------------------------------------------------------------------------
\* The end of an object.

\* Mutant of BurnOut: the room is left to unequip_char, for which the lamp
\* is out already.
BurnOutQuietly(c, o) ==
  /\ Here(c) /\ c \notin Mob \cup Immortal /\ o \in Shining(world, c)
  /\ world' = extract_obj([world EXCEPT !.lit = @ \ {o}], o)

\* char_update: the light goes out before the lamp does.
BurnOut(c, o) ==
  /\ Here(c) /\ c \notin Mob \cup Immortal /\ o \in Shining(world, c)
  /\ world' = extract_obj([world EXCEPT !.lit = @ \ {o}, !.light[world.where[c]] = @ - 1], o)

\* obj_update: its time is up.
Decay(o) == world.at[o] # Nil /\ world' = extract_obj(world, o)

Acceptable(w, r) == {o \in Inside(w, r) \ Rootbound : Users(w, o) = {}}

\* One, or all that the room has (some, if it has more than fifty).
do_sacrifice(c) ==
  /\ Here(c)
  /\ LET S == Acceptable(world, world.where[c])
     IN  \/ \E o \in S : world' = extract_obj(world, o)
         \/ world' = extract_all(world, S)

\* Immortals eat anything.
do_eat(c, o) ==
  /\ Here(c) /\ o \in CarriedBy(world, c) /\ (o \in Edible \/ c \in Immortal)
  /\ world' = extract_obj(world, o)

\* mob junk of what it has, mob remove of what somebody else has: worn or not.
Junk(c, o) ==
  /\ c \in Mob /\ o \in Inside(world, c)
  /\ world' = extract_obj(world, o)

do_mpremove(c, o, v) ==
  /\ c \in Mob /\ SameRoom(c, v) /\ o \in Inside(world, v)
  /\ world' = extract_obj(world, o)

\* purge, mob purge: first the other mobiles of the room, then what lies in it.
Purged(w, c) ==
  LET mobs == {v \in Mob \ {c} : w.where[v] = w.where[c]}
      rid == Over(mobs, w, [v \in Char |-> [u \in World |-> extract_char(u, v)]])
  IN  extract_all(rid, Inside(rid, w.where[c]) \ NoPurge)

do_purge(c) == Here(c) /\ c \in Immortal \cup Mob /\ world' = Purged(world, c)

Spilled(w, o, r) ==
  Over(Inside(w, o), w, [p \in Obj |-> [v \in World |-> obj_to_room(obj_from_obj(v, p), p, r)]])

\* A floating bag spills its contents as it decays.
Spill(o) ==
  /\ o \in Bag \cap world.worn
  /\ world' = extract_obj(Spilled(world, o, world.where[world.at[o]]), o)

\* acid_effect of what lies in a room or is on somebody: what was inside
\* falls to the ground.
Corroded(w, o) ==
  LET x == w.at[o]
  IN  extract_obj(Spilled(w, o, IF x \in Room THEN x ELSE w.where[x]), o)

corrode_all(w, S) == Over(S, w, [o \in Obj |-> [v \in World |-> Corroded(v, o)]])

\* acid_effect may go on eating at what fell out.
Dissolve(o) ==
  /\ world.at[o] \in Room \cup Char
  /\ \E S \in SUBSET Inside(world, o) : world' = corrode_all(Corroded(world, o), S)

\* fire_effect: what falls out burns before the bag is gone.
Burn(o) ==
  /\ o \in Bag /\ world.at[o] \in Room \cup Char
  /\ LET r == IF world.at[o] \in Room THEN world.at[o] ELSE world.where[world.at[o]]
     IN  \E S \in SUBSET Inside(world, o) :
           world' = extract_obj(corrode_all(Spilled(world, o, r), S), o)

\* cold_effect and shock_effect: what shatters holds nothing.
Shatter(o) ==
  /\ o \notin Bag \cup Corpse /\ world.at[o] \in Room \cup Char
  /\ world' = extract_obj(world, o)

do_mpotransfer(c, o, r) ==
  /\ c \in Mob /\ Here(c) /\ o \in Reach(c)
  /\ world' = obj_to_room(Detach(world, o), o, r)

\* donate_obj: what was in hand is put down first, and stays there when it is
\* refused.
Donate(c, o, r) ==
  /\ Here(c) /\ r # world.where[c] /\ o \in Reach(c) \ world.worn
  /\ LET here == world.where[c]
         down == IF world.at[o] = c THEN obj_to_room(obj_from_char(world, o), o, here) ELSE world
     IN  world' = IF o \in Rootbound \/ Users(down, o) # {} THEN down
                  ELSE obj_to_room(obj_from_room(down, o), o, r)

----------------------------------------------------------------------------
\* Death (raw_kill).

\* check_deathdrop.
Dropped(w, c) ==
  Over(Inside(w, c) \cap DeathDrop, w,
       [o \in Obj |-> [v \in World |-> obj_to_room(obj_from_char(v, o), o, v.where[c])]])

make_corpse(w, c, corpse) ==
  LET move(v, o) == LET free == obj_from_char(v, o)
                    IN  IF o \in Stock THEN extract_obj(free, o) ELSE obj_to_obj(free, o, corpse)
      filled == Over(Inside(w, c), w, [o \in Obj |-> [v \in World |-> move(v, o)]])
  IN  obj_to_room(filled, corpse, w.where[c])

DieMob(c, corpse) ==
  /\ c \in Mob /\ Here(c) /\ corpse \in Corpse /\ world.at[corpse] = Nil /\ Spare(world) > 0
  /\ world' = extract_char(make_corpse(Dropped(world, c), c, corpse), c)

DiePlayer(c) ==
  /\ c \notin Mob /\ Here(c)
  /\ world' = char_to_room(char_from_room(Dropped(world, c), c), c, Temple)

----------------------------------------------------------------------------
Moves(c) ==
  \/ \E r \in Room : Enter(c, r) \/ Walk(c, r) \/ At(c, r)
  \/ Leave(c) \/ DiePlayer(c) \/ do_sacrifice(c) \/ do_purge(c)
  \/ \E o \in Corpse : DieMob(c, o)

Handles(c, o) ==
  \/ Get(c, o) \/ Drop(c, o) \/ Wear(c, o) \/ do_remove(c, o) \/ Disarm(c, o)
  \/ Sit(c, o) \/ Stand(c, o) \/ BurnOut(c, o) \/ do_eat(c, o) \/ Junk(c, o)
  \/ \E b \in Obj : GetFrom(c, o, b) \/ Put(c, o, b)
  \/ \E v \in Char : \/ Give(c, o, v) \/ do_steal(c, o, v) \/ do_chown(c, o, v)
                     \/ Buy(c, o, v) \/ Sell(c, o, v) \/ do_mpremove(c, o, v)
  \/ \E r \in Room : do_mpotransfer(c, o, r) \/ Donate(c, o, r)

Next ==
  \/ \E c \in Char : Moves(c)
  \/ \E c \in Char, o \in Obj : Handles(c, o)
  \/ \E o \in Obj : \/ Create(o) \/ Decay(o) \/ Spill(o) \/ Dissolve(o) \/ Burn(o)
                    \/ Shatter(o)

Spec == Init /\ [][Next]_vars

----------------------------------------------------------------------------
\* What anybody carries is counted: carry_number and carry_weight, which are
\* only ever added to and subtracted from, are what the carried objects and
\* all that is in them amount to (no command goes on with a debt).
NumberExact ==
  \A c \in Char :
    world.number[c] = SumFunctionOnSet([o \in Obj |-> get_obj_number(world, o)], Inside(world, c))

CarryExact ==
  /\ NumberExact
  /\ \A c \in Char :
       world.weight[c] = SumFunctionOnSet([o \in Obj |-> get_obj_weight(world, o)], Inside(world, c))

\* ch->on is never stale: who sits on something is in the game and in the
\* room it stands in, however the seat or he was moved (count_users and
\* extract_obj look only at the people of the room).
SeatsAreHere ==
  \A c \in Char : world.on[c] # Nil =>
    world.where[c] # Nil /\ world.at[world.on[c]] = world.where[c]

\* A room is as light as lit lamps are worn in it (room_is_dark reads the
\* counter), after all the walking, dying, burning out and disarming.
LightsCounted ==
  \A r \in Room :
    world.light[r] = Cardinality({c \in Char : world.where[c] = r /\ Shining(world, c) # {}})

\* Everything in the game can be got at: it is in a room, on somebody who is
\* in the game, or inside of something that is; what is worn is carried.
Anchored ==
  /\ TypeOK
  /\ \A o \in Obj : world.at[o] # Nil =>
       LET x == world.at[Outermost(world, o)]
       IN  x \in Room \/ (x \in Char /\ world.where[x] # Nil)
  /\ world.worn \subseteq {o \in Obj : world.at[o] \in Char}
=============================================================================
