------------------------------- MODULE Areas -------------------------------
(***************************************************************************)
(* Areas and their resets (db.c, elements/area.c), and the doors that      *)
(* lead from room to room (act_move.c).  While players and mobiles walk,   *)
(* open, lock, pick, take away and kill, area_update ages the areas and    *)
(* resets those whose time has come.  Three sets of counters decide what a *)
(* reset does, and all are kept by hand: how many players are in an area,  *)
(* how many mobiles of a kind live and how many objects of a kind exist.   *)
(*                                                                         *)
(* The world is a record, as in Objects; a reset makes choices, and so     *)
(* goes from a world to the set of its outcomes.  What is done with objects *)
(* in hand is in Objects: here they are only taken, dropped and destroyed, *)
(* and not cloned (object_clone does not count what it makes).             *)
(***************************************************************************)
EXTENDS Integers, Sequences, FiniteSets, FiniteSetsExt, SequencesExt, Loops

CONSTANTS
  Player,
  Mobile,  \* the bodies mobiles may have; a bound
  Object,  \* the objects that may exist at once; a bound
  Kind,    \* body or object |-> its index data or template
  Area, Room,
  AreaOf,  \* room |-> room->area
  Rooms,   \* area |-> its rooms, by vnum
  Order,   \* the areas as area_iterator finds them
  School,  \* the area of ROOM_VNUM_SCHOOL, if there is one
  Dir, Rev,  \* directions, and rev_dir
  Exit, To,  \* exits, and where they lead
  Way,     \* room |-> direction |-> its exit at the boot
  Door,    \* the exits with EX_ISDOOR
  Chest,   \* kinds of objects that are containers
  Key,     \* door or kind of chest |-> the kind of its key, if it has one
  Shut, Locked,  \* rs_flags of exits and value[1] of templates
  Reset,   \* room |-> its resets, in order
  Keeper,  \* the kinds of mobiles with a shop
  Sentinel, StayArea,  \* kinds of mobiles that never move, or not out of the area
  Young, Busy, Old,    \* ages: 3, 15 and 31 in the code
  Twins,   \* bound: rooms that a login has read to be in when its player quits
  Nil

Body == Player \cup Mobile
Kinds == {Kind[x] : x \in Mobile \cup Object}

\* fix_exits stops the boot when things are put into no object and given to no
\* mobile.
ResetsInOrder ==
  \A r \in Room : \A i \in DOMAIN Reset[r] :
    LET Before(cmds) == \E j \in 1..(i - 1) : Reset[r][j].cmd \in cmds
    IN  /\ Reset[r][i].cmd = "P" => Before({"O", "G"})
        /\ Reset[r][i].cmd = "G" => Before({"M"})

ResetsTyped ==
  \A r \in Room :
    /\ Reset[r] \in Seq(Range(Reset[r]))
    /\ \A c \in Range(Reset[r]) :
         /\ c.cmd \in {"M", "O", "P", "G", "R"}
         /\ c.cmd = "P" => c.most \in Int /\ c.kind \notin Chest
         /\ c.cmd = "R" => c.dirs \subseteq Dir

ASSUME AreasConstants ==
  /\ ResetsInOrder /\ ResetsTyped
  /\ IsFiniteSet(Player) /\ IsFiniteSet(Mobile) /\ IsFiniteSet(Object)
  /\ Player \cap Mobile = {} /\ Body \cap (Object \cup Room) = {} /\ Object \cap (Room \cup Exit) = {}
  /\ Chest \cap Exit = {}
  /\ Twins \subseteq Room /\ AreaOf \in [Room -> Area] /\ Rooms \in [Area -> Seq(Room)] /\ Order \in Seq(Area)
  /\ Rev \in [Dir -> Dir] /\ To \in [Exit -> Room] /\ Way \in [Room -> [Dir -> Exit \cup {Nil}]]
  /\ Door \subseteq Exit /\ Shut \subseteq Door \cup Chest /\ Locked \subseteq Shut
  /\ {Young, Busy, Old} \subseteq Nat /\ Young < Busy /\ Busy < Old /\ Busy >= 2
  /\ Nil \notin Room \cup Body \cup Object \cup Exit \cup Area

VARIABLE world

AreasVars == <<world>>

World ==
  [where : [Body -> Room \cup {Nil}],
   at : [Object -> Room \cup Body \cup Object \cup {Nil}],
   list : Seq(Object),                  \* the containers among them, the newest first
   count : [Kinds -> Int],              \* mob_idx->count, objtemplate->count
   way : [Room -> [Dir -> Exit \cup {Nil}]],  \* room->exit[]
   shut : SUBSET (Exit \cup Object), locked : SUBSET (Exit \cup Object),
   nplayer : [Area -> Int], empty : SUBSET Area, age : [Area -> 0..Old]]

AreasTypeOK == world \in World

----------------------------------------------------------------------------
\* Bodies and objects.

Alive(w, k) == {m \in Mobile : Kind[m] = k /\ w.where[m] # Nil}
Unborn(w, k) == {m \in Mobile : Kind[m] = k /\ w.where[m] = Nil}
Existing(w) == {o \in Object : w.at[o] # Nil}
Unmade(w, k) == {o \in Object : Kind[o] = k /\ w.at[o] = Nil}
Inside(w, x) == {o \in Object : w.at[o] = x}

\* count_obj_list.
CountIn(w, k, x) == Cardinality({o \in Inside(w, x) : Kind[o] = k})

char_from_room(w, c) ==
  [w EXCEPT !.where[c] = Nil,
            !.nplayer[AreaOf[w.where[c]]] = @ - IF c \in Player THEN 1 ELSE 0]

char_to_room(w, c, r) ==
  LET a == AreaOf[r]
      in == [w EXCEPT !.where[c] = r]
  IN  IF c \in Mobile THEN in
      ELSE [in EXCEPT !.nplayer[a] = @ + 1, !.empty = @ \ {a},
                      !.age[a] = IF a \in w.empty THEN 0 ELSE @]

\* A new object is at the head of the list, which matters for containers only;
\* x is where it is put.
create_object(w, o, x) ==
  [w EXCEPT !.at[o] = x, !.list = (IF Kind[o] \in Chest THEN <<o>> ELSE <<>>) \o @, !.count[Kind[o]] = @ + 1,
            !.shut = IF Kind[o] \in Shut THEN @ \cup {o} ELSE @ \ {o},
            !.locked = IF Kind[o] \in Locked THEN @ \cup {o} ELSE @ \ {o}]

create_mobile(w, m) == [w EXCEPT !.count[Kind[m]] = @ + 1]

Others(L, gone) ==
  Through(L, <<>>, [o \in Object |-> [K \in Seq(Object) |-> IF o \in gone THEN K ELSE Append(K, o)]])

\* Mutant of Extracted: what is inside is freed uncounted.
ExtractedQuickly(w, S) ==
  LET gone == S \cup UNION {Inside(w, o) : o \in S}
  IN  [w EXCEPT !.at = [p \in Object |-> IF p \in gone THEN Nil ELSE @[p]],
                !.list = Others(@, gone),
                !.count = [k \in Kinds |-> @[k] - Cardinality({p \in S : Kind[p] = k})],
                !.shut = @ \ gone, !.locked = @ \ gone]

\* The objects S are gone with what is inside.  Chests are not put into chests,
\* so this holds nothing.
Extracted(w, S) ==
  LET gone == S \cup UNION {Inside(w, o) : o \in S}
  IN  [w EXCEPT !.at = [p \in Object |-> IF p \in gone THEN Nil ELSE @[p]],
                !.list = Others(@, gone),
                !.count = [k \in Kinds |-> @[k] - Cardinality({p \in gone : Kind[p] = k})],
                !.shut = @ \ gone, !.locked = @ \ gone]

extract_obj(w, o) == Extracted(w, {o})

\* extract_char(ch, TRUE), with the inventory (free_char).
extract_char(w, c) ==
  LET out == Extracted(char_from_room(w, c), Inside(w, c))
  IN  IF c \in Mobile THEN [out EXCEPT !.count[Kind[c]] = @ - 1] ELSE out

----------------------------------------------------------------------------
\* One reset.  A run through the resets of a room remembers in "last" whether
\* the one before did anything, and in "mob" whom it created.

\* The exits of a room and those that come back from where they lead,
\* wherever these lead to.
ExitsAround(w, r) ==
  LET out == {w.way[r][d] : d \in Dir} \ {Nil}
  IN  out \cup ({w.way[To[w.way[r][d]]][Rev[d]] : d \in {e \in Dir : w.way[r][e] # Nil}} \ {Nil})

reset_exits(w, r) ==
  LET S == ExitsAround(w, r)
  IN  [w EXCEPT !.shut = (@ \ S) \cup (S \cap Shut), !.locked = (@ \ S) \cup (S \cap Locked)]

\* 'M': world limit, room limit, then the new mobile.
reset_mobile(s, r, c) ==
  LET here == Cardinality({m \in Alive(s.w, c.kind) : s.w.where[m] = r})
  IN  IF s.w.count[c.kind] >= c.limit \/ Unborn(s.w, c.kind) = {} THEN {[s EXCEPT !.last = FALSE]}
      ELSE IF here >= c.most THEN {[s EXCEPT !.last = @ /\ here = 0]}
      ELSE {[s EXCEPT !.w = char_to_room(create_mobile(s.w, m), m, r), !.last = TRUE, !.mob = m] :
              m \in Unborn(s.w, c.kind)}

\* 'O': one of its kind in the room is enough.
reset_object(s, r, c) ==
  IF CountIn(s.w, c.kind, r) > 0 \/ Unmade(s.w, c.kind) = {} THEN {[s EXCEPT !.last = FALSE]}
  ELSE {[s EXCEPT !.w = create_object(s.w, o, r), !.last = TRUE] : o \in Unmade(s.w, c.kind)}

\* get_obj_type: the newest of its kind, wherever it is.
Newest(w, k) == SelectInSeq(w.list, LAMBDA o : Kind[o] = k)

\* The lid is as it was at first.
Relid(w, o) ==
  [w EXCEPT !.shut = IF Kind[o] \in Shut THEN @ \cup {o} ELSE @ \ {o},
            !.locked = IF Kind[o] \in Locked THEN @ \cup {o} ELSE @ \ {o}]

\* Mutant of Fillable: any of the kind will do.
FillableAnywhere(s, r, c) == s.w.nplayer[AreaOf[r]] <= 0 /\ Newest(s.w, c.into) # 0

\* A chest somebody carries, or that is in another, is left alone, unless the
\* reset before has made one.
Fillable(s, r, c) ==
  /\ s.w.nplayer[AreaOf[r]] <= 0 /\ Newest(s.w, c.into) # 0
  /\ s.w.at[s.w.list[Newest(s.w, c.into)]] \in Room \/ s.last

\* 'P': what goes into a chest, up to its limits.  Above the limit of the world
\* it is a chance of one in three.
Filled(w, c, chest) ==
  LET missing == c.most - CountIn(w, c.kind, chest)
      more(v, i) == IF Unmade(v, c.kind) = {} \/ (i > 1 /\ v.count[c.kind] >= c.limit) THEN {v}
                    ELSE {create_object(v, o, chest) : o \in Unmade(v, c.kind)}
  IN  Outcomes([i \in 1..missing |-> i], {w}, [i \in 1..missing |-> [v \in World |-> more(v, i)]])

reset_put(s, r, c) ==
  LET chest == s.w.list[Newest(s.w, c.into)]
      full == s.w.count[c.kind] >= c.limit
  IN  IF ~Fillable(s, r, c) \/ CountIn(s.w, c.kind, chest) > c.most THEN {[s EXCEPT !.last = FALSE]}
      ELSE {[s EXCEPT !.w = Relid(v, chest), !.last = TRUE] : v \in Filled(s.w, c, chest)}
           \cup IF full THEN {[s EXCEPT !.last = FALSE]} ELSE {}

\* 'G' and 'E', for the mobile before.  Above the limit it is one in five.
reset_give(s, r, c) ==
  LET given == {[s EXCEPT !.w = create_object(s.w, o, s.mob)] : o \in Unmade(s.w, c.kind)}
  IN  IF ~s.last \/ s.mob = Nil THEN {[s EXCEPT !.last = FALSE]}
      ELSE IF Unmade(s.w, c.kind) = {} THEN {s}
      ELSE given \cup IF Kind[s.mob] \notin Keeper /\ s.w.count[c.kind] >= c.limit THEN {s} ELSE {}

Shuffles(S) == {p \in [S -> S] : \A x \in S : \E y \in S : p[y] = x}

\* 'R': the first exits of the room change places.
reset_random(s, r, c) ==
  {[s EXCEPT !.w.way[r] = [d \in Dir |-> IF d \in c.dirs THEN @[p[d]] ELSE @[d]]] : p \in Shuffles(c.dirs)}

reset_one(s, r, c) ==
  CASE c.cmd = "M" -> reset_mobile(s, r, c)
    [] c.cmd = "O" -> reset_object(s, r, c)
    [] c.cmd = "P" -> reset_put(s, r, c)
    [] c.cmd = "G" -> reset_give(s, r, c)
    [] c.cmd = "R" -> reset_random(s, r, c)

\* How far a run has come.
Run == [w : World, last : BOOLEAN, mob : Mobile \cup {Nil}]

reset_room(w, r) ==
  LET start == [w |-> reset_exits(w, r), last |-> FALSE, mob |-> Nil]
  IN  {s.w : s \in Outcomes(Reset[r], {start},
                            [c \in Range(Reset[r]) |-> [s \in Run |-> reset_one(s, r, c)]])}

reset_area(w, a) == Outcomes(Rooms[a], {w}, [r \in Room |-> [v \in World |-> reset_room(v, r)]])

----------------------------------------------------------------------------
\* area_update.

\* Mutant of Due: an empty area is left alone for good.
DueInUse(w, a) ==
  w.age[a] > Young /\ a \notin w.empty /\ (w.nplayer[a] = 0 \/ w.age[a] >= Busy)

\* Nobody has been there since the last reset, or not for long.
Due(w, a) ==
  /\ w.age[a] > Young
  /\ (a \notin w.empty /\ (w.nplayer[a] = 0 \/ w.age[a] >= Busy)) \/ w.age[a] >= Old

\* The school is reset more often, and is never empty.
Aged(w, a) ==
  IF a = School THEN {[w EXCEPT !.age[a] = Busy - 2]}
  ELSE {[w EXCEPT !.age[a] = n, !.empty = IF w.nplayer[a] = 0 THEN @ \cup {a} ELSE @] : n \in 0..Young}

update_area(w, a) ==
  LET older == [w EXCEPT !.age[a] = IF @ < Old THEN @ + 1 ELSE @]
  IN  IF Due(older, a) THEN UNION {Aged(v, a) : v \in reset_area(older, a)} ELSE {older}

UpdateAll(w) == Outcomes(Order, {w}, [a \in Area |-> [v \in World |-> update_area(v, a)]])

AreaUpdate == world' \in UpdateAll(world)

\* boot_db: the areas are loaded, then all are reset.
Booted ==
  [where |-> [c \in Body |-> Nil], at |-> [o \in Object |-> Nil], list |-> <<>>,
   count |-> [k \in Kinds |-> 0], way |-> Way, shut |-> Exit \cap Shut, locked |-> Exit \cap Locked,
   nplayer |-> [a \in Area |-> 0], empty |-> {}, age |-> [a \in Area |-> 0]]

AreasInit == world \in Outcomes(Order, {Booted}, [a \in Area |-> [v \in World |-> reset_area(v, a)]])

----------------------------------------------------------------------------
\* Coming and going.

Here(c) == world.where[c] # Nil

\* A player with what his file says he has; objects are out of it.
Enter(p, r) == ~Here(p) /\ world' = char_to_room(world, p, r)

\* do_quit ends other logins of its player, too, and extracts whom they have
\* read: he is counted out of a room that he was never counted into.
Quit(p) ==
  /\ Here(p)
  /\ \E r \in {Nil} \cup Twins :
       LET out == extract_char(world, p)
       IN  world' = IF r = Nil THEN out ELSE [out EXCEPT !.nplayer[AreaOf[r]] = @ - 1]

\* recall, goto, death, a gate.
Jump(p, r) ==
  /\ Here(p) /\ r # world.where[p]
  /\ world' = char_to_room(char_from_room(world, p), p, r)

\* move_char: not through a closed door.
Walk(p, d) ==
  LET e == world.way[world.where[p]][d]
  IN  /\ Here(p) /\ e # Nil /\ e \notin world.shut
      /\ world' = char_to_room(char_from_room(world, p), p, To[e])

\* Mobiles of an area nobody has been to do nothing.
Wander(m, d) ==
  LET r == world.where[m]
      e == world.way[r][d]
  IN  /\ Here(m) /\ AreaOf[r] \notin world.empty /\ Kind[m] \notin Sentinel
      /\ e # Nil /\ e \notin world.shut
      /\ Kind[m] \in StayArea => AreaOf[To[e]] = AreaOf[r]
      /\ world' = char_to_room(char_from_room(world, m), m, To[e])

\* What it had lies about (the corpse is left out).
Kill(p, m) ==
  /\ Here(p) /\ world.where[m] = world.where[p]
  /\ LET bare == [world EXCEPT !.at = [o \in Object |-> IF @[o] = m THEN world.where[m] ELSE @[o]]]
     IN  world' = extract_char(bare, m)

----------------------------------------------------------------------------
\* Objects.

Reach(p) == Inside(world, world.where[p]) \cup Inside(world, p)

Get(p, o) ==
  /\ Here(p)
  /\ \/ world.at[o] = world.where[p]
     \/ world.at[o] \in Reach(p) /\ world.at[o] \notin world.shut
  /\ world' = [world EXCEPT !.at[o] = p]

Drop(p, o) ==
  Here(p) /\ world.at[o] = p /\ world' = [world EXCEPT !.at[o] = world.where[p]]

Put(p, o, chest) ==
  /\ Here(p) /\ world.at[o] = p /\ Kind[o] \notin Chest
  /\ chest \in Reach(p) \ world.shut /\ Kind[chest] \in Chest
  /\ world' = [world EXCEPT !.at[o] = chest]

\* Sacrificed, eaten, decayed.
Vanish(o) == o \in Existing(world) /\ world' = extract_obj(world, o)

----------------------------------------------------------------------------
\* Doors and lids.  A door has two sides when the exit on the other side leads
\* back.

Other(w, r, d) ==
  LET e == w.way[r][d]
      back == w.way[To[e]][Rev[d]]
  IN  IF back # Nil /\ To[back] = r THEN {back} ELSE {}

\* find_door, get_obj_here: what can be opened where p is.
Openable(p) ==
  ({world.way[world.where[p]][d] : d \in Dir} \cap Door) \cup {o \in Reach(p) : Kind[o] \in Chest}

Sides(p, x) ==
  LET r == world.where[p]
  IN  {x} \cup UNION {Other(world, r, d) : d \in {e \in Dir : world.way[r][e] = x}}

has_key(p, x) ==
  \E o \in Inside(world, p) : Kind[o] = Key[IF x \in Exit THEN x ELSE Kind[x]]

\* Mutant of do_open: the other side stays shut.
do_open_side(p, x) ==
  /\ x \in world.shut \ world.locked
  /\ world' = [world EXCEPT !.shut = @ \ {x}]

do_open(p, x) ==
  /\ x \in world.shut \ world.locked
  /\ world' = [world EXCEPT !.shut = @ \ Sides(p, x)]

do_close(p, x) ==
  /\ x \notin world.shut
  /\ world' = [world EXCEPT !.shut = @ \cup Sides(p, x)]

do_lock(p, x) ==
  /\ x \in world.shut \ world.locked /\ has_key(p, x)
  /\ world' = [world EXCEPT !.locked = @ \cup Sides(p, x)]

do_unlock(p, x) ==
  /\ x \in world.shut \cap world.locked /\ has_key(p, x)
  /\ world' = [world EXCEPT !.locked = @ \ Sides(p, x)]

\* No mobile of a higher level may be awake.
do_pick(p, x) ==
  /\ x \in world.shut \cap world.locked /\ Key[IF x \in Exit THEN x ELSE Kind[x]] # Nil
  /\ \A m \in Mobile : world.where[m] # world.where[p]
  /\ world' = [world EXCEPT !.locked = @ \ Sides(p, x)]

----------------------------------------------------------------------------
Goes(p) ==
  \/ \E r \in Room : Enter(p, r) \/ Jump(p, r)
  \/ \E d \in Dir : Walk(p, d)
  \/ Quit(p)

Handles(p) ==
  \/ \E o \in Object : Get(p, o) \/ Drop(p, o)
  \/ \E m \in Mobile : Kill(p, m)
  \/ \E o \in Object, chest \in Object : Put(p, o, chest)

Opens(p) ==
  /\ Here(p)
  /\ \E x \in Openable(p) :
       do_open(p, x) \/ do_close(p, x) \/ do_lock(p, x) \/ do_unlock(p, x) \/ do_pick(p, x)

AreasNext ==
  \/ \E p \in Player : Goes(p) \/ Handles(p) \/ Opens(p)
  \/ \E m \in Mobile, d \in Dir : Wander(m, d)
  \/ \E o \in Object : Vanish(o)
  \/ AreaUpdate

\* update_handler calls area_update whenever its pulse has run down.
AreasSpec == AreasInit /\ [][AreasNext]_AreasVars /\ WF_AreasVars(AreaUpdate)

----------------------------------------------------------------------------
\* What builders see to, which the boot does not check.

\* The directions in which an 'R' reset may turn an exit.
Mazy(r) == UNION {c.dirs : c \in {x \in Range(Reset[r]) : x.cmd = "R"}}

\* The exits that may be found at a place.
Found(r, d) == {Way[r][x] : x \in IF d \in Mazy(r) THEN Mazy(r) ELSE {d}}

\* How builders make doors: in one place each, not where resets shuffle, the
\* other side leads back, and is a door that is shut and locked likewise.
DoorsMatch ==
  /\ \A d \in Dir : Rev[Rev[d]] = d
  /\ \A r \in Room : \A d \in Mazy(r) : Way[r][d] \notin Door
  /\ \A r \in Room, s \in Room, d \in Dir, x \in Dir :
       Way[r][d] = Way[s][x] /\ Way[r][d] \in Door => r = s /\ d = x
  /\ \A r \in Room, d \in Dir : \A e \in Found(r, d) \ {Nil} : \A f \in Found(To[e], Rev[d]) \ {Nil} :
       /\ f \in Door => To[f] = r /\ e \in Door
       /\ To[f] = r /\ e \in Door =>
            f \in Door /\ (e \in Shut <=> f \in Shut) /\ (e \in Locked <=> f \in Locked)

\* How builders fill chests: right after they are made, or after the last thing
\* that was put in.
ChestsFollow ==
  \A r \in Room : \A i \in DOMAIN Reset[r] :
    LET c == Reset[r][i]
        b == Reset[r][i - 1]
    IN  c.cmd = "P" => /\ i > 1 /\ c.into \in Chest
                       /\ \/ b.cmd = "O" /\ b.kind = c.into
                          \/ b.cmd = "P" /\ b.into = c.into

----------------------------------------------------------------------------
\* The counters that resets go by are true: the players in an area, and that
\* nobody is in one that is called empty; the mobiles of a kind that live; the
\* objects of a kind that exist, wherever they are and however they went
\* (unless a player quits while somebody logs in with his name).
Counted ==
  /\ AreasTypeOK
  /\ \A a \in Area :
       /\ world.nplayer[a] = Cardinality({p \in Player : Here(p) /\ AreaOf[world.where[p]] = a})
       /\ a \in world.empty => world.nplayer[a] = 0
  /\ \A k \in Kinds :
       world.count[k] = Cardinality(Alive(world, k)) + Cardinality({o \in Existing(world) : Kind[o] = k})

\* The two sides of a door are one: open, shut or locked on both, whoever
\* opened it from where, and when one of the areas was reset and the other not.
DoorsAgree ==
  \A r \in Room, d \in Dir :
    LET e == world.way[r][d]
    IN  e # Nil => \A f \in Other(world, r, d) :
                     (e \in world.shut <=> f \in world.shut) /\ (e \in world.locked <=> f \in world.locked)

\* What p carries, in hand and in the containers in hand.
CarriedBy(p) == Inside(world, p) \cup UNION {Inside(world, o) : o \in Inside(world, p)}

\* What resets create never gets into the hands of a player, not even into the
\* chest he carries (get_obj_type finds the newest one of the world).
ResetsStayOut ==
  [][Cardinality(Existing(world')) > Cardinality(Existing(world)) =>
       \A p \in Player : CarriedBy(p)' = CarriedBy(p)]_AreasVars

\* A mobile that a room is reset with comes back after the last of its kind has
\* died, whether players stay around or nobody ever comes.
Repopulated ==
  \A r \in Room : \A i \in DOMAIN Reset[r] :
    Reset[r][i].cmd = "M" =>
      (Alive(world, Reset[r][i].kind) = {} ~> Alive(world, Reset[r][i].kind) # {})
=============================================================================
