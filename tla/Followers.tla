----------------------------- MODULE Followers -----------------------------
(***************************************************************************)
(* Who follows, leads, owns, charms, answers and remembers whom            *)
(* (follower_service.c and its callers).  The bonds are pointers between   *)
(* struct char_data, which are freed when a mobile dies, when a player     *)
(* quits and when a login is given up, and handed out again.               *)
(*                                                                         *)
(* Everybody may act on everybody in the game: rooms, sight, levels, saves *)
(* and is_safe only forbid some of it.  PLR_NOFOLLOW is left out, so       *)
(* do_nofollow is the half of it that sends the followers away.  Whether a *)
(* link is open is the business of Session; players are above level one.   *)
(***************************************************************************)
CONSTANTS
  Pc,        \* struct char_data of players
  Mob,       \* struct char_data of mobiles
  Name,      \* the players
  Packs,     \* sets of mobiles with the same group number
  Saves,     \* bound: "charm", "pet" - are players saved charmed, with a pet?
  Commands,  \* bound: the commands given, "follow", "charm", "fight", "tell", "remember"
  Nil        \* the NULL pointer

ASSUME FollowersConstants ==
  /\ Nil \notin Pc \cup Mob /\ Pc \cap Mob = {}
  /\ Packs \subseteq SUBSET Mob
  /\ Saves \subseteq {"charm", "pet"}

Char == Pc \cup Mob

VARIABLES
  world,   \* char_list
  login,   \* the players loaded by a dialogue and not yet on char_list
  placed,  \* those on char_list who are in a room
  name,    \* ch->name of players
  bonds,   \* ch->master, leader and pet, and AFF_CHARM: "bit" for a pet's, "spell" for the affect
  reply,   \* ch->reply
  target,  \* ch->mprog_target
  file     \* the player files

vars == <<world, login, placed, name, bonds, reply, target, file>>

Pointers == [Char -> Char \cup {Nil}]

Bonds == [master : Pointers, leader : Pointers, pet : [Char -> Mob \cup {Nil}],
          charm : [Char -> {"none", "spell", "bit"}]]

TypeOK ==
  /\ world \subseteq Char /\ login \subseteq Pc \ world /\ placed \subseteq world
  /\ name \in [Pc -> Name] /\ bonds \in Bonds
  /\ reply \in Pointers /\ target \in Pointers
  /\ file \in [Name -> [charm : BOOLEAN, pet : BOOLEAN]]

Nobody == [c \in Char |-> Nil]

Init ==
  /\ world = {} /\ login = {} /\ placed = {}
  /\ name \in [Pc -> Name]
  /\ bonds = [master |-> Nobody, leader |-> Nobody, pet |-> Nobody, charm |-> [c \in Char |-> "none"]]
  /\ reply = Nobody /\ target = Nobody
  /\ file = [n \in Name |-> [charm |-> FALSE, pet |-> FALSE]]

----------------------------------------------------------------------------
\* follower_service.c, as functions of the bonds.

\* Mutant of StopFollower: the master keeps his pet.
StopFollowerKeepsPet(b, c) ==
  IF b.master[c] = Nil THEN b
  ELSE [b EXCEPT !.master[c] = Nil, !.leader[c] = Nil, !.charm[c] = "none"]

StopFollower(b, c) ==
  IF b.master[c] = Nil THEN b
  ELSE [master |-> [b.master EXCEPT ![c] = Nil],
        leader |-> [b.leader EXCEPT ![c] = Nil],
        pet    |-> [b.pet EXCEPT ![b.master[c]] = IF @ = c THEN Nil ELSE @],
        charm  |-> [b.charm EXCEPT ![c] = "none"]]

AddFollower(b, c, m) ==
  IF b.master[c] # Nil THEN b ELSE [b EXCEPT !.master[c] = m, !.leader[c] = Nil]

\* Mutants of DieFollower: the followers are forgotten; they stay charmed.
DieFollowerAlone(b, x) == [StopFollower(b, x) EXCEPT !.leader[x] = Nil]

DieFollowerCharmed(b, x) ==
  LET own == StopFollower(b, x)
  IN  [own EXCEPT !.master = [c \in Char |-> IF c \in world /\ @[c] = x THEN Nil ELSE @[c]],
                  !.leader = [c \in Char |-> IF c = x \/ (c \in world /\ @[c] = x) THEN Nil ELSE @[c]],
                  !.pet[x] = Nil]

\* x follows nobody any more, and nobody on char_list follows x.
DieFollower(b, x) ==
  LET own  == StopFollower(b, x)
      left == {c \in world : own.master[c] = x}
  IN  [master |-> [c \in Char |-> IF c \in left THEN Nil ELSE own.master[c]],
       leader |-> [c \in Char |-> IF c = x \/ c \in left THEN Nil
                                  ELSE IF c \in world /\ own.leader[c] = x THEN c
                                  ELSE own.leader[c]],
       pet    |-> [c \in Char |-> IF c = x /\ own.pet[c] \in left THEN Nil ELSE own.pet[c]],
       charm  |-> [c \in Char |-> IF c \in left THEN "none" ELSE own.charm[c]]]

\* The pet of x, if extract_char finds it in a room.
Pets(x) == {bonds.pet[x]} \cap placed

\* stop_follower and extract_char of the pet of x; mobiles have no pets.
NukePets(x) ==
  LET p == bonds.pet[x]
  IN  IF p = Nil THEN bonds
      ELSE LET loose == StopFollower(bonds, p)
           IN  [(IF p \in placed THEN DieFollower(loose, p) ELSE loose) EXCEPT !.pet[x] = Nil]

Members(b, c) == IF b.leader[c] # Nil THEN b.leader[c] ELSE c

SameGroup(a, c) ==
  \/ \E pack \in Packs : a \in pack /\ c \in pack
  \/ Members(bonds, a) = Members(bonds, c)

----------------------------------------------------------------------------
\* Characters come: new_char hands out a struct that is all zero.

\* The bonds when p becomes the pet of c.
Owned(b, c, p) ==
  [b EXCEPT !.master[p] = c, !.leader[p] = c, !.pet[c] = p, !.charm[p] = "bit"]

Zeroed(b, C) ==
  [master |-> [c \in Char |-> IF c \in C THEN Nil ELSE b.master[c]],
   leader |-> [c \in Char |-> IF c \in C THEN Nil ELSE b.leader[c]],
   pet    |-> [c \in Char |-> IF c \in C THEN Nil ELSE b.pet[c]],
   charm  |-> [c \in Char |-> IF c \in C THEN "none" ELSE b.charm[c]]]

\* C are new: nothing is left of who had the structs before.
Created(C) ==
  /\ reply' = [c \in Char |-> IF c \in C THEN Nil ELSE reply[c]]
  /\ target' = [c \in Char |-> IF c \in C THEN Nil ELSE target[c]]

\* create_mobile.
Spawn(m) ==
  /\ m \in Mob \ world
  /\ world' = world \cup {m} /\ placed' = placed \cup {m}
  /\ bonds' = Zeroed(bonds, {m}) /\ Created({m})
  /\ UNCHANGED <<login, name, file>>

\* load_char_obj for a dialogue, and fread_pet, whose pet goes on char_list at once.
Load(s, n) ==
  /\ s \in Pc \ (world \cup login)
  /\ \A t \in login : name[t] # n
  /\ login' = login \cup {s} /\ name' = [name EXCEPT ![s] = n]
  /\ \E P \in {{}} \cup {{m} : m \in Mob \ world} :
       /\ P # {} <=> file[n].pet
       /\ world' = world \cup P
       /\ LET new == [Zeroed(bonds, {s} \cup P) EXCEPT
                        !.charm[s] = IF file[n].charm THEN "spell" ELSE "none"]
          IN  IF P = {} THEN bonds' = new ELSE \E m \in P : bonds' = Owned(new, s, m)
       /\ Created({s} \cup P)
  /\ UNCHANGED <<placed, file>>

\* What save_char_obj writes; the pet only if it is in the room of its owner.
SavedOf(s, near) ==
  [charm |-> bonds.charm[s] # "none", pet |-> near /\ bonds.pet[s] # Nil]

SaveAs(s, near) ==
  /\ bonds.charm[s] # "none" => "charm" \in Saves
  /\ near /\ bonds.pet[s] # Nil => "pet" \in Saves
  /\ file' = [file EXCEPT ![name[s]] = SavedOf(s, near)]

\* Bound: an orphaned pet never takes the last struct of Mob.
Spare(s) == bonds.pet[s] = Nil \/ Mob \ world # {}

\* close_socket of a dialogue, which may save the player first: a pet that was
\* loaded is in no room.
HangUp(s) ==
  /\ s \in login /\ Spare(s)
  /\ login' = login \ {s}
  /\ SaveAs(s, FALSE) \/ UNCHANGED file
  /\ UNCHANGED <<world, placed, name, bonds, reply, target>>

\* check_reconnect: the player is in the game already, and the copy is freed.
Reconnect(s) ==
  /\ s \in login /\ Spare(s) /\ \E t \in world \cap Pc : name[t] = name[s]
  /\ login' = login \ {s}
  /\ UNCHANGED <<world, placed, name, bonds, reply, target, file>>

\* readmotd_answered, for a player who is not in the game.
Enter(s) ==
  /\ s \in login /\ \A t \in world \cap Pc : name[t] # name[s]
  /\ login' = login \ {s}
  /\ world' = world \cup {s} /\ placed' = placed \cup {s} \cup ({bonds.pet[s]} \ {Nil})
  /\ UNCHANGED <<name, bonds, reply, target, file>>

----------------------------------------------------------------------------
\* Characters go.

Gone(x) == {x} \cup Pets(x)

\* extract_char of C for good: replies to them are cleared; of the targets,
\* those of the characters they had remembered.
Freed(C) ==
  /\ world' = world \ C /\ placed' = placed \ C
  /\ reply' = [c \in Char |-> IF c \in world /\ reply[c] \in C THEN Nil ELSE reply[c]]
  /\ target' = [c \in Char |-> IF c \in world /\ (\E x \in C : target[x] = c) THEN Nil ELSE target[c]]

Extract(x) == Freed(Gone(x)) /\ bonds' = DieFollower(NukePets(x), x)

\* raw_kill and the purges of a mobile.
MobDies(m) ==
  /\ m \in Mob \cap placed
  /\ Extract(m)
  /\ UNCHANGED <<login, name, file>>

\* affect_strip of charm person: the bit goes, the master stays.
Unspelled(b, c) == [b EXCEPT !.charm[c] = IF @ = "spell" THEN "none" ELSE @]

\* raw_kill of a player, who is carried to the altar and freed of spells.
PlayerDies(p) ==
  /\ p \in Pc \cap placed
  /\ Freed(Pets(p)) /\ bonds' = Unspelled(NukePets(p), p)
  /\ UNCHANGED <<login, name, file>>

Quit(p) ==
  /\ p \in Pc \cap placed
  /\ \E near \in BOOLEAN : SaveAs(p, near)
  /\ Extract(p)
  /\ UNCHANGED <<login, name>>

Save(p) ==
  /\ p \in Pc \cap placed
  /\ \E near \in BOOLEAN : SaveAs(p, near)
  /\ UNCHANGED <<world, login, placed, name, bonds, reply, target>>

----------------------------------------------------------------------------
\* Commands, spells and blows between characters in a room.

Bind(b) ==
  /\ bonds' = b
  /\ UNCHANGED <<world, login, placed, name, reply, target, file>>

Enthralled(c) == bonds.charm[c] # "none" /\ bonds.master[c] # Nil

Follow(c, v) ==
  /\ c # v /\ ~Enthralled(c)
  /\ Bind(AddFollower(StopFollower(bonds, c), c, v))

\* "follow self".
FollowNobody(c) ==
  /\ ~Enthralled(c) /\ bonds.master[c] # Nil
  /\ Bind(StopFollower(bonds, c))

\* Mutant of Group: anybody may be taken into a group.
GroupAnybody(c, v) ==
  /\ bonds.master[c] = Nil /\ bonds.leader[c] \in {Nil, c}
  /\ bonds.charm[v] = "none" /\ bonds.charm[c] = "none"
  /\ Bind([bonds EXCEPT !.leader[v] = IF SameGroup(v, c) /\ c # v THEN Nil ELSE c])

Group(c, v) ==
  /\ bonds.master[c] = Nil /\ bonds.leader[c] \in {Nil, c}
  /\ c = v \/ bonds.master[v] = c
  /\ bonds.charm[v] = "none" /\ bonds.charm[c] = "none"
  /\ Bind([bonds EXCEPT !.leader[v] = IF SameGroup(v, c) /\ c # v THEN Nil ELSE c])

\* do_nofollow, when it is switched on.
NoFollow(p) ==
  /\ p \in Pc /\ bonds.charm[p] = "none"
  /\ Bind(DieFollower(bonds, p))

CharmPerson(c, v) ==
  /\ c # v /\ bonds.charm[c] = "none" /\ bonds.charm[v] = "none"
  /\ Bind([AddFollower(StopFollower(bonds, v), v, c) EXCEPT !.leader[v] = c, !.charm[v] = "spell"])

\* The affect of the spell ends.
WearOff(v) ==
  /\ bonds.charm[v] = "spell"
  /\ Bind(Unspelled(bonds, v))

\* do_buy in a pet shop; do_familiar ends in the same way.
BuyPet(p, m) ==
  /\ p \in Pc \cap placed /\ bonds.pet[p] = Nil /\ m \in Mob \ world
  /\ world' = world \cup {m} /\ placed' = placed \cup {m}
  /\ bonds' = Owned(AddFollower(Zeroed(bonds, {m}), m, p), p, m)
  /\ Created({m})
  /\ UNCHANGED <<login, name, file>>

\* check_killer: a charmed attacker of a player leaves his master.
Attacker(c, v, outlaw) ==
  IF v \in Mob \/ outlaw \/ bonds.charm[c] = "none" THEN bonds
  ELSE IF bonds.master[c] = Nil THEN [bonds EXCEPT !.charm[c] = "none"]
  ELSE StopFollower(bonds, c)

\* damage: a follower who is hit by his master leaves him.
Attack(c, v) ==
  /\ c # v
  /\ \E outlaw \in BOOLEAN :
       LET b == Attacker(c, v, outlaw)
       IN  Bind(IF b.master[v] = c THEN StopFollower(b, v) ELSE b)

Tell(c, v) ==
  /\ reply' = [reply EXCEPT ![v] = c]
  /\ UNCHANGED <<world, login, placed, name, bonds, target, file>>

\* "mob remember" and "mob forget".
Remember(m, v) ==
  /\ m \in Mob
  /\ target' = [target EXCEPT ![m] = v]
  /\ UNCHANGED <<world, login, placed, name, bonds, reply, file>>

Meet(c, v) ==
  \/ "follow" \in Commands /\ (Follow(c, v) \/ FollowNobody(c) \/ Group(c, v) \/ NoFollow(c))
  \/ "charm" \in Commands /\ (CharmPerson(c, v) \/ WearOff(v))
  \/ "fight" \in Commands /\ Attack(c, v)
  \/ "tell" \in Commands /\ Tell(c, v)
  \/ "remember" \in Commands /\ (Remember(c, v) \/ Remember(c, Nil))

Next ==
  \/ \E m \in Mob : Spawn(m) \/ MobDies(m) \/ (\E p \in Pc : BuyPet(p, m))
  \/ \E s \in Pc : (\E n \in Name : Load(s, n)) \/ HangUp(s) \/ Reconnect(s) \/ Enter(s)
  \/ \E p \in Pc : PlayerDies(p) \/ Quit(p) \/ Save(p)
  \/ \E c, v \in placed : Meet(c, v)

Spec == Init /\ [][Next]_vars

----------------------------------------------------------------------------
\* Properties.

\* Nobody in the game follows, is led by, owns or would answer a character who
\* has been freed: free_char is for "an unused character" (recycle.c:246).
BondsAreHere ==
  \A c \in world :
    {bonds.master[c], bonds.leader[c], bonds.pet[c], reply[c]} \subseteq world \cup login \cup {Nil}

\* Who is led by another follows him: every path by which somebody stops
\* following, dies or is left also takes him out of the group.
LeaderIsFollowed ==
  \A c \in world : bonds.leader[c] \in {Nil, c} \/ bonds.leader[c] = bonds.master[c]

\* A pet belongs to one owner, whom it follows, is led by and cannot leave.
PetIsKept ==
  \A c \in world \cup login : LET p == bonds.pet[c] IN
    p # Nil => /\ p \in world /\ bonds.charm[p] = "bit"
               /\ bonds.master[p] = c /\ bonds.leader[p] = c

\* Whoever is charmed has a master: anything else is logged as a bug,
\* "Check_killer: %s bad AFF_CHARM" (fight.c:1390).
CharmedHaveMaster == \A c \in world : bonds.charm[c] # "none" => bonds.master[c] # Nil
=============================================================================
