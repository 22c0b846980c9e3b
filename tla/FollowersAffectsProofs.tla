----------------------- MODULE FollowersAffectsProofs -----------------------
(***************************************************************************)
(* Followers: the types, that who is led follows, that pets are kept, and, *)
(* where players are not saved with pets or charmed, that no bond dangles  *)
(* and that the charmed have masters.                                      *)
(*                                                                         *)
(* Affects: for any spells, gear and player, numbers and flags are in step *)
(* with the list of affects and the gear, and nobody wields what is too    *)
(* heavy.  In the middle of an operation they are out of step by what is   *)
(* in hand: the lemmas say by how much (Off) and by which flags (Bits).    *)
(***************************************************************************)
EXTENDS Followers, Affects, Sums, SequenceTheorems, TLAPS


\* The bonds are right: who is led by another follows him, and a pet follows,
\* and is led by, its owner, charmed for good.
Led(b) == \A c \in Char : b.leader[c] \in {Nil, c} \/ b.leader[c] = b.master[c]

Kept(b) == \A c \in Char : LET p == b.pet[c] IN
  p # Nil => b.charm[p] = "bit" /\ b.master[p] = c /\ b.leader[p] = c

Right(b) == b \in Bonds /\ Led(b) /\ Kept(b)

\* d has no bond that b has not, but for those in the game who lead themselves,
\* and who is charmed in d has kept his master.
Looser(d, b) == \A c \in Char :
  /\ d.pet[c] \in {b.pet[c], Nil} /\ d.master[c] \in {b.master[c], Nil}
  /\ d.leader[c] \in {b.leader[c], Nil} \/ (c \in world /\ d.leader[c] = c)
  /\ d.charm[c] # "none" => b.charm[c] # "none" /\ d.master[c] = b.master[c]

\* stop_follower keeps the bonds right and clears those of the follower, the
\* claim of his owner included.
LEMMA StopIsRight ==
  ASSUME FollowersConstants, NEW b, Right(b), NEW c \in Char
  PROVE  LET d == StopFollower(b, c) IN
         /\ Right(d) /\ Looser(d, b)
         /\ d.master[c] = Nil
         /\ \A o \in Char : d.pet[o] # c
<1> DEFINE d == StopFollower(b, c)
<1>0. b \in Bonds /\ Led(b) /\ Kept(b)
  BY DEF Right
<1>1. CASE b.master[c] = Nil
  <2>1. d = b
    BY <1>1 DEF StopFollower
  <2>2. \A o \in Char : b.pet[o] # c
    BY <1>0, <1>1 DEF Kept, FollowersConstants, Char
  <2> QED
    BY <1>0, <1>1, <2>1, <2>2 DEF Right, Looser
<1>2. CASE b.master[c] # Nil
  <2> DEFINE owner == b.master[c]
  <2>1. d = [master |-> [b.master EXCEPT ![c] = Nil],
             leader |-> [b.leader EXCEPT ![c] = Nil],
             pet    |-> [b.pet EXCEPT ![owner] = IF @ = c THEN Nil ELSE @],
             charm  |-> [b.charm EXCEPT ![c] = "none"]]
    BY <1>2 DEF StopFollower
  <2>2. /\ d.master = [b.master EXCEPT ![c] = Nil]
        /\ d.leader = [b.leader EXCEPT ![c] = Nil]
        /\ d.charm = [b.charm EXCEPT ![c] = "none"]
        /\ d.pet = [b.pet EXCEPT ![owner] = IF @ = c THEN Nil ELSE @]
    BY <2>1
  <2>3. d \in Bonds
    <3>1. d.master \in Pointers /\ d.leader \in Pointers
      BY <1>0, <2>2 DEF Bonds, Pointers
    <3>2. d.pet \in [Char -> Mob \cup {Nil}]
      BY <1>0, <2>2 DEF Bonds
    <3>3. d.charm \in [Char -> {"none", "spell", "bit"}]
      BY <1>0, <2>2 DEF Bonds
    <3> QED
      BY <2>1, <3>1, <3>2, <3>3 DEF Bonds
  <2> HIDE DEF d
  <2>4. Led(d)
    BY <1>0, <2>2 DEF Led, Bonds, Pointers
  <2>5. \A o \in Char : d.pet[o] # c
    BY <1>0, <2>2 DEF Kept, Bonds, FollowersConstants, Char
  <2>6. Looser(d, b)
    BY <1>0, <2>2 DEF Looser, Bonds, Pointers
  <2>7. Kept(d)
    BY <1>0, <2>2, <2>5 DEF Kept, Bonds, Pointers, Char
  <2>8. d.master[c] = Nil
    BY <1>0, <2>2 DEF Bonds, Pointers
  <2> QED
    BY <2>3, <2>4, <2>5, <2>6, <2>7, <2>8 DEF Right, d
<1> QED
  BY <1>1, <1>2

\* So does die_follower; nobody on char_list follows x afterwards, and nobody
\* there is led by x.
LEMMA DieIsRight ==
  ASSUME FollowersConstants, NEW b, Right(b), NEW x \in Char
  PROVE  LET d == DieFollower(b, x) IN
         /\ Right(d) /\ Looser(d, b)
         /\ d.master[x] = Nil /\ d.leader[x] = Nil
         /\ \A c \in world \cap Char : d.master[c] # x /\ (d.leader[c] = x => c = x)
         /\ \A o \in Char : d.pet[o] # x
<1> DEFINE own  == StopFollower(b, x)
           left == {c \in world : own.master[c] = x}
           d    == DieFollower(b, x)
<1>1. /\ Right(own) /\ Looser(own, b) /\ own.master[x] = Nil
      /\ \A o \in Char : own.pet[o] # x
  BY StopIsRight
<1>2. d = [master |-> [c \in Char |-> IF c \in left THEN Nil ELSE own.master[c]],
           leader |-> [c \in Char |-> IF c = x \/ c \in left THEN Nil
                                      ELSE IF c \in world /\ own.leader[c] = x THEN c
                                      ELSE own.leader[c]],
           pet    |-> [c \in Char |-> IF c = x /\ own.pet[c] \in left THEN Nil ELSE own.pet[c]],
           charm  |-> [c \in Char |-> IF c \in left THEN "none" ELSE own.charm[c]]]
  BY DEF DieFollower
<1> HIDE DEF own, d
<1>3. x # Nil
  BY DEF FollowersConstants, Char
<1>4. d \in Bonds
  BY <1>1, <1>2 DEF Right, Bonds, Pointers
<1>5. Led(d)
  BY <1>1, <1>2, <1>3 DEF Right, Led, Bonds, Pointers
<1>6. Kept(d)
  <2> SUFFICES ASSUME NEW c \in Char, d.pet[c] # Nil
               PROVE  /\ d.charm[d.pet[c]] = "bit"
                      /\ d.master[d.pet[c]] = c /\ d.leader[d.pet[c]] = c
    BY DEF Kept
  <2> DEFINE p == own.pet[c]
  <2>1. d.pet[c] = p /\ p \in Mob /\ ~(c = x /\ p \in left)
    BY <1>1, <1>2 DEF Right, Bonds
  <2>2. own.charm[p] = "bit" /\ own.master[p] = c /\ own.leader[p] = c
    BY <1>1, <2>1 DEF Right, Kept
  <2>3. p \notin left /\ p # x /\ p \in Char
    BY <1>1, <2>1, <2>2 DEF Char
  <2>4. CASE c = x
    <3>1. p \notin world
      BY <2>2, <2>3, <2>4
    <3> QED
      BY <1>2, <2>1, <2>2, <2>3, <3>1
  <2>5. CASE c # x
    BY <1>2, <2>1, <2>2, <2>3, <2>5
  <2> QED
    BY <2>4, <2>5
<1>7. Looser(d, b)
  BY <1>1, <1>2 DEF Looser, Right, Bonds, Pointers
<1>8. d.master[x] = Nil /\ d.leader[x] = Nil
  BY <1>1, <1>2
<1>9. \A c \in world \cap Char : d.master[c] # x /\ (d.leader[c] = x => c = x)
  BY <1>1, <1>2, <1>3
<1>10. \A o \in Char : d.pet[o] # x
  BY <1>1, <1>2, <1>3
<1> QED
  BY <1>4, <1>5, <1>6, <1>7, <1>8, <1>9, <1>10 DEF Right, d

\* A character may lose his pet.
LEMMA PetlessIsRight ==
  ASSUME FollowersConstants, NEW b, Right(b), NEW x \in Char
  PROVE  LET d == [b EXCEPT !.pet[x] = Nil] IN
         /\ Right(d) /\ Looser(d, b) /\ d.pet[x] = Nil
         /\ d.master = b.master /\ d.leader = b.leader
<1> DEFINE d == [b EXCEPT !.pet[x] = Nil]
<1>0. b \in Bonds /\ Led(b) /\ Kept(b)
  BY DEF Right
<1>1. /\ d.master = b.master /\ d.leader = b.leader /\ d.charm = b.charm
      /\ d.pet = [b.pet EXCEPT ![x] = Nil]
  BY <1>0 DEF Bonds
<1>2. d \in Bonds
  BY <1>0 DEF Bonds
<1> HIDE DEF d
<1>3. Led(d) /\ Kept(d) /\ Looser(d, b) /\ d.pet[x] = Nil
  BY <1>0, <1>1 DEF Bonds, Led, Kept, Looser
<1> QED
  BY <1>1, <1>2, <1>3 DEF Right, d

\* nuke_pets leaves the owner without a pet, and nobody with a bond to it.
LEMMA NukeIsRight ==
  ASSUME FollowersConstants, Right(bonds), placed \subseteq Char, NEW x \in Char
  PROVE  LET d == NukePets(x) IN
         /\ Right(d) /\ Looser(d, bonds) /\ d.pet[x] = Nil
         /\ \A o \in Char : d.pet[o] \notin Pets(x)
         /\ \A c \in world \cap Char :
              d.master[c] \notin Pets(x) /\ (d.leader[c] \in Pets(x) => c = d.leader[c])
<1> DEFINE p     == bonds.pet[x]
           loose == StopFollower(bonds, p)
           e     == IF p \in placed THEN DieFollower(loose, p) ELSE loose
           d     == NukePets(x)
<1>1. Pets(x) \subseteq {p}
  BY DEF Pets
<1>2. CASE p = Nil
  <2>1. d = bonds
    BY <1>2 DEF NukePets
  <2>2. Looser(bonds, bonds)
    BY DEF Looser
  <2>3. Pets(x) = {}
    BY <1>1, <1>2 DEF Pets, FollowersConstants, Char
  <2> QED
    BY <1>2, <2>1, <2>2, <2>3
<1>3. CASE p # Nil
  <2>1. p \in Char
    BY <1>3 DEF Right, Bonds, Char
  <2>2. /\ Right(loose) /\ Looser(loose, bonds) /\ loose.master[p] = Nil
        /\ \A o \in Char : loose.pet[o] # p
    BY <2>1, StopIsRight
  <2>3. /\ Right(e) /\ Looser(e, loose)
        /\ \A o \in Char : e.pet[o] # p
        /\ p \in placed => \A c \in world \cap Char : e.master[c] # p /\ (e.leader[c] = p => c = p)
    <3>1. CASE p \in placed
      <4>1. e = DieFollower(loose, p)
        BY <3>1
      <4>2. Right(loose) /\ p \in Char
        BY <2>1, <2>2
      <4> HIDE DEF loose, e, p
      <4>3. LET f == DieFollower(loose, p) IN
            /\ Right(f) /\ Looser(f, loose)
            /\ f.master[p] = Nil /\ f.leader[p] = Nil
            /\ \A c \in world \cap Char : f.master[c] # p /\ (f.leader[c] = p => c = p)
            /\ \A o \in Char : f.pet[o] # p
        BY <4>2, DieIsRight
      <4> QED
        BY <4>1, <4>3
    <3>2. CASE p \notin placed
      <4>1. e = loose
        BY <3>2
      <4>2. Looser(loose, loose)
        BY DEF Looser
      <4> QED
        BY <2>2, <3>2, <4>1, <4>2
    <3> QED
      BY <3>1, <3>2
  <2>4. d = [e EXCEPT !.pet[x] = Nil]
    BY <1>3 DEF NukePets
  <2> HIDE DEF d, e, loose
  <2>5. /\ Right(d) /\ Looser(d, e) /\ d.pet[x] = Nil
        /\ d.master = e.master /\ d.leader = e.leader
    BY <2>3, <2>4, PetlessIsRight
  <2>6. Looser(d, bonds)
    BY <2>2, <2>3, <2>5 DEF Looser
  <2>7. \A o \in Char : d.pet[o] # p
    BY <1>3, <2>3, <2>5 DEF Looser
  <2>8. p \in placed => \A c \in world \cap Char : d.master[c] # p /\ (d.leader[c] = p => c = p)
    BY <2>3, <2>5
  <2> QED
    BY <1>1, <2>5, <2>6, <2>7, <2>8 DEF Pets, d
<1> QED
  BY <1>2, <1>3

\* extract_char leaves nobody with a bond to those who are gone.
LEMMA ExtractIsRight ==
  ASSUME FollowersConstants, Right(bonds), placed \subseteq Char, NEW x \in Char
  PROVE  LET d == DieFollower(NukePets(x), x) IN
         /\ Right(d) /\ Looser(d, bonds)
         /\ \A o \in Char : d.pet[o] \notin Gone(x)
         /\ \A c \in (world \cap Char) \ Gone(x) :
              d.master[c] \notin Gone(x) /\ d.leader[c] \notin Gone(x)
<1> DEFINE n == NukePets(x)
           d == DieFollower(n, x)
<1>1. /\ Right(n) /\ Looser(n, bonds)
      /\ \A o \in Char : n.pet[o] \notin Pets(x)
      /\ \A c \in world \cap Char :
           n.master[c] \notin Pets(x) /\ (n.leader[c] \in Pets(x) => c = n.leader[c])
  BY NukeIsRight
<1> HIDE DEF n
<1>2. /\ Right(d) /\ Looser(d, n)
      /\ \A c \in world \cap Char : d.master[c] # x /\ (d.leader[c] = x => c = x)
      /\ \A o \in Char : d.pet[o] # x
  BY <1>1, DieIsRight
<1> HIDE DEF d
<1>3. Looser(d, bonds)
  BY <1>1, <1>2 DEF Looser
<1>4. Nil \notin Pets(x)
  BY DEF Pets, FollowersConstants, Char
<1>5. \A o \in Char : d.pet[o] \notin Gone(x)
  <2> SUFFICES ASSUME NEW o \in Char, d.pet[o] \in Gone(x)
               PROVE  FALSE
    OBVIOUS
  <2>1. d.pet[o] \in Pets(x)
    BY <1>2 DEF Gone
  <2> QED
    BY <1>1, <1>2, <1>4, <2>1 DEF Looser
<1>6. ASSUME NEW c \in (world \cap Char) \ Gone(x)
      PROVE  d.master[c] \notin Gone(x) /\ d.leader[c] \notin Gone(x)
  <2>1. c # x /\ c \notin Pets(x)
    BY DEF Gone
  <2>2. d.master[c] # x /\ d.leader[c] # x
    BY <1>2, <2>1
  <2>3. d.master[c] \notin Pets(x) /\ d.leader[c] \notin Pets(x)
    BY <1>1, <1>2, <1>4, <2>1 DEF Looser
  <2> QED
    BY <2>2, <2>3 DEF Gone
<1> QED
  BY <1>2, <1>3, <1>5, <1>6 DEF d, n

\* add_follower gives a follower to a master; a pet has one already.
LEMMA AddIsRight ==
  ASSUME FollowersConstants, NEW b, Right(b), NEW c \in Char, NEW m \in Char, b.master[c] = Nil
  PROVE  LET d == AddFollower(b, c, m) IN
         /\ Right(d) /\ d.pet = b.pet /\ d.charm = b.charm
         /\ d.master = [b.master EXCEPT ![c] = m] /\ d.leader = [b.leader EXCEPT ![c] = Nil]
<1> DEFINE d == AddFollower(b, c, m)
<1>0. b \in Bonds /\ Led(b) /\ Kept(b)
  BY DEF Right
<1>1. d = [b EXCEPT !.master[c] = m, !.leader[c] = Nil]
  BY DEF AddFollower
<1>2. /\ d.pet = b.pet /\ d.charm = b.charm
      /\ d.master = [b.master EXCEPT ![c] = m] /\ d.leader = [b.leader EXCEPT ![c] = Nil]
  BY <1>0, <1>1 DEF Bonds
<1>3. d \in Bonds
  <2>1. d = [master |-> [b.master EXCEPT ![c] = m], leader |-> [b.leader EXCEPT ![c] = Nil],
             pet |-> b.pet, charm |-> b.charm]
    BY <1>0, <1>1 DEF Bonds
  <2>2. [b.master EXCEPT ![c] = m] \in Pointers /\ [b.leader EXCEPT ![c] = Nil] \in Pointers
    BY <1>0 DEF Bonds, Pointers
  <2> QED
    BY <1>0, <2>1, <2>2 DEF Bonds
<1> HIDE DEF d
<1>4. Led(d)
  BY <1>0, <1>2 DEF Led, Bonds, Pointers
<1>5. Kept(d)
  BY <1>0, <1>2 DEF Kept, Bonds, Pointers, FollowersConstants, Char
<1> QED
  BY <1>2, <1>3, <1>4, <1>5 DEF Right, d

\* A new struct has no bonds; nobody may own who had it before.
LEMMA ZeroIsRight ==
  ASSUME FollowersConstants, NEW b, Right(b), NEW C, \A c \in Char : b.pet[c] \notin C
  PROVE  LET d == Zeroed(b, C) IN
         /\ Right(d) /\ Looser(d, b)
         /\ \A c \in Char : c \in C =>
              d.master[c] = Nil /\ d.leader[c] = Nil /\ d.pet[c] = Nil /\ d.charm[c] = "none"
         /\ \A c \in Char : c \notin C =>
              d.master[c] = b.master[c] /\ d.leader[c] = b.leader[c] /\ d.pet[c] = b.pet[c]
<1> DEFINE d == Zeroed(b, C)
<1>0. b \in Bonds /\ Led(b) /\ Kept(b)
  BY DEF Right
<1>1. d = [master |-> [c \in Char |-> IF c \in C THEN Nil ELSE b.master[c]],
           leader |-> [c \in Char |-> IF c \in C THEN Nil ELSE b.leader[c]],
           pet    |-> [c \in Char |-> IF c \in C THEN Nil ELSE b.pet[c]],
           charm  |-> [c \in Char |-> IF c \in C THEN "none" ELSE b.charm[c]]]
  BY DEF Zeroed
<1> HIDE DEF d
<1>2. d \in Bonds
  BY <1>0, <1>1 DEF Bonds, Pointers
<1>3. Led(d)
  BY <1>0, <1>1 DEF Led
<1>4. Kept(d)
  BY <1>0, <1>1 DEF Kept, Bonds, Char
<1>5. Looser(d, b)
  BY <1>1 DEF Looser
<1> QED
  BY <1>1, <1>2, <1>3, <1>4, <1>5 DEF Right, d

\* A mobile nobody owns becomes the pet of somebody who has none.
LEMMA OwnedIsRight ==
  ASSUME FollowersConstants, NEW b, Right(b), NEW owner \in Char, NEW pet \in Mob,
         \A o \in Char : b.pet[o] # pet
  PROVE  LET d == Owned(b, owner, pet) IN
         /\ Right(d)
         /\ \A o \in Char :
              /\ d.master[o] = IF o = pet THEN owner ELSE b.master[o]
              /\ d.leader[o] = IF o = pet THEN owner ELSE b.leader[o]
              /\ d.pet[o] = IF o = owner THEN pet ELSE b.pet[o]
              /\ d.charm[o] = IF o = pet THEN "bit" ELSE b.charm[o]
<1> DEFINE d == Owned(b, owner, pet)
<1>0. b \in Bonds /\ Led(b) /\ Kept(b)
  BY DEF Right
<1>1. d = [b EXCEPT !.master[pet] = owner, !.leader[pet] = owner, !.pet[owner] = pet, !.charm[pet] = "bit"]
  BY DEF Owned
<1>2. /\ d.master = [b.master EXCEPT ![pet] = owner] /\ d.leader = [b.leader EXCEPT ![pet] = owner]
      /\ d.pet = [b.pet EXCEPT ![owner] = pet] /\ d.charm = [b.charm EXCEPT ![pet] = "bit"]
  BY <1>0, <1>1 DEF Bonds
<1>3. d \in Bonds
  <2>1. d = [master |-> [b.master EXCEPT ![pet] = owner], leader |-> [b.leader EXCEPT ![pet] = owner],
             pet |-> [b.pet EXCEPT ![owner] = pet], charm |-> [b.charm EXCEPT ![pet] = "bit"]]
    BY <1>0, <1>1 DEF Bonds
  <2>2. [b.master EXCEPT ![pet] = owner] \in Pointers /\ [b.leader EXCEPT ![pet] = owner] \in Pointers
    BY <1>0 DEF Bonds, Pointers
  <2>3. [b.pet EXCEPT ![owner] = pet] \in [Char -> Mob \cup {Nil}]
    BY <1>0 DEF Bonds
  <2>4. [b.charm EXCEPT ![pet] = "bit"] \in [Char -> {"none", "spell", "bit"}]
    BY <1>0 DEF Bonds
  <2> QED
    BY <2>1, <2>2, <2>3, <2>4 DEF Bonds
<1> HIDE DEF d
<1>4. Led(d)
  BY <1>0, <1>2 DEF Led, Bonds, Pointers
<1>5. Kept(d)
  BY <1>0, <1>2 DEF Kept, Bonds, Pointers, Char
<1>6. \A o \in Char :
        /\ d.master[o] = IF o = pet THEN owner ELSE b.master[o]
        /\ d.leader[o] = IF o = pet THEN owner ELSE b.leader[o]
        /\ d.pet[o] = IF o = owner THEN pet ELSE b.pet[o]
        /\ d.charm[o] = IF o = pet THEN "bit" ELSE b.charm[o]
  BY <1>0, <1>2 DEF Bonds, Pointers, Char
<1> QED
  BY <1>3, <1>4, <1>5, <1>6 DEF Right, d
-----------------------------------------------------------------------------
\* What two characters in a room do to each other.

\* New bonds of d are between those in the game, and who is charmed in d either
\* was so under the same master or has a new one.
Within(d, b) == \A o \in Char :
  /\ d.pet[o] \in {b.pet[o], Nil}
  /\ d.master[o] \in {b.master[o], Nil} \/ (o \in world /\ d.master[o] \in world)
  /\ d.leader[o] \in {b.leader[o], Nil} \/ (o \in world /\ d.leader[o] \in world)
  /\ d.charm[o] # "none" => d.master[o] # Nil \/ (b.charm[o] # "none" /\ d.master[o] = b.master[o])

LEMMA LooserIsWithin ==
  ASSUME NEW d, NEW b, Looser(d, b)
  PROVE  Within(d, b)
BY DEF Looser, Within

\* do_follow.
LEMMA FollowIsRight ==
  ASSUME FollowersConstants, Right(bonds), world \subseteq Char,
         NEW c \in world, NEW v \in world, Follow(c, v)
  PROVE  Right(bonds') /\ Within(bonds', bonds)
<1> DEFINE loose == StopFollower(bonds, c)
           d     == AddFollower(loose, c, v)
<1>0. c \in Char /\ v \in Char /\ bonds' = d
  BY DEF Follow, Bind
<1>1. Right(loose) /\ Looser(loose, bonds) /\ loose.master[c] = Nil
  BY <1>0, StopIsRight
<1> HIDE DEF loose
<1>2. /\ Right(d) /\ d.pet = loose.pet /\ d.charm = loose.charm
      /\ d.master = [loose.master EXCEPT ![c] = v] /\ d.leader = [loose.leader EXCEPT ![c] = Nil]
  BY <1>0, <1>1, AddIsRight
<1>3. loose \in Bonds
  BY <1>1 DEF Right
<1> HIDE DEF d
<1>4. v # Nil
  BY <1>0 DEF FollowersConstants, Char
<1>5. Within(d, bonds)
  BY <1>0, <1>1, <1>2, <1>3, <1>4 DEF Within, Looser, Bonds, Pointers
<1> QED
  BY <1>0, <1>2, <1>5

\* do_group.
LEMMA GroupIsRight ==
  ASSUME FollowersConstants, Right(bonds), world \subseteq Char,
         NEW c \in world, NEW v \in world, Group(c, v)
  PROVE  Right(bonds') /\ Within(bonds', bonds)
<1>0. bonds \in Bonds /\ Led(bonds) /\ Kept(bonds) /\ c \in Char /\ v \in Char
  BY DEF Right
<1>1. PICK l \in {Nil, c} : bonds' = [bonds EXCEPT !.leader[v] = l]
  BY DEF Group, Bind
<1>2. /\ bonds'.master = bonds.master /\ bonds'.charm = bonds.charm /\ bonds'.pet = bonds.pet
      /\ bonds'.leader = [bonds.leader EXCEPT ![v] = l]
  BY <1>0, <1>1 DEF Bonds
<1>3. bonds' \in Bonds
  BY <1>0, <1>1 DEF Bonds, Pointers
<1>4. bonds.charm[v] = "none" /\ (c = v \/ bonds.master[v] = c)
  BY DEF Group
<1>5. Led(bonds')
  BY <1>0, <1>2, <1>4 DEF Led, Bonds, Pointers
<1>6. Kept(bonds')
  BY <1>0, <1>2, <1>4 DEF Kept, Bonds, Pointers
<1>7. Within(bonds', bonds)
  BY <1>0, <1>2 DEF Within, Bonds, Pointers
<1> QED
  BY <1>3, <1>5, <1>6, <1>7 DEF Right

\* spell_charm_person.
LEMMA CharmIsRight ==
  ASSUME FollowersConstants, Right(bonds), world \subseteq Char,
         NEW c \in world, NEW v \in world, CharmPerson(c, v)
  PROVE  Right(bonds') /\ Within(bonds', bonds)
<1> DEFINE loose == StopFollower(bonds, v)
           e     == AddFollower(loose, v, c)
<1>0. c \in Char /\ v \in Char /\ c # Nil /\ bonds.charm[v] = "none"
  BY DEF CharmPerson, FollowersConstants, Char
<1>1. Right(loose) /\ Looser(loose, bonds) /\ loose.master[v] = Nil
  BY <1>0, StopIsRight
<1>2. bonds' = [e EXCEPT !.leader[v] = c, !.charm[v] = "spell"]
  BY DEF CharmPerson, Bind
<1> HIDE DEF loose
<1>3. /\ Right(e) /\ e.pet = loose.pet /\ e.charm = loose.charm
      /\ e.master = [loose.master EXCEPT ![v] = c] /\ e.leader = [loose.leader EXCEPT ![v] = Nil]
  BY <1>0, <1>1, AddIsRight
<1> HIDE DEF e
<1>4. e \in Bonds /\ Led(e) /\ Kept(e) /\ loose \in Bonds
  BY <1>1, <1>3 DEF Right
<1>5. /\ bonds'.master = e.master /\ bonds'.pet = e.pet
      /\ bonds'.leader = [e.leader EXCEPT ![v] = c] /\ bonds'.charm = [e.charm EXCEPT ![v] = "spell"]
  BY <1>2, <1>4 DEF Bonds
<1>6. bonds' \in Bonds
  <2>1. bonds' = [master |-> e.master, leader |-> [e.leader EXCEPT ![v] = c],
                  pet |-> e.pet, charm |-> [e.charm EXCEPT ![v] = "spell"]]
    BY <1>2, <1>4 DEF Bonds
  <2>2. [e.leader EXCEPT ![v] = c] \in Pointers
    BY <1>0, <1>4 DEF Bonds, Pointers
  <2>3. [e.charm EXCEPT ![v] = "spell"] \in [Char -> {"none", "spell", "bit"}]
    BY <1>4 DEF Bonds
  <2> QED
    BY <1>4, <2>1, <2>2, <2>3 DEF Bonds
<1>7. Led(bonds')
  BY <1>0, <1>3, <1>4, <1>5 DEF Led, Bonds, Pointers
<1>8. e.charm[v] = "none"
  BY <1>0, <1>1, <1>3 DEF Looser
<1>9. Kept(bonds')
  BY <1>0, <1>4, <1>5, <1>8 DEF Kept, Bonds, Pointers, Char
<1>10. Within(bonds', bonds)
  BY <1>0, <1>1, <1>3, <1>4, <1>5 DEF Within, Looser, Bonds, Pointers
<1> QED
  BY <1>6, <1>7, <1>9, <1>10 DEF Right

\* The blow of a charmed attacker, check_killer.
LEMMA AttackerIsRight ==
  ASSUME FollowersConstants, Right(bonds), NEW c \in Char, NEW v, NEW outlaw
  PROVE  LET d == Attacker(c, v, outlaw) IN Right(d) /\ Looser(d, bonds)
<1> DEFINE d == Attacker(c, v, outlaw)
<1>0. bonds \in Bonds /\ Led(bonds) /\ Kept(bonds) /\ Looser(bonds, bonds)
  BY DEF Right, Looser
<1>1. CASE v \in Mob \/ outlaw \/ bonds.charm[c] = "none"
  BY <1>0, <1>1 DEF Attacker
<1>2. CASE ~(v \in Mob \/ outlaw \/ bonds.charm[c] = "none") /\ bonds.master[c] = Nil
  <2>1. d = [bonds EXCEPT !.charm[c] = "none"]
    BY <1>2 DEF Attacker
  <2>2. /\ d.master = bonds.master /\ d.leader = bonds.leader /\ d.pet = bonds.pet
        /\ d.charm = [bonds.charm EXCEPT ![c] = "none"]
    BY <1>0, <2>1 DEF Bonds
  <2>3. d \in Bonds
    BY <1>0, <2>1 DEF Bonds
  <2> HIDE DEF d
  <2>4. Led(d) /\ Looser(d, bonds)
    BY <1>0, <2>2 DEF Led, Looser, Bonds
  <2>5. Kept(d)
    BY <1>0, <1>2, <2>2 DEF Kept, Bonds, FollowersConstants, Char
  <2> QED
    BY <2>3, <2>4, <2>5 DEF Right, d
<1>3. CASE ~(v \in Mob \/ outlaw \/ bonds.charm[c] = "none") /\ bonds.master[c] # Nil
  BY <1>3, StopIsRight DEF Attacker
<1> QED
  BY <1>1, <1>2, <1>3

\* damage.
LEMMA AttackIsRight ==
  ASSUME FollowersConstants, Right(bonds), NEW c \in Char, NEW v \in Char, Attack(c, v)
  PROVE  Right(bonds') /\ Looser(bonds', bonds)
<1>1. PICK outlaw \in BOOLEAN :
        LET b == Attacker(c, v, outlaw)
        IN  bonds' = IF b.master[v] = c THEN StopFollower(b, v) ELSE b
  BY DEF Attack, Bind
<1> DEFINE b == Attacker(c, v, outlaw)
<1>2. Right(b) /\ Looser(b, bonds)
  BY AttackerIsRight
<1> HIDE DEF b
<1>3. LET d == StopFollower(b, v) IN Right(d) /\ Looser(d, b)
  BY <1>2, StopIsRight
<1>4. bonds' = b \/ bonds' = StopFollower(b, v)
  BY <1>1 DEF b
<1> QED
  BY <1>2, <1>3, <1>4 DEF Looser

\* affect_strip of charm person; the bit of a pet is no affect.
LEMMA UnspelledIsRight ==
  ASSUME FollowersConstants, NEW b, Right(b), NEW v \in Char
  PROVE  LET d == Unspelled(b, v) IN
         /\ Right(d) /\ Looser(d, b)
         /\ d.master = b.master /\ d.leader = b.leader /\ d.pet = b.pet
<1> DEFINE spell == IF b.charm[v] = "spell" THEN "none" ELSE b.charm[v]
           d     == Unspelled(b, v)
<1>0. b \in Bonds /\ Led(b) /\ Kept(b)
  BY DEF Right
<1>1. d = [b EXCEPT !.charm[v] = spell]
  BY DEF Unspelled
<1>2. /\ d.master = b.master /\ d.leader = b.leader /\ d.pet = b.pet
      /\ d.charm = [b.charm EXCEPT ![v] = spell]
  BY <1>0, <1>1 DEF Bonds
<1>3. d \in Bonds
  BY <1>0, <1>1 DEF Bonds
<1> HIDE DEF d
<1>4. Led(d) /\ Looser(d, b)
  BY <1>0, <1>2 DEF Led, Looser, Bonds
<1>5. Kept(d)
  BY <1>0, <1>2 DEF Kept, Bonds
<1> QED
  BY <1>2, <1>3, <1>4, <1>5 DEF Right, d

\* The spell ends.
LEMMA WearOffIsRight ==
  ASSUME FollowersConstants, Right(bonds), NEW v \in Char, WearOff(v)
  PROVE  Right(bonds') /\ Looser(bonds', bonds)
<1>1. bonds' = Unspelled(bonds, v)
  BY DEF WearOff, Bind
<1> QED
  BY <1>1, UnspelledIsRight

\* Whatever two characters in a room do to each other, the bonds stay right and
\* the new ones are between the living.
LEMMA MeetIsRight ==
  ASSUME FollowersConstants, TypeOK, Right(bonds), NEW c \in placed, NEW v \in placed, Meet(c, v)
  PROVE  /\ UNCHANGED <<world, login, placed, name, file>>
         /\ Right(bonds') /\ Within(bonds', bonds)
         /\ reply' \in Pointers /\ target' \in Pointers
         /\ \A o \in Char : reply'[o] = reply[o] \/ reply'[o] \in world
         /\ \A o \in Char \ world : reply'[o] = reply[o]
<1>0. c \in world /\ v \in world /\ c \in Char /\ v \in Char /\ world \subseteq Char
      /\ reply \in Pointers /\ target \in Pointers
  BY DEF TypeOK
<1>1. CASE Follow(c, v) \/ Group(c, v) \/ CharmPerson(c, v)
  <2>1. UNCHANGED <<world, login, placed, name, file, reply, target>>
    BY <1>1 DEF Follow, Group, CharmPerson, Bind
  <2>2. Right(bonds') /\ Within(bonds', bonds)
    BY <1>0, <1>1, FollowIsRight, GroupIsRight, CharmIsRight
  <2> QED
    BY <1>0, <2>1, <2>2
<1>2. CASE FollowNobody(c) \/ NoFollow(c) \/ WearOff(v) \/ Attack(c, v)
  <2>1. UNCHANGED <<world, login, placed, name, file, reply, target>>
    BY <1>2 DEF FollowNobody, NoFollow, WearOff, Attack, Bind
  <2>2. Right(bonds') /\ Looser(bonds', bonds)
    <3>1. CASE FollowNobody(c)
      <4>1. bonds' = StopFollower(bonds, c)
        BY <3>1 DEF FollowNobody, Bind
      <4> QED
        BY <1>0, <4>1, StopIsRight
    <3>2. CASE NoFollow(c)
      <4>1. bonds' = DieFollower(bonds, c)
        BY <3>2 DEF NoFollow, Bind
      <4> QED
        BY <1>0, <4>1, DieIsRight
    <3> QED
      BY <1>0, <1>2, <3>1, <3>2, WearOffIsRight, AttackIsRight
  <2> QED
    BY <1>0, <2>1, <2>2, LooserIsWithin
<1>3. CASE Tell(c, v) \/ Remember(c, v) \/ Remember(c, Nil)
  <2>1. UNCHANGED <<world, login, placed, name, file, bonds>>
    BY <1>3 DEF Tell, Remember
  <2>2. Within(bonds, bonds)
    BY DEF Within
  <2>3. /\ reply' \in Pointers /\ target' \in Pointers
        /\ \A o \in Char : reply'[o] = reply[o] \/ reply'[o] \in world
        /\ \A o \in Char \ world : reply'[o] = reply[o]
    BY <1>0, <1>3 DEF Tell, Remember, Pointers
  <2> QED
    BY <2>1, <2>2, <2>3
<1> QED
  BY <1>1, <1>2, <1>3 DEF Meet
-----------------------------------------------------------------------------
\* The inductive invariant.

PetsAreHere == \A c \in Char : bonds.pet[c] \in world \cup {Nil}

\* The characters in the game have no bond to one who is not, and those of a
\* dialogue none at all.
NoneDangles ==
  /\ \A c \in world : {bonds.master[c], bonds.leader[c], reply[c]} \subseteq world \cup {Nil}
  /\ \A s \in login : {bonds.master[s], bonds.leader[s], bonds.pet[s], reply[s]} \subseteq {Nil}
  /\ \A n \in Name : ~file[n].pet

Mastered ==
  /\ \A c \in Char : bonds.charm[c] # "none" => bonds.master[c] # Nil
  /\ \A n \in Name : ~file[n].charm

IInv ==
  /\ TypeOK /\ Right(bonds) /\ PetsAreHere
  /\ "pet" \notin Saves => NoneDangles
  /\ "charm" \notin Saves => Mastered

LEMMA InitIsRight ==
  ASSUME FollowersConstants, Init
  PROVE  IInv
<1>1. TypeOK
  BY DEF Init, TypeOK, Bonds, Pointers, Nobody
<1>2. Right(bonds)
  BY <1>1 DEF Init, TypeOK, Right, Led, Kept, Nobody
<1>3. PetsAreHere /\ NoneDangles /\ Mastered
  BY DEF Init, PetsAreHere, NoneDangles, Mastered, Nobody
<1> QED
  BY <1>1, <1>2, <1>3 DEF IInv

LEMMA MeetKeeps ==
  ASSUME FollowersConstants, IInv, NEW c \in placed, NEW v \in placed, Meet(c, v)
  PROVE  IInv'
<1>0. TypeOK /\ Right(bonds) /\ PetsAreHere
  BY DEF IInv
<1>1. /\ UNCHANGED <<world, login, placed, name, file>>
      /\ Right(bonds') /\ Within(bonds', bonds)
      /\ reply' \in Pointers /\ target' \in Pointers
      /\ \A o \in Char : reply'[o] = reply[o] \/ reply'[o] \in world
      /\ \A o \in Char \ world : reply'[o] = reply[o]
  BY <1>0, MeetIsRight
<1>2. TypeOK'
  BY <1>0, <1>1 DEF TypeOK, Right
<1>3. PetsAreHere'
  BY <1>0, <1>1 DEF PetsAreHere, Within
<1>4. NoneDangles => NoneDangles'
  <2> SUFFICES ASSUME NoneDangles
               PROVE  NoneDangles'
    OBVIOUS
  <2>1. world \subseteq Char /\ login \subseteq Char \ world
    BY <1>0 DEF TypeOK, Char
  <2>2. \A o \in world : {bonds'.master[o], bonds'.leader[o], reply'[o]} \subseteq world \cup {Nil}
    BY <1>1, <2>1 DEF NoneDangles, Within
  <2>3. \A s \in login : {bonds'.master[s], bonds'.leader[s], bonds'.pet[s], reply'[s]} \subseteq {Nil}
    BY <1>1, <2>1 DEF NoneDangles, Within
  <2> QED
    BY <1>1, <2>2, <2>3 DEF NoneDangles
<1>5. Mastered => Mastered'
  BY <1>1 DEF Mastered, Within
<1> QED
  BY <1>1, <1>2, <1>3, <1>4, <1>5 DEF IInv

\* The new structs C answer and remember nobody.
LEMMA CreatedKeeps ==
  ASSUME FollowersConstants, TypeOK, NEW C, C \subseteq Char, Created(C)
  PROVE  /\ reply' \in Pointers /\ target' \in Pointers
         /\ \A c \in Char : reply'[c] = IF c \in C THEN Nil ELSE reply[c]
BY DEF TypeOK, Created, Pointers

\* create_mobile.
LEMMA SpawnKeeps ==
  ASSUME FollowersConstants, IInv, NEW m \in Mob, Spawn(m)
  PROVE  IInv'
<1> DEFINE d == Zeroed(bonds, {m})
<1>0. TypeOK /\ Right(bonds) /\ PetsAreHere /\ m \in Char /\ m \notin world /\ m # Nil
  BY DEF IInv, Spawn, Char, FollowersConstants
<1>1. /\ world' = world \cup {m} /\ placed' = placed \cup {m} /\ bonds' = d
      /\ UNCHANGED <<login, name, file>> /\ Created({m})
  BY DEF Spawn
<1>2. \A c \in Char : bonds.pet[c] \notin {m}
  BY <1>0 DEF PetsAreHere
<1>3. /\ Right(d) /\ Looser(d, bonds)
      /\ \A c \in Char : c \in {m} =>
           d.master[c] = Nil /\ d.leader[c] = Nil /\ d.pet[c] = Nil /\ d.charm[c] = "none"
      /\ \A c \in Char : c \notin {m} =>
           d.master[c] = bonds.master[c] /\ d.leader[c] = bonds.leader[c] /\ d.pet[c] = bonds.pet[c]
  BY <1>0, <1>2, ZeroIsRight
<1> HIDE DEF d
<1>4. /\ reply' \in Pointers /\ target' \in Pointers
      /\ \A c \in Char : reply'[c] = IF c \in {m} THEN Nil ELSE reply[c]
  BY <1>0, <1>1, CreatedKeeps
<1>5. TypeOK'
  BY <1>0, <1>1, <1>3, <1>4 DEF TypeOK, Right, Char, FollowersConstants
<1>6. PetsAreHere'
  BY <1>0, <1>1, <1>3 DEF PetsAreHere
<1>7. NoneDangles => NoneDangles'
  BY <1>0, <1>1, <1>3, <1>4 DEF NoneDangles, TypeOK, Char, FollowersConstants
<1>8. Mastered => Mastered'
  BY <1>1, <1>3 DEF Mastered, Looser
<1> QED
  BY <1>1, <1>3, <1>5, <1>6, <1>7, <1>8 DEF IInv

\* load_char_obj and fread_pet.
LEMMA LoadKeeps ==
  ASSUME FollowersConstants, IInv, NEW s \in Pc, NEW n \in Name, Load(s, n)
  PROVE  IInv'
<1>0. TypeOK /\ Right(bonds) /\ PetsAreHere /\ s \in Char /\ s # Nil /\ s \notin world /\ s \notin login
  BY DEF IInv, Load, Char, FollowersConstants
<1>1. PICK P \in {{}} \cup {{m} : m \in Mob \ world} :
        /\ P # {} <=> file[n].pet
        /\ world' = world \cup P
        /\ LET new == [Zeroed(bonds, {s} \cup P) EXCEPT
                         !.charm[s] = IF file[n].charm THEN "spell" ELSE "none"]
           IN  IF P = {} THEN bonds' = new ELSE \E m \in P : bonds' = Owned(new, s, m)
        /\ Created({s} \cup P)
  BY DEF Load
<1> DEFINE C     == {s} \cup P
           zero  == Zeroed(bonds, C)
           spell == IF file[n].charm THEN "spell" ELSE "none"
           new   == [zero EXCEPT !.charm[s] = spell]
<1>2. P \subseteq Mob \ world /\ C \subseteq Char
  BY <1>0 DEF Char
<1>3. \A c \in Char : bonds.pet[c] \notin C
  BY <1>0, <1>2 DEF PetsAreHere, Right, Bonds, FollowersConstants
<1> HIDE DEF C
<1>4. /\ Right(zero) /\ Looser(zero, bonds)
      /\ \A c \in Char : c \in C =>
           zero.master[c] = Nil /\ zero.leader[c] = Nil /\ zero.pet[c] = Nil /\ zero.charm[c] = "none"
      /\ \A c \in Char : c \notin C =>
           zero.master[c] = bonds.master[c] /\ zero.leader[c] = bonds.leader[c] /\ zero.pet[c] = bonds.pet[c]
  BY <1>0, <1>3, ZeroIsRight
<1> HIDE DEF zero
<1>5. zero \in Bonds /\ Led(zero) /\ Kept(zero) /\ spell \in {"none", "spell", "bit"}
  BY <1>4 DEF Right
<1>6. /\ new.master = zero.master /\ new.leader = zero.leader /\ new.pet = zero.pet
      /\ new.charm = [zero.charm EXCEPT ![s] = spell] /\ new \in Bonds
  BY <1>5 DEF Bonds
<1> HIDE DEF new
<1>7. Right(new)
  BY <1>0, <1>5, <1>6 DEF Right, Led, Kept, Bonds, FollowersConstants
<1>8. \A o \in Char : new.pet[o] \notin P
  BY <1>2, <1>3, <1>4, <1>6, <1>0 DEF C, FollowersConstants
<1>9. /\ world' = world \cup P /\ login' = login \cup {s} /\ name' = [name EXCEPT ![s] = n]
      /\ placed' = placed /\ file' = file
      /\ reply' \in Pointers /\ target' \in Pointers
      /\ \A c \in Char : reply'[c] = IF c \in C THEN Nil ELSE reply[c]
  BY <1>0, <1>1, <1>2, CreatedKeeps DEF Load, C
<1>10. /\ Right(bonds')
       /\ \A c \in Char : \/ bonds'.master[c] = new.master[c] /\ bonds'.leader[c] = new.leader[c]
                          \/ c \in P /\ bonds'.master[c] = s /\ bonds'.leader[c] = s
       /\ \A c \in Char : bonds'.pet[c] = new.pet[c] \/ bonds'.pet[c] \in P
       /\ \A c \in Char : bonds'.charm[c] = new.charm[c] \/ bonds'.master[c] = s
       /\ P = {} => bonds' = new
  <2>1. CASE P = {}
    BY <1>1, <1>7, <2>1 DEF new, zero, C, spell
  <2>2. CASE P # {}
    <3>1. PICK m \in P : bonds' = Owned(new, s, m)
      BY <1>1, <2>2 DEF new, zero, C, spell
    <3>2. m \in Mob /\ \A o \in Char : new.pet[o] # m
      BY <1>2, <1>8
    <3> DEFINE d == Owned(new, s, m)
    <3>3. /\ Right(d)
          /\ \A o \in Char :
               /\ d.master[o] = IF o = m THEN s ELSE new.master[o]
               /\ d.leader[o] = IF o = m THEN s ELSE new.leader[o]
               /\ d.pet[o] = IF o = s THEN m ELSE new.pet[o]
               /\ d.charm[o] = IF o = m THEN "bit" ELSE new.charm[o]
      BY <1>0, <1>7, <3>2, OwnedIsRight
    <3> HIDE DEF d
    <3>4. new \in Bonds
      BY <1>6
    <3>5. bonds' = d
      BY <3>1 DEF d
    <3> QED
      BY <1>0, <2>2, <3>2, <3>3, <3>4, <3>5 DEF Bonds, Pointers, Char
  <2> QED
    BY <2>1, <2>2
<1>11. TypeOK'
  BY <1>0, <1>2, <1>9, <1>10 DEF TypeOK, Right, Char, FollowersConstants
<1>12. PetsAreHere'
  BY <1>4, <1>6, <1>0, <1>9, <1>10 DEF PetsAreHere
<1>13. NoneDangles => NoneDangles'
  <2> SUFFICES ASSUME NoneDangles
               PROVE  NoneDangles'
    OBVIOUS
  <2>1. P = {} /\ C = {s} /\ bonds' = new
    BY <1>1, <1>10 DEF NoneDangles, C
  <2>2. world \subseteq Char /\ login \subseteq Char /\ s \notin world
    BY <1>0 DEF TypeOK, Char
  <2>3. \A c \in world : {bonds'.master[c], bonds'.leader[c], reply'[c]} \subseteq world \cup {Nil}
    BY <1>4, <1>6, <1>9, <2>1, <2>2 DEF NoneDangles
  <2>4. \A t \in login \cup {s} : {bonds'.master[t], bonds'.leader[t], bonds'.pet[t], reply'[t]} \subseteq {Nil}
    BY <1>0, <1>4, <1>6, <1>9, <2>1, <2>2 DEF NoneDangles
  <2> QED
    BY <1>9, <2>1, <2>3, <2>4 DEF NoneDangles
<1>14. Mastered => Mastered'
  <2> SUFFICES ASSUME Mastered, NEW c \in Char, bonds'.charm[c] # "none"
               PROVE  bonds'.master[c] # Nil
    BY <1>9 DEF Mastered
  <2>1. CASE bonds'.master[c] = s
    BY <1>0, <2>1
  <2>2. CASE bonds'.master[c] # s
    <3>1. bonds'.charm[c] = new.charm[c] /\ bonds'.master[c] = new.master[c]
      BY <1>10, <2>2
    <3>2. spell = "none"
      BY DEF Mastered
    <3>3. zero.charm[c] # "none"
      BY <1>5, <1>6, <3>1, <3>2 DEF Bonds
    <3> QED
      BY <1>4, <1>6, <3>1, <3>3 DEF Looser, Mastered
  <2> QED
    BY <2>1, <2>2
<1> QED
  BY <1>10, <1>11, <1>12, <1>13, <1>14 DEF IInv

\* What is saved: no pet, or no charm, where players are not saved with one.
LEMMA SaveIsRight ==
  ASSUME TypeOK, NEW s \in Pc, NEW near \in BOOLEAN, SaveAs(s, near)
  PROVE  /\ file' \in [Name -> [charm : BOOLEAN, pet : BOOLEAN]]
         /\ "pet" \notin Saves => ((\A n \in Name : ~file[n].pet) => \A n \in Name : ~file'[n].pet)
         /\ "charm" \notin Saves => ((\A n \in Name : ~file[n].charm) => \A n \in Name : ~file'[n].charm)
<1> DEFINE saved == SavedOf(s, near)
<1>1. file' = [file EXCEPT ![name[s]] = saved] /\ name[s] \in Name
  BY DEF SaveAs, TypeOK
<1>2. saved \in [charm : BOOLEAN, pet : BOOLEAN]
  BY DEF SavedOf
<1>3. "pet" \notin Saves => ~saved.pet
  BY DEF SavedOf, SaveAs
<1>4. "charm" \notin Saves => ~saved.charm
  BY DEF SavedOf, SaveAs
<1> HIDE DEF saved
<1> QED
  BY <1>1, <1>2, <1>3, <1>4 DEF TypeOK

\* A dialogue gives a login up, or the player enters the game; nothing becomes
\* of the bonds.
LEMMA LeaveKeeps ==
  ASSUME FollowersConstants, IInv, NEW s \in Pc, HangUp(s) \/ Reconnect(s) \/ Save(s)
  PROVE  IInv'
<1>0. TypeOK /\ Right(bonds) /\ PetsAreHere
  BY DEF IInv
<1>1. UNCHANGED <<world, placed, name, bonds, reply, target>> /\ login' \subseteq login
  BY DEF HangUp, Reconnect, Save
<1>2. UNCHANGED file \/ \E near \in BOOLEAN : SaveAs(s, near)
  BY DEF HangUp, Reconnect, Save
<1>3. /\ file' \in [Name -> [charm : BOOLEAN, pet : BOOLEAN]]
      /\ "pet" \notin Saves => ((\A n \in Name : ~file[n].pet) => \A n \in Name : ~file'[n].pet)
      /\ "charm" \notin Saves => ((\A n \in Name : ~file[n].charm) => \A n \in Name : ~file'[n].charm)
  BY <1>0, <1>2, SaveIsRight DEF TypeOK
<1>4. TypeOK'
  BY <1>0, <1>1, <1>3 DEF TypeOK
<1>5. Right(bonds') /\ PetsAreHere'
  BY <1>0, <1>1 DEF PetsAreHere
<1>6. "pet" \notin Saves /\ NoneDangles => NoneDangles'
  BY <1>1, <1>3 DEF NoneDangles
<1>7. "charm" \notin Saves /\ Mastered => Mastered'
  BY <1>1, <1>3 DEF Mastered
<1> QED
  BY <1>4, <1>5, <1>6, <1>7 DEF IInv

LEMMA EnterKeeps ==
  ASSUME FollowersConstants, IInv, NEW s \in Pc, Enter(s)
  PROVE  IInv'
<1>0. TypeOK /\ Right(bonds) /\ PetsAreHere /\ s \in login /\ s \in Char
  BY DEF IInv, Enter, Char
<1>1. /\ login' = login \ {s} /\ world' = world \cup {s}
      /\ placed' = placed \cup {s} \cup ({bonds.pet[s]} \ {Nil})
      /\ UNCHANGED <<name, bonds, reply, target, file>>
  BY DEF Enter
<1>2. TypeOK'
  BY <1>0, <1>1 DEF TypeOK, PetsAreHere, Char
<1>3. Right(bonds') /\ PetsAreHere'
  BY <1>0, <1>1 DEF PetsAreHere
<1>4. NoneDangles => NoneDangles'
  BY <1>0, <1>1 DEF NoneDangles
<1>5. Mastered => Mastered'
  BY <1>1 DEF Mastered
<1> QED
  BY <1>1, <1>2, <1>3, <1>4, <1>5 DEF IInv

\* The characters C are gone for good, with no bond left to them.
LEMMA FreedKeeps ==
  ASSUME FollowersConstants, IInv, NEW C, Freed(C), UNCHANGED <<login, name>>,
         C \subseteq Char, C \cap login = {},
         file' \in [Name -> [charm : BOOLEAN, pet : BOOLEAN]],
         "pet" \notin Saves => ((\A n \in Name : ~file[n].pet) => \A n \in Name : ~file'[n].pet),
         "charm" \notin Saves => ((\A n \in Name : ~file[n].charm) => \A n \in Name : ~file'[n].charm),
         Right(bonds'), Looser(bonds', bonds),
         \A o \in Char : bonds'.pet[o] \notin C,
         \A c \in (world \cap Char) \ C : bonds'.master[c] \notin C /\ bonds'.leader[c] \notin C
  PROVE  IInv'
<1>0. TypeOK /\ Right(bonds) /\ PetsAreHere
  BY DEF IInv
<1>1. /\ world' = world \ C /\ placed' = placed \ C
      /\ reply' = [c \in Char |-> IF c \in world /\ reply[c] \in C THEN Nil ELSE reply[c]]
      /\ target' = [c \in Char |-> IF c \in world /\ (\E x \in C : target[x] = c) THEN Nil ELSE target[c]]
  BY DEF Freed
<1>2. reply' \in Pointers /\ target' \in Pointers
  BY <1>0, <1>1 DEF TypeOK, Pointers
<1>3. TypeOK'
  BY <1>0, <1>1, <1>2 DEF TypeOK, Right
<1>4. PetsAreHere'
  BY <1>0, <1>1 DEF PetsAreHere, Looser
<1>5. "pet" \notin Saves /\ NoneDangles => NoneDangles'
  <2> SUFFICES ASSUME "pet" \notin Saves, NoneDangles
               PROVE  NoneDangles'
    OBVIOUS
  <2>1. world \subseteq Char /\ login \subseteq Char
    BY <1>0 DEF TypeOK, Char
  <2>2. ASSUME NEW c \in world'
        PROVE  {bonds'.master[c], bonds'.leader[c], reply'[c]} \subseteq world' \cup {Nil}
    <3>1. c \in (world \cap Char) \ C
      BY <1>1, <2>1
    <3>2. bonds.master[c] \in world \cup {Nil} /\ bonds.leader[c] \in world \cup {Nil}
          /\ reply[c] \in world \cup {Nil}
      BY <3>1 DEF NoneDangles
    <3>3. bonds'.master[c] \in world' \cup {Nil}
      BY <1>1, <3>1, <3>2 DEF Looser
    <3>4. bonds'.leader[c] \in world' \cup {Nil}
      BY <1>1, <3>1, <3>2 DEF Looser
    <3>5. reply'[c] \in world' \cup {Nil}
      BY <1>1, <3>1, <3>2
    <3> QED
      BY <3>3, <3>4, <3>5
  <2>3. ASSUME NEW s \in login
        PROVE  {bonds'.master[s], bonds'.leader[s], bonds'.pet[s], reply'[s]} \subseteq {Nil}
    <3>1. s \notin world /\ s \in Char
      BY <1>0, <2>1 DEF TypeOK
    <3> QED
      BY <1>1, <3>1 DEF NoneDangles, Looser
  <2> QED
    BY <2>2, <2>3 DEF NoneDangles
<1>6. "charm" \notin Saves /\ Mastered => Mastered'
  BY DEF Mastered, Looser
<1> QED
  BY <1>3, <1>4, <1>5, <1>6 DEF IInv

\* raw_kill of a mobile, and do_quit.
LEMMA ExtractKeeps ==
  ASSUME FollowersConstants, IInv, NEW x \in Char,
         MobDies(x) \/ (x \in Pc /\ Quit(x))
  PROVE  IInv'
<1>0. TypeOK /\ Right(bonds) /\ placed \subseteq Char /\ x \in placed
  BY DEF IInv, TypeOK, MobDies, Quit
<1>1. Freed(Gone(x)) /\ bonds' = DieFollower(NukePets(x), x) /\ UNCHANGED <<login, name>>
  BY DEF MobDies, Quit, Extract
<1>2. Gone(x) \subseteq Char /\ Gone(x) \cap login = {}
  BY <1>0 DEF TypeOK, Gone, Pets
<1>3. UNCHANGED file \/ (x \in Pc /\ \E near \in BOOLEAN : SaveAs(x, near))
  BY DEF MobDies, Quit
<1>4. /\ file' \in [Name -> [charm : BOOLEAN, pet : BOOLEAN]]
      /\ "pet" \notin Saves => ((\A n \in Name : ~file[n].pet) => \A n \in Name : ~file'[n].pet)
      /\ "charm" \notin Saves => ((\A n \in Name : ~file[n].charm) => \A n \in Name : ~file'[n].charm)
  BY <1>0, <1>3, SaveIsRight DEF TypeOK
<1>5. /\ Right(bonds') /\ Looser(bonds', bonds)
      /\ \A o \in Char : bonds'.pet[o] \notin Gone(x)
      /\ \A c \in (world \cap Char) \ Gone(x) :
           bonds'.master[c] \notin Gone(x) /\ bonds'.leader[c] \notin Gone(x)
  BY <1>0, <1>1, ExtractIsRight
<1> QED
  BY <1>1, <1>2, <1>4, <1>5, FreedKeeps

\* raw_kill of a player: his pet goes, he stays.
LEMMA PlayerDiesKeeps ==
  ASSUME FollowersConstants, IInv, NEW p \in Pc, PlayerDies(p)
  PROVE  IInv'
<1> DEFINE n == NukePets(p)
           d == Unspelled(n, p)
<1>0. TypeOK /\ Right(bonds) /\ placed \subseteq Char /\ p \in Char
  BY DEF IInv, TypeOK, Char
<1>1. Freed(Pets(p)) /\ bonds' = d /\ UNCHANGED <<login, name, file>>
  BY DEF PlayerDies
<1>2. Pets(p) \subseteq Char /\ Pets(p) \cap login = {}
  BY <1>0 DEF TypeOK, Pets
<1>3. /\ Right(n) /\ Looser(n, bonds)
      /\ \A o \in Char : n.pet[o] \notin Pets(p)
      /\ \A c \in world \cap Char :
           n.master[c] \notin Pets(p) /\ (n.leader[c] \in Pets(p) => c = n.leader[c])
  BY <1>0, NukeIsRight
<1> HIDE DEF n
<1>4. /\ Right(d) /\ Looser(d, n)
      /\ d.master = n.master /\ d.leader = n.leader /\ d.pet = n.pet
  BY <1>0, <1>3, UnspelledIsRight
<1> HIDE DEF d
<1>5. Looser(bonds', bonds)
  BY <1>1, <1>3, <1>4 DEF Looser
<1>6. /\ Right(bonds')
      /\ \A o \in Char : bonds'.pet[o] \notin Pets(p)
      /\ \A c \in (world \cap Char) \ Pets(p) :
           bonds'.master[c] \notin Pets(p) /\ bonds'.leader[c] \notin Pets(p)
  BY <1>1, <1>3, <1>4
<1>7. file' \in [Name -> [charm : BOOLEAN, pet : BOOLEAN]]
  BY <1>0, <1>1 DEF TypeOK
<1> QED
  BY <1>1, <1>2, <1>5, <1>6, <1>7, FreedKeeps

\* do_buy in a pet shop: the new pet is nobody's.
LEMMA BuyPetKeeps ==
  ASSUME FollowersConstants, IInv, NEW p \in Pc, NEW m \in Mob, BuyPet(p, m)
  PROVE  IInv'
<1> DEFINE zero == Zeroed(bonds, {m})
           tame == AddFollower(zero, m, p)
           d    == Owned(tame, p, m)
<1>0. /\ TypeOK /\ Right(bonds) /\ PetsAreHere /\ m \in Char /\ m \notin world /\ m # Nil
      /\ p \in Char /\ p \in world /\ p # Nil /\ p # m
  BY DEF IInv, TypeOK, BuyPet, Char, FollowersConstants
<1>1. /\ world' = world \cup {m} /\ placed' = placed \cup {m} /\ bonds' = d
      /\ UNCHANGED <<login, name, file>> /\ Created({m})
  BY DEF BuyPet
<1>2. \A c \in Char : bonds.pet[c] \notin {m}
  BY <1>0 DEF PetsAreHere
<1>3. /\ Right(zero) /\ Looser(zero, bonds)
      /\ \A c \in Char : c \in {m} =>
           zero.master[c] = Nil /\ zero.leader[c] = Nil /\ zero.pet[c] = Nil /\ zero.charm[c] = "none"
      /\ \A c \in Char : c \notin {m} =>
           zero.master[c] = bonds.master[c] /\ zero.leader[c] = bonds.leader[c] /\ zero.pet[c] = bonds.pet[c]
  BY <1>0, <1>2, ZeroIsRight
<1> HIDE DEF zero
<1>4. /\ Right(tame) /\ tame.pet = zero.pet /\ tame.charm = zero.charm
      /\ tame.master = [zero.master EXCEPT ![m] = p] /\ tame.leader = [zero.leader EXCEPT ![m] = Nil]
  BY <1>0, <1>3, AddIsRight
<1> HIDE DEF tame
<1>5. \A o \in Char : tame.pet[o] # m
  BY <1>0, <1>2, <1>3, <1>4
<1>6. /\ Right(d)
      /\ \A o \in Char :
           /\ d.master[o] = IF o = m THEN p ELSE tame.master[o]
           /\ d.leader[o] = IF o = m THEN p ELSE tame.leader[o]
           /\ d.pet[o] = IF o = p THEN m ELSE tame.pet[o]
           /\ d.charm[o] = IF o = m THEN "bit" ELSE tame.charm[o]
  <2>1. Right(tame) /\ p \in Char
    BY <1>0, <1>4
  <2> QED
    BY <1>5, <2>1, OwnedIsRight
<1>7. tame \in Bonds /\ zero \in Bonds
  BY <1>3, <1>4 DEF Right
<1> HIDE DEF d
<1>8. \A c \in Char : c # m =>
        /\ d.master[c] = bonds.master[c] /\ d.leader[c] = bonds.leader[c]
        /\ d.charm[c] = zero.charm[c]
        /\ d.pet[c] = IF c = p THEN m ELSE bonds.pet[c]
  BY <1>0, <1>3, <1>4, <1>6, <1>7 DEF Bonds, Pointers
<1>9. d.master[m] = p /\ d.leader[m] = p /\ d.pet[m] = Nil
  BY <1>0, <1>3, <1>4, <1>6, <1>7 DEF Bonds, Pointers
<1>10. /\ reply' \in Pointers /\ target' \in Pointers
       /\ \A c \in Char : reply'[c] = IF c \in {m} THEN Nil ELSE reply[c]
  BY <1>0, <1>1, CreatedKeeps
<1>11. TypeOK'
  BY <1>0, <1>1, <1>6, <1>10 DEF TypeOK, Right, Char, FollowersConstants
<1>12. PetsAreHere'
  BY <1>0, <1>1, <1>8, <1>9 DEF PetsAreHere
<1>13. NoneDangles => NoneDangles'
  <2> SUFFICES ASSUME NoneDangles
               PROVE  NoneDangles'
    OBVIOUS
  <2>1. world \subseteq Char /\ login \subseteq Char /\ p \notin login /\ m \notin login
    BY <1>0 DEF TypeOK, Char, FollowersConstants
  <2>2. ASSUME NEW c \in world'
        PROVE  {bonds'.master[c], bonds'.leader[c], reply'[c]} \subseteq world' \cup {Nil}
    <3>1. CASE c = m
      BY <1>0, <1>1, <1>9, <1>10, <3>1
    <3>2. CASE c # m
      BY <1>0, <1>1, <1>8, <1>10, <2>1, <3>2 DEF NoneDangles
    <3> QED
      BY <3>1, <3>2
  <2>3. ASSUME NEW s \in login
        PROVE  {bonds'.master[s], bonds'.leader[s], bonds'.pet[s], reply'[s]} \subseteq {Nil}
    BY <1>1, <1>8, <1>10, <2>1 DEF NoneDangles
  <2> QED
    BY <1>1, <2>2, <2>3 DEF NoneDangles
<1>14. Mastered => Mastered'
  BY <1>0, <1>1, <1>3, <1>8, <1>9 DEF Mastered, Looser
<1> QED
  BY <1>1, <1>6, <1>11, <1>12, <1>13, <1>14 DEF IInv
-----------------------------------------------------------------------------
\* Theorems.

\* The inductive invariant holds: the bonds are right whatever players, mobiles
\* and commands there are.
THEOREM Invariance == Spec => []IInv
<1> USE FollowersConstants
<1>1. Init => IInv
  BY InitIsRight
<1>2. IInv /\ [Next]_vars => IInv'
  <2> SUFFICES ASSUME IInv, [Next]_vars
               PROVE  IInv'
    OBVIOUS
  <2>1. ASSUME NEW m \in Mob, Spawn(m) \/ MobDies(m) \/ (\E p \in Pc : BuyPet(p, m))
        PROVE  IInv'
    BY <2>1, SpawnKeeps, ExtractKeeps, BuyPetKeeps DEF Char
  <2>2. ASSUME NEW s \in Pc, (\E n \in Name : Load(s, n)) \/ HangUp(s) \/ Reconnect(s) \/ Enter(s)
        PROVE  IInv'
    BY <2>2, LoadKeeps, LeaveKeeps, EnterKeeps
  <2>3. ASSUME NEW p \in Pc, PlayerDies(p) \/ Quit(p) \/ Save(p)
        PROVE  IInv'
    BY <2>3, PlayerDiesKeeps, ExtractKeeps, LeaveKeeps DEF Char
  <2>4. ASSUME NEW c \in placed, NEW v \in placed, Meet(c, v)
        PROVE  IInv'
    BY <2>4, MeetKeeps
  <2>5. CASE UNCHANGED vars
    BY <2>5 DEF vars, IInv, TypeOK, PetsAreHere, NoneDangles, Mastered
  <2> QED
    BY <2>1, <2>2, <2>3, <2>4, <2>5 DEF Next
<1> QED
  BY <1>1, <1>2, PTL DEF Spec

\* The state has its types: an owner's pet is a mobile, a dialogue's player is
\* not in the game, and whoever is in a room is.
THEOREM TypeCorrect == Spec => []TypeOK
<1>1. IInv => TypeOK
  BY DEF IInv
<1> QED
  BY <1>1, Invariance, PTL

\* Who is led by another follows him, through every command, death, quit and
\* login: nobody stays in a group he has left.
THEOREM LeadersAreFollowed == Spec => []LeaderIsFollowed
<1>1. IInv => LeaderIsFollowed
  BY DEF IInv, TypeOK, Right, Led, LeaderIsFollowed
<1> QED
  BY <1>1, Invariance, PTL

\* A pet is in the game, follows and is led by its owner and stays charmed, so
\* nuke_pets never touches a mobile that is another's or has been freed.
THEOREM PetsAreKept == Spec => []PetIsKept
<1>1. IInv => PetIsKept
  <2> SUFFICES ASSUME IInv, NEW c \in world \cup login, bonds.pet[c] # Nil
               PROVE  LET p == bonds.pet[c] IN
                      /\ p \in world /\ bonds.charm[p] = "bit"
                      /\ bonds.master[p] = c /\ bonds.leader[p] = c
    BY DEF PetIsKept
  <2>1. c \in Char
    BY DEF IInv, TypeOK, Char
  <2> QED
    BY <2>1 DEF IInv, Right, Kept, PetsAreHere
<1> QED
  BY <1>1, Invariance, PTL

\* Where no player is saved with a pet, nobody in the game has a bond to a
\* character who has been freed.
THEOREM NoBondDangles ==
  ASSUME "pet" \notin Saves
  PROVE  Spec => []BondsAreHere
<1>1. IInv => BondsAreHere
  BY DEF IInv, NoneDangles, PetsAreHere, TypeOK, BondsAreHere
<1> QED
  BY <1>1, Invariance, PTL

\* Where no player is saved charmed, whoever is charmed has a master.
THEOREM CharmedAreMastered ==
  ASSUME "charm" \notin Saves
  PROVE  Spec => []CharmedHaveMaster
<1>1. IInv => CharmedHaveMaster
  BY DEF IInv, Mastered, TypeOK, CharmedHaveMaster
<1> QED
  BY <1>1, Invariance, PTL

----------------------------------------------------------------------------
\* Sums over lists.

\* What each place of a list of affects adds to a number.
Weigh(fs, l) == [k \in DOMAIN fs |-> IF fs[k].loc = l THEN fs[k].mod ELSE 0]

\* Lists of affects, of spells or of items.
IsList(fs) == \E n \in Nat : DOMAIN fs = 1 .. n /\ \A k \in 1 .. n : fs[k].loc \in Loc /\ fs[k].mod \in Int

LEMMA ListsAre ==
  /\ \A fs \in Seq(SpellAffect) : IsList(fs)
  /\ \A fs \in Seq(ItemAffect) : IsList(fs)
<1>1. ASSUME NEW fs \in Seq(SpellAffect) PROVE IsList(fs)
  <2>1. Len(fs) \in Nat /\ DOMAIN fs = 1 .. Len(fs) /\ \A k \in 1 .. Len(fs) : fs[k] \in SpellAffect
    OBVIOUS
  <2> QED
    BY <2>1 DEF IsList, SpellAffect
<1>2. ASSUME NEW fs \in Seq(ItemAffect) PROVE IsList(fs)
  <2>1. Len(fs) \in Nat /\ DOMAIN fs = 1 .. Len(fs) /\ \A k \in 1 .. Len(fs) : fs[k] \in ItemAffect
    OBVIOUS
  <2> QED
    BY <2>1 DEF IsList, ItemAffect
<1> QED
  BY <1>1, <1>2

LEMMA WeighIs ==
  ASSUME NEW fs, IsList(fs), NEW l
  PROVE  /\ Weigh(fs, l) \in [DOMAIN fs -> Int] /\ IsFiniteSet(DOMAIN fs)
         /\ Amount(fs, l) = SumFunctionOnSet(Weigh(fs, l), DOMAIN fs)
         /\ Amount(fs, l) \in Int
<1>1. PICK n \in Nat : DOMAIN fs = 1 .. n /\ \A k \in 1 .. n : fs[k].mod \in Int
  BY DEF IsList
<1>2. Weigh(fs, l) \in [DOMAIN fs -> Int]
  BY <1>1 DEF Weigh
<1>3. IsFiniteSet(DOMAIN fs)
  BY <1>1, PlacesAreFinite
<1>4. Amount(fs, l) = SumFunctionOnSet(Weigh(fs, l), DOMAIN fs)
  BY <1>2 DEF Amount, SumFunction, Weigh
<1>5. DOMAIN fs \in SUBSET DOMAIN fs
  OBVIOUS
<1> QED
  BY <1>2, <1>3, <1>4, <1>5, SumType

\* The same values in other places have the same sum.
LEMMA SumMoved ==
  ASSUME NEW S, IsFiniteSet(S), NEW g \in [S -> Int], NEW T, IsFiniteSet(T), NEW F \in [T -> Int],
         NEW m \in [T -> S], \A x, y \in T : x # y => m[x] # m[y], \A x \in T : F[x] = g[m[x]]
  PROVE  SumFunctionOnSet(F, T) = SumFunctionOnSet(g, {m[x] : x \in T})
<1> DEFINE P == [x \in T |-> {m[x]}]
<1>1. P \in [T -> SUBSET S] /\ \A x, y \in T : x # y => P[x] \cap P[y] = {}
  OBVIOUS
<1>2. ASSUME NEW x \in T PROVE F[x] = SumFunctionOnSet(g, P[x])
  <2>0. IsFiniteSet({m[x]})
    BY FS_Singleton
  <2>1. {m[x]} \in SUBSET S /\ m[x] \in {m[x]} /\ {m[x]} \ {m[x]} = {}
    OBVIOUS
  <2>2. SumFunctionOnSet(g, {m[x]}) = g[m[x]] + SumFunctionOnSet(g, {})
    BY <2>0, <2>1, SumStep
  <2>3. SumFunctionOnSet(g, {}) = 0 /\ g[m[x]] \in Int
    BY <2>0, <2>1, SumType
  <2> QED
    BY <2>2, <2>3
<1>3. UNION {P[x] : x \in T} = {m[x] : x \in T}
  OBVIOUS
<1> HIDE DEF P
<1>4. SumFunctionOnSet(F, T) = SumFunctionOnSet(g, UNION {P[x] : x \in T})
  BY <1>1, <1>2, SumOfParts
<1> QED
  BY <1>3, <1>4

\* The list gs has the affects of fs at other places.
Shifted(fs, gs, m) ==
  /\ m \in [DOMAIN gs -> DOMAIN fs] /\ \A x, y \in DOMAIN gs : x # y => m[x] # m[y]
  /\ \A x \in DOMAIN gs : gs[x] = fs[m[x]]

LEMMA AmountShifted ==
  ASSUME NEW fs, NEW gs, IsList(fs), IsList(gs), NEW m, Shifted(fs, gs, m), NEW l
  PROVE  Amount(gs, l) = SumFunctionOnSet(Weigh(fs, l), {m[x] : x \in DOMAIN gs})
<1>1. /\ Weigh(fs, l) \in [DOMAIN fs -> Int] /\ IsFiniteSet(DOMAIN fs)
      /\ Weigh(gs, l) \in [DOMAIN gs -> Int] /\ IsFiniteSet(DOMAIN gs)
      /\ Amount(gs, l) = SumFunctionOnSet(Weigh(gs, l), DOMAIN gs)
  BY WeighIs
<1>2. \A x \in DOMAIN gs : Weigh(gs, l)[x] = Weigh(fs, l)[m[x]]
  BY DEF Shifted, Weigh
<1>3. m \in [DOMAIN gs -> DOMAIN fs] /\ \A x, y \in DOMAIN gs : x # y => m[x] # m[y]
  BY DEF Shifted
<1>4. SumFunctionOnSet(Weigh(gs, l), DOMAIN gs) = SumFunctionOnSet(Weigh(fs, l), {m[x] : x \in DOMAIN gs})
  BY <1>1, <1>2, <1>3, SumMoved
<1> QED
  BY <1>1, <1>4

\* What an affect adds to a number.
Adds(a, l) == IF a.loc = l THEN a.mod ELSE 0

\* The list without its k-th affect.
Without(s, k) == [j \in 1 .. Len(s) - 1 |-> IF j < k THEN s[j] ELSE s[j + 1]]

\* gs is the list fs with one affect less, that at k.
IsShorter(fs, gs, k) ==
  /\ Len(fs) \in Nat /\ DOMAIN fs = 1 .. Len(fs) /\ k \in DOMAIN fs /\ DOMAIN gs = 1 .. Len(fs) - 1
  /\ \A j \in DOMAIN gs : gs[j] = IF j < k THEN fs[j] ELSE fs[j + 1]

LEMMA AmountShorter ==
  ASSUME NEW fs, NEW gs, IsList(fs), IsList(gs), NEW k, IsShorter(fs, gs, k), NEW l
  PROVE  Amount(fs, l) = Amount(gs, l) + Adds(fs[k], l)
<1> DEFINE m == [j \in DOMAIN gs |-> IF j < k THEN j ELSE j + 1]
<1>1. Shifted(fs, gs, m)
  BY DEF Shifted, IsShorter
<1>2. {m[x] : x \in DOMAIN gs} = DOMAIN fs \ {k}
  <2>1. ASSUME NEW y \in DOMAIN fs \ {k} PROVE \E x \in DOMAIN gs : m[x] = y
    <3>1. CASE y < k
      <4>1. y \in DOMAIN gs /\ m[y] = y
        BY <3>1 DEF IsShorter
      <4> QED
        BY <4>1
    <3>2. CASE ~(y < k)
      <4>1. y - 1 \in DOMAIN gs /\ m[y - 1] = y
        BY <3>2 DEF IsShorter
      <4> QED
        BY <4>1
    <3> QED
      BY <3>1, <3>2
  <2>2. ASSUME NEW x \in DOMAIN gs PROVE m[x] \in DOMAIN fs \ {k}
    BY DEF IsShorter
  <2> QED
    BY <2>1, <2>2
<1> HIDE DEF m
<1>3. Amount(gs, l) = SumFunctionOnSet(Weigh(fs, l), DOMAIN fs \ {k})
  BY <1>1, <1>2, AmountShifted
<1>4. /\ Weigh(fs, l) \in [DOMAIN fs -> Int] /\ IsFiniteSet(DOMAIN fs)
      /\ Amount(fs, l) = SumFunctionOnSet(Weigh(fs, l), DOMAIN fs) /\ Amount(gs, l) \in Int
  BY WeighIs
<1>5. k \in DOMAIN fs /\ DOMAIN fs \in SUBSET DOMAIN fs
  BY DEF IsShorter
<1>6. SumFunctionOnSet(Weigh(fs, l), DOMAIN fs) = Weigh(fs, l)[k] + SumFunctionOnSet(Weigh(fs, l), DOMAIN fs \ {k})
  BY <1>4, <1>5, SumStep
<1>7. Weigh(fs, l)[k] = Adds(fs[k], l) /\ Weigh(fs, l)[k] \in Int
  BY <1>4, <1>5 DEF Weigh, Adds
<1> QED
  BY <1>3, <1>4, <1>6, <1>7

LEMMA AmountReversed ==
  ASSUME NEW fs \in Seq(SpellAffect), NEW l
  PROVE  Amount(Reverse(fs), l) = Amount(fs, l) /\ Reverse(fs) \in Seq(SpellAffect)
<1> DEFINE gs == Reverse(fs)
           m == [j \in DOMAIN gs |-> Len(fs) - j + 1]
<1>0. Len(fs) \in Nat /\ DOMAIN fs = 1 .. Len(fs)
  OBVIOUS
<1>1. gs \in Seq(SpellAffect) /\ DOMAIN gs = 1 .. Len(fs) /\ \A j \in 1 .. Len(fs) : gs[j] = fs[Len(fs) - j + 1]
  BY DEF Reverse
<1> HIDE DEF gs
<1>2. Shifted(fs, gs, m)
  BY <1>0, <1>1 DEF Shifted
<1>3. {m[x] : x \in DOMAIN gs} = DOMAIN fs
  <2>1. ASSUME NEW y \in DOMAIN fs PROVE \E x \in DOMAIN gs : m[x] = y
    <3>1. Len(fs) - y + 1 \in DOMAIN gs /\ m[Len(fs) - y + 1] = y
      BY <1>0, <1>1
    <3> QED
      BY <3>1
  <2> QED
    BY <1>0, <1>1, <2>1
<1> HIDE DEF m
<1>4. IsList(fs) /\ IsList(gs)
  BY <1>1, ListsAre
<1>5. Amount(gs, l) = SumFunctionOnSet(Weigh(fs, l), DOMAIN fs)
  BY <1>2, <1>3, <1>4, AmountShifted
<1>6. Amount(fs, l) = SumFunctionOnSet(Weigh(fs, l), DOMAIN fs)
  BY <1>4, WeighIs
<1> QED
  BY <1>1, <1>5, <1>6 DEF gs

\* The first element that is x, removed.
LEMMA RemovedIsFirst ==
  ASSUME NEW S, NEW s \in Seq(S), NEW k \in DOMAIN s, \A j \in 1 .. k - 1 : s[j] # s[k]
  PROVE  RemoveFirst(s, s[k]) = Without(s, k) /\ Without(s, k) \in Seq(S)
<1> DEFINE I == {i \in 1 .. Len(s) : s[i] = s[k]}
<1>1. Len(s) \in Nat /\ DOMAIN s = 1 .. Len(s) /\ k \in I /\ I \in SUBSET (1 .. Len(s)) /\ I # {}
  OBVIOUS
<1>2. Min(I) = k
  <2>1. Min(I) \in I /\ \A y \in I : Min(I) <= y
    BY <1>1, Smallest
  <2> QED
    BY <1>1, <2>1
<1>3. SelectInSeq(s, LAMBDA v : v = s[k]) = k
  BY <1>1, <1>2 DEF SelectInSeq
<1>4. RemoveFirst(s, s[k]) = RemoveAt(s, k)
  BY <1>1, <1>3 DEF RemoveFirst
<1>5. RemoveAt(s, k) = Without(s, k)
  <2> DEFINE p == SubSeq(s, 1, k - 1)
             q == SubSeq(s, k + 1, Len(s))
  <2>1. /\ p \in Seq(S) /\ Len(p) = k - 1 /\ \A j \in 1 .. k - 1 : p[j] = s[j]
        /\ q \in Seq(S) /\ Len(q) = Len(s) - k /\ \A j \in 1 .. Len(s) - k : q[j] = s[j + k]
    <3>1. \A j \in 1 .. Len(s) : s[j] \in S
      OBVIOUS
    <3>2. /\ p \in Seq(S) /\ Len(p) = (IF 1 <= k - 1 THEN k - 1 - 1 + 1 ELSE 0)
          /\ \A j \in 1 .. k - 1 - 1 + 1 : p[j] = s[1 + j - 1]
      BY <1>1, <3>1, SubSeqProperties
    <3>3. /\ q \in Seq(S) /\ Len(q) = (IF k + 1 <= Len(s) THEN Len(s) - (k + 1) + 1 ELSE 0)
          /\ \A j \in 1 .. Len(s) - (k + 1) + 1 : q[j] = s[k + 1 + j - 1]
      BY <1>1, <3>1, SubSeqProperties
    <3> HIDE DEF p, q
    <3>4. Len(s) \in Nat /\ k \in 1 .. Len(s)
      BY <1>1
    <3> HIDE DEF I
    <3>5. ASSUME NEW j \in 1 .. k - 1 PROVE p[j] = s[j]
      <4>1. j \in 1 .. k - 1 - 1 + 1 /\ 1 + j - 1 = j
        BY <3>4
      <4> QED
        BY <3>2, <4>1
    <3>6. ASSUME NEW j \in 1 .. Len(s) - k PROVE q[j] = s[j + k]
      <4>1. j \in 1 .. Len(s) - (k + 1) + 1 /\ k + 1 + j - 1 = j + k
        BY <3>4
      <4> QED
        BY <3>3, <4>1
    <3> QED
      BY <3>2, <3>3, <3>4, <3>5, <3>6
  <2> HIDE DEF p, q
  <2>2. /\ p \o q \in Seq(S) /\ Len(p \o q) = Len(s) - 1
        /\ \A j \in 1 .. Len(s) - 1 : (p \o q)[j] = IF j < k THEN s[j] ELSE s[j + 1]
    <3>1. /\ p \o q \in Seq(S) /\ Len(p \o q) = Len(p) + Len(q)
          /\ \A j \in 1 .. Len(p) + Len(q) : (p \o q)[j] = IF j <= Len(p) THEN p[j] ELSE q[j - Len(p)]
      BY <2>1, ConcatProperties
    <3>2. Len(s) \in Nat /\ k \in 1 .. Len(s)
      BY <1>1
    <3> HIDE DEF I
    <3>3. ASSUME NEW j \in 1 .. Len(s) - 1 PROVE (p \o q)[j] = IF j < k THEN s[j] ELSE s[j + 1]
      <4>1. CASE j < k
        BY <2>1, <3>1, <3>2, <4>1
      <4>2. CASE ~(j < k)
        <5>1. (p \o q)[j] = q[j - (k - 1)]
          <6>1. j \in 1 .. Len(p) + Len(q) /\ ~(j <= Len(p)) /\ j - Len(p) = j - (k - 1)
            BY <2>1, <3>2, <4>2
          <6> QED
            BY <3>1, <6>1
        <5>2. j - (k - 1) \in 1 .. Len(s) - k /\ j - (k - 1) + k = j + 1
          BY <3>2, <4>2
        <5> QED
          BY <2>1, <4>2, <5>1, <5>2
      <4> QED
        BY <4>1, <4>2
    <3> QED
      BY <2>1, <3>1, <3>2, <3>3
  <2>3. Without(s, k) \in Seq(S) /\ Len(Without(s, k)) = Len(s) - 1
    BY <1>1 DEF Without
  <2>4. p \o q = Without(s, k)
    <3> DEFINE x == p \o q
               y == Without(s, k)
    <3>1. \A j \in 1 .. Len(x) : x[j] = y[j]
      BY <2>2 DEF Without
    <3>2. x \in Seq(S) /\ y \in Seq(S) /\ Len(x) = Len(y)
      BY <2>2, <2>3
    <3> HIDE DEF x, y
    <3>3. x = y
      BY <3>1, <3>2, SeqEqual
    <3> QED
      BY <3>3 DEF x, y
  <2> QED
    BY <2>4 DEF RemoveAt, p, q
<1>6. Without(s, k) \in Seq(S)
  BY <1>1 DEF Without
<1> QED
  BY <1>4, <1>5, <1>6


\* What the first k places add to a number.
Part(s, k, l) == SumFunctionOnSet(Weigh(s, l), 1 .. k)

LEMMA PartIs ==
  ASSUME NEW s, IsList(s), Len(s) \in Nat, DOMAIN s = 1 .. Len(s), NEW l
  PROVE  /\ Part(s, 0, l) = 0 /\ Part(s, Len(s), l) = Amount(s, l)
         /\ \A k \in 0 .. Len(s) : Part(s, k, l) \in Int
         /\ \A k \in 1 .. Len(s) : Part(s, k, l) = Part(s, k - 1, l) + Adds(s[k], l) /\ Adds(s[k], l) \in Int
<1>1. /\ Weigh(s, l) \in [1 .. Len(s) -> Int]
      /\ Amount(s, l) = SumFunctionOnSet(Weigh(s, l), 1 .. Len(s))
  BY WeighIs
<1>2. \A k \in 0 .. Len(s) : 1 .. k \in SUBSET (1 .. Len(s)) /\ IsFiniteSet(1 .. k)
  BY PlacesAreFinite
<1>3. Part(s, 0, l) = 0
  <2>1. 1 .. 0 = {} /\ {} \in SUBSET (1 .. Len(s))
    OBVIOUS
  <2> QED
    BY <1>1, <2>1, SumType, FS_EmptySet DEF Part
<1>4. \A k \in 0 .. Len(s) : Part(s, k, l) \in Int
  BY <1>1, <1>2, SumType DEF Part
<1>5. ASSUME NEW k \in 1 .. Len(s)
      PROVE  Part(s, k, l) = Part(s, k - 1, l) + Adds(s[k], l) /\ Adds(s[k], l) \in Int
  <2>1. k \in 1 .. k /\ (1 .. k) \ {k} = 1 .. k - 1 /\ k \in 0 .. Len(s) /\ k - 1 \in 0 .. Len(s)
    OBVIOUS
  <2>2. SumFunctionOnSet(Weigh(s, l), 1 .. k) = Weigh(s, l)[k] + SumFunctionOnSet(Weigh(s, l), (1 .. k) \ {k})
    <3>1. 1 .. k \in SUBSET (1 .. Len(s)) /\ IsFiniteSet(1 .. k) /\ k \in 1 .. k
      BY <1>2, <2>1
    <3> DEFINE T == 1 .. k
    <3> HIDE DEF T
    <3>2. SumFunctionOnSet(Weigh(s, l), T) = Weigh(s, l)[k] + SumFunctionOnSet(Weigh(s, l), T \ {k})
      BY <1>1, <3>1, SumStep DEF T
    <3> QED
      BY <3>2 DEF T
  <2>3. Weigh(s, l)[k] = Adds(s[k], l) /\ Weigh(s, l)[k] \in Int
    BY <1>1 DEF Weigh, Adds
  <2>4. Part(s, k, l) = Adds(s[k], l) + Part(s, k - 1, l)
    BY <2>1, <2>2, <2>3 DEF Part
  <2> QED
    BY <1>4, <2>1, <2>3, <2>4
<1>6. Part(s, Len(s), l) = Amount(s, l)
  BY <1>1 DEF Part
<1> QED
  BY <1>3, <1>4, <1>5, <1>6

LEMMA AmountPrepended ==
  ASSUME NEW s \in Seq(SpellAffect), NEW a \in SpellAffect, NEW l
  PROVE  Amount(<<a>> \o s, l) = Amount(s, l) + Adds(a, l)
<1> DEFINE t == <<a>> \o s
<1>1. t \in Seq(SpellAffect) /\ Len(t) = Len(s) + 1 /\ t[1] = a /\ \A j \in 1 .. Len(s) : t[j + 1] = s[j]
  OBVIOUS
<1> HIDE DEF t
<1>2. IsShorter(t, s, 1)
  BY <1>1 DEF IsShorter
<1>3. IsList(s) /\ IsList(t)
  BY <1>1, ListsAre
<1>4. Amount(t, l) = Amount(s, l) + Adds(t[1], l)
  BY <1>2, <1>3, AmountShorter
<1> QED
  BY <1>1, <1>4 DEF t

\* What each item adds to a number, and what all that is worn does.
Burden(l) == [i \in Item |-> Amount(Gear[i], l)]
OfGear(worn, l) == SumFunctionOnSet(Burden(l), worn)

LEMMA GearIs ==
  ASSUME NEW i \in Item
  PROVE  /\ Gear[i] \in Seq(ItemAffect) /\ IsList(Gear[i]) /\ Len(Gear[i]) \in Nat
         /\ DOMAIN Gear[i] = 1 .. Len(Gear[i]) /\ \A k \in 1 .. Len(Gear[i]) : Gear[i][k] \in ItemAffect
<1>1. Gear[i] \in Seq(ItemAffect)
  BY AffectsConstants
<1> QED
  BY <1>1, ListsAre

LEMMA BurdenIs ==
  ASSUME NEW l
  PROVE  /\ Burden(l) \in [Item -> Int] /\ \A i \in Item : Burden(l)[i] = Amount(Gear[i], l)
         /\ \A worn \in SUBSET Item : OfGear(worn, l) \in Int /\ IsFiniteSet(worn)
         /\ OfGear({}, l) = 0
<1>1. \A i \in Item : Amount(Gear[i], l) \in Int
  BY GearIs, WeighIs
<1>2. Burden(l) \in [Item -> Int]
  BY <1>1 DEF Burden
<1>3. \A worn \in SUBSET Item : IsFiniteSet(worn)
  BY AffectsConstants, FS_Subset
<1>4. \A worn \in SUBSET Item : OfGear(worn, l) \in Int /\ OfGear({}, l) = 0
  BY <1>2, <1>3, SumType DEF OfGear
<1>5. {} \in SUBSET Item
  OBVIOUS
<1>6. OfGear({}, l) = 0
  BY <1>4, <1>5
<1> QED
  BY <1>2, <1>3, <1>4, <1>6 DEF Burden

LEMMA WornLess ==
  ASSUME NEW worn \in SUBSET Item, NEW i \in worn, NEW l
  PROVE  OfGear(worn, l) = OfGear(worn \ {i}, l) + Amount(Gear[i], l)
<1>1. Burden(l) \in [Item -> Int] /\ IsFiniteSet(worn) /\ Burden(l)[i] = Amount(Gear[i], l)
  BY BurdenIs
<1>2. SumFunctionOnSet(Burden(l), worn) = Burden(l)[i] + SumFunctionOnSet(Burden(l), worn \ {i})
  BY <1>1, SumStep
<1>3. OfGear(worn \ {i}, l) \in Int /\ Burden(l)[i] \in Int
  BY <1>1, BurdenIs
<1> QED
  BY <1>1, <1>2, <1>3 DEF OfGear

\* Weapons, which leave the strength alone, may go.
LEMMA WeaponsWeighNothing ==
  ASSUME SteadyWeapons, NEW worn \in SUBSET Item, NEW less \in SUBSET worn, worn \ less \subseteq Weapon
  PROVE  OfGear(worn, "STR") = OfGear(less, "STR")
<1> DEFINE away == worn \ less
           none == [i \in Item |-> 0]
<1>1. \A i \in Weapon : Amount(Gear[i], "STR") = 0
  <2> SUFFICES ASSUME NEW i \in Weapon PROVE Amount(Gear[i], "STR") = 0
    OBVIOUS
  <2>1. i \in Item
    BY AffectsConstants
  <2>2. \A k \in DOMAIN Gear[i] : Weigh(Gear[i], "STR")[k] = 0
    BY DEF SteadyWeapons, Weigh
  <2>3. /\ Weigh(Gear[i], "STR") \in [DOMAIN Gear[i] -> Int] /\ IsFiniteSet(DOMAIN Gear[i])
        /\ Amount(Gear[i], "STR") = SumFunctionOnSet(Weigh(Gear[i], "STR"), DOMAIN Gear[i])
    BY <2>1, GearIs, WeighIs
  <2>4. SumFunctionOnSet(Weigh(Gear[i], "STR"), DOMAIN Gear[i]) = 0 * Cardinality({})
    BY <2>2, <2>3, SumOfEqual
  <2>5. 0 * Cardinality({}) = 0
    BY FS_EmptySet
  <2> QED
    BY <2>3, <2>4, <2>5
<1>2. Burden("STR") \in [Item -> Int] /\ \A i \in away : Burden("STR")[i] = 0
  BY <1>1, BurdenIs
<1>3. IsFiniteSet(away) /\ IsFiniteSet(less) /\ away \in SUBSET Item /\ less \in SUBSET Item
  BY BurdenIs
<1>4. SumFunctionOnSet(Burden("STR"), away) = SumFunctionOnSet(none, away)
  <2>1. none \in [Item -> Int] /\ \A i \in away : Burden("STR")[i] = none[i]
    BY <1>2
  <2> HIDE DEF none, away
  <2> QED
    BY <1>2, <1>3, <2>1, SumSame
<1>5. SumFunctionOnSet(none, away) = 0
  <2>1. [i \in away |-> 0] \in [away -> Int] /\ none \in [Item -> Int] /\ \A i \in away : none[i] = [j \in away |-> 0][i]
    BY <1>3
  <2>2. SumFunctionOnSet(none, away) = SumFunctionOnSet([i \in away |-> 0], away)
    <3> HIDE DEF none, away
    <3> QED
      BY <1>3, <2>1, SumSame
  <2>3. SumFunctionOnSet([i \in away |-> 0], away) = 0 * Cardinality({})
    <3> HIDE DEF none, away
    <3> QED
      BY <1>3, <2>1, SumOfEqual
  <2>4. 0 * Cardinality({}) = 0
    BY FS_EmptySet
  <2> QED
    BY <2>2, <2>3, <2>4
<1>6. less \cap away = {} /\ less \cup away = worn
  OBVIOUS
<1> HIDE DEF away, none
<1>7. SumFunctionOnSet(Burden("STR"), less \cup away)
      = SumFunctionOnSet(Burden("STR"), less) + SumFunctionOnSet(Burden("STR"), away)
  BY <1>2, <1>3, <1>6, SumUnion
<1>8. OfGear(less, "STR") \in Int
  BY <1>3, BurdenIs
<1> QED
  BY <1>4, <1>5, <1>6, <1>7, <1>8 DEF OfGear

----------------------------------------------------------------------------
\* Players whose numbers and flags are in step with list and gear but for what
\* is in hand.

IsAffect(a) == a.loc \in Loc /\ a.mod \in Int /\ a.flag \in Flag \cup {None}

\* How far a number is from what list and gear give.
Off(w, l) == w.mod[l] - Amount(w.affected, l) - OfGear(w.worn, l)

SameOff(w, v) == \A l \in Loc : Off(v, l) = Off(w, l)
MoreOff(w, v, a) == \A l \in Loc : Off(v, l) = Off(w, l) + Adds(a, l)
LessOff(w, v, a) == \A l \in Loc : Off(v, l) = Off(w, l) - Adds(a, l)

\* The flags that only come from list and gear and that nothing else clears.
Binding == {f \in Flag : f[1] = "affected" /\ f \notin Concealed}

\* The flags X are set though nothing explains them, and those of Y may be
\* missing though list or gear give them.
Bits(w, X, Y) ==
  /\ w.flags \subseteq Innate \cup Given(w) \cup {Aff("hide")} \cup X
  /\ (Given(w) \cap Binding) \ Y \subseteq w.flags

\* Affects that poison or burn do not strengthen, so that taking a flag from
\* someone never makes them drop what they wield.
Worsening == {"poison", "burning flames"}
Proper(a) ==
  /\ a.flag # None /\ a.loc = "STR" => a.mod <= 0
  /\ a.skill \in Worsening => a.mod <= 0

OneWeapon(w) == \A i, j \in w.worn \cap Weapon : i = j
Light(w) == \A i \in w.worn \cap Weapon : ~TooHeavy(w, i)

Orderly(w) ==
  /\ w \in Player
  /\ w.worn \subseteq ToSet(w.has) /\ IsInjective(w.has)
  /\ OneWeapon(w)
  /\ \A k \in DOMAIN w.affected : Proper(w.affected[k])

Sound(w, X, Y) == Orderly(w) /\ Bits(w, X, Y)

\* The inductive invariant: nothing is in hand.
Exact(w) == \A l \in Loc : Off(w, l) = 0
Good(w) == Sound(w, {}, {}) /\ Light(w) /\ Exact(w)

\* All that may be gone from w to v is a weapon that was wielded.
Less(w, v) ==
  /\ v.affected = w.affected
  /\ v.worn \subseteq w.worn /\ w.worn \ v.worn \subseteq Weapon
  /\ ToSet(v.has) \subseteq ToSet(w.has) /\ ToSet(w.has) \ ToSet(v.has) \subseteq w.worn \ v.worn

LEMMA LessTwice ==
  ASSUME NEW u, NEW v, NEW w, Less(u, v), Less(v, w)
  PROVE  Less(u, w)
BY DEF Less

LEMMA PlayerIs ==
  ASSUME NEW w \in Player
  PROVE  /\ w.affected \in Seq(SpellAffect) /\ w.mod \in [Loc -> Int] /\ w.flags \in SUBSET Flag
         /\ w.worn \in SUBSET Item /\ w.has \in Seq(Item) /\ w.playing \in BOOLEAN
         /\ IsList(w.affected) /\ Len(w.affected) \in Nat /\ DOMAIN w.affected = 1 .. Len(w.affected)
         /\ \A k \in 1 .. Len(w.affected) : w.affected[k] \in SpellAffect /\ IsAffect(w.affected[k])
         /\ \A l \in Loc : /\ Amount(w.affected, l) \in Int /\ OfGear(w.worn, l) \in Int
                           /\ Off(w, l) \in Int /\ w.mod[l] \in Int
<1>1. /\ w.affected \in Seq(SpellAffect) /\ w.mod \in [Loc -> Int] /\ w.flags \in SUBSET Flag
      /\ w.worn \in SUBSET Item /\ w.has \in Seq(Item) /\ w.playing \in BOOLEAN
  BY DEF Player
<1>2. IsList(w.affected)
  BY <1>1, ListsAre
<1>3. \A l \in Loc : Amount(w.affected, l) \in Int /\ OfGear(w.worn, l) \in Int
  BY <1>1, <1>2, WeighIs, BurdenIs
<1>4. \A l \in Loc : Off(w, l) \in Int /\ w.mod[l] \in Int
  BY <1>1, <1>3 DEF Off
<1>5. \A k \in 1 .. Len(w.affected) : w.affected[k] \in SpellAffect /\ IsAffect(w.affected[k])
  <2>1. \A k \in 1 .. Len(w.affected) : w.affected[k] \in SpellAffect
    BY <1>1
  <2>2. \A a \in SpellAffect : IsAffect(a)
    BY DEF SpellAffect, IsAffect
  <2> QED
    BY <2>1, <2>2
<1> QED
  BY <1>1, <1>2, <1>3, <1>4, <1>5

\* What the two kinds of affects have in common.
LEMMA AffectsAre ==
  ASSUME NEW a, a \in ItemAffect \/ a \in SpellAffect
  PROVE  IsAffect(a) /\ \A l : Adds(a, l) \in Int
BY DEF IsAffect, ItemAffect, SpellAffect, Adds

\* A number and a flag more, or one less.
More(w, a) == Modified(w, a, TRUE)
Fewer(w, a) == Modified(w, a, FALSE)

\* What becomes of the fields.
LEMMA MoreIs ==
  ASSUME NEW w \in Player, NEW a, IsAffect(a), NEW v, v = More(w, a)
  PROVE  /\ v \in Player /\ v.affected = w.affected /\ v.worn = w.worn /\ v.has = w.has
         /\ v.playing = w.playing
         /\ \A l \in Loc : v.mod[l] = w.mod[l] + Adds(a, l)
         /\ v.flags = Innate \cup (w.flags \cup ({a.flag} \ {None}))
<1>1. /\ w.mod \in [Loc -> Int] /\ w.flags \in SUBSET Flag /\ a.loc \in Loc /\ a.mod \in Int
      /\ Innate \in SUBSET Flag /\ {a.flag} \ {None} \in SUBSET Flag
  BY AffectsConstants DEF Player, IsAffect
<1>2. v = [w EXCEPT !.mod = [w.mod EXCEPT ![a.loc] = @ + a.mod], !.flags = Innate \cup (w.flags \cup ({a.flag} \ {None}))]
  BY DEF More, Modified, Player
<1>3. [w.mod EXCEPT ![a.loc] = @ + a.mod] \in [Loc -> Int]
  BY <1>1
<1>4. /\ v \in Player /\ v.affected = w.affected /\ v.worn = w.worn /\ v.has = w.has /\ v.playing = w.playing
      /\ v.mod = [w.mod EXCEPT ![a.loc] = @ + a.mod] /\ v.flags = Innate \cup (w.flags \cup ({a.flag} \ {None}))
  BY <1>1, <1>2, <1>3 DEF Player
<1>5. ASSUME NEW l \in Loc PROVE v.mod[l] = w.mod[l] + Adds(a, l)
  <2>1. w.mod[l] \in Int
    BY <1>1
  <2>2. CASE a.loc = l
    BY <1>1, <1>4, <2>2 DEF Adds
  <2>3. CASE a.loc # l
    BY <1>1, <1>4, <2>1, <2>3 DEF Adds
  <2> QED
    BY <2>2, <2>3
<1> QED
  BY <1>4, <1>5

LEMMA LessIs ==
  ASSUME NEW w \in Player, NEW a, IsAffect(a), NEW v, v = Fewer(w, a)
  PROVE  /\ v \in Player /\ v.affected = w.affected /\ v.worn = w.worn /\ v.has = w.has
         /\ v.playing = w.playing
         /\ \A l \in Loc : v.mod[l] = w.mod[l] - Adds(a, l)
         /\ v.flags = Innate \cup (w.flags \ {a.flag})
<1>1. /\ w.mod \in [Loc -> Int] /\ w.flags \in SUBSET Flag /\ a.loc \in Loc /\ a.mod \in Int
      /\ Innate \in SUBSET Flag /\ {a.flag} \ {None} \in SUBSET Flag
  BY AffectsConstants DEF Player, IsAffect
<1>2. v = [w EXCEPT !.mod = [w.mod EXCEPT ![a.loc] = @ - a.mod], !.flags = Innate \cup (w.flags \ {a.flag})]
  BY DEF Fewer, Modified, Player
<1>3. [w.mod EXCEPT ![a.loc] = @ - a.mod] \in [Loc -> Int]
  BY <1>1
<1>4. /\ v \in Player /\ v.affected = w.affected /\ v.worn = w.worn /\ v.has = w.has /\ v.playing = w.playing
      /\ v.mod = [w.mod EXCEPT ![a.loc] = @ - a.mod] /\ v.flags = Innate \cup (w.flags \ {a.flag})
  BY <1>1, <1>2, <1>3 DEF Player
<1>5. ASSUME NEW l \in Loc PROVE v.mod[l] = w.mod[l] - Adds(a, l)
  <2>1. w.mod[l] \in Int
    BY <1>1
  <2>2. CASE a.loc = l
    BY <1>1, <1>4, <2>2 DEF Adds
  <2>3. CASE a.loc # l
    BY <1>1, <1>4, <2>1, <2>3 DEF Adds
  <2> QED
    BY <2>2, <2>3
<1> QED
  BY <1>4, <1>5

LEMMA GivenIs ==
  ASSUME NEW w \in Player
  PROVE  Given(w) \subseteq Flag \cup {None}
<1>1. \A i \in w.worn : \A k \in DOMAIN Gear[i] : Gear[i][k].flag \in Flag \cup {None}
  BY GearIs DEF Player, ItemAffect
<1>2. \A k \in DOMAIN w.affected : w.affected[k].flag \in Flag \cup {None}
  BY PlayerIs DEF SpellAffect
<1> QED
  BY <1>1, <1>2 DEF Given

LEMMA SameGiven ==
  ASSUME NEW w, NEW v, v.affected = w.affected, v.worn = w.worn
  PROVE  Given(v) = Given(w)
BY DEF Given

LEMMA CheckedIs ==
  ASSUME NEW w \in Player, NEW f \in Flag \cup {None}, NEW v, v = affect_check(w, f)
  PROVE  /\ v \in Player /\ v.affected = w.affected /\ v.worn = w.worn /\ v.has = w.has
         /\ v.playing = w.playing /\ v.mod = w.mod
         /\ v.flags = w.flags \cup IF f # None /\ f \in Given(w) THEN {f} ELSE {}
<1>1. (\/ \E k \in DOMAIN w.affected : w.affected[k].flag = f
       \/ \E i \in w.worn : \E k \in DOMAIN Gear[i] : Gear[i][k].flag = f) <=> f \in Given(w)
  BY DEF Given
<1>2. CASE f # None /\ f \in Given(w)
  <2>1. v = [w EXCEPT !.flags = @ \cup {f}]
    BY <1>1, <1>2 DEF affect_check, Flagged
  <2> QED
    BY <1>2, <2>1 DEF Player
<1>3. CASE ~(f # None /\ f \in Given(w))
  <2>1. v = w
    BY <1>1, <1>3 DEF affect_check
  <2> QED
    BY <1>3, <2>1
<1> QED
  BY <1>2, <1>3

\* Only list, gear and possessions count.
LEMMA SameKept ==
  ASSUME NEW w, NEW v \in Player, Orderly(w), v.affected = w.affected, v.worn = w.worn, v.has = w.has
  PROVE  Orderly(v) /\ Less(w, v) /\ Given(v) = Given(w)
BY SameGiven DEF Orderly, Less, OneWeapon

LEMMA SameLight ==
  ASSUME NEW w, NEW v, v.worn \subseteq w.worn, v.mod["STR"] = w.mod["STR"], Light(w)
  PROVE  Light(v)
BY DEF Light, TooHeavy, Strength

\* A change of the numbers is one of how far they are off.
LEMMA OffFollows ==
  ASSUME NEW w \in Player, NEW v \in Player, v.affected = w.affected, v.worn = w.worn
  PROVE  \A l \in Loc : Off(v, l) - Off(w, l) = v.mod[l] - w.mod[l]
<1>1. \A l \in Loc : /\ Amount(w.affected, l) \in Int /\ OfGear(w.worn, l) \in Int
                     /\ w.mod[l] \in Int /\ v.mod[l] \in Int
  BY PlayerIs
<1> QED
  BY <1>1 DEF Off

----------------------------------------------------------------------------
\* One number and one flag more or less.

LEMMA Adding ==
  ASSUME NEW w, NEW X, NEW Y, Sound(w, X, Y), NEW a, IsAffect(a), NEW v, v = More(w, a)
  PROVE  Sound(v, X \cup {a.flag}, Y \ {a.flag}) /\ Less(w, v) /\ MoreOff(w, v, a)
<1>1. w \in Player
  BY DEF Sound, Orderly
<1>2. /\ v \in Player /\ v.affected = w.affected /\ v.worn = w.worn /\ v.has = w.has
      /\ \A l \in Loc : v.mod[l] = w.mod[l] + Adds(a, l)
      /\ v.flags = Innate \cup (w.flags \cup ({a.flag} \ {None}))
  BY <1>1, MoreIs
<1>3. Orderly(v) /\ Less(w, v) /\ Given(v) = Given(w)
  BY <1>2, SameKept DEF Sound
<1>4. Bits(v, X \cup {a.flag}, Y \ {a.flag})
  <2>1. None \notin Binding
    BY AffectsConstants DEF Binding
  <2> QED
    BY <1>2, <1>3, <2>1 DEF Sound, Bits
<1>5. MoreOff(w, v, a)
  <2> SUFFICES ASSUME NEW l \in Loc PROVE Off(v, l) = Off(w, l) + Adds(a, l)
    BY DEF MoreOff
  <2>1. w.mod[l] \in Int /\ Off(w, l) \in Int /\ Off(v, l) \in Int
    BY <1>1, <1>2, PlayerIs
  <2>2. Adds(a, l) \in Int
    BY DEF Adds, IsAffect
  <2>3. Off(v, l) - Off(w, l) = v.mod[l] - w.mod[l] /\ v.mod[l] = w.mod[l] + Adds(a, l)
    BY <1>1, <1>2, OffFollows
  <2>4. v.mod[l] \in Int
    BY <1>2, PlayerIs
  <2> DEFINE x == Off(v, l)
             y == Off(w, l)
             p == v.mod[l]
             q == w.mod[l]
             d == Adds(a, l)
  <2>5. x \in Int /\ y \in Int /\ p \in Int /\ q \in Int /\ d \in Int /\ x - y = p - q /\ p = q + d
    BY <2>1, <2>2, <2>3, <2>4
  <2> HIDE DEF x, y, p, q, d
  <2>6. x = y + d
    BY <2>5
  <2> QED
    BY <2>6 DEF x, y, d
<1> QED
  BY <1>3, <1>4, <1>5 DEF Sound

LEMMA Taking ==
  ASSUME NEW w, NEW X, NEW Y, Sound(w, X, Y), NEW a, IsAffect(a), NEW Z, X \subseteq Z \cup {a.flag},
         NEW v, v = Fewer(w, a)
  PROVE  Sound(v, Z, Y \cup {a.flag}) /\ Less(w, v) /\ LessOff(w, v, a)
<1>1. w \in Player
  BY DEF Sound, Orderly
<1>2. /\ v \in Player /\ v.affected = w.affected /\ v.worn = w.worn /\ v.has = w.has
      /\ \A l \in Loc : v.mod[l] = w.mod[l] - Adds(a, l)
      /\ v.flags = Innate \cup (w.flags \ {a.flag})
  BY <1>1, LessIs
<1>3. Orderly(v) /\ Less(w, v) /\ Given(v) = Given(w)
  BY <1>2, SameKept DEF Sound
<1>4. Bits(v, Z, Y \cup {a.flag})
  BY <1>2, <1>3 DEF Sound, Bits
<1>5. LessOff(w, v, a)
  <2> SUFFICES ASSUME NEW l \in Loc PROVE Off(v, l) = Off(w, l) - Adds(a, l)
    BY DEF LessOff
  <2>1. w.mod[l] \in Int /\ Off(w, l) \in Int /\ Off(v, l) \in Int
    BY <1>1, <1>2, PlayerIs
  <2>2. Adds(a, l) \in Int
    BY DEF Adds, IsAffect
  <2>3. Off(v, l) - Off(w, l) = v.mod[l] - w.mod[l] /\ v.mod[l] = w.mod[l] - Adds(a, l)
    BY <1>1, <1>2, OffFollows
  <2>4. v.mod[l] \in Int
    BY <1>2, PlayerIs
  <2> DEFINE x == Off(v, l)
             y == Off(w, l)
             p == v.mod[l]
             q == w.mod[l]
             d == Adds(a, l)
  <2>5. x \in Int /\ y \in Int /\ p \in Int /\ q \in Int /\ d \in Int /\ x - y = p - q /\ p = q - d
    BY <2>1, <2>2, <2>3, <2>4
  <2> HIDE DEF x, y, p, q, d
  <2>6. x = y - d
    BY <2>5
  <2> QED
    BY <2>6 DEF x, y, d
<1> QED
  BY <1>3, <1>4, <1>5 DEF Sound

LEMMA Checking ==
  ASSUME NEW w, NEW X, NEW Y, NEW f \in Flag \cup {None}, Sound(w, X, Y \cup {f}),
         NEW v, v = affect_check(w, f)
  PROVE  /\ Sound(v, X, Y) /\ Less(w, v) /\ SameOff(w, v) /\ v.mod = w.mod
         /\ Light(w) => Light(v)
<1>1. w \in Player
  BY DEF Sound, Orderly
<1>2. /\ v \in Player /\ v.affected = w.affected /\ v.worn = w.worn /\ v.has = w.has /\ v.mod = w.mod
      /\ v.flags = w.flags \cup IF f # None /\ f \in Given(w) THEN {f} ELSE {}
  BY <1>1, CheckedIs
<1>3. Orderly(v) /\ Less(w, v) /\ Given(v) = Given(w)
  BY <1>2, SameKept DEF Sound
<1>4. Bits(v, X, Y)
  <2>1. None \notin Binding
    BY AffectsConstants DEF Binding
  <2> QED
    BY <1>2, <1>3, <2>1 DEF Sound, Bits
<1>5. SameOff(w, v)
  BY <1>2 DEF SameOff, Off
<1>6. Light(w) => Light(v)
  BY <1>2, SameLight
<1> QED
  BY <1>2, <1>3, <1>4, <1>5, <1>6 DEF Sound

\* Flags of race, list, gear and hiding need no other explanation.
LEMMA Explained ==
  ASSUME NEW w, NEW X, NEW Y, Sound(w, X, Y), NEW Z, X \subseteq Z \cup Given(w) \cup {None}
  PROVE  Sound(w, Z, Y)
<1>1. None \notin w.flags
  BY AffectsConstants DEF Sound, Orderly, Player
<1> QED
  BY <1>1 DEF Sound, Bits

\* The flags of a race are always there.
LEMMA Natural ==
  ASSUME NEW w, NEW X, NEW Y, Sound(w, X, Y), NEW v, v = [w EXCEPT !.flags = @ \cup Innate]
  PROVE  /\ Sound(v, X, Y) /\ Less(w, v) /\ SameOff(w, v) /\ v.mod = w.mod
         /\ Light(w) => Light(v)
<1>1. w \in Player /\ Innate \subseteq Flag
  BY AffectsConstants DEF Sound, Orderly
<1>2. /\ v \in Player /\ v.affected = w.affected /\ v.worn = w.worn /\ v.has = w.has /\ v.mod = w.mod
      /\ v.flags = w.flags \cup Innate
  BY <1>1 DEF Player
<1>3. Orderly(v) /\ Less(w, v) /\ Given(v) = Given(w)
  BY <1>2, SameKept DEF Sound
<1>4. Bits(v, X, Y)
  BY <1>2, <1>3 DEF Sound, Bits
<1>5. SameOff(w, v)
  BY <1>2 DEF SameOff, Off
<1>6. Light(w) => Light(v)
  BY <1>2, SameLight
<1> QED
  BY <1>2, <1>3, <1>4, <1>5, <1>6 DEF Sound

\* A turn of a loop that undoes the affects of an item, on players of P.
Undoes(Do, P) ==
  \A a \in ItemAffect, v \in P : \A X, Z, Y :
    Sound(v, X, Y) /\ X \subseteq Z \cup {a.flag} =>
      /\ Do[a][v] \in P /\ Sound(Do[a][v], Z, Y)
      /\ Less(v, Do[a][v]) /\ LessOff(v, Do[a][v], a)

\* X and the flags of an item after its k-th affect.
Still(X, s, k) == X \cup {s[j].flag : j \in k + 1 .. Len(s)}

AllLessOff(u, v, s, k) == \A l \in Loc : Off(v, l) = Off(u, l) - Part(s, k, l)

\* The players after k turns of such a loop from u.
Reached(P, X, Y, u, s, k) == {w \in P : Sound(w, Still(X, s, k), Y) /\ Less(u, w) /\ AllLessOff(u, w, s, k)}

LEMMA UndoneOnce ==
  ASSUME NEW i \in Item, NEW X, NEW Y, NEW u \in Player, NEW P \in SUBSET Player, NEW Do, Undoes(Do, P),
         NEW k \in 1 .. Len(Gear[i]), NEW v \in Reached(P, X, Y, u, Gear[i], k - 1)
  PROVE  Do[Gear[i][k]][v] \in Reached(P, X, Y, u, Gear[i], k)
<1>0. /\ v \in P /\ v \in Player /\ Sound(v, Still(X, Gear[i], k - 1), Y) /\ Less(u, v)
      /\ AllLessOff(u, v, Gear[i], k - 1)
  BY DEF Reached
<1> DEFINE s == Gear[i]
           a == Gear[i][k]
           w == Do[a][v]
<1>1. /\ Len(s) \in Nat /\ a \in ItemAffect /\ IsList(s) /\ DOMAIN s = 1 .. Len(s) /\ k - 1 \in 0 .. Len(s)
      /\ k \in 0 .. Len(s)
  BY GearIs
<1>2. Still(X, s, k - 1) \subseteq Still(X, s, k) \cup {a.flag}
  BY <1>1 DEF Still
<1>3. w \in P /\ Sound(w, Still(X, s, k), Y) /\ Less(v, w) /\ LessOff(v, w, a)
  BY <1>0, <1>1, <1>2 DEF Undoes
<1>4. AllLessOff(u, w, s, k)
  <2> SUFFICES ASSUME NEW l \in Loc PROVE Off(w, l) = Off(u, l) - Part(s, k, l)
    BY DEF AllLessOff
  <2>1. /\ Part(s, k - 1, l) \in Int /\ Part(s, k, l) \in Int /\ Adds(a, l) \in Int
        /\ Part(s, k, l) = Part(s, k - 1, l) + Adds(a, l)
    BY <1>1, PartIs
  <2>2. Off(u, l) \in Int /\ Off(v, l) \in Int
    BY <1>0, PlayerIs
  <2>3. Off(w, l) = Off(v, l) - Adds(a, l) /\ Off(v, l) = Off(u, l) - Part(s, k - 1, l)
    BY <1>0, <1>3 DEF LessOff, AllLessOff
  <2> HIDE DEF s, a
  <2> QED
    BY <2>1, <2>2, <2>3
<1> QED
  <2>1. Less(u, w)
    BY <1>0, <1>3, LessTwice
  <2> QED
    BY <1>3, <1>4, <2>1 DEF Reached

\* The flags an item gives.
Flags(i) == {Gear[i][k].flag : k \in DOMAIN Gear[i]}

\* X but for flags of i.
Sheds(X, i, Z) == X \subseteq Z \cup Flags(i)

Undoer(Do, P) == P \in SUBSET Player /\ Undoes(Do, P) /\ Closes(ItemAffect, Player, Do)

\* Once i is off, all it did is undone.
LEMMA Undoing ==
  ASSUME NEW i \in Item, NEW X, NEW Z, Sheds(X, i, Z), NEW Y, NEW u, Sound(u, X, Y),
         NEW Do, NEW P, Undoer(Do, P), u \in P, NEW v, v = Through(Gear[i], u, Do)
  PROVE  /\ v \in P /\ Sound(v, Z, Y) /\ Less(u, v)
         /\ \A l \in Loc : Off(v, l) = Off(u, l) - Amount(Gear[i], l)
<1> DEFINE s == Gear[i]
           G == [k \in 0 .. Len(s) |-> Reached(P, Z, Y, u, s, k)]
<1>0. P \in SUBSET Player /\ u \in Player /\ Undoes(Do, P) /\ Closes(ItemAffect, Player, Do)
  BY DEF Undoer
<1>1. s \in Seq(ItemAffect) /\ IsList(s) /\ Len(s) \in Nat /\ DOMAIN s = 1 .. Len(s)
  BY GearIs
<1>2. u \in G[0]
  <2>1. X \subseteq Still(Z, s, 0) \cup Given(u) \cup {None}
    BY <1>1 DEF Still, Flags, Sheds
  <2>2. Sound(u, Still(Z, s, 0), Y)
    BY <2>1, Explained
  <2>3. Less(u, u)
    BY DEF Less
  <2>4. AllLessOff(u, u, s, 0)
    <3>1. \A l \in Loc : Off(u, l) \in Int /\ Part(s, 0, l) = 0
      BY <1>0, <1>1, PartIs, PlayerIs
    <3> QED
      BY <3>1 DEF AllLessOff
  <2>5. u \in Reached(P, Z, Y, u, s, 0)
    BY <2>2, <2>3, <2>4 DEF Reached
  <2>6. 0 \in 0 .. Len(s)
    BY <1>1
  <2> QED
    BY <2>5, <2>6
<1>3. Passes(s, G, Do)
  <2> SUFFICES ASSUME NEW k \in 1 .. Len(s), NEW w \in G[k - 1] PROVE Do[s[k]][w] \in G[k]
    BY DEF Passes
  <2>1. k \in 0 .. Len(s) /\ k - 1 \in 0 .. Len(s)
    BY <1>1
  <2>2. w \in Reached(P, Z, Y, u, Gear[i], k - 1)
    BY <2>1
  <2> HIDE DEF G
  <2>3. Do[Gear[i][k]][w] \in Reached(P, Z, Y, u, Gear[i], k)
    BY <1>0, <2>2, UndoneOnce
  <2> QED
    BY <2>1, <2>3 DEF G
<1> HIDE DEF G
<1>4. v \in G[Len(s)]
  BY <1>0, <1>1, <1>2, <1>3, ThroughArrives
<1>6. v \in P /\ Sound(v, Still(Z, s, Len(s)), Y) /\ Less(u, v) /\ AllLessOff(u, v, s, Len(s))
  BY <1>1, <1>4 DEF G, Reached
<1>7. Still(Z, s, Len(s)) = Z
  BY <1>1 DEF Still
<1>8. \A l \in Loc : Part(s, Len(s), l) = Amount(s, l)
  BY <1>1, PartIs
<1> QED
  BY <1>6, <1>7, <1>8 DEF AllLessOff

----------------------------------------------------------------------------
\* A weapon falls.

LEMMA FirstOf ==
  ASSUME NEW S, NEW s \in Seq(S), NEW e \in ToSet(s)
  PROVE  \E k \in DOMAIN s : s[k] = e /\ \A j \in 1 .. k - 1 : s[j] # e
<1> DEFINE I == {i \in 1 .. Len(s) : s[i] = e}
<1>1. Len(s) \in Nat /\ DOMAIN s = 1 .. Len(s) /\ I \in SUBSET (1 .. Len(s)) /\ I # {}
  BY DEF ToSet
<1>2. Min(I) \in I /\ \A y \in I : Min(I) <= y
  BY <1>1, Smallest
<1> QED
  BY <1>1, <1>2

LEMMA RemovedOnce ==
  ASSUME NEW S, NEW s \in Seq(S), NEW e
  PROVE  /\ RemoveFirst(s, e) \in Seq(S)
         /\ IsInjective(s) => IsInjective(RemoveFirst(s, e)) /\ ToSet(RemoveFirst(s, e)) = ToSet(s) \ {e}
<1>0. Len(s) \in Nat /\ DOMAIN s = 1 .. Len(s)
  OBVIOUS
<1>1. CASE e \in ToSet(s)
  <2>1. PICK k \in DOMAIN s : s[k] = e /\ \A j \in 1 .. k - 1 : s[j] # e
    BY <1>1, FirstOf
  <2>2. RemoveFirst(s, e) = Without(s, k) /\ Without(s, k) \in Seq(S)
    BY <2>1, RemovedIsFirst
  <2>3. ASSUME IsInjective(s) PROVE IsInjective(Without(s, k)) /\ ToSet(Without(s, k)) = ToSet(s) \ {e}
    <3> DEFINE t == Without(s, k)
    <3>1. /\ DOMAIN t = 1 .. Len(s) - 1
          /\ \A j \in 1 .. Len(s) - 1 : t[j] = IF j < k THEN s[j] ELSE s[j + 1]
      BY DEF Without
    <3> HIDE DEF t
    <3>2. \A i, j \in 1 .. Len(s) : s[i] = s[j] => i = j
      BY <1>0, <2>3 DEF IsInjective
    <3>3. IsInjective(t)
      <4> SUFFICES ASSUME NEW i \in 1 .. Len(s) - 1, NEW j \in 1 .. Len(s) - 1, t[i] = t[j] PROVE i = j
        BY <3>1 DEF IsInjective
      <4>1. /\ i \in 1 .. Len(s) /\ i + 1 \in 1 .. Len(s) /\ j \in 1 .. Len(s) /\ j + 1 \in 1 .. Len(s)
            /\ k \in 1 .. Len(s)
        BY <1>0
      <4>2. CASE i < k /\ j < k
        BY <3>1, <3>2, <4>1, <4>2
      <4>3. CASE i < k /\ ~(j < k)
        <5>1. i = j + 1
          BY <3>1, <3>2, <4>1, <4>3
        <5> QED
          BY <4>1, <4>3, <5>1
      <4>4. CASE ~(i < k) /\ j < k
        <5>1. i + 1 = j
          BY <3>1, <3>2, <4>1, <4>4
        <5> QED
          BY <4>1, <4>4, <5>1
      <4>5. CASE ~(i < k) /\ ~(j < k)
        <5>1. i + 1 = j + 1
          BY <3>1, <3>2, <4>1, <4>5
        <5> QED
          BY <4>1, <5>1
      <4> QED
        BY <4>2, <4>3, <4>4, <4>5
    <3>4. ASSUME NEW x \in ToSet(t) PROVE x \in ToSet(s) \ {e}
      <4>1. PICK j \in 1 .. Len(s) - 1 : x = t[j]
        BY <3>1 DEF ToSet
      <4>2. CASE j < k
        BY <1>0, <2>1, <3>1, <4>1, <4>2 DEF ToSet
      <4>3. CASE ~(j < k)
        <5>1. x = s[j + 1] /\ j + 1 \in 1 .. Len(s) /\ j + 1 # k
          BY <1>0, <3>1, <4>1, <4>3
        <5> QED
          BY <1>0, <2>1, <3>2, <5>1 DEF ToSet
      <4> QED
        BY <4>2, <4>3
    <3>5. ASSUME NEW x \in ToSet(s) \ {e} PROVE x \in ToSet(t)
      <4>1. PICK j \in 1 .. Len(s) : x = s[j]
        BY <1>0 DEF ToSet
      <4>2. j # k /\ k \in 1 .. Len(s)
        BY <1>0, <2>1, <4>1
      <4>3. CASE j < k
        <5>1. j \in 1 .. Len(s) - 1
          BY <1>0, <4>2, <4>3
        <5> QED
          BY <3>1, <4>1, <4>3, <5>1 DEF ToSet
      <4>4. CASE ~(j < k)
        <5>1. j - 1 \in 1 .. Len(s) - 1 /\ ~(j - 1 < k) /\ j - 1 + 1 = j
          BY <1>0, <4>2, <4>4
        <5> QED
          BY <3>1, <4>1, <5>1 DEF ToSet
      <4> QED
        BY <4>3, <4>4
    <3> QED
      BY <3>3, <3>4, <3>5 DEF t
  <2> QED
    BY <2>2, <2>3
<1>2. CASE e \notin ToSet(s)
  <2>1. RemoveFirst(s, e) = s
    BY <1>0, <1>2 DEF RemoveFirst, ToSet
  <2> QED
    BY <1>2, <2>1
<1> QED
  BY <1>1, <1>2

\* The turns of Dropped.
DropUndo == [a \in ItemAffect |-> [v \in Player |-> affect_check(Modified(v, a, FALSE), a.flag)]]

LEMMA DropTurn ==
  ASSUME NEW a \in ItemAffect, NEW v \in Player
  PROVE  /\ DropUndo[a][v] = affect_check(Fewer(v, a), a.flag)
         /\ IsAffect(a) /\ a.flag \in Flag \cup {None} /\ Fewer(v, a) \in Player
         /\ DropUndo[a][v] \in Player
<1>1. DropUndo[a][v] = affect_check(Fewer(v, a), a.flag)
  BY DEF DropUndo, Fewer
<1>2. IsAffect(a) /\ a.flag \in Flag \cup {None}
  BY DEF IsAffect, ItemAffect
<1>3. Fewer(v, a) \in Player
  BY <1>2, LessIs
<1> QED
  BY <1>1, <1>2, <1>3, CheckedIs

LEMMA DropUndoes ==
  /\ Undoes(DropUndo, Player) /\ Closes(ItemAffect, Player, DropUndo)
<1>1. Closes(ItemAffect, Player, DropUndo)
  BY DropTurn DEF Closes
<1>2. ASSUME NEW a \in ItemAffect, NEW v \in Player, NEW X, NEW Z, NEW Y, Sound(v, X, Y), X \subseteq Z \cup {a.flag},
             NEW w, w = DropUndo[a][v]
      PROVE  w \in Player /\ Sound(w, Z, Y) /\ Less(v, w) /\ LessOff(v, w, a)
  <2> DEFINE m == Fewer(v, a)
  <2>1. /\ w = affect_check(m, a.flag) /\ IsAffect(a) /\ a.flag \in Flag \cup {None} /\ m \in Player /\ w \in Player
    BY <1>2, DropTurn
  <2>2. Sound(m, Z, Y \cup {a.flag}) /\ Less(v, m) /\ LessOff(v, m, a)
    BY <1>2, <2>1, Taking
  <2> HIDE DEF m
  <2>3. Sound(w, Z, Y) /\ Less(m, w) /\ SameOff(m, w)
    BY <2>1, <2>2, Checking
  <2>4. Less(v, w)
    BY <2>2, <2>3, LessTwice
  <2>5. LessOff(v, w, a)
    BY <2>2, <2>3 DEF LessOff, SameOff
  <2> QED
    BY <2>1, <2>3, <2>4, <2>5
<1> QED
  BY <1>1, <1>2 DEF Undoes

LEMMA DroppedStays ==
  ASSUME NEW w \in Player, NEW i \in Item
  PROVE  Dropped(w, i) \in Player
<1> DEFINE u == [w EXCEPT !.worn = @ \ {i}]
           z == Through(Gear[i], u, DropUndo)
<1>1. u \in Player
  BY DEF Player
<1> HIDE DEF u
<1>2. z \in Player
  BY <1>1, GearIs, DropUndoes, ThroughStays
<1>3. Dropped(w, i) = [z EXCEPT !.has = RemoveFirst(@, i)]
  BY DEF Dropped, DropUndo, u
<1> HIDE DEF z
<1>4. RemoveFirst(z.has, i) \in Seq(Item)
  BY <1>2, RemovedOnce DEF Player
<1> QED
  BY <1>2, <1>3, <1>4 DEF Player

LEMMA TakenOff ==
  ASSUME NEW w, NEW X, NEW Y, Sound(w, X, Y), NEW i \in w.worn, NEW u, u = [w EXCEPT !.worn = @ \ {i}]
  PROVE  /\ u.worn = w.worn \ {i} /\ u.affected = w.affected /\ u.has = w.has /\ u.mod = w.mod /\ u \in Player
         /\ Sound(u, X \cup Flags(i), Y)
         /\ \A l \in Loc : Off(u, l) = Off(w, l) + Amount(Gear[i], l)
<1>1. w \in Player
  BY DEF Sound, Orderly
<1>2. /\ u \in Player /\ u.affected = w.affected /\ u.worn = w.worn \ {i} /\ u.has = w.has /\ u.mod = w.mod
      /\ u.flags = w.flags
  BY <1>1 DEF Player
<1>3. Orderly(u)
  BY <1>2 DEF Sound, Orderly, OneWeapon
<1>4. Given(w) = Given(u) \cup Flags(i)
  BY <1>2 DEF Given, Flags
<1>5. Bits(u, X \cup Flags(i), Y)
  BY <1>2, <1>4 DEF Sound, Bits
<1>6. ASSUME NEW l \in Loc PROVE Off(u, l) = Off(w, l) + Amount(Gear[i], l)
  <2>1. /\ w.mod[l] \in Int /\ Amount(w.affected, l) \in Int /\ OfGear(w.worn, l) \in Int /\ OfGear(u.worn, l) \in Int
    BY <1>1, <1>2, PlayerIs
  <2>2. i \in Item /\ w.worn \in SUBSET Item
    BY <1>1 DEF Player
  <2>3. OfGear(w.worn, l) = OfGear(u.worn, l) + Amount(Gear[i], l) /\ Amount(Gear[i], l) \in Int
    BY <1>2, <2>2, WornLess, GearIs, WeighIs
  <2> DEFINE p == OfGear(w.worn, l)
             q == OfGear(u.worn, l)
             d == Amount(Gear[i], l)
             m == w.mod[l]
             n == Amount(w.affected, l)
  <2>4. Off(u, l) = m - n - q /\ Off(w, l) = m - n - p
    BY <1>2 DEF Off
  <2>5. p \in Int /\ q \in Int /\ d \in Int /\ m \in Int /\ n \in Int /\ p = q + d
    BY <2>1, <2>3
  <2> HIDE DEF p, q, d, m, n
  <2>6. m - n - q = m - n - p + d
    BY <2>5
  <2> QED
    BY <2>4, <2>6 DEF d
<1> QED
  BY <1>2, <1>3, <1>5, <1>6 DEF Sound

LEMMA Dropping ==
  ASSUME NEW w, NEW X, NEW Y, Sound(w, X, Y), NEW i \in w.worn \cap Weapon, NEW v, v = Dropped(w, i)
  PROVE  Sound(v, X, Y) /\ v.worn = w.worn \ {i} /\ Less(w, v) /\ SameOff(w, v)
<1> DEFINE u == [w EXCEPT !.worn = @ \ {i}]
           z == Through(Gear[i], u, DropUndo)
<1>1. w \in Player /\ i \in Item /\ OneWeapon(w)
  BY AffectsConstants DEF Sound, Orderly
<1>2. /\ u.worn = w.worn \ {i} /\ u.affected = w.affected /\ u.has = w.has /\ u \in Player
      /\ Sound(u, X \cup Flags(i), Y)
      /\ \A l \in Loc : Off(u, l) = Off(w, l) + Amount(Gear[i], l)
  BY TakenOff
<1>3. v = [z EXCEPT !.has = RemoveFirst(@, i)]
  BY DEF Dropped, DropUndo
<1> HIDE DEF u
<1>4. /\ z \in Player /\ Sound(z, X, Y) /\ Less(u, z)
      /\ \A l \in Loc : Off(z, l) = Off(u, l) - Amount(Gear[i], l)
  <2> DEFINE X1 == X \cup Flags(i)
             P == Player
  <2>1. Sheds(X1, i, X) /\ Sound(u, X1, Y)
    BY <1>2 DEF Sheds
  <2>2. u \in P /\ Undoer(DropUndo, P)
    BY <1>2, DropUndoes DEF Undoer
  <2> HIDE DEF X1, P
  <2>3. /\ z \in P /\ Sound(z, X, Y) /\ Less(u, z)
        /\ \A l \in Loc : Off(z, l) = Off(u, l) - Amount(Gear[i], l)
    BY <1>1, <2>1, <2>2, Undoing
  <2> QED
    BY <2>3 DEF P
<1> HIDE DEF z
<1>5. z.worn = w.worn \ {i} /\ z.affected = w.affected /\ ToSet(z.has) = ToSet(w.has)
  <2>1. \A j \in u.worn : j \notin Weapon
    BY <1>1, <1>2 DEF OneWeapon
  <2> QED
    BY <1>2, <1>4, <2>1 DEF Less
<1>6. /\ v \in Player /\ v.affected = z.affected /\ v.worn = z.worn /\ v.mod = z.mod /\ v.flags = z.flags
      /\ v.has = RemoveFirst(z.has, i)
  <2>1. RemoveFirst(z.has, i) \in Seq(Item)
    BY <1>4, RemovedOnce DEF Player
  <2> QED
    BY <1>3, <1>4, <2>1 DEF Player
<1>7. IsInjective(v.has) /\ ToSet(v.has) = ToSet(z.has) \ {i}
  BY <1>4, <1>6, RemovedOnce DEF Sound, Orderly, Player
<1>8. Orderly(v)
  BY <1>4, <1>5, <1>6, <1>7 DEF Sound, Orderly, OneWeapon
<1>9. Bits(v, X, Y)
  BY <1>4, <1>6, SameGiven DEF Sound, Bits
<1>10. SameOff(w, v)
  <2> SUFFICES ASSUME NEW l \in Loc PROVE Off(v, l) = Off(w, l)
    BY DEF SameOff
  <2>1. Off(v, l) = Off(z, l)
    BY <1>6 DEF Off
  <2>2. Off(z, l) = Off(u, l) - Amount(Gear[i], l) /\ Off(u, l) = Off(w, l) + Amount(Gear[i], l)
    BY <1>2, <1>4
  <2>3. Off(w, l) \in Int /\ Amount(Gear[i], l) \in Int
    BY <1>1, PlayerIs, GearIs, WeighIs
  <2> QED
    BY <2>1, <2>2, <2>3
<1>11. Less(w, v)
  BY <1>5, <1>6, <1>7 DEF Less
<1> QED
  BY <1>5, <1>6, <1>8, <1>9, <1>10, <1>11 DEF Sound

LEMMA WeakenedStays ==
  ASSUME NEW w \in Player
  PROVE  Weakened(w) \in Player
<1> DEFINE heavy == {i \in w.worn \cap Weapon : TooHeavy(w, i)}
<1>1. CASE heavy = {}
  BY <1>1 DEF Weakened
<1>2. CASE heavy # {}
  <2>1. (CHOOSE i \in heavy : TRUE) \in heavy
    BY <1>2
  <2>2. \A i \in heavy : i \in Item
    BY AffectsConstants
  <2>3. Weakened(w) = Dropped(w, CHOOSE i \in heavy : TRUE)
    BY <1>2 DEF Weakened
  <2> HIDE DEF heavy
  <2> QED
    BY <2>1, <2>2, <2>3, DroppedStays
<1> QED
  BY <1>1, <1>2

LEMMA Weakening ==
  ASSUME NEW w, NEW X, NEW Y, Sound(w, X, Y), NEW v, v = Weakened(w)
  PROVE  /\ Sound(v, X, Y) /\ Light(v) /\ Less(w, v) /\ SameOff(w, v)
         /\ Light(w) => v = w
<1> DEFINE heavy == {i \in w.worn \cap Weapon : TooHeavy(w, i)}
           i == CHOOSE j \in heavy : TRUE
<1>1. CASE heavy = {}
  <2>1. v = w
    BY <1>1 DEF Weakened
  <2>2. Light(w)
    BY <1>1 DEF Light
  <2> QED
    BY <2>1, <2>2 DEF Less, SameOff
<1>2. CASE heavy # {}
  <2>1. i \in heavy
    BY <1>2
  <2>2. v = Dropped(w, i)
    BY <1>2 DEF Weakened
  <2>3. i \in w.worn \cap Weapon /\ ~Light(w)
    BY <2>1 DEF Light
  <2> HIDE DEF i, heavy
  <2>4. Sound(v, X, Y) /\ v.worn = w.worn \ {i} /\ Less(w, v) /\ SameOff(w, v)
    BY <2>2, <2>3, Dropping
  <2>5. Light(v)
    BY <2>3, <2>4 DEF Light, Sound, Orderly, OneWeapon
  <2> QED
    BY <2>3, <2>4, <2>5
<1> QED
  BY <1>1, <1>2

\* affect_modify, one way and the other.
Puts(w, a) == affect_modify(w, a, TRUE)
Lifts(w, a) == affect_modify(w, a, FALSE)

LEMMA ModifyIs ==
  ASSUME NEW w, NEW a
  PROVE  /\ Puts(w, a) = [Weakened(More(w, a)) EXCEPT !.flags = @ \cup Innate]
         /\ Lifts(w, a) = [Weakened(Fewer(w, a)) EXCEPT !.flags = @ \cup Innate]
BY DEF Puts, Lifts, affect_modify, More, Fewer

LEMMA ModifyStays ==
  ASSUME NEW w \in Player, NEW a, IsAffect(a)
  PROVE  Puts(w, a) \in Player /\ Lifts(w, a) \in Player
<1>1. Weakened(More(w, a)) \in Player /\ Weakened(Fewer(w, a)) \in Player
  BY MoreIs, LessIs, WeakenedStays
<1>2. \A z \in Player : [z EXCEPT !.flags = @ \cup Innate] \in Player
  BY AffectsConstants DEF Player
<1> QED
  BY <1>1, <1>2, ModifyIs

LEMMA Putting ==
  ASSUME NEW w, NEW X, NEW Y, Sound(w, X, Y), NEW a, IsAffect(a), NEW v, v = Puts(w, a)
  PROVE  /\ Sound(v, X \cup {a.flag}, Y \ {a.flag}) /\ Light(v) /\ Less(w, v) /\ MoreOff(w, v, a)
         /\ Light(w) /\ a.loc # "STR" => v.worn = w.worn
<1> DEFINE m == More(w, a)
           z == Weakened(m)
<1>1. Sound(m, X \cup {a.flag}, Y \ {a.flag}) /\ Less(w, m) /\ MoreOff(w, m, a)
  BY Adding
<1>2. w \in Player /\ "STR" \in Loc
  BY DEF Sound, Orderly, Loc
<1>3. m.worn = w.worn /\ \A l \in Loc : m.mod[l] = w.mod[l] + Adds(a, l)
  BY <1>2, MoreIs
<1> HIDE DEF m
<1>4. /\ Sound(z, X \cup {a.flag}, Y \ {a.flag}) /\ Light(z) /\ Less(m, z) /\ SameOff(m, z)
      /\ Light(m) => z = m
  BY <1>1, Weakening
<1>5. v = [z EXCEPT !.flags = @ \cup Innate]
  BY ModifyIs DEF m
<1> HIDE DEF z
<1>6. Sound(v, X \cup {a.flag}, Y \ {a.flag}) /\ Light(v) /\ Less(z, v) /\ SameOff(z, v)
  BY <1>4, <1>5, Natural
<1>7. Less(w, v)
  BY <1>1, <1>4, <1>6, LessTwice
<1>8. MoreOff(w, v, a)
  BY <1>1, <1>4, <1>6 DEF MoreOff, SameOff
<1>9. ASSUME Light(w), a.loc # "STR" PROVE v.worn = w.worn
  <2>1. Adds(a, "STR") = 0 /\ w.mod["STR"] \in Int
    BY <1>2, <1>9, PlayerIs DEF Adds
  <2>2. m.mod["STR"] = w.mod["STR"]
    BY <1>2, <1>3, <2>1
  <2>3. Light(m)
    BY <1>3, <1>9, <2>2, SameLight
  <2>4. v.worn = z.worn
    BY <1>4, <1>5 DEF Sound, Orderly, Player
  <2> QED
    BY <1>3, <1>4, <2>3, <2>4
<1> QED
  BY <1>6, <1>7, <1>8, <1>9

LEMMA Lifting ==
  ASSUME NEW w, NEW X, NEW Y, Sound(w, X, Y), NEW a, IsAffect(a), NEW Z, X \subseteq Z \cup {a.flag},
         NEW v, v = Lifts(w, a)
  PROVE  Sound(v, Z, Y \cup {a.flag}) /\ Light(v) /\ Less(w, v) /\ LessOff(w, v, a)
<1> DEFINE m == Fewer(w, a)
           z == Weakened(m)
<1>1. Sound(m, Z, Y \cup {a.flag}) /\ Less(w, m) /\ LessOff(w, m, a)
  BY Taking
<1> HIDE DEF m
<1>2. Sound(z, Z, Y \cup {a.flag}) /\ Light(z) /\ Less(m, z) /\ SameOff(m, z)
  BY <1>1, Weakening
<1>3. v = [z EXCEPT !.flags = @ \cup Innate]
  BY ModifyIs DEF m
<1> HIDE DEF z
<1>4. Sound(v, Z, Y \cup {a.flag}) /\ Light(v) /\ Less(z, v) /\ SameOff(z, v)
  BY <1>2, <1>3, Natural
<1>5. Less(w, v)
  BY <1>1, <1>2, <1>4, LessTwice
<1>6. LessOff(w, v, a)
  BY <1>1, <1>2, <1>4 DEF LessOff, SameOff
<1> QED
  BY <1>4, <1>5, <1>6

----------------------------------------------------------------------------
\* Gear comes off and goes on.

\* The turns of unequip_char.
ItemUndo == [a \in ItemAffect |-> [v \in Player |-> affect_check(affect_modify(v, a, FALSE), a.flag)]]
Lights == {v \in Player : Light(v)}

LEMMA ItemTurn ==
  ASSUME NEW a \in ItemAffect, NEW v \in Player
  PROVE  /\ ItemUndo[a][v] = affect_check(Lifts(v, a), a.flag)
         /\ IsAffect(a) /\ a.flag \in Flag \cup {None} /\ Lifts(v, a) \in Player
         /\ ItemUndo[a][v] \in Player
<1>1. ItemUndo[a][v] = affect_check(Lifts(v, a), a.flag)
  BY DEF ItemUndo, Lifts
<1>2. IsAffect(a) /\ a.flag \in Flag \cup {None}
  BY DEF IsAffect, ItemAffect
<1>3. Lifts(v, a) \in Player
  BY <1>2, ModifyStays
<1> QED
  BY <1>1, <1>2, <1>3, CheckedIs

LEMMA ItemUndoes ==
  Undoer(ItemUndo, Lights)
<1>1. Closes(ItemAffect, Player, ItemUndo)
  BY ItemTurn DEF Closes
<1>2. ASSUME NEW a \in ItemAffect, NEW v \in Lights, NEW X, NEW Z, NEW Y, Sound(v, X, Y), X \subseteq Z \cup {a.flag},
             NEW w, w = ItemUndo[a][v]
      PROVE  w \in Lights /\ Sound(w, Z, Y) /\ Less(v, w) /\ LessOff(v, w, a)
  <2> DEFINE m == Lifts(v, a)
  <2>1. /\ w = affect_check(m, a.flag) /\ IsAffect(a) /\ a.flag \in Flag \cup {None} /\ m \in Player /\ w \in Player
    BY <1>2, ItemTurn DEF Lights
  <2>2. Sound(m, Z, Y \cup {a.flag}) /\ Light(m) /\ Less(v, m) /\ LessOff(v, m, a)
    BY <1>2, <2>1, Lifting
  <2> HIDE DEF m
  <2>3. Sound(w, Z, Y) /\ Less(m, w) /\ SameOff(m, w) /\ Light(w)
    BY <2>1, <2>2, Checking
  <2>4. Less(v, w)
    BY <2>2, <2>3, LessTwice
  <2>5. LessOff(v, w, a)
    BY <2>2, <2>3 DEF LessOff, SameOff
  <2> QED
    BY <2>1, <2>3, <2>4, <2>5 DEF Lights
<1> QED
  BY <1>1, <1>2 DEF Undoer, Undoes, Lights

\* What i did, once it is off.
LEMMA Unwearing ==
  ASSUME NEW i \in Item, NEW X, NEW Z, Sheds(X, i, Z), NEW Y, NEW u, Sound(u, X, Y), Light(u),
         NEW v, v = Through(Gear[i], u, ItemUndo)
  PROVE  /\ Sound(v, Z, Y) /\ Light(v) /\ Less(u, v)
         /\ \A l \in Loc : Off(v, l) = Off(u, l) - Amount(Gear[i], l)
<1>1. Undoer(ItemUndo, Lights) /\ u \in Lights
  BY ItemUndoes DEF Lights, Sound, Orderly
<1>2. /\ v \in Lights /\ Sound(v, Z, Y) /\ Less(u, v)
      /\ \A l \in Loc : Off(v, l) = Off(u, l) - Amount(Gear[i], l)
  BY <1>1, Undoing
<1> QED
  BY <1>2 DEF Lights

LEMMA UnequipIs ==
  ASSUME NEW w, NEW i
  PROVE  unequip_char(w, i) = Through(Gear[i], [w EXCEPT !.worn = @ \ {i}], ItemUndo)
BY DEF unequip_char, ItemUndo

\* Nothing else changes by it.
LEMMA Unequipping ==
  ASSUME NEW w, NEW X, NEW Y, Sound(w, X, Y), Light(w), NEW i \in w.worn, NEW v, v = unequip_char(w, i)
  PROVE  /\ Sound(v, X, Y) /\ Light(v) /\ SameOff(w, v)
         /\ v.affected = w.affected /\ v.worn \subseteq w.worn \ {i} /\ w.worn \ v.worn \subseteq Weapon \cup {i}
         /\ ToSet(v.has) \subseteq ToSet(w.has) /\ ToSet(w.has) \ ToSet(v.has) \subseteq w.worn
<1> DEFINE u == [w EXCEPT !.worn = @ \ {i}]
           X1 == X \cup Flags(i)
<1>0. w \in Player /\ i \in Item
  BY DEF Sound, Orderly, Player
<1>1. /\ u.worn = w.worn \ {i} /\ u.affected = w.affected /\ u.has = w.has /\ u.mod = w.mod /\ u \in Player
      /\ Sound(u, X1, Y)
      /\ \A l \in Loc : Off(u, l) = Off(w, l) + Amount(Gear[i], l)
  BY TakenOff
<1>2. v = Through(Gear[i], u, ItemUndo) /\ Sheds(X1, i, X)
  BY UnequipIs DEF Sheds
<1>3. Light(u)
  BY <1>1, SameLight
<1> HIDE DEF u, X1
<1>4. /\ Sound(v, X, Y) /\ Light(v) /\ Less(u, v)
      /\ \A l \in Loc : Off(v, l) = Off(u, l) - Amount(Gear[i], l)
  BY <1>0, <1>1, <1>2, <1>3, Unwearing
<1>5. SameOff(w, v)
  <2> SUFFICES ASSUME NEW l \in Loc PROVE Off(v, l) = Off(w, l)
    BY DEF SameOff
  <2>1. Off(v, l) = Off(u, l) - Amount(Gear[i], l) /\ Off(u, l) = Off(w, l) + Amount(Gear[i], l)
    BY <1>1, <1>4
  <2>2. Off(w, l) \in Int /\ Amount(Gear[i], l) \in Int
    BY <1>0, PlayerIs, GearIs, WeighIs
  <2> QED
    BY <2>1, <2>2
<1> QED
  BY <1>1, <1>4, <1>5 DEF Less

\* The turns of equip_char.
ItemPut == [a \in ItemAffect |-> [v \in Player |-> affect_modify(v, a, TRUE)]]

\* The flags of the affects after the k-th.
Missing(s, k) == {s[j].flag : j \in k + 1 .. Len(s)}

AllMoreOff(u, v, s, k) == \A l \in Loc : Off(v, l) = Off(u, l) + Part(s, k, l)

\* The players after k turns from u that put i on.
Wearers(X, u, i, k) ==
  {w \in Player : /\ Sound(w, X, Missing(Gear[i], k)) /\ Light(w) /\ Less(u, w) /\ i \in w.worn
                  /\ AllMoreOff(u, w, Gear[i], k)}

LEMMA WornOnce ==
  ASSUME SteadyWeapons, NEW i \in Item, NEW X, NEW u \in Player, NEW k \in 1 .. Len(Gear[i]),
         NEW v \in Wearers(X, u, i, k - 1)
  PROVE  ItemPut[Gear[i][k]][v] \in Wearers(X, u, i, k)
<1> DEFINE s == Gear[i]
           a == Gear[i][k]
           w == ItemPut[a][v]
           Y == Missing(s, k - 1)
<1>0. /\ v \in Player /\ Sound(v, X, Y) /\ Light(v) /\ Less(u, v) /\ i \in v.worn /\ AllMoreOff(u, v, s, k - 1)
  BY DEF Wearers
<1>1. /\ Len(s) \in Nat /\ a \in ItemAffect /\ IsList(s) /\ DOMAIN s = 1 .. Len(s) /\ k \in DOMAIN s
      /\ k - 1 \in 0 .. Len(s) /\ k \in 0 .. Len(s)
  BY GearIs
<1>2. IsAffect(a)
  BY <1>1, AffectsAre
<1>3. w = Puts(v, a)
  BY <1>0, <1>1 DEF ItemPut, Puts
<1>4. a.flag \in Flags(i) /\ Y \ {a.flag} \subseteq Missing(s, k)
  BY <1>1 DEF Flags, Missing
<1>5. i \in Weapon => a.loc # "STR"
  BY <1>1 DEF SteadyWeapons
<1> HIDE DEF s, a, w, Y
<1>6. /\ Sound(w, X \cup {a.flag}, Y \ {a.flag}) /\ Light(w) /\ Less(v, w) /\ MoreOff(v, w, a)
      /\ Light(v) /\ a.loc # "STR" => w.worn = v.worn
  BY <1>0, <1>2, <1>3, Putting
<1>7. i \in w.worn
  BY <1>0, <1>5, <1>6 DEF Less
<1>8. Sound(w, X, Y \ {a.flag})
  <2>1. a.flag \in Given(w)
    BY <1>4, <1>7 DEF Given, Flags
  <2>2. X \cup {a.flag} \subseteq X \cup Given(w) \cup {None}
    BY <2>1
  <2> QED
    BY <1>6, <2>2, Explained
<1>9. Sound(w, X, Missing(s, k))
  BY <1>4, <1>8 DEF Sound, Bits
<1>10. AllMoreOff(u, w, s, k)
  <2> SUFFICES ASSUME NEW l \in Loc PROVE Off(w, l) = Off(u, l) + Part(s, k, l)
    BY DEF AllMoreOff
  <2>1. /\ Part(s, k - 1, l) \in Int /\ Part(s, k, l) \in Int /\ Adds(a, l) \in Int
        /\ Part(s, k, l) = Part(s, k - 1, l) + Adds(a, l)
    BY <1>1, PartIs DEF s, a
  <2>2. Off(u, l) \in Int /\ Off(v, l) \in Int
    BY <1>0, PlayerIs
  <2>3. Off(w, l) = Off(v, l) + Adds(a, l) /\ Off(v, l) = Off(u, l) + Part(s, k - 1, l)
    BY <1>0, <1>6 DEF MoreOff, AllMoreOff
  <2> QED
    BY <2>1, <2>2, <2>3
<1>11. Less(u, w)
  BY <1>0, <1>6, LessTwice
<1>12. w \in Player
  BY <1>9 DEF Sound, Orderly
<1> QED
  BY <1>6, <1>7, <1>9, <1>10, <1>11, <1>12 DEF Wearers, s, a, w

\* Whoever may bear i wears it after equip_char.
Bears(w, i) == i \in Weapon => w.worn \cap Weapon = {} /\ ~TooHeavy(w, i)

LEMMA PutOn ==
  ASSUME NEW w, NEW X, Sound(w, X, {}), Light(w), NEW i \in Item \ w.worn, i \in ToSet(w.has), Bears(w, i),
         NEW u, u = [w EXCEPT !.worn = @ \cup {i}]
  PROVE  /\ u.worn = w.worn \cup {i} /\ u.affected = w.affected /\ u.has = w.has /\ u.mod = w.mod /\ u \in Player
         /\ Sound(u, X, Flags(i)) /\ Light(u)
         /\ \A l \in Loc : Off(u, l) = Off(w, l) - Amount(Gear[i], l)
<1>1. w \in Player /\ i \in Item
  BY DEF Sound, Orderly
<1>2. /\ u \in Player /\ u.affected = w.affected /\ u.worn = w.worn \cup {i} /\ u.has = w.has /\ u.mod = w.mod
      /\ u.flags = w.flags
  BY <1>1 DEF Player
<1>3. Orderly(u)
  BY <1>2 DEF Sound, Orderly, OneWeapon, Bears
<1>4. Given(u) = Given(w) \cup Flags(i)
  BY <1>2 DEF Given, Flags
<1>5. Bits(u, X, Flags(i))
  BY <1>2, <1>4 DEF Sound, Bits
<1>6. ASSUME NEW l \in Loc PROVE Off(u, l) = Off(w, l) - Amount(Gear[i], l)
  <2>1. /\ w.mod[l] \in Int /\ Amount(w.affected, l) \in Int /\ OfGear(w.worn, l) \in Int /\ OfGear(u.worn, l) \in Int
    BY <1>1, <1>2, PlayerIs
  <2>2. u.worn \in SUBSET Item /\ i \in u.worn /\ u.worn \ {i} = w.worn
    BY <1>1, <1>2 DEF Player
  <2>3. OfGear(u.worn, l) = OfGear(w.worn, l) + Amount(Gear[i], l) /\ Amount(Gear[i], l) \in Int
    <3> DEFINE worn == u.worn
    <3>1. worn \in SUBSET Item /\ i \in worn /\ worn \ {i} = w.worn
      BY <2>2
    <3> HIDE DEF worn
    <3>2. OfGear(worn, l) = OfGear(worn \ {i}, l) + Amount(Gear[i], l)
      BY <3>1, WornLess
    <3>3. Amount(Gear[i], l) \in Int
      BY <1>1, GearIs, WeighIs
    <3> QED
      BY <3>1, <3>2, <3>3 DEF worn
  <2> DEFINE p == OfGear(w.worn, l)
             q == OfGear(u.worn, l)
             d == Amount(Gear[i], l)
             m == w.mod[l]
             n == Amount(w.affected, l)
  <2>4. Off(u, l) = m - n - q /\ Off(w, l) = m - n - p
    BY <1>2 DEF Off
  <2>5. p \in Int /\ q \in Int /\ d \in Int /\ m \in Int /\ n \in Int /\ q = p + d
    BY <2>1, <2>3
  <2> HIDE DEF p, q, d, m, n
  <2>6. m - n - q = m - n - p - d
    BY <2>5
  <2> QED
    BY <2>4, <2>6 DEF d
<1>7. Light(u)
  BY <1>2 DEF Light, TooHeavy, Strength, Bears
<1> QED
  BY <1>2, <1>3, <1>5, <1>6, <1>7 DEF Sound

LEMMA Equipping ==
  ASSUME SteadyWeapons, NEW w, NEW X, Sound(w, X, {}), Light(w), NEW i \in Item \ w.worn,
         i \in ToSet(w.has), Bears(w, i), NEW v, v = equip_char(w, i)
  PROVE  /\ Sound(v, X, {}) /\ Light(v) /\ SameOff(w, v) /\ i \in v.worn
         /\ v.affected = w.affected /\ v.worn \subseteq w.worn \cup {i} /\ w.worn \ v.worn \subseteq Weapon
         /\ ToSet(v.has) \subseteq ToSet(w.has)
<1> DEFINE u == [w EXCEPT !.worn = @ \cup {i}]
           s == Gear[i]
           G == [k \in 0 .. Len(s) |-> Wearers(X, u, i, k)]
<1>0. w \in Player /\ i \in Item
  BY DEF Sound, Orderly
<1>1. /\ u.worn = w.worn \cup {i} /\ u.affected = w.affected /\ u.has = w.has /\ u.mod = w.mod /\ u \in Player
      /\ Sound(u, X, Flags(i)) /\ Light(u)
      /\ \A l \in Loc : Off(u, l) = Off(w, l) - Amount(Gear[i], l)
  BY PutOn
<1>2. v = Through(s, u, ItemPut)
  BY DEF equip_char, ItemPut
<1>3. s \in Seq(ItemAffect) /\ IsList(s) /\ Len(s) \in Nat /\ DOMAIN s = 1 .. Len(s)
  BY <1>0, GearIs
<1>4. Closes(ItemAffect, Player, ItemPut)
  <2> SUFFICES ASSUME NEW a \in ItemAffect, NEW z \in Player PROVE ItemPut[a][z] \in Player
    BY DEF Closes
  <2>1. ItemPut[a][z] = Puts(z, a)
    BY DEF ItemPut, Puts
  <2> QED
    BY <2>1, AffectsAre, ModifyStays
<1> HIDE DEF u
<1>5. u \in G[0]
  <2>1. Missing(Gear[i], 0) = Flags(i)
    BY <1>3 DEF Missing, Flags
  <2>2. Less(u, u) /\ i \in u.worn
    BY <1>1 DEF Less
  <2>3. AllMoreOff(u, u, Gear[i], 0)
    <3>1. \A l \in Loc : Off(u, l) \in Int /\ Part(Gear[i], 0, l) = 0
      BY <1>1, <1>3, PartIs, PlayerIs
    <3> QED
      BY <3>1 DEF AllMoreOff
  <2>4. u \in Wearers(X, u, i, 0)
    BY <1>1, <2>1, <2>2, <2>3 DEF Wearers
  <2>5. 0 \in 0 .. Len(s)
    BY <1>3
  <2> QED
    BY <2>4, <2>5
<1>6. Passes(s, G, ItemPut)
  <2> SUFFICES ASSUME NEW k \in 1 .. Len(s), NEW z \in G[k - 1] PROVE ItemPut[s[k]][z] \in G[k]
    BY DEF Passes
  <2>1. k \in 0 .. Len(s) /\ k - 1 \in 0 .. Len(s)
    BY <1>3
  <2>2. z \in Wearers(X, u, i, k - 1)
    BY <2>1
  <2> HIDE DEF G
  <2>3. ItemPut[Gear[i][k]][z] \in Wearers(X, u, i, k)
    BY <1>0, <1>1, <2>2, WornOnce
  <2> QED
    BY <2>1, <2>3 DEF G
<1> HIDE DEF G
<1>7. v \in G[Len(s)]
  BY <1>1, <1>2, <1>3, <1>4, <1>5, <1>6, ThroughArrives
<1>8. /\ v \in Player /\ Sound(v, X, Missing(s, Len(s))) /\ Light(v) /\ Less(u, v) /\ i \in v.worn
      /\ AllMoreOff(u, v, s, Len(s))
  BY <1>3, <1>7 DEF G, Wearers
<1>9. Missing(s, Len(s)) = {}
  BY <1>3 DEF Missing
<1>10. SameOff(w, v)
  <2> SUFFICES ASSUME NEW l \in Loc PROVE Off(v, l) = Off(w, l)
    BY DEF SameOff
  <2>1. Off(v, l) = Off(u, l) + Part(s, Len(s), l) /\ Off(u, l) = Off(w, l) - Amount(s, l)
    BY <1>1, <1>8 DEF AllMoreOff
  <2>2. Off(w, l) \in Int /\ Amount(s, l) \in Int /\ Part(s, Len(s), l) = Amount(s, l)
    BY <1>0, <1>3, PlayerIs, WeighIs, PartIs
  <2> QED
    BY <2>1, <2>2
<1> QED
  BY <1>1, <1>8, <1>9, <1>10 DEF Less

----------------------------------------------------------------------------
\* The list grows and shrinks.

\* In step but for what is in hand, and as far off as said.
LEMMA Giving ==
  ASSUME NEW w, Good(w), NEW a \in SpellAffect, Proper(a), NEW v, v = affect_to_char(w, a)
  PROVE  Good(v)
<1> DEFINE u == [w EXCEPT !.affected = <<a>> \o @]
<1>1. w \in Player /\ Orderly(w) /\ Bits(w, {}, {}) /\ Exact(w)
  BY DEF Good, Sound, Orderly
<1>2. w.affected \in Seq(SpellAffect)
  BY <1>1 DEF Player
<1>3. <<a>> \o w.affected \in Seq(SpellAffect)
  BY <1>2
<1>4. /\ u \in Player /\ u.affected = <<a>> \o w.affected /\ u.worn = w.worn /\ u.has = w.has
      /\ u.mod = w.mod /\ u.flags = w.flags
  BY <1>1, <1>3 DEF Player
<1>5. v = Puts(u, a)
  BY DEF affect_to_char, Puts
<1>6. /\ DOMAIN u.affected = 1 .. Len(w.affected) + 1 /\ u.affected[1] = a
      /\ \A j \in 1 .. Len(w.affected) : u.affected[j + 1] = w.affected[j]
      /\ \A j \in 1 .. Len(w.affected) + 1 : j # 1 => u.affected[j] = w.affected[j - 1]
      /\ Len(w.affected) \in Nat /\ DOMAIN w.affected = 1 .. Len(w.affected)
  BY <1>2, <1>4
<1> HIDE DEF u
<1>7. \A j \in DOMAIN u.affected : u.affected[j] = a \/ \E k \in DOMAIN w.affected : u.affected[j] = w.affected[k]
  <2> SUFFICES ASSUME NEW j \in DOMAIN u.affected, j # 1
               PROVE  \E k \in DOMAIN w.affected : u.affected[j] = w.affected[k]
    BY <1>6
  <2>1. j - 1 \in DOMAIN w.affected /\ u.affected[j] = w.affected[j - 1]
    BY <1>6
  <2> QED
    BY <2>1
<1>8. \A k \in DOMAIN w.affected : \E j \in DOMAIN u.affected : u.affected[j] = w.affected[k]
  <2> SUFFICES ASSUME NEW k \in DOMAIN w.affected PROVE \E j \in DOMAIN u.affected : u.affected[j] = w.affected[k]
    OBVIOUS
  <2>1. k + 1 \in DOMAIN u.affected /\ u.affected[k + 1] = w.affected[k]
    BY <1>6
  <2> QED
    BY <2>1
<1>9. 1 \in DOMAIN u.affected /\ u.affected[1] = a
  BY <1>6
<1>10. Orderly(u)
  BY <1>1, <1>4, <1>7 DEF Orderly, OneWeapon
<1>11. Given(u) = Given(w) \cup {a.flag}
  BY <1>4, <1>7, <1>8, <1>9 DEF Given
<1>12. Bits(u, {}, {a.flag})
  BY <1>1, <1>4, <1>11 DEF Bits
<1>13. IsAffect(a) /\ \A l : Adds(a, l) \in Int
  BY AffectsAre
<1>14. ASSUME NEW l \in Loc PROVE Off(u, l) = 0 - Adds(a, l)
  <2>1. /\ w.mod[l] \in Int /\ Amount(w.affected, l) \in Int /\ OfGear(w.worn, l) \in Int
        /\ w.mod[l] - Amount(w.affected, l) - OfGear(w.worn, l) = 0
    BY <1>1, PlayerIs DEF Exact, Off
  <2>2. Amount(u.affected, l) = Amount(w.affected, l) + Adds(a, l)
    BY <1>2, <1>4, AmountPrepended
  <2>3. Off(u, l) = w.mod[l] - Amount(u.affected, l) - OfGear(w.worn, l)
    BY <1>4 DEF Off
  <2> QED
    BY <1>13, <2>1, <2>2, <2>3
<1>15. Sound(u, {}, {a.flag})
  BY <1>10, <1>12 DEF Sound
<1>16. Sound(v, {} \cup {a.flag}, {a.flag} \ {a.flag}) /\ Light(v) /\ Less(u, v) /\ MoreOff(u, v, a)
  BY <1>5, <1>13, <1>15, Putting
<1>17. a.flag \in Given(v)
  BY <1>9, <1>16 DEF Less, Given
<1>18. Sound(v, {}, {})
  <2>1. {} \cup {a.flag} \subseteq {} \cup Given(v) \cup {None} /\ {a.flag} \ {a.flag} = {}
    BY <1>17
  <2>2. Sound(v, {}, {a.flag} \ {a.flag})
    BY <1>16, <2>1, Explained
  <2> QED
    BY <2>1, <2>2
<1>19. Exact(v)
  BY <1>13, <1>14, <1>16 DEF Exact, MoreOff
<1> QED
  BY <1>16, <1>18, <1>19 DEF Good

\* One affect less in the list.
LEMMA Unlisted ==
  ASSUME NEW w \in Player, NEW k \in DOMAIN w.affected, NEW v, v = [w EXCEPT !.affected = Without(w.affected, k)]
  PROVE  /\ v \in Player /\ v.affected = Without(w.affected, k) /\ v.worn = w.worn /\ v.has = w.has
         /\ v.mod = w.mod /\ v.flags = w.flags
         /\ Given(v) \subseteq Given(w) /\ Given(w) \subseteq Given(v) \cup {w.affected[k].flag}
         /\ \A l \in Loc : Off(v, l) = Off(w, l) + Adds(w.affected[k], l)
         /\ Orderly(w) => Orderly(v)
<1> DEFINE s == w.affected
           t == Without(s, k)
<1>1. s \in Seq(SpellAffect) /\ Len(s) \in Nat /\ DOMAIN s = 1 .. Len(s) /\ k \in 1 .. Len(s)
  BY PlayerIs
<1>2. /\ DOMAIN t = 1 .. Len(s) - 1
      /\ \A j \in 1 .. Len(s) - 1 : t[j] = IF j < k THEN s[j] ELSE s[j + 1]
  BY DEF Without
<1>3. t \in Seq(SpellAffect)
  <2>1. \A j \in 1 .. Len(s) : s[j] \in SpellAffect
    BY <1>1
  <2>2. Len(s) - 1 \in Nat
    BY <1>1
  <2>3. \A j \in 1 .. Len(s) - 1 : (IF j < k THEN s[j] ELSE s[j + 1]) \in SpellAffect
    BY <1>1, <2>1
  <2> QED
    BY <2>2, <2>3 DEF Without
<1>4. /\ v \in Player /\ v.affected = t /\ v.worn = w.worn /\ v.has = w.has /\ v.mod = w.mod /\ v.flags = w.flags
  BY <1>3 DEF Player
<1> HIDE DEF s, t
<1>5. \A j \in DOMAIN t : \E m \in DOMAIN s : t[j] = s[m]
  <2> SUFFICES ASSUME NEW j \in 1 .. Len(s) - 1 PROVE \E m \in 1 .. Len(s) : t[j] = s[m]
    BY <1>1, <1>2
  <2>1. j \in 1 .. Len(s) /\ j + 1 \in 1 .. Len(s)
    BY <1>1
  <2> QED
    BY <1>2, <2>1
<1>6. \A m \in DOMAIN s : m # k => \E j \in DOMAIN t : t[j] = s[m]
  <2> SUFFICES ASSUME NEW m \in 1 .. Len(s), m # k PROVE \E j \in 1 .. Len(s) - 1 : t[j] = s[m]
    BY <1>1, <1>2
  <2>1. CASE m < k
    <3>1. m \in 1 .. Len(s) - 1
      BY <1>1, <2>1
    <3> QED
      BY <1>2, <2>1, <3>1
  <2>2. CASE ~(m < k)
    <3>1. m - 1 \in 1 .. Len(s) - 1 /\ ~(m - 1 < k) /\ m - 1 + 1 = m
      BY <1>1, <2>2
    <3> QED
      BY <1>2, <3>1
  <2> QED
    BY <2>1, <2>2
<1>7. Given(v) \subseteq Given(w) /\ Given(w) \subseteq Given(v) \cup {s[k].flag}
  BY <1>4, <1>5, <1>6 DEF Given, s
<1>8. ASSUME NEW l \in Loc PROVE Off(v, l) = Off(w, l) + Adds(s[k], l)
  <2>1. IsShorter(s, t, k) /\ IsList(s) /\ IsList(t)
    BY <1>1, <1>2, <1>3, ListsAre DEF IsShorter
  <2>2. Amount(s, l) = Amount(t, l) + Adds(s[k], l) /\ Amount(s, l) \in Int /\ Amount(t, l) \in Int
    BY <2>1, AmountShorter, WeighIs
  <2>3. w.mod[l] \in Int /\ OfGear(w.worn, l) \in Int
    BY PlayerIs
  <2>4. Adds(s[k], l) \in Int
    BY <1>1, AffectsAre
  <2>5. Off(v, l) = w.mod[l] - Amount(t, l) - OfGear(w.worn, l) /\ Off(w, l) = w.mod[l] - Amount(s, l) - OfGear(w.worn, l)
    BY <1>4 DEF Off, s
  <2> QED
    BY <2>2, <2>3, <2>4, <2>5
<1>9. Orderly(w) => Orderly(v)
  <2> SUFFICES ASSUME Orderly(w) PROVE Orderly(v)
    OBVIOUS
  <2>1. \A m \in DOMAIN s : Proper(s[m])
    BY DEF Orderly, s
  <2>2. \A j \in DOMAIN t : Proper(t[j])
    BY <1>5, <2>1
  <2> QED
    BY <1>4, <2>2 DEF Orderly, OneWeapon
<1> QED
  BY <1>4, <1>7, <1>8, <1>9 DEF s, t

\* More strength carries as much.
LEMMA Stronger ==
  ASSUME NEW w \in Player, NEW v \in Player, v.worn = w.worn, v.mod["STR"] >= w.mod["STR"], Light(w)
  PROVE  Light(v)
<1>1. v.mod["STR"] \in Int /\ w.mod["STR"] \in Int
  BY DEF Player, Loc
<1>2. Strength(v) >= Strength(w) /\ Strength(v) \in Int /\ Strength(w) \in Int
  BY <1>1, AffectsConstants DEF Strength
<1>3. \A i \in Weapon : Need[i] \in Int
  BY AffectsConstants
<1> QED
  BY <1>2, <1>3 DEF Light, TooHeavy

\* What has a flag is taken away from nobody who drops something for it.
LEMMA Unflagging ==
  ASSUME NEW w \in Player, Light(w), NEW X, NEW Y, Sound(w, X, Y), NEW a, IsAffect(a), a.loc = "STR" => a.mod <= 0
  PROVE  Lifts(w, a).flags = Innate \cup (w.flags \ {a.flag})
<1> DEFINE m == Fewer(w, a)
<1>1. /\ m \in Player /\ m.worn = w.worn /\ \A l \in Loc : m.mod[l] = w.mod[l] - Adds(a, l)
      /\ m.flags = Innate \cup (w.flags \ {a.flag})
  BY LessIs
<1>2. Sound(m, X, Y \cup {a.flag})
  <2>1. X \subseteq X \cup {a.flag}
    OBVIOUS
  <2> QED
    BY <2>1, Taking
<1> HIDE DEF m
<1>3. m.mod["STR"] >= w.mod["STR"]
  <2>1. "STR" \in Loc /\ w.mod["STR"] \in Int /\ Adds(a, "STR") \in Int /\ Adds(a, "STR") <= 0
    BY DEF Loc, Adds, IsAffect, Player
  <2> QED
    BY <1>1, <2>1
<1>4. Light(m)
  BY <1>1, <1>3, Stronger
<1>5. Weakened(m) = m
  BY <1>2, <1>4, Weakening
<1>6. Lifts(w, a) = [m EXCEPT !.flags = @ \cup Innate]
  BY <1>5, ModifyIs DEF m
<1> QED
  BY <1>1, <1>6 DEF Player

LEMMA Removing ==
  ASSUME NEW w, Good(w), NEW k \in DOMAIN w.affected,
         \A j \in 1 .. k - 1 : w.affected[j] # w.affected[k], NEW v, v = affect_remove(w, w.affected[k])
  PROVE  Good(v) /\ v.affected = Without(w.affected, k)
<1> DEFINE a == w.affected[k]
           m == Lifts(w, a)
           t == [m EXCEPT !.affected = Without(m.affected, k)]
<1>1. w \in Player /\ Sound(w, {}, {}) /\ Light(w) /\ Exact(w)
  BY DEF Good, Sound, Orderly
<1>2. IsAffect(a) /\ Proper(a) /\ a.flag \in Flag \cup {None}
  BY <1>1, PlayerIs DEF Sound, Orderly, IsAffect
<1>3. Sound(m, {}, {} \cup {a.flag}) /\ Light(m) /\ Less(w, m) /\ LessOff(w, m, a)
  <2>1. {} \subseteq {} \cup {a.flag}
    OBVIOUS
  <2> QED
    BY <1>1, <1>2, <2>1, Lifting
<1>4. a.flag # None => m.flags = Innate \cup (w.flags \ {a.flag})
  BY <1>1, <1>2, Unflagging DEF Proper
<1>5. m \in Player /\ m.affected = w.affected
  BY <1>3 DEF Sound, Orderly, Less
<1>6. v = affect_check(t, a.flag)
  <2>1. w.affected \in Seq(SpellAffect)
    BY <1>1 DEF Player
  <2>2. RemoveFirst(w.affected, a) = Without(w.affected, k)
    BY <2>1, RemovedIsFirst
  <2> QED
    BY <1>5, <2>2 DEF affect_remove, Lifts
<1>7. a = m.affected[k] /\ k \in DOMAIN m.affected
  BY <1>5
<1> HIDE DEF m
<1>8. /\ t \in Player /\ t.affected = Without(m.affected, k) /\ t.worn = m.worn /\ t.has = m.has
      /\ t.mod = m.mod /\ t.flags = m.flags
      /\ Given(t) \subseteq Given(m) /\ Given(m) \subseteq Given(t) \cup {a.flag}
      /\ \A l \in Loc : Off(t, l) = Off(m, l) + Adds(a, l)
      /\ Orderly(m) => Orderly(t)
  BY <1>5, <1>7, Unlisted
<1> HIDE DEF a, t
<1>9. Bits(t, {}, {} \cup {a.flag})
  <2>1. None \notin m.flags
    BY <1>5, AffectsConstants DEF Player
  <2>2. m.flags \subseteq Innate \cup Given(m) \cup {Aff("hide")} /\ (Given(m) \cap Binding) \ {a.flag} \subseteq m.flags
    BY <1>3 DEF Sound, Bits
  <2>3. a.flag \in m.flags => a.flag \in Innate
    BY <1>4, <2>1
  <2> QED
    BY <1>8, <2>2, <2>3 DEF Bits
<1>10. Sound(t, {}, {} \cup {a.flag})
  BY <1>3, <1>8, <1>9 DEF Sound
<1>11. Light(t)
  BY <1>3, <1>8, SameLight
<1>12. Sound(v, {}, {}) /\ Less(t, v) /\ SameOff(t, v) /\ Light(v)
  BY <1>2, <1>6, <1>10, <1>11, Checking
<1>13. Exact(v)
  <2> SUFFICES ASSUME NEW l \in Loc PROVE Off(v, l) = 0
    BY DEF Exact
  <2>1. Adds(a, l) \in Int
    BY <1>2 DEF Adds, IsAffect
  <2>2. Off(v, l) = Off(m, l) + Adds(a, l) /\ Off(m, l) = 0 - Adds(a, l)
    BY <1>1, <1>3, <1>8, <1>12 DEF Exact, SameOff, LessOff
  <2> QED
    BY <2>1, <2>2
<1> QED
  BY <1>5, <1>8, <1>12, <1>13 DEF Good, Less

\* The turns of affect_strip.
StripTurn(skill) ==
  [a \in SpellAffect |-> [v \in Player |-> IF a.skill = skill THEN affect_remove(v, a) ELSE v]]

\* After k turns the list s is what is left of the first k affects of L, m of
\* them, and the rest.
Split(s, L, skill, k, m) ==
  /\ Len(s) = Len(L) - k + m
  /\ \A j \in 1 .. m : s[j].skill # skill
  /\ \A j \in 1 .. Len(L) - k : s[m + j] = L[k + j]

Strippers(L, skill, k) == {v \in Player : Good(v) /\ \E m \in 0 .. k : Split(v.affected, L, skill, k, m)}

LEMMA StrippedOnce ==
  ASSUME NEW L \in Seq(SpellAffect), NEW skill, NEW k \in 1 .. Len(L), NEW v \in Strippers(L, skill, k - 1)
  PROVE  StripTurn(skill)[L[k]][v] \in Strippers(L, skill, k)
<1> DEFINE a == L[k]
           s == v.affected
           w == StripTurn(skill)[L[k]][v]
<1>1. /\ v \in Player /\ Good(v) /\ Len(s) \in Nat /\ DOMAIN s = 1 .. Len(s) /\ s \in Seq(SpellAffect)
      /\ Len(L) \in Nat /\ a \in SpellAffect
  BY PlayerIs DEF Strippers
<1>2. PICK m \in 0 .. k - 1 : Split(s, L, skill, k - 1, m)
  BY DEF Strippers
<1>3. /\ Len(s) = Len(L) - (k - 1) + m
      /\ \A j \in 1 .. m : s[j].skill # skill
      /\ \A j \in 1 .. Len(L) - (k - 1) : s[m + j] = L[k - 1 + j]
  BY <1>2 DEF Split
<1>4. m + 1 \in DOMAIN s /\ s[m + 1] = a
  <2>1. 1 \in 1 .. Len(L) - (k - 1) /\ k - 1 + 1 = k
    BY <1>1
  <2> QED
    BY <1>1, <1>3, <2>1
<1>5. ASSUME NEW j \in 1 .. Len(L) - k PROVE s[m + 1 + j] = L[k + j]
  <2>1. j + 1 \in 1 .. Len(L) - (k - 1) /\ k - 1 + (j + 1) = k + j /\ m + (j + 1) = m + 1 + j
    BY <1>1, <1>2
  <2> QED
    BY <1>3, <2>1
<1>6. w = IF a.skill = skill THEN affect_remove(v, a) ELSE v
  BY <1>1 DEF StripTurn
<1> HIDE DEF a, w
<1>7. CASE a.skill # skill
  <2>1. Split(s, L, skill, k, m + 1)
    <3>1. Len(s) = Len(L) - k + (m + 1)
      BY <1>1, <1>2, <1>3
    <3>2. \A j \in 1 .. m + 1 : s[j].skill # skill
      BY <1>2, <1>3, <1>4, <1>7
    <3> QED
      BY <1>5, <3>1, <3>2 DEF Split
  <2>2. m + 1 \in 0 .. k
    BY <1>2
  <2> QED
    BY <1>1, <1>6, <1>7, <2>1, <2>2 DEF Strippers, w
<1>8. CASE a.skill = skill
  <2> DEFINE n == m + 1
  <2>1. n \in DOMAIN s /\ \A j \in 1 .. n - 1 : s[j] # s[n]
    BY <1>2, <1>3, <1>4, <1>8
  <2>2. w = affect_remove(v, s[n])
    BY <1>4, <1>6, <1>8
  <2> HIDE DEF n
  <2>3. Good(w) /\ w.affected = Without(s, n)
    BY <1>1, <2>1, <2>2, Removing
  <2> DEFINE t == w.affected
  <2>4. Len(t) = Len(s) - 1 /\ \A j \in 1 .. Len(s) - 1 : t[j] = IF j < n THEN s[j] ELSE s[j + 1]
    <3>1. Len(s) - 1 \in Nat
      BY <1>1, <2>1
    <3> QED
      BY <2>3, <3>1 DEF Without
  <2> HIDE DEF t
  <2>5. Len(t) = Len(L) - k + m /\ n = m + 1 /\ m \in Nat
    BY <1>1, <1>2, <1>3, <2>4 DEF n
  <2>6. \A j \in 1 .. m : t[j].skill # skill
    <3>1. \A j \in 1 .. m : j \in 1 .. Len(s) - 1 /\ j < n
      BY <1>1, <1>4, <2>5
    <3> QED
      BY <1>3, <2>4, <3>1
  <2>7. ASSUME NEW j \in 1 .. Len(L) - k PROVE t[m + j] = L[k + j]
    <3>1. m + j \in 1 .. Len(s) - 1 /\ ~(m + j < n) /\ m + j + 1 = m + 1 + j
      <4> DEFINE x == Len(s)
                 y == Len(L)
      <4>1. x \in Nat /\ y \in Nat /\ x = y - (k - 1) + m /\ j \in 1 .. y - k /\ k \in 1 .. y /\ m \in Nat /\ n = m + 1
        BY <1>1, <1>3, <2>5
      <4> HIDE DEF x, y
      <4>2. m + j \in 1 .. x - 1 /\ ~(m + j < n) /\ m + j + 1 = m + 1 + j
        BY <4>1
      <4> QED
        BY <4>2 DEF x
    <3>2. t[m + j] = s[m + 1 + j]
      BY <2>4, <3>1
    <3> QED
      BY <1>5, <3>2
  <2>8. Split(t, L, skill, k, m) /\ m \in 0 .. k
    BY <1>2, <2>5, <2>6, <2>7 DEF Split
  <2>9. w \in Player
    BY <2>3 DEF Good, Sound, Orderly
  <2> QED
    BY <2>3, <2>8, <2>9 DEF Strippers, w, t, a
<1> QED
  BY <1>7, <1>8

LEMMA RemoveStays ==
  ASSUME NEW v \in Player, NEW a \in SpellAffect
  PROVE  affect_remove(v, a) \in Player
<1>1. IsAffect(a) /\ a.flag \in Flag \cup {None}
  BY DEF IsAffect, SpellAffect
<1> DEFINE m == Lifts(v, a)
<1>2. m \in Player /\ RemoveFirst(m.affected, a) \in Seq(SpellAffect)
  BY <1>1, ModifyStays, RemovedOnce DEF Player
<1>3. affect_remove(v, a) = affect_check([m EXCEPT !.affected = RemoveFirst(@, a)], a.flag)
  BY DEF affect_remove, Lifts
<1> HIDE DEF m
<1>4. [m EXCEPT !.affected = RemoveFirst(@, a)] \in Player
  BY <1>2 DEF Player
<1> QED
  BY <1>1, <1>3, <1>4, CheckedIs

LEMMA Stripping ==
  ASSUME NEW w, Good(w), NEW skill
  PROVE  Good(affect_strip(w, skill)) /\ affect_strip(w, skill) \in Player
<1> DEFINE L == w.affected
           G == [k \in 0 .. Len(L) |-> Strippers(L, skill, k)]
           Do == StripTurn(skill)
<1>1. w \in Player /\ L \in Seq(SpellAffect) /\ Len(L) \in Nat
  BY PlayerIs DEF Good, Sound, Orderly
<1>2. Closes(SpellAffect, Player, Do)
  <2> SUFFICES ASSUME NEW a \in SpellAffect, NEW v \in Player PROVE Do[a][v] \in Player
    BY DEF Closes
  <2> QED
    BY RemoveStays DEF StripTurn
<1>3. w \in G[0]
  <2>1. Split(L, L, skill, 0, 0) /\ 0 \in 0 .. 0
    BY <1>1 DEF Split
  <2>2. w \in Strippers(L, skill, 0)
    BY <1>1, <2>1 DEF Strippers
  <2> QED
    BY <1>1, <2>2
<1>4. Passes(L, G, Do)
  <2> SUFFICES ASSUME NEW k \in 1 .. Len(L), NEW v \in G[k - 1] PROVE Do[L[k]][v] \in G[k]
    BY DEF Passes
  <2>1. k \in 0 .. Len(L) /\ k - 1 \in 0 .. Len(L)
    BY <1>1
  <2>2. v \in Strippers(L, skill, k - 1)
    BY <2>1
  <2> HIDE DEF G, L
  <2>3. StripTurn(skill)[L[k]][v] \in Strippers(L, skill, k)
    BY <1>1, <2>2, StrippedOnce
  <2> QED
    BY <2>1, <2>3 DEF G
<1>5. affect_strip(w, skill) = Through(L, w, Do)
  BY DEF affect_strip, StripTurn
<1> HIDE DEF L, G, Do
<1>6. Through(L, w, Do) \in G[Len(L)]
  BY <1>1, <1>2, <1>3, <1>4, ThroughArrives
<1> QED
  BY <1>1, <1>5, <1>6 DEF G, Strippers

LEMMA SkillsAre ==
  ASSUME NEW w \in Player
  PROVE  Skills(w) \subseteq SkillWord /\ IsFiniteSet(Skills(w))
<1>1. Len(w.affected) \in Nat /\ DOMAIN w.affected = 1 .. Len(w.affected)
  BY PlayerIs
<1>2. \A k \in DOMAIN w.affected : w.affected[k].skill \in SkillWord
  BY <1>1, PlayerIs DEF SpellAffect
<1>3. IsFiniteSet(DOMAIN w.affected)
  BY <1>1, PlacesAreFinite
<1> DEFINE f == [k \in DOMAIN w.affected |-> w.affected[k].skill]
<1>4. \A k \in DOMAIN w.affected : f[k] = w.affected[k].skill
  OBVIOUS
<1> HIDE DEF f
<1>5. f \in Surjection(DOMAIN w.affected, Skills(w))
  BY <1>4 DEF Skills, Surjection, f
<1>6. IsFiniteSet(Skills(w))
  BY <1>3, <1>5, FS_Surjection
<1> QED
  BY <1>2, <1>6 DEF Skills

Goods == {v \in Player : Good(v)}

LEMMA StrippingAll ==
  ASSUME NEW w, Good(w), NEW skills
  PROVE  Good(StripAll(w, skills)) /\ StripAll(w, skills) \in Player
<1> DEFINE S == skills \cap Skills(w)
           Do == [s \in SkillWord |-> [v \in Player |-> affect_strip(v, s)]]
<1>1. w \in Player /\ w \in Goods
  BY DEF Good, Sound, Orderly, Goods
<1>2. IsFiniteSet(S) /\ S \subseteq SkillWord
  BY <1>1, SkillsAre, FS_Subset
<1>3. Closes(S, Goods, Do)
  <2> SUFFICES ASSUME NEW s \in S, NEW v \in Goods PROVE Do[s][v] \in Goods
    BY DEF Closes
  <2>1. Do[s][v] = affect_strip(v, s)
    BY <1>2 DEF Goods
  <2> QED
    BY <2>1, Stripping DEF Goods
<1>4. StripAll(w, skills) = Over(S, w, Do)
  BY DEF StripAll
<1> HIDE DEF S, Do
<1>5. Over(S, w, Do) \in Goods
  BY <1>1, <1>2, <1>3, OverStays
<1> QED
  BY <1>4, <1>5 DEF Goods

\* The latest affect of a skill.
LEMMA LatestIs ==
  ASSUME NEW w \in Player, NEW skill \in Skills(w)
  PROVE  \E k \in DOMAIN w.affected :
           /\ Latest(w, skill) = w.affected[k] /\ w.affected[k].skill = skill
           /\ \A j \in 1 .. k - 1 : w.affected[j] # w.affected[k]
<1> DEFINE s == w.affected
           I == {i \in 1 .. Len(s) : s[i].skill = skill}
<1>1. Len(s) \in Nat /\ DOMAIN s = 1 .. Len(s)
  BY PlayerIs
<1>2. I \in SUBSET (1 .. Len(s)) /\ I # {}
  BY <1>1 DEF Skills
<1>3. Min(I) \in I /\ \A y \in I : Min(I) <= y
  BY <1>1, <1>2, Smallest
<1>4. SelectInSeq(s, LAMBDA a : a.skill = skill) = Min(I)
  BY <1>2 DEF SelectInSeq
<1>5. Latest(w, skill) = s[Min(I)]
  BY <1>4 DEF Latest
<1> DEFINE k == Min(I)
<1>6. k \in DOMAIN s /\ s[k].skill = skill /\ \A j \in 1 .. k - 1 : s[j].skill # skill
  <2>1. k \in I /\ \A y \in I : k <= y
    BY <1>3
  <2> HIDE DEF k
  <2>2. k \in 1 .. Len(s) /\ s[k].skill = skill
    BY <2>1
  <2>3. ASSUME NEW j \in 1 .. k - 1 PROVE s[j].skill # skill
    <3>1. j \in 1 .. Len(s) /\ ~(k <= j)
      BY <1>1, <2>2
    <3> QED
      BY <2>1, <3>1
  <2> QED
    BY <1>1, <2>2, <2>3
<1> QED
  BY <1>5, <1>6

\* What may be joined: the sum of two such affects does not strengthen.
Joinable(a) == Proper(a) /\ (a.flag # None /\ a.loc = "STR" => a.skill \in Worsening)

LEMMA Joining ==
  ASSUME NEW w, Good(w), NEW a \in SpellAffect, Joinable(a)
  PROVE  Good(affect_join(w, a)) /\ affect_join(w, a) \in Player
<1>0. w \in Player
  BY DEF Good, Sound, Orderly
<1>1. CASE a.skill \notin Skills(w)
  <2>1. affect_join(w, a) = affect_to_char(w, a)
    BY <1>1 DEF affect_join
  <2> QED
    BY <2>1, Giving DEF Joinable, Good, Sound, Orderly
<1>2. CASE a.skill \in Skills(w)
  <2>1. PICK k \in DOMAIN w.affected :
           /\ Latest(w, a.skill) = w.affected[k] /\ w.affected[k].skill = a.skill
           /\ \A j \in 1 .. k - 1 : w.affected[j] # w.affected[k]
    BY <1>0, <1>2, LatestIs
  <2> DEFINE old == w.affected[k]
             v == affect_remove(w, old)
             b == [a EXCEPT !.mod = @ + old.mod]
  <2>2. Good(v)
    BY <2>1, Removing
  <2>3. Proper(old) /\ old.mod \in Int /\ old.skill = a.skill
    BY <1>0, <2>1, PlayerIs DEF Good, Sound, Orderly, IsAffect
  <2>4. affect_join(w, a) = affect_to_char(v, b)
    BY <1>2, <2>1 DEF affect_join
  <2> HIDE DEF old, v
  <2>5. /\ b \in SpellAffect /\ b.skill = a.skill /\ b.loc = a.loc /\ b.flag = a.flag
        /\ b.mod = a.mod + old.mod /\ a.mod \in Int
    BY <2>3 DEF SpellAffect
  <2>6. Proper(b)
    BY <2>3, <2>5 DEF Joinable, Proper
  <2> HIDE DEF b
  <2>7. Good(affect_to_char(v, b))
    BY <2>2, <2>5, <2>6, Giving
  <2> QED
    BY <2>4, <2>7 DEF Good, Sound, Orderly
<1> QED
  BY <1>1, <1>2

LEMMA TotalsAre ==
  ASSUME NEW w \in Player
  PROVE  Totals(w) = [l \in Loc |-> Amount(w.affected, l) + OfGear(w.worn, l)]
<1> SUFFICES ASSUME NEW l \in Loc PROVE SumFunction([i \in w.worn |-> Amount(Gear[i], l)]) = OfGear(w.worn, l)
  BY DEF Totals
<1> DEFINE f == [i \in w.worn |-> Amount(Gear[i], l)]
<1>1. w.worn \in SUBSET Item /\ IsFiniteSet(w.worn)
  BY BurdenIs DEF Player
<1>2. Burden(l) \in [Item -> Int] /\ \A i \in Item : Burden(l)[i] = Amount(Gear[i], l)
  BY BurdenIs
<1>3. f \in [w.worn -> Int] /\ \A i \in w.worn : f[i] = Burden(l)[i]
  BY <1>1, <1>2
<1>4. SumFunction(f) = SumFunctionOnSet(f, w.worn)
  BY DEF SumFunction
<1> HIDE DEF f
<1>5. SumFunctionOnSet(f, w.worn) = SumFunctionOnSet(Burden(l), w.worn)
  BY <1>1, <1>2, <1>3, SumSame
<1> QED
  BY <1>4, <1>5 DEF f, OfGear

LEMMA ExactMeans ==
  ASSUME NEW w \in Player
  PROVE  Exact(w) <=> w.mod = Totals(w)
<1>1. Totals(w) = [l \in Loc |-> Amount(w.affected, l) + OfGear(w.worn, l)] /\ w.mod \in [Loc -> Int]
  BY TotalsAre DEF Player
<1>2. \A l \in Loc : /\ w.mod[l] \in Int /\ Amount(w.affected, l) \in Int /\ OfGear(w.worn, l) \in Int
                     /\ Totals(w)[l] = Amount(w.affected, l) + OfGear(w.worn, l)
  BY <1>1, PlayerIs
<1>3. Exact(w) <=> \A l \in Loc : w.mod[l] = Totals(w)[l]
  BY <1>2 DEF Exact, Off
<1>4. w.mod = Totals(w) <=> \A l \in Loc : w.mod[l] = Totals(w)[l]
  BY <1>1
<1> QED
  BY <1>3, <1>4

\* Whoever is in step already stays so.
LEMMA Resetting ==
  ASSUME NEW w, Good(w)
  PROVE  reset_char(w) = w
<1>1. w \in Player /\ w.mod = Totals(w)
  BY ExactMeans DEF Good, Sound, Orderly
<1> QED
  BY <1>1 DEF reset_char, Player

LEMMA Relieving ==
  ASSUME NEW w, Good(w)
  PROVE  Good(strip_negative_affects(w)) /\ strip_negative_affects(w) \in Player
BY StrippingAll, Resetting DEF strip_negative_affects

LEMMA GivingAll ==
  ASSUME NEW w, Good(w), NEW gives \in Seq(SpellAffect), \A k \in DOMAIN gives : Proper(gives[k])
  PROVE  Good(GiveAll(w, gives)) /\ GiveAll(w, gives) \in Player
<1> DEFINE D == {a \in SpellAffect : Proper(a)}
           Do == [a \in SpellAffect |-> [v \in Player |-> affect_to_char(v, a)]]
<1>1. gives \in Seq(D) /\ w \in Goods
  BY DEF Good, Sound, Orderly, Goods
<1>2. Closes(D, Goods, Do)
  <2> SUFFICES ASSUME NEW a \in D, NEW v \in Goods PROVE Do[a][v] \in Goods
    BY DEF Closes
  <2>1. Do[a][v] = affect_to_char(v, a)
    BY DEF Goods
  <2>2. Good(affect_to_char(v, a))
    BY Giving DEF Goods
  <2> QED
    BY <2>1, <2>2 DEF Goods, Good, Sound, Orderly
<1>3. GiveAll(w, gives) = Through(gives, w, Do)
  BY DEF GiveAll
<1> HIDE DEF D, Do
<1>4. Through(gives, w, Do) \in Goods
  BY <1>1, <1>2, ThroughStays
<1> QED
  BY <1>3, <1>4 DEF Goods

----------------------------------------------------------------------------
\* What spells give.

GivesProper(gives) == gives \in Seq(SpellAffect) /\ \A k \in DOMAIN gives : Proper(gives[k])

IsRow(r) ==
  /\ GivesProper(r.gives) /\ GivesProper(r.again)
  /\ \A a \in r.joins : a \in SpellAffect /\ Joinable(a)

\* Skills and flags.
Harmless == SkillWord \ Worsening
Mends(loc, mod, flag) == loc \in Loc /\ mod \in Int /\ flag \in Flag \cup {None} /\ (flag = None \/ loc # "STR" \/ mod <= 0)

LEMMA FlagsAre ==
  /\ \A word \in AffectWord : Aff(word) \in Flag
  /\ \A word \in ImmunityWord : <<"imm", word>> \in Flag /\ <<"res", word>> \in Flag /\ <<"vuln", word>> \in Flag
BY DEF Aff, Flag

LEMMA AffectIs ==
  ASSUME NEW skill \in Harmless, NEW loc, NEW mod, NEW flag, Mends(loc, mod, flag)
  PROVE  Affect(skill, loc, mod, flag) \in SpellAffect /\ Proper(Affect(skill, loc, mod, flag))
BY DEF Harmless, Mends, Affect, SpellAffect, Proper

LEMMA ListsOfProper ==
  /\ GivesProper(<<>>)
  /\ \A a \in SpellAffect : Proper(a) => GivesProper(<<a>>)
  /\ \A a, b \in SpellAffect : Proper(a) /\ Proper(b) => GivesProper(<<a, b>>)
  /\ \A a, b, c \in SpellAffect : Proper(a) /\ Proper(b) /\ Proper(c) => GivesProper(<<a, b, c>>)
<1>1. GivesProper(<<>>)
  BY DEF GivesProper
<1>2. ASSUME NEW a \in SpellAffect, Proper(a) PROVE GivesProper(<<a>>)
  BY <1>2 DEF GivesProper
<1>3. ASSUME NEW a \in SpellAffect, NEW b \in SpellAffect, Proper(a), Proper(b) PROVE GivesProper(<<a, b>>)
  BY <1>3 DEF GivesProper
<1>4. ASSUME NEW a \in SpellAffect, NEW b \in SpellAffect, NEW c \in SpellAffect, Proper(a), Proper(b), Proper(c)
      PROVE  GivesProper(<<a, b, c>>)
  BY <1>4 DEF GivesProper
<1> QED
  BY <1>1, <1>2, <1>3, <1>4

LEMMA UnlessIs ==
  ASSUME NEW gives, GivesProper(gives), NEW bars
  PROVE  IsRow(Unless(bars, gives)) /\ Unless(bars, gives).again = <<>> /\ Unless(bars, gives).joins = {}
         /\ Unless(bars, gives).gives = gives
BY ListsOfProper DEF IsRow, Unless, Row

LEMMA OnceIs ==
  ASSUME NEW skill \in Harmless, NEW loc, NEW mod, NEW flag, Mends(loc, mod, flag)
  PROVE  IsRow(Once(skill, loc, mod, flag))
BY AffectIs, ListsOfProper, UnlessIs DEF Once

LEMMA MarkIs ==
  ASSUME NEW skill \in Harmless, NEW flag \in Flag \cup {None}
  PROVE  GivesProper(Mark(skill, flag)) /\ IsRow(OnceMark(skill))
<1>1. Mends("NONE", 0, flag) /\ Mends("NONE", 0, None)
  BY DEF Mends, Loc
<1> QED
  BY <1>1, AffectIs, OnceIs, ListsOfProper DEF Mark, OnceMark

LEMMA SenseIs ==
  ASSUME NEW skill \in Harmless, NEW word \in AffectWord
  PROVE  IsRow(Sense(skill, word))
BY FlagsAre, MarkIs, UnlessIs DEF Sense

LEMMA JoinIs ==
  ASSUME NEW affects, \A a \in affects : a \in SpellAffect /\ Joinable(a)
  PROVE  IsRow(Join(affects)) /\ Join(affects).gives = <<>> /\ Join(affects).again = <<>> /\ Join(affects).joins = affects
BY ListsOfProper DEF IsRow, Join, Row

\* Rows with the same affects.
LEMMA Alike ==
  ASSUME NEW r, IsRow(r), NEW q, q.gives = r.gives, q.again = r.again, q.joins = r.joins
  PROVE  IsRow(q)
BY DEF IsRow

LEMMA PlainRows ==
  IsRow(Row) /\ IsRow(Harm) /\ \A skill : IsRow(Cure(skill))
BY ListsOfProper DEF IsRow, Row, Harm, Cure

LEMMA ConcatProper ==
  ASSUME NEW f, NEW g, GivesProper(f), GivesProper(g)
  PROVE  GivesProper(f \o g)
<1>1. /\ f \o g \in Seq(SpellAffect) /\ Len(f \o g) = Len(f) + Len(g)
      /\ \A i \in 1 .. Len(f) + Len(g) : (f \o g)[i] = IF i <= Len(f) THEN f[i] ELSE g[i - Len(f)]
  BY ConcatProperties DEF GivesProper
<1> DEFINE h == f \o g
<1>2. /\ Len(f) \in Nat /\ Len(g) \in Nat /\ DOMAIN f = 1 .. Len(f) /\ DOMAIN g = 1 .. Len(g)
      /\ DOMAIN h = 1 .. Len(f) + Len(g)
  BY <1>1 DEF GivesProper
<1> HIDE DEF h
<1>3. ASSUME NEW i \in DOMAIN h PROVE Proper(h[i])
  <2>1. CASE i <= Len(f)
    <3>1. h[i] = f[i] /\ i \in DOMAIN f
      BY <1>1, <1>2, <2>1 DEF h
    <3> QED
      BY <3>1 DEF GivesProper
  <2>2. CASE ~(i <= Len(f))
    <3>1. h[i] = g[i - Len(f)] /\ i - Len(f) \in DOMAIN g
      BY <1>1, <1>2, <2>2 DEF h
    <3> QED
      BY <3>1 DEF GivesProper
  <2> QED
    BY <2>1, <2>2
<1> QED
  BY <1>1, <1>3 DEF GivesProper, h

LEMMA ShieldIs ==
  ASSUME NEW skill \in Harmless, NEW foe, NEW res \in ImmunityWord, NEW vuln \in ImmunityWord
  PROVE  IsRow(Shield(skill, foe, res, vuln))
<1> DEFINE gives == Mark(skill, None) \o Mark(skill, <<"res", res>>) \o Mark(skill, <<"vuln", vuln>>)
           r == Unless({Skill(skill)}, gives)
<1>1. GivesProper(gives)
  BY FlagsAre, MarkIs, ConcatProper
<1> HIDE DEF gives
<1>2. IsRow(r)
  BY <1>1, UnlessIs
<1> DEFINE q == [r EXCEPT !.foe = {Skill(f) : f \in foe}, !.cures = foe]
<1>3. q.gives = r.gives /\ q.again = r.again /\ q.joins = r.joins
  BY DEF Unless, Row
<1>4. Shield(skill, foe, res, vuln) = q
  BY DEF Shield, gives
<1> HIDE DEF q, r
<1> QED
  BY <1>2, <1>3, <1>4, Alike

LEMMA PacedIs ==
  ASSUME NEW skill \in Harmless \cap AffectWord, NEW mod \in Int, NEW other
  PROVE  IsRow(Paced(skill, mod, other))
<1> DEFINE r == Unless({Skill(skill), Aff(skill)}, <<Affect(skill, "DEX", mod, Aff(skill))>>)
           q == [r EXCEPT !.foe = {Aff(other)}, !.cures = {other}]
<1>1. Mends("DEX", mod, Aff(skill))
  BY FlagsAre DEF Mends, Loc, Harmless
<1>2. IsRow(r)
  BY <1>1, AffectIs, ListsOfProper, UnlessIs
<1>3. q.gives = r.gives /\ q.again = r.again /\ q.joins = r.joins
  BY DEF Unless, Row
<1>4. Paced(skill, mod, other) = q
  BY DEF Paced
<1> HIDE DEF q, r
<1> QED
  BY <1>2, <1>3, <1>4, Alike

LEMMA PaceIs == Pace \in Int
<1> DEFINE all == 1 .. 32
<1>1. IsFiniteSet(all)
  <2>1. 32 \in Nat
    OBVIOUS
  <2> QED
    BY <2>1, PlacesAreFinite
<1>2. {n \in {18, 25, 32} : Level >= n} \subseteq all
  OBVIOUS
<1>21. IsFiniteSet({n \in {18, 25, 32} : Level >= n})
  <2> HIDE DEF all
  <2> QED
    BY <1>1, <1>2, FS_Subset
<1>3. Cardinality({n \in {18, 25, 32} : Level >= n}) \in Nat
  BY <1>21, FS_CardinalityType
<1> QED
  BY <1>3 DEF Pace

\* Numbers that depend on the level.
LEMMA LevelsAre ==
  /\ -((2 * Level) \div 3) \in Int /\ -((4 * Level) \div 3) \in Int
  /\ Level \div 15 \in Int /\ -(Level \div 5) \in Int /\ -(Level \div 5) <= 0
  /\ -Level \in Int /\ Level \div 6 \in Int /\ 10 * (Level \div 12) \in Int
  /\ 2 * Level \in Int /\ 4 * Level \in Int /\ Level \div 30 \in Int
<1>1. Level \in Nat
  BY AffectsConstants
<1>2. Level \div 5 \in Nat
  BY <1>1
<1> QED
  BY <1>1, <1>2

LEMMA OnceRows ==
  /\ IsRow(spell_armor) /\ IsRow(spell_shield) /\ IsRow(spell_stone_skin)
  /\ IsRow(spell_giant_strength) /\ IsRow(spell_weaken)
<1> DEFINE n1 == -((2 * Level) \div 3)
           n2 == -((4 * Level) \div 3)
           n3 == Level \div 15
           n4 == -(Level \div 5)
<1>1. n1 \in Int /\ n2 \in Int /\ n3 \in Int /\ n4 \in Int /\ n4 <= 0
  BY LevelsAre
<1>2. /\ spell_armor = Once("armor", "AC", n1, None) /\ spell_shield = Once("shield", "AC", -100, None)
      /\ spell_stone_skin = Once("stone skin", "AC", n2, None)
      /\ spell_giant_strength = Once("giant strength", "STR", n3, None)
      /\ spell_weaken = Once("weaken", "STR", n4, Aff("weaken"))
  BY DEF spell_armor, spell_shield, spell_stone_skin, spell_giant_strength, spell_weaken
<1> HIDE DEF n1, n2, n3, n4
<1>3. /\ Mends("AC", n1, None) /\ Mends("AC", -100, None) /\ Mends("AC", n2, None)
      /\ Mends("STR", n3, None) /\ Mends("STR", n4, Aff("weaken"))
  BY <1>1, FlagsAre DEF AffectWord, ImmunityWord, Mends, Loc
<1>4. {"armor", "shield", "stone skin", "giant strength", "weaken"} \subseteq Harmless
  BY DEF Harmless, Worsening, SkillWord
<1> QED
  BY <1>2, <1>3, <1>4, OnceIs

LEMMA MarkRows ==
  /\ IsRow(spell_web) /\ IsRow(spell_darkness) /\ IsRow(spell_super_speed) /\ IsRow(spell_farsight)
  /\ IsRow(spell_detect_invis) /\ IsRow(spell_detect_magic) /\ IsRow(spell_fly)
  /\ IsRow(spell_infravision) /\ IsRow(spell_pass_door) /\ IsRow(spell_sanctuary)
  /\ IsRow(spell_druid_call) /\ IsRow(spell_invis) /\ IsRow(spell_mass_invis) /\ IsRow(spell_charm_person)
<1>1. {"web", "darkness", "super speed", "farsight", "detect invis", "detect magic", "fly", "infravision",
       "pass door", "sanctuary", "druid call", "invisibility", "mass invisibility", "charm person"} \subseteq Harmless
  BY DEF Harmless, Worsening, SkillWord
<1>2. IsRow(spell_web) /\ IsRow(spell_darkness) /\ IsRow(spell_super_speed) /\ IsRow(OnceMark("farsight"))
  BY <1>1, MarkIs DEF spell_web, spell_darkness, spell_super_speed
<1>3. IsRow(spell_farsight)
  <2> DEFINE r == OnceMark("farsight")
  <2>1. /\ spell_farsight.gives = r.gives /\ spell_farsight.again = r.again /\ spell_farsight.joins = r.joins
    BY DEF spell_farsight, OnceMark, Once, Unless, Row
  <2> HIDE DEF r
  <2> QED
    BY <1>2, <2>1, Alike DEF r
<1>4. /\ IsRow(spell_detect_invis) /\ IsRow(spell_detect_magic) /\ IsRow(spell_fly)
      /\ IsRow(spell_infravision) /\ IsRow(spell_pass_door) /\ IsRow(spell_sanctuary)
      /\ IsRow(spell_druid_call) /\ IsRow(spell_invis) /\ IsRow(spell_mass_invis) /\ IsRow(spell_charm_person)
  BY <1>1, SenseIs
     DEF AffectWord, spell_detect_invis, spell_detect_magic, spell_fly, spell_infravision, spell_pass_door, spell_sanctuary,
         spell_druid_call, spell_invis, spell_mass_invis, spell_charm_person
<1> QED
  BY <1>2, <1>3, <1>4

LEMMA UnlessRows ==
  /\ IsRow(spell_blindness) /\ IsRow(spell_pollenburst) /\ IsRow(spell_frenzy) /\ IsRow(spell_calm)
  /\ IsRow(spell_colour_spray) /\ IsRow(spell_fire_breath)
<1> DEFINE n1 == -Level
           n2 == Level \div 6
           n3 == 10 * (Level \div 12)
           Ok(a) == a \in SpellAffect /\ Proper(a)
           blind == Affect("blindness", "HITROLL", n1, Aff("blind"))
           pollen == Affect("pollen burst", "DEX", -5, Aff("pollen"))
           sting == Affect("pollen burst", "HITROLL", -2, Aff("blind"))
           hit == Affect("frenzy", "HITROLL", n2, None)
           dam == Affect("frenzy", "DAMROLL", n2, None)
           rash == Affect("frenzy", "AC", n3, None)
           calmhit == Affect("calm", "HITROLL", -5, Aff("calm"))
           calmdam == Affect("calm", "DAMROLL", -5, Aff("calm"))
           fire == Affect("fire breath", "HITROLL", -4, Aff("blind"))
           bar1 == {Skill("blindness"), Aff("blind")}
           bar2 == {Skill("frenzy"), Skill("calm"), Aff("berserk")}
           bar3 == {Skill("frenzy"), Aff("calm"), Aff("berserk")}
<1>1. n1 \in Int /\ n2 \in Int /\ n3 \in Int
  BY LevelsAre
<1>2. /\ spell_blindness = Unless(bar1, <<blind>>)
      /\ spell_pollenburst = Unless({Skill("pollen burst")}, <<pollen, sting>>)
      /\ spell_frenzy = Unless(bar2, <<hit, dam, rash>>)
      /\ spell_calm = Unless(bar3, <<calmhit, calmdam>>)
      /\ spell_colour_spray = [spell_blindness EXCEPT !.harms = TRUE]
      /\ spell_fire_breath = [Unless({Aff("blind")}, <<fire>>) EXCEPT !.harms = TRUE]
  BY DEF spell_blindness, spell_pollenburst, spell_frenzy, spell_calm, spell_colour_spray, spell_fire_breath
<1> HIDE DEF n1, n2, n3, bar1, bar2, bar3
<1>3. {"blindness", "pollen burst", "frenzy", "calm", "fire breath"} \subseteq Harmless
  BY DEF Harmless, Worsening, SkillWord
<1>4. /\ Mends("HITROLL", n1, Aff("blind")) /\ Mends("DEX", -5, Aff("pollen"))
      /\ Mends("HITROLL", -2, Aff("blind")) /\ Mends("HITROLL", n2, None) /\ Mends("DAMROLL", n2, None)
      /\ Mends("AC", n3, None) /\ Mends("HITROLL", -5, Aff("calm")) /\ Mends("DAMROLL", -5, Aff("calm"))
      /\ Mends("HITROLL", -4, Aff("blind"))
  BY <1>1, FlagsAre DEF AffectWord, ImmunityWord, Mends, Loc
<1>5. /\ Ok(blind) /\ Ok(pollen) /\ Ok(sting) /\ Ok(hit) /\ Ok(dam) /\ Ok(rash) /\ Ok(calmhit)
      /\ Ok(calmdam) /\ Ok(fire)
  BY <1>3, <1>4, AffectIs
<1> HIDE DEF blind, pollen, sting, hit, dam, rash, calmhit, calmdam, fire
<1>6. /\ GivesProper(<<blind>>) /\ GivesProper(<<pollen, sting>>) /\ GivesProper(<<hit, dam, rash>>)
      /\ GivesProper(<<calmhit, calmdam>>) /\ GivesProper(<<fire>>)
  BY <1>5, ListsOfProper
<1>7. /\ IsRow(spell_blindness) /\ IsRow(spell_pollenburst) /\ IsRow(spell_frenzy) /\ IsRow(spell_calm)
      /\ IsRow(Unless({Aff("blind")}, <<fire>>))
  BY <1>2, <1>6, UnlessIs
<1>8. IsRow(spell_colour_spray)
  <2>1. /\ spell_colour_spray.gives = spell_blindness.gives /\ spell_colour_spray.again = spell_blindness.again
        /\ spell_colour_spray.joins = spell_blindness.joins
    BY <1>2 DEF Unless, Row
  <2> QED
    BY <1>7, <2>1, Alike
<1>9. IsRow(spell_fire_breath)
  <2> DEFINE r == Unless({Aff("blind")}, <<fire>>)
  <2>1. /\ spell_fire_breath.gives = r.gives /\ spell_fire_breath.again = r.again
        /\ spell_fire_breath.joins = r.joins
    BY <1>2 DEF Unless, Row
  <2>2. IsRow(r)
    BY <1>7
  <2> HIDE DEF r
  <2> QED
    BY <2>1, <2>2, Alike
<1> QED
  BY <1>7, <1>8, <1>9

LEMMA ShieldRows ==
  /\ IsRow(spell_haste) /\ IsRow(spell_slow) /\ IsRow(spell_ice_shield) /\ IsRow(spell_fire_shield)
  /\ IsRow(spell_acidic_shield) /\ IsRow(spell_water_shield) /\ IsRow(spell_holy_shield)
  /\ IsRow(spell_negative_shield)
<1>1. {"haste", "slow", "ice shield", "fire shield", "acidic shield", "water shield", "holy shield",
       "negative shield"} \subseteq Harmless /\ {"haste", "slow"} \subseteq AffectWord
  BY DEF Harmless, Worsening, SkillWord, AffectWord
<1>2. Pace \in Int /\ -Pace \in Int
  BY PaceIs
<1>3. IsRow(spell_haste) /\ IsRow(spell_slow)
  BY <1>1, <1>2, PacedIs DEF spell_haste, spell_slow
<1>4. /\ IsRow(spell_ice_shield) /\ IsRow(spell_fire_shield) /\ IsRow(spell_acidic_shield)
      /\ IsRow(spell_water_shield) /\ IsRow(spell_holy_shield) /\ IsRow(spell_negative_shield)
  BY <1>1, ShieldIs DEF ImmunityWord, spell_ice_shield, spell_fire_shield, spell_acidic_shield, spell_water_shield,
                        spell_holy_shield, spell_negative_shield
<1> QED
  BY <1>3, <1>4

LEMMA AgainRows ==
  IsRow(spell_fireproof) /\ IsRow(spell_faerie_fire)
<1>1. {"fireproof", "faerie fire"} \subseteq Harmless
  BY DEF Harmless, Worsening, SkillWord
<1>2. IsRow(spell_fireproof)
  <2>1. GivesProper(Mark("fireproof", <<"imm", "fire">>))
    BY <1>1, FlagsAre, MarkIs DEF ImmunityWord
  <2>2. /\ spell_fireproof.gives = Mark("fireproof", <<"imm", "fire">>) /\ spell_fireproof.again = <<>>
        /\ spell_fireproof.joins = {}
    BY DEF spell_fireproof, Row
  <2> QED
    BY <2>1, <2>2, ListsOfProper DEF IsRow
<1>3. IsRow(spell_faerie_fire)
  <2> DEFINE n1 == 2 * Level
             n2 == 4 * Level
             one == Affect("faerie fire", "AC", n1, Aff("faerie_fire"))
             two == Affect("faerie fire", "SAVES", 50, None)
             three == Affect("faerie fire", "SAVES", 100, None)
             four == Affect("faerie fire", "AC", n2, Aff("faerie_fire"))
  <2>1. n1 \in Int /\ n2 \in Int
    BY LevelsAre
  <2>2. /\ spell_faerie_fire.gives = <<one, two>> /\ spell_faerie_fire.again = <<three, four>>
        /\ spell_faerie_fire.joins = {}
    BY DEF spell_faerie_fire, Unless, Row
  <2> HIDE DEF n1, n2
  <2>3. /\ Mends("AC", n1, Aff("faerie_fire")) /\ Mends("AC", n2, Aff("faerie_fire"))
        /\ Mends("SAVES", 50, None) /\ Mends("SAVES", 100, None)
    BY <2>1, FlagsAre DEF AffectWord, ImmunityWord, Mends, Loc
  <2>4. /\ one \in SpellAffect /\ Proper(one) /\ two \in SpellAffect /\ Proper(two)
        /\ three \in SpellAffect /\ Proper(three) /\ four \in SpellAffect /\ Proper(four)
    BY <1>1, <2>3, AffectIs
  <2> HIDE DEF one, two, three, four
  <2>5. GivesProper(<<one, two>>) /\ GivesProper(<<three, four>>)
    BY <2>4, ListsOfProper
  <2> QED
    BY <2>2, <2>5 DEF IsRow
<1> QED
  BY <1>2, <1>3

\* What is joined weakens.
LEMMA JoinableIs ==
  /\ \A loc \in Loc, mod \in Int :
        mod <= 0 => Poison(loc, mod) \in SpellAffect /\ Joinable(Poison(loc, mod))
  /\ \A mod \in Int :
        mod <= 0 => /\ Chill(mod) \in SpellAffect /\ Joinable(Chill(mod))
                    /\ Burning(mod) \in SpellAffect /\ Joinable(Burning(mod))
<1>1. Aff("poison") \in Flag /\ Aff("burning") \in Flag
  BY FlagsAre DEF AffectWord
<1>2. ASSUME NEW loc \in Loc, NEW mod \in Int, mod <= 0
      PROVE  Poison(loc, mod) \in SpellAffect /\ Joinable(Poison(loc, mod))
  BY <1>1, <1>2 DEF Poison, Affect, SpellAffect, Joinable, Proper, Worsening, SkillWord
<1>3. ASSUME NEW mod \in Int, mod <= 0
      PROVE  Chill(mod) \in SpellAffect /\ Joinable(Chill(mod))
  BY <1>3 DEF Chill, Affect, SpellAffect, Joinable, Proper, Worsening, SkillWord, Loc
<1>4. ASSUME NEW mod \in Int, mod <= 0
      PROVE  Burning(mod) \in SpellAffect /\ Joinable(Burning(mod))
  BY <1>1, <1>4 DEF Burning, Affect, SpellAffect, Joinable, Proper, Worsening, SkillWord, Loc
<1> QED
  BY <1>2, <1>3, <1>4

LEMMA JoinRows ==
  /\ IsRow(spell_sleep) /\ IsRow(spell_poison) /\ IsRow(spell_burning_flames) /\ IsRow(spell_chill_touch)
  /\ IsRow(spell_fireball) /\ IsRow(spell_frost_breath) /\ IsRow(spell_gas_breath)
<1> DEFINE drowsy == ToSet(Mark("sleep", Aff("sleep")))
           flames == {Burning(-n) : n \in 1..25}
           chills == {Chill(-n) : n \in 1..(Level \div 30)}
           Ok(S) == \A a \in S : a \in SpellAffect /\ Joinable(a)
<1>1. Ok(drowsy)
  <2> DEFINE a == Affect("sleep", "NONE", 0, Aff("sleep"))
  <2>1. drowsy = {a}
    BY DEF Mark, ToSet
  <2>2. a \in SpellAffect /\ Joinable(a)
    BY FlagsAre DEF AffectWord, ImmunityWord, Affect, SpellAffect, Joinable, Proper, Worsening, SkillWord, Loc
  <2> HIDE DEF a, drowsy
  <2> QED
    BY <2>1, <2>2
<1>2. Ok(flames) /\ Ok(chills)
  <2>1. \A n \in 1 .. 25 : -n \in Int /\ -n <= 0
    OBVIOUS
  <2>2. \A n \in 1 .. (Level \div 30) : -n \in Int /\ -n <= 0
    BY LevelsAre
  <2> QED
    BY <2>1, <2>2, JoinableIs
<1>3. /\ Ok({Poison("STR", -2)}) /\ Ok({Burning(-2)}) /\ Ok({Chill(-1)}) /\ Ok({Poison("STR", -1)})
  <2> DEFINE one == -1
             two == -2
  <2>1. one \in Int /\ one <= 0 /\ two \in Int /\ two <= 0 /\ "STR" \in Loc
    BY DEF Loc
  <2> HIDE DEF one, two
  <2>2. /\ Poison("STR", two) \in SpellAffect /\ Joinable(Poison("STR", two))
        /\ Poison("STR", one) \in SpellAffect /\ Joinable(Poison("STR", one))
    BY <2>1, JoinableIs
  <2>3. /\ Burning(two) \in SpellAffect /\ Joinable(Burning(two))
        /\ Chill(one) \in SpellAffect /\ Joinable(Chill(one))
    BY <2>1, JoinableIs
  <2> QED
    BY <2>2, <2>3 DEF one, two
<1>4. /\ spell_sleep = [Join(drowsy) EXCEPT !.bars = {Aff("sleep")}]
      /\ spell_poison = Join({Poison("STR", -2)})
      /\ spell_burning_flames = [Join({Burning(-2)}) EXCEPT !.bars = {<<"imm", "fire">>}]
      /\ spell_chill_touch = [Join({Chill(-1)}) EXCEPT !.harms = TRUE]
      /\ spell_fireball = [Join(flames) EXCEPT !.harms = TRUE]
      /\ spell_frost_breath = [Join(chills) EXCEPT !.harms = TRUE]
      /\ spell_gas_breath = [Join({Poison("STR", -1)}) EXCEPT !.harms = TRUE]
  BY DEF spell_sleep, spell_poison, spell_burning_flames, spell_chill_touch, spell_fireball, spell_frost_breath,
         spell_gas_breath
<1> HIDE DEF drowsy, flames, chills
<1>5. ASSUME NEW S, Ok(S), NEW bars
      PROVE  IsRow(Join(S)) /\ IsRow([Join(S) EXCEPT !.bars = bars]) /\ IsRow([Join(S) EXCEPT !.harms = TRUE])
  <2> DEFINE r == Join(S)
             p == [r EXCEPT !.bars = bars]
             q == [r EXCEPT !.harms = TRUE]
  <2>1. IsRow(r)
    BY <1>5, JoinIs
  <2>2. /\ p.gives = r.gives /\ p.again = r.again /\ p.joins = r.joins
        /\ q.gives = r.gives /\ q.again = r.again /\ q.joins = r.joins
    BY DEF Join, Row
  <2> HIDE DEF r, p, q
  <2>3. IsRow(p) /\ IsRow(q)
    BY <2>1, <2>2, Alike
  <2> QED
    BY <2>1, <2>3 DEF p, q, r
<1> HIDE DEF Ok
<1> QED
  BY <1>1, <1>2, <1>3, <1>4, <1>5

LEMMA CureRows ==
  /\ IsRow(spell_cure_blindness) /\ IsRow(spell_cure_poison) /\ IsRow(spell_extinguish_flames)
  /\ IsRow(spell_revive)
<1>1. /\ IsRow(spell_cure_blindness) /\ IsRow(spell_cure_poison) /\ IsRow(spell_extinguish_flames)
  BY PlainRows DEF spell_cure_blindness, spell_cure_poison, spell_extinguish_flames
<1>2. spell_revive.gives = Row.gives /\ spell_revive.again = Row.again /\ spell_revive.joins = Row.joins
  BY DEF spell_revive, Row
<1> QED
  BY <1>1, <1>2, PlainRows, Alike

LEMMA RowsAreProper == \A s \in Known : IsRow(Spell[s])
<1> SUFFICES ASSUME NEW s \in DOMAIN Spell PROVE IsRow(Spell[s])
  BY KnownSpells
<1>2. IsRow(Harm)
  BY PlainRows
<1> HIDE DEF IsRow
<1> QED
  BY <1>2, OnceRows, MarkRows, UnlessRows, ShieldRows, AgainRows, JoinRows, CureRows, SMTT(60)
     DEF Spell, spell_acid_blast, spell_acid_breath, spell_acidic_rain, spell_burning_hands, spell_call_lightning,
         spell_cause_critical, spell_cause_light, spell_cause_serious, spell_chain_lightning, spell_demonfire,
         spell_earthquake, spell_energy_drain, spell_flamestrike, spell_freeze_bolt, spell_freeze_storm,
         spell_frost_hands, spell_general_purpose, spell_harm, spell_high_explosive, spell_lightning_bolt,
         spell_lightning_breath, spell_magic_missile, spell_meteor_storm, spell_monsoon, spell_ring_of_fire,
         spell_shocking_grasp, spell_thorns

----------------------------------------------------------------------------
\* What happens to the player leaves them in step.

LEMMA Enchanting ==
  ASSUME NEW w, Good(w), NEW r, IsRow(r), NEW v \in Enchanted(w, r)
  PROVE  Good(v)
<1>1. /\ GivesProper(r.gives) /\ GivesProper(r.again)
      /\ \A a \in r.joins : a \in SpellAffect /\ Joinable(a)
  BY DEF IsRow
<1>2. ASSUME NEW u, Good(u) PROVE Good(GiveAll(u, r.gives)) /\ Good(GiveAll(u, r.again))
  <2>1. /\ r.gives \in Seq(SpellAffect) /\ \A k \in DOMAIN r.gives : Proper(r.gives[k])
        /\ r.again \in Seq(SpellAffect) /\ \A k \in DOMAIN r.again : Proper(r.again[k])
    BY <1>1 DEF GivesProper
  <2> QED
    BY <1>2, <2>1, GivingAll
<1>3. CASE v = w
  BY <1>3
<1>4. CASE v = GiveAll(affect_strip(w, r.again[1].skill), r.again)
  BY <1>2, <1>4, Stripping
<1>5. CASE v = StripAll(w, r.cures)
  BY <1>5, StrippingAll
<1>6. CASE v = GiveAll(StripAll(w, r.strips), r.gives)
  BY <1>2, <1>6, StrippingAll
<1>7. CASE \E a \in r.joins : v = affect_join(w, a)
  BY <1>1, <1>7, Joining
<1> QED
  BY <1>3, <1>4, <1>5, <1>6, <1>7 DEF Enchanted

\* Flags that hide and flags that nobody gives may come and go.
Masks(w, v) ==
  /\ v \in Player /\ v.affected = w.affected /\ v.worn = w.worn /\ v.has = w.has /\ v.mod = w.mod
  /\ v.flags \subseteq w.flags \cup {Aff("hide")} /\ w.flags \cap Binding \subseteq v.flags

LEMMA Masked ==
  ASSUME NEW w, Good(w), NEW v, Masks(w, v)
  PROVE  Good(v)
<1>1. /\ v \in Player /\ v.affected = w.affected /\ v.worn = w.worn /\ v.has = w.has /\ v.mod = w.mod
      /\ v.flags \subseteq w.flags \cup {Aff("hide")} /\ w.flags \cap Binding \subseteq v.flags
  BY DEF Masks
<1>2. Orderly(v) /\ Given(v) = Given(w)
  BY <1>1, SameKept DEF Good, Sound
<1>3. Bits(v, {}, {})
  BY <1>1, <1>2 DEF Good, Sound, Bits
<1>4. Light(v)
  BY <1>1, SameLight DEF Good
<1>5. Exact(v)
  BY <1>1 DEF Good, Exact, Off
<1> QED
  BY <1>2, <1>3, <1>4, <1>5 DEF Good, Sound

\* The flags of F are none that bind.
LEMMA Veiled ==
  ASSUME NEW w, Good(w), NEW F, F \cap Binding = {}
  PROVE  Good([w EXCEPT !.flags = @ \ F])
<1> DEFINE v == [w EXCEPT !.flags = @ \ F]
<1>1. w \in Player
  BY DEF Good, Sound, Orderly
<1>2. Masks(w, v)
  BY <1>1 DEF Masks, Player
<1> QED
  BY <1>2, Masked

LEMMA VeilsDoNotBind ==
  Concealed \cap Binding = {} /\ {Aff("hide")} \cap Binding = {} /\ {Aff("invisible")} \cap Binding = {}
BY DEF Binding, Concealed

LEMMA Revealing ==
  ASSUME NEW u, Good(u), NEW w \in Revealed(u)
  PROVE  /\ Good(w) /\ w \in Player /\ w.worn = u.worn /\ w.has = u.has
<1>1. u \in Player
  BY DEF Good, Sound, Orderly
<1>2. w = u \/ w = [u EXCEPT !.flags = @ \ {Aff("hide")}]
  BY DEF Revealed
<1> DEFINE F == {Aff("hide")}
<1>3. Good(w)
  <2>1. F \cap Binding = {} /\ (w = u \/ w = [u EXCEPT !.flags = @ \ F])
    BY <1>2, VeilsDoNotBind
  <2> HIDE DEF F
  <2>2. Good([u EXCEPT !.flags = @ \ F])
    BY <2>1, Veiled
  <2> QED
    BY <2>1, <2>2
<1>4. w.worn = u.worn /\ w.has = u.has
  BY <1>1, <1>2 DEF Player
<1> QED
  BY <1>3, <1>4 DEF Good, Sound, Orderly

\* Other things may be carried.
LEMMA Laden ==
  ASSUME NEW w, Good(w), NEW has \in Seq(Item), IsInjective(has), w.worn \subseteq ToSet(has)
  PROVE  Good([w EXCEPT !.has = has])
<1> DEFINE v == [w EXCEPT !.has = has]
<1>1. w \in Player
  BY DEF Good, Sound, Orderly
<1>2. /\ v \in Player /\ v.affected = w.affected /\ v.worn = w.worn /\ v.has = has /\ v.mod = w.mod
      /\ v.flags = w.flags
  BY <1>1 DEF Player
<1> HIDE DEF v
<1>3. Orderly(v)
  BY <1>2 DEF Good, Sound, Orderly, OneWeapon
<1>4. Bits(v, {}, {})
  BY <1>2, SameGiven DEF Good, Sound, Bits
<1>5. Light(v)
  BY <1>2, SameLight DEF Good
<1>6. Exact(v)
  BY <1>2 DEF Good, Exact, Off
<1> QED
  BY <1>3, <1>4, <1>5, <1>6 DEF Good, Sound, v

LEMMA StaysExact ==
  ASSUME NEW w, Good(w), NEW v, Sound(v, {}, {}), Light(v), SameOff(w, v)
  PROVE  Good(v)
BY DEF Good, Exact, SameOff

LEMMA Prepended ==
  ASSUME NEW S, NEW s \in Seq(S), NEW e \in S, e \notin ToSet(s), IsInjective(s)
  PROVE  /\ <<e>> \o s \in Seq(S) /\ IsInjective(<<e>> \o s) /\ ToSet(<<e>> \o s) = ToSet(s) \cup {e}
<1> DEFINE h == <<e>> \o s
<1>1. /\ h \in Seq(S) /\ Len(h) = 1 + Len(s)
      /\ \A i \in 1 .. 1 + Len(s) : h[i] = IF i <= 1 THEN e ELSE s[i - 1]
  <2>1. <<e>> \in Seq(S) /\ Len(<<e>>) = 1 /\ <<e>>[1] = e
    OBVIOUS
  <2> QED
    BY <2>1, ConcatProperties
<1>2. Len(s) \in Nat /\ DOMAIN s = 1 .. Len(s) /\ DOMAIN h = 1 .. 1 + Len(s)
  BY <1>1
<1> HIDE DEF h
<1>3. ToSet(h) = ToSet(s) \cup {e}
  <2>1. ASSUME NEW x \in ToSet(h) PROVE x \in ToSet(s) \cup {e}
    <3>1. PICK i \in DOMAIN h : x = h[i]
      BY DEF ToSet
    <3>2. CASE i <= 1
      BY <1>1, <1>2, <3>1, <3>2
    <3>3. CASE ~(i <= 1)
      <4>1. i - 1 \in DOMAIN s /\ x = s[i - 1]
        BY <1>1, <1>2, <3>1, <3>3
      <4> QED
        BY <4>1 DEF ToSet
    <3> QED
      BY <3>2, <3>3
  <2>2. ASSUME NEW x \in ToSet(s) PROVE x \in ToSet(h)
    <3>1. PICK i \in DOMAIN s : x = s[i]
      BY DEF ToSet
    <3>2. i + 1 \in DOMAIN h /\ h[i + 1] = x
      BY <1>1, <1>2, <3>1
    <3> QED
      BY <3>2 DEF ToSet
  <2>3. e \in ToSet(h)
    <3>1. 1 \in DOMAIN h /\ h[1] = e
      BY <1>1, <1>2
    <3> QED
      BY <3>1 DEF ToSet
  <2> QED
    BY <2>1, <2>2, <2>3
<1>4. IsInjective(h)
  <2> SUFFICES ASSUME NEW i \in DOMAIN h, NEW j \in DOMAIN h, h[i] = h[j] PROVE i = j
    BY DEF IsInjective
  <2>1. \A k \in DOMAIN h : k > 1 => k - 1 \in DOMAIN s /\ h[k] = s[k - 1] /\ h[k] # e
    <3> SUFFICES ASSUME NEW k \in DOMAIN h, k > 1 PROVE k - 1 \in DOMAIN s /\ h[k] = s[k - 1] /\ h[k] # e
      OBVIOUS
    <3>1. k - 1 \in DOMAIN s /\ h[k] = s[k - 1]
      BY <1>1, <1>2
    <3> QED
      BY <3>1 DEF ToSet
  <2>2. CASE i > 1 /\ j > 1
    <3>1. i - 1 = j - 1
      BY <2>1, <2>2 DEF IsInjective
    <3> QED
      BY <1>2, <3>1
  <2>3. CASE ~(i > 1 /\ j > 1)
    <3>1. h[1] = e
      BY <1>1, <1>2
    <3> QED
      BY <1>2, <2>1, <2>3, <3>1
  <2> QED
    BY <2>2, <2>3
<1> QED
  BY <1>1, <1>3, <1>4 DEF h

\* What is wielded comes off first.
Offs == [j \in Weapon |-> [v \in Player |-> unequip_char(v, j)]]

LEMMA Baring ==
  ASSUME NEW w, Good(w), NEW i \in Item \ w.worn, i \in ToSet(w.has),
         NEW v, v = Over(w.worn \cap Weapon, w, Offs)
  PROVE  /\ Good(v) /\ v.worn \cap Weapon = {} /\ i \notin v.worn /\ i \in ToSet(v.has)
<1> DEFINE S == w.worn \cap Weapon
<1>0. w \in Player /\ Sound(w, {}, {}) /\ Light(w)
  BY DEF Good, Sound, Orderly
<1>1. CASE S = {}
  <2>1. v = w
    BY <1>1, OverNothing
  <2> QED
    BY <1>1, <2>1
<1>2. CASE S # {}
  <2>1. PICK j \in S : S = {j}
    BY <1>0, <1>2 DEF Sound, Orderly, OneWeapon
  <2> DEFINE u == unequip_char(w, j)
             K == [T \in SUBSET S |-> IF T = {} THEN {w} ELSE {u}]
  <2>2. IsFiniteSet(S)
    BY <2>1, FS_Singleton
  <2>3. Offs[j][w] = u
    BY <1>0, <2>1 DEF Offs
  <2> HIDE DEF u, S
  <2>4. w \in K[{}] /\ K[S] = {u}
    BY <1>2
  <2>5. Advances(S, K, Offs)
    <3> SUFFICES ASSUME NEW T \in SUBSET S, NEW x \in S \ T, NEW z \in K[T]
                 PROVE  Offs[x][z] \in K[T \cup {x}]
      BY DEF Advances
    <3>1. x = j /\ T = {} /\ z = w
      BY <2>1
    <3> QED
      BY <2>1, <2>3, <3>1
  <2> HIDE DEF K
  <2>6. v = u
    <3>1. Over(S, w, Offs) \in K[S]
      BY <2>2, <2>4, <2>5, OverArrives
    <3> QED
      BY <2>4, <3>1 DEF S
  <2>7. j \in w.worn
    BY <2>1 DEF S
  <2>8. /\ Sound(u, {}, {}) /\ Light(u) /\ SameOff(w, u) /\ u.worn \subseteq w.worn \ {j}
        /\ ToSet(w.has) \ ToSet(u.has) \subseteq w.worn
    BY <1>0, <2>7, Unequipping DEF u
  <2>9. Good(u)
    BY <2>8, StaysExact
  <2> QED
    BY <2>1, <2>6, <2>8, <2>9 DEF S
<1> QED
  BY <1>1, <1>2

LEMMA Wearing ==
  ASSUME SteadyWeapons, NEW w, Good(w), NEW i \in Item \ w.worn, i \in ToSet(w.has), Bears(w, i)
  PROVE  Good(equip_char(w, i))
<1> DEFINE v == equip_char(w, i)
<1>1. Sound(w, {}, {}) /\ Light(w)
  BY DEF Good
<1>2. Sound(v, {}, {}) /\ Light(v) /\ SameOff(w, v)
  BY <1>1, Equipping
<1> QED
  BY <1>2, StaysExact

----------------------------------------------------------------------------
\* Logging in.

\* What is read by the k-th turn of the list, and what is not.
Read(list, k) == {list[j] : j \in 1 .. k}
Unread(list, k) == {list[j] : j \in k + 1 .. Len(list)}

\* The flags of what is not read yet but was worn.
Loose(u, list, k) == UNION {Flags(i) : i \in Unread(list, k) \cap u.worn}

\* The bodies that k turns make of the file u.
Bodies(u, list, k) ==
  {w \in Player : /\ Sound(w, Loose(u, list, k), {}) /\ Light(w)
                  /\ w.affected = Reverse(u.affected) /\ w.mod["STR"] = u.mod["STR"]
                  /\ w.worn \subseteq Read(list, k) \cap u.worn
                  /\ (Read(list, k) \cap u.worn) \ w.worn \subseteq Weapon
                  /\ ToSet(w.has) \subseteq Read(list, k)}

\* One item more.
LEMMA ReadIs ==
  ASSUME NEW list \in Seq(Item), IsInjective(list), NEW k \in 1 .. Len(list)
  PROVE  /\ list[k] \in Item /\ list[k] \notin Read(list, k - 1)
         /\ Read(list, k) = Read(list, k - 1) \cup {list[k]}
         /\ Unread(list, k - 1) = Unread(list, k) \cup {list[k]}
<1>1. Len(list) \in Nat /\ DOMAIN list = 1 .. Len(list)
  OBVIOUS
<1>2. k \in 1 .. k /\ 1 .. k = (1 .. k - 1) \cup {k}
  BY <1>1
<1>3. (k - 1) + 1 .. Len(list) = (k + 1 .. Len(list)) \cup {k}
  BY <1>1
<1>4. list[k] \notin Read(list, k - 1)
  <2> SUFFICES ASSUME NEW j \in 1 .. k - 1, list[j] = list[k] PROVE FALSE
    BY DEF Read
  <2>1. j \in DOMAIN list /\ k \in DOMAIN list /\ j # k
    BY <1>1
  <2> QED
    BY <2>1 DEF IsInjective
<1>5. Read(list, k) = Read(list, k - 1) \cup {list[k]}
  BY <1>2 DEF Read
<1>6. Unread(list, k - 1) = Unread(list, k) \cup {list[k]}
  BY <1>3 DEF Unread
<1> QED
  BY <1>1, <1>4, <1>5, <1>6

LEMMA SamePlayer ==
  ASSUME NEW v \in Player, NEW w \in Player,
         v.affected = w.affected, v.mod = w.mod, v.flags = w.flags, v.worn = w.worn, v.has = w.has,
         v.playing = w.playing
  PROVE  v = w
BY DEF Player

\* What a turn of fread_obj for a worn item amounts to.
LEMMA RereadIs ==
  ASSUME NEW w \in Player, NEW i \in Item \ w.worn, NEW worn, i \in worn
  PROVE  fread_obj(w, i, worn)
         = equip_char(Through(Gear[i], [w EXCEPT !.has = <<i>> \o @], ItemUndo), i)
<1> DEFINE held == [w EXCEPT !.has = <<i>> \o @]
           put == [held EXCEPT !.worn = @ \cup {i}]
<1>1. fread_obj(w, i, worn) = equip_char(unequip_char(put, i), i)
  BY DEF fread_obj
<1> DEFINE has == <<i>> \o w.has
<1>11. has \in Seq(Item)
  BY DEF Player
<1>12. held = [w EXCEPT !.has = has]
  OBVIOUS
<1> HIDE DEF has
<1>2. held.worn = w.worn /\ [put EXCEPT !.worn = @ \ {i}] = held
  <2>1. held \in Player /\ held.worn = w.worn
    BY <1>11, <1>12 DEF Player
  <2> HIDE DEF held
  <2>2. put \in Player /\ put.worn = w.worn \cup {i}
    BY <2>1 DEF Player
  <2>3. put.worn \ {i} = held.worn
    BY <2>1, <2>2
  <2> DEFINE off == [put EXCEPT !.worn = put.worn \ {i}]
  <2>4. /\ off \in Player /\ off.affected = held.affected /\ off.mod = held.mod /\ off.flags = held.flags
        /\ off.worn = held.worn /\ off.has = held.has /\ off.playing = held.playing
    BY <2>1, <2>3 DEF Player
  <2> HIDE DEF off
  <2>5. off = held
    BY <2>1, <2>4, SamePlayer
  <2> QED
    BY <2>1, <2>5 DEF off
<1>3. unequip_char(put, i) = Through(Gear[i], held, ItemUndo)
  BY <1>2, UnequipIs
<1> QED
  BY <1>1, <1>3

\* Weapons have nothing for the strength.
LEMMA SteadyIs ==
  ASSUME SteadyWeapons, NEW i \in Weapon
  PROVE  Amount(Gear[i], "STR") = 0
<1> DEFINE one == {i}
           none == {}
<1>1. i \in Item /\ one \in SUBSET Item /\ i \in one /\ one \ {i} = none /\ none \in SUBSET one /\ one \ none \subseteq Weapon
  BY AffectsConstants
<1>2. Amount(Gear[i], "STR") \in Int
  BY <1>1, BurdenIs
<1> HIDE DEF one, none
<1>3. OfGear(one, "STR") = OfGear(none, "STR") + Amount(Gear[i], "STR")
  BY <1>1, WornLess
<1>4. OfGear(one, "STR") = OfGear(none, "STR")
  BY <1>1, WeaponsWeighNothing
<1>5. OfGear(none, "STR") \in Int
  BY <1>1, BurdenIs
<1> QED
  BY <1>2, <1>3, <1>4, <1>5

LEMMA RereadStays ==
  ASSUME NEW w \in Player, NEW i \in Item, NEW worn
  PROVE  fread_obj(w, i, worn) \in Player
<1>1. Closes(ItemAffect, Player, ItemPut)
  <2> SUFFICES ASSUME NEW a \in ItemAffect, NEW z \in Player PROVE ItemPut[a][z] \in Player
    BY DEF Closes
  <2>1. ItemPut[a][z] = Puts(z, a)
    BY DEF ItemPut, Puts
  <2> QED
    BY <2>1, AffectsAre, ModifyStays
<1>2. Closes(ItemAffect, Player, ItemUndo)
  BY ItemUndoes DEF Undoer
<1>3. Gear[i] \in Seq(ItemAffect)
  BY GearIs
<1>4. \A v \in Player : [v EXCEPT !.worn = @ \cup {i}] \in Player /\ [v EXCEPT !.worn = @ \ {i}] \in Player
  BY DEF Player
<1>5. ASSUME NEW v \in Player PROVE equip_char(v, i) \in Player
  <2>1. Through(Gear[i], [v EXCEPT !.worn = @ \cup {i}], ItemPut) \in Player
    BY <1>1, <1>3, <1>4, ThroughStays
  <2> QED
    BY <2>1 DEF equip_char, ItemPut
<1>6. ASSUME NEW v \in Player PROVE unequip_char(v, i) \in Player
  <2>1. Through(Gear[i], [v EXCEPT !.worn = @ \ {i}], ItemUndo) \in Player
    BY <1>2, <1>3, <1>4, ThroughStays
  <2> QED
    BY <2>1, UnequipIs
<1> DEFINE has == <<i>> \o w.has
           held == [w EXCEPT !.has = has]
<1>7. has \in Seq(Item)
  BY DEF Player
<1> HIDE DEF has
<1>8. held \in Player
  BY <1>7 DEF Player
<1>9. fread_obj(w, i, worn)
      = IF i \notin worn THEN held ELSE equip_char(unequip_char([held EXCEPT !.worn = @ \cup {i}], i), i)
  BY DEF fread_obj, has
<1> HIDE DEF held
<1> QED
  BY <1>4, <1>5, <1>6, <1>8, <1>9

\* What a turn has when the item is in hand.
Holds(w, i, held) ==
  /\ held \in Player /\ held.affected = w.affected /\ held.mod = w.mod /\ held.worn = w.worn
  /\ held.flags = w.flags /\ held.has = <<i>> \o w.has

\* What it makes of a worn one.
Reworn(w, i, v, X) ==
  /\ Sound(v, X, {}) /\ Light(v) /\ v.affected = w.affected
  /\ v.mod["STR"] = w.mod["STR"] /\ v.worn \subseteq w.worn \cup {i} /\ i \in v.worn
  /\ w.worn \ v.worn \subseteq Weapon /\ ToSet(v.has) \subseteq ToSet(w.has) \cup {i}

\* The turn of an item that was worn, once it is off.
LEMMA Reshedding ==
  ASSUME SteadyWeapons, NEW u, Good(u), NEW list \in Seq(Item), IsInjective(list), NEW k \in 1 .. Len(list),
         NEW w \in Bodies(u, list, k - 1), list[k] \in u.worn,
         NEW held, Holds(w, list[k], held), NEW v, v = equip_char(Through(Gear[list[k]], held, ItemUndo), list[k])
  PROVE  Reworn(w, list[k], v, Loose(u, list, k))
<1> DEFINE i == list[k]
           X == Loose(u, list, k - 1)
           Z == Loose(u, list, k)
           off == Through(Gear[i], held, ItemUndo)
           rest == w.worn
<1>0. /\ w \in Player /\ Sound(w, X, {}) /\ Light(w) /\ w.mod["STR"] = u.mod["STR"]
      /\ rest \subseteq Read(list, k - 1) \cap u.worn /\ ToSet(w.has) \subseteq Read(list, k - 1)
  BY DEF Bodies
<1>01. /\ held \in Player /\ held.affected = w.affected /\ held.mod = w.mod /\ held.worn = w.worn
       /\ held.flags = w.flags /\ held.has = <<i>> \o w.has
  BY DEF Holds
<1>1. /\ i \in Item /\ i \notin Read(list, k - 1) /\ Unread(list, k - 1) = Unread(list, k) \cup {i}
  BY ReadIs
<1>2. i \notin rest /\ i \notin ToSet(w.has)
  BY <1>0, <1>1
<1>3. Sheds(X, i, Z)
  BY <1>1 DEF Sheds, Loose
<1>4. w.has \in Seq(Item) /\ IsInjective(w.has) /\ w.worn \subseteq ToSet(w.has)
  BY <1>0 DEF Sound, Orderly, Player
<1>5. IsInjective(held.has) /\ ToSet(held.has) = ToSet(w.has) \cup {i}
  BY <1>01, <1>1, <1>2, <1>4, Prepended
<1>6. Sound(held, X, {}) /\ Light(held)
  <2>1. Orderly(held)
    BY <1>0, <1>01, <1>4, <1>5 DEF Sound, Orderly, OneWeapon
  <2>2. Given(held) = Given(w)
    BY <1>01, SameGiven
  <2>3. Bits(held, X, {})
    BY <1>0, <1>01, <2>2 DEF Sound, Bits
  <2>4. Light(held)
    BY <1>0, <1>01, SameLight
  <2> QED
    BY <2>1, <2>3, <2>4 DEF Sound
<1> HIDE DEF X, Z, off
<1>7. /\ Sound(off, Z, {}) /\ Light(off) /\ Less(held, off)
      /\ \A l \in Loc : Off(off, l) = Off(held, l) - Amount(Gear[i], l)
  BY <1>1, <1>3, <1>6, Unwearing DEF off
<1>8. i \in ToSet(off.has) /\ i \notin off.worn /\ off.worn \subseteq rest /\ rest \ off.worn \subseteq Weapon
  BY <1>01, <1>2, <1>5, <1>7 DEF Less
<1>9. off \in Player /\ "STR" \in Loc
  BY <1>7 DEF Sound, Orderly, Loc
<1>10. rest \in SUBSET Item /\ Amount(Gear[i], "STR") \in Int
  <2>1. w.worn \in SUBSET Item
    BY <1>0 DEF Player
  <2>2. Amount(Gear[i], "STR") \in Int
    BY <1>1, GearIs, WeighIs
  <2> QED
    BY <2>1, <2>2
<1>11. Bears(off, i)
  <2> SUFFICES ASSUME i \in Weapon PROVE off.worn \cap Weapon = {} /\ ~TooHeavy(off, i)
    BY DEF Bears
  <2>1. \A j \in u.worn \cap Weapon : j = i
    BY DEF Good, Sound, Orderly, OneWeapon
  <2>2. off.worn \cap Weapon = {}
    BY <1>0, <1>8, <2>1
  <2>3. Amount(Gear[i], "STR") = 0
    BY SteadyIs
  <2>4. OfGear(rest, "STR") = OfGear(off.worn, "STR")
    BY <1>8, <1>10, WeaponsWeighNothing
  <2>5. Off(off, "STR") = Off(held, "STR") - 0
    BY <1>7, <1>9, <2>3
  <2>6. off.affected = held.affected
    BY <1>7 DEF Less
  <2>7. /\ held.mod["STR"] \in Int /\ off.mod["STR"] \in Int /\ Amount(held.affected, "STR") \in Int
        /\ OfGear(rest, "STR") \in Int
    BY <1>01, <1>9, PlayerIs
  <2>8. off.mod["STR"] = held.mod["STR"]
    BY <1>01, <2>4, <2>5, <2>6, <2>7 DEF Off
  <2>9. ~TooHeavy(u, i)
    BY DEF Good, Light
  <2>10. off.mod["STR"] = u.mod["STR"]
    BY <1>0, <1>01, <2>8
  <2> QED
    BY <2>2, <2>9, <2>10 DEF TooHeavy, Strength
<1>12. v = equip_char(off, i)
  BY DEF off
<1>13. /\ Sound(v, Z, {}) /\ Light(v) /\ SameOff(off, v) /\ i \in v.worn
       /\ v.affected = off.affected /\ v.worn \subseteq off.worn \cup {i} /\ off.worn \ v.worn \subseteq Weapon
       /\ ToSet(v.has) \subseteq ToSet(off.has)
  BY <1>1, <1>7, <1>8, <1>11, <1>12, Equipping
<1>14. v.mod["STR"] = w.mod["STR"]
  <2> DEFINE all == rest \cup {i}
             less == v.worn
  <2>1. all \in SUBSET Item /\ i \in all /\ all \ {i} = rest /\ less \in SUBSET all /\ all \ less \subseteq Weapon
    BY <1>1, <1>2, <1>8, <1>10, <1>13
  <2> HIDE DEF all, less
  <2>2. OfGear(all, "STR") = OfGear(less, "STR")
    BY <2>1, WeaponsWeighNothing
  <2>3. OfGear(all, "STR") = OfGear(rest, "STR") + Amount(Gear[i], "STR")
    BY <2>1, WornLess
  <2>4. Off(v, "STR") = Off(off, "STR") /\ Off(off, "STR") = Off(held, "STR") - Amount(Gear[i], "STR")
    BY <1>7, <1>9, <1>13 DEF SameOff
  <2>5. v.affected = held.affected
    BY <1>7, <1>13 DEF Less
  <2>6. v \in Player
    BY <1>13 DEF Sound, Orderly
  <2>7. /\ held.mod["STR"] \in Int /\ v.mod["STR"] \in Int /\ Amount(held.affected, "STR") \in Int
        /\ OfGear(rest, "STR") \in Int /\ OfGear(less, "STR") \in Int
    BY <1>01, <1>9, <2>6, PlayerIs DEF less
  <2>8. /\ Off(v, "STR") = v.mod["STR"] - Amount(held.affected, "STR") - OfGear(less, "STR")
        /\ Off(held, "STR") = held.mod["STR"] - Amount(held.affected, "STR") - OfGear(rest, "STR")
    BY <1>01, <2>5 DEF Off, less
  <2>9. v.mod["STR"] = held.mod["STR"]
    BY <1>10, <2>2, <2>3, <2>4, <2>7, <2>8
  <2> QED
    BY <1>01, <2>9
<1>15. ToSet(v.has) \subseteq ToSet(w.has) \cup {i}
  BY <1>01, <1>5, <1>7, <1>13 DEF Less
<1>16. v.affected = w.affected
  BY <1>01, <1>7, <1>13 DEF Less
<1>17. rest \ v.worn \subseteq Weapon /\ v.worn \subseteq rest \cup {i}
  BY <1>8, <1>13
<1> QED
  BY <1>13, <1>14, <1>15, <1>16, <1>17 DEF Z, Reworn

LEMMA Rereading ==
  ASSUME SteadyWeapons, NEW u, Good(u), NEW list \in Seq(Item), IsInjective(list), NEW k \in 1 .. Len(list),
         NEW w \in Bodies(u, list, k - 1)
  PROVE  fread_obj(w, list[k], u.worn) \in Bodies(u, list, k)
<1> DEFINE i == list[k]
           held == [w EXCEPT !.has = <<i>> \o @]
           v == fread_obj(w, i, u.worn)
<1>0. /\ w \in Player /\ Sound(w, Loose(u, list, k - 1), {}) /\ Light(w) /\ w.mod["STR"] = u.mod["STR"]
      /\ w.affected = Reverse(u.affected)
      /\ w.worn \subseteq Read(list, k - 1) \cap u.worn /\ ToSet(w.has) \subseteq Read(list, k - 1)
      /\ (Read(list, k - 1) \cap u.worn) \ w.worn \subseteq Weapon
  BY DEF Bodies
<1>1. /\ i \in Item /\ i \notin Read(list, k - 1) /\ Unread(list, k - 1) = Unread(list, k) \cup {i}
      /\ Read(list, k) = Read(list, k - 1) \cup {i}
  BY ReadIs
<1>2. v \in Player
  BY <1>0, <1>1, RereadStays
<1>3. /\ held \in Player /\ held.affected = w.affected /\ held.mod = w.mod /\ held.worn = w.worn
      /\ held.flags = w.flags /\ held.has = <<i>> \o w.has
  <2> DEFINE has == <<i>> \o w.has
  <2>1. has \in Seq(Item) /\ held = [w EXCEPT !.has = has]
    BY <1>0, <1>1 DEF Player
  <2> HIDE DEF has
  <2>2. /\ held \in Player /\ held.affected = w.affected /\ held.mod = w.mod /\ held.worn = w.worn
        /\ held.flags = w.flags /\ held.has = has
    BY <1>0, <2>1 DEF Player
  <2> QED
    BY <2>2 DEF has
<1>4. CASE i \in u.worn
  <2>1. i \notin w.worn
    BY <1>0, <1>1
  <2>2. v = equip_char(Through(Gear[i], held, ItemUndo), i)
    BY <1>0, <1>1, <1>4, <2>1, RereadIs
  <2> HIDE DEF v, held
  <2>21. Holds(w, i, held)
    BY <1>3 DEF Holds
  <2>22. Reworn(w, i, v, Loose(u, list, k))
    BY <1>4, <2>2, <2>21, Reshedding
  <2>3. /\ Sound(v, Loose(u, list, k), {}) /\ Light(v) /\ v.affected = w.affected
        /\ v.mod["STR"] = w.mod["STR"] /\ v.worn \subseteq w.worn \cup {i} /\ i \in v.worn
        /\ w.worn \ v.worn \subseteq Weapon /\ ToSet(v.has) \subseteq ToSet(w.has) \cup {i}
    BY <2>22 DEF Reworn
  <2> HIDE DEF i
  <2>4. v \in Bodies(u, list, k)
    BY <1>0, <1>1, <1>2, <1>4, <2>3 DEF Bodies
  <2> QED
    BY <2>4 DEF v, i
<1>5. CASE i \notin u.worn
  <2>1. v = held
    BY <1>5 DEF fread_obj
  <2>2. Loose(u, list, k) = Loose(u, list, k - 1)
    BY <1>1, <1>5 DEF Loose
  <2>3. w.has \in Seq(Item) /\ IsInjective(w.has) /\ w.worn \subseteq ToSet(w.has) /\ i \notin ToSet(w.has)
    BY <1>0, <1>1 DEF Sound, Orderly, Player
  <2> HIDE DEF held
  <2>4. IsInjective(held.has) /\ ToSet(held.has) = ToSet(w.has) \cup {i}
    BY <1>1, <1>3, <2>3, Prepended
  <2>5. Orderly(held)
    BY <1>0, <1>3, <2>3, <2>4 DEF Sound, Orderly, OneWeapon
  <2>6. Given(held) = Given(w)
    BY <1>3, SameGiven
  <2>7. Bits(held, Loose(u, list, k), {})
    BY <1>0, <1>3, <2>2, <2>6 DEF Sound, Bits
  <2>8. Light(held)
    BY <1>0, <1>3, SameLight
  <2>9. /\ held.worn \subseteq Read(list, k) \cap u.worn /\ (Read(list, k) \cap u.worn) \ held.worn \subseteq Weapon
        /\ ToSet(held.has) \subseteq Read(list, k)
    BY <1>0, <1>1, <1>3, <1>5, <2>4
  <2>10. held \in Bodies(u, list, k)
    BY <1>0, <1>3, <2>5, <2>7, <2>8, <2>9 DEF Bodies, Sound
  <2> QED
    BY <2>1, <2>10
<1> QED
  BY <1>4, <1>5

LEMMA Reversed ==
  ASSUME NEW S, NEW s \in Seq(S)
  PROVE  /\ Reverse(s) \in Seq(S) /\ Len(Reverse(s)) = Len(s) /\ ToSet(Reverse(s)) = ToSet(s)
         /\ IsInjective(s) => IsInjective(Reverse(s))
         /\ \A k \in DOMAIN s : \E j \in DOMAIN s : Reverse(s)[k] = s[j]
         /\ \A k \in DOMAIN s : \E j \in DOMAIN s : Reverse(s)[j] = s[k]
<1> DEFINE r == Reverse(s)
           n == Len(s)
<1>1. n \in Nat /\ DOMAIN s = 1 .. n /\ \A k \in 1 .. n : s[k] \in S
  OBVIOUS
<1>2. r = [k \in 1 .. n |-> s[n - k + 1]]
  BY DEF Reverse
<1> HIDE DEF r, n
<1>3. \A k \in 1 .. n : n - k + 1 \in 1 .. n /\ n - (n - k + 1) + 1 = k
  BY <1>1
<1>4. DOMAIN r = 1 .. n /\ \A k \in 1 .. n : r[k] = s[n - k + 1] /\ r[n - k + 1] = s[k]
  BY <1>2, <1>3
<1>5. r \in Seq(S) /\ Len(r) = n
  <2>1. r \in [1 .. n -> S]
    BY <1>1, <1>2, <1>3
  <2> QED
    BY <1>1, <2>1
<1>6. \A k \in DOMAIN s : \E j \in DOMAIN s : r[k] = s[j]
  BY <1>1, <1>3, <1>4
<1>7. \A k \in DOMAIN s : \E j \in DOMAIN s : r[j] = s[k]
  BY <1>1, <1>3, <1>4
<1>8. ToSet(r) = ToSet(s)
  BY <1>1, <1>4, <1>6, <1>7 DEF ToSet
<1>9. IsInjective(s) => IsInjective(r)
  <2> SUFFICES ASSUME IsInjective(s), NEW i \in DOMAIN r, NEW j \in DOMAIN r, r[i] = r[j] PROVE i = j
    BY DEF IsInjective
  <2>1. n - i + 1 \in DOMAIN s /\ n - j + 1 \in DOMAIN s /\ s[n - i + 1] = s[n - j + 1]
    BY <1>1, <1>3, <1>4
  <2>2. n - i + 1 = n - j + 1
    BY <2>1 DEF IsInjective
  <2> QED
    BY <1>1, <1>4, <2>2
<1> QED
  BY <1>5, <1>6, <1>7, <1>8, <1>9 DEF r, n

\* What fread_char has of the file before it reads the things.
Body(u) == [u EXCEPT !.affected = Reverse(@), !.flags = @ \cup Innate, !.has = <<>>, !.worn = {}]

LEMMA BodyIs ==
  ASSUME NEW u, Good(u), NEW list, list = Reverse(u.has)
  PROVE  Body(u) \in Bodies(u, list, 0)
<1> DEFINE w == Body(u)
           X == Loose(u, list, 0)
<1>0. /\ u \in Player /\ u.affected \in Seq(SpellAffect) /\ u.has \in Seq(Item) /\ u.flags \in SUBSET Flag
      /\ u.worn \subseteq ToSet(u.has)
  BY DEF Good, Sound, Orderly, Player
<1>1. Reverse(u.affected) \in Seq(SpellAffect) /\ DOMAIN Reverse(u.affected) = DOMAIN u.affected
  <2>1. Reverse(u.affected) \in Seq(SpellAffect) /\ Len(Reverse(u.affected)) = Len(u.affected)
    BY <1>0, Reversed
  <2> QED
    BY <1>0, <2>1
<1>2. /\ w \in Player /\ w.affected = Reverse(u.affected) /\ w.flags = u.flags \cup Innate /\ w.has = <<>>
      /\ w.worn = {} /\ w.mod = u.mod
  <2> DEFINE back == Reverse(u.affected)
             flags == u.flags \cup Innate
  <2>1. back \in Seq(SpellAffect) /\ flags \in SUBSET Flag /\ <<>> \in Seq(Item)
    BY <1>0, <1>1, AffectsConstants
  <2>2. w = [u EXCEPT !.affected = back, !.flags = flags, !.has = <<>>, !.worn = {}]
    BY DEF Body
  <2> HIDE DEF w, back, flags
  <2>3. /\ w \in Player /\ w.affected = back /\ w.flags = flags /\ w.has = <<>>
        /\ w.worn = {} /\ w.mod = u.mod
    BY <1>0, <2>1, <2>2 DEF Player
  <2> QED
    BY <2>3 DEF back, flags
<1> HIDE DEF w
<1>3. list \in Seq(Item) /\ ToSet(list) = ToSet(u.has)
  BY <1>0, Reversed
<1>4. Unread(list, 0) = ToSet(list) /\ Read(list, 0) = {}
  BY <1>3 DEF Unread, Read, ToSet
<1>5. X = UNION {Flags(i) : i \in u.worn}
  <2>1. Unread(list, 0) \cap u.worn = u.worn
    BY <1>0, <1>3, <1>4
  <2> QED
    BY <2>1 DEF Loose
<1> HIDE DEF X
<1>6. /\ \A k \in DOMAIN w.affected : \E j \in DOMAIN u.affected : w.affected[k] = u.affected[j]
      /\ \A k \in DOMAIN u.affected : \E j \in DOMAIN w.affected : w.affected[j] = u.affected[k]
  BY <1>0, <1>1, <1>2, Reversed
<1>7. \A k \in DOMAIN w.affected : Proper(w.affected[k])
  BY <1>6 DEF Good, Sound, Orderly
<1>8. Given(u) \subseteq Given(w) \cup X /\ Given(w) \subseteq Given(u)
  BY <1>2, <1>5, <1>6 DEF Given, Flags
<1>9. Bits(w, X, {})
  BY <1>2, <1>8 DEF Good, Sound, Bits
<1>10. ToSet(w.has) = {} /\ IsInjective(w.has)
  BY <1>2 DEF ToSet, IsInjective
<1>11. Orderly(w)
  BY <1>2, <1>7, <1>10 DEF Orderly, OneWeapon
<1>12. Light(w)
  BY <1>2 DEF Light
<1> QED
  BY <1>2, <1>4, <1>9, <1>10, <1>11, <1>12 DEF Bodies, Sound, X, w

\* The turns of the login.
Reader(u) == [i \in Item |-> [v \in Player |-> fread_obj(v, i, u.worn)]]

LEMMA Reading ==
  ASSUME SteadyWeapons, NEW u, Good(u), NEW v, v = Through(Reverse(u.has), Body(u), Reader(u))
  PROVE  /\ v \in Player /\ Sound(v, {}, {}) /\ Light(v) /\ v.affected = Reverse(u.affected)
         /\ v.worn \subseteq u.worn /\ u.worn \ v.worn \subseteq Weapon /\ v.mod["STR"] = u.mod["STR"]
<1> DEFINE list == Reverse(u.has)
           G == [k \in 0 .. Len(list) |-> Bodies(u, list, k)]
<1>0. u.has \in Seq(Item) /\ IsInjective(u.has) /\ u.worn \subseteq ToSet(u.has)
  BY DEF Good, Sound, Orderly, Player
<1>1. list \in Seq(Item) /\ IsInjective(list) /\ ToSet(list) = ToSet(u.has)
  BY <1>0, Reversed
<1>2. Body(u) \in Bodies(u, list, 0)
  BY BodyIs
<1> HIDE DEF list
<1>3. Len(list) \in Nat /\ DOMAIN list = 1 .. Len(list)
  BY <1>1
<1>4. Body(u) \in Player /\ Body(u) \in G[0]
  BY <1>2, <1>3 DEF Bodies
<1>5. Closes(Item, Player, Reader(u))
  <2> SUFFICES ASSUME NEW i \in Item, NEW z \in Player PROVE Reader(u)[i][z] \in Player
    BY DEF Closes
  <2>1. Reader(u)[i][z] = fread_obj(z, i, u.worn)
    BY DEF Reader
  <2> QED
    BY <2>1, RereadStays
<1>6. Passes(list, G, Reader(u))
  <2> SUFFICES ASSUME NEW k \in 1 .. Len(list), NEW z \in G[k - 1] PROVE Reader(u)[list[k]][z] \in G[k]
    BY DEF Passes
  <2>1. k - 1 \in 0 .. Len(list) /\ k \in 0 .. Len(list) /\ list[k] \in Item
    BY <1>1, <1>3
  <2>2. z \in Bodies(u, list, k - 1)
    BY <2>1
  <2>3. Reader(u)[list[k]][z] = fread_obj(z, list[k], u.worn)
    BY <2>1, <2>2 DEF Reader, Bodies
  <2>4. fread_obj(z, list[k], u.worn) \in Bodies(u, list, k)
    BY <1>1, <2>2, Rereading
  <2> QED
    BY <2>1, <2>3, <2>4
<1>7. v = Through(list, Body(u), Reader(u))
  BY DEF list
<1> HIDE DEF G
<1>8. v \in G[Len(list)]
  BY <1>1, <1>4, <1>5, <1>6, <1>7, ThroughArrives
<1>9. v \in Bodies(u, list, Len(list))
  BY <1>3, <1>8 DEF G
<1>10. Unread(list, Len(list)) = {} /\ Read(list, Len(list)) = ToSet(list)
  <2>1. Len(list) + 1 .. Len(list) = {}
    BY <1>3
  <2> QED
    BY <1>3, <2>1 DEF Unread, Read, ToSet
<1>11. Loose(u, list, Len(list)) = {}
  BY <1>10 DEF Loose
<1>12. ToSet(list) \cap u.worn = u.worn
  BY <1>0, <1>1
<1> QED
  BY <1>9, <1>10, <1>11, <1>12 DEF Bodies

LEMMA LoggingIn ==
  ASSUME SteadyWeapons, NEW u, Good(u), NEW v, v = Through(Reverse(u.has), Body(u), Reader(u))
  PROVE  Good([reset_char(v) EXCEPT !.playing = TRUE])
<1> DEFINE T == Totals(v)
           z == [reset_char(v) EXCEPT !.playing = TRUE]
<1>1. /\ v \in Player /\ Sound(v, {}, {}) /\ Light(v) /\ v.affected = Reverse(u.affected)
      /\ v.worn \subseteq u.worn /\ u.worn \ v.worn \subseteq Weapon /\ v.mod["STR"] = u.mod["STR"]
  BY Reading
<1>2. u \in Player /\ Exact(u) /\ u.affected \in Seq(SpellAffect) /\ u.worn \in SUBSET Item
  BY DEF Good, Sound, Orderly, Player
<1>3. T = [l \in Loc |-> Amount(v.affected, l) + OfGear(v.worn, l)]
  BY <1>1, TotalsAre
<1>4. \A l \in Loc : Amount(v.affected, l) \in Int /\ OfGear(v.worn, l) \in Int
  BY <1>1, PlayerIs
<1>5. T \in [Loc -> Int] /\ "STR" \in Loc
  BY <1>3, <1>4 DEF Loc
<1>6. z = [[v EXCEPT !.mod = T] EXCEPT !.playing = TRUE]
  BY DEF reset_char
<1> HIDE DEF T, z
<1>7. /\ z \in Player /\ z.affected = v.affected /\ z.worn = v.worn /\ z.has = v.has /\ z.flags = v.flags
      /\ z.mod = T
  BY <1>1, <1>5, <1>6 DEF Player
<1>8. Sound(z, {}, {})
  <2>1. Orderly(z) /\ Given(z) = Given(v)
    BY <1>1, <1>7, SameKept DEF Sound
  <2> QED
    BY <1>1, <1>7, <2>1 DEF Sound, Bits
<1>9. T["STR"] = u.mod["STR"]
  <2>1. T["STR"] = Amount(v.affected, "STR") + OfGear(v.worn, "STR")
    BY <1>3, <1>5
  <2>2. Amount(v.affected, "STR") = Amount(u.affected, "STR")
    BY <1>1, <1>2, AmountReversed
  <2>3. OfGear(u.worn, "STR") = OfGear(v.worn, "STR")
    BY <1>1, <1>2, WeaponsWeighNothing
  <2>4. u.mod["STR"] - Amount(u.affected, "STR") - OfGear(u.worn, "STR") = 0
    BY <1>2, <1>5 DEF Exact, Off
  <2>5. u.mod["STR"] \in Int /\ Amount(u.affected, "STR") \in Int /\ OfGear(u.worn, "STR") \in Int
    BY <1>2, <1>5, PlayerIs
  <2> QED
    BY <2>1, <2>2, <2>3, <2>4, <2>5
<1>10. Light(z)
  BY <1>1, <1>7, <1>9, SameLight
<1>11. Exact(z)
  <2> SUFFICES ASSUME NEW l \in Loc PROVE Off(z, l) = 0
    BY DEF Exact
  <2>1. z.mod[l] = Amount(z.affected, l) + OfGear(z.worn, l)
    BY <1>3, <1>7
  <2>2. Amount(z.affected, l) \in Int /\ OfGear(z.worn, l) \in Int
    BY <1>4, <1>7
  <2> QED
    BY <2>1, <2>2 DEF Off
<1> QED
  BY <1>8, <1>10, <1>11 DEF Good, z

----------------------------------------------------------------------------
\* What the player goes through.

LEMMA AmountOfNone ==
  ASSUME NEW l
  PROVE  Amount(<<>>, l) = 0
<1>1. <<>> \in Seq(SpellAffect) /\ DOMAIN <<>> = {}
  OBVIOUS
<1>2. Amount(<<>>, l) = SumFunctionOnSet(Weigh(<<>>, l), {})
  BY <1>1, ListsAre, WeighIs
<1>3. SumFunctionOnSet(Weigh(<<>>, l), {}) = 0
  <2>1. IsFiniteSet({}) /\ {} \in SUBSET DOMAIN <<>>
    BY FS_EmptySet
  <2> QED
    BY <1>1, <2>1, ListsAre, WeighIs, SumType
<1> QED
  BY <1>2, <1>3

LEMMA InitGood == AffectsInit => Good(ch)
<1> SUFFICES ASSUME AffectsInit PROVE Good(ch)
  OBVIOUS
<1>1. /\ ch.affected = <<>> /\ ch.mod = [loc \in Loc |-> 0] /\ ch.flags = Innate
      /\ ch.worn = {} /\ ch.has = <<>> /\ ch.playing = TRUE
  BY DEF AffectsInit
<1>2. ch \in Player
  <2>1. <<>> \in Seq(SpellAffect) /\ <<>> \in Seq(Item) /\ [loc \in Loc |-> 0] \in [Loc -> Int]
    OBVIOUS
  <2> QED
    BY <2>1, AffectsConstants DEF AffectsInit, Player
<1>3. ToSet(ch.has) = {} /\ IsInjective(ch.has)
  BY <1>1 DEF ToSet, IsInjective
<1>4. Orderly(ch)
  BY <1>1, <1>2, <1>3 DEF Orderly, OneWeapon
<1>5. Bits(ch, {}, {})
  BY <1>1 DEF Bits, Given
<1>6. Light(ch)
  BY <1>1 DEF Light
<1>7. Exact(ch)
  <2> SUFFICES ASSUME NEW l \in Loc PROVE Off(ch, l) = 0
    BY DEF Exact
  <2>1. ch.mod[l] = 0
    BY <1>1
  <2>2. Amount(ch.affected, l) = 0
    BY <1>1, AmountOfNone
  <2>3. OfGear(ch.worn, l) = 0
    BY <1>1, BurdenIs
  <2> QED
    BY <2>1, <2>2, <2>3 DEF Off
<1> QED
  BY <1>4, <1>5, <1>6, <1>7 DEF Good, Sound

LEMMA CastGood ==
  ASSUME Good(ch), NEW s \in Known, Cast(s)
  PROVE  Good(ch')
<1>1. PICK w \in Enchanted(ch, Spell[s]) :
         ch' \in {w} \cup IF Spell[s].harms THEN {strip_negative_affects(w)} ELSE {}
  BY DEF Cast
<1>2. Good(w)
  BY RowsAreProper, Enchanting
<1>3. ch' = w \/ ch' = strip_negative_affects(w)
  BY <1>1
<1> QED
  BY <1>2, <1>3, Relieving

LEMMA PoisonedGood ==
  ASSUME Good(ch), Poisoned
  PROVE  Good(ch')
<1> DEFINE none == 0
           loss == -1
<1>1. PICK a \in {Poison("NONE", none), Poison("STR", loss)} : ch' = affect_join(ch, a)
  BY DEF Poisoned
<1>2. none \in Int /\ none <= 0 /\ loss \in Int /\ loss <= 0 /\ "NONE" \in Loc /\ "STR" \in Loc
  BY DEF Loc
<1> HIDE DEF none, loss
<1>3. a \in SpellAffect /\ Joinable(a)
  BY <1>2, JoinableIs
<1> QED
  BY <1>1, <1>3, Joining

LEMMA EndsGood ==
  ASSUME Good(ch), Deadly = {}, Dispel \/ Relieved \/ \E s \in Skills(ch) : Expire(s)
  PROVE  Good(ch')
<1>1. CASE Dispel
  BY <1>1, StrippingAll DEF Dispel
<1>2. CASE Relieved
  BY <1>2, Relieving DEF Relieved
<1>3. CASE \E s \in Skills(ch) : Expire(s)
  <2>1. PICK s \in Skills(ch) : Expire(s)
    BY <1>3
  <2>2. ch' = affect_strip(ch, s)
    BY <2>1 DEF Expire
  <2> QED
    BY <2>2, Stripping
<1> QED
  BY <1>1, <1>2, <1>3

LEMMA RevealGood ==
  ASSUME Good(ch), Reveal \/ Strike
  PROVE  Good(ch')
<1>1. CASE Reveal
  <2>1. PICK also \in {{}, {"darkness"}} :
           ch' = [StripAll(ch, Concealing \cup also) EXCEPT !.flags = @ \ Concealed]
    BY <1>1 DEF Reveal
  <2>2. Good(StripAll(ch, Concealing \cup also))
    BY StrippingAll
  <2> QED
    BY <2>1, <2>2, Veiled, VeilsDoNotBind
<1>2. CASE Strike
  <2> DEFINE F == {Aff("invisible")}
             off == StripAll(ch, {"invisibility", "mass invisibility"})
             shown == [off EXCEPT !.flags = @ \ F]
             seen == IF On(ch, F) THEN shown ELSE ch
             awake == IF On(ch, {Aff("sleep")}) THEN StripAll(seen, {"sleep"}) ELSE seen
  <2>1. ch' = StripAll(awake, {"darkness"})
    BY <1>2 DEF Strike
  <2>2. Good(off)
    BY StrippingAll
  <2>3. F \cap Binding = {}
    BY VeilsDoNotBind
  <2> HIDE DEF off, F
  <2>4. Good(shown)
    BY <2>2, <2>3, Veiled
  <2> HIDE DEF shown
  <2>5. Good(seen)
    BY <2>4
  <2> HIDE DEF seen
  <2>6. Good(awake)
    BY <2>5, StrippingAll
  <2> HIDE DEF awake
  <2> QED
    BY <2>1, <2>6, StrippingAll
<1> QED
  BY <1>1, <1>2

LEMMA StealthGood ==
  ASSUME Good(ch), do_sneak \/ do_hide
  PROVE  Good(ch')
<1>1. CASE do_sneak
  <2> DEFINE a == Affect("sneak", "NONE", 0, Aff("sneak"))
             Loud(w) == IF On(w, {Aff("sneak")}) THEN affect_strip(w, "sneak") ELSE w
  <2>1. PICK w \in Revealed(ch) : ch' \in {Loud(w), affect_to_char(Loud(w), a)}
    BY <1>1 DEF do_sneak
  <2>2. Good(w)
    BY Revealing
  <2>3. Good(Loud(w))
    BY <2>2, Stripping
  <2>4. a \in SpellAffect /\ Proper(a)
    <3>1. "sneak" \in Harmless
      BY DEF Harmless, Worsening, SkillWord
    <3>2. Mends("NONE", 0, Aff("sneak"))
      BY FlagsAre DEF AffectWord, Mends, Loc
    <3> QED
      BY <3>1, <3>2, AffectIs
  <2> HIDE DEF a, Loud
  <2>5. Good(affect_to_char(Loud(w), a))
    BY <2>3, <2>4, Giving
  <2> QED
    BY <2>1, <2>3, <2>5
<1>2. CASE do_hide
  <2> DEFINE F == {Aff("hide")}
  <2>1. PICK w \in Revealed(ch) : ch' = [w EXCEPT !.flags = @ \ F] \/ ch' = Flagged(w, Aff("hide"))
    BY <1>2 DEF do_hide
  <2>2. Good(w) /\ w \in Player /\ w.flags \in SUBSET Flag
    BY Revealing DEF Player
  <2>3. F \cap Binding = {}
    BY VeilsDoNotBind
  <2>4. CASE ch' = [w EXCEPT !.flags = @ \ F]
    <3> HIDE DEF F
    <3> QED
      BY <2>2, <2>3, <2>4, Veiled
  <2>5. CASE ch' = Flagged(w, Aff("hide"))
    <3>1. Aff("hide") \in Flag /\ Aff("hide") # None
      BY FlagsAre, AffectsConstants DEF AffectWord
    <3>2. ch' = [w EXCEPT !.flags = @ \cup F]
      BY <2>5, <3>1 DEF Flagged
    <3>3. Masks(w, ch')
      BY <2>2, <3>1, <3>2 DEF Masks, Player
    <3> QED
      BY <2>2, <3>3, Masked
  <2> QED
    BY <2>1, <2>4, <2>5
<1> QED
  BY <1>1, <1>2

LEMMA GearGood ==
  ASSUME SteadyWeapons, Good(ch), NEW i \in Item, Wear(i) \/ do_remove(i)
  PROVE  Good(ch')
<1>1. CASE Wear(i)
  <2> DEFINE Bare(w) == IF i \in Weapon THEN Over(w.worn \cap Weapon, w, Offs) ELSE w
  <2>1. /\ Contains(ch.has, i) /\ i \notin ch.worn
        /\ \E w \in Revealed(ch) :
             ch' = IF i \in Weapon /\ TooHeavy(Bare(w), i) THEN Bare(w) ELSE equip_char(Bare(w), i)
    BY <1>1 DEF Wear, Offs
  <2>2. PICK w \in Revealed(ch) :
             ch' = IF i \in Weapon /\ TooHeavy(Bare(w), i) THEN Bare(w) ELSE equip_char(Bare(w), i)
    BY <2>1
  <2>3. Good(w) /\ i \notin w.worn /\ i \in ToSet(w.has)
    <3>1. i \in ToSet(ch.has)
      BY <2>1 DEF Contains, ToSet
    <3> QED
      BY <2>1, <3>1, Revealing
  <2>4. Good(Bare(w)) /\ i \notin Bare(w).worn /\ i \in ToSet(Bare(w).has) /\ (i \in Weapon => Bare(w).worn \cap Weapon = {})
    <3>1. CASE i \in Weapon
      BY <2>3, <3>1, Baring
    <3>2. CASE i \notin Weapon
      BY <2>3, <3>2
    <3> QED
      BY <3>1, <3>2
  <2> DEFINE bare == Bare(w)
  <2>5. ch' = IF i \in Weapon /\ TooHeavy(bare, i) THEN bare ELSE equip_char(bare, i)
    BY <2>2
  <2>6. Good(bare) /\ i \notin bare.worn /\ i \in ToSet(bare.has) /\ (i \in Weapon => bare.worn \cap Weapon = {})
    BY <2>4
  <2> HIDE DEF Bare, bare
  <2>7. CASE i \in Weapon /\ TooHeavy(bare, i)
    BY <2>5, <2>6, <2>7
  <2>8. CASE ~(i \in Weapon /\ TooHeavy(bare, i))
    <3>1. Bears(bare, i)
      BY <2>6, <2>8 DEF Bears
    <3> QED
      BY <2>5, <2>6, <2>8, <3>1, Wearing
  <2> QED
    BY <2>7, <2>8
<1>2. CASE do_remove(i)
  <2>1. PICK w \in Revealed(ch) : ch' = unequip_char(w, i)
    BY <1>2 DEF do_remove
  <2>2. Good(w) /\ i \in w.worn
    BY <1>2, Revealing DEF do_remove
  <2>3. Sound(ch', {}, {}) /\ Light(ch') /\ SameOff(w, ch')
    BY <2>1, <2>2, Unequipping DEF Good
  <2> QED
    BY <2>2, <2>3, StaysExact
<1> QED
  BY <1>1, <1>2

LEMMA CarryGood ==
  ASSUME Good(ch), NEW i \in Item, do_get(i) \/ do_drop(i)
  PROVE  Good(ch')
<1>1. CASE do_get(i)
  <2>1. PICK w \in Revealed(ch) : ch' = [w EXCEPT !.has = <<i>> \o @]
    BY <1>1 DEF do_get
  <2>2. Good(w) /\ w.has = ch.has /\ w.has \in Seq(Item) /\ IsInjective(w.has) /\ w.worn \subseteq ToSet(w.has)
    BY Revealing DEF Good, Sound, Orderly, Player
  <2>3. i \notin ToSet(w.has)
    BY <1>1, <2>2 DEF do_get, Contains, ToSet
  <2> DEFINE has == <<i>> \o w.has
  <2>4. has \in Seq(Item) /\ IsInjective(has) /\ ToSet(has) = ToSet(w.has) \cup {i}
    BY <2>2, <2>3, Prepended
  <2>5. ch' = [w EXCEPT !.has = has]
    BY <2>1
  <2> HIDE DEF has
  <2> QED
    BY <2>2, <2>4, <2>5, Laden
<1>2. CASE do_drop(i)
  <2>1. PICK w \in Revealed(ch) : ch' = [w EXCEPT !.has = RemoveFirst(@, i)]
    BY <1>2 DEF do_drop
  <2>2. /\ Good(w) /\ w.worn = ch.worn /\ w.has \in Seq(Item) /\ IsInjective(w.has)
        /\ w.worn \subseteq ToSet(w.has)
    BY Revealing DEF Good, Sound, Orderly, Player
  <2>3. i \notin w.worn
    BY <1>2, <2>2 DEF do_drop
  <2> DEFINE has == RemoveFirst(w.has, i)
  <2>4. has \in Seq(Item) /\ IsInjective(has) /\ ToSet(has) = ToSet(w.has) \ {i}
    BY <2>2, RemovedOnce
  <2>5. ch' = [w EXCEPT !.has = has]
    BY <2>1
  <2> HIDE DEF has
  <2> QED
    BY <2>2, <2>3, <2>4, <2>5, Laden
<1> QED
  BY <1>1, <1>2

LEMMA SavedGood ==
  ASSUME SteadyWeapons, Good(ch), do_quit \/ Login
  PROVE  Good(ch')
<1>1. CASE do_quit
  <2>1. PICK w \in Revealed(ch) :
           ch' = [w EXCEPT !.playing = FALSE, !.flags = {f \in @ : f[1] = "affected"}]
    BY <1>1 DEF do_quit
  <2>2. Good(w) /\ w \in Player
    BY Revealing
  <2> DEFINE kept == {f \in w.flags : f[1] = "affected"}
  <2>3. w.flags \in SUBSET Flag
    BY <2>2 DEF Player
  <2>4. kept \in SUBSET Flag /\ kept \subseteq w.flags /\ w.flags \cap Binding \subseteq kept
    BY <2>3 DEF Binding
  <2>5. ch' = [w EXCEPT !.playing = FALSE, !.flags = kept]
    BY <2>1
  <2> HIDE DEF kept
  <2>6. Masks(w, ch')
    BY <2>2, <2>4, <2>5 DEF Masks, Player
  <2> QED
    BY <2>2, <2>6, Masked
<1>2. CASE Login
  <2> DEFINE v == Through(Reverse(ch.has), Body(ch), Reader(ch))
  <2>1. ch' = [reset_char(v) EXCEPT !.playing = TRUE]
    BY <1>2 DEF Login, Body, Reader
  <2> HIDE DEF v
  <2>2. Good([reset_char(v) EXCEPT !.playing = TRUE])
    BY LoggingIn DEF v
  <2> QED
    BY <2>1, <2>2
<1> QED
  BY <1>1, <1>2

LEMMA NextGood ==
  SteadyWeapons /\ Deadly = {} /\ Good(ch) /\ [AffectsNext]_AffectsVars => Good(ch')
<1> SUFFICES ASSUME SteadyWeapons, Deadly = {}, Good(ch), [AffectsNext]_AffectsVars PROVE Good(ch')
  OBVIOUS
<1>1. ASSUME NEW s \in Known, Cast(s) PROVE Good(ch')
  BY <1>1, CastGood
<1>2. CASE Dispel \/ Relieved \/ \E s \in Skills(ch) : Expire(s)
  BY <1>2, EndsGood
<1>3. CASE Poisoned
  BY <1>3, PoisonedGood
<1>4. CASE Reveal \/ Strike
  BY <1>4, RevealGood
<1>5. CASE do_sneak \/ do_hide
  BY <1>5, StealthGood
<1>6. CASE do_quit \/ Login
  BY <1>6, SavedGood
<1>7. ASSUME NEW i \in Item, Wear(i) \/ do_remove(i) PROVE Good(ch')
  BY <1>7, GearGood
<1>8. ASSUME NEW i \in Item, do_get(i) \/ do_drop(i) PROVE Good(ch')
  BY <1>8, CarryGood
<1>9. CASE UNCHANGED AffectsVars
  BY <1>9 DEF AffectsVars
<1> QED
  BY <1>1, <1>2, <1>3, <1>4, <1>5, <1>6, <1>7, <1>8, <1>9 DEF AffectsNext

InStep == Good(ch)

LEMMA AffectsSpec_InStep == SteadyWeapons /\ Deadly = {} => (AffectsSpec => []InStep)
<1> SUFFICES ASSUME SteadyWeapons, Deadly = {} PROVE AffectsSpec => []InStep
  OBVIOUS
<1>1. AffectsInit => InStep
  BY InitGood DEF InStep
<1>2. InStep /\ [AffectsNext]_AffectsVars => InStep'
  BY NextGood DEF InStep
<1> QED
  BY <1>1, <1>2, PTL DEF AffectsSpec

\* Every number of a player in the game is the sum of what list and gear give.
THEOREM AffectsSpec_StatsExact == SteadyWeapons /\ Deadly = {} => (AffectsSpec => []StatsExact)
<1> SUFFICES ASSUME SteadyWeapons, Deadly = {} PROVE AffectsSpec => []StatsExact
  OBVIOUS
<1>1. InStep => StatsExact
  BY ExactMeans DEF InStep, StatsExact, Good, Sound, Orderly
<1> QED
  BY <1>1, AffectsSpec_InStep, PTL

\* A flag is set while race, list, gear or hiding explain it, and an AFF_ flag
\* that list or gear give is set unless it conceals.
THEOREM AffectsSpec_BitsExact == SteadyWeapons /\ Deadly = {} => (AffectsSpec => []BitsExact)
<1> SUFFICES ASSUME SteadyWeapons, Deadly = {} PROVE AffectsSpec => []BitsExact
  OBVIOUS
<1>1. InStep => BitsExact
  <2> SUFFICES ASSUME InStep PROVE BitsExact
    OBVIOUS
  <2>1. ch \in Player /\ Bits(ch, {}, {})
    BY DEF InStep, Good, Sound, Orderly
  <2>2. {f \in Given(ch) \ {None} : f[1] = "affected" /\ f \notin Concealed} \subseteq Given(ch) \cap Binding
    BY <2>1, GivenIs DEF Binding
  <2> QED
    BY <2>1, <2>2 DEF BitsExact, Bits
<1> QED
  BY <1>1, AffectsSpec_InStep, PTL

\* Nobody wields what they are too weak for.
THEOREM AffectsSpec_WieldedIsLight == SteadyWeapons /\ Deadly = {} => (AffectsSpec => []WieldedIsLight)
<1> SUFFICES ASSUME SteadyWeapons, Deadly = {} PROVE AffectsSpec => []WieldedIsLight
  OBVIOUS
<1>1. InStep => WieldedIsLight
  BY DEF InStep, Good, Sound, Orderly, Light, WieldedIsLight, AffectsTypeOK
<1> QED
  BY <1>1, AffectsSpec_InStep, PTL
=============================================================================
