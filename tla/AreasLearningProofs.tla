------------------------ MODULE AreasLearningProofs ------------------------
(***************************************************************************)
(* First Areas: for any rooms, exits, resets, bodies and objects the        *)
(* counters that resets go by are true; the two sides of a door agree and  *)
(* resets stay out of the hands of players where builders see to what      *)
(* DoorsMatch and ChestsFollow say.  Then Learning: for any skills, groups,  *)
(* classes and races the list of what a player knows is in order, holds    *)
(* nothing that was not paid for or given, and nobody spends sessions that *)
(* no level has brought.                                                   *)
(***************************************************************************)
EXTENDS Areas, Learning, Sums, TLAPS

----------------------------------------------------------------------------
\* The counters.

In(w, a) == {p \in Player : w.where[p] # Nil /\ AreaOf[w.where[p]] = a}
Made(w, k) == {o \in Existing(w) : Kind[o] = k}

PlayersTallied(w) ==
  Twins = {} =>
    \A a \in Area : /\ w.nplayer[a] = Cardinality(In(w, a))
                    /\ a \in w.empty => w.nplayer[a] = 0

KindsTallied(w) ==
  \A k \in Kinds : w.count[k] = Cardinality(Alive(w, k)) + Cardinality(Made(w, k))

----------------------------------------------------------------------------
\* Doors.

\* f is the other side of the door e.
Twin(e, f) ==
  \E r \in Room, d \in Dir :
    e \in Door /\ f \in Door /\ e = Way[r][d] /\ f = Way[To[e]][Rev[d]] /\ To[f] = r

Even(L) == \A e \in Door, f \in Door : Twin(e, f) => (e \in L <=> f \in L)

Matched(w) ==
  /\ \A r \in Room, d \in Dir : w.way[r][d] \in Found(r, d)
  /\ w.shut \cap Exit \subseteq Door /\ w.locked \cap Exit \subseteq Door
  /\ Even(w.shut) /\ Even(w.locked)

DoorsSound(w) == DoorsMatch => Matched(w)

\* What the steps keep.
Sound == {w \in World : PlayersTallied(w) /\ KindsTallied(w) /\ DoorsSound(w)}

LEMMA WorldIs ==
  ASSUME NEW w \in World
  PROVE  /\ w.where \in [Body -> Room \cup {Nil}]
         /\ w.at \in [Object -> Room \cup Body \cup Object \cup {Nil}]
         /\ w.list \in Seq(Object) /\ w.count \in [Kinds -> Int]
         /\ w.way \in [Room -> [Dir -> Exit \cup {Nil}]]
         /\ w.shut \in SUBSET (Exit \cup Object) /\ w.locked \in SUBSET (Exit \cup Object)
         /\ w.nplayer \in [Area -> Int] /\ w.empty \in SUBSET Area /\ w.age \in [Area -> 0..Old]
BY DEF World

LEMMA MapIs ==
  /\ Player \cap Mobile = {} /\ Body \cap (Object \cup Room) = {} /\ Object \cap (Room \cup Exit) = {}
  /\ AreaOf \in [Room -> Area] /\ Rooms \in [Area -> Seq(Room)] /\ Order \in Seq(Area)
  /\ Rev \in [Dir -> Dir] /\ To \in [Exit -> Room] /\ Way \in [Room -> [Dir -> Exit \cup {Nil}]]
  /\ Door \subseteq Exit /\ Shut \subseteq Door \cup Chest /\ Locked \subseteq Shut /\ Chest \cap Exit = {}
  /\ Nil \notin Room \cup Body \cup Object \cup Exit \cup Area
  /\ Young \in Nat /\ Busy \in Nat /\ Old \in Nat /\ Young < Busy /\ Busy < Old /\ Busy >= 2
  /\ IsFiniteSet(Player) /\ IsFiniteSet(Mobile) /\ IsFiniteSet(Object)
  /\ Player \subseteq Body /\ Mobile \subseteq Body
  /\ \A x \in Mobile \cup Object : Kind[x] \in Kinds
<1>1. /\ Player \subseteq Body /\ Mobile \subseteq Body
      /\ \A x \in Mobile \cup Object : Kind[x] \in Kinds
  BY DEF Body, Kinds
<1> QED
  BY <1>1, AreasConstants

LEMMA SetsAreFinite ==
  ASSUME NEW w
  PROVE  /\ \A a : IsFiniteSet(In(w, a)) /\ Cardinality(In(w, a)) \in Nat
         /\ \A k : /\ IsFiniteSet(Alive(w, k)) /\ Cardinality(Alive(w, k)) \in Nat
                   /\ IsFiniteSet(Made(w, k)) /\ Cardinality(Made(w, k)) \in Nat
<1>1. \A a : IsFiniteSet(In(w, a))
  <2> SUFFICES ASSUME NEW a PROVE IsFiniteSet(In(w, a))
    OBVIOUS
  <2>1. In(w, a) \subseteq Player
    BY DEF In
  <2> QED
    BY <2>1, MapIs, FS_Subset
<1>2. \A k : IsFiniteSet(Alive(w, k)) /\ IsFiniteSet(Made(w, k))
  <2> SUFFICES ASSUME NEW k PROVE IsFiniteSet(Alive(w, k)) /\ IsFiniteSet(Made(w, k))
    OBVIOUS
  <2>1. Alive(w, k) \subseteq Mobile /\ Made(w, k) \subseteq Object
    BY DEF Alive, Made, Existing
  <2> QED
    BY <2>1, MapIs, FS_Subset
<1> QED
  BY <1>1, <1>2, FS_CardinalityType

\* One more or one less in a set.
LEMMA OneMore ==
  ASSUME NEW S, IsFiniteSet(S), NEW x, x \notin S, NEW T, T = S \cup {x}
  PROVE  Cardinality(T) = Cardinality(S) + 1
BY FS_AddElement

LEMMA OneLess ==
  ASSUME NEW S, IsFiniteSet(S), NEW x \in S, NEW T, T = S \ {x}
  PROVE  Cardinality(T) = Cardinality(S) - 1
BY FS_RemoveElement

\* Kinds are tallied as long as nobody is born, dies, is made or destroyed.
LEMMA KindsSame ==
  ASSUME NEW w, NEW v, KindsTallied(w), v.count = w.count,
         \A m \in Mobile : v.where[m] = Nil <=> w.where[m] = Nil,
         \A o \in Object : v.at[o] = Nil <=> w.at[o] = Nil
  PROVE  KindsTallied(v)
<1>1. \A k \in Kinds : Alive(v, k) = Alive(w, k) /\ Made(v, k) = Made(w, k)
  BY DEF Alive, Made, Existing
<1> QED
  BY <1>1 DEF KindsTallied

\* From w to v a mobile is born; from v to w it dies.
LEMMA KindsBorn ==
  ASSUME NEW w, NEW v, NEW m \in Mobile, w.where[m] = Nil, v.where[m] # Nil,
         \A n \in Mobile \ {m} : v.where[n] = Nil <=> w.where[n] = Nil,
         \A o \in Object : v.at[o] = Nil <=> w.at[o] = Nil,
         w.count \in [Kinds -> Int], v.count \in [Kinds -> Int],
         \A k \in Kinds : v.count[k] = IF k = Kind[m] THEN w.count[k] + 1 ELSE w.count[k]
  PROVE  KindsTallied(v) <=> KindsTallied(w)
<1>1. \A k \in Kinds : Made(v, k) = Made(w, k)
  BY DEF Made, Existing
<1>2. \A k \in Kinds : k # Kind[m] => Alive(v, k) = Alive(w, k)
  BY DEF Alive
<1>3. Alive(v, Kind[m]) = Alive(w, Kind[m]) \cup {m} /\ m \notin Alive(w, Kind[m])
  BY DEF Alive
<1>4. Cardinality(Alive(v, Kind[m])) = Cardinality(Alive(w, Kind[m])) + 1
  BY <1>3, SetsAreFinite, OneMore
<1>5. ASSUME NEW k \in Kinds
      PROVE  v.count[k] = Cardinality(Alive(v, k)) + Cardinality(Made(v, k))
               <=> w.count[k] = Cardinality(Alive(w, k)) + Cardinality(Made(w, k))
  <2>1. CASE k = Kind[m]
    <3>1. /\ Cardinality(Alive(w, k)) \in Nat /\ Cardinality(Made(w, k)) \in Nat
          /\ w.count[k] \in Int /\ v.count[k] = w.count[k] + 1
      BY <2>1, SetsAreFinite
    <3> QED
      BY <1>1, <1>4, <2>1, <3>1
  <2>2. CASE k # Kind[m]
    BY <1>1, <1>2, <2>2
  <2> QED
    BY <2>1, <2>2
<1> QED
  BY <1>5 DEF KindsTallied

\* An object is made.
LEMMA KindsMade ==
  ASSUME NEW w, NEW v, KindsTallied(w), NEW o \in Object, w.at[o] = Nil, v.at[o] # Nil,
         v.where = w.where, \A p \in Object \ {o} : v.at[p] = w.at[p],
         w.count \in [Kinds -> Int],
         \A k \in Kinds : v.count[k] = IF k = Kind[o] THEN w.count[k] + 1 ELSE w.count[k]
  PROVE  KindsTallied(v)
<1>1. \A k \in Kinds : Alive(v, k) = Alive(w, k)
  BY DEF Alive
<1>2. \A k \in Kinds : k # Kind[o] => Made(v, k) = Made(w, k)
  BY DEF Made, Existing
<1>3. Made(v, Kind[o]) = Made(w, Kind[o]) \cup {o} /\ o \notin Made(w, Kind[o])
  BY DEF Made, Existing
<1>4. Cardinality(Made(v, Kind[o])) = Cardinality(Made(w, Kind[o])) + 1
  BY <1>3, SetsAreFinite, OneMore
<1>5. ASSUME NEW k \in Kinds
      PROVE  v.count[k] = Cardinality(Alive(v, k)) + Cardinality(Made(v, k))
  <2>0. w.count[k] = Cardinality(Alive(w, k)) + Cardinality(Made(w, k))
    BY DEF KindsTallied
  <2>1. CASE k = Kind[o]
    <3>1. /\ Cardinality(Alive(w, k)) \in Nat /\ Cardinality(Made(w, k)) \in Nat
          /\ w.count[k] \in Int /\ v.count[k] = w.count[k] + 1
      BY <2>1, SetsAreFinite
    <3> QED
      BY <1>1, <1>4, <2>0, <2>1, <3>1
  <2>2. CASE k # Kind[o]
    BY <1>1, <1>2, <2>0, <2>2
  <2> QED
    BY <2>1, <2>2
<1> QED
  BY <1>5 DEF KindsTallied

\* Objects are destroyed.
LEMMA KindsGone ==
  ASSUME NEW w, NEW v, KindsTallied(w), NEW gone \in SUBSET Existing(w), v.where = w.where,
         \A o \in Object : v.at[o] = IF o \in gone THEN Nil ELSE w.at[o],
         \A k \in Kinds : v.count[k] = w.count[k] - Cardinality({o \in gone : Kind[o] = k})
  PROVE  KindsTallied(v)
<1> SUFFICES ASSUME NEW k \in Kinds
             PROVE  v.count[k] = Cardinality(Alive(v, k)) + Cardinality(Made(v, k))
  BY DEF KindsTallied
<1> DEFINE G == {o \in gone : Kind[o] = k}
<1>1. Alive(v, k) = Alive(w, k)
  BY DEF Alive
<1>2. Made(v, k) = Made(w, k) \ G /\ G \subseteq Made(w, k)
  BY DEF Made, Existing
<1>3. IsFiniteSet(Made(w, k)) /\ IsFiniteSet(G)
  BY <1>2, SetsAreFinite, FS_Subset
<1>4. Cardinality(Made(v, k)) = Cardinality(Made(w, k)) - Cardinality(G)
  <2>1. Made(w, k) \cap G = G
    BY <1>2
  <2> HIDE DEF G
  <2>2. Cardinality(Made(w, k) \ G) = Cardinality(Made(w, k)) - Cardinality(Made(w, k) \cap G)
    BY <1>3, FS_Difference
  <2> QED
    BY <1>2, <2>1, <2>2
<1>5. w.count[k] = Cardinality(Alive(w, k)) + Cardinality(Made(w, k))
  BY DEF KindsTallied
<1>6. /\ Cardinality(Alive(w, k)) \in Nat /\ Cardinality(Made(w, k)) \in Nat
      /\ Cardinality(G) \in Nat
  BY <1>3, SetsAreFinite, FS_CardinalityType
<1>7. v.count[k] = w.count[k] - Cardinality(G)
  OBVIOUS
<1> HIDE DEF G
<1> QED
  BY <1>1, <1>4, <1>5, <1>6, <1>7

----------------------------------------------------------------------------
\* Bodies come into rooms and leave them.

\* v is w without c.
Left(w, c, v) ==
  /\ v \in World
  /\ v.where = [w.where EXCEPT ![c] = Nil]
  /\ v.at = w.at /\ v.list = w.list /\ v.count = w.count /\ v.empty = w.empty /\ v.age = w.age
  /\ v.way = w.way /\ v.shut = w.shut /\ v.locked = w.locked

LEMMA FromRoomIs ==
  ASSUME NEW w \in World, NEW c \in Body, w.where[c] # Nil
  PROVE  /\ Left(w, c, char_from_room(w, c))
         /\ c \notin Player => char_from_room(w, c).nplayer = w.nplayer
         /\ c \in Player => \A a \in Area :
              char_from_room(w, c).nplayer[a] =
                IF a = AreaOf[w.where[c]] THEN w.nplayer[a] - 1 ELSE w.nplayer[a]
<1> DEFINE u == [w EXCEPT !.where[c] = Nil]
           b == AreaOf[w.where[c]]
           n == [w.nplayer EXCEPT ![b] = @ - IF c \in Player THEN 1 ELSE 0]
           v == [u EXCEPT !.nplayer = n]
<1>1. b \in Area
  BY WorldIs, MapIs
<1>2. char_from_room(w, c) = v
  BY DEF char_from_room, World
<1>3. n \in [Area -> Int]
  <2>1. w.nplayer \in [Area -> Int]
    BY WorldIs
  <2> HIDE DEF b
  <2> QED
    BY <1>1, <2>1
<1>4. u \in World
  <2>1. [w.where EXCEPT ![c] = Nil] \in [Body -> Room \cup {Nil}]
    BY WorldIs
  <2> QED
    BY <2>1 DEF World
<1>5. /\ v \in World /\ v.nplayer = n /\ v.where = [w.where EXCEPT ![c] = Nil]
      /\ v.at = w.at /\ v.list = w.list /\ v.count = w.count /\ v.empty = w.empty
      /\ v.age = w.age /\ v.way = w.way /\ v.shut = w.shut /\ v.locked = w.locked
  <2> HIDE DEF n, b
  <2> QED
    BY <1>3, <1>4 DEF World
<1>6. \A a \in Area : n[a] = IF a = b THEN w.nplayer[a] - (IF c \in Player THEN 1 ELSE 0) ELSE w.nplayer[a]
  <2>1. w.nplayer \in [Area -> Int]
    BY WorldIs
  <2> HIDE DEF b
  <2> QED
    BY <1>1, <2>1
<1>7. c \notin Player => n = w.nplayer
  <2>1. w.nplayer \in [Area -> Int]
    BY WorldIs
  <2> HIDE DEF b
  <2> QED
    BY <1>1, <2>1
<1> HIDE DEF n, v
<1> QED
  BY <1>2, <1>5, <1>6, <1>7 DEF Left

LEMMA PlayersLeave ==
  ASSUME NEW w \in World, PlayersTallied(w), NEW c \in Body, w.where[c] # Nil
  PROVE  PlayersTallied(char_from_room(w, c))
<1> DEFINE v == char_from_room(w, c)
           b == AreaOf[w.where[c]]
<1>1. /\ Left(w, c, v)
      /\ c \notin Player => v.nplayer = w.nplayer
      /\ c \in Player => \A a \in Area : v.nplayer[a] = IF a = b THEN w.nplayer[a] - 1 ELSE w.nplayer[a]
  BY FromRoomIs
<1>2. w.where \in [Body -> Room \cup {Nil}] /\ w.empty \subseteq Area /\ w.nplayer \in [Area -> Int]
  BY WorldIs
<1> SUFFICES ASSUME Twins = {}
             PROVE  PlayersTallied(v)
  BY DEF PlayersTallied
<1> HIDE DEF v
<1>3. \A p \in Player : v.where[p] = IF p = c THEN Nil ELSE w.where[p]
  <2>1. Player \subseteq Body
    BY DEF Body
  <2> QED
    BY <1>1, <1>2, <2>1 DEF Left
<1>4. CASE c \notin Player
  <2>1. \A a : In(v, a) = In(w, a)
    BY <1>3, <1>4 DEF In
  <2> QED
    BY <1>1, <1>4, <2>1 DEF PlayersTallied, Left
<1>5. CASE c \in Player
  <2>1. b \in Area
    BY <1>2, MapIs
  <2>2. \A a : a # b => In(v, a) = In(w, a)
    BY <1>3 DEF In
  <2>3. In(v, b) = In(w, b) \ {c} /\ c \in In(w, b)
    BY <1>3, <1>5 DEF In
  <2>4. Cardinality(In(v, b)) = Cardinality(In(w, b)) - 1
    <3> HIDE DEF b
    <3> QED
      BY <2>3, SetsAreFinite, OneLess
  <2>5. Cardinality(In(w, b)) # 0
    BY <2>3, SetsAreFinite, FS_EmptySet
  <2>6. ASSUME NEW a \in Area
        PROVE  /\ v.nplayer[a] = Cardinality(In(v, a))
               /\ a \in v.empty => v.nplayer[a] = 0
    <3>1. /\ w.nplayer[a] = Cardinality(In(w, a))
          /\ a \in w.empty => w.nplayer[a] = 0
      BY DEF PlayersTallied
    <3>2. v.empty = w.empty
      BY <1>1 DEF Left
    <3>3. CASE a = b
      BY <1>1, <1>5, <2>4, <2>5, <3>1, <3>2, <3>3
    <3>4. CASE a # b
      BY <1>1, <1>5, <2>2, <3>1, <3>2, <3>4
    <3> QED
      BY <3>3, <3>4
  <2> QED
    BY <2>6 DEF PlayersTallied
<1> QED
  BY <1>4, <1>5

\* v is w with c in r.
Come(w, c, r, v) ==
  /\ v \in World
  /\ v.where = [w.where EXCEPT ![c] = r]
  /\ v.at = w.at /\ v.list = w.list /\ v.count = w.count
  /\ v.way = w.way /\ v.shut = w.shut /\ v.locked = w.locked

LEMMA ToRoomIs ==
  ASSUME NEW w \in World, NEW c \in Body, NEW r \in Room
  PROVE  /\ Come(w, c, r, char_to_room(w, c, r))
         /\ c \in Mobile => /\ char_to_room(w, c, r).nplayer = w.nplayer
                            /\ char_to_room(w, c, r).empty = w.empty
         /\ c \notin Mobile =>
              /\ char_to_room(w, c, r).empty = w.empty \ {AreaOf[r]}
              /\ \A a \in Area : char_to_room(w, c, r).nplayer[a] =
                                   IF a = AreaOf[r] THEN w.nplayer[a] + 1 ELSE w.nplayer[a]
<1> DEFINE b == AreaOf[r]
           u == [w EXCEPT !.where[c] = r]
           n == [w.nplayer EXCEPT ![b] = @ + 1]
           g == [w.age EXCEPT ![b] = IF b \in w.empty THEN 0 ELSE @]
           v == [[[u EXCEPT !.nplayer = n] EXCEPT !.empty = w.empty \ {b}] EXCEPT !.age = g]
<1>1. b \in Area
  BY MapIs
<1>2. u \in World /\ u.where = [w.where EXCEPT ![c] = r]
  <2>1. [w.where EXCEPT ![c] = r] \in [Body -> Room \cup {Nil}]
    BY WorldIs
  <2> QED
    BY <2>1 DEF World
<1>3. CASE c \in Mobile
  <2>1. char_to_room(w, c, r) = u
    BY <1>3 DEF char_to_room
  <2> QED
    BY <1>2, <1>3, <2>1 DEF Come, World
<1>4. CASE c \notin Mobile
  <2>1. char_to_room(w, c, r) = v
    BY <1>4 DEF char_to_room, World
  <2>2. n \in [Area -> Int] /\ \A a \in Area : n[a] = IF a = b THEN w.nplayer[a] + 1 ELSE w.nplayer[a]
    <3>1. w.nplayer \in [Area -> Int]
      BY WorldIs
    <3> HIDE DEF b
    <3> QED
      BY <1>1, <3>1
  <2>3. g \in [Area -> 0..Old] /\ w.empty \ {b} \in SUBSET Area
    <3>1. w.age \in [Area -> 0..Old] /\ w.empty \in SUBSET Area /\ 0 \in 0..Old
      BY WorldIs, MapIs
    <3> HIDE DEF b
    <3> QED
      BY <1>1, <3>1
  <2>4. /\ v \in World /\ v.nplayer = n /\ v.empty = w.empty \ {b}
        /\ v.where = [w.where EXCEPT ![c] = r]
        /\ v.at = w.at /\ v.list = w.list /\ v.count = w.count
        /\ v.way = w.way /\ v.shut = w.shut /\ v.locked = w.locked
    <3> DEFINE x == [u EXCEPT !.nplayer = n]
               y == [x EXCEPT !.empty = w.empty \ {b}]
    <3>1. x \in World /\ x.nplayer = n
      <4> HIDE DEF n, b
      <4> QED
        BY <1>2, <2>2 DEF World
    <3>2. y \in World /\ y.nplayer = n /\ y.empty = w.empty \ {b}
      <4> HIDE DEF n, b, x
      <4> QED
        BY <2>3, <3>1 DEF World
    <3>3. v \in World /\ v.nplayer = n /\ v.empty = w.empty \ {b}
      <4> v = [y EXCEPT !.age = g]
        OBVIOUS
      <4> HIDE DEF n, b, x, y, g, v
      <4> QED
        BY <2>3, <3>2 DEF World
    <3> HIDE DEF n, b, g
    <3> QED
      BY <1>2, <3>3 DEF World
  <2> HIDE DEF n, v
  <2> QED
    BY <1>4, <2>1, <2>2, <2>4 DEF Come
<1> QED
  BY <1>3, <1>4

LEMMA PlayersCome ==
  ASSUME NEW w \in World, PlayersTallied(w), NEW c \in Body, w.where[c] = Nil, NEW r \in Room
  PROVE  PlayersTallied(char_to_room(w, c, r))
<1> DEFINE v == char_to_room(w, c, r)
           b == AreaOf[r]
<1>1. /\ Come(w, c, r, v)
      /\ c \in Mobile => (v.nplayer = w.nplayer /\ v.empty = w.empty)
      /\ c \notin Mobile =>
           /\ v.empty = w.empty \ {b}
           /\ \A a \in Area : v.nplayer[a] = IF a = b THEN w.nplayer[a] + 1 ELSE w.nplayer[a]
  BY ToRoomIs
<1>2. w.where \in [Body -> Room \cup {Nil}] /\ w.nplayer \in [Area -> Int]
  BY WorldIs
<1> SUFFICES ASSUME Twins = {}
             PROVE  PlayersTallied(v)
  BY DEF PlayersTallied
<1> HIDE DEF v
<1>3. \A p \in Player : v.where[p] = IF p = c THEN r ELSE w.where[p]
  <2>1. Player \subseteq Body
    BY DEF Body
  <2> QED
    BY <1>1, <1>2, <2>1 DEF Come
<1>4. CASE c \in Mobile
  <2>0. c \notin Player
    BY <1>4, MapIs
  <2>1. \A a : In(v, a) = In(w, a)
    BY <1>3, <2>0 DEF In
  <2> QED
    BY <1>1, <1>4, <2>1 DEF PlayersTallied
<1>5. CASE c \notin Mobile
  <2>0. c \in Player /\ r # Nil /\ b \in Area
    BY <1>5, MapIs DEF Body
  <2>2. \A a : a # b => In(v, a) = In(w, a)
    BY <1>3 DEF In
  <2>3. In(v, b) = In(w, b) \cup {c} /\ c \notin In(w, b)
    BY <1>3, <2>0 DEF In
  <2>4. Cardinality(In(v, b)) = Cardinality(In(w, b)) + 1
    <3> HIDE DEF b
    <3> QED
      BY <2>3, SetsAreFinite, OneMore
  <2>6. ASSUME NEW a \in Area
        PROVE  /\ v.nplayer[a] = Cardinality(In(v, a))
               /\ a \in v.empty => v.nplayer[a] = 0
    <3>1. /\ w.nplayer[a] = Cardinality(In(w, a))
          /\ a \in w.empty => w.nplayer[a] = 0
      BY DEF PlayersTallied
    <3>3. CASE a = b
      BY <1>1, <1>5, <2>4, <3>1, <3>3
    <3>4. CASE a # b
      BY <1>1, <1>5, <2>2, <3>1, <3>4
    <3> QED
      BY <3>3, <3>4
  <2> QED
    BY <2>6 DEF PlayersTallied
<1> QED
  BY <1>4, <1>5

----------------------------------------------------------------------------
\* Objects are made and destroyed.

\* w with other objects.
Handled(w, at, list, count, shut, locked) ==
  [w EXCEPT !.at = at, !.list = list, !.count = count, !.shut = shut, !.locked = locked]

LEMMA HandledIs ==
  ASSUME NEW w \in World,
         NEW at \in [Object -> Room \cup Body \cup Object \cup {Nil}], NEW list \in Seq(Object),
         NEW count \in [Kinds -> Int],
         NEW shut \in SUBSET (Exit \cup Object), NEW locked \in SUBSET (Exit \cup Object)
  PROVE  LET v == Handled(w, at, list, count, shut, locked)
         IN  /\ v \in World
             /\ v.at = at /\ v.list = list /\ v.count = count /\ v.shut = shut /\ v.locked = locked
             /\ v.where = w.where /\ v.nplayer = w.nplayer /\ v.empty = w.empty
             /\ v.age = w.age /\ v.way = w.way
<1> DEFINE a == [w EXCEPT !.at = at]
           b == [a EXCEPT !.list = list]
           c == [b EXCEPT !.count = count]
           d == [c EXCEPT !.shut = shut]
           v == [d EXCEPT !.locked = locked]
           Same(x) == /\ x.where = w.where /\ x.nplayer = w.nplayer /\ x.empty = w.empty
                      /\ x.age = w.age /\ x.way = w.way
<1>1. a \in World /\ a.at = at /\ Same(a)
  BY DEF World
<1>2. b \in World /\ b.at = at /\ b.list = list /\ Same(b)
  <2> HIDE DEF a
  <2> QED
    BY <1>1 DEF World
<1>3. c \in World /\ c.at = at /\ c.list = list /\ c.count = count /\ Same(c)
  <2> HIDE DEF a, b
  <2> QED
    BY <1>2 DEF World
<1>4. d \in World /\ d.at = at /\ d.list = list /\ d.count = count /\ d.shut = shut /\ Same(d)
  <2> HIDE DEF a, b, c
  <2> QED
    BY <1>3 DEF World
<1>5. /\ v \in World /\ v.at = at /\ v.list = list /\ v.count = count /\ v.shut = shut
      /\ v.locked = locked /\ Same(v)
  <2> HIDE DEF a, b, c, d
  <2> QED
    BY <1>4 DEF World
<1>6. Handled(w, at, list, count, shut, locked) = v
  BY DEF Handled, World
<1> QED
  BY <1>5, <1>6

\* The places where objects are do not count players.
LEMMA PlayersSame ==
  ASSUME NEW w, NEW v, PlayersTallied(w), v.where = w.where, v.nplayer = w.nplayer, v.empty = w.empty
  PROVE  PlayersTallied(v)
BY DEF PlayersTallied, In

LEMMA DoorsSame ==
  ASSUME NEW w, NEW v, DoorsSound(w), v.way = w.way, v.shut = w.shut, v.locked = w.locked
  PROVE  DoorsSound(v)
BY DEF DoorsSound, Matched

\* Lids are no doors.
LEMMA LidsChange ==
  ASSUME NEW w, NEW v, DoorsSound(w), NEW X \in SUBSET Object, v.way = w.way,
         v.shut \ X = w.shut \ X, v.locked \ X = w.locked \ X
  PROVE  DoorsSound(v)
<1>1. Object \cap Exit = {} /\ Door \subseteq Exit
  BY MapIs
<1>2. v.shut \cap Exit = w.shut \cap Exit /\ v.locked \cap Exit = w.locked \cap Exit
  BY <1>1
<1>3. Even(w.shut) => Even(v.shut)
  BY <1>1, <1>2 DEF Even
<1>4. Even(w.locked) => Even(v.locked)
  BY <1>1, <1>2 DEF Even
<1> QED
  BY <1>2, <1>3, <1>4 DEF DoorsSound, Matched

LEMMA CreateTallies ==
  ASSUME NEW w \in Sound, NEW o \in Object, w.at[o] = Nil, NEW x \in Room \cup Body \cup Object
  PROVE  create_object(w, o, x) \in Sound
<1> DEFINE at == [w.at EXCEPT ![o] = x]
           list == (IF Kind[o] \in Chest THEN <<o>> ELSE <<>>) \o w.list
           count == [w.count EXCEPT ![Kind[o]] = @ + 1]
           shut == IF Kind[o] \in Shut THEN w.shut \cup {o} ELSE w.shut \ {o}
           locked == IF Kind[o] \in Locked THEN w.locked \cup {o} ELSE w.locked \ {o}
           v == Handled(w, at, list, count, shut, locked)
<1>0. w \in World /\ PlayersTallied(w) /\ KindsTallied(w) /\ DoorsSound(w)
  BY DEF Sound
<1>1. create_object(w, o, x) = v
  BY <1>0 DEF create_object, Handled, World
<1>2. at \in [Object -> Room \cup Body \cup Object \cup {Nil}]
      /\ \A p \in Object : at[p] = IF p = o THEN x ELSE w.at[p]
  BY <1>0, WorldIs
<1>3. list \in Seq(Object)
  <2>1. w.list \in Seq(Object)
    BY <1>0, WorldIs
  <2> QED
    BY <2>1
<1>4. count \in [Kinds -> Int]
      /\ \A k \in Kinds : count[k] = IF k = Kind[o] THEN w.count[k] + 1 ELSE w.count[k]
  <2>1. w.count \in [Kinds -> Int] /\ Kind[o] \in Kinds
    BY <1>0, WorldIs DEF Kinds
  <2> QED
    BY <2>1
<1>5. shut \in SUBSET (Exit \cup Object) /\ locked \in SUBSET (Exit \cup Object)
  <2>1. w.shut \subseteq Exit \cup Object /\ w.locked \subseteq Exit \cup Object
    BY <1>0, WorldIs
  <2> QED
    BY <2>1
<1>10. shut \ {o} = w.shut \ {o} /\ locked \ {o} = w.locked \ {o}
  OBVIOUS
<1>6. x # Nil /\ w.count \in [Kinds -> Int]
  BY <1>0, MapIs, WorldIs
<1> SUFFICES v \in Sound
  BY <1>1
<1> HIDE DEF at, list, count, shut, locked
<1>7. /\ v \in World /\ v.at = at /\ v.count = count
      /\ v.way = w.way /\ v.shut = shut /\ v.locked = locked
      /\ v.where = w.where /\ v.nplayer = w.nplayer /\ v.empty = w.empty
  BY <1>0, <1>2, <1>3, <1>4, <1>5, HandledIs
<1> HIDE DEF v
<1>8. PlayersTallied(v)
  BY <1>0, <1>7, PlayersSame
<1>9. KindsTallied(v)
  <2>1. v.at[o] # Nil /\ \A p \in Object \ {o} : v.at[p] = w.at[p]
    BY <1>2, <1>6, <1>7
  <2>2. \A k \in Kinds : v.count[k] = IF k = Kind[o] THEN w.count[k] + 1 ELSE w.count[k]
    BY <1>4, <1>7
  <2> QED
    BY <1>0, <1>6, <1>7, <2>1, <2>2, KindsMade
<1>11. DoorsSound(v)
  BY <1>0, <1>7, <1>10, LidsChange
<1> QED
  BY <1>7, <1>8, <1>9, <1>11 DEF Sound

LEMMA OthersType ==
  ASSUME NEW L \in Seq(Object), NEW gone
  PROVE  Others(L, gone) \in Seq(Object)
<1> DEFINE Add == [o \in Object |-> [K \in Seq(Object) |-> IF o \in gone THEN K ELSE Append(K, o)]]
<1>1. \A o \in Object : \A K \in Seq(Object) : Add[o][K] \in Seq(Object)
  OBVIOUS
<1>2. <<>> \in Seq(Object)
  OBVIOUS
<1>3. Others(L, gone) = Through(L, <<>>, Add)
  BY DEF Others
<1> HIDE DEF Add
<1>4. Through(L, <<>>, Add) \in Seq(Object)
  BY <1>1, <1>2, ThroughStays DEF Closes
<1> QED
  BY <1>3, <1>4

LEMMA ExtractedIs ==
  ASSUME NEW w \in World, NEW S \in SUBSET Existing(w)
  PROVE  LET v == Extracted(w, S)
         IN  /\ v \in World /\ v.where = w.where
             /\ PlayersTallied(w) => PlayersTallied(v)
             /\ KindsTallied(w) => KindsTallied(v)
             /\ DoorsSound(w) => DoorsSound(v)
             /\ \A o \in Object : v.at[o] # Nil => w.at[o] # Nil
<1> DEFINE gone == S \cup UNION {Inside(w, o) : o \in S}
           at == [p \in Object |-> IF p \in gone THEN Nil ELSE w.at[p]]
           list == Others(w.list, gone)
           count == [k \in Kinds |-> w.count[k] - Cardinality({p \in gone : Kind[p] = k})]
           shut == w.shut \ gone
           locked == w.locked \ gone
           v == Handled(w, at, list, count, shut, locked)
<1>1. Extracted(w, S) = v
  BY DEF Extracted, Handled, World
<1>2. gone \subseteq Existing(w) /\ gone \subseteq Object
  <2>1. S \subseteq Object
    BY DEF Existing
  <2>2. \A o \in S : o # Nil
    BY <2>1, MapIs
  <2>3. \A o \in S : Inside(w, o) \subseteq Existing(w)
    BY <2>2 DEF Inside, Existing
  <2>4. Existing(w) \subseteq Object
    BY DEF Existing
  <2> QED
    BY <2>3, <2>4
<1>3. at \in [Object -> Room \cup Body \cup Object \cup {Nil}]
  <2>1. w.at \in [Object -> Room \cup Body \cup Object \cup {Nil}]
    BY WorldIs
  <2> HIDE DEF gone
  <2> QED
    BY <2>1
<1>4. list \in Seq(Object)
  <2>1. w.list \in Seq(Object)
    BY WorldIs
  <2> HIDE DEF gone
  <2> QED
    BY <2>1, OthersType
<1>5. count \in [Kinds -> Int]
  <2>1. w.count \in [Kinds -> Int]
    BY WorldIs
  <2> HIDE DEF gone
  <2>2. ASSUME NEW k \in Kinds
        PROVE  Cardinality({p \in gone : Kind[p] = k}) \in Int
    <3>1. {p \in gone : Kind[p] = k} \subseteq Object
      BY <1>2
    <3> QED
      BY <3>1, MapIs, FS_Subset, FS_CardinalityType
  <2>3. \A k \in Kinds : w.count[k] - Cardinality({p \in gone : Kind[p] = k}) \in Int
    BY <2>1, <2>2
  <2> QED
    BY <2>3
<1>6. shut \in SUBSET (Exit \cup Object) /\ locked \in SUBSET (Exit \cup Object)
  <2>1. w.shut \subseteq Exit \cup Object /\ w.locked \subseteq Exit \cup Object
    BY WorldIs
  <2> HIDE DEF gone
  <2> QED
    BY <2>1
<1>12. shut \ gone = w.shut \ gone /\ locked \ gone = w.locked \ gone
  OBVIOUS
<1>7. /\ \A o \in Object : at[o] = IF o \in gone THEN Nil ELSE w.at[o]
      /\ \A k \in Kinds : count[k] = w.count[k] - Cardinality({p \in gone : Kind[p] = k})
  OBVIOUS
<1> HIDE DEF gone, at, list, count, shut, locked
<1>8. /\ v \in World /\ v.at = at /\ v.count = count
      /\ v.way = w.way /\ v.shut = shut /\ v.locked = locked
      /\ v.where = w.where /\ v.nplayer = w.nplayer /\ v.empty = w.empty
  BY <1>3, <1>4, <1>5, <1>6, HandledIs
<1> HIDE DEF v
<1>9. PlayersTallied(w) => PlayersTallied(v)
  BY <1>8, PlayersSame
<1>10. ASSUME KindsTallied(w)
       PROVE  KindsTallied(v)
  <2>1. \A o \in Object : v.at[o] = IF o \in gone THEN Nil ELSE w.at[o]
    BY <1>7, <1>8
  <2>2. \A k \in Kinds : v.count[k] = w.count[k] - Cardinality({p \in gone : Kind[p] = k})
    BY <1>7, <1>8
  <2> QED
    BY <1>2, <1>8, <1>10, <2>1, <2>2, KindsGone
<1>11. \A o \in Object : v.at[o] # Nil => w.at[o] # Nil
  BY <1>7, <1>8
<1>13. DoorsSound(w) => DoorsSound(v)
  BY <1>2, <1>8, <1>12, LidsChange
<1> QED
  BY <1>1, <1>8, <1>9, <1>10, <1>11, <1>13

\* Bodies that come, go and move.
LEMMA QuitTallies ==
  ASSUME NEW w \in Sound, NEW c \in Player, w.where[c] # Nil
  PROVE  extract_char(w, c) \in Sound /\ Existing(extract_char(w, c)) \subseteq Existing(w)
<1> DEFINE u == char_from_room(w, c)
           S == Inside(w, c)
<1>0. w \in World /\ PlayersTallied(w) /\ KindsTallied(w) /\ DoorsSound(w)
      /\ c \in Body /\ c \notin Mobile
  BY MapIs DEF Sound
<1>1. extract_char(w, c) = Extracted(u, S)
  BY <1>0 DEF extract_char
<1>2. PlayersTallied(u)
  BY <1>0, PlayersLeave
<1>3. Left(w, c, u)
  BY <1>0, FromRoomIs
<1> HIDE DEF u
<1>4. KindsTallied(u)
  <2>1. \A m \in Mobile : u.where[m] = w.where[m]
    BY <1>0, <1>3, WorldIs, MapIs DEF Left
  <2> QED
    BY <1>0, <1>3, <2>1, KindsSame DEF Left
<1>5. S \subseteq Existing(u)
  BY <1>0, <1>3, MapIs DEF Inside, Existing, Left
<1>6. u \in World
  BY <1>3 DEF Left
<1>7. DoorsSound(u)
  BY <1>0, <1>3, DoorsSame DEF Left
<1> HIDE DEF S
<1>8. Extracted(u, S) \in Sound /\ \A o \in Object : Extracted(u, S).at[o] # Nil => u.at[o] # Nil
  BY <1>2, <1>4, <1>5, <1>6, <1>7, ExtractedIs DEF Sound
<1> QED
  BY <1>1, <1>3, <1>8 DEF Left, Existing

LEMMA QuitOfTwins ==
  ASSUME NEW w \in Sound, NEW c \in Player, w.where[c] # Nil, NEW r \in {Nil} \cup Twins,
         NEW v, v = LET out == extract_char(w, c)
                    IN  IF r = Nil THEN out ELSE [out EXCEPT !.nplayer[AreaOf[r]] = @ - 1]
  PROVE  v \in Sound /\ Existing(v) \subseteq Existing(w)
<1> DEFINE out == extract_char(w, c)
           n == [out.nplayer EXCEPT ![AreaOf[r]] = @ - 1]
<1>1. out \in Sound /\ Existing(out) \subseteq Existing(w)
  BY QuitTallies
<1> HIDE DEF out
<1>2. CASE r = Nil
  BY <1>1, <1>2 DEF out
<1>3. CASE r # Nil
  <2>1. r \in Twins /\ r \in Room /\ AreaOf[r] \in Area
    BY <1>3, MapIs, AreasConstants
  <2>2. /\ out \in World /\ KindsTallied(out) /\ DoorsSound(out)
        /\ out.nplayer \in [Area -> Int]
    BY <1>1, WorldIs DEF Sound
  <2>3. n \in [Area -> Int]
    BY <2>1, <2>2
  <2>4. v = [out EXCEPT !.nplayer = n]
    BY <1>3, <2>2 DEF out, World
  <2> HIDE DEF n
  <2>5. /\ v \in World /\ v.where = out.where /\ v.at = out.at /\ v.count = out.count
        /\ v.way = out.way /\ v.shut = out.shut /\ v.locked = out.locked
    BY <2>2, <2>3, <2>4 DEF World
  <2>6. PlayersTallied(v)
    <3>1. Twins # {}
      BY <2>1
    <3> QED
      BY <3>1 DEF PlayersTallied
  <2>7. KindsTallied(v)
    <3>1. KindsTallied(out) /\ v.count = out.count /\ v.where = out.where /\ v.at = out.at
      BY <2>2, <2>5
    <3>2. \A k \in Kinds : Alive(v, k) = Alive(out, k) /\ Made(v, k) = Made(out, k)
      BY <3>1 DEF Alive, Made, Existing
    <3> QED
      BY <3>1, <3>2 DEF KindsTallied
  <2>8. DoorsSound(v)
    <3>1. DoorsSound(out) /\ v.way = out.way /\ v.shut = out.shut /\ v.locked = out.locked
      BY <2>2, <2>5
    <3> QED
      BY <3>1, DoorsSame
  <2> QED
    BY <1>1, <2>5, <2>6, <2>7, <2>8 DEF Sound, Existing
<1> QED
  BY <1>2, <1>3

LEMMA DieTallies ==
  ASSUME NEW w \in Sound, NEW c \in Mobile, w.where[c] # Nil
  PROVE  extract_char(w, c) \in Sound /\ Existing(extract_char(w, c)) \subseteq Existing(w)
<1> DEFINE u == char_from_room(w, c)
           S == Inside(w, c)
           x == Extracted(w, S)
           y == Extracted(u, S)
           n == [y.count EXCEPT ![Kind[c]] = @ - 1]
           v == [y EXCEPT !.count = n]
<1>0. w \in World /\ PlayersTallied(w) /\ KindsTallied(w) /\ DoorsSound(w)
      /\ c \in Body /\ Kind[c] \in Kinds
  BY MapIs DEF Sound
<1>1. extract_char(w, c) = v
  BY DEF extract_char
<1>2. PlayersTallied(u)
  BY <1>0, PlayersLeave
<1>3. Left(w, c, u)
  BY <1>0, FromRoomIs
<1> HIDE DEF u
<1>4. S \subseteq Existing(u) /\ S \subseteq Existing(w)
  BY <1>0, <1>3, MapIs DEF Inside, Existing, Left
<1>5. u \in World
  BY <1>3 DEF Left
<1>13. DoorsSound(u)
  BY <1>0, <1>3, DoorsSame DEF Left
<1>6. y.at = x.at /\ y.count = x.count
  BY <1>0, <1>3, <1>5 DEF Extracted, Inside, World, Left
<1> HIDE DEF S
<1>7. /\ x \in World /\ x.where = w.where /\ KindsTallied(x)
      /\ \A o \in Object : x.at[o] # Nil => w.at[o] # Nil
  BY <1>0, <1>4, ExtractedIs
<1>8. y \in World /\ y.where = u.where /\ PlayersTallied(y) /\ DoorsSound(y)
  BY <1>2, <1>4, <1>5, <1>13, ExtractedIs
<1> HIDE DEF x, y
<1>9. /\ n \in [Kinds -> Int]
      /\ \A k \in Kinds : n[k] = IF k = Kind[c] THEN x.count[k] - 1 ELSE x.count[k]
  <2>1. y.count \in [Kinds -> Int]
    BY <1>8, WorldIs
  <2> QED
    BY <1>0, <1>6, <2>1
<1> HIDE DEF n
<1>10. /\ v \in World /\ v.count = n /\ v.where = u.where /\ v.at = x.at
       /\ v.nplayer = y.nplayer /\ v.empty = y.empty
       /\ v.way = y.way /\ v.shut = y.shut /\ v.locked = y.locked
  BY <1>6, <1>8, <1>9 DEF World
<1> HIDE DEF v
<1>11. PlayersTallied(v)
  BY <1>8, <1>10, PlayersSame
<1>12. KindsTallied(v)
  <2>1. v.where[c] = Nil /\ x.where[c] # Nil
    BY <1>0, <1>3, <1>7, <1>10, WorldIs DEF Left
  <2>2. \A m \in Mobile \ {c} : x.where[m] = v.where[m]
    BY <1>0, <1>3, <1>7, <1>10, WorldIs, MapIs DEF Left
  <2>3. x.count \in [Kinds -> Int]
    BY <1>7, WorldIs
  <2>4. \A k \in Kinds : x.count[k] = IF k = Kind[c] THEN v.count[k] + 1 ELSE v.count[k]
    BY <1>9, <1>10, <2>3
  <2> QED
    BY <1>7, <1>9, <1>10, <2>1, <2>2, <2>3, <2>4, KindsBorn
<1>14. DoorsSound(v)
  BY <1>8, <1>10, DoorsSame
<1> QED
  BY <1>1, <1>7, <1>10, <1>11, <1>12, <1>14 DEF Sound, Existing

LEMMA EnterTallies ==
  ASSUME NEW w \in Sound, NEW c \in Player, w.where[c] = Nil, NEW r \in Room
  PROVE  char_to_room(w, c, r) \in Sound /\ char_to_room(w, c, r).at = w.at
<1> DEFINE v == char_to_room(w, c, r)
<1>0. w \in World /\ PlayersTallied(w) /\ KindsTallied(w) /\ DoorsSound(w)
      /\ c \in Body /\ c \notin Mobile
  BY MapIs DEF Sound
<1>1. PlayersTallied(v)
  BY <1>0, PlayersCome
<1>2. Come(w, c, r, v)
  BY <1>0, ToRoomIs
<1> HIDE DEF v
<1>3. KindsTallied(v)
  <2>1. \A m \in Mobile : v.where[m] = w.where[m]
    BY <1>0, <1>2, WorldIs, MapIs DEF Come
  <2> QED
    BY <1>0, <1>2, <2>1, KindsSame DEF Come
<1>4. DoorsSound(v)
  BY <1>0, <1>2, DoorsSame DEF Come
<1> SUFFICES v \in Sound /\ v.at = w.at
  BY DEF v
<1> QED
  BY <1>1, <1>2, <1>3, <1>4 DEF Sound, Come

LEMMA MoveTallies ==
  ASSUME NEW w \in Sound, NEW c \in Body, w.where[c] # Nil, NEW r \in Room
  PROVE  LET v == char_to_room(char_from_room(w, c), c, r)
         IN  v \in Sound /\ v.at = w.at
<1> DEFINE u == char_from_room(w, c)
           v == char_to_room(u, c, r)
<1>0. w \in World /\ PlayersTallied(w) /\ KindsTallied(w) /\ DoorsSound(w) /\ r # Nil
  BY MapIs DEF Sound
<1>1. PlayersTallied(u) /\ Left(w, c, u)
  BY <1>0, PlayersLeave, FromRoomIs
<1> HIDE DEF u
<1>2. u \in World /\ u.where[c] = Nil
  BY <1>0, <1>1, WorldIs DEF Left
<1>3. PlayersTallied(v) /\ Come(u, c, r, v)
  BY <1>1, <1>2, PlayersCome, ToRoomIs
<1> SUFFICES v \in Sound /\ v.at = w.at
  BY DEF u
<1> HIDE DEF v
<1>4. KindsTallied(v)
  <2>1. v.where = [[w.where EXCEPT ![c] = Nil] EXCEPT ![c] = r]
    BY <1>1, <1>3 DEF Left, Come
  <2>2. \A m \in Mobile : v.where[m] = Nil <=> w.where[m] = Nil
    BY <1>0, <2>1, WorldIs, MapIs
  <2> QED
    BY <1>0, <1>1, <1>3, <2>2, KindsSame DEF Left, Come
<1>5. DoorsSound(v)
  BY <1>0, <1>1, <1>3, DoorsSame DEF Left, Come
<1> QED
  BY <1>1, <1>3, <1>4, <1>5 DEF Sound, Come, Left

\* Lids and doors are not counted.
LEMMA SealTallies ==
  ASSUME NEW w \in Sound, NEW shut \in SUBSET (Exit \cup Object), NEW locked \in SUBSET (Exit \cup Object),
         DoorsMatch => /\ shut \cap Exit \subseteq Door /\ locked \cap Exit \subseteq Door
                       /\ Even(shut) /\ Even(locked)
  PROVE  [w EXCEPT !.shut = shut, !.locked = locked] \in Sound
<1> DEFINE v == Handled(w, w.at, w.list, w.count, shut, locked)
<1>0. w \in World /\ PlayersTallied(w) /\ KindsTallied(w) /\ DoorsSound(w)
  BY DEF Sound
<1>1. [w EXCEPT !.shut = shut, !.locked = locked] = v
  BY <1>0 DEF Handled, World
<1>2. /\ v \in World /\ v.at = w.at /\ v.count = w.count
      /\ v.way = w.way /\ v.shut = shut /\ v.locked = locked
      /\ v.where = w.where /\ v.nplayer = w.nplayer /\ v.empty = w.empty
  <2>1. /\ w.at \in [Object -> Room \cup Body \cup Object \cup {Nil}]
        /\ w.list \in Seq(Object) /\ w.count \in [Kinds -> Int]
    BY <1>0, WorldIs
  <2> QED
    BY <1>0, <2>1, HandledIs
<1> HIDE DEF v
<1>3. PlayersTallied(v) /\ KindsTallied(v)
  BY <1>0, <1>2, PlayersSame, KindsSame
<1>4. DoorsSound(v)
  BY <1>0, <1>2 DEF DoorsSound, Matched
<1> QED
  BY <1>1, <1>2, <1>3, <1>4 DEF Sound

----------------------------------------------------------------------------
\* The two sides of doors.

\* A door is in one place, and is there always.
LEMMA DoorStays ==
  ASSUME DoorsMatch, NEW w, Matched(w), NEW r \in Room, NEW d \in Dir,
         w.way[r][d] \in Door \/ Way[r][d] \in Door
  PROVE  d \notin Mazy(r) /\ w.way[r][d] = Way[r][d]
<1>1. w.way[r][d] \in Found(r, d)
  BY DEF Matched
<1>2. CASE d \in Mazy(r)
  <2>1. \A x \in Mazy(r) : Way[r][x] \notin Door
    BY DEF DoorsMatch
  <2> QED
    BY <1>1, <1>2, <2>1 DEF Found
<1> QED
  BY <1>1, <1>2 DEF Found

LEMMA TwinOf ==
  ASSUME DoorsMatch, NEW w, Matched(w), NEW r \in Room, NEW d \in Dir,
         NEW e, e = w.way[r][d], e \in Door, NEW f, Twin(e, f)
  PROVE  f = w.way[To[e]][Rev[d]] /\ To[f] = r /\ f \in Door
<1>1. e = Way[r][d]
  BY DoorStays
<1>2. PICK s \in Room, x \in Dir :
        f \in Door /\ e = Way[s][x] /\ f = Way[To[e]][Rev[x]] /\ To[f] = s
  BY DEF Twin
<1>3. s = r /\ x = d
  <2>1. \A q \in Room, z \in Dir : Way[r][d] = Way[q][z] /\ Way[r][d] \in Door => r = q /\ d = z
    BY DEF DoorsMatch
  <2> QED
    BY <1>1, <1>2, <2>1
<1>4. To[e] \in Room /\ Rev[d] \in Dir
  BY MapIs
<1> QED
  BY <1>2, <1>3, <1>4, DoorStays

LEMMA TwinsTurn ==
  ASSUME DoorsMatch, NEW e, NEW f, Twin(e, f)
  PROVE  Twin(f, e)
<1>1. PICK r \in Room, d \in Dir :
        e \in Door /\ f \in Door /\ e = Way[r][d] /\ f = Way[To[e]][Rev[d]] /\ To[f] = r
  BY DEF Twin
<1>2. To[e] \in Room /\ Rev[d] \in Dir /\ Rev[Rev[d]] = d
  BY <1>1, MapIs DEF DoorsMatch
<1> QED
  BY <1>1, <1>2 DEF Twin

\* With a door its other side.
LEMMA EvenIf ==
  ASSUME DoorsMatch, NEW L, \A e \in L \cap Door, f \in Door : Twin(e, f) => f \in L
  PROVE  Even(L)
BY TwinsTurn DEF Even

LEMMA EvenTogether ==
  ASSUME NEW L, NEW K, Even(L), Even(K)
  PROVE  Even(L \cup K) /\ Even(L \ K) /\ Even(L \cap K)
BY DEF Even

LEMMA FlagsAreEven ==
  ASSUME DoorsMatch
  PROVE  Even(Shut) /\ Even(Locked)
<1> SUFFICES ASSUME NEW e \in Door, NEW f \in Door, Twin(e, f)
             PROVE  (e \in Shut <=> f \in Shut) /\ (e \in Locked <=> f \in Locked)
  BY DEF Even
<1>1. PICK r \in Room, d \in Dir : e = Way[r][d] /\ f = Way[To[e]][Rev[d]] /\ To[f] = r
  BY DEF Twin
<1>2. To[e] \in Room /\ Rev[d] \in Dir /\ e # Nil /\ f # Nil
  BY <1>1, MapIs
<1>3. d \notin Mazy(r) /\ Rev[d] \notin Mazy(To[e])
  BY <1>1, <1>2 DEF DoorsMatch
<1>4. e \in Found(r, d) /\ f \in Found(To[e], Rev[d])
  BY <1>1, <1>3 DEF Found
<1> QED
  BY <1>1, <1>2, <1>4 DEF DoorsMatch

\* What a reset of a room does to a door it does to both sides.
LEMMA AroundIsEven ==
  ASSUME DoorsMatch, NEW w \in World, Matched(w), NEW r \in Room
  PROVE  Even(ExitsAround(w, r))
<1> DEFINE S == ExitsAround(w, r)
<1> SUFFICES ASSUME NEW e \in S, e \in Door, NEW f \in Door, Twin(e, f)
             PROVE  f \in S
  BY EvenIf
<1>0. w.way \in [Room -> [Dir -> Exit \cup {Nil}]] /\ Nil \notin Exit /\ Door \subseteq Exit
  BY WorldIs, MapIs
<1>1. ASSUME NEW d \in Dir, e = w.way[r][d]
      PROVE  f \in S
  <2>1. f = w.way[To[e]][Rev[d]] /\ f # Nil /\ e # Nil
    BY <1>0, <1>1, TwinOf
  <2> QED
    BY <1>1, <2>1 DEF ExitsAround
<1>2. ASSUME NEW d \in Dir, w.way[r][d] # Nil, e = w.way[To[w.way[r][d]]][Rev[d]]
      PROVE  f \in S
  <2> DEFINE g == w.way[r][d]
             s == To[g]
  <2>1. g \in Exit /\ s \in Room /\ Rev[d] \in Dir /\ Rev[Rev[d]] = d
    BY <1>0, <1>2, MapIs DEF DoorsMatch
  <2>2. g \in Found(r, d) /\ e \in Found(s, Rev[d])
    BY <1>2, <2>1 DEF Matched
  <2>3. To[e] = r
    BY <1>0, <1>2, <2>2 DEF DoorsMatch
  <2>4. f = w.way[To[e]][Rev[Rev[d]]]
    <3>1. e = w.way[s][Rev[d]]
      BY <1>2
    <3> HIDE DEF s
    <3> QED
      BY <2>1, <3>1, TwinOf
  <2>5. f = g
    BY <2>1, <2>3, <2>4
  <2> QED
    BY <1>2, <2>5 DEF ExitsAround
<1> QED
  BY <1>1, <1>2 DEF ExitsAround

LEMMA DoorsAtFirst == DoorsSound(Booted)
<1> SUFFICES ASSUME DoorsMatch
             PROVE  Matched(Booted)
  BY DEF DoorsSound
<1>1. Booted.way = Way /\ Booted.shut = Exit \cap Shut /\ Booted.locked = Exit \cap Locked
  BY DEF Booted
<1>2. Door \subseteq Exit /\ Shut \cap Exit \subseteq Door /\ Locked \cap Exit \subseteq Door
  BY MapIs
<1>3. Even(Exit \cap Shut) /\ Even(Exit \cap Locked)
  BY <1>2, FlagsAreEven DEF Even
<1>4. \A r \in Room, d \in Dir : Way[r][d] \in Found(r, d)
  BY DEF Found
<1> QED
  BY <1>1, <1>2, <1>3, <1>4 DEF Matched

----------------------------------------------------------------------------
\* Resets.

Runs == {s \in Run : s.w \in Sound}

LEMMA RunGoesOn ==
  ASSUME NEW s \in Runs, NEW v \in Sound, NEW b \in BOOLEAN, NEW m \in Mobile \cup {Nil}
  PROVE  /\ [s EXCEPT !.w = v, !.last = b, !.mob = m] \in Runs
         /\ [s EXCEPT !.w = v, !.last = b] \in Runs
         /\ [s EXCEPT !.w = v] \in Runs
         /\ [s EXCEPT !.last = b] \in Runs
BY DEF Runs, Run, Sound

LEMMA RunIs ==
  ASSUME NEW s \in Runs
  PROVE  s.w \in Sound /\ s.w \in World /\ s.last \in BOOLEAN /\ s.mob \in Mobile \cup {Nil}
BY DEF Runs, Run, Sound

LEMMA ExitsTally ==
  ASSUME NEW w \in Sound, NEW r \in Room
  PROVE  reset_exits(w, r) \in Sound
<1> DEFINE S == ExitsAround(w, r)
           shut == (w.shut \ S) \cup (S \cap Shut)
           locked == (w.locked \ S) \cup (S \cap Locked)
<1>1. w.way \in [Room -> [Dir -> Exit \cup {Nil}]] /\ w.shut \subseteq Exit \cup Object
      /\ w.locked \subseteq Exit \cup Object
  BY WorldIs DEF Sound
<1>2. S \subseteq Exit
  <2>1. \A d \in Dir : w.way[r][d] \in Exit \cup {Nil}
    BY <1>1
  <2>2. \A d \in Dir : w.way[r][d] # Nil =>
          To[w.way[r][d]] \in Room /\ Rev[d] \in Dir
    BY <2>1, MapIs
  <2>3. \A d \in Dir : w.way[r][d] # Nil => w.way[To[w.way[r][d]]][Rev[d]] \in Exit \cup {Nil}
    BY <1>1, <2>2
  <2> QED
    BY <2>1, <2>3 DEF ExitsAround
<1> HIDE DEF S
<1>3. shut \in SUBSET (Exit \cup Object) /\ locked \in SUBSET (Exit \cup Object)
  BY <1>1, <1>2
<1>4. reset_exits(w, r) = [w EXCEPT !.shut = shut, !.locked = locked]
  BY DEF reset_exits, S
<1>6. ASSUME DoorsMatch
      PROVE  /\ shut \cap Exit \subseteq Door /\ locked \cap Exit \subseteq Door
             /\ Even(shut) /\ Even(locked)
  <2>1. Matched(w)
    BY <1>6 DEF Sound, DoorsSound
  <2>2. Shut \cap Exit \subseteq Door /\ Locked \cap Exit \subseteq Door
    BY MapIs
  <2>3. Even(S)
    BY <1>6, <2>1, AroundIsEven DEF S, Sound
  <2>4. Even(shut) /\ Even(locked)
    BY <1>6, <2>1, <2>3, FlagsAreEven, EvenTogether DEF Matched
  <2> QED
    BY <2>1, <2>2, <2>4 DEF Matched
<1> HIDE DEF shut, locked
<1>5. [w EXCEPT !.shut = shut, !.locked = locked] \in Sound
  BY <1>3, <1>6, SealTallies, Zenon
<1> QED
  BY <1>4, <1>5

LEMMA BirthTallies ==
  ASSUME NEW w \in Sound, NEW m \in Mobile, w.where[m] = Nil, NEW r \in Room
  PROVE  LET v == char_to_room(create_mobile(w, m), m, r)
         IN  v \in Sound /\ v.at = w.at
<1> DEFINE n == [w.count EXCEPT ![Kind[m]] = @ + 1]
           u == create_mobile(w, m)
           v == char_to_room(u, m, r)
<1>0. w \in World /\ PlayersTallied(w) /\ KindsTallied(w) /\ DoorsSound(w) /\ m \in Body /\ r # Nil
      /\ Kind[m] \in Kinds
  BY MapIs DEF Sound
<1>1. /\ n \in [Kinds -> Int]
      /\ \A k \in Kinds : n[k] = IF k = Kind[m] THEN w.count[k] + 1 ELSE w.count[k]
  <2>1. w.count \in [Kinds -> Int]
    BY <1>0, WorldIs
  <2> QED
    BY <1>0, <2>1
<1>2. u = [w EXCEPT !.count = n]
  BY <1>0 DEF create_mobile, World
<1> HIDE DEF n, u
<1>3. /\ u \in World /\ u.count = n /\ u.where = w.where /\ u.at = w.at
      /\ u.nplayer = w.nplayer /\ u.empty = w.empty
      /\ u.way = w.way /\ u.shut = w.shut /\ u.locked = w.locked
  BY <1>0, <1>1, <1>2 DEF World
<1>4. PlayersTallied(u)
  BY <1>0, <1>3, PlayersSame
<1>5. PlayersTallied(v) /\ Come(u, m, r, v)
  BY <1>0, <1>3, <1>4, PlayersCome, ToRoomIs
<1> SUFFICES v \in Sound /\ v.at = w.at
  BY DEF u
<1> HIDE DEF v
<1>6. KindsTallied(v)
  <2>1. v.where[m] # Nil
    BY <1>0, <1>3, <1>5, WorldIs DEF Come
  <2>2. \A x \in Mobile \ {m} : v.where[x] = w.where[x]
    BY <1>0, <1>3, <1>5, WorldIs, MapIs DEF Come
  <2>3. w.count \in [Kinds -> Int] /\ v.count = n /\ v.at = w.at
    BY <1>0, <1>3, <1>5, WorldIs DEF Come
  <2> QED
    BY <1>0, <1>1, <2>1, <2>2, <2>3, KindsBorn
<1>7. DoorsSound(v)
  BY <1>0, <1>3, <1>5, DoorsSame DEF Come
<1> QED
  BY <1>3, <1>5, <1>6, <1>7 DEF Sound, Come

LEMMA MobileTallies ==
  ASSUME NEW s \in Runs, NEW r \in Room, NEW c
  PROVE  reset_mobile(s, r, c) \subseteq Runs
<1> DEFINE here == Cardinality({m \in Alive(s.w, c.kind) : s.w.where[m] = r})
<1>1. [s EXCEPT !.last = FALSE] \in Runs
  BY RunIs, RunGoesOn
<1>2. [s EXCEPT !.last = @ /\ here = 0] \in Runs
  <2>1. (s.last /\ here = 0) \in BOOLEAN
    BY RunIs
  <2> HIDE DEF here
  <2> QED
    BY <2>1, RunIs, RunGoesOn
<1>3. ASSUME NEW m \in Unborn(s.w, c.kind)
      PROVE  [s EXCEPT !.w = char_to_room(create_mobile(s.w, m), m, r), !.last = TRUE, !.mob = m] \in Runs
  <2>1. m \in Mobile /\ s.w.where[m] = Nil
    BY DEF Unborn
  <2>2. char_to_room(create_mobile(s.w, m), m, r) \in Sound
    BY <2>1, RunIs, BirthTallies
  <2> QED
    BY <2>1, <2>2, RunGoesOn
<1> QED
  BY <1>1, <1>2, <1>3 DEF reset_mobile

LEMMA ObjectTallies ==
  ASSUME NEW s \in Runs, NEW r \in Room, NEW c
  PROVE  reset_object(s, r, c) \subseteq Runs
<1>1. [s EXCEPT !.last = FALSE] \in Runs
  BY RunIs, RunGoesOn
<1>2. ASSUME NEW o \in Unmade(s.w, c.kind)
      PROVE  [s EXCEPT !.w = create_object(s.w, o, r), !.last = TRUE] \in Runs
  <2>1. o \in Object /\ s.w.at[o] = Nil
    BY DEF Unmade
  <2>2. create_object(s.w, o, r) \in Sound
    BY <2>1, RunIs, CreateTallies
  <2> QED
    BY <2>2, RunGoesOn
<1> QED
  BY <1>1, <1>2 DEF reset_object

LEMMA GiveTallies ==
  ASSUME NEW s \in Runs, NEW r \in Room, NEW c
  PROVE  reset_give(s, r, c) \subseteq Runs
<1>1. [s EXCEPT !.last = FALSE] \in Runs
  BY RunIs, RunGoesOn
<1>2. ASSUME NEW o \in Unmade(s.w, c.kind), s.mob # Nil
      PROVE  [s EXCEPT !.w = create_object(s.w, o, s.mob)] \in Runs
  <2>1. o \in Object /\ s.w.at[o] = Nil
    BY DEF Unmade
  <2>2. s.mob \in Body
    BY <1>2, RunIs, MapIs
  <2>3. create_object(s.w, o, s.mob) \in Sound
    BY <2>1, <2>2, RunIs, CreateTallies
  <2> QED
    BY <2>3, RunGoesOn
<1> QED
  BY <1>1, <1>2 DEF reset_give

\* n turns, or none.
LEMMA TurnsAre ==
  ASSUME NEW n \in Int
  PROVE  [i \in 1..n |-> i] \in Seq(1..n)
<1>1. CASE n \in Nat
  BY <1>1
<1>2. CASE n \notin Nat
  <2> DEFINE D == 1..n
             f == [i \in D |-> i]
  <2>1. D = 1..0
    BY <1>2
  <2> HIDE DEF D
  <2>2. f = <<>>
    BY <2>1
  <2>3. f \in Seq(D)
    BY <2>2
  <2> QED
    BY <2>3 DEF D
<1> QED
  BY <1>1, <1>2

LEMMA FilledTallies ==
  ASSUME NEW w \in Sound, NEW c, c.most \in Int, NEW chest \in Object
  PROVE  Filled(w, c, chest) \subseteq Sound
<1> DEFINE missing == c.most - CountIn(w, c.kind, chest)
           more(v, i) == IF Unmade(v, c.kind) = {} \/ (i > 1 /\ v.count[c.kind] >= c.limit) THEN {v}
                         ELSE {create_object(v, o, chest) : o \in Unmade(v, c.kind)}
           D == 1..missing
           f == [i \in D |-> i]
           Step == [i \in D |-> [v \in World |-> more(v, i)]]
<1>1. Filled(w, c, chest) = Outcomes(f, {w}, Step)
  BY DEF Filled
<1>2. missing \in Int
  <2>1. {o \in Inside(w, chest) : Kind[o] = c.kind} \subseteq Object
    BY DEF Inside
  <2>2. CountIn(w, c.kind, chest) \in Nat
    BY <2>1, MapIs, FS_Subset, FS_CardinalityType DEF CountIn
  <2> QED
    BY <2>2
<1>3. f \in Seq(D)
  <2> HIDE DEF missing
  <2> QED
    BY <1>2, TurnsAre
<1>4. \A i \in D : \A v \in Sound : Step[i][v] \subseteq Sound
  <2> SUFFICES ASSUME NEW i \in D, NEW v \in Sound
               PROVE  Step[i][v] \subseteq Sound
    OBVIOUS
  <2>1. Step[i][v] = more(v, i)
    <3> HIDE DEF D
    <3> QED
      BY DEF Sound
  <2>2. ASSUME NEW o \in Unmade(v, c.kind)
        PROVE  create_object(v, o, chest) \in Sound
    <3>1. o \in Object /\ v.at[o] = Nil
      BY DEF Unmade
    <3> QED
      BY <3>1, CreateTallies
  <2> HIDE DEF Step
  <2> QED
    BY <2>1, <2>2
<1>5. D \subseteq DOMAIN Step /\ \A i \in D : DOMAIN Step[i] = World
  <2> HIDE DEF D
  <2> QED
    OBVIOUS
<1>6. Sound \in SUBSET World /\ {w} \in SUBSET Sound
  BY DEF Sound
<1> HIDE DEF D, f, Step
<1>7. Outcomes(f, {w}, Step) \subseteq Sound
  BY <1>3, <1>4, <1>5, <1>6, OutcomesStay
<1> QED
  BY <1>1, <1>7

LEMMA NewestIs ==
  ASSUME NEW w \in World, NEW k, Newest(w, k) # 0
  PROVE  w.list[Newest(w, k)] \in Object
<1> DEFINE L == w.list
           I == {i \in 1..Len(L) : Kind[L[i]] = k}
<1>1. L \in Seq(Object)
  BY WorldIs
<1>2. Newest(w, k) = IF I # {} THEN Min(I) ELSE 0
  BY DEF Newest, SelectInSeq
<1>3. Len(L) \in Nat /\ \A i \in 1..Len(L) : L[i] \in Object
  BY <1>1
<1>4. I # {} => Min(I) \in I
  <2> I \in SUBSET (1..Len(L))
    OBVIOUS
  <2> HIDE DEF I, L
  <2> QED
    BY <1>3, Smallest
<1> QED
  BY <1>2, <1>3, <1>4

LEMMA PutTallies ==
  ASSUME NEW s \in Runs, NEW r \in Room, NEW c, c.most \in Int
  PROVE  reset_put(s, r, c) \subseteq Runs
<1> DEFINE n == Newest(s.w, c.into)
           chest == s.w.list[n]
<1>1. [s EXCEPT !.last = FALSE] \in Runs
  BY RunIs, RunGoesOn
<1>2. ASSUME n # 0
      PROVE  chest \in Object
  BY <1>2, NewestIs, RunIs
<1>3. ASSUME n # 0, NEW v \in Filled(s.w, c, chest)
      PROVE  [s EXCEPT !.w = Relid(v, chest), !.last = TRUE] \in Runs
  <2> DEFINE shut == IF Kind[chest] \in Shut THEN v.shut \cup {chest} ELSE v.shut \ {chest}
             locked == IF Kind[chest] \in Locked THEN v.locked \cup {chest} ELSE v.locked \ {chest}
  <2>1. v \in Sound /\ chest \in Object
    BY <1>2, <1>3, RunIs, FilledTallies
  <2> HIDE DEF chest
  <2>2. shut \in SUBSET (Exit \cup Object) /\ locked \in SUBSET (Exit \cup Object)
    BY <2>1, WorldIs DEF Sound
  <2>5. DoorsMatch => /\ shut \cap Exit \subseteq Door /\ locked \cap Exit \subseteq Door
                      /\ Even(shut) /\ Even(locked)
    <3>1. DoorsSound(v) /\ chest \notin Exit /\ Door \subseteq Exit
      BY <2>1, MapIs DEF Sound
    <3>2. shut \cap Exit = v.shut \cap Exit /\ locked \cap Exit = v.locked \cap Exit
      BY <3>1
    <3> HIDE DEF shut, locked
    <3> QED
      BY <3>1, <3>2 DEF DoorsSound, Matched, Even
  <2>3. Relid(v, chest) = [v EXCEPT !.shut = shut, !.locked = locked]
    BY DEF Relid
  <2>6. [v EXCEPT !.shut = shut, !.locked = locked] \in Sound
    <3> HIDE DEF shut, locked
    <3> QED
      BY <2>1, <2>2, <2>5, SealTallies, Zenon
  <2>4. Relid(v, chest) \in Sound
    <3> HIDE DEF shut, locked
    <3> QED
      BY <2>6, <2>3
  <2> QED
    BY <2>4, RunGoesOn
<1>4. Fillable(s, r, c) => n # 0
  BY DEF Fillable
<1> QED
  BY <1>1, <1>3, <1>4 DEF reset_put

LEMMA RandomTallies ==
  ASSUME NEW s \in Runs, NEW r \in Room, NEW c \in Range(Reset[r]), c.cmd = "R", c.dirs \subseteq Dir
  PROVE  reset_random(s, r, c) \subseteq Runs
<1> SUFFICES ASSUME NEW p \in Shuffles(c.dirs)
             PROVE  [s EXCEPT !.w.way[r] = [d \in Dir |-> IF d \in c.dirs THEN @[p[d]] ELSE @[d]]] \in Runs
  BY DEF reset_random
<1> DEFINE g == [d \in Dir |-> IF d \in c.dirs THEN s.w.way[r][p[d]] ELSE s.w.way[r][d]]
           x == [s.w.way EXCEPT ![r] = g]
           v == [s.w EXCEPT !.way = x]
<1>1. /\ s.w \in World /\ s.w.way \in [Room -> [Dir -> Exit \cup {Nil}]]
      /\ PlayersTallied(s.w) /\ KindsTallied(s.w)
  BY RunIs, WorldIs DEF Sound
<1>2. p \in [c.dirs -> c.dirs]
  BY DEF Shuffles
<1>3. g \in [Dir -> Exit \cup {Nil}]
  BY <1>1, <1>2
<1>4. x \in [Room -> [Dir -> Exit \cup {Nil}]]
  <2> HIDE DEF g
  <2> QED
    BY <1>1, <1>3
<1>5. [s EXCEPT !.w.way[r] = [d \in Dir |-> IF d \in c.dirs THEN @[p[d]] ELSE @[d]]] = [s EXCEPT !.w = v]
  OBVIOUS
<1> HIDE DEF x
<1>6. /\ v \in World /\ v.where = s.w.where /\ v.nplayer = s.w.nplayer /\ v.empty = s.w.empty
      /\ v.at = s.w.at /\ v.count = s.w.count
      /\ v.way = x /\ v.shut = s.w.shut /\ v.locked = s.w.locked
  BY <1>1, <1>4 DEF World
<1> HIDE DEF v
<1>8. ASSUME Matched(s.w)
      PROVE  Matched(v)
  <2>1. c.dirs \subseteq Mazy(r)
    BY DEF Mazy
  <2>2. \A d \in c.dirs : Found(r, d) = Found(r, p[d])
    BY <1>2, <2>1 DEF Found
  <2>3. \A d \in Dir : g[d] \in Found(r, d)
    BY <1>2, <1>8, <2>2 DEF Matched
  <2> HIDE DEF g
  <2>4. \A q \in Room, d \in Dir : x[q][d] \in Found(q, d)
    BY <1>1, <1>8, <2>3 DEF Matched, x
  <2> QED
    BY <1>6, <1>8, <2>4 DEF Matched
<1>9. DoorsSound(s.w)
  BY RunIs DEF Sound
<1>7. v \in Sound
  BY <1>1, <1>6, <1>8, <1>9, PlayersSame, KindsSame DEF Sound, DoorsSound
<1> QED
  BY <1>5, <1>7, RunGoesOn

LEMMA OneTallies ==
  ASSUME NEW s \in Runs, NEW r \in Room, NEW c \in Range(Reset[r])
  PROVE  reset_one(s, r, c) \subseteq Runs
<1>1. /\ c.cmd \in {"M", "O", "P", "G", "R"}
      /\ c.cmd = "P" => c.most \in Int
      /\ c.cmd = "R" => c.dirs \subseteq Dir
  BY AreasConstants DEF ResetsTyped
<1>2. CASE c.cmd = "M"
  BY <1>2, MobileTallies DEF reset_one
<1>3. CASE c.cmd = "O"
  BY <1>3, ObjectTallies DEF reset_one
<1>4. CASE c.cmd = "P"
  BY <1>1, <1>4, PutTallies DEF reset_one
<1>5. CASE c.cmd = "G"
  BY <1>5, GiveTallies DEF reset_one
<1>6. CASE c.cmd = "R"
  BY <1>1, <1>6, RandomTallies DEF reset_one
<1> QED
  BY <1>1, <1>2, <1>3, <1>4, <1>5, <1>6

LEMMA RoomTallies ==
  ASSUME NEW w \in Sound, NEW r \in Room
  PROVE  reset_room(w, r) \subseteq Sound
<1> DEFINE start == [w |-> reset_exits(w, r), last |-> FALSE, mob |-> Nil]
           D == Range(Reset[r])
           Step == [c \in D |-> [s \in Run |-> reset_one(s, r, c)]]
           out == Outcomes(Reset[r], {start}, Step)
<1>1. start \in Runs
  <2>1. reset_exits(w, r) \in Sound
    BY ExitsTally
  <2> QED
    BY <2>1 DEF Runs, Run, Sound
<1>2. \A c \in D : \A s \in Runs : Step[c][s] \subseteq Runs
  <2> SUFFICES ASSUME NEW c \in D, NEW s \in Runs
               PROVE  Step[c][s] \subseteq Runs
    OBVIOUS
  <2>1. s \in Run
    BY DEF Runs
  <2>2. Step[c][s] = reset_one(s, r, c)
    <3> HIDE DEF D
    <3> QED
      BY <2>1
  <2> QED
    BY <2>2, OneTallies
<1>3. D \subseteq DOMAIN Step /\ \A c \in D : DOMAIN Step[c] = Run
  <2> HIDE DEF D
  <2> QED
    OBVIOUS
<1>4. Reset[r] \in Seq(D)
  BY AreasConstants DEF ResetsTyped
<1>5. Runs \in SUBSET Run /\ {start} \in SUBSET Runs
  BY <1>1 DEF Runs
<1>6. reset_room(w, r) = {s.w : s \in out}
  BY DEF reset_room
<1> HIDE DEF D, Step
<1>7. out \subseteq Runs
  BY <1>2, <1>3, <1>4, <1>5, OutcomesStay
<1> HIDE DEF out
<1> QED
  BY <1>6, <1>7 DEF Runs

LEMMA AreaTallies ==
  ASSUME NEW w \in Sound, NEW a \in Area
  PROVE  reset_area(w, a) \subseteq Sound
<1> DEFINE Step == [r \in Room |-> [v \in World |-> reset_room(v, r)]]
<1>1. \A r \in Room : \A v \in Sound : Step[r][v] \subseteq Sound
  BY RoomTallies DEF Sound
<1>2. Room \subseteq DOMAIN Step /\ \A r \in Room : DOMAIN Step[r] = World
  OBVIOUS
<1>3. Sound \in SUBSET World /\ {w} \in SUBSET Sound /\ Rooms[a] \in Seq(Room)
  BY MapIs DEF Sound
<1>4. reset_area(w, a) = Outcomes(Rooms[a], {w}, Step)
  BY DEF reset_area
<1> HIDE DEF Step
<1>5. Outcomes(Rooms[a], {w}, Step) \subseteq Sound
  BY <1>1, <1>2, <1>3, OutcomesStay
<1> QED
  BY <1>4, <1>5

\* An area grows older, and its age and emptiness are set when it is reset.
LEMMA AgedTallies ==
  ASSUME NEW w \in Sound, NEW a \in Area, NEW n \in 0..Old
  PROVE  /\ [w EXCEPT !.age[a] = n] \in Sound
         /\ [w EXCEPT !.age[a] = n, !.empty = IF w.nplayer[a] = 0 THEN @ \cup {a} ELSE @] \in Sound
<1> DEFINE g == [w.age EXCEPT ![a] = n]
           e == IF w.nplayer[a] = 0 THEN w.empty \cup {a} ELSE w.empty
           u == [w EXCEPT !.age = g]
           v == [u EXCEPT !.empty = e]
<1>0. w \in World /\ PlayersTallied(w) /\ KindsTallied(w) /\ DoorsSound(w)
  BY DEF Sound
<1>1. g \in [Area -> 0..Old] /\ e \subseteq Area
  BY <1>0, WorldIs
<1>2. /\ [w EXCEPT !.age[a] = n] = u
      /\ [w EXCEPT !.age[a] = n, !.empty = IF w.nplayer[a] = 0 THEN @ \cup {a} ELSE @] = v
  BY <1>0 DEF World
<1>3. e \subseteq w.empty \cup {b \in Area : w.nplayer[b] = 0}
  OBVIOUS
<1> HIDE DEF g, e
<1>4. /\ u \in World /\ u.where = w.where /\ u.nplayer = w.nplayer /\ u.empty = w.empty
      /\ u.at = w.at /\ u.count = w.count
      /\ u.way = w.way /\ u.shut = w.shut /\ u.locked = w.locked
  BY <1>0, <1>1 DEF World
<1> HIDE DEF u
<1>5. /\ v \in World /\ v.where = w.where /\ v.nplayer = w.nplayer /\ v.empty = e
      /\ v.at = w.at /\ v.count = w.count
      /\ v.way = w.way /\ v.shut = w.shut /\ v.locked = w.locked
  BY <1>1, <1>4 DEF World
<1> HIDE DEF v
<1>6. u \in Sound
  BY <1>0, <1>4, PlayersSame, KindsSame, DoorsSame DEF Sound
<1>7. PlayersTallied(v)
  BY <1>0, <1>3, <1>5 DEF PlayersTallied, In
<1>8. v \in Sound
  BY <1>0, <1>5, <1>7, KindsSame, DoorsSame DEF Sound
<1> QED
  BY <1>2, <1>6, <1>8

LEMMA UpdateTallies ==
  ASSUME NEW w \in Sound, NEW a \in Area
  PROVE  update_area(w, a) \subseteq Sound
<1> DEFINE n == IF w.age[a] < Old THEN w.age[a] + 1 ELSE w.age[a]
           older == [w EXCEPT !.age[a] = n]
<1>1. older \in Sound
  <2>1. w.age[a] \in 0..Old /\ Old \in Nat
    BY MapIs, WorldIs DEF Sound
  <2>2. n \in 0..Old
    BY <2>1
  <2> HIDE DEF n
  <2> QED
    BY <2>2, AgedTallies
<1>2. update_area(w, a) = IF Due(older, a) THEN UNION {Aged(v, a) : v \in reset_area(older, a)} ELSE {older}
  BY DEF update_area
<1> HIDE DEF older
<1>3. ASSUME NEW v \in Sound
      PROVE  Aged(v, a) \subseteq Sound
  <2>1. Busy - 2 \in 0..Old /\ \A i \in 0..Young : i \in 0..Old
    BY MapIs
  <2>2. [v EXCEPT !.age[a] = Busy - 2] \in Sound
    BY <2>1, AgedTallies
  <2>3. \A i \in 0..Young :
          [v EXCEPT !.age[a] = i, !.empty = IF v.nplayer[a] = 0 THEN @ \cup {a} ELSE @] \in Sound
    BY <2>1, AgedTallies
  <2> QED
    BY <2>2, <2>3 DEF Aged
<1>4. reset_area(older, a) \subseteq Sound
  BY <1>1, AreaTallies
<1> QED
  BY <1>1, <1>2, <1>3, <1>4

LEMMA AllTally ==
  ASSUME NEW w \in Sound
  PROVE  UpdateAll(w) \subseteq Sound
<1> DEFINE Step == [a \in Area |-> [v \in World |-> update_area(v, a)]]
<1>1. \A a \in Area : \A v \in Sound : Step[a][v] \subseteq Sound
  BY UpdateTallies DEF Sound
<1>2. Area \subseteq DOMAIN Step /\ \A a \in Area : DOMAIN Step[a] = World
  OBVIOUS
<1>3. Sound \in SUBSET World /\ {w} \in SUBSET Sound /\ Order \in Seq(Area)
  BY MapIs DEF Sound
<1>4. UpdateAll(w) = Outcomes(Order, {w}, Step)
  BY DEF UpdateAll
<1> HIDE DEF Step
<1>5. Outcomes(Order, {w}, Step) \subseteq Sound
  BY <1>1, <1>2, <1>3, OutcomesStay
<1> QED
  BY <1>4, <1>5

----------------------------------------------------------------------------
\* All steps.

LEMMA LoadedTallies == Booted \in Sound
<1>1. Booted \in World
  <2>1. /\ Booted.where \in [Body -> Room \cup {Nil}]
        /\ Booted.at \in [Object -> Room \cup Body \cup Object \cup {Nil}]
        /\ Booted.list \in Seq(Object)
        /\ Booted.count \in [Kinds -> Int] /\ Booted.nplayer \in [Area -> Int]
    BY DEF Booted
  <2>2. /\ Booted.way \in [Room -> [Dir -> Exit \cup {Nil}]]
        /\ Booted.shut \in SUBSET (Exit \cup Object) /\ Booted.locked \in SUBSET (Exit \cup Object)
        /\ Booted.empty \in SUBSET Area
    BY MapIs DEF Booted
  <2>3. Booted.age \in [Area -> 0..Old]
    BY MapIs DEF Booted
  <2>4. Booted = [where |-> Booted.where, at |-> Booted.at, list |-> Booted.list,
                  count |-> Booted.count, way |-> Booted.way, shut |-> Booted.shut,
                  locked |-> Booted.locked, nplayer |-> Booted.nplayer, empty |-> Booted.empty,
                  age |-> Booted.age]
    BY DEF Booted
  <2> HIDE DEF Booted
  <2> QED
    BY <2>1, <2>2, <2>3, <2>4 DEF World
<1>2. /\ \A p \in Player : Booted.where[p] = Nil
      /\ \A m \in Mobile : Booted.where[m] = Nil
      /\ \A o \in Object : Booted.at[o] = Nil
      /\ \A k \in Kinds : Booted.count[k] = 0
      /\ \A a \in Area : Booted.nplayer[a] = 0
      /\ Booted.empty = {}
  BY DEF Booted, Body
<1>3. PlayersTallied(Booted)
  <2>1. \A a : In(Booted, a) = {}
    BY <1>2 DEF In
  <2> QED
    BY <1>2, <2>1, FS_EmptySet DEF PlayersTallied
<1>4. KindsTallied(Booted)
  <2>1. \A k : Alive(Booted, k) = {} /\ Made(Booted, k) = {}
    BY <1>2 DEF Alive, Made, Existing
  <2> QED
    BY <1>2, <2>1, FS_EmptySet DEF KindsTallied
<1>5. DoorsSound(Booted)
  BY DoorsAtFirst
<1> QED
  BY <1>1, <1>3, <1>4, <1>5 DEF Sound

\* Counted, of the world.
LEMMA SoundIsCounted == Twins = {} /\ world \in Sound => Counted
<1>1. \A a : In(world, a) = {p \in Player : Here(p) /\ AreaOf[world.where[p]] = a}
  BY DEF In, Here
<1> QED
  BY <1>1 DEF Sound, Counted, AreasTypeOK, PlayersTallied, KindsTallied, Made

LEMMA PlacesTally ==
  ASSUME NEW w \in Sound, NEW at \in [Object -> Room \cup Body \cup Object \cup {Nil}],
         \A o \in Object : at[o] = Nil <=> w.at[o] = Nil
  PROVE  [w EXCEPT !.at = at] \in Sound
<1> DEFINE v == [w EXCEPT !.at = at]
<1>0. w \in World /\ PlayersTallied(w) /\ KindsTallied(w) /\ DoorsSound(w)
  BY DEF Sound
<1>1. /\ v \in World /\ v.where = w.where /\ v.nplayer = w.nplayer /\ v.empty = w.empty
      /\ v.at = at /\ v.count = w.count
      /\ v.way = w.way /\ v.shut = w.shut /\ v.locked = w.locked
  BY <1>0 DEF World
<1> HIDE DEF v
<1>2. PlayersTallied(v) /\ KindsTallied(v) /\ DoorsSound(v)
  BY <1>0, <1>1, PlayersSame, KindsSame, DoorsSame
<1>3. v \in Sound
  BY <1>1, <1>2 DEF Sound
<1> QED
  BY <1>3 DEF v

\* What is somewhere is put somewhere else.
LEMMA PlaceTallies ==
  ASSUME NEW w \in Sound, NEW o \in Object, w.at[o] # Nil, NEW x \in Room \cup Body \cup Object
  PROVE  [w EXCEPT !.at[o] = x] \in Sound
<1> DEFINE at == [w.at EXCEPT ![o] = x]
<1>1. /\ at \in [Object -> Room \cup Body \cup Object \cup {Nil}]
      /\ \A p \in Object : at[p] = Nil <=> w.at[p] = Nil
  BY WorldIs, MapIs DEF Sound
<1>2. [w EXCEPT !.at[o] = x] = [w EXCEPT !.at = at]
  OBVIOUS
<1> HIDE DEF at
<1> QED
  BY <1>1, <1>2, PlacesTally

LEMMA GoesTallies ==
  ASSUME world \in Sound, NEW p \in Player, Goes(p)
  PROVE  world' \in Sound
<1>0. /\ world.where \in [Body -> Room \cup {Nil}] /\ p \in Body
      /\ world.way \in [Room -> [Dir -> Exit \cup {Nil}]]
  BY WorldIs, MapIs DEF Sound
<1>1. ASSUME NEW r \in Room, Enter(p, r)
      PROVE  world' \in Sound
  BY <1>1, EnterTallies DEF Enter, Here
<1>2. ASSUME NEW r \in Room, Jump(p, r)
      PROVE  world' \in Sound
  BY <1>0, <1>2, MoveTallies DEF Jump, Here
<1>3. ASSUME NEW d \in Dir, Walk(p, d)
      PROVE  world' \in Sound
  <2>1. world.way[world.where[p]][d] \in Exit
    BY <1>0, <1>3 DEF Walk, Here
  <2>2. To[world.way[world.where[p]][d]] \in Room
    BY <2>1, MapIs
  <2> QED
    BY <1>0, <1>3, <2>2, MoveTallies DEF Walk, Here
<1>4. CASE Quit(p)
  BY <1>4, QuitOfTwins DEF Quit, Here
<1> QED
  BY <1>1, <1>2, <1>3, <1>4 DEF Goes

LEMMA WanderTallies ==
  ASSUME world \in Sound, NEW m \in Mobile, NEW d \in Dir, Wander(m, d)
  PROVE  world' \in Sound
<1>0. /\ world.where \in [Body -> Room \cup {Nil}] /\ m \in Body
      /\ world.way \in [Room -> [Dir -> Exit \cup {Nil}]]
  BY WorldIs, MapIs DEF Sound
<1>1. world.way[world.where[m]][d] \in Exit
  <2>1. world.where[m] # Nil /\ world.way[world.where[m]][d] # Nil
    BY DEF Wander, Here
  <2> QED
    BY <1>0, <2>1
<1>2. To[world.way[world.where[m]][d]] \in Room
  BY <1>1, MapIs
<1> QED
  BY <1>0, <1>2, MoveTallies DEF Wander, Here

LEMMA HandlesTallies ==
  ASSUME world \in Sound, NEW p \in Player, Handles(p)
  PROVE  world' \in Sound
<1>0. /\ world.where \in [Body -> Room \cup {Nil}] /\ p \in Body
      /\ world.at \in [Object -> Room \cup Body \cup Object \cup {Nil}]
      /\ Reach(p) \subseteq Object
  BY WorldIs, MapIs DEF Sound, Reach, Inside
<1>1. ASSUME NEW o \in Object, Get(p, o)
      PROVE  world' \in Sound
  <2>1. world.at[o] # Nil
    BY <1>0, <1>1, MapIs DEF Get, Here
  <2> QED
    BY <1>0, <1>1, <2>1, PlaceTallies DEF Get
<1>2. ASSUME NEW o \in Object, Drop(p, o)
      PROVE  world' \in Sound
  <2>1. world.at[o] # Nil /\ world.where[p] \in Room
    BY <1>0, <1>2, MapIs DEF Drop, Here
  <2> QED
    BY <1>2, <2>1, PlaceTallies DEF Drop
<1>3. ASSUME NEW o \in Object, NEW chest \in Object, Put(p, o, chest)
      PROVE  world' \in Sound
  <2>1. world.at[o] # Nil
    BY <1>0, <1>3, MapIs DEF Put
  <2> QED
    BY <1>3, <2>1, PlaceTallies DEF Put
<1>4. ASSUME NEW m \in Mobile, Kill(p, m)
      PROVE  world' \in Sound
  <2> DEFINE at == [o \in Object |-> IF world.at[o] = m THEN world.where[m] ELSE world.at[o]]
             bare == [world EXCEPT !.at = at]
  <2>1. world.where[m] \in Room /\ world.where[m] # Nil /\ m # Nil
    BY <1>0, <1>4, MapIs DEF Kill, Here
  <2>2. /\ at \in [Object -> Room \cup Body \cup Object \cup {Nil}]
        /\ \A o \in Object : at[o] = Nil <=> world.at[o] = Nil
    BY <1>0, <2>1
  <2>3. world' = extract_char(bare, m)
    BY <1>4 DEF Kill
  <2> HIDE DEF at
  <2>4. bare \in Sound
    BY <2>2, PlacesTally
  <2>5. bare.where = world.where
    BY DEF Sound, World
  <2> HIDE DEF bare
  <2> QED
    BY <2>1, <2>3, <2>4, <2>5, DieTallies
<1> QED
  BY <1>1, <1>2, <1>3, <1>4 DEF Handles

\* Who opens a door opens both sides.
LEMMA SidesAreEven ==
  ASSUME DoorsMatch, world \in World, Matched(world), NEW p \in Player, Here(p), NEW x \in Openable(p)
  PROVE  Even(Sides(p, x)) /\ Sides(p, x) \cap Exit \subseteq Door
<1> DEFINE r == world.where[p]
           S == Sides(p, x)
<1>0. /\ world.way \in [Room -> [Dir -> Exit \cup {Nil}]] /\ Nil \notin Exit /\ Door \subseteq Exit
      /\ r \in Room /\ Object \cap Exit = {}
  <2>1. world.where \in [Body -> Room \cup {Nil}] /\ p \in Body
    BY WorldIs, MapIs
  <2> QED
    BY <2>1, WorldIs, MapIs DEF Here
<1>1. x \in Exit => x \in Door
  BY <1>0 DEF Openable, Reach, Inside
<1> HIDE DEF r
<1>2. \A f : f \in S <=> f = x \/ \E d \in Dir : world.way[r][d] = x /\ f \in Other(world, r, d)
  BY DEF Sides, r
<1>3. ASSUME NEW d \in Dir, world.way[r][d] = x, NEW e \in Other(world, r, d)
      PROVE  /\ e # Nil /\ e = world.way[To[x]][Rev[d]] /\ To[e] = r
             /\ Rev[d] \in Dir /\ Rev[Rev[d]] = d
             /\ x \in Exit => e \in Door /\ To[x] \in Room
  <2>1. e # Nil /\ e = world.way[To[x]][Rev[d]] /\ To[e] = r
    BY <1>3 DEF Other
  <2>2. Rev[d] \in Dir /\ Rev[Rev[d]] = d
    BY MapIs DEF DoorsMatch
  <2>3. ASSUME x \in Exit
        PROVE  e \in Door /\ To[x] \in Room
    <3>1. To[x] \in Room /\ x # Nil
      BY <1>0, <2>3, MapIs
    <3>2. x \in Found(r, d) /\ e \in Found(To[x], Rev[d])
      BY <1>0, <1>3, <2>1, <2>2, <3>1 DEF Matched
    <3> QED
      BY <1>0, <1>1, <2>1, <2>3, <3>1, <3>2 DEF DoorsMatch
  <2> QED
    BY <2>1, <2>2, <2>3
<1>4. ASSUME NEW d \in Dir, world.way[r][d] = x, NEW e \in Other(world, r, d), x \in Object
      PROVE  FALSE
  <2>1. x = Nil
    BY <1>0, <1>4
  <2> QED
    BY <1>4, <2>1, MapIs
<1>5. x \in Exit \/ x \in Object
  BY <1>0 DEF Openable, Reach, Inside
<1> HIDE DEF S
<1>6. S \cap Exit \subseteq Door
  BY <1>1, <1>2, <1>3, <1>4, <1>5
<1>7. ASSUME NEW e \in S, e \in Door, NEW f \in Door, Twin(e, f)
      PROVE  f \in S
  <2>1. CASE e = x
    <3>1. x \notin Object
      BY <1>0, <1>7, <2>1
    <3>2. PICK d \in Dir : x = world.way[r][d]
      BY <3>1 DEF Openable, Reach, Inside, r
    <3>3. f = world.way[To[x]][Rev[d]] /\ To[f] = r
      BY <1>0, <1>7, <2>1, <3>2, TwinOf
    <3>4. f \in Other(world, r, d)
      BY <1>0, <1>7, <3>2, <3>3 DEF Other
    <3> QED
      BY <1>2, <3>2, <3>4
  <2>2. CASE e # x
    <3>1. PICK d \in Dir : world.way[r][d] = x /\ e \in Other(world, r, d)
      BY <1>2, <1>7, <2>2
    <3>2. x \in Exit
      BY <1>4, <1>5, <3>1
    <3>3. /\ e = world.way[To[x]][Rev[d]] /\ To[e] = r /\ Rev[d] \in Dir
          /\ Rev[Rev[d]] = d /\ To[x] \in Room
      BY <1>3, <3>1, <3>2
    <3>4. f = world.way[To[e]][Rev[Rev[d]]]
      BY <1>7, <3>3, TwinOf
    <3>5. f = x
      BY <3>1, <3>3, <3>4
    <3> QED
      BY <1>2, <3>5
  <2> QED
    BY <2>1, <2>2
<1>8. Even(S)
  BY <1>7, EvenIf
<1> QED
  BY <1>6, <1>8 DEF S

LEMMA OpensTallies ==
  ASSUME world \in Sound, NEW p \in Player, Opens(p)
  PROVE  world' \in Sound
<1>0. /\ world.where \in [Body -> Room \cup {Nil}] /\ p \in Body
      /\ world.way \in [Room -> [Dir -> Exit \cup {Nil}]]
      /\ world.shut \in SUBSET (Exit \cup Object) /\ world.locked \in SUBSET (Exit \cup Object)
      /\ Reach(p) \subseteq Object /\ Door \subseteq Exit
  BY WorldIs, MapIs DEF Sound, Reach, Inside
<1>1. PICK x \in Openable(p) :
        do_open(p, x) \/ do_close(p, x) \/ do_lock(p, x) \/ do_unlock(p, x) \/ do_pick(p, x)
  BY DEF Opens
<1>2. Sides(p, x) \subseteq Exit \cup Object
  <2> DEFINE r == world.where[p]
  <2>1. r \in Room
    BY <1>0 DEF Opens, Here
  <2>2. x \in Exit \cup Object /\ x # Nil
    BY <1>0, MapIs DEF Openable
  <2>3. ASSUME NEW d \in Dir, world.way[r][d] = x
        PROVE  Other(world, r, d) \subseteq Exit
    <3>1. x \in Exit
      BY <1>0, <2>1, <2>2, <2>3
    <3>2. To[x] \in Room /\ Rev[d] \in Dir
      BY <3>1, MapIs
    <3>3. world.way[To[x]][Rev[d]] \in Exit \cup {Nil}
      BY <1>0, <3>2
    <3> QED
      BY <2>3, <3>3 DEF Other
  <2> QED
    BY <2>2, <2>3 DEF Sides
<1>9. ASSUME DoorsMatch
      PROVE  Even(Sides(p, x)) /\ Matched(world) /\ Sides(p, x) \cap Exit \subseteq Door
  <2>1. Matched(world)
    BY <1>9 DEF Sound, DoorsSound
  <2> QED
    BY <1>1, <1>9, <2>1, SidesAreEven DEF Opens, Sound
<1>3. ASSUME NEW shut \in SUBSET (Exit \cup Object),
             DoorsMatch => shut \cap Exit \subseteq Door /\ Even(shut)
      PROVE  /\ [world EXCEPT !.shut = shut] \in Sound
             /\ [world EXCEPT !.locked = shut] \in Sound
  <2>1. /\ [world EXCEPT !.shut = shut] = [world EXCEPT !.shut = shut, !.locked = world.locked]
        /\ [world EXCEPT !.locked = shut] = [world EXCEPT !.shut = world.shut, !.locked = shut]
    BY DEF Sound, World
  <2>2. /\ [world EXCEPT !.shut = shut, !.locked = world.locked] \in Sound
        /\ [world EXCEPT !.shut = world.shut, !.locked = shut] \in Sound
    BY <1>0, <1>3, <1>9, SealTallies DEF Matched
  <2> QED
    BY <2>1, <2>2
<1>10. ASSUME NEW L \in {world.shut, world.locked}
       PROVE  /\ DoorsMatch => (L \cup Sides(p, x)) \cap Exit \subseteq Door /\ Even(L \cup Sides(p, x))
              /\ DoorsMatch => (L \ Sides(p, x)) \cap Exit \subseteq Door /\ Even(L \ Sides(p, x))
              /\ L \cup Sides(p, x) \in SUBSET (Exit \cup Object)
              /\ L \ Sides(p, x) \in SUBSET (Exit \cup Object)
  <2>1. DoorsMatch => L \cap Exit \subseteq Door /\ Even(L)
    BY <1>9 DEF Matched
  <2>2. DoorsMatch => Even(L \cup Sides(p, x)) /\ Even(L \ Sides(p, x))
    BY <1>9, <2>1, EvenTogether
  <2>3. L \in SUBSET (Exit \cup Object)
    BY <1>0
  <2> QED
    BY <1>2, <1>9, <2>1, <2>2, <2>3
<1>4. CASE do_open(p, x)
  BY <1>0, <1>3, <1>4, <1>10 DEF do_open
<1>5. CASE do_close(p, x)
  BY <1>0, <1>2, <1>3, <1>5, <1>10 DEF do_close
<1>6. CASE do_lock(p, x)
  BY <1>0, <1>2, <1>3, <1>6, <1>10 DEF do_lock
<1>7. CASE do_unlock(p, x)
  BY <1>0, <1>3, <1>7, <1>10 DEF do_unlock
<1>8. CASE do_pick(p, x)
  BY <1>0, <1>3, <1>8, <1>10 DEF do_pick
<1> QED
  BY <1>1, <1>4, <1>5, <1>6, <1>7, <1>8

LEMMA VanishTallies ==
  ASSUME world \in Sound, NEW o \in Object, Vanish(o)
  PROVE  world' \in Sound
<1>1. {o} \in SUBSET Existing(world) /\ world' = Extracted(world, {o})
  BY DEF Vanish, extract_obj
<1>2. world \in World /\ PlayersTallied(world) /\ KindsTallied(world) /\ DoorsSound(world)
  BY DEF Sound
<1> QED
  BY <1>1, <1>2, ExtractedIs DEF Sound

\* Both sides of doors agree in a sound world.
LEMMA SoundDoorsAgree ==
  ASSUME DoorsMatch, world \in Sound
  PROVE  DoorsAgree
<1> SUFFICES ASSUME NEW r \in Room, NEW d \in Dir, world.way[r][d] # Nil,
                    NEW f \in Other(world, r, d)
             PROVE  /\ world.way[r][d] \in world.shut <=> f \in world.shut
                    /\ world.way[r][d] \in world.locked <=> f \in world.locked
  BY DEF DoorsAgree
<1> DEFINE e == world.way[r][d]
<1>0. /\ world.way \in [Room -> [Dir -> Exit \cup {Nil}]] /\ Nil \notin Exit
      /\ Matched(world)
  BY WorldIs, MapIs DEF Sound, DoorsSound
<1>1. f # Nil /\ f = world.way[To[e]][Rev[d]] /\ To[f] = r /\ e \in Exit
  BY <1>0 DEF Other
<1>2. To[e] \in Room /\ Rev[d] \in Dir
  BY <1>1, MapIs
<1>3. e \in Found(r, d) /\ f \in Found(To[e], Rev[d]) /\ f \in Exit
  BY <1>0, <1>1, <1>2 DEF Matched
<1>4. e \in Door <=> f \in Door
  BY <1>1, <1>3 DEF DoorsMatch
<1>5. CASE e \in Door
  <2>1. e = Way[r][d] /\ f = Way[To[e]][Rev[d]]
    BY <1>0, <1>1, <1>2, <1>4, <1>5, DoorStays
  <2>2. Twin(e, f)
    BY <1>1, <1>4, <1>5, <2>1 DEF Twin
  <2> QED
    BY <1>0, <1>4, <1>5, <2>2 DEF Matched, Even
<1>6. CASE e \notin Door
  BY <1>0, <1>1, <1>3, <1>4, <1>6 DEF Matched
<1> QED
  BY <1>5, <1>6

Tally == world \in Sound

\* Every step keeps the world sound.
LEMMA Soundness == AreasSpec => []Tally
<1>1. AreasInit => Tally
  <2> SUFFICES ASSUME AreasInit
               PROVE  world \in Sound
    BY DEF Tally
  <2> DEFINE Step == [a \in Area |-> [v \in World |-> reset_area(v, a)]]
  <2>1. \A a \in Area : \A v \in Sound : Step[a][v] \subseteq Sound
    BY AreaTallies DEF Sound
  <2>2. Area \subseteq DOMAIN Step /\ \A a \in Area : DOMAIN Step[a] = World
    OBVIOUS
  <2>3. Sound \in SUBSET World /\ {Booted} \in SUBSET Sound /\ Order \in Seq(Area)
    BY MapIs, LoadedTallies DEF Sound
  <2>4. world \in Outcomes(Order, {Booted}, Step)
    BY DEF AreasInit
  <2> HIDE DEF Step
  <2>5. Outcomes(Order, {Booted}, Step) \subseteq Sound
    BY <2>1, <2>2, <2>3, OutcomesStay
  <2> QED
    BY <2>4, <2>5
<1>2. Tally /\ [AreasNext]_AreasVars => Tally'
  <2> SUFFICES ASSUME world \in Sound, [AreasNext]_AreasVars
               PROVE  world' \in Sound
    BY DEF Tally
  <2>1. ASSUME NEW p \in Player, Goes(p) \/ Handles(p) \/ Opens(p)
        PROVE  world' \in Sound
    BY <2>1, GoesTallies, HandlesTallies, OpensTallies
  <2>2. ASSUME NEW m \in Mobile, NEW d \in Dir, Wander(m, d)
        PROVE  world' \in Sound
    BY <2>2, WanderTallies
  <2>3. ASSUME NEW o \in Object, Vanish(o)
        PROVE  world' \in Sound
    BY <2>3, VanishTallies
  <2>4. CASE AreaUpdate
    BY <2>4, AllTally DEF AreaUpdate
  <2>5. CASE UNCHANGED AreasVars
    BY <2>5 DEF AreasVars
  <2> QED
    BY <2>1, <2>2, <2>3, <2>4, <2>5 DEF AreasNext
<1> QED
  BY <1>1, <1>2, PTL DEF AreasSpec

----------------------------------------------------------------------------
\* Resets and what players carry.

\* CarriedBy, of a world.
Hand(w, p) == Inside(w, p) \cup UNION {Inside(w, o) : o \in Inside(w, p)}

\* w was, and nothing has come into the hands of players.
Untouched(w) == {v \in Sound : \A p \in Player : Hand(v, p) = Hand(w, p)}

\* A chest of kind k that is to be filled is in a room.
Out(w, k) == k \in Chest /\ Newest(w, k) # 0 => w.at[w.list[Newest(w, k)]] \in Room

LEMMA SoundWorld == ASSUME NEW w \in Sound PROVE w \in World
BY DEF Sound

LEMMA HandSame ==
  ASSUME NEW w, NEW v \in Untouched(w), NEW u \in Sound, u.at = v.at
  PROVE  u \in Untouched(w)
BY DEF Untouched, Hand, Inside

LEMMA CreatedIs ==
  ASSUME NEW w \in World, NEW o, NEW x
  PROVE  /\ create_object(w, o, x).at = [w.at EXCEPT ![o] = x]
         /\ create_object(w, o, x).list = (IF Kind[o] \in Chest THEN <<o>> ELSE <<>>) \o w.list
BY DEF create_object, World

LEMMA CreatedAt ==
  ASSUME NEW w \in World, NEW o, NEW x
  PROVE  create_object(w, o, x).at = [w.at EXCEPT ![o] = x]
BY CreatedIs

\* What is made is not made in the hands of players.
LEMMA MadeOut ==
  ASSUME NEW w, NEW v \in Untouched(w), NEW o \in Object, v.at[o] = Nil,
         NEW x \in (Room \cup Body \cup Object) \ Player, x \in Object => v.at[x] \in Room
  PROVE  create_object(v, o, x) \in Untouched(w)
<1> DEFINE u == create_object(v, o, x)
<1>1. v \in Sound /\ v \in World
  BY SoundWorld DEF Untouched
<1>2. u \in Sound
  BY <1>1, CreateTallies
<1>0. u.at = [v.at EXCEPT ![o] = x]
  BY <1>1, CreatedIs
<1>6. v.at \in [Object -> Room \cup Body \cup Object \cup {Nil}]
  BY <1>1, WorldIs
<1> HIDE DEF u
<1>3. \A q \in Object : u.at[q] = IF q = o THEN x ELSE v.at[q]
  BY <1>0, <1>6
<1>4. ASSUME NEW p \in Player
      PROVE  Hand(u, p) = Hand(v, p)
  <2>1. p # Nil /\ p # x /\ p \notin Room
    BY MapIs DEF Body
  <2>2. Inside(u, p) = Inside(v, p)
    BY <1>3, <2>1 DEF Inside
  <2>3. \A q \in Inside(v, p) : q # x /\ q # Nil
    BY <2>1, MapIs DEF Inside
  <2>4. \A q \in Inside(v, p) : Inside(u, q) = Inside(v, q)
    BY <1>3, <2>3 DEF Inside
  <2> QED
    BY <2>2, <2>4 DEF Hand
<1>5. u \in Untouched(w)
  BY <1>2, <1>4 DEF Untouched
<1> QED
  BY <1>5 DEF u

\* A chest that is in a room is filled there.
LEMMA FilledOut ==
  ASSUME NEW w, NEW v \in Untouched(w), NEW c, c.most \in Int, c.kind \notin Chest,
         NEW chest \in Object, v.at[chest] \in Room
  PROVE  \A u \in Filled(v, c, chest) :
           u \in Untouched(w) /\ u.list = v.list /\ u.at[chest] = v.at[chest]
<1> DEFINE missing == c.most - CountIn(v, c.kind, chest)
           more(u, i) == IF Unmade(u, c.kind) = {} \/ (i > 1 /\ u.count[c.kind] >= c.limit) THEN {u}
                         ELSE {create_object(u, o, chest) : o \in Unmade(u, c.kind)}
           D == 1..missing
           f == [i \in D |-> i]
           Step == [i \in D |-> [u \in World |-> more(u, i)]]
           G == {u \in Untouched(w) : u.list = v.list /\ u.at[chest] = v.at[chest]}
<1>1. Filled(v, c, chest) = Outcomes(f, {v}, Step)
  BY DEF Filled
<1>2. missing \in Int
  <2>1. {o \in Inside(v, chest) : Kind[o] = c.kind} \subseteq Object
    BY DEF Inside
  <2>2. CountIn(v, c.kind, chest) \in Nat
    BY <2>1, MapIs, FS_Subset, FS_CardinalityType DEF CountIn
  <2> QED
    BY <2>2
<1>3. f \in Seq(D)
  <2> HIDE DEF missing
  <2> QED
    BY <1>2, TurnsAre
<1>4. \A i \in D : \A u \in G : Step[i][u] \subseteq G
  <2> SUFFICES ASSUME NEW i \in D, NEW u \in G
               PROVE  Step[i][u] \subseteq G
    OBVIOUS
  <2>0. u \in Untouched(w) /\ u \in World /\ u.list = v.list /\ u.at[chest] = v.at[chest]
    BY DEF Untouched, Sound
  <2>1. Step[i][u] = more(u, i)
    <3> HIDE DEF D, G
    <3> QED
      BY <2>0
  <2>2. ASSUME NEW o \in Unmade(u, c.kind)
        PROVE  create_object(u, o, chest) \in G
    <3> DEFINE x == create_object(u, o, chest)
    <3>1. o \in Object /\ u.at[o] = Nil /\ Kind[o] \notin Chest
      BY DEF Unmade
    <3>2. chest \notin Player /\ Nil \notin Room
      BY MapIs
    <3>3. x \in Untouched(w)
      BY <2>0, <3>1, <3>2, MadeOut
    <3>4. x.list = v.list
      <4>1. x.list = <<>> \o u.list /\ u.list \in Seq(Object)
        BY <2>0, <3>1, CreatedIs, WorldIs
      <4> HIDE DEF x
      <4> QED
        BY <2>0, <4>1
    <3>5. x.at[chest] = v.at[chest]
      <4>1. chest # o
        BY <2>0, <3>1, <3>2
      <4>2. x.at = [u.at EXCEPT ![o] = chest]
        BY <2>0, CreatedAt
      <4>3. u.at \in [Object -> Room \cup Body \cup Object \cup {Nil}]
        BY <2>0, WorldIs
      <4> HIDE DEF x
      <4> QED
        BY <2>0, <4>1, <4>2, <4>3
    <3> HIDE DEF x
    <3>6. x \in G
      BY <3>3, <3>4, <3>5
    <3> QED
      BY <3>6 DEF x
  <2> HIDE DEF Step, G
  <2> QED
    BY <2>1, <2>2
<1>5. D \subseteq DOMAIN Step /\ \A i \in D : DOMAIN Step[i] = World
  <2> HIDE DEF D
  <2> QED
    OBVIOUS
<1>6. G \in SUBSET World /\ {v} \in SUBSET G
  BY DEF Untouched, Sound
<1> HIDE DEF D, f, Step, G
<1>7. Outcomes(f, {v}, Step) \subseteq G
  BY <1>3, <1>4, <1>5, <1>6, OutcomesStay
<1> QED
  BY <1>1, <1>7 DEF G

\* The chests that the reset c makes or fills.
Meant(c) == IF c.cmd = "O" THEN c.kind ELSE c.into

\* What is true after the reset c, and after the first i resets of a room.
AfterReset(s, c) == s.last /\ c.cmd \in {"O", "P"} => Out(s.w, Meant(c))

Kept(w, r) ==
  [i \in 0..Len(Reset[r]) |->
     {s \in Runs : s.w \in Untouched(w) /\ (i > 0 => AfterReset(s, Reset[r][i])) /\ (i = 0 => ~s.last)}]

LEMMA ObjectOut ==
  ASSUME NEW w, NEW s \in Runs, s.w \in Untouched(w), NEW r \in Room, NEW c, c.cmd = "O",
         NEW t \in reset_object(s, r, c)
  PROVE  t.w \in Untouched(w) /\ AfterReset(t, c)
<1>1. CASE t = [s EXCEPT !.last = FALSE]
  BY <1>1 DEF Runs, Run, AfterReset
<1>2. ASSUME NEW o \in Unmade(s.w, c.kind), t = [s EXCEPT !.w = create_object(s.w, o, r), !.last = TRUE]
      PROVE  t.w \in Untouched(w) /\ AfterReset(t, c)
  <2> DEFINE v == create_object(s.w, o, r)
  <2>1. o \in Object /\ s.w.at[o] = Nil /\ Kind[o] = c.kind /\ s.w \in World
    BY RunIs DEF Unmade
  <2>2. r \notin Player /\ r \notin Object
    BY MapIs DEF Body
  <2>3. v \in Untouched(w)
    BY <2>1, <2>2, MadeOut
  <2>4. t.w = v
    BY <1>2 DEF Runs, Run
  <2>6. v.at = [s.w.at EXCEPT ![o] = r]
    <3>1. \A z \in World : create_object(z, o, r).at = [z.at EXCEPT ![o] = r]
      BY CreatedAt
    <3> QED
      BY <2>1, <3>1, Zenon
  <2>5. ASSUME c.kind \in Chest
        PROVE  v.at[v.list[Newest(v, c.kind)]] \in Room
    <3> DEFINE L == v.list
               I == {i \in 1..Len(L) : Kind[L[i]] = c.kind}
    <3>1. L = <<o>> \o s.w.list /\ s.w.list \in Seq(Object)
      BY <2>1, <2>5, CreatedIs, WorldIs
    <3>2. Len(L) \in Nat /\ L[1] = o /\ 1 \in 1..Len(L)
      <4> HIDE DEF L
      <4> QED
        BY <2>1, <3>1
    <3>3. 1 \in I
      BY <2>1, <3>2
    <3>4. Min(I) \in I /\ Min(I) <= 1
      <4>1. I \in SUBSET (1..Len(L))
        OBVIOUS
      <4> HIDE DEF I, L
      <4> QED
        BY <3>2, <3>3, <4>1, Smallest
    <3>5. Newest(v, c.kind) = 1
      <4>1. Newest(v, c.kind) = IF I # {} THEN Min(I) ELSE 0
        BY DEF Newest, SelectInSeq
      <4>2. Min(I) \in 1..Len(L)
        BY <3>4
      <4> HIDE DEF I, L
      <4> QED
        BY <3>2, <3>3, <3>4, <4>1, <4>2
    <3>7. s.w.at \in [Object -> Room \cup Body \cup Object \cup {Nil}]
      BY <2>1, WorldIs
    <3>8. v.list[1] = o
      BY <3>2
    <3> HIDE DEF I, v, L
    <3> QED
      BY <2>1, <2>6, <3>5, <3>7, <3>8
  <2> HIDE DEF v
  <2> QED
    BY <1>2, <2>3, <2>4, <2>5 DEF AfterReset, Out, Meant
<1> QED
  BY <1>1, <1>2 DEF reset_object

LEMMA PutOut ==
  ASSUME NEW w, NEW s \in Runs, s.w \in Untouched(w), NEW r \in Room, NEW c, c.cmd = "P", c.most \in Int,
         c.into \in Chest, c.kind \notin Chest, s.last => Out(s.w, c.into),
         NEW t \in reset_put(s, r, c)
  PROVE  t.w \in Untouched(w) /\ AfterReset(t, c)
<1> DEFINE n == Newest(s.w, c.into)
           chest == s.w.list[n]
<1>1. CASE t = [s EXCEPT !.last = FALSE]
  BY <1>1 DEF Runs, Run, AfterReset
<1>2. ASSUME Fillable(s, r, c), NEW v \in Filled(s.w, c, chest),
             t = [s EXCEPT !.w = Relid(v, chest), !.last = TRUE]
      PROVE  t.w \in Untouched(w) /\ AfterReset(t, c)
  <2>1. n # 0 /\ s.w.at[chest] \in Room
    BY <1>2 DEF Fillable, Out
  <2>2. chest \in Object
    BY <2>1, NewestIs, RunIs
  <2>3. v \in Untouched(w) /\ v.list = s.w.list /\ v.at[chest] = s.w.at[chest]
    <3> HIDE DEF chest
    <3> QED
      BY <1>2, <2>1, <2>2, FilledOut
  <2>4. t \in Runs
    BY <1>2, PutTallies DEF reset_put, Fillable
  <2>5. t.w = Relid(v, chest)
    BY <1>2 DEF Runs, Run
  <2>6. t.w \in Sound /\ t.w.at = v.at /\ t.w.list = v.list
    <3>1. v \in World /\ t.w \in Sound
      BY <2>3, <2>4, SoundWorld DEF Untouched, Runs
    <3> QED
      BY <2>5, <3>1 DEF Relid, World
  <2>7. t.w \in Untouched(w)
    BY <2>3, <2>6, HandSame
  <2>8. Newest(t.w, c.into) = n /\ t.w.list[n] = chest
    BY <2>3, <2>6 DEF Newest
  <2> QED
    BY <2>1, <2>3, <2>6, <2>7, <2>8 DEF AfterReset, Out, Meant
<1> QED
  BY <1>1, <1>2 DEF reset_put

\* Mobiles bring nothing, and what they are given they have.
LEMMA MobileOut ==
  ASSUME NEW w, NEW s \in Runs, s.w \in Untouched(w), NEW r \in Room, NEW c,
         NEW t \in reset_mobile(s, r, c)
  PROVE  t.w \in Untouched(w)
<1>1. CASE t.w = s.w
  BY <1>1
<1>2. ASSUME NEW m \in Unborn(s.w, c.kind), t.w = char_to_room(create_mobile(s.w, m), m, r)
      PROVE  t.w \in Untouched(w)
  <2>1. m \in Mobile /\ s.w.where[m] = Nil
    BY DEF Unborn
  <2>2. t.w \in Sound /\ t.w.at = s.w.at
    BY <1>2, <2>1, RunIs, BirthTallies
  <2> QED
    BY <2>2, HandSame
<1>3. \/ t.w = s.w
      \/ \E m \in Unborn(s.w, c.kind) : t.w = char_to_room(create_mobile(s.w, m), m, r)
  BY DEF reset_mobile, Runs, Run
<1> QED
  BY <1>1, <1>2, <1>3

LEMMA GiveOut ==
  ASSUME NEW w, NEW s \in Runs, s.w \in Untouched(w), NEW r \in Room, NEW c,
         NEW t \in reset_give(s, r, c)
  PROVE  t.w \in Untouched(w)
<1>1. CASE t.w = s.w
  BY <1>1
<1>2. ASSUME s.mob # Nil, NEW o \in Unmade(s.w, c.kind), t.w = create_object(s.w, o, s.mob)
      PROVE  t.w \in Untouched(w)
  <2>1. o \in Object /\ s.w.at[o] = Nil
    BY DEF Unmade
  <2>2. s.mob \in Body \ Player /\ s.mob \notin Object
    BY <1>2, RunIs, MapIs
  <2> QED
    BY <1>2, <2>1, <2>2, MadeOut
<1>3. \/ t.w = s.w
      \/ s.mob # Nil /\ \E o \in Unmade(s.w, c.kind) : t.w = create_object(s.w, o, s.mob)
  BY DEF reset_give, Runs, Run
<1> QED
  BY <1>1, <1>2, <1>3

LEMMA RandomOut ==
  ASSUME NEW w, NEW s \in Runs, s.w \in Untouched(w), NEW r \in Room,
         NEW c \in Range(Reset[r]), c.cmd = "R", c.dirs \subseteq Dir,
         NEW t \in reset_random(s, r, c)
  PROVE  t.w \in Untouched(w)
<1>1. t \in Runs
  BY RandomTallies
<1>2. t.w.at = s.w.at
  BY DEF reset_random, Runs, Run, World
<1> QED
  BY <1>1, <1>2, HandSame, RunIs

\* Every reset of a room, at its place.
LEMMA OneOut ==
  ASSUME ChestsFollow, NEW w, NEW r \in Room, NEW i \in 1..Len(Reset[r]), NEW s \in Kept(w, r)[i - 1]
  PROVE  reset_one(s, r, Reset[r][i]) \subseteq Kept(w, r)[i]
<1> DEFINE c == Reset[r][i]
           b == Reset[r][i - 1]
<1>0. /\ Reset[r] \in Seq(Range(Reset[r])) /\ Len(Reset[r]) \in Nat
      /\ c \in Range(Reset[r]) /\ i \in DOMAIN Reset[r]
      /\ i \in 0..Len(Reset[r]) /\ i - 1 \in 0..Len(Reset[r])
  BY AreasConstants DEF ResetsTyped
<1>1. /\ c.cmd \in {"M", "O", "P", "G", "R"}
      /\ c.cmd = "P" => c.most \in Int /\ c.kind \notin Chest
      /\ c.cmd = "R" => c.dirs \subseteq Dir
  BY <1>0, AreasConstants DEF ResetsTyped
<1>2. /\ s \in Runs /\ s.w \in Untouched(w)
      /\ i - 1 > 0 => AfterReset(s, b)
      /\ i - 1 = 0 => ~s.last
  BY <1>0 DEF Kept
<1>3. SUFFICES ASSUME NEW t \in reset_one(s, r, c)
               PROVE  t.w \in Untouched(w) /\ AfterReset(t, c)
  <2>1. \A t \in reset_one(s, r, c) : t \in Runs
    BY <1>0, <1>2, OneTallies
  <2> QED
    BY <1>0, <1>3, <2>1 DEF Kept
<1>4. CASE c.cmd = "M"
  BY <1>2, <1>4, MobileOut DEF reset_one, AfterReset
<1>5. CASE c.cmd = "O"
  BY <1>2, <1>5, ObjectOut DEF reset_one
<1>6. CASE c.cmd = "P"
  <2>1. /\ i > 1 /\ c.into \in Chest
        /\ \/ b.cmd = "O" /\ b.kind = c.into
           \/ b.cmd = "P" /\ b.into = c.into
    BY <1>0, <1>6 DEF ChestsFollow
  <2>2. s.last => Out(s.w, c.into)
    <3>1. AfterReset(s, b)
      BY <1>2, <2>1
    <3> QED
      BY <2>1, <3>1 DEF AfterReset, Meant
  <2> HIDE DEF b, c
  <2> QED
    BY <1>1, <1>2, <1>6, <2>1, <2>2, PutOut DEF reset_one
<1>7. CASE c.cmd = "G"
  BY <1>2, <1>7, GiveOut DEF reset_one, AfterReset
<1>8. CASE c.cmd = "R"
  BY <1>0, <1>1, <1>2, <1>8, RandomOut DEF reset_one, AfterReset
<1> QED
  BY <1>1, <1>4, <1>5, <1>6, <1>7, <1>8

LEMMA RoomOut ==
  ASSUME ChestsFollow, NEW w, NEW v \in Untouched(w), NEW r \in Room
  PROVE  reset_room(v, r) \subseteq Untouched(w)
<1> DEFINE start == [w |-> reset_exits(v, r), last |-> FALSE, mob |-> Nil]
           D == Range(Reset[r])
           Step == [c \in D |-> [s \in Run |-> reset_one(s, r, c)]]
           out == Outcomes(Reset[r], {start}, Step)
           n == Len(Reset[r])
<1>1. start \in Runs /\ start.w \in Untouched(w) /\ ~start.last
  <2>1. v \in Sound /\ v \in World
    BY SoundWorld DEF Untouched
  <2>2. reset_exits(v, r) \in Sound
    BY <2>1, ExitsTally
  <2>3. reset_exits(v, r).at = v.at
    BY <2>1 DEF reset_exits, World
  <2>4. reset_exits(v, r) \in Untouched(w)
    BY <2>2, <2>3, HandSame
  <2> QED
    BY <2>2, <2>4 DEF Runs, Run, Sound
<1>2. \A c \in D : \A s \in Runs : Step[c][s] \subseteq Runs /\ Step[c][s] = reset_one(s, r, c)
  <2> SUFFICES ASSUME NEW c \in D, NEW s \in Runs
               PROVE  Step[c][s] \subseteq Runs /\ Step[c][s] = reset_one(s, r, c)
    OBVIOUS
  <2>1. s \in Run
    BY DEF Runs
  <2>2. Step[c][s] = reset_one(s, r, c)
    <3> HIDE DEF D
    <3> QED
      BY <2>1
  <2> QED
    BY <2>2, OneTallies
<1>3. D \subseteq DOMAIN Step /\ \A c \in D : DOMAIN Step[c] = Run
  <2> HIDE DEF D
  <2> QED
    OBVIOUS
<1>4. Reset[r] \in Seq(D) /\ n \in Nat /\ \A i \in 1..n : Reset[r][i] \in D
  <2>1. Reset[r] \in Seq(D)
    BY AreasConstants DEF ResetsTyped
  <2> HIDE DEF D
  <2> QED
    BY <2>1
<1>5. Runs \in SUBSET Run
  BY DEF Runs
<1>6. reset_room(v, r) = {s.w : s \in out}
  BY DEF reset_room
<1> HIDE DEF D, Step
<1>7. Kept(w, r) \in [0..n -> SUBSET Runs] /\ {start} \subseteq Kept(w, r)[0]
  <2> HIDE DEF start
  <2>1. 0 \in 0..n
    BY <1>4
  <2> QED
    BY <1>1, <2>1 DEF Kept
<1>8. Spreads(Reset[r], Kept(w, r), Step)
  <2> SUFFICES ASSUME NEW i \in 1..n, NEW s \in Kept(w, r)[i - 1]
               PROVE  Step[Reset[r][i]][s] \subseteq Kept(w, r)[i]
    BY DEF Spreads
  <2>1. Reset[r][i] \in D /\ i - 1 \in 0..n
    BY <1>4
  <2>2. s \in Runs
    BY <1>7, <2>1
  <2>3. Step[Reset[r][i]][s] = reset_one(s, r, Reset[r][i])
    BY <1>2, <2>1, <2>2
  <2> QED
    BY <2>3, OneOut
<1> HIDE DEF start
<1>9. out \subseteq Kept(w, r)[n]
  BY <1>2, <1>3, <1>4, <1>5, <1>7, <1>8, OutcomesArrive
<1>10. n \in 0..n
  BY <1>4
<1>11. \A s \in Kept(w, r)[n] : s.w \in Untouched(w)
  BY <1>10 DEF Kept
<1> HIDE DEF out
<1> QED
  BY <1>6, <1>9, <1>11

LEMMA AreaOut ==
  ASSUME ChestsFollow, NEW w, NEW v \in Untouched(w), NEW a \in Area
  PROVE  reset_area(v, a) \subseteq Untouched(w)
<1> DEFINE Step == [r \in Room |-> [u \in World |-> reset_room(u, r)]]
<1>0. Untouched(w) \in SUBSET World
  BY SoundWorld DEF Untouched
<1>1. \A r \in Room : \A u \in Untouched(w) : Step[r][u] \subseteq Untouched(w)
  BY <1>0, RoomOut
<1>2. Room \subseteq DOMAIN Step /\ \A r \in Room : DOMAIN Step[r] = World
  OBVIOUS
<1>3. {v} \in SUBSET Untouched(w) /\ Rooms[a] \in Seq(Room)
  BY MapIs
<1>4. reset_area(v, a) = Outcomes(Rooms[a], {v}, Step)
  BY DEF reset_area
<1> HIDE DEF Step
<1>5. Outcomes(Rooms[a], {v}, Step) \subseteq Untouched(w)
  BY <1>0, <1>1, <1>2, <1>3, OutcomesStay
<1> QED
  BY <1>4, <1>5

LEMMA UpdateOut ==
  ASSUME ChestsFollow, NEW w, NEW v \in Untouched(w), NEW a \in Area
  PROVE  update_area(v, a) \subseteq Untouched(w)
<1> DEFINE n == IF v.age[a] < Old THEN v.age[a] + 1 ELSE v.age[a]
           older == [v EXCEPT !.age[a] = n]
<1>0. v \in Sound /\ v \in World /\ Untouched(w) \subseteq Sound
  BY SoundWorld DEF Untouched
<1>1. older \in Untouched(w)
  <2>1. v.age[a] \in 0..Old /\ Old \in Nat
    BY <1>0, MapIs, WorldIs
  <2>2. n \in 0..Old
    BY <2>1
  <2> HIDE DEF n
  <2>3. older \in Sound
    BY <1>0, <2>2, AgedTallies
  <2>4. older.at = v.at
    BY <1>0 DEF World
  <2> HIDE DEF older
  <2> QED
    BY <2>3, <2>4, HandSame
<1>2. update_area(v, a) = IF Due(older, a) THEN UNION {Aged(u, a) : u \in reset_area(older, a)} ELSE {older}
  BY DEF update_area
<1> HIDE DEF older
<1>3. ASSUME NEW u \in Untouched(w), NEW x \in Aged(u, a)
      PROVE  x \in Untouched(w)
  <2>1. Busy - 2 \in 0..Old /\ \A i \in 0..Young : i \in 0..Old
    BY MapIs
  <2>2. u \in Sound /\ u \in World
    BY <1>0, SoundWorld
  <2>3. [u EXCEPT !.age[a] = Busy - 2] \in Sound
    BY <2>1, <2>2, AgedTallies
  <2>4. \A i \in 0..Young :
          [u EXCEPT !.age[a] = i, !.empty = IF u.nplayer[a] = 0 THEN @ \cup {a} ELSE @] \in Sound
    BY <2>1, <2>2, AgedTallies
  <2>5. x \in Sound
    BY <2>3, <2>4 DEF Aged
  <2>6. x.at = u.at
    BY <2>2 DEF Aged, World
  <2> QED
    BY <2>5, <2>6, HandSame
<1>4. reset_area(older, a) \subseteq Untouched(w)
  BY <1>1, AreaOut
<1> QED
  BY <1>1, <1>2, <1>3, <1>4

LEMMA AllOut ==
  ASSUME ChestsFollow, NEW w \in Sound
  PROVE  UpdateAll(w) \subseteq Untouched(w)
<1> DEFINE Step == [a \in Area |-> [v \in World |-> update_area(v, a)]]
<1>0. Untouched(w) \in SUBSET World
  BY SoundWorld DEF Untouched
<1>1. \A a \in Area : \A v \in Untouched(w) : Step[a][v] \subseteq Untouched(w)
  BY <1>0, UpdateOut
<1>2. Area \subseteq DOMAIN Step /\ \A a \in Area : DOMAIN Step[a] = World
  OBVIOUS
<1>3. {w} \in SUBSET Untouched(w) /\ Order \in Seq(Area)
  BY MapIs DEF Untouched
<1>4. UpdateAll(w) = Outcomes(Order, {w}, Step)
  BY DEF UpdateAll
<1> HIDE DEF Step
<1>5. Outcomes(Order, {w}, Step) \subseteq Untouched(w)
  BY <1>0, <1>1, <1>2, <1>3, OutcomesStay
<1> QED
  BY <1>4, <1>5

\* Only resets make objects.
LEMMA NothingIsMade ==
  ASSUME world \in Sound, [AreasNext]_AreasVars, ~AreaUpdate
  PROVE  Existing(world') \subseteq Existing(world)
<1>0. /\ world \in World /\ world.where \in [Body -> Room \cup {Nil}]
      /\ world.way \in [Room -> [Dir -> Exit \cup {Nil}]]
      /\ world.at \in [Object -> Room \cup Body \cup Object \cup {Nil}]
      /\ Player \subseteq Body /\ Mobile \subseteq Body
  BY WorldIs, MapIs DEF Sound
<1>1. ASSUME world'.at = world.at
      PROVE  Existing(world') \subseteq Existing(world)
  BY <1>1 DEF Existing
<1>2. ASSUME NEW c \in Body, Here(c), NEW d \in Dir, world.way[world.where[c]][d] # Nil
      PROVE  To[world.way[world.where[c]][d]] \in Room
  <2>1. world.where[c] \in Room
    BY <1>0, <1>2 DEF Here
  <2>2. world.way[world.where[c]][d] \in Exit
    BY <1>0, <1>2, <2>1
  <2> QED
    BY <2>2, MapIs
<1>3. ASSUME NEW o \in Object, world.at[o] # Nil, NEW x, world' = [world EXCEPT !.at[o] = x]
      PROVE  Existing(world') \subseteq Existing(world)
  <2>1. world'.at = [world.at EXCEPT ![o] = x]
    BY <1>0, <1>3 DEF World
  <2>2. \A q \in Object : world'.at[q] # Nil => world.at[q] # Nil
    BY <1>0, <1>3, <2>1
  <2> QED
    BY <2>2 DEF Existing
<1>4. ASSUME NEW p \in Player, Goes(p)
      PROVE  Existing(world') \subseteq Existing(world)
  <2>1. ASSUME NEW r \in Room, Enter(p, r)
        PROVE  world'.at = world.at
    BY <2>1, EnterTallies DEF Enter, Here
  <2>2. ASSUME NEW r \in Room, Jump(p, r)
        PROVE  world'.at = world.at
    BY <1>0, <2>2, MoveTallies DEF Jump, Here
  <2>3. ASSUME NEW d \in Dir, Walk(p, d)
        PROVE  world'.at = world.at
    BY <1>0, <1>2, <2>3, MoveTallies DEF Walk, Here
  <2>4. CASE Quit(p)
    BY <2>4, QuitOfTwins DEF Quit, Here
  <2> QED
    BY <1>1, <1>4, <2>1, <2>2, <2>3, <2>4 DEF Goes
<1>5. ASSUME NEW p \in Player, Handles(p)
      PROVE  Existing(world') \subseteq Existing(world)
  <2>1. ASSUME NEW o \in Object, Get(p, o)
        PROVE  Existing(world') \subseteq Existing(world)
    <3>1. world.at[o] # Nil
      BY <1>0, <2>1, MapIs DEF Get, Here, Reach, Inside
    <3> QED
      BY <1>3, <2>1, <3>1 DEF Get
  <2>2. ASSUME NEW o \in Object, Drop(p, o)
        PROVE  Existing(world') \subseteq Existing(world)
    <3>1. world.at[o] # Nil
      BY <1>0, <2>2, MapIs DEF Drop
    <3> QED
      BY <1>3, <2>2, <3>1 DEF Drop
  <2>3. ASSUME NEW o \in Object, NEW chest \in Object, Put(p, o, chest)
        PROVE  Existing(world') \subseteq Existing(world)
    <3>1. world.at[o] # Nil
      BY <1>0, <2>3, MapIs DEF Put
    <3> QED
      BY <1>3, <2>3, <3>1 DEF Put
  <2>4. ASSUME NEW m \in Mobile, Kill(p, m)
        PROVE  Existing(world') \subseteq Existing(world)
    <3> DEFINE at == [o \in Object |-> IF world.at[o] = m THEN world.where[m] ELSE world.at[o]]
               bare == [world EXCEPT !.at = at]
    <3>1. world.where[m] \in Room /\ world.where[m] # Nil /\ m # Nil
      BY <1>0, <2>4, MapIs DEF Kill, Here
    <3>2. /\ at \in [Object -> Room \cup Body \cup Object \cup {Nil}]
          /\ \A o \in Object : at[o] = Nil <=> world.at[o] = Nil
      BY <1>0, <3>1
    <3>3. world' = extract_char(bare, m)
      BY <2>4 DEF Kill
    <3> HIDE DEF at
    <3>4. bare \in Sound
      BY <3>2, PlacesTally
    <3>5. bare.where = world.where /\ bare.at = at
      BY <1>0 DEF World
    <3> HIDE DEF bare
    <3>6. Existing(world') \subseteq Existing(bare)
      BY <3>1, <3>3, <3>4, <3>5, DieTallies
    <3> QED
      BY <3>2, <3>5, <3>6 DEF Existing
  <2> QED
    BY <1>5, <2>1, <2>2, <2>3, <2>4 DEF Handles
<1>6. ASSUME NEW p \in Player, Opens(p)
      PROVE  world'.at = world.at
  <2>1. PICK x \in Openable(p) :
          do_open(p, x) \/ do_close(p, x) \/ do_lock(p, x) \/ do_unlock(p, x) \/ do_pick(p, x)
    BY <1>6 DEF Opens
  <2> QED
    BY <1>0, <2>1 DEF do_open, do_close, do_lock, do_unlock, do_pick, World
<1>7. ASSUME NEW m \in Mobile, NEW d \in Dir, Wander(m, d)
      PROVE  world'.at = world.at
  BY <1>0, <1>2, <1>7, MoveTallies DEF Wander, Here
<1>8. ASSUME NEW o \in Object, Vanish(o)
      PROVE  Existing(world') \subseteq Existing(world)
  <2>1. {o} \in SUBSET Existing(world) /\ world' = Extracted(world, {o})
    BY <1>8 DEF Vanish, extract_obj
  <2> QED
    BY <1>0, <2>1, ExtractedIs DEF Existing
<1>9. CASE UNCHANGED AreasVars
  BY <1>1, <1>9 DEF AreasVars
<1> QED
  BY <1>1, <1>4, <1>5, <1>6, <1>7, <1>8, <1>9 DEF AreasNext

----------------------------------------------------------------------------
\* The theorems.

\* The counters that resets go by are true, for any world, its resets and its
\* doors, if nobody quits (do_quit) while another login has read his file: what
\* area_update, extract_char, extract_obj, create_object and char_to_room do to
\* them adds up.
THEOREM CountersAreTrue ==
  ASSUME Twins = {}
  PROVE  AreasSpec => []Counted
<1>1. Tally => Counted
  BY SoundIsCounted DEF Tally
<1> QED
  BY <1>1, Soundness, PTL

\* The two sides of every door agree when builders make doors as DoorsMatch
\* says: what open, close, lock, unlock, pick and the resets do to one side they
\* do to the other, and no shuffle of exits takes a door from its place.
THEOREM DoorsAreOne ==
  ASSUME DoorsMatch
  PROVE  AreasSpec => []DoorsAgree
<1>1. Tally => DoorsAgree
  BY SoundDoorsAgree DEF Tally
<1> QED
  BY <1>1, Soundness, PTL

\* No reset makes an object in the hands of a player or in a chest he carries,
\* when chests are filled as ChestsFollow says: reset_room leaves the newest of
\* a kind alone unless it is in a room or was just made there.
THEOREM ResetsKeepOut ==
  ASSUME ChestsFollow
  PROVE  AreasSpec => ResetsStayOut
<1>1. Tally /\ [AreasNext]_AreasVars
        => [Cardinality(Existing(world')) > Cardinality(Existing(world)) =>
              \A p \in Player : CarriedBy(p)' = CarriedBy(p)]_AreasVars
  <2> SUFFICES ASSUME world \in Sound, [AreasNext]_AreasVars,
                      Cardinality(Existing(world')) > Cardinality(Existing(world)),
                      NEW p \in Player
               PROVE  CarriedBy(p)' = CarriedBy(p)
    BY DEF Tally
  <2>1. CASE AreaUpdate
    <3>1. world' \in Untouched(world)
      BY <2>1, AllOut DEF AreaUpdate
    <3> QED
      BY <3>1 DEF Untouched, Hand, CarriedBy
  <2>2. CASE ~AreaUpdate
    <3>1. Existing(world') \subseteq Existing(world) /\ Existing(world) \subseteq Object
      BY <2>2, NothingIsMade DEF Existing
    <3>2. IsFiniteSet(Existing(world))
      BY <3>1, MapIs, FS_Subset
    <3>3. IsFiniteSet(Existing(world')) /\ Cardinality(Existing(world')) <= Cardinality(Existing(world))
      BY <3>1, <3>2, FS_Subset
    <3>4. Cardinality(Existing(world')) \in Nat /\ Cardinality(Existing(world)) \in Nat
      BY <3>2, <3>3, FS_CardinalityType
    <3> QED
      BY <3>3, <3>4
  <2> QED
    BY <2>1, <2>2
<1> QED
  BY <1>1, Soundness, PTL DEF AreasSpec, ResetsStayOut

----------------------------------------------------------------------------
\* Lists in order.

Ordered(L) ==
  \A i, j \in DOMAIN L : i < j =>
    /\ L[i].what # L[j].what
    /\ L[j].what \in Skill =>
         /\ L[i].what \in Skill
         /\ LevelOf[L[i].what] # None /\ LevelOf[L[j].what] # None
         /\ LevelOf[L[i].what] <= LevelOf[L[j].what]

Whats(L) == {L[i].what : i \in DOMAIN L}

\* Lists in order of skills and groups out of E.
Lists(E) == {L \in List : Ordered(L) /\ Whats(L) \subseteq E}

LEMMA LevelsAre ==
  /\ Skill \cap Group = {}
  /\ \A s \in Skill : LevelOf[s] # None => LevelOf[s] \in Nat
  /\ {0, 1, Adept, Top} \subseteq 0..Top
BY LearningConstants

LEMMA InsertAtIs ==
  ASSUME NEW L \in List, NEW m \in 1..(Len(L) + 1), NEW e \in Entry
  PROVE  LET K == InsertAt(L, m, e)
         IN  /\ K \in List /\ Len(K) = Len(L) + 1
             /\ \A i \in 1..(Len(L) + 1) :
                  K[i] = IF i < m THEN L[i] ELSE IF i = m THEN e ELSE L[i - 1]
<1> DEFINE A == SubSeq(L, 1, m - 1)
           B == SubSeq(L, m, Len(L))
<1>0. Len(L) \in Nat /\ m \in Nat /\ m >= 1 /\ m <= Len(L) + 1
  BY DEF List
<1>1. A \in List /\ Len(A) = m - 1 /\ \A i \in 1..(m - 1) : A[i] = L[i]
  BY <1>0 DEF List
<1>2. B \in List /\ Len(B) = Len(L) + 1 - m /\ \A i \in 1..(Len(L) + 1 - m) : B[i] = L[m + i - 1]
  BY <1>0 DEF List
<1>3. InsertAt(L, m, e) = (A \o <<e>>) \o B
  BY DEF InsertAt
<1> HIDE DEF A, B
<1> DEFINE C == A \o <<e>>
<1>4. C \in List /\ Len(C) = m /\ C[m] = e /\ \A i \in 1..(m - 1) : C[i] = L[i]
  BY <1>0, <1>1 DEF List
<1> HIDE DEF C
<1>5. C \o B \in List /\ Len(C \o B) = Len(L) + 1
  <2>1. C \in Seq(Entry) /\ B \in Seq(Entry)
    BY <1>2, <1>4 DEF List
  <2>2. C \o B \in Seq(Entry) /\ Len(C \o B) = Len(C) + Len(B)
    BY <2>1
  <2>3. Len(C) + Len(B) = Len(L) + 1
    BY <1>0, <1>2, <1>4
  <2> QED
    BY <2>2, <2>3 DEF List
<1>6. ASSUME NEW i \in 1..(Len(L) + 1)
      PROVE  (C \o B)[i] = IF i <= m THEN C[i] ELSE B[i - m]
  BY <1>0, <1>2, <1>4 DEF List
<1>7. ASSUME NEW i \in 1..(Len(L) + 1)
      PROVE  (C \o B)[i] = IF i < m THEN L[i] ELSE IF i = m THEN e ELSE L[i - 1]
  <2>0. i \in Nat /\ (i < m \/ i = m \/ i > m)
    BY <1>0
  <2>1. CASE i < m
    BY <1>0, <1>4, <1>6, <2>1
  <2>2. CASE i = m
    BY <1>0, <1>4, <1>6, <2>2
  <2>3. CASE i > m
    <3>1. i - m \in 1..(Len(L) + 1 - m) /\ m + (i - m) - 1 = i - 1
      BY <1>0, <2>3
    <3>2. B[i - m] = L[i - 1]
      BY <1>2, <3>1
    <3>3. (C \o B)[i] = IF i <= m THEN C[i] ELSE B[i - m]
      BY <1>6
    <3>4. ~(i <= m) /\ ~(i < m) /\ i # m
      BY <1>0, <2>0, <2>3
    <3> QED
      BY <3>2, <3>3, <3>4, Zenon
  <2> QED
    BY <2>0, <2>1, <2>2, <2>3
<1> QED
  BY <1>3, <1>5, <1>7 DEF C

LEMMA ListFacts ==
  ASSUME NEW L \in List
  PROVE  /\ Len(L) \in Nat /\ DOMAIN L = 1..Len(L)
         /\ \A i \in DOMAIN L : L[i] \in Entry /\ L[i].what \in Skill \cup Group /\ i \in Nat
<1>1. Len(L) \in Nat /\ DOMAIN L = 1..Len(L) /\ \A i \in DOMAIN L : L[i] \in Entry /\ i \in Nat
  BY DEF List
<1>2. \A x \in Entry : x.what \in Skill \cup Group
  BY DEF Entry
<1> QED
  BY <1>1, <1>2

\* An entry that is changed without becoming another.
LEMMA SameOrder ==
  ASSUME NEW E, NEW L \in Lists(E), NEW K, DOMAIN K = DOMAIN L,
         \A i \in DOMAIN L : K[i] \in Entry /\ K[i].what = L[i].what,
         K = [i \in DOMAIN L |-> K[i]]
  PROVE  K \in Lists(E)
<1>1. L \in List /\ Ordered(L) /\ Whats(L) \subseteq E
  BY DEF Lists
<1>2. K \in Seq(Entry)
  BY <1>1, ListFacts
<1>3. Ordered(K) /\ Whats(K) \subseteq E
  BY <1>1 DEF Ordered, Whats
<1> QED
  BY <1>2, <1>3 DEF Lists, List

\* What is put in between the lower and the higher.
LEMMA InsertFine ==
  ASSUME NEW E, NEW L \in Lists(E), NEW s \in Skill, s \in E, NEW p \in 0..Top,
         NEW m \in 1..(Len(L) + 1), ~Knows(L, s), LevelOf[s] # None,
         \A i \in DOMAIN L : i < m =>
           L[i].what \in Skill /\ LevelOf[L[i].what] # None /\ LevelOf[L[i].what] <= LevelOf[s],
         \A i \in DOMAIN L : i >= m /\ L[i].what \in Skill =>
           LevelOf[L[i].what] # None /\ LevelOf[s] <= LevelOf[L[i].what]
  PROVE  InsertAt(L, m, [what |-> s, percent |-> p]) \in Lists(E)
<1> DEFINE e == [what |-> s, percent |-> p]
           K == InsertAt(L, m, e)
<1>1. L \in List /\ Ordered(L) /\ Whats(L) \subseteq E
  BY DEF Lists
<1>2. e \in Entry /\ e.what = s
  BY DEF Entry
<1>3. Len(L) \in Nat /\ DOMAIN L = 1..Len(L) /\ m \in Nat
  BY <1>1, ListFacts
<1> HIDE DEF e
<1>4. /\ K \in List /\ Len(K) = Len(L) + 1
      /\ \A i \in 1..(Len(L) + 1) : K[i] = IF i < m THEN L[i] ELSE IF i = m THEN e ELSE L[i - 1]
  BY <1>1, <1>2, InsertAtIs
<1> HIDE DEF K
<1>5. DOMAIN K = 1..(Len(L) + 1)
  BY <1>4, ListFacts
<1>6. \A i \in DOMAIN L : L[i].what # s
  BY DEF Knows, Places
<1>7. Ordered(K)
  <2> SUFFICES ASSUME NEW i \in 1..(Len(L) + 1), NEW j \in 1..(Len(L) + 1), i < j
               PROVE  /\ K[i].what # K[j].what
                      /\ K[j].what \in Skill =>
                           /\ K[i].what \in Skill
                           /\ LevelOf[K[i].what] # None /\ LevelOf[K[j].what] # None
                           /\ LevelOf[K[i].what] <= LevelOf[K[j].what]
    BY <1>5 DEF Ordered
  <2>1. CASE j < m
    <3>1. i \in DOMAIN L /\ j \in DOMAIN L /\ K[i] = L[i] /\ K[j] = L[j]
      BY <1>3, <1>4, <2>1
    <3> QED
      BY <1>1, <3>1 DEF Ordered
  <2>2. CASE j = m
    <3>1. i \in DOMAIN L /\ K[i] = L[i] /\ K[j] = e /\ i < m
      BY <1>3, <1>4, <2>2
    <3> QED
      BY <1>2, <1>6, <3>1
  <2>3. CASE i = m
    <3>1. j - 1 \in DOMAIN L /\ K[i] = e /\ K[j] = L[j - 1] /\ j - 1 >= m
      BY <1>3, <1>4, <2>3
    <3> QED
      BY <1>2, <1>6, <3>1
  <2>4. CASE i < m /\ m < j
    <3>1. i \in DOMAIN L /\ j - 1 \in DOMAIN L /\ K[i] = L[i] /\ K[j] = L[j - 1]
      BY <1>3, <1>4, <2>4
    <3>2. i < j - 1
      BY <1>3, <2>4
    <3> QED
      BY <1>1, <3>1, <3>2 DEF Ordered
  <2>5. CASE m < i
    <3>1. /\ i - 1 \in DOMAIN L /\ j - 1 \in DOMAIN L /\ i - 1 < j - 1
          /\ K[i] = L[i - 1] /\ K[j] = L[j - 1]
      BY <1>3, <1>4, <2>5
    <3> QED
      BY <1>1, <3>1 DEF Ordered
  <2> QED
    BY <1>3, <2>1, <2>2, <2>3, <2>4, <2>5
<1>8. Whats(K) \subseteq E
  <2> SUFFICES ASSUME NEW i \in 1..(Len(L) + 1)
               PROVE  K[i].what \in E
    BY <1>5 DEF Whats
  <2>1. CASE i = m
    BY <1>2, <1>3, <1>4, <2>1
  <2>2. CASE i # m
    <3>1. \E k \in DOMAIN L : K[i] = L[k]
      <4>1. CASE i < m
        BY <1>3, <1>4, <4>1
      <4>2. CASE i > m
        <5>1. i - 1 \in DOMAIN L /\ K[i] = L[i - 1]
          BY <1>3, <1>4, <4>2
        <5> QED
          BY <5>1
      <4> QED
        BY <1>3, <2>2, <4>1, <4>2
    <3> QED
      BY <1>1, <3>1 DEF Whats
  <2> QED
    BY <2>1, <2>2
<1> QED
  BY <1>4, <1>7, <1>8 DEF Lists, K, e

\* In a list in order the skills are in front, and where there are two, all
\* have a level.
LEMMA SkillsInFront ==
  ASSUME NEW L \in List, Ordered(L), NEW k \in SkillPlaces(L)
  PROVE  /\ k \in DOMAIN L /\ L[k].what \in Skill
         /\ \A i \in DOMAIN L : i < k =>
              /\ L[i].what \in Skill
              /\ LevelOf[L[i].what] # None /\ LevelOf[L[k].what] # None
              /\ LevelOf[L[i].what] <= LevelOf[L[k].what]
BY DEF SkillPlaces, Ordered

LEMMA AddSkillFine ==
  ASSUME NEW E, NEW L \in Lists(E), NEW s \in Skill, s \in E, NEW p \in 0..Top
  PROVE  add_learned_skill(L, s, p) \in Lists(E)
<1> DEFINE e == [what |-> s, percent |-> p]
           last == Max(SkillPlaces(L))
<1>1. L \in List /\ Ordered(L) /\ Whats(L) \subseteq E
  BY DEF Lists
<1>2. e \in Entry /\ e.what = s
  BY DEF Entry
<1>3. Len(L) \in Nat /\ DOMAIN L = 1..Len(L) /\ \A i \in DOMAIN L : L[i] \in Entry /\ i \in Nat
  BY <1>1, ListFacts
<1>4. CASE L = <<>>
  <2>1. add_learned_skill(L, s, p) = <<e>>
    BY <1>4 DEF add_learned_skill
  <2>2. <<e>> \in List /\ DOMAIN <<e>> = {1} /\ <<e>>[1] = e
    BY <1>2 DEF List
  <2>3. Ordered(<<e>>) /\ Whats(<<e>>) \subseteq E
    BY <1>2, <2>2 DEF Ordered, Whats
  <2> QED
    BY <2>1, <2>2, <2>3 DEF Lists
<1>5. CASE L # <<>> /\ Knows(L, s)
  <2> DEFINE K == [i \in DOMAIN L |-> IF i \in Places(L, s) THEN e ELSE L[i]]
  <2>1. add_learned_skill(L, s, p) = K
    BY <1>5 DEF add_learned_skill
  <2>2. \A i \in DOMAIN L : K[i] \in Entry /\ K[i].what = L[i].what
    BY <1>2, <1>3 DEF Places
  <2>3. DOMAIN K = DOMAIN L /\ K = [i \in DOMAIN L |-> K[i]]
    OBVIOUS
  <2> HIDE DEF K
  <2>4. K \in Lists(E)
    BY <2>2, <2>3, SameOrder
  <2> QED
    BY <2>1, <2>4
<1>6. CASE L # <<>> /\ ~Knows(L, s) /\ (LevelOf[s] = None \/ SkillPlaces(L) = {})
  BY <1>6 DEF add_learned_skill
<1>7. CASE L # <<>> /\ ~Knows(L, s) /\ LevelOf[s] # None /\ SkillPlaces(L) # {}
  <2>1. SkillPlaces(L) \in SUBSET (1..Len(L)) /\ Above(L, s) \in SUBSET (1..Len(L))
    BY <1>3 DEF SkillPlaces, Above
  <2>2. last \in SkillPlaces(L) /\ \A i \in SkillPlaces(L) : last >= i
    BY <1>3, <1>7, <2>1, Largest
  <2>3. \A i \in SkillPlaces(L) : i \notin Above(L, s) /\ LevelOf[L[i].what] # None =>
          LevelOf[L[i].what] <= LevelOf[s]
    <3> SUFFICES ASSUME NEW i \in SkillPlaces(L), i \notin Above(L, s), LevelOf[L[i].what] # None
                 PROVE  LevelOf[L[i].what] <= LevelOf[s]
      OBVIOUS
    <3>1. LevelOf[L[i].what] \in Nat /\ LevelOf[s] \in Nat
      BY <1>7, LevelsAre DEF SkillPlaces
    <3>2. ~(LevelOf[L[i].what] >= LevelOf[s])
      BY DEF Above
    <3> QED
      BY <3>1, <3>2
  <2>4. CASE Above(L, s) # {}
    <3> DEFINE m == Min(Above(L, s))
    <3>1. m \in Above(L, s) /\ \A i \in Above(L, s) : m <= i
      BY <1>3, <2>1, <2>4, Smallest
    <3>2. add_learned_skill(L, s, p) = InsertAt(L, m, e)
      BY <1>7, <2>4 DEF add_learned_skill
    <3> HIDE DEF m
    <3>3. m \in SkillPlaces(L) /\ LevelOf[L[m].what] # None /\ LevelOf[s] <= LevelOf[L[m].what]
      <4>1. m \in SkillPlaces(L) /\ LevelOf[L[m].what] # None /\ LevelOf[L[m].what] >= LevelOf[s]
        BY <3>1 DEF Above
      <4>2. LevelOf[L[m].what] \in Nat /\ LevelOf[s] \in Nat
        BY <1>7, <4>1, LevelsAre DEF SkillPlaces
      <4> QED
        BY <4>1, <4>2
    <3>4. m \in 1..(Len(L) + 1) /\ m \in DOMAIN L
      BY <1>3, <2>1, <3>1
    <3>5. ASSUME NEW i \in DOMAIN L, i < m
          PROVE  /\ L[i].what \in Skill /\ LevelOf[L[i].what] # None
                 /\ LevelOf[L[i].what] <= LevelOf[s]
      <4>1. L[i].what \in Skill /\ LevelOf[L[i].what] # None
        BY <1>1, <3>3, <3>5, SkillsInFront
      <4>2. i \in SkillPlaces(L) /\ i \notin Above(L, s)
        BY <1>3, <3>1, <3>4, <3>5, <4>1 DEF SkillPlaces
      <4> QED
        BY <2>3, <4>1, <4>2
    <3>6. ASSUME NEW i \in DOMAIN L, i >= m, L[i].what \in Skill
          PROVE  LevelOf[L[i].what] # None /\ LevelOf[s] <= LevelOf[L[i].what]
      <4>1. CASE i = m
        BY <3>3, <4>1
      <4>2. CASE i > m
        <5>1. i \in SkillPlaces(L) /\ m < i
          BY <1>3, <3>4, <3>6, <4>2 DEF SkillPlaces
        <5>2. LevelOf[L[i].what] # None /\ LevelOf[L[m].what] <= LevelOf[L[i].what]
          BY <1>1, <3>4, <5>1, SkillsInFront
        <5>3. LevelOf[L[i].what] \in Nat /\ LevelOf[L[m].what] \in Nat /\ LevelOf[s] \in Nat
          BY <1>7, <3>3, <3>6, <5>2, LevelsAre DEF SkillPlaces
        <5> QED
          BY <3>3, <5>2, <5>3
      <4> QED
        BY <1>3, <3>4, <3>6, <4>1, <4>2
    <3> QED
      BY <1>7, <3>2, <3>4, <3>5, <3>6, InsertFine
  <2>5. CASE Above(L, s) = {} /\ last = 1
    <3> DEFINE K == <<e>> \o Tail(L)
    <3>1. add_learned_skill(L, s, p) = K
      BY <1>7, <2>5 DEF add_learned_skill
    <3>2. K \in List /\ Len(K) = Len(L) /\ K[1] = e /\ \A i \in 2..Len(L) : K[i] = L[i]
      BY <1>1, <1>2, <1>7 DEF List
    <3> HIDE DEF K, e
    <3>3. DOMAIN K = 1..Len(L)
      BY <3>2, ListFacts
    <3>4. ASSUME NEW i \in 2..Len(L)
          PROVE  i \in DOMAIN L /\ L[i].what \notin Skill
      <4>1. i \in DOMAIN L /\ ~(last >= i)
        BY <1>3, <2>5
      <4> QED
        BY <2>2, <4>1 DEF SkillPlaces
    <3>5. Ordered(K)
      <4> SUFFICES ASSUME NEW i \in 1..Len(L), NEW j \in 1..Len(L), i < j
                   PROVE  K[i].what # K[j].what /\ K[j].what \notin Skill
        BY <3>3 DEF Ordered
      <4>1. j \in 2..Len(L) /\ K[j] = L[j] /\ L[j].what \notin Skill
        BY <1>3, <3>2, <3>4
      <4>2. CASE i = 1
        BY <1>2, <3>2, <4>1, <4>2
      <4>3. CASE i # 1
        <5>1. i \in 2..Len(L) /\ K[i] = L[i]
          BY <1>3, <3>2, <4>3
        <5>2. L[i].what # L[j].what
          BY <1>1, <3>4, <4>1, <5>1 DEF Ordered
        <5> QED
          BY <4>1, <5>1, <5>2
      <4> QED
        BY <4>2, <4>3
    <3>6. Whats(K) \subseteq E
      <4>1. \A i \in 1..Len(L) : i = 1 \/ i \in 2..Len(L)
        BY <1>3
      <4>2. \A i \in 2..Len(L) : K[i].what \in E
        BY <1>1, <3>2, <3>4 DEF Whats
      <4> QED
        BY <1>2, <3>2, <3>3, <4>1, <4>2 DEF Whats
    <3> QED
      BY <3>1, <3>2, <3>5, <3>6 DEF Lists
  <2>6. CASE Above(L, s) = {} /\ last # 1
    <3>1. add_learned_skill(L, s, p) = InsertAt(L, last + 1, e)
      BY <1>7, <2>6 DEF add_learned_skill
    <3> HIDE DEF last
    <3>2. last \in DOMAIN L /\ 1 \in DOMAIN L /\ 1 < last /\ last + 1 \in 1..(Len(L) + 1)
      BY <1>3, <2>1, <2>2, <2>6
    <3>3. LevelOf[L[last].what] # None /\ L[last].what \in Skill
      BY <1>1, <2>2, <3>2, SkillsInFront
    <3>4. ASSUME NEW i \in DOMAIN L, i < last + 1
          PROVE  /\ L[i].what \in Skill /\ LevelOf[L[i].what] # None
                 /\ LevelOf[L[i].what] <= LevelOf[s]
      <4>1. i = last \/ i < last
        BY <1>3, <3>2, <3>4
      <4>2. L[i].what \in Skill /\ LevelOf[L[i].what] # None
        BY <1>1, <2>2, <3>3, <4>1, SkillsInFront
      <4>3. i \in SkillPlaces(L) /\ i \notin Above(L, s)
        BY <2>6, <4>2 DEF SkillPlaces
      <4> QED
        BY <2>3, <4>2, <4>3
    <3>5. ASSUME NEW i \in DOMAIN L, i >= last + 1
          PROVE  L[i].what \notin Skill
      <4>1. ~(last >= i)
        BY <1>3, <3>2, <3>5
      <4> QED
        BY <2>2, <4>1 DEF SkillPlaces
    <3> QED
      BY <1>7, <3>1, <3>2, <3>4, <3>5, InsertFine
  <2> QED
    BY <2>4, <2>5, <2>6
<1> QED
  BY <1>4, <1>5, <1>6, <1>7

----------------------------------------------------------------------------
\* Groups, the race and the file.

\* With a group also its skills.
Closed(E) == \A g \in E \cap Group : \A i \in DOMAIN Of[g] : Of[g][i] \in E

LEMMA ListsGrow ==
  ASSUME NEW E, NEW F, E \subseteq F, NEW L \in Lists(E)
  PROVE  L \in Lists(F)
BY DEF Lists

LEMMA EmptyFine ==
  ASSUME NEW E
  PROVE  <<>> \in Lists(E)
<1>1. <<>> \in List /\ DOMAIN <<>> = {}
  BY DEF List
<1> QED
  BY <1>1 DEF Lists, Ordered, Whats

LEMMA AppendFine ==
  ASSUME NEW E, NEW L \in Lists(E), NEW g \in Group, g \in E, ~Knows(L, g)
  PROVE  Append(L, [what |-> g, percent |-> 1]) \in Lists(E)
<1> DEFINE e == [what |-> g, percent |-> 1]
           K == Append(L, e)
<1>1. L \in List /\ Ordered(L) /\ Whats(L) \subseteq E
  BY DEF Lists
<1>2. e \in Entry /\ e.what = g /\ g \notin Skill
  BY LevelsAre DEF Entry
<1>3. Len(L) \in Nat /\ DOMAIN L = 1..Len(L)
  BY <1>1, ListFacts
<1> HIDE DEF e
<1>4. K \in List /\ Len(K) = Len(L) + 1 /\ K[Len(L) + 1] = e /\ \A i \in 1..Len(L) : K[i] = L[i]
  BY <1>1, <1>2 DEF List
<1> HIDE DEF K
<1>5. DOMAIN K = 1..(Len(L) + 1)
  BY <1>4, ListFacts
<1>6. \A i \in 1..(Len(L) + 1) : i = Len(L) + 1 \/ i \in DOMAIN L
  BY <1>3
<1>7. Ordered(K)
  <2> SUFFICES ASSUME NEW i \in 1..(Len(L) + 1), NEW j \in 1..(Len(L) + 1), i < j
               PROVE  /\ K[i].what # K[j].what
                      /\ K[j].what \in Skill =>
                           /\ K[i].what \in Skill
                           /\ LevelOf[K[i].what] # None /\ LevelOf[K[j].what] # None
                           /\ LevelOf[K[i].what] <= LevelOf[K[j].what]
    BY <1>5 DEF Ordered
  <2>1. i \in DOMAIN L /\ K[i] = L[i]
    BY <1>3, <1>4
  <2>2. CASE j = Len(L) + 1
    BY <1>2, <1>4, <2>1, <2>2 DEF Knows, Places
  <2>3. CASE j \in DOMAIN L
    BY <1>1, <1>3, <1>4, <2>1, <2>3 DEF Ordered
  <2> QED
    BY <1>6, <2>2, <2>3
<1>8. Whats(K) \subseteq E
  <2> SUFFICES ASSUME NEW i \in 1..(Len(L) + 1)
               PROVE  K[i].what \in E
    BY <1>5 DEF Whats
  <2>1. CASE i = Len(L) + 1
    BY <1>2, <1>4, <2>1
  <2>2. CASE i \in DOMAIN L
    BY <1>1, <1>3, <1>4, <2>2 DEF Whats
  <2> QED
    BY <1>6, <2>1, <2>2
<1> QED
  BY <1>4, <1>7, <1>8 DEF Lists, K, e

LEMMA AddGroupFine ==
  ASSUME NEW E, Closed(E), NEW L \in Lists(E), NEW g \in Group, g \in E, ~Knows(L, g)
  PROVE  add_learned_group(L, g) \in Lists(E)
<1> DEFINE K0 == Append(L, [what |-> g, percent |-> 1])
           Add == [s \in Skill |-> [K \in List |-> IF Knows(K, s) THEN K
                                                   ELSE add_learned_skill(K, s, 1)]]
<1>1. K0 \in Lists(E)
  BY AppendFine
<1>2. Of[g] \in Seq(Skill \cap E)
  <2>1. Of[g] \in Seq(Skill)
    BY LearningConstants
  <2>2. \A i \in DOMAIN Of[g] : Of[g][i] \in E
    BY DEF Closed
  <2> HIDE DEF K0, Add
  <2> QED
    BY <2>1, <2>2
<1>3. ASSUME NEW s \in Skill \cap E, NEW K \in Lists(E)
      PROVE  Add[s][K] \in Lists(E)
  <2>1. K \in List
    BY DEF Lists
  <2>2. Add[s][K] = IF Knows(K, s) THEN K ELSE add_learned_skill(K, s, 1)
    BY <2>1
  <2>3. add_learned_skill(K, s, 1) \in Lists(E)
    <3>1. 1 \in 0..Top
      BY LevelsAre
    <3> QED
      BY <3>1, AddSkillFine
  <2> QED
    BY <2>2, <2>3
<1>4. add_learned_group(L, g) = Through(Of[g], K0, Add)
  BY DEF add_learned_group
<1> HIDE DEF K0, Add
<1>5. Through(Of[g], K0, Add) \in Lists(E)
  BY <1>1, <1>2, <1>3, ThroughStays DEF Closes
<1> QED
  BY <1>4, <1>5

LEMMA AddNewFine ==
  ASSUME NEW E, Closed(E), NEW L \in Lists(E), NEW x \in Skill \cup Group, x \in E,
         NEW p \in 0..Top
  PROVE  add_new(L, x, p) \in Lists(E)
<1>1. CASE Knows(L, x)
  BY <1>1 DEF add_new
<1>2. CASE ~Knows(L, x) /\ x \in Group
  BY <1>2, AddGroupFine DEF add_new, add_learned
<1>3. CASE ~Knows(L, x) /\ x \notin Group
  BY <1>3, AddSkillFine DEF add_new, add_learned
<1> QED
  BY <1>1, <1>2, <1>3

LEMMA BornFine ==
  ASSUME NEW E, Closed(E), \A i \in DOMAIN Race : Race[i] \in E,
         NEW L \in Lists(E), NEW p \in 0..Top
  PROVE  BornWith(L, p) \in Lists(E)
<1> DEFINE D == (Skill \cup Group) \cap E
           Add == [x \in Skill \cup Group |-> [K \in List |-> add_new(K, x, p)]]
<1>1. Race \in Seq(D)
  BY LearningConstants
<1>2. ASSUME NEW x \in D, NEW K \in Lists(E)
      PROVE  Add[x][K] \in Lists(E)
  <2>1. K \in List
    BY DEF Lists
  <2>2. Add[x][K] = add_new(K, x, p)
    BY <2>1
  <2>3. add_new(K, x, p) \in Lists(E)
    BY AddNewFine
  <2> QED
    BY <2>2, <2>3
<1>3. BornWith(L, p) = Through(Race, L, Add)
  BY DEF BornWith
<1> HIDE DEF D, Add
<1>4. Through(Race, L, Add) \in Lists(E)
  BY <1>1, <1>2, ThroughStays DEF Closes
<1> QED
  BY <1>3, <1>4

\* What may stand in the file of who may know E.
Lines(E) == {e \in Entry : e.what \in E}

LEMMA WrittenFine ==
  ASSUME NEW E, NEW L \in Lists(E)
  PROVE  Written(L) \in Seq(Lines(E))
<1> DEFINE D == Lines(E)
           V == Seq(D)
           Add == [e \in Entry |-> [K \in List |->
                     IF e.what \in Group \/ e.percent > 0 THEN Append(K, e) ELSE K]]
<1>1. L \in Seq(D)
  <2>1. L \in Seq(Entry) /\ \A i \in DOMAIN L : L[i].what \in E
    BY DEF Lists, List, Whats
  <2>2. \A i \in DOMAIN L : L[i] \in D
    BY <2>1 DEF Lines
  <2> HIDE DEF D
  <2> QED
    BY <2>1, <2>2
<1>2. <<>> \in V
  OBVIOUS
<1>3. ASSUME NEW e \in D, NEW K \in V
      PROVE  Add[e][K] \in V
  <2>1. e \in Entry /\ D \subseteq Entry
    BY DEF Lines
  <2>2. K \in List
    <3> HIDE DEF D
    <3> QED
      BY <2>1 DEF List
  <2>3. Add[e][K] = IF e.what \in Group \/ e.percent > 0 THEN Append(K, e) ELSE K
    BY <2>1, <2>2
  <2>4. Append(K, e) \in V
    <3> HIDE DEF D
    <3> QED
      OBVIOUS
  <2> QED
    BY <2>3, <2>4
<1>4. Written(L) = Through(L, <<>>, Add)
  BY DEF Written
<1> HIDE DEF D, V, Add
<1>5. Through(L, <<>>, Add) \in V
  BY <1>1, <1>2, <1>3, ThroughStays DEF Closes
<1> QED
  BY <1>4, <1>5 DEF V, D

LEMMA LoadedFine ==
  ASSUME NEW E, Closed(E), \A i \in DOMAIN Race : Race[i] \in E, NEW f \in Seq(Lines(E))
  PROVE  Loaded(f) \in Lists(E)
<1> DEFINE Add == [e \in Entry |-> [K \in List |-> add_new(K, e.what, e.percent)]]
           K0 == Through(f, <<>>, Add)
<1>1. ASSUME NEW e \in Lines(E), NEW K \in Lists(E)
      PROVE  Add[e][K] \in Lists(E)
  <2>1. K \in List /\ e \in Entry
    BY DEF Lists, Lines
  <2>2. Add[e][K] = add_new(K, e.what, e.percent)
    BY <2>1
  <2>3. e.what \in Skill \cup Group /\ e.what \in E /\ e.percent \in 0..Top
    BY DEF Lines, Entry
  <2>4. add_new(K, e.what, e.percent) \in Lists(E)
    BY <2>3, AddNewFine
  <2> QED
    BY <2>2, <2>4
<1>2. Loaded(f) = BornWith(K0, 1)
  BY DEF Loaded
<1>3. K0 \in Lists(E)
  <2> HIDE DEF Add
  <2> QED
    BY <1>1, EmptyFine, ThroughStays DEF Closes
<1>4. 1 \in 0..Top
  BY LevelsAre
<1> HIDE DEF K0
<1> QED
  BY <1>2, <1>3, <1>4, BornFine

----------------------------------------------------------------------------
\* What a turn of the game does to the list.

\* What own lets its owner know.
May(own) == own \cup UNION {Range(Of[g]) : g \in own \cap Group}

LEMMA OwnMay ==
  ASSUME NEW own, own \subseteq Skill \cup Group
  PROVE  Closed(May(own)) /\ May(own) \subseteq Skill \cup Group /\ own \subseteq May(own)
<1> DEFINE brought == UNION {Range(Of[g]) : g \in own \cap Group}
<1>1. May(own) = own \cup brought
  BY DEF May
<1>2. \A g \in Group : /\ Range(Of[g]) \subseteq Skill
                        /\ Range(Of[g]) = {Of[g][i] : i \in DOMAIN Of[g]}
  <2> SUFFICES ASSUME NEW g \in Group
               PROVE  /\ Range(Of[g]) \subseteq Skill
                      /\ Range(Of[g]) = {Of[g][i] : i \in DOMAIN Of[g]}
    OBVIOUS
  <2>1. Of[g] \in Seq(Skill)
    BY LearningConstants
  <2> QED
    BY <2>1 DEF Range
<1>3. brought \subseteq Skill
  BY <1>2
<1>4. May(own) \cap Group \subseteq own
  BY <1>1, <1>3, LevelsAre
<1>5. ASSUME NEW g \in May(own) \cap Group, NEW i \in DOMAIN Of[g]
      PROVE  Of[g][i] \in May(own)
  <2>1. g \in own \cap Group
    BY <1>4
  <2>2. Of[g][i] \in Range(Of[g])
    BY <1>2
  <2>3. Of[g][i] \in brought
    BY <2>1, <2>2
  <2> QED
    BY <1>1, <2>3
<1> QED
  BY <1>1, <1>3, <1>5 DEF Closed

LEMMA OwnIsEntitled ==
  ASSUME paid \subseteq Skill \cup Group, given \subseteq Skill \cup Group
  PROVE  /\ Closed(Entitled) /\ Entitled \subseteq Skill \cup Group
         /\ paid \cup given \subseteq Entitled
<1>1. Entitled = May(paid \cup given)
  BY DEF Entitled, May
<1> QED
  BY <1>1, OwnMay

LEMMA OwnWillBeEntitled ==
  ASSUME paid' \subseteq Skill \cup Group, given' \subseteq Skill \cup Group
  PROVE  /\ Closed(Entitled') /\ Entitled' \subseteq Skill \cup Group
         /\ paid' \cup given' \subseteq Entitled'
<1>1. Entitled' = May(paid' \cup given')
  BY DEF Entitled, May
<1> QED
  BY <1>1, OwnMay

LEMMA EntitledGrows ==
  ASSUME paid \subseteq paid', given \subseteq given'
  PROVE  Entitled \subseteq Entitled'
BY DEF Entitled

\* The entry of a skill that is known.
LEMMA PercentIs ==
  ASSUME NEW s \in Skill, learned \in List, Knows(learned, s)
  PROVE  PercentOf(s) \in 0..Top
<1> DEFINE m == Min(Places(learned, s))
<1>1. Len(learned) \in Nat /\ Places(learned, s) \in SUBSET (1..Len(learned))
      /\ Places(learned, s) # {}
  BY ListFacts DEF Places, Knows
<1>2. m \in Places(learned, s)
  BY <1>1, Smallest
<1> HIDE DEF m
<1>3. learned[m] \in Entry
  BY <1>2, ListFacts DEF Places
<1> QED
  BY <1>3 DEF PercentOf, m, Entry

LEMMA PercentFine ==
  ASSUME NEW E, learned \in Lists(E), NEW s \in Skill, NEW p \in 0..Top
  PROVE  Percent(s, p) \in Lists(E)
<1> DEFINE K == [i \in DOMAIN learned |->
                   IF i \in Places(learned, s) THEN [learned[i] EXCEPT !.percent = p]
                   ELSE learned[i]]
<1>1. \A i \in DOMAIN learned : learned[i] \in Entry
  BY ListFacts DEF Lists
<1>2. \A i \in DOMAIN learned : K[i] \in Entry /\ K[i].what = learned[i].what
  <2> SUFFICES ASSUME NEW i \in DOMAIN learned
               PROVE  K[i] \in Entry /\ K[i].what = learned[i].what
    OBVIOUS
  <2>1. /\ [learned[i] EXCEPT !.percent = p] \in Entry
        /\ [learned[i] EXCEPT !.percent = p].what = learned[i].what
    BY <1>1 DEF Entry
  <2> QED
    BY <1>1, <2>1
<1>3. DOMAIN K = DOMAIN learned /\ K = [i \in DOMAIN learned |-> K[i]]
  OBVIOUS
<1>4. Percent(s, p) = K
  BY DEF Percent
<1> HIDE DEF K
<1>5. K \in Lists(E)
  BY <1>2, <1>3, SameOrder
<1> QED
  BY <1>4, <1>5

----------------------------------------------------------------------------
\* The invariant: the list in order and within what its owner may know, the
\* skills of the race given for good, and the books of the sessions in balance.

spent == train + stat + SumFunctionOnSet(Difficulty, paid)

\* What a level brings at the best of luck and wisdom.
BestTrains == Max(TrainsUp)
BestPractices == Max(PracticesUp)
Balanced ==
  ~Unlucky =>
    Rate * spent + practice
      <= Rate * (Trains + (level - 1) * BestTrains) + Practices + (level - 1) * BestPractices

Counters ==
  /\ level \in 1..MaxLevel /\ train \in Int /\ practice \in Int /\ stat \in 0..MaxStat
  /\ paid \subseteq Skill \cup Group /\ given \subseteq Skill \cup Group
  /\ IsFiniteSet(paid) /\ \A i \in DOMAIN Race : Race[i] \in given

IInv == Counters /\ learned \in Lists(Entitled) /\ Balanced

LEMMA BestOf ==
  ASSUME NEW up, up \subseteq Nat, \E most \in up : \A n \in up : n <= most
  PROVE  /\ Max(up) \in up /\ \A n \in up : n <= Max(up)
         /\ Best(up) = {Max(up)}
<1>1. PICK most \in up : \A n \in up : most >= n
  OBVIOUS
<1>2. Max(up) \in up /\ \A n \in up : Max(up) >= n
  BY <1>1 DEF Max
<1>3. Max(up) \in Nat /\ \A n \in up : n \in Nat
  BY <1>2
<1> DEFINE M == Max(up)
<1> HIDE DEF M
<1>4. M \in up /\ M \in Nat /\ \A n \in up : n <= M
  BY <1>2, <1>3 DEF M
<1>5. Best(up) = {M}
  <2>1. M \in Best(up)
    BY <1>4 DEF Best
  <2>2. ASSUME NEW n \in Best(up)
        PROVE  n = M
    <3>1. n \in Nat /\ M <= n /\ n <= M
      BY <1>4, <2>2 DEF Best
    <3> QED
      BY <1>4, <3>1
  <2> QED
    BY <2>1, <2>2
<1> QED
  BY <1>4, <1>5 DEF M

LEMMA BestsAre ==
  /\ TrainsUp \subseteq Nat /\ PracticesUp \subseteq Nat
  /\ BestTrains \in Nat /\ \A n \in TrainsUp : n <= BestTrains
  /\ BestPractices \in Nat /\ \A n \in PracticesUp : n <= BestPractices
  /\ Best(TrainsUp) = {BestTrains} /\ Best(PracticesUp) = {BestPractices}
<1>1. /\ TrainsUp \subseteq Nat /\ \E most \in TrainsUp : \A n \in TrainsUp : n <= most
      /\ PracticesUp \subseteq Nat /\ \E most \in PracticesUp : \A n \in PracticesUp : n <= most
  BY LearningConstants
<1> QED
  BY <1>1, BestOf DEF BestTrains, BestPractices

LEMMA ConstantsAre ==
  /\ Adept \in Nat /\ Top \in Nat /\ Rate \in Nat /\ Trains \in Nat /\ Practices \in Nat
  /\ BestTrains \in Nat /\ BestPractices \in Nat /\ MaxStat \in Nat /\ MaxLevel \in Nat
  /\ MaxSessions \in Nat /\ MaxLevel > 0 /\ 1 < Adept /\ Adept < Top
  /\ Difficulty \in [Skill \cup Group -> Int]
  /\ \A x \in Skill \cup Group : Difficulty[x] \in Nat
  /\ \A i \in DOMAIN Race : Race[i] \in Skill \cup Group
BY LearningConstants, BestsAre

LEMMA PaidIs ==
  ASSUME Counters
  PROVE  SumFunctionOnSet(Difficulty, paid) \in Int /\ spent \in Int
<1>1. SumFunctionOnSet(Difficulty, paid) \in Int
  BY ConstantsAre, SumType DEF Counters
<1> QED
  BY <1>1 DEF Counters, spent

\* What is bought again, which nobody can, would not count twice.
LEMMA SumBought ==
  ASSUME Counters, NEW x \in Skill \cup Group
  PROVE  /\ IsFiniteSet(paid \cup {x})
         /\ SumFunctionOnSet(Difficulty, paid \cup {x}) \in Int
         /\ SumFunctionOnSet(Difficulty, paid \cup {x})
              <= SumFunctionOnSet(Difficulty, paid) + Difficulty[x]
<1> DEFINE T == paid \cup {x}
           S(A) == SumFunctionOnSet(Difficulty, A)
<1>1. IsFiniteSet(T) /\ T \in SUBSET (Skill \cup Group) /\ x \in T
  BY FS_AddElement DEF Counters
<1>2. S(T) \in Int /\ S(paid) \in Int /\ Difficulty[x] \in Nat
  BY <1>1, ConstantsAre, SumType, PaidIs
<1>3. S(T) = Difficulty[x] + S(T \ {x})
  <2> HIDE DEF T
  <2> QED
    BY <1>1, ConstantsAre, SumStep
<1>4. CASE x \in paid
  <2>1. T = paid
    BY <1>4
  <2> HIDE DEF T
  <2>2. S(T) = S(paid)
    BY <2>1, Zenon
  <2> HIDE DEF S
  <2>3. S(T) <= S(paid) + Difficulty[x]
    BY <1>2, <2>2
  <2> QED
    BY <1>1, <1>2, <2>3 DEF S, T
<1>5. CASE x \notin paid
  <2>1. T \ {x} = paid
    BY <1>5
  <2> HIDE DEF T
  <2>2. S(T \ {x}) = S(paid)
    BY <2>1, Zenon
  <2> HIDE DEF S
  <2>3. S(T) <= S(paid) + Difficulty[x]
    BY <1>2, <1>3, <2>2
  <2> QED
    BY <1>1, <1>2, <2>3 DEF S, T
<1> QED
  BY <1>4, <1>5

\* Of Balanced only what is spent and the practices matter while the level stays.
LEMMA BalanceKept ==
  ASSUME Counters, Counters', Balanced, level' = level,
         Rate * spent' + practice' <= Rate * spent + practice
  PROVE  Balanced'
<1> DEFINE d == Rate * (Trains + (level - 1) * BestTrains) + Practices + (level - 1) * BestPractices
<1>1. spent \in Int /\ spent' \in Int
  <2>1. /\ SumFunctionOnSet(Difficulty, paid) \in Int
        /\ SumFunctionOnSet(Difficulty, paid') \in Int
    BY ConstantsAre, SumType DEF Counters
  <2> QED
    BY <2>1 DEF spent, Counters
<1>2. d \in Int /\ Rate * spent \in Int /\ Rate * spent' \in Int
      /\ practice \in Int /\ practice' \in Int
  BY <1>1, ConstantsAre DEF Counters
<1>3. ~Unlucky => Rate * spent + practice <= d
  BY DEF Balanced
<1> HIDE DEF d
<1>4. ~Unlucky => Rate * spent' + practice' <= d
  BY <1>2, <1>3
<1> QED
  BY <1>4 DEF Balanced, d

LEMMA TimesGrows ==
  ASSUME NEW r \in Nat, NEW a \in Int, NEW b \in Int, a <= b
  PROVE  r * a <= r * b
<1>1. PICK d \in Nat : b = a + d
  <2>1. b - a \in Nat /\ b = a + (b - a)
    OBVIOUS
  <2> QED
    BY <2>1
<1>2. r * (a + d) = r * a + r * d
  OBVIOUS
<1>3. r * d \in Nat /\ r * a \in Int
  OBVIOUS
<1> QED
  BY <1>1, <1>2, <1>3

\* A level more brings at most what the best does, a level less takes as much.
LEMMA AdvanceBalanced ==
  ASSUME Counters, Balanced, UNCHANGED <<stat, paid>>,
         NEW sign \in {1, -1}, NEW luck \in Nat, NEW wisdom \in Nat,
         ~Unlucky => sign * luck <= sign * BestTrains /\ sign * wisdom <= sign * BestPractices,
         advance_level(sign, luck, wisdom)
  PROVE  Balanced' /\ train' \in Int /\ practice' \in Int
<1> DEFINE S == SumFunctionOnSet(Difficulty, paid)
           a == train + stat + S
           d == Trains + (level - 1) * BestTrains
           w == (level - 1) * BestPractices
           t == sign * luck
           u == sign * BestTrains
           p == sign * wisdom
           v == sign * BestPractices
<1>1. S \in Int /\ train \in Int /\ practice \in Int /\ level \in Int /\ stat \in Int
  BY PaidIs DEF Counters
<1>2. level' = level + sign /\ train' = train + t /\ practice' = practice + p
  BY DEF advance_level
<1>3. SumFunctionOnSet(Difficulty, paid') = S /\ stat' = stat
  OBVIOUS
<1>4. ~Unlucky => Rate * a + practice <= Rate * d + Practices + w
  BY DEF Balanced, spent
<1> HIDE DEF S
<1>5. t \in Int /\ u \in Int /\ p \in Int /\ v \in Int /\ (~Unlucky => t <= u /\ p <= v)
  BY ConstantsAre
<1>6. Trains + (level' - 1) * BestTrains = d + u /\ (level' - 1) * BestPractices = w + v
  BY <1>1, <1>2, ConstantsAre
<1>7. a \in Int /\ d \in Int /\ w \in Int
  BY <1>1, ConstantsAre
<1> HIDE DEF t, u, p, v
<1>8. spent' = a + t
  BY <1>1, <1>2, <1>3, <1>5 DEF spent
<1> HIDE DEF a, d, w
<1>9. /\ Rate * (a + t) = Rate * a + Rate * t /\ Rate * (d + u) = Rate * d + Rate * u
      /\ Rate * a \in Int /\ Rate * t \in Int /\ Rate * d \in Int /\ Rate * u \in Int
  BY <1>5, <1>7, ConstantsAre
<1>10. ~Unlucky => Rate * t <= Rate * u
  BY <1>5, ConstantsAre, TimesGrows
<1>11. ~Unlucky => Rate * spent' + practice' <= Rate * (d + u) + Practices + (w + v)
  BY <1>1, <1>2, <1>4, <1>5, <1>7, <1>8, <1>9, <1>10, ConstantsAre
<1>12. train' \in Int /\ practice' \in Int
  BY <1>1, <1>2, <1>5
<1> QED
  BY <1>6, <1>11, <1>12 DEF Balanced

LEMMA GainsKeep ==
  ASSUME IInv, gain_exp, UNCHANGED <<stat, paid, given>>
  PROVE  Counters' /\ Balanced' /\ Entitled' = Entitled
<1>1. CASE UNCHANGED <<level, sessions>>
  BY <1>1 DEF IInv, Counters, Balanced, spent, sessions, Entitled
<1>2. ASSUME level < MaxLevel, NEW luck \in TrainsUp, NEW wisdom \in PracticesUp,
             advance_level(1, luck, wisdom)
      PROVE  Counters' /\ Balanced' /\ Entitled' = Entitled
  <2>0. /\ luck \in Nat /\ wisdom \in Nat
        /\ 1 * luck <= 1 * BestTrains /\ 1 * wisdom <= 1 * BestPractices
    BY BestsAre
  <2>1. Balanced' /\ train' \in Int /\ practice' \in Int
    BY <1>2, <2>0, AdvanceBalanced DEF IInv
  <2>2. level' \in 1..MaxLevel
    BY <1>2, ConstantsAre DEF IInv, Counters, advance_level
  <2> QED
    BY <2>1, <2>2 DEF IInv, Counters, Entitled
<1> QED
  BY <1>1, <1>2 DEF gain_exp

LEMMA InitFine ==
  ASSUME Init
  PROVE  IInv
<1>1. /\ level = 1 /\ train = Trains /\ practice = Practices /\ stat = 0
      /\ paid = {} /\ given = Range(Race) /\ learned = BornWith(<<>>, Adept)
  BY DEF Init
<1>2. \A i \in DOMAIN Race : Race[i] \in given
  BY <1>1 DEF Range
<1>3. given \subseteq Skill \cup Group
  BY <1>1, ConstantsAre DEF Range
<1>4. Counters
  <2>1. IsFiniteSet({})
    BY FS_EmptySet
  <2> QED
    BY <1>1, <1>2, <1>3, <2>1, ConstantsAre DEF Counters
<1>5. learned \in Lists(Entitled)
  <2>1. Closed(Entitled) /\ given \subseteq Entitled
    BY <1>4, OwnIsEntitled DEF Counters
  <2>2. Adept \in 0..Top
    BY LevelsAre
  <2>3. BornWith(<<>>, Adept) \in Lists(Entitled)
    BY <1>2, <2>1, <2>2, EmptyFine, BornFine
  <2> QED
    BY <1>1, <2>3
<1>6. Balanced
  <2>1. SumFunctionOnSet(Difficulty, {}) = 0
    BY <1>1, <1>4, ConstantsAre, SumType DEF Counters
  <2>2. spent = Trains /\ level - 1 = 0
    BY <1>1, <2>1, ConstantsAre DEF spent
  <2> QED
    BY <1>1, <2>2, ConstantsAre DEF Balanced
<1> QED
  BY <1>4, <1>5, <1>6 DEF IInv

LEMMA RelogKeeps ==
  ASSUME IInv, Relog
  PROVE  IInv'
<1>1. /\ UNCHANGED <<level, train, practice, stat, paid, given>>
      /\ learned' = Loaded(Written(learned))
  BY DEF Relog, sessions, rest
<1>2. Closed(Entitled) /\ given \subseteq Entitled /\ \A i \in DOMAIN Race : Race[i] \in given
  BY OwnIsEntitled DEF IInv, Counters
<1>3. Loaded(Written(learned)) \in Lists(Entitled)
  BY <1>2, WrittenFine, LoadedFine DEF IInv
<1>4. Entitled' = Entitled /\ Counters' /\ Balanced'
  BY <1>1 DEF IInv, Counters, Balanced, spent, Entitled
<1> QED
  BY <1>1, <1>3, <1>4 DEF IInv

LEMMA FightKeeps ==
  ASSUME IInv, Fight
  PROVE  IInv'
<1>1. Counters' /\ Balanced' /\ Entitled' = Entitled /\ learned' = learned
  BY GainsKeep DEF Fight
<1> QED
  BY <1>1 DEF IInv

LEMMA AdvanceKeeps ==
  ASSUME IInv, do_advance
  PROVE  IInv'
<1>1. PICK luck \in Taken(TrainsUp), wisdom \in Taken(PracticesUp) : advance_level(-1, luck, wisdom)
  BY DEF do_advance
<1>2. /\ luck \in Nat /\ wisdom \in Nat
      /\ ~Unlucky => luck = BestTrains /\ wisdom = BestPractices
  BY BestsAre DEF Taken, Best
<1>3. Balanced' /\ train' \in Int /\ practice' \in Int
  <2>1. ~Unlucky => /\ (-1) * luck <= (-1) * BestTrains
                    /\ (-1) * wisdom <= (-1) * BestPractices
    BY <1>2, ConstantsAre
  <2> QED
    BY <1>1, <1>2, <2>1, AdvanceBalanced DEF IInv, do_advance
<1>4. level' \in 1..MaxLevel
  BY <1>1, ConstantsAre DEF IInv, Counters, do_advance, advance_level
<1>5. Counters' /\ Entitled' = Entitled
  BY <1>3, <1>4 DEF IInv, Counters, do_advance, Entitled
<1> QED
  BY <1>3, <1>5 DEF IInv, do_advance

\* Whoever has no more in hand and spent than before stays in balance.
LEMMA SpentLess ==
  ASSUME Counters, Counters', Balanced, UNCHANGED <<level, practice>>, spent' <= spent
  PROVE  Balanced'
<1>1. spent \in Int /\ spent' \in Int
  <2>1. /\ SumFunctionOnSet(Difficulty, paid) \in Int
        /\ SumFunctionOnSet(Difficulty, paid') \in Int
    BY ConstantsAre, SumType DEF Counters
  <2> QED
    BY <2>1 DEF spent, Counters
<1>2. Rate * spent' <= Rate * spent
  BY <1>1, ConstantsAre, TimesGrows
<1>3. Rate * spent \in Int /\ Rate * spent' \in Int /\ practice \in Int
  BY <1>1, ConstantsAre DEF Counters
<1>4. Rate * spent' + practice' <= Rate * spent + practice
  BY <1>2, <1>3
<1> QED
  BY <1>4, BalanceKept

LEMMA PayKeeps ==
  ASSUME Counters, Balanced, NEW x \in Skill \cup Group, Pay(x),
         UNCHANGED <<level, practice, stat, given>>
  PROVE  Counters' /\ Balanced' /\ paid \subseteq paid' /\ x \in paid'
<1>1. paid' = paid \cup {x} /\ train' = train - Difficulty[x]
  BY DEF Pay
<1> DEFINE S == SumFunctionOnSet(Difficulty, paid)
           Sx == SumFunctionOnSet(Difficulty, paid \cup {x})
<1>2. S \in Int /\ Sx \in Int /\ Sx <= S + Difficulty[x] /\ IsFiniteSet(paid \cup {x})
  BY PaidIs, SumBought
<1>3. Difficulty[x] \in Nat /\ train \in Int /\ stat \in Int
  BY ConstantsAre DEF Counters
<1>4. Counters'
  BY <1>1, <1>2, <1>3 DEF Counters
<1>5. spent' = train - Difficulty[x] + stat + Sx /\ spent = train + stat + S
  BY <1>1 DEF spent
<1> HIDE DEF S, Sx
<1>6. spent' <= spent
  BY <1>2, <1>3, <1>5
<1> QED
  BY <1>1, <1>4, <1>6, SpentLess

LEMMA GainGroupKeeps ==
  ASSUME IInv, gain_group
  PROVE  IInv'
<1>1. PICK g \in Group :
        /\ ~Knows(learned, g) /\ Pay(g) /\ learned' = add_learned_group(learned, g)
        /\ UNCHANGED <<level, practice, stat, given>>
  BY DEF gain_group
<1>2. Counters' /\ Balanced' /\ paid \subseteq paid' /\ g \in paid'
  BY <1>1, PayKeeps DEF IInv
<1>3. Closed(Entitled') /\ g \in Entitled'
  <2>1. paid' \subseteq Skill \cup Group /\ given' \subseteq Skill \cup Group
    BY <1>2 DEF Counters
  <2>2. Closed(Entitled') /\ paid' \cup given' \subseteq Entitled'
    BY <2>1, OwnWillBeEntitled
  <2> QED
    BY <1>2, <2>2
<1>4. learned \in Lists(Entitled')
  BY <1>1, <1>2, EntitledGrows, ListsGrow DEF IInv
<1>5. learned' \in Lists(Entitled')
  BY <1>1, <1>3, <1>4, AddGroupFine
<1> QED
  BY <1>2, <1>5 DEF IInv

LEMMA GainSkillKeeps ==
  ASSUME IInv, gain_skill
  PROVE  IInv'
<1>1. PICK s \in Skill :
        /\ Pay(s) /\ learned' = add_learned_skill(learned, s, 1)
        /\ UNCHANGED <<level, practice, stat, given>>
  BY DEF gain_skill
<1>2. Counters' /\ Balanced' /\ paid \subseteq paid' /\ s \in paid'
  BY <1>1, PayKeeps DEF IInv
<1>3. s \in Entitled'
  <2>1. paid' \subseteq Skill \cup Group /\ given' \subseteq Skill \cup Group
    BY <1>2 DEF Counters
  <2> QED
    BY <1>2, <2>1, OwnWillBeEntitled
<1>4. learned \in Lists(Entitled')
  BY <1>1, <1>2, EntitledGrows, ListsGrow DEF IInv
<1>5. learned' \in Lists(Entitled')
  <2>1. 1 \in 0..Top
    BY LevelsAre
  <2> QED
    BY <1>1, <1>3, <1>4, <2>1, AddSkillFine
<1> QED
  BY <1>2, <1>5 DEF IInv

\* Sessions for practices and back, at the same rate.
LEMMA ConvertKeeps ==
  ASSUME IInv, gain_convert \/ gain_study
  PROVE  IInv'
<1> DEFINE S == SumFunctionOnSet(Difficulty, paid)
<1>1. S \in Int /\ train \in Int /\ practice \in Int /\ stat \in Int /\ Rate \in Nat
  BY PaidIs, ConstantsAre DEF IInv, Counters
<1>2. UNCHANGED <<learned, level, stat, paid, given>>
  BY DEF gain_convert, gain_study, rest
<1>3. PICK n \in {1, -1} : train' = train + n /\ practice' = practice - n * Rate
  <2>1. CASE gain_convert
    <3>1. train' = train + 1 /\ practice' = practice - 1 * Rate
      BY <1>1, <2>1 DEF gain_convert
    <3> QED
      BY <3>1
  <2>2. CASE gain_study
    <3>1. train' = train + (-1) /\ practice' = practice - (-1) * Rate
      BY <1>1, <2>2 DEF gain_study
    <3> QED
      BY <3>1
  <2> QED
    BY <2>1, <2>2
<1>4. Counters' /\ Entitled' = Entitled
  BY <1>1, <1>2, <1>3 DEF IInv, Counters, Entitled
<1>5. spent \in Int /\ spent' = spent + n
  <2>1. spent = train + stat + S /\ spent' = train' + stat + S
    BY <1>2 DEF spent
  <2> HIDE DEF S
  <2> QED
    BY <1>1, <1>3, <2>1
<1>6. Rate * spent' + practice' <= Rate * spent + practice
  <2>1. Rate * (spent + n) = Rate * spent + n * Rate
    BY <1>1, <1>5
  <2>2. n * Rate \in Int /\ Rate * spent \in Int
    BY <1>1, <1>5
  <2> QED
    BY <1>1, <1>3, <1>5, <2>1, <2>2
<1>7. Balanced'
  BY <1>2, <1>4, <1>6, BalanceKept DEF IInv
<1> QED
  BY <1>2, <1>4, <1>7 DEF IInv

LEMMA TrainKeeps ==
  ASSUME IInv, TrainBody \/ TrainStat
  PROVE  IInv'
<1> DEFINE S == SumFunctionOnSet(Difficulty, paid)
<1>1. S \in Int /\ train \in Int /\ stat \in 0..MaxStat /\ MaxStat \in Nat
  BY PaidIs, ConstantsAre DEF IInv, Counters
<1>2. UNCHANGED <<learned, level, practice, paid, given>>
  BY DEF TrainBody, TrainStat, rest
<1>3. train' \in Int /\ stat' \in 0..MaxStat /\ train' + stat' <= train + stat
  <2>1. CASE TrainBody
    BY <1>1, <2>1 DEF TrainBody, rest
  <2>2. CASE TrainStat
    BY <1>1, <2>2 DEF TrainStat
  <2> QED
    BY <2>1, <2>2
<1>4. Counters' /\ Entitled' = Entitled
  BY <1>2, <1>3 DEF IInv, Counters, Entitled
<1>5. spent' <= spent
  <2>1. spent = train + stat + S /\ spent' = train' + stat' + S
    BY <1>2 DEF spent
  <2>2. train \in Int /\ stat \in Int /\ train' \in Int /\ stat' \in Int /\ S \in Int
    BY <1>1, <1>3
  <2> HIDE DEF S
  <2>3. train' + stat' <= train + stat
    BY <1>3
  <2>4. \A a, b, c, d, z \in Int : a + b <= c + d => a + b + z <= c + d + z
    OBVIOUS
  <2>5. train' + stat' + S <= train + stat + S
    BY <2>2, <2>3, <2>4, Zenon
  <2> QED
    BY <2>1, <2>5
<1>6. Balanced'
  BY <1>2, <1>4, <1>5, SpentLess DEF IInv
<1> QED
  BY <1>2, <1>4, <1>6 DEF IInv

LEMMA PracticeKeeps ==
  ASSUME IInv, do_practice
  PROVE  IInv'
<1>1. PICK s \in Usable, p \in 1..Adept :
        /\ practice' = practice - 1 /\ learned' = Percent(s, p)
        /\ UNCHANGED <<train, level, stat, paid, given>>
  BY DEF do_practice, rest
<1>2. p \in 0..Top /\ s \in Skill
  BY ConstantsAre DEF Usable
<1>3. Counters' /\ Entitled' = Entitled
  BY <1>1 DEF IInv, Counters, Entitled
<1>4. learned' \in Lists(Entitled)
  BY <1>1, <1>2, PercentFine DEF IInv
<1>5. Balanced'
  <2>1. spent' = spent
    BY <1>1 DEF spent
  <2>2. Rate * spent \in Int /\ practice \in Int
    BY PaidIs, ConstantsAre DEF IInv, Counters
  <2>3. Rate * spent' + practice' <= Rate * spent + practice
    BY <1>1, <2>1, <2>2
  <2> QED
    BY <1>1, <1>3, <2>3, BalanceKept DEF IInv
<1> QED
  BY <1>3, <1>4, <1>5 DEF IInv

LEMMA ImproveKeeps ==
  ASSUME IInv, check_improve
  PROVE  IInv'
<1>1. PICK s \in Usable :
        /\ PercentOf(s) \in 1..(Top - 1) /\ learned' = Percent(s, PercentOf(s) + 1)
        /\ gain_exp /\ UNCHANGED <<stat, paid, given>>
  BY DEF check_improve
<1>2. PercentOf(s) + 1 \in 0..Top /\ s \in Skill
  BY <1>1, ConstantsAre DEF Usable
<1>3. Percent(s, PercentOf(s) + 1) \in Lists(Entitled)
  BY <1>2, PercentFine DEF IInv
<1>4. Counters' /\ Balanced' /\ Entitled' = Entitled
  BY <1>1, GainsKeep
<1> QED
  BY <1>1, <1>3, <1>4 DEF IInv

\* What immortals give is in given.
LEMMA GiveKeeps ==
  ASSUME IInv, NEW S \in SUBSET Skill, Give(S)
  PROVE  Counters' /\ Balanced' /\ learned \in Lists(Entitled') /\ S \subseteq Entitled'
<1>1. given' = given \cup S /\ UNCHANGED <<level, train, practice, stat, paid>>
  BY DEF Give, sessions
<1>2. Counters' /\ Balanced'
  BY <1>1 DEF IInv, Counters, Balanced, spent
<1>3. S \subseteq Entitled'
  <2>1. paid' \subseteq Skill \cup Group /\ given' \subseteq Skill \cup Group
    BY <1>2 DEF Counters
  <2> QED
    BY <1>1, <2>1, OwnWillBeEntitled
<1>4. learned \in Lists(Entitled')
  BY <1>1, EntitledGrows, ListsGrow DEF IInv
<1> QED
  BY <1>2, <1>3, <1>4

LEMMA SetSkillKeeps ==
  ASSUME IInv, SetSkill \/ do_grant
  PROVE  IInv'
<1>1. PICK s \in Skill, p \in 0..Top : Give({s}) /\ learned' = add_learned_skill(learned, s, p)
  BY LevelsAre DEF SetSkill, do_grant
<1>2. Counters' /\ Balanced' /\ learned \in Lists(Entitled') /\ s \in Entitled'
  BY <1>1, GiveKeeps
<1>3. learned' \in Lists(Entitled')
  BY <1>1, <1>2, AddSkillFine
<1> QED
  BY <1>2, <1>3 DEF IInv

LEMMA SetAllKeeps ==
  ASSUME IInv, SetAll
  PROVE  IInv'
<1> DEFINE Add == [s \in Skill |-> [K \in List |-> add_learned_skill(K, s, Top)]]
           E == Entitled'
<1>1. Give(Skill) /\ learned' = Through(SkillList, learned, Add)
  BY DEF SetAll
<1>2. Counters' /\ Balanced' /\ learned \in Lists(E) /\ Skill \subseteq E
  BY <1>1, GiveKeeps
<1> HIDE DEF E
<1>3. ASSUME NEW s \in Skill, NEW K \in Lists(E)
      PROVE  Add[s][K] \in Lists(E)
  <2>1. K \in List /\ s \in E /\ Top \in 0..Top
    BY <1>2, LevelsAre DEF Lists
  <2>2. Add[s][K] = add_learned_skill(K, s, Top)
    BY <2>1
  <2>3. add_learned_skill(K, s, Top) \in Lists(E)
    BY <2>1, AddSkillFine
  <2> QED
    BY <2>2, <2>3
<1>4. SkillList \in Seq(Skill)
  BY LearningConstants
<1> HIDE DEF Add
<1>5. Through(SkillList, learned, Add) \in Lists(E)
  BY <1>2, <1>3, <1>4, ThroughStays DEF Closes
<1> QED
  BY <1>1, <1>2, <1>5 DEF IInv, E

LEMMA NextKeeps ==
  ASSUME IInv, [Next]_vars
  PROVE  IInv'
<1>1. CASE Gain
  BY <1>1, GainGroupKeeps, GainSkillKeeps, ConvertKeeps DEF Gain
<1>2. CASE Train
  BY <1>2, TrainKeeps, PracticeKeeps, ImproveKeeps DEF Train
<1>3. CASE UNCHANGED vars
  BY <1>3 DEF vars, IInv, Counters, Balanced, spent, Entitled
<1> QED
  BY <1>1, <1>2, <1>3, RelogKeeps, FightKeeps, AdvanceKeeps, SetSkillKeeps, SetAllKeeps DEF Next

\* However skills and groups are gained, given, practiced and read back, a
\* list made of any skills, groups and levels stays in order: every way into
\* pcdata->skills goes through add_learned_skill or add_learned_group.
THEOREM AlwaysOrdered == Spec => []ListOrdered
<1>1. Init => IInv
  BY InitFine
<1>2. IInv /\ [Next]_vars => IInv'
  BY NextKeeps
<1>3. IInv => ListOrdered
  BY DEF IInv, Lists, Ordered, ListOrdered
<1> QED
  BY <1>1, <1>2, <1>3, PTL DEF Spec

\* Nobody knows what was not paid for or given, and no conversion, change of
\* luck or player file makes sessions, whatever they cost and levels bring, if
\* demotions (do_advance) find their victim at the best of luck and wisdom.
THEOREM NothingIsFree ==
  ASSUME ~Unlucky
  PROVE  Spec => []SpentIsEarned
<1>1. Init => IInv
  BY InitFine
<1>2. IInv /\ [Next]_vars => IInv'
  BY NextKeeps
<1>3. ASSUME IInv
      PROVE  SpentIsEarned
  <2>1. TypeOK
    BY <1>3 DEF IInv, Counters, Lists, TypeOK
  <2>2. {e.what : e \in Range(learned)} \subseteq Entitled
    BY <1>3 DEF IInv, Lists, Whats, Range
  <2>3. Balanced
    BY <1>3 DEF IInv
  <2> QED
    BY <2>1, <2>2, <2>3 DEF SpentIsEarned, Balanced, spent, BestTrains, BestPractices
<1> QED
  BY <1>1, <1>2, <1>3, PTL DEF Spec
=============================================================================
