---------------------------- MODULE ObjectsProofs ----------------------------
(***************************************************************************)
(* The books of Objects are right, for any characters, objects and rooms,  *)
(* any templates, weights and nesting of bags: what lies in the game can   *)
(* be got at, seats and lights are what the counters say, and so are the   *)
(* number and the weight of what anybody carries.                          *)
(*                                                                         *)
(* Each handler of handler.c has its lemma, which says what becomes of a   *)
(* world that is Good but for objects in mid-air and characters between    *)
(* rooms; a command is a chain of them.  What hangs in what is proved by   *)
(* induction on the tree of objects, outwards or inwards, since nothing    *)
(* holds itself (Rooted).                                                  *)
(***************************************************************************)
EXTENDS Objects, Sums, TLAPS

----------------------------------------------------------------------------
\* What hangs on what.  In no set of objects does each hang on another of the
\* set: going outwards one always gets out of it.

Rooted(w) == \A S \in SUBSET Obj : S # {} => \E p \in S : w.at[p] \notin S

\* The places of the objects are what they can be.
Placed(w) == w.at \in [Obj -> Room \cup Char \cup Obj \cup {Nil}]

LEMMA NamesDiffer ==
  /\ \A r \in Room : r \notin Char /\ r \notin Obj /\ r # Nil
  /\ \A c \in Char : c \notin Room /\ c \notin Obj /\ c # Nil
  /\ \A o \in Obj : o \notin Room /\ o \notin Char /\ o # Nil
  /\ Nil \notin Room /\ Nil \notin Char /\ Nil \notin Obj
BY ObjectsConstants

LEMMA ObjsAreFinite ==
  ASSUME NEW S \in SUBSET Obj
  PROVE  IsFiniteSet(S)
BY ObjectsConstants, FS_Subset

LEMMA CharsAreFinite ==
  ASSUME NEW S \in SUBSET Char
  PROVE  IsFiniteSet(S)
BY ObjectsConstants, FS_Subset

\* What holds of an object as soon as it does of what it is in holds of all.
LEMMA OutwardInduction ==
  ASSUME NEW w, Rooted(w), NEW G,
         \A o \in Obj : (w.at[o] \in Obj => w.at[o] \in G) => o \in G
  PROVE  \A o \in Obj : o \in G
<1> DEFINE Bad == Obj \ G
<1> SUFFICES ASSUME Bad # {} PROVE FALSE
  OBVIOUS
<1>1. PICK p \in Bad : w.at[p] \notin Bad
  BY DEF Rooted
<1> QED
  BY <1>1

\* Of any objects there is one that holds none of the others.
LEMMA Leaves ==
  ASSUME NEW w, Rooted(w)
  PROVE  \A S \in SUBSET Obj : S # {} => \E p \in S : \A q \in S : w.at[q] # p
<1> DEFINE G == {S \in SUBSET Obj : S # {} => \E p \in S : \A q \in S : w.at[q] # p}
<1>1. {} \in G
  OBVIOUS
<1>2. ASSUME NEW S \in SUBSET Obj, S # {}
      PROVE  \E x \in S : S \ {x} \in G => S \in G
  <2>1. PICK r \in S : w.at[r] \notin S
    BY <1>2 DEF Rooted
  <2>2. ASSUME S \ {r} \in G
        PROVE  \E p \in S : \A q \in S : w.at[q] # p
    <3>1. CASE S \ {r} = {}
      <4>1. \A q \in S : q = r
        BY <3>1
      <4> QED
        BY <2>1, <4>1
    <3>2. CASE S \ {r} # {}
      <4>1. PICK p \in S \ {r} : \A q \in S \ {r} : w.at[q] # p
        BY <2>2, <3>2
      <4> QED
        BY <2>1, <4>1
    <3> QED
      BY <3>1, <3>2
  <2> QED
    BY <2>2
<1> HIDE DEF G
<1>3. \A S \in SUBSET Obj : S \in G
  BY <1>1, <1>2, ObjsAreFinite, ElementInduction, Zenon
<1> QED
  BY <1>3 DEF G

\* What holds of an object as soon as it does of all that is in it holds of all.
LEMMA InwardInduction ==
  ASSUME NEW w, Rooted(w), NEW G, \A o \in Obj : Inside(w, o) \subseteq G => o \in G
  PROVE  \A o \in Obj : o \in G
<1> DEFINE Bad == Obj \ G
<1> SUFFICES ASSUME Bad # {} PROVE FALSE
  OBVIOUS
<1>1. PICK p \in Bad : \A q \in Bad : w.at[q] # p
  BY Leaves
<1>2. Inside(w, p) \subseteq G
  BY <1>1 DEF Inside
<1> QED
  BY <1>1, <1>2

\* The recursion of Holders.
Path(w, h) == h = [o \in Obj |-> {o} \cup IF w.at[o] \in Obj THEN h[w.at[o]] ELSE {}]

LEMMA HoldersDef ==
  ASSUME NEW w
  PROVE  Holders(w) = CHOOSE h : Path(w, h)
BY DEF Holders, Path

\* It has a solution: whatever is in all sets that hold o and what they hang on.
LEMMA HoldersAre ==
  ASSUME NEW w
  PROVE  \A o \in Obj : Holders(w)[o] = {o} \cup IF w.at[o] \in Obj THEN Holders(w)[w.at[o]] ELSE {}
<1> DEFINE Shut(S) == \A q \in S : w.at[q] \in Obj => w.at[q] \in S
           up(o) == {p \in Obj : \A S \in SUBSET Obj : o \in S /\ Shut(S) => p \in S}
           h == [o \in Obj |-> up(o)]
<1>1. ASSUME NEW o \in Obj
      PROVE  up(o) = {o} \cup IF w.at[o] \in Obj THEN up(w.at[o]) ELSE {}
  <2> DEFINE T == {o} \cup IF w.at[o] \in Obj THEN up(w.at[o]) ELSE {}
  <2>1. T \subseteq up(o)
    OBVIOUS
  <2>2. Shut(T) /\ T \subseteq Obj /\ o \in T
    <3>1. ASSUME w.at[o] \in Obj
          PROVE  w.at[o] \in up(w.at[o]) /\ Shut(up(w.at[o]))
      BY <3>1
    <3> QED
      BY <3>1
  <2>3. up(o) \subseteq T
    BY <2>2
  <2> QED
    BY <2>1, <2>3
<1> HIDE DEF up
<1>2. \A o \in Obj : h[o] = {o} \cup IF w.at[o] \in Obj THEN h[w.at[o]] ELSE {}
  BY <1>1
<1>3. Path(w, h)
  <2>1. h = [o \in Obj |-> h[o]]
    OBVIOUS
  <2> HIDE DEF h
  <2> QED
    BY <1>2, <2>1 DEF Path
<1>4. Path(w, Holders(w))
  BY <1>3, HoldersDef, Zenon
<1> QED
  BY <1>4 DEF Path

\* The same of Within: o is within o, and what is in something within o.
LEMMA WithinAre ==
  ASSUME NEW w, NEW o \in Obj
  PROVE  /\ Within(w, o) \subseteq Obj /\ o \in Within(w, o)
         /\ \A p \in Obj : p \in Within(w, o) <=> p = o \/ (w.at[p] \in Obj /\ w.at[p] \in Within(w, o))
<1>1. \A p \in Obj : p \in Within(w, o) <=> o \in Holders(w)[p]
  BY DEF Within
<1>2. \A p \in Obj : Holders(w)[p] = {p} \cup IF w.at[p] \in Obj THEN Holders(w)[w.at[p]] ELSE {}
  BY HoldersAre
<1>3. \A p \in Obj : o \in Holders(w)[p] <=> p = o \/ (w.at[p] \in Obj /\ o \in Holders(w)[w.at[p]])
  BY <1>2
<1> QED
  BY <1>1, <1>3 DEF Within

\* The outermost holder is one, and hangs on no object.
Top(w, o, p) == p \in Obj /\ p \in Holders(w)[o] /\ w.at[p] \notin Obj

LEMMA TopsAre ==
  ASSUME NEW w, Rooted(w)
  PROVE  \A o \in Obj : /\ Holders(w)[o] \subseteq Obj
                        /\ \E p : Top(w, o, p)
                        /\ \A p, q : Top(w, o, p) /\ Top(w, o, q) => p = q
<1> DEFINE G == {o \in Obj : /\ Holders(w)[o] \subseteq Obj
                             /\ \E p : Top(w, o, p)
                             /\ \A p, q : Top(w, o, p) /\ Top(w, o, q) => p = q}
<1>1. ASSUME NEW o \in Obj, w.at[o] \in Obj => w.at[o] \in G
      PROVE  o \in G
  <2>1. CASE w.at[o] \notin Obj
    <3>1. Holders(w)[o] = {o}
      BY <2>1, HoldersAre
    <3> QED
      BY <2>1, <3>1 DEF Top
  <2>2. CASE w.at[o] \in Obj
    <3>1. Holders(w)[o] = {o} \cup Holders(w)[w.at[o]]
      BY <2>2, HoldersAre
    <3>2. \A p : Top(w, o, p) <=> Top(w, w.at[o], p)
      BY <2>2, <3>1 DEF Top
    <3>3. Holders(w)[o] \subseteq Obj
      BY <1>1, <2>2, <3>1
    <3>4. /\ \E p : Top(w, w.at[o], p)
          /\ \A p, q : Top(w, w.at[o], p) /\ Top(w, w.at[o], q) => p = q
      BY <1>1, <2>2
    <3> QED
      BY <3>2, <3>3, <3>4
  <2> QED
    BY <2>1, <2>2
<1> HIDE DEF G
<1>2. \A o \in Obj : o \in G
  BY <1>1, OutwardInduction, Zenon
<1> QED
  BY <1>2 DEF G

\* The outermost holder of what hangs on no object is itself, of what is in b
\* that of b.
LEMMA OutermostIs ==
  ASSUME NEW w, Rooted(w)
  PROVE  \A o \in Obj : /\ Outermost(w, o) \in Obj /\ w.at[Outermost(w, o)] \notin Obj
                        /\ Outermost(w, o) = IF w.at[o] \in Obj THEN Outermost(w, w.at[o]) ELSE o
                        /\ o \in Within(w, Outermost(w, o))
<1>1. \A o \in Obj : Top(w, o, Outermost(w, o))
  <2> SUFFICES ASSUME NEW o \in Obj PROVE Top(w, o, Outermost(w, o))
    OBVIOUS
  <2>1. \E p \in Holders(w)[o] : w.at[p] \notin Obj
    BY TopsAre DEF Top
  <2>2. Outermost(w, o) \in Holders(w)[o] /\ w.at[Outermost(w, o)] \notin Obj
    BY <2>1, Zenon DEF Outermost
  <2> QED
    BY <2>2, TopsAre DEF Top
<1>2. ASSUME NEW o \in Obj
      PROVE  Outermost(w, o) = IF w.at[o] \in Obj THEN Outermost(w, w.at[o]) ELSE o
  <2>1. CASE w.at[o] \notin Obj
    <3>1. Top(w, o, o)
      BY <2>1, HoldersAre DEF Top
    <3> QED
      BY <1>1, <2>1, <3>1, TopsAre
  <2>2. CASE w.at[o] \in Obj
    <3>1. Holders(w)[o] = {o} \cup Holders(w)[w.at[o]]
      BY <2>2, HoldersAre
    <3>2. Top(w, o, Outermost(w, w.at[o]))
      BY <1>1, <2>2, <3>1 DEF Top
    <3> QED
      BY <1>1, <2>2, <3>2, TopsAre
  <2> QED
    BY <2>1, <2>2
<1>3. \A o \in Obj : o \in Within(w, Outermost(w, o))
  BY <1>1 DEF Top, Within
<1> QED
  BY <1>1, <1>2, <1>3 DEF Top

----------------------------------------------------------------------------
\* Weights and numbers are numbers.

LEMMA ScaledIsNat ==
  ASSUME NEW a \in Nat, NEW b \in Nat
  PROVE  (a * b) \div 100 \in Nat
<1>1. a * b \in Nat
  OBVIOUS
<1>2. \A x \in Nat : x \div 100 \in Nat
  OBVIOUS
<1> QED
  BY <1>1, <1>2

\* What the things in p add to its weight, where f says what each weighs.
Loads(w, p, f) == [q \in Inside(w, p) |-> (f[q] * Mult[p]) \div 100]

\* The recursion of Heft.
Hefty(w, f) == f = [p \in Obj |-> Own[p] + SumFunction(Loads(w, p, f))]

LEMMA HeftDef ==
  ASSUME NEW w
  PROVE  Heft(w) = CHOOSE f : Hefty(w, f)
BY DEF Heft, Hefty, Loads

LEMMA LoadsAreNat ==
  ASSUME NEW w, NEW p \in Obj, NEW s, Inside(w, p) \subseteq s, NEW f \in [s -> Nat]
  PROVE  Loads(w, p, f) \in [Inside(w, p) -> Nat] /\ SumFunction(Loads(w, p, f)) \in Nat
<1>1. \A q \in Inside(w, p) : f[q] \in Nat /\ Mult[p] \in Nat
  BY ObjectsConstants
<1>2. \A q \in Inside(w, p) : (f[q] * Mult[p]) \div 100 \in Nat
  BY <1>1, ScaledIsNat
<1>3. Loads(w, p, f) \in [Inside(w, p) -> Nat]
  BY <1>2 DEF Loads
<1>4. IsFiniteSet(Inside(w, p))
  BY ObjsAreFinite DEF Inside
<1>5. SumFunctionOnSet(Loads(w, p, f), Inside(w, p)) \in Nat
  BY <1>3, <1>4, SumBound
<1> QED
  BY <1>3, <1>5 DEF SumFunction

\* f says what the objects of s weigh.
Weighed(w, s, f) ==
  f \in [s -> Nat] /\ \A p \in s : f[p] = Own[p] + SumFunction(Loads(w, p, f))

LEMMA HeftsAre ==
  ASSUME NEW w, Rooted(w)
  PROVE  /\ Heft(w) \in [Obj -> Nat]
         /\ \A p \in Obj : Heft(w)[p] = Own[p] + SumFunction(Loads(w, p, Heft(w)))
<1> DEFINE Closed(s) == \A p \in s : Inside(w, p) \subseteq s
           G == {s \in SUBSET Obj : Closed(s) => \E f : Weighed(w, s, f)}
<1>1. {} \in G
  <2>1. Weighed(w, {}, [p \in {} |-> 0])
    BY DEF Weighed
  <2> QED
    BY <2>1
<1>2. ASSUME NEW s \in SUBSET Obj, s # {}
      PROVE  \E x \in s : s \ {x} \in G => s \in G
  <2>1. PICK r \in s : w.at[r] \notin s
    BY <1>2 DEF Rooted
  <2>2. ASSUME s \ {r} \in G, Closed(s)
        PROVE  \E f : Weighed(w, s, f)
    <3> DEFINE t == s \ {r}
    <3>1. \A p \in s : Inside(w, p) \subseteq t
      BY <2>1, <2>2 DEF Inside
    <3>2. PICK f : Weighed(w, t, f)
      BY <2>2, <3>1
    <3> DEFINE g == [p \in s |-> IF p = r THEN Own[r] + SumFunction(Loads(w, r, f)) ELSE f[p]]
    <3>3. SumFunction(Loads(w, r, f)) \in Nat /\ Own[r] \in Nat
      BY <3>1, <3>2, LoadsAreNat, ObjectsConstants DEF Weighed
    <3>4. g \in [s -> Nat]
      BY <3>2, <3>3 DEF Weighed
    <3>5. \A p \in s : Loads(w, p, g) = Loads(w, p, f)
      <4> SUFFICES ASSUME NEW p \in s PROVE Loads(w, p, g) = Loads(w, p, f)
        OBVIOUS
      <4>1. \A q \in Inside(w, p) : g[q] = f[q]
        BY <3>1
      <4> HIDE DEF g
      <4> QED
        BY <4>1 DEF Loads
    <3>6. \A p \in s : g[p] = Own[p] + SumFunction(Loads(w, p, f))
      BY <3>2 DEF Weighed
    <3> HIDE DEF g
    <3>7. Weighed(w, s, g)
      BY <3>4, <3>5, <3>6 DEF Weighed
    <3> QED
      BY <3>7
  <2> QED
    BY <2>1, <2>2
<1> HIDE DEF G
<1>3. \A s \in SUBSET Obj : s \in G
  BY <1>1, <1>2, ObjsAreFinite, ElementInduction, Zenon
<1>4. Obj \in G
  BY <1>3
<1>5. Closed(Obj)
  BY DEF Inside
<1>6. PICK f : Weighed(w, Obj, f)
  BY <1>4, <1>5 DEF G
<1>7. Hefty(w, f)
  BY <1>6 DEF Hefty, Weighed
<1>8. Hefty(w, Heft(w))
  BY <1>7, HeftDef, Zenon
<1> DEFINE h == Heft(w)
<1>9. h = [p \in Obj |-> h[p]] /\ \A p \in Obj : h[p] = Own[p] + SumFunction(Loads(w, p, h))
  BY <1>8 DEF Hefty
<1> DEFINE N == {p \in Obj : h[p] \in Nat}
<1>10. ASSUME NEW p \in Obj, Inside(w, p) \subseteq N
       PROVE  p \in N
  <2> DEFINE k == [q \in Inside(w, p) |-> h[q]]
  <2>1. k \in [Inside(w, p) -> Nat]
    BY <1>10
  <2>2. Loads(w, p, k) = Loads(w, p, h)
    BY DEF Loads
  <2> HIDE DEF k, h
  <2>3. SumFunction(Loads(w, p, h)) \in Nat
    BY <2>1, <2>2, LoadsAreNat
  <2>4. Own[p] \in Nat
    BY ObjectsConstants
  <2> QED
    BY <1>9, <2>3, <2>4
<1> HIDE DEF N
<1>11. \A p \in Obj : p \in N
  BY <1>10, InwardInduction, Zenon
<1>12. \A p \in Obj : h[p] \in Nat
  BY <1>11 DEF N
<1> HIDE DEF h
<1>13. h \in [Obj -> Nat]
  BY <1>9, <1>12
<1> QED
  BY <1>9, <1>13 DEF h

LEMMA CountsAreNat ==
  ASSUME NEW w, Rooted(w), NEW o \in Obj
  PROVE  get_obj_number(w, o) \in Nat /\ get_obj_weight(w, o) \in Nat
<1>1. Within(w, o) \ Bag \in SUBSET Obj
  BY DEF Within
<1>2. get_obj_number(w, o) \in Nat
  BY <1>1, ObjsAreFinite, FS_CardinalityType DEF get_obj_number
<1> QED
  BY <1>2, HeftsAre DEF get_obj_weight

LEMMA SharesAreNat ==
  ASSUME NEW w, Rooted(w), NEW o \in Obj, NEW b \in Obj
  PROVE  Share(w, o, b) \in Nat
<1>1. get_obj_weight(w, o) \in Nat /\ Mult[Outermost(w, b)] \in Nat
  BY CountsAreNat, OutermostIs, ObjectsConstants
<1> QED
  BY <1>1, ScaledIsNat DEF Share

----------------------------------------------------------------------------
\* What every handler keeps, whatever it is in the middle of.

\* What is worn is carried, by nobody two lamps.
Carried(w) == \A o \in w.worn : w.at[o] \in Char
OneLamp(w) == \A p, q \in w.worn \cap Lamp : w.at[p] = w.at[q] => p = q

\* SeatsAreHere, of any world.
Seated(w) == \A c \in Char : w.on[c] # Nil => w.where[c] # Nil /\ w.at[w.on[c]] = w.where[c]

\* LightsCounted, of any world, where nobody logs in with a lamp.
Beams(w, r) == {c \in Char : w.where[c] = r /\ Shining(w, c) # {}}
Lights(w) == Lanterns = {} => \A r \in Room : w.light[r] = Cardinality(Beams(w, r))

\* Where one finds what an object is in, and the objects that count for c.
Home(w, p) == w.at[Outermost(w, p)]
Things(w, c) == {p \in Obj \ Bag : Home(w, p) = c}
Numbered(w) == \A c \in Char : w.number[c] = Cardinality(Things(w, c))

Fit(w) == w \in World /\ Rooted(w)

\* What Exactly is for: corpses lie, and what is in a bag that is in another
\* holds nothing unless it weighs in full.
Laid(w) == \A o \in Corpse : w.at[o] \in Room \cup {Nil}
Plain(w) == \A o \in Obj : w.at[o] \in Obj \ Corpse => Mult[o] = 100 \/ Inside(w, o) = {}

\* What an object adds to the weight of whoever carries it.
Part(o, b) == (Own[o] * Mult[b]) \div 100
Val(w, p) == IF w.at[p] \in Obj THEN Part(p, Outermost(w, p)) ELSE Own[p]
Burden(w, c) == [p \in Obj |-> IF Home(w, p) = c THEN Val(w, p) ELSE 0]
Heavy(w) ==
  Exactly => Laid(w) /\ Plain(w) /\ \A c \in Char : w.weight[c] = SumFunctionOnSet(Burden(w, c), Obj)

Sound(w) ==
  /\ Fit(w) /\ Carried(w) /\ OneLamp(w) /\ Seated(w) /\ Lights(w) /\ Numbered(w) /\ Heavy(w)

----------------------------------------------------------------------------
\* How places change.

LEMMA WorldIs ==
  ASSUME NEW w \in World
  PROVE  /\ w.at \in [Obj -> Room \cup Char \cup Obj \cup {Nil}] /\ w.worn \in SUBSET Obj
         /\ w.lit \in SUBSET Lamp /\ w.where \in [Char -> Room \cup {Nil}]
         /\ w.on \in [Char -> Seat \cup {Nil}] /\ w.number \in [Char -> Int]
         /\ w.weight \in [Char -> Int] /\ w.light \in [Room -> Int]
         /\ w.login \in [Char -> Room \cup Char \cup {Nil}]
BY DEF World

LEMMA LampsAndSeats == Lamp \subseteq Obj /\ Seat \subseteq Obj /\ Bag \subseteq Obj /\ Corpse \subseteq Obj
BY ObjectsConstants

\* An object moved to where it cannot hang on itself.
LEMMA RootedMove ==
  ASSUME NEW w, Fit(w), NEW o \in Obj, NEW x, x \in Obj => x # o /\ w.at[x] \notin Obj,
         NEW v, v.at = [w.at EXCEPT ![o] = x]
  PROVE  Rooted(v)
<1> SUFFICES ASSUME NEW S \in SUBSET Obj, S # {}
             PROVE  \E p \in S : v.at[p] \notin S
  BY DEF Rooted
<1>1. \A p \in Obj : v.at[p] = IF p = o THEN x ELSE w.at[p]
  BY WorldIs DEF Fit
<1>2. PICK p \in S : w.at[p] \notin S
  BY DEF Rooted, Fit
<1>3. CASE p # o
  BY <1>1, <1>2, <1>3
<1>4. CASE p = o /\ x \notin S
  BY <1>1, <1>4
<1>5. CASE p = o /\ x \in S
  BY <1>1, <1>5
<1> QED
  BY <1>3, <1>4, <1>5

\* Some objects taken out of the game.
LEMMA RootedLess ==
  ASSUME NEW w, Rooted(w), NEW v, \A p \in Obj : v.at[p] \in {w.at[p], Nil}
  PROVE  Rooted(v)
<1> SUFFICES ASSUME NEW S \in SUBSET Obj, S # {}
             PROVE  \E p \in S : v.at[p] \notin S
  BY DEF Rooted
<1>1. PICK p \in S : w.at[p] \notin S
  BY DEF Rooted
<1> QED
  BY <1>1, NamesDiffer

\* All that is within o has the same outermost holder.
LEMMA WithinSame ==
  ASSUME NEW w, Rooted(w), NEW o \in Obj
  PROVE  \A p \in Within(w, o) : Outermost(w, p) = Outermost(w, o)
<1> DEFINE G == {p \in Obj : p \in Within(w, o) => Outermost(w, p) = Outermost(w, o)}
<1>1. ASSUME NEW p \in Obj, w.at[p] \in Obj => w.at[p] \in G
      PROVE  p \in G
  BY <1>1, WithinAre, OutermostIs
<1> HIDE DEF G
<1>2. \A p \in Obj : p \in G
  BY <1>1, OutwardInduction, Zenon
<1> QED
  BY <1>2, WithinAre DEF G

\* What o holds moves with it, and nothing else.
Moved(w, v, o, x) == Rooted(w) /\ Rooted(v) /\ \A p \in Obj : v.at[p] = IF p = o THEN x ELSE w.at[p]

LEMMA MovedWithin ==
  ASSUME NEW w, NEW v, NEW o \in Obj, NEW x, Moved(w, v, o, x)
  PROVE  /\ Within(v, o) = Within(w, o)
         /\ \A p \in Obj \ Within(w, o) : Outermost(v, p) = Outermost(w, p) /\ Home(v, p) = Home(w, p)
         /\ \A p \in Within(w, o) : Outermost(v, p) = Outermost(v, o) /\ Home(v, p) = Home(v, o)
<1>0. Rooted(w) /\ Rooted(v) /\ \A p \in Obj : v.at[p] = IF p = o THEN x ELSE w.at[p]
  BY DEF Moved
<1> DEFINE A == {p \in Obj : p \in Within(v, o) <=> p \in Within(w, o)}
<1>1. ASSUME NEW p \in Obj, v.at[p] \in Obj => v.at[p] \in A
      PROVE  p \in A
  BY <1>0, <1>1, WithinAre
<1> HIDE DEF A
<1>2. \A p \in Obj : p \in A
  BY <1>0, <1>1, OutwardInduction, Zenon
<1>3. Within(v, o) = Within(w, o)
  BY <1>2, WithinAre DEF A
<1> DEFINE B == {p \in Obj : p \notin Within(w, o) => Outermost(v, p) = Outermost(w, p)}
<1>4. ASSUME NEW p \in Obj, w.at[p] \in Obj => w.at[p] \in B
      PROVE  p \in B
  <2> SUFFICES ASSUME p \notin Within(w, o) PROVE Outermost(v, p) = Outermost(w, p)
    OBVIOUS
  <2>1. p # o /\ (w.at[p] \in Obj => w.at[p] \notin Within(w, o))
    BY WithinAre
  <2>2. v.at[p] = w.at[p]
    BY <1>0, <2>1
  <2> QED
    BY <1>0, <1>4, <2>1, <2>2, OutermostIs
<1> HIDE DEF B
<1>5. \A p \in Obj : p \in B
  BY <1>0, <1>4, OutwardInduction, Zenon
<1>6. ASSUME NEW p \in Obj \ Within(w, o)
      PROVE  Outermost(v, p) = Outermost(w, p) /\ Home(v, p) = Home(w, p)
  <2>1. Outermost(v, p) = Outermost(w, p)
    BY <1>5 DEF B
  <2>2. Outermost(w, p) # o
    BY <1>0, OutermostIs, WithinAre
  <2> QED
    BY <1>0, <2>1, <2>2, OutermostIs DEF Home
<1>7. \A p \in Within(w, o) : Outermost(v, p) = Outermost(v, o) /\ Home(v, p) = Home(v, o)
  BY <1>0, <1>3, WithinSame DEF Home
<1> QED
  BY <1>3, <1>6, <1>7

----------------------------------------------------------------------------
\* What is within what, closer.

\* What is within something within o is within o.
LEMMA WithinWithin ==
  ASSUME NEW w, Rooted(w), NEW o \in Obj, NEW q \in Within(w, o)
  PROVE  Within(w, q) \subseteq Within(w, o)
<1> DEFINE G == {p \in Obj : p \in Within(w, q) => p \in Within(w, o)}
<1>0. q \in Obj
  BY WithinAre
<1>1. ASSUME NEW p \in Obj, w.at[p] \in Obj => w.at[p] \in G
      PROVE  p \in G
  BY <1>0, <1>1, WithinAre
<1> HIDE DEF G
<1>2. \A p \in Obj : p \in G
  BY <1>1, OutwardInduction, Zenon
<1> QED
  BY <1>0, <1>2, WithinAre DEF G

\* Nothing hangs on what is within it.
LEMMA NoLoop ==
  ASSUME NEW w, Rooted(w), NEW o \in Obj
  PROVE  w.at[o] \notin Within(w, o)
<1> SUFFICES ASSUME w.at[o] \in Within(w, o) PROVE FALSE
  OBVIOUS
<1> DEFINE S == {p \in Within(w, o) : o \in Within(w, p)}
<1>1. o \in S /\ S \in SUBSET Obj
  BY WithinAre
<1>2. PICK p \in S : w.at[p] \notin S
  BY <1>1 DEF Rooted
<1>3. p \in Obj /\ o \in Within(w, p)
  BY <1>1, <1>2
<1>4. CASE p = o
  <2>1. w.at[o] \in Obj
    BY WithinAre
  <2>2. o \in Within(w, w.at[o])
    BY <2>1, WithinAre
  <2> QED
    BY <1>2, <1>4, <2>2
<1>5. CASE p # o
  <2>1. w.at[p] \in Obj /\ w.at[p] \in Within(w, o)
    BY <1>2, <1>3, <1>5, WithinAre
  <2>2. p \in Within(w, w.at[p])
    BY <1>3, <2>1, WithinAre
  <2>3. o \in Within(w, w.at[p])
    BY <1>3, <2>1, <2>2, WithinWithin
  <2> QED
    BY <1>2, <2>1, <2>3
<1> QED
  BY <1>4, <1>5

\* What is in o, each with all within it: parts of o that are apart.
LEMMA PartsOf ==
  ASSUME NEW w, Rooted(w), NEW o \in Obj
  PROVE  /\ \A q \in Inside(w, o) : Within(w, q) \in SUBSET Within(w, o) /\ o \notin Within(w, q)
         /\ \A q, r \in Inside(w, o) : q # r => Within(w, q) \cap Within(w, r) = {}
         /\ Within(w, o) = {o} \cup UNION {Within(w, q) : q \in Inside(w, o)}
<1>1. ASSUME NEW q \in Inside(w, o)
      PROVE  q \in Obj /\ w.at[q] = o /\ Within(w, q) \in SUBSET Within(w, o) /\ o \notin Within(w, q)
  <2>1. q \in Obj /\ w.at[q] = o
    BY DEF Inside
  <2>2. q \in Within(w, o)
    BY <2>1, WithinAre
  <2> QED
    BY <2>1, <2>2, WithinWithin, NoLoop
<1>2. ASSUME NEW q \in Inside(w, o), NEW r \in Inside(w, o), q # r
      PROVE  Within(w, q) \cap Within(w, r) = {}
  <2> DEFINE G == {p \in Obj : p \notin Within(w, q) \cap Within(w, r)}
  <2>1. ASSUME NEW p \in Obj, w.at[p] \in Obj => w.at[p] \in G
        PROVE  p \in G
    <3>1. q \in Obj /\ r \in Obj /\ w.at[q] = o /\ w.at[r] = o /\ o \notin Within(w, q) /\ o \notin Within(w, r)
      BY <1>1
    <3>2. \A x \in {q, r} : p \in Within(w, x) <=> p = x \/ (w.at[p] \in Obj /\ w.at[p] \in Within(w, x))
      BY <3>1, WithinAre
    <3> QED
      BY <1>2, <2>1, <3>1, <3>2
  <2> HIDE DEF G
  <2>2. \A p \in Obj : p \in G
    BY <2>1, OutwardInduction, Zenon
  <2>3. Within(w, q) \subseteq Obj
    BY DEF Within
  <2> QED
    BY <2>2, <2>3 DEF G
<1>3. Within(w, o) = {o} \cup UNION {Within(w, q) : q \in Inside(w, o)}
  <2> DEFINE T == {o} \cup UNION {Within(w, q) : q \in Inside(w, o)}
             G == {p \in Obj : p \in Within(w, o) => p \in T}
  <2>1. ASSUME NEW p \in Obj, w.at[p] \in Obj => w.at[p] \in G
        PROVE  p \in G
    <3> SUFFICES ASSUME p \in Within(w, o) PROVE p \in T
      OBVIOUS
    <3>1. CASE p = o
      BY <3>1
    <3>2. CASE p # o /\ w.at[p] = o
      BY <3>2, WithinAre DEF Inside
    <3>3. CASE p # o /\ w.at[p] # o
      <4>1. w.at[p] \in Obj /\ w.at[p] \in Within(w, o)
        BY <3>3, WithinAre
      <4>2. PICK q \in Inside(w, o) : w.at[p] \in Within(w, q)
        BY <2>1, <3>3, <4>1
      <4>3. p \in Within(w, q)
        BY <1>1, <4>1, <4>2, WithinAre
      <4> QED
        BY <4>3
    <3> QED
      BY <3>1, <3>2, <3>3
  <2>2. T \subseteq Within(w, o)
    BY <1>1, WithinAre
  <2> HIDE DEF G
  <2>3. \A p \in Obj : p \in G
    BY <2>1, OutwardInduction, Zenon
  <2>4. Within(w, o) \subseteq Obj
    BY DEF Within
  <2> QED
    BY <2>2, <2>3, <2>4 DEF G
<1> QED
  BY <1>1, <1>2, <1>3

\* What holds nothing is all that is within it.
LEMMA NothingInside ==
  ASSUME NEW w, Rooted(w), NEW o \in Obj, Inside(w, o) = {}
  PROVE  Within(w, o) = {o}
BY PartsOf

----------------------------------------------------------------------------
\* Weights that come out even.

\* A multiple of what things weigh, rounded down, is that of each.
LEMMA Divided ==
  ASSUME NEW m \in Nat, \A o \in Obj : (Own[o] * m) % 100 = 0, NEW A \in SUBSET Obj,
         NEW f \in [Obj -> Int], \A o \in Obj : f[o] = (Own[o] * m) \div 100
  PROVE  /\ SumFunctionOnSet(Own, A) \in Nat /\ SumFunctionOnSet(f, A) \in Nat
         /\ (SumFunctionOnSet(Own, A) * m) \div 100 = SumFunctionOnSet(f, A)
<1>1. \A o \in Obj : Own[o] \in Nat /\ f[o] \in Nat /\ Own[o] * m = 100 * f[o]
  <2> SUFFICES ASSUME NEW o \in Obj PROVE Own[o] \in Nat /\ f[o] \in Nat /\ Own[o] * m = 100 * f[o]
    OBVIOUS
  <2>1. Own[o] \in Nat /\ Own[o] * m \in Nat
    BY ObjectsConstants
  <2>2. \A k \in Nat : k % 100 = 0 => k = 100 * (k \div 100) /\ k \div 100 \in Nat
    OBVIOUS
  <2> QED
    BY <2>1, <2>2
<1>2. Own \in [Obj -> Nat] /\ f \in [Obj -> Nat] /\ Own \in [Obj -> Int]
  <2>1. f = [o \in Obj |-> f[o]]
    OBVIOUS
  <2>2. Own \in [Obj -> Nat]
    BY ObjectsConstants
  <2> QED
    BY <1>1, <2>1, <2>2
<1> DEFINE G == {s \in SUBSET A : SumFunctionOnSet(Own, s) * m = 100 * SumFunctionOnSet(f, s)}
<1>3. {} \in G
  <2>1. SumFunctionOnSet(Own, {}) = 0 /\ SumFunctionOnSet(f, {}) = 0
    BY <1>2, ObjsAreFinite, SumType
  <2> QED
    BY <2>1
<1>4. ASSUME NEW s \in SUBSET A, s # {}
      PROVE  \E x \in s : s \ {x} \in G => s \in G
  <2>1. PICK x \in s : TRUE
    BY <1>4
  <2>2. IsFiniteSet(s) /\ IsFiniteSet(s \ {x})
    BY ObjsAreFinite
  <2>3. SumFunctionOnSet(Own, s) = Own[x] + SumFunctionOnSet(Own, s \ {x})
    BY <1>2, <2>2, SumStep
  <2>4. SumFunctionOnSet(f, s) = f[x] + SumFunctionOnSet(f, s \ {x})
    BY <1>2, <2>2, SumStep
  <2>5. SumFunctionOnSet(Own, s \ {x}) \in Int /\ SumFunctionOnSet(f, s \ {x}) \in Int
    BY <1>2, <2>2, SumType
  <2>6. ASSUME s \ {x} \in G
        PROVE  s \in G
    <3>1. \A a, b \in Int : (a + b) * m = a * m + b * m
      OBVIOUS
    <3>2. SumFunctionOnSet(Own, s \ {x}) * m = 100 * SumFunctionOnSet(f, s \ {x})
      BY <2>6
    <3>3. (Own[x] + SumFunctionOnSet(Own, s \ {x})) * m = Own[x] * m + SumFunctionOnSet(Own, s \ {x}) * m
      BY <1>1, <2>5, <3>1
    <3>4. SumFunctionOnSet(Own, s) * m = 100 * SumFunctionOnSet(f, s)
      BY <1>1, <2>3, <2>4, <2>5, <3>2, <3>3
    <3> QED
      BY <3>4
  <2> QED
    BY <2>6
<1> HIDE DEF G
<1>5. \A s \in SUBSET A : s \in G
  BY <1>3, <1>4, ObjsAreFinite, ElementInduction, Zenon
<1>6. SumFunctionOnSet(Own, A) * m = 100 * SumFunctionOnSet(f, A)
  BY <1>5 DEF G
<1>7. SumFunctionOnSet(Own, A) \in Nat /\ SumFunctionOnSet(f, A) \in Nat
  BY <1>2, ObjsAreFinite, SumBound
<1>8. \A a \in Nat : (100 * a) \div 100 = a
  OBVIOUS
<1> QED
  BY <1>6, <1>7, <1>8

\* What an object holds, summed by what lies in it and by what is within that.
LEMMA SumWithin ==
  ASSUME NEW w, Rooted(w), NEW o \in Obj, NEW f \in [Obj -> Int],
         NEW F \in [Inside(w, o) -> Int], \A q \in Inside(w, o) : F[q] = SumFunctionOnSet(f, Within(w, q))
  PROVE  SumFunctionOnSet(f, Within(w, o)) = f[o] + SumFunction(F)
<1> DEFINE T == Inside(w, o)
           P == [q \in T |-> Within(w, q)]
           A == Within(w, o)
<1>1. A \in SUBSET Obj /\ T \in SUBSET Obj /\ P \in [T -> SUBSET Obj]
  BY DEF Within, Inside
<1>2. IsFiniteSet(A) /\ IsFiniteSet(T) /\ IsFiniteSet(Obj)
  BY <1>1, ObjsAreFinite
<1>3. \A x, y \in T : x # y => P[x] \cap P[y] = {}
  BY PartsOf
<1>4. A = {o} \cup UNION {P[q] : q \in T} /\ o \notin UNION {P[q] : q \in T}
  BY PartsOf
<1>5. \A q \in T : F[q] = SumFunctionOnSet(f, P[q])
  OBVIOUS
<1> HIDE DEF T, P, A
<1>6. SumFunctionOnSet(F, T) = SumFunctionOnSet(f, UNION {P[q] : q \in T})
  BY <1>1, <1>2, <1>3, <1>5, SumOfParts DEF T
<1>7. SumFunctionOnSet(f, A) = f[o] + SumFunctionOnSet(f, A \ {o}) /\ A \ {o} = UNION {P[q] : q \in T}
  BY <1>1, <1>2, <1>4, SumStep
<1>8. SumFunction(F) = SumFunctionOnSet(F, T)
  BY DEF SumFunction, T
<1> QED
  BY <1>6, <1>7, <1>8 DEF A

\* What weighs its own weight wherever it is: nothing in it is made lighter.
Bare(w, o) == Mult[o] = 100 \/ Inside(w, o) = {}

\* Such a thing weighs what it is made of, if all that it holds does.
LEMMA BareWeighs ==
  ASSUME NEW w, Rooted(w), NEW o \in Obj, Bare(w, o),
         \A q \in Inside(w, o) : Heft(w)[q] = SumFunctionOnSet(Own, Within(w, q))
  PROVE  Heft(w)[o] = SumFunctionOnSet(Own, Within(w, o))
<1> DEFINE F == [q \in Inside(w, o) |-> Heft(w)[q]]
<1>0. Own \in [Obj -> Int] /\ Heft(w) \in [Obj -> Nat] /\ Inside(w, o) \in SUBSET Obj
  BY HeftsAre, ObjectsConstants DEF Inside
<1>1. F \in [Inside(w, o) -> Int]
  BY <1>0
<1>2. \A q \in Inside(w, o) : F[q] = SumFunctionOnSet(Own, Within(w, q))
  OBVIOUS
<1>3. Loads(w, o, Heft(w)) = F
  <2>1. CASE Inside(w, o) = {}
    BY <2>1 DEF Loads
  <2>2. CASE Mult[o] = 100
    <3>1. \A k \in Nat : (k * 100) \div 100 = k
      OBVIOUS
    <3>2. \A q \in Inside(w, o) : (Heft(w)[q] * Mult[o]) \div 100 = Heft(w)[q]
      BY <1>0, <2>2, <3>1
    <3> QED
      BY <3>2 DEF Loads
  <2> QED
    BY <2>1, <2>2 DEF Bare
<1> HIDE DEF F
<1>4. SumFunctionOnSet(Own, Within(w, o)) = Own[o] + SumFunction(F)
  BY <1>0, <1>1, <1>2, SumWithin
<1> QED
  BY <1>3, <1>4, HeftsAre

\* As everything that lies in something but a corpse does.
LEMMA InnerWeighs ==
  ASSUME NEW w, Rooted(w), Plain(w), Laid(w)
  PROVE  \A o \in Obj : w.at[o] \in Obj /\ Outermost(w, o) \notin Corpse
            => Heft(w)[o] = SumFunctionOnSet(Own, Within(w, o))
<1> DEFINE G == {o \in Obj : w.at[o] \in Obj /\ Outermost(w, o) \notin Corpse
                    => Heft(w)[o] = SumFunctionOnSet(Own, Within(w, o))}
<1>1. ASSUME NEW o \in Obj, Inside(w, o) \subseteq G
      PROVE  o \in G
  <2> SUFFICES ASSUME w.at[o] \in Obj, Outermost(w, o) \notin Corpse
               PROVE  Heft(w)[o] = SumFunctionOnSet(Own, Within(w, o))
    OBVIOUS
  <2>1. \A q \in Inside(w, o) : q \in Obj /\ w.at[q] = o
    BY DEF Inside
  <2>2. \A q \in Inside(w, o) : Outermost(w, q) = Outermost(w, o)
    BY <2>1, OutermostIs
  <2>3. w.at[o] \notin Corpse
    <3> SUFFICES ASSUME w.at[o] \in Corpse PROVE FALSE
      OBVIOUS
    <3>1. w.at[w.at[o]] \notin Obj
      BY NamesDiffer DEF Laid
    <3> QED
      BY <3>1, OutermostIs
  <2>4. Bare(w, o)
    BY <2>3 DEF Plain, Bare
  <2>5. \A q \in Inside(w, o) : Heft(w)[q] = SumFunctionOnSet(Own, Within(w, q))
    BY <1>1, <2>1, <2>2
  <2> QED
    BY <2>4, <2>5, BareWeighs
<1> HIDE DEF G
<1>2. \A o \in Obj : o \in G
  BY <1>1, InwardInduction, Zenon
<1> QED
  BY <1>2 DEF G

\* A plain thing put into b weighs, in the hand that holds t, b's outermost
\* holder, what each of its parts does.
LEMMA SharesAre ==
  ASSUME NEW w, Rooted(w), Exactly, NEW o \in Obj, NEW t \in Obj,
         Heft(w)[o] = SumFunctionOnSet(Own, Within(w, o)),
         NEW f \in [Obj -> Int], \A p \in Within(w, o) : f[p] = Part(p, t)
  PROVE  (get_obj_weight(w, o) * Mult[t]) \div 100 = SumFunctionOnSet(f, Within(w, o))
<1> DEFINE g == [p \in Obj |-> (Own[p] * Mult[t]) \div 100]
<1>1. Mult[t] \in Nat /\ \A p \in Obj : Own[p] \in Nat /\ (Own[p] * Mult[t]) % 100 = 0
  BY ObjectsConstants DEF Exactly
<1>2. \A p \in Obj : (Own[p] * Mult[t]) \div 100 \in Nat
  BY <1>1, ScaledIsNat
<1>3. g \in [Obj -> Int] /\ \A p \in Obj : g[p] = (Own[p] * Mult[t]) \div 100
  BY <1>2
<1>4. Within(w, o) \in SUBSET Obj
  BY DEF Within
<1>5. \A p \in Within(w, o) : g[p] = f[p]
  BY <1>4 DEF Part
<1> HIDE DEF g
<1>6. (SumFunctionOnSet(Own, Within(w, o)) * Mult[t]) \div 100 = SumFunctionOnSet(g, Within(w, o))
  BY <1>1, <1>3, <1>4, Divided
<1>7. SumFunctionOnSet(g, Within(w, o)) = SumFunctionOnSet(f, Within(w, o))
  BY <1>3, <1>4, <1>5, ObjsAreFinite, SumSame
<1> QED
  BY <1>6, <1>7 DEF get_obj_weight

\* What hangs on no object weighs what its parts do in it.
LEMMA OuterWeighs ==
  ASSUME NEW w, Rooted(w), Exactly, Plain(w), Laid(w), NEW o \in Obj, w.at[o] \notin Obj, o \notin Corpse,
         NEW f \in [Obj -> Int], \A p \in Within(w, o) : f[p] = IF p = o THEN Own[p] ELSE Part(p, o)
  PROVE  get_obj_weight(w, o) = SumFunctionOnSet(f, Within(w, o))
<1> DEFINE F == Loads(w, o, Heft(w))
<1>1. \A q \in Inside(w, o) : q \in Obj /\ w.at[q] = o /\ q \in Within(w, o) /\ Outermost(w, q) = o
  BY OutermostIs, WithinAre DEF Inside
<1>2. F \in [Inside(w, o) -> Nat]
  <2> DEFINE H == Heft(w)
  <2>1. H \in [Obj -> Nat] /\ Inside(w, o) \subseteq Obj
    BY HeftsAre DEF Inside
  <2> HIDE DEF H
  <2>2. Loads(w, o, H) \in [Inside(w, o) -> Nat]
    BY <2>1, LoadsAreNat
  <2> QED
    BY <2>2 DEF H
<1>3. F \in [Inside(w, o) -> Int]
  BY <1>2
<1>4. ASSUME NEW q \in Inside(w, o)
      PROVE  F[q] = SumFunctionOnSet(f, Within(w, q))
  <2>1. Heft(w)[q] = SumFunctionOnSet(Own, Within(w, q))
    BY <1>1, InnerWeighs
  <2>2. \A p \in Within(w, q) : f[p] = Part(p, o)
    BY PartsOf
  <2>3. (get_obj_weight(w, q) * Mult[o]) \div 100 = SumFunctionOnSet(f, Within(w, q))
    BY <1>1, <2>1, <2>2, SharesAre
  <2> QED
    BY <2>3 DEF Loads, get_obj_weight
<1>5. f[o] = Own[o]
  BY WithinAre
<1> HIDE DEF F
<1>6. SumFunctionOnSet(f, Within(w, o)) = f[o] + SumFunction(F)
  BY <1>3, <1>4, SumWithin
<1>7. Heft(w)[o] = Own[o] + SumFunction(F)
  BY HeftsAre DEF F
<1> QED
  BY <1>5, <1>6, <1>7 DEF get_obj_weight

----------------------------------------------------------------------------
\* The books of a carrier when an object moves.

\* What o counts for d, and weighs in the hands of d.
Count(w, o, d) == IF Home(w, o) = d THEN get_obj_number(w, o) ELSE 0
Weight(w, o, d) == SumFunctionOnSet(Burden(w, d), Within(w, o))

LEMMA BurdensAre ==
  ASSUME NEW w, Rooted(w), NEW d
  PROVE  Burden(w, d) \in [Obj -> Nat] /\ Burden(w, d) \in [Obj -> Int]
<1>1. \A p, b \in Obj : Part(p, b) \in Nat
  BY ScaledIsNat, ObjectsConstants DEF Part
<1>2. \A p \in Obj : Val(w, p) \in Nat
  BY <1>1, OutermostIs, ObjectsConstants DEF Val
<1>3. Burden(w, d) \in [Obj -> Nat]
  BY <1>2 DEF Burden
<1> QED
  BY <1>3

LEMMA WeightsAre ==
  ASSUME NEW w, Rooted(w), NEW d, NEW o \in Obj
  PROVE  Weight(w, o, d) \in Int /\ (Home(w, o) # d => Weight(w, o, d) = 0)
<1> DEFINE f == Burden(w, d)
           A == Within(w, o)
           g == [p \in Obj |-> 0]
<1>1. f \in [Obj -> Int] /\ A \in SUBSET Obj /\ g \in [Obj -> Int]
  BY BurdensAre DEF Within
<1>2. Home(w, o) # d => \A p \in A : f[p] = g[p]
  <2>1. \A p \in A : Home(w, p) = Home(w, o)
    BY WithinSame DEF Home
  <2> QED
    BY <1>1, <2>1 DEF Burden
<1>3. \A p \in Obj : g[p] = IF p \in {} THEN 1 ELSE 0
  OBVIOUS
<1>4. \A p \in A : g[p] = IF p \in {} THEN 1 ELSE 0
  BY <1>1
<1>5. IsFiniteSet(A)
  BY <1>1, ObjsAreFinite
<1> DEFINE k == [p \in A |-> 0]
<1>6. k \in [A -> Int] /\ \A p \in A : k[p] = IF p \in {} THEN 1 ELSE 0
  OBVIOUS
<1>7. \A p \in A : k[p] = g[p]
  BY <1>1
<1> HIDE DEF f, A, g, k
<1>8. SumFunctionOnSet(k, A) = 1 * Cardinality({})
  <2>1. {} \in SUBSET A /\ 1 \in Nat
    OBVIOUS
  <2> QED
    BY <1>5, <1>6, <2>1, SumOfEqual
<1>9. SumFunctionOnSet(k, A) = 0
  BY <1>8, FS_EmptySet
<1>10. SumFunctionOnSet(f, A) \in Int
  BY <1>1, <1>5, SumType
<1>11. Home(w, o) # d => SumFunctionOnSet(f, A) = SumFunctionOnSet(k, A)
  <2> SUFFICES ASSUME Home(w, o) # d PROVE SumFunctionOnSet(f, A) = SumFunctionOnSet(k, A)
    OBVIOUS
  <2>1. \A p \in A : f[p] = k[p]
    BY <1>2, <1>7
  <2> QED
    BY <1>1, <1>5, <1>6, <2>1, SumSame
<1> QED
  BY <1>9, <1>10, <1>11 DEF Weight, f, A

\* How many things count for d.
LEMMA Tally ==
  ASSUME NEW w, NEW v, NEW o \in Obj, NEW x, Moved(w, v, o, x), NEW d
  PROVE  /\ Cardinality(Things(v, d)) = Cardinality(Things(w, d)) - Count(w, o, d) + Count(v, o, d)
         /\ Count(w, o, d) \in Nat /\ Count(v, o, d) \in Nat
         /\ get_obj_number(v, o) = get_obj_number(w, o)
<1> DEFINE A == Within(w, o) \ Bag
           R == Things(w, d) \ A
<1>0. Rooted(w) /\ Rooted(v) /\ Within(v, o) = Within(w, o)
  BY MovedWithin DEF Moved
<1>1. A \in SUBSET Obj /\ R \in SUBSET Obj
  BY DEF Within, Things
<1>2. \A p \in A : Home(w, p) = Home(w, o) /\ Home(v, p) = Home(v, o) /\ p \in Obj \ Bag
  BY <1>0, <1>1, WithinSame, MovedWithin DEF Home
<1>3. \A p \in Obj \ Within(w, o) : Home(v, p) = Home(w, p)
  BY MovedWithin
<1>4. Things(w, d) = R \cup (IF Home(w, o) = d THEN A ELSE {})
  BY <1>1, <1>2 DEF Things
<1>5. Things(v, d) = R \cup (IF Home(v, o) = d THEN A ELSE {})
  BY <1>1, <1>2, <1>3 DEF Things
<1>6. R \cap A = {} /\ R \cap {} = {} /\ IsFiniteSet(R) /\ IsFiniteSet(A) /\ IsFiniteSet({})
  BY <1>1, ObjsAreFinite
<1>7. get_obj_number(w, o) = Cardinality(A) /\ get_obj_number(v, o) = Cardinality(A)
  BY <1>0 DEF get_obj_number
<1> HIDE DEF A, R
<1>8. Cardinality(R) \in Nat /\ Cardinality(A) \in Nat /\ Cardinality({}) = 0
  BY <1>6, FS_CardinalityType, FS_EmptySet
<1>9. Cardinality(R \cup A) = Cardinality(R) + Cardinality(A)
  <2>1. Cardinality(R \cup A) = Cardinality(R) + Cardinality(A) - Cardinality(R \cap A)
    BY <1>6, FS_Union
  <2>2. Cardinality(R \cap A) = 0
    BY <1>6, <1>8
  <2> QED
    BY <1>8, <2>1, <2>2
<1>10. Cardinality(R \cup {}) = Cardinality(R)
  <2>1. R \cup {} = R
    OBVIOUS
  <2> QED
    BY <2>1
<1>11. Cardinality(Things(w, d)) = Cardinality(R) + Count(w, o, d) /\ Count(w, o, d) \in Nat
  BY <1>4, <1>7, <1>8, <1>9, <1>10 DEF Count
<1>12. Cardinality(Things(v, d)) = Cardinality(R) + Count(v, o, d) /\ Count(v, o, d) \in Nat
  <2>1. CASE Home(v, o) = d
    BY <1>5, <1>7, <1>8, <1>9, <2>1 DEF Count
  <2>2. CASE Home(v, o) # d
    BY <1>5, <1>8, <1>10, <2>2 DEF Count
  <2> QED
    BY <2>1, <2>2
<1> QED
  BY <1>7, <1>8, <1>11, <1>12

\* What they weigh.
LEMMA Ledger ==
  ASSUME NEW w, NEW v, NEW o \in Obj, NEW x, Moved(w, v, o, x), NEW d
  PROVE  SumFunctionOnSet(Burden(v, d), Obj)
           = SumFunctionOnSet(Burden(w, d), Obj) - Weight(w, o, d) + Weight(v, o, d)
<1> DEFINE f == Burden(w, d)
           h == Burden(v, d)
           A == Within(w, o)
<1>0. Rooted(w) /\ Rooted(v) /\ Within(v, o) = A
  BY MovedWithin DEF Moved
<1>1. f \in [Obj -> Int] /\ h \in [Obj -> Int] /\ A \in SUBSET Obj /\ IsFiniteSet(Obj)
  BY <1>0, BurdensAre, ObjsAreFinite DEF Within
<1>2. \A p \in Obj \ A : Home(v, p) = Home(w, p) /\ Outermost(v, p) = Outermost(w, p) /\ v.at[p] = w.at[p]
  <2>1. \A p \in Obj \ A : p # o
    BY WithinAre
  <2> QED
    BY <2>1, MovedWithin DEF Moved
<1>3. \A p \in Obj \ A : h[p] = f[p]
  BY <1>2 DEF Burden, Val
<1> HIDE DEF f, h, A
<1>4. SumFunctionOnSet(h, Obj) = SumFunctionOnSet(f, Obj) - SumFunctionOnSet(f, A) + SumFunctionOnSet(h, A)
  BY <1>1, <1>3, SumReplaced
<1> QED
  BY <1>0, <1>4 DEF f, h, A, Weight

\* In hand.
LEMMA HandWeighs ==
  ASSUME NEW w, NEW v, NEW o \in Obj, NEW d \in Char, Moved(w, v, o, d), Exactly, Plain(w), Laid(w),
         w.at[o] \notin Obj, o \notin Corpse
  PROVE  Weight(v, o, d) = get_obj_weight(w, o)
<1> DEFINE f == Burden(v, d)
<1>0. Rooted(w) /\ Rooted(v) /\ Within(v, o) = Within(w, o) /\ v.at[o] = d /\ d \notin Obj
  BY MovedWithin, NamesDiffer DEF Moved
<1>1. f \in [Obj -> Int]
  BY <1>0, BurdensAre
<1>2. Outermost(v, o) = o /\ Home(v, o) = d
  BY <1>0, OutermostIs DEF Home
<1>3. ASSUME NEW p \in Within(w, o)
      PROVE  f[p] = IF p = o THEN Own[p] ELSE Part(p, o)
  <2>1. p \in Obj /\ Outermost(v, p) = o /\ Home(v, p) = d
    BY <1>0, <1>2, WithinAre, MovedWithin
  <2>2. p # o => v.at[p] \in Obj
    BY <1>0, WithinAre
  <2> QED
    BY <1>0, <2>1, <2>2 DEF Burden, Val
<1> HIDE DEF f
<1>4. get_obj_weight(w, o) = SumFunctionOnSet(f, Within(w, o))
  BY <1>0, <1>1, <1>3, OuterWeighs
<1> QED
  BY <1>0, <1>4 DEF Weight, f

\* In something.
LEMMA BagWeighs ==
  ASSUME NEW w, NEW v, NEW o \in Obj, NEW b \in Obj, Moved(w, v, o, b), Exactly,
         Heft(w)[o] = SumFunctionOnSet(Own, Within(w, o))
  PROVE  /\ Outermost(v, b) = Outermost(w, b) /\ Home(v, o) = Home(w, b)
         /\ Weight(v, o, Home(w, b)) = Share(w, o, b)
<1> DEFINE d == Home(w, b)
           f == Burden(v, d)
           t == Outermost(w, b)
<1>0. Rooted(w) /\ Rooted(v) /\ Within(v, o) = Within(w, o) /\ v.at[o] = b
  BY MovedWithin DEF Moved
<1>A. \A p \in Obj \ Within(w, o) : Outermost(v, p) = Outermost(w, p) /\ Home(v, p) = Home(w, p)
  BY MovedWithin
<1>B. \A p \in Within(w, o) : Outermost(v, p) = Outermost(v, o) /\ Home(v, p) = Home(v, o)
  BY <1>0, WithinSame DEF Home
<1>1. f \in [Obj -> Int] /\ t \in Obj
  BY <1>0, BurdensAre, OutermostIs
<1>2. b \notin Within(w, o)
  BY <1>0, NoLoop
<1>3. Outermost(v, b) = t /\ Home(v, b) = d
  BY <1>A, <1>2
<1>4. Outermost(v, o) = t /\ Home(v, o) = d
  BY <1>0, <1>3, OutermostIs DEF Home
<1> HIDE DEF d, f, t
<1>5. ASSUME NEW p \in Within(w, o)
      PROVE  f[p] = Part(p, t)
  <2>0. p \in Obj
    BY DEF Within
  <2>1. Outermost(v, p) = t /\ Home(v, p) = d
    BY <1>B, <1>4
  <2>2. v.at[p] \in Obj
    BY <1>0, <2>0, WithinAre
  <2> QED
    BY <1>0, <2>0, <2>1, <2>2 DEF Burden, Val, f
<1>6. (get_obj_weight(w, o) * Mult[t]) \div 100 = SumFunctionOnSet(f, Within(w, o))
  BY <1>0, <1>1, <1>5, SharesAre
<1> QED
  BY <1>0, <1>3, <1>4, <1>6 DEF Weight, Share, d, f, t

----------------------------------------------------------------------------
\* An object o that nobody wears goes to x, and the books are kept.

Shifts(w, v, o, x) ==
  /\ v \in World /\ v.at = [w.at EXCEPT ![o] = x]
  /\ v.worn = w.worn /\ v.lit = w.lit /\ v.where = w.where /\ v.light = w.light
  /\ \A c \in Char : v.on[c] # o /\ v.on[c] \in {w.on[c], Nil}
  /\ \A d \in Char : v.number[d] = w.number[d] - Count(w, o, d) + Count(v, o, d)
  /\ Exactly => /\ o \in Corpse => x \in Room \cup {Nil}
                /\ x \in Obj \ Corpse => Bare(w, o)
                /\ \A d \in Char : v.weight[d] = w.weight[d] - Weight(w, o, d) + Weight(v, o, d)

LEMMA Shift ==
  ASSUME NEW w, Sound(w), NEW o \in Obj, o \notin w.worn,
         NEW x, x \in Obj => x # o /\ w.at[x] \notin Obj,
         NEW v, Shifts(w, v, o, x)
  PROVE  Sound(v) /\ Moved(w, v, o, x)
<1>0. Fit(w) /\ Carried(w) /\ OneLamp(w) /\ Seated(w) /\ Lights(w) /\ Numbered(w) /\ Heavy(w)
  BY DEF Sound
<1>1. /\ v \in World /\ v.at = [w.at EXCEPT ![o] = x]
      /\ v.worn = w.worn /\ v.lit = w.lit /\ v.where = w.where /\ v.light = w.light
  BY DEF Shifts
<1>2. \A p \in Obj : v.at[p] = IF p = o THEN x ELSE w.at[p]
  BY <1>0, <1>1, WorldIs DEF Fit
<1>3. Rooted(v) /\ Moved(w, v, o, x)
  BY <1>0, <1>1, <1>2, RootedMove DEF Moved, Fit
<1>4. Fit(v)
  BY <1>1, <1>3 DEF Fit
<1>5. w.worn \in SUBSET Obj /\ w.lit \in SUBSET Lamp /\ \A p \in w.worn : p # o /\ v.at[p] = w.at[p]
  BY <1>0, <1>2, WorldIs DEF Fit
<1>6. Carried(v) /\ OneLamp(v)
  BY <1>0, <1>1, <1>5 DEF Carried, OneLamp
<1>7. Seated(v)
  <2> SUFFICES ASSUME NEW c \in Char, v.on[c] # Nil
               PROVE  v.where[c] # Nil /\ v.at[v.on[c]] = v.where[c]
    BY DEF Seated
  <2>1. v.on[c] # o /\ v.on[c] = w.on[c]
    BY DEF Shifts
  <2>2. v.on[c] \in Obj
    BY <1>1, WorldIs, LampsAndSeats
  <2> QED
    BY <1>0, <1>1, <1>2, <2>1, <2>2 DEF Seated
<1>8. Lights(v)
  <2>1. \A c : Shining(v, c) = Shining(w, c)
    BY <1>1, <1>5 DEF Shining, Inside
  <2>2. \A r : Beams(v, r) = Beams(w, r)
    BY <1>1, <2>1 DEF Beams
  <2> QED
    BY <1>0, <1>1, <2>2 DEF Lights
<1>9. Numbered(v)
  <2> SUFFICES ASSUME NEW d \in Char PROVE v.number[d] = Cardinality(Things(v, d))
    BY DEF Numbered
  <2>1. v.number[d] = w.number[d] - Count(w, o, d) + Count(v, o, d)
    BY DEF Shifts
  <2>2. w.number[d] = Cardinality(Things(w, d))
    BY <1>0 DEF Numbered
  <2>3. Cardinality(Things(v, d)) = Cardinality(Things(w, d)) - Count(w, o, d) + Count(v, o, d)
    BY <1>3, Tally
  <2> QED
    BY <2>1, <2>2, <2>3
<1>10. Heavy(v)
  <2> SUFFICES ASSUME Exactly
               PROVE  Laid(v) /\ Plain(v) /\ \A d \in Char : v.weight[d] = SumFunctionOnSet(Burden(v, d), Obj)
    BY DEF Heavy
  <2>1. Laid(w) /\ Plain(w) /\ \A d \in Char : w.weight[d] = SumFunctionOnSet(Burden(w, d), Obj)
    BY <1>0 DEF Heavy
  <2>2. Laid(v)
    <3>1. o \in Corpse => x \in Room \cup {Nil}
      BY DEF Shifts
    <3> QED
      BY <1>2, <2>1, <3>1, LampsAndSeats DEF Laid
  <2>3. Plain(v)
    <3> SUFFICES ASSUME NEW p \in Obj, v.at[p] \in Obj \ Corpse
                 PROVE  Mult[p] = 100 \/ Inside(v, p) = {}
      BY DEF Plain
    <3>1. CASE p = o
      <4>1. x \in Obj \ Corpse /\ x # o
        BY <1>2, <3>1
      <4>2. Bare(w, o)
        BY <4>1 DEF Shifts
      <4>3. Inside(v, o) \subseteq Inside(w, o)
        BY <1>2, <4>1 DEF Inside
      <4> QED
        BY <3>1, <4>2, <4>3 DEF Bare
    <3>2. CASE p # o
      <4>1. Mult[p] = 100 \/ Inside(w, p) = {}
        BY <1>2, <2>1, <3>2 DEF Plain
      <4>2. x # p
        BY <1>2, <3>2
      <4>3. Inside(v, p) \subseteq Inside(w, p)
        BY <1>2, <4>2 DEF Inside
      <4> QED
        BY <4>1, <4>3
    <3> QED
      BY <3>1, <3>2
  <2>4. ASSUME NEW d \in Char
        PROVE  v.weight[d] = SumFunctionOnSet(Burden(v, d), Obj)
    <3>1. v.weight[d] = w.weight[d] - Weight(w, o, d) + Weight(v, o, d)
      BY DEF Shifts
    <3> QED
      BY <1>3, <2>1, <3>1, Ledger
  <2> QED
    BY <2>2, <2>3, <2>4
<1> QED
  BY <1>3, <1>4, <1>6, <1>7, <1>8, <1>9, <1>10 DEF Sound

----------------------------------------------------------------------------
\* The moves of handler.c.

\* o is at x now, and no longer worn.
Relocated(w, v, o, x) ==
  /\ v.at = [w.at EXCEPT ![o] = x] /\ v.worn = w.worn \ {o} /\ v.lit = w.lit /\ v.where = w.where

\* What is not carried is not worn, and on what is not in a room nobody sits.
LEMMA Loose ==
  ASSUME NEW w, Sound(w), NEW o \in Obj
  PROVE  /\ w.at[o] \notin Char => o \notin w.worn
         /\ w.at[o] \notin Room => \A c \in Char : w.on[c] # o
<1>1. \A c \in Char : w.on[c] = o => w.at[o] = w.where[c] /\ w.where[c] \in Room
  <2>1. w.where \in [Char -> Room \cup {Nil}]
    BY WorldIs DEF Sound, Fit
  <2> QED
    BY <2>1, NamesDiffer DEF Sound, Seated
<1> QED
  BY <1>1 DEF Sound, Carried

LEMMA SoundIs ==
  ASSUME NEW w, Sound(w)
  PROVE  w \in World /\ Rooted(w) /\ (Exactly => Laid(w) /\ Plain(w))
BY DEF Sound, Fit, Heavy

\* Where the object is, and counts, when it hangs on no other.
LEMMA HomeIs ==
  ASSUME NEW w, Rooted(w), NEW o \in Obj
  PROVE  Home(w, o) = IF w.at[o] \in Obj THEN Home(w, w.at[o]) ELSE w.at[o]
BY OutermostIs DEF Home

\* o hung on x.
LEMMA Rehung ==
  ASSUME NEW w, Sound(w), NEW o \in Obj, NEW x \in Room \cup Char \cup Obj \cup {Nil},
         x \in Obj => x # o /\ w.at[x] \notin Obj
  PROVE  /\ [w.at EXCEPT ![o] = x] \in [Obj -> Room \cup Char \cup Obj \cup {Nil}]
         /\ \A v : v.at = [w.at EXCEPT ![o] = x] => Rooted(v) /\ Moved(w, v, o, x) /\ v.at[o] = x
<1>1. Fit(w) /\ w \in World /\ Rooted(w)
  BY DEF Sound, Fit
<1>2. w.at \in [Obj -> Room \cup Char \cup Obj \cup {Nil}]
  BY <1>1, WorldIs
<1>3. ASSUME NEW v, v.at = [w.at EXCEPT ![o] = x]
      PROVE  Rooted(v) /\ Moved(w, v, o, x) /\ v.at[o] = x
  <2>1. \A p \in Obj : v.at[p] = IF p = o THEN x ELSE w.at[p]
    BY <1>2, <1>3
  <2>2. Rooted(v)
    BY <1>1, <1>3, RootedMove
  <2> QED
    BY <1>1, <2>1, <2>2 DEF Moved
<1> QED
  BY <1>2, <1>3

LEMMA ToRoom ==
  ASSUME NEW w, Sound(w), NEW o \in Obj, w.at[o] = Nil, NEW r \in Room
  PROVE  Sound(obj_to_room(w, o, r)) /\ Relocated(w, obj_to_room(w, o, r), o, r)
<1> DEFINE v == obj_to_room(w, o, r)
<1>0. w \in World /\ Rooted(w) /\ r \notin Obj /\ r \notin Char /\ Nil \notin Char /\ Nil \notin Obj
  BY SoundIs, NamesDiffer
<1>1. /\ v.at = [w.at EXCEPT ![o] = r] /\ v.worn = w.worn /\ v.lit = w.lit /\ v.where = w.where
      /\ v.on = w.on /\ v.number = w.number /\ v.weight = w.weight /\ v.light = w.light
      /\ v \in World
  <2>1. [w.at EXCEPT ![o] = r] \in [Obj -> Room \cup Char \cup Obj \cup {Nil}]
    BY <1>0, Rehung
  <2> QED
    BY <1>0, <2>1 DEF World, obj_to_room
<1>2. o \notin w.worn /\ \A c \in Char : w.on[c] # o
  BY <1>0, Loose, NamesDiffer
<1>3. Rooted(v) /\ Moved(w, v, o, r) /\ v.at[o] = r
  BY <1>0, <1>1, Rehung
<1> HIDE DEF v
<1>4. \A d \in Char : Home(w, o) # d /\ Home(v, o) # d
  BY <1>0, <1>3, HomeIs
<1>5. \A d \in Char : Count(w, o, d) = 0 /\ Count(v, o, d) = 0 /\ Weight(w, o, d) = 0 /\ Weight(v, o, d) = 0
  BY <1>0, <1>3, <1>4, WeightsAre DEF Count
<1>6. Shifts(w, v, o, r)
  <2>1. \A d \in Char : w.number[d] \in Int /\ w.weight[d] \in Int
    BY <1>0, WorldIs
  <2> QED
    BY <1>0, <1>1, <1>2, <1>5, <2>1 DEF Shifts
<1>7. Sound(v)
  BY <1>0, <1>2, <1>6, Shift
<1>8. Relocated(w, v, o, r)
  BY <1>1, <1>2 DEF Relocated
<1> QED
  BY <1>7, <1>8 DEF v

LEMMA ToChar ==
  ASSUME NEW w, Sound(w), NEW o \in Obj, w.at[o] = Nil, NEW c \in Char, Exactly => o \notin Corpse
  PROVE  Sound(obj_to_char(w, o, c)) /\ Relocated(w, obj_to_char(w, o, c), o, c)
<1> DEFINE v == obj_to_char(w, o, c)
           n == get_obj_number(w, o)
           m == get_obj_weight(w, o)
<1>0. w \in World /\ Rooted(w) /\ c \notin Obj /\ c \notin Room /\ Nil \notin Char /\ Nil \notin Obj
  BY SoundIs, NamesDiffer
<1>A. n \in Nat /\ m \in Nat
  BY <1>0, CountsAreNat
<1>1. /\ v.at = [w.at EXCEPT ![o] = c] /\ v.worn = w.worn /\ v.lit = w.lit /\ v.where = w.where
      /\ v.on = w.on /\ v.light = w.light
      /\ v.number = [w.number EXCEPT ![c] = @ + n] /\ v.weight = [w.weight EXCEPT ![c] = @ + m]
      /\ v \in World
  <2>1. [w.at EXCEPT ![o] = c] \in [Obj -> Room \cup Char \cup Obj \cup {Nil}]
    BY <1>0, Rehung
  <2>2. w.number \in [Char -> Int] /\ w.weight \in [Char -> Int]
    BY <1>0, WorldIs
  <2> HIDE DEF n, m
  <2>3. [w.number EXCEPT ![c] = @ + n] \in [Char -> Int] /\ [w.weight EXCEPT ![c] = @ + m] \in [Char -> Int]
    BY <1>A, <2>2
  <2>4. v = [w EXCEPT !.at = [w.at EXCEPT ![o] = c], !.number = [w.number EXCEPT ![c] = @ + n],
                      !.weight = [w.weight EXCEPT ![c] = @ + m]]
    BY <1>0 DEF World, obj_to_char, n, m
  <2> QED
    BY <1>0, <2>1, <2>3, <2>4 DEF World
<1>2. o \notin w.worn /\ \A d \in Char : w.on[d] # o
  BY <1>0, Loose, NamesDiffer
<1> HIDE DEF v, n, m
<1>3. Rooted(v) /\ Moved(w, v, o, c) /\ v.at[o] = c
  <2>1. v.at = [w.at EXCEPT ![o] = c]
    BY <1>1
  <2> QED
    BY <1>0, <2>1, Rehung
<1>B. Exactly => Weight(v, o, c) = m
  BY <1>0, <1>3, HandWeighs, SoundIs DEF m
<1>C. get_obj_number(v, o) = n
  BY <1>3, Tally DEF n
<1>4. \A d \in Char : Home(w, o) # d /\ Home(v, o) = c
  BY <1>0, <1>3, HomeIs
<1>5. \A d \in Char : /\ Count(w, o, d) = 0 /\ Weight(w, o, d) = 0
                      /\ Count(v, o, d) = IF d = c THEN n ELSE 0
                      /\ d # c => Weight(v, o, d) = 0
  BY <1>0, <1>3, <1>4, <1>C, WeightsAre DEF Count, n
<1>6. Shifts(w, v, o, c)
  <2>1. \A d \in Char : /\ w.number[d] \in Int /\ w.weight[d] \in Int
                        /\ v.number[d] = IF d = c THEN w.number[d] + n ELSE w.number[d]
                        /\ v.weight[d] = IF d = c THEN w.weight[d] + m ELSE w.weight[d]
    BY <1>0, <1>1, WorldIs
  <2>2. \A d \in Char : v.number[d] = w.number[d] - Count(w, o, d) + Count(v, o, d)
    BY <1>A, <1>5, <2>1
  <2>3. Exactly => \A d \in Char : v.weight[d] = w.weight[d] - Weight(w, o, d) + Weight(v, o, d)
    BY <1>A, <1>5, <1>B, <2>1
  <2> QED
    BY <1>0, <1>1, <1>2, <2>2, <2>3 DEF Shifts
<1>7. Sound(v)
  BY <1>0, <1>2, <1>6, Shift
<1>8. Relocated(w, v, o, c)
  BY <1>1, <1>2 DEF Relocated
<1> QED
  BY <1>7, <1>8 DEF v

\* v is w but for o, which is at x, and what c has, which is n and m more.
Booked(w, v, o, x, c, n, m) ==
  /\ v.at = [w.at EXCEPT ![o] = x] /\ v.worn = w.worn /\ v.lit = w.lit /\ v.where = w.where
  /\ v.on = w.on /\ v.light = w.light /\ v \in World
  /\ \A d \in Char : /\ v.number[d] = w.number[d] + (IF d = c THEN n ELSE 0)
                     /\ v.weight[d] = w.weight[d] + (IF d = c THEN m ELSE 0)

LEMMA Booking ==
  ASSUME NEW w, Sound(w), NEW o \in Obj, NEW x \in Room \cup Char \cup Obj \cup {Nil},
         x \in Obj => x # o /\ w.at[x] \notin Obj, NEW c \in Char, NEW n \in Int, NEW m \in Int
  PROVE  /\ Booked(w, [w EXCEPT !.at[o] = x, !.number[c] = @ + n, !.weight[c] = @ + m], o, x, c, n, m)
         /\ Booked(w, [w EXCEPT !.at[o] = x, !.number[c] = @ - n, !.weight[c] = @ - m], o, x, c, 0 - n, 0 - m)
<1>0. w \in World
  BY SoundIs
<1>1. [w.at EXCEPT ![o] = x] \in [Obj -> Room \cup Char \cup Obj \cup {Nil}]
  BY Rehung
<1>2. w.number \in [Char -> Int] /\ w.weight \in [Char -> Int]
  BY <1>0, WorldIs
<1>3. ASSUME NEW a \in Int, NEW b \in Int
      PROVE  Booked(w, [w EXCEPT !.at = [w.at EXCEPT ![o] = x], !.number = [w.number EXCEPT ![c] = @ + a],
                                 !.weight = [w.weight EXCEPT ![c] = @ + b]], o, x, c, a, b)
  <2> DEFINE N == [w.number EXCEPT ![c] = @ + a]
             W == [w.weight EXCEPT ![c] = @ + b]
             A == [w.at EXCEPT ![o] = x]
             v == [w EXCEPT !.at = A, !.number = N, !.weight = W]
  <2>1. N \in [Char -> Int] /\ W \in [Char -> Int] /\ A \in [Obj -> Room \cup Char \cup Obj \cup {Nil}]
    BY <1>1, <1>2
  <2>2. \A d \in Char : /\ N[d] = w.number[d] + (IF d = c THEN a ELSE 0)
                        /\ W[d] = w.weight[d] + (IF d = c THEN b ELSE 0)
    BY <1>2
  <2>3. A = [w.at EXCEPT ![o] = x]
    OBVIOUS
  <2> HIDE DEF N, W, A
  <2>4. /\ v.at = A /\ v.number = N /\ v.weight = W /\ v.worn = w.worn /\ v.lit = w.lit /\ v.where = w.where
        /\ v.on = w.on /\ v.light = w.light /\ v \in World
    BY <1>0, <2>1 DEF World
  <2> HIDE DEF v
  <2>5. Booked(w, v, o, x, c, a, b)
    BY <2>2, <2>3, <2>4 DEF Booked
  <2> QED
    BY <2>5 DEF v, A, N, W
<1>4. Booked(w, [w EXCEPT !.at[o] = x, !.number[c] = @ + n, !.weight[c] = @ + m], o, x, c, n, m)
  <2>1. [w EXCEPT !.at[o] = x, !.number[c] = @ + n, !.weight[c] = @ + m]
          = [w EXCEPT !.at = [w.at EXCEPT ![o] = x], !.number = [w.number EXCEPT ![c] = @ + n],
                      !.weight = [w.weight EXCEPT ![c] = @ + m]]
    BY <1>0 DEF World
  <2> QED
    BY <1>3, <2>1, Zenon
<1>5. Booked(w, [w EXCEPT !.at[o] = x, !.number[c] = @ - n, !.weight[c] = @ - m], o, x, c, 0 - n, 0 - m)
  <2>1. [w.number EXCEPT ![c] = @ - n] = [w.number EXCEPT ![c] = @ + (0 - n)]
    BY <1>2
  <2>2. [w.weight EXCEPT ![c] = @ - m] = [w.weight EXCEPT ![c] = @ + (0 - m)]
    BY <1>2
  <2>3. [w EXCEPT !.at[o] = x, !.number[c] = @ - n, !.weight[c] = @ - m]
          = [w EXCEPT !.at = [w.at EXCEPT ![o] = x], !.number = [w.number EXCEPT ![c] = @ - n],
                      !.weight = [w.weight EXCEPT ![c] = @ - m]]
    BY <1>0 DEF World
  <2>4. 0 - n \in Int /\ 0 - m \in Int
    OBVIOUS
  <2>5. [w EXCEPT !.at[o] = x, !.number[c] = @ - n, !.weight[c] = @ - m]
          = [w EXCEPT !.at = [w.at EXCEPT ![o] = x], !.number = [w.number EXCEPT ![c] = @ + (0 - n)],
                      !.weight = [w.weight EXCEPT ![c] = @ + (0 - m)]]
    BY <2>1, <2>2, <2>3
  <2> QED
    BY <1>3, <2>4, <2>5, Zenon
<1> QED
  BY <1>4, <1>5

\* Nobody has it before or after.
LEMMA Unbooked ==
  ASSUME NEW w, Sound(w), NEW o \in Obj, NEW x \in Room \cup Char \cup Obj \cup {Nil},
         x \in Obj => x # o /\ w.at[x] \notin Obj, NEW c, c \notin Char, NEW n, NEW m
  PROVE  Booked(w, [w EXCEPT !.at[o] = x], o, x, c, n, m)
<1>0. w \in World
  BY SoundIs
<1>1. [w.at EXCEPT ![o] = x] \in [Obj -> Room \cup Char \cup Obj \cup {Nil}]
  BY Rehung
<1>A. w.number \in [Char -> Int] /\ w.weight \in [Char -> Int]
  BY <1>0, WorldIs
<1>2. \A d \in Char : d # c /\ w.number[d] + 0 = w.number[d] /\ w.weight[d] + 0 = w.weight[d]
  BY <1>A
<1> DEFINE A == [w.at EXCEPT ![o] = x]
           v == [w EXCEPT !.at = A]
<1>3. A = [w.at EXCEPT ![o] = x] /\ A \in [Obj -> Room \cup Char \cup Obj \cup {Nil}]
  BY <1>1
<1> HIDE DEF A
<1>4. /\ v.at = A /\ v.worn = w.worn /\ v.lit = w.lit /\ v.where = w.where
      /\ v.on = w.on /\ v.light = w.light /\ v.number = w.number /\ v.weight = w.weight /\ v \in World
  BY <1>0, <1>3 DEF World
<1> HIDE DEF v
<1>5. Booked(w, v, o, x, c, n, m)
  BY <1>2, <1>3, <1>4 DEF Booked
<1> QED
  BY <1>5 DEF v, A

LEMMA ToObj ==
  ASSUME NEW w, Sound(w), NEW o \in Obj, w.at[o] = Nil, NEW b \in Obj, b # o, w.at[b] \notin Obj,
         Exactly => o \notin Corpse /\ (b \in Corpse \/ Bare(w, o))
  PROVE  Sound(obj_to_obj(w, o, b)) /\ Relocated(w, obj_to_obj(w, o, b), o, b)
<1> DEFINE v == obj_to_obj(w, o, b)
           c == w.at[b]
           n == get_obj_number(w, o)
           m == Share(w, o, b)
<1>0. w \in World /\ Rooted(w) /\ b \notin Room /\ b \notin Char /\ Nil \notin Char /\ Nil \notin Obj
  BY SoundIs, NamesDiffer
<1>1. n \in Nat /\ m \in Nat
  BY <1>0, CountsAreNat, SharesAreNat
<1>2. Outermost(w, b) = b /\ Home(w, b) = c
  BY <1>0, OutermostIs DEF Home
<1>3. Booked(w, v, o, b, c, n, m)
  <2>1. CASE c \in Char
    <3>1. v = [w EXCEPT !.at[o] = b, !.number[c] = @ + n, !.weight[c] = @ + m]
      BY <1>0, <1>2, <2>1 DEF obj_to_obj, World
    <3> HIDE DEF v, n, m, c
    <3>2. n \in Int /\ m \in Int /\ b \in Room \cup Char \cup Obj \cup {Nil}
      BY <1>1
    <3> QED
      BY <2>1, <3>1, <3>2, Booking
  <2>2. CASE c \notin Char
    <3>1. v = [w EXCEPT !.at[o] = b]
      BY <1>0, <1>2, <2>2 DEF obj_to_obj
    <3> HIDE DEF v, n, m, c
    <3>2. n \in Int /\ m \in Int /\ b \in Room \cup Char \cup Obj \cup {Nil}
      BY <1>1
    <3> QED
      BY <2>2, <3>1, <3>2, Unbooked
  <2> QED
    BY <2>1, <2>2
<1>4. o \notin w.worn /\ \A d \in Char : w.on[d] # o
  BY <1>0, Loose, NamesDiffer
<1> HIDE DEF v
<1>5. Rooted(v) /\ Moved(w, v, o, b) /\ v.at[o] = b /\ v.at[b] = c
  <2>1. v.at = [w.at EXCEPT ![o] = b]
    BY <1>3 DEF Booked
  <2> QED
    BY <1>0, <2>1, Rehung DEF Moved
<1>6. Home(w, o) = Nil /\ Home(v, o) = c
  BY <1>0, <1>5, HomeIs
<1>7. Exactly /\ c \in Char => Weight(v, o, c) = m
  <2> SUFFICES ASSUME Exactly, c \in Char PROVE Weight(v, o, c) = m
    OBVIOUS
  <2>1. b \notin Corpse
    BY <1>0, SoundIs, NamesDiffer DEF Laid
  <2>2. Bare(w, o) /\ o \notin Corpse /\ Plain(w) /\ Laid(w)
    BY <2>1, SoundIs
  <2>3. \A q \in Inside(w, o) : q \in Obj /\ w.at[q] = o /\ Outermost(w, q) = o
    BY <1>0, OutermostIs DEF Inside
  <2>4. \A q \in Inside(w, o) : Heft(w)[q] = SumFunctionOnSet(Own, Within(w, q))
    BY <1>0, <2>2, <2>3, InnerWeighs
  <2>5. Heft(w)[o] = SumFunctionOnSet(Own, Within(w, o))
    BY <1>0, <2>2, <2>4, BareWeighs
  <2> QED
    BY <1>2, <1>5, <2>5, BagWeighs
<1>8. get_obj_number(v, o) = n
  BY <1>5, Tally
<1> HIDE DEF n, m, c
<1>9. \A d \in Char : /\ Count(w, o, d) = 0 /\ Weight(w, o, d) = 0
                      /\ Count(v, o, d) = IF d = c THEN n ELSE 0
                      /\ d # c => Weight(v, o, d) = 0
  BY <1>0, <1>5, <1>6, <1>8, WeightsAre DEF Count
<1>10. Shifts(w, v, o, b)
  <2>1. \A d \in Char : w.number[d] \in Int /\ w.weight[d] \in Int
    BY <1>0, WorldIs
  <2>2. \A d \in Char : v.number[d] = w.number[d] - Count(w, o, d) + Count(v, o, d)
    BY <1>1, <1>3, <1>9, <2>1 DEF Booked
  <2>3. Exactly => \A d \in Char : v.weight[d] = w.weight[d] - Weight(w, o, d) + Weight(v, o, d)
    BY <1>1, <1>3, <1>7, <1>9, <2>1 DEF Booked
  <2>4. /\ v.at = [w.at EXCEPT ![o] = b] /\ v.worn = w.worn /\ v.lit = w.lit /\ v.where = w.where
        /\ v.on = w.on /\ v.light = w.light /\ v \in World
    BY <1>3 DEF Booked
  <2> QED
    BY <1>0, <1>4, <2>2, <2>3, <2>4 DEF Shifts
<1>11. Sound(v)
  BY <1>0, <1>4, <1>10, Shift
<1>12. Relocated(w, v, o, b)
  BY <1>3, <1>4 DEF Relocated, Booked
<1> QED
  BY <1>11, <1>12 DEF v

LEMMA FromObj ==
  ASSUME NEW w, Sound(w), NEW o \in Obj, w.at[o] \in Obj
  PROVE  Sound(obj_from_obj(w, o)) /\ Relocated(w, obj_from_obj(w, o), o, Nil)
<1> DEFINE v == obj_from_obj(w, o)
           b == w.at[o]
           c == w.at[Outermost(w, b)]
           n == get_obj_number(w, o)
           m == Share(w, o, b)
<1>0. w \in World /\ Rooted(w) /\ b \notin Room /\ b \notin Char /\ Nil \notin Char /\ Nil \notin Obj
  BY SoundIs, NamesDiffer
<1>1. n \in Nat /\ m \in Nat
  BY <1>0, CountsAreNat, SharesAreNat
<1>2. Home(w, b) = c /\ Home(w, o) = c
  BY <1>0, HomeIs DEF Home
<1>3. Booked(w, v, o, Nil, c, 0 - n, 0 - m)
  <2>1. CASE c \in Char
    <3>1. v = [w EXCEPT !.at[o] = Nil, !.number[c] = @ - n, !.weight[c] = @ - m]
      BY <1>0, <2>1 DEF obj_from_obj, World
    <3> HIDE DEF v, n, m, c
    <3>2. n \in Int /\ m \in Int
      BY <1>1
    <3> QED
      BY <1>0, <2>1, <3>1, <3>2, Booking
  <2>2. CASE c \notin Char
    <3>1. v = [w EXCEPT !.at[o] = Nil]
      BY <1>0, <2>2 DEF obj_from_obj
    <3> HIDE DEF v, n, m, c
    <3> QED
      BY <1>0, <2>2, <3>1, Unbooked
  <2> QED
    BY <2>1, <2>2
<1>4. o \notin w.worn /\ \A d \in Char : w.on[d] # o
  BY <1>0, Loose, NamesDiffer
<1> HIDE DEF v
<1>5. Rooted(v) /\ Moved(w, v, o, Nil) /\ v.at[o] = Nil
  <2>1. v.at = [w.at EXCEPT ![o] = Nil]
    BY <1>3 DEF Booked
  <2> QED
    BY <1>0, <2>1, Rehung
<1>6. Home(v, o) = Nil
  BY <1>0, <1>5, HomeIs
<1>7. Exactly /\ c \in Char => Weight(w, o, c) = m
  <2> SUFFICES ASSUME Exactly, c \in Char PROVE Weight(w, o, c) = m
    OBVIOUS
  <2>1. Plain(w) /\ Laid(w)
    BY SoundIs
  <2>2. Outermost(w, o) = Outermost(w, b) /\ Outermost(w, b) \notin Corpse
    BY <1>0, <2>1, OutermostIs, NamesDiffer DEF Laid
  <2>3. Heft(w)[o] = SumFunctionOnSet(Own, Within(w, o))
    BY <1>0, <2>1, <2>2, InnerWeighs
  <2>4. Moved(w, w, o, b)
    BY <1>0 DEF Moved
  <2> QED
    BY <1>2, <2>3, <2>4, BagWeighs
<1> HIDE DEF m, c
<1>9. \A d \in Char : /\ Count(v, o, d) = 0 /\ Weight(v, o, d) = 0
                      /\ Count(w, o, d) = IF d = c THEN n ELSE 0
                      /\ d # c => Weight(w, o, d) = 0
  BY <1>0, <1>2, <1>5, <1>6, WeightsAre DEF Count
<1> HIDE DEF n
<1>10. Shifts(w, v, o, Nil)
  <2>1. \A d \in Char : w.number[d] \in Int /\ w.weight[d] \in Int
    BY <1>0, WorldIs
  <2>2. \A d \in Char : v.number[d] = w.number[d] - Count(w, o, d) + Count(v, o, d)
    BY <1>1, <1>3, <1>9, <2>1 DEF Booked
  <2>3. Exactly => \A d \in Char : v.weight[d] = w.weight[d] - Weight(w, o, d) + Weight(v, o, d)
    BY <1>1, <1>3, <1>7, <1>9, <2>1 DEF Booked
  <2>4. /\ v.at = [w.at EXCEPT ![o] = Nil] /\ v.worn = w.worn /\ v.lit = w.lit /\ v.where = w.where
        /\ v.on = w.on /\ v.light = w.light /\ v \in World
    BY <1>3 DEF Booked
  <2> QED
    BY <1>0, <1>4, <2>2, <2>3, <2>4 DEF Shifts
<1>11. Sound(v)
  BY <1>0, <1>4, <1>10, Shift
<1>12. Relocated(w, v, o, Nil)
  BY <1>3, <1>4 DEF Relocated, Booked
<1> QED
  BY <1>11, <1>12 DEF v

LEMMA FromRoom ==
  ASSUME NEW w, Sound(w), NEW o \in Obj, w.at[o] \in Room
  PROVE  Sound(obj_from_room(w, o)) /\ Relocated(w, obj_from_room(w, o), o, Nil)
<1> DEFINE v == obj_from_room(w, o)
           on == [c \in Char |-> IF w.on[c] = o /\ w.where[c] = w.at[o] THEN Nil ELSE w.on[c]]
<1>0. w \in World /\ Rooted(w) /\ w.at[o] \notin Obj /\ w.at[o] \notin Char /\ Nil \notin Char /\ Nil \notin Obj
  BY SoundIs, NamesDiffer
<1>1. w.on \in [Char -> Seat \cup {Nil}]
  BY <1>0, WorldIs
<1>2. \A c \in Char : on[c] # o /\ on[c] \in {w.on[c], Nil}
  <2>1. \A c \in Char : w.on[c] = o => w.where[c] = w.at[o]
    BY <1>0 DEF Sound, Seated
  <2> QED
    BY <1>0, <2>1
<1>3. on \in [Char -> Seat \cup {Nil}]
  BY <1>1
<1>4. v = [w EXCEPT !.at = [w.at EXCEPT ![o] = Nil], !.on = on]
  BY <1>0 DEF obj_from_room, World
<1> HIDE DEF on
<1>5. /\ v.at = [w.at EXCEPT ![o] = Nil] /\ v.worn = w.worn /\ v.lit = w.lit /\ v.where = w.where
      /\ v.on = on /\ v.number = w.number /\ v.weight = w.weight /\ v.light = w.light
      /\ v \in World
  <2>1. [w.at EXCEPT ![o] = Nil] \in [Obj -> Room \cup Char \cup Obj \cup {Nil}]
    BY <1>0, Rehung
  <2> HIDE DEF v
  <2> QED
    BY <1>0, <1>3, <1>4, <2>1 DEF World
<1>6. o \notin w.worn
  BY <1>0, Loose
<1> HIDE DEF v
<1>7. Rooted(v) /\ Moved(w, v, o, Nil) /\ v.at[o] = Nil
  <2>1. v.at = [w.at EXCEPT ![o] = Nil]
    BY <1>5
  <2>2. Nil \notin Obj
    BY <1>0
  <2> QED
    BY <2>1, <2>2, Rehung
<1>8. \A d \in Char : Home(w, o) # d /\ Home(v, o) # d
  BY <1>0, <1>7, HomeIs
<1>9. \A d \in Char : Count(w, o, d) = 0 /\ Count(v, o, d) = 0 /\ Weight(w, o, d) = 0 /\ Weight(v, o, d) = 0
  BY <1>0, <1>7, <1>8, WeightsAre DEF Count
<1>10. Shifts(w, v, o, Nil)
  <2>1. \A d \in Char : w.number[d] \in Int /\ w.weight[d] \in Int
    BY <1>0, WorldIs
  <2> QED
    BY <1>0, <1>2, <1>5, <1>9, <2>1 DEF Shifts
<1>11. Sound(v)
  BY <1>0, <1>6, <1>10, Shift
<1>12. Relocated(w, v, o, Nil)
  BY <1>5, <1>6 DEF Relocated
<1> QED
  BY <1>11, <1>12 DEF v

----------------------------------------------------------------------------
\* Lamps and the light of rooms.

\* What hangs on what is said by the places alone.
LEMMA SameAt ==
  ASSUME NEW w, Rooted(w), NEW v, v.at = w.at
  PROVE  /\ Rooted(v)
         /\ \A o \in Obj : /\ Within(v, o) = Within(w, o) /\ Outermost(v, o) = Outermost(w, o)
                           /\ Inside(v, o) = Inside(w, o) /\ Heft(v)[o] = Heft(w)[o]
<1>1. Rooted(v)
  BY DEF Rooted
<1>2. \A x : Inside(v, x) = Inside(w, x)
  BY DEF Inside
<1> DEFINE A == {p \in Obj : Outermost(v, p) = Outermost(w, p)}
<1>3. ASSUME NEW p \in Obj, w.at[p] \in Obj => w.at[p] \in A
      PROVE  p \in A
  BY <1>1, <1>3, OutermostIs
<1> HIDE DEF A
<1>4. \A p \in Obj : p \in A
  BY <1>3, OutwardInduction, Zenon
<1>5. ASSUME NEW o \in Obj
      PROVE  Within(v, o) = Within(w, o)
  <2> DEFINE B == {p \in Obj : p \in Within(v, o) <=> p \in Within(w, o)}
  <2>1. ASSUME NEW p \in Obj, w.at[p] \in Obj => w.at[p] \in B
        PROVE  p \in B
    BY <1>1, <2>1, WithinAre
  <2> HIDE DEF B
  <2>2. \A p \in Obj : p \in B
    BY <2>1, OutwardInduction, Zenon
  <2> QED
    BY <2>2, WithinAre DEF B
<1> DEFINE C == {p \in Obj : Heft(v)[p] = Heft(w)[p]}
<1>6. ASSUME NEW p \in Obj, Inside(w, p) \subseteq C
      PROVE  p \in C
  <2>1. Loads(v, p, Heft(v)) = Loads(w, p, Heft(w))
    BY <1>2, <1>6 DEF Loads
  <2> QED
    BY <1>1, <2>1, HeftsAre
<1> HIDE DEF C
<1>7. \A p \in Obj : p \in C
  BY <1>6, InwardInduction, Zenon
<1> QED
  BY <1>1, <1>2, <1>4, <1>5, <1>7 DEF A, C

LEMMA Untouched ==
  ASSUME NEW w, Sound(w), NEW v \in World, v.at = w.at, v.number = w.number, v.weight = w.weight
  PROVE  Fit(v) /\ Numbered(v) /\ Heavy(v)
<1>0. w \in World /\ Rooted(w) /\ Numbered(w) /\ Heavy(w)
  BY DEF Sound, Fit
<1>1. Rooted(v) /\ \A p \in Obj : Outermost(v, p) = Outermost(w, p) /\ Inside(v, p) = Inside(w, p)
  BY <1>0, SameAt
<1>2. \A p \in Obj : Home(v, p) = Home(w, p)
  BY <1>1 DEF Home
<1>3. \A d : Things(v, d) = Things(w, d)
  BY <1>2 DEF Things
<1>4. \A p \in Obj : Val(v, p) = Val(w, p)
  BY <1>1 DEF Val
<1>5. \A d : Burden(v, d) = Burden(w, d)
  BY <1>2, <1>4 DEF Burden
<1>6. (Laid(w) => Laid(v)) /\ (Plain(w) => Plain(v))
  BY <1>1 DEF Laid, Plain
<1> QED
  BY <1>0, <1>1, <1>3, <1>5, <1>6 DEF Fit, Numbered, Heavy

\* Each room is as light as before, or one bearer comes or goes with the light.
LEMMA LightsFrom ==
  ASSUME NEW w, Sound(w), NEW v,
         Lanterns = {} => \A r \in Room :
           \/ Beams(v, r) = Beams(w, r) /\ v.light[r] = w.light[r]
           \/ \E c \in Beams(w, r) : Beams(v, r) = Beams(w, r) \ {c} /\ v.light[r] = w.light[r] - 1
           \/ \E c \in Char \ Beams(w, r) : Beams(v, r) = Beams(w, r) \cup {c} /\ v.light[r] = w.light[r] + 1
  PROVE  Lights(v)
<1> SUFFICES ASSUME Lanterns = {}, NEW r \in Room PROVE v.light[r] = Cardinality(Beams(v, r))
  BY DEF Lights
<1>1. w.light[r] = Cardinality(Beams(w, r)) /\ IsFiniteSet(Beams(w, r))
  BY CharsAreFinite DEF Sound, Lights, Beams
<1>2. Cardinality(Beams(w, r)) \in Nat
  BY <1>1, FS_CardinalityType
<1>3. CASE Beams(v, r) = Beams(w, r) /\ v.light[r] = w.light[r]
  BY <1>1, <1>3
<1>4. ASSUME NEW c \in Beams(w, r), Beams(v, r) = Beams(w, r) \ {c}, v.light[r] = w.light[r] - 1
      PROVE  v.light[r] = Cardinality(Beams(v, r))
  <2>1. Cardinality(Beams(w, r) \ {c}) = Cardinality(Beams(w, r)) - 1
    BY <1>1, FS_RemoveElement
  <2> QED
    BY <1>1, <1>2, <1>4, <2>1
<1>5. ASSUME NEW c \in Char \ Beams(w, r), Beams(v, r) = Beams(w, r) \cup {c}, v.light[r] = w.light[r] + 1
      PROVE  v.light[r] = Cardinality(Beams(v, r))
  <2>1. Cardinality(Beams(w, r) \cup {c}) = Cardinality(Beams(w, r)) + 1
    BY <1>1, FS_AddElement
  <2> QED
    BY <1>1, <1>2, <1>5, <2>1
<1> QED
  BY <1>3, <1>4, <1>5

\* A room with a bearer is light.
LEMMA BearersLight ==
  ASSUME Lanterns = {}, NEW w, Sound(w), NEW r \in Room
  PROVE  w.light[r] \in Nat /\ (Beams(w, r) # {} => w.light[r] > 0)
<1>1. w.light[r] = Cardinality(Beams(w, r)) /\ IsFiniteSet(Beams(w, r))
  BY CharsAreFinite DEF Sound, Lights, Beams
<1>2. Cardinality(Beams(w, r)) \in Nat /\ (Cardinality(Beams(w, r)) = 0 => Beams(w, r) = {})
  BY <1>1, FS_CardinalityType, FS_EmptySet
<1> QED
  BY <1>1, <1>2

\* v is w but for what is worn.
Dressed(w, v, worn) ==
  /\ v \in World /\ v.at = w.at /\ v.worn = worn /\ v.lit = w.lit /\ v.where = w.where
  /\ v.on = w.on /\ v.number = w.number /\ v.weight = w.weight

LEMMA Unequip ==
  ASSUME NEW w, Sound(w), NEW o \in w.worn, NEW c, w.at[o] = c
  PROVE  LET v == unequip_char(w, c, o) IN Sound(v) /\ Dressed(w, v, w.worn \ {o})
<1> DEFINE v == unequip_char(w, c, o)
           light == [r \in Room |-> w.light[r] - IF o \in w.lit /\ r = w.where[c] /\ w.light[r] > 0 THEN 1 ELSE 0]
<1>0. w \in World /\ c \in Char /\ o \in Obj
  BY SoundIs, WorldIs DEF Sound, Carried
<1>1. v = [w EXCEPT !.worn = w.worn \ {o}, !.light = light]
  BY <1>0 DEF unequip_char, World
<1>2. w.light \in [Room -> Int] /\ w.worn \in SUBSET Obj /\ w.lit \in SUBSET Lamp
  BY <1>0, WorldIs
<1>3. light \in [Room -> Int]
  BY <1>2
<1>4. \A r \in Room : light[r] = w.light[r] - IF o \in w.lit /\ r = w.where[c] /\ w.light[r] > 0 THEN 1 ELSE 0
  OBVIOUS
<1> HIDE DEF v, light
<1>5. Dressed(w, v, w.worn \ {o}) /\ v.light = light
  BY <1>0, <1>1, <1>2, <1>3 DEF Dressed, World
<1>6. Fit(v) /\ Numbered(v) /\ Heavy(v)
  BY <1>5, Untouched DEF Dressed
<1>7. Carried(v) /\ OneLamp(v) /\ Seated(v)
  BY <1>5 DEF Dressed, Carried, OneLamp, Seated, Sound
<1>8. \A d : Shining(v, d) = Shining(w, d) \ {o}
  BY <1>5 DEF Dressed, Shining, Inside
<1>9. o \notin w.lit => \A d : Shining(v, d) = Shining(w, d)
  BY <1>8 DEF Shining
<1>10. o \in w.lit => /\ \A d : d # c => Shining(v, d) = Shining(w, d)
                      /\ Shining(w, c) # {} /\ Shining(v, c) = {}
  <2> SUFFICES ASSUME o \in w.lit PROVE /\ \A d : d # c => Shining(v, d) = Shining(w, d)
                                        /\ Shining(w, c) # {} /\ Shining(v, c) = {}
    OBVIOUS
  <2>1. o \in Shining(w, c) /\ \A d : d # c => o \notin Shining(w, d)
    BY <1>0 DEF Shining, Inside
  <2>2. \A p \in Shining(w, c) : p = o
    BY <1>0, <1>2 DEF Shining, Inside, Sound, OneLamp
  <2> QED
    BY <1>8, <2>1, <2>2
<1>11. Lights(v)
  <2> SUFFICES ASSUME Lanterns = {}, NEW r \in Room
               PROVE  \/ Beams(v, r) = Beams(w, r) /\ v.light[r] = w.light[r]
                      \/ \E d \in Beams(w, r) : Beams(v, r) = Beams(w, r) \ {d} /\ v.light[r] = w.light[r] - 1
    BY LightsFrom
  <2>1. v.where = w.where /\ w.light[r] \in Int
    BY <1>2, <1>5 DEF Dressed
  <2>2. CASE o \in w.lit /\ r = w.where[c]
    <3>1. c \in Beams(w, r)
      BY <1>0, <1>10, <2>2 DEF Beams
    <3>2. Beams(v, r) = Beams(w, r) \ {c}
      BY <1>10, <2>1, <2>2 DEF Beams
    <3>3. v.light[r] = w.light[r] - 1
      BY <1>4, <1>5, <2>1, <2>2, <3>1, BearersLight
    <3> QED
      BY <3>1, <3>2, <3>3
  <2>3. CASE ~(o \in w.lit /\ r = w.where[c])
    <3>1. Beams(v, r) = Beams(w, r)
      BY <1>9, <1>10, <2>1, <2>3 DEF Beams
    <3> QED
      BY <1>4, <1>5, <2>1, <2>3, <3>1
  <2> QED
    BY <2>2, <2>3
<1> QED
  BY <1>5, <1>6, <1>7, <1>11 DEF Sound, v

LEMMA Equip ==
  ASSUME NEW w, Sound(w), NEW o \in Obj \ w.worn, NEW c \in Char, w.at[o] = c,
         o \in Lamp => \A p \in w.worn \cap Lamp : w.at[p] # c
  PROVE  LET v == equip_char(w, c, o) IN Sound(v) /\ Dressed(w, v, w.worn \cup {o})
<1> DEFINE v == equip_char(w, c, o)
           light == [r \in Room |-> w.light[r] + IF o \in w.lit /\ r = w.where[c] THEN 1 ELSE 0]
<1>0. w \in World
  BY SoundIs
<1>1. v = [w EXCEPT !.worn = w.worn \cup {o}, !.light = light]
  BY <1>0 DEF equip_char, World
<1>2. w.light \in [Room -> Int] /\ w.worn \in SUBSET Obj /\ w.lit \in SUBSET Lamp
  BY <1>0, WorldIs
<1>3. light \in [Room -> Int]
  BY <1>2
<1>4. \A r \in Room : light[r] = w.light[r] + IF o \in w.lit /\ r = w.where[c] THEN 1 ELSE 0
  OBVIOUS
<1> HIDE DEF v, light
<1>5. Dressed(w, v, w.worn \cup {o}) /\ v.light = light
  BY <1>0, <1>1, <1>2, <1>3 DEF Dressed, World
<1>6. Fit(v) /\ Numbered(v) /\ Heavy(v)
  BY <1>5, Untouched DEF Dressed
<1>7. Carried(v) /\ OneLamp(v) /\ Seated(v)
  BY <1>5 DEF Dressed, Carried, OneLamp, Seated, Sound
<1>8. \A d : Shining(v, d) = Shining(w, d) \cup IF d = c /\ o \in w.lit THEN {o} ELSE {}
  BY <1>5 DEF Dressed, Shining, Inside
<1>9. o \in w.lit => Shining(w, c) = {}
  BY <1>0, <1>2 DEF Shining, Inside
<1>11. Lights(v)
  <2> SUFFICES ASSUME Lanterns = {}, NEW r \in Room
               PROVE  \/ Beams(v, r) = Beams(w, r) /\ v.light[r] = w.light[r]
                      \/ \E d \in Char \ Beams(w, r) : Beams(v, r) = Beams(w, r) \cup {d} /\ v.light[r] = w.light[r] + 1
    BY LightsFrom
  <2>1. v.where = w.where /\ w.light[r] \in Int
    BY <1>2, <1>5 DEF Dressed
  <2>2. CASE o \in w.lit /\ r = w.where[c]
    <3>1. c \notin Beams(w, r)
      BY <1>9, <2>2 DEF Beams
    <3>2. Beams(v, r) = Beams(w, r) \cup {c}
      BY <1>8, <2>1, <2>2 DEF Beams
    <3>3. v.light[r] = w.light[r] + 1
      BY <1>4, <1>5, <2>1, <2>2
    <3> QED
      BY <3>1, <3>2, <3>3
  <2>3. CASE ~(o \in w.lit /\ r = w.where[c])
    <3>1. Beams(v, r) = Beams(w, r)
      BY <1>8, <2>1, <2>3 DEF Beams
    <3> QED
      BY <1>4, <1>5, <2>1, <2>3, <3>1
  <2> QED
    BY <2>2, <2>3
<1> QED
  BY <1>5, <1>6, <1>7, <1>11 DEF Sound, v

LEMMA FromChar ==
  ASSUME NEW w, Sound(w), NEW o \in Obj, w.at[o] \in Char
  PROVE  Sound(obj_from_char(w, o)) /\ Relocated(w, obj_from_char(w, o), o, Nil)
<1> DEFINE v == obj_from_char(w, o)
           c == w.at[o]
           u == IF o \in w.worn THEN unequip_char(w, c, o) ELSE w
           n == get_obj_number(w, o)
           m == get_obj_weight(w, o)
<1>0. w \in World /\ Rooted(w) /\ c \notin Room /\ c \notin Obj /\ Nil \notin Char /\ Nil \notin Obj
  BY SoundIs, NamesDiffer
<1>1. n \in Nat /\ m \in Nat
  BY <1>0, CountsAreNat
<1>2. Sound(u) /\ Dressed(w, u, w.worn \ {o})
  <2>1. CASE o \in w.worn
    BY <2>1, Unequip
  <2>2. CASE o \notin w.worn
    BY <1>0, <2>2 DEF Dressed
  <2> QED
    BY <2>1, <2>2
<1>3. v = [u EXCEPT !.at[o] = Nil, !.number[c] = @ - n, !.weight[c] = @ - m]
  BY DEF obj_from_char
<1> HIDE DEF u
<1>4. u \in World /\ u.at = w.at /\ u.worn = w.worn \ {o} /\ u.lit = w.lit /\ u.where = w.where
  BY <1>2 DEF Dressed
<1>5. Rooted(u) /\ get_obj_number(u, o) = n /\ get_obj_weight(u, o) = m
  BY <1>0, <1>4, SameAt DEF get_obj_number, get_obj_weight
<1>6. Booked(u, v, o, Nil, c, 0 - n, 0 - m)
  <2> HIDE DEF v, n, m, c
  <2>1. n \in Int /\ m \in Int /\ c \in Char
    BY <1>1 DEF c
  <2> QED
    BY <1>0, <1>2, <1>3, <2>1, Booking
<1>7. o \notin u.worn /\ \A d \in Char : u.on[d] # o
  BY <1>0, <1>2, <1>4, Loose
<1> HIDE DEF v
<1>8. Rooted(v) /\ Moved(u, v, o, Nil) /\ v.at[o] = Nil
  <2>1. v.at = [u.at EXCEPT ![o] = Nil]
    BY <1>6 DEF Booked
  <2> QED
    BY <1>0, <1>2, <2>1, Rehung
<1>9. Home(u, o) = c /\ Home(v, o) = Nil
  BY <1>0, <1>4, <1>5, <1>8, HomeIs
<1>10. Exactly => Weight(u, o, c) = m
  <2> SUFFICES ASSUME Exactly PROVE Weight(u, o, c) = m
    OBVIOUS
  <2>1. Plain(u) /\ Laid(u)
    BY <1>2, SoundIs
  <2>2. o \notin Corpse
    BY <1>0, <1>4, <2>1, NamesDiffer DEF Laid
  <2>3. Moved(u, u, o, c)
    BY <1>4, <1>5 DEF Moved
  <2> QED
    BY <1>0, <1>4, <1>5, <2>1, <2>2, <2>3, HandWeighs
<1>C. c \in Char
  OBVIOUS
<1> HIDE DEF m, c
<1>11. \A d \in Char : /\ Count(v, o, d) = 0 /\ Weight(v, o, d) = 0
                       /\ Count(u, o, d) = IF d = c THEN n ELSE 0
                       /\ d # c => Weight(u, o, d) = 0
  BY <1>0, <1>5, <1>8, <1>9, WeightsAre DEF Count
<1> HIDE DEF n
<1>12. Shifts(u, v, o, Nil)
  <2>1. \A d \in Char : u.number[d] \in Int /\ u.weight[d] \in Int
    BY <1>4, WorldIs
  <2>2. \A d \in Char : v.number[d] = u.number[d] - Count(u, o, d) + Count(v, o, d)
    BY <1>1, <1>6, <1>11, <2>1 DEF Booked
  <2>3. Exactly => \A d \in Char : v.weight[d] = u.weight[d] - Weight(u, o, d) + Weight(v, o, d)
    BY <1>1, <1>6, <1>10, <1>11, <2>1 DEF Booked
  <2>4. /\ v.at = [u.at EXCEPT ![o] = Nil] /\ v.worn = u.worn /\ v.lit = u.lit /\ v.where = u.where
        /\ v.on = u.on /\ v.light = u.light /\ v \in World
    BY <1>6 DEF Booked
  <2> QED
    BY <1>0, <1>7, <2>2, <2>3, <2>4 DEF Shifts
<1>13. Sound(v)
  BY <1>0, <1>2, <1>7, <1>12, Shift
<1>14. Relocated(w, v, o, Nil)
  BY <1>4, <1>6 DEF Relocated, Booked
<1> QED
  BY <1>13, <1>14 DEF v

----------------------------------------------------------------------------
\* Out of the game.

LEMMA Detached ==
  ASSUME NEW w, Sound(w), NEW o \in Obj
  PROVE  Sound(Detach(w, o)) /\ Relocated(w, Detach(w, o), o, Nil)
<1>0. w.at \in [Obj -> Room \cup Char \cup Obj \cup {Nil}]
  BY SoundIs, WorldIs
<1>1. CASE w.at[o] \in Room
  BY <1>1, FromRoom, NamesDiffer DEF Detach
<1>2. CASE w.at[o] \in Char
  BY <1>2, FromChar, NamesDiffer DEF Detach
<1>3. CASE w.at[o] \in Obj
  BY <1>3, FromObj, NamesDiffer DEF Detach
<1>4. CASE w.at[o] = Nil
  <2>1. Detach(w, o) = w
    BY <1>4, NamesDiffer DEF Detach
  <2>2. o \notin w.worn
    BY <1>4, Loose, NamesDiffer
  <2> QED
    BY <1>0, <1>4, <2>1, <2>2 DEF Relocated
<1> QED
  BY <1>0, <1>1, <1>2, <1>3, <1>4

\* o is out of the game, with all that is within it.
Extracted(w, v, o) ==
  /\ v.at = [p \in Obj |-> IF p \in Within(w, o) THEN Nil ELSE w.at[p]]
  /\ v.worn = w.worn \ {o} /\ v.lit = w.lit \ Within(w, o) /\ v.where = w.where

LEMMA Extraction ==
  ASSUME NEW w, Sound(w), NEW o \in Obj
  PROVE  Sound(extract_obj(w, o)) /\ Extracted(w, extract_obj(w, o), o)
<1> DEFINE u == Detach(w, o)
           v == extract_obj(w, o)
           gone == Within(w, o)
           at == [p \in Obj |-> IF p \in gone THEN Nil ELSE u.at[p]]
<1>1. v = [u EXCEPT !.at = at, !.lit = @ \ gone]
  BY DEF extract_obj
<1>2. Sound(u) /\ Relocated(w, u, o, Nil)
  BY Detached
<1> HIDE DEF u
<1>3. u \in World /\ Rooted(u) /\ Rooted(w) /\ w \in World
  BY <1>2, SoundIs
<1>4. u.at \in [Obj -> Room \cup Char \cup Obj \cup {Nil}] /\ u.lit \in SUBSET Lamp /\ u.worn \in SUBSET Obj
  BY <1>3, WorldIs
<1>5. Moved(w, u, o, Nil) /\ u.at[o] = Nil
  BY <1>2, Rehung, NamesDiffer DEF Relocated
<1>6. gone = Within(u, o) /\ gone \subseteq Obj /\ o \in gone
  BY <1>3, <1>5, MovedWithin, WithinAre
<1> HIDE DEF gone
<1>7. at \in [Obj -> Room \cup Char \cup Obj \cup {Nil}]
  BY <1>4
<1>8. \A p \in Obj : at[p] = IF p \in gone THEN Nil ELSE u.at[p]
  OBVIOUS
<1> HIDE DEF at, v
<1>9. /\ v.at = at /\ v.worn = u.worn /\ v.lit = u.lit \ gone /\ v.where = u.where /\ v.on = u.on
      /\ v.number = u.number /\ v.weight = u.weight /\ v.light = u.light /\ v \in World
  BY <1>1, <1>3, <1>4, <1>7 DEF World
<1>10. Extracted(w, v, o)
  <2>1. at = [p \in Obj |-> IF p \in gone THEN Nil ELSE w.at[p]]
    <3>1. \A p \in Obj \ gone : u.at[p] = w.at[p]
      BY <1>5, <1>6 DEF Moved
    <3> QED
      BY <1>7, <3>1 DEF at
  <2> QED
    BY <1>2, <1>9, <2>1 DEF Extracted, Relocated, gone
<1>11. Rooted(v)
  BY <1>3, <1>8, <1>9, RootedLess
<1>12. \A p \in gone : p # o => u.at[p] \in Obj
  BY <1>6, WithinAre
<1>13. \A p \in Obj : u.at[p] \in Room \cup Char => p \notin gone /\ v.at[p] = u.at[p]
  BY <1>5, <1>8, <1>9, <1>12, NamesDiffer
<1>14. Carried(v) /\ OneLamp(v)
  <2>1. \A p \in v.worn : v.at[p] = u.at[p] /\ u.at[p] \in Char
    BY <1>2, <1>4, <1>9, <1>13 DEF Sound, Carried
  <2> QED
    BY <1>2, <1>9, <2>1 DEF Carried, OneLamp, Sound
<1>15. Seated(v)
  <2> SUFFICES ASSUME NEW c \in Char, v.on[c] # Nil
               PROVE  v.where[c] # Nil /\ v.at[v.on[c]] = v.where[c]
    BY DEF Seated
  <2>1. u.where[c] # Nil /\ u.at[u.on[c]] = u.where[c] /\ u.on[c] \in Obj /\ u.where[c] \in Room \cup {Nil}
    BY <1>2, <1>3, <1>9, WorldIs, LampsAndSeats DEF Sound, Seated
  <2> QED
    BY <1>9, <1>13, <2>1
<1>16. Lights(v)
  <2>1. \A c \in Char : Shining(v, c) = Shining(u, c)
    <3> SUFFICES ASSUME NEW c \in Char PROVE Shining(v, c) = Shining(u, c)
      OBVIOUS
    <3>1. \A p \in Obj : u.at[p] = c => p \notin gone /\ v.at[p] = c
      BY <1>13
    <3>2. \A p \in Obj : v.at[p] = c => p \notin gone /\ u.at[p] = c
      BY <1>8, <1>9, NamesDiffer
    <3> QED
      BY <1>9, <3>1, <3>2 DEF Shining, Inside
  <2>2. \A r : Beams(v, r) = Beams(u, r)
    BY <1>9, <2>1 DEF Beams
  <2> QED
    BY <1>2, <1>9, <2>2 DEF Sound, Lights
<1> DEFINE G == {p \in Obj : p \notin gone => Outermost(v, p) = Outermost(u, p)}
<1>17. ASSUME NEW p \in Obj, u.at[p] \in Obj => u.at[p] \in G
       PROVE  p \in G
  <2> SUFFICES ASSUME p \notin gone PROVE Outermost(v, p) = Outermost(u, p)
    OBVIOUS
  <2>1. v.at[p] = u.at[p]
    BY <1>8, <1>9
  <2>2. u.at[p] \in Obj => u.at[p] \notin gone
    BY <1>6, WithinAre
  <2> QED
    BY <1>3, <1>11, <1>17, <2>1, <2>2, OutermostIs
<1> HIDE DEF G
<1>18. \A p \in Obj : p \in G
  BY <1>3, <1>17, OutwardInduction, Zenon
<1>19. ASSUME NEW p \in Obj
       PROVE  Home(v, p) = Home(u, p) /\ (p \notin gone => Outermost(v, p) = Outermost(u, p))
  <2>1. CASE p \in gone
    <3>1. Outermost(u, p) = Outermost(u, o) /\ Outermost(u, o) = o
      BY <1>3, <1>5, <1>6, <2>1, WithinSame, OutermostIs, NamesDiffer
    <3>2. v.at[p] = Nil /\ Outermost(v, p) = p
      BY <1>8, <1>9, <1>11, <2>1, OutermostIs, NamesDiffer
    <3> QED
      BY <1>5, <2>1, <3>1, <3>2 DEF Home
  <2>2. CASE p \notin gone
    <3>1. Outermost(v, p) = Outermost(u, p)
      BY <1>18, <2>2 DEF G
    <3>2. Outermost(u, p) \in Obj /\ p \in Within(u, Outermost(u, p))
      BY <1>3, OutermostIs
    <3>3. Outermost(u, p) \notin gone
      BY <1>3, <1>6, <2>2, <3>2, WithinWithin
    <3> QED
      BY <1>8, <1>9, <3>1, <3>2, <3>3 DEF Home
  <2> QED
    BY <2>1, <2>2
<1>20. Numbered(v)
  <2>1. \A d : Things(v, d) = Things(u, d)
    BY <1>19 DEF Things
  <2> QED
    BY <1>2, <1>9, <2>1 DEF Sound, Numbered
<1>21. Heavy(v)
  <2> SUFFICES ASSUME Exactly
               PROVE  Laid(v) /\ Plain(v) /\ \A d \in Char : v.weight[d] = SumFunctionOnSet(Burden(v, d), Obj)
    BY DEF Heavy
  <2>1. Laid(u) /\ Plain(u) /\ \A d \in Char : u.weight[d] = SumFunctionOnSet(Burden(u, d), Obj)
    BY <1>2 DEF Sound, Heavy
  <2>2. Laid(v)
    BY <1>8, <1>9, <2>1, LampsAndSeats DEF Laid
  <2>3. Plain(v)
    <3> SUFFICES ASSUME NEW p \in Obj, v.at[p] \in Obj \ Corpse
                 PROVE  Mult[p] = 100 \/ Inside(v, p) = {}
      BY DEF Plain
    <3>1. u.at[p] = v.at[p]
      BY <1>8, <1>9, NamesDiffer
    <3>2. Inside(v, p) \subseteq Inside(u, p)
      BY <1>8, <1>9, NamesDiffer DEF Inside
    <3> QED
      BY <2>1, <3>1, <3>2 DEF Plain
  <2>4. ASSUME NEW d \in Char
        PROVE  Burden(v, d) = Burden(u, d)
    <3> SUFFICES ASSUME NEW p \in Obj, Home(u, p) = d PROVE Val(v, p) = Val(u, p)
      BY <1>19 DEF Burden
    <3>1. p \notin gone
      <4> SUFFICES ASSUME p \in gone PROVE FALSE
        OBVIOUS
      <4>1. Home(v, p) = Nil
        <5>1. v.at[p] = Nil /\ Outermost(v, p) = p
          BY <1>8, <1>9, <1>11, OutermostIs, NamesDiffer
        <5> QED
          BY <5>1 DEF Home
      <4> QED
        BY <1>19, <4>1, NamesDiffer
    <3>2. v.at[p] = u.at[p] /\ Outermost(v, p) = Outermost(u, p)
      BY <1>8, <1>9, <1>19, <3>1
    <3> QED
      BY <3>2 DEF Val
  <2> QED
    BY <1>9, <2>1, <2>2, <2>3, <2>4
<1>22. Sound(v)
  BY <1>9, <1>11, <1>14, <1>15, <1>16, <1>20, <1>21 DEF Sound, Fit
<1> QED
  BY <1>10, <1>22 DEF v

----------------------------------------------------------------------------
\* In and out of rooms.

\* c is in r now, and on nothing.
Strolled(w, v, c, r) ==
  /\ v.at = w.at /\ v.worn = w.worn /\ v.lit = w.lit
  /\ v.where = [w.where EXCEPT ![c] = r] /\ v.on = [w.on EXCEPT ![c] = Nil]

LEMMA CharFromRoom ==
  ASSUME NEW w, Sound(w), NEW c \in Char, w.where[c] # Nil
  PROVE  Sound(char_from_room(w, c)) /\ Strolled(w, char_from_room(w, c), c, Nil)
<1> DEFINE v == char_from_room(w, c)
           r0 == w.where[c]
           less == IF Shining(w, c) # {} /\ w.light[r0] > 0 THEN 1 ELSE 0
           light == [w.light EXCEPT ![r0] = @ - less]
<1>0. w \in World
  BY SoundIs
<1>1. /\ w.light \in [Room -> Int] /\ w.where \in [Char -> Room \cup {Nil}] /\ r0 \in Room
      /\ w.on \in [Char -> Seat \cup {Nil}]
  BY <1>0, WorldIs
<1>2. v = [w EXCEPT !.light = light, !.where = [w.where EXCEPT ![c] = Nil], !.on = [w.on EXCEPT ![c] = Nil]]
  BY <1>0 DEF char_from_room, World
<1>3. less \in {0, 1} /\ (Lanterns = {} => (less = 1 <=> Shining(w, c) # {}))
  <2>1. Shining(w, c) # {} => c \in Beams(w, r0)
    BY DEF Beams
  <2> QED
    BY <1>1, <2>1, BearersLight
<1> HIDE DEF less
<1>4. light \in [Room -> Int] /\ \A r \in Room : light[r] = w.light[r] - IF r = r0 THEN less ELSE 0
  BY <1>1, <1>3
<1> HIDE DEF v, light
<1>5. [w.where EXCEPT ![c] = Nil] \in [Char -> Room \cup {Nil}] /\ [w.on EXCEPT ![c] = Nil] \in [Char -> Seat \cup {Nil}]
  BY <1>1
<1>6. /\ Strolled(w, v, c, Nil) /\ v.light = light /\ v.number = w.number /\ v.weight = w.weight /\ v \in World
  <2> DEFINE W == [w.where EXCEPT ![c] = Nil]
             N == [w.on EXCEPT ![c] = Nil]
  <2>1. W \in [Char -> Room \cup {Nil}] /\ N \in [Char -> Seat \cup {Nil}]
    BY <1>5
  <2>2. v = [w EXCEPT !.light = light, !.where = W, !.on = N]
    BY <1>2
  <2> HIDE DEF W, N
  <2>3. /\ v.at = w.at /\ v.worn = w.worn /\ v.lit = w.lit /\ v.where = W /\ v.on = N
        /\ v.light = light /\ v.number = w.number /\ v.weight = w.weight /\ v \in World
    BY <1>0, <1>4, <2>1, <2>2 DEF World
  <2> QED
    BY <2>3 DEF Strolled, W, N
<1>7. /\ v.at = w.at /\ v.worn = w.worn /\ v.lit = w.lit
      /\ \A d \in Char : /\ v.where[d] = IF d = c THEN Nil ELSE w.where[d]
                         /\ v.on[d] = IF d = c THEN Nil ELSE w.on[d]
  BY <1>1, <1>6 DEF Strolled
<1>8. Fit(v) /\ Numbered(v) /\ Heavy(v)
  BY <1>6, <1>7, Untouched
<1>9. Carried(v) /\ OneLamp(v)
  BY <1>7 DEF Carried, OneLamp, Sound
<1>10. Seated(v)
  BY <1>7 DEF Seated, Sound
<1>11. Lights(v)
  <2> SUFFICES ASSUME Lanterns = {}, NEW r \in Room
               PROVE  \/ Beams(v, r) = Beams(w, r) /\ v.light[r] = w.light[r]
                      \/ \E d \in Beams(w, r) : Beams(v, r) = Beams(w, r) \ {d} /\ v.light[r] = w.light[r] - 1
    BY LightsFrom
  <2>1. w.light[r] \in Int /\ v.light[r] = w.light[r] - IF r = r0 THEN less ELSE 0
    BY <1>1, <1>4, <1>6
  <2>2. \A d : Shining(v, d) = Shining(w, d)
    BY <1>7 DEF Shining, Inside
  <2>3. Beams(v, r) = Beams(w, r) \ {c}
    BY <1>7, <2>2, NamesDiffer DEF Beams
  <2>4. c \in Beams(w, r) <=> r = r0 /\ less = 1
    BY <1>3 DEF Beams
  <2> HIDE DEF r0
  <2>5. CASE c \in Beams(w, r)
    BY <2>1, <2>3, <2>4, <2>5
  <2>6. CASE c \notin Beams(w, r)
    BY <1>3, <2>1, <2>3, <2>4, <2>6
  <2> QED
    BY <2>5, <2>6
<1> QED
  BY <1>6, <1>8, <1>9, <1>10, <1>11 DEF Sound, v

LEMMA CharToRoom ==
  ASSUME NEW w, Sound(w), NEW c \in Char, w.where[c] = Nil, NEW r0 \in Room
  PROVE  Sound(char_to_room(w, c, r0)) /\ Strolled(w, char_to_room(w, c, r0), c, r0)
<1> DEFINE v == char_to_room(w, c, r0)
           more == IF Shining(w, c) # {} THEN 1 ELSE 0
           light == [w.light EXCEPT ![r0] = @ + more]
<1>0. w \in World
  BY SoundIs
<1>1. /\ w.light \in [Room -> Int] /\ w.where \in [Char -> Room \cup {Nil}]
      /\ w.on \in [Char -> Seat \cup {Nil}]
  BY <1>0, WorldIs
<1>2. v = [w EXCEPT !.where = [w.where EXCEPT ![c] = r0], !.light = light]
  BY <1>0 DEF char_to_room, World
<1>3. more \in {0, 1} /\ (more = 1 <=> Shining(w, c) # {})
  OBVIOUS
<1> HIDE DEF more
<1>4. light \in [Room -> Int] /\ \A r \in Room : light[r] = w.light[r] + IF r = r0 THEN more ELSE 0
  BY <1>1, <1>3
<1> HIDE DEF v, light
<1>5. w.on[c] = Nil
  BY DEF Sound, Seated
<1>6. /\ Strolled(w, v, c, r0) /\ v.light = light /\ v.number = w.number /\ v.weight = w.weight /\ v \in World
  <2> DEFINE W == [w.where EXCEPT ![c] = r0]
  <2>1. W \in [Char -> Room \cup {Nil}] /\ [w.on EXCEPT ![c] = Nil] = w.on
    BY <1>1, <1>5
  <2>2. v = [w EXCEPT !.where = W, !.light = light]
    BY <1>2
  <2> HIDE DEF W
  <2>3. /\ v.at = w.at /\ v.worn = w.worn /\ v.lit = w.lit /\ v.where = W /\ v.on = w.on
        /\ v.light = light /\ v.number = w.number /\ v.weight = w.weight /\ v \in World
    BY <1>0, <1>4, <2>1, <2>2 DEF World
  <2> QED
    BY <2>1, <2>3 DEF Strolled, W
<1>7. /\ v.at = w.at /\ v.worn = w.worn /\ v.lit = w.lit
      /\ \A d \in Char : /\ v.where[d] = IF d = c THEN r0 ELSE w.where[d]
                         /\ v.on[d] = IF d = c THEN Nil ELSE w.on[d]
  BY <1>1, <1>6 DEF Strolled
<1>8. Fit(v) /\ Numbered(v) /\ Heavy(v)
  BY <1>6, <1>7, Untouched
<1>9. Carried(v) /\ OneLamp(v)
  BY <1>7 DEF Carried, OneLamp, Sound
<1>10. Seated(v)
  BY <1>7 DEF Seated, Sound
<1>11. Lights(v)
  <2> SUFFICES ASSUME Lanterns = {}, NEW r \in Room
               PROVE  \/ Beams(v, r) = Beams(w, r) /\ v.light[r] = w.light[r]
                      \/ \E d \in Char \ Beams(w, r) : Beams(v, r) = Beams(w, r) \cup {d} /\ v.light[r] = w.light[r] + 1
    BY LightsFrom
  <2>1. w.light[r] \in Int /\ v.light[r] = w.light[r] + IF r = r0 THEN more ELSE 0
    BY <1>1, <1>4, <1>6
  <2>2. \A d : Shining(v, d) = Shining(w, d)
    BY <1>7 DEF Shining, Inside
  <2>3. c \notin Beams(w, r)
    BY NamesDiffer DEF Beams
  <2>4. Beams(v, r) = Beams(w, r) \cup IF r = r0 /\ more = 1 THEN {c} ELSE {}
    BY <1>3, <1>7, <2>2, <2>3 DEF Beams
  <2>5. CASE r = r0 /\ more = 1
    BY <2>1, <2>3, <2>4, <2>5
  <2>6. CASE ~(r = r0 /\ more = 1)
    BY <1>3, <2>1, <2>4, <2>6
  <2> QED
    BY <2>5, <2>6
<1> QED
  BY <1>6, <1>8, <1>9, <1>10, <1>11 DEF Sound, v

\* Somebody sits down, or gets up.
LEMMA Seating ==
  ASSUME NEW w, Sound(w), NEW c \in Char, NEW o \in Seat \cup {Nil},
         o # Nil => w.where[c] # Nil /\ w.at[o] = w.where[c]
  PROVE  Sound([w EXCEPT !.on[c] = o])
<1> DEFINE N == [w.on EXCEPT ![c] = o]
           v == [w EXCEPT !.on = N]
<1>0. w \in World /\ w.on \in [Char -> Seat \cup {Nil}]
  BY SoundIs, WorldIs
<1>1. N \in [Char -> Seat \cup {Nil}] /\ \A d \in Char : N[d] = IF d = c THEN o ELSE w.on[d]
  BY <1>0
<1> HIDE DEF N
<1>2. /\ v.at = w.at /\ v.worn = w.worn /\ v.lit = w.lit /\ v.where = w.where /\ v.on = N
      /\ v.light = w.light /\ v.number = w.number /\ v.weight = w.weight /\ v \in World
  BY <1>0, <1>1 DEF World
<1> HIDE DEF v
<1>3. Fit(v) /\ Numbered(v) /\ Heavy(v)
  BY <1>2, Untouched
<1>4. Carried(v) /\ OneLamp(v)
  BY <1>2 DEF Carried, OneLamp, Sound
<1>5. Seated(v)
  BY <1>1, <1>2 DEF Seated, Sound
<1>6. \A r : Beams(v, r) = Beams(w, r)
  BY <1>2 DEF Beams, Shining, Inside
<1>7. Lights(v)
  BY <1>2, <1>6 DEF Lights, Sound
<1>8. Sound(v)
  BY <1>3, <1>4, <1>5, <1>7 DEF Sound
<1> QED
  BY <1>8 DEF v, N

\* Lamps that nobody wears are lit.
LEMMA Lighting ==
  ASSUME NEW w, Sound(w), NEW S \in SUBSET Lamp, S \cap w.worn = {}
  PROVE  Sound([w EXCEPT !.lit = @ \cup S])
<1> DEFINE v == [w EXCEPT !.lit = @ \cup S]
<1>0. w \in World /\ w.lit \in SUBSET Lamp
  BY SoundIs, WorldIs
<1>1. /\ v.at = w.at /\ v.worn = w.worn /\ v.lit = w.lit \cup S /\ v.where = w.where /\ v.on = w.on
      /\ v.light = w.light /\ v.number = w.number /\ v.weight = w.weight /\ v \in World
  BY <1>0 DEF World
<1> HIDE DEF v
<1>2. Fit(v) /\ Numbered(v) /\ Heavy(v)
  BY <1>1, Untouched
<1>3. Carried(v) /\ OneLamp(v) /\ Seated(v)
  BY <1>1 DEF Carried, OneLamp, Seated, Sound
<1>4. \A c : Shining(v, c) = Shining(w, c)
  BY <1>1 DEF Shining, Inside
<1>5. \A r : Beams(v, r) = Beams(w, r)
  BY <1>1, <1>4 DEF Beams
<1>6. Lights(v)
  BY <1>1, <1>5 DEF Lights, Sound
<1>7. Sound(v)
  BY <1>2, <1>3, <1>6 DEF Sound
<1> QED
  BY <1>7 DEF v

\* A lamp in a hand goes out, and the room with it.
LEMMA Dimming ==
  ASSUME NEW w, Sound(w), NEW c \in Char, w.where[c] # Nil, NEW o \in Shining(w, c)
  PROVE  LET v == [w EXCEPT !.lit = @ \ {o}, !.light[w.where[c]] = @ - 1]
         IN  Sound(v) /\ v.at = w.at /\ v.worn = w.worn /\ v.where = w.where
<1> DEFINE r0 == w.where[c]
           light == [w.light EXCEPT ![r0] = @ - 1]
           v == [w EXCEPT !.lit = @ \ {o}, !.light = light]
<1>0. /\ w \in World /\ w.lit \in SUBSET Lamp /\ w.light \in [Room -> Int] /\ r0 \in Room
      /\ o \in w.worn /\ o \in w.lit /\ w.at[o] = c
  BY SoundIs, WorldIs DEF Shining, Inside
<1>1. light \in [Room -> Int] /\ \A r \in Room : light[r] = IF r = r0 THEN w.light[r] - 1 ELSE w.light[r]
  BY <1>0
<1> HIDE DEF light
<1>2. /\ v.at = w.at /\ v.worn = w.worn /\ v.lit = w.lit \ {o} /\ v.where = w.where /\ v.on = w.on
      /\ v.light = light /\ v.number = w.number /\ v.weight = w.weight /\ v \in World
  BY <1>0, <1>1 DEF World
<1> HIDE DEF v
<1>3. Fit(v) /\ Numbered(v) /\ Heavy(v)
  BY <1>2, Untouched
<1>4. Carried(v) /\ OneLamp(v) /\ Seated(v)
  BY <1>2 DEF Carried, OneLamp, Seated, Sound
<1>5. Shining(v, c) = {} /\ \A d : d # c => Shining(v, d) = Shining(w, d)
  <2>1. \A p \in Shining(w, c) : p = o
    BY <1>0 DEF Shining, Inside, Sound, OneLamp
  <2>2. \A d : Shining(v, d) = Shining(w, d) \ {o}
    BY <1>2 DEF Shining, Inside
  <2>3. \A d : d # c => o \notin Shining(w, d)
    BY <1>0 DEF Shining, Inside
  <2> QED
    BY <2>1, <2>2, <2>3
<1>6. Lights(v)
  <2> SUFFICES ASSUME Lanterns = {}, NEW r \in Room
               PROVE  \/ Beams(v, r) = Beams(w, r) /\ v.light[r] = w.light[r]
                      \/ \E d \in Beams(w, r) : Beams(v, r) = Beams(w, r) \ {d} /\ v.light[r] = w.light[r] - 1
    BY LightsFrom
  <2>1. CASE r = r0
    <3>1. c \in Beams(w, r)
      BY <2>1 DEF Beams
    <3>2. Beams(v, r) = Beams(w, r) \ {c}
      BY <1>2, <1>5 DEF Beams
    <3> QED
      BY <1>1, <1>2, <2>1, <3>1, <3>2
  <2>2. CASE r # r0
    <3>1. Beams(v, r) = Beams(w, r)
      BY <1>2, <1>5, <2>2 DEF Beams
    <3> QED
      BY <1>1, <1>2, <2>2, <3>1
  <2> QED
    BY <2>1, <2>2
<1>7. Sound(v)
  BY <1>3, <1>4, <1>6 DEF Sound
<1>8. v = [w EXCEPT !.lit = @ \ {o}, !.light[w.where[c]] = @ - 1]
  BY <1>0 DEF v, light, World
<1> QED
  BY <1>2, <1>7, <1>8

----------------------------------------------------------------------------
\* Nothing hangs on what is not in the game, but for those of X and Y, which
\* are on their way.

Held(w, X, Y) ==
  \A o \in Obj : /\ w.at[o] \in Obj => w.at[w.at[o]] # Nil \/ w.at[o] \in Y
                 /\ w.at[o] \in Char => w.where[w.at[o]] # Nil \/ w.at[o] \in X

Good(w, X, Y) == Sound(w) /\ Held(w, X, Y)

LEMMA RelocatedAt ==
  ASSUME NEW w, Sound(w), NEW v, NEW o \in Obj, NEW x, Relocated(w, v, o, x)
  PROVE  /\ \A p \in Obj : v.at[p] = IF p = o THEN x ELSE w.at[p]
         /\ v.worn = w.worn \ {o} /\ v.lit = w.lit /\ v.where = w.where
<1>1. w.at \in [Obj -> Room \cup Char \cup Obj \cup {Nil}]
  BY SoundIs, WorldIs
<1> QED
  BY <1>1 DEF Relocated

\* What is taken up is on its way, until it is put somewhere.
LEMMA TakenUp ==
  ASSUME NEW X, NEW Y, NEW w, Good(w, X, Y), NEW o \in Obj, NEW v, Sound(v), Relocated(w, v, o, Nil)
  PROVE  Good(v, X, Y \cup {o}) /\ v.at[o] = Nil
<1>1. /\ \A p \in Obj : v.at[p] = IF p = o THEN Nil ELSE w.at[p]
      /\ v.where = w.where
  BY RelocatedAt DEF Good
<1>2. Held(v, X, Y \cup {o})
  BY <1>1, NamesDiffer DEF Held, Good
<1> QED
  BY <1>1, <1>2 DEF Good

LEMMA PutDown ==
  ASSUME NEW X, NEW Y, NEW w, Good(w, X, Y), NEW o \in Obj, NEW x \in Room \cup Char \cup Obj,
         x \in Obj => w.at[x] # Nil \/ x \in Y, x \in Char => w.where[x] # Nil \/ x \in X, x # o,
         NEW v, Sound(v), Relocated(w, v, o, x)
  PROVE  Good(v, X, Y \ {o})
<1>1. /\ \A p \in Obj : v.at[p] = IF p = o THEN x ELSE w.at[p]
      /\ v.where = w.where /\ x # Nil
  BY RelocatedAt, NamesDiffer DEF Good
<1>2. Held(v, X, Y \ {o})
  <2> SUFFICES ASSUME NEW p \in Obj
               PROVE  /\ v.at[p] \in Obj => v.at[v.at[p]] # Nil \/ v.at[p] \in Y \ {o}
                      /\ v.at[p] \in Char => v.where[v.at[p]] # Nil \/ v.at[p] \in X
    BY DEF Held
  <2>1. CASE p = o
    BY <1>1, <2>1
  <2>2. CASE p # o
    <3>1. v.at[p] = w.at[p]
      BY <1>1, <2>2
    <3> QED
      BY <1>1, <3>1 DEF Held, Good
  <2> QED
    BY <2>1, <2>2
<1> QED
  BY <1>2 DEF Good

\* Both.
LEMMA Brought ==
  ASSUME NEW X, NEW Y, NEW w, Good(w, X, Y), NEW o \in Obj, NEW x \in Room \cup Char \cup Obj,
         x \in Obj => w.at[x] # Nil \/ x \in Y, x \in Char => w.where[x] # Nil \/ x \in X, x # o,
         NEW u, Sound(u), Relocated(w, u, o, Nil), NEW v, Sound(v), Relocated(u, v, o, x)
  PROVE  Good(v, X, Y \ {o}) /\ Relocated(w, v, o, x)
<1>0. w.at \in [Obj -> Room \cup Char \cup Obj \cup {Nil}] /\ Sound(w)
  BY SoundIs, WorldIs DEF Good
<1>1. Good(u, X, Y \cup {o})
  BY TakenUp
<1>A. u.where = w.where /\ \A p \in Obj : u.at[p] = IF p = o THEN Nil ELSE w.at[p]
  BY <1>0 DEF Relocated
<1>2. x \in Obj => u.at[x] # Nil \/ x \in Y \cup {o}
  BY <1>A
<1>3. x \in Char => u.where[x] # Nil \/ x \in X
  BY <1>A
<1> DEFINE Z == Y \cup {o}
<1>4. Good(v, X, Z \ {o})
  <2> HIDE DEF Z
  <2>1. Good(u, X, Z)
    BY <1>1 DEF Z
  <2>2. x \in Obj => u.at[x] # Nil \/ x \in Z
    BY <1>2 DEF Z
  <2> QED
    BY <1>3, <2>1, <2>2, PutDown
<1>5. Z \ {o} = Y \ {o}
  OBVIOUS
<1>6. Relocated(w, v, o, x)
  BY <1>0 DEF Relocated
<1> QED
  BY <1>4, <1>5, <1>6

\* What is out of the game leaves nothing behind.
LEMMA TakenOut ==
  ASSUME NEW X, NEW Y, NEW w, Good(w, X, Y), NEW o \in Obj
  PROVE  /\ Good(extract_obj(w, o), X, Y \ {o}) /\ Extracted(w, extract_obj(w, o), o)
         /\ \A p \in Obj : /\ extract_obj(w, o).at[p] \in {w.at[p], Nil}
                           /\ p = o => extract_obj(w, o).at[p] = Nil
                           /\ p # o /\ w.at[p] \notin Obj => extract_obj(w, o).at[p] = w.at[p]
<1> DEFINE v == extract_obj(w, o)
<1>1. Sound(v) /\ Extracted(w, v, o)
  BY Extraction DEF Good
<1>2. w.at \in [Obj -> Room \cup Char \cup Obj \cup {Nil}] /\ Rooted(w)
  BY SoundIs, WorldIs DEF Good
<1> HIDE DEF v
<1>3. /\ \A p \in Obj : v.at[p] = IF p \in Within(w, o) THEN Nil ELSE w.at[p]
      /\ v.where = w.where
  BY <1>1 DEF Extracted
<1>4. \A p \in Obj : /\ p \in Within(w, o) <=> p = o \/ (w.at[p] \in Obj /\ w.at[p] \in Within(w, o))
                     /\ o \in Within(w, o)
  BY WithinAre
<1>5. Held(v, X, Y \ {o})
  <2> SUFFICES ASSUME NEW p \in Obj
               PROVE  /\ v.at[p] \in Obj => v.at[v.at[p]] # Nil \/ v.at[p] \in Y \ {o}
                      /\ v.at[p] \in Char => v.where[v.at[p]] # Nil \/ v.at[p] \in X
    BY DEF Held
  <2>1. CASE v.at[p] \in Obj \cup Char
    <3>1. p \notin Within(w, o) /\ v.at[p] = w.at[p]
      BY <1>3, <2>1, NamesDiffer
    <3>2. w.at[p] \in Obj => w.at[p] \notin Within(w, o) /\ w.at[p] # o
      BY <1>4, <3>1
    <3> QED
      BY <1>3, <3>1, <3>2 DEF Held, Good
  <2>2. CASE v.at[p] \notin Obj \cup Char
    BY <2>2
  <2> QED
    BY <2>1, <2>2
<1>6. \A p \in Obj : v.at[p] \in {w.at[p], Nil} /\ (p = o => v.at[p] = Nil) /\ (p # o /\ w.at[p] \notin Obj => v.at[p] = w.at[p])
  BY <1>3, <1>4
<1> QED
  BY <1>1, <1>5, <1>6 DEF Good, v

LEMMA GoodDressed ==
  ASSUME NEW X, NEW Y, NEW w, Good(w, X, Y), NEW v, NEW W, Sound(v), Dressed(w, v, W)
  PROVE  Good(v, X, Y)
BY DEF Good, Held, Dressed

LEMMA StrolledAt ==
  ASSUME NEW w, Sound(w), NEW v, NEW c \in Char, NEW r, Strolled(w, v, c, r)
  PROVE  /\ \A d \in Char : v.where[d] = IF d = c THEN r ELSE w.where[d]
         /\ \A d \in Char : v.on[d] = IF d = c THEN Nil ELSE w.on[d]
         /\ v.at = w.at /\ v.worn = w.worn /\ v.lit = w.lit
<1>1. w.where \in [Char -> Room \cup {Nil}] /\ w.on \in [Char -> Seat \cup {Nil}]
  BY SoundIs, WorldIs
<1> QED
  BY <1>1 DEF Strolled

LEMMA Left ==
  ASSUME NEW X, NEW Y, NEW w, Good(w, X, Y), NEW c \in Char, w.where[c] # Nil
  PROVE  Good(char_from_room(w, c), X \cup {c}, Y) /\ Strolled(w, char_from_room(w, c), c, Nil)
<1> DEFINE v == char_from_room(w, c)
<1>1. Sound(v) /\ Strolled(w, v, c, Nil)
  BY CharFromRoom DEF Good
<1> HIDE DEF v
<1>2. Held(v, X \cup {c}, Y)
  BY <1>1, StrolledAt DEF Held, Good
<1> QED
  BY <1>1, <1>2 DEF Good, v

LEMMA Came ==
  ASSUME NEW X, NEW Y, NEW w, Good(w, X, Y), NEW c \in Char, w.where[c] = Nil, NEW r \in Room
  PROVE  Good(char_to_room(w, c, r), X \ {c}, Y) /\ Strolled(w, char_to_room(w, c, r), c, r)
<1> DEFINE v == char_to_room(w, c, r)
<1>1. Sound(v) /\ Strolled(w, v, c, r)
  BY CharToRoom DEF Good
<1> HIDE DEF v
<1>2. Held(v, X \ {c}, Y)
  BY <1>1, StrolledAt, NamesDiffer DEF Held, Good
<1> QED
  BY <1>1, <1>2 DEF Good, v

----------------------------------------------------------------------------
\* From here to there.

\* What somebody carries is no corpse.
LEMMA NoCorpseInHand ==
  ASSUME NEW w, Sound(w), NEW o \in Obj, w.at[o] \in Char
  PROVE  Exactly => o \notin Corpse
BY SoundIs, NamesDiffer DEF Laid

LEMMA AnyToRoom ==
  ASSUME NEW X, NEW Y, NEW w, Good(w, X, Y), NEW o \in Obj, NEW r \in Room
  PROVE  LET v == obj_to_room(Detach(w, o), o, r) IN Good(v, X, Y \ {o}) /\ Relocated(w, v, o, r)
<1> DEFINE u == Detach(w, o)
           v == obj_to_room(u, o, r)
<1>1. Sound(w) /\ Sound(u) /\ Relocated(w, u, o, Nil)
  BY Detached DEF Good
<1> HIDE DEF u
<1>2. u.at[o] = Nil
  BY <1>1, RelocatedAt
<1>3. Sound(v) /\ Relocated(u, v, o, r)
  BY <1>1, <1>2, ToRoom
<1> HIDE DEF v
<1>4. r \notin Obj /\ r \notin Char /\ r # o
  BY NamesDiffer
<1>5. Good(v, X, Y \ {o}) /\ Relocated(w, v, o, r)
  BY <1>1, <1>3, <1>4, Brought
<1> QED
  BY <1>5 DEF u, v

LEMMA HandToRoom ==
  ASSUME NEW X, NEW Y, NEW w, Good(w, X, Y), NEW o \in Obj, w.at[o] \in Char, NEW r \in Room
  PROVE  LET v == obj_to_room(obj_from_char(w, o), o, r) IN Good(v, X, Y \ {o}) /\ Relocated(w, v, o, r)
<1>1. Detach(w, o) = obj_from_char(w, o)
  BY NamesDiffer DEF Detach
<1> QED
  BY <1>1, AnyToRoom

LEMMA RoomToRoom ==
  ASSUME NEW X, NEW Y, NEW w, Good(w, X, Y), NEW o \in Obj, w.at[o] \in Room, NEW r \in Room
  PROVE  LET v == obj_to_room(obj_from_room(w, o), o, r) IN Good(v, X, Y \ {o}) /\ Relocated(w, v, o, r)
<1>1. Detach(w, o) = obj_from_room(w, o)
  BY NamesDiffer DEF Detach
<1> QED
  BY <1>1, AnyToRoom

LEMMA BagToRoom ==
  ASSUME NEW X, NEW Y, NEW w, Good(w, X, Y), NEW o \in Obj, w.at[o] \in Obj, NEW r \in Room
  PROVE  LET v == obj_to_room(obj_from_obj(w, o), o, r) IN Good(v, X, Y \ {o}) /\ Relocated(w, v, o, r)
<1>1. Detach(w, o) = obj_from_obj(w, o)
  BY NamesDiffer DEF Detach
<1> QED
  BY <1>1, AnyToRoom

LEMMA AnyToHand ==
  ASSUME NEW X, NEW Y, NEW w, Good(w, X, Y), NEW o \in Obj, Exactly => o \notin Corpse,
         NEW c \in Char, w.where[c] # Nil \/ c \in X
  PROVE  LET v == obj_to_char(Detach(w, o), o, c) IN Good(v, X, Y \ {o}) /\ Relocated(w, v, o, c)
<1> DEFINE u == Detach(w, o)
           v == obj_to_char(u, o, c)
<1>1. Sound(w) /\ Sound(u) /\ Relocated(w, u, o, Nil)
  BY Detached DEF Good
<1> HIDE DEF u
<1>2. u.at[o] = Nil
  BY <1>1, RelocatedAt
<1>3. Sound(v) /\ Relocated(u, v, o, c)
  BY <1>1, <1>2, ToChar
<1> HIDE DEF v
<1>4. c \notin Obj /\ c # o
  BY NamesDiffer
<1>5. Good(v, X, Y \ {o}) /\ Relocated(w, v, o, c)
  BY <1>1, <1>3, <1>4, Brought
<1> QED
  BY <1>5 DEF u, v

LEMMA HandToHand ==
  ASSUME NEW X, NEW Y, NEW w, Good(w, X, Y), NEW o \in Obj, w.at[o] \in Char,
         NEW c \in Char, w.where[c] # Nil \/ c \in X
  PROVE  LET v == obj_to_char(obj_from_char(w, o), o, c) IN Good(v, X, Y \ {o}) /\ Relocated(w, v, o, c)
<1>1. Detach(w, o) = obj_from_char(w, o)
  BY NamesDiffer DEF Detach
<1>2. Exactly => o \notin Corpse
  BY NoCorpseInHand DEF Good
<1> QED
  BY <1>1, <1>2, AnyToHand

LEMMA RoomToHand ==
  ASSUME NEW X, NEW Y, NEW w, Good(w, X, Y), NEW o \in Obj, w.at[o] \in Room, o \notin Rootbound,
         NEW c \in Char, w.where[c] # Nil \/ c \in X
  PROVE  LET v == obj_to_char(obj_from_room(w, o), o, c) IN Good(v, X, Y \ {o}) /\ Relocated(w, v, o, c)
<1>1. Detach(w, o) = obj_from_room(w, o)
  BY NamesDiffer DEF Detach
<1>2. Exactly => o \notin Corpse
  BY DEF Exactly
<1> QED
  BY <1>1, <1>2, AnyToHand

LEMMA BagToHand ==
  ASSUME NEW X, NEW Y, NEW w, Good(w, X, Y), NEW o \in Obj, w.at[o] \in Obj, o \notin Rootbound,
         NEW c \in Char, w.where[c] # Nil \/ c \in X
  PROVE  LET v == obj_to_char(obj_from_obj(w, o), o, c) IN Good(v, X, Y \ {o}) /\ Relocated(w, v, o, c)
<1>1. Detach(w, o) = obj_from_obj(w, o)
  BY NamesDiffer DEF Detach
<1>2. Exactly => o \notin Corpse
  BY DEF Exactly
<1> QED
  BY <1>1, <1>2, AnyToHand

\* Into something that hangs on no object.
LEMMA HandToBag ==
  ASSUME NEW X, NEW Y, NEW w, Good(w, X, Y), NEW o \in Obj, w.at[o] \in Char,
         NEW b \in Obj, b # o, w.at[b] \notin Obj, w.at[b] # Nil \/ b \in Y,
         Exactly => b \in Corpse \/ Bare(w, o)
  PROVE  LET v == obj_to_obj(obj_from_char(w, o), o, b) IN Good(v, X, Y \ {o}) /\ Relocated(w, v, o, b)
<1> DEFINE u == obj_from_char(w, o)
           v == obj_to_obj(u, o, b)
<1>1. Sound(w) /\ Sound(u) /\ Relocated(w, u, o, Nil)
  BY FromChar DEF Good
<1> HIDE DEF u
<1>2. \A p \in Obj : u.at[p] = IF p = o THEN Nil ELSE w.at[p]
  BY <1>1, RelocatedAt
<1>3. Inside(u, o) \subseteq Inside(w, o)
  BY <1>2, NamesDiffer DEF Inside
<1>4. Exactly => o \notin Corpse /\ (b \in Corpse \/ Bare(u, o))
  BY <1>1, <1>3, NoCorpseInHand DEF Bare
<1>5. Sound(v) /\ Relocated(u, v, o, b)
  BY <1>1, <1>2, <1>4, ToObj
<1> HIDE DEF v
<1>6. b \notin Char
  BY NamesDiffer
<1>7. Good(v, X, Y \ {o}) /\ Relocated(w, v, o, b)
  BY <1>1, <1>5, <1>6, Brought
<1> QED
  BY <1>7 DEF u, v

\* get_obj takes it or leaves it.
LEMMA Getting ==
  ASSUME NEW w, Good(w, {}, {}), NEW c \in Char, w.where[c] # Nil, NEW o \in Obj, w.at[o] \in Room
  PROVE  LET v == get_obj(w, c, o)
         IN  Good(v, {}, {}) /\ (v = w \/ Relocated(w, v, o, c))
<1>1. {} \ {o} = {}
  OBVIOUS
<1>2. CASE get_obj(w, c, o) = w
  BY <1>2
<1>3. CASE o \notin Rootbound /\ get_obj(w, c, o) = obj_to_char(obj_from_room(w, o), o, c)
  <2>1. Good(obj_to_char(obj_from_room(w, o), o, c), {}, {} \ {o})
        /\ Relocated(w, obj_to_char(obj_from_room(w, o), o, c), o, c)
    BY <1>3, RoomToHand
  <2> QED
    BY <1>1, <1>3, <2>1
<1> QED
  BY <1>2, <1>3 DEF get_obj

----------------------------------------------------------------------------
\* The loops.

LEMMA HeldMore ==
  ASSUME NEW X, NEW Y, NEW w, Good(w, X, Y), NEW V, NEW Z, X \subseteq V, Y \subseteq Z
  PROVE  Good(w, V, Z)
BY DEF Good, Held

\* Objects taken out of the game, in any order.
LEMMA ExtractAll ==
  ASSUME NEW X, NEW Y, NEW w, Good(w, X, Y), NEW S \in SUBSET Obj
  PROVE  LET v == extract_all(w, S)
         IN  /\ Good(v, X, Y) /\ v.where = w.where
             /\ \A p \in Obj : v.at[p] \in {w.at[p], Nil} /\ (p \in S => v.at[p] = Nil)
<1> DEFINE Do == [o \in Obj |-> [v \in World |-> extract_obj(v, o)]]
           P(v, s) == /\ Good(v, X, Y) /\ v.where = w.where
                      /\ \A p \in Obj : v.at[p] \in {w.at[p], Nil} /\ (p \in s => v.at[p] = Nil)
           K == [s \in SUBSET S |-> {v \in World : P(v, s)}]
<1>1. w \in K[{}]
  BY SoundIs DEF Good
<1>2. Advances(S, K, Do)
  <2> SUFFICES ASSUME NEW s \in SUBSET S, NEW x \in S \ s, NEW u \in K[s]
               PROVE  Do[x][u] \in K[s \cup {x}]
    BY DEF Advances
  <2> DEFINE v == extract_obj(u, x)
  <2>1. u \in World /\ P(u, s) /\ x \in Obj /\ s \cup {x} \in SUBSET S
    OBVIOUS
  <2>2. Do[x][u] = v
    BY <2>1
  <2> HIDE DEF Do
  <2>3. /\ Good(v, X, Y \ {x}) /\ Extracted(u, v, x)
        /\ \A p \in Obj : v.at[p] \in {u.at[p], Nil} /\ (p = x => v.at[p] = Nil)
    BY <2>1, TakenOut
  <2> HIDE DEF v
  <2>4. Y \ {x} \subseteq Y /\ X \subseteq X
    OBVIOUS
  <2>5. Good(v, X, Y)
    BY <2>3, <2>4, HeldMore
  <2>6. v \in World
    BY <2>5, SoundIs DEF Good
  <2>7. P(v, s \cup {x})
    BY <2>1, <2>3, <2>5 DEF Extracted
  <2> QED
    BY <2>1, <2>2, <2>6, <2>7
<1> HIDE DEF K, Do
<1>3. Over(S, w, Do) \in K[S]
  BY <1>1, <1>2, ObjsAreFinite, OverArrives
<1> QED
  BY <1>3 DEF K, Do, extract_all

\* Somebody leaves with all he carries.
LEMMA ExtractChar ==
  ASSUME NEW Y, NEW w, Good(w, {}, Y), NEW c \in Char, w.where[c] # Nil
  PROVE  LET v == extract_char(w, c)
         IN  /\ Good(v, {}, Y) /\ \A d \in Char : v.where[d] = IF d = c THEN Nil ELSE w.where[d]
             /\ \A p \in Obj : v.at[p] \in {w.at[p], Nil}
<1> DEFINE u == char_from_room(w, c)
           S == Inside(w, c)
           v == extract_all(u, S)
<1>1. Good(u, {c}, Y) /\ u.at = w.at /\ \A d \in Char : u.where[d] = IF d = c THEN Nil ELSE w.where[d]
  <2>1. Good(u, {} \cup {c}, Y) /\ Strolled(w, u, c, Nil)
    BY Left
  <2>2. {} \cup {c} = {c} /\ Sound(w)
    BY DEF Good
  <2> QED
    BY <2>1, <2>2, StrolledAt
<1> HIDE DEF u
<1>2. S \in SUBSET Obj /\ \A p \in Obj : p \in S <=> w.at[p] = c
  BY DEF Inside
<1>3. v = extract_char(w, c)
  BY DEF extract_char, u
<1> HIDE DEF S
<1>4. /\ Good(v, {c}, Y) /\ v.where = u.where
      /\ \A p \in Obj : v.at[p] \in {u.at[p], Nil} /\ (p \in S => v.at[p] = Nil)
  BY <1>1, <1>2, ExtractAll
<1> HIDE DEF v
<1>5. \A p \in Obj : v.at[p] # c
  BY <1>1, <1>2, <1>4, NamesDiffer
<1>6. Good(v, {}, Y)
  BY <1>4, <1>5 DEF Good, Held
<1> QED
  BY <1>1, <1>3, <1>4, <1>6

LEMMA Purging ==
  ASSUME NEW w, Good(w, {}, {}), NEW c \in Char, w.where[c] # Nil
  PROVE  Good(Purged(w, c), {}, {})
<1> DEFINE mobs == {v \in Mob \ {c} : w.where[v] = w.where[c]}
           Do == [v \in Char |-> [u \in World |-> extract_char(u, v)]]
           P(v, s) == Good(v, {}, {}) /\ \A d \in Char : v.where[d] = IF d \in s THEN Nil ELSE w.where[d]
           K == [s \in SUBSET mobs |-> {v \in World : P(v, s)}]
           rid == Over(mobs, w, Do)
<1>0. mobs \in SUBSET Char /\ \A d \in mobs : w.where[d] # Nil
  BY ObjectsConstants
<1> HIDE DEF mobs
<1>1. w \in K[{}]
  BY SoundIs DEF Good
<1>2. Advances(mobs, K, Do)
  <2> SUFFICES ASSUME NEW s \in SUBSET mobs, NEW x \in mobs \ s, NEW u \in K[s]
               PROVE  Do[x][u] \in K[s \cup {x}]
    BY DEF Advances
  <2> DEFINE v == extract_char(u, x)
  <2>1. u \in World /\ P(u, s) /\ x \in Char /\ s \cup {x} \in SUBSET mobs
    BY <1>0
  <2>2. Do[x][u] = v
    BY <2>1
  <2> HIDE DEF Do
  <2>3. u.where[x] # Nil
    BY <1>0, <2>1
  <2>4. Good(v, {}, {}) /\ \A d \in Char : v.where[d] = IF d = x THEN Nil ELSE u.where[d]
    BY <2>1, <2>3, ExtractChar
  <2> HIDE DEF v
  <2>5. v \in World
    BY <2>4, SoundIs DEF Good
  <2>6. P(v, s \cup {x})
    BY <2>1, <2>4
  <2> QED
    BY <2>1, <2>2, <2>5, <2>6
<1> HIDE DEF K, Do
<1>3. rid \in K[mobs]
  BY <1>0, <1>1, <1>2, CharsAreFinite, OverArrives
<1>4. Good(rid, {}, {})
  BY <1>3 DEF K
<1> HIDE DEF rid
<1>5. Inside(rid, w.where[c]) \ NoPurge \in SUBSET Obj
  BY DEF Inside
<1>6. Good(extract_all(rid, Inside(rid, w.where[c]) \ NoPurge), {}, {})
  BY <1>4, <1>5, ExtractAll
<1> QED
  BY <1>6 DEF Purged, rid, mobs, Do

\* What was in o is in r, and nothing else is moved.
LEMMA Spilling ==
  ASSUME NEW X, NEW Y, NEW w, Good(w, X, Y), NEW o \in Obj, NEW r \in Room
  PROVE  LET v == Spilled(w, o, r)
         IN  /\ Good(v, X, Y) /\ v.where = w.where
             /\ \A p \in Obj : v.at[p] = IF w.at[p] = o THEN r ELSE w.at[p]
<1> DEFINE S == Inside(w, o)
           Do == [p \in Obj |-> [v \in World |-> obj_to_room(obj_from_obj(v, p), p, r)]]
           P(v, s) == /\ Good(v, X, Y) /\ v.where = w.where
                      /\ \A p \in Obj : v.at[p] = IF p \in s THEN r ELSE w.at[p]
           K == [s \in SUBSET S |-> {v \in World : P(v, s)}]
<1>0. S \in SUBSET Obj /\ \A p \in Obj : p \in S <=> w.at[p] = o
  BY DEF Inside
<1> HIDE DEF S
<1>1. w \in K[{}]
  BY SoundIs DEF Good
<1>2. Advances(S, K, Do)
  <2> SUFFICES ASSUME NEW s \in SUBSET S, NEW x \in S \ s, NEW u \in K[s]
               PROVE  Do[x][u] \in K[s \cup {x}]
    BY DEF Advances
  <2> DEFINE v == obj_to_room(obj_from_obj(u, x), x, r)
  <2>1. u \in World /\ P(u, s) /\ x \in Obj /\ s \cup {x} \in SUBSET S /\ u.at[x] = o
    BY <1>0
  <2>2. Do[x][u] = v
    BY <2>1
  <2> HIDE DEF Do
  <2>3. Good(v, X, Y \ {x}) /\ Relocated(u, v, x, r)
    BY <2>1, BagToRoom
  <2> HIDE DEF v
  <2>4. Y \ {x} \subseteq Y /\ X \subseteq X /\ Sound(u)
    BY <2>1 DEF Good
  <2>5. Good(v, X, Y)
    BY <2>3, <2>4, HeldMore
  <2>6. v \in World
    BY <2>5, SoundIs DEF Good
  <2>7. v.where = u.where /\ \A p \in Obj : v.at[p] = IF p = x THEN r ELSE u.at[p]
    BY <2>1, <2>3, <2>4, RelocatedAt
  <2>8. P(v, s \cup {x})
    BY <2>1, <2>5, <2>7
  <2> QED
    BY <2>1, <2>2, <2>6, <2>8
<1> HIDE DEF K, Do
<1>3. Over(S, w, Do) \in K[S]
  BY <1>0, <1>1, <1>2, ObjsAreFinite, OverArrives
<1>4. Over(S, w, Do) = Spilled(w, o, r)
  BY DEF Spilled, Do, S
<1> QED
  BY <1>0, <1>3, <1>4 DEF K

\* o is gone and what was in it in the room; what else lies in rooms stays.
LEMMA Corroding ==
  ASSUME NEW w, Good(w, {}, {}), NEW o \in Obj, w.at[o] \in Room \cup Char
  PROVE  LET v == Corroded(w, o)
         IN  /\ Good(v, {}, {}) /\ v.where = w.where
             /\ \A p \in Obj : p # o /\ (w.at[p] \in Room \/ w.at[p] = o) => v.at[p] \in Room
<1> DEFINE r == IF w.at[o] \in Room THEN w.at[o] ELSE w.where[w.at[o]]
           u == Spilled(w, o, r)
           v == extract_obj(u, o)
<1>1. r \in Room
  <2>1. w.where \in [Char -> Room \cup {Nil}]
    BY SoundIs, WorldIs DEF Good
  <2> QED
    BY <2>1, NamesDiffer DEF Good, Held
<1>2. v = Corroded(w, o)
  BY DEF Corroded
<1> HIDE DEF r
<1>3. Good(u, {}, {}) /\ u.where = w.where /\ \A p \in Obj : u.at[p] = IF w.at[p] = o THEN r ELSE w.at[p]
  BY <1>1, Spilling
<1> HIDE DEF u
<1>4. /\ Good(v, {}, {} \ {o}) /\ Extracted(u, v, o)
      /\ \A p \in Obj : p # o /\ u.at[p] \notin Obj => v.at[p] = u.at[p]
  BY <1>3, TakenOut
<1> HIDE DEF v
<1>5. {} \ {o} = {}
  OBVIOUS
<1>6. Good(v, {}, {}) /\ v.where = w.where
  BY <1>3, <1>4, <1>5 DEF Extracted
<1>7. \A p \in Obj : p # o /\ (w.at[p] \in Room \/ w.at[p] = o) => v.at[p] \in Room
  BY <1>1, <1>3, <1>4, NamesDiffer
<1> QED
  BY <1>2, <1>6, <1>7

\* Objects that lie in rooms.
Lying(w, S) == \A p \in S : w.at[p] \in Room

LEMMA CorrodeAll ==
  ASSUME NEW w, Good(w, {}, {}), NEW S \in SUBSET Obj, Lying(w, S)
  PROVE  Good(corrode_all(w, S), {}, {})
<1> DEFINE Do == [o \in Obj |-> [v \in World |-> Corroded(v, o)]]
           P(v, s) == Good(v, {}, {}) /\ \A p \in S \ s : v.at[p] \in Room
           K == [s \in SUBSET S |-> {v \in World : P(v, s)}]
<1>1. w \in K[{}]
  BY SoundIs DEF Good, Lying
<1>2. Advances(S, K, Do)
  <2> SUFFICES ASSUME NEW s \in SUBSET S, NEW x \in S \ s, NEW u \in K[s]
               PROVE  Do[x][u] \in K[s \cup {x}]
    BY DEF Advances
  <2> DEFINE v == Corroded(u, x)
  <2>1. u \in World /\ P(u, s) /\ x \in Obj /\ s \cup {x} \in SUBSET S /\ u.at[x] \in Room
    OBVIOUS
  <2>2. Do[x][u] = v
    BY <2>1
  <2> HIDE DEF Do
  <2>3. Good(v, {}, {}) /\ \A p \in Obj : p # x /\ u.at[p] \in Room => v.at[p] \in Room
    BY <2>1, Corroding
  <2> HIDE DEF v
  <2>4. v \in World
    BY <2>3, SoundIs DEF Good
  <2>5. P(v, s \cup {x})
    BY <2>1, <2>3
  <2> QED
    BY <2>1, <2>2, <2>4, <2>5
<1> HIDE DEF K, Do
<1>3. Over(S, w, Do) \in K[S]
  BY <1>1, <1>2, ObjsAreFinite, OverArrives
<1> QED
  BY <1>3 DEF K, Do, corrode_all

\* What falls to the ground at death.
LEMMA Dropping ==
  ASSUME NEW w, Good(w, {}, {}), NEW c \in Char, w.where[c] # Nil
  PROVE  LET v == Dropped(w, c)
         IN  /\ Good(v, {}, {}) /\ v.where = w.where
             /\ \A p \in Obj : v.at[p] \in {w.at[p], w.where[c]} /\ (w.at[p] # c => v.at[p] = w.at[p])
<1> DEFINE S == Inside(w, c) \cap DeathDrop
           Do == [o \in Obj |-> [v \in World |-> obj_to_room(obj_from_char(v, o), o, v.where[c])]]
           P(v, s) == /\ Good(v, {}, {}) /\ v.where = w.where
                      /\ \A p \in Obj : v.at[p] = IF p \in s THEN w.where[c] ELSE w.at[p]
           K == [s \in SUBSET S |-> {v \in World : P(v, s)}]
<1>0. S \in SUBSET Obj /\ \A p \in S : w.at[p] = c
  BY DEF Inside
<1>A. w.where[c] \in Room
  BY SoundIs, WorldIs DEF Good
<1> HIDE DEF S
<1>1. w \in K[{}]
  BY SoundIs DEF Good
<1>2. Advances(S, K, Do)
  <2> SUFFICES ASSUME NEW s \in SUBSET S, NEW x \in S \ s, NEW u \in K[s]
               PROVE  Do[x][u] \in K[s \cup {x}]
    BY DEF Advances
  <2> DEFINE v == obj_to_room(obj_from_char(u, x), x, u.where[c])
  <2>1. u \in World /\ P(u, s) /\ x \in Obj /\ s \cup {x} \in SUBSET S /\ u.at[x] = c
    BY <1>0
  <2>2. Do[x][u] = v
    BY <2>1
  <2> HIDE DEF Do
  <2>3. Good(v, {}, {} \ {x}) /\ Relocated(u, v, x, w.where[c])
    BY <1>A, <2>1, HandToRoom
  <2> HIDE DEF v
  <2>4. {} \ {x} = {} /\ Sound(u)
    BY <2>1 DEF Good
  <2>5. Good(v, {}, {})
    BY <2>3, <2>4
  <2>6. v \in World
    BY <2>5, SoundIs DEF Good
  <2>7. v.where = u.where /\ \A p \in Obj : v.at[p] = IF p = x THEN w.where[c] ELSE u.at[p]
    BY <2>1, <2>3, <2>4, RelocatedAt
  <2>8. P(v, s \cup {x})
    BY <2>1, <2>5, <2>7
  <2> QED
    BY <2>1, <2>2, <2>6, <2>8
<1> HIDE DEF K, Do
<1>3. Over(S, w, Do) \in K[S]
  BY <1>0, <1>1, <1>2, ObjsAreFinite, OverArrives
<1>4. Over(S, w, Do) = Dropped(w, c)
  BY DEF Dropped, Do, S
<1> QED
  BY <1>0, <1>3, <1>4 DEF K

\* The body is laid down with all the dead had.
LEMMA MakingCorpse ==
  ASSUME NEW w, Good(w, {}, {}), NEW c \in Char, w.where[c] # Nil, NEW corpse \in Corpse, w.at[corpse] = Nil
  PROVE  LET v == make_corpse(w, c, corpse) IN Good(v, {}, {}) /\ v.where = w.where
<1> DEFINE move(v, o) == LET free == obj_from_char(v, o)
                         IN  IF o \in Stock THEN extract_obj(free, o) ELSE obj_to_obj(free, o, corpse)
           S == Inside(w, c)
           Do == [o \in Obj |-> [v \in World |-> move(v, o)]]
           P(v, s) == /\ Good(v, {}, {corpse}) /\ v.where = w.where /\ v.at[corpse] = Nil
                      /\ \A p \in S \ s : v.at[p] = c
           K == [s \in SUBSET S |-> {v \in World : P(v, s)}]
<1>0. S \in SUBSET Obj /\ (\A p \in S : w.at[p] = c) /\ corpse \in Obj /\ w.where[c] \in Room
  BY SoundIs, WorldIs, LampsAndSeats DEF Inside, Good
<1> HIDE DEF S
<1>1. w \in K[{}]
  <2>1. Good(w, {}, {corpse})
    BY HeldMore
  <2>2. w \in World
    BY <2>1, SoundIs DEF Good
  <2> QED
    BY <1>0, <2>1, <2>2
<1>2. Advances(S, K, Do)
  <2> SUFFICES ASSUME NEW s \in SUBSET S, NEW x \in S \ s, NEW u \in K[s]
               PROVE  Do[x][u] \in K[s \cup {x}]
    BY DEF Advances
  <2> DEFINE bare == obj_from_char(u, x)
             v == move(u, x)
  <2>1. u \in World /\ P(u, s) /\ x \in Obj /\ s \cup {x} \in SUBSET S /\ u.at[x] = c
    BY <1>0
  <2>2. Do[x][u] = v
    BY <2>1
  <2> HIDE DEF Do
  <2>3. x # corpse /\ Sound(u) /\ c \notin Obj
    BY <2>1, NamesDiffer DEF Good
  <2>4. P(v, s \cup {x})
    <3>1. CASE x \in Stock
      <4>1. v = extract_obj(bare, x)
        BY <3>1
      <4>2. Sound(bare) /\ Relocated(u, bare, x, Nil)
        BY <2>1, <2>3, FromChar
      <4> HIDE DEF bare, v
      <4>3. bare.where = u.where /\ \A p \in Obj : bare.at[p] = IF p = x THEN Nil ELSE u.at[p]
        <5>1. x \in Obj /\ u.at \in [Obj -> Room \cup Char \cup Obj \cup {Nil}]
          BY <2>1, <2>3, SoundIs, WorldIs
        <5> QED
          BY <4>2, <5>1 DEF Relocated
      <4>4. Good(bare, {}, {corpse} \cup {x})
        BY <2>1, <4>2, TakenUp
      <4>5. /\ Good(v, {}, ({corpse} \cup {x}) \ {x}) /\ Extracted(bare, v, x)
            /\ \A p \in Obj : p # x /\ bare.at[p] \notin Obj => v.at[p] = bare.at[p]
        BY <2>1, <4>1, <4>4, TakenOut
      <4>6. Good(v, {}, {corpse})
        BY <4>5, HeldMore
      <4>7. v.where = w.where
        BY <2>1, <4>3, <4>5 DEF Extracted
      <4>8. v.at[corpse] = Nil
        BY <1>0, <2>1, <2>3, <4>3, <4>5, NamesDiffer
      <4>9. \A p \in S \ (s \cup {x}) : v.at[p] = c
        BY <1>0, <2>1, <2>3, <4>3, <4>5
      <4> QED
        BY <4>6, <4>7, <4>8, <4>9
    <3>2. CASE x \notin Stock
      <4>1. v = obj_to_obj(bare, x, corpse)
        BY <3>2
      <4>2. u.at[corpse] \notin Obj /\ corpse \in {corpse} /\ Good(u, {}, {corpse})
        BY <2>1, NamesDiffer
      <4>3. Good(v, {}, {corpse} \ {x}) /\ Relocated(u, v, x, corpse)
        BY <1>0, <2>1, <2>3, <4>1, <4>2, HandToBag
      <4> HIDE DEF bare, v
      <4>4. v.where = u.where /\ \A p \in Obj : v.at[p] = IF p = x THEN corpse ELSE u.at[p]
        BY <2>1, <2>3, <4>3, RelocatedAt
      <4>5. Good(v, {}, {corpse})
        BY <4>3, HeldMore
      <4> QED
        BY <1>0, <2>1, <2>3, <4>4, <4>5
    <3> QED
      BY <3>1, <3>2
  <2> HIDE DEF v
  <2>5. v \in World
    BY <2>4, SoundIs DEF Good
  <2> QED
    BY <2>1, <2>2, <2>4, <2>5
<1> HIDE DEF K, Do
<1> DEFINE y == Over(S, w, Do)
           v == obj_to_room(y, corpse, w.where[c])
<1>3. y \in K[S]
  BY <1>0, <1>1, <1>2, ObjsAreFinite, OverArrives
<1>4. v = make_corpse(w, c, corpse)
  BY DEF make_corpse, Do, S
<1> HIDE DEF y
<1>5. Good(y, {}, {corpse}) /\ y.where = w.where /\ y.at[corpse] = Nil
  BY <1>3 DEF K
<1>6. Sound(v) /\ Relocated(y, v, corpse, w.where[c])
  BY <1>0, <1>5, ToRoom DEF Good
<1> HIDE DEF v
<1>7. w.where[c] \notin Obj /\ w.where[c] \notin Char /\ w.where[c] # corpse
  BY <1>0, NamesDiffer
<1>8. Good(v, {}, {corpse} \ {corpse})
  BY <1>0, <1>5, <1>6, <1>7, PutDown
<1>9. {corpse} \ {corpse} = {}
  OBVIOUS
<1>10. v.where = w.where
  BY <1>5, <1>6 DEF Relocated
<1> QED
  BY <1>4, <1>8, <1>9, <1>10

\* Objects not in the game, in somebody's hands, of full weight in anything;
\* one without clothes, lamps of which one at most is put on.
Unmet(w, T) == \A p \in T : w.at[p] = Nil
InHand(w, c, T) == \A p \in T : w.at[p] = c
Level(T) == \A p \in T : Mult[p] = 100
Naked(w, c) == \A p \in w.worn : w.at[p] # c
Single(T) == \A o, p \in T \cap Lamp : o = p

Handed(w, c, T) == Over(T, w, [o \in Obj |-> [v \in World |-> obj_to_char(v, o, c)]])
Filled(w, bag, T) == Over(T, w, [o \in Obj |-> [v \in World |-> obj_to_obj(v, o, bag)]])
Clothed(w, c, T) == Over(T, w, [o \in Obj |-> [v \in World |-> equip_char(v, c, o)]])

\* Of all objects those of T have been moved, and they are at x.
Given(w, v, T, x) == \A p \in Obj : v.at[p] = IF p \in T THEN x ELSE w.at[p]

\* What is made for c is in its hands.
LEMMA HandingOut ==
  ASSUME NEW w, NEW c \in Char, Good(w, {c}, {}), NEW T \in SUBSET (Obj \ Corpse), Unmet(w, T)
  PROVE  LET v == Handed(w, c, T)
         IN  /\ Good(v, {c}, {}) /\ v.where = w.where /\ v.worn = w.worn
             /\ Given(w, v, T, c)
<1> DEFINE Do == [o \in Obj |-> [v \in World |-> obj_to_char(v, o, c)]]
           P(v, s) == /\ Good(v, {c}, {}) /\ v.where = w.where /\ v.worn = w.worn
                      /\ \A p \in Obj : v.at[p] = IF p \in s THEN c ELSE w.at[p]
           K == [s \in SUBSET T |-> {v \in World : P(v, s)}]
<1>0. T \in SUBSET Obj
  OBVIOUS
<1>1. w \in K[{}]
  BY SoundIs DEF Good
<1>2. Advances(T, K, Do)
  <2> SUFFICES ASSUME NEW s \in SUBSET T, NEW x \in T \ s, NEW u \in K[s]
               PROVE  Do[x][u] \in K[s \cup {x}]
    BY DEF Advances
  <2> DEFINE v == obj_to_char(u, x, c)
  <2>1. u \in World /\ P(u, s) /\ x \in Obj \ Corpse /\ s \cup {x} \in SUBSET T /\ u.at[x] = Nil
    BY DEF Unmet
  <2>2. Do[x][u] = v
    BY <2>1
  <2> HIDE DEF Do
  <2>3. Sound(u) /\ Good(u, {c}, {}) /\ x # c /\ c \notin Obj /\ x \notin u.worn
    BY <2>1, Loose, NamesDiffer DEF Good
  <2>4. Sound(v) /\ Relocated(u, v, x, c)
    BY <2>1, <2>3, ToChar
  <2> HIDE DEF v
  <2>5. Good(v, {c}, {} \ {x})
    BY <2>1, <2>3, <2>4, PutDown
  <2>6. {} \ {x} = {}
    OBVIOUS
  <2>7. v.where = u.where /\ v.worn = u.worn /\ \A p \in Obj : v.at[p] = IF p = x THEN c ELSE u.at[p]
    <3>1. u.at \in [Obj -> Room \cup Char \cup Obj \cup {Nil}]
      BY <2>3, SoundIs, WorldIs
    <3> QED
      BY <2>1, <2>3, <2>4, <3>1 DEF Relocated
  <2>8. v \in World
    BY <2>4, SoundIs
  <2>9. P(v, s \cup {x})
    BY <2>1, <2>5, <2>6, <2>7
  <2> QED
    BY <2>1, <2>2, <2>8, <2>9
<1> HIDE DEF K, Do
<1>3. Over(T, w, Do) \in K[T]
  BY <1>0, <1>1, <1>2, ObjsAreFinite, OverArrives
<1> QED
  BY <1>3 DEF K, Do, Handed, Given

\* What is made for a bag is in the bag.
LEMMA Filling ==
  ASSUME NEW w, NEW c \in Char, Good(w, {c}, {}), NEW bag \in Obj, w.at[bag] = c,
         NEW in \in SUBSET (Obj \ Corpse), Unmet(w, in), Level(in)
  PROVE  LET v == Filled(w, bag, in)
         IN  /\ Good(v, {c}, {}) /\ v.where = w.where /\ v.worn = w.worn
             /\ Given(w, v, in, bag)
<1> DEFINE Do == [o \in Obj |-> [v \in World |-> obj_to_obj(v, o, bag)]]
           P(v, s) == /\ Good(v, {c}, {}) /\ v.where = w.where /\ v.worn = w.worn
                      /\ \A p \in Obj : v.at[p] = IF p \in s THEN bag ELSE w.at[p]
           K == [s \in SUBSET in |-> {v \in World : P(v, s)}]
<1>0. in \in SUBSET Obj /\ c \notin Obj /\ c # Nil /\ bag \notin in
  BY NamesDiffer DEF Unmet
<1>1. w \in K[{}]
  BY SoundIs DEF Good
<1>2. Advances(in, K, Do)
  <2> SUFFICES ASSUME NEW s \in SUBSET in, NEW x \in in \ s, NEW u \in K[s]
               PROVE  Do[x][u] \in K[s \cup {x}]
    BY DEF Advances
  <2> DEFINE v == obj_to_obj(u, x, bag)
  <2>1. /\ u \in World /\ P(u, s) /\ x \in Obj \ Corpse /\ s \cup {x} \in SUBSET in /\ u.at[x] = Nil
        /\ Mult[x] = 100 /\ u.at[bag] = c
    BY <1>0 DEF Unmet, Level
  <2>2. Do[x][u] = v
    BY <2>1
  <2> HIDE DEF Do
  <2>3. Sound(u) /\ Good(u, {c}, {}) /\ bag # x /\ bag \notin Char /\ u.at[bag] \notin Obj /\ u.at[bag] # Nil /\ x \notin u.worn
    BY <1>0, <2>1, Loose, NamesDiffer DEF Good
  <2>4. Exactly => x \notin Corpse /\ (bag \in Corpse \/ Bare(u, x))
    BY <2>1 DEF Bare
  <2>5. Sound(v) /\ Relocated(u, v, x, bag)
    BY <2>1, <2>3, <2>4, ToObj
  <2> HIDE DEF v
  <2>6. Good(v, {c}, {} \ {x})
    BY <2>1, <2>3, <2>5, PutDown
  <2>7. {} \ {x} = {}
    OBVIOUS
  <2>8. v.where = u.where /\ v.worn = u.worn /\ \A p \in Obj : v.at[p] = IF p = x THEN bag ELSE u.at[p]
    <3>1. u.at \in [Obj -> Room \cup Char \cup Obj \cup {Nil}]
      BY <2>3, SoundIs, WorldIs
    <3> QED
      BY <2>1, <2>3, <2>5, <3>1 DEF Relocated
  <2>9. v \in World
    BY <2>5, SoundIs
  <2>10. P(v, s \cup {x})
    BY <2>1, <2>6, <2>7, <2>8
  <2> QED
    BY <2>1, <2>2, <2>9, <2>10
<1> HIDE DEF K, Do
<1>3. Over(in, w, Do) \in K[in]
  BY <1>0, <1>1, <1>2, ObjsAreFinite, OverArrives
<1> QED
  BY <1>3 DEF K, Do, Filled, Given

\* What was worn is worn again.
LEMMA PuttingOn ==
  ASSUME NEW w, NEW c \in Char, Good(w, {c}, {}), NEW worn \in SUBSET (Obj \ w.worn), InHand(w, c, worn),
         Naked(w, c), Single(worn)
  PROVE  LET v == Clothed(w, c, worn)
         IN  Good(v, {c}, {}) /\ v.where = w.where
<1> DEFINE Do == [o \in Obj |-> [v \in World |-> equip_char(v, c, o)]]
           P(v, s) == Good(v, {c}, {}) /\ v.where = w.where /\ v.at = w.at /\ v.worn = w.worn \cup s
           K == [s \in SUBSET worn |-> {v \in World : P(v, s)}]
<1>0. worn \in SUBSET Obj
  OBVIOUS
<1>1. w \in K[{}]
  BY SoundIs DEF Good
<1>2. Advances(worn, K, Do)
  <2> SUFFICES ASSUME NEW s \in SUBSET worn, NEW x \in worn \ s, NEW u \in K[s]
               PROVE  Do[x][u] \in K[s \cup {x}]
    BY DEF Advances
  <2> DEFINE v == equip_char(u, c, x)
  <2>1. u \in World /\ P(u, s) /\ x \in Obj \ u.worn /\ s \cup {x} \in SUBSET worn /\ u.at[x] = c
    BY DEF InHand
  <2>2. Do[x][u] = v
    BY <2>1
  <2> HIDE DEF Do
  <2>3. Sound(u) /\ (x \in Lamp => \A p \in u.worn \cap Lamp : u.at[p] # c)
    BY <2>1 DEF Good, Naked, Single
  <2>4. Sound(v) /\ Dressed(u, v, u.worn \cup {x})
    BY <2>1, <2>3, Equip
  <2> HIDE DEF v
  <2>5. Good(v, {c}, {})
    BY <2>1, <2>4, GoodDressed
  <2>6. v \in World /\ P(v, s \cup {x})
    BY <2>1, <2>4, <2>5 DEF Dressed
  <2> QED
    BY <2>1, <2>2, <2>6
<1> HIDE DEF K, Do
<1>3. Over(worn, w, Do) \in K[worn]
  BY <1>0, <1>1, <1>2, ObjsAreFinite, OverArrives
<1> QED
  BY <1>3 DEF K, Do, Clothed

\* A player's file is read.
LEMMA Reading ==
  ASSUME NEW w, NEW c \in Char, Good(w, {c}, {}), NEW S \in SUBSET (Obj \ Corpse), Unmet(w, S), Naked(w, c),
         NEW bag \in (S \cap Bag) \cup {Nil}, NEW in \in SUBSET (S \ {bag}), bag = Nil => in = {}, Level(in),
         NEW worn \in SUBSET (S \ in), Single(worn)
  PROVE  Good(Read(w, c, bag, in, worn, S), {c}, {}) /\ Read(w, c, bag, in, worn, S).where = w.where
<1> DEFINE hands == Handed(w, c, S \ in)
           filled == Filled(hands, bag, in)
           v == Clothed(filled, c, worn)
<1>0. v = Read(w, c, bag, in, worn, S)
  BY DEF Read, Handed, Filled, Clothed
<1>1. /\ Good(hands, {c}, {}) /\ hands.where = w.where /\ hands.worn = w.worn
      /\ Given(w, hands, S \ in, c)
  <2>1. S \ in \in SUBSET (Obj \ Corpse) /\ Unmet(w, S \ in)
    BY DEF Unmet
  <2> QED
    BY <2>1, HandingOut
<1>2. c \notin Obj /\ c # Nil
  BY NamesDiffer
<1> HIDE DEF hands
<1>A. \A p \in Obj : hands.at[p] = IF p \in S \ in THEN c ELSE w.at[p]
  BY <1>1 DEF Given
<1>3. /\ Good(filled, {c}, {}) /\ filled.where = w.where /\ filled.worn = w.worn
      /\ \A p \in Obj : p \notin in => filled.at[p] = hands.at[p]
  <2>1. CASE in = {}
    BY <1>1, <2>1, OverNothing DEF Filled
  <2>2. CASE in # {}
    <3>1. bag \in Obj /\ bag \in S \ in
      BY <2>2
    <3>2. hands.at[bag] = c /\ Unmet(hands, in)
      BY <1>A, <3>1 DEF Unmet
    <3>3. in \in SUBSET (Obj \ Corpse)
      OBVIOUS
    <3>4. Good(hands, {c}, {})
      BY <1>1
    <3>5. /\ Good(filled, {c}, {}) /\ filled.where = hands.where /\ filled.worn = hands.worn
          /\ Given(hands, filled, in, bag)
      BY <3>1, <3>2, <3>3, <3>4, Filling
    <3> QED
      BY <1>1, <3>5 DEF Given
  <2> QED
    BY <2>1, <2>2
<1> HIDE DEF filled
<1>4. InHand(filled, c, worn)
  BY <1>A, <1>3 DEF InHand
<1>5. \A p \in w.worn : p \in Obj /\ w.at[p] \in Char
  BY SoundIs, WorldIs DEF Sound, Carried, Good
<1>6. worn \in SUBSET (Obj \ filled.worn)
  BY <1>2, <1>3, <1>5, NamesDiffer DEF Unmet
<1>7. Naked(filled, c)
  BY <1>A, <1>3, <1>5, NamesDiffer DEF Unmet, Naked
<1>8. Good(v, {c}, {}) /\ v.where = filled.where
  BY <1>3, <1>4, <1>6, <1>7, PuttingOn
<1> HIDE DEF v
<1> QED
  BY <1>0, <1>3, <1>8

----------------------------------------------------------------------------
\* What each command leaves behind.

Fine(w) == Good(w, {}, {})

\* One is in a room or nowhere.
LEMMA InRoom ==
  ASSUME NEW w, Fine(w), NEW c \in Char
  PROVE  (w.where[c] # Nil => w.where[c] \in Room) /\ (\A o \in Obj : w.at[o] = c => w.where[c] # Nil)
BY SoundIs, WorldIs, NamesDiffer DEF Fine, Good, Held

LEMMA Lit ==
  ASSUME NEW w, Fine(w), NEW S \in SUBSET Lamp, Unmet(w, S)
  PROVE  LET v == [w EXCEPT !.lit = @ \cup S]
         IN  Fine(v) /\ v.at = w.at /\ v.where = w.where /\ v.worn = w.worn
<1> DEFINE v == [w EXCEPT !.lit = @ \cup S]
<1>1. w \in World
  BY SoundIs DEF Fine, Good
<1>2. S \cap w.worn = {}
  BY Loose, LampsAndSeats, NamesDiffer DEF Fine, Good, Unmet
<1>3. Sound(v)
  BY <1>2, Lighting DEF Fine, Good
<1>4. v.at = w.at /\ v.where = w.where /\ v.worn = w.worn
  BY <1>1 DEF World
<1> HIDE DEF v
<1>5. Fine(v)
  BY <1>3, <1>4 DEF Fine, Good, Held
<1> QED
  BY <1>4, <1>5 DEF v

LEMMA Nobody == \A o : {} \ {o} = {}
OBVIOUS

\* A dialogue begins or ends.
LEMMA Logged ==
  ASSUME NEW w, Fine(w), NEW c \in Char, NEW x \in Room \cup Char \cup {Nil}
  PROVE  LET v == [w EXCEPT !.login[c] = x]
         IN  Fine(v) /\ v.at = w.at /\ v.where = w.where /\ v.worn = w.worn
<1> DEFINE L == [w.login EXCEPT ![c] = x]
           v == [w EXCEPT !.login = L]
<1>1. w \in World /\ L \in [Char -> Room \cup Char \cup {Nil}]
  BY SoundIs, WorldIs DEF Fine, Good
<1> HIDE DEF L
<1>2. /\ v.at = w.at /\ v.worn = w.worn /\ v.lit = w.lit /\ v.where = w.where /\ v.on = w.on
      /\ v.light = w.light /\ v.number = w.number /\ v.weight = w.weight /\ v \in World
  BY <1>1 DEF World
<1> HIDE DEF v
<1>3. Fit(v) /\ Numbered(v) /\ Heavy(v)
  BY <1>2, Untouched DEF Fine, Good
<1>4. Carried(v) /\ OneLamp(v) /\ Seated(v)
  BY <1>2 DEF Carried, OneLamp, Seated, Sound, Fine, Good
<1>5. \A r : Beams(v, r) = Beams(w, r)
  BY <1>2 DEF Beams, Shining, Inside
<1>6. Lights(v)
  BY <1>2, <1>5 DEF Lights, Sound, Fine, Good
<1>7. Fine(v)
  BY <1>2, <1>3, <1>4, <1>6 DEF Fine, Good, Held, Sound
<1> QED
  BY <1>2, <1>7 DEF v, L

\* What dialogues do to the light is no part of a fine world, where they do it.
LEMMA Relit ==
  ASSUME NEW w, Fine(w), Lanterns # {}, NEW L \in [Room -> Int]
  PROVE  LET v == [w EXCEPT !.light = L]
         IN  Fine(v) /\ v.at = w.at /\ v.where = w.where /\ v.worn = w.worn
<1> DEFINE v == [w EXCEPT !.light = L]
<1>1. w \in World
  BY SoundIs DEF Fine, Good
<1>2. /\ v.at = w.at /\ v.worn = w.worn /\ v.lit = w.lit /\ v.where = w.where /\ v.on = w.on
      /\ v.number = w.number /\ v.weight = w.weight /\ v \in World
  BY <1>1 DEF World
<1> HIDE DEF v
<1>3. Fit(v) /\ Numbered(v) /\ Heavy(v)
  BY <1>2, Untouched DEF Fine, Good
<1>4. Carried(v) /\ OneLamp(v) /\ Seated(v) /\ Lights(v)
  BY <1>2 DEF Carried, OneLamp, Seated, Lights, Sound, Fine, Good
<1>5. Fine(v)
  BY <1>2, <1>3, <1>4 DEF Fine, Good, Held, Sound
<1> QED
  BY <1>2, <1>5 DEF v

LEMMA Dimly ==
  ASSUME NEW w, Fine(w), Lanterns # {}, NEW r
  PROVE  Fine(Dimmed(w, r)) /\ Dimmed(w, r).where = w.where
<1> DEFINE L == [x \in Room |-> w.light[x] - IF x = r /\ w.light[x] > 0 THEN 1 ELSE 0]
<1>1. L \in [Room -> Int]
  BY SoundIs, WorldIs DEF Fine, Good
<1> HIDE DEF L
<1>2. Fine([w EXCEPT !.light = L]) /\ [w EXCEPT !.light = L].where = w.where
  BY <1>1, Relit
<1> QED
  BY <1>2 DEF Dimmed, L

LEMMA Brightly ==
  ASSUME NEW w, Fine(w), Lanterns # {}, NEW r \in Room
  PROVE  Fine(Brightened(w, r))
<1> DEFINE L == [w.light EXCEPT ![r] = IF @ > 0 THEN @ ELSE @ + 1]
<1>1. L \in [Room -> Int]
  BY SoundIs, WorldIs DEF Fine, Good
<1> HIDE DEF L
<1>2. Fine([w EXCEPT !.light = L])
  BY <1>1, Relit
<1> QED
  BY <1>2 DEF Brightened, L

LEMMA FreedKeeps ==
  ASSUME NEW w, Fine(w), Lanterns # {}, NEW c \in Char
  PROVE  Fine(Freed(w, c))
<1> DEFINE u == Dimmed(w, world.login[c])
<1>1. Fine(u)
  BY Dimly
<1> HIDE DEF u
<1>2. Fine([u EXCEPT !.login[c] = Nil])
  BY <1>1, Logged
<1> QED
  BY <1>2 DEF Freed, u

LEMMA GetNameKeeps ==
  ASSUME Fine(world), Lanterns # {}, NEW c \in Char, NEW r \in Room, GetName(c, r)
  PROVE  Fine(world')
<1> DEFINE u == Brightened(world, r)
<1>1. Fine(u)
  BY Brightly
<1> HIDE DEF u
<1>2. Fine([u EXCEPT !.login[c] = r]) /\ Fine([world EXCEPT !.login[c] = c])
  BY <1>1, Logged
<1> QED
  BY <1>2 DEF GetName, u

LEMMA HangUpKeeps ==
  ASSUME Fine(world), Lanterns # {}, NEW c \in Char, HangUp(c)
  PROVE  Fine(world')
<1> DEFINE u == Freed(world, c)
           e == extract_char(world, c)
<1>1. CASE world' = u
  BY <1>1, FreedKeeps
<1>2. CASE world' = check_reconnect(u, c)
  <2>1. Fine(u)
    BY FreedKeeps
  <2> HIDE DEF u
  <2> QED
    BY <1>2, <2>1, Dimly DEF check_reconnect
<1>3. CASE Here(c) /\ world' = Freed(e, c)
  <2>1. Fine(e)
    BY <1>3, ExtractChar DEF Here, Fine
  <2> HIDE DEF e
  <2> QED
    BY <1>3, <2>1, FreedKeeps
<1>4. \/ world' = u \/ world' = check_reconnect(u, c)
      \/ Here(c) /\ world' = Freed(e, c)
  BY DEF HangUp
<1> QED
  BY <1>1, <1>2, <1>3, <1>4

LEMMA ReadMotdKeeps ==
  ASSUME Fine(world), NEW c \in Char, NEW r \in Room, ReadMotd(c, r)
  PROVE  Fine(world')
<1> DEFINE Alike(worn) == \A o, p \in worn : o # p => ~({o, p} \subseteq Lamp \/ {o, p} \cap Lamp = {})
           Inners(S, bag) == IF bag = Nil THEN {{}} ELSE SUBSET {o \in S \ {bag} : Mult[o] = 100}
           Alight(S) == [world EXCEPT !.lit = @ \cup (S \cap Lamp), !.login[c] = Nil]
<1>A. PICK S \in SUBSET Unmade(world) :
        \E bag \in (S \cap Bag) \cup {Nil} : \E in \in Inners(S, bag) : \E worn \in SUBSET ((S \ in) \cap Wearable) :
          Alike(worn) /\ world' = char_to_room(Read(Alight(S), c, bag, in, worn, S), c, r)
  BY DEF ReadMotd
<1>B. PICK bag \in (S \cap Bag) \cup {Nil} :
        \E in \in Inners(S, bag) : \E worn \in SUBSET ((S \ in) \cap Wearable) :
          Alike(worn) /\ world' = char_to_room(Read(Alight(S), c, bag, in, worn, S), c, r)
  BY <1>A
<1>C. PICK in \in Inners(S, bag) : \E worn \in SUBSET ((S \ in) \cap Wearable) :
          Alike(worn) /\ world' = char_to_room(Read(Alight(S), c, bag, in, worn, S), c, r)
  BY <1>B
<1>1. PICK worn \in SUBSET ((S \ in) \cap Wearable) :
          Alike(worn) /\ world' = char_to_room(Read(Alight(S), c, bag, in, worn, S), c, r)
  BY <1>C
<1> DEFINE w == [world EXCEPT !.lit = @ \cup (S \cap Lamp), !.login[c] = Nil]
           lit == [world EXCEPT !.lit = @ \cup (S \cap Lamp)]
           v == Read(w, c, bag, in, worn, S)
<1>2. S \in SUBSET (Obj \ Corpse) /\ Unmet(world, S) /\ Unmet(world, S \cap Lamp) /\ S \cap Lamp \in SUBSET Lamp /\ world.where[c] = Nil
  BY <1>1 DEF Unmade, ReadMotd, Here, Unmet
<1>3. Fine(w) /\ w.at = world.at /\ w.where = world.where
  <2>1. Fine(lit) /\ lit.at = world.at /\ lit.where = world.where
    BY <1>2, Lit
  <2>2. w = [lit EXCEPT !.login[c] = Nil]
    BY SoundIs DEF World, Fine, Good
  <2> HIDE DEF lit, w
  <2> QED
    BY <2>1, <2>2, Logged
<1>4. v = Read([world EXCEPT !.lit = @ \cup (S \cap Lamp), !.login[c] = Nil], c, bag, in, worn, S)
  OBVIOUS
<1> HIDE DEF w
<1>5. Good(w, {c}, {})
  BY <1>3, HeldMore DEF Fine
<1>6. Naked(w, c) /\ Unmet(w, S)
  <2>1. \A p \in Obj : w.at[p] # c
    BY <1>2, <1>3, InRoom
  <2>2. w.worn \in SUBSET Obj
    BY <1>3, SoundIs, WorldIs DEF Fine, Good
  <2> QED
    BY <1>2, <1>3, <2>1, <2>2 DEF Naked, Unmet
<1>7. in \in SUBSET (S \ {bag}) /\ (bag = Nil => in = {}) /\ Level(in)
  BY <1>1 DEF Level
<1>8. worn \in SUBSET (S \ in) /\ Single(worn)
  BY <1>1 DEF Single
<1>9. Good(v, {c}, {}) /\ v.where = w.where
  BY <1>1, <1>2, <1>3, <1>5, <1>6, <1>7, <1>8, Reading
<1> HIDE DEF v
<1>10. Good(char_to_room(v, c, r), {c} \ {c}, {})
  BY <1>2, <1>3, <1>9, Came
<1>11. {c} \ {c} = {} /\ world' = char_to_room(v, c, r)
  BY <1>1, <1>4
<1> QED
  BY <1>10, <1>11 DEF Fine

LEMMA EnterKeeps ==
  ASSUME Fine(world), NEW c \in Char, NEW r \in Room, Enter(c, r)
  PROVE  Fine(world')
BY GetNameKeeps, ReadMotdKeeps DEF Enter

\* From one room to another, or back to the same.
LEMMA Strolling ==
  ASSUME NEW w, Fine(w), NEW c \in Char, w.where[c] # Nil, NEW r \in Room
  PROVE  LET v == char_to_room(char_from_room(w, c), c, r) IN Fine(v) /\ Strolled(w, v, c, r)
<1> DEFINE u == char_from_room(w, c)
           v == char_to_room(u, c, r)
           X == {} \cup {c}
<1>0. Good(w, {}, {}) /\ Sound(w) /\ w.where \in [Char -> Room \cup {Nil}] /\ w.on \in [Char -> Seat \cup {Nil}]
  BY SoundIs, WorldIs DEF Fine, Good
<1>1. Good(u, X, {}) /\ Strolled(w, u, c, Nil)
  BY <1>0, Left
<1> HIDE DEF u, X
<1>2. u.where[c] = Nil
  BY <1>0, <1>1 DEF Strolled
<1>3. Good(v, X \ {c}, {}) /\ Strolled(u, v, c, r)
  BY <1>1, <1>2, Came
<1> HIDE DEF v
<1>4. X \ {c} = {}
  BY DEF X
<1>5. Strolled(w, v, c, r)
  BY <1>0, <1>1, <1>3 DEF Strolled
<1> QED
  BY <1>3, <1>4, <1>5 DEF Fine, v, u

\* Out of the game.
LEMMA Losing ==
  ASSUME NEW w, Fine(w), NEW o \in Obj
  PROVE  Fine(extract_obj(w, o))
BY TakenOut, Nobody DEF Fine

\* From hand to hand.
LEMMA Passing ==
  ASSUME NEW w, Fine(w), NEW o \in Obj, w.at[o] \in Char, NEW c \in Char, w.where[c] # Nil
  PROVE  Fine(obj_to_char(obj_from_char(w, o), o, c))
BY HandToHand, Nobody DEF Fine

\* Made, and to somebody, or to the ground.
LEMMA Making ==
  ASSUME NEW w, Fine(w), NEW o \in Obj \ Corpse, w.at[o] = Nil
  PROVE  LET new == create_object(w, o)
         IN  /\ Fine(new) /\ new.at = w.at /\ new.where = w.where
             /\ \A r \in Room : Fine(obj_to_room(new, o, r))
             /\ \A c \in Char : w.where[c] # Nil => Fine(obj_to_char(new, o, c))
             /\ \A b \in Obj : w.at[b] \in Room => Fine(obj_to_obj(new, o, b))
<1> DEFINE new == create_object(w, o)
<1>1. Fine(new) /\ new.at = w.at /\ new.where = w.where
  <2>1. {o} \cap Lamp \in SUBSET Lamp /\ Unmet(w, {o} \cap Lamp)
    BY DEF Unmet
  <2> QED
    BY <2>1, Lit DEF create_object
<1> HIDE DEF new
<1>2. Sound(new) /\ Good(new, {}, {}) /\ new.at[o] = Nil /\ o \in Obj
  BY <1>1 DEF Fine, Good
<1>3. ASSUME NEW r \in Room
      PROVE  Fine(obj_to_room(new, o, r))
  <2>1. Sound(obj_to_room(new, o, r)) /\ Relocated(new, obj_to_room(new, o, r), o, r) /\ r \notin Obj /\ r \notin Char /\ r # o
    BY <1>2, ToRoom, NamesDiffer
  <2>2. Good(obj_to_room(new, o, r), {}, {} \ {o})
    BY <1>2, <2>1, PutDown
  <2> QED
    BY <2>2, Nobody DEF Fine
<1>4. ASSUME NEW c \in Char, w.where[c] # Nil
      PROVE  Fine(obj_to_char(new, o, c))
  <2>1. Sound(obj_to_char(new, o, c)) /\ Relocated(new, obj_to_char(new, o, c), o, c) /\ c \notin Obj /\ c # o
    BY <1>2, ToChar, NamesDiffer
  <2>2. Good(obj_to_char(new, o, c), {}, {} \ {o})
    BY <1>1, <1>2, <1>4, <2>1, PutDown
  <2> QED
    BY <2>2, Nobody DEF Fine
<1>5. ASSUME NEW b \in Obj, w.at[b] \in Room
      PROVE  Fine(obj_to_obj(new, o, b))
  <2>1. b # o /\ new.at[b] \notin Obj /\ new.at[b] # Nil /\ b \notin Char
    BY <1>1, <1>2, <1>5, NamesDiffer
  <2>2. Inside(new, o) = {}
    BY <1>2, NamesDiffer DEF Inside, Good, Held
  <2>3. Sound(obj_to_obj(new, o, b)) /\ Relocated(new, obj_to_obj(new, o, b), o, b)
    BY <1>2, <2>1, <2>2, ToObj DEF Bare
  <2>4. Good(obj_to_obj(new, o, b), {}, {} \ {o})
    BY <1>2, <2>1, <2>3, PutDown
  <2> QED
    BY <2>4, Nobody DEF Fine
<1> QED
  BY <1>1, <1>3, <1>4, <1>5 DEF new

LEMMA WalkKeeps ==
  ASSUME Fine(world), NEW c \in Char, NEW r \in Room, Walk(c, r)
  PROVE  Fine(world')
<1>1. world.where[c] # Nil /\ world' = char_to_room(char_from_room(world, c), c, r)
  BY DEF Walk, Here
<1> QED
  BY <1>1, Strolling

LEMMA LeaveKeeps ==
  ASSUME Fine(world), NEW c \in Char, Leave(c)
  PROVE  Fine(world')
BY ExtractChar, HangUpKeeps DEF Leave, Here, Fine

LEMMA CreateKeeps ==
  ASSUME Fine(world), NEW o \in Obj, Create(o)
  PROVE  Fine(world')
<1>1. o \in Obj \ Corpse /\ world.at[o] = Nil
  BY DEF Create, Unmade
<1>2. CASE \E r \in Room : world' = obj_to_room(create_object(world, o), o, r)
  BY <1>1, <1>2, Making
<1>3. CASE \E c \in Char : Here(c) /\ world' = obj_to_char(create_object(world, o), o, c)
  BY <1>1, <1>3, Making DEF Here
<1>4. CASE \E b \in Bag : world.at[b] \in Room /\ world' = obj_to_obj(create_object(world, o), o, b)
  BY <1>1, <1>4, Making, LampsAndSeats
<1> QED
  BY <1>2, <1>3, <1>4 DEF Create

LEMMA GetKeeps ==
  ASSUME Fine(world), NEW c \in Char, NEW o \in Obj, Get(c, o)
  PROVE  Fine(world')
<1>1. world.where[c] # Nil /\ world.at[o] \in Room /\ world' = get_obj(world, c, o)
  BY InRoom DEF Get, Here
<1> QED
  BY <1>1, Getting DEF Fine

LEMMA GetFromKeeps ==
  ASSUME Fine(world), NEW c \in Char, NEW o \in Obj, NEW b \in Obj, GetFrom(c, o, b)
  PROVE  Fine(world')
<1>1. world.where[c] # Nil /\ world.at[o] \in Obj /\ o \notin Rootbound /\ world' = obj_to_char(obj_from_obj(world, o), o, c)
  BY DEF GetFrom, Here
<1> QED
  BY <1>1, BagToHand, Nobody DEF Fine

\* What lies about a character or is in its hands.
LEMMA Reached ==
  ASSUME Fine(world), NEW c \in Char, world.where[c] # Nil, NEW o \in Reach(c)
  PROVE  o \in Obj /\ world.at[o] \in Room \cup Char /\ (world.at[o] # c => world.at[o] = world.where[c])
BY InRoom DEF Reach, Inside

LEMMA PutKeeps ==
  ASSUME Fine(world), NEW c \in Char, NEW o \in Obj, NEW b \in Obj, Put(c, o, b)
  PROVE  Fine(world')
<1>1. /\ world.where[c] # Nil /\ world.at[o] \in Char /\ b \in Reach(c) /\ b # o
      /\ (Mult[o] = 100 \/ Nesting) /\ world' = obj_to_obj(obj_from_char(world, o), o, b)
  BY DEF Put, Here, CarriedBy, Inside
<1>2. world.at[b] \notin Obj /\ world.at[b] # Nil
  BY <1>1, Reached, NamesDiffer
<1>3. Exactly => b \in Corpse \/ Bare(world, o)
  BY <1>1 DEF Exactly, Bare
<1> QED
  BY <1>1, <1>2, <1>3, HandToBag, Nobody DEF Fine

LEMMA DropKeeps ==
  ASSUME Fine(world), NEW c \in Char, NEW o \in Obj, Drop(c, o)
  PROVE  Fine(world')
<1> DEFINE down == obj_to_room(obj_from_char(world, o), o, world.where[c])
<1>1. world.at[o] \in Char /\ world.where[c] \in Room
  BY InRoom DEF Drop, Here, CarriedBy, Inside
<1>2. Fine(down)
  BY <1>1, HandToRoom, Nobody DEF Fine
<1> HIDE DEF down
<1>3. Fine(extract_obj(down, o))
  BY <1>2, Losing
<1> QED
  BY <1>2, <1>3 DEF Drop, down

LEMMA GiveKeeps ==
  ASSUME Fine(world), NEW c \in Char, NEW o \in Obj, NEW v \in Char, Give(c, o, v)
  PROVE  Fine(world')
BY Passing DEF Give, SameRoom, Here, CarriedBy, Inside

LEMMA StealKeeps ==
  ASSUME Fine(world), NEW c \in Char, NEW o \in Obj, NEW v \in Char, do_steal(c, o, v)
  PROVE  Fine(world')
BY Passing DEF do_steal, SameRoom, Here, CarriedBy, Inside

LEMMA ChownKeeps ==
  ASSUME Fine(world), NEW c \in Char, NEW o \in Obj, NEW v \in Char, do_chown(c, o, v)
  PROVE  Fine(world')
BY Passing DEF do_chown, SameRoom, Here, Inside

LEMMA BuyKeeps ==
  ASSUME Fine(world), NEW c \in Char, NEW o \in Obj, NEW keeper \in Char, Buy(c, o, keeper)
  PROVE  Fine(world')
<1>1. world.where[c] # Nil /\ world.at[o] \in Char
  BY DEF Buy, SameRoom, Here, CarriedBy, Inside
<1>2. CASE o \in Stock
  <2>1. PICK new \in Unmade(world) \cap Twin[o] : world' = obj_to_char(create_object(world, new), new, c)
    BY <1>2 DEF Buy
  <2>2. new \in Obj \ Corpse /\ world.at[new] = Nil
    BY <2>1 DEF Unmade
  <2> QED
    BY <1>1, <2>1, <2>2, Making
<1>3. CASE o \notin Stock
  <2>1. world' = obj_to_char(obj_from_char(world, o), o, c)
    BY <1>3 DEF Buy
  <2> QED
    BY <1>1, <2>1, Passing
<1> QED
  BY <1>2, <1>3

LEMMA SellKeeps ==
  ASSUME Fine(world), NEW c \in Char, NEW o \in Obj, NEW keeper \in Char, Sell(c, o, keeper)
  PROVE  Fine(world')
<1> DEFINE free == obj_from_char(world, o)
<1>1. world.where[keeper] # Nil /\ world.at[o] \in Char
  BY DEF Sell, SameRoom, Here, CarriedBy, Inside
<1>2. Fine(extract_obj(world, o)) /\ Fine(obj_to_char(free, o, keeper))
  BY <1>1, Losing, Passing
<1>3. Fine(extract_obj(free, o))
  <2>1. Sound(free) /\ Relocated(world, free, o, Nil)
    BY <1>1, FromChar DEF Fine, Good
  <2> DEFINE Y == {} \cup {o}
  <2> HIDE DEF free, Y
  <2>2. Good(free, {}, Y)
    BY <2>1, TakenUp DEF Fine, Y
  <2>3. Good(extract_obj(free, o), {}, Y \ {o})
    BY <2>2, TakenOut
  <2>4. Y \ {o} = {}
    BY DEF Y
  <2> QED
    BY <2>3, <2>4 DEF Fine
<1> QED
  BY <1>2, <1>3 DEF Sell, obj_to_keeper

\* What was worn is taken off.
Bared(w, c, T) == Over(T, w, [o \in Obj |-> [v \in World |-> unequip_char(v, c, o)]])

LEMMA Undressing ==
  ASSUME NEW w, Fine(w), NEW c \in Char, NEW old \in SUBSET w.worn, InHand(w, c, old)
  PROVE  Fine(Bared(w, c, old)) /\ Dressed(w, Bared(w, c, old), w.worn \ old)
<1> DEFINE Do == [o \in Obj |-> [v \in World |-> unequip_char(v, c, o)]]
           P(v, s) == Fine(v) /\ Dressed(w, v, w.worn \ s)
           K == [s \in SUBSET old |-> {v \in World : P(v, s)}]
<1>0. w \in World /\ w.worn \in SUBSET Obj
  BY SoundIs, WorldIs DEF Fine, Good
<1>1. w \in K[{}]
  BY <1>0 DEF Dressed
<1>2. Advances(old, K, Do)
  <2> SUFFICES ASSUME NEW s \in SUBSET old, NEW x \in old \ s, NEW u \in K[s]
               PROVE  Do[x][u] \in K[s \cup {x}]
    BY DEF Advances
  <2> DEFINE v == unequip_char(u, c, x)
  <2>1. u \in World /\ P(u, s) /\ x \in Obj /\ s \cup {x} \in SUBSET old /\ w.at[x] = c
    BY <1>0 DEF InHand
  <2>2. Do[x][u] = v
    BY <2>1
  <2> HIDE DEF Do
  <2>3. Sound(u) /\ u.at[x] = c /\ x \in u.worn
    BY <2>1 DEF Fine, Good, Dressed
  <2>4. Sound(v) /\ Dressed(u, v, u.worn \ {x})
    BY <2>3, Unequip
  <2> HIDE DEF v
  <2>5. Fine(v)
    BY <2>1, <2>4, GoodDressed DEF Fine
  <2>6. Dressed(w, v, w.worn \ (s \cup {x}))
    BY <2>1, <2>4 DEF Dressed
  <2> QED
    BY <2>1, <2>2, <2>4, <2>5, <2>6 DEF Dressed
<1> HIDE DEF K, Do
<1>3. old \in SUBSET Obj
  BY <1>0
<1>4. Over(old, w, Do) \in K[old]
  BY <1>1, <1>2, <1>3, ObjsAreFinite, OverArrives
<1> QED
  BY <1>4 DEF K, Do, Bared

LEMMA WearKeeps ==
  ASSUME Fine(world), NEW c \in Char, NEW o \in Obj, Wear(c, o)
  PROVE  Fine(world')
<1> DEFINE old == world.worn \cap Inside(world, c) \cap Place(o)
           bare == Bared(world, c, old)
           v == equip_char(bare, c, o)
<1>1. world' = v /\ world.at[o] = c /\ o \notin world.worn
  BY DEF Wear, CarriedBy, Inside, Bared
<1>2. old \in SUBSET world.worn /\ InHand(world, c, old)
  BY DEF InHand, Inside
<1>3. Fine(bare) /\ Dressed(world, bare, world.worn \ old)
  BY <1>2, Undressing
<1> HIDE DEF bare
<1>4. world.worn \in SUBSET Obj
  BY SoundIs, WorldIs DEF Fine, Good
<1>5. Sound(bare) /\ o \in Obj \ bare.worn /\ bare.at[o] = c
  BY <1>1, <1>3 DEF Fine, Good, Dressed
<1>6. o \in Lamp => \A p \in bare.worn \cap Lamp : bare.at[p] # c
  BY <1>3, <1>4 DEF Dressed, Place, Inside
<1>7. Sound(v) /\ Dressed(bare, v, bare.worn \cup {o})
  BY <1>5, <1>6, Equip
<1> HIDE DEF v
<1>8. Fine(v)
  BY <1>3, <1>7, GoodDressed DEF Fine
<1> QED
  BY <1>1, <1>8

LEMMA RemoveKeeps ==
  ASSUME Fine(world), NEW c \in Char, NEW o \in Obj, do_remove(c, o)
  PROVE  Fine(world')
<1>1. o \in world.worn /\ world.at[o] = c /\ world' = unequip_char(world, c, o) /\ Sound(world)
  BY DEF do_remove, Inside, Fine, Good
<1>2. Sound(unequip_char(world, c, o)) /\ Dressed(world, unequip_char(world, c, o), world.worn \ {o})
  BY <1>1, Unequip
<1> QED
  BY <1>1, <1>2, GoodDressed DEF Fine

LEMMA DisarmKeeps ==
  ASSUME Fine(world), NEW v \in Char, NEW o \in Obj, Disarm(v, o)
  PROVE  Fine(world')
<1> DEFINE free == obj_from_char(world, o)
           down == obj_to_room(free, o, world.where[v])
<1>1. world.at[o] = v /\ world.where[v] \in Room /\ world.where[v] # Nil
  BY InRoom DEF Disarm, Here, Inside
<1>2. Fine(obj_to_char(free, o, v))
  BY <1>1, Passing
<1>3. Fine(down) /\ Relocated(world, down, o, world.where[v])
  BY <1>1, HandToRoom, Nobody DEF Fine
<1>4. world' \in {obj_to_char(free, o, v), down, get_obj(down, v, o)}
  BY DEF Disarm
<1> HIDE DEF down
<1>5. down.at[o] \in Room /\ down.where[v] # Nil
  <2>1. Sound(world)
    BY DEF Fine, Good
  <2>2. world.at \in [Obj -> Room \cup Char \cup Obj \cup {Nil}]
    BY <2>1, SoundIs, WorldIs
  <2> QED
    BY <1>1, <1>3, <2>2 DEF Relocated
<1>6. Fine(get_obj(down, v, o))
  BY <1>3, <1>5, Getting DEF Fine
<1> QED
  BY <1>2, <1>3, <1>4, <1>6

\* Somebody sits down.
LEMMA Sitting ==
  ASSUME NEW w, Fine(w), NEW c \in Char, NEW o \in Seat \cup {Nil},
         o # Nil => w.where[c] # Nil /\ w.at[o] = w.where[c]
  PROVE  LET v == [w EXCEPT !.on[c] = o] IN Fine(v) /\ v.at = w.at /\ v.where = w.where
<1> DEFINE N == [w.on EXCEPT ![c] = o]
           v == [w EXCEPT !.on = N]
<1>1. Sound(v)
  BY Seating DEF Fine, Good
<1>2. w \in World
  BY SoundIs DEF Fine, Good
<1>3. v.at = w.at /\ v.where = w.where
  BY <1>2 DEF World
<1>4. v = [w EXCEPT !.on[c] = o]
  OBVIOUS
<1> HIDE DEF v
<1>5. Fine(v)
  BY <1>1, <1>3 DEF Fine, Good, Held
<1> QED
  BY <1>3, <1>4, <1>5

\* The hands that put a seat down do not mind who sits on it.
LEMMA SeatAside ==
  ASSUME NEW w, Sound(w), NEW o \in Obj, w.at[o] \in Char, NEW N \in [Char -> Seat \cup {Nil}], NEW r \in Room
  PROVE  /\ obj_to_room(obj_from_char([w EXCEPT !.on = N], o), o, r)
              = [obj_to_room(obj_from_char(w, o), o, r) EXCEPT !.on = N]
         /\ obj_to_room(obj_from_char(w, o), o, r).on = w.on
<1> DEFINE u == [w EXCEPT !.on = N]
           c == w.at[o]
           n == get_obj_number(w, o)
           m == get_obj_weight(w, o)
           b == IF o \in w.worn THEN unequip_char(w, c, o) ELSE w
           d == IF o \in u.worn THEN unequip_char(u, c, o) ELSE u
<1>0. w \in World /\ Rooted(w)
  BY SoundIs
<1>1. u \in World /\ u.at = w.at /\ u.worn = w.worn /\ u.where = w.where /\ u.lit = w.lit
  BY <1>0 DEF World
<1>2. get_obj_number(u, o) = n /\ get_obj_weight(u, o) = m
  <2> HIDE DEF u
  <2> QED
    BY <1>0, <1>1, SameAt DEF get_obj_number, get_obj_weight
<1>3. obj_from_char(w, o) = [b EXCEPT !.at[o] = Nil, !.number[c] = @ - n, !.weight[c] = @ - m]
  BY DEF obj_from_char
<1>4. obj_from_char(u, o) = [d EXCEPT !.at[o] = Nil, !.number[c] = @ - n, !.weight[c] = @ - m]
  <2> HIDE DEF u, n, m, c
  <2>1. u.at[o] = c
    BY <1>1 DEF c
  <2> DEFINE x == u.at[o]
             k == get_obj_number(u, o)
             l == get_obj_weight(u, o)
  <2>2. obj_from_char(u, o)
          = [IF o \in u.worn THEN unequip_char(u, x, o) ELSE u EXCEPT !.at[o] = Nil, !.number[x] = @ - k, !.weight[x] = @ - l]
    BY DEF obj_from_char
  <2>3. x = c /\ k = n /\ l = m
    BY <1>2, <2>1
  <2> HIDE DEF x, k, l
  <2> QED
    BY <2>2, <2>3
<1> HIDE DEF n, m
<1>5. b \in World /\ b.on = w.on
  <2>1. o \in w.worn => b \in World /\ b.on = w.on
    BY Unequip DEF Dressed
  <2> QED
    BY <1>0, <2>1
<1>6. d = [b EXCEPT !.on = N]
  <2>1. CASE o \in w.worn
    BY <1>0, <1>1, <2>1 DEF unequip_char, World
  <2>2. CASE o \notin w.worn
    BY <1>1, <2>2
  <2> QED
    BY <2>1, <2>2
<1> HIDE DEF b, d, u, c
<1>7. obj_to_room(obj_from_char(w, o), o, r).on = w.on
  BY <1>3, <1>5 DEF obj_to_room, World
<1>8. obj_to_room(obj_from_char(u, o), o, r) = [obj_to_room(obj_from_char(w, o), o, r) EXCEPT !.on = N]
  BY <1>3, <1>4, <1>5, <1>6 DEF obj_to_room, World
<1> QED
  BY <1>7, <1>8 DEF u

LEMMA SitKeeps ==
  ASSUME Fine(world), NEW c \in Char, NEW o \in Obj, Sit(c, o)
  PROVE  Fine(world')
<1>1. world.where[c] \in Room /\ world.where[c] # Nil /\ o \in Seat /\ o # Nil
  BY InRoom, NamesDiffer DEF Sit, Here
<1>2. CASE world.at[o] = world.where[c] /\ world' = [world EXCEPT !.on[c] = o]
  BY <1>1, <1>2, Sitting
<1>3. CASE world.at[o] = c
  <2> DEFINE N == [world.on EXCEPT ![c] = o]
             r == world.where[c]
             down == obj_to_room(obj_from_char(world, o), o, r)
  <2>1. Sound(world) /\ world \in World /\ world.on \in [Char -> Seat \cup {Nil}]
        /\ world.at \in [Obj -> Room \cup Char \cup Obj \cup {Nil}]
    BY SoundIs, WorldIs DEF Fine, Good
  <2>2. N \in [Char -> Seat \cup {Nil}]
    BY <1>1, <2>1
  <2>3. world' = obj_to_room(obj_from_char([world EXCEPT !.on = N], o), o, r)
    BY <1>1, <1>3, NamesDiffer DEF Sit
  <2>4. world' = [down EXCEPT !.on = N] /\ down.on = world.on
    BY <1>1, <1>3, <2>1, <2>2, <2>3, SeatAside
  <2>5. Fine(down) /\ Relocated(world, down, o, r)
    BY <1>1, <1>3, HandToRoom, Nobody DEF Fine
  <2> HIDE DEF down
  <2>6. down.where[c] # Nil /\ down.at[o] = down.where[c]
    BY <1>1, <2>1, <2>5 DEF Relocated
  <2>7. world' = [down EXCEPT !.on[c] = o]
    BY <2>4
  <2> QED
    BY <1>1, <2>5, <2>6, <2>7, Sitting
<1> QED
  BY <1>2, <1>3 DEF Sit

LEMMA StandKeeps ==
  ASSUME Fine(world), NEW c \in Char, NEW o \in Obj, Stand(c, o)
  PROVE  Fine(world')
<1> DEFINE up == [world EXCEPT !.on[c] = o]
           seat == world.on[c]
<1>1. world.where[c] \in Room /\ world.where[c] # Nil /\ o \in Seat /\ o # Nil /\ world.at[o] = world.where[c]
  BY InRoom, NamesDiffer DEF Stand, Here
<1>2. Fine(up) /\ up.at = world.at /\ up.where = world.where
  BY <1>1, Sitting
<1>3. seat \in Seat \cup {Nil} /\ (seat # Nil => world.at[seat] = world.where[c])
  BY SoundIs, WorldIs DEF Fine, Good, Sound, Seated
<1>4. world' = up \/ (seat # Nil /\ world' = get_obj(up, c, seat))
  BY DEF Stand
<1> HIDE DEF up
<1>5. seat # Nil => Fine(get_obj(up, c, seat))
  <2> HIDE DEF seat
  <2>1. seat # Nil => seat \in Obj /\ up.at[seat] \in Room /\ up.where[c] # Nil
    BY <1>1, <1>2, <1>3, LampsAndSeats
  <2> QED
    BY <1>2, <2>1, Getting DEF Fine
<1> QED
  BY <1>2, <1>4, <1>5

LEMMA BurnOutKeeps ==
  ASSUME Fine(world), NEW c \in Char, NEW o \in Obj, BurnOut(c, o)
  PROVE  Fine(world')
<1> DEFINE v == [world EXCEPT !.lit = @ \ {o}, !.light[world.where[c]] = @ - 1]
<1>1. world.where[c] # Nil /\ o \in Shining(world, c) /\ world' = extract_obj(v, o) /\ Sound(world)
  BY DEF BurnOut, Here, Fine, Good
<1>2. Sound(v) /\ v.at = world.at /\ v.where = world.where
  BY <1>1, Dimming
<1> HIDE DEF v
<1>3. Fine(v)
  BY <1>2 DEF Fine, Good, Held
<1> QED
  BY <1>1, <1>3, Losing

LEMMA DecayKeeps ==
  ASSUME Fine(world), NEW o \in Obj, Decay(o)
  PROVE  Fine(world')
BY Losing DEF Decay

LEMMA SacrificeKeeps ==
  ASSUME Fine(world), NEW c \in Char, do_sacrifice(c)
  PROVE  Fine(world')
<1> DEFINE S == Acceptable(world, world.where[c])
<1>1. S \in SUBSET Obj
  BY DEF Acceptable, Inside
<1>2. (\E o \in S : world' = extract_obj(world, o)) \/ world' = extract_all(world, S)
  BY DEF do_sacrifice
<1> HIDE DEF S
<1>3. Good(extract_all(world, S), {}, {})
  BY <1>1, ExtractAll DEF Fine
<1>4. \A o \in S : Fine(extract_obj(world, o))
  BY <1>1, Losing
<1> QED
  BY <1>2, <1>3, <1>4 DEF Fine

LEMMA EatKeeps ==
  ASSUME Fine(world), NEW c \in Char, NEW o \in Obj, do_eat(c, o)
  PROVE  Fine(world')
BY Losing DEF do_eat

LEMMA JunkKeeps ==
  ASSUME Fine(world), NEW c \in Char, NEW o \in Obj, Junk(c, o)
  PROVE  Fine(world')
BY Losing DEF Junk

LEMMA MpremoveKeeps ==
  ASSUME Fine(world), NEW c \in Char, NEW o \in Obj, NEW v \in Char, do_mpremove(c, o, v)
  PROVE  Fine(world')
BY Losing DEF do_mpremove

LEMMA PurgeKeeps ==
  ASSUME Fine(world), NEW c \in Char, do_purge(c)
  PROVE  Fine(world')
BY Purging DEF do_purge, Here, Fine

LEMMA ShatterKeeps ==
  ASSUME Fine(world), NEW o \in Obj, Shatter(o)
  PROVE  Fine(world')
BY Losing DEF Shatter

LEMMA SpillKeeps ==
  ASSUME Fine(world), NEW o \in Obj, Spill(o)
  PROVE  Fine(world')
<1> DEFINE r == world.where[world.at[o]]
           v == Spilled(world, o, r)
<1>1. r \in Room
  <2>1. world.at[o] \in Char
    BY DEF Spill, Fine, Good, Sound, Carried
  <2> QED
    BY <2>1, InRoom
<1> HIDE DEF r
<1>2. Fine(v)
  BY <1>1, Spilling DEF Fine
<1> HIDE DEF v
<1>3. Fine(extract_obj(v, o))
  BY <1>2, Losing
<1> QED
  BY <1>3 DEF Spill, v, r

LEMMA DissolveKeeps ==
  ASSUME Fine(world), NEW o \in Obj, Dissolve(o)
  PROVE  Fine(world')
<1>1. PICK S \in SUBSET Inside(world, o) : world' = corrode_all(Corroded(world, o), S)
  BY DEF Dissolve
<1> DEFINE v == Corroded(world, o)
<1>2. world.at[o] \in Room \cup Char /\ world.at[o] # o
  BY NamesDiffer DEF Dissolve
<1>3. Good(v, {}, {}) /\ \A p \in Obj : p # o /\ (world.at[p] \in Room \/ world.at[p] = o) => v.at[p] \in Room
  BY <1>2, Corroding DEF Fine
<1> HIDE DEF v
<1>4. S \in SUBSET Obj /\ Lying(v, S)
  BY <1>2, <1>3 DEF Inside, Lying
<1>5. Good(corrode_all(v, S), {}, {})
  BY <1>3, <1>4, CorrodeAll
<1> QED
  BY <1>1, <1>5 DEF Fine, v

LEMMA BurnKeeps ==
  ASSUME Fine(world), NEW o \in Obj, Burn(o)
  PROVE  Fine(world')
<1> DEFINE r == IF world.at[o] \in Room THEN world.at[o] ELSE world.where[world.at[o]]
           u == Spilled(world, o, r)
<1>1. PICK S \in SUBSET Inside(world, o) : world' = extract_obj(corrode_all(u, S), o)
  BY DEF Burn
<1>2. r \in Room
  BY InRoom DEF Burn
<1> HIDE DEF r
<1>3. Good(u, {}, {}) /\ \A p \in Obj : u.at[p] = IF world.at[p] = o THEN r ELSE world.at[p]
  BY <1>2, Spilling DEF Fine
<1> HIDE DEF u
<1>4. S \in SUBSET Obj /\ Lying(u, S)
  BY <1>2, <1>3 DEF Inside, Lying
<1>5. Fine(corrode_all(u, S))
  BY <1>3, <1>4, CorrodeAll DEF Fine
<1> QED
  BY <1>1, <1>5, Losing

LEMMA MpotransferKeeps ==
  ASSUME Fine(world), NEW c \in Char, NEW o \in Obj, NEW r \in Room, do_mpotransfer(c, o, r)
  PROVE  Fine(world')
BY AnyToRoom, Nobody DEF do_mpotransfer, Fine

LEMMA DonateKeeps ==
  ASSUME Fine(world), NEW c \in Char, NEW o \in Obj, NEW r \in Room, Donate(c, o, r)
  PROVE  Fine(world')
<1> DEFINE here == world.where[c]
           down == IF world.at[o] = c THEN obj_to_room(obj_from_char(world, o), o, here) ELSE world
<1>1. here \in Room /\ world.where[c] # Nil /\ o \in Reach(c)
  BY InRoom DEF Donate, Here
<1>2. world' = down \/ world' = obj_to_room(obj_from_room(down, o), o, r)
  BY DEF Donate
<1>3. Fine(down) /\ down.at[o] \in Room
  <2>1. CASE world.at[o] = c
    <3> DEFINE v == obj_to_room(obj_from_char(world, o), o, here)
    <3>1. Fine(v) /\ Relocated(world, v, o, here)
      BY <1>1, <2>1, HandToRoom, Nobody DEF Fine
    <3>2. world.at \in [Obj -> Room \cup Char \cup Obj \cup {Nil}] /\ down = v
      BY <2>1, SoundIs, WorldIs DEF Fine, Good
    <3> HIDE DEF v, down
    <3> QED
      BY <1>1, <3>1, <3>2 DEF Relocated
  <2>2. CASE world.at[o] # c
    BY <1>1, <2>2, Reached
  <2> QED
    BY <2>1, <2>2
<1> HIDE DEF down
<1>4. Fine(obj_to_room(obj_from_room(down, o), o, r))
  BY <1>3, RoomToRoom, Nobody DEF Fine
<1> QED
  BY <1>2, <1>3, <1>4

LEMMA DieMobKeeps ==
  ASSUME Fine(world), NEW c \in Char, NEW corpse \in Corpse, DieMob(c, corpse)
  PROVE  Fine(world')
<1> DEFINE u == Dropped(world, c)
           v == make_corpse(u, c, corpse)
<1>1. world.where[c] # Nil /\ world.at[corpse] = Nil /\ corpse \in Obj /\ c # Nil /\ world' = extract_char(v, c)
  BY LampsAndSeats, NamesDiffer DEF DieMob, Here
<1>2. Good(u, {}, {}) /\ u.where = world.where /\ u.at[corpse] = Nil
  BY <1>1, Dropping DEF Fine
<1> HIDE DEF u
<1>3. Good(v, {}, {}) /\ v.where = u.where
  BY <1>1, <1>2, MakingCorpse
<1> HIDE DEF v
<1>4. Good(extract_char(v, c), {}, {})
  BY <1>1, <1>2, <1>3, ExtractChar
<1> QED
  BY <1>1, <1>4 DEF Fine

LEMMA DiePlayerKeeps ==
  ASSUME Fine(world), NEW c \in Char, DiePlayer(c)
  PROVE  Fine(world')
<1> DEFINE u == Dropped(world, c)
<1>1. world.where[c] # Nil /\ world' = char_to_room(char_from_room(u, c), c, Temple) /\ Temple \in Room
  BY ObjectsConstants DEF DiePlayer, Here
<1>2. Fine(u) /\ u.where = world.where
  BY <1>1, Dropping DEF Fine
<1> HIDE DEF u
<1> QED
  BY <1>1, <1>2, Strolling

\* Whatever is done there, what lies here stays, so that one's seat is still one's seat.
LEMMA AtKeeps ==
  ASSUME ~AtHome, Fine(world), NEW c \in Char, NEW r \in Room, At(c, r)
  PROVE  Fine(world')
<1> DEFINE home == world.where[c]
           seat == world.on[c]
           away == char_to_room(char_from_room(world, c), c, r)
<1>1. home \in Room /\ home # Nil /\ home # r /\ r # Nil /\ home # c
  BY InRoom, NamesDiffer DEF At, Here
<1>2. PICK w \in There(away, c) :
        world' = [char_to_room(char_from_room(w, c), c, home) EXCEPT !.on[c] = seat]
  BY DEF At
<1>3. /\ seat \in Seat \cup {Nil} /\ (seat # Nil => seat \in Obj /\ world.at[seat] = home)
      /\ world.where \in [Char -> Room \cup {Nil}] /\ world.at \in [Obj -> Room \cup Char \cup Obj \cup {Nil}]
  BY SoundIs, WorldIs, LampsAndSeats DEF Fine, Good, Sound, Seated
<1>4. Fine(away) /\ away.at = world.at /\ away.where[c] = r
  <2>1. Fine(away) /\ Strolled(world, away, c, r)
    BY <1>1, Strolling
  <2> QED
    BY <1>3, <2>1 DEF Strolled
<1> HIDE DEF away, home, seat
<1>5. Fine(w) /\ w.where[c] = r /\ (seat # Nil => w.at[seat] = home)
  <2>1. CASE w = away
    BY <1>3, <1>4, <2>1
  <2>2. ASSUME NEW o \in Obj, NEW x \in Room \cup Char, away.at[o] # home, Fine(w), Relocated(away, w, o, x)
        PROVE  w.where[c] = r /\ (seat # Nil => w.at[seat] = home)
    BY <1>3, <1>4, <2>2 DEF Relocated
  <2>3. ASSUME NEW o \in Inside(away, away.where[c]), w = get_obj(away, c, o)
        PROVE  Fine(w) /\ w.where[c] = r /\ (seat # Nil => w.at[seat] = home)
    <3>1. o \in Obj /\ away.at[o] = r
      BY <1>4, <2>3 DEF Inside
    <3>2. Fine(w) /\ (w = away \/ Relocated(away, w, o, c))
      BY <1>1, <1>4, <2>3, <3>1, Getting DEF Fine
    <3> QED
      BY <1>1, <2>1, <2>2, <3>1, <3>2
  <2>4. ASSUME NEW o \in CarriedBy(away, c), w = obj_to_room(obj_from_char(away, o), o, away.where[c])
        PROVE  Fine(w) /\ w.where[c] = r /\ (seat # Nil => w.at[seat] = home)
    <3>1. o \in Obj /\ away.at[o] = c
      BY DEF CarriedBy, Inside
    <3>2. Fine(w) /\ Relocated(away, w, o, r)
      BY <1>4, <2>4, <3>1, HandToRoom, Nobody DEF Fine
    <3> QED
      BY <1>1, <2>2, <3>1, <3>2
  <2>5. ASSUME NEW o \in Seat \cap Inside(away, away.where[c]), w = [away EXCEPT !.on[c] = o]
        PROVE  Fine(w) /\ w.where[c] = r /\ (seat # Nil => w.at[seat] = home)
    <3>1. o \in Seat /\ away.at[o] = away.where[c] /\ away.where[c] # Nil
      BY <1>1, <1>4 DEF Inside
    <3>2. Fine(w) /\ w.at = away.at /\ w.where = away.where
      BY <1>4, <2>5, <3>1, Sitting
    <3> QED
      BY <1>3, <1>4, <3>2
  <2> QED
    BY <1>2, <1>4, <2>1, <2>3, <2>4, <2>5 DEF There
<1> DEFINE back == char_to_room(char_from_room(w, c), c, home)
<1>6. Fine(back) /\ Strolled(w, back, c, home)
  BY <1>1, <1>5, Strolling
<1>7. back.at = w.at /\ back.where[c] = home
  <2>1. w.where \in [Char -> Room \cup {Nil}]
    BY <1>5, SoundIs, WorldIs DEF Fine, Good
  <2> HIDE DEF back
  <2> QED
    BY <1>6, <2>1 DEF Strolled
<1> HIDE DEF back
<1>8. Fine([back EXCEPT !.on[c] = seat])
  BY <1>1, <1>3, <1>5, <1>6, <1>7, Sitting
<1> QED
  BY <1>2, <1>8 DEF back

----------------------------------------------------------------------------
\* What the sums of the invariants are.

Blank(f, T) == \A o \in T : f[o] = 0

LEMMA BlankSum ==
  ASSUME NEW T \in SUBSET Obj, NEW f \in [Obj -> Int], Blank(f, T)
  PROVE  SumFunctionOnSet(f, T) = 0
<1> DEFINE k == [o \in T |-> 0]
<1>1. IsFiniteSet(T) /\ k \in [T -> Int] /\ (\A o \in T : k[o] = IF o \in {} THEN 1 ELSE 0) /\ \A o \in T : f[o] = k[o]
  BY ObjsAreFinite DEF Blank
<1> HIDE DEF k
<1>2. SumFunctionOnSet(k, T) = 1 * Cardinality({})
  <2>1. {} \in SUBSET T /\ 1 \in Nat
    OBVIOUS
  <2> QED
    BY <1>1, <2>1, SumOfEqual
<1>3. SumFunctionOnSet(f, T) = SumFunctionOnSet(k, T)
  BY <1>1, SumSame
<1> QED
  BY <1>2, <1>3, FS_EmptySet

\* One for everything but a bag.
Ones == [o \in Obj |-> IF o \in Bag THEN 0 ELSE 1]

LEMMA OnesSum ==
  ASSUME NEW T \in SUBSET Obj
  PROVE  Ones \in [Obj -> Int] /\ SumFunctionOnSet(Ones, T) = Cardinality(T \ Bag)
<1> DEFINE k == [o \in T |-> IF o \in Bag THEN 0 ELSE 1]
           F == T \ Bag
<1>1. /\ IsFiniteSet(T) /\ k \in [T -> Int] /\ (\A o \in T : k[o] = IF o \in F THEN 1 ELSE 0)
      /\ F \in SUBSET T /\ 1 \in Nat /\ IsFiniteSet(F) /\ Ones \in [Obj -> Int] /\ \A o \in T : Ones[o] = k[o]
  BY ObjsAreFinite DEF Ones
<1> HIDE DEF k, F
<1>2. SumFunctionOnSet(k, T) = 1 * Cardinality(F)
  BY <1>1, SumOfEqual
<1>3. SumFunctionOnSet(Ones, T) = SumFunctionOnSet(k, T)
  BY <1>1, SumSame
<1>4. Cardinality(F) \in Nat
  BY <1>1, FS_CardinalityType
<1> QED
  BY <1>1, <1>2, <1>3, <1>4 DEF F

\* All that c has, worn, in hand, in a bag in hand.
Belongings(w, c) == {p \in Obj : Home(w, p) = c}

LEMMA BelongingsAre ==
  ASSUME NEW w, Rooted(w), NEW c \in Char
  PROVE  /\ \A o \in Inside(w, c), p \in Obj : p \in Within(w, o) => Home(w, p) = c /\ Outermost(w, p) = o
         /\ Belongings(w, c) = UNION {Within(w, o) : o \in Inside(w, c)}
<1>1. ASSUME NEW o \in Inside(w, c), NEW p \in Obj, p \in Within(w, o)
      PROVE  Home(w, p) = c /\ Outermost(w, p) = o
  <2>1. o \in Obj /\ w.at[o] = c /\ c \notin Obj
    BY NamesDiffer DEF Inside
  <2>2. Outermost(w, o) = o /\ Outermost(w, p) = Outermost(w, o)
    BY <1>1, <2>1, OutermostIs, WithinSame
  <2> QED
    BY <2>1, <2>2 DEF Home
<1>2. ASSUME NEW p \in Obj, Home(w, p) = c
      PROVE  \E o \in Inside(w, c) : p \in Within(w, o)
  <2> DEFINE t == Outermost(w, p)
  <2>1. t \in Obj /\ w.at[t] = c /\ p \in Within(w, t)
    BY <1>2, OutermostIs DEF Home
  <2> HIDE DEF t
  <2> QED
    BY <2>1 DEF Inside
<1>3. \A o : Within(w, o) \subseteq Obj
  BY DEF Within
<1> QED
  BY <1>1, <1>2, <1>3 DEF Belongings

\* The sum of what F says of each thing in hand, where F adds up what f says of
\* all within it.
Adds(w, F, f, S) == \A o \in S : F[o] = SumFunctionOnSet(f, Within(w, o))

LEMMA BelongingsSum ==
  ASSUME NEW w, Rooted(w), NEW c \in Char, NEW f \in [Obj -> Int], NEW F \in [Obj -> Int],
         Adds(w, F, f, Inside(w, c))
  PROVE  SumFunctionOnSet(F, Inside(w, c)) = SumFunctionOnSet(f, Belongings(w, c))
<1> DEFINE T == Inside(w, c)
           P == [o \in T |-> Within(w, o)]
           G == [o \in T |-> F[o]]
<1>1. T \in SUBSET Obj /\ IsFiniteSet(T) /\ IsFiniteSet(Obj)
  <2>1. T \in SUBSET Obj
    BY DEF Inside
  <2> QED
    BY <2>1, ObjsAreFinite
<1>2. P \in [T -> SUBSET Obj]
  BY DEF Within
<1>3. \A x, y \in T : x # y => P[x] \cap P[y] = {}
  <2> SUFFICES ASSUME NEW x \in T, NEW y \in T, NEW p \in P[x], p \in P[y] PROVE x = y
    OBVIOUS
  <2>1. p \in Obj /\ p \in Within(w, x) /\ p \in Within(w, y)
    BY <1>2
  <2> QED
    BY <2>1, BelongingsAre
<1>4. G \in [T -> Int] /\ (\A x \in T : G[x] = SumFunctionOnSet(f, P[x])) /\ \A x \in T : F[x] = G[x]
  BY <1>1 DEF Adds
<1>5. UNION {P[x] : x \in T} = Belongings(w, c)
  BY BelongingsAre
<1> HIDE DEF T, P, G
<1>6. SumFunctionOnSet(G, T) = SumFunctionOnSet(f, UNION {P[x] : x \in T})
  BY <1>1, <1>2, <1>3, <1>4, SumOfParts
<1>7. SumFunctionOnSet(F, T) = SumFunctionOnSet(G, T)
  BY <1>1, <1>4, SumSame
<1> QED
  BY <1>5, <1>6, <1>7 DEF T

LEMMA NumberIs ==
  ASSUME NEW w, Sound(w), NEW c \in Char
  PROVE  w.number[c] = SumFunctionOnSet([o \in Obj |-> get_obj_number(w, o)], Inside(w, c))
<1> DEFINE F == [o \in Obj |-> get_obj_number(w, o)]
<1>1. Rooted(w)
  BY SoundIs
<1>2. F \in [Obj -> Int] /\ \A o \in Obj : F[o] = SumFunctionOnSet(Ones, Within(w, o))
  <2>1. ASSUME NEW o \in Obj
        PROVE  get_obj_number(w, o) \in Int /\ get_obj_number(w, o) = SumFunctionOnSet(Ones, Within(w, o))
    <3>1. Within(w, o) \in SUBSET Obj
      BY DEF Within
    <3>2. get_obj_number(w, o) = SumFunctionOnSet(Ones, Within(w, o))
      BY <3>1, OnesSum DEF get_obj_number
    <3>3. SumFunctionOnSet(Ones, Within(w, o)) \in Int
      BY <3>1, OnesSum, ObjsAreFinite, SumType
    <3> QED
      BY <3>2, <3>3
  <2> QED
    BY <2>1
<1>3. Adds(w, F, Ones, Inside(w, c)) /\ Ones \in [Obj -> Int]
  BY <1>2, OnesSum DEF Adds, Inside
<1> HIDE DEF F
<1>4. SumFunctionOnSet(F, Inside(w, c)) = SumFunctionOnSet(Ones, Belongings(w, c))
  BY <1>1, <1>2, <1>3, BelongingsSum
<1>5. SumFunctionOnSet(Ones, Belongings(w, c)) = Cardinality(Belongings(w, c) \ Bag)
  <2>1. Belongings(w, c) \in SUBSET Obj
    BY DEF Belongings
  <2> QED
    BY <2>1, OnesSum
<1>6. Belongings(w, c) \ Bag = Things(w, c)
  BY DEF Belongings, Things
<1> QED
  BY <1>4, <1>5, <1>6 DEF F, Sound, Numbered

LEMMA WeightIs ==
  ASSUME Exactly, NEW w, Sound(w), NEW c \in Char
  PROVE  w.weight[c] = SumFunctionOnSet([o \in Obj |-> get_obj_weight(w, o)], Inside(w, c))
<1> DEFINE F == [o \in Obj |-> get_obj_weight(w, o)]
           f == Burden(w, c)
           H == Belongings(w, c)
           R == Obj \ H
<1>1. Rooted(w) /\ Laid(w) /\ Plain(w) /\ f \in [Obj -> Int]
  BY SoundIs, BurdensAre
<1>2. F \in [Obj -> Int]
  BY <1>1, CountsAreNat
<1>3. \A o \in Inside(w, c) : get_obj_weight(w, o) = SumFunctionOnSet(f, Within(w, o))
  <2> SUFFICES ASSUME NEW o \in Inside(w, c) PROVE get_obj_weight(w, o) = SumFunctionOnSet(f, Within(w, o))
    OBVIOUS
  <2>1. o \in Obj /\ w.at[o] = c /\ c \notin Obj /\ o \notin Corpse
    BY <1>1, NamesDiffer DEF Inside, Laid
  <2>2. \A p \in Within(w, o) : f[p] = IF p = o THEN Own[p] ELSE Part(p, o)
    <3> SUFFICES ASSUME NEW p \in Within(w, o) PROVE f[p] = IF p = o THEN Own[p] ELSE Part(p, o)
      OBVIOUS
    <3>1. p \in Obj /\ Home(w, p) = c /\ Outermost(w, p) = o
      BY <1>1, BelongingsAre DEF Within
    <3>2. p # o => w.at[p] \in Obj
      BY <1>1, <2>1, WithinAre
    <3> QED
      BY <2>1, <3>1, <3>2 DEF Burden, Val
  <2> HIDE DEF f
  <2> QED
    BY <1>1, <2>1, <2>2, OuterWeighs
<1>4. Adds(w, F, f, Inside(w, c))
  BY <1>3 DEF Adds, Inside
<1> HIDE DEF F
<1>5. SumFunctionOnSet(F, Inside(w, c)) = SumFunctionOnSet(f, H)
  BY <1>1, <1>2, <1>4, BelongingsSum
<1>6. H \in SUBSET Obj /\ R \in SUBSET Obj /\ H \cap R = {} /\ H \cup R = Obj /\ Blank(f, R)
  BY DEF Belongings, Blank, Burden
<1> HIDE DEF f, H, R
<1>7. SumFunctionOnSet(f, Obj) = SumFunctionOnSet(f, H) + SumFunctionOnSet(f, R)
  <2>1. IsFiniteSet(H) /\ IsFiniteSet(R)
    BY <1>6, ObjsAreFinite
  <2>2. SumFunctionOnSet(f, H \cup R) = SumFunctionOnSet(f, H) + SumFunctionOnSet(f, R)
    BY <1>1, <1>6, <2>1, SumUnion
  <2> QED
    BY <1>6, <2>2
<1>8. SumFunctionOnSet(f, R) = 0 /\ SumFunctionOnSet(f, H) \in Int
  BY <1>1, <1>6, BlankSum, ObjsAreFinite, SumType
<1> QED
  BY <1>5, <1>7, <1>8 DEF F, f, Sound, Heavy

\* At the start there is nothing.
LEMMA InitFine ==
  ASSUME Init
  PROVE  Fine(world)
<1> DEFINE w == world
<1>1. /\ w \in World /\ w.worn = {} /\ (\A o \in Obj : w.at[o] = Nil)
      /\ (\A c \in Char : w.where[c] = Nil /\ w.on[c] = Nil /\ w.number[c] = 0 /\ w.weight[c] = 0)
      /\ \A r \in Room : w.light[r] = 0
  BY DEF Init, World
<1> HIDE DEF w
<1>2. Fit(w)
  BY <1>1, NamesDiffer DEF Fit, Rooted
<1>3. \A o \in Obj : Home(w, o) = Nil
  BY <1>1, <1>2, HomeIs, NamesDiffer DEF Fit
<1>4. Carried(w) /\ OneLamp(w) /\ Seated(w)
  BY <1>1 DEF Carried, OneLamp, Seated
<1>5. Lights(w)
  <2>1. \A r \in Room : Beams(w, r) = {}
    BY <1>1, NamesDiffer DEF Beams
  <2> QED
    BY <1>1, <2>1, FS_EmptySet DEF Lights
<1>6. Numbered(w)
  <2>1. \A c \in Char : Things(w, c) = {}
    BY <1>3, NamesDiffer DEF Things
  <2> QED
    BY <1>1, <2>1, FS_EmptySet DEF Numbered
<1>7. Heavy(w)
  <2>1. Laid(w) /\ Plain(w)
    BY <1>1, NamesDiffer, LampsAndSeats DEF Laid, Plain
  <2>2. \A c \in Char : SumFunctionOnSet(Burden(w, c), Obj) = 0
    <3> SUFFICES ASSUME NEW c \in Char PROVE SumFunctionOnSet(Burden(w, c), Obj) = 0
      OBVIOUS
    <3>1. Burden(w, c) \in [Obj -> Int]
      BY <1>2, BurdensAre DEF Fit
    <3>2. Blank(Burden(w, c), Obj)
      BY <1>3, NamesDiffer DEF Blank, Burden
    <3>3. Obj \in SUBSET Obj
      OBVIOUS
    <3> QED
      BY <3>1, <3>2, <3>3, BlankSum
  <2> QED
    BY <1>1, <2>1, <2>2 DEF Heavy
<1>8. Held(w, {}, {})
  BY <1>1, NamesDiffer DEF Held
<1> QED
  BY <1>2, <1>4, <1>5, <1>6, <1>7, <1>8 DEF Fine, Good, Sound, w

LEMMA MovesKeep ==
  ASSUME ~AtHome, Fine(world), NEW c \in Char, Moves(c)
  PROVE  Fine(world')
<1>1. CASE \E r \in Room : Enter(c, r) \/ Walk(c, r) \/ At(c, r)
  BY <1>1, EnterKeeps, WalkKeeps, AtKeeps
<1>2. CASE Leave(c) \/ DiePlayer(c) \/ do_sacrifice(c) \/ do_purge(c)
  BY <1>2, LeaveKeeps, DiePlayerKeeps, SacrificeKeeps, PurgeKeeps
<1>3. CASE \E o \in Corpse : DieMob(c, o)
  BY <1>3, DieMobKeeps
<1> QED
  BY <1>1, <1>2, <1>3 DEF Moves

LEMMA HandlesKeep ==
  ASSUME Fine(world), NEW c \in Char, NEW o \in Obj, Handles(c, o)
  PROVE  Fine(world')
<1>1. CASE Get(c, o) \/ Drop(c, o) \/ Wear(c, o) \/ do_remove(c, o) \/ Disarm(c, o)
  BY <1>1, GetKeeps, DropKeeps, WearKeeps, RemoveKeeps, DisarmKeeps
<1>2. CASE Sit(c, o) \/ Stand(c, o) \/ BurnOut(c, o) \/ do_eat(c, o) \/ Junk(c, o)
  BY <1>2, SitKeeps, StandKeeps, BurnOutKeeps, EatKeeps, JunkKeeps
<1>3. CASE \E b \in Obj : GetFrom(c, o, b) \/ Put(c, o, b)
  BY <1>3, GetFromKeeps, PutKeeps
<1>4. CASE \E v \in Char : \/ Give(c, o, v) \/ do_steal(c, o, v) \/ do_chown(c, o, v)
                           \/ Buy(c, o, v) \/ Sell(c, o, v) \/ do_mpremove(c, o, v)
  BY <1>4, GiveKeeps, StealKeeps, ChownKeeps, BuyKeeps, SellKeeps, MpremoveKeeps
<1>5. CASE \E r \in Room : do_mpotransfer(c, o, r) \/ Donate(c, o, r)
  BY <1>5, MpotransferKeeps, DonateKeeps
<1> QED
  BY <1>1, <1>2, <1>3, <1>4, <1>5 DEF Handles

LEMMA NextFine ==
  ASSUME ~AtHome, Fine(world), [Next]_vars
  PROVE  Fine(world')
<1>1. CASE \E c \in Char : Moves(c)
  BY <1>1, MovesKeep
<1>2. CASE \E c \in Char, o \in Obj : Handles(c, o)
  BY <1>2, HandlesKeep
<1>3. CASE \E o \in Obj : Create(o) \/ Decay(o) \/ Spill(o) \/ Dissolve(o) \/ Burn(o) \/ Shatter(o)
  BY <1>3, CreateKeeps, DecayKeeps, SpillKeeps, DissolveKeeps, BurnKeeps, ShatterKeeps
<1>4. CASE UNCHANGED vars
  BY <1>4 DEF vars
<1> QED
  BY <1>1, <1>2, <1>3, <1>4 DEF Next

----------------------------------------------------------------------------
\* What the books of the world say, in every world but those of immortals who
\* use at on the room they are in.

IInv == Fine(world)

LEMMA AlwaysFine ==
  ASSUME ~AtHome
  PROVE  Spec => []IInv
<1>1. Init => IInv
  BY InitFine DEF IInv
<1>2. IInv /\ [Next]_vars => IInv'
  BY NextFine DEF IInv
<1> QED
  BY <1>1, <1>2, PTL DEF Spec

\* Nothing in the game hangs in the air: Anchored of any world that is fine.
LEMMA AllAnchored ==
  ASSUME IInv
  PROVE  Anchored
<1> DEFINE w == world
<1>1. Sound(w) /\ Held(w, {}, {}) /\ Rooted(w) /\ w \in World
  BY SoundIs DEF IInv, Fine, Good
<1>2. w.at \in [Obj -> Room \cup Char \cup Obj \cup {Nil}] /\ w.worn \in SUBSET Obj
  BY <1>1, WorldIs
<1> DEFINE In(x) == x \in Room \/ (x \in Char /\ w.where[x] # Nil)
           G == {o \in Obj : w.at[o] # Nil => In(Home(w, o))}
<1> HIDE DEF w
<1>3. ASSUME NEW o \in Obj, w.at[o] \in Obj => w.at[o] \in G
      PROVE  o \in G
  <2>1. CASE w.at[o] \in Obj
    <3>1. w.at[w.at[o]] # Nil /\ Home(w, o) = Home(w, w.at[o])
      BY <1>1, <2>1, HomeIs DEF Held
    <3> QED
      BY <1>3, <2>1, <3>1
  <2>2. CASE w.at[o] \notin Obj
    <3>1. Home(w, o) = w.at[o] /\ (w.at[o] \in Char => w.where[w.at[o]] # Nil)
      BY <1>1, <2>2, HomeIs DEF Held
    <3> QED
      BY <1>2, <2>2, <3>1
  <2> QED
    BY <2>1, <2>2
<1> HIDE DEF G
<1>4. \A o \in Obj : o \in G
  BY <1>1, <1>3, OutwardInduction, Zenon
<1>5. \A o \in Obj : w.at[o] # Nil => In(Home(w, o))
  BY <1>4 DEF G
<1>6. w.worn \subseteq {o \in Obj : w.at[o] \in Char}
  BY <1>1, <1>2 DEF Sound, Carried
<1> QED
  BY <1>1, <1>5, <1>6 DEF Anchored, TypeOK, Home, w

\* Whatever is in the game can be got at.
THEOREM Spec_Anchored ==
  ASSUME ~AtHome
  PROVE  Spec => []Anchored
<1>1. IInv => Anchored
  BY AllAnchored
<1> QED
  BY <1>1, AlwaysFine, PTL

\* Nobody sits on what is not where he is.
THEOREM Spec_SeatsAreHere ==
  ASSUME ~AtHome
  PROVE  Spec => []SeatsAreHere
<1>1. IInv => SeatsAreHere
  BY DEF IInv, Fine, Good, Sound, Seated, SeatsAreHere
<1> QED
  BY <1>1, AlwaysFine, PTL

\* A room is as light as lit lamps are worn in it, where nobody logs in with one.
THEOREM Spec_LightsCounted ==
  ASSUME ~AtHome, Lanterns = {}
  PROVE  Spec => []LightsCounted
<1>1. IInv => LightsCounted
  BY DEF IInv, Fine, Good, Sound, Lights, Beams, LightsCounted
<1> QED
  BY <1>1, AlwaysFine, PTL

\* Everybody carries as many things as is counted.
THEOREM Spec_NumberExact ==
  ASSUME ~AtHome
  PROVE  Spec => []NumberExact
<1>1. IInv => NumberExact
  BY NumberIs DEF IInv, Fine, Good, NumberExact
<1> QED
  BY <1>1, AlwaysFine, PTL

\* And what is counted weighs as much, where weights come out even.
THEOREM Spec_CarryExact ==
  ASSUME ~AtHome, Exactly
  PROVE  Spec => []CarryExact
<1>1. IInv => CarryExact
  BY NumberIs, WeightIs DEF IInv, Fine, Good, NumberExact, CarryExact
<1> QED
  BY <1>1, AlwaysFine, PTL
=============================================================================
