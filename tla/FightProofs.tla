----------------------------- MODULE FightProofs -----------------------------
(***************************************************************************)
(* That nobody fights who is not there, for any number of players, mobiles *)
(* and rooms: each helper of fight.c leads from games where that is so to  *)
(* such games, whatever dice and programs do in the middle of it.          *)
(***************************************************************************)
EXTENDS Fight, Sums, TLAPS

----------------------------------------------------------------------------
\* Games as they should be.

Paired(g, c) == g.fighting[c] # Nil => g.where[c] # Nil /\ g.where[g.fighting[c]] # Nil
Posing(g, c) == g.pos[c] = "fighting" /\ c \notin Tempered => g.fighting[c] # Nil

Fine == {g \in Game : \A c \in Char : Paired(g, c) /\ Posing(g, c)}

\* Those where only v may be elsewhere than in g.
Turns(g, v) == {h \in Fine : \A x \in Char \ {v} : h.where[x] = g.where[x]}

LEMMA CharsAre ==
  /\ Char = Player \cup Mob /\ Nil \notin Char /\ Nil \notin Room /\ IsFiniteSet(Char)
  /\ \A T \in SUBSET Char : IsFiniteSet(T)
  /\ Temple \in Room /\ Tempered \subseteq Char
<1>1. IsFiniteSet(Char)
  BY FightConstants, FS_Union DEF Char
<1>2. \A T \in SUBSET Char : IsFiniteSet(T)
  BY <1>1, FS_Subset
<1> QED
  BY <1>1, <1>2, FightConstants DEF Char

LEMMA GameFields ==
  ASSUME NEW g \in Game
  PROVE  /\ g.where \in [Char -> Room \cup {Nil}]
         /\ g.fighting \in [Char -> Char \cup {Nil}]
         /\ g.pos \in [Char -> Position]
BY DEF Game

LEMMA FineFacts ==
  ASSUME NEW g \in Fine
  PROVE  /\ g \in Game
         /\ \A c \in Char : g.fighting[c] # Nil =>
              g.fighting[c] \in Char /\ Here(g, c) /\ Here(g, g.fighting[c])
         /\ \A c \in Char : g.pos[c] = "fighting" /\ c \notin Tempered => g.fighting[c] # Nil
         /\ \A v : g \in Turns(g, v)
BY GameFields DEF Fine, Paired, Posing, Here, Turns

\* What makes a game fine.
LEMMA MakesFine ==
  ASSUME NEW g \in Game,
         \A c \in Char : g.fighting[c] # Nil => g.where[c] # Nil /\ g.where[g.fighting[c]] # Nil,
         \A c \in Char : g.pos[c] = "fighting" /\ c \notin Tempered => g.fighting[c] # Nil
  PROVE  g \in Fine
BY DEF Fine, Paired, Posing

LEMMA TurnsFacts ==
  ASSUME NEW g, NEW v, NEW h \in Turns(g, v)
  PROVE  /\ h \in Fine /\ h \in Game /\ \A x \in Char \ {v} : h.where[x] = g.where[x]
         /\ Turns(h, v) \subseteq Turns(g, v)
BY DEF Turns, Fine

----------------------------------------------------------------------------
\* The fields.

LEMMA PosedIs ==
  ASSUME NEW g \in Game, NEW c \in Char, NEW p \in Position
  PROVE  /\ Posed(g, c, p) \in Game
         /\ Posed(g, c, p).where = g.where /\ Posed(g, c, p).fighting = g.fighting
         /\ Posed(g, c, p).pos = [g.pos EXCEPT ![c] = p]
BY DEF Posed, Game

LEMMA MovedIs ==
  ASSUME NEW g \in Game, NEW c \in Char, NEW r \in Room \cup {Nil}
  PROVE  /\ Moved(g, c, r) \in Game
         /\ Moved(g, c, r).where = [g.where EXCEPT ![c] = r]
         /\ Moved(g, c, r).fighting = g.fighting /\ Moved(g, c, r).pos = g.pos
BY DEF Moved, Game

LEMMA CalmedIs ==
  ASSUME NEW c \in Char
  PROVE  Calmed(c) \in Position /\ Calmed(c) # "fighting"
BY FightConstants DEF Calmed, Position, Char

\* Whom stop_fighting stops.
Stopped(g, c, both) == {c} \cup IF both THEN Foes(g, c) ELSE {}

LEMMA StopIs ==
  ASSUME NEW g \in Game, NEW c \in Char, NEW both \in BOOLEAN
  PROVE  LET h == stop_fighting(g, c, both)
             all == Stopped(g, c, both)
         IN  /\ h \in Game /\ h.where = g.where
             /\ \A f \in Char : h.fighting[f] = IF f \in all THEN Nil ELSE g.fighting[f]
             /\ \A f \in Char : h.pos[f] = IF f \in all /\ g.pos[f] # "down" THEN Calmed(f) ELSE g.pos[f]
<1> DEFINE all == Stopped(g, c, both)
           F == [f \in Char |-> IF f \in all THEN Nil ELSE g.fighting[f]]
           P == [f \in Char |-> IF f \in all /\ g.pos[f] # "down" THEN Calmed(f) ELSE g.pos[f]]
           u == [g EXCEPT !.fighting = F]
           h == [u EXCEPT !.pos = P]
<1>1. F \in [Char -> Char \cup {Nil}]
  BY GameFields
<1>2. P \in [Char -> Position]
  BY GameFields, CalmedIs
<1>3. /\ u \in Game /\ u.where = g.where /\ u.fighting = F /\ u.pos = g.pos
  <2> HIDE DEF F
  <2> QED
    BY <1>1 DEF Game
<1>4. stop_fighting(g, c, both) = h
  BY DEF stop_fighting, Stopped, Game
<1> HIDE DEF u
<1>5. h \in Game /\ h.where = u.where /\ h.fighting = u.fighting /\ h.pos = P
  <2> HIDE DEF P
  <2> QED
    BY <1>2, <1>3 DEF Game
<1> QED
  BY <1>3, <1>4, <1>5

LEMMA SetIs ==
  ASSUME NEW g \in Game, NEW c \in Char, NEW v \in Char, g.fighting[c] = Nil
  PROVE  LET h == set_fighting(g, c, v)
         IN  /\ h \in Game /\ h.where = g.where
             /\ h.fighting = [g.fighting EXCEPT ![c] = v]
             /\ h.pos = [g.pos EXCEPT ![c] = "fighting"]
<1> DEFINE F == [g.fighting EXCEPT ![c] = v]
           u == [g EXCEPT !.fighting[c] = v]
           h == [u EXCEPT !.pos[c] = "fighting"]
<1>1. F \in [Char -> Char \cup {Nil}]
  BY GameFields
<1>2. u \in Game /\ u.where = g.where /\ u.fighting = F /\ u.pos = g.pos
  BY <1>1 DEF Game
<1>3. set_fighting(g, c, v) = h
  BY DEF set_fighting, Game
<1> HIDE DEF u
<1>4. "fighting" \in Position
  BY DEF Position
<1>5. h \in Game /\ h.where = u.where /\ h.fighting = u.fighting /\ h.pos = [u.pos EXCEPT ![c] = "fighting"]
  BY <1>2, <1>4 DEF Game
<1> QED
  BY <1>2, <1>3, <1>5

----------------------------------------------------------------------------
\* Small steps.

\* Those where nobody is elsewhere than in g.
Stays(g) == {h \in Fine : h.where = g.where}

LEMMA StaysFacts ==
  ASSUME NEW g \in Fine, NEW h \in Stays(g)
  PROVE  /\ h \in Fine /\ h.where = g.where
         /\ \A v : h \in Turns(g, v) /\ Turns(h, v) \subseteq Turns(g, v)
BY DEF Stays, Turns

LEMMA PosedFine ==
  ASSUME NEW g \in Fine, NEW c \in Char, NEW p \in Position,
         p = "fighting" /\ c \notin Tempered => g.fighting[c] # Nil
  PROVE  Posed(g, c, p) \in Stays(g)
<1> DEFINE h == Posed(g, c, p)
<1>1. g \in Game
  BY FineFacts
<1>2. /\ h \in Game /\ h.where = g.where /\ h.fighting = g.fighting
      /\ h.pos = [g.pos EXCEPT ![c] = p]
  BY <1>1, PosedIs
<1>3. \A f \in Char : h.pos[f] = IF f = c THEN p ELSE g.pos[f]
  BY <1>1, <1>2, GameFields
<1> HIDE DEF h
<1>4. \A f \in Char : h.pos[f] = "fighting" /\ f \notin Tempered => h.fighting[f] # Nil
  BY <1>2, <1>3, FineFacts
<1>5. \A f \in Char : h.fighting[f] # Nil => h.where[f] # Nil /\ h.where[h.fighting[f]] # Nil
  BY <1>2, FineFacts DEF Here
<1>6. h \in Fine
  BY <1>2, <1>4, <1>5, MakesFine
<1> QED
  BY <1>2, <1>6 DEF Stays, h

LEMMA StopFine ==
  ASSUME NEW g \in Fine, NEW c \in Char, NEW both \in BOOLEAN
  PROVE  LET h == stop_fighting(g, c, both)
         IN  /\ h \in Stays(g) /\ h.fighting[c] = Nil
             /\ both => \A f \in Char : h.fighting[f] # c
<1> DEFINE h == stop_fighting(g, c, both)
           all == Stopped(g, c, both)
<1>1. g \in Game
  BY FineFacts
<1>2. /\ h \in Game /\ h.where = g.where
      /\ \A f \in Char : h.fighting[f] = IF f \in all THEN Nil ELSE g.fighting[f]
      /\ \A f \in Char : h.pos[f] = IF f \in all /\ g.pos[f] # "down" THEN Calmed(f) ELSE g.pos[f]
  BY <1>1, StopIs
<1>3. c \in all /\ (both => \A f \in Char : g.fighting[f] = c => f \in all)
  BY DEF Stopped, Foes
<1> HIDE DEF h, all
<1>4. c # Nil
  BY CharsAre
<1>5. \A f \in Char : h.fighting[f] # Nil => h.where[f] # Nil /\ h.where[h.fighting[f]] # Nil
  BY <1>2, FineFacts DEF Here
<1>6. ASSUME NEW f \in Char, h.pos[f] = "fighting", f \notin Tempered
      PROVE  h.fighting[f] # Nil
  <2>1. f \notin all
    BY <1>2, <1>6, CalmedIs
  <2> QED
    BY <1>2, <1>6, <2>1, FineFacts
<1>7. h \in Fine
  BY <1>2, <1>5, <1>6, MakesFine
<1>8. h.fighting[c] = Nil /\ (both => \A f \in Char : h.fighting[f] # c)
  BY <1>2, <1>3, <1>4
<1> QED
  BY <1>2, <1>7, <1>8 DEF Stays, h

LEMMA MovedFine ==
  ASSUME NEW g \in Fine, NEW c \in Char, NEW r \in Room \cup {Nil},
         r = Nil => g.fighting[c] = Nil /\ \A f \in Char : g.fighting[f] # c
  PROVE  LET h == Moved(g, c, r)
         IN  /\ h \in Turns(g, c) /\ h.fighting = g.fighting /\ h.pos = g.pos
             /\ r \in Room => Here(h, c)
<1> DEFINE h == Moved(g, c, r)
<1>1. g \in Game
  BY FineFacts
<1>2. /\ h \in Game /\ h.where = [g.where EXCEPT ![c] = r]
      /\ h.fighting = g.fighting /\ h.pos = g.pos
  BY <1>1, MovedIs
<1>3. \A f \in Char : h.where[f] = IF f = c THEN r ELSE g.where[f]
  BY <1>1, <1>2, GameFields
<1> HIDE DEF h
<1>4. ASSUME NEW f \in Char, h.fighting[f] # Nil
      PROVE  h.where[f] # Nil /\ h.where[h.fighting[f]] # Nil
  <2>1. g.fighting[f] \in Char /\ g.where[f] # Nil /\ g.where[g.fighting[f]] # Nil
    BY <1>2, <1>4, FineFacts DEF Here
  <2> QED
    BY <1>2, <1>3, <1>4, <2>1
<1>5. h \in Fine
  BY <1>2, <1>4, FineFacts, MakesFine
<1>6. r \in Room => Here(h, c)
  BY <1>3, CharsAre DEF Here
<1>7. h \in Turns(g, c)
  BY <1>3, <1>5 DEF Turns
<1> QED
  BY <1>2, <1>6, <1>7 DEF h

\* Who leaves, for another room or for good, is left by all.
LEMMA LeaveFine ==
  ASSUME NEW g \in Fine, NEW c \in Char, NEW r \in Room \cup {Nil}
  PROVE  LET h == Moved(stop_fighting(g, c, TRUE), c, r)
         IN  h \in Turns(g, c) /\ (r \in Room => Here(h, c))
<1> DEFINE u == stop_fighting(g, c, TRUE)
<1>1. u \in Stays(g) /\ u.fighting[c] = Nil /\ \A f \in Char : u.fighting[f] # c
  BY StopFine
<1>2. u \in Fine /\ Turns(u, c) \subseteq Turns(g, c)
  BY <1>1, StaysFacts
<1> HIDE DEF u
<1>3. Moved(u, c, r) \in Turns(u, c) /\ (r \in Room => Here(Moved(u, c, r), c))
  BY <1>1, <1>2, MovedFine
<1> QED
  BY <1>2, <1>3 DEF u

LEMMA ExtractFine ==
  ASSUME NEW g \in Fine, NEW c \in Char, NEW r \in Room \cup {Nil}
  PROVE  extract_char(g, c, r) \in Turns(g, c)
BY LeaveFine DEF extract_char

LEMMA KillFine ==
  ASSUME NEW g \in Fine, NEW c \in Char
  PROVE  raw_kill(g, c) \in Turns(g, c)
<1>1. CASE c \in Mob
  BY <1>1, ExtractFine DEF raw_kill
<1>2. CASE c \notin Mob
  <2> DEFINE u == extract_char(g, c, Temple)
  <2>1. u \in Turns(g, c)
    BY ExtractFine, CharsAre
  <2>2. u \in Fine /\ Turns(u, c) \subseteq Turns(g, c)
    BY <2>1, TurnsFacts
  <2>3. raw_kill(g, c) = Posed(u, c, "sleeping")
    BY <1>2 DEF raw_kill
  <2> HIDE DEF u
  <2>4. "sleeping" \in Position
    BY DEF Position
  <2>5. Posed(u, c, "sleeping") \in Turns(u, c)
    BY <2>2, <2>4, PosedFine, StaysFacts
  <2> QED
    BY <2>2, <2>3, <2>5
<1> QED
  BY <1>1, <1>2

\* Only those who are there are set upon each other.
LEMMA SetFine ==
  ASSUME NEW g \in Fine, NEW c \in Char, NEW v \in Char, Here(g, c), Here(g, v)
  PROVE  set_fighting(g, c, v) \in Stays(g) /\ set_fighting(g, c, v).fighting[c] # Nil
<1>1. CASE g.fighting[c] # Nil
  BY <1>1 DEF set_fighting, Stays
<1>2. CASE g.fighting[c] = Nil
  <2> DEFINE h == set_fighting(g, c, v)
  <2>1. g \in Game
    BY FineFacts
  <2>2. /\ h \in Game /\ h.where = g.where
        /\ h.fighting = [g.fighting EXCEPT ![c] = v]
        /\ h.pos = [g.pos EXCEPT ![c] = "fighting"]
    BY <1>2, <2>1, SetIs
  <2>3. \A f \in Char : /\ h.fighting[f] = IF f = c THEN v ELSE g.fighting[f]
                        /\ h.pos[f] = IF f = c THEN "fighting" ELSE g.pos[f]
    BY <2>1, <2>2, GameFields
  <2> HIDE DEF h
  <2>4. v # Nil
    BY CharsAre
  <2>5. ASSUME NEW f \in Char, h.fighting[f] # Nil
        PROVE  h.where[f] # Nil /\ h.where[h.fighting[f]] # Nil
    BY <2>2, <2>3, <2>5, FineFacts DEF Here
  <2>6. \A f \in Char : h.pos[f] = "fighting" /\ f \notin Tempered => h.fighting[f] # Nil
    BY <2>3, <2>4, FineFacts
  <2>7. h \in Fine
    BY <2>2, <2>5, <2>6, MakesFine
  <2> QED
    BY <2>2, <2>3, <2>4, <2>7 DEF Stays, h
<1> QED
  BY <1>1, <1>2

----------------------------------------------------------------------------
\* Flights, programs and blows move nobody but the one they are about.

LEMMA FleeFine ==
  ASSUME NEW g \in Fine, NEW c \in Char
  PROVE  do_flee(g, c) \subseteq Turns(g, c)
<1>1. CASE g.fighting[c] = Nil
  <2>1. "standing" \in Position
    BY DEF Position
  <2>2. Posed(g, c, "standing") \in Turns(g, c)
    BY <2>1, PosedFine, StaysFacts
  <2>3. g \in Turns(g, c)
    BY FineFacts
  <2> QED
    BY <1>1, <2>2, <2>3 DEF do_flee
<1>2. CASE g.fighting[c] # Nil
  <2>1. \A r \in Room : Moved(stop_fighting(g, c, TRUE), c, r) \in Turns(g, c)
    BY LeaveFine
  <2>2. g \in Turns(g, c)
    BY FineFacts
  <2> QED
    BY <1>2, <2>1, <2>2 DEF do_flee
<1> QED
  BY <1>1, <1>2

LEMMA TempersFine ==
  ASSUME Harsh = {}, NEW g \in Fine, NEW c \in Char
  PROVE  /\ Tempers(g, c) \subseteq Turns(g, c)
         /\ Here(g, c) => \A h \in Tempers(g, c) : Here(h, c)
         /\ \A h \in Tempers(g, c) : h = g \/ c \in Tempered
<1>1. \A r \in Room : LET h == Moved(stop_fighting(g, c, TRUE), c, r)
                      IN  h \in Turns(g, c) /\ Here(h, c)
  BY LeaveFine
<1>2. g \in Turns(g, c)
  BY FineFacts
<1>3. ASSUME NEW h \in Tempers(g, c)
      PROVE  h = g \/ (c \in Tempered /\ \E r \in Room : h = Moved(stop_fighting(g, c, TRUE), c, r))
  BY <1>3 DEF Tempers
<1> QED
  BY <1>1, <1>2, <1>3

LEMMA EngageFine ==
  ASSUME Harsh = {}, NEW g \in Fine, NEW c \in Char, NEW v \in Char, Here(g, c), Here(g, v)
  PROVE  engage(g, c, v) \subseteq Turns(g, v)
<1> DEFINE met == IF g.fighting[v] = Nil THEN Tempers(set_fighting(g, v, c), v) ELSE {g}
           up == {Posed(m, v, "fighting") : m \in met} \cup IF v \in Player THEN met ELSE {}
<1>1. g \in Turns(g, v)
  BY FineFacts
<1>2. CASE c = v \/ ~Alert(g, v)
  BY <1>1, <1>2 DEF engage
<1>3. CASE c # v /\ Alert(g, v)
  <2>1. engage(g, c, v) = {set_fighting(u, c, v) : u \in up}
    BY <1>3 DEF engage
  <2>2. ASSUME NEW m \in met
        PROVE  m \in Turns(g, v) /\ Here(m, v) /\ (m.fighting[v] # Nil \/ v \in Tempered)
    <3>1. CASE g.fighting[v] # Nil
      BY <1>1, <2>2, <3>1
    <3>2. CASE g.fighting[v] = Nil
      <4> DEFINE s == set_fighting(g, v, c)
      <4>1. s \in Stays(g) /\ s.fighting[v] # Nil
        BY SetFine
      <4>2. s \in Fine /\ s.where = g.where /\ Turns(s, v) \subseteq Turns(g, v)
        BY <4>1, StaysFacts
      <4>3. m \in Tempers(s, v)
        BY <2>2, <3>2
      <4> HIDE DEF s
      <4>4. Here(s, v)
        BY <4>2 DEF Here
      <4>5. m \in Turns(s, v) /\ Here(m, v) /\ (m = s \/ v \in Tempered)
        BY <4>2, <4>3, <4>4, TempersFine
      <4> QED
        BY <4>1, <4>2, <4>5
    <3> QED
      BY <3>1, <3>2
  <2> HIDE DEF met
  <2>3. ASSUME NEW u \in up
        PROVE  u \in Turns(g, v) /\ Here(u, v)
    <3>1. CASE u \in met
      BY <2>2, <3>1
    <3>2. CASE u \notin met
      <4>1. PICK m \in met : u = Posed(m, v, "fighting")
        BY <2>3, <3>2
      <4>2. m \in Turns(g, v) /\ Here(m, v) /\ (m.fighting[v] # Nil \/ v \in Tempered)
        BY <2>2
      <4>3. m \in Fine /\ Turns(m, v) \subseteq Turns(g, v)
        BY <4>2, TurnsFacts
      <4>4. "fighting" \in Position
        BY DEF Position
      <4>5. u \in Stays(m)
        BY <4>1, <4>2, <4>3, <4>4, PosedFine
      <4>6. u.where = m.where /\ u \in Turns(m, v)
        BY <4>3, <4>5, StaysFacts
      <4> QED
        BY <4>2, <4>3, <4>6 DEF Here
    <3> QED
      BY <3>1, <3>2
  <2> HIDE DEF up
  <2>4. ASSUME NEW u \in up
        PROVE  set_fighting(u, c, v) \in Turns(g, v)
    <3>1. u \in Turns(g, v) /\ Here(u, v)
      BY <2>3
    <3>2. u \in Fine /\ u.where[c] = g.where[c] /\ Turns(u, v) \subseteq Turns(g, v)
      BY <1>3, <3>1, TurnsFacts
    <3>3. Here(u, c)
      BY <3>2 DEF Here
    <3>4. set_fighting(u, c, v) \in Stays(u)
      BY <3>1, <3>2, <3>3, SetFine
    <3> QED
      BY <3>2, <3>4, StaysFacts
  <2> QED
    BY <2>1, <2>4
<1> QED
  BY <1>2, <1>3

LEMMA HurtFine ==
  ASSUME NEW g \in Fine, NEW c, NEW v \in Char
  PROVE  hurt(g, c, v) \subseteq Turns(g, v)
<1>1. g \in Turns(g, v) /\ raw_kill(g, v) \in Turns(g, v) /\ do_flee(g, v) \subseteq Turns(g, v)
  BY FineFacts, KillFine, FleeFine
<1>2. stop_fighting(g, v, FALSE) \in Turns(g, v)
  BY StopFine, StaysFacts
<1>3. stop_fighting(Posed(g, v, "down"), v, FALSE) \in Turns(g, v)
  <2> DEFINE u == Posed(g, v, "down")
  <2>1. "down" \in Position
    BY DEF Position
  <2>2. u \in Stays(g)
    BY <2>1, PosedFine
  <2>3. u \in Fine /\ Turns(u, v) \subseteq Turns(g, v)
    BY <2>2, StaysFacts
  <2> HIDE DEF u
  <2>4. stop_fighting(u, v, FALSE) \in Turns(u, v)
    BY <2>3, StopFine, StaysFacts
  <2> QED
    BY <2>3, <2>4 DEF u
<1> QED
  BY <1>1, <1>2, <1>3 DEF hurt

LEMMA DamageFine ==
  ASSUME Harsh = {}, NEW g \in Fine, NEW c \in Char, NEW v \in Char, Here(g, c), Here(g, v)
  PROVE  damage(g, c, v) \subseteq Turns(g, v)
<1>1. g \in Turns(g, v) /\ engage(g, c, v) \subseteq Turns(g, v)
  BY FineFacts, EngageFine
<1>2. ASSUME NEW e \in engage(g, c, v)
      PROVE  hurt(e, c, v) \subseteq Turns(g, v)
  <2>1. e \in Fine /\ Turns(e, v) \subseteq Turns(g, v)
    BY <1>1, <1>2, TurnsFacts
  <2>2. hurt(e, c, v) \subseteq Turns(e, v)
    BY <2>1, HurtFine
  <2> QED
    BY <2>1, <2>2
<1> QED
  BY <1>1, <1>2 DEF damage

LEMMA SpellFine ==
  ASSUME Harsh = {}, NEW g \in Fine, NEW c \in Char, NEW v \in Char, Here(g, c), Here(g, v)
  PROVE  Spell(g, c, v) \subseteq Turns(g, v)
<1>1. g \in Turns(g, v) /\ damage(g, c, v) \subseteq Turns(g, v)
  BY FineFacts, DamageFine
<1>2. "sleeping" \in Position
  BY DEF Position
<1>3. Posed(g, v, "sleeping") \in Turns(g, v)
  BY <1>2, PosedFine, StaysFacts
<1> QED
  BY <1>1, <1>3 DEF Spell

----------------------------------------------------------------------------
\* Loops over characters.

First(s) == CHOOSE x \in s : TRUE

\* f says what games the loop may have reached when it has been through s.
Reaches(f, g, T, Effect) ==
  f = [s \in SUBSET T |-> IF s = {} THEN {g}
                          ELSE UNION {Effect[First(s)][h] : h \in f[s \ {First(s)}]}]

LEMMA EachDef ==
  ASSUME NEW g, NEW T, NEW Effect
  PROVE  Each(g, T, Effect) = (CHOOSE f : Reaches(f, g, T, Effect))[T]
BY DEF Each, FoldSet, MapThenFoldSet, Reaches, First

\* Where the turns of s lead to K[s], each further turn leads on.
Leads(K, g, T, Effect) ==
  /\ K \in [SUBSET T -> SUBSET Fine] /\ g \in K[{}]
  /\ \A s \in SUBSET T : \A t \in T \ s : \A h \in K[s] : Effect[t][h] \subseteq K[s \cup {t}]

Onward(f, T, Effect) ==
  \A s \in SUBSET T : s # {} =>
    f[s] \subseteq UNION {Effect[First(s)][h] : h \in f[s \ {First(s)}]}

LEMMA LoopStays ==
  ASSUME NEW T \in SUBSET Char, NEW g, NEW Effect, NEW K, Leads(K, g, T, Effect),
         NEW f, f[{}] = {g}, Onward(f, T, Effect)
  PROVE  \A s \in SUBSET T : f[s] \subseteq K[s]
<1> DEFINE G == {s \in SUBSET T : f[s] \subseteq K[s]}
<1>1. {} \in G
  BY DEF Leads
<1>2. ASSUME NEW s \in SUBSET T, s # {}
      PROVE  \E x \in s : s \ {x} \in G => s \in G
  <2>1. PICK x \in s : x = First(s)
    BY <1>2 DEF First
  <2>2. ASSUME s \ {x} \in G
        PROVE  f[s] \subseteq K[s]
    <3>1. f[s \ {x}] \subseteq K[s \ {x}] /\ s \ {x} \in SUBSET T /\ x \in T \ (s \ {x})
      BY <2>2
    <3>2. \A h \in f[s \ {x}] : Effect[x][h] \subseteq K[(s \ {x}) \cup {x}]
      BY <3>1 DEF Leads
    <3>3. (s \ {x}) \cup {x} = s
      OBVIOUS
    <3>4. f[s] \subseteq UNION {Effect[x][h] : h \in f[s \ {x}]}
      BY <1>2, <2>1 DEF Onward
    <3>5. \A h \in f[s \ {x}] : Effect[x][h] \subseteq K[s]
      BY <3>2, <3>3
    <3>6. (UNION {Effect[x][h] : h \in f[s \ {x}]}) \subseteq K[s]
      BY <3>5
    <3> QED
      BY <3>4, <3>6
  <2> QED
    BY <2>2
<1>3. IsFiniteSet(T)
  BY CharsAre
<1> HIDE DEF G
<1>4. \A s \in SUBSET T : s \in G
  BY <1>1, <1>2, <1>3, ElementInduction, Zenon
<1> QED
  BY <1>4 DEF G

\* Once it has been through everybody it has come to what they lead to.
LEMMA EachFine ==
  ASSUME NEW T \in SUBSET Char, NEW g, NEW Effect, NEW K, Leads(K, g, T, Effect)
  PROVE  Each(g, T, Effect) \subseteq K[T]
<1> DEFINE c == [s \in SUBSET T |-> First(s)]
           H == [p \in T \X SUBSET Fine |-> (UNION {Effect[p[1]][h] : h \in p[2]}) \cap Fine]
<1>1. IsFiniteSet(T)
  BY CharsAre
<1>2. Picks(c, T)
  BY DEF Picks, First
<1>3. \A x \in T, v \in SUBSET Fine : /\ H[<<x, v>>] \in SUBSET Fine
                                      /\ H[<<x, v>>] = (UNION {Effect[x][h] : h \in v}) \cap Fine
  OBVIOUS
<1>4. {g} \in SUBSET Fine
  BY DEF Leads
<1>5. PICK f : FoldsOver(T, c, {g}, H, f)
  <2> HIDE DEF c, H
  <2> QED
    BY <1>1, <1>2, FoldExists
<1>6. f \in [SUBSET T -> SUBSET Fine]
  <2> HIDE DEF c, H
  <2> QED
    BY <1>1, <1>2, <1>3, <1>4, <1>5, FoldType
<1>7. f[{}] = {g} /\ f = [s \in SUBSET T |-> f[s]]
  BY <1>5 DEF FoldsOver
<1>8. ASSUME NEW s \in SUBSET T, s # {}
      PROVE  f[s] = (UNION {Effect[First(s)][h] : h \in f[s \ {First(s)}]}) \cap Fine
  <2>1. c[s] = First(s) /\ First(s) \in T
    BY <1>8 DEF First
  <2>2. f[s] = H[<<c[s], f[s \ {c[s]}]>>]
    BY <1>5, <1>8 DEF FoldsOver
  <2>3. f[s \ {c[s]}] \in SUBSET Fine
    BY <1>6
  <2> HIDE DEF c, H
  <2> QED
    BY <1>3, <2>1, <2>2, <2>3
<1>9. \A s \in SUBSET T : f[s] \subseteq K[s]
  <2>1. Onward(f, T, Effect)
    BY <1>8 DEF Onward
  <2> QED
    BY <1>7, <2>1, LoopStays, Zenon
<1>10. ASSUME NEW s \in SUBSET T, s # {}
       PROVE  f[s] = UNION {Effect[First(s)][h] : h \in f[s \ {First(s)}]}
  <2>1. PICK x \in s : x = First(s)
    BY <1>10 DEF First
  <2>2. f[s \ {x}] \subseteq K[s \ {x}] /\ s \ {x} \in SUBSET T /\ x \in T \ (s \ {x})
    BY <1>9
  <2>3. \A h \in f[s \ {x}] : Effect[x][h] \subseteq K[(s \ {x}) \cup {x}]
    BY <2>2 DEF Leads
  <2>4. K[(s \ {x}) \cup {x}] \subseteq Fine
    <3>1. (s \ {x}) \cup {x} \in SUBSET T
      OBVIOUS
    <3> QED
      BY <3>1 DEF Leads
  <2>5. UNION {Effect[x][h] : h \in f[s \ {x}]} \subseteq Fine
    BY <2>3, <2>4
  <2> QED
    BY <1>8, <1>10, <2>1, <2>5
<1>11. Reaches(f, g, T, Effect)
  BY <1>7, <1>10 DEF Reaches
<1> DEFINE e == CHOOSE e : Reaches(e, g, T, Effect)
<1>12. Reaches(e, g, T, Effect)
  BY <1>11, Zenon
<1>13. Each(g, T, Effect) = e[T]
  BY EachDef
<1> HIDE DEF e
<1>14. e[{}] = {g}
  BY <1>12 DEF Reaches
<1>15. Onward(e, T, Effect)
  BY <1>12 DEF Reaches, Onward
<1>16. \A s \in SUBSET T : e[s] \subseteq K[s]
  BY <1>14, <1>15, LoopStays, Zenon
<1>17. T \in SUBSET T
  OBVIOUS
<1> QED
  BY <1>13, <1>16, <1>17

\* In most loops a turn leads from any good game to good games.
LEMMA EachTurnFine ==
  ASSUME NEW T \in SUBSET Char, NEW g \in Fine, NEW Effect,
         \A t \in T : \A h \in Fine : Effect[t][h] \subseteq Fine
  PROVE  Each(g, T, Effect) \subseteq Fine
<1> DEFINE K == [s \in SUBSET T |-> Fine]
<1>1. \A s \in SUBSET T : K[s] = Fine
  OBVIOUS
<1>2. \A s \in SUBSET T : \A t \in T \ s : s \cup {t} \in SUBSET T
  OBVIOUS
<1>3. Leads(K, g, T, Effect)
  <2>1. K \in [SUBSET T -> SUBSET Fine]
    OBVIOUS
  <2> HIDE DEF K
  <2> QED
    BY <1>1, <1>2, <2>1 DEF Leads
<1>4. Each(g, T, Effect) \subseteq K[T]
  <2> HIDE DEF K
  <2> QED
    BY <1>3, EachFine
<1> QED
  BY <1>1, <1>4

----------------------------------------------------------------------------
\* Spells on all, and the blows of a round.

LEMMA TurnsAreFine ==
  ASSUME NEW g, NEW v
  PROVE  Turns(g, v) \subseteq Fine
BY DEF Turns

LEMMA TogetherFacts ==
  ASSUME NEW g, NEW c, NEW v, Together(g, c, v)
  PROVE  Here(g, c) /\ Here(g, v)
BY DEF Together, Here

LEMMA StormFine ==
  ASSUME Harsh = {}, NEW g \in Fine, NEW c \in Char
  PROVE  Storm(g, c) \subseteq Fine
<1> DEFINE T == People(g, c)
           Effect == [t \in Char |-> [h \in Game |->
             {h} \cup IF Together(h, c, t) /\ ~is_safe_spell(h, c, t) THEN damage(h, c, t) ELSE {}]]
<1>1. T \in SUBSET Char
  BY DEF People
<1>2. ASSUME NEW t \in T, NEW h \in Fine
      PROVE  Effect[t][h] \subseteq Fine
  <2>1. t \in Char /\ h \in Game
    BY <1>1, FineFacts
  <2>2. Effect[t][h] = {h} \cup IF Together(h, c, t) /\ ~is_safe_spell(h, c, t) THEN damage(h, c, t) ELSE {}
    BY <2>1
  <2>3. Together(h, c, t) => damage(h, c, t) \subseteq Fine
    BY <2>1, TogetherFacts, DamageFine, TurnsAreFine
  <2> HIDE DEF Effect
  <2> QED
    BY <2>2, <2>3
<1>3. Storm(g, c) = Each(g, T, Effect)
  BY DEF Storm
<1> HIDE DEF T, Effect
<1>4. \A t \in T : \A h \in Fine : Effect[t][h] \subseteq Fine
  BY <1>2
<1> QED
  BY <1>1, <1>3, <1>4, EachTurnFine, Zenon

\* A staff's later targets, and who brandishes it, are still there.
LEMMA BrandishedFine ==
  ASSUME Harsh = {}, NEW g \in Fine, NEW c \in Char
  PROVE  Brandished(g, c) \subseteq Fine
<1> DEFINE T == {t \in People(g, c) : (t \in Mob) # (c \in Mob)}
           Effect == [t \in Char |-> [h \in Game |-> Spell(h, c, t)]]
           After(s) == {h \in Fine : \A x \in Char \ s : h.where[x] = g.where[x]}
           K == [s \in SUBSET T |-> After(s)]
<1>1. T \in SUBSET Char /\ c \notin T /\ \A t \in T : Here(g, t) /\ Here(g, c)
  BY TogetherFacts DEF People
<1>2. \A s \in SUBSET T : K[s] = After(s)
  OBVIOUS
<1>3. K \in [SUBSET T -> SUBSET Fine]
  OBVIOUS
<1>4. g \in K[{}]
  OBVIOUS
<1>5. ASSUME NEW s \in SUBSET T, NEW t \in T \ s, NEW h \in K[s]
      PROVE  Effect[t][h] \subseteq K[s \cup {t}]
  <2>1. h \in Fine /\ \A x \in Char \ s : h.where[x] = g.where[x]
    BY <1>2, <1>5
  <2>2. h \in Game /\ t \in Char
    BY <1>1, <2>1, FineFacts
  <2>3. Effect[t][h] = Spell(h, c, t)
    BY <2>2
  <2> HIDE DEF T, Effect, K
  <2>4. Here(h, c) /\ Here(h, t)
    BY <1>1, <2>1, <2>2 DEF Here
  <2>5. Spell(h, c, t) \subseteq Turns(h, t)
    BY <2>1, <2>2, <2>4, SpellFine
  <2>6. Turns(h, t) \subseteq After(s \cup {t})
    <3> SUFFICES ASSUME NEW k \in Turns(h, t)
                 PROVE  k \in Fine /\ \A x \in Char \ (s \cup {t}) : k.where[x] = g.where[x]
      OBVIOUS
    <3>1. k \in Fine /\ \A x \in Char \ {t} : k.where[x] = h.where[x]
      BY DEF Turns
    <3> QED
      BY <2>1, <3>1
  <2>7. K[s \cup {t}] = After(s \cup {t})
    BY <1>2
  <2> QED
    BY <2>3, <2>5, <2>6, <2>7
<1>6. Brandished(g, c) = Each(g, T, Effect)
  BY DEF Brandished
<1>7. \A h \in K[T] : h \in Fine
  BY <1>3
<1> HIDE DEF T, Effect, K
<1>8. Leads(K, g, T, Effect)
  BY <1>3, <1>4, <1>5 DEF Leads
<1>9. Each(g, T, Effect) \subseteq K[T]
  BY <1>1, <1>8, EachFine, Zenon
<1> QED
  BY <1>6, <1>7, <1>9

LEMMA BashFine ==
  ASSUME Harsh = {}, NEW g \in Fine, NEW c \in Char, NEW v \in Char, Here(g, c), Here(g, v)
  PROVE  do_bash(g, c, v) \subseteq Fine
<1>1. "resting" \in Position
  BY DEF Position
<1>2. damage(Posed(g, v, "resting"), c, v) \subseteq Fine
  <2> DEFINE u == Posed(g, v, "resting")
  <2>1. u \in Stays(g)
    BY <1>1, PosedFine
  <2>2. u \in Fine /\ u.where = g.where
    BY <2>1, StaysFacts
  <2> HIDE DEF u
  <2>3. Here(u, c) /\ Here(u, v)
    BY <2>2 DEF Here
  <2>4. damage(u, c, v) \subseteq Fine
    BY <2>2, <2>3, DamageFine, TurnsAreFine
  <2> QED
    BY <2>4 DEF u
<1>3. ASSUME NEW e \in engage(g, c, v)
      PROVE  Posed(e, c, "resting") \in Fine
  <2>1. e \in Fine
    BY <1>3, EngageFine, TurnsAreFine
  <2>2. Posed(e, c, "resting") \in Stays(e)
    BY <1>1, <2>1, PosedFine
  <2> QED
    BY <2>1, <2>2, StaysFacts
<1> QED
  BY <1>2, <1>3 DEF do_bash

LEMMA MobHitFine ==
  ASSUME Harsh = {}, NEW g \in Fine, NEW c \in Char, NEW v \in Char
  PROVE  mob_hit(g, c, v) \subseteq Fine
<1> DEFINE Used(h) == {h} \cup IF v \in Player THEN use_magical_item(h, c) ELSE {}
           Bashed(h) == {h} \cup IF c \in Basher /\ h.fighting[c] # Nil
                                 THEN do_bash(h, c, h.fighting[c]) ELSE {}
<1>1. UNION {one_attack(h, c, v) : h \in one_attack(g, c, v)} = {g}
  BY DEF one_attack
<1>2. CASE g.fighting[c] # v
  BY <1>1, <1>2 DEF mob_hit
<1>3. CASE g.fighting[c] = v
  <2>1. mob_hit(g, c, v) = UNION {Bashed(h) : h \in Used(g)}
    BY <1>1, <1>3 DEF mob_hit
  <2>2. Here(g, c) /\ Here(g, v)
    BY <1>3, FineFacts, CharsAre
  <2>3. use_magical_item(g, c) \subseteq Fine
    <3>1. Spell(g, c, g.fighting[c]) \subseteq Fine
      BY <1>3, <2>2, SpellFine, TurnsAreFine
    <3> QED
      BY <3>1, BrandishedFine, StormFine DEF use_magical_item
  <2>4. Used(g) \subseteq Fine
    BY <2>3
  <2>5. ASSUME NEW h \in Fine
        PROVE  Bashed(h) \subseteq Fine
    <3>1. h.fighting[c] # Nil => do_bash(h, c, h.fighting[c]) \subseteq Fine
      <4> SUFFICES ASSUME h.fighting[c] # Nil
                   PROVE  do_bash(h, c, h.fighting[c]) \subseteq Fine
        OBVIOUS
      <4>1. h.fighting[c] \in Char /\ Here(h, c) /\ Here(h, h.fighting[c])
        BY FineFacts
      <4> QED
        BY <4>1, BashFine
    <3> QED
      BY <3>1
  <2> HIDE DEF Used, Bashed
  <2> QED
    BY <2>1, <2>4, <2>5
<1> QED
  BY <1>2, <1>3

LEMMA HitFine ==
  ASSUME Harsh = {}, NEW g \in Fine, NEW c \in Char, NEW v \in Char
  PROVE  multi_hit(g, c, v) \subseteq Fine
<1> DEFINE T == {v} \cup Foes(g, c)
           Effect == [t \in Char |-> [h \in Game |-> one_attack(h, c, t)]]
<1>1. T \in SUBSET Char
  BY DEF Foes
<1>2. ASSUME NEW t \in T, NEW h \in Fine
      PROVE  Effect[t][h] \subseteq Fine
  <2>1. t \in Char /\ h \in Game
    BY <1>1, FineFacts
  <2> QED
    BY <2>1 DEF one_attack
<1>3. Each(g, T, Effect) \subseteq Fine
  <2> HIDE DEF T, Effect
  <2>1. \A t \in T : \A h \in Fine : Effect[t][h] \subseteq Fine
    BY <1>2
  <2> QED
    BY <1>1, <2>1, EachTurnFine, Zenon
<1>4. multi_hit(g, c, v) \in {{g}, mob_hit(g, c, v), Each(g, T, Effect)}
  BY DEF multi_hit
<1> HIDE DEF T, Effect
<1> QED
  BY <1>3, <1>4, MobHitFine

LEMMA AssistFine ==
  ASSUME Harsh = {}, NEW g \in Fine, NEW c \in Char, NEW v \in Char
  PROVE  check_assist(g, c, v) \subseteq Fine
<1> DEFINE Victims == {v} \cup IF c \in Mob THEN Player ELSE {}
           T == People(g, c)
           Effect == [r \in Char |-> [h \in Game |->
             {h} \cup IF <<r, c>> \in Helps /\ Awake(h, r) /\ h.fighting[r] = Nil
                     THEN UNION {multi_hit(h, r, t) : t \in Victims} ELSE {}]]
<1>1. T \in SUBSET Char /\ Victims \subseteq Char
  BY CharsAre DEF People
<1>2. ASSUME NEW r \in T, NEW h \in Fine
      PROVE  Effect[r][h] \subseteq Fine
  <2>1. r \in Char /\ h \in Game
    BY <1>1, FineFacts
  <2>2. Effect[r][h] \subseteq {h} \cup UNION {multi_hit(h, r, t) : t \in Victims}
    BY <2>1
  <2>3. \A t \in Victims : multi_hit(h, r, t) \subseteq Fine
    BY <1>1, <2>1, HitFine
  <2> HIDE DEF Effect, Victims
  <2> QED
    BY <2>2, <2>3
<1>3. check_assist(g, c, v) = Each(g, T, Effect)
  BY DEF check_assist
<1> HIDE DEF T, Effect
<1>4. \A t \in T : \A h \in Fine : Effect[t][h] \subseteq Fine
  BY <1>2
<1> QED
  BY <1>1, <1>3, <1>4, EachTurnFine, Zenon

----------------------------------------------------------------------------
\* Each action leads from good games to good games.

LEMMA RoundStep ==
  ASSUME Harsh = {}, game \in Fine, NEW c \in Char, Round(c)
  PROVE  game' \in Fine
<1> DEFINE On(g) == Here(g, c) /\ g.fighting[c] # Nil
           Helped(g) == IF On(g) THEN check_assist(g, c, g.fighting[c]) ELSE {g}
           Program(g) == IF On(g) THEN Tempers(g, c) ELSE {g}
<1>1. game.fighting[c] \in Char
  BY FineFacts DEF Round
<1>2. multi_hit(game, c, game.fighting[c]) \subseteq Fine
  BY <1>1, HitFine
<1>3. ASSUME NEW g \in Fine
      PROVE  Helped(g) \subseteq Fine
  <2>1. CASE On(g)
    <3>1. g.fighting[c] \in Char
      BY <2>1, FineFacts
    <3> QED
      BY <3>1, AssistFine
  <2> QED
    BY <2>1
<1>4. ASSUME NEW g \in Fine
      PROVE  Program(g) \subseteq Fine
  <2>1. Tempers(g, c) \subseteq Fine
    BY TempersFine, TurnsAreFine
  <2> QED
    BY <2>1
<1>5. game' \in UNION {UNION {Program(h) : h \in Helped(g)} : g \in multi_hit(game, c, game.fighting[c])}
  BY DEF Round
<1> HIDE DEF Helped, Program
<1> QED
  BY <1>2, <1>3, <1>4, <1>5

LEMMA StopStep ==
  ASSUME NEW g \in Fine, NEW c \in Char, NEW both \in BOOLEAN
  PROVE  stop_fighting(g, c, both) \in Fine
BY StopFine DEF Stays

LEMMA AttackStep ==
  ASSUME Harsh = {}, game \in Fine, NEW c \in Char, NEW v \in Char, Attack(c, v)
  PROVE  game' \in Fine
BY HitFine DEF Attack

LEMMA CastStep ==
  ASSUME Harsh = {}, game \in Fine, NEW c \in Char, NEW v \in Char, Cast(c, v)
  PROVE  game' \in Fine
<1>1. Together(game, c, v) \/ game.fighting[c] = v
  BY DEF Cast, do_cast, do_zap, do_mpcast
<1>2. Here(game, c) /\ Here(game, v)
  BY <1>1, TogetherFacts, FineFacts, CharsAre
<1>3. game' \in Spell(game, c, v)
  BY DEF Cast
<1> QED
  BY <1>2, <1>3, SpellFine, TurnsAreFine

LEMMA BashStep ==
  ASSUME Harsh = {}, game \in Fine, NEW c \in Char, NEW v \in Char, Bash(c, v)
  PROVE  game' \in Fine
<1>1. Here(game, c) /\ Here(game, v)
  BY TogetherFacts, FineFacts, CharsAre DEF Bash
<1> QED
  BY <1>1, BashFine DEF Bash

\* The foe whom a rescue turns away was there, and so are both others.
LEMMA RescueStep ==
  ASSUME game \in Fine, NEW c \in Char, NEW v \in Char, do_rescue(c, v)
  PROVE  game' \in Fine
<1>1. PICK foe \in Char : foe = game.fighting[v] /\ Here(game, foe) /\ Here(game, c)
  BY FineFacts, TogetherFacts DEF do_rescue
<1>2. PICK u : u = stop_fighting(game, foe, FALSE)
  OBVIOUS
<1>3. u \in Fine /\ u.where = game.where
  BY <1>2, StopFine, StaysFacts
<1>4. PICK apart : apart = stop_fighting(u, v, FALSE)
  OBVIOUS
<1>5. apart \in Fine /\ apart.where = game.where
  BY <1>3, <1>4, StopFine, StaysFacts
<1>6. Here(apart, c) /\ Here(apart, foe)
  BY <1>1, <1>5 DEF Here
<1>7. PICK s : s = set_fighting(apart, c, foe)
  OBVIOUS
<1>8. s \in Fine /\ s.where = game.where
  BY <1>5, <1>6, <1>7, SetFine, StaysFacts
<1>9. Here(s, c) /\ Here(s, foe)
  BY <1>1, <1>8 DEF Here
<1>10. set_fighting(s, foe, c) \in Fine
  BY <1>8, <1>9, SetFine, StaysFacts
<1>11. game' = set_fighting(s, foe, c)
  BY <1>1, <1>2, <1>4, <1>7 DEF do_rescue
<1> QED
  BY <1>10, <1>11

LEMMA AtStep ==
  ASSUME Harsh = {}, game \in Fine, NEW c \in Char, NEW v \in Char, At(c, v)
  PROVE  game' \in Fine
<1> DEFINE Back(g) == IF Here(g, c) THEN Moved(g, c, game.where[c]) ELSE g
<1>1. game.where[c] \in Room /\ game.where[v] \in Room
  <2>1. game \in Game
    BY FineFacts
  <2> QED
    BY <2>1, GameFields DEF At, Here
<1>2. Moved(game, c, game.where[v]) \in Fine
  BY <1>1, CharsAre, MovedFine, TurnsAreFine
<1>3. ASSUME NEW g \in Fine
      PROVE  Back(g) \in Fine
  <2>1. Moved(g, c, game.where[c]) \in Fine
    BY <1>1, CharsAre, MovedFine, TurnsAreFine
  <2> QED
    BY <2>1
<1>4. multi_hit(Moved(game, c, game.where[v]), c, v) \subseteq Fine
  BY <1>2, HitFine
<1>5. game' \in {Back(g) : g \in multi_hit(Moved(game, c, game.where[v]), c, v)}
  BY DEF At
<1> HIDE DEF Back
<1> QED
  BY <1>3, <1>4, <1>5

LEMMA StandFine ==
  ASSUME NEW g \in Fine, NEW c \in Char
  PROVE  do_stand(g, c) \in Stays(g)
<1>1. "standing" \in Position
  BY DEF Position
<1>2. Posed(g, c, "standing") \in Stays(g)
  BY <1>1, PosedFine
<1> QED
  BY <1>2 DEF do_stand, Stays

LEMMA MeetStep ==
  ASSUME Harsh = {}, game \in Fine, NEW c \in Char, NEW v \in Char, Meet(c, v)
  PROVE  game' \in Fine
<1>1. ASSUME do_wake(c, v)
      PROVE  game' \in Fine
  BY <1>1, StandFine, StaysFacts DEF do_wake
<1> QED
  BY <1>1, AttackStep, CastStep, BashStep, RescueStep, AtStep DEF Meet

LEMMA SurrenderStep ==
  ASSUME Harsh = {}, game \in Fine, NEW c \in Char, do_surrender(c)
  PROVE  game' \in Fine
<1>1. PICK foe \in Char : foe = game.fighting[c]
  BY FineFacts DEF do_surrender
<1>2. PICK u \in Fine : u = stop_fighting(game, c, TRUE)
  BY StopStep
<1>3. multi_hit(u, foe, c) \subseteq Fine
  BY HitFine
<1>4. game' \in IF c \in Player /\ foe \in Mob THEN multi_hit(u, foe, c) ELSE {u}
  BY <1>1, <1>2 DEF do_surrender
<1> QED
  BY <1>3, <1>4

LEMMA AloneStep ==
  ASSUME Harsh = {}, game \in Fine, NEW c \in Char, Alone(c)
  PROVE  game' \in Fine
<1> USE TurnsAreFine
<1>1. ASSUME NEW p \in Position \ {"fighting"}
      PROVE  Posed(game, c, p) \in Fine
  BY <1>1, PosedFine, StaysFacts
<1>2. {"resting", "sleeping"} \subseteq Position \ {"fighting"}
  BY DEF Position
<1>3. CASE Lapse(c)
  BY <1>3, StopStep DEF Lapse
<1>4. CASE Flee(c)
  BY <1>4, FleeFine DEF Flee
<1>5. CASE Suffer(c)
  <2>1. hurt(game, c, c) \subseteq Fine
    BY HurtFine
  <2> QED
    BY <1>1, <1>2, <1>5, <2>1 DEF Suffer
<1>6. CASE Slay(c)
  <2>1. raw_kill(game, c) \in Fine /\ extract_char(game, c, Nil) \in Fine
    BY KillFine, ExtractFine
  <2> QED
    BY <1>6, <2>1 DEF Slay
<1>7. CASE do_rest(c) \/ do_sleep(c)
  BY <1>1, <1>2, <1>7 DEF do_rest, do_sleep
<1>8. CASE Stand(c)
  BY <1>8, StandFine, StaysFacts DEF Stand
<1>9. CASE CastStorm(c) \/ do_brandish(c)
  BY <1>9, StormFine, BrandishedFine DEF CastStorm, do_brandish
<1> QED
  BY <1>3, <1>4, <1>5, <1>6, <1>7, <1>8, <1>9, RoundStep, SurrenderStep DEF Alone

LEMMA MpdamageStep ==
  ASSUME game \in Fine, NEW m \in Char, NEW V \in SUBSET Char, do_mpdamage(m, V)
  PROVE  game' \in Fine
<1> DEFINE Effect == [v \in Char |-> [h \in Game |-> hurt(h, v, v)]]
<1>1. ASSUME NEW v \in V, NEW h \in Fine
      PROVE  Effect[v][h] \subseteq Fine
  <2>1. v \in Char /\ h \in Game
    BY FineFacts
  <2>2. hurt(h, v, v) \subseteq Fine
    BY <2>1, HurtFine, TurnsAreFine
  <2> QED
    BY <2>1, <2>2
<1>2. game' \in Each(game, V, Effect)
  BY DEF do_mpdamage
<1> HIDE DEF Effect
<1>3. \A v \in V : \A h \in Fine : Effect[v][h] \subseteq Fine
  BY <1>1
<1>4. Each(game, V, Effect) \subseteq Fine
  BY <1>3, EachTurnFine, Zenon
<1> QED
  BY <1>2, <1>4

LEMMA WanderStep ==
  ASSUME Harsh = {}, game \in Fine, NEW m \in Char, mobile_update(m)
  PROVE  game' \in Fine
<1> DEFINE Runs(g) == {g} \cup IF Here(g, m) THEN {Moved(g, m, r) : r \in Room} ELSE {}
           V == Player \cap People(game, m)
<1>1. ASSUME NEW g \in Fine
      PROVE  Runs(g) \subseteq Fine
  <2>1. \A r \in Room : Moved(g, m, r) \in Fine
    BY CharsAre, MovedFine, TurnsAreFine
  <2> QED
    BY <2>1
<1>2. \A v \in V : multi_hit(game, m, v) \subseteq Fine
  BY HitFine, CharsAre
<1>3. game' \in UNION {Runs(g) : g \in {game} \cup UNION {multi_hit(game, m, v) : v \in V}}
  BY DEF mobile_update
<1> HIDE DEF Runs, V
<1> QED
  BY <1>1, <1>2, <1>3

\* Who comes, comes into a room and does not fight yet.
LEMMA ArriveFine ==
  ASSUME NEW g \in Fine, NEW c \in Char, NEW r \in Room, NEW p \in Position \ {"fighting"}
  PROVE  Posed(Moved(g, c, r), c, p) \in Fine
<1> DEFINE u == Moved(g, c, r)
<1>1. u \in Fine
  BY CharsAre, MovedFine, TurnsAreFine
<1> HIDE DEF u
<1>2. Posed(u, c, p) \in Fine
  BY <1>1, PosedFine, StaysFacts
<1> QED
  BY <1>2 DEF u

LEMMA MobileStep ==
  ASSUME Harsh = {}, game \in Fine, NEW m \in Mob, Mobile(m)
  PROVE  game' \in Fine
<1>1. m \in Char
  BY CharsAre
<1>2. CASE Repop(m)
  <2>1. Default[m] \in Position \ {"fighting"}
    BY FightConstants DEF Position
  <2> QED
    BY <1>1, <1>2, <2>1, ArriveFine DEF Repop
<1>3. CASE mobile_update(m)
  BY <1>1, <1>3, WanderStep
<1>4. CASE \E v \in Char : do_mpdamage(m, {v})
  BY <1>1, <1>4, MpdamageStep
<1>5. CASE do_mpdamage(m, People(game, m) \ {m})
  <2>1. People(game, m) \ {m} \in SUBSET Char
    BY DEF People
  <2> QED
    BY <1>1, <1>5, <2>1, MpdamageStep
<1> QED
  BY <1>2, <1>3, <1>4, <1>5 DEF Mobile

LEMMA CalmStep ==
  ASSUME game \in Fine, NEW r, Calm(r)
  PROVE  game' \in Fine
<1> DEFINE T == {c \in Char : game.where[c] = r}
           Effect == [c \in Char |-> [g \in Game |->
             {g} \cup IF g.fighting[c] # Nil \/ g.pos[c] = "fighting"
                     THEN {stop_fighting(g, c, FALSE)} ELSE {}]]
<1>1. ASSUME NEW c \in T, NEW g \in Fine
      PROVE  Effect[c][g] \subseteq Fine
  <2>1. c \in Char /\ g \in Game
    BY FineFacts
  <2>2. stop_fighting(g, c, FALSE) \in Fine
    BY <2>1, StopStep
  <2> QED
    BY <2>1, <2>2
<1>2. game' \in Each(game, T, Effect) /\ T \in SUBSET Char
  BY DEF Calm
<1> HIDE DEF T, Effect
<1>3. \A c \in T : \A g \in Fine : Effect[c][g] \subseteq Fine
  BY <1>1
<1>4. Each(game, T, Effect) \subseteq Fine
  BY <1>2, <1>3, EachTurnFine, Zenon
<1> QED
  BY <1>2, <1>4

LEMMA PeaceStep ==
  ASSUME game \in Fine, NEW C \in SUBSET Char, Peace(C)
  PROVE  game' \in Fine
<1> DEFINE Effect == [c \in Char |-> [g \in Game |->
             {IF g.fighting[c] # Nil THEN stop_fighting(g, c, TRUE) ELSE g}]]
<1>1. ASSUME NEW c \in C, NEW g \in Fine
      PROVE  Effect[c][g] \subseteq Fine
  <2>1. c \in Char /\ g \in Game
    BY FineFacts
  <2>2. stop_fighting(g, c, TRUE) \in Fine
    BY <2>1, StopStep
  <2> QED
    BY <2>1, <2>2
<1>2. game' \in Each(game, C, Effect)
  BY DEF Peace
<1> HIDE DEF Effect
<1>3. \A c \in C : \A g \in Fine : Effect[c][g] \subseteq Fine
  BY <1>1
<1>4. Each(game, C, Effect) \subseteq Fine
  BY <1>3, EachTurnFine, Zenon
<1> QED
  BY <1>2, <1>4

LEMMA FollowedFine ==
  ASSUME NEW g \in Fine, NEW from, NEW v, NEW r \in Room
  PROVE  Followed(g, from, v, r) \subseteq Fine
<1> DEFINE T == {f \in Char \ {v} : g.where[f] = from /\ g.pos[f] # "fighting"}
           Effect == [f \in Char |-> [h \in Game |-> {h, Moved(do_stand(h, f), f, r)}]]
<1>1. ASSUME NEW f \in T, NEW h \in Fine
      PROVE  Effect[f][h] \subseteq Fine
  <2>1. f \in Char /\ h \in Game
    BY FineFacts
  <2>2. PICK u : u = do_stand(h, f)
    OBVIOUS
  <2>3. u \in Fine
    BY <2>1, <2>2, StandFine, StaysFacts
  <2>4. Moved(u, f, r) \in Fine
    BY <2>1, <2>3, CharsAre, MovedFine, TurnsAreFine
  <2> QED
    BY <2>1, <2>2, <2>4
<1>2. Followed(g, from, v, r) = Each(g, T, Effect) /\ T \in SUBSET Char
  BY DEF Followed
<1> HIDE DEF T, Effect
<1>3. \A f \in T : \A h \in Fine : Effect[f][h] \subseteq Fine
  BY <1>1
<1>4. Each(g, T, Effect) \subseteq Fine
  BY <1>2, <1>3, EachTurnFine, Zenon
<1> QED
  BY <1>2, <1>4

LEMMA DragStep ==
  ASSUME game \in Fine, NEW c \in Char, NEW v \in Char, NEW r \in Room,
         do_push(c, v, r) \/ do_drag(c, v, r)
  PROVE  game' \in Fine
<1>1. \A g \in Fine, x \in Char : Moved(g, x, r) \in Fine
  BY CharsAre, MovedFine, TurnsAreFine
<1>2. CASE do_push(c, v, r)
  <2>1. Moved(game, v, r) \in Fine
    BY <1>1
  <2> QED
    BY <1>2, <2>1, FollowedFine DEF do_push, push_char
<1>3. CASE do_drag(c, v, r)
  <2>1. Moved(Moved(game, c, r), v, r) \in Fine
    BY <1>1
  <2> QED
    BY <1>3, <2>1, FollowedFine DEF do_drag, drag_char
<1> QED
  BY <1>2, <1>3

LEMMA WalkStep ==
  ASSUME game \in Fine, NEW c \in Char, NEW r \in Room, Walk(c, r) \/ Transfer(c, r)
  PROVE  game' \in Fine
<1>1. ASSUME NEW g \in Fine PROVE Moved(g, c, r) \in Fine
  BY CharsAre, MovedFine, TurnsAreFine
<1>2. stop_fighting(game, c, TRUE) \in Fine
  BY StopStep
<1>3. Moved(IF game.fighting[c] # Nil THEN stop_fighting(game, c, TRUE) ELSE game, c, r) \in Fine
  BY <1>1, <1>2
<1> QED
  BY <1>1, <1>3 DEF Walk, Transfer

LEMMA PlayerStep ==
  ASSUME game \in Fine, NEW c \in Player, Recover(c) \/ Quit(c) \/ Login(c)
  PROVE  game' \in Fine
<1>1. c \in Char /\ Temple \in Room
  BY CharsAre
<1>2. CASE Recover(c)
  <2>1. "standing" \in Position
    BY DEF Position
  <2> QED
    BY <1>1, <1>2, <2>1, PosedFine, StaysFacts DEF Recover
<1>3. CASE Quit(c)
  BY <1>1, <1>3, ExtractFine, TurnsAreFine DEF Quit
<1>4. CASE Login(c)
  BY <1>1, <1>4, ArriveFine DEF Login
<1> QED
  BY <1>2, <1>3, <1>4

LEMMA NextStep ==
  ASSUME Harsh = {}, game \in Fine, [Next]_vars
  PROVE  game' \in Fine
<1>1. CASE \E c \in Char : Alone(c)
  BY <1>1, AloneStep
<1>2. CASE \E c \in Char, v \in Char : Meet(c, v)
  BY <1>2, MeetStep
<1>3. CASE \E c \in Char, r \in Room : Walk(c, r) \/ Transfer(c, r)
  BY <1>3, WalkStep
<1>4. CASE \E c \in Char, v \in Char, r \in Room : do_push(c, v, r) \/ do_drag(c, v, r)
  BY <1>4, DragStep
<1>5. CASE (\E r \in Room : Calm(r) \/ Peace({c \in Char : game.where[c] = r})) \/ Peace(Player)
  <2>1. Player \in SUBSET Char /\ \A r \in Room : {c \in Char : game.where[c] = r} \in SUBSET Char
    BY CharsAre
  <2> QED
    BY <1>5, <2>1, CalmStep, PeaceStep
<1>6. CASE \E c \in Player : Recover(c) \/ Quit(c) \/ Login(c)
  BY <1>6, PlayerStep
<1>7. CASE \E m \in Mob : Mobile(m)
  BY <1>7, MobileStep
<1>8. CASE UNCHANGED vars
  BY <1>8 DEF vars
<1> QED
  BY <1>1, <1>2, <1>3, <1>4, <1>5, <1>6, <1>7, <1>8 DEF Next

----------------------------------------------------------------------------
\* The inductive invariant.
Good == game \in Fine

\* If no program on TRIG_KILL strikes or purges anybody while damage() goes on:
\* nobody fights, or is fought, who is not in the game; and nobody stands there
\* fighting without an opponent, but for those whose own program took them out
\* of the fight.
THEOREM OpponentsAreHere ==
  ASSUME Harsh = {}
  PROVE  Spec => []Opponents
<1>1. Init => Good
  <2> SUFFICES ASSUME Init PROVE Good
    OBVIOUS
  <2>1. game \in Game
    BY DEF Init, Game, Position
  <2>2. \A c \in Char : game.fighting[c] = Nil /\ game.pos[c] = "standing"
    BY DEF Init
  <2>3. game \in Fine
    BY <2>1, <2>2, MakesFine
  <2> QED
    BY <2>3 DEF Good
<1>2. Good /\ [Next]_vars => Good'
  BY NextStep DEF Good
<1>3. Good => Opponents
  BY FineFacts DEF Good, Opponents, TypeOK, Here
<1> QED
  BY <1>1, <1>2, <1>3, PTL DEF Spec
=============================================================================
