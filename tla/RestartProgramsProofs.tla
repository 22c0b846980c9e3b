----------------------- MODULE RestartProgramsProofs -----------------------
(***************************************************************************)
(* Restart: what the player files are worth, for any number of players,    *)
(* coins and restarts.  A command that saves several players can be cut    *)
(* short after each save; the invariants say what is true in between: how  *)
(* much every player counts for while a save of his is due (Most), and     *)
(* which saves are still to come.                                          *)
(*                                                                         *)
(* Programs: what the arrays of program_flow amount to, for any number of  *)
(* mobiles, rooms and activations, any nesting and any limit of calls:     *)
(* programs that interrupt each other do not disturb each other's blocks.  *)
(***************************************************************************)
EXTENDS Restart, Programs, Sums, SequenceTheorems, TLAPS

\* Coins change hands by "give" alone, which saves both sides; players leave by
\* quitting, which closes their dialogues; and no dialogue outlives its player
\* in any other way.
Careful ==
  /\ Transfers \subseteq {"give"} /\ Exits \subseteq {"quit"}
  /\ StaleBreaks = FALSE /\ StaleNames = FALSE

\* ... and files are written in full, and who deletes himself does quit.
Reliable == Careful /\ DiskFull = FALSE /\ Refuses = FALSE

\* Reboots save only players of lower trust and him who gives the command, and
\* below L3 only him.
OneFounder == \A p \in Staff : Rank[p] >= 5 /\ \A q \in Staff : p = q

----------------------------------------------------------------------------
(* The invariant of files and purses.                                      *)

Pending(n) == \E i \in DOMAIN todo : todo[i].who = n

\* Players of level one are not saved, those being created have nothing.
Proper(s) == s # Nil => s.level # 1 /\ (s.level = 0 => Worth(s) = 0)

FilesAreProper ==
  /\ \A n \in Name : Proper(file[n])
  /\ \A i \in DOMAIN todo : Proper(todo[i].sheet)

\* The temporary file is what the first save has written so far.
TempIsFirst ==
  temp # Nil => todo # <<>> /\ Head(todo).sheet # Nil /\ temp \in Written(Head(todo).sheet)

TypeInv == TypeOK /\ TempIsFirst

\* Who plays has been created, and while he is of level one he has nothing on
\* file.
NewcomersHaveNoFile ==
  \A n \in Name : Playing(n) =>
    body[n].level # 0 /\ (body[n].level = 1 => Worth(file[n]) = 0)

\* Who plays is saved as he is, or his file is unlinked; of those who do not
\* play only the first save is not an unlink.
SavesAreOfPlayers ==
  \A i \in DOMAIN todo :
    /\ Playing(todo[i].who) => todo[i].sheet \in {Nil, body[todo[i].who]}
    /\ i # 1 => todo[i].sheet = Nil \/ Playing(todo[i].who)

\* A dialogue of a player who is out of the game knows his file.
DialoguesAreFresh ==
  \A n \in Name : copy[n] # Nil /\ ~Playing(n) => copy[n] = Loaded(n) /\ ~Pending(n)

IsSaved(sheet) == sheet # Nil /\ sheet.level \notin {0, 1}

\* Those who are handed down are saved, or the save is due.
HandedAreSaved ==
  /\ task = "idle" => handed = {}
  /\ task = "recover" => todo = <<>> /\ \A n \in handed : IsSaved(file[n])
  /\ task = "copyover" =>
       /\ handed \subseteq linked
       /\ \A n \in handed : IsSaved(body[n]) /\ (Pending(n) \/ IsSaved(file[n]))
       /\ \A i \in DOMAIN todo : IsSaved(todo[i].sheet)

Larger(a, b) == IF a < b THEN b ELSE a

\* The first in the row of saves: his old file counts no more.
IsFirst(n) == todo # <<>> /\ n = Head(todo).who

\* What is on file for n, the save that is next included.
Filed(n) == IF IsFirst(n) THEN Head(todo).sheet ELSE file[n]

\* The most that n can be worth, in the game or by his file.
Most == [n \in Name |-> Larger(Worth(Filed(n)), Worth(body[n]))]

MoneyIsMinted ==
  /\ Wealth(file) <= minted
  /\ SumFunctionOnSet(Most, Name) + ground <= minted

FilesInv ==
  /\ FilesAreProper /\ NewcomersHaveNoFile /\ SavesAreOfPlayers
  /\ DialoguesAreFresh /\ MoneyIsMinted

IInv == TypeInv /\ FilesInv /\ HandedAreSaved

----------------------------------------------------------------------------
(* The invariant of gains and restarts.                                    *)

\* A save of one who plays is of him as he is.
SavesAreCurrent ==
  \A i \in DOMAIN todo : Playing(todo[i].who) => todo[i].sheet = body[todo[i].who]

\* What GainsAreSaved says, in the middle of a command.
GainsAreDue ==
  \A n \in Name : Playing(n) /\ body[n].level # 1 =>
    Pending(n) \/ (file[n] # Nil /\ Worth(file[n]) >= Worth(body[n]))

HandedAreKept ==
  task = "copyover" => \A n \in handed : Pending(n) \/ file[n] = body[n]

GInv == SavesAreCurrent /\ GainsAreDue /\ HandedAreKept

AtTheTop(sheet) == sheet # Nil /\ sheet.level \notin 0..2

\* Of trust: in the game, or by his file as it is after the next save.
Top(n) == AtTheTop(Filed(n)) \/ AtTheTop(body[n])

\* All trust is in one hand, by the files of this moment, too.
OneIsTop ==
  /\ \A n, m \in Name : AtTheTop(file[n]) /\ AtTheTop(file[m]) => n = m
  /\ \A n, m \in Name : Top(n) /\ Top(m) => n = m

RebootSaves ==
  task = "reboot" => \A n \in linked : body[n].level # 1 => Pending(n) \/ file[n] = body[n]

RInv == OneFounder /\ OneIsTop /\ RebootSaves

----------------------------------------------------------------------------
(* Rows of saves.                                                          *)

Entry == [who : Name, sheet : Sheet \cup {Nil}]

SaveOf(n, s) == [who |-> n, sheet |-> s]

LEMMA ShortRows ==
  ASSUME NEW E, NEW x \in E, NEW y \in E
  PROVE  /\ <<x>> \in Seq(E) /\ <<x, y>> \in Seq(E) /\ <<>> \in Seq(E)
         /\ <<>> \o <<>> = <<>> /\ <<>> \o <<x>> = <<x>> /\ <<x>> \o <<>> = <<x>>
         /\ <<x>> \o <<y>> = <<x, y>>
<1>1. <<x>> \in Seq(E) /\ <<y>> \in Seq(E) /\ <<x, y>> \in Seq(E) /\ <<>> \in Seq(E)
  OBVIOUS
<1>2. <<>> \o <<>> = <<>> /\ <<>> \o <<x>> = <<x>> /\ <<x>> \o <<>> = <<x>>
  BY <1>1, ConcatEmptySeq
<1>3. <<x>> \o <<y>> = <<x, y>>
  <2> DEFINE u == <<x>>
             v == <<y>>
             w == <<x, y>>
  <2>1. /\ u \in Seq(E) /\ v \in Seq(E) /\ w \in Seq(E)
        /\ Len(u) = 1 /\ Len(v) = 1 /\ Len(w) = 2
        /\ u[1] = x /\ v[1] = y /\ w[1] = x /\ w[2] = y
    BY <1>1
  <2> HIDE DEF u, v, w
  <2>2. /\ u \o v \in Seq(E) /\ Len(u \o v) = 2
        /\ \A i \in 1..2 : (u \o v)[i] = IF i <= 1 THEN u[i] ELSE v[i - 1]
    BY <2>1, ConcatProperties
  <2>3. u \o v = w
    BY <2>1, <2>2, SeqEqual
  <2> QED
    BY <2>3 DEF u, v, w
<1> QED
  BY <1>1, <1>2, <1>3

LEMMA SaveOfType ==
  ASSUME NEW n \in Name, NEW s \in Sheet \cup {Nil}
  PROVE  SaveOf(n, s) \in Entry
BY DEF SaveOf, Entry

\* What save_char_obj is called for: nothing for a player of level one.
LEMMA SavesAre ==
  ASSUME NEW n \in Name, NEW s \in Sheet
  PROVE  /\ Saves(n, s) \in Seq(Entry)
         /\ s.level = 1 => Saves(n, s) = <<>>
         /\ s.level # 1 => Saves(n, s) = <<SaveOf(n, s)>>
<1>1. SaveOf(n, s) \in Entry
  BY SaveOfType
<1>2. Saves(n, s) = IF s.level = 1 THEN <<>> ELSE <<SaveOf(n, s)>>
  BY DEF Saves, SaveOf
<1> QED
  BY <1>1, <1>2, ShortRows

LEMMA UnlinksAre ==
  ASSUME NEW n \in Name
  PROVE  Unlinks(n) \in Seq(Entry) /\ Unlinks(n) = <<SaveOf(n, Nil)>>
<1>1. SaveOf(n, Nil) \in Entry
  BY SaveOfType
<1> QED
  BY <1>1, ShortRows DEF Unlinks, SaveOf

\* The saves of a command on one player, entry by entry.
LEMMA OneSave ==
  ASSUME NEW n \in Name, NEW s \in Sheet, NEW t, t = Saves(n, s)
  PROVE  /\ t \in Seq(Entry)
         /\ \A i \in DOMAIN t : i = 1 /\ t[i] = SaveOf(n, s) /\ s.level # 1
         /\ s.level # 1 => t # <<>> /\ Head(t) = SaveOf(n, s) /\ 1 \in DOMAIN t
         /\ s.level = 1 => t = <<>>
<1>1. CASE s.level = 1
  BY <1>1, SavesAre
<1>2. CASE s.level # 1
  BY <1>2, SavesAre
<1> QED
  BY <1>1, <1>2

SavesBoth(t, p, a, q, b) == t = Saves(p, a) \o Saves(q, b)

\* A save followed by another one, by an unlink, or an unlink by a save.
LEMMA TwoSaves ==
  ASSUME NEW p \in Name, NEW a \in Sheet, NEW q \in Name, NEW b \in Sheet,
         NEW t, SavesBoth(t, p, a, q, b)
  PROVE  /\ t \in Seq(Entry)
         /\ \A i \in DOMAIN t : \/ i = 1 /\ t[i] = SaveOf(p, a) /\ a.level # 1
                                \/ t[i] = SaveOf(q, b) /\ b.level # 1 /\ (i = 1 => a.level = 1)
         /\ a.level # 1 => t # <<>> /\ Head(t) = SaveOf(p, a) /\ 1 \in DOMAIN t
         /\ a.level = 1 /\ b.level # 1 => t # <<>> /\ Head(t) = SaveOf(q, b) /\ 1 \in DOMAIN t
         /\ a.level # 1 /\ b.level # 1 => 2 \in DOMAIN t /\ t[2] = SaveOf(q, b)
         /\ a.level = 1 /\ b.level = 1 => t = <<>>
<1> USE DEF SavesBoth
<1>1. CASE a.level = 1 /\ b.level = 1
  BY <1>1, SavesAre
<1>2. CASE a.level = 1 /\ b.level # 1
  <2>1. t = <<SaveOf(q, b)>> /\ t \in Seq(Entry)
    <3>1. SaveOf(q, b) \in Entry
      BY SaveOfType
    <3>2. t = <<>> \o <<SaveOf(q, b)>>
      BY <1>2, SavesAre
    <3> QED
      BY <3>1, <3>2, ShortRows, Zenon
  <2> QED
    BY <1>2, <2>1
<1>3. CASE a.level # 1 /\ b.level = 1
  <2>1. t = <<SaveOf(p, a)>> /\ t \in Seq(Entry)
    <3>1. SaveOf(p, a) \in Entry
      BY SaveOfType
    <3>2. t = <<SaveOf(p, a)>> \o <<>>
      BY <1>3, SavesAre
    <3> QED
      BY <3>1, <3>2, ShortRows, Zenon
  <2> QED
    BY <1>3, <2>1
<1>4. CASE a.level # 1 /\ b.level # 1
  <2>1. SaveOf(p, a) \in Entry /\ SaveOf(q, b) \in Entry
    BY SaveOfType
  <2>2. t = <<SaveOf(p, a)>> \o <<SaveOf(q, b)>>
    BY <1>4, SavesAre
  <2>3. t = <<SaveOf(p, a), SaveOf(q, b)>> /\ t \in Seq(Entry)
    BY <2>1, <2>2, ShortRows, Zenon
  <2> QED
    BY <1>4, <2>3
<1> QED
  BY <1>1, <1>2, <1>3, <1>4

SavesAndUnlinks(t, p, a) == t = Saves(p, a) \o Unlinks(p)

LEMMA SaveAndUnlink ==
  ASSUME NEW p \in Name, NEW a \in Sheet, NEW t, SavesAndUnlinks(t, p, a)
  PROVE  /\ t \in Seq(Entry)
         /\ \A i \in DOMAIN t : t[i] \in {SaveOf(p, a), SaveOf(p, Nil)} /\ (a.level = 1 => t[i] = SaveOf(p, Nil))
         /\ \A i \in DOMAIN t : i # 1 => t[i] = SaveOf(p, Nil)
         /\ t # <<>> /\ Head(t).who = p /\ Head(t) = t[1] /\ 1 \in DOMAIN t
<1> USE DEF SavesAndUnlinks
<1>1. CASE a.level = 1
  <2>1. t = <<SaveOf(p, Nil)>> /\ t \in Seq(Entry)
    BY <1>1, SavesAre, UnlinksAre, SaveOfType, ShortRows
  <2> QED
    BY <1>1, <2>1 DEF SaveOf
<1>2. CASE a.level # 1
  <2>1. SaveOf(p, a) \in Entry /\ SaveOf(p, Nil) \in Entry
    BY SaveOfType
  <2>2. t = <<SaveOf(p, a)>> \o <<SaveOf(p, Nil)>>
    BY <1>2, SavesAre, UnlinksAre
  <2>3. t = <<SaveOf(p, a), SaveOf(p, Nil)>> /\ t \in Seq(Entry)
    BY <2>1, <2>2, ShortRows, Zenon
  <2> QED
    BY <1>2, <2>3 DEF SaveOf
<1> QED
  BY <1>1, <1>2

LEMMA UnlinkAndSave ==
  ASSUME NEW p \in Name, NEW q \in Name, NEW a \in Sheet, NEW t, t = Unlinks(p) \o Saves(q, a)
  PROVE  /\ t \in Seq(Entry)
         /\ \A i \in DOMAIN t : \/ i = 1 /\ t[i] = SaveOf(p, Nil)
                                \/ i = 2 /\ t[i] = SaveOf(q, a) /\ a.level # 1
         /\ a.level # 1 => 2 \in DOMAIN t /\ t[2] = SaveOf(q, a)
         /\ t # <<>> /\ Head(t) = SaveOf(p, Nil) /\ 1 \in DOMAIN t
<1>1. CASE a.level = 1
  <2>1. t = <<SaveOf(p, Nil)>> /\ t \in Seq(Entry)
    BY <1>1, SavesAre, UnlinksAre, SaveOfType, ShortRows
  <2> QED
    BY <1>1, <2>1 DEF SaveOf
<1>2. CASE a.level # 1
  <2>1. SaveOf(p, Nil) \in Entry /\ SaveOf(q, a) \in Entry
    BY SaveOfType
  <2>2. t = <<SaveOf(p, Nil)>> \o <<SaveOf(q, a)>>
    BY <1>2, SavesAre, UnlinksAre
  <2>3. t = <<SaveOf(p, Nil), SaveOf(q, a)>> /\ t \in Seq(Entry)
    BY <2>1, <2>2, ShortRows, Zenon
  <2> QED
    BY <1>2, <2>3 DEF SaveOf
<1> QED
  BY <1>1, <1>2

----------------------------------------------------------------------------
(* Types.                                                                  *)

LEMMA LevelsAre ==
  0 \in Levels /\ 1 \in Levels /\ 2 \in Levels /\ \A n \in Staff : Rank[n] \in Levels
BY DEF Levels

LEMMA NilIs ==
  /\ Nil \notin Sheet /\ Nobody \in [Name -> Sheet \cup {Nil}]
  /\ Unborn \in Sheet /\ Unborn.level = 0 /\ Worth(Unborn) = 0 /\ Worth(Nil) = 0
  /\ \A s \in Sheet : Worth(s) = s.gold + s.bank /\ Worth(s) \in Nat
BY NilIsNoSheet, LevelsAre DEF Nobody, Unborn, Sheet, Worth

LEMMA PlayingSheet ==
  ASSUME TypeOK, NEW n \in Name
  PROVE  /\ Playing(n) => body[n] \in Sheet
         /\ Loaded(n) \in Sheet /\ (copy[n] # Nil => copy[n] \in Sheet)
         /\ Worth(body[n]) \in Nat /\ Worth(file[n]) \in Nat
BY NilIs DEF TypeOK, Playing, Loaded

\* Nothing is half written between commands.
LEMMA IdleTemp ==
  ASSUME TypeInv, todo = <<>>
  PROVE  temp = Nil
BY DEF TypeInv, TempIsFirst

LEMMA WrittenType ==
  ASSUME NEW s \in Sheet, NEW t \in Written(s)
  PROVE  /\ t \in Sheet /\ t.level = s.level /\ Worth(t) <= Worth(s)
         /\ DiskFull = FALSE => t = s
<1> DEFINE a == [s EXCEPT !.bank = 0]
           b == [s EXCEPT !.bank = 0, !.gold = 0]
<1>1. t = s \/ (DiskFull /\ (t = a \/ t = b))
  BY RestartConstants DEF Written
<1>2. /\ a \in Sheet /\ a.level = s.level /\ a.gold = s.gold /\ a.bank = 0
      /\ b \in Sheet /\ b.level = s.level /\ b.gold = 0 /\ b.bank = 0
      /\ s.gold \in Nat /\ s.bank \in Nat
  BY DEF Sheet
<1> HIDE DEF a, b
<1>3. Worth(a) <= Worth(s) /\ Worth(b) <= Worth(s) /\ Worth(s) <= Worth(s)
  BY <1>2, NilIs
<1> QED
  BY <1>1, <1>2, <1>3

LEMMA FirstType ==
  ASSUME TypeOK, todo # <<>>
  PROVE  /\ Head(todo) \in Entry /\ Head(todo).who \in Name /\ Head(todo).sheet \in Sheet \cup {Nil}
         /\ Head(todo) = todo[1] /\ 1 \in DOMAIN todo
         /\ Tail(todo) \in Seq(Entry)
         /\ \A i \in DOMAIN Tail(todo) : i + 1 \in DOMAIN todo /\ Tail(todo)[i] = todo[i + 1] /\ i + 1 # 1
         /\ \A i \in DOMAIN todo : i # 1 => i - 1 \in DOMAIN Tail(todo) /\ Tail(todo)[i - 1] = todo[i]
         /\ \A i \in DOMAIN todo : i \in Nat /\ todo[i] \in Entry /\ todo[i].who \in Name
                                   /\ todo[i].sheet \in Sheet \cup {Nil}
         /\ Tail(todo) # <<>> => Head(Tail(todo)) = todo[2] /\ 2 \in DOMAIN todo
<1>1. todo \in Seq(Entry)
  BY DEF TypeOK, Entry
<1>2. /\ Tail(todo) \in Seq(Entry) /\ Len(Tail(todo)) = Len(todo) - 1 /\ Head(todo) = todo[1]
      /\ \A i \in 1 .. Len(Tail(todo)) : Tail(todo)[i] = todo[i + 1]
      /\ DOMAIN todo = 1 .. Len(todo) /\ DOMAIN Tail(todo) = 1 .. Len(Tail(todo))
      /\ Len(todo) \in Nat \ {0} /\ Len(Tail(todo)) \in Nat
  BY <1>1, HeadTailProperties, LenProperties, EmptySeq
<1>3. \A i \in DOMAIN todo : todo[i] \in Entry
  BY <1>1
<1>4. \A e \in Entry : e.who \in Name /\ e.sheet \in Sheet \cup {Nil}
  BY DEF Entry
<1>5. Tail(todo) # <<>> => Len(Tail(todo)) # 0 /\ Head(Tail(todo)) = Tail(todo)[1]
  BY <1>2, EmptySeq
<1>6. Tail(todo) # <<>> => Head(Tail(todo)) = todo[2] /\ 2 \in DOMAIN todo
  BY <1>2, <1>5
<1>7. 1 \in DOMAIN todo
  BY <1>2
<1>8. \A i \in DOMAIN Tail(todo) : i + 1 \in DOMAIN todo /\ Tail(todo)[i] = todo[i + 1] /\ i + 1 # 1
  BY <1>2
<1>9. \A i \in DOMAIN todo : i # 1 => i - 1 \in DOMAIN Tail(todo) /\ Tail(todo)[i - 1] = todo[i]
  BY <1>2
<1>10. \A i \in DOMAIN todo : i \in Nat
  BY <1>2
<1> QED
  BY <1>2, <1>3, <1>4, <1>6, <1>7, <1>8, <1>9, <1>10

LEMMA TypeInit ==
  Init => TypeInv
<1> SUFFICES ASSUME Init PROVE TypeInv
  OBVIOUS
<1>1. file \in [Name -> Sheet \cup {Nil}]
  BY RestartConstants, LevelsAre DEF Init, Sheet
<1>2. minted \in 0..MaxMinted
  <2>1. IsFiniteSet(Staff)
    BY RestartConstants, FS_Subset
  <2>2. Cardinality(Staff) \in Nat
    BY <2>1, FS_CardinalityType
  <2>3. Gift * Cardinality(Staff) \in Nat
    BY <2>2, RestartConstants
  <2> QED
    BY <2>3, RestartConstants DEF Init
<1>3. todo \in Seq([who : Name, sheet : Sheet \cup {Nil}])
  BY DEF Init
<1> QED
  BY <1>1, <1>2, <1>3, NilIs DEF Init, TypeInv, TypeOK, TempIsFirst

\* What ReadMotd makes of a new player.
LEMMA NewcomerType ==
  ASSUME NEW s \in Sheet
  PROVE  \E t \in Sheet : /\ t = [s EXCEPT !.level = 1, !.gold = Gift]
                          /\ t.level = 1 /\ Worth(t) = Gift + s.bank
<1> DEFINE t == [s EXCEPT !.level = 1, !.gold = Gift]
           u == [s EXCEPT !.level = 1]
<1>1. Gift \in Nat
  BY RestartConstants
<1>2. u \in Sheet /\ u.level = 1 /\ u.bank = s.bank
  BY LevelsAre DEF Sheet
<1>3. t = [u EXCEPT !.gold = Gift]
  OBVIOUS
<1> HIDE DEF u
<1>4. [u EXCEPT !.gold = Gift] \in Sheet
  BY <1>1, <1>2 DEF Sheet
<1>5. t.level = 1 /\ t.gold = Gift /\ t.bank = s.bank /\ t \in Sheet
  BY <1>2, <1>3, <1>4 DEF Sheet
<1> HIDE DEF t
<1>6. Worth(t) = Gift + s.bank
  BY <1>5, NilIs
<1> QED
  BY <1>5, <1>6 DEF t

LEMMA DialogueTypes ==
  ASSUME TypeInv, NEW n \in Name, Dialogue(n)
  PROVE  TypeInv'
<1>1. /\ copy[n] # Nil => copy[n] \in Sheet
      /\ Loaded(n) \in Sheet
  BY PlayingSheet DEF TypeInv
<1>2. CASE GetName(n) \/ GiveUp(n) \/ Reconnect(n)
  BY <1>1, <1>2 DEF GetName, GiveUp, Reconnect, disk, Playing, TypeInv, TypeOK, TempIsFirst
<1>3. CASE DialogueBreaks(n)
  <2>1. todo' \in Seq(Entry) /\ temp' = Nil
    BY <1>1, <1>3, OneSave, IdleTemp DEF DialogueBreaks, Idle
  <2> QED
    BY <1>3, <2>1 DEF DialogueBreaks, TypeInv, TypeOK, TempIsFirst, Entry
<1>4. CASE ReadMotd(n)
  <2>1. PICK s \in Sheet : body' = [body EXCEPT ![n] = s] /\ minted' \in 0..MaxMinted
    <3>0. copy[n] \in Sheet /\ Gift \in Nat
      BY <1>1, <1>4, RestartConstants DEF ReadMotd
    <3>1. [copy[n] EXCEPT !.level = 1, !.gold = Gift] \in Sheet
      BY <3>0, NewcomerType
    <3> QED
      BY <3>0, <1>4, <3>1, RestartConstants DEF ReadMotd, TypeInv, TypeOK
  <2> QED
    BY <1>4, <2>1, NilIs DEF ReadMotd, disk, TypeInv, TypeOK, TempIsFirst
<1> QED
  BY <1>2, <1>3, <1>4 DEF Dialogue

\* A command that changes one player's sheet, in its purse, account or level.
LEMMA BodyTypes ==
  ASSUME TypeInv, todo = <<>>, NEW n \in Name, Playing(n), NEW s \in Sheet,
         body' = [body EXCEPT ![n] = s], UNCHANGED <<file, temp, copy, task, handed, minted>>,
         linked' \subseteq linked, ground' \in Nat, todo' \in Seq(Entry)
  PROVE  TypeInv'
BY IdleTemp, NilIs DEF Playing, TypeInv, TypeOK, TempIsFirst, Entry

\* ... and one that takes him out of the game.
LEMMA LeaveTypes ==
  ASSUME TypeInv, todo = <<>>, NEW n \in Name,
         body' = [body EXCEPT ![n] = Nil], linked' = linked \ {n},
         file' \in [Name -> Sheet \cup {Nil}], copy' \in [Name -> Sheet \cup {Nil}],
         UNCHANGED <<temp, ground, task, handed, minted>>, todo' \in Seq(Entry)
  PROVE  TypeInv'
BY IdleTemp, NilIs DEF TypeInv, TypeOK, TempIsFirst, Entry

\* The sheets that the commands of one player make.
LEMMA SheetTypes ==
  ASSUME TypeOK, NEW n \in Name, Playing(n), NEW k \in Int
  PROVE  /\ body[n].gold \in Nat /\ body[n].bank \in Nat /\ body[n].level \in Levels
         /\ Worth(body[n]) = body[n].gold + body[n].bank
         /\ [body[n] EXCEPT !.level = 2] \in Sheet
         /\ Worth([body[n] EXCEPT !.level = 2]) = Worth(body[n])
         /\ body[n].gold + k >= 0 =>
              /\ [body[n] EXCEPT !.gold = @ + k] \in Sheet
              /\ [body[n] EXCEPT !.gold = @ + k].level = body[n].level
              /\ Worth([body[n] EXCEPT !.gold = @ + k]) = Worth(body[n]) + k
<1>1. body[n] \in Sheet
  BY PlayingSheet
<1>2. /\ body[n].gold \in Nat /\ body[n].bank \in Nat /\ body[n].level \in Levels
      /\ Worth(body[n]) = body[n].gold + body[n].bank
  BY <1>1, NilIs DEF Sheet
<1>3. /\ [body[n] EXCEPT !.level = 2] \in Sheet
      /\ [body[n] EXCEPT !.level = 2].gold = body[n].gold
      /\ [body[n] EXCEPT !.level = 2].bank = body[n].bank
  BY <1>1, LevelsAre DEF Sheet
<1>4. ASSUME body[n].gold + k >= 0
      PROVE  /\ [body[n] EXCEPT !.gold = @ + k] \in Sheet
             /\ [body[n] EXCEPT !.gold = @ + k].level = body[n].level
             /\ [body[n] EXCEPT !.gold = @ + k].gold = body[n].gold + k
             /\ [body[n] EXCEPT !.gold = @ + k].bank = body[n].bank
  BY <1>1, <1>2, <1>4 DEF Sheet
<1>5. Worth([body[n] EXCEPT !.level = 2]) = Worth(body[n])
  BY <1>2, <1>3, NilIs
<1>6. ASSUME body[n].gold + k >= 0
      PROVE  Worth([body[n] EXCEPT !.gold = @ + k]) = Worth(body[n]) + k
  <2>1. \A s \in Sheet : s.gold = body[n].gold + k /\ s.bank = body[n].bank
                            => Worth(s) = Worth(body[n]) + k
    BY <1>2, NilIs
  <2> QED
    BY <1>4, <1>6, <2>1
<1> QED
  BY <1>2, <1>3, <1>4, <1>5, <1>6

\* What the commands on a player's own purse and level make of his sheet.
LEMMA GainTypes ==
  ASSUME TypeOK, NEW n \in Name, GainLevel(n)
  PROVE  \E s \in Sheet : /\ body' = [body EXCEPT ![n] = s] /\ todo' = Saves(n, s)
                          /\ s.level = 2 /\ Worth(s) = Worth(body[n])
<1>1. Playing(n) /\ body[n] \in Sheet
  BY PlayingSheet DEF GainLevel
<1>2. PICK s \in Sheet : s = [body[n] EXCEPT !.level = 2] /\ Worth(s) = Worth(body[n])
  <2>1. 0 \in Int
    OBVIOUS
  <2> QED
    BY <1>1, <2>1, SheetTypes
<1>3. body' = [body EXCEPT ![n] = s]
  BY <1>2 DEF GainLevel
<1>4. body'[n] = s
  BY <1>3 DEF TypeOK
<1>5. s.level = 2
  BY <1>1, <1>2 DEF Sheet
<1> QED
  BY <1>2, <1>3, <1>4, <1>5 DEF GainLevel

LEMMA DropTypes ==
  ASSUME TypeOK, NEW n \in Name, NEW k \in Amounts, DropCoins(n, k)
  PROVE  \E s \in Sheet : /\ body' = [body EXCEPT ![n] = s] /\ todo' = Saves(n, s)
                          /\ s.level = body[n].level /\ Worth(s) = Worth(body[n]) - k
                          /\ ground' = ground + k /\ ground' \in Nat /\ k \in Nat
<1>1. Playing(n) /\ body[n] \in Sheet /\ body[n].gold \in Nat /\ body[n].gold >= k
      /\ Worth(body[n]) \in Nat
  BY PlayingSheet, NilIs DEF DropCoins, Sheet
<1>2. k \in Nat /\ -k \in Int /\ body[n].gold + -k = body[n].gold - k /\ body[n].gold + -k >= 0
      /\ Worth(body[n]) + -k = Worth(body[n]) - k
  BY <1>1, RestartConstants DEF Amounts
<1>3. PICK s \in Sheet : s = [body[n] EXCEPT !.gold = @ + -k]
                         /\ s.level = body[n].level /\ Worth(s) = Worth(body[n]) + -k
  BY <1>1, <1>2, SheetTypes
<1>4. [body[n] EXCEPT !.gold = @ - k] = s
  BY <1>1, <1>2, <1>3
<1>5. body' = [body EXCEPT ![n] = s]
  BY <1>4 DEF DropCoins
<1>6. body'[n] = s
  BY <1>5 DEF TypeOK
<1>7. ground' = ground + k /\ ground' \in Nat
  BY <1>2 DEF DropCoins, TypeOK
<1> QED
  BY <1>2, <1>3, <1>5, <1>6, <1>7 DEF DropCoins

LEMMA GetTypes ==
  ASSUME TypeOK, NEW n \in Name, GetCoins(n)
  PROVE  \E s \in Sheet : /\ body' = [body EXCEPT ![n] = s] /\ todo' = Saves(n, s)
                          /\ s.level = body[n].level /\ Worth(s) = Worth(body[n]) + ground
                          /\ ground' = 0
<1>1. Playing(n) /\ body[n] \in Sheet /\ body[n].gold \in Nat /\ ground \in Nat /\ ground \in Int
  BY PlayingSheet DEF GetCoins, Sheet, TypeOK
<1>2. body[n].gold + ground >= 0
  BY <1>1
<1>3. PICK s \in Sheet : s = [body[n] EXCEPT !.gold = @ + ground]
                         /\ s.level = body[n].level /\ Worth(s) = Worth(body[n]) + ground
  BY <1>1, <1>2, SheetTypes
<1>4. body' = [body EXCEPT ![n] = s]
  BY <1>3 DEF GetCoins
<1>5. body'[n] = s
  BY <1>4 DEF TypeOK
<1> QED
  BY <1>3, <1>4, <1>5 DEF GetCoins

\* What a bank makes of a player: no more coins than he had.
LEMMA BankTypes ==
  ASSUME TypeOK, NEW n \in Name, NEW k \in Int, Banks(n, k)
  PROVE  \E s \in Sheet : /\ body' = [body EXCEPT ![n] = s]
                          /\ s.level = body[n].level /\ Worth(s) <= Worth(body[n])
<1>1. body[n] \in Sheet /\ Cap \in Nat
  BY PlayingSheet, RestartConstants DEF Banks
<1>2. ASSUME NEW s \in Sheet
      PROVE  /\ FindMoney(s) \in Sheet /\ FindMoney(s).level = s.level
             /\ FindMoney(s).gold = s.gold /\ FindMoney(s).bank <= s.bank
  <2>1. s.bank \in Nat /\ Lesser(s.bank, Cap) \in Nat /\ Lesser(s.bank, Cap) <= s.bank
    BY <1>1 DEF Sheet, Lesser
  <2> QED
    BY <2>1 DEF FindMoney, Sheet
<1>3. ASSUME NEW s \in Sheet, s.gold >= k, s.bank + k >= 0
      PROVE  /\ Transact(s, k) \in Sheet /\ Transact(s, k).level = s.level
             /\ Transact(s, k).gold = s.gold - k /\ Transact(s, k).bank = s.bank + k
  <2>1. s.gold \in Nat /\ s.bank \in Nat /\ s.gold - k \in Nat /\ s.bank + k \in Nat
    BY <1>3 DEF Sheet
  <2> QED
    BY <2>1 DEF Transact, Sheet
<1>4. PICK a \in Sheet : a = FindMoney(body[n])
  BY <1>1, <1>2
<1>5. a.level = body[n].level /\ a.gold = body[n].gold /\ a.bank <= body[n].bank
  BY <1>1, <1>2, <1>4
<1>6. a.gold >= k /\ a.bank + k >= 0 /\ body' = [body EXCEPT ![n] = FindMoney(Transact(a, k))]
  BY <1>4 DEF Banks
<1>7. PICK b \in Sheet : b = Transact(a, k)
  BY <1>3, <1>6
<1>8. b.level = a.level /\ b.gold = a.gold - k /\ b.bank = a.bank + k
  BY <1>3, <1>6, <1>7
<1>9. PICK c \in Sheet : c = FindMoney(b)
  BY <1>2
<1>10. c.level = b.level /\ c.gold = b.gold /\ c.bank <= b.bank
  BY <1>2, <1>9
<1>11. Worth(c) <= Worth(body[n])
  <2>1. \A s \in Sheet : s.gold \in Nat /\ s.bank \in Nat
    BY DEF Sheet
  <2> QED
    BY <1>1, <1>5, <1>8, <1>10, <2>1, NilIs
<1> QED
  BY <1>5, <1>6, <1>7, <1>8, <1>9, <1>10, <1>11

LEMMA PayTypes ==
  ASSUME TypeOK, NEW p \in Name, NEW q \in Name, NEW k \in Amounts, Pay(p, q, k)
  PROVE  \E a, b \in Sheet :
           /\ p # q /\ Playing(p) /\ Playing(q) /\ Idle
           /\ body' = [body EXCEPT ![p] = a, ![q] = b]
           /\ a.level = body[p].level /\ Worth(a) = Worth(body[p]) - k
           /\ b.level = body[q].level /\ Worth(b) = Worth(body[q]) + k
           /\ todo' = <<>> \/ todo' = Saves(p, a) \o Saves(q, b)
           /\ Transfers \subseteq {"give"} => todo' = Saves(p, a) \o Saves(q, b)
           /\ UNCHANGED <<file, temp, linked, copy, ground, task, handed, minted>>
<1>1. PICK t \in Transfers :
        /\ Idle /\ p # q /\ Playing(p) /\ Playing(q) /\ body[p].gold >= k
        /\ body' = [body EXCEPT ![p].gold = @ - k, ![q].gold = @ + k]
        /\ todo' = HandOver(p, q, t)
        /\ UNCHANGED <<file, temp, linked, copy, ground, task, handed, minted>>
  BY DEF Pay
<1>2. k \in Nat /\ k \in Int /\ -k \in Int
  BY RestartConstants DEF Amounts
<1>3. body[p].gold \in Nat /\ body[q].gold \in Nat
  BY <1>1, <1>2, SheetTypes
<1>4. PICK a \in Sheet : a = [body[p] EXCEPT !.gold = @ + -k]
                         /\ a.level = body[p].level /\ Worth(a) = Worth(body[p]) + -k
  <2>1. body[p].gold + -k >= 0
    BY <1>1, <1>2, <1>3
  <2> QED
    BY <1>1, <1>2, <2>1, SheetTypes
<1>5. PICK b \in Sheet : b = [body[q] EXCEPT !.gold = @ + k]
                         /\ b.level = body[q].level /\ Worth(b) = Worth(body[q]) + k
  <2>1. body[q].gold + k >= 0
    BY <1>2, <1>3
  <2> QED
    BY <1>1, <1>2, <2>1, SheetTypes
<1>6. body' = [body EXCEPT ![p] = a, ![q] = b]
  <2>1. body[p] \in Sheet /\ body[p].gold + -k = body[p].gold - k
    BY <1>1, <1>2, <1>3, PlayingSheet
  <2>2. [body[p] EXCEPT !.gold = @ - k] = a
    BY <1>4, <2>1 DEF Sheet
  <2> QED
    BY <1>1, <1>5, <2>2
<1>7. body \in [Name -> Sheet \cup {Nil}]
  BY DEF TypeOK
<1>8. body'[p] = a /\ body'[q] = b
  BY <1>1, <1>6, <1>7
<1>9. Worth(a) = Worth(body[p]) - k
  BY <1>1, <1>2, <1>4, PlayingSheet
<1> QED
  BY <1>1, <1>4, <1>5, <1>6, <1>8, <1>9 DEF HandOver

LEMMA RenameTypes ==
  ASSUME TypeInv, NEW n \in Name, NEW m \in Name, RenamePlayer(n, m)
  PROVE  TypeInv'
<1>1. body[n] \in Sheet
  BY PlayingSheet DEF RenamePlayer, TypeInv
<1>2. todo' \in Seq(Entry)
  BY <1>1, UnlinkAndSave DEF RenamePlayer
<1>3. body' \in [Name -> Sheet \cup {Nil}] /\ n # m /\ body'[n] = Nil /\ body'[m] = body[n]
      /\ \A x \in Name \ {n, m} : body'[x] = body[x]
  BY <1>1 DEF RenamePlayer, TypeInv, TypeOK, Playing
<1>4. linked' \subseteq {x \in Name : body'[x] # Nil}
  BY <1>1, <1>3, NilIs DEF RenamePlayer, TypeInv, TypeOK
<1>5. temp' = Nil
  BY IdleTemp DEF RenamePlayer, Idle
<1> QED
  BY <1>2, <1>3, <1>4, <1>5 DEF RenamePlayer, TypeInv, TypeOK, TempIsFirst, Entry

LEMMA PlayTypes ==
  ASSUME TypeInv, NEW n \in Name, Play(n)
  PROVE  TypeInv'
<1> USE DEF Idle
<1>1. ASSUME Playing(n)
      PROVE  body[n] \in Sheet /\ body = [body EXCEPT ![n] = body[n]]
  BY <1>1, PlayingSheet DEF TypeInv, TypeOK
<1>2. CASE LoseLink(n)
  <2>1. Playing(n)
    BY <1>2 DEF LoseLink, Playing, TypeInv, TypeOK
  <2>2. todo' \in Seq(Entry)
    BY <1>1, <1>2, <2>1, OneSave DEF LoseLink
  <2> QED
    BY <1>1, <1>2, <2>1, <2>2, BodyTypes DEF LoseLink, TypeInv, TypeOK
<1>3. CASE Quit(n)
  <2>1. todo' \in Seq(Entry)
    BY <1>1, <1>3, OneSave DEF Quit, Leave
  <2>2. file' \in [Name -> Sheet \cup {Nil}] /\ copy' \in [Name -> Sheet \cup {Nil}]
    BY <1>3 DEF Quit, Leave, TypeInv, TypeOK
  <2> QED
    BY <1>3, <2>1, <2>2, LeaveTypes DEF Quit, Leave
<1>4. CASE Save(n)
  <2>1. todo' \in Seq(Entry)
    BY <1>1, <1>4, OneSave DEF Save
  <2> QED
    BY <1>1, <1>4, <2>1, BodyTypes DEF Save, game, TypeInv, TypeOK
<1>5. CASE GainLevel(n)
  <2>1. PICK s \in Sheet : body' = [body EXCEPT ![n] = s] /\ todo' = Saves(n, s)
    BY <1>5, GainTypes DEF TypeInv
  <2>2. todo' \in Seq(Entry)
    BY <2>1, OneSave
  <2> QED
    BY <1>5, <2>1, <2>2, BodyTypes DEF GainLevel, TypeInv, TypeOK
<1>6. CASE GetCoins(n)
  <2>1. PICK s \in Sheet : body' = [body EXCEPT ![n] = s] /\ todo' = Saves(n, s)
    BY <1>6, GetTypes DEF TypeInv
  <2>2. todo' \in Seq(Entry)
    BY <2>1, OneSave
  <2> QED
    BY <1>6, <2>1, <2>2, BodyTypes DEF GetCoins, TypeInv, TypeOK
<1>7. ASSUME NEW k \in Amounts, DropCoins(n, k)
      PROVE  TypeInv'
  <2>1. PICK s \in Sheet : body' = [body EXCEPT ![n] = s] /\ todo' = Saves(n, s) /\ ground' \in Nat
    BY <1>7, DropTypes DEF TypeInv
  <2>2. todo' \in Seq(Entry)
    BY <2>1, OneSave
  <2> QED
    BY <1>7, <2>1, <2>2, BodyTypes DEF DropCoins, TypeInv, TypeOK
<1>8. ASSUME NEW k \in Int, Banks(n, k)
      PROVE  TypeInv'
  <2>1. PICK s \in Sheet : body' = [body EXCEPT ![n] = s]
    BY <1>8, BankTypes DEF TypeInv
  <2> QED
    BY <1>8, <2>1, BodyTypes DEF Banks, disk, TypeInv, TypeOK, Entry
<1>9. CASE Delete(n)
  <2>1. Playing(n)
    BY <1>9 DEF Delete, Playing, TypeInv, TypeOK
  <2>2. CASE todo' = Unlinks(n) /\ UNCHANGED <<body, linked, copy>>
    BY <1>1, <1>9, <2>1, <2>2, UnlinksAre, BodyTypes DEF Delete, TypeInv, TypeOK
  <2>3. CASE /\ body' = [body EXCEPT ![n] = Nil] /\ linked' = linked \ {n}
             /\ copy' = [copy EXCEPT ![n] = Nil]
             /\ todo' = Saves(n, body[n]) \o Unlinks(n)
    <3>1. todo' \in Seq(Entry)
      BY <1>1, <2>1, <2>3, SaveAndUnlink DEF SavesAndUnlinks
    <3>2. copy' \in [Name -> Sheet \cup {Nil}]
      BY <2>3 DEF TypeInv, TypeOK
    <3> QED
      BY <1>9, <2>3, <3>1, <3>2, LeaveTypes DEF Delete, TypeInv, TypeOK
  <2> QED
    BY <1>9, <2>2, <2>3 DEF Delete
<1>10. CASE Fry(n)
  <2>1. todo' \in Seq(Entry)
    BY <1>1, <1>10, SaveAndUnlink DEF Fry, fry_char, SavesAndUnlinks
  <2> QED
    BY <1>10, <2>1, LeaveTypes DEF Fry, fry_char, TypeInv, TypeOK
<1>11. ASSUME NEW m \in Name, RenamePlayer(n, m)
       PROVE  TypeInv'
  BY <1>11, RenameTypes
<1>12. ASSUME NEW q \in Name, NEW k \in Amounts, Pay(n, q, k)
       PROVE  TypeInv'
  <2>1. PICK a, b \in Sheet :
           /\ n # q /\ Playing(n) /\ Playing(q) /\ Idle
           /\ body' = [body EXCEPT ![n] = a, ![q] = b]
           /\ todo' = <<>> \/ todo' = Saves(n, a) \o Saves(q, b)
           /\ UNCHANGED <<file, temp, linked, copy, ground, task, handed, minted>>
    BY <1>12, PayTypes DEF TypeInv
  <2>2. todo' \in Seq(Entry)
    <3>1. CASE todo' = <<>>
      BY <3>1, EmptySeq
    <3>2. CASE todo' = Saves(n, a) \o Saves(q, b)
      <4>1. SavesBoth(todo', n, a, q, b)
        BY <3>2 DEF SavesBoth
      <4> QED
        BY <4>1, TwoSaves
    <3> QED
      BY <2>1, <3>1, <3>2
  <2>3. body' \in [Name -> Sheet \cup {Nil}] /\ \A x \in Name : body[x] # Nil => body'[x] # Nil
    BY <2>1, NilIs DEF TypeInv, TypeOK
  <2> QED
    BY <2>1, <2>2, <2>3, IdleTemp DEF TypeInv, TypeOK, TempIsFirst, Entry
<1> QED
  <2>1. \A k \in Amounts : k \in Int /\ -k \in Int
    BY RestartConstants DEF Amounts
  <2> QED
    BY <2>1, <1>2, <1>3, <1>4, <1>5, <1>6, <1>7, <1>8, <1>9, <1>10, <1>11, <1>12 DEF Play

\* Those who are saved by a reboot.
Rebooted(p) == Forced(p) \cup {p}

LEMMA RebootSavesAre ==
  ASSUME TypeOK, NEW p \in Name, Reboot(p)
  PROVE  /\ todo' \in Seq(Entry)
         /\ \A i \in DOMAIN todo' : \E n \in Rebooted(p) : todo'[i] = SaveOf(n, body[n])
         /\ \A n \in Rebooted(p) : \E i \in DOMAIN todo' : todo'[i] = SaveOf(n, body[n])
<1>1. PICK row \in Rows(Forced(p)) : todo' = SavesOf(Append(row, p))
  BY DEF Reboot
<1>2. Cardinality(Forced(p)) \in Nat /\ Rebooted(p) \subseteq Name
  <2>1. Forced(p) \in SUBSET Name
    BY DEF Forced
  <2> QED
    BY <2>1, RestartConstants, FS_Subset, FS_CardinalityType DEF Rebooted
<1> DEFINE c == Cardinality(Forced(p))
           all == Append(row, p)
<1>3. row \in [1..c -> Forced(p)] /\ \A x \in Forced(p) : \E i \in 1..c : row[i] = x
  BY DEF Rows
<1> HIDE DEF c
<1>4. c \in Nat /\ row \in Seq(Name) /\ Len(row) = c /\ Forced(p) \subseteq Rebooted(p)
  BY <1>2, <1>3 DEF c, Rebooted
<1>5. /\ DOMAIN all = 1..(c + 1) /\ all[c + 1] = p
      /\ \A i \in 1..c : all[i] = row[i]
  BY <1>4
<1>6. \A i \in 1..(c + 1) : i \in 1..c \/ i = c + 1
  BY <1>4
<1>7. \A i \in 1..(c + 1) : all[i] \in Rebooted(p)
  BY <1>3, <1>4, <1>5, <1>6 DEF Rebooted
<1>8. \A x \in Rebooted(p) : \E i \in 1..(c + 1) : all[i] = x
  <2>1. \A i \in 1..c : i \in 1..(c + 1)
    BY <1>4
  <2>2. c + 1 \in 1..(c + 1)
    BY <1>4
  <2> QED
    BY <1>3, <1>5, <2>1, <2>2 DEF Rebooted
<1> HIDE DEF all
<1>9. todo' = [i \in 1..(c + 1) |-> SaveOf(all[i], body[all[i]])]
  BY <1>1, <1>5 DEF SavesOf, SaveOf, all
<1>10. \A i \in 1..(c + 1) : SaveOf(all[i], body[all[i]]) \in Entry
  BY <1>2, <1>7, SaveOfType DEF TypeOK
<1>11. todo' \in [1..(c + 1) -> Entry]
  BY <1>9, <1>10
<1>12. todo' \in Seq(Entry)
  BY <1>4, <1>11
<1> QED
  BY <1>7, <1>8, <1>9, <1>12

LEMMA HandDownTypes ==
  ASSUME TypeOK, NEW n \in Name, HandDown(n)
  PROVE  \E s \in Sheet : /\ body' = [body EXCEPT ![n] = s] /\ todo' = Saves(n, s)
                          /\ n \in linked /\ Playing(n)
                          /\ s.level # 1 /\ (body[n].level # 1 => s = body[n])
                          /\ (body[n].level = 1 => s.level = 2) /\ Worth(s) = Worth(body[n])
<1>1. n \in linked /\ Playing(n) /\ body[n] \in Sheet
  BY PlayingSheet DEF HandDown, TypeOK, Playing
<1>2. Carried(body[n]) = IF body[n].level = 1 THEN [body[n] EXCEPT !.level = 2] ELSE body[n]
  BY DEF Carried
<1>3. 0 \in Int
  OBVIOUS
<1>4. [body[n] EXCEPT !.level = 2] \in Sheet /\ Worth([body[n] EXCEPT !.level = 2]) = Worth(body[n])
  BY <1>1, <1>3, SheetTypes
<1>5. [body[n] EXCEPT !.level = 2].level = 2
  BY <1>1 DEF Sheet
<1>6. PICK s \in Sheet : s = Carried(body[n])
  BY <1>1, <1>2, <1>4
<1>7. body' = [body EXCEPT ![n] = s]
  BY <1>6 DEF HandDown
<1>8. body'[n] = s
  BY <1>7 DEF TypeOK
<1>9. todo' = Saves(n, s)
  BY <1>8 DEF HandDown
<1>10. /\ s.level # 1 /\ (body[n].level # 1 => s = body[n])
       /\ (body[n].level = 1 => s.level = 2) /\ Worth(s) = Worth(body[n])
  BY <1>2, <1>4, <1>5, <1>6
<1> QED
  BY <1>1, <1>7, <1>9, <1>10

LEMMA OtherTypes ==
  ASSUME TypeInv,
         \/ \E n \in Name : HandDown(n) \/ Recover(n) \/ Reboot(n)
         \/ Copyover \/ Exec \/ ExecFails \/ Recovered \/ Die
  PROVE  TypeInv'
<1>1. ASSUME NEW n \in Name, HandDown(n)
      PROVE  TypeInv'
  <2>1. PICK s \in Sheet : body' = [body EXCEPT ![n] = s] /\ todo' = Saves(n, s)
    BY <1>1, HandDownTypes DEF TypeInv
  <2>2. todo' \in Seq(Entry)
    BY <2>1, OneSave
  <2>3. temp' = Nil
    BY <1>1, IdleTemp DEF HandDown
  <2> QED
    BY <1>1, <2>1, <2>2, <2>3, NilIs DEF HandDown, TypeInv, TypeOK, TempIsFirst, Entry
<1>2. ASSUME NEW n \in Name, Recover(n)
      PROVE  TypeInv'
  <2>1. Loaded(n) \in Sheet
    BY PlayingSheet DEF TypeInv
  <2> QED
    BY <1>2, <2>1, NilIs DEF Recover, disk, TypeInv, TypeOK, TempIsFirst
<1>3. ASSUME NEW n \in Name, Reboot(n)
      PROVE  TypeInv'
  <2>1. todo' \in Seq(Entry)
    BY <1>3, RebootSavesAre DEF TypeInv
  <2>2. temp' = Nil
    BY <1>3, IdleTemp DEF Reboot, Idle
  <2> QED
    BY <1>3, <2>1, <2>2 DEF Reboot, game, TypeInv, TypeOK, TempIsFirst, Entry
<1>4. CASE Copyover
  BY <1>4, NilIs DEF Copyover, disk, TypeInv, TypeOK, TempIsFirst
<1>5. CASE Exec
  BY <1>5, NilIs DEF Exec, Fresh, disk, TypeInv, TypeOK, TempIsFirst
<1>6. CASE ExecFails
  BY <1>6 DEF ExecFails, disk, game, TypeInv, TypeOK, TempIsFirst
<1>7. CASE Recovered
  BY <1>7 DEF Recovered, disk, game, TypeInv, TypeOK, TempIsFirst
<1>8. CASE Die
  BY <1>8, NilIs DEF Die, Fresh, TypeInv, TypeOK, TempIsFirst
<1> QED
  BY <1>1, <1>2, <1>3, <1>4, <1>5, <1>6, <1>7, <1>8

LEMMA DiskTypes ==
  ASSUME TypeInv, Write \/ Rename \/ Unlink
  PROVE  TypeInv'
<1> USE DEF TypeInv
<1>1. CASE Write
  <2>1. temp' \in Sheet /\ todo # <<>> /\ Head(todo).sheet # Nil /\ temp' \in Written(Head(todo).sheet)
    BY <1>1, FirstType, WrittenType DEF Write
  <2> QED
    BY <1>1, <2>1 DEF Write, game, TypeOK, TempIsFirst
<1>2. CASE Rename
  <2>1. todo # <<>> /\ temp \in Sheet
    BY <1>2 DEF Rename, TempIsFirst, TypeOK
  <2> QED
    BY <1>2, <2>1, FirstType DEF Rename, game, TypeOK, TempIsFirst, Entry
<1>3. CASE Unlink
  BY <1>3, FirstType DEF Unlink, game, TypeOK, TempIsFirst, Entry
<1> QED
  BY <1>1, <1>2, <1>3

LEMMA TypeStep ==
  TypeInv /\ [Next]_vars => TypeInv'
<1> SUFFICES ASSUME TypeInv, [Next]_vars PROVE TypeInv'
  OBVIOUS
<1>1. CASE Next
  BY <1>1, DialogueTypes, PlayTypes, OtherTypes, DiskTypes DEF Next
<1>2. CASE UNCHANGED vars
  BY <1>2 DEF vars, disk, game, TypeInv, TypeOK, TempIsFirst
<1> QED
  BY <1>1, <1>2

\* The variables have their types, and the temporary file is always the start
\* of the save that is next: no player's sheet goes to the file of another
\* (save_char_obj writes, closes and renames before anything else happens).
THEOREM TypeCorrect == Spec => []TypeInv
<1>1. Init => TypeInv
  BY TypeInit
<1>2. TypeInv /\ [Next]_vars => TypeInv'
  BY TypeStep
<1> QED
  BY <1>1, <1>2, PTL DEF Spec

----------------------------------------------------------------------------
(* What players are worth.                                                 *)

MostFacts ==
  /\ Most \in [Name -> Int]
  /\ \A n \in Name :
       /\ Most[n] \in Nat /\ Worth(Filed(n)) \in Nat /\ Worth(body[n]) \in Nat /\ Worth(file[n]) \in Nat
       /\ Worth(Filed(n)) <= Most[n] /\ Worth(body[n]) <= Most[n]
       /\ Most[n] = Worth(Filed(n)) \/ Most[n] = Worth(body[n])

LEMMA MostIs ==
  TypeOK => MostFacts
<1> SUFFICES ASSUME TypeOK PROVE MostFacts
  OBVIOUS
<1>1. ASSUME NEW n \in Name
      PROVE  Worth(Filed(n)) \in Nat /\ Worth(body[n]) \in Nat /\ Worth(file[n]) \in Nat
  <2>1. Filed(n) \in Sheet \cup {Nil}
    BY FirstType DEF Filed, IsFirst, TypeOK
  <2> QED
    BY <2>1, NilIs, PlayingSheet
<1>2. ASSUME NEW n \in Name
      PROVE  Most[n] = Larger(Worth(Filed(n)), Worth(body[n]))
  BY DEF Most
<1>3. ASSUME NEW n \in Name
      PROVE  /\ Most[n] \in Nat /\ Worth(Filed(n)) <= Most[n] /\ Worth(body[n]) <= Most[n]
             /\ Most[n] = Worth(Filed(n)) \/ Most[n] = Worth(body[n])
  BY <1>1, <1>2 DEF Larger
<1>4. Most = [n \in Name |-> Most[n]]
  BY DEF Most
<1>5. Most \in [Name -> Int]
  BY <1>3, <1>4
<1> QED
  BY <1>1, <1>3, <1>5 DEF MostFacts

LEMMA MostNext ==
  TypeOK' => MostFacts'
BY MostIs, PTL

LEMMA MostBound ==
  ASSUME MostFacts', NEW x \in Name, NEW k \in Int,
         Worth((Filed(x))') <= k, Worth(body'[x]) <= k
  PROVE  (Most')[x] <= k
<1>1. (Most')[x] = Worth((Filed(x))') \/ (Most')[x] = Worth(body'[x])
  BY DEF MostFacts
<1> QED
  BY <1>1

\* The worth of files as a function of names.
Files(f) == [n \in Name |-> Worth(f[n])]

LEMMA WealthIs ==
  ASSUME NEW f, \A n \in Name : Worth(f[n]) \in Nat
  PROVE  Files(f) \in [Name -> Int] /\ Wealth(f) = SumFunctionOnSet(Files(f), Name)
         /\ Wealth(f) \in Int /\ \A n \in Name : Files(f)[n] = Worth(f[n])
<1>1. Files(f) \in [Name -> Int] /\ DOMAIN Files(f) = Name /\ \A n \in Name : Files(f)[n] = Worth(f[n])
  BY DEF Files
<1>2. Wealth(f) = SumFunction(Files(f))
  BY DEF Wealth, Files
<1>3. Wealth(f) = SumFunctionOnSet(Files(f), Name)
  BY <1>1, <1>2 DEF SumFunction
<1> QED
  BY <1>1, <1>3, SumType, RestartConstants

\* Where no player's worth by f is more than by g.
LEMMA WealthLeq ==
  ASSUME NEW f, \A n \in Name : Worth(f[n]) \in Nat, NEW g \in [Name -> Int],
         \A n \in Name : Worth(f[n]) <= g[n]
  PROVE  Wealth(f) <= SumFunctionOnSet(g, Name) /\ SumFunctionOnSet(g, Name) \in Int
<1>1. Files(f) \in [Name -> Int] /\ Wealth(f) = SumFunctionOnSet(Files(f), Name)
      /\ \A n \in Name : Files(f)[n] <= g[n]
  BY WealthIs
<1> QED
  BY <1>1, SumLeq, SumType, RestartConstants

\* Files that count for less.
LEMMA FilesKept ==
  ASSUME TypeOK, TypeOK', MoneyIsMinted, minted <= minted',
         \A n \in Name : Worth(file'[n]) <= Worth(file[n])
  PROVE  Wealth(file') <= minted'
<1>1. \A n \in Name : Worth(file[n]) \in Nat
  BY MostIs DEF MostFacts
<1>2. \A n \in Name : Worth(file'[n]) \in Nat
  BY MostNext DEF MostFacts
<1>3. /\ Wealth(file) \in Int /\ Wealth(file) = SumFunctionOnSet(Files(file), Name)
      /\ Files(file) \in [Name -> Int] /\ \A n \in Name : Files(file)[n] = Worth(file[n])
  BY <1>1, WealthIs
<1>4. Wealth(file') <= Wealth(file) /\ Wealth(file') \in Int
  BY <1>1, <1>2, <1>3, WealthIs, WealthLeq
<1>5. minted \in Int /\ minted' \in Int
  BY RestartConstants DEF TypeOK
<1> QED
  BY <1>3, <1>4, <1>5 DEF MoneyIsMinted

\* Coins come to one player from the ground or as a gift, or go to the ground.
LEMMA MoneyGrows ==
  ASSUME TypeOK, TypeOK', MoneyIsMinted, Wealth(file') <= minted', NEW n \in Name, NEW d \in Int,
         (Most')[n] <= Most[n] + d, \A x \in Name \ {n} : (Most')[x] <= Most[x],
         ground' + d <= ground + minted' - minted
  PROVE  MoneyIsMinted'
<1>1. Most \in [Name -> Int] /\ Most' \in [Name -> Int]
  BY MostIs, MostNext DEF MostFacts
<1>2. SumFunctionOnSet(Most', Name) <= SumFunctionOnSet(Most, Name) + d
  BY <1>1, SumGrows, RestartConstants
<1>3. SumFunctionOnSet(Most, Name) \in Int /\ SumFunctionOnSet(Most', Name) \in Int
  BY <1>1, SumType, RestartConstants
<1>4. ground \in Int /\ ground' \in Int /\ minted \in Int /\ minted' \in Int
  BY RestartConstants DEF TypeOK
<1> QED
  BY <1>2, <1>3, <1>4 DEF MoneyIsMinted

\* Coins go from one player to another.
LEMMA MoneyMoves ==
  ASSUME TypeOK, TypeOK', MoneyIsMinted, UNCHANGED <<ground, minted, file>>,
         NEW n \in Name, NEW m \in Name, n # m,
         (Most')[n] + (Most')[m] <= Most[n] + Most[m],
         \A x \in Name \ {n, m} : (Most')[x] <= Most[x]
  PROVE  MoneyIsMinted'
<1>1. Most \in [Name -> Int] /\ Most' \in [Name -> Int]
  BY MostIs, MostNext DEF MostFacts
<1>2. SumFunctionOnSet(Most', Name) <= SumFunctionOnSet(Most, Name)
  BY <1>1, SumMoves, RestartConstants
<1>3. SumFunctionOnSet(Most, Name) \in Int /\ SumFunctionOnSet(Most', Name) \in Int
  BY <1>1, SumType, RestartConstants
<1>4. ground \in Int /\ minted \in Int
  BY RestartConstants DEF TypeOK
<1> QED
  BY <1>2, <1>3, <1>4 DEF MoneyIsMinted

\* Nobody is worth more than before.
LEMMA MoneyKept ==
  ASSUME TypeOK, TypeOK', MoneyIsMinted, Wealth(file') <= minted', minted <= minted',
         ground' <= ground, \A x \in Name : (Most')[x] <= Most[x]
  PROVE  MoneyIsMinted'
<1>1. Most \in [Name -> Int] /\ Most' \in [Name -> Int]
  BY MostIs, MostNext DEF MostFacts
<1>2. SumFunctionOnSet(Most', Name) <= SumFunctionOnSet(Most, Name)
  BY <1>1, SumLeq, RestartConstants
<1>3. SumFunctionOnSet(Most, Name) \in Int /\ SumFunctionOnSet(Most', Name) \in Int
  BY <1>1, SumType, RestartConstants
<1>4. ground \in Int /\ ground' \in Int /\ minted \in Int /\ minted' \in Int
  BY RestartConstants DEF TypeOK
<1> QED
  BY <1>2, <1>3, <1>4 DEF MoneyIsMinted

----------------------------------------------------------------------------
(* What the commands keep of the invariant.                                *)

FirstFacts ==
  todo # <<>> => 1 \in DOMAIN todo /\ Head(todo) = todo[1]

LEMMA FirstNext ==
  TypeOK' => FirstFacts'
<1>1. TypeOK => FirstFacts
  BY FirstType DEF FirstFacts
<1> QED
  BY <1>1, PTL

\* With no save due, what is filed is on file.
LEMMA FiledIs ==
  ASSUME TypeOK, NEW n \in Name
  PROVE  /\ todo = <<>> => Filed(n) = file[n]
         /\ todo # <<>> /\ Head(todo).who # n => Filed(n) = file[n]
         /\ todo # <<>> /\ Head(todo).who = n => Filed(n) = Head(todo).sheet
BY DEF Filed, IsFirst

FiledFacts ==
  \A n \in Name :
         /\ todo = <<>> => Filed(n) = file[n]
         /\ todo # <<>> /\ Head(todo).who # n => Filed(n) = file[n]
         /\ todo # <<>> /\ Head(todo).who = n => Filed(n) = Head(todo).sheet

LEMMA FiledNext ==
  TypeOK' => FiledFacts'
<1>1. TypeOK => FiledFacts
  BY FiledIs DEF FiledFacts
<1> QED
  BY <1>1, PTL

\* A command that makes s of the sheet of n, who is worth d more by it, and
\* saves him, if he is not of level one; d is taken from the ground.
LEMMA OwnCommand ==
  ASSUME TypeInv, TypeInv', FilesInv, todo = <<>>, NEW n \in Name, Playing(n), NEW s \in Sheet,
         body' = [body EXCEPT ![n] = s], NEW d \in Int,
         todo' = Saves(n, s) \/ (todo' = <<>> /\ d = 0),
         s.level # 0, s.level = 1 => body[n].level = 1,
         Worth(s) <= Worth(body[n]) + d, ground' + d = ground,
         UNCHANGED <<file, minted>>, \A x \in Name : copy'[x] # Nil => copy'[x] = copy[x]
  PROVE  FilesInv'
<1> USE DEF TypeInv, FilesInv
<1>1. body'[n] = s /\ \A x \in Name \ {n} : body'[x] = body[x]
  BY DEF TypeOK
<1>2. \A i \in DOMAIN todo' : i = 1 /\ todo'[i].who = n /\ todo'[i].sheet = s /\ s.level # 1
  BY OneSave DEF SaveOf
<1>3. s # Nil /\ (body[n].level = 1 => Worth(file[n]) = 0)
  BY NilIs DEF NewcomersHaveNoFile
<1>4. FilesAreProper'
  BY <1>2 DEF FilesAreProper, Proper
<1>5. NewcomersHaveNoFile'
  BY <1>1, <1>3 DEF NewcomersHaveNoFile, Playing
<1>6. SavesAreOfPlayers'
  BY <1>1, <1>2 DEF SavesAreOfPlayers, Playing
<1>7. DialoguesAreFresh'
  BY <1>1, <1>2, <1>3 DEF DialoguesAreFresh, Playing, Loaded, Pending
<1>8. MoneyIsMinted'
  <2>1. MostFacts /\ MostFacts' /\ FiledFacts' /\ \A x \in Name : Filed(x) = file[x]
    BY MostIs, MostNext, FiledNext, FiledIs
  <2>2. todo' = <<>> \/ (todo' # <<>> /\ Head(todo').who = n /\ Head(todo').sheet = s)
    BY OneSave DEF SaveOf
  <2>3. ASSUME NEW x \in Name \ {n}
        PROVE  (Most')[x] <= Most[x]
    <3>1. (Filed(x))' = file[x] /\ body'[x] = body[x]
      BY <1>1, <2>1, <2>2 DEF FiledFacts
    <3>2. Most[x] \in Int /\ Worth(file[x]) <= Most[x] /\ Worth(body[x]) <= Most[x]
      BY <2>1 DEF MostFacts
    <3>3. Worth((Filed(x))') <= Most[x] /\ Worth(body'[x]) <= Most[x]
      BY <3>1, <3>2
    <3> QED
      BY <2>1, <3>2, <3>3, MostBound
  <2>4. (Most')[n] <= Most[n] + d
    <3>1. (Filed(n))' = s \/ ((Filed(n))' = file[n] /\ (d = 0 \/ Worth(file[n]) = 0))
      <4>1. CASE todo' # <<>>
        BY <2>1, <2>2, <4>1 DEF FiledFacts
      <4>2. CASE todo' = <<>>
        <5>1. d = 0 \/ s.level = 1
          BY <4>2, OneSave
        <5> QED
          BY <1>3, <2>1, <4>2, <5>1 DEF FiledFacts
      <4> QED
        BY <4>1, <4>2
    <3>2. /\ Most[n] \in Nat /\ Worth(file[n]) <= Most[n] /\ Worth(body[n]) <= Most[n]
          /\ Worth(body[n]) \in Nat /\ Worth(file[n]) \in Nat
      BY <2>1 DEF MostFacts
    <3>3. Worth(s) \in Nat
      BY NilIs
    <3>4. Most[n] + d \in Int /\ Worth(s) <= Most[n] + d
      BY <3>2, <3>3
    <3>5. Worth((Filed(n))') <= Most[n] + d
      <4>1. CASE (Filed(n))' = s
        BY <3>4, <4>1
      <4>2. CASE (Filed(n))' = file[n] /\ (d = 0 \/ Worth(file[n]) = 0)
        BY <3>2, <3>3, <3>4, <4>2
      <4> QED
        BY <3>1, <4>1, <4>2
    <3>6. Worth(body'[n]) <= Most[n] + d
      BY <1>1, <3>4
    <3> QED
      BY <2>1, <3>4, <3>5, <3>6, MostBound
  <2>5. ground' + d <= ground + minted' - minted /\ minted <= minted'
    <3>1. ground \in Int /\ minted \in Int
      BY RestartConstants DEF TypeOK
    <3>2. ground' + d = ground /\ minted' = minted
      OBVIOUS
    <3> QED
      BY <3>1, <3>2
  <2>6. Wealth(file') <= minted'
    BY DEF MoneyIsMinted
  <2> QED
    BY <2>3, <2>4, <2>5, <2>6, MoneyGrows
<1> QED
  BY <1>4, <1>5, <1>6, <1>7, <1>8

\* A command that takes n out of the game: he is saved, his file unlinked, or both.
LEMMA LeaveCommand ==
  ASSUME TypeInv, TypeInv', FilesInv, todo = <<>>, NEW n \in Name, Playing(n),
         body' = [body EXCEPT ![n] = Nil],
         \A x \in Name \ {n} : file'[x] = file[x],
         file'[n] = Nil \/ file'[n] = file[n],
         \A i \in DOMAIN todo' :
            /\ todo'[i].who = n /\ (i # 1 => todo'[i].sheet = Nil)
            /\ todo'[i].sheet = Nil \/ (todo'[i].sheet = body[n] /\ body[n].level # 1),
         UNCHANGED <<ground, minted>>,
         copy'[n] = Nil, \A x \in Name : copy'[x] # Nil => copy'[x] = copy[x]
  PROVE  FilesInv'
<1> USE DEF TypeInv, FilesInv
<1>1. body'[n] = Nil /\ (\A x \in Name \ {n} : body'[x] = body[x]) /\ body[n] \in Sheet /\ body[n].level # 0
  BY PlayingSheet DEF TypeOK, NewcomersHaveNoFile
<1>2. \A x \in Name : Worth(file'[x]) <= Worth(file[x]) /\ Proper(file'[x])
                      /\ Worth(file[x]) \in Nat /\ Worth(file'[x]) \in Nat
                      /\ (Worth(file[x]) = 0 => Worth(file'[x]) = 0)
  <2>1. \A x \in Name : Worth(file[x]) \in Nat
    BY PlayingSheet
  <2> QED
    BY <2>1, NilIs DEF FilesAreProper, Proper
<1>3. FilesAreProper'
  BY <1>1, <1>2 DEF FilesAreProper, Proper
<1>4. NewcomersHaveNoFile'
  BY <1>1, <1>2 DEF NewcomersHaveNoFile, Playing
<1>5. SavesAreOfPlayers'
  BY <1>1 DEF SavesAreOfPlayers, Playing
<1>6. DialoguesAreFresh'
  BY <1>1 DEF DialoguesAreFresh, Playing, Loaded, Pending
<1>7. MoneyIsMinted'
  <2>1. MostFacts /\ MostFacts' /\ FiledFacts' /\ \A x \in Name : Filed(x) = file[x]
    BY MostIs, MostNext, FiledNext, FiledIs
  <2>2. todo' = <<>> \/ (todo' # <<>> /\ Head(todo').who = n
                         /\ (Head(todo').sheet = Nil \/ Head(todo').sheet = body[n]))
    BY FirstNext DEF FirstFacts
  <2>3. ASSUME NEW x \in Name
        PROVE  (Most')[x] <= Most[x]
    <3>1. /\ Worth((Filed(x))') <= Worth(file[x]) \/ Worth((Filed(x))') <= Worth(body[x])
          /\ Worth(body'[x]) <= Worth(body[x])
      <4>1. \A y \in Name : Worth(body[y]) \in Nat
        BY PlayingSheet
      <4>2. CASE x = n
        BY <1>1, <1>2, <2>1, <2>2, <4>1, <4>2, NilIs DEF FiledFacts
      <4>3. CASE x # n
        BY <1>1, <1>2, <2>1, <2>2, <4>1, <4>3 DEF FiledFacts
      <4> QED
        BY <4>2, <4>3
    <3>2. /\ Worth((Filed(x))') \in Nat /\ Worth(body'[x]) \in Nat
          /\ Worth(file[x]) \in Nat /\ Worth(body[x]) \in Nat /\ Most[x] \in Nat
          /\ Worth(file[x]) <= Most[x] /\ Worth(body[x]) <= Most[x]
      BY <2>1 DEF MostFacts
    <3>3. Worth((Filed(x))') <= Most[x] /\ Worth(body'[x]) <= Most[x] /\ Most[x] \in Int
      BY <3>1, <3>2
    <3> QED
      BY <2>1, <3>3, MostBound
  <2>4. minted <= minted' /\ ground' <= ground
    BY RestartConstants DEF TypeOK
  <2>5. Wealth(file') <= minted'
    BY <1>2, <2>4, FilesKept
  <2> QED
    BY <2>3, <2>4, <2>5, MoneyKept
<1> QED
  BY <1>3, <1>4, <1>5, <1>6, <1>7

\* Where nobody's sheet and no file changes, and no save is due.
LEMMA QuietCommand ==
  ASSUME TypeInv, TypeInv', FilesInv, todo = <<>>, todo' = <<>>, UNCHANGED <<file, body, ground, minted>>,
         \A x \in Name : copy'[x] # Nil /\ body[x] = Nil => copy'[x] = copy[x] \/ copy'[x] = Loaded(x)
  PROVE  FilesInv'
<1> USE DEF TypeInv, FilesInv
<1>1. FilesAreProper' /\ NewcomersHaveNoFile' /\ SavesAreOfPlayers'
  BY DEF FilesAreProper, Proper, NewcomersHaveNoFile, SavesAreOfPlayers, Playing
<1>2. DialoguesAreFresh'
  BY DEF DialoguesAreFresh, Playing, Loaded, Pending
<1>3. MoneyIsMinted'
  BY DEF MoneyIsMinted, Most, Filed, IsFirst
<1> QED
  BY <1>1, <1>2, <1>3

LEMMA DialogueKeeps ==
  ASSUME Careful, IInv, NEW n \in Name, Dialogue(n)
  PROVE  IInv'
<1> USE DEF IInv, TypeInv, FilesInv
<1>1. TypeInv'
  BY DialogueTypes
<1>2. todo = <<>> /\ UNCHANGED <<task, handed, file>> /\ task = "idle"
  BY DEF Dialogue, GetName, GiveUp, DialogueBreaks, Reconnect, ReadMotd, Idle, disk
<1>3. HandedAreSaved'
  BY <1>2 DEF HandedAreSaved
<1>4. \A x \in Name \ {n} : copy'[x] = copy[x]
  BY DEF Dialogue, GetName, GiveUp, DialogueBreaks, Reconnect, ReadMotd, TypeOK
<1>5. CASE GetName(n)
  <2>1. copy'[n] = Loaded(n)
    BY <1>5 DEF GetName, TypeOK
  <2> QED
    BY <1>1, <1>2, <1>3, <1>4, <1>5, <2>1, QuietCommand DEF GetName, disk
<1>6. CASE GiveUp(n) \/ Reconnect(n)
  <2>1. copy'[n] = Nil
    BY <1>6 DEF GiveUp, Reconnect, TypeOK
  <2> QED
    BY <1>1, <1>2, <1>3, <1>4, <1>6, <2>1, QuietCommand DEF GiveUp, Reconnect, disk
<1>7. ASSUME copy[n] # Nil, ~Playing(n)
      PROVE  copy[n] = Loaded(n) /\ copy[n] \in Sheet /\ Worth(copy[n]) = Worth(file[n])
             /\ Proper(copy[n])
  BY <1>7, NilIs, PlayingSheet DEF DialoguesAreFresh, Loaded, FilesAreProper, Proper, Unborn
<1>8. CASE DialogueBreaks(n)
  <2>1. PICK s \in Sheet : s = copy[n] /\ Worth(s) = Worth(file[n]) /\ Proper(s)
    BY <1>7, <1>8 DEF DialogueBreaks, Careful
  <2>2. \A i \in DOMAIN todo' : i = 1 /\ todo'[i].who = n /\ todo'[i].sheet = s
    BY <1>8, <2>1, OneSave DEF DialogueBreaks, SaveOf
  <2>3. ~Playing(n) /\ copy'[n] = Nil /\ UNCHANGED <<body, ground, minted>>
    BY <1>8 DEF DialogueBreaks, Careful, TypeOK
  <2>4. FilesAreProper' /\ NewcomersHaveNoFile' /\ SavesAreOfPlayers'
    BY <1>2, <2>1, <2>2, <2>3 DEF FilesAreProper, Proper, NewcomersHaveNoFile, SavesAreOfPlayers, Playing
  <2>5. DialoguesAreFresh'
    BY <1>2, <1>4, <2>2, <2>3 DEF DialoguesAreFresh, Playing, Loaded, Pending
  <2>6. MoneyIsMinted'
    <3>1. MostFacts /\ MostFacts' /\ FiledFacts' /\ \A x \in Name : Filed(x) = file[x]
      BY <1>1, <1>2, MostIs, MostNext, FiledNext, FiledIs
    <3>2. todo' = <<>> \/ (todo' # <<>> /\ Head(todo').who = n /\ Head(todo').sheet = s)
      BY <1>1, <2>2, FirstNext DEF FirstFacts
    <3>3. ASSUME NEW x \in Name
          PROVE  (Most')[x] <= Most[x]
      <4>1. Worth((Filed(x))') = Worth(file[x]) /\ body'[x] = body[x]
        BY <1>2, <2>1, <2>3, <3>1, <3>2 DEF FiledFacts
      <4>2. Most[x] \in Int /\ Worth(file[x]) <= Most[x] /\ Worth(body[x]) <= Most[x]
        BY <3>1 DEF MostFacts
      <4>3. Worth((Filed(x))') <= Most[x] /\ Worth(body'[x]) <= Most[x]
        BY <4>1, <4>2
      <4> QED
        BY <3>1, <4>2, <4>3, MostBound
    <3>4. Wealth(file') <= minted' /\ minted <= minted' /\ ground' <= ground
      BY <1>2, <2>3, RestartConstants DEF MoneyIsMinted, TypeOK
    <3> QED
      BY <1>1, <3>3, <3>4, MoneyKept
  <2> QED
    BY <1>1, <1>3, <2>4, <2>5, <2>6
<1>9. CASE ReadMotd(n)
  <2>1. PICK s \in Sheet, d \in {0, Gift} :
          /\ body' = [body EXCEPT ![n] = s] /\ minted' = minted + d /\ s.level # 0
          /\ s.level = 1 => Worth(file[n]) = 0
          /\ Worth(s) = Worth(file[n]) + d
    <3>1. CASE copy[n].level = 0
      <4>1. copy[n] \in Sheet /\ copy[n].bank = 0 /\ Worth(file[n]) = 0
        <5>1. copy[n] \in Sheet /\ copy[n] # Nil /\ Worth(copy[n]) = 0 /\ Worth(file[n]) = 0
          BY <1>7, <1>9, <3>1 DEF ReadMotd, Proper
        <5>2. copy[n].gold \in Nat /\ copy[n].bank \in Nat /\ copy[n].gold + copy[n].bank = 0
          BY <5>1, NilIs DEF Sheet
        <5> QED
          BY <5>1, <5>2
      <4>2. PICK t \in Sheet : t = [copy[n] EXCEPT !.level = 1, !.gold = Gift]
                               /\ t.level = 1 /\ Worth(t) = Gift + 0
        BY <4>1, NewcomerType
      <4>3. body' = [body EXCEPT ![n] = t] /\ minted' = minted + Gift
        BY <1>9, <3>1, <4>2 DEF ReadMotd
      <4>4. Worth(t) = Worth(file[n]) + Gift
        BY <4>1, <4>2, RestartConstants
      <4>5. /\ Gift \in {0, Gift} /\ t.level # 0
            /\ t.level = 1 => Worth(file[n]) = 0
        BY <4>1, <4>2
      <4> QED
        BY <4>3, <4>4, <4>5
    <3>2. CASE copy[n].level # 0
      <4>1. copy[n] \in Sheet /\ Worth(copy[n]) = Worth(file[n]) + 0 /\ copy[n].level # 1
            /\ minted = minted + 0 /\ 0 \in {0, Gift}
        <5>1. copy[n] \in Sheet /\ copy[n] # Nil /\ Worth(copy[n]) = Worth(file[n]) /\ copy[n].level # 1
          BY <1>7, <1>9 DEF ReadMotd, Proper
        <5>2. Worth(file[n]) \in Nat /\ minted \in Int
          BY PlayingSheet, RestartConstants DEF TypeOK
        <5> QED
          BY <5>1, <5>2
      <4>2. body' = [body EXCEPT ![n] = copy[n]] /\ minted' = minted
        BY <1>9, <3>2 DEF ReadMotd
      <4> QED
        BY <3>2, <4>1, <4>2
    <3> QED
      BY <3>1, <3>2
  <2>2. /\ ~Playing(n) /\ copy'[n] = Nil /\ UNCHANGED <<todo, ground>>
        /\ body'[n] = s /\ \A x \in Name \ {n} : body'[x] = body[x]
    BY <1>9, <2>1 DEF ReadMotd, disk, TypeOK
  <2>3. FilesAreProper' /\ NewcomersHaveNoFile' /\ SavesAreOfPlayers'
    BY <1>2, <2>1, <2>2 DEF FilesAreProper, Proper, NewcomersHaveNoFile, SavesAreOfPlayers, Playing
  <2>4. DialoguesAreFresh'
    BY <1>2, <1>4, <2>2 DEF DialoguesAreFresh, Playing, Loaded, Pending
  <2>5. MoneyIsMinted'
    <3>1. MostFacts /\ MostFacts' /\ \A x \in Name : Filed(x) = file[x] /\ (Filed(x))' = file[x]
      BY <1>1, <1>2, <2>2, MostIs, MostNext, FiledNext, FiledIs DEF FiledFacts
    <3>2. d \in Int /\ d >= 0 /\ Worth(file[n]) \in Nat
      BY PlayingSheet, RestartConstants
    <3>3. ASSUME NEW x \in Name \ {n}
          PROVE  (Most')[x] <= Most[x]
      <4>1. (Filed(x))' = file[x] /\ body'[x] = body[x]
        BY <2>2, <3>1
      <4>2. Most[x] \in Int /\ Worth(file[x]) <= Most[x] /\ Worth(body[x]) <= Most[x]
        BY <3>1 DEF MostFacts
      <4> QED
        BY <3>1, <4>1, <4>2, MostBound
    <3>4. (Most')[n] <= Most[n] + d
      <4>1. Most[n] \in Int /\ Worth(file[n]) <= Most[n]
        BY <3>1 DEF MostFacts
      <4>2. Worth(file[n]) <= Most[n] + d /\ Worth(s) <= Most[n] + d /\ Most[n] + d \in Int
        BY <2>1, <3>2, <4>1
      <4> QED
        BY <2>2, <3>1, <4>2, MostBound
    <3>5. minted \in Int /\ ground \in Int /\ ground' = ground /\ minted' = minted + d
      BY <2>1, <2>2, RestartConstants DEF TypeOK
    <3>6. ground' + d <= ground + minted' - minted /\ minted <= minted'
      BY <3>2, <3>5
    <3>7. Wealth(file') <= minted'
      <4>1. Wealth(file) <= minted /\ file' = file
        BY <1>2 DEF MoneyIsMinted
      <4>2. Wealth(file) \in Int
        BY PlayingSheet, WealthIs
      <4> QED
        BY <3>2, <3>5, <4>1, <4>2
    <3> QED
      BY <1>1, <3>2, <3>3, <3>4, <3>6, <3>7, MoneyGrows
  <2> QED
    BY <1>1, <1>3, <2>3, <2>4, <2>5
<1> QED
  BY <1>5, <1>6, <1>8, <1>9 DEF Dialogue

\* A gift of coins: the giver is saved before the receiver.
LEMMA PayKeeps ==
  ASSUME Careful, IInv, TypeInv', NEW p \in Name, NEW q \in Name, NEW k \in Amounts, Pay(p, q, k)
  PROVE  FilesInv'
<1> USE DEF IInv, TypeInv, FilesInv
<1>1. PICK a, b \in Sheet :
           /\ p # q /\ Playing(p) /\ Playing(q) /\ Idle
           /\ body' = [body EXCEPT ![p] = a, ![q] = b]
           /\ a.level = body[p].level /\ Worth(a) = Worth(body[p]) - k
           /\ b.level = body[q].level /\ Worth(b) = Worth(body[q]) + k
           /\ SavesBoth(todo', p, a, q, b)
           /\ UNCHANGED <<file, temp, linked, copy, ground, task, handed, minted>>
  BY PayTypes DEF Careful, SavesBoth
<1>2. /\ body'[p] = a /\ body'[q] = b /\ \A x \in Name \ {p, q} : body'[x] = body[x]
      /\ a # Nil /\ b # Nil /\ body[p] # Nil /\ body[q] # Nil /\ k \in Nat /\ todo = <<>>
  BY <1>1, NilIs, RestartConstants DEF TypeOK, Playing, Amounts, Idle
<1>3. /\ a.level # 0 /\ (a.level = 1 => Worth(file[p]) = 0)
      /\ b.level # 0 /\ (b.level = 1 => Worth(file[q]) = 0)
  BY <1>1, <1>2 DEF NewcomersHaveNoFile, Playing
<1>4. \A i \in DOMAIN todo' :
        \/ i = 1 /\ todo'[i].who = p /\ todo'[i].sheet = a /\ a.level # 1
        \/ todo'[i].who = q /\ todo'[i].sheet = b /\ b.level # 1
  <2>1. \A i \in DOMAIN todo' : \/ i = 1 /\ todo'[i] = SaveOf(p, a) /\ a.level # 1
                                \/ todo'[i] = SaveOf(q, b) /\ b.level # 1 /\ (i = 1 => a.level = 1)
    BY <1>1, TwoSaves
  <2> QED
    BY <2>1 DEF SaveOf
<1>5. \/ todo' = <<>> /\ a.level = 1 /\ b.level = 1
      \/ todo' # <<>> /\ Head(todo').who = p /\ Head(todo').sheet = a
      \/ todo' # <<>> /\ a.level = 1 /\ Head(todo').who = q /\ Head(todo').sheet = b
  <2>1. /\ a.level # 1 => todo' # <<>> /\ Head(todo') = SaveOf(p, a)
        /\ a.level = 1 /\ b.level # 1 => todo' # <<>> /\ Head(todo') = SaveOf(q, b)
        /\ a.level = 1 /\ b.level = 1 => todo' = <<>>
    BY <1>1, TwoSaves
  <2> QED
    BY <2>1 DEF SaveOf
<1>6. FilesAreProper'
  BY <1>1, <1>3, <1>4 DEF FilesAreProper, Proper
<1>7. NewcomersHaveNoFile'
  BY <1>1, <1>2, <1>3 DEF NewcomersHaveNoFile, Playing
<1>8. SavesAreOfPlayers'
  BY <1>2, <1>4 DEF SavesAreOfPlayers, Playing
<1>9. DialoguesAreFresh'
  BY <1>1, <1>2, <1>4 DEF DialoguesAreFresh, Playing, Loaded, Pending
<1>10. MoneyIsMinted'
  <2>1. MostFacts /\ MostFacts' /\ FiledFacts' /\ \A x \in Name : Filed(x) = file[x]
    BY <1>2, MostIs, MostNext, FiledNext, FiledIs
  <2>2. ASSUME NEW x \in Name
        PROVE  /\ Most[x] \in Int /\ Worth(file[x]) <= Most[x] /\ Worth(body[x]) <= Most[x]
               /\ (Most')[x] \in Int /\ Worth(file[x]) \in Nat /\ Worth(body[x]) \in Nat
    BY <2>1 DEF MostFacts
  <2>3. ASSUME NEW x \in Name \ {p, q}
        PROVE  (Most')[x] <= Most[x]
    <3>1. (Filed(x))' = file[x] /\ body'[x] = body[x]
      BY <1>1, <1>2, <1>5, <2>1 DEF FiledFacts
    <3> QED
      BY <2>1, <2>2, <3>1, MostBound
  <2>4. (Most')[p] <= Most[p] - k
    <3>1. (Filed(p))' = a \/ ((Filed(p))' = file[p] /\ Worth(file[p]) = 0)
      BY <1>1, <1>3, <1>5, <2>1 DEF FiledFacts
    <3>2. Worth(a) \in Nat /\ Worth(a) <= Most[p] - k /\ Most[p] - k \in Int
      BY <1>1, <1>2, <2>2, NilIs
    <3>3. Worth((Filed(p))') <= Most[p] - k
      BY <3>1, <3>2
    <3> QED
      BY <1>2, <2>1, <3>2, <3>3, MostBound
  <2>5. (Most')[q] <= Most[q] + k
    <3>1. (Filed(q))' = b \/ (Filed(q))' = file[q]
      BY <1>1, <1>5, <2>1 DEF FiledFacts
    <3>2. Worth(b) <= Most[q] + k /\ Worth(file[q]) <= Most[q] + k /\ Most[q] + k \in Int
      BY <1>1, <1>2, <2>2, NilIs
    <3>3. Worth((Filed(q))') <= Most[q] + k
      BY <3>1, <3>2
    <3> QED
      BY <1>2, <2>1, <3>2, <3>3, MostBound
  <2>6. (Most')[p] + (Most')[q] <= Most[p] + Most[q]
    BY <1>2, <2>2, <2>4, <2>5
  <2> QED
    BY <1>1, <2>3, <2>6, MoneyMoves
<1> QED
  BY <1>6, <1>7, <1>8, <1>9, <1>10

\* A new name: the old file goes, then the new one is written.
LEMMA RenameKeeps ==
  ASSUME Careful, IInv, TypeInv', NEW n \in Name, NEW m \in Name, RenamePlayer(n, m)
  PROVE  FilesInv'
<1> USE DEF IInv, TypeInv, FilesInv
<1>1. PICK s \in Sheet : s = body[n]
  BY PlayingSheet DEF RenamePlayer
<1>2. /\ n # m /\ body'[n] = Nil /\ body'[m] = s /\ \A x \in Name \ {n, m} : body'[x] = body[x]
      /\ file[m] = Nil /\ body[m] = Nil /\ copy[n] = Nil /\ copy[m] = Nil /\ s # Nil
      /\ todo = <<>> /\ UNCHANGED <<file, temp, copy, ground, task, handed, minted>>
  BY <1>1, NilIs DEF RenamePlayer, Playing, Idle, Careful, TypeOK
<1>3. s.level # 0
  BY <1>1, <1>2 DEF NewcomersHaveNoFile, Playing
<1>4. /\ \A i \in DOMAIN todo' :
           \/ i = 1 /\ todo'[i].who = n /\ todo'[i].sheet = Nil
           \/ todo'[i].who = m /\ todo'[i].sheet = s /\ s.level # 1
      /\ todo' # <<>> /\ Head(todo').who = n /\ Head(todo').sheet = Nil
  <2>1. todo' = Unlinks(n) \o Saves(m, s)
    BY <1>1 DEF RenamePlayer
  <2>2. /\ \A i \in DOMAIN todo' : \/ i = 1 /\ todo'[i] = SaveOf(n, Nil)
                                   \/ i = 2 /\ todo'[i] = SaveOf(m, s) /\ s.level # 1
        /\ todo' # <<>> /\ Head(todo') = SaveOf(n, Nil)
    BY <2>1, UnlinkAndSave
  <2> QED
    BY <2>2 DEF SaveOf
<1>5. FilesAreProper'
  BY <1>2, <1>3, <1>4 DEF FilesAreProper, Proper
<1>6. NewcomersHaveNoFile'
  BY <1>2, <1>3, NilIs DEF NewcomersHaveNoFile, Playing
<1>7. SavesAreOfPlayers'
  BY <1>2, <1>4 DEF SavesAreOfPlayers, Playing
<1>8. DialoguesAreFresh'
  BY <1>2, <1>4 DEF DialoguesAreFresh, Playing, Loaded, Pending
<1>9. MoneyIsMinted'
  <2>1. MostFacts /\ MostFacts' /\ FiledFacts' /\ \A x \in Name : Filed(x) = file[x]
    BY <1>2, MostIs, MostNext, FiledNext, FiledIs
  <2>2. ASSUME NEW x \in Name
        PROVE  /\ Most[x] \in Int /\ Worth(file[x]) <= Most[x] /\ Worth(body[x]) <= Most[x]
               /\ (Most')[x] \in Int /\ Worth(file[x]) \in Nat /\ Worth(body[x]) \in Nat
    BY <2>1 DEF MostFacts
  <2>3. ASSUME NEW x \in Name \ {n, m}
        PROVE  (Most')[x] <= Most[x]
    <3>1. (Filed(x))' = file[x] /\ body'[x] = body[x]
      BY <1>2, <1>4, <2>1 DEF FiledFacts
    <3> QED
      BY <2>1, <2>2, <3>1, MostBound
  <2>4. (Most')[n] <= 0
    BY <1>2, <1>4, <2>1, NilIs, MostBound DEF FiledFacts
  <2>5. (Most')[m] <= Most[n]
    <3>1. (Filed(m))' = Nil
      BY <1>2, <1>4, <2>1 DEF FiledFacts
    <3>2. Worth((Filed(m))') <= Most[n] /\ Worth(body'[m]) <= Most[n]
      BY <1>1, <1>2, <2>2, <3>1, NilIs
    <3> QED
      BY <2>1, <2>2, <3>2, MostBound
  <2>6. (Most')[n] + (Most')[m] <= Most[n] + Most[m]
    BY <2>2, <2>4, <2>5
  <2> QED
    BY <1>2, <2>3, <2>6, MoneyMoves
<1> QED
  BY <1>5, <1>6, <1>7, <1>8, <1>9

LEMMA PlayKeeps ==
  ASSUME Careful, IInv, NEW n \in Name, Play(n)
  PROVE  IInv'
<1> USE DEF IInv
<1>1. TypeInv'
  BY PlayTypes
<1>2. task = "idle" /\ todo = <<>> /\ UNCHANGED <<task, handed>>
  BY PayTypes DEF Play, LoseLink, Quit, Save, GainLevel, GetCoins, DropCoins, Banks, Delete, Fry,
                  RenamePlayer, Pay, Idle
<1>3. HandedAreSaved'
  BY <1>2 DEF HandedAreSaved
<1>4. TypeOK /\ ground \in Int /\ 0 \in Int
  BY DEF TypeInv, TypeOK
<1>5. ASSUME Playing(n)
      PROVE  /\ body[n] \in Sheet /\ body = [body EXCEPT ![n] = body[n]]
             /\ Worth(body[n]) \in Int /\ body[n].level # 0 /\ Worth(body[n]) <= Worth(body[n]) + 0
             /\ ground + 0 = ground
  <2>1. body[n] \in Sheet /\ body = [body EXCEPT ![n] = body[n]] /\ Worth(body[n]) \in Nat
    BY <1>4, <1>5, PlayingSheet DEF TypeOK
  <2>2. body[n].level # 0
    BY <1>5 DEF FilesInv, NewcomersHaveNoFile
  <2> QED
    BY <1>4, <2>1, <2>2
<1>6. CASE LoseLink(n)
  <2>1. Playing(n)
    BY <1>4, <1>6 DEF LoseLink, Playing, TypeOK
  <2>2. UNCHANGED <<file, body, copy, ground, minted>> /\ todo' = Saves(n, body[n])
    BY <1>6 DEF LoseLink
  <2> QED
    BY <1>1, <1>2, <1>3, <1>4, <1>5, <2>1, <2>2, OwnCommand
<1>7. CASE Save(n)
  <2>1. Playing(n) /\ UNCHANGED <<file, body, copy, ground, minted>> /\ todo' = Saves(n, body[n])
    BY <1>7 DEF Save, game
  <2> QED
    BY <1>1, <1>2, <1>3, <1>4, <1>5, <2>1, OwnCommand
<1>8. CASE GainLevel(n)
  <2>1. PICK s \in Sheet : /\ body' = [body EXCEPT ![n] = s] /\ todo' = Saves(n, s)
                           /\ s.level = 2 /\ Worth(s) = Worth(body[n])
    BY <1>4, <1>8, GainTypes
  <2>2. Playing(n) /\ UNCHANGED <<file, copy, ground, minted>>
    BY <1>8 DEF GainLevel
  <2>3. Worth(s) <= Worth(body[n]) + 0 /\ ground' + 0 = ground /\ s.level # 0 /\ s.level # 1
    BY <1>5, <2>1, <2>2
  <2> QED
    BY <1>1, <1>2, <1>3, <1>4, <2>1, <2>2, <2>3, OwnCommand
<1>9. CASE GetCoins(n)
  <2>1. PICK s \in Sheet : /\ body' = [body EXCEPT ![n] = s] /\ todo' = Saves(n, s)
                           /\ s.level = body[n].level /\ Worth(s) = Worth(body[n]) + ground
                           /\ ground' = 0
    BY <1>4, <1>9, GetTypes
  <2>2. Playing(n) /\ UNCHANGED <<file, copy, minted>>
    BY <1>9 DEF GetCoins
  <2>3. Worth(s) <= Worth(body[n]) + ground /\ ground' + ground = ground /\ s.level # 0
    BY <1>4, <1>5, <2>1, <2>2
  <2> QED
    BY <1>1, <1>2, <1>3, <1>4, <2>1, <2>2, <2>3, OwnCommand
<1>10. ASSUME NEW k \in Amounts, DropCoins(n, k)
       PROVE  FilesInv'
  <2>1. PICK s \in Sheet : /\ body' = [body EXCEPT ![n] = s] /\ todo' = Saves(n, s)
                           /\ s.level = body[n].level /\ Worth(s) = Worth(body[n]) - k
                           /\ ground' = ground + k /\ k \in Nat
    BY <1>4, <1>10, DropTypes
  <2>2. Playing(n) /\ UNCHANGED <<file, copy, minted>>
    BY <1>10 DEF DropCoins
  <2>3. PICK d \in Int : d = -k
    BY <2>1
  <2>4. Worth(s) <= Worth(body[n]) + d /\ ground' + d = ground /\ s.level # 0
    BY <1>4, <1>5, <2>1, <2>2, <2>3
  <2> QED
    BY <1>1, <1>2, <2>1, <2>2, <2>4, OwnCommand
<1>11. ASSUME NEW k \in Int, Banks(n, k)
       PROVE  FilesInv'
  <2>1. PICK s \in Sheet : /\ body' = [body EXCEPT ![n] = s]
                           /\ s.level = body[n].level /\ Worth(s) <= Worth(body[n])
    BY <1>4, <1>11, BankTypes
  <2>2. Playing(n) /\ UNCHANGED <<file, copy, minted, ground>> /\ todo' = <<>>
    BY <1>2, <1>11 DEF Banks, disk
  <2>3. Worth(s) <= Worth(body[n]) + 0 /\ ground' + 0 = ground /\ s.level # 0
    BY <1>4, <1>5, <2>1, <2>2
  <2> QED
    BY <1>1, <1>2, <1>4, <2>1, <2>2, <2>3, OwnCommand
<1>12. CASE Quit(n)
  <2>1. /\ Playing(n) /\ body' = [body EXCEPT ![n] = Nil] /\ todo' = Saves(n, body[n])
        /\ UNCHANGED <<ground, minted>> /\ copy' = [copy EXCEPT ![n] = Nil]
        /\ file' = file \/ file' = [file EXCEPT ![n] = Nil]
    BY <1>12 DEF Quit, Leave, Careful
  <2>2. /\ \A x \in Name \ {n} : file'[x] = file[x]
        /\ file'[n] = Nil \/ file'[n] = file[n]
        /\ copy'[n] = Nil /\ \A x \in Name : copy'[x] # Nil => copy'[x] = copy[x]
    BY <1>4, <2>1 DEF TypeOK
  <2>3. \A i \in DOMAIN todo' : i = 1 /\ todo'[i].who = n /\ todo'[i].sheet = body[n] /\ body[n].level # 1
    BY <1>5, <2>1, OneSave DEF SaveOf
  <2> QED
    BY <1>1, <1>2, <1>3, <2>1, <2>2, <2>3, LeaveCommand
<1>13. CASE Fry(n)
  <2>1. /\ Playing(n) /\ body' = [body EXCEPT ![n] = Nil] /\ todo' = Saves(n, body[n]) \o Unlinks(n)
        /\ UNCHANGED <<file, ground, minted, copy>> /\ copy[n] = Nil
    BY <1>13 DEF Fry, fry_char, Careful
  <2>2. \A i \in DOMAIN todo' :
            /\ todo'[i].who = n /\ (i # 1 => todo'[i].sheet = Nil)
            /\ todo'[i].sheet = Nil \/ (todo'[i].sheet = body[n] /\ body[n].level # 1)
    <3>1. body[n] \in Sheet
      BY <1>5, <2>1
    <3>2. /\ \A i \in DOMAIN todo' : todo'[i] \in {SaveOf(n, body[n]), SaveOf(n, Nil)}
                                     /\ (body[n].level = 1 => todo'[i] = SaveOf(n, Nil))
          /\ \A i \in DOMAIN todo' : i # 1 => todo'[i] = SaveOf(n, Nil)
      <4>1. SavesAndUnlinks(todo', n, body[n])
        BY <2>1 DEF SavesAndUnlinks
      <4> QED
        BY <3>1, <4>1, SaveAndUnlink
    <3> QED
      BY <3>2 DEF SaveOf
  <2> QED
    BY <1>1, <1>2, <1>3, <2>1, <2>2, LeaveCommand
<1>14. CASE Delete(n)
  <2>1. Playing(n) /\ UNCHANGED <<file, ground, minted>>
    BY <1>4, <1>14 DEF Delete, Playing, TypeOK
  <2>2. CASE /\ body' = [body EXCEPT ![n] = Nil] /\ copy' = [copy EXCEPT ![n] = Nil]
             /\ todo' = Saves(n, body[n]) \o Unlinks(n)
    <3>1. body[n] \in Sheet
      BY <1>5, <2>1
    <3>2. /\ \A i \in DOMAIN todo' : todo'[i] \in {SaveOf(n, body[n]), SaveOf(n, Nil)}
                                     /\ (body[n].level = 1 => todo'[i] = SaveOf(n, Nil))
          /\ \A i \in DOMAIN todo' : i # 1 => todo'[i] = SaveOf(n, Nil)
      <4>1. SavesAndUnlinks(todo', n, body[n])
        BY <2>2 DEF SavesAndUnlinks
      <4> QED
        BY <3>1, <4>1, SaveAndUnlink
    <3>3. \A i \in DOMAIN todo' :
            /\ todo'[i].who = n /\ (i # 1 => todo'[i].sheet = Nil)
            /\ todo'[i].sheet = Nil \/ (todo'[i].sheet = body[n] /\ body[n].level # 1)
      BY <3>2 DEF SaveOf
    <3>4. copy'[n] = Nil /\ \A x \in Name : copy'[x] # Nil => copy'[x] = copy[x]
      BY <1>4, <2>2 DEF TypeOK
    <3> QED
      BY <1>1, <1>2, <1>3, <2>1, <2>2, <3>3, <3>4, LeaveCommand
  <2>3. CASE todo' = Unlinks(n) /\ UNCHANGED <<body, copy>>
    <3>1. (\A i \in DOMAIN todo' : i = 1 /\ todo'[i].who = n /\ todo'[i].sheet = Nil)
          /\ todo' # <<>> /\ Head(todo').who = n /\ Head(todo').sheet = Nil
      BY <2>3, UnlinksAre DEF SaveOf
    <3>2. FilesAreProper' /\ NewcomersHaveNoFile' /\ SavesAreOfPlayers' /\ DialoguesAreFresh'
      BY <1>2, <2>1, <2>3, <3>1 DEF FilesInv, FilesAreProper, Proper, NewcomersHaveNoFile, Playing,
                                    SavesAreOfPlayers, DialoguesAreFresh, Loaded, Pending
    <3>3. MoneyIsMinted'
      <4>1. MostFacts /\ MostFacts' /\ FiledFacts' /\ \A x \in Name : Filed(x) = file[x]
        BY <1>1, <1>2, <1>4, MostIs, MostNext, FiledNext, FiledIs DEF TypeInv
      <4>2. ASSUME NEW x \in Name
            PROVE  (Most')[x] <= Most[x]
        <5>1. (Filed(x))' \in {Nil, file[x]} /\ body'[x] = body[x]
          BY <2>1, <2>3, <3>1, <4>1 DEF FiledFacts
        <5>2. /\ Most[x] \in Int /\ Worth(file[x]) <= Most[x] /\ Worth(body[x]) <= Most[x]
              /\ 0 <= Most[x]
          BY <4>1 DEF MostFacts
        <5>3. Worth((Filed(x))') <= Most[x] /\ Worth(body'[x]) <= Most[x]
          BY <5>1, <5>2, NilIs
        <5> QED
          BY <4>1, <5>2, <5>3, MostBound
      <4>3. Wealth(file') <= minted' /\ minted <= minted' /\ ground' <= ground /\ MoneyIsMinted
        BY <1>4, <2>1, RestartConstants DEF FilesInv, MoneyIsMinted, TypeOK
      <4> QED
        BY <1>1, <1>4, <4>2, <4>3, MoneyKept DEF TypeInv
    <3> QED
      BY <1>1, <1>3, <3>2, <3>3 DEF FilesInv
  <2> QED
    BY <1>14, <2>2, <2>3 DEF Delete
<1> QED
  <2>1. \A k \in Amounts : k \in Int /\ -k \in Int
    BY RestartConstants DEF Amounts
  <2> QED
    BY <2>1, <1>1, <1>3, <1>6, <1>7, <1>8, <1>9, <1>10, <1>11, <1>12, <1>13, <1>14,
       PayKeeps, RenameKeeps DEF Play

\* The first save of the row is done: f is on file.
LEMMA FirstSaveKeeps ==
  ASSUME IInv, TypeInv', todo # <<>>, NEW f \in Sheet \cup {Nil},
         Head(todo).sheet = Nil => f = Nil,
         Head(todo).sheet # Nil => /\ f # Nil /\ f.level = Head(todo).sheet.level
                                   /\ Worth(f) <= Worth(Head(todo).sheet),
         file' = [file EXCEPT ![Head(todo).who] = f], todo' = Tail(todo),
         UNCHANGED <<game, task, handed, minted>>
  PROVE  IInv'
<1> USE DEF IInv, TypeInv, FilesInv
<1>1. PICK n \in Name, s \in Sheet \cup {Nil} : n = Head(todo).who /\ s = Head(todo).sheet
  BY FirstType
<1>2. /\ n = todo[1].who /\ s = todo[1].sheet /\ 1 \in DOMAIN todo
      /\ \A i \in DOMAIN todo' : i + 1 \in DOMAIN todo /\ todo'[i] = todo[i + 1] /\ i + 1 # 1
      /\ \A i \in DOMAIN todo : i # 1 => i - 1 \in DOMAIN todo' /\ todo'[i - 1] = todo[i]
      /\ todo' # <<>> => Head(todo') = todo[2] /\ 2 \in DOMAIN todo
      /\ \A i \in DOMAIN todo : todo[i].who \in Name /\ todo[i].sheet \in Sheet \cup {Nil}
  BY <1>1, FirstType
<1>3. /\ file'[n] = f /\ (\A x \in Name \ {n} : file'[x] = file[x])
      /\ body' = body /\ copy' = copy /\ linked' = linked /\ ground' = ground
  BY <1>1 DEF game, TypeOK
<1>4. Proper(s) /\ Proper(f)
  <2>1. Proper(s)
    BY <1>2 DEF FilesAreProper
  <2>2. Worth(f) \in Nat /\ Worth(s) \in Nat
    BY NilIs
  <2> QED
    BY <1>1, <2>1, <2>2 DEF Proper
<1>5. FilesAreProper'
  BY <1>2, <1>3, <1>4 DEF FilesAreProper, Proper
<1>6. NewcomersHaveNoFile'
  <2>1. Playing(n) /\ body[n].level = 1 => f = Nil
    BY <1>1, <1>2, <1>4, NilIs DEF SavesAreOfPlayers, Proper
  <2> QED
    BY <1>3, <2>1, NilIs DEF NewcomersHaveNoFile, Playing
<1>7. SavesAreOfPlayers'
  BY <1>2, <1>3 DEF SavesAreOfPlayers, Playing
<1>8. DialoguesAreFresh'
  BY <1>2, <1>3 DEF DialoguesAreFresh, Playing, Loaded, Pending
<1>9. HandedAreSaved'
  <2>1. ASSUME task = "copyover"
        PROVE  /\ \A x \in handed : IsSaved(body[x]) /\ (Pending(x)' \/ IsSaved(file'[x]))
               /\ \A i \in DOMAIN todo' : IsSaved(todo'[i].sheet)
    <3>1. IsSaved(f)
      BY <1>1, <1>2, <2>1 DEF HandedAreSaved, IsSaved
    <3>2. ASSUME NEW x \in handed
          PROVE  Pending(x)' \/ IsSaved(file'[x])
      <4>1. x \in Name /\ (Pending(x) \/ IsSaved(file[x]))
        BY <2>1 DEF HandedAreSaved, TypeOK
      <4>2. CASE x = n
        BY <1>3, <3>1, <4>2
      <4>3. CASE x # n /\ Pending(x)
        <5>1. PICK i \in DOMAIN todo : todo[i].who = x
          BY <4>3 DEF Pending
        <5>2. i # 1
          BY <1>2, <4>3, <5>1
        <5>3. i - 1 \in DOMAIN todo' /\ todo'[i - 1].who = x
          BY <1>2, <5>1, <5>2
        <5> QED
          BY <5>3 DEF Pending
      <4>4. CASE x # n /\ IsSaved(file[x])
        BY <1>3, <4>1, <4>4
      <4> QED
        BY <4>1, <4>2, <4>3, <4>4
    <3> QED
      BY <1>2, <2>1, <3>2 DEF HandedAreSaved
  <2> QED
    BY <1>3, <2>1 DEF HandedAreSaved
<1>10. MoneyIsMinted'
  <2>1. MostFacts /\ MostFacts' /\ FiledFacts' /\ FiledFacts
    BY MostIs, MostNext, FiledNext, FiledIs DEF FiledFacts
  <2>2. ASSUME NEW x \in Name
        PROVE  /\ Most[x] \in Int /\ Worth(body[x]) <= Most[x] /\ 0 <= Most[x]
               /\ Worth(file'[x]) <= Most[x]
    <3>1. /\ Most[x] \in Int /\ Worth(body[x]) <= Most[x] /\ Worth(Filed(x)) <= Most[x]
          /\ 0 <= Most[x] /\ Worth(file[x]) \in Nat
      BY <2>1 DEF MostFacts
    <3>2. x # n => Filed(x) = file[x] /\ file'[x] = file[x]
      BY <1>1, <1>3, <2>1 DEF FiledFacts
    <3>3. x = n => Filed(x) = s /\ file'[x] = f
      BY <1>1, <1>3, <2>1 DEF FiledFacts
    <3>4. Worth(f) <= Worth(s) /\ Worth(f) \in Nat /\ Worth(s) \in Nat
      BY <1>1, NilIs
    <3> QED
      BY <3>1, <3>2, <3>3, <3>4
  <2>3. ASSUME NEW x \in Name
        PROVE  (Most')[x] <= Most[x]
    <3>1. Worth((Filed(x))') <= Most[x]
      <4>1. CASE todo' # <<>> /\ Head(todo').who = x
        <5>1. (Filed(x))' = todo[2].sheet /\ todo[2].who = x /\ 2 \in DOMAIN todo
          BY <1>2, <2>1, <4>1 DEF FiledFacts
        <5>2. todo[2].sheet = Nil \/ todo[2].sheet = body[x]
          BY <5>1 DEF SavesAreOfPlayers, Playing
        <5> QED
          BY <2>2, <5>1, <5>2, NilIs
      <4>2. CASE ~(todo' # <<>> /\ Head(todo').who = x)
        BY <2>1, <2>2, <4>2 DEF FiledFacts
      <4> QED
        BY <4>1, <4>2
    <3> QED
      BY <1>3, <2>1, <2>2, <3>1, MostBound
  <2>4. Wealth(file') <= minted'
    <3>1. \A x \in Name : Worth(file'[x]) \in Nat
      BY <2>1 DEF MostFacts
    <3>2. Wealth(file') <= SumFunctionOnSet(Most, Name) /\ SumFunctionOnSet(Most, Name) \in Int
      BY <2>1, <2>2, <3>1, WealthLeq DEF MostFacts
    <3>3. Wealth(file') \in Int
      BY <3>1, WealthIs
    <3>4. ground \in Nat /\ minted \in Int /\ minted' = minted
      BY RestartConstants DEF TypeOK
    <3> QED
      BY <3>2, <3>3, <3>4 DEF MoneyIsMinted
  <2>5. minted <= minted' /\ ground' <= ground
    BY <1>3, RestartConstants DEF TypeOK
  <2> QED
    BY <2>3, <2>4, <2>5, MoneyKept
<1> QED
  BY <1>5, <1>6, <1>7, <1>8, <1>9, <1>10

LEMMA DiskKeeps ==
  ASSUME IInv, Write \/ Rename \/ Unlink
  PROVE  IInv'
<1>1. TypeInv' /\ TypeInv /\ TypeOK
  BY DiskTypes DEF IInv, TypeInv
<1>2. CASE Write
  BY <1>1, <1>2 DEF Write, game, IInv, FilesInv, FilesAreProper, NewcomersHaveNoFile, SavesAreOfPlayers,
                DialoguesAreFresh, HandedAreSaved, MoneyIsMinted, Most, Filed, IsFirst, Playing, Loaded,
                Pending
<1>3. CASE Rename
  <2>1. todo # <<>> /\ Head(todo).sheet # Nil /\ Head(todo).sheet \in Sheet /\ temp \in Written(Head(todo).sheet)
        /\ temp # Nil /\ temp \in Sheet
    BY <1>1, <1>3, FirstType DEF Rename, TypeInv, TypeOK, TempIsFirst
  <2>2. temp.level = Head(todo).sheet.level /\ Worth(temp) <= Worth(Head(todo).sheet)
    BY <2>1, WrittenType
  <2>3. /\ file' = [file EXCEPT ![Head(todo).who] = temp] /\ todo' = Tail(todo)
        /\ UNCHANGED <<game, task, handed, minted>>
    BY <1>3 DEF Rename
  <2> QED
    BY <1>1, <2>1, <2>2, <2>3, FirstSaveKeeps
<1>4. CASE Unlink
  <2>1. /\ todo # <<>> /\ Head(todo).sheet = Nil
        /\ file' = [file EXCEPT ![Head(todo).who] = Nil] /\ todo' = Tail(todo)
        /\ UNCHANGED <<game, task, handed, minted>>
    BY <1>4 DEF Unlink
  <2> QED
    BY <1>1, <2>1, FirstSaveKeeps
<1> QED
  BY <1>2, <1>3, <1>4

\* The next process starts with the files, which have been within what was
\* minted at every point of every row of saves.
LEMMA FreshKeeps ==
  ASSUME TypeInv, TypeInv', FilesInv, Fresh, todo' = <<>>, UNCHANGED <<file, minted>>
  PROVE  FilesInv'
<1> USE DEF TypeInv, FilesInv
<1>1. /\ \A n \in Name : body'[n] = Nil /\ copy'[n] = Nil
      /\ ground' = 0
  BY DEF Fresh, Nobody
<1>2. FilesAreProper' /\ NewcomersHaveNoFile' /\ SavesAreOfPlayers' /\ DialoguesAreFresh'
  BY <1>1 DEF FilesAreProper, Proper, NewcomersHaveNoFile, SavesAreOfPlayers, DialoguesAreFresh, Playing
<1>3. MoneyIsMinted'
  <2>1. MostFacts' /\ FiledFacts' /\ \A x \in Name : Worth(file[x]) \in Nat
    BY MostNext, FiledNext, PlayingSheet
  <2>2. Files(file) \in [Name -> Int] /\ Wealth(file) = SumFunctionOnSet(Files(file), Name)
        /\ Wealth(file) \in Int /\ \A n \in Name : Files(file)[n] = Worth(file[n])
    BY <2>1, WealthIs
  <2>3. ASSUME NEW x \in Name
        PROVE  (Most')[x] <= Files(file)[x]
    <3>1. (Filed(x))' = file[x] /\ body'[x] = Nil
      BY <1>1, <2>1 DEF FiledFacts
    <3>2. Files(file)[x] \in Int /\ Worth((Filed(x))') <= Files(file)[x] /\ Worth(body'[x]) <= Files(file)[x]
      BY <2>1, <2>2, <3>1, NilIs
    <3> QED
      BY <2>1, <3>2, MostBound
  <2>4. SumFunctionOnSet(Most', Name) <= SumFunctionOnSet(Files(file), Name)
        /\ SumFunctionOnSet(Most', Name) \in Int
    BY <2>1, <2>2, <2>3, SumLeq, SumType, RestartConstants DEF MostFacts
  <2>5. minted \in Int /\ Wealth(file) <= minted
    BY RestartConstants DEF TypeOK, MoneyIsMinted
  <2> QED
    BY <1>1, <2>2, <2>4, <2>5 DEF MoneyIsMinted
<1> QED
  BY <1>2, <1>3

LEMMA HandDownKeeps ==
  ASSUME IInv, TypeInv', NEW n \in Name, HandDown(n)
  PROVE  IInv'
<1> USE DEF IInv
<1>1. PICK s \in Sheet :
        /\ body' = [body EXCEPT ![n] = s] /\ todo' = Saves(n, s)
        /\ n \in linked /\ Playing(n)
        /\ s.level # 1 /\ (body[n].level # 1 => s = body[n])
        /\ (body[n].level = 1 => s.level = 2) /\ Worth(s) = Worth(body[n])
  BY HandDownTypes DEF TypeInv
<1>2. /\ todo = <<>> /\ task = "copyover" /\ n \notin handed /\ handed' = handed \cup {n}
      /\ UNCHANGED <<file, linked, copy, ground, task, minted>>
  BY DEF HandDown
<1>3. s.level \notin {0, 1}
  BY <1>1 DEF Sheet, FilesInv, NewcomersHaveNoFile
<1>4. FilesInv'
  <2>1. Worth(body[n]) \in Int /\ ground \in Int /\ 0 \in Int /\ TypeOK
    BY PlayingSheet DEF TypeInv, TypeOK
  <2>2. Worth(s) <= Worth(body[n]) + 0 /\ ground' + 0 = ground /\ s.level # 0
    BY <1>1, <1>2, <1>3, <2>1
  <2> QED
    BY <1>1, <1>2, <1>3, <2>1, <2>2, OwnCommand
<1> USE DEF TypeInv
<1>5. HandedAreSaved'
  <2>1. /\ \A i \in DOMAIN todo' : todo'[i] = SaveOf(n, s)
        /\ 1 \in DOMAIN todo'
    BY <1>1, OneSave
  <2>2. IsSaved(s) /\ body'[n] = s
    BY <1>1, <1>3, NilIs DEF IsSaved, TypeOK
  <2>3. Pending(n)' /\ \A i \in DOMAIN todo' : IsSaved(todo'[i].sheet)
    BY <2>1, <2>2 DEF Pending, SaveOf
  <2>4. ASSUME NEW x \in handed
        PROVE  IsSaved(body'[x]) /\ (Pending(x)' \/ IsSaved(file'[x]))
    <3>1. x \in Name /\ x # n /\ ~Pending(x) /\ IsSaved(body[x])
      BY <1>2 DEF HandedAreSaved, Pending, TypeOK
    <3>2. body'[x] = body[x] /\ IsSaved(file[x])
      BY <1>1, <1>2, <3>1 DEF HandedAreSaved, TypeOK
    <3> QED
      BY <1>2, <3>1, <3>2
  <2>5. handed' \subseteq linked'
    BY <1>1, <1>2 DEF HandedAreSaved
  <2> QED
    BY <1>2, <2>2, <2>3, <2>4, <2>5 DEF HandedAreSaved
<1> QED
  BY <1>4, <1>5

LEMMA RecoverKeeps ==
  ASSUME IInv, TypeInv', NEW n \in Name, Recover(n)
  PROVE  IInv'
<1> USE DEF IInv, TypeInv, FilesInv
<1>1. /\ task = "recover" /\ n \in handed /\ handed' = handed \ {n} /\ todo = <<>>
      /\ UNCHANGED <<file, temp, todo, copy, ground, task, minted>>
      /\ IsSaved(file[n]) /\ Loaded(n) = file[n]
  BY DEF Recover, HandedAreSaved, disk, IsSaved, Loaded
<1>2. body' = body \/ body' = [body EXCEPT ![n] = file[n]]
  BY <1>1 DEF Recover
<1>3. \A x \in Name : body'[x] = body[x] \/ (x = n /\ body'[x] = file[x])
  BY <1>2 DEF TypeOK
<1>4. HandedAreSaved'
  BY <1>1 DEF HandedAreSaved
<1>5. FilesAreProper' /\ SavesAreOfPlayers'
  BY <1>1 DEF FilesAreProper, Proper, SavesAreOfPlayers
<1>6. NewcomersHaveNoFile'
  BY <1>1, <1>3 DEF NewcomersHaveNoFile, Playing, IsSaved
<1>7. DialoguesAreFresh'
  BY <1>1, <1>3 DEF DialoguesAreFresh, Playing, Loaded, Pending, IsSaved
<1>8. MoneyIsMinted'
  <2>1. MostFacts /\ MostFacts' /\ \A x \in Name : Filed(x) = file[x] /\ (Filed(x))' = file[x]
    BY <1>1, MostIs, MostNext, FiledNext, FiledIs DEF FiledFacts
  <2>2. ASSUME NEW x \in Name
        PROVE  (Most')[x] <= Most[x]
    <3>1. /\ Most[x] \in Int /\ Worth(file[x]) <= Most[x] /\ Worth(body[x]) <= Most[x]
      BY <2>1 DEF MostFacts
    <3>2. Worth((Filed(x))') <= Most[x] /\ Worth(body'[x]) <= Most[x]
      BY <1>3, <2>1, <3>1
    <3> QED
      BY <2>1, <3>1, <3>2, MostBound
  <2>3. Wealth(file') <= minted' /\ minted <= minted' /\ ground' <= ground
    BY <1>1, RestartConstants DEF MoneyIsMinted, TypeOK
  <2> QED
    BY <2>2, <2>3, MoneyKept
<1> QED
  BY <1>4, <1>5, <1>6, <1>7, <1>8

\* The saves of a reboot are of players as they are.
LEMMA RebootKeeps ==
  ASSUME IInv, TypeInv', NEW p \in Name, Reboot(p)
  PROVE  IInv'
<1> USE DEF IInv, TypeInv, FilesInv
<1>1. /\ todo = <<>> /\ task' = "reboot"
      /\ UNCHANGED <<file, body, linked, copy, ground, handed, minted>>
      /\ Playing(p) /\ body[p] \in Sheet /\ body[p].level >= 3
  BY PlayingSheet DEF Reboot, Idle, game, Playing, TypeOK
<1>2. ASSUME NEW i \in DOMAIN todo'
      PROVE  /\ todo'[i].who \in Name /\ Playing(todo'[i].who) /\ todo'[i].sheet = body[todo'[i].who]
             /\ todo'[i].sheet.level # 0 /\ todo'[i].sheet.level # 1
  <2>1. PICK n \in Rebooted(p) : todo'[i] = SaveOf(n, body[n])
    BY RebootSavesAre
  <2>2. n \in Name /\ Playing(n) /\ body[n].level # 1
    BY <1>1 DEF Rebooted, Forced
  <2>3. body[n].level # 0
    BY <2>2 DEF NewcomersHaveNoFile
  <2> QED
    BY <2>1, <2>2, <2>3 DEF SaveOf
<1>3. FilesAreProper'
  BY <1>1, <1>2 DEF FilesAreProper, Proper
<1>4. NewcomersHaveNoFile'
  BY <1>1 DEF NewcomersHaveNoFile, Playing
<1>5. SavesAreOfPlayers'
  BY <1>1, <1>2 DEF SavesAreOfPlayers, Playing
<1>6. DialoguesAreFresh'
  BY <1>1, <1>2 DEF DialoguesAreFresh, Playing, Loaded, Pending
<1>7. HandedAreSaved'
  BY <1>1 DEF HandedAreSaved
<1>8. MoneyIsMinted'
  <2>1. MostFacts /\ MostFacts' /\ FiledFacts' /\ \A x \in Name : Filed(x) = file[x]
    BY <1>1, MostIs, MostNext, FiledNext, FiledIs
  <2>2. ASSUME NEW x \in Name
        PROVE  (Most')[x] <= Most[x]
    <3>1. (Filed(x))' \in {file[x], body[x]} /\ body'[x] = body[x]
      BY <1>1, <1>2, <2>1, FirstNext DEF FiledFacts, FirstFacts
    <3>2. Most[x] \in Int /\ Worth(file[x]) <= Most[x] /\ Worth(body[x]) <= Most[x]
      BY <2>1 DEF MostFacts
    <3>3. Worth((Filed(x))') <= Most[x] /\ Worth(body'[x]) <= Most[x]
      BY <3>1, <3>2
    <3> QED
      BY <2>1, <3>2, <3>3, MostBound
  <2>3. Wealth(file') <= minted' /\ minted <= minted' /\ ground' <= ground
    BY <1>1, RestartConstants DEF MoneyIsMinted, TypeOK
  <2> QED
    BY <2>2, <2>3, MoneyKept
<1> QED
  BY <1>3, <1>4, <1>5, <1>6, <1>7, <1>8

LEMMA RestartKeeps ==
  ASSUME IInv,
         \/ \E n \in Name : HandDown(n) \/ Recover(n) \/ Reboot(n)
         \/ Copyover \/ Exec \/ ExecFails \/ Recovered \/ Die
  PROVE  IInv'
<1>1. TypeInv' /\ TypeInv /\ TypeOK /\ FilesInv /\ HandedAreSaved
  BY OtherTypes DEF IInv, TypeInv
<1>2. CASE Copyover
  <2>1. /\ todo = <<>> /\ todo' = <<>> /\ UNCHANGED <<file, body, ground, minted, handed>>
        /\ task = "idle" /\ task' = "copyover" /\ \A x \in Name : copy'[x] = Nil
    BY <1>2 DEF Copyover, Idle, disk, Nobody
  <2>2. HandedAreSaved'
    BY <1>1, <2>1 DEF HandedAreSaved
  <2> QED
    BY <1>1, <2>1, <2>2, QuietCommand DEF IInv
<1>3. CASE ExecFails
  <2>1. /\ todo = <<>> /\ todo' = <<>> /\ UNCHANGED <<file, body, ground, minted, copy>>
        /\ task' = "idle" /\ handed' = {}
    BY <1>3 DEF ExecFails, AllHanded, disk, game
  <2>2. HandedAreSaved'
    BY <2>1 DEF HandedAreSaved
  <2> QED
    BY <1>1, <2>1, <2>2, QuietCommand DEF IInv
<1>4. CASE Recovered
  <2>1. /\ todo = <<>> /\ todo' = <<>> /\ UNCHANGED <<file, body, ground, minted, copy, handed>>
        /\ task' = "idle" /\ handed = {}
    BY <1>1, <1>4 DEF Recovered, disk, game, HandedAreSaved
  <2>2. HandedAreSaved'
    BY <2>1 DEF HandedAreSaved
  <2> QED
    BY <1>1, <2>1, <2>2, QuietCommand DEF IInv
<1>5. CASE Exec
  <2>1. /\ todo = <<>> /\ todo' = <<>> /\ UNCHANGED <<file, minted, handed>> /\ Fresh
        /\ task = "copyover" /\ task' = "recover"
    BY <1>5 DEF Exec, AllHanded, disk
  <2>2. HandedAreSaved'
    BY <1>1, <2>1 DEF HandedAreSaved, Pending
  <2> QED
    BY <1>1, <2>1, <2>2, FreshKeeps DEF IInv
<1>6. CASE Die
  <2>1. todo' = <<>> /\ UNCHANGED <<file, minted>> /\ Fresh /\ task' = "idle" /\ handed' = {}
    BY <1>6 DEF Die
  <2>2. HandedAreSaved'
    BY <2>1 DEF HandedAreSaved
  <2> QED
    BY <1>1, <2>1, <2>2, FreshKeeps DEF IInv
<1> QED
  BY <1>1, <1>2, <1>3, <1>4, <1>5, <1>6, HandDownKeeps, RecoverKeeps, RebootKeeps

LEMMA InvariantInit ==
  Init => IInv
<1> SUFFICES ASSUME Init PROVE IInv
  OBVIOUS
<1>1. TypeInv /\ TypeOK
  BY TypeInit DEF TypeInv
<1>2. \A n \in Name : /\ Worth(file[n]) = (IF n \in Staff THEN Gift ELSE 0)
                      /\ Proper(file[n]) /\ body[n] = Nil /\ copy[n] = Nil
  <2>1. ASSUME NEW n \in Staff
        PROVE  Worth(file[n]) = Gift /\ Proper(file[n])
    <3>0. Rank[n] \in Levels /\ Rank[n] \in 3..8 /\ Gift \in Nat /\ 0 \in Nat
      BY RestartConstants DEF Levels
    <3>1. PICK s \in Sheet : s = [level |-> Rank[n], gold |-> Gift, bank |-> 0]
      BY <3>0 DEF Sheet
    <3>2. file[n] = s /\ s.level \in 3..8 /\ s.gold = Gift /\ s.bank = 0
      BY <3>0, <3>1, RestartConstants DEF Init
    <3>3. Worth(s) = Gift
      BY <3>2, NilIs, RestartConstants
    <3> QED
      BY <3>2, <3>3 DEF Proper
  <2>2. \A n \in Name \ Staff : file[n] = Nil
    BY DEF Init
  <2> QED
    BY <2>1, <2>2, NilIs DEF Init, Nobody, Proper
<1>3. FilesAreProper /\ NewcomersHaveNoFile /\ SavesAreOfPlayers /\ DialoguesAreFresh
  BY <1>2 DEF Init, FilesAreProper, NewcomersHaveNoFile, SavesAreOfPlayers, DialoguesAreFresh, Playing
<1>4. HandedAreSaved
  BY DEF Init, HandedAreSaved
<1>5. MoneyIsMinted
  <2>1. MostFacts /\ FiledFacts /\ \A n \in Name : Worth(file[n]) \in Nat
    BY <1>1, MostIs, FiledIs, PlayingSheet DEF FiledFacts
  <2>2. Files(file) \in [Name -> Int] /\ Wealth(file) = SumFunctionOnSet(Files(file), Name)
        /\ \A n \in Name : Files(file)[n] = Worth(file[n])
    BY <2>1, WealthIs
  <2>3. ASSUME NEW n \in Name
        PROVE  Most[n] = Files(file)[n]
    <3>1. Filed(n) = file[n] /\ Worth(body[n]) = 0
      BY <1>2, <2>1, NilIs DEF Init, FiledFacts
    <3>2. /\ Most[n] \in Nat /\ Worth(file[n]) \in Nat /\ Worth(file[n]) <= Most[n]
          /\ Most[n] = Worth(file[n]) \/ Most[n] = 0
      BY <2>1, <3>1 DEF MostFacts
    <3> QED
      BY <2>2, <3>2
  <2>4. Most = Files(file)
    BY <2>1, <2>2, <2>3 DEF Most, Files
  <2>5. SumFunctionOnSet(Files(file), Name) = Gift * Cardinality(Staff)
    BY <1>2, <2>2, RestartConstants, SumOfEqual
  <2>6. ground = 0 /\ minted = Gift * Cardinality(Staff) /\ minted \in Int
    BY <1>1, RestartConstants DEF Init, TypeOK
  <2> QED
    BY <2>2, <2>4, <2>5, <2>6 DEF MoneyIsMinted
<1> QED
  BY <1>1, <1>3, <1>4, <1>5 DEF IInv, FilesInv

LEMMA InvariantStep ==
  Careful /\ IInv /\ [Next]_vars => IInv'
<1> SUFFICES ASSUME Careful, IInv, [Next]_vars PROVE IInv'
  OBVIOUS
<1>1. CASE Next
  BY <1>1, DialogueKeeps, PlayKeeps, RestartKeeps, DiskKeeps DEF Next
<1>2. CASE UNCHANGED vars
  BY <1>2, TypeStep DEF vars, disk, game, IInv, TypeInv, FilesInv, FilesAreProper, NewcomersHaveNoFile,
            SavesAreOfPlayers, DialoguesAreFresh, HandedAreSaved, MoneyIsMinted, Most, Filed, IsFirst,
            Playing, Loaded, Pending
<1> QED
  BY <1>1, <1>2

LEMMA Invariance ==
  ASSUME Careful
  PROVE  Spec => []IInv
<1>1. Init => IInv
  BY InvariantInit
<1>2. IInv /\ [Next]_vars => IInv'
  BY InvariantStep
<1> QED
  BY <1>1, <1>2, PTL DEF Spec

LEMMA CurrentIsMinted ==
  ASSUME IInv, todo = <<>>
  PROVE  Wealth([n \in Name |-> Current(n)]) + ground <= minted
<1> DEFINE f == [n \in Name |-> Current(n)]
<1>1. MostFacts /\ \A n \in Name : Filed(n) = file[n]
  BY MostIs, FiledIs DEF IInv, TypeInv
<1>2. ASSUME NEW n \in Name
      PROVE  Worth(f[n]) \in Nat /\ Worth(f[n]) <= Most[n]
  <2>1. f[n] \in {file[n], body[n]}
    BY DEF Current
  <2> QED
    BY <1>1, <2>1 DEF MostFacts
<1> HIDE DEF f
<1>3. Wealth(f) <= SumFunctionOnSet(Most, Name) /\ SumFunctionOnSet(Most, Name) \in Int
  BY <1>1, <1>2, WealthLeq DEF MostFacts
<1>4. Wealth(f) \in Int
  BY <1>2, WealthIs
<1>5. ground \in Int /\ minted \in Int
  BY RestartConstants DEF IInv, TypeInv, TypeOK
<1>6. SumFunctionOnSet(Most, Name) + ground <= minted
  BY DEF IInv, FilesInv, MoneyIsMinted
<1>7. Wealth(f) + ground <= minted
  BY <1>3, <1>4, <1>5, <1>6
<1> QED
  BY <1>7 DEF f

\* No coin is in two places, whatever the process dies of and between whichever
\* two saves: a gift is of two saves, the giver's (do_give) before the
\* receiver's; files may be cut short (fclose is not checked), which only
\* destroys coins.
THEOREM CoinsAreNeverCopied ==
  ASSUME Careful
  PROVE  Spec => []NoCoinTwice
<1>1. IInv => NoCoinTwice
  BY CurrentIsMinted DEF IInv, TypeInv, FilesInv, MoneyIsMinted, NoCoinTwice
<1>2. Spec => []IInv
  BY Invariance
<1> QED
  BY <1>1, <1>2, PTL

\* A login gives a player back as his file has him at that moment, though
\* load_char_obj read it when he gave his name: whatever saves, deletes or
\* renames him in between closes the dialogue or waits for its end.
THEOREM LoginsAreFresh ==
  ASSUME Careful
  PROVE  Spec => EntersAsSaved
<1>1. ASSUME IInv, NEW n \in Name, ReadMotd(n)
      PROVE  file[n] = body'[n] \/ body'[n].level = 1
  <2>1. copy[n] # Nil /\ copy[n] = Loaded(n) /\ copy[n] \in Sheet /\ body \in [Name -> Sheet \cup {Nil}]
    BY <1>1, PlayingSheet DEF ReadMotd, IInv, FilesInv, DialoguesAreFresh, TypeInv, TypeOK
  <2>2. CASE copy[n].level = 0
    <3>1. body' = [body EXCEPT ![n] = [copy[n] EXCEPT !.level = 1, !.gold = Gift]]
      BY <1>1, <2>2 DEF ReadMotd
    <3>2. [copy[n] EXCEPT !.level = 1, !.gold = Gift].level = 1
      BY <2>1, NewcomerType
    <3> QED
      BY <2>1, <3>1, <3>2
  <2>3. CASE copy[n].level # 0
    <3>1. body'[n] = copy[n]
      BY <1>1, <2>1, <2>3 DEF ReadMotd
    <3> QED
      BY <2>1, <2>3, <3>1, NilIs DEF Loaded
  <2> QED
    BY <2>2, <2>3
<1>2. IInv /\ [Next]_vars => [\A n \in Name : ReadMotd(n) => file[n] = body'[n] \/ body'[n].level = 1]_vars
  BY <1>1
<1>3. Spec => []IInv
  BY Invariance
<1> QED
  BY <1>2, <1>3, PTL DEF Spec, EntersAsSaved

----------------------------------------------------------------------------
(* What nobody loses: gains are saved when a command returns, and planned  *)
(* restarts keep all.                                                      *)

Kept == GInv' /\ (RInv => RInv')

LEMMA TopKept ==
  ASSUME OneIsTop, \A x \in Name : (AtTheTop(file'[x]) => Top(x)) /\ (Top(x)' => Top(x))
  PROVE  OneIsTop'
BY DEF OneIsTop

\* A command that touches the sheet, the file and the saves of n alone.
LEMMA OneCommand ==
  ASSUME TypeOK, TypeOK', GInv, todo = <<>>, task' # "copyover", task' # "reboot", NEW n \in Name,
         \A x \in Name \ {n} : body'[x] = body[x] /\ file'[x] = file[x],
         file'[n] = Nil \/ file'[n] = file[n],
         \A i \in DOMAIN todo' : /\ todo'[i].who = n
                                 /\ body'[n] # Nil => todo'[i].sheet = body'[n]
                                 /\ AtTheTop(todo'[i].sheet) => Top(n),
         AtTheTop(body'[n]) => Top(n),
         body'[n] # Nil /\ body'[n].level # 1 =>
           \/ Pending(n)'
           \/ file'[n] # Nil /\ Worth(file'[n]) >= Worth(body'[n])
  PROVE  Kept
<1>1. SavesAreCurrent'
  BY DEF SavesAreCurrent, Playing
<1>2. GainsAreDue'
  <2>1. ASSUME NEW x \in Name \ {n}, body[x] # Nil, body[x].level # 1
        PROVE  file[x] # Nil /\ Worth(file[x]) >= Worth(body[x])
    BY <2>1 DEF GInv, GainsAreDue, Playing, Pending
  <2> QED
    BY <2>1 DEF GainsAreDue, Playing
<1>3. HandedAreKept'
  BY DEF HandedAreKept
<1>4. ASSUME RInv
      PROVE  OneIsTop'
  <2>1. FiledFacts /\ FiledFacts' /\ FirstFacts'
    BY FiledIs, FiledNext, FirstNext DEF FiledFacts
  <2>2. ASSUME NEW x \in Name
        PROVE  (AtTheTop(file'[x]) => Top(x)) /\ (Top(x)' => Top(x))
    <3>1. AtTheTop(file'[x]) => Top(x)
      BY <2>1 DEF FiledFacts, Top, AtTheTop
    <3>2. AtTheTop(body'[x]) => Top(x)
      BY DEF Top
    <3>3. (Filed(x))' = file'[x] \/ (AtTheTop((Filed(x))') => Top(x))
      BY <2>1 DEF FiledFacts, FirstFacts
    <3> QED
      BY <3>1, <3>2, <3>3 DEF Top
  <2> QED
    BY <1>4, <2>2, TopKept DEF RInv
<1> QED
  BY <1>1, <1>2, <1>3, <1>4 DEF Kept, GInv, RInv, RebootSaves

\* ... and one that changes nobody's sheet or file.
LEMMA QuietIsKept ==
  ASSUME IInv, TypeOK', GInv, todo = <<>>, task' # "copyover" \/ handed' = {}, task' # "reboot",
         UNCHANGED <<body, file, todo>>
  PROVE  Kept
<1>1. SavesAreCurrent' /\ GainsAreDue' /\ HandedAreKept'
  BY DEF GInv, SavesAreCurrent, GainsAreDue, HandedAreKept, Playing, Pending
<1>2. OneIsTop => OneIsTop'
  BY DEF OneIsTop, Top, Filed, IsFirst
<1> QED
  BY <1>1, <1>2 DEF Kept, GInv, RInv, RebootSaves

\* A command after which n is saved as s.
LEMMA SavedIsKept ==
  ASSUME TypeOK, TypeOK', GInv, todo = <<>>, task' = "idle", NEW n \in Name, Playing(n), NEW s \in Sheet,
         body' = [body EXCEPT ![n] = s], todo' = Saves(n, s), file' = file,
         s.level \notin 0..2 => body[n].level \notin 0..2
  PROVE  Kept
<1>1. body'[n] = s /\ (\A x \in Name \ {n} : body'[x] = body[x]) /\ s # Nil
  BY NilIs DEF TypeOK
<1>2. /\ \A i \in DOMAIN todo' : todo'[i].who = n /\ todo'[i].sheet = s
      /\ s.level # 1 => Pending(n)'
  BY OneSave DEF SaveOf, Pending
<1>3. AtTheTop(s) => Top(n)
  BY DEF AtTheTop, Top, Playing
<1> QED
  BY <1>1, <1>2, <1>3, OneCommand

\* A command that takes n out of the game.
LEMMA LeaveIsKept ==
  ASSUME TypeOK, TypeOK', GInv, todo = <<>>, task' = "idle", NEW n \in Name, Playing(n),
         body' = [body EXCEPT ![n] = Nil], file' = file \/ file' = [file EXCEPT ![n] = Nil],
         \A i \in DOMAIN todo' : todo'[i].who = n /\ todo'[i].sheet \in {Nil, body[n]}
  PROVE  Kept
<1>1. /\ body'[n] = Nil /\ \A x \in Name \ {n} : body'[x] = body[x] /\ file'[x] = file[x]
      /\ file'[n] = Nil \/ file'[n] = file[n]
  BY DEF TypeOK
<1>2. /\ \A i \in DOMAIN todo' : AtTheTop(todo'[i].sheet) => Top(n)
      /\ ~AtTheTop(body'[n])
  BY <1>1 DEF AtTheTop, Top
<1> QED
  BY <1>1, <1>2, OneCommand

LEMMA DialogueIsKept ==
  ASSUME Reliable, IInv, TypeOK', GInv, NEW n \in Name, Dialogue(n)
  PROVE  Kept
<1>1. todo = <<>> /\ UNCHANGED <<task, handed, file>> /\ task = "idle"
  BY DEF Dialogue, GetName, GiveUp, DialogueBreaks, Reconnect, ReadMotd, Idle, disk
<1>2. TypeOK /\ FilesInv
  BY DEF IInv, TypeInv
<1>3. CASE GetName(n) \/ GiveUp(n) \/ Reconnect(n)
  BY <1>1, <1>3, QuietIsKept DEF GetName, GiveUp, Reconnect, disk
<1>4. ASSUME DialogueBreaks(n) \/ ReadMotd(n)
      PROVE  /\ ~Playing(n) /\ copy[n] = Loaded(n) /\ copy[n] \in Sheet /\ copy[n] # Nil
             /\ Top(n) <=> AtTheTop(file[n])
             /\ AtTheTop(copy[n]) => Top(n)
             /\ copy[n].level # 0 => copy[n] = file[n]
  <2>1. ~Playing(n) /\ copy[n] = Loaded(n) /\ copy[n] \in Sheet /\ copy[n] # Nil
    BY <1>2, <1>4, PlayingSheet DEF DialogueBreaks, ReadMotd, Reliable, Careful, FilesInv, DialoguesAreFresh
  <2>2. copy[n].level # 0 => copy[n] = file[n]
    BY <2>1, NilIs DEF Loaded
  <2>3. Top(n) <=> AtTheTop(file[n])
    BY <1>1, <1>2, <2>1, FiledIs DEF Top, AtTheTop, Playing
  <2> QED
    BY <2>1, <2>2, <2>3 DEF AtTheTop
<1>5. CASE DialogueBreaks(n)
  <2>1. \A i \in DOMAIN todo' : todo'[i].who = n /\ todo'[i].sheet = copy[n]
    BY <1>4, <1>5, OneSave DEF DialogueBreaks, SaveOf
  <2>2. body' = body /\ body[n] = Nil
    BY <1>4, <1>5 DEF DialogueBreaks, Playing
  <2>3. \A i \in DOMAIN todo' : AtTheTop(todo'[i].sheet) => Top(n)
    BY <1>4, <1>5, <2>1
  <2>4. ~AtTheTop(body'[n])
    BY <2>2 DEF AtTheTop
  <2> QED
    BY <1>1, <1>2, <2>1, <2>2, <2>3, <2>4, OneCommand
<1>6. CASE ReadMotd(n)
  <2>1. /\ todo' = <<>> /\ \A x \in Name \ {n} : body'[x] = body[x]
        /\ body'[n].level = 1 \/ body'[n] = file[n]
    <3>1. todo' = <<>> /\ \A x \in Name \ {n} : body'[x] = body[x]
      BY <1>1, <1>2, <1>6 DEF ReadMotd, disk, TypeOK
    <3>2. CASE copy[n].level = 0
      <4>1. body' = [body EXCEPT ![n] = [copy[n] EXCEPT !.level = 1, !.gold = Gift]]
        BY <1>6, <3>2 DEF ReadMotd
      <4>2. body'[n].level = 1
        BY <1>2, <1>4, <1>6, <4>1, NewcomerType DEF TypeOK
      <4> QED
        BY <3>1, <4>2
    <3>3. CASE copy[n].level # 0
      <4>1. body' = [body EXCEPT ![n] = copy[n]]
        BY <1>6, <3>3 DEF ReadMotd
      <4> QED
        BY <1>2, <1>4, <1>6, <3>1, <3>3, <4>1 DEF TypeOK
    <3> QED
      BY <3>2, <3>3
  <2>2. AtTheTop(body'[n]) => Top(n)
    BY <1>4, <1>6, <2>1 DEF AtTheTop
  <2>3. Worth(file[n]) \in Nat
    BY <1>2, PlayingSheet
  <2>4. body'[n] # Nil /\ body'[n].level # 1 => file'[n] # Nil /\ Worth(file'[n]) >= Worth(body'[n])
    BY <1>1, <2>1, <2>3
  <2>5. \A i \in DOMAIN todo' : FALSE
    BY <2>1
  <2> QED
    BY <1>1, <1>2, <2>1, <2>2, <2>4, <2>5, OneCommand
<1> QED
  BY <1>3, <1>5, <1>6 DEF Dialogue

LEMMA PayIsKept ==
  ASSUME Reliable, IInv, TypeOK', GInv, NEW p \in Name, NEW q \in Name, NEW k \in Amounts, Pay(p, q, k)
  PROVE  Kept
<1>0. TypeOK
  BY DEF IInv, TypeInv
<1>1. PICK a, b \in Sheet :
           /\ p # q /\ Playing(p) /\ Playing(q) /\ Idle
           /\ body' = [body EXCEPT ![p] = a, ![q] = b]
           /\ a.level = body[p].level /\ b.level = body[q].level
           /\ SavesBoth(todo', p, a, q, b)
           /\ UNCHANGED <<file, temp, linked, copy, ground, task, handed, minted>>
  BY <1>0, PayTypes DEF Reliable, Careful, SavesBoth
<1>2. /\ body'[p] = a /\ body'[q] = b /\ \A x \in Name \ {p, q} : body'[x] = body[x]
      /\ a # Nil /\ b # Nil /\ body[p] # Nil /\ body[q] # Nil /\ todo = <<>> /\ task' = "idle"
  BY <1>0, <1>1, NilIs DEF TypeOK, Playing, Idle
<1>3. /\ \A i \in DOMAIN todo' : \/ todo'[i].who = p /\ todo'[i].sheet = a
                                 \/ todo'[i].who = q /\ todo'[i].sheet = b
      /\ a.level # 1 => Pending(p)'
      /\ b.level # 1 => Pending(q)'
  <2>1. /\ \A i \in DOMAIN todo' : \/ i = 1 /\ todo'[i] = SaveOf(p, a) /\ a.level # 1
                                   \/ todo'[i] = SaveOf(q, b) /\ b.level # 1 /\ (i = 1 => a.level = 1)
        /\ a.level # 1 => todo' # <<>> /\ Head(todo') = SaveOf(p, a) /\ 1 \in DOMAIN todo'
        /\ a.level = 1 /\ b.level # 1 => todo' # <<>> /\ Head(todo') = SaveOf(q, b) /\ 1 \in DOMAIN todo'
        /\ a.level # 1 /\ b.level # 1 => 2 \in DOMAIN todo' /\ todo'[2] = SaveOf(q, b)
    BY <1>1, TwoSaves
  <2>2. /\ a.level # 1 => todo'[1] = SaveOf(p, a) /\ 1 \in DOMAIN todo'
        /\ a.level = 1 /\ b.level # 1 => todo'[1] = SaveOf(q, b) /\ 1 \in DOMAIN todo'
    BY <2>1, FirstNext DEF FirstFacts
  <2> QED
    BY <2>1, <2>2 DEF SaveOf, Pending
<1>4. SavesAreCurrent'
  BY <1>2, <1>3 DEF SavesAreCurrent, Playing
<1>5. GainsAreDue'
  <2>1. ASSUME NEW x \in Name \ {p, q}, body[x] # Nil, body[x].level # 1
        PROVE  file[x] # Nil /\ Worth(file[x]) >= Worth(body[x])
    BY <1>2, <2>1 DEF GInv, GainsAreDue, Playing, Pending
  <2>2. ASSUME NEW x \in Name, body'[x] # Nil, body'[x].level # 1
        PROVE  Pending(x)' \/ (file'[x] # Nil /\ Worth(file'[x]) >= Worth(body'[x]))
    <3>1. CASE x = p \/ x = q
      BY <1>2, <1>3, <2>2, <3>1
    <3>2. CASE x \notin {p, q}
      BY <1>1, <1>2, <2>1, <2>2, <3>2
    <3> QED
      BY <3>1, <3>2
  <2> QED
    BY <2>2 DEF GainsAreDue, Playing
<1>6. HandedAreKept'
  BY <1>2 DEF HandedAreKept
<1>7. ASSUME RInv
      PROVE  OneIsTop'
  <2>1. FiledFacts /\ FiledFacts' /\ FirstFacts'
    BY <1>0, FiledIs, FiledNext, FirstNext DEF FiledFacts
  <2>2. /\ AtTheTop(a) => Top(p)
        /\ AtTheTop(b) => Top(q)
    BY <1>1, <1>2 DEF AtTheTop, Top
  <2>3. ASSUME NEW x \in Name
        PROVE  (AtTheTop(file'[x]) => Top(x)) /\ (Top(x)' => Top(x))
    <3>1. AtTheTop(file'[x]) => Top(x)
      BY <1>1, <1>2, <2>1 DEF FiledFacts, Top
    <3>2. AtTheTop(body'[x]) => Top(x)
      BY <1>2, <2>2 DEF Top
    <3>3. (Filed(x))' = file'[x] \/ (AtTheTop((Filed(x))') => Top(x))
      BY <1>3, <2>1, <2>2 DEF FiledFacts, FirstFacts
    <3> QED
      BY <3>1, <3>2, <3>3 DEF Top
  <2> QED
    BY <1>7, <2>3, TopKept DEF RInv
<1> QED
  BY <1>2, <1>4, <1>5, <1>6, <1>7 DEF Kept, GInv, RInv, RebootSaves

LEMMA RenameIsKept ==
  ASSUME Reliable, IInv, TypeOK', GInv, NEW n \in Name, NEW m \in Name, RenamePlayer(n, m)
  PROVE  Kept
<1>0. TypeOK
  BY DEF IInv, TypeInv
<1>1. PICK s \in Sheet : s = body[n]
  BY <1>0, PlayingSheet DEF RenamePlayer
<1>2. /\ n # m /\ body'[n] = Nil /\ body'[m] = s /\ \A x \in Name \ {n, m} : body'[x] = body[x]
      /\ file[m] = Nil /\ body[m] = Nil /\ s # Nil
      /\ todo = <<>> /\ task' = "idle" /\ file' = file
  BY <1>0, <1>1, NilIs DEF RenamePlayer, Playing, Idle, TypeOK
<1>3. /\ \A i \in DOMAIN todo' :
           \/ i = 1 /\ todo'[i].who = n /\ todo'[i].sheet = Nil
           \/ todo'[i].who = m /\ todo'[i].sheet = s
      /\ s.level # 1 => Pending(m)'
      /\ todo' # <<>> /\ Head(todo').who = n /\ Head(todo').sheet = Nil
  <2>1. todo' = Unlinks(n) \o Saves(m, s)
    BY <1>1 DEF RenamePlayer
  <2>2. /\ \A i \in DOMAIN todo' : \/ i = 1 /\ todo'[i] = SaveOf(n, Nil)
                                   \/ i = 2 /\ todo'[i] = SaveOf(m, s) /\ s.level # 1
        /\ s.level # 1 => 2 \in DOMAIN todo' /\ todo'[2] = SaveOf(m, s)
        /\ todo' # <<>> /\ Head(todo') = SaveOf(n, Nil)
    BY <2>1, UnlinkAndSave
  <2> QED
    BY <2>2 DEF SaveOf, Pending
<1>4. SavesAreCurrent'
  BY <1>2, <1>3 DEF SavesAreCurrent, Playing
<1>5. GainsAreDue'
  <2>1. ASSUME NEW x \in Name \ {n, m}, body[x] # Nil, body[x].level # 1
        PROVE  file[x] # Nil /\ Worth(file[x]) >= Worth(body[x])
    BY <1>2, <2>1 DEF GInv, GainsAreDue, Playing, Pending
  <2> QED
    BY <1>2, <1>3, <2>1 DEF GainsAreDue, Playing
<1>6. HandedAreKept'
  BY <1>2 DEF HandedAreKept
<1>7. ASSUME RInv
      PROVE  OneIsTop'
  <2>1. FiledFacts /\ FiledFacts'
    BY <1>0, FiledIs, FiledNext DEF FiledFacts
  <2>2. /\ Top(m)' => Top(n)
        /\ ~Top(n)'
        /\ \A x \in Name \ {n, m} : Top(x)' => Top(x)
    BY <1>1, <1>2, <1>3, <2>1 DEF FiledFacts, Top, AtTheTop
  <2>3. ASSUME NEW x \in Name, NEW y \in Name, Top(x)', Top(y)'
        PROVE  x = y
    BY <1>7, <2>2, <2>3 DEF RInv, OneIsTop
  <2>4. \A x, y \in Name : AtTheTop(file'[x]) /\ AtTheTop(file'[y]) => x = y
    BY <1>2, <1>7 DEF RInv, OneIsTop
  <2> QED
    BY <2>3, <2>4 DEF OneIsTop
<1> QED
  BY <1>2, <1>4, <1>5, <1>6, <1>7 DEF Kept, GInv, RInv, RebootSaves

LEMMA PlayIsKept ==
  ASSUME Reliable, IInv, TypeOK', GInv, NEW n \in Name, Play(n)
  PROVE  Kept
<1>1. task = "idle" /\ todo = <<>> /\ UNCHANGED task
  BY PayTypes DEF Play, LoseLink, Quit, Save, GainLevel, GetCoins, DropCoins, Banks, Delete, Fry,
                  RenamePlayer, Pay, Idle
<1>2. TypeOK
  BY DEF IInv, TypeInv
<1>3. ASSUME Playing(n)
      PROVE  /\ body[n] \in Sheet /\ body = [body EXCEPT ![n] = body[n]]
  BY <1>2, <1>3, PlayingSheet DEF TypeOK
<1>4. CASE LoseLink(n) \/ Save(n)
  <2>1. Playing(n)
    BY <1>2, <1>4 DEF LoseLink, Save, Playing, TypeOK
  <2>2. UNCHANGED <<file, body>> /\ todo' = Saves(n, body[n])
    BY <1>4 DEF LoseLink, Save, game
  <2> QED
    BY <1>1, <1>2, <1>3, <2>1, <2>2, SavedIsKept
<1>5. CASE GainLevel(n)
  <2>1. PICK s \in Sheet : body' = [body EXCEPT ![n] = s] /\ todo' = Saves(n, s) /\ s.level = 2
    BY <1>2, <1>5, GainTypes
  <2>2. Playing(n) /\ UNCHANGED <<file>> /\ s.level \in 0..2
    BY <1>5, <2>1 DEF GainLevel
  <2> QED
    BY <1>1, <1>2, <2>1, <2>2, SavedIsKept
<1>6. CASE GetCoins(n)
  <2>1. PICK s \in Sheet : body' = [body EXCEPT ![n] = s] /\ todo' = Saves(n, s) /\ s.level = body[n].level
    BY <1>2, <1>6, GetTypes
  <2>2. Playing(n) /\ UNCHANGED <<file>>
    BY <1>6 DEF GetCoins
  <2> QED
    BY <1>1, <1>2, <2>1, <2>2, SavedIsKept
<1>7. ASSUME NEW k \in Amounts, DropCoins(n, k)
      PROVE  Kept
  <2>1. PICK s \in Sheet : body' = [body EXCEPT ![n] = s] /\ todo' = Saves(n, s) /\ s.level = body[n].level
    BY <1>2, <1>7, DropTypes
  <2>2. Playing(n) /\ UNCHANGED <<file>>
    BY <1>7 DEF DropCoins
  <2> QED
    BY <1>1, <1>2, <2>1, <2>2, SavedIsKept
<1>8. ASSUME NEW k \in Int, Banks(n, k)
      PROVE  Kept
  <2>1. PICK s \in Sheet : /\ body' = [body EXCEPT ![n] = s]
                           /\ s.level = body[n].level /\ Worth(s) <= Worth(body[n])
    BY <1>2, <1>8, BankTypes
  <2>2. Playing(n) /\ UNCHANGED file /\ todo' = <<>>
    BY <1>1, <1>8 DEF Banks, disk
  <2>3. body'[n] = s /\ (\A x \in Name \ {n} : body'[x] = body[x]) /\ body[n] # Nil
    BY <1>2, <2>1, <2>2 DEF TypeOK, Playing
  <2>4. AtTheTop(body'[n]) => Top(n)
    BY <2>1, <2>3 DEF AtTheTop, Top
  <2>5. body[n].level # 1 => file[n] # Nil /\ Worth(file[n]) >= Worth(body[n])
    BY <1>1, <2>2 DEF GInv, GainsAreDue, Pending
  <2>6. Worth(file[n]) \in Nat /\ Worth(body[n]) \in Nat /\ Worth(s) \in Nat
    BY <1>2, PlayingSheet, NilIs
  <2>7. body'[n].level # 1 => file'[n] # Nil /\ Worth(file'[n]) >= Worth(body'[n])
    BY <2>1, <2>2, <2>3, <2>5, <2>6
  <2>8. \A i \in DOMAIN todo' : FALSE
    BY <2>2
  <2> QED
    BY <1>1, <1>2, <2>2, <2>3, <2>4, <2>7, <2>8, OneCommand
<1>9. CASE Quit(n)
  <2>1. /\ Playing(n) /\ body' = [body EXCEPT ![n] = Nil] /\ todo' = Saves(n, body[n])
        /\ file' = file \/ file' = [file EXCEPT ![n] = Nil]
    BY <1>9 DEF Quit, Leave
  <2>2. \A i \in DOMAIN todo' : todo'[i].who = n /\ todo'[i].sheet = body[n]
    BY <1>3, <2>1, OneSave DEF SaveOf
  <2> QED
    BY <1>1, <1>2, <2>1, <2>2, LeaveIsKept
<1>10. CASE Fry(n) \/ Delete(n)
  <2>1. /\ Playing(n) /\ body' = [body EXCEPT ![n] = Nil] /\ file' = file
        /\ SavesAndUnlinks(todo', n, body[n])
    BY <1>2, <1>10 DEF Fry, fry_char, Delete, Reliable, SavesAndUnlinks, Playing, TypeOK
  <2>2. \A i \in DOMAIN todo' : todo'[i].who = n /\ todo'[i].sheet \in {Nil, body[n]}
    BY <1>3, <2>1, SaveAndUnlink DEF SaveOf
  <2> QED
    BY <1>1, <1>2, <2>1, <2>2, LeaveIsKept
<1> QED
  <2>1. \A k \in Amounts : k \in Int /\ -k \in Int
    BY RestartConstants DEF Amounts
  <2> QED
    BY <2>1, <1>4, <1>5, <1>6, <1>7, <1>8, <1>9, <1>10, PayIsKept, RenameIsKept DEF Play

LEMMA FirstSaveIsKept ==
  ASSUME IInv, TypeOK', GInv, todo # <<>>, file' = [file EXCEPT ![Head(todo).who] = Head(todo).sheet],
         todo' = Tail(todo), UNCHANGED <<body, linked, task, handed>>
  PROVE  Kept
<1>0. TypeOK
  BY DEF IInv, TypeInv
<1>1. PICK n \in Name, s \in Sheet \cup {Nil} : n = Head(todo).who /\ s = Head(todo).sheet
  BY <1>0, FirstType
<1>2. /\ n = todo[1].who /\ s = todo[1].sheet /\ 1 \in DOMAIN todo
      /\ \A i \in DOMAIN todo' : i + 1 \in DOMAIN todo /\ todo'[i] = todo[i + 1] /\ i + 1 # 1
      /\ \A i \in DOMAIN todo : i # 1 => i - 1 \in DOMAIN todo' /\ todo'[i - 1] = todo[i]
      /\ todo' # <<>> => Head(todo') = todo[2] /\ 2 \in DOMAIN todo
      /\ \A i \in DOMAIN todo : todo[i].who \in Name /\ todo[i].sheet \in Sheet \cup {Nil}
  BY <1>0, <1>1, FirstType
<1>3. file'[n] = s /\ \A x \in Name \ {n} : file'[x] = file[x]
  BY <1>0, <1>1 DEF TypeOK
<1>4. Playing(n) => s = body[n]
  BY <1>2 DEF GInv, SavesAreCurrent
<1>5. ASSUME NEW x \in Name, x # n, Pending(x)
      PROVE  Pending(x)'
  <2>1. PICK i \in DOMAIN todo : todo[i].who = x
    BY <1>5 DEF Pending
  <2>2. i - 1 \in DOMAIN todo' /\ todo'[i - 1].who = x
    BY <1>2, <1>5, <2>1
  <2> QED
    BY <2>2 DEF Pending
<1>6. SavesAreCurrent'
  BY <1>2 DEF GInv, SavesAreCurrent, Playing
<1>7. GainsAreDue'
  <2>1. ASSUME NEW x \in Name, Playing(x), body[x].level # 1
        PROVE  Pending(x)' \/ (file'[x] # Nil /\ Worth(file'[x]) >= Worth(body[x]))
    <3>1. Worth(body[x]) \in Nat
      BY <1>0, PlayingSheet
    <3>2. CASE x = n
      BY <1>3, <1>4, <2>1, <3>1, <3>2 DEF Playing
    <3>3. CASE x # n
      BY <1>3, <1>5, <2>1, <3>3 DEF GInv, GainsAreDue
    <3> QED
      BY <3>2, <3>3
  <2> QED
    BY <2>1 DEF GainsAreDue, Playing
<1>8. ASSUME NEW x \in Name, Playing(x), Pending(x) \/ file[x] = body[x]
      PROVE  Pending(x)' \/ file'[x] = body'[x]
  BY <1>3, <1>4, <1>5, <1>8
<1>9. HandedAreKept'
  <2>1. ASSUME task = "copyover", NEW x \in handed
        PROVE  x \in Name /\ Playing(x)
    BY <1>0, <2>1 DEF IInv, HandedAreSaved, TypeOK, Playing
  <2> QED
    BY <1>8, <2>1 DEF GInv, HandedAreKept
<1>10. ASSUME RInv
       PROVE  RInv'
  <2>1. FiledFacts /\ FiledFacts'
    BY <1>0, FiledIs, FiledNext DEF FiledFacts
  <2>2. ASSUME NEW x \in Name
        PROVE  (AtTheTop(file'[x]) => Top(x)) /\ (Top(x)' => Top(x))
    <3>1. AtTheTop(file'[x]) => Top(x)
      BY <1>1, <1>3, <2>1, <2>2 DEF FiledFacts, Top
    <3>2. CASE todo' # <<>> /\ Head(todo').who = x
      <4>1. (Filed(x))' = todo[2].sheet /\ todo[2].who = x /\ 2 \in DOMAIN todo
        BY <1>2, <2>1, <3>2 DEF FiledFacts
      <4>2. todo[2].sheet = Nil \/ todo[2].sheet = body[x]
        BY <4>1 DEF IInv, FilesInv, SavesAreOfPlayers, Playing
      <4> QED
        BY <3>1, <4>1, <4>2 DEF Top, AtTheTop
    <3>3. CASE ~(todo' # <<>> /\ Head(todo').who = x)
      <4>1. (Filed(x))' = file'[x]
        BY <2>1, <3>3 DEF FiledFacts
      <4> QED
        BY <3>1, <4>1 DEF Top
    <3> QED
      BY <3>2, <3>3
  <2>3. OneIsTop'
    BY <1>10, <2>2, TopKept DEF RInv
  <2>4. RebootSaves'
    <3>1. \A x \in linked : x \in Name /\ Playing(x)
      BY <1>0 DEF TypeOK, Playing
    <3> QED
      BY <1>8, <1>10, <3>1 DEF RInv, RebootSaves
  <2> QED
    BY <1>10, <2>3, <2>4 DEF RInv
<1> QED
  BY <1>6, <1>7, <1>9, <1>10 DEF Kept, GInv

LEMMA DiskIsKept ==
  ASSUME Reliable, IInv, TypeOK', GInv, Write \/ Rename \/ Unlink
  PROVE  Kept
<1>0. TypeInv /\ TypeOK
  BY DEF IInv, TypeInv
<1>1. CASE Write
  BY <1>1 DEF Write, game, Kept, GInv, SavesAreCurrent, GainsAreDue, HandedAreKept, RInv, OneIsTop, RebootSaves,
              Top, Filed, IsFirst, Playing, Pending
<1>2. CASE Rename
  <2>1. todo # <<>> /\ Head(todo).sheet \in Sheet /\ temp \in Written(Head(todo).sheet)
    BY <1>0, <1>2, FirstType DEF Rename, TypeInv, TypeOK, TempIsFirst
  <2>2. temp = Head(todo).sheet
    BY <2>1, WrittenType DEF Reliable
  <2> QED
    BY <1>2, <2>1, <2>2, FirstSaveIsKept DEF Rename, game
<1>3. CASE Unlink
  BY <1>3, FirstSaveIsKept DEF Unlink, game
<1> QED
  BY <1>1, <1>2, <1>3

LEMMA HandDownIsKept ==
  ASSUME IInv, TypeOK', GInv, NEW n \in Name, HandDown(n)
  PROVE  Kept
<1>0. TypeOK
  BY DEF IInv, TypeInv
<1>1. PICK s \in Sheet :
        /\ body' = [body EXCEPT ![n] = s] /\ todo' = Saves(n, s)
        /\ n \in linked /\ Playing(n)
        /\ s.level # 1 /\ (body[n].level # 1 => s = body[n])
        /\ (body[n].level = 1 => s.level = 2)
  BY <1>0, HandDownTypes
<1>2. /\ todo = <<>> /\ task = "copyover" /\ n \notin handed /\ handed' = handed \cup {n}
      /\ UNCHANGED <<file, linked, task>>
  BY DEF HandDown
<1>3. body'[n] = s /\ (\A x \in Name \ {n} : body'[x] = body[x]) /\ s # Nil
  BY <1>0, <1>1, NilIs DEF TypeOK
<1>4. Pending(n)' /\ \A i \in DOMAIN todo' : todo'[i].who = n /\ todo'[i].sheet = s
  BY <1>1, OneSave DEF SaveOf, Pending
<1>5. SavesAreCurrent'
  BY <1>3, <1>4 DEF SavesAreCurrent, Playing
<1>6. GainsAreDue'
  <2>1. ASSUME NEW x \in Name \ {n}, body[x] # Nil, body[x].level # 1
        PROVE  file[x] # Nil /\ Worth(file[x]) >= Worth(body[x])
    BY <1>2, <2>1 DEF GInv, GainsAreDue, Playing, Pending
  <2> QED
    BY <1>2, <1>3, <1>4, <2>1 DEF GainsAreDue, Playing
<1>7. HandedAreKept'
  <2>1. ASSUME NEW x \in handed
        PROVE  file'[x] = body'[x]
    <3>1. x \in Name \ {n} /\ ~Pending(x)
      BY <1>0, <1>2, <2>1 DEF TypeOK, Pending
    <3> QED
      BY <1>2, <1>3, <2>1, <3>1 DEF GInv, HandedAreKept
  <2> QED
    BY <1>2, <1>4, <2>1 DEF HandedAreKept
<1>8. ASSUME RInv
      PROVE  OneIsTop'
  <2>1. FiledFacts /\ FiledFacts' /\ FirstFacts'
    BY <1>0, FiledIs, FiledNext, FirstNext DEF FiledFacts
  <2>2. AtTheTop(s) => Top(n)
    BY <1>1 DEF AtTheTop, Top, Playing
  <2>3. ASSUME NEW x \in Name
        PROVE  (AtTheTop(file'[x]) => Top(x)) /\ (Top(x)' => Top(x))
    <3>1. AtTheTop(file'[x]) => Top(x)
      BY <1>2, <2>1 DEF FiledFacts, Top
    <3>2. AtTheTop(body'[x]) => Top(x)
      BY <1>3, <2>2 DEF Top
    <3>3. (Filed(x))' = file'[x] \/ (AtTheTop((Filed(x))') => Top(x))
      BY <1>4, <2>1, <2>2 DEF FiledFacts, FirstFacts
    <3> QED
      BY <3>1, <3>2, <3>3 DEF Top
  <2> QED
    BY <1>8, <2>3, TopKept DEF RInv
<1> QED
  BY <1>2, <1>5, <1>6, <1>7, <1>8 DEF Kept, GInv, RInv, RebootSaves

LEMMA RecoverIsKept ==
  ASSUME IInv, TypeOK', GInv, NEW n \in Name, Recover(n)
  PROVE  Kept
<1>1. /\ task' = "recover" /\ todo = <<>> /\ todo' = <<>> /\ file' = file /\ TypeOK
      /\ IsSaved(file[n]) /\ Loaded(n) = file[n] /\ Worth(file[n]) \in Nat
  BY PlayingSheet DEF Recover, HandedAreSaved, disk, IsSaved, Loaded, IInv, TypeInv
<1>2. body' = body \/ body' = [body EXCEPT ![n] = file[n]]
  BY <1>1 DEF Recover
<1>3. CASE body' = body
  BY <1>1, <1>3, QuietIsKept
<1>4. CASE body' = [body EXCEPT ![n] = file[n]]
  <2>1. body'[n] = file[n] /\ \A x \in Name \ {n} : body'[x] = body[x]
    BY <1>1, <1>4 DEF TypeOK
  <2>2. AtTheTop(body'[n]) => Top(n)
    BY <1>1, <2>1, FiledIs DEF Top
  <2>3. \A i \in DOMAIN todo' : FALSE
    BY <1>1
  <2> QED
    BY <1>1, <2>1, <2>2, <2>3, OneCommand
<1> QED
  BY <1>2, <1>3, <1>4

LEMMA HighRanks ==
  ASSUME NEW s \in Sheet, s.level >= 3
  PROVE  s.level \in 3..8 /\ (OneFounder => s.level >= 5)
<1>1. PICK l \in Levels : l = s.level
  BY DEF Sheet
<1>2. PICK q \in Staff : l = Rank[q]
  BY <1>1 DEF Levels
<1>3. Rank[q] \in 3..8 /\ (OneFounder => Rank[q] >= 5)
  BY RestartConstants DEF OneFounder
<1> QED
  BY <1>1, <1>2, <1>3

\* Who is linked and not forced to save is him who reboots, or of level one.
LEMMA RebootIsKept ==
  ASSUME IInv, TypeOK', GInv, NEW p \in Name, Reboot(p)
  PROVE  Kept
<1>0. TypeOK
  BY DEF IInv, TypeInv
<1>1. /\ todo = <<>> /\ task' = "reboot" /\ UNCHANGED <<file, body, linked>>
      /\ Playing(p) /\ body[p] \in Sheet /\ body[p].level >= 3
  BY <1>0, PlayingSheet DEF Reboot, Idle, game, Playing, TypeOK
<1>2. ASSUME NEW i \in DOMAIN todo'
      PROVE  todo'[i].sheet = body[todo'[i].who] /\ todo'[i].who \in Name
  <2>1. PICK n \in Rebooted(p) : todo'[i] = SaveOf(n, body[n])
    BY <1>0, RebootSavesAre
  <2> QED
    BY <2>1 DEF SaveOf, Rebooted, Forced
<1>3. ASSUME NEW n \in Rebooted(p)
      PROVE  Pending(n)'
  BY <1>0, RebootSavesAre DEF SaveOf, Pending
<1>4. SavesAreCurrent' /\ HandedAreKept'
  BY <1>1, <1>2 DEF SavesAreCurrent, HandedAreKept, Playing
<1>5. GainsAreDue'
  <2>1. \A n \in Name : ~Pending(n)
    BY <1>1 DEF Pending
  <2> QED
    BY <1>1, <2>1 DEF GInv, GainsAreDue, Playing
<1>6. ASSUME RInv
      PROVE  RInv'
  <2>1. FiledFacts /\ FiledFacts' /\ FirstFacts'
    BY <1>0, FiledIs, FiledNext, FirstNext DEF FiledFacts
  <2>2. ASSUME NEW x \in Name
        PROVE  (AtTheTop(file'[x]) => Top(x)) /\ (Top(x)' => Top(x))
    <3>1. AtTheTop(file'[x]) => Top(x)
      BY <1>1, <2>1 DEF FiledFacts, Top
    <3>2. (Filed(x))' \in {file[x], body[x]}
      BY <1>1, <1>2, <2>1 DEF FiledFacts, FirstFacts
    <3> QED
      BY <1>1, <3>1, <3>2 DEF Top
  <2>3. OneIsTop'
    BY <1>6, <2>2, TopKept DEF RInv
  <2>4. ASSUME NEW n \in linked, body[n].level # 1
        PROVE  n \in Rebooted(p)
    <3>1. n \in Name /\ Playing(n) /\ body[n] \in Sheet
      BY <1>0, PlayingSheet DEF TypeOK, Playing
    <3>2. body[p].level >= 5 /\ body[p].level \notin 0..2
      BY <1>1, <1>6, HighRanks DEF RInv
    <3>3. CASE body[n].level \notin 0..2
      <4>1. Top(n) /\ Top(p)
        BY <1>1, <3>1, <3>2, <3>3 DEF Top, AtTheTop, Playing
      <4>2. n = p
        BY <1>6, <3>1, <4>1 DEF RInv, OneIsTop
      <4> QED
        BY <4>2 DEF Rebooted
    <3>4. CASE body[n].level \in 0..2
      <4>1. body[p].level \in Int /\ body[n].level < body[p].level /\ ~(body[p].level < 5)
        BY <1>1, <3>2, <3>4, HighRanks
      <4> QED
        BY <2>4, <3>1, <4>1 DEF Rebooted, Forced, Outranks
    <3> QED
      BY <3>3, <3>4
  <2>5. RebootSaves'
    BY <1>1, <1>3, <2>4 DEF RebootSaves
  <2> QED
    BY <1>6, <2>3, <2>5 DEF RInv
<1> QED
  BY <1>4, <1>5, <1>6 DEF Kept, GInv

LEMMA FreshIsKept ==
  ASSUME TypeOK', Fresh, todo' = <<>>, file' = file, task' # "copyover", task' # "reboot"
  PROVE  Kept
<1>1. \A n \in Name : body'[n] = Nil
  BY DEF Fresh, Nobody
<1>2. GInv'
  BY <1>1 DEF GInv, SavesAreCurrent, GainsAreDue, HandedAreKept, Playing
<1>3. ASSUME RInv
      PROVE  OneIsTop'
  <2>1. FiledFacts'
    BY FiledNext
  <2>2. \A n \in Name : Top(n)' <=> AtTheTop(file[n])
    BY <1>1, <2>1 DEF FiledFacts, Top, AtTheTop
  <2> QED
    BY <1>3, <2>2 DEF RInv, OneIsTop
<1> QED
  BY <1>2, <1>3 DEF Kept, RInv, RebootSaves

LEMMA RestartIsKept ==
  ASSUME IInv, TypeOK', GInv,
         \/ \E n \in Name : HandDown(n) \/ Recover(n) \/ Reboot(n)
         \/ Copyover \/ Exec \/ ExecFails \/ Recovered \/ Die
  PROVE  Kept
<1>1. CASE Copyover
  <2>1. todo = <<>> /\ handed' = {} /\ task' = "copyover" /\ UNCHANGED <<body, file, todo>>
    BY <1>1 DEF Copyover, Idle, disk, IInv, HandedAreSaved
  <2> QED
    BY <2>1, QuietIsKept
<1>2. CASE ExecFails \/ Recovered
  <2>1. todo = <<>> /\ task' = "idle" /\ UNCHANGED <<body, file, todo>>
    BY <1>2 DEF ExecFails, AllHanded, Recovered, disk, game, IInv, HandedAreSaved
  <2> QED
    BY <2>1, QuietIsKept
<1>3. CASE Exec \/ Die
  <2>1. todo' = <<>> /\ file' = file /\ task' # "copyover" /\ task' # "reboot" /\ Fresh
    BY <1>3 DEF Exec, AllHanded, Die, disk
  <2> QED
    BY <2>1, FreshIsKept
<1> QED
  BY <1>1, <1>2, <1>3, HandDownIsKept, RecoverIsKept, RebootIsKept

LEMMA KeptStep ==
  Reliable /\ IInv /\ GInv /\ [Next]_vars => Kept
<1> SUFFICES ASSUME Reliable, IInv, GInv, [Next]_vars PROVE Kept
  OBVIOUS
<1>1. TypeOK'
  BY TypeStep DEF IInv, TypeInv
<1>2. CASE Next
  BY <1>1, <1>2, DialogueIsKept, PlayIsKept, RestartIsKept, DiskIsKept DEF Next
<1>3. CASE UNCHANGED vars
  BY <1>3 DEF vars, disk, game, Kept, GInv, SavesAreCurrent, GainsAreDue, HandedAreKept, RInv, OneIsTop,
              RebootSaves, Top, Filed, IsFirst, Playing, Pending
<1> QED
  BY <1>2, <1>3

LEMMA GainsInit ==
  Init => GInv
BY DEF Init, Nobody, GInv, SavesAreCurrent, GainsAreDue, HandedAreKept, Playing

LEMMA RestartInit ==
  Init /\ OneFounder => RInv
<1> SUFFICES ASSUME Init, OneFounder PROVE RInv
  OBVIOUS
<1>1. TypeOK
  BY TypeInit DEF TypeInv
<1>2. \A n \in Name : Filed(n) = file[n] /\ body[n] = Nil /\ (AtTheTop(file[n]) => n \in Staff)
  BY <1>1, FiledIs DEF Init, Nobody, AtTheTop
<1> QED
  BY <1>2 DEF Init, OneFounder, RInv, OneIsTop, RebootSaves, Top, AtTheTop

\* When a command has returned, a crash takes no coin from anybody above level
\* one, where files are written in full: do_give, do_get and do_drop save whom
\* they change, a gain of level saves, and a bank only moves coins or burns
\* them.
THEOREM GainsSurvive ==
  ASSUME Reliable
  PROVE  Spec => []GainsAreSaved
<1>1. Careful
  BY DEF Reliable
<1>2. Spec => []IInv
  BY <1>1, Invariance
<1>3. Init => GInv
  BY GainsInit
<1>4. IInv /\ GInv /\ [Next]_vars => GInv'
  BY KeptStep DEF Kept
<1>5. IInv /\ GInv => GainsAreSaved
  BY DEF GInv, GainsAreDue, GainsAreSaved, Pending
<1> QED
  BY <1>2, <1>3, <1>4, <1>5, PTL DEF Spec

\* When copyover() calls execl, every linked player is on file as he is, those
\* of level one included: each was written down and saved in the same loop, and
\* nothing moves any more.
THEOREM CopyoversLoseNobody ==
  ASSUME Reliable
  PROVE  Spec => []CopyoverKeepsAll
<1>1. Careful
  BY DEF Reliable
<1>2. Spec => []IInv
  BY <1>1, Invariance
<1>3. Init => GInv
  BY GainsInit
<1>4. IInv /\ GInv /\ [Next]_vars => GInv'
  BY KeptStep DEF Kept
<1>5. IInv /\ GInv => CopyoverKeepsAll
  BY DEF GInv, HandedAreKept, CopyoverKeepsAll, AllHanded, Pending
<1> QED
  BY <1>2, <1>3, <1>4, <1>5, PTL DEF Spec

\* A reboot loses nobody above level one, where one player alone has trust, and
\* his is L3 at least: do_force does nothing for less and leaves out who is of
\* the same trust as he who gives the command, and do_reboot saves only him.
THEOREM RebootsLoseNobody ==
  ASSUME Reliable, OneFounder
  PROVE  Spec => []RebootKeepsAll
<1>1. Careful
  BY DEF Reliable
<1>2. Spec => []IInv
  BY <1>1, Invariance
<1>3. Init => GInv /\ RInv
  BY GainsInit, RestartInit
<1>4. IInv /\ GInv /\ RInv /\ [Next]_vars => GInv' /\ RInv'
  BY KeptStep DEF Kept
<1>5. IInv /\ GInv /\ RInv => RebootKeepsAll
  BY DEF RInv, RebootSaves, RebootKeepsAll, Pending
<1> QED
  BY <1>2, <1>3, <1>4, <1>5, PTL DEF Spec

----------------------------------------------------------------------------
(* Mobile programs. *)

\* The inductive invariant.

\* cond[l] says whether the outermost l ifs are true, at every level that is
\* open, not the last alone: an endif comes back to the level below.
Nested(f) ==
  /\ Len(f.blocks) = f.level
  /\ \A l \in 0 .. f.level : f.cond[l] <=> \A j \in 1 .. l : f.blocks[j]

GoodCall == {f \in Call : f.kind = "program" => Nested(f)}

ProgramsWorld == people \in [Room -> Seq(Char)] /\ delay \in [Mob -> -1 .. MaxDelay]

\* An activation is counted as long as it is on the stack: the count may be too
\* high (GivesUp does not take one off), never too low.
Stack(cs, n) == cs \in Seq(GoodCall) /\ n \in Nat /\ Running(cs) \in 0 .. n

BlocksInv == ProgramsWorld /\ Stack(calls, call_level)

----------------------------------------------------------------------------
\* The stack.

LEMMA AppendFacts ==
  ASSUME NEW S, NEW s \in Seq(S), NEW e \in S
  PROVE  /\ Append(s, e) \in Seq(S) /\ Len(Append(s, e)) = Len(s) + 1
         /\ DOMAIN Append(s, e) = DOMAIN s \cup {Len(s) + 1}
         /\ \A i \in DOMAIN s : Append(s, e)[i] = s[i]
         /\ Append(s, e)[Len(s) + 1] = e
BY SMT

LEMMA FrontFacts ==
  ASSUME NEW S, NEW s \in Seq(S), s # <<>>
  PROVE  /\ Front(s) \in Seq(S) /\ Last(s) \in S /\ Len(Front(s)) = Len(s) - 1
         /\ \A i \in 1 .. Len(s) - 1 : Front(s)[i] = s[i]
         /\ s = Append(Front(s), Last(s))
<1>1. Len(s) \in Nat /\ Len(s) # 0 /\ \A i \in 1 .. Len(s) : s[i] \in S
  BY EmptySeq, ElementOfSeq, LenProperties, SMT
<1>2. \A i \in 1 .. Len(s) - 1 : s[i] \in S
  BY <1>1, SMT
<1>3. 1 \in Int /\ Len(s) - 1 \in Int
  BY <1>1, SMT
<1>4. /\ SubSeq(s, 1, Len(s) - 1) \in Seq(S)
      /\ Len(SubSeq(s, 1, Len(s) - 1)) = IF 1 <= Len(s) - 1 THEN Len(s) - 1 - 1 + 1 ELSE 0
      /\ \A i \in 1 .. Len(s) - 1 - 1 + 1 : SubSeq(s, 1, Len(s) - 1)[i] = s[1 + i - 1]
  BY <1>2, <1>3, SubSeqProperties
<1>5. /\ Front(s) \in Seq(S) /\ Last(s) \in S /\ Len(Front(s)) = Len(s) - 1
      /\ \A i \in 1 .. Len(s) - 1 : Front(s)[i] = s[i]
  <2> DEFINE m == Len(s) - 1
  <2>1. m \in Nat /\ (IF 1 <= m THEN m - 1 + 1 ELSE 0) = m /\ m - 1 + 1 = m
    <3>1. \A k \in Nat : k # 0 => k - 1 \in Nat /\ k - 1 - 1 + 1 = k - 1 /\ (~ (1 <= k - 1) => k - 1 = 0)
      BY SMT
    <3> QED
      BY <1>1, <3>1
  <2>2. Last(s) \in S
    BY <1>1, SMT DEF Last
  <2>3. \A i \in 1 .. m : 1 + i - 1 = i
    BY <2>1, SMT
  <2> HIDE DEF m
  <2> QED
    BY <1>4, <2>1, <2>2, <2>3 DEF Front, m
<1>6. Append(Front(s), Last(s)) \in Seq(S) /\ Len(Append(Front(s), Last(s))) = Len(s)
  BY <1>1, <1>5, AppendFacts, SMT
<1>7. \A i \in 1 .. Len(s) : Append(Front(s), Last(s))[i] = s[i]
  BY <1>1, <1>5, SMT DEF Last
<1> QED
  BY <1>5, <1>6, <1>7, SeqEqual, SMT

\* A program more on the stack is one more that runs.
LEMMA RunningAppend ==
  ASSUME NEW S, NEW cs \in Seq(S), NEW f \in S
  PROVE  /\ Running(cs) \in Nat
         /\ Running(Append(cs, f)) = IF f.kind = "program" THEN Running(cs) + 1 ELSE Running(cs)
<1> DEFINE A == {i \in DOMAIN cs : cs[i].kind = "program"}
           B == {i \in DOMAIN Append(cs, f) : Append(cs, f)[i].kind = "program"}
           n == Len(cs) + 1
<1>1. Len(cs) \in Nat /\ DOMAIN cs = 1 .. Len(cs)
  BY LenProperties
<1>2. IsFiniteSet(A)
  <2>1. IsFiniteSet(1 .. Len(cs))
    BY <1>1, FS_Interval, SMT
  <2> QED
    BY <1>1, <2>1, FS_Subset
<1>3. B = IF f.kind = "program" THEN A \cup {n} ELSE A
  BY AppendFacts
<1>4. n \notin A
  BY <1>1, SMT
<1>5. Cardinality(A) \in Nat
  BY <1>2, FS_CardinalityType
<1>6. Cardinality(A \cup {n}) = Cardinality(A) + 1
  BY <1>2, <1>4, FS_AddElement
<1> QED
  BY <1>3, <1>5, <1>6 DEF Running

LEMMA StackAppend ==
  ASSUME NEW cs, NEW n, Stack(cs, n), NEW f \in GoodCall, f.kind # "program"
  PROVE  Stack(Append(cs, f), n)
BY RunningAppend, AppendFacts, Zenon DEF Stack

LEMMA StackFront ==
  ASSUME NEW cs, NEW n, Stack(cs, n), cs # <<>>
  PROVE  /\ Stack(Front(cs), n) /\ Last(cs) \in GoodCall
         /\ Last(cs).kind = "program" => n - 1 \in Nat /\ Stack(Front(cs), n - 1)
<1>1. /\ Front(cs) \in Seq(GoodCall) /\ Last(cs) \in GoodCall
      /\ cs = Append(Front(cs), Last(cs))
  BY FrontFacts DEF Stack
<1>2. /\ Running(Front(cs)) \in Nat
      /\ Running(cs) = IF Last(cs).kind = "program" THEN Running(Front(cs)) + 1 ELSE Running(Front(cs))
  BY <1>1, RunningAppend, Zenon
<1>3. n \in Nat /\ Running(cs) \in 0 .. n
  BY DEF Stack
<1>4. Running(Front(cs)) \in 0 .. n
  BY <1>2, <1>3, SMT
<1>5. Last(cs).kind = "program" => n - 1 \in Nat /\ Running(Front(cs)) \in 0 .. n - 1
  BY <1>2, <1>3, SMT
<1> QED
  BY <1>1, <1>3, <1>4, <1>5 DEF Stack
----------------------------------------------------------------------------
\* Rooms.

\* A set of positions that is not empty has a first one.
LEMMA LeastPosition ==
  ASSUME NEW n \in Nat, NEW I \in SUBSET (1 .. n), I # {}
  PROVE  \E i \in I : \A j \in I : i <= j
<1> DEFINE R == OpToRel(<, Nat)
<1>1. I \subseteq Nat
  BY SMT
<1>2. PICK i \in I : \A j \in I : ~ (<<j, i>> \in R)
  <2>1. IsWellFoundedOn(R, Nat)
    BY NatLessThanWellFounded
  <2> HIDE DEF R
  <2> QED
    BY <1>1, <2>1, WFMin, Zenon
<1>3. \A j \in I : ~ (j < i)
  BY <1>1, <1>2 DEF OpToRel
<1> QED
  BY <1>1, <1>3, SMT

LEMMA RemoveFirstType ==
  ASSUME NEW S, NEW s \in Seq(S), NEW e
  PROVE  RemoveFirst(s, e) \in Seq(S)
<1> DEFINE I == {i \in 1 .. Len(s) : s[i] = e}
<1>1. Len(s) \in Nat /\ \A i \in 1 .. Len(s) : s[i] \in S
  BY LenProperties, ElementOfSeq
<1>2. CASE I = {}
  BY <1>2 DEF RemoveFirst
<1>3. CASE I # {}
  <2>1. Min(I) \in 1 .. Len(s)
    <3>1. \E i \in I : \A j \in I : i <= j
      BY <1>1, <1>3, LeastPosition, Zenon
    <3> QED
      BY <3>1 DEF Min
  <2>2. RemoveFirst(s, e) = SubSeq(s, 1, Min(I) - 1) \o SubSeq(s, Min(I) + 1, Len(s))
    BY <1>3 DEF RemoveFirst, RemoveAt, SelectInSeq
  <2>3. \A k \in 1 .. Len(s) :
          SubSeq(s, 1, k - 1) \in Seq(S) /\ SubSeq(s, k + 1, Len(s)) \in Seq(S)
    <3> SUFFICES ASSUME NEW k \in 1 .. Len(s)
                 PROVE  SubSeq(s, 1, k - 1) \in Seq(S) /\ SubSeq(s, k + 1, Len(s)) \in Seq(S)
      OBVIOUS
    <3>1. /\ k - 1 \in Int /\ k + 1 \in Int /\ 1 \in Int /\ Len(s) \in Int
          /\ \A i \in 1 .. k - 1 : s[i] \in S
          /\ \A i \in k + 1 .. Len(s) : s[i] \in S
      BY <1>1, SMT
    <3> QED
      BY <3>1, SubSeqProperties
  <2> QED
    BY <2>1, <2>2, <2>3, ConcatProperties
<1> QED
  BY <1>2, <1>3

LEMMA MovesKeepRooms ==
  ASSUME ProgramsWorld, NEW c, NEW d
  PROVE  /\ char_from_room(c) \in [Room -> Seq(Char)]
         /\ \A r \in Room : d \in Char /\ char_to_room(d, r) => people' \in [Room -> Seq(Char)]
<1>1. \A x : \A r \in Room : RemoveFirst(people[r], x) \in Seq(Char)
  BY RemoveFirstType DEF ProgramsWorld
<1>2. \A x : char_from_room(x) \in [Room -> Seq(Char)]
  BY <1>1 DEF char_from_room
<1>3. ASSUME NEW r \in Room, d \in Char, char_to_room(d, r)
      PROVE  people' \in [Room -> Seq(Char)]
  <2>1. <<d>> \in Seq(Char)
    BY <1>3
  <2>2. <<d>> \o char_from_room(d)[r] \in Seq(Char)
    BY <1>2, <2>1, ConcatProperties
  <2> QED
    BY <1>2, <1>3, <2>2 DEF char_to_room
<1> QED
  BY <1>2, <1>3

\* Who is here has a room, with himself in it.
LEMMA RoomFacts ==
  ASSUME ProgramsWorld, NEW c, Here(c)
  PROVE  /\ RoomOf(c) \in Room /\ c \in Char /\ Head(people[RoomOf(c)]) \in Char
         /\ \A x \in Mates(c) : Here(x) /\ x \in Char
<1>1. RoomOf(c) \in Room /\ c \in ToSet(people[RoomOf(c)])
  BY DEF Here, RoomOf
<1>2. people[RoomOf(c)] \in Seq(Char)
  BY <1>1 DEF ProgramsWorld
<1>3. ToSet(people[RoomOf(c)]) \subseteq Char /\ people[RoomOf(c)] # <<>>
  BY <1>1, <1>2, LenProperties, ElementOfSeq, SMT DEF ToSet
<1>4. Head(people[RoomOf(c)]) \in Char
  BY <1>2, <1>3, HeadTailProperties
<1> QED
  BY <1>1, <1>3, <1>4 DEF Mates, Here

LEMMA NextType ==
  ASSUME ProgramsWorld, NEW c
  PROVE  next_in_room(c) \in Char \cup {NoOne}
<1> SUFFICES ASSUME Here(c) PROVE next_in_room(c) \in Char \cup {NoOne}
  BY DEF next_in_room
<1> DEFINE p == people[RoomOf(c)]
           i == CHOOSE i \in DOMAIN p : p[i] = c
<1>1. p \in Seq(Char) /\ c \in ToSet(p)
  BY DEF Here, RoomOf, ProgramsWorld
<1>2. i \in DOMAIN p /\ Len(p) \in Nat /\ DOMAIN p = 1 .. Len(p)
  BY <1>1, LenProperties DEF ToSet
<1>3. i # Len(p) => i + 1 \in 1 .. Len(p)
  <2> HIDE DEF i, p
  <2> QED
    BY <1>2, SMT
<1>4. i # Len(p) => p[i + 1] \in Char
  BY <1>1, <1>3, ElementOfSeq
<1> QED
  BY <1>4 DEF next_in_room
----------------------------------------------------------------------------
\* What starts activations.

\* A program starts outside of all ifs.
LEMMA ProgramIsNested ==
  ASSUME NEW m \in Mob
  PROVE  program(m) \in GoodCall
<1>1. 0 \in Level
  BY ProgramsConstants, SMT DEF Level
<1>2. program(m) \in Call
  <2>1. <<>> \in Seq(BOOLEAN)
    BY EmptySeq
  <2>2. program(m).state \in [Level -> {IN_BLOCK, BEGIN_BLOCK}]
    BY DEF program
  <2> QED
    BY <1>1, <2>1, <2>2 DEF program, Call
<1>3. Nested(program(m))
  BY <1>1, EmptySeq, SMT DEF program, Nested
<1> QED
  BY <1>2, <1>3 DEF GoodCall

LEMMA FlowKeepsStack ==
  ASSUME NEW cs, Stack(cs, call_level), NEW m \in Mob, program_flow(cs, m)
  PROVE  Stack(calls', call_level')
<1>1. cs \in Seq(GoodCall) /\ call_level \in Nat /\ Running(cs) \in 0 .. call_level
  BY DEF Stack
<1>2. call_level + 1 \in Nat /\ Running(cs) \in 0 .. call_level + 1 /\ Running(cs) + 1 \in 0 .. call_level + 1
  BY <1>1, SMT
<1>3. CASE call_level < MAX_CALL_LEVEL
  <2>1. calls' = Append(cs, program(m)) /\ call_level' = call_level + 1
    BY <1>3 DEF program_flow
  <2>2. calls' \in Seq(GoodCall)
    BY <1>1, <2>1, ProgramIsNested, AppendFacts
  <2>3. Running(calls') = Running(cs) + 1
    BY <1>1, <2>1, ProgramIsNested, RunningAppend DEF program
  <2> QED
    BY <1>2, <2>1, <2>2, <2>3 DEF Stack
<1>4. CASE ~ (call_level < MAX_CALL_LEVEL)
  BY <1>1, <1>2, <1>4 DEF program_flow, Stack
<1> QED
  BY <1>3, <1>4

LEMMA TriggersKeepStack ==
  ASSUME NEW cs, Stack(cs, call_level), NEW m \in Mob, Triggers(cs, m)
  PROVE  Stack(calls', call_level')
BY FlowKeepsStack DEF Triggers, Continue

\* Whatever somebody does, what it is done in the middle of is still there.
LEMMA InterpretKeeps ==
  ASSUME ProgramsWorld, NEW cs, Stack(cs, call_level), NEW c, Here(c), interpret(cs, c)
  PROVE  BlocksInv'
<1> USE RoomFacts
<1>1. RoomOf(c) \in Room /\ c \in Char /\ Head(people[RoomOf(c)]) \in Char
  OBVIOUS
<1>2. \A x \in Mates(c) \cap Scripted : x \in Mob
  BY ProgramsConstants
<1>3. ASSUME NEW x \in Char PROVE Visit(c, x) \in GoodCall /\ Visit(c, x).kind # "program"
  BY <1>1 DEF Visit, GoodCall, Call
<1>4. CASE Shows(cs, c)
  BY <1>1, <1>3, <1>4, StackAppend DEF Shows, Continue, BlocksInv, ProgramsWorld
<1>5. CASE Addresses(cs, c)
  BY <1>2, <1>5, FlowKeepsStack DEF Addresses, BlocksInv, ProgramsWorld
<1>6. CASE IsStopped(cs, c)
  BY <1>2, <1>6, FlowKeepsStack DEF IsStopped, BlocksInv, ProgramsWorld
<1>7. CASE Walk(cs, c)
  <2>1. people' \in [Room -> Seq(Char)]
    BY <1>1, <1>7, MovesKeepRooms DEF Walk
  <2>2. CASE c \in Player
    <3>1. calls' = Append(cs, Visit(c, c)) /\ call_level' = call_level
      BY <1>7, <2>2 DEF Walk, Continue
    <3>2. Stack(calls', call_level')
      BY <1>1, <1>3, <3>1, StackAppend
    <3> QED
      BY <1>7, <2>1, <3>2 DEF Walk, BlocksInv, ProgramsWorld
  <2>3. CASE c \notin Player
    <3>1. c \in Mob /\ Triggers(cs, c)
      BY <1>1, <1>7, <2>3 DEF Walk, Char
    <3> QED
      BY <1>7, <2>1, <3>1, TriggersKeepStack DEF Walk, BlocksInv, ProgramsWorld
  <2> QED
    BY <2>2, <2>3
<1>8. CASE Slays(cs, c)
  <2>1. PICK m \in Mates(c) \cap Mob : Triggers(Append(cs, Dying(m)), m)
    BY <1>8 DEF Slays
  <2>2. Dying(m) \in GoodCall /\ Dying(m).kind # "program"
    BY DEF Dying, GoodCall, Call
  <2>3. Stack(Append(cs, Dying(m)), call_level)
    BY <2>2, StackAppend
  <2> QED
    BY <1>8, <2>1, <2>3, TriggersKeepStack DEF Slays, BlocksInv, ProgramsWorld
<1> QED
  BY <1>4, <1>5, <1>6, <1>7, <1>8 DEF interpret

\* A mobile loaded enters a room and forgets its delay.
LEMMA LoadsKeepWorld ==
  ASSUME ProgramsWorld, NEW m \in Mob, NEW r \in Room, create_mobile(m, r)
  PROVE  ProgramsWorld'
<1>1. m \in Char /\ 0 \in -1 .. MaxDelay
  BY ProgramsConstants, SMT DEF Char
<1> QED
  BY <1>1, MovesKeepRooms DEF create_mobile, ProgramsWorld

LEMMA DelaysKeep ==
  ASSUME ProgramsWorld, NEW cs, Stack(cs, call_level), NEW m \in Mob,
         do_mpdelay(cs, m) \/ do_mpcancel(cs, m)
  PROVE  BlocksInv'
<1>1. -1 \in -1 .. MaxDelay /\ \A n \in 0 .. MaxDelay : n \in -1 .. MaxDelay
  BY ProgramsConstants, SMT
<1> QED
  BY <1>1 DEF do_mpdelay, do_mpcancel, Continue, ProgramsWorld, BlocksInv

\* So does whatever a mobile does by a mob command.
LEMMA MobInterpretKeeps ==
  ASSUME ProgramsWorld, NEW cs, Stack(cs, call_level), NEW m \in Mob, Here(m), mob_interpret(cs, m)
  PROVE  BlocksInv'
<1>1. RoomOf(m) \in Room /\ m \in Char /\ \A x \in Mates(m) : Here(x) /\ x \in Char
  BY RoomFacts
<1>2. CASE do_mpecho(cs, m) \/ do_mpkill(cs, m) \/ do_mpflee(cs, m)
  BY <1>2, InterpretKeeps DEF do_mpecho, do_mpkill, do_mpflee, interpret
<1>3. CASE do_mpgoto(cs, m)
  BY <1>1, <1>3, MovesKeepRooms DEF do_mpgoto, Continue, BlocksInv, ProgramsWorld
<1>4. CASE do_mptransfer(cs, m)
  <2>1. PICK p \in Player, r \in Room : char_to_room(p, r)
    BY <1>4 DEF do_mptransfer
  <2>2. people' \in [Room -> Seq(Char)]
    BY <2>1, MovesKeepRooms DEF Char
  <2> QED
    BY <1>4, <2>2 DEF do_mptransfer, Continue, BlocksInv, ProgramsWorld
<1>5. CASE do_mpforce(cs, m)
  BY <1>1, <1>5, InterpretKeeps DEF do_mpforce
<1>6. CASE do_mpmload(cs, m)
  BY <1>1, <1>6, LoadsKeepWorld DEF do_mpmload, Continue, BlocksInv
<1>7. CASE do_mppurge(cs, m)
  BY <1>7, MovesKeepRooms DEF do_mppurge, extract_char, Continue, BlocksInv, ProgramsWorld
<1>8. CASE do_mpdelay(cs, m) \/ do_mpcancel(cs, m)
  BY <1>8, DelaysKeep
<1>9. CASE do_mpcall(cs, m)
  BY <1>9, FlowKeepsStack DEF do_mpcall, BlocksInv, ProgramsWorld
<1> QED
  BY <1>2, <1>3, <1>4, <1>5, <1>6, <1>7, <1>8, <1>9 DEF mob_interpret
----------------------------------------------------------------------------
\* The lines of a program.

ProgramCall ==
  [kind : {"program"}, mob : Mob, level : Level, blocks : Seq(BOOLEAN),
   state : [Level -> {IN_BLOCK, BEGIN_BLOCK}], cond : [Level -> BOOLEAN]]

Sound(f) == f \in ProgramCall /\ Nested(f)

\* One field of a program at a time.
LEMMA SetCond ==
  ASSUME NEW f \in ProgramCall, NEW l \in Level, NEW c \in BOOLEAN
  PROVE  /\ [f EXCEPT !.cond[l] = c] \in ProgramCall
         /\ [f EXCEPT !.cond[l] = c].cond = [f.cond EXCEPT ![l] = c]
         /\ [f EXCEPT !.cond[l] = c].level = f.level
         /\ [f EXCEPT !.cond[l] = c].blocks = f.blocks
BY DEF ProgramCall

LEMMA SetState ==
  ASSUME NEW f \in ProgramCall, NEW l \in Level, NEW c \in {IN_BLOCK, BEGIN_BLOCK}
  PROVE  /\ [f EXCEPT !.state[l] = c] \in ProgramCall
         /\ [f EXCEPT !.state[l] = c].cond = f.cond
         /\ [f EXCEPT !.state[l] = c].level = f.level
         /\ [f EXCEPT !.state[l] = c].blocks = f.blocks
BY DEF ProgramCall

LEMMA SetBlocks ==
  ASSUME NEW f \in ProgramCall, NEW b \in Seq(BOOLEAN)
  PROVE  /\ [f EXCEPT !.blocks = b] \in ProgramCall
         /\ [f EXCEPT !.blocks = b].cond = f.cond
         /\ [f EXCEPT !.blocks = b].level = f.level
         /\ [f EXCEPT !.blocks = b].blocks = b
BY DEF ProgramCall

LEMMA SetLevel ==
  ASSUME NEW f \in ProgramCall, NEW l \in Level
  PROVE  /\ [f EXCEPT !.level = l] \in ProgramCall
         /\ [f EXCEPT !.level = l].cond = f.cond
         /\ [f EXCEPT !.level = l].level = l
         /\ [f EXCEPT !.level = l].blocks = f.blocks
BY DEF ProgramCall

LEMMA SetBlock ==
  ASSUME NEW f \in ProgramCall, NEW l \in 1 .. Len(f.blocks), NEW b \in BOOLEAN
  PROVE  /\ [f EXCEPT !.blocks[l] = b] \in ProgramCall
         /\ [f EXCEPT !.blocks[l] = b].cond = f.cond
         /\ [f EXCEPT !.blocks[l] = b].level = f.level
         /\ [f EXCEPT !.blocks[l] = b].blocks = [f.blocks EXCEPT ![l] = b]
<1>1. f.blocks \in Seq(BOOLEAN)
  BY DEF ProgramCall
<1>2. [f.blocks EXCEPT ![l] = b] \in Seq(BOOLEAN)
  BY <1>1, ExceptSeq
<1> QED
  BY <1>2 DEF ProgramCall

\* The levels of a program that has an if open, or room for one more.
LEMMA SoundFacts ==
  ASSUME NEW f, Sound(f)
  PROVE  /\ f \in ProgramCall /\ Nested(f) /\ DOMAIN f.blocks = 1 .. f.level /\ Len(f.blocks) = f.level
         /\ f.kind = "program" /\ f.mob \in Mob
         /\ f.level \in Nat /\ f.level < MAX_NESTED_LEVEL /\ 0 .. f.level \subseteq Level /\ f.level \in Level
         /\ f.blocks \in Seq(BOOLEAN) /\ f.cond \in [Level -> BOOLEAN]
         /\ f.level + 1 < MAX_NESTED_LEVEL => f.level + 1 \in Level
         /\ f.level # 0 => f.level - 1 \in Level /\ f.level - 1 \in 0 .. f.level /\ f.level \in 1 .. f.level
<1>1. f \in ProgramCall /\ Nested(f)
  BY DEF Sound
<1>2. f.level \in Level /\ f.kind = "program" /\ f.mob \in Mob /\ f.blocks \in Seq(BOOLEAN) /\ f.cond \in [Level -> BOOLEAN]
  BY <1>1 DEF ProgramCall
<1>3. DOMAIN f.blocks = 1 .. Len(f.blocks)
  BY <1>2, LenProperties
<1>4. /\ f.level \in Nat /\ f.level < MAX_NESTED_LEVEL /\ 0 .. f.level \subseteq Level
      /\ f.level + 1 < MAX_NESTED_LEVEL => f.level + 1 \in Level
      /\ f.level # 0 => f.level - 1 \in Level /\ f.level - 1 \in 0 .. f.level /\ f.level \in 1 .. f.level
  BY <1>2, ProgramsConstants, SMT DEF Level
<1> QED
  BY <1>1, <1>2, <1>3, <1>4 DEF Nested

\* if: one block more, true where the ifs around it are and it is.
LEMMA OpensBlock ==
  ASSUME NEW f, Sound(f), f.level + 1 < MAX_NESTED_LEVEL, NEW e \in BOOLEAN, NEW c \in BOOLEAN,
         c <=> f.cond[f.level] /\ e,
         NEW g \in ProgramCall, g.level = f.level + 1, g.blocks = Append(f.blocks, e),
         g.cond = [f.cond EXCEPT ![f.level + 1] = c]
  PROVE  Sound(g)
<1> USE SoundFacts
<1>1. f.level \in Nat /\ f.level + 1 \in Level /\ 0 .. f.level \subseteq Level
  OBVIOUS
<1>2. /\ Len(g.blocks) = f.level + 1 /\ g.blocks[f.level + 1] = e
      /\ \A j \in 1 .. f.level : g.blocks[j] = f.blocks[j]
  BY AppendFacts
<1>3. /\ g.cond[f.level + 1] = c
      /\ \A l \in Level : l # f.level + 1 => g.cond[l] = f.cond[l]
  BY <1>1
<1>4. \A l \in 0 .. f.level : f.cond[l] <=> \A j \in 1 .. l : f.blocks[j]
  BY DEF Nested
<1>5. ASSUME NEW l \in 0 .. g.level
      PROVE  g.cond[l] <=> \A j \in 1 .. l : g.blocks[j]
  <2>1. CASE l = f.level + 1
    <3>1. g.cond[l] = c /\ g.blocks[l] = e
      BY <1>2, <1>3, <2>1
    <3>2. f.cond[f.level] <=> \A j \in 1 .. f.level : f.blocks[j]
      BY <1>1, <1>4, SMT
    <3>3. 1 .. l = (1 .. f.level) \cup {l}
      BY <1>1, <2>1, SMT
    <3> QED
      BY <1>2, <3>1, <3>2, <3>3, Zenon
  <2>2. CASE l # f.level + 1
    <3>1. l \in 0 .. f.level /\ \A j \in 1 .. l : j \in 1 .. f.level
      BY <1>1, <2>2, SMT
    <3>2. l \in Level /\ g.cond[l] = f.cond[l]
      BY <1>1, <1>3, <2>2, <3>1
    <3> QED
      BY <1>2, <1>4, <3>1, <3>2, Zenon
  <2> QED
    BY <2>1, <2>2
<1> QED
  BY <1>2, <1>5 DEF Sound, Nested

\* or, and, else: another truth for the innermost block, told to cond where
\* the ifs around it are true.
LEMMA TurnsBlock ==
  ASSUME NEW f, Sound(f), f.level # 0, NEW b \in BOOLEAN,
         NEW g \in ProgramCall, g.level = f.level, g.blocks = [f.blocks EXCEPT ![f.level] = b],
         g.cond[f.level] <=> f.cond[f.level - 1] /\ b,
         \A l \in Level : l # f.level => g.cond[l] = f.cond[l]
  PROVE  Sound(g)
<1> USE SoundFacts
<1>1. f.level \in Nat /\ 0 .. f.level \subseteq Level /\ f.level \in 1 .. Len(f.blocks)
  OBVIOUS
<1>2. /\ Len(g.blocks) = f.level /\ g.blocks[f.level] = b
      /\ \A j \in 1 .. f.level : j # f.level => g.blocks[j] = f.blocks[j]
  BY <1>1, ExceptSeq
<1>4. \A l \in 0 .. f.level : f.cond[l] <=> \A j \in 1 .. l : f.blocks[j]
  BY DEF Nested
<1>5. ASSUME NEW l \in 0 .. g.level
      PROVE  g.cond[l] <=> \A j \in 1 .. l : g.blocks[j]
  <2>1. CASE l = f.level
    <3>1. \A j \in 1 .. f.level - 1 : j \in 1 .. f.level /\ j # f.level
      BY <1>1, SMT
    <3>2. f.cond[f.level - 1] <=> \A j \in 1 .. f.level - 1 : f.blocks[j]
      BY <1>4
    <3>3. 1 .. l = (1 .. f.level - 1) \cup {l}
      BY <1>1, <2>1, SMT
    <3> QED
      BY <1>2, <2>1, <3>1, <3>2, <3>3, Zenon
  <2>2. CASE l # f.level
    <3>1. l \in 0 .. f.level /\ \A j \in 1 .. l : j \in 1 .. f.level /\ j # f.level
      BY <1>1, <2>2, SMT
    <3>2. l \in Level /\ g.cond[l] = f.cond[l]
      BY <1>1, <2>2, <3>1
    <3> QED
      BY <1>2, <1>4, <3>1, <3>2, Zenon
  <2> QED
    BY <2>1, <2>2
<1> QED
  BY <1>2, <1>5 DEF Sound, Nested

\* endif: back to the block around.
LEMMA ClosesBlock ==
  ASSUME NEW f, Sound(f), f.level # 0,
         NEW g \in ProgramCall, g.level = f.level - 1, g.blocks = Front(f.blocks),
         \A l \in Level : l # f.level => g.cond[l] = f.cond[l]
  PROVE  Sound(g)
<1> USE SoundFacts
<1>1. /\ f.level \in Nat /\ 0 .. f.level \subseteq Level
      /\ \A l \in 0 .. f.level - 1 :
            l \in 0 .. f.level /\ l # f.level /\ \A j \in 1 .. l : j \in 1 .. f.level - 1
  BY SMT
<1>2. f.blocks # <<>>
  BY EmptySeq
<1>3. Len(g.blocks) = f.level - 1 /\ \A j \in 1 .. f.level - 1 : g.blocks[j] = f.blocks[j]
  <2>1. f.blocks \in Seq(BOOLEAN) /\ Len(f.blocks) = f.level
    OBVIOUS
  <2>2. /\ Len(Front(f.blocks)) = Len(f.blocks) - 1
        /\ \A j \in 1 .. Len(f.blocks) - 1 : Front(f.blocks)[j] = f.blocks[j]
    BY <1>2, <2>1, FrontFacts, Zenon
  <2> QED
    BY <2>1, <2>2
<1>4. \A l \in 0 .. f.level : f.cond[l] <=> \A j \in 1 .. l : f.blocks[j]
  BY DEF Nested
<1>5. ASSUME NEW l \in 0 .. g.level
      PROVE  g.cond[l] <=> \A j \in 1 .. l : g.blocks[j]
  <2>1. l \in 0 .. f.level - 1
    OBVIOUS
  <2>2. g.cond[l] = f.cond[l]
    BY <1>1, <2>1
  <2> QED
    BY <1>1, <1>3, <1>4, <2>1, <2>2, Zenon
<1> QED
  BY <1>3, <1>5 DEF Sound, Nested
LEMMA SoundIsGood ==
  ASSUME NEW f
  PROVE  /\ Sound(f) => f \in GoodCall /\ f.kind = "program"
         /\ f \in GoodCall /\ f.kind = "program" => Sound(f)
<1>1. Sound(f) => f \in GoodCall /\ f.kind = "program"
  BY DEF Sound, GoodCall, Call, ProgramCall
<1>2. f \in GoodCall /\ f.kind = "program" => Sound(f)
  BY DEF Sound, GoodCall, Call, ProgramCall
<1> QED
  BY <1>1, <1>2

\* The activation that is read, and those it interrupts.
LEMMA TopFacts ==
  ASSUME BlocksInv, IsInnermost("program")
  PROVE  /\ Sound(Innermost) /\ Stack(Outer, call_level)
         /\ call_level - 1 \in Nat /\ Stack(Outer, call_level - 1)
<1>1. calls # <<>> /\ Last(calls).kind = "program" /\ Stack(calls, call_level)
  BY DEF BlocksInv, IsInnermost, Innermost
<1> QED
  BY <1>1, StackFront, SoundIsGood DEF Innermost, Outer

\* A line that changes nothing but the program it is read from.
LEMMA ReadsKeeps ==
  ASSUME BlocksInv, IsInnermost("program"), NEW g, Sound(g), Reads(g)
  PROVE  BlocksInv'
<1>1. Stack(Outer, call_level - 1) /\ call_level \in Nat /\ call_level - 1 \in Nat
  BY TopFacts DEF BlocksInv, Stack
<1>2. g \in GoodCall /\ g.kind = "program"
  BY SoundIsGood
<1>3. calls' \in Seq(GoodCall) /\ Running(calls') = Running(Outer) + 1
  BY <1>1, <1>2, AppendFacts, RunningAppend DEF Reads, Stack
<1>4. Running(Outer) + 1 \in 0 .. call_level
  BY <1>1, SMT DEF Stack
<1> QED
  BY <1>1, <1>3, <1>4 DEF Reads, Stack, BlocksInv, ProgramsWorld

LEMMA GivingUpKeeps ==
  ASSUME BlocksInv, IsInnermost("program"), GivesUp \/ Returns
  PROVE  BlocksInv'
BY TopFacts DEF GivesUp, Returns, BlocksInv, ProgramsWorld

LEMMA IfKeeps ==
  ASSUME BlocksInv, IsInnermost("program"), If(Innermost)
  PROVE  BlocksInv'
<1> DEFINE f == Innermost
<1>1. Sound(f)
  BY TopFacts
<1> HIDE DEF f
<1>2. CASE GivesUp
  BY <1>2, GivingUpKeeps
<1>3. CASE ~GivesUp
  <2>1. f.level + 1 < MAX_NESTED_LEVEL
    <3>1. ~ (f.level + 1 >= MAX_NESTED_LEVEL)
      BY <1>3, Zenon DEF If, f
    <3>2. f.level \in Nat /\ MAX_NESTED_LEVEL \in Nat
      BY <1>1, SoundFacts, ProgramsConstants
    <3> QED
      BY <3>1, <3>2, SMT
  <2>2. f \in ProgramCall /\ f.level \in Level /\ f.level + 1 \in Level /\ f.level \in Nat
    BY <1>1, <2>1, SoundFacts
  <2> DEFINE v == [f EXCEPT !.state[f.level] = BEGIN_BLOCK]
             w == [v EXCEPT !.level = f.level + 1]
  <2>3. v \in ProgramCall /\ v.cond = f.cond /\ v.level = f.level /\ v.blocks = f.blocks
    BY <2>2, SetState
  <2>4. OpenIf(f) = w
    BY <2>2 DEF OpenIf, ProgramCall
  <2>5. w \in ProgramCall /\ w.cond = f.cond /\ w.level = f.level + 1 /\ w.blocks = f.blocks
    BY <2>2, <2>3, SetLevel
  <2> HIDE DEF v, w
  <2>6. PICK e \in BOOLEAN :
          LET g == [w EXCEPT !.blocks = Append(@, e)]
          IN IF Outside(g) THEN Reads([g EXCEPT !.cond[g.level] = FALSE])
             ELSE Reads([g EXCEPT !.cond[g.level] = e])
    BY <1>3, <2>4 DEF If, f, cmd_eval
  <2> DEFINE g == [w EXCEPT !.blocks = Append(f.blocks, e)]
  <2>7. g \in ProgramCall /\ g.cond = f.cond /\ g.level = f.level + 1 /\ g.blocks = Append(f.blocks, e)
    <3>1. Append(f.blocks, e) \in Seq(BOOLEAN)
      BY <1>1, SoundFacts, AppendFacts
    <3> QED
      BY <2>5, <3>1, SetBlocks
  <2>8. IF Outside(g) THEN Reads([g EXCEPT !.cond[g.level] = FALSE]) ELSE Reads([g EXCEPT !.cond[g.level] = e])
    BY <2>5, <2>6
  <2> HIDE DEF g
  <2>9. f.level + 1 - 1 = f.level /\ f.cond[f.level] \in BOOLEAN
    BY <1>1, <2>2, SoundFacts, SMT
  <2>10. Outside(g) <=> ~ f.cond[f.level]
    <3>2. g.level - 1 = f.level
      <4>1. g.level = f.level + 1 /\ f.level \in Nat
        BY <2>2, <2>7, Zenon
      <4> QED
        BY <4>1, SMT
    <3>1. g.cond[g.level - 1] = f.cond[f.level]
      BY <2>7, <3>2, Zenon
    <3> QED
      BY <2>9, <3>1, Zenon DEF Outside
  <2>11. PICK c \in BOOLEAN : (c <=> f.cond[f.level] /\ e) /\ Reads([g EXCEPT !.cond[g.level] = c])
    BY <2>8, <2>10, Zenon
  <2> DEFINE h == [g EXCEPT !.cond[g.level] = c]
  <2>12. h \in ProgramCall /\ h.cond = [f.cond EXCEPT ![f.level + 1] = c]
         /\ h.level = f.level + 1 /\ h.blocks = Append(f.blocks, e)
    BY <2>2, <2>7, SetCond
  <2>13. Sound(h)
    <3> HIDE DEF h
    <3> QED
      BY <1>1, <2>1, <2>11, <2>12, OpensBlock
  <2> QED
    BY <2>11, <2>13, ReadsKeeps
<1> QED
  BY <1>2, <1>3
LEMMA TurningKeeps ==
  ASSUME BlocksInv, IsInnermost("program"), Innermost.level # 0, NEW b \in BOOLEAN, NEW c \in BOOLEAN,
         Innermost.cond[Innermost.level - 1] => (c <=> b),
         IF Outside(Innermost) THEN Reads([Innermost EXCEPT !.blocks[Innermost.level] = b])
         ELSE Reads([[Innermost EXCEPT !.blocks[Innermost.level] = b] EXCEPT !.cond[Innermost.level] = c])
  PROVE  BlocksInv'
<1> DEFINE f == Innermost
           g == [f EXCEPT !.blocks[f.level] = b]
           h == [g EXCEPT !.cond[f.level] = c]
<1>1. Sound(f)
  BY TopFacts
<1> HIDE DEF f
<1>2. /\ f \in ProgramCall /\ f.level \in Level /\ f.level - 1 \in Level /\ f.level \in Nat /\ f.level # 0
      /\ f.cond \in [Level -> BOOLEAN] /\ f.level \in 1 .. Len(f.blocks)
  BY <1>1, SoundFacts DEF f
<1>3. /\ g \in ProgramCall /\ g.cond = f.cond /\ g.level = f.level
      /\ g.blocks = [f.blocks EXCEPT ![f.level] = b]
  BY <1>2, SetBlock
<1>4. IF Outside(f) THEN Reads(g) ELSE Reads(h)
  BY DEF f
<1> HIDE DEF g
<1>5. /\ h \in ProgramCall /\ h.cond = [f.cond EXCEPT ![f.level] = c]
      /\ h.level = f.level /\ h.blocks = g.blocks
  BY <1>2, <1>3, SetCond
<1> HIDE DEF h
<1>6. f.cond[f.level] => f.cond[f.level - 1]
  <2>1. \A l \in 0 .. f.level : f.cond[l] <=> \A j \in 1 .. l : f.blocks[j]
    BY <1>1, SoundFacts DEF Nested
  <2>2. f.level \in 0 .. f.level /\ f.level - 1 \in 0 .. f.level /\ \A j \in 1 .. f.level - 1 : j \in 1 .. f.level
    BY <1>2, SMT
  <2> QED
    BY <2>1, <2>2, Zenon
<1>7. CASE Outside(f)
  <2>1. ~ f.cond[f.level - 1]
    BY <1>7, Zenon DEF Outside
  <2>2. Sound(g)
    BY <1>1, <1>2, <1>3, <1>6, <2>1, TurnsBlock
  <2> QED
    BY <1>4, <1>7, <2>2, ReadsKeeps
<1>8. CASE ~Outside(f)
  <2>1. f.cond[f.level - 1]
    BY <1>2, <1>8 DEF Outside
  <2>2. /\ h.cond[f.level] = c /\ \A l \in Level : l # f.level => h.cond[l] = f.cond[l]
    BY <1>2, <1>5
  <2>3. h.cond[f.level] <=> f.cond[f.level - 1] /\ b
    BY <2>1, <2>2 DEF f
  <2>4. Sound(h)
    BY <1>1, <1>2, <1>3, <1>5, <2>2, <2>3, TurnsBlock, Zenon
  <2> QED
    BY <1>4, <1>8, <2>4, ReadsKeeps
<1> QED
  BY <1>7, <1>8

\* What the ifs of the innermost activation say.
LEMMA TopBlock ==
  ASSUME BlocksInv, IsInnermost("program"), ~NoIf(Innermost)
  PROVE  /\ Innermost.level # 0 /\ Innermost.cond \in [Level -> BOOLEAN] /\ Innermost.level \in Level
         /\ Innermost.blocks[Innermost.level] \in BOOLEAN /\ Innermost.cond[Innermost.level] \in BOOLEAN
         /\ Innermost.cond[Innermost.level] <=> Innermost.cond[Innermost.level - 1] /\ Innermost.blocks[Innermost.level]
<1> DEFINE f == Innermost
<1>1. Sound(f) /\ f.level # 0
  BY TopFacts DEF NoIf
<1> HIDE DEF f
<1>2. /\ f.level \in Nat /\ f.level # 0 /\ f.level \in Level /\ f.level - 1 \in Level
      /\ f.cond \in [Level -> BOOLEAN] /\ f.blocks \in Seq(BOOLEAN) /\ f.level \in 1 .. Len(f.blocks)
      /\ \A l \in 0 .. f.level : f.cond[l] <=> \A j \in 1 .. l : f.blocks[j]
  BY <1>1, SoundFacts DEF Nested
<1>3. f.blocks[f.level] \in BOOLEAN /\ f.cond[f.level] \in BOOLEAN
  BY <1>2, ElementOfSeq
<1>4. /\ f.level \in 0 .. f.level /\ f.level - 1 \in 0 .. f.level
      /\ 1 .. f.level = (1 .. f.level - 1) \cup {f.level}
  BY <1>2, SMT
<1>5. f.cond[f.level] <=> f.cond[f.level - 1] /\ f.blocks[f.level]
  BY <1>2, <1>4, Zenon
<1> QED
  BY <1>2, <1>3, <1>5 DEF f
LEMMA OrKeeps ==
  ASSUME BlocksInv, IsInnermost("program"), Or(Innermost)
  PROVE  BlocksInv'
<1>1. CASE GivesUp
  BY <1>1, GivingUpKeeps
<1>2. CASE ~GivesUp
  <2>1. ~NoIf(Innermost)
    BY <1>2 DEF Or
  <2>2. PICK e \in BOOLEAN :
          LET g == [Innermost EXCEPT !.blocks[Innermost.level] = @ \/ e]
          IN IF Outside(Innermost) THEN Reads(g) ELSE Reads([g EXCEPT !.cond[Innermost.level] = e \/ @])
    BY <1>2, <2>1 DEF Or, cmd_eval
  <2> DEFINE b == Innermost.blocks[Innermost.level] \/ e
             g == [Innermost EXCEPT !.blocks[Innermost.level] = b]
             c == e \/ Innermost.cond[Innermost.level]
  <2>3. g.cond = Innermost.cond
    BY TopFacts, SoundFacts, TopBlock, <2>1, SetBlock
  <2>4. IF Outside(Innermost) THEN Reads(g) ELSE Reads([g EXCEPT !.cond[Innermost.level] = c])
    BY <2>2, <2>3
  <2>5. Innermost.cond[Innermost.level - 1] => (c <=> b)
    BY <2>1, TopBlock, Zenon
  <2> QED
    BY <2>1, <2>4, <2>5, TopBlock, TurningKeeps, Zenon
<1> QED
  BY <1>1, <1>2
LEMMA AndKeeps ==
  ASSUME BlocksInv, IsInnermost("program"), And(Innermost)
  PROVE  BlocksInv'
<1>1. CASE GivesUp
  BY <1>1, GivingUpKeeps
<1>2. CASE ~GivesUp
  <2>1. ~NoIf(Innermost)
    BY <1>2 DEF And
  <2>2. PICK e \in BOOLEAN :
          LET g == [Innermost EXCEPT !.blocks[Innermost.level] = @ /\ e]
          IN IF Outside(Innermost) THEN Reads(g) ELSE Reads([g EXCEPT !.cond[Innermost.level] = @ /\ e])
    BY <1>2, <2>1 DEF And, cmd_eval
  <2> DEFINE b == Innermost.blocks[Innermost.level] /\ e
             g == [Innermost EXCEPT !.blocks[Innermost.level] = b]
             c == Innermost.cond[Innermost.level] /\ e
  <2>3. g.cond = Innermost.cond
    BY TopFacts, SoundFacts, TopBlock, <2>1, SetBlock
  <2>4. IF Outside(Innermost) THEN Reads(g) ELSE Reads([g EXCEPT !.cond[Innermost.level] = c])
    BY <2>2, <2>3
  <2>5. Innermost.cond[Innermost.level - 1] => (c <=> b)
    BY <2>1, TopBlock, Zenon
  <2> QED
    BY <2>1, <2>4, <2>5, TopBlock, TurningKeeps, Zenon
<1> QED
  BY <1>1, <1>2

LEMMA ElseKeeps ==
  ASSUME BlocksInv, IsInnermost("program"), Else(Innermost)
  PROVE  BlocksInv'
<1>1. CASE GivesUp
  BY <1>1, GivingUpKeeps
<1>2. CASE ~GivesUp
  <2>1. ~NoIf(Innermost)
    BY <1>2 DEF Else
  <2> DEFINE b == ~Innermost.blocks[Innermost.level]
             g == [Innermost EXCEPT !.blocks[Innermost.level] = b]
             c == ~Innermost.cond[Innermost.level]
  <2>2. IF Outside(Innermost) THEN Reads(g) ELSE Reads([g EXCEPT !.cond[Innermost.level] = ~@])
    BY <1>2, <2>1 DEF Else
  <2>3. g.cond = Innermost.cond
    BY TopFacts, SoundFacts, TopBlock, <2>1, SetBlock
  <2>4. IF Outside(Innermost) THEN Reads(g) ELSE Reads([g EXCEPT !.cond[Innermost.level] = c])
    BY <2>2, <2>3
  <2>5. Innermost.cond[Innermost.level - 1] => (c <=> b)
    BY <2>1, TopBlock, Zenon
  <2> QED
    BY <2>1, <2>4, <2>5, TopBlock, TurningKeeps, Zenon
<1> QED
  BY <1>1, <1>2

LEMMA EndIfKeeps ==
  ASSUME BlocksInv, IsInnermost("program"), EndIf(Innermost)
  PROVE  BlocksInv'
<1>1. CASE GivesUp
  BY <1>1, GivingUpKeeps
<1>2. CASE ~GivesUp
  <2> DEFINE f == Innermost
             u == [f EXCEPT !.cond[f.level] = TRUE]
             v == [u EXCEPT !.state[f.level] = IN_BLOCK]
             w == [v EXCEPT !.state[f.level - 1] = IN_BLOCK]
             x == [w EXCEPT !.level = f.level - 1]
             y == [x EXCEPT !.blocks = Front(f.blocks)]
  <2>1. ~NoIf(f) /\ Reads([f EXCEPT !.cond[f.level] = TRUE, !.state[f.level] = IN_BLOCK,
                                   !.state[f.level - 1] = IN_BLOCK, !.level = @ - 1,
                                   !.blocks = Front(@)])
    BY <1>2 DEF EndIf
  <2>2. Sound(f) /\ f.level # 0
    BY <2>1, TopFacts DEF NoIf
  <2> HIDE DEF f
  <2>3. /\ f \in ProgramCall /\ f.level \in Level /\ f.level - 1 \in Level
        /\ f.blocks \in Seq(BOOLEAN) /\ Len(f.blocks) = f.level /\ f.cond \in [Level -> BOOLEAN]
    BY <2>2, SoundFacts
  <2>4. Front(f.blocks) \in Seq(BOOLEAN)
    <3>1. f.blocks # <<>>
      BY <2>2, <2>3, EmptySeq
    <3> QED
      BY <2>3, <3>1, FrontFacts
  <2>5. u \in ProgramCall /\ u.cond = [f.cond EXCEPT ![f.level] = TRUE]
        /\ u.level = f.level /\ u.blocks = f.blocks
    BY <2>3, SetCond
  <2> HIDE DEF u
  <2>6. v \in ProgramCall /\ v.cond = u.cond /\ v.level = u.level /\ v.blocks = u.blocks
    BY <2>3, <2>5, SetState
  <2> HIDE DEF v
  <2>7. w \in ProgramCall /\ w.cond = u.cond /\ w.level = u.level /\ w.blocks = u.blocks
    BY <2>3, <2>6, SetState
  <2> HIDE DEF w
  <2>8. x \in ProgramCall /\ x.cond = u.cond /\ x.level = f.level - 1 /\ x.blocks = u.blocks
    BY <2>3, <2>7, SetLevel
  <2> HIDE DEF x
  <2>9. y \in ProgramCall /\ y.cond = u.cond /\ y.level = f.level - 1 /\ y.blocks = Front(f.blocks)
    BY <2>4, <2>8, SetBlocks
  <2>10. Reads(y)
    BY <2>1, <2>3 DEF y, x, w, v, u, ProgramCall
  <2> HIDE DEF y
  <2>11. \A l \in Level : l # f.level => y.cond[l] = f.cond[l]
    BY <2>3, <2>5, <2>9
  <2>12. Sound(y)
    BY <2>2, <2>9, <2>11, ClosesBlock
  <2> QED
    BY <2>10, <2>12, ReadsKeeps
<1> QED
  BY <1>1, <1>2

LEMMA InitIsGood ==
  ASSUME NEW n, n = 0
  PROVE  /\ Home \in [Room -> Seq(Char)] /\ [m \in Mob |-> n] \in [Mob -> -1 .. MaxDelay]
         /\ Stack(<<>>, n)
<1>1. 0 \in -1 .. MaxDelay /\ Home \in [Room -> Seq(Char)]
  BY ProgramsConstants, SMT
<1>2. Running(<<>>) = 0
  <2>1. {i \in DOMAIN <<>> : <<>>[i].kind = "program"} = {}
    OBVIOUS
  <2> QED
    BY <2>1, FS_EmptySet DEF Running
<1> QED
  BY <1>1, <1>2, EmptySeq DEF Stack

\* A command of the program: it stays where it is, others may start above it.
LEMMA CommandKeeps ==
  ASSUME BlocksInv, IsInnermost("program"), Command(Innermost)
  PROVE  BlocksInv'
<1>1. ProgramsWorld /\ Stack(calls, call_level) /\ Innermost.mob \in Mob
  BY TopFacts, SoundFacts DEF BlocksInv
<1>2. CASE Here(Innermost.mob)
  BY <1>1, <1>2, MobInterpretKeeps, InterpretKeeps DEF Command
<1>3. CASE ~Here(Innermost.mob) /\ ~Boot
  BY <1>1, <1>3, DelaysKeep DEF Command
<1>4. CASE Boot
  BY <1>4, InitIsGood DEF Boot, BlocksInv, ProgramsWorld
<1> QED
  BY <1>2, <1>3, <1>4

LEMMA LineKeeps ==
  ASSUME BlocksInv, Line
  PROVE  BlocksInv'
BY IfKeeps, OrKeeps, AndKeeps, ElseKeeps, EndIfKeeps, CommandKeeps, GivingUpKeeps, Zenon
   DEF Line, UnknownCheck

----------------------------------------------------------------------------
\* The loops, the world and the theorem.

LEMMA TellKeeps ==
  ASSUME BlocksInv, Tell
  PROVE  BlocksInv'
<1>1. calls # <<>> /\ Last(calls).kind = "visit" /\ Stack(calls, call_level)
  BY DEF BlocksInv, Tell, IsInnermost, Innermost
<1>2. Stack(Outer, call_level) /\ Innermost \in GoodCall
  BY <1>1, StackFront DEF Outer, Innermost
<1>3. /\ [Innermost EXCEPT !.told = TRUE] \in GoodCall /\ [Innermost EXCEPT !.told = TRUE].kind # "program"
  BY <1>1, <1>2 DEF GoodCall, Call, Innermost
<1>4. Stack(Append(Outer, [Innermost EXCEPT !.told = TRUE]), call_level)
  BY <1>2, <1>3, StackAppend
<1>5. Innermost.at \in Mob
  BY ProgramsConstants DEF Tell
<1> QED
  BY <1>4, <1>5, FlowKeepsStack DEF Tell, BlocksInv, ProgramsWorld

LEMMA NextInRoomKeeps ==
  ASSUME BlocksInv, NextInRoom
  PROVE  BlocksInv'
<1> DEFINE n == next_in_room(Innermost.at)
           g == [Innermost EXCEPT !.at = n, !.told = FALSE]
<1>1. calls # <<>> /\ Last(calls).kind = "visit" /\ Stack(calls, call_level)
  BY DEF BlocksInv, NextInRoom, IsInnermost, Innermost
<1>2. Stack(Outer, call_level) /\ Innermost \in GoodCall
  BY <1>1, StackFront DEF Outer, Innermost
<1>3. n \in Char \cup {NoOne}
  BY NextType DEF BlocksInv
<1> HIDE DEF n
<1>4. g \in GoodCall /\ g.kind # "program"
  <2> DEFINE h == [Innermost EXCEPT !.at = n]
  <2>1. Innermost \in [kind : {"visit"}, ch : Char, at : Char \cup {NoOne}, told : BOOLEAN]
    BY <1>1, <1>2 DEF GoodCall, Call, Innermost
  <2>2. h \in [kind : {"visit"}, ch : Char, at : Char \cup {NoOne}, told : BOOLEAN]
    BY <1>3, <2>1
  <2>3. g = [h EXCEPT !.told = FALSE]
    BY <2>1
  <2> HIDE DEF h
  <2>4. g \in [kind : {"visit"}, ch : Char, at : Char \cup {NoOne}, told : BOOLEAN]
    BY <2>2, <2>3
  <2> HIDE DEF g
  <2> QED
    BY <2>4 DEF GoodCall, Call
<1>5. calls' = (IF n = NoOne THEN Outer ELSE Append(Outer, g)) /\ call_level' = call_level
      /\ UNCHANGED <<people, delay>>
  BY DEF NextInRoom, Continue, n
<1> HIDE DEF g
<1> QED
  BY <1>2, <1>4, <1>5, StackAppend DEF BlocksInv, ProgramsWorld

LEMMA RawKillKeeps ==
  ASSUME BlocksInv, RawKill
  PROVE  BlocksInv'
<1>1. calls # <<>> /\ Stack(calls, call_level)
  BY DEF BlocksInv, RawKill, IsInnermost
<1>2. Stack(Outer, call_level)
  BY <1>1, StackFront DEF Outer
<1>3. people' \in [Room -> Seq(Char)]
  BY MovesKeepRooms DEF RawKill, extract_char, BlocksInv
<1> QED
  BY <1>2, <1>3 DEF RawKill, Continue, BlocksInv, ProgramsWorld

LEMMA OrderKeeps ==
  ASSUME BlocksInv, Order
  PROVE  BlocksInv'
BY InterpretKeeps DEF Order, BlocksInv

LEMMA UpdateKeeps ==
  ASSUME BlocksInv, NEW m \in Mob, OnDelay(m) \/ OnRandom(m) \/ NoProgram(m) \/ Repop(m)
  PROVE  BlocksInv'
<1>1. ProgramsWorld /\ Stack(calls, call_level)
  BY DEF BlocksInv
<1>2. /\ delay[m] \in -1 .. MaxDelay /\ MaxDelay \in Nat /\ 0 \in -1 .. MaxDelay
      /\ delay \in [Mob -> -1 .. MaxDelay]
  BY <1>1, ProgramsConstants, SMT DEF ProgramsWorld
<1>3. CASE OnDelay(m)
  <2>1. delay' \in [Mob -> -1 .. MaxDelay]
    BY <1>2, <1>3 DEF OnDelay
  <2> QED
    BY <1>1, <1>3, <2>1, TriggersKeepStack DEF OnDelay, BlocksInv, ProgramsWorld
<1>4. CASE OnRandom(m)
  <2>1. PICK n \in 1 .. 2 : /\ delay[m] > n \/ delay[m] <= 0
                            /\ delay' = [delay EXCEPT ![m] = IF @ > 0 THEN @ - n ELSE @]
    BY <1>4 DEF OnRandom
  <2>2. (IF delay[m] > 0 THEN delay[m] - n ELSE delay[m]) \in -1 .. MaxDelay
    BY <1>2, <2>1, SMT
  <2>3. delay' \in [Mob -> -1 .. MaxDelay]
    BY <1>2, <2>1, <2>2
  <2> QED
    BY <1>1, <1>4, <2>3, FlowKeepsStack DEF OnRandom, BlocksInv, ProgramsWorld
<1>5. CASE NoProgram(m)
  <2>1. delay[m] - 2 \in -1 .. MaxDelay
    BY <1>2, <1>5, SMT DEF NoProgram
  <2>2. delay' \in [Mob -> -1 .. MaxDelay]
    BY <1>2, <1>5, <2>1 DEF NoProgram
  <2> QED
    BY <1>1, <1>5, <2>2 DEF NoProgram, Continue, BlocksInv, ProgramsWorld
<1>6. CASE Repop(m)
  BY <1>1, <1>6, LoadsKeepWorld DEF Repop, Continue, BlocksInv
<1> QED
  BY <1>3, <1>4, <1>5, <1>6

\* The two arrays of program_flow and the checks it leaves out amount to nested
\* blocks: in every program that runs or waits, however deep it is nested and
\* whatever its lines have started meanwhile, the next line is executed just
\* when every if around it, with its or, and and else, is true.
THEOREM RunsAsWritten == ProgramsSpec => []RunsInsideTrueBlocks
<1>1. ProgramsInit => BlocksInv
  BY InitIsGood DEF ProgramsInit, BlocksInv, ProgramsWorld
<1>2. BlocksInv /\ [ProgramsNext]_ProgramsVars => BlocksInv'
  <2> SUFFICES ASSUME BlocksInv, [ProgramsNext]_ProgramsVars PROVE BlocksInv'
    OBVIOUS
  <2>1. CASE UNCHANGED ProgramsVars
    BY <2>1 DEF ProgramsVars, BlocksInv, ProgramsWorld
  <2>2. CASE ProgramsNext
    BY <2>2, LineKeeps, TellKeeps, NextInRoomKeeps, RawKillKeeps, OrderKeeps, UpdateKeeps, Zenon DEF ProgramsNext
  <2> QED
    BY <2>1, <2>2
<1>3. BlocksInv => RunsInsideTrueBlocks
  <2> SUFFICES ASSUME BlocksInv PROVE RunsInsideTrueBlocks
    OBVIOUS
  <2>1. ProgramsTypeOK
    BY SeqMonotonic DEF BlocksInv, ProgramsWorld, Stack, ProgramsTypeOK, GoodCall
  <2>2. ASSUME NEW i \in DOMAIN calls, calls[i].kind = "program"
        PROVE  /\ Len(calls[i].blocks) = calls[i].level
               /\ IsExecuted(calls[i]) <=> \A b \in ToSet(calls[i].blocks) : b
    <3> DEFINE f == calls[i]
    <3>1. Sound(f)
      BY <2>2, LenProperties, ElementOfSeq, SoundIsGood DEF BlocksInv, Stack
    <3> HIDE DEF f
    <3>2. /\ Len(f.blocks) = f.level /\ f.level \in 0 .. f.level /\ DOMAIN f.blocks = 1 .. f.level
          /\ f.level = 0 => DOMAIN f.blocks = {}
      BY <3>1, SoundFacts, SMT
    <3>3. f.cond[f.level] <=> \A j \in 1 .. f.level : f.blocks[j]
      BY <3>1, <3>2, SoundFacts DEF Nested
    <3>4. IsExecuted(f) <=> \A b \in ToSet(f.blocks) : b
      <4>1. (\A b \in ToSet(f.blocks) : b) <=> \A j \in DOMAIN f.blocks : f.blocks[j]
        <5> DEFINE s == f.blocks
        <5>1. ASSUME \A b \in ToSet(s) : b, NEW j \in DOMAIN s PROVE s[j]
          <6>1. s[j] \in ToSet(s)
            BY DEF ToSet
          <6> QED
            BY <5>1, <6>1, Zenon
        <5>2. ASSUME \A j \in DOMAIN s : s[j], NEW b \in ToSet(s) PROVE b
          <6>1. PICK j \in DOMAIN s : b = s[j]
            BY DEF ToSet
          <6>2. s[j] = TRUE
            BY <3>1, <5>2, SoundFacts, ElementOfSeq
          <6> QED
            BY <6>1, <6>2
        <5> QED
          BY <5>1, <5>2, Zenon
      <4>2. (\A b \in ToSet(f.blocks) : b) <=> f.cond[f.level]
        BY <3>2, <3>3, <4>1, Zenon
      <4>3. f.level = 0 => \A b \in ToSet(f.blocks) : b
        BY <3>2, <4>1, Zenon
      <4> QED
        BY <4>2, <4>3, Zenon DEF IsExecuted
    <3> QED
      BY <3>2, <3>4 DEF f
  <2> QED
    BY <2>1, <2>2 DEF RunsInsideTrueBlocks
<1> QED
  BY <1>1, <1>2, <1>3, PTL DEF ProgramsSpec
=============================================================================
