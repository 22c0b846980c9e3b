--------------------------- MODULE SessionProofs ---------------------------
(***************************************************************************)
(* Proofs about Session, for every number of descriptors, slots, mobiles   *)
(* and players.                                                            *)
(***************************************************************************)
EXTENDS Session, TLAPS, WellFoundedInduction

\* The configurations the theorems are about: a closed link has no line left
\* to read, do_disconnect sees what its filter should let it see, and nobody
\* purges players.  The README says what happens otherwise.
Orderly == ~Pipelined /\ FilterAll \subseteq {FALSE} /\ "purge" \notin Commands

----------------------------------------------------------------------------
\* The inductive invariant.

\* TypeOK, in the parts the actions touch.
LoopType ==
  /\ phase \in {"poll", "input", "update", "output"}
  /\ todo \in Desc \cup {Nil}
  /\ list \in Seq(Desc)

DescType ==
  /\ conn \in [Desc -> Con \cup {"none"}]
  /\ chr \in [Desc -> Body \cup {Nil}]
  /\ orig \in [Desc -> Slot \cup {Nil}]
  /\ pend \in [Desc -> BOOLEAN]
  /\ snoop \in [Desc -> Desc \cup {Nil}]

CharType ==
  /\ valid \subseteq Slot
  /\ world \subseteq Slot
  /\ cname \in [Slot -> Name \cup {Nil}]
  /\ cdesc \in [Body -> Desc \cup {Nil}]
  /\ linkdead \subseteq Body

\* A pass is only under way while the loop reads or writes.
PassesEnd == phase \in {"poll", "update"} => todo = Nil

\* Nothing is left in a descriptor that is not on the list.
UnusedIsBlank == \A d \in Desc : conn[d] = "none" => chr[d] = Nil /\ orig[d] = Nil

\* The characters in the game are allocated, and what is allocated has a name.
WorldIsValid == world \subseteq valid /\ \A s \in valid : cname[s] \in Name

LoggingIn(d) == Live(d) /\ conn[d] # "PLAYING"

\* The states before a name is given, and those before it is known to be free.
Nameless == {"GET_ANSI", "GET_NAME"}
Unproven == {"GET_OLD_PASSWORD", "BREAK_CONNECT"}

\* A login has no character before its name is given, and a character of its
\* own, outside the game, from then on.
LoginsOwnTheirs ==
  \A d \in Desc : LoggingIn(d) =>
    /\ orig[d] = Nil
    /\ IF conn[d] \in Nameless THEN chr[d] = Nil ELSE chr[d] \in valid \ world

\* Past the password, or as a new player, a login's name is not in the game.
LoginsAreNew ==
  \A d \in Desc : LoggingIn(d) /\ conn[d] \notin Nameless \cup Unproven =>
    \A s \in world : cname[s] # cname[chr[d]]

\* A link that plays has a character in the game, if it is switched its own.
PlayersAreInWorld ==
  \A d \in Desc : Live(d) /\ conn[d] = "PLAYING" =>
    CH(d) \in world /\ (orig[d] # Nil => chr[d] \in Mob)

\* A closed link a pass still has to serve points to nothing it could free twice.
Harmless(d) == Live(d) \/ (conn[d] # "PLAYING" /\ chr[d] # Nil => CH(d) \notin valid)

TodoIsHarmless == todo # Nil => Harmless(todo)

\* What the handlers keep, whatever the loop is at.
Sound ==
  /\ DescType /\ CharType
  /\ UnusedIsBlank /\ WorldIsValid /\ LoginsOwnTheirs /\ LoginsAreNew /\ PlayersAreInWorld
  /\ OneBodyPerName /\ OneLoginPerName /\ OneDriver /\ LinkPointsBack

IInv == LoopType /\ PassesEnd /\ TodoIsHarmless /\ Sound

----------------------------------------------------------------------------
\* The iterator: what it returns is on no account flagged.

\* descriptor_iterator returns NULL or a descriptor that is not flagged.
LEMMA FirstLiveIsLive ==
  ASSUME LoopType, NEW i
  PROVE  /\ FirstLive(i) \in Desc \cup {Nil}
         /\ FirstLive(i) # Nil => ~pend[FirstLive(i)]
<1> DEFINE later == {j \in 1..Len(list) : j > i /\ ~pend[list[j]]}
           below == OpToRel(<, Nat)
<1>1. CASE later = {}
  BY <1>1 DEF FirstLive
<1>2. CASE later # {}
  <2>1. IsWellFoundedOn(below, Nat)
    BY NatLessThanWellFounded
  <2>2. later \subseteq Nat
    BY DEF LoopType
  <2>3. \A k, j \in Nat : <<k, j>> \in below <=> k < j
    BY DEF OpToRel
  <2> HIDE DEF later, below
  <2>4. PICK j \in later : \A k \in later : <<k, j>> \notin below
    BY <1>2, <2>1, <2>2, WFMin
  <2>5. ASSUME NEW k \in later PROVE j <= k
    <3>1. k \in Nat /\ j \in Nat
      BY <2>2
    <3>2. ~(k < j)
      BY <2>3, <2>4, <3>1
    <3> QED
      BY <3>1, <3>2
  <2>6. (CHOOSE n \in later : \A k \in later : n <= k) \in later
    BY <2>5
  <2> QED
    BY <1>2, <2>6 DEF FirstLive, LoopType, later
<1> QED
  BY <1>1, <1>2

\* A turn leaves the loop as the invariant wants it if what it closes is harmless.
LEMMA TurnKeeps ==
  ASSUME IInv, NEW d \in Desc, Sound', phase' = phase, list' = list, phase \in {"input", "output"},
         todo' = Following(d),
         \A e \in Desc : ~pend[e] /\ pend'[e] => Harmless(e)'
  PROVE  IInv'
<1>1. todo' \in Desc \cup {Nil} /\ (todo' # Nil => ~pend[todo'])
  BY FirstLiveIsLive DEF IInv, Following
<1>2. TodoIsHarmless'
  <2> SUFFICES ASSUME todo' # Nil PROVE Harmless(todo)'
    BY DEF TodoIsHarmless
  <2>1. CASE pend'[todo']
    BY <1>1, <2>1 DEF Harmless, Live, CH
  <2>2. CASE ~pend'[todo']
    BY <1>1, <2>2 DEF Harmless, Live, Sound, UnusedIsBlank
  <2> QED
    BY <2>1, <2>2
<1> QED
  BY <1>1, <1>2 DEF IInv, LoopType, PassesEnd

----------------------------------------------------------------------------
\* Closing links.

\* close_socket on harmless links, with characters taken out of the game
\* besides, keeps the invariant, and what it closes is harmless from then on.
LEMMA CloseKeeps ==
  ASSUME Sound, NEW C \in SUBSET Desc, NEW gone \in SUBSET world,
         \A e \in C : Harmless(e),
         \A e \in Desc \ C : Live(e) /\ conn[e] = "PLAYING" => CH(e) \notin gone,
         Release(C, gone), cdesc' = LinkAfter(C, gone), linkdead' \subseteq Body,
         world' = world \ gone, UNCHANGED <<conn, chr, orig>>
  PROVE  Sound' /\ \A e \in C : Harmless(e)'
<1> USE SessionConstants
<1>0. /\ DescType /\ CharType /\ UnusedIsBlank /\ WorldIsValid
      /\ LoginsOwnTheirs /\ LoginsAreNew /\ PlayersAreInWorld
      /\ OneBodyPerName /\ OneLoginPerName /\ OneDriver /\ LinkPointsBack
  BY DEF Sound
<1>1. /\ \A e \in Desc : pend'[e] <=> pend[e] \/ e \in C
      /\ \A e \in Desc : Live(e)' <=> Live(e) /\ e \notin C
      /\ \A e \in Desc : CH(e)' = CH(e)
      /\ valid' = valid \ (Freed(C) \cup gone)
  BY <1>0 DEF Release, Live, CH, DescType
<1>2. \A f \in C : conn[f] # "PLAYING" /\ chr[f] # Nil => CH(f) \in Freed(C)
  BY DEF Freed
<1>3. \A s \in Freed(C) : s \notin valid \/ \E f \in C : LoggingIn(f) /\ s = chr[f] /\ chr[f] # Nil
  BY <1>0 DEF Freed, Harmless, LoggingIn, LoginsOwnTheirs, CH
<1>4. \A s \in valid' : s \in Slot /\ cname'[s] = cname[s]
  BY <1>0, <1>1 DEF Release, CharType
<1>5. world \cap Freed(C) = {}
  BY <1>0, <1>3 DEF WorldIsValid, LoginsOwnTheirs, LoggingIn
<1>6. \A e \in Desc \ C : LoggingIn(e) /\ chr[e] # Nil => chr[e] \in valid' /\ cname'[chr[e]] = cname[chr[e]]
  <2> SUFFICES ASSUME NEW e \in Desc \ C, LoggingIn(e), chr[e] # Nil
               PROVE  chr[e] \in valid'
    BY <1>4
  <2>1. chr[e] \in valid /\ chr[e] \notin gone
    BY <1>0 DEF LoginsOwnTheirs
  <2>2. chr[e] \notin Freed(C)
    BY <1>0, <1>3, <2>1 DEF OneLoginPerName, LoggingIn
  <2> QED
    BY <1>1, <2>1, <2>2
<1>7. DescType' /\ CharType' /\ UnusedIsBlank'
  BY <1>0 DEF DescType, CharType, UnusedIsBlank, Release, LinkAfter
<1>8. WorldIsValid' /\ OneBodyPerName'
  <2>1. world' \subseteq valid'
    BY <1>0, <1>1, <1>5 DEF WorldIsValid
  <2>2. \A s \in valid' : cname'[s] \in Name
    BY <1>0, <1>1, <1>4 DEF WorldIsValid
  <2> QED
    BY <1>0, <1>4, <2>1, <2>2 DEF WorldIsValid, OneBodyPerName
<1>9. LoginsOwnTheirs'
  <2> SUFFICES ASSUME NEW d \in Desc, LoggingIn(d)'
               PROVE  /\ orig[d] = Nil
                      /\ IF conn[d] \in Nameless THEN chr[d] = Nil ELSE chr[d] \in valid' \ world'
    BY DEF LoginsOwnTheirs
  <2>1. LoggingIn(d) /\ d \notin C
    BY <1>1 DEF LoggingIn
  <2>2. chr[d] \in valid \ world => chr[d] # Nil
    BY <1>0 DEF CharType
  <2> QED
    BY <1>0, <1>6, <2>1, <2>2 DEF LoginsOwnTheirs
<1>10. LoginsAreNew'
  <2> SUFFICES ASSUME NEW d \in Desc, LoggingIn(d)', NEW s \in world',
                      conn[d] \notin Nameless \cup Unproven
               PROVE  cname'[s] # cname'[chr[d]]
    BY DEF LoginsAreNew
  <2>1. LoggingIn(d) /\ d \notin C /\ chr[d] # Nil
    BY <1>0, <1>1 DEF LoggingIn, LoginsOwnTheirs, CharType
  <2>2. cname'[s] = cname[s]
    BY <1>4, <1>8 DEF WorldIsValid
  <2> QED
    BY <1>0, <1>6, <2>1, <2>2 DEF LoginsAreNew
<1>11. PlayersAreInWorld'
  BY <1>0, <1>1 DEF PlayersAreInWorld
<1>12. OneLoginPerName'
  BY <1>0, <1>1, <1>6 DEF OneLoginPerName, LoggingIn
<1>13. LinkPointsBack'
  <2> SUFFICES ASSUME NEW b \in world' \cup Mob, cdesc'[b] # Nil
               PROVE  (Live(cdesc[b]) /\ conn[cdesc[b]] = "PLAYING" /\ chr[cdesc[b]] = b)' /\ cdesc'[b] = cdesc[b]
    BY DEF LinkPointsBack
  <2>1. b \in Body /\ b \in world \cup Mob
    BY <1>0 DEF CharType, Body
  <2>2. cdesc'[b] = cdesc[b] /\ b \notin Cut(C)
    BY <2>1 DEF LinkAfter
  <2>3. cdesc[b] \in Desc /\ Live(cdesc[b]) /\ conn[cdesc[b]] = "PLAYING" /\ chr[cdesc[b]] = b /\ b # Nil
    BY <1>0, <2>1, <2>2 DEF LinkPointsBack, CharType, Body
  <2>4. cdesc[b] \notin C
    BY <2>2, <2>3 DEF Cut
  <2> QED
    BY <1>1, <2>2, <2>3, <2>4 DEF Live
<1>14. \A e \in C : Harmless(e)'
  BY <1>1, <1>2 DEF Harmless
<1>15. OneDriver'
  BY <1>0, <1>1 DEF OneDriver
<1> QED
  BY <1>7, <1>8, <1>9, <1>10, <1>11, <1>12, <1>13, <1>14, <1>15 DEF Sound

\* close_socket on harmless links, nothing else.
LEMMA CloseAllKeeps ==
  ASSUME Sound, NEW C \in SUBSET Desc, \A e \in C : Harmless(e), CloseAll(C)
  PROVE  Sound' /\ \A e \in Desc : ~pend[e] /\ pend'[e] => Harmless(e)'
<1>1. linkdead' \subseteq Body
  BY DEF Sound, DescType, CharType, CloseAll, DeadAfter, Cut, Body
<1>2. \A e \in Desc : pend'[e] => pend[e] \/ e \in C
  BY DEF CloseAll, Release
<1>3. world' = world \ {}
  BY DEF CloseAll
<1> QED
  BY <1>1, <1>2, <1>3, CloseKeeps DEF CloseAll

\* do_quit frees the body of the player who leaves and no other.
LEMMA LeaveKeeps ==
  ASSUME Sound, NEW s \in world, NEW saved, Leave(s, saved)
  PROVE  Sound' /\ \A e \in Desc : ~pend[e] /\ pend'[e] => Harmless(e)'
<1> USE SessionConstants
<1> DEFINE own == {cdesc[s]} \ {Nil}
           twins == {e \in Desc \ own : Live(e) /\ CH(e) \in Slot /\ cname[CH(e)] = cname[s]}
           same == {e \in twins : CH(e) = s}
<1>1. PICK E \in SUBSET twins :
        /\ same \subseteq E
        /\ LET C == own \cup E
               gone == {s} \cup ({CH(e) : e \in E} \cap world)
           IN  /\ Release(C, gone)
               /\ cdesc' = LinkAfter(C, gone)
               /\ linkdead' = DeadAfter(C, gone) \ saved
               /\ world' = world \ gone
        /\ UNCHANGED <<conn, chr, orig>>
  BY DEF Leave
<1> DEFINE C == own \cup E
           gone == {s} \cup ({CH(e) : e \in E} \cap world)
<1>2. gone = {s}
  BY DEF Sound, OneBodyPerName
<1>3. C \in SUBSET Desc /\ \A e \in C : Live(e)
  BY DEF Sound, LinkPointsBack, CharType, Body
<1>4. ASSUME NEW e \in Desc \ C, Live(e), conn[e] = "PLAYING" PROVE CH(e) # s
  <2> SUFFICES ASSUME CH(e) = s PROVE FALSE
    OBVIOUS
  <2>1. e \in twins
    BY <1>4 DEF Sound, CharType
  <2> QED
    BY <1>1, <1>4, <2>1
<1>5. linkdead' \subseteq Body
  BY <1>1, <1>3 DEF Sound, DescType, CharType, DeadAfter, Cut, Body
<1>6. \A e \in Desc : pend'[e] => pend[e] \/ e \in C
  BY <1>1 DEF Release
<1>7. \A e \in C : Harmless(e)
  BY <1>3 DEF Harmless
<1>8. Release(C, gone) /\ cdesc' = LinkAfter(C, gone) /\ world' = world \ gone /\ UNCHANGED <<conn, chr, orig>>
  BY <1>1
<1>9. gone \in SUBSET world
  BY <1>2
<1>10. \A e \in Desc \ C : Live(e) /\ conn[e] = "PLAYING" => CH(e) \notin gone
  BY <1>2, <1>4
<1> HIDE DEF C, gone
<1> QED
  BY <1>3, <1>5, <1>6, <1>7, <1>8, <1>9, <1>10, CloseKeeps

----------------------------------------------------------------------------
\* The login dialogue.

\* A reply moves a login on: not back to the name, and to the states of a new
\* player only when nobody in the game has the name.
LEMMA ReplyKeeps ==
  ASSUME Sound, NEW d \in Desc, LoggingIn(d), NEW states \in SUBSET (Con \ {"PLAYING"}), Reply(d, states),
         IF conn[d] \in Nameless THEN states \subseteq Nameless ELSE states \cap Nameless = {},
         states \subseteq Nameless \cup Unproven \/ \A s \in world : cname[s] # cname[chr[d]]
  PROVE  Sound' /\ \A e \in Desc : ~pend[e] /\ pend'[e] => Harmless(e)'
<1> USE SessionConstants
<1>1. PICK c \in states : conn' = [conn EXCEPT ![d] = c]
  BY DEF Reply
<1>2. UNCHANGED <<chr, orig, pend, snoop, valid, world, cname, cdesc, linkdead>>
  BY DEF Reply, chars
<1>3. c \in Con /\ c # "none" /\ c # "PLAYING"
  BY DEF Con, Creation
<1>4. conn'[d] = c /\ \A e \in Desc \ {d} : conn'[e] = conn[e]
  BY <1>1 DEF Sound, DescType
<1>5. /\ \A e \in Desc : Live(e)' <=> Live(e)
      /\ \A e \in Desc : LoggingIn(e)' <=> LoggingIn(e)
      /\ \A e \in Desc : CH(e)' = CH(e)
      /\ \A e \in Desc : conn'[e] = "PLAYING" <=> conn[e] = "PLAYING"
  BY <1>2, <1>3, <1>4 DEF Live, LoggingIn, CH
<1>6. DescType' /\ CharType' /\ UnusedIsBlank' /\ WorldIsValid' /\ OneBodyPerName'
  BY <1>1, <1>2, <1>3, <1>4 DEF Sound, DescType, CharType, UnusedIsBlank, WorldIsValid, OneBodyPerName
<1>7. LoginsOwnTheirs' /\ PlayersAreInWorld' /\ OneLoginPerName' /\ OneDriver'
  BY <1>2, <1>4, <1>5 DEF Sound, LoginsOwnTheirs, PlayersAreInWorld, OneLoginPerName, OneDriver
<1>8. LoginsAreNew'
  BY <1>2, <1>4, <1>5 DEF Sound, LoginsAreNew
<1>9. LinkPointsBack'
  <2>1. \A b \in world \cup Mob : cdesc[b] # Nil => cdesc[b] \in Desc
    BY DEF Sound, CharType, Body
  <2> QED
    BY <1>2, <1>5, <2>1 DEF Sound, LinkPointsBack
<1>10. \A e \in Desc : pend'[e] = pend[e]
  BY <1>2
<1> QED
  BY <1>6, <1>7, <1>8, <1>9, <1>10 DEF Sound

\* A login lets go of its character: it goes back to the name, or takes over a
\* body b nobody drives any more.
LEMMA LetGoKeeps ==
  ASSUME Sound, NEW d \in Desc, LoggingIn(d), conn[d] \notin Nameless,
         NEW C \in SUBSET (Desc \ {d}), \A e \in C : Live(e),
         \/ BackToName(d, C)
         \/ \E b \in world :
              /\ \A e \in Desc \ (C \cup {d}) : Live(e) /\ conn[e] = "PLAYING" => CH(e) # b
              /\ LinkAfter(C, {})[b] = Nil
              /\ TakeOver(d, b, C)
  PROVE  Sound' /\ \A e \in Desc : ~pend[e] /\ pend'[e] => Harmless(e)'
<1> USE SessionConstants
<1> DEFINE s == chr[d]
<1>0. /\ DescType /\ CharType /\ UnusedIsBlank /\ WorldIsValid
      /\ LoginsOwnTheirs /\ LoginsAreNew /\ PlayersAreInWorld
      /\ OneBodyPerName /\ OneLoginPerName /\ OneDriver /\ LinkPointsBack
  BY DEF Sound
<1>1. s \in valid \ world /\ s \in Slot /\ s # Nil /\ orig[d] = Nil
  BY <1>0 DEF LoginsOwnTheirs, CharType
<1>2. PICK c \in {"GET_NAME", "PLAYING"}, b \in world \cup {Nil} :
         /\ conn' = [conn EXCEPT ![d] = c]
         /\ chr' = [chr EXCEPT ![d] = b]
         /\ IF c = "GET_NAME"
            THEN b = Nil /\ cdesc' = LinkAfter(C, {s})
            ELSE /\ b # Nil /\ cdesc' = [LinkAfter(C, {s}) EXCEPT ![b] = d]
                 /\ \A e \in Desc \ (C \cup {d}) : Live(e) /\ conn[e] = "PLAYING" => CH(e) # b
  BY <1>0 DEF BackToName, TakeOver, CharType
<1>3. /\ Release(C, {s}) /\ UNCHANGED <<orig, world>>
      /\ linkdead' \subseteq DeadAfter(C, {s})
      /\ valid' = valid \ (Freed(C) \cup {s})
  BY DEF BackToName, TakeOver, Release
<1>4. /\ conn'[d] = c /\ chr'[d] = b /\ CH(d)' = b
      /\ \A e \in Desc \ {d} : conn'[e] = conn[e] /\ chr'[e] = chr[e] /\ CH(e)' = CH(e)
      /\ \A e \in Desc : pend'[e] <=> pend[e] \/ e \in C
  BY <1>0, <1>1, <1>2, <1>3 DEF DescType, CH, Release
<1>5. /\ \A e \in Desc : Live(e)' <=> Live(e) /\ e \notin C
      /\ \A e \in Desc \ {d} : LoggingIn(e)' <=> LoggingIn(e) /\ e \notin C
      /\ Live(d)' /\ (LoggingIn(d)' <=> c = "GET_NAME")
  BY <1>4 DEF Live, LoggingIn
<1>6. \A f \in Freed(C) : \E e \in C : LoggingIn(e) /\ f = chr[e] /\ chr[e] # Nil
  BY <1>0 DEF Freed, Live, LoggingIn, LoginsOwnTheirs, CH
<1>7. \A t \in valid' : t \in Slot /\ cname'[t] = cname[t]
  BY <1>0, <1>3 DEF Release, CharType
<1>8. world \subseteq valid'
  BY <1>0, <1>1, <1>3, <1>6 DEF WorldIsValid, LoginsOwnTheirs
<1>9. \A e \in Desc \ (C \cup {d}) : LoggingIn(e) /\ chr[e] # Nil => chr[e] \in valid' /\ cname'[chr[e]] = cname[chr[e]]
  <2> SUFFICES ASSUME NEW e \in Desc \ (C \cup {d}), LoggingIn(e), chr[e] # Nil
               PROVE  chr[e] \in valid'
    BY <1>7
  <2>1. chr[e] \in valid
    BY <1>0 DEF LoginsOwnTheirs
  <2>2. chr[e] \notin Freed(C) /\ chr[e] # s
    BY <1>0, <1>1, <1>6, <2>1 DEF OneLoginPerName, LoggingIn
  <2> QED
    BY <1>3, <2>1, <2>2
<1>10. DescType' /\ CharType' /\ UnusedIsBlank'
  <2>1. DescType' /\ UnusedIsBlank'
    BY <1>0, <1>2, <1>3 DEF DescType, CharType, UnusedIsBlank, Release, Con, LoggingIn, Live, Body
  <2>2. cdesc' \in [Body -> Desc \cup {Nil}]
    BY <1>0, <1>2 DEF CharType, LinkAfter
  <2>3. CharType'
    BY <1>0, <1>3, <2>2 DEF CharType, DescType, Release, DeadAfter, Cut, Body
  <2> QED
    BY <2>1, <2>3
<1>11. WorldIsValid' /\ OneBodyPerName'
  BY <1>0, <1>3, <1>7, <1>8 DEF WorldIsValid, OneBodyPerName
<1>12. LoginsOwnTheirs' /\ OneLoginPerName'
  <2>1. ASSUME NEW e \in Desc \ {d}, LoggingIn(e)'
        PROVE  orig[e] = Nil /\ IF conn'[e] \in Nameless THEN chr'[e] = Nil ELSE chr'[e] \in valid' \ world
    <3>1. LoggingIn(e) /\ e \notin C
      BY <1>5, <2>1
    <3>2. chr[e] \in valid \ world => chr[e] # Nil
      BY <1>0 DEF CharType
    <3> QED
      BY <1>0, <1>4, <1>9, <3>1, <3>2 DEF LoginsOwnTheirs
  <2>2. LoginsOwnTheirs'
    BY <1>1, <1>2, <1>3, <1>4, <1>5, <2>1 DEF LoginsOwnTheirs, Nameless
  <2>3. OneLoginPerName'
    BY <1>0, <1>2, <1>4, <1>5, <1>9 DEF OneLoginPerName, LoggingIn
  <2> QED
    BY <2>2, <2>3
<1>13. LoginsAreNew'
  <2> SUFFICES ASSUME NEW e \in Desc, LoggingIn(e)', NEW t \in world, conn'[e] \notin Nameless \cup Unproven
               PROVE  cname'[t] # cname'[chr'[e]]
    BY <1>3 DEF LoginsAreNew
  <2>1. e # d
    BY <1>2, <1>4, <1>5 DEF Nameless
  <2>2. LoggingIn(e) /\ e \notin C /\ chr[e] # Nil
    BY <1>0, <1>4, <1>5, <2>1 DEF LoginsOwnTheirs, CharType
  <2> QED
    BY <1>0, <1>4, <1>7, <1>8, <1>9, <2>1, <2>2 DEF LoginsAreNew
<1>14. PlayersAreInWorld'
  BY <1>0, <1>1, <1>2, <1>3, <1>4, <1>5 DEF PlayersAreInWorld, LoggingIn
<1>15. OneDriver'
  <2>1. ASSUME NEW e \in Desc \ {d}, Live(e)', b # Nil PROVE CH(e)' # b
    <3>1. Live(e) /\ e \notin C /\ CH(e)' = CH(e)
      BY <1>4, <1>5, <2>1
    <3>2. CASE conn[e] = "PLAYING"
      BY <1>2, <2>1, <3>1, <3>2
    <3>3. CASE conn[e] # "PLAYING"
      BY <1>0, <2>1, <3>1, <3>3 DEF LoginsOwnTheirs, LoggingIn, CH
    <3> QED
      BY <3>2, <3>3
  <2>2. ASSUME NEW e \in Desc \ {d}, chr'[e] # Nil PROVE CH(e)' # Nil
    BY <2>2 DEF CH
  <2>3. ASSUME NEW e \in Desc, NEW f \in Desc, Live(e)', Live(f)', chr'[e] # Nil, CH(e)' = CH(f)'
        PROVE  e = f
    <3>1. CASE e = d
      BY <1>4, <2>1, <2>3, <3>1
    <3>2. CASE f = d /\ e # d
      BY <1>4, <2>1, <2>2, <2>3, <3>2
    <3>3. CASE e # d /\ f # d
      BY <1>0, <1>4, <1>5, <2>3, <3>3 DEF OneDriver
    <3> QED
      BY <3>1, <3>2, <3>3
  <2> QED
    BY <2>3 DEF OneDriver
<1>16. LinkPointsBack'
  <2> SUFFICES ASSUME NEW t \in world \cup Mob, cdesc'[t] # Nil
               PROVE  (Live(cdesc[t]) /\ conn[cdesc[t]] = "PLAYING" /\ chr[cdesc[t]] = t)'
    BY <1>3 DEF LinkPointsBack
  <2>1. t \in Body
    BY <1>0 DEF CharType, Body
  <2>2. CASE c = "PLAYING" /\ t = b
    BY <1>2, <1>4, <1>5, <2>1, <2>2 DEF LinkAfter
  <2>3. CASE ~(c = "PLAYING" /\ t = b)
    <3>1. cdesc'[t] = cdesc[t] /\ t \notin Cut(C)
      BY <1>2, <2>1, <2>3 DEF LinkAfter
    <3>2. cdesc[t] \in Desc /\ Live(cdesc[t]) /\ conn[cdesc[t]] = "PLAYING" /\ chr[cdesc[t]] = t /\ t # Nil
      BY <1>0, <2>1, <3>1 DEF LinkPointsBack, CharType, Body
    <3>3. cdesc[t] \notin C /\ cdesc[t] # d
      BY <3>1, <3>2 DEF Cut, LoggingIn
    <3> QED
      BY <1>4, <1>5, <3>1, <3>2, <3>3
  <2> QED
    BY <2>2, <2>3
<1>17. ASSUME NEW e \in C PROVE Harmless(e)'
  BY <1>3, <1>4 DEF Harmless, Freed
<1> QED
  BY <1>4, <1>10, <1>11, <1>12, <1>13, <1>14, <1>15, <1>16, <1>17 DEF Sound

\* Nothing but snoop pointers, saves and marks changes.
LEMMA UnchangedKeeps ==
  ASSUME Sound, UNCHANGED <<conn, chr, orig, pend, valid, world, cname, cdesc>>,
         snoop' \in [Desc -> Desc \cup {Nil}], linkdead' \subseteq Body
  PROVE  Sound' /\ \A e \in Desc : ~pend[e] /\ pend'[e] => Harmless(e)'
<1>1. DescType' /\ CharType' /\ UnusedIsBlank' /\ WorldIsValid' /\ OneBodyPerName'
  BY DEF Sound, DescType, CharType, UnusedIsBlank, WorldIsValid, OneBodyPerName
<1>2. LoginsOwnTheirs' /\ LoginsAreNew' /\ PlayersAreInWorld' /\ OneLoginPerName' /\ OneDriver' /\ LinkPointsBack'
  BY DEF Sound, LoginsOwnTheirs, LoginsAreNew, PlayersAreInWorld, OneLoginPerName, OneDriver,
         LinkPointsBack, LoggingIn, Live, CH
<1> QED
  BY <1>1, <1>2 DEF Sound

\* A player is loaded for a name no login holds.
LEMMA GetNameKeeps ==
  ASSUME Sound, NEW d \in Desc, Live(d), GetName(d)
  PROVE  Sound' /\ \A e \in Desc : ~pend[e] /\ pend'[e] => Harmless(e)'
<1> USE SessionConstants
<1>0. /\ DescType /\ CharType /\ UnusedIsBlank /\ WorldIsValid
      /\ LoginsOwnTheirs /\ LoginsAreNew /\ PlayersAreInWorld
      /\ OneBodyPerName /\ OneLoginPerName /\ OneDriver /\ LinkPointsBack
  BY DEF Sound
<1>1. PICK n \in Name, s \in Slot \ valid, found \in BOOLEAN :
        /\ LoginsOf(n) = {}
        /\ (\E t \in world : cname[t] = n) => found
        /\ chr' = [chr EXCEPT ![d] = s]
        /\ valid' = valid \cup {s}
        /\ cname' = [cname EXCEPT ![s] = n]
        /\ cdesc' = [cdesc EXCEPT ![s] = d]
        /\ linkdead' = linkdead \ {s}
        /\ conn' = [conn EXCEPT ![d] = IF found THEN "GET_OLD_PASSWORD" ELSE "CONFIRM_NEW_NAME"]
  BY DEF GetName
<1>2. conn[d] = "GET_NAME" /\ UNCHANGED <<orig, pend, snoop, world>>
  BY DEF GetName, Asked
<1>3. s # Nil /\ s \notin world /\ orig[d] = Nil
  BY <1>0, <1>2 DEF WorldIsValid, LoginsOwnTheirs, LoggingIn
<1>4. /\ chr'[d] = s /\ conn'[d] \in {"GET_OLD_PASSWORD", "CONFIRM_NEW_NAME"}
      /\ conn'[d] = "CONFIRM_NEW_NAME" => \A t \in world : cname[t] # n
      /\ \A e \in Desc \ {d} : chr'[e] = chr[e] /\ conn'[e] = conn[e]
      /\ \A t \in valid : cname'[t] = cname[t] /\ t # s
      /\ cname'[s] = n
  BY <1>0, <1>1 DEF DescType, CharType
<1>5. /\ \A e \in Desc : Live(e)' <=> Live(e)
      /\ \A e \in Desc : LoggingIn(e)' <=> LoggingIn(e)
      /\ \A e \in Desc \ {d} : CH(e)' = CH(e)
      /\ CH(d)' = s /\ LoggingIn(d)
  BY <1>2, <1>3, <1>4 DEF Live, LoggingIn, CH
<1>6. DescType' /\ CharType' /\ UnusedIsBlank'
  BY <1>0, <1>1, <1>2, <1>4 DEF DescType, CharType, UnusedIsBlank, Con, Body
<1>7. WorldIsValid' /\ OneBodyPerName'
  BY <1>0, <1>1, <1>2, <1>4 DEF WorldIsValid, OneBodyPerName
<1>8. LoginsOwnTheirs' /\ PlayersAreInWorld'
  BY <1>0, <1>1, <1>2, <1>3, <1>4, <1>5 DEF LoginsOwnTheirs, PlayersAreInWorld, Nameless, LoggingIn
<1>9. ASSUME NEW e \in Desc \ {d}, LoggingIn(e), chr[e] # Nil
      PROVE  chr[e] \in valid /\ cname'[chr[e]] = cname[chr[e]] /\ cname[chr[e]] # n
  <2>1. chr[e] \in valid /\ chr[e] \in Slot
    BY <1>0, <1>9 DEF LoginsOwnTheirs, CharType
  <2>2. cname[chr[e]] # n
    BY <1>1, <1>9, <2>1 DEF LoginsOf, LoggingIn, NameOf
  <2> QED
    BY <1>4, <2>1, <2>2
<1>10. OneLoginPerName'
  BY <1>0, <1>4, <1>5, <1>9 DEF OneLoginPerName, LoggingIn
<1>11. LoginsAreNew'
  <2> SUFFICES ASSUME NEW e \in Desc, LoggingIn(e), NEW t \in world, conn'[e] \notin Nameless \cup Unproven
               PROVE  cname'[t] # cname'[chr'[e]]
    BY <1>2, <1>5 DEF LoginsAreNew
  <2>1. cname'[t] = cname[t]
    BY <1>0, <1>4 DEF WorldIsValid
  <2>2. CASE e = d
    BY <1>4, <2>1, <2>2 DEF Unproven
  <2>3. CASE e # d
    BY <1>0, <1>4, <1>9, <2>1, <2>3 DEF LoginsAreNew, LoginsOwnTheirs, CharType
  <2> QED
    BY <2>2, <2>3
<1>12. OneDriver'
  <2>1. ASSUME NEW e \in Desc \ {d}, Live(e) PROVE CH(e) # s
    <3>1. CASE conn[e] = "PLAYING"
      BY <1>0, <1>3, <2>1, <3>1 DEF PlayersAreInWorld
    <3>2. CASE conn[e] # "PLAYING"
      BY <1>0, <1>3, <2>1, <3>2 DEF LoginsOwnTheirs, LoggingIn, CH
    <3> QED
      BY <3>1, <3>2
  <2> QED
    BY <1>0, <1>4, <1>5, <2>1 DEF OneDriver
<1>13. LinkPointsBack'
  <2> SUFFICES ASSUME NEW t \in world \cup Mob, cdesc'[t] # Nil
               PROVE  (Live(cdesc[t]) /\ conn[cdesc[t]] = "PLAYING" /\ chr[cdesc[t]] = t)'
    BY <1>2 DEF LinkPointsBack
  <2>1. t \in Body /\ t # s
    BY <1>0, <1>3 DEF CharType, Body
  <2>2. cdesc'[t] = cdesc[t]
    BY <1>0, <1>1, <2>1 DEF CharType
  <2>3. cdesc[t] \in Desc /\ Live(cdesc[t]) /\ conn[cdesc[t]] = "PLAYING" /\ chr[cdesc[t]] = t
    BY <1>0, <2>1, <2>2 DEF LinkPointsBack, CharType
  <2> QED
    BY <1>2, <1>4, <1>5, <2>2, <2>3
<1> QED
  BY <1>2, <1>6, <1>7, <1>8, <1>10, <1>11, <1>12, <1>13 DEF Sound

\* The player who is locked out is freed before anyone sees him.
LEMMA LockedOutKeeps ==
  ASSUME Sound, NEW d \in Desc, Live(d), GetNameLockedOut(d)
  PROVE  Sound' /\ \A e \in Desc : ~pend[e] /\ pend'[e] => Harmless(e)'
<1> USE SessionConstants
<1>0. /\ DescType /\ CharType /\ UnusedIsBlank /\ WorldIsValid
      /\ LoginsOwnTheirs /\ LoginsAreNew /\ PlayersAreInWorld
      /\ OneBodyPerName /\ OneLoginPerName /\ OneDriver /\ LinkPointsBack
  BY DEF Sound
<1>1. PICK s \in Slot \ valid :
        /\ chr' = [chr EXCEPT ![d] = s]
        /\ cname' = [cname EXCEPT ![s] = Nil]
        /\ cdesc' = [cdesc EXCEPT ![s] = Nil]
        /\ linkdead' = linkdead \ {s}
  BY DEF GetNameLockedOut
<1>2. /\ conn[d] = "GET_NAME" /\ UNCHANGED <<conn, orig, valid, world>>
      /\ pend' = [pend EXCEPT ![d] = TRUE]
      /\ snoop' = [e \in Desc |-> IF snoop[e] = d THEN Nil ELSE snoop[e]]
  BY DEF GetNameLockedOut, Asked
<1>3. s \notin world /\ orig[d] = Nil /\ LoggingIn(d)
  BY <1>0, <1>2 DEF WorldIsValid, LoginsOwnTheirs, LoggingIn
<1>4. /\ chr'[d] = s /\ pend'[d]
      /\ \A e \in Desc \ {d} : chr'[e] = chr[e] /\ pend'[e] = pend[e] /\ CH(e)' = CH(e)
      /\ \A t \in valid : cname'[t] = cname[t] /\ t # s
  BY <1>0, <1>1, <1>2 DEF DescType, CharType, CH
<1>5. /\ \A e \in Desc : Live(e)' <=> Live(e) /\ e # d
      /\ \A e \in Desc : LoggingIn(e)' <=> LoggingIn(e) /\ e # d
  BY <1>2, <1>4 DEF Live, LoggingIn
<1>6. DescType' /\ CharType' /\ UnusedIsBlank'
  BY <1>0, <1>1, <1>2, <1>4 DEF DescType, CharType, UnusedIsBlank, Body
<1>7. WorldIsValid' /\ OneBodyPerName'
  BY <1>0, <1>1, <1>2, <1>4 DEF WorldIsValid, OneBodyPerName
<1>8. LoginsOwnTheirs' /\ PlayersAreInWorld' /\ OneDriver'
  BY <1>0, <1>2, <1>4, <1>5 DEF LoginsOwnTheirs, PlayersAreInWorld, OneDriver
<1>9. ASSUME NEW e \in Desc \ {d}, LoggingIn(e), chr[e] # Nil
      PROVE  chr[e] \in valid /\ cname'[chr[e]] = cname[chr[e]]
  BY <1>0, <1>4, <1>9 DEF LoginsOwnTheirs
<1>10. OneLoginPerName'
  BY <1>0, <1>2, <1>4, <1>5, <1>9 DEF OneLoginPerName, LoggingIn
<1>11. LoginsAreNew'
  <2> SUFFICES ASSUME NEW e \in Desc, LoggingIn(e), e # d, NEW t \in world, conn[e] \notin Nameless \cup Unproven
               PROVE  cname'[t] # cname'[chr'[e]]
    BY <1>2, <1>5 DEF LoginsAreNew
  <2>1. cname'[t] = cname[t]
    BY <1>0, <1>4 DEF WorldIsValid
  <2> QED
    BY <1>0, <1>4, <1>9, <2>1 DEF LoginsAreNew, LoginsOwnTheirs, CharType
<1>12. LinkPointsBack'
  <2> SUFFICES ASSUME NEW t \in world \cup Mob, cdesc'[t] # Nil
               PROVE  (Live(cdesc[t]) /\ conn[cdesc[t]] = "PLAYING" /\ chr[cdesc[t]] = t)'
    BY <1>2 DEF LinkPointsBack
  <2>1. t \in Body /\ t # s
    BY <1>0, <1>3 DEF CharType, Body
  <2>2. cdesc'[t] = cdesc[t]
    BY <1>0, <1>1, <2>1 DEF CharType
  <2>3. cdesc[t] \in Desc /\ Live(cdesc[t]) /\ conn[cdesc[t]] = "PLAYING" /\ chr[cdesc[t]] = t
    BY <1>0, <2>1, <2>2 DEF LinkPointsBack, CharType
  <2> QED
    BY <1>2, <1>4, <1>5, <2>2, <2>3
<1>13. Harmless(d)'
  BY <1>2, <1>3, <1>4 DEF Harmless, CH
<1> QED
  BY <1>4, <1>6, <1>7, <1>8, <1>10, <1>11, <1>12, <1>13 DEF Sound

\* The character of a login that ends is the only one of its name in the game.
LEMMA ReadMotdKeeps ==
  ASSUME Sound, NEW d \in Desc, Live(d), ReadMotd(d)
  PROVE  Sound' /\ \A e \in Desc : ~pend[e] /\ pend'[e] => Harmless(e)'
<1> USE SessionConstants
<1>0. /\ DescType /\ CharType /\ UnusedIsBlank /\ WorldIsValid
      /\ LoginsOwnTheirs /\ LoginsAreNew /\ PlayersAreInWorld
      /\ OneBodyPerName /\ OneLoginPerName /\ OneDriver /\ LinkPointsBack
  BY DEF Sound
<1> DEFINE s == chr[d]
<1>1. /\ conn[d] = "READ_MOTD" /\ conn' = [conn EXCEPT ![d] = "PLAYING"]
      /\ world' = world \cup {s} /\ cdesc' = [cdesc EXCEPT ![s] = d]
      /\ UNCHANGED <<chr, orig, pend, snoop, valid, cname, linkdead>>
  BY DEF ReadMotd, Asked
<1>2. LoggingIn(d) /\ conn[d] \notin Nameless \cup Unproven
  BY <1>1 DEF LoggingIn, Nameless, Unproven
<1>3. s \in valid \ world /\ s \in Slot /\ s # Nil /\ orig[d] = Nil /\ \A t \in world : cname[t] # cname[s]
  BY <1>0, <1>2 DEF LoginsOwnTheirs, LoginsAreNew, CharType
<1>4. conn'[d] = "PLAYING" /\ \A e \in Desc \ {d} : conn'[e] = conn[e]
  BY <1>0, <1>1 DEF DescType
<1>5. /\ \A e \in Desc : Live(e)' <=> Live(e)
      /\ \A e \in Desc : LoggingIn(e)' <=> LoggingIn(e) /\ e # d
      /\ \A e \in Desc : CH(e)' = CH(e)
  BY <1>1, <1>4 DEF Live, LoggingIn, CH
<1>6. DescType' /\ CharType' /\ UnusedIsBlank'
  BY <1>0, <1>1, <1>3, <1>4 DEF DescType, CharType, UnusedIsBlank, Con
<1>7. WorldIsValid' /\ OneBodyPerName' /\ OneDriver'
  BY <1>0, <1>1, <1>3, <1>5 DEF WorldIsValid, OneBodyPerName, OneDriver
<1>8. ASSUME NEW e \in Desc \ {d}, LoggingIn(e), chr[e] # Nil
      PROVE  chr[e] # s /\ cname[chr[e]] # cname[s]
  BY <1>0, <1>2, <1>3, <1>8 DEF OneLoginPerName, LoggingIn
<1>9. LoginsOwnTheirs'
  <2> SUFFICES ASSUME NEW e \in Desc \ {d}, LoggingIn(e)
               PROVE  orig[e] = Nil /\ IF conn[e] \in Nameless THEN chr[e] = Nil ELSE chr[e] \in valid \ world'
    BY <1>1, <1>4, <1>5 DEF LoginsOwnTheirs
  <2> QED
    BY <1>0, <1>1, <1>8 DEF LoginsOwnTheirs, CharType
<1>10. LoginsAreNew'
  <2> SUFFICES ASSUME NEW e \in Desc \ {d}, LoggingIn(e), NEW t \in world \cup {s}, conn[e] \notin Nameless \cup Unproven
               PROVE  cname[t] # cname[chr[e]]
    BY <1>1, <1>4, <1>5 DEF LoginsAreNew
  <2> QED
    BY <1>0, <1>8 DEF LoginsAreNew, LoginsOwnTheirs, CharType
<1>11. PlayersAreInWorld' /\ OneLoginPerName'
  BY <1>0, <1>1, <1>3, <1>4, <1>5 DEF PlayersAreInWorld, OneLoginPerName, CH, LoggingIn
<1>12. LinkPointsBack'
  <2> SUFFICES ASSUME NEW t \in world' \cup Mob, cdesc'[t] # Nil
               PROVE  (Live(cdesc[t]) /\ conn[cdesc[t]] = "PLAYING" /\ chr[cdesc[t]] = t)'
    BY DEF LinkPointsBack
  <2>1. t \in Body
    BY <1>0, <1>1, <1>3 DEF CharType, Body
  <2>2. CASE t = s
    BY <1>0, <1>1, <1>4, <1>5, <2>1, <2>2 DEF CharType
  <2>3. CASE t # s
    <3>1. cdesc'[t] = cdesc[t]
      BY <1>0, <1>1, <2>1, <2>3 DEF CharType
    <3>2. cdesc[t] \in Desc /\ Live(cdesc[t]) /\ conn[cdesc[t]] = "PLAYING" /\ chr[cdesc[t]] = t
      BY <1>0, <1>1, <2>1, <2>3, <3>1 DEF LinkPointsBack, CharType
    <3> QED
      BY <1>1, <1>4, <1>5, <3>1, <3>2
  <2> QED
    BY <2>2, <2>3
<1> QED
  BY <1>1, <1>6, <1>7, <1>9, <1>10, <1>11, <1>12 DEF Sound

----------------------------------------------------------------------------
\* Switching and returning.

\* A link that plays moves from the body t to the body b: its player stays the
\* same.
LEMMA MoveKeeps ==
  ASSUME Sound, NEW e \in Desc, Live(e), conn[e] = "PLAYING",
         NEW t \in Body, chr[e] = t, NEW b \in Body, b # t, b \in world \cup Mob,
         NEW o \in world \cup {Nil},
         (IF o # Nil THEN o ELSE b) = CH(e), o # Nil => b \in Mob,
         chr' = [chr EXCEPT ![e] = b], orig' = [orig EXCEPT ![e] = o],
         cdesc' = [cdesc EXCEPT ![t] = Nil, ![b] = e],
         UNCHANGED <<conn, pend, snoop, valid, world, cname, linkdead>>
  PROVE  Sound' /\ \A f \in Desc : ~pend[f] /\ pend'[f] => Harmless(f)'
<1> USE SessionConstants
<1>0. /\ DescType /\ CharType /\ UnusedIsBlank /\ WorldIsValid
      /\ LoginsOwnTheirs /\ LoginsAreNew /\ PlayersAreInWorld
      /\ OneBodyPerName /\ OneLoginPerName /\ OneDriver /\ LinkPointsBack
  BY DEF Sound
<1>1. /\ chr'[e] = b /\ orig'[e] = o /\ CH(e)' = CH(e)
      /\ \A f \in Desc \ {e} : chr'[f] = chr[f] /\ orig'[f] = orig[f] /\ CH(f)' = CH(f)
  BY <1>0 DEF DescType, CharType, CH
<1>2. /\ \A f \in Desc : Live(f)' <=> Live(f)
      /\ \A f \in Desc : LoggingIn(f)' <=> LoggingIn(f)
      /\ \A f \in Desc : LoggingIn(f) => f # e
  BY DEF Live, LoggingIn
<1>3. DescType' /\ CharType' /\ UnusedIsBlank'
  BY <1>0, <1>1 DEF DescType, CharType, UnusedIsBlank, Live
<1>4. WorldIsValid' /\ OneBodyPerName' /\ LoginsOwnTheirs' /\ LoginsAreNew' /\ PlayersAreInWorld'
  BY <1>0, <1>1, <1>2 DEF WorldIsValid, OneBodyPerName, LoginsOwnTheirs, LoginsAreNew, PlayersAreInWorld, CharType
<1>5. OneLoginPerName'
  BY <1>0, <1>1, <1>2 DEF OneLoginPerName
<1>6. OneDriver'
  <2>1. t # Nil /\ b # Nil
    BY DEF Body
  <2> QED
    BY <1>0, <1>1, <1>2, <2>1 DEF OneDriver
<1>7. LinkPointsBack'
  <2> SUFFICES ASSUME NEW u \in world \cup Mob, cdesc'[u] # Nil
               PROVE  (Live(cdesc[u]) /\ conn[cdesc[u]] = "PLAYING" /\ chr[cdesc[u]] = u)'
    BY DEF LinkPointsBack
  <2>1. u \in Body
    BY <1>0 DEF CharType, Body
  <2>2. CASE u = b
    BY <1>0, <1>1, <1>2, <2>1, <2>2 DEF CharType
  <2>3. CASE u # b
    <3>1. u # t /\ cdesc'[u] = cdesc[u]
      BY <1>0, <2>1, <2>3 DEF CharType
    <3>2. cdesc[u] \in Desc /\ Live(cdesc[u]) /\ conn[cdesc[u]] = "PLAYING" /\ chr[cdesc[u]] = u
      BY <1>0, <2>1, <3>1 DEF LinkPointsBack, CharType
    <3> QED
      BY <1>1, <1>2, <3>1, <3>2
  <2> QED
    BY <2>2, <2>3
<1> QED
  BY <1>3, <1>4, <1>5, <1>6, <1>7 DEF Sound

\* do_switch moves the link of an immortal from his body to a mobile.
LEMMA SwitchKeeps ==
  ASSUME Sound, NEW d \in Desc, Live(d), Switch(d)
  PROVE  Sound' /\ \A f \in Desc : ~pend[f] /\ pend'[f] => Harmless(f)'
<1> USE SessionConstants
<1> DEFINE t == chr[d]
           me == cdesc[t]
<1>1. PICK m \in Mob :
        /\ me # Nil /\ orig[me] = Nil /\ cdesc[m] = Nil
        /\ chr' = [chr EXCEPT ![me] = m]
        /\ orig' = [orig EXCEPT ![me] = t]
        /\ cdesc' = [cdesc EXCEPT ![m] = me, ![t] = Nil]
        /\ UNCHANGED <<conn, pend, snoop, valid, world, cname, linkdead>>
  BY DEF Switch
<1>2. t \in Slot /\ conn[d] = "PLAYING"
  BY DEF Switch, Orders, Plays, Asked, NameOf
<1>3. t \in world
  BY <1>2 DEF Sound, PlayersAreInWorld, CH
<1>4. me \in Desc /\ Live(me) /\ conn[me] = "PLAYING" /\ chr[me] = t
  BY <1>1, <1>2, <1>3 DEF Sound, LinkPointsBack, CharType, Body
<1>5. m \in Body /\ t \in Body /\ m # t /\ t # Nil /\ CH(me) = t
  BY <1>1, <1>2, <1>4 DEF Body, CH
<1>6. cdesc' = [cdesc EXCEPT ![t] = Nil, ![m] = me]
  BY <1>1, <1>5 DEF Sound, CharType
<1> HIDE DEF me
<1> QED
  BY <1>1, <1>3, <1>4, <1>5, <1>6, MoveKeeps

\* do_return, and the death of the mobile, move it back.
LEMMA UnswitchKeeps ==
  ASSUME Sound, NEW m \in Mob, Unswitch(m)
  PROVE  Sound' /\ \A f \in Desc : ~pend[f] /\ pend'[f] => Harmless(f)'
<1> USE SessionConstants
<1> DEFINE e == cdesc[m]
           o == orig[e]
<1>1. /\ e # Nil /\ o # Nil
      /\ chr' = [chr EXCEPT ![e] = o]
      /\ orig' = [orig EXCEPT ![e] = Nil]
      /\ cdesc' = [cdesc EXCEPT ![m] = Nil, ![o] = e]
      /\ UNCHANGED <<conn, pend, snoop, valid, world, cname, linkdead>>
  BY DEF Unswitch
<1>2. e \in Desc /\ Live(e) /\ conn[e] = "PLAYING" /\ chr[e] = m
  BY <1>1 DEF Sound, LinkPointsBack, CharType, Body
<1>3. CH(e) = o /\ o \in world /\ o \in Slot
  BY <1>1, <1>2 DEF Sound, PlayersAreInWorld, CH, CharType
<1>4. m \in Body /\ o \in Body /\ o # m
  BY <1>3 DEF Body
<1> HIDE DEF e, o
<1> QED
  BY <1>1, <1>2, <1>3, <1>4, MoveKeeps

----------------------------------------------------------------------------
\* The poll.

\* A closed descriptor is freed; nothing in the game points to it.
LEMMA PollFreeKeeps ==
  ASSUME IInv, NEW d \in Desc, PollFree(d)
  PROVE  IInv'
<1> USE SessionConstants
<1>0. /\ LoopType /\ PassesEnd
      /\ DescType /\ CharType /\ UnusedIsBlank /\ WorldIsValid
      /\ LoginsOwnTheirs /\ LoginsAreNew /\ PlayersAreInWorld
      /\ OneBodyPerName /\ OneLoginPerName /\ OneDriver /\ LinkPointsBack
  BY DEF IInv, Sound
<1>1. /\ phase = "poll" /\ pend[d]
      /\ conn' = [conn EXCEPT ![d] = "none"]
      /\ chr' = [chr EXCEPT ![d] = Nil]
      /\ orig' = [orig EXCEPT ![d] = Nil]
      /\ pend' = [pend EXCEPT ![d] = FALSE]
      /\ snoop' = [snoop EXCEPT ![d] = Nil]
      /\ UNCHANGED <<phase, todo, valid, world, cname, cdesc, linkdead>>
  BY DEF PollFree, chars
<1>2. list' \in Seq(Desc)
  <2>1. PICK i \in 1..Len(list) : list' = SubSeq(list, 1, i - 1) \o SubSeq(list, i + 1, Len(list))
    BY DEF PollFree
  <2>2. list \in Seq(Desc) /\ i \in Nat /\ i >= 1 /\ i <= Len(list) /\ Len(list) \in Nat
    BY <1>0 DEF LoopType
  <2>3. SubSeq(list, 1, i - 1) \in Seq(Desc) /\ SubSeq(list, i + 1, Len(list)) \in Seq(Desc)
    BY <2>2
  <2> QED
    BY <2>1, <2>3
<1>3. /\ conn'[d] = "none" /\ chr'[d] = Nil /\ orig'[d] = Nil /\ ~Live(d)
      /\ \A e \in Desc \ {d} : /\ conn'[e] = conn[e] /\ chr'[e] = chr[e] /\ orig'[e] = orig[e]
                               /\ pend'[e] = pend[e] /\ CH(e)' = CH(e)
  BY <1>0, <1>1 DEF DescType, CH, Live
<1>4. /\ \A e \in Desc : Live(e)' <=> Live(e)
      /\ \A e \in Desc : LoggingIn(e)' <=> LoggingIn(e)
      /\ \A e \in Desc : Live(e) => e # d
  BY <1>3 DEF Live, LoggingIn
<1>5. LoopType' /\ PassesEnd' /\ TodoIsHarmless'
  BY <1>0, <1>1, <1>2 DEF LoopType, PassesEnd, TodoIsHarmless
<1>6. DescType' /\ CharType' /\ UnusedIsBlank' /\ WorldIsValid' /\ OneBodyPerName'
  BY <1>0, <1>1, <1>3 DEF DescType, CharType, UnusedIsBlank, WorldIsValid, OneBodyPerName
<1>7. LoginsOwnTheirs' /\ LoginsAreNew' /\ PlayersAreInWorld' /\ OneLoginPerName' /\ OneDriver'
  BY <1>0, <1>1, <1>3, <1>4
     DEF LoginsOwnTheirs, LoginsAreNew, PlayersAreInWorld, OneLoginPerName, OneDriver, LoggingIn
<1>8. LinkPointsBack'
  <2>1. \A b \in world \cup Mob : cdesc[b] # Nil => cdesc[b] \in Desc
    BY <1>0 DEF CharType, Body
  <2> QED
    BY <1>0, <1>1, <1>3, <1>4, <2>1 DEF LinkPointsBack
<1> QED
  BY <1>5, <1>6, <1>7, <1>8 DEF IInv, Sound

\* A new connection starts with the ansi question.
LEMMA PollDoneKeeps ==
  ASSUME IInv, PollDone
  PROVE  IInv'
<1> USE SessionConstants
<1>1. /\ phase' = "input" /\ \A e \in Desc : ~pend[e]
      /\ UNCHANGED <<chr, orig, pend, snoop, valid, world, cname, cdesc, linkdead>>
  BY DEF PollDone, chars
<1>2. \A e \in Desc : ~pend'[e]
  BY <1>1
<1>3. ASSUME todo' \in Desc \cup {Nil}, list' \in Seq(Desc), Sound' PROVE IInv'
  BY <1>1, <1>2, <1>3
     DEF IInv, LoopType, PassesEnd, TodoIsHarmless, Harmless, Live, Sound, UnusedIsBlank
<1>4. CASE todo' = FirstLive(0) /\ UNCHANGED <<list, conn>>
  <2>1. Sound'
    <3>1. snoop' \in [Desc -> Desc \cup {Nil}] /\ linkdead' \subseteq Body
      BY <1>1 DEF IInv, Sound, DescType, CharType
    <3> QED
      BY <1>1, <1>4, <3>1, UnchangedKeeps DEF IInv
  <2> QED
    BY <1>3, <1>4, <2>1, FirstLiveIsLive DEF IInv, LoopType
<1>5. ASSUME NEW d \in Desc, conn[d] = "none", conn' = [conn EXCEPT ![d] = "GET_ANSI"],
             list' = <<d>> \o list, todo' = d
      PROVE  IInv'
  <2>0. LoopType /\ DescType /\ CharType /\ UnusedIsBlank /\ WorldIsValid
        /\ LoginsOwnTheirs /\ LoginsAreNew /\ PlayersAreInWorld
        /\ OneBodyPerName /\ OneLoginPerName /\ OneDriver /\ LinkPointsBack
    BY DEF IInv, Sound
  <2>1. conn'[d] = "GET_ANSI" /\ \A e \in Desc \ {d} : conn'[e] = conn[e]
    BY <1>5, <2>0 DEF DescType
  <2>2. chr[d] = Nil /\ orig[d] = Nil
    BY <1>5, <2>0 DEF UnusedIsBlank
  <2>3. /\ \A e \in Desc : Live(e)' <=> Live(e) \/ e = d
        /\ \A e \in Desc : LoggingIn(e)' <=> LoggingIn(e) \/ e = d
        /\ \A e \in Desc : CH(e)' = CH(e)
        /\ ~Live(d)
    BY <1>1, <1>5, <2>1 DEF Live, LoggingIn, CH
  <2>4. DescType' /\ CharType' /\ UnusedIsBlank' /\ WorldIsValid' /\ OneBodyPerName'
    BY <1>1, <1>5, <2>0, <2>1 DEF DescType, CharType, UnusedIsBlank, WorldIsValid, OneBodyPerName, Con
  <2>5. LoginsOwnTheirs' /\ LoginsAreNew' /\ PlayersAreInWorld' /\ OneLoginPerName'
    BY <1>1, <2>0, <2>1, <2>2, <2>3
       DEF LoginsOwnTheirs, LoginsAreNew, PlayersAreInWorld, OneLoginPerName, LoggingIn, Nameless
  <2>6. OneDriver'
    BY <1>1, <2>0, <2>2, <2>3 DEF OneDriver, CH
  <2>7. LinkPointsBack'
    <3>1. \A b \in world \cup Mob : cdesc[b] # Nil => cdesc[b] \in Desc
      BY <2>0 DEF CharType, Body
    <3> QED
      BY <1>1, <2>0, <2>1, <2>3, <3>1 DEF LinkPointsBack
  <2>8. list' \in Seq(Desc)
    BY <1>5, <2>0 DEF LoopType
  <2> QED
    BY <1>3, <1>5, <2>4, <2>5, <2>6, <2>7, <2>8 DEF Sound
<1> QED
  BY <1>4, <1>5 DEF PollDone, Accept

----------------------------------------------------------------------------
\* The password prompt and the broken connection.

\* A live login past its name, and what the dialogue looks at.
LEMMA LoginFacts ==
  ASSUME Sound, NEW d \in Desc, LoggingIn(d), conn[d] \notin Nameless
  PROVE  /\ chr[d] \in Slot /\ NameOf(chr[d]) = cname[chr[d]]
         /\ \A e \in Desc : Live(e) /\ conn[e] = "PLAYING" =>
               chr[e] # Nil /\ CH(e) \in Slot /\ NameOf(CH(e)) = cname[CH(e)]
  BY SessionConstants DEF Sound, LoginsOwnTheirs, PlayersAreInWorld, CharType, NameOf, CH, LoggingIn

\* oldpassword_answered: asks to break a connection, takes a body over, or goes
\* on to a name nobody in the game has.
LEMMA RightPasswordKeeps ==
  ASSUME Sound, NEW d \in Desc, Live(d), RightPassword(d)
  PROVE  Sound' /\ \A e \in Desc : ~pend[e] /\ pend'[e] => Harmless(e)'
<1> USE SessionConstants
<1> DEFINE n == NameOf(chr[d])
<1>1. conn[d] = "GET_OLD_PASSWORD" /\ LoggingIn(d) /\ conn[d] \notin Nameless
  BY DEF RightPassword, Asked, LoggingIn, Nameless
<1>2. n = cname[chr[d]] /\ chr[d] \in Slot
  BY <1>1, LoginFacts
<1>3. CASE Reply(d, {"BREAK_CONNECT"})
  BY <1>1, <1>3, ReplyKeeps DEF Con, Nameless, Unproven
<1>4. ASSUME PlayersOf(d, n) = {}, NEW s \in Linkless(n, cdesc), TakeOver(d, s, {})
      PROVE  Sound' /\ \A e \in Desc : ~pend[e] /\ pend'[e] => Harmless(e)'
  <2>1. s \in world /\ cname[s] = n /\ cdesc[s] = Nil /\ s \in Body
    BY <1>4 DEF Linkless, Sound, CharType, Body
  <2>2. LinkAfter({}, {})[s] = Nil
    BY <2>1 DEF LinkAfter
  <2>3. \A e \in Desc \ ({} \cup {d}) : Live(e) /\ conn[e] = "PLAYING" => CH(e) # s
    BY <1>1, <1>4, <2>1, LoginFacts DEF PlayersOf
  <2> QED
    BY <1>1, <1>4, <2>1, <2>2, <2>3, LetGoKeeps
<1>5. ASSUME PlayersOf(d, n) = {}, Linkless(n, cdesc) = {},
             Reply(d, {IF n \in Immortals THEN "READ_IMOTD" ELSE "READ_MOTD"})
      PROVE  Sound' /\ \A e \in Desc : ~pend[e] /\ pend'[e] => Harmless(e)'
  <2>1. ASSUME NEW s \in world PROVE cname[s] # cname[chr[d]]
    <3> SUFFICES ASSUME cname[s] = n PROVE FALSE
      BY <1>2
    <3> DEFINE e == cdesc[s]
    <3>1. e # Nil /\ s \in Slot
      BY <1>5 DEF Linkless, Sound, CharType
    <3>2. e \in Desc /\ Live(e) /\ conn[e] = "PLAYING" /\ chr[e] = s
      BY <3>1 DEF Sound, LinkPointsBack, CharType, Body
    <3>3. CH(e) = s /\ chr[e] # Nil
      BY <3>1, <3>2 DEF Sound, PlayersAreInWorld, CH
    <3>4. e \in PlayersOf(d, n)
      BY <1>1, <3>1, <3>2, <3>3 DEF PlayersOf, NameOf
    <3> QED
      BY <1>5, <3>4
  <2> DEFINE states == {IF n \in Immortals THEN "READ_IMOTD" ELSE "READ_MOTD"}
  <2>2. states \in SUBSET (Con \ {"PLAYING"}) /\ states \cap Nameless = {}
    BY DEF Con, Nameless
  <2> HIDE DEF states
  <2>3. Reply(d, states)
    BY <1>5 DEF states
  <2> QED
    BY <1>1, <2>1, <2>2, <2>3, ReplyKeeps
<1> QED
  BY <1>3, <1>4, <1>5 DEF RightPassword

\* breakconnect_answered closes the old links before it looks for the body.
LEMMA BreakConnectKeeps ==
  ASSUME Sound, NEW d \in Desc, Live(d), BreakConnect(d)
  PROVE  Sound' /\ \A e \in Desc : ~pend[e] /\ pend'[e] => Harmless(e)'
<1> USE SessionConstants
<1> DEFINE n == NameOf(chr[d])
           C == OldLinksOf(d, n)
<1>1. conn[d] = "BREAK_CONNECT" /\ LoggingIn(d) /\ conn[d] \notin Nameless
  BY DEF BreakConnect, Asked, LoggingIn, Nameless
<1>2. C \in SUBSET (Desc \ {d}) /\ \A e \in C : Live(e)
  BY DEF OldLinksOf
<1>3. ASSUME NEW s \in Linkless(n, LinkAfter(C, {})), TakeOver(d, s, C)
      PROVE  Sound' /\ \A e \in Desc : ~pend[e] /\ pend'[e] => Harmless(e)'
  <2>1. s \in world /\ cname[s] = n /\ LinkAfter(C, {})[s] = Nil
    BY <1>3 DEF Linkless
  <2>2. \A e \in Desc \ (C \cup {d}) : Live(e) /\ conn[e] = "PLAYING" => CH(e) # s
    BY <1>1, <2>1, LoginFacts DEF OldLinksOf
  <2> HIDE DEF C
  <2> QED
    BY <1>1, <1>2, <1>3, <2>1, <2>2, LetGoKeeps
<1>4. CASE BackToName(d, C)
  <2> HIDE DEF C
  <2> QED
    BY <1>1, <1>2, <1>4, LetGoKeeps
<1>5. CASE BackToName(d, {})
  BY <1>1, <1>5, LetGoKeeps
<1>6. CASE UNCHANGED <<descs, chars>>
  BY <1>6, UnchangedKeeps DEF descs, chars, Sound, DescType, CharType
<1> QED
  BY <1>3, <1>4, <1>5, <1>6 DEF BreakConnect

----------------------------------------------------------------------------
\* The turns.

\* A line comes from a descriptor that is open.
LEMMA LineIsLive ==
  ASSUME Orderly, IInv, NEW d \in Desc, Line(d), conn[d] # "none"
  PROVE  Live(d)
  BY DEF Orderly, Line, Live

\* A turn of input keeps what the handlers keep, and only closes harmlessly.
LEMMA LoginKeeps ==
  ASSUME Orderly, IInv, NEW d \in Desc, Login(d)
  PROVE  Sound' /\ \A e \in Desc : ~pend[e] /\ pend'[e] => Harmless(e)'
<1> USE SessionConstants
<1> DEFINE Kept == Sound' /\ \A e \in Desc : ~pend[e] /\ pend'[e] => Harmless(e)'
<1>1. Sound /\ Live(d) /\ conn[d] # "PLAYING" /\ LoggingIn(d)
  BY LineIsLive DEF IInv, Login, Ansi, GetNameRefused, GetNameDouble, GetName, GetNameLockedOut,
     WrongPassword, RightPassword, BreakConnect, ConfirmNew, Create, ReadImotd, ReadMotd, Asked, Creation,
     LoggingIn
<1>2. ASSUME CloseAll({d}) PROVE Kept
  BY <1>1, <1>2, CloseAllKeeps DEF Harmless
<1>3. ASSUME UNCHANGED <<descs, chars>> PROVE Kept
  BY <1>1, <1>3, UnchangedKeeps DEF descs, chars, Sound, DescType, CharType
<1>4. ASSUME Ansi(d) PROVE Kept
  BY <1>1, <1>2, <1>4, ReplyKeeps DEF Ansi, Asked, Con, Nameless
<1>5. ASSUME GetNameRefused(d) PROVE Kept
  BY <1>2, <1>3, <1>5 DEF GetNameRefused
<1>6. ASSUME GetNameDouble(d) PROVE Kept
  <2>1. PICK n \in Name : CloseAll(LoginsOf(n))
    BY <1>6 DEF GetNameDouble
  <2>2. LoginsOf(n) \in SUBSET Desc /\ \A e \in LoginsOf(n) : Harmless(e)
    BY DEF LoginsOf, Harmless
  <2> QED
    BY <1>1, <2>1, <2>2, CloseAllKeeps
<1>7. ASSUME WrongPassword(d) PROVE Kept
  BY <1>2, <1>7 DEF WrongPassword
<1>8. ASSUME ConfirmNew(d) PROVE Kept
  <2>1. conn[d] = "CONFIRM_NEW_NAME" /\ conn[d] \notin Nameless \cup Unproven
    BY <1>8 DEF ConfirmNew, Asked, Nameless, Unproven
  <2>2. \A s \in world : cname[s] # cname[chr[d]]
    BY <1>1, <2>1 DEF Sound, LoginsAreNew
  <2>3. CASE Reply(d, {"GET_NEW_PASSWORD", "CONFIRM_NEW_NAME"})
    BY <1>1, <2>1, <2>2, <2>3, ReplyKeeps DEF Con, Creation, Nameless
  <2>4. CASE BackToName(d, {})
    BY <1>1, <2>1, <2>4, LetGoKeeps
  <2> QED
    BY <1>8, <2>3, <2>4 DEF ConfirmNew
<1>9. ASSUME Create(d) PROVE Kept
  <2>1. conn[d] \in Creation /\ conn[d] \notin Nameless \cup Unproven
    BY <1>9 DEF Create, Creation, Nameless, Unproven
  <2>2. \A s \in world : cname[s] # cname[chr[d]]
    BY <1>1, <2>1 DEF Sound, LoginsAreNew
  <2> DEFINE states == CreationReplies[conn[d]]
  <2>3. states \in SUBSET (Con \ {"PLAYING"}) /\ states \cap Nameless = {}
    BY <2>1 DEF CreationReplies, Creation, Con, Nameless
  <2>4. Reply(d, states)
    BY <1>9 DEF Create
  <2> HIDE DEF states
  <2> QED
    BY <1>1, <2>1, <2>2, <2>3, <2>4, ReplyKeeps
<1>10. ASSUME ReadImotd(d) PROVE Kept
  <2>1. conn[d] \notin Nameless \cup Unproven /\ Reply(d, {"READ_MOTD"})
    BY <1>10 DEF ReadImotd, Asked, Nameless, Unproven
  <2>2. \A s \in world : cname[s] # cname[chr[d]]
    BY <1>1, <2>1 DEF Sound, LoginsAreNew
  <2> QED
    BY <1>1, <2>1, <2>2, ReplyKeeps DEF Con, Nameless
<1>11. ASSUME GetName(d) \/ GetNameLockedOut(d) PROVE Kept
  BY <1>1, <1>11, GetNameKeeps, LockedOutKeeps
<1>12. ASSUME RightPassword(d) \/ BreakConnect(d) PROVE Kept
  BY <1>1, <1>12, RightPasswordKeeps, BreakConnectKeeps
<1>13. ASSUME ReadMotd(d) PROVE Kept
  BY <1>1, <1>13, ReadMotdKeeps
<1> QED
  BY <1>4, <1>5, <1>6, <1>7, <1>8, <1>9, <1>10, <1>11, <1>12, <1>13 DEF Login

\* A command of a player keeps it too.
LEMMA PlayerLineKeeps ==
  ASSUME Orderly, IInv, NEW d \in Desc, PlayerLine(d)
  PROVE  Sound' /\ \A e \in Desc : ~pend[e] /\ pend'[e] => Harmless(e)'
<1> USE SessionConstants
<1> DEFINE Kept == Sound' /\ \A e \in Desc : ~pend[e] /\ pend'[e] => Harmless(e)'
<1>1. Sound /\ Live(d)
  BY LineIsLive DEF IInv, PlayerLine, Quit, Save, Disconnect, Snoop, Switch, Return, Purge, Orders, Plays, Asked
<1>2. ASSUME Quit(d) PROVE Kept
  BY <1>1, <1>2, LeaveKeeps DEF Quit
<1>3. ASSUME Save(d) PROVE Kept
  BY <1>1, <1>3, UnchangedKeeps DEF Save, descs, Sound, DescType, CharType
<1>4. ASSUME Disconnect(d) PROVE Kept
  <2>1. PICK e \in Desc : Live(e) /\ CloseAll({e})
    BY <1>4 DEF Disconnect, Orderly
  <2> QED
    BY <1>1, <2>1, CloseAllKeeps DEF Harmless
<1>5. ASSUME Snoop(d) PROVE Kept
  <2>1. chr[d] \in Slot /\ cdesc[chr[d]] \in Desc \cup {Nil}
    BY <1>1, <1>5 DEF Snoop, Orders, NameOf, Sound, CharType, Body
  <2>2. snoop' \in [Desc -> Desc \cup {Nil}]
    BY <1>1, <1>5, <2>1 DEF Snoop, Sound, DescType
  <2> QED
    BY <1>1, <1>5, <2>2, UnchangedKeeps DEF Snoop, chars, Sound, CharType
<1>6. ASSUME Switch(d) PROVE Kept
  BY <1>1, <1>6, SwitchKeeps
<1>7. ASSUME Return(d) PROVE Kept
  BY <1>1, <1>7, UnswitchKeeps DEF Return
<1>8. ASSUME Purge(d) PROVE Kept
  BY <1>8 DEF Purge, Orders, Orderly
<1> QED
  BY <1>2, <1>3, <1>4, <1>5, <1>6, <1>7, <1>8 DEF PlayerLine

\* A turn serves what its pass saved: a close of it does no harm.
LEMMA CloseTodoKeeps ==
  ASSUME IInv, NEW d \in Desc, todo = d, CloseAll({d})
  PROVE  Sound' /\ \A e \in Desc : ~pend[e] /\ pend'[e] => Harmless(e)'
<1>1. Harmless(d)
  BY SessionConstants DEF IInv, TodoIsHarmless
<1> QED
  BY <1>1, CloseAllKeeps DEF IInv

----------------------------------------------------------------------------
\* The invariant.

\* The server starts with nobody connected.
LEMMA InitKeeps == Init => IInv
  BY DEF Init, IInv, LoopType, PassesEnd, TodoIsHarmless, Sound, DescType, CharType, UnusedIsBlank,
         WorldIsValid, LoginsOwnTheirs, LoginsAreNew, PlayersAreInWorld, OneBodyPerName, OneLoginPerName,
         OneDriver, LinkPointsBack, LoggingIn, Live, Body

\* Whatever happens outside a turn leaves the saved pointer where it is, unless
\* it fetches the first descriptor of a pass.
LEMMA NoTurnKeeps ==
  ASSUME IInv, Sound', UNCHANGED <<phase, todo, list>>,
         \A e \in Desc : ~pend[e] /\ pend'[e] => Harmless(e)',
         \A e \in Desc : pend[e] => UNCHANGED <<conn[e], chr[e], orig[e]>> /\ pend'[e],
         valid' \subseteq valid
  PROVE  IInv'
<1>1. TodoIsHarmless'
  <2> SUFFICES ASSUME todo # Nil PROVE Harmless(todo)'
    BY DEF TodoIsHarmless
  <2>1. todo \in Desc /\ Harmless(todo)
    BY DEF IInv, LoopType, TodoIsHarmless
  <2>2. CASE pend[todo]
    BY <2>1, <2>2 DEF Harmless, Live, CH
  <2>3. CASE ~pend[todo] /\ pend'[todo]
    BY <2>1, <2>3
  <2>4. CASE ~pend'[todo]
    BY <2>1, <2>4 DEF Harmless, Live, Sound, UnusedIsBlank, CH
  <2> QED
    BY <2>2, <2>3, <2>4
<1> QED
  BY <1>1 DEF IInv, LoopType, PassesEnd

\* The update ends with the output pass at the first descriptor.
LEMMA ToOutputKeeps ==
  ASSUME IInv, Sound', ToOutput, \A e \in Desc : ~pend[e] /\ pend'[e] => Harmless(e)'
  PROVE  IInv'
<1>1. todo' \in Desc \cup {Nil} /\ (todo' # Nil => ~pend[todo'])
  BY FirstLiveIsLive DEF IInv, ToOutput
<1>2. TodoIsHarmless'
  <2> SUFFICES ASSUME todo' # Nil PROVE Harmless(todo)'
    BY DEF TodoIsHarmless
  <2>1. CASE pend'[todo']
    BY <1>1, <2>1 DEF Harmless, Live, CH
  <2>2. CASE ~pend'[todo']
    BY <1>1, <2>2 DEF Harmless, Live, Sound, UnusedIsBlank
  <2> QED
    BY <2>1, <2>2
<1> QED
  BY <1>1, <1>2 DEF IInv, LoopType, PassesEnd, ToOutput

\* char_update throws out at most one linkdead player.
LEMMA TickKeeps ==
  ASSUME IInv, Tick
  PROVE  IInv'
<1>1. ToOutput
  BY DEF Tick
<1>2. PICK limbo \in SUBSET {s \in world \cap linkdead : Mortal(s)} :
        \/ linkdead' = linkdead \ limbo /\ UNCHANGED <<descs, valid, world, cname, cdesc>>
        \/ \E s \in (world \cap linkdead) \ limbo : Mortal(s) /\ Leave(s, limbo)
  BY DEF Tick
<1>3. CASE linkdead' = linkdead \ limbo /\ UNCHANGED <<descs, valid, world, cname, cdesc>>
  <2>1. Sound' /\ \A e \in Desc : ~pend[e] /\ pend'[e] => Harmless(e)'
    BY <1>3, UnchangedKeeps DEF IInv, descs, Sound, DescType, CharType
  <2> QED
    BY <1>1, <2>1, ToOutputKeeps
<1>4. ASSUME NEW s \in world, Leave(s, limbo) PROVE IInv'
  <2>1. Sound' /\ \A e \in Desc : ~pend[e] /\ pend'[e] => Harmless(e)'
    BY <1>4, LeaveKeeps DEF IInv
  <2> QED
    BY <1>1, <2>1, ToOutputKeeps
<1> QED
  BY <1>2, <1>3, <1>4

\* Every step of the loop keeps the invariant.
LEMMA StepKeeps ==
  ASSUME Orderly, IInv, [Next]_vars
  PROVE  IInv'
<1> USE SessionConstants
<1>1. CASE UNCHANGED vars
  <2>1. UNCHANGED <<phase, todo, list>> /\ UNCHANGED <<descs, chars>>
    BY <1>1 DEF vars, loop
  <2>2. Sound' /\ \A e \in Desc : ~pend[e] /\ pend'[e] => Harmless(e)'
    BY <2>1, UnchangedKeeps DEF descs, chars, IInv, Sound, DescType, CharType
  <2> QED
    BY <2>1, <2>2, NoTurnKeeps DEF descs, chars
<1>2. ASSUME NEW d \in Desc, PollFree(d) PROVE IInv'
  BY <1>2, PollFreeKeeps
<1>3. ASSUME NEW d \in Desc, NoLine(d) \/ Drop(d) \/ Login(d) \/ PlayerLine(d) PROVE IInv'
  <2>1. phase' = phase /\ list' = list /\ phase \in {"input", "output"} /\ todo = d /\ todo' = Following(d)
    BY <1>3 DEF NoLine, Drop, Login, PlayerLine, Turn, Line, Asked, Plays, Orders,
       Ansi, GetNameRefused, GetNameDouble, GetName, GetNameLockedOut, WrongPassword, RightPassword,
       BreakConnect, ConfirmNew, Create, ReadImotd, ReadMotd,
       Quit, Save, Disconnect, Snoop, Switch, Return, Purge
  <2>2. Sound' /\ \A e \in Desc : ~pend[e] /\ pend'[e] => Harmless(e)'
    <3>1. CASE NoLine(d)
      BY <3>1, UnchangedKeeps DEF NoLine, descs, chars, IInv, Sound, DescType, CharType
    <3>2. CASE Drop(d)
      BY <2>1, <3>2, CloseTodoKeeps DEF Drop
    <3>3. CASE Login(d)
      BY <3>3, LoginKeeps
    <3>4. CASE PlayerLine(d)
      BY <3>4, PlayerLineKeeps
    <3> QED
      BY <1>3, <3>1, <3>2, <3>3, <3>4
  <2> QED
    BY <2>1, <2>2, TurnKeeps
<1>4. ASSUME NEW d \in Desc, Overflow(d) PROVE IInv'
  <2>1. Sound' /\ \A e \in Desc : ~pend[e] /\ pend'[e] => Harmless(e)'
    BY <1>4, CloseAllKeeps DEF Overflow, Harmless, IInv
  <2>2. /\ UNCHANGED <<phase, todo, list, conn, chr, orig>> /\ valid' \subseteq valid
        /\ \A e \in Desc : pend[e] => pend'[e]
    BY <1>4 DEF Overflow, CloseAll, Release, loop
  <2> QED
    BY <2>1, <2>2, NoTurnKeeps
<1>5. ASSUME NEW d \in Desc, Output(d) PROVE IInv'
  <2>1. Sound' /\ \A e \in Desc : ~pend[e] /\ pend'[e] => Harmless(e)'
    <3>1. CASE UNCHANGED <<descs, chars>>
      BY <3>1, UnchangedKeeps DEF descs, chars, IInv, Sound, DescType, CharType
    <3>2. CASE CloseAll({d})
      BY <1>5, <3>2, CloseTodoKeeps DEF Output
    <3> QED
      BY <1>5, <3>1, <3>2 DEF Output
  <2> QED
    BY <1>5, <2>1, TurnKeeps DEF Output
<1>6. ASSUME NEW m \in Mob, MobDies(m) PROVE IInv'
  <2>1. Sound' /\ \A e \in Desc : ~pend[e] /\ pend'[e] => Harmless(e)'
    BY <1>6, UnswitchKeeps DEF MobDies, IInv
  <2>2. UNCHANGED <<phase, todo, list>> /\ todo = Nil
    BY <1>6 DEF MobDies, loop, IInv, PassesEnd
  <2> QED
    BY <2>1, <2>2 DEF IInv, LoopType, PassesEnd, TodoIsHarmless
<1>7. CASE PollDone
  BY <1>7, PollDoneKeeps
<1>8. CASE InputDone \/ OutputDone
  <2>1. Sound'
    BY <1>8, UnchangedKeeps DEF InputDone, OutputDone, descs, chars, IInv, Sound, DescType, CharType
  <2> QED
    BY <1>8, <2>1 DEF InputDone, OutputDone, IInv, LoopType, PassesEnd, TodoIsHarmless
<1>9. CASE NoTick
  <2>1. Sound' /\ \A e \in Desc : ~pend[e] /\ pend'[e] => Harmless(e)'
    BY <1>9, UnchangedKeeps DEF NoTick, descs, chars, IInv, Sound, DescType, CharType
  <2> QED
    BY <1>9, <2>1, ToOutputKeeps DEF NoTick
<1>10. CASE Tick
  BY <1>10, TickKeeps
<1> QED
  BY <1>1, <1>2, <1>3, <1>4, <1>5, <1>6, <1>7, <1>8, <1>9, <1>10 DEF Next

----------------------------------------------------------------------------
\* The theorems.

\* IInv holds in every state an orderly configuration reaches: it is what the
\* handlers of nanny.c, comm.c and act_wiz.c keep between them.
THEOREM Invariance ==
  ASSUME Orderly
  PROVE  Spec => []IInv
<1>1. IInv /\ [Next]_vars => IInv'
  BY StepKeeps
<1> QED
  BY <1>1, InitKeeps, PTL DEF Spec

\* Every variable of the connection code keeps its type: no handler dereferences
\* NULL or puts a mobile where a player belongs.
THEOREM TypeCorrect ==
  ASSUME Orderly
  PROVE  Spec => []TypeOK
<1>1. IInv => TypeOK
  BY DEF IInv, LoopType, Sound, DescType, CharType, TypeOK
<1> QED
  BY <1>1, Invariance, PTL

\* A player is in the game at most once: neither the race of two logins, a
\* takeover nor a lost link duplicates a character (act_wiz.c:488).
THEOREM BodiesAreUnique ==
  ASSUME Orderly
  PROVE  Spec => []OneBodyPerName
<1>1. IInv => OneBodyPerName
  BY DEF IInv, Sound
<1> QED
  BY <1>1, Invariance, PTL

\* check_parse_name leaves a name to one login dialogue at a time.
THEOREM LoginsAreUnique ==
  ASSUME Orderly
  PROVE  Spec => []OneLoginPerName
<1>1. IInv => OneLoginPerName
  BY DEF IInv, Sound
<1> QED
  BY <1>1, Invariance, PTL

\* Two open descriptors never drive the same character.
THEOREM DriversAreUnique ==
  ASSUME Orderly
  PROVE  Spec => []OneDriver
<1>1. IInv => OneDriver
  BY DEF IInv, Sound
<1> QED
  BY <1>1, Invariance, PTL

\* ch->desc of a body in the game never dangles.
THEOREM LinksPointBack ==
  ASSUME Orderly
  PROVE  Spec => []LinkPointsBack
<1>1. IInv => LinkPointsBack
  BY DEF IInv, Sound
<1> QED
  BY <1>1, Invariance, PTL

\* No open descriptor and nothing in the game points to a freed character.
THEOREM NothingFreedIsUsed ==
  ASSUME Orderly
  PROVE  Spec => []NoUseAfterFree
<1>1. IInv => NoUseAfterFree
  <2> SUFFICES ASSUME IInv PROVE NoUseAfterFree
    OBVIOUS
  <2>1. world \subseteq valid
    BY DEF IInv, Sound, WorldIsValid
  <2>2. ASSUME NEW d \in Desc, Live(d), conn[d] = "PLAYING"
        PROVE  CH(d) \in world /\ chr[d] \in valid \cup Mob /\ orig[d] \in valid \cup {Nil}
    BY <2>1, <2>2 DEF IInv, Sound, PlayersAreInWorld, CH
  <2>3. ASSUME NEW d \in Desc, Live(d), conn[d] # "PLAYING"
        PROVE  chr[d] \in valid \cup {Nil} /\ orig[d] = Nil /\ chr[d] \notin world
    BY <2>3, SessionConstants DEF IInv, Sound, LoginsOwnTheirs, LoggingIn, CharType
  <2> QED
    BY <2>1, <2>2, <2>3 DEF NoUseAfterFree
<1> QED
  BY <1>1, Invariance, PTL

-----------------------------------------------------------------------------
\* Linkdead bodies.

\* The characters of a descriptor that it does not play itself: the one it has
\* switched out of, the one that is logging in.
Aside(d) == ({orig[d]} \cup (IF conn[d] = "PLAYING" THEN {} ELSE {chr[d]})) \ {Nil}

\* A character set aside is not marked linkdead: it comes into play linked.
AsideIsNotDead == \A d \in Desc : Live(d) => Aside(d) \cap linkdead = {}

\* A closed link a pass still has to serve is closed again, which marks what it
\* points to: that is nobody's character set aside.
TodoIsNotAside ==
  todo # Nil /\ conn[todo] = "PLAYING" =>
    \A d \in Desc \ {todo} : Live(d) => chr[todo] \notin Aside(d)

\* The invariant LinkdeadIsCut needs.
DeadInv == LinkdeadIsCut /\ AsideIsNotDead /\ TodoIsNotAside

\* No open link plays what another has set aside, nor its own.
AsideIsOwned ==
  \A c, e \in Desc : Live(c) /\ Live(e) /\ conn[c] = "PLAYING" => chr[c] \notin Aside(e)

\* That follows from who drives whom.
LEMMA AsideIsOwn == Sound => AsideIsOwned
<1> USE SessionConstants DEF AsideIsOwned
<1> SUFFICES ASSUME Sound, NEW c \in Desc, NEW e \in Desc, Live(c), Live(e), conn[c] = "PLAYING",
                    chr[c] \in Aside(e)
             PROVE  FALSE
  OBVIOUS
<1>0. /\ DescType /\ CharType /\ LoginsOwnTheirs /\ PlayersAreInWorld /\ OneDriver
      /\ chr[c] # Nil /\ chr[e] \in Body \cup {Nil} /\ orig[e] \in Slot \cup {Nil}
  BY DEF Sound, Aside, DescType
<1>1. CH(c) \in world /\ (orig[c] # Nil => chr[c] \in Mob) /\ CH(c) \in Slot
  BY <1>0 DEF PlayersAreInWorld, CharType
<1>2. CASE chr[c] = orig[e]
  <2>1. conn[e] = "PLAYING" /\ CH(e) = orig[e] /\ chr[e] \in Mob /\ chr[c] \in Slot
    BY <1>0, <1>2 DEF LoginsOwnTheirs, LoggingIn, PlayersAreInWorld, CH
  <2>2. c # e /\ CH(c) = chr[c]
    BY <1>1, <1>2, <2>1 DEF CH
  <2> QED
    BY <1>0, <1>2, <2>1, <2>2 DEF OneDriver
<1>3. CASE conn[e] # "PLAYING" /\ chr[c] = chr[e]
  <2>1. chr[e] \in valid \ world
    BY <1>0, <1>3 DEF LoginsOwnTheirs, LoggingIn
  <2>2. chr[c] \in Slot /\ CH(c) = chr[c]
    BY <1>0, <1>1, <1>3, <2>1 DEF CharType, CH
  <2> QED
    BY <1>1, <1>3, <2>1, <2>2
<1> QED
  BY <1>2, <1>3 DEF Aside

\* It holds after a step as before.
LEMMA AsideIsOwnNext == Sound' => AsideIsOwned'
BY AsideIsOwn, PTL

\* How a step keeps DeadInv: it marks what the links of C play, and only them; a
\* body in the game it leaves marked has no link; what is set aside was before
\* or is unmarked; a closed link is left with what it played; and where a link
\* is closed, nothing more is set aside.
LEMMA DeadKeeps ==
  ASSUME IInv, IInv', DeadInv,
         todo' \in {todo, Nil} \/ ~pend[todo'],
         NEW C \in SUBSET Desc, \A c \in C : Live(c) \/ c = todo,
         linkdead' \subseteq linkdead \cup Cut(C),
         \A s \in world' \cap linkdead' :
           cdesc'[s] = Nil \/ (s \in world \cap linkdead /\ cdesc'[s] = cdesc[s]),
         \A e \in Desc : Live(e)' =>
           \A b \in Aside(e)' : b \notin linkdead' \/ (Live(e) /\ b \in Aside(e)),
         \A x \in Desc : pend'[x] /\ conn'[x] = "PLAYING" => conn[x] = "PLAYING" /\ chr'[x] = chr[x],
         \/ \A x \in Desc : pend'[x] => x # todo'
         \/ \A e \in Desc : Live(e)' => Live(e) /\ Aside(e)' \subseteq Aside(e)
  PROVE  DeadInv'
<1> USE SessionConstants
<1>1. LinkdeadIsCut'
  BY DEF DeadInv, LinkdeadIsCut
<1>2. AsideIsNotDead'
  <2> SUFFICES ASSUME NEW e \in Desc, Live(e)', NEW b \in Aside(e)', b \in linkdead'
               PROVE  FALSE
    BY DEF AsideIsNotDead
  <2>1. Live(e) /\ b \in Aside(e) /\ b \notin linkdead
    BY DEF DeadInv, AsideIsNotDead
  <2>2. PICK c \in C : conn[c] = "PLAYING" /\ chr[c] # Nil /\ b = chr[c]
    BY <2>1 DEF Cut
  <2>3. CASE Live(c)
    BY <2>1, <2>2, <2>3, AsideIsOwn DEF IInv, AsideIsOwned
  <2>4. CASE ~Live(c)
    <3>1. c = todo /\ c # e /\ c # Nil
      BY <2>1, <2>4
    <3> QED
      BY <2>1, <2>2, <3>1 DEF DeadInv, TodoIsNotAside
  <2> QED
    BY <2>3, <2>4
<1>3. TodoIsNotAside'
  <2>0. todo' \in Desc \cup {Nil}
    BY DEF IInv, LoopType
  <2> SUFFICES ASSUME NEW x \in Desc, x = todo', conn'[x] = "PLAYING",
                      NEW e \in Desc \ {x}, Live(e)', chr'[x] \in Aside(e)'
               PROVE  FALSE
    BY <2>0 DEF TodoIsNotAside
  <2>1. CASE Live(x)'
    <3>1. AsideIsOwned'
      BY AsideIsOwnNext DEF IInv
    <3> QED
      BY <2>1, <3>1 DEF AsideIsOwned
  <2>2. CASE ~Live(x)'
    <3>1. pend'[x] /\ conn[x] = "PLAYING" /\ chr'[x] = chr[x]
      BY <2>2 DEF Live
    <3>2. Live(e) /\ chr[x] \in Aside(e)
      BY <2>0, <3>1
    <3>3. CASE Live(x)
      BY <3>1, <3>2, <3>3, AsideIsOwn DEF IInv, AsideIsOwned
    <3>4. CASE ~Live(x)
      <4>1. x = todo
        BY <3>1, <3>4 DEF Live
      <4> QED
        BY <3>1, <3>2, <4>1 DEF DeadInv, TodoIsNotAside
    <3> QED
      BY <3>3, <3>4
  <2> QED
    BY <2>1, <2>2
<1> QED
  BY <1>1, <1>2, <1>3 DEF DeadInv

\* What a turn, a pass or an update leaves as the next descriptor to serve.
TodoMoves == todo' \in {todo, Nil} \/ ~pend[todo']

\* Where nothing is closed and nobody is linked, nothing changes.
LEMMA QuietKeepsDead ==
  ASSUME IInv, IInv', DeadInv, TodoMoves,
         linkdead' \subseteq linkdead, UNCHANGED <<chr, orig, pend, world, cdesc>>,
         \A e \in Desc : (conn'[e] = "PLAYING" <=> conn[e] = "PLAYING") /\ (conn'[e] = "none" <=> conn[e] = "none")
  PROVE  DeadInv'
<1>1. \A e \in Desc : (Live(e)' <=> Live(e)) /\ Aside(e)' = Aside(e)
  BY DEF Live, Aside
<1>2. \A s \in world' \cap linkdead' : s \in world \cap linkdead /\ cdesc'[s] = cdesc[s]
  OBVIOUS
<1>3. {} \in SUBSET Desc /\ Cut({}) = {}
  BY DEF Cut
<1> QED
  BY <1>1, <1>2, <1>3, DeadKeeps DEF TodoMoves

\* Where links are closed, what they play is marked and cut.
LEMMA ClosingKeepsDead ==
  ASSUME IInv, IInv', DeadInv, TodoMoves,
         NEW C \in SUBSET Desc, \A c \in C : Live(c) \/ c = todo, NEW gone,
         Release(C, gone), cdesc' = LinkAfter(C, gone), linkdead' \subseteq DeadAfter(C, gone),
         world' \subseteq world, UNCHANGED <<conn, chr, orig>>
  PROVE  DeadInv'
<1>1. \A e \in Desc : Live(e)' => Live(e) /\ Aside(e)' = Aside(e)
  BY DEF Live, Aside, Release
<1>2. linkdead' \subseteq linkdead \cup Cut(C)
  BY DEF DeadAfter
<1>3. \A s \in world' \cap linkdead' :
        cdesc'[s] = Nil \/ (s \in world \cap linkdead /\ cdesc'[s] = cdesc[s])
  BY <1>2 DEF LinkAfter, IInv, Sound, CharType, Body
<1> QED
  BY <1>1, <1>2, <1>3, DeadKeeps DEF TodoMoves

\* A login that lets go of its character, for a body or for nothing.
LEMMA LetGoKeepsDead ==
  ASSUME IInv, IInv', DeadInv, TodoMoves,
         NEW d \in Desc, LoggingIn(d), NEW C \in SUBSET (Desc \ {d}), \A c \in C : Live(c),
         BackToName(d, C) \/ \E s \in world : TakeOver(d, s, C)
  PROVE  DeadInv'
<1> DEFINE gone == {chr[d]}
<1>1. DescType /\ CharType
  BY DEF IInv, Sound
<1>2. \A e \in Desc : Live(e)' => Live(e) /\ Aside(e)' \subseteq Aside(e)
  BY <1>1 DEF Live, Aside, Release, BackToName, TakeOver, LoggingIn, DescType
<1>3. linkdead' \subseteq linkdead \cup Cut(C)
  BY DEF DeadAfter, BackToName, TakeOver
<1>4. \A s \in world' \cap linkdead' :
        cdesc'[s] = Nil \/ (s \in world \cap linkdead /\ cdesc'[s] = cdesc[s])
  <2>1. CASE BackToName(d, C)
    BY <1>1, <1>3, <2>1 DEF BackToName, LinkAfter, CharType, Body
  <2>2. ASSUME NEW b \in world, TakeOver(d, b, C)
        PROVE  \A s \in world' \cap linkdead' :
                 cdesc'[s] = Nil \/ (s \in world \cap linkdead /\ cdesc'[s] = cdesc[s])
    BY <1>1, <1>3, <2>2 DEF TakeOver, LinkAfter, CharType, Body
  <2> QED
    BY <2>1, <2>2
<1>5. \A x \in Desc : pend'[x] /\ conn'[x] = "PLAYING" => conn[x] = "PLAYING" /\ chr'[x] = chr[x]
  BY <1>1 DEF BackToName, TakeOver, Release, LoggingIn, Live, DescType
<1> QED
  BY <1>2, <1>3, <1>4, <1>5, DeadKeeps DEF TodoMoves

\* A player is loaded unmarked.
LEMMA LoadKeepsDead ==
  ASSUME IInv, IInv', DeadInv, TodoMoves, NEW d \in Desc, todo = d, Live(d),
         GetName(d) \/ GetNameLockedOut(d)
  PROVE  DeadInv'
<1>1. DescType /\ CharType /\ WorldIsValid
  BY DEF IInv, Sound
<1>2. PICK s \in Slot \ valid :
        /\ chr' = [chr EXCEPT ![d] = s] /\ linkdead' = linkdead \ {s}
        /\ \A b \in Body \ {s} : cdesc'[b] = cdesc[b]
        /\ UNCHANGED <<orig, world>>
        /\ conn[d] = "GET_NAME"
        /\ \A e \in Desc \ {d} : conn'[e] = conn[e] /\ (pend'[e] <=> pend[e])
        /\ conn'[d] # "PLAYING"
  BY <1>1 DEF GetName, GetNameLockedOut, Asked, DescType, CharType, Body
<1>3. \A e \in Desc : Live(e)' => Live(e) /\ \A b \in Aside(e)' : b \notin linkdead' \/ b \in Aside(e)
  BY <1>1, <1>2 DEF Live, Aside, DescType
<1>4. \A b \in world' \cap linkdead' : b \in world \cap linkdead /\ cdesc'[b] = cdesc[b]
  BY <1>1, <1>2 DEF WorldIsValid, CharType, Body
<1>5. \A x \in Desc : pend'[x] /\ conn'[x] = "PLAYING" => conn[x] = "PLAYING" /\ chr'[x] = chr[x]
  BY <1>1, <1>2 DEF DescType
<1>6. CASE GetName(d)
  <2>1. \A x \in Desc : pend'[x] => x # todo'
    BY <1>1, <1>6, SessionConstants DEF GetName, TodoMoves, Live
  <2>2. {} \in SUBSET Desc /\ Cut({}) = {}
    BY DEF Cut
  <2> QED
    BY <1>2, <1>3, <1>4, <1>5, <2>1, <2>2, DeadKeeps DEF TodoMoves
<1>7. CASE GetNameLockedOut(d)
  <2>1. \A e \in Desc : Live(e)' => Live(e) /\ Aside(e)' \subseteq Aside(e)
    BY <1>1, <1>2, <1>7 DEF GetNameLockedOut, Live, Aside, DescType
  <2>2. {} \in SUBSET Desc /\ Cut({}) = {}
    BY DEF Cut
  <2> QED
    BY <1>2, <1>3, <1>4, <1>5, <2>1, <2>2, DeadKeeps DEF TodoMoves
<1> QED
  BY <1>6, <1>7

\* What enters the game was set aside: it enters unmarked, and linked.
LEMMA MotdKeepsDead ==
  ASSUME IInv, IInv', DeadInv, TodoMoves, NEW d \in Desc, Live(d), ReadMotd(d)
  PROVE  DeadInv'
<1>1. DescType /\ CharType /\ LoginsOwnTheirs
  BY DEF IInv, Sound
<1>2. /\ conn[d] = "READ_MOTD" /\ conn' = [conn EXCEPT ![d] = "PLAYING"]
      /\ world' = world \cup {chr[d]} /\ cdesc' = [cdesc EXCEPT ![chr[d]] = d]
      /\ UNCHANGED <<chr, orig, pend, linkdead>>
  BY DEF ReadMotd, Asked
<1>3. chr[d] \in Slot /\ chr[d] \in Aside(d)
  BY <1>1, <1>2, SessionConstants DEF LoginsOwnTheirs, LoggingIn, Nameless, CharType, Aside
<1>4. chr[d] \notin linkdead
  BY <1>3 DEF DeadInv, AsideIsNotDead
<1>5. \A e \in Desc : Live(e)' => Live(e) /\ Aside(e)' \subseteq Aside(e)
  BY <1>1, <1>2 DEF Live, Aside, DescType
<1>6. \A b \in world' \cap linkdead' : b \in world \cap linkdead /\ cdesc'[b] = cdesc[b]
  BY <1>1, <1>2, <1>4 DEF CharType, Body
<1>7. \A x \in Desc : pend'[x] /\ conn'[x] = "PLAYING" => conn[x] = "PLAYING" /\ chr'[x] = chr[x]
  BY <1>1, <1>2 DEF DescType, Live
<1>8. {} \in SUBSET Desc /\ Cut({}) = {}
  BY DEF Cut
<1> QED
  BY <1>2, <1>5, <1>6, <1>7, <1>8, DeadKeeps DEF TodoMoves

\* Switched out of, a body has no link any more, but it is not marked.
LEMMA SwitchKeepsDead ==
  ASSUME IInv, IInv', DeadInv, TodoMoves, NEW d \in Desc, todo = d, Live(d), Switch(d)
  PROVE  DeadInv'
<1> USE SessionConstants
<1> DEFINE t == chr[d]
           me == cdesc[t]
<1>1. DescType /\ CharType
  BY DEF IInv, Sound
<1>2. PICK m \in Mob :
        /\ me # Nil /\ orig[me] = Nil /\ cdesc[m] = Nil
        /\ chr' = [chr EXCEPT ![me] = m]
        /\ orig' = [orig EXCEPT ![me] = t]
        /\ cdesc' = [cdesc EXCEPT ![m] = me, ![t] = Nil]
        /\ UNCHANGED <<conn, pend, snoop, valid, world, cname, linkdead>>
  BY DEF Switch
<1>3. t \in Slot /\ conn[d] = "PLAYING"
  BY DEF Switch, Orders, Plays, Asked, NameOf
<1>4. t \in world
  BY <1>3 DEF IInv, Sound, PlayersAreInWorld, CH
<1>5. me \in Desc /\ Live(me) /\ conn[me] = "PLAYING"
  BY <1>2, <1>3, <1>4 DEF IInv, Sound, LinkPointsBack, CharType, Body
<1>6. t \notin linkdead
  BY <1>2, <1>4 DEF DeadInv, LinkdeadIsCut
<1>7. \A e \in Desc : Live(e)' => Live(e) /\ \A b \in Aside(e)' : b \notin linkdead' \/ b \in Aside(e)
  BY <1>1, <1>2, <1>5, <1>6 DEF Live, Aside, DescType
<1>8. \A s \in world' \cap linkdead' : s \in world \cap linkdead /\ cdesc'[s] = cdesc[s]
  BY <1>1, <1>2, <1>3, <1>6 DEF CharType, Body
<1>9. \A x \in Desc : pend'[x] /\ conn'[x] = "PLAYING" => conn[x] = "PLAYING" /\ chr'[x] = chr[x]
  BY <1>1, <1>2, <1>5 DEF DescType, Live
<1>10. \A x \in Desc : pend'[x] => x # todo'
  BY <1>1, <1>2 DEF TodoMoves, Live
<1>11. {} \in SUBSET Desc /\ Cut({}) = {}
  BY DEF Cut
<1> HIDE DEF me
<1> QED
  BY <1>2, <1>7, <1>8, <1>9, <1>10, <1>11, DeadKeeps DEF TodoMoves

\* The body an immortal returns to was set aside unmarked.
LEMMA UnswitchKeepsDead ==
  ASSUME IInv, IInv', DeadInv, TodoMoves, NEW m \in Mob, Unswitch(m)
  PROVE  DeadInv'
<1> USE SessionConstants
<1> DEFINE f == cdesc[m]
           o == orig[f]
<1>1. DescType /\ CharType
  BY DEF IInv, Sound
<1>2. /\ f # Nil /\ o # Nil
      /\ chr' = [chr EXCEPT ![f] = o]
      /\ orig' = [orig EXCEPT ![f] = Nil]
      /\ cdesc' = [cdesc EXCEPT ![m] = Nil, ![o] = f]
      /\ UNCHANGED <<conn, pend, snoop, valid, world, cname, linkdead>>
  BY DEF Unswitch
<1>3. f \in Desc /\ Live(f) /\ conn[f] = "PLAYING"
  BY <1>2 DEF IInv, Sound, LinkPointsBack, CharType, Body
<1>4. o \in Slot /\ o \notin linkdead
  BY <1>1, <1>2, <1>3 DEF DescType, DeadInv, AsideIsNotDead, Aside
<1>5. \A e \in Desc : Live(e)' => Live(e) /\ Aside(e)' \subseteq Aside(e)
  BY <1>1, <1>2, <1>3 DEF Live, Aside, DescType
<1>6. \A s \in world' \cap linkdead' : s \in world \cap linkdead /\ cdesc'[s] = cdesc[s]
  BY <1>1, <1>2, <1>4 DEF CharType, Body
<1>7. \A x \in Desc : pend'[x] /\ conn'[x] = "PLAYING" => conn[x] = "PLAYING" /\ chr'[x] = chr[x]
  BY <1>1, <1>2, <1>3 DEF DescType, Live
<1>8. {} \in SUBSET Desc /\ Cut({}) = {}
  BY DEF Cut
<1> HIDE DEF f, o
<1> QED
  BY <1>2, <1>5, <1>6, <1>7, <1>8, DeadKeeps DEF TodoMoves

\* do_quit closes the link of the player who leaves, and those of his doubles.
LEMMA LeaveKeepsDead ==
  ASSUME IInv, IInv', DeadInv, TodoMoves, NEW s \in world, NEW saved, Leave(s, saved)
  PROVE  DeadInv'
<1> DEFINE own == {cdesc[s]} \ {Nil}
           twins == {e \in Desc \ own : Live(e) /\ CH(e) \in Slot /\ cname[CH(e)] = cname[s]}
<1>1. PICK C \in SUBSET (own \cup twins) : \E gone \in SUBSET (world \cup Body) :
        /\ Release(C, gone) /\ cdesc' = LinkAfter(C, gone)
        /\ linkdead' \subseteq DeadAfter(C, gone) /\ world' \subseteq world /\ UNCHANGED <<conn, chr, orig>>
  <2>1. PICK E \in SUBSET twins :
          LET C == own \cup E
              gone == {s} \cup ({CH(e) : e \in E} \cap world)
          IN  /\ Release(C, gone) /\ cdesc' = LinkAfter(C, gone)
              /\ linkdead' = DeadAfter(C, gone) \ saved /\ world' = world \ gone
              /\ UNCHANGED <<conn, chr, orig>>
    BY DEF Leave
  <2> DEFINE C == own \cup E
             gone == {s} \cup ({CH(e) : e \in E} \cap world)
  <2>2. C \in SUBSET (own \cup twins) /\ gone \in SUBSET (world \cup Body)
    OBVIOUS
  <2>3. /\ Release(C, gone) /\ cdesc' = LinkAfter(C, gone)
        /\ linkdead' \subseteq DeadAfter(C, gone) /\ world' \subseteq world /\ UNCHANGED <<conn, chr, orig>>
    BY <2>1
  <2> HIDE DEF C, gone
  <2> QED
    BY <2>2, <2>3
<1>2. own \subseteq Desc /\ \A c \in own : Live(c)
  BY DEF IInv, Sound, LinkPointsBack, CharType, Body
<1>3. C \in SUBSET Desc /\ \A c \in C : Live(c)
  BY <1>2
<1> QED
  BY <1>1, <1>3, ClosingKeepsDead

\* close_socket on one link.
LEMMA CloseOneKeepsDead ==
  ASSUME IInv, IInv', DeadInv, TodoMoves, NEW C \in SUBSET Desc, \A c \in C : Live(c) \/ c = todo, CloseAll(C)
  PROVE  DeadInv'
BY ClosingKeepsDead DEF CloseAll

\* A turn of the login dialogue.
LEMMA LoginKeepsDead ==
  ASSUME Orderly, IInv, IInv', DeadInv, TodoMoves, NEW d \in Desc, todo = d, Login(d)
  PROVE  DeadInv'
<1> USE SessionConstants
<1>1. Sound /\ DescType /\ Live(d) /\ conn[d] # "PLAYING" /\ LoggingIn(d)
  BY LineIsLive DEF IInv, Sound, Login, Ansi, GetNameRefused, GetNameDouble, GetName, GetNameLockedOut,
     WrongPassword, RightPassword, BreakConnect, ConfirmNew, Create, ReadImotd, ReadMotd, Asked, Creation,
     LoggingIn
<1>2. ASSUME CloseAll({d}) PROVE DeadInv'
  BY <1>2, CloseOneKeepsDead
<1>3. ASSUME UNCHANGED <<descs, chars>> PROVE DeadInv'
  BY <1>3, QuietKeepsDead DEF descs, chars
<1>4. ASSUME NEW states \in SUBSET (Con \ {"PLAYING"}), Reply(d, states) PROVE DeadInv'
  <2>1. \A e \in Desc : (conn'[e] = "PLAYING" <=> conn[e] = "PLAYING") /\ (conn'[e] = "none" <=> conn[e] = "none")
    BY <1>1, <1>4 DEF Reply, DescType, Live, Con, Creation
  <2> QED
    BY <1>4, <2>1, QuietKeepsDead DEF Reply, chars
<1>5. ASSUME Ansi(d) PROVE DeadInv'
  BY <1>2, <1>4, <1>5 DEF Ansi, Con
<1>6. ASSUME GetNameRefused(d) PROVE DeadInv'
  BY <1>2, <1>3, <1>6 DEF GetNameRefused
<1>7. ASSUME GetNameDouble(d) PROVE DeadInv'
  <2>1. PICK n \in Name : CloseAll(LoginsOf(n))
    BY <1>7 DEF GetNameDouble
  <2>2. LoginsOf(n) \in SUBSET Desc /\ \A e \in LoginsOf(n) : Live(e)
    BY DEF LoginsOf
  <2> QED
    BY <2>1, <2>2, CloseOneKeepsDead
<1>8. ASSUME WrongPassword(d) PROVE DeadInv'
  BY <1>2, <1>8 DEF WrongPassword
<1>9. ASSUME GetName(d) \/ GetNameLockedOut(d) PROVE DeadInv'
  BY <1>1, <1>9, LoadKeepsDead
<1>10. ASSUME RightPassword(d) PROVE DeadInv'
  <2>1. CASE \E s \in world : TakeOver(d, s, {})
    BY <1>1, <2>1, LetGoKeepsDead
  <2>2. ASSUME NEW c, c \in {"BREAK_CONNECT", "READ_IMOTD", "READ_MOTD"}, Reply(d, {c}) PROVE DeadInv'
    BY <1>4, <2>2 DEF Con
  <2> QED
    BY <1>10, <2>1, <2>2 DEF RightPassword, Linkless
<1>11. ASSUME BreakConnect(d) PROVE DeadInv'
  <2> DEFINE C == OldLinksOf(d, NameOf(chr[d]))
  <2>1. C \in SUBSET (Desc \ {d}) /\ \A c \in C : Live(c)
    BY DEF OldLinksOf
  <2>2. \/ \E s \in world : TakeOver(d, s, C)
        \/ BackToName(d, C) \/ BackToName(d, {}) \/ UNCHANGED <<descs, chars>>
    BY <1>11 DEF BreakConnect, Linkless
  <2> HIDE DEF C
  <2> QED
    BY <1>1, <1>3, <2>1, <2>2, LetGoKeepsDead
<1>12. ASSUME ConfirmNew(d) PROVE DeadInv'
  <2>1. CASE BackToName(d, {})
    BY <1>1, <2>1, LetGoKeepsDead
  <2> QED
    BY <1>4, <1>12, <2>1 DEF ConfirmNew, Con, Creation
<1>13. ASSUME Create(d) PROVE DeadInv'
  <2>1. conn[d] \in Creation /\ Reply(d, CreationReplies[conn[d]])
    BY <1>13 DEF Create
  <2>2. CreationReplies[conn[d]] \in SUBSET (Con \ {"PLAYING"})
    BY <2>1 DEF CreationReplies, Creation, Con
  <2> QED
    BY <1>4, <2>1, <2>2
<1>14. ASSUME ReadImotd(d) PROVE DeadInv'
  BY <1>4, <1>14 DEF ReadImotd, Con
<1>15. ASSUME ReadMotd(d) PROVE DeadInv'
  BY <1>1, <1>15, MotdKeepsDead
<1> QED
  BY <1>5, <1>6, <1>7, <1>8, <1>9, <1>10, <1>11, <1>12, <1>13, <1>14, <1>15 DEF Login

\* A command of a player.
LEMMA PlayerLineKeepsDead ==
  ASSUME Orderly, IInv, IInv', DeadInv, TodoMoves, NEW d \in Desc, todo = d, PlayerLine(d)
  PROVE  DeadInv'
<1>1. Live(d)
  BY LineIsLive DEF PlayerLine, Quit, Save, Disconnect, Snoop, Switch, Return, Purge, Orders, Plays, Asked
<1>2. ASSUME Quit(d) PROVE DeadInv'
  BY <1>2, LeaveKeepsDead DEF Quit
<1>3. ASSUME Save(d) \/ Snoop(d) PROVE DeadInv'
  BY <1>3, QuietKeepsDead DEF Save, Snoop, descs, chars
<1>4. ASSUME Disconnect(d) PROVE DeadInv'
  <2>1. PICK e \in Desc : Live(e) /\ CloseAll({e})
    BY <1>4 DEF Disconnect, Orderly
  <2> QED
    BY <2>1, CloseOneKeepsDead
<1>5. ASSUME Switch(d) PROVE DeadInv'
  BY <1>1, <1>5, SwitchKeepsDead
<1>6. ASSUME Return(d) PROVE DeadInv'
  BY <1>6, UnswitchKeepsDead DEF Return
<1>7. ~Purge(d)
  BY DEF Purge, Orders, Orderly
<1> QED
  BY <1>2, <1>3, <1>4, <1>5, <1>6, <1>7 DEF PlayerLine

\* The poll: what is freed was closed, what is accepted is blank.
LEMMA PollKeepsDead ==
  ASSUME IInv, IInv', DeadInv, PollDone \/ \E d \in Desc : PollFree(d)
  PROVE  DeadInv'
<1> USE SessionConstants
<1>1. DescType /\ CharType /\ UnusedIsBlank
  BY DEF IInv, Sound
<1>2. UNCHANGED <<world, cdesc, linkdead>>
  BY DEF PollDone, PollFree, chars
<1>3. {} \in SUBSET Desc /\ Cut({}) = {}
  BY DEF Cut
<1>4. ASSUME NEW d \in Desc, PollFree(d) PROVE DeadInv'
  <2>1. /\ todo' = todo /\ pend[d]
        /\ conn'[d] = "none"
        /\ \A e \in Desc \ {d} : conn'[e] = conn[e] /\ chr'[e] = chr[e] /\ orig'[e] = orig[e] /\ pend'[e] = pend[e]
    BY <1>1, <1>4 DEF PollFree, DescType
  <2>2. \A e \in Desc : Live(e)' => Live(e) /\ Aside(e)' \subseteq Aside(e)
    BY <1>1, <2>1 DEF Live, Aside
  <2>3. \A x \in Desc : pend'[x] /\ conn'[x] = "PLAYING" => conn[x] = "PLAYING" /\ chr'[x] = chr[x]
    BY <2>1
  <2> QED
    BY <1>2, <1>3, <2>1, <2>2, <2>3, DeadKeeps
<1>5. ASSUME PollDone PROVE DeadInv'
  <2>1. UNCHANGED <<chr, orig, pend>> /\ \A x \in Desc : ~pend[x]
    BY <1>5 DEF PollDone
  <2>2. todo' = Nil \/ ~pend[todo']
    BY <1>5, <2>1, FirstLiveIsLive DEF PollDone, Accept, IInv
  <2>3. \A e \in Desc : (conn'[e] = conn[e] /\ Aside(e)' = Aside(e) /\ (Live(e)' <=> Live(e))) \/ Aside(e)' = {}
    BY <1>1, <1>5, <2>1 DEF PollDone, Accept, Aside, Live, UnusedIsBlank, DescType
  <2>4. \A x \in Desc : pend'[x] => x # todo'
    BY <2>1
  <2>5. \A e \in Desc : Live(e)' => \A b \in Aside(e)' : b \notin linkdead' \/ (Live(e) /\ b \in Aside(e))
    BY <2>3
  <2> QED
    BY <1>2, <1>3, <2>1, <2>2, <2>4, <2>5, DeadKeeps
<1> QED
  BY <1>4, <1>5

\* Every step of the loop keeps DeadInv.
LEMMA StepKeepsDead ==
  ASSUME Orderly, IInv, IInv', DeadInv, [Next]_vars
  PROVE  DeadInv'
<1>1. CASE UNCHANGED vars
  BY <1>1, QuietKeepsDead DEF vars, loop, descs, chars, TodoMoves
<1>2. CASE PollDone \/ \E d \in Desc : PollFree(d)
  BY <1>2, PollKeepsDead
<1>3. ASSUME NEW d \in Desc, NoLine(d) \/ Drop(d) \/ Login(d) \/ PlayerLine(d) PROVE DeadInv'
  <2>1. todo = d /\ todo' = Following(d)
    BY <1>3 DEF NoLine, Drop, Login, PlayerLine, Turn, Line, Asked, Plays, Orders,
       Ansi, GetNameRefused, GetNameDouble, GetName, GetNameLockedOut, WrongPassword, RightPassword,
       BreakConnect, ConfirmNew, Create, ReadImotd, ReadMotd,
       Quit, Save, Disconnect, Snoop, Switch, Return, Purge
  <2>2. TodoMoves
    BY <2>1, FirstLiveIsLive DEF TodoMoves, Following, IInv
  <2>3. CASE NoLine(d)
    BY <2>2, <2>3, QuietKeepsDead DEF NoLine, descs, chars
  <2>4. CASE Drop(d)
    BY <2>1, <2>2, <2>4, CloseOneKeepsDead DEF Drop
  <2> QED
    BY <1>3, <2>1, <2>2, <2>3, <2>4, LoginKeepsDead, PlayerLineKeepsDead
<1>4. ASSUME NEW d \in Desc, Overflow(d) PROVE DeadInv'
  BY <1>4, CloseOneKeepsDead DEF Overflow, loop, TodoMoves
<1>5. ASSUME NEW d \in Desc, Output(d) PROVE DeadInv'
  <2>1. TodoMoves /\ todo = d
    BY <1>5, FirstLiveIsLive DEF Output, TodoMoves, Following, IInv
  <2>2. CASE CloseAll({d})
    BY <2>1, <2>2, CloseOneKeepsDead
  <2> QED
    BY <1>5, <2>1, <2>2, QuietKeepsDead DEF Output, descs, chars
<1>6. ASSUME NEW m \in Mob, MobDies(m) PROVE DeadInv'
  BY <1>6, UnswitchKeepsDead DEF MobDies, loop, TodoMoves
<1>7. CASE InputDone \/ OutputDone
  BY <1>7, QuietKeepsDead DEF InputDone, OutputDone, descs, chars, TodoMoves
<1>8. CASE NoTick \/ Tick
  <2>1. TodoMoves
    BY <1>8, FirstLiveIsLive DEF NoTick, Tick, ToOutput, TodoMoves, IInv
  <2>2. CASE NoTick
    BY <2>1, <2>2, QuietKeepsDead DEF NoTick, descs, chars
  <2>3. CASE Tick
    BY <2>1, <2>3, QuietKeepsDead, LeaveKeepsDead DEF Tick, descs
  <2> QED
    BY <1>8, <2>2, <2>3
<1> QED
  BY <1>1, <1>2, <1>3, <1>4, <1>5, <1>6, <1>7, <1>8 DEF Next

\* A body driven through its link is never marked linkdead, so that char_update
\* throws nobody out who is playing.
THEOREM LinkdeadMeansCut ==
  ASSUME Orderly
  PROVE  Spec => []LinkdeadIsCut
<1>1. Init /\ IInv => DeadInv
  BY DEF Init, DeadInv, LinkdeadIsCut, AsideIsNotDead, TodoIsNotAside
<1>2. IInv /\ IInv' /\ DeadInv /\ [Next]_vars => DeadInv'
  BY StepKeepsDead
<1>3. DeadInv => LinkdeadIsCut
  BY DEF DeadInv
<1> QED
  BY <1>1, <1>2, <1>3, Invariance, PTL DEF Spec

-----------------------------------------------------------------------------
\* Snooping.

\* A step that only ends snoops closes no loop.
LEMMA FewerSnoops ==
  ASSUME NoSnoopLoops, \A e \in Desc : snoop'[e] \in {snoop[e], Nil}
  PROVE  NoSnoopLoops'
<1> SUFFICES ASSUME NEW ring \in (SUBSET Desc) \ {{}}, \A d \in ring : snoop'[d] \in ring
             PROVE  FALSE
  BY DEF NoSnoopLoops
<1>1. \A d \in ring : snoop[d] \in ring
  BY SessionConstants
<1> QED
  BY <1>1 DEF NoSnoopLoops

\* What is not above a descriptor lies outside some set that holds whatever is.
LEMMA NotAbove ==
  ASSUME NEW c \in Desc, NEW start, c \notin Above(start)
  PROVE  \E S \in SUBSET Desc :
           c \notin S /\ start \in S \cup {Nil} /\ \A x \in S : snoop[x] \in S \cup {Nil}
BY DEF Above

\* do_snoop refuses a victim among the snoopers above its own link: whoever
\* starts to snoop closes no loop.
LEMMA SnoopKeepsLoops ==
  ASSUME Sound, NoSnoopLoops, NEW d \in Desc, Live(d), Snoop(d)
  PROVE  NoSnoopLoops'
<1> USE SessionConstants
<1> DEFINE me == cdesc[chr[d]]
<1>1. DescType /\ CharType
  BY DEF Sound
<1>2. chr[d] \in world
  BY DEF Sound, PlayersAreInWorld, CH, Snoop, Orders, Plays, Asked, NameOf
<1>3. CASE snoop' = [e \in Desc |-> IF snoop[e] = me THEN Nil ELSE snoop[e]]
  BY <1>3, FewerSnoops
<1>4. ASSUME NEW v \in (world \cup Mob) \ {chr[d]}, cdesc[v] # Nil,
             me # Nil => \A e \in Snoopers(me) : chr[e] # v /\ orig[e] # v,
             snoop' = [snoop EXCEPT ![cdesc[v]] = me]
      PROVE  NoSnoopLoops'
  <2> DEFINE c == cdesc[v]
  <2>1. c \in Desc /\ chr[c] = v
    BY <1>1, <1>4 DEF Sound, LinkPointsBack, CharType, Body
  <2>2. CASE me = Nil
    BY <1>1, <1>4, <2>2, FewerSnoops DEF DescType
  <2>3. CASE me # Nil
    <3>1. me \in Desc /\ chr[me] = chr[d]
      BY <1>1, <1>2, <2>3 DEF Sound, LinkPointsBack, CharType, Body
    <3>2. c # me /\ c \notin Above(snoop[me])
      BY <1>4, <2>1, <2>3, <3>1 DEF Snoopers
    <3>3. PICK S \in SUBSET Desc :
            c \notin S /\ snoop[me] \in S \cup {Nil} /\ \A x \in S : snoop[x] \in S \cup {Nil}
      BY <2>1, <3>2, NotAbove
    <3>4. /\ snoop'[c] = me
          /\ \A x \in Desc \ {c} : snoop'[x] = snoop[x]
      BY <1>1, <1>4, <2>1 DEF DescType
    <3> HIDE DEF c, me
    <3> SUFFICES ASSUME NEW ring \in (SUBSET Desc) \ {{}}, \A x \in ring : snoop'[x] \in ring
                 PROVE  FALSE
      BY DEF NoSnoopLoops
    <3>5. CASE c \notin ring
      <4>1. \A x \in ring : snoop[x] \in ring
        BY <3>4, <3>5
      <4> QED
        BY <4>1 DEF NoSnoopLoops
    <3>6. CASE c \in ring
      <4> DEFINE old == ring \cap (S \cup {me})
      <4>1. me \in old
        BY <3>4, <3>6
      <4>2. \A x \in old : snoop[x] \in old
        BY <3>2, <3>3, <3>4
      <4>3. old \in (SUBSET Desc) \ {{}}
        BY <4>1
      <4> HIDE DEF old
      <4> QED
        BY <4>2, <4>3 DEF NoSnoopLoops
    <3> QED
      BY <3>5, <3>6
  <2> QED
    BY <2>2, <2>3
<1> QED
  BY <1>3, <1>4 DEF Snoop

\* No other step starts a snoop.
LEMMA StepKeepsLoops ==
  ASSUME Orderly, IInv, NoSnoopLoops, [Next]_vars
  PROVE  NoSnoopLoops'
<1> USE SessionConstants
<1> DEFINE Fewer == \A e \in Desc : snoop'[e] \in {snoop[e], Nil}
<1>1. snoop' = snoop => Fewer
  OBVIOUS
<1>2. ASSUME NEW C, NEW gone, Release(C, gone) PROVE Fewer
  BY <1>2 DEF Release
<1>3. ASSUME NEW C, CloseAll(C) PROVE Fewer
  BY <1>2, <1>3 DEF CloseAll
<1>4. ASSUME NEW s, NEW saved, Leave(s, saved) PROVE Fewer
  BY <1>2, <1>4 DEF Leave
<1>5. ASSUME NEW d, NEW states, Reply(d, states) PROVE Fewer
  BY <1>1, <1>5 DEF Reply
<1>6. ASSUME NEW d, NEW C, BackToName(d, C) \/ \E s \in world : TakeOver(d, s, C) PROVE Fewer
  BY <1>2, <1>6 DEF BackToName, TakeOver
<1>7. ASSUME NEW m, Unswitch(m) PROVE Fewer
  BY <1>1, <1>7 DEF Unswitch
<1>8. ASSUME UNCHANGED <<descs, chars>> PROVE Fewer
  BY <1>1, <1>8 DEF descs
<1>9. ASSUME NEW d \in Desc, PollFree(d) PROVE Fewer
  <2>1. snoop \in [Desc -> Desc \cup {Nil}]
    BY DEF IInv, Sound, DescType
  <2> QED
    BY <1>9, <2>1 DEF PollFree
<1> HIDE DEF Fewer
<1>10. ASSUME NEW d \in Desc, Login(d) PROVE Fewer
  <2>1. CASE Ansi(d) \/ GetNameRefused(d) \/ GetNameDouble(d) \/ WrongPassword(d)
    BY <1>3, <1>5, <1>8, <2>1 DEF Ansi, GetNameRefused, GetNameDouble, WrongPassword
  <2>2. CASE GetName(d) \/ ReadMotd(d)
    BY <1>1, <2>2 DEF GetName, ReadMotd
  <2>3. CASE GetNameLockedOut(d)
    BY <2>3 DEF GetNameLockedOut, Fewer
  <2>4. CASE RightPassword(d)
    BY <1>5, <1>6, <2>4 DEF RightPassword, Linkless
  <2>5. CASE BreakConnect(d)
    BY <1>6, <1>8, <2>5 DEF BreakConnect, Linkless
  <2>6. CASE ConfirmNew(d) \/ Create(d) \/ ReadImotd(d)
    BY <1>5, <1>6, <2>6 DEF ConfirmNew, Create, ReadImotd
  <2> QED
    BY <1>10, <2>1, <2>2, <2>3, <2>4, <2>5, <2>6 DEF Login
<1>11. ASSUME NEW d \in Desc, PlayerLine(d), ~Snoop(d) PROVE Fewer
  <2>1. CASE Quit(d) \/ Disconnect(d) \/ Return(d)
    BY <1>3, <1>4, <1>7, <2>1 DEF Quit, Disconnect, Return
  <2>2. CASE Save(d) \/ Switch(d)
    BY <1>1, <2>2 DEF Save, Switch, descs
  <2>3. CASE Purge(d)
    BY <1>2, <2>3 DEF Purge
  <2> QED
    BY <1>11, <2>1, <2>2, <2>3 DEF PlayerLine
<1>12. ASSUME NEW d \in Desc, NoLine(d) \/ Drop(d) \/ Overflow(d) \/ Output(d) PROVE Fewer
  BY <1>3, <1>8, <1>12 DEF NoLine, Drop, Overflow, Output
<1>13. ASSUME NEW m \in Mob, MobDies(m) PROVE Fewer
  BY <1>7, <1>13 DEF MobDies
<1>14. CASE PollDone \/ InputDone \/ NoTick \/ OutputDone \/ UNCHANGED vars
  BY <1>1, <1>14, FewerSnoops DEF PollDone, InputDone, NoTick, OutputDone, vars, descs, Fewer
<1>15. CASE Tick
  BY <1>1, <1>4, <1>15, FewerSnoops DEF Tick, descs, Fewer
<1>16. ASSUME NEW d \in Desc, Snoop(d) PROVE NoSnoopLoops'
  <2>1. Live(d)
    BY <1>16, LineIsLive DEF Snoop, Orders, Plays, Asked
  <2> QED
    BY <1>16, <2>1, SnoopKeepsLoops DEF IInv
<1> QED
  BY <1>9, <1>10, <1>11, <1>12, <1>13, <1>14, <1>15, <1>16, FewerSnoops DEF Next, Fewer

\* do_snoop looks only at the snoopers above the one who orders it, and bodies
\* are switched, taken over and left meanwhile: no chain of snoops ever comes
\* back to where it began, which write_to_buffer would follow without end.
THEOREM SnoopsNeverLoop ==
  ASSUME Orderly
  PROVE  Spec => []NoSnoopLoops
<1>1. Init => NoSnoopLoops
  <2> SUFFICES ASSUME Init, NEW ring \in (SUBSET Desc) \ {{}} PROVE \E d \in ring : snoop[d] \notin ring
    BY DEF NoSnoopLoops
  <2>1. PICK d \in ring : d \in Desc
    OBVIOUS
  <2>2. snoop[d] = Nil /\ Nil \notin Desc
    BY SessionConstants DEF Init
  <2> QED
    BY <2>1, <2>2
<1>2. IInv /\ NoSnoopLoops /\ [Next]_vars => NoSnoopLoops'
  BY StepKeepsLoops
<1> QED
  BY <1>1, <1>2, Invariance, PTL DEF Spec

-----------------------------------------------------------------------------
\* Entering the game.

\* A descriptor enters the game with a body of the name it has logged in as.
EntersRight(d) == chr'[d] \in world' /\ cname'[chr'[d]] = cname[chr[d]]
Enters(d) == conn[d] # "PLAYING" /\ conn'[d] = "PLAYING"

\* Taking a body over is for the bodies of one's own name.
LEMMA TakeOverEnters ==
  ASSUME Sound, Sound', NEW d \in Desc, NEW s \in world, NEW C, TakeOver(d, s, C),
         cname[s] = cname[chr[d]], NEW e \in Desc, Enters(e)
  PROVE  EntersRight(e)
<1>1. e = d /\ chr'[d] = s /\ s \in world' /\ s \in Slot
  BY DEF TakeOver, Enters, Sound, DescType, CharType
<1>2. cname'[s] \in {Nil, cname[s]}
  BY <1>1 DEF TakeOver, Release
<1>3. cname'[s] \in Name
  BY <1>1 DEF Sound, WorldIsValid
<1> QED
  BY <1>1, <1>2, <1>3, SessionConstants DEF EntersRight

\* Only a right password, a broken connection and the end of the dialogue enter
\* the game.
LEMMA StepEnters ==
  ASSUME Orderly, IInv, IInv', [Next]_vars, NEW e \in Desc, Enters(e)
  PROVE  EntersRight(e)
<1> USE SessionConstants
<1>0. Sound /\ Sound' /\ conn \in [Desc -> Con \cup {"none"}] /\ conn' # conn
  BY DEF IInv, Sound, DescType, Enters
<1>1. ASSUME NEW C, CloseAll(C) PROVE FALSE
  BY <1>0, <1>1 DEF CloseAll
<1>2. ASSUME NEW s, NEW saved, Leave(s, saved) PROVE FALSE
  BY <1>0, <1>2 DEF Leave
<1>3. ASSUME NEW d, NEW states, Reply(d, states), "PLAYING" \notin states PROVE FALSE
  BY <1>0, <1>3 DEF Reply, Enters
<1>4. ASSUME NEW d \in Desc, NEW C, BackToName(d, C) PROVE FALSE
  BY <1>0, <1>4 DEF BackToName, Enters
<1>5. ASSUME NEW m, Unswitch(m) PROVE FALSE
  BY <1>0, <1>5 DEF Unswitch
<1>6. ASSUME UNCHANGED <<descs, chars>> PROVE FALSE
  BY <1>0, <1>6 DEF descs
<1>7. ASSUME NEW d \in Desc, Login(d) PROVE EntersRight(e)
  <2>1. CASE Ansi(d) \/ GetNameRefused(d) \/ GetNameDouble(d) \/ WrongPassword(d)
    BY <1>1, <1>3, <1>6, <2>1 DEF Ansi, GetNameRefused, GetNameDouble, WrongPassword
  <2>2. CASE GetName(d) \/ GetNameLockedOut(d)
    BY <1>0, <2>2 DEF GetName, GetNameLockedOut, Enters
  <2>3. CASE ReadMotd(d)
    BY <1>0, <2>3 DEF ReadMotd, Enters, EntersRight
  <2>4. CASE RightPassword(d)
    <3>1. LoggingIn(d) /\ conn[d] \notin Nameless
      BY <2>4, LineIsLive DEF RightPassword, Asked, LoggingIn, Nameless
    <3>2. NameOf(chr[d]) = cname[chr[d]]
      BY <1>0, <3>1, LoginFacts
    <3>3. \E s \in Linkless(NameOf(chr[d]), cdesc) : TakeOver(d, s, {})
      BY <1>3, <2>4 DEF RightPassword
    <3> QED
      BY <1>0, <3>2, <3>3, TakeOverEnters DEF Linkless
  <2>5. CASE BreakConnect(d)
    <3> DEFINE C == OldLinksOf(d, NameOf(chr[d]))
    <3>1. LoggingIn(d) /\ conn[d] \notin Nameless
      BY <2>5, LineIsLive DEF BreakConnect, Asked, LoggingIn, Nameless
    <3>2. NameOf(chr[d]) = cname[chr[d]]
      BY <1>0, <3>1, LoginFacts
    <3>3. \E s \in Linkless(NameOf(chr[d]), LinkAfter(C, {})) : TakeOver(d, s, C)
      BY <1>4, <1>6, <2>5 DEF BreakConnect
    <3> HIDE DEF C
    <3> QED
      BY <1>0, <3>2, <3>3, TakeOverEnters DEF Linkless
  <2>6. CASE ConfirmNew(d) \/ ReadImotd(d)
    BY <1>3, <1>4, <2>6 DEF ConfirmNew, ReadImotd
  <2>7. CASE Create(d)
    <3>1. conn[d] \in Creation /\ Reply(d, CreationReplies[conn[d]])
      BY <2>7 DEF Create
    <3>2. "PLAYING" \notin CreationReplies[conn[d]]
      BY <3>1 DEF CreationReplies, Creation
    <3> QED
      BY <1>3, <3>1, <3>2
  <2> QED
    BY <1>7, <2>1, <2>2, <2>3, <2>4, <2>5, <2>6, <2>7 DEF Login
<1>8. ASSUME NEW d \in Desc, PlayerLine(d) PROVE FALSE
  BY <1>0, <1>1, <1>2, <1>5, <1>8
     DEF PlayerLine, Quit, Save, Disconnect, Snoop, Switch, Return, Purge, descs
<1>9. ASSUME NEW d \in Desc, NoLine(d) \/ Drop(d) \/ Overflow(d) \/ Output(d) PROVE FALSE
  BY <1>1, <1>6, <1>9 DEF NoLine, Drop, Overflow, Output
<1>10. ASSUME NEW m \in Mob, MobDies(m) PROVE FALSE
  BY <1>5, <1>10 DEF MobDies
<1>11. ASSUME InputDone \/ NoTick \/ Tick \/ OutputDone \/ UNCHANGED vars PROVE FALSE
  BY <1>0, <1>2, <1>11 DEF InputDone, NoTick, Tick, OutputDone, vars, descs
<1>12. ASSUME PollDone \/ \E d \in Desc : PollFree(d) PROVE FALSE
  BY <1>0, <1>12 DEF PollDone, Accept, PollFree, Enters
<1> QED
  BY <1>7, <1>8, <1>9, <1>10, <1>11, <1>12 DEF Next

\* Whoever comes to play, by a new login, by taking a body over or by breaking
\* an old connection, plays a body in the game under the name that was checked.
THEOREM EntersAsChecked ==
  ASSUME Orderly
  PROVE  Spec => EntersUnderItsName
<1> DEFINE Step == \A d \in Desc : Enters(d) => EntersRight(d)
<1>1. IInv /\ IInv' /\ [Next]_vars => [Step]_vars
  BY StepEnters
<1>2. [Step]_vars => [\A d \in Desc : conn[d] # "PLAYING" /\ conn'[d] = "PLAYING"
                        => chr'[d] \in world' /\ cname'[chr'[d]] = cname[chr[d]]]_vars
  BY DEF Enters, EntersRight
<1> HIDE DEF Step
<1> QED
  BY <1>1, <1>2, Invariance, PTL DEF Spec, EntersUnderItsName

-----------------------------------------------------------------------------
\* The refinement: the sessions implement Presence.

\* The two relations Presence is about: who is in the game as whom, and which
\* open link plays for whom.
InPlay(d) == Live(d) /\ conn[d] = "PLAYING"
Embodies(s, n) == s \in world /\ cname[s] = n
PlaysFor(d, n) == InPlay(d) /\ Embodies(CH(d), n)

\* BodyOf and DriverOf tell them exactly.
Told ==
  \A n \in Name :
    /\ BodyOf(n) \in Slot \cup {Nil} /\ DriverOf(n) \in Desc \cup {Nil}
    /\ \A s \in Slot : Embodies(s, n) <=> BodyOf(n) = s
    /\ \A d \in Desc : PlaysFor(d, n) <=> DriverOf(n) = d

LEMMA SoundTells == Sound => Told
<1> USE SessionConstants
<1> SUFFICES ASSUME Sound, NEW n \in Name
             PROVE  /\ BodyOf(n) \in Slot \cup {Nil} /\ DriverOf(n) \in Desc \cup {Nil}
                    /\ \A s \in Slot : Embodies(s, n) <=> BodyOf(n) = s
                    /\ \A d \in Desc : PlaysFor(d, n) <=> DriverOf(n) = d
  BY DEF Told
<1>0. CharType /\ OneBodyPerName /\ OneDriver /\ PlayersAreInWorld
  BY DEF Sound
<1>1. BodyOf(n) \in Slot \cup {Nil} /\ \A s \in Slot : Embodies(s, n) <=> BodyOf(n) = s
  BY <1>0 DEF BodyOf, Embodies, CharType, OneBodyPerName
<1>2. \A d \in Desc : PlaysFor(d, n) <=> Drives(d, n)
  BY <1>0, <1>1 DEF PlaysFor, Drives, InPlay, Embodies, PlayersAreInWorld, CharType
<1>3. ASSUME NEW d \in Desc, NEW e \in Desc, Drives(d, n), Drives(e, n) PROVE d = e
  <2>1. chr[d] # Nil
    BY <1>0, <1>3 DEF Drives, PlayersAreInWorld, CH, CharType
  <2> QED
    BY <1>0, <1>3, <2>1 DEF Drives, OneDriver
<1>4. DriverOf(n) \in Desc \cup {Nil} /\ \A d \in Desc : Drives(d, n) <=> DriverOf(n) = d
  BY <1>3 DEF DriverOf
<1> QED
  BY <1>1, <1>2, <1>4

LEMMA SoundTellsNext == Sound' => Told'
BY SoundTells, PTL

\* For a player neither relation changes.
Same(n) ==
  /\ \A s \in Slot : Embodies(s, n)' <=> Embodies(s, n)
  /\ \A d \in Desc : PlaysFor(d, n)' <=> PlaysFor(d, n)

Seen == <<[n \in Name |-> BodyOf(n)], [n \in Name |-> DriverOf(n)]>>

\* Presence steps, or sees nothing.
Implements == P!Next \/ UNCHANGED Seen

LEMMA SameTells ==
  ASSUME Told, Told', NEW n \in Name, Same(n)
  PROVE  BodyOf(n)' = BodyOf(n) /\ DriverOf(n)' = DriverOf(n)
BY SessionConstants DEF Told, Same

LEMMA NothingSeen ==
  ASSUME Told, Told', \A n \in Name : Same(n)
  PROVE  Implements
BY SameTells DEF Implements, Seen

\* The link of one player goes.
LEMMA SeenToLose ==
  ASSUME Told, Told', NEW p \in Name, \A n \in Name \ {p} : Same(n),
         \A s \in Slot : Embodies(s, p)' <=> Embodies(s, p),
         \A d \in Desc : ~PlaysFor(d, p)'
  PROVE  Implements
<1> USE SessionConstants
<1>1. CASE DriverOf(p) = Nil
  BY <1>1, NothingSeen DEF Told, Same
<1>2. CASE DriverOf(p) # Nil
  <2>1. \A n \in Name \ {p} : BodyOf(n)' = BodyOf(n) /\ DriverOf(n)' = DriverOf(n)
    BY SameTells
  <2>2. BodyOf(p)' = BodyOf(p) /\ DriverOf(p)' = Nil
    BY DEF Told
  <2> HIDE DEF BodyOf, DriverOf
  <2>3. P!LoseLink(p)
    BY <1>2, <2>1, <2>2 DEF P!LoseLink
  <2> QED
    BY <2>3 DEF Implements, P!Next
<1> QED
  BY <1>1, <1>2

\* A link that plays for nobody takes over the body of one player.
LEMMA SeenToTakeOver ==
  ASSUME Told, Told', NEW p \in Name, \A n \in Name \ {p} : Same(n),
         NEW b \in Slot, Embodies(b, p),
         \A s \in Slot : Embodies(s, p)' <=> Embodies(s, p),
         NEW d \in Desc, PlaysFor(d, p)', \A n \in Name : ~PlaysFor(d, n)
  PROVE  Implements
<1> USE SessionConstants
<1>1. \A n \in Name \ {p} : BodyOf(n)' = BodyOf(n) /\ DriverOf(n)' = DriverOf(n)
  BY SameTells
<1>2. BodyOf(p) = b /\ BodyOf(p)' = BodyOf(p) /\ DriverOf(p)' = d /\ \A n \in Name : DriverOf(n) # d
  BY DEF Told
<1> HIDE DEF BodyOf, DriverOf
<1>3. P!TakeOver(p, d)
  BY <1>1, <1>2 DEF P!TakeOver
<1> QED
  BY <1>3 DEF Implements, P!Next

\* One player leaves the game.
LEMMA SeenToLeave ==
  ASSUME Told, Told', NEW p \in Name, \A n \in Name \ {p} : Same(n),
         NEW b \in Slot, Embodies(b, p),
         \A s \in Slot : ~Embodies(s, p)', \A d \in Desc : ~PlaysFor(d, p)'
  PROVE  Implements
<1> USE SessionConstants
<1>1. \A n \in Name \ {p} : BodyOf(n)' = BodyOf(n) /\ DriverOf(n)' = DriverOf(n)
  BY SameTells
<1>2. BodyOf(p) = b /\ BodyOf(p)' = Nil /\ DriverOf(p)' = Nil
  BY DEF Told
<1> HIDE DEF BodyOf, DriverOf
<1>3. P!Leave(p)
  BY <1>1, <1>2 DEF P!Leave
<1> QED
  BY <1>3 DEF Implements, P!Next

\* One player enters the game.
LEMMA SeenToEnter ==
  ASSUME Told, Told', NEW p \in Name, \A n \in Name \ {p} : Same(n),
         \A s \in Slot : ~Embodies(s, p),
         NEW b \in Slot, Embodies(b, p)', \A n \in Name : ~Embodies(b, n),
         NEW d \in Desc, PlaysFor(d, p)'
  PROVE  Implements
<1> USE SessionConstants
<1>1. \A n \in Name \ {p} : BodyOf(n)' = BodyOf(n) /\ DriverOf(n)' = DriverOf(n)
  BY SameTells
<1>2. BodyOf(p) = Nil /\ BodyOf(p)' = b /\ DriverOf(p)' = d /\ \A n \in Name : BodyOf(n) # b
  BY DEF Told
<1> HIDE DEF BodyOf, DriverOf
<1>3. P!Enter(p, b, d)
  BY <1>1, <1>2 DEF P!Enter
<1> QED
  BY <1>3 DEF Implements, P!Next

\* The names of those in the game stay theirs: characters are named when they
\* are loaded and forgotten when they are freed.
LEMMA NamesStay ==
  ASSUME Sound, Sound', NEW C, NEW gone, Release(C, gone), NEW s \in world, s \in world'
  PROVE  cname'[s] = cname[s]
<1>1. s \in Slot /\ cname'[s] \in Name
  BY DEF Sound, CharType, WorldIsValid
<1> QED
  BY <1>1, SessionConstants DEF Release

\* Nobody enters or leaves, and at most the link c goes.
LEMMA LinkGoes ==
  ASSUME Sound, Sound', world' = world, \A s \in world : cname'[s] = cname[s],
         NEW c, \A e \in Desc : InPlay(e)' => InPlay(e) /\ CH(e)' = CH(e),
         \A e \in Desc : InPlay(e) /\ ~InPlay(e)' => e = c
  PROVE  Implements
<1>1. Told /\ Told' /\ CharType /\ WorldIsValid /\ PlayersAreInWorld
  BY SoundTells, SoundTellsNext DEF Sound
<1>2. \A s, n : Embodies(s, n)' <=> Embodies(s, n)
  BY DEF Embodies
<1>3. \A e \in Desc, n \in Name : PlaysFor(e, n)' => PlaysFor(e, n)
  BY <1>2 DEF PlaysFor, Embodies
<1>4. CASE \A e \in Desc : InPlay(e) => InPlay(e)'
  <2>1. \A n \in Name : Same(n)
    BY <1>2, <1>3, <1>4 DEF Same, PlaysFor, Embodies
  <2> QED
    BY <1>1, <2>1, NothingSeen
<1>5. ASSUME c \in Desc, InPlay(c), ~InPlay(c)' PROVE Implements
  <2>0. CH(c) \in world
    BY <1>1, <1>5 DEF PlayersAreInWorld, InPlay
  <2>1. PICK p \in Name : p = cname[CH(c)]
    BY <1>1, <2>0 DEF WorldIsValid
  <2>2. PlaysFor(c, p)
    BY <1>5, <2>0, <2>1 DEF PlaysFor, Embodies
  <2>3. \A e \in Desc \ {c} : InPlay(e)' <=> InPlay(e)
    OBVIOUS
  <2>4. \A n \in Name \ {p} : Same(n)
    <3> SUFFICES ASSUME NEW n \in Name \ {p}, NEW e \in Desc, PlaysFor(e, n) PROVE PlaysFor(e, n)'
      BY <1>2, <1>3 DEF Same
    <3>1. e # c
      BY <2>1 DEF PlaysFor, Embodies
    <3> QED
      BY <2>3, <3>1 DEF PlaysFor, Embodies
  <2>5. \A d \in Desc : ~PlaysFor(d, p)'
    <3> SUFFICES ASSUME NEW d \in Desc, PlaysFor(d, p)' PROVE FALSE
      OBVIOUS
    <3>1. PlaysFor(d, p) /\ d # c
      BY <1>3, <1>5 DEF PlaysFor
    <3> QED
      BY <1>1, <1>5, <2>2, <3>1 DEF Told
  <2> QED
    BY <1>1, <1>2, <2>1, <2>4, <2>5, SeenToLose
<1> QED
  BY <1>4, <1>5

\* Neither links nor bodies change hands.
LEMMA NothingGoes ==
  ASSUME Sound, Sound', world' = world, \A s \in world : cname'[s] = cname[s],
         \A e \in Desc : (InPlay(e)' <=> InPlay(e)) /\ (InPlay(e) => CH(e)' = CH(e))
  PROVE  Implements
BY LinkGoes

\* The descriptor d takes over the body s, whose link is cut if it has one.
LEMMA BodyIsTaken ==
  ASSUME Sound, Sound', world' = world, \A t \in world : cname'[t] = cname[t],
         NEW d \in Desc, ~InPlay(d), NEW s \in world, InPlay(d)', CH(d)' = s,
         \A e \in Desc \ {d} : InPlay(e)' => InPlay(e) /\ CH(e)' = CH(e),
         \A e \in Desc \ {d} : InPlay(e) /\ ~InPlay(e)' => CH(e) = s
  PROVE  Implements
<1>1. Told /\ Told' /\ CharType /\ WorldIsValid
  BY SoundTells, SoundTellsNext DEF Sound
<1>2. PICK p \in Name : p = cname[s]
  BY <1>1 DEF WorldIsValid
<1>3. \A t, n : Embodies(t, n)' <=> Embodies(t, n)
  BY DEF Embodies
<1>4. s \in Slot /\ Embodies(s, p) /\ PlaysFor(d, p)'
  BY <1>1, <1>2 DEF CharType, Embodies, PlaysFor
<1>5. \A n \in Name : ~PlaysFor(d, n)
  BY DEF PlaysFor
<1>6. ASSUME NEW n \in Name \ {p} PROVE Same(n)
  <2>1. \A e \in Desc : PlaysFor(e, n)' <=> PlaysFor(e, n)
    BY <1>2, <1>5 DEF PlaysFor, Embodies
  <2> QED
    BY <1>3, <2>1 DEF Same
<1> QED
  BY <1>1, <1>3, <1>4, <1>5, <1>6, SeenToTakeOver

\* The body s leaves the game.
LEMMA BodyLeaves ==
  ASSUME Sound, Sound', NEW s \in world, world' = world \ {s}, \A t \in world' : cname'[t] = cname[t],
         \A e \in Desc : InPlay(e)' => InPlay(e) /\ CH(e)' = CH(e),
         \A e \in Desc : InPlay(e) /\ ~InPlay(e)' => CH(e) = s
  PROVE  Implements
<1>1. Told /\ Told' /\ CharType /\ WorldIsValid /\ OneBodyPerName /\ PlayersAreInWorld'
  BY SoundTells, SoundTellsNext DEF Sound
<1>2. PICK p \in Name : p = cname[s]
  BY <1>1 DEF WorldIsValid
<1>3. s \in Slot /\ Embodies(s, p)
  BY <1>1, <1>2 DEF CharType, Embodies
<1>4. \A t : ~Embodies(t, p)'
  BY <1>1, <1>2 DEF Embodies, OneBodyPerName
<1>5. \A e \in Desc : ~PlaysFor(e, p)'
  BY <1>4 DEF PlaysFor, Embodies
<1>6. ASSUME NEW n \in Name \ {p} PROVE Same(n)
  <2>1. \A t : Embodies(t, n)' <=> Embodies(t, n)
    BY <1>2 DEF Embodies
  <2>2. \A e \in Desc : PlaysFor(e, n)' <=> PlaysFor(e, n)
    BY <1>2 DEF PlaysFor, Embodies
  <2> QED
    BY <2>1, <2>2 DEF Same
<1> QED
  BY <1>1, <1>3, <1>4, <1>5, <1>6, SeenToLeave

\* The character s enters the game, played by d.
LEMMA BodyEnters ==
  ASSUME Sound, Sound', NEW s \in valid \ world, world' = world \cup {s}, cname' = cname,
         NEW d \in Desc, ~InPlay(d), InPlay(d)', CH(d)' = s,
         \A e \in Desc \ {d} : (InPlay(e)' <=> InPlay(e)) /\ CH(e)' = CH(e)
  PROVE  Implements
<1>1. Told /\ Told' /\ CharType /\ WorldIsValid /\ PlayersAreInWorld /\ OneBodyPerName'
  BY SoundTells, SoundTellsNext DEF Sound
<1>2. PICK p \in Name : p = cname[s]
  BY <1>1 DEF WorldIsValid
<1>3. s \in Slot /\ Embodies(s, p)' /\ PlaysFor(d, p)' /\ \A n \in Name : ~Embodies(s, n)
  BY <1>1, <1>2 DEF CharType, Embodies, PlaysFor
<1>4. \A t \in Slot : ~Embodies(t, p)
  BY <1>1, <1>2 DEF Embodies, OneBodyPerName
<1>5. ASSUME NEW n \in Name \ {p} PROVE Same(n)
  <2>1. \A t : Embodies(t, n)' <=> Embodies(t, n)
    BY <1>2 DEF Embodies
  <2>2. \A e \in Desc : PlaysFor(e, n)' <=> PlaysFor(e, n)
    BY <1>2 DEF PlaysFor, Embodies
  <2> QED
    BY <2>1, <2>2 DEF Same
<1> QED
  BY <1>1, <1>3, <1>4, <1>5, SeenToEnter

\* The bodies of two open links that play are two players'.
LEMMA OneLinkEach ==
  ASSUME Sound, NEW d \in Desc, NEW e \in Desc, InPlay(d), InPlay(e), cname[CH(d)] = cname[CH(e)]
  PROVE  d = e
<1>1. CH(d) \in world /\ CH(e) \in world
  BY DEF Sound, PlayersAreInWorld, InPlay
<1>2. CH(d) = CH(e)
  BY <1>1 DEF Sound, OneBodyPerName
<1>3. chr[d] # Nil
  BY <1>1, SessionConstants DEF Sound, CharType, PlayersAreInWorld, InPlay, CH
<1> QED
  BY <1>2, <1>3 DEF Sound, OneDriver, InPlay

\* Closing links of at most one player.
LEMMA CloseImplements ==
  ASSUME Sound, Sound', NEW C, CloseAll(C), NEW c, \A e \in C \cap Desc : InPlay(e) => e = c
  PROVE  Implements
<1>1. \A e \in Desc : (InPlay(e)' <=> InPlay(e) /\ e \notin C) /\ CH(e)' = CH(e)
  BY DEF CloseAll, Release, InPlay, Live, CH
<1>2. world' = world /\ \A s \in world : cname'[s] = cname[s]
  BY NamesStay DEF CloseAll
<1> QED
  BY <1>1, <1>2, LinkGoes

\* Where nothing but marks and snoops change.
LEMMA QuietImplements ==
  ASSUME Sound, Sound', UNCHANGED <<chr, orig, pend, world, cname>>,
         \A e \in Desc : (conn'[e] = "PLAYING" <=> conn[e] = "PLAYING") /\ (conn'[e] = "none" <=> conn[e] = "none")
  PROVE  Implements
<1>1. \A e \in Desc : (InPlay(e)' <=> InPlay(e)) /\ CH(e)' = CH(e)
  BY DEF InPlay, Live, CH
<1> QED
  BY <1>1, NothingGoes

\* do_quit is the player's leave.
LEMMA LeaveImplements ==
  ASSUME Sound, Sound', NEW s \in world, NEW saved, Leave(s, saved)
  PROVE  Implements
<1> DEFINE own == {cdesc[s]} \ {Nil}
           twins == {e \in Desc \ own : Live(e) /\ CH(e) \in Slot /\ cname[CH(e)] = cname[s]}
<1>1. PICK E \in SUBSET twins :
        LET C == own \cup E
            gone == {s} \cup ({CH(e) : e \in E} \cap world)
        IN  /\ Release(C, gone) /\ world' = world \ gone /\ UNCHANGED <<conn, chr, orig>>
  BY DEF Leave
<1> DEFINE C == own \cup E
           gone == {s} \cup ({CH(e) : e \in E} \cap world)
<1>2. gone = {s}
  BY DEF Sound, OneBodyPerName
<1>3. Release(C, gone) /\ world' = world \ {s} /\ UNCHANGED <<conn, chr, orig>>
  BY <1>1, <1>2
<1>4. ASSUME NEW e \in Desc, e \in C, InPlay(e) PROVE CH(e) = s
  <2>1. CASE e \in own
    <3>1. chr[e] = s /\ s \in Slot /\ s \notin Mob /\ s # Nil
      BY <2>1, SessionConstants DEF Sound, LinkPointsBack, CharType
    <3> QED
      BY <1>4, <3>1 DEF Sound, PlayersAreInWorld, InPlay, CH
  <2>2. CASE e \in E
    BY <1>4, <2>2 DEF Sound, OneBodyPerName, PlayersAreInWorld, InPlay
  <2> QED
    BY <1>4, <2>1, <2>2
<1> HIDE DEF C, gone
<1>5. \A e \in Desc : (InPlay(e)' <=> InPlay(e) /\ e \notin C) /\ CH(e)' = CH(e)
  BY <1>3 DEF Release, InPlay, Live, CH
<1>6. \A t \in world' : cname'[t] = cname[t]
  BY <1>3, NamesStay
<1> QED
  BY <1>3, <1>4, <1>5, <1>6, BodyLeaves

\* do_switch and do_return change what a link plays, not for whom.
LEMMA SwitchImplements ==
  ASSUME Sound, Sound', NEW d \in Desc, Live(d), Switch(d)
  PROVE  Implements
<1> USE SessionConstants
<1> DEFINE t == chr[d]
           me == cdesc[t]
<1>1. PICK m \in Mob :
        /\ me # Nil /\ orig[me] = Nil
        /\ chr' = [chr EXCEPT ![me] = m]
        /\ orig' = [orig EXCEPT ![me] = t]
        /\ UNCHANGED <<conn, pend, world, cname>>
  BY DEF Switch
<1>2. t \in Slot /\ t \in world
  BY DEF Sound, PlayersAreInWorld, CH, Switch, Orders, Plays, Asked, NameOf
<1>3. me \in Desc /\ chr[me] = t /\ t # Nil
  BY <1>1, <1>2 DEF Sound, LinkPointsBack, CharType, Body
<1>4. \A e \in Desc : (InPlay(e)' <=> InPlay(e)) /\ CH(e)' = CH(e)
  BY <1>1, <1>3 DEF Sound, DescType, InPlay, Live, CH
<1> QED
  BY <1>1, <1>4, NothingGoes

LEMMA UnswitchImplements ==
  ASSUME Sound, Sound', NEW m \in Mob, Unswitch(m)
  PROVE  Implements
<1> DEFINE f == cdesc[m]
<1>1. /\ f # Nil /\ orig[f] # Nil
      /\ chr' = [chr EXCEPT ![f] = orig[f]]
      /\ orig' = [orig EXCEPT ![f] = Nil]
      /\ UNCHANGED <<conn, pend, world, cname>>
  BY DEF Unswitch
<1>2. f \in Desc
  BY <1>1 DEF Sound, CharType, Body
<1>3. \A e \in Desc : (InPlay(e)' <=> InPlay(e)) /\ CH(e)' = CH(e)
  BY <1>1, <1>2 DEF Sound, DescType, InPlay, Live, CH
<1> QED
  BY <1>1, <1>3, NothingGoes

\* A login that gives up, having broken its player's connection or not.
LEMMA BackImplements ==
  ASSUME Sound, Sound', NEW d \in Desc, LoggingIn(d), NEW n, NEW C \in {{}, OldLinksOf(d, n)},
         n = cname[chr[d]], \A e \in Desc : InPlay(e) => NameOf(CH(e)) = cname[CH(e)], BackToName(d, C)
  PROVE  Implements
<1>1. ~InPlay(d) /\ ~InPlay(d)' /\ \A e \in Desc \ {d} : (InPlay(e)' <=> InPlay(e) /\ e \notin C) /\ CH(e)' = CH(e)
  BY DEF Sound, DescType, BackToName, Release, InPlay, LoggingIn, Live, CH
<1>2. \A e, f \in Desc : e \in C /\ f \in C /\ InPlay(e) /\ InPlay(f) => e = f
  BY OneLinkEach DEF OldLinksOf
<1>3. world' = world /\ \A s \in world : cname'[s] = cname[s]
  BY NamesStay DEF BackToName
<1>4. PICK c : \A e \in Desc : e \in C /\ InPlay(e) => e = c
  BY <1>2
<1> QED
  BY <1>1, <1>3, <1>4, LinkGoes

\* A login that takes a body over, having broken its player's connection or not.
LEMMA TakeOverImplements ==
  ASSUME Sound, Sound', NEW d \in Desc, LoggingIn(d), conn[d] \notin Nameless,
         NEW C \in {{}, OldLinksOf(d, cname[chr[d]])},
         \A e \in Desc : InPlay(e) => NameOf(CH(e)) = cname[CH(e)],
         NEW s \in world, cname[s] = cname[chr[d]], TakeOver(d, s, C)
  PROVE  Implements
<1>1. ~InPlay(d) /\ InPlay(d)' /\ CH(d)' = s
  BY DEF Sound, DescType, TakeOver, Release, InPlay, LoggingIn, Live, CH, LoginsOwnTheirs, OldLinksOf
<1>2. \A e \in Desc \ {d} : (InPlay(e)' <=> InPlay(e) /\ e \notin C) /\ CH(e)' = CH(e)
  BY DEF Sound, DescType, TakeOver, Release, InPlay, Live, CH
<1>3. \A e \in Desc : e \in C /\ InPlay(e) => CH(e) = s
  BY DEF OldLinksOf, Sound, PlayersAreInWorld, OneBodyPerName, InPlay
<1>4. world' = world /\ \A t \in world : cname'[t] = cname[t]
  BY NamesStay DEF TakeOver
<1> QED
  BY <1>1, <1>2, <1>3, <1>4, BodyIsTaken

\* The login dialogue.
LEMMA LoginImplements ==
  ASSUME Orderly, IInv, Sound', NEW d \in Desc, Login(d)
  PROVE  Implements
<1> USE SessionConstants
<1>1. Sound /\ DescType /\ CharType /\ WorldIsValid /\ Live(d) /\ conn[d] # "PLAYING" /\ LoggingIn(d)
  BY LineIsLive DEF IInv, Sound, Login, Ansi, GetNameRefused, GetNameDouble, GetName, GetNameLockedOut,
     WrongPassword, RightPassword, BreakConnect, ConfirmNew, Create, ReadImotd, ReadMotd, Asked, Creation,
     LoggingIn
<1>2. ASSUME CloseAll({d}) PROVE Implements
  BY <1>1, <1>2, CloseImplements
<1>3. ASSUME UNCHANGED <<descs, chars>> PROVE Implements
  BY <1>1, <1>3, QuietImplements DEF descs, chars
<1>4. ASSUME NEW states \in SUBSET (Con \ {"PLAYING"}), Reply(d, states) PROVE Implements
  <2>1. \A e \in Desc : (conn'[e] = "PLAYING" <=> conn[e] = "PLAYING") /\ (conn'[e] = "none" <=> conn[e] = "none")
    BY <1>1, <1>4 DEF Reply, DescType, Live, Con, Creation
  <2> QED
    BY <1>1, <1>4, <2>1, QuietImplements DEF Reply, chars
<1>5. \A e \in Desc : InPlay(e) => NameOf(CH(e)) = cname[CH(e)]
  BY <1>1 DEF Sound, PlayersAreInWorld, InPlay, NameOf, CharType
<1>6. ASSUME Ansi(d) \/ GetNameRefused(d) \/ WrongPassword(d) PROVE Implements
  BY <1>2, <1>3, <1>4, <1>6 DEF Ansi, GetNameRefused, WrongPassword, Con
<1>7. ASSUME GetNameDouble(d) PROVE Implements
  <2>1. PICK n \in Name : CloseAll(LoginsOf(n))
    BY <1>7 DEF GetNameDouble
  <2>2. \A e \in LoginsOf(n) : ~InPlay(e)
    BY DEF LoginsOf, InPlay
  <2> QED
    BY <1>1, <2>1, <2>2, CloseImplements
<1>8. ASSUME GetName(d) \/ GetNameLockedOut(d) PROVE Implements
  <2>1. /\ world' = world /\ orig' = orig /\ \A s \in world : cname'[s] = cname[s]
        /\ conn'[d] # "PLAYING" /\ \A e \in Desc \ {d} : conn'[e] = conn[e] /\ chr'[e] = chr[e] /\ pend'[e] = pend[e]
    BY <1>1, <1>8 DEF GetName, GetNameLockedOut, DescType, CharType, WorldIsValid
  <2>2. \A e \in Desc : (InPlay(e)' <=> InPlay(e)) /\ (InPlay(e) => CH(e)' = CH(e))
    BY <1>1, <2>1 DEF InPlay, Live, CH
  <2> QED
    BY <1>1, <2>1, <2>2, NothingGoes
<1>9. ASSUME RightPassword(d) PROVE Implements
  <2>1. conn[d] \notin Nameless
    BY <1>9 DEF RightPassword, Asked, Nameless
  <2>2. NameOf(chr[d]) = cname[chr[d]]
    BY <1>1, <2>1, LoginFacts
  <2>3. ASSUME NEW s \in Linkless(NameOf(chr[d]), cdesc), TakeOver(d, s, {}) PROVE Implements
    BY <1>1, <1>5, <2>1, <2>2, <2>3, TakeOverImplements DEF Linkless
  <2>4. ASSUME NEW c, c \in {"BREAK_CONNECT", "READ_IMOTD", "READ_MOTD"}, Reply(d, {c}) PROVE Implements
    BY <1>4, <2>4 DEF Con
  <2> QED
    BY <1>9, <2>3, <2>4 DEF RightPassword
<1>10. ASSUME BreakConnect(d) PROVE Implements
  <2>1. conn[d] \notin Nameless
    BY <1>10 DEF BreakConnect, Asked, Nameless
  <2>2. NameOf(chr[d]) = cname[chr[d]]
    BY <1>1, <2>1, LoginFacts
  <2> DEFINE C == OldLinksOf(d, cname[chr[d]])
  <2>3. ASSUME NEW s \in world, cname[s] = cname[chr[d]], TakeOver(d, s, C) PROVE Implements
    BY <1>1, <1>5, <2>1, <2>2, <2>3, TakeOverImplements
  <2>4. ASSUME BackToName(d, C) \/ BackToName(d, {}) PROVE Implements
    BY <1>1, <1>5, <2>4, BackImplements
  <2>5. \/ \E s \in world : cname[s] = cname[chr[d]] /\ TakeOver(d, s, C)
        \/ BackToName(d, C) \/ BackToName(d, {}) \/ UNCHANGED <<descs, chars>>
    BY <1>10, <2>2 DEF BreakConnect, Linkless
  <2> QED
    BY <1>3, <2>3, <2>4, <2>5
<1>11. ASSUME ConfirmNew(d) PROVE Implements
  <2>1. CASE BackToName(d, {})
    BY <1>1, <1>5, <2>1, BackImplements
  <2> QED
    BY <1>4, <1>11, <2>1 DEF ConfirmNew, Con, Creation
<1>12. ASSUME Create(d) PROVE Implements
  <2>1. conn[d] \in Creation /\ Reply(d, CreationReplies[conn[d]])
    BY <1>12 DEF Create
  <2>2. CreationReplies[conn[d]] \in SUBSET (Con \ {"PLAYING"})
    BY <2>1 DEF CreationReplies, Creation, Con
  <2> QED
    BY <1>4, <2>1, <2>2
<1>13. ASSUME ReadImotd(d) PROVE Implements
  BY <1>4, <1>13 DEF ReadImotd, Con
<1>14. ASSUME ReadMotd(d) PROVE Implements
  <2>1. /\ conn[d] = "READ_MOTD" /\ conn' = [conn EXCEPT ![d] = "PLAYING"]
        /\ world' = world \cup {chr[d]} /\ UNCHANGED <<chr, orig, pend, cname>>
    BY <1>14 DEF ReadMotd, Asked
  <2>2. chr[d] \in valid \ world /\ orig[d] = Nil
    BY <1>1, <2>1 DEF Sound, LoginsOwnTheirs, Nameless
  <2>3. ~InPlay(d) /\ InPlay(d)' /\ CH(d)' = chr[d]
    BY <1>1, <2>1, <2>2 DEF InPlay, Live, CH, DescType
  <2>4. \A e \in Desc \ {d} : (InPlay(e)' <=> InPlay(e)) /\ CH(e)' = CH(e)
    BY <1>1, <2>1 DEF InPlay, Live, CH, DescType
  <2> QED
    BY <1>1, <2>1, <2>2, <2>3, <2>4, BodyEnters
<1> QED
  BY <1>6, <1>7, <1>8, <1>9, <1>10, <1>11, <1>12, <1>13, <1>14 DEF Login

\* A command of a player.
LEMMA PlayerLineImplements ==
  ASSUME Orderly, IInv, Sound', NEW d \in Desc, PlayerLine(d)
  PROVE  Implements
<1>1. Live(d) /\ Sound
  BY LineIsLive DEF IInv, PlayerLine, Quit, Save, Disconnect, Snoop, Switch, Return, Purge, Orders, Plays, Asked
<1>2. ASSUME Quit(d) PROVE Implements
  BY <1>1, <1>2, LeaveImplements DEF Quit
<1>3. ASSUME Save(d) \/ Snoop(d) PROVE Implements
  BY <1>1, <1>3, QuietImplements DEF Save, Snoop, descs, chars
<1>4. ASSUME Disconnect(d) PROVE Implements
  BY <1>1, <1>4, CloseImplements DEF Disconnect
<1>5. ASSUME Switch(d) PROVE Implements
  BY <1>1, <1>5, SwitchImplements
<1>6. ASSUME Return(d) PROVE Implements
  BY <1>1, <1>6, UnswitchImplements DEF Return
<1>7. ~Purge(d)
  BY DEF Purge, Orders, Orderly
<1> QED
  BY <1>2, <1>3, <1>4, <1>5, <1>6, <1>7 DEF PlayerLine

\* The poll takes off and puts on links that play nobody.
LEMMA PollImplements ==
  ASSUME IInv, Sound', PollDone \/ \E d \in Desc : PollFree(d)
  PROVE  Implements
<1>1. Sound /\ DescType
  BY DEF IInv, Sound
<1>2. UNCHANGED <<world, cname>>
  BY DEF PollDone, PollFree, chars
<1>3. ASSUME NEW d \in Desc, PollFree(d) PROVE Implements
  <2>1. \A e \in Desc : (InPlay(e)' <=> InPlay(e)) /\ (InPlay(e) => CH(e)' = CH(e))
    BY <1>1, <1>3 DEF PollFree, InPlay, Live, CH, DescType
  <2> QED
    BY <1>1, <1>2, <2>1, NothingGoes
<1>4. ASSUME PollDone PROVE Implements
  <2>1. \A e \in Desc : (InPlay(e)' <=> InPlay(e)) /\ CH(e)' = CH(e)
    BY <1>1, <1>4 DEF PollDone, Accept, InPlay, Live, CH, DescType
  <2> QED
    BY <1>1, <1>2, <2>1, NothingGoes
<1> QED
  BY <1>3, <1>4

\* Every step of the loop is a step of Presence, or one it does not see.
LEMMA StepImplements ==
  ASSUME Orderly, IInv, Sound', [Next]_vars
  PROVE  Implements
<1>0. Sound
  BY DEF IInv
<1>1. ASSUME UNCHANGED <<descs, chars>> PROVE Implements
  BY <1>0, <1>1, QuietImplements DEF descs, chars
<1>2. ASSUME NEW d \in Desc, CloseAll({d}) PROVE Implements
  BY <1>0, <1>2, CloseImplements
<1>3. CASE PollDone \/ \E d \in Desc : PollFree(d)
  BY <1>3, PollImplements
<1>4. ASSUME NEW d \in Desc, Login(d) \/ PlayerLine(d) PROVE Implements
  BY <1>4, LoginImplements, PlayerLineImplements
<1>5. ASSUME NEW d \in Desc, NoLine(d) \/ Drop(d) \/ Overflow(d) \/ Output(d) PROVE Implements
  BY <1>1, <1>2, <1>5 DEF NoLine, Drop, Overflow, Output
<1>6. ASSUME NEW m \in Mob, MobDies(m) PROVE Implements
  BY <1>0, <1>6, UnswitchImplements DEF MobDies
<1>7. CASE InputDone \/ NoTick \/ OutputDone \/ UNCHANGED vars
  BY <1>1, <1>7 DEF InputDone, NoTick, OutputDone, vars
<1>8. CASE Tick
  BY <1>0, <1>8, QuietImplements, LeaveImplements DEF Tick, descs
<1> QED
  BY <1>3, <1>4, <1>5, <1>6, <1>7, <1>8 DEF Next

\* The connection code keeps what Presence promises: a player has one body or
\* none, and at most one link drives it, through every interleaving of logins,
\* reconnects, switches, closed links and quits.
THEOREM Implementation ==
  ASSUME Orderly
  PROVE  Spec => ImplementsPresence
<1>1. Init => P!Init
  BY SessionConstants DEF Init, P!Init, BodyOf, DriverOf, Drives
<1>2. IInv /\ IInv' /\ [Next]_vars => [P!Next]_Seen
  <2> SUFFICES ASSUME IInv, IInv', [Next]_vars PROVE P!Next \/ UNCHANGED Seen
    OBVIOUS
  <2> QED
    BY StepImplements DEF IInv, Implements
<1> QED
  BY <1>1, <1>2, Invariance, PTL DEF Spec, ImplementsPresence, P!Spec, Seen
=============================================================================
