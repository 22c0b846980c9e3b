------------------------------ MODULE Session ------------------------------
(***************************************************************************)
(* Connections, logins and in-game bodies: the descriptor list             *)
(* (descriptor.c), the game loop that walks it (comm.c, remote.c), the     *)
(* login dialogue (nanny.c), close_socket, and the commands and updates    *)
(* that move a descriptor from one character to another or take a          *)
(* character out of the game (act_wiz.c, handler.c, update.c).             *)
(*                                                                         *)
(* The server is one thread.  A pulse polls the sockets, gives every       *)
(* descriptor one turn of input, runs the updates, gives every descriptor  *)
(* one turn of output.  Each pass fetches the next descriptor of the list  *)
(* BEFORE it serves the current one: todo is that saved pointer, and it is *)
(* not looked at again before it is served.                                *)
(*                                                                         *)
(* A struct char_data is a Slot, reused once freed; a Mob is a mobile an   *)
(* immortal may switch into.  What a client types is chosen freely.        *)
(***************************************************************************)
EXTENDS Naturals, Sequences, FiniteSets

CONSTANTS
  Desc,        \* struct descriptor_data objects
  Slot,        \* struct char_data objects players are loaded into
  Mob,         \* mobiles, always in the game
  Name,        \* player names
  Immortals,   \* the names whose players have the immortal commands
  Commands,    \* the immortal commands the players use
  Pipelined,   \* may a line be left in the input buffer of a closed link?
  FilterAll,   \* the values of the uninitialised .all of do_disconnect
  Nil          \* the NULL pointer

ASSUME SessionConstants ==
  /\ Nil \notin Desc \cup Slot \cup Mob \cup Name
  /\ Slot \cap Mob = {}
  /\ Immortals \subseteq Name
  /\ Pipelined \in BOOLEAN
  /\ FilterAll \subseteq BOOLEAN

VARIABLES
  phase,     \* where game_loop is: "poll", "input", "update" or "output"
  todo,      \* dpending of the running pass
  list,      \* the descriptor list, head first
  conn,      \* d->connected, "none" when d is not on the list
  chr,       \* d->character
  orig,      \* d->original
  pend,      \* d->pending_delete
  snoop,     \* d->snoop_by
  valid,     \* the slots for which IS_VALID holds
  world,     \* the slots on char_list
  cname,     \* ch->name of a slot
  cdesc,     \* ch->desc of a slot or mobile
  linkdead   \* the bodies with PLR_LINKDEAD

loop  == <<phase, todo, list>>
descs == <<conn, chr, orig, pend, snoop>>
chars == <<valid, world, cname, cdesc, linkdead>>
vars  == <<loop, descs, chars>>

Body == Slot \cup Mob

Creation == {"GET_NEW_PASSWORD", "CONFIRM_NEW_PASSWORD", "GET_NEW_RACE", "GET_NEW_SEX"}

Con == {"GET_ANSI", "GET_NAME", "GET_OLD_PASSWORD", "BREAK_CONNECT",
        "CONFIRM_NEW_NAME", "READ_IMOTD", "READ_MOTD", "PLAYING"} \cup Creation

TypeOK ==
  /\ phase \in {"poll", "input", "update", "output"}
  /\ todo \in Desc \cup {Nil}
  /\ list \in Seq(Desc)
  /\ conn \in [Desc -> Con \cup {"none"}]
  /\ chr \in [Desc -> Body \cup {Nil}]
  /\ orig \in [Desc -> Slot \cup {Nil}]
  /\ pend \in [Desc -> BOOLEAN]
  /\ snoop \in [Desc -> Desc \cup {Nil}]
  /\ valid \subseteq Slot
  /\ world \subseteq Slot
  /\ cname \in [Slot -> Name \cup {Nil}]
  /\ cdesc \in [Body -> Desc \cup {Nil}]
  /\ linkdead \subseteq Body

Init ==
  /\ phase = "poll" /\ todo = Nil /\ list = << >>
  /\ conn = [d \in Desc |-> "none"]
  /\ chr = [d \in Desc |-> Nil]
  /\ orig = [d \in Desc |-> Nil]
  /\ pend = [d \in Desc |-> FALSE]
  /\ snoop = [d \in Desc |-> Nil]
  /\ valid = {} /\ world = {}
  /\ cname = [s \in Slot |-> Nil]
  /\ cdesc = [b \in Body |-> Nil]
  /\ linkdead = {}

----------------------------------------------------------------------------
\* Reading the descriptor list.

\* What an iterator with the empty filter passes.
Live(d) == conn[d] # "none" /\ ~pend[d]

\* Mutant of FirstLive: skips one descriptor.
FirstLiveOffByOne(i) ==
  LET later == {j \in 1..Len(list) : j > i + 1 /\ ~pend[list[j]]}
  IN  IF later = {} THEN Nil
      ELSE list[CHOOSE j \in later : \A k \in later : j <= k]

\* The first live descriptor after position i of the list.
FirstLive(i) ==
  LET later == {j \in 1..Len(list) : j > i /\ ~pend[list[j]]}
  IN  IF later = {} THEN Nil
      ELSE list[CHOOSE j \in later : \A k \in later : j <= k]

\* descriptor_iterator(d, &descriptor_empty_filter)
Following(d) == FirstLive(CHOOSE i \in 1..Len(list) : list[i] = d)

\* CH(d): the character a switched descriptor belongs to.
CH(d) == IF orig[d] # Nil THEN orig[d] ELSE chr[d]

\* The player's name a body answers to (a mobile answers to none of Name).
NameOf(b) == IF b \in Slot THEN cname[b] ELSE Nil

----------------------------------------------------------------------------
\* close_socket on every descriptor of C; gone are characters freed besides.

\* A PLAYING descriptor's body stays in the game without a link ...
Cut(C) == {chr[d] : d \in {e \in C : conn[e] = "PLAYING" /\ chr[e] # Nil}}

\* ... and the character of any other descriptor is freed.
Freed(C) == {CH(d) : d \in {e \in C : conn[e] # "PLAYING" /\ chr[e] # Nil}}

LinkAfter(C, gone) ==
  [b \in Body |-> IF b \in Cut(C) \cup Freed(C) \cup gone THEN Nil ELSE cdesc[b]]

DeadAfter(C, gone) == (linkdead \cup Cut(C)) \ (Freed(C) \cup gone)

Release(C, gone) ==
  /\ pend' = [d \in Desc |-> pend[d] \/ d \in C]
  /\ snoop' = [d \in Desc |-> IF snoop[d] \in C THEN Nil ELSE snoop[d]]
  /\ valid' = valid \ (Freed(C) \cup gone)
  /\ cname' = [s \in Slot |-> IF s \in Freed(C) \cup gone THEN Nil ELSE cname[s]]

CloseAll(C) ==
  /\ Release(C, {})
  /\ cdesc' = LinkAfter(C, {})
  /\ linkdead' = DeadAfter(C, {})
  /\ UNCHANGED <<conn, chr, orig, world>>

----------------------------------------------------------------------------
\* The poll of a pulse (remote_poll).

PollFree(d) ==
  /\ phase = "poll"
  /\ \E i \in 1..Len(list) :
        /\ list[i] = d /\ pend[d]
        /\ list' = SubSeq(list, 1, i - 1) \o SubSeq(list, i + 1, Len(list))
  /\ conn' = [conn EXCEPT ![d] = "none"]
  /\ chr' = [chr EXCEPT ![d] = Nil]
  /\ orig' = [orig EXCEPT ![d] = Nil]
  /\ pend' = [pend EXCEPT ![d] = FALSE]
  /\ snoop' = [snoop EXCEPT ![d] = Nil]
  /\ UNCHANGED <<phase, todo, chars>>

\* A connection is accepted at the head of the list, or none is.
Accept ==
  \/ /\ todo' = FirstLive(0)
     /\ UNCHANGED <<list, conn>>
  \/ \E d \in Desc :
       /\ conn[d] = "none"
       /\ conn' = [conn EXCEPT ![d] = "GET_ANSI"]
       /\ list' = <<d>> \o list
       /\ todo' = d

\* Mutant of PollDone: the flagged descriptors are not waited for.
PollDoneEager ==
  /\ phase = "poll"
  /\ phase' = "input" /\ Accept
  /\ UNCHANGED <<chr, orig, pend, snoop, chars>>

\* Every flagged descriptor is gone; at most one connection is accepted.
PollDone ==
  /\ phase = "poll" /\ \A d \in Desc : ~pend[d]
  /\ phase' = "input" /\ Accept
  /\ UNCHANGED <<chr, orig, pend, snoop, chars>>

----------------------------------------------------------------------------
\* One turn of the input pass.

Turn(d) ==
  /\ phase = "input" /\ todo = d
  /\ todo' = Following(d)
  /\ UNCHANGED <<phase, list>>

\* A turn in which read_from_buffer finds a line; a closed link has only
\* what its client had sent ahead.
Line(d) == Turn(d) /\ (pend[d] => Pipelined)

Asked(d, state) == Line(d) /\ conn[d] = state

\* No complete line, or the character still waits out a command.
NoLine(d) == Turn(d) /\ UNCHANGED <<descs, chars>>

\* An exceptional socket, a failed read (always one on a closed socket) or an
\* idle descriptor: close_socket(d, false, true).
Drop(d) == Turn(d) /\ CloseAll({d})

\* The answer only moves the dialogue on, or is asked for again.
Reply(d, states) ==
  /\ \E c \in states : conn' = [conn EXCEPT ![d] = c]
  /\ UNCHANGED <<chr, orig, pend, snoop, chars>>

Ansi(d) ==
  /\ Asked(d, "GET_ANSI")
  /\ Reply(d, {"GET_NAME"}) \/ CloseAll({d})

\* A name check_parse_name refuses out of hand, or an empty one.
GetNameRefused(d) ==
  /\ Asked(d, "GET_NAME")
  /\ UNCHANGED <<descs, chars>> \/ CloseAll({d})

\* Mutant of LoginsOf: only characters being created are looked at.
LoginsOfNewbies(n) ==
  {e \in Desc : Live(e) /\ conn[e] \in Creation /\ chr[e] # Nil /\ NameOf(chr[e]) = n}

\* The logins the "double newbie alert" of check_parse_name finds.
LoginsOf(n) ==
  {e \in Desc : Live(e) /\ conn[e] # "PLAYING" /\ chr[e] # Nil /\ NameOf(chr[e]) = n}

GetNameDouble(d) ==
  /\ Asked(d, "GET_NAME")
  /\ \E n \in Name : LoginsOf(n) # {} /\ CloseAll(LoginsOf(n))

\* The player is loaded into a slot; check_reconnect(d, name, false) counts
\* a player in the game as found.
GetName(d) ==
  /\ Asked(d, "GET_NAME")
  /\ \E n \in Name, s \in Slot \ valid, found \in BOOLEAN :
       /\ LoginsOf(n) = {}
       /\ (\E t \in world : cname[t] = n) => found
       /\ chr' = [chr EXCEPT ![d] = s]
       /\ valid' = valid \cup {s}
       /\ cname' = [cname EXCEPT ![s] = n]
       /\ cdesc' = [cdesc EXCEPT ![s] = d]
       /\ linkdead' = linkdead \ {s}
       /\ conn' = [conn EXCEPT ![d] = IF found THEN "GET_OLD_PASSWORD" ELSE "CONFIRM_NEW_NAME"]
  /\ UNCHANGED <<orig, pend, snoop, world>>

\* The player is loaded, found denied, banned or locked out, and freed again
\* by close_socket.
GetNameLockedOut(d) ==
  /\ Asked(d, "GET_NAME")
  /\ \E n \in Name, s \in Slot \ valid :
       /\ LoginsOf(n) = {}
       /\ chr' = [chr EXCEPT ![d] = s]
       /\ cname' = [cname EXCEPT ![s] = Nil]
       /\ cdesc' = [cdesc EXCEPT ![s] = Nil]
       /\ linkdead' = linkdead \ {s}
  /\ pend' = [pend EXCEPT ![d] = TRUE]
  /\ snoop' = [e \in Desc |-> IF snoop[e] = d THEN Nil ELSE snoop[e]]
  /\ UNCHANGED <<conn, orig, valid, world>>

\* check_playing: a descriptor past the password holds the name.
PlayersOf(d, n) ==
  {e \in Desc \ {d} : /\ Live(e) /\ chr[e] # Nil
                      /\ conn[e] \notin {"GET_NAME", "GET_OLD_PASSWORD"}
                      /\ NameOf(CH(e)) = n}

\* Mutants of Linkless: only bodies marked linkdead; bodies of any name.
LinklessMarked(n, link) == {s \in world \cap linkdead : cname[s] = n /\ link[s] = Nil}
LinklessAnyName(n, link) == {s \in world : link[s] = Nil}

\* check_reconnect(d, name, true): the bodies of that name without a link.
Linkless(n, link) == {s \in world : cname[s] = n /\ link[s] = Nil}

\* Mutant of TakeOver: PLR_LINKDEAD is not removed.
TakeOverStaysDead(d, s, C) ==
  /\ Release(C, {chr[d]})
  /\ chr' = [chr EXCEPT ![d] = s]
  /\ cdesc' = [LinkAfter(C, {chr[d]}) EXCEPT ![s] = d]
  /\ linkdead' = DeadAfter(C, {chr[d]})
  /\ conn' = [conn EXCEPT ![d] = "PLAYING"]
  /\ UNCHANGED <<orig, world>>

\* d lets go of its login and takes over the body s; C are closed before.
TakeOver(d, s, C) ==
  /\ Release(C, {chr[d]})
  /\ chr' = [chr EXCEPT ![d] = s]
  /\ cdesc' = [LinkAfter(C, {chr[d]}) EXCEPT ![s] = d]
  /\ linkdead' = DeadAfter(C, {chr[d]}) \ {s}
  /\ conn' = [conn EXCEPT ![d] = "PLAYING"]
  /\ UNCHANGED <<orig, world>>

WrongPassword(d) == Asked(d, "GET_OLD_PASSWORD") /\ CloseAll({d})

RightPassword(d) ==
  /\ Asked(d, "GET_OLD_PASSWORD")
  /\ LET n == NameOf(chr[d])
     IN  \/ PlayersOf(d, n) # {} /\ Reply(d, {"BREAK_CONNECT"})
         \/ /\ PlayersOf(d, n) = {}
            /\ \E s \in Linkless(n, cdesc) : TakeOver(d, s, {})
         \/ /\ PlayersOf(d, n) = {} /\ Linkless(n, cdesc) = {}
            /\ Reply(d, {IF n \in Immortals THEN "READ_IMOTD" ELSE "READ_MOTD"})

\* free_char(d->character), d->character = NULL, back to the name.
BackToName(d, C) ==
  /\ Release(C, {chr[d]})
  /\ chr' = [chr EXCEPT ![d] = Nil]
  /\ cdesc' = LinkAfter(C, {chr[d]})
  /\ linkdead' = DeadAfter(C, {chr[d]})
  /\ conn' = [conn EXCEPT ![d] = "GET_NAME"]
  /\ UNCHANGED <<orig, world>>

\* Mutant of OldLinksOf: overlooks descriptors that are switched.
OldLinksOfUnswitched(d, n) == {e \in Desc \ {d} : Live(e) /\ chr[e] # Nil /\ NameOf(chr[e]) = n}

\* The descriptors breakconnect_answered closes.
OldLinksOf(d, n) == {e \in Desc \ {d} : Live(e) /\ chr[e] # Nil /\ NameOf(CH(e)) = n}

BreakConnect(d) ==
  /\ Asked(d, "BREAK_CONNECT")
  /\ LET n == NameOf(chr[d])
         C == OldLinksOf(d, n)
     IN  \/ \E s \in Linkless(n, LinkAfter(C, {})) : TakeOver(d, s, C)
         \/ Linkless(n, LinkAfter(C, {})) = {} /\ BackToName(d, C)
         \/ BackToName(d, {})
         \/ UNCHANGED <<descs, chars>>

ConfirmNew(d) ==
  /\ Asked(d, "CONFIRM_NEW_NAME")
  /\ Reply(d, {"GET_NEW_PASSWORD", "CONFIRM_NEW_NAME"}) \/ BackToName(d, {})

\* newpassword, confirmnewpass, newrace and newsex_answered.
CreationReplies ==
  [c \in Creation |->
     CASE c = "GET_NEW_PASSWORD"     -> {c, "CONFIRM_NEW_PASSWORD"}
       [] c = "CONFIRM_NEW_PASSWORD" -> {"GET_NEW_PASSWORD", "GET_NEW_RACE"}
       [] c = "GET_NEW_RACE"         -> {c, "GET_NEW_SEX"}
       [] c = "GET_NEW_SEX"          -> {c, "READ_MOTD"}]

Create(d) ==
  /\ Line(d) /\ conn[d] \in Creation
  /\ Reply(d, CreationReplies[conn[d]])

ReadImotd(d) == Asked(d, "READ_IMOTD") /\ Reply(d, {"READ_MOTD"})

\* The character is put on char_list (its desc has been d since the load).
ReadMotd(d) ==
  /\ Asked(d, "READ_MOTD")
  /\ conn' = [conn EXCEPT ![d] = "PLAYING"]
  /\ world' = world \cup {chr[d]}
  /\ cdesc' = [cdesc EXCEPT ![chr[d]] = d]
  /\ UNCHANGED <<chr, orig, pend, snoop, valid, cname, linkdead>>

----------------------------------------------------------------------------
\* Commands of a PLAYING descriptor.

Plays(d) == Asked(d, "PLAYING") /\ chr[d] # Nil

Orders(d, command) ==
  Plays(d) /\ command \in Commands /\ NameOf(chr[d]) \in Immortals

\* Mutant of Leave: the search for duplicates at the end of do_quit is left out.
LeaveTwins(s, saved) ==
  LET C == {cdesc[s]} \ {Nil}
  IN  /\ Release(C, {s})
      /\ cdesc' = LinkAfter(C, {s})
      /\ linkdead' = DeadAfter(C, {s}) \ saved
      /\ world' = world \ {s}
      /\ UNCHANGED <<conn, chr, orig>>

\* do_quit on body s once nothing refuses it: its link is closed, it is saved
\* and extracted, then every descriptor whose character has the same id goes.
\* Two loads of one player have the same id if the id came from the file.
\* saved are bodies whose PLR_LINKDEAD a save has cleared before.
Leave(s, saved) ==
  LET own == {cdesc[s]} \ {Nil}
      twins == {e \in Desc \ own : Live(e) /\ CH(e) \in Slot /\ cname[CH(e)] = cname[s]}
      same == {e \in twins : CH(e) = s}
  IN  \E E \in SUBSET twins :
        /\ same \subseteq E
        /\ LET C == own \cup E
               gone == {s} \cup ({CH(e) : e \in E} \cap world)
           IN  /\ Release(C, gone)
               /\ cdesc' = LinkAfter(C, gone)
               /\ linkdead' = DeadAfter(C, gone) \ saved
               /\ world' = world \ gone
        /\ UNCHANGED <<conn, chr, orig>>

Quit(d) == Plays(d) /\ chr[d] \in world /\ Leave(chr[d], {})

\* do_save clears PLR_LINKDEAD.
Save(d) ==
  /\ Plays(d) /\ chr[d] \in Slot
  /\ linkdead' = linkdead \ {chr[d]}
  /\ UNCHANGED <<descs, valid, world, cname, cdesc>>

\* do_disconnect, by name (a body with a link) or by descriptor number.
Disconnect(d) ==
  /\ Orders(d, "disconnect")
  /\ \E e \in Desc :
       /\ Live(e) \/ (TRUE \in FilterAll /\ e = Head(list))
       /\ CH(e) \notin {Nil, chr[d]}
       /\ CloseAll({e})

\* The descriptors a walk along snoop_by meets from start on: what every set
\* that holds start, and the next of each of its members, has in common.
Above(start) ==
  {e \in Desc : \A S \in SUBSET Desc :
     start \in S \cup {Nil} /\ (\A x \in S : snoop[x] \in S \cup {Nil}) => e \in S}

\* Mutant of Snoopers: the walk starts one snooper too far up.
SnoopersLate(d) == IF snoop[d] = Nil THEN {} ELSE Above(snoop[snoop[d]])

\* The snoopers above d: d->snoop_by, its snoop_by, and so on.
Snoopers(d) == Above(snoop[d])

Snoop(d) ==
  /\ Orders(d, "snoop")
  /\ LET me == cdesc[chr[d]]
     IN  \/ /\ me # Nil
            /\ snoop' = [e \in Desc |-> IF snoop[e] = me THEN Nil ELSE snoop[e]]
         \/ \E v \in (world \cup Mob) \ {chr[d]} :
              /\ cdesc[v] # Nil /\ snoop[cdesc[v]] = Nil
              /\ me # Nil => \A e \in Snoopers(me) : chr[e] # v /\ orig[e] # v
              /\ snoop' = [snoop EXCEPT ![cdesc[v]] = me]
  /\ UNCHANGED <<conn, chr, orig, pend, chars>>

Switch(d) ==
  /\ Orders(d, "switch")
  /\ LET me == cdesc[chr[d]]
     IN  /\ me # Nil /\ orig[me] = Nil
         /\ \E m \in Mob :
              /\ cdesc[m] = Nil
              /\ chr' = [chr EXCEPT ![me] = m]
              /\ orig' = [orig EXCEPT ![me] = chr[d]]
              /\ cdesc' = [cdesc EXCEPT ![m] = me, ![chr[d]] = Nil]
  /\ UNCHANGED <<conn, pend, snoop, valid, world, cname, linkdead>>

\* do_return on mobile m, which a descriptor drives.
Unswitch(m) ==
  LET e == cdesc[m]
  IN  /\ e # Nil /\ orig[e] # Nil
      /\ chr' = [chr EXCEPT ![e] = orig[e]]
      /\ orig' = [orig EXCEPT ![e] = Nil]
      /\ cdesc' = [cdesc EXCEPT ![m] = Nil, ![orig[e]] = e]
      /\ UNCHANGED <<conn, pend, snoop, valid, world, cname, linkdead>>

Return(d) == Plays(d) /\ chr[d] \in Mob /\ Unswitch(chr[d])

\* do_purge of a player: link closed, player saved and extracted.
Purge(d) ==
  /\ Orders(d, "purge")
  /\ \E v \in world \ {chr[d]} :
       LET C == {cdesc[v]} \ {Nil}
       IN  /\ Release(C, {v})
           /\ cdesc' = LinkAfter(C, {v})
           /\ linkdead' = DeadAfter(C, {v})
           /\ world' = world \ {v}
  /\ UNCHANGED <<conn, chr, orig>>

PlayerLine(d) ==
  \/ Quit(d) \/ Save(d) \/ Disconnect(d) \/ Snoop(d) \/ Switch(d) \/ Return(d) \/ Purge(d)

Login(d) ==
  \/ Ansi(d) \/ GetNameRefused(d) \/ GetNameDouble(d) \/ GetName(d) \/ GetNameLockedOut(d)
  \/ WrongPassword(d) \/ RightPassword(d) \/ BreakConnect(d)
  \/ ConfirmNew(d) \/ Create(d) \/ ReadImotd(d) \/ ReadMotd(d)

InputDone ==
  /\ phase = "input" /\ todo = Nil
  /\ phase' = "update"
  /\ UNCHANGED <<todo, list, descs, chars>>

----------------------------------------------------------------------------
\* The updates of a pulse.

Mortal(s) == cname[s] \notin Immortals

ToOutput == phase = "update" /\ phase' = "output" /\ todo' = FirstLive(0) /\ UNCHANGED list

NoTick == ToOutput /\ UNCHANGED <<descs, chars>>

\* char_update: a mortal idle for the 15th tick is saved on his way to limbo,
\* which clears PLR_LINKDEAD; then the first linkdead mortal quits, unless
\* do_quit refuses (fighting, note in progress, auction).
Tick ==
  /\ ToOutput
  /\ \E limbo \in SUBSET {s \in world \cap linkdead : Mortal(s)} :
       \/ /\ linkdead' = linkdead \ limbo
          /\ UNCHANGED <<descs, valid, world, cname, cdesc>>
       \/ \E s \in (world \cap linkdead) \ limbo : Mortal(s) /\ Leave(s, limbo)

\* The mobile an immortal has switched into dies: extract_char calls do_return.
MobDies(m) == phase = "update" /\ Unswitch(m) /\ UNCHANGED loop

\* write_to_buffer: what the turns and updates send to a descriptor, or copy to
\* it as a snooper, overflows its output buffer and closes it at any point.
Overflow(d) == phase # "poll" /\ Live(d) /\ CloseAll({d}) /\ UNCHANGED loop

----------------------------------------------------------------------------
\* One turn of the output pass: sent, or the write fails.

Output(d) ==
  /\ phase = "output" /\ todo = d
  /\ todo' = Following(d)
  /\ UNCHANGED <<phase, list>>
  /\ UNCHANGED <<descs, chars>> \/ CloseAll({d})

OutputDone ==
  /\ phase = "output" /\ todo = Nil
  /\ phase' = "poll"
  /\ UNCHANGED <<todo, list, descs, chars>>

----------------------------------------------------------------------------
Next ==
  \/ \E d \in Desc : PollFree(d) \/ NoLine(d) \/ Drop(d) \/ Login(d) \/ PlayerLine(d)
  \/ \E d \in Desc : Overflow(d) \/ Output(d)
  \/ \E m \in Mob : MobDies(m)
  \/ PollDone \/ InputDone \/ NoTick \/ Tick \/ OutputDone

\* The loop never blocks: select polls with a zero timeout and reads and
\* writes are non-blocking, so game_loop always takes its next step.
Spec == Init /\ [][Next]_vars /\ WF_vars(Next)
----------------------------------------------------------------------------
\* Properties.

\* Every player is in the game at most once: do_quit says a character may
\* "somehow get duped" (act_wiz.c:488); the dialogue never lets it happen.
OneBodyPerName == \A s, t \in world : cname[s] = cname[t] => s = t

\* At most one login dialogue holds a name (check_parse_name, nanny.c:758).
OneLoginPerName ==
  \A d, e \in Desc :
    /\ Live(d) /\ conn[d] # "PLAYING" /\ chr[d] # Nil
    /\ Live(e) /\ conn[e] # "PLAYING" /\ chr[e] # Nil
    => (cname[chr[d]] = cname[chr[e]] => d = e)

\* No descriptor in use and nothing in the game points to a freed character,
\* and a character still in the dialogue is not in the game.
NoUseAfterFree ==
  /\ world \subseteq valid
  /\ \A d \in Desc : Live(d) =>
       /\ chr[d] \in valid \cup Mob \cup {Nil}
       /\ orig[d] \in valid \cup {Nil}
       /\ (conn[d] = "PLAYING" => CH(d) \in world) /\ (conn[d] # "PLAYING" => chr[d] \notin world)

\* ch->desc of a body in the game is NULL or the open link that drives it.
LinkPointsBack ==
  \A b \in world \cup Mob : cdesc[b] # Nil =>
    Live(cdesc[b]) /\ conn[cdesc[b]] = "PLAYING" /\ chr[cdesc[b]] = b

\* A body that is driven through its link is not marked linkdead: char_update
\* throws out every linkdead mortal, linked or not.
LinkdeadIsCut == \A s \in world \cap linkdead : cdesc[s] = Nil

\* Two open descriptors never belong to the same character.
OneDriver ==
  \A d, e \in Desc : Live(d) /\ Live(e) /\ chr[d] # Nil /\ CH(d) = CH(e) => d = e

\* The snoop check of do_snoop ("No snoop loops") leaves no cycle, through
\* switches, takeovers and closed links.
NoSnoopLoops ==
  \A ring \in (SUBSET Desc) \ {{}} : \E d \in ring : snoop[d] \notin ring

\* A descriptor that starts playing keeps the name it has logged in as.
EntersUnderItsName ==
  [][\A d \in Desc : conn[d] # "PLAYING" /\ conn'[d] = "PLAYING"
       => chr'[d] \in world' /\ cname'[chr'[d]] = cname[chr[d]]]_vars

\* The players as Presence sees them: its body is the slot on char_list, its
\* driver the open descriptor that plays it, switched or not.
BodyOf(n) ==
  IF \E s \in world : cname[s] = n THEN CHOOSE s \in world : cname[s] = n ELSE Nil

Drives(d, n) == Live(d) /\ conn[d] = "PLAYING" /\ BodyOf(n) # Nil /\ CH(d) = BodyOf(n)

DriverOf(n) == IF \E d \in Desc : Drives(d, n) THEN CHOOSE d \in Desc : Drives(d, n) ELSE Nil

P == INSTANCE Presence WITH Player <- Name, Link <- Desc, Bodies <- Slot, None <- Nil,
       body <- [n \in Name |-> BodyOf(n)], driver <- [n \in Name |-> DriverOf(n)]

\* The sessions implement Presence.
ImplementsPresence == P!Spec

\* A closed descriptor is taken off the list and freed.
FlaggedIsFreed == \A d \in Desc : pend[d] ~> conn[d] = "none"

\* Every open descriptor gets its turn of input again and again.
EveryoneServed == \A d \in Desc : []<>((phase = "input" /\ todo = d) \/ ~Live(d))

=============================================================================
