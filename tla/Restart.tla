------------------------------ MODULE Restart ------------------------------
(***************************************************************************)
(* What outlives the process: the player files (save.c), and the file a    *)
(* copyover leaves for its successor (copyover.c).  Coins move between     *)
(* players, the ground and bank accounts (bank.c) in commands that save    *)
(* the characters one after the other, each into one temporary file that   *)
(* is renamed; the process may die between any two of these steps, and     *)
(* sig_handler saves nothing.                                              *)
(*                                                                         *)
(* A player is in the game (body), with or without a link, and may also    *)
(* be in a login dialogue, which has read his file already (copy).         *)
(***************************************************************************)
EXTENDS Integers, Sequences, FiniteSets, Functions

CONSTANTS
  Name,        \* players
  Staff,       \* the players with trust, who are there from the start
  Rank,        \* bound: the trust of each, as the level of a sheet
  Gift,        \* ch->gold of a new player (10000)
  Cap,         \* what find_money leaves in an account (1000000)
  Transfers,   \* bound: ways coins go from hand to hand: "give", "split"
  Exits,       \* bound: ways out of the game: "quit", "purge"
  StaleBreaks, \* bound: do links break in a dialogue of a player who is in the game?
  DiskFull,    \* bound: may a file be cut short?
  Refuses,     \* bound: may do_quit refuse who deletes himself (sale, note)?
  StaleNames,  \* bound: are players renamed and fried whom a dialogue has read?
  MaxMinted,   \* bound: the coins given to new players
  Nil          \* no file, nobody there

ASSUME RestartConstants ==
  /\ Staff \subseteq Name /\ IsFiniteSet(Name) /\ Rank \in [Staff -> 3..8]
  /\ Gift \in Nat /\ Cap \in Nat
  /\ MaxMinted \in Nat /\ Gift * Cardinality(Staff) <= MaxMinted
  /\ Transfers \subseteq {"give", "split"} /\ Exits \subseteq {"quit", "purge"}
  /\ StaleBreaks \in BOOLEAN /\ DiskFull \in BOOLEAN
  /\ Refuses \in BOOLEAN /\ StaleNames \in BOOLEAN

\* Level 0 is a player still being created, 1 one who is never saved, 3 to 8 are
\* the trusts L5, L4, L3, L2, L1 and ML of interp.h, who may reboot, and 2 stands
\* for all others.
Levels == 0..2 \cup {Rank[p] : p \in Staff}

Sheet == [level : Levels, gold : Nat, bank : Nat]

ASSUME NilIsNoSheet == Nil \notin Sheet

VARIABLES
  file,    \* the player files
  temp,    \* TEMP_FILE, once it is written
  todo,    \* the saves and unlinks a command has still to make, in order
  body,    \* the players in the game
  linked,  \* those with a playing descriptor
  copy,    \* the characters of the login dialogues
  ground,  \* the coins that lie about
  task,    \* "idle", or what runs: "copyover", "reboot", "recover"
  handed,  \* the players in the copyover file
  minted   \* all coins that were ever given to new players

disk == <<file, temp, todo>>
game == <<body, linked, copy, ground>>
vars == <<disk, game, task, handed, minted>>

TypeOK ==
  /\ file \in [Name -> Sheet \cup {Nil}] /\ temp \in Sheet \cup {Nil}
  /\ todo \in Seq([who : Name, sheet : Sheet \cup {Nil}])
  /\ body \in [Name -> Sheet \cup {Nil}] /\ copy \in [Name -> Sheet \cup {Nil}]
  /\ linked \subseteq {n \in Name : body[n] # Nil}
  /\ ground \in Nat /\ minted \in 0..MaxMinted
  /\ task \in {"idle", "copyover", "reboot", "recover"}
  /\ handed \subseteq Name

Nobody == [n \in Name |-> Nil]

Init ==
  /\ file = [n \in Name |-> IF n \in Staff THEN [level |-> Rank[n], gold |-> Gift, bank |-> 0] ELSE Nil]
  /\ temp = Nil /\ todo = <<>>
  /\ body = Nobody /\ linked = {} /\ copy = Nobody /\ ground = 0
  /\ task = "idle" /\ handed = {} /\ minted = Gift * Cardinality(Staff)

Playing(n) == body[n] # Nil

\* get_trust of p is above that of n.
Outranks(p, n) == body[n].level < body[p].level

\* A command runs to its end before the next: one thread.
Idle == task = "idle" /\ todo = <<>>

----------------------------------------------------------------------------
\* save_char_obj.

\* The saves a call is good for: none for a player of level one.
Saves(n, sheet) == IF sheet.level = 1 THEN <<>> ELSE <<[who |-> n, sheet |-> sheet]>>

\* What gets to the file: the level is written before the purse, the purse
\* before the account; what a reader does not find is 0.
Written(sheet) ==
  {sheet} \cup IF DiskFull THEN {[sheet EXCEPT !.bank = 0], [sheet EXCEPT !.bank = 0, !.gold = 0]}
               ELSE {}

Write ==
  /\ todo # <<>> /\ temp = Nil /\ Head(todo).sheet # Nil
  /\ temp' \in Written(Head(todo).sheet)
  /\ UNCHANGED <<file, todo, game, task, handed, minted>>

Rename ==
  /\ temp # Nil
  /\ file' = [file EXCEPT ![Head(todo).who] = temp]
  /\ temp' = Nil /\ todo' = Tail(todo)
  /\ UNCHANGED <<game, task, handed, minted>>

Unlink ==
  /\ todo # <<>> /\ temp = Nil /\ Head(todo).sheet = Nil
  /\ file' = [file EXCEPT ![Head(todo).who] = Nil]
  /\ todo' = Tail(todo)
  /\ UNCHANGED <<temp, game, task, handed, minted>>

Unlinks(n) == <<[who |-> n, sheet |-> Nil]>>

\* The state of a process that has just started.
Fresh == body' = Nobody /\ linked' = {} /\ copy' = Nobody /\ ground' = 0

\* A signal, a failing fopen (fclose(NULL)), the power: sig_handler calls
\* auto_shutdown, which is empty.  The next server starts with the files.
Die ==
  /\ Fresh
  /\ temp' = Nil /\ todo' = <<>> /\ task' = "idle" /\ handed' = {}
  /\ UNCHANGED <<file, minted>>

----------------------------------------------------------------------------
\* The login.

\* What load_char_obj starts from.
Unborn == [level |-> 0, gold |-> 0, bank |-> 0]

\* ... and what it returns, when the fields it found are read.
Loaded(n) == IF file[n] = Nil THEN Unborn ELSE file[n]

\* Another dialogue of this player is closed first (check_parse_name).
GetName(n) ==
  /\ Idle /\ copy[n] = Nil
  /\ copy' = [copy EXCEPT ![n] = Loaded(n)]
  /\ UNCHANGED <<disk, body, linked, ground, task, handed, minted>>

\* A wrong password, a no, a second login: the character is freed.
GiveUp(n) ==
  /\ Idle /\ copy[n] # Nil
  /\ copy' = [copy EXCEPT ![n] = Nil]
  /\ UNCHANGED <<disk, body, linked, ground, task, handed, minted>>

\* close_socket saves the character of a dialogue, too: as it was read.
DialogueBreaks(n) ==
  /\ Idle /\ copy[n] # Nil
  /\ StaleBreaks \/ ~Playing(n)
  /\ copy' = [copy EXCEPT ![n] = Nil]
  /\ todo' = Saves(n, copy[n])
  /\ UNCHANGED <<file, temp, body, linked, ground, task, handed, minted>>

\* The body that is still there is taken over, an older link closed unsaved.
Reconnect(n) ==
  /\ Idle /\ copy[n] # Nil /\ Playing(n)
  /\ copy' = [copy EXCEPT ![n] = Nil] /\ linked' = linked \cup {n}
  /\ UNCHANGED <<disk, body, ground, task, handed, minted>>

ReadMotd(n) ==
  /\ Idle /\ copy[n] # Nil /\ ~Playing(n)
  /\ IF copy[n].level = 0
       THEN /\ minted + Gift <= MaxMinted
            /\ minted' = minted + Gift
            /\ body' = [body EXCEPT ![n] = [copy[n] EXCEPT !.level = 1, !.gold = Gift]]
       ELSE body' = [body EXCEPT ![n] = copy[n]] /\ UNCHANGED minted
  /\ copy' = [copy EXCEPT ![n] = Nil] /\ linked' = linked \cup {n}
  /\ UNCHANGED <<disk, ground, task, handed>>

----------------------------------------------------------------------------
\* Playing.

LoseLink(n) ==
  /\ Idle /\ n \in linked
  /\ linked' = linked \ {n}
  /\ todo' = Saves(n, body[n])
  /\ UNCHANGED <<file, temp, body, copy, ground, task, handed, minted>>

\* Mutant of Leave: a dialogue of the same player goes on.
LeaveAlone(n) ==
  \E exit \in Exits :
    /\ body' = [body EXCEPT ![n] = Nil] /\ linked' = linked \ {n}
    /\ todo' = Saves(n, body[n])
    /\ UNCHANGED <<file, copy>>

\* do_quit saves, unlinks the file of a player of level one, and closes the
\* dialogues of the same player; do_purge only saves.  Linkdead players are
\* made to quit by char_update.
Leave(n) ==
  \E exit \in Exits :
    /\ body' = [body EXCEPT ![n] = Nil] /\ linked' = linked \ {n}
    /\ todo' = Saves(n, body[n])
    /\ file' = IF exit = "quit" /\ body[n].level = 1 THEN [file EXCEPT ![n] = Nil] ELSE file
    /\ copy' = IF exit = "quit" THEN [copy EXCEPT ![n] = Nil] ELSE copy

Quit(n) ==
  /\ Idle /\ Playing(n)
  /\ Leave(n)
  /\ UNCHANGED <<temp, ground, task, handed, minted>>

\* do_delete, confirmed, calls do_quit and unlinks the file, did it quit or not.
Delete(n) ==
  /\ Idle /\ n \in linked
  /\ \E quits \in {TRUE} \cup {~Refuses} :
       IF quits THEN /\ body' = [body EXCEPT ![n] = Nil] /\ linked' = linked \ {n}
                     /\ copy' = [copy EXCEPT ![n] = Nil]
                     /\ todo' = Saves(n, body[n]) \o Unlinks(n)
       ELSE todo' = Unlinks(n) /\ UNCHANGED <<body, linked, copy>>
  /\ UNCHANGED <<file, temp, ground, task, handed, minted>>

fry_char(n) ==
  /\ body' = [body EXCEPT ![n] = Nil] /\ linked' = linked \ {n}
  /\ todo' = Saves(n, body[n]) \o Unlinks(n)

\* A dialogue of the same player goes on.
Fry(n) ==
  /\ Idle /\ Playing(n) /\ \E p \in linked : body[p].level = 8 /\ Outranks(p, n)
  /\ StaleNames \/ copy[n] = Nil
  /\ fry_char(n)
  /\ UNCHANGED <<file, temp, copy, ground, task, handed, minted>>

\* The old file goes before the new one is there.  The new name is nobody's:
\* a dialogue under it would be closed, and the command refused.
RenamePlayer(n, m) ==
  /\ Idle /\ Playing(n) /\ \E p \in linked : body[p].level >= 6 /\ (n = p \/ Outranks(p, n))
  /\ file[m] = Nil /\ ~Playing(m) /\ copy[m] = Nil
  /\ StaleNames \/ copy[n] = Nil
  /\ body' = [body EXCEPT ![m] = body[n], ![n] = Nil]
  /\ linked' = IF n \in linked THEN (linked \ {n}) \cup {m} ELSE linked
  /\ todo' = Unlinks(n) \o Saves(m, body[n])
  /\ UNCHANGED <<file, temp, copy, ground, task, handed, minted>>

\* do_save, the autosave, auto_restore, a new password.
Save(n) ==
  /\ Idle /\ Playing(n)
  /\ todo' = Saves(n, body[n])
  /\ UNCHANGED <<file, temp, game, task, handed, minted>>

GainLevel(n) ==
  /\ Idle /\ Playing(n) /\ body[n].level = 1
  /\ body' = [body EXCEPT ![n].level = 2]
  /\ todo' = Saves(n, body'[n])
  /\ UNCHANGED <<file, temp, linked, copy, ground, task, handed, minted>>

\* Mutant of HandOver: the receiver is saved before the giver.
HandOverReversed(p, q, t) == IF t = "give" THEN Saves(q, body'[q]) \o Saves(p, body'[p]) ELSE <<>>

\* Mutant of HandOver: the receiver is not saved.
HandOverGiver(p, q, t) == IF t = "give" THEN Saves(p, body'[p]) ELSE <<>>

\* do_give saves giver and receiver; do_split and do_steal save nobody.
HandOver(p, q, t) == IF t = "give" THEN Saves(p, body'[p]) \o Saves(q, body'[q]) ELSE <<>>

Pay(p, q, k) ==
  \E t \in Transfers :
    /\ Idle /\ p # q /\ Playing(p) /\ Playing(q) /\ body[p].gold >= k
    /\ body' = [body EXCEPT ![p].gold = @ - k, ![q].gold = @ + k]
    /\ todo' = HandOver(p, q, t)
    /\ UNCHANGED <<file, temp, linked, copy, ground, task, handed, minted>>

\* The coins of the room are gathered into one heap.
DropCoins(n, k) ==
  /\ Idle /\ Playing(n) /\ body[n].gold >= k
  /\ body' = [body EXCEPT ![n].gold = @ - k]
  /\ ground' = ground + k
  /\ todo' = Saves(n, body'[n])
  /\ UNCHANGED <<file, temp, linked, copy, task, handed, minted>>

GetCoins(n) ==
  /\ Idle /\ Playing(n) /\ ground > 0
  /\ body' = [body EXCEPT ![n].gold = @ + ground]
  /\ ground' = 0
  /\ todo' = Saves(n, body'[n])
  /\ UNCHANGED <<file, temp, linked, copy, task, handed, minted>>

Lesser(a, b) == IF a < b THEN a ELSE b

\* find_money: what is above the cap is gone.  The interest it would pay needs
\* a last visit more than a day ahead of the clock.
FindMoney(sheet) == [sheet EXCEPT !.bank = Lesser(@, Cap)]

\* complete_transaction: a deposit of k, or a withdrawal of -k.
Transact(sheet, k) == [sheet EXCEPT !.bank = @ + k, !.gold = @ - k]

\* The account is cut before and after, and nobody is saved.
Banks(n, k) ==
  LET sheet == FindMoney(body[n])
  IN  /\ Idle /\ Playing(n)
      /\ sheet.gold >= k /\ sheet.bank + k >= 0
      /\ body' = [body EXCEPT ![n] = FindMoney(Transact(sheet, k))]
      /\ UNCHANGED <<disk, linked, copy, ground, task, handed, minted>>

----------------------------------------------------------------------------
\* Restarts.

\* copyover(), by command or by the tick when its time has come, throws out the
\* dialogues unsaved.
Copyover ==
  /\ Idle
  /\ task' = "copyover" /\ copy' = Nobody
  /\ UNCHANGED <<disk, body, linked, ground, handed, minted>>

\* Mutant of Carried: no free level.
CarriedAsIs(sheet) == sheet

\* A player of level one gains a level, so that he is saved.
Carried(sheet) == IF sheet.level = 1 THEN [sheet EXCEPT !.level = 2] ELSE sheet

\* One round of the loop: an entry in the copyover file, then the save.
HandDown(n) ==
  /\ task = "copyover" /\ todo = <<>> /\ n \in linked \ handed
  /\ handed' = handed \cup {n}
  /\ body' = [body EXCEPT ![n] = Carried(@)]
  /\ todo' = Saves(n, body'[n])
  /\ UNCHANGED <<file, temp, linked, copy, ground, task, minted>>

AllHanded == task = "copyover" /\ todo = <<>> /\ handed = linked

\* execl: everything but the files and the open sockets is gone.
Exec ==
  /\ AllHanded
  /\ Fresh /\ task' = "recover"
  /\ UNCHANGED <<disk, handed, minted>>

\* execl returns: the game goes on.
ExecFails ==
  /\ AllHanded
  /\ task' = "idle" /\ handed' = {}
  /\ UNCHANGED <<disk, game, minted>>

\* copyover_recover reads the next entry; a socket that cannot be written to
\* is left alone, and its player is out of the game.
Recover(n) ==
  /\ task = "recover" /\ n \in handed
  /\ handed' = handed \ {n}
  /\ \E writable \in BOOLEAN :
       IF writable /\ file[n] # Nil
         THEN body' = [body EXCEPT ![n] = Loaded(n)] /\ linked' = linked \cup {n}
         ELSE UNCHANGED <<body, linked>>
  /\ UNCHANGED <<disk, copy, ground, task, minted>>

Recovered ==
  /\ task = "recover" /\ handed = {}
  /\ task' = "idle"
  /\ UNCHANGED <<disk, game, handed, minted>>

\* All ways to put the elements of a set in a row.
Rows(S) == {row \in [1..Cardinality(S) -> S] : \A x \in S : \E i \in DOMAIN row : row[i] = x}

\* Mutant of Forced: get_trust compared the other way round.
ForcedAbove(p) ==
  IF body[p].level < 5 THEN {}
  ELSE {n \in Name : Playing(n) /\ Outranks(n, p) /\ body[n].level # 1}

\* Those whom do_force "all save" saves: it does nothing for a trust below L3,
\* reaches those of lower trust, and those of level one are not saved.
Forced(p) ==
  IF body[p].level < 5 THEN {}
  ELSE {n \in Name : Playing(n) /\ Outranks(p, n) /\ body[n].level # 1}

\* The saves in the order of row.
SavesOf(row) == [i \in DOMAIN row |-> [who |-> row[i], sheet |-> body[row[i]]]]

\* do_reboot, from L5 on, and do_shutdown of an ML: p himself is saved last.  The
\* do_reboot(NULL, "") of the tick returns at once: DENY_NPC lets no NULL pass.
Reboot(p) ==
  /\ Idle /\ p \in linked /\ body[p].level >= 3
  /\ task' = "reboot"
  /\ \E row \in Rows(Forced(p)) : todo' = SavesOf(Append(row, p))
  /\ UNCHANGED <<file, temp, game, handed, minted>>

----------------------------------------------------------------------------
Amounts == 1..MaxMinted

Dialogue(n) == GetName(n) \/ GiveUp(n) \/ DialogueBreaks(n) \/ Reconnect(n) \/ ReadMotd(n)

Play(n) ==
  \/ LoseLink(n) \/ Quit(n) \/ Save(n) \/ GainLevel(n) \/ GetCoins(n)
  \/ \E k \in Amounts : DropCoins(n, k) \/ Banks(n, k) \/ Banks(n, -k)
  \/ Delete(n) \/ Fry(n) \/ \E m \in Name : RenamePlayer(n, m)
  \/ \E q \in Name, k \in Amounts : Pay(n, q, k)

Next ==
  \/ \E n \in Name : Dialogue(n) \/ Play(n) \/ HandDown(n) \/ Recover(n) \/ Reboot(n)
  \/ Copyover \/ Exec \/ ExecFails \/ Recovered
  \/ Write \/ Rename \/ Unlink \/ Die

Spec == Init /\ [][Next]_vars

----------------------------------------------------------------------------
Worth(sheet) == IF sheet = Nil THEN 0 ELSE sheet.gold + sheet.bank

\* The coins of all players according to f.
Wealth(f) == SumFunction([n \in Name |-> Worth(f[n])])

\* The player as he will be when he plays next.
Current(n) == IF Playing(n) THEN body[n] ELSE file[n]

\* No coin is in two places: neither in the game, counting those who are out
\* with what their files say, nor on the disk, counting what a crash at this
\* very point would leave.  Between the two saves of a gift, the giver's comes
\* first.
NoCoinTwice ==
  /\ TypeOK
  /\ Wealth(file) <= minted
  /\ todo = <<>> => Wealth([n \in Name |-> Current(n)]) + ground <= minted

\* When a command has returned, a crash takes no coin from anybody above level
\* one: what he was given, found or kept in the bank is in his file.
GainsAreSaved ==
  todo = <<>> =>
    \A n \in Name : Playing(n) /\ body[n].level # 1 => file[n] # Nil /\ Worth(file[n]) >= Worth(body[n])

\* A copyover loses nobody who plays: at execl the file of each linked player
\* is his character ("For each playing descriptor, save its state"), those of
\* level one included.
CopyoverKeepsAll == AllHanded => \A n \in linked : file[n] = body[n]

\* A reboot loses nobody who plays above level one: before it closes the
\* sockets "they were all saved above".
RebootKeepsAll ==
  task = "reboot" /\ todo = <<>> => \A n \in linked : body[n].level # 1 => file[n] = body[n]

\* A login never brings back a player as he was before his last visit ended.
EntersAsSaved ==
  [][\A n \in Name : ReadMotd(n) => file[n] = body'[n] \/ body'[n].level = 1]_vars
=============================================================================
