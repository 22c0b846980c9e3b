------------------------------ MODULE Building ------------------------------
(***************************************************************************)
(* Building online (olc/): what builders change in memory, and what asave  *)
(* writes to the area files.  An area is a range of vnums; its parts are   *)
(* mobiles, objects, rooms and programs.  AREA_CHANGED, the flag of an     *)
(* area, is all that tells "asave changed" which files are out of date,    *)
(* and it is kept by hand: by the loop of each editor, by the commands     *)
(* that create parts, and by the forms of asave.                           *)
(*                                                                         *)
(* A text stands for all fields of a part that are written to a file; the  *)
(* text of an area is its security, since that decides who may go on       *)
(* editing it.  Not in any file: the age of an area, and the material and  *)
(* the group of a mobile.                                                  *)
(***************************************************************************)
EXTENDS Integers, FiniteSets

CONSTANTS
  Area, Mobile, Object, Room, Program,
  Founded,   \* the areas that exist when the game comes up
  Home,      \* part |-> the area of its vnum
  First,     \* the parts that exist when the game comes up
  Text,      \* what a part may say
  Keeper,    \* of these, what a mobile says that has a shop
  Builder,
  Security,  \* builder |-> pcdata->security
  Sovereign, \* the security that may create areas (9)
  Unflagged, \* bound: changes that leave the flag alone: "text", "bit", "delete",
             \* "area"
  Inside,    \* bound: do they create mobiles and programs from within an editor?
  Fails,     \* bound: areas whose file cannot be opened for writing
  None        \* no such part, no editor open

Part == Mobile \cup Object \cup Room \cup Program

\* A new area has the security 1.
Level == {Security[b] : b \in Builder} \cup {1}

ASSUME BuildingConstants ==
  /\ Home \in [Part -> Founded] /\ Founded \subseteq Area
  /\ First \subseteq Part /\ Room \subseteq First /\ Sovereign \in Nat
  /\ Security \in [Builder -> Nat] /\ Builder # {} /\ Keeper \subseteq Text
  /\ Unflagged \subseteq {"text", "bit", "delete", "area"} /\ Inside \in BOOLEAN
  /\ Part \cap Area = {}
  /\ Fails \subseteq Area /\ None \notin Text \cup Part \cup Area \cup Nat

VARIABLES
  memory,   \* the parts and areas as the game has them
  file,     \* area |-> what its file says of every part and area
  changed,  \* the areas with AREA_CHANGED
  editing   \* ch->desc->ed_data

BuildingVars == <<memory, file, changed, editing>>

BuildingTypeOK ==
  /\ memory \in [Part \cup Area -> Text \cup Level \cup {None}]
  /\ \A a \in Area : memory[a] \in Level \cup {None}
  /\ file \in [Area -> [Part \cup Area -> Text \cup Level \cup {None}]]
  /\ changed \subseteq Area
  /\ editing \in [Builder -> Part \cup Area \cup {None}]

----------------------------------------------------------------------------
AreaOf(p) == IF p \in Area THEN p ELSE Home[p]
IS_BUILDER(b, a) == memory[a] # None /\ Security[b] >= memory[a]

\* Rooms and objects of the whole world go into every file, mobiles and
\* programs by the vnums of the area.
SavedWith(a) ==
  {a} \cup Object \cup Room \cup {p \in Mobile \cup Program : Home[p] = a}

FileOf(a) == [p \in Part \cup Area |-> IF p \in SavedWith(a) THEN memory[p] ELSE None]

\* The failure to open a file is logged; the caller does not hear of it.
save_areas(A) ==
  file' = [a \in Area |-> IF a \in A \ Fails THEN FileOf(a) ELSE file[a]]

----------------------------------------------------------------------------
Open(b, p) ==
  /\ memory[p] # None /\ IS_BUILDER(b, AreaOf(p))
  /\ editing' = [editing EXCEPT ![b] = p]
  /\ UNCHANGED <<memory, file, changed>>

\* A new area has AREA_ADDED, which nobody asks for, and not AREA_CHANGED; its
\* range of vnums is empty and stays so.  From within the editor of another
\* area the command is not refused.
aedit_create(b, a) ==
  /\ "area" \in Unflagged
  /\ Security[b] >= Sovereign \/ (editing[b] \in Area /\ IS_BUILDER(b, editing[b]))
  /\ memory' = [memory EXCEPT ![a] = 1]
  /\ editing' = [editing EXCEPT ![b] = a]
  /\ UNCHANGED <<file, changed>>

do_aedit(b) == \E a \in Area : IF memory[a] = None THEN aedit_create(b, a) ELSE Open(b, a)
do_medit(b) == \E m \in Mobile : Open(b, m)
do_oedit(b) == \E o \in Object : Open(b, o)
do_mpedit(b) == \E p \in Program : Open(b, p)

\* Who is no builder of the area any more is thrown out of the editor.
Dismissed(b) ==
  /\ ~IS_BUILDER(b, AreaOf(editing[b]))
  /\ editing' = [editing EXCEPT ![b] = None]
  /\ UNCHANGED <<memory, file, changed>>

\* A handler has set a field of what is being edited and returned true, so the
\* loop flags the area.
Sets(b, T) ==
  \E t \in T : /\ memory' = [memory EXCEPT ![editing[b]] = t]
               /\ changed' = changed \cup {AreaOf(editing[b])}

\* It returned true, but no file knows the field, or nothing was set.
Flags(b) == Sets(b, {memory[editing[b]]})

\* The text is put in place, and nobody is told.
sedit_commit(b) ==
  /\ \E t \in Text : memory' = [memory EXCEPT ![editing[b]] = t]
  /\ UNCHANGED changed

\* To open the string editor flags the area; its text comes when it closes.
StringEditor(b) ==
  \E step \in {"open"} \cup (Unflagged \cap {"text"}) :
    IF step = "open" THEN Flags(b) ELSE sedit_commit(b)

Other(b) == Text \ {memory[editing[b]]}

\* The editor may run a command.
Runs(b) == IS_BUILDER(b, AreaOf(editing[b])) /\ UNCHANGED <<file, editing>>

----------------------------------------------------------------------------
\* Of an area only the security is in the model: a change of its name, file,
\* levels or description shows as the flag.  Naming a flag toggles it, and
\* AREA_CHANGED is one; AREA_ADDED, the other, shows nowhere.
aedit_toggle(b) ==
  /\ \E step \in {"raise"} \cup (Unflagged \cap {"bit"}) :
       changed' = IF step = "raise" THEN changed \cup {editing[b]} ELSE changed \ {editing[b]}
  /\ UNCHANGED memory
aedit_security(b) == Sets(b, {l \in Level : l <= Security[b]})
aedit_fields(b) == Flags(b)
aedit_levels(b) == Flags(b)
Aedit(b) == aedit_security(b) \/ aedit_fields(b) \/ aedit_levels(b) \/ aedit_toggle(b)
aedit(b) == editing[b] \in Area /\ (Dismissed(b) \/ (Runs(b) /\ Aedit(b)))

\* Names, level and descriptions.
medit_texts(b) == StringEditor(b) \/ Sets(b, Text)

\* A shop is assigned once; hours, profit, type and remove need one.
medit_shop(b) ==
  \/ Sets(b, Keeper)
  \/ memory[editing[b]] \in Keeper /\ Sets(b, Text \ Keeper)

\* The flags of a mobile are toggled.
medit_act(b) == Sets(b, Other(b))
medit_ac(b) == Sets(b, Text)
medit_parts(b) == Sets(b, Other(b))
medit_material(b) == Flags(b)
medit_off(b) == Sets(b, Text)
medit_dice(b) == Sets(b, Text)
medit_race(b) == Sets(b, Text)
medit_position(b) == Sets(b, Text)
medit_group(b) == Flags(b)
medit_addmprog(b) == (\E p \in Program : memory[p] # None) /\ Sets(b, Other(b))
medit_delmprog(b) == Sets(b, Other(b))

\* The fields become those of another, but for the immunities, the shop, the
\* group and the programs.
medit_clone(b) == Sets(b, Text)

Medit(b) ==
  \/ medit_texts(b) \/ medit_shop(b) \/ medit_act(b) \/ medit_ac(b)
  \/ medit_parts(b) \/ medit_material(b) \/ medit_off(b) \/ medit_dice(b)
  \/ medit_race(b) \/ medit_position(b) \/ medit_group(b)
  \/ medit_addmprog(b) \/ medit_delmprog(b) \/ medit_clone(b)
medit(b) == editing[b] \in Mobile /\ (Dismissed(b) \/ (Runs(b) /\ Medit(b)))

oedit_affects(b) == Sets(b, Other(b))
oedit_names(b) == StringEditor(b) \/ Sets(b, Text)
oedit_fields(b) == Sets(b, Text)

oedit_extradesc(b) == StringEditor(b) \/ Sets(b, Other(b))

\* The command of an extra description that fails flags like one that works.
oedit_ed(b) == Flags(b) \/ oedit_extradesc(b)
oedit_flags(b) == Sets(b, Text)

\* What the five values mean is up to the type; an unknown spell or liquid
\* is set all the same.
set_obj_values(b) == Sets(b, Text)
set_place_values(b) == Sets(b, Text)
Oedit(b) ==
  \/ oedit_affects(b) \/ oedit_names(b) \/ oedit_fields(b) \/ oedit_ed(b)
  \/ oedit_flags(b) \/ set_obj_values(b) \/ set_place_values(b)
oedit(b) == editing[b] \in Object /\ (Dismissed(b) \/ (Runs(b) /\ Oedit(b)))

mpedit_code(b) == StringEditor(b) \/ Sets(b, Text)
mpedit_clone(b) == Sets(b, {memory[p] : p \in {p \in Program : memory[p] # None}})
Mpedit(b) == mpedit_code(b) \/ mpedit_clone(b)
mpedit(b) == editing[b] \in Program /\ (Dismissed(b) \/ (Runs(b) /\ Mpedit(b)))

Done(b) ==
  /\ editing[b] # None
  /\ editing' = [editing EXCEPT ![b] = None]
  /\ UNCHANGED <<memory, file, changed>>

----------------------------------------------------------------------------
\* The areas that the creation of p flags.  Within an editor its loop flags
\* the area of the part that was being edited; nobody flags that of a program.
Edited(b) == IF Inside /\ editing[b] # None THEN {AreaOf(editing[b])} ELSE {}
oedit_create(p) == {Home[p]}
medit_create(b, p) == IF Edited(b) # {} THEN Edited(b) ELSE {Home[p]}
mpedit_create(b) == Edited(b)

\* A new part is blank, or says what the part says that it is cloned from.
\* Nothing makes a room.
Create(b, p) ==
  /\ p \in Part \ Room /\ memory[p] = None /\ IS_BUILDER(b, Home[p])
  /\ \E t \in Text : memory' = [memory EXCEPT ![p] = t]
  /\ changed' = changed \cup
       IF p \in Object THEN oedit_create(p)
       ELSE IF p \in Mobile THEN medit_create(b, p) ELSE mpedit_create(b)
  /\ editing' = [editing EXCEPT ![b] = p]
  /\ UNCHANGED file

add_reset(r) == \E t \in Text \ {memory[r]} : memory' = [memory EXCEPT ![r] = t]

\* Resets belong to the room where the builder stands; "delete" is the one
\* form of the command that does not flag the area.
do_resets(b, r) ==
  /\ r \in Room /\ IS_BUILDER(b, Home[r])
  /\ add_reset(r)
  /\ \E form \in {"add"} \cup (Unflagged \cap {"delete"}) :
       changed' = changed \cup IF form = "add" THEN {Home[r]} ELSE {}
  /\ UNCHANGED <<file, editing>>

----------------------------------------------------------------------------
\* asave <vnum>: who is no builder is told so, and the area is saved; its
\* flag stays.
AsaveVnum(a) ==
  /\ memory[a] # None
  /\ save_areas({a})
  /\ UNCHANGED <<memory, changed, editing>>

\* Mutant of AsaveWorld: the flags go outside the test.
AsaveWorldAll(b) ==
  /\ save_areas({a \in Area : IS_BUILDER(b, a)})
  /\ changed' = {}
  /\ UNCHANGED <<memory, editing>>

AsaveWorld(b) ==
  /\ save_areas({a \in Area : IS_BUILDER(b, a)})
  /\ changed' = {a \in changed : ~IS_BUILDER(b, a)}
  /\ UNCHANGED <<memory, editing>>

AsaveChanged(b) ==
  /\ save_areas({a \in changed : IS_BUILDER(b, a)})
  /\ changed' = {a \in changed : ~IS_BUILDER(b, a)}
  /\ UNCHANGED <<memory, editing>>

\* asave area: the area of what is being edited; for a program the area of
\* the room where the builder stands, which may be any.
AsaveArea(b) ==
  /\ editing[b] # None
  /\ \E a \in IF editing[b] \in Program THEN Area ELSE {AreaOf(editing[b])} :
       /\ IS_BUILDER(b, a)
       /\ save_areas({a})
       /\ changed' = changed \ {a}
  /\ UNCHANGED <<memory, editing>>

----------------------------------------------------------------------------
BuildingInit ==
  /\ memory \in {m \in [Part \cup Area -> Text \cup Level \cup {None}] :
                   /\ \A a \in Area : IF a \in Founded THEN m[a] \in Level ELSE m[a] = None
                   /\ \A p \in Part : IF p \in First THEN m[p] \in Text ELSE m[p] = None}
  /\ file = [a \in Area |-> [p \in Part \cup Area |-> IF AreaOf(p) = a THEN memory[p] ELSE None]]
  /\ changed = {}
  /\ editing = [b \in Builder |-> None]

Editors(b) == aedit(b) \/ medit(b) \/ oedit(b) \/ mpedit(b) \/ Done(b)
Entries(b) == do_aedit(b) \/ do_medit(b) \/ do_oedit(b) \/ do_mpedit(b)
Asave(b) == AsaveWorld(b) \/ AsaveChanged(b) \/ AsaveArea(b)

BuildingNext ==
  \/ \E a \in Area : AsaveVnum(a)
  \/ \E b \in Builder :
       \/ Entries(b) \/ Editors(b) \/ Asave(b)
       \/ \E p \in Part : Create(b, p) \/ do_resets(b, p)

BuildingSpec == BuildingInit /\ [][BuildingNext]_BuildingVars

----------------------------------------------------------------------------
\* Nothing that builders change is only in memory once AREA_CHANGED is gone:
\* the file of an area without the flag says what the game has of the area
\* and of all its parts, whoever edits, creates parts, saves or loses the right
\* to build meanwhile, and although asave of another area, or by somebody who is
\* no builder, writes parts of it too.
UnflaggedIsOnFile ==
  \A p \in Part \cup Area : AreaOf(p) \notin changed => file[AreaOf(p)][p] = memory[p]
=============================================================================
