------------------------------ MODULE Programs ------------------------------
(***************************************************************************)
(* Mobile programs (mob_prog.c, mob_cmds.c).  A program is a text of lines *)
(* that a trigger starts; program_flow reads it line by line and keeps two *)
(* arrays, state[] and cond[], to know which lines to skip.  Lines act on  *)
(* the world at once, and what they do may trigger programs of other       *)
(* mobiles, or end in the middle of a loop over the people of a room: the  *)
(* C stack is the sequence calls, and next to it there is one static       *)
(* counter, call_level, to stop programs that call each other.             *)
(*                                                                         *)
(* What a text says is a choice at each line; blocks is what the author of *)
(* the text means by it, a truth value for each if that is still open.     *)
(***************************************************************************)
EXTENDS Integers, SequencesExt

CONSTANTS
  Mob, Player, Room,
  MAX_NESTED_LEVEL, MAX_CALL_LEVEL,
  Scripted,  \* mobiles with programs, on every kind of trigger
  MaxDelay,  \* bound on the argument of "mob delay"
  Commands,  \* mob commands that programs use, of KnownCommands
  Home,      \* room |-> its people after the boot
  NoOne

VARIABLES
  people,      \* room |-> its list of people, as next_in_room links them
  delay,       \* mobile |-> mprog_delay
  calls,       \* activations, the innermost last
  call_level   \* static int call_level of program_flow

ProgramsVars == <<people, delay, calls, call_level>>

Char == Mob \cup Player
KnownCommands ==
  {"echo", "goto", "transfer", "force", "kill", "flee", "mload", "purge",
   "delay", "cancel", "call"}

ASSUME ProgramsConstants ==
  /\ Mob \cap Player = {} /\ NoOne \notin Char
  /\ MAX_NESTED_LEVEL \in Nat \ {0} /\ MAX_CALL_LEVEL \in Nat \ {0}
  /\ Scripted \subseteq Mob /\ Home \in [Room -> Seq(Char)]
  /\ MaxDelay \in Nat /\ Commands \subseteq KnownCommands

----------------------------------------------------------------------------
(* Activations: a program, act_new or mp_greet_trigger half way through    *)
(* the people of a room, or damage waiting for the program on TRIG_DEATH.  *)

\* END_BLOCK is told apart from IN_BLOCK nowhere: both are IN_BLOCK here.
IN_BLOCK == "in"
BEGIN_BLOCK == "begin"
Level == 0 .. MAX_NESTED_LEVEL - 1

program(m) ==
  [kind |-> "program", mob |-> m, level |-> 0, blocks |-> <<>>,
   state |-> [l \in Level |-> IN_BLOCK], cond |-> [l \in Level |-> TRUE]]
Visit(ch, at) == [kind |-> "visit", ch |-> ch, at |-> at, told |-> FALSE]
Dying(m) == [kind |-> "death", mob |-> m]

Running(cs) == Cardinality({i \in DOMAIN cs : cs[i].kind = "program"})
NoneRuns == calls = <<>>
Innermost == Last(calls)
IsInnermost(kind) == calls # <<>> /\ Innermost.kind = kind
Outer == Front(calls)

\* The entry of program_flow.  Once MAX_CALL_LEVEL is exceeded for good the
\* exact count no longer matters: it stops at the bound Beyond.
Beyond(cs) == MAX_CALL_LEVEL + 1 + Running(cs)
program_flow(cs, m) ==
  IF call_level < MAX_CALL_LEVEL
  THEN calls' = Append(cs, program(m)) /\ call_level' = call_level + 1
  ELSE /\ calls' = cs
       /\ call_level' = IF call_level < Beyond(cs) THEN call_level + 1 ELSE call_level

Continue(cs) == calls' = cs /\ UNCHANGED call_level

\* Programs are started by phrase, by chance or by vnum: a choice.
Triggers(cs, m) == (m \in Scripted /\ program_flow(cs, m)) \/ Continue(cs)

Call ==
  [kind : {"program"}, mob : Mob, level : Level, blocks : Seq(BOOLEAN),
   state : [Level -> {IN_BLOCK, BEGIN_BLOCK}], cond : [Level -> BOOLEAN]]
  \cup [kind : {"visit"}, ch : Char, at : Char \cup {NoOne}, told : BOOLEAN]
  \cup [kind : {"death"}, mob : Mob]

ProgramsTypeOK ==
  /\ people \in [Room -> Seq(Char)] /\ delay \in [Mob -> -1 .. MaxDelay]
  /\ calls \in Seq(Call) /\ call_level \in Nat

----------------------------------------------------------------------------
(* Rooms: handler.c.                                                       *)

Here(c) == \E r \in Room : c \in ToSet(people[r])
RoomOf(c) == CHOOSE r \in Room : c \in ToSet(people[r])
Mates(c) == ToSet(people[RoomOf(c)]) \ {c}
next_in_room(c) ==
  IF ~Here(c) THEN NoOne
  ELSE LET p == people[RoomOf(c)]
           i == CHOOSE i \in DOMAIN p : p[i] = c
       IN IF i = Len(p) THEN NoOne ELSE p[i + 1]

char_from_room(c) == [r \in Room |-> RemoveFirst(people[r], c)]
char_to_room(c, r) == people' = [char_from_room(c) EXCEPT ![r] = <<c>> \o @]

----------------------------------------------------------------------------
(* What somebody does, of himself or by force, with cs still to return to. *)

\* act_new: everybody else in the room is offered a program on TRIG_ACT.
Shows(cs, c) ==
  /\ Continue(Append(cs, Visit(c, Head(people[RoomOf(c)]))))
  /\ UNCHANGED <<people, delay>>

\* mp_act_trigger on TRIG_SPEECH, which only "tell" reaches, mp_give_trigger,
\* mp_bribe_trigger, and TRIG_SURR, TRIG_FIGHT, TRIG_KILL and TRIG_HPCNT.
Addresses(cs, c) ==
  /\ \E m \in Mates(c) \cap Scripted : program_flow(cs, m)
  /\ UNCHANGED <<people, delay>>

\* mp_exit_trigger: the first mobile whose program fires stops the walker.
IsStopped(cs, c) ==
  /\ c \in Player /\ \E m \in Mates(c) \cap Scripted : program_flow(cs, m)
  /\ UNCHANGED <<people, delay>>

\* move_char past mp_exit_trigger: TRIG_ENTRY of the walker who is a mobile,
\* TRIG_GREET and TRIG_GRALL of those whom a player meets.
Walk(cs, c) ==
  /\ \E r \in Room \ {RoomOf(c)} :
       /\ char_to_room(c, r)
       /\ IF c \in Player THEN Continue(Append(cs, Visit(c, c))) ELSE Triggers(cs, c)
  /\ UNCHANGED delay

\* damage: the victim stands up once more for its program on TRIG_DEATH.
Slays(cs, c) ==
  /\ c \in Player /\ \E m \in Mates(c) \cap Mob : Triggers(Append(cs, Dying(m)), m)
  /\ UNCHANGED <<people, delay>>

interpret(cs, c) ==
  Shows(cs, c) \/ Addresses(cs, c) \/ IsStopped(cs, c) \/ Walk(cs, c) \/ Slays(cs, c)

\* extract_char does nothing for those who are already out of the game.
extract_char(c) == people' = char_from_room(c)

\* create_mobile: new_char takes a struct that free_char gave back, whoever
\* still points to it.
create_mobile(m, r) ==
  ~Here(m) /\ char_to_room(m, r) /\ delay' = [delay EXCEPT ![m] = 0]

----------------------------------------------------------------------------
(* The mob commands; cs is the stack with the program that gives them.     *)

do_mpecho(cs, m) == Shows(cs, m)
do_mpgoto(cs, m) ==
  (\E r \in Room : char_to_room(m, r)) /\ Continue(cs) /\ UNCHANGED delay
do_mptransfer(cs, m) ==
  /\ \E p \in Player, r \in Room : char_to_room(p, r)
  /\ Continue(cs) /\ UNCHANGED delay
do_mpforce(cs, m) == \E c \in Mates(m) : interpret(cs, c)
do_mpkill(cs, m) == Addresses(cs, m)
do_mpflee(cs, m) == Walk(cs, m)
do_mpmload(cs, m) == (\E x \in Mob : create_mobile(x, RoomOf(m))) /\ Continue(cs)
\* By name the mobile itself is not excepted.
do_mppurge(cs, m) ==
  /\ \E x \in Mob \cap (Mates(m) \cup {m}) : extract_char(x)
  /\ Continue(cs) /\ UNCHANGED delay
do_mpdelay(cs, m) ==
  /\ \E n \in 0 .. MaxDelay : delay' = [delay EXCEPT ![m] = n]
  /\ Continue(cs) /\ UNCHANGED people
do_mpcancel(cs, m) ==
  delay' = [delay EXCEPT ![m] = -1] /\ Continue(cs) /\ UNCHANGED people
do_mpcall(cs, m) == program_flow(cs, m) /\ UNCHANGED <<people, delay>>

mob_interpret(cs, m) ==
  \/ "echo" \in Commands /\ do_mpecho(cs, m)
  \/ "goto" \in Commands /\ do_mpgoto(cs, m)
  \/ "transfer" \in Commands /\ do_mptransfer(cs, m)
  \/ "force" \in Commands /\ do_mpforce(cs, m)
  \/ "kill" \in Commands /\ do_mpkill(cs, m)
  \/ "flee" \in Commands /\ do_mpflee(cs, m)
  \/ "mload" \in Commands /\ do_mpmload(cs, m)
  \/ "purge" \in Commands /\ do_mppurge(cs, m)
  \/ "delay" \in Commands /\ do_mpdelay(cs, m)
  \/ "cancel" \in Commands /\ do_mpcancel(cs, m)
  \/ "call" \in Commands /\ do_mpcall(cs, m)

----------------------------------------------------------------------------
(* The lines of a program, f, the innermost activation.                    *)

cmd_eval == BOOLEAN
Outside(f) == f.cond[f.level - 1] = FALSE
NoIf(f) == f.level = 0 \/ f.state[f.level - 1] # BEGIN_BLOCK
Reads(f) == calls' = Append(Outer, f) /\ UNCHANGED <<people, delay, call_level>>

\* The end of the text, "break" and "end".
Returns == calls' = Outer /\ call_level' = call_level - 1 /\ UNCHANGED <<people, delay>>
\* A misplaced line or an unknown check: return, without --call_level.
GivesUp == calls' = Outer /\ UNCHANGED <<people, delay, call_level>>

OpenIf(f) ==
  [f EXCEPT !.state[f.level] = BEGIN_BLOCK, !.level = @ + 1]
If(f) ==
  IF f.state[f.level] = BEGIN_BLOCK \/ f.level + 1 >= MAX_NESTED_LEVEL THEN GivesUp
  ELSE \E e \in cmd_eval :
         LET g == [OpenIf(f) EXCEPT !.blocks = Append(@, e)]
         IN IF Outside(g) THEN Reads([g EXCEPT !.cond[g.level] = FALSE])
            ELSE Reads([g EXCEPT !.cond[g.level] = e])

Or(f) ==
  IF NoIf(f) THEN GivesUp
  ELSE \E e \in cmd_eval :
         LET g == [f EXCEPT !.blocks[f.level] = @ \/ e]
         IN IF Outside(f) THEN Reads(g) ELSE Reads([g EXCEPT !.cond[f.level] = e \/ @])

And(f) ==
  IF NoIf(f) THEN GivesUp
  ELSE \E e \in cmd_eval :
         LET g == [f EXCEPT !.blocks[f.level] = @ /\ e]
         IN IF Outside(f) THEN Reads(g) ELSE Reads([g EXCEPT !.cond[f.level] = @ /\ e])

\* Mutant of Else: else does not look whether its if is itself skipped.
ElseAlways(f) ==
  IF NoIf(f) THEN GivesUp
  ELSE LET g == [f EXCEPT !.blocks[f.level] = ~@]
       IN Reads([g EXCEPT !.cond[f.level] = ~@])

Else(f) ==
  IF NoIf(f) THEN GivesUp
  ELSE LET g == [f EXCEPT !.blocks[f.level] = ~@]
       IN IF Outside(f) THEN Reads(g)
          ELSE Reads([g EXCEPT !.cond[f.level] = ~@])

EndIf(f) ==
  IF NoIf(f) THEN GivesUp
  ELSE Reads([f EXCEPT !.cond[f.level] = TRUE, !.state[f.level] = IN_BLOCK,
                       !.state[f.level - 1] = IN_BLOCK, !.level = @ - 1,
                       !.blocks = Front(@)])

UnknownCheck(f) == ~(f.level > 0 /\ Outside(f)) /\ GivesUp

\* The server goes down and is started again.
Boot == people' = Home /\ delay' = [m \in Mob |-> 0] /\ calls' = <<>> /\ call_level' = 0

\* A mobile that is out of the game has no room: most commands fall over it.
IsExecuted(f) == f.level = 0 \/ f.cond[f.level]
Command(f) ==
  /\ IsExecuted(f)
  /\ IF Here(f.mob) THEN mob_interpret(calls, f.mob) \/ interpret(calls, f.mob)
     ELSE do_mpdelay(calls, f.mob) \/ do_mpcancel(calls, f.mob) \/ Boot

Line ==
  /\ IsInnermost("program")
  /\ \/ If(Innermost) \/ Or(Innermost) \/ And(Innermost) \/ Else(Innermost) \/ EndIf(Innermost)
     \/ UnknownCheck(Innermost) \/ Returns \/ Command(Innermost)

----------------------------------------------------------------------------
(* Loops that are taken up again when a program returns.                   *)

\* The loop of act_new, and of mp_greet_trigger: it goes on from the one who
\* was just told, wherever the program has left him.
Tell ==
  /\ IsInnermost("visit") /\ ~Innermost.told /\ Innermost.at \in Scripted \ {Innermost.ch}
  /\ program_flow(Append(Outer, [Innermost EXCEPT !.told = TRUE]), Innermost.at)
  /\ UNCHANGED <<people, delay>>
NextInRoom ==
  /\ IsInnermost("visit")
  /\ LET n == next_in_room(Innermost.at)
     IN Continue(IF n = NoOne THEN Outer ELSE Append(Outer, [Innermost EXCEPT !.at = n, !.told = FALSE]))
  /\ UNCHANGED <<people, delay>>

\* raw_kill, after the program on TRIG_DEATH.
RawKill == IsInnermost("death") /\ extract_char(Innermost.mob) /\ Continue(Outer) /\ UNCHANGED delay

----------------------------------------------------------------------------
(* What starts from outside: commands, mobile_update, resets.              *)

Order == NoneRuns /\ \E c \in Char : Here(c) /\ interpret(calls, c)

\* mobile_update: the block of TRIG_DELAY and TRIG_RANDOM stands there twice.
OnDelay(m) ==
  /\ NoneRuns /\ Here(m) /\ m \in Scripted /\ delay[m] \in 1 .. 2
  /\ delay' = [delay EXCEPT ![m] = 0]
  /\ Triggers(calls, m) /\ UNCHANGED people
OnRandom(m) ==
  /\ NoneRuns /\ Here(m) /\ m \in Scripted
  /\ \E n \in 1 .. 2 :
       /\ delay[m] > n \/ delay[m] <= 0
       /\ delay' = [delay EXCEPT ![m] = IF @ > 0 THEN @ - n ELSE @]
  /\ program_flow(calls, m) /\ UNCHANGED people
NoProgram(m) ==
  /\ NoneRuns /\ Here(m) /\ m \in Scripted /\ delay[m] > 2
  /\ delay' = [delay EXCEPT ![m] = @ - 2]
  /\ Continue(calls) /\ UNCHANGED people
Repop(m) == NoneRuns /\ (\E r \in Room : create_mobile(m, r)) /\ Continue(calls)

ProgramsInit == people = Home /\ delay = [m \in Mob |-> 0] /\ calls = <<>> /\ call_level = 0

ProgramsNext ==
  \/ Line \/ Tell \/ NextInRoom \/ RawKill \/ Order
  \/ \E m \in Mob : OnDelay(m) \/ OnRandom(m) \/ NoProgram(m) \/ Repop(m)

ProgramsSpec == ProgramsInit /\ [][ProgramsNext]_ProgramsVars

----------------------------------------------------------------------------
\* In every program that runs or waits, a line is executed just when every if
\* around it, with its or, and and else, is true: the two arrays of
\* program_flow, and the checks it leaves out, amount to nested blocks.
RunsInsideTrueBlocks ==
  /\ ProgramsTypeOK
  /\ \A i \in DOMAIN calls :
       calls[i].kind = "program" =>
         LET f == calls[i] IN /\ Len(f.blocks) = f.level
                              /\ IsExecuted(f) <=> \A b \in ToSet(f.blocks) : b
=============================================================================
