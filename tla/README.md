# A verification project for the mud server

The server in `src/code` is a MUD of the ROM family: one process, one thread,
that polls its sockets, gives every connection a turn, runs the updates of the
world and sends what was written, four times a second, for ever.  Nothing in it
runs in parallel.  What is hard in it is of another kind: everything points to
everything (descriptors to characters, characters to descriptors, followers,
pets, auctions, replies), the objects at the other end are freed by hand and
handed out again at once, and every pointer has to be cleared by whoever frees
what it points to, in whatever order players log in, lose their links, are
thrown out, quit and die.  The models are about that.

Paths below are relative to `src/code/merc` where no other is given.

## 1. Inventory

| part | state | operations | modelled in |
|---|---|---|---|
| Connections and the game loop: `comm.c`, `descriptor.c`, `remote.c` | the list of descriptors, each with a dialogue state, a character, the body it left when it switched, a mark for deletion, a snooper | poll, accept, read, one turn of input, one turn of output, close, free | `Session` |
| Login: `nanny.c` | the state of each dialogue, the character it has loaded | one reply per state; reconnect to a body without a link, break the old link, throw out other dialogues | `Session` |
| Bodies: `handler.c`, `recycle.c`, `act_wiz.c`, `update.c` | `char_list`, the free list of `struct char_data`, linkdead marks | enter, quit, save, extract, purge, switch, return, snoop, disconnect, the tick that throws linkdead players out | `Session` |
| Auction: `auction.c` | the item, seller, best bidder, bid, reserve, countdown | sell, bid, stop, clone, reset, silence, `auction_update` | `Auction` |
| Followers, groups, pets: `follower_service.c` | master, leader, pet of every character, the charm bit | follow, group, nofollow, charm, buy, blows, deaths, quit, load | `Followers` |
| Replies and targets: `channels.c`, `mob_cmds.c` | `reply`, `mprog_target` | tell, remember, forget, extract | `Followers` |
| Player files, crashes: `save.c`, `execs/main.c` | a file per player, one temporary file | save, load, delete, rename; dying between any two steps | `Restart` |
| Copyover, reboot: `copyover.c`, `act_wiz.c` | the file that hands descriptors to the new process | write, exec, recover | `Restart` |
| Bank: `bank.c` | purse and account | deposit, withdraw, the cap | `Restart` |
| Objects, containers, shops: `act_obj.c`, `object.c`, `handler.c` | the place of every object; weight and number carried, light of a room, the seat one is on | get, put, drop, give, wear, steal, buy, sell, sacrifice, decay, burn, extract, ... | `Objects` |
| Affects and spells: `affects.c`, `spells.c`, `magic.c`, `effects.c` | the list of affects, the numbers and flags they give, worn gear | cast, strike, wear off, dispel, wear, remove, save, load | `Affects` |
| Fighting: `fight.c`, `act_combat.c` | `fighting` and `position` of each | rounds, bash, flee, rescue, cast, wands, aggression, assists, pushes, deaths | `Fight` |
| Mobile programs: `mob_prog.c`, `mob_cmds.c` | the nesting of each activation, the call level, the people of a room | triggers, lines, commands, calls | `Programs` |
| Skills and sessions: `skills.c`, `update.c`, `set.c` | `pcdata->skills`, sessions, percents | gain, train, practice, learn, advance, demote, grant, save, load | `Learning` |
| Areas, resets, doors: `db.c`, `elements/area.c`, `act_move.c` | ages, counters of players, mobiles and objects, both sides of a door | walk, open, close, lock, unlock, pick, age, reset | `Areas` |
| Building: `olc/` | the world in memory and in its files, `AREA_CHANGED`, the open editors | edit, create, delete, resets, `asave` in all forms | `Building` |
| Interpreter, aliases: `interp.c`, `alias.c` | tables | dispatch | the dispatch only |
| Notes, channels, who, help, bans, tables, parsing of area files, `sysinternals`, `execs` | text and tables | print, edit, parse | no: sequential text handling |

How they interact: `game_loop` (`comm.c:92`) calls `remote_poll` (accepts, and
frees the descriptors marked for deletion), `process_all_input` (one turn per
descriptor: a failed read closes it, a line goes to `nanny` or to `interpret`),
`update_handler` (areas, rounds of fights, mobiles, the tick, the auction) and
`process_all_output`.  Every command and every update may close descriptors
and free characters; `extract_char` is where a character leaves and where all
pointers to it should be cleared.  A command also runs programs of mobiles in
the middle of itself, and these run commands.

Hard behaviours and the property that makes each part correct:

* **Sessions.** A pass fetches the next descriptor before it serves this one;
  this turn may close that one.  A player may be in the game, in two dialogues
  and on a switched mobile at once while the link of any of these is lost.
  Correct: one body per player, one link per body, nothing freed in use,
  everyone served, everything closed freed.
* **Auction.** The item and the money of the best bid are taken at once and
  given back on several paths; seller and bidder are bare pointers.  Correct:
  it is a sale, in the sense of `Sale`, and every sale ends.
* **Followers.** Three pointers between any two characters, set and cleared by a
  dozen commands, loads and deaths.  Correct: bonds are between those in the
  game, the led follow, pets are their owner's, the charmed have a master.
* **Restarts.** A command saves several players one after the other and the
  process may die anywhere.  Correct: no coin twice, no gain lost; a planned
  restart keeps everybody.
* **Objects.** Weights, numbers, lights and seats are kept by hand along every
  move.  Correct: they are what one would count.
* **Affects.** Adding and removing an affect may drop a weapon, which removes
  affects.  Correct: numbers and flags are what list and gear give.
* **Fights.** Pointer and position are set apart, an opponent may leave in the
  middle of a round.  Correct: who fights has an opponent in the game, and so is he.
* **Programs.** A line may run another program, move or free the one that runs
  it.  Correct: a line runs just when all its ifs are true.
* **Learning.** One list, several ways in, written and read back.  Correct: it
  stays in order, nothing spent that was not earned.
* **Areas.** Resets go by counters kept by hand.  Correct: the counters are true,
  both sides of a door agree, what is killed comes back.
* **Building.** One flag tells what is not on file.  Correct: it does.

## 2. Plan

Done, in this order: `Session`, `Presence` and the proofs about them; `Sale`, `Auction`
and theirs; `Followers`, `Restart`, `Objects`, `Affects`, `Fight`, `Programs`, `Areas`,
`Building`, `Learning`, each first with its run; the refinements of `Session` and
`Auction`; then the proofs about `Followers`, `Restart`, `Programs`, `Fight`, `Building`,
`Areas`, `Learning`, `Objects` and `Affects`, on `Sums` and the loops of `Loops`.  Two
components share a module of proofs where one of them is short: `AuctionBuildingProofs`,
`FollowersAffectsProofs`, `RestartProgramsProofs`, `AreasLearningProofs`.

Every safety invariant that a run checks is a theorem, under the hypotheses that
section 5 names.  To model next: the room editor, once it is compiled in; changes of
vnum ranges; what a boot makes of the files `Building` writes (the one hazard that no
property covers, `olc_save.c:383`); the output buffer and the pager.

## 3. The modules

### Session

`Desc` are the `struct descriptor_data`, `Slot` the `struct char_data` that
players are loaded into, `Mob` the mobiles an immortal may switch into.
`valid` is `IS_VALID`, `world` is `char_list`; `conn`, `chr`, `orig`, `pend` and
`snoop` are the fields of a descriptor, `cname`, `cdesc` and `linkdead` those of a
character.  A struct that is freed may be handed out by the next `GetName`, as
`new_char` does, so a pointer kept too long ends at somebody else.

`phase` and `todo` are the loop: a pass (`input`, `output`) serves `todo` and then
the descriptor it had fetched before (`Following`), which is the order of
`process_all_input` (`comm.c:918`).  `PollFree` frees descriptors marked for
deletion and `PollDone` accepts one.  A turn either has no line (`NoLine`), loses
its link (`Drop`), answers the dialogue (one action per state: `Ansi`, `GetName`,
`RightPassword`, `BreakConnect`, `ReadMotd`, ...) or plays (`PlayerLine`: quit, save
and the immortal commands in `Orders`).  The updates are `Tick` (`char_update`:
linkdead mortals are saved on their way to limbo or quit) and `MobDies`.
`Overflow` is `write_to_buffer` closing a descriptor in the middle of anything.

Left out: what is typed, telnet, the contents of buffers, the questions of the
creation menu (one action for the four states), copyover.

`Presence` says what this promises: a player is out of the game or has one body,
driven by at most one link; links come and go without the body changing.

### Auction

`auction` is the tuple of the fields of `currentAuction`; `gold` and `carrier` are
the purses and objects around it, `here` the players who have not been freed, `up`
whether the server lives (before the first sale `do_auction` dereferences a NULL
seller, `auction.c:117`, when it is called with an argument).  Each subcommand is
an action (`Stop`, `Clone`, `Reset`, `Bid`, `Start`), `AuctionUpdate` is
`auction_update`, and players also quit, give gold and objects and purge each other
(the parties of the running sale only where `Purges`); `ObjUpdate` takes objects whose
timer has run out, which may be the one on sale where `Perishes`.  Money is modulo `Word` as in
`unsigned int`, and the charge of a bid is the long `-1 * bid` that
`credit_player_bid` adds (`auction.c:211`, `508`).

`Sale` says what it promises: one lot at a time, which the house keeps until the
hammer, bids that rise, the lot to the last bidder (to its owner if there is none)
and his money to the seller in one step, nobody else's purse touched.  It has the
carrier of every object (`has`) and says as openly what else may become of a lot:
the owner, or any immortal, may withdraw it and gets it, whoever offered it
(`auction.c:125`); copy it; or lose it, with the last bid (`reset`).  In the
refinement the money held back still belongs to the bidder (`Pledged`).

### Followers

`Pc` and `Mob` are structs of players and mobiles, `login` the players that a
dialogue has loaded and that are not on `char_list` (`world`) yet, `placed` those in
a room.  `bonds` holds the pointers master, leader and pet and the charm bit: "spell"
where it comes from the affect of charm person, "bit" where it is set for good on
a pet.  `StopFollower`, `AddFollower`, `DieFollower` and `NukePets` are functions of the
bonds, so that an action is the composition the C code calls: `extract_char` is
`DieFollower(NukePets(x), x)` with `Freed` clearing replies and targets.  `Load` brings
the pet of a player file into the game at once, as `fread_pet` does through
`create_mobile`, while its owner is still in the dialogue.

Left out: rooms, sight, `is_safe`, saving throws (anybody may act on anybody in the
game, which only adds behaviours); PLR_NOFOLLOW; links (they are `Session`'s);
level-one players; mobiles that are charmed by their template, by an object or as
a copy of a charmed one.  Charm person is a spell that death strips, by its flags
in `db/skill_file.txt`.

### Restart

`file` are the player files and `temp` the one temporary file; a command that saves
several players leaves its saves, in order, in `todo`, and `Write`, `Rename` and
`Unlink` work them off.  `Die` may come at any of these: `sig_handler` ends in
`auto_shutdown`, which is empty.  A player is a sheet of a level class, a purse and an
account, in the game (`body`), in a dialogue that has read the file already (`copy`),
or only on file.  `Copyover`, `HandDown`, `Exec` and `Recover` are `copyover.c`, `Reboot`
the forced saves of `do_reboot` and `do_shutdown`.  `Rank` is the trust of the `Staff`:
who may reboot (L5), force all to save (L3), rename (L2) and fry (ML) is decided by it.
The reboot of the tick is no action: `do_reboot(NULL, "")` (`update.c:1458`) returns at
`DENY_NPC`, which lets no NULL pass (`merc.h:1753`).  Frozen players, whom `interpret`
refuses the forced save, and aliases of `save` are left out.

### Objects

`world` says where each object is (`at`: a room, a carrier, a container), what is worn,
and the counters the handlers keep: `weight`, `number`, `light`, `on`.  The functions of
`handler.c` keep their names as operators from worlds to worlds (`obj_to_char`,
`obj_from_obj`, `extract_char`), and each command is their composition, so that the
invariants compare what the counters say with what one would count.  A loop over what
somebody has or a bag holds is `Over` of `Loops`, the fold of what a turn does over a set.
Bags may be put into bags, as deep as there are bags.  `login` are the dialogues of `Lanterns`,
who log in with a lit lamp in hand: `load_char_obj` sets the room before it reads the objects
(`save.c:1174`), so the lamp lights that room in the dialogue (`GetName`) and again when the
player enters it (`ReadMotd`); `HangUp` is a dialogue that ends otherwise.  Prices, drinks,
values and keywords are left out.

### Affects

One player, the record `ch`: the list of affects (`affected`), what is carried and worn,
and the numbers (`mod`) and flags they give.  The functions of `affects.c` are operators
from players to players (`affect_modify`, `affect_check`, `equip_char`, `affect_join`, ...),
their loops `Through` and `Over` of `Loops`.  `Spell` is a table with one row per spell
function, of which each names its source; what a spell asks and does is read off its row
by `Enchanted`.  `affect_modify` calls itself through the weapon that strength no
longer holds (`Dropped`, `Weakened`), once deep, since a dropped weapon is not
dropped again.  `do_quit` and `Login` are `save.c`: the list comes back in reverse, each
item is taken off and put on again as it is read (`fread_obj`), and `reset_char` counts
anew.  The names of skills, of flags and of the bits are the words of the code's tables
(`SkillWord`, `AffectWord`, `ImmunityWord`), as far as the modelled spells use them.
Left out: damage, durations as numbers, saving throws (a choice), gear with
`SPELL_AFFECT`.

### Fight

`game` holds the room, opponent and position of everybody.  A helper of `fight.c`
yields the set of games it may leave, as dice, dodges and saving throws decide.
`Lapse` is the turn `violence_update` gives to one who fights.  At this commit
`one_hit` has no caller and the `damage` of an ordinary blow is commented out
(`fight.c:553`), so that only spells, bashes, magical objects and commands hurt;
the model does the same.  `Tempers` is what a program on `TRIG_KILL` does in the middle
of `damage()`: it takes the mobile elsewhere or, where `Harsh`, hurts or purges who is
there.  The next character that `violence_update` has saved (`fight.c:82`) is not
modelled: a turn is an action of its own.

### Programs

`calls` is the C stack: an activation of `program_flow`, of a trigger that walks the
people of a room, or of a command half done.  An activation keeps `state` and `cond`,
the arrays of `program_flow`, and `blocks`, which is what the author of the text means:
the truth of every if still open.  Texts are not given: each line is a choice.

### Learning

`learned` is the linked list `pcdata->skills` with percents, `Written` the file made of it;
`train`, `practice`, `stat` and `paid` are the sessions in hand and spent.
`add_learned_skill` and `add_learned_group` are translated with the places where they link
an entry in; `Through` (of `Loops`) is a loop over the entries or skills of a list, and `Relog` writes
the list and adds it again entry by entry.  A level brings, and its loss takes, the sessions
that the luck and wisdom of the moment are worth (`TrainsUp` and `PracticesUp` are what they
may be; a loss takes the most, unless `Unlucky`).  The sessions an immortal sets (`set train`,
`set practice`) are left out.

### Areas

`world` holds the ages, the counters (`nplayer`, `empty`, `count`), where bodies and
objects are, and the two sides of each door.  `AreaUpdate` is `area_update` for all areas,
each reset command an operator from a world and the state of the loop to the set of
outcomes.  `Outcomes` of `Loops` is a loop whose turns make choices: over the resets of a
room, the rooms of an area and the areas of the world.  Players walk, kill, take, put and
use doors; mobiles wander.  `Quit` also extracts the character a dialogue has loaded under the
same id (`act_wiz.c:498`), which is in a room of `Twins` by its file only.  Objects are not
cloned.  Its initial states and steps are `AreasInit` and `AreasNext`,
so that one module of proofs can be about it and `Learning`.  `DoorsMatch` and
`ChestsFollow` say how area files are written where nothing in the code checks them; the
instance that TLC checks is built so, which `MCAreas` assumes and TLC evaluates.

### Building

`memory` is what the game has of each part (mobile, object, room, program, area),
`file` what each area's file says of all of them, `changed` the areas with
`AREA_CHANGED`, `editing` the editor of each builder.  One action per editor command
that changes or flags in a way of its own, one per form of `asave`; `Founded` are the areas
there from the start, the others `aedit_create` makes, for a builder of the highest security
(`Sovereign`).  Its initial states
and steps are `BuildingInit` and `BuildingNext`, so that one module of proofs can be
about it and `Auction`.

## 4. The runs

All bounds are in the `.cfg` files and the constants marked "bound" of the modules.
`Interchangeable` is the symmetry over structs and names that no constant and no
operator tells apart; it is not used where liveness or a refinement is checked.
The type invariants are parts of the theorems, or conjuncts of a checked invariant
(`NoCoinTwice`, `Anchored`, `WieldedIsLight`, `Opponents`, `RunsInsideTrueBlocks`,
`SpentIsEarned`, `Counted`).

| run | question | instance | why it is enough |
|---|---|---|---|
| `session_play` | the safety of sessions | 3 descriptors, 3 structs, 2 immortals who disconnect, snoop and switch, 1 mobile | two connections race for one player while a third is his old link or his switched body; three structs let one be freed and reused while two are in use; a snoop loop that needs a rearrangement has two links |
| `session_live` | everybody served, everything closed is freed; `Session` implements `Presence` | 2 descriptors, 2 structs, 2 players, one an immortal who purges | one descriptor is cut while the other waits, takes over or breaks the first |
| `auction_sale` | parties, holdings, rising bids, `Sale`, every sale ends | 3 players, 2 objects, 3 gold, calls every 2 updates | two bidders outbid each other and themselves, the third sells or stops; the second object is the one a clone makes or the next lot |
| `followers_bonds` | the led follow, pets are their owner's, nothing points to the freed, the charmed have a master | 2 players' structs, 1 mobile, 2 names; all commands; players are saved with pets | a bond is between two, and the third is the one who takes over a struct |
| `restart_crash` | no coin twice, no gain lost, a copyover and a reboot keep all, logins bring back what was saved | 2 players, one an implementor, 2 coins each | giver and receiver, and one in a dialogue of a player who is in the game; a coin for the purse and one for the account |
| `objects_carry` | weights, lights, seats, places | a player, an immortal, a mobile; 2 rooms; bag, box, chair, lamp, corpse, four of them at once (`Crowd`) | one object of each kind that a handler treats in its own way, a container that lightens and one that does not, a move between two rooms |
| `affects_gear` | numbers, flags, weapons not too heavy | thirteen spells, at most two at once; a gauntlet, a hammer, a cloak | a flag given by a spell and by an item, strength given by an item and taken by two spells |
| `fight_rounds` | opponents are here | 2 players, one assists the other, a mobile that bashes and flees; 3 rooms, one safe | an attacker, a victim and one who joins in |
| `programs_nesting` | a line runs just when its ifs are true | a player, 2 mobiles, 2 rooms; ifs three deep; 2 programs at a time | a program that is interrupted, and what interrupts it; a false if inside a false if, one inside a true one |
| `building_flags` | what is not flagged is on file | 2 areas, a part of each kind, 2 builders of different security | a part edited from the other area's editor, a builder dismissed by the other |
| `learning_lessons` | the list in order, nothing spent unearned | 3 skills of different levels, one with a spell, a group; 2 levels | an entry before, between and behind others; a level won, lost and won again, at one and two sessions of luck |
| `areas_resets` | counters, doors, containers, guards | 2 areas of a room each, a locked door between, a guard, 2 chests and a key | an area that is reset while the other side of its door is not; a chest carried off |

Ages 3, 15 and 31 of `area_update` are 0, 2 and 3 in `areas_resets`: what counts is their
order and that the middle one can be skipped.  `MAX_NESTED_LEVEL` (12) is 4 and
`MAX_CALL_LEVEL` (10) is 2: both limits are reached.

**Constants that break.**  Where the code breaks a property, the part that does is
switched off by a constant in the passing run; turned on, TLC finds the trace.
The hazards of `PROJECT.json` say at which line.

| module | constant | what the code does | property that fails |
|---|---|---|---|
| `Session` | `Pipelined = TRUE` | `process_all_input` serves a closed descriptor that has a line left (`comm.c:925`) | `NoUseAfterFree` |
| | `FilterAll = {TRUE, FALSE}` | `do_disconnect` reads `filter.all` uninitialised (`act_wiz.c:904`) | `NoUseAfterFree` |
| | `"purge"` with `"switch"` | `do_purge` frees the body a switched immortal left (`act_wiz.c:1988`) | `NoUseAfterFree` |
| `Auction` | `Purges = TRUE` | `do_purge` and `do_fry` free a party of the sale (`act_wiz.c:1990`, `1131`, `3317`) | `PartiesAreHere` |
| | `Perishes = TRUE` | `obj_update` extracts the lot when its timer runs out (`update.c:1290`) | `HeldIsOnSale`, `ImplementsSale` |
| | small `Word` | the least raise wraps (`auction.c:179`) | `BidsRise` |
| `Followers` | a second mobile with `"pet"` | a login given up leaves the pet behind with a freed owner (`comm.c:161`) | `BondsAreHere` |
| | `"charm"` in `Saves` | charm is kept by the file, the master is not (`act_wiz.c:478`) | `CharmedHaveMaster` |
| `Restart` | `Refuses = TRUE` | `do_delete` unlinks although `do_quit` refused (`act_wiz.c:381`) | `GainsAreSaved` |
| | `StaleNames = TRUE` | `do_rename` and `do_fry` leave dialogues of the old name | `NoCoinTwice`, `EntersAsSaved` |
| | `StaleBreaks = TRUE` | a dialogue that breaks saves what it had read (`comm.c:145`) | `GainsAreSaved`, `NoCoinTwice` |
| | `DiskFull = TRUE` | writes are not checked before the rename (`save.c:108`) | `GainsAreSaved` |
| | `"split"` in `Transfers` | `do_split` saves nobody (`act_move.c:844`) | `GainsAreSaved`, `NoCoinTwice` |
| | `"purge"` in `Exits` | `do_purge` leaves dialogues of its victim | `EntersAsSaved`, `NoCoinTwice` |
| | `Rank` below 5 | L5 and L4 may reboot, but not force all to save (`interp.c:252`, `act_wiz.c:2515`); the comment at `act_wiz.c:1449`, that all were saved above, does not hold then | `RebootKeepsAll` |
| | two of one rank in `Staff` | a reboot saves only whom the immortal outranks (`act_wiz.c:2523`) | `RebootKeepsAll` |
| `Objects` | `Nesting = TRUE` or odd weights | `obj_to_obj` and `obj_from_obj` round and multiply differently (`handler.c:1248`) | `CarryExact` |
| | `Rootbound = {}` | a corpse that can be carried spills | `CarryExact` |
| | `AtHome = TRUE` | `at` gives back a seat that has gone (`at.c:132`), which its sitter may then pick up from elsewhere | `SeatsAreHere`, `CarryExact` |
| | a player in `Lanterns` | a lamp counts in the dialogue and again at the entry (`save.c:1174`, `nanny.c:601`) | `LightsCounted` |
| `Fight` | a mobile in `Harsh` | `damage()` goes on with fighters whom a kill program has hurt or purged (`fight.c:944`) | `Opponents` |
| `Affects` | `Deadly = {"poison"}` | `char_update` reads the affect of one it has killed (`update.c:1077`) | `StatsExact` |
| | a weapon with an affect on strength (not `SteadyWeapons`) | a weapon that drops itself in the middle of `equip_char` gives its later affects when it is gone, and their flags stay (`affects.c:157`) | `BitsExact` |
| `Building` | `Unflagged` | flags toggled, the string editor and deleted resets do not flag (`olc.c:411`); an area that is created (`"area"`) is flagged as added, not as changed (`olc_areas.c:76`) | `UnflaggedIsOnFile` |
| | `Inside = TRUE` | parts created from within an editor of another area flag that one | `UnflaggedIsOnFile` |
| | `Fails = {marsh}` | a file that cannot be opened is not heard of | `UnflaggedIsOnFile` |
| | a program not in `First` | `mpedit create` flags nothing | `UnflaggedIsOnFile` |
| `Learning` | `Unlucky = TRUE` | a level lost at low luck and won again at high brings sessions out of nothing (`update.c:105`) | `SpentIsEarned` |
| `Areas` | a room in `Twins` | `do_quit` extracts from a room who never entered it (`act_wiz.c:499`) | `Counted` |
| | an exit whose reverse leads elsewhere, or `'R'` over doors (not `DoorsMatch`) | `reset_room` sets the other side blindly (`db.c:966`) | `DoorsAgree` |
| | an `'O'` of another kind before a `'P'` (not `ChestsFollow`) | `reset_room` fills the newest chest of the kind wherever it is when the reset before did something (`db.c:1094`) | `ResetsStayOut` |

There is no run that expects a violation.  Also seen, and stated by no property:
`do_auction` dereferences the seller of the last sale, and NULL before the first
(`auction.c:117`); `extract_char` clears the wrong targets (`handler.c:1356`);
`is_same_group` is no equivalence (`follower_service.c:51`); every early return of
`program_flow` leaves `call_level` one too high, so that after ten no program runs
(`mob_prog.c:898`); a skill linked behind the head of the list, or behind groups alone,
is lost (`skills.c:1028`); every area's file is written with the objects of the whole
world (`olc_save.c:383`); a second close of a descriptor that is flagged already may clear the
link of a body that has been taken over meanwhile (`comm.c:152`), which `OneDriver` and
`NoUseAfterFree` do not see; a mobile may free itself by its own purge while its program runs
(`mob_cmds.c:617`); a slain player whose corpse would float keeps what he has
(`fight.c:1696`).  `Packs` of `Followers` is the bound for mobiles that help
each other; `Spare` keeps an orphaned pet from taking the last mobile.  `Wealth`
bounds the gold at the start; with it bids are bounded by the money, as in the
code, and by nothing of the model.

Checking for deadlock is off for `Auction`, where the server may crash on the NULL
seller and then does nothing; everywhere else it is on.

**Fairness.**  `Session` assumes `WF_vars(Next)`: `select` polls with a zero timeout and
reads and writes do not block, so the loop always takes its next step; nothing is
assumed of the clients.  `Auction` assumes weak fairness of `AuctionUpdate` only:
`update_handler` calls it in every pulse.  `Areas` assumes weak
fairness of `AreaUpdate`, which `update_handler` calls whenever its pulse has run
down.  The other modules have no liveness property and no fairness.

## 5. The proofs

TLAPS checks the theorems for every value of the constants that satisfies the
module's named assumptions, however many descriptors, players or mobiles.

**Sums** holds what the others share: an induction over the subsets of a finite set (derived
from the library's theorems on well-founded orders), that the recursion behind a fold of the
community modules has a solution, and the laws of a sum: a term changed, two terms changed,
a coin moved, a union, a sum of sums.  On top of it are the lemmas on the loops of `Loops`:
`ThroughStays`, `OverStays` and `OutcomesStay` (a set that each turn keeps the whole loop
keeps), `ThroughArrives`, `OverArrives` and `OutcomesArrive` (where each turn leads from the
set for what has had its turn to the set for that and one more, the loop ends in the last).

**SessionProofs**, for the configurations `Orderly` (no pipelined lines, the filter as
meant, no purges of players): the types and `OneBodyPerName`, `OneLoginPerName`,
`OneDriver`, `LinkPointsBack`, `NoUseAfterFree`, `LinkdeadIsCut`, `NoSnoopLoops`,
`EntersUnderItsName`, and that `Session` implements `Presence`.  Of the invariants only
`NoSnoopLoops` is all but inductive: `do_snoop` walks up from the one who snoops
(`Above`, the least set closed under snooping) and refuses to close a ring, and all else
only takes snoopers away.  The inductive invariant `IInv` adds what the handlers rely on
without saying so: a struct that is not valid is blank in all descriptors, the
players on `char_list` are valid, a dialogue owns its character alone and it is not in
the game, a playing descriptor's body is; and, of the loop, that the descriptor
fetched for the next turn is harmless even when this turn has closed it, since
without a line left its turn does nothing.  One lemma per primitive (`close`,
`free`, takeover, leaving, switching) says what it keeps of `Sound`; one per action
applies them.  `DeadInv` is what `LinkdeadIsCut` needs beyond: the body a switched
immortal has left is not marked, and nobody else plays it.  For the refinement each
action is shown to be a step of `Presence` for one player or to leave all players
as they were.  `Orderly` excludes the purge of players: with `switch` it breaks
`NoUseAfterFree` (see the table), and without, the invariant would have to tell which
links, closed late, may still clear the `desc` of a body that another has taken over.

**AuctionBuildingProofs**, of `Auction`: the types, that the auctioneer holds exactly the item on sale
where no lot wears out (`~Perishes`),
that where the parties of a sale are not purged seller and bidder stay (`PartiesAlwaysHere`: invariant of the
sale together with the two guards in `Quit`), and that a bid rises wherever the
least raise does not wrap (`BidsRiseUntilTheyWrap`).  Where all the gold there is and
the least raise over it fit an unsigned int (`WealthFits`), no sum wraps: `BidsRise`
holds without condition, and where moreover no party is purged and no lot wears out `Auction`
implements `Sale`.  The argument is `SaleInv`: the sum of all purses, the
bid held back counted for its bidder, never grows beyond the gold at the start, so
that no bid, charge or refund comes near `Word`.

**FollowersAffectsProofs**, of `Followers`: the types, `LeaderIsFollowed` and `PetIsKept` without condition;
`BondsAreHere` where no player is saved with a pet and `CharmedHaveMaster` where
none is saved charmed (with a second mobile TLC shows that the first is needed).
The argument is about functions of the bonds: `Right` (who is led by
another follows him; a pet follows, is led by and is charmed for its owner) over
all structs, the freed included, is kept by each function of
`follower_service.c`; these only take bonds away (`Looser`), and `ExtractIsRight` says
that nobody is left with a bond to those who go.  Commands make new bonds only
between those in the game (`Within`).  `IInv` adds that all pets are in the game,
without which a struct could be handed out while an owner still claims it.

**FollowersAffectsProofs**, of `Affects`: `StatsExact`, `BitsExact` and `WieldedIsLight`, for any
gear, race, level and any of the spells, under `SteadyWeapons` (no affect of a weapon is on
strength) and `Deadly = {}` (no affliction kills in `char_update`).
The inductive invariant is `Good`: the number of each location is the sum over list and
gear (`Off` is 0 everywhere), every flag is explained and every binding one set (`Bits`), the
weapon is light, and, beyond the types, at most one weapon is wielded and the affects of the
list are `Proper`: one that sets a flag never strengthens, so that the weapon does not fall
in the middle of putting a flag right.
In the middle of an operation a player is out of step by just what is in hand: `Off` by the
amount of an affect, `Bits(w, X, Y)` with flags `X` that nothing explains any more and flags `Y`
that are still to be set.  `affect_modify` takes a player from one such state to another and
`affect_check` closes the gap; but the weapon may fall in any turn of any loop, and with it the
affects of the weapon.  `Less` says that this is all that may be gone.  That it falls whole needs
that its own affects cannot make it fall while it is put on, hence `SteadyWeapons`; without it
TLC finds a flag of a weapon that is no longer there (the table above).  It also makes strength
the same with the weapon and without, on which `Login` rests.
`ThroughArrives` takes this through the loops over the affects of an item and over those of the
list: the loop in `affect_strip` goes over the list as it was, of which each turn unlinks one.
`RowsAreProper` goes through all rows of `Spell`.  `Login` is the hardest: the file has the
numbers with the gear, so that until all is read strength is what it was when the player quit,
however little of the gear is back; `Bodies(u, list, k)` are the players after `k` items of the
file, of which the flags alone must be right, as `reset_char` counts the numbers in the end.
`Deadly` is empty since a death in `char_update` breaks `StatsExact` (the table above).

**AreasLearningProofs**, of `Areas`: `Counted` where no player quits whom a dialogue has
loaded (`Twins = {}`), for any map, resets, bodies and objects; `DoorsAgree` under `DoorsMatch` and `ResetsStayOut` under `ChestsFollow`.
The invariant is that the world is `Sound`: of its type, the tallies of players, mobiles and
objects true, and, where `DoorsMatch` holds, the two sides of a door (`Twin`) shut and
locked alike.  One lemma per function of the code says that it leads from sound worlds to
sound worlds, those between its two halves included (`char_from_room` before
`char_to_room`, a mobile counted before it has a room); `OutcomesStay` takes them through the
three loops of `area_update`.  `Counted` needs that what is in an extracted object is counted
with it; `DoorsAgree` that `reset_exits`, `open`, `close`, `lock`, `unlock` and `pick` change a
set of doors that has with each its twin (`Even`), and that an `'R'` reset leaves doors where
they are (`Found`).  For `ResetsStayOut` the loop over a room has to remember: after an
`'O'` or a `'P'` that did something the newest chest of the kind is in a room (`Kept`), so that the
next `'P'`, which goes by `last`, does not fill one that is carried.  Without
`ChestsFollow` this is not so: after an `'O'` of something else `last` says nothing of the chest.

Of `Learning`: `ListOrdered`, without condition, and `SpentIsEarned` where no level is lost at
less than the best luck and wisdom (`~Unlucky`), for any skills, groups, classes and races.  `ThroughStays` takes the argument through the loops
over entries and skills.  The set is `Lists(E)`, the lists in order of skills and
groups out of `E`.  `AddSkillFine` has a case for each place where `add_learned_skill` links an entry
in, the one that loses the head included: in a list in order all skills in front of the first
higher one are lower, and behind the last skill there are groups only.
`E` is `Entitled`, which has with a group all its skills (`OwnMay`): this
is why a group read back may bring skills that the file did not have.  `Balanced` weighs
sessions in hand and spent against those that levels have brought; only a purchase
needs the laws of sums.

**AuctionBuildingProofs**, of `Building`: `UnflaggedIsOnFile` for builders who keep to what works
(`Careful`: `Unflagged` empty, `Inside` false, no file fails, programs exist from
the start), for any number of areas, parts, texts and builders.  The invariant `Filed` adds
only the types and that a program which exists has a text; `FlaggedChangeKeeps`
and `SaveKeeps` are the argument, one lemma per editor applies them.

**ObjectsProofs**: `Anchored` and `SeatsAreHere` for any rooms, characters,
objects and depth of bags, where `at` is not used on the room one is in (`~AtHome`), and
`LightsCounted` where, besides, nobody logs in with a lit lamp in hand (`Lanterns = {}`);
`CarryExact` also needs `Exactly`: weights come out even, nobody puts a bag that lightens into
another, corpses cannot be taken.  The number carried does not (`Spec_NumberExact`).  With `AtHome`
TLC breaks `SeatsAreHere`, and through a seat picked up from elsewhere the books of weight; without
the parts of `Exactly` it breaks `CarryExact` (the table above).
The inductive invariant `Fine` has the four and what they rest on: no bag is in itself,
however far in (`Rooted`: every set of objects has one that is in none of them), what is worn is
carried, one lamp at most by the same person.  `Held` says where the objects and characters
are that something is in.
The handlers of `handler.c` work in halves: between `obj_from_char` and `obj_to_room` an object is
nowhere with all that is in it, between `char_from_room` and `char_to_room` a character with all that
he has.  `Good(w, X, Y)` is a world that is fine but for characters `X` and objects `Y` which
are so; one lemma per half says what it makes of them, and one per command puts the halves
together.  Light, seats and numbers change at the place of the move.  Weights are another
matter: taking a thing out of a bag changes what the bag adds to whoever has it, through all bags
around it.  Two inductions over the tree serve this, from an object out to its outermost
container (`OutwardInduction`) and from it in to what it holds; an object counts for `Home`, the
place of the outermost, with its weight times the multiplier of the bag it is in (`Part`),
and what one carries is the sum of these (`Heavy`).  `obj_to_obj` adds, and `obj_from_obj`
takes away, just this sum's change as long as nothing is rounded, and as long as only the
innermost bag's multiplier counts: this is what `Exactly` is for (`Plain`, `Laid`).
`extract_obj`, which frees what is in an object before the object, and the loops of deaths, burning
and decay go by `OverArrives`.

**RestartProgramsProofs**, of `Restart`: the types, and that the temporary file is never but the beginning of
the save that is next, without condition.  Under `Careful` (coins pass by `give`,
players leave by `quit`, no stale dialogue saves or enters), `NoCoinTwice` and
`EntersAsSaved`, whether or not disks fill up and quits are refused; under `Reliable`
(`Careful`, files are written in full and who deletes himself does quit) `GainsAreSaved` and
`CopyoverKeepsAll`; `RebootKeepsAll` where, besides, the staff is one player of L3 at least
(`OneFounder`).  Each hypothesis excludes something with which TLC breaks one of these
properties (the table above).
`NoCoinTwice` is far from inductive: in the middle of a command the coin is in the
receiver's purse while the giver's file has it still.  What is kept is a sum: each player
counts for the larger of what he carries (`body`) and what his file will say when the save
that is next is done (`Filed`), and these maxima (`Most`) and the ground are never more than was minted.
A gift lets the receiver's body grow by what the giver's first save takes away.
The rest of `IInv` makes that true: saves wait for players only as they are or unlink
them, and a dialogue knows its player's file unless he is in the game.  `GInv` says
that a save of one who plays is of him as he is, that gains and those handed down are
saved or about to be; `RInv`, that one player at most is of the highest trust, also by the
files, since `do_force` saves only those whom he who reboots outranks.

**RestartProgramsProofs**, of `Programs`: `RunsInsideTrueBlocks`, without condition, for any texts, mobiles and
depth of calls.  It is not inductive: what `endif` uncovers is the level below, so `Nested` says of
every open level of every activation on the C stack that `cond` there is what the open
blocks up to it amount to.  `state` is not needed for it, and neither is more of the call
level than that it is never below the number of programs under way.  The other half is
that an activation finds its arrays as it left them: what runs above it on the stack,
and who is taken out of the list of people it walks, changes only what is above it.

**FightProofs**: `Opponents`, where no kill program hurts or purges (`Harsh = {}`).  It is inductive as it stands, and the work is in
the loops: `Each` is a fold over a room in an unknown order, whose body may kill, move or
set upon anybody.  `EachFine` proves once that where each turn leads from good games
to good games (or, for those reached after the turns of `s`, to those for `s` and one more),
so does the loop; the induction is over the set and uses `Sums`.  The helpers, from
`stop_fighting` up to `check_assist`, are then taken in the order in which they call
each other: `Turns(g, v)` says that a blow at `v` moves nobody but `v`, which is why a
staff's later targets are still in the room when it comes to them, and `engage` may set
the striker upon a victim whose own program has just moved it.

Only model-checked: the liveness properties (`FlaggedIsFreed`, `EveryoneServed`,
`SalesEnd`, `Repopulated`), since fairness and ENABLED are out of the prover's
reach.

## 6. What is not modelled, and why

* Dice and damage (`combat_roll.c`, `one_hit`): arithmetic of two characters, the
  latter without a caller.
* `note.c`, `channels.c` beyond the reply, `act_info.c`, help, who, bans, most of
  `set.c` and the wiz displays: sequential text handling; the state they change is
  read by nobody else.
* The room editor (`olc_rooms.c`), which does not compile into the game at this
  commit; the line commands of the string editor; changes of vnum ranges:
  `aedit_lvnum` and `aedit_uvnum` can never succeed, `aedit_vnum` only shrinks.
* The class menu of the creation (`nanny.c:402`, commented out), and with it
  `gain_points`; `healer.c`, `act_enter.c`, prices, drinks, terrain, weather and the
  regeneration of numbers.
* `SPELL_AFFECT` gear; memory and hatred of mobiles, which nothing uses; the spell
  targets of dolls, which nothing sets.
* Parsing of area files, telnet options, colours, the pager and output buffers.
* `sysinternals` has tests of its own; tables and lookups are constant.

`PROJECT.json` lists every part with its status and every hazard found.
