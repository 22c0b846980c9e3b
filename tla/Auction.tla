------------------------------ MODULE Auction ------------------------------
(***************************************************************************)
(* The auction (auction.c): one item at a time is held by the auctioneer   *)
(* together with the money of the best bid, both taken from their owners   *)
(* at once, while the players go on trading and leaving and objects wear   *)
(* out.  auction_update runs once a pulse and closes the sale when three   *)
(* calls go by in silence.                                                 *)
(*                                                                         *)
(* Char are struct char_data of players: one who leaves is freed, and the  *)
(* auction keeps its pointers.  Money is unsigned, modulo Word.            *)
(***************************************************************************)
EXTENDS Integers, FiniteSets, Functions

CONSTANTS
  Char,          \* struct char_data of players
  Obj,           \* objects that may be auctioned, those a clone makes included
  Immortals,     \* the characters who are immortals
  MinReserve,    \* auction_type_table[gold].min_reserve (1000)
  MaxReserve,    \* auction_type_table[gold].max_reserve (2000000000)
  AuctionPulse,  \* PULSE_AUCTION, the updates between two calls (60)
  Word,          \* 2^32
  Wealth,        \* bound: the gold everybody has together at the start
  Purges,        \* bound: are the parties of a sale purged, too?
  Perishes,      \* bound: may the timer of the item run out during its sale?
  Nil            \* the NULL pointer

Held == "held"   \* an object the auctioneer holds
Lost == "lost"   \* an object nothing points to any more

ASSUME AuctionConstants ==
  /\ Nil \notin Char \cup Obj /\ Held \notin Char \cup {Nil} /\ Lost # Held
  /\ IsFiniteSet(Char) /\ Immortals \subseteq Char
  /\ MinReserve \in Nat \ {0} /\ MaxReserve \in Nat /\ MinReserve <= MaxReserve
  /\ AuctionPulse \in Nat \ {0}
  /\ Word \in Nat /\ MaxReserve < Word
  /\ Wealth \in 0..(Word - 1)
  /\ Purges \in BOOLEAN /\ Perishes \in BOOLEAN

VARIABLES
  item, seller, buyer, bet, reserve, going, pulse,  \* currentAuction
  gold,     \* ch->gold
  carrier,  \* who carries an object: a character, the auction, or Nil where
            \* it does not exist
  here,     \* the characters in the game (IS_VALID)
  up        \* has the server not crashed?

auction == <<item, seller, buyer, bet, reserve, going, pulse>>
vars    == <<auction, gold, carrier, here, up>>

Uint == 0..(Word - 1)

TypeOK ==
  /\ item \in Obj \cup {Nil} /\ seller \in Char \cup {Nil} /\ buyer \in Char \cup {Nil}
  /\ bet \in Uint /\ reserve \in 0..MaxReserve /\ going \in 0..3 /\ pulse \in 0..AuctionPulse
  /\ gold \in [Char -> Uint]
  /\ carrier \in [Obj -> Char \cup {Held, Lost, Nil}]
  /\ here \subseteq Char /\ up \in BOOLEAN

\* How Wealth may be shared out among the characters.
Shares == {f \in [Char -> 0..Wealth] : SumFunctionOnSet(f, Char) = Wealth}

\* currentAuction is static: all zero.
Init ==
  /\ item = Nil /\ seller = Nil /\ buyer = Nil
  /\ bet = 0 /\ reserve = 0 /\ going = 0 /\ pulse = 0
  /\ gold \in Shares
  /\ carrier \in [Obj -> Char \cup {Nil}]
  /\ here = Char /\ up = TRUE

----------------------------------------------------------------------------
\* Money.

\* credit_player_bid on a purse; a charge comes in as the credit Word - bid,
\* the value -1 * bid has as an unsigned int.
Credited(purse, p, amount) == [purse EXCEPT ![p] = (@ + amount) % Word]

Charge(bid) == (Word - bid) % Word

\* The purses once the best bidder has his money back.
Refunded == IF buyer = Nil THEN gold ELSE Credited(gold, buyer, bet)

----------------------------------------------------------------------------
\* do_auction.

\* The first test of a command with an argument compares the name of ch with
\* seller->name, unless ch is an immortal.
Crash(p) ==
  /\ p \in here \ Immortals /\ seller = Nil
  /\ up' = FALSE
  /\ UNCHANGED <<auction, gold, carrier, here>>

Survives(p) == p \in here /\ (p \in Immortals \/ seller # Nil)

\* ... whom it takes for the owner of the sale: freed memory may hold any name.
Owner(p) == Survives(p) /\ (p \in Immortals \/ p = seller \/ seller \notin here)

\* Mutant of Stop: item is not cleared.
StopKeepsItem(p) ==
  /\ Owner(p) /\ item # Nil
  /\ carrier' = [carrier EXCEPT ![item] = p]
  /\ gold' = Refunded
  /\ UNCHANGED <<auction, here, up>>

Stop(p) ==
  /\ Owner(p) /\ item # Nil
  /\ carrier' = [carrier EXCEPT ![item] = p]
  /\ item' = Nil
  /\ gold' = Refunded
  /\ UNCHANGED <<seller, buyer, bet, reserve, going, pulse, here, up>>

\* object_clone of the item, for the seller as well as for an immortal.
Clone(p) ==
  /\ Owner(p) /\ item # Nil
  /\ \E o \in Obj : carrier[o] = Nil /\ carrier' = [carrier EXCEPT ![o] = p]
  /\ UNCHANGED <<auction, gold, here, up>>

Reset(p) ==
  /\ Owner(p) /\ item # Nil
  /\ item' = Nil
  /\ carrier' = [carrier EXCEPT ![item] = Lost]
  /\ UNCHANGED <<seller, buyer, bet, reserve, going, pulse, gold, here, up>>

\* Mutants of Enough: only the reserve counts; the minimal raise may be zero.
EnoughForReserve(bid) == bid >= reserve

EnoughTenth(bid) == bid >= reserve /\ bid >= (bet \div 10 + bet) % Word

Enough(bid) ==
  LET min == IF bet \div 10 > 1 THEN bet \div 10 ELSE 1
  IN  bid >= reserve /\ bid >= (min + bet) % Word

\* parsebet turns what the bidder types into any unsigned number.
Bid(p, bid) ==
  /\ Survives(p) /\ item # Nil /\ p # seller
  /\ Enough(bid) /\ gold[p] >= bid
  /\ gold' = Credited(Refunded, p, Charge(bid))
  /\ buyer' = p /\ bet' = bid /\ going' = 0 /\ pulse' = AuctionPulse
  /\ UNCHANGED <<item, seller, reserve, carrier, here, up>>

Start(p, o, res) ==
  /\ Survives(p) /\ item = Nil /\ carrier[o] = p
  /\ item' = o /\ carrier' = [carrier EXCEPT ![o] = Held]
  /\ seller' = p /\ buyer' = Nil /\ bet' = 0 /\ reserve' = res
  /\ going' = 0 /\ pulse' = AuctionPulse
  /\ UNCHANGED <<gold, here, up>>

Command(p) ==
  \/ Crash(p) \/ Stop(p) \/ Clone(p) \/ Reset(p)
  \/ \E bid \in 0..gold[p] : Bid(p, bid)
  \/ \E o \in Obj, res \in MinReserve..MaxReserve : Start(p, o, res)

----------------------------------------------------------------------------
\* auction_update.

Silence ==
  /\ item # Nil /\ pulse > 1
  /\ pulse' = pulse - 1
  /\ UNCHANGED <<item, seller, buyer, bet, reserve, going, gold, carrier, here, up>>

Call ==
  /\ item # Nil /\ pulse <= 1 /\ going < 2
  /\ pulse' = AuctionPulse /\ going' = going + 1
  /\ UNCHANGED <<item, seller, buyer, bet, reserve, gold, carrier, here, up>>

\* Mutant of Close: the item goes back to the seller, who has the money, too.
CloseToSeller ==
  /\ item # Nil /\ pulse <= 1 /\ going = 2
  /\ pulse' = AuctionPulse /\ going' = 3 /\ item' = Nil
  /\ carrier' = [carrier EXCEPT ![item] = seller]
  /\ gold' = IF bet > 0 THEN Credited(gold, seller, bet) ELSE gold
  /\ UNCHANGED <<seller, buyer, bet, reserve, here, up>>

\* Sold to the best bidder, or back to the seller.
Close ==
  /\ item # Nil /\ pulse <= 1 /\ going = 2
  /\ pulse' = AuctionPulse /\ going' = 3 /\ item' = Nil
  /\ IF bet > 0
     THEN /\ carrier' = [carrier EXCEPT ![item] = buyer]
          /\ gold' = Credited(gold, seller, bet)
     ELSE /\ carrier' = [carrier EXCEPT ![item] = seller]
          /\ gold' = gold
  /\ UNCHANGED <<seller, buyer, bet, reserve, here, up>>

AuctionUpdate == up /\ (Silence \/ Call \/ Close)

----------------------------------------------------------------------------
\* What the rest of the game does meanwhile.

\* Mutant of IsParticipant: only the seller is looked for.
IsParticipantSeller(p) == item # Nil /\ p = seller

IsParticipant(p) == item # Nil /\ (p = buyer \/ p = seller)

\* extract_char: the character is freed, and so is every object he carries.
Extract(p) ==
  /\ here' = here \ {p}
  /\ carrier' = [o \in Obj |-> IF carrier[o] = p THEN Nil ELSE carrier[o]]

\* do_quit refuses a participant.
Quit(p) ==
  /\ p \in here /\ ~IsParticipant(p)
  /\ Extract(p)
  /\ UNCHANGED <<auction, gold, up>>

\* do_purge asks nothing of the kind, and neither does do_fry.
Purge(p, victim) ==
  /\ p \in here \cap Immortals /\ victim \in here \ {p}
  /\ Purges \/ ~IsParticipant(victim)
  /\ Extract(victim)
  /\ UNCHANGED <<auction, gold, up>>

\* do_give of gold, and of an object.
Give(p, q, amount) ==
  /\ p \in here /\ q \in here /\ gold[p] >= amount
  /\ gold' = [[gold EXCEPT ![p] = @ - amount] EXCEPT ![q] = (@ + amount) % Word]
  /\ UNCHANGED <<auction, carrier, here, up>>

GiveObj(p, q, o) ==
  /\ p \in here /\ q \in here \ {p} /\ carrier[o] = p
  /\ carrier' = [carrier EXCEPT ![o] = q]
  /\ UNCHANGED <<auction, gold, here, up>>

\* obj_update extracts an object whose timer has run out, wherever it is: it
\* does not look whether the auction still points to it.
ObjUpdate(o) ==
  /\ carrier[o] # Nil /\ (Perishes \/ o # item)
  /\ carrier' = [carrier EXCEPT ![o] = Nil]
  /\ UNCHANGED <<auction, gold, here, up>>

Play(p) ==
  \/ Command(p) \/ Quit(p)
  \/ \E q \in Char : Purge(p, q) \/ (\E amount \in 1..gold[p] : Give(p, q, amount))
  \/ \E q \in Char, o \in Obj : GiveObj(p, q, o)

Next ==
  \/ AuctionUpdate
  \/ up /\ (\E p \in Char : Play(p))
  \/ up /\ (\E o \in Obj : ObjUpdate(o))

\* update_handler calls auction_update in every pulse.
Spec == Init /\ [][Next]_vars /\ WF_vars(AuctionUpdate)

----------------------------------------------------------------------------
\* Properties.

\* Who is called a seller or a best bidder is in the game while the sale lasts,
\* and a bid has a bidder: "Wait until the auctioning of %s is over."
\* (act_wiz.c:460) keeps him there.
PartiesAreHere ==
  item # Nil => seller \in here /\ (bet > 0 \/ buyer # Nil => buyer \in here)

\* The object on sale, and no other, is held by the auctioneer.
HeldIsOnSale == \A o \in Obj : carrier[o] = Held <=> item = o

\* A bid tops the one before it: "You must bid at least %u over the current
\* bid" (auction.c:180).
BidsRise == [][item # Nil /\ item' = item /\ bet' # bet => bet' > bet]_vars

\* Every sale comes to an end, however the players bid.
SalesEnd == up /\ item # Nil ~> ~up \/ item = Nil

\* The bid that is held back belongs to the bidder until the hammer falls.
Pledged(p) == IF item # Nil /\ buyer = p THEN bet ELSE 0

Sold == INSTANCE Sale WITH
          People <- Char, Wardens <- Immortals, Things <- Obj, Nobody <- Nil, House <- Held,
          Gone <- Lost, Patience <- 3 * AuctionPulse,
          lot <- item, owner <- IF item = Nil THEN Nil ELSE seller, best <- IF item = Nil THEN 0 ELSE bet,
          lead <- IF item = Nil THEN Nil ELSE buyer,
          quiet <- IF item = Nil THEN 0 ELSE going * AuctionPulse + AuctionPulse - pulse,
          purse <- [p \in Char |-> gold[p] + Pledged(p)], has <- carrier

\* The auction implements Sale: the hammer gives the item to the best bidder and
\* his money to the seller, and nobody's money or object is gained, lost or kept
\* otherwise, but by an immortal or the seller, who stop, clone and reset.
ImplementsSale == Sold!Spec
=============================================================================
