----------------------- MODULE AuctionBuildingProofs -----------------------
(***************************************************************************)
(* Theorems about Auction: the types, who is kept in the game by a sale,   *)
(* what the auctioneer holds, when a bid tops the one before it, and that  *)
(* it all amounts to a Sale.  Then about Building: what asave owes to      *)
(* AREA_CHANGED, for any number of areas, parts and builders, under what   *)
(* the runs assume: that every change of memory goes through a path that   *)
(* raises the flag, and that the files open.                               *)
(***************************************************************************)
EXTENDS Auction, Building, Sums, TLAPS

\* Money.

\* A purse credited is a purse.
LEMMA CreditedType ==
  ASSUME AuctionConstants, NEW purse \in [Char -> Uint], NEW p \in Char, NEW amount \in Nat
  PROVE  Credited(purse, p, amount) \in [Char -> Uint]
<1>1. \A n \in Nat : n % Word \in Uint
  BY SMT DEF AuctionConstants, Uint
<1>2. purse[p] + amount \in Nat
  BY SMT DEF AuctionConstants, Uint
<1> QED
  BY <1>1, <1>2 DEF Credited

\* A refund changes nothing but purses.
LEMMA RefundedType ==
  ASSUME AuctionConstants, TypeOK
  PROVE  Refunded \in [Char -> Uint]
<1>1. bet \in Nat
  BY SMT DEF TypeOK, Uint, AuctionConstants
<1>2. buyer # Nil => buyer \in Char
  BY DEF TypeOK
<1> QED
  BY <1>1, <1>2, CreditedType DEF Refunded, TypeOK

\* The charge of a bid is an unsigned int.
LEMMA ChargeType ==
  ASSUME AuctionConstants, NEW bid \in Uint
  PROVE  Charge(bid) \in Uint
<1>1. Word - bid \in Nat /\ Word \in Nat /\ Word > 0
  BY SMT DEF AuctionConstants, Uint
<1> QED
  BY <1>1, SMT DEF Charge, Uint

\* A bid that passes Enough tops the best one, unless the least raise wraps.
LEMMA EnoughIsMore ==
  ASSUME AuctionConstants, TypeOK, NEW bid \in Uint, Enough(bid),
         (IF bet \div 10 > 1 THEN bet \div 10 ELSE 1) + bet < Word
  PROVE  bid > bet
<1> DEFINE min == IF bet \div 10 > 1 THEN bet \div 10 ELSE 1
<1>1. bet \in Nat /\ bid \in Nat /\ Word \in Nat
  BY SMT DEF TypeOK, Uint, AuctionConstants
<1>2. min \in Nat /\ min >= 1
  BY <1>1, SMT
<1>3. (min + bet) % Word = min + bet
  <2>1. min + bet \in Nat /\ min + bet < Word
    BY <1>1, <1>2
  <2> HIDE DEF min
  <2> QED
    BY <1>1, <2>1, SMT
<1>4. bid >= (min + bet) % Word
  BY DEF Enough
<1> HIDE DEF min
<1> QED
  BY <1>1, <1>2, <1>3, <1>4, SMT
-----------------------------------------------------------------------------
\* The invariant: types, and what the auctioneer holds.

\* While no timer of an item on sale runs out ...
Holding == ~Perishes => HeldIsOnSale

IInv == TypeOK /\ Holding

\* Nothing is held before the first sale.
LEMMA InitKeeps ==
  ASSUME AuctionConstants, Init
  PROVE  IInv
<1>1. gold \in [Char -> Uint]
  <2>1. gold \in [Char -> 0..Wealth]
    BY DEF Init, Shares
  <2>2. 0..Wealth \subseteq Uint
    BY SMT DEF Uint, AuctionConstants
  <2> QED
    BY <2>1, <2>2
<1>2. 0 \in Uint /\ 0 \in 0..MaxReserve /\ 0 \in 0..3 /\ 0 \in 0..AuctionPulse
  BY SMT DEF Uint, AuctionConstants
<1>3. TypeOK
  BY <1>1, <1>2 DEF Init, TypeOK
<1>4. Holding
  BY DEF Init, Holding, HeldIsOnSale, AuctionConstants
<1> QED
  BY <1>3, <1>4 DEF IInv

\* Every command of do_auction keeps the invariant.
LEMMA CommandKeeps ==
  ASSUME AuctionConstants, IInv, NEW p \in Char, Command(p)
  PROVE  IInv'
<1> USE DEF IInv
<1>1. CASE Crash(p)
  BY <1>1 DEF Crash, TypeOK, Holding, HeldIsOnSale, auction, Uint
<1>2. CASE Stop(p)
  <2>1. gold' \in [Char -> Uint]
    BY <1>2, RefundedType DEF Stop
  <2>2. TypeOK'
    BY <1>2, <2>1 DEF Stop, TypeOK, Uint
  <2>3. Holding'
    BY <1>2 DEF Stop, TypeOK, Holding, HeldIsOnSale, AuctionConstants
  <2> QED
    BY <2>2, <2>3
<1>3. CASE Clone(p)
  <2>1. PICK o \in Obj : carrier[o] = Nil /\ carrier' = [carrier EXCEPT ![o] = p]
    BY <1>3 DEF Clone
  <2>2. TypeOK'
    BY <1>3, <2>1 DEF Clone, TypeOK, auction, Uint
  <2>3. Holding'
    BY <1>3, <2>1 DEF Clone, TypeOK, Holding, HeldIsOnSale, auction, AuctionConstants
  <2> QED
    BY <2>2, <2>3
<1>4. CASE Reset(p)
  BY <1>4 DEF Reset, TypeOK, Holding, HeldIsOnSale, AuctionConstants, Uint
<1>5. ASSUME NEW bid \in 0..gold[p], Bid(p, bid)
      PROVE  IInv'
  <2>1. bid \in Uint
    BY SMT DEF TypeOK, Uint, AuctionConstants
  <2>2. gold' \in [Char -> Uint]
    <3>1. Charge(bid) \in Nat
      BY <2>1, ChargeType DEF Uint
    <3> QED
      BY <1>5, <3>1, RefundedType, CreditedType DEF Bid
  <2>3. AuctionPulse \in 0..AuctionPulse /\ 0 \in 0..3
    BY SMT DEF AuctionConstants
  <2>4. TypeOK'
    BY <1>5, <2>1, <2>2, <2>3 DEF Bid, TypeOK, Uint
  <2>5. Holding'
    BY <1>5 DEF Bid, Holding, HeldIsOnSale
  <2> QED
    BY <2>4, <2>5
<1>6. ASSUME NEW o \in Obj, NEW res \in MinReserve..MaxReserve, Start(p, o, res)
      PROVE  IInv'
  <2>1. 0 \in Uint /\ res \in 0..MaxReserve /\ AuctionPulse \in 0..AuctionPulse /\ 0 \in 0..3
    BY SMT DEF AuctionConstants, Uint
  <2>2. TypeOK'
    BY <1>6, <2>1 DEF Start, TypeOK, Uint
  <2>3. Holding'
    BY <1>6 DEF Start, TypeOK, Holding, HeldIsOnSale, AuctionConstants
  <2> QED
    BY <2>2, <2>3
<1> QED
  BY <1>1, <1>2, <1>3, <1>4, <1>5, <1>6 DEF Command

\* So does auction_update.
LEMMA UpdateKeeps ==
  ASSUME AuctionConstants, IInv, AuctionUpdate
  PROVE  IInv'
<1> USE DEF IInv
<1>1. CASE Silence
  <2>1. pulse' \in 0..AuctionPulse
    BY <1>1, SMT DEF Silence, TypeOK, AuctionConstants
  <2> QED
    BY <1>1, <2>1 DEF Silence, TypeOK, Holding, HeldIsOnSale, Uint
<1>2. CASE Call
  <2>1. going' \in 0..3 /\ pulse' \in 0..AuctionPulse
    BY <1>2, SMT DEF Call, TypeOK, AuctionConstants
  <2> QED
    BY <1>2, <2>1 DEF Call, TypeOK, Holding, HeldIsOnSale, Uint
<1>3. CASE Close
  <2>1. going' \in 0..3 /\ pulse' \in 0..AuctionPulse
    BY <1>3, SMT DEF Close, TypeOK, AuctionConstants
  <2>2. bet \in Nat
    BY SMT DEF TypeOK, Uint, AuctionConstants
  <2>3. gold' \in [Char -> Uint] /\ carrier' \in [Obj -> Char \cup {Held, Lost, Nil}]
    <3>1. CASE bet > 0 /\ seller \in Char
      BY <1>3, <2>2, <3>1, CreditedType DEF Close, TypeOK
    <3>2. CASE bet > 0 /\ seller = Nil
      <4>1. gold' = gold
        BY <1>3, <3>2 DEF Close, Credited, TypeOK, AuctionConstants
      <4> QED
        BY <1>3, <3>2, <4>1 DEF Close, TypeOK
    <3>3. CASE ~ (bet > 0)
      BY <1>3, <3>3 DEF Close, TypeOK
    <3> QED
      BY <3>1, <3>2, <3>3 DEF TypeOK
  <2>4. Holding'
    BY <1>3 DEF Close, TypeOK, Holding, HeldIsOnSale, AuctionConstants
  <2> QED
    BY <1>3, <2>1, <2>3, <2>4 DEF Close, TypeOK, Uint
<1> QED
  BY <1>1, <1>2, <1>3 DEF AuctionUpdate

\* So does whatever else the players do.
LEMMA PlayKeeps ==
  ASSUME AuctionConstants, IInv, NEW p \in Char, Play(p)
  PROVE  IInv'
<1> USE DEF IInv
<1>1. CASE Command(p)
  BY <1>1, CommandKeeps
<1>2. ASSUME NEW q \in Char, Extract(q), UNCHANGED <<auction, gold, up>>
      PROVE  IInv'
  <2>1. TypeOK'
    BY <1>2 DEF Extract, TypeOK, auction, Uint
  <2>2. Holding'
    BY <1>2 DEF Extract, TypeOK, Holding, HeldIsOnSale, auction, AuctionConstants
  <2> QED
    BY <2>1, <2>2
<1>3. ASSUME NEW q \in Char, NEW o \in Obj, GiveObj(p, q, o)
      PROVE  IInv'
  <2>1. TypeOK'
    BY <1>3 DEF GiveObj, TypeOK, auction, Uint
  <2>2. Holding'
    BY <1>3 DEF GiveObj, TypeOK, Holding, HeldIsOnSale, auction, AuctionConstants
  <2> QED
    BY <2>1, <2>2
<1>4. ASSUME NEW q \in Char, NEW amount \in 1..gold[p], Give(p, q, amount)
      PROVE  IInv'
  <2> DEFINE left == [gold EXCEPT ![p] = @ - amount]
  <2>1. left \in [Char -> Uint]
    BY SMT DEF TypeOK, Uint, AuctionConstants
  <2>2. gold' = Credited(left, q, amount)
    BY <1>4 DEF Give, Credited
  <2>3. amount \in Nat
    BY SMT DEF TypeOK, Uint, AuctionConstants
  <2>4. gold' \in [Char -> Uint]
    BY <2>1, <2>2, <2>3, CreditedType
  <2> QED
    BY <1>4, <2>4 DEF Give, TypeOK, Holding, HeldIsOnSale, auction, Uint
<1> QED
  BY <1>1, <1>2, <1>3, <1>4 DEF Play, Quit, Purge

\* So does an object that wears out.
LEMMA ObjUpdateKeeps ==
  ASSUME AuctionConstants, IInv, NEW o \in Obj, ObjUpdate(o)
  PROVE  IInv'
<1> USE DEF IInv
<1>1. TypeOK'
  BY DEF ObjUpdate, TypeOK, auction, Uint
<1>2. Holding'
  BY DEF ObjUpdate, TypeOK, Holding, HeldIsOnSale, auction, AuctionConstants
<1> QED
  BY <1>1, <1>2

\* And so does every step.
LEMMA StepKeeps ==
  ASSUME AuctionConstants, IInv, [Next]_vars
  PROVE  IInv'
<1>1. CASE AuctionUpdate
  BY <1>1, UpdateKeeps
<1>2. ASSUME NEW p \in Char, Play(p)
      PROVE  IInv'
  BY <1>2, PlayKeeps
<1>3. CASE UNCHANGED vars
  BY <1>3 DEF vars, auction, IInv, TypeOK, Holding, HeldIsOnSale, Uint
<1>4. ASSUME NEW o \in Obj, ObjUpdate(o)
      PROVE  IInv'
  BY <1>4, ObjUpdateKeeps
<1> QED
  BY <1>1, <1>2, <1>3, <1>4 DEF Next

\* The invariant holds of the whole auction.
THEOREM Invariance ==
  Spec => []IInv
<1>1. Init => IInv
  BY AuctionConstants, InitKeeps
<1>2. IInv /\ [Next]_vars => IInv'
  BY AuctionConstants, StepKeeps
<1> QED
  BY <1>1, <1>2, PTL DEF Spec

\* The fields of currentAuction, the purses and the objects have their types.
THEOREM TypeCorrect ==
  Spec => []TypeOK
<1>1. IInv => TypeOK
  BY DEF IInv
<1> QED
  BY <1>1, Invariance, PTL

\* The auctioneer holds the object on sale and nothing else: do_auction and
\* auction_update never lose track of it but by "auction reset", and whoever
\* leaves takes nothing of his along.  obj_update may, where its timer runs out.
THEOREM HeldOnlyOnSale ==
  ASSUME ~Perishes
  PROVE  Spec => []HeldIsOnSale
<1>1. IInv => HeldIsOnSale
  BY DEF IInv, Holding
<1> QED
  BY <1>1, Invariance, PTL
-----------------------------------------------------------------------------
\* Who takes part in a sale is in the game, if nobody purges him: do_quit asks
\* is_auction_participant.

\* A sale opens with its seller in the game, and a bid is made by somebody who
\* is; neither can leave before the item is off sale.
LEMMA PartiesStay ==
  ASSUME AuctionConstants, ~Purges, IInv, PartiesAreHere, [Next]_vars
  PROVE  PartiesAreHere'
<1> USE DEF IInv
<1>1. ASSUME NEW p \in Char, Command(p)
      PROVE  PartiesAreHere'
  <2>1. CASE Crash(p) \/ Stop(p) \/ Clone(p) \/ Reset(p)
    BY <2>1 DEF Crash, Stop, Clone, Reset, auction, PartiesAreHere
  <2>2. ASSUME NEW bid \in 0..gold[p], Bid(p, bid)
        PROVE  PartiesAreHere'
    BY <2>2 DEF Bid, Survives, PartiesAreHere
  <2>3. ASSUME NEW o \in Obj, NEW res \in MinReserve..MaxReserve, Start(p, o, res)
        PROVE  PartiesAreHere'
    BY <2>3 DEF Start, Survives, PartiesAreHere
  <2> QED
    BY <1>1, <2>1, <2>2, <2>3 DEF Command
<1>2. ASSUME NEW p \in Char, Quit(p)
      PROVE  PartiesAreHere'
  BY <1>2 DEF Quit, Extract, IsParticipant, auction, PartiesAreHere
<1>3. ASSUME NEW p \in Char, NEW q \in Char, NEW amount \in 1..gold[p], Give(p, q, amount)
      PROVE  PartiesAreHere'
  BY <1>3 DEF Give, auction, PartiesAreHere
<1>4. CASE AuctionUpdate
  BY <1>4 DEF AuctionUpdate, Silence, Call, Close, PartiesAreHere
<1>5. ASSUME NEW p \in Char, NEW q \in Char, Purge(p, q)
      PROVE  PartiesAreHere'
  BY <1>5 DEF Purge, Extract, IsParticipant, auction, PartiesAreHere
<1>6. CASE UNCHANGED <<auction, here>>
  BY <1>6 DEF auction, PartiesAreHere
<1> QED
  BY <1>1, <1>2, <1>3, <1>4, <1>5, <1>6 DEF Next, Play, GiveObj, ObjUpdate, vars

\* Nobody who takes part in a sale leaves the game before it ends.
THEOREM PartiesAlwaysHere ==
  ASSUME ~Purges
  PROVE  Spec => []PartiesAreHere
<1>1. Init => PartiesAreHere
  BY DEF Init, PartiesAreHere
<1>2. IInv /\ PartiesAreHere /\ [Next]_vars => PartiesAreHere'
  BY AuctionConstants, PartiesStay
<1> QED
  BY <1>1, <1>2, Invariance, PTL DEF Spec
-----------------------------------------------------------------------------
\* The least raise and the best bid together are still an unsigned int.
RaiseFits == (IF bet \div 10 > 1 THEN bet \div 10 ELSE 1) + bet < Word

\* Where they are, the bid that is accepted is the higher one: the test of
\* auction.c:179 refuses anything below the raise.
THEOREM BidsRiseUntilTheyWrap ==
  Spec => [][RaiseFits /\ item # Nil /\ item' = item /\ bet' # bet => bet' > bet]_vars
<1> DEFINE Rises == RaiseFits /\ item # Nil /\ item' = item /\ bet' # bet => bet' > bet
<1>1. IInv /\ [Next]_vars => [Rises]_vars
  <2> SUFFICES ASSUME IInv, Next, RaiseFits, item # Nil, item' = item, bet' # bet
               PROVE  bet' > bet
    OBVIOUS
  <2>1. PICK p \in Char : \E bid \in 0..gold[p] : Bid(p, bid)
    BY DEF Next, AuctionUpdate, Silence, Call, Close, Play, Command, Crash, Stop, Clone,
           Reset, Start, Quit, Purge, Give, GiveObj, ObjUpdate, auction
  <2>2. PICK bid \in 0..gold[p] : Bid(p, bid)
    BY <2>1
  <2>3. bid \in Uint
    BY AuctionConstants, SMT DEF IInv, TypeOK, Uint, AuctionConstants
  <2>4. bid > bet
    BY <2>2, <2>3, AuctionConstants, EnoughIsMore DEF Bid, IInv, RaiseFits
  <2> QED
    BY <2>2, <2>4 DEF Bid
<1> QED
  BY <1>1, Invariance, PTL DEF Spec
-----------------------------------------------------------------------------
\* What everybody has, with what a bid has pledged: the purses of Sale.
Purses == [p \in Char |-> gold[p] + Pledged(p)]

\* All the gold there is and the least raise over it are an unsigned int.
WealthFits == (IF Wealth \div 10 > 1 THEN Wealth \div 10 ELSE 1) + Wealth < Word

\* The invariant of a sale: a seller and a bidder who are two, a bid that has a
\* bidder, a call to come, and no more gold than there was.
SaleInv ==
  /\ item # Nil =>
       /\ seller \in Char /\ buyer # seller /\ (buyer = Nil <=> bet = 0)
       /\ going \in 0..2 /\ pulse \in 1..AuctionPulse
  /\ SumFunctionOnSet(Purses, Char) <= Wealth

\* An amount below Word is itself, and so it is after one turn.
LEMMA Unwrapped ==
  ASSUME AuctionConstants, NEW n \in Nat, n < Word
  PROVE  n % Word = n /\ (n + Word) % Word = n
<1>1. Word \in Nat /\ Word > 0
  BY SMT DEF AuctionConstants
<1>2. n % Word = n
  BY <1>1, SMT
<1>3. (n + Word) % Word = n
  BY <1>1, SMT
<1> QED
  BY <1>2, <1>3

\* Nobody has more than all, nor have two.
LEMMA PursesBound ==
  ASSUME AuctionConstants, TypeOK, SaleInv
  PROVE  /\ Purses \in [Char -> Nat]
         /\ \A p \in Char : Purses[p] = gold[p] + Pledged(p) /\ Purses[p] <= Wealth
         /\ \A p, q \in Char : p # q => Purses[p] + Purses[q] <= Wealth
<1>1. \A p \in Char : gold[p] \in Nat /\ Pledged(p) \in Nat
  BY SMT DEF TypeOK, Uint, Pledged, AuctionConstants
<1>2. Purses \in [Char -> Nat]
  BY <1>1 DEF Purses
<1>3. IsFiniteSet(Char) /\ Wealth \in Nat
  BY SMT DEF AuctionConstants
<1>4. /\ SumFunctionOnSet(Purses, Char) \in Nat
      /\ \A p \in Char : Purses[p] <= SumFunctionOnSet(Purses, Char)
      /\ \A p, q \in Char : p # q => Purses[p] + Purses[q] <= SumFunctionOnSet(Purses, Char)
  BY <1>2, <1>3, SumBound
<1>5. \A p \in Char : Purses[p] \in Nat /\ Purses[p] = gold[p] + Pledged(p)
  BY <1>2 DEF Purses
<1>6. SumFunctionOnSet(Purses, Char) <= Wealth
  BY DEF SaleInv
<1> HIDE DEF Purses
<1> QED
  BY <1>2, <1>3, <1>4, <1>5, <1>6, SMT

\* A refund gives back the pledge.
LEMMA RefundedIsPurses ==
  ASSUME AuctionConstants, TypeOK, SaleInv, item # Nil
  PROVE  Refunded = Purses
<1>1. /\ gold = [p \in Char |-> gold[p]] /\ \A p \in Char : gold[p] \in Nat
      /\ bet \in Nat /\ Wealth < Word /\ Wealth \in Nat /\ Word \in Nat
  BY SMT DEF TypeOK, Uint, AuctionConstants
<1>2. CASE buyer = Nil
  <2>1. \A p \in Char : Pledged(p) = 0
    BY <1>2 DEF Pledged, AuctionConstants
  <2> QED
    BY <1>1, <1>2, <2>1 DEF Refunded, Purses
<1>3. CASE buyer # Nil
  <2>1. buyer \in Char /\ Pledged(buyer) = bet /\ \A p \in Char \ {buyer} : Pledged(p) = 0
    BY <1>3 DEF TypeOK, Pledged
  <2>2. gold[buyer] + bet <= Wealth
    BY <2>1, PursesBound
  <2>3. gold[buyer] + bet \in Nat /\ gold[buyer] + bet < Word
    BY <1>1, <2>1, <2>2
  <2>4. (gold[buyer] + bet) % Word = gold[buyer] + bet
    BY <2>3, Unwrapped
  <2>5. Refunded = [gold EXCEPT ![buyer] = gold[buyer] + bet]
    BY <1>3, <2>4 DEF Refunded, Credited
  <2> QED
    BY <1>1, <2>1, <2>5 DEF Purses
<1> QED
  BY <1>2, <1>3

\* A bid tops the one before it.
LEMMA BidTops ==
  ASSUME AuctionConstants, WealthFits, TypeOK, SaleInv,
         NEW p \in Char, NEW bid \in 0..gold[p], Bid(p, bid)
  PROVE  bid > bet /\ bid \in Nat
<1>1. bid \in Uint /\ bet \in Nat /\ Wealth \in Nat
  BY SMT DEF TypeOK, Uint, AuctionConstants
<1>2. bet <= Wealth
  <2>1. CASE buyer = Nil
    BY <1>1, <2>1 DEF Bid, SaleInv
  <2>2. CASE buyer # Nil
    <3>1. buyer \in Char /\ Pledged(buyer) = bet /\ gold[buyer] \in Nat
      BY <2>2, SMT DEF TypeOK, Pledged, Bid, Uint, AuctionConstants
    <3>2. gold[buyer] + bet <= Wealth
      BY <3>1, PursesBound
    <3> QED
      BY <1>1, <3>1, <3>2
  <2> QED
    BY <2>1, <2>2
<1>3. bet \div 10 <= Wealth \div 10 /\ bet \div 10 \in Nat /\ Wealth \div 10 \in Nat
  BY <1>1, <1>2, SMT
<1>4. (IF bet \div 10 > 1 THEN bet \div 10 ELSE 1) + bet < Word
  BY <1>1, <1>2, <1>3, SMT DEF WealthFits, AuctionConstants
<1>5. Enough(bid)
  BY DEF Bid
<1> QED
  BY <1>1, <1>4, <1>5, EnoughIsMore, SMT DEF Uint

\* The types the steps below need.
LEMMA SaleTypes ==
  ASSUME AuctionConstants, TypeOK
  PROVE  /\ gold = [p \in Char |-> gold[p]] /\ \A p \in Char : gold[p] \in Nat
         /\ bet \in Nat /\ going \in Nat /\ pulse \in Nat
         /\ Wealth < Word /\ Wealth \in Nat /\ Word \in Nat /\ AuctionPulse \in Nat \ {0}
BY SMT DEF TypeOK, Uint, AuctionConstants

\* A bid pledges what it takes, and gives back the pledge it tops.
LEMMA BidPurses ==
  ASSUME AuctionConstants, WealthFits, TypeOK, SaleInv,
         NEW p \in Char, NEW bid \in 0..gold[p], Bid(p, bid)
  PROVE  Purses' = Purses
<1>1. bid > bet /\ bid \in Nat /\ bet \in Nat
  BY BidTops, SaleTypes
<1>2. Purses \in [Char -> Nat] /\ Purses[p] = gold[p] + Pledged(p) /\ Purses[p] <= Wealth
  BY PursesBound
<1>3. Purses[p] \in Nat /\ bid <= Purses[p] /\ Purses[p] < Word
  <2>1. gold[p] \in Nat /\ Pledged(p) \in Nat /\ Wealth < Word /\ Wealth \in Nat /\ Word \in Nat
    BY <1>1, SaleTypes DEF Pledged
  <2>2. bid <= gold[p]
    BY <2>1
  <2> QED
    BY <1>1, <1>2, <2>1, <2>2
<1>4. Charge(bid) = Word - bid
  <2>1. Word \in Nat /\ Word - bid \in Nat /\ Word - bid < Word
    BY <1>1, <1>3, SaleTypes
  <2> QED
    BY <2>1, Unwrapped DEF Charge
<1>5. (Purses[p] + Charge(bid)) % Word = Purses[p] - bid
  <2>1. Purses[p] - bid \in Nat /\ Purses[p] - bid < Word /\ Word \in Nat
    BY <1>1, <1>3, SaleTypes
  <2>2. ((Purses[p] - bid) + Word) % Word = Purses[p] - bid
    BY <2>1, Unwrapped
  <2>3. Purses[p] + Charge(bid) = (Purses[p] - bid) + Word
    BY <1>1, <1>3, <1>4, <2>1
  <2> QED
    BY <2>2, <2>3
<1>6. gold' = [Purses EXCEPT ![p] = Purses[p] - bid]
  BY <1>5, RefundedIsPurses DEF Bid, Credited
<1>7. \A q \in Char : Pledged(q)' = IF q = p THEN bid ELSE 0
  BY DEF Bid, Pledged
<1>8. \A q \in Char : gold'[q] + Pledged(q)' = Purses[q]
  BY <1>1, <1>2, <1>3, <1>6, <1>7
<1>9. Purses' = [q \in Char |-> gold'[q] + Pledged(q)']
  BY DEF Purses
<1> QED
  BY <1>2, <1>8, <1>9

\* "auction stop" gives back what is pledged.
LEMMA StopPurses ==
  ASSUME AuctionConstants, TypeOK, SaleInv, NEW p \in Char, Stop(p)
  PROVE  Purses' = Purses
<1>1. gold' = Purses /\ \A q \in Char : Pledged(q)' = 0
  BY RefundedIsPurses DEF Stop, Pledged
<1>2. Purses \in [Char -> Nat]
  BY PursesBound
<1>3. Purses' = [q \in Char |-> gold'[q] + Pledged(q)']
  BY DEF Purses
<1>4. \A q \in Char : gold'[q] + Pledged(q)' = Purses[q]
  BY <1>1, <1>2
<1> QED
  BY <1>2, <1>3, <1>4

\* "auction reset" does not.
LEMMA ResetPurses ==
  ASSUME AuctionConstants, TypeOK, SaleInv, NEW p \in Char, Reset(p)
  PROVE  Purses' = IF buyer = Nil THEN Purses ELSE [Purses EXCEPT ![buyer] = @ - bet]
<1> USE SaleTypes
<1> DEFINE left == [q \in Char |-> IF q = buyer THEN Purses[q] - bet ELSE Purses[q]]
<1>1. Purses \in [Char -> Nat] /\ \A q \in Char : Purses[q] = gold[q] + Pledged(q)
  BY PursesBound
<1>2. \A q \in Char : gold'[q] = gold[q] /\ Pledged(q)' = 0 /\ Pledged(q) = IF q = buyer THEN bet ELSE 0
  BY DEF Reset, Pledged
<1>3. Purses' = [q \in Char |-> gold'[q] + Pledged(q)']
  BY DEF Purses
<1>4. \A q \in Char : gold'[q] + Pledged(q)' = left[q]
  BY <1>1, <1>2
<1>5. Purses' = left
  BY <1>3, <1>4
<1>6. left = IF buyer = Nil THEN Purses ELSE [Purses EXCEPT ![buyer] = @ - bet]
  BY <1>1 DEF AuctionConstants
<1> QED
  BY <1>5, <1>6

\* A sale opens without a pledge.
LEMMA StartPurses ==
  ASSUME AuctionConstants, TypeOK,
         NEW p \in Char, NEW o \in Obj, NEW res \in MinReserve..MaxReserve, Start(p, o, res)
  PROVE  Purses' = Purses
<1>1. gold' = gold /\ \A q \in Char : Pledged(q)' = 0 /\ Pledged(q) = 0
  BY DEF Start, Pledged, AuctionConstants
<1> QED
  BY <1>1 DEF Purses

\* The hammer pays the seller what the bidder has pledged.
LEMMA ClosePurses ==
  ASSUME AuctionConstants, TypeOK, SaleInv, Close
  PROVE  Purses' = IF buyer = Nil THEN Purses
                   ELSE [Purses EXCEPT ![buyer] = @ - bet, ![seller] = @ + bet]
<1> USE SaleTypes
<1>1. \A p \in Char : Pledged(p)' = 0
  BY DEF Close, Pledged
<1>2. Purses \in [Char -> Nat] /\ \A p \in Char : Purses[p] = gold[p] + Pledged(p)
  BY PursesBound
<1>3. gold' \in [Char -> Nat] => Purses' = gold'
  <2>1. Purses' = [p \in Char |-> gold'[p] + Pledged(p)']
    BY DEF Purses
  <2>2. gold' \in [Char -> Nat] => \A p \in Char : gold'[p] + Pledged(p)' = gold'[p]
    BY <1>1
  <2> QED
    BY <2>1, <2>2
<1>4. CASE buyer = Nil
  <2>1. bet = 0 /\ gold' = gold /\ \A p \in Char : Pledged(p) = 0
    BY <1>4 DEF Close, SaleInv, Pledged, AuctionConstants
  <2> QED
    BY <1>2, <1>3, <1>4, <2>1
<1>5. CASE buyer # Nil
  <2>1. /\ buyer \in Char /\ seller \in Char /\ buyer # seller /\ bet > 0
        /\ Pledged(buyer) = bet /\ \A p \in Char \ {buyer} : Pledged(p) = 0
    BY <1>5 DEF Close, SaleInv, TypeOK, Pledged
  <2>2. gold[seller] + bet <= Wealth
    <3>1. Purses[buyer] + Purses[seller] <= Wealth
      BY <2>1, PursesBound
    <3> QED
      BY <1>2, <2>1, <3>1
  <2>3. (gold[seller] + bet) % Word = gold[seller] + bet
    <3>1. gold[seller] + bet \in Nat /\ gold[seller] + bet < Word
      BY <2>1, <2>2
    <3> QED
      BY <3>1, Unwrapped
  <2>4. gold' = [gold EXCEPT ![seller] = gold[seller] + bet]
    BY <2>1, <2>3 DEF Close, Credited
  <2>5. gold' = [Purses EXCEPT ![buyer] = @ - bet, ![seller] = @ + bet]
    <3> DEFINE paid == [Purses EXCEPT ![buyer] = Purses[buyer] - bet, ![seller] = Purses[seller] + bet]
    <3>1. \A p \in Char : gold'[p] = IF p = seller THEN gold[p] + bet ELSE gold[p]
      BY <2>1, <2>4
    <3>2. \A p \in Char : paid[p] = IF p = seller THEN Purses[p] + bet
                                    ELSE IF p = buyer THEN Purses[p] - bet ELSE Purses[p]
      BY <1>2, <2>1
    <3>3. \A p \in Char : paid[p] = gold'[p]
      BY <1>2, <2>1, <3>1, <3>2
    <3>4. paid = [p \in Char |-> paid[p]] /\ gold' = [p \in Char |-> gold'[p]]
      BY <1>2, <2>1, <2>4
    <3>5. paid = gold'
      <4> HIDE DEF paid
      <4> QED
        BY <3>3, <3>4
    <3>6. paid = [Purses EXCEPT ![buyer] = @ - bet, ![seller] = @ + bet]
      BY <1>2, <2>1
    <3> QED
      BY <3>5, <3>6
  <2>6. gold' \in [Char -> Nat]
    BY <2>1, <2>4
  <2> QED
    BY <1>3, <1>5, <2>5, <2>6
<1> QED
  BY <1>4, <1>5

\* Gold that changes hands is what nobody has pledged.
LEMMA GivePurses ==
  ASSUME AuctionConstants, TypeOK, SaleInv,
         NEW p \in Char, NEW q \in Char, NEW amount \in 1..gold[p], Give(p, q, amount)
  PROVE  Purses' = IF p = q THEN Purses ELSE [Purses EXCEPT ![p] = @ - amount, ![q] = @ + amount]
<1> USE SaleTypes
<1>1. amount \in Nat /\ amount <= gold[p] /\ gold[p] \in Nat /\ gold[q] \in Nat
  OBVIOUS
<1>2. /\ Purses \in [Char -> Nat] /\ \A r \in Char : Purses[r] = gold[r] + Pledged(r)
      /\ \A r \in Char : Pledged(r) \in Nat
  BY PursesBound DEF Pledged
<1>3. \A r \in Char : Pledged(r)' = Pledged(r)
  BY DEF Give, auction, Pledged
<1>4. Purses' = [r \in Char |-> gold'[r] + Pledged(r)]
  <2>1. Purses' = [r \in Char |-> gold'[r] + Pledged(r)']
    BY DEF Purses
  <2> QED
    BY <1>3, <2>1
<1>5. CASE p = q
  <2>1. gold[p] < Word
    BY <1>2, PursesBound
  <2>2. gold[p] % Word = gold[p] /\ gold[p] - amount + amount = gold[p]
    BY <1>1, <2>1, Unwrapped
  <2>3. gold' = [gold EXCEPT ![p] = gold[p]]
    BY <1>1, <1>5, <2>2 DEF Give
  <2> QED
    BY <1>2, <1>4, <1>5, <2>3
<1>6. CASE p # q
  <2>1. gold[q] + amount <= Wealth
    <3>1. Purses[p] + Purses[q] <= Wealth
      BY <1>6, PursesBound
    <3> QED
      BY <1>1, <1>2, <3>1
  <2>2. (gold[q] + amount) % Word = gold[q] + amount
    <3>1. gold[q] + amount \in Nat /\ gold[q] + amount < Word
      BY <1>1, <2>1
    <3> QED
      BY <3>1, Unwrapped
  <2>3. gold' = [gold EXCEPT ![p] = gold[p] - amount, ![q] = gold[q] + amount]
    BY <1>1, <1>6, <2>2 DEF Give
  <2> DEFINE paid == [Purses EXCEPT ![p] = Purses[p] - amount, ![q] = Purses[q] + amount]
  <2>4. \A r \in Char : gold'[r] = IF r = q THEN gold[r] + amount
                                   ELSE IF r = p THEN gold[r] - amount ELSE gold[r]
    BY <1>6, <2>3
  <2>5. \A r \in Char : paid[r] = IF r = q THEN Purses[r] + amount
                                  ELSE IF r = p THEN Purses[r] - amount ELSE Purses[r]
    BY <1>2, <1>6
  <2>6. \A r \in Char : paid[r] = gold'[r] + Pledged(r)
    BY <1>1, <1>2, <2>4, <2>5
  <2>7. paid = [r \in Char |-> paid[r]]
    BY <1>2
  <2>8. paid = Purses'
    <3> HIDE DEF paid
    <3> QED
      BY <1>4, <2>6, <2>7
  <2>9. paid = [Purses EXCEPT ![p] = @ - amount, ![q] = @ + amount]
    BY <1>2, <1>6
  <2> QED
    BY <1>6, <2>8, <2>9
<1> QED
  BY <1>5, <1>6
-----------------------------------------------------------------------------
\* Each step is one of Sale, or leaves everything Sale speaks of alone.

\* The updates since the last bid, as Sale counts them.
Quiet == IF item = Nil THEN 0 ELSE going * AuctionPulse + AuctionPulse - pulse

\* A silent pulse and a call each count one more; the hammer falls at the last.
LEMMA QuietCounts ==
  ASSUME AuctionConstants, TypeOK, SaleInv, item # Nil
  PROVE  /\ Silence \/ Call => Quiet < 3 * AuctionPulse - 1 /\ Quiet' = Quiet + 1
         /\ Close => Quiet = 3 * AuctionPulse - 1
<1>1. going \in {0, 1, 2} /\ pulse \in 1..AuctionPulse /\ AuctionPulse \in Nat \ {0}
  BY SMT DEF SaleInv, AuctionConstants
<1>2. ASSUME Silence
      PROVE  Quiet < 3 * AuctionPulse - 1 /\ Quiet' = Quiet + 1
  BY <1>1, <1>2 DEF Silence, Quiet
<1>3. ASSUME Call
      PROVE  Quiet < 3 * AuctionPulse - 1 /\ Quiet' = Quiet + 1
  BY <1>1, <1>3 DEF Call, Quiet
<1>4. ASSUME Close
      PROVE  Quiet = 3 * AuctionPulse - 1
  BY <1>1, <1>4 DEF Close, Quiet
<1> QED
  BY <1>2, <1>3, <1>4

\* What Sale sees of the auction.
Offered == <<item, IF item = Nil THEN Nil ELSE seller, IF item = Nil THEN 0 ELSE bet,
             IF item = Nil THEN Nil ELSE buyer, Quiet>>
Seen == <<Offered, Purses, carrier>>

\* Who stops, clones or resets is the seller or an immortal, for the seller is
\* in the game and cannot be mistaken.
LEMMA OwnerIsEntitled ==
  ASSUME PartiesAreHere, item # Nil, NEW p \in Char, Owner(p)
  PROVE  Sold!Entitled(p)
BY DEF PartiesAreHere, Owner, Sold!Entitled

\* The commands: a sale is opened, withdrawn, bid on, copied or lost.
LEMMA CommandImplements ==
  ASSUME AuctionConstants, WealthFits, TypeOK, SaleInv, PartiesAreHere,
         NEW p \in Char, Command(p)
  PROVE  Sold!Next \/ UNCHANGED Seen
<1>1. CASE Crash(p)
  <2>1. UNCHANGED <<auction, gold, carrier>>
    BY <1>1 DEF Crash
  <2> QED
    BY <2>1 DEF auction, Seen, Offered, Quiet, Purses, Pledged
<1>2. CASE Stop(p)
  <2>1. Purses' = Purses
    BY <1>2, StopPurses
  <2>2. Sold!Entitled(p)
    BY <1>2, OwnerIsEntitled DEF Stop
  <2>3. Sold!Withdraw(p)
    BY <1>2, <2>1, <2>2 DEF Stop, Sold!Withdraw, Sold!Closed, Purses
  <2> QED
    BY <2>3 DEF Sold!Next
<1>6. CASE Clone(p)
  <2>1. Sold!Entitled(p)
    BY <1>6, OwnerIsEntitled DEF Clone
  <2>2. UNCHANGED Offered /\ Purses' = Purses
    BY <1>6 DEF Clone, auction, Offered, Quiet, Purses, Pledged
  <2>3. PICK o \in Obj : carrier[o] = Nil /\ carrier' = [carrier EXCEPT ![o] = p]
    BY <1>6 DEF Clone
  <2>4. Sold!Copy(p, o)
    BY <2>1, <2>2, <2>3 DEF Sold!Copy, Sold!offer, Offered, Quiet, Purses
  <2> QED
    BY <2>4 DEF Sold!Next
<1>3. CASE Reset(p)
  <2>1. Purses' = IF buyer = Nil THEN Purses ELSE [Purses EXCEPT ![buyer] = @ - bet]
    BY <1>3, ResetPurses
  <2>2. Sold!Entitled(p)
    BY <1>3, OwnerIsEntitled DEF Reset
  <2>3. Sold!Lose(p)
    BY <1>3, <2>1, <2>2 DEF Reset, Sold!Lose, Sold!Closed, Purses
  <2> QED
    BY <2>3 DEF Sold!Next
<1>4. ASSUME NEW bid \in 0..gold[p], Bid(p, bid)
      PROVE  Sold!Next
  <2>1. bid > bet /\ bid <= Purses[p]
    <3>1. bid > bet /\ bid \in Nat
      BY <1>4, BidTops
    <3>2. Purses[p] = gold[p] + Pledged(p) /\ gold[p] \in Nat /\ Pledged(p) \in Nat /\ bid <= gold[p]
      BY <3>1, PursesBound, SaleTypes DEF Pledged
    <3> QED
      BY <3>1, <3>2
  <2>2. Purses' = Purses
    BY <1>4, BidPurses
  <2>3. Quiet' = 0
    BY <1>4 DEF Bid, Quiet, AuctionConstants
  <2>4. Sold!Bid(p)
    BY <1>4, <2>1, <2>2, <2>3 DEF Bid, Sold!Bid, Purses, Quiet
  <2> QED
    BY <2>4 DEF Sold!Next
<1>5. ASSUME NEW o \in Obj, NEW res \in MinReserve..MaxReserve, Start(p, o, res)
      PROVE  Sold!Next
  <2>1. Purses' = Purses
    BY <1>5, StartPurses
  <2>2. Quiet' = 0
    BY <1>5 DEF Start, Quiet, AuctionConstants
  <2>3. Sold!Offer(p, o)
    BY <1>5, <2>1, <2>2 DEF Start, Sold!Offer, Purses, Quiet, AuctionConstants
  <2> QED
    BY <2>3 DEF Sold!Next
<1> QED
  BY <1>1, <1>2, <1>3, <1>4, <1>5, <1>6 DEF Command

\* The auctioneer: he waits or lets the hammer fall.
LEMMA UpdateImplements ==
  ASSUME AuctionConstants, TypeOK, SaleInv, AuctionUpdate
  PROVE  Sold!Next
<1>1. CASE Silence \/ Call
  <2>1. item # Nil /\ UNCHANGED <<item, seller, buyer, bet, gold, carrier>>
    BY <1>1 DEF Silence, Call
  <2>2. Purses' = Purses
    BY <2>1 DEF Purses, Pledged
  <2>3. Quiet < 3 * AuctionPulse - 1 /\ Quiet' = Quiet + 1
    BY <1>1, <2>1, QuietCounts
  <2>4. Sold!Wait
    BY <2>1, <2>2, <2>3 DEF Sold!Wait, Purses, Quiet
  <2> QED
    BY <2>4 DEF Sold!Next
<1>2. CASE Close
  <2>1. Purses' = IF buyer = Nil THEN Purses
                  ELSE [Purses EXCEPT ![buyer] = @ - bet, ![seller] = @ + bet]
    BY <1>2, ClosePurses
  <2>2. Quiet = 3 * AuctionPulse - 1 /\ item # Nil /\ item' = Nil
    BY <1>2, QuietCounts DEF Close
  <2>3. carrier' = [carrier EXCEPT ![item] = IF buyer = Nil THEN seller ELSE buyer]
    <3>1. bet > 0 <=> buyer # Nil
      BY <2>2, SaleTypes DEF SaleInv
    <3> QED
      BY <1>2, <3>1 DEF Close
  <2>4. CASE buyer = Nil
    <3>1. Sold!Closed(seller)
      BY <1>2, <2>2, <2>3, <2>4 DEF Sold!Closed, Close, Quiet
    <3>2. Sold!Hammer
      BY <2>1, <2>2, <2>4, <3>1 DEF Sold!Hammer, Purses, Quiet
    <3> QED
      BY <3>2 DEF Sold!Next
  <2>5. CASE buyer # Nil
    <3>1. Sold!Closed(buyer)
      BY <1>2, <2>2, <2>3, <2>5 DEF Sold!Closed, Close, Quiet
    <3>2. Sold!Hammer
      BY <1>2, <2>1, <2>2, <2>5, <3>1 DEF Sold!Hammer, Purses, Quiet, Close
    <3> QED
      BY <3>2 DEF Sold!Next
  <2> QED
    BY <2>4, <2>5
<1> QED
  BY <1>1, <1>2 DEF AuctionUpdate

\* What ceases to exist beside the item is no matter of the auction.
LEMMA PerishImplements ==
  ASSUME NEW gone \in SUBSET Obj, item \notin gone, UNCHANGED <<auction, gold>>,
         carrier' = [o \in Obj |-> IF o \in gone THEN Nil ELSE carrier[o]]
  PROVE  Sold!Next
<1>1. UNCHANGED Offered /\ Purses' = Purses
  BY DEF auction, Offered, Quiet, Purses, Pledged
<1>2. Sold!Perish(gone)
  BY <1>1 DEF Sold!Perish, Sold!offer, Offered, Quiet, Purses
<1> QED
  BY <1>2 DEF Sold!Next

\* Players who go on with their lives pay each other, hand each other things
\* and take theirs with them, and nothing more.
LEMMA PlayImplements ==
  ASSUME AuctionConstants, WealthFits, TypeOK, SaleInv, PartiesAreHere, HeldIsOnSale,
         NEW p \in Char, Play(p)
  PROVE  Sold!Next \/ UNCHANGED Seen
<1>1. CASE Command(p)
  BY <1>1, CommandImplements
<1>2. ASSUME NEW q \in Char, Extract(q), UNCHANGED <<auction, gold>>
      PROVE  Sold!Next
  <2> DEFINE gone == {o \in Obj : carrier[o] = q}
  <2>1. item \notin gone
    BY DEF HeldIsOnSale, AuctionConstants
  <2>2. carrier' = [o \in Obj |-> IF o \in gone THEN Nil ELSE carrier[o]]
    BY <1>2 DEF Extract
  <2> QED
    BY <1>2, <2>1, <2>2, PerishImplements
<1>4. ASSUME NEW q \in Char, NEW o \in Obj, GiveObj(p, q, o)
      PROVE  Sold!Next
  <2>1. UNCHANGED Offered /\ Purses' = Purses
    BY <1>4 DEF GiveObj, auction, Offered, Quiet, Purses, Pledged
  <2>2. Sold!Hand(p, q, o)
    BY <1>4, <2>1 DEF GiveObj, Sold!Hand, Sold!offer, Offered, Quiet, Purses
  <2> QED
    BY <2>2 DEF Sold!Next
<1>3. ASSUME NEW q \in Char, NEW amount \in 1..gold[p], Give(p, q, amount)
      PROVE  Sold!Next
  <2>1. Purses' = IF p = q THEN Purses ELSE [Purses EXCEPT ![p] = @ - amount, ![q] = @ + amount]
    BY <1>3, GivePurses
  <2>2. UNCHANGED <<item, seller, buyer, bet, Quiet>>
    BY <1>3 DEF Give, auction, Quiet
  <2>3. /\ Purses[p] - (IF (IF item = Nil THEN Nil ELSE buyer) = p
                        THEN (IF item = Nil THEN 0 ELSE bet) ELSE 0) >= amount
        /\ amount \in 1..Purses[p]
    <3>1. Purses[p] = gold[p] + Pledged(p) /\ gold[p] \in Nat /\ bet \in Nat
      BY PursesBound, SaleTypes
    <3>2. amount \in Nat /\ 1 <= amount /\ amount <= gold[p]
      BY <3>1
    <3>3. Pledged(p) \in Nat
      BY <3>1 DEF Pledged
    <3>4. (IF (IF item = Nil THEN Nil ELSE buyer) = p
           THEN (IF item = Nil THEN 0 ELSE bet) ELSE 0) = Pledged(p)
      BY DEF Pledged, AuctionConstants
    <3> QED
      BY <3>1, <3>2, <3>3, <3>4
  <2>4. Sold!Pay(p, q, amount)
    BY <1>3, <2>1, <2>2, <2>3 DEF Sold!Pay, Sold!offer, Give, Purses, Quiet
  <2>5. \E a \in 1..Purses[p] : Sold!Pay(p, q, a)
    BY <2>3, <2>4
  <2> QED
    BY <2>5 DEF Sold!Next, Purses
<1> QED
  BY <1>1, <1>2, <1>3, <1>4 DEF Play, Quit, Purge

\* So every step of the auction is one of Sale or none.
LEMMA StepImplements ==
  ASSUME AuctionConstants, WealthFits, ~Perishes, TypeOK, SaleInv, PartiesAreHere, HeldIsOnSale,
         [Next]_vars
  PROVE  Sold!Next \/ UNCHANGED Seen
<1>1. CASE AuctionUpdate
  BY <1>1, UpdateImplements
<1>2. ASSUME NEW p \in Char, Play(p)
      PROVE  Sold!Next \/ UNCHANGED Seen
  BY <1>2, PlayImplements
<1>3. CASE UNCHANGED vars
  BY <1>3 DEF vars, auction, Seen, Offered, Quiet, Purses, Pledged
<1>4. ASSUME NEW o \in Obj, ObjUpdate(o)
      PROVE  Sold!Next
  <2>1. /\ UNCHANGED <<auction, gold>> /\ item \notin {o}
        /\ carrier' = [x \in Obj |-> IF x \in {o} THEN Nil ELSE carrier[x]]
    BY <1>4 DEF ObjUpdate, TypeOK
  <2> QED
    BY <2>1, PerishImplements
<1> QED
  BY <1>1, <1>2, <1>3, <1>4 DEF Next

-----------------------------------------------------------------------------
\* The invariant of a sale is one.

\* Gold that moves from one purse to another, or is lost, makes nobody richer
\* than all were together.
LEMMA SumKept ==
  ASSUME AuctionConstants, TypeOK, SaleInv, NEW p \in Char, NEW q \in Char, p # q,
         NEW amount \in Nat,
         \/ Purses' = Purses
         \/ Purses' = [Purses EXCEPT ![p] = @ - amount, ![q] = @ + amount]
         \/ Purses' = [Purses EXCEPT ![p] = @ - amount]
  PROVE  SumFunctionOnSet(Purses', Char) <= Wealth
<1>1. Purses \in [Char -> Int] /\ Purses[p] \in Nat /\ Purses[q] \in Nat
  BY PursesBound
<1>2. IsFiniteSet(Char) /\ Wealth \in Nat
  BY SaleTypes DEF AuctionConstants
<1>3. SumFunctionOnSet(Purses, Char) \in Int /\ SumFunctionOnSet(Purses, Char) <= Wealth
  BY <1>1, <1>2, SumType DEF SaleInv
<1>4. /\ Purses' \in [Char -> Int] /\ \A r \in Char \ {p, q} : Purses'[r] = Purses[r]
      /\ Purses'[p] + Purses'[q] <= Purses[p] + Purses[q]
  BY <1>1
<1> HIDE DEF Purses
<1>5. SumFunctionOnSet(Purses', Char)
        = SumFunctionOnSet(Purses, Char) - Purses[p] - Purses[q] + Purses'[p] + Purses'[q]
  BY <1>1, <1>2, <1>4, SumChangeTwo
<1>6. Purses'[p] \in Int /\ Purses'[q] \in Int
  BY <1>4
<1> QED
  BY <1>1, <1>2, <1>3, <1>4, <1>5, <1>6

\* No step makes all of them richer.
LEMMA StepKeepsSum ==
  ASSUME AuctionConstants, WealthFits, TypeOK, SaleInv, [Next]_vars
  PROVE  SumFunctionOnSet(Purses', Char) <= Wealth
<1>1. CASE Purses' = Purses
  BY <1>1 DEF SaleInv
<1>2. ASSUME NEW p \in Char, Reset(p), buyer # Nil
      PROVE  SumFunctionOnSet(Purses', Char) <= Wealth
  <2>1. buyer \in Char /\ seller \in Char /\ buyer # seller /\ bet \in Nat
    BY <1>2, SaleTypes DEF Reset, SaleInv, TypeOK
  <2> QED
    BY <1>2, <2>1, ResetPurses, SumKept
<1>3. ASSUME Close, buyer # Nil
      PROVE  SumFunctionOnSet(Purses', Char) <= Wealth
  <2>1. buyer \in Char /\ seller \in Char /\ buyer # seller /\ bet \in Nat
    BY <1>3, SaleTypes DEF Close, SaleInv, TypeOK
  <2> QED
    BY <1>3, <2>1, ClosePurses, SumKept
<1>4. ASSUME NEW p \in Char, NEW q \in Char, NEW amount \in 1..gold[p], Give(p, q, amount), p # q
      PROVE  SumFunctionOnSet(Purses', Char) <= Wealth
  <2>1. amount \in Nat
    BY SaleTypes
  <2> QED
    BY <1>4, <2>1, GivePurses, SumKept
<1>5. \/ Purses' = Purses
      \/ \E p \in Char : Reset(p) /\ buyer # Nil
      \/ Close /\ buyer # Nil
      \/ \E p, q \in Char : \E amount \in 1..gold[p] : Give(p, q, amount) /\ p # q
  <2>1. CASE AuctionUpdate
    <3>1. CASE Silence \/ Call
      BY <3>1 DEF Silence, Call, Purses, Pledged
    <3>2. CASE Close
      BY <3>2, ClosePurses
    <3> QED
      BY <2>1, <3>1, <3>2 DEF AuctionUpdate
  <2>2. ASSUME NEW p \in Char, Command(p)
        PROVE  Purses' = Purses \/ (Reset(p) /\ buyer # Nil)
    <3>1. CASE Crash(p) \/ Clone(p)
      BY <3>1 DEF Crash, Clone, auction, Purses, Pledged
    <3> QED
      BY <2>2, <3>1, StopPurses, ResetPurses, BidPurses, StartPurses DEF Command
  <2>3. CASE UNCHANGED <<auction, gold>>
    BY <2>3 DEF auction, Purses, Pledged
  <2>4. ASSUME NEW p \in Char, NEW q \in Char, NEW amount \in 1..gold[p], Give(p, q, amount)
        PROVE  Purses' = Purses \/ p # q
    BY <2>4, GivePurses
  <2>5. CASE UNCHANGED vars
    BY <2>5 DEF vars, auction, Purses, Pledged
  <2> QED
    BY <2>1, <2>2, <2>3, <2>4, <2>5 DEF Next, Play, Quit, Purge, GiveObj, ObjUpdate
<1> QED
  BY <1>1, <1>2, <1>3, <1>4, <1>5

\* Nor does one leave a sale without its seller, a bid without a bidder, or the
\* auctioneer with nothing to call.
LEMMA StepKeepsSale ==
  ASSUME AuctionConstants, WealthFits, TypeOK, SaleInv, [Next]_vars
  PROVE  SaleInv'
<1> DEFINE OnSale == item # Nil => /\ seller \in Char /\ buyer # seller /\ (buyer = Nil <=> bet = 0)
                                   /\ going \in 0..2 /\ pulse \in 1..AuctionPulse
<1> USE SaleTypes
<1>1. ASSUME NEW p \in Char, Play(p)
      PROVE  OnSale'
  <2>1. CASE UNCHANGED auction
    BY <2>1 DEF auction, SaleInv
  <2>2. CASE Stop(p) \/ Reset(p)
    BY <2>2 DEF Stop, Reset
  <2>3. ASSUME NEW bid \in 0..gold[p], Bid(p, bid)
        PROVE  OnSale'
    <3>1. bid \in Nat /\ bid > bet
      BY <2>3, BidTops
    <3>2. bid # 0 /\ AuctionPulse \in 1..AuctionPulse /\ 0 \in 0..2
      BY <3>1
    <3> QED
      BY <2>3, <3>2 DEF Bid, SaleInv, AuctionConstants
  <2>4. ASSUME NEW o \in Obj, NEW res \in MinReserve..MaxReserve, Start(p, o, res)
        PROVE  OnSale'
    <3>1. AuctionPulse \in 1..AuctionPulse /\ 0 \in 0..2
      OBVIOUS
    <3> QED
      BY <2>4, <3>1 DEF Start, AuctionConstants
  <2>5. \/ UNCHANGED auction \/ Stop(p) \/ Reset(p)
        \/ \E bid \in 0..gold[p] : Bid(p, bid)
        \/ \E o \in Obj, res \in MinReserve..MaxReserve : Start(p, o, res)
    BY <1>1 DEF Play, Command, Crash, Clone, Quit, Purge, Give, GiveObj
  <2> HIDE DEF OnSale
  <2> QED
    BY <2>1, <2>2, <2>3, <2>4, <2>5
<1>2. ASSUME AuctionUpdate
      PROVE  OnSale'
  <2>1. CASE Silence
    BY <2>1 DEF Silence, SaleInv
  <2>2. CASE Call
    BY <2>2 DEF Call, SaleInv
  <2>3. CASE Close
    BY <2>3 DEF Close
  <2> QED
    BY <1>2, <2>1, <2>2, <2>3 DEF AuctionUpdate
<1>3. ASSUME UNCHANGED auction
      PROVE  OnSale'
  BY <1>3 DEF auction, SaleInv
<1>4. OnSale'
  <2> HIDE DEF OnSale
  <2> QED
    BY <1>1, <1>2, <1>3 DEF Next, ObjUpdate, vars
<1> QED
  BY <1>4, StepKeepsSum DEF SaleInv

\* It holds before the first sale.
LEMMA InitKeepsSale ==
  ASSUME AuctionConstants, Init
  PROVE  SaleInv /\ Purses = gold /\ gold \in [Char -> Nat]
<1>1. gold \in [Char -> Nat] /\ SumFunctionOnSet(gold, Char) = Wealth /\ Wealth \in Nat
  BY SMT DEF Init, Shares, AuctionConstants
<1>2. \A p \in Char : Pledged(p) = 0
  BY DEF Init, Pledged
<1>3. Purses = gold
  <2>1. \A p \in Char : gold[p] + Pledged(p) = gold[p]
    BY <1>1, <1>2
  <2> QED
    BY <1>1, <2>1 DEF Purses
<1> QED
  BY <1>1, <1>3 DEF SaleInv, Init

\* The invariant holds of every sale.
THEOREM SaleInvariance ==
  ASSUME WealthFits
  PROVE  Spec => []SaleInv
<1>1. Init => SaleInv
  BY AuctionConstants, InitKeepsSale
<1>2. IInv /\ SaleInv /\ [Next]_vars => SaleInv'
  BY AuctionConstants, StepKeepsSale DEF IInv
<1> QED
  BY <1>1, <1>2, Invariance, PTL DEF Spec

\* A bid tops the one before it: the test of auction.c:179 refuses anything
\* below the raise, which cannot wrap while the gold there is fits.
THEOREM BidsAlwaysRise ==
  ASSUME WealthFits
  PROVE  Spec => BidsRise
<1>1. IInv /\ SaleInv /\ [Next]_vars
        => [item # Nil /\ item' = item /\ bet' # bet => bet' > bet]_vars
  <2> SUFFICES ASSUME IInv, SaleInv, Next, item # Nil, item' = item, bet' # bet
               PROVE  bet' > bet
    OBVIOUS
  <2>1. PICK p \in Char : \E bid \in 0..gold[p] : Bid(p, bid)
    BY DEF Next, AuctionUpdate, Silence, Call, Close, Play, Command, Crash, Stop, Clone,
           Reset, Start, Quit, Purge, Give, GiveObj, ObjUpdate, auction
  <2>2. PICK bid \in 0..gold[p] : Bid(p, bid)
    BY <2>1
  <2> QED
    BY <2>2, AuctionConstants, BidTops DEF Bid, IInv
<1> QED
  BY <1>1, Invariance, SaleInvariance, PTL DEF Spec, BidsRise

\* The auction keeps the promise of Sale: while no party is purged and the item
\* does not wear out, the hammer gives it to the last bidder and his money to the
\* seller at once, and whoever bids, quits, pays or trades meanwhile, nobody's
\* money or object is gained, lost or kept but by whoever stops, clones or resets
\* the sale, who is its seller or an immortal.
THEOREM Implementation ==
  ASSUME WealthFits, ~Purges, ~Perishes
  PROVE  Spec => ImplementsSale
<1>1. Init => Sold!Init
  <2> SUFFICES ASSUME Init PROVE Sold!Init
    OBVIOUS
  <2>1. Purses \in [Char -> Nat]
    BY AuctionConstants, InitKeepsSale
  <2> QED
    BY <2>1 DEF Init, Sold!Init, Purses
<1>2. IInv /\ SaleInv /\ PartiesAreHere /\ [Next]_vars => [Sold!Next]_(Sold!sale)
  <2> SUFFICES ASSUME IInv, SaleInv, PartiesAreHere, [Next]_vars
               PROVE  Sold!Next \/ UNCHANGED Sold!sale
    OBVIOUS
  <2>1. Sold!Next \/ UNCHANGED Seen
    BY AuctionConstants, StepImplements DEF IInv, Holding
  <2>2. UNCHANGED Seen => UNCHANGED Sold!sale
    BY DEF Seen, Offered, Sold!sale, Sold!offer, Quiet, Purses
  <2> QED
    BY <2>1, <2>2
<1> QED
  BY <1>1, <1>2, Invariance, SaleInvariance, PartiesAlwaysHere, PTL DEF Spec, ImplementsSale, Sold!Spec

----------------------------------------------------------------------------
\* The books of the builders.

\* Every change raises a flag: no toggled area flags, string editor, deleted
\* resets or new areas; mobiles and programs are created outside the editors, and
\* programs not at all; the files can be opened.
Careful ==
  /\ Unflagged = {} /\ Inside = FALSE /\ Fails = {}
  /\ Program \subseteq First

ProgramsSayTexts == \A p \in Program : memory[p] \in Text

\* What the proof goes by: programs are there from the start, an open editor
\* is on something that exists, and unflagged areas are on file.
Filed ==
  /\ BuildingTypeOK
  /\ ProgramsSayTexts
  /\ UnflaggedIsOnFile

LEMMA AreaOfType ==
  ASSUME NEW p \in Part \cup Area
  PROVE  AreaOf(p) \in Area
BY BuildingConstants DEF AreaOf, Part

\* The file of an area holds all its parts and itself.
LEMMA FileIsComplete ==
  ASSUME NEW p \in Part \cup Area
  PROVE  FileOf(AreaOf(p))[p] = memory[p]
<1>1. p \in SavedWith(AreaOf(p))
  BY DEF SavedWith, AreaOf, Part
<1> QED
  BY <1>1 DEF FileOf

\* Saving the areas A puts them on file, whoever else's parts go with them,
\* and leaves the files of others.
LEMMA SavedAreOnFile ==
  ASSUME BuildingTypeOK, Fails = {}, NEW A \in SUBSET Area, save_areas(A), UnflaggedIsOnFile,
         NEW p \in Part \cup Area, AreaOf(p) \in A \/ AreaOf(p) \notin changed
  PROVE  file'[AreaOf(p)][p] = memory[p]
<1>1. AreaOf(p) \in Area
  BY AreaOfType
<1>2. file'[AreaOf(p)] = IF AreaOf(p) \in A THEN FileOf(AreaOf(p)) ELSE file[AreaOf(p)]
  BY <1>1 DEF save_areas
<1>3. CASE AreaOf(p) \in A
  BY <1>2, <1>3, FileIsComplete
<1>4. CASE AreaOf(p) \notin A
  BY <1>2, <1>4 DEF UnflaggedIsOnFile
<1> QED
  BY <1>3, <1>4

LEMMA SaveKeeps ==
  ASSUME BuildingTypeOK, Fails = {}, NEW A \in SUBSET Area, save_areas(A), UnflaggedIsOnFile,
         UNCHANGED memory, changed \ A \subseteq changed'
  PROVE  UnflaggedIsOnFile'
<1> SUFFICES ASSUME NEW p \in Part \cup Area, AreaOf(p) \notin changed'
             PROVE  file'[AreaOf(p)][p] = memory'[p]
  BY DEF UnflaggedIsOnFile, AreaOf
<1> QED
  BY SavedAreOnFile

\* A change to p that raises the flag of its area.
LEMMA FlaggedChangeKeeps ==
  ASSUME BuildingTypeOK, UnflaggedIsOnFile, NEW q \in Part \cup Area, NEW t,
         memory' = [memory EXCEPT ![q] = t], UNCHANGED file,
         changed' = changed \cup {AreaOf(q)}
  PROVE  UnflaggedIsOnFile'
<1> SUFFICES ASSUME NEW p \in Part \cup Area, AreaOf(p) \notin changed'
             PROVE  file'[AreaOf(p)][p] = memory'[p]
  BY DEF UnflaggedIsOnFile, AreaOf
<1>1. p # q /\ AreaOf(p) \notin changed
  OBVIOUS
<1>2. memory'[p] = memory[p]
  BY <1>1 DEF BuildingTypeOK
<1> QED
  BY <1>1, <1>2 DEF UnflaggedIsOnFile

\* What may be written over what: a text over a part, a level over an area.
Fits(q, t) == t \in IF q \in Area THEN Level ELSE Text

LEMMA ChangeKeepsTypes ==
  ASSUME Filed, NEW q \in Part \cup Area, NEW t, Fits(q, t),
         memory' = [memory EXCEPT ![q] = t], UNCHANGED file,
         changed' \subseteq Area, editing' \in [Builder -> Part \cup Area \cup {None}]
  PROVE  BuildingTypeOK' /\ ProgramsSayTexts'
<1>1. memory \in [Part \cup Area -> Text \cup Level \cup {None}]
  BY DEF Filed, BuildingTypeOK
<1>2. memory' \in [Part \cup Area -> Text \cup Level \cup {None}]
  BY <1>1 DEF Fits
<1>3. \A a \in Area : memory'[a] \in Level \cup {None}
  <2> SUFFICES ASSUME NEW a \in Area PROVE memory'[a] \in Level \cup {None}
    OBVIOUS
  <2> QED
    BY <1>1 DEF Filed, BuildingTypeOK, Fits
<1>4. ProgramsSayTexts'
  <2> SUFFICES ASSUME NEW p \in Program PROVE memory'[p] \in Text
    BY DEF ProgramsSayTexts
  <2>1. p \in Part /\ p \notin Area
    BY BuildingConstants DEF Part
  <2> QED
    BY <1>1, <2>1 DEF Filed, Fits, ProgramsSayTexts
<1> QED
  BY <1>2, <1>3, <1>4 DEF Filed, BuildingTypeOK

LEMMA OpenKeeps ==
  ASSUME Filed, NEW b \in Builder, NEW p \in Part \cup Area, Open(b, p)
  PROVE  Filed'
BY DEF ProgramsSayTexts, Filed, BuildingTypeOK, UnflaggedIsOnFile, Open, AreaOf

\* A handler that sets what is being edited to something that fits.
LEMMA SetsKeeps ==
  ASSUME Filed, NEW b \in Builder, NEW T, editing[b] \in Part \cup Area,
         \A t \in T : Fits(editing[b], t), Sets(b, T), UNCHANGED <<file, editing>>
  PROVE  Filed'
<1> DEFINE p == editing[b]
<1>1. PICK t \in T : /\ memory' = [memory EXCEPT ![p] = t]
                     /\ changed' = changed \cup {AreaOf(p)}
  BY DEF Sets
<1>2. AreaOf(p) \in Area
  BY AreaOfType
<1>3. BuildingTypeOK' /\ ProgramsSayTexts'
  BY <1>1, <1>2, ChangeKeepsTypes DEF Filed, BuildingTypeOK
<1>4. UnflaggedIsOnFile'
  BY <1>1, FlaggedChangeKeeps DEF Filed
<1> QED
  BY <1>3, <1>4 DEF Filed

\* What is being edited exists, so what it says fits it.
LEMMA FlagsKeeps ==
  ASSUME Filed, NEW b \in Builder, editing[b] \in Part \cup Area,
         Flags(b), UNCHANGED <<file, editing>>
  PROVE  Filed'
<1> DEFINE p == editing[b]
<1>1. memory' = memory /\ changed' = changed \cup {AreaOf(p)}
  BY DEF Flags, Sets, Filed, BuildingTypeOK
<1>2. AreaOf(p) \in Area
  BY AreaOfType
<1>3. BuildingTypeOK'
  BY <1>1, <1>2 DEF Filed, BuildingTypeOK
<1>4. UnflaggedIsOnFile'
  BY <1>1 DEF Filed, UnflaggedIsOnFile, AreaOf
<1> QED
  BY <1>1, <1>3, <1>4 DEF Filed, ProgramsSayTexts

LEMMA StringEditorKeeps ==
  ASSUME Careful, Filed, NEW b \in Builder, editing[b] \in Part \cup Area,
         StringEditor(b), UNCHANGED <<file, editing>>
  PROVE  Filed'
BY FlagsKeeps DEF StringEditor, Careful

\* A part that is being edited takes texts.
LEMMA TextsFit ==
  ASSUME NEW b \in Builder, editing[b] \in Part, NEW T \in SUBSET Text
  PROVE  \A t \in T : Fits(editing[b], t)
BY BuildingConstants DEF Fits

LEMMA DismissedKeeps ==
  ASSUME Filed, NEW b \in Builder, Dismissed(b)
  PROVE  Filed'
BY DEF ProgramsSayTexts, Filed, BuildingTypeOK, UnflaggedIsOnFile, Dismissed, AreaOf

LEMMA AeditKeeps ==
  ASSUME Careful, Filed, NEW b \in Builder, aedit(b)
  PROVE  Filed'
<1> SUFFICES ASSUME Runs(b), Aedit(b) PROVE Filed'
  BY DismissedKeeps DEF aedit
<1> USE DEF Runs
<1>1. editing[b] \in Area
  BY DEF aedit
<1>2. CASE aedit_security(b)
  BY <1>1, <1>2, SetsKeeps DEF aedit_security, Fits
<1>3. CASE aedit_fields(b) \/ aedit_levels(b)
  BY <1>1, <1>3, FlagsKeeps DEF aedit_fields, aedit_levels
<1>4. CASE aedit_toggle(b)
  <2>1. memory' = memory /\ changed' = changed \cup {editing[b]}
    BY <1>4 DEF aedit_toggle, Careful
  <2> QED
    BY <1>1, <2>1 DEF ProgramsSayTexts, Filed, BuildingTypeOK, UnflaggedIsOnFile, AreaOf
<1> QED
  BY <1>2, <1>3, <1>4 DEF Aedit

LEMMA MeditKeeps ==
  ASSUME Careful, Filed, NEW b \in Builder, medit(b)
  PROVE  Filed'
<1> SUFFICES ASSUME Runs(b), Medit(b) PROVE Filed'
  BY DismissedKeeps DEF medit
<1> USE DEF Runs
<1>1. editing[b] \in Part
  BY DEF medit, Part
<1>2. ASSUME NEW T \in SUBSET Text, Sets(b, T) PROVE Filed'
  BY <1>1, <1>2, SetsKeeps, TextsFit
<1>3. CASE medit_material(b) \/ medit_group(b)
  BY <1>1, <1>3, FlagsKeeps DEF medit_material, medit_group
<1>4. CASE StringEditor(b)
  BY <1>1, <1>4, StringEditorKeeps
<1>5. CASE medit_shop(b)
  BY <1>2, <1>5, BuildingConstants DEF medit_shop
<1>6. CASE medit_act(b) \/ medit_parts(b) \/ medit_addmprog(b) \/ medit_delmprog(b)
  BY <1>2, <1>6 DEF medit_act, medit_parts, medit_addmprog, medit_delmprog, Other
<1>7. CASE Sets(b, Text)
  BY <1>2, <1>7
<1> QED
  BY <1>3, <1>4, <1>5, <1>6, <1>7
  DEF Medit, medit_texts, medit_ac, medit_off, medit_dice, medit_race,
      medit_position, medit_clone

LEMMA OeditKeeps ==
  ASSUME Careful, Filed, NEW b \in Builder, oedit(b)
  PROVE  Filed'
<1> SUFFICES ASSUME Runs(b), Oedit(b) PROVE Filed'
  BY DismissedKeeps DEF oedit
<1> USE DEF Runs
<1>1. editing[b] \in Part
  BY DEF oedit, Part
<1>2. ASSUME NEW T \in SUBSET Text, Sets(b, T) PROVE Filed'
  BY <1>1, <1>2, SetsKeeps, TextsFit
<1>3. CASE Flags(b)
  BY <1>1, <1>3, FlagsKeeps
<1>4. CASE StringEditor(b)
  BY <1>1, <1>4, StringEditorKeeps
<1>5. CASE Sets(b, Other(b)) \/ Sets(b, Text)
  BY <1>2, <1>5 DEF Other
<1> QED
  BY <1>3, <1>4, <1>5
  DEF Oedit, oedit_affects, oedit_names, oedit_fields, oedit_ed, oedit_extradesc,
      oedit_flags, set_obj_values, set_place_values

LEMMA MpeditKeeps ==
  ASSUME Careful, Filed, NEW b \in Builder, mpedit(b)
  PROVE  Filed'
<1> SUFFICES ASSUME Runs(b), Mpedit(b) PROVE Filed'
  BY DismissedKeeps DEF mpedit
<1> USE DEF Runs
<1>1. editing[b] \in Part
  BY DEF mpedit, Part
<1>2. ASSUME NEW T \in SUBSET Text, Sets(b, T) PROVE Filed'
  BY <1>1, <1>2, SetsKeeps, TextsFit
<1>3. CASE StringEditor(b)
  BY <1>1, <1>3, StringEditorKeeps
<1>4. CASE mpedit_clone(b)
  <2>1. {memory[q] : q \in {q \in Program : memory[q] # None}} \subseteq Text
    BY DEF Filed, ProgramsSayTexts
  <2> QED
    BY <1>2, <1>4, <2>1 DEF mpedit_clone
<1> QED
  BY <1>2, <1>3, <1>4 DEF Mpedit, mpedit_code

LEMMA CreateKeeps ==
  ASSUME Careful, Filed, NEW b \in Builder, NEW p \in Part, Create(b, p)
  PROVE  Filed'
<1>1. p \notin Program /\ p \notin Area
  BY BuildingConstants DEF Filed, ProgramsSayTexts, Create, Part
<1>2. AreaOf(p) = Home[p] /\ Home[p] \in Area
  BY <1>1, BuildingConstants DEF AreaOf
<1>3. PICK t \in Text : memory' = [memory EXCEPT ![p] = t]
  BY DEF Create
<1>4. changed' = changed \cup {AreaOf(p)} /\ UNCHANGED file
  <2>1. CASE p \in Object
    BY <1>2, <2>1 DEF Create, oedit_create
  <2>2. CASE p \notin Object /\ p \in Mobile
    BY <1>2, <2>2 DEF Create, medit_create, Edited, Careful
  <2>3. p \in Object \/ p \in Mobile
    BY <1>1 DEF Create, Part
  <2> QED
    BY <2>1, <2>2, <2>3
<1>5. editing' \in [Builder -> Part \cup Area \cup {None}]
  BY DEF Create, Filed, BuildingTypeOK
<1>6. BuildingTypeOK' /\ ProgramsSayTexts'
  BY <1>1, <1>2, <1>3, <1>4, <1>5, ChangeKeepsTypes DEF Filed, BuildingTypeOK, Fits
<1>7. UnflaggedIsOnFile'
  BY <1>3, <1>4, FlaggedChangeKeeps DEF Filed
<1> QED
  BY <1>6, <1>7 DEF Filed

LEMMA ResetsKeep ==
  ASSUME Careful, Filed, NEW b \in Builder, NEW r \in Part, do_resets(b, r)
  PROVE  Filed'
<1>1. r \notin Area /\ AreaOf(r) = Home[r] /\ Home[r] \in Area
  BY BuildingConstants DEF AreaOf
<1>2. PICK t \in Text : /\ memory' = [memory EXCEPT ![r] = t]
                        /\ changed' = changed \cup {AreaOf(r)}
  BY <1>1 DEF do_resets, add_reset, Careful
<1>3. UNCHANGED <<file, editing>>
  BY DEF do_resets
<1>4. BuildingTypeOK' /\ ProgramsSayTexts'
  BY <1>1, <1>2, <1>3, ChangeKeepsTypes DEF Filed, BuildingTypeOK, Fits
<1>5. UnflaggedIsOnFile'
  BY <1>2, <1>3, FlaggedChangeKeeps DEF Filed
<1> QED
  BY <1>4, <1>5 DEF Filed

\* The forms of asave: A is saved, and of the flags only those of A may go.
LEMMA AsaveKeeps ==
  ASSUME Careful, Filed, NEW A \in SUBSET Area, save_areas(A),
         changed \ A \subseteq changed', changed' \subseteq changed, UNCHANGED <<memory, editing>>
  PROVE  Filed'
<1>1. \A a \in Area : FileOf(a) \in [Part \cup Area -> Text \cup Level \cup {None}]
  BY DEF FileOf, Filed, BuildingTypeOK
<1>2. file' \in [Area -> [Part \cup Area -> Text \cup Level \cup {None}]]
  BY <1>1 DEF save_areas, Filed, BuildingTypeOK
<1>3. BuildingTypeOK'
  BY <1>2 DEF Filed, BuildingTypeOK
<1>4. UnflaggedIsOnFile'
  BY SaveKeeps DEF Filed, Careful
<1> QED
  BY <1>3, <1>4 DEF Filed, ProgramsSayTexts

LEMMA InitIsOnFile == ASSUME Careful, BuildingInit PROVE Filed
<1>1. memory \in [Part \cup Area -> Text \cup Level \cup {None}]
      /\ \A a \in Area : memory[a] \in Level \cup {None}
      /\ \A p \in Part : p \in First => memory[p] \in Text
  BY DEF BuildingInit
<1>2. file \in [Area -> [Part \cup Area -> Text \cup Level \cup {None}]]
  BY <1>1 DEF BuildingInit
<1>3. BuildingTypeOK
  BY <1>1, <1>2 DEF BuildingInit, BuildingTypeOK
<1>4. ProgramsSayTexts
  BY <1>1, BuildingConstants DEF Careful, Part, ProgramsSayTexts
<1>5. UnflaggedIsOnFile
  <2> SUFFICES ASSUME NEW p \in Part \cup Area PROVE file[AreaOf(p)][p] = memory[p]
    BY DEF UnflaggedIsOnFile
  <2> QED
    BY AreaOfType DEF BuildingInit
<1> QED
  BY <1>3, <1>4, <1>5 DEF Filed

LEMMA BuildingKeeps == ASSUME Careful, Filed, [BuildingNext]_BuildingVars PROVE Filed'
<1>1. ASSUME NEW a \in Area, AsaveVnum(a) PROVE Filed'
  BY <1>1, AsaveKeeps DEF AsaveVnum
<1>2. ASSUME NEW b \in Builder, Entries(b) PROVE Filed'
  BY <1>2, OpenKeeps DEF Entries, do_aedit, do_medit, do_oedit, do_mpedit, Part, aedit_create, Careful
<1>3. ASSUME NEW b \in Builder, Editors(b) PROVE Filed'
  <2>1. CASE aedit(b)
    BY <2>1, AeditKeeps
  <2>2. CASE medit(b)
    BY <2>2, MeditKeeps
  <2>3. CASE oedit(b)
    BY <2>3, OeditKeeps
  <2>4. CASE mpedit(b)
    BY <2>4, MpeditKeeps
  <2>5. CASE Done(b)
    BY <2>5 DEF Done, ProgramsSayTexts, Filed, BuildingTypeOK, UnflaggedIsOnFile, AreaOf
  <2> QED
    BY <1>3, <2>1, <2>2, <2>3, <2>4, <2>5 DEF Editors
<1>4. ASSUME NEW b \in Builder, Asave(b) PROVE Filed'
  <2>1. CASE AsaveWorld(b)
    <3> DEFINE A == {a \in Area : IS_BUILDER(b, a)}
    <3>1. changed \ A \subseteq changed' /\ changed' \subseteq changed
      BY <2>1 DEF AsaveWorld, Filed, BuildingTypeOK
    <3> QED
      BY <2>1, <3>1, AsaveKeeps DEF AsaveWorld
  <2>2. CASE AsaveChanged(b)
    <3> DEFINE A == {a \in changed : IS_BUILDER(b, a)}
    <3>1. changed \ A \subseteq changed' /\ changed' \subseteq changed
      BY <2>2 DEF AsaveChanged
    <3>2. A \in SUBSET Area
      BY DEF Filed, BuildingTypeOK
    <3> QED
      BY <2>2, <3>1, <3>2, AsaveKeeps DEF AsaveChanged
  <2>3. CASE AsaveArea(b)
    <3>1. PICK a \in IF editing[b] \in Program THEN Area ELSE {AreaOf(editing[b])} :
            save_areas({a}) /\ changed' = changed \ {a}
      BY <2>3 DEF AsaveArea
    <3>2. editing[b] \in Part \cup Area
      BY <2>3 DEF AsaveArea, Filed, BuildingTypeOK
    <3>3. a \in Area
      BY <3>2, AreaOfType
    <3> QED
      BY <2>3, <3>1, <3>3, AsaveKeeps DEF AsaveArea
  <2> QED
    BY <1>4, <2>1, <2>2, <2>3 DEF Asave
<1>5. ASSUME UNCHANGED BuildingVars PROVE Filed'
  BY <1>5 DEF BuildingVars, ProgramsSayTexts, Filed, BuildingTypeOK, UnflaggedIsOnFile, AreaOf
<1> QED
  BY <1>1, <1>2, <1>3, <1>4, <1>5, CreateKeeps, ResetsKeep DEF BuildingNext

\* Under Careful the file of every area without AREA_CHANGED says what the game
\* has, whatever the number of areas, parts and builders: olc.c raises the flag
\* on every path that changes memory, and asave takes it from what it wrote.
THEOREM UnflaggedAreOnFile ==
  ASSUME Careful
  PROVE  BuildingSpec => []UnflaggedIsOnFile
<1>1. BuildingInit => Filed
  BY InitIsOnFile
<1>2. Filed /\ [BuildingNext]_BuildingVars => Filed'
  BY BuildingKeeps
<1>3. Filed => UnflaggedIsOnFile
  BY DEF Filed
<1> QED
  BY <1>1, <1>2, <1>3, PTL DEF BuildingSpec
=============================================================================
