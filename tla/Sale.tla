------------------------------- MODULE Sale --------------------------------
(***************************************************************************)
(* What an auction promises: one lot at a time, which the house keeps on   *)
(* offer until Patience updates in a row bring no bid; each bid tops the   *)
(* one before; then the lot goes to the last bidder and his money to the   *)
(* seller, in one step, and nobody else's purse is ever touched.  The      *)
(* owner of a lot or a warden may withdraw it, which costs nobody money    *)
(* but hands the lot to whoever says so; copy it; or lose it, which costs  *)
(* the last bidder his bid.                                                *)
(***************************************************************************)
EXTENDS Integers

CONSTANTS
  People, Things,
  Wardens,   \* the people who may do with a lot what its owner may
  Patience,
  Nobody,    \* who has a thing that does not exist; no thing, no person
  House,     \* who has the lot
  Gone       \* who has a thing nobody finds again

VARIABLES
  lot,    \* the thing on offer, Nobody when there is none
  owner,  \* who offers it
  best,   \* the best bid, 0 when there is none
  lead,   \* who made it
  quiet,  \* updates since the offer or the last bid
  purse,  \* what money everybody has
  has     \* who has which thing

offer == <<lot, owner, best, lead, quiet>>
sale  == <<offer, purse, has>>

Init ==
  /\ lot = Nobody /\ owner = Nobody /\ best = 0 /\ lead = Nobody /\ quiet = 0
  /\ purse \in [People -> Nat]
  /\ has \in [Things -> People \cup {Nobody}]

Offer(p, t) ==
  /\ lot = Nobody /\ has[t] = p
  /\ lot' = t /\ owner' = p /\ best' = 0 /\ lead' = Nobody /\ quiet' = 0
  /\ has' = [has EXCEPT ![t] = House]
  /\ UNCHANGED purse

Bid(p) ==
  /\ lot # Nobody /\ p # owner
  /\ lead' = p /\ best' > best /\ best' <= purse[p] /\ quiet' = 0
  /\ UNCHANGED <<lot, owner, purse, has>>

Wait ==
  /\ lot # Nobody /\ quiet < Patience - 1
  /\ quiet' = quiet + 1
  /\ UNCHANGED <<lot, owner, best, lead, purse, has>>

\* The sale is over and the lot with q.
Closed(q) ==
  /\ lot' = Nobody /\ owner' = Nobody /\ best' = 0 /\ lead' = Nobody /\ quiet' = 0
  /\ has' = [has EXCEPT ![lot] = q]

Hammer ==
  /\ lot # Nobody /\ quiet = Patience - 1
  /\ IF lead = Nobody
     THEN Closed(owner) /\ UNCHANGED purse
     ELSE Closed(lead) /\ purse' = [purse EXCEPT ![lead] = @ - best, ![owner] = @ + best]

Entitled(p) == lot # Nobody /\ (p = owner \/ p \in Wardens)

Withdraw(p) == Entitled(p) /\ Closed(p) /\ UNCHANGED purse

Copy(p, t) ==
  /\ Entitled(p) /\ has[t] = Nobody
  /\ has' = [has EXCEPT ![t] = p]
  /\ UNCHANGED <<offer, purse>>

Lose(p) ==
  /\ Entitled(p) /\ Closed(Gone)
  /\ purse' = IF lead = Nobody THEN purse ELSE [purse EXCEPT ![lead] = @ - best]

\* Money changes hands outside the auction, but never what a bid has pledged.
Pay(p, q, amount) ==
  /\ purse[p] - (IF lead = p THEN best ELSE 0) >= amount
  /\ purse' = IF p = q THEN purse ELSE [purse EXCEPT ![p] = @ - amount, ![q] = @ + amount]
  /\ UNCHANGED <<offer, has>>

\* So do things, but never the lot.
Hand(p, q, t) ==
  /\ has[t] = p
  /\ has' = [has EXCEPT ![t] = q]
  /\ UNCHANGED <<offer, purse>>

\* Things cease to exist, alone or with who has them; the lot does not.
Perish(ts) ==
  /\ lot \notin ts
  /\ has' = [t \in Things |-> IF t \in ts THEN Nobody ELSE has[t]]
  /\ UNCHANGED <<offer, purse>>

Next ==
  \/ \E p \in People, t \in Things : Offer(p, t) \/ Copy(p, t)
  \/ \E p \in People : Bid(p) \/ Withdraw(p) \/ Lose(p)
  \/ Wait \/ Hammer
  \/ \E p, q \in People : \E amount \in 1..purse[p] : Pay(p, q, amount)
  \/ \E p, q \in People, t \in Things : Hand(p, q, t)
  \/ \E ts \in SUBSET Things : Perish(ts)

Spec == Init /\ [][Next]_sale
=============================================================================
