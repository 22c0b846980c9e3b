------------------------------ MODULE Presence -----------------------------
(***************************************************************************)
(* What the connection code promises about players: a player is out of the *)
(* game or has exactly one body in it; the body is driven by at most one   *)
(* link; links come and go without the body changing; only leaving the     *)
(* game gives the body up.                                                 *)
(***************************************************************************)
CONSTANTS Player, Link, Bodies, None

VARIABLES
  body,    \* the body of each player, None when out of the game
  driver   \* the link that drives it, None when there is none

Init ==
  /\ body = [p \in Player |-> None]
  /\ driver = [p \in Player |-> None]

Enter(p, b, l) ==
  /\ body[p] = None /\ \A q \in Player : body[q] # b
  /\ body' = [body EXCEPT ![p] = b]
  /\ driver' = [driver EXCEPT ![p] = l]

\* A free link may take the body over, with the previous driver cut off.
TakeOver(p, l) ==
  /\ body[p] # None /\ \A q \in Player : driver[q] # l
  /\ driver' = [driver EXCEPT ![p] = l]
  /\ UNCHANGED body

LoseLink(p) ==
  /\ driver[p] # None
  /\ driver' = [driver EXCEPT ![p] = None]
  /\ UNCHANGED body

Leave(p) ==
  /\ body[p] # None
  /\ body' = [body EXCEPT ![p] = None]
  /\ driver' = [driver EXCEPT ![p] = None]

Next ==
  \E p \in Player :
    \/ LoseLink(p) \/ Leave(p)
    \/ \E l \in Link : TakeOver(p, l) \/ \E b \in Bodies : Enter(p, b, l)

Spec == Init /\ [][Next]_<<body, driver>>
=============================================================================
