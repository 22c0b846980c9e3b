----------------------------- MODULE MCObjects -----------------------------
(* The instance of Objects that TLC checks: every object weighs two; bag   *)
(* and box are of one template, and the bag makes light of what is in it.  *)
EXTENDS Objects, TLC

MCOwn == [o \in Obj |-> 2]
MCTwin == [o \in Obj |-> IF o \in Bag THEN Bag ELSE {o}]
MCMult == [o \in Obj |-> IF o \in Bag \ Melting THEN 50 ELSE 100]

\* What the proofs suppose of weights and of the immortals.
ASSUME MCHypotheses == Exactly /\ ~AtHome
=============================================================================
