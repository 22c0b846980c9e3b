---------------------------- MODULE MCFollowers ----------------------------
(***************************************************************************)
(* Instances of Followers for TLC.  The players' structs and the players   *)
(* are interchangeable, and so are the mobiles: they share one group       *)
(* number or none.                                                         *)
(***************************************************************************)
EXTENDS Followers, TLC

Interchangeable == Permutations(Pc) \cup Permutations(Mob) \cup Permutations(Name)
=============================================================================
