------------------------------ MODULE MCAffects ------------------------------
(* The instance of Affects that TLC checks: a gauntlet that strengthens, a  *)
(* hammer that takes strength 15 and lets one see, a cloak of haste.        *)
EXTENDS Affects, TLC

MCGear ==
  [i \in Item |->
     CASE i = "gauntlet" -> <<[loc |-> "STR", mod |-> 3, flag |-> None]>>
       [] i = "hammer" -> <<[loc |-> "HITROLL", mod |-> 2, flag |-> Aff("detect_invis")]>>
       [] i = "cloak" -> <<[loc |-> "NONE", mod |-> 0, flag |-> Aff("haste")]>>]
MCNeed == [i \in Weapon |-> 15]
MCInnate == {Aff("infrared")}

\* What the proofs suppose.
ASSUME MCHypotheses == SteadyWeapons /\ Deadly = {}
=============================================================================
