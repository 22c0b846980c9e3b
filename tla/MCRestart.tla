----------------------------- MODULE MCRestart -----------------------------
(***************************************************************************)
(* Instances of Restart for TLC.  A new player has two coins and an        *)
(* account holds one, so that a deposit may pass the cap.                  *)
(***************************************************************************)
EXTENDS Restart, TLC

CONSTANTS ann, bob

\* bob is the implementor.
Implementor == bob :> 8
=============================================================================
