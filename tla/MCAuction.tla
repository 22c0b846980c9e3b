----------------------------- MODULE MCAuction -----------------------------
(***************************************************************************)
(* Instances of Auction for TLC: the objects are interchangeable, and so   *)
(* are the characters who are not immortals.                               *)
(***************************************************************************)
EXTENDS Auction, TLC

Interchangeable == Permutations(Obj) \cup Permutations(Char \ Immortals)
=============================================================================
