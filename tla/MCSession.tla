----------------------------- MODULE MCSession -----------------------------
(***************************************************************************)
(* Instances of Session for TLC.  Descriptors, slots and mobiles are       *)
(* interchangeable; names are not (one may be an immortal's).              *)
(***************************************************************************)
EXTENDS Session, TLC

Interchangeable == Permutations(Desc) \cup Permutations(Slot) \cup Permutations(Mob)
=============================================================================
