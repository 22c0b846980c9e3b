----------------------------- MODULE MCLearning -----------------------------
(* The instance of Learning that TLC checks: a skill for beginners, one for *)
(* the experienced, one outside the class, and a group with a spell.        *)
EXTENDS Learning, TLC

CONSTANTS dagger, sword, calm, brew, basics

MCSkillList == <<calm, dagger, brew, sword>>
MCOf == basics :> <<sword, calm>>
MCLevelOf == (dagger :> 1) @@ (calm :> 2) @@ (sword :> 2) @@ (brew :> None)
MCDifficulty == (dagger :> 1) @@ (calm :> 0) @@ (sword :> 1) @@ (brew :> 0) @@ (basics :> 2)
MCRace == <<>>
=============================================================================
