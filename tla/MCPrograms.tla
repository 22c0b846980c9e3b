---------------------------- MODULE MCPrograms ----------------------------
\* A player and two mobiles in two rooms, ifs nested up to three deep,
\* two programs at a time.
EXTENDS Programs

CONSTANTS ann, imp, orc, hall, yard

mc_Home == (hall :> <<ann, imp, orc>>) @@ (yard :> <<>>)
=============================================================================
