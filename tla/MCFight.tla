------------------------------ MODULE MCFight ------------------------------
\* Two players of whom bob assists ann, and a mobile that bashes, flees when
\* hurt or attacked and rests by default; one of the two rooms is safe.
EXTENDS Fight

CONSTANTS ann, bob, rat

mc_Default == [m \in Mob |-> "resting"]
mc_Helps == {<<bob, ann>>}
=============================================================================
