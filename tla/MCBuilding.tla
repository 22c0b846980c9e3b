----------------------------- MODULE MCBuilding -----------------------------
\* Two areas with a program and a mobile, which is still to be made, here, a
\* room and an object there, and a third area still to be made; a builder of
\* more and one of less security.
EXTENDS Building, TLC

CONSTANTS marsh, keep, bog, imp, hall, blade, code, ann, bob, old, new

mc_Home == [p \in {imp, code} |-> marsh] @@ [p \in {hall, blade} |-> keep]
mc_Security == [b \in {ann} |-> 2] @@ [b \in {bob} |-> 1]
=============================================================================
