------------------------------ MODULE MCAreas ------------------------------
(* The instance of Areas that TLC checks: a keep with a guard, who may     *)
(* have the key, and a chest, which may have it; a moor; a locked door.    *)
EXTENDS Areas, TLC

MCKind == [x \in Mobile \cup Object |->
             CASE x \in Mobile -> "guard" [] x = "o1" \/ x = "o2" -> "chest"
               [] OTHER -> "key"]
MCAreaOf == [r \in Room |-> IF r = "hall" THEN "keep" ELSE "moor"]
MCRooms == [a \in Area |-> IF a = "keep" THEN <<"hall">> ELSE <<"heath">>]
MCRev == [d \in Dir |-> CASE d = "n" -> "s" [] d = "s" -> "n" [] d = "e" -> "w" [] OTHER -> "e"]
MCTo == [e \in Exit |-> IF e = "out" THEN "heath" ELSE "hall"]
MCWay == [r \in Room |-> [d \in Dir |->
            CASE r = "hall" /\ d = "s" -> "out"
              [] r = "heath" /\ d = "n" -> "in"
              [] OTHER -> "nil"]]
MCKey == [x \in Door \cup Chest |-> IF x \in Door THEN "key" ELSE "nil"]
MCReset == [r \in Room |->
             IF r = "hall"
             THEN <<[cmd |-> "M", kind |-> "guard", limit |-> 1, most |-> 1],
                    [cmd |-> "G", kind |-> "key", limit |-> 1],
                    [cmd |-> "O", kind |-> "chest"],
                    [cmd |-> "P", kind |-> "key", into |-> "chest", limit |-> 1, most |-> 1]>>
             ELSE <<[cmd |-> "R", dirs |-> {"e", "w"}]>>]
MCOrder == <<"moor", "keep">>

ASSUME MCAreasBuilt == DoorsMatch /\ ChestsFollow
=============================================================================
