----------------------------- MODULE MCLinkDir -------------------------------
(* Three runs, two of whose ids begin alike, and names that are or extend  *)
(* one another.                                                            *)
EXTENDS LinkDir

MCShort == [r \in Runs |-> IF r = "r1" THEN "q" ELSE "p"]
MCNumeral == [n \in 1..Cardinality(Runs) + MaxRest |-> ToString(n)]
MCParts == Runs \cup {MCShort[r] : r \in Runs} \cup {ToString(n) : n \in 1..9} \cup {"a"}
MCGiven == {<<"a">>, <<"a", "p">>, <<"a", "p2">>, <<"a", "p2", "1">>}
=============================================================================
