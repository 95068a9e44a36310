------------------------------ MODULE MCUpkeep ------------------------------
(* Two processes with a caller each, and interchangeable so.               *)
EXTENDS Upkeep, TLC

CONSTANTS p1, p2, c1, c2

MCHome == c1 :> p1 @@ c2 :> p2

UpkeepSymmetry ==
  {f \in Permutations(Proc \cup Caller) :
     \A c \in Caller : f[c] \in Caller /\ Home[f[c]] = f[Home[c]]}

\* The last ticket is a little further from the query than the others.
MCCosine == [t \in Ticket |-> IF t = 3 THEN 5 ELSE 6]

\* Ticket 1 has no rating yet; the others miss one to be archived early.
MCTallies == {[t \in Ticket |-> IF t = 1 THEN Nothing
                               ELSE [likes |-> 0, dislikes |-> 2, used |-> 1]]}
=============================================================================
