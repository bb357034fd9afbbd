----------------------------- MODULE MCGrainHack ------------------------------
(* Small instances of GrainHack.                                           *)
EXTENDS GrainHack, TLC

CONSTANTS w1, w2, x1, x2, s1, s2, s3, a1, a2, c1, c2

Line(n, h) == [amount |-> n, held |-> h]

\* One statement, and only one of its payouts is within the ceiling.
OneStatement == s1 :> (w1 :> Line(2, FALSE) @@ w2 :> Line(2, FALSE))
First == s1 :> NoStatement

\* One winner: payable, payable for another amount, and no longer listed.
OneWinner == s1 :> (w1 :> Line(2, FALSE)) @@ s2 :> (w1 :> Line(1, FALSE)) @@ s3 :> (w1 :> Line(0, FALSE))
Chained == s1 :> NoStatement @@ s2 :> s1 @@ s3 :> s2

Alike == Permutations(Call) \cup Permutations(Approval)
AllAlike == Alike \cup Permutations(Winner)
===============================================================================
