----------------------------- MODULE SpendLimit -----------------------------
(***************************************************************************)
(* A purse with a lifetime limit, as packages/budget/src/governor.ts puts  *)
(* it: money is held for a claim before any of it moves, what moves stays  *)
(* within what is held, a hold is only lowered to what it still has to     *)
(* cover, and all holds together never exceed the limit.  Money is a set   *)
(* of units, so that a sum is the size of a union.                         *)
(***************************************************************************)
EXTENDS Integers, FiniteSets

CONSTANTS Claim, Limit

VARIABLES
  held,   \* the units held for each claim
  moved   \* those of them that have moved, or still may

vars == <<held, moved>>

Total == Cardinality(UNION {held[c] : c \in Claim})

Init ==
  /\ held  = [c \in Claim |-> {}]
  /\ moved = [c \in Claim |-> {}]

\* The step changes the hold of one claim.
OnlyHold(c) ==
  /\ \A d \in Claim \ {c} : held'[d] = held[d]
  /\ moved' = moved

Hold(c) ==
  /\ held[c] = {}
  /\ OnlyHold(c)
  /\ Total' <= Limit

Lower(c) ==
  /\ moved[c] \subseteq held'[c] /\ held'[c] \subseteq held[c]
  /\ OnlyHold(c)

Move(c) ==
  /\ moved[c] \subseteq moved'[c] /\ moved'[c] \subseteq held[c]
  /\ \A d \in Claim \ {c} : moved'[d] = moved[d]
  /\ held' = held

Next == \E c \in Claim : Hold(c) \/ Lower(c) \/ Move(c)

Spec == Init /\ [][Next]_vars
=============================================================================
