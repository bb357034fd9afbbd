---------------------------- MODULE MCBountyEscrow ----------------------------
(* A small instance of BountyEscrow.                                       *)
EXTENDS BountyEscrow, TLC

CONSTANTS b1, fu, at, co   \* a bounty; a funder, an attestor and a contributor

\* A percentage that must be rounded up, one without a rest, and a floor.
SomeTerms ==
  {[amount |-> 3, bps |-> 5, minimum |-> 0], [amount |-> 2, bps |-> 5, minimum |-> 1],
   [amount |-> 1, bps |-> 0, minimum |-> 2], [amount |-> 1, bps |-> 6, minimum |-> 0]}

SomeWealth == fu :> 5 @@ at :> 0 @@ co :> 1
===============================================================================
