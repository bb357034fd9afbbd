---------------------------- MODULE MCFundedBounty ----------------------------
(* Small instances of FundedBounty.                                        *)
EXTENDS FundedBounty, TLC

CONSTANTS b1, fu, at, u1, u2   \* a bounty; its funder, the attestor, two applicants

RichFunder == [k \in Key |-> IF k = fu THEN 2 ELSE 0]

Drawn  == [amount |-> 1, mode |-> "Draw"]
Picked == [amount |-> 2, mode |-> "SelfAssign"]

Various == {Drawn, Picked}
OnlyDrawn == {Drawn}
===============================================================================
