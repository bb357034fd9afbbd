--------------------------- MODULE MCBountyPayouts ---------------------------
(* Small instances of BountyPayouts.                                       *)
EXTENDS BountyPayouts, TLC

CONSTANTS c1, c2, d1, d2  \* calls, webhook deliveries
CONSTANTS a1, a2          \* approvals
CONSTANTS b1              \* bounties
CONSTANTS p1, p2          \* payouts
CONSTANTS pr1, pr2        \* pull requests
CONSTANTS r1, r2          \* recipients

Row(p, b, pr, r, how) ==
  [payout |-> p, bounty |-> b, pull |-> pr, recipient |-> r,
   currency |-> "USDC", amount |-> 1, route |-> how]

Signed(terms, last) == [f \in DOMAIN terms \cup {"lastDay"} |-> IF f = "lastDay" THEN last ELSE terms[f]]

\* Two merged pull requests close the issue of one maintainer-funded bounty; the approval
\* of the first payout expires with the first day.
EscrowRows  == p1 :> Row(p1, b1, pr1, r1, "escrow")  @@ p2 :> Row(p2, b1, pr2, r1, "escrow")
EscrowTerms == a1 :> Signed(EscrowRows[p1], 1) @@ a2 :> Signed(EscrowRows[p2], 2)

MCPerBountyMax == [x \in {"USDC"} |-> 1]
MCDailyMax     == [x \in {"USDC"} |-> 2]
==============================================================================
