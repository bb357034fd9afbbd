--------------------------- MODULE MCPayoutSigner ---------------------------
(* Small instances of PayoutSigner.                                        *)
EXTENDS PayoutSigner, TLC

CONSTANTS c1, c2, c3      \* calls
CONSTANTS a1, a2, a3      \* approvals
CONSTANTS b1, b2          \* bounties
CONSTANTS p1, p2, p3      \* payouts
CONSTANTS pr1, pr2        \* pull requests
CONSTANTS r1, r2          \* recipients

Signed(p, b, pr, r, n, how, last) ==
  [payout |-> p, bounty |-> b, pull |-> pr, recipient |-> r,
   currency |-> "USDC", amount |-> n, route |-> how, lastDay |-> last]

\* One bounty paid from the float, and one approved both from the float and from its
\* escrow; the two larger payouts are over the day's cap together.
SomeTerms == a1 :> Signed(p1, b1, pr1, r1, 2, "float", 2)
          @@ a2 :> Signed(p2, b2, pr2, r2, 1, "float", 1)
          @@ a3 :> Signed(p3, b2, pr2, r2, 2, "escrow", 2)

MCPerBountyMax == [x \in {"USDC"} |-> 2]
MCDailyMax     == [x \in {"USDC"} |-> 3]

Calls == Permutations({c1, c2, c3})
=============================================================================
