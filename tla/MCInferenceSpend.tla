--------------------------- MODULE MCInferenceSpend ---------------------------
(* A small instance of InferenceSpend.                                     *)
EXTENDS InferenceSpend, TLC

CONSTANTS c1, c2, s1   \* calls
CONSTANTS q1, q2       \* quotes

Amounts == q1 :> 2 @@ q2 :> 1

\* LIVE has room for one of the quotes at a time, and for the other once the first was
\* settled below its reservation; the signer for both only once the first was confirmed
\* at no fee.  A quote may be paid for another client above its cap, and the chain may
\* charge more than the agent reserves.
Phases      == c1 :> "LIVE" @@ c2 :> "LIVE" @@ s1 :> "P1"
Allocations == [p \in {"LIVE", "P1"} |-> 4]
===============================================================================
