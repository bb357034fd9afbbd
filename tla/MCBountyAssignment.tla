-------------------------- MODULE MCBountyAssignment --------------------------
(* Small instances of BountyAssignment.                                    *)
EXTENDS BountyAssignment, TLC

CONSTANTS u1, u2          \* GitHub users
CONSTANTS x1, x2          \* applications
CONSTANTS pr1             \* a pull request
CONSTANTS d1, c1          \* deliveries: activity, closed

\* Each person applies once.
Once == x1 :> u1 @@ x2 :> u2

\* The first person's pull request, or none.
Own   == pr1 :> u1
NoOne == [p \in {} |-> u1]
===============================================================================
