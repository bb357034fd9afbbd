---------------------------- MODULE EscrowPromise ----------------------------
(***************************************************************************)
(* What contracts/escrow promises a funder and a contributor.  Money is    *)
(* locked for a bounty in one piece and leaves in one piece: it is paid    *)
(* out to somebody it was promised to, or it goes back to the funder,      *)
(* which it may only if it was never promised to anybody or is late.       *)
(* Nothing is promised of a deposit that an outsider added to: it stays.   *)
(***************************************************************************)
EXTENDS Integers

CONSTANTS Bounty, Key, NoDeposit

VARIABLES
  balance,   \* tokens of each key
  deposit    \* what is locked for each bounty, or NoDeposit

vars == <<balance, deposit>>

\* Its amount, what was added to it, whose it was, to whom it was ever promised,
\* and whether the funder has waited long enough.
Deposit == [amount : Nat \ {0}, extra : Nat, funder : Key, promised : SUBSET Key, late : BOOLEAN]

\* bal with n more, or fewer, tokens of k.
Moved(bal, k, n) == [bal EXCEPT ![k] = @ + n]

Init ==
  /\ balance \in [Key -> Nat]
  /\ deposit = [b \in Bounty |-> NoDeposit]

Fund(b) ==
  /\ deposit[b] = NoDeposit /\ deposit'[b] \in Deposit
  /\ LET d == deposit'[b] IN
     /\ d.extra = 0 /\ d.promised = {} /\ ~d.late
     /\ d.amount <= balance[d.funder]
     /\ deposit' = [deposit EXCEPT ![b] = d]
     /\ balance' = Moved(balance, d.funder, -d.amount)

Promise(b, k) ==
  /\ deposit[b] # NoDeposit
  /\ deposit' = [deposit EXCEPT ![b].promised = @ \cup {k}]
  /\ UNCHANGED balance

\* Somebody's tokens, which are locked as well and for good.
Add(b, k) ==
  /\ deposit[b] # NoDeposit
  /\ \E n \in 1 .. balance[k] :
       /\ deposit' = [deposit EXCEPT ![b].extra = @ + n]
       /\ balance' = Moved(balance, k, -n)

\* Any of the deposits may become late.
Wait ==
  /\ \A b \in Bounty :
       \/ deposit'[b] = deposit[b]
       \/ deposit[b] # NoDeposit /\ deposit'[b] = [deposit[b] EXCEPT !.late = TRUE]
  /\ DOMAIN deposit' = Bounty
  /\ UNCHANGED balance

\* n of it to somebody it was promised to, the rest as the fee.
PayOut(b, k, feeTo, n) ==
  /\ deposit[b] # NoDeposit /\ deposit[b].extra = 0
  /\ k \in deposit[b].promised /\ n > 0
  /\ balance' = Moved(Moved(balance, k, n), feeTo, deposit[b].amount - n)
  /\ deposit' = [deposit EXCEPT ![b] = NoDeposit]

Return(b) ==
  /\ deposit[b] # NoDeposit /\ deposit[b].extra = 0
  /\ deposit[b].promised = {} \/ deposit[b].late
  /\ balance' = Moved(balance, deposit[b].funder, deposit[b].amount)
  /\ deposit' = [deposit EXCEPT ![b] = NoDeposit]

Next ==
  \/ \E b \in Bounty : Fund(b) \/ Return(b)
  \/ \E b \in Bounty, k \in Key : Promise(b, k) \/ Add(b, k)
  \/ \E b \in Bounty, k \in Key, feeTo \in Key :
       deposit[b] # NoDeposit /\ \E n \in 1 .. deposit[b].amount : PayOut(b, k, feeTo, n)
  \/ Wait

Spec == Init /\ [][Next]_vars
=============================================================================
