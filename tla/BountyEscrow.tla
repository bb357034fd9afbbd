----------------------------- MODULE BountyEscrow -----------------------------
(***************************************************************************)
(* The escrow program on Solana, contracts/escrow: lib.rs.  Instructions   *)
(* are atomic; what is hard is their order, by three signers who need not  *)
(* agree: the funder, the attestor (Grainlify) and, through the deadline,  *)
(* the clock.  A finished escrow is closed, and its address, which derives *)
(* from the bounty's id, can be funded again.                              *)
(*                                                                         *)
(* The vault is a token account like any other, into which anybody may     *)
(* transfer.  The program moves the amount and the fee and then closes the *)
(* vault, which fails as long as anything else is in it: a single token    *)
(* sent there stops release, refund and cancel for good.                   *)
(***************************************************************************)
EXTENDS Integers

CONSTANTS
  Bounty,
  NoEscrow,  \* the address has no account
  Key,       \* keys that hold tokens, fund, attest and are paid
  Terms,     \* [amount, bps, minimum] a funder may ask for
  Wealth,    \* tokens each key starts with
  Gift,      \* sums that somebody may transfer into a vault, unasked
  BpsUnit,   \* basis points of the whole: 10,000
  MaxBps,    \* MAX_FEE_BPS
  MaxTime    \* bound: the clock, and so every deadline

ASSUME EscrowConstants ==
  /\ Terms \subseteq [amount : Nat, bps : Nat, minimum : Nat]
  /\ Wealth \in [Key -> Nat] /\ Gift \subseteq Nat \ {0}
  /\ BpsUnit \in Nat \ {0} /\ MaxBps \in Nat
  /\ MaxTime \in Nat

Nobody   == "nobody"
ASSUME NobodyAssumption == Nobody \notin Key

VARIABLES
  escrow,    \* the account of each bounty's escrow, or NoEscrow
  vault,     \* tokens in its vault
  balance,   \* tokens of each key
  now,       \* Clock::unix_timestamp
  named      \* history: everybody assigned since the escrow was funded

vars == <<escrow, vault, balance, now, named>>

Escrow ==
  [funder : Key, attestor : Key, feeTo : Key, mode : {"Draw", "SelfAssign"},
   amount : Nat \ {0}, bps : 0 .. MaxBps, minimum : Nat, fee : Nat, deadline : 0 .. MaxTime,
   state : {"Funded", "Assigned"}, contributor : Key \cup {Nobody}, everAssigned : BOOLEAN]

ASSUME NoEscrowAssumption == NoEscrow \notin Escrow

TypeOK ==
  /\ escrow  \in [Bounty -> Escrow \cup {NoEscrow}]
  /\ vault   \in [Bounty -> Nat]
  /\ balance \in [Key -> Nat]
  /\ now     \in 0 .. MaxTime
  /\ named   \in [Bounty -> SUBSET Key]

Init ==
  /\ escrow  = [b \in Bounty |-> NoEscrow]
  /\ vault   = [b \in Bounty |-> 0]
  /\ balance = Wealth
  /\ now     = 0
  /\ named   = [b \in Bounty |-> {}]

-----------------------------------------------------------------------------
Greater(m, n) == IF m >= n THEN m ELSE n

\* Mutant: rounded down.
Fee_Down(t) == Greater((t.amount * t.bps) \div BpsUnit, t.minimum)

\* Rounded up, with a floor.
Fee(t) == Greater((t.amount * t.bps + BpsUnit - 1) \div BpsUnit, t.minimum)

Moved(bal, k, n) == [bal EXCEPT ![k] = @ + n]

Acceptable(t, deadline) == t.amount > 0 /\ t.bps <= MaxBps /\ deadline > now

\* The funder signs.  A sum over the width of a token amount is over the
\* funder's balance as well: either way the transaction fails.
Initialize(b, k, t, attestor, feeTo, mode, deadline) ==
  /\ escrow[b] = NoEscrow
  /\ Acceptable(t, deadline)
  /\ t.amount + Fee(t) <= balance[k]
  /\ escrow' = [escrow EXCEPT ![b] =
       [funder |-> k, attestor |-> attestor, feeTo |-> feeTo, mode |-> mode,
        amount |-> t.amount, bps |-> t.bps, minimum |-> t.minimum, fee |-> Fee(t),
        deadline |-> deadline, state |-> "Funded", contributor |-> Nobody, everAssigned |-> FALSE]]
  /\ vault'   = [vault EXCEPT ![b] = t.amount + Fee(t)]
  /\ balance' = Moved(balance, k, -(t.amount + Fee(t)))
  /\ named'   = [named EXCEPT ![b] = {}]
  /\ UNCHANGED now

\* Who names the contributor, in the mode the funder chose.
MayAssign(b, signer) ==
  CASE escrow[b].mode = "Draw"       -> signer = escrow[b].attestor
    [] escrow[b].mode = "SelfAssign" -> signer = escrow[b].funder

Assign(b, signer, k) ==
  /\ escrow[b] # NoEscrow
  /\ escrow[b].state = "Funded" /\ escrow[b].contributor = Nobody
  /\ MayAssign(b, signer)
  /\ escrow' = [escrow EXCEPT ![b] =
       [@ EXCEPT !.contributor = k, !.everAssigned = TRUE, !.state = "Assigned"]]
  /\ named' = [named EXCEPT ![b] = @ \cup {k}]
  /\ UNCHANGED <<vault, balance, now>>

Unassign(b, signer) ==
  /\ escrow[b] # NoEscrow
  /\ escrow[b].state = "Assigned"
  /\ MayAssign(b, signer)
  /\ escrow' = [escrow EXCEPT ![b] = [@ EXCEPT !.contributor = Nobody, !.state = "Funded"]]
  /\ UNCHANGED <<vault, balance, now, named>>

\* Once what is owed is paid, the vault and the account are closed.  close_account
\* fails, and the instruction with it, unless that has emptied the vault.
CloseEscrow(b, paid) ==
  /\ vault[b] = paid
  /\ vault'  = [vault EXCEPT ![b] = 0]
  /\ escrow' = [escrow EXCEPT ![b] = NoEscrow]
  /\ UNCHANGED <<now, named>>

\* The attestor signs, and nobody else.
Release(b, signer) ==
  /\ escrow[b] # NoEscrow
  /\ LET e == escrow[b] IN
     /\ e.state = "Assigned" /\ signer = e.attestor /\ e.contributor # Nobody
     /\ balance' = Moved(Moved(balance, e.contributor, e.amount), e.feeTo, e.fee)
     /\ CloseEscrow(b, e.amount + e.fee)

\* The funder signs.
GiveBack(b) ==
  LET e == escrow[b] IN
  /\ balance' = Moved(balance, e.funder, e.amount + e.fee)
  /\ CloseEscrow(b, e.amount + e.fee)

\* Mutant: only an escrow nobody is assigned on is refunded.
Refund_Funded(b) ==
  /\ escrow[b] # NoEscrow
  /\ escrow[b].state = "Funded" /\ now >= escrow[b].deadline
  /\ GiveBack(b)

Refund(b) ==
  /\ escrow[b] # NoEscrow
  /\ escrow[b].state \in {"Funded", "Assigned"} /\ now >= escrow[b].deadline
  /\ GiveBack(b)

\* Mutant: what matters is that nobody is assigned right now.
Cancel_Now(b) ==
  /\ escrow[b] # NoEscrow
  /\ escrow[b].state = "Funded" /\ escrow[b].contributor = Nobody
  /\ GiveBack(b)

Cancel(b) ==
  /\ escrow[b] # NoEscrow
  /\ escrow[b].state = "Funded" /\ ~escrow[b].everAssigned
  /\ GiveBack(b)

\* An ordinary transfer, to which the program is not asked.
PayIn(b, k, n) ==
  /\ escrow[b] # NoEscrow /\ n <= balance[k]
  /\ vault'   = [vault EXCEPT ![b] = @ + n]
  /\ balance' = Moved(balance, k, -n)
  /\ UNCHANGED <<escrow, now, named>>

Tick ==
  /\ now < MaxTime
  /\ now' = now + 1
  /\ UNCHANGED <<escrow, vault, balance, named>>

Next ==
  \/ \E b \in Bounty, k, attestor, feeTo \in Key, t \in Terms, mode \in {"Draw", "SelfAssign"}, deadline \in 0 .. MaxTime :
       Initialize(b, k, t, attestor, feeTo, mode, deadline)
  \/ \E b \in Bounty, signer, k \in Key : Assign(b, signer, k)
  \/ \E b \in Bounty, signer \in Key : Unassign(b, signer) \/ Release(b, signer)
  \/ \E b \in Bounty : Refund(b) \/ Cancel(b)
  \/ \E b \in Bounty, k \in Key, n \in Gift : PayIn(b, k, n)
  \/ Tick

Spec == Init /\ [][Next]_vars

\* Time passes, and a funder who may have a refund asks for it; nobody else need act.
FairSpec == Spec /\ WF_vars(Tick) /\ \A b \in Bounty : WF_vars(Refund(b))

-----------------------------------------------------------------------------
(* Properties.                                                             *)

\* What an escrow owes, and whether somebody put more than that into its vault.
Owed(b) == escrow[b].amount + escrow[b].fee
Overfull(b) == escrow[b] # NoEscrow /\ vault[b] > Owed(b)

\* Every vault holds what its escrow will pay out, whatever the order of
\* assignments, closings and new escrows under the same bounty.
Backed ==
  \A b \in Bounty : IF escrow[b] = NoEscrow THEN vault[b] = 0 ELSE vault[b] >= Owed(b)

\* The fee of an escrow is the least sum that is no less than its percentage and
\* no less than its floor.
FeeIsQuoted ==
  \A b \in Bounty : escrow[b] # NoEscrow =>
    LET e == escrow[b]
        covers(n) == n * BpsUnit >= e.amount * e.bps /\ n >= e.minimum
    IN covers(e.fee) /\ (e.fee > 0 => ~covers(e.fee - 1))

\* The account remembers exactly whether anybody was ever named.
RemembersAssignment ==
  \A b \in Bounty : escrow[b] # NoEscrow =>
    /\ escrow[b].everAssigned <=> named[b] # {}
    /\ escrow[b].contributor \in named[b] \cup {Nobody}
    /\ escrow[b].state = "Assigned" <=> escrow[b].contributor # Nobody

\* Funds are stuck for one cause only: if the attestor, the contributor and the
\* funder's other wishes all stop, the refund alone empties the escrow, unless
\* somebody paid into its vault.
FundsReturn == \A b \in Bounty : escrow[b] # NoEscrow ~> escrow[b] = NoEscrow \/ Overfull(b)

\* Money locked leaves in one piece, to somebody it was promised to, or back to
\* the funder if it was never promised or is late; with what is not the funder's
\* in the vault it does not leave at all.
DepositOf(b) ==
  IF escrow[b] = NoEscrow THEN NoEscrow
  ELSE [amount |-> Owed(b), extra |-> vault[b] - Owed(b), funder |-> escrow[b].funder,
        promised |-> named[b], late |-> now >= escrow[b].deadline]

Deposits == [b \in Bounty |-> DepositOf(b)]

Promised == INSTANCE EscrowPromise WITH NoDeposit <- NoEscrow, deposit <- Deposits

ASSUME NoDepositAssumption == NoEscrow \notin Promised!Deposit

KeepsPromise == Promised!Spec
===============================================================================
