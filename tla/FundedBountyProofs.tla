-------------------------- MODULE FundedBountyProofs --------------------------
(***************************************************************************)
(* Of BountyEscrow, for any bounties, keys, terms and clock: vaults are    *)
(* backed, fees are the quoted ones, and the program implements            *)
(* EscrowPromise, so that a funder who ever named a contributor waits for  *)
(* the deadline.  The inductive invariant is the conjunction of the        *)
(* invariants of the runs.                                                 *)
(*                                                                         *)
(* Of FundedBounty, for any applicants, offers and bounds: the agent's     *)
(* mirror of the program against the program itself, whatever the funder,  *)
(* the attestor, the sweep and crashes do in between.                      *)
(***************************************************************************)
EXTENDS FundedBounty, SequenceTheorems, WellFoundedInduction, TLAPS

Inv == TypeOK /\ Backed /\ FeeIsQuoted /\ RemembersAssignment

-----------------------------------------------------------------------------
(* The fee.                                                                *)

LEMMA RoundedUp ==
  ASSUME NEW n \in Nat, NEW d \in Nat \ {0}
  PROVE  LET q == (n + d - 1) \div d IN q \in Nat /\ q * d >= n /\ (q - 1) * d < n
<1>1. (n + d - 1) \div d \in Int /\ d * ((n + d - 1) \div d) <= n + d - 1 /\ n + d - 1 < d * ((n + d - 1) \div d) + d
  BY SMT
<1> QED BY <1>1, SMT

LEMMA FeeCovers ==
  ASSUME NEW t \in [amount : Nat, bps : Nat, minimum : Nat]
  PROVE  /\ Fee(t) \in Nat
         /\ Fee(t) * BpsUnit >= t.amount * t.bps /\ Fee(t) >= t.minimum
         /\ Fee(t) > 0 => ~((Fee(t) - 1) * BpsUnit >= t.amount * t.bps /\ Fee(t) - 1 >= t.minimum)
<1> DEFINE n == t.amount * t.bps
           q == (n + BpsUnit - 1) \div BpsUnit
<1>1. n \in Nat /\ t.minimum \in Nat /\ BpsUnit \in Nat \ {0}
  BY EscrowConstants
<1>2. q \in Nat /\ q * BpsUnit >= n /\ (q - 1) * BpsUnit < n
  BY <1>1, RoundedUp
<1>3. Fee(t) = IF q >= t.minimum THEN q ELSE t.minimum
  BY DEF Fee, Greater
<1>4. CASE q >= t.minimum
  BY <1>1, <1>2, <1>3, <1>4
<1>5. CASE ~(q >= t.minimum)
  <2>1. t.minimum * BpsUnit >= q * BpsUnit
    BY <1>1, <1>2, <1>5
  <2> QED BY <1>1, <1>2, <1>3, <1>5, <2>1
<1> QED BY <1>4, <1>5

-----------------------------------------------------------------------------
(* Balances.                                                               *)

LEMMA MovedType ==
  ASSUME NEW bal \in [Key -> Nat], NEW k \in Key, NEW n \in Int, bal[k] + n >= 0
  PROVE  Moved(bal, k, n) \in [Key -> Nat]
BY DEF Moved

-----------------------------------------------------------------------------
LEMMA InitInv == Init => Inv
<1> SUFFICES ASSUME Init PROVE Inv
  OBVIOUS
<1>1. TypeOK
  BY EscrowConstants DEF Init, TypeOK
<1>2. Backed /\ FeeIsQuoted /\ RemembersAssignment
  BY DEF Init, Backed, Owed, FeeIsQuoted, RemembersAssignment
<1> QED BY <1>1, <1>2 DEF Inv

LEMMA InitializeInv ==
  ASSUME Inv, NEW b \in Bounty, NEW k \in Key, NEW attestor \in Key, NEW feeTo \in Key,
         NEW t \in [amount : Nat, bps : Nat, minimum : Nat],
         NEW mode \in {"Draw", "SelfAssign"}, NEW deadline \in 0 .. MaxTime,
         Initialize(b, k, t, attestor, feeTo, mode, deadline)
  PROVE  Inv'
<1> DEFINE e == [funder |-> k, attestor |-> attestor, feeTo |-> feeTo, mode |-> mode,
                 amount |-> t.amount, bps |-> t.bps, minimum |-> t.minimum, fee |-> Fee(t),
                 deadline |-> deadline, state |-> "Funded", contributor |-> Nobody, everAssigned |-> FALSE]
<1>t. t \in [amount : Nat, bps : Nat, minimum : Nat]
  OBVIOUS
<1>f. /\ Fee(t) \in Nat
      /\ Fee(t) * BpsUnit >= t.amount * t.bps /\ Fee(t) >= t.minimum
      /\ Fee(t) > 0 => ~((Fee(t) - 1) * BpsUnit >= t.amount * t.bps /\ Fee(t) - 1 >= t.minimum)
  BY <1>t, FeeCovers
<1>e. e \in Escrow
  <2>1. t.amount \in Nat \ {0} /\ t.bps \in 0 .. MaxBps /\ t.minimum \in Nat
    BY <1>t, EscrowConstants DEF Initialize, Acceptable
  <2> QED BY <2>1, <1>f DEF Escrow
<1>n. e # NoEscrow
  BY <1>e, NoEscrowAssumption
<1>1. /\ escrow' = [escrow EXCEPT ![b] = e]
      /\ vault' = [vault EXCEPT ![b] = t.amount + Fee(t)]
      /\ named' = [named EXCEPT ![b] = {}]
      /\ now' = now
      /\ balance' = Moved(balance, k, -(t.amount + Fee(t)))
      /\ t.amount + Fee(t) <= balance[k]
  BY DEF Initialize
<1>2. TypeOK'
  <2>1. balance' \in [Key -> Nat]
    BY <1>1, <1>t, <1>f, MovedType DEF Inv, TypeOK
  <2> HIDE DEF e
  <2> QED BY <1>1, <1>e, <1>t, <1>f, <2>1 DEF Inv, TypeOK
<1>3. escrow' = [escrow EXCEPT ![b] = e] /\ escrow \in [Bounty -> Escrow \cup {NoEscrow}]
  BY <1>1 DEF Inv, TypeOK
<1>4. Backed'
  <2>1. t.amount + Fee(t) \in Nat
    BY <1>t, <1>f
  <2>2. e.amount + e.fee = t.amount + Fee(t)
    OBVIOUS
  <2> HIDE DEF e
  <2> QED BY <1>1, <1>3, <1>n, <2>1, <2>2 DEF Inv, TypeOK, Backed, Owed
<1>5. FeeIsQuoted'
  BY <1>3, <1>f DEF Inv, FeeIsQuoted
<1>6. RemembersAssignment'
  BY <1>1, <1>3 DEF Inv, TypeOK, RemembersAssignment
<1> QED BY <1>2, <1>4, <1>5, <1>6 DEF Inv

\* An open escrow's record, and what the invariant says of it.
LEMMA OpenEscrow ==
  ASSUME Inv, NEW b \in Bounty, escrow[b] # NoEscrow
  PROVE  /\ escrow[b] \in Escrow
         /\ Owed(b) = escrow[b].amount + escrow[b].fee
         /\ Owed(b) \in Nat \ {0} /\ vault[b] \in Nat /\ vault[b] >= Owed(b)
BY DEF Inv, TypeOK, Backed, Owed, Escrow

LEMMA AssignInv ==
  ASSUME Inv, NEW b \in Bounty, NEW signer \in Key, NEW k \in Key, Assign(b, signer, k)
  PROVE  Inv'
<1> DEFINE e == [escrow[b] EXCEPT !.contributor = k, !.everAssigned = TRUE, !.state = "Assigned"]
<1>o. escrow[b] \in Escrow
  BY OpenEscrow DEF Assign
<1>e. /\ e \in Escrow
      /\ e.amount = escrow[b].amount /\ e.fee = escrow[b].fee
      /\ e.bps = escrow[b].bps /\ e.minimum = escrow[b].minimum
      /\ e.contributor = k /\ e.everAssigned = TRUE /\ e.state = "Assigned"
  BY <1>o DEF Escrow
<1>1. /\ escrow' = [escrow EXCEPT ![b] = e]
      /\ named' = [named EXCEPT ![b] = @ \cup {k}]
      /\ vault' = vault /\ balance' = balance /\ now' = now
      /\ escrow[b] # NoEscrow
  BY DEF Assign
<1>k. k # Nobody /\ e # NoEscrow
  BY <1>e, NobodyAssumption, NoEscrowAssumption
<1> HIDE DEF e
<1>2. TypeOK'
  BY <1>1, <1>e DEF Inv, TypeOK
<1>3. Backed'
  BY <1>1, <1>e, <1>k DEF Inv, TypeOK, Backed, Owed
<1>4. FeeIsQuoted'
  BY <1>1, <1>e DEF Inv, TypeOK, FeeIsQuoted
<1>5. RemembersAssignment'
  BY <1>1, <1>e, <1>k DEF Inv, TypeOK, RemembersAssignment
<1> QED BY <1>2, <1>3, <1>4, <1>5 DEF Inv

LEMMA UnassignInv ==
  ASSUME Inv, NEW b \in Bounty, NEW signer \in Key, Unassign(b, signer)
  PROVE  Inv'
<1> DEFINE e == [escrow[b] EXCEPT !.contributor = Nobody, !.state = "Funded"]
<1>o. escrow[b] \in Escrow
  BY OpenEscrow DEF Unassign
<1>e. /\ e \in Escrow
      /\ e.amount = escrow[b].amount /\ e.fee = escrow[b].fee
      /\ e.bps = escrow[b].bps /\ e.minimum = escrow[b].minimum
      /\ e.contributor = Nobody /\ e.everAssigned = escrow[b].everAssigned /\ e.state = "Funded"
  BY <1>o DEF Escrow
<1>1. /\ escrow' = [escrow EXCEPT ![b] = e]
      /\ named' = named /\ vault' = vault /\ balance' = balance /\ now' = now
      /\ escrow[b] # NoEscrow
  BY DEF Unassign
<1>k. e # NoEscrow
  BY <1>e, NoEscrowAssumption
<1> HIDE DEF e
<1>2. TypeOK'
  BY <1>1, <1>e DEF Inv, TypeOK
<1>3. Backed'
  BY <1>1, <1>e, <1>k DEF Inv, TypeOK, Backed, Owed
<1>4. FeeIsQuoted'
  BY <1>1, <1>e DEF Inv, TypeOK, FeeIsQuoted
<1>5. RemembersAssignment'
  BY <1>1, <1>e, <1>k DEF Inv, TypeOK, RemembersAssignment
<1> QED BY <1>2, <1>3, <1>4, <1>5 DEF Inv

\* Closing an escrow, with whatever balances.
LEMMA CloseInv ==
  ASSUME Inv, NEW b \in Bounty, NEW paid, CloseEscrow(b, paid), balance' \in [Key -> Nat]
  PROVE  Inv'
<1>1. /\ vault' = [vault EXCEPT ![b] = 0] /\ escrow' = [escrow EXCEPT ![b] = NoEscrow]
      /\ now' = now /\ named' = named
  BY DEF CloseEscrow
<1>2. TypeOK'
  BY <1>1 DEF Inv, TypeOK
<1>3. Backed'
  BY <1>1 DEF Inv, TypeOK, Backed, Owed
<1>4. FeeIsQuoted'
  BY <1>1 DEF Inv, TypeOK, FeeIsQuoted
<1>5. RemembersAssignment'
  BY <1>1 DEF Inv, TypeOK, RemembersAssignment
<1> QED BY <1>2, <1>3, <1>4, <1>5 DEF Inv

LEMMA ReleaseInv ==
  ASSUME Inv, NEW b \in Bounty, NEW signer \in Key, Release(b, signer)
  PROVE  Inv'
<1> DEFINE e == escrow[b]
           paid == Moved(balance, e.contributor, e.amount)
<1>1. /\ e # NoEscrow /\ e.contributor # Nobody
      /\ balance' = Moved(paid, e.feeTo, e.fee)
      /\ CloseEscrow(b, e.amount + e.fee)
  BY DEF Release
<1>2. e.contributor \in Key /\ e.feeTo \in Key /\ e.amount \in Nat /\ e.fee \in Nat
  BY <1>1, OpenEscrow DEF Escrow
<1>b. balance \in [Key -> Nat]
  BY DEF Inv, TypeOK
<1>3. paid \in [Key -> Nat]
  BY <1>2, <1>b, MovedType
<1> HIDE DEF paid, e
<1>4. balance' \in [Key -> Nat]
  BY <1>1, <1>2, <1>3, MovedType
<1> QED BY <1>1, <1>4, CloseInv

LEMMA GiveBackInv ==
  ASSUME Inv, NEW b \in Bounty, escrow[b] # NoEscrow, GiveBack(b)
  PROVE  Inv'
<1> DEFINE e == escrow[b]
<1>1. e.funder \in Key /\ e.amount \in Nat /\ e.fee \in Nat
  BY OpenEscrow DEF Escrow
<1>2. balance' = Moved(balance, e.funder, e.amount + e.fee) /\ CloseEscrow(b, e.amount + e.fee)
  BY DEF GiveBack
<1>3. balance' \in [Key -> Nat]
  BY <1>1, <1>2, MovedType DEF Inv, TypeOK
<1> QED BY <1>2, <1>3, CloseInv

\* A transfer into a vault: it holds more than it has to.
LEMMA PayInInv ==
  ASSUME Inv, NEW b \in Bounty, NEW k \in Key, NEW n \in Nat, PayIn(b, k, n)
  PROVE  Inv'
<1>1. /\ escrow[b] # NoEscrow /\ n <= balance[k] /\ vault' = [vault EXCEPT ![b] = vault[b] + n]
      /\ balance' = Moved(balance, k, -n) /\ escrow' = escrow /\ now' = now /\ named' = named
  BY DEF PayIn
<1>2. TypeOK'
  <2>1. balance' \in [Key -> Nat]
    BY <1>1, MovedType DEF Inv, TypeOK
  <2> QED BY <1>1, <2>1 DEF Inv, TypeOK
<1>3. Backed'
  <2> SUFFICES ASSUME NEW c \in Bounty
               PROVE  IF escrow[c] = NoEscrow THEN vault'[c] = 0 ELSE vault'[c] >= escrow[c].amount + escrow[c].fee
    BY <1>1 DEF Backed, Owed
  <2>1. CASE c = b
    <3>1. escrow[b] \in Escrow /\ vault[b] \in Nat /\ vault[b] >= escrow[b].amount + escrow[b].fee
      BY <1>1, OpenEscrow
    <3>2. escrow[b].amount + escrow[b].fee \in Nat
      BY <3>1 DEF Escrow
    <3>3. vault'[b] = vault[b] + n
      BY <1>1 DEF Inv, TypeOK
    <3> QED BY <1>1, <2>1, <3>1, <3>2, <3>3
  <2>2. CASE c # b
    BY <1>1, <2>2 DEF Inv, TypeOK, Backed, Owed
  <2> QED BY <2>1, <2>2
<1>4. FeeIsQuoted' /\ RemembersAssignment'
  BY <1>1 DEF Inv, FeeIsQuoted, RemembersAssignment
<1> QED BY <1>2, <1>3, <1>4 DEF Inv

LEMMA StepInv == Inv /\ [Next]_vars => Inv'
<1> SUFFICES ASSUME Inv, [Next]_vars PROVE Inv'
  OBVIOUS
<1>1. ASSUME NEW b \in Bounty, NEW k \in Key, NEW attestor \in Key, NEW feeTo \in Key, NEW t \in Terms,
             NEW mode \in {"Draw", "SelfAssign"}, NEW deadline \in 0 .. MaxTime,
             Initialize(b, k, t, attestor, feeTo, mode, deadline)
      PROVE  Inv'
  BY <1>1, InitializeInv, EscrowConstants
<1>2. ASSUME NEW b \in Bounty, NEW signer \in Key, NEW k \in Key, Assign(b, signer, k)
      PROVE  Inv'
  BY <1>2, AssignInv
<1>3. ASSUME NEW b \in Bounty, NEW signer \in Key, Unassign(b, signer)
      PROVE  Inv'
  BY <1>3, UnassignInv
<1>4. ASSUME NEW b \in Bounty, NEW signer \in Key, Release(b, signer)
      PROVE  Inv'
  BY <1>4, ReleaseInv
<1>5. ASSUME NEW b \in Bounty, Refund(b) \/ Cancel(b)
      PROVE  Inv'
  BY <1>5, GiveBackInv DEF Refund, Cancel
<1>p. ASSUME NEW b \in Bounty, NEW k \in Key, NEW n \in Gift, PayIn(b, k, n)
      PROVE  Inv'
  BY <1>p, PayInInv, EscrowConstants
<1>6. CASE Tick
  <2>1. now' \in 0 .. MaxTime /\ UNCHANGED <<escrow, vault, balance, named>>
    BY <1>6, EscrowConstants DEF Tick, Inv, TypeOK
  <2> QED BY <2>1 DEF Inv, TypeOK, Backed, Owed, FeeIsQuoted, RemembersAssignment
<1>7. CASE UNCHANGED vars
  BY <1>7 DEF vars, Inv, TypeOK, Backed, Owed, FeeIsQuoted, RemembersAssignment
<1> QED BY <1>1, <1>2, <1>3, <1>4, <1>5, <1>p, <1>6, <1>7 DEF Next

LEMMA Invariance == Spec => []Inv
<1> QED BY InitInv, StepInv, PTL DEF Spec

-----------------------------------------------------------------------------
\* Every vault holds what its escrow will pay out, at the least: initialize locks
\* it, no order of the instructions moves a part of it, and what others transfer
\* into the vault only adds to it.
THEOREM VaultsBacked == Spec => []Backed
<1>1. Inv => Backed
  BY DEF Inv
<1> QED BY <1>1, Invariance, PTL

\* The fee kept on every escrow is the least that covers the percentage and the
\* floor of initialize, for every amount and every percentage.
THEOREM FeesAsQuoted == Spec => []FeeIsQuoted
<1>1. Inv => FeeIsQuoted
  BY DEF Inv
<1> QED BY <1>1, Invariance, PTL

\* The flag ever_assigned, which cancel relies on, tells exactly whether anybody
\* was named since initialize.
THEOREM AssignmentRemembered == Spec => []RemembersAssignment
<1>1. Inv => RemembersAssignment
  BY DEF Inv
<1> QED BY <1>1, Invariance, PTL

\* The accounts of the program keep their types: no balance is overdrawn.
THEOREM EscrowTypes == Spec => []TypeOK
<1>1. Inv => TypeOK
  BY DEF Inv
<1> QED BY <1>1, Invariance, PTL
-----------------------------------------------------------------------------
(* The refinement: how each instruction changes the deposits.              *)

\* The deposits after a step that rewrites what belongs to one bounty.
LEMMA OneDeposit ==
  ASSUME NEW b \in Bounty, now' = now,
         \A c \in Bounty \ {b} : escrow'[c] = escrow[c] /\ vault'[c] = vault[c] /\ named'[c] = named[c]
  PROVE  Deposits' = [Deposits EXCEPT ![b] = DepositOf(b)']
<1>1. Deposits' = [c \in Bounty |-> DepositOf(c)'] /\ Deposits = [c \in Bounty |-> DepositOf(c)]
  BY DEF Deposits
<1>2. \A c \in Bounty \ {b} : DepositOf(c)' = DepositOf(c)
  BY DEF DepositOf, Owed
<1> HIDE DEF DepositOf
<1> QED BY <1>1, <1>2

LEMMA DepositLate ==
  ASSUME NEW a, NEW z, NEW f, NEW p, NEW x, NEW y, NEW d,
         d = [amount |-> a, extra |-> z, funder |-> f, promised |-> p, late |-> x >= y]
  PROVE  [d EXCEPT !.late = TRUE] = [amount |-> a, extra |-> z, funder |-> f, promised |-> p, late |-> TRUE]
<1> DEFINE w == x >= y
           t == TRUE
<1>1. d = [amount |-> a, extra |-> z, funder |-> f, promised |-> p, late |-> w]
  OBVIOUS
<1> HIDE DEF w, t
<1>2. [d EXCEPT !.late = t] = [amount |-> a, extra |-> z, funder |-> f, promised |-> p, late |-> t]
  BY <1>1
<1> QED BY <1>2, Zenon DEF t

LEMMA OpenDeposit ==
  ASSUME Inv, NEW b \in Bounty, escrow[b] # NoEscrow
  PROVE  /\ Deposits[b] = [amount |-> Owed(b), extra |-> vault[b] - Owed(b), funder |-> escrow[b].funder, promised |-> named[b],
                           late |-> now >= escrow[b].deadline]
         /\ Deposits[b] \in Promised!Deposit
         /\ Deposits[b] # NoEscrow
         /\ Deposits[b].amount = Owed(b) /\ Deposits[b].extra = vault[b] - Owed(b) /\ Deposits[b].funder = escrow[b].funder
         /\ Deposits[b].promised = named[b] /\ Deposits[b].late = (now >= escrow[b].deadline)
<1>1. Deposits[b] = [amount |-> Owed(b), extra |-> vault[b] - Owed(b), funder |-> escrow[b].funder, promised |-> named[b],
                    late |-> now >= escrow[b].deadline]
  BY DEF Deposits, DepositOf
<1>2. Deposits[b] \in Promised!Deposit
  BY <1>1, OpenEscrow DEF Promised!Deposit, Escrow, Inv, TypeOK
<1>3. /\ Deposits[b].amount = Owed(b) /\ Deposits[b].extra = vault[b] - Owed(b) /\ Deposits[b].funder = escrow[b].funder
      /\ Deposits[b].promised = named[b] /\ Deposits[b].late = (now >= escrow[b].deadline)
  <2> DEFINE d == Deposits[b]
             a == Owed(b)
             z == vault[b] - Owed(b)
             f == escrow[b].funder
             p == named[b]
             y == escrow[b].deadline
  <2>1. d = [amount |-> a, extra |-> z, funder |-> f, promised |-> p, late |-> now >= y]
    BY <1>1
  <2> HIDE DEF d, a, z, f, p, y
  <2>2. d.amount = a /\ d.extra = z /\ d.funder = f /\ d.promised = p /\ d.late = (now >= y)
    BY <2>1, Zenon
  <2> QED BY <2>2 DEF d, a, z, f, p, y
<1>4. Deposits[b] # NoEscrow
  BY <1>2, NoDepositAssumption
<1> QED BY <1>1, <1>2, <1>3, <1>4, Zenon

LEMMA InitRefines == Init => Promised!Init
<1> SUFFICES ASSUME Init PROVE Promised!Init
  OBVIOUS
<1>1. balance \in [Key -> Nat]
  BY EscrowConstants DEF Init
<1>2. Deposits = [b \in Bounty |-> NoEscrow]
  BY DEF Init, Deposits, DepositOf
<1> QED BY <1>1, <1>2 DEF Promised!Init

LEMMA InitializeRefines ==
  ASSUME Inv, Inv', NEW b \in Bounty, NEW k \in Key, NEW attestor \in Key, NEW feeTo \in Key,
         NEW t \in [amount : Nat, bps : Nat, minimum : Nat],
         NEW mode \in {"Draw", "SelfAssign"}, NEW deadline \in 0 .. MaxTime,
         Initialize(b, k, t, attestor, feeTo, mode, deadline)
  PROVE  Promised!Fund(b)
<1> DEFINE d == DepositOf(b)'
<1>1. /\ escrow[b] = NoEscrow /\ escrow'[b] # NoEscrow
      /\ escrow'[b].funder = k /\ escrow'[b].deadline = deadline /\ deadline > now
      /\ Owed(b)' = t.amount + Fee(t) /\ vault'[b] = t.amount + Fee(t) /\ named'[b] = {} /\ now' = now
      /\ balance' = Moved(balance, k, -(t.amount + Fee(t))) /\ t.amount + Fee(t) <= balance[k]
  <2>1. escrow'[b] = [funder |-> k, attestor |-> attestor, feeTo |-> feeTo, mode |-> mode,
           amount |-> t.amount, bps |-> t.bps, minimum |-> t.minimum, fee |-> Fee(t),
           deadline |-> deadline, state |-> "Funded", contributor |-> Nobody, everAssigned |-> FALSE]
    BY DEF Initialize, Inv, TypeOK
  <2>2. vault'[b] = t.amount + Fee(t) /\ t.amount + Fee(t) > 0
    <3>1. t \in [amount : Nat, bps : Nat, minimum : Nat] /\ Fee(t) \in Nat
      BY EscrowConstants, FeeCovers
    <3> QED BY <3>1 DEF Initialize, Acceptable, Inv, TypeOK
  <2>3. escrow'[b] # NoEscrow
    BY <2>2, EscrowConstants, FeeCovers DEF Inv, Backed, Owed
  <2>4. Owed(b)' = t.amount + Fee(t)
    BY <2>1 DEF Owed
  <2> QED BY <2>1, <2>2, <2>3, <2>4 DEF Initialize, Acceptable, Inv, TypeOK
<1>t. t.amount + Fee(t) \in Nat \ {0}
  <2>1. t \in [amount : Nat, bps : Nat, minimum : Nat] /\ Fee(t) \in Nat
    BY EscrowConstants, FeeCovers
  <2> QED BY <2>1 DEF Initialize, Acceptable
<1>2. d = [amount |-> t.amount + Fee(t), extra |-> 0, funder |-> k, promised |-> {}, late |-> FALSE]
  <2>1. (now' >= escrow'[b].deadline) = FALSE
    BY <1>1 DEF Inv, TypeOK
  <2>2. vault'[b] - Owed(b)' = 0
    BY <1>1, <1>t
  <2> QED BY <1>1, <2>1, <2>2 DEF DepositOf
<1>3. Deposits'[b] = d /\ d \in Promised!Deposit
  <2>1. k \in Key
    OBVIOUS
  <2> QED BY <1>2, <1>t, <2>1 DEF Deposits, Promised!Deposit
<1>4. Deposits' = [Deposits EXCEPT ![b] = d]
  BY <1>1, OneDeposit DEF Initialize, Inv, TypeOK
<1>5. Deposits[b] = NoEscrow
  BY <1>1 DEF Deposits, DepositOf
<1>6. balance' = Promised!Moved(balance, d.funder, -d.amount) /\ d.amount <= balance[d.funder]
  BY <1>1, <1>2 DEF Moved, Promised!Moved
<1>7. d.extra = 0 /\ d.promised = {} /\ ~d.late
  BY <1>2
<1> HIDE DEF d
<1> QED BY <1>3, <1>4, <1>5, <1>6, <1>7 DEF Promised!Fund
LEMMA AssignRefines ==
  ASSUME Inv, NEW b \in Bounty, NEW signer \in Key, NEW k \in Key, Assign(b, signer, k)
  PROVE  Promised!Promise(b, k)
<1>1. /\ escrow[b] # NoEscrow
      /\ escrow' = [escrow EXCEPT ![b] =
           [escrow[b] EXCEPT !.contributor = k, !.everAssigned = TRUE, !.state = "Assigned"]]
      /\ named' = [named EXCEPT ![b] = named[b] \cup {k}]
      /\ vault' = vault /\ balance' = balance /\ now' = now
  BY DEF Assign
<1>2. escrow[b] \in Escrow
  BY <1>1, OpenEscrow
<1>3. /\ escrow'[b] \in Escrow
      /\ escrow'[b].funder = escrow[b].funder /\ escrow'[b].deadline = escrow[b].deadline
      /\ escrow'[b].amount = escrow[b].amount /\ escrow'[b].fee = escrow[b].fee
  <2>1. escrow'[b] = [escrow[b] EXCEPT !.contributor = k, !.everAssigned = TRUE, !.state = "Assigned"]
    BY <1>1 DEF Inv, TypeOK
  <2> QED BY <1>2, <2>1 DEF Escrow
<1>4. DepositOf(b)' = [amount |-> Owed(b), extra |-> vault[b] - Owed(b), funder |-> escrow[b].funder,
                       promised |-> named[b] \cup {k}, late |-> now >= escrow[b].deadline]
  BY <1>1, <1>3, NoEscrowAssumption DEF DepositOf, Owed, Inv, TypeOK
<1>5. Deposits' = [Deposits EXCEPT ![b] = DepositOf(b)']
  BY <1>1, OneDeposit DEF Inv, TypeOK
<1>6. Deposits' = [Deposits EXCEPT ![b].promised = @ \cup {k}]
  <2>1. Deposits[b] = [amount |-> Owed(b), extra |-> vault[b] - Owed(b), funder |-> escrow[b].funder, promised |-> named[b],
                       late |-> now >= escrow[b].deadline]
    BY <1>1, OpenDeposit
  <2>2. DepositOf(b)' = [Deposits[b] EXCEPT !.promised = Deposits[b].promised \cup {k}]
    BY <1>4, <2>1
  <2> QED BY <1>5, <2>2 DEF Deposits
<1>7. Deposits[b] # NoEscrow
  BY <1>1, OpenDeposit
<1> QED BY <1>1, <1>6, <1>7 DEF Promised!Promise

LEMMA UnassignRefines ==
  ASSUME Inv, NEW b \in Bounty, NEW signer \in Key, Unassign(b, signer)
  PROVE  UNCHANGED Promised!vars
<1>1. /\ escrow[b] # NoEscrow
      /\ escrow' = [escrow EXCEPT ![b] = [escrow[b] EXCEPT !.contributor = Nobody, !.state = "Funded"]]
      /\ named' = named /\ vault' = vault /\ balance' = balance /\ now' = now
  BY DEF Unassign
<1>2. escrow[b] \in Escrow
  BY <1>1, OpenEscrow
<1>3. /\ escrow'[b] \in Escrow
      /\ escrow'[b].funder = escrow[b].funder /\ escrow'[b].deadline = escrow[b].deadline
      /\ escrow'[b].amount = escrow[b].amount /\ escrow'[b].fee = escrow[b].fee
  <2>1. escrow'[b] = [escrow[b] EXCEPT !.contributor = Nobody, !.state = "Funded"]
    BY <1>1 DEF Inv, TypeOK
  <2> QED BY <1>2, <2>1 DEF Escrow
<1>4. DepositOf(b)' = DepositOf(b)
  BY <1>1, <1>3, NoEscrowAssumption DEF DepositOf, Owed
<1>5. Deposits' = [Deposits EXCEPT ![b] = DepositOf(b)']
  BY <1>1, OneDeposit DEF Inv, TypeOK
<1>6. Deposits' = Deposits
  <2>1. Deposits[b] = DepositOf(b)
    BY DEF Deposits
  <2> QED BY <1>4, <1>5, <2>1 DEF Deposits
<1> QED BY <1>1, <1>6 DEF Promised!vars

\* Closing an escrow takes its deposit away.
LEMMA CloseDeposit ==
  ASSUME Inv, NEW b \in Bounty, NEW paid, CloseEscrow(b, paid)
  PROVE  Deposits' = [Deposits EXCEPT ![b] = NoEscrow]
<1>1. /\ vault' = [vault EXCEPT ![b] = 0] /\ escrow' = [escrow EXCEPT ![b] = NoEscrow]
      /\ now' = now /\ named' = named
  BY DEF CloseEscrow
<1>2. DepositOf(b)' = NoEscrow
  BY <1>1 DEF DepositOf, Inv, TypeOK
<1>3. Deposits' = [Deposits EXCEPT ![b] = DepositOf(b)']
  BY <1>1, OneDeposit DEF Inv, TypeOK
<1> QED BY <1>2, <1>3

LEMMA ReleaseRefines ==
  ASSUME Inv, NEW b \in Bounty, NEW signer \in Key, Release(b, signer)
  PROVE  \E k \in Key, feeTo \in Key :
           Deposits[b] # NoEscrow /\ \E n \in 1 .. Deposits[b].amount : Promised!PayOut(b, k, feeTo, n)
<1> DEFINE e == escrow[b]
<1>1. /\ e # NoEscrow /\ e.contributor # Nobody
      /\ balance' = Moved(Moved(balance, e.contributor, e.amount), e.feeTo, e.fee)
      /\ CloseEscrow(b, e.amount + e.fee)
  BY DEF Release
<1>2. /\ e.contributor \in Key /\ e.feeTo \in Key /\ e.amount \in Nat \ {0} /\ e.fee \in Nat
      /\ vault[b] = e.amount + e.fee /\ Owed(b) = e.amount + e.fee
  BY <1>1, OpenEscrow DEF Escrow, CloseEscrow
<1>3. e.contributor \in named[b]
  BY <1>1 DEF Inv, RemembersAssignment
<1>4. Deposits[b] # NoEscrow /\ Deposits[b].amount = vault[b] /\ Deposits[b].extra = 0 /\ Deposits[b].promised = named[b]
  <2>1. vault[b] - Owed(b) = 0
    BY <1>2
  <2>2. /\ Deposits[b] # NoEscrow /\ Deposits[b].amount = Owed(b) /\ Deposits[b].extra = vault[b] - Owed(b)
        /\ Deposits[b].promised = named[b]
    BY <1>1, OpenDeposit
  <2> QED BY <1>2, <2>1, <2>2
<1>5. Deposits' = [Deposits EXCEPT ![b] = NoEscrow]
  BY <1>1, CloseDeposit
<1>6. e.amount \in 1 .. Deposits[b].amount /\ Deposits[b].amount - e.amount = e.fee
  BY <1>2, <1>4
<1>7. balance' = Promised!Moved(Promised!Moved(balance, e.contributor, e.amount), e.feeTo, Deposits[b].amount - e.amount)
  BY <1>1, <1>6 DEF Moved, Promised!Moved
<1>8. Promised!PayOut(b, e.contributor, e.feeTo, e.amount)
  BY <1>2, <1>3, <1>4, <1>5, <1>7 DEF Promised!PayOut
<1> QED BY <1>2, <1>4, <1>6, <1>8

\* The funder's way out of refund and cancel.
LEMMA GiveBackRefines ==
  ASSUME Inv, NEW b \in Bounty, Refund(b) \/ Cancel(b)
  PROVE  Promised!Return(b)
<1>1. /\ escrow[b] # NoEscrow /\ GiveBack(b)
      /\ now >= escrow[b].deadline \/ ~escrow[b].everAssigned
  BY DEF Refund, Cancel
<1>2. balance' = Moved(balance, escrow[b].funder, escrow[b].amount + escrow[b].fee)
  BY <1>1 DEF GiveBack
<1>3. Deposits' = [Deposits EXCEPT ![b] = NoEscrow]
  BY <1>1, CloseDeposit DEF GiveBack
<1>4. /\ Deposits[b].amount = Owed(b) /\ Deposits[b].extra = vault[b] - Owed(b) /\ Deposits[b].funder = escrow[b].funder
      /\ Deposits[b].promised = named[b] /\ Deposits[b].late = (now >= escrow[b].deadline)
      /\ Deposits[b] # NoEscrow
  BY <1>1, OpenDeposit
<1>5. Deposits[b].promised = {} \/ Deposits[b].late
  BY <1>1, <1>4 DEF Inv, RemembersAssignment
<1>e. Deposits[b].extra = 0
  <2>1. vault[b] = escrow[b].amount + escrow[b].fee
    BY <1>1 DEF GiveBack, CloseEscrow
  <2> QED BY <1>1, <1>4, <2>1, OpenEscrow
<1>6. balance' = Promised!Moved(balance, Deposits[b].funder, Deposits[b].amount)
  BY <1>1, <1>2, <1>4, OpenEscrow DEF Moved, Promised!Moved
<1> QED BY <1>3, <1>4, <1>5, <1>e, <1>6 DEF Promised!Return

\* A transfer into the vault adds to what is locked beside the deposit.
LEMMA PayInRefines ==
  ASSUME Inv, NEW b \in Bounty, NEW k \in Key, NEW n \in Nat \ {0}, PayIn(b, k, n)
  PROVE  Promised!Add(b, k)
<1>1. /\ escrow[b] # NoEscrow /\ n <= balance[k] /\ vault' = [vault EXCEPT ![b] = vault[b] + n]
      /\ balance' = Moved(balance, k, -n) /\ escrow' = escrow /\ now' = now /\ named' = named
  BY DEF PayIn
<1>2. /\ vault[b] \in Nat /\ Owed(b) \in Nat /\ vault'[b] = vault[b] + n
  BY <1>1, OpenEscrow DEF Inv, TypeOK
<1>3. DepositOf(b)' = [amount |-> Owed(b), extra |-> (vault[b] - Owed(b)) + n, funder |-> escrow[b].funder,
                       promised |-> named[b], late |-> now >= escrow[b].deadline]
  BY <1>1, <1>2 DEF DepositOf, Owed
<1>4. Deposits' = [Deposits EXCEPT ![b] = DepositOf(b)']
  BY <1>1, OneDeposit
<1>5. Deposits[b] = [amount |-> Owed(b), extra |-> vault[b] - Owed(b), funder |-> escrow[b].funder,
                     promised |-> named[b], late |-> now >= escrow[b].deadline]
  BY <1>1, OpenDeposit
<1>6. DepositOf(b)' = [Deposits[b] EXCEPT !.extra = Deposits[b].extra + n]
  <2> DEFINE d == Deposits[b]
             a == Owed(b)
             z == vault[b] - Owed(b)
             f == escrow[b].funder
             p == named[b]
             w == now >= escrow[b].deadline
  <2>1. d = [amount |-> a, extra |-> z, funder |-> f, promised |-> p, late |-> w]
    BY <1>5
  <2>2. DepositOf(b)' = [amount |-> a, extra |-> z + n, funder |-> f, promised |-> p, late |-> w]
    BY <1>3
  <2> HIDE DEF d, a, z, f, p, w
  <2>3. d.extra = z
    BY <2>1
  <2>4. [d EXCEPT !.extra = d.extra + n] = [amount |-> a, extra |-> z + n, funder |-> f, promised |-> p, late |-> w]
    BY <2>1, <2>3
  <2> QED BY <2>2, <2>4 DEF d
<1>7. Deposits' = [Deposits EXCEPT ![b].extra = @ + n]
  BY <1>4, <1>6 DEF Deposits
<1>8. n \in 1 .. balance[k] /\ balance' = Promised!Moved(balance, k, -n) /\ Deposits[b] # NoEscrow
  <2>1. Deposits[b] # NoEscrow
    BY <1>1, OpenDeposit
  <2>2. balance[k] \in Nat
    BY DEF Inv, TypeOK
  <2>3. n \in 1 .. balance[k]
    BY <1>1, <2>2
  <2>4. balance' = Promised!Moved(balance, k, -n)
    BY <1>1 DEF Moved, Promised!Moved
  <2> QED BY <2>1, <2>3, <2>4
<1>9. \E m \in 1 .. balance[k] : /\ Deposits' = [Deposits EXCEPT ![b].extra = @ + m]
                                 /\ balance' = Promised!Moved(balance, k, -m)
  BY <1>7, <1>8
<1> QED BY <1>8, <1>9 DEF Promised!Add

\* The clock only makes deposits late.
LEMMA TickRefines ==
  ASSUME Inv, Tick
  PROVE  Promised!Wait
<1>1. now' = now + 1 /\ UNCHANGED <<escrow, vault, balance, named>>
  BY DEF Tick
<1>2. ASSUME NEW b \in Bounty
      PROVE  \/ Deposits'[b] = Deposits[b]
             \/ Deposits[b] # NoEscrow /\ Deposits'[b] = [Deposits[b] EXCEPT !.late = TRUE]
  <2>d. Deposits'[b] = DepositOf(b)' /\ Deposits[b] = DepositOf(b)
    BY DEF Deposits
  <2>1. CASE escrow[b] = NoEscrow
    BY <1>1, <2>d, <2>1 DEF DepositOf
  <2>2. CASE escrow[b] # NoEscrow
    <3>1. /\ Deposits[b] # NoEscrow
          /\ Deposits[b] = [amount |-> Owed(b), extra |-> vault[b] - Owed(b), funder |-> escrow[b].funder, promised |-> named[b],
                            late |-> now >= escrow[b].deadline]
      BY <2>2, OpenDeposit
    <3>2. Deposits'[b] = [amount |-> Owed(b), extra |-> vault[b] - Owed(b), funder |-> escrow[b].funder, promised |-> named[b],
                          late |-> now + 1 >= escrow[b].deadline]
      BY <1>1, <2>d, <2>2 DEF DepositOf, Owed
    <3>3. now \in Int /\ escrow[b].deadline \in Int
      BY <2>2, OpenEscrow DEF Escrow, Inv, TypeOK
    <3>4. CASE now + 1 >= escrow[b].deadline
      <4>1. (now + 1 >= escrow[b].deadline) = TRUE
        BY <3>4
      <4>2. [Deposits[b] EXCEPT !.late = TRUE]
              = [amount |-> Owed(b), extra |-> vault[b] - Owed(b), funder |-> escrow[b].funder, promised |-> named[b], late |-> TRUE]
        <5> DEFINE d == Deposits[b]
                   a == Owed(b)
                   z == vault[b] - Owed(b)
                   f == escrow[b].funder
                   p == named[b]
                   y == escrow[b].deadline
        <5>1. d = [amount |-> a, extra |-> z, funder |-> f, promised |-> p, late |-> now >= y]
          BY <3>1
        <5> HIDE DEF d, a, z, f, p, y
        <5>2. [d EXCEPT !.late = TRUE] = [amount |-> a, extra |-> z, funder |-> f, promised |-> p, late |-> TRUE]
          BY <5>1, DepositLate
        <5> QED BY <5>2 DEF d, a, z, f, p, y
      <4> QED BY <3>1, <3>2, <4>1, <4>2, Zenon
    <3>5. CASE ~(now + 1 >= escrow[b].deadline)
      <4>1. (now + 1 >= escrow[b].deadline) = (now >= escrow[b].deadline)
        BY <3>3, <3>5
      <4> QED BY <3>1, <3>2, <4>1
    <3> QED BY <3>4, <3>5
  <2> QED BY <2>1, <2>2
<1>3. DOMAIN Deposits' = Bounty
  BY DEF Deposits
<1> QED BY <1>1, <1>2, <1>3 DEF Promised!Wait

LEMMA StepRefines == Inv /\ Inv' /\ [Next]_vars => [Promised!Next]_(Promised!vars)
<1> SUFFICES ASSUME Inv, Inv', [Next]_vars PROVE [Promised!Next]_(Promised!vars)
  OBVIOUS
<1>1. ASSUME NEW b \in Bounty, NEW k \in Key, NEW attestor \in Key, NEW feeTo \in Key, NEW t \in Terms,
             NEW mode \in {"Draw", "SelfAssign"}, NEW deadline \in 0 .. MaxTime,
             Initialize(b, k, t, attestor, feeTo, mode, deadline)
      PROVE  Promised!Next
  BY <1>1, InitializeRefines, EscrowConstants DEF Promised!Next
<1>2. ASSUME NEW b \in Bounty, NEW signer \in Key, NEW k \in Key, Assign(b, signer, k)
      PROVE  Promised!Next
  BY <1>2, AssignRefines DEF Promised!Next
<1>3. ASSUME NEW b \in Bounty, NEW signer \in Key, Unassign(b, signer)
      PROVE  UNCHANGED Promised!vars
  BY <1>3, UnassignRefines
<1>4. ASSUME NEW b \in Bounty, NEW signer \in Key, Release(b, signer)
      PROVE  Promised!Next
  BY <1>4, ReleaseRefines DEF Promised!Next
<1>5. ASSUME NEW b \in Bounty, Refund(b) \/ Cancel(b)
      PROVE  Promised!Next
  BY <1>5, GiveBackRefines DEF Promised!Next
<1>p. ASSUME NEW b \in Bounty, NEW k \in Key, NEW n \in Gift, PayIn(b, k, n)
      PROVE  Promised!Next
  BY <1>p, PayInRefines, EscrowConstants DEF Promised!Next
<1>6. CASE Tick
  BY <1>6, TickRefines DEF Promised!Next
<1>7. CASE UNCHANGED vars
  BY <1>7 DEF vars, Promised!vars, Deposits, DepositOf, Owed
<1> QED BY <1>1, <1>2, <1>3, <1>4, <1>5, <1>p, <1>6, <1>7 DEF Next

\* The program keeps its promise: whatever the three signers, the clock and others'
\* transfers do, the money leaves in one piece, to somebody the escrow named, or
\* back to the funder if nobody ever was or the deadline has passed.
THEOREM PromiseKept == Spec => KeepsPromise
<1>1. Inv /\ Inv' /\ [Next]_vars => [Promised!Next]_(Promised!vars)
  BY StepRefines
<1> QED BY InitRefines, <1>1, Invariance, PTL DEF Spec, KeepsPromise, Promised!Spec

-----------------------------------------------------------------------------
(* Funded bounties.  The latest of several agreements: a set of numbers    *)
(* has a least, and a bounded one a last.                                  *)

LEMMA Least ==
  ASSUME NEW numbers \in SUBSET Nat, numbers # {}
  PROVE  \E m \in numbers : \A k \in numbers : m <= k
<1> DEFINE R == OpToRel(<, Nat)
<1>1. IsWellFoundedOn(R, Nat)
  BY NatLessThanWellFounded
<1>2. \A x, y \in Nat : x < y => <<x, y>> \in R
  BY DEF OpToRel
<1> HIDE DEF R
<1>3. PICK x \in numbers : \A y \in numbers : ~(<<y, x>> \in R)
  BY <1>1, WFMin
<1>4. \A y \in numbers : ~(y < x)
  BY <1>2, <1>3
<1> QED BY <1>4

LEMMA Last ==
  ASSUME NEW n \in Nat, NEW numbers \in SUBSET (1 .. n), numbers # {}
  PROVE  \E m \in numbers : \A k \in numbers : k <= m
<1> DEFINE below == {n - k : k \in numbers}
<1>0. \A k \in numbers : n - k \in Nat
  OBVIOUS
<1>1. below \subseteq Nat /\ below # {}
  BY <1>0
<1>2. \A k \in numbers : n - k \in below
  OBVIOUS
<1>3. \A x \in below : \E k \in numbers : x = n - k
  OBVIOUS
<1> HIDE DEF below
<1>4. PICK x \in below : \A y \in below : x <= y
  BY <1>1, Least
<1>5. PICK m \in numbers : x = n - m
  BY <1>3
<1>6. \A k \in numbers : n - m <= n - k
  BY <1>2, <1>4, <1>5
<1> QED BY <1>6

\* agreedProposal returns the latest agreement, if there is one.
LEMMA AgreementIsOne ==
  ASSUME FundedTypeOK, NEW i
  PROVE  Agreement(i) \in Nat /\ (Agreed(i) # {} => Agreement(i) \in Agreed(i))
<1>1. Len(props) \in Nat /\ DOMAIN props = 1 .. Len(props)
  BY LenProperties DEF FundedTypeOK
<1>2. Agreed(i) \in SUBSET (1 .. Len(props))
  BY <1>1 DEF Agreed
<1>3. CASE Agreed(i) = {}
  BY <1>3 DEF Agreement
<1>4. CASE Agreed(i) # {}
  <2>1. \E p \in Agreed(i) : \A q \in Agreed(i) : q <= p
    BY <1>1, <1>2, <1>4, Last
  <2>2. Agreement(i) \in Agreed(i)
    BY <1>4, <2>1 DEF Agreement
  <2> QED BY <1>2, <2>2
<1> QED BY <1>3, <1>4

-----------------------------------------------------------------------------
(* Types of the agent's books, and what a lane carries.                    *)

Asg  == [user : Key, status : AsgState, direct : BOOLEAN]
Prop == [asg : Nat, status : {"pending", "accepted", "refused", "withdrawn", "silence"}, done : BOOLEAN]

\* An assignment is changed in place, or added: none disappears.
LEMMA AsgChanged ==
  ASSUME asg \in Seq(Asg), NEW i, NEW status \in AsgState, NEW direct \in BOOLEAN
  PROVE  /\ [asg EXCEPT ![i].status = status] \in Seq(Asg) /\ Len([asg EXCEPT ![i].status = status]) = Len(asg)
         /\ [asg EXCEPT ![i].status = status, ![i].direct = direct] \in Seq(Asg)
         /\ Len([asg EXCEPT ![i].status = status, ![i].direct = direct]) = Len(asg)
<1>1. Len(asg) \in Nat /\ asg \in [1 .. Len(asg) -> Asg] /\ DOMAIN asg = 1 .. Len(asg)
  BY LenProperties
<1>2. CASE i \in 1 .. Len(asg)
  <2>1. asg[i] \in Asg
    BY <1>1, <1>2
  <2>2. [asg[i] EXCEPT !.status = status] \in Asg
    BY <2>1 DEF Asg
  <2>3. [asg[i] EXCEPT !.status = status, !.direct = direct] \in Asg
    BY <2>1 DEF Asg
  <2>4. [asg EXCEPT ![i].status = status] = [asg EXCEPT ![i] = [asg[i] EXCEPT !.status = status]]
    BY <1>1, <1>2
  <2>5. [asg EXCEPT ![i].status = status, ![i].direct = direct] = [asg EXCEPT ![i] = [asg[i] EXCEPT !.status = status, !.direct = direct]]
    BY <1>1, <1>2
  <2> QED BY <1>2, <2>2, <2>3, <2>4, <2>5, ExceptSeq
<1>3. CASE i \notin 1 .. Len(asg)
  <2>1. [asg EXCEPT ![i].status = status] = asg
    BY <1>1, <1>3
  <2>2. [asg EXCEPT ![i].status = status, ![i].direct = direct] = asg
    BY <1>1, <1>3
  <2> QED BY <2>1, <2>2
<1> QED BY <1>2, <1>3

LEMMA PropsChanged ==
  ASSUME props \in Seq(Prop), NEW p, NEW status \in {"pending", "accepted", "refused", "withdrawn", "silence"}
  PROVE  /\ [props EXCEPT ![p].status = status] \in Seq(Prop) /\ [props EXCEPT ![p].done = TRUE] \in Seq(Prop)
         /\ DOMAIN [props EXCEPT ![p].status = status] = DOMAIN props /\ DOMAIN [props EXCEPT ![p].done = TRUE] = DOMAIN props
         /\ \A q \in DOMAIN props : [props EXCEPT ![p].status = status][q].asg = props[q].asg
         /\ \A q \in DOMAIN props : [props EXCEPT ![p].done = TRUE][q].asg = props[q].asg
<1>1. Len(props) \in Nat /\ props \in [1 .. Len(props) -> Prop] /\ DOMAIN props = 1 .. Len(props)
  BY LenProperties
<1>2. CASE p \in 1 .. Len(props)
  <2>1. props[p] \in Prop
    BY <1>1, <1>2
  <2>2. [props[p] EXCEPT !.status = status] \in Prop /\ [props[p] EXCEPT !.status = status].asg = props[p].asg
    BY <2>1 DEF Prop
  <2>3. [props[p] EXCEPT !.done = TRUE] \in Prop /\ [props[p] EXCEPT !.done = TRUE].asg = props[p].asg
    BY <2>1 DEF Prop
  <2>4. [props EXCEPT ![p].status = status] = [props EXCEPT ![p] = [props[p] EXCEPT !.status = status]]
    BY <1>1, <1>2
  <2>5. [props EXCEPT ![p].done = TRUE] = [props EXCEPT ![p] = [props[p] EXCEPT !.done = TRUE]]
    BY <1>1, <1>2
  <2>6. [props EXCEPT ![p].status = status] \in Seq(Prop) /\ [props EXCEPT ![p].done = TRUE] \in Seq(Prop)
    BY <1>2, <2>2, <2>3, <2>4, <2>5, ExceptSeq
  <2> QED BY <1>1, <2>2, <2>3, <2>4, <2>5, <2>6
<1>3. CASE p \notin 1 .. Len(props)
  <2>1. [props EXCEPT ![p].status = status] = props
    BY <1>1, <1>3
  <2>2. [props EXCEPT ![p].done = TRUE] = props
    BY <1>1, <1>3
  <2> QED BY <2>1, <2>2
<1> QED BY <1>2, <1>3

\* What a lane does is one record; a step of it moves on, and keeps what it is about.
LEMMA Carries ==
  ASSUME FundedTypeOK, NEW l \in Lane, job[l].at \in WorkPlace
  PROVE  /\ job[l] \in Working
         /\ \A place \in WorkPlace : LET w == [job[l] EXCEPT !.at = place] IN
              w \in Working /\ w.at = place /\ w.user = job[l].user /\ w.i = job[l].i /\ w.p = job[l].p /\ w.how = job[l].how
<1>1. job[l] \in Working \cup Asking \cup Plain
  BY DEF FundedTypeOK
<1>2. job[l] \in Working
  BY <1>1 DEF Asking, Plain, WorkPlace
<1> QED BY <1>2 DEF Working

LEMMA GoesOn ==
  ASSUME FundedTypeOK, NEW l \in Lane, job[l].at \in WorkPlace, NEW place \in WorkPlace
  PROVE  /\ [job[l] EXCEPT !.at = place] \in Working
         /\ [job[l] EXCEPT !.at = place].at = place
         /\ [job[l] EXCEPT !.at = place].user = job[l].user
         /\ [job[l] EXCEPT !.at = place].i = job[l].i
         /\ [job[l] EXCEPT !.at = place].how = job[l].how
BY Carries DEF Working

LEMMA LiveIs ==
  ASSUME FundedTypeOK
  PROVE  /\ Len(asg) \in Nat /\ DOMAIN asg = 1 .. Len(asg)
         /\ \A i \in 1 .. Len(asg) : asg[i].user \in Key /\ asg[i].status \in AsgState
         /\ Live \subseteq 1 .. Len(asg) /\ LiveRow \in 0 .. Len(asg)
<1>1. asg \in Seq(Asg)
  BY DEF FundedTypeOK, Asg
<1>2. Len(asg) \in Nat /\ DOMAIN asg = 1 .. Len(asg) /\ asg \in [1 .. Len(asg) -> Asg]
  BY <1>1, LenProperties
<1>3. Live \subseteq 1 .. Len(asg)
  BY <1>2 DEF Live
<1>4. LiveRow \in 0 .. Len(asg)
  <2>1. CASE Live = {}
    BY <1>2, <2>1 DEF LiveRow
  <2>2. CASE Live # {}
    <3>1. LiveRow \in Live
      BY <2>2 DEF LiveRow
    <3> QED BY <1>2, <1>3, <3>1
  <2> QED BY <2>1, <2>2
<1> QED BY <1>2, <1>3, <1>4 DEF Asg

-----------------------------------------------------------------------------
(* What a lane may begin or go on with: its types, and, where the step     *)
(* touches nothing but the lane, what the new work means.                  *)

Carried(l, w) ==
  /\ w \in Working \cup Asking \cup Plain
  /\ w.at \in {"reconciling", "unattesting", "unrecording", "closing", "expiring"} => w.i \in 0 .. Len(asg)
  /\ w.at \in {"checking", "releasing"} => w.i \in 1 .. Len(asg)
  /\ w.at \in {"attesting", "recording", "inserting"} => w.user \in Key
  /\ w.at = "answering" => w.how \in {"accepted", "refused"}
  /\ w.at \in {"closing", "expiring"} => w.how \in Ended
  /\ w.at \in {"preparing", "confirming", "listing"} => l = "request"

Meant(l, w) ==
  /\ w.at \in {"inserting", "recording"} => w.user \in named[B] /\ ~unsigned
  /\ w.at = "confirming" => row.state = "funding" /\ ~unsigned
  /\ w.at # "listing"
  /\ l = "sweep" /\ w.at \in {"reconciling", "attesting", "inserting", "recording", "closing", "expiring"} => Settled
  /\ w.at = "closing" => Unpayable

Goes(l, w) == job' = [job EXCEPT ![l] = w]

LEMMA IdleFits == \A l \in Lane : Carried(l, Idle) /\ Meant(l, Idle)
BY DEF Carried, Meant, Idle, Plain

\* What of the invariant the lanes rely on.
LEMMA LaneKnows ==
  ASSUME FundedInductive, NEW l \in Lane
  PROVE  /\ FundedTypeOK /\ AtWork(l) /\ Carried(l, job[l])
         /\ l = "sweep" /\ job[l].at \in {"reconciling", "attesting", "inserting", "recording", "closing", "expiring"} => Settled
         /\ job[l].at \in {"inserting", "recording"} => job[l].user \in named[B] /\ ~unsigned
         /\ escrow[B] # NoEscrow => ~unsigned /\ escrow[B].contributor \in named[B] \cup {Nobody}
         /\ named[B] \subseteq Key
         /\ job["sweep"].at \in {"closing", "reconciling"} => Settled
<1>1. FundedTypeOK /\ AtWork(l) /\ SweepSettled /\ NamedOnChain /\ BeforeFunding /\ RemembersAssignment /\ TypeOK
  BY DEF FundedInductive
<1>2. job[l] \in Working \cup Asking \cup Plain
  BY <1>1 DEF FundedTypeOK
<1>3. Carried(l, job[l])
  BY <1>1, <1>2 DEF AtWork, Carried
<1>4. l = "sweep" /\ job[l].at \in {"reconciling", "attesting", "inserting", "recording", "closing", "expiring"} => Settled
  BY <1>1 DEF SweepSettled
<1>5. /\ job[l].at \in {"inserting", "recording"} => job[l].user \in named[B] /\ ~unsigned
      /\ escrow[B] # NoEscrow => ~unsigned
  BY <1>1 DEF NamedOnChain, BeforeFunding
<1>6. B \in Bounty
  BY FundedConstants
<1>7. named[B] \subseteq Key /\ (escrow[B] # NoEscrow => escrow[B].contributor \in named[B] \cup {Nobody})
  BY <1>1, <1>6 DEF RemembersAssignment, TypeOK
<1>8. job["sweep"].at \in {"closing", "reconciling"} => Settled
  BY <1>1 DEF SweepSettled
<1> QED BY <1>1, <1>3, <1>4, <1>5, <1>7, <1>8

\* The lane ends.
LEMMA Ends ==
  ASSUME NEW l \in Lane, job' = [job EXCEPT ![l] = Idle]
  PROVE  \E w : Goes(l, w) /\ Carried(l, w) /\ Meant(l, w)
BY IdleFits DEF Goes

\* A lane goes on without touching the chain, the row, the bounty, the payout or
\* the transaction that is out.
LEMMA QuietLane ==
  ASSUME FundedInductive, NEW l \in Lane,
         \/ AttestorRefuses(l) \/ AttestorLoses(l) \/ RecordAssignment(l) \/ EndAssignment(l) \/ CarryOut(l)
         \/ SeesClosed(l) \/ SeesNamed(l) \/ SeesNobody(l)
         \/ l = "request" /\ (UnassignChecked \/ WriteAnswer)
  PROVE  \E w : Goes(l, w) /\ Carried(l, w) /\ Meant(l, w)
<1>k. /\ FundedTypeOK /\ AtWork(l) /\ Carried(l, job[l])
      /\ l = "sweep" /\ job[l].at \in {"reconciling", "attesting", "inserting", "recording", "closing", "expiring"} => Settled
      /\ job[l].at \in {"inserting", "recording"} => job[l].user \in named[B] /\ ~unsigned
      /\ escrow[B] # NoEscrow => ~unsigned /\ escrow[B].contributor \in named[B] \cup {Nobody}
      /\ named[B] \subseteq Key
  BY LaneKnows
<1>v. Len(asg) \in Nat /\ Live \subseteq 1 .. Len(asg) /\ \A i \in 1 .. Len(asg) : asg[i].user \in Key
  BY <1>k, LiveIs
<1>a. \A i : Agreement(i) \in Nat
  BY <1>k, AgreementIsOne
<1>1. CASE AttestorRefuses(l) \/ AttestorLoses(l)
  BY <1>1, Ends DEF AttestorRefuses, AttestorLoses, End
<1>2. CASE RecordAssignment(l)
  <2>1. CASE End(l)
    BY <2>1, Ends DEF End
  <2>2. CASE ~End(l)
    <3>1. At(l, "inserting") /\ Go(l, [job[l] EXCEPT !.at = "recording"])
      BY <1>2, <2>2 DEF RecordAssignment
    <3> DEFINE w == [job[l] EXCEPT !.at = "recording"]
    <3>2. w \in Working /\ w.at = "recording" /\ w.user = job[l].user
      BY <1>k, <3>1, Carries DEF At, WorkPlace
    <3>3. Goes(l, w)
      BY <3>1 DEF Go, Goes
    <3> HIDE DEF w
    <3>4. Carried(l, w) /\ Meant(l, w)
      BY <1>k, <3>1, <3>2 DEF Carried, Meant, At, AtWork
    <3> QED BY <3>3, <3>4
  <2> QED BY <2>1, <2>2
<1>3. CASE EndAssignment(l)
  BY <1>3, Ends DEF EndAssignment, End
<1>4. CASE CarryOut(l)
  <2>1. CASE End(l)
    BY <2>1, Ends DEF End
  <2>2. CASE ~End(l)
    <3>1. At(l, "agreed") /\ job[l].i \in Live /\ Go(l, Ending(job[l].i, job[l].p))
      BY <1>4, <2>2 DEF CarryOut
    <3>2. job[l].i \in 1 .. Len(asg) /\ job[l].p \in Nat
      BY <1>k, <1>v, <3>1, Carries DEF At, WorkPlace, Working
    <3> DEFINE w == Ending(job[l].i, job[l].p)
    <3>3. w \in Working /\ w.at \in {"unattesting", "releasing"} /\ w.i = job[l].i
      BY <1>v, <3>2 DEF Ending, Work, Working, WorkPlace, How
    <3>4. Goes(l, w)
      BY <3>1 DEF Go, Goes
    <3> HIDE DEF w
    <3>5. Carried(l, w) /\ Meant(l, w)
      BY <1>v, <3>2, <3>3 DEF Carried, Meant
    <3> QED BY <3>4, <3>5
  <2> QED BY <2>1, <2>2
<1>5. CASE SeesClosed(l)
  <2>1. CASE payout.state \in InFlight
    BY <1>5, <2>1, Ends DEF SeesClosed, Seen, Go
  <2>2. CASE payout.state \notin InFlight
    <3> DEFINE w == Work("closing", Nobody, job[l].i, 0, IF asg = <<>> THEN "cancelled" ELSE "expired")
    <3>1. At(l, "reconciling") /\ escrow[B] = NoEscrow /\ Goes(l, w)
      BY <1>5, <2>2 DEF SeesClosed, Seen, Go, Goes
    <3>2. job[l].i \in 0 .. Len(asg)
      BY <1>k, <3>1 DEF At, AtWork
    <3>3. w \in Working /\ w.at = "closing" /\ w.i = job[l].i /\ w.how \in Ended
      BY <1>v, <3>2 DEF Work, Working, WorkPlace, How, Ended
    <3>4. Unpayable
      <4>1. ASSUME NEW u \in Applicant, Received(u) # 0 PROVE Misread(u)
        <5>1. payout.state = "failed" /\ payout.to = u
          BY <2>2, <4>1 DEF FundedInductive, PaidForGood, InFlight
        <5>2. payout \in [state : {"none", "awaiting", "failed"} \cup InFlight, to : Key \cup {Nobody}]
          BY <1>k DEF FundedTypeOK
        <5> QED BY <5>1, <5>2 DEF Misread
      <4>2. ~unsigned \/ Unlisted
        BY DEF FundedInductive, BeforeFunding, Unlisted, Lane
      <4> QED BY <3>1, <4>1, <4>2 DEF Unpayable
    <3> HIDE DEF w
    <3>5. Carried(l, w) /\ Meant(l, w)
      BY <1>k, <3>1, <3>2, <3>3, <3>4 DEF Carried, Meant, At
    <3> QED BY <3>1, <3>5
  <2> QED BY <2>1, <2>2
<1>6. CASE SeesNamed(l)
  <2> DEFINE who == escrow[B].contributor
  <2>1. At(l, "reconciling") /\ escrow[B] # NoEscrow /\ who # Nobody
    BY <1>6 DEF SeesNamed
  <2>2. PICK w \in {Idle, Work("recording", who, 0, 0, "none"), Work("inserting", who, 0, 0, "none")} : Goes(l, w)
    BY <1>6 DEF SeesNamed, Seen, Go, Goes
  <2>3. who \in named[B] /\ who \in Key /\ ~unsigned
    BY <1>k, <2>1
  <2> HIDE DEF who
  <2>4. ASSUME NEW place \in {"recording", "inserting"} PROVE LET x == Work(place, who, 0, 0, "none") IN Carried(l, x) /\ Meant(l, x)
    <3> DEFINE x == Work(place, who, 0, 0, "none")
    <3>1. x \in Working /\ x.at = place /\ x.user = who
      BY <2>3 DEF Work, Working, WorkPlace, How
    <3> HIDE DEF x
    <3>2. Carried(l, x) /\ Meant(l, x)
      BY <1>k, <2>1, <2>3, <3>1 DEF Carried, Meant, At
    <3> QED BY <3>2 DEF x
  <2> QED BY <2>2, <2>4, IdleFits
<1>7. CASE SeesNobody(l)
  <2> DEFINE i == job[l].i
  <2>1. At(l, "reconciling") /\ escrow[B] # NoEscrow /\ i \in 0 .. Len(asg)
    BY <1>k, <1>7 DEF SeesNobody, At, AtWork
  <2>2. PICK w : /\ Goes(l, w)
                 /\ \/ w = Idle
                    \/ \E p \in Nat, how \in {"ours", "direct"} : w = Work("unrecording", Nobody, i, p, how)
                    \/ i # 0 /\ w = Work("attesting", asg[i].user, 0, 0, "none")
    BY <1>7, <1>a DEF SeesNobody, Seen, Go, Goes
  <2> HIDE DEF i
  <2>3. ASSUME NEW p \in Nat, NEW how \in {"ours", "direct"}, w = Work("unrecording", Nobody, i, p, how) PROVE Carried(l, w) /\ Meant(l, w)
    <3>1. w \in Working /\ w.at = "unrecording" /\ w.i = i
      BY <1>v, <2>1, <2>3 DEF Work, Working, WorkPlace, How
    <3> QED BY <2>1, <3>1 DEF Carried, Meant
  <2>4. ASSUME i # 0, w = Work("attesting", asg[i].user, 0, 0, "none") PROVE Carried(l, w) /\ Meant(l, w)
    <3>1. asg[i].user \in Key
      BY <1>v, <2>1, <2>4
    <3>2. w \in Working /\ w.at = "attesting" /\ w.user = asg[i].user
      BY <2>4, <3>1 DEF Work, Working, WorkPlace, How
    <3> QED BY <1>k, <2>1, <3>1, <3>2 DEF Carried, Meant, At
  <2> QED BY <2>2, <2>3, <2>4, IdleFits
<1>8. CASE l = "request" /\ UnassignChecked
  <2>1. CASE End("request")
    BY <1>8, <2>1, Ends DEF End
  <2>2. CASE ~End("request")
    <3>1. PICK how \in {"direct", "ours"} : At(l, "checking") /\ Goes(l, Work("unrecording", Nobody, job[l].i, Agreement(job[l].i), how))
      BY <1>8, <2>2 DEF UnassignChecked, Go, Goes
    <3> DEFINE w == Work("unrecording", Nobody, job[l].i, Agreement(job[l].i), how)
    <3>2. job[l].i \in 1 .. Len(asg) /\ Agreement(job[l].i) \in Nat
      BY <1>a, <1>k, <3>1 DEF At, AtWork
    <3>3. w \in Working /\ w.at = "unrecording" /\ w.i = job[l].i
      BY <1>v, <3>2 DEF Work, Working, WorkPlace, How
    <3> HIDE DEF w
    <3>4. Carried(l, w) /\ Meant(l, w)
      BY <1>v, <3>2, <3>3 DEF Carried, Meant
    <3> QED BY <3>1, <3>4 DEF w
  <2> QED BY <2>1, <2>2
<1>9. CASE l = "request" /\ WriteAnswer
  <2>1. CASE End("request")
    BY <1>9, <2>1, Ends DEF End
  <2>2. CASE ~End("request")
    <3> DEFINE w == [job[l] EXCEPT !.at = "agreed"]
    <3>1. At(l, "answering") /\ Goes(l, w)
      BY <1>9, <2>2 DEF WriteAnswer, Go, Goes
    <3>2. w \in Working /\ w.at = "agreed"
      BY <1>k, <3>1, Carries DEF At, WorkPlace
    <3> HIDE DEF w
    <3>3. Carried(l, w) /\ Meant(l, w)
      BY <3>2 DEF Carried, Meant
    <3> QED BY <3>1, <3>3
  <2> QED BY <2>1, <2>2
<1> QED BY <1>1, <1>2, <1>3, <1>4, <1>5, <1>6, <1>7, <1>8, <1>9
-----------------------------------------------------------------------------
(* What a step leaves behind it: the lanes, the small books, and the sense *)
(* that row, payout, chain and the unsigned transaction make together.     *)

JobStep ==
  \/ UNCHANGED job
  \/ job' = [l \in Lane |-> Idle]
  \/ \E l \in Lane : \E w : Goes(l, w) /\ Carried(l, w)

Answers == [kind : {"none"}] \cup [kind : {"Funded"}, user : Key] \cup [kind : {"Assigned"}, user : Key \cup {Nobody}]

BooksFit ==
  /\ asg' \in Seq(Asg) /\ Len(asg') >= Len(asg)
  /\ props' \in Seq(Prop) /\ \A p \in DOMAIN props' : props'[p].asg \in 1 .. Len(asg')
  /\ exclude' \in Key \cup {Nobody} /\ prepared' \in BOOLEAN
  /\ late' \in Answers

Sense == SweepSettled /\ BeforeFunding /\ NamedOnChain /\ PaidForGood /\ ClosedPaysNobody

LEMMA BooksUntouched ==
  ASSUME FundedInductive, UNCHANGED <<asg, props, exclude, prepared>>, late' \in {late, [kind |-> "none"]}
  PROVE  BooksFit
<1>1. FundedTypeOK /\ Numbered
  BY DEF FundedInductive
<1>2. asg \in Seq(Asg) /\ props \in Seq(Prop) /\ exclude \in Key \cup {Nobody} /\ prepared \in BOOLEAN
  BY <1>1 DEF FundedTypeOK, Asg, Prop
<1>3. late' \in Answers
  BY <1>1 DEF FundedTypeOK, Answers
<1>4. Len(asg) \in Nat
  BY <1>2, LenProperties
<1>5. \A p \in DOMAIN props : props[p].asg \in 1 .. Len(asg)
  BY <1>1 DEF Numbered
<1> QED BY <1>2, <1>3, <1>4, <1>5 DEF BooksFit

LEMMA JobFits ==
  ASSUME FundedInductive, JobStep, Len(asg') >= Len(asg), Len(asg') \in Nat
  PROVE  job' \in [Lane -> Working \cup Asking \cup Plain] /\ \A l \in Lane : AtWork(l)'
<1>1. /\ job \in [Lane -> Working \cup Asking \cup Plain] /\ FundedTypeOK
      /\ \A l \in Lane : AtWork(l)
  BY DEF FundedInductive, FundedTypeOK
<1>2. \A l \in Lane : Carried(l, job[l])
  BY LaneKnows
<1>3. Len(asg) \in Nat
  BY <1>1, LiveIs
<1>4. \A l \in Lane : job'[l] = job[l] \/ Carried(l, job'[l])
  BY <1>1, IdleFits DEF JobStep, Goes
<1>5. \A l \in Lane : Carried(l, job'[l])
  BY <1>2, <1>4
<1>6. job' \in [Lane -> Working \cup Asking \cup Plain]
  <2>1. \A l \in Lane : job'[l] \in Working \cup Asking \cup Plain
    BY <1>5 DEF Carried
  <2>2. DOMAIN job' = Lane /\ job' = [l \in Lane |-> job'[l]]
    BY <1>1 DEF JobStep, Goes
  <2> QED BY <2>1, <2>2
<1>7. ASSUME NEW l \in Lane PROVE AtWork(l)'
  BY <1>3, <1>5 DEF AtWork, Carried
<1> QED BY <1>6, <1>7

LEMMA TypesKept ==
  ASSUME FundedInductive, JobStep, BooksFit,
         bounty' \in [status : {"none", "funding", "posted", "payable", "paid"} \cup Ended, amount : Nat],
         row' \in [state : RowState, wallet : Key \cup {Nobody}, amount : Nat, mode : {"none", "Draw", "SelfAssign"}],
         unsigned' \in BOOLEAN,
         payout' \in [state : {"none", "awaiting", "failed"} \cup InFlight, to : Key \cup {Nobody}]
  PROVE  FundedTypeOK' /\ (\A l \in Lane : AtWork(l)') /\ Numbered'
<1>1. Len(asg') \in Nat /\ Len(asg') >= Len(asg)
  BY LenProperties DEF BooksFit
<1>2. job' \in [Lane -> Working \cup Asking \cup Plain] /\ \A l \in Lane : AtWork(l)'
  BY <1>1, JobFits
<1>3. Numbered'
  BY DEF BooksFit, Numbered
<1>4. FundedTypeOK'
  BY <1>2 DEF FundedTypeOK, BooksFit, Asg, Prop, Answers
<1> QED BY <1>2, <1>3, <1>4

LEMMA Assembled ==
  ASSUME Inv', OurEscrow', FundedTypeOK', \A l \in Lane : AtWork(l)', Numbered', Sense'
  PROVE  FundedInductive'
BY DEF FundedInductive, Sense, Inv

\* Received by nobody new: the applicants' balances are what they were.
LEMMA SenseKept ==
  ASSUME FundedInductive, UNCHANGED <<bounty, row, unsigned, payout>>,
         \A u \in Applicant : balance'[u] = balance[u],
         escrow[B] = NoEscrow => escrow'[B] = NoEscrow,
         named[B] \subseteq named'[B],
         \/ UNCHANGED job
         \/ job' = [l \in Lane |-> Idle]
         \/ \E l \in Lane : \E w : /\ Goes(l, w) /\ Carried(l, w)
                                   /\ \/ Meant(l, w)
                                      \/ /\ w.at = "recording" /\ w.user \in named'[B]
                                         /\ ~unsigned /\ (l = "sweep" => Settled)
  PROVE  Sense'
<1>1. FundedTypeOK /\ Sense
  BY DEF FundedInductive, Sense
<1>2. job \in [Lane -> Working \cup Asking \cup Plain]
  BY <1>1 DEF FundedTypeOK
<1> DEFINE Fits(l) ==
      \/ job'[l] = job[l]
      \/ Meant(l, job'[l]) /\ Carried(l, job'[l])
      \/ /\ job'[l].at = "recording" /\ job'[l].user \in named'[B]
         /\ ~unsigned /\ (l = "sweep" => Settled)
<1>3. \A l \in Lane : Fits(l)
  BY <1>2, IdleFits DEF Goes
<1>r. "request" \in Lane /\ "sweep" \in Lane
  BY DEF Lane
<1>4. SweepSettled'
  BY <1>1, <1>3, <1>r DEF Sense, SweepSettled, Meant, Settled
<1>5. BeforeFunding'
  <2>1. BeforeFunding
    BY <1>1 DEF Sense
  <2>2. ~Settled => job'["request"].at # "listing"
    BY <1>3, <1>r, <2>1 DEF BeforeFunding, Meant, At
  <2>3. unsigned => \A l \in Lane : job'[l].at \notin {"confirming", "listing", "inserting", "recording"}
    BY <1>3, <2>1 DEF BeforeFunding, Meant
  <2> QED BY <2>1, <2>2, <2>3 DEF BeforeFunding, Settled, At
<1>6. NamedOnChain'
  <2>1. NamedOnChain
    BY <1>1 DEF Sense
  <2>2. \A l \in Lane : job'[l].at \in {"inserting", "recording"} => job'[l].user \in named'[B]
    BY <1>3, <2>1 DEF NamedOnChain, Meant
  <2> QED BY <2>1, <2>2 DEF NamedOnChain
<1>7. PaidForGood'
  BY <1>1 DEF Sense, PaidForGood, Received
<1>8. ClosedPaysNobody'
  <2> SUFFICES ASSUME row'.state = "refunded" \/ \E l \in Lane : job'[l].at = "closing" PROVE Unpayable'
    BY DEF ClosedPaysNobody, At
  <2>1. Unpayable
    BY <1>1, <1>3 DEF Sense, ClosedPaysNobody, At, Meant
  <2>2. \A u \in Applicant : Received(u)' # 0 => Misread(u)'
    BY <2>1 DEF Unpayable, Misread, Received
  <2>3. CASE escrow[B] = NoEscrow /\ ~unsigned
    BY <2>2, <2>3 DEF Unpayable
  <2>4. CASE Unlisted
    <3>1. job'["request"].at # "listing"
      BY <1>3, <1>r, <2>4 DEF Meant, Unlisted
    <3>2. ASSUME job'["request"].at = "confirming" PROVE FALSE
      <4>1. row.state = "funding"
        BY <1>3, <1>r, <2>4, <3>2 DEF Meant, Unlisted
      <4>2. job'["sweep"].at = "closing"
        BY <3>2, <4>1 DEF Lane
      <4>3. Settled
        BY <1>1, <1>3, <1>r, <4>2 DEF Meant, Sense, SweepSettled
      <4> QED BY <4>1, <4>3 DEF Settled
    <3>3. Unlisted'
      BY <2>4, <3>1, <3>2 DEF Unlisted
    <3> QED BY <2>2, <3>3 DEF Unpayable
  <2> QED BY <2>1, <2>3, <2>4 DEF Unpayable
<1> QED BY <1>4, <1>5, <1>6, <1>7, <1>8 DEF Sense

\* A step that touches neither the chain, the bounty, the row, the payout nor the
\* transaction that is out.
LEMMA QuietKeeps ==
  ASSUME FundedInductive, BooksFit, UNCHANGED <<chain, bounty, row, unsigned, payout>>,
         \/ UNCHANGED job
         \/ job' = [l \in Lane |-> Idle]
         \/ \E l \in Lane : \E w : Goes(l, w) /\ Carried(l, w) /\ Meant(l, w)
  PROVE  FundedInductive'
<1>1. /\ TypeOK /\ Backed /\ FeeIsQuoted /\ RemembersAssignment /\ OurEscrow
      /\ UNCHANGED <<escrow, vault, balance, now, named>>
  BY DEF FundedInductive, chain
<1>2. Inv' /\ OurEscrow'
  BY <1>1 DEF Inv, TypeOK, Backed, Owed, FeeIsQuoted, RemembersAssignment, OurEscrow
<1>3. JobStep
  BY DEF JobStep
<1>4. FundedTypeOK
  BY DEF FundedInductive
<1>5. FundedTypeOK' /\ (\A l \in Lane : AtWork(l)') /\ Numbered'
  BY <1>3, <1>4, TypesKept DEF FundedTypeOK
<1>6. Sense'
  BY <1>1, SenseKept
<1> QED BY <1>2, <1>5, <1>6, Assembled
-----------------------------------------------------------------------------
(* The quiet steps: what they do to the small books.                       *)

LEMMA SmallBooks ==
  ASSUME FundedInductive
  PROVE  /\ asg \in Seq(Asg) /\ Len(asg) \in Nat /\ props \in Seq(Prop) /\ \A p \in DOMAIN props : props[p].asg \in 1 .. Len(asg)
         /\ exclude \in Key \cup {Nobody} /\ prepared \in BOOLEAN /\ late \in Answers
<1>1. FundedTypeOK /\ Numbered
  BY DEF FundedInductive
<1>2. asg \in Seq(Asg) /\ props \in Seq(Prop) /\ exclude \in Key \cup {Nobody} /\ prepared \in BOOLEAN /\ late \in Answers
  BY <1>1 DEF FundedTypeOK, Asg, Prop, Answers
<1>3. Len(asg) \in Nat
  BY <1>2, LenProperties
<1> QED BY <1>1, <1>2, <1>3 DEF Numbered

LEMMA BooksMade ==
  ASSUME FundedInductive,
         asg' = asg \/ (asg' \in Seq(Asg) /\ Len(asg') >= Len(asg)),
         props' = props \/ (props' \in Seq(Prop) /\ \A p \in DOMAIN props' : props'[p].asg \in 1 .. Len(asg)),
         exclude' = exclude \/ exclude' \in Key \cup {Nobody},
         prepared' = prepared \/ prepared' \in BOOLEAN,
         late' = late \/ late' \in Answers
  PROVE  BooksFit
<1>1. /\ asg \in Seq(Asg) /\ Len(asg) \in Nat /\ props \in Seq(Prop) /\ \A p \in DOMAIN props : props[p].asg \in 1 .. Len(asg)
      /\ exclude \in Key \cup {Nobody} /\ prepared \in BOOLEAN /\ late \in Answers
  BY SmallBooks
<1>2. asg' \in Seq(Asg) /\ Len(asg') >= Len(asg)
  BY <1>1
<1>3. Len(asg') \in Nat
  BY <1>2, LenProperties
<1>4. props' \in Seq(Prop) /\ \A p \in DOMAIN props' : props'[p].asg \in 1 .. Len(asg')
  BY <1>1, <1>2, <1>3
<1> QED BY <1>1, <1>2, <1>4 DEF BooksFit, Answers

\* An answer the attestor lost.
LEMMA LateAsked ==
  ASSUME FundedInductive, NEW l \in Lane, Asked(l) # "nothing"
  PROVE  /\ [kind |-> Asked(l), user |-> job[l].user] \in Answers
         /\ job[l].at \in {"attesting", "unattesting"}
<1>1. \/ job[l].at = "attesting" /\ Asked(l) = "Funded"
      \/ job[l].at = "unattesting" /\ Asked(l) = "Assigned"
  BY DEF Asked, At
<1>2. job[l] \in Working /\ AtWork(l)
  BY <1>1, Carries DEF WorkPlace, FundedInductive
<1>3. job[l].user \in Key \cup {Nobody} /\ (job[l].at = "attesting" => job[l].user \in Key)
  BY <1>2 DEF AtWork, Working
<1> QED BY <1>1, <1>3 DEF Answers

LEMMA Inserted ==
  ASSUME FundedInductive, NEW u \in Key, Insert(u)
  PROVE  asg' \in Seq(Asg) /\ Len(asg') >= Len(asg)
<1>1. asg \in Seq(Asg) /\ Len(asg) \in Nat
  BY SmallBooks
<1> DEFINE a == [user |-> u, status |-> "active", direct |-> FALSE]
<1>2. a \in Asg
  BY DEF Asg, AsgState
<1>3. asg' = Append(asg, a)
  BY DEF Insert
<1> HIDE DEF a
<1> QED BY <1>1, <1>2, <1>3, AppendProperties

LEMMA StatusSet ==
  ASSUME FundedInductive, NEW p, NEW status \in {"accepted", "refused", "withdrawn", "silence"},
         props' = [props EXCEPT ![p].status = status]
  PROVE  props' \in Seq(Prop) /\ \A q \in DOMAIN props' : props'[q].asg \in 1 .. Len(asg)
<1>1. props \in Seq(Prop) /\ \A q \in DOMAIN props : props[q].asg \in 1 .. Len(asg)
  BY SmallBooks
<1>2. status \in {"pending", "accepted", "refused", "withdrawn", "silence"}
  OBVIOUS
<1>3. /\ [props EXCEPT ![p].status = status] \in Seq(Prop)
      /\ DOMAIN [props EXCEPT ![p].status = status] = DOMAIN props
      /\ \A q \in DOMAIN props : [props EXCEPT ![p].status = status][q].asg = props[q].asg
  <2>1. [props EXCEPT ![p].status = status] \in Seq(Prop)
    BY <1>1, <1>2, PropsChanged
  <2>2. DOMAIN [props EXCEPT ![p].status = status] = DOMAIN props
    BY <1>1, <1>2, PropsChanged
  <2>3. \A q \in DOMAIN props : [props EXCEPT ![p].status = status][q].asg = props[q].asg
    BY <1>1, <1>2, PropsChanged
  <2> QED BY <2>1, <2>2, <2>3
<1>4. props' \in Seq(Prop) /\ DOMAIN props' = DOMAIN props /\ \A q \in DOMAIN props : props'[q].asg = props[q].asg
  BY <1>3
<1> QED BY <1>1, <1>4

\* Of a lane that goes on quietly.
LEMMA LaneBooks ==
  ASSUME FundedInductive, NEW l \in Lane,
         \/ AttestorRefuses(l) \/ AttestorLoses(l) \/ RecordAssignment(l) \/ EndAssignment(l) \/ CarryOut(l)
         \/ SeesClosed(l) \/ SeesNamed(l) \/ SeesNobody(l)
         \/ l = "request" /\ (UnassignChecked \/ WriteAnswer)
  PROVE  BooksFit /\ UNCHANGED <<chain, bounty, row, unsigned, payout>>
<1>0. /\ FundedTypeOK /\ AtWork(l)
      /\ asg \in Seq(Asg) /\ Len(asg) \in Nat /\ props \in Seq(Prop) /\ \A p \in DOMAIN props : props[p].asg \in 1 .. Len(asg)
  BY SmallBooks DEF FundedInductive
<1>1. CASE AttestorRefuses(l) \/ CarryOut(l) \/ SeesClosed(l) \/ SeesNamed(l) \/ SeesNobody(l) \/ (l = "request" /\ UnassignChecked)
  <2>1. UNCHANGED <<chain, late, spent>> /\ UNCHANGED books
    BY <1>1 DEF AttestorRefuses, CarryOut, SeesClosed, SeesNamed, SeesNobody, UnassignChecked, Seen, Quiet
  <2> QED BY <2>1, BooksUntouched DEF books
<1>2. CASE AttestorLoses(l)
  <2>1. UNCHANGED <<chain, books>> /\ late' \in {late, [kind |-> Asked(l), user |-> job[l].user]} /\ Asked(l) # "nothing"
    BY <1>2 DEF AttestorLoses
  <2>2. late' = late \/ late' \in Answers
    BY <2>1, LateAsked
  <2> QED BY <2>1, <2>2, BooksMade DEF books
<1>3. CASE RecordAssignment(l)
  <2>1. /\ UNCHANGED <<chain, late, spent>> /\ UNCHANGED <<bounty, row, unsigned, props, exclude, prepared, payout>>
        /\ At(l, "inserting") /\ (UNCHANGED asg \/ Insert(job[l].user))
    BY <1>3 DEF RecordAssignment, Quiet
  <2>2. job[l].user \in Key
    BY <1>0, <2>1 DEF AtWork, At
  <2>3. asg' = asg \/ (asg' \in Seq(Asg) /\ Len(asg') >= Len(asg))
    BY <2>1, <2>2, Inserted
  <2> QED BY <2>1, <2>3, BooksMade
<1>4. CASE EndAssignment(l)
  <2> DEFINE i == job[l].i  p == job[l].p  d == (job[l].how = "direct")
  <2>1. /\ UNCHANGED <<chain, late, spent>> /\ UNCHANGED <<bounty, row, unsigned, prepared, payout>> /\ At(l, "releasing")
        /\ asg' = [asg EXCEPT ![i].status = "released", ![i].direct = d]
        /\ exclude' = IF row.mode = "Draw" THEN asg[i].user ELSE exclude
        /\ props' = IF p = 0 THEN props ELSE [props EXCEPT ![p].done = TRUE]
    BY <1>4 DEF EndAssignment, Quiet
  <2>2. i \in 1 .. Len(asg)
    BY <1>0, <2>1 DEF AtWork, At
  <2>3. asg[i].user \in Key
    BY <1>0, <2>2, LiveIs
  <2>d. d \in BOOLEAN
    OBVIOUS
  <2> HIDE DEF i, p, d
  <2>4. asg' \in Seq(Asg) /\ Len(asg') = Len(asg)
    BY <1>0, <2>1, <2>d, AsgChanged DEF AsgState
  <2>5. exclude' = exclude \/ exclude' \in Key \cup {Nobody}
    BY <2>1, <2>3
  <2>6. [props EXCEPT ![p].done = TRUE] \in Seq(Prop) /\ \A q \in DOMAIN [props EXCEPT ![p].done = TRUE] : [props EXCEPT ![p].done = TRUE][q].asg \in 1 .. Len(asg)
    BY <1>0, PropsChanged
  <2>7. props' = props \/ (props' \in Seq(Prop) /\ \A q \in DOMAIN props' : props'[q].asg \in 1 .. Len(asg))
    BY <2>1, <2>6
  <2> QED BY <1>0, <2>1, <2>4, <2>5, <2>7, BooksMade
<1>5. CASE l = "request" /\ WriteAnswer
  <2> DEFINE p == job[l].p  status == job[l].how
  <2>1. /\ UNCHANGED <<chain, late, spent>> /\ UNCHANGED <<bounty, row, unsigned, asg, exclude, prepared, payout>> /\ At(l, "answering")
        /\ props' = [props EXCEPT ![p].status = status]
    BY <1>5 DEF WriteAnswer, Quiet
  <2>2. status \in {"accepted", "refused"}
    BY <1>0, <2>1 DEF AtWork, At
  <2> HIDE DEF p, status
  <2>3. props' \in Seq(Prop) /\ \A q \in DOMAIN props' : props'[q].asg \in 1 .. Len(asg)
    BY <2>1, <2>2, StatusSet
  <2> QED BY <2>1, <2>3, BooksMade
<1> QED BY <1>1, <1>2, <1>3, <1>4, <1>5

\* Of the requests, the sweep and the world that begin or change quietly.
LEMMA ProposalBooks ==
  ASSUME FundedInductive,
         \/ \E i \in DOMAIN asg : Propose(i)
         \/ \E p \in DOMAIN props : Withdraw(p) \/ ExpireProposal(p)
  PROVE  BooksFit /\ UNCHANGED <<chain, bounty, row, unsigned, payout>>
<1>0. /\ asg \in Seq(Asg) /\ Len(asg) \in Nat /\ props \in Seq(Prop) /\ \A p \in DOMAIN props : props[p].asg \in 1 .. Len(asg)
      /\ DOMAIN asg = 1 .. Len(asg)
  BY SmallBooks, LenProperties
<1>1. ASSUME NEW i \in DOMAIN asg, Propose(i) PROVE BooksFit /\ UNCHANGED <<chain, bounty, row, unsigned, payout>>
  <2> DEFINE new == [asg |-> i, status |-> "pending", done |-> FALSE]
  <2>1. /\ UNCHANGED <<chain, late, spent>> /\ UNCHANGED <<bounty, row, unsigned, asg, exclude, prepared, payout>>
        /\ props' = Append(props, new)
    BY <1>1 DEF Propose, Quiet
  <2>2. new \in Prop /\ new.asg \in 1 .. Len(asg)
    BY <1>0 DEF Prop
  <2> HIDE DEF new
  <2>3. props' \in Seq(Prop) /\ Len(props) \in Nat /\ DOMAIN props = 1 .. Len(props) /\ Len(props') = Len(props) + 1 /\ DOMAIN props' = 1 .. Len(props')
        /\ props'[Len(props) + 1] = new
        /\ \A q \in 1 .. Len(props) : props'[q] = props[q]
    BY <1>0, <2>1, <2>2, AppendProperties, LenProperties
  <2>4. \A q \in DOMAIN props' : q \in DOMAIN props \/ q = Len(props) + 1
    BY <2>3
  <2>5. ASSUME NEW q \in DOMAIN props' PROVE props'[q].asg \in 1 .. Len(asg)
    <3>1. CASE q \in DOMAIN props
      <4>1. props[q].asg \in 1 .. Len(asg)
        BY <1>0, <3>1
      <4>2. props'[q] = props[q]
        BY <2>3, <3>1
      <4> QED BY <4>1, <4>2
    <3>2. CASE q = Len(props) + 1
      <4>1. props'[q] = new
        BY <2>3, <3>2
      <4> QED BY <2>2, <4>1
    <3> QED BY <2>4, <3>1, <3>2
  <2> QED BY <2>1, <2>3, <2>5, BooksMade
<1>2. ASSUME NEW p \in DOMAIN props, Withdraw(p) \/ ExpireProposal(p) PROVE BooksFit /\ UNCHANGED <<chain, bounty, row, unsigned, payout>>
  <2>1. PICK status \in {"withdrawn", "silence"} :
           /\ UNCHANGED <<chain, late, spent>> /\ UNCHANGED <<bounty, row, unsigned, asg, exclude, prepared, payout>>
           /\ props' = [props EXCEPT ![p].status = status]
    BY <1>2 DEF Withdraw, ExpireProposal, Quiet
  <2>2. props' \in Seq(Prop) /\ \A q \in DOMAIN props' : props'[q].asg \in 1 .. Len(asg)
    BY <2>1, StatusSet
  <2> QED BY <2>1, <2>2, BooksMade
<1> QED BY <1>1, <1>2

\* The other quiet steps: what begins, and what the world changes quietly.
QuietStart ==
  \/ \E u \in Applicant : RunDraw(u) \/ AssignConfirm(u)
  \/ \E i \in DOMAIN asg : UnassignRequest(i) \/ UnassignConfirm(i)
  \/ \E p \in DOMAIN props : Respond(p, "accepted") \/ Respond(p, "refused") \/ ExpireProposal(p) \/ RetryAgreed(p)
  \/ \E l \in Lane : Reconcile(l)
  \/ Confirm /\ UNCHANGED row

QuietWorld ==
  \/ LateExpires \/ PreparedLapses \/ Crash
  \/ \E i \in DOMAIN asg : PullOpens(i) \/ PullCloses(i)

LEMMA WorldBooks ==
  ASSUME FundedInductive, QuietWorld
  PROVE  /\ BooksFit /\ UNCHANGED <<chain, bounty, row, unsigned, payout>>
         /\ UNCHANGED job \/ job' = [l \in Lane |-> Idle]
<1>0. asg \in Seq(Asg) /\ Len(asg) \in Nat
  BY SmallBooks
<1> DEFINE Goal == /\ BooksFit /\ UNCHANGED <<chain, bounty, row, unsigned, payout>>
                   /\ UNCHANGED job \/ job' = [l \in Lane |-> Idle]
<1>1. CASE LateExpires
  BY <1>1, BooksUntouched DEF LateExpires, agent, books
<1>2. CASE PreparedLapses
  <2>1. prepared' \in BOOLEAN /\ UNCHANGED <<chain, late, spent>> /\ UNCHANGED <<bounty, row, unsigned, asg, props, exclude, payout, job>>
    BY <1>2 DEF PreparedLapses, Quiet
  <2> QED BY <2>1, BooksMade
<1>3. CASE Crash
  <2> DEFINE lost == {[kind |-> Asked(l), user |-> job[l].user] : l \in {m \in Lane : Asked(m) # "nothing"}}
  <2>1. UNCHANGED <<chain, books>> /\ job' = [l \in Lane |-> Idle] /\ late' \in {late} \cup lost
    BY <1>3 DEF Crash
  <2>2. lost \subseteq Answers
    BY LateAsked
  <2> HIDE DEF lost
  <2>3. late' = late \/ late' \in Answers
    BY <2>1, <2>2
  <2> QED BY <2>1, <2>3, BooksMade DEF books
<1>4. ASSUME NEW i \in DOMAIN asg, PullOpens(i) \/ PullCloses(i) PROVE Goal
  <2>1. PICK status \in {"active", "pr_submitted"} :
           /\ UNCHANGED <<chain, late, spent>> /\ UNCHANGED <<bounty, row, unsigned, props, exclude, prepared, payout, job>>
           /\ asg' = [asg EXCEPT ![i].status = status]
    BY <1>4 DEF PullOpens, PullCloses, Quiet
  <2>2. status \in AsgState
    BY DEF AsgState
  <2>3. asg' \in Seq(Asg) /\ Len(asg') = Len(asg)
    BY <1>0, <2>1, <2>2, AsgChanged
  <2> QED BY <1>0, <2>1, <2>3, BooksMade
<1> QED BY <1>1, <1>2, <1>3, <1>4 DEF QuietWorld

LEMMA StartBooks ==
  ASSUME FundedInductive, QuietStart
  PROVE  BooksFit /\ UNCHANGED <<chain, bounty, row, unsigned, payout>>
<1> DEFINE Goal == BooksFit /\ UNCHANGED <<chain, bounty, row, unsigned, payout>>
<1>1. ASSUME NEW u \in Applicant, RunDraw(u) PROVE Goal
  <2>1. /\ UNCHANGED <<chain, late, spent>> /\ UNCHANGED <<bounty, row, unsigned, props, prepared, payout>>
        /\ Insert(u) /\ exclude' = Nobody
    BY <1>1 DEF RunDraw, Quiet
  <2>2. u \in Key
    BY FundedConstants
  <2>3. asg' \in Seq(Asg) /\ Len(asg') >= Len(asg)
    BY <2>1, <2>2, Inserted
  <2> QED BY <2>1, <2>3, BooksMade
<1>2. ASSUME NEW i, UnassignRequest(i) PROVE Goal
  <2>1. /\ UNCHANGED <<chain, late, spent>> /\ UNCHANGED <<bounty, row, unsigned, asg, props, exclude, payout>>
        /\ prepared' = TRUE \/ prepared' = prepared
    BY <1>2 DEF UnassignRequest, Quiet
  <2> QED BY <2>1, BooksMade
<1>3. ASSUME NEW p \in DOMAIN props, ExpireProposal(p) PROVE Goal
  BY <1>3, ProposalBooks
<1>4. ASSUME UNCHANGED <<chain, late, spent>>, UNCHANGED books PROVE Goal
  BY <1>4, BooksUntouched DEF books
<1>5. ASSUME NEW x, AssignConfirm(x) \/ UnassignConfirm(x) \/ Respond(x, "accepted") \/ Respond(x, "refused") \/ RetryAgreed(x) PROVE Goal
  BY <1>4, <1>5 DEF AssignConfirm, UnassignConfirm, Respond, RetryAgreed, Quiet
<1>6. ASSUME NEW l \in Lane, Reconcile(l) PROVE Goal
  BY <1>4, <1>6 DEF Reconcile, Quiet
<1>7. ASSUME Confirm, UNCHANGED row PROVE Goal
  BY <1>4, <1>7 DEF Confirm, Quiet, books
<1> HIDE DEF Goal
<1>8. Goal
  BY <1>1, <1>2, <1>3, <1>5, <1>6, <1>7 DEF QuietStart
<1> QED BY <1>8 DEF Goal

\* What begins, begins with its types, and means what the lanes rely on.
LEMMA StartMeans ==
  ASSUME FundedInductive, QuietStart
  PROVE  UNCHANGED job \/ \E l \in Lane : \E w : Goes(l, w) /\ Carried(l, w) /\ Meant(l, w)
<1> DEFINE Goal == UNCHANGED job \/ \E l \in Lane : \E w : Goes(l, w) /\ Carried(l, w) /\ Meant(l, w)
<1>0. /\ FundedTypeOK /\ Len(asg) \in Nat /\ Live \subseteq 1 .. Len(asg) /\ LiveRow \in 0 .. Len(asg)
      /\ props \in Seq(Prop) /\ \A p \in DOMAIN props : props[p].asg \in 1 .. Len(asg)
  BY SmallBooks, LiveIs DEF FundedInductive
<1>p. DOMAIN props \subseteq Nat
  BY <1>0, LenProperties
<1>a. \A i : Agreement(i) \in Nat
  BY <1>0, AgreementIsOne
<1>e. BeforeFunding /\ RemembersAssignment /\ TypeOK /\ B \in Bounty
  BY FundedConstants DEF FundedInductive
<1>r. "request" \in Lane /\ "sweep" \in Lane
  BY DEF Lane
<1>1. ASSUME NEW u \in Applicant, RunDraw(u) PROVE Goal
  <2> DEFINE w == Work("attesting", u, 0, 0, "none")
  <2>1. Goes("request", w)
    BY <1>1 DEF RunDraw, Begin, Goes
  <2>2. w \in Working /\ w.at = "attesting" /\ w.user = u /\ u \in Key
    BY FundedConstants DEF Work, Working, WorkPlace, How
  <2> HIDE DEF w
  <2>3. Carried("request", w) /\ Meant("request", w)
    BY <2>2 DEF Carried, Meant
  <2> QED BY <1>r, <2>1, <2>3
<1>2. ASSUME NEW u \in Applicant, AssignConfirm(u) PROVE Goal
  <2> DEFINE w == Work("inserting", u, 0, 0, "none")
  <2>1. Goes("request", w) /\ escrow[B] # NoEscrow /\ escrow[B].contributor = u
    BY <1>2 DEF AssignConfirm, Begin, Goes
  <2>2. w \in Working /\ w.at = "inserting" /\ w.user = u /\ u \in Key
    BY FundedConstants DEF Work, Working, WorkPlace, How
  <2>3. u \in named[B] /\ ~unsigned
    <3>1. u # Nobody
      BY <2>2, NobodyAssumption
    <3> QED BY <1>e, <2>1, <3>1 DEF RemembersAssignment, BeforeFunding
  <2> HIDE DEF w
  <2>4. Carried("request", w) /\ Meant("request", w)
    BY <2>2, <2>3 DEF Carried, Meant
  <2> QED BY <1>r, <2>1, <2>4
<1>3. ASSUME NEW i \in DOMAIN asg, UnassignRequest(i) PROVE Goal
  <2>1. CASE UNCHANGED job
    BY <2>1
  <2>2. CASE ~UNCHANGED job
    <3> DEFINE w == Ending(i, Agreement(i))
    <3>1. i \in Live /\ Goes("request", w)
      BY <1>3, <2>2 DEF UnassignRequest, Begin, Goes
    <3>2. i \in 1 .. Len(asg) /\ i \in Nat /\ Agreement(i) \in Nat
      BY <1>0, <1>a, <3>1
    <3>3. w \in Working /\ w.at \in {"unattesting", "releasing"} /\ w.i = i
      BY <3>2 DEF Ending, Work, Working, WorkPlace, How
    <3> HIDE DEF w
    <3>4. Carried("request", w) /\ Meant("request", w)
      BY <1>0, <3>2, <3>3 DEF Carried, Meant
    <3> QED BY <1>r, <3>1, <3>4
  <2> QED BY <2>1, <2>2
<1>4. ASSUME NEW i \in DOMAIN asg, UnassignConfirm(i) PROVE Goal
  <2> DEFINE w == Work("checking", Nobody, i, 0, asg[i].status)
  <2>1. i \in Live /\ Goes("request", w)
    BY <1>4 DEF UnassignConfirm, Begin, Goes
  <2>2. i \in 1 .. Len(asg) /\ i \in Nat
    BY <1>0, <2>1
  <2>3. asg[i].status \in How /\ 0 \in Nat /\ "checking" \in WorkPlace
    BY <1>0, <2>2, LiveIs DEF How, WorkPlace
  <2>4. w \in Working /\ w.at = "checking" /\ w.i = i
    BY <2>2, <2>3 DEF Work, Working
  <2> HIDE DEF w
  <2>5. Carried("request", w) /\ Meant("request", w)
    BY <2>2, <2>4 DEF Carried, Meant
  <2> QED BY <1>r, <2>1, <2>5
<1>5. ASSUME NEW p \in DOMAIN props, NEW answer \in {"accepted", "refused"}, Respond(p, answer) PROVE Goal
  <2> DEFINE w == Work("answering", Nobody, props[p].asg, p, answer)
  <2>1. Goes("request", w)
    BY <1>5 DEF Respond, Begin, Goes
  <2>2. props[p].asg \in Nat /\ p \in Nat
    BY <1>0, <1>p
  <2>3. w \in Working /\ w.at = "answering" /\ w.how = answer
    BY <2>2 DEF Work, Working, WorkPlace, How
  <2> HIDE DEF w
  <2>4. Carried("request", w) /\ Meant("request", w)
    BY <2>3 DEF Carried, Meant
  <2> QED BY <1>r, <2>1, <2>4
<1>6. ASSUME NEW p \in DOMAIN props, ExpireProposal(p) \/ RetryAgreed(p) PROVE Goal
  <2> DEFINE w == Work("agreed", Nobody, props[p].asg, p, "ours")
  <2>1. Goes("sweep", w)
    BY <1>6 DEF ExpireProposal, RetryAgreed, Begin, Goes
  <2>2. props[p].asg \in Nat /\ p \in Nat
    BY <1>0, <1>p
  <2>3. w \in Working /\ w.at = "agreed"
    BY <2>2 DEF Work, Working, WorkPlace, How
  <2> HIDE DEF w
  <2>4. Carried("sweep", w) /\ Meant("sweep", w)
    BY <2>3 DEF Carried, Meant
  <2> QED BY <1>r, <2>1, <2>4
<1>7. ASSUME NEW l \in Lane, Reconcile(l) PROVE Goal
  <2>1. PICK n \in {0, 1} : Goes(l, [Work("reconciling", row.wallet, LiveRow, 0, row.state) EXCEPT !.p = n])
    BY <1>7 DEF Reconcile, Begin, Goes
  <2> DEFINE w == [Work("reconciling", row.wallet, LiveRow, 0, row.state) EXCEPT !.p = n]
  <2>2. row.wallet \in Key \cup {Nobody} /\ row.state \in How /\ LiveRow \in Nat
    BY <1>0 DEF FundedTypeOK, How
  <2>3. w = Work("reconciling", row.wallet, LiveRow, n, row.state)
    BY DEF Work
  <2>4. w \in Working /\ w.at = "reconciling" /\ w.i = LiveRow
    BY <2>2, <2>3 DEF Work, Working, WorkPlace
  <2>5. l = "sweep" => Settled
    BY <1>7 DEF Reconcile, Settled
  <2> HIDE DEF w
  <2>6. Carried(l, w) /\ Meant(l, w)
    BY <1>0, <2>4, <2>5 DEF Carried, Meant
  <2> QED BY <2>1, <2>6 DEF w
<1>8. ASSUME Confirm, UNCHANGED row PROVE Goal
  <2> DEFINE w == [at |-> "confirming"]
  <2>1. CASE UNCHANGED job
    BY <2>1
  <2>2. CASE ~UNCHANGED job
    <3>1. Goes("request", w) /\ row.state = "funding" /\ escrow[B] # NoEscrow
      BY <1>8, <2>2 DEF Confirm, Begin, Goes
    <3>2. ~unsigned
      BY <1>e, <3>1 DEF BeforeFunding
    <3>3. Carried("request", w) /\ Meant("request", w)
      BY <3>1, <3>2 DEF Carried, Meant, Plain
    <3> QED BY <1>r, <3>1, <3>3
  <2> QED BY <2>1, <2>2
<1> HIDE DEF Goal
<1>9. Goal
  BY <1>1, <1>2, <1>3, <1>4, <1>5, <1>6, <1>7, <1>8 DEF QuietStart
<1> QED BY <1>9 DEF Goal

\* Everything quiet keeps the invariant.
QuietStep ==
  \/ \E l \in Lane :
       \/ AttestorRefuses(l) \/ AttestorLoses(l) \/ RecordAssignment(l) \/ EndAssignment(l) \/ CarryOut(l)
       \/ SeesClosed(l) \/ SeesNamed(l) \/ SeesNobody(l)
       \/ l = "request" /\ (UnassignChecked \/ WriteAnswer)
  \/ QuietStart \/ QuietWorld
  \/ \E i \in DOMAIN asg : Propose(i)
  \/ \E p \in DOMAIN props : Withdraw(p)

LEMMA QuietInv == FundedInductive /\ QuietStep => FundedInductive'
<1> SUFFICES ASSUME FundedInductive, QuietStep PROVE FundedInductive'
  OBVIOUS
<1>1. ASSUME NEW l \in Lane,
             \/ AttestorRefuses(l) \/ AttestorLoses(l) \/ RecordAssignment(l) \/ EndAssignment(l) \/ CarryOut(l)
             \/ SeesClosed(l) \/ SeesNamed(l) \/ SeesNobody(l)
             \/ l = "request" /\ (UnassignChecked \/ WriteAnswer)
      PROVE  FundedInductive'
  <2>1. BooksFit /\ UNCHANGED <<chain, bounty, row, unsigned, payout>>
    BY <1>1, LaneBooks
  <2>2. \E w : Goes(l, w) /\ Carried(l, w) /\ Meant(l, w)
    BY <1>1, QuietLane
  <2> QED BY <2>1, <2>2, QuietKeeps
<1>2. CASE QuietStart
  BY <1>2, StartBooks, StartMeans, QuietKeeps
<1>3. CASE QuietWorld
  BY <1>3, WorldBooks, QuietKeeps
<1>4. ASSUME (\E i \in DOMAIN asg : Propose(i)) \/ (\E p \in DOMAIN props : Withdraw(p)) PROVE FundedInductive'
  <2>1. BooksFit /\ UNCHANGED <<chain, bounty, row, unsigned, payout>>
    BY <1>4, ProposalBooks
  <2>2. UNCHANGED job
    BY <1>4 DEF Propose, Withdraw
  <2> QED BY <2>1, <2>2, QuietKeeps
<1> QED BY <1>1, <1>2, <1>3, <1>4 DEF QuietStep

-----------------------------------------------------------------------------
(* The chain: what its steps leave the agent's invariant.                  *)

LEMMA ChainKnows ==
  ASSUME FundedInductive
  PROVE  /\ Inv /\ OurEscrow /\ B \in Bounty /\ TypeOK
         /\ escrow[B] # NoEscrow => escrow[B] \in Escrow
<1>1. Inv /\ OurEscrow /\ B \in Bounty /\ TypeOK
  BY FundedConstants DEF FundedInductive, Inv
<1> QED BY <1>1, OpenEscrow

LEMMA ChainAssign ==
  ASSUME FundedInductive, NEW signer \in Key, NEW k \in Key, Assign(B, signer, k)
  PROVE  /\ Inv' /\ OurEscrow'
         /\ escrow[B] # NoEscrow /\ UNCHANGED balance
         /\ named[B] \subseteq named'[B] /\ k \in named'[B]
<1>1. Inv /\ OurEscrow /\ B \in Bounty /\ TypeOK /\ escrow[B] # NoEscrow /\ escrow[B] \in Escrow
  BY ChainKnows DEF Assign
<1>2. Inv'
  BY <1>1, AssignInv
<1>3. /\ escrow'[B] = [escrow[B] EXCEPT !.contributor = k, !.everAssigned = TRUE, !.state = "Assigned"]
      /\ named'[B] = named[B] \cup {k}
  BY <1>1 DEF Assign, TypeOK
<1>4. OurEscrow'
  BY <1>1, <1>3 DEF OurEscrow, Escrow
<1> QED BY <1>1, <1>2, <1>3, <1>4 DEF Assign

LEMMA ChainUnassign ==
  ASSUME FundedInductive, NEW signer \in Key, Unassign(B, signer)
  PROVE  /\ Inv' /\ OurEscrow'
         /\ escrow[B] # NoEscrow /\ UNCHANGED <<balance, named>>
<1>1. Inv /\ OurEscrow /\ B \in Bounty /\ TypeOK /\ escrow[B] # NoEscrow /\ escrow[B] \in Escrow
  BY ChainKnows DEF Unassign
<1>2. Inv'
  BY <1>1, UnassignInv
<1>3. escrow'[B] = [escrow[B] EXCEPT !.contributor = Nobody, !.state = "Funded"]
  BY <1>1 DEF Unassign, TypeOK
<1>4. OurEscrow'
  BY <1>1, <1>3 DEF OurEscrow, Escrow
<1> QED BY <1>1, <1>2, <1>4 DEF Unassign

LEMMA ChainBack ==
  ASSUME FundedInductive, Cancel(B) \/ Refund(B)
  PROVE  /\ Inv' /\ OurEscrow'
         /\ escrow[B] # NoEscrow /\ escrow'[B] = NoEscrow /\ UNCHANGED named
         /\ \A u \in Applicant : balance'[u] = balance[u]
<1>0. escrow[B] # NoEscrow /\ GiveBack(B)
  BY DEF Cancel, Refund
<1>1. Inv /\ OurEscrow /\ B \in Bounty /\ TypeOK /\ escrow[B] \in Escrow
  BY <1>0, ChainKnows
<1>2. Inv'
  BY <1>0, <1>1, GiveBackInv
<1>3. escrow'[B] = NoEscrow /\ UNCHANGED named
  BY <1>0, <1>1 DEF GiveBack, CloseEscrow, TypeOK
<1>4. balance' = [balance EXCEPT ![Funder] = @ + (escrow[B].amount + escrow[B].fee)]
  BY <1>0, <1>1 DEF GiveBack, Moved, OurEscrow
<1>5. \A u \in Applicant : balance'[u] = balance[u]
  BY <1>1, <1>4, FundedConstants DEF TypeOK
<1> QED BY <1>0, <1>2, <1>3, <1>5 DEF OurEscrow

LEMMA ChainRelease ==
  ASSUME FundedInductive, Release(B, Attestor)
  PROVE  /\ Inv' /\ OurEscrow'
         /\ escrow[B] # NoEscrow /\ escrow'[B] = NoEscrow /\ UNCHANGED named
         /\ \A u \in Applicant : balance'[u] = balance[u] + (IF u = escrow[B].contributor THEN escrow[B].amount ELSE 0)
<1> DEFINE e == escrow[B]
<1>0. e # NoEscrow /\ e.contributor # Nobody /\ CloseEscrow(B, e.amount + e.fee)
      /\ balance' = Moved(Moved(balance, e.contributor, e.amount), e.feeTo, e.fee)
  BY DEF Release
<1>1. Inv /\ OurEscrow /\ B \in Bounty /\ TypeOK /\ e \in Escrow
  BY <1>0, ChainKnows
<1>2. Inv'
  BY <1>1, FundedConstants, ReleaseInv
<1>3. escrow'[B] = NoEscrow /\ UNCHANGED named
  BY <1>0, <1>1 DEF CloseEscrow, TypeOK
<1>4. e.feeTo = Attestor /\ e.contributor \in Key /\ e.amount \in Nat /\ e.fee \in Nat
  BY <1>0, <1>1 DEF OurEscrow, Escrow
<1>5. ASSUME NEW u \in Applicant PROVE balance'[u] = balance[u] + (IF u = e.contributor THEN e.amount ELSE 0)
  <2>1. u \in Key /\ u # Attestor /\ balance \in [Key -> Nat]
    BY <1>1, FundedConstants DEF TypeOK
  <2>2. balance'[u] = Moved(balance, e.contributor, e.amount)[u]
    BY <1>0, <1>4, <2>1 DEF Moved
  <2>3. balance[u] \in Nat
    BY <2>1
  <2> QED BY <1>4, <2>1, <2>2, <2>3 DEF Moved
<1> QED BY <1>0, <1>2, <1>3, <1>5 DEF OurEscrow

LEMMA ChainFund ==
  ASSUME FundedInductive, NEW o \in Offer, NEW deadline \in 0 .. MaxTime,
         Initialize(B, Funder, [amount |-> o.amount, bps |-> 0, minimum |-> 0], Attestor, Attestor, o.mode, deadline)
  PROVE  /\ Inv' /\ OurEscrow' /\ escrow[B] = NoEscrow
         /\ \A u \in Applicant : balance'[u] = balance[u]
<1> DEFINE t == [amount |-> o.amount, bps |-> 0, minimum |-> 0]
<1>1. Inv /\ B \in Bounty /\ TypeOK
  BY ChainKnows
<1>2. /\ t \in [amount : Nat, bps : Nat, minimum : Nat] /\ o.mode \in {"Draw", "SelfAssign"}
      /\ deadline \in 0 .. MaxTime /\ Funder \in Key /\ Attestor \in Key
  BY FundedConstants, EscrowConstants
<1> HIDE DEF t
<1>3. Initialize(B, Funder, t, Attestor, Attestor, o.mode, deadline)
  BY DEF t
<1>4. Inv'
  BY <1>1, <1>2, <1>3, InitializeInv
<1>5. /\ escrow[B] = NoEscrow
      /\ escrow'[B].funder = Funder /\ escrow'[B].attestor = Attestor /\ escrow'[B].feeTo = Attestor
      /\ \E paid : balance' = [balance EXCEPT ![Funder] = paid]
  <2> DEFINE e == [funder |-> Funder, attestor |-> Attestor, feeTo |-> Attestor, mode |-> o.mode,
                   amount |-> t.amount, bps |-> t.bps, minimum |-> t.minimum, fee |-> Fee(t),
                   deadline |-> deadline, state |-> "Funded", contributor |-> Nobody, everAssigned |-> FALSE]
  <2>1. e.funder = Funder /\ e.attestor = Attestor /\ e.feeTo = Attestor
    OBVIOUS
  <2>2. escrow[B] = NoEscrow /\ escrow' = [escrow EXCEPT ![B] = e] /\ balance' = Moved(balance, Funder, -(t.amount + Fee(t)))
    BY <1>3 DEF Initialize
  <2> HIDE DEF e
  <2>3. escrow'[B] = e
    BY <1>1, <2>2 DEF TypeOK
  <2>4. \E paid : balance' = [balance EXCEPT ![Funder] = paid]
    BY <2>2 DEF Moved
  <2> QED BY <2>1, <2>2, <2>3, <2>4
<1>6. \A u \in Applicant : balance'[u] = balance[u]
  BY <1>1, <1>5, FundedConstants DEF TypeOK
<1> QED BY <1>4, <1>5, <1>6 DEF OurEscrow

LEMMA ChainPayIn ==
  ASSUME FundedInductive, NEW k \in Key \ Applicant, NEW n \in Gift, PayIn(B, k, n)
  PROVE  /\ Inv' /\ OurEscrow' /\ UNCHANGED <<escrow, named>>
         /\ \A u \in Applicant : balance'[u] = balance[u]
<1>1. Inv /\ OurEscrow /\ B \in Bounty /\ TypeOK
  BY ChainKnows
<1>2. Inv'
  BY <1>1, PayInInv, EscrowConstants
<1>3. \A u \in Applicant : balance'[u] = balance[u]
  BY <1>1, FundedConstants DEF PayIn, Moved, TypeOK
<1> QED BY <1>1, <1>2, <1>3 DEF PayIn, OurEscrow

LEMMA ChainTick ==
  ASSUME FundedInductive, Tick
  PROVE  Inv' /\ OurEscrow' /\ UNCHANGED <<escrow, balance, named>>
<1>1. Inv /\ OurEscrow
  BY ChainKnows
<1>2. Inv'
  BY <1>1, StepInv DEF Next
<1> QED BY <1>1, <1>2 DEF Tick, OurEscrow

\* The agent's books do not change while the chain does.
LEMMA ChainAlone ==
  ASSUME FundedInductive, Inv', OurEscrow', UNCHANGED agent, late' \in {late, [kind |-> "none"]},
         \A u \in Applicant : balance'[u] = balance[u],
         escrow[B] = NoEscrow => escrow'[B] = NoEscrow,
         named[B] \subseteq named'[B]
  PROVE  FundedInductive'
<1>1. UNCHANGED <<bounty, row, unsigned, asg, props, exclude, prepared, payout, job>>
  BY DEF agent, books
<1>2. BooksFit /\ FundedTypeOK
  BY <1>1, BooksUntouched DEF FundedInductive
<1>3. FundedTypeOK' /\ (\A l \in Lane : AtWork(l)') /\ Numbered'
  BY <1>1, <1>2, TypesKept DEF JobStep, FundedTypeOK
<1>4. Sense'
  BY <1>1, SenseKept
<1> QED BY <1>3, <1>4, Assembled

LEMMA ChainSteps ==
  ASSUME FundedInductive, FunderActs \/ TimePasses \/ LateLands \/ (\E k \in Key \ Applicant, n \in Gift : OutsiderPays(k, n))
  PROVE  FundedInductive'
<1>k. Funder \in Key /\ Attestor \in Key
  BY FundedConstants
<1>1. ASSUME NEW signer \in Key, NEW k \in Key, Assign(B, signer, k), UNCHANGED agent, late' \in {late, [kind |-> "none"]}
      PROVE  FundedInductive'
  BY <1>1, ChainAssign, ChainAlone
<1>2. ASSUME NEW signer \in Key, Unassign(B, signer), UNCHANGED agent, late' \in {late, [kind |-> "none"]}
      PROVE  FundedInductive'
  BY <1>2, ChainUnassign, ChainAlone
<1>3. ASSUME Cancel(B) \/ Refund(B), UNCHANGED <<agent, late>> PROVE FundedInductive'
  BY <1>3, ChainBack, ChainAlone
<1>4. CASE TimePasses
  BY <1>4, ChainTick, ChainAlone DEF TimePasses
<1>5. CASE FunderActs
  BY <1>k, <1>1, <1>2, <1>3, <1>5 DEF FunderActs
<1>6. CASE LateLands
  <2>1. late.kind = "Funded" => late.user \in Key
    BY DEF FundedInductive, FundedTypeOK
  <2> QED BY <1>k, <1>1, <1>2, <1>6, <2>1 DEF LateLands
<1>7. ASSUME NEW k \in Key \ Applicant, NEW n \in Gift, OutsiderPays(k, n) PROVE FundedInductive'
  BY <1>7, ChainPayIn, ChainAlone DEF OutsiderPays
<1> QED BY <1>4, <1>5, <1>6, <1>7

-----------------------------------------------------------------------------
(* The steps that write the bounty, the row or the payout, or hand out or  *)
(* sign the funding transaction.                                           *)

LEMMA ChainStill ==
  ASSUME FundedInductive, UNCHANGED chain
  PROVE  Inv' /\ OurEscrow' /\ UNCHANGED <<escrow, vault, balance, now, named>>
<1>1. Inv /\ OurEscrow /\ UNCHANGED <<escrow, vault, balance, now, named>>
  BY ChainKnows DEF chain
<1> QED BY <1>1 DEF Inv, TypeOK, Backed, Owed, FeeIsQuoted, RemembersAssignment, OurEscrow

LEMMA Rebuilt ==
  ASSUME FundedInductive, UNCHANGED <<asg, props, exclude, prepared, late>>, JobStep, Inv', OurEscrow', Sense',
         bounty' \in [status : {"none", "funding", "posted", "payable", "paid"} \cup Ended, amount : Nat],
         row' \in [state : RowState, wallet : Key \cup {Nobody}, amount : Nat, mode : {"none", "Draw", "SelfAssign"}],
         unsigned' \in BOOLEAN,
         payout' \in [state : {"none", "awaiting", "failed"} \cup InFlight, to : Key \cup {Nobody}]
  PROVE  FundedInductive'
<1>1. BooksFit
  BY BooksUntouched
<1>2. FundedTypeOK' /\ (\A l \in Lane : AtWork(l)') /\ Numbered'
  BY <1>1, TypesKept
<1> QED BY <1>2, Assembled

LEMMA JobOf ==
  ASSUME FundedInductive, NEW l \in Lane, NEW w, Goes(l, w)
  PROVE  job'[l] = w /\ \A m \in Lane : m # l => job'[m] = job[m]
BY DEF FundedInductive, FundedTypeOK, Goes

\* The invariant taken apart.
LEMMA Known ==
  ASSUME FundedInductive
  PROVE  /\ FundedTypeOK /\ SweepSettled /\ BeforeFunding /\ NamedOnChain /\ PaidForGood /\ ClosedPaysNobody
         /\ bounty \in [status : {"none", "funding", "posted", "payable", "paid"} \cup Ended, amount : Nat]
         /\ row \in [state : RowState, wallet : Key \cup {Nobody}, amount : Nat, mode : {"none", "Draw", "SelfAssign"}]
         /\ unsigned \in BOOLEAN
         /\ payout \in [state : {"none", "awaiting", "failed"} \cup InFlight, to : Key \cup {Nobody}]
         /\ "request" \in Lane /\ "sweep" \in Lane /\ \A l \in Lane : AtWork(l)
BY DEF FundedInductive, FundedTypeOK, Lane

LEMMA PrepareKeeps ==
  ASSUME FundedInductive, NEW o \in Offer, Prepare(o)
  PROVE  FundedInductive'
<1> DEFINE w == [at |-> "preparing", offer |-> o]
<1>1. /\ bounty.status \in {"none", "funding"} /\ bounty' = [status |-> "funding", amount |-> o.amount]
      /\ UNCHANGED chain /\ UNCHANGED <<late, row, unsigned, asg, props, exclude, prepared, payout>>
      /\ Goes("request", w)
  BY DEF Prepare, Begin, Goes
<1>2. w \in Asking /\ w.at = "preparing"
  BY DEF Asking
<1> HIDE DEF w
<1>3. JobStep
  <2>1. Carried("request", w)
    BY <1>2 DEF Carried
  <2> QED BY <1>1, <2>1, Known DEF JobStep
<1>4. job'["request"] = w /\ job'["sweep"] = job["sweep"] /\ \A l \in Lane : l = "request" \/ l = "sweep"
  BY <1>1, Known, JobOf DEF Lane
<1>5. Inv' /\ OurEscrow' /\ UNCHANGED <<escrow, balance, named>>
  BY <1>1, ChainStill
<1>6. payout.state = "none" /\ \A u \in Applicant : Received(u) = 0
  BY <1>1, Known DEF BeforeFunding, PaidForGood
<1>7. Sense'
  <2>1. SweepSettled'
    BY <1>1, <1>4, Known DEF SweepSettled, Settled
  <2>2. BeforeFunding'
    BY <1>1, <1>2, <1>4, <1>5, <1>6, Known DEF BeforeFunding, Settled, At
  <2>3. NamedOnChain'
    BY <1>1, <1>2, <1>4, <1>5, Known DEF NamedOnChain
  <2>4. PaidForGood'
    BY <1>5, <1>6 DEF PaidForGood, Received
  <2>5. ClosedPaysNobody'
    BY <1>1, <1>2, <1>4, <1>5, <1>6 DEF ClosedPaysNobody, Unpayable, Unlisted, Misread, Received
  <2> QED BY <2>1, <2>2, <2>3, <2>4, <2>5 DEF Sense
<1>8. bounty' \in [status : {"none", "funding", "posted", "payable", "paid"} \cup Ended, amount : Nat]
  BY <1>1, FundedConstants
<1> QED BY <1>1, <1>3, <1>5, <1>7, <1>8, Known, Rebuilt

LEMMA PrepareFundingKeeps ==
  ASSUME FundedInductive, PrepareFunding
  PROVE  FundedInductive'
<1>0. /\ UNCHANGED chain /\ UNCHANGED <<late, bounty, asg, props, exclude, prepared, payout>>
      /\ Goes("request", Idle) /\ At("request", "preparing")
  BY DEF PrepareFunding, Quiet, End, Goes
<1>j. JobStep
  BY <1>0, Known, IdleFits DEF JobStep
<1>1. CASE UNCHANGED <<row, unsigned>>
  <2>1. BooksFit
    BY <1>0, BooksUntouched
  <2> QED BY <1>0, <1>1, <2>1, Known, IdleFits, QuietKeeps
<1>2. CASE ~UNCHANGED <<row, unsigned>>
  <2> DEFINE o == job["request"].offer
  <2>1. /\ row.state \in {"none", "funding"} /\ (row.state = "funding" => escrow[B] = NoEscrow)
        /\ row' = [state |-> "funding", wallet |-> Nobody, amount |-> o.amount, mode |-> o.mode]
        /\ unsigned' = TRUE
    BY <1>2 DEF PrepareFunding
  <2>2. o \in Offer
    BY <1>0, Known DEF At, FundedTypeOK, Working, Asking, Plain, WorkPlace
  <2>3. o.amount \in Nat /\ o.mode \in {"Draw", "SelfAssign"}
    BY <2>2, FundedConstants
  <2> HIDE DEF o
  <2>4. escrow[B] = NoEscrow /\ ~Settled
    BY <2>1, Known DEF BeforeFunding, Settled
  <2>5. payout.state = "none" /\ bounty.status # "posted" /\ \A u \in Applicant : Received(u) = 0
    BY <2>4, Known DEF BeforeFunding, PaidForGood
  <2>6. job'["request"].at = "idle" /\ job'["sweep"] = job["sweep"] /\ \A l \in Lane : l = "request" \/ l = "sweep"
    BY <1>0, Known, JobOf DEF Lane, Idle
  <2>7. Inv' /\ OurEscrow' /\ UNCHANGED <<escrow, balance, named>>
    BY <1>0, ChainStill
  <2>8. job["sweep"].at \notin {"reconciling", "attesting", "inserting", "recording", "closing", "expiring", "confirming", "listing"}
    BY <2>4, Known DEF SweepSettled, AtWork
  <2>9. Sense'
    <3>1. SweepSettled'
      BY <2>6, <2>8 DEF SweepSettled
    <3>2. BeforeFunding'
      BY <1>0, <2>1, <2>4, <2>5, <2>6, <2>7, <2>8 DEF BeforeFunding, Settled, At
    <3>3. NamedOnChain'
      BY <2>1, <2>6, <2>8 DEF NamedOnChain
    <3>4. PaidForGood'
      BY <2>5, <2>7 DEF PaidForGood, Received
    <3>5. ClosedPaysNobody'
      BY <2>1, <2>6, <2>8 DEF ClosedPaysNobody, At
    <3> QED BY <3>1, <3>2, <3>3, <3>4, <3>5 DEF Sense
  <2>10. /\ row' \in [state : RowState, wallet : Key \cup {Nobody}, amount : Nat, mode : {"none", "Draw", "SelfAssign"}]
         /\ unsigned' \in BOOLEAN
    BY <2>1, <2>2, <2>3, Known DEF RowState
  <2> QED BY <1>0, <1>j, <2>7, <2>9, <2>10, Known, Rebuilt
<1> QED BY <1>1, <1>2

\* confirmFunding reads an amount that is not the row's.
LEMMA ConfirmFailsKeeps ==
  ASSUME FundedInductive, Confirm, ~UNCHANGED row
  PROVE  FundedInductive'
<1>1. /\ UNCHANGED chain /\ UNCHANGED <<late, bounty, unsigned, asg, props, exclude, prepared, payout, job>>
      /\ row.state = "funding" /\ escrow[B] # NoEscrow /\ row' = [row EXCEPT !.state = "failed"]
  BY DEF Confirm, Quiet
<1>2. /\ row' \in [state : RowState, wallet : Key \cup {Nobody}, amount : Nat, mode : {"none", "Draw", "SelfAssign"}]
      /\ row'.state = "failed" /\ row'.wallet = row.wallet
  BY <1>1, Known DEF RowState
<1>3. Inv' /\ OurEscrow' /\ UNCHANGED <<escrow, balance, named>>
  BY <1>1, ChainStill
<1>4. ~unsigned
  BY <1>1, Known DEF BeforeFunding
<1>5. Sense'
  <2>1. SweepSettled'
    BY <1>2 DEF SweepSettled, Settled
  <2>2. BeforeFunding'
    BY <1>1, <1>2, <1>4, Known DEF BeforeFunding, Settled
  <2>3. NamedOnChain'
    BY <1>1, <1>2, <1>3, Known DEF NamedOnChain
  <2>4. PaidForGood'
    BY <1>1, <1>3, Known DEF PaidForGood, Received
  <2>5. ClosedPaysNobody'
    BY <1>1, <1>2, <1>3, Known DEF ClosedPaysNobody, Unpayable, Unlisted, Misread, Received, At
  <2> QED BY <2>1, <2>2, <2>3, <2>4, <2>5 DEF Sense
<1> QED BY <1>1, <1>2, <1>3, <1>5, Known, Rebuilt DEF JobStep

LEMMA ConfirmRowKeeps ==
  ASSUME FundedInductive, ConfirmRow
  PROVE  FundedInductive'
<1> DEFINE w == [at |-> "listing"]
<1>1. /\ UNCHANGED chain /\ UNCHANGED <<late, bounty, unsigned, asg, props, exclude, prepared, payout>>
      /\ At("request", "confirming") /\ Goes("request", w) /\ row' = [row EXCEPT !.state = "funded"]
  BY DEF ConfirmRow, Quiet, Go, Goes
<1>2. w \in Plain /\ w.at = "listing"
  BY DEF Plain
<1> HIDE DEF w
<1>3. JobStep
  <2>1. Carried("request", w)
    BY <1>2 DEF Carried
  <2> QED BY <1>1, <2>1, Known DEF JobStep
<1>4. job'["request"] = w /\ job'["sweep"] = job["sweep"] /\ \A l \in Lane : l = "request" \/ l = "sweep"
  BY <1>1, Known, JobOf DEF Lane
<1>5. Inv' /\ OurEscrow' /\ UNCHANGED <<escrow, balance, named>>
  BY <1>1, ChainStill
<1>6. /\ row' \in [state : RowState, wallet : Key \cup {Nobody}, amount : Nat, mode : {"none", "Draw", "SelfAssign"}]
      /\ row'.state = "funded" /\ row'.wallet = row.wallet
  BY <1>1, Known DEF RowState
<1>7. ~unsigned
  BY <1>1, Known DEF BeforeFunding, At
<1>8. Sense'
  <2>1. SweepSettled'
    BY <1>6 DEF SweepSettled, Settled
  <2>2. BeforeFunding'
    BY <1>1, <1>6, <1>7, Known DEF BeforeFunding, Settled
  <2>3. NamedOnChain'
    BY <1>2, <1>4, <1>5, <1>6, Known DEF NamedOnChain
  <2>4. PaidForGood'
    BY <1>1, <1>5, Known DEF PaidForGood, Received
  <2>5. ClosedPaysNobody'
    BY <1>1, <1>2, <1>4, <1>5, <1>6, <1>7, Known DEF ClosedPaysNobody, Unpayable, Unlisted, Misread, Received, At
  <2> QED BY <2>1, <2>2, <2>3, <2>4, <2>5 DEF Sense
<1> QED BY <1>1, <1>3, <1>5, <1>6, <1>8, Known, Rebuilt

LEMMA ListBountyKeeps ==
  ASSUME FundedInductive, ListBounty
  PROVE  FundedInductive'
<1>1. /\ UNCHANGED chain /\ UNCHANGED <<late, row, unsigned, asg, props, exclude, prepared, payout>>
      /\ At("request", "listing") /\ Goes("request", Idle)
      /\ bounty' = IF bounty.status = "funding" THEN [bounty EXCEPT !.status = "posted"] ELSE bounty
  BY DEF ListBounty, Quiet, End, Goes
<1>2. JobStep
  BY <1>1, Known, IdleFits DEF JobStep
<1>3. job'["request"].at = "idle" /\ job'["sweep"] = job["sweep"] /\ \A l \in Lane : l = "request" \/ l = "sweep"
  BY <1>1, Known, JobOf DEF Lane, Idle
<1>4. Inv' /\ OurEscrow' /\ UNCHANGED <<escrow, balance, named>>
  BY <1>1, ChainStill
<1>5. /\ bounty' \in [status : {"none", "funding", "posted", "payable", "paid"} \cup Ended, amount : Nat]
      /\ bounty'.amount = bounty.amount
      /\ bounty'.status = bounty.status \/ (bounty.status = "funding" /\ bounty'.status = "posted")
  BY <1>1, Known
<1>6. ~unsigned /\ Settled
  BY <1>1, Known DEF BeforeFunding, At
<1>7. Sense'
  <2>1. SweepSettled'
    BY <1>1, <1>3, <1>6 DEF SweepSettled, Settled
  <2>2. BeforeFunding'
    BY <1>1, <1>5, <1>6, Known DEF BeforeFunding, Settled
  <2>3. NamedOnChain'
    BY <1>1, <1>3, <1>4, Known DEF NamedOnChain
  <2>4. PaidForGood'
    BY <1>1, <1>4, <1>5, Known DEF PaidForGood, Received
  <2>5. ClosedPaysNobody'
    BY <1>1, <1>3, <1>4, <1>6, Known DEF ClosedPaysNobody, Unpayable, Unlisted, Misread, Received, At
  <2> QED BY <2>1, <2>2, <2>3, <2>4, <2>5 DEF Sense
<1> QED BY <1>1, <1>2, <1>4, <1>5, <1>7, Known, Rebuilt

\* The attestor is asked, and answers.
LEMMA AttestorSignsKeeps ==
  ASSUME FundedInductive, NEW l \in Lane, AttestorSigns(l)
  PROVE  FundedInductive'
<1>k. Attestor \in Key
  BY FundedConstants
<1> DEFINE Goal == FundedInductive'
<1>b. ASSUME NEW w, Goes(l, w), Carried(l, w), UNCHANGED books, UNCHANGED late, Inv', OurEscrow',
             Sense'
      PROVE  Goal
  <2>1. JobStep
    BY <1>b DEF JobStep
  <2> QED BY <1>b, <2>1, Known, Rebuilt DEF books
<1>1. CASE At(l, "attesting") /\ Attestable(l) /\ Assign(B, Attestor, job[l].user)
  <2> DEFINE w == [job[l] EXCEPT !.at = "recording"]  who == job[l].user
  <2>1. Goes(l, w) /\ UNCHANGED books /\ UNCHANGED late /\ job[l].at = "attesting" /\ Assign(B, Attestor, who)
    BY <1>1 DEF AttestorSigns, Go, Goes, At
  <2>a. w \in Working /\ w.at = "recording" /\ w.user = who
    <3>1. job[l].at \in WorkPlace /\ "recording" \in WorkPlace /\ FundedTypeOK
      BY <2>1, Known DEF WorkPlace
    <3> QED BY <3>1, GoesOn
  <2>c. who \in Key /\ (l = "sweep" => Settled)
    BY <2>1, Known DEF AtWork, SweepSettled
  <2>2. w \in Working /\ w.at = "recording" /\ w.user = who /\ who \in Key /\ (l = "sweep" => Settled)
    BY <2>a, <2>c
  <2> HIDE DEF w, who
  <2>3. Inv' /\ OurEscrow' /\ escrow[B] # NoEscrow /\ UNCHANGED balance /\ named[B] \subseteq named'[B] /\ who \in named'[B]
    BY <1>k, <2>1, <2>2, ChainAssign
  <2>4. Carried(l, w)
    BY <2>2 DEF Carried
  <2>5. ~unsigned
    BY <2>3, Known DEF BeforeFunding
  <2>6. Sense'
    <3>1. UNCHANGED <<bounty, row, unsigned, payout>>
      BY <2>1 DEF books
    <3>2. \E m \in Lane : \E x : /\ Goes(m, x) /\ Carried(m, x)
                                 /\ \/ Meant(m, x)
                                    \/ /\ x.at = "recording" /\ x.user \in named'[B]
                                       /\ ~unsigned /\ (m = "sweep" => Settled)
      BY <2>1, <2>2, <2>3, <2>4, <2>5
    <3>3. \A u \in Applicant : balance'[u] = balance[u]
      BY <2>3
    <3> QED BY <2>3, <3>1, <3>2, <3>3, SenseKept
  <2> QED BY <1>b, <2>1, <2>3, <2>4, <2>6
<1>2. CASE At(l, "unattesting") /\ Unassign(B, Attestor)
  <2> DEFINE w == [job[l] EXCEPT !.at = "unrecording"]
  <2>1. Goes(l, w) /\ UNCHANGED books /\ UNCHANGED late /\ job[l].at = "unattesting"
    BY <1>2 DEF AttestorSigns, Go, Goes, At
  <2>2. w \in Working /\ w.at = "unrecording" /\ w.i = job[l].i /\ job[l].i \in 0 .. Len(asg)
    <3>1. job[l].at \in WorkPlace /\ "unrecording" \in WorkPlace /\ FundedTypeOK
      BY <2>1, Known DEF WorkPlace
    <3>2. job[l].i \in 0 .. Len(asg)
      BY <2>1, Known DEF AtWork
    <3> QED BY <3>1, <3>2, GoesOn
  <2> HIDE DEF w
  <2>3. Inv' /\ OurEscrow' /\ escrow[B] # NoEscrow /\ UNCHANGED <<balance, named>>
    BY <1>k, <1>2, ChainUnassign
  <2>4. Carried(l, w) /\ Meant(l, w)
    BY <2>2 DEF Carried, Meant
  <2>6. Sense'
    BY <2>1, <2>3, <2>4, SenseKept DEF books
  <2> QED BY <1>b, <2>1, <2>3, <2>4, <2>6
<1> QED BY <1>1, <1>2 DEF AttestorSigns

\* A lane that is over, or goes on to end the assignment it is about.
LEMMA ReleasesOrEnds ==
  ASSUME FundedInductive, NEW l \in Lane, job[l].at \in WorkPlace, job[l].i \in 0 .. Len(asg),
         IF job[l].i = 0 THEN End(l) ELSE Go(l, [job[l] EXCEPT !.at = "releasing"])
  PROVE  JobStep /\ \E w : Goes(l, w) /\ Carried(l, w) /\ w.at \in {"idle", "releasing"}
<1>1. CASE job[l].i = 0
  <2>1. Goes(l, Idle) /\ Idle.at = "idle"
    BY <1>1 DEF End, Goes, Idle
  <2> QED BY <2>1, IdleFits DEF JobStep
<1>2. CASE job[l].i # 0
  <2> DEFINE w == [job[l] EXCEPT !.at = "releasing"]
  <2>1. Goes(l, w)
    BY <1>2 DEF Go, Goes
  <2>2. w \in Working /\ w.at = "releasing" /\ w.i = job[l].i
    <3>1. "releasing" \in WorkPlace /\ FundedTypeOK
      BY Known DEF WorkPlace
    <3> QED BY <3>1, GoesOn
  <2> HIDE DEF w
  <2>3. Len(asg) \in Nat
    BY SmallBooks
  <2>4. Carried(l, w)
    BY <1>2, <2>2, <2>3 DEF Carried
  <2> QED BY <2>1, <2>2, <2>4 DEF JobStep
<1> QED BY <1>1, <1>2

LEMMA RecordAssignedKeeps ==
  ASSUME FundedInductive, NEW l \in Lane, RecordAssigned(l)
  PROVE  FundedInductive'
<1>1. /\ UNCHANGED chain /\ UNCHANGED <<late, bounty, unsigned, asg, props, exclude, prepared, payout>>
      /\ job[l].at = "recording" /\ Goes(l, Idle)
      /\ row' = [row EXCEPT !.state = "assigned", !.wallet = job[l].user]
  BY DEF RecordAssigned, Quiet, End, Goes, At
<1>2. JobStep
  BY <1>1, IdleFits DEF JobStep
<1>3. job'[l].at = "idle" /\ \A m \in Lane : m # l => job'[m] = job[m]
  BY <1>1, JobOf DEF Idle
<1>4. Inv' /\ OurEscrow' /\ UNCHANGED <<escrow, balance, named>>
  BY <1>1, ChainStill
<1>5. job[l].user \in Key /\ job[l].user \in named[B] /\ ~unsigned
  BY <1>1, Known DEF AtWork, NamedOnChain, BeforeFunding
<1>6. /\ row' \in [state : RowState, wallet : Key \cup {Nobody}, amount : Nat, mode : {"none", "Draw", "SelfAssign"}]
      /\ row'.state = "assigned" /\ row'.wallet = job[l].user
  BY <1>1, <1>5, Known DEF RowState
<1>7. Sense'
  <2>1. SweepSettled'
    BY <1>6 DEF SweepSettled, Settled
  <2>2. BeforeFunding'
    BY <1>1, <1>5, <1>6, Known DEF BeforeFunding, Settled
  <2>3. NamedOnChain'
    BY <1>3, <1>4, <1>5, <1>6, Known DEF NamedOnChain
  <2>4. PaidForGood'
    BY <1>1, <1>4, Known DEF PaidForGood, Received
  <2>5. ClosedPaysNobody'
    BY <1>1, <1>3, <1>4, <1>6, Known DEF ClosedPaysNobody, Unpayable, Unlisted, Misread, Received, At
  <2> QED BY <2>1, <2>2, <2>3, <2>4, <2>5 DEF Sense
<1> QED BY <1>1, <1>2, <1>4, <1>6, <1>7, Known, Rebuilt

LEMMA RecordUnassignedKeeps ==
  ASSUME FundedInductive, NEW l \in Lane, RecordUnassigned(l)
  PROVE  FundedInductive'
<1>1. /\ UNCHANGED chain /\ UNCHANGED <<late, bounty, unsigned, asg, props, exclude, prepared, payout>>
      /\ job[l].at = "unrecording"
      /\ IF job[l].i = 0 THEN End(l) ELSE Go(l, [job[l] EXCEPT !.at = "releasing"])
      /\ row' = [row EXCEPT !.state = "funded", !.wallet = Nobody]
  BY DEF RecordUnassigned, Quiet, At
<1>2. JobStep /\ \E w : Goes(l, w) /\ Carried(l, w) /\ w.at \in {"idle", "releasing"}
  BY <1>1, Known, ReleasesOrEnds DEF AtWork, WorkPlace
<1>3. job'[l].at \in {"idle", "releasing"} /\ \A m \in Lane : m # l => job'[m] = job[m]
  BY <1>2, JobOf
<1>4. Inv' /\ OurEscrow' /\ UNCHANGED <<escrow, balance, named>>
  BY <1>1, ChainStill
<1>6. /\ row' \in [state : RowState, wallet : Key \cup {Nobody}, amount : Nat, mode : {"none", "Draw", "SelfAssign"}]
      /\ row'.state = "funded" /\ row'.wallet = Nobody
  BY <1>1, Known DEF RowState
<1>7. Sense'
  <2>1. SweepSettled'
    BY <1>6 DEF SweepSettled, Settled
  <2>2. BeforeFunding'
    BY <1>1, <1>3, <1>4, <1>6, Known DEF BeforeFunding, Settled
  <2>3. NamedOnChain'
    BY <1>3, <1>4, <1>6, Known DEF NamedOnChain
  <2>4. PaidForGood'
    BY <1>1, <1>4, Known DEF PaidForGood, Received
  <2>5. ClosedPaysNobody'
    BY <1>1, <1>3, <1>4, <1>6, Known DEF ClosedPaysNobody, Unpayable, Unlisted, Misread, Received, At
  <2> QED BY <2>1, <2>2, <2>3, <2>4, <2>5 DEF Sense
<1> QED BY <1>1, <1>2, <1>4, <1>6, <1>7, Known, Rebuilt

LEMMA RecordClosedKeeps ==
  ASSUME FundedInductive, NEW l \in Lane, RecordClosed(l)
  PROVE  FundedInductive'
<1> DEFINE w == [job[l] EXCEPT !.at = "expiring"]
<1>1. /\ UNCHANGED chain /\ UNCHANGED <<late, bounty, unsigned, asg, props, exclude, prepared, payout>>
      /\ job[l].at = "closing" /\ Goes(l, w) /\ row' = [row EXCEPT !.state = "refunded"]
  BY DEF RecordClosed, Quiet, At, Go, Goes
<1>2. w \in Working /\ w.at = "expiring" /\ w.i = job[l].i /\ w.how = job[l].how
  <2>1. job[l].at \in WorkPlace /\ "expiring" \in WorkPlace /\ FundedTypeOK
    BY <1>1, Known DEF WorkPlace
  <2> QED BY <2>1, GoesOn
<1> HIDE DEF w
<1>3. JobStep
  <2>1. Carried(l, w)
    BY <1>1, <1>2, Known DEF Carried, AtWork
  <2> QED BY <1>1, <2>1 DEF JobStep
<1>4. job'[l].at = "expiring" /\ \A m \in Lane : m # l => job'[m] = job[m]
  BY <1>1, <1>2, JobOf
<1>5. Inv' /\ OurEscrow' /\ UNCHANGED <<escrow, balance, named>>
  BY <1>1, ChainStill
<1>6. /\ row' \in [state : RowState, wallet : Key \cup {Nobody}, amount : Nat, mode : {"none", "Draw", "SelfAssign"}]
      /\ row'.state = "refunded" /\ row'.wallet = row.wallet
  BY <1>1, Known DEF RowState
<1>7. Unpayable
  BY <1>1, Known DEF ClosedPaysNobody, At
<1>8. Sense'
  <2>1. SweepSettled'
    BY <1>6 DEF SweepSettled, Settled
  <2>2. BeforeFunding'
    BY <1>1, <1>4, <1>5, <1>6, Known DEF BeforeFunding, Settled
  <2>3. NamedOnChain'
    BY <1>4, <1>5, <1>6, Known DEF NamedOnChain
  <2>4. PaidForGood'
    BY <1>1, <1>5, Known DEF PaidForGood, Received
  <2>5. ClosedPaysNobody'
    <3>1. job'["request"].at \in {"confirming", "listing"} => job["request"].at \in {"confirming", "listing"}
      BY <1>4, Known
    <3>2. Unlisted => Unlisted'
      BY <1>1, <3>1 DEF Unlisted
    <3> QED BY <1>1, <1>5, <1>7, <3>2 DEF ClosedPaysNobody, Unpayable, Misread, Received
  <2> QED BY <2>1, <2>2, <2>3, <2>4, <2>5 DEF Sense
<1> QED BY <1>1, <1>3, <1>5, <1>6, <1>8, Known, Rebuilt

LEMMA CloseBountyKeeps ==
  ASSUME FundedInductive, NEW l \in Lane, CloseBounty(l)
  PROVE  FundedInductive'
<1>1. /\ UNCHANGED chain /\ UNCHANGED <<late, row, unsigned, asg, props, exclude, prepared, payout>>
      /\ job[l].at = "expiring"
      /\ IF job[l].i = 0 THEN End(l) ELSE Go(l, [job[l] EXCEPT !.at = "releasing"])
      /\ bounty' = [bounty EXCEPT !.status = job[l].how]
  BY DEF CloseBounty, Quiet, At
<1>2. JobStep /\ \E w : Goes(l, w) /\ Carried(l, w) /\ w.at \in {"idle", "releasing"}
  BY <1>1, Known, ReleasesOrEnds DEF AtWork, WorkPlace
<1>3. job'[l].at \in {"idle", "releasing"} /\ \A m \in Lane : m # l => job'[m] = job[m]
  BY <1>2, JobOf
<1>4. Inv' /\ OurEscrow' /\ UNCHANGED <<escrow, balance, named>>
  BY <1>1, ChainStill
<1>5. job[l].how \in Ended
  BY <1>1, Known DEF AtWork
<1>6. /\ bounty' \in [status : {"none", "funding", "posted", "payable", "paid"} \cup Ended, amount : Nat]
      /\ bounty'.status \in Ended /\ bounty'.amount = bounty.amount
  BY <1>1, <1>5, Known
<1>7. Sense'
  <2>1. SweepSettled'
    BY <1>1, <1>3, Known DEF SweepSettled, Settled
  <2>2. BeforeFunding'
    BY <1>1, <1>3, <1>4, <1>6, Known DEF BeforeFunding, Settled, Ended, At
  <2>3. NamedOnChain'
    BY <1>1, <1>3, <1>4, Known DEF NamedOnChain
  <2>4. PaidForGood'
    BY <1>1, <1>4, <1>6, Known DEF PaidForGood, Received
  <2>5. ClosedPaysNobody'
    <3> SUFFICES ASSUME row.state = "refunded" \/ \E m \in Lane : job'[m].at = "closing" PROVE Unpayable'
      BY <1>1 DEF ClosedPaysNobody, At
    <3>1. Unpayable
      BY <1>3, Known DEF ClosedPaysNobody, At
    <3>2. bounty'.status # "posted"
      BY <1>6 DEF Ended
    <3>3. job'["request"].at \in {"confirming", "listing"} => job["request"].at \in {"confirming", "listing"}
      BY <1>3, Known
    <3>4. Unlisted => Unlisted'
      BY <1>1, <3>2, <3>3 DEF Unlisted
    <3> QED BY <1>1, <1>4, <3>1, <3>4 DEF Unpayable, Misread, Received
  <2> QED BY <2>1, <2>2, <2>3, <2>4, <2>5 DEF Sense
<1> QED BY <1>1, <1>2, <1>4, <1>6, <1>7, Known, Rebuilt

\* The funder signs, on whatever terms.
LEMMA FunderSignsKeeps ==
  ASSUME FundedInductive, NEW o \in Offer, NEW deadline \in 0 .. MaxTime, FunderSigns(o, deadline)
  PROVE  FundedInductive'
<1>1. /\ UNCHANGED <<late, bounty, row, asg, props, exclude, prepared, payout, job>> /\ unsigned /\ unsigned' = FALSE
      /\ Initialize(B, Funder, [amount |-> o.amount, bps |-> 0, minimum |-> 0], Attestor, Attestor, o.mode, deadline)
  BY DEF FunderSigns
<1>2. Inv' /\ OurEscrow' /\ \A u \in Applicant : balance'[u] = balance[u]
  BY <1>1, ChainFund
<1>3. /\ row.wallet = Nobody /\ payout.state = "none" /\ bounty.status # "posted" /\ row.state # "none"
      /\ \A l \in Lane : job[l].at \notin {"confirming", "listing", "inserting", "recording"}
  BY <1>1, Known DEF BeforeFunding
<1>4. \A u \in Applicant : Received(u) = 0
  BY <1>1, Known DEF PaidForGood
<1>5. Sense'
  <2>1. SweepSettled'
    BY <1>1, Known DEF SweepSettled, Settled
  <2>2. BeforeFunding'
    BY <1>1, <1>3, Known DEF BeforeFunding, Settled, At
  <2>3. NamedOnChain'
    BY <1>1, <1>3 DEF NamedOnChain
  <2>4. PaidForGood'
    BY <1>2, <1>4 DEF PaidForGood, Received
  <2>5. Unpayable'
    BY <1>1, <1>2, <1>3, <1>4, Known DEF Unpayable, Unlisted, Misread, Received
  <2> QED BY <2>1, <2>2, <2>3, <2>4, <2>5 DEF Sense, ClosedPaysNobody
<1> QED BY <1>1, <1>2, <1>5, Known, Rebuilt DEF JobStep

LEMMA MergeKeeps ==
  ASSUME FundedInductive, NEW i, Merge(i)
  PROVE  FundedInductive'
<1>1. /\ UNCHANGED chain /\ UNCHANGED <<late, row, unsigned, asg, props, exclude, prepared, job>>
      /\ bounty.status = "posted" /\ row.state = "assigned" /\ payout.state = "none"
      /\ payout' = [state |-> "awaiting", to |-> row.wallet]
      /\ bounty' = [bounty EXCEPT !.status = "payable"]
  BY DEF Merge, Quiet
<1>2. Inv' /\ OurEscrow' /\ UNCHANGED <<escrow, balance, named>>
  BY <1>1, ChainStill
<1>3. /\ bounty' \in [status : {"none", "funding", "posted", "payable", "paid"} \cup Ended, amount : Nat]
      /\ bounty'.status = "payable"
      /\ payout' \in [state : {"none", "awaiting", "failed"} \cup InFlight, to : Key \cup {Nobody}]
      /\ payout'.state = "awaiting"
  BY <1>1, Known
<1>4. ~unsigned /\ \A u \in Applicant : Received(u) = 0
  BY <1>1, Known DEF BeforeFunding, PaidForGood
<1>5. Sense'
  <2>1. SweepSettled'
    BY <1>1, Known DEF SweepSettled, Settled
  <2>2. BeforeFunding'
    BY <1>1, <1>3, <1>4, Known DEF BeforeFunding, Settled, At
  <2>3. NamedOnChain'
    BY <1>1, <1>2, Known DEF NamedOnChain
  <2>4. PaidForGood'
    BY <1>2, <1>4 DEF PaidForGood, Received
  <2>5. ClosedPaysNobody'
    BY <1>1, <1>2, <1>4, Known DEF ClosedPaysNobody, Unpayable, Unlisted, Misread, Received, At
  <2> QED BY <2>1, <2>2, <2>3, <2>4, <2>5 DEF Sense
<1> QED BY <1>1, <1>2, <1>3, <1>5, Known, Rebuilt DEF JobStep

\* Once there is a payout, its escrow was listed and no other is under way.
LEMMA PayoutKnows ==
  ASSUME FundedInductive, payout.state # "none"
  PROVE  /\ Settled /\ ~unsigned /\ bounty.status \notin {"none", "funding"}
         /\ ClosedPaysNobody /\ (Unpayable => escrow[B] = NoEscrow)
BY Known DEF BeforeFunding, Unpayable, Unlisted

\* The steps of the payout that leave the chain alone.
LEMMA PayoutKeeps ==
  ASSUME FundedInductive, ApprovePay \/ LosePay \/ RefusePay \/ UnreadablePay \/ FinishPay
  PROVE  FundedInductive'
<1>1. /\ UNCHANGED chain /\ UNCHANGED <<late, unsigned, asg, props, exclude, prepared, job>>
      /\ \E now_ \in {"approved", "submitted", "failed", "confirmed"} : payout' = [payout EXCEPT !.state = now_]
      /\ payout.state \in {"awaiting", "approved", "landed"}
  BY DEF ApprovePay, LosePay, RefusePay, UnreadablePay, FinishPay, Paying
<1>2. Inv' /\ OurEscrow' /\ UNCHANGED <<escrow, balance, named>>
  BY <1>1, ChainStill
<1>3. /\ payout' \in [state : {"none", "awaiting", "failed"} \cup InFlight, to : Key \cup {Nobody}]
      /\ payout'.state # "none"
  BY <1>1, Known DEF InFlight
<1>4. payout.state = "landed" => payout'.state \in {"submitted", "confirmed", "failed"}
  BY Known DEF ApprovePay, LosePay, RefusePay, UnreadablePay, FinishPay, Paying
<1>5. /\ bounty' \in [status : {"none", "funding", "posted", "payable", "paid"} \cup Ended, amount : Nat]
      /\ bounty'.amount = bounty.amount /\ (bounty'.status = bounty.status \/ bounty'.status = "paid")
      /\ row' \in [state : RowState, wallet : Key \cup {Nobody}, amount : Nat, mode : {"none", "Draw", "SelfAssign"}]
      /\ row'.wallet = row.wallet /\ (row'.state = row.state \/ row'.state = "released")
  BY Known DEF ApprovePay, LosePay, RefusePay, UnreadablePay, FinishPay, RowState
<1>6. /\ Settled /\ ~unsigned /\ bounty.status \notin {"none", "funding"}
      /\ ClosedPaysNobody /\ (Unpayable => escrow[B] = NoEscrow)
  BY <1>1, PayoutKnows
<1>7. row'.state \notin {"none", "funding"}
  BY <1>5, <1>6 DEF Settled
<1>8. Sense'
  <2>1. SweepSettled'
    BY <1>7 DEF SweepSettled, Settled
  <2>2. BeforeFunding'
    BY <1>1, <1>5, <1>6, <1>7 DEF BeforeFunding, Settled
  <2>3. NamedOnChain'
    BY <1>1, <1>2, <1>5, Known DEF NamedOnChain
  <2>4. PaidForGood'
    <3>1. payout'.to = payout.to
      BY <1>1, Known
    <3> QED BY <1>1, <1>2, <1>4, <1>5, <3>1, Known DEF PaidForGood, Received
  <2>5. ClosedPaysNobody'
    <3> SUFFICES ASSUME row'.state = "refunded" \/ \E m \in Lane : job'[m].at = "closing" PROVE Unpayable'
      BY DEF ClosedPaysNobody, At
    <3>1. Unpayable
      BY <1>1, <1>5, <1>6 DEF ClosedPaysNobody, At
    <3>2. \A u \in Applicant : Received(u) = 0
      BY <1>1, <3>1 DEF Unpayable, Misread
    <3> QED BY <1>1, <1>2, <1>6, <3>1, <3>2 DEF Unpayable, Misread, Received
  <2> QED BY <2>1, <2>2, <2>3, <2>4, <2>5 DEF Sense
<1> QED BY <1>1, <1>2, <1>3, <1>5, <1>8, Known, Rebuilt DEF JobStep

\* The release lands: the escrow held the figure advertised, and its contributor
\* had received nothing.
LEMMA ReleasePayKeeps ==
  ASSUME FundedInductive, ReleasePay
  PROVE  FundedInductive'
<1>1. /\ UNCHANGED <<late, bounty, row, unsigned, asg, props, exclude, prepared, job>>
      /\ payout.state \in {"approved", "submitted"} /\ escrow[B].amount = bounty.amount /\ Release(B, Attestor)
      /\ escrow[B].contributor = payout.to
      /\ payout' = [payout EXCEPT !.state = IF payout.state = "approved" THEN "landed" ELSE "submitted"]
  BY DEF ReleasePay, Releasable, Paying
<1>2. /\ Inv' /\ OurEscrow' /\ escrow[B] # NoEscrow /\ escrow'[B] = NoEscrow /\ UNCHANGED named
      /\ \A u \in Applicant : balance'[u] = balance[u] + (IF u = escrow[B].contributor THEN escrow[B].amount ELSE 0)
  BY <1>1, ChainRelease
<1>3. /\ payout' \in [state : {"none", "awaiting", "failed"} \cup InFlight, to : Key \cup {Nobody}]
      /\ payout'.state \in {"landed", "submitted"} /\ payout'.to = payout.to
  BY <1>1, Known DEF InFlight
<1>4. /\ Settled /\ ~unsigned /\ bounty.status \notin {"none", "funding"}
      /\ ClosedPaysNobody /\ ~Unpayable
  BY <1>1, <1>2, PayoutKnows
<1>5. \A u \in Applicant : balance[u] - Wealth[u] = 0
  BY <1>2, Known DEF PaidForGood, Received
<1>6. \A u \in Applicant : balance[u] \in Nat /\ Wealth[u] \in Nat /\ bounty.amount \in Nat
  BY Known, ChainKnows, FundedConstants, EscrowConstants DEF TypeOK
<1>7. \A u \in Applicant : balance'[u] - Wealth[u] # 0 => balance'[u] - Wealth[u] = bounty.amount /\ u = payout.to
  BY <1>1, <1>2, <1>5, <1>6
<1>8. Sense'
  <2>1. SweepSettled'
    BY <1>1, Known DEF SweepSettled, Settled
  <2>2. BeforeFunding'
    BY <1>1, <1>2, <1>3, <1>4 DEF BeforeFunding, Settled
  <2>3. NamedOnChain'
    BY <1>1, <1>2, Known DEF NamedOnChain
  <2>4. PaidForGood'
    BY <1>1, <1>2, <1>3, <1>4, <1>7 DEF PaidForGood, Received
  <2>5. ClosedPaysNobody'
    BY <1>1, <1>4 DEF ClosedPaysNobody, At
  <2> QED BY <2>1, <2>2, <2>3, <2>4, <2>5 DEF Sense
<1> QED BY <1>1, <1>2, <1>3, <1>8, Known, Rebuilt DEF JobStep

-----------------------------------------------------------------------------
(* The invariant, and what it is for.                                      *)

LEMMA FundedInitInv == FundedInit => FundedInductive
<1> SUFFICES ASSUME FundedInit PROVE FundedInductive
  OBVIOUS
<1>1. Inv /\ B \in Bounty
  BY InitInv, FundedConstants DEF FundedInit
<1>2. FundedTypeOK
  <2>1. asg \in Seq([user : Key, status : AsgState, direct : BOOLEAN])
    BY EmptySeq DEF FundedInit
  <2>2. props \in Seq([asg : Nat, status : {"pending", "accepted", "refused", "withdrawn", "silence"}, done : BOOLEAN])
    BY EmptySeq DEF FundedInit
  <2>3. job \in [Lane -> Working \cup Asking \cup Plain]
    BY DEF FundedInit, Idle, Plain
  <2> QED BY <2>1, <2>2, <2>3 DEF FundedInit, FundedTypeOK, RowState
<1>3. \A l \in Lane : job[l].at = "idle"
  BY DEF FundedInit, Idle
<1>4. escrow[B] = NoEscrow /\ \A u \in Applicant : Received(u) = 0
  BY <1>1, FundedConstants, EscrowConstants DEF FundedInit, Init, Received
<1>5. (\A l \in Lane : AtWork(l)) /\ SweepSettled
  BY <1>3 DEF AtWork, SweepSettled, Lane
<1>6. Numbered
  BY DEF FundedInit, Numbered
<1>7. OurEscrow /\ BeforeFunding /\ NamedOnChain
  BY <1>3, <1>4 DEF FundedInit, OurEscrow, BeforeFunding, NamedOnChain, Settled, At, Lane
<1>8. PaidForGood /\ ClosedPaysNobody
  BY <1>3, <1>4 DEF FundedInit, PaidForGood, ClosedPaysNobody, At, Lane
<1> QED BY <1>1, <1>2, <1>5, <1>6, <1>7, <1>8 DEF FundedInductive, Inv

LEMMA ContinueKeeps ==
  ASSUME FundedInductive, NEW l \in Lane, Continue(l)
  PROVE  FundedInductive'
<1>1. CASE \/ AttestorRefuses(l) \/ AttestorLoses(l) \/ RecordAssignment(l) \/ EndAssignment(l) \/ CarryOut(l)
           \/ SeesClosed(l) \/ SeesNamed(l) \/ SeesNobody(l)
           \/ l = "request" /\ (UnassignChecked \/ WriteAnswer)
  BY <1>1, QuietInv DEF QuietStep
<1>2. CASE AttestorSigns(l) \/ RecordAssigned(l) \/ RecordUnassigned(l) \/ RecordClosed(l) \/ CloseBounty(l)
  BY <1>2, AttestorSignsKeeps, RecordAssignedKeeps, RecordUnassignedKeeps, RecordClosedKeeps, CloseBountyKeeps
<1>3. CASE PrepareFunding \/ ConfirmRow \/ ListBounty
  BY <1>3, PrepareFundingKeeps, ConfirmRowKeeps, ListBountyKeeps
<1> QED BY <1>1, <1>2, <1>3 DEF Continue

LEMMA RequestKeeps ==
  ASSUME FundedInductive, Request \/ Expire \/ Retry \/ Reconcile("sweep")
  PROVE  FundedInductive'
<1>1. ASSUME NEW o \in Offer, Prepare(o) PROVE FundedInductive'
  BY <1>1, PrepareKeeps
<1>2. CASE Confirm
  BY <1>2, ConfirmFailsKeeps, QuietInv DEF QuietStep, QuietStart
<1>3. CASE QuietStart
  BY <1>3, QuietInv DEF QuietStep
<1>4. CASE (\E i \in DOMAIN asg : Propose(i)) \/ (\E p \in DOMAIN props : Withdraw(p))
  BY <1>4, QuietInv DEF QuietStep
<1> QED BY <1>1, <1>2, <1>3, <1>4 DEF Request, Expire, Retry, ReclaimConfirm, QuietStart, Lane

LEMMA WorldKeeps ==
  ASSUME FundedInductive, World
  PROVE  FundedInductive'
<1>1. ASSUME NEW o \in Offer, NEW deadline \in 0 .. MaxTime, FunderSigns(o, deadline) PROVE FundedInductive'
  BY <1>1, Known, FunderSignsKeeps
<1>2. CASE FunderActs \/ TimePasses \/ LateLands \/ (\E k \in Key \ Applicant, n \in Gift : OutsiderPays(k, n))
  BY <1>2, ChainSteps
<1>3. CASE QuietWorld
  BY <1>3, QuietInv DEF QuietStep
<1>4. ASSUME NEW i \in DOMAIN asg, Merge(i) PROVE FundedInductive'
  BY <1>4, MergeKeeps
<1>5. CASE ApprovePay \/ LosePay \/ RefusePay \/ UnreadablePay \/ FinishPay \/ ReleasePay
  BY <1>5, PayoutKeeps, ReleasePayKeeps
<1> QED BY <1>1, <1>2, <1>3, <1>4, <1>5 DEF World, QuietWorld

LEMMA FundedStutter ==
  ASSUME FundedInductive, UNCHANGED fvars
  PROVE  FundedInductive'
<1>1. UNCHANGED <<chain, bounty, row, unsigned, asg, props, exclude, prepared, payout, job, late>>
  BY DEF fvars, agent, books
<1>2. BooksFit
  BY <1>1, BooksUntouched
<1> QED BY <1>1, <1>2, QuietKeeps

LEMMA FundedStepInv == FundedInductive /\ [FundedNext]_fvars => FundedInductive'
<1> SUFFICES ASSUME FundedInductive, [FundedNext]_fvars PROVE FundedInductive'
  OBVIOUS
<1>1. ASSUME NEW l \in Lane, Continue(l) PROVE FundedInductive'
  BY <1>1, ContinueKeeps
<1>2. CASE Request \/ Expire \/ Retry \/ Reconcile("sweep")
  BY <1>2, RequestKeeps
<1>3. CASE World
  BY <1>3, WorldKeeps
<1>4. CASE UNCHANGED fvars
  BY <1>4, FundedStutter
<1> QED BY <1>1, <1>2, <1>3, <1>4 DEF FundedNext

\* Whatever the funder signs from a wallet of their own, the attestor answers or
\* loses, the sweep reconciles and a crash cuts short, the agent's rows keep their
\* sense beside the chain.
THEOREM MirrorAndChain == FundedSpec => []FundedInductive
BY FundedInitInv, FundedStepInv, PTL DEF FundedSpec

\* An escrow that paid its contributor is never recorded as one the funder took back
\* (recordClosed, reconcileOne), of however many people, offers and restarts, unless
\* the answer to the release could not be read and the payout says failed.
THEOREM PaidNeverRefunded == FundedSpec => []NeverMistaken
<1>1. FundedInductive => NeverMistaken
  BY DEF FundedInductive, ClosedPaysNobody, Unpayable, NeverMistaken
<1> QED BY <1>1, MirrorAndChain, PTL

\* The wallet the row names is one the chain named (recordAssigned).
THEOREM WalletFromChain == FundedSpec => []OnlyWhatChainSaid
<1>1. FundedInductive => OnlyWhatChainSaid
  BY DEF FundedInductive, NamedOnChain, OnlyWhatChainSaid
<1> QED BY <1>1, MirrorAndChain, PTL

\* A contributor receives the figure the bounty advertises, once, or nothing.
THEOREM TheFigureAdvertised == FundedSpec => []PaidAsAdvertised
<1>1. FundedInductive => PaidAsAdvertised
  BY DEF FundedInductive, PaidForGood, PaidAsAdvertised
<1> QED BY <1>1, MirrorAndChain, PTL

-----------------------------------------------------------------------------
(* The agent beside the program: every step of the two is a step of what   *)
(* the program promises, or none of its business.                          *)

OnChain ==
  \/ UNCHANGED chain
  \/ \E signer, k \in Key : Assign(B, signer, k)
  \/ \E signer \in Key : Unassign(B, signer) \/ Release(B, signer)
  \/ Refund(B) \/ Cancel(B) \/ Tick
  \/ \E k \in Key, n \in Gift : PayIn(B, k, n)
  \/ \E o \in Offer, deadline \in 0 .. MaxTime :
       Initialize(B, Funder, [amount |-> o.amount, bps |-> 0, minimum |-> 0], Attestor, Attestor, o.mode, deadline)

LEMMA WhoMovesTheChain ==
  ASSUME FundedInductive, [FundedNext]_fvars
  PROVE  OnChain
<1>k. Funder \in Key /\ Attestor \in Key
  BY FundedConstants
<1>1. ASSUME NEW l \in Lane, Continue(l) PROVE OnChain
  <2>1. CASE \/ AttestorRefuses(l) \/ AttestorLoses(l) \/ RecordAssignment(l) \/ EndAssignment(l) \/ CarryOut(l)
             \/ SeesClosed(l) \/ SeesNamed(l) \/ SeesNobody(l)
             \/ l = "request" /\ (UnassignChecked \/ WriteAnswer)
    BY <2>1, LaneBooks DEF OnChain
  <2>2. CASE RecordAssigned(l) \/ RecordUnassigned(l) \/ RecordClosed(l) \/ CloseBounty(l) \/ PrepareFunding \/ ConfirmRow \/ ListBounty
    BY <2>2 DEF RecordAssigned, RecordUnassigned, RecordClosed, CloseBounty, PrepareFunding, ConfirmRow, ListBounty, Quiet, OnChain
  <2>3. CASE AttestorSigns(l)
    <3>1. job[l].at = "attesting" => job[l].user \in Key
      BY Known DEF AtWork
    <3> QED BY <1>k, <2>3, <3>1 DEF AttestorSigns, At, OnChain
  <2> QED BY <1>1, <2>1, <2>2, <2>3 DEF Continue
<1>2. CASE Request \/ Expire \/ Retry \/ Reconcile("sweep")
  <2>1. ASSUME NEW x, Prepare(x) \/ Confirm PROVE OnChain
    BY <2>1 DEF Prepare, Confirm, Quiet, OnChain
  <2>2. CASE QuietStart
    BY <2>2, StartBooks DEF OnChain
  <2>3. CASE (\E i \in DOMAIN asg : Propose(i)) \/ (\E p \in DOMAIN props : Withdraw(p))
    BY <2>3, ProposalBooks DEF OnChain
  <2> QED BY <1>2, <2>1, <2>2, <2>3 DEF Request, Expire, Retry, ReclaimConfirm, QuietStart, Lane
<1>3. CASE World
  <2>1. ASSUME NEW o \in Offer, NEW deadline \in 0 .. MaxTime, FunderSigns(o, deadline) PROVE OnChain
    BY <2>1, Known DEF FunderSigns, OnChain
  <2>2. CASE FunderActs
    BY <1>k, <2>2 DEF FunderActs, OnChain
  <2>3. CASE LateLands
    <3>1. late.kind = "Funded" => late.user \in Key
      BY DEF FundedInductive, FundedTypeOK
    <3> QED BY <1>k, <2>3, <3>1 DEF LateLands, OnChain
  <2>4. CASE QuietWorld
    BY <2>4, WorldBooks DEF OnChain
  <2>5. ASSUME NEW i \in DOMAIN asg, Merge(i) PROVE OnChain
    BY <2>5 DEF Merge, Quiet, OnChain
  <2>6. CASE ApprovePay \/ LosePay \/ RefusePay \/ UnreadablePay \/ FinishPay
    BY <2>6 DEF ApprovePay, LosePay, RefusePay, UnreadablePay, FinishPay, OnChain
  <2>7. CASE ReleasePay \/ TimePasses \/ (\E k \in Key \ Applicant, n \in Gift : OutsiderPays(k, n))
    BY <1>k, <2>7 DEF ReleasePay, TimePasses, OutsiderPays, OnChain
  <2> QED BY <1>3, <2>1, <2>2, <2>3, <2>4, <2>5, <2>6, <2>7 DEF World, QuietWorld
<1>4. CASE UNCHANGED fvars
  BY <1>4 DEF fvars, OnChain
<1> QED BY <1>1, <1>2, <1>3, <1>4 DEF FundedNext

LEMMA FundedRefines ==
  ASSUME FundedInductive, FundedInductive', [FundedNext]_fvars
  PROVE  [Promised!Next]_(Promised!vars)
<1>1. OnChain
  BY WhoMovesTheChain
<1>2. Inv /\ Inv' /\ B \in Bounty /\ Funder \in Key /\ Attestor \in Key
  BY FundedConstants DEF FundedInductive, Inv
<1>3. CASE UNCHANGED chain
  BY <1>3 DEF chain, Promised!vars, Deposits, DepositOf, Owed
<1>4. ASSUME NEW signer \in Key, NEW k \in Key, Assign(B, signer, k) PROVE Promised!Next
  BY <1>2, <1>4, AssignRefines DEF Promised!Next
<1>5. ASSUME NEW signer \in Key, Unassign(B, signer) PROVE UNCHANGED Promised!vars
  BY <1>2, <1>5, UnassignRefines
<1>6. ASSUME NEW signer \in Key, Release(B, signer) PROVE Promised!Next
  BY <1>2, <1>6, ReleaseRefines DEF Promised!Next
<1>7. ASSUME Refund(B) \/ Cancel(B) PROVE Promised!Next
  BY <1>2, <1>7, GiveBackRefines DEF Promised!Next
<1>8. ASSUME Tick PROVE Promised!Next
  BY <1>2, <1>8, TickRefines DEF Promised!Next
<1>p. ASSUME NEW k \in Key, NEW n \in Gift, PayIn(B, k, n) PROVE Promised!Next
  BY <1>2, <1>p, PayInRefines, EscrowConstants DEF Promised!Next
<1>9. ASSUME NEW o \in Offer, NEW deadline \in 0 .. MaxTime,
             Initialize(B, Funder, [amount |-> o.amount, bps |-> 0, minimum |-> 0], Attestor, Attestor, o.mode, deadline)
      PROVE  Promised!Next
  <2> DEFINE t == [amount |-> o.amount, bps |-> 0, minimum |-> 0]
  <2>1. t \in [amount : Nat, bps : Nat, minimum : Nat] /\ o.mode \in {"Draw", "SelfAssign"} /\ deadline \in 0 .. MaxTime
    BY FundedConstants, EscrowConstants
  <2>2. Initialize(B, Funder, t, Attestor, Attestor, o.mode, deadline)
    BY <1>9
  <2> HIDE DEF t
  <2>3. Promised!Fund(B)
    BY <1>2, <2>1, <2>2, InitializeRefines
  <2> QED BY <1>2, <2>3 DEF Promised!Next
<1> QED BY <1>1, <1>3, <1>4, <1>5, <1>6, <1>7, <1>8, <1>p, <1>9 DEF OnChain

\* With the agent, its mirror, its crashes and its late transactions beside it, the
\* escrow still pays only somebody it named, or gives back what nobody was promised
\* or nobody claimed in time.
THEOREM AgentKeepsThePromise == FundedSpec => KeepsPromise
<1>1. FundedInit => Promised!Init
  BY InitRefines DEF FundedInit
<1>2. FundedInductive /\ FundedInductive' /\ [FundedNext]_fvars => [Promised!Next]_(Promised!vars)
  BY FundedRefines
<1> QED BY <1>1, <1>2, MirrorAndChain, PTL DEF FundedSpec, KeepsPromise, Promised!Spec
===============================================================================
