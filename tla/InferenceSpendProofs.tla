------------------------- MODULE InferenceSpendProofs -------------------------
(***************************************************************************)
(* Of InferenceSpend, for any calls, quotes, amounts, fees and ceilings:   *)
(* no quote is paid twice, no payment of the agent's is uncounted by its   *)
(* ledger, the signer's ceiling holds and the agent's up to the overruns   *)
(* that BudgetHolds explains, and both books are purses of SpendLimit.     *)
(***************************************************************************)
EXTENDS InferenceSpend, FiniteSetTheorems, FunctionTheorems, TLAPS

USE SpendConstants, NoQuoteAssumption

\* What the place of the signer's handler implies of its row and answer.
SignerPlace(c) ==
  /\ place[c] = "idle"         => row[c] = "none" /\ answer[c] = "none"
  /\ place[c] = "preparing"    => row[c] = "reserved" /\ answer[c] = "none"
  /\ place[c] = "broadcasting" => row[c] = "sent" /\ net[c] = "none" /\ answer[c] = "none"
  /\ place[c] = "confirming"   => row[c] = "sent" /\ answer[c] = "none"
  /\ place[c] = "done"         => answer[c] # "none"

\* What a row implies of the transaction.
RowOfNet(c) ==
  /\ row[c] # "none"           => quote[c] \in Quote
  /\ row[c] # "none" /\ c \in Agent => asked[c] = Amount[quote[c]]
  /\ net[c] # "none"           => row[c] \in {"sent", "confirmed"}
  /\ net[c] \in {"none", "pending"} => charged[c] = 0
  /\ row[c] = "confirmed"      => net[c] = "landed" /\ charged[c] <= rowFee[c]

\* What an answer implies of the row.
Answered(c) ==
  /\ answer[c] = "refused" => row[c] \in {"none", "failed_unsent"}
  /\ answer[c] = "paid"    => row[c] \in {"none", "confirmed"}

\* What the place of a call implies of its entry and of the signer's answer.
ClientPlace(c) ==
  /\ step[c] \in {"idle", "quoting", "quoted", "crediting", "reserving"} => entry[c] = "none"
  /\ step[c] \in {"quoted", "crediting", "reserving"} => quote[c] \in Quote
  /\ step[c] = "calling"   => entry[c] = "reserved" /\ place[c] = "idle"
  /\ step[c] = "waiting"   => entry[c] = "reserved"
  /\ step[c] = "releasing" => entry[c] = "reserved" /\ answer[c] = "refused"
  /\ step[c] = "settling"  => entry[c] = "reserved" /\ answer[c] = "paid"
  /\ step[c] \in {"paid", "serving"} => answer[c] = "paid"
  /\ step[c] = "noting" /\ note[c] = "paid_not_served" => answer[c] = "paid"

\* What an entry and a receipt imply.
Books(c) ==
  /\ entry[c] # "none"     => c \in Agent /\ quote[c] \in Quote
  /\ entry[c] = "released" => answer[c] = "refused"
  /\ entry[c] = "settled"  => answer[c] = "paid"
  /\ receipt[c] \in {"paid", "paid_not_served"} => answer[c] = "paid"
  /\ c \in Agent /\ entry[c] = "none" => place[c] = "idle"
  /\ c \in Stray => step[c] = "idle"

Local(c) == SignerPlace(c) /\ RowOfNet(c) /\ Answered(c) /\ ClientPlace(c) /\ Books(c)

RowsDiffer ==
  \A c, d \in Call : c # d /\ row[c] # "none" /\ row[d] # "none" => quote[c] # quote[d]

\* The answer of c is the confirmed payment of d, with its amount and its fee.
Replays(c, d) ==
  /\ row[d] = "confirmed" /\ quote[d] = quote[c]
  /\ paid[c] = asked[d] /\ fee[c] = rowFee[d]

\* A paid answer has a confirmed payment of the quote behind it.
PaidHasRow ==
  \A c \in Call : answer[c] = "paid" => quote[c] \in Quote /\ \E d \in Call : Replays(c, d)

\* The variables of one call.
CallVars(c) ==
  <<step[c], quote[c], receipt[c], note[c], entry[c], paid[c], fee[c], place[c], answer[c], asked[c],
    row[c], rowFee[c], net[c], charged[c]>>

\* The step changes what belongs to one call at most.
Only(c) == \A d \in Call \ {c} : UNCHANGED CallVars(d)

-----------------------------------------------------------------------------
LEMMA TypeStep ==
  ASSUME TypeOK, \A c \in Call : Local(c), [Next]_vars
  PROVE  TypeOK'
<1> USE DEF TypeOK, Working, Go, End, Throw, Reply, signerVars, chainVars, agentVars
<1>1. ASSUME NEW c \in Call, Start(c) PROVE TypeOK'
  BY <1>1 DEF Start
<1>2. ASSUME NEW c \in Call, ClientStep(c) PROVE TypeOK'
  <2>1. CASE QuoteFails(c)
    BY <2>1 DEF QuoteFails
  <2>2. ASSUME NEW q \in Quote, RecordQuote(c, q) PROVE TypeOK'
    BY <2>2 DEF RecordQuote
  <2>3. CASE QuoteExpired(c) \/ AskBalanceProof(c)
    BY <2>3 DEF QuoteExpired, AskBalanceProof
  <2>4. CASE SpendCredit(c)
    BY <2>4 DEF SpendCredit
  <2>5. CASE PayOnchain(c)
    BY <2>5 DEF PayOnchain
  <2>6. CASE ReserveBudget(c)
    BY <2>6 DEF ReserveBudget
  <2>7. ASSUME NEW wellFormed \in BOOLEAN, RequestPay(c, wellFormed) PROVE TypeOK'
    <3>1. quote[c] \in Quote
      BY <2>7 DEF RequestPay, Local, ClientPlace, Books
    <3>2. Amount[quote[c]] \in Nat
      BY <3>1, SpendConstants
    <3>3. /\ place' \in [Call -> {"idle", "preparing", "broadcasting", "confirming", "done"}]
          /\ answer' \in [Call -> {"none", "paid", "refused", "unknown", "lost"}]
      BY <2>7 DEF RequestPay, Decide
    <3>4. /\ row' \in [Call -> {"none", "reserved", "sent", "confirmed", "failed_unsent"}]
          /\ asked' \in [Call -> 0 .. MaxPerCall]
      BY <2>7, <3>2 DEF RequestPay, Decide
    <3>5. paid' \in [Call -> 0 .. MaxPerCall] /\ fee' \in [Call -> 0 .. SignerFee]
      BY <2>7 DEF RequestPay, Decide, Existing
    <3> QED BY <2>7, <3>3, <3>4, <3>5 DEF RequestPay
  <2>8. CASE Unreachable(c) \/ ReadAnswer(c) \/ ReadUnreadable(c)
    BY <2>8 DEF Unreachable, ReadAnswer, ReadUnreadable
  <2>9. CASE Release(c)
    BY <2>9 DEF Release
  <2>12. CASE Settle(c)
    BY <2>12 DEF Settle
  <2>10. CASE RecordPaid(c) \/ Note(c)
    BY <2>10 DEF RecordPaid, Note
  <2>11. CASE Serve(c)
    BY <2>11 DEF Serve
  <2> QED
    BY <1>2, <2>1, <2>2, <2>3, <2>4, <2>5, <2>6, <2>7, <2>8, <2>9, <2>10, <2>11, <2>12
       DEF ClientStep, Quoting, Quoted, Paying, Ending
<1>3. ASSUME NEW c \in Call, SignerStep(c) PROVE TypeOK'
  <2>1. CASE PrepareFails(c)
    BY <2>1 DEF PrepareFails
  <2>2. CASE Prepare(c)
    BY <2>2 DEF Prepare
  <2>3. CASE Broadcast(c) \/ OutcomeUnknown(c)
    BY <2>3 DEF Broadcast, OutcomeUnknown
  <2>4. CASE Confirm(c)
    BY <2>4 DEF Confirm
  <2> QED BY <1>3, <2>1, <2>2, <2>3, <2>4 DEF SignerStep
<1>4. ASSUME NEW c \in Call, Land(c) \/ Die(c) PROVE TypeOK'
  BY <1>4 DEF Land, Die
<1>5. ASSUME NEW c \in Call, NEW q \in Quote, NEW amount \in 1 .. MaxPerCall, RequestStray(c, q, amount)
      PROVE  TypeOK'
  <2>1. /\ answer' \in [Call -> {"none", "paid", "refused", "unknown", "lost"}]
        /\ place' \in [Call -> {"idle", "preparing", "broadcasting", "confirming", "done"}]
    BY <1>5 DEF RequestStray, Decide
  <2>2. /\ row' \in [Call -> {"none", "reserved", "sent", "confirmed", "failed_unsent"}]
        /\ asked' \in [Call -> 0 .. MaxPerCall]
    BY <1>5 DEF RequestStray, Decide
  <2>3. paid' \in [Call -> 0 .. MaxPerCall] /\ fee' \in [Call -> 0 .. SignerFee]
    BY <1>5 DEF RequestStray, Decide, Existing
  <2> QED BY <1>5, <2>1, <2>2, <2>3 DEF RequestStray
<1>6. CASE AgentCrash \/ SignerCrash
  BY <1>6 DEF AgentCrash, SignerCrash
<1>7. CASE UNCHANGED vars
  BY <1>7 DEF vars
<1> QED BY <1>1, <1>2, <1>3, <1>4, <1>5, <1>6, <1>7 DEF Next
-----------------------------------------------------------------------------
(* The local invariants.                                                   *)

\* A step that changes one call only keeps the others' local invariants.
LEMMA OthersKeep ==
  ASSUME NEW c \in Call, NEW d \in Call \ {c}, Only(c), Local(d)
  PROVE  Local(d)'
BY DEF Only, CallVars, Local, SignerPlace, RowOfNet, Answered, ClientPlace, Books, Agent

LEMMA LocalStep ==
  ASSUME TypeOK, \A c \in Call : Local(c), [Next]_vars
  PROVE  \A c \in Call : Local(c)'
<1> USE DEF TypeOK, Go, End, Throw, Reply, signerVars, chainVars, agentVars
<1> DEFINE Kept == \A d \in Call : Local(d)'
<1>o. ASSUME NEW c \in Call, Only(c), Local(c)' PROVE Kept
  BY <1>o, OthersKeep
<1>l. ASSUME NEW c \in Call PROVE Local(c)
  OBVIOUS
<1> HIDE DEF Kept
<1> USE DEF Only, CallVars, Local, SignerPlace, RowOfNet, Answered, ClientPlace, Books, Agent
<1>1. ASSUME NEW c \in Call, Start(c) PROVE Kept
  <2>1. Only(c) /\ Local(c)'
    BY <1>1, <1>l DEF Start
  <2> QED BY <2>1, <1>o
<1>2. ASSUME NEW c \in Call, ClientStep(c) PROVE Kept
  <2>1. CASE QuoteFails(c)
    <3>1. Only(c) /\ Local(c)'
      BY <2>1, <1>l DEF QuoteFails
    <3> QED BY <3>1, <1>o
  <2>2. ASSUME NEW q \in Quote, RecordQuote(c, q) PROVE Kept
    <3>1. Only(c) /\ Local(c)'
      BY <2>2, <1>l DEF RecordQuote
    <3> QED BY <3>1, <1>o
  <2>3. CASE QuoteExpired(c) \/ AskBalanceProof(c)
    <3>1. Only(c) /\ Local(c)'
      BY <2>3, <1>l DEF QuoteExpired, AskBalanceProof
    <3> QED BY <3>1, <1>o
  <2>4. CASE SpendCredit(c)
    <3>1. Only(c) /\ Local(c)'
      BY <2>4, <1>l DEF SpendCredit
    <3> QED BY <3>1, <1>o
  <2>5. CASE PayOnchain(c)
    <3>1. Only(c) /\ Local(c)'
      BY <2>5, <1>l DEF PayOnchain
    <3> QED BY <3>1, <1>o
  <2>6. CASE ReserveBudget(c)
    <3>1. Only(c) /\ Local(c)'
      BY <2>6, <1>l DEF ReserveBudget
    <3> QED BY <3>1, <1>o
  <2>7. ASSUME NEW wellFormed \in BOOLEAN, RequestPay(c, wellFormed) PROVE Kept
    <3>1. Only(c) /\ Local(c)'
      BY <2>7, <1>l DEF RequestPay, Decide, Existing
    <3> QED BY <3>1, <1>o
  <2>8. CASE Unreachable(c) \/ ReadAnswer(c) \/ ReadUnreadable(c)
    <3>1. Only(c) /\ Local(c)'
      BY <2>8, <1>l DEF Unreachable, ReadAnswer, ReadUnreadable
    <3> QED BY <3>1, <1>o
  <2>9. CASE Release(c) \/ Settle(c)
    <3>1. Only(c) /\ Local(c)'
      BY <2>9, <1>l DEF Release, Settle
    <3> QED BY <3>1, <1>o
  <2>10. CASE RecordPaid(c) \/ Note(c)
    <3>1. Only(c) /\ Local(c)'
      BY <2>10, <1>l DEF RecordPaid, Note
    <3> QED BY <3>1, <1>o
  <2>11. CASE Serve(c)
    <3>1. Only(c) /\ Local(c)'
      BY <2>11, <1>l DEF Serve
    <3> QED BY <3>1, <1>o
  <2> QED
    BY <1>2, <2>1, <2>2, <2>3, <2>4, <2>5, <2>6, <2>7, <2>8, <2>9, <2>10, <2>11
       DEF ClientStep, Quoting, Quoted, Paying, Ending
<1>3. ASSUME NEW c \in Call, SignerStep(c) PROVE Kept
  <2>1. CASE PrepareFails(c) \/ Prepare(c) \/ Broadcast(c)
    <3>1. Only(c) /\ Local(c)'
      BY <2>1, <1>l DEF PrepareFails, Prepare, Broadcast
    <3> QED BY <3>1, <1>o
  <2>2. CASE OutcomeUnknown(c) \/ Confirm(c)
    <3>1. Only(c) /\ Local(c)'
      BY <2>2, <1>l DEF OutcomeUnknown, Confirm
    <3> QED BY <3>1, <1>o
  <2> QED BY <1>3, <2>1, <2>2 DEF SignerStep
<1>4. ASSUME NEW c \in Call, Land(c) \/ Die(c) PROVE Kept
  <2>1. Only(c) /\ Local(c)'
    BY <1>4, <1>l DEF Land, Die
  <2> QED BY <2>1, <1>o
<1>5. ASSUME NEW c \in Call, NEW q \in Quote, NEW amount \in 1 .. MaxPerCall, RequestStray(c, q, amount)
      PROVE  Kept
  <2>1. Only(c) /\ Local(c)'
    BY <1>5, <1>l DEF RequestStray, Decide, Existing
  <2> QED BY <2>1, <1>o
<1>6. CASE AgentCrash
  BY <1>6, <1>l DEF AgentCrash, Working, Kept
<1>7. CASE SignerCrash
  BY <1>7, <1>l DEF SignerCrash, Kept
<1>8. CASE UNCHANGED vars
  BY <1>8, <1>l DEF vars, Kept
<1> QED BY <1>1, <1>2, <1>3, <1>4, <1>5, <1>6, <1>7, <1>8 DEF Next, Kept
-----------------------------------------------------------------------------
(* Sums of money.                                                          *)

\* One unit of money of each claim in S for every number up to what w gives it.
Units(S, w) == UNION {{c} \X (1 .. w[c]) : c \in S}

\* As many units as the amount says.
LEMMA ColumnSize ==
  ASSUME NEW c, NEW n \in Nat
  PROVE  IsFiniteSet({c} \X (1 .. n)) /\ Cardinality({c} \X (1 .. n)) = n
<1>1. IsFiniteSet({c}) /\ Cardinality({c}) = 1
  BY FS_Singleton
<1>2. IsFiniteSet(1 .. n) /\ Cardinality(1 .. n) = IF 1 > n THEN 0 ELSE n - 1 + 1
  BY FS_Interval
<1>3. IsFiniteSet({c} \X (1 .. n))
      /\ Cardinality({c} \X (1 .. n)) = Cardinality({c}) * Cardinality(1 .. n)
  BY <1>1, <1>2, FS_Product
<1> QED BY <1>1, <1>2, <1>3

\* Finitely many claims have finitely many units.
LEMMA UnitsFinite ==
  ASSUME NEW S, IsFiniteSet(S), NEW w \in [S -> Nat]
  PROVE  IsFiniteSet(Units(S, w)) /\ Cardinality(Units(S, w)) \in Nat
<1> DEFINE columns == {{c} \X (1 .. w[c]) : c \in S}
           f       == [c \in S |-> {c} \X (1 .. w[c])]
<1>1. f \in Surjection(S, columns)
  <2>1. f \in [S -> columns] /\ \A t \in columns : \E s \in S : f[s] = t
    OBVIOUS
  <2> HIDE DEF f, columns
  <2> QED BY <2>1, Fun_IsSurj
<1>2. IsFiniteSet(columns)
  <2> HIDE DEF f, columns
  <2> QED BY <1>1, FS_Surjection
<1>3. \A t \in columns : IsFiniteSet(t)
  <2> SUFFICES ASSUME NEW c \in S PROVE IsFiniteSet({c} \X (1 .. w[c]))
    OBVIOUS
  <2> QED BY w[c] \in Nat, ColumnSize
<1>4. IsFiniteSet(UNION columns)
  <2> HIDE DEF columns
  <2> QED BY <1>2, <1>3, FS_UNION
<1> QED BY <1>4, FS_CardinalityType DEF Units

\* Where no claim has more, there is no more in all.
LEMMA UnitsMonotone ==
  ASSUME NEW S, IsFiniteSet(S), NEW w \in [S -> Nat], NEW v \in [S -> Nat],
         \A c \in S : v[c] <= w[c]
  PROVE  Cardinality(Units(S, v)) <= Cardinality(Units(S, w))
<1>1. Units(S, v) \subseteq Units(S, w)
  <2> SUFFICES ASSUME NEW c \in S PROVE {c} \X (1 .. v[c]) \subseteq Units(S, w)
    BY DEF Units
  <2>1. 1 .. v[c] \subseteq 1 .. w[c]
    BY v[c] \in Nat, w[c] \in Nat, v[c] <= w[c]
  <2>2. {c} \X (1 .. w[c]) \subseteq Units(S, w)
    BY DEF Units
  <2> QED BY <2>1, <2>2
<1> QED BY <1>1, UnitsFinite, FS_Subset

\* Where one claim alone may have more, at most n, there are at most n more in all.
LEMMA UnitsGrow ==
  ASSUME NEW S, IsFiniteSet(S), NEW w \in [S -> Nat], NEW v \in [S -> Nat],
         NEW c \in S, NEW n \in Nat, v[c] <= n, \A d \in S \ {c} : v[d] <= w[d]
  PROVE  Cardinality(Units(S, v)) <= Cardinality(Units(S, w)) + n
<1> DEFINE old == Units(S, w)  new == Units(S, v)  own == {c} \X (1 .. n)
<1>1. new \subseteq old \cup own
  <2> SUFFICES ASSUME NEW d \in S PROVE {d} \X (1 .. v[d]) \subseteq old \cup own
    BY DEF Units
  <2>1. CASE d = c
    <3>1. 1 .. v[d] \subseteq 1 .. n
      BY <2>1, v[c] \in Nat
    <3> QED BY <2>1, <3>1
  <2>2. CASE d # c
    <3>1. 1 .. v[d] \subseteq 1 .. w[d]
      BY <2>2, v[d] \in Nat, w[d] \in Nat, v[d] <= w[d]
    <3>2. {d} \X (1 .. w[d]) \subseteq old
      BY DEF Units
    <3> QED BY <3>1, <3>2
  <2> QED BY <2>1, <2>2
<1>2. IsFiniteSet(old) /\ Cardinality(old) \in Nat /\ IsFiniteSet(new) /\ Cardinality(new) \in Nat
  BY UnitsFinite
<1>3. IsFiniteSet(own) /\ Cardinality(own) = n
  BY ColumnSize
<1> HIDE DEF old, new, own
<1>4. IsFiniteSet(old \cap own) /\ Cardinality(old \cap own) \in Nat
  BY <1>2, FS_Intersection, FS_CardinalityType
<1>5. /\ IsFiniteSet(old \cup own)
      /\ Cardinality(old \cup own) = Cardinality(old) + Cardinality(own) - Cardinality(old \cap own)
  BY <1>2, <1>3, FS_Union
<1>6. Cardinality(new) <= Cardinality(old \cup own)
  BY <1>1, <1>5, FS_Subset
<1>7. Cardinality(new) <= Cardinality(old) + n
  BY <1>2, <1>3, <1>4, <1>5, <1>6
<1> QED BY <1>7 DEF old, new

\* What a step at most left of what moved for a call, within what it reserved.
Spent(c) == IF net[c] = "none" THEN 0 ELSE Lesser(MovedCost(c), Reserved(c))

\* What a row and an entry count, and what has moved.
Amounts ==
  \A c \in Call :
    /\ JournalCost(c) \in Nat /\ MovedCost(c) \in Nat
    /\ LedgerCost(c) \in Nat /\ Budgeted(c) \in Nat /\ Budgeted(c) <= LedgerCost(c)
    /\ Spent(c) \in Nat

LEMMA Costs == TypeOK /\ (\A c \in Call : Local(c)) => Amounts
<1> SUFFICES ASSUME TypeOK, NEW c \in Call, Local(c)
             PROVE  /\ JournalCost(c) \in Nat /\ MovedCost(c) \in Nat
                    /\ LedgerCost(c) \in Nat /\ Budgeted(c) \in Nat /\ Budgeted(c) <= LedgerCost(c)
                    /\ Spent(c) \in Nat
  BY DEF Amounts
<1>1. RowOfNet(c) /\ Books(c)
  BY DEF Local
<1>2. /\ SignerFee \in Nat /\ AgentFee \in Nat /\ fee[c] \in Nat /\ rowFee[c] \in Nat /\ charged[c] \in Nat
      /\ asked[c] \in Nat /\ paid[c] \in Nat
  BY DEF TypeOK
<1>3. quote[c] \in Quote => Reserved(c) \in Nat
  BY <1>2, SpendConstants DEF Reserved
<1>4. JournalCost(c) \in Nat /\ MovedCost(c) \in Nat /\ LedgerCost(c) \in Nat
  BY <1>1, <1>2, <1>3 DEF JournalCost, LedgerCost, MovedCost, Books
<1>5. Budgeted(c) \in Nat /\ Budgeted(c) <= LedgerCost(c) /\ Spent(c) \in Nat
  BY <1>1, <1>3, <1>4 DEF Budgeted, Spent, Lesser, RowOfNet, Books
<1> QED BY <1>4, <1>5

\* So do those of the state after.
LEMMA CostsAfter ==
  ASSUME TypeOK, \A c \in Call : Local(c), [Next]_vars
  PROVE  Amounts'
<1>1. TypeOK' /\ \A c \in Call : Local(c)'
  BY TypeStep, LocalStep
<1>2. (TypeOK /\ \A c \in Call : Local(c))'
  BY <1>1
<1> QED BY <1>2, Costs, PTL

\* The units of the model are those of a function.
LEMMA JournalSum ==
  ASSUME Amounts
  PROVE  /\ JournalUnits = Units(Call, [c \in Call |-> JournalCost(c)])
         /\ Cardinality(JournalUnits) \in Nat
<1>1. JournalUnits = Units(Call, [c \in Call |-> JournalCost(c)])
  BY DEF JournalUnits, Units
<1>2. [c \in Call |-> JournalCost(c)] \in [Call -> Nat]
  BY DEF Amounts
<1> QED BY <1>1, <1>2, UnitsFinite

LEMMA LedgerSum ==
  ASSUME Amounts, NEW S \in SUBSET Call
  PROVE  /\ IsFiniteSet(S)
         /\ BudgetUnits(S) = Units(S, [c \in S |-> Budgeted(c)])
         /\ Cardinality(LedgerUnits(S)) \in Nat /\ Cardinality(BudgetUnits(S)) \in Nat
         /\ Cardinality(BudgetUnits(S)) <= Cardinality(LedgerUnits(S))
<1> DEFINE w == [c \in S |-> LedgerCost(c)]  v == [c \in S |-> Budgeted(c)]
<1>1. LedgerUnits(S) = Units(S, w) /\ BudgetUnits(S) = Units(S, v)
  BY DEF LedgerUnits, BudgetUnits, Units
<1>2. w \in [S -> Nat] /\ v \in [S -> Nat] /\ \A c \in S : v[c] <= w[c]
  BY DEF Amounts
<1>3. IsFiniteSet(S)
  BY SpendConstants, FS_Subset
<1>4. BudgetUnits(S) = Units(S, [c \in S |-> Budgeted(c)])
  BY <1>1
<1> HIDE DEF w, v
<1> QED BY <1>1, <1>2, <1>3, <1>4, UnitsFinite, UnitsMonotone

-----------------------------------------------------------------------------
(* What a step does to the signer's journal, whichever action it is.       *)

\* The row of c is inserted for n of quote q: the quote has none, and it fits.
Inserts(c, q, n) ==
  /\ row[c] = "none" /\ row' = [row EXCEPT ![c] = "reserved"]
  /\ Existing(q) = {}
  /\ Cardinality(JournalUnits) + n + SignerFee <= SignerCeiling
  /\ quote'[c] = q /\ asked'[c] = n
  /\ \A d \in Call \ {c} : quote'[d] = quote[d] /\ asked'[d] = asked[d]
  /\ rowFee' = rowFee

\* No row is inserted; those there are stay, of the same quote and amount, and count
\* no more.
KeepsRows ==
  \A c \in Call :
    /\ row[c] = "none" <=> row'[c] = "none"
    /\ row[c] # "none" => quote'[c] = quote[c] /\ asked'[c] = asked[c]
    /\ row[c] = "confirmed" => row'[c] = "confirmed" /\ rowFee'[c] = rowFee[c]
    /\ JournalCost(c)' <= JournalCost(c)

\* The only step that inserts a row is the end of Decide.
LEMMA JournalStep ==
  ASSUME TypeOK, \A c \in Call : Local(c), [Next]_vars
  PROVE  KeepsRows \/ \E c \in Call, q \in Quote, n \in Nat : Inserts(c, q, n)
<1> DEFINE Goal == KeepsRows \/ \E c \in Call, q \in Quote, n \in Nat : Inserts(c, q, n)
<1> USE DEF TypeOK, Go, End, Throw, Reply, signerVars, chainVars, agentVars
<1>l. ASSUME NEW c \in Call PROVE SignerPlace(c) /\ ClientPlace(c) /\ Books(c) /\ RowOfNet(c)
  BY DEF Local
<1>1. ASSUME UNCHANGED <<row, rowFee, quote, asked>> PROVE KeepsRows
  BY <1>1, <1>l DEF KeepsRows, JournalCost, RowOfNet
<1>2. ASSUME NEW c \in Call, NEW q \in Quote, RecordQuote(c, q) PROVE KeepsRows
  <2>1. row[c] = "none"
    <3>1. step[c] = "quoting" /\ c \in Agent
      BY <1>2, <1>l DEF RecordQuote, Books, Agent
    <3> QED BY <3>1, <1>l DEF ClientPlace, Books, SignerPlace
  <2> QED BY <1>2, <2>1, <1>l DEF RecordQuote, KeepsRows, JournalCost, RowOfNet
<1>3. ASSUME NEW c \in Call, NEW q \in Quote, NEW n \in Nat,
             Decide(c, q, n, TRUE) \/ Decide(c, q, n, FALSE), rowFee' = rowFee,
             place[c] = "idle", quote' = [quote EXCEPT ![c] = q]
      PROVE  Goal
  <2>1. row[c] = "none"
    BY <1>3, <1>l DEF SignerPlace
  <2>2. CASE UNCHANGED row
    <3>1. asked' = asked
      BY <1>3, <2>1, <2>2 DEF Decide
    <3> QED BY <1>3, <2>1, <2>2, <3>1, <1>l DEF KeepsRows, JournalCost, RowOfNet
  <2>3. CASE ~UNCHANGED row
    <3>1. /\ Existing(q) = {} /\ row' = [row EXCEPT ![c] = "reserved"]
          /\ asked' = [asked EXCEPT ![c] = n]
          /\ ~(Cardinality(JournalUnits) + n + SignerFee > SignerCeiling)
      BY <1>3, <2>3 DEF Decide
    <3>2. Cardinality(JournalUnits) \in Nat
      BY JournalSum, Costs
    <3>3. Cardinality(JournalUnits) + n + SignerFee <= SignerCeiling
      BY <3>1, <3>2
    <3> QED BY <1>3, <2>1, <3>1, <3>3 DEF Inserts
  <2> QED BY <2>2, <2>3
<1>4. ASSUME NEW c \in Call, PrepareFails(c) \/ Prepare(c) PROVE KeepsRows
  BY <1>4, <1>l DEF PrepareFails, Prepare, KeepsRows, JournalCost, RowOfNet, SignerPlace
<1>5. ASSUME NEW c \in Call, Confirm(c) PROVE KeepsRows
  BY <1>5, <1>l DEF Confirm, KeepsRows, JournalCost, RowOfNet, SignerPlace
<1>6. ASSUME NEW c \in Call, NEW wellFormed \in BOOLEAN, RequestPay(c, wellFormed) PROVE Goal
  <2>1. quote[c] \in Quote
    BY <1>6, <1>l DEF RequestPay, ClientPlace, Books
  <2>2. quote' = [quote EXCEPT ![c] = quote[c]] /\ Amount[quote[c]] \in Nat
    BY <1>6, <2>1, SpendConstants DEF RequestPay
  <2>3. rowFee' = rowFee /\ place[c] = "idle"
    BY <1>6, <1>l DEF RequestPay, ClientPlace, SignerPlace
  <2>4. Decide(c, quote[c], Amount[quote[c]], TRUE) \/ Decide(c, quote[c], Amount[quote[c]], FALSE)
    BY <1>6 DEF RequestPay
  <2> HIDE DEF TypeOK, Goal
  <2> QED BY <2>1, <2>2, <2>3, <2>4, <1>3
<1>7. ASSUME NEW c \in Call, NEW q \in Quote, NEW n \in 1 .. MaxPerCall, RequestStray(c, q, n) PROVE Goal
  <2>1. n \in Nat
    BY SpendConstants
  <2> QED BY <1>7, <1>3, <2>1 DEF RequestStray
<1>8. \/ UNCHANGED <<row, rowFee, quote, asked>>
      \/ \E c \in Call : PrepareFails(c) \/ Prepare(c) \/ Confirm(c)
      \/ \E c \in Call, q \in Quote : RecordQuote(c, q) \/ \E n \in 1 .. MaxPerCall : RequestStray(c, q, n)
      \/ \E c \in Call, wellFormed \in BOOLEAN : RequestPay(c, wellFormed)
  BY DEF Next, Start, ClientStep, Quoting, Quoted, Paying, Ending, QuoteFails, QuoteExpired, AskBalanceProof,
         SpendCredit, PayOnchain, ReserveBudget, Unreachable, ReadAnswer, ReadUnreadable, Release, Settle,
         RecordPaid, Serve, Note, SignerStep, Broadcast, OutcomeUnknown, Land, Die, AgentCrash, SignerCrash, vars
<1> QED BY <1>1, <1>2, <1>4, <1>5, <1>6, <1>7, <1>8

\* No two rows are of one quote.
LEMMA DifferStep ==
  ASSUME TypeOK, \A c \in Call : Local(c), RowsDiffer, [Next]_vars
  PROVE  RowsDiffer'
<1>1. CASE KeepsRows
  BY <1>1 DEF KeepsRows, RowsDiffer
<1>2. ASSUME NEW c \in Call, NEW q \in Quote, NEW n \in Nat, Inserts(c, q, n) PROVE RowsDiffer'
  BY <1>2 DEF Inserts, Existing, RowsDiffer, TypeOK
<1> QED BY <1>1, <1>2, JournalStep

\* What makes an answer "paid", and what becomes of the quotes and amounts of those
\* that are.
LEMMA PaidStep ==
  ASSUME TypeOK, \A c \in Call : Local(c), PaidHasRow, [Next]_vars
  PROVE  PaidHasRow'
<1> USE DEF TypeOK, Go, End, Throw, Reply, signerVars, chainVars, agentVars
<1>l. ASSUME NEW c \in Call PROVE SignerPlace(c) /\ ClientPlace(c) /\ Books(c) /\ RowOfNet(c)
  BY DEF Local
<1>1. ASSUME NEW d \in Call, row[d] = "confirmed"
      PROVE  row'[d] = "confirmed" /\ UNCHANGED <<quote[d], asked[d], rowFee[d]>>
  BY <1>1, JournalStep DEF KeepsRows, Inserts
<1>2. ASSUME NEW c \in Call, answer[c] = "paid" PROVE UNCHANGED <<quote[c], paid[c], fee[c]>>
  <2>1. place[c] = "done"
    BY <1>2, <1>l DEF SignerPlace
  <2>2. ~(step[c] = "quoting" /\ c \in Agent)
    BY <2>1, <1>l DEF ClientPlace, Books
  <2>3. ASSUME NEW d \in Call, NEW q \in Quote, RecordQuote(d, q) PROVE UNCHANGED <<quote[c], paid[c], fee[c]>>
    BY <2>2, <2>3, <1>l DEF RecordQuote, Books, Agent
  <2>4. ASSUME NEW d \in Call, NEW q \in Quote, NEW n \in 1 .. MaxPerCall, RequestStray(d, q, n)
        PROVE  UNCHANGED <<quote[c], paid[c], fee[c]>>
    BY <2>1, <2>4 DEF RequestStray, Decide
  <2>5. ASSUME NEW d \in Call, NEW wellFormed \in BOOLEAN, RequestPay(d, wellFormed)
        PROVE  UNCHANGED <<quote[c], paid[c], fee[c]>>
    BY <2>1, <2>5 DEF RequestPay, Decide
  <2>6. ASSUME NEW d \in Call, Confirm(d) PROVE UNCHANGED <<quote[c], paid[c], fee[c]>>
    BY <2>1, <2>6 DEF Confirm
  <2>7. \/ UNCHANGED <<quote, paid, fee>>
        \/ \E d \in Call, q \in Quote : RecordQuote(d, q) \/ \E n \in 1 .. MaxPerCall : RequestStray(d, q, n)
        \/ \E d \in Call, wellFormed \in BOOLEAN : RequestPay(d, wellFormed)
        \/ \E d \in Call : Confirm(d)
    BY DEF Next, Start, ClientStep, Quoting, Quoted, Paying, Ending, QuoteFails, QuoteExpired, AskBalanceProof,
         SpendCredit, PayOnchain, ReserveBudget, Unreachable, ReadAnswer, ReadUnreadable, Release, Settle,
         RecordPaid, Serve, Note, SignerStep, PrepareFails, Prepare, Broadcast, OutcomeUnknown, Land,
         Die, AgentCrash, SignerCrash, vars
  <2> QED BY <2>3, <2>4, <2>5, <2>6, <2>7
<1> SUFFICES ASSUME NEW c \in Call, answer'[c] = "paid"
             PROVE  quote'[c] \in Quote /\ \E d \in Call : Replays(c, d)'
  BY DEF PaidHasRow
<1>3. CASE answer[c] = "paid"
  <2>1. PICK d \in Call : Replays(c, d)
    BY <1>3 DEF PaidHasRow
  <2>2. Replays(c, d)'
    BY <2>1, <1>1, <1>2, <1>3 DEF Replays
  <2> QED BY <2>2, <1>2, <1>3 DEF PaidHasRow
<1>4. CASE answer[c] # "paid"
  <2>1. \/ Confirm(c)
        \/ \E wellFormed \in BOOLEAN : RequestPay(c, wellFormed)
        \/ \E q \in Quote, n \in 1 .. MaxPerCall : RequestStray(c, q, n)
    <3>1. ASSUME NEW d \in Call, ClientStep(d)
          PROVE  answer' = answer \/ \E wellFormed \in BOOLEAN : RequestPay(d, wellFormed)
      <4> HIDE DEF TypeOK
      <4>1. CASE Quoting(d) \/ Quoted(d)
        BY <4>1 DEF Quoting, Quoted, QuoteFails, RecordQuote, QuoteExpired, AskBalanceProof, SpendCredit, PayOnchain,
                    ReserveBudget
      <4>2. CASE Paying(d) \/ Ending(d)
        BY <4>2 DEF Paying, Ending, Unreachable, ReadAnswer, ReadUnreadable, Release, Settle, RecordPaid, Serve, Note
      <4> QED BY <3>1, <4>1, <4>2 DEF ClientStep
    <3>2. ASSUME NEW d \in Call, NEW wellFormed \in BOOLEAN, RequestPay(d, wellFormed), d # c PROVE FALSE
      BY <1>4, <3>2 DEF RequestPay, Decide
    <3>3. ASSUME NEW d \in Call, NEW q \in Quote, NEW n \in 1 .. MaxPerCall, RequestStray(d, q, n), d # c
          PROVE  FALSE
      BY <1>4, <3>3 DEF RequestStray, Decide
    <3>4. ASSUME NEW d \in Call, SignerStep(d) PROVE Confirm(c)
      <4>1. CASE PrepareFails(d) \/ Prepare(d) \/ Broadcast(d) \/ OutcomeUnknown(d)
        BY <1>4, <4>1 DEF PrepareFails, Prepare, Broadcast, OutcomeUnknown
      <4>2. CASE Confirm(d)
        BY <1>4, <4>2 DEF Confirm
      <4> QED BY <3>4, <4>1, <4>2 DEF SignerStep
    <3>5. ASSUME NEW d \in Call, Start(d) \/ Land(d) \/ Die(d) PROVE answer' = answer
      BY <3>5 DEF Start, Land, Die
    <3>6. CASE AgentCrash \/ SignerCrash \/ UNCHANGED vars
      BY <1>4, <3>6 DEF AgentCrash, SignerCrash, vars
    <3> HIDE DEF TypeOK, Go, End, Throw, Reply
    <3> QED BY <1>4, <3>1, <3>2, <3>3, <3>4, <3>5, <3>6 DEF Next
  <2>2. CASE Confirm(c)
    <3>1. Replays(c, c)' /\ quote'[c] \in Quote
      BY <2>2, <1>l DEF Confirm, Replays, RowOfNet, SignerPlace
    <3> QED BY <3>1
  <2>3. ASSUME NEW q \in Quote, NEW n \in Nat, NEW wellFormed \in BOOLEAN, Decide(c, q, n, wellFormed), quote'[c] = q
        PROVE  \E d \in Call : Replays(c, d)'
    <3>1. PICK d \in Existing(q) :
             row[d] = "confirmed" /\ paid' = [paid EXCEPT ![c] = asked[d]] /\ fee' = [fee EXCEPT ![c] = rowFee[d]]
      BY <2>3, <1>4 DEF Decide
    <3>2. d \in Call /\ row[d] = "confirmed" /\ quote[d] = q
      BY <3>1 DEF Existing
    <3>3. Replays(c, d)'
      BY <2>3, <3>1, <3>2, <1>1 DEF Replays
    <3> QED BY <3>2, <3>3
  <2>4. ASSUME NEW wellFormed \in BOOLEAN, RequestPay(c, wellFormed)
        PROVE  /\ quote'[c] \in Quote /\ Amount[quote[c]] \in Nat
               /\ Decide(c, quote[c], Amount[quote[c]], wellFormed) /\ quote'[c] = quote[c]
    BY <2>4, <1>l, SpendConstants DEF RequestPay, ClientPlace, Books
  <2>5. ASSUME NEW q \in Quote, NEW n \in 1 .. MaxPerCall, RequestStray(c, q, n)
        PROVE  Decide(c, q, n, TRUE) /\ quote'[c] = q /\ n \in Nat
    <3>1. n \in Nat
      BY SpendConstants
    <3>2. Decide(c, q, n, TRUE) /\ quote'[c] = q
      <4> HIDE DEF Reply
      <4> QED BY <2>5 DEF RequestStray
    <3> QED BY <3>1, <3>2
  <2>6. ASSUME NEW wellFormed \in BOOLEAN, RequestPay(c, wellFormed)
        PROVE  quote'[c] \in Quote /\ \E d \in Call : Replays(c, d)'
    <3>1. PICK q \in Quote, n \in Nat : q = quote'[c] /\ Decide(c, q, n, wellFormed)
      BY <2>4, <2>6
    <3> QED BY <3>1, <2>3
  <2>7. ASSUME NEW q \in Quote, NEW n \in 1 .. MaxPerCall, RequestStray(c, q, n)
        PROVE  quote'[c] \in Quote /\ \E d \in Call : Replays(c, d)'
    <3>1. Decide(c, q, n, TRUE) /\ quote'[c] = q /\ n \in Nat
      BY <2>5, <2>7
    <3> QED BY <3>1, <2>3
  <2> HIDE DEF TypeOK, Go, End, Throw, Reply
  <2> QED BY <2>1, <2>2, <2>6, <2>7
<1> QED BY <1>3, <1>4

-----------------------------------------------------------------------------
(* What a step does to the agent's ledger, and the two limits.             *)

\* The entry of c is inserted: under the lock, it fits.
Reserves(c) ==
  /\ entry[c] = "none" /\ entry' = [entry EXCEPT ![c] = "reserved"]
  /\ Fits(c)
  /\ c \in Agent /\ quote[c] \in Quote
  /\ UNCHANGED <<quote, paid, fee>>

\* Up to what it reserved, no entry counts more than it did.
KeepsEntries == \A c \in Call : Budgeted(c)' <= Budgeted(c)

\* The only step that inserts an entry is ReserveBudget; what a settlement adds to an
\* entry is above what was reserved.
LEMMA LedgerStep ==
  ASSUME TypeOK, \A c \in Call : Local(c), [Next]_vars
  PROVE  KeepsEntries \/ \E c \in Call : Reserves(c)
<1> USE DEF TypeOK, Go, End, Throw, Reply, signerVars, chainVars, agentVars
<1>l. ASSUME NEW c \in Call PROVE SignerPlace(c) /\ ClientPlace(c) /\ Books(c)
  BY DEF Local
<1>a. Amounts
  BY Costs
<1>r. ASSUME NEW c \in Call PROVE quote[c] \in Quote => Reserved(c) \in Nat
  BY SpendConstants DEF Reserved
<1>1. ASSUME UNCHANGED <<entry, quote>>,
             \A c \in Call : entry[c] = "settled" => paid'[c] = paid[c] /\ fee'[c] = fee[c]
      PROVE  KeepsEntries
  <2>1. ASSUME NEW c \in Call PROVE Budgeted(c)' = Budgeted(c)
    BY <1>1 DEF Budgeted, LedgerCost, Reserved
  <2> QED BY <2>1, <1>a DEF KeepsEntries, Amounts
<1>2. ASSUME NEW c \in Call, NEW q \in Quote, RecordQuote(c, q) \/ \E n \in 1 .. MaxPerCall : RequestStray(c, q, n)
      PROVE  KeepsEntries
  <2>1. /\ entry[c] = "none" /\ entry' = entry
        /\ \A d \in Call \ {c} : UNCHANGED <<quote[d], paid[d], fee[d]>>
    BY <1>2, <1>l DEF RecordQuote, RequestStray, Decide, ClientPlace, Books, Agent
  <2>2. ASSUME NEW d \in Call PROVE Budgeted(d)' = Budgeted(d)
    BY <2>1 DEF Budgeted, LedgerCost, Reserved
  <2> QED BY <2>2, <1>a DEF KeepsEntries, Amounts
<1>3. ASSUME NEW c \in Call, Release(c) \/ Settle(c) PROVE KeepsEntries
  <2>1. ASSUME NEW d \in Call \ {c} PROVE Budgeted(d)' = Budgeted(d)
    BY <1>3 DEF Release, Settle, Budgeted, LedgerCost, Reserved
  <2>2. entry[c] = "reserved" /\ Reserved(c) \in Nat /\ Reserved(c)' = Reserved(c)
    BY <1>3, <1>l, <1>r DEF Release, Settle, ClientPlace, Books, Reserved
  <2>3. Budgeted(c) = Reserved(c)
    BY <2>2 DEF Budgeted, LedgerCost, Lesser
  <2>4. entry'[c] = "released" \/ entry'[c] = "settled"
    BY <1>3 DEF Release, Settle
  <2>5. LedgerCost(c)' \in Nat
    BY <1>a, CostsAfter DEF Amounts
  <2>6. Budgeted(c)' <= Reserved(c)
    BY <2>2, <2>4, <2>5 DEF Budgeted, Lesser
  <2> QED BY <2>1, <2>3, <2>6, <1>a DEF KeepsEntries, Amounts
<1>4. ASSUME NEW c \in Call, ReserveBudget(c) PROVE KeepsEntries \/ Reserves(c)
  <2>1. CASE Fits(c)
    BY <1>4, <2>1, <1>l DEF ReserveBudget, Reserves, ClientPlace, Books, Agent
  <2>2. CASE ~Fits(c)
    BY <1>4, <2>2, <1>1 DEF ReserveBudget
  <2> QED BY <2>1, <2>2
<1>5. ASSUME NEW c \in Call, Confirm(c) PROVE KeepsEntries
  BY <1>5, <1>1, <1>l DEF Confirm, SignerPlace, Books
<1>6. ASSUME NEW c \in Call, NEW wellFormed \in BOOLEAN, RequestPay(c, wellFormed) PROVE KeepsEntries
  BY <1>6, <1>1, <1>l DEF RequestPay, Decide, ClientPlace
<1>7. \/ UNCHANGED <<entry, quote, paid, fee>>
      \/ \E c \in Call : Release(c) \/ Settle(c) \/ ReserveBudget(c) \/ Confirm(c)
      \/ \E c \in Call, q \in Quote : RecordQuote(c, q) \/ \E n \in 1 .. MaxPerCall : RequestStray(c, q, n)
      \/ \E c \in Call, wellFormed \in BOOLEAN : RequestPay(c, wellFormed)
  BY DEF Next, Start, ClientStep, Quoting, Quoted, Paying, Ending, QuoteFails, QuoteExpired, AskBalanceProof,
         SpendCredit, PayOnchain, Unreachable, ReadAnswer, ReadUnreadable, RecordPaid, Serve, Note, SignerStep,
         PrepareFails, Prepare, Broadcast, OutcomeUnknown, Land, Die, AgentCrash, SignerCrash, vars
<1> QED BY <1>1, <1>2, <1>3, <1>4, <1>5, <1>6, <1>7

\* The signer's journal stays within its ceiling.
JournalFits == Cardinality(JournalUnits) <= SignerCeiling

\* The agent's entries, up to what they reserved, stay within its ceiling and the
\* allocations of its phases.
BudgetFits ==
  /\ Cardinality(BudgetUnits(Call)) <= AgentCeiling
  /\ \A p \in Phase : Cardinality(BudgetUnits(OfPhase(p))) <= Allocation[p]

\* What every reachable state satisfies.
Inductive ==
  /\ TypeOK
  /\ \A c \in Call : Local(c)
  /\ RowsDiffer /\ PaidHasRow
  /\ JournalFits /\ BudgetFits

\* The sums after the step.
LEMMA SumsAfter ==
  ASSUME TypeOK, \A c \in Call : Local(c), [Next]_vars
  PROVE  /\ JournalUnits' = Units(Call, [c \in Call |-> JournalCost(c)'])
         /\ [c \in Call |-> JournalCost(c)'] \in [Call -> Nat]
         /\ \A S \in SUBSET Call :
              /\ BudgetUnits(S)' = Units(S, [c \in S |-> Budgeted(c)'])
              /\ [c \in S |-> Budgeted(c)'] \in [S -> Nat]
<1>1. Amounts'
  BY CostsAfter
<1>2. ASSUME NEW c \in Call PROVE JournalCost(c)' \in Nat /\ Budgeted(c)' \in Nat
  BY <1>1 DEF Amounts
<1> QED BY <1>2 DEF JournalUnits, BudgetUnits, Units

\* The signer's ceiling bounds its journal: reserve() looked at the sum it adds to.
LEMMA JournalFitsStep ==
  ASSUME Inductive, [Next]_vars
  PROVE  JournalFits'
<1> DEFINE w == [c \in Call |-> JournalCost(c)]  v == [c \in Call |-> JournalCost(c)']
<1>1. /\ w \in [Call -> Nat] /\ v \in [Call -> Nat] /\ IsFiniteSet(Call)
      /\ JournalUnits = Units(Call, w) /\ JournalUnits' = Units(Call, v)
  BY Costs, JournalSum, SumsAfter, SpendConstants DEF Inductive, Amounts
<1>2. Cardinality(Units(Call, w)) \in Nat /\ Cardinality(Units(Call, v)) \in Nat
  <2> HIDE DEF w, v
  <2> QED BY <1>1, UnitsFinite
<1>3. CASE KeepsRows
  <2>1. \A c \in Call : v[c] <= w[c]
    BY <1>3 DEF KeepsRows
  <2> HIDE DEF w, v
  <2>2. Cardinality(Units(Call, v)) <= Cardinality(Units(Call, w))
    BY <1>1, <2>1, UnitsMonotone
  <2> QED BY <1>1, <1>2, <2>2, SpendConstants DEF Inductive, JournalFits
<1>4. ASSUME NEW c \in Call, NEW q \in Quote, NEW n \in Nat, Inserts(c, q, n) PROVE JournalFits'
  <2>1. n + SignerFee \in Nat /\ v[c] = n + SignerFee
    BY <1>4 DEF Inserts, JournalCost, Inductive, TypeOK
  <2>2. \A d \in Call \ {c} : v[d] = w[d]
    BY <1>4 DEF Inserts, JournalCost, Inductive, TypeOK
  <2>3. \A d \in Call \ {c} : v[d] <= w[d]
    BY <2>2, <1>1
  <2>4. Cardinality(Units(Call, w)) + (n + SignerFee) <= SignerCeiling
    BY <1>1, <1>2, <1>4, SpendConstants DEF Inserts
  <2>5. PICK m \in Nat : m = n + SignerFee
    BY <2>1
  <2> HIDE DEF w, v
  <2>6. Cardinality(Units(Call, v)) <= Cardinality(Units(Call, w)) + m
    BY <1>1, <2>1, <2>3, <2>5, UnitsGrow
  <2> QED BY <1>1, <1>2, <2>4, <2>5, <2>6, SpendConstants DEF JournalFits
<1> QED BY <1>3, <1>4, JournalStep DEF Inductive

\* The agent's ceiling and its phases' allocations, likewise: the sum it adds to is
\* that of the whole entries.
LEMMA BudgetStep ==
  ASSUME Inductive, [Next]_vars
  PROVE  BudgetFits'
<1>0. TypeOK /\ (\A c \in Call : Local(c)) /\ Amounts
  BY Costs DEF Inductive
<1>1. ASSUME NEW S \in SUBSET Call, NEW limit \in Nat, Cardinality(BudgetUnits(S)) <= limit,
             \A c \in S : Reserves(c) => Cardinality(LedgerUnits(S)) + Reserved(c) <= limit
      PROVE  Cardinality(BudgetUnits(S))' <= limit
  <2> DEFINE w == [c \in S |-> Budgeted(c)]  v == [c \in S |-> Budgeted(c)']
  <2>1. /\ w \in [S -> Nat] /\ v \in [S -> Nat] /\ IsFiniteSet(S)
        /\ BudgetUnits(S) = Units(S, w) /\ BudgetUnits(S)' = Units(S, v)
    <3>1. w \in [S -> Nat]
      BY <1>0 DEF Amounts
    <3> QED BY <3>1, <1>0, LedgerSum, SumsAfter
  <2>2. Cardinality(Units(S, w)) \in Nat /\ Cardinality(Units(S, v)) \in Nat
    <3> HIDE DEF w, v
    <3> QED BY <2>1, UnitsFinite
  <2>3. CASE \A c \in S : v[c] <= w[c]
    <3> HIDE DEF w, v
    <3>1. Cardinality(Units(S, v)) <= Cardinality(Units(S, w))
      BY <2>1, <2>3, UnitsMonotone
    <3> QED BY <1>1, <2>1, <2>2, <3>1
  <2>4. ASSUME NEW c \in Call, Reserves(c)
        PROVE  /\ Reserved(c) \in Nat
               /\ \A d \in S \ {c} : v[d] <= w[d]
               /\ c \in S => v[c] = Reserved(c)
    <3>1. Reserved(c) \in Nat
      BY <2>4, SpendConstants DEF Reserves, Reserved
    <3>2. \A d \in S \ {c} : v[d] = w[d]
      BY <1>0, <2>4 DEF Reserves, Budgeted, LedgerCost, Reserved, TypeOK
    <3>3. \A d \in S \ {c} : v[d] <= w[d]
      BY <2>1, <3>2
    <3>4. c \in S => v[c] = Reserved(c)
      BY <1>0, <2>4, <3>1 DEF Reserves, Budgeted, LedgerCost, Reserved, Lesser, TypeOK
    <3> QED BY <3>1, <3>3, <3>4
  <2>5. ASSUME NEW c \in S, Reserves(c) PROVE Cardinality(BudgetUnits(S))' <= limit
    <3>1. PICK n \in Nat : n = Reserved(c)
      BY <2>4, <2>5
    <3> HIDE DEF w, v
    <3>2. v[c] = n /\ \A d \in S \ {c} : v[d] <= w[d]
      BY <2>4, <2>5, <3>1
    <3>3. Cardinality(Units(S, v)) <= Cardinality(Units(S, w)) + n
      BY <2>1, <3>2, UnitsGrow
    <3>4. Cardinality(LedgerUnits(S)) + n <= limit /\ Cardinality(LedgerUnits(S)) \in Nat
      BY <1>0, <1>1, <2>5, <3>1, LedgerSum
    <3>5. Cardinality(Units(S, w)) <= Cardinality(LedgerUnits(S))
      BY <1>0, <2>1, LedgerSum
    <3> QED BY <2>1, <2>2, <3>3, <3>4, <3>5
  <2>6. CASE KeepsEntries
    BY <2>3, <2>6 DEF KeepsEntries
  <2>7. ASSUME NEW c \in Call, Reserves(c), c \notin S PROVE \A d \in S : v[d] <= w[d]
    BY <2>4, <2>7
  <2> HIDE DEF w, v
  <2> QED BY <1>0, <2>3, <2>5, <2>6, <2>7, LedgerStep
<1>2. Cardinality(BudgetUnits(Call))' <= AgentCeiling
  BY <1>1, SpendConstants DEF Inductive, BudgetFits, Reserves, Fits
<1>3. ASSUME NEW p \in Phase PROVE Cardinality(BudgetUnits(OfPhase(p)))' <= Allocation[p]
  <2>1. PICK S \in SUBSET Call : S = OfPhase(p)
    BY DEF OfPhase
  <2>2. Cardinality(BudgetUnits(S)) <= Allocation[p] /\ Allocation[p] \in Nat
    BY <2>1, SpendConstants DEF Inductive, BudgetFits
  <2>3. ASSUME NEW c \in S, Reserves(c)
        PROVE  Cardinality(LedgerUnits(S)) + Reserved(c) <= Allocation[p]
    <3>1. PhaseOf[c] = p
      BY <2>1 DEF OfPhase
    <3> QED BY <2>1, <2>3, <3>1 DEF Reserves, Fits
  <2>4. Cardinality(BudgetUnits(S))' <= Allocation[p]
    BY <1>1, <2>2, <2>3
  <2> QED BY <2>1, <2>4 DEF OfPhase
<1> QED BY <1>2, <1>3 DEF BudgetFits, OfPhase

-----------------------------------------------------------------------------
LEMMA InductiveInit == Init => Inductive
<1> SUFFICES ASSUME Init PROVE Inductive
  OBVIOUS
<1>1. TypeOK
  BY DEF Init, TypeOK
<1>2. \A c \in Call : Local(c)
  BY DEF Init, Local, SignerPlace, RowOfNet, Answered, ClientPlace, Books, Agent
<1>3. RowsDiffer /\ PaidHasRow
  BY DEF Init, RowsDiffer, PaidHasRow
<1>4. JournalUnits = {} /\ \A S \in SUBSET Call : BudgetUnits(S) = {}
  BY DEF Init, JournalUnits, BudgetUnits, JournalCost, Budgeted
<1>5. JournalFits
  BY <1>4, FS_EmptySet, SpendConstants DEF JournalFits
<1>6. BudgetFits
  <2>1. ASSUME NEW S \in SUBSET Call PROVE Cardinality(BudgetUnits(S)) = 0
    BY <1>4, FS_EmptySet
  <2>2. \A p \in Phase : Cardinality(BudgetUnits(OfPhase(p))) = 0
    BY <2>1 DEF OfPhase
  <2> QED BY <2>1, <2>2, SpendConstants DEF BudgetFits
<1> QED BY <1>1, <1>2, <1>3, <1>5, <1>6 DEF Inductive

LEMMA InductiveStep == Inductive /\ [Next]_vars => Inductive'
<1> SUFFICES ASSUME Inductive, [Next]_vars PROVE Inductive'
  OBVIOUS
<1>1. TypeOK' /\ \A c \in Call : Local(c)'
  BY TypeStep, LocalStep DEF Inductive
<1>2. RowsDiffer' /\ PaidHasRow'
  BY DifferStep, PaidStep DEF Inductive
<1>3. JournalFits' /\ BudgetFits'
  BY JournalFitsStep, BudgetStep
<1> QED BY <1>1, <1>2, <1>3 DEF Inductive

\* The inductive invariant: places, rows, answers and entries agree, no two rows are
\* of one quote, a paid answer has the amount and the fee of a confirmed row, the
\* signer's journal is within its ceiling, and so are the agent's entries up to what
\* they reserved.
THEOREM Invariant == Spec => []Inductive
BY InductiveInit, InductiveStep, PTL DEF Spec

-----------------------------------------------------------------------------
(* What follows from it.                                                   *)

\* Every variable keeps its type in every behaviour of the two processes.
THEOREM TypeCorrect == Spec => []TypeOK
<1>1. Inductive => TypeOK
  BY DEF Inductive
<1> QED BY <1>1, Invariant, PTL

\* The gateway is paid at most once on one quote, whoever sends it to the signer
\* again, and whatever crashes.
THEOREM QuotePaidOnce == Spec => []OnePaymentPerQuote
<1>1. Inductive => OnePaymentPerQuote
  BY DEF Inductive, Local, RowOfNet, RowsDiffer, OnePaymentPerQuote, MayPay
<1> QED BY <1>1, Invariant, PTL

\* A settled entry counts the row that was paid, and there is no other of its quote.
LEMMA SettledCounts ==
  ASSUME Inductive, NEW c \in Agent, entry[c] = "settled",
         NEW d \in Call, net[d] = "landed", quote[d] = quote[c]
  PROVE  MovedCost(d) <= LedgerCost(c)
<1>1. c \in Call /\ answer[c] = "paid" /\ row[d] # "none"
  BY DEF Inductive, Agent, Local, Books, RowOfNet
<1>2. PICK e \in Call : Replays(c, e)
  BY <1>1 DEF Inductive, PaidHasRow
<1>3. e = d
  BY <1>1, <1>2 DEF Inductive, RowsDiffer, Replays
<1>4. charged[d] <= rowFee[d] /\ charged[d] \in Nat /\ rowFee[d] \in Nat /\ asked[d] \in Nat
  BY <1>2, <1>3 DEF Inductive, Local, RowOfNet, Replays, TypeOK
<1>5. MovedCost(d) = asked[d] + charged[d] /\ LedgerCost(c) = asked[d] + rowFee[d]
  BY <1>2, <1>3 DEF MovedCost, LedgerCost, Replays
<1> QED BY <1>4, <1>5

LEMMA Counted == Inductive => NothingUncounted
<1>1. ASSUME Inductive, NEW c \in Agent, net[c] # "none" PROVE entry[c] \in {"reserved", "settled"}
  <2>1. c \in Call /\ Local(c) /\ entry[c] \in {"none", "reserved", "settled", "released"}
    BY <1>1 DEF Inductive, Agent, TypeOK
  <2>2. row[c] \in {"sent", "confirmed"} /\ place[c] # "idle" /\ answer[c] # "refused"
    BY <1>1, <2>1 DEF Local, RowOfNet, SignerPlace, Answered
  <2> QED BY <1>1, <2>1, <2>2 DEF Local, Books
<1> QED BY <1>1, SettledCounts DEF NothingUncounted

\* No payment of the agent's is dropped from its ledger: a release follows a refusal,
\* and the signer refuses only what it did not send.  And a settled entry counts all
\* that was moved for its quote, whoever had it paid and at whatever amount.
THEOREM PaymentsCounted == Spec => []NothingUncounted
BY Counted, Invariant, PTL

\* An entry counts more than it reserved only for the signer's fee, or because another
\* client had its quote paid at more than its cap.
LEMMA OverrunExplained ==
  ASSUME Inductive, NEW c \in Agent, Overrun(c)
  PROVE  \/ fee[c] > AgentFee
         \/ \E d \in Stray : net[d] = "landed" /\ quote[d] = quote[c] /\ asked[d] > Amount[quote[c]]
<1>1. c \in Call /\ Books(c) /\ TypeOK /\ entry[c] \in {"reserved", "settled", "released"}
  BY DEF Inductive, Agent, Local, TypeOK, Overrun
<1>2. quote[c] \in Quote /\ Amount[quote[c]] \in Nat /\ Reserved(c) = Amount[quote[c]] + AgentFee
  BY <1>1, SpendConstants DEF Books, Overrun, Reserved
<1>3. entry[c] = "settled"
  BY <1>1, <1>2, SpendConstants DEF Overrun, LedgerCost
<1>4. PICK d \in Call : Replays(c, d)
  BY <1>1, <1>3 DEF Inductive, PaidHasRow, Books
<1>5. asked[d] + fee[c] > Amount[quote[c]] + AgentFee /\ asked[d] \in Nat /\ fee[c] \in Nat
  BY <1>1, <1>2, <1>3, <1>4 DEF Overrun, LedgerCost, Replays, TypeOK
<1>6. CASE fee[c] <= AgentFee
  <2>1. asked[d] > Amount[quote[c]]
    BY <1>2, <1>5, <1>6, SpendConstants
  <2>2. RowOfNet(d) /\ row[d] = "confirmed" /\ quote[d] = quote[c]
    BY <1>4 DEF Inductive, Local, Replays
  <2>3. d \notin Agent
    BY <2>1, <2>2, <1>2, <1>5 DEF RowOfNet
  <2> QED BY <2>1, <2>2, <2>3 DEF RowOfNet, Agent
<1> QED BY <1>5, <1>6, SpendConstants

\* The agent's ledger is within its ceiling, and each phase within its allocation, but
\* for the settlements above their reservations, of which it says how they come.
THEOREM BudgetIsKept == Spec => []BudgetHolds
<1>1. Inductive => BudgetHolds
  BY OverrunExplained DEF Inductive, BudgetFits, BudgetHolds
<1> QED BY <1>1, Invariant, PTL

\* What a transaction moved or may move is within what its row counts, and, up to
\* what was reserved for it, within what its entry counts.
MovedHeld ==
  \A c \in Call : /\ MovedCost(c) <= JournalCost(c)
                  /\ c \in Agent => Spent(c) <= Budgeted(c)

LEMMA MovedIsHeld == Inductive => MovedHeld
<1> SUFFICES ASSUME Inductive, NEW c \in Call
             PROVE  MovedCost(c) <= JournalCost(c) /\ (c \in Agent => Spent(c) <= Budgeted(c))
  BY DEF MovedHeld
<1>1. Local(c) /\ Amounts
  BY Costs DEF Inductive
<1>2. SignerFee \in Nat /\ rowFee[c] \in Nat /\ charged[c] \in Nat /\ charged[c] <= SignerFee /\ asked[c] \in Nat
  BY SpendConstants DEF Inductive, TypeOK
<1>3. MovedCost(c) <= JournalCost(c)
  BY <1>1, <1>2 DEF MovedCost, JournalCost, Local, RowOfNet, Amounts
<1>4. ASSUME c \in Agent PROVE Spent(c) <= Budgeted(c)
  <2>1. CASE net[c] = "none"
    BY <2>1, <1>1 DEF Spent, Amounts
  <2>2. CASE net[c] # "none"
    <3>1. entry[c] = "reserved" \/ entry[c] = "settled"
      BY <1>4, <2>2, Counted DEF NothingUncounted
    <3>2. Reserved(c) \in Nat /\ MovedCost(c) \in Nat
      <4>1. quote[c] \in Quote
        BY <3>1, <1>1 DEF Local, Books
      <4> QED BY <4>1, <1>1, SpendConstants DEF Reserved, Amounts
    <3>3. CASE entry[c] = "reserved"
      BY <2>2, <3>2, <3>3 DEF Spent, Budgeted, LedgerCost, Lesser
    <3>4. CASE entry[c] = "settled"
      <4>1. row[c] = "confirmed"
        BY <2>2, <3>4, <1>1 DEF Local, Books, Answered, RowOfNet
      <4>2. net[c] = "landed"
        BY <4>1, <1>1 DEF Local, RowOfNet
      <4>3. MovedCost(c) <= LedgerCost(c) /\ LedgerCost(c) \in Nat
        BY <1>1, <1>4, <3>4, <4>2, SettledCounts DEF Amounts
      <4> QED BY <2>2, <3>2, <3>4, <4>3 DEF Spent, Budgeted, Lesser
    <3> QED BY <3>1, <3>3, <3>4
  <2> QED BY <2>1, <2>2
<1> QED BY <1>3, <1>4

\* What was moved of the signer's wallet is within its own ceiling, strays included.
THEOREM SignerWithinCeiling == Spec => []SignerCeilingHolds
<1>1. ASSUME Inductive PROVE SignerCeilingHolds
  <2> DEFINE w == [c \in Call |-> JournalCost(c)]  v == [c \in Call |-> MovedCost(c)]
  <2>1. /\ w \in [Call -> Nat] /\ v \in [Call -> Nat] /\ IsFiniteSet(Call)
        /\ JournalUnits = Units(Call, w) /\ MovedUnits = Units(Call, v)
    BY <1>1, Costs, JournalSum, SpendConstants DEF Inductive, Amounts, MovedUnits, Units
  <2>2. \A c \in Call : v[c] <= w[c]
    BY <1>1, MovedIsHeld DEF MovedHeld
  <2>3. Cardinality(Units(Call, w)) <= SignerCeiling
    BY <1>1, <2>1 DEF Inductive, JournalFits
  <2> HIDE DEF w, v
  <2>4. Cardinality(Units(Call, v)) <= Cardinality(Units(Call, w))
    BY <2>1, <2>2, UnitsMonotone
  <2>5. Cardinality(Units(Call, w)) \in Nat /\ Cardinality(Units(Call, v)) \in Nat
    BY <2>1, UnitsFinite
  <2> QED BY <2>1, <2>3, <2>4, <2>5, SpendConstants DEF SignerCeilingHolds
<1> QED BY <1>1, Invariant, PTL

\* A receipt says paid only of a quote that a transaction of the signer paid.
THEOREM PaidIsTrue == Spec => []PaidIsPaid
<1>1. Inductive => PaidIsPaid
  BY DEF Inductive, PaidIsPaid, PaidHasRow, Replays, Local, RowOfNet, Books, Agent
<1> QED BY <1>1, Invariant, PTL
-----------------------------------------------------------------------------
(* Both purses are SpendLimit's: what every step does to the costs.        *)

LEMMA HeldAfter ==
  ASSUME Inductive, [Next]_vars
  PROVE  Inductive' /\ MovedHeld' /\ Amounts /\ Amounts'
<1>1. Inductive'
  BY InductiveStep
<1>2. MovedHeld'
  BY <1>1, MovedIsHeld, PTL
<1> QED BY <1>1, <1>2, Costs, CostsAfter DEF Inductive

SameMoved(c)   == MovedCost(c)' = MovedCost(c)
SameBudget(c)  == Budgeted(c)' = Budgeted(c)
SameJournal(c) == JournalCost(c)' = JournalCost(c)

\* A step changes the costs of one call at most.
LEMMA OneCall ==
  ASSUME TypeOK, [Next]_vars
  PROVE  \/ \E c \in Call : \A d \in Call \ {c} : SameMoved(d) /\ SameBudget(d) /\ SameJournal(d)
         \/ \A d \in Call : SameMoved(d) /\ SameBudget(d) /\ SameJournal(d)
<1> USE DEF TypeOK, Go, End, Throw, Reply, signerVars, chainVars, agentVars
<1> DEFINE CostVars(d) == <<quote[d], entry[d], paid[d], fee[d], asked[d], row[d], rowFee[d], net[d], charged[d]>>
           One == \E c \in Call : \A d \in Call \ {c} : UNCHANGED CostVars(d)
           None == \A d \in Call : UNCHANGED CostVars(d)
<1>1. ASSUME NEW c \in Call, Start(c) \/ Land(c) \/ Die(c) PROVE One
  BY <1>1 DEF Start, Land, Die
<1>2. ASSUME NEW c \in Call, QuoteFails(c) \/ QuoteExpired(c) \/ AskBalanceProof(c) \/ SpendCredit(c)
             \/ PayOnchain(c) \/ Unreachable(c) \/ ReadAnswer(c) \/ ReadUnreadable(c) \/ RecordPaid(c)
             \/ Serve(c) \/ Note(c)
      PROVE  None
  BY <1>2 DEF QuoteFails, QuoteExpired, AskBalanceProof, SpendCredit, PayOnchain, Unreachable, ReadAnswer,
              ReadUnreadable, RecordPaid, Serve, Note
<1>3. ASSUME NEW c \in Call, NEW q \in Quote,
             RecordQuote(c, q) \/ \E n \in 1 .. MaxPerCall : RequestStray(c, q, n)
      PROVE  One
  BY <1>3 DEF RecordQuote, RequestStray, Decide
<1>4. ASSUME NEW c \in Call, NEW wellFormed \in BOOLEAN, RequestPay(c, wellFormed) PROVE One
  BY <1>4 DEF RequestPay, Decide
<1>5. ASSUME NEW c \in Call, ReserveBudget(c) \/ Release(c) \/ Settle(c) PROVE One
  BY <1>5 DEF ReserveBudget, Release, Settle
<1>6. ASSUME NEW c \in Call, SignerStep(c) PROVE One
  BY <1>6 DEF SignerStep, PrepareFails, Prepare, Broadcast, OutcomeUnknown, Confirm
<1>7. CASE AgentCrash \/ SignerCrash \/ UNCHANGED vars
  BY <1>7 DEF AgentCrash, SignerCrash, vars, SameMoved, SameBudget, SameJournal, MovedCost, Budgeted, Reserved,
              LedgerCost, JournalCost
<1>8. One \/ None \/ AgentCrash \/ SignerCrash \/ UNCHANGED vars
  <2> HIDE DEF One, None
  <2> QED BY <1>1, <1>2, <1>3, <1>4, <1>5, <1>6 DEF Next, ClientStep, Quoting, Quoted, Paying, Ending
<1>9. ASSUME NEW d \in Call, UNCHANGED CostVars(d) PROVE SameMoved(d) /\ SameBudget(d) /\ SameJournal(d)
  BY <1>9 DEF SameMoved, SameBudget, SameJournal, MovedCost, Budgeted, Reserved, LedgerCost, JournalCost
<1> HIDE DEF CostVars, SameMoved, SameBudget, SameJournal, TypeOK
<1>10. CASE One
  BY <1>9, <1>10
<1>11. CASE None
  BY <1>9, <1>11
<1> HIDE DEF One, None
<1> QED BY <1>7, <1>8, <1>10, <1>11

\* The chain's steps and the broadcast are the ones that move money.
Moves(c) == Broadcast(c) \/ Land(c) \/ Die(c)

\* What has moved, of which quote and at what amount, does not change otherwise.
LEMMA OnlyMovesMove ==
  ASSUME Inductive, [Next]_vars, \A c \in Call : ~Moves(c)
  PROVE  \A c \in Call : SameMoved(c) /\ Spent(c)' = Spent(c)
<1>1. UNCHANGED <<net, charged>>
  BY DEF Moves, Next, Start, ClientStep, Quoting, Quoted, Paying, Ending, QuoteFails, RecordQuote, QuoteExpired,
         AskBalanceProof, SpendCredit, PayOnchain, ReserveBudget, RequestPay, Unreachable, ReadAnswer,
         ReadUnreadable, Release, Settle, RecordPaid, Serve, Note, SignerStep, PrepareFails, Prepare,
         OutcomeUnknown, Confirm, RequestStray, AgentCrash, SignerCrash, vars, chainVars, agentVars, signerVars
<1>2. ASSUME NEW c \in Call, net[c] # "none" PROVE asked'[c] = asked[c] /\ quote'[c] = quote[c]
  <2>1. row[c] # "none"
    BY <1>2 DEF Inductive, Local, RowOfNet
  <2> QED BY <2>1, JournalStep DEF Inductive, KeepsRows, Inserts
<1> QED BY <1>1, <1>2 DEF SameMoved, Spent, MovedCost, Reserved

\* A move changes no hold, and what its call has moved does not shrink.
LEMMA MovesOf ==
  ASSUME Inductive, NEW c \in Call, Moves(c)
  PROVE  /\ \A d \in Call : SameBudget(d) /\ SameJournal(d)
         /\ \A d \in Call \ {c} : SameMoved(d) /\ Spent(d)' = Spent(d)
         /\ MovedCost(c) <= MovedCost(c)'
         /\ Spent(c) <= Spent(c)'
<1> USE DEF Inductive, TypeOK, agentVars, signerVars
<1>1. UNCHANGED <<agentVars, asked, row, rowFee>>
  BY DEF Moves, Broadcast, Land, Die
<1>2. \A d \in Call : SameBudget(d) /\ SameJournal(d)
  BY <1>1 DEF SameBudget, SameJournal, Budgeted, Reserved, LedgerCost, JournalCost
<1>3. \A d \in Call \ {c} : SameMoved(d) /\ Spent(d)' = Spent(d)
  BY <1>1 DEF Moves, Broadcast, Land, Die, SameMoved, MovedCost, Spent, Reserved
<1>4. RowOfNet(c) /\ SignerPlace(c)
  BY DEF Local
<1>5. net[c] = "none" \/ (net[c] = "pending" /\ charged[c] = 0)
  BY <1>4 DEF Moves, Broadcast, Land, Die, SignerPlace, RowOfNet
<1>6. row[c] # "none"
  BY <1>4 DEF Moves, Broadcast, Land, Die, SignerPlace, RowOfNet
<1>7. quote[c] \in Quote /\ asked[c] \in Nat /\ charged'[c] \in Nat
  BY <1>4, <1>6, SpendConstants DEF RowOfNet, Moves, Broadcast, Land, Die
<1>8. asked'[c] = asked[c] /\ net'[c] # "none"
  BY <1>1, <1>5 DEF Moves, Broadcast, Land, Die
<1>9. PICK n \in Nat, f \in Nat : n = asked[c] /\ f = charged'[c]
  BY <1>7
<1>10. MovedCost(c)' = n + f
  BY <1>8, <1>9 DEF MovedCost
<1>11. MovedCost(c) = 0 \/ MovedCost(c) = n
  BY <1>5, <1>9 DEF MovedCost
<1>12. MovedCost(c) <= MovedCost(c)'
  BY <1>10, <1>11
<1>13. Reserved(c) \in Nat /\ Reserved(c)' = Reserved(c)
  BY <1>1, <1>7, SpendConstants DEF Reserved
<1>14. Spent(c) <= Spent(c)'
  <2>1. Spent(c)' = Lesser(MovedCost(c)', Reserved(c))
    BY <1>8, <1>13 DEF Spent
  <2>2. Spent(c) = 0 \/ Spent(c) = Lesser(MovedCost(c), Reserved(c))
    BY DEF Spent
  <2> QED BY <2>1, <2>2, <1>10, <1>11, <1>13 DEF Lesser
<1> QED BY <1>2, <1>3, <1>12, <1>14

\* More money is more units.
LEMMA ColumnGrows ==
  ASSUME NEW c, NEW m \in Nat, NEW n \in Nat, m <= n
  PROVE  {c} \X (1 .. m) \subseteq {c} \X (1 .. n)
<1>1. 1 .. m \subseteq 1 .. n
  OBVIOUS
<1> QED BY <1>1

\* The purses count as this module does.
LEMMA SameSize ==
  \A S : AgentPurse!Cardinality(S) = Cardinality(S) /\ SignerPurse!Cardinality(S) = Cardinality(S)
BY DEF AgentPurse!Cardinality, SignerPurse!Cardinality, Cardinality

ledgerBar  == [c \in Agent |-> {c} \X (1 .. Budgeted(c))]
journalBar == [c \in Call |-> {c} \X (1 .. JournalCost(c))]
spentBar   == [c \in Agent |-> {c} \X (1 .. Spent(c))]
movedBar   == [c \in Call |-> {c} \X (1 .. MovedCost(c))]

\* Every step of the agent's books is a step of the purse, or leaves it alone.
LEMMA AgentRefines == Inductive /\ [Next]_vars => [AgentPurse!Next]_(AgentPurse!vars)
<1> SUFFICES ASSUME Inductive, [Next]_vars
             PROVE  AgentPurse!Next \/ UNCHANGED <<ledgerBar, spentBar>>
  BY DEF AgentPurse!vars, ledgerBar, spentBar, Spent
<1>a. Agent \subseteq Call
  BY DEF Agent
<1>n. ASSUME NEW c \in Agent
      PROVE  /\ Spent(c) \in Nat /\ Budgeted(c) \in Nat
             /\ Spent(c)' \in Nat /\ Budgeted(c)' \in Nat
             /\ Spent(c)' <= Budgeted(c)'
  BY <1>a, HeldAfter DEF MovedHeld, Amounts
<1>1. ASSUME NEW c \in Call, Moves(c) PROVE AgentPurse!Next \/ UNCHANGED <<ledgerBar, spentBar>>
  <2>1. ledgerBar' = ledgerBar
    BY <1>1, <1>a, MovesOf DEF ledgerBar, SameBudget
  <2>2. CASE c \in Agent
    <3>1. \A d \in Agent \ {c} : spentBar'[d] = spentBar[d]
      BY <1>1, <1>a, MovesOf DEF spentBar
    <3>2. spentBar[c] \subseteq spentBar'[c]
      BY <1>1, <1>n, <2>2, MovesOf, ColumnGrows DEF spentBar
    <3>3. Budgeted(c)' = Budgeted(c)
      BY <1>1, MovesOf DEF SameBudget
    <3>4. spentBar'[c] \subseteq ledgerBar[c]
      BY <1>n, <2>2, <3>3, ColumnGrows DEF spentBar, ledgerBar
    <3>5. AgentPurse!Move(c)
      BY <2>1, <3>1, <3>2, <3>4 DEF AgentPurse!Move, ledgerBar, spentBar, Spent
    <3> QED BY <2>2, <3>5 DEF AgentPurse!Next
  <2>3. CASE c \notin Agent
    <3>1. spentBar' = spentBar
      BY <1>1, <1>a, <2>3, MovesOf DEF spentBar
    <3> QED BY <2>1, <3>1
  <2> QED BY <2>2, <2>3
<1>2. ASSUME \A c \in Call : ~Moves(c) PROVE AgentPurse!Next \/ UNCHANGED <<ledgerBar, spentBar>>
  <2>1. \A c \in Call : Spent(c)' = Spent(c)
    BY <1>2, OnlyMovesMove
  <2>2. spentBar' = spentBar
    BY <2>1, <1>a DEF spentBar
  <2>3. ASSUME NEW c \in Call, Reserves(c) PROVE AgentPurse!Next
    <3>1. c \in Agent /\ ledgerBar[c] = {}
      BY <2>3 DEF Reserves, Budgeted, ledgerBar
    <3>2. \A d \in Agent \ {c} : ledgerBar'[d] = ledgerBar[d]
      BY <2>3, <1>a DEF Reserves, Budgeted, LedgerCost, Reserved, ledgerBar, Inductive, TypeOK
    <3>3. Cardinality(UNION {ledgerBar'[d] : d \in Agent}) <= AgentCeiling
      <4>1. UNION {ledgerBar'[d] : d \in Agent} \subseteq BudgetUnits(Call)'
        BY <1>a DEF ledgerBar, BudgetUnits
      <4>2. IsFiniteSet(BudgetUnits(Call)') /\ Cardinality(BudgetUnits(Call)') \in Nat
        <5> DEFINE v == [d \in Call |-> Budgeted(d)']
        <5>1. v \in [Call -> Nat]
          BY HeldAfter DEF Amounts
        <5>2. BudgetUnits(Call)' = Units(Call, v)
          BY DEF BudgetUnits, Units
        <5> HIDE DEF v
        <5> QED BY <5>1, <5>2, UnitsFinite, SpendConstants
      <4>3. Cardinality(BudgetUnits(Call)') <= AgentCeiling
        BY HeldAfter DEF Inductive, BudgetFits
      <4>4. /\ Cardinality(UNION {ledgerBar'[d] : d \in Agent}) \in Nat
            /\ Cardinality(UNION {ledgerBar'[d] : d \in Agent}) <= Cardinality(BudgetUnits(Call)')
        BY <4>1, <4>2, FS_Subset, FS_CardinalityType
      <4> QED BY <4>2, <4>3, <4>4, SpendConstants
    <3>t. AgentPurse!Total' = Cardinality(UNION {ledgerBar'[d] : d \in Agent})
      BY SameSize DEF AgentPurse!Total, ledgerBar
    <3>4. AgentPurse!Hold(c)
      BY <2>2, <3>1, <3>2, <3>3, <3>t DEF AgentPurse!Hold, AgentPurse!OnlyHold, ledgerBar, spentBar, Spent
    <3> QED BY <3>1, <3>4 DEF AgentPurse!Next
  <2>4. ASSUME KeepsEntries, NEW c \in Call, \A d \in Call \ {c} : SameBudget(d)
        PROVE  AgentPurse!Next \/ UNCHANGED <<ledgerBar, spentBar>>
    <3>1. CASE c \in Agent
      <4>1. \A d \in Agent \ {c} : ledgerBar'[d] = ledgerBar[d]
        BY <2>4, <1>a DEF ledgerBar, SameBudget
      <4>2. ledgerBar'[c] \subseteq ledgerBar[c]
        BY <2>4, <3>1, <1>n, ColumnGrows DEF ledgerBar, KeepsEntries
      <4>3. spentBar[c] \subseteq ledgerBar'[c]
        BY <2>1, <3>1, <1>n, ColumnGrows DEF ledgerBar, spentBar
      <4>4. AgentPurse!Lower(c)
        BY <2>2, <4>1, <4>2, <4>3 DEF AgentPurse!Lower, AgentPurse!OnlyHold, ledgerBar, spentBar, Spent
      <4> QED BY <3>1, <4>4 DEF AgentPurse!Next
    <3>2. CASE c \notin Agent
      <4>1. ledgerBar' = ledgerBar
        BY <2>4, <3>2, <1>a DEF ledgerBar, SameBudget
      <4> QED BY <2>2, <4>1
    <3> QED BY <3>1, <3>2
  <2>5. ASSUME \A d \in Call : SameBudget(d) PROVE UNCHANGED <<ledgerBar, spentBar>>
    BY <2>2, <2>5, <1>a DEF ledgerBar, SameBudget
  <2> QED BY <2>3, <2>4, <2>5, LedgerStep, OneCall DEF Inductive
<1> QED BY <1>1, <1>2

\* And every step of the signer's journal, strays included.
LEMMA SignerRefines == Inductive /\ [Next]_vars => [SignerPurse!Next]_(SignerPurse!vars)
<1> SUFFICES ASSUME Inductive, [Next]_vars
             PROVE  SignerPurse!Next \/ UNCHANGED <<journalBar, movedBar>>
  BY DEF SignerPurse!vars, journalBar, movedBar
<1>n. ASSUME NEW c \in Call
      PROVE  /\ MovedCost(c) \in Nat /\ JournalCost(c) \in Nat
             /\ MovedCost(c)' \in Nat /\ JournalCost(c)' \in Nat
             /\ MovedCost(c)' <= JournalCost(c)'
  BY HeldAfter DEF MovedHeld, Amounts
<1>1. ASSUME NEW c \in Call, Moves(c) PROVE SignerPurse!Next
  <2>1. journalBar' = journalBar
    BY <1>1, MovesOf DEF journalBar, SameJournal
  <2>2. \A d \in Call \ {c} : movedBar'[d] = movedBar[d]
    BY <1>1, MovesOf DEF movedBar, SameMoved
  <2>3. movedBar[c] \subseteq movedBar'[c]
    BY <1>1, <1>n, MovesOf, ColumnGrows DEF movedBar
  <2>4. JournalCost(c)' = JournalCost(c)
    BY <1>1, MovesOf DEF SameJournal
  <2>5. movedBar'[c] \subseteq journalBar[c]
    BY <1>n, <2>4, ColumnGrows DEF movedBar, journalBar
  <2>6. SignerPurse!Move(c)
    BY <2>1, <2>2, <2>3, <2>5 DEF SignerPurse!Move, journalBar, movedBar
  <2> QED BY <2>6 DEF SignerPurse!Next
<1>2. ASSUME \A c \in Call : ~Moves(c) PROVE SignerPurse!Next \/ UNCHANGED <<journalBar, movedBar>>
  <2>1. \A c \in Call : MovedCost(c)' = MovedCost(c)
    BY <1>2, OnlyMovesMove DEF SameMoved
  <2>2. movedBar' = movedBar
    BY <2>1 DEF movedBar
  <2>3. ASSUME NEW c \in Call, NEW q \in Quote, NEW n \in Nat, Inserts(c, q, n) PROVE SignerPurse!Next
    <3>1. journalBar[c] = {}
      BY <2>3 DEF Inserts, JournalCost, journalBar
    <3>2. \A d \in Call \ {c} : journalBar'[d] = journalBar[d]
      BY <2>3 DEF Inserts, JournalCost, journalBar, Inductive, TypeOK
    <3>3. Cardinality(UNION {journalBar'[d] : d \in Call}) <= SignerCeiling
      <4>1. UNION {journalBar'[d] : d \in Call} = JournalUnits'
        BY DEF journalBar, JournalUnits
      <4> QED BY <4>1, HeldAfter DEF Inductive, JournalFits
    <3>t. SignerPurse!Total' = Cardinality(UNION {journalBar'[d] : d \in Call})
      BY SameSize DEF SignerPurse!Total, journalBar
    <3>4. SignerPurse!Hold(c)
      BY <2>2, <3>1, <3>2, <3>3, <3>t DEF SignerPurse!Hold, SignerPurse!OnlyHold, journalBar, movedBar
    <3> QED BY <3>4 DEF SignerPurse!Next
  <2>4. ASSUME KeepsRows, NEW c \in Call, \A d \in Call \ {c} : SameJournal(d) PROVE SignerPurse!Next
    <3>1. \A d \in Call \ {c} : journalBar'[d] = journalBar[d]
      BY <2>4 DEF journalBar, SameJournal
    <3>2. journalBar'[c] \subseteq journalBar[c]
      BY <2>4, <1>n, ColumnGrows DEF journalBar, KeepsRows
    <3>3. movedBar[c] \subseteq journalBar'[c]
      BY <2>1, <1>n, ColumnGrows DEF journalBar, movedBar
    <3>4. SignerPurse!Lower(c)
      BY <2>2, <3>1, <3>2, <3>3 DEF SignerPurse!Lower, SignerPurse!OnlyHold, journalBar, movedBar
    <3> QED BY <3>4 DEF SignerPurse!Next
  <2>5. ASSUME \A d \in Call : SameJournal(d) PROVE UNCHANGED <<journalBar, movedBar>>
    BY <2>2, <2>5 DEF journalBar, SameJournal
  <2> QED BY <2>3, <2>4, <2>5, JournalStep, OneCall DEF Inductive
<1> QED BY <1>1, <1>2

\* Up to what each call reserved, the agent's ledger is a purse: whatever moves for one
\* of its calls was held for it first, under the ceiling, and a hold is never lowered
\* below what has moved.
THEOREM AgentIsPurse == Spec => AgentHoldsFirst
<1>1. Init => AgentPurse!Init
  <2> SUFFICES ASSUME Init PROVE ledgerBar = [c \in Agent |-> {}] /\ spentBar = [c \in Agent |-> {}]
    BY DEF AgentPurse!Init, ledgerBar, spentBar, Spent
  <2> QED BY DEF Init, ledgerBar, spentBar, Budgeted, Spent, Agent
<1> QED BY <1>1, AgentRefines, Invariant, PTL DEF Spec, AgentHoldsFirst, AgentPurse!Spec

\* So is the signer's journal, for every call that reaches it.
THEOREM SignerIsPurse == Spec => SignerHoldsFirst
<1>1. Init => SignerPurse!Init
  <2> SUFFICES ASSUME Init PROVE journalBar = [c \in Call |-> {}] /\ movedBar = [c \in Call |-> {}]
    BY DEF SignerPurse!Init, journalBar, movedBar
  <2> QED BY DEF Init, journalBar, movedBar, JournalCost, MovedCost
<1> QED BY <1>1, SignerRefines, Invariant, PTL DEF Spec, SignerHoldsFirst, SignerPurse!Spec
===============================================================================
