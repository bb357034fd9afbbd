------------------------- MODULE PayoutSignerProofs -------------------------
(***************************************************************************)
(* Proofs about PayoutSigner, for every set of calls and approvals, every  *)
(* terms they sign and every cap.                                          *)
(***************************************************************************)
EXTENDS PayoutSigner, FiniteSetTheorems, TLAPS

USE ConstantsAssumption, NoApprovalAssumption, RecipientAssumption

\* The type invariant holds initially and every step keeps it: each handler,
\* the crash and the world assign only values of the declared sets.
LEMMA TypeStep == TypeOK /\ [Next]_vars => TypeOK'
<1> SUFFICES ASSUME TypeOK, [Next]_vars PROVE TypeOK'
  OBVIOUS
<1> USE DEF TypeOK, Waiting, Answered, Refusal, PullState, Goto, Answer
<1>1. CASE \E c \in Call, endpoint \in Route, a \in Approval : Request(c, endpoint, a)
  BY <1>1 DEF Request, journalVars, worldVars
<1>2. ASSUME NEW c \in Call, Handle(c) PROVE TypeOK'
  <2>1. CASE FetchFails(c)
    BY <2>1 DEF FetchFails, journalVars, worldVars
  <2>2. CASE FetchPull(c)
    BY <2>2 DEF FetchPull, Reserve, journalVars, worldVars
  <2>3. CASE ReadFails(c)
    BY <2>3 DEF ReadFails, journalVars, worldVars
  <2>4. CASE ReadEscrow(c)
    BY <2>4 DEF ReadEscrow, Reserve, journalVars, worldVars
  <2>5. CASE PrepareFails(c)
    BY <2>5 DEF PrepareFails, worldVars
  <2>6. CASE Prepare(c)
    BY <2>6 DEF Prepare, worldVars
  <2>7. CASE Broadcast(c)
    BY <2>7 DEF Broadcast, journalVars, worldVars
  <2>8. CASE SignFails(c)
    BY <2>8 DEF SignFails, journalVars, worldVars
  <2>9. CASE SignAndSend(c)
    BY <2>9 DEF SignAndSend, journalVars, worldVars
  <2>10. CASE OutcomeUnknown(c)
    BY <2>10 DEF OutcomeUnknown, journalVars, worldVars
  <2>11. CASE ConfirmPay(c)
    BY <2>11 DEF ConfirmPay, worldVars
  <2>12. CASE MarkReleaseSent(c)
    BY <2>12 DEF MarkReleaseSent, worldVars
  <2>13. CASE MarkReleaseConfirmed(c)
    BY <2>13 DEF MarkReleaseConfirmed, worldVars
  <2> QED
    BY <1>2, <2>1, <2>2, <2>3, <2>4, <2>5, <2>6, <2>7, <2>8, <2>9, <2>10, <2>11,
       <2>12, <2>13 DEF Handle
<1>3. CASE Crash
  BY <1>3 DEF Crash, journalVars, worldVars
<1>4. CASE World
  <2>1. ASSUME NEW c \in Call, Die(c) PROVE TypeOK'
    BY <2>1 DEF Die, callVars, journalVars, worldVars
  <2>0. ASSUME NEW c \in Call, Land(c) PROVE TypeOK'
    <3>1. net' \in [Call -> {"none", "pending", "landed", "dead"}]
      BY <2>0 DEF Land
    <3>2. escrow' = escrow \/ escrow' = [escrow EXCEPT ![T(c).bounty] = "released"]
      BY <2>0 DEF Land
    <3>3. escrow' \in [Bounty -> Recipient \cup Nobody]
      BY <3>2 DEF Nobody
    <3> QED BY <2>0, <3>1, <3>3 DEF Land, callVars, journalVars
  <2>2. ASSUME NEW b \in Bounty, NEW r \in Recipient, EscrowAssign(b, r) PROVE TypeOK'
    BY <2>2 DEF EscrowAssign, callVars, journalVars
  <2>3. ASSUME NEW b \in Bounty, EscrowUnassign(b) \/ EscrowRefund(b) PROVE TypeOK'
    BY <2>3 DEF EscrowUnassign, EscrowRefund, callVars, journalVars, Nobody
  <2>4. ASSUME NEW p \in Pull, NEW how \in {"merged", "selfMerged"}, Merge(p, how)
        PROVE TypeOK'
    BY <2>4 DEF Merge, callVars, journalVars
  <2>5. CASE NextDay
    BY <2>5 DEF NextDay, callVars, journalVars
  <2> QED BY <1>4, <2>0, <2>1, <2>2, <2>3, <2>4, <2>5 DEF World
<1>5. CASE UNCHANGED vars
  BY <1>5 DEF vars, callVars, journalVars, worldVars
<1> QED BY <1>1, <1>2, <1>3, <1>4, <1>5 DEF Next

\* Every variable keeps its type in every behaviour of the signer.
THEOREM TypeCorrect == Spec => []TypeOK
<1>1. Init => TypeOK
  BY DEF Init, TypeOK, Nobody, PullState
<1>2. TypeOK /\ [Next]_vars => TypeOK'
  BY TypeStep
<1> QED BY <1>1, <1>2, PTL DEF Spec

-----------------------------------------------------------------------------
(* What a step does to the journal, whichever action it is.                *)

\* c inserts its row: no row blocks it and it fits under the day's cap.
Inserts(c) ==
  /\ row[c] = "none"
  /\ row' = [row EXCEPT ![c] = "reserved"]
  /\ Existing(approval[c]) = {}
  /\ CommittedToday(LedgerOf(approval[c]), day[c]) + T(c).amount <= DailyMax[T(c).currency]
  /\ T(c).amount \in 1 .. PerBountyMax[T(c).currency]
  /\ approval[c] \in Approval
  /\ approval' = approval
  /\ day' = day

\* No row is inserted, and no row that is not counted becomes counted.
InsertsNothing ==
  \A c \in Call : /\ row[c] = "none" => row'[c] = "none"
                  /\ Counted(c)' => Counted(c)

\* What a row was written with stays with it.
KeepsRows ==
  \A c \in Call : pc[c] # "idle" =>
     /\ approval'[c] = approval[c]
     /\ day'[c] = day[c]
     /\ row[c] # "none" => row'[c] # "none"

\* The only step that writes a new row is the tail of FetchPull or ReadEscrow.
LEMMA JournalStep ==
  Inductive /\ [Next]_vars => KeepsRows /\ (InsertsNothing \/ \E c \in Call : Inserts(c))
<1> SUFFICES ASSUME Inductive, [Next]_vars
             PROVE  KeepsRows /\ (InsertsNothing \/ \E c \in Call : Inserts(c))
  OBVIOUS
<1> USE DEF Inductive, KeepsRows, InsertsNothing, TypeOK, AtPlace, OfRow, Waiting, Goto, Answer, Counted
<1>1. CASE \E c \in Call, endpoint \in Route, a \in Approval : Request(c, endpoint, a)
  BY <1>1 DEF Request, journalVars
<1>2. ASSUME NEW c \in Call, Handle(c)
      PROVE  KeepsRows /\ (InsertsNothing \/ \E d \in Call : Inserts(d))
  <2>1. CASE FetchPull(c)
    <3>1. CASE Reserve(c, "preparing")
      BY <2>1, <3>1 DEF FetchPull, Reserve, Inserts, journalVars
    <3>2. CASE UNCHANGED journalVars
      BY <2>1, <3>2 DEF FetchPull, journalVars
    <3> QED BY <2>1, <3>1, <3>2 DEF FetchPull
  <2>2. CASE ReadEscrow(c)
    <3>1. CASE Reserve(c, "signing")
      BY <2>2, <3>1 DEF ReadEscrow, Reserve, Inserts, journalVars
    <3>2. CASE UNCHANGED journalVars
      BY <2>2, <3>2 DEF ReadEscrow, journalVars
    <3> QED BY <2>2, <3>1, <3>2 DEF ReadEscrow
  <2>3. CASE FetchFails(c) \/ ReadFails(c) \/ Broadcast(c) \/ SignFails(c) \/ SignAndSend(c)
             \/ OutcomeUnknown(c)
    BY <2>3 DEF FetchFails, ReadFails, Broadcast, SignFails, SignAndSend, OutcomeUnknown, journalVars
  <2>4. CASE PrepareFails(c) \/ Prepare(c) \/ ConfirmPay(c)
    BY <2>4 DEF PrepareFails, Prepare, ConfirmPay
  <2>5. CASE MarkReleaseSent(c) \/ MarkReleaseConfirmed(c)
    BY <2>5 DEF MarkReleaseSent, MarkReleaseConfirmed
  <2> QED BY <1>2, <2>1, <2>2, <2>3, <2>4, <2>5 DEF Handle
<1>3. CASE Crash
  BY <1>3 DEF Crash, journalVars
<1>4. CASE World
  BY <1>4 DEF World, Land, Die, EscrowAssign, EscrowUnassign, EscrowRefund, Merge, NextDay,
     callVars, journalVars
<1>5. CASE UNCHANGED vars
  BY <1>5 DEF vars, callVars, journalVars
<1> QED BY <1>1, <1>2, <1>3, <1>4, <1>5 DEF Next

-----------------------------------------------------------------------------
(* The day's cap.                                                          *)

\* An interval from 1 has as many elements as its bound.
LEMMA IntervalSize ==
  ASSUME NEW n \in Nat
  PROVE  IsFiniteSet(1 .. n) /\ Cardinality(1 .. n) = n
<1>1. IsFiniteSet(1 .. n) /\ Cardinality(1 .. n) = IF 1 > n THEN 0 ELSE n - 1 + 1
  BY FS_Interval
<1> QED BY <1>1

\* The units committed in a ledger are finitely many.
LEMMA UnitsFinite ==
  ASSUME TypeOK, NEW ledger \in Currency \X BOOLEAN, NEW d \in Int
  PROVE  /\ IsFiniteSet(CommittedUnits(ledger, d))
         /\ CommittedToday(ledger, d) \in Nat
<1> DEFINE all == Call \X (1 .. PerBountyMax[ledger[1]])
<1>1. PerBountyMax[ledger[1]] \in Int
  OBVIOUS
<1>2. IsFiniteSet(1 .. PerBountyMax[ledger[1]])
  BY <1>1, FS_Interval
<1>3. IsFiniteSet(all)
  BY <1>2, FS_Product
<1>4. CommittedUnits(ledger, d) \in SUBSET all
  BY DEF CommittedUnits
<1>5. IsFiniteSet(CommittedUnits(ledger, d))
  BY <1>3, <1>4, FS_Subset
<1> QED BY <1>5, FS_CardinalityType DEF CommittedToday

\* A step that inserts nothing commits nothing more on any day.
LEMMA FitWhenNothingInserted ==
  ASSUME Inductive, TypeOK', KeepsRows, InsertsNothing,
         NEW ledger \in Currency \X BOOLEAN, NEW d \in 1 .. MaxDay
  PROVE  /\ CommittedToday(ledger, d)' \in Nat
         /\ CommittedToday(ledger, d)' <= CommittedToday(ledger, d)
<1>1. CommittedUnits(ledger, d)' \subseteq CommittedUnits(ledger, d)
  BY DEF CommittedUnits, InsertsNothing, KeepsRows, Inductive, OfRow, AtPlace, Counted, T, LedgerOf, TypeOK
<1>2. IsFiniteSet(CommittedUnits(ledger, d))
  BY UnitsFinite DEF Inductive
<1> QED BY <1>1, <1>2, FS_Subset, FS_CardinalityType DEF CommittedToday

\* A step that inserts a row adds at most its amount, and only to its own
\* ledger and day; reserve() checked that this fits.
LEMMA FitWhenInserted ==
  ASSUME Inductive, TypeOK', NEW c \in Call, Inserts(c),
         NEW ledger \in Currency \X BOOLEAN, NEW d \in 1 .. MaxDay
  PROVE  CommittedToday(ledger, d)' <= DailyMax[ledger[1]]
<1> DEFINE old == CommittedUnits(ledger, d)
           new == CommittedUnits(ledger, d)'
           own == {c} \X (1 .. T(c).amount)
<1>1. IsFiniteSet(old) /\ CommittedToday(ledger, d) \in Nat
  BY UnitsFinite DEF Inductive
<1>2. CASE LedgerOf(approval[c]) = ledger /\ day[c] = d
  <2>1. T(c).amount \in Nat /\ T(c).currency = ledger[1]
    BY <1>2 DEF Inserts, LedgerOf, T, TermsRecord
  <2>2. IsFiniteSet(own) /\ Cardinality(own) = T(c).amount
    <3>1. IsFiniteSet({c}) /\ Cardinality({c}) = 1
      BY FS_Singleton
    <3>2. IsFiniteSet(1 .. T(c).amount) /\ Cardinality(1 .. T(c).amount) = T(c).amount
      BY <2>1, IntervalSize
    <3>3. IsFiniteSet(own) /\ Cardinality(own) = Cardinality({c}) * Cardinality(1 .. T(c).amount)
      BY <3>1, <3>2, FS_Product
    <3> QED BY <3>1, <3>2, <3>3, <2>1
  <2>3. new \subseteq old \cup own
    <3> SUFFICES ASSUME NEW unit \in new PROVE unit \in old \cup own
      OBVIOUS
    <3>1. /\ unit \in Call \X (1 .. PerBountyMax[ledger[1]])
          /\ Counted(unit[1])' /\ day'[unit[1]] = d
          /\ LedgerOf(approval'[unit[1]]) = ledger
          /\ unit[2] <= Terms[approval'[unit[1]]].amount
      BY DEF CommittedUnits, T, LedgerOf
    <3>2. CASE unit[1] = c
      BY <3>1, <3>2, <2>1 DEF Inserts, T
    <3>3. CASE unit[1] # c
      <4>1. Counted(unit[1])
        BY <3>1, <3>3 DEF Inserts, Counted, Inductive, TypeOK
      <4> QED BY <3>1, <4>1 DEF CommittedUnits, Inserts, T
    <3> QED BY <3>2, <3>3
  <2>4. IsFiniteSet(old \cup own) /\ Cardinality(old \cup own) <= Cardinality(old) + Cardinality(own)
    <3>1. IsFiniteSet(old \cap own)
      BY <1>1, FS_Intersection
    <3>2. Cardinality(old \cap own) \in Nat /\ Cardinality(old) \in Nat /\ Cardinality(own) \in Nat
      BY <1>1, <2>2, <3>1, FS_CardinalityType
    <3>3. IsFiniteSet(old \cup own) /\ Cardinality(old \cup own)
            = Cardinality(old) + Cardinality(own) - Cardinality(old \cap own)
      BY <1>1, <2>2, FS_Union
    <3> QED BY <3>2, <3>3
  <2>5. Cardinality(new) <= Cardinality(old \cup own)
        /\ Cardinality(new) \in Nat /\ Cardinality(old \cup own) \in Nat
    BY <2>3, <2>4, FS_Subset, FS_CardinalityType
  <2>6. Cardinality(old) + T(c).amount <= DailyMax[ledger[1]]
    BY <1>2, <2>1 DEF Inserts, CommittedToday
  <2> QED BY <1>1, <2>1, <2>2, <2>4, <2>5, <2>6 DEF CommittedToday
<1>3. CASE ~(LedgerOf(approval[c]) = ledger /\ day[c] = d)
  <2>1. new \subseteq old
    BY <1>3 DEF CommittedUnits, Inserts, Counted, T, LedgerOf, Inductive, TypeOK
  <2>2. Cardinality(new) <= Cardinality(old)
    BY <1>1, <2>1, FS_Subset
  <2>3. Cardinality(old) <= DailyMax[ledger[1]]
    BY DEF Inductive, RowsFit, CommittedToday
  <2>4. Cardinality(new) \in Nat
    BY <1>1, <2>1, FS_Subset, FS_CardinalityType
  <2> QED BY <1>1, <2>2, <2>3, <2>4 DEF CommittedToday
<1> QED BY <1>2, <1>3

-----------------------------------------------------------------------------
(* The other conjuncts.                                                    *)

\* No two rows share a bounty, a payout or an approval.
LEMMA DifferStep == Inductive /\ [Next]_vars => RowsDiffer'
<1> SUFFICES ASSUME Inductive, [Next]_vars,
                    NEW c \in Call, NEW d \in Call, c # d, row'[c] # "none", row'[d] # "none"
             PROVE  (/\ T(c).bounty # T(d).bounty
                     /\ T(c).payout # T(d).payout
                     /\ approval[c] # approval[d])'
  BY DEF RowsDiffer
<1> USE DEF Inductive, TypeOK, AtPlace, OfRow, RowsDiffer, T
<1>1. KeepsRows
  BY JournalStep
<1>2. CASE InsertsNothing
  BY <1>1, <1>2 DEF KeepsRows, InsertsNothing
<1>3. ASSUME NEW e \in Call, Inserts(e)
      PROVE  (/\ T(c).bounty # T(d).bounty
              /\ T(c).payout # T(d).payout
              /\ approval[c] # approval[d])'
  BY <1>3 DEF Inserts, Existing
<1> QED BY <1>1, <1>2, <1>3, JournalStep

\* The rows of every ledger and day fit under its cap.
LEMMA FitStep == Inductive /\ [Next]_vars => RowsFit'
<1> SUFFICES ASSUME Inductive, [Next]_vars,
                    NEW ledger \in Currency \X BOOLEAN, NEW d \in 1 .. MaxDay
             PROVE  CommittedToday(ledger, d)' <= DailyMax[ledger[1]]
  BY DEF RowsFit
<1>1. KeepsRows /\ (InsertsNothing \/ \E c \in Call : Inserts(c))
  BY JournalStep
<1>2. TypeOK /\ TypeOK'
  BY TypeStep DEF Inductive
<1>3. CASE InsertsNothing
  <2>1. CommittedToday(ledger, d)' \in Nat /\ CommittedToday(ledger, d)' <= CommittedToday(ledger, d)
    BY <1>1, <1>2, <1>3, FitWhenNothingInserted
  <2>2. CommittedToday(ledger, d) \in Nat
    BY <1>2, UnitsFinite
  <2> QED BY <2>1, <2>2 DEF Inductive, RowsFit
<1>4. ASSUME NEW c \in Call, Inserts(c)
      PROVE  CommittedToday(ledger, d)' <= DailyMax[ledger[1]]
  BY <1>2, <1>4, FitWhenInserted
<1> QED BY <1>1, <1>3, <1>4

\* A handler at a place has the row and the transaction that belong there.
LEMMA PlaceStep ==
  Inductive /\ [Next]_vars => \A c \in Call : AtPlace(c)' /\ OfRow(c)'
<1> SUFFICES ASSUME Inductive, [Next]_vars, NEW c \in Call PROVE AtPlace(c)' /\ OfRow(c)'
  OBVIOUS
<1> USE DEF Inductive, TypeOK, AtPlace, OfRow, T, Counted, Waiting, Refusal, Answered, Goto, Answer,
            journalVars, callVars, worldVars, TermsRecord, Route
<1>1. CASE \E e \in Call, endpoint \in Route, a \in Approval : Request(e, endpoint, a)
  BY <1>1 DEF Request, Admissible
<1>2. ASSUME NEW e \in Call, Handle(e) PROVE AtPlace(c)' /\ OfRow(c)'
  <2>1. CASE FetchFails(e)
    BY <2>1 DEF FetchFails
  <2>2. CASE ReadFails(e)
    BY <2>2 DEF ReadFails
  <2>3. CASE PrepareFails(e)
    BY <2>3 DEF PrepareFails
  <2>4. CASE Prepare(e)
    BY <2>4 DEF Prepare
  <2>5. CASE Broadcast(e)
    BY <2>5 DEF Broadcast
  <2>6. CASE SignFails(e)
    BY <2>6 DEF SignFails
  <2>7. CASE SignAndSend(e)
    BY <2>7 DEF SignAndSend
  <2>8. CASE OutcomeUnknown(e)
    BY <2>8 DEF OutcomeUnknown
  <2>9. CASE ConfirmPay(e)
    BY <2>9 DEF ConfirmPay
  <2>10. CASE MarkReleaseSent(e)
    BY <2>10 DEF MarkReleaseSent
  <2>11. CASE MarkReleaseConfirmed(e)
    BY <2>11 DEF MarkReleaseConfirmed
  <2>12. CASE FetchPull(e)
    BY <2>12 DEF FetchPull, Reserve
  <2>13. CASE ReadEscrow(e)
    BY <2>13 DEF ReadEscrow, Reserve
  <2> QED
    BY <1>2, <2>1, <2>2, <2>3, <2>4, <2>5, <2>6, <2>7, <2>8, <2>9, <2>10, <2>11, <2>12, <2>13 DEF Handle
<1>3. CASE Crash
  BY <1>3 DEF Crash
<1>4. CASE World
  <2>1. ASSUME NEW e \in Call, Land(e) \/ Die(e) PROVE AtPlace(c)' /\ OfRow(c)'
    <3>1. CASE e = c
      BY <2>1, <3>1 DEF Land, Die
    <3>2. CASE e # c
      BY <2>1, <3>2 DEF Land, Die
    <3> QED BY <3>1, <3>2
  <2>2. CASE (\E b \in Bounty, r \in Recipient : EscrowAssign(b, r))
             \/ (\E b \in Bounty : EscrowUnassign(b) \/ EscrowRefund(b)) \/ NextDay
    BY <2>2 DEF EscrowAssign, EscrowUnassign, EscrowRefund, NextDay
  <2>3. ASSUME NEW p \in Pull, NEW how \in {"merged", "selfMerged"}, Merge(p, how)
        PROVE AtPlace(c)' /\ OfRow(c)'
    BY <2>3 DEF Merge
  <2> HIDE DEF Inductive, TypeOK, AtPlace, OfRow
  <2> QED BY <1>4, <2>1, <2>2, <2>3 DEF World
<1>5. CASE UNCHANGED vars
  BY <1>5 DEF vars
<1> QED BY <1>1, <1>2, <1>3, <1>4, <1>5 DEF Next

\* What a handler does to the transactions and to the answers: it sends its own,
\* and answers its own caller.
LEMMA HandleFrame ==
  ASSUME TypeOK, NEW e \in Call, Handle(e)
  PROVE  /\ net' = net \/ (pc[e] \in {"sending", "signing"} /\ net' = [net EXCEPT ![e] = "pending"])
         /\ \A c \in Call \ {e} : reply'[c] = reply[c]
<1>t. reply \in [Call -> {"none"} \cup Answered]
  BY DEF TypeOK
<1> USE <1>t DEF Goto, Answer, callVars, worldVars, journalVars
<1>1. CASE FetchFails(e) \/ ReadFails(e)
  BY <1>1 DEF FetchFails, ReadFails
<1>2. CASE PrepareFails(e) \/ SignFails(e)
  BY <1>2 DEF PrepareFails, SignFails
<1>3. ASSUME NEW next, Reserve(e, next) PROVE \A c \in Call \ {e} : reply'[c] = reply[c]
  BY <1>3 DEF Reserve
<1>4. CASE FetchPull(e)
  BY <1>4, <1>3 DEF FetchPull
<1>5. CASE ReadEscrow(e)
  BY <1>5, <1>3 DEF ReadEscrow
<1>6. CASE Prepare(e) \/ Broadcast(e)
  BY <1>6 DEF Prepare, Broadcast
<1>7. CASE SignAndSend(e) \/ OutcomeUnknown(e)
  BY <1>7 DEF SignAndSend, OutcomeUnknown
<1>8. CASE ConfirmPay(e) \/ MarkReleaseSent(e) \/ MarkReleaseConfirmed(e)
  BY <1>8 DEF ConfirmPay, MarkReleaseSent, MarkReleaseConfirmed
<1> QED BY <1>1, <1>2, <1>4, <1>5, <1>6, <1>7, <1>8 DEF Handle

\* A transaction that executed stays so.
LEMMA LandedStays ==
  ASSUME TypeOK, [Next]_vars, NEW d \in Call, net[d] = "landed", AtPlace(d)
  PROVE  net'[d] = "landed"
<1>t. net \in [Call -> {"none", "pending", "landed", "dead"}]
  BY DEF TypeOK
<1>1. ASSUME NEW e \in Call, NEW o, net' = [net EXCEPT ![e] = o], net[e] # "landed"
      PROVE  net'[d] = "landed"
  BY <1>1, <1>t
<1>2. ASSUME NEW e \in Call, Handle(e) PROVE net'[d] = "landed"
  <2>1. pc[d] \notin {"sending", "signing"}
    BY DEF AtPlace
  <2>2. net' = net \/ (e # d /\ net' = [net EXCEPT ![e] = "pending"])
    BY <1>2, <2>1, HandleFrame
  <2> QED BY <2>2, <1>t
<1>3. ASSUME NEW e \in Call, Land(e) \/ Die(e) PROVE net'[d] = "landed"
  BY <1>3, <1>1 DEF Land, Die
<1>4. CASE UNCHANGED net
  BY <1>4
<1> QED
  BY <1>2, <1>3, <1>4 DEF Next, Request, Crash, World, EscrowAssign, EscrowUnassign, EscrowRefund, Merge,
     NextDay, vars

\* A caller is told "ok" only of a payout whose transaction executed.
LEMMA OkStep == Inductive /\ [Next]_vars => OkMeansPaid'
<1> SUFFICES ASSUME Inductive, [Next]_vars, NEW c \in Call, reply'[c] = "ok"
             PROVE  \E d \in Call : net'[d] = "landed" /\ T(d)'.payout = T(c)'.payout
  BY DEF OkMeansPaid
<1> USE DEF Inductive, TypeOK, Waiting, Goto, Answer, T
<1>1. ASSUME NEW d \in Call, net[d] = "landed"
      PROVE  net'[d] = "landed" /\ approval'[d] = approval[d]
  <2>1. approval'[d] = approval[d]
    BY <1>1, JournalStep DEF KeepsRows, AtPlace, OfRow, Counted
  <2>2. net'[d] = "landed"
    BY <1>1, LandedStays
  <2> QED BY <2>1, <2>2
<1>2. CASE reply[c] = "ok"
  <2>1. approval'[c] = approval[c]
    BY <1>2, JournalStep DEF KeepsRows, AtPlace
  <2> QED BY <1>1, <1>2, <2>1 DEF OkMeansPaid
<1>3. CASE reply[c] # "ok"
  <2>1. CASE ConfirmPay(c)
    BY <2>1, <1>1 DEF ConfirmPay
  <2>2. CASE MarkReleaseConfirmed(c)
    BY <2>2, <1>1 DEF MarkReleaseConfirmed, AtPlace
  <2>3. ASSUME NEW next, Reserve(c, next), approval' = approval
        PROVE  \E d \in Call : net'[d] = "landed" /\ T(d)'.payout = T(c)'.payout
    BY <2>3, <1>1, <1>3 DEF Reserve, Existing, OfRow
  <2>4. \/ ConfirmPay(c) \/ MarkReleaseConfirmed(c)
        \/ approval' = approval /\ (Reserve(c, "preparing") \/ Reserve(c, "signing"))
    <3>1. ASSUME NEW e \in Call, Handle(e), e # c PROVE reply'[c] = reply[c]
      BY <3>1, HandleFrame
    <3>2. CASE FetchFails(c) \/ ReadFails(c) \/ PrepareFails(c) \/ Prepare(c) \/ Broadcast(c)
               \/ SignFails(c) \/ SignAndSend(c) \/ OutcomeUnknown(c) \/ MarkReleaseSent(c)
      BY <1>3, <3>2 DEF FetchFails, ReadFails, PrepareFails, Prepare, Broadcast, SignFails, SignAndSend,
         OutcomeUnknown, MarkReleaseSent
    <3>3. CASE FetchPull(c) \/ ReadEscrow(c)
      BY <1>3, <3>3 DEF FetchPull, ReadEscrow
    <3>4. CASE Crash \/ World \/ UNCHANGED vars
      BY <1>3, <3>4 DEF Crash, World, Land, Die, EscrowAssign, EscrowUnassign, EscrowRefund, Merge, NextDay,
         vars, callVars
    <3>5. ASSUME NEW e \in Call, NEW endpoint \in Route, NEW a \in Approval, Request(e, endpoint, a)
          PROVE  FALSE
      BY <1>3, <3>5 DEF Request
    <3> QED BY <1>3, <3>1, <3>2, <3>3, <3>4, <3>5 DEF Next, Handle
  <2> QED BY <2>1, <2>2, <2>3, <2>4
<1> QED BY <1>2, <1>3

LEMMA InductiveInit == Init => Inductive
<1> SUFFICES ASSUME Init PROVE Inductive
  OBVIOUS
<1>1. TypeOK
  BY DEF Init, TypeOK, Nobody, PullState
<1>2. \A c \in Call : AtPlace(c) /\ OfRow(c)
  BY DEF Init, AtPlace, OfRow, Waiting, Refusal
<1>3. RowsDiffer /\ OkMeansPaid
  BY DEF Init, RowsDiffer, OkMeansPaid
<1>4. RowsFit
  <2> SUFFICES ASSUME NEW ledger \in Currency \X BOOLEAN, NEW d \in 1 .. MaxDay
               PROVE  CommittedToday(ledger, d) <= DailyMax[ledger[1]]
    BY DEF RowsFit
  <2>1. CommittedUnits(ledger, d) = {}
    BY DEF Init, CommittedUnits, Counted
  <2> QED BY <2>1, FS_EmptySet DEF CommittedToday
<1> QED BY <1>1, <1>2, <1>3, <1>4 DEF Inductive

LEMMA InductiveStep == Inductive /\ [Next]_vars => Inductive'
BY TypeStep, PlaceStep, DifferStep, FitStep, OkStep DEF Inductive

\* The inductive invariant: every reachable state of the signer satisfies it.
THEOREM Invariant == Spec => []Inductive
BY InductiveInit, InductiveStep, PTL DEF Spec

-----------------------------------------------------------------------------
(* What follows from it.                                                   *)

\* A bounty, a payout and an approval are paid at most once, however requests
\* interleave, repeat, and are cut off by crashes.
THEOREM PaidAtMostOnce == Spec => []AtMostOnce
<1>1. Inductive => AtMostOnce
  BY DEF Inductive, AtMostOnce, MayPay, OfRow, Counted, RowsDiffer
<1> QED BY <1>1, Invariant, PTL

\* Every transaction that moved money or still can is counted in the journal.
THEOREM AlwaysAccounted == Spec => []Accounted
<1>1. Inductive => Accounted
  BY DEF Inductive, Accounted, MayPay, OfRow
<1> QED BY <1>1, Invariant, PTL

\* The money moved on the account of a day is within the currency's cap.
THEOREM CapHolds == Spec => []DailyCap
<1>1. ASSUME Inductive PROVE DailyCap
  <2> SUFFICES ASSUME NEW ledger \in Currency \X BOOLEAN, NEW d \in 1 .. MaxDay
               PROVE  Cardinality(SpendableUnits(ledger, d)) <= DailyMax[ledger[1]]
    BY DEF DailyCap
  <2>1. SpendableUnits(ledger, d) \subseteq CommittedUnits(ledger, d)
    BY <1>1 DEF SpendableUnits, CommittedUnits, MayPay, Inductive, OfRow
  <2>2. IsFiniteSet(CommittedUnits(ledger, d)) /\ CommittedToday(ledger, d) \in Nat
    BY <1>1, UnitsFinite DEF Inductive
  <2>3. /\ Cardinality(SpendableUnits(ledger, d)) <= CommittedToday(ledger, d)
        /\ Cardinality(SpendableUnits(ledger, d)) \in Nat
    BY <2>1, <2>2, FS_Subset, FS_CardinalityType DEF CommittedToday
  <2>4. CommittedToday(ledger, d) <= DailyMax[ledger[1]]
    BY <1>1 DEF Inductive, RowsFit
  <2>5. DailyMax[ledger[1]] \in Nat
    OBVIOUS
  <2> QED BY <2>2, <2>3, <2>4, <2>5
<1> QED BY <1>1, Invariant, PTL

\* A float transfer's signature is in the journal before it can execute.
THEOREM TraceableBeforeSent == Spec => []PayTraceable
<1>1. Inductive => PayTraceable
  BY DEF Inductive, PayTraceable, OfRow
<1> QED BY <1>1, Invariant, PTL

\* A refused request signed nothing.
THEOREM RefusedUnsent == Spec => []RefusalMeansUnsent
<1>1. Inductive => RefusalMeansUnsent
  BY DEF Inductive, RefusalMeansUnsent, OfRow
<1> QED BY <1>1, Invariant, PTL

\* A caller is told "ok" only of money that moved, for the payout it asked about.
THEOREM OkIsTrue == Spec => []OkMeansPaid
<1>1. Inductive => OkMeansPaid
  BY DEF Inductive
<1> QED BY <1>1, Invariant, PTL

\* Nothing is signed for a pull request that is not merged by somebody else.
THEOREM MergedFirst == Spec => []PaidOnlyIfMerged
<1>1. Inductive => PaidOnlyIfMerged
  BY DEF Inductive, PaidOnlyIfMerged, OfRow, Counted
<1> QED BY <1>1, Invariant, PTL

\* Rows only move forward, and what they were written with never changes.
THEOREM RowsOnlyMoveForward == Spec => JournalMonotone
<1>1. ASSUME Inductive, [Next]_vars, NEW c \in Call
      PROVE  /\ RowStep(c)
             /\ sig[c] => sig'[c]
             /\ row[c] # "none" => approval'[c] = approval[c] /\ day'[c] = day[c]
  <2>1. row[c] # "none" => approval'[c] = approval[c] /\ day'[c] = day[c]
    BY <1>1, JournalStep DEF KeepsRows, Inductive, AtPlace
  <2>2. RowStep(c) /\ (sig[c] => sig'[c])
    <3> USE <1>1 DEF Inductive, TypeOK, RowStep, AtPlace, Waiting, Goto, Answer, journalVars, worldVars
    <3>1. CASE \E e \in Call, endpoint \in Route, a \in Approval : Request(e, endpoint, a)
      BY <3>1 DEF Request
    <3>2. ASSUME NEW e \in Call, Handle(e) PROVE RowStep(c) /\ (sig[c] => sig'[c])
      <4>1. CASE FetchPull(e) \/ ReadEscrow(e)
        BY <4>1 DEF FetchPull, ReadEscrow, Reserve
      <4>2. CASE PrepareFails(e) \/ Prepare(e)
        BY <4>2 DEF PrepareFails, Prepare
      <4>3. CASE ConfirmPay(e) \/ MarkReleaseSent(e) \/ MarkReleaseConfirmed(e)
        BY <4>3 DEF ConfirmPay, MarkReleaseSent, MarkReleaseConfirmed, Route, TermsRecord, T
      <4>4. CASE FetchFails(e) \/ ReadFails(e) \/ Broadcast(e) \/ SignFails(e) \/ SignAndSend(e)
                 \/ OutcomeUnknown(e)
        BY <4>4 DEF FetchFails, ReadFails, Broadcast, SignFails, SignAndSend, OutcomeUnknown
      <4> QED BY <3>2, <4>1, <4>2, <4>3, <4>4 DEF Handle
    <3>3. CASE Crash \/ World
      BY <3>3 DEF Crash, World, Land, Die, EscrowAssign, EscrowUnassign, EscrowRefund, Merge, NextDay
    <3>4. CASE UNCHANGED vars
      BY <3>4 DEF vars
    <3> QED BY <3>1, <3>2, <3>3, <3>4 DEF Next
  <2> QED BY <2>1, <2>2
<1>2. Inductive /\ [Next]_vars => [RowsForward]_vars
  BY <1>1 DEF RowsForward
<1> QED BY <1>2, Invariant, PTL DEF Spec, JournalMonotone

-----------------------------------------------------------------------------
(* The signer implements PayOnce.                                          *)

heldBar    == [b \in Bounty |-> {c \in Call : row[c] # "none" /\ T(c).bounty = b}]
paidBar    == {c \in Call : net[c] = "landed"}
givenUpBar == {b \in Bounty : \E c \in Call : row[c] = "failed_unsent" /\ T(c).bounty = b}

\* A new row is a hold of its bounty.
LEMMA InsertIsHold ==
  ASSUME Inductive, NEW c \in Call, Inserts(c), net' = net,
         NEW bounty \in Bounty, bounty = T(c).bounty
  PROVE  Once!Hold(bounty, c)
<1> USE DEF Inductive, TypeOK, Inserts, T
<1>1. ASSUME NEW e \in Call, row[e] # "none" PROVE T(e).bounty # bounty
  BY <1>1 DEF Existing
<1>7. \A e \in Call : (row'[e] # "none" <=> e = c \/ row[e] # "none") /\ T(e)' = T(e)
  OBVIOUS
<1>2. ASSUME NEW b \in Bounty
      PROVE  heldBar'[b] = IF b = bounty THEN {c} ELSE heldBar[b]
  <2> HIDE DEF Inductive, TypeOK, Inserts, T
  <2>1. CASE b = bounty
    BY <1>1, <1>7, <2>1 DEF heldBar
  <2>2. CASE b # bounty
    <3>1. heldBar' = [d \in Bounty |-> {e \in Call : row'[e] # "none" /\ T(e)'.bounty = d}]
      BY DEF heldBar
    <3>2. \A e \in Call : T(e)'.bounty = T(e).bounty
      BY <1>7
    <3>3. T(c).bounty = bounty
      OBVIOUS
    <3> QED BY <1>7, <2>2, <3>1, <3>2, <3>3 DEF heldBar
  <2> QED BY <2>1, <2>2
<1>3. heldBar' = [heldBar EXCEPT ![bounty] = {c}]
  <2>1. heldBar' = [b \in Bounty |-> heldBar'[b]] /\ heldBar = [b \in Bounty |-> heldBar[b]]
    BY DEF heldBar
  <2> HIDE DEF Inductive, TypeOK, Inserts, T
  <2> QED BY <1>2, <2>1
<1>4. heldBar[bounty] = {} /\ \A b \in Bounty : c \notin heldBar[b]
  BY <1>1 DEF heldBar
<1>5. paidBar' = paidBar
  BY DEF paidBar
<1>6. givenUpBar' = givenUpBar
  BY DEF givenUpBar
<1> QED BY <1>3, <1>4, <1>5, <1>6 DEF Once!Hold, heldBar, paidBar, givenUpBar

\* A step that neither inserts a row nor lands nor fails one is a stutter.
LEMMA QuietStutters ==
  ASSUME Inductive, KeepsRows, InsertsNothing, net' = net,
         \A c \in Call : row[c] = "failed_unsent" <=> row'[c] = "failed_unsent"
  PROVE  UNCHANGED <<heldBar, paidBar, givenUpBar>>
<1> USE DEF Inductive, TypeOK, KeepsRows, InsertsNothing, T, AtPlace
<1>1. \A c \in Call : (row[c] # "none" <=> row'[c] # "none")
                     /\ (row[c] # "none" => approval'[c] = approval[c])
  OBVIOUS
<1>2. \A b \in Bounty : heldBar'[b] = heldBar[b]
  BY <1>1 DEF heldBar
<1>3. heldBar' = heldBar
  BY <1>2 DEF heldBar
<1>4. paidBar' = paidBar
  BY DEF paidBar
<1>5. givenUpBar' = givenUpBar
  BY <1>1 DEF givenUpBar
<1> QED BY <1>3, <1>4, <1>5

\* A transaction that executes pays the transfer its bounty is held for.
LEMMA LandPays ==
  ASSUME Inductive, NEW c \in Call, Land(c), NEW bounty \in Bounty, bounty = T(c).bounty
  PROVE  Once!Pay(bounty)
<1> USE DEF Inductive, TypeOK, Land, callVars, journalVars, T
<1>1. row[c] # "none" /\ row[c] # "failed_unsent"
  BY DEF OfRow, Counted
<1>2. c \in heldBar[bounty] /\ heldBar' = heldBar
  BY <1>1 DEF heldBar
<1>3. c \notin paidBar /\ paidBar' = paidBar \cup {c}
  BY DEF paidBar
<1>4. bounty \notin givenUpBar /\ givenUpBar' = givenUpBar
  BY <1>1 DEF givenUpBar, RowsDiffer
<1> QED BY <1>2, <1>3, <1>4 DEF Once!Pay, heldBar, paidBar, givenUpBar

\* A row marked failed_unsent gives its bounty up.
LEMMA FailureGivesUp ==
  ASSUME Inductive, NEW c \in Call, PrepareFails(c), NEW bounty \in Bounty, bounty = T(c).bounty
  PROVE  Once!GiveUp(bounty)
<1> USE DEF Inductive, TypeOK, PrepareFails, T
<1>1. row[c] = "reserved" /\ net[c] = "none"
  BY DEF AtPlace
<1>2. c \in heldBar[bounty]
  BY <1>1 DEF heldBar
<1>3. \A b \in Bounty : heldBar'[b] = heldBar[b]
  BY <1>1 DEF heldBar
<1>4. heldBar' = heldBar
  BY <1>3 DEF heldBar
<1>5. paidBar' = paidBar
  BY DEF paidBar
<1>6. heldBar[bounty] \cap paidBar = {}
  BY <1>1 DEF heldBar, paidBar, RowsDiffer
<1>7. bounty \notin givenUpBar
  BY <1>1 DEF givenUpBar, RowsDiffer
<1>8. givenUpBar' = givenUpBar \cup {bounty}
  BY <1>1 DEF givenUpBar
<1> QED BY <1>2, <1>4, <1>5, <1>6, <1>7, <1>8 DEF Once!GiveUp, heldBar, paidBar, givenUpBar

\* Every step of the signer is a step of PayOnce, or leaves its state alone.
LEMMA StepRefines == Inductive /\ [Next]_vars => [Once!Next]_(Once!vars)
<1> SUFFICES ASSUME Inductive, [Next]_vars
             PROVE  Once!Next \/ UNCHANGED <<heldBar, paidBar, givenUpBar>>
  BY DEF Once!vars, heldBar, paidBar, givenUpBar
<1>1. KeepsRows /\ (InsertsNothing \/ \E c \in Call : Inserts(c))
  BY JournalStep
<1>2. ASSUME NEW c \in Call, Land(c) PROVE Once!Next
  <2>1. T(c).bounty \in Bounty
    BY <1>2 DEF Land, T, TermsRecord, Inductive, TypeOK, AtPlace, OfRow, Counted
  <2>2. PICK b \in Bounty : b = T(c).bounty
    BY <2>1
  <2> QED BY <1>2, <2>2, LandPays DEF Once!Next
<1>3. ASSUME NEW c \in Call, PrepareFails(c) PROVE Once!Next
  <2>1. T(c).bounty \in Bounty
    BY <1>3 DEF PrepareFails, T, TermsRecord, Inductive, TypeOK, AtPlace
  <2>2. PICK b \in Bounty : b = T(c).bounty
    BY <2>1
  <2> QED BY <1>3, <2>2, FailureGivesUp DEF Once!Next
<1>4. CASE \E c \in Call : Die(c)
  <2>1. UNCHANGED <<row, approval>> /\ paidBar' = paidBar
    BY <1>4 DEF Die, callVars, journalVars, paidBar, Inductive, TypeOK
  <2>2. heldBar' = heldBar /\ givenUpBar' = givenUpBar
    BY <2>1 DEF heldBar, givenUpBar, T
  <2> QED BY <2>1, <2>2
<1>5. CASE \E c \in Call : Broadcast(c) \/ SignAndSend(c)
  <2>1. UNCHANGED <<row, approval>> /\ paidBar' = paidBar
    BY <1>5 DEF Broadcast, SignAndSend, journalVars, paidBar, Inductive, TypeOK, AtPlace
  <2>2. heldBar' = heldBar /\ givenUpBar' = givenUpBar
    BY <2>1 DEF heldBar, givenUpBar, T
  <2> QED BY <2>1, <2>2
<1>6. CASE \A c \in Call : ~Land(c) /\ ~PrepareFails(c) /\ ~Die(c) /\ ~Broadcast(c) /\ ~SignAndSend(c)
  <2>1. net' = net
    BY <1>6 DEF Next, Request, Handle, Crash, World, EscrowAssign, EscrowUnassign, EscrowRefund,
       Merge, NextDay, FetchFails, FetchPull, ReadFails, ReadEscrow, Prepare, SignFails,
       OutcomeUnknown, ConfirmPay, MarkReleaseSent, MarkReleaseConfirmed, vars
  <2>2. ASSUME NEW c \in Call, Inserts(c) PROVE Once!Next
    <3>1. T(c).bounty \in Bounty
      BY <2>2 DEF Inserts, T, TermsRecord
    <3>2. PICK b \in Bounty : b = T(c).bounty
      BY <3>1
    <3> QED BY <2>1, <2>2, <3>2, InsertIsHold DEF Once!Next
  <2>3. CASE InsertsNothing
    <3>1. \A c \in Call : row[c] = "failed_unsent" <=> row'[c] = "failed_unsent"
      BY <1>6 DEF Next, Request, Handle, Crash, World, EscrowAssign, EscrowUnassign, EscrowRefund,
         Merge, NextDay, FetchFails, FetchPull, ReadFails, ReadEscrow, Reserve, Prepare, SignFails,
         OutcomeUnknown, ConfirmPay, MarkReleaseSent, MarkReleaseConfirmed, vars, callVars,
         journalVars, Inductive, TypeOK, AtPlace, Waiting
    <3> QED BY <1>1, <2>1, <2>3, <3>1, QuietStutters
  <2> QED BY <1>1, <2>2, <2>3
<1> QED BY <1>2, <1>3, <1>4, <1>5, <1>6

\* The payout signer, both routes and their crashes included, pays as PayOnce
\* promises.
THEOREM ImplementsPayOnce == Spec => PaysOnce
<1>1. Init => Once!Init
  <2> SUFFICES ASSUME Init PROVE heldBar = [b \in Bounty |-> {}] /\ paidBar = {} /\ givenUpBar = {}
    BY DEF Once!Init, heldBar, paidBar, givenUpBar
  <2> QED BY DEF Init, heldBar, paidBar, givenUpBar
<1> QED BY <1>1, StepRefines, Invariant, PTL DEF Spec, PaysOnce, Once!Spec
=============================================================================
