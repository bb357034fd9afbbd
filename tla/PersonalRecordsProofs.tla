------------------------- MODULE PersonalRecordsProofs -------------------------
(***************************************************************************)
(* Proofs about PersonalRecords, for any accounts, wallets, people and     *)
(* bounds: whoever is erased and whatever the retention job removes, a     *)
(* payment has been reported to the backend, or its report is still there. *)
(***************************************************************************)
EXTENDS PersonalRecords, FiniteSetTheorems, TLAPS

-----------------------------------------------------------------------------
(* The outbox.                                                             *)

\* A row is added, or was there: nothing else changes, and nothing new is delivered.
LEMMA EnqueuedRows ==
  ASSUME outbox \subseteq OutboxRow, IsFiniteSet(outbox), NEW a \in Account, NEW kind \in Kinds,
         NEW box, box = Enqueued(outbox, a, kind)
  PROVE  /\ box \subseteq OutboxRow /\ IsFiniteSet(box) /\ outbox \subseteq box
         /\ \E r \in box : r.msg = Msg(a, kind)
         /\ \A r \in box : r.delivered => r \in outbox
<1>1. CASE \E r \in outbox : r.msg = Msg(a, kind)
  BY <1>1 DEF Enqueued
<1>2. CASE ~\E r \in outbox : r.msg = Msg(a, kind)
  <2> DEFINE new == [msg |-> Msg(a, kind), turn |-> Cardinality(outbox) + 1, attempts |-> 0, delivered |-> FALSE]
  <2>1. Cardinality(outbox) \in Nat
    BY FS_CardinalityType
  <2>2. new \in OutboxRow
    BY <2>1 DEF OutboxRow, Msg, Message
  <2>3. box = outbox \cup {new}
    BY <1>2 DEF Enqueued
  <2>5. new.msg = Msg(a, kind) /\ ~new.delivered
    OBVIOUS
  <2> HIDE DEF new
  <2>4. IsFiniteSet(box)
    <3>1. IsFiniteSet(outbox \cup {new})
      BY FS_AddElement
    <3> QED BY <2>3, <3>1
  <2> QED BY <2>2, <2>3, <2>4, <2>5
<1> QED BY <1>1, <1>2

\* Counting the places again changes neither what a message is nor whether it is delivered.
LEMMA LeftRows ==
  ASSUME NEW box, box \subseteq OutboxRow, IsFiniteSet(box)
  PROVE  /\ Left(box) \subseteq OutboxRow /\ IsFiniteSet(Left(box))
         /\ \A r \in box : \E q \in Left(box) : q.msg = r.msg
         /\ \A q \in Left(box) : \E r \in box : q.msg = r.msg /\ q.delivered = r.delivered
<1> DEFINE place(r) == Cardinality({q \in box : q.turn <= r.turn})
           f == [r \in box |-> [r EXCEPT !.turn = place(r)]]
<1>1. ASSUME NEW r \in box PROVE place(r) \in Nat
  <2>1. {q \in box : q.turn <= r.turn} \subseteq box
    OBVIOUS
  <2> QED BY <2>1, FS_Subset, FS_CardinalityType
<1>2. ASSUME NEW r \in box
      PROVE  f[r] \in OutboxRow /\ f[r].msg = r.msg /\ f[r].delivered = r.delivered
  <2> HIDE DEF place
  <2> QED BY <1>1, <1>2 DEF OutboxRow
<1>3. Left(box) = {f[r] : r \in box}
  BY DEF Left
<1>4. f \in Surjection(box, Left(box))
  <2> HIDE DEF place
  <2>1. f \in [box -> Left(box)]
    BY <1>3
  <2> HIDE DEF f
  <2> QED BY <1>3, <2>1 DEF Surjection
<1>5. IsFiniteSet(Left(box))
  BY <1>4, FS_Surjection
<1> HIDE DEF f
<1> QED BY <1>2, <1>3, <1>5

\* Stamping what a sender posted.
LEMMA StampedRows ==
  ASSUME TypeOK, NEW s \in Sender, sending[s].at # "idle", NEW box,
         box = {IF r.msg = sending[s].msg /\ ~r.delivered THEN Stamped(r, sending[s].at) ELSE r : r \in outbox}
  PROVE  /\ box \subseteq OutboxRow /\ IsFiniteSet(box)
         /\ \A r \in outbox : \E q \in box : q.msg = r.msg
         /\ \A q \in box : \E r \in outbox :
              q.msg = r.msg /\ (q.delivered => r.delivered \/ (sending[s].at = "ok" /\ q.msg = sending[s].msg))
<1> DEFINE to(r) == IF r.msg = sending[s].msg /\ ~r.delivered THEN Stamped(r, sending[s].at) ELSE r
           f == [r \in outbox |-> to(r)]
<1>0. outbox \subseteq OutboxRow /\ IsFiniteSet(outbox) /\ MaxAttempts \in Nat /\ sending[s].at \in {"ok", "lost", "refused"}
  BY PersonalRecordsConstants DEF TypeOK, Idle
<1>1. ASSUME NEW r \in OutboxRow, NEW answer \in {"ok", "lost", "refused"}
      PROVE  /\ Stamped(r, answer) \in OutboxRow /\ Stamped(r, answer).msg = r.msg
             /\ Stamped(r, answer).delivered => r.delivered \/ answer = "ok"
  <2>1. CASE answer = "ok"
    BY <2>1 DEF Stamped, OutboxRow
  <2>2. CASE answer = "lost"
    BY <2>2 DEF Stamped, OutboxRow
  <2>3. CASE answer = "refused"
    BY <1>0, <2>3 DEF Stamped, OutboxRow
  <2> QED BY <2>1, <2>2, <2>3
<1>2. ASSUME NEW r \in outbox
      PROVE  /\ f[r] \in OutboxRow /\ f[r].msg = r.msg
             /\ f[r].delivered => r.delivered \/ (sending[s].at = "ok" /\ f[r].msg = sending[s].msg)
  BY <1>0, <1>1
<1>3. box = {f[r] : r \in outbox}
  OBVIOUS
<1>4. f \in Surjection(outbox, box)
  <2> HIDE DEF to
  <2>1. f \in [outbox -> box]
    BY <1>3
  <2> HIDE DEF f
  <2> QED BY <1>3, <2>1 DEF Surjection
<1>5. IsFiniteSet(box)
  BY <1>0, <1>4, FS_Surjection
<1> HIDE DEF f, to
<1>6. box \subseteq OutboxRow
  BY <1>2, <1>3
<1>7. \A r \in outbox : \E q \in box : q.msg = r.msg
  BY <1>2, <1>3
<1>8. ASSUME NEW q \in box
      PROVE  \E r \in outbox : q.msg = r.msg /\ (q.delivered => r.delivered \/ (sending[s].at = "ok" /\ q.msg = sending[s].msg))
  <2>1. PICK r \in outbox : q = f[r]
    BY <1>3
  <2> QED BY <1>2, <2>1
<1> QED BY <1>5, <1>6, <1>7, <1>8

-----------------------------------------------------------------------------
(* Which actions write what.                                               *)

\* Bounties, statements and payments put messages in the outbox and take none out.
LEMMA MailGrows ==
  ASSUME TypeOK, NEW a \in Account, Bounty(a) \/ Listed(a) \/ Settle(a)
  PROVE  /\ outbox' \subseteq OutboxRow /\ IsFiniteSet(outbox') /\ outbox \subseteq outbox'
         /\ \A r \in outbox' : r.delivered => r \in outbox
<1>1. outbox' = outbox \/ \E kind \in Kinds : outbox' = Enqueued(outbox, a, kind)
  BY DEF Bounty, Listed, Settle, Kinds
<1>2. outbox \subseteq OutboxRow /\ IsFiniteSet(outbox)
  BY DEF TypeOK
<1>3. CASE outbox' = outbox
  BY <1>2, <1>3
<1>4. CASE \E kind \in Kinds : outbox' = Enqueued(outbox, a, kind)
  <2>1. PICK kind \in Kinds : outbox' = Enqueued(outbox, a, kind)
    BY <1>4
  <2> QED BY <1>2, <2>1, EnqueuedRows
<1> QED BY <1>1, <1>3, <1>4

LEMMA SendFacts ==
  ASSUME TypeOK, NEW s \in Sender, Send(s)
  PROVE  \E m \in Message, at \in {"ok", "lost", "refused"} :
           /\ sending' = [sending EXCEPT ![s] = [at |-> at, msg |-> m]]
           /\ received \subseteq received' /\ received' \subseteq received \cup {m}
           /\ at = "ok" /\ m.kind = "paid" => m \in received'
<1>1. PICK r \in Oldest(s), answer \in {"ok", "lost", "refused"} :
        LET m   == r.msg
            got == IF m.kind = "paid" THEN received \cup {m} ELSE received
        IN
        /\ sending' = [sending EXCEPT ![s] = [at |-> answer, msg |-> m]]
        /\ received' \in CASE answer = "ok" -> {got} [] answer = "lost" -> {received, got} [] OTHER -> {received}
  BY DEF Send
<1>2. r.msg \in Message
  BY DEF Oldest, Undelivered, TypeOK, OutboxRow
<1>3. CASE answer = "ok"
  BY <1>1, <1>2, <1>3
<1>4. CASE answer = "lost"
  BY <1>1, <1>2, <1>4
<1>5. CASE answer = "refused"
  BY <1>1, <1>2, <1>5
<1> QED BY <1>3, <1>4, <1>5

-----------------------------------------------------------------------------
(* Types.                                                                  *)

LEMMA TypeStep == TypeOK /\ [Next]_vars => TypeOK'
<1> SUFFICES ASSUME TypeOK, [Next]_vars PROVE TypeOK'
  OBVIOUS
<1>a. Applicant \subseteq Account /\ Winner \subseteq Account /\ Leaver \subseteq Account
  BY PersonalRecordsConstants
<1>1. ASSUME NEW a \in Account, NEW x \in Wallet, Link(a, x) PROVE TypeOK'
  BY <1>1 DEF Link, TypeOK, paidVars, mailVars, goneVars
<1>2. ASSUME NEW a \in Account, Bounty(a) PROVE TypeOK'
  <2>1. work' \in [Account -> {"none", "applied", "assigned", "unpaid"}]
    BY <1>2 DEF Bounty, Move, TypeOK
  <2>2. UNCHANGED <<row, ledger, received, sending>>
    BY <1>2 DEF Bounty, Move
  <2>3. UNCHANGED <<link, goneVars>>
    BY <1>2 DEF Bounty
  <2> QED BY <1>2, <2>1, <2>2, <2>3, MailGrows DEF TypeOK, goneVars
<1>3. ASSUME NEW a \in Account, Listed(a) PROVE TypeOK'
  <2>1. row' \in [Account -> Winnings]
    BY <1>3 DEF Listed, Set, TypeOK, Winnings
  <2>2. UNCHANGED <<link, work, ledger, received, sending, goneVars>>
    BY <1>3 DEF Listed
  <2> QED BY <1>3, <2>1, <2>2, MailGrows DEF TypeOK, goneVars
<1>4. ASSUME NEW a \in Account, Settle(a) PROVE TypeOK'
  <2>1. row' \in [Account -> Winnings]
    BY <1>4 DEF Settle, Set, TypeOK, Winnings
  <2>2. UNCHANGED <<link, work, received, sending, goneVars>> /\ ledger' \subseteq Account
    BY <1>4 DEF Settle, TypeOK
  <2> QED BY <1>4, <2>1, <2>2, MailGrows DEF TypeOK, goneVars
<1>5. ASSUME NEW s \in Sender, Send(s) PROVE TypeOK'
  <2>1. PICK m \in Message, at \in {"ok", "lost", "refused"} :
          /\ sending' = [sending EXCEPT ![s] = [at |-> at, msg |-> m]]
          /\ received' \subseteq received \cup {m}
    BY <1>5, SendFacts
  <2>2. received' \subseteq Message
    BY <2>1 DEF TypeOK
  <2>3. sending' \in [Sender -> {Idle} \cup [at : {"ok", "lost", "refused"}, msg : Message]]
    BY <2>1 DEF TypeOK
  <2> QED BY <1>5, <2>2, <2>3 DEF Send, TypeOK, paidVars, goneVars
<1>6. ASSUME NEW s \in Sender, Stamp(s) PROVE TypeOK'
  <2>1. outbox' \subseteq OutboxRow /\ IsFiniteSet(outbox')
    <3>1. /\ sending[s].at # "idle"
          /\ outbox' = {IF r.msg = sending[s].msg /\ ~r.delivered THEN Stamped(r, sending[s].at) ELSE r : r \in outbox}
      BY <1>6 DEF Stamp
    <3> QED BY <3>1, StampedRows
  <2>2. sending' \in [Sender -> {Idle} \cup [at : {"ok", "lost", "refused"}, msg : Message]]
    BY <1>6 DEF Stamp, TypeOK
  <2> QED BY <1>6, <2>1, <2>2 DEF Stamp, TypeOK, paidVars, goneVars
<1>7. ASSUME NEW a \in Account, EraseRequest(a) PROVE TypeOK'
  <2>1. erasing' \in {Idle} \cup [at : {"read"}, account : Account, keep : BOOLEAN, retained : BOOLEAN]
    BY <1>7 DEF EraseRequest, EraseRead, NeedsLink, Busy
  <2> QED BY <1>7, <2>1 DEF EraseRequest, EraseRead, TypeOK, paidVars, mailVars
<1>8. ASSUME EraseCommit PROVE TypeOK'
  <2> DEFINE a == erasing.account
  <2>1. a \in Account
    BY <1>8 DEF EraseCommit, TypeOK, Idle
  <2>2. outbox' \subseteq OutboxRow /\ IsFiniteSet(outbox')
    <3> DEFINE box == {r \in outbox : ~GoesWith(r.msg, a)}
    <3>1. box \subseteq OutboxRow /\ IsFiniteSet(box)
      BY FS_Subset DEF TypeOK
    <3>2. outbox' = Left(box)
      BY <1>8 DEF EraseCommit
    <3> HIDE DEF box
    <3> QED BY <3>1, <3>2, LeftRows
  <2>3. link' \in [Account -> Wallet \cup {NoWallet}]
    BY <1>8 DEF EraseCommit, TypeOK
  <2>4. work' \in [Account -> {"none", "applied", "assigned", "unpaid"}]
    BY <1>8 DEF EraseCommit, TypeOK
  <2>5. erasure' \in [Account -> {"none", "retained", "done"}]
    BY <1>8 DEF EraseCommit, TypeOK
  <2>6. erasing' = Idle /\ UNCHANGED <<row, ledger, received, sending, plan>>
    BY <1>8 DEF EraseCommit
  <2> QED BY <2>2, <2>3, <2>4, <2>5, <2>6 DEF TypeOK
<1>9. ASSUME RetentionPlan PROVE TypeOK'
  <2>1. plan' \in [at : {"planned"}, accounts : SUBSET Account, rows : [Account -> Winnings]]
    BY <1>9 DEF RetentionPlan, TypeOK
  <2> QED BY <1>9, <2>1 DEF RetentionPlan, TypeOK, paidVars, mailVars
<1>10. ASSUME RetentionAct PROVE TypeOK'
  <2>1. CASE UNCHANGED <<row, outbox>>
    BY <1>10, <2>1 DEF RetentionAct, TypeOK
  <2>2. CASE ~UNCHANGED <<row, outbox>>
    <3> DEFINE box == {r \in outbox : ~(r.msg.account \in plan.accounts /\ r.msg.kind # "event")}
    <3>1. box \subseteq OutboxRow /\ IsFiniteSet(box)
      BY FS_Subset DEF TypeOK
    <3>2. outbox' = Left(box)
          /\ row' = [a \in Account |-> IF a \in plan.accounts THEN [status |-> "none", recipient |-> NoWallet] ELSE row[a]]
      BY <1>10, <2>2 DEF RetentionAct
    <3> HIDE DEF box
    <3>3. outbox' \subseteq OutboxRow /\ IsFiniteSet(outbox')
      BY <3>1, <3>2, LeftRows
    <3>4. row' \in [Account -> Winnings]
      BY <3>2 DEF TypeOK, Winnings
    <3> QED BY <1>10, <3>3, <3>4 DEF RetentionAct, TypeOK
  <2> QED BY <2>1, <2>2
<1>11. ASSUME Crash PROVE TypeOK'
  BY <1>11 DEF Crash, TypeOK, paidVars
<1>12. CASE UNCHANGED vars
  BY <1>12 DEF TypeOK, vars, paidVars, mailVars, goneVars
<1> QED BY <1>a, <1>1, <1>2, <1>3, <1>4, <1>5, <1>6, <1>7, <1>8, <1>9, <1>10, <1>11, <1>12 DEF Next, Retention

-----------------------------------------------------------------------------
(* Reports and payments.                                                   *)

\* A row that says paid is changed by the retention job alone, and becomes one together
\* with the entry of the public ledger and the report.
LEMMA WhoPays ==
  ASSUME TypeOK, NEW a \in Account, Bounty(a) \/ Listed(a) \/ Settle(a)
  PROVE  /\ UNCHANGED <<received, sending, plan>> /\ ledger \subseteq ledger' /\ ledger' \subseteq ledger \cup {a}
         /\ \A b \in Account : row[b].status = "paid" \/ b # a => row'[b] = row[b]
         /\ row'[a].status = "paid" => row[a].status = "paid" \/ a \in ledger'
         /\ a \in ledger' => a \in ledger \/ (row'[a].status = "paid" /\ \E r \in outbox' : r.msg = Msg(a, "paid"))
<1>a. row \in [Account -> Winnings] /\ outbox \subseteq OutboxRow /\ IsFiniteSet(outbox)
  BY DEF TypeOK
<1>1. CASE Bounty(a)
  BY <1>1 DEF Bounty, Move, goneVars
<1>2. CASE Listed(a)
  BY <1>a, <1>2 DEF Listed, Set, goneVars
<1>3. CASE Settle(a)
  <2>1. CASE ledger' = ledger /\ \E to \in {"submitted", "awaiting_wallet", "awaiting_approval", "failed"} : \E x : Set(a, to, x)
    BY <1>a, <1>3, <2>1 DEF Settle, Set, goneVars
  <2>2. CASE Set(a, "paid", row[a].recipient) /\ ledger' = ledger \cup {a} /\ outbox' = Enqueued(outbox, a, "paid")
    <3>1. \E r \in outbox' : r.msg = Msg(a, "paid")
      BY <1>a, <2>2, EnqueuedRows DEF Kinds
    <3> QED BY <1>a, <1>3, <2>2, <3>1 DEF Settle, Set, goneVars
  <2> QED BY <1>3, <2>1, <2>2 DEF Settle
<1> QED BY <1>1, <1>2, <1>3

LEMMA DeliveredStep == Inductive /\ [Next]_vars => DeliveredIsReceived'
<1> SUFFICES ASSUME Inductive, [Next]_vars PROVE DeliveredIsReceived'
  OBVIOUS
<1>a. TypeOK /\ DeliveredIsReceived
  BY DEF Inductive
<1>b. Applicant \subseteq Account /\ Winner \subseteq Account /\ Leaver \subseteq Account
  BY PersonalRecordsConstants
<1>1. CASE UNCHANGED mailVars
  BY <1>a, <1>1 DEF DeliveredIsReceived, mailVars
<1>2. ASSUME NEW a \in Account, Bounty(a) \/ Listed(a) \/ Settle(a) PROVE DeliveredIsReceived'
  BY <1>a, <1>2, MailGrows, WhoPays DEF DeliveredIsReceived
<1>3. ASSUME NEW s \in Sender, Send(s) PROVE DeliveredIsReceived'
  <2>1. PICK m \in Message, at \in {"ok", "lost", "refused"} :
          /\ sending' = [sending EXCEPT ![s] = [at |-> at, msg |-> m]]
          /\ received \subseteq received' /\ (at = "ok" /\ m.kind = "paid" => m \in received')
    BY <1>a, <1>3, SendFacts
  <2>2. outbox' = outbox
    BY <1>3 DEF Send
  <2>3. ASSUME NEW t \in Sender, sending'[t].at = "ok", sending'[t].msg.kind = "paid"
        PROVE  sending'[t].msg \in received'
    <3>1. sending'[t] = IF t = s THEN [at |-> at, msg |-> m] ELSE sending[t]
      BY <1>a, <2>1 DEF TypeOK
    <3>2. CASE t = s
      BY <2>1, <2>3, <3>1, <3>2
    <3>3. CASE t # s
      BY <1>a, <2>1, <2>3, <3>1, <3>3 DEF DeliveredIsReceived
    <3> QED BY <3>2, <3>3
  <2> QED BY <1>a, <2>1, <2>2, <2>3 DEF DeliveredIsReceived
<1>4. ASSUME NEW s \in Sender, Stamp(s) PROVE DeliveredIsReceived'
  <2>1. \A q \in outbox' : \E r \in outbox :
          q.msg = r.msg /\ (q.delivered => r.delivered \/ (sending[s].at = "ok" /\ q.msg = sending[s].msg))
    <3>1. /\ sending[s].at # "idle"
          /\ outbox' = {IF r.msg = sending[s].msg /\ ~r.delivered THEN Stamped(r, sending[s].at) ELSE r : r \in outbox}
      BY <1>4 DEF Stamp
    <3> QED BY <1>a, <3>1, StampedRows
  <2>2. received' = received /\ \A t \in Sender : sending'[t] = sending[t] \/ sending'[t] = Idle
    BY <1>a, <1>4 DEF Stamp, TypeOK
  <2>3. Idle.at # "ok"
    BY DEF Idle
  <2> QED BY <1>a, <2>1, <2>2, <2>3 DEF DeliveredIsReceived
<1>5. ASSUME NEW box, box \subseteq outbox, outbox' = Left(box), UNCHANGED <<received, sending>>
      PROVE  DeliveredIsReceived'
  <2>1. box \subseteq OutboxRow /\ IsFiniteSet(box)
    BY <1>a, <1>5, FS_Subset DEF TypeOK
  <2> QED BY <1>a, <1>5, <2>1, LeftRows DEF DeliveredIsReceived
<1>6. ASSUME EraseCommit PROVE DeliveredIsReceived'
  BY <1>5, <1>6 DEF EraseCommit
<1>7. ASSUME RetentionAct PROVE DeliveredIsReceived'
  <2>1. CASE UNCHANGED <<row, outbox>>
    BY <1>1, <1>7, <2>1 DEF RetentionAct, mailVars
  <2>2. CASE outbox' = Left({r \in outbox : ~(r.msg.account \in plan.accounts /\ r.msg.kind # "event")})
    BY <1>5, <1>7, <2>2 DEF RetentionAct
  <2> QED BY <1>7, <2>1, <2>2 DEF RetentionAct
<1>8. ASSUME Crash PROVE DeliveredIsReceived'
  <2>1. Idle.at # "ok"
    BY DEF Idle
  <2>2. \A t \in Sender : sending'[t] = Idle
    BY <1>8 DEF Crash
  <2> QED BY <1>a, <1>8, <2>1, <2>2 DEF DeliveredIsReceived, Crash
<1>9. ASSUME NEW a \in Account, NEW x \in Wallet, Link(a, x) PROVE UNCHANGED mailVars
  BY <1>9 DEF Link
<1>10. ASSUME NEW a \in Account, EraseRequest(a) PROVE UNCHANGED mailVars
  BY <1>10 DEF EraseRequest, EraseRead
<1>11. RetentionPlan => UNCHANGED mailVars
  BY DEF RetentionPlan
<1>12. UNCHANGED vars => UNCHANGED mailVars
  BY DEF vars
<1> QED BY <1>b, <1>1, <1>2, <1>3, <1>4, <1>6, <1>7, <1>8, <1>9, <1>10, <1>11, <1>12 DEF Next, Retention

\* What happens to payments and to what was planned, in any step but the retention job's own.
LEMMA PaymentsStep ==
  ASSUME Inductive, [Next]_vars, ~RetentionAct, ~RetentionPlan
  PROVE  (PaidIsBooked /\ PaymentIsReported /\ ForgottenIsKnown /\ PlanIsSettled)'
<1>a. TypeOK /\ PaidIsBooked /\ PaymentIsReported /\ ForgottenIsKnown /\ PlanIsSettled
  BY DEF Inductive
<1>b. Applicant \subseteq Account /\ Winner \subseteq Account /\ Leaver \subseteq Account /\ ledger \subseteq Account
  BY <1>a, PersonalRecordsConstants DEF TypeOK
<1>c. outbox \subseteq OutboxRow /\ IsFiniteSet(outbox)
  BY <1>a DEF TypeOK
<1> DEFINE Reports(box) == {a \in Account : \E r \in box : r.msg = Msg(a, "paid")}
<1>1. ASSUME UNCHANGED <<row, ledger>>, plan' = plan \/ plan' = NoPlan, received \subseteq received', Reports(outbox) \subseteq Reports(outbox')
      PROVE  (PaidIsBooked /\ PaymentIsReported /\ ForgottenIsKnown /\ PlanIsSettled)'
  <2>1. \A a \in ledger : Msg(a, "paid") \in received' \/ \E r \in outbox' : r.msg = Msg(a, "paid")
    BY <1>a, <1>b, <1>1 DEF PaymentIsReported
  <2> QED BY <1>a, <1>1, <2>1 DEF PaidIsBooked, PaymentIsReported, ForgottenIsKnown, PlanIsSettled
<1>2. ASSUME NEW a \in Account, Bounty(a) \/ Listed(a) \/ Settle(a)
      PROVE  (PaidIsBooked /\ PaymentIsReported /\ ForgottenIsKnown /\ PlanIsSettled)'
  <2>1. outbox \subseteq outbox'
    BY <1>a, <1>2, MailGrows
  <2>2. /\ UNCHANGED <<received, sending, plan>> /\ ledger \subseteq ledger' /\ ledger' \subseteq ledger \cup {a}
        /\ \A b \in Account : row[b].status = "paid" \/ b # a => row'[b] = row[b]
        /\ row'[a].status = "paid" => row[a].status = "paid" \/ a \in ledger'
        /\ a \in ledger' => a \in ledger \/ (row'[a].status = "paid" /\ \E r \in outbox' : r.msg = Msg(a, "paid"))
    BY <1>a, <1>2, WhoPays
  <2>3. PaidIsBooked'
    BY <1>a, <2>2 DEF PaidIsBooked
  <2>4. PaymentIsReported'
    BY <1>a, <2>1, <2>2 DEF PaymentIsReported
  <2>5. ForgottenIsKnown'
    BY <1>a, <1>b, <2>2 DEF ForgottenIsKnown
  <2>6. PlanIsSettled'
    BY <1>a, <2>2 DEF PlanIsSettled
  <2> QED BY <2>3, <2>4, <2>5, <2>6
<1>3. ASSUME NEW s \in Sender, Send(s) PROVE received \subseteq received' /\ UNCHANGED <<row, ledger, plan, outbox>>
  BY <1>a, <1>3, SendFacts DEF Send, paidVars, goneVars
<1>4. ASSUME NEW s \in Sender, Stamp(s)
      PROVE  UNCHANGED <<row, ledger, plan, received>> /\ Reports(outbox) \subseteq Reports(outbox')
  <2>1. \A r \in outbox : \E q \in outbox' : q.msg = r.msg
    <3>1. /\ sending[s].at # "idle"
          /\ outbox' = {IF r.msg = sending[s].msg /\ ~r.delivered THEN Stamped(r, sending[s].at) ELSE r : r \in outbox}
      BY <1>4 DEF Stamp
    <3> QED BY <1>a, <3>1, StampedRows
  <2> QED BY <1>4, <2>1 DEF Stamp, paidVars, goneVars
<1>5. ASSUME EraseCommit
      PROVE  UNCHANGED <<row, ledger, plan, received>> /\ Reports(outbox) \subseteq Reports(outbox')
  <2> DEFINE box == {r \in outbox : ~GoesWith(r.msg, erasing.account)}
  <2>1. box \subseteq OutboxRow /\ IsFiniteSet(box)
    BY <1>c, FS_Subset
  <2>2. outbox' = Left(box)
    BY <1>5 DEF EraseCommit
  <2>3. ASSUME NEW a \in Account, NEW r \in outbox, r.msg = Msg(a, "paid") PROVE r \in box
    BY <2>3 DEF GoesWith, Msg
  <2> HIDE DEF box
  <2>4. \A r \in box : \E q \in outbox' : q.msg = r.msg
    BY <2>1, <2>2, LeftRows
  <2> QED BY <1>5, <2>3, <2>4 DEF EraseCommit
<1> HIDE DEF Reports
<1>6. ASSUME Crash PROVE UNCHANGED <<row, ledger, outbox, received>> /\ plan' = NoPlan
  BY <1>6 DEF Crash, paidVars
<1>7. ASSUME NEW a \in Account, NEW x \in Wallet, Link(a, x) PROVE UNCHANGED <<row, ledger, outbox, received, plan>>
  BY <1>7 DEF Link, paidVars, mailVars, goneVars
<1>8. ASSUME NEW a \in Account, EraseRequest(a) PROVE UNCHANGED <<row, ledger, outbox, received, plan>>
  BY <1>8 DEF EraseRequest, EraseRead, paidVars, mailVars
<1>9. UNCHANGED vars => UNCHANGED <<row, ledger, outbox, received, plan>>
  BY DEF vars, paidVars, mailVars, goneVars
<1>10. ASSUME UNCHANGED <<row, ledger, outbox, received, plan>>
       PROVE  (PaidIsBooked /\ PaymentIsReported /\ ForgottenIsKnown /\ PlanIsSettled)'
  BY <1>a, <1>10 DEF PaidIsBooked, PaymentIsReported, ForgottenIsKnown, PlanIsSettled
<1>11. UNCHANGED outbox => Reports(outbox) \subseteq Reports(outbox')
  OBVIOUS
<1> QED BY <1>b, <1>1, <1>2, <1>3, <1>4, <1>5, <1>6, <1>7, <1>8, <1>9, <1>10, <1>11 DEF Next, Retention

\* A pass is planned only when every report has been delivered.
LEMMA PlanStep ==
  ASSUME Inductive, RetentionPlan
  PROVE  (PaidIsBooked /\ PaymentIsReported /\ ForgottenIsKnown /\ PlanIsSettled)'
<1>a. TypeOK /\ DeliveredIsReceived /\ PaidIsBooked /\ PaymentIsReported /\ ForgottenIsKnown
  BY DEF Inductive
<1>1. UNCHANGED <<row, ledger, outbox, received>> /\ Finished /\ plan'.rows = row /\ plan'.accounts \subseteq Account
  BY DEF RetentionPlan, paidVars, mailVars
<1>2. ASSUME NEW a \in Account, row[a].status = "paid" PROVE Msg(a, "paid") \in received
  <2>1. a \in ledger
    BY <1>a, <1>2 DEF PaidIsBooked
  <2>2. ASSUME NEW r \in outbox, r.msg = Msg(a, "paid") PROVE r.msg \in received
    <3>1. r.msg.kind = "paid"
      BY <2>2 DEF Msg
    <3> QED BY <1>a, <1>1, <2>2, <3>1 DEF Finished, DeliveredIsReceived
  <2> QED BY <1>a, <2>1, <2>2 DEF PaymentIsReported
<1>3. PlanIsSettled'
  BY <1>1, <1>2 DEF PlanIsSettled
<1> QED BY <1>a, <1>1, <1>3 DEF PaidIsBooked, PaymentIsReported, ForgottenIsKnown

\* ... and removes rows that are still as they were planned.
LEMMA ActStep ==
  ASSUME Inductive, RetentionAct
  PROVE  (PaidIsBooked /\ PaymentIsReported /\ ForgottenIsKnown /\ PlanIsSettled)'
<1>a. TypeOK /\ PaidIsBooked /\ PaymentIsReported /\ ForgottenIsKnown /\ PlanIsSettled
  BY DEF Inductive
<1>b. plan' = NoPlan /\ UNCHANGED <<ledger, received>> /\ plan # NoPlan
  BY DEF RetentionAct
<1>1. CASE UNCHANGED <<row, outbox>>
  BY <1>a, <1>b, <1>1 DEF PaidIsBooked, PaymentIsReported, ForgottenIsKnown, PlanIsSettled
<1>2. CASE ~UNCHANGED <<row, outbox>>
  <2> DEFINE box == {r \in outbox : ~(r.msg.account \in plan.accounts /\ r.msg.kind # "event")}
  <2>1. /\ row' = [a \in Account |-> IF a \in plan.accounts THEN [status |-> "none", recipient |-> NoWallet] ELSE row[a]]
        /\ outbox' = Left(box) /\ \A a \in plan.accounts : row[a] = plan.rows[a]
    BY <1>2 DEF RetentionAct
  <2>2. box \subseteq OutboxRow /\ IsFiniteSet(box)
    BY <1>a, FS_Subset DEF TypeOK
  <2>3. ASSUME NEW a \in Account, a \notin plan.accounts, NEW r \in outbox, r.msg = Msg(a, "paid") PROVE r \in box
    BY <2>3 DEF Msg
  <2> HIDE DEF box
  <2>4. \A r \in box : \E q \in outbox' : q.msg = r.msg
    BY <2>1, <2>2, LeftRows
  <2>5. ASSUME NEW a \in ledger, a \in plan.accounts PROVE Msg(a, "paid") \in received
    BY <1>a, <1>b, <2>1, <2>5 DEF ForgottenIsKnown, PlanIsSettled
  <2>6. \A a \in ledger : a \in Account
    BY <1>a DEF TypeOK
  <2>7. PaymentIsReported'
    BY <1>a, <1>b, <2>3, <2>4, <2>5, <2>6 DEF PaymentIsReported
  <2>8. ForgottenIsKnown'
    BY <1>a, <1>b, <2>1, <2>5, <2>6 DEF ForgottenIsKnown
  <2>9. PaidIsBooked'
    BY <1>a, <1>b, <2>1 DEF PaidIsBooked
  <2> QED BY <1>b, <2>7, <2>8, <2>9 DEF PlanIsSettled
<1> QED BY <1>1, <1>2

-----------------------------------------------------------------------------
(* Theorems.                                                               *)

\* The inductive invariant: types; delivered reports are received; a paid row is on the
\* public ledger; what a pass is going to remove is known; and the two properties.
THEOREM InductiveHolds == Spec => []Inductive
<1>1. Init => Inductive
  <2> SUFFICES ASSUME Init PROVE Inductive
    OBVIOUS
  <2>1. TypeOK
    BY FS_EmptySet DEF Init, TypeOK, Winnings
  <2> QED BY <2>1 DEF Init, Inductive, DeliveredIsReceived, Idle, PaidIsBooked, PlanIsSettled, PaymentIsReported, ForgottenIsKnown
<1>2. Inductive /\ [Next]_vars => Inductive'
  <2> SUFFICES ASSUME Inductive, [Next]_vars PROVE Inductive'
    OBVIOUS
  <2>1. TypeOK'
    BY TypeStep DEF Inductive
  <2> QED BY <2>1, DeliveredStep, PaymentsStep, PlanStep, ActStep DEF Inductive
<1> QED BY <1>1, <1>2, PTL DEF Spec

\* A payment on the public ledger has been reported, or its report is still in the
\* outbox, though its account was erased or its records removed.
THEOREM PaymentsReported == Spec => []PaymentIsReported
<1>1. Inductive => PaymentIsReported
  BY DEF Inductive
<1> QED BY <1>1, InductiveHolds, PTL

\* The record of a paid winner is removed only when the backend knows of the payment.
THEOREM OnlyKnownForgotten == Spec => []ForgottenIsKnown
<1>1. Inductive => ForgottenIsKnown
  BY DEF Inductive
<1> QED BY <1>1, InductiveHolds, PTL
================================================================================
