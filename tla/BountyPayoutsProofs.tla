-------------------------- MODULE BountyPayoutsProofs --------------------------
(***************************************************************************)
(* Proofs about BountyPayouts, for any calls, approvals, payouts, webhook  *)
(* deliveries and caps: the agent's view of a payout against the signer's  *)
(* journal, the chain and the escrows, whatever is lost in between.        *)
(***************************************************************************)
EXTENDS BountyPayouts, PayoutSignerProofs

-----------------------------------------------------------------------------
(* The signer inside the system.                                           *)

\* An approval is one of those there are; what it signs names a payout, a bounty, a route.
LEMMA TermsTyped ==
  ASSUME NEW a \in Approval
  PROVE  /\ Terms[a].payout \in Payout /\ Terms[a].bounty \in Bounty /\ Terms[a].route \in Route
         /\ a # NoApproval
BY ConstantsAssumption, NoApprovalAssumption DEF TermsRecord

\* The signer's own step: it changes no approval, takes no handler back to where it
\* began, and never changes an answer it gave.
LEMMA SignerFrame ==
  ASSUME Inductive, (\E e \in Call : Handle(e)) \/ Crash \/ World
  PROVE  /\ approval' = approval
         /\ \A c \in Call : (pc'[c] = "idle" <=> pc[c] = "idle") /\ (reply[c] # "none" => reply'[c] = reply[c])
<1>a. TypeOK /\ \A c \in Call : AtPlace(c)
  BY DEF Inductive
<1>b. pc \in [Call -> {"idle", "done"} \cup Waiting] /\ reply \in [Call -> {"none"} \cup Answered]
  BY <1>a DEF TypeOK
<1>c. \A c \in Call : pc[c] \in Waiting => reply[c] = "none"
  BY <1>a DEF AtPlace
<1>1. ASSUME NEW e \in Call, pc[e] \in Waiting, NEW place \in {"done"} \cup Waiting,
             pc' = [pc EXCEPT ![e] = place], reply' = reply \/ \E what \in Answered : reply' = [reply EXCEPT ![e] = what]
      PROVE  \A c \in Call : (pc'[c] = "idle" <=> pc[c] = "idle") /\ (reply[c] # "none" => reply'[c] = reply[c])
  BY <1>b, <1>c, <1>1 DEF Waiting
<1>2. ASSUME NEW e \in Call, Handle(e)
      PROVE  /\ approval' = approval /\ pc[e] \in Waiting
             /\ \E place \in {"done"} \cup Waiting : pc' = [pc EXCEPT ![e] = place]
             /\ reply' = reply \/ \E what \in Answered : reply' = [reply EXCEPT ![e] = what]
  <2> USE DEF Waiting, Answered, Refusal, Goto, Answer
  <2>1. CASE FetchFails(e) \/ ReadFails(e) \/ PrepareFails(e) \/ SignFails(e) \/ OutcomeUnknown(e)
    BY <2>1 DEF FetchFails, ReadFails, PrepareFails, SignFails, OutcomeUnknown
  <2>2. CASE Prepare(e) \/ Broadcast(e) \/ SignAndSend(e) \/ MarkReleaseSent(e)
    BY <2>2 DEF Prepare, Broadcast, SignAndSend, MarkReleaseSent
  <2>3. CASE ConfirmPay(e) \/ MarkReleaseConfirmed(e)
    BY <2>3 DEF ConfirmPay, MarkReleaseConfirmed
  <2>4. ASSUME NEW next \in {"preparing", "signing"}, Reserve(e, next)
        PROVE  /\ \E place \in {"done"} \cup Waiting : pc' = [pc EXCEPT ![e] = place]
               /\ reply' = reply \/ \E what \in Answered : reply' = [reply EXCEPT ![e] = what]
    BY <2>4 DEF Reserve
  <2>5. CASE FetchPull(e)
    BY <2>4, <2>5 DEF FetchPull
  <2>6. CASE ReadEscrow(e)
    BY <2>4, <2>6 DEF ReadEscrow
  <2> QED BY <1>2, <2>1, <2>2, <2>3, <2>5, <2>6 DEF Handle
<1>3. ASSUME Crash
      PROVE  approval' = approval /\ \A c \in Call : (pc'[c] = "idle" <=> pc[c] = "idle") /\ (reply[c] # "none" => reply'[c] = reply[c])
  BY <1>b, <1>c, <1>3 DEF Crash, Waiting
<1>4. ASSUME World PROVE UNCHANGED callVars
  BY <1>4 DEF World, Land, Die, EscrowAssign, EscrowUnassign, EscrowRefund, Merge, NextDay
<1> QED BY <1>1, <1>2, <1>3, <1>4 DEF callVars

\* An approve handler that reads its row chooses the approval of a call that has none.
LEMMA ReadKeepsSigner ==
  ASSUME Inductive, NEW c \in Call, NEW a \in Approval, pc[c] = "idle",
         approval' = [approval EXCEPT ![c] = a], UNCHANGED <<pc, day, reply, journalVars, net, worldVars>>
  PROVE  Inductive'
<1>a. TypeOK /\ (\A d \in Call : AtPlace(d) /\ OfRow(d)) /\ RowsDiffer /\ RowsFit /\ OkMeansPaid
  BY DEF Inductive
<1>b. row[c] = "none" /\ reply[c] = "none" /\ net[c] = "none"
  BY <1>a DEF AtPlace, OfRow, Counted, TypeOK
<1>c. \A d \in Call : d # c => approval'[d] = approval[d]
  BY <1>a DEF TypeOK
<1>d. UNCHANGED <<pc, day, reply, row, sig, net, escrow, pull, now>>
  BY DEF journalVars, worldVars
<1>1. TypeOK'
  BY <1>a, <1>d DEF TypeOK
<1>2. ASSUME NEW d \in Call PROVE AtPlace(d)' /\ OfRow(d)'
  <2>1. CASE d = c
    BY <1>b, <1>d, <2>1 DEF AtPlace, OfRow, Counted, Waiting, Refusal
  <2>2. CASE d # c
    BY <1>a, <1>c, <1>d, <2>2 DEF AtPlace, OfRow, Counted, T
  <2> QED BY <2>1, <2>2
<1>3. RowsDiffer'
  BY <1>a, <1>b, <1>c, <1>d DEF RowsDiffer, T
<1>4. RowsFit'
  <2>1. ASSUME NEW ledger \in Currency \X BOOLEAN, NEW d \in 1 .. MaxDay
        PROVE  CommittedUnits(ledger, d)' = CommittedUnits(ledger, d)
    BY <1>b, <1>c, <1>d DEF CommittedUnits, Counted, T, LedgerOf
  <2> QED BY <1>a, <2>1 DEF RowsFit, CommittedToday
<1>5. OkMeansPaid'
  BY <1>a, <1>b, <1>c, <1>d DEF OkMeansPaid, T
<1> QED BY <1>1, <1>2, <1>3, <1>4, <1>5 DEF Inductive

\* What a step of the system is to the signer.
LEMMA SystemSteps ==
  ASSUME SystemInductive, [SystemNext]_allVars
  PROVE  \/ UNCHANGED vars
         \/ \E c \in Call, a \in Approval : ApproveRead(c, a)
         \/ \E c \in Call : ApproveCall(c)
         \/ ((\E c \in Call : Handle(c)) \/ Crash \/ World) /\ UNCHANGED agentVars
<1>1. ASSUME NEW h \in Delivery, NEW p \in Payout, NEW others \in BOOLEAN, GateDecides(h, p, others) PROVE UNCHANGED vars
  BY <1>1 DEF GateDecides
<1>2. ASSUME NEW h \in Delivery, InsertPayout(h) \/ MarkPayable(h) PROVE UNCHANGED vars
  BY <1>2 DEF InsertPayout, MarkPayable
<1>3. ASSUME NEW c \in Call, Approve(c) PROVE UNCHANGED vars \/ ApproveCall(c)
  BY <1>3 DEF Approve, ApproveClaim, ApproveUnreachable, ApproveRefused, ApproveUnreadable, ApproveUnknown, Failing, ApproveConfirmed,
     MarkPaid, MarkReleased, TellPaid
<1>4. AgentCrash => UNCHANGED vars
  BY DEF AgentCrash
<1>5. UNCHANGED allVars => UNCHANGED vars
  BY DEF allVars
<1> QED BY <1>1, <1>2, <1>3, <1>4, <1>5 DEF SystemNext

\* ... so the signer's invariant holds in the system.
LEMMA SignerStep == SystemInductive /\ [SystemNext]_allVars => Inductive'
<1> SUFFICES ASSUME SystemInductive, [SystemNext]_allVars PROVE Inductive'
  OBVIOUS
<1>a. Inductive /\ \A c \in Call : AtStep(c)
  BY DEF SystemInductive, AgentInductive
<1>1. ASSUME NEW c \in Call, NEW a \in Approval, ApproveRead(c, a) PROVE Inductive'
  <2>1. pc[c] = "idle"
    BY <1>1, <1>a DEF ApproveRead, AtStep
  <2>2. approval' = [approval EXCEPT ![c] = a] /\ UNCHANGED <<pc, day, reply, journalVars, net, worldVars>>
    BY <1>1 DEF ApproveRead
  <2> QED BY <1>a, <2>1, <2>2, ReadKeepsSigner
<1>2. ASSUME NEW c \in Call, ApproveCall(c) PROVE Inductive'
  <2>1. approval[c] \in Approval /\ Request(c, Terms[approval[c]].route, approval[c])
    BY <1>2, <1>a DEF ApproveCall, AtStep
  <2>2. Terms[approval[c]].route \in Route
    BY <2>1, TermsTyped
  <2>3. Next
    BY <2>1, <2>2 DEF Next
  <2> QED BY <1>a, <2>3, InductiveStep
<1>3. CASE (\E c \in Call : Handle(c)) \/ Crash \/ World
  BY <1>a, <1>3, InductiveStep DEF Next
<1>4. CASE UNCHANGED vars
  BY <1>a, <1>4, InductiveStep
<1> QED BY <1>1, <1>2, <1>3, <1>4, SystemSteps

-----------------------------------------------------------------------------
(* The agent's types.                                                      *)

LEMMA AgentTypeStep == SystemInductive /\ [SystemNext]_allVars => AgentTypeOK'
<1> SUFFICES ASSUME SystemInductive, [SystemNext]_allVars PROVE AgentTypeOK'
  OBVIOUS
<1>a. AgentTypeOK /\ \A c \in Call : AtStep(c)
  BY DEF SystemInductive, AgentInductive
<1>b. ASSUME NEW c \in Call, step[c] # "idle" PROVE T(c).payout \in Payout /\ T(c).bounty \in Bounty
  BY <1>a, <1>b, TermsTyped DEF AtStep, T
<1> USE <1>a DEF AgentTypeOK, At, Live, AtWork
<1>1. ASSUME NEW h \in Delivery, NEW p \in Payout, NEW others \in BOOLEAN, GateDecides(h, p, others) PROVE AgentTypeOK'
  BY <1>1 DEF GateDecides
<1>2. ASSUME NEW h \in Delivery, InsertPayout(h) PROVE AgentTypeOK'
  <2>1. gate' \in [Delivery -> [at : {"idle", "inserting", "opening", "done"}, payout : Payout \cup {NoPayout}, pass : BOOLEAN]]
    BY <1>2 DEF InsertPayout
  <2>2. payout' \in [Payout -> {"none", "refused"} \cup Live]
    BY <1>2 DEF InsertPayout
  <2> QED BY <1>2, <2>1, <2>2 DEF InsertPayout
<1>3. ASSUME NEW h \in Delivery, MarkPayable(h) PROVE AgentTypeOK'
  BY <1>3 DEF MarkPayable
<1>4. ASSUME NEW c \in Call, NEW a \in Approval, ApproveRead(c, a) PROVE AgentTypeOK'
  BY <1>4 DEF ApproveRead
<1>5. ASSUME NEW c \in Call, ApproveClaim(c) PROVE AgentTypeOK'
  BY <1>5 DEF ApproveClaim, T
<1>6. ASSUME NEW c \in Call, ApproveCall(c) PROVE AgentTypeOK'
  BY <1>6 DEF ApproveCall
<1>7. ASSUME NEW c \in Call, ApproveUnreachable(c) \/ ApproveRefused(c) \/ ApproveUnreadable(c) \/ ApproveUnknown(c) PROVE AgentTypeOK'
  BY <1>7 DEF ApproveUnreachable, ApproveRefused, ApproveUnreadable, ApproveUnknown, Failing
<1>8. ASSUME NEW c \in Call, ApproveConfirmed(c) PROVE AgentTypeOK'
  BY <1>8 DEF ApproveConfirmed
<1>9. ASSUME NEW c \in Call, MarkPaid(c) PROVE AgentTypeOK'
  BY <1>9 DEF MarkPaid
<1>10. ASSUME NEW c \in Call, MarkReleased(c) PROVE AgentTypeOK'
  BY <1>10 DEF MarkReleased
<1>11. ASSUME NEW c \in Call, TellPaid(c) PROVE AgentTypeOK'
  BY <1>b, <1>11 DEF TellPaid
<1>12. ASSUME AgentCrash PROVE AgentTypeOK'
  <2>1. step' \in [Call -> {"idle", "done"} \cup AtWork]
    BY <1>12 DEF AgentCrash
  <2>2. gate' \in [Delivery -> [at : {"idle", "inserting", "opening", "done"}, payout : Payout \cup {NoPayout}, pass : BOOLEAN]]
    BY <1>12 DEF AgentCrash
  <2> QED BY <1>12, <2>1, <2>2 DEF AgentCrash
<1>13. UNCHANGED agentVars => AgentTypeOK'
  BY DEF agentVars
<1> HIDE DEF AgentTypeOK
<1> QED BY <1>1, <1>2, <1>3, <1>4, <1>5, <1>6, <1>7, <1>8, <1>9, <1>10, <1>11, <1>12, <1>13 DEF SystemNext, Approve, allVars

-----------------------------------------------------------------------------
(* The approve handlers and their claims.                                  *)

\* The gate leaves handlers alone, and writes only rows that nobody has claimed.
LEMMA GateKeepsRows ==
  ASSUME SystemInductive, NEW h \in Delivery,
         (\E p \in Payout, others \in BOOLEAN : GateDecides(h, p, others)) \/ InsertPayout(h) \/ MarkPayable(h)
  PROVE  /\ UNCHANGED <<vars, step, mirror, told>>
         /\ payout' = payout \/ \E p \in Payout, status \in {"awaiting_approval", "refused"} :
              payout[p] = "none" /\ payout' = [payout EXCEPT ![p] = status]
<1>a. AtGate(h)
  BY DEF SystemInductive, AgentInductive
<1>1. CASE \E p \in Payout, others \in BOOLEAN : GateDecides(h, p, others)
  BY <1>1 DEF GateDecides
<1>2. CASE InsertPayout(h)
  BY <1>a, <1>2 DEF InsertPayout, AtGate
<1>3. CASE MarkPayable(h)
  BY <1>3 DEF MarkPayable
<1> QED BY <1>1, <1>2, <1>3

\* A handler that the signer has answered, or that gave up waiting, ends its claim.
LEMMA ClaimEnds ==
  ASSUME SystemInductive, NEW c \in Call,
         ApproveUnreachable(c) \/ ApproveRefused(c) \/ ApproveUnreadable(c) \/ ApproveUnknown(c) \/ ApproveConfirmed(c)
  PROVE  /\ step[c] \in {"calling", "waiting"} /\ UNCHANGED <<vars, gate, mirror, told>>
         /\ \E status \in {"submitted", "failed", "confirmed"}, to \in {"done", "paying"} :
              /\ payout' = [payout EXCEPT ![T(c).payout] = status] /\ step' = [step EXCEPT ![c] = to]
              /\ status = "failed" => reply[c] \in Refusal \cup {"ok"}
              /\ to = "paying" => step[c] = "waiting" /\ reply[c] = "ok"
              /\ status = "confirmed" => reply[c] = "ok"
<1>1. CASE ApproveUnreachable(c)
  BY <1>1 DEF ApproveUnreachable, Failing, At
<1>2. CASE ApproveRefused(c)
  BY <1>2 DEF ApproveRefused, Failing, At
<1>3. CASE ApproveUnknown(c)
  BY <1>3 DEF ApproveUnknown, Failing, At
<1>4. CASE ApproveConfirmed(c)
  BY <1>4 DEF ApproveConfirmed, At
<1>5. CASE ApproveUnreadable(c)
  BY <1>5 DEF ApproveUnreadable, Failing, At
<1> QED BY <1>1, <1>2, <1>3, <1>4, <1>5

\* What follows a confirmed payout writes no payout row.
LEMMA TailSteps ==
  ASSUME NEW c \in Call, MarkPaid(c) \/ MarkReleased(c) \/ TellPaid(c)
  PROVE  /\ UNCHANGED <<vars, payout, gate>> /\ step[c] \in {"paying", "mirroring", "telling"}
         /\ \E to \in {"mirroring", "telling", "done"} :
              /\ step' = [step EXCEPT ![c] = to]
              /\ to = "mirroring" => T(c).route = "escrow"
<1>1. CASE MarkPaid(c)
  BY <1>1 DEF MarkPaid, At
<1>2. CASE MarkReleased(c)
  BY <1>2 DEF MarkReleased, At
<1>3. CASE TellPaid(c)
  BY <1>3 DEF TellPaid, At
<1> QED BY <1>1, <1>2, <1>3

LEMMA CallsStep ==
  ASSUME SystemInductive, [SystemNext]_allVars
  PROVE  (\A c \in Call : AtStep(c)' /\ OfClaim(c)') /\ ClaimedOnce'
<1>a. /\ payout \in [Payout -> {"none", "refused"} \cup Live] /\ step \in [Call -> {"idle", "done"} \cup AtWork]
      /\ approval \in [Call -> Approval \cup {NoApproval}] /\ pc \in [Call -> {"idle", "done"} \cup Waiting]
      /\ reply \in [Call -> {"none"} \cup Answered]
  BY DEF SystemInductive, AgentInductive, AgentTypeOK, Inductive, TypeOK
<1>b. \A c \in Call : AtStep(c) /\ OfClaim(c)
  BY DEF SystemInductive, AgentInductive
<1>c. ClaimedOnce
  BY DEF SystemInductive, AgentInductive
<1>d. \A c \in Call : pc[c] = "idle" => reply[c] = "none"
  BY DEF SystemInductive, Inductive, AtPlace
<1>e. \A c \in Call : step[c] # "idle" => T(c).payout \in Payout
  BY <1>b, TermsTyped DEF AtStep, T
<1>f. UNCHANGED vars => UNCHANGED <<pc, approval, day, reply>>
  BY DEF vars, callVars
<1> DEFINE Goal == (\A c \in Call : AtStep(c)' /\ OfClaim(c)') /\ ClaimedOnce'
\* rows that no claim is about may change
<1>1. ASSUME UNCHANGED vars, \A c \in Call : step'[c] = step[c] \/ (step[c] # "idle" /\ step'[c] = "done"),
             \A p \in Payout : payout'[p] = payout[p] \/ payout[p] = "none"
      PROVE  Goal
  <2>1. \A c \in Call : Claimed(c)' => Claimed(c)
    BY <1>f, <1>1 DEF Claimed
  <2>2. \A c \in Call : T(c)' = T(c)
    BY <1>f, <1>1 DEF T
  <2>3. ASSUME NEW c \in Call PROVE AtStep(c)'
    BY <1>b, <1>e, <1>f, <1>1, <2>2 DEF AtStep, Claimed
  <2>4. ASSUME NEW c \in Call PROVE OfClaim(c)'
    <3>1. Claimed(c) => step[c] # "idle"
      BY <1>b DEF AtStep, Claimed
    <3> QED BY <1>b, <1>e, <1>f, <1>1, <2>1, <2>2, <3>1 DEF OfClaim
  <2>5. ClaimedOnce'
    BY <1>c, <2>1, <2>2 DEF ClaimedOnce
  <2> QED BY <2>3, <2>4, <2>5
<1>2. ASSUME NEW h \in Delivery,
             (\E p \in Payout, others \in BOOLEAN : GateDecides(h, p, others)) \/ InsertPayout(h) \/ MarkPayable(h)
      PROVE  Goal
  BY <1>a, <1>1, <1>2, GateKeepsRows
<1>3. ASSUME AgentCrash PROVE Goal
  <2>1. UNCHANGED <<vars, payout>> /\ step' = [c \in Call |-> IF step[c] \in AtWork THEN "done" ELSE step[c]]
    BY <1>3 DEF AgentCrash
  <2> QED BY <1>1, <2>1 DEF AtWork
<1>4. ASSUME NEW e \in Call, NEW a \in Approval, ApproveRead(e, a) PROVE Goal
  <2>1. /\ step[e] = "idle" /\ step' = [step EXCEPT ![e] = "claiming"] /\ approval' = [approval EXCEPT ![e] = a]
        /\ SignedTerms(a) = PayoutTerms[Terms[a].payout] /\ UNCHANGED <<pc, reply, payout>>
    BY <1>4 DEF ApproveRead, At
  <2>2. pc[e] = "idle" /\ ~Claimed(e) /\ ~Claimed(e)'
    BY <1>a, <1>b, <2>1 DEF AtStep, Claimed
  <2>3. \A c \in Call : c # e => T(c)' = T(c) /\ (Claimed(c)' <=> Claimed(c)) /\ step'[c] = step[c] /\ approval'[c] = approval[c]
    BY <1>a, <2>1 DEF T, Claimed
  <2>4. AtStep(e)'
    BY <1>a, <2>1, <2>2 DEF AtStep, T
  <2>5. ASSUME NEW c \in Call, c # e PROVE AtStep(c)'
    BY <1>b, <2>1, <2>3, <2>5 DEF AtStep
  <2>6. ASSUME NEW c \in Call PROVE OfClaim(c)'
    BY <1>b, <2>1, <2>2, <2>3 DEF OfClaim
  <2>7. ClaimedOnce'
    BY <1>c, <2>2, <2>3 DEF ClaimedOnce
  <2> QED BY <2>4, <2>5, <2>6, <2>7
<1>5. ASSUME NEW e \in Call, ApproveClaim(e) PROVE Goal
  <2>1. CASE payout[T(e).payout] # "awaiting_approval"
    BY <1>a, <1>1, <1>5, <2>1 DEF ApproveClaim, At, T
  <2>2. CASE payout[T(e).payout] = "awaiting_approval"
    <3>1. /\ step[e] = "claiming" /\ step' = [step EXCEPT ![e] = "calling"] /\ UNCHANGED vars
          /\ payout' = [payout EXCEPT ![T(e).payout] = "approved"]
      BY <1>5, <2>2 DEF ApproveClaim, At, T
    <3>2. \A c \in Call : T(c)' = T(c) /\ (c # e => (Claimed(c)' <=> Claimed(c)) /\ step'[c] = step[c])
      BY <1>a, <1>f, <3>1 DEF T, Claimed
    <3>3. ASSUME NEW c \in Call, c # e, Claimed(c) \/ step[c] = "waiting" PROVE T(c).payout # T(e).payout
      BY <1>b, <2>2, <3>3 DEF OfClaim, AtStep, Claimed
    <3>4. T(e).payout \in Payout /\ payout'[T(e).payout] = "approved" /\ pc[e] = "idle"
      BY <1>a, <1>b, <1>e, <3>1 DEF AtStep
    <3>5. \A p \in Payout : p # T(e).payout => payout'[p] = payout[p]
      BY <1>a, <3>1
    <3>6. AtStep(e)' /\ OfClaim(e)'
      BY <1>a, <1>b, <1>f, <3>1, <3>2, <3>4 DEF AtStep, OfClaim
    <3>7. ASSUME NEW c \in Call, c # e PROVE AtStep(c)'
      BY <1>b, <1>e, <1>f, <3>1, <3>2, <3>3, <3>5, <3>7 DEF AtStep, Claimed
    <3>8. ASSUME NEW c \in Call, c # e PROVE OfClaim(c)'
      <4>1. Claimed(c) => step[c] # "idle"
        BY <1>b DEF AtStep, Claimed
      <4> QED BY <1>b, <1>e, <1>f, <3>1, <3>2, <3>3, <3>5, <3>8, <4>1 DEF OfClaim
    <3>9. ClaimedOnce'
      BY <1>c, <3>2, <3>3 DEF ClaimedOnce
    <3> QED BY <3>6, <3>7, <3>8, <3>9
  <2> QED BY <2>1, <2>2
<1>6. ASSUME NEW e \in Call, ApproveCall(e) PROVE Goal
  <2>1. step[e] = "calling" /\ step' = [step EXCEPT ![e] = "waiting"] /\ payout' = payout
    BY <1>6 DEF ApproveCall, At
  <2>2. /\ approval' = [approval EXCEPT ![e] = approval[e]]
        /\ \/ pc' = [pc EXCEPT ![e] = "fetching"] /\ reply' = reply
           \/ pc' = [pc EXCEPT ![e] = "done"] /\ reply' = [reply EXCEPT ![e] = "refused"]
    BY <1>6 DEF ApproveCall, Request, Goto, Answer
  <2>3. \A c \in Call : approval'[c] = approval[c]
    BY <1>a, <2>2
  <2>4. \A c \in Call : T(c)' = T(c) /\ (c # e => pc'[c] = pc[c] /\ reply'[c] = reply[c] /\ step'[c] = step[c])
    BY <1>a, <2>1, <2>2, <2>3 DEF T
  <2>5. pc'[e] # "idle" /\ Claimed(e) /\ step'[e] = "waiting" /\ payout[T(e).payout] = "approved"
    BY <1>a, <1>b, <2>1, <2>2 DEF Claimed, AtStep
  <2>6. \A c \in Call : Claimed(c)' => Claimed(c)
    BY <2>4, <2>5 DEF Claimed
  <2>7. ASSUME NEW c \in Call PROVE AtStep(c)'
    <3>1. CASE c = e
      BY <1>b, <2>1, <2>3, <2>4, <2>5, <3>1 DEF AtStep
    <3>2. CASE c # e
      BY <1>b, <2>1, <2>3, <2>4, <3>2 DEF AtStep
    <3> QED BY <3>1, <3>2
  <2>8. ASSUME NEW c \in Call PROVE OfClaim(c)'
    BY <1>b, <2>1, <2>4, <2>5, <2>6 DEF OfClaim
  <2>9. ClaimedOnce'
    BY <1>c, <2>4, <2>6 DEF ClaimedOnce
  <2> QED BY <2>7, <2>8, <2>9
<1>7. ASSUME NEW e \in Call, ApproveUnreachable(e) \/ ApproveRefused(e) \/ ApproveUnreadable(e) \/ ApproveUnknown(e) \/ ApproveConfirmed(e) PROVE Goal
  <2>1. step[e] \in {"calling", "waiting"} /\ UNCHANGED vars
    BY <1>7, ClaimEnds
  <2>2. PICK status \in {"submitted", "failed", "confirmed"}, to \in {"done", "paying"} :
              /\ payout' = [payout EXCEPT ![T(e).payout] = status] /\ step' = [step EXCEPT ![e] = to]
              /\ status = "failed" => reply[e] \in Refusal \cup {"ok"}
              /\ to = "paying" => step[e] = "waiting" /\ reply[e] = "ok"
    BY <1>7, ClaimEnds
  <2>3. \A c \in Call : T(c)' = T(c) /\ (c # e => step'[c] = step[c]) /\ (Claimed(c)' => Claimed(c))
    BY <1>a, <1>f, <2>1, <2>2 DEF T, Claimed
  <2>4. Claimed(e) /\ T(e).payout \in Payout /\ payout'[T(e).payout] = status /\ step'[e] = to
    BY <1>a, <1>b, <1>e, <2>1, <2>2 DEF AtStep, Claimed
  <2>5. \A p \in Payout : p # T(e).payout => payout'[p] = payout[p]
    BY <1>a, <2>2
  <2>6. ASSUME NEW c \in Call, c # e, Claimed(c) PROVE T(c).payout # T(e).payout /\ step[c] # "idle"
    BY <1>b, <1>c, <2>4, <2>6 DEF ClaimedOnce, AtStep, Claimed
  <2>7. AtStep(e)'
    BY <1>b, <1>f, <2>1, <2>2, <2>3, <2>4 DEF AtStep
  <2>8. OfClaim(e)'
    BY <1>f, <2>1, <2>2, <2>3, <2>4 DEF OfClaim
  <2>9. ASSUME NEW c \in Call, c # e PROVE AtStep(c)'
    <3>1. step[c] \in {"calling", "waiting"} => Claimed(c)
      BY <1>b DEF AtStep, Claimed
    <3> QED BY <1>b, <1>e, <1>f, <2>1, <2>3, <2>5, <2>6, <2>9, <3>1 DEF AtStep
  <2>10. ASSUME NEW c \in Call, c # e PROVE OfClaim(c)'
    BY <1>b, <1>e, <1>f, <2>1, <2>3, <2>5, <2>6, <2>10 DEF OfClaim
  <2>11. ClaimedOnce'
    BY <1>c, <2>3 DEF ClaimedOnce
  <2> QED BY <2>7, <2>8, <2>9, <2>10, <2>11
<1>8. ASSUME NEW e \in Call, MarkPaid(e) \/ MarkReleased(e) \/ TellPaid(e) PROVE Goal
  <2>1. UNCHANGED <<vars, payout>> /\ step[e] \in {"paying", "mirroring", "telling"}
    BY <1>8, TailSteps
  <2>2. PICK to \in {"mirroring", "telling", "done"} : step' = [step EXCEPT ![e] = to] /\ (to = "mirroring" => T(e).route = "escrow")
    BY <1>8, TailSteps
  <2>3. \A c \in Call : T(c)' = T(c) /\ (c # e => step'[c] = step[c]) /\ (Claimed(c)' => Claimed(c))
    BY <1>a, <1>f, <2>1, <2>2 DEF T, Claimed
  <2>4. ASSUME NEW c \in Call PROVE AtStep(c)'
    BY <1>a, <1>b, <1>f, <2>1, <2>2, <2>3 DEF AtStep
  <2>5. ASSUME NEW c \in Call PROVE OfClaim(c)'
    BY <1>b, <1>f, <2>1, <2>3 DEF OfClaim
  <2>6. ClaimedOnce'
    BY <1>c, <2>3 DEF ClaimedOnce
  <2> QED BY <2>4, <2>5, <2>6
<1>9. ASSUME (\E e \in Call : Handle(e)) \/ Crash \/ World, UNCHANGED agentVars PROVE Goal
  <2>1. /\ approval' = approval
        /\ \A c \in Call : (pc'[c] = "idle" <=> pc[c] = "idle") /\ (reply[c] # "none" => reply'[c] = reply[c])
    BY <1>9, SignerFrame DEF SystemInductive
  <2>2. UNCHANGED <<payout, step>>
    BY <1>9 DEF agentVars
  <2>3. \A c \in Call : T(c)' = T(c) /\ (Claimed(c)' <=> Claimed(c))
    BY <2>1, <2>2 DEF T, Claimed
  <2>4. ASSUME NEW c \in Call PROVE AtStep(c)'
    BY <1>b, <2>1, <2>2, <2>3 DEF AtStep
  <2>5. ASSUME NEW c \in Call PROVE OfClaim(c)'
    BY <1>b, <2>1, <2>2, <2>3 DEF OfClaim, Refusal
  <2>6. ClaimedOnce'
    BY <1>c, <2>3 DEF ClaimedOnce
  <2> QED BY <2>4, <2>5, <2>6
<1>10. ASSUME UNCHANGED vars, UNCHANGED agentVars PROVE Goal
  <2>1. UNCHANGED <<vars, payout, step>>
    BY <1>10 DEF agentVars
  <2> QED BY <1>1, <2>1
<1> HIDE DEF Goal
<1>11. ASSUME NEW e \in Call, Approve(e) PROVE Goal
  BY <1>5, <1>6, <1>7, <1>8, <1>11 DEF Approve
<1>12. Goal
  BY <1>2, <1>3, <1>4, <1>9, <1>10, <1>11 DEF SystemNext, allVars
<1> QED BY <1>12 DEF Goal

-----------------------------------------------------------------------------
(* The gates: no two decided on the same row, and nobody else writes a row *)
(* that a gate is about to insert.                                         *)

LEMMA GateStep ==
  ASSUME SystemInductive, [SystemNext]_allVars
  PROVE  (\A h \in Delivery : AtGate(h)') /\ GatesDiffer'
<1>a. /\ payout \in [Payout -> {"none", "refused"} \cup Live]
      /\ gate \in [Delivery -> [at : {"idle", "inserting", "opening", "done"}, payout : Payout \cup {NoPayout}, pass : BOOLEAN]]
  BY DEF SystemInductive, AgentInductive, AgentTypeOK
<1>b. (\A h \in Delivery : AtGate(h)) /\ GatesDiffer
  BY DEF SystemInductive, AgentInductive
<1>c. \A c \in Call : step[c] \in {"claiming", "calling", "waiting"} => T(c).payout \in Payout
  BY TermsTyped DEF SystemInductive, AgentInductive, AtStep, T
<1> DEFINE Goal == (\A h \in Delivery : AtGate(h)') /\ GatesDiffer'
\* a row that exists is written, and gates are where they were or end
<1>1. ASSUME \A p \in Payout : payout'[p] = payout[p] \/ payout[p] # "none",
             \A h \in Delivery : gate'[h].payout = gate[h].payout /\ gate'[h].at \in {gate[h].at, "done"}
      PROVE  Goal
  BY <1>b, <1>1 DEF AtGate, GatesDiffer
<1>2. ASSUME NEW h \in Delivery, NEW p \in Payout, NEW others \in BOOLEAN, GateDecides(h, p, others) PROVE Goal
  <2>1. /\ payout[p] = "none" /\ payout' = payout /\ \A g \in Delivery : gate[g].payout # p
        /\ \E pass : gate' = [gate EXCEPT ![h] = [at |-> "inserting", payout |-> p, pass |-> pass]]
    BY <1>2 DEF GateDecides
  <2>2. gate'[h].payout = p /\ \A g \in Delivery : g # h => gate'[g] = gate[g]
    BY <1>a, <2>1
  <2> QED BY <1>b, <2>1, <2>2 DEF AtGate, GatesDiffer
<1>3. ASSUME NEW h \in Delivery, InsertPayout(h) PROVE Goal
  <2>1. PICK at \in {"opening", "done"} : gate' = [gate EXCEPT ![h].at = at]
    BY <1>3 DEF InsertPayout
  <2>2. gate[h].payout \in Payout /\ \A p \in Payout : p # gate[h].payout => payout'[p] = payout[p]
    BY <1>a, <1>b, <1>3 DEF InsertPayout, AtGate
  <2>3. /\ gate'[h].at \in {"opening", "done"} /\ gate'[h].payout = gate[h].payout
        /\ \A g \in Delivery : g # h => gate'[g] = gate[g]
    BY <1>a, <2>1
  <2>4. \A g \in Delivery : g # h => gate[g].payout # gate[h].payout
    BY <1>b, <2>2, NoPayoutAssumption DEF GatesDiffer
  <2> QED BY <1>b, <2>2, <2>3, <2>4 DEF AtGate, GatesDiffer
<1>4. ASSUME NEW h \in Delivery, MarkPayable(h) PROVE Goal
  BY <1>1, <1>4, <1>a DEF MarkPayable
<1>5. ASSUME NEW c \in Call, NEW a \in Approval, ApproveRead(c, a) PROVE Goal
  BY <1>1, <1>5 DEF ApproveRead
<1>6. ASSUME NEW c \in Call, ApproveClaim(c) PROVE Goal
  <2>1. gate' = gate /\ (payout' = payout \/ (payout[T(c).payout] = "awaiting_approval" /\ payout' = [payout EXCEPT ![T(c).payout] = "approved"]))
    BY <1>6 DEF ApproveClaim, T
  <2> QED BY <1>1, <1>a, <2>1
<1>7. ASSUME NEW c \in Call, ApproveCall(c) PROVE Goal
  BY <1>1, <1>7 DEF ApproveCall
<1>8. ASSUME NEW c \in Call, ApproveUnreachable(c) \/ ApproveRefused(c) \/ ApproveUnreadable(c) \/ ApproveUnknown(c) \/ ApproveConfirmed(c) PROVE Goal
  <2>1. step[c] \in {"calling", "waiting"} /\ gate' = gate /\ \E status : payout' = [payout EXCEPT ![T(c).payout] = status]
    BY <1>8, ClaimEnds
  <2>2. payout[T(c).payout] = "approved"
    BY <2>1 DEF SystemInductive, AgentInductive, AtStep
  <2> QED BY <1>1, <1>a, <2>1, <2>2
<1>9. ASSUME NEW c \in Call, MarkPaid(c) \/ MarkReleased(c) \/ TellPaid(c) PROVE Goal
  BY <1>1, <1>9, TailSteps
<1>10. ASSUME AgentCrash PROVE Goal
  <2>1. payout' = payout /\ \A h \in Delivery : gate'[h] = gate[h] \/ gate'[h] = [gate[h] EXCEPT !.at = "done"]
    BY <1>10 DEF AgentCrash
  <2>2. ASSUME NEW h \in Delivery PROVE gate'[h].payout = gate[h].payout /\ gate'[h].at \in {gate[h].at, "done"}
    <3>1. gate[h] \in [at : {"idle", "inserting", "opening", "done"}, payout : Payout \cup {NoPayout}, pass : BOOLEAN]
      BY <1>a
    <3> QED BY <2>1, <3>1
  <2> QED BY <1>1, <2>1, <2>2
<1>11. ASSUME UNCHANGED agentVars PROVE Goal
  <2>1. UNCHANGED <<payout, gate>>
    BY <1>11 DEF agentVars
  <2> QED BY <1>1, <2>1
<1> HIDE DEF Goal
<1>12. Goal
  BY <1>2, <1>3, <1>4, <1>5, <1>6, <1>7, <1>8, <1>9, <1>10, <1>11 DEF SystemNext, Approve, allVars
<1> QED BY <1>12 DEF Goal

-----------------------------------------------------------------------------
(* The chain inside the system: what executed stays, with its terms, and a *)
(* released escrow stays released.                                         *)

LEMMA ApprovalKept ==
  ASSUME SystemInductive, [SystemNext]_allVars, NEW c \in Call, step[c] # "idle"
  PROVE  approval'[c] = approval[c]
<1>a. approval \in [Call -> Approval \cup {NoApproval}]
  BY DEF SystemInductive, Inductive, TypeOK
<1>1. ASSUME NEW e \in Call, NEW a \in Approval, ApproveRead(e, a) PROVE approval'[c] = approval[c]
  BY <1>a, <1>1 DEF ApproveRead
<1>2. ASSUME NEW e \in Call, ApproveCall(e) PROVE approval'[c] = approval[c]
  BY <1>a, <1>2 DEF ApproveCall, Request
<1>3. ASSUME (\E e \in Call : Handle(e)) \/ Crash \/ World PROVE approval'[c] = approval[c]
  BY <1>3, SignerFrame DEF SystemInductive
<1>4. ASSUME UNCHANGED vars PROVE approval'[c] = approval[c]
  BY <1>4 DEF vars, callVars
<1> QED BY <1>1, <1>2, <1>3, <1>4, SystemSteps

\* What has a transaction, or an answer, belongs to a handler that read its row.
LEMMA SentWasRead ==
  ASSUME SystemInductive, NEW c \in Call, net[c] # "none" \/ reply[c] # "none"
  PROVE  step[c] # "idle" /\ approval[c] \in Approval /\ SignedTerms(approval[c]) = PayoutTerms[T(c).payout]
<1>1. pc[c] # "idle"
  BY DEF SystemInductive, Inductive, AtPlace, OfRow, Counted
<1> QED BY <1>1 DEF SystemInductive, AgentInductive, AtStep

LEMMA ChainStep ==
  ASSUME SystemInductive, [SystemNext]_allVars
  PROVE  /\ \A b \in Bounty : escrow[b] = "released" => escrow'[b] = "released"
         /\ \A c \in Call : net[c] = "landed" => net'[c] = "landed"
         /\ \A c \in Call : net'[c] = "landed" /\ net[c] # "landed" =>
              net[c] = "pending" /\ (T(c).route = "escrow" => escrow'[T(c).bounty] = "released")
<1>a. /\ net \in [Call -> {"none", "pending", "landed", "dead"}] /\ escrow \in [Bounty -> Recipient \cup Nobody]
      /\ TypeOK /\ \A c \in Call : AtPlace(c)
  BY DEF SystemInductive, Inductive, TypeOK
<1> DEFINE Goal == /\ \A b \in Bounty : escrow[b] = "released" => escrow'[b] = "released"
                   /\ \A c \in Call : net[c] = "landed" => net'[c] = "landed"
                   /\ \A c \in Call : net'[c] = "landed" /\ net[c] # "landed" =>
                        net[c] = "pending" /\ (T(c).route = "escrow" => escrow'[T(c).bounty] = "released")
<1>1. ASSUME UNCHANGED <<net, escrow>> PROVE Goal
  BY <1>1
<1>2. ASSUME NEW e \in Call, Handle(e) PROVE Goal
  <2>1. \A c \in Call : net[c] = "landed" => net'[c] = "landed"
    BY <1>a, <1>2, LandedStays DEF Next
  <2>2. escrow' = escrow
    BY <1>2 DEF Handle, FetchFails, FetchPull, ReadFails, ReadEscrow, PrepareFails, Prepare, Broadcast, SignFails, SignAndSend,
       OutcomeUnknown, ConfirmPay, MarkReleaseSent, MarkReleaseConfirmed, worldVars
  <2>3. \A c \in Call : net'[c] = "landed" => net[c] = "landed"
    BY <1>a, <1>2, HandleFrame
  <2> QED BY <2>1, <2>2, <2>3
<1>3. ASSUME NEW e \in Call, Land(e) PROVE Goal
  <2>1. net[e] = "pending" /\ net' = [net EXCEPT ![e] = "landed"]
    BY <1>3 DEF Land
  <2>2. T(e).bounty \in Bounty
    BY <2>1, SentWasRead, TermsTyped DEF T
  <2>3. /\ \A b \in Bounty : escrow[b] = "released" => escrow'[b] = "released"
        /\ T(e).route = "escrow" => escrow'[T(e).bounty] = "released"
    BY <1>a, <1>3, <2>2 DEF Land
  <2> QED BY <1>a, <2>1, <2>3
<1>4. ASSUME NEW e \in Call, Die(e) PROVE Goal
  <2>1. net[e] = "pending" /\ net' = [net EXCEPT ![e] = "dead"] /\ escrow' = escrow
    BY <1>4 DEF Die, worldVars
  <2> QED BY <1>a, <2>1
<1>5. ASSUME NEW b \in Bounty, (\E r \in Recipient : EscrowAssign(b, r)) \/ EscrowUnassign(b) \/ EscrowRefund(b) PROVE Goal
  <2>1. net' = net /\ escrow[b] # "released" /\ \E to : escrow' = [escrow EXCEPT ![b] = to]
    BY <1>5, RecipientAssumption DEF EscrowAssign, EscrowUnassign, EscrowRefund, Nobody
  <2> QED BY <1>a, <2>1
<1>6. ASSUME Crash \/ NextDay \/ \E p \in Pull, how \in {"merged", "selfMerged"} : Merge(p, how) PROVE Goal
  BY <1>1, <1>6 DEF Crash, NextDay, Merge, worldVars
<1>7. ASSUME NEW e \in Call, ApproveCall(e) \/ \E a \in Approval : ApproveRead(e, a) PROVE Goal
  BY <1>1, <1>7 DEF ApproveCall, ApproveRead, Request, worldVars
<1>8. ASSUME UNCHANGED vars PROVE Goal
  BY <1>1, <1>8 DEF vars, worldVars
<1> HIDE DEF Goal
<1>9. Goal
  BY <1>2, <1>3, <1>4, <1>5, <1>6, <1>7, <1>8, SystemSteps DEF World
<1> QED BY <1>9 DEF Goal

\* The agent shows a payment only when the signer answered that it was made.
LEMMA ShownStep == SystemInductive /\ [SystemNext]_allVars => ShownIsPaid'
<1> SUFFICES ASSUME SystemInductive, [SystemNext]_allVars, NEW p \in Payout, payout'[p] = "confirmed" \/ p \in told'
             PROVE  \E c \in Call : net'[c] = "landed" /\ T(c)'.payout = p
  BY DEF ShownIsPaid
<1>a. /\ payout \in [Payout -> {"none", "refused"} \cup Live] /\ told \subseteq Payout
      /\ ShownIsPaid /\ OkMeansPaid /\ \A c \in Call : AtStep(c)
  BY DEF SystemInductive, AgentInductive, AgentTypeOK, Inductive
<1>b. ASSUME NEW c \in Call, net[c] = "landed" PROVE net'[c] = "landed" /\ T(c)' = T(c)
  BY <1>b, ChainStep, SentWasRead, ApprovalKept DEF T
<1>c. ASSUME NEW c \in Call, net[c] = "landed", T(c).payout = p
      PROVE  \E e \in Call : net'[e] = "landed" /\ T(e)'.payout = p
  BY <1>b, <1>c
<1>1. CASE payout[p] = "confirmed" \/ p \in told
  BY <1>1, <1>a, <1>c DEF ShownIsPaid
<1>2. ASSUME NEW c \in Call, reply[c] = "ok", T(c).payout = p
      PROVE  \E e \in Call : net'[e] = "landed" /\ T(e)'.payout = p
  <2>1. PICK d \in Call : net[d] = "landed" /\ T(d).payout = T(c).payout
    BY <1>2, <1>a DEF OkMeansPaid
  <2> QED BY <1>2, <2>1, <1>c
<1>3. ASSUME ~(payout[p] = "confirmed" \/ p \in told)
      PROVE  \E c \in Call : reply[c] = "ok" /\ T(c).payout = p
  <2> DEFINE Who == \E c \in Call : reply[c] = "ok" /\ T(c).payout = p
             New == (payout'[p] # payout[p] /\ payout'[p] = "confirmed") \/ p \in told' \ told
  <2>0. New
    BY <1>3
  <2>1. ASSUME NEW h \in Delivery,
               (\E q \in Payout, others \in BOOLEAN : GateDecides(h, q, others)) \/ InsertPayout(h) \/ MarkPayable(h)
        PROVE  ~New
    <3>1. told' = told /\ (payout' = payout \/ \E q \in Payout, status \in {"awaiting_approval", "refused"} :
                             payout' = [payout EXCEPT ![q] = status])
      BY <2>1, GateKeepsRows
    <3> QED BY <1>a, <3>1
  <2>2. ASSUME NEW c \in Call, (\E a \in Approval : ApproveRead(c, a)) \/ ApproveCall(c) PROVE ~New
    BY <2>2 DEF ApproveRead, ApproveCall
  <2>3. ASSUME NEW c \in Call, ApproveClaim(c) PROVE ~New
    BY <1>a, <2>3 DEF ApproveClaim
  <2>4. ASSUME NEW c \in Call, ApproveUnreachable(c) \/ ApproveRefused(c) \/ ApproveUnreadable(c) \/ ApproveUnknown(c) \/ ApproveConfirmed(c) PROVE Who
    <3>1. told' = told /\ \E status \in {"submitted", "failed", "confirmed"} :
             payout' = [payout EXCEPT ![T(c).payout] = status] /\ (status = "confirmed" => reply[c] = "ok")
      BY <2>4, ClaimEnds
    <3> QED BY <1>a, <2>0, <3>1
  <2>5. ASSUME NEW c \in Call, MarkPaid(c) \/ MarkReleased(c) PROVE ~New
    BY <2>5 DEF MarkPaid, MarkReleased
  <2>6. ASSUME NEW c \in Call, TellPaid(c) PROVE Who
    <3>1. reply[c] = "ok"
      BY <1>a, <2>6 DEF TellPaid, AtStep
    <3> QED BY <2>0, <2>6, <3>1 DEF TellPaid
  <2>7. (AgentCrash \/ UNCHANGED allVars \/ UNCHANGED agentVars) => ~New
    BY DEF AgentCrash, allVars, agentVars
  <2> HIDE DEF New, Who
  <2>8. ASSUME NEW c \in Call, Approve(c) PROVE Who
    BY <2>0, <2>2, <2>3, <2>4, <2>5, <2>6, <2>8 DEF Approve
  <2>9. Who
    BY <2>0, <2>1, <2>2, <2>7, <2>8 DEF SystemNext
  <2> QED BY <2>9 DEF Who
<1> QED BY <1>1, <1>2, <1>3

\* An escrow is recorded as released only when the program released it for good.
LEMMA ReleaseStep == SystemInductive /\ [SystemNext]_allVars => ReleaseIsFinal'
<1> SUFFICES ASSUME SystemInductive, [SystemNext]_allVars PROVE ReleaseIsFinal'
  OBVIOUS
<1>a. /\ mirror \in [Bounty -> {"assigned", "released"}] /\ ReleaseIsFinal /\ OkMeansPaid
      /\ \A c \in Call : AtStep(c)
  BY DEF SystemInductive, AgentInductive, AgentTypeOK, Inductive
<1>1. ASSUME NEW c \in Call, net'[c] = "landed", T(c)'.route = "escrow" PROVE escrow'[T(c)'.bounty] = "released"
  <2>1. net[c] # "none" /\ (net[c] # "landed" => (T(c).route = "escrow" => escrow'[T(c).bounty] = "released"))
    BY <1>1, ChainStep
  <2>2. approval[c] \in Approval /\ T(c)' = T(c)
    BY <2>1, SentWasRead, ApprovalKept DEF T
  <2>3. T(c).bounty \in Bounty
    BY <2>2, TermsTyped DEF T
  <2> QED BY <1>1, <1>a, <2>1, <2>2, <2>3, ChainStep DEF ReleaseIsFinal
<1>2. ASSUME NEW b \in Bounty, mirror'[b] = "released", mirror[b] # "released" PROVE escrow[b] = "released"
  <2>1. PICK c \in Call : MarkReleased(c)
    <3>1. ASSUME NEW h \in Delivery,
                 (\E q \in Payout, others \in BOOLEAN : GateDecides(h, q, others)) \/ InsertPayout(h) \/ MarkPayable(h)
          PROVE  mirror' = mirror
      BY <3>1, GateKeepsRows
    <3>2. ASSUME NEW c \in Call, (\E a \in Approval : ApproveRead(c, a)) \/ ApproveCall(c) \/ ApproveClaim(c) PROVE mirror' = mirror
      BY <3>2 DEF ApproveRead, ApproveCall, ApproveClaim
    <3>3. ASSUME NEW c \in Call, ApproveUnreachable(c) \/ ApproveRefused(c) \/ ApproveUnreadable(c) \/ ApproveUnknown(c) \/ ApproveConfirmed(c) PROVE mirror' = mirror
      BY <3>3, ClaimEnds
    <3>4. ASSUME NEW c \in Call, MarkPaid(c) \/ TellPaid(c) PROVE mirror' = mirror
      BY <3>4 DEF MarkPaid, TellPaid
    <3>5. (AgentCrash \/ UNCHANGED allVars \/ UNCHANGED agentVars) => mirror' = mirror
      BY DEF AgentCrash, allVars, agentVars
    <3>6. mirror' # mirror
      BY <1>2
    <3> QED BY <3>1, <3>2, <3>3, <3>4, <3>5, <3>6 DEF SystemNext, Approve
  <2>2. b = T(c).bounty /\ T(c).route = "escrow" /\ reply[c] = "ok"
    BY <1>2, <1>a, <2>1 DEF MarkReleased, AtStep
  <2>3. PICK d \in Call : net[d] = "landed" /\ T(d).payout = T(c).payout
    BY <1>a, <2>2 DEF OkMeansPaid
  <2>4. /\ approval[c] \in Approval /\ SignedTerms(approval[c]) = PayoutTerms[T(c).payout]
        /\ approval[d] \in Approval /\ SignedTerms(approval[d]) = PayoutTerms[T(d).payout]
    BY <2>2, <2>3, SentWasRead
  <2>5. \A a \in Approval : SignedTerms(a).bounty = Terms[a].bounty /\ SignedTerms(a).route = Terms[a].route
    BY ConstantsAssumption DEF SignedTerms, TermsRecord
  <2>6. T(d).route = "escrow" /\ T(d).bounty = b
    BY <2>2, <2>3, <2>4, <2>5 DEF T
  <2> QED BY <1>a, <2>3, <2>6 DEF ReleaseIsFinal
<1>3. ASSUME NEW b \in Bounty, mirror'[b] = "released" PROVE escrow'[b] = "released"
  BY <1>2, <1>3, <1>a, ChainStep DEF ReleaseIsFinal
<1> QED BY <1>1, <1>3 DEF ReleaseIsFinal

-----------------------------------------------------------------------------
(* The invariant of the system, and what follows from it.                  *)

LEMMA AgentBegins == AgentInit /\ Init => AgentInductive
<1> SUFFICES ASSUME AgentInit, Init PROVE AgentInductive
  OBVIOUS
<1>1. AgentTypeOK
  BY DEF AgentInit, AgentTypeOK
<1>2. \A c \in Call : AtStep(c) /\ OfClaim(c) /\ ~Claimed(c)
  BY DEF AgentInit, Init, AtStep, OfClaim, Claimed
<1>3. (\A h \in Delivery : AtGate(h)) /\ GatesDiffer
  BY DEF AgentInit, AtGate, GatesDiffer
<1>4. ShownIsPaid
  BY DEF AgentInit, ShownIsPaid
<1>5. ReleaseIsFinal
  BY DEF AgentInit, Init, ReleaseIsFinal
<1> QED BY <1>1, <1>2, <1>3, <1>4, <1>5 DEF AgentInductive, ClaimedOnce

\* The inductive invariant of the agent and the signer together: every reachable
\* state of the system satisfies it.
THEOREM SystemInvariant == SystemSpec => []SystemInductive
<1>1. SystemInit => SystemInductive
  BY AgentBegins, InductiveInit DEF SystemInit, SystemInductive
<1>2. SystemInductive /\ [SystemNext]_allVars => SystemInductive'
  BY SignerStep, AgentTypeStep, CallsStep, GateStep, ShownStep, ReleaseStep DEF SystemInductive, AgentInductive
<1> QED BY <1>1, <1>2, PTL DEF SystemSpec

\* What the agent shows is what happened: a payout shown or announced as paid was
\* paid; the outcome of a failed one is never open (it has no transaction and will
\* have none, or the signer's ok to its call came back unreadable); and an escrow is
\* shown released only if the program released it.
THEOREM WhatIsShownIsTrue == SystemSpec => []ShownIsTrue
<1>1. ASSUME SystemInductive PROVE ShownIsTrue
  <2>1. ASSUME NEW p \in Payout, p \in PublicPayments \cup told PROVE \E c \in Call : net[c] = "landed" /\ T(c).payout = p
    BY <1>1, <2>1 DEF SystemInductive, AgentInductive, ShownIsPaid, PublicPayments
  <2>2. ASSUME NEW p \in Payout, payout[p] = "failed", NEW c \in Call, T(c).payout = p, net[c] # "none" PROVE reply[c] = "ok"
    <3>1. Claimed(c)
      BY <1>1, <2>2 DEF SystemInductive, Inductive, AtPlace, OfRow, Counted, Claimed
    <3>2. reply[c] \in Refusal \cup {"ok"}
      BY <1>1, <2>2, <3>1 DEF SystemInductive, AgentInductive, OfClaim
    <3> QED BY <1>1, <2>2, <3>2 DEF SystemInductive, Inductive, OfRow
  <2>3. \A b \in Bounty : mirror[b] = "released" => escrow[b] = "released"
    BY <1>1 DEF SystemInductive, AgentInductive, ReleaseIsFinal
  <2> QED BY <2>1, <2>2, <2>3 DEF ShownIsTrue
<1> QED BY <1>1, SystemInvariant, PTL

\* The agent does not lose sight of money that moved or still can: its row was
\* approved, and is confirmed or still says that the outcome is not known, except
\* where the signer's ok to this very call could not be read.
THEOREM PaidPayoutsKnown == SystemSpec => []PaidIsKnown
<1>1. ASSUME SystemInductive PROVE PaidIsKnown
  <2>1. ASSUME NEW c \in Call, MayPay(c), payout[T(c).payout] \notin {"approved", "submitted", "confirmed"}
        PROVE  payout[T(c).payout] = "failed" /\ reply[c] = "ok" /\ net[c] = "landed"
    <3>1. Claimed(c) /\ reply[c] \notin Refusal
      BY <1>1, <2>1 DEF SystemInductive, Inductive, AtPlace, OfRow, Counted, Claimed, MayPay
    <3>2. payout[T(c).payout] = "failed" /\ reply[c] = "ok"
      BY <1>1, <2>1, <3>1 DEF SystemInductive, AgentInductive, OfClaim
    <3>3. PICK d \in Call : net[d] = "landed" /\ T(d).payout = T(c).payout
      BY <1>1, <3>2 DEF SystemInductive, Inductive, OkMeansPaid
    <3>4. Claimed(d)
      BY <1>1, <3>3 DEF SystemInductive, Inductive, AtPlace, OfRow, Counted, Claimed
    <3> QED BY <1>1, <3>1, <3>2, <3>3, <3>4 DEF SystemInductive, AgentInductive, ClaimedOnce
  <2> QED BY <2>1 DEF PaidIsKnown
<1> QED BY <1>1, SystemInvariant, PTL
================================================================================
